------------------------------ MODULE PageSet ------------------------------
(***************************************************************************)
(* What a page allocator promises.  A request is met with pages that were  *)
(* free and refused only when they do not exist; an aligned request may    *)
(* also be refused when there is no room to align any run.                 *)
(***************************************************************************)
EXTENDS Integers

VARIABLES free, held, region, last

RunOf(p, n) == p .. (p + n - 1)

\* Whether the n pages at p are what the request asks for.
Meets(op, n, arg, p) ==
  CASE op = "any" -> TRUE
    [] op = "max" -> p + n <= arg
    [] op = "address" -> p = arg
    [] OTHER -> p % arg = 0

\* Whether a request must be met.
Possible(op, n, arg) ==
  /\ n > 0
  /\ IF op = "aligned"
     THEN \E p \in free : RunOf(p, n + arg) \subseteq free
     ELSE \E p \in free : RunOf(p, n) \subseteq free /\ Meets(op, n, arg, p)

Init ==
  /\ free = region
  /\ held = {}
  /\ last = [op |-> "none", pages |-> 0, arg |-> 0, memory |-> 0]

Grant ==
  \E p \in free :
    /\ last'.op \in {"any", "max", "address", "aligned"}
    /\ last'.pages > 0
    /\ last'.memory = p
    /\ RunOf(p, last'.pages) \subseteq free
    /\ Meets(last'.op, last'.pages, last'.arg, p)
    /\ free' = free \ RunOf(p, last'.pages)
    /\ held' = held \cup RunOf(p, last'.pages)
    /\ UNCHANGED region

Refuse ==
  /\ last'.op \in {"any", "max", "address", "aligned"}
  /\ last'.memory = 0
  /\ ~Possible(last'.op, last'.pages, last'.arg)
  /\ UNCHANGED <<free, held, region>>

Release ==
  /\ last'.op = "free"
  /\ LET run == RunOf(last'.arg, last'.pages) IN
     IF run \subseteq held
     THEN /\ last'.memory = last'.arg
          /\ free' = free \cup run
          /\ held' = held \ run
     ELSE /\ last'.memory = 0
          /\ UNCHANGED <<free, held>>
  /\ UNCHANGED region

Next == Grant \/ Refuse \/ Release

Spec == Init /\ [][Next]_<<free, held, region, last>>
=============================================================================
