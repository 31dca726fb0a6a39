-------------------------- MODULE TpmStateMachine --------------------------
(***************************************************************************)
(* What the Start ABI promises: one state machine shared by all localities *)
(* and an exclusive owner.  A locality is acquired only when free and      *)
(* given up only by its owner, so a different locality must wait for a     *)
(* relinquish; the machine moves only while some locality owns it, along   *)
(* IDLE -> READY -> COMPLETE -> IDLE, back from READY to IDLE, and from    *)
(* COMPLETE straight to READY only on a device with idle bypass.  Owner    *)
(* and state move only in the step that answers a Start with success (the  *)
(* docs: "It only transitions to another state upon successful             *)
(* transmission"): no error and no message on the way moves them.          *)
(***************************************************************************)
CONSTANTS
  Owners, NoOwner,
  Answers, Success   \* what is answered, and which answer means success

VARIABLES state, owner, bypass,
  answer   \* the last answer, or that one is due

Init ==
  /\ state = "IDLE"
  /\ owner = NoOwner
  /\ bypass \in BOOLEAN
  /\ answer \in Answers

Acquire ==
  /\ owner = NoOwner
  /\ owner' \in Owners
  /\ answer' = Success
  /\ UNCHANGED <<state, bypass>>

Relinquish ==
  /\ owner \in Owners
  /\ owner' = NoOwner
  /\ answer' = Success
  /\ UNCHANGED <<state, bypass>>

Edges == {<<"IDLE", "READY">>, <<"READY", "IDLE">>, <<"READY", "COMPLETE">>,
          <<"COMPLETE", "IDLE">>}

Move ==
  /\ owner \in Owners
  /\ \/ <<state, state'>> \in Edges
     \/ bypass /\ state = "COMPLETE" /\ state' = "READY"
  /\ answer' = Success
  /\ UNCHANGED <<owner, bypass>>

\* A message is taken up, refused or failed, or served without a move.
Answer ==
  /\ answer' \in Answers
  /\ UNCHANGED <<state, owner, bypass>>

Next == Acquire \/ Relinquish \/ Move \/ Answer

vars == <<state, owner, bypass, answer>>
Spec == Init /\ [][Next]_vars
=============================================================================
