-------------------------- MODULE MCNotification --------------------------
(* Instances of NotificationService for TLC. *)
EXTENDS NotificationService

\* Cookie 0 (the value of a free entry) and 1; of a two-bit int, ID 1 is the sign bit
\* and ID 2 wraps around to the bit of ID 0.
MappingsAll == {[cookie |-> 0, id |-> 0, perVcpu |-> FALSE],
                [cookie |-> 1, id |-> 1, perVcpu |-> TRUE],
                [cookie |-> 1, id |-> 2, perVcpu |-> FALSE]}

\* Register pairs <<low, high>>: three UUIDs that differ in their first half, and one
\* that differs from the first only in its second half.
TwoBytes(high, low) == [k \in 0 .. 1 |-> IF k = 0 THEN low ELSE high]
WordsAll == {<<TwoBytes(0, 1), TwoBytes(0, 1)>>, <<TwoBytes(1, 0), TwoBytes(0, 1)>>,
             <<TwoBytes(0, 1), TwoBytes(1, 0)>>, <<TwoBytes(0, 1), TwoBytes(1, 1)>>}
=============================================================================
