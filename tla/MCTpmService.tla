--------------------------- MODULE MCTpmService ---------------------------
(* Instances of TpmService for TLC. *)
EXTENDS TpmService

\* The three kinds of device: CRB, CRB with idle bypass, FIFO.
KindsAll == {[crb |-> TRUE, bypass |-> FALSE], [crb |-> TRUE, bypass |-> TRUE],
             [crb |-> FALSE, bypass |-> FALSE]}
KindsCrbFifo == {[crb |-> TRUE, bypass |-> TRUE], [crb |-> FALSE, bypass |-> FALSE]}

\* Locality 0, locality 1 written with bits above the low byte, an invalid one.
ArgsAll == {0, 257, 2}

\* A normal-world sender and a logical partition of TF-A (0xFF01).
SourcesAll == {1, 65281}
SourcesTfa == {65281}
=============================================================================
