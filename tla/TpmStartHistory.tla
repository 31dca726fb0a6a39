-------------------------- MODULE TpmStartHistory --------------------------
(***************************************************************************)
(* TpmService with a history variable: the locality of the Start message   *)
(* that is being, or was last, handled.                                    *)
(***************************************************************************)
EXTENDS MCTpmService

VARIABLE given

HistoryInit == Init /\ given = NO_ACTIVE_LOCALITY

HistoryNext ==
  \/ \E func \in {"COMMAND", "LOCALITY", "INVALID"}, arg \in LocalityArgs :
       StartHandler(func, arg) /\ given' = Truncated(arg)
  \/ (ClientStep \/ OtherMessages \/ HandlerStep \/ (TpmStep /\ UNCHANGED svcVars))
       /\ UNCHANGED given

HistorySpec == HistoryInit /\ [][HistoryNext]_<<vars, given>>

\* StartHandler's exit is commented "Clean up the internal CRB at the given locality":
\* the control bits a Start clears are those of the locality it was sent for, so a
\* client never loses the bits it has set to a message of another client.
CleansGivenLocality ==
  [][\A l \in Locality : crb[l].bits # {} /\ crb'[l].bits = {} => given' = l]_<<vars, given>>
=============================================================================
