----------------------- MODULE NotificationDocumented -----------------------
(***************************************************************************)
(* What the comments of NotificationServiceLib say, checked on its model   *)
(* with a history variable: the tables as the last message found them.     *)
(***************************************************************************)
EXTENDS MCNotification

VARIABLE before

HistoryInit == Init /\ before = tables

HistoryNext ==
  \/ Message /\ before' = tables
  \/ LoopStep /\ UNCHANGED before

HistorySpec == HistoryInit /\ [][HistoryNext]_<<vars, before>>

\* "Copy the temporaries back if everything was successful" (UpdateServiceInfo): a
\* request that is answered with an error leaves the tables as it found them.
FailureLeavesTables ==
  ~Busy /\ reply \in {"INVALID_PARAMETER", "NO_MEM"} => tables = before

\* "Attempt to find the cookie within the mapped list" (NotificationServiceIdSet): an
\* event is raised only for a cookie that is mapped, cookie 0 included.
EventsOnlyForMapped ==
  \A n \in notified : \E e \in Used : Info(e).cookie = n.cookie /\ Info(e).source = n.dest

\* "A pointer to the service that matches the UUID" (LocateService): a request for a
\* UUID is never applied to the service of another UUID.
LocatedServiceMatches ==
  Busy /\ InUse[call.slot] => ServiceUuid[call.slot] = call.uuid
=============================================================================
