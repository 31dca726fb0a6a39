-------------------------- MODULE MCPartitionTest --------------------------
(* An instance of FfaPartitionTestApp for TLC. *)
EXTENDS FfaPartitionTestApp

\* GUIDs with sixteen different bytes.
GuidFrom(n) == [i \in GuidBytes |-> n + i]
NotificationGuidMC == GuidFrom(16)
TestGuidMC == GuidFrom(32)
Tpm2GuidMC == GuidFrom(48)

ArgsOf(list) == [a \in Args |-> IF a < Len(list) THEN list[a + 1] ELSE ZeroReg]

\* The peer raises the event the application waits for, tries to unregister a mapping of
\* the application, registers one of its own in a service of the application, and sends
\* the test service an unknown opcode.
PeerRequestsMC ==
  {<<TestGuidMC, ArgsOf(<<Scalar(1), WordOf(UUID_LO), WordOf(BATTERY_HI), Scalar(2)>>)>>,
   <<NotificationGuidMC, ArgsOf(<<ZeroReg, ZeroReg, ZeroReg, WordOf(UUID_LO), WordOf(BATTERY_HI),
                                  Scalar(3), Scalar(1), MapReg(<<2, 2>>)>>)>>,
   <<NotificationGuidMC, ArgsOf(<<ZeroReg, ZeroReg, ZeroReg, WordOf(UUID_LO), WordOf(THERMAL_HI),
                                  Scalar(2), Scalar(1), MapReg(<<5, 8>>)>>)>>,
   <<TestGuidMC, ArgsOf(<<Scalar(7)>>)>>}

\* Version 1 arguments that look like an event.
LegacyArgsMC == {ArgsOf(<<Scalar(1), WordOf(UUID_LO), WordOf(BATTERY_HI), Scalar(2)>>)}

\* Every service once; one missing; two partitions with the test service and an older
\* framework; no MM.
Once == [s \in Services |-> 1]
SystemsMC == {[deployed |-> Once, version |-> <<1, 2>>],
              [deployed |-> [Once EXCEPT !["notification"] = 0], version |-> <<1, 2>>],
              [deployed |-> [Once EXCEPT !["test"] = 2], version |-> <<1, 1>>],
              [deployed |-> [Once EXCEPT !["mm"] = 0], version |-> <<1, 2>>]}

\* What requests carry to the notification service.
MappingsMC == {[cookie |-> p[1], id |-> p[2], perVcpu |-> FALSE] :
                 p \in {<<0, 0>>, <<1, 1>>, <<2, 2>>, <<3, 3>>, <<4, 4>>, <<0, 5>>, <<1, 6>>,
                        <<2, 7>>, <<2, 8>>, <<3, 7>>, <<5, 8>>}}
WordsMC == {WordOf(n) : n \in {0, UUID_LO, BATTERY_HI, THERMAL_HI}}
UuidWordsMC == WordsMC \X WordsMC

ASSUME InstanceAssumption == SuiteFits /\ PeersKeepClear
=============================================================================
