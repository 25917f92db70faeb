--------------------------- MODULE MCSmmRendezvous ---------------------------
(***************************************************************************)
(* Small platforms for SmmRendezvous: two processors with procedures and a *)
(* second SMI, or three processors and one SMI.                            *)
(***************************************************************************)
EXTENDS SmmRendezvous

Platform(cpus, tradition, mtrrs, election, smis, max, services) ==
  [cpus |-> cpus, tradition |-> tradition, mtrrs |-> mtrrs, election |-> election,
   smis |-> smis, calls |-> max, services |-> services]

MmMp == {"DispatchProcedure", "BroadcastProcedure"}

\* BroadcastProcedure is used in the traditional mode only.
Rendezvous == {
  Platform(2, TRUE,  TRUE,  TRUE,  2, 1, MmMp),
  Platform(2, TRUE,  FALSE, TRUE,  1, 2, MmMp),
  Platform(2, FALSE, FALSE, TRUE,  2, 1, {"DispatchProcedure"}),
  Platform(2, TRUE,  FALSE, TRUE,  1, 1, {"SmmStartupThisAp"}),
  Platform(3, TRUE,  FALSE, TRUE,  1, 0, {}),
  Platform(3, TRUE,  FALSE, FALSE, 1, 0, {}),
  Platform(3, FALSE, FALSE, TRUE,  1, 0, {}) }

\* Two calls of SmmStartupThisAp in an SMI.
TwoStartups == { Platform(2, TRUE, FALSE, TRUE, 1, 2, {"SmmStartupThisAp"}) }

\* BroadcastProcedure in the relaxed mode.
RelaxedBroadcast == { Platform(3, FALSE, FALSE, TRUE, 1, 1, {"BroadcastProcedure"}) }
=============================================================================
