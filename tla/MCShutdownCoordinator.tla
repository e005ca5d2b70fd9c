----------------------- MODULE MCShutdownCoordinator -----------------------
(***************************************************************************)
(* Three components registered in this order: an OwnedTaskSet and a        *)
(* ShutdownAction with a force handle whose owner names a cutoff beyond    *)
(* the hard deadline, both in DrainInFlight, and a ShutdownAction without  *)
(* a force handle in StopAdmission.                                        *)
(***************************************************************************)
EXTENDS ShutdownCoordinator

MCPhaseOf == <<3, 3, 2>>
MCTimeoutOf == <<3, 2, 2>>
MCKindOf == <<"tasks", "forcible", "action">>
MCCutoffOf == <<None, 6, None>>
MCAttached == {None, <<3, 2>>}
=============================================================================
