----------------------------- MODULE LeaseClient -----------------------------
(***************************************************************************)
(* What the job queue may assume of one worker: it leases a job, works,    *)
(* reports success at most once, then perhaps failure at most once, and    *)
(* moves on.  The worker loop of LabWorker and the loop of EvaluatorLoop   *)
(* implement it.                                                           *)
(***************************************************************************)
VARIABLE phase

Phases == {"idle", "working", "completing", "failing"}

ClientInit == phase = "idle"

Lease    == phase = "idle" /\ phase' = "working"
Succeed == phase = "working" /\ phase' = "completing"
Fail     == phase \in {"working", "completing"} /\ phase' = "failing"
MoveOn   == phase # "idle" /\ phase' = "idle"

ClientNext == Lease \/ Succeed \/ Fail \/ MoveOn

ClientSpec == ClientInit /\ [][ClientNext]_phase
=============================================================================
