----------------------------- MODULE CyclePolicy -----------------------------
(***************************************************************************)
(* choose_cycle: the type of an objective's next job, from a summary of    *)
(* its history.  The reasons it words are left out.                        *)
(***************************************************************************)
EXTENDS Naturals

\* h is the history the scheduler sums up for one objective.
ChooseCycle(h) ==
  CASE h.unscored -> "experiment_cycle"
    [] ~h.unscored /\ ~h.discovered -> "discovery_cycle"
    [] OTHER ->
       IF h.lastState = "completed" /\ h.lastType = "experiment_cycle"
       THEN IF h.apiFailed THEN "discovery_cycle" ELSE "coding_cycle"
       ELSE IF h.lastState = "completed" /\ h.lastType = "discovery_cycle"
       THEN "coding_cycle"
       ELSE IF \/ h.codingSinceDiscovery >= 3
               \/ h.codingFailures >= 2 /\ h.discoverySinceCoding = 0
       THEN "discovery_cycle"
       ELSE "coding_cycle"
=============================================================================
