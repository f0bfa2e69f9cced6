-------------------------------- MODULE Store --------------------------------
(***************************************************************************)
(* The durable state of the control plane: the rows PostgreSQL keeps for   *)
(* jobs, experiments, git changes, controller submissions and objectives,  *)
(* plus what its clients hold in memory - the promoter's current candidate *)
(* and, for every lab worker, the lease it believes it owns.               *)
(*                                                                         *)
(* Modules JobApi, Orchestrator and Promotions are the three writers of    *)
(* these rows; each of their actions is one transaction.  ControlPlane     *)
(* composes them.                                                          *)
(***************************************************************************)
EXTENDS Integers, FiniteSets, Sequences

CONSTANTS
  MaxJobs,            \* bound: rows the jobs table may come to hold
  Objectives,         \* objective rows, those not inserted yet included
  InitActive,         \* objectives active at the start
  InitPaused,         \* objectives seeded as paused
  Children,           \* Children[o]: the objectives whose parent_id is o
  Milestones,         \* objectives marked [AUTO_COMPLETE_ON_CODING_PROMOTION]
  Agents, Evaluators, \* worker processes, by capability
  Errors,             \* reported error texts, one per failure_fingerprint
  MarkerErrors,       \* those whose fingerprint ignores what is appended
  Scores,             \* experiment scores
  Modes,              \* the system modes an operator switches between
  AdminJobs,          \* <<job_type, max_attempts>> an operator creates
  MaxCalls,           \* bound: complete and fail calls under way at once
  Faulty,             \* whether calls get lost, workers stop midway, and
                      \* heartbeats come too late
  LabSubmits,         \* whether lab clients submit commits themselves
  LeaseTicks,         \* lease_seconds, in steps of the clock
  RetryTicks,         \* the 60 s before a requeued job is available
  IntervalTicks,      \* cycle_interval_seconds
  CooldownTicks,      \* the 10 minutes of a failure cooldown
  MaxPromotionRetries

JobId   == 1..MaxJobs
Commit  == 0..MaxJobs          \* 0: the first baseline; j: what job j built
Worker  == Agents \cup Evaluators
None    == 0
NoScore == -1
LeaseExpired == "lease expired"

ASSUME SizeAssumption ==
  /\ MaxJobs \in Nat /\ MaxCalls \in Nat
  /\ LeaseTicks \in Nat \ {0}
  /\ RetryTicks \in Nat /\ IntervalTicks \in Nat /\ CooldownTicks \in Nat
  /\ MaxPromotionRetries \in Nat \ {0}

JobTypes ==
  {"discovery_cycle", "coding_cycle", "research_cycle", "experiment_cycle"}

ASSUME ValueAssumption ==
  /\ Scores \subseteq Nat
  /\ MarkerErrors \subseteq Errors
  /\ None \notin Worker
  /\ InitActive \subseteq Objectives /\ InitPaused \subseteq Objectives
  /\ Children \in [Objectives -> SUBSET Objectives]
  /\ Faulty \in BOOLEAN /\ LabSubmits \in BOOLEAN
  /\ Modes \subseteq {"running", "paused", "emergency_stop"}
  /\ AdminJobs \subseteq (JobTypes \ {"experiment_cycle"}) \X (Nat \ {0})

VARIABLES
  mode,        \* system_state.mode
  baseline,    \* system_state.current_baseline_commit
  job,         \* jobs
  exp,         \* experiments, one row per experiment job
  change,      \* git_changes, one row per candidate
  sub,         \* controller_submissions, by the commit they submit
  objective,   \* objectives
  ev,          \* objective_evaluation_state
  now,         \* orders completed_at, promoted_at and updated_at
  taken,       \* the candidate in the promoter's memory
  work,        \* per worker: the lease it believes it owns
  calls        \* complete and fail requests under way to the API

vars == <<mode, baseline, job, exp, change, sub, objective, ev, now, taken,
          work, calls>>

OpenStates == {"queued", "leased", "candidate"}
Terminal   == {"completed", "rejected", "failed"}

\* An error text, up to its failure_fingerprint: <<>> for none.
Error == Seq(Errors \cup {LeaseExpired})

\* concat_ws(error, 'lease expired')
WithExpiry(err) ==
  IF err # <<>> /\ err[1] \in MarkerErrors THEN err
  ELSE Append(err, LeaseExpired)

\* attempts doubles as the lease token: every lease is granted a fresh token,
\* and attempts grows by one with every lease.
Job == [state : {"absent"} \cup OpenStates \cup Terminal, type : JobTypes,
        obj : Objectives \cup {None}, base : Commit, target : Commit,
        max : Nat, attempts : Nat, owner : Worker \cup {None},
        ttl : 0..LeaseTicks, wait : 0..RetryTicks, err : Error,
        ended : Nat, auto : BOOLEAN]

Experiment == [state : {"none", "running", "queued", "failed", "completed"},
               score : Scores \cup {NoScore}, apiFailed : BOOLEAN]

Change == [state : {"none", "draft", "evaluating", "promoted", "rejected"},
           retries : 0..MaxPromotionRetries, promoted : Nat]

SubmissionState == {"none", "admitted", "queued", "evaluating", "scored"}

Objective == [status : {"absent", "active", "paused", "completed", "blocked"},
              due : 0..IntervalTicks]

\* seen is updated_at; -1 while the row has not been inserted.
Evaluation == [fp : Error, count : Nat, cool : 0..CooldownTicks,
               seen : Nat \cup {-1}, best : Scores \cup {NoScore},
               champion : Commit]

Work == [phase : {"idle", "working", "completing", "failing"},
         job : JobId \cup {None}, token : Nat]

Call == [by : Worker, kind : {"complete", "fail"}, job : JobId, token : Nat]

\* Every row of every table is well formed.
TypeOK ==
  /\ mode \in {"running", "paused", "emergency_stop"}
  /\ baseline \in Commit
  /\ job \in [JobId -> Job]
  /\ exp \in [JobId -> Experiment]
  /\ change \in [JobId -> Change]
  /\ sub \in [JobId -> SubmissionState]
  /\ objective \in [Objectives -> Objective]
  /\ ev \in [Objectives -> Evaluation]
  /\ now \in Nat
  /\ taken \in [job : JobId \cup {None}, exhausted : BOOLEAN]
  /\ work \in [Worker -> Work]
  /\ calls \subseteq Call

NoJob == [state |-> "absent", type |-> "coding_cycle", obj |-> None,
          base |-> 0, target |-> 0, max |-> 0, attempts |-> 0,
          owner |-> None, ttl |-> 0, wait |-> 0, err |-> <<>>,
          ended |-> 0, auto |-> FALSE]
Idle  == [phase |-> "idle", job |-> None, token |-> 0]
NoneTaken == [job |-> None, exhausted |-> FALSE]

\* The migrations: an empty queue, the seeded objectives, an evaluation row
\* for each of them, and the first baseline an operator has set.
Init ==
  /\ mode = "running" /\ baseline = 0 /\ now = 0
  /\ job = [j \in JobId |-> NoJob]
  /\ exp = [j \in JobId |->
             [state |-> "none", score |-> NoScore, apiFailed |-> FALSE]]
  /\ change = [j \in JobId |-> [state |-> "none", retries |-> 0, promoted |-> 0]]
  /\ sub = [j \in JobId |-> "none"]
  /\ objective = [o \in Objectives |->
       [status |-> IF o \in InitActive THEN "active"
                   ELSE IF o \in InitPaused THEN "paused" ELSE "absent",
        due |-> 0]]
  /\ ev = [o \in Objectives |->
       [fp |-> <<>>, count |-> 0, cool |-> 0,
        seen |-> IF o \in InitActive \cup InitPaused THEN 0 ELSE -1,
        best |-> NoScore, champion |-> 0]]
  /\ taken = NoneTaken
  /\ work = [w \in Worker |-> Idle]
  /\ calls = {}

-----------------------------------------------------------------------------
\* Rows are inserted in order, so ids also order created_at.
IsNextRow(J, j) ==
  J[j].state = "absent" /\ \A i \in JobId : i < j => J[i].state # "absent"

\* ORDER BY completed_at DESC, created_at DESC: i comes before j.
Later(J, i, j) ==
  J[i].ended > J[j].ended \/ (J[i].ended = J[j].ended /\ i > j)

\* The n latest of a set of ended jobs.
Latest(J, S, n) == {j \in S : Cardinality({i \in S : Later(J, i, j)}) < n}

Released(row) == [row EXCEPT !.owner = None, !.ttl = 0]

\* One step of the wall clock: leases run down, and so do the waits of
\* requeued jobs, of scheduling intervals and of cooldowns.
Elapse ==
  LET Less(n) == IF n > 0 THEN n - 1 ELSE 0
      Healthy(w) == work[w].phase # "idle" /\ job[work[w].job].ttl = 1
  IN
  /\ Faulty \/ \A w \in Worker : ~Healthy(w)
  /\ job' = [j \in JobId |-> [job[j] EXCEPT !.ttl = Less(@), !.wait = Less(@)]]
  /\ objective' = [o \in Objectives |-> [objective[o] EXCEPT !.due = Less(@)]]
  /\ ev' = [o \in Objectives |-> [ev[o] EXCEPT !.cool = Less(@)]]
  /\ UNCHANGED <<mode, baseline, exp, change, sub, now, taken, work, calls>>
=============================================================================
