---------------------------- MODULE ControlPlane ----------------------------
(***************************************************************************)
(* The control plane as a whole: the API with its operators and lab        *)
(* workers, the orchestrator and the promoter, interleaved over one        *)
(* database; and what must hold of it.                                     *)
(***************************************************************************)
EXTENDS JobApi, Orchestrator, Promotions

Next == Operator \/ Lab \/ Tick \/ PromoterStep \/ Elapse

Spec == Init /\ [][Next]_vars

\* The clock runs, and the two services of the control plane keep polling.
\* Lab workers and operators owe it nothing. A promoter may be restarted in
\* the middle of an inspection, but not in the middle of every one, nor always
\* between the last retry and the rejection that follows it.
Fairness ==
  /\ WF_vars(Elapse) /\ WF_vars(Tick)
  /\ WF_vars(\E j \in JobId : TakeCandidate(j))
  /\ SF_vars(Resolve) /\ SF_vars(RejectExhausted)

FairSpec == Spec /\ Fairness

-----------------------------------------------------------------------------
(* Leases. *)

\* The retry budget (attempts < max_attempts in fail_job and in the tick): a
\* job that can still be leased has an attempt left, and a lease in force was
\* counted.
AttemptBudget ==
  \A j \in JobId :
    /\ job[j].attempts <= job[j].max
    /\ job[j].state = "queued" => job[j].attempts < job[j].max
    /\ job[j].state = "leased" => job[j].attempts > 0 /\ job[j].owner # None
    /\ job[j].state # "leased" => job[j].owner = None

\* What a worker holds is a lease that was granted, never one to come.
LeasesGranted ==
  /\ \A w \in Worker : work[w].phase # "idle" =>
       /\ work[w].job \in JobId
       /\ work[w].token \in 1..job[work[w].job].attempts
  /\ \A c \in calls : c.token \in 1..job[c.job].attempts

\* The budget of leases: attempts are spent on leases, and workers and calls
\* know of no lease that was not paid for with one.
LeaseBudget == AttemptBudget /\ LeasesGranted

\* Fencing: a job's result comes from the worker that holds its newest lease,
\* however late other workers' calls arrive and however often it was leased
\* again (_verify_lease, and the token every lease renews).
Fencing ==
  [][\A j \in JobId :
       job[j].state = "leased" /\ job'[j].ended # job[j].ended /\ ~HasExpired(job[j])
       => \E c \in calls : /\ c.job = j /\ c.token = job[j].attempts
                           /\ c.by = job[j].owner]_vars

\* A finished job stays as it finished; a candidate only becomes what the
\* promoter decides, and its work is decided once.
Finality ==
  [][\A j \in JobId :
       /\ job[j].state \in Terminal => job'[j].state = job[j].state
       /\ job[j].state = "candidate" =>
            job'[j].state \in {"candidate", "completed", "rejected"}
       /\ change[j].state \in {"promoted", "rejected"} =>
            change'[j].state = change[j].state]_vars

-----------------------------------------------------------------------------
(* Scheduling. *)

\* The orchestrator never has two of an objective's jobs open at once: not
\* while one waits out a retry, is leased, or waits for its promotion.
OneOpenJob ==
  \A i, j \in JobId :
    job[i].auto /\ job[j].auto /\ job[i].obj = job[j].obj
    /\ job[i].state \in OpenStates /\ job[j].state \in OpenStates => i = j

\* A submission that waits for its measurement has exactly one job on the way
\* to measure it, and a scored one was measured.
SubmissionsTracked ==
  LET Measuring(c) == {j \in JobId : /\ job[j].type = "experiment_cycle"
                                     /\ job[j].target = c
                                     /\ job[j].state \in {"queued", "leased"}}
  IN
  \A c \in JobId :
    /\ Cardinality(Measuring(c)) <= 1
    /\ sub[c] = "queued" => \E j \in Measuring(c) : job[j].state = "queued"
    /\ sub[c] \in {"admitted", "scored", "none"} => Measuring(c) = {}
    /\ sub[c] = "scored" =>
         \E j \in JobId : job[j].target = c /\ exp[j].state = "completed"

\* Blocking needs a failure that survived a cooldown: when it happens, at least
\* four jobs of the objective have failed alike, three before the cooldown and
\* one after it.
BlockedAfterRecovery ==
  [][\A o \in Objectives :
       objective[o].status # "blocked" /\ objective'[o].status = "blocked" =>
         4 <= Cardinality({j \in JobId :
                /\ job'[j].obj = o /\ job'[j].state = "failed"
                /\ job'[j].err = ev'[o].fp})]_vars

\* Only a better score changes the champion: the best score is the best any
\* experiment of the objective got, and the champion the first to get it.
ChampionIsFirstBest ==
  \A o \in Objectives :
    LET scored == {j \in JobId : job[j].obj = o /\ exp[j].state = "completed"}
    IN  IF scored = {} THEN ev[o].best = NoScore
        ELSE /\ \A j \in scored : exp[j].score <= ev[o].best
             /\ \E j \in scored :
                  /\ exp[j].score = ev[o].best /\ job[j].target = ev[o].champion
                  /\ \A i \in scored :
                       exp[i].score = ev[o].best => job[j].ended <= job[i].ended

-----------------------------------------------------------------------------
(* Promotion. *)

IsPromoted(j) == change[j].state = "promoted"

\* The promoted commits form one line: each was built on the one promoted
\* before it, the baseline is the last, and no other candidate got through -
\* of two candidates on one base, one.
BaselineIsLinear ==
  LET line == {j \in JobId : IsPromoted(j)}
      Before(j) == {i \in line : change[i].promoted < change[j].promoted}
      Last(S) == IF S = {} THEN 0
                 ELSE CHOOSE j \in S : \A i \in S :
                        change[i].promoted <= change[j].promoted
  IN  /\ baseline = Last(line)
      /\ \A j \in line : job[j].base = Last(Before(j))

\* The control plane implements PromotionContract: decisions on candidates are
\* final, made once, and made against the baseline as it is at that moment,
\* though the promoter read it in an earlier transaction.
Contract == INSTANCE PromotionContract WITH
  Candidate <- JobId, First <- 0,
  base <- [j \in JobId |-> IF change[j].state = "none" THEN 0 ELSE job[j].base],
  verdict <- [j \in JobId |-> IF change[j].state \in {"draft", "evaluating"}
                              THEN "candidate" ELSE change[j].state]
KeepsContract == Contract!Spec

\* Work is recovered from a worker that is gone, in every mode.
Orphaned(j) ==
  /\ job[j].state = "leased"
  /\ \A w \in Worker : work[w].phase = "idle" \/ work[w].job # j
  /\ \A c \in calls : c.job # j

OrphansRecovered ==
  \A j \in JobId : Orphaned(j) ~> job[j].state # "leased"

\* Every candidate is decided on, whatever fails on the way.
CandidatesDecided ==
  \A j \in JobId :
    job[j].state = "candidate" ~> job[j].state \in {"completed", "rejected"}

-----------------------------------------------------------------------------
(* What documents and comments say and the code does not do. *)

\* EXTERNAL_EVALUATOR_ARCHITECTURE.md: the orchestrator always evaluates an
\* unscored promoted submission before it asks for more code.
MeasuredBeforeCoding ==
  [][\A j \in JobId, c \in JobId :
       job[j].state = "absent" /\ job'[j].auto /\ job'[j].type # "experiment_cycle"
       /\ IsPromoted(c) /\ job[c].obj = job'[j].obj /\ sub[c] # "none"
       => sub[c] = "scored"]_vars

\* repeated_failure_epoch_count: "Count matching terminal failures across
\* cooldown boundaries".
CountsFailures ==
  \A o \in Objectives :
    ev[o].count <= Cardinality({j \in JobId : job[j].obj = o /\ job[j].state = "failed"})

\* ARCHITECTURE.md: the global PAUSED or EMERGENCY_STOP state is honoured
\* before approved promotion work is run, so no promotion starts in it.
StopHonoured ==
  [][mode # "running" /\ taken = NoneTaken => taken' = NoneTaken]_vars
=============================================================================
