------------------------- MODULE ControlPlaneProofs -------------------------
(***************************************************************************)
(* Proofs about module ControlPlane for every value of its constants: any  *)
(* number of jobs, workers, objectives and calls under way.                *)
(***************************************************************************)
EXTENDS ControlPlane, TLAPS

\* What AttemptBudget says of one row; and a row that was not inserted yet was
\* never leased.
RowOK(row) ==
  /\ row.attempts <= row.max
  /\ row.state = "queued" => row.attempts < row.max
  /\ row.state = "leased" => row.attempts > 0 /\ row.owner # None
  /\ row.state # "leased" => row.owner = None
  /\ row.state = "absent" => row.attempts = 0

JobsOK(J) == J \in [JobId -> Job] /\ \A j \in JobId : RowOK(J[j])

\* No lease that was granted is taken back.
Kept(J) == \A j \in JobId : J[j].attempts >= job[j].attempts

IInv == TypeOK /\ JobsOK(job) /\ LeasesGranted

-----------------------------------------------------------------------------
(* Rows and the operators on them. *)

LEMMA NoJobType == NoJob \in Job
  BY SizeAssumption DEF NoJob, Job, JobTypes, OpenStates, Terminal, Commit, Error, None

LEMMA ReleasedType ==
  ASSUME NEW row \in Job
  PROVE  /\ Released(row) \in Job
         /\ Released(row) = [row EXCEPT !.owner = None, !.ttl = 0]
  <1>1. Released(row) = [row EXCEPT !.owner = None, !.ttl = 0]
    BY DEF Released
  <1>2. 0 \in 0..LeaseTicks /\ None \in Worker \cup {None}
    BY SizeAssumption
  <1> QED BY <1>1, <1>2 DEF Job

LEMMA WithExpiryType ==
  ASSUME NEW err \in Error PROVE WithExpiry(err) \in Error
  BY DEF WithExpiry, Error

LEMMA RecoveredType ==
  ASSUME NEW row \in Job, now \in Nat
  PROVE  /\ Recovered(row) \in Job
         /\ Recovered(row).attempts = row.attempts
         /\ Recovered(row).max = row.max
         /\ Recovered(row).owner = None
         /\ Recovered(row).state =
              IF row.attempts < row.max THEN "queued" ELSE "failed"
  <1>1. WithExpiry(row.err) \in Error
    BY WithExpiryType DEF Job
  <1>2. /\ 0 \in 0..LeaseTicks /\ None \in Worker \cup {None}
        /\ RetryTicks \in 0..RetryTicks /\ now + 1 \in Nat
        /\ {"queued", "failed"} \subseteq {"absent"} \cup OpenStates \cup Terminal
    BY SizeAssumption DEF OpenStates, Terminal
  <1> DEFINE freed == [Released(row) EXCEPT !.err = WithExpiry(@)]
  <1>3. freed \in Job /\ freed.owner = None /\ freed.attempts = row.attempts
        /\ freed.max = row.max
    BY <1>1, <1>2 DEF Released, Job
  <1>4. Recovered(row) =
          IF row.attempts < row.max
          THEN [freed EXCEPT !.state = "queued", !.wait = RetryTicks]
          ELSE [freed EXCEPT !.state = "failed", !.ended = now + 1]
    BY DEF Recovered
  <1> HIDE DEF freed
  <1> QED BY <1>2, <1>3, <1>4 DEF Job

\* The recovery of expired leases, whatever the tick does next.
LEMMA JobsRecovered ==
  ASSUME IInv PROVE JobsOK(Jobs) /\ Kept(Jobs)
  <1>1. ASSUME NEW j \in JobId
        PROVE  Jobs[j] \in Job /\ RowOK(Jobs[j]) /\ Jobs[j].attempts >= job[j].attempts
    <2>1. job[j] \in Job /\ RowOK(job[j]) /\ now \in Nat /\ job[j].attempts \in Nat
      BY DEF IInv, TypeOK, JobsOK, Job
    <2>2. CASE HasExpired(job[j])
      <3>1. Jobs[j] = Recovered(job[j])
        BY <2>2 DEF Jobs
      <3> QED BY <2>1, <3>1, RecoveredType DEF RowOK, Job
    <2>3. CASE ~HasExpired(job[j])
      BY <2>1, <2>3 DEF Jobs
    <2> QED BY <2>2, <2>3
  <1>2. Jobs \in [JobId -> Job]
    BY <1>1 DEF Jobs
  <1> QED BY <1>1, <1>2 DEF JobsOK, Kept

\* One row replaced by another.
LEMMA OneRow ==
  ASSUME NEW J, JobsOK(J), Kept(J), NEW j \in JobId, NEW row \in Job, RowOK(row),
         row.attempts >= job[j].attempts, NEW K, K = [J EXCEPT ![j] = row]
  PROVE  JobsOK(K) /\ Kept(K)
  BY DEF JobsOK, Kept

\* What a step owes the invariant when it grants no lease.
LEMMA StepPreserves ==
  ASSUME IInv, TypeOK', JobsOK(job'), Kept(job'), calls' \subseteq calls,
         \A w \in Worker : work'[w] = work[w] \/ work'[w].phase = "idle"
  PROVE  IInv'
  <1>1. \A j \in JobId : /\ job[j].attempts \in Nat /\ job'[j].attempts \in Nat
                         /\ job'[j].attempts >= job[j].attempts
    BY DEF IInv, JobsOK, Kept, Job
  <1>2. \A j \in JobId : 1..job[j].attempts \subseteq 1..job'[j].attempts
    BY <1>1
  <1>3. \A c \in calls : c.job \in JobId
    BY DEF IInv, TypeOK, Call
  <1>4. LeasesGranted'
    BY <1>2, <1>3 DEF IInv, LeasesGranted
  <1> QED BY <1>4 DEF IInv, JobsOK, RowOK

LEMMA InitEstablishes == Init => IInv
  <1> SUFFICES ASSUME Init PROVE IInv
    OBVIOUS
  <1> USE DEF Init
  <1>1. JobsOK(job)
    BY NoJobType DEF JobsOK, RowOK, NoJob
  <1>2. TypeOK
    <2>1. exp \in [JobId -> Experiment]
      BY DEF Experiment, NoScore
    <2>2. change \in [JobId -> Change]
      BY SizeAssumption DEF Change
    <2>3. objective \in [Objectives -> Objective]
      BY SizeAssumption DEF Objective
    <2>4. ev \in [Objectives -> Evaluation]
      BY SizeAssumption DEF Evaluation, Error, NoScore, Commit
    <2>5. work \in [Worker -> Work] /\ taken \in [job : JobId \cup {None}, exhausted : BOOLEAN]
      BY DEF Work, Idle, NoneTaken, None
    <2>6. baseline \in Commit /\ sub \in [JobId -> SubmissionState]
      BY SizeAssumption DEF Commit, SubmissionState
    <2> QED BY <1>1, <2>1, <2>2, <2>3, <2>4, <2>5, <2>6 DEF TypeOK, JobsOK
  <1>3. LeasesGranted
    BY DEF LeasesGranted, Idle
  <1> QED BY <1>1, <1>2, <1>3 DEF IInv
-----------------------------------------------------------------------------
(* Operators. *)

LEMMA SetModePreserves == ASSUME IInv, NEW m \in Modes, SetMode(m) PROVE IInv'
  <1>1. TypeOK'
    BY ValueAssumption DEF IInv, TypeOK, SetMode
  <1>2. JobsOK(job') /\ Kept(job')
    BY DEF IInv, JobsOK, Kept, Job, SetMode
  <1> QED BY <1>1, <1>2, StepPreserves DEF SetMode

LEMMA CreateObjectivePreserves ==
  ASSUME IInv, NEW o \in Objectives, CreateObjective(o) PROVE IInv'
  <1>1. [status |-> "active", due |-> 0] \in Objective
    BY SizeAssumption DEF Objective
  <1>2. TypeOK'
    BY <1>1 DEF IInv, TypeOK, CreateObjective
  <1>3. JobsOK(job') /\ Kept(job')
    BY DEF IInv, JobsOK, Kept, Job, CreateObjective
  <1> QED BY <1>2, <1>3, StepPreserves DEF CreateObjective

LEMMA JobsKept == IInv => JobsOK(job) /\ Kept(job)
  BY DEF IInv, JobsOK, Kept, Job

LEMMA CreateJobPreserves ==
  ASSUME IInv, NEW j \in JobId, NEW o \in Objectives, NEW b \in Commit,
         CreateJob(j, o, b)
  PROVE  IInv'
  <1>1. PICK a \in AdminJobs : job' = [job EXCEPT ![j] =
           [NoJob EXCEPT !.state = "queued", !.type = a[1], !.obj = o,
                         !.base = b, !.max = a[2]]]
    BY DEF CreateJob
  <1> DEFINE row == [NoJob EXCEPT !.state = "queued", !.type = a[1], !.obj = o,
                                  !.base = b, !.max = a[2]]
  <1>2. a[1] \in JobTypes /\ a[2] \in Nat \ {0}
    BY ValueAssumption
  <1>3. row \in Job
    BY <1>2, NoJobType DEF Job, OpenStates
  <1>4. RowOK(row) /\ row.attempts = 0
    BY <1>2 DEF RowOK, NoJob
  <1>5. job[j].attempts = 0
    BY DEF IInv, JobsOK, RowOK, CreateJob, IsNextRow
  <1> HIDE DEF row
  <1>6. JobsOK(job') /\ Kept(job')
    <2>1. job' = [job EXCEPT ![j] = row] /\ row.attempts >= job[j].attempts
      BY <1>1, <1>4, <1>5 DEF row
    <2> QED BY <1>3, <1>4, <2>1, JobsKept, OneRow
  <1>7. TypeOK'
    BY <1>6 DEF IInv, TypeOK, JobsOK, CreateJob
  <1> QED BY <1>6, <1>7, StepPreserves DEF CreateJob

-----------------------------------------------------------------------------
(* The lease protocol. *)

\* The lease is the one step that grants: the worker gets the token that
\* attempts has just become.
LEMMA LeaseJobPreserves ==
  ASSUME IInv, NEW w \in Worker, NEW j \in JobId, LeaseJob(w, j) PROVE IInv'
  <1> DEFINE row == [job[j] EXCEPT !.state = "leased", !.owner = w,
                                   !.ttl = LeaseTicks, !.attempts = @ + 1]
  <1>1. job[j] \in Job /\ RowOK(job[j]) /\ job[j].state = "queued"
    BY DEF IInv, JobsOK, LeaseJob
  <1>2. LeaseTicks \in 0..LeaseTicks /\ w # None
    BY SizeAssumption, ValueAssumption
  <1>3. row \in Job
    <2>1. job[j].attempts + 1 \in Nat
      BY <1>1 DEF Job
    <2> QED BY <1>1, <1>2, <2>1 DEF Job, OpenStates
  <1>4. RowOK(row) /\ row.attempts = job[j].attempts + 1 /\ job[j].attempts \in Nat
    BY <1>1, <1>2 DEF RowOK, Job
  <1>5. job' = [job EXCEPT ![j] = row]
    BY DEF IInv, JobsOK, LeaseJob
  <1> HIDE DEF row
  <1>6. JobsOK(job') /\ Kept(job') /\ job'[j].attempts = job[j].attempts + 1
    <2>1. row.attempts >= job[j].attempts
      BY <1>4
    <2>2. JobsOK(job') /\ Kept(job')
      BY <1>3, <1>4, <1>5, <2>1, JobsKept, OneRow
    <2>3. job'[j] = row
      BY <1>5 DEF IInv, JobsOK
    <2> QED BY <1>4, <2>2, <2>3
  <1>7. work' \in [Worker -> Work]
    BY <1>4 DEF IInv, TypeOK, Work, LeaseJob
  <1>8. exp' \in [JobId -> Experiment] /\ sub' \in [JobId -> SubmissionState]
    <2>1. exp' = exp \/ exp' = [exp EXCEPT ![j] = [exp[j] EXCEPT !.state = "running"]]
      BY DEF LeaseJob
    <2>2. [exp[j] EXCEPT !.state = "running"] \in Experiment
      BY DEF IInv, TypeOK, Experiment
    <2>3. sub' = sub \/ sub' = [sub EXCEPT ![job[j].target] = "evaluating"]
      BY DEF LeaseJob
    <2> QED BY <2>1, <2>2, <2>3 DEF IInv, TypeOK, SubmissionState
  <1>9. TypeOK'
    BY <1>6, <1>7, <1>8 DEF IInv, TypeOK, JobsOK, LeaseJob
  <1>10. \A i \in JobId : 1..job[i].attempts \subseteq 1..job'[i].attempts
    <2>1. \A i \in JobId : job[i].attempts \in Nat /\ job'[i].attempts \in Nat
                           /\ job'[i].attempts >= job[i].attempts
      BY <1>6 DEF IInv, JobsOK, Kept, Job
    <2> QED BY <2>1
  <1>11. job[j].attempts + 1 \in 1..job'[j].attempts
    BY <1>4, <1>6
  <1>12. ASSUME NEW v \in Worker, work'[v].phase # "idle"
         PROVE  work'[v].job \in JobId /\ work'[v].token \in 1..job'[work'[v].job].attempts
    <2>1. CASE work'[v] = work[v]
      BY <1>10, <1>12, <2>1 DEF IInv, LeasesGranted
    <2>2. CASE work'[v] # work[v]
      <3>1. work'[v] = [phase |-> "working", job |-> j, token |-> job[j].attempts + 1]
        BY <2>2 DEF IInv, TypeOK, LeaseJob
      <3> QED BY <1>11, <3>1
    <2> QED BY <2>1, <2>2
  <1>13. \A c \in calls' : c.token \in 1..job'[c.job].attempts
    BY <1>10 DEF IInv, TypeOK, Call, LeasesGranted, LeaseJob
  <1> QED BY <1>6, <1>9, <1>12, <1>13 DEF IInv, LeasesGranted, JobsOK, RowOK

LEMMA HeartbeatPreserves == ASSUME IInv, NEW w \in Worker, Heartbeat(w) PROVE IInv'
  <1> DEFINE j == work[w].job
             row == [job[j] EXCEPT !.ttl = LeaseTicks]
  <1>1. j \in JobId
    BY DEF IInv, LeasesGranted, Heartbeat
  <1>2. job[j] \in Job /\ RowOK(job[j]) /\ LeaseTicks \in 0..LeaseTicks
    BY <1>1, SizeAssumption DEF IInv, JobsOK
  <1>3. row \in Job /\ RowOK(row) /\ row.attempts = job[j].attempts
        /\ job[j].attempts \in Nat
    BY <1>2 DEF RowOK, Job
  <1>4. job' = [job EXCEPT ![j] = row]
    BY DEF IInv, JobsOK, Heartbeat
  <1> HIDE DEF j, row
  <1>5. JobsOK(job') /\ Kept(job')
    <2>1. row.attempts >= job[j].attempts
      BY <1>3
    <2> QED BY <1>1, <1>3, <1>4, <2>1, JobsKept, OneRow
  <1>6. TypeOK'
    BY <1>5 DEF IInv, TypeOK, JobsOK, Heartbeat
  <1> QED BY <1>5, <1>6, StepPreserves DEF Heartbeat

\* A worker reports with the token it was granted.
LEMMA SendPreserves ==
  ASSUME IInv, NEW w \in Worker, work[w].phase # "idle",
         NEW kind \in {"complete", "fail"}, NEW phase \in {"completing", "failing"},
         Send(w, kind, phase)
  PROVE  IInv'
  <1> DEFINE call == [by |-> w, kind |-> kind, job |-> work[w].job,
                      token |-> work[w].token]
  <1>1. /\ work[w].job \in JobId /\ work[w].token \in 1..job[work[w].job].attempts
        /\ work[w].token \in Nat
    BY DEF IInv, TypeOK, Work, LeasesGranted
  <1>2. call \in Call
    BY <1>1 DEF Call
  <1>3. work' = [work EXCEPT ![w].phase = phase] /\ calls' = calls \cup {call}
    BY DEF Send
  <1>4. work' \in [Worker -> Work]
    BY <1>3 DEF IInv, TypeOK, Work
  <1>5. TypeOK'
    BY <1>2, <1>3, <1>4 DEF IInv, TypeOK, Send
  <1>6. LeasesGranted'
    BY <1>1, <1>3 DEF IInv, TypeOK, Work, LeasesGranted, Send
  <1>7. JobsOK(job')
    BY DEF IInv, Send
  <1> QED BY <1>5, <1>6, <1>7 DEF IInv, JobsOK, RowOK

LEMMA MoveOnPreserves == ASSUME IInv, NEW w \in Worker, MoveOn(w) PROVE IInv'
  <1>1. Idle \in Work /\ Idle.phase = "idle"
    BY DEF Idle, Work
  <1>2. TypeOK'
    BY <1>1 DEF IInv, TypeOK, MoveOn
  <1>3. JobsOK(job') /\ Kept(job')
    BY JobsKept DEF MoveOn
  <1>4. \A v \in Worker : work'[v] = work[v] \/ work'[v].phase = "idle"
    BY <1>1 DEF IInv, TypeOK, MoveOn
  <1> QED BY <1>2, <1>3, <1>4, StepPreserves DEF MoveOn
-----------------------------------------------------------------------------
(* The API's answers. *)

LEMMA DropCallPreserves == ASSUME IInv, NEW c \in calls, DropCall(c) PROVE IInv'
  <1>1. TypeOK'
    BY DEF IInv, TypeOK, DropCall
  <1>2. JobsOK(job') /\ Kept(job')
    BY JobsKept DEF DropCall
  <1> QED BY <1>1, <1>2, StepPreserves DEF DropCall

\* The job of an accepted call is leased; it ends, or is queued again, without
\* an owner and with the attempts it had.
LEMMA AcceptedJob ==
  ASSUME IInv, NEW c \in calls, NEW kind, Accept(c, kind)
  PROVE  /\ c.job \in JobId /\ job[c.job] \in Job /\ RowOK(job[c.job])
         /\ now \in Nat /\ calls' \subseteq calls
         /\ calls' \subseteq Call
  BY DEF IInv, TypeOK, JobsOK, Call, Accept

LEMMA EndedJobs ==
  ASSUME IInv, NEW j \in JobId,
         NEW state \in {"candidate", "completed", "rejected"}, Ended(j, state)
  PROVE  JobsOK(job') /\ Kept(job')
  <1> DEFINE row == [Released(job[j]) EXCEPT !.state = state, !.ended = now + 1]
  <1>1. job[j] \in Job /\ RowOK(job[j]) /\ now + 1 \in Nat
        /\ job[j].attempts \in Nat
    BY DEF IInv, TypeOK, JobsOK, Job
  <1>2. Released(job[j]) \in Job
        /\ Released(job[j]) = [job[j] EXCEPT !.owner = None, !.ttl = 0]
    BY <1>1, ReleasedType
  <1>3. row \in Job
    BY <1>1, <1>2 DEF Job, OpenStates, Terminal
  <1>4. RowOK(row) /\ row.attempts = job[j].attempts
    BY <1>1, <1>2 DEF RowOK, Job
  <1>5. job' = [job EXCEPT ![j] = row]
    BY DEF Ended, IInv, JobsOK
  <1> HIDE DEF row
  <1>6. row.attempts >= job[j].attempts
    BY <1>1, <1>4
  <1> QED BY <1>3, <1>4, <1>5, <1>6, JobsKept, OneRow

LEMMA CompleteCyclePreserves ==
  ASSUME IInv, NEW c \in calls, CompleteCycle(c) PROVE IInv'
  <1>1. /\ c.job \in JobId /\ now \in Nat /\ calls' \subseteq calls
        /\ calls' \subseteq Call
    BY AcceptedJob DEF CompleteCycle
  <1>2. JobsOK(job') /\ Kept(job')
    BY <1>1, EndedJobs DEF CompleteCycle
  <1>3. change' \in [JobId -> Change]
    BY <1>1 DEF IInv, TypeOK, Change, CompleteCycle
  <1>4. TypeOK'
    BY <1>1, <1>2, <1>3 DEF IInv, TypeOK, JobsOK, CompleteCycle
  <1> QED BY <1>1, <1>2, <1>4, StepPreserves DEF CompleteCycle

LEMMA CompleteExperimentPreserves ==
  ASSUME IInv, NEW c \in calls, CompleteExperiment(c) PROVE IInv'
  <1> DEFINE j == c.job
             o == job[j].obj
  <1>1. /\ j \in JobId /\ job[j] \in Job /\ now \in Nat /\ calls' \subseteq calls
        /\ calls' \subseteq Call
    BY AcceptedJob DEF CompleteExperiment
  <1>2. JobsOK(job') /\ Kept(job')
    BY <1>1, EndedJobs DEF CompleteExperiment
  <1>3. PICK score \in Scores, apiFailed \in BOOLEAN :
          /\ exp' = [exp EXCEPT ![j] = [state |-> "completed", score |-> score,
                                        apiFailed |-> apiFailed]]
          /\ ev' = [ev EXCEPT
               ![o].seen = now + 1,
               ![o].best = IF Improved(o, score) THEN score ELSE @,
               ![o].champion =
                 IF Improved(o, score) THEN job[j].target ELSE @]
    BY DEF CompleteExperiment
  <1>4. exp' \in [JobId -> Experiment]
    BY <1>1, <1>3 DEF IInv, TypeOK, Experiment
  <1>5. job[j].target \in Commit /\ now + 1 \in Nat \cup {-1}
    BY <1>1 DEF Job
  <1>6. ev' \in [Objectives -> Evaluation]
    <2> DEFINE improved == Improved(o, score)
               row == [ev[o] EXCEPT !.seen = now + 1,
                                    !.best = IF improved THEN score ELSE @,
                                    !.champion = IF improved THEN job[j].target
                                                             ELSE @]
    <2>1. ev \in [Objectives -> Evaluation]
      BY DEF IInv, TypeOK
    <2>2. o \in Objectives => row \in Evaluation
      BY <1>5, <2>1 DEF Evaluation
    <2>3. ev' = [ev EXCEPT ![o] = row]
      BY <1>3, <2>1
    <2> HIDE DEF row
    <2> QED BY <2>1, <2>2, <2>3
  <1>7. sub' \in [JobId -> SubmissionState]
    BY DEF IInv, TypeOK, SubmissionState, CompleteExperiment
  <1>8. TypeOK'
    <2>1. /\ now' = now + 1
          /\ UNCHANGED <<mode, baseline, change, objective, taken, work>>
      BY Zenon DEF CompleteExperiment
    <2> HIDE DEF o, j
    <2> QED BY <1>1, <1>2, <1>4, <1>6, <1>7, <2>1 DEF IInv, TypeOK, JobsOK
  <1> QED BY <1>1, <1>2, <1>8, StepPreserves DEF CompleteExperiment

LEMMA FailJobPreserves == ASSUME IInv, NEW c \in calls, FailJob(c) PROVE IInv'
  <1> DEFINE j == c.job
             freed(e) == [Released(job[j]) EXCEPT !.err = <<e>>]
             again(e) == [freed(e) EXCEPT !.state = "queued", !.wait = RetryTicks]
             over(e)  == [freed(e) EXCEPT !.state = "failed", !.ended = now + 1]
  <1>1. /\ j \in JobId /\ job[j] \in Job /\ RowOK(job[j]) /\ now \in Nat
        /\ calls' \subseteq calls /\ calls' \subseteq Call
    BY AcceptedJob DEF FailJob
  <1>2. PICK e \in Errors, retryable \in {TRUE} \cup {c.by \in Evaluators} :
          LET retry == retryable /\ job[j].attempts < job[j].max IN
          /\ job' = [job EXCEPT ![j] = IF retry THEN again(e) ELSE over(e)]
          /\ now' = IF retry THEN now ELSE now + 1
          /\ IF job[j].type = "experiment_cycle"
             THEN /\ exp' = [exp EXCEPT ![j].state =
                               IF retry THEN "queued" ELSE "failed"]
                  /\ sub' = [sub EXCEPT ![job[j].target] =
                               IF retry THEN "queued" ELSE "admitted"]
             ELSE UNCHANGED <<exp, sub>>
    BY DEF FailJob, AfterFailure
  <1>3. Released(job[j]) \in Job
        /\ Released(job[j]) = [job[j] EXCEPT !.owner = None, !.ttl = 0]
    BY <1>1, ReleasedType
  <1>4. <<e>> \in Error
    BY DEF Error
  <1>5. /\ freed(e) \in Job /\ freed(e).owner = None
        /\ freed(e).attempts = job[j].attempts /\ freed(e).max = job[j].max
    BY <1>1, <1>3, <1>4 DEF Job
  <1> HIDE DEF freed
  <1>6. again(e) \in Job /\ over(e) \in Job
    <2>1. RetryTicks \in 0..RetryTicks /\ now + 1 \in Nat
      BY <1>1, SizeAssumption
    <2> QED BY <1>5, <2>1 DEF Job, OpenStates, Terminal
  <1>7. /\ job[j].attempts < job[j].max => RowOK(again(e))
        /\ RowOK(over(e))
        /\ again(e).attempts = job[j].attempts /\ over(e).attempts = job[j].attempts
        /\ job[j].attempts \in Nat
    BY <1>1, <1>5 DEF RowOK, Job
  <1> HIDE DEF again, over
  <1>8. JobsOK(job') /\ Kept(job')
    <2>1. again(e).attempts >= job[j].attempts /\ over(e).attempts >= job[j].attempts
      BY <1>7
    <2>2. CASE retryable /\ job[j].attempts < job[j].max
      <3>1. job' = [job EXCEPT ![j] = again(e)]
        BY <1>2, <2>2
      <3> QED BY <1>1, <1>6, <1>7, <2>1, <2>2, <3>1, JobsKept, OneRow
    <2>3. CASE ~(retryable /\ job[j].attempts < job[j].max)
      <3>1. job' = [job EXCEPT ![j] = over(e)]
        BY <1>2, <2>3
      <3> QED BY <1>1, <1>6, <1>7, <2>1, <3>1, JobsKept, OneRow
    <2> QED BY <2>2, <2>3
  <1>9. now' \in Nat /\ exp' \in [JobId -> Experiment]
        /\ sub' \in [JobId -> SubmissionState]
    <2>1. now' \in Nat
      BY <1>1, <1>2
    <2>2. exp' = exp \/ \E state \in {"queued", "failed"} :
                          exp' = [exp EXCEPT ![j].state = state]
      BY <1>2
    <2>3. sub' = sub \/ \E state \in {"queued", "admitted"} :
                          sub' = [sub EXCEPT ![job[j].target] = state]
      BY <1>2
    <2>4. exp' \in [JobId -> Experiment]
      BY <2>2 DEF IInv, TypeOK, Experiment
    <2>5. sub' \in [JobId -> SubmissionState]
      BY <2>3 DEF IInv, TypeOK, SubmissionState
    <2> QED BY <2>1, <2>4, <2>5
  <1>10. TypeOK'
    BY <1>1, <1>8, <1>9 DEF IInv, TypeOK, JobsOK, FailJob
  <1> QED BY <1>1, <1>8, <1>10, StepPreserves DEF FailJob

LEMMA CreateSubmissionPreserves ==
  ASSUME IInv, NEW c \in JobId, CreateSubmission(c) PROVE IInv'
  <1>1. sub' \in [JobId -> SubmissionState]
    BY DEF IInv, TypeOK, SubmissionState, CreateSubmission
  <1>2. ev' \in [Objectives -> Evaluation]
    BY DEF IInv, TypeOK, Evaluation, CreateSubmission
  <1>3. TypeOK'
    BY <1>1, <1>2 DEF IInv, TypeOK, CreateSubmission
  <1>4. JobsOK(job') /\ Kept(job')
    BY JobsKept DEF CreateSubmission
  <1> QED BY <1>3, <1>4, StepPreserves DEF CreateSubmission
-----------------------------------------------------------------------------
(* The clock and the tick. *)

LEMMA ElapsePreserves == ASSUME IInv, Elapse PROVE IInv'
  <1> DEFINE Less(n) == IF n > 0 THEN n - 1 ELSE 0
             row(j) == [job[j] EXCEPT !.ttl = Less(@), !.wait = Less(@)]
  <1>1. \A m \in Nat : \A n \in 0..m : Less(n) \in 0..m
    OBVIOUS
  <1>2. /\ job' = [j \in JobId |-> row(j)]
        /\ objective' = [o \in Objectives |-> [objective[o] EXCEPT !.due = Less(@)]]
        /\ ev' = [o \in Objectives |-> [ev[o] EXCEPT !.cool = Less(@)]]
        /\ UNCHANGED <<mode, baseline, exp, change, sub, now, taken, work, calls>>
    BY DEF Elapse
  <1> HIDE DEF Less
  <1>3. ASSUME NEW j \in JobId
        PROVE  row(j) \in Job /\ RowOK(row(j)) /\ row(j).attempts >= job[j].attempts
    <2>1. job[j] \in Job /\ RowOK(job[j])
      BY DEF IInv, JobsOK
    <2>2. Less(job[j].ttl) \in 0..LeaseTicks /\ Less(job[j].wait) \in 0..RetryTicks
      BY <1>1, <2>1, SizeAssumption DEF Job
    <2>3. row(j) \in Job
      BY <2>1, <2>2 DEF Job
    <2>4. /\ row(j).state = job[j].state /\ row(j).owner = job[j].owner
          /\ row(j).attempts = job[j].attempts /\ row(j).max = job[j].max
          /\ job[j].attempts \in Nat
      BY <2>1 DEF Job
    <2> HIDE DEF row
    <2> QED BY <2>1, <2>3, <2>4 DEF RowOK
  <1> HIDE DEF row
  <1>4. JobsOK(job') /\ Kept(job')
    BY <1>2, <1>3 DEF JobsOK, Kept
  <1>5. objective' \in [Objectives -> Objective]
    BY <1>1, <1>2, SizeAssumption DEF IInv, TypeOK, Objective
  <1>6. ev' \in [Objectives -> Evaluation]
    BY <1>1, <1>2, SizeAssumption DEF IInv, TypeOK, Evaluation
  <1>7. TypeOK'
    BY <1>2, <1>4, <1>5, <1>6 DEF IInv, TypeOK, JobsOK
  <1> QED BY <1>2, <1>4, <1>7, StepPreserves

LEMMA ClockType == IInv => Now \in Nat /\ Now >= now
  BY DEF IInv, TypeOK, Now

LEMMA ScheduledType ==
  ASSUME NEW h
  PROVE  ChooseCycle(h) \in {"discovery_cycle", "coding_cycle", "experiment_cycle"}
  BY DEF ChooseCycle

LEMMA EvidenceType ==
  ASSUME IInv, NEW o \in Objectives, NEW fp \in Fingerprints(o)
  PROVE  fp \in Error /\ EpochCount(o, fp) \in Nat /\ Seen(o) \in Nat
  <1>1. fp \in Error
    BY JobsRecovered DEF Fingerprints, Past, JobsOK, Job
  <1>2. ev[o] \in Evaluation
    BY DEF IInv, TypeOK
  <1>3. EpochCount(o, fp) \in Nat
    BY <1>2 DEF EpochCount, Evaluation
  <1>4. Seen(o) \in Nat
    BY <1>2, ClockType DEF Seen, Evaluation
  <1> QED BY <1>1, <1>3, <1>4

LEMMA EvidenceRow ==
  ASSUME IInv, NEW o \in Objectives, NEW fp \in Error, NEW n \in Nat,
         NEW cool \in 0..CooldownTicks, NEW seen \in Nat,
         ev' = [ev EXCEPT ![o].fp = fp, ![o].count = n, ![o].cool = cool,
                          ![o].seen = seen]
  PROVE  ev' \in [Objectives -> Evaluation]
  <1> DEFINE row == [ev[o] EXCEPT !.fp = fp, !.count = n, !.cool = cool, !.seen = seen]
  <1>1. ev \in [Objectives -> Evaluation]
    BY DEF IInv, TypeOK
  <1>2. row \in Evaluation
    BY <1>1 DEF Evaluation
  <1>3. ev' = [ev EXCEPT ![o] = row]
    BY <1>1
  <1> HIDE DEF row
  <1> QED BY <1>1, <1>2, <1>3

LEMMA TickIdlePreserves == ASSUME IInv, TickIdle PROVE IInv'
  <1>1. JobsOK(job') /\ Kept(job') /\ now' \in Nat
    BY JobsRecovered, ClockType DEF TickIdle
  <1>2. TypeOK'
    BY <1>1 DEF IInv, TypeOK, JobsOK, TickIdle
  <1> QED BY <1>1, <1>2, StepPreserves DEF TickIdle

LEMMA TickCooldownPreserves ==
  ASSUME IInv, NEW o \in Objectives, TickCooldown(o) PROVE IInv'
  <1>1. JobsOK(job') /\ Kept(job') /\ now' \in Nat /\ Now \in Nat
    BY JobsRecovered, ClockType DEF TickCooldown
  <1>2. PICK fp \in Fingerprints(o) :
          ev' = [ev EXCEPT ![o].fp = fp, ![o].count = EpochCount(o, fp),
                           ![o].cool = CooldownTicks, ![o].seen = Now]
    BY DEF TickCooldown
  <1>3. fp \in Error /\ EpochCount(o, fp) \in Nat /\ CooldownTicks \in 0..CooldownTicks
    BY EvidenceType, SizeAssumption
  <1>4. ev' \in [Objectives -> Evaluation]
    BY <1>1, <1>2, <1>3, EvidenceRow
  <1>5. objective' \in [Objectives -> Objective]
    BY SizeAssumption DEF IInv, TypeOK, Objective, TickCooldown
  <1>6. TypeOK'
    BY <1>1, <1>4, <1>5 DEF IInv, TypeOK, JobsOK, TickCooldown
  <1> QED BY <1>1, <1>6, StepPreserves DEF TickCooldown

LEMMA TickBlockPreserves ==
  ASSUME IInv, NEW o \in Objectives, TickBlock(o) PROVE IInv'
  <1>1. JobsOK(job') /\ Kept(job') /\ now' \in Nat /\ Now \in Nat
    BY JobsRecovered, ClockType DEF TickBlock
  <1>2. PICK fp \in Fingerprints(o) :
          ev' = [ev EXCEPT ![o].fp = fp, ![o].count = EpochCount(o, fp),
                           ![o].cool = 0, ![o].seen = Now]
    BY DEF TickBlock
  <1>3. fp \in Error /\ EpochCount(o, fp) \in Nat /\ 0 \in 0..CooldownTicks
    BY EvidenceType, SizeAssumption
  <1>4. ev' \in [Objectives -> Evaluation]
    BY <1>1, <1>2, <1>3, EvidenceRow
  <1>5. objective' \in [Objectives -> Objective]
    <2>1. PICK s : objective' = [objective EXCEPT
                     ![o] = [status |-> "blocked", due |-> IntervalTicks],
                     ![s] = [status |-> "active", due |-> 0]]
      BY DEF TickBlock
    <2>2. /\ [status |-> "blocked", due |-> IntervalTicks] \in Objective
          /\ [status |-> "active", due |-> 0] \in Objective
      BY SizeAssumption DEF Objective
    <2> QED BY <2>1, <2>2 DEF IInv, TypeOK
  <1>6. TypeOK'
    BY <1>1, <1>4, <1>5 DEF IInv, TypeOK, JobsOK, TickBlock
  <1> QED BY <1>1, <1>6, StepPreserves DEF TickBlock

LEMMA NewJobOK ==
  ASSUME IInv, NEW o \in Objectives, NEW c \in Commit,
         NEW type \in {"discovery_cycle", "coding_cycle", "experiment_cycle"}
  PROVE  /\ NewJob(o, type, c) \in Job /\ RowOK(NewJob(o, type, c))
         /\ NewJob(o, type, c).attempts = 0
  <1>1. baseline \in Commit /\ type \in JobTypes
    BY DEF IInv, TypeOK, JobTypes
  <1>2. NewJob(o, type, c) \in Job
    BY <1>1, NoJobType DEF NewJob, Job, OpenStates
  <1>3. RowOK(NewJob(o, type, c)) /\ NewJob(o, type, c).attempts = 0
    BY DEF NewJob, NoJob, RowOK
  <1> QED BY <1>2, <1>3

LEMMA TickQueuePreserves ==
  ASSUME IInv, NEW o \in Objectives, TickQueue(o) PROVE IInv'
  <1> DEFINE type == ChooseCycle(History(o))
  <1>1. type \in {"discovery_cycle", "coding_cycle", "experiment_cycle"}
    BY ScheduledType
  <1>2. Admitted(o) \in [JobId -> SubmissionState]
    BY DEF Admitted, IInv, TypeOK, SubmissionState
  <1>3. \E j \in JobId, c \in Commit :
          /\ IsNextRow(job, j)
          /\ job' = [Jobs EXCEPT ![j] = NewJob(o, type, c)]
          /\ sub' = Admitted(o) \/ sub' = [Admitted(o) EXCEPT ![c] = "queued"]
    <2>1. JobId \subseteq Commit /\ 0 \in Commit /\ Unscored(o) \subseteq JobId
      BY SizeAssumption DEF JobId, Commit, Unscored
    <2>2. PICK j \in JobId :
            /\ IsNextRow(job, j)
            /\ IF type = "experiment_cycle"
               THEN \E c \in Unscored(o) :
                      /\ job' = [Jobs EXCEPT ![j] = NewJob(o, type, c)]
                      /\ sub' = [Admitted(o) EXCEPT ![c] = "queued"]
               ELSE /\ job' = [Jobs EXCEPT ![j] = NewJob(o, type, 0)]
                    /\ sub' = Admitted(o)
      BY DEF TickQueue
    <2> HIDE DEF type
    <2> QED BY <2>1, <2>2
  <1> HIDE DEF type
  <1>4. PICK j \in JobId, c \in Commit :
          /\ IsNextRow(job, j)
          /\ job' = [Jobs EXCEPT ![j] = NewJob(o, type, c)]
          /\ sub' = Admitted(o) \/ sub' = [Admitted(o) EXCEPT ![c] = "queued"]
    BY <1>3
  <1>5. JobsOK(job') /\ Kept(job')
    <2>1. job[j].attempts = 0
      BY <1>4 DEF IInv, JobsOK, RowOK, IsNextRow
    <2>2. /\ NewJob(o, type, c) \in Job /\ RowOK(NewJob(o, type, c))
          /\ NewJob(o, type, c).attempts >= job[j].attempts
      BY <1>1, <2>1, NewJobOK
    <2> QED BY <1>4, <2>2, JobsRecovered, OneRow
  <1>6. sub' \in [JobId -> SubmissionState]
    BY <1>2, <1>4 DEF SubmissionState
  <1>7. Now \in Nat /\ Seen(o) \in Nat
    BY ClockType DEF IInv, TypeOK, Seen, Evaluation
  <1>8. ev' \in [Objectives -> Evaluation]
    BY <1>7 DEF IInv, TypeOK, Evaluation, TickQueue
  <1>9. objective' \in [Objectives -> Objective]
    BY SizeAssumption DEF IInv, TypeOK, Objective, TickQueue
  <1>10. UNCHANGED <<mode, baseline, exp, change, taken, work, calls>> /\ now' = Now
    BY DEF TickQueue
  <1>11. TypeOK'
    BY <1>5, <1>6, <1>7, <1>8, <1>9, <1>10 DEF IInv, TypeOK, JobsOK
  <1> QED BY <1>5, <1>10, <1>11, StepPreserves
-----------------------------------------------------------------------------
(* Jobs and candidates. *)

Trusted(b) == b = 0 \/ (b \in JobId /\ change[b].state = "promoted")

\* A job is a candidate just as long as its change is undecided; work starts
\* from a trusted commit; and what the promoter has taken is a candidate
\* on the baseline, which nobody else moves.
PromotionOK ==
  /\ \A j \in JobId :
       /\ change[j].state \in {"draft", "evaluating"} <=> job[j].state = "candidate"
       /\ job[j].state \in {"absent", "queued", "leased"} => change[j].state = "none"
       /\ job[j].state # "absent" /\ job[j].type # "experiment_cycle" =>
            Trusted(job[j].base)
  /\ Trusted(baseline)
  /\ taken # NoneTaken =>
       /\ taken.job \in JobId /\ job[taken.job].state = "candidate"
       /\ job[taken.job].base = baseline

\* What every step of the API, the clock and the tick does with a row: what is
\* decided or waits for the promoter stays, a row keeps its base, and a new
\* row starts from a trusted commit.
Onward(J) ==
  \A j \in JobId :
    /\ job[j].state \in Terminal \cup {"candidate"} => J[j].state = job[j].state
    /\ J[j].state = "candidate" => job[j].state = "candidate"
    /\ job[j].state # "absent" =>
         J[j].state # "absent" /\ J[j].base = job[j].base /\ J[j].type = job[j].type
    /\ job[j].state = "absent" =>
         \/ J[j].state = "absent"
         \/ J[j].type = "experiment_cycle"
         \/ Trusted(J[j].base)

\* What a step does to decided jobs and changes, as Finality asks; and what it
\* does in the eyes of PromotionContract.
Final ==
  \A j \in JobId :
    /\ job[j].state \in Terminal => job'[j].state = job[j].state
    /\ job[j].state = "candidate" =>
         job'[j].state \in {"candidate", "completed", "rejected"}
    /\ change[j].state \in {"promoted", "rejected"} =>
         change'[j].state = change[j].state

ContractStep == Contract!Next \/ UNCHANGED Contract!contractVars

Decides == Final /\ ContractStep

\* The variables of the contract, row by row.
BaseOf(j)    == IF change[j].state = "none" THEN 0 ELSE job[j].base
VerdictOf(j) == IF change[j].state \in {"draft", "evaluating"} THEN "candidate"
                                                               ELSE change[j].state

\* A step that changes no row the contract sees, and one that changes one.
LEMMA ContractStutter ==
  ASSUME \A j \in JobId : BaseOf(j)' = BaseOf(j) /\ VerdictOf(j)' = VerdictOf(j),
         UNCHANGED baseline
  PROVE  ContractStep
  BY DEF ContractStep, Contract!contractVars, BaseOf, VerdictOf

LEMMA ContractSubmit ==
  ASSUME NEW j \in JobId, NEW b \in JobId \cup {0},
         b = 0 \/ VerdictOf(b) = "promoted", UNCHANGED baseline,
         VerdictOf(j) = "none", VerdictOf(j)' = "candidate", BaseOf(j)' = b,
         \A i \in JobId : i # j => BaseOf(i)' = BaseOf(i) /\ VerdictOf(i)' = VerdictOf(i)
  PROVE  ContractStep
  <1> DEFINE bases    == [i \in JobId |-> BaseOf(i)]
             verdicts == [i \in JobId |-> VerdictOf(i)]
  <1>1. bases' = [bases EXCEPT ![j] = b]
        /\ verdicts' = [verdicts EXCEPT ![j] = "candidate"]
    OBVIOUS
  <1>2. Contract!Submit(j, b)
    BY <1>1 DEF Contract!Submit, BaseOf, VerdictOf
  <1> QED BY <1>2 DEF ContractStep, Contract!Next

LEMMA ContractReject ==
  ASSUME NEW j \in JobId, UNCHANGED baseline,
         VerdictOf(j) = "candidate", VerdictOf(j)' = "rejected", BaseOf(j)' = BaseOf(j),
         \A i \in JobId : i # j => BaseOf(i)' = BaseOf(i) /\ VerdictOf(i)' = VerdictOf(i)
  PROVE  ContractStep
  <1> DEFINE bases    == [i \in JobId |-> BaseOf(i)]
             verdicts == [i \in JobId |-> VerdictOf(i)]
  <1>1. bases' = bases /\ verdicts' = [verdicts EXCEPT ![j] = "rejected"]
    OBVIOUS
  <1>2. Contract!Reject(j)
    BY <1>1 DEF Contract!Reject, BaseOf, VerdictOf
  <1> QED BY <1>2 DEF ContractStep, Contract!Next

LEMMA ContractPromote ==
  ASSUME NEW j \in JobId, BaseOf(j) = baseline, baseline' = j,
         VerdictOf(j) = "candidate", VerdictOf(j)' = "promoted", BaseOf(j)' = BaseOf(j),
         \A i \in JobId : i # j => BaseOf(i)' = BaseOf(i) /\ VerdictOf(i)' = VerdictOf(i)
  PROVE  ContractStep
  <1> DEFINE bases    == [i \in JobId |-> BaseOf(i)]
             verdicts == [i \in JobId |-> VerdictOf(i)]
  <1>1. bases' = bases /\ verdicts' = [verdicts EXCEPT ![j] = "promoted"]
    OBVIOUS
  <1>2. Contract!Promote(j)
    BY <1>1 DEF Contract!Promote, BaseOf, VerdictOf
  <1> QED BY <1>2 DEF ContractStep, Contract!Next

LEMMA OnwardPreserves ==
  ASSUME IInv, PromotionOK, Onward(job'), UNCHANGED <<baseline, change, taken>>
  PROVE  PromotionOK' /\ Decides
  <1>1. \A j \in JobId : /\ job[j].state \in {"absent"} \cup OpenStates \cup Terminal
                         /\ job'[j].state \in {"absent", "queued", "leased"} =>
                              job[j].state \in {"absent", "queued", "leased"}
    BY DEF IInv, JobsOK, Job, Onward, OpenStates, Terminal
  <1>2. ASSUME NEW j \in JobId
        PROVE  /\ change'[j].state \in {"draft", "evaluating"} <=>
                    job'[j].state = "candidate"
               /\ job'[j].state \in {"absent", "queued", "leased"} =>
                    change'[j].state = "none"
    BY <1>1 DEF PromotionOK, Onward
  <1>3. ASSUME NEW j \in JobId, job'[j].state # "absent",
               job'[j].type # "experiment_cycle"
        PROVE  Trusted(job'[j].base)
    BY <1>3 DEF PromotionOK, Onward
  <1>4. \A b : Trusted(b) => Trusted(b)'
    BY DEF Trusted
  <1>5. taken # NoneTaken =>
          /\ taken.job \in JobId /\ job'[taken.job].state = "candidate"
          /\ job'[taken.job].base = baseline
    BY DEF PromotionOK, Onward
  <1>6. PromotionOK'
    BY <1>2, <1>3, <1>4, <1>5 DEF PromotionOK, Trusted
  <1>7. Final
    BY DEF Final, Onward
  <1>8. \A j \in JobId : BaseOf(j)' = BaseOf(j) /\ VerdictOf(j)' = VerdictOf(j)
    BY DEF PromotionOK, Onward, BaseOf, VerdictOf
  <1> QED BY <1>6, <1>7, <1>8, ContractStutter DEF Decides

LEMMA JobsOnward == IInv => Onward(job) /\ Onward(Jobs)
  <1> SUFFICES ASSUME IInv, NEW j \in JobId
               PROVE  \/ Jobs[j] = job[j]
                      \/ /\ job[j].state = "leased"
                         /\ Jobs[j].state \in {"queued", "failed"}
                         /\ Jobs[j].base = job[j].base /\ Jobs[j].type = job[j].type
    BY DEF Onward, Terminal
  <1>1. job[j] \in Job
    BY DEF IInv, JobsOK
  <1> QED BY <1>1 DEF Jobs, HasExpired, Recovered, Released, Job

\* A new row in its place, a row that goes on, and a row that ends.
LEMMA NewRowOnward ==
  ASSUME IInv, NEW J, Onward(J), NEW j \in JobId, job[j].state = "absent",
         J \in [JobId -> Job], NEW row, row.state = "queued",
         row.type = "experiment_cycle" \/ Trusted(row.base),
         NEW K, K = [J EXCEPT ![j] = row]
  PROVE  Onward(K)
  BY DEF Onward, Terminal

LEMMA RowOnward ==
  ASSUME IInv, NEW j \in JobId, job[j].state \in {"queued", "leased"}, NEW row,
         row.state # "absent", row.state # "candidate",
         row.base = job[j].base, row.type = job[j].type,
         NEW K, K = [job EXCEPT ![j] = row]
  PROVE  Onward(K)
  BY DEF IInv, JobsOK, Onward, Terminal

LEMMA EndedRow ==
  ASSUME NEW row \in Job, NEW state, NEW n
  PROVE  LET r == [Released(row) EXCEPT !.state = state, !.ended = n]
         IN  r.state = state /\ r.base = row.base /\ r.type = row.type
  <1>1. Released(row) = [row EXCEPT !.owner = None, !.ttl = 0]
    BY DEF Released
  <1> QED BY <1>1 DEF Job

LEMMA FailedRow ==
  ASSUME NEW row \in Job, NEW err, NEW state, NEW n
  PROVE  LET freed == [Released(row) EXCEPT !.err = err]
             again == [freed EXCEPT !.state = state, !.wait = n]
             over  == [freed EXCEPT !.state = state, !.ended = n]
         IN  /\ again.state = state /\ again.base = row.base /\ again.type = row.type
             /\ over.state = state /\ over.base = row.base /\ over.type = row.type
  <1>1. Released(row) = [row EXCEPT !.owner = None, !.ttl = 0]
    BY DEF Released
  <1> QED BY <1>1 DEF Job

LEMMA ApiOnward ==
  ASSUME IInv, PromotionOK
  PROVE  /\ \A m \in Modes : SetMode(m) => PromotionOK' /\ Decides
         /\ \A o \in Objectives : CreateObjective(o) => PromotionOK' /\ Decides
         /\ \A w \in Worker : SendComplete(w) \/ SendFail(w) \/ MoveOn(w) => PromotionOK' /\ Decides
         /\ \A c \in calls : DropCall(c) => PromotionOK' /\ Decides
         /\ \A c \in JobId : CreateSubmission(c) => PromotionOK' /\ Decides
  <1>1. UNCHANGED job => Onward(job')
    BY JobsOnward
  <1> QED BY <1>1, OnwardPreserves DEF SetMode, CreateObjective, SendComplete,
             SendFail, Send, MoveOn, DropCall, CreateSubmission

LEMMA CreateJobOnward ==
  ASSUME IInv, PromotionOK, NEW j \in JobId, NEW o \in Objectives, NEW b \in Commit,
         CreateJob(j, o, b)
  PROVE  PromotionOK' /\ Decides
  <1>1. PICK a \in AdminJobs : job' = [job EXCEPT ![j] =
           [NoJob EXCEPT !.state = "queued", !.type = a[1], !.obj = o,
                         !.base = b, !.max = a[2]]]
    BY DEF CreateJob
  <1> DEFINE row == [NoJob EXCEPT !.state = "queued", !.type = a[1], !.obj = o,
                                  !.base = b, !.max = a[2]]
  <1>2. row.state = "queued" /\ row.base = b
    BY DEF NoJob
  <1>3. Trusted(b) /\ job[j].state = "absent"
    BY DEF CreateJob, Trusted, IsNextRow
  <1>4. job \in [JobId -> Job]
    BY DEF IInv, JobsOK
  <1> HIDE DEF row
  <1>5. job' = [job EXCEPT ![j] = row]
    BY <1>1 DEF row
  <1>6. Onward(job')
    BY <1>2, <1>3, <1>4, <1>5, JobsOnward, NewRowOnward
  <1> QED BY <1>6, OnwardPreserves DEF CreateJob

LEMMA LeaseJobOnward ==
  ASSUME IInv, PromotionOK, NEW w \in Worker, NEW j \in JobId, LeaseJob(w, j)
  PROVE  PromotionOK' /\ Decides
  <1> DEFINE row == [job[j] EXCEPT !.state = "leased", !.owner = w,
                                   !.ttl = LeaseTicks, !.attempts = @ + 1]
  <1>1. job' = [job EXCEPT ![j] = row] /\ job[j].state = "queued"
    BY DEF LeaseJob, IInv, JobsOK
  <1>2. row.state = "leased" /\ row.base = job[j].base /\ row.type = job[j].type
    BY DEF IInv, JobsOK, Job
  <1> HIDE DEF row
  <1>3. Onward(job')
    BY <1>1, <1>2, RowOnward
  <1> QED BY <1>3, OnwardPreserves DEF LeaseJob

LEMMA HeartbeatOnward ==
  ASSUME IInv, PromotionOK, NEW w \in Worker, Heartbeat(w) PROVE PromotionOK' /\ Decides
  <1> DEFINE j == work[w].job
             row == [job[j] EXCEPT !.ttl = LeaseTicks]
  <1>1. j \in JobId /\ job[j].state = "leased" /\ job[j] \in Job
    BY DEF IInv, JobsOK, LeasesGranted, Heartbeat, Verified
  <1>2. job' = [job EXCEPT ![j] = row]
    BY DEF Heartbeat, IInv, JobsOK
  <1>3. row.state = "leased" /\ row.base = job[j].base /\ row.type = job[j].type
    BY <1>1 DEF Job
  <1> HIDE DEF j, row
  <1>4. Onward(job')
    BY <1>1, <1>2, <1>3, RowOnward
  <1> QED BY <1>4, OnwardPreserves DEF Heartbeat

\* The one step that makes a candidate also opens its change.
LEMMA CompleteCycleOnward ==
  ASSUME IInv, PromotionOK, NEW c \in calls, CompleteCycle(c) PROVE PromotionOK' /\ Decides
  <1> DEFINE j == c.job
             row(state) == [Released(job[j]) EXCEPT !.state = state, !.ended = now + 1]
  <1>1. j \in JobId /\ job[j].state = "leased" /\ job[j] \in Job
    BY AcceptedJob DEF CompleteCycle, Accept, Verified
  <1>2. \A state : /\ row(state).state = state /\ row(state).base = job[j].base
                   /\ row(state).type = job[j].type
    BY <1>1, EndedRow
  <1> HIDE DEF row
  <1>3. CASE Ended(j, "rejected") /\ UNCHANGED change
    <2>1. job' = [job EXCEPT ![j] = row("rejected")]
      BY <1>3 DEF Ended, row
    <2>2. Onward(job')
      BY <1>1, <1>2, <2>1, RowOnward
    <2> QED BY <1>3, <2>2, OnwardPreserves DEF CompleteCycle
  <1>4. CASE Ended(j, "candidate") /\ change' = [change EXCEPT ![j].state = "draft"]
    <2>1. job' = [job EXCEPT ![j] = row("candidate")]
      BY <1>4 DEF Ended, row
    <2>2. /\ \A i \in JobId : i # j => job'[i] = job[i] /\ change'[i] = change[i]
          /\ job'[j].state = "candidate" /\ job'[j].base = job[j].base
          /\ job'[j].type = job[j].type /\ change'[j].state = "draft"
      BY <1>1, <1>2, <1>4, <2>1 DEF IInv, TypeOK, Change
    <2>3. change[j].state = "none"
      BY <1>1 DEF PromotionOK
    <2>4. \A b \in JobId : change[b].state = "promoted" => change'[b].state = "promoted"
      BY <2>2, <2>3
    <2>5. /\ \A i \in JobId :
               /\ change'[i].state \in {"draft", "evaluating"} <=>
                    job'[i].state = "candidate"
               /\ job'[i].state \in {"absent", "queued", "leased"} =>
                    change'[i].state = "none"
      BY <2>2 DEF PromotionOK
    <2>6. ASSUME NEW i \in JobId, job'[i].state # "absent",
                 job'[i].type # "experiment_cycle"
          PROVE  Trusted(job[i].base)'
      <3>1. job'[i].base = job[i].base /\ Trusted(job[i].base)
        BY <1>1, <2>2, <2>6 DEF PromotionOK
      <3> QED BY <2>4, <3>1 DEF Trusted
    <2>7. UNCHANGED <<baseline, taken>>
      BY DEF CompleteCycle
    <2>8. taken # NoneTaken => taken.job # j
      BY <1>1 DEF PromotionOK
    <2>9. Trusted(baseline)'
      BY <2>4, <2>7 DEF PromotionOK, Trusted
    <2>10. (taken # NoneTaken => /\ taken.job \in JobId
                                 /\ job[taken.job].state = "candidate"
                                 /\ job[taken.job].base = baseline)'
      BY <2>2, <2>7, <2>8 DEF PromotionOK
    <2>11. PromotionOK'
      BY <2>5, <2>6, <2>9, <2>10 DEF PromotionOK
    <2>12. Final
      BY <1>1, <2>2, <2>3 DEF Final, Terminal
    <2>13. ContractStep
      <3>1. PICK b \in JobId \cup {0} : job[j].base = b /\ Trusted(b)
        BY <1>1 DEF PromotionOK, Trusted, CompleteCycle
      <3>2. b = 0 \/ VerdictOf(b) = "promoted"
        BY <3>1 DEF Trusted, VerdictOf
      <3>3. VerdictOf(j) = "none" /\ VerdictOf(j)' = "candidate" /\ BaseOf(j)' = b
        BY <2>2, <2>3, <3>1 DEF VerdictOf, BaseOf
      <3>4. \A i \in JobId : i # j => BaseOf(i)' = BaseOf(i) /\ VerdictOf(i)' = VerdictOf(i)
        BY <2>2 DEF VerdictOf, BaseOf
      <3> QED BY <1>1, <2>7, <3>2, <3>3, <3>4, ContractSubmit
    <2> QED BY <2>11, <2>12, <2>13 DEF Decides
  <1> QED BY <1>3, <1>4 DEF CompleteCycle

LEMMA CompleteExperimentOnward ==
  ASSUME IInv, PromotionOK, NEW c \in calls, CompleteExperiment(c) PROVE PromotionOK' /\ Decides
  <1> DEFINE j == c.job
             row == [Released(job[j]) EXCEPT !.state = "completed", !.ended = now + 1]
  <1>1. j \in JobId /\ job[j].state = "leased" /\ job[j] \in Job
    BY AcceptedJob DEF CompleteExperiment, Accept, Verified
  <1>2. row.state = "completed" /\ row.base = job[j].base /\ row.type = job[j].type
    BY <1>1, EndedRow
  <1>3. job' = [job EXCEPT ![j] = row]
    BY DEF Ended, CompleteExperiment
  <1> HIDE DEF row
  <1>4. Onward(job')
    BY <1>1, <1>2, <1>3, RowOnward
  <1> QED BY <1>4, OnwardPreserves DEF CompleteExperiment

LEMMA FailJobOnward ==
  ASSUME IInv, PromotionOK, NEW c \in calls, FailJob(c) PROVE PromotionOK' /\ Decides
  <1> DEFINE j == c.job
             freed(e) == [Released(job[j]) EXCEPT !.err = <<e>>]
             again(e) == [freed(e) EXCEPT !.state = "queued", !.wait = RetryTicks]
             over(e)  == [freed(e) EXCEPT !.state = "failed", !.ended = now + 1]
  <1>1. j \in JobId /\ job[j].state = "leased" /\ job[j] \in Job
    BY AcceptedJob DEF FailJob, Accept, Verified
  <1>2. \E e \in Errors : \/ job' = [job EXCEPT ![j] = again(e)]
                          \/ job' = [job EXCEPT ![j] = over(e)]
    BY DEF FailJob
  <1>3. \A e : /\ again(e).state = "queued" /\ again(e).base = job[j].base
               /\ again(e).type = job[j].type
               /\ over(e).state = "failed" /\ over(e).base = job[j].base
               /\ over(e).type = job[j].type
    BY <1>1, FailedRow
  <1> HIDE DEF again, over
  <1>4. Onward(job')
    BY <1>1, <1>2, <1>3, RowOnward
  <1> QED BY <1>4, OnwardPreserves DEF FailJob

LEMMA ElapseOnward == ASSUME IInv, PromotionOK, Elapse PROVE PromotionOK' /\ Decides
  <1>1. \A j \in JobId : /\ job'[j].state = job[j].state /\ job'[j].base = job[j].base
                         /\ job'[j].type = job[j].type
    BY DEF IInv, JobsOK, Job, Elapse
  <1>2. Onward(job')
    BY <1>1 DEF Onward
  <1> QED BY <1>2, OnwardPreserves DEF Elapse

LEMMA TickOnward == ASSUME IInv, PromotionOK, Tick PROVE PromotionOK' /\ Decides
  <1>1. CASE TickIdle \/ \E o \in Objectives : TickCooldown(o) \/ TickBlock(o)
    <2>1. job' = Jobs /\ UNCHANGED <<baseline, change, taken>>
      BY <1>1 DEF TickIdle, TickCooldown, TickBlock
    <2> QED BY <2>1, JobsOnward, OnwardPreserves
  <1>2. ASSUME NEW o \in Objectives, TickQueue(o) PROVE PromotionOK' /\ Decides
    <2> DEFINE type == ChooseCycle(History(o))
    <2>1. \E j \in JobId, c \in Commit :
            /\ IsNextRow(job, j)
            /\ job' = [Jobs EXCEPT ![j] = NewJob(o, type, c)]
      BY <1>2, SizeAssumption DEF TickQueue, Unscored, Commit, JobId
    <2>2. PICK j \in JobId, c \in Commit :
            /\ IsNextRow(job, j)
            /\ job' = [Jobs EXCEPT ![j] = NewJob(o, type, c)]
      BY <2>1
    <2>3. /\ NewJob(o, type, c).state = "queued"
          /\ NewJob(o, type, c).type = type
          /\ type # "experiment_cycle" => NewJob(o, type, c).base = baseline
      BY DEF NewJob, NoJob
    <2>4. Jobs \in [JobId -> Job] /\ Onward(Jobs) /\ job[j].state = "absent"
          /\ Trusted(baseline)
      BY <2>2, JobsRecovered, JobsOnward DEF JobsOK, IsNextRow, PromotionOK
    <2> HIDE DEF type
    <2>5. Onward(job')
      BY <2>2, <2>3, <2>4, NewRowOnward
    <2> QED BY <1>2, <2>5, OnwardPreserves DEF TickQueue
  <1> QED BY <1>1, <1>2 DEF Tick
-----------------------------------------------------------------------------
(* The promoter. *)

\* The promoter decides on a candidate: only the state of its row changes.
LEMMA DecidedJobs ==
  ASSUME IInv, NEW j \in JobId, job[j].state = "candidate",
         NEW state \in {"completed", "rejected"},
         job' = [job EXCEPT ![j].state = state]
  PROVE  JobsOK(job') /\ Kept(job')
  <1> DEFINE row == [job[j] EXCEPT !.state = state]
  <1>1. job[j] \in Job /\ RowOK(job[j])
    BY DEF IInv, JobsOK
  <1>2. row \in Job /\ RowOK(row) /\ row.attempts = job[j].attempts
        /\ job[j].attempts \in Nat
    BY <1>1 DEF Job, RowOK, Terminal
  <1>3. job' = [job EXCEPT ![j] = row]
    OBVIOUS
  <1> HIDE DEF row
  <1>4. row.attempts >= job[j].attempts
    BY <1>2
  <1> QED BY <1>2, <1>3, <1>4, JobsKept, OneRow

LEMMA RejectPreserves ==
  ASSUME IInv, PromotionOK, NEW j \in JobId, job[j].state = "candidate", Reject(j),
         taken' = NoneTaken
  PROVE  IInv' /\ PromotionOK' /\ Decides
  <1>1. JobsOK(job') /\ Kept(job')
    BY DecidedJobs DEF Reject
  <1>2. change' \in [JobId -> Change]
    BY DEF IInv, TypeOK, Change, Reject
  <1>3. NoneTaken \in [job : JobId \cup {None}, exhausted : BOOLEAN]
    BY DEF NoneTaken
  <1>4. TypeOK'
    BY <1>1, <1>2, <1>3 DEF IInv, TypeOK, JobsOK, Reject
  <1>5. IInv'
    BY <1>1, <1>4, StepPreserves DEF Reject
  <1>6. /\ \A i \in JobId : i # j => job'[i] = job[i] /\ change'[i] = change[i]
        /\ job'[j].state = "rejected" /\ job'[j].base = job[j].base
        /\ job'[j].type = job[j].type /\ change'[j].state = "rejected"
    BY DEF IInv, TypeOK, Job, Change, Reject
  <1>7. \A b \in JobId : change[b].state = "promoted" => change'[b].state = "promoted"
    BY <1>6 DEF PromotionOK
  <1>8. \A i \in JobId :
          /\ change'[i].state \in {"draft", "evaluating"} <=> job'[i].state = "candidate"
          /\ job'[i].state \in {"absent", "queued", "leased"} => change'[i].state = "none"
          /\ job'[i].state # "absent" /\ job'[i].type # "experiment_cycle" =>
               job'[i].base = 0 \/ (job'[i].base \in JobId /\
                                    change'[job'[i].base].state = "promoted")
    BY <1>6, <1>7 DEF PromotionOK, Trusted
  <1>9. Trusted(baseline)'
    BY <1>7 DEF PromotionOK, Trusted, Reject
  <1>10. PromotionOK'
    BY <1>8, <1>9 DEF PromotionOK, Trusted
  <1>11. change[j].state \in {"draft", "evaluating"} /\ UNCHANGED baseline
    BY DEF PromotionOK, Reject
  <1>12. Final
    BY <1>6, <1>11 DEF Final, Terminal
  <1>13. ContractStep
    <2>1. /\ VerdictOf(j) = "candidate" /\ VerdictOf(j)' = "rejected"
          /\ BaseOf(j)' = BaseOf(j)
      BY <1>6, <1>11 DEF VerdictOf, BaseOf
    <2>2. \A i \in JobId : i # j => BaseOf(i)' = BaseOf(i) /\ VerdictOf(i)' = VerdictOf(i)
      BY <1>6 DEF VerdictOf, BaseOf
    <2> QED BY <1>11, <2>1, <2>2, ContractReject
  <1> QED BY <1>5, <1>10, <1>12, <1>13 DEF Decides

LEMMA TakenCandidate ==
  ASSUME IInv, PromotionOK, taken # NoneTaken
  PROVE  /\ taken.job \in JobId /\ job[taken.job].state = "candidate"
         /\ job[taken.job].base = baseline
         /\ change[taken.job].state \in {"draft", "evaluating"}
  BY DEF PromotionOK

\* Steps that leave jobs and the baseline alone, and move undecided changes only
\* between draft and evaluating.
LEMMA UndecidedPreserves ==
  ASSUME IInv, PromotionOK, TypeOK',
         \A i \in JobId : \/ change'[i] = change[i]
                          \/ /\ change[i].state \in {"draft", "evaluating"}
                             /\ change'[i].state \in {"draft", "evaluating"},
         UNCHANGED <<job, baseline, work, calls>>,
         taken' # NoneTaken => /\ taken'.job \in JobId
                               /\ job[taken'.job].state = "candidate"
                               /\ job[taken'.job].base = baseline
  PROVE  IInv' /\ PromotionOK' /\ Decides
  <1>1. IInv'
    BY JobsKept, StepPreserves
  <1>2. \A b \in JobId : change[b].state = "promoted" => change'[b].state = "promoted"
    OBVIOUS
  <1>3. PromotionOK'
    BY <1>2 DEF PromotionOK, Trusted
  <1>4. Final
    BY DEF Final
  <1>5. \A j \in JobId : BaseOf(j)' = BaseOf(j) /\ VerdictOf(j)' = VerdictOf(j)
    BY DEF BaseOf, VerdictOf
  <1> QED BY <1>1, <1>3, <1>4, <1>5, ContractStutter DEF Decides

LEMMA TakeCandidatePreserves ==
  ASSUME IInv, PromotionOK, NEW j \in JobId, TakeCandidate(j)
  PROVE  IInv' /\ PromotionOK' /\ Decides
  <1>1. job[j].state = "candidate" /\ change[j].state \in {"draft", "evaluating"}
        /\ taken = NoneTaken
    BY DEF TakeCandidate, Awaiting
  <1>2. CASE Reject(j) /\ UNCHANGED taken
    BY <1>1, <1>2, RejectPreserves
  <1>3. CASE /\ job[j].base = baseline
             /\ change' = [change EXCEPT ![j].state = "evaluating"]
             /\ taken' = [job |-> j, exhausted |-> FALSE]
             /\ UNCHANGED <<mode, baseline, job, exp, sub, objective, ev, now, work,
                            calls>>
    <2>1. change' \in [JobId -> Change] /\ change'[j].state = "evaluating"
          /\ \A i \in JobId : i # j => change'[i] = change[i]
      BY <1>3 DEF IInv, TypeOK, Change
    <2>2. TypeOK'
      BY <1>3, <2>1 DEF IInv, TypeOK
    <2> QED BY <1>1, <1>3, <2>1, <2>2, UndecidedPreserves
  <1> QED BY <1>2, <1>3 DEF TakeCandidate

LEMMA RejectTakenPreserves ==
  ASSUME IInv, PromotionOK, RejectTaken PROVE IInv' /\ PromotionOK' /\ Decides
  BY TakenCandidate, RejectPreserves DEF RejectTaken

LEMMA RetryTakenPreserves ==
  ASSUME IInv, PromotionOK, RetryTaken PROVE IInv' /\ PromotionOK' /\ Decides
  <1> DEFINE j == taken.job
             next == change[j].retries + 1
             retried == IF next >= MaxPromotionRetries THEN MaxPromotionRetries
                                                       ELSE next
  <1>1. /\ j \in JobId /\ job[j].state = "candidate" /\ job[j].base = baseline
        /\ change[j].state \in {"draft", "evaluating"} /\ change[j] \in Change
    BY TakenCandidate DEF RetryTaken, IInv, TypeOK
  <1>2. retried \in 0..MaxPromotionRetries
    BY <1>1, SizeAssumption DEF Change
  <1>3. change' = [change EXCEPT ![j].state = "draft", ![j].retries = retried]
    BY DEF RetryTaken
  <1> HIDE DEF retried
  <1>4. change' \in [JobId -> Change] /\ change'[j].state = "draft"
        /\ \A i \in JobId : i # j => change'[i] = change[i]
    <2> DEFINE row == [change[j] EXCEPT !.state = "draft", !.retries = retried]
    <2>1. row \in Change /\ row.state = "draft"
      BY <1>1, <1>2 DEF Change
    <2>2. change' = [change EXCEPT ![j] = row] /\ change \in [JobId -> Change]
      BY <1>3 DEF IInv, TypeOK
    <2> HIDE DEF row
    <2> QED BY <1>1, <2>1, <2>2
  <1>5. taken' = NoneTaken \/ taken' = [taken EXCEPT !.exhausted = TRUE]
    BY DEF RetryTaken
  <1>6. taken' \in [job : JobId \cup {None}, exhausted : BOOLEAN]
    <2>1. taken \in [job : JobId \cup {None}, exhausted : BOOLEAN]
      BY DEF IInv, TypeOK
    <2>2. NoneTaken \in [job : JobId \cup {None}, exhausted : BOOLEAN]
      BY DEF NoneTaken
    <2>3. [taken EXCEPT !.exhausted = TRUE]
            \in [job : JobId \cup {None}, exhausted : BOOLEAN]
      BY <2>1
    <2> QED BY <1>5, <2>2, <2>3
  <1>7. taken' # NoneTaken => taken'.job = j
    <2>1. taken \in [job : JobId \cup {None}, exhausted : BOOLEAN]
      BY DEF IInv, TypeOK
    <2>2. [taken EXCEPT !.exhausted = TRUE].job = taken.job
      BY <2>1
    <2> QED BY <1>5, <2>2
  <1>8. TypeOK'
    <2>1. UNCHANGED <<mode, baseline, job, exp, sub, objective, ev, now, work, calls>>
      BY DEF RetryTaken
    <2>2. change' \in [JobId -> Change]
      BY <1>4
    <2> HIDE DEF j, next
    <2> QED BY <1>6, <2>1, <2>2 DEF IInv, TypeOK
  <1> QED BY <1>1, <1>4, <1>7, <1>8, UndecidedPreserves DEF RetryTaken

LEMMA MilestoneType ==
  ASSUME IInv, NEW j \in JobId, MilestoneStep(j)
  PROVE  objective' \in [Objectives -> Objective]
  <1> DEFINE o == job[j].obj
             done == [objective EXCEPT ![o].status =
                        IF @ = "active" THEN "completed" ELSE @]
  <1>1. done \in [Objectives -> Objective]
    BY DEF IInv, TypeOK, Objective
  <1>2. [status |-> "active", due |-> 0] \in Objective
    BY SizeAssumption DEF Objective
  <1>3. \/ objective' = objective
        \/ objective' = done
        \/ \E s : objective' = [done EXCEPT ![s] = [status |-> "active", due |-> 0]]
    BY DEF MilestoneStep
  <1> HIDE DEF done
  <1> QED BY <1>1, <1>2, <1>3 DEF IInv, TypeOK

\* The candidate is still on the baseline, and so becomes the next one.
LEMMA PromoteTakenPreserves ==
  ASSUME IInv, PromotionOK, PromoteTaken PROVE IInv' /\ PromotionOK' /\ Decides
  <1> DEFINE j == taken.job
             o == job[j].obj
  <1>1. /\ j \in JobId /\ job[j].state = "candidate" /\ baseline' = j
        /\ j \in Commit /\ now + 1 \in Nat
    BY TakenCandidate, SizeAssumption DEF PromoteTaken, JobId, Commit, IInv, TypeOK
  <1>2. JobsOK(job') /\ Kept(job')
    BY <1>1, DecidedJobs DEF PromoteTaken
  <1>3. change' \in [JobId -> Change]
    BY <1>1 DEF IInv, TypeOK, Change, PromoteTaken
  <1>4. objective' \in [Objectives -> Objective]
    BY <1>1, MilestoneType DEF PromoteTaken
  <1>5. ev' \in [Objectives -> Evaluation]
    <2>1. CASE ev' = ev
      BY <2>1 DEF IInv, TypeOK
    <2>2. CASE ev' = [ev EXCEPT ![o].fp = <<>>, ![o].count = 0, ![o].cool = 0,
                                ![o].seen = now + 1]
      <3> DEFINE row == [ev[o] EXCEPT !.fp = <<>>, !.count = 0, !.cool = 0,
                                      !.seen = now + 1]
      <3>1. ev \in [Objectives -> Evaluation]
        BY DEF IInv, TypeOK
      <3>2. <<>> \in Error /\ 0 \in 0..CooldownTicks
        BY SizeAssumption DEF Error
      <3>3. o \in Objectives => row \in Evaluation
        BY <1>1, <3>1, <3>2 DEF Evaluation
      <3>4. ev' = [ev EXCEPT ![o] = row]
        BY <2>2, <3>1
      <3> HIDE DEF row
      <3> QED BY <3>1, <3>3, <3>4
    <2> QED BY <2>1, <2>2 DEF PromoteTaken
  <1>6. taken' = NoneTaken /\ NoneTaken \in [job : JobId \cup {None}, exhausted : BOOLEAN]
        /\ now' = now + 1 /\ UNCHANGED <<mode, exp, sub, work, calls>>
    BY DEF PromoteTaken, NoneTaken
  <1>7. TypeOK'
    BY <1>1, <1>2, <1>3, <1>4, <1>5, <1>6 DEF IInv, TypeOK, JobsOK
  <1>8. IInv'
    BY <1>2, <1>6, <1>7, StepPreserves
  <1>9. /\ \A i \in JobId : i # j => job'[i] = job[i] /\ change'[i] = change[i]
        /\ job'[j].state = "completed" /\ job'[j].base = job[j].base
        /\ job'[j].type = job[j].type /\ change'[j].state = "promoted"
    BY <1>1 DEF IInv, TypeOK, Job, Change, PromoteTaken
  <1>10. \A b \in JobId : change[b].state = "promoted" => change'[b].state = "promoted"
    BY <1>9
  <1>11. \A i \in JobId :
           /\ change'[i].state \in {"draft", "evaluating"} <=> job'[i].state = "candidate"
           /\ job'[i].state \in {"absent", "queued", "leased"} => change'[i].state = "none"
           /\ job'[i].state # "absent" /\ job'[i].type # "experiment_cycle" =>
                job'[i].base = 0 \/ (job'[i].base \in JobId /\
                                     change'[job'[i].base].state = "promoted")
    BY <1>1, <1>9, <1>10 DEF PromotionOK, Trusted
  <1>12. PromotionOK'
    BY <1>1, <1>6, <1>9, <1>11 DEF PromotionOK, Trusted
  <1>13. change[j].state \in {"draft", "evaluating"} /\ job[j].base = baseline
    BY TakenCandidate DEF PromoteTaken
  <1>14. Final
    BY <1>1, <1>9, <1>13 DEF Final, Terminal
  <1>15. ContractStep
    <2>1. PICK c \in JobId : c = j
      BY <1>1
    <2>2. /\ VerdictOf(c) = "candidate" /\ VerdictOf(c)' = "promoted"
          /\ BaseOf(c)' = BaseOf(c) /\ BaseOf(c) = baseline /\ baseline' = c
      BY <1>1, <1>9, <1>13, <2>1 DEF VerdictOf, BaseOf
    <2>3. \A i \in JobId : i # c => BaseOf(i)' = BaseOf(i) /\ VerdictOf(i)' = VerdictOf(i)
      BY <1>9, <2>1 DEF VerdictOf, BaseOf
    <2> QED BY <2>2, <2>3, ContractPromote
  <1> QED BY <1>8, <1>12, <1>14, <1>15 DEF Decides

LEMMA RestartPromoterPreserves ==
  ASSUME IInv, PromotionOK, RestartPromoter PROVE IInv' /\ PromotionOK' /\ Decides
  <1>1. NoneTaken \in [job : JobId \cup {None}, exhausted : BOOLEAN]
    BY DEF NoneTaken
  <1>2. TypeOK'
    BY <1>1 DEF IInv, TypeOK, RestartPromoter
  <1> QED BY <1>2, UndecidedPreserves DEF RestartPromoter
-----------------------------------------------------------------------------
(* The theorems. *)

LEMMA InitPromotion == Init => PromotionOK
  BY DEF Init, PromotionOK, Trusted, NoJob

LEMMA InitContract == Init => Contract!Init
  <1> SUFFICES ASSUME Init PROVE Contract!Init
    OBVIOUS
  <1>1. \A j \in JobId : change[j].state = "none"
    BY DEF Init
  <1> QED BY <1>1 DEF Contract!Init, Init

\* One case per action of Next.
LEMMA NextPreserves ==
  ASSUME IInv, PromotionOK, [Next]_vars PROVE IInv' /\ PromotionOK' /\ Decides
  <1>1. CASE Operator
    BY <1>1, SetModePreserves, CreateObjectivePreserves, CreateJobPreserves,
       ApiOnward, CreateJobOnward DEF Operator
  <1>2. CASE Lab
    <2>1. ASSUME NEW w \in Worker, SendComplete(w) PROVE IInv'
      BY <2>1, SendPreserves DEF SendComplete
    <2>2. ASSUME NEW w \in Worker, SendFail(w) PROVE IInv'
      BY <2>2, SendPreserves DEF SendFail
    <2> QED BY <1>2, <2>1, <2>2, LeaseJobPreserves, HeartbeatPreserves,
               MoveOnPreserves, DropCallPreserves, CompleteCyclePreserves,
               CompleteExperimentPreserves, FailJobPreserves,
               CreateSubmissionPreserves, ApiOnward, LeaseJobOnward, HeartbeatOnward,
               CompleteCycleOnward, CompleteExperimentOnward, FailJobOnward DEF Lab
  <1>3. CASE Tick
    BY <1>3, TickIdlePreserves, TickCooldownPreserves, TickBlockPreserves,
       TickQueuePreserves, TickOnward DEF Tick
  <1>4. CASE PromoterStep
    BY <1>4, TakeCandidatePreserves, RejectTakenPreserves, RetryTakenPreserves,
       PromoteTakenPreserves, RestartPromoterPreserves DEF PromoterStep, Resolve
  <1>5. CASE Elapse
    BY <1>5, ElapsePreserves, ElapseOnward
  <1>6. CASE UNCHANGED vars
    <2>1. TypeOK'
      BY <1>6 DEF vars, IInv, TypeOK
    <2>2. IInv'
      BY <1>6, <2>1, JobsKept, StepPreserves DEF vars
    <2>3. PromotionOK' /\ Decides
      BY <1>6, JobsOnward, OnwardPreserves DEF vars
    <2> QED BY <2>2, <2>3
  <1> QED BY <1>1, <1>2, <1>3, <1>4, <1>5, <1>6 DEF Next

\* Rows refer to rows that exist, stamps are not of the future, a lease held was
\* given, and a candidate promoted was submitted from the baseline it replaced,
\* after every transaction of the API, the orchestrator and the promoter.
THEOREM Invariance == Spec => [](IInv /\ PromotionOK)
  <1>1. Init => IInv /\ PromotionOK
    BY InitEstablishes, InitPromotion
  <1>2. (IInv /\ PromotionOK) /\ [Next]_vars => (IInv /\ PromotionOK)'
    BY NextPreserves
  <1> QED BY <1>1, <1>2, PTL DEF Spec

\* Every row of every table keeps its type.
THEOREM TypeCorrect == Spec => []TypeOK
  BY Invariance, PTL DEF IInv

\* No job is leased more often than its retry budget allows, none that has used
\* it up waits to be leased, and every lease that a worker believes in or that a
\* call under way names was granted.
THEOREM BudgetKept == Spec => []LeaseBudget
  <1>1. JobsOK(job) => AttemptBudget
    BY DEF JobsOK, RowOK, AttemptBudget
  <1> QED BY <1>1, Invariance, PTL DEF IInv, LeaseBudget

\* Nothing that finished changes again, and candidates are decided on once.
THEOREM DecisionsAreFinal == Spec => Finality
  <1>1. (IInv /\ PromotionOK) /\ [Next]_vars =>
          [\A j \in JobId :
             /\ job[j].state \in Terminal => job'[j].state = job[j].state
             /\ job[j].state = "candidate" =>
                  job'[j].state \in {"candidate", "completed", "rejected"}
             /\ change[j].state \in {"promoted", "rejected"} =>
                  change'[j].state = change[j].state]_vars
    BY NextPreserves DEF Decides, Final
  <1> QED BY <1>1, Invariance, PTL DEF Spec, Finality

\* The control plane implements PromotionContract: whatever workers, the
\* orchestrator and restarts do meanwhile, candidates are decided on once, and
\* promoted onto the baseline they were built on.
THEOREM Refinement == Spec => KeepsContract
  <1>1. (IInv /\ PromotionOK) /\ [Next]_vars =>
          [Contract!Next]_Contract!contractVars
    BY NextPreserves DEF Decides, ContractStep
  <1> QED BY <1>1, InitContract, Invariance, PTL DEF Spec, KeepsContract, Contract!Spec
=============================================================================
