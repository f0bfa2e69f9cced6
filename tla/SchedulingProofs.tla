-------------------------- MODULE SchedulingProofs --------------------------
(***************************************************************************)
(* Proofs of what the control plane's scheduling rests on: fencing, the    *)
(* one open job of an objective, the line of promoted commits, and what is *)
(* recorded about measurements and failures.                               *)
(***************************************************************************)
EXTENDS ControlPlaneProofs, FiniteSetTheorems

\* What a row says of its job from its insertion on.
Same(q, r) ==
  /\ r.type = q.type /\ r.obj = q.obj /\ r.base = q.base
  /\ r.target = q.target /\ r.auto = q.auto

\* What a step may make of a row q: the row r, with the clock at n. Only the end
\* of a job sets completed_at, and a job ends once.
Moves(q, r, n) ==
  \/ r.state = q.state /\ Same(q, r) /\ r.err = q.err /\ r.ended = q.ended
  \/ /\ q.state = "queued" /\ r.state = "leased"
     /\ Same(q, r) /\ r.err = q.err /\ r.ended = q.ended
  \/ q.state = "leased" /\ r.state = "queued" /\ Same(q, r) /\ r.ended = q.ended
  \/ /\ q.state = "leased" /\ r.state \in Terminal \cup {"candidate"}
     /\ Same(q, r) /\ r.ended = now + 1 /\ n = now + 1
  \/ /\ q.state = "candidate" /\ r.state \in {"completed", "rejected"}
     /\ Same(q, r) /\ r.err = q.err /\ r.ended = q.ended
  \/ q.state = "absent" /\ r.state = "queued" /\ r.ended = 0

\* What Fencing says of one job.
FencedOn(j) ==
  job[j].state = "leased" /\ job'[j].ended # job[j].ended /\ ~HasExpired(job[j])
  => \E c \in calls : /\ c.job = j /\ c.token = job[j].attempts
                      /\ c.by = job[j].owner

\* The orchestrator's new job is the only open one of its objective.
AloneWhenNew(j) ==
  job[j].state = "absent" /\ job'[j].state # "absent" =>
    \/ job'[j].auto = FALSE
    \/ \A i \in JobId : i # j /\ job'[i].obj = job'[j].obj =>
         job'[i].state \notin OpenStates

\* What every step does to the jobs and the clock.
Stepped ==
  /\ now' \in {now, now + 1}
  /\ \A j \in JobId : Moves(job[j], job'[j], now') /\ FencedOn(j) /\ AloneWhenNew(j)

-----------------------------------------------------------------------------
(* The steps, one lemma per action that touches jobs. *)

LEMMA IdleSteps == ASSUME UNCHANGED <<job, now>> PROVE Stepped
  BY DEF Stepped, Moves, Same, FencedOn, AloneWhenNew

\* One row changes; the end of a lease in force was called for.
LEMMA RowSteps ==
  ASSUME IInv, NEW j \in JobId, NEW row, job' = [job EXCEPT ![j] = row],
         job[j].state # "absent", Moves(job[j], row, now'),
         now' \in {now, now + 1},
         row.ended = job[j].ended \/ \E c \in calls :
           c.job = j /\ c.token = job[j].attempts /\ c.by = job[j].owner
  PROVE  Stepped
  <1>1. job'[j] = row /\ \A i \in JobId : i # j => job'[i] = job[i]
    BY DEF IInv, JobsOK
  <1>2. ASSUME NEW i \in JobId PROVE Moves(job[i], job'[i], now')
    <2>1. CASE i = j
      BY <1>1, <2>1
    <2>2. CASE i # j
      BY <1>1, <2>2 DEF Moves, Same
    <2> QED BY <2>1, <2>2
  <1>3. \A i \in JobId : FencedOn(i)
    BY <1>1 DEF FencedOn
  <1>4. \A i \in JobId : AloneWhenNew(i)
    BY <1>1 DEF AloneWhenNew
  <1> QED BY <1>2, <1>3, <1>4 DEF Stepped

LEMMA CreateJobSteps ==
  ASSUME IInv, NEW j \in JobId, NEW o \in Objectives, NEW b \in Commit,
         CreateJob(j, o, b)
  PROVE  Stepped
  <1>1. PICK a \in AdminJobs : job' = [job EXCEPT ![j] =
           [NoJob EXCEPT !.state = "queued", !.type = a[1], !.obj = o,
                         !.base = b, !.max = a[2]]]
    BY DEF CreateJob
  <1> DEFINE row == [NoJob EXCEPT !.state = "queued", !.type = a[1], !.obj = o,
                                  !.base = b, !.max = a[2]]
  <1>2. row.state = "queued" /\ row.ended = 0 /\ row.auto = FALSE
    BY DEF NoJob
  <1>3. job[j].state = "absent" /\ now' = now
    BY DEF CreateJob, IsNextRow
  <1> HIDE DEF row
  <1>4. job'[j] = row /\ \A i \in JobId : i # j => job'[i] = job[i]
    BY <1>1 DEF row, IInv, JobsOK
  <1>5. \A i \in JobId : Moves(job[i], job'[i], now')
    BY <1>2, <1>3, <1>4 DEF Moves, Same
  <1>6. \A i \in JobId : FencedOn(i)
    BY <1>3, <1>4 DEF FencedOn
  <1>7. \A i \in JobId : AloneWhenNew(i)
    BY <1>2, <1>4 DEF AloneWhenNew
  <1> QED BY <1>3, <1>5, <1>6, <1>7 DEF Stepped

LEMMA LeaseJobSteps ==
  ASSUME IInv, NEW w \in Worker, NEW j \in JobId, LeaseJob(w, j) PROVE Stepped
  <1> DEFINE row == [job[j] EXCEPT !.state = "leased", !.owner = w,
                                   !.ttl = LeaseTicks, !.attempts = @ + 1]
  <1>1. job' = [job EXCEPT ![j] = row] /\ job[j].state = "queued" /\ now' = now
        /\ job[j] \in Job
    BY DEF LeaseJob, IInv, JobsOK
  <1>2. row.state = "leased" /\ Same(job[j], row) /\ row.err = job[j].err
        /\ row.ended = job[j].ended
    BY <1>1 DEF Job, Same
  <1> HIDE DEF row
  <1>3. Moves(job[j], row, now')
    BY <1>1, <1>2 DEF Moves
  <1> QED BY <1>1, <1>2, <1>3, RowSteps

LEMMA HeartbeatSteps ==
  ASSUME IInv, NEW w \in Worker, Heartbeat(w) PROVE Stepped
  <1> DEFINE j == work[w].job
             row == [job[j] EXCEPT !.ttl = LeaseTicks]
  <1>1. j \in JobId /\ job[j].state = "leased" /\ job[j] \in Job /\ now' = now
    BY DEF IInv, JobsOK, LeasesGranted, Heartbeat, Verified
  <1>2. job' = [job EXCEPT ![j] = row]
    BY DEF Heartbeat, IInv, JobsOK
  <1>3. row.state = job[j].state /\ Same(job[j], row) /\ row.err = job[j].err
        /\ row.ended = job[j].ended
    BY <1>1 DEF Job, Same
  <1> HIDE DEF j, row
  <1>4. Moves(job[j], row, now')
    BY <1>3 DEF Moves
  <1> QED BY <1>1, <1>2, <1>3, <1>4, RowSteps
\* A call that was accepted was sent with the newest token, by the owner.
LEMMA AcceptedCall ==
  ASSUME IInv, NEW c \in calls, NEW kind, Accept(c, kind)
  PROVE  /\ c.job \in JobId /\ job[c.job] \in Job /\ job[c.job].state = "leased"
         /\ c.token = job[c.job].attempts /\ c.by = job[c.job].owner
  BY AcceptedJob DEF Accept, Verified

LEMMA EndedSteps ==
  ASSUME IInv, NEW c \in calls, NEW kind, Accept(c, kind),
         NEW state \in {"candidate", "completed", "rejected"},
         Ended(c.job, state), now' = now + 1
  PROVE  Stepped
  <1> DEFINE j == c.job
             row == [Released(job[j]) EXCEPT !.state = state, !.ended = now + 1]
  <1>1. /\ j \in JobId /\ job[j] \in Job /\ job[j].state = "leased"
        /\ c.token = job[j].attempts /\ c.by = job[j].owner
    BY AcceptedCall
  <1>2. Released(job[j]) = [job[j] EXCEPT !.owner = None, !.ttl = 0]
    BY DEF Released
  <1>3. row.state = state /\ Same(job[j], row) /\ row.ended = now + 1
    BY <1>1, <1>2 DEF Job, Same
  <1>4. job' = [job EXCEPT ![j] = row]
    BY DEF Ended, IInv, JobsOK
  <1> HIDE DEF row
  <1>5. Moves(job[j], row, now')
    BY <1>1, <1>3 DEF Moves, Terminal
  <1> QED BY <1>1, <1>4, <1>5, RowSteps

LEMMA CompleteSteps ==
  ASSUME IInv, NEW c \in calls, CompleteCycle(c) \/ CompleteExperiment(c)
  PROVE  Stepped
  BY EndedSteps DEF CompleteCycle, CompleteExperiment

LEMMA FailJobSteps == ASSUME IInv, NEW c \in calls, FailJob(c) PROVE Stepped
  <1> DEFINE j == c.job
             freed(e) == [Released(job[j]) EXCEPT !.err = <<e>>]
             again(e) == [freed(e) EXCEPT !.state = "queued", !.wait = RetryTicks]
             over(e)  == [freed(e) EXCEPT !.state = "failed", !.ended = now + 1]
  <1>1. /\ j \in JobId /\ job[j] \in Job /\ job[j].state = "leased"
        /\ c.token = job[j].attempts /\ c.by = job[j].owner
    BY AcceptedCall DEF FailJob
  <1>2. \E e \in Errors : \/ job' = [job EXCEPT ![j] = again(e)] /\ now' = now
                          \/ job' = [job EXCEPT ![j] = over(e)] /\ now' = now + 1
    BY DEF FailJob
  <1>3. \A e : /\ again(e).state = "queued" /\ Same(job[j], again(e))
               /\ again(e).ended = job[j].ended
               /\ over(e).state = "failed" /\ Same(job[j], over(e))
               /\ over(e).ended = now + 1
    <2> SUFFICES ASSUME NEW e
                 PROVE  /\ again(e).state = "queued" /\ Same(job[j], again(e))
                        /\ again(e).ended = job[j].ended
                        /\ over(e).state = "failed" /\ Same(job[j], over(e))
                        /\ over(e).ended = now + 1
      OBVIOUS
    <2>1. Released(job[j]) = [job[j] EXCEPT !.owner = None, !.ttl = 0]
      BY DEF Released
    <2> QED BY <1>1, <2>1 DEF Job, Same
  <1> HIDE DEF j, again, over
  <1>4. \A e : /\ now' = now => Moves(job[j], again(e), now')
               /\ now' = now + 1 => Moves(job[j], over(e), now')
    BY <1>1, <1>3 DEF Moves, Terminal
  <1> QED BY <1>1, <1>2, <1>4, RowSteps DEF j

LEMMA ElapseSteps == ASSUME IInv, Elapse PROVE Stepped
  <1>1. /\ now' = now
        /\ \A j \in JobId : /\ job'[j].state = job[j].state /\ Same(job[j], job'[j])
                            /\ job'[j].err = job[j].err /\ job'[j].ended = job[j].ended
    BY DEF IInv, JobsOK, Job, Elapse, Same
  <1> QED BY <1>1 DEF Stepped, Moves, FencedOn, AloneWhenNew

\* The rows of a tick before it schedules anything: expired leases end or wait
\* for the next, and other rows stay.
LEMMA RecoveredMoves ==
  ASSUME IInv, NEW j \in JobId
  PROVE  /\ Jobs[j] = job[j] \/ HasExpired(job[j])
         /\ Moves(job[j], Jobs[j], Now)
         /\ Jobs[j].state = "failed" => Jobs[j].ended <= Now
                                        \/ Jobs[j] = job[j]
  <1>1. job[j] \in Job /\ now \in Nat
    BY DEF IInv, TypeOK, JobsOK
  <1>2. CASE ~HasExpired(job[j])
    BY <1>2 DEF Jobs, Moves, Same
  <1>3. CASE HasExpired(job[j])
    <2> DEFINE err   == WithExpiry(job[j].err)
               freed == [Released(job[j]) EXCEPT !.err = err]
               again == [freed EXCEPT !.state = "queued", !.wait = RetryTicks]
               over  == [freed EXCEPT !.state = "failed", !.ended = now + 1]
    <2>1. Released(job[j]).err = job[j].err
      BY <1>1 DEF Released, Job
    <2>2. Jobs[j] = IF job[j].attempts < job[j].max THEN again ELSE over
      BY <1>3, <2>1 DEF Jobs, Recovered
    <2>3. /\ again.state = "queued" /\ Same(job[j], again) /\ again.ended = job[j].ended
          /\ over.state = "failed" /\ Same(job[j], over) /\ over.ended = now + 1
      <3>1. Released(job[j]) = [job[j] EXCEPT !.owner = None, !.ttl = 0]
        BY DEF Released
      <3> HIDE DEF err
      <3> QED BY <1>1, <3>1 DEF Job, Same
    <2>4. job[j].attempts \in Nat /\ job[j].max \in Nat
      BY <1>1 DEF Job
    <2> HIDE DEF again, over
    <2>5. CASE job[j].attempts < job[j].max
      BY <1>3, <2>2, <2>3, <2>5 DEF Moves, HasExpired
    <2>6. CASE job[j].attempts >= job[j].max
      <3>1. Now = now + 1
        BY <1>3, <2>6 DEF Now
      <3> QED BY <1>1, <1>3, <2>2, <2>3, <2>4, <2>6, <3>1 DEF Moves, HasExpired, Terminal
    <2> QED BY <2>4, <2>5, <2>6
  <1> QED BY <1>2, <1>3

LEMMA RecoverySteps == ASSUME IInv, job' = Jobs, now' = Now PROVE Stepped
  <1>1. now' \in {now, now + 1}
    BY DEF Now
  <1>2. ASSUME NEW j \in JobId
        PROVE  Moves(job[j], job'[j], now') /\ FencedOn(j) /\ AloneWhenNew(j)
    BY RecoveredMoves DEF FencedOn, AloneWhenNew, HasExpired
  <1> QED BY <1>1, <1>2 DEF Stepped
\* The tick that schedules: the row it inserts, and the submissions after it.
LEMMA QueuedRow ==
  ASSUME NEW o \in Objectives, TickQueue(o)
  PROVE  \E j \in JobId, c \in Commit :
           LET type == ChooseCycle(History(o))
           IN  /\ IsNextRow(job, j)
               /\ job' = [Jobs EXCEPT ![j] = NewJob(o, type, c)]
               /\ \/ /\ type = "experiment_cycle" /\ c \in Unscored(o)
                     /\ sub' = [Admitted(o) EXCEPT ![c] = "queued"]
                  \/ type # "experiment_cycle" /\ sub' = Admitted(o)
  <1> DEFINE type == ChooseCycle(History(o))
  <1>1. JobId \subseteq Commit /\ 0 \in Commit /\ Unscored(o) \subseteq JobId
    BY SizeAssumption DEF JobId, Commit, Unscored
  <1>2. PICK j \in JobId :
          /\ IsNextRow(job, j)
          /\ IF type = "experiment_cycle"
             THEN \E c \in Unscored(o) :
                    /\ job' = [Jobs EXCEPT ![j] = NewJob(o, type, c)]
                    /\ sub' = [Admitted(o) EXCEPT ![c] = "queued"]
             ELSE /\ job' = [Jobs EXCEPT ![j] = NewJob(o, type, 0)]
                  /\ sub' = Admitted(o)
    BY DEF TickQueue
  <1> HIDE DEF type
  <1> QED BY <1>1, <1>2 DEF type

LEMMA NewJobRow ==
  ASSUME NEW o, NEW type, NEW c
  PROVE  LET row == NewJob(o, type, c)
         IN  /\ row.state = "queued" /\ row.type = type /\ row.obj = o
             /\ row.target = c /\ row.ended = 0 /\ row.err = <<>>
  BY DEF NewJob, NoJob

LEMMA QueueSteps == ASSUME IInv, NEW o \in Objectives, TickQueue(o) PROVE Stepped
  <1> DEFINE type == ChooseCycle(History(o))
  <1>1. PICK j \in JobId, c \in Commit :
          /\ IsNextRow(job, j)
          /\ job' = [Jobs EXCEPT ![j] = NewJob(o, type, c)]
    BY QueuedRow
  <1> DEFINE row == NewJob(o, type, c)
  <1>2. row.state = "queued" /\ row.obj = o /\ row.ended = 0
    BY NewJobRow
  <1>3. now' = Now /\ now' \in {now, now + 1} /\ job[j].state = "absent"
    BY <1>1 DEF TickQueue, Now, IsNextRow
  <1> HIDE DEF row, type
  <1>4. job'[j] = row /\ \A i \in JobId : i # j => job'[i] = Jobs[i]
    BY <1>1, JobsRecovered DEF row, JobsOK
  <1>5. ASSUME NEW i \in JobId
        PROVE  Moves(job[i], job'[i], now') /\ FencedOn(i) /\ AloneWhenNew(i)
    <2>1. CASE i = j
      <3>1. \A k \in JobId : k # j /\ job'[k].obj = o => job'[k].state \notin OpenStates
        BY <1>4 DEF TickQueue, Due
      <3> QED BY <1>2, <1>3, <1>4, <2>1, <3>1 DEF Moves, FencedOn, AloneWhenNew
    <2>2. CASE i # j
      <3>1. Jobs[i] = job[i] \/ HasExpired(job[i])
        BY RecoveredMoves
      <3>2. Moves(job[i], job'[i], now')
        BY <1>3, <1>4, <2>2, RecoveredMoves
      <3> QED BY <1>4, <2>2, <3>1, <3>2 DEF FencedOn, AloneWhenNew, HasExpired
    <2> QED BY <2>1, <2>2
  <1> QED BY <1>3, <1>5 DEF Stepped

LEMMA DecidedSteps ==
  ASSUME IInv, NEW j \in JobId, job[j].state = "candidate",
         NEW state \in {"completed", "rejected"},
         job' = [job EXCEPT ![j].state = state], now' \in {now, now + 1}
  PROVE  Stepped
  <1> DEFINE row == [job[j] EXCEPT !.state = state]
  <1>1. job' = [job EXCEPT ![j] = row] /\ job[j] \in Job
    BY DEF IInv, JobsOK
  <1>2. row.state = state /\ Same(job[j], row) /\ row.err = job[j].err
        /\ row.ended = job[j].ended
    BY <1>1 DEF Job, Same
  <1> HIDE DEF row
  <1>3. Moves(job[j], row, now')
    BY <1>2 DEF Moves
  <1> QED BY <1>1, <1>2, <1>3, RowSteps

LEMMA PromoterSteps == ASSUME IInv, PromotionOK, PromoterStep PROVE Stepped
  <1>1. ASSUME NEW j \in JobId, job[j].state = "candidate", Reject(j) PROVE Stepped
    BY <1>1, DecidedSteps DEF Reject
  <1>2. ASSUME NEW j \in JobId, TakeCandidate(j) PROVE Stepped
    BY <1>1, <1>2, IdleSteps DEF TakeCandidate, Awaiting
  <1>3. CASE RejectTaken
    BY <1>1, <1>3, TakenCandidate DEF RejectTaken
  <1>4. CASE PromoteTaken
    BY <1>4, TakenCandidate, DecidedSteps DEF PromoteTaken
  <1>5. CASE RetryTaken \/ RestartPromoter
    BY <1>5, IdleSteps DEF RetryTaken, RestartPromoter
  <1> QED BY <1>2, <1>3, <1>4, <1>5 DEF PromoterStep, Resolve

\* One case per action of Next.
LEMMA NextSteps == ASSUME IInv, PromotionOK, [Next]_vars PROVE Stepped
  <1>1. CASE Operator
    BY <1>1, IdleSteps, CreateJobSteps DEF Operator, SetMode, CreateObjective
  <1>2. CASE Lab
    <2>1. ASSUME NEW w \in Worker, SendComplete(w) \/ SendFail(w) \/ MoveOn(w)
          PROVE  Stepped
      BY <2>1, IdleSteps DEF SendComplete, SendFail, Send, MoveOn
    <2>2. ASSUME NEW c \in calls, DropCall(c) PROVE Stepped
      BY <2>2, IdleSteps DEF DropCall
    <2>3. ASSUME NEW c \in JobId, CreateSubmission(c) PROVE Stepped
      BY <2>3, IdleSteps DEF CreateSubmission
    <2> QED BY <1>2, <2>1, <2>2, <2>3, LeaseJobSteps, HeartbeatSteps, CompleteSteps,
               FailJobSteps DEF Lab
  <1>3. CASE Tick
    BY <1>3, RecoverySteps, QueueSteps DEF Tick, TickIdle, TickCooldown, TickBlock
  <1>4. CASE PromoterStep
    BY <1>4, PromoterSteps
  <1>5. CASE Elapse
    BY <1>5, ElapseSteps
  <1>6. CASE UNCHANGED vars
    BY <1>6, IdleSteps DEF vars
  <1> QED BY <1>1, <1>2, <1>3, <1>4, <1>5, <1>6 DEF Next

\* Only the holder of a job's newest lease ends it, unless that lease has run out.
THEOREM FencedResults == Spec => Fencing
  <1>1. (IInv /\ PromotionOK) /\ [Next]_vars =>
          [\A j \in JobId :
             job[j].state = "leased" /\ job'[j].ended # job[j].ended
             /\ ~HasExpired(job[j])
             => \E c \in calls : /\ c.job = j /\ c.token = job[j].attempts
                                 /\ c.by = job[j].owner]_vars
    BY NextSteps DEF Stepped, FencedOn
  <1> QED BY <1>1, Invariance, PTL DEF Spec, Fencing

-----------------------------------------------------------------------------
(* One open job. *)

LEMMA OpenJobsPreserved ==
  ASSUME IInv, PromotionOK, OneOpenJob, [Next]_vars PROVE OneOpenJob'
  <1> SUFFICES ASSUME NEW i \in JobId, NEW j \in JobId, i # j,
                      job'[i].auto, job'[j].auto, job'[i].obj = job'[j].obj,
                      job'[i].state \in OpenStates, job'[j].state \in OpenStates
               PROVE  FALSE
    BY DEF OneOpenJob
  <1>1. \A k \in JobId : Moves(job[k], job'[k], now') /\ AloneWhenNew(k)
    BY NextSteps DEF Stepped
  <1>2. job[i].state # "absent"
    BY <1>1 DEF AloneWhenNew, OpenStates
  <1>3. job[j].state # "absent"
    BY <1>1 DEF AloneWhenNew, OpenStates
  <1>4. \A k \in {i, j} : /\ job[k].state \in OpenStates /\ job[k].auto = job'[k].auto
                          /\ job[k].obj = job'[k].obj
    BY <1>1, <1>2, <1>3 DEF Moves, Same, OpenStates, Terminal
  <1> QED BY <1>4 DEF OneOpenJob

\* Whatever fails, expires or is decided, the orchestrator never has two open
\* jobs of one objective.
THEOREM OpenJobIsOne == Spec => []OneOpenJob
  <1>1. Init => OneOpenJob
    BY DEF Init, OneOpenJob, NoJob
  <1>2. (IInv /\ PromotionOK) /\ OneOpenJob /\ [Next]_vars => OneOpenJob'
    BY OpenJobsPreserved
  <1> QED BY <1>1, <1>2, Invariance, PTL DEF Spec
-----------------------------------------------------------------------------
(* The line of promoted commits. *)

Line       == {j \in JobId : IsPromoted(j)}
Earlier(j) == {i \in Line : change[i].promoted < change[j].promoted}

\* b is the last of the promoted commits S, or the first baseline when none is.
IsLast(b, S) ==
  IF S = {} THEN b = 0
  ELSE b \in S /\ \A i \in S : change[i].promoted <= change[b].promoted

\* Promotions have moments of their own, and none is yet to come.
Stamped ==
  /\ \A j \in Line : change[j].promoted \in 1..now
  /\ \A i, j \in Line : change[i].promoted = change[j].promoted => i = j

Linear ==
  /\ IsLast(baseline, Line)
  /\ \A j \in Line : IsLast(job[j].base, Earlier(j))

\* The last of the line is one commit.
LEMMA LastIsOne ==
  ASSUME IInv, Stamped, NEW S \in SUBSET Line, NEW b, IsLast(b, S)
  PROVE  b = IF S = {} THEN 0
             ELSE CHOOSE j \in S : \A i \in S :
                    change[i].promoted <= change[j].promoted
  <1>1. CASE S = {}
    BY <1>1 DEF IsLast
  <1>2. CASE S # {}
    <2> DEFINE IsMax(j) == \A i \in S : change[i].promoted <= change[j].promoted
    <2>1. b \in S /\ IsMax(b)
      BY <1>2 DEF IsLast
    <2>2. \A i \in S : change[i].promoted \in Nat
      BY DEF IInv, TypeOK, Change, Line
    <2>3. ASSUME NEW j \in S, IsMax(j) PROVE j = b
      <3>1. change[j].promoted = change[b].promoted
        BY <2>1, <2>2, <2>3
      <3> QED BY <2>1, <3>1 DEF Stamped
    <2> HIDE DEF IsMax
    <2>4. (CHOOSE j \in S : IsMax(j)) = b
      BY <2>1, <2>3
    <2> QED BY <1>2, <2>4 DEF IsMax
  <1> QED BY <1>1, <1>2

LEMMA LinearIsLine == ASSUME IInv, Stamped, Linear PROVE BaselineIsLinear
  <1>1. \A j : Earlier(j) \in SUBSET Line
    BY DEF Earlier
  <1>2. baseline = IF Line = {} THEN 0
                   ELSE CHOOSE j \in Line : \A i \in Line :
                          change[i].promoted <= change[j].promoted
    BY LastIsOne DEF Linear
  <1>3. \A k \in Line :
          job[k].base = IF Earlier(k) = {} THEN 0
                        ELSE CHOOSE j \in Earlier(k) : \A i \in Earlier(k) :
                               change[i].promoted <= change[j].promoted
    BY <1>1, LastIsOne DEF Linear
  <1> QED BY <1>2, <1>3 DEF BaselineIsLinear, Line, Earlier

\* What steps other than a promotion do to the line: nothing.
LineKept ==
  /\ UNCHANGED baseline
  /\ \A j \in JobId :
       /\ IsPromoted(j)' = IsPromoted(j)
       /\ IsPromoted(j) => change'[j].promoted = change[j].promoted

LEMMA LineSteps ==
  ASSUME IInv, PromotionOK, [Next]_vars PROVE LineKept \/ PromoteTaken
  <1> USE DEF LineKept, IsPromoted
  <1>1. CASE Operator
    BY <1>1 DEF Operator, SetMode, CreateObjective, CreateJob
  <1>2. CASE Lab
    <2>1. ASSUME NEW c \in calls, CompleteCycle(c) PROVE LineKept
      <3>1. c.job \in JobId /\ change[c.job].state = "none" /\ UNCHANGED baseline
        BY <2>1, AcceptedCall DEF PromotionOK, CompleteCycle
      <3>2. change' = change \/ change' = [change EXCEPT ![c.job].state = "draft"]
        BY <2>1 DEF CompleteCycle
      <3> QED BY <3>1, <3>2 DEF IInv, TypeOK, Change
    <2> QED BY <1>2, <2>1 DEF Lab, LeaseJob, Heartbeat, SendComplete, SendFail, Send,
               MoveOn, DropCall, CompleteExperiment, FailJob, CreateSubmission
  <1>3. CASE Tick
    BY <1>3 DEF Tick, TickIdle, TickCooldown, TickBlock, TickQueue
  <1>4. CASE PromoterStep
    <2>1. ASSUME NEW j \in JobId, change[j].state \in {"draft", "evaluating"}, Reject(j)
          PROVE  LineKept
      BY <2>1 DEF Reject, IInv, TypeOK, Change
    <2>2. ASSUME NEW j \in JobId, TakeCandidate(j) PROVE LineKept
      BY <2>1, <2>2 DEF TakeCandidate, Awaiting, IInv, TypeOK, Change
    <2>3. CASE RejectTaken
      BY <2>1, <2>3, TakenCandidate DEF RejectTaken
    <2>4. CASE RetryTaken
      <3>1. /\ taken.job \in JobId
            /\ change[taken.job].state \in {"draft", "evaluating"}
        BY <2>4, TakenCandidate DEF RetryTaken
      <3>2. \E n : change' = [change EXCEPT ![taken.job].state = "draft",
                                            ![taken.job].retries = n]
        BY <2>4 DEF RetryTaken
      <3>3. UNCHANGED baseline
        BY <2>4 DEF RetryTaken
      <3> QED BY <3>1, <3>2, <3>3 DEF IInv, TypeOK, Change
    <2>5. CASE RestartPromoter
      BY <2>5 DEF RestartPromoter
    <2> QED BY <1>4, <2>2, <2>3, <2>4, <2>5 DEF PromoterStep, Resolve
  <1>5. CASE Elapse
    BY <1>5 DEF Elapse
  <1>6. CASE UNCHANGED vars
    BY <1>6 DEF vars
  <1> QED BY <1>1, <1>2, <1>3, <1>4, <1>5, <1>6 DEF Next

\* A commit that is promoted keeps the base it was built on.
LEMMA BaseKept ==
  ASSUME IInv, PromotionOK, [Next]_vars, NEW j \in JobId,
         job[j].state # "absent"
  PROVE  job'[j].base = job[j].base
  BY NextSteps DEF Stepped, Moves, Same

LEMMA LineKeptPreserves ==
  ASSUME IInv, PromotionOK, Stamped, Linear, [Next]_vars, LineKept
  PROVE  (Stamped /\ Linear)'
  <1>1. Line' = Line
    BY DEF Line, LineKept
  <1>2. \A j \in Line : /\ change'[j].promoted = change[j].promoted
                        /\ job'[j].base = job[j].base
    BY BaseKept DEF Line, LineKept, IsPromoted, PromotionOK
  <1>3. \A j \in Line : Earlier(j)' = Earlier(j)
    BY <1>1, <1>2 DEF Earlier
  <1>4. now \in Nat /\ now' \in {now, now + 1}
    BY NextSteps DEF Stepped, IInv, TypeOK
  <1>5. Stamped'
    BY <1>1, <1>2, <1>4 DEF Stamped
  <1>6. \A b : \A S \in SUBSET Line : IsLast(b, S) => IsLast(b, S)'
    BY <1>2 DEF IsLast
  <1>7. \A j : Earlier(j) \in SUBSET Line
    BY DEF Earlier
  <1>8. Linear'
    <2>1. IsLast(baseline, Line)'
      BY <1>1, <1>2 DEF Linear, LineKept, IsLast
    <2>2. ASSUME NEW j \in Line PROVE IsLast(job[j].base, Earlier(j))'
      <3>1. IsLast(job[j].base, Earlier(j))
        BY DEF Linear
      <3>2. \A i \in Earlier(j) : change'[i].promoted = change[i].promoted
        BY <1>2, <1>7
      <3> QED BY <1>2, <1>3, <3>1, <3>2 DEF IsLast
    <2> QED BY <1>1, <2>1, <2>2 DEF Linear
  <1> QED BY <1>5, <1>8
\* The candidate was built on the last of the line, and becomes the last.
LEMMA PromotionPreserves ==
  ASSUME IInv, PromotionOK, Stamped, Linear, PromoteTaken, [Next]_vars
  PROVE  (Stamped /\ Linear)'
  <1>1. PICK j \in JobId :
          /\ job[j].state = "candidate" /\ job[j].base = baseline
          /\ change[j].state \in {"draft", "evaluating"}
          /\ baseline' = j
          /\ change' = [change EXCEPT ![j].state = "promoted", ![j].promoted = now + 1]
          /\ now' = now + 1
    BY TakenCandidate DEF PromoteTaken
  <1>2. now \in Nat /\ change \in [JobId -> Change]
    BY DEF IInv, TypeOK
  <1>3. /\ change'[j].state = "promoted" /\ change'[j].promoted = now + 1
        /\ \A i \in JobId : i # j => change'[i] = change[i]
    BY <1>1, <1>2 DEF Change
  <1>4. j \notin Line /\ Line' = Line \cup {j}
    BY <1>1, <1>3 DEF Line, IsPromoted
  <1>5. \A i \in Line : /\ i \in JobId /\ i # j
                        /\ change'[i].promoted = change[i].promoted
                        /\ change[i].promoted \in 1..now
    BY <1>3, <1>4 DEF Line, Stamped
  <1>6. \A i \in Line' : job'[i].base = job[i].base
    BY <1>1, <1>4, BaseKept DEF PromotionOK, Line, IsPromoted
  <1>7. Stamped'
    BY <1>1, <1>2, <1>3, <1>4, <1>5 DEF Stamped
  <1>8. IsLast(baseline, Line)'
    <2>1. j \in Line' /\ \A i \in Line' : change'[i].promoted <= change'[j].promoted
      BY <1>2, <1>3, <1>4, <1>5
    <2> QED BY <1>1, <2>1 DEF IsLast
  <1>9. IsLast(job[j].base, Earlier(j))'
    <2>1. Earlier(j)' = Line
      BY <1>2, <1>3, <1>4, <1>5 DEF Earlier
    <2>2. job'[j].base = baseline
      BY <1>1, <1>4, <1>6
    <2> QED BY <1>5, <2>1, <2>2 DEF IsLast, Linear
  <1>10. ASSUME NEW i \in Line PROVE IsLast(job[i].base, Earlier(i))'
    <2>1. Earlier(i)' = Earlier(i)
      BY <1>2, <1>3, <1>4, <1>5 DEF Earlier
    <2>2. job'[i].base = job[i].base /\ IsLast(job[i].base, Earlier(i))
      BY <1>4, <1>6 DEF Linear
    <2>3. \A k \in Earlier(i) : change'[k].promoted = change[k].promoted
      BY <1>5 DEF Earlier
    <2> QED BY <2>1, <2>2, <2>3 DEF IsLast
  <1>11. Linear'
    BY <1>4, <1>8, <1>9, <1>10 DEF Linear
  <1> QED BY <1>7, <1>11

\* Promotions are stamped one after the other, and each promoted candidate was
\* built on the one promoted before it (_promote's update of the baseline row).
THEOREM LineInvariance == Spec => [](Stamped /\ Linear)
  <1>1. Init => Stamped /\ Linear
    <2>1. Init => Line = {} /\ baseline = 0
      BY DEF Init, Line, IsPromoted
    <2> QED BY <2>1 DEF Stamped, Linear, IsLast
  <1>2. (IInv /\ PromotionOK) /\ (Stamped /\ Linear) /\ [Next]_vars
        => (Stamped /\ Linear)'
    BY LineSteps, LineKeptPreserves, PromotionPreserves
  <1> QED BY <1>1, <1>2, Invariance, PTL DEF Spec

\* The promoted commits form one line that ends at the baseline, however many
\* candidates are built on one base and whenever the promoter stops.
THEOREM LineIsLinear == Spec => []BaselineIsLinear
  <1>1. IInv /\ Stamped /\ Linear => BaselineIsLinear
    BY LinearIsLine
  <1> QED BY <1>1, LineInvariance, Invariance, PTL
-----------------------------------------------------------------------------
(* Measurements. *)

\* A score was reported by an experiment that is over for good.
Measured ==
  \A j \in JobId : exp[j].state = "completed" =>
    job[j].state = "completed" /\ exp[j].score \in Scores

\* What steps other than the report of a score do to scores: nothing.
ScoresKept ==
  \A j \in JobId :
    exp[j].state = "completed" \/ exp'[j].state = "completed" => exp'[j] = exp[j]

LEMMA ScoreSteps ==
  ASSUME IInv, PromotionOK, Measured, [Next]_vars
  PROVE  ScoresKept \/ \E c \in calls : CompleteExperiment(c)
  <1> USE DEF ScoresKept
  <1>1. CASE Operator
    BY <1>1 DEF Operator, SetMode, CreateObjective, CreateJob
  <1>2. CASE Lab
    <2>1. ASSUME NEW j \in JobId, job[j].state # "completed",
                 NEW state, state # "completed",
                 exp' = [exp EXCEPT ![j].state = state]
          PROVE  ScoresKept
      BY <2>1 DEF IInv, TypeOK, Experiment, Measured
    <2>2. ASSUME NEW w \in Worker, NEW j \in JobId, LeaseJob(w, j) PROVE ScoresKept
      <3>1. job[j].state # "completed"
            /\ (exp' = exp \/ exp' = [exp EXCEPT ![j].state = "running"])
        BY <2>2 DEF LeaseJob
      <3> QED BY <2>1, <3>1
    <2>3. ASSUME NEW c \in calls, FailJob(c) PROVE ScoresKept
      <3>1. c.job \in JobId /\ job[c.job].state # "completed"
        BY <2>3, AcceptedCall DEF FailJob
      <3>2. exp' = exp \/ \E state \in {"queued", "failed"} :
                            exp' = [exp EXCEPT ![c.job].state = state]
        BY <2>3 DEF FailJob
      <3> QED BY <2>1, <3>1, <3>2
    <2> QED BY <1>2, <2>2, <2>3 DEF Lab, Heartbeat, SendComplete, SendFail, Send,
               MoveOn, DropCall, CompleteCycle, CreateSubmission
  <1>3. CASE Tick
    BY <1>3 DEF Tick, TickIdle, TickCooldown, TickBlock, TickQueue
  <1>4. CASE PromoterStep
    BY <1>4 DEF PromoterStep, Resolve, TakeCandidate, Reject, RejectTaken, RetryTaken,
                PromoteTaken, RestartPromoter
  <1>5. CASE Elapse \/ UNCHANGED vars
    BY <1>5 DEF Elapse, vars
  <1> QED BY <1>1, <1>2, <1>3, <1>4, <1>5 DEF Next

\* The report of a score, in terms of the rows.
LEMMA ScoredExperiment ==
  ASSUME IInv, NEW c \in calls, CompleteExperiment(c)
  PROVE  /\ c.job \in JobId /\ job[c.job].state = "leased"
         /\ job[c.job].type = "experiment_cycle"
         /\ job'[c.job].state = "completed" /\ job'[c.job].ended = now + 1
         /\ now' = now + 1
         /\ exp'[c.job].state = "completed" /\ exp'[c.job].score \in Scores
         /\ \A i \in JobId : i # c.job => job'[i] = job[i] /\ exp'[i] = exp[i]
         /\ sub' = [sub EXCEPT ![job[c.job].target] = "scored"]
  <1> DEFINE j == c.job
             row == [Released(job[j]) EXCEPT !.state = "completed", !.ended = now + 1]
  <1>1. /\ j \in JobId /\ job[j].state = "leased" /\ job[j] \in Job
    BY AcceptedCall DEF CompleteExperiment
  <1>2. Released(job[j]) = [job[j] EXCEPT !.owner = None, !.ttl = 0]
    BY DEF Released
  <1>3. row.state = "completed" /\ row.ended = now + 1
    BY <1>1, <1>2 DEF Job
  <1>4. job' = [job EXCEPT ![j] = row]
    BY DEF Ended, CompleteExperiment
  <1> HIDE DEF row
  <1>5. PICK score \in Scores, apiFailed \in BOOLEAN :
          exp' = [exp EXCEPT ![j] = [state |-> "completed", score |-> score,
                                     apiFailed |-> apiFailed]]
    BY DEF CompleteExperiment
  <1>6. exp'[j].state = "completed" /\ exp'[j].score = score
        /\ \A i \in JobId : i # j => exp'[i] = exp[i]
    BY <1>1, <1>5 DEF IInv, TypeOK
  <1>7. job'[j] = row /\ \A i \in JobId : i # j => job'[i] = job[i]
    BY <1>1, <1>4 DEF IInv, JobsOK
  <1>8. /\ sub' = [sub EXCEPT ![job[j].target] = "scored"] /\ now' = now + 1
        /\ job[j].type = "experiment_cycle"
    BY DEF CompleteExperiment
  <1> QED BY <1>1, <1>3, <1>6, <1>7, <1>8

LEMMA MeasuredPreserved ==
  ASSUME IInv, PromotionOK, Measured, [Next]_vars PROVE Measured'
  <1>1. \A j \in JobId : job[j].state = "completed" => job'[j].state = "completed"
    BY NextSteps DEF Stepped, Moves, Terminal
  <1>2. CASE ScoresKept
    BY <1>1, <1>2 DEF Measured, ScoresKept
  <1>3. ASSUME NEW c \in calls, CompleteExperiment(c) PROVE Measured'
    BY <1>1, <1>3, ScoredExperiment DEF Measured
  <1> QED BY <1>2, <1>3, ScoreSteps

\* Only complete_job of an experiment writes a score, and that job stays as it is.
THEOREM MeasuredInvariance == Spec => []Measured
  <1>1. Init => Measured
    BY DEF Init, Measured
  <1>2. (IInv /\ PromotionOK) /\ Measured /\ [Next]_vars => Measured'
    BY MeasuredPreserved
  <1> QED BY <1>1, <1>2, Invariance, PTL DEF Spec

-----------------------------------------------------------------------------
(* Submissions. *)

Measuring(c) == {j \in JobId : /\ job[j].type = "experiment_cycle"
                               /\ job[j].target = c
                               /\ job[j].state \in {"queued", "leased"}}

\* SubmissionsTracked for one commit, without cardinalities.
TrackedOn(c) ==
  /\ \A i, j \in Measuring(c) : i = j
  /\ sub[c] = "queued" => \E j \in Measuring(c) : job[j].state = "queued"
  /\ sub[c] \in {"admitted", "scored", "none"} => Measuring(c) = {}
  /\ sub[c] = "scored" =>
       \E j \in JobId : job[j].target = c /\ exp[j].state = "completed"

Tracked == \A c \in JobId : TrackedOn(c)

\* A step that does not move the measurement of c on.
CalmOn(c) ==
  /\ sub'[c] = sub[c] \/ (sub[c] = "none" /\ sub'[c] = "admitted")
  /\ Measuring(c)' \subseteq Measuring(c)
  /\ \A j \in Measuring(c) : job[j].state = "queued" =>
       j \in Measuring(c)' /\ job'[j].state = "queued"
  /\ \A j \in JobId : job[j].target = c /\ exp[j].state = "completed" =>
       job'[j].target = c /\ exp'[j].state = "completed"

LEMMA CalmPreserves ==
  ASSUME NEW c \in JobId, TrackedOn(c), CalmOn(c) PROVE TrackedOn(c)'
  BY DEF TrackedOn, CalmOn

\* Rows of an experiment that are there keep what they measure.
LEMMA MeasuringSteps ==
  ASSUME IInv, PromotionOK, [Next]_vars, NEW j \in JobId, job[j].state # "absent"
  PROVE  /\ job'[j].target = job[j].target /\ job'[j].type = job[j].type
         /\ job'[j].state \in {"queued", "leased"} => job[j].state \in {"queued", "leased"}
  BY NextSteps DEF Stepped, Moves, Same, Terminal
LEMMA CalmWhen ==
  ASSUME IInv, PromotionOK, Measured, [Next]_vars, NEW c \in JobId,
         sub'[c] = sub[c] \/ (sub[c] = "none" /\ sub'[c] = "admitted"),
         \A j \in JobId :
           job'[j].type = "experiment_cycle" /\ job'[j].target = c =>
             /\ job[j].state = "absent" => job'[j].state = "absent"
             /\ job[j].state = "queued" => job'[j].state = "queued"
  PROVE  CalmOn(c)
  <1>1. \A j \in JobId : job[j].state # "absent" =>
          /\ job'[j].target = job[j].target /\ job'[j].type = job[j].type
          /\ job'[j].state \in {"queued", "leased"} => job[j].state \in {"queued", "leased"}
    BY MeasuringSteps
  <1>2. Measuring(c)' \subseteq Measuring(c)
    BY <1>1 DEF Measuring
  <1>3. \A j \in Measuring(c) : job[j].state = "queued" =>
          j \in Measuring(c)' /\ job'[j].state = "queued"
    BY <1>1 DEF Measuring
  <1>4. ASSUME NEW j \in JobId, exp[j].state = "completed"
        PROVE  exp'[j].state = "completed"
    BY <1>4, ScoreSteps, ScoredExperiment DEF ScoresKept, Measured
  <1>5. \A j \in JobId : exp[j].state = "completed" => job'[j].target = job[j].target
    BY <1>1 DEF Measured
  <1> QED BY <1>2, <1>3, <1>4, <1>5 DEF CalmOn

LEMMA LeaseTracked ==
  ASSUME IInv, PromotionOK, Measured, Tracked, [Next]_vars,
         NEW w \in Worker, NEW j \in JobId, LeaseJob(w, j)
  PROVE  Tracked'
  <1> DEFINE t == job[j].target
             row == [job[j] EXCEPT !.state = "leased", !.owner = w,
                                   !.ttl = LeaseTicks, !.attempts = @ + 1]
  <1>1. /\ job[j] \in Job /\ job[j].state = "queued"
        /\ job' = [job EXCEPT ![j] = row]
    BY DEF LeaseJob, IInv, JobsOK
  <1>2. row.state = "leased" /\ row.type = job[j].type /\ row.target = t
    BY <1>1 DEF Job
  <1> HIDE DEF row
  <1>3. job'[j] = row /\ \A i \in JobId : i # j => job'[i] = job[i]
    BY <1>1 DEF IInv, JobsOK
  <1>4. \A c \in JobId : Measuring(c)' = Measuring(c)
    BY <1>1, <1>2, <1>3 DEF Measuring
  <1>5. ASSUME NEW c \in JobId, c # t \/ job[j].type # "experiment_cycle"
        PROVE  TrackedOn(c)'
    <2>1. sub'[c] = sub[c]
      BY <1>5 DEF LeaseJob, IInv, TypeOK
    <2>2. CalmOn(c)
      BY <1>1, <1>2, <1>3, <1>5, <2>1, CalmWhen
    <2> QED BY <2>2, CalmPreserves DEF Tracked
  <1>6. ASSUME NEW c \in JobId, c = t, job[j].type = "experiment_cycle"
        PROVE  TrackedOn(c)'
    <2>1. sub'[c] = "evaluating"
      BY <1>6 DEF LeaseJob, IInv, TypeOK
    <2>2. \A i, k \in Measuring(c)' : i = k
      BY <1>4, <1>6 DEF Tracked, TrackedOn
    <2> QED BY <2>1, <2>2 DEF TrackedOn
  <1> QED BY <1>5, <1>6 DEF Tracked
\* The measurement of c ends: it was the only one.
LEMMA OnlyMeasurement ==
  ASSUME IInv, PromotionOK, Measured, [Next]_vars, NEW c \in JobId, TrackedOn(c),
         NEW j \in Measuring(c), job'[j].state \notin {"queued", "leased"},
         \A i \in JobId : job[i].state = "absent" => job'[i].state = "absent"
  PROVE  Measuring(c)' = {}
  <1>1. \A i \in JobId : job[i].state # "absent" =>
          /\ job'[i].target = job[i].target /\ job'[i].type = job[i].type
          /\ job'[i].state \in {"queued", "leased"} => job[i].state \in {"queued", "leased"}
    BY MeasuringSteps
  <1>2. Measuring(c)' \subseteq Measuring(c)
    BY <1>1 DEF Measuring
  <1>3. j \notin Measuring(c)'
    BY DEF Measuring
  <1> QED BY <1>2, <1>3 DEF TrackedOn

LEMMA CompleteTracked ==
  ASSUME IInv, PromotionOK, Measured, Tracked, [Next]_vars,
         NEW call \in calls, CompleteExperiment(call)
  PROVE  Tracked'
  <1> DEFINE j == call.job
             t == job[j].target
  <1>1. /\ j \in JobId /\ job[j].state = "leased" /\ job[j].type = "experiment_cycle"
        /\ job'[j].state = "completed" /\ exp'[j].state = "completed"
        /\ \A i \in JobId : i # j => job'[i] = job[i]
        /\ sub' = [sub EXCEPT ![t] = "scored"]
    BY ScoredExperiment
  <1>2. job'[j].target = t
    BY <1>1, MeasuringSteps
  <1>3. ASSUME NEW c \in JobId, c # t PROVE TrackedOn(c)'
    <2>1. sub'[c] = sub[c]
      BY <1>1, <1>3 DEF IInv, TypeOK
    <2>2. CalmOn(c)
      BY <1>1, <2>1, CalmWhen
    <2> QED BY <2>2, CalmPreserves DEF Tracked
  <1>4. ASSUME NEW c \in JobId, c = t PROVE TrackedOn(c)'
    <2>1. sub'[c] = "scored"
      BY <1>1, <1>4 DEF IInv, TypeOK
    <2>2. j \in Measuring(c)
      BY <1>1, <1>4 DEF Measuring
    <2>3. Measuring(c)' = {}
      BY <1>1, <2>2, OnlyMeasurement DEF Tracked
    <2>4. \E i \in JobId : job'[i].target = c /\ exp'[i].state = "completed"
      BY <1>1, <1>2, <1>4
    <2> QED BY <2>1, <2>3, <2>4 DEF TrackedOn
  <1> QED BY <1>3, <1>4 DEF Tracked

LEMMA FailTracked ==
  ASSUME IInv, PromotionOK, Measured, Tracked, [Next]_vars,
         NEW call \in calls, FailJob(call)
  PROVE  Tracked'
  <1> DEFINE j == call.job
             t == job[j].target
             state(retry) == IF retry THEN "queued" ELSE "failed"
  <1>1. /\ j \in JobId /\ job[j].state = "leased" /\ job[j] \in Job
    BY AcceptedCall DEF FailJob
  <1>2. PICK retry \in BOOLEAN :
          /\ \E row : job' = [job EXCEPT ![j] = row] /\ row.state = state(retry)
          /\ job[j].type # "experiment_cycle" => UNCHANGED sub
          /\ job[j].type = "experiment_cycle" =>
               sub' = [sub EXCEPT ![t] = IF retry THEN "queued" ELSE "admitted"]
    <2> DEFINE freed(e) == [Released(job[j]) EXCEPT !.err = <<e>>]
               again(e) == [freed(e) EXCEPT !.state = "queued", !.wait = RetryTicks]
               over(e)  == [freed(e) EXCEPT !.state = "failed", !.ended = now + 1]
    <2>1. PICK e \in Errors, retryable \in {TRUE} \cup {call.by \in Evaluators} :
            LET again_ == retryable /\ job[j].attempts < job[j].max IN
            /\ job' = [job EXCEPT ![j] = IF again_ THEN again(e) ELSE over(e)]
            /\ IF job[j].type = "experiment_cycle"
               THEN sub' = [sub EXCEPT ![t] = IF again_ THEN "queued" ELSE "admitted"]
               ELSE UNCHANGED sub
      BY DEF FailJob, AfterFailure
    <2>2. Released(job[j]) = [job[j] EXCEPT !.owner = None, !.ttl = 0]
      BY DEF Released
    <2>3. again(e).state = "queued" /\ over(e).state = "failed"
      BY <1>1, <2>2 DEF Job
    <2> HIDE DEF again, over
    <2>4. CASE retryable /\ job[j].attempts < job[j].max
      BY <2>1, <2>3, <2>4
    <2>5. CASE ~(retryable /\ job[j].attempts < job[j].max)
      BY <2>1, <2>3, <2>5
    <2> QED BY <2>4, <2>5
  <1>3. job'[j].state = state(retry) /\ \A i \in JobId : i # j => job'[i] = job[i]
    BY <1>1, <1>2 DEF IInv, JobsOK
  <1>4. ASSUME NEW c \in JobId, c # t \/ job[j].type # "experiment_cycle"
        PROVE  TrackedOn(c)'
    <2>1. sub'[c] = sub[c]
      BY <1>2, <1>4 DEF IInv, TypeOK
    <2>2. CalmOn(c)
      BY <1>1, <1>3, <2>1, CalmWhen
    <2> QED BY <2>2, CalmPreserves DEF Tracked
  <1>5. ASSUME NEW c \in JobId, c = t, job[j].type = "experiment_cycle"
        PROVE  TrackedOn(c)'
    <2>1. j \in Measuring(c)
      BY <1>1, <1>5 DEF Measuring
    <2>2. CASE retry
      <3>1. sub'[c] = "queued" /\ job'[j].state = "queued"
        BY <1>2, <1>3, <1>5, <2>2 DEF IInv, TypeOK
      <3>2. \A i \in JobId : job[i].state # "absent" =>
              /\ job'[i].target = job[i].target /\ job'[i].type = job[i].type
        BY MeasuringSteps
      <3>3. Measuring(c)' = Measuring(c)
        BY <1>1, <1>3, <3>1, <3>2 DEF Measuring
      <3> QED BY <2>1, <3>1, <3>3 DEF Tracked, TrackedOn
    <2>3. CASE ~retry
      <3>1. sub'[c] = "admitted" /\ job'[j].state = "failed"
        BY <1>2, <1>3, <1>5, <2>3 DEF IInv, TypeOK
      <3>2. Measuring(c)' = {}
        BY <1>1, <1>3, <2>1, <3>1, OnlyMeasurement DEF Tracked
      <3> QED BY <3>1, <3>2 DEF TrackedOn
    <2> QED BY <2>2, <2>3
  <1> QED BY <1>4, <1>5 DEF Tracked
\* The new job of the tick measures a submission that nothing measured.
LEMMA QueueTracked ==
  ASSUME IInv, PromotionOK, Measured, Tracked, [Next]_vars,
         NEW o \in Objectives, TickQueue(o)
  PROVE  Tracked'
  <1> DEFINE type == ChooseCycle(History(o))
  <1>1. PICK j \in JobId, t \in Commit :
          /\ IsNextRow(job, j)
          /\ job' = [Jobs EXCEPT ![j] = NewJob(o, type, t)]
          /\ \/ /\ type = "experiment_cycle" /\ t \in Unscored(o)
                /\ sub' = [Admitted(o) EXCEPT ![t] = "queued"]
             \/ type # "experiment_cycle" /\ sub' = Admitted(o)
    BY QueuedRow
  <1> DEFINE row == NewJob(o, type, t)
  <1>2. row.state = "queued" /\ row.type = type /\ row.target = t
    BY NewJobRow
  <1> HIDE DEF row, type
  <1>3. job[j].state = "absent" /\ job'[j] = row
        /\ \A i \in JobId : i # j => job'[i] = Jobs[i]
    BY <1>1, JobsRecovered DEF row, JobsOK, IsNextRow
  <1>4. \A i \in JobId : job[i].state \in {"absent", "queued"} => Jobs[i] = job[i]
    BY RecoveredMoves DEF HasExpired
  <1>5. \A c \in JobId : Admitted(o)[c] = sub[c]
                         \/ (sub[c] = "none" /\ Admitted(o)[c] = "admitted")
    BY DEF Admitted
  <1>6. ASSUME NEW c \in JobId, type # "experiment_cycle" \/ c # t
        PROVE  TrackedOn(c)'
    <2>1. sub'[c] = Admitted(o)[c]
      BY <1>1, <1>6 DEF Admitted
    <2>2. CalmOn(c)
      BY <1>2, <1>3, <1>4, <1>5, <1>6, <2>1, CalmWhen
    <2> QED BY <2>2, CalmPreserves DEF Tracked
  <1>7. ASSUME NEW c \in JobId, type = "experiment_cycle", c = t
        PROVE  TrackedOn(c)'
    <2>1. sub'[c] = "queued" /\ sub[c] \in {"none", "admitted"}
      BY <1>1, <1>5, <1>7 DEF Admitted, Unscored
    <2>2. Measuring(c) = {}
      BY <2>1 DEF Tracked, TrackedOn
    <2>3. \A i \in JobId : job[i].state # "absent" =>
            /\ job'[i].target = job[i].target /\ job'[i].type = job[i].type
            /\ job'[i].state \in {"queued", "leased"} => job[i].state \in {"queued", "leased"}
      BY MeasuringSteps
    <2>4. Measuring(c)' = {j}
      BY <1>2, <1>3, <1>4, <1>7, <2>2, <2>3 DEF Measuring
    <2> QED BY <1>2, <1>3, <2>1, <2>4 DEF TrackedOn
  <1> QED BY <1>6, <1>7 DEF Tracked

LEMMA SubmitTracked ==
  ASSUME IInv, PromotionOK, Measured, Tracked, [Next]_vars,
         NEW c \in JobId, CreateSubmission(c)
  PROVE  Tracked'
  <1>1. \A b \in JobId : sub'[b] = sub[b] \/ (sub[b] = "none" /\ sub'[b] = "admitted")
    BY DEF CreateSubmission, IInv, TypeOK
  <1>2. UNCHANGED job
    BY DEF CreateSubmission
  <1> QED BY <1>1, <1>2, CalmWhen, CalmPreserves DEF Tracked

\* Steps that leave submissions alone, and the experiments that wait.
LEMMA OthersTracked ==
  ASSUME IInv, PromotionOK, Measured, Tracked, [Next]_vars, UNCHANGED sub,
         \A j \in JobId :
           /\ job'[j].type = "experiment_cycle" \/ job[j].state = "queued"
           /\ job[j].state \in {"absent", "queued"}
           => job'[j].state = job[j].state
  PROVE  Tracked'
  BY CalmWhen, CalmPreserves DEF Tracked

LEMMA TrackedPreserved ==
  ASSUME IInv, PromotionOK, Measured, Tracked, [Next]_vars PROVE Tracked'
  <1>1. CASE UNCHANGED <<job, sub>>
    BY <1>1, OthersTracked
  <1>2. CASE Operator
    <2>1. ASSUME NEW j \in JobId, NEW o \in Objectives, NEW b \in Commit,
                 CreateJob(j, o, b)
          PROVE  Tracked'
      <3>1. PICK a \in AdminJobs : job' = [job EXCEPT ![j] =
               [NoJob EXCEPT !.state = "queued", !.type = a[1], !.obj = o,
                             !.base = b, !.max = a[2]]]
        BY <2>1 DEF CreateJob
      <3> DEFINE row == [NoJob EXCEPT !.state = "queued", !.type = a[1], !.obj = o,
                                      !.base = b, !.max = a[2]]
      <3>2. a[1] # "experiment_cycle"
        BY ValueAssumption
      <3>3. row.type # "experiment_cycle"
        BY <3>2 DEF NoJob
      <3> HIDE DEF row
      <3>4. job'[j] = row /\ \A i \in JobId : i # j => job'[i] = job[i]
        BY <3>1 DEF row, IInv, JobsOK
      <3>5. UNCHANGED sub /\ job[j].state = "absent"
        BY <2>1 DEF CreateJob, IsNextRow
      <3> QED BY <3>3, <3>4, <3>5, OthersTracked
    <2> QED BY <1>1, <1>2, <2>1 DEF Operator, SetMode, CreateObjective
  <1>3. CASE Lab
    <2>1. ASSUME NEW w \in Worker, Heartbeat(w) PROVE Tracked'
      <3>1. work[w].job \in JobId /\ job[work[w].job].state = "leased"
            /\ UNCHANGED sub
            /\ \A i \in JobId : i # work[w].job => job'[i] = job[i]
        BY <2>1 DEF IInv, JobsOK, LeasesGranted, Heartbeat, Verified
      <3> QED BY <3>1, OthersTracked
    <2>2. ASSUME NEW c \in calls, CompleteCycle(c) PROVE Tracked'
      <3>1. c.job \in JobId /\ job[c.job].state = "leased" /\ UNCHANGED sub
            /\ \A i \in JobId : i # c.job => job'[i] = job[i]
        BY <2>2, AcceptedCall DEF CompleteCycle, Ended, IInv, JobsOK
      <3> QED BY <3>1, OthersTracked
    <2>3. ASSUME NEW w \in Worker, SendComplete(w) \/ SendFail(w) \/ MoveOn(w)
          PROVE  Tracked'
      BY <1>1, <2>3 DEF SendComplete, SendFail, Send, MoveOn
    <2>4. ASSUME NEW c \in calls, DropCall(c) PROVE Tracked'
      BY <1>1, <2>4 DEF DropCall
    <2> QED BY <1>3, <2>1, <2>2, <2>3, <2>4, LeaseTracked, CompleteTracked,
               FailTracked, SubmitTracked DEF Lab
  <1>4. CASE Tick
    <2>1. CASE job' = Jobs /\ UNCHANGED sub
      <3>1. \A i \in JobId : job[i].state \in {"absent", "queued"} => Jobs[i] = job[i]
        BY RecoveredMoves DEF HasExpired
      <3> QED BY <2>1, <3>1, OthersTracked
    <2> QED BY <1>4, <2>1, QueueTracked DEF Tick, TickIdle, TickCooldown, TickBlock
  <1>5. CASE PromoterStep
    <2>1. ASSUME NEW j \in JobId, job[j].state = "candidate", NEW state,
                 job' = [job EXCEPT ![j].state = state], UNCHANGED sub
          PROVE  Tracked'
      <3>1. \A i \in JobId : i # j => job'[i] = job[i]
        BY <2>1 DEF IInv, JobsOK
      <3> QED BY <2>1, <3>1, OthersTracked
    <2>2. ASSUME NEW j \in JobId, job[j].state = "candidate", Reject(j) PROVE Tracked'
      BY <2>1, <2>2 DEF Reject
    <2>3. ASSUME NEW j \in JobId, TakeCandidate(j) PROVE Tracked'
      BY <1>1, <2>2, <2>3 DEF TakeCandidate, Awaiting
    <2>4. CASE RejectTaken
      BY <2>2, <2>4, TakenCandidate DEF RejectTaken
    <2>5. CASE PromoteTaken
      BY <2>1, <2>5, TakenCandidate DEF PromoteTaken
    <2>6. CASE RetryTaken \/ RestartPromoter
      BY <1>1, <2>6 DEF RetryTaken, RestartPromoter
    <2> QED BY <1>5, <2>3, <2>4, <2>5, <2>6 DEF PromoterStep, Resolve
  <1>6. CASE Elapse
    <2>1. UNCHANGED sub /\ \A i \in JobId : job'[i].state = job[i].state
      BY <1>6 DEF Elapse, IInv, JobsOK, Job
    <2> QED BY <2>1, OthersTracked
  <1>7. CASE UNCHANGED vars
    BY <1>1, <1>7 DEF vars
  <1> QED BY <1>2, <1>3, <1>4, <1>5, <1>6, <1>7 DEF Next

\* No submission waits for a measurement that no job will make, none has two on
\* the way, and a scored one was measured.
THEOREM SubmissionsAreTracked == Spec => []SubmissionsTracked
  <1>1. Init => Tracked
    BY DEF Init, Tracked, TrackedOn, Measuring, NoJob
  <1>2. (IInv /\ PromotionOK) /\ Measured /\ Tracked /\ [Next]_vars => Tracked'
    BY TrackedPreserved
  <1>3. Tracked => SubmissionsTracked
    <2> SUFFICES ASSUME Tracked, NEW c \in JobId
                 PROVE  /\ Cardinality(Measuring(c)) <= 1
                        /\ sub[c] = "queued" =>
                             \E j \in Measuring(c) : job[j].state = "queued"
                        /\ sub[c] \in {"admitted", "scored", "none"} => Measuring(c) = {}
                        /\ sub[c] = "scored" =>
                             \E j \in JobId : job[j].target = c
                                              /\ exp[j].state = "completed"
      BY DEF SubmissionsTracked, Measuring
    <2>1. CASE Measuring(c) = {}
      BY <2>1, FS_EmptySet DEF Tracked, TrackedOn
    <2>2. CASE Measuring(c) # {}
      <3>1. PICK j : Measuring(c) = {j}
        BY <2>2 DEF Tracked, TrackedOn
      <3>2. Cardinality(Measuring(c)) = 1
        BY <3>1, FS_Singleton
      <3> QED BY <3>2 DEF Tracked, TrackedOn
    <2> QED BY <2>1, <2>2
  <1> QED BY <1>1, <1>2, <1>3, Invariance, MeasuredInvariance, PTL DEF Spec
-----------------------------------------------------------------------------
(* The evaluation rows. *)

\* Nothing is dated later than the clock.
Dated ==
  /\ \A j \in JobId : job[j].ended <= now
  /\ \A o \in Objectives : ev[o].seen <= now

\* What a step may make of the evaluation row of o: the evidence stays, and the
\* row is dated anew or not at all; or the evidence is dropped; or a tick finds
\* the last three jobs failed alike.
EvidenceMoves(o) ==
  \/ /\ ev'[o].fp = ev[o].fp /\ ev'[o].count = ev[o].count
     /\ ev'[o].seen \in {ev[o].seen, now, now'}
  \/ ev'[o].count = 0 /\ ev'[o].seen = now'
  \/ /\ ev'[o].seen = now' /\ job' = Jobs /\ now' = Now
     /\ FailingAlike(o, ev'[o].fp)

BestKept ==
  \A o \in Objectives : ev'[o].best = ev[o].best /\ ev'[o].champion = ev[o].champion

\* One row is replaced.
LEMMA EvidenceOf ==
  ASSUME IInv, NEW o, NEW row, ev' = [ev EXCEPT ![o] = row],
         o \in Objectives => /\ row.best = ev[o].best /\ row.champion = ev[o].champion
                             /\ \/ /\ row.fp = ev[o].fp /\ row.count = ev[o].count
                                   /\ row.seen \in {ev[o].seen, now, now'}
                                \/ row.count = 0 /\ row.seen = now'
                                \/ /\ row.seen = now' /\ job' = Jobs /\ now' = Now
                                   /\ FailingAlike(o, row.fp)
  PROVE  BestKept /\ \A p \in Objectives : EvidenceMoves(p)
  <1>1. /\ o \in Objectives => ev'[o] = row
        /\ \A p \in Objectives : p # o => ev'[p] = ev[p]
    BY DEF IInv, TypeOK
  <1> QED BY <1>1 DEF BestKept, EvidenceMoves

LEMMA EvidenceKept ==
  ASSUME UNCHANGED ev PROVE BestKept /\ \A o \in Objectives : EvidenceMoves(o)
  BY DEF BestKept, EvidenceMoves

LEMMA EvidenceSteps ==
  ASSUME IInv, PromotionOK, [Next]_vars
  PROVE  /\ \A o \in Objectives : EvidenceMoves(o)
         /\ BestKept \/ \E c \in calls : CompleteExperiment(c)
  <1> DEFINE Goal == BestKept /\ \A o \in Objectives : EvidenceMoves(o)
  <1>0. ev \in [Objectives -> Evaluation]
    BY DEF IInv, TypeOK
  <1>1. CASE Operator
    BY <1>1, EvidenceKept DEF Operator, SetMode, CreateObjective, CreateJob
  <1>2. CASE Lab
    <2>1. ASSUME NEW c \in JobId, CreateSubmission(c) PROVE Goal
      <3> DEFINE o == job[c].obj
                 row == [ev[o] EXCEPT !.seen = now]
      <3>1. ev' = [ev EXCEPT ![o] = row]
        BY <1>0, <2>1 DEF CreateSubmission
      <3>2. o \in Objectives => /\ row.fp = ev[o].fp /\ row.count = ev[o].count
                                /\ row.best = ev[o].best /\ row.seen = now
                                /\ row.champion = ev[o].champion
        BY <1>0 DEF Evaluation
      <3> HIDE DEF row, o
      <3> QED BY <3>1, <3>2, EvidenceOf
    <2>2. ASSUME NEW c \in calls, CompleteExperiment(c), NEW o \in Objectives
          PROVE  EvidenceMoves(o)
      <3>1. PICK score \in Scores :
              ev' = [ev EXCEPT
                 ![job[c.job].obj].seen = now + 1,
                 ![job[c.job].obj].best =
                    IF Improved(job[c.job].obj, score) THEN score ELSE @,
                 ![job[c.job].obj].champion =
                    IF Improved(job[c.job].obj, score) THEN job[c.job].target ELSE @]
        BY <2>2 DEF CompleteExperiment
      <3>2. now' = now + 1
        BY <2>2 DEF CompleteExperiment
      <3>3. /\ ev'[o].fp = ev[o].fp /\ ev'[o].count = ev[o].count
            /\ ev'[o].seen \in {ev[o].seen, now + 1}
        BY <1>0, <3>1 DEF Evaluation
      <3> QED BY <3>2, <3>3 DEF EvidenceMoves
    <2> QED BY <1>2, <2>1, <2>2, EvidenceKept DEF Lab, LeaseJob, Heartbeat,
               SendComplete, SendFail, Send, MoveOn, DropCall, CompleteCycle, FailJob
  <1>3. CASE Tick
    <2>1. CASE TickIdle
      BY <2>1, EvidenceKept DEF TickIdle
    <2>2. ASSUME NEW o \in Objectives, TickCooldown(o) \/ TickBlock(o) PROVE Goal
      <3>1. PICK fp \in Fingerprints(o), cool \in Nat :
              /\ FailingAlike(o, fp)
              /\ ev' = [ev EXCEPT ![o].fp = fp, ![o].count = EpochCount(o, fp),
                                  ![o].cool = cool, ![o].seen = Now]
        BY <2>2, SizeAssumption DEF TickCooldown, TickBlock
      <3> DEFINE row == [ev[o] EXCEPT !.fp = fp, !.count = EpochCount(o, fp),
                                      !.cool = cool, !.seen = Now]
      <3>2. ev' = [ev EXCEPT ![o] = row]
        BY <1>0, <3>1
      <3>3. row.fp = fp /\ row.seen = Now /\ row.best = ev[o].best
            /\ row.champion = ev[o].champion
        BY <1>0 DEF Evaluation
      <3>4. job' = Jobs /\ now' = Now
        BY <2>2 DEF TickCooldown, TickBlock
      <3> HIDE DEF row
      <3> QED BY <3>1, <3>2, <3>3, <3>4, EvidenceOf
    <2>3. ASSUME NEW o \in Objectives, TickQueue(o) PROVE Goal
      <3>1. PICK seen \in {ev[o].seen, Now} : ev' = [ev EXCEPT ![o].seen = seen]
        BY <2>3 DEF TickQueue, Seen
      <3> DEFINE row == [ev[o] EXCEPT !.seen = seen]
      <3>2. ev' = [ev EXCEPT ![o] = row] /\ now' = Now
        BY <1>0, <2>3, <3>1 DEF TickQueue
      <3>3. /\ row.fp = ev[o].fp /\ row.count = ev[o].count
            /\ row.best = ev[o].best /\ row.champion = ev[o].champion
            /\ row.seen = seen
        BY <1>0 DEF Evaluation
      <3> HIDE DEF row
      <3> QED BY <3>1, <3>2, <3>3, EvidenceOf
    <2> QED BY <1>3, <2>1, <2>2, <2>3 DEF Tick
  <1>4. CASE PromoterStep
    <2>1. CASE PromoteTaken
      <3> DEFINE o == job[taken.job].obj
                 row == [ev[o] EXCEPT !.fp = <<>>, !.count = 0, !.cool = 0,
                                      !.seen = now + 1]
      <3>1. UNCHANGED ev \/ ev' = [ev EXCEPT ![o] = row]
        BY <1>0, <2>1 DEF PromoteTaken
      <3>2. now' = now + 1
        BY <2>1 DEF PromoteTaken
      <3>3. o \in Objectives => /\ row.count = 0 /\ row.seen = now + 1
                                /\ row.best = ev[o].best
                                /\ row.champion = ev[o].champion
        BY <1>0 DEF Evaluation
      <3> HIDE DEF row, o
      <3> QED BY <3>1, <3>2, <3>3, EvidenceOf, EvidenceKept
    <2> QED BY <1>4, <2>1, EvidenceKept DEF PromoterStep, Resolve, TakeCandidate,
               Reject, RejectTaken, RetryTaken, RestartPromoter
  <1>5. CASE Elapse
    <2>1. \A o \in Objectives :
            /\ ev'[o].fp = ev[o].fp /\ ev'[o].count = ev[o].count
            /\ ev'[o].seen = ev[o].seen /\ ev'[o].best = ev[o].best
            /\ ev'[o].champion = ev[o].champion
      BY <1>0, <1>5 DEF Elapse, Evaluation
    <2> QED BY <2>1 DEF BestKept, EvidenceMoves
  <1>6. CASE UNCHANGED vars
    BY <1>6, EvidenceKept DEF vars
  <1> QED BY <1>1, <1>2, <1>3, <1>4, <1>5, <1>6 DEF Next
LEMMA DatedPreserved ==
  ASSUME IInv, PromotionOK, Dated, [Next]_vars PROVE Dated'
  <1>1. now \in Nat /\ now' \in {now, now + 1}
        /\ \A j \in JobId : Moves(job[j], job'[j], now')
    BY NextSteps DEF Stepped, IInv, TypeOK
  <1>2. ASSUME NEW j \in JobId PROVE job'[j].ended <= now'
    <2>1. job'[j].ended \in {job[j].ended, 0}
          \/ (job'[j].ended = now + 1 /\ now' = now + 1)
      BY <1>1 DEF Moves
    <2>2. job[j].ended \in Nat
      BY DEF IInv, JobsOK, Job
    <2> QED BY <1>1, <2>1, <2>2 DEF Dated
  <1>3. ASSUME NEW o \in Objectives PROVE ev'[o].seen <= now'
    <2>1. ev'[o].seen \in {ev[o].seen, now, now'}
      BY EvidenceSteps DEF EvidenceMoves
    <2>2. ev[o].seen \in Int
      BY DEF IInv, TypeOK, Evaluation
    <2> QED BY <1>1, <2>1, <2>2 DEF Dated
  <1> QED BY <1>2, <1>3 DEF Dated

\* completed_at and the dates of evaluation rows come from one clock.
THEOREM DatedInvariance == Spec => []Dated
  <1>1. Init => Dated
    <2>1. ASSUME Init, NEW o \in Objectives PROVE ev[o].seen <= now
      BY <2>1 DEF Init
    <2>2. ASSUME Init, NEW j \in JobId PROVE job[j].ended <= now
      BY <2>2 DEF Init, NoJob
    <2> QED BY <2>1, <2>2 DEF Dated
  <1>2. (IInv /\ PromotionOK) /\ Dated /\ [Next]_vars => Dated'
    BY DatedPreserved
  <1> QED BY <1>1, <1>2, Invariance, PTL DEF Spec

-----------------------------------------------------------------------------
(* Failures that repeat. *)

\* S are three jobs of o that failed with fp before its evaluation row was dated.
Failures(o, fp, seen, S) ==
  /\ Cardinality(S) = 3
  /\ \A j \in S : /\ job[j].obj = o /\ job[j].state = "failed"
                  /\ job[j].err = fp /\ job[j].ended <= seen

\* A count of failures is backed by three of them.
Backed ==
  \A o \in Objectives : ev[o].count > 0 =>
    \E S \in SUBSET JobId : Failures(o, ev[o].fp, ev[o].seen, S)

\* What is over is over.
LEMMA FailedStays ==
  ASSUME IInv, PromotionOK, [Next]_vars, NEW j \in JobId, job[j].state = "failed"
  PROVE  /\ job'[j].state = "failed" /\ job'[j].obj = job[j].obj
         /\ job'[j].err = job[j].err /\ job'[j].ended = job[j].ended
  BY NextSteps DEF Stepped, Moves, Same

LEMMA BackedPreserved ==
  ASSUME IInv, PromotionOK, Dated, Backed, [Next]_vars PROVE Backed'
  <1> SUFFICES ASSUME NEW o \in Objectives, ev'[o].count > 0
               PROVE  \E S \in SUBSET JobId : Failures(o, ev[o].fp, ev[o].seen, S)'
    BY DEF Backed
  <1>1. Dated' /\ now \in Nat /\ now' \in {now, now + 1}
    BY DatedPreserved, NextSteps DEF Stepped, IInv, TypeOK
  <1>2. CASE /\ ev'[o].fp = ev[o].fp /\ ev'[o].count = ev[o].count
             /\ ev'[o].seen \in {ev[o].seen, now, now'}
    <2>1. PICK S \in SUBSET JobId : Failures(o, ev[o].fp, ev[o].seen, S)
      BY <1>2 DEF Backed
    <2>2. ev'[o].seen >= ev[o].seen /\ ev[o].seen \in Int /\ ev'[o].seen \in Int
      BY <1>1, <1>2 DEF Dated, IInv, TypeOK, Evaluation
    <2>3. ASSUME NEW j \in S
          PROVE  /\ job'[j].obj = o /\ job'[j].state = "failed"
                 /\ job'[j].err = ev'[o].fp /\ job'[j].ended <= ev'[o].seen
      <3>1. job[j].ended \in Nat
        BY DEF IInv, JobsOK, Job
      <3> QED BY <1>2, <2>1, <2>2, <3>1, FailedStays DEF Failures
    <2> QED BY <2>1, <2>3 DEF Failures
  <1>3. CASE /\ ev'[o].seen = now' /\ job' = Jobs /\ now' = Now
             /\ FailingAlike(o, ev'[o].fp)
    <2> DEFINE S == Latest(Jobs, Past(o, JobTypes), 3)
    <2>1. /\ Cardinality(S) = 3 /\ S \in SUBSET JobId
          /\ \A j \in S : /\ Jobs[j].obj = o /\ Jobs[j].state = "failed"
                          /\ Jobs[j].err = ev'[o].fp
      BY <1>3 DEF FailingAlike, Latest, Past
    <2> HIDE DEF S
    <2>2. \A j \in S : job'[j].ended <= ev'[o].seen
      BY <1>1, <1>3, <2>1 DEF Dated
    <2> QED BY <1>3, <2>1, <2>2 DEF Failures
  <1>4. ev'[o].count # 0
    OBVIOUS
  <1> QED BY <1>2, <1>3, <1>4, EvidenceSteps DEF EvidenceMoves

\* The tick counts no failures but those it sees: three of the latest jobs that
\* failed alike, which stay failed.
THEOREM BackedInvariance == Spec => []Backed
  <1>1. Init => Backed
    <2>1. ASSUME Init, NEW o \in Objectives PROVE ev[o].count = 0
      BY <2>1 DEF Init
    <2> QED BY <2>1 DEF Backed
  <1>2. (IInv /\ PromotionOK) /\ Dated /\ Backed /\ [Next]_vars => Backed'
    BY BackedPreserved
  <1> QED BY <1>1, <1>2, Invariance, DatedInvariance, PTL DEF Spec

\* Only one step blocks an objective, and it blocks that one.
LEMMA BlockSteps ==
  ASSUME IInv, PromotionOK, [Next]_vars, NEW o \in Objectives,
         objective[o].status # "blocked", objective'[o].status = "blocked"
  PROVE  TickBlock(o)
  <1>0. objective \in [Objectives -> Objective]
    BY DEF IInv, TypeOK
  <1>1. CASE Operator
    <2>1. ASSUME NEW p \in Objectives, CreateObjective(p) PROVE FALSE
      BY <1>0, <2>1 DEF CreateObjective
    <2> QED BY <1>1, <2>1 DEF Operator, SetMode, CreateJob
  <1>2. CASE Lab
    BY <1>2 DEF Lab, LeaseJob, Heartbeat, SendComplete, SendFail, Send, MoveOn,
                DropCall, CompleteCycle, CompleteExperiment, FailJob, CreateSubmission
  <1>3. CASE Tick
    <2>1. ASSUME NEW p \in Objectives, TickBlock(p) PROVE p = o
      BY <1>0, <2>1 DEF TickBlock
    <2>2. ASSUME NEW p \in Objectives, TickCooldown(p) \/ TickQueue(p) PROVE FALSE
      <3>1. objective' = [objective EXCEPT ![p].due = IntervalTicks]
        BY <2>2 DEF TickCooldown, TickQueue
      <3> QED BY <1>0, <3>1 DEF Objective
    <2> QED BY <1>3, <2>1, <2>2 DEF Tick, TickIdle
  <1>4. CASE PromoterStep
    <2>1. CASE PromoteTaken
      <3> DEFINE done == [objective EXCEPT ![job[taken.job].obj].status =
                            IF @ = "active" THEN "completed" ELSE @]
      <3>1. \/ objective' = objective
            \/ objective' = done
            \/ \E s : objective' = [done EXCEPT ![s] = [status |-> "active", due |-> 0]]
        BY <2>1 DEF PromoteTaken, MilestoneStep
      <3>2. /\ done \in [Objectives -> Objective]
            /\ \A p \in Objectives : done[p].status = "blocked" =>
                                       objective[p].status = "blocked"
        BY <1>0 DEF Objective
      <3> HIDE DEF done
      <3> QED BY <3>1, <3>2
    <2> QED BY <1>4, <2>1 DEF PromoterStep, Resolve, TakeCandidate, Reject,
                              RejectTaken, RetryTaken, RestartPromoter
  <1>5. CASE Elapse
    BY <1>0, <1>5 DEF Elapse, Objective
  <1>6. CASE UNCHANGED vars
    BY <1>6 DEF vars
  <1> QED BY <1>1, <1>2, <1>3, <1>4, <1>5, <1>6 DEF Next

LEMMA FourFailed ==
  ASSUME IInv, PromotionOK, Dated, Backed, [Next]_vars,
         NEW o \in Objectives, TickBlock(o)
  PROVE  4 <= Cardinality({j \in JobId : /\ job'[j].obj = o /\ job'[j].state = "failed"
                                         /\ job'[j].err = ev'[o].fp})
  <1> DEFINE All == {j \in JobId : /\ job'[j].obj = o /\ job'[j].state = "failed"
                                   /\ job'[j].err = ev'[o].fp}
  <1>1. PICK fp \in Fingerprints(o) :
          /\ FailingAlike(o, fp) /\ EpochCount(o, fp) >= 6
          /\ ev' = [ev EXCEPT ![o].fp = fp, ![o].count = EpochCount(o, fp),
                              ![o].cool = 0, ![o].seen = Now]
    BY DEF TickBlock
  <1>2. ev'[o].fp = fp /\ job' = Jobs /\ ev[o] \in Evaluation
    BY <1>1 DEF TickBlock, IInv, TypeOK, Evaluation
  <1>3. ev[o].fp = fp /\ ev[o].count > 0
    BY <1>1, <1>2 DEF EpochCount, Evaluation
  <1>4. PICK S \in SUBSET JobId : Failures(o, fp, ev[o].seen, S)
    BY <1>3 DEF Backed
  <1>5. S \subseteq All
    BY <1>2, <1>4, FailedStays DEF Failures
  <1>6. PICK r \in JobId : r \in All /\ Jobs[r].ended > Seen(o)
    BY <1>1, <1>2 DEF FailingAlike, Latest, Past
  <1>7. IsFiniteSet(JobId)
    BY FS_Interval, SizeAssumption DEF JobId
  <1>8. IsFiniteSet(S) /\ IsFiniteSet(All)
    BY <1>7, FS_Subset
  <1>9. r \notin S
    <2> SUFFICES ASSUME r \in S PROVE FALSE
      OBVIOUS
    <2>1. /\ job[r].ended <= ev[o].seen /\ Jobs[r].ended = job[r].ended
          /\ job[r].ended \in Nat /\ ev[o].seen \in Int
      BY <1>2, <1>4, FailedStays DEF Failures, IInv, JobsOK, Job, Evaluation
    <2>2. Seen(o) = ev[o].seen
      BY <2>1 DEF Seen
    <2> QED BY <1>6, <2>1, <2>2
  <1>10. Cardinality(S \cup {r}) = 4
    <2>1. Cardinality(S) = 3
      BY <1>4 DEF Failures
    <2>2. Cardinality(S \cup {r}) = Cardinality(S) + 1
      BY <1>8, <1>9, FS_AddElement
    <2> QED BY <2>1, <2>2
  <1> HIDE DEF All
  <1>11. S \cup {r} \subseteq All /\ Cardinality(All) \in Nat
    BY <1>5, <1>6, <1>8, FS_CardinalityType
  <1>12. Cardinality(S \cup {r}) <= Cardinality(All)
    BY <1>8, <1>11, FS_Subset
  <1> QED BY <1>10, <1>12 DEF All

\* An objective is blocked only after a failure like those that made it rest.
THEOREM BlocksAfterRecovery == Spec => BlockedAfterRecovery
  <1>1. (IInv /\ PromotionOK) /\ Dated /\ Backed /\ [Next]_vars =>
          [\A o \in Objectives :
             objective[o].status # "blocked" /\ objective'[o].status = "blocked" =>
               4 <= Cardinality({j \in JobId :
                      /\ job'[j].obj = o /\ job'[j].state = "failed"
                      /\ job'[j].err = ev'[o].fp})]_vars
    BY BlockSteps, FourFailed
  <1> QED BY <1>1, Invariance, DatedInvariance, BackedInvariance, PTL
          DEF Spec, BlockedAfterRecovery
-----------------------------------------------------------------------------
(* The champion. *)

Scored(o) == {j \in JobId : job[j].obj = o /\ exp[j].state = "completed"}

\* ChampionIsFirstBest for one objective.
FirstBest(o) ==
  IF Scored(o) = {} THEN ev[o].best = NoScore
  ELSE /\ \A j \in Scored(o) : exp[j].score <= ev[o].best
       /\ \E j \in Scored(o) :
            /\ exp[j].score = ev[o].best /\ job[j].target = ev[o].champion
            /\ \A i \in Scored(o) :
                 exp[i].score = ev[o].best => job[j].ended <= job[i].ended

\* An experiment that was scored keeps what the champion's rule reads of it.
LEMMA ScoredKept ==
  ASSUME IInv, PromotionOK, Measured, [Next]_vars, NEW j \in JobId,
         exp[j].state = "completed"
  PROVE  /\ exp'[j] = exp[j] /\ job'[j].obj = job[j].obj
         /\ job'[j].target = job[j].target /\ job'[j].ended = job[j].ended
  <1>1. job[j].state = "completed"
    BY DEF Measured
  <1>2. exp'[j] = exp[j]
    BY <1>1, ScoreSteps, ScoredExperiment DEF ScoresKept
  <1> QED BY <1>1, <1>2, NextSteps DEF Stepped, Moves, Same

\* Nothing that concerns o was reported.
LEMMA FirstBestKept ==
  ASSUME IInv, PromotionOK, Measured, [Next]_vars, NEW o \in Objectives,
         FirstBest(o), Scored(o)' \subseteq Scored(o),
         ev'[o].best = ev[o].best, ev'[o].champion = ev[o].champion
  PROVE  FirstBest(o)'
  <1>1. \A j \in Scored(o) :
          /\ exp'[j] = exp[j] /\ job'[j].obj = job[j].obj
          /\ job'[j].target = job[j].target /\ job'[j].ended = job[j].ended
    BY ScoredKept DEF Scored
  <1>2. Scored(o)' = Scored(o)
    BY <1>1 DEF Scored
  <1> QED BY <1>1, <1>2 DEF FirstBest

\* A score was reported for o.
LEMMA FirstBestAfterScore ==
  ASSUME IInv, PromotionOK, Measured, Dated, [Next]_vars, NEW o \in Objectives,
         FirstBest(o), NEW c \in calls, CompleteExperiment(c), job[c.job].obj = o
  PROVE  FirstBest(o)'
  <1> DEFINE k == c.job
  <1>1. /\ k \in JobId /\ job[k].state = "leased" /\ job'[k].ended = now + 1
        /\ exp'[k].state = "completed"
        /\ \A i \in JobId : i # k => job'[i] = job[i] /\ exp'[i] = exp[i]
    BY ScoredExperiment
  <1>2. PICK score \in Scores, apiFailed \in BOOLEAN :
          /\ exp' = [exp EXCEPT ![k] = [state |-> "completed", score |-> score,
                                        apiFailed |-> apiFailed]]
          /\ ev' = [ev EXCEPT
               ![o].seen = now + 1,
               ![o].best = IF Improved(o, score) THEN score ELSE @,
               ![o].champion = IF Improved(o, score) THEN job[k].target ELSE @]
    BY DEF CompleteExperiment
  <1>3. exp'[k].score = score /\ score \in Nat
    BY <1>1, <1>2, ValueAssumption DEF IInv, TypeOK
  <1>4. /\ ev'[o].best = IF Improved(o, score) THEN score ELSE ev[o].best
        /\ ev'[o].champion = IF Improved(o, score) THEN job[k].target
                                                   ELSE ev[o].champion
    <2> DEFINE improved == Improved(o, score)
               row == [ev[o] EXCEPT !.seen = now + 1,
                                    !.best = IF improved THEN score ELSE @,
                                    !.champion = IF improved THEN job[k].target
                                                             ELSE @]
    <2>1. ev' = [ev EXCEPT ![o] = row] /\ ev \in [Objectives -> Evaluation]
      BY <1>2 DEF IInv, TypeOK
    <2>2. /\ row.best = IF improved THEN score ELSE ev[o].best
          /\ row.champion = IF improved THEN job[k].target ELSE ev[o].champion
      BY <2>1 DEF Evaluation
    <2> HIDE DEF row
    <2> QED BY <2>1, <2>2
  <1>5. job'[k].obj = o /\ job'[k].target = job[k].target
    BY <1>1, NextSteps DEF Stepped, Moves, Same
  <1>6. k \notin Scored(o) /\ Scored(o)' = Scored(o) \cup {k}
    BY <1>1, <1>5 DEF Scored, Measured
  <1>7. \A i \in Scored(o) :
          /\ i # k /\ i \in JobId /\ exp[i].score \in Nat /\ exp'[i] = exp[i]
          /\ job'[i] = job[i] /\ job[i].ended <= now /\ job[i].ended \in Nat
    BY <1>1, <1>6, ValueAssumption DEF Scored, Measured, Dated, IInv, JobsOK, Job
  <1>8. now \in Nat
    BY DEF IInv, TypeOK
  <1> HIDE DEF k
  <1>9. CASE Scored(o) = {}
    <2>1. Improved(o, score) /\ Scored(o)' = {k}
      BY <1>6, <1>9 DEF FirstBest, Improved
    <2>2. job'[k].ended \in Nat
      BY <1>1, <1>8
    <2> QED BY <1>3, <1>4, <1>5, <2>1, <2>2 DEF FirstBest
  <1>10. CASE Scored(o) # {}
    <2>1. PICK b \in Scored(o) :
            /\ exp[b].score = ev[o].best /\ job[b].target = ev[o].champion
            /\ \A i \in Scored(o) : exp[i].score = ev[o].best =>
                                      job[b].ended <= job[i].ended
      BY <1>10 DEF FirstBest
    <2>2. ev[o].best \in Nat /\ \A i \in Scored(o) : exp[i].score <= ev[o].best
      BY <1>7, <1>10, <2>1 DEF FirstBest
    <2>3. Improved(o, score) <=> score > ev[o].best
      BY <2>2 DEF Improved, NoScore
    <2>4. CASE score > ev[o].best
      <3>1. ev'[o].best = score /\ ev'[o].champion = job[k].target
        BY <1>4, <2>3, <2>4
      <3>2. \A i \in Scored(o) : exp'[i].score <= ev'[o].best
                                 /\ exp'[i].score # ev'[o].best
        BY <1>3, <1>7, <2>2, <2>4, <3>1
      <3>3. job'[k].ended \in Nat
        BY <1>1, <1>8
      <3> QED BY <1>3, <1>5, <1>6, <3>1, <3>2, <3>3 DEF FirstBest
    <2>5. CASE score <= ev[o].best
      <3>1. ev'[o].best = ev[o].best /\ ev'[o].champion = ev[o].champion
        BY <1>3, <1>4, <2>2, <2>3, <2>5
      <3>2. \A i \in Scored(o)' : exp'[i].score <= ev'[o].best
        BY <1>3, <1>6, <1>7, <2>2, <2>5, <3>1
      <3>3. /\ exp'[b].score = ev'[o].best /\ job'[b].target = ev'[o].champion
            /\ b \in Scored(o)'
        BY <1>6, <1>7, <2>1, <3>1
      <3>4. ASSUME NEW i \in Scored(o)', exp'[i].score = ev'[o].best
            PROVE  job'[b].ended <= job'[i].ended
        <4>1. CASE i = k
          BY <1>1, <1>7, <1>8, <2>1, <4>1
        <4>2. CASE i \in Scored(o)
          BY <1>7, <2>1, <3>1, <3>4, <4>2
        <4> QED BY <1>6, <4>1, <4>2
      <3> QED BY <3>2, <3>3, <3>4 DEF FirstBest
    <2> QED BY <1>3, <2>2, <2>4, <2>5
  <1> QED BY <1>9, <1>10

LEMMA FirstBestPreserved ==
  ASSUME IInv, PromotionOK, Measured, Dated, [Next]_vars, NEW o \in Objectives,
         FirstBest(o)
  PROVE  FirstBest(o)'
  <1>1. CASE ScoresKept /\ BestKept
    <2>1. Scored(o)' \subseteq Scored(o)
      BY <1>1, ScoredKept DEF Scored, ScoresKept
    <2> QED BY <1>1, <2>1, FirstBestKept DEF BestKept
  <1>2. ASSUME NEW c \in calls, CompleteExperiment(c), job[c.job].obj # o
        PROVE  FirstBest(o)'
    <2>1. /\ c.job \in JobId /\ job[c.job].state = "leased"
          /\ \A i \in JobId : i # c.job => job'[i] = job[i] /\ exp'[i] = exp[i]
      BY <1>2, ScoredExperiment
    <2>2. job'[c.job].obj = job[c.job].obj
      BY <2>1, NextSteps DEF Stepped, Moves, Same
    <2>3. Scored(o)' \subseteq Scored(o)
      BY <1>2, <2>1, <2>2 DEF Scored
    <2>4. ev'[o] = ev[o]
      BY <1>2 DEF CompleteExperiment, IInv, TypeOK
    <2> QED BY <2>3, <2>4, FirstBestKept
  <1> QED BY <1>1, <1>2, FirstBestAfterScore, ScoreSteps, EvidenceSteps

\* The champion is the submission that was the first to get the best score.
THEOREM ChampionStays == Spec => []ChampionIsFirstBest
  <1> DEFINE Champions == \A o \in Objectives : FirstBest(o)
  <1>1. Init => Champions
    <2>1. ASSUME Init, NEW o \in Objectives
          PROVE  Scored(o) = {} /\ ev[o].best = NoScore
      BY <2>1 DEF Init, Scored
    <2> QED BY <2>1 DEF FirstBest
  <1>2. (IInv /\ PromotionOK) /\ Measured /\ Dated /\ Champions /\ [Next]_vars
        => Champions'
    BY FirstBestPreserved
  <1>3. Champions => ChampionIsFirstBest
    BY DEF FirstBest, Scored, ChampionIsFirstBest
  <1> QED BY <1>1, <1>2, <1>3, Invariance, MeasuredInvariance, DatedInvariance, PTL
          DEF Spec
=============================================================================
