------------------------------- MODULE JobApi -------------------------------
(***************************************************************************)
(* The API of the job queue (main.py) and the lab workers that call it.    *)
(* A worker's calls travel over an unreliable network: the answer to a     *)
(* lease may be lost, and a complete or fail call may be lost or reach the *)
(* API long after its sender has given up and the job was leased again.    *)
(***************************************************************************)
EXTENDS Store

(* Operators. *)

SetMode(m) ==
  /\ mode' = m
  /\ UNCHANGED <<baseline, job, exp, change, sub, objective, ev, now, taken,
                 work, calls>>

CreateObjective(o) ==
  /\ objective[o].status = "absent"
  /\ objective' = [objective EXCEPT ![o] = [status |-> "active", due |-> 0]]
  /\ UNCHANGED <<mode, baseline, job, exp, change, sub, ev, now, taken, work,
                 calls>>

\* An operator pins a job to a commit of the trusted history.
CreateJob(j, o, b) ==
  /\ IsNextRow(job, j)
  /\ objective[o].status # "absent"
  /\ b = 0 \/ \E i \in JobId : b = i /\ change[i].state = "promoted"
  /\ \E a \in AdminJobs :
       job' = [job EXCEPT ![j] =
                 [NoJob EXCEPT !.state = "queued", !.type = a[1], !.obj = o,
                               !.base = b, !.max = a[2]]]
  /\ UNCHANGED <<mode, baseline, exp, change, sub, objective, ev, now, taken,
                 work, calls>>

-----------------------------------------------------------------------------
(* The lease protocol. *)

Capable(w, j) ==
  IF w \in Evaluators THEN job[j].type = "experiment_cycle"
                      ELSE job[j].type # "experiment_cycle"

\* lease_job. The worker may never see the answer: its job then waits for
\* the lease to run out.
LeaseJob(w, j) ==
  /\ work[w].phase = "idle"
  /\ mode = "running"
  /\ job[j].state = "queued" /\ job[j].wait = 0 /\ Capable(w, j)
  /\ job' = [job EXCEPT ![j].state = "leased", ![j].owner = w,
                        ![j].ttl = LeaseTicks, ![j].attempts = @ + 1]
  /\ IF job[j].type = "experiment_cycle"
     THEN /\ exp' = [exp EXCEPT ![j].state = "running"]
          /\ sub' = [sub EXCEPT ![job[j].target] = "evaluating"]
     ELSE UNCHANGED <<exp, sub>>
  /\ \/ work' = [work EXCEPT ![w] = [phase |-> "working", job |-> j,
                                     token |-> job[j].attempts + 1]]
     \/ Faulty /\ UNCHANGED work
  /\ UNCHANGED <<mode, baseline, change, objective, ev, now, taken, calls>>

\* Mutant: without the lease token.
VerifiedOwner(w, j, token) ==
  job[j].state = "leased" /\ job[j].owner = w /\ job[j].ttl > 0

\* _verify_lease
Verified(w, j, token) ==
  /\ job[j].state = "leased" /\ job[j].owner = w /\ job[j].ttl > 0
  /\ job[j].attempts = token

\* Mutant: the lease is prolonged instead of renewed.
HeartbeatExtending(w) ==
  /\ work[w].phase = "working"
  /\ Verified(w, work[w].job, work[w].token)
  /\ job' = [job EXCEPT ![work[w].job].ttl = @ + LeaseTicks]
  /\ UNCHANGED <<mode, baseline, exp, change, sub, objective, ev, now, taken,
                 work, calls>>

\* heartbeat; a refused heartbeat changes nothing.
Heartbeat(w) ==
  /\ work[w].phase = "working"
  /\ Verified(w, work[w].job, work[w].token)
  /\ job' = [job EXCEPT ![work[w].job].ttl = LeaseTicks]
  /\ UNCHANGED <<mode, baseline, exp, change, sub, objective, ev, now, taken,
                 work, calls>>

-----------------------------------------------------------------------------
(* Workers. A worker reports once with complete and, when that raises (or  *)
(* the work itself did), with fail; it never retries either.               *)

Send(w, kind, phase) ==
  /\ Cardinality(calls) < MaxCalls
  /\ calls' = calls \cup {[by |-> w, kind |-> kind, job |-> work[w].job,
                           token |-> work[w].token]}
  /\ work' = [work EXCEPT ![w].phase = phase]
  /\ UNCHANGED <<mode, baseline, job, exp, change, sub, objective, ev, now,
                 taken>>

SendComplete(w) == work[w].phase = "working" /\ Send(w, "complete", "completing")

SendFail(w) ==
  /\ work[w].phase = "working" \/ (Faulty /\ work[w].phase = "completing")
  /\ Send(w, "fail", "failing")

\* The worker is done with its job: it has its answer, or stopped waiting for
\* one, or was restarted.
MoveOn(w) ==
  /\ work[w].phase # "idle"
  /\ \/ Faulty
     \/ work[w].phase # "working" /\ \A c \in calls : c.by # w
  /\ work' = [work EXCEPT ![w] = Idle]
  /\ UNCHANGED <<mode, baseline, job, exp, change, sub, objective, ev, now,
                 taken, calls>>

-----------------------------------------------------------------------------
(* The API's answers to complete and fail. *)

\* The call is lost, or refused with 409.
DropCall(c) ==
  /\ c \in calls
  /\ Faulty \/ ~Verified(c.by, c.job, c.token)
  /\ calls' = calls \ {c}
  /\ UNCHANGED <<mode, baseline, job, exp, change, sub, objective, ev, now,
                 taken, work>>

Accept(c, kind) ==
  /\ c \in calls /\ c.kind = kind
  /\ Verified(c.by, c.job, c.token)
  /\ calls' = calls \ {c}

Ended(j, state) ==
  job' = [job EXCEPT ![j] = [Released(@) EXCEPT !.state = state,
                                                !.ended = now + 1]]

\* complete_job on a discovery or coding job: changed work becomes a
\* candidate, unchanged work is rejected.
CompleteCycle(c) ==
  /\ Accept(c, "complete")
  /\ job[c.job].type # "experiment_cycle"
  /\ \/ /\ Ended(c.job, "candidate")
        /\ change' = [change EXCEPT ![c.job].state = "draft"]
     \/ /\ Ended(c.job, "rejected")
        /\ UNCHANGED change
  /\ now' = now + 1
  /\ UNCHANGED <<mode, baseline, exp, sub, objective, ev, taken, work>>

\* Mutant: an equal score displaces the champion.
ImprovedOrEqual(o, score) == ev[o].best = NoScore \/ score >= ev[o].best

\* A score makes its submission the champion when there is no better or equal.
Improved(o, score) == ev[o].best = NoScore \/ score > ev[o].best

\* complete_job on an experiment: the score is recorded, and a better one
\* makes the submission its objective's champion.
CompleteExperiment(c) ==
  LET j == c.job
      o == job[j].obj
  IN
  /\ Accept(c, "complete")
  /\ job[j].type = "experiment_cycle"
  /\ Ended(j, "completed")
  /\ \E score \in Scores, apiFailed \in BOOLEAN :
       /\ exp' = [exp EXCEPT ![j] = [state |-> "completed", score |-> score,
                                     apiFailed |-> apiFailed]]
       /\ ev' = [ev EXCEPT
                   ![o].seen = now + 1,
                   ![o].best = IF Improved(o, score) THEN score ELSE @,
                   ![o].champion =
                     IF Improved(o, score) THEN job[j].target ELSE @]
  /\ sub' = [sub EXCEPT ![job[j].target] = "scored"]
  /\ now' = now + 1
  /\ UNCHANGED <<mode, baseline, change, objective, taken, work>>

\* Mutant: the submission is up for a measurement again though a retry waits.
AlwaysAdmitted(retry) == "admitted"

\* The submission of a failed experiment waits for the retry or, after the last
\* one, for another experiment.
AfterFailure(retry) == IF retry THEN "queued" ELSE "admitted"

\* fail_job. Only a GraphBlockedError, which agents alone raise, is reported
\* as not retryable.
FailJob(c) ==
  LET j == c.job
  IN
  /\ Accept(c, "fail")
  /\ \E e \in Errors, retryable \in {TRUE} \cup {c.by \in Evaluators} :
       LET retry == retryable /\ job[j].attempts < job[j].max
           row   == [Released(job[j]) EXCEPT !.err = <<e>>]
       IN
       /\ job' = [job EXCEPT ![j] =
            IF retry THEN [row EXCEPT !.state = "queued", !.wait = RetryTicks]
                     ELSE [row EXCEPT !.state = "failed", !.ended = now + 1]]
       /\ now' = IF retry THEN now ELSE now + 1
       /\ IF job[j].type = "experiment_cycle"
          THEN /\ exp' = [exp EXCEPT ![j].state =
                            IF retry THEN "queued" ELSE "failed"]
               /\ sub' = [sub EXCEPT ![job[j].target] = AfterFailure(retry)]
          ELSE UNCHANGED <<exp, sub>>
  /\ UNCHANGED <<mode, baseline, change, objective, ev, taken, work>>

\* create_submission: a lab client submits a commit that was built. Manifests
\* are left out: a commit is submitted with the default one.
CreateSubmission(c) ==
  /\ LabSubmits
  /\ change[c].state # "none"
  /\ sub' = [sub EXCEPT ![c] = IF @ = "none" THEN "admitted" ELSE @]
  /\ ev' = [ev EXCEPT ![job[c].obj].seen = now]
  /\ UNCHANGED <<mode, baseline, job, exp, change, objective, now, taken, work,
                 calls>>

-----------------------------------------------------------------------------
Operator ==
  \/ \E m \in Modes : SetMode(m)
  \/ \E o \in Objectives : CreateObjective(o)
  \/ \E j \in JobId, o \in Objectives, b \in Commit : CreateJob(j, o, b)

Lab ==
  \/ \E w \in Worker, j \in JobId : LeaseJob(w, j)
  \/ \E w \in Worker :
       Heartbeat(w) \/ SendComplete(w) \/ SendFail(w) \/ MoveOn(w)
  \/ \E c \in calls :
       DropCall(c) \/ CompleteCycle(c) \/ CompleteExperiment(c) \/ FailJob(c)
  \/ \E c \in JobId : CreateSubmission(c)
=============================================================================
