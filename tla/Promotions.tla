----------------------------- MODULE Promotions -----------------------------
(***************************************************************************)
(* The promoter's transactions: it takes the oldest candidate, inspects    *)
(* it, and promotes, rejects or retries it. The promoter may be restarted  *)
(* between any two of them. What happens in the git repositories between   *)
(* the inspection and the promotion is module Promoter.                    *)
(***************************************************************************)
EXTENDS Store

Awaiting ==
  {j \in JobId : /\ job[j].state = "candidate"
                 /\ change[j].state \in {"draft", "evaluating"}}

Reject(j) ==
  /\ job' = [job EXCEPT ![j].state = "rejected"]
  /\ change' = [change EXCEPT ![j].state = "rejected"]
  /\ UNCHANGED <<mode, baseline, exp, sub, objective, ev, now, work, calls>>

\* Mutant: candidates on a stale base are inspected too.
TakeStale(j) ==
  /\ taken = NoneTaken
  /\ j \in Awaiting /\ \A i \in Awaiting : i = j \/ Later(job, i, j)
  /\ change' = [change EXCEPT ![j].state = "evaluating"]
  /\ taken' = [job |-> j, exhausted |-> FALSE]
  /\ UNCHANGED <<mode, baseline, job, exp, sub, objective, ev, now, work, calls>>

\* _next_candidate: a candidate on another base than the baseline, or without
\* its artifacts, is rejected at once.
TakeCandidate(j) ==
  /\ taken = NoneTaken
  /\ j \in Awaiting /\ \A i \in Awaiting : i = j \/ Later(job, i, j)
  /\ \/ /\ job[j].base = baseline
        /\ change' = [change EXCEPT ![j].state = "evaluating"]
        /\ taken' = [job |-> j, exhausted |-> FALSE]
        /\ UNCHANGED <<mode, baseline, job, exp, sub, objective, ev, now, work,
                       calls>>
     \/ Reject(j) /\ UNCHANGED taken

\* _record_rejection: the gate refused the candidate, the remote did, or it
\* has used up its retries.
RejectTaken ==
  /\ taken # NoneTaken
  /\ Reject(taken.job)
  /\ taken' = NoneTaken

\* Mutant: retries are counted and never run out.
RetryForever ==
  LET next == change[taken.job].retries + 1
  IN
  /\ taken # NoneTaken /\ ~taken.exhausted
  /\ change' = [change EXCEPT ![taken.job].state = "draft",
                              ![taken.job].retries =
                                IF next >= MaxPromotionRetries
                                THEN MaxPromotionRetries ELSE next]
  /\ taken' = NoneTaken
  /\ UNCHANGED <<mode, baseline, job, exp, sub, objective, ev, now, work, calls>>

\* _record_retry, after any other failure. The last retry is followed by a
\* rejection, in a transaction of its own.
RetryTaken ==
  LET j    == taken.job
      next == change[j].retries + 1
      last == next >= MaxPromotionRetries
  IN
  /\ taken # NoneTaken /\ ~taken.exhausted
  /\ change' = [change EXCEPT ![j].state = "draft",
                              ![j].retries = IF last THEN MaxPromotionRetries
                                                     ELSE next]
  /\ taken' = IF last THEN [taken EXCEPT !.exhausted = TRUE] ELSE NoneTaken
  /\ UNCHANGED <<mode, baseline, job, exp, sub, objective, ev, now, work, calls>>

\* A promoted coding job of a milestone completes its objective, and the
\* first paused child takes over.
CompletesMilestone(j) ==
  job[j].type = "coding_cycle" /\ job[j].obj \in Milestones

MilestoneStep(j) ==
  LET o        == job[j].obj
      done     == [objective EXCEPT ![o].status =
                     IF @ = "active" THEN "completed" ELSE @]
      children == {s \in Children[o] : done[s].status = "paused"}
  IN
  IF ~CompletesMilestone(j) THEN objective' = objective
  ELSE IF children = {} THEN objective' = done
  ELSE \E s \in children :
         objective' = [done EXCEPT ![s] = [status |-> "active", due |-> 0]]

\* The last transaction of _promote.
PromoteTaken ==
  LET j == taken.job
      o == job[j].obj
  IN
  /\ taken # NoneTaken /\ ~taken.exhausted
  /\ baseline' = IF baseline = job[j].base THEN j ELSE baseline
  /\ job' = [job EXCEPT ![j].state = "completed"]
  /\ MilestoneStep(j)
  /\ ev' = IF job[j].type = "coding_cycle" /\ ev[o].seen # -1
           THEN [ev EXCEPT ![o].fp = <<>>, ![o].count = 0, ![o].cool = 0,
                           ![o].seen = now + 1]
           ELSE ev
  /\ change' = [change EXCEPT ![j].state = "promoted", ![j].promoted = now + 1]
  /\ now' = now + 1
  /\ taken' = NoneTaken
  /\ UNCHANGED <<mode, exp, sub, work, calls>>

\* The promoter restarts and forgets the candidate it was working on.
RestartPromoter ==
  /\ taken # NoneTaken
  /\ taken' = NoneTaken
  /\ UNCHANGED <<mode, baseline, job, exp, change, sub, objective, ev, now, work,
                 calls>>

RejectExhausted == taken.exhausted /\ RejectTaken

Resolve == RejectTaken \/ RetryTaken \/ PromoteTaken

PromoterStep ==
  \/ \E j \in JobId : TakeCandidate(j)
  \/ Resolve
  \/ RestartPromoter
=============================================================================
