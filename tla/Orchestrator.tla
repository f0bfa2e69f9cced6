---------------------------- MODULE Orchestrator ----------------------------
(***************************************************************************)
(* The orchestrator's tick, one transaction: leases that have run out are  *)
(* recovered first, whatever the mode; then, while the system runs, one    *)
(* objective that is due gets a cooldown, is blocked in favour of a        *)
(* successor, or gets its next job.                                        *)
(***************************************************************************)
EXTENDS Store, CyclePolicy

(* Recovery of expired leases. *)

\* Mutant: candidates, which have no lease, are recovered too.
HasRunOut(row) == row.state \in {"leased", "candidate"} /\ row.ttl = 0

HasExpired(row) == row.state = "leased" /\ row.ttl = 0

\* Mutant: one attempt too many.
RecoveredOnceMore(row) ==
  LET freed == [Released(row) EXCEPT !.err = WithExpiry(@)]
  IN  IF row.attempts <= row.max
      THEN [freed EXCEPT !.state = "queued", !.wait = RetryTicks]
      ELSE [freed EXCEPT !.state = "failed", !.ended = now + 1]

\* Mutant: the attempts, and with them the lease tokens, start over.
RecoveredAfresh(row) ==
  [Released(row) EXCEPT !.err = WithExpiry(@), !.state = "queued",
                        !.wait = RetryTicks, !.attempts = 0]

Recovered(row) ==
  LET freed == [Released(row) EXCEPT !.err = WithExpiry(@)]
  IN  IF row.attempts < row.max
      THEN [freed EXCEPT !.state = "queued", !.wait = RetryTicks]
      ELSE [freed EXCEPT !.state = "failed", !.ended = now + 1]

\* jobs once this tick has recovered the expired leases.
Jobs == [j \in JobId |-> IF HasExpired(job[j]) THEN Recovered(job[j]) ELSE job[j]]

\* Jobs that failed in this tick share its timestamp.
Now ==
  IF \E j \in JobId : HasExpired(job[j]) /\ job[j].attempts >= job[j].max
  THEN now + 1 ELSE now

-----------------------------------------------------------------------------
(* What the scheduler reads about one objective. *)

\* Mutant: a candidate does not count as an open job.
DueBesideCandidate(o) ==
  /\ mode = "running"
  /\ objective[o].status = "active" /\ objective[o].due = 0 /\ ev[o].cool = 0
  /\ \A j \in JobId :
       Jobs[j].obj = o => Jobs[j].state \notin {"queued", "leased"}

Due(o) ==
  /\ mode = "running"
  /\ objective[o].status = "active" /\ objective[o].due = 0 /\ ev[o].cool = 0
  /\ \A j \in JobId : Jobs[j].obj = o => Jobs[j].state \notin OpenStates

Past(o, types) ==
  {j \in JobId : /\ Jobs[j].obj = o /\ Jobs[j].state \in Terminal
                 /\ Jobs[j].type \in types}

\* The row is inserted by the first tick that considers the objective.
Seen(o) == IF ev[o].seen = -1 THEN Now ELSE ev[o].seen

\* Mutant: failures from before the cooldown count again.
AlikeEver(o, fp) ==
  LET recent == Latest(Jobs, Past(o, JobTypes), 3)
  IN  /\ Cardinality(recent) = 3 /\ fp # <<>>
      /\ \A j \in recent : Jobs[j].state = "failed" /\ Jobs[j].err = fp

\* The last three jobs failed alike, the latest since the evaluation row was
\* last written.
FailingAlike(o, fp) ==
  LET recent == Latest(Jobs, Past(o, JobTypes), 3)
  IN  /\ Cardinality(recent) = 3 /\ fp # <<>>
      /\ \A j \in recent :
           Jobs[j].state = "failed" /\ Jobs[j].err = fp
      /\ \E j \in recent : Jobs[j].ended > Seen(o)

Fingerprints(o) == {Jobs[j].err : j \in Past(o, JobTypes)}

\* repeated_failure_epoch_count
EpochCount(o, fp) == IF ev[o].fp = fp THEN ev[o].count + 3 ELSE 3

Promoted(o, type) ==
  {j \in JobId : /\ job[j].obj = o /\ job[j].type = type
                 /\ change[j].state = "promoted"}

\* The promotions in S later than every promotion in T.
Since(S, T) ==
  {j \in S : \A i \in T : change[j].promoted > change[i].promoted}

-----------------------------------------------------------------------------
(* The tick. *)

\* Mutant: a paused system recovers no lease.
TickIdleRunning ==
  /\ mode = "running"
  /\ \/ \A o \in Objectives : ~Due(o)
     \/ \A j \in JobId : job[j].state # "absent"
  /\ job' = Jobs
  /\ now' = Now
  /\ UNCHANGED <<mode, baseline, exp, change, sub, objective, ev, taken, work,
                 calls>>

\* A tick that schedules nothing: no objective is due (or, at the bound MaxJobs,
\* no row is left).
TickIdle ==
  /\ \/ \A o \in Objectives : ~Due(o)
     \/ \A j \in JobId : job[j].state # "absent"
  /\ job' = Jobs
  /\ now' = Now
  /\ UNCHANGED <<mode, baseline, exp, change, sub, objective, ev, taken, work,
                 calls>>

\* Three identical failures: the objective rests for CooldownTicks.
TickCooldown(o) ==
  /\ Due(o)
  /\ \E fp \in Fingerprints(o) :
       /\ FailingAlike(o, fp)
       /\ EpochCount(o, fp) < 6
       /\ ev' = [ev EXCEPT ![o].fp = fp, ![o].count = EpochCount(o, fp),
                           ![o].cool = CooldownTicks, ![o].seen = Now]
  /\ objective' = [objective EXCEPT ![o].due = IntervalTicks]
  /\ job' = Jobs
  /\ now' = Now
  /\ UNCHANGED <<mode, baseline, exp, change, sub, taken, work, calls>>

\* A paused objective takes over: first one without a parent (PostgreSQL sorts
\* NULL first in ORDER BY (parent_id = o) DESC), then a child of o, then any
\* other. When there is none, a new objective is inserted.
Successors(o) ==
  LET paused   == {p \in Objectives : objective[p].status = "paused"}
      roots    == {p \in paused : \A q \in Objectives : p \notin Children[q]}
      children == paused \cap Children[o]
  IN  CASE roots # {} -> roots
        [] roots = {} /\ children # {} -> children
        [] roots \cup children = {} /\ paused # {} -> paused
        [] OTHER -> {p \in Objectives : objective[p].status = "absent"}

\* The same failure after a cooldown: the objective is blocked.
TickBlock(o) ==
  /\ Due(o)
  /\ \E fp \in Fingerprints(o) :
       /\ FailingAlike(o, fp)
       /\ EpochCount(o, fp) >= 6
       /\ ev' = [ev EXCEPT ![o].fp = fp, ![o].count = EpochCount(o, fp),
                           ![o].cool = 0, ![o].seen = Now]
  /\ \E s \in Successors(o) :
       objective' = [objective EXCEPT
                       ![o] = [status |-> "blocked", due |-> IntervalTicks],
                       ![s] = [status |-> "active", due |-> 0]]
  /\ job' = Jobs
  /\ now' = Now
  /\ UNCHANGED <<mode, baseline, exp, change, sub, taken, work, calls>>

\* The commit of the latest promoted coding job becomes a submission once.
Admitted(o) ==
  [c \in JobId |->
     IF sub[c] = "none" /\ c \in Promoted(o, "coding_cycle")
        /\ \A i \in Promoted(o, "coding_cycle") :
             change[i].promoted <= change[c].promoted
     THEN "admitted" ELSE sub[c]]

Unscored(o) == {c \in JobId : job[c].obj = o /\ Admitted(o)[c] = "admitted"}

History(o) ==
  LET last        == Latest(Jobs, Past(o, JobTypes), 1)
      coding      == Past(o, {"coding_cycle"})
      discoveries == Promoted(o, "discovery_cycle")
      promotions  == Promoted(o, "coding_cycle")
      Missed(j)   == Jobs[j].state \in {"failed", "rejected"}
  IN
  [unscored   |-> Unscored(o) # {},
   discovered |-> discoveries # {},
   lastType   |-> IF last = {} THEN "" ELSE Jobs[CHOOSE j \in last : TRUE].type,
   lastState  |-> IF last = {} THEN "" ELSE Jobs[CHOOSE j \in last : TRUE].state,
   apiFailed  |-> \E j \in last : exp[j].apiFailed,
   codingSinceDiscovery |->
     IF discoveries = {} THEN 0 ELSE Cardinality(Since(promotions, discoveries)),
   discoverySinceCoding |-> Cardinality(Since(discoveries, promotions)),
   codingFailures |->
     Cardinality({j \in Latest(Jobs, coding, 4) :
       \A i \in coding : i = j \/ Later(Jobs, i, j) => Missed(i)})]

\* Mutant: the job does not say which submission it measures.
NewJobUntargeted(o, type, c) ==
  [NoJob EXCEPT !.state = "queued", !.type = type, !.obj = o, !.max = 2,
                !.base = IF type = "experiment_cycle" THEN c ELSE baseline,
                !.auto = TRUE]

\* The objective gets its next job, pinned to the baseline or, to measure a
\* submission, to the submitted commit.
NewJob(o, type, c) ==
  [NoJob EXCEPT !.state = "queued", !.type = type, !.obj = o, !.max = 2,
                !.base = IF type = "experiment_cycle" THEN c ELSE baseline,
                !.target = c, !.auto = TRUE]

TickQueue(o) ==
  LET type == ChooseCycle(History(o))
  IN
  /\ Due(o)
  /\ \A fp \in Fingerprints(o) : ~FailingAlike(o, fp)
  /\ \E j \in JobId :
       /\ IsNextRow(job, j)
       /\ IF type = "experiment_cycle"
          THEN \E c \in Unscored(o) :
                 /\ job' = [Jobs EXCEPT ![j] = NewJob(o, type, c)]
                 /\ sub' = [Admitted(o) EXCEPT ![c] = "queued"]
          ELSE /\ job' = [Jobs EXCEPT ![j] = NewJob(o, type, 0)]
               /\ sub' = Admitted(o)
  /\ objective' = [objective EXCEPT ![o].due = IntervalTicks]
  /\ ev' = [ev EXCEPT ![o].seen = IF Admitted(o) # sub THEN Now ELSE Seen(o)]
  /\ now' = Now
  /\ UNCHANGED <<mode, baseline, exp, change, taken, work, calls>>

Tick ==
  \/ TickIdle
  \/ \E o \in Objectives : TickCooldown(o) \/ TickBlock(o) \/ TickQueue(o)
=============================================================================
