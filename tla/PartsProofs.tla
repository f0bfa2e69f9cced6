----------------------------- MODULE PartsProofs -----------------------------
(***************************************************************************)
(* Proofs about four parts that share no state: the evaluator's loop, the  *)
(* probe guard, the episode runner and the probes.                         *)
(***************************************************************************)
EXTENDS EvaluatorLoop, ProbeGuard, EpisodeRun, Observations, Induction

-----------------------------------------------------------------------------
(* The evaluator's loop.  What ends the lease of a gameplay evaluation, for*)
(* every lease, interval and time-out.  While the lease is held, the       *)
(* inductive invariant bounds its age by what has gone by since it was     *)
(* renewed: the checkout or the calls of the thread, the waits before the  *)
(* beats that were lost, and the wait of now.                              *)

LoopTyped ==
  /\ suite \in {"v3", "v4"} /\ pc \in Locations
  /\ age \in 0..MaxAge
  /\ thread \in {"off", "waiting", "calling"}
  /\ timer \in Nat /\ stalled \in Nat /\ lost \in Nat

\* The thread runs beside the episodes, and waits no longer than Interval.
Beside ==
  /\ pc = "episodes" <=> thread # "off"
  /\ pc = "contract" => suite = "v3"
  /\ thread = "waiting" => timer <= Interval

\* The waits of the beats that were lost.
Waits == lost * Interval

AgeBounded ==
  /\ pc = "checkout" => age <= stalled
  /\ thread = "waiting" /\ Held(age) => age <= stalled + Waits + timer
  /\ thread = "calling" /\ Held(age) => age <= stalled + Waits + Interval
  /\ thread = "calling" => timer <= stalled \/ age <= stalled
  /\ suite = "v4" /\ pc \in {"episodes", "completing"} /\ ~Held(age) =>
       LeaseTime <= stalled + Waits + Interval

LoopInv == LoopTyped /\ Beside /\ AgeBounded

-----------------------------------------------------------------------------
(* One beat more is one wait more.                                         *)
LEMMA OneMore ==
  ASSUME NEW n \in Nat, NEW k \in Nat
  PROVE  n * k \in Nat /\ (n + 1) * k = n * k + k
OBVIOUS

(* What the invariant says of a lease that is over.                        *)
LEMMA StallsExplain == LoopInv => ExpiresByStalls
<1>. SUFFICES ASSUME LoopInv PROVE ExpiresByStalls
  OBVIOUS
<1>1. (lost + 1) * Interval = Waits + Interval /\ Waits \in Nat
  BY OneMore, TimesAssumption DEF LoopInv, LoopTyped, Waits
<1>. QED
  BY <1>1, TimesAssumption
  DEF LoopInv, LoopTyped, AgeBounded, ExpiresByStalls, Held, MaxAge

(* Nothing is renewed, and no time has passed, when the loop begins.       *)
LEMMA LoopInitInv == Init => LoopInv
BY TimesAssumption
DEF Init, LoopInv, LoopTyped, Beside, AgeBounded, Locations, MaxAge, Held

(* Every step keeps the bound on the age of the lease.                     *)
LEMMA LoopStepInv == LoopInv /\ [Next]_vars => LoopInv'
<1>. SUFFICES ASSUME LoopInv, [Next]_vars PROVE LoopInv'
  OBVIOUS
<1>. USE TimesAssumption
     DEF LoopInv, LoopTyped, Beside, AgeBounded, Locations, MaxAge, Goto, Held, Renewed
<1>0. /\ Waits \in Nat /\ (lost + 1) * Interval = Waits + Interval
      /\ lost' = lost => Waits' = Waits
      /\ lost' = lost + 1 => Waits' = Waits + Interval
      /\ lost' = 0 => Waits' = 0
  BY OneMore DEF Waits
<1>1. CASE UNCHANGED vars
  BY <1>0, <1>1 DEF vars, lease
<1>2. CASE Lease
  BY <1>0, <1>2 DEF Lease
<1>3. CASE Start
  BY <1>0, <1>3 DEF Start, Call, clocks, lease
<1>4. CASE Announce
  BY <1>0, <1>4 DEF Announce, clocks, lease
<1>5. CASE CheckOut
  BY <1>0, <1>5 DEF CheckOut, clocks, lease
<1>6. CASE Contract
  BY <1>0, <1>6 DEF Contract, Call, clocks, lease
<1>7. CASE OnEpisode
  BY <1>0, <1>7 DEF OnEpisode
<1>8. CASE Wake
  BY <1>0, <1>8 DEF Wake, lease
<1>9. CASE Beat
  <2>1. CASE \E r \in 0..timer : r <= age /\ Held(age - r) /\ Renewed(r)
    BY <1>0, <1>9, <2>1 DEF Beat
  <2>2. CASE age < timer /\ UNCHANGED lease
    BY <1>0, <1>9, <2>2 DEF Beat, lease
  <2>3. CASE lost' = (IF Held(age) THEN lost + 1 ELSE lost) /\ UNCHANGED <<age, stalled>>
    <3>1. CASE Held(age)
      BY <1>0, <1>9, <2>3, <3>1 DEF Beat
    <3>2. CASE ~Held(age)
      BY <1>0, <1>9, <2>3, <3>2 DEF Beat
    <3>. QED
      BY <3>1, <3>2
  <2>. QED
    BY <1>9, <2>1, <2>2, <2>3 DEF Beat
<1>10. CASE EndEpisodes
  BY <1>0, <1>10 DEF EndEpisodes, lease
<1>11. CASE Deliver
  BY <1>0, <1>11 DEF Deliver, clocks, lease
<1>12. CASE Report
  BY <1>0, <1>12 DEF Report, Call, clocks, lease
<1>13. CASE Fail
  BY <1>0, <1>13 DEF Fail, clocks, lease
<1>14. CASE Crash
  BY <1>0, <1>14 DEF Crash, lease
<1>15. CASE Tick
  <2>1. LoopTyped' /\ Beside'
    BY <1>15 DEF Tick
  <2>2. AgeBounded'
    BY <1>0, <1>15 DEF Tick
  <2>. QED
    BY <2>1, <2>2
<1>. QED
  BY <1>1, <1>2, <1>3, <1>4, <1>5, <1>6, <1>7, <1>8, <1>9, <1>10, <1>11,
     <1>12, <1>13, <1>14, <1>15 DEF Next

(* The strengthening holds in every state of the evaluator.                *)
THEOREM LoopInvariance == Spec => []LoopInv
BY LoopInitInv, LoopStepInv, PTL DEF Spec

(* Every variable of the loop keeps to its type.                           *)
THEOREM TypeCorrect == Spec => []TypeOK
<1>1. LoopInv => TypeOK
  BY DEF LoopInv, LoopTyped, TypeOK
<1>. QED
  BY <1>1, LoopInvariance, PTL

(* However long the episodes are, the lease of a gameplay evaluation ends  *)
(* before its result only by a slow checkout, by calls of the thread that  *)
(* hang and by beats that fail (game_evaluate._keepalive).                 *)
THEOREM LeaseEndsByStalls == Spec => []ExpiresByStalls
BY StallsExplain, LoopInvariance, PTL

(* The loop keeps to what the job queue may assume of a client: one report *)
(* of success, and one of failure, which is the last.                      *)
THEOREM ClientRefinement == Spec => IsClient
<1>1. Init => Client!ClientInit
  BY DEF Init, Client!ClientInit, Phase
<1>2. LoopInv /\ [Next]_vars => [Client!ClientNext]_Phase
  <2>. SUFFICES ASSUME LoopInv, [Next]_vars PROVE [Client!ClientNext]_Phase
    OBVIOUS
  <2>. USE DEF LoopInv, Beside, Goto, Phase, Client!ClientNext, Client!Lease, Client!Succeed, Client!Fail, Client!MoveOn
  <2>1. CASE UNCHANGED vars
    BY <2>1 DEF vars
  <2>2. CASE Lease \/ Start \/ Announce \/ CheckOut \/ Contract
    BY <2>2 DEF Lease, Start, Announce, CheckOut, Contract, Call
  <2>3. CASE OnEpisode \/ Wake \/ Beat \/ EndEpisodes \/ Tick
    BY <2>3 DEF OnEpisode, Wake, Beat, EndEpisodes, Tick
  <2>4. CASE Deliver \/ Report \/ Fail \/ Crash
    BY <2>4 DEF Deliver, Report, Fail, Crash, Call
  <2>. QED
    BY <2>1, <2>2, <2>3, <2>4 DEF Next
<1>. QED
  BY <1>1, <1>2, LoopInvariance, PTL DEF Spec, IsClient, Client!ClientSpec

-----------------------------------------------------------------------------
(* The probe guard.  Its hard time-out, for every time it is given.  The   *)
(* inductive invariant says for each place of the guard what time it was   *)
(* there at the latest when it came, and what it may have waited since;    *)
(* the place "term" is reached in three ways, with and without something   *)
(* to stop.                                                                *)

Limit == ReadyBy + ProbeTime + StopTime

Preparing == {"checking", "starting", "polling", "sleeping", "rechecking", "spawning"}
Stopping == {"term", "grace", "kill", "reap"}
Over == {"done", "killed"}

Flagged == cleanup \in BOOLEAN /\ raised \in BOOLEAN

GuardTyped ==
  /\ guard \in Preparing \cup Stopping \cup Over \cup {"reading", "drain"}
  /\ elapsed \in Nat /\ wait \in Nat
  /\ leader \in {"none", "running", "exited", "reaped"}
  /\ Flagged

\* No probe before it is started; one that is stopped, or runs no more.
Probing ==
  /\ guard \in Preparing => leader = "none"
  /\ guard = "drain" => leader = "reaped"
  /\ guard = "done" /\ ~raised => leader \in {"none", "reaped"}
  /\ guard = "drain" => cleanup = FALSE

\* When a round of stopping began at the latest.
Began == ReadyBy + ProbeTime + IF cleanup = TRUE THEN 2 * Grace ELSE 0

\* A wait ends with its time-out.
Waiting ==
  /\ guard \in {"checking", "rechecking"} => wait <= CheckTime
  /\ guard = "starting" => wait <= StartTime
  /\ guard = "sleeping" => wait <= PollTime
  /\ guard = "reading" => wait <= ProbeTime
  /\ guard \in {"grace", "reap"} => wait <= Grace
  /\ guard = "drain" => wait <= DrainTime

InTime ==
  /\ guard = "checking" => elapsed <= wait
  /\ guard = "starting" => elapsed <= CheckTime + wait
  /\ guard = "sleeping" => elapsed <= ReadyTime + wait
  /\ guard = "rechecking" => elapsed <= ReadyTime + PollTime + wait
  /\ guard \in {"polling", "spawning"} => elapsed <= ReadyBy
  /\ guard = "reading" => elapsed <= ReadyBy + wait
  /\ guard = "term" => \/ elapsed <= Began
                       \/ cleanup = TRUE /\ leader = "reaped" /\ elapsed <= Limit
  /\ guard = "grace" => elapsed <= Began + wait
  /\ guard = "kill" => elapsed <= Began + Grace
  /\ guard = "reap" => elapsed <= Began + Grace + wait
  /\ guard = "drain" => elapsed <= ReadyBy + ProbeTime + 2 * Grace + wait
  /\ guard \in Over => elapsed <= Limit

GuardInv == GuardTyped /\ Probing /\ Waiting /\ InTime

Expanded ==
  /\ ReadyBy \in Nat /\ ReadyBy >= CheckTime + StartTime
  /\ ReadyBy >= CheckTime + ReadyTime + PollTime
  /\ StopTime \in Nat /\ StopTime >= 2 * Grace + DrainTime
  /\ StopTime >= 4 * Grace

-----------------------------------------------------------------------------
(* What the two bounds are made of.                                        *)
LEMMA Sums == Expanded
BY GuardAssumption DEF Expanded, ReadyBy, StopTime

(* The invariant bounds the time at every place of the guard.              *)
LEMMA WithinLimit == GuardInv => HardTimeout
<1>. SUFFICES ASSUME GuardInv PROVE elapsed <= Limit
  BY DEF GuardInv, Probing, HardTimeout, Limit
<1>. USE GuardAssumption, Sums DEF Expanded, GuardInv, GuardTyped, Limit
<1>1. CASE guard \in Preparing \cup {"reading", "drain"}
  BY <1>1 DEF Waiting, InTime, Preparing
<1>2. CASE guard \in Stopping
  BY <1>2 DEF Waiting, InTime, Began, Stopping
<1>3. CASE guard \in Over
  BY <1>3 DEF InTime
<1>. QED
  BY <1>1, <1>2, <1>3

LEMMA GuardInitInv == GuardInit => GuardInv
<1>. SUFFICES ASSUME GuardInit PROVE GuardInv
  OBVIOUS
<1>0. Flagged
  BY DEF GuardInit, Flagged
<1>1. GuardTyped /\ Probing
  BY <1>0 DEF GuardInit, GuardTyped, Probing, Preparing, Stopping, Over
<1>2. Waiting
  BY GuardAssumption DEF GuardInit, Waiting
<1>3. InTime
  BY Sums DEF GuardInit, Expanded, InTime, Over
<1>. QED
  BY <1>1, <1>2, <1>3 DEF GuardInv

(* Most steps leave the flags alone.                                       *)
LEMMA SameFlags ==
  ASSUME GuardInv, UNCHANGED flags
  PROVE  Flagged'
BY DEF GuardInv, GuardTyped, Flagged, flags

-----------------------------------------------------------------------------
(* One lemma for each stage of the guard.                                  *)
LEMMA PreparingInv ==
  ASSUME GuardInv, Check \/ StartRuntime \/ Poll \/ Sleep \/ Spawn
  PROVE  GuardInv'
<1>. USE GuardAssumption, Sums DEF Expanded, Move, group, flags, Preparing, Stopping, Over
<1>0. Flagged'
  BY SameFlags DEF Check, StartRuntime, Poll, Sleep, Spawn
<1>1. GuardTyped' /\ Probing'
  BY <1>0 DEF GuardInv, GuardTyped, Probing, Check, StartRuntime, Poll, Sleep, Spawn
<1>2. Waiting'
  BY DEF GuardInv, GuardTyped, Waiting, Check, StartRuntime, Poll, Sleep, Spawn
<1>3. ASSUME Check PROVE InTime'
  BY <1>3 DEF GuardInv, GuardTyped, Waiting, InTime, Check, Limit
<1>4. ASSUME StartRuntime \/ Poll \/ Sleep \/ Spawn PROVE InTime'
  BY <1>4 DEF GuardInv, GuardTyped, Waiting, InTime, StartRuntime, Poll, Sleep, Spawn, Limit
<1>. QED
  BY <1>1, <1>2, <1>3, <1>4 DEF GuardInv

LEMMA ReadingInv ==
  ASSUME GuardInv, Read \/ TimeOut \/ Drain
  PROVE  GuardInv'
<1>. USE DEF Move, group, flags, Preparing, Stopping, Over
<1>0. Flagged'
  BY DEF GuardInv, GuardTyped, Flagged, Read, TimeOut, Drain
<1>1. GuardTyped'
  BY <1>0 DEF GuardInv, GuardTyped, Read, TimeOut, Drain
<1>2. Probing'
  BY DEF GuardInv, Probing, Read, TimeOut, Drain
<1>3. Waiting'
  BY GuardAssumption DEF GuardInv, GuardTyped, Waiting, Read, TimeOut, Drain
<1>4. InTime'
  BY GuardAssumption, Sums
     DEF Expanded, GuardInv, GuardTyped, Probing, Waiting, InTime, Read, TimeOut, Drain, Limit, Began
<1>. QED
  BY <1>1, <1>2, <1>3, <1>4 DEF GuardInv

LEMMA StoppingInv ==
  ASSUME GuardInv, Terminate \/ Await \/ Kill \/ Reap
  PROVE  GuardInv'
<1>. USE DEF Move, Leave, Reaped, group, flags, Preparing, Stopping, Over
<1>0. Flagged'
  BY DEF GuardInv, GuardTyped, Flagged, Terminate, Await, Kill, Reap
<1>1. GuardTyped'
  BY <1>0 DEF GuardInv, GuardTyped, Terminate, Await, Kill, Reap
<1>2. Probing'
  BY DEF GuardInv, GuardTyped, Probing, Terminate, Await, Kill, Reap
<1>3. Waiting'
  BY GuardAssumption DEF GuardInv, GuardTyped, Waiting, Terminate, Await, Kill, Reap
<1>4. ASSUME Terminate PROVE InTime'
  BY <1>4, GuardAssumption, Sums
     DEF Expanded, GuardInv, GuardTyped, Waiting, InTime, Terminate, Limit, Began
<1>5. ASSUME Await \/ Kill PROVE InTime'
  BY <1>5, GuardAssumption, Sums
     DEF Expanded, GuardInv, GuardTyped, Waiting, InTime, Await, Kill, Limit, Began
<1>6. ASSUME Reap PROVE InTime'
  BY <1>6, GuardAssumption, Sums
     DEF Expanded, GuardInv, GuardTyped, Waiting, InTime, Reap, Limit, Began
<1>. QED
  BY <1>1, <1>2, <1>3, <1>4, <1>5, <1>6 DEF GuardInv

(* The probe does what it does; its caller gives up; time passes.          *)
LEMMA OutsideInv ==
  ASSUME GuardInv, Live \/ Abandon \/ Pass
  PROVE  GuardInv'
<1>. USE GuardAssumption, Sums DEF Expanded, group, flags, Preparing, Stopping, Over
<1>0. Flagged'
  BY SameFlags DEF Live, Abandon, Pass
<1>1. ASSUME Live PROVE GuardInv'
  BY <1>0, <1>1 DEF GuardInv, GuardTyped, Probing, Waiting, InTime, Began, Live
<1>2. ASSUME Abandon PROVE GuardInv'
  <2>1. elapsed <= Limit
    BY WithinLimit DEF HardTimeout, Limit
  <2>. QED
    BY <1>0, <1>2, <2>1 DEF GuardInv, GuardTyped, Probing, Waiting, InTime, Abandon, Limit
<1>3. ASSUME Pass PROVE GuardInv'
  <2>1. guard \in DOMAIN Limits => guard \notin Over \cup {"polling", "spawning", "term", "kill"}
    BY DEF Limits
  <2>2. /\ guard = "checking" \/ guard = "rechecking" => Limits[guard] = CheckTime
        /\ guard = "starting" => Limits[guard] = StartTime
        /\ guard = "sleeping" => Limits[guard] = PollTime
        /\ guard = "reading" => Limits[guard] = ProbeTime
        /\ guard = "grace" \/ guard = "reap" => Limits[guard] = Grace
        /\ guard = "drain" => Limits[guard] = DrainTime
    BY DEF Limits
  <2>3. GuardTyped' /\ Probing'
    BY <1>0, <1>3 DEF GuardInv, GuardTyped, Probing, Pass
  <2>4. Waiting'
    BY <1>3, <2>2 DEF GuardInv, GuardTyped, Waiting, Pass
  <2>5. InTime'
    BY <1>3, <2>1 DEF GuardInv, GuardTyped, InTime, Began, Pass
  <2>. QED
    BY <2>3, <2>4, <2>5 DEF GuardInv
<1>. QED
  BY <1>1, <1>2, <1>3

(* The guard is nowhere later than its time-outs let it be, and its flags say *)
(* what was done (probe_guard.py).                                           *)
THEOREM GuardInvariance == GuardSpec => []GuardInv
<1>1. GuardInv /\ [GuardNext]_guardVars => GuardInv'
  <2>. SUFFICES ASSUME GuardInv, [GuardNext]_guardVars PROVE GuardInv'
    OBVIOUS
  <2>1. CASE UNCHANGED guardVars
    <3>1. Flagged'
      BY <2>1, SameFlags DEF guardVars, flags
    <3>. QED
      BY <2>1, <3>1 DEF GuardInv, GuardTyped, Probing, Waiting, InTime, Began, guardVars
  <2>. QED
    BY <2>1, PreparingInv, ReadingInv, StoppingInv, OutsideInv DEF GuardNext
<1>. QED
  BY <1>1, GuardInitInv, PTL DEF GuardSpec

(* Whatever the probe does, the guard is done in time, and has reaped the  *)
(* probe that it started unless it raises: for all of its time-outs.       *)
THEOREM TimeoutIsHard == GuardSpec => []HardTimeout
BY GuardInvariance, WithinLimit, PTL

(* A caller that has more patience than the guard takes at the longest     *)
(* always hears from it.                                                   *)
THEOREM PatienceRewarded ==
  ASSUME Patience > ReadyBy + ProbeTime + StopTime
  PROVE  GuardSpec => []WaitedFor
<1>1. GuardInit => WaitedFor
  BY DEF GuardInit, WaitedFor
<1>2. HardTimeout /\ GuardTyped /\ WaitedFor /\ [GuardNext]_guardVars => WaitedFor'
  BY GuardAssumption, Sums
     DEF Expanded, HardTimeout, GuardTyped, WaitedFor, GuardNext, guardVars, Check, StartRuntime, Poll,
         Sleep, Live, Spawn, Read, TimeOut, Drain, Terminate, Await, Kill, Reap, Leave, Reaped,
         Move, Abandon, Pass
<1>. QED
  BY <1>1, <1>2, GuardInvariance, TimeoutIsHard, PTL DEF GuardSpec, GuardInv

-----------------------------------------------------------------------------
(* The episode runner.  Its runs can be replayed, for all seeds, policies, *)
(* budgets and fortresses, and for amounts of ticks that need not be       *)
(* numbers.  What happens to a run is the sequence of the moments it       *)
(* passes through, each determined by the one before and the action taken. *)
(* That two runs pass through the same moments is shown by induction over  *)
(* their steps.                                                            *)

-----------------------------------------------------------------------------
(* The moments of a run.                                                   *)

AtStart == [obs |-> DefaultObservation, killed |-> {}, metrics |-> NoMetrics]

Now == [obs |-> obs, killed |-> killed, metrics |-> metrics]

\* The moment after action a at moment m under seed s, ...
After(s, m, a) ==
  LET tick == m.obs.tick + Amount(a) IN
  [obs |->
     IF a.cmd = "advance" THEN [m.obs EXCEPT !.tick = tick]
     ELSE IF a.cmd = "unpause" THEN [m.obs EXCEPT !.paused = FALSE, !.unpaused = TRUE]
     ELSE IF a.cmd = "pause" THEN [m.obs EXCEPT !.paused = TRUE]
     ELSE m.obs,
   killed |->
     IF a.cmd = "advance" THEN m.killed \cup {c \in Citizens : tick >= DiesAt[s][c]}
     ELSE m.killed,
   metrics |->
     [steps |-> m.metrics.steps + 1, used |-> m.metrics.used + 1,
      finalTick |->
        IF a.cmd # "advance" THEN m.metrics.finalTick
        ELSE Amount(a) + (IF m.metrics.finalTick = None THEN 0 ELSE m.metrics.finalTick)]]

\* ... and what the trace keeps of the action.
Kept(m, a) ==
  [action |-> a,
   result |-> [ok |-> a.cmd \in {"advance", "unpause", "pause", "observe"},
               output |-> IF a.cmd = "observe"
                          THEN [obs |-> m.obs, alive |-> Citizens \ m.killed] ELSE None]]

\* h[0], h[1], ... are the moments of a run under seed s with trace t.
Moments(s, t, h) ==
  /\ h[0] = AtStart
  /\ \A i \in 1..Len(t) : /\ h[i] = After(s, h[i - 1], t[i].action)
                          /\ t[i] = Kept(h[i - 1], t[i].action)

\* The actions the logger has after trace t.
LogOf(t) ==
  [i \in 1..Len(t) |->
     [step |-> i - 1, args |-> t[i].action.args,
      command |-> IF t[i].action.key = "command" THEN t[i].action.cmd ELSE None]]

\* What a run with budget b and trace t that ends at moment m returns.
Returned(b, s, t, m) ==
  LET outcome == IF Len(t) < MaxSteps /\ m.metrics.used >= b THEN "timeout" ELSE "success"
      survivors == Cardinality(Citizens \ m.killed)
      finalTick == IF m.metrics.finalTick = None THEN m.obs.tick ELSE m.metrics.finalTick
  IN [seed |-> s, trace |-> t,
      report |-> [steps |-> m.metrics.steps, used |-> m.metrics.used, outcome |-> outcome,
                  survivors |-> survivors, finalTick |-> finalTick],
      print |-> [seed |-> s, actions |-> LogOf(t), outcome |-> outcome,
                 survivors |-> survivors, finalTick |-> finalTick]]

IsTrace(t) == \E T : t \in Seq(T)

\* The run that is on the stack is made of its moments, and is at the last one.
OnCourse ==
  stage = "running" =>
    /\ IsTrace(trace)
    /\ \E h : Moments(seed, trace, h) /\ Now = h[Len(trace)]
    /\ IsTrace(log.actions) /\ log.actions = LogOf(trace)
    /\ DOMAIN log = {"actions", "ticks"}
    /\ metrics.used \in Nat

\* The runs that returned were, and returned what their last moment gives.
Explained ==
  \A r \in done :
    /\ IsTrace(r.trace)
    /\ \E h : /\ Moments(r.seed, r.trace, h)
              /\ r = Returned(budget, r.seed, r.trace, h[Len(r.trace)])

RunInv == OnCourse /\ Explained

-----------------------------------------------------------------------------
LEMMA Appended ==
  ASSUME NEW t, IsTrace(t), NEW e
  PROVE  /\ IsTrace(Append(t, e)) /\ Len(Append(t, e)) = Len(t) + 1 /\ Len(t) \in Nat
         /\ \A i \in 1..Len(t) : Append(t, e)[i] = t[i]
         /\ Append(t, e)[Len(t) + 1] = e
         /\ \A x : x \in 1..(Len(t) + 1) <=> x \in 1..Len(t) \/ x = Len(t) + 1
         /\ DOMAIN Append(t, e) = 1..(Len(t) + 1)
         /\ Append(t, e) = [i \in 1..(Len(t) + 1) |-> IF i = Len(t) + 1 THEN e ELSE t[i]]
  <1> PICK T : t \in Seq(T)
    BY DEF IsTrace
  <1> DEFINE V == T \cup {e}
  <1>1. t \in Seq(V) /\ e \in V
    OBVIOUS
  <1> HIDE DEF V
  <1>2. Append(t, e) \in Seq(V)
    BY <1>1
  <1>3. /\ Len(Append(t, e)) = Len(t) + 1 /\ Len(t) \in Nat
        /\ \A i \in 1..Len(t) : Append(t, e)[i] = t[i]
        /\ Append(t, e)[Len(t) + 1] = e
        /\ DOMAIN Append(t, e) = 1..(Len(t) + 1)
    BY <1>1, <1>2
  <1>4. \A x : x \in 1..(Len(t) + 1) <=> x \in 1..Len(t) \/ x = Len(t) + 1
    BY <1>3
  <1>5. Append(t, e) = [i \in 1..(Len(t) + 1) |-> IF i = Len(t) + 1 THEN e ELSE t[i]]
    <2> DEFINE s == Append(t, e)
    <2>0. s \in Seq(V) /\ Len(s) = Len(t) + 1
      BY <1>2, <1>3
    <2> HIDE DEF s
    <2>1. s = [i \in 1..(Len(t) + 1) |-> s[i]]
      BY <2>0
    <2>2. \A i \in 1..(Len(t) + 1) : s[i] = IF i = Len(t) + 1 THEN e ELSE t[i]
      BY <1>3, <1>4 DEF s
    <2>3. s = [i \in 1..(Len(t) + 1) |-> IF i = Len(t) + 1 THEN e ELSE t[i]]
      BY <2>1, <2>2
    <2> QED BY <2>3 DEF s
  <1>6. IsTrace(Append(t, e))
    BY <1>2 DEF IsTrace
  <1> QED BY <1>3, <1>4, <1>5, <1>6

LEMMA EmptyTrace ==
  /\ IsTrace(<<>>) /\ Len(<<>>) = 0 /\ LogOf(<<>>) = <<>>
  /\ \A s, h : h[0] = AtStart => Moments(s, <<>>, h)
  <1>1. <<>> \in Seq({}) /\ Len(<<>>) = 0 /\ 1..0 = {}
    OBVIOUS
  <1>2. LogOf(<<>>) = <<>>
    BY <1>1 DEF LogOf
  <1> QED BY <1>1, <1>2 DEF IsTrace, Moments

\* Runs with one seed and the same actions pass through the same moments.
LEMMA SameMoments ==
  ASSUME NEW s, NEW t, NEW u, NEW g, NEW h, Len(t) \in Nat, Len(u) = Len(t),
         \A i \in 1..Len(t) : t[i].action = u[i].action,
         Moments(s, t, g), Moments(s, u, h)
  PROVE  \A i \in 0..Len(t) : g[i] = h[i]
  <1> DEFINE S == {i \in Nat : i <= Len(t) => g[i] = h[i]}
  <1>1. 0 \in S
    BY DEF Moments
  <1>2. ASSUME NEW n \in Nat, n \in S PROVE n + 1 \in S
    <2> SUFFICES ASSUME n + 1 <= Len(t) PROVE g[n + 1] = h[n + 1]
      OBVIOUS
    <2>1. g[n] = h[n] /\ n + 1 \in 1..Len(t) /\ (n + 1) - 1 = n
      BY <1>2
    <2>2. g[n + 1] = After(s, g[n], t[n + 1].action)
      BY <2>1 DEF Moments
    <2>3. h[n + 1] = After(s, h[n], u[n + 1].action)
      BY <2>1 DEF Moments
    <2> QED BY <2>1, <2>2, <2>3
  <1>3. Nat \subseteq S
    <2> HIDE DEF S
    <2> QED BY <1>1, <1>2, SetInduction
  <1> QED BY <1>3

LEMMA ExplainedReplays ==
  ASSUME Explained PROVE Replayable
  <1> SUFFICES ASSUME NEW r \in done, NEW q \in done, r.seed = q.seed, Asked(r) = Asked(q)
               PROVE  r = q
    BY DEF Replayable
  <1>1. IsTrace(r.trace) /\ IsTrace(q.trace)
    BY DEF Explained
  <1>2. PICK g : Moments(r.seed, r.trace, g) /\ r = Returned(budget, r.seed, r.trace, g[Len(r.trace)])
    BY DEF Explained
  <1>3. PICK h : Moments(q.seed, q.trace, h) /\ q = Returned(budget, q.seed, q.trace, h[Len(q.trace)])
    BY DEF Explained
  <1> DEFINE t == r.trace  u == q.trace
  <1>4. /\ Len(t) \in Nat /\ Len(u) \in Nat
        /\ t = [i \in 1..Len(t) |-> t[i]] /\ u = [i \in 1..Len(u) |-> u[i]]
    <2>1. PICK T : t \in Seq(T)
      BY <1>1 DEF IsTrace
    <2>2. PICK U : u \in Seq(U)
      BY <1>1 DEF IsTrace
    <2> HIDE DEF t, u
    <2> QED BY <2>1, <2>2
  <1>5. /\ DOMAIN Asked(r) = 1..Len(t) /\ DOMAIN Asked(q) = 1..Len(u)
        /\ \A i \in 1..Len(t) : Asked(r)[i] = t[i].action
        /\ \A i \in 1..Len(u) : Asked(q)[i] = u[i].action
    BY DEF Asked
  <1>6. Len(u) = Len(t) /\ \A i \in 1..Len(t) : t[i].action = u[i].action
    <2>1. ASSUME NEW m \in Nat, NEW n \in Nat, 1..m = 1..n PROVE m <= n
      <3>1. m = 0 \/ m \in 1..n
        BY <2>1
      <3> QED BY <3>1
    <2>2. ASSUME NEW m \in Nat, NEW n \in Nat, 1..m = 1..n PROVE m = n
      <3>1. m <= n /\ n <= m
        BY <2>1, <2>2
      <3> QED BY <3>1
    <2> HIDE DEF t, u
    <2>3. 1..Len(t) = 1..Len(u)
      BY <1>5
    <2>4. Len(u) = Len(t)
      BY <1>4, <2>2, <2>3
    <2> QED BY <1>5, <2>4
  <1>7. \A i \in 0..Len(t) : g[i] = h[i]
    BY <1>2, <1>3, <1>4, <1>6, SameMoments
  <1>8. t = u
    <2>1. ASSUME NEW i \in 1..Len(t) PROVE t[i] = u[i]
      <3>1. i - 1 \in 0..Len(t)
        BY <1>4
      <3>2. t[i] = Kept(g[i - 1], t[i].action) /\ u[i] = Kept(h[i - 1], u[i].action)
        BY <1>2, <1>3, <1>6 DEF Moments
      <3> QED BY <1>6, <1>7, <3>1, <3>2
    <2> HIDE DEF t, u
    <2> QED BY <1>4, <1>6, <2>1
  <1>9. g[Len(t)] = h[Len(u)]
    BY <1>4, <1>6, <1>7
  <1> QED BY <1>2, <1>3, <1>8, <1>9
-----------------------------------------------------------------------------
(* A step of the loop goes on to the next moment.                          *)

LEMMA StepMoves ==
  ASSUME NEW a, Step(a), IsTrace(trace)
  PROVE  /\ Now' = After(seed, Now, a)
         /\ trace' = Append(trace, Kept(Now, a))
  <1>1. trace' = Append(trace, Kept(Now, a))
    BY DEF Step, Kept, Now, Result, Observation
  <1>2. /\ obs' = After(seed, Now, a).obs
        /\ killed' = After(seed, Now, a).killed
    <2>1. CASE a.cmd = "advance"
      BY <2>1 DEF Step, Perform, After, Now
    <2>2. CASE a.cmd = "unpause"
      BY <2>2 DEF Step, Perform, After, Now
    <2>3. CASE a.cmd = "pause"
      BY <2>3 DEF Step, Perform, After, Now
    <2>4. CASE a.cmd \notin {"advance", "unpause", "pause"}
      BY <2>4 DEF Step, Perform, After, Now
    <2> QED BY <2>1, <2>2, <2>3, <2>4
  <1>3. metrics' = After(seed, Now, a).metrics
    BY DEF Step, FinalTick, After, Now
  <1>4. /\ Now' = [obs |-> obs', killed |-> killed', metrics |-> metrics']
        /\ After(seed, Now, a) = [obs |-> After(seed, Now, a).obs,
                                  killed |-> After(seed, Now, a).killed,
                                  metrics |-> After(seed, Now, a).metrics]
    BY DEF Now, After
  <1> QED BY <1>1, <1>2, <1>3, <1>4

LEMMA MomentsGrow ==
  ASSUME NEW s, NEW t, IsTrace(t), NEW h, Moments(s, t, h), NEW a
  PROVE  \E g : /\ Moments(s, Append(t, Kept(h[Len(t)], a)), g)
                /\ g[Len(t) + 1] = After(s, h[Len(t)], a)
  <1> DEFINE n == Len(t)
             e == Kept(h[n], a)
             u == Append(t, e)
             g == [i \in 0..(n + 1) |-> IF i = n + 1 THEN After(s, h[n], a) ELSE h[i]]
  <1>1. /\ n \in Nat /\ Len(u) = n + 1 /\ u[n + 1] = e
        /\ \A i \in 1..n : u[i] = t[i]
    BY Appended
  <1>2. e.action = a
    BY DEF Kept
  <1>3. g[n + 1] = After(s, h[n], a) /\ \A i \in 0..n : g[i] = h[i]
    <2> HIDE DEF n
    <2> QED BY <1>1
  <1>4. g[0] = AtStart
    <2> HIDE DEF g, n
    <2> QED BY <1>1, <1>3 DEF Moments
  <1>5. ASSUME NEW i \in 1..(n + 1)
        PROVE  g[i] = After(s, g[i - 1], u[i].action) /\ u[i] = Kept(g[i - 1], u[i].action)
    <2>1. CASE i = n + 1
      <3>1. i - 1 = n /\ g[n] = h[n]
        <4> HIDE DEF g
        <4> QED BY <1>1, <1>3, <2>1
      <3> HIDE DEF g, u, n
      <3> QED BY <1>1, <1>2, <1>3, <2>1, <3>1 DEF e
    <2>2. CASE i # n + 1
      <3>1. i \in 1..n /\ i - 1 \in 0..n /\ i \in 0..n
        <4> HIDE DEF n
        <4> QED BY <1>1, <2>2
      <3>2. g[i] = h[i] /\ g[i - 1] = h[i - 1] /\ u[i] = t[i]
        <4> HIDE DEF g, u
        <4> QED BY <1>1, <1>3, <3>1
      <3>3. h[i] = After(s, h[i - 1], t[i].action) /\ t[i] = Kept(h[i - 1], t[i].action)
        BY <3>1 DEF Moments
      <3> HIDE DEF g, u, n
      <3> QED BY <3>2, <3>3
    <2> QED BY <2>1, <2>2
  <1> HIDE DEF g, u, n
  <1>6. Moments(s, u, g)
    BY <1>1, <1>4, <1>5 DEF Moments
  <1> QED BY <1>3, <1>6 DEF u, n

LEMMA LogGrows ==
  ASSUME NEW t, IsTrace(t), IsTrace(LogOf(t)), NEW m, NEW a
  PROVE  /\ IsTrace(LogOf(Append(t, Kept(m, a))))
         /\ LogOf(Append(t, Kept(m, a))) =
              Append(LogOf(t), [step |-> Len(t), args |-> a.args,
                                command |-> IF a.key = "command" THEN a.cmd ELSE None])
  <1> DEFINE n == Len(t)
             u == Append(t, Kept(m, a))
             e == [step |-> n, args |-> a.args,
                   command |-> IF a.key = "command" THEN a.cmd ELSE None]
  <1>1. /\ n \in Nat /\ Len(u) = n + 1 /\ u[n + 1].action = a
        /\ \A i \in 1..n : u[i] = t[i]
        /\ \A x : x \in 1..(n + 1) <=> x \in 1..n \/ x = n + 1
    BY Appended DEF Kept
  <1>2. Len(LogOf(t)) = n
    <2>1. DOMAIN LogOf(t) = 1..n
      BY DEF LogOf
    <2>2. PICK T : LogOf(t) \in Seq(T)
      BY DEF IsTrace
    <2> HIDE DEF n
    <2> QED BY <1>1, <2>1, <2>2
  <1>3. /\ Append(LogOf(t), e) = [i \in 1..(n + 1) |-> IF i = n + 1 THEN e ELSE LogOf(t)[i]]
        /\ IsTrace(Append(LogOf(t), e))
    <2> HIDE DEF e
    <2> QED BY <1>2, Appended
  <1>4. LogOf(u) = [i \in 1..(n + 1) |->
                      [step |-> i - 1, args |-> u[i].action.args,
                       command |-> IF u[i].action.key = "command" THEN u[i].action.cmd ELSE None]]
    BY <1>1 DEF LogOf
  <1>5. ASSUME NEW i \in 1..(n + 1) PROVE LogOf(u)[i] = IF i = n + 1 THEN e ELSE LogOf(t)[i]
    <2>1. CASE i = n + 1
      <3>1. LogOf(u)[i] = [step |-> i - 1, args |-> u[i].action.args,
                           command |-> IF u[i].action.key = "command" THEN u[i].action.cmd ELSE None]
        BY <1>4
      <3>2. i - 1 = n
        BY <1>1, <2>1
      <3> HIDE DEF u
      <3> QED BY <1>1, <2>1, <3>1, <3>2
    <2>2. CASE i # n + 1
      <3>1. i \in 1..n /\ u[i] = t[i]
        BY <1>1, <2>2
      <3>2. LogOf(u)[i] = LogOf(t)[i]
        <4> HIDE DEF u
        <4> QED BY <1>4, <3>1 DEF LogOf
      <3> QED BY <2>2, <3>2
    <2> QED BY <2>1, <2>2
  <1> HIDE DEF u, e, n
  <1>6. LogOf(u) = Append(LogOf(t), e)
    <2>1. LogOf(u) = [i \in 1..(n + 1) |-> LogOf(u)[i]]
      BY <1>4
    <2> QED BY <1>3, <1>5, <2>1
  <1> QED BY <1>3, <1>6 DEF u, e, n

LEMMA StepOnCourse ==
  ASSUME NEW a, OnCourse, Step(a) PROVE OnCourse'
  <1>1. stage = "running" /\ seed' = seed
    BY DEF Step, InLoop
  <1>2. /\ IsTrace(trace) /\ IsTrace(log.actions) /\ log.actions = LogOf(trace)
        /\ DOMAIN log = {"actions", "ticks"}
    BY <1>1 DEF OnCourse
  <1>3. PICK h : Moments(seed, trace, h) /\ Now = h[Len(trace)]
    BY <1>1 DEF OnCourse
  <1>4. Now' = After(seed, Now, a) /\ trace' = Append(trace, Kept(Now, a))
    BY <1>2, StepMoves
  <1>5. IsTrace(trace') /\ Len(trace') = Len(trace) + 1
    BY <1>2, <1>4, Appended
  <1>6. \E g : Moments(seed', trace', g) /\ Now' = g[Len(trace')]
    <2>1. PICK g : /\ Moments(seed, Append(trace, Kept(h[Len(trace)], a)), g)
                   /\ g[Len(trace) + 1] = After(seed, h[Len(trace)], a)
      BY <1>2, <1>3, MomentsGrow
    <2>2. g[Len(trace')] = Now'
      BY <1>3, <1>4, <1>5, <2>1
    <2>3. Moments(seed', trace', g)
      BY <1>1, <1>3, <1>4, <2>1
    <2> QED BY <2>2, <2>3
  <1>7. log'.actions = Append(log.actions, Logged(a)) /\ DOMAIN log' = {"actions", "ticks"}
    BY <1>2 DEF Step, LogTick
  <1>8. IsTrace(log'.actions) /\ log'.actions = LogOf(trace')
    BY <1>2, <1>4, <1>7, LogGrows DEF Logged
  <1>9. metrics'.used \in Nat
    BY <1>1 DEF OnCourse, Step
  <1> QED BY <1>5, <1>6, <1>7, <1>8, <1>9 DEF OnCourse

-----------------------------------------------------------------------------
LEMMA StartOnCourse ==
  ASSUME NEW s, StartRun(s) PROVE OnCourse'
  <1>1. /\ seed' = s /\ trace' = <<>> /\ Now' = AtStart
        /\ log' = [actions |-> <<>>, ticks |-> <<>>]
    BY DEF StartRun, Reset, NewLog, Now, AtStart
  <1>2. /\ Moments(s, <<>>, [i \in {0} |-> AtStart])
        /\ [i \in {0} |-> AtStart][Len(<<>>)] = AtStart
    BY EmptyTrace
  <1>3. \E h : Moments(seed', trace', h) /\ Now' = h[Len(trace')]
    BY <1>1, <1>2
  <1>4. DOMAIN log' = {"actions", "ticks"} /\ log'.actions = <<>> /\ metrics'.used \in Nat
    BY <1>1 DEF StartRun, Reset, NoMetrics
  <1> QED BY <1>1, <1>3, <1>4, EmptyTrace DEF OnCourse

LEMMA ReturnExplained ==
  ASSUME OnCourse, Explained, Stop \/ RunOut \/ Finish, budget \in Nat, UNCHANGED budget
  PROVE  Explained'
  <1>1. stage = "running"
    BY DEF Stop, RunOut, Finish, InLoop
  <1>2. IsTrace(trace) /\ log.actions = LogOf(trace) /\ DOMAIN log = {"actions", "ticks"}
    BY <1>1 DEF OnCourse
  <1>3. PICK h : Moments(seed, trace, h) /\ Now = h[Len(trace)]
    BY <1>1 DEF OnCourse
  <1> DEFINE outcome == IF Len(trace) < MaxSteps /\ metrics.used >= budget THEN "timeout"
                        ELSE "success"
  <1>4. Return(outcome)
    <2>1. metrics.used \in Nat /\ MaxSteps \in Nat
      BY <1>1, EpisodeConstants DEF OnCourse
    <2>2. Len(trace) \in Nat
      BY <1>2 DEF IsTrace
    <2> QED BY <2>1, <2>2 DEF Stop, RunOut, Finish, InLoop
  <1> DEFINE r == [seed |-> seed, trace |-> trace, report |-> RunReport(outcome),
                   print |-> Fingerprint(RunReport(outcome))]
  <1>5. r = Returned(budget, seed, trace, Now)
    <2>1. Now.obs = obs /\ Now.killed = killed /\ Now.metrics = metrics
      BY DEF Now
    <2> HIDE DEF outcome
    <2>2. RunReport(outcome).outcome = outcome
      BY DEF RunReport
    <2>3. r = [seed |-> seed, trace |-> trace, report |-> RunReport(outcome),
               print |-> [seed |-> seed, actions |-> LogOf(trace), outcome |-> outcome,
                          survivors |-> RunReport(outcome).survivors,
                          finalTick |-> RunReport(outcome).finalTick]]
      BY <1>2, <2>2 DEF Fingerprint
    <2>4. outcome = IF Len(trace) < MaxSteps /\ Now.metrics.used >= budget
                    THEN "timeout" ELSE "success"
      BY <2>1 DEF outcome
    <2> QED BY <2>1, <2>3, <2>4 DEF Returned, RunReport
  <1>6. r.seed = seed /\ r.trace = trace
    OBVIOUS
  <1>7. done' = done \cup {r}
    BY <1>4 DEF Return
  <1> HIDE DEF r
  <1>8. IsTrace(r.trace) /\ \E g : /\ Moments(r.seed, r.trace, g)
                                   /\ r = Returned(budget, r.seed, r.trace, g[Len(r.trace)])
    BY <1>2, <1>3, <1>5, <1>6
  <1> QED BY <1>7, <1>8 DEF Explained

\* Whatever is done with the runner, the run on its stack is made of its moments
\* and the runs that returned were.
THEOREM RunInvariance == RunSpec => [](budget \in Nat /\ RunInv)
  <1> DEFINE Inv == budget \in Nat /\ RunInv
  <1>1. RunInit => Inv
    BY EpisodeConstants DEF RunInit, RunInv, OnCourse, Explained
  <1>2. Inv /\ [RunNext]_runVars => Inv'
    <2> SUFFICES ASSUME budget \in Nat, OnCourse, Explained, [RunNext]_runVars
                 PROVE  budget' \in Nat /\ OnCourse' /\ Explained'
      BY DEF RunInv
    <2>1. budget' = budget
      BY DEF RunNext, runVars
    <2>2. ASSUME done' = done PROVE Explained'
      BY <2>1, <2>2 DEF Explained
    <2>3. ASSUME stage' = "idle" PROVE OnCourse'
      BY <2>3 DEF OnCourse
    <2>4. ASSUME UNCHANGED <<seed, obs, killed, metrics, trace, log, stage>> PROVE OnCourse'
      BY <2>4 DEF OnCourse, Now
    <2>5. ASSUME NEW s \in Seeds, StartRun(s) PROVE OnCourse' /\ Explained'
      BY <2>2, <2>5, StartOnCourse DEF StartRun
    <2>6. ASSUME NEW a \in Actions, Step(a) PROVE OnCourse' /\ Explained'
      BY <2>2, <2>6, StepOnCourse DEF Step
    <2>7. ASSUME NEW a \in Actions, Outside(a) PROVE OnCourse' /\ Explained'
      BY <2>2, <2>3, <2>7 DEF Outside
    <2>8. CASE Abort
      BY <2>1, <2>2, <2>3, <2>8 DEF Abort
    <2>9. CASE Stop \/ RunOut \/ Finish
      <3>1. stage' = "idle"
        BY <2>9 DEF Stop, RunOut, Finish, Return
      <3> QED BY <2>1, <2>3, <2>9, <3>1, ReturnExplained
    <2>10. CASE Save
      BY <2>1, <2>2, <2>4, <2>10 DEF Save
    <2>11. CASE Load
      BY <2>1, <2>2, <2>3, <2>11 DEF Load
    <2>12. CASE UNCHANGED runVars
      BY <2>2, <2>4, <2>12 DEF runVars
    <2> QED
      BY <2>1, <2>5, <2>6, <2>7, <2>8, <2>9, <2>10, <2>11, <2>12 DEF RunNext
  <1> QED BY <1>1, <1>2, PTL DEF RunSpec

\* Two runs with the same seed and the same actions return the same trace, report
\* and fingerprint, down to every answer the policy saw, whatever was done with
\* the runner before and between them: calls outside a run, runs that raised,
\* checkpoints saved and loaded (EpisodeRunner.run, EpisodeLogger.fingerprint).
THEOREM RunsReplay == RunSpec => []Replayable
  <1>1. RunInv => Replayable
    BY ExplainedReplays DEF RunInv
  <1> QED BY <1>1, RunInvariance, PTL

-----------------------------------------------------------------------------
(* The probes.  What the sums over a fort are made of: SumFunction takes   *)
(* the indices one at a time, in an order nobody knows.                    *)

\* A sum over nothing is zero, and any other is one value and the sum of the rest.
LEMMA SumUnfolds ==
  ASSUME NEW f, IsFiniteSet(DOMAIN f)
  PROVE  \E sum : /\ SumFunction(f) = sum[DOMAIN f]
                  /\ sum[{}] = 0
                  /\ \A T \in SUBSET DOMAIN f : T # {} =>
                       \E x \in T : sum[T] = f[x] + sum[T \ {x}]
  <1> DEFINE P == SUBSET DOMAIN f
             One(T) == CHOOSE x \in T : TRUE
             Body(g, T) == IF T = {} THEN 0 ELSE f[One(T)] + g[T \ {One(T)}]
             Upto(g, m) == \A T \in P : Cardinality(T) <= m => g[T] = Body(g, T)
             M == {m \in Nat : \E g : g = [T \in P |-> g[T]] /\ Upto(g, m)}
             sum == CHOOSE g : g = [T \in P |-> Body(g, T)]
  <1>1. \A T \in P : IsFiniteSet(T) /\ Cardinality(T) \in Nat
                       /\ Cardinality(T) <= Cardinality(DOMAIN f)
    BY FS_Subset, FS_CardinalityType
  <1>2. \A T \in P : T # {} => /\ One(T) \in T
                               /\ T \ {One(T)} \in P
                               /\ Cardinality(T \ {One(T)}) = Cardinality(T) - 1
    BY <1>1, FS_RemoveElement
  <1>3. 0 \in M
    <2> DEFINE g == [T \in P |-> 0]
    <2>1. \A T \in P : Cardinality(T) <= 0 => T = {}
      BY <1>1, FS_EmptySet
    <2>2. Upto(g, 0)
      BY <2>1
    <2>3. g = [T \in P |-> g[T]]
      OBVIOUS
    <2> HIDE DEF g, Upto
    <2> QED BY <2>2, <2>3
  <1>4. ASSUME NEW m \in Nat, m \in M PROVE m + 1 \in M
    <2>1. PICK g : g = [T \in P |-> g[T]] /\ Upto(g, m)
      BY <1>4
    <2> DEFINE h == [T \in P |-> Body(g, T)]
    <2>2. ASSUME NEW T \in P, Cardinality(T) <= m + 1 PROVE h[T] = Body(h, T)
      <3>1. CASE T = {}
        BY <3>1
      <3>2. CASE T # {}
        <4> DEFINE U == T \ {One(T)}
        <4>1. U \in P /\ Cardinality(U) <= m
          BY <1>1, <1>2, <2>2, <3>2
        <4>2. h[U] = Body(g, U)
          BY <4>1
        <4>3. g[U] = Body(g, U)
          BY <4>1, <2>1
        <4>4. h[T] = f[One(T)] + g[U]
          BY <3>2
        <4>5. Body(h, T) = f[One(T)] + h[U]
          BY <3>2
        <4> HIDE DEF h, Body, U
        <4> QED BY <4>2, <4>3, <4>4, <4>5
      <3> QED BY <3>1, <3>2
    <2>3. h = [T \in P |-> h[T]]
      OBVIOUS
    <2>4. Upto(h, m + 1)
      BY <2>2
    <2> HIDE DEF h, Upto
    <2> QED BY <2>3, <2>4
  <1>5. Nat \subseteq M
    <2> HIDE DEF M
    <2> QED BY <1>3, <1>4, SetInduction
  <1>6. PICK g : g = [T \in P |-> g[T]] /\ Upto(g, Cardinality(DOMAIN f))
    BY <1>5, FS_CardinalityType
  <1>7. g = [T \in P |-> Body(g, T)]
    <2>1. \A T \in P : g[T] = Body(g, T)
      BY <1>1, <1>6
    <2> HIDE DEF Body
    <2> QED BY <1>6, <2>1
  <1>8. sum = [T \in P |-> Body(sum, T)]
    <2> HIDE DEF Body
    <2> QED BY <1>7, Zenon
  <1>9. SumFunction(f) = sum[DOMAIN f]
    BY Zenon DEF SumFunction, SumFunctionOnSet, FoldFunctionOnSet, MapThenFoldSet
  <1>10. \A T \in P : sum[T] = Body(sum, T)
    <2> HIDE DEF Body, sum
    <2> QED BY <1>8
  <1>11. sum[{}] = 0
    <2> HIDE DEF sum
    <2> QED BY <1>10
  <1>12. ASSUME NEW T \in P, T # {} PROVE \E x \in T : sum[T] = f[x] + sum[T \ {x}]
    <2> HIDE DEF sum
    <2> QED BY <1>2, <1>10, <1>12
  <1> HIDE DEF sum
  <1> QED BY <1>9, <1>11, <1>12

\* Two crowds that share nobody.
LEMMA CountsAdd ==
  ASSUME NEW A, NEW B, IsFiniteSet(A), IsFiniteSet(B), A \cap B = {}
  PROVE  /\ IsFiniteSet(A \cup B)
         /\ Cardinality(A \cup B) = Cardinality(A) + Cardinality(B)
  <1>1. Cardinality(A \cap B) = 0
    BY FS_EmptySet
  <1>2. Cardinality(A) \in Nat /\ Cardinality(B) \in Nat
    BY FS_CardinalityType
  <1>3. /\ IsFiniteSet(A \cup B)
        /\ Cardinality(A \cup B) = Cardinality(A) + Cardinality(B) - Cardinality(A \cap B)
    BY FS_Union
  <1> QED BY <1>1, <1>2, <1>3

\* Whoever has one key each is counted once in the sum over the keys.
LEMMA EachCountedOnce ==
  ASSUME NEW S, IsFiniteSet(S), NEW K, IsFiniteSet(K), NEW key \in [S -> K]
  PROVE  SumFunction([k \in K |-> Cardinality({x \in S : key[x] = k})]) = Cardinality(S)
  <1> DEFINE c == [k \in K |-> Cardinality({x \in S : key[x] = k})]
             Of(T) == {x \in S : key[x] \in T}
  <1>1. DOMAIN c = K
    OBVIOUS
  <1>2. PICK sum : /\ SumFunction(c) = sum[K]
                   /\ sum[{}] = 0
                   /\ \A T \in SUBSET K : T # {} =>
                        \E x \in T : sum[T] = c[x] + sum[T \ {x}]
    <2> HIDE DEF c
    <2>1. IsFiniteSet(DOMAIN c)
      BY <1>1
    <2>2. \E sum : /\ SumFunction(c) = sum[DOMAIN c]
                   /\ sum[{}] = 0
                   /\ \A T \in SUBSET DOMAIN c : T # {} =>
                        \E x \in T : sum[T] = c[x] + sum[T \ {x}]
      BY <2>1, SumUnfolds, Zenon
    <2> QED BY <1>1, <2>2
  <1> DEFINE M == {m \in Nat : \A T \in SUBSET K :
                     Cardinality(T) = m => sum[T] = Cardinality(Of(T))}
  <1>3. 0 \in M
    <2> SUFFICES ASSUME NEW T \in SUBSET K, Cardinality(T) = 0
                 PROVE  sum[T] = Cardinality(Of(T))
      OBVIOUS
    <2>1. T = {}
      BY FS_Subset, FS_EmptySet
    <2>2. Of(T) = {}
      BY <2>1
    <2> HIDE DEF Of
    <2> QED BY <1>2, <2>1, <2>2, FS_EmptySet
  <1>4. ASSUME NEW m \in Nat, m \in M PROVE m + 1 \in M
    <2> SUFFICES ASSUME NEW T \in SUBSET K, Cardinality(T) = m + 1
                 PROVE  sum[T] = Cardinality(Of(T))
      OBVIOUS
    <2>1. IsFiniteSet(T)
      BY FS_Subset
    <2>2. T # {}
      BY FS_EmptySet
    <2>3. PICK k \in T : sum[T] = c[k] + sum[T \ {k}]
      BY <1>2, <2>2
    <2> DEFINE A == {x \in S : key[x] = k}
               B == Of(T \ {k})
    <2>4. Cardinality(T \ {k}) = m
      <3>1. Cardinality(T \ {k}) = Cardinality(T) - 1
        BY <2>1, FS_RemoveElement
      <3> QED BY <3>1
    <2>5. sum[T \ {k}] = Cardinality(B)
      BY <1>4, <2>4
    <2>6. Of(T) = A \cup B /\ A \cap B = {}
      OBVIOUS
    <2>7. IsFiniteSet(A) /\ IsFiniteSet(B)
      BY FS_Subset
    <2>8. c[k] = Cardinality(A)
      OBVIOUS
    <2> HIDE DEF A, B, c, Of, M
    <2>9. Cardinality(A \cup B) = Cardinality(A) + Cardinality(B)
      BY <2>6, <2>7, CountsAdd
    <2> QED BY <2>3, <2>5, <2>6, <2>8, <2>9
  <1>5. Nat \subseteq M
    <2> HIDE DEF M
    <2> QED BY <1>3, <1>4, SetInduction
  <1>6. sum[K] = Cardinality(Of(K))
    BY <1>5, FS_CardinalityType
  <1>7. Of(K) = S
    OBVIOUS
  <1>8. SumFunction(c) = Cardinality(S)
    <2> HIDE DEF c, Of
    <2> QED BY <1>2, <1>6, <1>7
  <1> QED BY <1>8

\* What is among the others does not count for more.
LEMMA CountsGrow ==
  ASSUME NEW S, IsFiniteSet(S), NEW T \in SUBSET S
  PROVE  /\ Cardinality(T) \in Nat /\ Cardinality(S) \in Nat
         /\ Cardinality(T) <= Cardinality(S)
  BY FS_Subset, FS_CardinalityType

\* A script that prints one value prints that one.
LEMMA PrintedValue ==
  ASSUME NEW f
  PROVE  Value(Standard(Plain(f))) = f /\ Value(Standard(Boxed(f))) = f
  <1>1. /\ (CHOOSE v \in Plain(f) : TRUE).of = f
        /\ (CHOOSE v \in Boxed(f) : TRUE).of = f
    <2>1. \A x : (CHOOSE v \in {x} : TRUE) = x
      OBVIOUS
    <2>2. Object(f).of = f /\ List(f).of = f
      BY DEF Object, List
    <2> QED BY <2>1, <2>2 DEF Plain, Boxed
  <1> QED BY <1>1 DEF Value, Standard, Probe

\* What the scripts that are compared print of a fort.
LEMMA Printed ==
  ASSUME NEW w
  PROVE  /\ Value(job_queue_probe(w)).total_jobs = Cardinality(w.jobs)
         /\ Value(building_construction_probe(w)).construction_jobs =
              Cardinality({j \in w.jobs : j.type = "ConstructBed"})
         /\ Value(metal_smelting_probe(w)).smelting_jobs =
              Cardinality({j \in w.jobs : j.type = "SmeltOre"})
         /\ Value(job_counts_probe(w)) =
              [k \in Categories |->
                 Cardinality({j \in w.jobs : CategoryIn(JobCountsCategory, j) = k})]
         /\ Value(job_summary_probe(w)).state_counts =
              [k \in States |-> Cardinality({j \in w.jobs : SummaryState(j) = k})]
         /\ Value(job_summary_probe(w)).category_counts =
              [k \in Categories |->
                 Cardinality({j \in w.jobs : CategoryIn(JobSummaryCategory, j) = k})]
  <1>3. \A T : {j \in w.jobs : j.type \in {T}} = {j \in w.jobs : j.type = T}
    OBVIOUS
  <1>4. Value(job_queue_probe(w)).total_jobs = Cardinality(w.jobs)
    BY PrintedValue DEF job_queue_probe
  <1>5. Value(building_construction_probe(w)).construction_jobs =
          Cardinality({j \in w.jobs : j.type = "ConstructBed"})
    BY PrintedValue, <1>3 DEF building_construction_probe, JobCount, Jobs
  <1>6. Value(metal_smelting_probe(w)).smelting_jobs =
          Cardinality({j \in w.jobs : j.type = "SmeltOre"})
    BY PrintedValue, <1>3 DEF metal_smelting_probe, JobCount, Jobs
  <1>7. Value(job_counts_probe(w)) =
          [k \in Categories |->
             Cardinality({j \in w.jobs : CategoryIn(JobCountsCategory, j) = k})]
    BY PrintedValue, Zenon DEF job_counts_probe, Count
  <1>8. Value(job_summary_probe(w)) =
          [state_counts |->
             [k \in States |-> Cardinality({j \in w.jobs : SummaryState(j) = k})],
           category_counts |->
             [k \in Categories |->
                Cardinality({j \in w.jobs : CategoryIn(JobSummaryCategory, j) = k})]]
    BY PrintedValue, Zenon DEF job_summary_probe, Count
  <1> QED BY <1>4, <1>5, <1>6, <1>7, <1>8

\* Each of the five counts of jobs has a finite number of keys, and every job
\* has one of them.
LEMMA JobsHaveKeys ==
  ASSUME NEW w
  PROVE  /\ IsFiniteSet(States) /\ IsFiniteSet(Categories)
         /\ IsFiniteSet(Categories \cup {"military"})
         /\ \A j : /\ job_state(j) \in States /\ SummaryState(j) \in States
                   /\ job_category(j) \in Categories \cup {"military"}
                   /\ CategoryIn(JobCountsCategory, j) \in Categories
                   /\ CategoryIn(JobSummaryCategory, j) \in Categories
  <1>0. /\ \A x : IsFiniteSet({x})
        /\ \A S, x : IsFiniteSet(S) => IsFiniteSet(S \cup {x})
    BY FS_Singleton, FS_AddElement
  <1>1. IsFiniteSet(States)
    <2>1. States = (({"queued"} \cup {"active"}) \cup {"suspended"}) \cup {"cancelled"}
      BY DEF States
    <2> QED BY <1>0, <2>1
  <1>2. IsFiniteSet(Categories)
    <2>1. Categories = ((({"construction"} \cup {"food"}) \cup {"manufacturing"})
                          \cup {"harvesting"}) \cup {"other"}
      BY DEF Categories
    <2> QED BY <1>0, <2>1
  <1>3. IsFiniteSet(Categories \cup {"military"})
    BY <1>2, FS_AddElement
  <1>4. \A j : job_state(j) \in States /\ SummaryState(j) \in States
    BY DEF job_state, SummaryState, States
  <1>5. \A j : job_category(j) \in Categories \cup {"military"}
    BY DEF job_category, Categories
  <1>6. \A j : /\ CategoryIn(JobCountsCategory, j) \in Categories
               /\ CategoryIn(JobSummaryCategory, j) \in Categories
    BY DEF CategoryIn, JobCountsCategory, JobSummaryCategory, Categories
  <1> QED BY <1>1, <1>2, <1>3, <1>4, <1>5, <1>6

\* Every job is counted once in each of the five.
LEMMA JobsCountedOnce ==
  ASSUME NEW w, IsFiniteSet(w.jobs)
  PROVE  \A c \in {Value(job_counts_probe(w)), Value(job_summary_probe(w)).state_counts,
                   Value(job_summary_probe(w)).category_counts,
                   count_jobs_by_state(w), count_jobs_by_category(w)} :
           SumFunction(c) = Cardinality(w.jobs)
  <1> DEFINE Each(K, key) == [k \in K |-> Cardinality({j \in w.jobs : key[j] = k})]
             counted == [j \in w.jobs |-> CategoryIn(JobCountsCategory, j)]
             stated == [j \in w.jobs |-> SummaryState(j)]
             summarised == [j \in w.jobs |-> CategoryIn(JobSummaryCategory, j)]
             state == [j \in w.jobs |-> job_state(j)]
             category == [j \in w.jobs |-> job_category(j)]
  <1>1. /\ counted \in [w.jobs -> Categories] /\ stated \in [w.jobs -> States]
        /\ summarised \in [w.jobs -> Categories] /\ state \in [w.jobs -> States]
        /\ category \in [w.jobs -> Categories \cup {"military"}]
    BY JobsHaveKeys
  <1>2. /\ \A k : {j \in w.jobs : counted[j] = k}
                    = {j \in w.jobs : CategoryIn(JobCountsCategory, j) = k}
        /\ \A k : {j \in w.jobs : stated[j] = k} = {j \in w.jobs : SummaryState(j) = k}
        /\ \A k : {j \in w.jobs : summarised[j] = k}
                    = {j \in w.jobs : CategoryIn(JobSummaryCategory, j) = k}
        /\ \A k : {j \in w.jobs : state[j] = k} = {j \in w.jobs : job_state(j) = k}
        /\ \A k : {j \in w.jobs : category[j] = k} = {j \in w.jobs : job_category(j) = k}
    OBVIOUS
  <1>3. /\ Value(job_counts_probe(w)) = Each(Categories, counted)
        /\ Value(job_summary_probe(w)).state_counts = Each(States, stated)
        /\ Value(job_summary_probe(w)).category_counts = Each(Categories, summarised)
        /\ count_jobs_by_state(w) = Each(States, state)
        /\ count_jobs_by_category(w) = Each(Categories \cup {"military"}, category)
    <2> HIDE DEF counted, stated, summarised, state, category
    <2>1. Value(job_counts_probe(w)) = [k \in Categories |->
            Cardinality({j \in w.jobs : CategoryIn(JobCountsCategory, j) = k})]
      BY Printed, Zenon
    <2>2. Value(job_summary_probe(w)).state_counts = [k \in States |->
            Cardinality({j \in w.jobs : SummaryState(j) = k})]
      BY Printed, Zenon
    <2>3. Value(job_summary_probe(w)).category_counts = [k \in Categories |->
            Cardinality({j \in w.jobs : CategoryIn(JobSummaryCategory, j) = k})]
      BY Printed, Zenon
    <2>4. Value(job_counts_probe(w)) = Each(Categories, counted)
      BY <1>2, <2>1
    <2>5. Value(job_summary_probe(w)).state_counts = Each(States, stated)
      BY <1>2, <2>2
    <2>6. Value(job_summary_probe(w)).category_counts = Each(Categories, summarised)
      BY <1>2, <2>3
    <2>7. count_jobs_by_state(w) = Each(States, state)
      BY <1>2 DEF count_jobs_by_state, Count
    <2>8. count_jobs_by_category(w) = Each(Categories \cup {"military"}, category)
      BY <1>2 DEF count_jobs_by_category, Count
    <2> QED BY <2>4, <2>5, <2>6, <2>7, <2>8
  <1>4. \A K : IsFiniteSet(K) =>
          \A key \in [w.jobs -> K] : SumFunction(Each(K, key)) = Cardinality(w.jobs)
    BY EachCountedOnce
  <1> HIDE DEF Each, counted, stated, summarised, state, category
  <1> QED BY <1>1, <1>3, <1>4, JobsHaveKeys

\* One of the classifications names a state or a category whenever another does.
LEMMA NarrowInWide ==
  ASSUME NEW j
  PROVE  /\ \A c \in Categories \ {"other"} :
              /\ CategoryIn(JobCountsCategory, j) = c => CategoryIn(JobSummaryCategory, j) = c
              /\ CategoryIn(JobSummaryCategory, j) = c => job_category(j) = c
         /\ j.type = "ConstructBed" => CategoryIn(JobCountsCategory, j) = "construction"
         /\ j.type = "SmeltOre" => CategoryIn(JobSummaryCategory, j) = "manufacturing"
  <1>2. CategoryIn(JobCountsCategory, j) # "other" =>
          CategoryIn(JobCountsCategory, j) = CategoryIn(JobSummaryCategory, j)
    BY DEF CategoryIn, JobCountsCategory, JobSummaryCategory
  <1>3. CategoryIn(JobSummaryCategory, j) # "other" =>
          CategoryIn(JobSummaryCategory, j) = job_category(j)
    <2>1. CASE j.type \in {"ConstructBed", "ConstructChest"}
      BY <2>1 DEF CategoryIn, JobSummaryCategory, job_category
    <2>2. CASE j.type \in {"PrepareMeal", "ButcherAnimal"}
      BY <2>2 DEF CategoryIn, JobSummaryCategory, job_category
    <2>3. CASE j.type \in {"CollectSand", "HarvestFruits"}
      BY <2>3 DEF CategoryIn, JobSummaryCategory, job_category
    <2>4. CASE j.type \in {"MakeBarrel", "SmeltOre", "CutGems"}
      BY <2>4 DEF CategoryIn, JobSummaryCategory, job_category
    <2>5. CASE j.type \notin DOMAIN JobSummaryCategory
      BY <2>5 DEF CategoryIn
    <2> QED BY <2>1, <2>2, <2>3, <2>4, <2>5 DEF JobSummaryCategory
  <1>4. j.type = "ConstructBed" => CategoryIn(JobCountsCategory, j) = "construction"
    BY DEF CategoryIn, JobCountsCategory
  <1>5. j.type = "SmeltOre" => CategoryIn(JobSummaryCategory, j) = "manufacturing"
    BY DEF CategoryIn, JobSummaryCategory
  <1> QED BY <1>2, <1>3, <1>4, <1>5

\* Two crowds whose members differ only in a third are no further apart than that.
LEMMA CountsApart ==
  ASSUME NEW A, NEW B, NEW U, IsFiniteSet(A), IsFiniteSet(B), IsFiniteSet(U), A \subseteq B \cup U
  PROVE  Cardinality(A) <= Cardinality(B) + Cardinality(U)
  <1>1. B \cup U = B \cup (U \ B) /\ B \cap (U \ B) = {}
    OBVIOUS
  <1>2. IsFiniteSet(U \ B) /\ Cardinality(U \ B) <= Cardinality(U)
    <2>1. U \ B \in SUBSET U
      OBVIOUS
    <2> QED BY <2>1, FS_Subset, CountsGrow
  <1>3. IsFiniteSet(B \cup U) /\ Cardinality(B \cup U) = Cardinality(B) + Cardinality(U \ B)
    BY <1>1, <1>2, CountsAdd
  <1>4. Cardinality(A) <= Cardinality(B \cup U)
    BY <1>3, CountsGrow
  <1>5. /\ Cardinality(A) \in Nat /\ Cardinality(B) \in Nat /\ Cardinality(U) \in Nat
        /\ Cardinality(U \ B) \in Nat
    BY <1>2, FS_CardinalityType
  <1> QED BY <1>2, <1>3, <1>4, <1>5

\* A job whose fields and flags say the same has one state, if that is one of the two.
LEMMA LikeStates ==
  ASSUME NEW j, j.cancelled = ("cancelled" \in j.flags), j.suspended = ("suspend" \in j.flags)
  PROVE  \A s \in {"cancelled", "suspended"} : SummaryState(j) = s <=> job_state(j) = s
  <1>1. CASE "cancelled" \in j.flags
    BY <1>1 DEF SummaryState, job_state
  <1>2. CASE "cancelled" \notin j.flags /\ "suspend" \in j.flags
    BY <1>2 DEF SummaryState, job_state
  <1>3. CASE "cancelled" \notin j.flags /\ "suspend" \notin j.flags
    BY <1>3 DEF SummaryState, job_state
  <1> QED BY <1>1, <1>2, <1>3

\* The three classifications of jobs agree, in every fort.
LEMMA JobsDoAgree == ASSUME IsFiniteSet(world.jobs) PROVE JobsAgree
  <1> DEFINE Jobs1(c) == {j \in world.jobs : CategoryIn(JobCountsCategory, j) = c}
             Jobs2(c) == {j \in world.jobs : CategoryIn(JobSummaryCategory, j) = c}
             Jobs3(c) == {j \in world.jobs : job_category(j) = c}
             Of(type) == {j \in world.jobs : j.type = type}
             counts == Value(job_counts_probe(world))
             summary == Value(job_summary_probe(world))
  <1>1. Value(job_queue_probe(world)).total_jobs = Cardinality(world.jobs)
    BY Printed
  <1>2. \A c \in {counts, summary.state_counts, summary.category_counts,
                  count_jobs_by_state(world), count_jobs_by_category(world)} :
          SumFunction(c) = Value(job_queue_probe(world)).total_jobs
    BY <1>1, JobsCountedOnce
  <1>3. \A s \in {"cancelled", "suspended"} :
          /\ summary.state_counts[s] <= count_jobs_by_state(world)[s] + Cardinality(Unlike(world))
          /\ count_jobs_by_state(world)[s] <= summary.state_counts[s] + Cardinality(Unlike(world))
    <2> SUFFICES ASSUME NEW s \in {"cancelled", "suspended"}
                 PROVE  /\ summary.state_counts[s]
                             <= count_jobs_by_state(world)[s] + Cardinality(Unlike(world))
                        /\ count_jobs_by_state(world)[s]
                             <= summary.state_counts[s] + Cardinality(Unlike(world))
      OBVIOUS
    <2> DEFINE A == {j \in world.jobs : SummaryState(j) = s}
               B == {j \in world.jobs : job_state(j) = s}
               U == Unlike(world)
    <2>1. A \subseteq B \cup U /\ B \subseteq A \cup U
      <3>1. \A j \in world.jobs \ U : SummaryState(j) = s <=> job_state(j) = s
        BY LikeStates, Zenon DEF Unlike
      <3> QED BY <3>1
    <2>6. IsFiniteSet(A) /\ IsFiniteSet(B) /\ IsFiniteSet(U)
      BY FS_Subset DEF Unlike
    <2>2. s \in States
      BY DEF States
    <2>3. summary.state_counts =
            [k \in States |-> Cardinality({j \in world.jobs : SummaryState(j) = k})]
      BY Printed, Zenon
    <2>4. summary.state_counts[s] = Cardinality({j \in world.jobs : SummaryState(j) = s})
      BY <2>2, <2>3
    <2>5. count_jobs_by_state(world)[s] = Cardinality({j \in world.jobs : job_state(j) = s})
      BY <2>2 DEF count_jobs_by_state, Count
    <2>7. /\ Cardinality(A) <= Cardinality(B) + Cardinality(U)
          /\ Cardinality(B) <= Cardinality(A) + Cardinality(U)
      <3> HIDE DEF A, B, U
      <3> QED BY <2>1, <2>6, CountsApart
    <2> QED BY <2>4, <2>5, <2>7, Zenon
  <1>4. \A c \in Categories : /\ counts[c] = Cardinality(Jobs1(c))
                              /\ summary.category_counts[c] = Cardinality(Jobs2(c))
                              /\ count_jobs_by_category(world)[c] = Cardinality(Jobs3(c))
    <2>1. counts = [k \in Categories |-> Cardinality(Jobs1(k))]
      BY Printed, Zenon
    <2>2. summary.category_counts = [k \in Categories |-> Cardinality(Jobs2(k))]
      BY Printed, Zenon
    <2>3. count_jobs_by_category(world) =
            [k \in Categories \cup {"military"} |-> Cardinality(Jobs3(k))]
      BY DEF count_jobs_by_category, Count
    <2> HIDE DEF Jobs1, Jobs2, Jobs3, counts, summary
    <2> QED BY <2>1, <2>2, <2>3
  <1>5. ASSUME NEW c \in Categories \ {"other"}
        PROVE  /\ counts[c] <= summary.category_counts[c]
               /\ summary.category_counts[c] <= count_jobs_by_category(world)[c]
    <2>1. Jobs1(c) \subseteq Jobs2(c) /\ Jobs2(c) \subseteq Jobs3(c)
      BY NarrowInWide
    <2>2. IsFiniteSet(Jobs2(c)) /\ IsFiniteSet(Jobs3(c))
      BY FS_Subset
    <2> HIDE DEF Jobs1, Jobs2, Jobs3
    <2> QED BY <1>4, <2>1, <2>2, CountsGrow
  <1>6. /\ Cardinality(Of("ConstructBed")) <= counts["construction"]
        /\ Cardinality(Of("SmeltOre")) <= summary.category_counts["manufacturing"]
    <2>1. Of("ConstructBed") \subseteq Jobs1("construction")
          /\ Of("SmeltOre") \subseteq Jobs2("manufacturing")
      BY NarrowInWide
    <2>2. IsFiniteSet(Jobs1("construction")) /\ IsFiniteSet(Jobs2("manufacturing"))
      BY FS_Subset
    <2>3. "construction" \in Categories /\ "manufacturing" \in Categories
      BY DEF Categories
    <2> HIDE DEF Jobs1, Jobs2, Jobs3, Of
    <2> QED BY <1>4, <2>1, <2>2, <2>3, CountsGrow
  <1>7. /\ Value(building_construction_probe(world)).construction_jobs <= counts["construction"]
        /\ Value(metal_smelting_probe(world)).smelting_jobs
             <= summary.category_counts["manufacturing"]
    BY <1>6, Printed
  <1> HIDE DEF counts, summary
  <1> QED BY <1>2, <1>3, <1>5, <1>7 DEF JobsAgree, counts, summary

\* A finite crowd has finitely many keys, and its members are counted once by them.
LEMMA TalliedOnce ==
  ASSUME NEW S, IsFiniteSet(S), NEW key, DOMAIN key = S
  PROVE  SumFunction([k \in {key[x] : x \in S} |-> Cardinality({x \in S : key[x] = k})])
           = Cardinality(S)
  <1> DEFINE K == {key[x] : x \in S}
             onto == [x \in S |-> key[x]]
  <1>1. onto \in [S -> K] /\ \A k \in K : \E x \in S : onto[x] = k
    OBVIOUS
  <1>2. \A x \in S : onto[x] = key[x]
    OBVIOUS
  <1>3. IsFiniteSet(K)
    <2> HIDE DEF onto, K
    <2>1. onto \in Surjection(S, K)
      BY <1>1 DEF Surjection
    <2> QED BY <2>1, FS_Surjection
  <1>4. SumFunction([k \in K |-> Cardinality({x \in S : onto[x] = k})]) = Cardinality(S)
    <2> HIDE DEF onto, K
    <2> QED BY <1>1, <1>3, EachCountedOnce
  <1>5. \A k : {x \in S : onto[x] = k} = {x \in S : key[x] = k}
    BY <1>2
  <1>6. [k \in K |-> Cardinality({x \in S : onto[x] = k})]
          = [k \in K |-> Cardinality({x \in S : key[x] = k})]
    <2> HIDE DEF onto, K
    <2> QED BY <1>5
  <1> QED BY <1>4, <1>6

\* The population is tallied by civilisations, and the answer may be a list only
\* where it is empty.
LEMMA PopulationPrinted ==
  ASSUME NEW w
  PROVE  Value(unit_population_probe(w)) =
           [c \in {u.civ : u \in w.units} |-> Cardinality({u \in w.units : u.civ = c})]
  <1>1. ASSUME NEW f PROVE (CHOOSE v \in Table(f) : TRUE).of = f
    <2>1. (CHOOSE v \in Table(f) : TRUE) \in Table(f)
      BY DEF Table
    <2>2. \A v \in Table(f) : v.of = f
      BY DEF Table, Object, List
    <2> QED BY <2>1, <2>2
  <1> QED BY <1>1, Zenon DEF Value, unit_population_probe, Probe, Tally

\* A civilisation's population is its living and its dead.
LEMMA PopulationAgrees ==
  ASSUME IsFiniteSet(world.units)
  PROVE  \A c \in DOMAIN units_by_civ_id(world) :
           Value(unit_population_probe(world))[c] =
             Cardinality(units_by_civ_id(world)[c] \cap alive_units(world))
               + Cardinality(units_by_civ_id(world)[c] \cap dead_units(world))
  <1> TAKE c \in DOMAIN units_by_civ_id(world)
  <1> DEFINE G == units_by_civ_id(world)[c]
             A == G \cap alive_units(world)
             D == G \cap dead_units(world)
  <1>1. c \in {u.civ : u \in world.units} /\ G = {u \in world.units : u.civ = c}
    BY DEF units_by_civ_id
  <1>2. Value(unit_population_probe(world)) =
          [k \in {u.civ : u \in world.units} |-> Cardinality({u \in world.units : u.civ = k})]
    BY PopulationPrinted, Zenon
  <1>3. Value(unit_population_probe(world))[c] = Cardinality(G)
    BY <1>1, <1>2
  <1>4. G = A \cup D /\ A \cap D = {}
    BY <1>1 DEF alive_units, dead_units
  <1>5. IsFiniteSet(A) /\ IsFiniteSet(D)
    BY FS_Subset DEF alive_units, dead_units
  <1>6. Cardinality(G) = Cardinality(A) + Cardinality(D)
    <2> HIDE DEF A, D, G
    <2> QED BY <1>4, <1>5, CountsAdd, Zenon
  <1> QED BY <1>3, <1>6, Zenon

\* The sums over the parts of S, each of which may take any of its values first.
SumsOf(f, S, sum) ==
  /\ SumFunction(f) = sum[S] /\ sum[{}] = 0
  /\ \A T \in SUBSET S : sum[T] \in Nat /\ \A k \in T : sum[T] = f[k] + sum[T \ {k}]

\* A sum of naturals is one, and may take any of its values first.
LEMMA SumTakesAny ==
  ASSUME NEW S, NEW f, IsFiniteSet(S), f \in [S -> Nat]
  PROVE  \E sum : SumsOf(f, S, sum)
  <1>0. PICK sum : /\ SumFunction(f) = sum[S] /\ sum[{}] = 0
                   /\ \A T \in SUBSET S : T # {} => \E x \in T : sum[T] = f[x] + sum[T \ {x}]
    <2>1. DOMAIN f = S
      OBVIOUS
    <2>2. \E sum : /\ SumFunction(f) = sum[DOMAIN f]
                   /\ sum[{}] = 0
                   /\ \A T \in SUBSET DOMAIN f : T # {} =>
                        \E x \in T : sum[T] = f[x] + sum[T \ {x}]
      BY <2>1, SumUnfolds, Zenon
    <2> QED BY <2>1, <2>2
  <1> DEFINE Good(T) == sum[T] \in Nat /\ \A k \in T : sum[T] = f[k] + sum[T \ {k}]
             M == {m \in Nat : \A T \in SUBSET S : Cardinality(T) <= m => Good(T)}
  <1>1. \A T \in SUBSET S : IsFiniteSet(T) /\ Cardinality(T) \in Nat
    BY FS_Subset, FS_CardinalityType
  <1>2. 0 \in M
    <2>1. \A T \in SUBSET S : Cardinality(T) <= 0 => T = {}
      BY <1>1, FS_EmptySet
    <2>2. sum[{}] \in Nat /\ \A k \in {} : sum[{}] = f[k] + sum[{} \ {k}]
      BY <1>0
    <2>3. Good({})
      BY <2>2
    <2> HIDE DEF Good
    <2> QED BY <2>1, <2>3
  <1>3. ASSUME NEW m \in Nat, m \in M PROVE m + 1 \in M
    <2> SUFFICES ASSUME NEW T \in SUBSET S, Cardinality(T) <= m + 1, T # {} PROVE Good(T)
      <3>1. Good({})
        BY <1>0
      <3>2. \A T \in SUBSET S : T # {} /\ Cardinality(T) <= m + 1 => Good(T)
        OBVIOUS
      <3> HIDE DEF Good
      <3>3. \A T \in SUBSET S : Cardinality(T) <= m + 1 => Good(T)
        BY <3>1, <3>2
      <3> QED BY <3>3
    <2>1. \A x \in T : T \ {x} \in SUBSET S /\ Cardinality(T \ {x}) <= m
      BY <1>1, FS_RemoveElement
    <2>2. \A x \in T : Good(T \ {x})
      <3> HIDE DEF Good
      <3> QED BY <1>3, <2>1
    <2>3. PICK x \in T : sum[T] = f[x] + sum[T \ {x}]
      BY <1>0
    <2>4. sum[T] \in Nat
      <3>1. f[x] \in Nat
        OBVIOUS
      <3>2. sum[T \ {x}] \in Nat
        BY <2>2
      <3> QED BY <2>3, <3>1, <3>2
    <2>5. ASSUME NEW k \in T, k # x PROVE sum[T] = f[k] + sum[T \ {k}]
      <3>1. sum[T \ {x}] = f[k] + sum[(T \ {x}) \ {k}]
        BY <2>2, <2>5
      <3>2. sum[T \ {k}] = f[x] + sum[(T \ {k}) \ {x}]
        BY <2>2, <2>5
      <3>3. (T \ {x}) \ {k} = (T \ {k}) \ {x}
        OBVIOUS
      <3>4. sum[(T \ {x}) \ {k}] \in Nat
        <4>1. (T \ {x}) \ {k} \in SUBSET S /\ (T \ {x}) \ {k} \in SUBSET (T \ {x})
          OBVIOUS
        <4>2. Cardinality((T \ {x}) \ {k}) <= Cardinality(T \ {x})
          BY <1>1, <2>1, <4>1, CountsGrow
        <4>3. Cardinality((T \ {x}) \ {k}) <= m
          BY <1>1, <2>1, <4>1, <4>2
        <4>4. Good((T \ {x}) \ {k})
          <5> HIDE DEF Good
          <5> QED BY <1>3, <4>1, <4>3
        <4> QED BY <4>4
      <3>5. f[k] \in Nat /\ f[x] \in Nat
        OBVIOUS
      <3> DEFINE rest == sum[(T \ {x}) \ {k}]
      <3>6. sum[T] = f[x] + (f[k] + rest) /\ sum[T \ {k}] = f[x] + rest
        BY <2>3, <3>1, <3>2, <3>3
      <3> HIDE DEF rest
      <3>7. f[x] + (f[k] + rest) = f[k] + (f[x] + rest)
        BY <3>4, <3>5 DEF rest
      <3> QED BY <3>6, <3>7
    <2> QED BY <2>3, <2>4, <2>5
  <1>4. Nat \subseteq M
    <2> HIDE DEF M
    <2> QED BY <1>2, <1>3, SetInduction
  <1>5. \A T \in SUBSET S : Good(T)
    <2> HIDE DEF Good
    <2> QED BY <1>1, <1>4
  <1> QED BY <1>0, <1>5 DEF SumsOf

\* A part of a sum of naturals is not above the whole.
LEMMA PartsSumToLess ==
  ASSUME NEW S, IsFiniteSet(S), NEW f \in [S -> Nat], NEW P \in SUBSET S
  PROVE  SumFunction([x \in P |-> f[x]]) <= SumFunction(f)
  <1> DEFINE g == [x \in P |-> f[x]]
  <1>1. g \in [P -> Nat] /\ DOMAIN g = P /\ DOMAIN f = S /\ \A x \in P : g[x] = f[x]
    OBVIOUS
  <1>2. IsFiniteSet(P)
    BY FS_Subset
  <1> HIDE DEF g
  <1>3. PICK sum : /\ SumFunction(f) = sum[S] /\ sum[{}] = 0
                   /\ \A T \in SUBSET S :
                        sum[T] \in Nat /\ \A k \in T : sum[T] = f[k] + sum[T \ {k}]
    <2>1. \E sum : SumsOf(f, S, sum)
      BY SumTakesAny, Zenon
    <2> QED BY <2>1, Zenon DEF SumsOf
  <1>4. PICK part : /\ SumFunction(g) = part[P] /\ part[{}] = 0
                    /\ \A T \in SUBSET P :
                         part[T] \in Nat /\ \A k \in T : part[T] = g[k] + part[T \ {k}]
    <2>1. \E part : SumsOf(g, P, part)
      BY <1>1, <1>2, SumTakesAny, Zenon
    <2> QED BY <2>1, Zenon DEF SumsOf
  <1> DEFINE M == {m \in Nat : \A T \in SUBSET S :
                     Cardinality(T) <= m => part[T \cap P] <= sum[T]}
  <1>7. \A T \in SUBSET S : IsFiniteSet(T) /\ Cardinality(T) \in Nat
    BY FS_Subset, FS_CardinalityType
  <1>8. 0 \in M
    <2>1. \A T \in SUBSET S : Cardinality(T) <= 0 => T = {} /\ T \cap P = {}
      BY <1>7, FS_EmptySet
    <2>2. part[{}] <= sum[{}]
      BY <1>3, <1>4
    <2>3. \A T \in SUBSET S : Cardinality(T) <= 0 => part[T \cap P] <= sum[T]
      BY <2>1, <2>2
    <2> QED BY <2>3
  <1>9. ASSUME NEW m \in Nat, m \in M PROVE m + 1 \in M
    <2> SUFFICES ASSUME NEW T \in SUBSET S, Cardinality(T) <= m + 1, T # {}
                 PROVE  part[T \cap P] <= sum[T]
      <3>1. part[{} \cap P] <= sum[{}]
        BY <1>3, <1>4, {} \cap P = {}
      <3> DEFINE Less(T) == part[T \cap P] <= sum[T]
      <3>2. Less({})
        BY <3>1
      <3>3. \A T \in SUBSET S : T # {} /\ Cardinality(T) <= m + 1 => Less(T)
        OBVIOUS
      <3>4. m + 1 \in {k \in Nat : \A T \in SUBSET S : Cardinality(T) <= k => Less(T)}
        <4> HIDE DEF Less
        <4> QED BY <3>2, <3>3
      <3> QED BY <3>4
    <2>1. PICK x \in T : TRUE
      OBVIOUS
    <2> DEFINE U == T \ {x}
    <2>2. U \in SUBSET S /\ Cardinality(U) <= m
      BY <1>7, FS_RemoveElement
    <2>3. part[U \cap P] <= sum[U] /\ sum[U] \in Nat /\ part[U \cap P] \in Nat
      <3>1. U \cap P \in SUBSET P
        OBVIOUS
      <3> HIDE DEF U
      <3> QED BY <1>3, <1>4, <1>9, <2>2, <3>1
    <2>4. sum[T] = f[x] + sum[U] /\ f[x] \in Nat
      BY <1>3
    <2>5. CASE x \in P
      <3>1. (T \cap P) \ {x} = U \cap P /\ T \cap P \in SUBSET P /\ x \in T \cap P
        BY <2>5
      <3>2. part[T \cap P] = f[x] + part[U \cap P]
        BY <1>1, <1>4, <2>5, <3>1
      <3> HIDE DEF U
      <3> QED BY <2>3, <2>4, <3>2
    <2>6. CASE x \notin P
      <3>1. T \cap P = U \cap P
        BY <2>6
      <3> HIDE DEF U
      <3>2. sum[T] = f[x] + sum[U] /\ part[U \cap P] <= sum[U]
        BY <2>3, <2>4
      <3>3. part[U \cap P] <= sum[T]
        BY <2>3, <2>4, <3>2
      <3> QED BY <3>1, <3>3
    <2> QED BY <2>5, <2>6
  <1>10. Nat \subseteq M
    <2> HIDE DEF M
    <2> QED BY <1>8, <1>9, SetInduction
  <1>11. S \cap P = P
    OBVIOUS
  <1>12. part[S \cap P] <= sum[S]
    BY <1>7, <1>10
  <1> QED BY <1>3, <1>4, <1>11, <1>12 DEF g

\* As many items are listed as there are places, or all of them.
LEMMA ListedItems ==
  ASSUME IsFiniteSet(world.items), {i.idx : i \in world.items} = 1..Cardinality(world.items),
         \A i, j \in world.items : i.idx = j.idx => i = j
  PROVE  LET all == Cardinality(world.items)
         IN  /\ all \in Nat
             /\ Cardinality(item_list(world)) = IF all <= MaxListed THEN all ELSE MaxListed
             /\ all <= MaxListed => item_list(world) = world.items
  <1> DEFINE all == Cardinality(world.items)
             L == item_list(world)
             n == IF all <= MaxListed THEN all ELSE MaxListed
             place == [i \in L |-> i.idx]
  <1>1. all \in Nat /\ MaxListed \in Nat
    BY FS_CardinalityType, MaxListedAssumption
  <1>2. \A i \in world.items : i.idx \in 1..all
    OBVIOUS
  <1>3. L = {i \in world.items : i.idx <= MaxListed}
    BY DEF item_list
  <1>4. all <= MaxListed => L = world.items
    <2> HIDE DEF all, L
    <2> QED BY <1>1, <1>2, <1>3
  <1>5. \A i \in L : i.idx \in 1..n
    <2> HIDE DEF all, L
    <2> QED BY <1>1, <1>2, <1>3
  <1>6. \A k \in 1..n : \E i \in L : i.idx = k
    <2> SUFFICES ASSUME NEW k \in 1..n PROVE \E i \in L : i.idx = k
      OBVIOUS
    <2>1. k \in 1..all /\ k <= MaxListed
      <3> HIDE DEF all
      <3> QED BY <1>1
    <2>2. PICK i \in world.items : i.idx = k
      BY <2>1
    <2> QED BY <1>3, <2>1, <2>2
  <1>7. place \in Bijection(L, 1..n)
    <2>1. \A i, j \in L : i.idx = j.idx => i = j
      BY <1>3
    <2> HIDE DEF L, n
    <2> QED BY <1>5, <1>6, <2>1 DEF Bijection, Injection, Surjection, IsInjective
  <1>8. IsFiniteSet(L)
    BY FS_Subset DEF item_list
  <1>9. Cardinality(L) = Cardinality(1..n)
    <2> HIDE DEF L, n, place
    <2>1. ExistsBijection(L, 1..n)
      BY <1>7 DEF ExistsBijection
    <2> QED BY <1>8, <2>1, FS_Bijection
  <1>10. n \in Nat
    <2> HIDE DEF all
    <2> QED BY <1>1
  <1>11. Cardinality(1..n) = n
    <2> HIDE DEF n
    <2>1. 1 \in Int /\ n \in Int /\ 1 <= n + 1 /\ n - 1 + 1 = n
      BY <1>10
    <2>2. Cardinality(1..n) = IF 1 > n THEN 0 ELSE n - 1 + 1
      BY <2>1, FS_Interval, Zenon
    <2> QED BY <1>10, <2>1, <2>2
  <1>12. Cardinality(item_list(world)) = n
    BY <1>9, <1>11
  <1>13. all <= MaxListed => item_list(world) = world.items
    BY <1>4
  <1> HIDE DEF L
  <1> QED BY <1>1, <1>12, <1>13

\* Every listed item is in one category, and their value is no more than that of all
\* items.
LEMMA ItemsAgree ==
  ASSUME IsFiniteSet(world.items), {i.idx : i \in world.items} = 1..Cardinality(world.items),
         \A i \in world.items : i.value \in Nat,
         \A i, j \in world.items : i.idx = j.idx => i = j
  PROVE  ItemsListed
  <1> DEFINE L == item_list(world)
             key == [i \in L |-> item_category(i)]
             value == [i \in world.items |-> ValueOf(i)]
  <1>1. count_items_by_category(world) =
          [k \in {key[i] : i \in L} |-> Cardinality({i \in L : key[i] = k})]
    <2>1. {key[i] : i \in L} = {item_category(i) : i \in L}
      OBVIOUS
    <2>2. \A k : {i \in L : key[i] = k} = {i \in L : item_category(i) = k}
      OBVIOUS
    <2> HIDE DEF key
    <2> QED BY <2>1, <2>2 DEF count_items_by_category, Tally
  <1>2. DOMAIN key = L /\ L \in SUBSET world.items
    BY DEF item_list
  <1>3. SumFunction(count_items_by_category(world)) = Cardinality(L)
    <2>1. IsFiniteSet(L)
      BY <1>2, FS_Subset
    <2> HIDE DEF key, L
    <2> QED BY <1>1, <1>2, <2>1, TalliedOnce
  <1>4. Value(inventory_value_probe(world)).total_inventory_value = SumFunction(value)
    BY PrintedValue DEF inventory_value_probe, Total
  <1>5. value \in [world.items -> Nat]
    BY DEF ValueOf
  <1>6. total_inventory_value(world) = SumFunction([i \in L |-> value[i]])
    <2>1. [i \in L |-> value[i]] = [i \in L |-> ValueOf(i)]
      BY <1>2
    <2> QED BY <2>1 DEF total_inventory_value, Total
  <1>7. SumFunction([i \in L |-> value[i]]) <= SumFunction(value)
    <2> HIDE DEF L, value
    <2> QED BY <1>2, <1>5, PartsSumToLess
  <1>8. L = world.items => [i \in L |-> value[i]] = value
    OBVIOUS
  <1> HIDE DEF L, value, key
  <1>9. LET all == Cardinality(world.items)
        IN  /\ Cardinality(L) = IF all <= MaxListed THEN all ELSE MaxListed
            /\ all <= MaxListed => L = world.items
    BY ListedItems DEF L
  <1> QED BY <1>3, <1>4, <1>6, <1>7, <1>8, <1>9 DEF ItemsListed

\* Whoever is in dire need is in severe need.
LEMMA DireIsSevere ==
  ASSUME NEW u, IsFiniteSet(u.dire), IsFiniteSet(u.distress), is_in_dire_need(u)
  PROVE  need_severity(u) >= 100
  <1>1. Cardinality(u.dire) \in Nat /\ Cardinality(u.dire) # 0
    BY FS_EmptySet, FS_CardinalityType DEF is_in_dire_need
  <1>2. Cardinality(u.distress) \in Nat
    BY FS_CardinalityType
  <1> QED BY <1>1, <1>2 DEF need_severity

\* The unhappy are the depressed and the miserable.
LEMMA UnhappyAgree ==
  ASSUME IsFiniteSet(world.units), \A u \in world.units : u.pctile \in Int
  PROVE  LET by == units_by_happiness(world)
             Of(t) == IF t \in DOMAIN by THEN by[t] ELSE 0
         IN  unhappy_faction_count(world) = Of("depressed") + Of("miserable")
  <1> DEFINE by == units_by_happiness(world)
             Of(t) == IF t \in DOMAIN by THEN by[t] ELSE 0
             Rated(t) == {u \in world.units : unit_happiness_rating(u) = t}
  <1>1. ASSUME NEW t PROVE Of(t) = Cardinality(Rated(t)) /\ IsFiniteSet(Rated(t))
    <2>1. by = [k \in {unit_happiness_rating(u) : u \in world.units} |->
                  Cardinality(Rated(k))]
      BY DEF units_by_happiness, Tally
    <2>2. t \notin DOMAIN by => Rated(t) = {}
      BY <2>1
    <2>3. IsFiniteSet(Rated(t))
      BY FS_Subset
    <2> HIDE DEF by, Rated
    <2> QED BY <2>1, <2>2, <2>3, FS_EmptySet
  <1>2. {u \in world.units : u.pctile < 40} = Rated("depressed") \cup Rated("miserable")
    BY DEF unit_happiness_rating
  <1>3. Rated("depressed") \cap Rated("miserable") = {}
    OBVIOUS
  <1> HIDE DEF Rated
  <1>4. Cardinality(Rated("depressed") \cup Rated("miserable"))
          = Cardinality(Rated("depressed")) + Cardinality(Rated("miserable"))
    BY <1>1, <1>3, CountsAdd
  <1> HIDE DEF Of
  <1> QED BY <1>1, <1>2, <1>4 DEF unhappy_faction_count, Of

\* Mastery begins where the tier of the masters does.
LEMMA MasteryAgrees ==
  ASSUME \A u \in world.units : \A s \in u.skills : s.rating \in Int
  PROVE  mastery_fraction(world)[1] =
           Total(world.units, LAMBDA u :
             Cardinality({s \in u.skills : skill_rank_tier(s.rating) \in {"master", "legendary"}}))
  <1>1. ASSUME NEW u \in world.units
        PROVE  {s \in u.skills : s.rating >= 9} =
                 {s \in u.skills : skill_rank_tier(s.rating) \in {"master", "legendary"}}
    BY <1>1 DEF skill_rank_tier
  <1>2. [u \in world.units |-> Cardinality({s \in u.skills : s.rating >= 9})] =
          [u \in world.units |->
             Cardinality({s \in u.skills : skill_rank_tier(s.rating) \in {"master", "legendary"}})]
    BY <1>1
  <1> QED BY <1>2 DEF mastery_fraction, Total

\* Every fort that is probed is one of the worlds.
LEMMA WorldStays == ProbesSpec => [](world \in Worlds)
  <1>1. ProbesInit => world \in Worlds
    BY DEF ProbesInit
  <1>2. world \in Worlds /\ [ProbesNext]_probeVars => (world \in Worlds)'
    BY DEF ProbesNext, Ask, GameMoves, probeVars
  <1> QED BY <1>1, <1>2, PTL DEF ProbesSpec

\* The summaries of a fort agree with the labels given one by one, and the three
\* classifications of jobs with each other, for every finite fort (probe.py and
\* the scripts of the probes).
THEOREM SummariesDoAgree == ProbesSpec => []SummariesAgree
  <1>1. ASSUME world \in Worlds PROVE SummariesAgree
    <2>1. /\ IsFiniteSet(world.jobs) /\ IsFiniteSet(world.units) /\ IsFiniteSet(world.items)
          /\ {i.idx : i \in world.items} = 1..Cardinality(world.items)
          /\ \A i \in world.items : i.value \in Nat
          /\ \A i, j \in world.items : i.idx = j.idx => i = j
          /\ \A u \in world.units :
               /\ u.pctile \in Int /\ IsFiniteSet(u.dire) /\ IsFiniteSet(u.distress)
               /\ \A s \in u.skills : s.rating \in Int
      BY <1>1, WorldsAssumption
    <2>2. \A u \in world.units : is_in_dire_need(u) => need_severity(u) >= 100
      BY <2>1, DireIsSevere
    <2> QED BY <2>1, <2>2, JobsDoAgree, PopulationAgrees, ItemsAgree, UnhappyAgree,
               MasteryAgrees, Zenon DEF SummariesAgree
  <1> QED BY <1>1, WorldStays, PTL

\* TilesAgree is false, and off by exactly this: the liquid tiles of a summary are
\* those that are labelled liquid and those that are labelled walls (tile_summary).
THEOREM WallsCountAsLiquid ==
  ProbesSpec => [](tile_summary(world).liquid =
    Cardinality({t \in world.tiles : classify_tile_label(t.type) = "LIQUID"})
      + Cardinality({t \in world.tiles : classify_tile_label(t.type) = "WALL"}))
  <1> DEFINE Labelled(name) == {t \in world.tiles : classify_tile_label(t.type) = name}
  <1>1. ASSUME world \in Worlds
        PROVE  tile_summary(world).liquid =
                 Cardinality(Labelled("LIQUID")) + Cardinality(Labelled("WALL"))
    <2>1. IsFiniteSet(world.tiles) /\ \A t \in world.tiles : t.type \in Int
      BY <1>1, WorldsAssumption
    <2>2. {t \in world.tiles : is_liquid_tile(t.type)} = Labelled("LIQUID") \cup Labelled("WALL")
      BY <2>1 DEF classify_tile_label, is_liquid_tile, is_floor_tile
    <2>3. Labelled("LIQUID") \cap Labelled("WALL") = {}
      OBVIOUS
    <2>4. IsFiniteSet(Labelled("LIQUID")) /\ IsFiniteSet(Labelled("WALL"))
      BY <2>1, FS_Subset
    <2>5. tile_summary(world).liquid =
            Cardinality({t \in world.tiles : is_liquid_tile(t.type)})
      BY DEF tile_summary
    <2> HIDE DEF Labelled
    <2> QED BY <2>2, <2>3, <2>4, <2>5, CountsAdd
  <1> QED BY <1>1, WorldStays, PTL
=============================================================================
