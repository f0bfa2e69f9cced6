----------------------------- MODULE EpisodeRun -----------------------------
(***************************************************************************)
(* The headless episode runner of game_runner/episode.py and the log of    *)
(* bridge/contracts.py: the object that a baseline or a test drives        *)
(* through reset, observe, act and advance, that plays whole runs one      *)
(* after the other, and that can be saved and restored.                    *)
(*                                                                         *)
(* A policy is any choice of actions; a run of it may raise in the middle. *)
(* A citizen is a name and the tick of its death: _process_stress_events   *)
(* kills the citizen whose number ends in d once d whole days have gone by *)
(* since the first death, which is one tick per citizen and seed.          *)
(***************************************************************************)
EXTENDS Integers, Sequences, FiniteSets

CONSTANTS
  Seeds,       \* seeds a run is started with
  Citizens,    \* the citizens of the simulated fortress
  DiesAt,      \* DiesAt[s][c]: the tick from which c is dead under seed s
  Actions,     \* what a policy may ask for: [cmd, key, args]
  MaxSteps,    \* max_steps of the runner
  Budgets,     \* values of action_budget
  MaxRuns,     \* bound: runs that are started
  MaxTick,     \* bound: ticks asked for by calls outside a run
  None         \* a value that is absent

ASSUME EpisodeConstants ==
  /\ DiesAt \in [Seeds -> [Citizens -> Nat]]
  /\ MaxSteps \in Nat /\ Budgets \subseteq Nat

VARIABLES
  budget,    \* action_budget of the runner, which nothing changes
  seed,      \* the seed of the runner
  obs,       \* _obs_state: paused, whether the game was unpaused, cur_tick
  killed,    \* citizens marked killed
  metrics,   \* metrics: steps_taken, actions_used, final_tick
  trace,     \* trace: every action with its result
  log,       \* the EpisodeLogger: actions and ticks, or None
  stage,     \* whether run() is on the stack: "idle" or "running"
  saved,     \* a checkpoint: what serialize() returns, or None
  started,   \* runs started so far
  done       \* the runs that returned: seed, trace, report and fingerprint

runVars == <<budget, seed, obs, killed, metrics, trace, log, stage, saved, started, done>>

DefaultObservation == [paused |-> TRUE, unpaused |-> FALSE, tick |-> 0]
NoMetrics == [steps |-> 0, used |-> 0, finalTick |-> None]
NewLog == [actions |-> <<>>, ticks |-> <<>>]

RunInit ==
  /\ budget \in Budgets /\ seed \in Seeds
  /\ obs = DefaultObservation /\ killed = {} /\ metrics = NoMetrics
  /\ trace = <<>> /\ log = None
  /\ stage = "idle" /\ saved = None /\ started = 0 /\ done = {}

-----------------------------------------------------------------------------
(* reset(), observe(), act(), advance().                                   *)

\* A reset that does not make the citizens anew (a mutant).
ResetKeepsDead ==
  /\ metrics' = NoMetrics /\ trace' = <<>> /\ log' = NewLog
  /\ obs' = DefaultObservation /\ killed' = killed

Reset ==
  /\ metrics' = NoMetrics /\ trace' = <<>> /\ log' = NewLog
  /\ obs' = DefaultObservation /\ killed' = {}

Observation == [obs |-> obs, alive |-> Citizens \ killed]

Raises(a) == a.cmd = "advance" /\ a.args # <<>> /\ a.args[1] \notin Int

Amount(a) == IF a.args = <<>> THEN 100 ELSE a.args[1]

\* What act() does to the game; an unknown command changes nothing.
Perform(a) ==
  LET tick == obs.tick + Amount(a)
  IN CASE a.cmd = "advance" ->
            /\ obs' = [obs EXCEPT !.tick = tick]
            /\ killed' = killed \cup {c \in Citizens : tick >= DiesAt[seed][c]}
       [] a.cmd = "unpause" ->
            obs' = [obs EXCEPT !.paused = FALSE, !.unpaused = TRUE] /\ UNCHANGED killed
       [] a.cmd = "pause" -> obs' = [obs EXCEPT !.paused = TRUE] /\ UNCHANGED killed
       [] OTHER -> UNCHANGED <<obs, killed>>

\* final_tick, which advance() counts beside the clock of the observation.
FinalTick(a) ==
  IF a.cmd # "advance" THEN metrics.finalTick
  ELSE Amount(a) + (IF metrics.finalTick = None THEN 0 ELSE metrics.finalTick)

Result(a) ==
  [ok |-> a.cmd \in {"advance", "unpause", "pause", "observe"},
   output |-> IF a.cmd = "observe" THEN Observation ELSE None]

\* act() or advance() called on the runner outside run().
Outside(a) ==
  /\ stage = "idle" /\ ~Raises(a)
  /\ a.cmd = "advance" => FinalTick(a) <= MaxTick /\ obs.tick + Amount(a) <= MaxTick
  /\ Perform(a) /\ metrics' = [metrics EXCEPT !.finalTick = FinalTick(a)]
  /\ UNCHANGED <<seed, trace, log, stage, saved, started, done>>

-----------------------------------------------------------------------------
(* run(), and run_multiple(), which sets the seed before each run.         *)

StartRun(s) ==
  /\ stage = "idle" /\ started < MaxRuns
  /\ seed' = s /\ stage' = "running" /\ started' = started + 1
  /\ Reset
  /\ UNCHANGED <<saved, done>>

InLoop == stage = "running" /\ Len(trace) < MaxSteps

LogTick == [log EXCEPT !.ticks = Append(@, obs.tick)]

\* log_action: an action that names itself by "name" has no command here.
Logged(a) ==
  [step |-> Len(trace), args |-> a.args,
   command |-> IF a.key = "command" THEN a.cmd ELSE None]

Step(a) ==
  /\ InLoop /\ metrics.used < budget /\ ~Raises(a)
  /\ Perform(a)
  /\ metrics' = [steps |-> metrics.steps + 1, used |-> metrics.used + 1,
                 finalTick |-> FinalTick(a)]
  /\ trace' = Append(trace, [action |-> a, result |-> Result(a)])
  /\ log' = [LogTick EXCEPT !.actions = Append(@, Logged(a))]
  /\ UNCHANGED <<seed, stage, saved, started, done>>

\* The policy raises, or an amount of ticks is not a number.
Abort ==
  /\ InLoop /\ metrics.used < budget
  /\ log' = LogTick /\ stage' = "idle"
  /\ UNCHANGED <<seed, obs, killed, metrics, trace, saved, started, done>>

RunReport(outcome) ==
  [steps |-> metrics.steps, used |-> metrics.used, outcome |-> outcome,
   survivors |-> Cardinality(Citizens \ killed),
   finalTick |-> IF metrics.finalTick = None THEN obs.tick ELSE metrics.finalTick]

\* fingerprint(): the seed, the logged actions and what finalize() was told.
Fingerprint(report) ==
  [seed |-> seed, actions |-> log.actions, outcome |-> report.outcome,
   survivors |-> report.survivors, finalTick |-> report.finalTick]

Return(outcome) ==
  /\ stage' = "idle"
  /\ done' = done \cup {[seed |-> seed, trace |-> trace, report |-> RunReport(outcome),
                         print |-> Fingerprint(RunReport(outcome))]}
  /\ UNCHANGED <<seed, obs, killed, metrics, trace, saved, started>>

\* The policy answers nothing.
Stop == InLoop /\ metrics.used < budget /\ log' = LogTick /\ Return("success")

\* The budget is spent, or every step was taken.
RunOut == InLoop /\ metrics.used >= budget /\ UNCHANGED log /\ Return("timeout")

Finish ==
  stage = "running" /\ Len(trace) >= MaxSteps /\ UNCHANGED log /\ Return("success")

-----------------------------------------------------------------------------
(* serialize() and deserialize(), and the checkpoint files made of them.   *)

Save ==
  /\ saved = None
  /\ saved' = [seed |-> seed, metrics |-> metrics, trace |-> trace]
  /\ UNCHANGED <<seed, obs, killed, metrics, trace, log, stage, started, done>>

\* A new runner with the saved metrics and trace; its citizens, its clock and
\* its log are those of a runner that did nothing yet.
Load ==
  /\ saved # None
  /\ seed' = saved.seed /\ metrics' = saved.metrics /\ trace' = saved.trace
  /\ obs' = DefaultObservation /\ killed' = {} /\ log' = None
  /\ stage' = "idle" /\ saved' = None
  /\ UNCHANGED <<started, done>>

RunNext ==
  /\ UNCHANGED budget
  /\ \/ \E s \in Seeds : StartRun(s)
     \/ \E a \in Actions : Step(a) \/ Outside(a)
     \/ Abort \/ Stop \/ RunOut \/ Finish \/ Save \/ Load

RunSpec == RunInit /\ [][RunNext]_runVars

-----------------------------------------------------------------------------
Asked(run) == [i \in 1..Len(run.trace) |-> run.trace[i].action]

(* EpisodeLogger: "Two runs with identical seeds + action sequences must   *)
(* yield the same fingerprint."  So must the report and every answer given *)
(* to the policy, whatever was done with the runner before the run: calls  *)
(* outside a run, a run that raised, a checkpoint that was loaded.         *)
Replayable ==
  \A r1, r2 \in done : r1.seed = r2.seed /\ Asked(r1) = Asked(r2) => r1 = r2

(* The same docstring calls the digest unique to the logger state.  The    *)
(* runs it identifies asked for the same actions.                          *)
FingerprintTells ==
  \A r1, r2 \in done : r1.print = r2.print => Asked(r1) = Asked(r2)

(* load_checkpoint(): "instance at the saved evaluation point".  The clock *)
(* of the restored runner shows the ticks its metrics have counted.        *)
RestoredAtPoint ==
  [][saved # None /\ saved' = None =>
       metrics'.finalTick \in {None, obs'.tick}]_runVars
=============================================================================
