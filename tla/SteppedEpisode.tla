---------------------------- MODULE SteppedEpisode ----------------------------
(***************************************************************************)
(* score_submission: episode after episode, a controller process and a     *)
(* game session are started, the driver (run_stepped_episode) plays the    *)
(* rounds, and both are taken down, whatever happened.  A SessionError     *)
(* costs the episode; a controller that fails costs only its actions.      *)
(***************************************************************************)
EXTENDS ChunkPlan, ControllerProcess, GameSession

CONSTANTS Episodes,    \* k
          AskedRounds, \* the rounds the driver may be asked for; 0 for None
          Horizons     \* horizon_ticks of the job

ASSUME EpisodeAssumption ==
  /\ Episodes \in Nat /\ AskedRounds \subseteq Nat
  /\ Horizons \subseteq Nat \ {0}

VARIABLES
  horizon, \* horizon_ticks
  rounds,  \* the rounds the driver is asked for
  episode, \* episodes begun
  at,      \* where the driver is in the current one
  round,   \* i, from 0
  t0,      \* the frame of the T0 observation
  seen,    \* the frame of the latest observation
  answer,  \* the observation the intents in hand answer
  span     \* ticks between the two observations of a recorded pair

driverVars == <<horizon, rounds, episode, at, round, t0, seen, answer, span>>

vars == <<controllerVars, gameVars, driverVars>>

NoPair == -1

Steps == {"idle", "boot", "baseline", "ask", "write", "wait", "apply", "aim",
          "go", "poll", "observe", "record", "unwind", "reap"}

\* len(chunks), and chunks[i].
NumRounds ==
  Rounds(horizon, IF rounds = 0 THEN RoundsFor(horizon) ELSE rounds)

ThisChunk == Chunk(horizon, NumRounds, round)

\* Every variable keeps its type, over all episodes.
TypeOK ==
  /\ ControllerTypeOK /\ GameTypeOK
  /\ horizon \in Horizons /\ rounds \in AskedRounds
  /\ episode \in 0..Episodes /\ at \in Steps
  /\ round \in 0..NumRounds /\ t0 \in Nat /\ seen \in Nat /\ answer \in Nat
  /\ span \in [1..Episodes -> Nat \cup {NoPair}]

Init ==
  /\ NoController /\ NoGame
  /\ horizon \in Horizons /\ rounds \in AskedRounds
  /\ episode = 0 /\ at = "idle" /\ round = 0
  /\ t0 = 0 /\ seen = 0 /\ answer = 0
  /\ span = [e \in 1..Episodes |-> NoPair]

\* The driver goes on to p; nothing else of its own changes.
GoTo(p) ==
  at' = p /\ UNCHANGED <<horizon, rounds, episode, round, t0, seen, answer, span>>

\* A SessionError: the episode is given up.
Raise == GoTo("unwind") /\ UNCHANGED <<controllerVars, gameVars>>

-----------------------------------------------------------------------------
(* The start of an episode. *)

BeginEpisode ==
  /\ at = "idle" /\ episode < Episodes
  /\ Spawn
  /\ episode' = episode + 1 /\ at' = "boot" /\ round' = 0 /\ answer' = 0
  /\ UNCHANGED <<gameVars, horizon, rounds, t0, seen, span>>

\* READY may be followed by six blank replies, which are an error too.
Boot ==
  /\ at = "boot"
  /\ \/ BootReady /\ (GoTo("baseline") \/ GoTo("unwind"))
     \/ BootFails /\ GoTo("unwind")
  /\ UNCHANGED controllerVars

\* The T0 observation, on which the first decision is made.
ObserveBaseline ==
  /\ at = "baseline"
  /\ \/ /\ fort
        /\ t0' = frame /\ seen' = frame
        /\ at' = "ask"
        /\ UNCHANGED <<controllerVars, gameVars, horizon, rounds, episode,
                       round, answer, span>>
     \/ Raise

-----------------------------------------------------------------------------
(* A round: ask, apply, advance, observe. *)

Ask ==
  /\ at = "ask"
  /\ answer' = 0
  /\ \/ Answers /\ asked' = asked + 1 /\ at' = "write"
     \/ ~Answers /\ asked' = asked /\ at' = "aim"
  /\ UNCHANGED <<proc, dead, host, deciding, stdin, lines, noise, gameVars,
                 horizon, rounds, episode, round, t0, seen, span>>

Write ==
  /\ at = "write"
  /\ \/ WriteLine /\ GoTo("wait")
     \/ BrokenPipe /\ GoTo("aim")
  /\ UNCHANGED gameVars

\* An answer may hold intents for the game or, like noise, none.
Wait ==
  /\ at = "wait"
  /\ \/ /\ TakeLine
        /\ \/ at' = "apply" /\ Head(lines) > Noise /\ answer' = Head(lines)
           \/ at' = "aim" /\ answer' = 0
     \/ TimeOut /\ at' = "aim" /\ answer' = 0
  /\ UNCHANGED <<gameVars, horizon, rounds, episode, round, t0, seen, span>>

\* apply_actions; a blank reply goes unnoticed.
Apply ==
  /\ at = "apply"
  /\ \/ GoTo("aim") /\ UNCHANGED <<controllerVars, gameVars>>
     \/ Raise

\* advance: the frame it starts from, the script, and the polls.
Aim ==
  /\ at = "aim"
  /\ \/ fort /\ GoTo("go") /\ UNCHANGED <<controllerVars, gameVars>>
     \/ Raise

\* The script may run though its answer is late or lost, and may not.
Go ==
  /\ at = "go"
  /\ GoTo("poll") \/ GoTo("unwind")
  /\ StartAdvance(ThisChunk) \/ UNCHANGED gameVars
  /\ UNCHANGED controllerVars

\* Polls go on until the game is where it should be, and paused.
Reached(target) == fort /\ paused /\ frame >= target

Poll ==
  /\ at = "poll"
  /\ \/ /\ Reached(seen + ThisChunk)
        /\ GoTo("observe") /\ UNCHANGED <<controllerVars, gameVars>>
     \/ Raise

\* Mutant: one round too many.
ObserveOnceMore ==
  /\ at = "observe"
  /\ \/ /\ fort
        /\ seen' = frame /\ round' = round + 1
        /\ at' = IF round = NumRounds THEN "record" ELSE "ask"
        /\ UNCHANGED <<controllerVars, gameVars, horizon, rounds, episode, t0,
                       answer, span>>
     \/ Raise

Observe ==
  /\ at = "observe"
  /\ \/ /\ fort
        /\ seen' = frame /\ round' = round + 1
        /\ at' = IF round + 1 = NumRounds THEN "record" ELSE "ask"
        /\ UNCHANGED <<controllerVars, gameVars, horizon, rounds, episode, t0,
                       answer, span>>
     \/ Raise

-----------------------------------------------------------------------------
(* The end of an episode. *)

\* The pair of observations is returned.
Record ==
  /\ at = "record"
  /\ at' = "unwind" /\ span' = [span EXCEPT ![episode] = seen - t0]
  /\ UNCHANGED <<controllerVars, gameVars, horizon, rounds, episode, round, t0,
                 seen, answer>>

\* The driver's finally block closes the session ...
Unwind ==
  /\ at = "unwind"
  /\ CloseSession /\ GoTo("reap")
  /\ UNCHANGED controllerVars

\* ... and score_submission's the controller.
Reap ==
  /\ at = "reap"
  /\ Close /\ GoTo("idle")
  /\ UNCHANGED gameVars

Driver ==
  \/ BeginEpisode \/ Boot \/ ObserveBaseline
  \/ Ask \/ Write \/ Wait \/ Apply \/ Aim \/ Go \/ Poll \/ Observe
  \/ Record \/ Unwind \/ Reap

World == (Host /\ UNCHANGED <<gameVars, driverVars>>)
         \/ (Game /\ UNCHANGED <<controllerVars, driverVars>>)

Next == Driver \/ World

Spec == Init /\ [][Next]_vars

\* Every step of the driver but one is bounded in time: its calls have time-outs,
\* the polls a deadline; the write waits for the pipe. The controller and the
\* game owe it nothing.
FairSpec == Spec /\ WF_vars(Driver)

-----------------------------------------------------------------------------
(* Properties. *)

\* What is applied to the fort was decided on the fort as it stands: the game
\* has not moved since the observation, and a controller that has printed nothing
\* else answers this observation, however late its earlier answers were.
AnswersFresh ==
  at = "apply" =>
    /\ paused /\ frame = seen
    /\ answer \in 1..(round + 1)
    /\ noise = 0 => answer = round + 1

\* An episode is scored over its whole horizon, whatever failed on the way: the
\* chunks of all its rounds add up, but for the ticks the game takes between
\* two looks of the heartbeat.
SpansHorizon ==
  \A e \in 1..Episodes : span[e] # NoPair =>
    span[e] \in horizon..(horizon + NumRounds * (Burst - 1))

\* No controller outlives its episode, however it failed.
ControllerReaped == at = "idle" => host \in {"none", "gone"}

\* Where the driver chooses the rounds, none is longer than MaxChunk.
ChunksBounded == at = "poll" /\ rounds = 0 => ThisChunk <= MaxChunk

\* The driver's write waits for a process that lives and does not read.
Stuck == at = "write" /\ host \in {"ready", "busy"} /\ Len(stdin) = PipeLines

\* Scoring ends, whenever the game dies and however the controller answers, hangs
\* or ends: all but one that has printed, unasked, a line for each that the pipe
\* holds and reads no more, on which the driver waits for ever.
ScoringEnds ==
  \/ <>(at = "idle" /\ episode = Episodes)
  \/ <>[](Stuck /\ noise >= PipeLines)

-----------------------------------------------------------------------------
(* What comments say and the code does not do. *)

\* stepped_episode.py: a controller that returns garbage costs the agent its
\* actions for that round only.
NoiseCostsOneRound == at = "apply" => answer = round + 1

\* stepped_episode.py: the number of rounds is "the LARGER of DEFAULT_ROUNDS and
\* however many it takes to keep a chunk under MAX_CHUNK_TICKS".
EveryChunkBounded == at = "poll" => ThisChunk <= MaxChunk

\* persistent_controller.py: "a hung controller must not hang the evaluator", and
\* one that floods "cannot deadlock us on a full pipe".
NeverHung == <>(at = "idle" /\ episode = Episodes)

\* session.py: the process is killed even if the episode raises.
FortKilled == at = "idle" => ~fort
=============================================================================
