------------------------- MODULE SteppedEpisodeProofs -------------------------
(***************************************************************************)
(* Proofs about SteppedEpisode, for every number of episodes, every        *)
(* horizon and plan of rounds, every size of the pipe, and any noise.      *)
(***************************************************************************)
EXTENDS SteppedEpisode, SequenceTheorems, TLAPS

\* What the plan of n rounds has advanced before round i.
Advanced(i) == i * (horizon \div NumRounds) + Least(i, horizon % NumRounds)

\* The steps of a round in which the game stands still where it was observed.
Still == {"ask", "write", "wait", "apply", "aim", "go"}

\* The frame of the latest observation: what the rounds so far advanced, and at
\* most Burst - 1 ticks more for each.
OnPlan ==
  /\ at \in Still \cup {"poll", "observe"} => round < NumRounds
  /\ at = "record" => round = NumRounds
  /\ at \in {"boot", "baseline"} => round = 0
  /\ at \in Still \cup {"poll", "observe", "record"} =>
       /\ seen - t0 >= Advanced(round)
       /\ seen - t0 <= Advanced(round) + round * (Burst - 1)

\* The game while the driver waits for it, and when it has arrived.
GameOK ==
  /\ at \in Still \cup {"baseline", "observe"} => paused
  /\ at \in Still => frame = seen
  /\ at = "poll" /\ ~paused => goal = seen + ThisChunk /\ frame < goal + since
  /\ at = "poll" /\ paused => frame < seen + ThisChunk + Burst
  /\ at = "observe" => /\ frame >= seen + ThisChunk
                       /\ frame < seen + ThisChunk + Burst

\* A handle without a process has none running, and vice versa; the handle is
\* given up at the end of the episode.
HandleOK ==
  /\ proc => host \in {"ready", "busy", "shut", "gone"}
  /\ ~proc => host \in {"none", "gone"}
  /\ at = "idle" => ~proc

\* As long as the controller answers it has been asked once a round.
AskedOK ==
  /\ at \in {"boot", "baseline", "ask"} =>
       asked <= round /\ (Answers => asked = round)
  /\ at \in {"write", "wait"} => Answers /\ asked = round + 1
  /\ at \in {"apply", "aim", "go", "poll", "observe"} =>
       asked <= round + 1 /\ (Answers => asked = round + 1)

\* No line answers an observation that was not sent.
LinesOK ==
  /\ \A k \in 1..Len(stdin) : stdin[k] \in 1..asked
  /\ \A k \in 1..Len(lines) : lines[k] \in {EOF, Noise} \cup 1..asked
  /\ host = "busy" => deciding \in 1..asked
  /\ at = "apply" => answer \in 1..asked

\* The pipes of a controller that has answered all it was asked, ...
Quiet ==
  /\ stdin = <<>>
  /\ \/ host = "ready" /\ lines = <<>>
     \/ host \in {"shut", "gone"} /\ lines = <<EOF>>

\* ... and of one that was asked something: it is unread, under decision, or
\* answered, or never will be.
Pending ==
  \/ host = "ready" /\ stdin = <<asked>> /\ lines = <<>>
  \/ host = "busy" /\ stdin = <<>> /\ lines = <<>> /\ deciding = asked
  \/ host = "ready" /\ stdin = <<>> /\ lines = <<asked>>
  \/ host \in {"shut", "gone"} /\ stdin = <<>> /\ lines = <<asked, EOF>>
  \/ host \in {"shut", "gone"} /\ lines = <<EOF>>

\* A controller that has printed nothing but its answers.
PipesOK ==
  noise = 0 =>
    /\ Answers /\ at # "wait" => Quiet
    /\ at = "wait" => Pending
    /\ at = "apply" => answer = round + 1

PlayInv  == TypeOK /\ OnPlan /\ GameOK /\ SpansHorizon

PipesInv == TypeOK /\ HandleOK /\ AskedOK /\ LinesOK /\ PipesOK

-----------------------------------------------------------------------------
(* The plan of rounds. *)

LEMMA PlanFacts ==
  ASSUME TypeOK
  PROVE  /\ NumRounds \in 1..horizon
         /\ horizon \div NumRounds \in Nat \ {0}
         /\ horizon % NumRounds \in 0..(NumRounds - 1)
         /\ horizon = NumRounds * (horizon \div NumRounds) + (horizon % NumRounds)
  <1>1. horizon \in Nat \ {0}
    BY EpisodeAssumption DEF TypeOK
  <1>2. RoundsFor(horizon) \in Nat
    <2>1. (horizon + MaxChunk - 1) \div MaxChunk \in Nat
      BY <1>1, PlanAssumption
    <2> QED BY <2>1, PlanAssumption DEF RoundsFor, Greatest
  <1>3. ASSUME NEW a \in Nat PROVE Rounds(horizon, a) \in 1..horizon
    <2>1. horizon \div MinChunk \in 0..horizon
      BY <1>1, PlanAssumption
    <2> QED BY <1>1, <2>1 DEF Rounds, Greatest, Least
  <1>4. NumRounds \in 1..horizon
    BY <1>2, <1>3, EpisodeAssumption DEF NumRounds, TypeOK
  <1>5. ASSUME NEW n \in 1..horizon
        PROVE  /\ horizon \div n \in Nat \ {0}
               /\ horizon % n \in 0..(n - 1)
               /\ horizon = n * (horizon \div n) + (horizon % n)
    BY <1>1
  <1> QED BY <1>4, <1>5

LEMMA AdvancedFacts ==
  ASSUME TypeOK
  PROVE  /\ ThisChunk \in Nat \ {0}
         /\ Advanced(0) = 0
         /\ Advanced(NumRounds) = horizon
         /\ Advanced(round) \in Nat
         /\ round < NumRounds => Advanced(round + 1) = Advanced(round) + ThisChunk
  <1> DEFINE n == NumRounds  q == horizon \div NumRounds  r == horizon % NumRounds
  <1>1. /\ n \in Nat \ {0} /\ q \in Nat \ {0} /\ r \in 0..(n - 1)
        /\ horizon = n * q + r /\ round \in 0..n
    <2>1. n \in 1..horizon /\ q \in Nat \ {0} /\ r \in 0..(n - 1) /\ horizon = n * q + r
      BY PlanFacts
    <2>2. horizon \in Nat /\ round \in 0..n
      BY EpisodeAssumption DEF TypeOK
    <2> HIDE DEF n, q, r
    <2> QED BY <2>1, <2>2
  <1>2. ThisChunk = q + (IF round < r THEN 1 ELSE 0)
    BY DEF ThisChunk, Chunk
  <1>3. \A i : Advanced(i) = i * q + Least(i, r)
    BY DEF Advanced
  <1> HIDE DEF n, q, r
  <1>4. (round + 1) * q = round * q + q /\ 0 * q = 0 /\ round * q \in Nat
    BY <1>1
  <1>5. Advanced(n) = horizon
    BY <1>1, <1>3 DEF Least
  <1> QED BY <1>1, <1>2, <1>3, <1>4, <1>5 DEF Least, n

-----------------------------------------------------------------------------
(* Types. *)

\* Ask's part of the controller.
CountsRound ==
  asked' \in {asked, asked + 1}
  /\ UNCHANGED <<proc, dead, host, deciding, stdin, lines, noise>>

LEMMA ControllerTypes ==
  ASSUME ControllerTypeOK,
         \/ Spawn \/ CountsRound \/ WriteLine \/ BrokenPipe \/ TakeLine \/ Close
         \/ Host \/ UNCHANGED controllerVars
  PROVE  ControllerTypeOK'
  <1>1. CASE Spawn
    <2>1. /\ <<>> \in Seq(Nat) /\ Len(<<>>) <= PipeLines
          /\ <<>> \in Seq(Nat \cup {EOF}) /\ 0 \in 0..MaxNoise /\ 0 \in Nat
      BY PipeAssumption
    <2> QED BY <1>1, <2>1, Zenon DEF Spawn, ControllerTypeOK
  <1>2. CASE CountsRound
    BY <1>2 DEF CountsRound, ControllerTypeOK
  <1>3. CASE WriteLine
    <2>1. stdin' \in Seq(Nat) /\ Len(stdin') <= PipeLines
      BY <1>3, PipeAssumption DEF WriteLine, ControllerTypeOK
    <2> QED BY <1>3, <2>1 DEF WriteLine, ControllerTypeOK
  <1>4. CASE BrokenPipe
    BY <1>4 DEF BrokenPipe, ControllerTypeOK
  <1>5. CASE TakeLine
    <2>1. lines' \in Seq(Nat \cup {EOF}) /\ dead' \in BOOLEAN
      BY <1>5 DEF TakeLine, ControllerTypeOK
    <2> QED BY <1>5, <2>1 DEF TakeLine, ControllerTypeOK
  <1>6. CASE Close
    BY <1>6 DEF Close, ControllerTypeOK
  <1>7. CASE HostReads
    <2>1. stdin' \in Seq(Nat) /\ Len(stdin') <= PipeLines /\ deciding' \in Nat
      BY <1>7, PipeAssumption DEF HostReads, ControllerTypeOK
    <2> QED BY <1>7, <2>1 DEF HostReads, ControllerTypeOK
  <1>8. CASE HostAnswers
    <2>1. lines' \in Seq(Nat \cup {EOF})
      BY <1>8 DEF HostAnswers, ControllerTypeOK
    <2> QED BY <1>8, <2>1 DEF HostAnswers, ControllerTypeOK
  <1>9. CASE HostPrints
    <2>1. lines' \in Seq(Nat \cup {EOF}) /\ noise' \in 0..MaxNoise
      BY <1>9, PipeAssumption DEF HostPrints, ControllerTypeOK, Noise
    <2> QED BY <1>9, <2>1 DEF HostPrints, ControllerTypeOK
  <1>10. CASE HostEnds
    <2>1. lines' \in Seq(Nat \cup {EOF})
      BY <1>10 DEF HostEnds, ControllerTypeOK
    <2> QED BY <1>10, <2>1 DEF HostEnds, ControllerTypeOK
  <1>11. CASE UNCHANGED controllerVars
    BY <1>11 DEF controllerVars, ControllerTypeOK
  <1> QED
    BY <1>1, <1>2, <1>3, <1>4, <1>5, <1>6, <1>7, <1>8, <1>9, <1>10, <1>11 DEF Host

LEMMA GameTypes ==
  ASSUME GameTypeOK,
         \/ BootReady \/ BootFails \/ (\E n \in Nat : StartAdvance(n))
         \/ CloseSession \/ Game \/ UNCHANGED gameVars
  PROVE  GameTypeOK'
  <1> 0 \in 0..Burst /\ 0 \in Nat
    BY GameAssumption
  <1>1. CASE BootReady \/ BootFails
    BY <1>1, Zenon DEF BootReady, BootFails, Loaded, GameTypeOK
  <1>2. CASE \E n \in Nat : StartAdvance(n)
    <2>1. goal' \in Nat
      BY <1>2 DEF StartAdvance, GameTypeOK
    <2> QED BY <1>2, <2>1, Zenon DEF StartAdvance, GameTypeOK
  <1>3. CASE CloseSession
    BY <1>3 DEF CloseSession, GameTypeOK
  <1>4. CASE Game
    <2>1. frame' \in Nat /\ since' \in 0..Burst
      BY <1>4, GameAssumption DEF Game, GameTick, Heartbeat, GameDies, GameTypeOK
    <2>2. (frame >= goal) \in BOOLEAN
      OBVIOUS
    <2> QED BY <1>4, <2>1, <2>2, Zenon DEF Game, GameTick, Heartbeat, GameDies, GameTypeOK
  <1>5. CASE UNCHANGED gameVars
    BY <1>5 DEF gameVars, GameTypeOK
  <1> QED BY <1>1, <1>2, <1>3, <1>4, <1>5

\* What a step of the whole may be to its parts.
LEMMA PartSteps ==
  ASSUME TypeOK, [Next]_vars
  PROVE  /\ \/ Spawn \/ CountsRound \/ WriteLine \/ BrokenPipe \/ TakeLine \/ Close
            \/ Host \/ UNCHANGED controllerVars
         /\ \/ BootReady \/ BootFails \/ (\E n \in Nat : StartAdvance(n))
            \/ CloseSession \/ Game \/ UNCHANGED gameVars
         /\ horizon' = horizon /\ rounds' = rounds /\ NumRounds' = NumRounds
  <1> USE DEF controllerVars, gameVars
  <1>1. CASE BeginEpisode
    BY <1>1 DEF BeginEpisode, NumRounds
  <1>2. CASE Boot
    BY <1>2 DEF Boot, GoTo, NumRounds
  <1>3. CASE ObserveBaseline
    BY <1>3 DEF ObserveBaseline, Raise, GoTo, NumRounds
  <1>4. CASE Ask
    BY <1>4 DEF Ask, CountsRound, NumRounds
  <1>5. CASE Write
    BY <1>5 DEF Write, GoTo, NumRounds
  <1>6. CASE Wait
    BY <1>6 DEF Wait, TimeOut, NumRounds
  <1>7. CASE Apply \/ Aim
    BY <1>7 DEF Apply, Aim, Raise, GoTo, NumRounds
  <1>8. CASE Go
    BY <1>8, AdvancedFacts DEF Go, GoTo, NumRounds
  <1>9. CASE Poll \/ Observe
    BY <1>9 DEF Poll, Observe, Raise, GoTo, NumRounds
  <1>10. CASE Record \/ Unwind \/ Reap
    BY <1>10 DEF Record, Unwind, Reap, GoTo, NumRounds
  <1>11. CASE World
    BY <1>11 DEF World, driverVars, NumRounds
  <1>12. CASE UNCHANGED vars
    BY <1>12 DEF vars, driverVars, NumRounds
  <1> QED
    BY <1>1, <1>2, <1>3, <1>4, <1>5, <1>6, <1>7, <1>8, <1>9, <1>10, <1>11, <1>12
    DEF Next, Driver

\* The driver's variables keep their types: no round past the plan is begun, and
\* no observation precedes T0.
LEMMA TypeStep ==
  ASSUME TypeOK, OnPlan, [Next]_vars
  PROVE  TypeOK'
  <1>1. ControllerTypeOK' /\ GameTypeOK'
    BY PartSteps, ControllerTypes, GameTypes DEF TypeOK
  <1>2. horizon' = horizon /\ rounds' = rounds /\ NumRounds' = NumRounds
    BY PartSteps
  <1>3. NumRounds \in Nat \ {0} /\ frame \in Nat
    <2>1. horizon \in Nat /\ NumRounds \in 1..horizon
      BY PlanFacts, EpisodeAssumption DEF TypeOK
    <2> QED BY <2>1 DEF TypeOK, GameTypeOK
  <1>4. /\ horizon \in Horizons /\ rounds \in AskedRounds
        /\ episode \in 0..Episodes /\ at \in Steps
        /\ round \in 0..NumRounds /\ t0 \in Nat /\ seen \in Nat /\ answer \in Nat
        /\ span \in [1..Episodes -> Nat \cup {NoPair}]
    BY DEF TypeOK
  <1> SUFFICES /\ episode' \in 0..Episodes /\ at' \in Steps
               /\ round' \in 0..NumRounds /\ t0' \in Nat /\ seen' \in Nat
               /\ answer' \in Nat /\ span' \in [1..Episodes -> Nat \cup {NoPair}]
    BY <1>1, <1>2, <1>4 DEF TypeOK
  <1>5. CASE BeginEpisode
    BY <1>3, <1>4, <1>5, EpisodeAssumption DEF BeginEpisode, Steps
  <1>6. CASE Boot \/ Apply \/ Aim \/ Go \/ Poll \/ Unwind \/ Reap
    BY <1>4, <1>6 DEF Boot, Apply, Aim, Go, Poll, Unwind, Reap, Raise, GoTo, Steps
  <1>7. CASE ObserveBaseline
    BY <1>3, <1>4, <1>7 DEF ObserveBaseline, Raise, GoTo, Steps
  <1>8. CASE Ask
    BY <1>4, <1>8 DEF Ask, Steps
  <1>9. CASE Write
    BY <1>4, <1>9 DEF Write, GoTo, Steps
  <1>10. CASE Wait
    <2>1. answer' \in Nat
      <3>1. CASE TakeLine /\ Head(lines) > Noise /\ answer' = Head(lines)
        <4>1. lines # <<>> /\ lines \in Seq(Nat \cup {EOF})
          BY <3>1 DEF TakeLine, TypeOK, ControllerTypeOK
        <4>2. Head(lines) \in Nat \cup {EOF}
          BY <4>1
        <4> QED BY <3>1, <4>2 DEF EOF, Noise
      <3> QED BY <1>10, <3>1 DEF Wait
    <2> QED BY <1>4, <1>10, <2>1 DEF Wait, Steps
  <1>11. CASE Observe
    <2>1. round' \in 0..NumRounds
      BY <1>3, <1>4, <1>11 DEF Observe, Raise, GoTo, OnPlan
    <2> QED BY <1>3, <1>4, <1>11, <2>1 DEF Observe, Raise, GoTo, Steps
  <1>12. CASE Record
    <2>1. seen - t0 \in Nat
      BY <1>4, <1>12, AdvancedFacts DEF Record, OnPlan
    <2> QED BY <1>4, <1>12, <2>1 DEF Record, Steps
  <1>13. CASE World \/ UNCHANGED vars
    BY <1>4, <1>13 DEF World, vars, driverVars
  <1> QED
    BY <1>5, <1>6, <1>7, <1>8, <1>9, <1>10, <1>11, <1>12, <1>13 DEF Next, Driver

-----------------------------------------------------------------------------
(* Episodes span their horizon. *)

LEMMA PlanKept ==
  ASSUME TypeOK, [Next]_vars
  PROVE  /\ horizon' = horizon /\ NumRounds' = NumRounds
         /\ round' = round => /\ ThisChunk' = ThisChunk
                              /\ Advanced(round)' = Advanced(round)
         /\ round' = 0 => Advanced(round)' = 0
         /\ round' = round + 1 /\ round < NumRounds =>
              Advanced(round)' = Advanced(round) + ThisChunk
  <1>1. horizon' = horizon /\ NumRounds' = NumRounds
    BY PartSteps
  <1>2. Advanced(round)' = Advanced(round')
    BY <1>1 DEF Advanced
  <1>3. ThisChunk' = Chunk(horizon, NumRounds, round')
    BY <1>1 DEF ThisChunk
  <1> QED BY <1>1, <1>2, <1>3, AdvancedFacts DEF ThisChunk

LEMMA PlayStep ==
  ASSUME PlayInv, [Next]_vars
  PROVE  OnPlan' /\ GameOK' /\ SpansHorizon'
  <1> DEFINE n == NumRounds  c == ThisChunk  a == Advanced(round)
             Same == c' = c /\ a' = a
  <1>1. /\ TypeOK /\ horizon' = horizon /\ n' = n
        /\ round' = round => Same
        /\ round' = 0 => a' = 0
        /\ round' = round + 1 /\ round < n => a' = a + c
    BY PlanKept DEF PlayInv
  <1>2. /\ n \in Nat \ {0} /\ c \in Nat \ {0} /\ a \in Nat /\ round \in 0..n
        /\ round = n => a = horizon
        /\ frame \in Nat /\ goal \in Nat /\ since \in 0..Burst /\ paused \in BOOLEAN
        /\ seen \in Nat /\ t0 \in Nat /\ at \in Steps /\ Burst \in Nat \ {0}
    <2>1. horizon \in Nat /\ n \in 1..horizon /\ a \in Nat /\ c \in Nat \ {0}
      BY <1>1, PlanFacts, AdvancedFacts, EpisodeAssumption DEF TypeOK
    <2>2. round = n => a = horizon
      BY <1>1, AdvancedFacts
    <2> HIDE DEF n, c, a
    <2> QED BY <1>1, <2>1, <2>2, GameAssumption DEF TypeOK, GameTypeOK, n
  <1> HIDE DEF n, c, a
  <1>3. /\ at \in Still \cup {"poll", "observe"} => round < n
        /\ at = "record" => round = n
        /\ at \in {"boot", "baseline"} => round = 0
        /\ at \in Still \cup {"poll", "observe", "record"} =>
             seen - t0 >= a /\ seen - t0 <= a + round * (Burst - 1)
    BY DEF PlayInv, OnPlan, n, a
  <1>4. GameOK /\ (at = "poll" /\ ~paused => goal = seen + c /\ frame < goal + since)
        /\ (at = "poll" /\ paused => frame < seen + c + Burst)
        /\ (at = "observe" => frame >= seen + c /\ frame < seen + c + Burst)
    BY DEF PlayInv, GameOK, c
  <1>5. SpansHorizon
    BY DEF PlayInv
  <1>6. OnPlan'
    <2> SUFFICES
          /\ at' \in Still \cup {"poll", "observe"} => round' < n
          /\ at' = "record" => round' = n
          /\ at' \in {"boot", "baseline"} => round' = 0
          /\ at' \in Still \cup {"poll", "observe", "record"} =>
               seen' - t0' >= a' /\ seen' - t0' <= a' + round' * (Burst - 1)
      BY <1>1 DEF OnPlan, n, a
    <2> USE DEF Still
    <2>1. CASE BeginEpisode
      BY <1>1, <2>1 DEF BeginEpisode
    <2>2. CASE ObserveBaseline
      <3>1. CASE UNCHANGED <<round, t0, seen>> /\ at' = "unwind"
        BY <3>1
      <3>2. CASE round' = round /\ t0' = frame /\ seen' = frame /\ at' = "ask"
        BY <1>1, <1>2, <1>3, <2>2, <3>2 DEF ObserveBaseline
      <3> QED BY <2>2, <3>1, <3>2 DEF ObserveBaseline, Raise, GoTo
    <2>3. CASE Observe
      <3>1. CASE at' = "unwind"
        BY <3>1
      <3>2. CASE /\ seen' = frame /\ round' = round + 1 /\ t0' = t0
                 /\ at' = IF round + 1 = n THEN "record" ELSE "ask"
        <4>1. /\ round < n /\ a' = a + c
              /\ seen - t0 >= a /\ seen - t0 <= a + round * (Burst - 1)
              /\ frame >= seen + c /\ frame < seen + c + Burst
          BY <1>1, <1>3, <1>4, <2>3, <3>2 DEF Observe
        <4>2. (round + 1) * (Burst - 1) = round * (Burst - 1) + (Burst - 1)
              /\ round * (Burst - 1) \in Nat
          BY <1>2
        <4> QED BY <1>2, <3>2, <4>1, <4>2
      <3> QED BY <2>3, <3>1, <3>2 DEF Observe, Raise, GoTo, n
    <2>4. CASE UNCHANGED <<round, t0, seen>>
               /\ \/ at' \in {at, "idle", "reap", "unwind"}
                  \/ at = "boot" /\ at' = "baseline"
                  \/ at \in Still /\ at' \in Still \cup {"poll"}
                  \/ at = "poll" /\ at' = "observe"
      BY <1>1, <1>3, <2>4
    <2>5. CASE Boot \/ Ask \/ Write \/ Wait
      BY <2>4, <2>5 DEF Boot, Ask, Write, Wait, GoTo
    <2>6. CASE Apply \/ Aim \/ Go \/ Poll
      BY <2>4, <2>6 DEF Apply, Aim, Go, Poll, Raise, GoTo
    <2>7. CASE Record \/ Unwind \/ Reap
      BY <2>4, <2>7 DEF Record, Unwind, Reap, GoTo
    <2>8. CASE World \/ UNCHANGED vars
      BY <2>4, <2>8 DEF World, vars, driverVars
    <2> QED
      BY <2>1, <2>2, <2>3, <2>5, <2>6, <2>7, <2>8 DEF Next, Driver
  <1>7. GameOK'
    <2> SUFFICES
          /\ at' \in Still \cup {"baseline", "observe"} => paused'
          /\ at' \in Still => frame' = seen'
          /\ at' = "poll" /\ ~paused' => goal' = seen' + c' /\ frame' < goal' + since'
          /\ at' = "poll" /\ paused' => frame' < seen' + c' + Burst
          /\ at' = "observe" => frame' >= seen' + c' /\ frame' < seen' + c' + Burst
      BY DEF GameOK, c
    <2> USE DEF Still
    <2>1. CASE at' \in {"idle", "boot", "record", "unwind", "reap"}
      BY <2>1
    <2>2. CASE Boot
      BY <2>1, <2>2 DEF Boot, BootReady, Loaded, GoTo
    <2>3. CASE ObserveBaseline
      BY <1>4, <2>1, <2>3 DEF ObserveBaseline, Raise, GoTo, GameOK, gameVars
    <2>4. CASE at \in Still /\ at' \in Still /\ UNCHANGED <<gameVars, seen>>
      BY <1>4, <2>4 DEF GameOK, gameVars
    <2>5. CASE Ask \/ Write \/ Wait
      BY <2>4, <2>5 DEF Ask, Write, Wait, GoTo
    <2>6. CASE Apply \/ Aim
      BY <2>1, <2>4, <2>6 DEF Apply, Aim, Raise, GoTo
    <2>7. CASE Go
      <3>1. /\ at' \in {"poll", "unwind"} /\ seen' = seen /\ c' = c
            /\ paused /\ frame = seen
        BY <1>1, <1>4, <2>7 DEF Go, GoTo, GameOK
      <3>2. CASE StartAdvance(c)
        BY <1>2, <3>1, <3>2 DEF StartAdvance
      <3>3. CASE UNCHANGED gameVars
        BY <1>2, <3>1, <3>3 DEF gameVars
      <3> QED BY <2>7, <3>2, <3>3 DEF Go, c
    <2>8. CASE Poll
      <3>1. CASE /\ Reached(seen + c) /\ at = "poll" /\ at' = "observe"
                 /\ UNCHANGED <<gameVars, seen, round>>
        BY <1>1, <1>4, <3>1 DEF Reached, gameVars
      <3> QED BY <2>1, <2>8, <3>1 DEF Poll, Raise, GoTo, c
    <2>9. CASE Observe
      BY <1>4, <2>1, <2>9 DEF Observe, Raise, GoTo, GameOK, gameVars
    <2>10. CASE BeginEpisode \/ Record \/ Unwind \/ Reap
      BY <2>1, <2>10 DEF BeginEpisode, Record, Unwind, Reap, GoTo
    <2>11. CASE UNCHANGED <<at, round, seen>> /\ UNCHANGED gameVars
      BY <1>1, <1>4, <2>11 DEF GameOK, gameVars
    <2>12. CASE UNCHANGED <<at, round, seen>> /\ Game
      <3>1. CASE GameDies
        BY <1>1, <1>4, <2>12, <3>1 DEF GameDies, GameOK
      <3>2. CASE GameTick
        BY <1>1, <1>2, <1>4, <2>12, <3>2 DEF GameTick, GameOK
      <3>3. CASE Heartbeat
        <4>1. ~paused /\ since' = 0 /\ frame' = frame /\ goal' = goal /\ c' = c
          BY <1>1, <2>12, <3>3 DEF Heartbeat
        <4>2. at \notin Still \cup {"baseline", "observe"}
          BY <1>4, <4>1 DEF GameOK
        <4>3. paused' => frame >= goal
          BY <3>3 DEF Heartbeat
        <4>4. ~paused' => frame < goal
          <5>1. ~paused' => ~(frame >= goal)
            BY <3>3, Zenon DEF Heartbeat
          <5> QED BY <1>2, <5>1
        <4> QED BY <1>2, <1>4, <2>12, <4>1, <4>2, <4>3, <4>4
      <3> QED BY <2>12, <3>1, <3>2, <3>3 DEF Game
    <2>13. CASE World \/ UNCHANGED vars
      BY <2>11, <2>12, <2>13 DEF World, vars, driverVars
    <2> QED
      BY <2>2, <2>3, <2>5, <2>6, <2>7, <2>8, <2>9, <2>10, <2>13 DEF Next, Driver
  <1>8. SpansHorizon'
    <2>1. CASE Record
      <3>1. seen - t0 \in horizon..(horizon + n * (Burst - 1))
        <4>1. round = n /\ a = horizon /\ horizon \in Nat
              /\ seen - t0 >= a /\ seen - t0 <= a + round * (Burst - 1)
          BY <1>1, <1>2, <1>3, <2>1, EpisodeAssumption DEF Record, TypeOK
        <4>2. round * (Burst - 1) \in Nat
          BY <1>2
        <4> QED BY <1>2, <4>1, <4>2
      <3>2. ASSUME NEW e \in 1..Episodes PROVE span'[e] \in {span[e], seen - t0}
        BY <1>1, <2>1 DEF Record, TypeOK
      <3> QED BY <1>1, <1>5, <3>1, <3>2 DEF SpansHorizon, n
    <2>2. CASE span' = span
      BY <1>1, <1>5, <2>2 DEF SpansHorizon, n
    <2>3. CASE BeginEpisode \/ Boot \/ ObserveBaseline \/ Ask \/ Write \/ Wait
      BY <2>2, <2>3 DEF BeginEpisode, Boot, ObserveBaseline, Ask, Write, Wait, Raise, GoTo
    <2>4. CASE Apply \/ Aim \/ Go \/ Poll \/ Observe \/ Unwind \/ Reap
      BY <2>2, <2>4 DEF Apply, Aim, Go, Poll, Observe, Unwind, Reap, Raise, GoTo
    <2>5. CASE World \/ UNCHANGED vars
      BY <2>2, <2>5 DEF World, vars, driverVars
    <2> QED BY <2>1, <2>3, <2>4, <2>5 DEF Next, Driver
  <1> QED BY <1>6, <1>7, <1>8

LEMMA PlayInit ==
  ASSUME Init PROVE PlayInv
  <1>1. ControllerTypeOK
    <2>1. /\ <<>> \in Seq(Nat) /\ Len(<<>>) <= PipeLines
          /\ <<>> \in Seq(Nat \cup {EOF}) /\ 0 \in 0..MaxNoise /\ 0 \in Nat
      BY PipeAssumption
    <2> QED BY <2>1, Zenon DEF Init, NoController, ControllerTypeOK
  <1>2. GameTypeOK
    <2>1. 0 \in 0..Burst /\ 0 \in Nat
      BY GameAssumption
    <2> QED BY <2>1, Zenon DEF Init, NoGame, GameTypeOK
  <1>3. TypeOK
    <2>1. RoundsFor(horizon) \in Nat
      <3>1. horizon \in Nat /\ MaxChunk \in Nat \ {0}
        BY EpisodeAssumption, PlanAssumption DEF Init
      <3>2. (horizon + MaxChunk - 1) \div MaxChunk \in Nat
        BY <3>1
      <3> QED BY <3>2, PlanAssumption DEF RoundsFor, Greatest
    <2>2. ASSUME NEW m \in Nat PROVE Rounds(horizon, m) \in Nat
      <3>1. horizon \in Nat /\ horizon \div MinChunk \in Nat
        BY EpisodeAssumption, PlanAssumption DEF Init
      <3> QED BY <3>1 DEF Rounds, Greatest, Least
    <2>3. NumRounds \in Nat
      BY <2>1, <2>2, EpisodeAssumption DEF NumRounds, Init
    <2>4. round \in 0..NumRounds
      BY <2>3 DEF Init
    <2> QED BY <1>1, <1>2, <2>4, EpisodeAssumption DEF Init, TypeOK, Steps, NoPair
  <1>4. OnPlan /\ GameOK
    BY DEF Init, OnPlan, GameOK, Still
  <1>5. SpansHorizon
    BY DEF Init, SpansHorizon
  <1> QED BY <1>3, <1>4, <1>5 DEF PlayInv

LEMMA PlayInvariant == Spec => []PlayInv
  <1>1. Init => PlayInv
    BY PlayInit
  <1>2. PlayInv /\ [Next]_vars => PlayInv'
    BY TypeStep, PlayStep DEF PlayInv
  <1> QED BY <1>1, <1>2, PTL DEF Spec

\* Every variable keeps its type, over all episodes of every length.
THEOREM TypeCorrect == Spec => []TypeOK
  <1>1. PlayInv => TypeOK
    BY DEF PlayInv
  <1> QED BY <1>1, PlayInvariant, PTL

\* Every recorded episode spans its horizon, however the driver's calls, the
\* controller and the game failed (run_stepped_episode).
THEOREM HorizonSpanned == Spec => []SpansHorizon
  <1>1. PlayInv => SpansHorizon
    BY DEF PlayInv
  <1> QED BY <1>1, PlayInvariant, PTL

-----------------------------------------------------------------------------
(* Answers are fresh. *)

LEMMA HandleStep ==
  ASSUME HandleOK, [Next]_vars PROVE HandleOK'
  <1>1. CASE Spawn /\ at' = "boot"
    BY <1>1 DEF Spawn, HandleOK
  <1>2. CASE Close
    BY <1>2 DEF Close, HandleOK
  <1>3. CASE proc' = proc /\ host' = host /\ (at' = "idle" => at = "idle")
    BY <1>3 DEF HandleOK
  <1>4. CASE Host /\ proc' = proc /\ at' = at
    BY <1>4 DEF Host, HostReads, HostAnswers, HostPrints, HostEnds, HandleOK
  <1>5. CASE BeginEpisode
    BY <1>1, <1>5 DEF BeginEpisode
  <1>6. CASE Boot \/ ObserveBaseline \/ Ask
    BY <1>3, <1>6 DEF Boot, ObserveBaseline, Ask, Raise, GoTo, controllerVars
  <1>7. CASE Write
    BY <1>3, <1>7 DEF Write, WriteLine, BrokenPipe, GoTo
  <1>8. CASE Wait
    BY <1>2, <1>3, <1>8 DEF Wait, TakeLine, TimeOut
  <1>9. CASE Apply \/ Aim \/ Go \/ Poll \/ Observe \/ Record \/ Unwind
    BY <1>3, <1>9 DEF Apply, Aim, Go, Poll, Observe, Record, Unwind, Raise, GoTo,
                      controllerVars
  <1>10. CASE Reap
    BY <1>2, <1>10 DEF Reap
  <1>11. CASE World
    BY <1>3, <1>4, <1>11 DEF World, driverVars, controllerVars, Host, HostReads,
                             HostAnswers, HostPrints, HostEnds
  <1>12. CASE UNCHANGED vars
    BY <1>3, <1>12 DEF vars, driverVars, controllerVars
  <1> QED
    BY <1>5, <1>6, <1>7, <1>8, <1>9, <1>10, <1>11, <1>12 DEF Next, Driver

LEMMA AskedStep ==
  ASSUME TypeOK, AskedOK, [Next]_vars PROVE AskedOK'
  <1>1. asked \in Nat /\ round \in Nat
    BY PlanFacts, EpisodeAssumption DEF TypeOK, ControllerTypeOK
  <1>2. CASE at' \in {"idle", "record", "unwind", "reap"}
    BY <1>2 DEF AskedOK
  <1>3. CASE BeginEpisode
    BY <1>3 DEF BeginEpisode, Spawn, Answers, AskedOK
  <1>4. CASE UNCHANGED <<asked, proc, dead, round>>
             /\ \/ at' = at
                \/ {at, at'} \subseteq {"boot", "baseline", "ask"}
                \/ {at, at'} \subseteq {"write", "wait"}
                \/ {at, at'} \subseteq {"apply", "aim", "go", "poll", "observe"}
                \/ at \in {"write", "wait"} /\ at' \in {"apply", "aim"}
    BY <1>1, <1>4 DEF AskedOK, Answers
  <1>5. CASE UNCHANGED <<asked, round>> /\ at \in {"write", "wait"}
             /\ at' \in {"apply", "aim"} /\ (~Answers' \/ Answers)
    BY <1>1, <1>5 DEF AskedOK, Answers
  <1>6. CASE Boot \/ ObserveBaseline
    BY <1>2, <1>4, <1>6 DEF Boot, ObserveBaseline, Raise, GoTo, controllerVars
  <1>7. CASE Ask
    BY <1>1, <1>7 DEF Ask, AskedOK, Answers
  <1>8. CASE Write
    BY <1>4, <1>5, <1>8 DEF Write, WriteLine, BrokenPipe, GoTo, Answers
  <1>9. CASE Wait
    BY <1>5, <1>9 DEF Wait, TakeLine, TimeOut, Close, Answers, AskedOK
  <1>10. CASE Apply \/ Aim \/ Go \/ Poll
    BY <1>2, <1>4, <1>10 DEF Apply, Aim, Go, Poll, Raise, GoTo, controllerVars
  <1>11. CASE Observe
    BY <1>1, <1>2, <1>11 DEF Observe, Raise, GoTo, controllerVars, AskedOK, Answers
  <1>12. CASE Record \/ Unwind \/ Reap
    BY <1>2, <1>12 DEF Record, Unwind, Reap, GoTo
  <1>13. CASE World
    BY <1>4, <1>13 DEF World, driverVars, controllerVars, Host, HostReads,
                       HostAnswers, HostPrints, HostEnds
  <1>14. CASE UNCHANGED vars
    BY <1>4, <1>14 DEF vars, driverVars, controllerVars
  <1> QED
    BY <1>3, <1>6, <1>7, <1>8, <1>9, <1>10, <1>11, <1>12, <1>13, <1>14
    DEF Next, Driver

LEMMA LinesStep ==
  ASSUME TypeOK, AskedOK, LinesOK, [Next]_vars PROVE LinesOK'
  <1>1. /\ asked \in Nat /\ round \in Nat
        /\ stdin \in Seq(Nat) /\ lines \in Seq(Nat \cup {EOF})
    BY PlanFacts, EpisodeAssumption DEF TypeOK, ControllerTypeOK
  <1>2. CASE BeginEpisode
    BY <1>2 DEF BeginEpisode, Spawn, LinesOK
  <1>3. CASE Ask
    BY <1>1, <1>3 DEF Ask, LinesOK
  <1>4. CASE UNCHANGED <<controllerVars, answer>> /\ (at' = "apply" => at = "apply")
    BY <1>4 DEF controllerVars, LinesOK
  <1>5. CASE Boot \/ ObserveBaseline \/ Apply \/ Aim \/ Go \/ Poll \/ Observe
    BY <1>4, <1>5 DEF Boot, ObserveBaseline, Apply, Aim, Go, Poll, Observe, Raise, GoTo
  <1>6. CASE Record \/ Unwind
    BY <1>4, <1>6 DEF Record, Unwind, GoTo
  <1>7. CASE Write
    <2>1. CASE WriteLine
      <3>1. asked \in 1..asked
        BY <1>1, <1>7 DEF Write, AskedOK
      <3>2. \A k \in 1..Len(stdin') : stdin'[k] \in 1..asked
        BY <1>1, <2>1, <3>1 DEF WriteLine, LinesOK
      <3> QED BY <1>7, <2>1, <3>2 DEF Write, WriteLine, GoTo, BrokenPipe, LinesOK
    <2>2. CASE BrokenPipe /\ GoTo("aim")
      BY <2>2 DEF BrokenPipe, GoTo, LinesOK
    <2> QED BY <1>7, <2>1, <2>2 DEF Write
  <1>8. CASE Wait
    <2>1. CASE TakeLine
      <3>1. Head(lines) \in {EOF, Noise} \cup 1..asked
        BY <1>1, <2>1 DEF TakeLine, LinesOK
      <3>2. \A k \in 1..Len(lines') : lines'[k] \in {EOF, Noise} \cup 1..asked
        BY <1>1, <2>1 DEF TakeLine, LinesOK
      <3>3. at' = "apply" => answer' \in 1..asked
        BY <1>1, <1>8, <3>1 DEF Wait, EOF, Noise
      <3> QED BY <2>1, <3>2, <3>3 DEF TakeLine, LinesOK
    <2>2. CASE TimeOut /\ at' = "aim"
      BY <2>2 DEF TimeOut, Close, LinesOK
    <2> QED BY <1>8, <2>1, <2>2 DEF Wait
  <1>9. CASE Reap
    BY <1>9 DEF Reap, Close, GoTo, LinesOK
  <1>10. CASE Host /\ UNCHANGED driverVars
    <2>1. CASE HostReads
      <3>1. Head(stdin) \in 1..asked
        BY <1>1, <2>1 DEF HostReads, LinesOK
      <3>2. \A k \in 1..Len(stdin') : stdin'[k] \in 1..asked
        BY <1>1, <2>1 DEF HostReads, LinesOK
      <3> QED BY <1>10, <2>1, <3>1, <3>2 DEF HostReads, driverVars, LinesOK
    <2>2. ASSUME NEW x \in {EOF, Noise} \cup 1..asked, lines' = Append(lines, x)
          PROVE  \A k \in 1..Len(lines') : lines'[k] \in {EOF, Noise} \cup 1..asked
      <3>1. x \in Nat \cup {EOF}
        BY <1>1 DEF Noise
      <3> QED BY <1>1, <2>2, <3>1 DEF LinesOK
    <2>3. CASE HostAnswers
      <3>1. deciding \in 1..asked
        BY <2>3 DEF HostAnswers, LinesOK
      <3> QED BY <1>10, <2>2, <2>3, <3>1 DEF HostAnswers, driverVars, LinesOK
    <2>4. CASE HostPrints
      BY <1>10, <2>2, <2>4 DEF HostPrints, driverVars, LinesOK
    <2>5. CASE HostEnds
      BY <1>10, <2>2, <2>5 DEF HostEnds, driverVars, LinesOK
    <2> QED BY <1>10, <2>1, <2>3, <2>4, <2>5 DEF Host
  <1>11. CASE World \/ UNCHANGED vars
    BY <1>4, <1>10, <1>11 DEF World, vars, driverVars
  <1> QED
    BY <1>2, <1>3, <1>5, <1>6, <1>7, <1>8, <1>9, <1>11 DEF Next, Driver

LEMMA ShortSequences ==
  ASSUME NEW x, NEW y
  PROVE  /\ Append(<<>>, x) = <<x>> /\ Append(<<x>>, y) = <<x, y>>
         /\ Head(<<x>>) = x /\ Tail(<<x>>) = <<>>
         /\ Head(<<x, y>>) = x /\ Tail(<<x, y>>) = <<y>>
         /\ <<x>> # <<>> /\ <<x, y>> # <<>> /\ <<x, y>> # <<y>>
  <1>1. Append(<<x>>, y) = <<x, y>>
    <2> DEFINE s == Append(<<x>>, y)  t == <<x, y>>
    <2>1. s \in Seq({x, y}) /\ Len(s) = 2 /\ s[1] = x /\ s[2] = y
      OBVIOUS
    <2>2. t \in Seq({x, y}) /\ Len(t) = 2 /\ t[1] = x /\ t[2] = y
      OBVIOUS
    <2> HIDE DEF s, t
    <2>3. \A i \in 1..Len(s) : s[i] = t[i]
      BY <2>1, <2>2
    <2>4. s = t
      BY <2>1, <2>2, <2>3, SeqEqual
    <2> QED BY <2>4 DEF s, t
  <1>2. Append(<<>>, x) = <<x>> /\ Head(<<x>>) = x /\ Tail(<<x>>) = <<>>
    OBVIOUS
  <1>3. Head(<<x, y>>) = x /\ Tail(<<x, y>>) = <<y>>
    OBVIOUS
  <1>4. Len(<<x>>) = 1 /\ Len(<<x, y>>) = 2 /\ Len(<<>>) = 0
    OBVIOUS
  <1> QED BY <1>1, <1>2, <1>3, <1>4

\* A step of a controller that has printed nothing but its answers.
LEMMA HostKeepsPipes ==
  ASSUME TypeOK, Host, noise' = 0
  PROVE  /\ (Quiet => Quiet') /\ (Pending => Pending')
         /\ asked' = asked /\ proc' = proc /\ dead' = dead /\ noise = 0
  <1>1. ~HostPrints
    BY DEF HostPrints, TypeOK, ControllerTypeOK
  <1>2. CASE HostReads
    <2>1. Quiet => FALSE
      BY <1>2 DEF HostReads, Quiet
    <2>2. Pending => Pending'
      <3>1. SUFFICES ASSUME stdin = <<asked>>, lines = <<>> PROVE Pending'
        BY <1>2 DEF HostReads, Pending
      <3>2. deciding' = asked /\ stdin' = <<>>
        BY <1>2, <3>1, ShortSequences DEF HostReads
      <3> QED BY <1>2, <3>1, <3>2 DEF HostReads, Pending
    <2> QED BY <1>2, <2>1, <2>2 DEF HostReads
  <1>3. CASE HostAnswers
    <2>1. Quiet => FALSE
      BY <1>3 DEF HostAnswers, Quiet
    <2>2. Pending => Pending'
      <3>1. SUFFICES ASSUME stdin = <<>>, lines = <<>>, deciding = asked PROVE Pending'
        BY <1>3 DEF HostAnswers, Pending
      <3>2. lines' = <<asked>>
        BY <1>3, <3>1, ShortSequences DEF HostAnswers
      <3> QED BY <1>3, <3>1, <3>2 DEF HostAnswers, Pending
    <2> QED BY <1>3, <2>1, <2>2 DEF HostAnswers
  <1>4. CASE HostEnds
    <2>1. host \in {"ready", "busy"} /\ host' \in {"shut", "gone"}
          /\ stdin' = stdin /\ asked' = asked /\ proc' = proc /\ dead' = dead
          /\ lines' = Append(lines, EOF) /\ noise = 0
      BY <1>4 DEF HostEnds
    <2>2. CASE lines = <<>>
      <3>1. lines' = <<EOF>>
        BY <2>1, <2>2, ShortSequences
      <3> QED BY <2>1, <3>1 DEF Quiet, Pending
    <2>3. CASE stdin = <<>> /\ lines = <<asked>>
      <3>1. lines' = <<asked, EOF>> /\ lines # <<>>
        BY <2>1, <2>3, ShortSequences
      <3> QED BY <2>1, <2>3, <3>1 DEF Quiet, Pending
    <2>4. Quiet \/ Pending => lines = <<>> \/ (stdin = <<>> /\ lines = <<asked>>)
      BY <2>1 DEF Quiet, Pending
    <2> QED BY <2>1, <2>2, <2>3, <2>4
  <1> QED BY <1>1, <1>2, <1>3, <1>4 DEF Host

LEMMA PipesStep ==
  ASSUME TypeOK, HandleOK, AskedOK, PipesOK, [Next]_vars
  PROVE  PipesOK'
  <1>1. asked \in Nat /\ round \in Nat
    BY PlanFacts, EpisodeAssumption DEF TypeOK, ControllerTypeOK
  <1>2. noise = 0 =>
        /\ Answers /\ at # "wait" => Quiet
        /\ at = "wait" => Pending
        /\ at = "apply" => answer = round + 1
    BY DEF PipesOK
  <1> SUFFICES ASSUME noise' = 0
               PROVE
               /\ Answers' /\ at' # "wait" => Quiet'
               /\ at' = "wait" => Pending'
               /\ at' = "apply" => answer' = round' + 1
    BY DEF PipesOK
  <1>3. CASE BeginEpisode
    BY <1>3 DEF BeginEpisode, Spawn, Answers, Quiet
  <1>4. CASE UNCHANGED <<controllerVars, answer, round>>
             /\ (at' # "wait" => at # "wait") /\ (at' = "wait" => at = "wait")
             /\ (at' = "apply" => at = "apply")
    BY <1>2, <1>4 DEF controllerVars, Answers, Quiet, Pending
  <1>5. CASE Boot \/ ObserveBaseline \/ Apply \/ Aim \/ Go \/ Poll
    BY <1>4, <1>5 DEF Boot, ObserveBaseline, Apply, Aim, Go, Poll, Raise, GoTo
  <1>6. CASE Observe \/ Record \/ Unwind \/ Reap
    BY <1>2, <1>6 DEF Observe, Record, Unwind, Reap, Close, Raise, GoTo,
                      controllerVars, Answers, Quiet
  <1>7. CASE Ask
    BY <1>2, <1>7 DEF Ask, Answers, Quiet
  <1>8. CASE Write
    <2>1. Quiet
      BY <1>2, <1>8 DEF Write, WriteLine, BrokenPipe, AskedOK
    <2>2. CASE WriteLine /\ GoTo("wait")
      BY <2>1, <2>2, ShortSequences DEF WriteLine, GoTo, Quiet, Pending
    <2>3. CASE BrokenPipe /\ GoTo("aim")
      BY <2>3 DEF BrokenPipe, GoTo, Answers
    <2> QED BY <1>8, <2>2, <2>3 DEF Write
  <1>9. CASE Wait
    <2>1. Pending /\ asked = round + 1
      BY <1>2, <1>9 DEF Wait, TakeLine, TimeOut, Close, AskedOK
    <2>2. CASE TimeOut /\ at' = "aim"
      BY <2>2 DEF TimeOut, Close, Answers
    <2>3. CASE TakeLine /\ lines = <<EOF>>
      <3>1. Head(lines) = EOF
        BY <2>3, ShortSequences
      <3>2. dead' = TRUE /\ at' # "apply" /\ at' # "wait"
        <4>1. ~(Head(lines) > Noise) /\ lines # <<>>
          BY <2>3, <3>1 DEF TakeLine, EOF, Noise
        <4>2. dead' = TRUE
          BY <2>3, <3>1, Zenon DEF TakeLine
        <4> QED BY <1>9, <2>3, <4>1, <4>2 DEF Wait, TakeLine, TimeOut
      <3> QED BY <3>2 DEF Answers
    <2>4. CASE TakeLine /\ lines # <<EOF>>
      <3>1. /\ stdin = <<>>
            /\ \/ host = "ready" /\ lines = <<asked>>
               \/ host \in {"shut", "gone"} /\ lines = <<asked, EOF>>
        BY <2>1, <2>4 DEF Pending, TakeLine
      <3>2. Quiet' /\ Head(lines) = asked
        <4>1. Head(lines) = asked /\ lines' = Tail(lines) /\ stdin' = <<>> /\ host' = host
          BY <2>4, <3>1, ShortSequences DEF TakeLine
        <4>2. CASE host = "ready" /\ lines = <<asked>>
          <5>1. lines' = <<>>
            BY <4>1, <4>2, ShortSequences
          <5> QED BY <4>1, <4>2, <5>1 DEF Quiet
        <4>3. CASE host \in {"shut", "gone"} /\ lines = <<asked, EOF>>
          <5>1. lines' = <<EOF>>
            BY <4>1, <4>3, ShortSequences
          <5> QED BY <4>1, <4>3, <5>1 DEF Quiet
        <4> QED BY <3>1, <4>2, <4>3
      <3>3. /\ at' \in {"apply", "aim"} /\ round' = round
            /\ at' = "apply" => answer' = asked
        BY <1>9, <3>2 DEF Wait
      <3> QED BY <2>1, <3>2, <3>3
    <2> QED BY <1>9, <2>2, <2>3, <2>4 DEF Wait
  <1>10. CASE Host /\ UNCHANGED driverVars
    <2>1. (Quiet => Quiet') /\ (Pending => Pending') /\ Answers' = Answers /\ noise = 0
      BY <1>10, HostKeepsPipes DEF Answers
    <2> QED BY <1>2, <1>10, <2>1 DEF driverVars
  <1>11. CASE World \/ UNCHANGED vars
    BY <1>4, <1>10, <1>11 DEF World, vars, driverVars
  <1> QED
    BY <1>3, <1>5, <1>6, <1>7, <1>8, <1>9, <1>11 DEF Next, Driver

LEMMA PipesInvariant == Spec => []PipesInv
  <1>1. Init => PipesInv
    <2>1. Init => TypeOK
      BY PlayInit DEF PlayInv
    <2>2. Init => HandleOK /\ AskedOK
      BY DEF Init, NoController, HandleOK, AskedOK
    <2>3. Init => LinesOK
      BY DEF Init, NoController, LinesOK
    <2>4. Init => PipesOK
      BY DEF Init, NoController, PipesOK, Answers
    <2> QED BY <2>1, <2>2, <2>3, <2>4 DEF PipesInv
  <1>2. PipesInv /\ TypeOK' /\ [Next]_vars => PipesInv'
    <2>1. PipesInv /\ [Next]_vars => HandleOK' /\ AskedOK' /\ LinesOK'
      BY HandleStep, AskedStep, LinesStep DEF PipesInv
    <2>2. PipesInv /\ [Next]_vars => PipesOK'
      BY PipesStep DEF PipesInv
    <2> QED BY <2>1, <2>2 DEF PipesInv
  <1> QED BY <1>1, <1>2, TypeCorrect, PTL DEF Spec

\* The intents that are applied answer the observation in hand, and the game has
\* not moved since: PersistentController's late answers never reach the fort, as
\* long as the policy prints nothing of its own.
THEOREM FreshAnswers == Spec => []AnswersFresh
  <1>1. PlayInv /\ PipesInv => AnswersFresh
    <2> SUFFICES ASSUME PlayInv, PipesInv, at = "apply" PROVE AnswersFresh
      BY DEF AnswersFresh
    <2>1. paused /\ frame = seen
      BY DEF PlayInv, GameOK, Still
    <2>2. round \in Nat /\ asked \in Nat
      BY PlanFacts, EpisodeAssumption DEF PlayInv, TypeOK, ControllerTypeOK
    <2>3. answer \in 1..(round + 1)
      BY <2>2 DEF PipesInv, LinesOK, AskedOK
    <2>4. noise = 0 => answer = round + 1
      BY DEF PipesInv, PipesOK
    <2> QED BY <2>1, <2>3, <2>4 DEF AnswersFresh
  <1> QED BY <1>1, PlayInvariant, PipesInvariant, PTL

\* No controller survives its episode, whatever it printed, and whether it
\* answered, hung, closed its pipes or died (score_submission's finally block).
THEOREM ControllersReaped == Spec => []ControllerReaped
  <1>1. PipesInv => ControllerReaped
    BY DEF PipesInv, HandleOK, ControllerReaped
  <1> QED BY <1>1, PipesInvariant, PTL
-----------------------------------------------------------------------------
(* No round is too long. *)

LEMMA ChunkAtMost ==
  ASSUME NEW h \in Nat \ {0}, NEW n \in Nat \ {0}, NEW m \in Nat, NEW i \in Nat,
         h <= n * m
  PROVE  Chunk(h, n, i) <= m
  <1> DEFINE q == h \div n  r == h % n
  <1>1. q \in Nat /\ r \in 0..(n - 1) /\ h = n * q + r
    OBVIOUS
  <1>2. Chunk(h, n, i) = q + (IF i < r THEN 1 ELSE 0)
    BY DEF Chunk
  <1> HIDE DEF q, r
  <1>3. q <= m
    <2> SUFFICES ASSUME q >= m + 1 PROVE FALSE
      BY <1>1
    <2>1. n * q >= n * (m + 1) /\ n * (m + 1) = n * m + n
      BY <1>1
    <2> QED BY <1>1, <2>1
  <1>4. q = m => r = 0
    BY <1>1
  <1> QED BY <1>1, <1>2, <1>3, <1>4

\* As many rounds as rounds_for gives are enough for the horizon, ...
LEMMA RoundsForEnough ==
  ASSUME NEW h \in Nat \ {0}
  PROVE  RoundsFor(h) \in Nat \ {0} /\ h <= RoundsFor(h) * MaxChunk
  <1> DEFINE c == (h + MaxChunk - 1) \div MaxChunk  r == (h + MaxChunk - 1) % MaxChunk
  <1>1. c \in Nat /\ r \in 0..(MaxChunk - 1) /\ h + MaxChunk - 1 = MaxChunk * c + r
    BY PlanAssumption
  <1>2. RoundsFor(h) = Greatest(DefaultRounds, c)
    BY DEF RoundsFor
  <1> HIDE DEF c, r
  <1>3. h <= c * MaxChunk
    BY <1>1, PlanAssumption
  <1>4. RoundsFor(h) \in Nat \ {0} /\ RoundsFor(h) >= c
    BY <1>1, <1>2, PlanAssumption DEF Greatest
  <1>5. RoundsFor(h) * MaxChunk >= c * MaxChunk
    BY <1>1, <1>4, PlanAssumption
  <1> QED BY <1>1, <1>3, <1>4, <1>5, PlanAssumption

\* ... and so are the fewer that chunk_plan makes of them to keep them long.
LEMMA FewerRoundsEnough ==
  ASSUME NEW h \in Nat \ {0}, NEW a \in Nat \ {0}, h <= a * MaxChunk
  PROVE  h <= Rounds(h, a) * MaxChunk
  <1> DEFINE k == h \div MinChunk  s == h % MinChunk
  <1>1. k \in Nat /\ s \in 0..(MinChunk - 1) /\ h = MinChunk * k + s
    BY PlanAssumption
  <1>2. Rounds(h, a) = Greatest(1, Least(a, Greatest(1, k)))
    BY DEF Rounds
  <1> HIDE DEF k, s
  <1>3. Rounds(h, a) = a \/ (k = 0 /\ Rounds(h, a) = 1) \/ (k > 0 /\ Rounds(h, a) = k)
    BY <1>1, <1>2 DEF Greatest, Least
  <1>4. CASE k = 0 /\ Rounds(h, a) = 1
    <2>1. h < MinChunk /\ MinChunk <= MaxChunk
      BY <1>1, <1>4, PlanAssumption, ChunkAssumption
    <2> QED BY <1>4, <2>1, PlanAssumption
  <1>5. CASE k > 0 /\ Rounds(h, a) = k
    <2>1. s <= k * (MinChunk - 1)
      BY <1>1, <1>5, PlanAssumption
    <2>2. h <= k * (2 * MinChunk - 1)
      BY <1>1, <2>1, PlanAssumption
    <2>3. k * (2 * MinChunk - 1) <= k * MaxChunk
      BY <1>1, PlanAssumption, ChunkAssumption
    <2> QED BY <1>1, <1>5, <2>2, <2>3, PlanAssumption
  <1> QED BY <1>3, <1>4, <1>5

\* Where the driver chooses the rounds, the agent looks again after MaxChunk ticks
\* at the latest, for every horizon, also where chunk_plan makes fewer rounds than
\* rounds_for asked for so that none gets too short.
THEOREM RoundsAreBounded == Spec => []ChunksBounded
  <1>1. TypeOK => ChunksBounded
    <2> SUFFICES ASSUME TypeOK, rounds = 0 PROVE ThisChunk <= MaxChunk
      BY DEF ChunksBounded
    <2>1. horizon \in Nat \ {0} /\ NumRounds \in Nat \ {0} /\ round \in Nat
      <3>1. horizon \in Nat \ {0} /\ NumRounds \in 1..horizon /\ round \in 0..NumRounds
        BY PlanFacts, EpisodeAssumption DEF TypeOK
      <3> QED BY <3>1
    <2>2. NumRounds = Rounds(horizon, RoundsFor(horizon))
      BY DEF NumRounds
    <2>3. horizon <= NumRounds * MaxChunk
      BY <2>1, <2>2, RoundsForEnough, FewerRoundsEnough
    <2> QED BY <2>1, <2>3, ChunkAtMost, PlanAssumption DEF ThisChunk
  <1> QED BY <1>1, TypeCorrect, PTL
-----------------------------------------------------------------------------
(* Scoring is over after a bounded number of the driver's steps. *)

\* The steps an episode takes at most, and those left of the one that is on:
\* eight for each round that is not over, and its beginning and end.
EpisodeSteps == 8 * NumRounds + 6

RoundsLeft == 8 * (NumRounds - round)

EpisodeLeft ==
  CASE at = "idle"     -> 0
    [] at = "reap"     -> 1
    [] at = "unwind"   -> 2
    [] at = "record"   -> 3
    [] at = "observe"  -> RoundsLeft - 4
    [] at = "poll"     -> RoundsLeft - 3
    [] at = "go"       -> RoundsLeft - 2
    [] at = "aim"      -> RoundsLeft - 1
    [] at = "apply"    -> RoundsLeft
    [] at = "wait"     -> RoundsLeft + 1
    [] at = "write"    -> RoundsLeft + 2
    [] at = "ask"      -> RoundsLeft + 3
    [] at = "baseline" -> RoundsLeft + 4
    [] OTHER           -> RoundsLeft + 5

Left == (Episodes - episode) * EpisodeSteps + EpisodeLeft

\* An episode that is on was counted.
Begun == at # "idle" => episode >= 1

\* The ranges of what is left; it is less than a whole episode.
LEMMA EpisodeLeftFacts ==
  ASSUME TypeOK, OnPlan
  PROVE  /\ NumRounds \in Nat \ {0} /\ round \in 0..NumRounds /\ at \in Steps
         /\ Episodes \in Nat /\ episode \in 0..Episodes
         /\ EpisodeSteps \in Nat \ {0}
         /\ EpisodeLeft \in Nat /\ EpisodeLeft < EpisodeSteps
         /\ at = "idle" => EpisodeLeft = 0
  <1>1. NumRounds \in Nat \ {0} /\ round \in 0..NumRounds /\ at \in Steps
    <2>1. horizon \in Nat /\ NumRounds \in 1..horizon
      BY PlanFacts, EpisodeAssumption DEF TypeOK
    <2>2. round \in 0..NumRounds /\ at \in Steps
      BY DEF TypeOK
    <2> HIDE DEF NumRounds, Steps
    <2> QED BY <2>1, <2>2
  <1>2. Episodes \in Nat /\ episode \in 0..Episodes
    BY EpisodeAssumption DEF TypeOK
  <1>3. EpisodeSteps \in Nat \ {0}
    BY <1>1 DEF EpisodeSteps
  <1>4. EpisodeLeft \in Nat /\ EpisodeLeft < EpisodeSteps
    BY <1>1 DEF EpisodeLeft, EpisodeSteps, RoundsLeft, OnPlan, Still, Steps
  <1>5. at = "idle" => EpisodeLeft = 0
    BY DEF EpisodeLeft
  <1> QED BY <1>1, <1>2, <1>3, <1>4, <1>5

\* All that is left is at most what all the episodes take.
LEMMA LeftBound ==
  ASSUME TypeOK, OnPlan, Begun
  PROVE  Left \in 0..(Episodes * EpisodeSteps)
  <1> DEFINE k == Episodes - episode  c == EpisodeSteps  l == EpisodeLeft
  <1>1. /\ k \in Nat /\ c \in Nat \ {0} /\ l \in Nat /\ l < c
        /\ Episodes \in Nat /\ episode \in Nat /\ Episodes = k + episode
        /\ episode = 0 => l = 0
    BY EpisodeLeftFacts DEF Begun
  <1>2. Left = k * c + l
    BY DEF Left
  <1> HIDE DEF k, c, l
  <1>3. k * c \in Nat /\ episode * c \in Nat /\ Episodes * c = k * c + episode * c
    BY <1>1
  <1>4. episode > 0 => episode * c >= c
    BY <1>1
  <1>5. Left \in Nat /\ Left <= Episodes * c
    BY <1>1, <1>2, <1>3, <1>4
  <1>6. Episodes * c \in Nat
    BY <1>1
  <1>7. Left \in 0..(Episodes * c)
    BY <1>5, <1>6
  <1> QED BY <1>7 DEF c

\* A new episode is counted for all its steps, ...
LEMMA BeginCounts ==
  ASSUME TypeOK, OnPlan, BeginEpisode
  PROVE  Left' < Left
  <1>1. NumRounds' = NumRounds /\ Episodes' = Episodes
    BY DEF BeginEpisode, NumRounds
  <1>2. EpisodeSteps' = EpisodeSteps
    BY <1>1 DEF EpisodeSteps
  <1>3. EpisodeLeft = 0 /\ EpisodeLeft' = EpisodeSteps - 1
    BY <1>1, EpisodeLeftFacts
       DEF BeginEpisode, EpisodeLeft, RoundsLeft, EpisodeSteps
  <1>4. episode' = episode + 1
    BY DEF BeginEpisode
  <1> DEFINE k == Episodes - episode  c == EpisodeSteps
  <1>5. k \in Int /\ c \in Nat \ {0} /\ Episodes - (episode + 1) = k - 1
    BY EpisodeLeftFacts
  <1>6. Left = k * c /\ Left' = (k - 1) * c + (c - 1)
    <2>1. Left = k * c + 0
      BY <1>3 DEF Left
    <2>2. Left' = (Episodes - (episode + 1)) * c + (c - 1)
      BY <1>2, <1>3, <1>4 DEF Left
    <2> HIDE DEF k, c
    <2> QED BY <1>5, <2>1, <2>2
  <1> HIDE DEF k, c
  <1>7. (k - 1) * c = k * c - c /\ k * c \in Int
    BY <1>5
  <1> QED BY <1>5, <1>6, <1>7

\* ... and each of them brings its end nearer.
LEMMA EpisodeLeftStep ==
  ASSUME TypeOK, OnPlan, Driver, ~BeginEpisode
  PROVE  EpisodeLeft' \in Int /\ EpisodeLeft' < EpisodeLeft /\ episode' = episode
  <1>1. NumRounds' = NumRounds
    BY PartSteps DEF Next
  <1>2. /\ NumRounds \in Nat \ {0} /\ round \in 0..NumRounds
        /\ at \in Still \cup {"poll", "observe"} => round < NumRounds
    BY EpisodeLeftFacts DEF OnPlan
  <1> USE <1>1, <1>2 DEF EpisodeLeft, RoundsLeft, Still
  <1>3. CASE Boot
    BY <1>3 DEF Boot, GoTo
  <1>4. CASE ObserveBaseline
    BY <1>4 DEF ObserveBaseline, Raise, GoTo
  <1>5. CASE Ask
    BY <1>5 DEF Ask
  <1>6. CASE Write
    BY <1>6 DEF Write, GoTo
  <1>7. CASE Wait
    BY <1>7 DEF Wait
  <1>8. CASE Apply
    BY <1>8 DEF Apply, Raise, GoTo
  <1>9. CASE Aim
    BY <1>9 DEF Aim, Raise, GoTo
  <1>10. CASE Go
    BY <1>10 DEF Go, GoTo
  <1>11. CASE Poll
    BY <1>11 DEF Poll, Raise, GoTo
  <1>12. CASE Observe
    BY <1>12 DEF Observe, Raise, GoTo
  <1>13. CASE Record
    BY <1>13 DEF Record
  <1>14. CASE Unwind
    BY <1>14 DEF Unwind, GoTo
  <1>15. CASE Reap
    BY <1>15 DEF Reap, GoTo
  <1> HIDE DEF EpisodeLeft
  <1> QED
    BY <1>3, <1>4, <1>5, <1>6, <1>7, <1>8, <1>9, <1>10, <1>11, <1>12, <1>13,
       <1>14, <1>15 DEF Driver

\* The driver takes from it; the controller and the game do not touch it.
LEMMA LeftStep ==
  ASSUME TypeOK, OnPlan, [Next]_vars
  PROVE  /\ Driver => Left' < Left
         /\ ~Driver => Left' = Left
  <1>1. NumRounds' = NumRounds /\ EpisodeSteps' = EpisodeSteps
    BY PartSteps DEF EpisodeSteps
  <1>2. CASE BeginEpisode
    BY <1>2, BeginCounts DEF Driver
  <1>3. CASE Driver /\ ~BeginEpisode
    <2> DEFINE m == (Episodes - episode) * EpisodeSteps
    <2>1. Left = m + EpisodeLeft /\ Left' = m + EpisodeLeft'
      BY <1>1, <1>3, EpisodeLeftStep DEF Left
    <2>2. m \in Int /\ EpisodeLeft \in Int
      BY EpisodeLeftFacts
    <2>3. EpisodeLeft' \in Int /\ EpisodeLeft' < EpisodeLeft
      BY <1>3, EpisodeLeftStep
    <2> HIDE DEF m
    <2>4. \A a, x, y \in Int : x < y => a + x < a + y
      OBVIOUS
    <2>5. m + EpisodeLeft' < m + EpisodeLeft
      BY <2>2, <2>3, <2>4, Zenon
    <2>6. Left' < Left
      BY <2>1, <2>5, Zenon
    <2> QED BY <1>3, <2>6
  <1>4. CASE ~Driver
    <2>1. UNCHANGED driverVars
      BY <1>4 DEF Next, World, vars
    <2>2. EpisodeLeft' = EpisodeLeft /\ episode' = episode
      BY <1>1, <2>1 DEF driverVars, EpisodeLeft, RoundsLeft
    <2>3. Left' = Left
      BY <1>1, <2>2 DEF Left
    <2> QED BY <1>4, <2>3
  <1> QED BY <1>2, <1>3, <1>4

\* Scoring takes at most 8 * NumRounds + 6 steps of the driver for each episode,
\* however the controller answers, hangs or ends and whenever the game dies; and
\* neither of the two can undo any of them (score_submission,
\* run_stepped_episode).  What ScoringEnds adds is that the steps are taken.
THEOREM BoundedScoring ==
    Spec => /\ [](Left \in 0..(Episodes * EpisodeSteps))
            /\ [][/\ Driver => Left' < Left
                  /\ ~Driver => Left' = Left]_vars
  <1>1. Init => Begun
    BY DEF Init, Begun
  <1>2. PlayInv /\ Begun /\ [Next]_vars => Begun'
    <2> SUFFICES ASSUME PlayInv, Begun, [Next]_vars PROVE Begun'
      OBVIOUS
    <2>1. episode \in Nat
      BY EpisodeAssumption DEF PlayInv, TypeOK
    <2>2. CASE BeginEpisode
      BY <2>1, <2>2 DEF BeginEpisode, Begun
    <2>3. CASE episode' = episode /\ at # "idle"
      BY <2>3 DEF Begun
    <2>4. CASE UNCHANGED driverVars
      BY <2>4 DEF driverVars, Begun
    <2>5. Driver /\ ~BeginEpisode => episode' = episode /\ at # "idle"
      BY DEF Driver, Boot, ObserveBaseline, Ask, Write, Wait, Apply, Aim, Go,
             Poll, Observe, Record, Unwind, Reap, Raise, GoTo
    <2>6. ~Driver => UNCHANGED driverVars
      BY DEF Next, World, vars
    <2> QED BY <2>2, <2>3, <2>4, <2>5, <2>6
  <1>3. PlayInv /\ Begun => Left \in 0..(Episodes * EpisodeSteps)
    BY LeftBound DEF PlayInv
  <1>4. PlayInv /\ [Next]_vars =>
          [/\ Driver => Left' < Left
           /\ ~Driver => Left' = Left]_vars
    BY LeftStep DEF PlayInv
  <1> QED BY <1>1, <1>2, <1>3, <1>4, PlayInvariant, PTL DEF Spec
=============================================================================
