----------------------------- MODULE GameSession -----------------------------
(***************************************************************************)
(* One headless Dwarf Fortress on the episode's port, as DFSession sees it *)
(* (session.py, bonsai_session.sh, bonsai-advance2.lua).  Every call to it *)
(* is a dfhack-run process of its own that may answer, answer nothing, or  *)
(* time out; the retries a call makes are part of its outcome.             *)
(***************************************************************************)
EXTENDS Integers

CONSTANTS Burst,  \* the most simulation ticks between two graphic frames
          Crashes \* whether the game may crash or hang, its killing included

ASSUME GameAssumption == Burst \in Nat \ {0} /\ Crashes \in BOOLEAN

VARIABLES
  fort,    \* whether a fort runs on the port
  booted,  \* self.booted
  frame,   \* world.frame_counter, from the load of the save
  paused,  \* pause_state
  goal,    \* where the script of the current advance pauses
  since    \* ticks since its heartbeat last looked

gameVars == <<fort, booted, frame, paused, goal, since>>

GameTypeOK ==
  /\ fort \in BOOLEAN /\ booted \in BOOLEAN /\ paused \in BOOLEAN
  /\ frame \in Nat /\ goal \in Nat /\ since \in 0..Burst

NoGame ==
  /\ fort = FALSE /\ booted = FALSE /\ paused = TRUE
  /\ frame = 0 /\ goal = 0 /\ since = 0

Loaded == frame' = 0 /\ paused' = TRUE /\ goal' = 0 /\ since' = 0

\* boot() up to READY. The script kills what is left on the port first.
BootReady == fort' = TRUE /\ booted' = TRUE /\ Loaded

\* No READY: the script gave up, or was given up on, before or after it
\* started the game.
BootFails == fort' \in BOOLEAN /\ booted' = FALSE /\ Loaded

\* bonsai-advance2: the script pauses n ticks from the current frame. Its
\* heartbeat runs once at once.
StartAdvance(n) ==
  /\ fort
  /\ goal' = frame + n /\ paused' = FALSE /\ since' = 0
  /\ UNCHANGED <<fort, booted, frame>>

\* close(): a session that has not booted has nothing to kill; the kill itself
\* may hang and is then given up.
CloseSession ==
  /\ booted' = FALSE
  /\ \/ fort' = (fort /\ ~booted)
     \/ Crashes /\ fort' = fort
  /\ UNCHANGED <<frame, paused, goal, since>>

GameTick ==
  /\ fort /\ ~paused /\ since < Burst
  /\ frame' = frame + 1 /\ since' = since + 1
  /\ UNCHANGED <<fort, booted, paused, goal>>

\* Once per graphic frame.
Heartbeat ==
  /\ fort /\ ~paused /\ since > 0
  /\ paused' = (frame >= goal) /\ since' = 0
  /\ UNCHANGED <<fort, booted, frame, goal>>

GameDies ==
  /\ Crashes /\ fort
  /\ fort' = FALSE
  /\ UNCHANGED <<booted, frame, paused, goal, since>>

Game == GameTick \/ Heartbeat \/ GameDies
=============================================================================
