----------------------------- MODULE ProbeGuard -----------------------------
(***************************************************************************)
(* The probe guard (probe_guard.py): one call of run_guarded_probe, which  *)
(* makes sure that the game's runtime answers, starts the probe in a group *)
(* of processes of its own, reads its output and stops it when its time is *)
(* up.  Its caller may have less patience than it and kill it.             *)
(*                                                                         *)
(* A group is its leader and at most one other process, which may hold the *)
(* pipe of the output or have let go of it (apart).  Time passes in the    *)
(* calls that wait; a signal is delivered at once, but a process that is   *)
(* killed may take its time to end.                                        *)
(***************************************************************************)
EXTENDS Integers

CONSTANTS
  CheckTime,   \* time-out of a check of the runtime (5 s)
  StartTime,   \* time-out of systemctl start (15 s)
  ReadyTime,   \* ready_timeout_seconds (30 s)
  PollTime,    \* READY_POLL_SECONDS (0.5 s)
  ProbeTime,   \* timeout_seconds (30 s)
  Grace,       \* grace_seconds, twice (2 s)
  DrainTime,   \* time-out of the second communicate (2 s)
  Patience     \* how long the caller waits (45 s in live_df_probe)

ASSUME GuardAssumption ==
  /\ CheckTime \in Nat /\ StartTime \in Nat /\ ReadyTime \in Nat /\ PollTime \in Nat
  /\ ProbeTime \in Nat /\ Grace \in Nat /\ DrainTime \in Nat /\ Patience \in Nat

VARIABLES
  guard,     \* where the guard is
  elapsed,   \* time since it was called
  wait,      \* time in the call it waits in
  leader,    \* the probe: "none", "running", "exited" or "reaped"
  child,     \* another process of its group: "none", "piped" or "apart"
  cleanup,   \* whether the finally block was reached
  raised,    \* whether an exception is on its way
  shown      \* how often the result holds what was printed first

guardVars == <<guard, elapsed, wait, leader, child, cleanup, raised, shown>>
group == <<leader, child>>
flags == <<cleanup, raised, shown>>

GuardInit ==
  /\ guard \in {"checking", "spawning"}      \* dfhack-run or dwarfort
  /\ elapsed = 0 /\ wait = 0 /\ leader = "none" /\ child = "none"
  /\ cleanup = FALSE /\ raised = FALSE /\ shown = 0

Move(from, to) == guard = from /\ guard' = to /\ wait' = 0 /\ UNCHANGED elapsed

-----------------------------------------------------------------------------
(* ensure_runtime_ready.                                                   *)

\* The client is missing, answers, or does not.
Check ==
  /\ \/ \E to \in {"done", "spawning", "starting"} : Move("checking", to)
     \/ \E to \in {"spawning", "polling"} : Move("rechecking", to)
  /\ UNCHANGED <<group, flags>>

StartRuntime ==
  /\ Move("starting", "polling") \/ Move("starting", "done")
  /\ UNCHANGED <<group, flags>>

Poll ==
  /\ \/ elapsed < ReadyTime /\ Move("polling", "sleeping")
     \/ elapsed >= ReadyTime /\ Move("polling", "done")
  /\ UNCHANGED <<group, flags>>

Sleep ==
  /\ wait = PollTime /\ Move("sleeping", "rechecking")
  /\ UNCHANGED <<group, flags>>

-----------------------------------------------------------------------------
(* The probe: its leader may start a process, each may end, and the other  *)
(* may let go of the pipe.                                                 *)

Live ==
  /\ \/ leader = "running" /\ child = "none" /\ child' = "piped" /\ UNCHANGED leader
     \/ leader = "running" /\ leader' = "exited" /\ UNCHANGED child
     \/ child = "piped" /\ child' = "apart" /\ UNCHANGED leader
     \/ child # "none" /\ child' = "none" /\ UNCHANGED leader
  /\ UNCHANGED <<guard, elapsed, wait, flags>>

\* Popen, which raises when there is nothing to run.
Spawn ==
  /\ \/ Move("spawning", "reading") /\ leader' = "running"
     \/ Move("spawning", "done") /\ UNCHANGED leader
  /\ UNCHANGED <<child, flags>>

-----------------------------------------------------------------------------
(* run_guarded_probe.                                                      *)

Ended == leader # "running" /\ child # "piped"

\* communicate returns when nobody holds the pipe and the leader has ended.
Read ==
  /\ Ended /\ Move("reading", "term")
  /\ leader' = "reaped" /\ shown' = 1 /\ cleanup' = TRUE
  /\ UNCHANGED <<child, raised>>

\* The output so far is taken from the exception.
TimeOut ==
  /\ wait = ProbeTime /\ Move("reading", "term")
  /\ shown' = 1 /\ UNCHANGED <<group, cleanup, raised>>

\* The second communicate returns all of the output, or times out and is left.
Drain ==
  /\ Move("drain", "term") /\ cleanup' = TRUE
  /\ \/ Ended /\ shown' = shown + 1
     \/ wait = DrainTime /\ UNCHANGED shown
  /\ UNCHANGED <<group, raised>>

(* _stop_group, called after a time-out and in the finally block.          *)
Leave(from) == Move(from, IF cleanup THEN "done" ELSE "drain")

Reaped(from) == leader = "exited" /\ leader' = "reaped" /\ Leave(from)

\* poll; SIGTERM to the group, which may ignore it.
Terminate ==
  /\ \/ leader = "reaped" /\ Leave("term") /\ UNCHANGED group
     \/ Reaped("term") /\ UNCHANGED child
     \/ /\ leader = "running" /\ Move("term", "grace")
        /\ leader' \in {"running", "exited"} /\ child' \in {child, "none"}
  /\ UNCHANGED flags

Await ==
  /\ \/ Reaped("grace") /\ UNCHANGED child
     \/ wait = Grace /\ Move("grace", "kill") /\ UNCHANGED group
  /\ UNCHANGED flags

Kill ==
  /\ Move("kill", "reap")
  /\ leader' \in {leader, "exited"} /\ child' = "none"
  /\ UNCHANGED flags

\* A leader that does not end is forgotten silently (a mutant).
ReapSwallows ==
  /\ \/ Reaped("reap") /\ UNCHANGED child
     \/ wait = Grace /\ Leave("reap") /\ UNCHANGED group
  /\ UNCHANGED flags

\* The second wait raises, after a time-out into the finally block.
Reap ==
  \/ Reaped("reap") /\ UNCHANGED <<child, flags>>
  \/ /\ wait = Grace /\ Move("reap", IF cleanup THEN "done" ELSE "term")
     /\ raised' = TRUE /\ cleanup' = TRUE /\ UNCHANGED <<group, shown>>

\* The caller's own time-out: subprocess.run kills the guard, and no other.
Abandon ==
  /\ guard \notin {"done", "killed"} /\ elapsed >= Patience
  /\ guard' = "killed" /\ UNCHANGED <<elapsed, wait, group, flags>>

Limits ==
  [checking |-> CheckTime, starting |-> StartTime, sleeping |-> PollTime,
   rechecking |-> CheckTime, reading |-> ProbeTime, grace |-> Grace,
   reap |-> Grace, drain |-> DrainTime]

Pass ==
  /\ guard \in DOMAIN Limits /\ wait < Limits[guard]
  /\ elapsed' = elapsed + 1 /\ wait' = wait + 1
  /\ UNCHANGED <<guard, group, flags>>

GuardNext ==
  \/ Check \/ StartRuntime \/ Poll \/ Sleep \/ Live \/ Spawn \/ Read \/ TimeOut
  \/ Drain \/ Terminate \/ Await \/ Kill \/ Reap \/ Abandon \/ Pass

GuardSpec == GuardInit /\ [][GuardNext]_guardVars

-----------------------------------------------------------------------------
\* When the runtime was found ready at the latest, or given up.
ReadyBy ==
  CheckTime + IF StartTime > ReadyTime + PollTime THEN StartTime ELSE ReadyTime + PollTime

\* One stop with its drain, or one that failed and another.
StopTime == 2 * Grace + IF DrainTime > 2 * Grace THEN DrainTime ELSE 2 * Grace

(* "a hard process-group timeout": whatever the probe does with signals,   *)
(* its pipe and its children, the guard is done within a fixed time, and   *)
(* the probe it started has ended then and is reaped, unless the guard ends*)
(* with an exception.                                                      *)
HardTimeout ==
  /\ elapsed <= ReadyBy + ProbeTime + StopTime
  /\ guard = "done" /\ ~raised => leader \in {"none", "reaped"}

(* The time-out is one of the process group: when the guard is done nothing*)
(* of the group is left.                                                   *)
GroupStopped == guard = "done" => child = "none"

(* The output in the result is the output of the probe.                    *)
OutputOnce == shown <= 1

(* The evaluator gives the guard 45 s for a probe of 30 s; it waits until  *)
(* the guard is done.                                                      *)
WaitedFor == guard # "killed"
=============================================================================
