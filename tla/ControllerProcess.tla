-------------------------- MODULE ControllerProcess --------------------------
(***************************************************************************)
(* One agent controller kept alive for an episode (PersistentController),  *)
(* and the untrusted process at the other end of its pipes.                *)
(*                                                                         *)
(* An observation is the number of the round that sent it, counted from 1. *)
(* A line on the way back is the observation it answers, Noise when it     *)
(* answers none (what a policy prints besides), or EOF, the None that the  *)
(* reader thread queues last.  The process's stdout and the queue that the *)
(* reader thread fills are one sequence, lines.                            *)
(***************************************************************************)
EXTENDS Integers, Sequences

CONSTANTS MaxNoise,  \* bound: lines a controller prints that answer nothing
          PipeLines  \* observations the stdin pipe holds

ASSUME PipeAssumption == MaxNoise \in Nat /\ PipeLines \in Nat \ {0}

VARIABLES
  proc,      \* self.proc: whether the handle holds a process
  dead,      \* self.dead
  asked,     \* self.rounds
  host,      \* the process: "none", "ready" to read, "busy" deciding,
             \* "shut" (alive, its pipes closed) or "gone"
  deciding,  \* the observation a busy process decides on
  stdin,     \* observations written and not read
  lines,     \* lines printed and not taken
  noise      \* Noise printed so far

controllerVars == <<proc, dead, asked, host, deciding, stdin, lines, noise>>

Noise == 0
EOF   == -1

ControllerTypeOK ==
  /\ proc \in BOOLEAN /\ dead \in BOOLEAN
  /\ asked \in Nat /\ deciding \in Nat
  /\ host \in {"none", "ready", "busy", "shut", "gone"}
  /\ stdin \in Seq(Nat) /\ Len(stdin) <= PipeLines
  /\ lines \in Seq(Nat \cup {EOF})
  /\ noise \in 0..MaxNoise

NoController ==
  /\ proc = FALSE /\ dead = FALSE /\ asked = 0 /\ deciding = 0
  /\ host = "none" /\ stdin = <<>> /\ lines = <<>> /\ noise = 0

\* A new handle, and start(): the command may not be executable.
Spawn ==
  /\ \/ proc' = TRUE /\ dead' = FALSE /\ host' = "ready"
     \/ proc' = FALSE /\ dead' = TRUE /\ host' = "none"
  /\ asked' = 0 /\ deciding' = 0
  /\ stdin' = <<>> /\ lines' = <<>> /\ noise' = 0

\* ask() is a no-op once the controller has failed.
Answers == ~dead /\ proc

\* write and flush: they block while the pipe is full.
WriteLine ==
  /\ host \in {"ready", "busy"}
  /\ Len(stdin) < PipeLines
  /\ stdin' = Append(stdin, asked)
  /\ UNCHANGED <<proc, dead, asked, host, deciding, lines, noise>>

\* _fail after BrokenPipeError.
BrokenPipe ==
  /\ host \in {"shut", "gone"}
  /\ dead' = TRUE
  /\ UNCHANGED <<proc, asked, host, deciding, stdin, lines, noise>>

\* The line the queue yields; the end of file fails the controller.
TakeLine ==
  /\ lines # <<>>
  /\ lines' = Tail(lines)
  /\ dead' = (Head(lines) = EOF)
  /\ UNCHANGED <<proc, asked, host, deciding, stdin, noise>>

\* Mutant: a controller that has failed already is not killed.
CloseUnlessDead ==
  /\ proc' = FALSE /\ dead' = TRUE
  /\ host' = IF host = "none" \/ dead THEN host ELSE "gone"
  /\ UNCHANGED <<asked, deciding, stdin, lines, noise>>

\* close(): the pipe is closed, the process asked to stop, then killed.
Close ==
  /\ proc' = FALSE /\ dead' = TRUE
  /\ host' = IF proc THEN "gone" ELSE host
  /\ UNCHANGED <<asked, deciding, stdin, lines, noise>>

\* Mutant: one late answer is forgiven.
TimeOutForgiven ==
  /\ lines = <<>>
  /\ UNCHANGED controllerVars

\* Mutant: the queue is read without a time-out.
TimeOutNever ==
  /\ lines = <<>> /\ host = "gone"
  /\ Close

\* round_timeout runs out before a line arrives: _fail and close.
TimeOut ==
  /\ lines = <<>>
  /\ Close

-----------------------------------------------------------------------------
(* The controller: controller_host.serve around an untrusted policy.  It   *)
(* may be slow for ever, and nothing is fair to it.                        *)

HostReads ==
  /\ host = "ready" /\ stdin # <<>>
  /\ host' = "busy" /\ deciding' = Head(stdin) /\ stdin' = Tail(stdin)
  /\ UNCHANGED <<proc, dead, asked, lines, noise>>

HostAnswers ==
  /\ host = "busy"
  /\ host' = "ready" /\ lines' = Append(lines, deciding) /\ deciding' = 0
  /\ UNCHANGED <<proc, dead, asked, stdin, noise>>

HostPrints ==
  /\ host \in {"ready", "busy"} /\ noise < MaxNoise
  /\ lines' = Append(lines, Noise) /\ noise' = noise + 1
  /\ UNCHANGED <<proc, dead, asked, host, deciding, stdin>>

\* The process exits, or closes its pipes and lives on.
HostEnds ==
  /\ host \in {"ready", "busy"}
  /\ host' \in {"shut", "gone"} /\ lines' = Append(lines, EOF) /\ deciding' = 0
  /\ UNCHANGED <<proc, dead, asked, stdin, noise>>

Host == HostReads \/ HostAnswers \/ HostPrints \/ HostEnds
=============================================================================
