---------------------------- MODULE EvaluatorLoop ----------------------------
(***************************************************************************)
(* The external evaluator (evaluator.py, game_evaluate.py): it leases an   *)
(* experiment, checks the submission out and either runs the contract smoke*)
(* (suite v3) or plays the episodes of the gameplay score (v4), in which a *)
(* second thread renews the lease.                                         *)
(*                                                                         *)
(* Time passes in steps of one unit while the evaluator checks out, runs   *)
(* the smoke or plays, and in the calls of the thread.  Every other call is*)
(* answered at once, or fails at once.  The process may stop and start     *)
(* again at any step.                                                      *)
(***************************************************************************)
EXTENDS Integers

CONSTANTS
  LeaseTime,    \* lease_seconds of the control plane (120 s)
  Interval,     \* HEARTBEAT_INTERVAL (45 s)
  MaxCheckout,  \* bound: how long clone, fetch and checkout take; the code has none
  MaxCall       \* the time-out of a call to the control plane (120 s)

ASSUME TimesAssumption ==
  /\ LeaseTime \in Nat /\ Interval \in Nat /\ MaxCheckout \in Nat /\ MaxCall \in Nat

VARIABLES
  suite,   \* the configured suite
  pc,      \* where the loop is
  age,     \* time since the lease was last renewed; it ends at LeaseTime
  thread,  \* the keep-alive thread: "off", "waiting" or "calling"
  timer,   \* how long it has waited, or has been in its call
  stalled, \* history: time since the last renewal in the checkout or in its calls
  lost     \* history: heartbeats of the thread that failed since, the lease not over

vars == <<suite, pc, age, thread, timer, stalled, lost>>
lease == <<age, stalled, lost>>
clocks == <<lease, thread, timer>>

Locations ==
  {"idle", "starting", "announcing", "checkout", "contract", "episodes",
   "completing", "reporting", "failing"}

\* Bound: when the lease has been over for as long as a call may take, nothing
\* that is under way can renew it, and time no longer matters.
MaxAge == LeaseTime + MaxCall

TypeOK ==
  /\ suite \in {"v3", "v4"} /\ pc \in Locations
  /\ age \in 0..MaxAge
  /\ thread \in {"off", "waiting", "calling"}
  /\ timer \in Nat /\ stalled \in Nat /\ lost \in Nat

Init ==
  /\ suite \in {"v3", "v4"} /\ pc = "idle"
  /\ age = 0 /\ thread = "off" /\ timer = 0 /\ stalled = 0 /\ lost = 0

Goto(from, to) == pc = from /\ pc' = to /\ UNCHANGED suite

\* _verify_lease: at its end a lease counts as expired.
Held(a) == a < LeaseTime

\* The lease was renewed r ago, all of which went by in a call.
Renewed(r) == age' = r /\ stalled' = r /\ lost' = 0

\* A call that succeeds, or raises what the loop catches.
Call(from, to) ==
  (Goto(from, to) \/ Goto(from, "failing")) /\ UNCHANGED clocks

-----------------------------------------------------------------------------
Lease ==
  /\ Goto("idle", "starting")
  /\ Renewed(0) /\ UNCHANGED <<thread, timer>>

\* worker_heartbeat("running").
Start == Call("starting", "announcing")

\* run_suite: one heartbeat; v4 returns at once when its horizon is not
\* calibrated, and checks out otherwise.
Announce ==
  \/ /\ \/ Goto("announcing", "checkout")
        \/ suite = "v4" /\ Goto("announcing", "completing")
     /\ Renewed(0) /\ UNCHANGED <<thread, timer>>
  \/ Goto("announcing", "failing") /\ UNCHANGED clocks

\* prepare_checkout and controller_command; any of them raises.
CheckOut ==
  \/ Goto("checkout", "failing") /\ UNCHANGED clocks
  \/ suite = "v3" /\ Goto("checkout", "contract") /\ UNCHANGED clocks
  \/ /\ suite = "v4" /\ Goto("checkout", "episodes")
     /\ thread' = "waiting" /\ timer' = 0 /\ UNCHANGED lease

\* run_controller and live_df_probe.
Contract == Call("contract", "completing")

-----------------------------------------------------------------------------
(* The episodes and the thread beside them.                                *)

\* on_episode, after each episode: a failure is swallowed.
OnEpisode ==
  /\ Goto("episodes", "episodes")
  /\ Held(age) /\ Renewed(0)
  /\ UNCHANGED <<thread, timer>>

\* stop.wait(HEARTBEAT_INTERVAL) has run its time.
Wake ==
  /\ thread = "waiting" /\ timer = Interval
  /\ thread' = "calling" /\ timer' = 0
  /\ UNCHANGED <<suite, pc, lease>>

\* The thread renews nothing: the episodes are left to on_episode (a mutant).
BeatIsSilent ==
  /\ thread = "calling" /\ thread' = "waiting" /\ timer' = 0
  /\ UNCHANGED <<suite, pc, lease>>

\* The heartbeat returns.  It renewed the lease at some time of the call, before
\* a renewal by on_episode or after it; or it failed, which is swallowed.
Beat ==
  /\ thread = "calling" /\ thread' = "waiting" /\ timer' = 0
  /\ \/ \E r \in 0..timer : r <= age /\ Held(age - r) /\ Renewed(r)
     \/ age < timer /\ UNCHANGED lease
     \/ lost' = (IF Held(age) THEN lost + 1 ELSE lost) /\ UNCHANGED <<age, stalled>>
  /\ UNCHANGED <<suite, pc>>

\* score_submission returns or raises; stop.set() and join.  A beat that is
\* still in its call then is refused, or renews a lease that is about to end.
EndEpisodes ==
  /\ Goto("episodes", "completing") \/ Goto("episodes", "failing")
  /\ thread' = "off" /\ timer' = 0 /\ UNCHANGED lease

-----------------------------------------------------------------------------
\* A result that comes after the lease is refused.
Deliver ==
  /\ (Held(age) /\ Goto("completing", "reporting")) \/ Goto("completing", "failing")
  /\ UNCHANGED clocks

\* worker_heartbeat("idle"), the last call of the loop's body.
Report == Call("reporting", "idle")

\* The handler reports the failure, of whatever went before it.
Fail == Goto("failing", "idle") /\ UNCHANGED clocks

Crash ==
  /\ pc # "idle" /\ pc' = "idle"
  /\ thread' = "off" /\ timer' = 0 /\ UNCHANGED <<suite, lease>>

\* Time passes.  The thread wakes when its time is up, and a call and the
\* checkout have a limit; the smoke and the episodes may take any time.
Tick ==
  /\ pc \in {"checkout", "contract", "episodes"} /\ age < MaxAge
  /\ pc = "checkout" => stalled < MaxCheckout
  /\ thread = "waiting" => timer < Interval
  /\ thread = "calling" => timer < MaxCall
  /\ age' = age + 1
  /\ stalled' = IF pc = "checkout" \/ thread = "calling" THEN stalled + 1 ELSE stalled
  /\ timer' = IF thread = "off" THEN timer ELSE timer + 1
  /\ UNCHANGED <<suite, pc, thread, lost>>

Next ==
  \/ Lease \/ Start \/ Announce \/ CheckOut \/ Contract \/ OnEpisode
  \/ Wake \/ Beat \/ EndEpisodes \/ Deliver \/ Report \/ Fail \/ Crash \/ Tick

Spec == Init /\ [][Next]_vars

-----------------------------------------------------------------------------
(* What the keep-alive thread does give (game_evaluate._keepalive).  The   *)
(* episodes themselves never cost a gameplay evaluation its lease, however *)
(* long they are and however often on_episode fails: when the lease ends   *)
(* before the result, then the checkout or the thread's own calls took the *)
(* time, or its beats failed, for all but the waits between them.          *)
ExpiresByStalls ==
  suite = "v4" /\ pc \in {"checkout", "episodes", "completing"} /\ ~Held(age) =>
    stalled + (lost + 1) * Interval >= LeaseTime

(* What its comment says, "renew the lease every HEARTBEAT_INTERVAL s for  *)
(* the WHOLE eval", and the code does not give: a lease of 120 s outlasts  *)
(* no call of 120 s, and no checkout without a limit.                      *)
KeptAlive == suite = "v4" /\ pc = "episodes" => Held(age)

(* The evaluator is a client of the job queue: it reports success at most  *)
(* once, and a failure at most once and last.                              *)
Phase ==
  CASE pc = "idle" -> "idle"
    [] pc \in {"completing", "reporting"} -> "completing"
    [] pc = "failing" -> "failing"
    [] OTHER -> "working"

Client == INSTANCE LeaseClient WITH phase <- Phase
IsClient == Client!ClientSpec
=============================================================================
