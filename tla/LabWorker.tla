------------------------------ MODULE LabWorker ------------------------------
(***************************************************************************)
(* The lab worker (worker.py): the loop of main, execute_job with its two  *)
(* ways to work (the coding graph, and for discovery jobs the harness and  *)
(* the synthesis of its notes), and the hand-over of work in progress.     *)
(*                                                                         *)
(* A call of the control plane succeeds, is refused (an HTTP error, raised *)
(* as RuntimeError) or does not get through (URLError, TimeoutError).  The *)
(* worker may stop and be started again between any two steps; the files   *)
(* of the slot and the repositories of earlier runs survive.               *)
(***************************************************************************)
EXTENDS CrossJobWip, FiniteSets

CONSTANTS Kinds,        \* job types: coding_cycle, research_cycle, discovery_cycle
          Safe,         \* patches that pass the gates of syntax and size
                        \* (coding_validation_safe_for_handoff)
          Sound,        \* patches whose validation succeeds, unless a test is
                        \* flaky; one without Python is not Safe (no py_compile)
          Complete,     \* patches with implementation and a public test
          MaxAttempts   \* proposals of a coding graph (3)

ASSUME WorkerAssumption ==
  /\ Safe \subseteq Patches /\ Sound \subseteq Patches /\ Complete \subseteq Patches
  /\ MaxAttempts \in Nat \ {0}
  /\ Kinds \subseteq {"coding_cycle", "research_cycle", "discovery_cycle"}

VARIABLES kind,       \* type of the objective's jobs
          pc, after,  \* where the worker is, and where it goes on after storing
          tree,       \* changes in the newest repository of the job
          committed,  \* they are committed there
          attempt, fit, \* of the coding graph; fit: it decided to promote
          blocked,    \* the error being handled is a GraphBlockedError
          \* History, read by properties only.
          checked,    \* the tree whose validation succeeded last
          swallowed,  \* what the attempts of the graph failed by
          sent        \* times a patch was sent since it was written or moved
                      \* to another baseline, alone or with paths that are
                      \* not handed on

jobVars == <<tree, committed, attempt, fit, blocked, checked, swallowed, sent>>
vars == <<kind, pc, after, jobVars, wipVars>>

Trees == Patches \cup {Nothing}

Stops == {"idle", "backoff"}
Coding == {"checking", "routing", "proposing", "validating", "rechecking"}
Discovery == {"probing", "recovering", "synthesizing"}
Locations ==
  Stops \cup Coding \cup Discovery \cup
  {"starting", "preparing", "restoring", "emptying", "applied", "readying",
   "storing", "describing", "finalizing", "committing", "uploading",
   "completing", "failing", "reporting"}

Init ==
  /\ WipInit
  /\ kind \in Kinds /\ pc = "idle" /\ after = "idle"
  /\ tree = Nothing /\ committed = FALSE
  /\ attempt = 0 /\ fit = FALSE /\ blocked = FALSE
  /\ checked = Nothing /\ swallowed = {} /\ sent = [p \in Patches |-> 0]

Goto(l) == pc' = l /\ UNCHANGED <<kind, after>>

\* A step that only moves on.
Step(from, to) == pc = from /\ Goto(to) /\ UNCHANGED <<jobVars, wipVars>>

\* The same with a job's error, retryable (RuntimeError) or not.
Raise(from, isBlocked) ==
  /\ pc = from /\ Goto("failing") /\ blocked' = isBlocked
  /\ UNCHANGED <<tree, committed, attempt, fit, checked, swallowed, sent, wipVars>>

\* A call of the control plane. control_unreachable takes it for an outage:
\* the job is dropped without a word.
Call(from, to) == Step(from, to) \/ Step(from, "backoff") \/ Raise(from, FALSE)

\* The tree becomes t. Of a patch other than the old one nothing was sent yet.
Become(t, old) ==
  /\ tree' = t
  /\ sent' = [p \in Patches |-> IF t \in Patches \ {old} /\ p \in {t, Kept[t]}
                                THEN 0 ELSE sent[p]]

\* The model, or a tool it calls, leaves the tree with contents t.
Write(t) == Become(t, tree)

-----------------------------------------------------------------------------
(* The loop. *)

\* A new job, or the last one again: its lease ran out, or it was requeued.
Lease ==
  /\ pc = "idle" /\ Goto("starting")
  /\ \/ tree' = Nothing /\ committed' = FALSE
     \/ UNCHANGED <<tree, committed>>
  /\ attempt' = 0 /\ fit' = FALSE /\ blocked' = FALSE
  /\ checked' = Nothing /\ swallowed' = {}
  /\ UNCHANGED <<sent, wipVars>>

\* The heartbeat or the lease call itself does not get through.
LeaseFails == Step("idle", "backoff")

BackOff == Step("backoff", "idle")

Start == Call("starting", "preparing")

\* prepare_run: a fresh clone at the job's base.
Prepare ==
  \/ /\ pc = "preparing" /\ Goto("restoring")
     /\ tree' = Nothing /\ committed' = FALSE
     /\ UNCHANGED <<attempt, fit, blocked, checked, swallowed, sent, wipVars>>
  \/ Raise("preparing", FALSE)

-----------------------------------------------------------------------------
(* restore_cross_job_wip *)

RestoreNothing ==
  /\ pc = "restoring" /\ NotRestorable
  /\ Step("restoring", "readying")

\* The patch is in the baseline already, or was replayed as often as it may
\* be: the slot is emptied, by unlink or by a move to the quarantine.
Dispose ==
  /\ pc = "restoring" /\ Whole
  /\ RemovePatch /\ Goto("emptying") /\ UNCHANGED jobVars

FinishDisposal ==
  /\ pc = "emptying" /\ RemoveMeta /\ Goto("readying") /\ UNCHANGED jobVars

\* git apply, or apply --3way: on the patch's own baseline it is the same patch.
Apply ==
  /\ pc = "restoring" /\ Replayable /\ Goto("applied")
  /\ \E t \in Moved[patchFile] \cup {patchFile} : Become(t, patchFile)
  /\ UNCHANGED <<committed, attempt, fit, blocked, checked, swallowed, wipVars>>

\* The patch conflicts with the new baseline: it stays stored, uncounted.
Conflict == pc = "restoring" /\ Replayable /\ Step("restoring", "readying")

CountApplied ==
  \/ pc = "applied" /\ CountReplay /\ Goto("readying") /\ UNCHANGED jobVars
  \/ Raise("applied", FALSE)

\* Two heartbeats and ensure_runtime_ready.
Ready ==
  Call("readying", IF kind = "discovery_cycle" THEN "probing" ELSE "checking")

-----------------------------------------------------------------------------
(* The coding graph. *)

\* validate_coding_candidate
Verdicts(t) == IF t \in Sound THEN {"ok", "failed"} ELSE {"failed"}

\* Mutant: the validator's verdict is not asked for.
PromotableUnchecked(t, verdict) == t \in Complete

\* coding_graph_decision, and the recheck in execute_job.
Promotable(t, verdict) == t \in Complete /\ verdict = "ok"

Note(t, verdict) == checked' = IF verdict = "ok" THEN t ELSE Nothing

\* The graph starts with the verdict on a restored tree, if there is one.
CheckRestored ==
  \/ /\ pc = "checking" /\ tree # Nothing
     /\ \E v \in Verdicts(tree) : fit' = Promotable(tree, v) /\ Note(tree, v)
     /\ Goto("routing")
     /\ UNCHANGED <<tree, committed, attempt, blocked, swallowed, sent, wipVars>>
  \/ tree = Nothing /\ Step("checking", "routing")
  \/ tree # Nothing /\ Raise("checking", FALSE)

\* Mutant: one proposal too many.
RouteLate ==
  \/ fit /\ Step("routing", "rechecking")
  \/ ~fit /\ attempt > MaxAttempts /\ Raise("routing", TRUE)
  \/ /\ ~fit /\ attempt <= MaxAttempts
     /\ pc = "routing" /\ Goto("proposing") /\ attempt' = attempt + 1
     /\ UNCHANGED <<tree, committed, fit, blocked, checked, swallowed, sent, wipVars>>

\* The next attempt, with a heartbeat; promotion; or the end of the attempts.
Route ==
  \/ fit /\ Step("routing", "rechecking")
  \/ ~fit /\ attempt = MaxAttempts /\ Raise("routing", TRUE)
  \/ /\ ~fit /\ attempt < MaxAttempts
     /\ \/ /\ pc = "routing" /\ Goto("proposing") /\ attempt' = attempt + 1
           /\ UNCHANGED <<tree, committed, fit, blocked, checked, swallowed, sent, wipVars>>
        \/ Step("routing", "backoff")
        \/ Raise("routing", FALSE)

\* apply_coding_graph_edits, all of them.
Propose ==
  /\ pc = "proposing" /\ Goto("validating")
  /\ \E t \in Trees : Write(t)
  /\ UNCHANGED <<committed, attempt, fit, blocked, checked, swallowed, wipVars>>

\* Mutant: a failed attempt is not counted.
BurnAttemptFree ==
  /\ pc \in {"proposing", "validating"} /\ Goto("routing")
  /\ fit' = FALSE /\ attempt' = attempt - 1
  /\ swallowed' = swallowed \cup {"work"}
  /\ UNCHANGED <<tree, sent, committed, blocked, checked, wipVars>>

\* Whatever an attempt raises is swallowed: a model that times out, an edit
\* that does not fit (those before it are in the tree), a check that times
\* out, a patch too large to store; and a heartbeat during the model's answer.
BurnAttempt ==
  /\ pc \in {"proposing", "validating"} /\ Goto("routing")
  /\ \/ /\ pc = "proposing" /\ (\E t \in Trees : Write(t))
        /\ swallowed' = swallowed \cup {"work"}
     \/ /\ pc = "proposing" /\ UNCHANGED <<tree, sent>>
        /\ swallowed' = swallowed \cup {"control"}
     \/ /\ pc = "validating" /\ UNCHANGED <<tree, sent>>
        /\ swallowed' = swallowed \cup {"work"}
  /\ fit' = FALSE
  /\ UNCHANGED <<committed, attempt, blocked, checked, wipVars>>

\* The verdict on a proposal; what is safe is stored before the next node.
Validate ==
  /\ pc = "validating"
  /\ \E v \in Verdicts(tree) :
       /\ fit' = Promotable(tree, v) /\ Note(tree, v)
       /\ swallowed' = IF Promotable(tree, v) THEN swallowed
                                              ELSE swallowed \cup {"work"}
       /\ IF tree \in Safe /\ Kept[tree] # Nothing
          THEN pc' = "storing" /\ after' = "routing" /\ UNCHANGED kind
          ELSE Goto("routing")
  /\ UNCHANGED <<tree, committed, attempt, blocked, sent, wipVars>>

\* execute_job validates once more what the graph promoted.
Recheck ==
  \/ /\ pc = "rechecking"
     /\ \E v \in Verdicts(tree) :
          /\ Note(tree, v)
          /\ IF Promotable(tree, v) THEN Goto("finalizing") /\ UNCHANGED blocked
                                    ELSE Goto("failing") /\ blocked' = TRUE
     /\ UNCHANGED <<tree, committed, attempt, fit, swallowed, sent, wipVars>>
  \/ Raise("rechecking", FALSE)

-----------------------------------------------------------------------------
(* Discovery. *)

\* run_harness. Without a live probe in the trace a checkpoint is stored and
\* one more phase is given to it; then notes are written, if they are missing.
Probe ==
  \/ /\ pc \in {"probing", "recovering"}
     /\ \E t \in Trees : Write(t)
     /\ \/ pc = "probing" /\ pc' = "storing" /\ after' = "recovering" /\ UNCHANGED kind
        \/ Goto("synthesizing")
        \/ Goto("finalizing")
     /\ UNCHANGED <<committed, attempt, fit, blocked, checked, swallowed, wipVars>>
  \/ Raise("probing", FALSE) \/ Raise("recovering", FALSE)

\* synthesize_discovery: a TimeoutError of the model passes for an outage.
Synthesize ==
  \/ /\ pc = "synthesizing"
     /\ \E t \in Patches : Write(t)
     /\ \E l \in {"finalizing", "backoff", "failing"} : Goto(l)
     /\ UNCHANGED <<committed, attempt, fit, blocked, checked, swallowed, wipVars>>
  \/ Step("synthesizing", "backoff")
  \/ Raise("synthesizing", FALSE)

-----------------------------------------------------------------------------
(* persist_cross_job_wip *)

Storable == tree # Nothing /\ ~committed /\ Kept[tree] # Nothing

StorePatch ==
  /\ pc = "storing" /\ Storable
  /\ ReplacePatch(tree) /\ Goto("describing") /\ UNCHANGED jobVars

StoreMeta ==
  /\ pc = "describing" /\ ReplaceMeta /\ Goto(after) /\ UNCHANGED jobVars

StoreNothing == ~Storable /\ pc = "storing" /\ Goto(after) /\ UNCHANGED <<jobVars, wipVars>>

\* A patch too large, a full disk, a git error. While the error of a job is
\* handled this one is only printed; in the graph it burns the attempt.
StoreFails ==
  /\ pc \in {"storing", "describing"}
  /\ IF after = "reporting" THEN Goto("reporting") /\ UNCHANGED <<blocked, fit, swallowed>>
     ELSE IF after = "routing"
     THEN /\ Goto("routing") /\ fit' = FALSE
          /\ swallowed' = swallowed \cup {"work"} /\ UNCHANGED blocked
     ELSE Goto("failing") /\ blocked' = FALSE /\ UNCHANGED <<fit, swallowed>>
  /\ UNCHANGED <<tree, committed, attempt, checked, sent, wipVars>>

-----------------------------------------------------------------------------
(* Delivery and failure. *)

\* Mutant: commits before the work is stored.
FinalizeUnstored == Step("finalizing", "committing")

\* finalize_graph_candidate, and the same for discovery: store, commit,
\* bundle, upload.
Finalize ==
  /\ pc = "finalizing"
  /\ pc' = "storing" /\ after' = "committing" /\ UNCHANGED <<kind, jobVars, wipVars>>

Commit ==
  \/ /\ pc = "committing" /\ Goto("uploading") /\ committed' = (tree # Nothing)
     /\ UNCHANGED <<tree, attempt, fit, blocked, checked, swallowed, sent, wipVars>>
  \/ Raise("committing", FALSE)

Upload ==
  \/ /\ pc = "uploading" /\ Goto("completing")
     /\ sent' = IF committed THEN [sent EXCEPT ![tree] = @ + 1] ELSE sent
     /\ UNCHANGED <<tree, committed, attempt, fit, blocked, checked, swallowed, wipVars>>
  \/ Step("uploading", "backoff") \/ Raise("uploading", FALSE)

\* Mutant: a delivery whose answer is lost is made again.
CompletedAgain ==
  \/ /\ pc = "completing" /\ Goto("idle") /\ tree' = Nothing /\ committed' = FALSE
     /\ UNCHANGED <<attempt, fit, blocked, checked, swallowed, sent, wipVars>>
  \/ Step("completing", "uploading")

\* The answer to complete, and the heartbeat after it. The tree is committed
\* or clean: after a refusal there is nothing to store.
Completed ==
  \/ /\ pc = "completing" /\ Goto("idle") /\ tree' = Nothing /\ committed' = FALSE
     /\ UNCHANGED <<attempt, fit, blocked, checked, swallowed, sent, wipVars>>
  \/ Step("completing", "backoff")
  \/ Step("completing", "reporting")

\* Mutant: what a failed job leaves is stored unseen.
SaveUnseen ==
  /\ pc = "failing" /\ pc' = "storing" /\ after' = "reporting"
  /\ UNCHANGED <<kind, jobVars, wipVars>>

\* A failed job's newest repository is stored; of coding jobs only if it is
\* found safe.
SaveFailed ==
  /\ pc = "failing"
  /\ \/ /\ kind = "coding_cycle" => tree \in Safe
        /\ pc' = "storing" /\ after' = "reporting" /\ UNCHANGED kind
     \/ kind = "coding_cycle" /\ Goto("reporting")
  /\ UNCHANGED <<jobVars, wipVars>>

\* api.fail, whatever the answer. A job that is not to be retried is over.
Report ==
  /\ pc = "reporting" /\ Goto("idle")
  /\ IF blocked THEN tree' = Nothing /\ committed' = FALSE
                ELSE UNCHANGED <<tree, committed>>
  /\ UNCHANGED <<attempt, fit, blocked, checked, swallowed, sent, wipVars>>

Crash == pc # "idle" /\ Goto("idle") /\ UNCHANGED <<jobVars, wipVars>>

-----------------------------------------------------------------------------

Work ==
  \/ BackOff \/ Start \/ Prepare
  \/ RestoreNothing \/ Dispose \/ FinishDisposal \/ Apply \/ Conflict \/ CountApplied
  \/ Ready \/ CheckRestored \/ Route \/ Propose \/ BurnAttempt \/ Validate \/ Recheck
  \/ Probe \/ Synthesize
  \/ StorePatch \/ StoreMeta \/ StoreNothing \/ StoreFails
  \/ Finalize \/ Commit \/ Upload \/ Completed \/ SaveFailed \/ Report

Next == Lease \/ LeaseFails \/ Crash \/ Work

Spec == Init /\ [][Next]_vars

\* Every call and every process the worker waits for has a time limit, but for git on
\* its own disk (clones, patches, commits), which is taken to end.
FairSpec == Spec /\ WF_vars(Work)

-----------------------------------------------------------------------------

TypeOK ==
  /\ kind \in Kinds /\ pc \in Locations /\ after \in Locations
  /\ tree \in Trees /\ committed \in BOOLEAN
  /\ attempt \in 0..MaxAttempts /\ fit \in BOOLEAN /\ blocked \in BOOLEAN
  /\ checked \in Trees /\ swallowed \subseteq {"control", "work"}
  /\ sent \in [Patches -> Nat]
  /\ patchFile \in Trees /\ metaFile \in Metas

\* What a coding job leaves to the next one is part of a tree that has passed
\* the gates of syntax and size, or the whole validation, whether the graph
\* stored it, the delivery did, or the loop saved what a failure or a crash had
\* left behind.
HandoffSafe ==
  kind = "coding_cycle" /\ patchFile # Nothing =>
    \E p \in Safe \cup Sound : patchFile = Kept[p]

\* Work nobody changed is delivered at most once for its author and once for
\* each replay it may have, over all jobs, retries, outages and crashes, as
\* long as its baseline stands: on another one it is another patch, whose
\* replays persist_cross_job_wip counts from zero.
ReplayBounded == \A p \in Patches : sent[p] <= MaxReplays + 1

Delivering == \/ pc \in {"finalizing", "committing", "uploading", "completing"}
              \/ pc \in {"storing", "describing"} /\ after = "committing"

\* What is delivered is the very tree whose validation succeeded last: no edit
\* comes between, and a stale verdict on a restored tree does not count.
DeliversChecked == Delivering /\ kind # "discovery_cycle" => checked = tree

\* Work that was committed but perhaps not delivered is in the slot, until a
\* later job has its fresh clone: an outage, a refusal, a crash or the handling
\* of the failure does not lose it.
CommittedKept == committed /\ Kept[tree] # Nothing => Whole /\ patchFile = Kept[tree]

\* The worker keeps to the part of the lease protocol JobApi has for it.
Phase == CASE pc \in Stops -> "idle"
           [] pc = "completing" -> "completing"
           [] pc = "reporting" -> "failing"
           [] OTHER -> "working"

Client == INSTANCE LeaseClient WITH phase <- Phase

ReportsOnce == Client!ClientSpec

\* Whatever fails, the worker comes back for its next job.
ComesBack == pc # "idle" ~> pc = "idle"

\* worker.py:3272: "The control plane being unreachable is not a job failing".
OutageIsNoFailure == pc = "reporting" /\ blocked => swallowed # {"control"}
=============================================================================
