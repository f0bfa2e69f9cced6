# Bonsai: control plane and scored episodes, modelled, checked and proved

Bonsai lets a language model write controllers for Dwarf Fortress. A control
plane (PostgreSQL and three services) queues work for lab machines; agents
explore the game or write code; what they write is inspected, promoted to the
trusted main branch, measured by an external evaluator, and the measurement
decides what is asked for next. A measurement is a number of episodes: a driver
lets the controller, an untrusted process, play a headless game. This project
holds TLA+ models of the services that decide all of this, of the workers that
do it, of the gates their work has to pass and of the episodes the measurement
rests on, their TLC runs, and TLAPS proofs about them.

## 1. The system

| Component | State it keeps | Operations | What is hard | What must hold |
|---|---|---|---|---|
| Job queue API (`control_plane/bonsai_control/main.py`) | rows of `jobs`, `experiments`, `git_changes`, `controller_submissions`, `objective_evaluation_state` | set_mode, create_objective, create_job, create_submission, lease, heartbeat, complete, fail | late, lost and repeated calls; leases that run out; two counters of one retry budget | a result comes from the newest lease; no job gets more leases than its budget; finished work stays finished |
| Orchestrator (`orchestrator.py`, `cycle_policy.py`) | the same rows | tick: recover leases, cooldown, block, admit, queue | it reads history that all other writers change | one open job per objective; blocking only after a recovery; every waiting submission has its experiment |
| Promoter (`promoter.py`) | the trusted checkout, two remotes, `git_changes`, the baseline | take, inspect, push, merge, push, record, retry, reject | effects on git and the database that are not atomic; restarts; other people's pushes | one line of promotions; only gated commits published; nothing promoted is lost; every candidate decided |
| Lab worker (`lab_agent/.../worker.py`: `main`, `execute_job`, the coding graph's and discovery's nodes) | the job at hand, its tree, what the graph decided | lease, heartbeat, prepare, restore, edit, check, commit, upload, complete, fail, back off | outages; errors taken for outages; stops anywhere | one report of success, one of failure; no complete that was not checked; it comes back for more |
| Work in progress handed on (`worker.py`: `persist_cross_job_wip` and its companions) | a patch and a description in a slot of the run's directory | store, restore, clear, quarantine | two files, written one after the other; other jobs' bases | only safe work is handed on; committed work is kept; replays on one baseline are bounded |
| Edits and gates (`worker.py`: `apply_coding_graph_edits`, `validate_coding_candidate`; `quality_gate.py`; `inspect_candidate` in `promoter.py`) | the working tree, the commit | find the place of an edit, write, normalise, check, inspect | several edits of one file; two gates that look at different things, at different times; tests that write files; tools that say something else when asked again | what is written is what was proposed, in any order; no new error passes but on unchanged lines; a rejection is for what the lab does not look at |
| Evaluator (`evaluator.py`, `game_evaluate.py`) | the job at hand, a thread beside the episodes | lease, heartbeat, check out, smoke or episodes, complete, fail | a lease that must outlive minutes of play; calls that hang | the length of the episodes never costs the lease; one report of each kind |
| Stepped episodes (`stepped_episode.py`, `score_submission` in `game_scorer.py`) | the plan of rounds, the latest observation | boot, observe, ask, apply, advance, record, unwind, reap | any call may fail or time out | an episode spans its horizon; what is applied fits the fort as it stands; scoring ends, or waits at one known place |
| Persistent controllers (`persistent_controller.py`, `controller_host.py`) | a process, two pipes, a queue | start, ask, close | late answers; full pipes; processes that die or close their pipes | one answer per question; no process left behind |
| Game sessions (`session.py`, `bonsai_session.sh`, `bonsai-advance2.lua`) | a game on a port | boot, advance, close | the game dies, hangs, overshoots | paused where the driver looks; no game left behind |
| Episode runner (`game_runner/episode.py`, `EpisodeLogger` in `bridge/contracts.py`) | clock, citizens, metrics, trace, log | run, act, advance, save, restore | the object is used again after anything | same seed and actions, same run |
| Bridge probes (`bridge/*_probe.py`, `bridge/probe.py`) | none | ask the game, take the answer, classify | eighty scripts that classify the same things, from other fields and without the limits of an observation | classifications agree, or differ by what can be named; no answer is none |
| Probe guard (`lab_agent/.../probe_guard.py`) | a group of processes, its pipe | make the runtime ready, start, read, time out, stop | processes that ignore signals, outlive their parent or hold its pipe; a caller with a time-out of its own | done in a fixed time; no process left unreaped |
| Action gate, scoring, recorders; Lua scripts, player, skills, infrastructure | in memory, or none | | budgets, boundaries | not modelled |

The components meet in the database. The API, the orchestrator and the promoter
are processes of their own that write the same rows in transactions with row
locks; workers reach it only through the API. The promoter alone also changes
git repositories. An evaluator that holds the lease of an experiment runs the
episodes; it talks to the controller through pipes and to the game through one
`dfhack-run` process per call. `PROJECT.json` lists every component with what is left out,
and every hazard at its line.

## 2. The modules

```
Store ---+--- JobApi ---------+
         +--- Orchestrator ---+--- ControlPlane --- MCControlPlane
         |     (CyclePolicy)  |         |     \
         +--- Promotions -----+         |      ControlPlaneProofs --- SchedulingProofs
                                        |
                                PromotionContract
                                        |
                        Promoter -------+
                            \ PromoterProofs

ChunkPlan ---------+
ControllerProcess -+--- SteppedEpisode --- SteppedEpisodeProofs
GameSession -------+

CrossJobWip --- LabWorker ---+--- MCLabWorker
                    |         \ LabWorkerProofs
               LeaseClient
                    |
              EvaluatorLoop --+
                              |
EpisodeRun -------------------+--- PartsProofs
                              |
ProbeGuard -------------------+--- MCParts
                              |
Probes --- Observations ------+

CodingEdits --- QualityGate --- CandidateGates --- MCCandidateGates
                                        \ CandidateGatesProofs

Induction, for PartsProofs and CandidateGatesProofs
```

* **Store** - the rows. A job is a record (state, type, objective, base, lease,
  attempts, waiting time, error); experiments, changes and submissions are
  indexed by the job, or by the commit that job built, which has its number.
  `work` and `calls` are the workers' side: the lease each believes in, and the
  calls on their way. `taken` is the candidate in the promoter's memory.
* **JobApi** - one action per endpoint that changes those rows, plus the
  workers' steps. `calls` is a set of messages: a call can be dropped, or
  arrive after its sender has moved on.
* **Orchestrator** - `tick()` is one transaction and each of its outcomes one
  action (`TickIdle`, `TickCooldown`, `TickBlock`, `TickQueue`); the recovery of
  expired leases is part of each (`Jobs` are the rows after it).
  **CyclePolicy** is `choose_cycle`.
* **Promotions** - the promoter's transactions: `_next_candidate`,
  `_record_retry`, `_record_rejection` and the one at the end of `_promote`.
* **ControlPlane** - the composition, the fairness and the properties.
* **Promoter** - the same promoter seen from git: each external effect is a
  step, a failed push may or may not have arrived, the process may be restarted
  between any two steps, and people push to GitHub's main. A commit is a number
  and `past` its history.
* **PromotionContract** - what both promise, in three variables: candidates are
  decided once, and promoted only onto the baseline they were built on.
  `KeepsContract` is the refinement, in ControlPlane with `base` and `verdict`
  computed from the rows, in Promoter variable by variable.
* **ChunkPlan** - `rounds_for` and `chunk_plan` as operators.
* **ControllerProcess** - the handle (`proc`, `dead`, `asked`), and the process
  behind it, which reads, answers, prints what nobody asked for, closes its
  pipes or ends. A line is the number of the observation it answers. The
  process's stdout, the reader thread and its queue are one sequence, as nothing
  waits for the thread; stdin is a pipe of bounded size, because the driver's
  write blocks when it is full.
* **GameSession** - the game as the session sees it: frames pass between two
  looks of the script's heartbeat (`Burst`), which pauses it at its goal.
* **SteppedEpisode** - `score_submission`, with `run_stepped_episode` inside it,
  step by step (`at`): each call to the controller or the game is a step, with
  all its outcomes. An exception of the session leads to `unwind`, the driver's
  finally block, and that to `reap`, the scorer's.

* **LeaseClient** - what the job queue may assume of one worker: lease, then
  success at most once, then failure at most once. `ReportsOnce` (LabWorker) and
  `IsClient` (EvaluatorLoop) are refinements of it.
* **CrossJobWip** - the slot: `patchFile` and `metaFile`, which agree (`Whole`)
  or do not, since a stop may come between the two writes. `Kept` is the part
  of a patch that lies under the paths that are handed on. A patch is what
  `git diff --full-index` writes, with the objects it applies to, so that the same edit on
  another baseline is another patch: `Moved` is what it may become there (nothing, if
  the baseline has it).
* **LabWorker** - `main` and `execute_job`, step by step (`pc`): each call to
  the control plane, the model or the checks is a step with all its outcomes,
  and the process may stop at each. A tree is one of a few patches: safe ones
  (Python that compiles, within the size), sound ones (validation passes), complete
  ones and others.
* **CodingEdits** - how a proposal becomes file contents: found exactly, up to
  blanks at line ends, by the text around it, or by the name of a definition;
  all in the text as it was, without overlap, from the end to the front.
* **QualityGate** - the diagnostics of a change: placeholders, hollow functions,
  ruff, types and secrets on the lines it adds. A type error is a line's own
  (`Mistyped`) or is made by another line of the file (`Clashes`: a call, and the signature it
  no longer fits).
* **CandidateGates** - the graph's attempts around both, the lab's two looks at the
  working tree (`Validate`, and `Recheck` before the commit; each normalises, runs the
  tests, which may write files, and asks the tools), the commit of all that is there then,
  and the promoter's look at the commit (`Inspect`). LabWorker and Promoter leave
  the content open; here it is what counts.
* **EvaluatorLoop** - the loop of `evaluator.py`, both suites, and the thread of
  `game_evaluate.py` that renews the lease, with the time that passes.
* **EpisodeRun** - `EpisodeRunner` and its logger. A citizen is the tick of its
  death; a policy is any choice of actions and may raise.
* **Probes** - one definition per probe, with the name of its file: what its
  script prints of a world, in the form it prints it, and how its Python half
  takes answers. **Observations** - the pure half of `probe.py`, with what
  `core.lua` hands it: a job's flags, and the first `MaxListed` items.
* **ProbeGuard** - one call of `run_guarded_probe`, with the time it takes, the
  group of processes it starts (a leader and at most one other) and its caller's
  patience. Each waiting place of the code is a place of `guard`; `cleanup` and
  `raised` tell the finally block and an exception apart.

Definitions named as mutants (`VerifiedOwner`, `TakeStale`, ...) are forms of a
definition with a plausible bug; nothing uses them but the mutation of a run,
where the property at hand must then fail.

### What is abstracted

* **Time.** The database clock is `Elapse`: leases (`ttl`), retry delays,
  scheduling intervals and cooldowns are numbers of steps that run down. `now`
  orders the transactions that set `completed_at`, `promoted_at` and
  `updated_at`. Transactions are atomic and stamped in the order they run;
  PostgreSQL stamps their start, and row locks order those that conflict.
* **Lease tokens.** `secrets.token_urlsafe` never repeats, so the number of the
  attempt stands for the token.
* **Errors** are values; `failure_fingerprint` is the identity on them, except
  that a text with one of its markers keeps its fingerprint when `lease expired`
  is appended (`MarkerErrors`).
* **Priority** orders objectives and jobs; the model chooses freely among them,
  which includes every order. Where an order decides what is right (candidates
  by completion, terminal jobs by time, successors without a parent first) it
  is kept.
* **Content**: what an agent builds, what the gate finds and what the evaluator
  measures are free choices; `inspect_candidate` keeps the ancestry it checks.
* **Calls to the game.** A call is a subprocess with a time-out; its retries
  are part of its outcome. An advance whose script answers late or not at all
  may have started the game or not (`Go`). The watchdog, the reaper and a crash
  are one action, `GameDies`.
* **Observations** are the frame they were made at; actions, the action gate
  and feedback are the number of the observation they answer.
* **Texts** are sequences of lines, and a line is a word and what follows it:
  nothing, blanks or a carriage return. Where the code compares texts by a ratio
  of similarity, each comparison may come out both ways. What ruff and the secret
  patterns report is a property of a line's word; what mypy reports, of the line or of a pair of
  lines of one file, not of two files. Tests, ruff and mypy may fare differently each time they are
  asked (`Runs`). Reading translates line breaks (`AsRead`), writing does not. Limits count lines.
* **Worlds.** What scripts read of the game is a record; a field the game lacks
  is one of the ways a call fails. A job's own fields (`job.cancelled`) and its flags
  (`job.flags.cancelled`) are two things. The units of an observation
  (`dfhack.units.getUnits`) are taken to be those the scripts read (`world.units.all`).
  Limits of the summaries keep their order.
* **Left out of the worker**: branches no job type reaches (after `execute_job`
  has returned for everything but discovery), the content of prompts, reports
  and notes. Work in progress of research cycles is stored without validation,
  and a change without Python is never safe to hand on: both are modelled.
* **Left out of the episodes**: the scenario's preparation script inside boot,
  the wildlife switch, recorders (their failures are swallowed), other ports.
* **Left out of the control plane**: the event log, artifacts and the worker status table, which
  decide nothing here; counters no decision reads (`submissions_seen`,
  `evaluations_completed`); the text of a rejection in `jobs.error`, which only
  matters on failed jobs; manifests other than the default one; the operator's
  manual change of the baseline, which the promoter's compare-and-set guards
  against; an exception inside `_next_candidate`. `CreateJob` makes jobs of the operator's usual
  types on trusted commits: schemas.py:9 and main.py:323 also take experiments, which then
  have no submission to measure, and any 40 digits for a base. `CompleteCycle` ends a job
  "candidate" or "rejected", as the lab's worker asks; schemas.py:18 also takes "completed".

## 3. The runs

| Run | Instance | What it shows |
|---|---|---|
| `MCLeases` | 2 agents, 1 evaluator, 2 jobs of one objective, losses and restarts | Fencing, Finality, LeaseBudget, OneOpenJob, SubmissionsTracked |
| `MCEpochs` | 3 objectives (one child, one root, both paused), 2 kinds of error, 4 jobs | BlockedAfterRecovery; fires cooldown, block, successor, milestone |
| `MCExperiments` | 1 agent, 1 evaluator, 4 jobs that do not fail, submissions by lab clients, 2 scores | ChampionIsFirstBest over several measurements |
| `MCPromotion` | 2 objectives, 3 jobs that do not fail, operator's jobs on any trusted base, 2 retries | BaselineIsLinear, and the refinement KeepsContract |
| `MCLiveness` | 1 objective, 2 jobs, the operator's included, modes switched at will, faulty worker | OrphansRecovered, CandidatesDecided |
| `MCPromoter` | 3 candidates, 1 foreign push, 1 retry, restarts, pushes lost or late | MainsNested, OnlyGatedPublished, PromotedKept, KeepsContract, Decided |
| `MCEpisode` | 2 episodes, horizons 1, 5 and 7, rounds asked for (3) or left to the driver, two stray lines, a pipe of 2 lines, heartbeat every 2 ticks, crashes | AnswersFresh, SpansHorizon, ControllerReaped, ChunksBounded, ScoringEnds |
| `MCWorker` | three job types, five patches (good, good with paths that are not handed on, draft, broken, none of it handed on), 2 proposals, 2 replays, baselines that move, a stop at any step | HandoffSafe, CommittedKept, DeliversChecked, ReplayBounded, ReportsOnce (a refinement), ComesBack |
| `MCGates` | 5 files, 13 edits, proposals of up to two of them, 2 attempts, tests that write files, any tool or test failing at any of the three looks | EditsRealised, OrderIrrelevant, NewErrorsCaused, GateRejectsUnseen |
| `MCParts` | a runner with 2 seeds, 2 budgets and 2 runs of 2 steps; the probes of 18 worlds; a guard with each time-out between 1 and 4; an evaluator whose checkout may take longer than the lease and whose calls as long. One moves while the others rest | Replayable; SummariesAgree; HardTimeout; ExpiresByStalls |
| `MCStranded`, `MCWedge` | the smallest that show it | the violations of section 6 |

The other configurations are run by hand. MCRepeated holds: SubmissionsTracked with
experiments that fail and are repeated. The others each refute the one property they name
(section 6): MCCounts, MCStop, MCFort, MCDensity, MCNoise, MCHang, MCPartial; or
the two, or four, they name, one at a time: MCRunner, MCViews, MCAnswers.

**Bounds.** `MaxJobs` bounds the rows of the jobs table; when it is reached the
orchestrator idles. Two jobs are enough for every lease interleaving, since a
lease concerns one job and the second serves as what a worker does meanwhile;
a job is leased up to twice (`max_attempts` = 2), so a stale call can meet a
newer lease of the same worker. Four jobs are what a block needs (three
failures, a cooldown, one more), and what two measured commits need, those of lab
clients included; three are what a repeated experiment needs
(a job whose commit is submitted, two experiments). `MaxCalls` = 1 call is on its way at a time: a call
outlives its sender's interest in it, which is what staleness needs. Clocks of
one step (`LeaseTicks` = 1) distinguish a lease in force from one that has run
out; delays of 0 only allow more. `MaxPromotionRetries` is 5 in the code and 1
or 2 here. In MCLeases agents are symmetric; no liveness is checked there.

The constants of an episode are small images of the code's (24 rounds, chunks of
100 to 1400 ticks): 2 rounds, chunks of 2 to 3. Horizon 7 in 3 rounds has a
remainder, 5 is cut to 2 rounds by the shortest chunk, 1 is shorter than any.
Three rounds are enough for an answer to be late by one round and the next one
asked. A controller that has printed two stray lines may be two lines behind: the pipe of
two lines is then full, and the driver's write waits (`Stuck`). ScoringEnds names this as the
one place where scoring may stop for ever, and that it takes as many stray lines as the pipe holds;
that it never stops (NeverHung) is what MCHang refutes. Of `AskedRounds`, 0 is a caller who leaves `rounds` out and 3 one who
asks for more rounds than the short horizons have chunks; the scorer passes 24,
which is MCDensity. ChunksBounded speaks of the first kind of caller, AnswersFresh of
controllers that have printed nothing unasked.

In MCWorker a slot that is sent twice and a graph that proposes twice have each
the case below, at and above the limit; the slot starts empty and is filled by
earlier jobs of the same run. On a baseline that moved, good work becomes
what is left of it when the baseline has its Python, or a tree that does not compile; that
remainder becomes good work or nothing. The edits of MCGates were chosen so that each way of
finding a place occurs, alone and beside an edit of the same lines, and each
diagnostic is made, moved and removed; one of them makes an unchanged line wrong. The tests
leave nothing, a file no candidate may change and a test, or data that does not parse and a link; files
and sizes have limits that three files exceed. In MCParts the first run of a runner may be
ended, aborted or followed by calls and a checkpoint before the second begins; the
worlds hold jobs of every state and of fourteen types, at the limits of the
summaries. The guard's time-outs are ordered as the code's are, and its caller's patience
is between the time of a probe and the worst case, as 45 s are. The evaluator's are ordered as the code's:
a call of the thread may take as long as the lease (120 s each), and a checkout, which has no limit, longer;
two items of three are listed.

**Deadlock** is checked in all runs of the control plane (its clock never
stops). The promoter's runs say `CHECK_DEADLOCK FALSE` because there the supply
of candidates is bounded: when all are decided, nothing is left to do. So do those of the
episodes, where scoring is over after `Episodes`, of the gates, where a graph ends,
and of MCParts, where a runner has `MaxRuns` runs.

**Fairness.** Weak fairness of `Elapse`, `Tick` and `TakeCandidate`: the clock
runs, and the services poll in loops that survive failing ticks
(`orchestrator.main`, `promoter.main`, restarted by systemd). Strong fairness
of `Resolve` and `RejectExhausted`, and of each step in Promoter: a promoter
may be restarted in the middle of an inspection again and again, and loses its
candidate each time, but not for ever at the same place. Workers and operators
get no fairness: what must happen, happens without them. In SteppedEpisode the
driver is weakly fair: all its calls have time-outs and its polls a deadline,
but for the write to the controller, which the model lets block. Controller and
game get none. The lab worker's steps are weakly fair: its calls have time-outs and its loop
survives whatever they raise (git on its own disk, the local clone among it, has no time-out and is taken
to end). Being stopped, and outages, are not fair steps; ComesBack
needs neither to end. What is said of the evaluator's lease is said in time, and needs no fairness.

## 4. The proofs

`ControlPlaneProofs` proves, for every number of jobs, workers and objectives,
every retry budget and clock:

* `Invariance`: `IInv /\ PromotionOK` is invariant. `IInv` is the type
  invariant with `RowOK` for each job (budget and owner agree with the state)
  and `LeasesGranted`; it is needed because type correctness of a lease depends
  on attempts never being taken back (`Kept`). `PromotionOK` relates job and
  change of a candidate, and says that the candidate in the promoter's memory
  is still on the baseline. There is one lemma per action; those of the API,
  the clock and the tick share `Onward`, which says what they may do to a row.
* `TypeCorrect` and `BudgetKept` (LeaseBudget, which is AttemptBudget and
  LeasesGranted) follow from it.
* `DecisionsAreFinal` (Finality) and `Refinement` (KeepsContract): every lemma
  also concludes `Decides`, that the step changes nothing decided and is a step
  of `PromotionContract` or a stutter. Most steps leave what the contract sees
  of a row alone (`ContractStutter`); completing a job submits a candidate, and
  the promoter's two transactions reject or promote one. That a promotion is
  made onto the baseline needs `PromotionOK`: the promoter read the candidate in
  an earlier transaction.

`SchedulingProofs` goes on from `Invariance` to what the tick and the tables rest
on. Its first half is one lemma per action that concludes `Stepped`: what the step may
make of a job's row (`Moves`: leased, taken back, ended at the next moment of the clock,
decided, inserted), that a result comes under the newest lease, and that a job the tick
inserts is alone. From it, and from an invariant each:

* `FencedResults` (Fencing) and `OpenJobIsOne` (OneOpenJob), which need no more: a
  job reaches an open state only from another, or as the one that was inserted.
* `LineIsLinear` (BaselineIsLinear). `Stamped` (promotions have moments of their own,
  none to come) makes the CHOOSE of a last commit unique, and `Linear` says the same
  without it; only the promoter's last transaction disturbs them.
* `SubmissionsAreTracked` (SubmissionsTracked). `Tracked` says of each commit that two jobs
  measuring it are one; a step is calm about a commit (`CalmOn`) or moves its measurement on.
  That a scored submission was measured needs `Measured`: a score is written once, by a job
  that ends with it.
* `BlocksAfterRecovery` (BlockedAfterRecovery), an action property about four failures at two
  times. `Backed` keeps the three that made the objective rest, which ended before the row was
  dated (`Dated`); the tick that blocks sees one that ended after.
* `ChampionStays` (ChampionIsFirstBest): a new score comes at a moment later than all others,
  so the first of the best stays where it is unless it is beaten.

`PromoterProofs` proves, for every number of candidates, foreign pushes and
retries: `Invariance`; from it `TypeCorrect`, `MainsStayNested`,
`PublishedWasGated` and `PromotionsKept`; and `Refinement`, that the promoter
implements `PromotionContract`. Its invariant adds to the properties that
histories are closed under ancestry, that the candidate at hand is undecided
and on the baseline from the moment it is taken, and, for each step, how far
the mains have got (before the merge the checkout is the base, at `record` the
origin holds the candidate). `BoundedAttempts` is the safety half of Decided: each step of the
promoter takes one from the steps one candidate has left (`StepsLeft`), of which there are nine for each
retry and ten more; pushes and new candidates add none, and a restart gives back those of the
attempt it cut off, since it is not counted as a retry.

`SteppedEpisodeProofs` proves, for every horizon, every number of episodes and
rounds, every size of the pipe and every rate of the heartbeat: `TypeCorrect`,
`HorizonSpanned` (SpansHorizon), `FreshAnswers` (AnswersFresh),
`ControllersReaped` and `RoundsAreBounded` (ChunksBounded). The last is arithmetic: chunk_plan may
make fewer rounds than rounds_for asked for, so that none gets too short, and then the chunks
are longer; they stay within MaxChunk because two chunks that are just too short make one that
is not too long (`ChunkAssumption`; the code has 100 and 1400 ticks). Without it the property is
false: MinChunk = 3, MaxChunk = 4 and a horizon of 5 make one round of 5. Two invariants carry the others. `PlayInv` says where the game
stands: after i rounds the latest observation is at what the plan has advanced
(`Advanced`, a sum in closed form; `AdvancedFacts` shows that it grows by the
chunk and ends at the horizon), give or take the heartbeat, and the game is
paused there whenever the driver looks away. `PipesInv` says where the one
question of a round is: unread, under decision, answered, or never to be
(`Pending`), and that between rounds both pipes are empty (`Quiet`). `BoundedScoring` is the safety
half of ScoringEnds: every step of the driver makes `Left` smaller, which begins at `8 * NumRounds + 6` for
each episode, and no step of the controller or the game changes it.

`LabWorkerProofs` proves, for every set of patches, kinds of jobs, number of
proposals and bound of replays: `TypeCorrect`, `SafeHandoff` (HandoffSafe),
`CheckedDelivery` (DeliversChecked), `KeptWork` (CommittedKept), `BoundedReplays`
(ReplayBounded) and `ClientRefinement` (ReportsOnce). SafeHandoff says of what is stored that it passed the
gates of syntax and size or the whole validation, because finalize stores what it refuses to deliver on the
strength of the latter alone. BoundedReplays counts per baseline: on another one the patch
is another (`Become`), and its replays start again (section 6). The invariant has one part
for each thing a property needs to know of the worker's place: where a tree may be
committed or stored (`Places`), what is safe to store (`Gate`), what was checked,
what a commit left in the slot (`Slot`), where a tree comes from (`Origin`: it is fresh,
or a replay that the description counts, or one that is not sent before it does) and how
often the slot was sent (`Counted`). `BoundedJob` is the safety half of ComesBack: `Left` gives each place
of the worker its distance from the end of the job, five steps for each proposal that is left
included, and every step but a stop makes it smaller; `Places` is what it needs to know, that work
is stored on the way to four places only.

`PartsProofs` is about four parts that share no state. For the evaluator's loop it proves, for every lease,
interval, time-out and length of a checkout, without any relation between them: `TypeCorrect`,
`LeaseEndsByStalls` (ExpiresByStalls) and `ClientRefinement` (IsClient). The invariant `LoopInv`
bounds the age of a lease that is held (`AgeBounded`): by what was spent, since it was renewed, in the checkout and in
the calls of the thread, an interval for each beat lost since, and the wait of now. So a lease ends under a
running evaluation only if the checkout, the calls and lost beats took all of it but one interval, however
long the episodes play.

For the probe guard it proves, for all of its time-outs, `TimeoutIsHard` (HardTimeout) and
`PatienceRewarded`: a caller with more patience than the sum of them never kills the
guard. The invariant `InTime` says for each place when the guard came there at the latest;
stopping begins once after a time-out and once more in the finally block (`Began`), and
"term" with nothing to stop is reached late in one way only, after the drain.

For the episode runner it proves, for all seeds, policies, budgets and fortresses, `RunsReplay`
(Replayable). `RunInvariance` says that the run on the stack passed through moments `h[0]`,
`h[1]`, ..., each determined by the one before and the action taken (`Moments`), that its
trace and its log hold what these give, and that every run that returned was like that. Two runs
with one seed and the same actions then have the same moments (`SameMoments`), by induction over
their steps. The library's induction theorems take an operator as a parameter and cannot be
instantiated by the provers at hand; `SetInduction`, in `Induction`, says the same of a set of numbers and
is proved from the pigeonhole principle (were n the missing number, k |-> k - 1 would map the
missing numbers up to n into one number fewer without two of them meeting).

For the probes it proves `SummariesDoAgree` (SummariesAgree), for all worlds that meet `WorldsAssumption`
and every limit of listed items. A total
is a sum over a set by a function; `SumUnfolds` gives what one element adds, and `SetInduction` from it that
counts of disjoint groups add up (`CountsAdd`, `EachCountedOnce`) and that a narrower group counts no more
(`CountsGrow`). The states of jobs differ by no more than the jobs whose own fields and flags differ (`LikeStates`,
`CountsApart`). The listed items are the first in the order of the world (`ListedItems`, which counts them by
their places), and the value of a part of them is no more than that of all (`SumTakesAny`: a sum
may be unfolded at any element; `PartsSumToLess`). What is left is one lemma for each pair of answers: that the groups
they are made of are disjoint and leave nothing out. Where the code's groups are not, the exact error is a theorem:
`WallsCountAsLiquid` says that tile_summary counts as liquid what classify_tile_label calls liquid,
and every wall.

`CandidateGatesProofs` proves, for all paths, words, proposals, restored trees and limits:
`GatesTypeOK` (TypeOK), `GateAgreesWithLab` (GateRejectsUnseen), `CommitsOnlyCausedErrors`
(NewErrorsCaused), `EditsAreRealised` (EditsRealised) and `ProposalsUnordered` (OrderIrrelevant). `GatesInvariance` has five
parts: texts stay texts (`Typed`); only files that may be edited, or that the tests wrote, differ from the
baseline, and none is deleted (`Within`); what was looked at once has lines that end alike, and is tidy where git
tracks it (`LookedAt`); what was looked at twice also has no empty line at its end, compiles, and is what the quality
gate had nothing against, with some answer of the tools (`Vetted`); the gate judged what was committed
(`Judgement`). Each of the last two makes an exception of files the tests wrote after the look. `NormalizedIs` says
what one pass of normalisation does, and `LookTwice` that a second leaves nothing to do, although the first
may leave an empty line; `SettledIsTidy` is why git then finds new files tidy, and `InspectedUnseen` goes
through the promoter's reasons. That a proposal comes to texts again is a longer part: places and lists in order
(`SortedOrders`, `HitsAreStarts`), spans that lie in the text whichever way an edit was
resolved (`ResolvedFit`), and replacements made from the last to the first, so that none moves the
place of another (`ReplacedIs`). For NewErrorsCaused, `KeptMatched` shows by induction over difflib's
windows that every line it matched has a line of the baseline of its own, with the same word; what the
lab commits has no faulty line among the others (`CommittedClean`), so its faulty lines, but for those an
added line made wrong, are no more than the baseline's (`NoMoreThanBefore`). The proofs unfold the recursive functions `Hits`, `Kept` and
`InTurn` with `SetInduction`.

The two properties of proposals need an invariant of their own, `Proposed` (`ProposalsCarried`): what is
staged and what has been written make up one outcome of the proposal, for the tree it was
computed from. For OrderIrrelevant, `OutcomesReversed` shows that this outcome is also one of the
reversed proposal: a file's edits are the same ones in another order (`EditsReversed`), spans that do
not overlap begin in different places, so that putting them last first gives one list from either
order (`SameOrder`, `ReplacedAgain`). For EditsRealised, `Laid` says, along the
replacements, that what each has put in lies in the text behind where all the others are still
to be made; a replacement moves what lies behind it and touches nothing of it (`LaidStep`, `AllLaid`).
What is put in is what the edit says or, moved by its surroundings, what it adds (`ResolvedNew`).

The assumptions are `SizeAssumption` and `ValueAssumption` (the ranges of the
constants; workers are distinct from None) and, for the episodes,
`PlanAssumption`, `PipeAssumption`, `GameAssumption` and `EpisodeAssumption`
(ranges) and `ChunkAssumption`, for the runner `EpisodeConstants` (ranges), for the worker `WipAssumption` (a part that is handed on is handed on whole,
on another baseline too) and `WorkerAssumption` (ranges), for the evaluator `TimesAssumption` and for the guard `GuardAssumption` (times are
numbers), for the probes `WorldsAssumption` (a world has finitely many jobs, units, items and tiles; its items have an order and
values that are natural numbers; shares, ratings and tile types are whole numbers) and `MaxListedAssumption`, and for the gates
`EditsAssumption` (an
anchor is not empty, an empty line defines nothing, the longest delta has a length) and `GatesAssumption` (edits quote texts and name paths; restored work in
progress changes files a candidate may change only, and deletes none, as coding jobs change files through
apply_coding_graph_edits alone, worker.py:2982; tests write texts and delete nothing). TLC evaluates
all of them in the runs.

Only model-checked: the temporal properties under fairness (OrphansRecovered,
CandidatesDecided, Decided, ScoringEnds, ComesBack), which are out of the prover's reach. The bounds
above are the half of the last three that is safety: how many steps there are to take. That they
are taken rests on fairness, and on a step being possible, which only TLC sees.

## 5. What is not modelled

See `components` in PROJECT.json. Scores are free choices: the scorers and the comparison
are arithmetic on numbers no transition depends on, and the champion rule is checked for any
score. The action catalogue and library, the baseline ladder, the renderers and curricula are data
or pure output. The Lua scripts beside the heartbeat, the recorders and the infrastructure
scripts act on a game or a machine the repository does not define. The game runner's two
backends (`backend.py`, `episode_runner.py`) are not modelled yet. The hazards without a property
have a note each.

## 6. Where the code and what is said of it differ

* **A stranded submission** (`MCStranded`). The tick's recovery of an
  experiment on its last attempt does not return the submission to `admitted`,
  as `fail_job` does. It stays `evaluating`, is never measured, and coding goes
  on, against docs/EXTERNAL_EVALUATOR_ARCHITECTURE.md.
* **A wedged promoter** (`MCWedge`). A push to the origin that times out after
  the merge, or a restart there, leaves the trusted checkout ahead of the
  baseline. All retries, and all later candidates, then fail with "trusted
  checkout moved from baseline". `MainsNested` shows that nothing is lost
  meanwhile: the main branches stay nested.
* **Failure counts** (`MCCounts`, by hand). repeated_failure_count counts failures again
  after a cooldown.
* **Stops** (`MCStop`, by hand). The promoter does not read the system's mode.
* **A line too many** (`MCNoise`, by hand). Answers carry no round; a stray line on a
  controller's stdout costs not one round but all: each later answer is applied
  a round late.
* **A full pipe** (`MCHang`, by hand). persistent_controller.py:18-22 promises that "a hung controller
  must not hang the evaluator" and that one which "floods" does not deadlock it on a full pipe. That
  holds of its stdout. A controller that prints without reading answers every round at once, is never timed out, and
  in the end its stdin is full: the driver's write, which has no time-out, blocks, and the evaluator with it
  (NeverHung). ScoringEnds says that this is the one way for scoring not to end, and what it takes.
* **A fort left running** (`MCFort`, by hand). A boot that fails after the game started
  leaves it to the watchdog.
* **Rounds too long** (`MCDensity`, by hand). The scorer asks for 24 rounds at every
  horizon, against rounds_for and the calibration of the year.

* **A short lease** (`MCAnswers`, KeptAlive, by hand). game_evaluate.py:100 renews the lease "for the WHOLE
  eval". The thread begins after the checkout, which has no time-out and sends nothing, and
  waits 45 s before its first beat; a heartbeat's time-out (120 s, evaluator.py:92) is as long as the lease (120 s,
  settings.py:14). A slow clone, or one beat that hangs, ends the lease. What holds is ExpiresByStalls: the
  episodes themselves never do, however long, and nothing else than checkout, calls and lost beats does.
* **White space** (`MCViews`, ViewsConsistent, by hand). worker.py:983 normalises so that the lab and the promoter
  judge alike, but not everything. The lab looks twice, so that an empty line which one pass makes of a last line of
  blanks (worker.py:998-1000) is gone before the commit. What remains are new files, of which git was not told in the
  lab: those whose suffix is not treated, too large ones, ones whose lines all end in carriage returns, and ones with conflict
  markers or a space before a tab, which git diff --check also rejects (promoter.py:259); and files the tests wrote, which
  add --all commits.
* **New errors on unchanged lines** (`MCViews`, NoNewErrors, by hand). quality_gate.py:298 drops what mypy says of lines
  the candidate did not add. A changed signature that makes an old call wrong is committed, and passes the promoter's gate,
  which is the same code. NewErrorsCaused says that nothing else gets through. Two files are not compared: such errors
  between files are not modelled, and are dropped in the same way.
* **Replays start again.** The bound on replays is kept by the digest of `git diff --full-index` (worker.py:522), which
  names the objects on the baseline. When the baseline of a file moves, or git apply --3way merges, the same edit has another
  digest and persist_cross_job_wip begins to count at 0 (worker.py:559-563): work that never gets anywhere is replayed
  WIP_MAX_UNCHANGED_REPLAYS times for each baseline. ReplayBounded is about one baseline.
* **Safe by validation.** finalize stores what validation passed (worker.py:2134) and does not ask
  coding_validation_safe_for_handoff (worker.py:1980), which calls a patch without Python unsafe, since nothing compiled it.
  HandoffSafe allows either.
* **Half a proposal** (`MCPartial`, by hand). "Validate exact replacements first, then
  atomically materialize the graph proposal" (worker.py:1415) holds for a proposal that is refused; when one of several files cannot be
  written, those before it are.
* **A retry applied twice.** "Idempotent retry" (worker.py:1516) recognises an edit whose new
  text is there and whose old text is not. An insertion keeps its old text, so on restored
  work it is made again. An edit that was skipped as already present can be undone by another of
  the same proposal; EditsRealised makes these exceptions by name.
* **Diagnostics not seen.** ruff's exit code is not read; a function made hollow by deletion
  alone adds no line and is not reported. Secrets, JSON, links, and the limits of files and sizes (promoter.py:184, 206,
  276-304) are judged by the promoter only. Tests, ruff and mypy are run again there, in a clean checkout without the files git
  ignores: a rejection for what they say may come to what the lab passed, and GateRejectsUnseen leaves these two
  reasons out.
* **Population of the dead** (`MCAnswers`, PopulationLives, by hand). unit_population_probe.py:4-5 counts "living units";
  its script counts world.units.all. SummariesAgree says so: living and dead together.
* **Fields and flags.** job_summary_probe.py:32-34 asks `job.cancelled` and `job.suspended`, core.lua:357-358
  `job.flags.cancelled` and `job.flags.suspend`. The counts differ by the jobs in which these differ; JobsAgree gives that bound.
* **Three hundred items.** item_list (core.lua:425) lists the first 300 items, inventory_value_probe sums all: in a larger fort
  the value an observation comes to is below the probe's. ItemsListed says where they are equal.
* **A time-out taken for data** (`MCAnswers`, NoneOnFailure). `_dfhack_run` answers a time-out with
  `{"error": "timeout"}`, and probes promise "None if the probe fails" but return any dict. The other way
  round, scripts that print `json.encode{{...}}` print a list, which the same probes refuse: their answer
  is always None. Two scripts hold `[]`, which is not Lua; those that call `core.lua` print nothing;
  three convert keys to numbers outside their try and raise on a time-out; skill_probe
  takes only numbers as keys, which JSON has not; pause_advancement_probe says paused whatever is;
  metal_smelting_progress_probe counts casting; profession_probe divides by the rank of the visit.
* **Walls of water** (`MCAnswers`, TilesAgree). classify_tile_label tests walls before liquids because their
  range lies above the liquids' limit; tile_summary counts with is_liquid_tile alone and so
  takes walls for liquid, all of them and nothing else (theorem `WallsCountAsLiquid`). job_category says siege engines are military, yet
  ConstructBallistaParts is found as construction first.
* **A checkpoint that is none** (`MCRunner`, RestoredAtPoint). load_checkpoint and deserialize promise
  a runner at the saved point from which run() can continue. The restored clock and citizens are new while the
  metrics are old, and run() resets all of it.
* **Two runs, one fingerprint** (`MCRunner`, FingerprintTells). The digest "unique to this logger state"
  does not see actions that name themselves by `name`, which act() carries out. Replayable speaks of the runs of one runner:
  of two runners with different budgets, one may stop the same actions earlier.
* **A hard time-out** (INVARIANT GroupStopped, OutputOnce or WaitedFor in MCParts.cfg, by
  hand). probe_guard.py:237 promises "a hard process-group timeout". The group is signalled only
  while its leader runs: `_stop_group` returns when the leader has exited, so a child that
  let go of the pipe, or ignores SIGTERM while the leader obeys, is left running. After a time-out the
  second communicate returns all of the output, which is appended to what the exception held: the first
  part is there twice. A leader that is not reaped in 2 s after SIGKILL raises a TimeoutExpired that main
  does not catch, and no BONSAI_PROBE_RESULT is printed. live_df_probe (evaluator.py:329) waits 45 s for a
  guard that may take over 70 when the runtime has to be started; it kills the guard then, and not the probe.
* **Outages.** A TimeoutError of the model or the game is taken for an unreachable control plane
  (worker.py:3272): the job is left to its lease instead of being failed. LabWorker has both; OrphansRecovered and
  ComesBack hold regardless.

## 7. Plan

1. Done: the control plane and the promoter with the abstract contract; stepped episodes with
   their controllers and sessions; the lab worker and the evaluator with the abstract protocol of a lease;
   work in progress handed on; edits and gates; the episode runner; the probes and their guard.
2. The run list holds twelve runs, as many as stay quick to repeat: what comes next
   joins a run where one instance can serve two questions, as in MCParts.
3. Left to model: the backends of the game runner (an act that timed out may have happened),
   the action gate, scoring as operators against reference definitions.
4. Every invariant, action property and refinement the passing runs check is a theorem, and of three of
   the five liveness properties the bound on the steps they wait for. Left to prove, with a prover that has ENABLED: the liveness
   properties themselves.
