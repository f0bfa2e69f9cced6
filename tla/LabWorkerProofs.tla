--------------------------- MODULE LabWorkerProofs ---------------------------
(***************************************************************************)
(* The lab worker's safety properties and its refinement, for every number *)
(* of patches, replays and proposals.  The inductive invariant has one     *)
(* part for each thing a property needs to know of the worker's place:     *)
(* where a tree may be committed or stored (Places), what is safe to store *)
(* (Gate), what was checked (Checks), what a committed tree left in the    *)
(* slot (Slot), where a tree comes from (Origin) and how often the slot was *)
(* sent (Counted).  Places also bounds how long a job can last.            *)
(***************************************************************************)
EXTENDS LabWorker, TLAPS

\* Where the tree is applied, clean, committed or about to be described.
Places ==
  /\ pc = "applied" => Whole /\ metaFile.count < MaxReplays
  /\ pc \in {"restoring", "emptying"} => tree = Nothing
  /\ committed =>
       /\ tree # Nothing
       /\ \/ pc \in {"idle", "backoff", "starting", "preparing", "uploading",
                     "completing", "failing", "reporting"}
          \/ pc = "storing" /\ after = "reporting"
  /\ pc = "describing" => Storable
  /\ pc \in {"storing", "describing"} =>
       /\ after \in {"recovering", "routing", "committing", "reporting"}
       /\ after = "recovering" => kind = "discovery_cycle"
  /\ pc \in Discovery => kind = "discovery_cycle"

\* What a coding job has stored, or is about to store, is safe.
Gate ==
  kind = "coding_cycle" =>
    /\ patchFile # Nothing => \E p \in Safe \cup Sound : patchFile = Kept[p]
    /\ pc \in {"finalizing", "describing"} \/ (pc = "storing" /\ Storable)
         => tree \in Safe \cup Sound

\* The committed tree, and the one about to be, is in the slot.
Slot ==
  /\ committed \/ pc = "committing" =>
       (tree # Nothing /\ Kept[tree] # Nothing => Whole /\ patchFile = Kept[tree])
  /\ pc = "describing" => patchFile = Kept[tree]

\* The changes in the tree were never sent, nor what of them is handed on.
Fresh == sent[tree] = 0 /\ (Kept[tree] # Nothing => sent[Kept[tree]] = 0)

\* They are those of the slot, and this replay of them is counted, or not yet.
Replaying == Whole /\ patchFile = tree
Replayed  == Replaying /\ sent[tree] <= metaFile.count

\* Where a replay that was not counted may be: it is not sent from there.
Uncounted ==
  \/ pc \in {"applied", "failing", "reporting", "idle", "backoff", "starting", "preparing"}
  \/ pc \in {"storing", "describing"} /\ after = "reporting"

Origin == tree # Nothing /\ (~committed \/ pc = "uploading") =>
            Fresh \/ Replayed \/ (Replaying /\ Uncounted)

\* The slot holds nothing but what may be handed on, and its count bounds how
\* often it was sent.
Counted == /\ patchFile # Nothing => Kept[patchFile] = patchFile
           /\ Whole => sent[patchFile] <= metaFile.count + 1

(* Every step keeps the types. *)
LEMMA TypeStep ==
  ASSUME TypeOK, Places, [Next]_vars
  PROVE  TypeOK'
<1>. USE WipAssumption, WorkerAssumption
         DEF TypeOK, Trees, Metas, NoMeta, Locations, Stops, Coding, Discovery,
             Whole, Places, Storable
<1>1. CASE Lease
  <2>1. kind' \in Kinds /\ pc' \in Locations /\ after' \in Locations
    BY <1>1 DEF Lease, Goto, wipVars, jobVars
  <2>2. tree' \in Trees /\ checked' \in Trees
    BY <1>1 DEF Lease, Goto, wipVars, jobVars
  <2>3. attempt' \in 0..MaxAttempts
    BY <1>1 DEF Lease, Goto, wipVars, jobVars
  <2>4. committed' \in BOOLEAN /\ fit' \in BOOLEAN /\ blocked' \in BOOLEAN
    BY <1>1, Zenon DEF Lease, Goto, wipVars, jobVars
  <2>5. swallowed' \subseteq {"control", "work"}
    BY <1>1 DEF Lease, Goto, wipVars, jobVars
  <2>6. sent' \in [Patches -> Nat]
    BY <1>1 DEF Lease, Goto, wipVars, jobVars
  <2>7. patchFile' \in Trees /\ metaFile' \in Metas
    BY <1>1 DEF Lease, Goto, wipVars, jobVars
  <2>. QED  BY <2>1, <2>2, <2>3, <2>4, <2>5, <2>6, <2>7
<1>2. CASE LeaseFails
  BY <1>2 DEF LeaseFails, Goto, wipVars, jobVars, Step
<1>3. CASE Crash
  BY <1>3 DEF Crash, Goto, wipVars, jobVars
<1>4. CASE BackOff
  BY <1>4 DEF BackOff, Goto, wipVars, jobVars, Step
<1>5. CASE Start
  BY <1>5 DEF Start, Goto, wipVars, jobVars, Call, Step, Raise
<1>6. CASE Prepare
  BY <1>6 DEF Prepare, Goto, wipVars, jobVars, Raise
<1>7. CASE RestoreNothing
  BY <1>7 DEF RestoreNothing, Goto, wipVars, jobVars, Step
<1>8. CASE Dispose
  BY <1>8 DEF Dispose, Goto, wipVars, jobVars, RemovePatch
<1>9. CASE FinishDisposal
  BY <1>9 DEF FinishDisposal, Goto, wipVars, jobVars, RemoveMeta
<1>10. CASE Apply
  BY <1>10 DEF Apply, Goto, wipVars, jobVars, Replayable, Become
<1>11. CASE Conflict
  BY <1>11 DEF Conflict, Goto, wipVars, jobVars, Step
<1>12. CASE CountApplied
  <2>1. kind' \in Kinds /\ pc' \in Locations /\ after' \in Locations
    BY <1>12 DEF CountApplied, Goto, wipVars, jobVars, Raise, CountReplay
  <2>2. tree' \in Trees /\ checked' \in Trees
    BY <1>12 DEF CountApplied, Goto, wipVars, jobVars, Raise, CountReplay
  <2>3. attempt' \in 0..MaxAttempts
    BY <1>12 DEF CountApplied, Goto, wipVars, jobVars, Raise, CountReplay
  <2>4. committed' \in BOOLEAN /\ fit' \in BOOLEAN /\ blocked' \in BOOLEAN
    BY <1>12, Zenon DEF CountApplied, Goto, wipVars, jobVars, Raise, CountReplay
  <2>5. swallowed' \subseteq {"control", "work"}
    BY <1>12 DEF CountApplied, Goto, wipVars, jobVars, Raise, CountReplay
  <2>6. sent' \in [Patches -> Nat]
    BY <1>12 DEF CountApplied, Goto, wipVars, jobVars, Raise, CountReplay
  <2>7. patchFile' \in Trees /\ metaFile' \in Metas
    BY <1>12 DEF CountApplied, Goto, wipVars, jobVars, Raise, CountReplay
  <2>. QED  BY <2>1, <2>2, <2>3, <2>4, <2>5, <2>6, <2>7
<1>13. CASE Ready
  BY <1>13 DEF Ready, Goto, wipVars, jobVars, Call, Step, Raise
<1>14. CASE CheckRestored
  BY <1>14
    DEF CheckRestored, Goto, wipVars, jobVars, Step, Raise, Note, Verdicts, Promotable
<1>15. CASE Route
  <2>1. kind' \in Kinds /\ pc' \in Locations /\ after' \in Locations
    BY <1>15 DEF Route, Goto, wipVars, jobVars, Step, Raise
  <2>2. tree' \in Trees /\ checked' \in Trees
    BY <1>15 DEF Route, Goto, wipVars, jobVars, Step, Raise
  <2>3. attempt' \in 0..MaxAttempts
    BY <1>15 DEF Route, Goto, wipVars, jobVars, Step, Raise
  <2>4. committed' \in BOOLEAN /\ fit' \in BOOLEAN /\ blocked' \in BOOLEAN
    BY <1>15, Zenon DEF Route, Goto, wipVars, jobVars, Step, Raise
  <2>5. swallowed' \subseteq {"control", "work"}
    BY <1>15 DEF Route, Goto, wipVars, jobVars, Step, Raise
  <2>6. sent' \in [Patches -> Nat]
    BY <1>15 DEF Route, Goto, wipVars, jobVars, Step, Raise
  <2>7. patchFile' \in Trees /\ metaFile' \in Metas
    BY <1>15 DEF Route, Goto, wipVars, jobVars, Step, Raise
  <2>. QED  BY <2>1, <2>2, <2>3, <2>4, <2>5, <2>6, <2>7
<1>16. CASE Propose
  BY <1>16 DEF Propose, Goto, wipVars, jobVars, Write, Become
<1>17. CASE BurnAttempt
  <2>1. kind' \in Kinds /\ pc' \in Locations /\ after' \in Locations
    BY <1>17 DEF BurnAttempt, Goto, wipVars, jobVars, Write, Become
  <2>2. tree' \in Trees /\ checked' \in Trees
    BY <1>17 DEF BurnAttempt, Goto, wipVars, jobVars, Write, Become
  <2>3. attempt' \in 0..MaxAttempts
    BY <1>17 DEF BurnAttempt, Goto, wipVars, jobVars, Write, Become
  <2>4. committed' \in BOOLEAN /\ fit' \in BOOLEAN /\ blocked' \in BOOLEAN
    BY <1>17, Zenon DEF BurnAttempt, Goto, wipVars, jobVars, Write, Become
  <2>5. swallowed' \subseteq {"control", "work"}
    BY <1>17 DEF BurnAttempt, Goto, wipVars, jobVars, Write, Become
  <2>6. sent' \in [Patches -> Nat]
    BY <1>17 DEF BurnAttempt, Goto, wipVars, jobVars, Write, Become
  <2>7. patchFile' \in Trees /\ metaFile' \in Metas
    BY <1>17 DEF BurnAttempt, Goto, wipVars, jobVars, Write, Become
  <2>. QED  BY <2>1, <2>2, <2>3, <2>4, <2>5, <2>6, <2>7
<1>18. CASE Validate
  BY <1>18 DEF Validate, Goto, wipVars, jobVars, Note, Verdicts, Promotable
<1>19. CASE Recheck
  BY <1>19 DEF Recheck, Goto, wipVars, jobVars, Raise, Note, Verdicts, Promotable
<1>20. CASE Probe
  <2>1. kind' \in Kinds /\ pc' \in Locations /\ after' \in Locations
    BY <1>20 DEF Probe, Goto, wipVars, jobVars, Write, Become, Raise
  <2>2. tree' \in Trees /\ checked' \in Trees
    BY <1>20 DEF Probe, Goto, wipVars, jobVars, Write, Become, Raise
  <2>3. attempt' \in 0..MaxAttempts
    BY <1>20 DEF Probe, Goto, wipVars, jobVars, Write, Become, Raise
  <2>4. committed' \in BOOLEAN /\ fit' \in BOOLEAN /\ blocked' \in BOOLEAN
    BY <1>20, Zenon DEF Probe, Goto, wipVars, jobVars, Write, Become, Raise
  <2>5. swallowed' \subseteq {"control", "work"}
    BY <1>20 DEF Probe, Goto, wipVars, jobVars, Write, Become, Raise
  <2>6. sent' \in [Patches -> Nat]
    BY <1>20 DEF Probe, Goto, wipVars, jobVars, Write, Become, Raise
  <2>7. patchFile' \in Trees /\ metaFile' \in Metas
    BY <1>20 DEF Probe, Goto, wipVars, jobVars, Write, Become, Raise
  <2>. QED  BY <2>1, <2>2, <2>3, <2>4, <2>5, <2>6, <2>7
<1>21. CASE Synthesize
  <2>1. kind' \in Kinds /\ pc' \in Locations /\ after' \in Locations
    BY <1>21 DEF Synthesize, Goto, wipVars, jobVars, Write, Become, Step, Raise
  <2>2. tree' \in Trees /\ checked' \in Trees
    BY <1>21 DEF Synthesize, Goto, wipVars, jobVars, Write, Become, Step, Raise
  <2>3. attempt' \in 0..MaxAttempts
    BY <1>21 DEF Synthesize, Goto, wipVars, jobVars, Write, Become, Step, Raise
  <2>4. committed' \in BOOLEAN /\ fit' \in BOOLEAN /\ blocked' \in BOOLEAN
    BY <1>21, Zenon DEF Synthesize, Goto, wipVars, jobVars, Write, Become, Step, Raise
  <2>5. swallowed' \subseteq {"control", "work"}
    BY <1>21 DEF Synthesize, Goto, wipVars, jobVars, Write, Become, Step, Raise
  <2>6. sent' \in [Patches -> Nat]
    BY <1>21 DEF Synthesize, Goto, wipVars, jobVars, Write, Become, Step, Raise
  <2>7. patchFile' \in Trees /\ metaFile' \in Metas
    BY <1>21 DEF Synthesize, Goto, wipVars, jobVars, Write, Become, Step, Raise
  <2>. QED  BY <2>1, <2>2, <2>3, <2>4, <2>5, <2>6, <2>7
<1>22. CASE StorePatch
  BY <1>22 DEF StorePatch, Goto, wipVars, jobVars, ReplacePatch
<1>23. CASE StoreMeta
  BY <1>23 DEF StoreMeta, Goto, wipVars, jobVars, ReplaceMeta
<1>24. CASE StoreNothing
  BY <1>24 DEF StoreNothing, Goto, wipVars, jobVars
<1>25. CASE StoreFails
  <2>1. kind' \in Kinds /\ pc' \in Locations /\ after' \in Locations
    BY <1>25 DEF StoreFails, Goto, wipVars, jobVars
  <2>2. tree' \in Trees /\ checked' \in Trees
    BY <1>25 DEF StoreFails, Goto, wipVars, jobVars
  <2>3. attempt' \in 0..MaxAttempts
    BY <1>25 DEF StoreFails, Goto, wipVars, jobVars
  <2>4. committed' \in BOOLEAN /\ fit' \in BOOLEAN /\ blocked' \in BOOLEAN
    BY <1>25, Zenon DEF StoreFails, Goto, wipVars, jobVars
  <2>5. swallowed' \subseteq {"control", "work"}
    BY <1>25 DEF StoreFails, Goto, wipVars, jobVars
  <2>6. sent' \in [Patches -> Nat]
    BY <1>25 DEF StoreFails, Goto, wipVars, jobVars
  <2>7. patchFile' \in Trees /\ metaFile' \in Metas
    BY <1>25 DEF StoreFails, Goto, wipVars, jobVars
  <2>. QED  BY <2>1, <2>2, <2>3, <2>4, <2>5, <2>6, <2>7
<1>26. CASE Finalize
  BY <1>26 DEF Finalize, Goto, wipVars, jobVars
<1>27. CASE Commit
  BY <1>27 DEF Commit, Goto, wipVars, jobVars, Raise
<1>28. CASE Upload
  <2>1. kind' \in Kinds /\ pc' \in Locations /\ after' \in Locations
    BY <1>28 DEF Upload, Goto, wipVars, jobVars, Step, Raise
  <2>2. tree' \in Trees /\ checked' \in Trees
    BY <1>28 DEF Upload, Goto, wipVars, jobVars, Step, Raise
  <2>3. attempt' \in 0..MaxAttempts
    BY <1>28 DEF Upload, Goto, wipVars, jobVars, Step, Raise
  <2>4. committed' \in BOOLEAN /\ fit' \in BOOLEAN /\ blocked' \in BOOLEAN
    BY <1>28, Zenon DEF Upload, Goto, wipVars, jobVars, Step, Raise
  <2>5. swallowed' \subseteq {"control", "work"}
    BY <1>28 DEF Upload, Goto, wipVars, jobVars, Step, Raise
  <2>6. sent' \in [Patches -> Nat]
    BY <1>28 DEF Upload, Goto, wipVars, jobVars, Step, Raise
  <2>7. patchFile' \in Trees /\ metaFile' \in Metas
    BY <1>28 DEF Upload, Goto, wipVars, jobVars, Step, Raise
  <2>. QED  BY <2>1, <2>2, <2>3, <2>4, <2>5, <2>6, <2>7
<1>29. CASE Completed
  BY <1>29 DEF Completed, Goto, wipVars, jobVars, Step
<1>30. CASE SaveFailed
  BY <1>30 DEF SaveFailed, Goto, wipVars, jobVars, Verdicts
<1>31. CASE Report
  BY <1>31 DEF Report, Goto, wipVars, jobVars
<1>32. CASE UNCHANGED vars
  BY <1>32 DEF vars, jobVars, wipVars
<1>33. QED
  BY <1>1, <1>2, <1>3, <1>4, <1>5, <1>6, <1>7, <1>8, <1>9, <1>10, <1>11,
     <1>12, <1>13, <1>14, <1>15, <1>16, <1>17, <1>18, <1>19, <1>20,
     <1>21, <1>22, <1>23, <1>24, <1>25, <1>26, <1>27, <1>28, <1>29,
     <1>30, <1>31, <1>32
     DEF Next, Work

(* The worker's places. *)
LEMMA PlacesStep ==
  ASSUME TypeOK, Places, [Next]_vars
  PROVE  Places'
<1>. USE WipAssumption, WorkerAssumption
         DEF TypeOK, Trees, Metas, NoMeta, Places, Storable, Whole, Discovery
<1>1. CASE Lease
  BY <1>1 DEF Lease, Goto, wipVars, jobVars
<1>2. CASE LeaseFails
  BY <1>2 DEF LeaseFails, Goto, wipVars, jobVars, Step
<1>3. CASE Crash
  BY <1>3 DEF Crash, Goto, wipVars, jobVars
<1>4. CASE BackOff
  BY <1>4 DEF BackOff, Goto, wipVars, jobVars, Step
<1>5. CASE Start
  BY <1>5 DEF Start, Goto, wipVars, jobVars, Call, Step, Raise
<1>6. CASE Prepare
  BY <1>6 DEF Prepare, Goto, wipVars, jobVars, Raise
<1>7. CASE RestoreNothing
  BY <1>7 DEF RestoreNothing, Goto, wipVars, jobVars, Step
<1>8. CASE Dispose
  BY <1>8 DEF Dispose, Goto, wipVars, jobVars, RemovePatch
<1>9. CASE FinishDisposal
  BY <1>9 DEF FinishDisposal, Goto, wipVars, jobVars, RemoveMeta
<1>10. CASE Apply
  BY <1>10 DEF Apply, Goto, wipVars, jobVars, Replayable, Become
<1>11. CASE Conflict
  BY <1>11 DEF Conflict, Goto, wipVars, jobVars, Step
<1>12. CASE CountApplied
  BY <1>12 DEF CountApplied, Goto, wipVars, jobVars, Raise, CountReplay
<1>13. CASE Ready
  BY <1>13 DEF Ready, Goto, wipVars, jobVars, Call, Step, Raise
<1>14. CASE CheckRestored
  BY <1>14
    DEF CheckRestored, Goto, wipVars, jobVars, Step, Raise, Note, Verdicts, Promotable
<1>15. CASE Route
  BY <1>15 DEF Route, Goto, wipVars, jobVars, Step, Raise
<1>16. CASE Propose
  BY <1>16 DEF Propose, Goto, wipVars, jobVars, Write, Become
<1>17. CASE BurnAttempt
  BY <1>17 DEF BurnAttempt, Goto, wipVars, jobVars, Write, Become
<1>18. CASE Validate
  BY <1>18 DEF Validate, Goto, wipVars, jobVars, Note, Verdicts, Promotable
<1>19. CASE Recheck
  BY <1>19 DEF Recheck, Goto, wipVars, jobVars, Raise, Note, Verdicts, Promotable
<1>20. CASE Probe
  BY <1>20 DEF Probe, Goto, wipVars, jobVars, Write, Become, Raise
<1>21. CASE Synthesize
  BY <1>21 DEF Synthesize, Goto, wipVars, jobVars, Write, Become, Step, Raise
<1>22. CASE StorePatch
  BY <1>22 DEF StorePatch, Goto, wipVars, jobVars, ReplacePatch
<1>23. CASE StoreMeta
  BY <1>23 DEF StoreMeta, Goto, wipVars, jobVars, ReplaceMeta
<1>24. CASE StoreNothing
  BY <1>24 DEF StoreNothing, Goto, wipVars, jobVars
<1>25. CASE StoreFails
  BY <1>25 DEF StoreFails, Goto, wipVars, jobVars
<1>26. CASE Finalize
  BY <1>26 DEF Finalize, Goto, wipVars, jobVars
<1>27. CASE Commit
  BY <1>27 DEF Commit, Goto, wipVars, jobVars, Raise
<1>28. CASE Upload
  BY <1>28 DEF Upload, Goto, wipVars, jobVars, Step, Raise
<1>29. CASE Completed
  BY <1>29 DEF Completed, Goto, wipVars, jobVars, Step
<1>30. CASE SaveFailed
  BY <1>30 DEF SaveFailed, Goto, wipVars, jobVars, Verdicts
<1>31. CASE Report
  BY <1>31 DEF Report, Goto, wipVars, jobVars
<1>32. CASE UNCHANGED vars
  BY <1>32 DEF vars, jobVars, wipVars
<1>33. QED
  BY <1>1, <1>2, <1>3, <1>4, <1>5, <1>6, <1>7, <1>8, <1>9, <1>10, <1>11,
     <1>12, <1>13, <1>14, <1>15, <1>16, <1>17, <1>18, <1>19, <1>20,
     <1>21, <1>22, <1>23, <1>24, <1>25, <1>26, <1>27, <1>28, <1>29,
     <1>30, <1>31, <1>32
     DEF Next, Work

(* What a coding job stores is safe. *)
LEMMA GateStep ==
  ASSUME TypeOK, Places, Gate, [Next]_vars
  PROVE  Gate'
<1>. USE WipAssumption, WorkerAssumption
         DEF TypeOK, Trees, Places, Storable, Gate, Discovery
<1>1. CASE Lease
  BY <1>1 DEF Lease, Goto, wipVars, jobVars
<1>2. CASE LeaseFails
  BY <1>2 DEF LeaseFails, Goto, wipVars, jobVars, Step
<1>3. CASE Crash
  BY <1>3 DEF Crash, Goto, wipVars, jobVars
<1>4. CASE BackOff
  BY <1>4 DEF BackOff, Goto, wipVars, jobVars, Step
<1>5. CASE Start
  BY <1>5 DEF Start, Goto, wipVars, jobVars, Call, Step, Raise
<1>6. CASE Prepare
  BY <1>6 DEF Prepare, Goto, wipVars, jobVars, Raise
<1>7. CASE RestoreNothing
  BY <1>7 DEF RestoreNothing, Goto, wipVars, jobVars, Step
<1>8. CASE Dispose
  BY <1>8 DEF Dispose, Goto, wipVars, jobVars, RemovePatch
<1>9. CASE FinishDisposal
  BY <1>9 DEF FinishDisposal, Goto, wipVars, jobVars, RemoveMeta
<1>10. CASE Apply
  BY <1>10 DEF Apply, Goto, wipVars, jobVars, Replayable, Become
<1>11. CASE Conflict
  BY <1>11 DEF Conflict, Goto, wipVars, jobVars, Step
<1>12. CASE CountApplied
  BY <1>12 DEF CountApplied, Goto, wipVars, jobVars, Raise, CountReplay
<1>13. CASE Ready
  BY <1>13 DEF Ready, Goto, wipVars, jobVars, Call, Step, Raise
<1>14. CASE CheckRestored
  BY <1>14
    DEF CheckRestored, Goto, wipVars, jobVars, Step, Raise, Note, Verdicts, Promotable
<1>15. CASE Route
  BY <1>15 DEF Route, Goto, wipVars, jobVars, Step, Raise
<1>16. CASE Propose
  BY <1>16 DEF Propose, Goto, wipVars, jobVars, Write, Become
<1>17. CASE BurnAttempt
  BY <1>17 DEF BurnAttempt, Goto, wipVars, jobVars, Write, Become
<1>18. CASE Validate
  BY <1>18 DEF Validate, Goto, wipVars, jobVars, Note, Verdicts, Promotable
<1>19. CASE Recheck
  BY <1>19 DEF Recheck, Goto, wipVars, jobVars, Raise, Note, Verdicts, Promotable
<1>20. CASE Probe
  BY <1>20 DEF Probe, Goto, wipVars, jobVars, Write, Become, Raise
<1>21. CASE Synthesize
  BY <1>21 DEF Synthesize, Goto, wipVars, jobVars, Write, Become, Step, Raise
<1>22. CASE StorePatch
  BY <1>22 DEF StorePatch, Goto, wipVars, jobVars, ReplacePatch
<1>23. CASE StoreMeta
  BY <1>23 DEF StoreMeta, Goto, wipVars, jobVars, ReplaceMeta
<1>24. CASE StoreNothing
  BY <1>24 DEF StoreNothing, Goto, wipVars, jobVars
<1>25. CASE StoreFails
  BY <1>25 DEF StoreFails, Goto, wipVars, jobVars
<1>26. CASE Finalize
  BY <1>26 DEF Finalize, Goto, wipVars, jobVars
<1>27. CASE Commit
  BY <1>27 DEF Commit, Goto, wipVars, jobVars, Raise
<1>28. CASE Upload
  BY <1>28 DEF Upload, Goto, wipVars, jobVars, Step, Raise
<1>29. CASE Completed
  BY <1>29 DEF Completed, Goto, wipVars, jobVars, Step
<1>30. CASE SaveFailed
  BY <1>30 DEF SaveFailed, Goto, wipVars, jobVars, Verdicts
<1>31. CASE Report
  BY <1>31 DEF Report, Goto, wipVars, jobVars
<1>32. CASE UNCHANGED vars
  BY <1>32 DEF vars, jobVars, wipVars
<1>33. QED
  BY <1>1, <1>2, <1>3, <1>4, <1>5, <1>6, <1>7, <1>8, <1>9, <1>10, <1>11,
     <1>12, <1>13, <1>14, <1>15, <1>16, <1>17, <1>18, <1>19, <1>20,
     <1>21, <1>22, <1>23, <1>24, <1>25, <1>26, <1>27, <1>28, <1>29,
     <1>30, <1>31, <1>32
     DEF Next, Work

(* What is delivered was checked. *)
LEMMA ChecksStep ==
  ASSUME TypeOK, Places, DeliversChecked, [Next]_vars
  PROVE  DeliversChecked'
<1>. USE WipAssumption, WorkerAssumption
         DEF TypeOK, Trees, Places, DeliversChecked, Discovery, Delivering
<1>1. CASE Lease
  BY <1>1 DEF Lease, Goto, wipVars, jobVars
<1>2. CASE LeaseFails
  BY <1>2 DEF LeaseFails, Goto, wipVars, jobVars, Step
<1>3. CASE Crash
  BY <1>3 DEF Crash, Goto, wipVars, jobVars
<1>4. CASE BackOff
  BY <1>4 DEF BackOff, Goto, wipVars, jobVars, Step
<1>5. CASE Start
  BY <1>5 DEF Start, Goto, wipVars, jobVars, Call, Step, Raise
<1>6. CASE Prepare
  BY <1>6 DEF Prepare, Goto, wipVars, jobVars, Raise
<1>7. CASE RestoreNothing
  BY <1>7 DEF RestoreNothing, Goto, wipVars, jobVars, Step
<1>8. CASE Dispose
  BY <1>8 DEF Dispose, Goto, wipVars, jobVars, RemovePatch
<1>9. CASE FinishDisposal
  BY <1>9 DEF FinishDisposal, Goto, wipVars, jobVars, RemoveMeta
<1>10. CASE Apply
  BY <1>10 DEF Apply, Goto, wipVars, jobVars, Replayable, Become
<1>11. CASE Conflict
  BY <1>11 DEF Conflict, Goto, wipVars, jobVars, Step
<1>12. CASE CountApplied
  BY <1>12 DEF CountApplied, Goto, wipVars, jobVars, Raise, CountReplay
<1>13. CASE Ready
  BY <1>13 DEF Ready, Goto, wipVars, jobVars, Call, Step, Raise
<1>14. CASE CheckRestored
  BY <1>14
    DEF CheckRestored, Goto, wipVars, jobVars, Step, Raise, Note, Verdicts, Promotable
<1>15. CASE Route
  BY <1>15 DEF Route, Goto, wipVars, jobVars, Step, Raise
<1>16. CASE Propose
  BY <1>16 DEF Propose, Goto, wipVars, jobVars, Write, Become
<1>17. CASE BurnAttempt
  BY <1>17 DEF BurnAttempt, Goto, wipVars, jobVars, Write, Become
<1>18. CASE Validate
  BY <1>18 DEF Validate, Goto, wipVars, jobVars, Note, Verdicts, Promotable
<1>19. CASE Recheck
  BY <1>19 DEF Recheck, Goto, wipVars, jobVars, Raise, Note, Verdicts, Promotable
<1>20. CASE Probe
  BY <1>20 DEF Probe, Goto, wipVars, jobVars, Write, Become, Raise
<1>21. CASE Synthesize
  BY <1>21 DEF Synthesize, Goto, wipVars, jobVars, Write, Become, Step, Raise
<1>22. CASE StorePatch
  BY <1>22 DEF StorePatch, Goto, wipVars, jobVars, ReplacePatch
<1>23. CASE StoreMeta
  BY <1>23 DEF StoreMeta, Goto, wipVars, jobVars, ReplaceMeta
<1>24. CASE StoreNothing
  BY <1>24 DEF StoreNothing, Goto, wipVars, jobVars
<1>25. CASE StoreFails
  BY <1>25 DEF StoreFails, Goto, wipVars, jobVars
<1>26. CASE Finalize
  BY <1>26 DEF Finalize, Goto, wipVars, jobVars
<1>27. CASE Commit
  BY <1>27 DEF Commit, Goto, wipVars, jobVars, Raise
<1>28. CASE Upload
  BY <1>28 DEF Upload, Goto, wipVars, jobVars, Step, Raise
<1>29. CASE Completed
  BY <1>29 DEF Completed, Goto, wipVars, jobVars, Step
<1>30. CASE SaveFailed
  BY <1>30 DEF SaveFailed, Goto, wipVars, jobVars, Verdicts
<1>31. CASE Report
  BY <1>31 DEF Report, Goto, wipVars, jobVars
<1>32. CASE UNCHANGED vars
  BY <1>32 DEF vars, jobVars, wipVars
<1>33. QED
  BY <1>1, <1>2, <1>3, <1>4, <1>5, <1>6, <1>7, <1>8, <1>9, <1>10, <1>11,
     <1>12, <1>13, <1>14, <1>15, <1>16, <1>17, <1>18, <1>19, <1>20,
     <1>21, <1>22, <1>23, <1>24, <1>25, <1>26, <1>27, <1>28, <1>29,
     <1>30, <1>31, <1>32
     DEF Next, Work

(* Committed work stays in the slot. *)
LEMMA SlotStep ==
  ASSUME TypeOK, Places, Slot, [Next]_vars
  PROVE  Slot'
<1>. USE WipAssumption, WorkerAssumption
         DEF TypeOK, Trees, Metas, NoMeta, Places, Storable, Whole, Discovery, Slot
<1>1. CASE Lease
  BY <1>1 DEF Lease, Goto, wipVars, jobVars
<1>2. CASE LeaseFails
  BY <1>2 DEF LeaseFails, Goto, wipVars, jobVars, Step
<1>3. CASE Crash
  BY <1>3 DEF Crash, Goto, wipVars, jobVars
<1>4. CASE BackOff
  BY <1>4 DEF BackOff, Goto, wipVars, jobVars, Step
<1>5. CASE Start
  BY <1>5 DEF Start, Goto, wipVars, jobVars, Call, Step, Raise
<1>6. CASE Prepare
  BY <1>6 DEF Prepare, Goto, wipVars, jobVars, Raise
<1>7. CASE RestoreNothing
  BY <1>7 DEF RestoreNothing, Goto, wipVars, jobVars, Step
<1>8. CASE Dispose
  BY <1>8 DEF Dispose, Goto, wipVars, jobVars, RemovePatch
<1>9. CASE FinishDisposal
  BY <1>9 DEF FinishDisposal, Goto, wipVars, jobVars, RemoveMeta
<1>10. CASE Apply
  BY <1>10 DEF Apply, Goto, wipVars, jobVars, Replayable, Become
<1>11. CASE Conflict
  BY <1>11 DEF Conflict, Goto, wipVars, jobVars, Step
<1>12. CASE CountApplied
  BY <1>12 DEF CountApplied, Goto, wipVars, jobVars, Raise, CountReplay
<1>13. CASE Ready
  BY <1>13 DEF Ready, Goto, wipVars, jobVars, Call, Step, Raise
<1>14. CASE CheckRestored
  BY <1>14
    DEF CheckRestored, Goto, wipVars, jobVars, Step, Raise, Note, Verdicts, Promotable
<1>15. CASE Route
  BY <1>15 DEF Route, Goto, wipVars, jobVars, Step, Raise
<1>16. CASE Propose
  BY <1>16 DEF Propose, Goto, wipVars, jobVars, Write, Become
<1>17. CASE BurnAttempt
  BY <1>17 DEF BurnAttempt, Goto, wipVars, jobVars, Write, Become
<1>18. CASE Validate
  BY <1>18 DEF Validate, Goto, wipVars, jobVars, Note, Verdicts, Promotable
<1>19. CASE Recheck
  BY <1>19 DEF Recheck, Goto, wipVars, jobVars, Raise, Note, Verdicts, Promotable
<1>20. CASE Probe
  BY <1>20 DEF Probe, Goto, wipVars, jobVars, Write, Become, Raise
<1>21. CASE Synthesize
  BY <1>21 DEF Synthesize, Goto, wipVars, jobVars, Write, Become, Step, Raise
<1>22. CASE StorePatch
  BY <1>22 DEF StorePatch, Goto, wipVars, jobVars, ReplacePatch
<1>23. CASE StoreMeta
  BY <1>23 DEF StoreMeta, Goto, wipVars, jobVars, ReplaceMeta
<1>24. CASE StoreNothing
  BY <1>24 DEF StoreNothing, Goto, wipVars, jobVars
<1>25. CASE StoreFails
  BY <1>25 DEF StoreFails, Goto, wipVars, jobVars
<1>26. CASE Finalize
  BY <1>26 DEF Finalize, Goto, wipVars, jobVars
<1>27. CASE Commit
  BY <1>27 DEF Commit, Goto, wipVars, jobVars, Raise
<1>28. CASE Upload
  BY <1>28 DEF Upload, Goto, wipVars, jobVars, Step, Raise
<1>29. CASE Completed
  BY <1>29 DEF Completed, Goto, wipVars, jobVars, Step
<1>30. CASE SaveFailed
  BY <1>30 DEF SaveFailed, Goto, wipVars, jobVars, Verdicts
<1>31. CASE Report
  BY <1>31 DEF Report, Goto, wipVars, jobVars
<1>32. CASE UNCHANGED vars
  BY <1>32 DEF vars, jobVars, wipVars
<1>33. QED
  BY <1>1, <1>2, <1>3, <1>4, <1>5, <1>6, <1>7, <1>8, <1>9, <1>10, <1>11,
     <1>12, <1>13, <1>14, <1>15, <1>16, <1>17, <1>18, <1>19, <1>20,
     <1>21, <1>22, <1>23, <1>24, <1>25, <1>26, <1>27, <1>28, <1>29,
     <1>30, <1>31, <1>32
     DEF Next, Work

(* Where the changes in the tree come from. *)
LEMMA OriginStep ==
  ASSUME TypeOK, Places, Counted, Origin, [Next]_vars
  PROVE  Origin'
<1>. USE WipAssumption, WorkerAssumption
         DEF TypeOK, Trees, Metas, NoMeta, Places, Storable, Whole, Discovery,
             Fresh, Replaying, Replayed, Uncounted, Counted, Origin
<1>1. CASE Lease
  BY <1>1 DEF Lease, Goto, wipVars, jobVars
<1>2. CASE LeaseFails
  BY <1>2 DEF LeaseFails, Goto, wipVars, jobVars, Step
<1>3. CASE Crash
  BY <1>3 DEF Crash, Goto, wipVars, jobVars
<1>4. CASE BackOff
  BY <1>4 DEF BackOff, Goto, wipVars, jobVars, Step
<1>5. CASE Start
  BY <1>5 DEF Start, Goto, wipVars, jobVars, Call, Step, Raise
<1>6. CASE Prepare
  BY <1>6 DEF Prepare, Goto, wipVars, jobVars, Raise
<1>7. CASE RestoreNothing
  BY <1>7 DEF RestoreNothing, Goto, wipVars, jobVars, Step
<1>8. CASE Dispose
  BY <1>8 DEF Dispose, Goto, wipVars, jobVars, RemovePatch
<1>9. CASE FinishDisposal
  BY <1>9 DEF FinishDisposal, Goto, wipVars, jobVars, RemoveMeta
<1>10. CASE Apply
  BY <1>10 DEF Apply, Goto, wipVars, jobVars, Replayable, Become
<1>11. CASE Conflict
  BY <1>11 DEF Conflict, Goto, wipVars, jobVars, Step
<1>12. CASE CountApplied
  BY <1>12 DEF CountApplied, Goto, wipVars, jobVars, Raise, CountReplay
<1>13. CASE Ready
  BY <1>13 DEF Ready, Goto, wipVars, jobVars, Call, Step, Raise
<1>14. CASE CheckRestored
  BY <1>14
    DEF CheckRestored, Goto, wipVars, jobVars, Step, Raise, Note, Verdicts, Promotable
<1>15. CASE Route
  BY <1>15 DEF Route, Goto, wipVars, jobVars, Step, Raise
<1>16. CASE Propose
  BY <1>16 DEF Propose, Goto, wipVars, jobVars, Write, Become
<1>17. CASE BurnAttempt
  BY <1>17 DEF BurnAttempt, Goto, wipVars, jobVars, Write, Become
<1>18. CASE Validate
  BY <1>18 DEF Validate, Goto, wipVars, jobVars, Note, Verdicts, Promotable
<1>19. CASE Recheck
  BY <1>19 DEF Recheck, Goto, wipVars, jobVars, Raise, Note, Verdicts, Promotable
<1>20. CASE Probe
  BY <1>20 DEF Probe, Goto, wipVars, jobVars, Write, Become, Raise
<1>21. CASE Synthesize
  BY <1>21 DEF Synthesize, Goto, wipVars, jobVars, Write, Become, Step, Raise
<1>22. CASE StorePatch
  BY <1>22 DEF StorePatch, Goto, wipVars, jobVars, ReplacePatch
<1>23. CASE StoreMeta
  BY <1>23 DEF StoreMeta, Goto, wipVars, jobVars, ReplaceMeta
<1>24. CASE StoreNothing
  BY <1>24 DEF StoreNothing, Goto, wipVars, jobVars
<1>25. CASE StoreFails
  BY <1>25 DEF StoreFails, Goto, wipVars, jobVars
<1>26. CASE Finalize
  BY <1>26 DEF Finalize, Goto, wipVars, jobVars
<1>27. CASE Commit
  BY <1>27 DEF Commit, Goto, wipVars, jobVars, Raise
<1>28. CASE Upload
  BY <1>28 DEF Upload, Goto, wipVars, jobVars, Step, Raise
<1>29. CASE Completed
  BY <1>29 DEF Completed, Goto, wipVars, jobVars, Step
<1>30. CASE SaveFailed
  BY <1>30 DEF SaveFailed, Goto, wipVars, jobVars, Verdicts
<1>31. CASE Report
  BY <1>31 DEF Report, Goto, wipVars, jobVars
<1>32. CASE UNCHANGED vars
  BY <1>32 DEF vars, jobVars, wipVars
<1>33. QED
  BY <1>1, <1>2, <1>3, <1>4, <1>5, <1>6, <1>7, <1>8, <1>9, <1>10, <1>11,
     <1>12, <1>13, <1>14, <1>15, <1>16, <1>17, <1>18, <1>19, <1>20,
     <1>21, <1>22, <1>23, <1>24, <1>25, <1>26, <1>27, <1>28, <1>29,
     <1>30, <1>31, <1>32
     DEF Next, Work

(* The count of the slot's replays bounds how often its patch was sent. *)
LEMMA CountedStep ==
  ASSUME TypeOK, Places, Slot, Counted, Origin, [Next]_vars
  PROVE  Counted'
<1>. USE WipAssumption, WorkerAssumption
         DEF TypeOK, Trees, Metas, NoMeta, Places, Storable, Whole, Discovery,
             Fresh, Replaying, Replayed, Uncounted, Slot, Counted, Origin
<1>1. CASE Lease
  BY <1>1 DEF Lease, Goto, wipVars, jobVars
<1>2. CASE LeaseFails
  BY <1>2 DEF LeaseFails, Goto, wipVars, jobVars, Step
<1>3. CASE Crash
  BY <1>3 DEF Crash, Goto, wipVars, jobVars
<1>4. CASE BackOff
  BY <1>4 DEF BackOff, Goto, wipVars, jobVars, Step
<1>5. CASE Start
  BY <1>5 DEF Start, Goto, wipVars, jobVars, Call, Step, Raise
<1>6. CASE Prepare
  BY <1>6 DEF Prepare, Goto, wipVars, jobVars, Raise
<1>7. CASE RestoreNothing
  BY <1>7 DEF RestoreNothing, Goto, wipVars, jobVars, Step
<1>8. CASE Dispose
  BY <1>8 DEF Dispose, Goto, wipVars, jobVars, RemovePatch
<1>9. CASE FinishDisposal
  BY <1>9 DEF FinishDisposal, Goto, wipVars, jobVars, RemoveMeta
<1>10. CASE Apply
  BY <1>10 DEF Apply, Goto, wipVars, jobVars, Replayable, Become
<1>11. CASE Conflict
  BY <1>11 DEF Conflict, Goto, wipVars, jobVars, Step
<1>12. CASE CountApplied
  BY <1>12 DEF CountApplied, Goto, wipVars, jobVars, Raise, CountReplay
<1>13. CASE Ready
  BY <1>13 DEF Ready, Goto, wipVars, jobVars, Call, Step, Raise
<1>14. CASE CheckRestored
  BY <1>14
    DEF CheckRestored, Goto, wipVars, jobVars, Step, Raise, Note, Verdicts, Promotable
<1>15. CASE Route
  BY <1>15 DEF Route, Goto, wipVars, jobVars, Step, Raise
<1>16. CASE Propose
  BY <1>16 DEF Propose, Goto, wipVars, jobVars, Write, Become
<1>17. CASE BurnAttempt
  BY <1>17 DEF BurnAttempt, Goto, wipVars, jobVars, Write, Become
<1>18. CASE Validate
  BY <1>18 DEF Validate, Goto, wipVars, jobVars, Note, Verdicts, Promotable
<1>19. CASE Recheck
  BY <1>19 DEF Recheck, Goto, wipVars, jobVars, Raise, Note, Verdicts, Promotable
<1>20. CASE Probe
  BY <1>20 DEF Probe, Goto, wipVars, jobVars, Write, Become, Raise
<1>21. CASE Synthesize
  BY <1>21 DEF Synthesize, Goto, wipVars, jobVars, Write, Become, Step, Raise
<1>22. CASE StorePatch
  BY <1>22 DEF StorePatch, Goto, wipVars, jobVars, ReplacePatch
<1>23. CASE StoreMeta
  BY <1>23 DEF StoreMeta, Goto, wipVars, jobVars, ReplaceMeta
<1>24. CASE StoreNothing
  BY <1>24 DEF StoreNothing, Goto, wipVars, jobVars
<1>25. CASE StoreFails
  BY <1>25 DEF StoreFails, Goto, wipVars, jobVars
<1>26. CASE Finalize
  BY <1>26 DEF Finalize, Goto, wipVars, jobVars
<1>27. CASE Commit
  BY <1>27 DEF Commit, Goto, wipVars, jobVars, Raise
<1>28. CASE Upload
  BY <1>28 DEF Upload, Goto, wipVars, jobVars, Step, Raise
<1>29. CASE Completed
  BY <1>29 DEF Completed, Goto, wipVars, jobVars, Step
<1>30. CASE SaveFailed
  BY <1>30 DEF SaveFailed, Goto, wipVars, jobVars, Verdicts
<1>31. CASE Report
  BY <1>31 DEF Report, Goto, wipVars, jobVars
<1>32. CASE UNCHANGED vars
  BY <1>32 DEF vars, jobVars, wipVars
<1>33. QED
  BY <1>1, <1>2, <1>3, <1>4, <1>5, <1>6, <1>7, <1>8, <1>9, <1>10, <1>11,
     <1>12, <1>13, <1>14, <1>15, <1>16, <1>17, <1>18, <1>19, <1>20,
     <1>21, <1>22, <1>23, <1>24, <1>25, <1>26, <1>27, <1>28, <1>29,
     <1>30, <1>31, <1>32
     DEF Next, Work

(* No patch is sent too often. *)
LEMMA ReplayStep ==
  ASSUME TypeOK, Places, Counted, Origin, ReplayBounded, [Next]_vars
  PROVE  ReplayBounded'
<1>. USE WipAssumption, WorkerAssumption
         DEF TypeOK, Trees, Metas, NoMeta, Places, Storable, Whole, Discovery,
             Fresh, Replaying, Replayed, Uncounted, Counted, Origin, ReplayBounded
<1>1. CASE Lease
  BY <1>1 DEF Lease, Goto, wipVars, jobVars
<1>2. CASE LeaseFails
  BY <1>2 DEF LeaseFails, Goto, wipVars, jobVars, Step
<1>3. CASE Crash
  BY <1>3 DEF Crash, Goto, wipVars, jobVars
<1>4. CASE BackOff
  BY <1>4 DEF BackOff, Goto, wipVars, jobVars, Step
<1>5. CASE Start
  BY <1>5 DEF Start, Goto, wipVars, jobVars, Call, Step, Raise
<1>6. CASE Prepare
  BY <1>6 DEF Prepare, Goto, wipVars, jobVars, Raise
<1>7. CASE RestoreNothing
  BY <1>7 DEF RestoreNothing, Goto, wipVars, jobVars, Step
<1>8. CASE Dispose
  BY <1>8 DEF Dispose, Goto, wipVars, jobVars, RemovePatch
<1>9. CASE FinishDisposal
  BY <1>9 DEF FinishDisposal, Goto, wipVars, jobVars, RemoveMeta
<1>10. CASE Apply
  BY <1>10 DEF Apply, Goto, wipVars, jobVars, Replayable, Become
<1>11. CASE Conflict
  BY <1>11 DEF Conflict, Goto, wipVars, jobVars, Step
<1>12. CASE CountApplied
  BY <1>12 DEF CountApplied, Goto, wipVars, jobVars, Raise, CountReplay
<1>13. CASE Ready
  BY <1>13 DEF Ready, Goto, wipVars, jobVars, Call, Step, Raise
<1>14. CASE CheckRestored
  BY <1>14
    DEF CheckRestored, Goto, wipVars, jobVars, Step, Raise, Note, Verdicts, Promotable
<1>15. CASE Route
  BY <1>15 DEF Route, Goto, wipVars, jobVars, Step, Raise
<1>16. CASE Propose
  BY <1>16 DEF Propose, Goto, wipVars, jobVars, Write, Become
<1>17. CASE BurnAttempt
  BY <1>17 DEF BurnAttempt, Goto, wipVars, jobVars, Write, Become
<1>18. CASE Validate
  BY <1>18 DEF Validate, Goto, wipVars, jobVars, Note, Verdicts, Promotable
<1>19. CASE Recheck
  BY <1>19 DEF Recheck, Goto, wipVars, jobVars, Raise, Note, Verdicts, Promotable
<1>20. CASE Probe
  BY <1>20 DEF Probe, Goto, wipVars, jobVars, Write, Become, Raise
<1>21. CASE Synthesize
  BY <1>21 DEF Synthesize, Goto, wipVars, jobVars, Write, Become, Step, Raise
<1>22. CASE StorePatch
  BY <1>22 DEF StorePatch, Goto, wipVars, jobVars, ReplacePatch
<1>23. CASE StoreMeta
  BY <1>23 DEF StoreMeta, Goto, wipVars, jobVars, ReplaceMeta
<1>24. CASE StoreNothing
  BY <1>24 DEF StoreNothing, Goto, wipVars, jobVars
<1>25. CASE StoreFails
  BY <1>25 DEF StoreFails, Goto, wipVars, jobVars
<1>26. CASE Finalize
  BY <1>26 DEF Finalize, Goto, wipVars, jobVars
<1>27. CASE Commit
  BY <1>27 DEF Commit, Goto, wipVars, jobVars, Raise
<1>28. CASE Upload
  BY <1>28 DEF Upload, Goto, wipVars, jobVars, Step, Raise
<1>29. CASE Completed
  BY <1>29 DEF Completed, Goto, wipVars, jobVars, Step
<1>30. CASE SaveFailed
  BY <1>30 DEF SaveFailed, Goto, wipVars, jobVars, Verdicts
<1>31. CASE Report
  BY <1>31 DEF Report, Goto, wipVars, jobVars
<1>32. CASE UNCHANGED vars
  BY <1>32 DEF vars, jobVars, wipVars
<1>33. QED
  BY <1>1, <1>2, <1>3, <1>4, <1>5, <1>6, <1>7, <1>8, <1>9, <1>10, <1>11,
     <1>12, <1>13, <1>14, <1>15, <1>16, <1>17, <1>18, <1>19, <1>20,
     <1>21, <1>22, <1>23, <1>24, <1>25, <1>26, <1>27, <1>28, <1>29,
     <1>30, <1>31, <1>32
     DEF Next, Work

(* The worker takes only the steps of the lease protocol. *)
LEMMA ClientStep ==
  ASSUME TypeOK, Places, [Next]_vars
  PROVE  [Client!ClientNext]_Phase
<1>. USE WipAssumption, WorkerAssumption
         DEF TypeOK, Places, Locations, Stops, Coding, Discovery, Phase,
             Client!ClientNext, Client!Lease, Client!Succeed, Client!Fail,
             Client!MoveOn
<1>1. CASE Lease
  BY <1>1 DEF Lease, Goto, wipVars, jobVars
<1>2. CASE LeaseFails
  BY <1>2 DEF LeaseFails, Goto, wipVars, jobVars, Step
<1>3. CASE Crash
  BY <1>3 DEF Crash, Goto, wipVars, jobVars
<1>4. CASE BackOff
  BY <1>4 DEF BackOff, Goto, wipVars, jobVars, Step
<1>5. CASE Start
  BY <1>5 DEF Start, Goto, wipVars, jobVars, Call, Step, Raise
<1>6. CASE Prepare
  BY <1>6 DEF Prepare, Goto, wipVars, jobVars, Raise
<1>7. CASE RestoreNothing
  BY <1>7 DEF RestoreNothing, Goto, wipVars, jobVars, Step
<1>8. CASE Dispose
  BY <1>8 DEF Dispose, Goto, wipVars, jobVars, RemovePatch
<1>9. CASE FinishDisposal
  BY <1>9 DEF FinishDisposal, Goto, wipVars, jobVars, RemoveMeta
<1>10. CASE Apply
  BY <1>10 DEF Apply, Goto, wipVars, jobVars, Replayable, Become
<1>11. CASE Conflict
  BY <1>11 DEF Conflict, Goto, wipVars, jobVars, Step
<1>12. CASE CountApplied
  BY <1>12 DEF CountApplied, Goto, wipVars, jobVars, Raise, CountReplay
<1>13. CASE Ready
  BY <1>13 DEF Ready, Goto, wipVars, jobVars, Call, Step, Raise
<1>14. CASE CheckRestored
  BY <1>14
    DEF CheckRestored, Goto, wipVars, jobVars, Step, Raise, Note, Verdicts, Promotable
<1>15. CASE Route
  BY <1>15 DEF Route, Goto, wipVars, jobVars, Step, Raise
<1>16. CASE Propose
  BY <1>16 DEF Propose, Goto, wipVars, jobVars, Write, Become
<1>17. CASE BurnAttempt
  BY <1>17 DEF BurnAttempt, Goto, wipVars, jobVars, Write, Become
<1>18. CASE Validate
  BY <1>18 DEF Validate, Goto, wipVars, jobVars, Note, Verdicts, Promotable
<1>19. CASE Recheck
  BY <1>19 DEF Recheck, Goto, wipVars, jobVars, Raise, Note, Verdicts, Promotable
<1>20. CASE Probe
  BY <1>20 DEF Probe, Goto, wipVars, jobVars, Write, Become, Raise
<1>21. CASE Synthesize
  BY <1>21 DEF Synthesize, Goto, wipVars, jobVars, Write, Become, Step, Raise
<1>22. CASE StorePatch
  BY <1>22 DEF StorePatch, Goto, wipVars, jobVars, ReplacePatch
<1>23. CASE StoreMeta
  BY <1>23 DEF StoreMeta, Goto, wipVars, jobVars, ReplaceMeta
<1>24. CASE StoreNothing
  BY <1>24 DEF StoreNothing, Goto, wipVars, jobVars
<1>25. CASE StoreFails
  BY <1>25 DEF StoreFails, Goto, wipVars, jobVars
<1>26. CASE Finalize
  BY <1>26 DEF Finalize, Goto, wipVars, jobVars
<1>27. CASE Commit
  BY <1>27 DEF Commit, Goto, wipVars, jobVars, Raise
<1>28. CASE Upload
  BY <1>28 DEF Upload, Goto, wipVars, jobVars, Step, Raise
<1>29. CASE Completed
  BY <1>29 DEF Completed, Goto, wipVars, jobVars, Step
<1>30. CASE SaveFailed
  BY <1>30 DEF SaveFailed, Goto, wipVars, jobVars, Verdicts
<1>31. CASE Report
  BY <1>31 DEF Report, Goto, wipVars, jobVars
<1>32. CASE UNCHANGED vars
  BY <1>32 DEF vars, jobVars, wipVars
<1>33. QED
  BY <1>1, <1>2, <1>3, <1>4, <1>5, <1>6, <1>7, <1>8, <1>9, <1>10, <1>11,
     <1>12, <1>13, <1>14, <1>15, <1>16, <1>17, <1>18, <1>19, <1>20,
     <1>21, <1>22, <1>23, <1>24, <1>25, <1>26, <1>27, <1>28, <1>29,
     <1>30, <1>31, <1>32
     DEF Next, Work

-----------------------------------------------------------------------------

Inv == TypeOK /\ Places /\ Gate /\ DeliversChecked /\ Slot /\ Origin /\ Counted
       /\ ReplayBounded

LEMMA InitInv == Init => Inv
<1>. SUFFICES ASSUME Init PROVE Inv
  OBVIOUS
<1>. USE WipAssumption, WorkerAssumption
         DEF Init, WipInit, NoMeta, Metas, Trees, Locations, Stops
<1>1. TypeOK
  <2>1. committed \in BOOLEAN /\ fit \in BOOLEAN /\ blocked \in BOOLEAN
    BY Zenon
  <2>2. sent \in [Patches -> Nat] /\ attempt \in 0..MaxAttempts
    OBVIOUS
  <2>3. kind \in Kinds /\ pc \in Locations /\ after \in Locations
    OBVIOUS
  <2>4. metaFile \in Metas /\ patchFile \in Trees /\ tree \in Trees /\ checked \in Trees
    OBVIOUS
  <2>5. swallowed \subseteq {"control", "work"}
    OBVIOUS
  <2>. QED  BY <2>1, <2>2, <2>3, <2>4, <2>5 DEF TypeOK
<1>2. Places /\ Gate /\ DeliversChecked
  BY DEF Places, Gate, DeliversChecked, Delivering, Discovery
<1>3. Slot /\ Origin /\ Counted
  BY DEF Slot, Origin, Counted, Whole
<1>4. ReplayBounded
  <2>1. \A p \in Patches : sent[p] = 0
    OBVIOUS
  <2>2. 0 <= MaxReplays + 1
    OBVIOUS
  <2>. QED  BY <2>1, <2>2 DEF ReplayBounded
<1>. QED  BY <1>1, <1>2, <1>3, <1>4 DEF Inv

LEMMA Invariance == Spec => []Inv
<1>1. Inv /\ [Next]_vars => Inv'
  BY TypeStep, PlacesStep, GateStep, ChecksStep, SlotStep, OriginStep,
     CountedStep, ReplayStep DEF Inv
<1>. QED  BY InitInv, <1>1, PTL DEF Spec

-----------------------------------------------------------------------------

\* Every variable of the worker keeps its type.
THEOREM TypeCorrect == Spec => []TypeOK
<1>1. Inv => TypeOK
  BY DEF Inv
<1>. QED  BY Invariance, <1>1, PTL

\* What a coding job leaves to the next has passed the gates of syntax and size,
\* though three places store it and a stop may come between any two of its steps
\* (persist_cross_job_wip and its callers).
THEOREM SafeHandoff == Spec => []HandoffSafe
<1>1. Inv => HandoffSafe
  BY DEF Inv, Gate, HandoffSafe
<1>. QED  BY Invariance, <1>1, PTL

\* The tree a coding or research job commits and delivers is the one its last
\* validation passed (run_coding_graph, execute_job).
THEOREM CheckedDelivery == Spec => []DeliversChecked
<1>1. Inv => DeliversChecked
  BY DEF Inv
<1>. QED  BY Invariance, <1>1, PTL

\* Committed work is in the slot of the next job until a fresh clone replaces
\* its repository (finalize_graph_candidate stores before it commits).
THEOREM KeptWork == Spec => []CommittedKept
<1>1. Inv => CommittedKept
  BY DEF Inv, Places, Slot, CommittedKept
<1>. QED  BY Invariance, <1>1, PTL

\* However jobs fail, are retried or stop midway, unchanged work is sent at most
\* MaxReplays + 1 times (WIP_MAX_UNCHANGED_REPLAYS).
THEOREM BoundedReplays == Spec => []ReplayBounded
<1>1. Inv => ReplayBounded
  BY DEF Inv
<1>. QED  BY Invariance, <1>1, PTL

\* The worker loop implements the client side of the lease protocol: it never
\* reports a job twice, nor success after failure (main in worker.py).
THEOREM ClientRefinement == Spec => ReportsOnce
<1>1. Init => Client!ClientInit
  BY DEF Init, Client!ClientInit, Phase, Stops
<1>2. Inv /\ [Next]_vars => [Client!ClientNext]_Phase
  BY ClientStep DEF Inv
<1>. QED
  BY <1>1, <1>2, Invariance, PTL DEF Spec, ReportsOnce, Client!ClientSpec

-----------------------------------------------------------------------------

(***************************************************************************)
(* How long a job can last.  Left counts the steps the worker still takes  *)
(* before it is idle, at most: five for each proposal it has left, and as  *)
(* many as its place is away from the end.  A stop (Crash) ends the job at *)
(* once, so the count is over the steps of Work.                           *)
(***************************************************************************)
Proposals == 5 * (MaxAttempts - attempt)

Ahead == [l \in Locations |->
  CASE l = "idle" -> 0
    [] l \in {"backoff", "reporting"} -> 1
    [] l = "completing" -> 2
    [] l = "failing" -> 4
    [] l = "uploading" -> 5
    [] l = "committing" -> 6
    [] l = "finalizing" -> 9
    [] l \in {"synthesizing", "rechecking"} -> 10
    [] l = "recovering" -> 11
    [] l = "probing" -> 14
    [] l = "routing" -> 11 + Proposals
    [] l = "checking" -> 12 + Proposals
    [] l = "validating" -> 14 + Proposals
    [] l = "proposing" -> 15 + Proposals
    [] l = "readying" -> 16 + Proposals
    [] l \in {"applied", "emptying"} -> 17 + Proposals
    [] l = "restoring" -> 18 + Proposals
    [] l = "preparing" -> 19 + Proposals
    [] OTHER -> 20 + Proposals]

Left == CASE pc = "storing"    -> Ahead[after] + 2
          [] pc = "describing" -> Ahead[after] + 1
          [] OTHER             -> Ahead[pc]

(* Every step of a job but a stop brings its end nearer. *)
LEMMA LeftStep ==
  ASSUME TypeOK, Places, Work
  PROVE  Left' < Left
<1>. USE WipAssumption, WorkerAssumption
         DEF TypeOK, Places, Locations, Stops, Coding, Discovery, Left, Ahead,
             Proposals
<1>1. CASE BackOff
  BY <1>1 DEF BackOff, Goto, wipVars, jobVars, Step
<1>2. CASE Start
  BY <1>2 DEF Start, Goto, wipVars, jobVars, Call, Step, Raise
<1>3. CASE Prepare
  BY <1>3 DEF Prepare, Goto, wipVars, jobVars, Raise
<1>4. CASE RestoreNothing
  BY <1>4 DEF RestoreNothing, Goto, wipVars, jobVars, Step
<1>5. CASE Dispose
  BY <1>5 DEF Dispose, Goto, wipVars, jobVars, RemovePatch
<1>6. CASE FinishDisposal
  BY <1>6 DEF FinishDisposal, Goto, wipVars, jobVars, RemoveMeta
<1>7. CASE Apply
  BY <1>7 DEF Apply, Goto, wipVars, jobVars, Replayable, Become
<1>8. CASE Conflict
  BY <1>8 DEF Conflict, Goto, wipVars, jobVars, Step
<1>9. CASE CountApplied
  BY <1>9 DEF CountApplied, Goto, wipVars, jobVars, Raise, CountReplay
<1>10. CASE Ready
  BY <1>10 DEF Ready, Goto, wipVars, jobVars, Call, Step, Raise
<1>11. CASE CheckRestored
  BY <1>11
    DEF CheckRestored, Goto, wipVars, jobVars, Step, Raise, Note, Verdicts, Promotable
<1>12. CASE Route
  BY <1>12 DEF Route, Goto, wipVars, jobVars, Step, Raise
<1>13. CASE Propose
  BY <1>13 DEF Propose, Goto, wipVars, jobVars, Write, Become
<1>14. CASE BurnAttempt
  BY <1>14 DEF BurnAttempt, Goto, wipVars, jobVars, Write, Become
<1>15. CASE Validate
  BY <1>15 DEF Validate, Goto, wipVars, jobVars, Note, Verdicts, Promotable
<1>16. CASE Recheck
  BY <1>16 DEF Recheck, Goto, wipVars, jobVars, Raise, Note, Verdicts, Promotable
<1>17. CASE Probe
  BY <1>17 DEF Probe, Goto, wipVars, jobVars, Write, Become, Raise
<1>18. CASE Synthesize
  BY <1>18 DEF Synthesize, Goto, wipVars, jobVars, Write, Become, Step, Raise
<1>19. CASE StorePatch
  BY <1>19 DEF StorePatch, Goto, wipVars, jobVars, ReplacePatch
<1>20. CASE StoreMeta
  BY <1>20 DEF StoreMeta, Goto, wipVars, jobVars, ReplaceMeta
<1>21. CASE StoreNothing
  BY <1>21 DEF StoreNothing, Goto, wipVars, jobVars
<1>22. CASE StoreFails
  BY <1>22 DEF StoreFails, Goto, wipVars, jobVars
<1>23. CASE Finalize
  BY <1>23 DEF Finalize, Goto, wipVars, jobVars
<1>24. CASE Commit
  BY <1>24 DEF Commit, Goto, wipVars, jobVars, Raise
<1>25. CASE Upload
  BY <1>25 DEF Upload, Goto, wipVars, jobVars, Step, Raise
<1>26. CASE Completed
  BY <1>26 DEF Completed, Goto, wipVars, jobVars, Step
<1>27. CASE SaveFailed
  BY <1>27 DEF SaveFailed, Goto, wipVars, jobVars, Verdicts
<1>28. CASE Report
  BY <1>28 DEF Report, Goto, wipVars, jobVars
<1>. HIDE DEF TypeOK, Places, Locations, Left, Ahead, Proposals
<1>29. QED
  BY <1>1, <1>2, <1>3, <1>4, <1>5, <1>6, <1>7, <1>8, <1>9, <1>10, <1>11,
     <1>12, <1>13, <1>14, <1>15, <1>16, <1>17, <1>18, <1>19, <1>20,
     <1>21, <1>22, <1>23, <1>24, <1>25, <1>26, <1>27, <1>28
     DEF Work

(* No place is farther from the end than the lease, with every proposal left. *)
LEMMA LeftBound ==
  ASSUME TypeOK, Places
  PROVE  Left \in 0..(20 + 5 * MaxAttempts)
<1>1. Proposals \in Nat /\ Proposals <= 5 * MaxAttempts
  BY WorkerAssumption DEF TypeOK, Proposals
<1>2. MaxAttempts \in Nat
  BY WorkerAssumption
<1>3. ASSUME NEW l \in Locations PROVE Ahead[l] \in Nat /\ Ahead[l] <= 20 + Proposals
  BY <1>1, <1>2 DEF Ahead
<1>4. ASSUME NEW l \in {"recovering", "routing", "committing", "reporting"}
      PROVE  l \in Locations /\ Ahead[l] \in Nat /\ Ahead[l] <= 11 + Proposals
  BY <1>1, <1>2 DEF Ahead, Locations, Coding, Discovery
<1>5. CASE pc \in {"storing", "describing"}
  <2>1. Ahead[after] \in Nat /\ Ahead[after] <= 11 + Proposals
    BY <1>4, <1>5 DEF Places
  <2>2. Left = Ahead[after] + 2 \/ Left = Ahead[after] + 1
    BY <1>5 DEF Left
  <2>. QED  BY <1>1, <1>2, <2>1, <2>2
<1>6. CASE pc \notin {"storing", "describing"}
  <2>1. Ahead[pc] \in Nat /\ Ahead[pc] <= 20 + Proposals
    BY <1>3 DEF TypeOK
  <2>2. Left = Ahead[pc]
    BY <1>6 DEF Left
  <2>. QED  BY <1>1, <1>2, <2>1, <2>2
<1>. QED  BY <1>5, <1>6

\* A job ends: whatever fails, is swallowed or is proposed again, the worker takes
\* at most 20 steps and five more for each proposal between its lease and the
\* next (run_coding_graph's attempts, the error paths of execute_job and main).
\* What ComesBack adds to it is that the steps are taken.
THEOREM BoundedJob == Spec => [](Left \in 0..(20 + 5 * MaxAttempts))
                              /\ [][Work => Left' < Left]_vars
<1>1. Inv => Left \in 0..(20 + 5 * MaxAttempts)
  BY LeftBound DEF Inv
<1>2. Inv /\ [Next]_vars => [Work => Left' < Left]_vars
  BY LeftStep DEF Inv
<1>. QED  BY Invariance, <1>1, <1>2, PTL DEF Spec

=============================================================================
