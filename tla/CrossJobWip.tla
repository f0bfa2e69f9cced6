----------------------------- MODULE CrossJobWip -----------------------------
(***************************************************************************)
(* Work in progress handed from one job to the next (worker.py,            *)
(* persist_cross_job_wip and restore_cross_job_wip).  The slot of an       *)
(* objective and a job type is two files: the patch, and metadata with the *)
(* patch's digest and the number of times it was replayed unchanged.  Each *)
(* file is replaced atomically, the pair is not.  The slots of different   *)
(* job types share no file, so one slot is modelled.                       *)
(*                                                                         *)
(* A patch stands for the changes of a working tree against its baseline,  *)
(* as `git diff --binary --full-index HEAD` writes them: the same edit on  *)
(* another baseline is another patch, with another digest.  Kept says what *)
(* of a patch lies under paths that may be handed on, Moved what it may be *)
(* after `git apply`, plain or --3way, on a baseline that moved.           *)
(***************************************************************************)
EXTENDS Integers

CONSTANTS Patches,      \* contents a working tree can have, but the clean one
          Nothing,      \* no patch: a clean tree, a missing file
          Kept,         \* the part of a patch under _safe_wip_path
          Moved,        \* what a patch may be on another baseline
          MaxReplays    \* WIP_MAX_UNCHANGED_REPLAYS

ASSUME WipAssumption ==
  /\ Nothing \notin Patches
  /\ Kept \in [Patches -> Patches \cup {Nothing}]
  /\ \A p \in Patches : Kept[p] # Nothing => Kept[Kept[p]] = Kept[p]
  /\ Moved \in [Patches -> SUBSET (Patches \cup {Nothing})]
  /\ \A p \in Patches : Kept[p] = p =>
       \A q \in Moved[p] \ {Nothing} : Kept[q] = q
  /\ MaxReplays \in Nat

VARIABLES patchFile,    \* <stem>.patch
          metaFile      \* <stem>.json: [digest, count]

wipVars == <<patchFile, metaFile>>

NoMeta == [digest |-> Nothing, count |-> 0]
Metas  == [digest : Patches, count : 0..MaxReplays] \cup {NoMeta}

\* Both files exist and the digest is the patch's.
Whole == patchFile # Nothing /\ metaFile.digest = patchFile

WipInit == patchFile = Nothing /\ metaFile = NoMeta

-----------------------------------------------------------------------------
(* Storing. *)

\* os.replace of the patch; nothing is written when nothing may be handed on.
ReplacePatch(p) == patchFile' = Kept[p] /\ UNCHANGED metaFile

\* Mutant: every store starts the count of replays anew.
ReplaceMetaAnew == metaFile' = [digest |-> patchFile, count |-> 0] /\ UNCHANGED patchFile

\* _write_json_atomic; the count goes on while the patch is the one counted.
ReplaceMeta ==
  /\ metaFile' = [digest |-> patchFile,
                  count |-> IF metaFile.digest = patchFile
                            THEN metaFile.count ELSE 0]
  /\ UNCHANGED patchFile

-----------------------------------------------------------------------------
(* Restoring. *)

\* A file is missing, or the digest is another patch's: the slot is left alone.
NotRestorable == ~Whole

\* It was not replayed as often as it may be.
Replayable == Whole /\ metaFile.count < MaxReplays

\* The first of two steps that empty the slot: unlink, or move to quarantine.
RemovePatch == patchFile' = Nothing /\ UNCHANGED metaFile
RemoveMeta  == metaFile' = NoMeta /\ UNCHANGED patchFile

\* The replay is counted after the patch was applied.
CountReplay ==
  /\ metaFile' = [metaFile EXCEPT !.count = @ + 1]
  /\ UNCHANGED patchFile
=============================================================================
