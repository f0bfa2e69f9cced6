------------------------------ MODULE Promoter ------------------------------
(***************************************************************************)
(* The promoter process (promoter.py), one external effect at a time: it   *)
(* inspects a candidate, pushes it to GitHub, fast-forwards the trusted    *)
(* checkout, pushes that to the origin and records the promotion.  Any of  *)
(* these steps can fail, and the process can be restarted between any two, *)
(* while people push to GitHub's main as well.  A commit is a number and   *)
(* past[c] is the set of its ancestors, c included.                        *)
(***************************************************************************)
EXTENDS Integers, FiniteSets

CONSTANTS MaxCandidates,          \* bound: candidates that are built
          MaxForeign,             \* bound: commits that people push
          MaxPromotionRetries

ASSUME SizeAssumption ==
  MaxCandidates \in Nat /\ MaxForeign \in Nat /\ MaxPromotionRetries \in Nat \ {0}

First     == 0
Candidate == 1..MaxCandidates     \* numbered in the order they complete
Foreign   == MaxCandidates + 1 .. MaxCandidates + MaxForeign
Commit    == {First} \cup Candidate \cup Foreign

VARIABLES
  github, origin, trusted,  \* main on GitHub, on the origin, and the checkout
  past,                     \* the history of every commit; {} until it exists
  baseline, base, verdict,  \* the database
  retries,                  \* promotion_retries
  cur, pc,                  \* the candidate at hand, and what comes next
  gated                     \* history: the candidates inspect_candidate allowed

repos == <<github, origin, trusted, past>>
rows  == <<baseline, base, verdict, retries>>
vars  == <<repos, rows, cur, pc, gated>>

Steps == {"idle", "inspect", "head", "github", "merge", "origin", "record",
          "retry", "reject"}

TypeOK ==
  /\ github \in Commit /\ origin \in Commit /\ trusted \in Commit
  /\ past \in [Commit -> SUBSET Commit]
  /\ baseline \in {First} \cup Candidate
  /\ base \in [Candidate -> {First} \cup Candidate]
  /\ verdict \in [Candidate -> {"none", "candidate", "promoted", "rejected"}]
  /\ retries \in [Candidate -> 0..MaxPromotionRetries]
  /\ cur \in {First} \cup Candidate /\ pc \in Steps
  /\ gated \subseteq Candidate

Init ==
  /\ github = First /\ origin = First /\ trusted = First
  /\ past = [c \in Commit |-> IF c = First THEN {First} ELSE {}]
  /\ baseline = First
  /\ base = [c \in Candidate |-> First]
  /\ verdict = [c \in Candidate |-> "none"]
  /\ retries = [c \in Candidate |-> 0]
  /\ cur = First /\ pc = "idle" /\ gated = {}

-----------------------------------------------------------------------------
(* The world around the promoter. *)

Trusted(b) == b = First \/ (b \in Candidate /\ verdict[b] = "promoted")

\* A lab worker completes a job whose base is b with the candidate c. What it
\* built may rest on another trusted commit.
Build(c, b, parent) ==
  /\ verdict[c] = "none" /\ \A i \in Candidate : i < c => verdict[i] # "none"
  /\ Trusted(b) /\ Trusted(parent)
  /\ past' = [past EXCEPT ![c] = past[parent] \cup {c}]
  /\ base' = [base EXCEPT ![c] = b]
  /\ verdict' = [verdict EXCEPT ![c] = "candidate"]
  /\ UNCHANGED <<github, origin, trusted, baseline, retries, cur, pc, gated>>

\* Somebody pushes to GitHub's main.
PushForeign(f) ==
  /\ past[f] = {}
  /\ past' = [past EXCEPT ![f] = past[github] \cup {f}]
  /\ github' = f
  /\ UNCHANGED <<origin, trusted, rows, cur, pc, gated>>

-----------------------------------------------------------------------------
(* The promoter. *)

Goto(step) == pc' = step /\ UNCHANGED cur

\* _next_candidate: the oldest candidate, rejected at once on a stale base.
Take(c) ==
  /\ pc = "idle"
  /\ verdict[c] = "candidate"
  /\ \A i \in Candidate : i < c => verdict[i] # "candidate"
  /\ IF base[c] = baseline
     THEN cur' = c /\ pc' = "inspect" /\ UNCHANGED verdict
     ELSE verdict' = [verdict EXCEPT ![c] = "rejected"] /\ UNCHANGED <<cur, pc>>
  /\ UNCHANGED <<repos, baseline, base, retries, gated>>

\* Mutant: an error of the gate does not stop the candidate.
InspectLeniently ==
  /\ pc = "inspect"
  /\ \/ /\ base[cur] \in past[cur]
        /\ gated' = gated \cup {cur}
     \/ UNCHANGED gated
  /\ Goto("head")
  /\ UNCHANGED <<repos, rows>>

\* inspect_candidate: whatever else it finds, nothing passes that does not
\* descend from its base.
Inspect ==
  /\ pc = "inspect"
  /\ \/ /\ base[cur] \in past[cur]
        /\ gated' = gated \cup {cur}
        /\ Goto("head")
     \/ Goto("reject") /\ UNCHANGED gated
  /\ UNCHANGED <<repos, rows>>

\* Mutant: GitHub gets its push after the checkout and the origin, if at all.
CheckHeadLocalFirst ==
  /\ pc = "head"
  /\ Goto(IF trusted = base[cur] THEN "merge" ELSE "retry")
  /\ UNCHANGED <<repos, rows, gated>>

\* _promote up to the fetch of the bundle.
CheckHead ==
  /\ pc = "head"
  /\ Goto(IF trusted = base[cur] THEN "github" ELSE "retry")
  /\ UNCHANGED <<repos, rows, gated>>

\* git push <commit>:main moves main forward only. A failed push may have
\* reached the remote all the same.
PushGithub ==
  /\ pc = "github"
  /\ IF github \in past[cur]
     THEN \/ github' = cur /\ pc' \in {"merge", "retry"} /\ UNCHANGED cur
          \/ Goto("retry") /\ UNCHANGED github
     ELSE Goto("reject") /\ UNCHANGED github
  /\ UNCHANGED <<origin, trusted, past, rows, gated>>

\* git merge --ff-only
Merge ==
  /\ pc = "merge"
  /\ \/ /\ trusted \in past[cur]
        /\ trusted' = cur
        /\ Goto("origin")
     \/ Goto("retry") /\ UNCHANGED trusted
  /\ UNCHANGED <<github, origin, past, rows, gated>>

\* git push origin main
PushOrigin ==
  /\ pc = "origin"
  /\ IF origin \in past[trusted]
     THEN \/ origin' = trusted /\ pc' \in {"record", "retry"} /\ UNCHANGED cur
          \/ Goto("retry") /\ UNCHANGED origin
     ELSE Goto("reject") /\ UNCHANGED origin
  /\ UNCHANGED <<github, trusted, past, rows, gated>>

\* Mutant: the promotion is recorded and the baseline is not moved.
RecordWithoutBaseline ==
  /\ pc = "record"
  /\ verdict' = [verdict EXCEPT ![cur] = "promoted"]
  /\ Goto("idle")
  /\ UNCHANGED <<repos, baseline, base, retries, gated>>

\* Mutant: the new baseline is whatever GitHub's main is by now.
RecordRemoteMain ==
  /\ pc = "record"
  /\ baseline' = IF baseline = base[cur] THEN github ELSE baseline
  /\ verdict' = [verdict EXCEPT ![cur] = "promoted"]
  /\ Goto("idle")
  /\ UNCHANGED <<repos, base, retries, gated>>

\* The transaction of _promote.
Record ==
  /\ pc = "record"
  /\ baseline' = IF baseline = base[cur] THEN cur ELSE baseline
  /\ verdict' = [verdict EXCEPT ![cur] = "promoted"]
  /\ Goto("idle")
  /\ UNCHANGED <<repos, base, retries, gated>>

\* An error of another kind before anything was changed.
Fail ==
  /\ pc \in {"inspect", "head", "record"}
  /\ Goto("retry")
  /\ UNCHANGED <<repos, rows, gated>>

\* Mutant: retries are counted and never run out.
RetryForever ==
  /\ pc = "retry"
  /\ retries' = [retries EXCEPT ![cur] =
                   IF @ + 1 >= MaxPromotionRetries THEN MaxPromotionRetries
                                                   ELSE @ + 1]
  /\ Goto("idle")
  /\ UNCHANGED <<repos, baseline, base, verdict, gated>>

\* _record_retry
RecordRetry ==
  /\ pc = "retry"
  /\ LET next == retries[cur] + 1
         last == next >= MaxPromotionRetries
     IN  /\ retries' = [retries EXCEPT ![cur] =
                          IF last THEN MaxPromotionRetries ELSE next]
         /\ Goto(IF last THEN "reject" ELSE "idle")
  /\ UNCHANGED <<repos, baseline, base, verdict, gated>>

\* Mutant: what reached GitHub counts as promoted.
RejectUnlessPublished ==
  /\ pc = "reject"
  /\ verdict' = [verdict EXCEPT ![cur] = IF cur \in past[github] THEN "promoted"
                                                            ELSE "rejected"]
  /\ Goto("idle")
  /\ UNCHANGED <<repos, baseline, base, retries, gated>>

\* _record_rejection
RecordRejection ==
  /\ pc = "reject"
  /\ verdict' = [verdict EXCEPT ![cur] = "rejected"]
  /\ Goto("idle")
  /\ UNCHANGED <<repos, baseline, base, retries, gated>>

Restart ==
  /\ pc # "idle"
  /\ Goto("idle")
  /\ UNCHANGED <<repos, rows, gated>>

Work == \/ \E c \in Candidate : Take(c)
        \/ Inspect \/ CheckHead \/ PushGithub \/ Merge \/ PushOrigin \/ Record
        \/ Fail \/ RecordRetry \/ RecordRejection

World == \/ \E c \in Candidate, b \in Commit, parent \in Commit : Build(c, b, parent)
         \/ \E f \in Foreign : PushForeign(f)

Next == World \/ Work \/ Restart

Spec == Init /\ [][Next]_vars

\* The process is kept running, and whatever step it gets to again and again,
\* restarts do not stop it there every time.
Fairness ==
  /\ WF_vars(\E c \in Candidate : Take(c))
  /\ \A step \in Steps \ {"idle"} : SF_vars(pc = step /\ Work)

FairSpec == Spec /\ Fairness

-----------------------------------------------------------------------------
\* The four places that name a main branch never diverge, whatever fails and
\* whoever pushes: the origin holds the baseline, the trusted checkout holds
\* the origin's main, and GitHub holds the checkout.
MainsNested ==
  /\ baseline \in past[origin]
  /\ origin \in past[trusted]
  /\ trusted \in past[github]

\* Nothing but what the gate allowed gets to GitHub's main, neither a rejected
\* candidate's commit under another candidate nor after a restart.
OnlyGatedPublished == past[github] \cap Candidate \subseteq gated

\* A promoted candidate is never lost: it is in the history of the baseline,
\* and so in that of every main.
PromotedKept ==
  \A c \in Candidate : verdict[c] = "promoted" => c \in past[baseline]

\* The promoter implements PromotionContract: whatever fails in between, its
\* decisions are those of one atomic promotion or rejection.
Contract == INSTANCE PromotionContract
KeepsContract == Contract!Spec

\* The promoter decides on every candidate, however often it fails or is
\* restarted (test_promoter_retry.py: even a transient failure must eventually
\* stop).
Decided ==
  \A c \in Candidate :
    verdict[c] = "candidate" ~> verdict[c] \in {"promoted", "rejected"}

\* test_promoter_retry.py says that a push that timed out is not a permanent
\* failure, and promoter.py retries it: so, as long as the baseline is the
\* candidate's base, the checkout is still there to promote it from ("trusted
\* checkout moved from baseline" is not raised).
RetriesCanSucceed ==
  pc = "head" /\ base[cur] = baseline => trusted = base[cur]
=============================================================================
