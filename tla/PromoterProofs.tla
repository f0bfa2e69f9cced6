--------------------------- MODULE PromoterProofs ---------------------------
(***************************************************************************)
(* Proofs about module Promoter, for any number of candidates, foreign     *)
(* pushes and retries: the main branches stay nested, only gated           *)
(* commits are published, what is promoted is kept, the promoter           *)
(* implements PromotionContract, and a candidate is decided on after a     *)
(* bounded number of its steps.                                            *)
(***************************************************************************)
EXTENDS Promoter, TLAPS

\* Histories are closed: they contain their own commit, only commits that
\* exist, and with a commit all that is behind it. A candidate exists once it
\* was built.
HistoriesClosed ==
  /\ \A x \in Commit : past[x] # {} => x \in past[x]
  /\ \A x, y \in Commit : x \in past[y] => past[x] # {} /\ past[x] \subseteq past[y]
  /\ past[First] = {First}
  /\ \A c \in Candidate : past[c] # {} <=> verdict[c] # "none"

\* What a candidate rests on was allowed by the gate.
RestsOnGated ==
  /\ \A c \in Candidate : past[c] \cap Candidate \subseteq gated \cup {c}
  /\ \A c \in Candidate : verdict[c] = "promoted" => c \in gated

\* Where the promoter is in its work on the candidate at hand: what it has
\* checked, and which of the mains it has moved.
AtHand ==
  /\ pc # "idle" => /\ cur \in Candidate /\ verdict[cur] = "candidate"
                    /\ base[cur] = baseline
  /\ pc \in {"head", "github", "merge", "origin", "record"} =>
       base[cur] \in past[cur] /\ cur \in gated
  /\ pc = "merge" => cur \in past[github]
  /\ pc = "origin" => trusted = cur
  /\ pc = "record" => trusted = cur /\ origin = cur

IInv == /\ TypeOK /\ HistoriesClosed /\ MainsNested /\ RestsOnGated
        /\ OnlyGatedPublished /\ PromotedKept /\ AtHand

LEMMA CommitFacts == /\ Candidate \subseteq Commit /\ Foreign \subseteq Commit
                     /\ First \in Commit /\ First \notin Candidate
                     /\ First \notin Foreign /\ Candidate \cap Foreign = {}
  BY SizeAssumption DEF Candidate, Foreign, Commit, First

LEMMA InitEstablishes == Init => IInv
  <1> SUFFICES ASSUME Init PROVE IInv
    OBVIOUS
  <1> USE CommitFacts DEF Init
  <1>1. TypeOK
    BY SizeAssumption DEF TypeOK, Steps
  <1>2. \A c \in Commit : past[c] = IF c = First THEN {First} ELSE {}
    OBVIOUS
  <1>3. HistoriesClosed
    BY <1>2 DEF HistoriesClosed
  <1>4. MainsNested
    BY <1>2 DEF MainsNested
  <1>5. RestsOnGated /\ PromotedKept
    BY <1>2 DEF RestsOnGated, PromotedKept
  <1>6. OnlyGatedPublished
    BY <1>2 DEF OnlyGatedPublished
  <1>7. AtHand
    BY DEF AtHand
  <1> QED BY <1>1, <1>3, <1>4, <1>5, <1>6, <1>7 DEF IInv

\* A new commit extends the history of one that exists; nothing that exists
\* changes.
LEMMA ExtendHistory ==
  ASSUME past \in [Commit -> SUBSET Commit],
         NEW x \in Commit, past[x] = {},
         NEW p \in Commit, past[p] # {},
         past' = [past EXCEPT ![x] = past[p] \cup {x}],
         \A y \in Commit : past[y] # {} => y \in past[y],
         \A y, z \in Commit : y \in past[z] => past[y] # {} /\ past[y] \subseteq past[z]
  PROVE  /\ past' \in [Commit -> SUBSET Commit]
         /\ past'[x] = past[p] \cup {x}
         /\ \A y \in Commit : y # x => past'[y] = past[y]
         /\ \A y \in Commit : past'[y] # {} => y \in past'[y]
         /\ \A y, z \in Commit : y \in past'[z] =>
              past'[y] # {} /\ past'[y] \subseteq past'[z]
  <1>1. past' \in [Commit -> SUBSET Commit] /\ past'[x] = past[p] \cup {x}
    OBVIOUS
  <1>2. \A y \in Commit : y # x => past'[y] = past[y]
    OBVIOUS
  <1>3. \A y \in Commit : past'[y] # {} => y \in past'[y]
    BY <1>1, <1>2
  <1>4. \A z \in Commit : x \notin past[z]
    OBVIOUS
  <1>5. ASSUME NEW y \in Commit, NEW z \in Commit, y \in past'[z]
        PROVE  past'[y] # {} /\ past'[y] \subseteq past'[z]
    <2>1. CASE z = x /\ y = x
      BY <1>1, <2>1
    <2>2. CASE z = x /\ y # x
      BY <1>1, <1>2, <1>5, <2>2
    <2>3. CASE z # x
      BY <1>2, <1>4, <1>5, <2>3
    <2> QED BY <2>1, <2>2, <2>3
  <1> QED BY <1>1, <1>2, <1>3, <1>5

LEMMA BuildPreserves ==
  ASSUME IInv, NEW c \in Candidate, NEW b \in Commit, NEW parent \in Commit,
         Build(c, b, parent)
  PROVE  IInv'
  <1> USE CommitFacts
  <1>1. past[c] = {} /\ past[parent] # {} /\ parent # c
    BY DEF IInv, HistoriesClosed, Build, Trusted
  <1>2. /\ past' \in [Commit -> SUBSET Commit]
        /\ past'[c] = past[parent] \cup {c}
        /\ \A y \in Commit : y # c => past'[y] = past[y]
        /\ \A y \in Commit : past'[y] # {} => y \in past'[y]
        /\ \A y, z \in Commit : y \in past'[z] =>
             past'[y] # {} /\ past'[y] \subseteq past'[z]
    BY <1>1, ExtendHistory DEF IInv, TypeOK, HistoriesClosed, Build
  <1>3. TypeOK'
    BY <1>2 DEF IInv, TypeOK, Build, Trusted
  <1>4. HistoriesClosed'
    BY <1>1, <1>2 DEF IInv, TypeOK, HistoriesClosed, Build
  <1>5. \A y \in Commit : past[y] # {} => y # c /\ past'[y] = past[y]
    BY <1>1, <1>2
  <1>6. MainsNested'
    BY <1>5 DEF IInv, TypeOK, HistoriesClosed, MainsNested, Build
  <1>7. RestsOnGated'
    <2>1. past[parent] \cap Candidate \subseteq gated
      BY DEF IInv, RestsOnGated, Build, Trusted, HistoriesClosed
    <2> QED BY <1>2, <2>1 DEF IInv, TypeOK, RestsOnGated, Build
  <1>8. OnlyGatedPublished'
    BY <1>5 DEF IInv, TypeOK, MainsNested, HistoriesClosed, OnlyGatedPublished, Build
  <1>9. PromotedKept'
    BY <1>5 DEF IInv, TypeOK, MainsNested, HistoriesClosed, PromotedKept, Build
  <1>10. AtHand'
    BY <1>5 DEF IInv, TypeOK, HistoriesClosed, MainsNested, AtHand, Build
  <1> QED BY <1>3, <1>4, <1>6, <1>7, <1>8, <1>9, <1>10 DEF IInv

LEMMA PushForeignPreserves ==
  ASSUME IInv, NEW f \in Foreign, PushForeign(f)
  PROVE  IInv'
  <1> USE CommitFacts
  <1>1. past[f] = {} /\ github \in Commit /\ past[github] # {} /\ f \notin Candidate
    BY DEF IInv, TypeOK, HistoriesClosed, MainsNested, PushForeign
  <1>2. /\ past' \in [Commit -> SUBSET Commit]
        /\ past'[f] = past[github] \cup {f}
        /\ \A y \in Commit : y # f => past'[y] = past[y]
        /\ \A y \in Commit : past'[y] # {} => y \in past'[y]
        /\ \A y, z \in Commit : y \in past'[z] =>
             past'[y] # {} /\ past'[y] \subseteq past'[z]
    BY <1>1, ExtendHistory DEF IInv, TypeOK, HistoriesClosed, PushForeign
  <1>3. TypeOK'
    BY <1>2 DEF IInv, TypeOK, PushForeign, rows
  <1>4. \A y \in Commit : past[y] # {} => y # f /\ past'[y] = past[y]
    BY <1>1, <1>2
  <1>5. \A c \in Candidate : past'[c] = past[c]
    BY <1>1, <1>2
  <1>6. HistoriesClosed'
    BY <1>2, <1>4, <1>5 DEF IInv, HistoriesClosed, PushForeign, rows
  <1>7. MainsNested'
    BY <1>2, <1>4 DEF IInv, TypeOK, HistoriesClosed, MainsNested, PushForeign, rows
  <1>8. RestsOnGated'
    BY <1>5 DEF IInv, RestsOnGated, PushForeign, rows
  <1>9. OnlyGatedPublished'
    BY <1>1, <1>2 DEF IInv, OnlyGatedPublished, PushForeign
  <1>10. PromotedKept'
    BY <1>4 DEF IInv, TypeOK, HistoriesClosed, MainsNested, PromotedKept, PushForeign, rows
  <1>11. AtHand'
    BY <1>1, <1>2, <1>5 DEF IInv, TypeOK, AtHand, PushForeign, rows
  <1> QED BY <1>3, <1>6, <1>7, <1>8, <1>9, <1>10, <1>11 DEF IInv
-----------------------------------------------------------------------------
(* The promoter's steps. *)

\* Steps that change neither a repository nor a verdict.
LEMMA QuietPreserves ==
  ASSUME IInv, TypeOK', AtHand', gated \subseteq gated',
         UNCHANGED <<repos, baseline, base, verdict>>
  PROVE  IInv'
  <1>1. HistoriesClosed' /\ MainsNested' /\ PromotedKept'
    BY DEF IInv, repos, HistoriesClosed, MainsNested, PromotedKept
  <1>2. RestsOnGated'
    BY DEF IInv, repos, RestsOnGated
  <1>3. OnlyGatedPublished'
    BY DEF IInv, repos, OnlyGatedPublished
  <1> QED BY <1>1, <1>2, <1>3 DEF IInv

LEMMA RejectPreserves ==
  ASSUME IInv, NEW c \in Candidate, verdict[c] = "candidate",
         verdict' = [verdict EXCEPT ![c] = "rejected"],
         pc' = "idle", cur' = cur,
         UNCHANGED <<repos, baseline, base, retries, gated>>
  PROVE  IInv'
  <1>1. TypeOK'
    BY DEF IInv, TypeOK, repos, Steps
  <1>2. HistoriesClosed' /\ MainsNested' /\ OnlyGatedPublished'
    BY DEF IInv, TypeOK, repos, HistoriesClosed, MainsNested, OnlyGatedPublished
  <1>3. RestsOnGated' /\ PromotedKept'
    BY DEF IInv, TypeOK, repos, RestsOnGated, PromotedKept
  <1>4. AtHand'
    BY DEF AtHand
  <1> QED BY <1>1, <1>2, <1>3, <1>4 DEF IInv

LEMMA TakePreserves ==
  ASSUME IInv, NEW c \in Candidate, Take(c)
  PROVE  IInv'
  <1>1. CASE base[c] = baseline
    <2>1. TypeOK' /\ AtHand'
      BY <1>1 DEF IInv, TypeOK, AtHand, Take, repos, Steps
    <2> QED BY <1>1, <2>1, QuietPreserves DEF Take
  <1>2. CASE base[c] # baseline
    BY <1>2, RejectPreserves DEF Take
  <1> QED BY <1>1, <1>2

LEMMA InspectPreserves == ASSUME IInv, Inspect PROVE IInv'
  <1>1. TypeOK' /\ AtHand'
    BY DEF IInv, TypeOK, AtHand, Inspect, Goto, repos, rows, Steps
  <1> QED BY <1>1, QuietPreserves DEF Inspect, rows

LEMMA CheckHeadPreserves == ASSUME IInv, CheckHead PROVE IInv'
  <1>1. TypeOK' /\ AtHand'
    BY DEF IInv, TypeOK, AtHand, CheckHead, Goto, repos, rows, Steps
  <1> QED BY <1>1, QuietPreserves DEF CheckHead, rows

LEMMA FailPreserves == ASSUME IInv, Fail PROVE IInv'
  <1>1. TypeOK' /\ AtHand'
    BY DEF IInv, TypeOK, AtHand, Fail, Goto, repos, rows, Steps
  <1> QED BY <1>1, QuietPreserves DEF Fail, rows

LEMMA RestartPreserves == ASSUME IInv, Restart PROVE IInv'
  <1>1. TypeOK' /\ AtHand'
    BY DEF IInv, TypeOK, AtHand, Restart, Goto, repos, rows, Steps
  <1> QED BY <1>1, QuietPreserves DEF Restart, rows

LEMMA RecordRetryPreserves == ASSUME IInv, RecordRetry PROVE IInv'
  <1>1. retries' \in [Candidate -> 0..MaxPromotionRetries]
    <2>1. cur \in Candidate
      BY DEF IInv, AtHand, RecordRetry
    <2>2. retries[cur] \in 0..MaxPromotionRetries
      BY <2>1 DEF IInv, TypeOK
    <2>3. (IF retries[cur] + 1 >= MaxPromotionRetries THEN MaxPromotionRetries
           ELSE retries[cur] + 1) \in 0..MaxPromotionRetries
      BY <2>2, SizeAssumption
    <2> QED BY <2>1, <2>3 DEF IInv, TypeOK, RecordRetry
  <1>2. TypeOK' /\ AtHand'
    BY <1>1 DEF IInv, TypeOK, AtHand, RecordRetry, Goto, repos, Steps
  <1> QED BY <1>2, QuietPreserves DEF RecordRetry

LEMMA RecordRejectionPreserves == ASSUME IInv, RecordRejection PROVE IInv'
  BY RejectPreserves DEF IInv, AtHand, RecordRejection, Goto

\* A push moves GitHub's main to the candidate, which rests on it.
LEMMA PushGithubPreserves == ASSUME IInv, PushGithub PROVE IInv'
  <1> USE CommitFacts
  <1>1. CASE UNCHANGED github
    <2>1. TypeOK' /\ AtHand'
      BY <1>1 DEF IInv, TypeOK, AtHand, PushGithub, Goto, rows, Steps,
                  HistoriesClosed
    <2> QED BY <1>1, <2>1, QuietPreserves DEF PushGithub, rows, repos
  <1>2. CASE github \in past[cur] /\ github' = cur /\ pc' \in {"merge", "retry"}
             /\ UNCHANGED cur
    <2>1. cur \in Candidate /\ cur \in past[cur] /\ cur \in gated
          /\ past[github] \subseteq past[cur]
      BY <1>2 DEF IInv, TypeOK, HistoriesClosed, AtHand, PushGithub
    <2>2. TypeOK' /\ AtHand'
      BY <1>2, <2>1 DEF IInv, TypeOK, AtHand, PushGithub, rows, Steps
    <2>3. MainsNested' /\ OnlyGatedPublished'
      BY <1>2, <2>1 DEF IInv, MainsNested, OnlyGatedPublished, RestsOnGated,
                        PushGithub, rows
    <2>4. HistoriesClosed' /\ RestsOnGated' /\ PromotedKept'
      BY DEF IInv, HistoriesClosed, RestsOnGated, PromotedKept, PushGithub, rows
    <2> QED BY <2>2, <2>3, <2>4 DEF IInv
  <1> QED BY <1>1, <1>2 DEF PushGithub, Goto

LEMMA MergePreserves == ASSUME IInv, Merge PROVE IInv'
  <1> USE CommitFacts
  <1>1. CASE UNCHANGED trusted
    <2>1. TypeOK' /\ AtHand'
      BY <1>1 DEF IInv, TypeOK, AtHand, Merge, Goto, rows, Steps, HistoriesClosed
    <2> QED BY <1>1, <2>1, QuietPreserves DEF Merge, rows, repos
  <1>2. CASE trusted \in past[cur] /\ trusted' = cur /\ Goto("origin")
    <2>1. cur \in Candidate /\ cur \in past[github]
          /\ past[trusted] \subseteq past[cur]
      BY <1>2 DEF IInv, TypeOK, HistoriesClosed, AtHand, Merge
    <2>2. TypeOK' /\ AtHand'
      BY <1>2, <2>1 DEF IInv, TypeOK, AtHand, Merge, Goto, rows, Steps
    <2>3. MainsNested' /\ OnlyGatedPublished'
      BY <1>2, <2>1 DEF IInv, MainsNested, OnlyGatedPublished, Merge, rows
    <2>4. HistoriesClosed' /\ RestsOnGated' /\ PromotedKept'
      BY DEF IInv, HistoriesClosed, RestsOnGated, PromotedKept, Merge, rows
    <2> QED BY <2>2, <2>3, <2>4 DEF IInv
  <1> QED BY <1>1, <1>2 DEF Merge

LEMMA PushOriginPreserves == ASSUME IInv, PushOrigin PROVE IInv'
  <1> USE CommitFacts
  <1>1. CASE UNCHANGED origin
    <2>1. TypeOK' /\ AtHand'
      BY <1>1 DEF IInv, TypeOK, AtHand, PushOrigin, Goto, rows, Steps, MainsNested,
                  HistoriesClosed
    <2> QED BY <1>1, <2>1, QuietPreserves DEF PushOrigin, rows, repos
  <1>2. CASE origin \in past[trusted] /\ origin' = trusted
             /\ pc' \in {"record", "retry"} /\ UNCHANGED cur
    <2>1. trusted = cur /\ past[origin] \subseteq past[trusted]
          /\ trusted \in past[trusted]
      BY <1>2 DEF IInv, TypeOK, HistoriesClosed, AtHand, PushOrigin
    <2>2. TypeOK' /\ AtHand'
      BY <1>2, <2>1 DEF IInv, TypeOK, AtHand, PushOrigin, rows, Steps
    <2>3. MainsNested' /\ OnlyGatedPublished'
      BY <1>2, <2>1 DEF IInv, MainsNested, OnlyGatedPublished, PushOrigin, rows
    <2>4. HistoriesClosed' /\ RestsOnGated' /\ PromotedKept'
      BY DEF IInv, HistoriesClosed, RestsOnGated, PromotedKept, PushOrigin, rows
    <2> QED BY <2>2, <2>3, <2>4 DEF IInv
  <1> QED BY <1>1, <1>2 DEF PushOrigin, Goto

\* The transaction makes the candidate the baseline; it rests on the old one.
LEMMA RecordPreserves == ASSUME IInv, Record PROVE IInv'
  <1> USE CommitFacts
  <1>1. /\ cur \in Candidate /\ verdict[cur] = "candidate" /\ base[cur] = baseline
        /\ baseline \in past[cur] /\ cur \in gated /\ origin = cur
        /\ baseline' = cur /\ baseline \in Commit
    BY DEF IInv, TypeOK, AtHand, Record
  <1>2. cur \in past[cur] /\ past[baseline] \subseteq past[cur]
    BY <1>1 DEF IInv, HistoriesClosed
  <1>3. TypeOK' /\ AtHand'
    BY <1>1 DEF IInv, TypeOK, AtHand, Record, Goto, repos, Steps
  <1>4. HistoriesClosed' /\ MainsNested' /\ OnlyGatedPublished'
    BY <1>1, <1>2 DEF IInv, TypeOK, HistoriesClosed, MainsNested,
                      OnlyGatedPublished, Record, repos
  <1>5. RestsOnGated' /\ PromotedKept'
    BY <1>1, <1>2 DEF IInv, TypeOK, RestsOnGated, PromotedKept, Record, repos
  <1> QED BY <1>3, <1>4, <1>5 DEF IInv

-----------------------------------------------------------------------------
\* The inductive invariant of module Promoter.
THEOREM Invariance == Spec => []IInv
  <1>1. IInv /\ [Next]_vars => IInv'
    <2> SUFFICES ASSUME IInv, [Next]_vars PROVE IInv'
      OBVIOUS
    <2>1. CASE World
      BY <2>1, BuildPreserves, PushForeignPreserves DEF World
    <2>2. CASE Work
      BY <2>2, TakePreserves, InspectPreserves, CheckHeadPreserves,
         PushGithubPreserves, MergePreserves, PushOriginPreserves, RecordPreserves,
         FailPreserves, RecordRetryPreserves, RecordRejectionPreserves DEF Work
    <2>3. CASE Restart
      BY <2>3, RestartPreserves
    <2>4. CASE UNCHANGED vars
      <3>1. TypeOK' /\ AtHand'
        BY <2>4 DEF IInv, TypeOK, AtHand, vars, repos, rows
      <3> QED BY <2>4, <3>1, QuietPreserves DEF vars, rows
    <2> QED BY <2>1, <2>2, <2>3, <2>4 DEF Next
  <1> QED BY <1>1, InitEstablishes, PTL DEF Spec

\* Every variable of the promoter keeps its type.
THEOREM TypeCorrect == Spec => []TypeOK
  BY Invariance, PTL DEF IInv

\* Whatever fails and whoever pushes, baseline, origin, trusted checkout and
\* GitHub name nested histories.
THEOREM MainsStayNested == Spec => []MainsNested
  BY Invariance, PTL DEF IInv

\* Only what the gate allowed gets to GitHub's main.
THEOREM PublishedWasGated == Spec => []OnlyGatedPublished
  BY Invariance, PTL DEF IInv

\* No promoted candidate is lost from the line of the baseline.
THEOREM PromotionsKept == Spec => []PromotedKept
  BY Invariance, PTL DEF IInv

\* The promoter implements PromotionContract: each of its steps is one of the
\* contract's, or changes nothing the contract speaks of.
THEOREM Refinement == Spec => KeepsContract
  <1>1. Init => Contract!Init
    BY DEF Init, Contract!Init
  <1>2. IInv /\ [Next]_vars => [Contract!Next]_Contract!contractVars
    <2> SUFFICES ASSUME IInv, [Next]_vars
                 PROVE  Contract!Next \/ UNCHANGED Contract!contractVars
      BY DEF Contract!contractVars
    <2>1. CASE World
      <3>1. ASSUME NEW c \in Candidate, NEW b \in Commit, NEW parent \in Commit,
                   Build(c, b, parent)
            PROVE  Contract!Submit(c, b) /\ b \in Candidate \cup {First}
        BY <3>1 DEF Build, Trusted, Contract!Submit
      <3>2. ASSUME NEW f \in Foreign, PushForeign(f)
            PROVE  UNCHANGED Contract!contractVars
        BY <3>2 DEF PushForeign, rows, Contract!contractVars
      <3> QED BY <2>1, <3>1, <3>2 DEF World, Contract!Next
    <2>2. CASE Work
      <3>1. ASSUME NEW c \in Candidate, Take(c)
            PROVE  Contract!Reject(c) \/ UNCHANGED Contract!contractVars
        BY <3>1 DEF Take, Contract!Reject, Contract!contractVars
      <3>2. Inspect \/ CheckHead \/ PushGithub \/ Merge \/ PushOrigin \/ Fail
            \/ RecordRetry => UNCHANGED Contract!contractVars
        BY DEF Inspect, CheckHead, PushGithub, Merge, PushOrigin, Fail, RecordRetry,
               rows, Contract!contractVars
      <3>3. Record => cur \in Candidate /\ Contract!Promote(cur)
        BY DEF IInv, AtHand, Record, Contract!Promote
      <3>4. RecordRejection => cur \in Candidate /\ Contract!Reject(cur)
        BY DEF IInv, AtHand, RecordRejection, Contract!Reject
      <3> QED BY <2>2, <3>1, <3>2, <3>3, <3>4 DEF Work, Contract!Next
    <2>3. CASE Restart \/ UNCHANGED vars
      BY <2>3 DEF Restart, vars, rows, Contract!contractVars
    <2> QED BY <2>1, <2>2, <2>3 DEF Next
  <1> QED BY <1>1, <1>2, Invariance, PTL DEF Spec, KeepsContract, Contract!Spec

-----------------------------------------------------------------------------
(* A candidate is decided on after a bounded number of steps. *)

\* The steps of the promoter that candidate c may still take, if nothing restarts
\* it: nine for each retry it has left, and those of the attempt that is on.
StepsLeft == [c \in Candidate |->
  IF verdict[c] \in {"promoted", "rejected"} THEN 0
  ELSE 9 * (MaxPromotionRetries - retries[c])
       + (IF cur # c THEN 10
          ELSE CASE pc = "idle"    -> 10
                 [] pc = "inspect" -> 9
                 [] pc = "head"    -> 8
                 [] pc = "github"  -> 7
                 [] pc = "merge"   -> 6
                 [] pc = "origin"  -> 5
                 [] pc = "record"  -> 4
                 [] pc = "retry"   -> 3
                 [] OTHER          -> 1)]

\* A step of the promoter is one of some candidate's, and none is added.
Nearer == \E c \in Candidate :
  /\ StepsLeft'[c] < StepsLeft[c]
  /\ \A d \in Candidate \ {c} : StepsLeft'[d] = StepsLeft[d]

\* The attempt that is on is made again.
Again == \A c \in Candidate : StepsLeft'[c] \in StepsLeft[c]..(StepsLeft[c] + 9)

\* The retries a candidate has left bound the steps it has left.
LEMMA StepsLeftBound ==
  ASSUME IInv
  PROVE  \A c \in Candidate : StepsLeft[c] \in 0..(9 * MaxPromotionRetries + 10)
  <1> SUFFICES ASSUME NEW c \in Candidate
               PROVE  StepsLeft[c] \in 0..(9 * MaxPromotionRetries + 10)
    OBVIOUS
  <1>1. MaxPromotionRetries \in Nat /\ retries[c] \in 0..MaxPromotionRetries
    BY SizeAssumption DEF IInv, TypeOK
  <1>2. StepsLeft[c] \in Nat /\ StepsLeft[c] <= 9 * MaxPromotionRetries + 10
    BY <1>1 DEF StepsLeft
  <1> QED BY <1>1, <1>2

\* A candidate that is not at hand, before and after, has as many steps as it had.
LEMMA OthersStay ==
  ASSUME NEW d \in Candidate, cur # d \/ pc = "idle", cur' # d \/ pc' = "idle",
         verdict'[d] = verdict[d], retries'[d] = retries[d]
  PROVE  StepsLeft'[d] = StepsLeft[d]
  BY DEF StepsLeft

\* To take a candidate is a step of it, whether its base is stale or not.
LEMMA TakeIsNearer ==
  ASSUME IInv, NEW c \in Candidate, Take(c)
  PROVE  Nearer
  <1>1. MaxPromotionRetries \in Nat /\ retries[c] \in 0..MaxPromotionRetries
    BY SizeAssumption DEF IInv, TypeOK
  <1>2. pc = "idle" /\ verdict[c] = "candidate" /\ retries' = retries
    BY DEF Take
  <1>3. StepsLeft[c] = 9 * (MaxPromotionRetries - retries[c]) + 10
    BY <1>2 DEF StepsLeft
  <1>4. StepsLeft'[c] < StepsLeft[c]
    <2>1. CASE cur' = c /\ pc' = "inspect" /\ verdict' = verdict
      <3>1. StepsLeft'[c] = 9 * (MaxPromotionRetries - retries[c]) + 9
        BY <1>2, <2>1 DEF StepsLeft
      <3> QED BY <1>1, <1>3, <3>1
    <2>2. CASE verdict' = [verdict EXCEPT ![c] = "rejected"]
      <3>1. verdict'[c] = "rejected"
        BY <2>2 DEF IInv, TypeOK
      <3>2. StepsLeft'[c] = 0
        BY <3>1 DEF StepsLeft
      <3> QED BY <1>1, <1>3, <3>2
    <2> QED BY <2>1, <2>2 DEF Take
  <1>5. ASSUME NEW d \in Candidate \ {c} PROVE StepsLeft'[d] = StepsLeft[d]
    <2>1. verdict'[d] = verdict[d] /\ (cur' # d \/ pc' = "idle")
      BY <1>2 DEF Take, IInv, TypeOK
    <2> QED BY <1>2, <2>1, OthersStay
  <1> QED BY <1>4, <1>5 DEF Nearer

\* Every other step is one of the candidate at hand.
LEMMA AtHandIsNearer ==
  ASSUME IInv,
         Inspect \/ CheckHead \/ PushGithub \/ Merge \/ PushOrigin \/ Record \/ Fail
         \/ RecordRetry \/ RecordRejection
  PROVE  Nearer
  <1> DEFINE r == retries[cur]  M == MaxPromotionRetries
  <1>1. /\ pc # "idle" /\ cur \in Candidate /\ cur' = cur
        /\ verdict[cur] = "candidate"
    BY DEF Inspect, CheckHead, PushGithub, Merge, PushOrigin, Record, Fail,
           RecordRetry, RecordRejection, Goto, IInv, AtHand
  <1>2. M \in Nat /\ r \in 0..M /\ M - r \in Nat
    <2>1. M \in Nat /\ r \in 0..M
      BY <1>1, SizeAssumption DEF IInv, TypeOK
    <2> QED BY <2>1
  <1>3. ASSUME NEW d \in Candidate \ {cur} PROVE StepsLeft'[d] = StepsLeft[d]
    <2>1. verdict'[d] = verdict[d] /\ retries'[d] = retries[d]
      BY DEF Inspect, CheckHead, PushGithub, Merge, PushOrigin, Record, Fail,
             RecordRetry, RecordRejection, rows, IInv, TypeOK
    <2> QED BY <1>1, <2>1, OthersStay
  <1>4. StepsLeft'[cur] < StepsLeft[cur]
    <2>1. CASE Inspect \/ CheckHead \/ PushGithub \/ Merge \/ PushOrigin \/ Fail
      <3>1. verdict' = verdict /\ retries' = retries
        BY <2>1 DEF Inspect, CheckHead, PushGithub, Merge, PushOrigin, Fail, rows
      <3>2. \/ pc = "inspect" /\ pc' \in {"head", "reject", "retry"}
            \/ pc = "head" /\ pc' \in {"github", "retry"}
            \/ pc = "github" /\ pc' \in {"merge", "retry", "reject"}
            \/ pc = "merge" /\ pc' \in {"origin", "retry"}
            \/ pc = "origin" /\ pc' \in {"record", "retry", "reject"}
            \/ pc = "record" /\ pc' = "retry"
        BY <2>1 DEF Inspect, CheckHead, PushGithub, Merge, PushOrigin, Fail, Goto
      <3> HIDE DEF M
      <3> QED BY <1>1, <1>2, <3>1, <3>2 DEF StepsLeft, M
    <2>2. CASE Record \/ RecordRejection
      <3>1. pc \in {"record", "reject"} /\ verdict'[cur] \in {"promoted", "rejected"}
        BY <1>1, <2>2 DEF Record, RecordRejection, IInv, TypeOK
      <3>2. StepsLeft'[cur] = 0
        BY <1>1, <3>1 DEF StepsLeft
      <3>3. StepsLeft[cur] = 9 * (M - r) + 4 \/ StepsLeft[cur] = 9 * (M - r) + 1
        BY <1>1, <3>1 DEF StepsLeft
      <3> HIDE DEF M, r
      <3> QED BY <1>2, <3>2, <3>3
    <2>3. CASE RecordRetry
      <3>1. StepsLeft[cur] = 9 * (M - r) + 3
        BY <1>1, <2>3 DEF RecordRetry, StepsLeft
      <3>2. verdict' = verdict
        BY <2>3 DEF RecordRetry
      <3>3. CASE r + 1 >= M
        <4>1. retries'[cur] = M /\ pc' = "reject"
          BY <1>1, <2>3, <3>3 DEF RecordRetry, Goto, IInv, TypeOK
        <4>2. StepsLeft'[cur] = 9 * (M - M) + 1
          BY <1>1, <3>2, <4>1 DEF StepsLeft
        <4> HIDE DEF M, r
        <4> QED BY <1>2, <3>1, <4>2
      <3>4. CASE r + 1 < M
        <4>1. retries'[cur] = r + 1 /\ pc' = "idle"
          BY <1>1, <1>2, <2>3, <3>4 DEF RecordRetry, Goto, IInv, TypeOK
        <4>2. StepsLeft'[cur] = 9 * (M - (r + 1)) + 10
          BY <1>1, <3>2, <4>1 DEF StepsLeft
        <4> HIDE DEF M, r
        <4> QED BY <1>2, <3>1, <4>2
      <3> QED BY <1>2, <3>3, <3>4
    <2> QED BY <2>1, <2>2, <2>3
  <1> QED BY <1>1, <1>3, <1>4 DEF Nearer

\* A restart costs the attempt that is on, and no other.
LEMMA RestartIsAgain ==
  ASSUME IInv, Restart
  PROVE  Again
  <1>1. /\ pc # "idle" /\ pc' = "idle" /\ cur' = cur
        /\ verdict' = verdict /\ retries' = retries
    BY DEF Restart, Goto, rows
  <1> SUFFICES ASSUME NEW c \in Candidate
               PROVE  StepsLeft'[c] \in StepsLeft[c]..(StepsLeft[c] + 9)
    BY DEF Again
  <1>2. MaxPromotionRetries \in Nat /\ retries[c] \in 0..MaxPromotionRetries
    BY SizeAssumption DEF IInv, TypeOK
  <1>3. StepsLeft[c] \in Int
    BY <1>2 DEF StepsLeft
  <1>4. CASE cur # c
    BY <1>1, <1>3, <1>4, OthersStay
  <1>5. CASE cur = c
    <2>1. verdict[c] = "candidate" /\ pc \in Steps
      BY <1>1, <1>5 DEF IInv, AtHand, TypeOK
    <2>2. StepsLeft'[c] = 9 * (MaxPromotionRetries - retries[c]) + 10
      BY <1>1, <2>1 DEF StepsLeft
    <2> DEFINE k == 9 * (MaxPromotionRetries - retries[c])
    <2>3. StepsLeft[c] \in {k + 1, k + 3, k + 4, k + 5, k + 6, k + 7, k + 8, k + 9}
      BY <1>1, <1>5, <2>1 DEF StepsLeft, Steps
    <2>4. k \in Int
      BY <1>2
    <2> HIDE DEF k
    <2> QED BY <2>2, <2>3, <2>4 DEF k
  <1> QED BY <1>4, <1>5

\* Each candidate costs the promoter nine steps for each retry and ten more, and
\* each of its steps is one of them; others neither add to them nor take from
\* them, but a restart that costs the steps of the attempt that is on, at most
\* nine, is not counted as a retry (_record_retry).  What Decided adds is that
\* the steps are taken, and that restarts do not come each time.
THEOREM BoundedAttempts ==
    Spec => /\ [](\A c \in Candidate :
                    StepsLeft[c] \in 0..(9 * MaxPromotionRetries + 10))
            /\ [][/\ Work => Nearer
                  /\ Restart => Again
                  /\ World => StepsLeft' = StepsLeft]_vars
  <1>1. IInv /\ [Next]_vars => [/\ Work => Nearer
                                /\ Restart => Again
                                /\ World => StepsLeft' = StepsLeft]_vars
    <2> SUFFICES ASSUME IInv
                 PROVE  /\ Work => Nearer
                        /\ Restart => Again
                        /\ World => StepsLeft' = StepsLeft
      OBVIOUS
    <2>1. Work => Nearer
      BY TakeIsNearer, AtHandIsNearer DEF Work
    <2>2. Restart => Again
      BY RestartIsAgain
    <2>3. ASSUME NEW c \in Candidate, NEW b \in Commit, NEW parent \in Commit,
                 Build(c, b, parent)
          PROVE  StepsLeft' = StepsLeft
      <3>1. cur' = cur /\ pc' = pc /\ retries' = retries
            /\ verdict[c] = "none" /\ verdict' = [verdict EXCEPT ![c] = "candidate"]
        BY <2>3 DEF Build
      <3>2. \A d \in Candidate : verdict'[d] \in {"promoted", "rejected"} <=>
                                 verdict[d] \in {"promoted", "rejected"}
        BY <3>1 DEF IInv, TypeOK
      <3> QED BY <3>1, <3>2 DEF StepsLeft
    <2>4. ASSUME NEW f \in Foreign, PushForeign(f)
          PROVE  StepsLeft' = StepsLeft
      BY <2>4 DEF PushForeign, rows, StepsLeft
    <2>5. World => StepsLeft' = StepsLeft
      BY <2>3, <2>4 DEF World
    <2> QED BY <2>1, <2>2, <2>5
  <1>2. IInv => \A c \in Candidate : StepsLeft[c] \in 0..(9 * MaxPromotionRetries + 10)
    BY StepsLeftBound
  <1> QED BY <1>1, <1>2, Invariance, PTL DEF Spec
=============================================================================
