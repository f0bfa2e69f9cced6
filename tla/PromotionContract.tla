-------------------------- MODULE PromotionContract --------------------------
(***************************************************************************)
(* What promotion promises, whatever queues, repositories and restarts are *)
(* behind it: every candidate is decided at most once, and a candidate is  *)
(* promoted only while the baseline is the commit it was built on, which   *)
(* it then replaces.  So the promoted commits form one line, ending in the *)
(* baseline.  ControlPlane and Promoter both implement this module.        *)
(***************************************************************************)
CONSTANTS Candidate,   \* the commits that may become candidates
          First        \* the first baseline

VARIABLES baseline,    \* the trusted baseline
          base,        \* base[c]: the commit a candidate was built on
          verdict      \* verdict[c]: "none" until c is a candidate

contractVars == <<baseline, base, verdict>>

Init ==
  /\ baseline = First
  /\ base = [c \in Candidate |-> First]
  /\ verdict = [c \in Candidate |-> "none"]

\* Candidates are built on commits of the trusted line.
Submit(c, b) ==
  /\ verdict[c] = "none"
  /\ b = First \/ (b \in Candidate /\ verdict[b] = "promoted")
  /\ verdict' = [verdict EXCEPT ![c] = "candidate"]
  /\ base' = [base EXCEPT ![c] = b]
  /\ UNCHANGED baseline

Promote(c) ==
  /\ verdict[c] = "candidate"
  /\ base[c] = baseline
  /\ baseline' = c
  /\ verdict' = [verdict EXCEPT ![c] = "promoted"]
  /\ UNCHANGED base

Reject(c) ==
  /\ verdict[c] = "candidate"
  /\ verdict' = [verdict EXCEPT ![c] = "rejected"]
  /\ UNCHANGED <<baseline, base>>

Next ==
  \E c \in Candidate :
    Promote(c) \/ Reject(c) \/ \E b \in Candidate \cup {First} : Submit(c, b)

Spec == Init /\ [][Next]_contractVars
=============================================================================
