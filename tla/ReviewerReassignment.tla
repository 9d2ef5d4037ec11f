------------------------ MODULE ReviewerReassignment ------------------------
(***************************************************************************)
(* The registry with the maintenance script reassign-reviewers.js: the     *)
(* administrator grants itself ORACLE_ROLE and calls                       *)
(* fulfillRandomReviewers directly, without a request, at any time while   *)
(* the manuscript is under review -- before the oracle answers, or after   *)
(* some members of the panel have voted.  The script checks that the list  *)
(* is odd; the lower bound its message names is not checked.               *)
(***************************************************************************)
EXTENDS PublicationRegistry

CONSTANT ReassignLists   \* the lists the administrator may enter

ASSUME ReassignAssumption == ReassignLists \subseteq Seq(Address)

ReassignReviewers(m, reviewerList) ==
  /\ Len(reviewerList) % 2 # 0
  /\ FulfillRandomReviewers(m, reviewerList)
  /\ UNCHANGED oracleVars

NextWithScript ==
  \/ Next
  \/ \E m \in ManuscriptId, list \in ReassignLists : ReassignReviewers(m, list)

SpecWithScript == Init /\ [][NextWithScript]_vars
-----------------------------------------------------------------------------
(***************************************************************************)
(* Replacing panel members never makes anyone count twice: in a round an   *)
(* address has at most one logged review, also when it is dropped from the *)
(* list after voting and put back later, and the counters are exactly the  *)
(* logged reviews of the round.                                            *)
(***************************************************************************)
NobodyCountsTwice ==
  \A m \in ManuscriptId :
    /\ \A e, f \in UNION {VotesIn(m, v) : v \in Verdict} :
         e.reviewer = f.reviewer => e = f
    /\ \A v \in Verdict : verdictCount[m][v] = Cardinality(VotesIn(m, v))
    /\ reviewCount[m] = Cardinality(VotersIn(m))

(***************************************************************************)
(* The script reaches no manuscript whose round is over: a decision on     *)
(* record, and the panel whose incentives the fee pays, are not rewritten. *)
(***************************************************************************)
DecidedPanelStays ==
  [][\A m \in ManuscriptId :
       status[m] \in {"REVISION_REQUESTED", "ACCEPTED", "REJECTED", "PUBLISHED"}
       /\ reviewers'[m] # reviewers[m]
         => status[m] = "REVISION_REQUESTED" /\ version'[m] = version[m] + 1]_vars

(***************************************************************************)
(* ReviewOracle.sol:120 enforces an odd panel of three or more "so         *)
(* majority verdict is always achievable": while a manuscript is under     *)
(* review with a panel, the members who may still vote are enough to make  *)
(* the count reach the list's length, which is when a verdict is taken.    *)
(***************************************************************************)
VerdictAchievable ==
  \A m \in ManuscriptId :
    status[m] = "UNDER_REVIEW" /\ reviewers[m] # <<>> =>
      /\ reviewCount[m] < Len(reviewers[m])
      /\ reviewCount[m] + Cardinality(Range(reviewers[m]) \ hasReviewed[m])
           >= Len(reviewers[m])

(***************************************************************************)
(* session_wallet.go:139: hasReviewed "only reflects the *current* round   *)
(* (it's reset on every revision)".  Whoever is flagged has a review logged*)
(* in the current round.  The reset goes through the current list only, so *)
(* a member dropped by the script after voting stays flagged.              *)
(***************************************************************************)
FlagsAreThisRounds ==
  \A m \in ManuscriptId : hasReviewed[m] \subseteq VotersIn(m)
=============================================================================
