-------------------------- MODULE ReassignmentProofs --------------------------
(***************************************************************************)
(* Theorems about what survives the script that replaces panels: nobody    *)
(* counts twice, and a decided panel stays.  Unlike the workflow's own     *)
(* invariants these mention neither requests nor complete panels, which    *)
(* the script disturbs.                                                    *)
(***************************************************************************)
EXTENDS ReviewRoundProofs, ReviewerReassignment

(***************************************************************************)
(* The strengthening.  Flags may outlive a round here, so what keeps a     *)
(* person from voting twice is that every voter of the round is flagged;   *)
(* a new round starts without votes because versions only grow.            *)
(***************************************************************************)
Counted(m) ==
  /\ IsFiniteSet(hasReviewed[m])
  /\ VotersIn(m) \subseteq hasReviewed[m]
  /\ reviewCount[m] = Cardinality(VotersIn(m))
  /\ \A v \in Verdict : verdictCount[m][v] = Cardinality(VotesIn(m, v))
OncePerRound ==
  \A e, f \in reviewEvents :
    e.msId = f.msId /\ e.version = f.version /\ e.reviewer = f.reviewer => e = f
CountInv ==
  /\ StatusOnceSubmitted
  /\ EventInv
  /\ OncePerRound
  /\ \A m \in ManuscriptId : Counted(m)

LEMMA CountedOnce == CountInv => NobodyCountsTwice
<1> SUFFICES ASSUME CountInv, NEW m \in ManuscriptId
             PROVE  \A e, f \in UNION {VotesIn(m, v) : v \in Verdict} :
                      e.reviewer = f.reviewer => e = f
  BY DEF CountInv, Counted, NobodyCountsTwice
<1> QED
  BY DEF CountInv, OncePerRound, VotesIn

LEMMA InitCount == Init => CountInv
<1> SUFFICES ASSUME Init PROVE CountInv
  OBVIOUS
<1>1. EventInv /\ OncePerRound
  BY FS_EmptySet DEF Init, RegistryInit, EventInv, OncePerRound
<1>2. StatusOnceSubmitted
  BY Identifiers DEF Init, RegistryInit, StatusOnceSubmitted, Exists
<1>3. ASSUME NEW m \in ManuscriptId PROVE Counted(m)
  <2>1. VotersIn(m) = {} /\ \A v \in Verdict : VotesIn(m, v) = {}
    BY DEF Init, RegistryInit, VotersIn, VotesIn
  <2> QED
    BY <2>1, FS_EmptySet DEF Init, RegistryInit, NoVotes, Counted
<1> QED
  BY <1>1, <1>2, <1>3 DEF CountInv

LEMMA OtherCountKept ==
  ASSUME NEW k \in ManuscriptId, Counted(k), SameVotes(k),
         hasReviewed'[k] = hasReviewed[k], reviewCount'[k] = reviewCount[k],
         verdictCount'[k] = verdictCount[k]
  PROVE  Counted(k)'
BY VotesKept DEF Counted

(* Steps that log nothing and count nothing.                               *)
LEMMA CountKept ==
  ASSUME TypeOK, CountInv,
         UNCHANGED <<nextManuscriptId, version, hasReviewed, reviewCount,
                     verdictCount, reviewEvents>>,
         \A k \in ManuscriptId :
           status'[k] = "SUBMITTED" <=> status[k] = "SUBMITTED"
  PROVE  CountInv'
<1>1. StatusOnceSubmitted'
  BY DEF CountInv, StatusOnceSubmitted, Exists
<1>2. \A e \in reviewEvents : e.msId \in ManuscriptId
  BY DEF TypeOK, ReviewEvent
<1>3. EventInv' /\ OncePerRound'
  BY <1>2 DEF CountInv, EventInv, OncePerRound
<1>4. ASSUME NEW k \in ManuscriptId PROVE Counted(k)'
  BY OtherCountKept DEF CountInv, SameVotes
<1> QED
  BY <1>1, <1>3, <1>4 DEF CountInv

LEMMA SubmitManuscriptCount ==
  ASSUME TypeOK, CountInv, NEW a \in Author, NEW c \in Cid, NEW n \in Nonce,
         SubmitManuscript(a, c, n)
  PROVE  CountInv'
<1>0. nextManuscriptId \in ManuscriptId /\ nextManuscriptId \in Nat
  BY Identifiers DEF TypeOK, SubmitManuscript
<1> SUFFICES ASSUME NEW m \in ManuscriptId, m = nextManuscriptId
             PROVE  CountInv'
  BY <1>0
<1>1. /\ status' = [status EXCEPT ![m] = "CHECKING"]
      /\ version' = [version EXCEPT ![m] = 1]
      /\ nextManuscriptId' = m + 1
      /\ UNCHANGED <<hasReviewed, reviewCount, verdictCount, reviewEvents>>
  BY DEF SubmitManuscript, reviewVars
<1>2. /\ status \in [ManuscriptId -> Status] /\ version \in [ManuscriptId -> Nat]
      /\ \A e \in reviewEvents : e.msId \in ManuscriptId
  BY DEF TypeOK, ReviewEvent
<1>3. status[m] = "SUBMITTED"
  BY <1>0 DEF CountInv, StatusOnceSubmitted, Exists
<1>4. \A e \in reviewEvents : e.msId # m
  BY <1>3 DEF CountInv, EventInv
<1>5. StatusOnceSubmitted'
  <2>1. \A k \in ManuscriptId : k < m + 1 <=> k < m \/ k = m
    BY Identifiers
  <2> QED
    BY <1>1, <1>2, <2>1 DEF CountInv, StatusOnceSubmitted, Exists
<1>6. EventInv' /\ OncePerRound'
  BY <1>1, <1>2, <1>4 DEF CountInv, EventInv, OncePerRound
<1>7. ASSUME NEW k \in ManuscriptId, k # m PROVE Counted(k)'
  BY <1>1, <1>2, <1>7, OtherCountKept DEF CountInv, SameVotes
<1>8. Counted(m)'
  <2>1. /\ VotersIn(m) = {} /\ VotersIn(m)' = {}
        /\ \A v \in Verdict : VotesIn(m, v) = {} /\ VotesIn(m, v)' = {}
    BY <1>1, <1>4 DEF VotersIn, VotesIn
  <2> QED
    BY <1>1, <2>1 DEF CountInv, Counted
<1> QED
  BY <1>5, <1>6, <1>7, <1>8 DEF CountInv

LEMMA ReviseManuscriptCount ==
  ASSUME TypeOK, CountInv, NEW m \in ManuscriptId, NEW a \in Author,
         NEW c \in Cid, NEW n \in Nonce, ReviseManuscript(m, a, c, n)
  PROVE  CountInv'
<1>1. /\ status[m] = "REVISION_REQUESTED"
      /\ status' = [status EXCEPT ![m] = "CHECKING"]
      /\ version' = [version EXCEPT ![m] = @ + 1]
      /\ hasReviewed' = [hasReviewed EXCEPT ![m] = @ \ Range(reviewers[m])]
      /\ reviewCount' = [reviewCount EXCEPT ![m] = 0]
      /\ verdictCount' = [verdictCount EXCEPT ![m] = NoVotes]
      /\ UNCHANGED <<nextManuscriptId, reviewEvents>>
  BY DEF ReviseManuscript, RequireState, ResetReviewState, submissionVars
<1>2. /\ status \in [ManuscriptId -> Status] /\ version \in [ManuscriptId -> Nat]
      /\ hasReviewed \in [ManuscriptId -> SUBSET Address]
      /\ reviewCount \in [ManuscriptId -> Nat]
      /\ verdictCount \in [ManuscriptId -> [Verdict -> Nat]]
      /\ \A e \in reviewEvents : e.msId \in ManuscriptId /\ e.version \in Nat
  BY DEF TypeOK, ReviewEvent
<1>3. StatusOnceSubmitted'
  BY <1>1, <1>2 DEF CountInv, StatusOnceSubmitted, Exists
<1>4. version'[m] = version[m] + 1 /\ version[m] \in Nat
      /\ \A k \in ManuscriptId : k # m => version'[k] = version[k]
  BY <1>1, <1>2
<1>5. EventInv' /\ OncePerRound'
  <2>1. \A e \in reviewEvents : e.version <= version'[e.msId]
    BY <1>2, <1>4 DEF CountInv, EventInv
  <2>2. \A e \in reviewEvents : status'[e.msId] # "SUBMITTED"
    BY <1>1, <1>2 DEF CountInv, EventInv
  <2> QED
    BY <1>1, <2>1, <2>2 DEF CountInv, EventInv, OncePerRound
<1>6. ASSUME NEW k \in ManuscriptId, k # m PROVE Counted(k)'
  BY <1>1, <1>2, <1>6, OtherCountKept DEF CountInv, SameVotes
<1>7. Counted(m)'
  <2>1. \A e \in reviewEvents : e.msId = m => e.version # version'[m]
    BY <1>2, <1>4 DEF CountInv, EventInv
  <2>2. VotersIn(m)' = {} /\ \A v \in Verdict : VotesIn(m, v)' = {}
    BY <1>1, <2>1 DEF VotersIn, VotesIn
  <2>3. reviewCount'[m] = 0 /\ \A v \in Verdict : verdictCount'[m][v] = 0
    BY <1>1, <1>2 DEF NoVotes
  <2>4. IsFiniteSet(hasReviewed'[m])
    <3>1. hasReviewed'[m] \in SUBSET hasReviewed[m]
      BY <1>1, <1>2
    <3> QED
      BY <3>1, FS_Subset DEF CountInv, Counted
  <2> QED
    BY <2>2, <2>3, <2>4, FS_EmptySet DEF Counted
<1> QED
  BY <1>3, <1>5, <1>6, <1>7 DEF CountInv

(* A vote: whoever has voted is flagged, so this voter has not.            *)
LEMMA SubmitReviewCount ==
  ASSUME TypeOK, CountInv, NEW m \in ManuscriptId, NEW a \in Address,
         NEW v \in Verdict, NEW n \in Nonce, SubmitReview(m, a, v, n)
  PROVE  CountInv'
<1> DEFINE e == [msId |-> m, version |-> version[m], reviewer |-> a,
                 verdict |-> v]
<1>1. /\ status[m] = "UNDER_REVIEW" /\ a \notin hasReviewed[m]
      /\ hasReviewed' = [hasReviewed EXCEPT ![m] = @ \cup {a}]
      /\ reviewCount' = [reviewCount EXCEPT ![m] = @ + 1]
      /\ verdictCount' = [verdictCount EXCEPT ![m][v] = @ + 1]
      /\ reviewEvents' = reviewEvents \cup {e}
      /\ UNCHANGED <<nextManuscriptId, version>>
  BY DEF SubmitReview, RequireState, submissionVars, contentVars
<1>2. /\ status \in [ManuscriptId -> Status] /\ version \in [ManuscriptId -> Nat]
      /\ hasReviewed \in [ManuscriptId -> SUBSET Address]
      /\ reviewCount \in [ManuscriptId -> Nat]
      /\ verdictCount \in [ManuscriptId -> [Verdict -> Nat]]
      /\ \A x \in reviewEvents : x.msId \in ManuscriptId
  BY DEF TypeOK, ReviewEvent
<1>3. e.msId = m /\ e.version = version[m] /\ e.reviewer = a
  OBVIOUS
<1>4. /\ \A k \in ManuscriptId : k # m => status'[k] = status[k]
      /\ status'[m] # "SUBMITTED"
  BY <1>1, <1>2, DecisionType DEF SubmitReview
<1> HIDE DEF e
<1>5. a \notin VotersIn(m) /\ IsFiniteSet(reviewEvents)
  BY <1>1 DEF CountInv, Counted, EventInv
<1>6. /\ VotersIn(m)' = VotersIn(m) \cup {a}
      /\ \A w \in Verdict :
           Cardinality(VotesIn(m, w)')
             = Cardinality(VotesIn(m, w)) + (IF w = v THEN 1 ELSE 0)
  BY <1>5, OneMoreVote
<1>7. StatusOnceSubmitted'
  BY <1>1, <1>4 DEF CountInv, StatusOnceSubmitted, Exists
<1>8. EventInv'
  <2>1. IsFiniteSet(reviewEvents')
    BY <1>1, <1>5, FS_AddElement
  <2>2. version[m] <= version[m]
    BY <1>2
  <2> QED
    BY <1>1, <1>2, <1>3, <1>4, <2>1, <2>2 DEF CountInv, EventInv
<1>9. OncePerRound'
  BY <1>1, <1>3, <1>5 DEF CountInv, OncePerRound, VotersIn
<1>10. ASSUME NEW k \in ManuscriptId, k # m PROVE Counted(k)'
  BY <1>1, <1>2, <1>3, <1>10, OtherCountKept DEF CountInv, SameVotes
<1>11. Counted(m)'
  <2>1. VotersIn(m)' \subseteq hasReviewed'[m]
    BY <1>1, <1>2, <1>6 DEF CountInv, Counted
  <2>2. IsFiniteSet(hasReviewed'[m])
    BY <1>1, <1>2, FS_AddElement DEF CountInv, Counted
  <2>3. VotersIn(m) \in SUBSET hasReviewed[m] /\ IsFiniteSet(hasReviewed[m])
    BY DEF CountInv, Counted
  <2>4. Cardinality(VotersIn(m)') = Cardinality(VotersIn(m)) + 1
    BY <1>5, <1>6, <2>3, FS_Subset, FS_AddElement
  <2>5. reviewCount'[m] = Cardinality(VotersIn(m)')
    BY <1>1, <1>2, <2>4 DEF CountInv, Counted
  <2>6. \A w \in Verdict : verdictCount'[m][w] = Cardinality(VotesIn(m, w)')
    <3>1. \A w \in Verdict : verdictCount'[m][w]
                               = verdictCount[m][w] + (IF w = v THEN 1 ELSE 0)
      BY <1>1, <1>2
    <3> QED
      BY <1>6, <3>1 DEF CountInv, Counted
  <2> QED
    BY <2>1, <2>2, <2>5, <2>6 DEF Counted
<1> QED
  BY <1>7, <1>8, <1>9, <1>10, <1>11 DEF CountInv

LEMMA ScriptType ==
  ASSUME TypeOK, NEW m \in ManuscriptId, NEW list \in ReassignLists,
         ReassignReviewers(m, list)
  PROVE  TypeOK'
<1>1. /\ reviewers' = [reviewers EXCEPT ![m] = list]
      /\ list \in Seq(Address)
  BY ReassignAssumption DEF ReassignReviewers, FulfillRandomReviewers
<1>2. reviewers' \in [ManuscriptId -> Seq(Address)]
  BY <1>1 DEF TypeOK
<1> QED
  BY <1>2 DEF ReassignReviewers, FulfillRandomReviewers, TypeOK, OracleTypeOK,
              TokenTypeOK, submissionVars, contentVars, oracleVars,
              plagiarismVars, reviewerVars, tokenVars

LEMMA NextCount ==
  ASSUME TypeOK, CountInv, [NextWithScript]_vars
  PROVE  TypeOK' /\ CountInv'
<1>1. status \in [ManuscriptId -> Status]
  BY DEF TypeOK
<1>2. ASSUME NEW id \in RequestId, NEW s \in Score, AnswerPlagiarismCheck(id, s)
      PROVE  CountInv'
  <2>1. /\ status[plagiarismRequestToMs[id]] = "CHECKING"
        /\ status' = [status EXCEPT ![plagiarismRequestToMs[id]] =
                        IF Exceeds(s) THEN "REJECTED" ELSE "PENDING_EDITOR"]
        /\ UNCHANGED <<nextManuscriptId, version, hasReviewed, reviewCount,
                       verdictCount, reviewEvents>>
    BY <1>2 DEF AnswerPlagiarismCheck, FulfillPlagiarism, RequireState,
                submissionVars, contentVars, reviewVars
  <2> QED
    BY <1>1, <2>1, CountKept
<1>3. ASSUME NEW m \in ManuscriptId, NEW approve \in BOOLEAN, NEW f \in Field,
             SubmitEditorReview(m, approve, f)
      PROVE  CountInv'
  <2>1. /\ status[m] = "PENDING_EDITOR"
        /\ status' = [status EXCEPT ![m] = IF approve THEN "UNDER_REVIEW"
                                           ELSE "REJECTED"]
        /\ UNCHANGED <<nextManuscriptId, version, hasReviewed, reviewCount,
                       verdictCount, reviewEvents>>
    BY <1>3 DEF SubmitEditorReview, RequireState, submissionVars, contentVars,
                reviewVars
  <2> QED
    BY <1>1, <2>1, CountKept
<1>4. ASSUME NEW m \in ManuscriptId, NEW a \in Author, PayPublicationFee(m, a)
      PROVE  CountInv'
  <2>1. /\ status[m] = "ACCEPTED"
        /\ status' = [status EXCEPT ![m] = "PUBLISHED"]
        /\ UNCHANGED <<nextManuscriptId, version, hasReviewed, reviewCount,
                       verdictCount, reviewEvents>>
    BY <1>4 DEF PayPublicationFee, RequireState, submissionVars, contentVars,
                reviewVars
  <2> QED
    BY <1>1, <2>1, CountKept
<1>5. ASSUME UNCHANGED <<nextManuscriptId, status, version, hasReviewed,
                         reviewCount, verdictCount, reviewEvents>>
      PROVE  CountInv'
  BY <1>5, CountKept
<1>6. ASSUME NEW m, NEW list, FulfillRandomReviewers(m, list)
      PROVE  CountInv'
  BY <1>5, <1>6 DEF FulfillRandomReviewers, submissionVars, contentVars
<1>7. ASSUME NEW a, FundAuthor(a) \/ ApproveFee(a) \/ Withdraw(a)
      PROVE  CountInv'
  BY <1>5, <1>7 DEF FundAuthor, ApproveFee, Withdraw, tokenFrame,
                    registryVars, submissionVars, contentVars, reviewVars
<1>8. ASSUME UNCHANGED vars PROVE CountInv'
  BY <1>5, <1>8 DEF vars, registryVars, submissionVars, contentVars, reviewVars
<1>9. CASE [Next]_vars
  <2>1. CountInv'
    BY <1>2, <1>3, <1>4, <1>6, <1>7, <1>8, <1>9, SubmitManuscriptCount,
       ReviseManuscriptCount, SubmitReviewCount
    DEF Next, AnswerReviewerSelection
  <2> QED
    BY <1>9, <2>1, NextType
<1>10. CASE \E m \in ManuscriptId, list \in ReassignLists :
              ReassignReviewers(m, list)
  BY <1>6, <1>10, ScriptType DEF ReassignReviewers
<1> QED
  BY <1>9, <1>10 DEF NextWithScript

LEMMA AlwaysCounted == SpecWithScript => [](TypeOK /\ CountInv)
BY InitType, InitCount, NextCount, PTL DEF SpecWithScript

(***************************************************************************)
(* Replacing panel members, any number of times and with any lists, never  *)
(* makes anyone count twice, and the counters stay the logged reviews.     *)
(***************************************************************************)
THEOREM NobodyTwice == SpecWithScript => []NobodyCountsTwice
BY AlwaysCounted, CountedOnce, PTL

(***************************************************************************)
(* The script reaches no manuscript whose round is over: only the author's *)
(* revision changes a decided manuscript's panel.                          *)
(***************************************************************************)
Over == {"REVISION_REQUESTED", "ACCEPTED", "REJECTED", "PUBLISHED"}

LEMMA PanelChange ==
  ASSUME TypeOK, NextWithScript, NEW k \in ManuscriptId, status[k] \in Over,
         reviewers'[k] # reviewers[k]
  PROVE  status[k] = "REVISION_REQUESTED" /\ version'[k] = version[k] + 1
<1>1. /\ version \in [ManuscriptId -> Nat]
      /\ reviewers \in [ManuscriptId -> Seq(Address)]
  BY DEF TypeOK
<1>2. ASSUME NEW m, NEW list, FulfillRandomReviewers(m, list) PROVE FALSE
  BY <1>1, <1>2 DEF FulfillRandomReviewers, RequireState, Over
<1>3. ASSUME NEW m \in ManuscriptId, NEW a, NEW c, NEW n,
             ReviseManuscript(m, a, c, n)
      PROVE  status[k] = "REVISION_REQUESTED" /\ version'[k] = version[k] + 1
  BY <1>1, <1>3 DEF ReviseManuscript, ResetReviewState, RequireState
<1>4. ASSUME UNCHANGED reviewers PROVE FALSE
  BY <1>4
<1>5. ASSUME NEW a, FundAuthor(a) \/ ApproveFee(a) \/ Withdraw(a) PROVE FALSE
  BY <1>4, <1>5 DEF FundAuthor, ApproveFee, Withdraw, tokenFrame,
                    registryVars, reviewVars
<1>6. CASE Next
  BY <1>2, <1>3, <1>4, <1>5, <1>6
  DEF Next, SubmitManuscript, AnswerPlagiarismCheck, FulfillPlagiarism,
      SubmitEditorReview, AnswerReviewerSelection, SubmitReview,
      PayPublicationFee, reviewVars
<1>7. CASE \E m \in ManuscriptId, list \in ReassignLists :
             ReassignReviewers(m, list)
  BY <1>2, <1>7 DEF ReassignReviewers
<1> QED
  BY <1>6, <1>7 DEF NextWithScript

THEOREM PanelsStay == SpecWithScript => DecidedPanelStays
<1>1. TypeOK /\ [NextWithScript]_vars =>
        [\A m \in ManuscriptId :
           status[m] \in {"REVISION_REQUESTED", "ACCEPTED", "REJECTED", "PUBLISHED"}
           /\ reviewers'[m] # reviewers[m]
             => status[m] = "REVISION_REQUESTED" /\ version'[m] = version[m] + 1]_vars
  BY PanelChange DEF Over
<1> QED
  BY <1>1, AlwaysCounted, PTL DEF SpecWithScript, DecidedPanelStays

(* The script moves no token and touches no published manuscript.          *)
LEMMA ScriptKeepsRecords ==
  ASSUME TypeOK, NEW m \in ManuscriptId, NEW list \in ReassignLists,
         ReassignReviewers(m, list)
  PROVE  /\ UNCHANGED <<status, author, version, doiTokens, balance, allowance>>
         /\ \A k \in ManuscriptId :
              status[k] = "PUBLISHED" => reviewers'[k] = reviewers[k]
<1>1. /\ status[m] = "UNDER_REVIEW"
      /\ reviewers' = [reviewers EXCEPT ![m] = list]
      /\ UNCHANGED <<status, author, version, doiTokens, balance, allowance>>
  BY DEF ReassignReviewers, FulfillRandomReviewers, RequireState,
         submissionVars, contentVars, tokenVars
<1>2. reviewers \in [ManuscriptId -> Seq(Address)]
  BY DEF TypeOK
<1> QED
  BY <1>1, <1>2

(***************************************************************************)
(* However panels are replaced, the fees stay accounted for: what is left  *)
(* of each is the fee less the incentives of the panel that was in place   *)
(* at publication.                                                         *)
(***************************************************************************)
THEOREM FeesUnderScript == SpecWithScript => []FeesRetained
<1>1. CountInv => StatusOnceSubmitted
  BY DEF CountInv
<1>2. ASSUME TypeOK, StatusOnceSubmitted, FeesRetained, [NextWithScript]_vars
      PROVE  FeesRetained'
  <2>1. CASE [Next]_vars
    BY <1>2, <2>1, NextFees
  <2>2. CASE \E m \in ManuscriptId, list \in ReassignLists :
               ReassignReviewers(m, list)
    BY <1>2, <2>2, ScriptKeepsRecords, FeesKept
  <2> QED
    BY <1>2, <2>1, <2>2 DEF NextWithScript
<1> QED
  BY <1>1, <1>2, InitFees, AlwaysCounted, PTL DEF SpecWithScript

(***************************************************************************)
(* However panels are replaced, each published manuscript has its one DOI  *)
(* token, for its author and its accepted version.                         *)
(***************************************************************************)
THEOREM TokensUnderScript == SpecWithScript => []PublishedOnce
<1>1. CountInv => StatusOnceSubmitted
  BY DEF CountInv
<1>2. ASSUME TypeOK, StatusOnceSubmitted, PublishedOnce, [NextWithScript]_vars
      PROVE  PublishedOnce'
  <2>1. CASE [Next]_vars
    BY <1>2, <2>1, NextPublished
  <2>2. CASE \E m \in ManuscriptId, list \in ReassignLists :
               ReassignReviewers(m, list)
    BY <1>2, <2>2, ScriptKeepsRecords, TokensKept
  <2> QED
    BY <1>2, <2>1, <2>2 DEF NextWithScript
<1> QED
  BY <1>1, <1>2, InitPublished, AlwaysCounted, PTL DEF SpecWithScript
-----------------------------------------------------------------------------
(***************************************************************************)
(* What the script would have to look at.  It may replace the panel of a   *)
(* round, with no verdict out of reach and no flag left behind, if the     *)
(* oracle has answered (its answer would replace the list once more), the  *)
(* list repeats nobody, keeps everybody who has voted, and has somebody    *)
(* left to vote.  The script checks none of the four.                      *)
(***************************************************************************)
KeepsTheRound(m, reviewerList) ==
  /\ reviewers[m] # <<>>
  /\ IsInjective(reviewerList)
  /\ hasReviewed[m] \subseteq Range(reviewerList)
  /\ reviewCount[m] < Len(reviewerList)
CarefulUse ==
  [][\A m \in ManuscriptId, list \in ReassignLists :
       ReassignReviewers(m, list) => KeepsTheRound(m, list)]_vars

LEMMA CarefulRequests ==
  ASSUME TypeOK, RequestInv, NEW m \in ManuscriptId, NEW list \in ReassignLists,
         ReassignReviewers(m, list), KeepsTheRound(m, list)
  PROVE  RequestInv'
<1>1. /\ status[m] = "UNDER_REVIEW"
      /\ reviewers' = [reviewers EXCEPT ![m] = list]
      /\ UNCHANGED <<nextManuscriptId, status, oracleVars>>
  BY DEF ReassignReviewers, FulfillRandomReviewers, RequireState,
         submissionVars
<1>2. list # <<>> /\ reviewers[m] # <<>>
  BY EmptyPanel DEF KeepsTheRound, TypeOK
<1>3. \A k \in ManuscriptId :
        reviewers'[k] = IF k = m THEN list ELSE reviewers[k]
  BY <1>1 DEF TypeOK
<1>4. StatusOnceSubmitted'
  BY <1>1 DEF RequestInv, StatusOnceSubmitted, Exists
<1>5. UnusedIsBlank'
  BY <1>1 DEF RequestInv, UnusedIsBlank, oracleVars, plagiarismVars,
              reviewerVars
<1>6. NoPanelYet'
  BY <1>1, <1>3 DEF RequestInv, NoPanelYet
<1>7. RequestsMatchStatus'
  <2>1. \A k \in ManuscriptId : Unanswered(k)' <=> Unanswered(k)
    BY <1>1, <1>2, <1>3 DEF Unanswered
  <2>2. \A k \in ManuscriptId :
          /\ OpenPlagiarismRequests(k)' = OpenPlagiarismRequests(k)
          /\ OpenReviewerRequests(k)' = OpenReviewerRequests(k)
    BY <1>1 DEF OpenPlagiarismRequests, OpenReviewerRequests, PlagiarismRequests,
                oracleVars, plagiarismVars, reviewerVars
  <2> QED
    BY <1>1, <2>1, <2>2 DEF RequestInv, RequestsMatchStatus
<1> QED
  BY <1>4, <1>5, <1>6, <1>7 DEF RequestInv

LEMMA CarefulRounds ==
  ASSUME TypeOK, RoundsInv, NEW m \in ManuscriptId, NEW list \in ReassignLists,
         ReassignReviewers(m, list), KeepsTheRound(m, list)
  PROVE  RoundsInv'
<1>1. /\ status[m] = "UNDER_REVIEW"
      /\ reviewers' = [reviewers EXCEPT ![m] = list]
      /\ UNCHANGED <<status, version, hasReviewed, reviewCount, verdictCount,
                     reviewEvents>>
  BY DEF ReassignReviewers, FulfillRandomReviewers, RequireState, contentVars
<1>2. reviewers \in [ManuscriptId -> Seq(Address)]
  BY DEF TypeOK
<1>3. EventInv'
  BY <1>1 DEF RoundsInv, EventInv
<1>4. ASSUME NEW k \in ManuscriptId, k # m PROVE RoundInv(k)'
  BY <1>1, <1>2, <1>4, OtherRoundKept DEF RoundsInv, SameRound, SameVotes
<1>5. RoundInv(m)'
  <2>1. status'[m] = "UNDER_REVIEW" /\ reviewers'[m] = list
    BY <1>1, <1>2
  <2>2. Tallied(m)'
    <3>1. SameVotes(m)
      BY <1>1 DEF SameVotes
    <3>2. Tallied(m)
      BY DEF RoundsInv, RoundInv
    <3>3. hasReviewed'[m] \subseteq Range(reviewers'[m])
      BY <1>1, <2>1 DEF KeepsTheRound
    <3> QED
      BY <1>1, <3>1, <3>2, <3>3, VotesKept DEF Tallied
  <2>3. Waiting(m)'
    BY <1>1, <2>1 DEF Waiting, KeepsTheRound
  <2> QED
    BY <2>1, <2>2, <2>3 DEF RoundInv, Decided, KeepsTheRound
<1> QED
  BY <1>3, <1>4, <1>5 DEF RoundsInv

LEMMA CarefulStep ==
  ASSUME TypeOK, RequestInv, RoundsInv, [NextWithScript]_vars,
         [\A m \in ManuscriptId, list \in ReassignLists :
            ReassignReviewers(m, list) => KeepsTheRound(m, list)]_vars
  PROVE  RequestInv' /\ RoundsInv'
<1>1. CASE [Next]_vars
  BY <1>1, RequestInvStep, NextRounds
<1>2. CASE /\ ~ UNCHANGED vars
           /\ \E m \in ManuscriptId, list \in ReassignLists :
                ReassignReviewers(m, list)
  BY <1>2, CarefulRequests, CarefulRounds
<1> QED
  BY <1>1, <1>2 DEF NextWithScript

(* What the script breaks follows from the rounds' invariant.              *)
LEMMA RoundsKeepPromises ==
  ASSUME TypeOK, RoundsInv
  PROVE  VerdictAchievable /\ FlagsAreThisRounds
<1>1. FlagsAreThisRounds
  BY DEF RoundsInv, RoundInv, Tallied, FlagsAreThisRounds
<1>2. VerdictAchievable
  <2> SUFFICES ASSUME NEW m \in ManuscriptId, status[m] = "UNDER_REVIEW",
                      reviewers[m] # <<>>
               PROVE  /\ reviewCount[m] < Len(reviewers[m])
                      /\ reviewCount[m]
                           + Cardinality(Range(reviewers[m]) \ hasReviewed[m])
                             >= Len(reviewers[m])
    BY DEF VerdictAchievable
  <2>1. /\ reviewCount[m] < Len(reviewers[m])
        /\ Cardinality(Range(reviewers[m]) \ hasReviewed[m])
             = Len(reviewers[m]) - reviewCount[m]
    BY RoundsImply DEF PanelCanFinish
  <2>2. reviewCount[m] \in Nat /\ Len(reviewers[m]) \in Nat
    BY DEF TypeOK
  <2> QED
    BY <2>1, <2>2
<1> QED
  BY <1>1, <1>2

(***************************************************************************)
(* Both promises the script breaks hold while it is used with care: a      *)
(* verdict stays within reach, and who is flagged has voted this round;    *)
(* and no request is left open behind the panel.                           *)
(***************************************************************************)
THEOREM CarefulScriptIsSafe ==
  SpecWithScript /\ CarefulUse =>
    [](VerdictAchievable /\ FlagsAreThisRounds /\ RequestsMatchStatus)
<1>1. RequestInv => RequestsMatchStatus
  BY DEF RequestInv
<1>2. SpecWithScript /\ CarefulUse => [](RequestInv /\ RoundsInv)
  BY InitRequestInv, InitRounds, CarefulStep, AlwaysCounted, PTL
  DEF SpecWithScript, CarefulUse
<1> QED
  BY <1>1, <1>2, RoundsKeepPromises, AlwaysCounted, PTL
=============================================================================
