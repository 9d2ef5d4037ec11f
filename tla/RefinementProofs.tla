-------------------------- MODULE RefinementProofs --------------------------
(***************************************************************************)
(* Theorems: PublicationRegistry implements ReviewProcess, what a round of *)
(* review promises, and ManuscriptLifecycle, the view the author's client  *)
(* is composed with, for every value of the constants.                     *)
(***************************************************************************)
EXTENDS ReviewRoundProofs, ReviewProcessRefinement, LifecycleRefinement

(***************************************************************************)
(* ReviewProcess.  Votes collected one by one are one ballot each: the     *)
(* last vote of a panel is the step that opens it.                         *)
(***************************************************************************)
(***************************************************************************)
(* What the mapping needs beyond RoundsInv: panels are odd, a person votes *)
(* once in a round, and rounds are numbered from one, with submission.     *)
(***************************************************************************)
OddPanels ==
  \A m \in ManuscriptId :
    reviewers[m] # <<>> => Len(reviewers[m]) >= 3 /\ Len(reviewers[m]) % 2 = 1
VotesAreSingle ==
  \A e, f \in reviewEvents :
    e.msId = f.msId /\ e.version = f.version /\ e.reviewer = f.reviewer => e = f
RoundsAreNumbered ==
  /\ \A m \in ManuscriptId : status[m] = "SUBMITTED" <=> version[m] = 0
  /\ \A e \in reviewEvents : e.version # 0
BallotInv == OddPanels /\ VotesAreSingle /\ RoundsAreNumbered

LEMMA InitBallots == Init => BallotInv
BY DEF Init, RegistryInit, BallotInv, OddPanels, VotesAreSingle,
       RoundsAreNumbered

(* Steps that leave the logged reviews and the begun rounds alone.         *)
LEMMA BallotsKept ==
  ASSUME BallotInv, UNCHANGED reviewEvents,
         \A k \in ManuscriptId :
           /\ reviewers'[k] = reviewers[k]
           /\ version'[k] = version[k]
           /\ status'[k] = "SUBMITTED" <=> status[k] = "SUBMITTED"
  PROVE  BallotInv'
BY DEF BallotInv, OddPanels, VotesAreSingle, RoundsAreNumbered

LEMMA NextBallots ==
  ASSUME TypeOK, RequestInv, RoundsInv, BallotInv, [Next]_vars
  PROVE  BallotInv'
<1>1. /\ status \in [ManuscriptId -> Status]
      /\ version \in [ManuscriptId -> Nat]
      /\ reviewers \in [ManuscriptId -> Seq(Address)]
      /\ \A x \in reviewEvents : x.msId \in ManuscriptId
  BY DEF TypeOK, ReviewEvent
<1>2. ASSUME NEW a \in Author, NEW c \in Cid, NEW n \in Nonce,
             SubmitManuscript(a, c, n)
      PROVE  BallotInv'
  <2>1. /\ nextManuscriptId \in ManuscriptId
        /\ status' = [status EXCEPT ![nextManuscriptId] = "CHECKING"]
        /\ version' = [version EXCEPT ![nextManuscriptId] = 1]
        /\ UNCHANGED <<reviewers, reviewEvents>>
    BY <1>2, Identifiers DEF TypeOK, SubmitManuscript, reviewVars
  <2> QED
    BY <1>1, <2>1 DEF BallotInv, OddPanels, VotesAreSingle, RoundsAreNumbered
<1>3. ASSUME NEW id \in RequestId, NEW s \in Score, AnswerPlagiarismCheck(id, s)
      PROVE  BallotInv'
  <2>1. /\ status[plagiarismRequestToMs[id]] = "CHECKING"
        /\ status' = [status EXCEPT ![plagiarismRequestToMs[id]] =
                        IF Exceeds(s) THEN "REJECTED" ELSE "PENDING_EDITOR"]
        /\ UNCHANGED <<version, reviewers, reviewEvents>>
    BY <1>3 DEF AnswerPlagiarismCheck, FulfillPlagiarism, RequireState,
                contentVars, reviewVars
  <2> QED
    BY <1>1, <2>1, BallotsKept
<1>4. ASSUME NEW m \in ManuscriptId, NEW approve \in BOOLEAN, NEW f \in Field,
             SubmitEditorReview(m, approve, f)
      PROVE  BallotInv'
  <2>1. /\ status[m] = "PENDING_EDITOR"
        /\ status' = [status EXCEPT ![m] = IF approve THEN "UNDER_REVIEW"
                                           ELSE "REJECTED"]
        /\ UNCHANGED <<version, reviewers, reviewEvents>>
    BY <1>4 DEF SubmitEditorReview, RequireState, contentVars, reviewVars
  <2> QED
    BY <1>1, <2>1, BallotsKept
<1>5. ASSUME NEW id \in RequestId, NEW list \in ReviewerLists,
             AnswerReviewerSelection(id, list)
      PROVE  BallotInv'
  <2>1. /\ Len(list) >= 3 /\ Len(list) % 2 = 1
        /\ reviewers' = [reviewers EXCEPT ![reviewerRequestToMs[id]] = list]
        /\ UNCHANGED <<status, version, reviewEvents>>
    BY <1>5 DEF AnswerReviewerSelection, FulfillReviewerSelection,
                FulfillRandomReviewers, contentVars
  <2> QED
    BY <1>1, <2>1 DEF BallotInv, OddPanels, VotesAreSingle, RoundsAreNumbered
<1>6. ASSUME NEW m \in ManuscriptId, NEW a \in Address, NEW v \in Verdict,
             NEW n \in Nonce, SubmitReview(m, a, v, n)
      PROVE  BallotInv'
  <2> DEFINE e == [msId |-> m, version |-> version[m], reviewer |-> a,
                   verdict |-> v]
  <2>1. /\ status[m] = "UNDER_REVIEW"
        /\ \A k \in ManuscriptId : k # m => status'[k] = status[k]
        /\ status'[m] # "SUBMITTED"
        /\ UNCHANGED <<version, reviewers>>
        /\ reviewEvents' = reviewEvents \cup {e}
    BY <1>1, <1>6, DecisionType DEF SubmitReview, RequireState, contentVars
  <2>2. e.msId = m /\ e.version = version[m] /\ e.reviewer = a
    OBVIOUS
  <2>3. a \notin VotersIn(m)
    BY <1>6 DEF SubmitReview, RoundsInv, RoundInv, Tallied
  <2> HIDE DEF e
  <2>4. VotesAreSingle'
    BY <2>1, <2>2, <2>3 DEF BallotInv, VotesAreSingle, VotersIn
  <2>5. RoundsAreNumbered'
    BY <2>1, <2>2 DEF BallotInv, RoundsAreNumbered
  <2> QED
    BY <2>1, <2>4, <2>5 DEF BallotInv, OddPanels
<1>7. ASSUME NEW m \in ManuscriptId, NEW a \in Author, NEW c \in Cid,
             NEW n \in Nonce, ReviseManuscript(m, a, c, n)
      PROVE  BallotInv'
  <2>1. /\ status[m] = "REVISION_REQUESTED"
        /\ status' = [status EXCEPT ![m] = "CHECKING"]
        /\ version' = [version EXCEPT ![m] = @ + 1]
        /\ reviewers' = [reviewers EXCEPT ![m] = <<>>]
        /\ UNCHANGED reviewEvents
    BY <1>7 DEF ReviseManuscript, RequireState, ResetReviewState
  <2>2. \A k \in ManuscriptId :
          /\ reviewers'[k] = reviewers[k] \/ reviewers'[k] = <<>>
          /\ status'[k] = "SUBMITTED" <=> status[k] = "SUBMITTED"
          /\ version'[k] = 0 <=> status'[k] = "SUBMITTED"
    BY <1>1, <2>1 DEF BallotInv, RoundsAreNumbered
  <2> QED
    BY <2>1, <2>2 DEF BallotInv, OddPanels, VotesAreSingle, RoundsAreNumbered
<1>8. ASSUME NEW m \in ManuscriptId, NEW a \in Author, PayPublicationFee(m, a)
      PROVE  BallotInv'
  <2>1. /\ status[m] = "ACCEPTED"
        /\ status' = [status EXCEPT ![m] = "PUBLISHED"]
        /\ UNCHANGED <<version, reviewers, reviewEvents>>
    BY <1>8 DEF PayPublicationFee, RequireState, contentVars, reviewVars
  <2> QED
    BY <1>1, <2>1, BallotsKept
<1>9. ASSUME UNCHANGED <<status, version, reviewers, reviewEvents>>
      PROVE  BallotInv'
  BY <1>9, BallotsKept
<1>10. ASSUME NEW a, FundAuthor(a) \/ ApproveFee(a) \/ Withdraw(a)
       PROVE  BallotInv'
  BY <1>9, <1>10 DEF FundAuthor, ApproveFee, Withdraw, tokenFrame,
                     registryVars, contentVars, reviewVars
<1>11. ASSUME UNCHANGED vars PROVE BallotInv'
  BY <1>9, <1>11 DEF vars, registryVars, contentVars, reviewVars
<1> QED
  BY <1>2, <1>3, <1>4, <1>5, <1>6, <1>7, <1>8, <1>10, <1>11 DEF Next

LEMMA AlwaysBallots == Spec => [](TypeOK /\ RequestInv /\ RoundsInv /\ BallotInv)
BY InitBallots, NextBallots, AlwaysRounds, RequestInvariant, PTL DEF Spec

(***************************************************************************)
(* The mapped variables.                                                   *)
(***************************************************************************)
LEMMA InitProcess == Init => Process!Init
BY DEF Init, RegistryInit, Process!Init, phases, openedVotes, PhaseOf

(* One manuscript moves.                                                   *)
LEMMA PhasesMove ==
  ASSUME TypeOK, NEW m \in ManuscriptId,
         \A k \in ManuscriptId : k # m => status'[k] = status[k]
  PROVE  /\ phases[m] = PhaseOf[status[m]]
         /\ phases' = [phases EXCEPT ![m] = PhaseOf[status'[m]]]
BY DEF phases

(* A ballot that is not there, or open before and after, stays as it is.   *)
LEMMA VotesStay ==
  ASSUME TypeOK, UNCHANGED reviewEvents, NEW m \in ManuscriptId,
         \A k \in ManuscriptId : k # m => /\ status'[k] = status[k]
                                         /\ version'[k] = version[k],
         \A e \in reviewEvents : e.msId = m =>
           (e.version = version'[m] /\ status'[m] = "UNDER_REVIEW"
              <=> e.version = version[m] /\ status[m] = "UNDER_REVIEW")
  PROVE  openedVotes' = openedVotes
BY DEF openedVotes, TypeOK, ReviewEvent

(* Nobody has voted in a round that has no panel.                          *)
LEMMA NoVotesBeforePanel ==
  ASSUME TypeOK, RequestInv, RoundsInv, NEW m \in ManuscriptId,
         status[m] \in {"CHECKING", "PENDING_EDITOR"},
         NEW e \in reviewEvents, e.msId = m
  PROVE  e.version # version[m]
<1>1. reviewers[m] = <<>>
  BY DEF RequestInv, NoPanelYet
<1>2. VotersIn(m) = {}
  BY <1>1, NoPanelNoVotes DEF RoundsInv
<1> QED
  BY <1>2 DEF VotersIn

(***************************************************************************)
(* Each transaction is a step of the process, or none.                     *)
(***************************************************************************)
LEMMA SubmitManuscriptMaps ==
  ASSUME TypeOK, RequestInv, RoundsInv, BallotInv, NEW a \in Author,
         NEW c \in Cid, NEW n \in Nonce, SubmitManuscript(a, c, n)
  PROVE  Process!Next
<1>1. nextManuscriptId \in ManuscriptId
      /\ ~ (nextManuscriptId < nextManuscriptId)
  BY Identifiers DEF TypeOK, SubmitManuscript
<1> SUFFICES ASSUME NEW m \in ManuscriptId, m = nextManuscriptId
             PROVE  Process!StartRound(m)
  BY <1>1 DEF Process!Next
<1>2. status[m] = "SUBMITTED"
  BY <1>1 DEF RequestInv, StatusOnceSubmitted, Exists
<1>3. version[m] = 0
  BY <1>2 DEF BallotInv, RoundsAreNumbered
<1>4. /\ status' = [status EXCEPT ![m] = "CHECKING"]
      /\ version' = [version EXCEPT ![m] = 1]
      /\ UNCHANGED reviewEvents
  BY DEF SubmitManuscript
<1>5. status \in [ManuscriptId -> Status] /\ version \in [ManuscriptId -> Nat]
  BY DEF TypeOK
<1>6. \A e \in reviewEvents : e.msId # m
  BY <1>2 DEF RoundsInv, EventInv
<1>7. openedVotes' = openedVotes
  BY <1>4, <1>5, <1>6, VotesStay
<1>8. phases[m] = "none" /\ phases' = [phases EXCEPT ![m] = "checking"]
  BY <1>2, <1>4, <1>5, PhasesMove DEF PhaseOf
<1>9. version' = [version EXCEPT ![m] = version[m] + 1]
  BY <1>3, <1>4
<1> QED
  BY <1>7, <1>8, <1>9 DEF Process!StartRound, Process!Move

LEMMA ReviseManuscriptMaps ==
  ASSUME TypeOK, RequestInv, RoundsInv, NEW m \in ManuscriptId,
         NEW a \in Author, NEW c \in Cid, NEW n \in Nonce,
         ReviseManuscript(m, a, c, n)
  PROVE  Process!Next
<1>1. /\ status[m] = "REVISION_REQUESTED"
      /\ status' = [status EXCEPT ![m] = "CHECKING"]
      /\ version' = [version EXCEPT ![m] = @ + 1]
      /\ UNCHANGED reviewEvents
  BY DEF ReviseManuscript, RequireState
<1>2. status \in [ManuscriptId -> Status] /\ version \in [ManuscriptId -> Nat]
  BY DEF TypeOK
<1>3. \A e \in reviewEvents : e.msId = m => e.version # version[m] + 1
  BY <1>2 DEF RoundsInv, EventInv, TypeOK, ReviewEvent
<1>4. version'[m] = version[m] + 1
  BY <1>1, <1>2
<1>5. openedVotes' = openedVotes
  BY <1>1, <1>2, <1>3, <1>4, VotesStay
<1>6. phases[m] = "revising" /\ phases' = [phases EXCEPT ![m] = "checking"]
  BY <1>1, <1>2, PhasesMove DEF PhaseOf
<1> QED
  BY <1>1, <1>5, <1>6 DEF Process!Next, Process!StartRound, Process!Move

LEMMA AnswerPlagiarismCheckMaps ==
  ASSUME TypeOK, RequestInv, RoundsInv, NEW id \in RequestId, NEW s \in Score,
         AnswerPlagiarismCheck(id, s)
  PROVE  Process!Next
<1>1. plagiarismRequestToMs[id] \in ManuscriptId
  BY DEF TypeOK, OracleTypeOK
<1> SUFFICES ASSUME NEW m \in ManuscriptId, m = plagiarismRequestToMs[id]
             PROVE  Process!FinishCheck(m)
  BY <1>1 DEF Process!Next
<1>2. /\ status[m] = "CHECKING"
      /\ status' = [status EXCEPT ![m] = IF Exceeds(s) THEN "REJECTED"
                                         ELSE "PENDING_EDITOR"]
      /\ UNCHANGED <<version, reviewEvents>>
  BY DEF AnswerPlagiarismCheck, FulfillPlagiarism, RequireState, contentVars
<1>3. status \in [ManuscriptId -> Status]
  BY DEF TypeOK
<1>4. openedVotes' = openedVotes
  BY <1>2, <1>3, VotesStay
<1>5. /\ phases[m] = "checking"
      /\ \E to \in {"rejected", "screening"} : phases' = [phases EXCEPT ![m] = to]
  BY <1>2, <1>3, PhasesMove DEF PhaseOf
<1> QED
  BY <1>2, <1>4, <1>5 DEF Process!FinishCheck, Process!Move

LEMMA SubmitEditorReviewMaps ==
  ASSUME TypeOK, RequestInv, RoundsInv, NEW m \in ManuscriptId,
         NEW approve \in BOOLEAN, NEW f \in Field,
         SubmitEditorReview(m, approve, f)
  PROVE  Process!Next
<1>1. /\ status[m] = "PENDING_EDITOR"
      /\ status' = [status EXCEPT ![m] = IF approve THEN "UNDER_REVIEW"
                                         ELSE "REJECTED"]
      /\ UNCHANGED <<version, reviewEvents>>
  BY DEF SubmitEditorReview, RequireState, contentVars
<1>2. status \in [ManuscriptId -> Status]
  BY DEF TypeOK
<1>3. \A e \in reviewEvents : e.msId = m => e.version # version[m]
  BY <1>1, NoVotesBeforePanel
<1>4. openedVotes' = openedVotes
  BY <1>1, <1>2, <1>3, VotesStay
<1>5. /\ phases[m] = "screening"
      /\ \E to \in {"rejected", "review"} : phases' = [phases EXCEPT ![m] = to]
  BY <1>1, <1>2, PhasesMove DEF PhaseOf
<1> QED
  BY <1>1, <1>4, <1>5 DEF Process!Next, Process!FinishScreening, Process!Move

LEMMA PayPublicationFeeMaps ==
  ASSUME TypeOK, NEW m \in ManuscriptId, NEW a \in Author,
         PayPublicationFee(m, a)
  PROVE  Process!Next
<1>1. /\ status[m] = "ACCEPTED"
      /\ status' = [status EXCEPT ![m] = "PUBLISHED"]
      /\ UNCHANGED <<version, reviewEvents>>
  BY DEF PayPublicationFee, RequireState, contentVars
<1>2. status \in [ManuscriptId -> Status]
  BY DEF TypeOK
<1>3. openedVotes' = openedVotes
  BY <1>1, <1>2, VotesStay
<1>4. phases[m] = "accepted" /\ phases' = [phases EXCEPT ![m] = "published"]
  BY <1>1, <1>2, PhasesMove DEF PhaseOf
<1> QED
  BY <1>1, <1>3, <1>4 DEF Process!Next, Process!Publish, Process!Move

LEMMA QuietMaps ==
  ASSUME UNCHANGED <<status, version, reviewEvents>>
  PROVE  UNCHANGED Process!processVars
BY DEF Process!processVars, phases, openedVotes

(* A vote that does not complete its panel stays out of sight.             *)
LEMMA EarlyVoteMaps ==
  ASSUME TypeOK, NEW m \in ManuscriptId, NEW a \in Address, NEW v \in Verdict,
         NEW n \in Nonce, SubmitReview(m, a, v, n),
         reviewCount[m] + 1 # Len(reviewers[m])
  PROVE  UNCHANGED Process!processVars
<1> DEFINE e == [msId |-> m, version |-> version[m], reviewer |-> a,
                 verdict |-> v]
<1>1. /\ status[m] = "UNDER_REVIEW"
      /\ reviewCount' = [reviewCount EXCEPT ![m] = @ + 1]
      /\ status' = IF reviewCount'[m] = Len(reviewers[m])
                   THEN [status EXCEPT ![m] =
                           Decision(verdictCount'[m], Len(reviewers[m]))]
                   ELSE status
      /\ reviewEvents' = reviewEvents \cup {e}
      /\ UNCHANGED version
  BY DEF SubmitReview, RequireState, contentVars
<1>2. e.msId = m /\ e.version = version[m]
  OBVIOUS
<1>3. reviewCount'[m] = reviewCount[m] + 1
  BY <1>1 DEF TypeOK
<1>4. status' = status
  BY <1>1, <1>3
<1> HIDE DEF e
<1>5. openedVotes' = openedVotes
  BY <1>1, <1>2, <1>4 DEF openedVotes
<1> QED
  BY <1>1, <1>4, <1>5 DEF Process!processVars, phases

(* The votes of one round, and how many there are.                         *)
RoundVotes(m) == {e \in reviewEvents : e.msId = m /\ e.version = version[m]}

LEMMA OneVoteEach ==
  ASSUME NEW S, IsFiniteSet(S),
         \A e, f \in S : e.reviewer = f.reviewer => e = f
  PROVE  Cardinality({e.reviewer : e \in S}) = Cardinality(S)
<1> DEFINE voters == {e.reviewer : e \in S}
           voter == [e \in S |-> e.reviewer]
<1>1. voter \in [S -> voters]
  OBVIOUS
<1>2. \A e, f \in S : voter[e] = voter[f] => e = f
  OBVIOUS
<1>3. \A x \in voters : \E e \in S : voter[e] = x
  OBVIOUS
<1> HIDE DEF voters, voter
<1>4. voter \in Injection(S, voters)
  BY <1>1, <1>2 DEF Injection, IsInjective
<1>5. voter \in Surjection(S, voters)
  BY <1>1, <1>3 DEF Surjection
<1>6. Cardinality(voters) = Cardinality(S)
  BY <1>4, <1>5, FS_Surjection
<1> QED
  BY <1>6 DEF voters

(* Counting is counting in the abstract specification, too.                *)
LEMMA SameCount == \A S : Process!Cardinality(S) = Cardinality(S)
BY DEF Process!Cardinality, Cardinality, Process!IsFiniteSet, IsFiniteSet

(* The vote that completes a panel opens its ballot.                       *)
LEMMA LastVoteMaps ==
  ASSUME TypeOK, TypeOK', RoundsInv, RoundsInv', BallotInv, BallotInv',
         NEW m \in ManuscriptId, NEW a \in Address, NEW v \in Verdict,
         NEW n \in Nonce, SubmitReview(m, a, v, n),
         reviewCount[m] + 1 = Len(reviewers[m])
  PROVE  Process!Next
<1> DEFINE e == [msId |-> m, version |-> version[m], reviewer |-> a,
                 verdict |-> v]
           len == Len(reviewers[m])
           ballot == openedVotes' \ openedVotes
<1>1. /\ status[m] = "UNDER_REVIEW" /\ a \in Range(reviewers[m])
      /\ reviewCount' = [reviewCount EXCEPT ![m] = @ + 1]
      /\ verdictCount' = [verdictCount EXCEPT ![m][v] = @ + 1]
      /\ status' = IF reviewCount'[m] = len
                   THEN [status EXCEPT ![m] = Decision(verdictCount'[m], len)]
                   ELSE status
      /\ reviewEvents' = reviewEvents \cup {e}
      /\ UNCHANGED <<version, reviewers>>
  BY DEF SubmitReview, RequireState, contentVars
<1>2. e.msId = m /\ e.version = version[m]
  OBVIOUS
<1>3. status' = [status EXCEPT ![m] = Decision(verdictCount'[m], len)]
  <2>1. reviewCount'[m] = reviewCount[m] + 1
    BY <1>1 DEF TypeOK
  <2> QED
    BY <1>1, <2>1
<1>4. /\ status \in [ManuscriptId -> Status]
      /\ \A x \in reviewEvents : x.msId \in ManuscriptId
  BY DEF TypeOK, ReviewEvent
<1>5. status'[m] = Decision(verdictCount'[m], len) /\ status'[m] # "UNDER_REVIEW"
      /\ \A k \in ManuscriptId : k # m => status'[k] = status[k]
  BY <1>3, <1>4, DecisionType
<1>6. reviewers[m] # <<>> /\ reviewers[m] \in Seq(Address)
      /\ len \in Nat /\ len >= 3 /\ len % 2 = 1
  BY <1>1, EmptyPanel DEF BallotInv, OddPanels, TypeOK
<1> HIDE DEF e, len
<1>7. ballot = RoundVotes(m)' /\ openedVotes \subseteq openedVotes'
  BY <1>1, <1>2, <1>4, <1>5 DEF openedVotes, RoundVotes
<1> HIDE DEF ballot
<1>8. VotersIn(m)' = {x.reviewer : x \in ballot}
  BY <1>7 DEF VotersIn, RoundVotes
<1>9. /\ Cardinality({x.reviewer : x \in ballot}) = len
      /\ Cardinality(ballot) = len
  <2>1. RoundInv(m)'
    BY DEF RoundsInv
  <2>2. reviewCount'[m] = Cardinality(VotersIn(m)')
    BY <2>1 DEF RoundInv, Tallied
  <2>3. reviewCount'[m] = len
    BY <1>1 DEF TypeOK, len
  <2>4. ballot \in SUBSET reviewEvents' /\ IsFiniteSet(reviewEvents')
    BY <1>7 DEF RoundVotes, RoundsInv, EventInv
  <2>5. IsFiniteSet(ballot)
    BY <2>4, FS_Subset
  <2>6. \A x, y \in ballot : x.reviewer = y.reviewer => x = y
    BY <1>7 DEF RoundVotes, BallotInv, VotesAreSingle
  <2>7. Cardinality({x.reviewer : x \in ballot}) = Cardinality(ballot)
    BY <2>5, <2>6, OneVoteEach
  <2> QED
    BY <1>8, <2>2, <2>3, <2>7
<1>10. Process!IsBallot(ballot, m)
  <2>1. \A x \in ballot : x.msId = m /\ x.version = version[m]
    BY <1>1, <1>7 DEF RoundVotes
  <2>2. \A x, y \in ballot : x.reviewer = y.reviewer => x = y
    BY <1>7 DEF RoundVotes, BallotInv, VotesAreSingle
  <2>3. Process!Panel(ballot) = {x.reviewer : x \in ballot}
    BY DEF Process!Panel
  <2>4. Cardinality(Process!Panel(ballot)) = len
    BY <1>9, <2>3
  <2> QED
    BY <1>6, <2>1, <2>2, <2>4, SameCount DEF Process!IsBallot
<1>11. ballot \subseteq Process!Vote
  BY <1>7 DEF RoundVotes, TypeOK, ReviewEvent, BallotInv, RoundsAreNumbered,
              Process!Vote, Process!Verdict, Verdict
<1>12. \A w \in Verdict :
         Process!Carries(ballot, w) <=> 2 * verdictCount'[m][w] > len
  <2> SUFFICES ASSUME NEW w \in Verdict
               PROVE  Process!Carries(ballot, w) <=> 2 * verdictCount'[m][w] > len
    OBVIOUS
  <2>1. VotesIn(m, w)' = {x \in ballot : x.verdict = w}
    BY <1>7 DEF VotesIn, RoundVotes
  <2>2. verdictCount'[m][w] = Cardinality(VotesIn(m, w)')
    BY DEF RoundsInv, RoundInv, Tallied
  <2>3. Cardinality({x \in ballot : x.verdict = w}) = verdictCount'[m][w]
    BY <2>1, <2>2
  <2>4. Process!Carries(ballot, w)
          <=> 2 * Cardinality({x \in ballot : x.verdict = w}) > Cardinality(ballot)
    BY SameCount DEF Process!Carries
  <2> QED
    BY <1>9, <2>3, <2>4
<1>13. PhaseOf[status'[m]] = Process!Outcome(ballot)
  <2>1. verdictCount'[m] \in [Verdict -> Nat]
    BY DEF TypeOK
  <2>2. verdictCount'[m]["ACCEPT"] \in Nat /\ verdictCount'[m]["REJECT"] \in Nat
        /\ "ACCEPT" \in Verdict /\ "REJECT" \in Verdict
    BY <2>1 DEF Verdict
  <2>3. \A k \in Nat : k >= MajorityOf(len) <=> 2 * k > len
    BY <1>6 DEF MajorityOf
  <2>4. /\ Process!Carries(ballot, "ACCEPT")
             <=> verdictCount'[m]["ACCEPT"] >= MajorityOf(len)
        /\ Process!Carries(ballot, "REJECT")
             <=> verdictCount'[m]["REJECT"] >= MajorityOf(len)
    BY <1>12, <2>2, <2>3
  <2> QED
    BY <1>5, <2>4 DEF Process!Outcome, Decision, PhaseOf
<1>14. phases[m] = "review"
       /\ phases' = [phases EXCEPT ![m] = Process!Outcome(ballot)]
  <2>1. phases[m] = PhaseOf[status[m]]
        /\ phases' = [phases EXCEPT ![m] = PhaseOf[status'[m]]]
    BY <1>5, PhasesMove
  <2>2. PhaseOf[status[m]] = "review"
    BY <1>1 DEF PhaseOf
  <2> QED
    BY <1>13, <2>1, <2>2
<1>15. Process!OpenBallot(m)
  BY <1>1, <1>7, <1>10, <1>11, <1>14
  DEF ballot, Process!OpenBallot, Process!Move
<1> QED
  BY <1>15 DEF Process!Next

LEMMA StepMaps ==
  ASSUME TypeOK, TypeOK', RequestInv, RoundsInv, RoundsInv', BallotInv,
         BallotInv', [Next]_vars
  PROVE  Process!Next \/ UNCHANGED Process!processVars
<1>1. ASSUME NEW m \in ManuscriptId, NEW a \in Address, NEW v \in Verdict,
             NEW n \in Nonce, SubmitReview(m, a, v, n)
      PROVE  Process!Next \/ UNCHANGED Process!processVars
  BY <1>1, EarlyVoteMaps, LastVoteMaps
<1>2. ASSUME NEW id \in RequestId, NEW list \in ReviewerLists,
             AnswerReviewerSelection(id, list)
      PROVE  UNCHANGED Process!processVars
  BY <1>2, QuietMaps DEF AnswerReviewerSelection, FulfillRandomReviewers,
                         contentVars
<1>3. ASSUME NEW a, FundAuthor(a) \/ ApproveFee(a) \/ Withdraw(a)
      PROVE  UNCHANGED Process!processVars
  BY <1>3, QuietMaps DEF FundAuthor, ApproveFee, Withdraw, tokenFrame,
                         registryVars, contentVars
<1>4. ASSUME UNCHANGED vars PROVE UNCHANGED Process!processVars
  BY <1>4, QuietMaps DEF vars, registryVars, contentVars
<1> QED
  BY <1>1, <1>2, <1>3, <1>4, SubmitManuscriptMaps, ReviseManuscriptMaps,
     AnswerPlagiarismCheckMaps, SubmitEditorReviewMaps, PayPublicationFeeMaps
  DEF Next

(***************************************************************************)
(* The contracts implement the review process.  Whatever the interleaving  *)
(* of submissions, oracle answers, screenings, reviews and payments, what  *)
(* is visible is one complete odd ballot per round, decided by its         *)
(* majority, and one publication of what was accepted.                     *)
(***************************************************************************)
THEOREM ProcessImplemented == Spec => ImplementsReviewProcess
<1>1. Init => Process!Init
  BY InitProcess
<1>2. /\ TypeOK /\ RequestInv /\ RoundsInv /\ BallotInv
      /\ (TypeOK /\ RequestInv /\ RoundsInv /\ BallotInv)'
      /\ [Next]_vars
      => [Process!Next]_(Process!processVars)
  BY StepMaps
<1> QED
  BY <1>1, <1>2, AlwaysBallots, PTL DEF Spec, ImplementsReviewProcess, Process!Spec
-----------------------------------------------------------------------------
(***************************************************************************)
(* ManuscriptLifecycle.                                                    *)
(***************************************************************************)
(***************************************************************************)
(* What the mapping needs: no panel holds a submission key, a manuscript   *)
(* has had no more versions than there were checks, and what has a status  *)
(* has an author among the submission keys.                                *)
(***************************************************************************)
PanelsApart == \A m \in ManuscriptId : Range(reviewers[m]) \cap Author = {}
VersionsChecked ==
  \A m \in ManuscriptId : version[m] <= nextPlagiarismRequestId
LifeInv == PanelsApart /\ VersionsChecked

LEMMA NobodyInEmptyPanel == Range(<<>>) = {}
BY DEF Range

LEMMA InitLife == Init => LifeInv
BY NobodyInEmptyPanel
DEF Init, RegistryInit, OracleInit, LifeInv, PanelsApart, VersionsChecked

LEMMA LifeKept ==
  ASSUME LifeInv,
         UNCHANGED <<reviewers, version, nextPlagiarismRequestId>>
  PROVE  LifeInv'
BY DEF LifeInv, PanelsApart, VersionsChecked

LEMMA NextLife ==
  ASSUME TypeOK, LifeInv, [Next]_vars
  PROVE  LifeInv'
<1>1. /\ version \in [ManuscriptId -> Nat]
      /\ reviewers \in [ManuscriptId -> Seq(Address)]
      /\ nextPlagiarismRequestId \in Nat
  BY Identifiers DEF TypeOK, OracleTypeOK
<1>2. ASSUME NEW a \in Author, NEW c \in Cid, NEW n \in Nonce,
             SubmitManuscript(a, c, n)
      PROVE  LifeInv'
  <2>1. /\ version' = [version EXCEPT ![nextManuscriptId] = 1]
        /\ nextPlagiarismRequestId' = nextPlagiarismRequestId + 1
        /\ UNCHANGED reviewers
    BY <1>2 DEF SubmitManuscript, RequestPlagiarismCheck, reviewVars
  <2>2. \A k \in ManuscriptId : version'[k] = version[k] \/ version'[k] = 1
    BY <1>1, <2>1
  <2> QED
    BY <1>1, <2>1, <2>2 DEF LifeInv, PanelsApart, VersionsChecked
<1>3. ASSUME NEW m \in ManuscriptId, NEW a \in Author, NEW c \in Cid,
             NEW n \in Nonce, ReviseManuscript(m, a, c, n)
      PROVE  LifeInv'
  <2>1. /\ version' = [version EXCEPT ![m] = @ + 1]
        /\ nextPlagiarismRequestId' = nextPlagiarismRequestId + 1
        /\ reviewers' = [reviewers EXCEPT ![m] = <<>>]
    BY <1>3 DEF ReviseManuscript, RequestPlagiarismCheck, ResetReviewState
  <2>2. \A k \in ManuscriptId :
          /\ version'[k] = version[k] \/ version'[k] = version[k] + 1
          /\ reviewers'[k] = reviewers[k] \/ reviewers'[k] = <<>>
    BY <1>1, <2>1
  <2> QED
    BY <1>1, <2>1, <2>2, NobodyInEmptyPanel
    DEF LifeInv, PanelsApart, VersionsChecked
<1>4. ASSUME NEW id \in RequestId, NEW list \in ReviewerLists,
             AnswerReviewerSelection(id, list)
      PROVE  LifeInv'
  <2>1. /\ reviewers' = [reviewers EXCEPT ![reviewerRequestToMs[id]] = list]
        /\ UNCHANGED <<version, nextPlagiarismRequestId>>
    BY <1>4 DEF AnswerReviewerSelection, FulfillReviewerSelection,
                FulfillRandomReviewers, contentVars, plagiarismVars
  <2>2. \A k \in ManuscriptId :
          reviewers'[k] = reviewers[k] \/ reviewers'[k] = list
    BY <1>1, <2>1
  <2> QED
    BY <2>1, <2>2, KeysApart DEF LifeInv, PanelsApart, VersionsChecked
<1>5. ASSUME NEW id \in RequestId, NEW s \in Score, AnswerPlagiarismCheck(id, s)
      PROVE  LifeInv'
  BY <1>5, LifeKept DEF AnswerPlagiarismCheck, FulfillPlagiarismCheck,
                        FulfillPlagiarism, contentVars, reviewVars
<1>6. ASSUME NEW m \in ManuscriptId, NEW approve \in BOOLEAN, NEW f \in Field,
             SubmitEditorReview(m, approve, f)
      PROVE  LifeInv'
  BY <1>6, LifeKept DEF SubmitEditorReview, RequestRandomReviewers,
                        plagiarismVars, oracleVars, contentVars, reviewVars
<1>7. ASSUME NEW m \in ManuscriptId, NEW a \in Address, NEW v \in Verdict,
             NEW n \in Nonce, SubmitReview(m, a, v, n)
      PROVE  LifeInv'
  BY <1>7, LifeKept DEF SubmitReview, plagiarismVars, oracleVars, contentVars
<1>8. ASSUME NEW m \in ManuscriptId, NEW a \in Author, PayPublicationFee(m, a)
      PROVE  LifeInv'
  BY <1>8, LifeKept DEF PayPublicationFee, plagiarismVars, oracleVars,
                        contentVars, reviewVars
<1>9. ASSUME NEW a, FundAuthor(a) \/ ApproveFee(a) \/ Withdraw(a)
      PROVE  LifeInv'
  BY <1>9, LifeKept DEF FundAuthor, ApproveFee, Withdraw, tokenFrame,
                        registryVars, contentVars, reviewVars, oracleVars,
                        plagiarismVars
<1>10. ASSUME UNCHANGED vars PROVE LifeInv'
  BY <1>10, LifeKept DEF vars, registryVars, contentVars, reviewVars,
                         oracleVars, plagiarismVars
<1> QED
  BY <1>2, <1>3, <1>4, <1>5, <1>6, <1>7, <1>8, <1>9, <1>10 DEF Next

LEMMA AlwaysLife == Spec => [](TypeOK /\ LifeInv)
BY InitLife, NextLife, TypeCorrect, PTL DEF Spec

LEMMA InitLifecycle == Init => Lifecycle!LifecycleInit
BY TokenAssumption, RegistryAssumption
DEF Init, RegistryInit, TokenInit, Account, NoAddress, ManuscriptId,
    Lifecycle!LifecycleInit, Lifecycle!Manuscript, Lifecycle!NoKey

(***************************************************************************)
(* The author's own steps.                                                 *)
(***************************************************************************)
LEMMA UseNonceMaps ==
  ASSUME TypeOK, NEW a \in Author, NEW n \in Nonce, UseNonce(a, n)
  PROVE  Lifecycle!UseNonce(a, nonces[a])
<1>1. Author \subseteq Address /\ nonces \in [Address -> Nat]
  BY RegistryAssumption DEF TypeOK
<1>2. nonces' = [nonces EXCEPT ![a] = @ + 1]
  BY DEF UseNonce
<1> QED
  BY <1>1, <1>2 DEF Lifecycle!UseNonce

LEMMA MoneyKept ==
  ASSUME UNCHANGED tokenVars
  PROVE  UNCHANGED Lifecycle!moneyVars
BY DEF tokenVars, Lifecycle!moneyVars

LEMMA SubmitManuscriptLife ==
  ASSUME TypeOK, NEW a \in Author, NEW c \in Cid, NEW n \in Nonce,
         SubmitManuscript(a, c, n)
  PROVE  Lifecycle!LifecycleNext
<1>1. Lifecycle!UseNonce(a, nonces[a])
  BY UseNonceMaps DEF SubmitManuscript
<1>2. UNCHANGED Lifecycle!moneyVars
  BY MoneyKept DEF SubmitManuscript
<1>3. Lifecycle!Submit(a, nonces[a])
  BY <1>1, <1>2 DEF SubmitManuscript, Lifecycle!Submit
<1> QED
  BY <1>3 DEF Lifecycle!LifecycleNext

LEMMA ReviseManuscriptLife ==
  ASSUME TypeOK, TypeOK', LifeInv, LifeInv', NEW m \in ManuscriptId,
         NEW a \in Author, NEW c \in Cid, NEW n \in Nonce,
         ReviseManuscript(m, a, c, n)
  PROVE  Lifecycle!LifecycleNext
<1>1. Lifecycle!UseNonce(a, nonces[a])
  BY UseNonceMaps DEF ReviseManuscript
<1>2. UNCHANGED Lifecycle!moneyVars
  BY MoneyKept DEF ReviseManuscript
<1>3. version[m] < MaxRequests
  <2>1. version[m] <= nextPlagiarismRequestId /\ version[m] \in Nat
    BY DEF LifeInv, VersionsChecked, TypeOK
  <2>2. nextPlagiarismRequestId < MaxRequests
    BY DEF ReviseManuscript, RequestPlagiarismCheck
  <2> QED
    BY <2>1, <2>2, BoundsAssumption DEF TypeOK, OracleTypeOK
<1>4. Lifecycle!Revise(m, a, nonces[a])
  BY <1>1, <1>2, <1>3
  DEF ReviseManuscript, RequireState, submissionVars, Lifecycle!Revise
<1> QED
  BY <1>4 DEF Lifecycle!LifecycleNext, Lifecycle!Manuscript, ManuscriptId

(* The fee leaves the author's key and nothing comes back to it.           *)
LEMMA PayPublicationFeeLife ==
  ASSUME TypeOK, LifeInv, NEW m \in ManuscriptId, NEW a \in Author,
         PayPublicationFee(m, a)
  PROVE  Lifecycle!LifecycleNext
<1>1. /\ status[m] = "ACCEPTED" /\ author[m] = a
      /\ status' = [status EXCEPT ![m] = "PUBLISHED"]
      /\ PayFromFee(a, reviewers[m])
      /\ UNCHANGED <<nextManuscriptId, author, version, nonces>>
  BY DEF PayPublicationFee, RequireState, submissionVars, contentVars
<1>2. /\ balance \in [Account -> Nat] /\ allowance \in [Address -> Nat]
      /\ Author \subseteq Address /\ Author \subseteq Account
      /\ Registry \notin Author /\ PUBLICATION_FEE \in Nat
  BY TokenAssumption, RegistryAssumption DEF TypeOK, TokenTypeOK, Account
<1>3. /\ allowance[a] >= PUBLICATION_FEE /\ balance[a] >= PUBLICATION_FEE
      /\ allowance' = [allowance EXCEPT ![a] = @ - PUBLICATION_FEE]
  BY <1>1 DEF PayFromFee
<1>4. ASSUME NEW k \in Author
      PROVE  balance'[k] = IF k = a THEN balance[k] - PUBLICATION_FEE
                                    ELSE balance[k]
  <2>1. {i \in DOMAIN reviewers[m] : reviewers[m][i] = k} = {}
    BY DEF LifeInv, PanelsApart, Range
  <2>2. Occurrences(k, reviewers[m]) = 0
    BY <2>1, FS_EmptySet DEF Occurrences
  <2>3. REVIEWER_INCENTIVE * 0 = 0
    BY TokenAssumption
  <2>4. balance'[k] = balance[k] + REVIEWER_INCENTIVE * Occurrences(k, reviewers[m])
                        + (IF k = Registry
                           THEN PUBLICATION_FEE - PaidOut(reviewers[m]) ELSE 0)
                        - (IF k = a THEN PUBLICATION_FEE ELSE 0)
    BY <1>1, <1>2 DEF PayFromFee
  <2>5. balance[k] \in Nat /\ k # Registry
    BY <1>2
  <2> QED
    BY <1>2, <2>2, <2>3, <2>4, <2>5
<1>5. [k \in Author |-> balance[k]]'
        = [[k \in Author |-> balance[k]] EXCEPT ![a] = @ - PUBLICATION_FEE]
  BY <1>2, <1>4
<1>6. [k \in Author |-> allowance[k]]'
        = [[k \in Author |-> allowance[k]] EXCEPT ![a] = @ - PUBLICATION_FEE]
  BY <1>2, <1>3
<1>7. Lifecycle!Pay(m, a)
  BY <1>1, <1>3, <1>5, <1>6 DEF Lifecycle!Pay
<1> QED
  BY <1>7 DEF Lifecycle!LifecycleNext, Lifecycle!Manuscript, ManuscriptId

LEMMA FundAuthorLife ==
  ASSUME TypeOK, NEW a \in Author, FundAuthor(a)
  PROVE  Lifecycle!LifecycleNext
<1>1. /\ balance \in [Account -> Nat] /\ Author \subseteq Account
      /\ Funder \notin Author /\ PUBLICATION_FEE \in Nat /\ balance[a] \in Nat
  BY TokenAssumption, RegistryAssumption DEF TypeOK, TokenTypeOK, Account
<1>2. PUBLICATION_FEE - balance[a] \in 1 .. PUBLICATION_FEE
  BY <1>1 DEF FundAuthor
<1> SUFFICES ASSUME NEW amount \in 1 .. PUBLICATION_FEE,
                    amount = PUBLICATION_FEE - balance[a]
             PROVE  Lifecycle!LifecycleNext
  BY <1>2
<1>3. /\ Transfer(Funder, a, PUBLICATION_FEE - balance[a])
      /\ UNCHANGED <<nextManuscriptId, author, status, version, nonces, allowance>>
  BY DEF FundAuthor, Transfer, tokenFrame, registryVars, submissionVars,
         contentVars
<1>4. ASSUME NEW k \in Author
      PROVE  balance'[k] = IF k = a THEN balance[k] + amount ELSE balance[k]
  <2>1. balance'[k] = balance[k] + (IF k = a THEN amount ELSE 0)
                        - (IF k = Funder THEN amount ELSE 0)
    BY <1>1, <1>3 DEF Transfer
  <2>2. balance[k] \in Nat /\ k # Funder /\ amount \in Nat
    BY <1>1
  <2> QED
    BY <2>1, <2>2
<1>5. [k \in Author |-> balance[k]]'
        = [[k \in Author |-> balance[k]] EXCEPT ![a] = @ + amount]
  BY <1>1, <1>4
<1>6. Lifecycle!Receive(a, amount)
  BY <1>3, <1>5 DEF Lifecycle!Receive
<1> QED
  BY <1>6 DEF Lifecycle!LifecycleNext

LEMMA ApproveFeeLife ==
  ASSUME TypeOK, NEW a \in Author, ApproveFee(a)
  PROVE  Lifecycle!LifecycleNext
<1>1. Author \subseteq Address /\ allowance \in [Address -> Nat]
  BY RegistryAssumption DEF TypeOK, TokenTypeOK
<1>2. /\ allowance' = [allowance EXCEPT ![a] = PUBLICATION_FEE]
      /\ UNCHANGED <<nextManuscriptId, author, status, version, nonces, balance>>
  BY DEF ApproveFee, Approve, tokenFrame, registryVars, submissionVars,
         contentVars
<1>3. Lifecycle!Approve(a)
  BY <1>1, <1>2 DEF Lifecycle!Approve
<1> QED
  BY <1>3 DEF Lifecycle!LifecycleNext

(***************************************************************************)
(* The decisions of others, and what is hidden from the author.            *)
(***************************************************************************)
LEMMA OthersLife ==
  ASSUME TypeOK, NEW m \in ManuscriptId,
         UNCHANGED <<nextManuscriptId, author, version, tokenVars>>,
         \A k \in Author : nonces'[k] = nonces[k],
         \/ /\ status[m] = "CHECKING"
            /\ \E to \in {"REJECTED", "PENDING_EDITOR"} :
                 status' = [status EXCEPT ![m] = to]
         \/ /\ status[m] = "PENDING_EDITOR"
            /\ \E to \in {"REJECTED", "UNDER_REVIEW"} :
                 status' = [status EXCEPT ![m] = to]
         \/ /\ status[m] = "UNDER_REVIEW"
            /\ \E to \in {"ACCEPTED", "REJECTED", "REVISION_REQUESTED"} :
                 status' = [status EXCEPT ![m] = to]
  PROVE  Lifecycle!LifecycleNext
<1>1. UNCHANGED <<[k \in Author |-> nonces[k]], Lifecycle!moneyVars>>
  BY MoneyKept
<1>2. Lifecycle!Others
  BY <1>1 DEF Lifecycle!Others, Lifecycle!Check, Lifecycle!Screen,
              Lifecycle!Decide, Lifecycle!Move, Lifecycle!Manuscript,
              ManuscriptId
<1> QED
  BY <1>2 DEF Lifecycle!LifecycleNext

LEMMA HiddenLife ==
  ASSUME UNCHANGED <<nextManuscriptId, author, status, version>>,
         \A k \in Author : /\ nonces'[k] = nonces[k]
                           /\ balance'[k] = balance[k]
                           /\ allowance'[k] = allowance[k]
  PROVE  UNCHANGED Lifecycle!lifecycleVars
BY DEF Lifecycle!lifecycleVars

LEMMA StepLife ==
  ASSUME TypeOK, TypeOK', LifeInv, LifeInv', [Next]_vars
  PROVE  Lifecycle!LifecycleNext \/ UNCHANGED Lifecycle!lifecycleVars
<1>1. /\ status \in [ManuscriptId -> Status] /\ nonces \in [Address -> Nat]
      /\ balance \in [Account -> Nat] /\ Author \subseteq Address
      /\ Author \subseteq Account /\ Funder \notin Author
  BY TokenAssumption, RegistryAssumption DEF TypeOK, TokenTypeOK, Account
<1>2. ASSUME NEW id \in RequestId, NEW s \in Score, AnswerPlagiarismCheck(id, s)
      PROVE  Lifecycle!LifecycleNext
  <2>1. plagiarismRequestToMs[id] \in ManuscriptId
    BY DEF TypeOK, OracleTypeOK
  <2> SUFFICES ASSUME NEW m \in ManuscriptId, m = plagiarismRequestToMs[id]
               PROVE  Lifecycle!LifecycleNext
    BY <2>1
  <2>2. /\ status[m] = "CHECKING"
        /\ status' = [status EXCEPT ![m] = IF Exceeds(s) THEN "REJECTED"
                                           ELSE "PENDING_EDITOR"]
        /\ UNCHANGED <<nextManuscriptId, author, version, nonces, tokenVars>>
    BY <1>2 DEF AnswerPlagiarismCheck, FulfillPlagiarism, RequireState,
                submissionVars, contentVars
  <2> QED
    BY <2>2, OthersLife
<1>3. ASSUME NEW m \in ManuscriptId, NEW approve \in BOOLEAN, NEW f \in Field,
             SubmitEditorReview(m, approve, f)
      PROVE  Lifecycle!LifecycleNext
  <2>1. /\ status[m] = "PENDING_EDITOR"
        /\ status' = [status EXCEPT ![m] = IF approve THEN "UNDER_REVIEW"
                                           ELSE "REJECTED"]
        /\ UNCHANGED <<nextManuscriptId, author, version, nonces, tokenVars>>
    BY <1>3 DEF SubmitEditorReview, RequireState, submissionVars, contentVars
  <2> QED
    BY <2>1, OthersLife
<1>4. ASSUME NEW m \in ManuscriptId, NEW a \in Address, NEW v \in Verdict,
             NEW n \in Nonce, SubmitReview(m, a, v, n), a \notin Author
      PROVE  Lifecycle!LifecycleNext \/ UNCHANGED Lifecycle!lifecycleVars
  <2>1. /\ status[m] = "UNDER_REVIEW"
        /\ \/ status' = status
           \/ status' = [status EXCEPT ![m] =
                            Decision(verdictCount'[m], Len(reviewers[m]))]
        /\ UNCHANGED <<nextManuscriptId, author, version, tokenVars>>
        /\ nonces' = [nonces EXCEPT ![a] = @ + 1]
    BY <1>4 DEF SubmitReview, UseNonce, RequireState, submissionVars,
                contentVars
  <2>2. \A k \in Author : nonces'[k] = nonces[k]
    BY <1>1, <1>4, <2>1
  <2>3. CASE status' = status
    BY <2>1, <2>2, <2>3, HiddenLife DEF tokenVars
  <2>4. CASE status' # status
    BY <2>1, <2>2, <2>4, DecisionType, OthersLife
  <2> QED
    BY <2>3, <2>4
<1>5. ASSUME NEW m \in ManuscriptId, NEW a \in Address, NEW v \in Verdict,
             NEW n \in Nonce, SubmitReview(m, a, v, n)
      PROVE  a \notin Author
  BY <1>5 DEF SubmitReview, LifeInv, PanelsApart
<1>6. ASSUME NEW id \in RequestId, NEW list \in ReviewerLists,
             AnswerReviewerSelection(id, list)
      PROVE  UNCHANGED Lifecycle!lifecycleVars
  BY <1>6, HiddenLife DEF AnswerReviewerSelection, FulfillRandomReviewers,
                          submissionVars, contentVars, tokenVars
<1>7. ASSUME NEW a \in Address \ Author, Withdraw(a)
      PROVE  UNCHANGED Lifecycle!lifecycleVars
  <2>1. /\ UNCHANGED <<nextManuscriptId, author, status, version, nonces, allowance>>
        /\ \A x \in Account : balance'[x] =
              balance[x] + (IF x = Funder THEN balance[a] ELSE 0)
                         - (IF x = a THEN balance[a] ELSE 0)
    BY <1>7 DEF Withdraw, Transfer, tokenFrame, registryVars, submissionVars,
                contentVars
  <2>2. \A k \in Author : balance[k] \in Nat /\ k # Funder /\ k # a
    BY <1>1
  <2>3. \A k \in Author : balance'[k] = balance[k]
    BY <1>1, <2>1, <2>2
  <2> QED
    BY <2>1, <2>3, HiddenLife
<1>8. ASSUME UNCHANGED vars PROVE UNCHANGED Lifecycle!lifecycleVars
  BY <1>8, HiddenLife DEF vars, registryVars, submissionVars, contentVars,
                          tokenVars
<1> QED
  BY <1>2, <1>3, <1>4, <1>5, <1>6, <1>7, <1>8, SubmitManuscriptLife,
     ReviseManuscriptLife, PayPublicationFeeLife, FundAuthorLife,
     ApproveFeeLife DEF Next

(***************************************************************************)
(* The contracts implement the lifecycle the web client relies on: to the  *)
(* holder of a submission key every manuscript moves by its own signature  *)
(* or payment of exactly one fee, or by one decision of others, and no     *)
(* other transaction touches its nonce, balance or allowance.              *)
(***************************************************************************)
THEOREM LifecycleImplemented == Spec => ImplementsLifecycle
<1>1. Init => Lifecycle!LifecycleInit
  BY InitLifecycle
<1>2. (TypeOK /\ LifeInv) /\ (TypeOK /\ LifeInv)' /\ [Next]_vars
        => [Lifecycle!LifecycleNext]_(Lifecycle!lifecycleVars)
  BY StepLife
<1> QED
  BY <1>1, <1>2, AlwaysLife, PTL
  DEF Spec, ImplementsLifecycle, Lifecycle!LifecycleSpec
=============================================================================
