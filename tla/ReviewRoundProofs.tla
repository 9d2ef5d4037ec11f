-------------------------- MODULE ReviewRoundProofs --------------------------
(***************************************************************************)
(* Theorems about the rounds of PublicationRegistry: the counters agree    *)
(* with the reviews logged, a panel can always finish, and the majority    *)
(* decides.                                                                *)
(***************************************************************************)
EXTENDS PublicationRegistryProofs

(***************************************************************************)
(* The round of one manuscript.  A panel repeats nobody; flags, counters   *)
(* and logged reviews agree; the count falls short of the panel until the  *)
(* decision; and the decision is the majority's.                           *)
(***************************************************************************)
Tallied(m) ==
  /\ hasReviewed[m] = VotersIn(m)
  /\ hasReviewed[m] \subseteq Range(reviewers[m])
  /\ reviewCount[m] = Cardinality(hasReviewed[m])
  /\ \A v \in Verdict : verdictCount[m][v] = Cardinality(VotesIn(m, v))
Waiting(m) ==
  status[m] = "UNDER_REVIEW" /\ reviewers[m] # <<>>
    => reviewCount[m] < Len(reviewers[m])
Decided(m) ==
  /\ status[m] \in {"ACCEPTED", "PUBLISHED"} =>
       PanelComplete(m) /\ Majority(m, "ACCEPT")
  /\ status[m] = "REJECTED" /\ VotersIn(m) # {} =>
       PanelComplete(m) /\ Majority(m, "REJECT")
  /\ status[m] = "REVISION_REQUESTED" =>
       /\ PanelComplete(m)
       /\ ~ Majority(m, "ACCEPT")
       /\ ~ Majority(m, "REJECT")
RoundInv(m) ==
  IsInjective(reviewers[m]) /\ Tallied(m) /\ Waiting(m) /\ Decided(m)

(* Reviews are logged for manuscripts there are, in rounds already begun.  *)
EventInv ==
  /\ IsFiniteSet(reviewEvents)
  /\ \A e \in reviewEvents : /\ status[e.msId] # "SUBMITTED"
                             /\ e.version <= version[e.msId]

RoundsInv == EventInv /\ \A m \in ManuscriptId : RoundInv(m)

(***************************************************************************)
(* Panels as sets: a list that repeats nobody has as many members as       *)
(* entries.                                                                *)
(***************************************************************************)
LEMMA PanelSize ==
  ASSUME NEW list \in Seq(Address), IsInjective(list)
  PROVE  /\ IsFiniteSet(Range(list))
         /\ Cardinality(Range(list)) = Len(list)
         /\ Len(list) \in Nat
         /\ Range(list) \subseteq Address
<1>1. Len(list) \in Nat /\ DOMAIN list = 1 .. Len(list)
      /\ \A i \in 1 .. Len(list) : list[i] \in Address
  OBVIOUS
<1>2. list \in [1 .. Len(list) -> Range(list)]
  BY <1>1 DEF Range
<1>3. list \in Surjection(1 .. Len(list), Range(list))
  BY <1>1, <1>2 DEF Surjection, Range
<1>4. list \in Injection(1 .. Len(list), Range(list))
  BY <1>2 DEF Injection
<1>5. IsFiniteSet(1 .. Len(list)) /\ Cardinality(1 .. Len(list)) = Len(list)
  <2>1. 1 \in Int /\ Len(list) \in Int
    BY <1>1
  <2>2. /\ IsFiniteSet(1 .. Len(list))
        /\ Cardinality(1 .. Len(list))
             = IF 1 > Len(list) THEN 0 ELSE Len(list) - 1 + 1
    BY <2>1, FS_Interval
  <2> QED
    BY <1>1, <2>2
<1>6. IsFiniteSet(Range(list)) /\ Cardinality(Range(list)) = Len(list)
  BY <1>3, <1>4, <1>5, FS_Surjection
<1> QED
  BY <1>1, <1>6 DEF Range

LEMMA EmptyPanel == Range(<<>>) = {} /\ IsInjective(<<>>) /\ Len(<<>>) = 0
BY DEF Range, IsInjective

(* A tallied round with a complete count has everybody's review.           *)
LEMMA VotersFinite ==
  ASSUME TypeOK, NEW m \in ManuscriptId, IsInjective(reviewers[m]), Tallied(m)
  PROVE  /\ IsFiniteSet(hasReviewed[m])
         /\ Cardinality(hasReviewed[m]) \in Nat
         /\ Cardinality(hasReviewed[m]) <= Len(reviewers[m])
         /\ Cardinality(hasReviewed[m]) = Len(reviewers[m])
              => hasReviewed[m] = Range(reviewers[m])
         /\ Cardinality(Range(reviewers[m]) \ hasReviewed[m])
              = Len(reviewers[m]) - Cardinality(hasReviewed[m])
<1>1. reviewers[m] \in Seq(Address)
  BY DEF TypeOK
<1>2. /\ IsFiniteSet(Range(reviewers[m]))
      /\ Cardinality(Range(reviewers[m])) = Len(reviewers[m])
  BY <1>1, PanelSize
<1>3. hasReviewed[m] \in SUBSET Range(reviewers[m])
  BY DEF Tallied
<1>4. Range(reviewers[m]) \cap hasReviewed[m] = hasReviewed[m]
  BY <1>3
<1>5. IsFiniteSet(hasReviewed[m])
  BY <1>2, <1>3, FS_Subset
<1>6. /\ Cardinality(hasReviewed[m]) <= Cardinality(Range(reviewers[m]))
      /\ Cardinality(Range(reviewers[m])) = Cardinality(hasReviewed[m])
           => Range(reviewers[m]) = hasReviewed[m]
  BY <1>2, <1>3, FS_Subset
<1>7. Cardinality(Range(reviewers[m]) \ hasReviewed[m])
        = Cardinality(Range(reviewers[m])) - Cardinality(hasReviewed[m])
  <2>1. Cardinality(Range(reviewers[m]) \ hasReviewed[m])
          = Cardinality(Range(reviewers[m]))
              - Cardinality(Range(reviewers[m]) \cap hasReviewed[m])
    BY <1>2, FS_Difference
  <2> QED
    BY <1>4, <2>1
<1> QED
  BY <1>2, <1>5, <1>6, <1>7, FS_CardinalityType

LEMMA RoundsImply ==
  TypeOK /\ RoundsInv => /\ TallyMatchesReviews
                         /\ PanelCanFinish
                         /\ DecisionIsMajoritys
<1> SUFFICES ASSUME TypeOK, RoundsInv
             PROVE  /\ TallyMatchesReviews
                    /\ PanelCanFinish
                    /\ DecisionIsMajoritys
  OBVIOUS
<1>1. TallyMatchesReviews
  BY DEF RoundsInv, RoundInv, Tallied, TallyMatchesReviews
<1>2. PanelCanFinish
  BY VotersFinite DEF RoundsInv, RoundInv, Waiting, Tallied, PanelCanFinish
<1>3. DecisionIsMajoritys
  BY DEF RoundsInv, RoundInv, Decided, DecisionIsMajoritys
<1> QED
  BY <1>1, <1>2, <1>3

LEMMA InitRounds == Init => RoundsInv
<1> SUFFICES ASSUME Init PROVE RoundsInv
  OBVIOUS
<1>1. EventInv
  BY FS_EmptySet DEF Init, RegistryInit, EventInv
<1>2. ASSUME NEW m \in ManuscriptId PROVE RoundInv(m)
  <2>1. /\ reviewers[m] = <<>> /\ hasReviewed[m] = {} /\ reviewCount[m] = 0
        /\ status[m] = "SUBMITTED"
        /\ \A v \in Verdict : verdictCount[m][v] = 0
    BY DEF Init, RegistryInit, NoVotes
  <2>2. VotersIn(m) = {} /\ \A v \in Verdict : VotesIn(m, v) = {}
    BY DEF Init, RegistryInit, VotersIn, VotesIn
  <2> QED
    BY <2>1, <2>2, EmptyPanel, FS_EmptySet
    DEF RoundInv, Tallied, Waiting, Decided
<1> QED
  BY <1>1, <1>2 DEF RoundsInv

(***************************************************************************)
(* Frames.  A manuscript a transaction is not about keeps its round.       *)
(***************************************************************************)
SameVotes(k) ==
  /\ version'[k] = version[k]
  /\ \A e \in reviewEvents \cup reviewEvents' :
       e.msId = k => (e \in reviewEvents' <=> e \in reviewEvents)

LEMMA VotesKept ==
  ASSUME NEW k \in ManuscriptId, SameVotes(k)
  PROVE  /\ VotersIn(k)' = VotersIn(k)
         /\ \A v \in Verdict : VotesIn(k, v)' = VotesIn(k, v)
BY DEF SameVotes, VotersIn, VotesIn

SameRound(k) ==
  /\ SameVotes(k)
  /\ reviewers'[k] = reviewers[k]
  /\ hasReviewed'[k] = hasReviewed[k]
  /\ reviewCount'[k] = reviewCount[k]
  /\ verdictCount'[k] = verdictCount[k]

LEMMA RoundKept ==
  ASSUME NEW k \in ManuscriptId, RoundInv(k), SameRound(k),
         Waiting(k)', Decided(k)'
  PROVE  RoundInv(k)'
<1>1. Tallied(k)'
  BY VotesKept DEF RoundInv, SameRound, Tallied
<1> QED
  BY <1>1 DEF RoundInv, SameRound

LEMMA OtherRoundKept ==
  ASSUME NEW k \in ManuscriptId, RoundInv(k), SameRound(k),
         status'[k] = status[k]
  PROVE  RoundInv(k)'
<1>1. Waiting(k)'
  BY DEF RoundInv, SameRound, Waiting
<1>2. Decided(k)'
  BY VotesKept
  DEF RoundInv, SameRound, Decided, PanelComplete, Majority, Verdict
<1> QED
  BY <1>1, <1>2, RoundKept

(***************************************************************************)
(* The transactions.                                                       *)
(***************************************************************************)

(* Where there is no panel nobody has voted in this round.                 *)
LEMMA NoPanelNoVotes ==
  ASSUME TypeOK, NEW m \in ManuscriptId, RoundInv(m), reviewers[m] = <<>>
  PROVE  /\ hasReviewed[m] = {} /\ VotersIn(m) = {} /\ reviewCount[m] = 0
         /\ \A v \in Verdict : VotesIn(m, v) = {} /\ verdictCount[m][v] = 0
<1>1. hasReviewed[m] = {} /\ VotersIn(m) = {}
  BY EmptyPanel DEF RoundInv, Tallied
<1>2. ASSUME NEW v \in Verdict PROVE VotesIn(m, v) = {}
  <2>1. \A e \in VotesIn(m, v) : e.reviewer \in VotersIn(m)
    BY DEF VotersIn, VotesIn
  <2> QED
    BY <1>1, <2>1
<1>3. reviewCount[m] = 0
  <2>1. reviewCount[m] = Cardinality(hasReviewed[m])
    BY DEF RoundInv, Tallied
  <2> QED
    BY <1>1, <2>1, FS_EmptySet
<1>4. ASSUME NEW v \in Verdict PROVE verdictCount[m][v] = 0
  <2>1. Cardinality(VotesIn(m, v)) = 0
    BY <1>2, FS_EmptySet
  <2> QED
    BY <2>1 DEF RoundInv, Tallied
<1> QED
  BY <1>1, <1>2, <1>3, <1>4

(* Steps that add no review and take no manuscript away.                   *)
LEMMA EventsKept ==
  ASSUME EventInv, UNCHANGED reviewEvents,
         \A e \in reviewEvents :
           /\ status'[e.msId] # "SUBMITTED"
           /\ version'[e.msId] = version[e.msId]
  PROVE  EventInv'
BY DEF EventInv

LEMMA SubmitManuscriptRounds ==
  ASSUME TypeOK, RequestInv, RoundsInv, NEW a \in Author, NEW c \in Cid,
         NEW n \in Nonce, SubmitManuscript(a, c, n)
  PROVE  RoundsInv'
<1>0. nextManuscriptId \in ManuscriptId
      /\ ~ (nextManuscriptId < nextManuscriptId)
  BY Identifiers DEF TypeOK, SubmitManuscript
<1> SUFFICES ASSUME NEW m \in ManuscriptId, m = nextManuscriptId
             PROVE  RoundsInv'
  BY <1>0
<1>1. m \in ManuscriptId /\ ~ (m < nextManuscriptId)
  BY <1>0
<1>2. status[m] = "SUBMITTED" /\ reviewers[m] = <<>>
  BY <1>1 DEF RequestInv, StatusOnceSubmitted, NoPanelYet, Exists
<1>3. /\ status' = [status EXCEPT ![m] = "CHECKING"]
      /\ version' = [version EXCEPT ![m] = 1]
      /\ UNCHANGED <<reviewers, hasReviewed, reviewCount, verdictCount,
                     reviewEvents>>
  BY DEF SubmitManuscript, reviewVars
<1>4. status \in [ManuscriptId -> Status] /\ version \in [ManuscriptId -> Nat]
      /\ \A e \in reviewEvents : e.msId \in ManuscriptId
  BY DEF TypeOK, ReviewEvent
<1>5. \A e \in reviewEvents : e.msId # m
  BY <1>2 DEF RoundsInv, EventInv
<1>6. EventInv'
  BY <1>3, <1>4, <1>5, EventsKept DEF RoundsInv, EventInv
<1>7. ASSUME NEW k \in ManuscriptId, k # m PROVE RoundInv(k)'
  BY <1>3, <1>4, <1>7, OtherRoundKept DEF RoundsInv, SameRound, SameVotes
<1>8. RoundInv(m)'
  <2>1. /\ hasReviewed[m] = {} /\ VotersIn(m) = {} /\ reviewCount[m] = 0
        /\ \A v \in Verdict : VotesIn(m, v) = {} /\ verdictCount[m][v] = 0
    BY <1>1, <1>2, NoPanelNoVotes DEF RoundsInv
  <2>2. VotersIn(m)' = {} /\ \A v \in Verdict : VotesIn(m, v)' = {}
    BY <1>3, <1>5 DEF VotersIn, VotesIn
  <2>3. status'[m] = "CHECKING" /\ reviewers'[m] = <<>>
    BY <1>1, <1>2, <1>3, <1>4
  <2> QED
    BY <1>3, <2>1, <2>2, <2>3, EmptyPanel, FS_EmptySet
    DEF RoundInv, Tallied, Waiting, Decided
<1> QED
  BY <1>6, <1>7, <1>8 DEF RoundsInv

(* A move of one manuscript's status before there is a panel.              *)
LEMMA EarlyMoveRounds ==
  ASSUME TypeOK, RequestInv, RoundsInv, NEW m \in ManuscriptId,
         status[m] \in {"CHECKING", "PENDING_EDITOR"},
         NEW to, to \in {"REJECTED", "PENDING_EDITOR", "UNDER_REVIEW"},
         status' = [status EXCEPT ![m] = to],
         UNCHANGED <<version, reviewers, hasReviewed, reviewCount,
                     verdictCount, reviewEvents>>
  PROVE  RoundsInv'
<1>1. status \in [ManuscriptId -> Status]
      /\ \A e \in reviewEvents : e.msId \in ManuscriptId
  BY DEF TypeOK, ReviewEvent
<1>2. EventInv'
  BY <1>1, EventsKept DEF RoundsInv, EventInv
<1>3. ASSUME NEW k \in ManuscriptId, k # m PROVE RoundInv(k)'
  BY <1>1, <1>3, OtherRoundKept DEF RoundsInv, SameRound, SameVotes
<1>4. RoundInv(m)'
  <2>1. reviewers[m] = <<>>
    BY DEF RequestInv, NoPanelYet
  <2>2. VotersIn(m) = {} /\ status'[m] = to
    BY <1>1, <2>1, NoPanelNoVotes DEF RoundsInv
  <2>3. SameRound(m)
    BY DEF SameRound, SameVotes
  <2>4. Waiting(m)'
    BY <2>1 DEF Waiting
  <2>5. VotersIn(m)' = {}
    BY <2>2, <2>3, VotesKept DEF SameRound
  <2>6. Decided(m)'
    BY <2>2, <2>5 DEF Decided
  <2> QED
    BY <2>3, <2>4, <2>6, RoundKept DEF RoundsInv
<1> QED
  BY <1>2, <1>3, <1>4 DEF RoundsInv

(* The panel arrives: it is the first of the round.                        *)
LEMMA AnswerReviewerSelectionRounds ==
  ASSUME TypeOK, RequestInv, RoundsInv, NEW id \in RequestId,
         NEW list \in ReviewerLists, AnswerReviewerSelection(id, list)
  PROVE  RoundsInv'
<1>1. reviewerRequestToMs[id] \in ManuscriptId
  BY DEF TypeOK, OracleTypeOK
<1> SUFFICES ASSUME NEW m \in ManuscriptId, m = reviewerRequestToMs[id]
             PROVE  RoundsInv'
  BY <1>1
<1>2. id \in OpenReviewerRequests(m)
  BY DEF AnswerReviewerSelection, FulfillReviewerSelection,
         OpenReviewerRequests
<1>3. reviewers[m] = <<>> /\ status[m] = "UNDER_REVIEW"
  BY <1>1, <1>2 DEF RequestInv, RequestsMatchStatus, Unanswered
<1>4. /\ reviewers' = [reviewers EXCEPT ![m] = list]
      /\ UNCHANGED <<status, version, hasReviewed, reviewCount, verdictCount,
                     reviewEvents>>
      /\ Len(list) >= 3
  BY DEF AnswerReviewerSelection, FulfillReviewerSelection,
         FulfillRandomReviewers, contentVars
<1>5. reviewers \in [ManuscriptId -> Seq(Address)]
  BY DEF TypeOK
<1>6. IsInjective(list)
  BY DistinctReviewers
<1>7. EventInv'
  BY <1>4 DEF RoundsInv, EventInv
<1>8. ASSUME NEW k \in ManuscriptId, k # m PROVE RoundInv(k)'
  BY <1>4, <1>5, <1>8, OtherRoundKept DEF RoundsInv, SameRound, SameVotes
<1>9. RoundInv(m)'
  <2>1. /\ hasReviewed[m] = {} /\ VotersIn(m) = {} /\ reviewCount[m] = 0
        /\ \A v \in Verdict : VotesIn(m, v) = {} /\ verdictCount[m][v] = 0
    BY <1>1, <1>3, NoPanelNoVotes DEF RoundsInv
  <2>2. VotersIn(m)' = {} /\ \A v \in Verdict : VotesIn(m, v)' = {}
    BY <1>1, <1>4, <2>1, VotesKept DEF SameVotes
  <2>3. status'[m] = "UNDER_REVIEW" /\ reviewers'[m] = list
    BY <1>1, <1>3, <1>4, <1>5
  <2>4. Tallied(m)'
    BY <1>4, <2>1, <2>2, FS_EmptySet DEF Tallied
  <2>5. Waiting(m)'
    BY <1>4, <2>1, <2>3 DEF Waiting
  <2> QED
    BY <1>6, <2>3, <2>4, <2>5 DEF RoundInv, Decided
<1> QED
  BY <1>7, <1>8, <1>9 DEF RoundsInv

(* A revision starts a round nobody has voted in.                          *)
LEMMA ReviseManuscriptRounds ==
  ASSUME TypeOK, RequestInv, RoundsInv, NEW m \in ManuscriptId,
         NEW a \in Author, NEW c \in Cid, NEW n \in Nonce,
         ReviseManuscript(m, a, c, n)
  PROVE  RoundsInv'
<1>1. /\ status' = [status EXCEPT ![m] = "CHECKING"]
      /\ version' = [version EXCEPT ![m] = @ + 1]
      /\ reviewers' = [reviewers EXCEPT ![m] = <<>>]
      /\ hasReviewed' = [hasReviewed EXCEPT ![m] = @ \ Range(reviewers[m])]
      /\ reviewCount' = [reviewCount EXCEPT ![m] = 0]
      /\ verdictCount' = [verdictCount EXCEPT ![m] = NoVotes]
      /\ reviewEvents' = reviewEvents
  BY DEF ReviseManuscript, ResetReviewState
<1>2. /\ status \in [ManuscriptId -> Status]
      /\ version \in [ManuscriptId -> Nat]
      /\ reviewers \in [ManuscriptId -> Seq(Address)]
      /\ hasReviewed \in [ManuscriptId -> SUBSET Address]
      /\ reviewCount \in [ManuscriptId -> Nat]
      /\ verdictCount \in [ManuscriptId -> [Verdict -> Nat]]
      /\ \A e \in reviewEvents : e.msId \in ManuscriptId /\ e.version \in Nat
  BY DEF TypeOK, ReviewEvent
<1>3. EventInv'
  <2>1. \A k \in ManuscriptId : version'[k] >= version[k]
          /\ version'[k] \in Nat /\ version[k] \in Nat
          /\ (status[k] # "SUBMITTED" => status'[k] # "SUBMITTED")
    BY <1>1, <1>2
  <2> QED
    BY <1>1, <1>2, <2>1 DEF RoundsInv, EventInv
<1>4. ASSUME NEW k \in ManuscriptId, k # m PROVE RoundInv(k)'
  BY <1>1, <1>2, <1>4, OtherRoundKept DEF RoundsInv, SameRound, SameVotes
<1>5. RoundInv(m)'
  <2>1. /\ status'[m] = "CHECKING" /\ reviewers'[m] = <<>>
        /\ reviewCount'[m] = 0 /\ version'[m] = version[m] + 1
        /\ \A v \in Verdict : verdictCount'[m][v] = 0
    BY <1>1, <1>2 DEF NoVotes
  <2>2. hasReviewed'[m] = {}
    BY <1>1, <1>2 DEF RoundsInv, RoundInv, Tallied
  <2>3. \A e \in reviewEvents : e.msId = m => e.version # version'[m]
    BY <1>2, <2>1 DEF RoundsInv, EventInv
  <2>4. VotersIn(m)' = {} /\ \A v \in Verdict : VotesIn(m, v)' = {}
    BY <1>1, <2>3 DEF VotersIn, VotesIn
  <2> QED
    BY <2>1, <2>2, <2>4, EmptyPanel, FS_EmptySet
    DEF RoundInv, Tallied, Waiting, Decided
<1> QED
  BY <1>3, <1>4, <1>5 DEF RoundsInv

(* What a majority of the counters means, and that verdicts exclude each   *)
(* other in it.                                                            *)
LEMMA DecisionIsMajority ==
  ASSUME NEW votes \in [Verdict -> Nat], NEW n \in Nat
  PROVE  /\ Decision(votes, n) = "ACCEPTED" => 2 * votes["ACCEPT"] > n
         /\ Decision(votes, n) = "REJECTED" => 2 * votes["REJECT"] > n
         /\ Decision(votes, n) = "REVISION_REQUESTED" =>
              ~ (2 * votes["ACCEPT"] > n) /\ ~ (2 * votes["REJECT"] > n)
         /\ Decision(votes, n) \in {"ACCEPTED", "REJECTED", "REVISION_REQUESTED"}
<1>1. votes["ACCEPT"] \in Nat /\ votes["REJECT"] \in Nat
  BY DEF Verdict
<1>2. \A k \in Nat : k >= MajorityOf(n) <=> 2 * k > n
  BY DEF MajorityOf
<1> QED
  BY <1>1, <1>2 DEF Decision

(* A vote: one more voter, one more vote for its verdict.                  *)
LEMMA OneMoreVote ==
  ASSUME IsFiniteSet(reviewEvents), NEW m \in ManuscriptId, NEW a \in Address,
         NEW v \in Verdict, NEW n \in Nonce, SubmitReview(m, a, v, n),
         a \notin VotersIn(m)
  PROVE  /\ VotersIn(m)' = VotersIn(m) \cup {a}
         /\ \A w \in Verdict :
              /\ Cardinality(VotesIn(m, w)') \in Nat
              /\ Cardinality(VotesIn(m, w)')
                   = Cardinality(VotesIn(m, w)) + (IF w = v THEN 1 ELSE 0)
<1> DEFINE e == [msId |-> m, version |-> version[m], reviewer |-> a,
                 verdict |-> v]
<1>1. reviewEvents' = reviewEvents \cup {e} /\ version' = version
  BY DEF SubmitReview, contentVars
<1>3. e.msId = m /\ e.version = version[m] /\ e.reviewer = a /\ e.verdict = v
  OBVIOUS
<1> HIDE DEF e
<1>4. VotersIn(m)' = VotersIn(m) \cup {a}
  BY <1>1, <1>3 DEF VotersIn
<1>5. VotesIn(m, v)' = VotesIn(m, v) \cup {e}
  BY <1>1, <1>3 DEF VotesIn
<1>6. \A w \in Verdict : w # v => VotesIn(m, w)' = VotesIn(m, w)
  BY <1>1, <1>3 DEF VotesIn
<1>7. e \notin VotesIn(m, v)
  BY <1>3 DEF VotesIn, VotersIn
<1>8. \A w \in Verdict : IsFiniteSet(VotesIn(m, w))
                          /\ Cardinality(VotesIn(m, w)) \in Nat
  <2> SUFFICES ASSUME NEW w \in Verdict
               PROVE  IsFiniteSet(VotesIn(m, w))
                      /\ Cardinality(VotesIn(m, w)) \in Nat
    OBVIOUS
  <2>1. VotesIn(m, w) \in SUBSET reviewEvents
    BY DEF VotesIn
  <2>3. IsFiniteSet(VotesIn(m, w))
    BY <2>1, FS_Subset
  <2> QED
    BY <2>3, FS_CardinalityType
<1>9. Cardinality(VotesIn(m, v) \cup {e}) = Cardinality(VotesIn(m, v)) + 1
  BY <1>7, <1>8, FS_AddElement
<1>10. ASSUME NEW w \in Verdict
       PROVE  /\ Cardinality(VotesIn(m, w)') \in Nat
              /\ Cardinality(VotesIn(m, w)')
                   = Cardinality(VotesIn(m, w)) + (IF w = v THEN 1 ELSE 0)
  <2>1. CASE w = v
    <3>1. Cardinality(VotesIn(m, w)') = Cardinality(VotesIn(m, w)) + 1
      BY <1>5, <1>9, <2>1
    <3> QED
      BY <1>8, <2>1, <3>1
  <2>2. CASE w # v
    <3>1. Cardinality(VotesIn(m, w)') = Cardinality(VotesIn(m, w))
      BY <1>6, <2>2
    <3> QED
      BY <1>8, <2>2, <3>1
  <2> QED
    BY <2>1, <2>2
<1> QED
  BY <1>4, <1>10

LEMMA SubmitReviewRounds ==
  ASSUME TypeOK, RequestInv, RoundsInv, NEW m \in ManuscriptId,
         NEW a \in Address, NEW v \in Verdict, NEW n \in Nonce,
         SubmitReview(m, a, v, n)
  PROVE  RoundsInv'
<1> DEFINE len == Len(reviewers[m])
           e == [msId |-> m, version |-> version[m], reviewer |-> a,
                 verdict |-> v]
<1>1. /\ status[m] = "UNDER_REVIEW"
      /\ a \in Range(reviewers[m]) /\ a \notin hasReviewed[m]
      /\ hasReviewed' = [hasReviewed EXCEPT ![m] = @ \cup {a}]
      /\ reviewCount' = [reviewCount EXCEPT ![m] = @ + 1]
      /\ verdictCount' = [verdictCount EXCEPT ![m][v] = @ + 1]
      /\ status' = IF reviewCount'[m] = len
                   THEN [status EXCEPT ![m] = Decision(verdictCount'[m], len)]
                   ELSE status
      /\ reviewEvents' = reviewEvents \cup {e}
      /\ UNCHANGED <<version, reviewers>>
  BY DEF SubmitReview, RequireState, contentVars
<1>2. /\ status \in [ManuscriptId -> Status]
      /\ hasReviewed \in [ManuscriptId -> SUBSET Address]
      /\ reviewCount \in [ManuscriptId -> Nat]
      /\ verdictCount \in [ManuscriptId -> [Verdict -> Nat]]
      /\ version \in [ManuscriptId -> Nat]
      /\ reviewers[m] \in Seq(Address)
      /\ \A x \in reviewEvents : x.msId \in ManuscriptId
  BY DEF TypeOK, ReviewEvent
<1>3. RoundInv(m) /\ IsInjective(reviewers[m]) /\ Tallied(m)
  BY DEF RoundsInv, RoundInv
<1>4. /\ VotersIn(m)' = VotersIn(m) \cup {a}
      /\ \A w \in Verdict :
           Cardinality(VotesIn(m, w)')
             = Cardinality(VotesIn(m, w)) + (IF w = v THEN 1 ELSE 0)
  <2>1. a \notin VotersIn(m) /\ IsFiniteSet(reviewEvents)
    BY <1>1, <1>3 DEF Tallied, RoundsInv, EventInv
  <2> QED
    BY <2>1, OneMoreVote
<1>5. reviewers[m] # <<>> /\ len \in Nat /\ reviewCount[m] < len
  BY <1>1, <1>2, <1>3, EmptyPanel DEF RoundInv, Waiting
<1>6. e.msId = m /\ e.version = version[m]
  OBVIOUS
<1>7. \A k \in ManuscriptId : k # m => status'[k] = status[k]
  BY <1>1, <1>2
<1>8. status'[m] = IF reviewCount[m] + 1 = len
                   THEN Decision(verdictCount'[m], len) ELSE "UNDER_REVIEW"
  BY <1>1, <1>2
<1>9. verdictCount'[m] \in [Verdict -> Nat]
      /\ \A w \in Verdict : verdictCount'[m][w]
                             = verdictCount[m][w] + (IF w = v THEN 1 ELSE 0)
  BY <1>1, <1>2
<1> HIDE DEF len, e
<1>10. EventInv'
  <2>1. IsFiniteSet(reviewEvents')
    BY <1>1, FS_AddElement DEF RoundsInv, EventInv
  <2>2. status'[m] # "SUBMITTED"
    BY <1>8, DecisionType
  <2>3. \A x \in reviewEvents' : status'[x.msId] # "SUBMITTED"
                                 /\ x.version <= version[x.msId]
    <3>1. version[m] <= version[m]
      BY <1>2
    <3> QED
      BY <1>1, <1>2, <1>6, <1>7, <2>2, <3>1 DEF RoundsInv, EventInv
  <2> QED
    BY <1>1, <2>1, <2>3 DEF EventInv
<1>11. ASSUME NEW k \in ManuscriptId, k # m PROVE RoundInv(k)'
  BY <1>1, <1>2, <1>6, <1>7, <1>11, OtherRoundKept
  DEF RoundsInv, SameRound, SameVotes
<1>12. RoundInv(m)'
  <2>1. /\ hasReviewed'[m] = hasReviewed[m] \cup {a}
        /\ reviewCount'[m] = reviewCount[m] + 1 /\ reviewers'[m] = reviewers[m]
    BY <1>1, <1>2
  <2>2. IsFiniteSet(hasReviewed[m])
    BY <1>3, VotersFinite
  <2>3. Cardinality(hasReviewed'[m]) = Cardinality(hasReviewed[m]) + 1
    BY <1>1, <2>1, <2>2, FS_AddElement
  <2>4. Tallied(m)'
    <3>1. hasReviewed'[m] = VotersIn(m)' /\ hasReviewed'[m] \subseteq Range(reviewers[m])
      BY <1>1, <1>3, <1>4, <2>1 DEF Tallied
    <3>2. reviewCount'[m] = Cardinality(hasReviewed'[m])
      BY <1>3, <2>1, <2>3 DEF Tallied
    <3>3. \A w \in Verdict : verdictCount'[m][w] = Cardinality(VotesIn(m, w)')
      BY <1>3, <1>4, <1>9 DEF Tallied
    <3> QED
      BY <1>1, <3>1, <3>2, <3>3 DEF Tallied
  <2>5. Waiting(m)'
    <3>1. reviewCount[m] \in Nat
      BY <1>2
    <3> QED
      BY <1>5, <1>8, <2>1, <3>1, DecisionType DEF Waiting, len
  <2>6. Decided(m)'
    <3>1. CASE reviewCount[m] + 1 # len
      BY <1>8, <3>1 DEF Decided
    <3>2. CASE reviewCount[m] + 1 = len
      <4>1. /\ IsFiniteSet(Range(reviewers[m]))
            /\ Cardinality(Range(reviewers[m])) = len
        BY <1>2, <1>3, PanelSize DEF len
      <4>2. hasReviewed'[m] \in SUBSET Range(reviewers[m])
            /\ Cardinality(hasReviewed'[m]) = len
            /\ VotersIn(m)' = hasReviewed'[m]
        BY <1>1, <2>1, <2>4, <3>2 DEF Tallied
      <4>3. VotersIn(m)' = Range(reviewers[m])
        BY <4>1, <4>2, FS_Subset
      <4>4. PanelComplete(m)'
        BY <1>1, <1>5, <4>3 DEF PanelComplete
      <4>5. \A w \in Verdict :
              verdictCount'[m][w] = Cardinality(VotesIn(m, w)')
        BY <2>4 DEF Tallied
      <4>6. /\ Majority(m, "ACCEPT")' <=> 2 * verdictCount'[m]["ACCEPT"] > len
            /\ Majority(m, "REJECT")' <=> 2 * verdictCount'[m]["REJECT"] > len
        BY <2>1, <4>5 DEF Majority, Verdict, len
      <4>7. status'[m] = Decision(verdictCount'[m], len)
        BY <1>8, <3>2
      <4> QED
        BY <1>5, <1>9, <4>4, <4>6, <4>7, DecisionIsMajority DEF Decided
    <3> QED
      BY <3>1, <3>2
  <2> QED
    BY <1>3, <2>1, <2>4, <2>5, <2>6 DEF RoundInv
<1> QED
  BY <1>10, <1>11, <1>12 DEF RoundsInv

LEMMA PayPublicationFeeRounds ==
  ASSUME TypeOK, RoundsInv, NEW m \in ManuscriptId, NEW a \in Author,
         PayPublicationFee(m, a)
  PROVE  RoundsInv'
<1>1. /\ status[m] = "ACCEPTED"
      /\ status' = [status EXCEPT ![m] = "PUBLISHED"]
      /\ UNCHANGED <<version, reviewers, hasReviewed, reviewCount,
                     verdictCount, reviewEvents>>
  BY DEF PayPublicationFee, RequireState, contentVars, reviewVars
<1>2. status \in [ManuscriptId -> Status]
      /\ \A e \in reviewEvents : e.msId \in ManuscriptId
  BY DEF TypeOK, ReviewEvent
<1>3. EventInv'
  BY <1>1, <1>2, EventsKept DEF RoundsInv, EventInv
<1>4. ASSUME NEW k \in ManuscriptId, k # m PROVE RoundInv(k)'
  BY <1>1, <1>2, <1>4, OtherRoundKept DEF RoundsInv, SameRound, SameVotes
<1>5. RoundInv(m)'
  <2>1. SameRound(m) /\ status'[m] = "PUBLISHED"
    BY <1>1, <1>2 DEF SameRound, SameVotes
  <2>2. PanelComplete(m) /\ Majority(m, "ACCEPT")
    BY <1>1 DEF RoundsInv, RoundInv, Decided
  <2>3. VotersIn(m)' = VotersIn(m) /\ VotesIn(m, "ACCEPT")' = VotesIn(m, "ACCEPT")
    BY <2>1, VotesKept DEF SameRound, Verdict
  <2>4. PanelComplete(m)' /\ Majority(m, "ACCEPT")'
    BY <1>1, <2>2, <2>3 DEF PanelComplete, Majority
  <2>5. Decided(m)' /\ Waiting(m)'
    BY <2>1, <2>4 DEF Decided, Waiting
  <2> QED
    BY <2>1, <2>5, RoundKept DEF RoundsInv
<1> QED
  BY <1>3, <1>4, <1>5 DEF RoundsInv

LEMMA QuietRounds ==
  ASSUME TypeOK, RoundsInv, UNCHANGED <<registryVars, reviewEvents>>
  PROVE  RoundsInv'
<1>1. UNCHANGED <<status, version, reviewers, hasReviewed, reviewCount,
                  verdictCount, reviewEvents>>
  BY DEF registryVars, contentVars, reviewVars
<1>2. EventInv'
  BY <1>1 DEF RoundsInv, EventInv
<1>3. ASSUME NEW k \in ManuscriptId PROVE RoundInv(k)'
  BY <1>1, OtherRoundKept DEF RoundsInv, SameRound, SameVotes
<1> QED
  BY <1>2, <1>3 DEF RoundsInv

LEMMA NextRounds ==
  ASSUME TypeOK, RequestInv, RoundsInv, [Next]_vars
  PROVE  RoundsInv'
<1>1. ASSUME NEW id \in RequestId, NEW s \in Score, AnswerPlagiarismCheck(id, s)
      PROVE  RoundsInv'
  <2>1. plagiarismRequestToMs[id] \in ManuscriptId
    BY DEF TypeOK, OracleTypeOK
  <2> SUFFICES ASSUME NEW m \in ManuscriptId, m = plagiarismRequestToMs[id]
               PROVE  RoundsInv'
    BY <2>1
  <2> DEFINE to == IF Exceeds(s) THEN "REJECTED" ELSE "PENDING_EDITOR"
  <2>2. /\ status[m] = "CHECKING"
        /\ status' = [status EXCEPT ![m] = to]
        /\ UNCHANGED <<version, reviewers, hasReviewed, reviewCount,
                       verdictCount, reviewEvents>>
    BY <1>1 DEF AnswerPlagiarismCheck, FulfillPlagiarism, RequireState,
                contentVars, reviewVars
  <2> QED
    BY <2>2, EarlyMoveRounds
<1>2. ASSUME NEW m \in ManuscriptId, NEW approve \in BOOLEAN, NEW f \in Field,
             SubmitEditorReview(m, approve, f)
      PROVE  RoundsInv'
  <2> DEFINE to == IF approve THEN "UNDER_REVIEW" ELSE "REJECTED"
  <2>1. /\ status[m] = "PENDING_EDITOR"
        /\ status' = [status EXCEPT ![m] = to]
        /\ UNCHANGED <<version, reviewers, hasReviewed, reviewCount,
                       verdictCount, reviewEvents>>
    BY <1>2 DEF SubmitEditorReview, RequireState, contentVars, reviewVars
  <2> QED
    BY <2>1, EarlyMoveRounds
<1>3. ASSUME NEW a, FundAuthor(a) \/ ApproveFee(a) \/ Withdraw(a)
      PROVE  RoundsInv'
  BY <1>3, QuietRounds DEF FundAuthor, ApproveFee, Withdraw, tokenFrame
<1>4. ASSUME UNCHANGED vars PROVE RoundsInv'
  BY <1>4, QuietRounds DEF vars
<1> QED
  BY <1>1, <1>2, <1>3, <1>4, SubmitManuscriptRounds,
     AnswerReviewerSelectionRounds, SubmitReviewRounds,
     ReviseManuscriptRounds, PayPublicationFeeRounds DEF Next

LEMMA AlwaysRounds == Spec => [](TypeOK /\ RoundsInv)
BY InitRounds, NextRounds, TypeCorrect, RequestInvariant, PTL DEF Spec

(***************************************************************************)
(* The counters a decision is taken on are the reviews logged for the      *)
(* current round: no flag or vote outlives its round, none is lost.        *)
(***************************************************************************)
THEOREM TallyCorrect == Spec => []TallyMatchesReviews
BY AlwaysRounds, RoundsImply, PTL

(***************************************************************************)
(* A panel of any odd size can finish: as many members may still vote as   *)
(* votes are missing, because a panel repeats nobody and keeps no flag of  *)
(* an earlier round.                                                       *)
(***************************************************************************)
THEOREM PanelsCanFinish == Spec => []PanelCanFinish
BY AlwaysRounds, RoundsImply, PTL

(***************************************************************************)
(* Accepted, rejected after review, or sent back: each is what more than   *)
(* half of a complete panel voted, or that there was no such half.         *)
(***************************************************************************)
THEOREM MajorityDecides == Spec => []DecisionIsMajoritys
BY AlwaysRounds, RoundsImply, PTL
=============================================================================
