--------------------------- MODULE OperatorProofs ---------------------------
(***************************************************************************)
(* Theorems about OracleOperator, for any number of requests, handlers,    *)
(* crashes, verified reviewers and generated keys.                         *)
(***************************************************************************)
EXTENDS OracleOperator, PublicationRegistryProofs, SequenceTheorems

(***************************************************************************)
(* Types.  What has been prepared for a request is an answer to it.        *)
(***************************************************************************)
Position == {"querying", "working", "sending", "waiting"}
AnswerValue == Seq(Address) \cup Seq(Score)
Invocation == [pc : Position, request : Request, answer : AnswerValue]

(* The lists the backend can mint: as many different keys as it selects    *)
(* reviewers, none of them a key authors submit with.                      *)
MintedPanels ==
  {list \in Seq(Address \ Author) : IsInjective(list) /\ Len(list) = Count}
Answers(r, a) == IF r.kind = "plagiarism" THEN \E s \in Score : a = <<s>>
                 ELSE a \in MintedPanels
PanelsMinted ==
  \A m \in ManuscriptId : reviewers[m] = <<>> \/ reviewers[m] \in MintedPanels

OperatorTyped ==
  /\ events \subseteq Request
  /\ handlers \in [Handler -> Invocation \cup {Idle}]
  /\ inflight \subseteq Request
  /\ mempool \subseteq [request : Request, answer : AnswerValue]
  /\ dropped \subseteq Request
  /\ sessions \in [ManuscriptId -> [Wallet -> Address \cup {NoKey}]]
  /\ nextKey \in 1 .. Len(GeneratedKeys) + 1
  /\ redeliveries \in Nat
Prepared ==
  /\ \A h \in Handler : Runs(h, "sending") \/ Runs(h, "waiting") =>
       Answers(handlers[h].request, handlers[h].answer)
  /\ \A tx \in mempool : Answers(tx.request, tx.answer)

(***************************************************************************)
(* The operator only works on requests that were made.  One in an inflight *)
(* set has a handler, and one whose answer is waited for has its answer    *)
(* broadcast, is answered, or was given up on.                             *)
(***************************************************************************)
OfChain ==
  /\ \A r \in events : Emitted(r)
  /\ \A h \in Handler : handlers[h] # Idle => Emitted(handlers[h].request)
  /\ \A tx \in mempool : Emitted(tx.request)
Followed ==
  /\ \A r \in inflight : \E h \in InvocationsOf(r) : ~ Runs(h, "querying")
  /\ \A h \in Handler : Runs(h, "waiting") =>
       \/ Answer(h) \in mempool
       \/ Answered(handlers[h].request)
       \/ handlers[h].request \in dropped
FieldsAssigned ==
  \A id \in RequestId :
    id < nextReviewerRequestId => field[reviewerRequestToMs[id]] \in Field

(***************************************************************************)
(* As long as no event has been delivered twice, a request is in one place *)
(* only and still open there, so the keys minted for it are the last ones  *)
(* minted for its manuscript.                                              *)
(***************************************************************************)
Pending(r) ==
  Open(r) /\ \A tx \in mempool : tx.request # r
KeysOnRecord(m) == {sessions[m][w] : w \in Wallet}
KeysAfter(m) == {sessions'[m][w] : w \in Wallet}
InOnePlace ==
  /\ \A r \in events : Pending(r) /\ InvocationsOf(r) = {}
  /\ \A h, g \in Handler :
       handlers[h] # Idle /\ handlers[g] # Idle
         /\ handlers[h].request = handlers[g].request => h = g
  /\ \A h \in Handler : handlers[h] # Idle /\ ~ Runs(h, "waiting") =>
       Pending(handlers[h].request)
  /\ \A tx \in mempool : Open(tx.request)
  /\ \A tx, tx2 \in mempool : tx.request = tx2.request => tx = tx2
MintedLast ==
  /\ \A h \in Handler :
       Runs(h, "sending") /\ handlers[h].request.kind = "reviewers" =>
         Range(handlers[h].answer) \subseteq
           KeysOnRecord(reviewerRequestToMs[handlers[h].request.id])
  /\ \A tx \in mempool : tx.request.kind = "reviewers" =>
       Range(tx.answer) \subseteq
         KeysOnRecord(reviewerRequestToMs[tx.request.id])
OnceInv == redeliveries = 0 => InOnePlace /\ MintedLast /\ PanelKeysKept

ChainInv == TypeOK /\ RequestInv /\ FieldsAssigned /\ PanelsMinted
WorkInv ==
  /\ OperatorTyped /\ Prepared
  /\ OfChain /\ Followed /\ NoRequestForgotten
OperatorInv == ChainInv /\ WorkInv /\ OnceInv
-----------------------------------------------------------------------------
(***************************************************************************)
(* What a step does to the contracts, as far as the operator is concerned. *)
(***************************************************************************)
Same(r) == (Emitted(r)' <=> Emitted(r)) /\ (Answered(r)' <=> Answered(r))
PanelsCalm ==
  \A m \in ManuscriptId : status'[m] = "UNDER_REVIEW" =>
    \/ status[m] = "UNDER_REVIEW" /\ reviewers'[m] = reviewers[m]
    \/ reviewers'[m] = <<>>
ManuscriptsKept ==
  \A id \in RequestId :
    id < nextReviewerRequestId => reviewerRequestToMs'[id] = reviewerRequestToMs[id]

(* A request is made: the one that is emitted, and no other changes.       *)
Requested(new) ==
  /\ ~ Emitted(new) /\ Emitted(new)' /\ ~ Answered(new)'
  /\ \A r \in Request : r # new => Same(r)
  /\ ManuscriptsKept

LEMMA RequestIds ==
  /\ \A r \in Request : r.id \in RequestId /\ r.kind \in {"plagiarism", "reviewers"}
  /\ \A id \in RequestId : PlagiarismRequest(id) \in Request
                           /\ ReviewersRequest(id) \in Request
  /\ \A r \in Request : r = IF r.kind = "plagiarism" THEN PlagiarismRequest(r.id)
                            ELSE ReviewersRequest(r.id)
BY DEF Request, PlagiarismRequest, ReviewersRequest

LEMMA PlagiarismRequested ==
  ASSUME TypeOK, UnusedIsBlank, NEW m, NEW c, RequestPlagiarismCheck(m, c)
  PROVE  \E new \in Request : /\ new = PlagiarismRequest(nextPlagiarismRequestId)
                              /\ Requested(new)
<1> DEFINE id == nextPlagiarismRequestId
<1> USE Identifiers
<1>1. id \in RequestId /\ id \in Nat /\ id' = id + 1
  BY DEF TypeOK, OracleTypeOK, RequestPlagiarismCheck
<1>2. PICK new \in Request : new = PlagiarismRequest(id)
  BY <1>1, RequestIds
<1>3. new.kind = "plagiarism" /\ new.id = id
  BY <1>2 DEF PlagiarismRequest
<1>4. UNCHANGED <<plagiarismRequestFulfilled, nextReviewerRequestId,
                  reviewerRequestToMs, reviewerRequestFulfilled>>
  BY DEF RequestPlagiarismCheck, reviewerVars
<1>5. ~ plagiarismRequestFulfilled[id] /\ ~ (id < id) /\ id < id'
  BY <1>1 DEF UnusedIsBlank
<1>6. ASSUME NEW r \in Request, r # new
      PROVE  Same(r)
  <2>1. r.kind = "plagiarism" => r.id \in Nat /\ r.id # id
    BY <1>2, <1>6, RequestIds
  <2>2. r.kind = "plagiarism" => (r.id < id' <=> r.id < id)
    BY <1>1, <2>1
  <2> QED
    BY <1>4, <2>2 DEF Same, Emitted, Answered
<1>7. ~ Emitted(new) /\ Emitted(new)' /\ ~ Answered(new)'
  BY <1>3, <1>4, <1>5 DEF Emitted, Answered
<1> QED
  BY <1>2, <1>4, <1>6, <1>7 DEF Requested, ManuscriptsKept

LEMMA ReviewersRequested ==
  ASSUME TypeOK, UnusedIsBlank, NEW m \in ManuscriptId, RequestRandomReviewers(m)
  PROVE  \E new \in Request : /\ new = ReviewersRequest(nextReviewerRequestId)
                              /\ Requested(new)
<1> DEFINE id == nextReviewerRequestId
<1> USE Identifiers
<1>1. id \in RequestId /\ id \in Nat /\ id' = id + 1
  BY DEF TypeOK, OracleTypeOK, RequestRandomReviewers
<1>2. PICK new \in Request : new = ReviewersRequest(id)
  BY <1>1, RequestIds
<1>3. new.kind = "reviewers" /\ new.id = id
  BY <1>2 DEF ReviewersRequest
<1>4. UNCHANGED <<reviewerRequestFulfilled, nextPlagiarismRequestId,
                  plagiarismRequestFulfilled>>
  BY DEF RequestRandomReviewers, plagiarismVars
<1>5. ~ reviewerRequestFulfilled[id] /\ ~ (id < id) /\ id < id'
  BY <1>1 DEF UnusedIsBlank
<1>6. ASSUME NEW r \in Request, r # new
      PROVE  Same(r)
  <2>1. r.kind # "plagiarism" => r.id \in Nat /\ r.id # id
    BY <1>2, <1>6, RequestIds
  <2>2. r.kind # "plagiarism" => (r.id < id' <=> r.id < id)
    BY <1>1, <2>1
  <2> QED
    BY <1>4, <2>2 DEF Same, Emitted, Answered
<1>7. ~ Emitted(new) /\ Emitted(new)' /\ ~ Answered(new)'
  BY <1>3, <1>4, <1>5 DEF Emitted, Answered
<1>8. ManuscriptsKept
  BY <1>1 DEF ManuscriptsKept, RequestRandomReviewers, TypeOK, OracleTypeOK
<1> QED
  BY <1>2, <1>6, <1>7, <1>8 DEF Requested

LEMMA PanelsStayMinted ==
  ASSUME PanelsMinted,
         \A m \in ManuscriptId : \/ reviewers'[m] = reviewers[m]
                                 \/ reviewers'[m] = <<>>
                                 \/ reviewers'[m] \in MintedPanels
  PROVE  PanelsMinted'
BY DEF PanelsMinted, MintedPanels

(* Authors and editors make one request, or the editor rejects.            *)
LEMMA AuthorOrEditorChain ==
  ASSUME ChainInv, AuthorOrEditor
  PROVE  /\ ChainInv' /\ PanelsCalm
         /\ \/ \E new \in Request : Requested(new) /\ Emit(new)
            \/ UNCHANGED <<oracleVars, operatorVars>>
<1> USE DEF ChainInv
<1> DEFINE Goal == /\ ChainInv' /\ PanelsCalm
                   /\ \/ \E new \in Request : Requested(new) /\ Emit(new)
                      \/ UNCHANGED <<oracleVars, operatorVars>>
<1>1. ASSUME NEW a \in Author, NEW c \in Cid, NEW n \in Nonce,
             SubmitManuscript(a, c, n),
             Emit(PlagiarismRequest(nextPlagiarismRequestId))
      PROVE  Goal
  <2>1. TypeOK' /\ RequestInv'
    BY <1>1, SubmitManuscriptType, SubmitManuscriptRequests
  <2>2. RequestPlagiarismCheck(nextManuscriptId, c)
    BY <1>1 DEF SubmitManuscript
  <2>3. UNCHANGED <<field, reviewers, nextReviewerRequestId, reviewerRequestToMs>>
    BY <1>1, <2>2
    DEF SubmitManuscript, RequestPlagiarismCheck, reviewVars, reviewerVars
  <2>4. \A m \in ManuscriptId : status'[m] \in {"CHECKING", status[m]}
    BY <1>1 DEF SubmitManuscript, TypeOK
  <2>5. \E new \in Request : Requested(new) /\ Emit(new)
    BY <1>1, <2>2, PlagiarismRequested DEF RequestInv
  <2> QED
    BY <2>1, <2>3, <2>4, <2>5, PanelsStayMinted DEF FieldsAssigned, PanelsCalm
<1>2. ASSUME NEW m \in ManuscriptId, NEW a \in Author, NEW c \in Cid,
             NEW n \in Nonce, ReviseManuscript(m, a, c, n),
             Emit(PlagiarismRequest(nextPlagiarismRequestId))
      PROVE  Goal
  <2>1. TypeOK' /\ RequestInv'
    BY <1>2, ReviseManuscriptType, ReviseManuscriptRequests
  <2>2. RequestPlagiarismCheck(m, c)
    BY <1>2 DEF ReviseManuscript
  <2>3. UNCHANGED <<field, nextReviewerRequestId, reviewerRequestToMs>>
    BY <1>2, <2>2 DEF ReviseManuscript, RequestPlagiarismCheck, reviewerVars
  <2>4. \A k \in ManuscriptId :
          /\ status'[k] \in {"CHECKING", status[k]}
          /\ reviewers'[k] \in {<<>>, reviewers[k]}
    BY <1>2 DEF ReviseManuscript, ResetReviewState, TypeOK
  <2>5. \E new \in Request : Requested(new) /\ Emit(new)
    BY <1>2, <2>2, PlagiarismRequested DEF RequestInv
  <2>6. PanelsMinted'
    BY <2>4, PanelsStayMinted
  <2> QED
    BY <2>1, <2>3, <2>4, <2>5, <2>6 DEF FieldsAssigned, PanelsCalm
<1>3. ASSUME NEW m \in ManuscriptId, NEW f \in Field,
             SubmitEditorReview(m, TRUE, f),
             Emit(ReviewersRequest(nextReviewerRequestId))
      PROVE  Goal
  <2> DEFINE id == nextReviewerRequestId
  <2>1. TypeOK' /\ RequestInv'
    BY <1>3, SubmitEditorReviewType, SubmitEditorReviewRequests
  <2>2. /\ RequestRandomReviewers(m) /\ status[m] = "PENDING_EDITOR"
        /\ status' = [status EXCEPT ![m] = "UNDER_REVIEW"]
        /\ field' = [field EXCEPT ![m] = f]
        /\ UNCHANGED reviewers
    BY <1>3 DEF SubmitEditorReview, RequireState, reviewVars
  <2>3. id \in RequestId /\ id \in Nat /\ id' = id + 1
    BY <2>2, Identifiers DEF TypeOK, OracleTypeOK, RequestRandomReviewers
  <2>4. FieldsAssigned'
    <3> SUFFICES ASSUME NEW i \in RequestId, i < id'
                 PROVE  field'[reviewerRequestToMs'[i]] \in Field
      BY DEF FieldsAssigned
    <3>1. i \in Nat /\ (i = id \/ i < id)
      BY <2>3, Identifiers
    <3>2. /\ reviewerRequestToMs'[i] =
               IF i = id THEN m ELSE reviewerRequestToMs[i]
          /\ reviewerRequestToMs[i] \in ManuscriptId
      BY <2>2, <2>3 DEF RequestRandomReviewers, TypeOK, OracleTypeOK
    <3> QED
      BY <2>2, <3>1, <3>2 DEF FieldsAssigned, TypeOK
  <2>5. reviewers[m] = <<>>
    BY <2>2 DEF RequestInv, NoPanelYet
  <2>6. PanelsCalm
    BY <2>2, <2>5 DEF PanelsCalm, TypeOK
  <2>7. \E new \in Request : Requested(new) /\ Emit(new)
    BY <1>3, <2>2, ReviewersRequested DEF RequestInv
  <2> QED
    BY <2>1, <2>2, <2>4, <2>6, <2>7, PanelsStayMinted
<1>4. ASSUME NEW m \in ManuscriptId, NEW f \in Field,
             SubmitEditorReview(m, FALSE, f), UNCHANGED operatorVars
      PROVE  Goal
  <2>1. TypeOK' /\ RequestInv'
    BY <1>4, SubmitEditorReviewType, SubmitEditorReviewRequests
  <2>2. /\ status' = [status EXCEPT ![m] = "REJECTED"]
        /\ UNCHANGED <<field, oracleVars, reviewers>>
    BY <1>4 DEF SubmitEditorReview, reviewVars
  <2>3. PanelsCalm
    BY <2>2 DEF PanelsCalm, TypeOK
  <2>4. FieldsAssigned'
    BY <2>2 DEF FieldsAssigned, oracleVars, reviewerVars
  <2> QED
    BY <1>4, <2>1, <2>2, <2>3, <2>4, PanelsStayMinted
<1> HIDE DEF Goal
<1>5. Goal
  BY <1>1, <1>2, <1>3, <1>4 DEF AuthorOrEditor
<1> QED
  BY <1>5 DEF Goal

LEMMA VoteChain ==
  ASSUME ChainInv, NEW m \in ManuscriptId, NEW v \in Verdict, NEW n \in Nonce,
         Vote(m, v, n)
  PROVE  /\ ChainInv' /\ PanelsCalm
         /\ UNCHANGED <<oracleVars, operatorVars>>
<1> USE DEF ChainInv
<1>1. PICK a \in Signers(m) : SubmitReview(m, a, v, n)
  BY DEF Vote
<1>2. a \in Address
  <2>1. reviewers[m] \in Seq(Address)
    BY DEF TypeOK
  <2> QED
    BY <2>1 DEF Signers, Range
<1>3. TypeOK' /\ RequestInv'
  BY <1>1, <1>2, SubmitReviewType, SubmitReviewRequests
<1>4. /\ UNCHANGED <<oracleVars, reviewers, field>>
      /\ status[m] = "UNDER_REVIEW"
      /\ \A k \in ManuscriptId : k # m => status'[k] = status[k]
  BY <1>1 DEF SubmitReview, RequireState, TypeOK
<1>5. FieldsAssigned'
  BY <1>4 DEF FieldsAssigned, oracleVars, reviewerVars
<1>6. PanelsCalm
  BY <1>4 DEF PanelsCalm
<1> QED
  BY <1>3, <1>4, <1>5, <1>6, PanelsStayMinted DEF Vote

(***************************************************************************)
(* The answer to a request closes it and no other.                         *)
(***************************************************************************)
Closed(r0) ==
  /\ Open(r0) /\ Answered(r0)' /\ Emitted(r0)'
  /\ \A r \in Request : r # r0 => Same(r)
  /\ ManuscriptsKept

LEMMA MineChain ==
  ASSUME ChainInv, OperatorTyped, Prepared, NEW tx \in mempool, Mine(tx)
  PROVE  /\ ChainInv'
         /\ \/ /\ Closed(tx.request)
               /\ \A m \in ManuscriptId : status'[m] = "UNDER_REVIEW" =>
                    \/ status[m] = "UNDER_REVIEW" /\ reviewers'[m] = reviewers[m]
                    \/ /\ tx.request.kind = "reviewers"
                       /\ m = reviewerRequestToMs[tx.request.id]
                       /\ reviewers'[m] = tx.answer
            \/ Answered(tx.request) /\ UNCHANGED vars
<1> USE DEF ChainInv
<1> DEFINE r == tx.request
           id == tx.request.id
<1>1. r \in Request /\ id \in RequestId /\ id \in Nat
  BY RequestIds, Identifiers DEF OperatorTyped
<1>2. Answers(r, tx.answer)
  BY DEF Prepared
<1>3. CASE r.kind = "plagiarism" /\ AnswerPlagiarismCheck(id, Head(tx.answer))
  <2>1. PICK s \in Score : tx.answer = <<s>>
    BY <1>2, <1>3 DEF Answers
  <2>2. AnswerPlagiarismCheck(id, s)
    BY <1>3, <2>1
  <2>3. TypeOK' /\ RequestInv'
    BY <1>1, <2>2, AnswerPlagiarismCheckType, AnswerPlagiarismCheckRequests
  <2>4. /\ UNCHANGED <<field, reviewers, nextPlagiarismRequestId,
                       nextReviewerRequestId, reviewerRequestToMs,
                       reviewerRequestFulfilled>>
        /\ id < nextPlagiarismRequestId
        /\ ~ plagiarismRequestFulfilled[id]
        /\ plagiarismRequestFulfilled' =
             [plagiarismRequestFulfilled EXCEPT ![id] = TRUE]
    BY <2>2 DEF AnswerPlagiarismCheck, FulfillPlagiarismCheck,
                FulfillPlagiarism, reviewVars, reviewerVars
  <2>5. \A m \in ManuscriptId : status'[m] = "UNDER_REVIEW" => status[m] = "UNDER_REVIEW"
    BY <2>2 DEF AnswerPlagiarismCheck, FulfillPlagiarism, TypeOK
  <2>6. FieldsAssigned'
    BY <2>4 DEF FieldsAssigned
  <2>7. \A q \in Request : q # r => Same(q)
    <3> SUFFICES ASSUME NEW q \in Request, q # r PROVE Same(q)
      OBVIOUS
    <3>1. q.kind = "plagiarism" => q.id # id
      BY <1>1, <1>3, RequestIds
    <3> QED
      BY <2>4, <3>1 DEF Same, Emitted, Answered, TypeOK, OracleTypeOK
  <2>8. Closed(r)
    BY <1>1, <1>3, <2>4, <2>7
    DEF Closed, Open, Emitted, Answered, ManuscriptsKept, TypeOK, OracleTypeOK
  <2> QED
    BY <2>3, <2>4, <2>5, <2>6, <2>8, PanelsStayMinted
<1>4. CASE r.kind = "reviewers" /\ AnswerReviewerSelection(id, tx.answer)
  <2>1. tx.answer \in MintedPanels /\ tx.answer \in Seq(Address)
    BY <1>2, <1>4 DEF Answers, MintedPanels
  <2>2. TypeOK' /\ RequestInv'
    BY <1>1, <1>4, <2>1, AnswerReviewerSelectionType, AnswerReviewerSelectionRequests
  <2>3. /\ UNCHANGED <<field, status, nextPlagiarismRequestId,
                       nextReviewerRequestId, reviewerRequestToMs,
                       plagiarismRequestFulfilled>>
        /\ id < nextReviewerRequestId
        /\ ~ reviewerRequestFulfilled[id]
        /\ reviewerRequestFulfilled' =
             [reviewerRequestFulfilled EXCEPT ![id] = TRUE]
        /\ reviewers' = [reviewers EXCEPT ![reviewerRequestToMs[id]] = tx.answer]
    BY <1>4 DEF AnswerReviewerSelection, FulfillReviewerSelection,
                FulfillRandomReviewers, plagiarismVars
  <2>4. \A m \in ManuscriptId :
          \/ reviewers'[m] = reviewers[m]
          \/ m = reviewerRequestToMs[id] /\ reviewers'[m] = tx.answer
    BY <2>3 DEF TypeOK
  <2>5. FieldsAssigned'
    BY <2>3 DEF FieldsAssigned
  <2>6. \A q \in Request : q # r => Same(q)
    <3> SUFFICES ASSUME NEW q \in Request, q # r PROVE Same(q)
      OBVIOUS
    <3>1. q.kind # "plagiarism" => q.id # id
      BY <1>1, <1>4, RequestIds
    <3> QED
      BY <2>3, <3>1 DEF Same, Emitted, Answered, TypeOK, OracleTypeOK
  <2>7. Closed(r)
    BY <1>1, <1>4, <2>3, <2>6
    DEF Closed, Open, Emitted, Answered, ManuscriptsKept, TypeOK, OracleTypeOK
  <2>8. PanelsMinted'
    BY <2>1, <2>4, PanelsStayMinted
  <2> QED
    BY <1>4, <2>2, <2>3, <2>4, <2>5, <2>7, <2>8
<1>5. CASE Answered(r) /\ UNCHANGED vars
  <2>1. TypeOK' /\ RequestInv'
    BY <1>5, NextType, RequestInvStep
  <2>2. FieldsAssigned'
    BY <1>5 DEF vars, registryVars, oracleVars, reviewerVars, FieldsAssigned
  <2>3. PanelsMinted'
    BY <1>5, PanelsStayMinted DEF vars, registryVars, reviewVars
  <2> QED
    BY <1>5, <2>1, <2>2, <2>3
<1> QED
  BY <1>3, <1>4, <1>5 DEF Mine

LEMMA IdleChain ==
  ASSUME ChainInv, UNCHANGED vars
  PROVE  /\ ChainInv' /\ UNCHANGED <<status, reviewers, oracleVars>>
         /\ \A r \in Request : Same(r)
<1>1. TypeOK' /\ RequestInv'
  BY NextType, RequestInvStep DEF ChainInv
<1>2. UNCHANGED <<status, reviewers, oracleVars, field>>
  BY DEF vars, registryVars, reviewVars
<1>3. FieldsAssigned'
  BY <1>2 DEF ChainInv, FieldsAssigned, oracleVars, reviewerVars
<1>4. \A r \in Request : Same(r)
  BY <1>2 DEF Same, Emitted, Answered, oracleVars, plagiarismVars, reviewerVars
<1> QED
  BY <1>1, <1>2, <1>3, <1>4, PanelsStayMinted DEF ChainInv
-----------------------------------------------------------------------------
(***************************************************************************)
(* Handlers and their requests.                                            *)
(***************************************************************************)
LEMMA IdleOrNot ==
  ASSUME OperatorTyped, NEW h \in Handler
  PROVE  /\ Runs(h, "idle") <=> handlers[h] = Idle
         /\ handlers[h] # Idle => /\ handlers[h] \in Invocation
                                  /\ handlers[h].request \in Request
                                  /\ handlers[h].pc \in Position
         /\ \A p \in Position : Runs(h, p) => handlers[h] # Idle
BY DEF OperatorTyped, Runs, Idle, Invocation, Position

(* A handler that goes on with its request.                                *)
LEMMA Advanced ==
  ASSUME OperatorTyped, NEW h \in Handler, handlers[h] # Idle,
         NEW x \in Invocation, x.request = handlers[h].request,
         handlers' = [handlers EXCEPT ![h] = x]
  PROVE  /\ handlers' \in [Handler -> Invocation \cup {Idle}]
         /\ x # Idle
         /\ \A g \in Handler : handlers'[g] = IF g = h THEN x ELSE handlers[g]
         /\ \A r : InvocationsOf(r)' = InvocationsOf(r)
<1>1. x # Idle
  BY DEF Invocation, Idle, Position
<1>2. \A g \in Handler : handlers'[g] = IF g = h THEN x ELSE handlers[g]
  BY DEF OperatorTyped
<1>3. handlers' \in [Handler -> Invocation \cup {Idle}]
  BY DEF OperatorTyped
<1>4. \A r : InvocationsOf(r)' = InvocationsOf(r)
  BY <1>1, <1>2 DEF InvocationsOf
<1> QED
  BY <1>1, <1>2, <1>3, <1>4

(* A handler that ends.                                                    *)
LEMMA Ended ==
  ASSUME OperatorTyped, NEW h \in Handler,
         handlers' = [handlers EXCEPT ![h] = Idle]
  PROVE  /\ handlers' \in [Handler -> Invocation \cup {Idle}]
         /\ \A g \in Handler : handlers'[g] = IF g = h THEN Idle ELSE handlers[g]
         /\ \A r : InvocationsOf(r)' = InvocationsOf(r) \ {h}
<1>1. \A g \in Handler : handlers'[g] = IF g = h THEN Idle ELSE handlers[g]
  BY DEF OperatorTyped
<1>2. handlers' \in [Handler -> Invocation \cup {Idle}]
  BY DEF OperatorTyped
<1>3. \A r : InvocationsOf(r)' = InvocationsOf(r) \ {h}
  BY <1>1 DEF InvocationsOf
<1> QED
  BY <1>1, <1>2, <1>3

(* A handler that is called.                                               *)
LEMMA Called ==
  ASSUME OperatorTyped, NEW h \in Handler, handlers[h] = Idle,
         NEW x \in Invocation, handlers' = [handlers EXCEPT ![h] = x]
  PROVE  /\ handlers' \in [Handler -> Invocation \cup {Idle}]
         /\ x # Idle
         /\ \A g \in Handler : handlers'[g] = IF g = h THEN x ELSE handlers[g]
         /\ \A r : InvocationsOf(r)' = InvocationsOf(r)
                                         \cup (IF r = x.request THEN {h} ELSE {})
<1>1. x # Idle
  BY DEF Invocation, Idle, Position
<1>2. \A g \in Handler : handlers'[g] = IF g = h THEN x ELSE handlers[g]
  BY DEF OperatorTyped
<1>3. handlers' \in [Handler -> Invocation \cup {Idle}]
  BY DEF OperatorTyped
<1>4. ASSUME NEW r
      PROVE  InvocationsOf(r)' = InvocationsOf(r)
                                   \cup (IF r = x.request THEN {h} ELSE {})
  BY <1>1, <1>2 DEF InvocationsOf
<1> QED
  BY <1>1, <1>2, <1>3, <1>4

(***************************************************************************)
(* Minting.  The selected reviewers get the next keys, one each, so that   *)
(* every key that is answered with is on record afterwards.                *)
(***************************************************************************)
LEMMA SeatsAreTaken ==
  ASSUME NEW chosen, IsFiniteSet(chosen)
  PROVE  /\ Cardinality(chosen) \in Nat
         /\ SetToSeq(chosen) \in [1 .. Cardinality(chosen) -> chosen]
         /\ IsInjective(SetToSeq(chosen))
<1> DEFINE n == Cardinality(chosen)
<1>1. n \in Nat /\ ExistsBijection(1 .. n, chosen)
  BY FS_CardinalityType
<1>2. PICK f \in [1 .. n -> chosen] : IsInjective(f)
  BY <1>1 DEF ExistsBijection, Bijection, Injection, IsInjective
<1> QED
  BY <1>1, <1>2 DEF SetToSeq

LEMMA NextKeys ==
  ASSUME OperatorTyped, NEW n \in Nat, nextKey + n - 1 <= Len(GeneratedKeys)
  PROVE  LET keys == SubSeq(GeneratedKeys, nextKey, nextKey + n - 1)
         IN  /\ keys \in Seq(Address \ Author) /\ keys \in Seq(Address)
             /\ Len(keys) = n /\ IsInjective(keys)
             /\ nextKey + n \in 1 .. Len(GeneratedKeys) + 1
<1> DEFINE keys == SubSeq(GeneratedKeys, nextKey, nextKey + n - 1)
           S == Address \ Author
<1>1. /\ GeneratedKeys \in Seq(S) /\ Len(GeneratedKeys) \in Nat
      /\ nextKey \in 1 .. Len(GeneratedKeys) + 1
  BY OperatorAssumption DEF OperatorTyped
<1>2. \A i \in nextKey .. nextKey + n - 1 : GeneratedKeys[i] \in S
  <2>1. \A i \in nextKey .. nextKey + n - 1 : i \in 1 .. Len(GeneratedKeys)
    BY <1>1
  <2> HIDE DEF S
  <2> QED
    BY <1>1, <2>1
<1>3. nextKey \in Int /\ nextKey + n - 1 \in Int
  BY <1>1
<1>4. keys \in Seq(S)
  <2> HIDE DEF S
  <2> QED BY <1>2, <1>3, SubSeqProperties
<1>5. Len(keys) = IF nextKey <= nextKey + n - 1
                  THEN nextKey + n - 1 - nextKey + 1 ELSE 0
  <2> HIDE DEF S
  <2> QED BY <1>2, <1>3, SubSeqProperties
<1>6. \A i \in 1 .. nextKey + n - 1 - nextKey + 1 :
        keys[i] = GeneratedKeys[nextKey + i - 1]
  <2> HIDE DEF S
  <2> QED BY <1>2, <1>3, SubSeqProperties
<1> HIDE DEF keys
<1>7. Len(keys) = n
  BY <1>1, <1>5
<1>8. keys \in Seq(Address)
  BY <1>4
<1>9. IsInjective(keys)
  <2> SUFFICES ASSUME NEW i \in 1 .. n, NEW j \in 1 .. n, keys[i] = keys[j]
               PROVE  i = j
    <3>1. DOMAIN keys = 1 .. n
      BY <1>4, <1>7
    <3> QED BY <3>1 DEF IsInjective
  <2>1. nextKey + n - 1 - nextKey + 1 = n
    BY <1>1
  <2>2. GeneratedKeys[nextKey + i - 1] = GeneratedKeys[nextKey + j - 1]
    BY <1>6, <2>1
  <2>3. /\ nextKey + i - 1 \in 1 .. Len(GeneratedKeys)
        /\ nextKey + j - 1 \in 1 .. Len(GeneratedKeys)
    BY <1>1
  <2>4. DOMAIN GeneratedKeys = 1 .. Len(GeneratedKeys)
    BY <1>1
  <2>5. nextKey + i - 1 = nextKey + j - 1
    BY <2>2, <2>3, <2>4, OperatorAssumption DEF IsInjective
  <2> QED
    BY <1>3, <2>5
<1> QED
  BY <1>1, <1>4, <1>7, <1>8, <1>9 DEF keys

KeyOf(chosen, n, seat, keys) ==
  [w \in chosen |-> keys[CHOOSE i \in 1 .. n : seat[i] = w]]

LEMMA NewKeys ==
  ASSUME OperatorTyped, NEW m \in ManuscriptId, NEW chosen \in SUBSET Wallet,
         NEW keys \in Seq(Address), Len(keys) = Cardinality(chosen),
         StoreKeys(m, KeyOf(chosen, Cardinality(chosen), SetToSeq(chosen), keys))
  PROVE  /\ sessions' \in [ManuscriptId -> [Wallet -> Address \cup {NoKey}]]
         /\ \A k \in ManuscriptId : k # m => sessions'[k] = sessions[k]
         /\ Range(keys) \subseteq KeysAfter(m)
<1> DEFINE n == Cardinality(chosen)
           seat == SetToSeq(chosen)
           keyOf == KeyOf(chosen, n, seat, keys)
<1>a. StoreKeys(m, keyOf) /\ Len(keys) = n
  OBVIOUS
<1>b. keyOf = [w \in chosen |-> keys[CHOOSE i \in 1 .. n : seat[i] = w]]
  BY DEF KeyOf
<1>1. IsFiniteSet(chosen)
  BY FS_Subset, OperatorAssumption
<1>2. /\ n \in Nat
      /\ seat \in [1 .. n -> chosen] /\ IsInjective(seat)
  BY <1>1, SeatsAreTaken
<1> HIDE DEF n, seat, keyOf
<1>3. DOMAIN keys = 1 .. n /\ \A i \in 1 .. n : keys[i] \in Address
  BY <1>a, <1>2
<1>4. \A w \in chosen : \E i \in 1 .. n : seat[i] = w
  <2> DEFINE seated == {seat[i] : i \in 1 .. n}
  <2>1. IsFiniteSet(1 .. n) /\ Cardinality(1 .. n) = n
    BY <1>2, FS_Interval
  <2>2. seat \in Bijection(1 .. n, seated)
    BY <1>2 DEF Bijection, Injection, Surjection
  <2>3. Cardinality(seated) = n
    BY <2>1, <2>2, FS_Bijection DEF ExistsBijection
  <2>4. seated = chosen
    BY <1>1, <1>2, <2>3, FS_Subset DEF n
  <2> QED
    BY <2>4
<1>5. \A w \in chosen : keyOf[w] \in Address
  <2> SUFFICES ASSUME NEW w \in chosen PROVE keyOf[w] \in Address
    OBVIOUS
  <2> DEFINE i == CHOOSE i \in 1 .. n : seat[i] = w
  <2>1. i \in 1 .. n
    BY <1>4
  <2>2. keyOf[w] = keys[i]
    BY <1>b
  <2> QED
    BY <1>3, <2>1, <2>2
<1>6. ASSUME NEW i \in 1 .. n
      PROVE  seat[i] \in chosen /\ keyOf[seat[i]] = keys[i]
  <2>1. \A j \in 1 .. n : seat[j] = seat[i] => j = i
    BY <1>2 DEF IsInjective
  <2>2. seat[i] \in chosen
    BY <1>2
  <2>3. (CHOOSE j \in 1 .. n : seat[j] = seat[i]) = i
    BY <2>1
  <2> QED
    BY <1>b, <2>2, <2>3
<1> DEFINE row == [w \in Wallet |-> IF w \in chosen THEN keyOf[w]
                                    ELSE sessions[m][w]]
<1>7. sessions' = [sessions EXCEPT ![m] = row]
  <2>1. DOMAIN keyOf = chosen
    BY <1>b
  <2>2. sessions' = [sessions EXCEPT ![m] =
          [w \in Wallet |-> IF w \in chosen THEN keyOf[w] ELSE sessions[m][w]]]
    <3>1. sessions' = [sessions EXCEPT ![m] =
            [w \in Wallet |-> IF w \in DOMAIN keyOf THEN keyOf[w]
                              ELSE sessions[m][w]]]
      BY <1>a DEF StoreKeys
    <3> QED
      BY <2>1, <3>1
  <2> QED
    BY <2>2
<1>8. sessions \in [ManuscriptId -> [Wallet -> Address \cup {NoKey}]]
  BY DEF OperatorTyped
<1>9. row \in [Wallet -> Address \cup {NoKey}]
  BY <1>5, <1>8
<1>10. /\ sessions' \in [ManuscriptId -> [Wallet -> Address \cup {NoKey}]]
       /\ \A k \in ManuscriptId : k # m => sessions'[k] = sessions[k]
       /\ sessions'[m] = row
  <2> HIDE DEF row
  <2> QED
    BY <1>7, <1>8, <1>9
<1>11. ASSUME NEW i \in 1 .. n
       PROVE  \E w \in Wallet : sessions'[m][w] = keys[i]
  <2>1. seat[i] \in Wallet /\ row[seat[i]] = keys[i]
    BY <1>6
  <2> QED
    BY <1>10, <2>1
<1>12. Range(keys) \subseteq KeysAfter(m)
  BY <1>3, <1>11 DEF Range, KeysAfter
<1> QED
  BY <1>10, <1>12
-----------------------------------------------------------------------------
(***************************************************************************)
(* Steps of others: a request is made, or nothing concerns the operator.   *)
(***************************************************************************)
workVars == <<handlers, inflight, mempool, databaseVars, redeliveries>>

LEMMA RequestedWork ==
  ASSUME OperatorInv, UNCHANGED workVars,
         events \subseteq events', events' \subseteq Request,
         dropped \subseteq dropped', dropped' \subseteq Request,
         \A r \in events' : r \in events \/ Emitted(r)',
         \A r \in Request : \/ Same(r)
                            \/ /\ ~ Emitted(r) /\ Emitted(r)'
                               /\ r \in events' \cup dropped'
  PROVE  WorkInv'
<1> USE DEF workVars, databaseVars
<1>1. /\ events \subseteq Request /\ mempool \subseteq [request : Request, answer : AnswerValue]
      /\ \A h \in Handler : handlers[h] # Idle => handlers[h].request \in Request
  BY IdleOrNot DEF OperatorInv, WorkInv, OperatorTyped
<1>2. OperatorTyped' /\ Prepared'
  BY DEF OperatorInv, WorkInv, OperatorTyped, Prepared, Runs
<1>3. \A r \in Request : Emitted(r) => Emitted(r)' /\ (Answered(r) => Answered(r)')
  BY DEF Same
<1>4. OfChain'
  BY <1>1, <1>3 DEF OperatorInv, WorkInv, OfChain
<1>5. Followed'
  <2>1. \A r \in inflight : \E h \in InvocationsOf(r) : ~ Runs(h, "querying")
    BY DEF OperatorInv, WorkInv, Followed
  <2>2. ASSUME NEW h \in Handler, Runs(h, "waiting")
        PROVE  \/ Answer(h) \in mempool
               \/ Answered(handlers[h].request)'
               \/ handlers[h].request \in dropped'
    <3>1. handlers[h] # Idle
      BY <2>2, IdleOrNot DEF OperatorInv, WorkInv, Position
    <3>2. handlers[h].request \in Request /\ Emitted(handlers[h].request)
      BY <1>1, <3>1 DEF OperatorInv, WorkInv, OfChain
    <3>3. Answered(handlers[h].request) => Answered(handlers[h].request)'
      BY <3>2, <1>3
    <3> QED
      BY <2>2, <3>3 DEF OperatorInv, WorkInv, Followed
  <2> QED
    BY <2>1, <2>2 DEF Followed, InvocationsOf, Runs, Answer
<1>6. NoRequestForgotten'
  BY DEF OperatorInv, WorkInv, NoRequestForgotten, Open, Same, InvocationsOf
<1> QED
  BY <1>2, <1>4, <1>5, <1>6 DEF WorkInv

LEMMA RequestedOnce ==
  ASSUME OperatorInv, UNCHANGED workVars, PanelsCalm, ManuscriptsKept,
         \A r \in events' :
           \/ r \in events
           \/ r \in Request /\ ~ Emitted(r) /\ Emitted(r)' /\ ~ Answered(r)',
         \A r \in Request : Emitted(r) => Same(r)
  PROVE  OnceInv'
<1> USE DEF workVars, databaseVars
<1> SUFFICES ASSUME redeliveries = 0
             PROVE  InOnePlace' /\ MintedLast' /\ PanelKeysKept'
  BY DEF OnceInv
<1>1. InOnePlace /\ MintedLast /\ PanelKeysKept
  BY DEF OperatorInv, OnceInv
<1>2. /\ events \subseteq Request
      /\ \A tx \in mempool : tx.request \in Request /\ Emitted(tx.request)
      /\ \A h \in Handler : handlers[h] # Idle =>
           handlers[h].request \in Request /\ Emitted(handlers[h].request)
      /\ \A r \in events : Emitted(r)
  BY IdleOrNot DEF OperatorInv, WorkInv, OperatorTyped, OfChain
<1>3. \A r \in Request : Open(r) => Open(r)'
  BY DEF Open, Same
<1>4. \A r \in Request : Pending(r) => Pending(r)'
  BY <1>3 DEF Pending
<1>5. InOnePlace'
  <2>1. ASSUME NEW r \in events'
        PROVE  Pending(r)' /\ InvocationsOf(r)' = {}
    <3>1. CASE r \in events
      BY <1>1, <1>2, <1>4, <3>1 DEF InOnePlace, InvocationsOf
    <3>2. CASE r \in Request /\ ~ Emitted(r) /\ Emitted(r)' /\ ~ Answered(r)'
      BY <1>2, <3>2 DEF Pending, Open, InvocationsOf
    <3> QED
      BY <3>1, <3>2
  <2>2. \A h \in Handler : handlers[h] # Idle /\ ~ Runs(h, "waiting") =>
          Pending(handlers[h].request)'
    BY <1>1, <1>2, <1>4 DEF InOnePlace
  <2>3. \A tx \in mempool : Open(tx.request)'
    BY <1>1, <1>2, <1>3 DEF InOnePlace
  <2> QED
    BY <1>1, <2>1, <2>2, <2>3 DEF InOnePlace, Runs, Pending
<1>6. MintedLast'
  <2>1. ASSUME NEW r \in Request, Emitted(r), r.kind = "reviewers"
        PROVE  reviewerRequestToMs'[r.id] = reviewerRequestToMs[r.id]
    BY <2>1, RequestIds DEF Emitted, ManuscriptsKept
  <2>2. \A h \in Handler : Runs(h, "sending") => handlers[h] # Idle
    BY IdleOrNot DEF OperatorInv, WorkInv, Position
  <2> QED
    BY <1>1, <1>2, <2>1, <2>2 DEF MintedLast, Runs, KeysOnRecord
<1>7. PanelKeysKept'
  <2>1. Range(<<>>) = {}
    BY DEF Range
  <2> QED
    BY <1>1, <2>1 DEF PanelKeysKept, PanelsCalm
<1> QED
  BY <1>5, <1>6, <1>7

LEMMA AuthorOrEditorStep == ASSUME OperatorInv, AuthorOrEditor PROVE OperatorInv'
<1>1. /\ ChainInv' /\ PanelsCalm
      /\ \/ \E new \in Request : Requested(new) /\ Emit(new)
         \/ UNCHANGED <<oracleVars, operatorVars>>
  BY AuthorOrEditorChain DEF OperatorInv
<1>2. ASSUME NEW new \in Request, Requested(new), Emit(new)
      PROVE  WorkInv' /\ OnceInv'
  <2>1. /\ UNCHANGED workVars
        /\ events' \in {events, events \cup {new}}
        /\ dropped' \in {dropped, dropped \cup {new}}
        /\ new \in events' \cup dropped'
    BY <1>2 DEF Emit, workVars, processVars
  <2>2. events \subseteq Request /\ dropped \subseteq Request
    BY DEF OperatorInv, WorkInv, OperatorTyped
  <2>3. WorkInv'
    BY <1>2, <2>1, <2>2, RequestedWork DEF Requested
  <2>4. \A r \in Request : Emitted(r) => Same(r)
    BY <1>2 DEF Requested
  <2>5. \A r \in events' :
          \/ r \in events
          \/ r \in Request /\ ~ Emitted(r) /\ Emitted(r)' /\ ~ Answered(r)'
    BY <1>2, <2>1 DEF Requested
  <2>6. OnceInv'
    BY <1>1, <1>2, <2>1, <2>4, <2>5, RequestedOnce DEF Requested
  <2> QED
    BY <2>3, <2>6
<1>3. ASSUME UNCHANGED <<oracleVars, operatorVars>>
      PROVE  WorkInv' /\ OnceInv'
  <2>1. /\ UNCHANGED workVars /\ events' = events /\ dropped' = dropped
        /\ ManuscriptsKept
        /\ \A r \in Request : Same(r)
    BY <1>3 DEF operatorVars, workVars, databaseVars, oracleVars, reviewerVars,
                plagiarismVars, ManuscriptsKept, Same, Emitted, Answered
  <2>2. events \subseteq Request /\ dropped \subseteq Request
    BY DEF OperatorInv, WorkInv, OperatorTyped
  <2> QED
    BY <1>1, <2>1, <2>2, RequestedWork, RequestedOnce
<1> QED
  BY <1>1, <1>2, <1>3 DEF OperatorInv

LEMMA VoteStep ==
  ASSUME OperatorInv, NEW m \in ManuscriptId, NEW v \in Verdict,
         NEW n \in Nonce, Vote(m, v, n)
  PROVE  OperatorInv'
<1>1. ChainInv' /\ PanelsCalm /\ UNCHANGED <<oracleVars, operatorVars>>
  BY VoteChain DEF OperatorInv
<1>2. /\ UNCHANGED workVars /\ events' = events /\ dropped' = dropped
      /\ ManuscriptsKept
      /\ \A r \in Request : Same(r)
  BY <1>1 DEF operatorVars, workVars, databaseVars, oracleVars, reviewerVars,
              plagiarismVars, ManuscriptsKept, Same, Emitted, Answered
<1>3. events \subseteq Request /\ dropped \subseteq Request
  BY DEF OperatorInv, WorkInv, OperatorTyped
<1> QED
  BY <1>1, <1>2, <1>3, RequestedWork, RequestedOnce DEF OperatorInv
-----------------------------------------------------------------------------
(***************************************************************************)
(* The operator's own steps leave the contracts alone.                     *)
(***************************************************************************)
LEMMA QuietChain ==
  ASSUME OperatorInv, UNCHANGED vars
  PROVE  /\ ChainInv'
         /\ UNCHANGED <<status, reviewers, reviewerRequestToMs>>
         /\ \A r \in Request : Same(r)
BY IdleChain DEF OperatorInv, oracleVars, reviewerVars

(* What the invariant says, for all the proofs below.                      *)
LEMMA Known ==
  ASSUME OperatorInv
  PROVE  /\ OperatorTyped /\ Prepared /\ OfChain /\ Followed /\ NoRequestForgotten
         /\ events \subseteq Request /\ dropped \subseteq Request
         /\ inflight \subseteq Request
         /\ \A tx \in mempool : tx.request \in Request /\ Emitted(tx.request)
         /\ \A h \in Handler :
              handlers[h] # Idle => /\ handlers[h].request \in Request
                                    /\ handlers[h] \in Invocation
                                    /\ Emitted(handlers[h].request)
         /\ \A h \in Handler : \A p \in Position : Runs(h, p) => handlers[h] # Idle
BY IdleOrNot DEF OperatorInv, WorkInv, OperatorTyped, OfChain

(* A panel keeps its keys while neither it nor the record changes.         *)
LEMMA QuietPanels ==
  ASSUME PanelKeysKept, UNCHANGED <<status, reviewers, sessions>>
  PROVE  PanelKeysKept'
BY DEF PanelKeysKept

LEMMA QuietMinted ==
  ASSUME MintedLast, UNCHANGED <<reviewerRequestToMs, sessions>>,
         \A tx \in mempool' : tx.request.kind = "reviewers" =>
           \/ tx \in mempool
           \/ Range(tx.answer) \subseteq
                KeysOnRecord(reviewerRequestToMs[tx.request.id]),
         \A g \in Handler : handlers'[g].pc = "sending" =>
           \/ handlers'[g].request.kind # "reviewers"
           \/ handlers'[g] = handlers[g]
  PROVE  MintedLast'
<1>1. \A m : KeysOnRecord(m)' = KeysOnRecord(m)
  BY DEF KeysOnRecord
<1>2. ASSUME NEW g \in Handler, handlers'[g].pc = "sending",
             handlers'[g].request.kind = "reviewers"
      PROVE  Range(handlers'[g].answer) \subseteq
               KeysOnRecord(reviewerRequestToMs[handlers'[g].request.id])
  <2>1. handlers'[g] = handlers[g]
    BY <1>2
  <2>2. Runs(g, "sending") /\ handlers[g].request.kind = "reviewers"
    BY <1>2, <2>1 DEF Runs
  <2> QED
    BY <2>1, <2>2 DEF MintedLast
<1>3. ASSUME NEW tx \in mempool', tx.request.kind = "reviewers"
      PROVE  Range(tx.answer) \subseteq
               KeysOnRecord(reviewerRequestToMs[tx.request.id])
  BY <1>3 DEF MintedLast
<1> QED
  BY <1>1, <1>2, <1>3 DEF MintedLast, Runs

LEMMA DeliverStep ==
  ASSUME OperatorInv, NEW h \in Handler, NEW r \in Request, Deliver(h, r)
  PROVE  OperatorInv'
<1>0. OperatorTyped /\ Prepared /\ OfChain /\ Followed /\ NoRequestForgotten
  BY Known
<1>1. /\ UNCHANGED <<vars, inflight, mempool, dropped, sessions, nextKey,
                     redeliveries>>
      /\ r \in events /\ events' = events \ {r} /\ handlers[h] = Idle
  BY <1>0, IdleOrNot DEF Deliver, processVars, databaseVars
<1>2. /\ ChainInv' /\ UNCHANGED <<status, reviewers, reviewerRequestToMs>>
      /\ \A q \in Request : Same(q)
  BY <1>1, QuietChain
<1>3. CASE AlreadyInFlight(r)
  <2>1. handlers' = handlers
    BY <1>3 DEF Deliver
  <2>2. InvocationsOf(r) # {}
    BY <1>0, <1>3 DEF AlreadyInFlight, Followed
  <2>3. OperatorTyped' /\ Prepared'
    BY <1>0, <1>1, <2>1 DEF OperatorTyped, Prepared, Runs
  <2>4. OfChain'
    BY <1>0, <1>1, <1>2, <2>1, Known DEF OfChain, Same
  <2>5. Followed'
    BY <1>0, <1>1, <1>2, <2>1, Known
    DEF Followed, Runs, InvocationsOf, Same, Answer, Position
  <2>6. NoRequestForgotten'
    BY <1>0, <1>1, <1>2, <2>1, <2>2
    DEF NoRequestForgotten, Open, Same, InvocationsOf
  <2>7. OnceInv'
    <3>1. redeliveries = 0 => FALSE
      BY <1>1, <2>2 DEF OperatorInv, OnceInv, InOnePlace
    <3> QED
      BY <1>1, <3>1 DEF OnceInv
  <2> QED
    BY <1>2, <2>3, <2>4, <2>5, <2>6, <2>7 DEF OperatorInv, WorkInv
<1>4. CASE ~ AlreadyInFlight(r)
  <2> DEFINE x == [pc |-> "querying", request |-> r, answer |-> <<>>]
  <2>1. /\ x \in Invocation /\ x.pc = "querying" /\ x.request = r
        /\ handlers' = [handlers EXCEPT ![h] = x]
    BY <1>4 DEF Deliver, Invocation, Position, AnswerValue
  <2> HIDE DEF x
  <2>2. /\ handlers' \in [Handler -> Invocation \cup {Idle}]
        /\ x # Idle
        /\ \A g \in Handler : handlers'[g] = IF g = h THEN x ELSE handlers[g]
        /\ \A q : InvocationsOf(q)' = InvocationsOf(q)
                                        \cup (IF q = r THEN {h} ELSE {})
    BY <1>0, <1>1, <2>1, Called
  <2>3. OperatorTyped' /\ Prepared'
    BY <1>0, <1>1, <2>1, <2>2 DEF OperatorTyped, Prepared, Runs
  <2>4. OfChain'
    BY <1>0, <1>1, <1>2, <2>1, <2>2, Known DEF OfChain, Same
  <2>5. Followed'
    <3>1. ASSUME NEW q \in inflight
          PROVE  \E g \in InvocationsOf(q)' : handlers'[g].pc # "querying"
      <4>1. PICK g \in InvocationsOf(q) : handlers[g].pc # "querying"
        BY <1>0 DEF Followed, Runs
      <4>2. g \in Handler /\ g # h /\ g \in InvocationsOf(q)'
        BY <1>1, <2>2, <4>1 DEF InvocationsOf
      <4> QED
        BY <2>2, <4>1, <4>2
    <3>2. ASSUME NEW g \in Handler, handlers'[g].pc = "waiting"
          PROVE  /\ handlers[g].pc = "waiting" /\ handlers'[g] = handlers[g]
                 /\ handlers[g].request \in Request
      BY <2>1, <2>2, <3>2, Known DEF Runs, Position
    <3> QED
      BY <1>0, <1>1, <1>2, <3>1, <3>2 DEF Followed, Runs, Answer, Same
  <2>6. NoRequestForgotten'
    BY <1>0, <1>1, <1>2, <2>2 DEF NoRequestForgotten, Open, Same
  <2>7. OnceInv'
    <3> SUFFICES ASSUME redeliveries = 0
                 PROVE  InOnePlace' /\ MintedLast' /\ PanelKeysKept'
      BY <1>1 DEF OnceInv
    <3>1. InOnePlace /\ MintedLast /\ PanelKeysKept
      BY DEF OperatorInv, OnceInv
    <3>2. \A q \in Request : Pending(q) => Pending(q)'
      BY <1>1, <1>2 DEF Pending, Open, Same
    <3>3. Pending(r) /\ InvocationsOf(r) = {}
      BY <1>1, <3>1 DEF InOnePlace
    <3>4. \A q \in events' : Pending(q)' /\ InvocationsOf(q)' = {}
      BY <1>1, <2>2, <3>1, <3>2, Known DEF InOnePlace
    <3>5. \A g, k \in Handler :
            handlers'[g] # Idle /\ handlers'[k] # Idle
              /\ handlers'[g].request = handlers'[k].request => g = k
      BY <2>1, <2>2, <3>1, <3>3 DEF InOnePlace, InvocationsOf
    <3>6. ASSUME NEW g \in Handler, handlers'[g] # Idle,
                 handlers'[g].pc # "waiting"
          PROVE  \E q \in Request : q = handlers'[g].request /\ Pending(q)'
      <4>1. CASE g = h
        BY <2>1, <2>2, <3>2, <3>3, <4>1
      <4>2. CASE g # h
        <5>1. /\ handlers[g] # Idle /\ ~ Runs(g, "waiting")
              /\ handlers'[g].request = handlers[g].request
          BY <2>2, <3>6, <4>2 DEF Runs
        <5>2. handlers[g].request \in Request /\ Pending(handlers[g].request)
          BY <3>1, <5>1, Known DEF InOnePlace
        <5> QED
          BY <3>2, <5>1, <5>2
      <4> QED
        BY <4>1, <4>2
    <3>7. \A tx \in mempool : Open(tx.request)'
      BY <1>2, <3>1, Known DEF InOnePlace, Open, Same
    <3>8. \A tx, tx2 \in mempool : tx.request = tx2.request => tx = tx2
      BY <3>1 DEF InOnePlace
    <3>9. InOnePlace'
      BY <1>1, <3>4, <3>5, <3>6, <3>7, <3>8
      DEF InOnePlace, Runs, Pending, Open, Emitted, Answered
    <3>10. MintedLast'
      <4>1. ASSUME NEW g \in Handler, handlers'[g].pc = "sending"
            PROVE  handlers'[g] = handlers[g] /\ Runs(g, "sending")
        BY <2>1, <2>2, <4>1 DEF Runs
      <4> QED
        BY <1>1, <1>2, <3>1, <4>1, QuietMinted
    <3> QED
      BY <1>1, <1>2, <3>1, <3>9, <3>10, QuietPanels
  <2> QED
    BY <1>2, <2>3, <2>4, <2>5, <2>6, <2>7 DEF OperatorInv, WorkInv
<1> QED
  BY <1>3, <1>4

(* A handler goes on with what it has found out or sent.                   *)
Tx(x) == [request |-> x.request, answer |-> x.answer]

LEMMA AdvancedWork ==
  ASSUME OperatorInv, UNCHANGED <<vars, events, dropped, redeliveries>>,
         NEW h \in Handler, handlers[h] # Idle,
         NEW x \in Invocation, x.request = handlers[h].request,
         handlers' = [handlers EXCEPT ![h] = x],
         x.pc # "querying",
         x.pc # "working" => Answers(x.request, x.answer),
         inflight' \in {inflight, inflight \cup {x.request}},
         \/ mempool' = mempool /\ x.pc # "waiting"
         \/ mempool' = mempool \cup {Tx(x)} /\ x.pc = "waiting",
         sessions' \in [ManuscriptId -> [Wallet -> Address \cup {NoKey}]],
         nextKey' \in 1 .. Len(GeneratedKeys) + 1
  PROVE  WorkInv'
<1>0. OperatorTyped /\ Prepared /\ OfChain /\ Followed /\ NoRequestForgotten
  BY Known
<1>1. /\ ChainInv' /\ UNCHANGED <<status, reviewers, reviewerRequestToMs>>
      /\ \A q \in Request : Same(q)
  BY QuietChain
<1>2. /\ handlers' \in [Handler -> Invocation \cup {Idle}]
      /\ x # Idle
      /\ \A g \in Handler : handlers'[g] = IF g = h THEN x ELSE handlers[g]
      /\ \A r : InvocationsOf(r)' = InvocationsOf(r)
  BY <1>0, Advanced
<1>3. x.request \in Request /\ x.answer \in AnswerValue /\ Emitted(x.request)
  BY Known DEF Invocation
<1>4. /\ Tx(x) \in [request : Request, answer : AnswerValue]
      /\ Tx(x).request = x.request /\ Tx(x).answer = x.answer
  BY <1>3 DEF Tx
<1>5. \A tx \in mempool' : tx \in mempool \/ (tx = Tx(x) /\ x.pc \in Position)
  BY DEF Invocation
<1>6. OperatorTyped'
  BY <1>0, <1>2, <1>3, <1>4 DEF OperatorTyped
<1>7. Prepared'
  <2>1. \A g \in Handler : Runs(g, "sending")' \/ Runs(g, "waiting")' =>
          Answers(handlers'[g].request, handlers'[g].answer)
    BY <1>0, <1>2 DEF Prepared, Runs
  <2>2. \A tx \in mempool' : \/ tx \in mempool
                             \/ tx = Tx(x) /\ Answers(x.request, x.answer)
    OBVIOUS
  <2> QED
    BY <1>0, <1>4, <2>1, <2>2 DEF Prepared
<1>8. OfChain'
  BY <1>0, <1>1, <1>2, <1>3, <1>4, <1>5, Known DEF OfChain, Same
<1>9. Followed'
  <2>1. ASSUME NEW q \in inflight'
        PROVE  \E g \in InvocationsOf(q) : handlers'[g].pc # "querying"
    <3>1. CASE q \in inflight
      BY <1>0, <1>2, <3>1 DEF Followed, Runs, InvocationsOf
    <3>2. CASE q = x.request
      BY <1>2, <3>2 DEF InvocationsOf
    <3> QED
      BY <3>1, <3>2
  <2>2. ASSUME NEW g \in Handler, handlers'[g].pc = "waiting"
        PROVE  \/ Tx(handlers'[g]) \in mempool'
               \/ \E q \in Request : q = handlers'[g].request
                                     /\ (Answered(q)' \/ q \in dropped')
    <3>1. CASE g = h
      BY <1>2, <2>2, <3>1
    <3>2. CASE g # h
      <4>1. Runs(g, "waiting") /\ handlers'[g] = handlers[g]
        BY <1>2, <2>2, <3>2 DEF Runs
      <4>2. handlers[g].request \in Request
        BY <4>1, Known DEF Position
      <4>3. \/ Answer(g) \in mempool
            \/ Answered(handlers[g].request)
            \/ handlers[g].request \in dropped
        BY <1>0, <4>1 DEF Followed
      <4> QED
        BY <1>1, <4>1, <4>2, <4>3 DEF Answer, Tx, Same
    <3> QED
      BY <3>1, <3>2
  <2> QED
    BY <1>2, <2>1, <2>2 DEF Followed, Runs, Answer, Tx, Answered
<1>10. NoRequestForgotten'
  BY <1>0, <1>1, <1>2 DEF NoRequestForgotten, Open, Same
<1> QED
  BY <1>6, <1>7, <1>8, <1>9, <1>10 DEF WorkInv

LEMMA AdvancedInOnePlace ==
  ASSUME OperatorInv, InOnePlace, UNCHANGED <<vars, events>>,
         NEW h \in Handler, handlers[h] # Idle, ~ Runs(h, "waiting"),
         NEW x \in Invocation, x.request = handlers[h].request,
         handlers' = [handlers EXCEPT ![h] = x],
         \/ mempool' = mempool
         \/ mempool' = mempool \cup {Tx(x)} /\ x.pc = "waiting"
  PROVE  InOnePlace'
<1>1. \A q \in Request : Same(q)
  BY QuietChain
<1>2. /\ x # Idle
      /\ \A g \in Handler : handlers'[g] = IF g = h THEN x ELSE handlers[g]
      /\ \A r : InvocationsOf(r)' = InvocationsOf(r)
  BY Known, Advanced
<1>3. x.request \in Request /\ Pending(x.request) /\ h \in InvocationsOf(x.request)
  BY Known DEF InOnePlace, InvocationsOf
<1>4. \A tx \in mempool' : tx \in mempool \/ (tx = Tx(x) /\ x.pc = "waiting")
  OBVIOUS
<1>5. Tx(x).request = x.request
  BY DEF Tx
<1>6. \A q \in Request : Pending(q) /\ (q # x.request \/ x.pc # "waiting") => Pending(q)'
  BY <1>1, <1>4, <1>5 DEF Pending, Open, Same
<1>7. ASSUME NEW r \in events
      PROVE  Pending(r)' /\ InvocationsOf(r)' = {}
  <2>1. r # x.request
    BY <1>3 DEF InOnePlace
  <2> QED
    BY <1>2, <1>6, <2>1, Known DEF InOnePlace
<1>8. ASSUME NEW g \in Handler, NEW k \in Handler,
             handlers'[g] # Idle, handlers'[k] # Idle,
             handlers'[g].request = handlers'[k].request
      PROVE  g = k
  BY <1>2, <1>8 DEF InOnePlace
<1>9. ASSUME NEW g \in Handler, handlers'[g] # Idle, handlers'[g].pc # "waiting"
      PROVE  \E q \in Request : q = handlers'[g].request /\ Pending(q)'
  <2>1. CASE g = h
    BY <1>2, <1>3, <1>6, <1>9, <2>1
  <2>2. CASE g # h
    <3>1. handlers'[g] = handlers[g] /\ ~ Runs(g, "waiting")
      BY <1>2, <1>9, <2>2 DEF Runs
    <3>2. handlers[g].request \in Request /\ Pending(handlers[g].request)
      BY <1>9, <3>1, Known DEF InOnePlace
    <3>3. handlers[g].request # x.request
      BY <1>9, <2>2, <3>1 DEF InOnePlace
    <3> QED
      BY <1>6, <3>1, <3>2, <3>3
  <2> QED
    BY <2>1, <2>2
<1>10. ASSUME NEW tx \in mempool' PROVE Open(tx.request)'
  <2>1. tx.request \in Request /\ Open(tx.request)
    BY <1>3, <1>4, <1>5, Known DEF InOnePlace, Pending
  <2> QED
    BY <1>1, <2>1 DEF Open, Same
<1>11. ASSUME NEW tx \in mempool', NEW tx2 \in mempool', tx.request = tx2.request
       PROVE  tx = tx2
  BY <1>3, <1>4, <1>5, <1>11 DEF InOnePlace, Pending
<1> QED
  BY <1>7, <1>8, <1>9, <1>10, <1>11
  DEF InOnePlace, Runs, Pending, Open, Emitted, Answered

(* A handler ends: its request is answered or given up on.                 *)
LEMMA EndedWork ==
  ASSUME OperatorInv, UNCHANGED <<vars, events, redeliveries>>,
         NEW h \in Handler, handlers[h] # Idle,
         handlers' = [handlers EXCEPT ![h] = Idle],
         \/ inflight' = inflight \ {handlers[h].request}
         \/ inflight' = inflight /\ Runs(h, "querying"),
         dropped' \in {dropped, dropped \cup {handlers[h].request}},
         Answered(handlers[h].request) \/ handlers[h].request \in dropped',
         mempool' \subseteq mempool,
         \A tx \in mempool \ mempool' : tx.request \in dropped',
         sessions' \in [ManuscriptId -> [Wallet -> Address \cup {NoKey}]],
         nextKey' \in 1 .. Len(GeneratedKeys) + 1
  PROVE  WorkInv' /\ (InOnePlace => InOnePlace')
<1> DEFINE r == handlers[h].request
<1>0. OperatorTyped /\ Prepared /\ OfChain /\ Followed /\ NoRequestForgotten
  BY Known
<1>1. \A q \in Request : Same(q)
  BY QuietChain
<1>2. /\ handlers' \in [Handler -> Invocation \cup {Idle}]
      /\ \A g \in Handler : handlers'[g] = IF g = h THEN Idle ELSE handlers[g]
      /\ \A q : InvocationsOf(q)' = InvocationsOf(q) \ {h}
  BY <1>0, Ended
<1>3. r \in Request /\ Emitted(r) /\ dropped \subseteq dropped'
  BY Known
<1>4. \A q : h \in InvocationsOf(q) => q = r
  BY DEF InvocationsOf
<1>5. OperatorTyped'
  BY <1>0, <1>2, <1>3 DEF OperatorTyped
<1>6. Prepared'
  BY <1>0, <1>2 DEF Prepared, Runs, Idle
<1>7. OfChain'
  BY <1>0, <1>1, <1>2, Known DEF OfChain, Same
<1>8. Followed'
  <2>1. ASSUME NEW q \in inflight'
        PROVE  \E g \in InvocationsOf(q)' : handlers'[g].pc # "querying"
    <3>1. PICK g \in InvocationsOf(q) : ~ Runs(g, "querying")
      BY <1>0, <2>1 DEF Followed
    <3>2. g # h
      BY <1>4, <2>1, <3>1
    <3>3. g \in Handler
      BY <3>1 DEF InvocationsOf
    <3> QED
      BY <1>2, <3>1, <3>2, <3>3 DEF Runs
  <2>2. ASSUME NEW g \in Handler, handlers'[g].pc = "waiting"
        PROVE  \/ Tx(handlers'[g]) \in mempool'
               \/ \E q \in Request : q = handlers'[g].request
                                     /\ (Answered(q)' \/ q \in dropped')
    <3>1. Runs(g, "waiting") /\ handlers'[g] = handlers[g]
      BY <1>2, <2>2 DEF Runs, Idle
    <3>2. handlers[g].request \in Request
      BY <3>1, Known DEF Position
    <3>3. \/ Tx(handlers[g]) \in mempool
          \/ Answered(handlers[g].request)
          \/ handlers[g].request \in dropped
      BY <1>0, <3>1 DEF Followed, Answer, Tx
    <3>4. Tx(handlers[g]).request = handlers[g].request
      BY DEF Tx
    <3> QED
      BY <1>1, <1>3, <3>1, <3>2, <3>3, <3>4 DEF Same
  <2> QED
    BY <2>1, <2>2 DEF Followed, Runs, Answer, Tx, Answered
<1>9. NoRequestForgotten'
  <2> SUFFICES ASSUME NEW q \in Request, Open(q)'
               PROVE  \/ q \in events'
                      \/ InvocationsOf(q)' # {}
                      \/ \E tx \in mempool' : tx.request = q
                      \/ q \in dropped'
    BY DEF NoRequestForgotten
  <2>1. Open(q)
    BY <1>1 DEF Open, Same
  <2> QED
    BY <1>0, <1>2, <1>3, <1>4, <2>1 DEF NoRequestForgotten, Open
<1>10. ASSUME InOnePlace PROVE InOnePlace'
  <2>1. \A q \in Request : /\ Pending(q) => Pending(q)'
                           /\ Open(q) => Open(q)'
    BY <1>1 DEF Pending, Open, Same
  <2>2. ASSUME NEW q \in events
        PROVE  Pending(q)' /\ InvocationsOf(q)' = {}
    BY <1>2, <1>10, <2>1, Known DEF InOnePlace
  <2>3. ASSUME NEW g \in Handler, NEW k \in Handler,
               handlers'[g] # Idle, handlers'[k] # Idle,
               handlers'[g].request = handlers'[k].request
        PROVE  g = k
    BY <1>2, <1>10, <2>3 DEF InOnePlace
  <2>4. ASSUME NEW g \in Handler, handlers'[g] # Idle, handlers'[g].pc # "waiting"
        PROVE  \E q \in Request : q = handlers'[g].request /\ Pending(q)'
    <3>1. /\ handlers'[g] = handlers[g] /\ ~ Runs(g, "waiting")
          /\ handlers[g] # Idle
      BY <1>2, <2>4 DEF Runs
    <3> QED
      BY <1>10, <2>1, <3>1, Known DEF InOnePlace
  <2>5. ASSUME NEW tx \in mempool' PROVE Open(tx.request)'
    BY <1>10, <2>1, Known DEF InOnePlace
  <2>6. \A tx, tx2 \in mempool' : tx.request = tx2.request => tx = tx2
    BY <1>10 DEF InOnePlace
  <2> QED
    BY <2>2, <2>3, <2>4, <2>5, <2>6
    DEF InOnePlace, Runs, Pending, Open, Emitted, Answered
<1> QED
  BY <1>5, <1>6, <1>7, <1>8, <1>9, <1>10 DEF WorkInv

(* The same handler with another position and answer.                      *)
Goes(h, pc, a) == [pc |-> pc, request |-> handlers[h].request, answer |-> a]

IsAt(x, pc, r, a) == x.pc = pc /\ x.request = r /\ x.answer = a

LEMMA GoesOn ==
  ASSUME OperatorInv, NEW h \in Handler, handlers[h] # Idle,
         NEW pc \in Position, NEW a \in AnswerValue,
         handlers' = [handlers EXCEPT ![h] = Goes(h, pc, a)]
  PROVE  \E x \in Invocation : /\ IsAt(x, pc, handlers[h].request, a)
                              /\ handlers' = [handlers EXCEPT ![h] = x]
<1> DEFINE x == Goes(h, pc, a)
<1>1. handlers[h].request \in Request
  BY Known
<1>2. /\ x \in Invocation
      /\ IsAt(x, pc, handlers[h].request, a)
  BY <1>1 DEF Goes, Invocation, IsAt
<1> HIDE DEF x
<1>3. handlers' = [handlers EXCEPT ![h] = x]
  BY DEF x
<1> QED
  BY <1>2, <1>3

(* The two ways a handler's record is written.                             *)
LEMMA WrittenPosition ==
  ASSUME OperatorInv, NEW h \in Handler, handlers[h] # Idle, NEW pc \in Position,
         handlers' = [handlers EXCEPT ![h].pc = pc]
  PROVE  handlers' = [handlers EXCEPT ![h] = Goes(h, pc, handlers[h].answer)]
<1>1. handlers[h] \in Invocation
  BY Known
<1>2. [handlers[h] EXCEPT !.pc = pc] = Goes(h, pc, handlers[h].answer)
  BY <1>1 DEF Invocation, Goes
<1> QED
  BY <1>2

LEMMA WrittenAnswer ==
  ASSUME OperatorInv, NEW h \in Handler, handlers[h] # Idle,
         NEW pc \in Position, NEW a \in AnswerValue
  PROVE  [[handlers[h] EXCEPT !.pc = pc] EXCEPT !.answer = a] = Goes(h, pc, a)
<1> DEFINE y == [handlers[h] EXCEPT !.pc = pc]
<1>1. handlers[h] \in Invocation
  BY Known
<1>2. y = [pc |-> pc, request |-> handlers[h].request, answer |-> handlers[h].answer]
  BY <1>1 DEF Invocation
<1> HIDE DEF y
<1>3. [y EXCEPT !.answer = a] = Goes(h, pc, a)
  BY <1>2 DEF Goes
<1> QED
  BY <1>3 DEF y

(* A step that mints nothing.                                              *)
LEMMA QuietOnce ==
  ASSUME OperatorInv, UNCHANGED <<vars, sessions, redeliveries>>,
         InOnePlace => InOnePlace',
         \A tx \in mempool' : MintedLast /\ tx.request.kind = "reviewers" =>
           \/ tx \in mempool
           \/ Range(tx.answer) \subseteq
                KeysOnRecord(reviewerRequestToMs[tx.request.id]),
         \A g \in Handler : handlers'[g].pc = "sending" =>
           \/ handlers'[g].request.kind # "reviewers"
           \/ handlers'[g] = handlers[g]
  PROVE  OnceInv'
<1> SUFFICES ASSUME redeliveries = 0
             PROVE  InOnePlace' /\ MintedLast' /\ PanelKeysKept'
  BY DEF OnceInv
<1>1. InOnePlace /\ MintedLast /\ PanelKeysKept
  BY DEF OperatorInv, OnceInv
<1>2. UNCHANGED <<status, reviewers, reviewerRequestToMs>>
  BY QuietChain
<1>3. MintedLast'
  BY <1>1, <1>2, QuietMinted
<1> QED
  BY <1>1, <1>2, <1>3, QuietPanels

LEMMA AfterQueryStep ==
  ASSUME OperatorInv, NEW h \in Handler, AfterQuery(h)
  PROVE  OperatorInv'
<1>1. /\ UNCHANGED <<vars, events, dropped, mempool, sessions, nextKey,
                     redeliveries>>
      /\ Runs(h, "querying") /\ handlers[h] # Idle
      /\ handlers[h].request \in Request /\ handlers[h] \in Invocation
  BY Known DEF AfterQuery, processVars, databaseVars, Position
<1>2. ChainInv'
  BY <1>1, QuietChain
<1>3. /\ sessions' \in [ManuscriptId -> [Wallet -> Address \cup {NoKey}]]
      /\ nextKey' \in 1 .. Len(GeneratedKeys) + 1
      /\ handlers \in [Handler -> Invocation \cup {Idle}]
  BY <1>1, Known DEF OperatorTyped
<1>4. CASE /\ Answered(handlers[h].request)
           /\ handlers' = [handlers EXCEPT ![h] = Idle]
           /\ UNCHANGED inflight
  <2>1. WorkInv' /\ (InOnePlace => InOnePlace')
    BY <1>1, <1>3, <1>4, EndedWork
  <2>2. \A g \in Handler : handlers'[g] \in {Idle, handlers[g]}
    BY <1>3, <1>4
  <2>3. OnceInv'
    BY <1>1, <2>1, <2>2, QuietOnce DEF Idle
  <2> QED
    BY <1>2, <2>1, <2>3 DEF OperatorInv
<1>5. CASE /\ Advance(h, "working")
           /\ inflight' = inflight \cup {handlers[h].request}
  <2>1. handlers[h].answer \in AnswerValue
    BY <1>1 DEF Invocation
  <2>2. PICK x \in Invocation :
          /\ IsAt(x, "working", handlers[h].request, handlers[h].answer)
          /\ handlers' = [handlers EXCEPT ![h] = x]
    <3>1. "working" \in Position
      BY DEF Position
    <3>2. handlers' = [handlers EXCEPT ![h] = Goes(h, "working", handlers[h].answer)]
      BY <1>1, <1>5, <3>1, WrittenPosition DEF Advance
    <3> QED
      BY <1>1, <2>1, <3>1, <3>2, GoesOn
  <2>3. WorkInv'
    BY <1>1, <1>3, <1>5, <2>2, AdvancedWork DEF IsAt
  <2>4. InOnePlace => InOnePlace'
    BY <1>1, <2>2, AdvancedInOnePlace DEF Runs, IsAt
  <2>5. \A g \in Handler : handlers'[g] = IF g = h THEN x ELSE handlers[g]
    BY <1>3, <2>2
  <2>6. OnceInv'
    BY <1>1, <2>2, <2>4, <2>5, QuietOnce DEF IsAt
  <2> QED
    BY <1>2, <2>3, <2>6 DEF OperatorInv
<1> QED
  BY <1>4, <1>5 DEF AfterQuery

LEMMA CheckPlagiarismStep ==
  ASSUME OperatorInv, NEW h \in Handler, CheckPlagiarism(h)
  PROVE  OperatorInv'
<1>1. /\ UNCHANGED <<vars, events, dropped, inflight, mempool, sessions,
                     nextKey, redeliveries>>
      /\ Runs(h, "working") /\ handlers[h] # Idle
      /\ handlers[h].request \in Request
      /\ handlers[h].request.kind = "plagiarism"
  BY Known DEF CheckPlagiarism, processVars, databaseVars, Position
<1>2. ChainInv'
  BY <1>1, QuietChain
<1>3. /\ sessions' \in [ManuscriptId -> [Wallet -> Address \cup {NoKey}]]
      /\ nextKey' \in 1 .. Len(GeneratedKeys) + 1
      /\ handlers \in [Handler -> Invocation \cup {Idle}]
  BY <1>1, Known DEF OperatorTyped
<1>4. PICK score \in Score :
        handlers' = [handlers EXCEPT ![h].pc = "sending", ![h].answer = <<score>>]
  BY DEF CheckPlagiarism
<1>5. <<score>> \in AnswerValue /\ "sending" \in Position
  BY DEF AnswerValue, Position
<1>6. PICK x \in Invocation :
        /\ IsAt(x, "sending", handlers[h].request, <<score>>)
        /\ handlers' = [handlers EXCEPT ![h] = x]
  <2>1. handlers' = [handlers EXCEPT ![h] = Goes(h, "sending", <<score>>)]
    <3>1. [[handlers[h] EXCEPT !.pc = "sending"] EXCEPT !.answer = <<score>>]
            = Goes(h, "sending", <<score>>)
      BY <1>1, <1>5, WrittenAnswer
    <3> QED
      BY <1>3, <1>4, <3>1
  <2> QED
    BY <1>1, <1>5, <2>1, GoesOn
<1>7. Answers(x.request, x.answer)
  BY <1>1, <1>6 DEF Answers, IsAt
<1>8. WorkInv'
  BY <1>1, <1>3, <1>6, <1>7, AdvancedWork DEF IsAt
<1>9. InOnePlace => InOnePlace'
  BY <1>1, <1>6, AdvancedInOnePlace DEF Runs, IsAt
<1>10. \A g \in Handler : handlers'[g] = IF g = h THEN x ELSE handlers[g]
  BY <1>3, <1>6
<1>11. OnceInv'
  BY <1>1, <1>6, <1>9, <1>10, QuietOnce DEF IsAt
<1> QED
  BY <1>2, <1>8, <1>11 DEF OperatorInv

(* A handler reports an error, whatever becomes of the database.           *)
LEMMA FailedWork ==
  ASSUME OperatorInv, UNCHANGED <<vars, events, redeliveries>>,
         NEW h \in Handler, handlers[h] # Idle, Fail(h),
         mempool' \subseteq mempool,
         \A tx \in mempool \ mempool' : tx.request = handlers[h].request,
         sessions' \in [ManuscriptId -> [Wallet -> Address \cup {NoKey}]],
         nextKey' \in 1 .. Len(GeneratedKeys) + 1
  PROVE  /\ WorkInv' /\ (InOnePlace => InOnePlace')
         /\ \A g \in Handler : handlers'[g] = IF g = h THEN Idle ELSE handlers[g]
         /\ sessions' = sessions => OnceInv'
<1>1. /\ handlers' = [handlers EXCEPT ![h] = Idle]
      /\ inflight' = inflight \ {handlers[h].request}
      /\ dropped' = dropped \cup {handlers[h].request}
  BY DEF Fail, Finish
<1>2. WorkInv' /\ (InOnePlace => InOnePlace')
  BY <1>1, EndedWork
<1>3. \A g \in Handler : handlers'[g] = IF g = h THEN Idle ELSE handlers[g]
  BY <1>1, Known DEF OperatorTyped
<1>4. sessions' = sessions => OnceInv'
  BY <1>2, <1>3, QuietOnce DEF Idle
<1> QED
  BY <1>2, <1>3, <1>4

LEMMA SendAnswerStep ==
  ASSUME OperatorInv, NEW h \in Handler, SendAnswer(h)
  PROVE  OperatorInv'
<1>1. /\ UNCHANGED <<vars, events, sessions, nextKey, redeliveries>>
      /\ Runs(h, "sending") /\ handlers[h] # Idle
      /\ handlers[h].request \in Request /\ handlers[h] \in Invocation
  BY Known DEF SendAnswer, processVars, databaseVars, Position
<1>2. ChainInv'
  BY <1>1, QuietChain
<1>3. /\ sessions' \in [ManuscriptId -> [Wallet -> Address \cup {NoKey}]]
      /\ nextKey' \in 1 .. Len(GeneratedKeys) + 1
      /\ handlers \in [Handler -> Invocation \cup {Idle}]
  BY <1>1, Known DEF OperatorTyped
<1>4. CASE Fail(h) /\ UNCHANGED mempool
  BY <1>1, <1>2, <1>3, <1>4, FailedWork DEF OperatorInv
<1>5. CASE /\ mempool' = mempool \cup {Answer(h)}
           /\ Advance(h, "waiting")
           /\ UNCHANGED <<inflight, dropped>>
  <2>1. handlers[h].answer \in AnswerValue
    BY <1>1 DEF Invocation
  <2>2. PICK x \in Invocation :
          /\ IsAt(x, "waiting", handlers[h].request, handlers[h].answer)
          /\ handlers' = [handlers EXCEPT ![h] = x]
    <3>1. "waiting" \in Position
      BY DEF Position
    <3>2. handlers' = [handlers EXCEPT ![h] = Goes(h, "waiting", handlers[h].answer)]
      BY <1>1, <1>5, <3>1, WrittenPosition DEF Advance
    <3> QED
      BY <1>1, <2>1, <3>1, <3>2, GoesOn
  <2>3. Answers(x.request, x.answer)
    BY <1>1, <2>2, Known DEF Prepared, IsAt
  <2>4. Tx(x) = Answer(h)
    BY <2>2 DEF Tx, Answer, IsAt
  <2>5. WorkInv'
    BY <1>1, <1>3, <1>5, <2>2, <2>3, <2>4, AdvancedWork DEF IsAt
  <2>6. InOnePlace => InOnePlace'
    BY <1>1, <1>5, <2>2, <2>4, AdvancedInOnePlace DEF Runs, IsAt
  <2>7. \A g \in Handler : handlers'[g] = IF g = h THEN x ELSE handlers[g]
    BY <1>3, <2>2
  <2>8. MintedLast /\ Tx(x).request.kind = "reviewers" =>
          Range(Tx(x).answer) \subseteq
            KeysOnRecord(reviewerRequestToMs[Tx(x).request.id])
    BY <1>1, <2>2 DEF MintedLast, Tx, IsAt
  <2>9. OnceInv'
    BY <1>1, <1>5, <2>2, <2>4, <2>6, <2>7, <2>8, QuietOnce DEF IsAt
  <2> QED
    BY <1>2, <2>5, <2>9 DEF OperatorInv
<1> QED
  BY <1>4, <1>5 DEF SendAnswer

(* The receipt comes when no transaction carries the answer any more.      *)
LEMMA ConfirmStep ==
  ASSUME OperatorInv, NEW h \in Handler, Confirm(h)
  PROVE  OperatorInv'
<1>1. /\ UNCHANGED <<vars, events, sessions, nextKey, redeliveries>>
      /\ Runs(h, "waiting") /\ handlers[h] # Idle
      /\ handlers[h].request \in Request
  BY Known DEF Confirm, processVars, databaseVars, Position
<1>2. ChainInv'
  BY <1>1, QuietChain
<1>3. /\ sessions' \in [ManuscriptId -> [Wallet -> Address \cup {NoKey}]]
      /\ nextKey' \in 1 .. Len(GeneratedKeys) + 1
      /\ handlers \in [Handler -> Invocation \cup {Idle}]
  BY <1>1, Known DEF OperatorTyped
<1>4. CASE /\ Answer(h) \notin mempool
           /\ Finish(h)
           /\ UNCHANGED <<mempool, dropped>>
  <2>1. Answered(handlers[h].request) \/ handlers[h].request \in dropped
    BY <1>1, <1>4, Known DEF Followed
  <2>2. WorkInv' /\ (InOnePlace => InOnePlace')
    BY <1>1, <1>3, <1>4, <2>1, EndedWork DEF Finish
  <2>3. \A g \in Handler : handlers'[g] \in {Idle, handlers[g]}
    BY <1>3, <1>4 DEF Finish
  <2>4. OnceInv'
    BY <1>1, <1>4, <2>2, <2>3, QuietOnce DEF Idle
  <2> QED
    BY <1>2, <2>2, <2>4 DEF OperatorInv
<1>5. CASE Fail(h) /\ mempool' \in {mempool, mempool \ {Answer(h)}}
  <2>1. Answer(h).request = handlers[h].request
    BY DEF Answer
  <2> QED
    BY <1>1, <1>2, <1>3, <1>5, <2>1, FailedWork DEF OperatorInv
<1> QED
  BY <1>4, <1>5 DEF Confirm

(* A manuscript waits for one panel at a time.                             *)
LEMMA OneSelection ==
  ASSUME RequestsMatchStatus, TypeOK,
         NEW r \in Request, r.kind = "reviewers", Open(r),
         NEW q \in Request, q.kind = "reviewers", Open(q),
         reviewerRequestToMs[q.id] = reviewerRequestToMs[r.id]
  PROVE  q = r /\ reviewers[reviewerRequestToMs[r.id]] = <<>>
<1> DEFINE m == reviewerRequestToMs[r.id]
<1>1. r.id \in RequestId /\ q.id \in RequestId /\ m \in ManuscriptId
  BY RequestIds DEF TypeOK, OracleTypeOK
<1>2. r.id \in OpenReviewerRequests(m) /\ q.id \in OpenReviewerRequests(m)
  BY <1>1 DEF OpenReviewerRequests, Open, Emitted, Answered
<1>3. r.id = q.id /\ Unanswered(m)
  BY <1>1, <1>2 DEF RequestsMatchStatus
<1>4. q = r
  BY <1>3, RequestIds
<1> QED
  BY <1>3, <1>4 DEF Unanswered

(* The keys of the other manuscripts stay, and this one has no panel yet.  *)
LEMMA MintedOthers ==
  ASSUME OperatorInv, InOnePlace, MintedLast, PanelKeysKept, UNCHANGED <<vars, mempool>>,
         NEW h \in Handler, Runs(h, "working"),
         handlers[h].request.kind = "reviewers",
         \A k \in ManuscriptId :
           k # reviewerRequestToMs[handlers[h].request.id] => sessions'[k] = sessions[k],
         \A g \in Handler : g # h => handlers'[g] = handlers[g],
         handlers'[h].pc = "sending" =>
           /\ handlers'[h].request = handlers[h].request
           /\ Range(handlers'[h].answer) \subseteq
                KeysAfter(reviewerRequestToMs[handlers[h].request.id])
  PROVE  MintedLast' /\ PanelKeysKept'
<1> DEFINE r == handlers[h].request
           m == reviewerRequestToMs[r.id]
<1>0. UNCHANGED <<status, reviewers, reviewerRequestToMs>>
  BY QuietChain
<1>1. /\ r \in Request /\ r.kind = "reviewers" /\ Open(r) /\ handlers[h] # Idle
      /\ \A tx \in mempool : tx.request # r
  BY Known DEF InOnePlace, Runs, Pending, Position
<1>2. TypeOK /\ RequestsMatchStatus
  BY DEF OperatorInv, ChainInv, RequestInv
<1>3. ASSUME NEW q \in Request, q.kind = "reviewers", Open(q), q # r
      PROVE  KeysAfter(reviewerRequestToMs[q.id])
               = KeysOnRecord(reviewerRequestToMs[q.id])
  <2>1. reviewerRequestToMs[q.id] # m
    BY <1>1, <1>2, <1>3, OneSelection
  <2>2. reviewerRequestToMs[q.id] \in ManuscriptId
    BY <1>2, RequestIds DEF TypeOK, OracleTypeOK
  <2> QED
    BY <1>0, <2>1, <2>2 DEF KeysOnRecord, KeysAfter
<1>4. ASSUME NEW g \in Handler, handlers'[g].pc = "sending",
             handlers'[g].request.kind = "reviewers"
      PROVE  \E q \in Request :
               /\ q = handlers'[g].request
               /\ Range(handlers'[g].answer) \subseteq
                    KeysAfter(reviewerRequestToMs[q.id])
  <2>1. CASE g = h
    BY <1>0, <1>1, <1>4, <2>1
  <2>2. CASE g # h
    <3>1. /\ handlers'[g] = handlers[g] /\ Runs(g, "sending")
          /\ handlers[g].request.kind = "reviewers"
      BY <1>4, <2>2 DEF Runs
    <3>2. handlers[g] # Idle /\ handlers[g].request \in Request
      BY <3>1, Known DEF Position
    <3>3. Open(handlers[g].request)
      BY <3>1, <3>2 DEF InOnePlace, Pending, Runs
    <3>4. handlers[g].request # r
      BY <1>1, <2>2, <3>2 DEF InOnePlace
    <3>5. Range(handlers[g].answer) \subseteq
            KeysOnRecord(reviewerRequestToMs[handlers[g].request.id])
      BY <3>1 DEF MintedLast
    <3> QED
      BY <1>3, <3>1, <3>2, <3>3, <3>4, <3>5
  <2> QED
    BY <2>1, <2>2
<1>5. ASSUME NEW tx \in mempool, tx.request.kind = "reviewers"
      PROVE  Range(tx.answer) \subseteq
               KeysAfter(reviewerRequestToMs[tx.request.id])
  <2>1. tx.request \in Request /\ Open(tx.request) /\ tx.request # r
    BY <1>1, Known DEF InOnePlace
  <2> QED
    BY <1>3, <1>5, <2>1 DEF MintedLast
<1>6. MintedLast'
  <2>1. ASSUME NEW g \in Handler, handlers'[g].pc = "sending",
               handlers'[g].request.kind = "reviewers"
        PROVE  Range(handlers'[g].answer) \subseteq
                 {sessions'[reviewerRequestToMs'[handlers'[g].request.id]][w] :
                    w \in Wallet}
    BY <1>0, <1>4, <2>1 DEF KeysAfter
  <2>2. ASSUME NEW tx \in mempool', tx.request.kind = "reviewers"
        PROVE  Range(tx.answer) \subseteq
                 {sessions'[reviewerRequestToMs'[tx.request.id]][w] : w \in Wallet}
    BY <1>0, <1>5, <2>2 DEF KeysAfter
  <2> QED
    BY <2>1, <2>2 DEF MintedLast, Runs, KeysOnRecord
<1>7. PanelKeysKept'
  <2> SUFFICES ASSUME NEW k \in ManuscriptId, status[k] = "UNDER_REVIEW"
               PROVE  Range(reviewers[k]) \subseteq {sessions'[k][w] : w \in Wallet}
    BY <1>0 DEF PanelKeysKept
  <2>1. CASE k = m
    <3>1. reviewers[k] = <<>>
      BY <1>1, <1>2, <2>1, OneSelection
    <3> QED
      BY <3>1 DEF Range
  <2>2. CASE k # m
    BY <2>2 DEF PanelKeysKept
  <2> QED
    BY <2>1, <2>2
<1> QED
  BY <1>6, <1>7

LEMMA MintReviewerSessionsStep ==
  ASSUME OperatorInv, NEW h \in Handler, MintReviewerSessions(h)
  PROVE  OperatorInv'
<1> DEFINE r == handlers[h].request
           m == reviewerRequestToMs[r.id]
           size(c) == Cardinality(c)
           keys(c) == SubSeq(GeneratedKeys, nextKey, nextKey + size(c) - 1)
           keyOf(c) == KeyOf(c, size(c), SetToSeq(c), keys(c))
           Answering(c) ==
             /\ size(c) >= 3
             /\ handlers' = [handlers EXCEPT ![h].pc = "sending",
                                             ![h].answer = keys(c)]
             /\ UNCHANGED <<inflight, dropped>>
           Minting(c) == /\ size(c) = Count \/ size(c) < Count
                         /\ nextKey + size(c) - 1 <= Len(GeneratedKeys)
                         /\ StoreKeys(m, keyOf(c))
                         /\ nextKey' = nextKey + size(c)
                         /\ Fail(h) \/ Answering(c)
<1>1. /\ UNCHANGED <<vars, events, mempool, redeliveries>>
      /\ Runs(h, "working") /\ handlers[h] # Idle
      /\ r \in Request /\ r.kind = "reviewers" /\ Emitted(r)
  BY Known DEF MintReviewerSessions, processVars, Position
<1>2. ChainInv'
  BY <1>1, QuietChain
<1>3. handlers \in [Handler -> Invocation \cup {Idle}] /\ OperatorTyped
  BY Known DEF OperatorTyped
<1>4. CASE Fail(h) /\ UNCHANGED databaseVars
  <2>1. /\ sessions' \in [ManuscriptId -> [Wallet -> Address \cup {NoKey}]]
        /\ nextKey' \in 1 .. Len(GeneratedKeys) + 1
        /\ sessions' = sessions
    BY <1>3, <1>4 DEF OperatorTyped, databaseVars
  <2> QED
    BY <1>1, <1>2, <1>4, <2>1, FailedWork DEF OperatorInv
<1>5. ASSUME NEW chosen \in SUBSET VerifiedFor[field[m]], Minting(chosen)
      PROVE  OperatorInv'
  <2> DEFINE n == size(chosen)
             ks == keys(chosen)
  <2>1. m \in ManuscriptId /\ field[m] \in Field
    <3>1. r.id \in RequestId /\ r.id < nextReviewerRequestId
      BY <1>1, RequestIds DEF Emitted
    <3> QED
      BY <3>1 DEF OperatorInv, ChainInv, FieldsAssigned, TypeOK, OracleTypeOK
  <2>2. chosen \in SUBSET Wallet
    BY <2>1, <1>5, OperatorAssumption
  <2>3. n \in Nat
    BY <1>5, <2>2, SeatsAreTaken, FS_Subset, OperatorAssumption
  <2>4. /\ ks \in Seq(Address) /\ Len(ks) = n
        /\ ks \in Seq(Address \ Author) /\ IsInjective(ks)
        /\ nextKey' \in 1 .. Len(GeneratedKeys) + 1
    BY <1>3, <1>5, <2>3, NextKeys
  <2>5. /\ sessions' \in [ManuscriptId -> [Wallet -> Address \cup {NoKey}]]
        /\ \A k \in ManuscriptId : k # m => sessions'[k] = sessions[k]
        /\ Range(ks) \subseteq KeysAfter(m)
    <3>1. StoreKeys(m, KeyOf(chosen, n, SetToSeq(chosen), ks))
      BY <1>5
    <3> HIDE DEF ks
    <3> QED
      BY <1>3, <2>1, <2>2, <2>4, <3>1, NewKeys
  <2>6. Fail(h) \/ Answering(chosen)
    BY <1>5
  <2>7. CASE Fail(h)
    <3>1. /\ WorkInv' /\ (InOnePlace => InOnePlace')
          /\ \A g \in Handler : handlers'[g] = IF g = h THEN Idle ELSE handlers[g]
      BY <1>1, <2>4, <2>5, <2>7, FailedWork
    <3>2. OnceInv'
      <4> SUFFICES ASSUME redeliveries = 0
                   PROVE  InOnePlace' /\ MintedLast' /\ PanelKeysKept'
        BY <1>1 DEF OnceInv
      <4>1. InOnePlace /\ MintedLast /\ PanelKeysKept
        BY DEF OperatorInv, OnceInv
      <4>2. MintedLast' /\ PanelKeysKept'
        BY <1>1, <2>5, <3>1, <4>1, MintedOthers DEF Idle
      <4> QED
        BY <3>1, <4>1, <4>2
    <3> QED
      BY <1>2, <3>1, <3>2 DEF OperatorInv
  <2>8. CASE Answering(chosen)
    <3>1. ks \in AnswerValue /\ "sending" \in Position
      BY <2>4 DEF AnswerValue, Position
    <3>2. PICK x \in Invocation :
            /\ IsAt(x, "sending", r, ks)
            /\ handlers' = [handlers EXCEPT ![h] = x]
      <4>1. handlers' = [handlers EXCEPT ![h] = Goes(h, "sending", ks)]
        <5>1. [[handlers[h] EXCEPT !.pc = "sending"] EXCEPT !.answer = ks]
                = Goes(h, "sending", ks)
          BY <1>1, <3>1, WrittenAnswer
        <5> QED
          BY <1>3, <2>8, <5>1
      <4> HIDE DEF ks
      <4> QED
        BY <1>1, <3>1, <4>1, GoesOn
    <3>3. UNCHANGED <<inflight, dropped>>
      BY <2>8
    <3>9. n = Count
      BY <1>5, <2>3, <2>8 DEF Count
    <3> HIDE DEF ks
    <3>10. ks \in MintedPanels
      BY <2>4, <3>9 DEF MintedPanels
    <3>4. Answers(x.request, x.answer)
      BY <1>1, <3>2, <3>10 DEF Answers, IsAt
    <3>5. WorkInv'
      BY <1>1, <2>4, <2>5, <3>2, <3>3, <3>4, AdvancedWork DEF IsAt
    <3>6. InOnePlace => InOnePlace'
      BY <1>1, <3>2, AdvancedInOnePlace DEF Runs, IsAt
    <3>7. \A g \in Handler : handlers'[g] = IF g = h THEN x ELSE handlers[g]
      BY <1>3, <3>2
    <3>8. OnceInv'
      <4> SUFFICES ASSUME redeliveries = 0
                   PROVE  InOnePlace' /\ MintedLast' /\ PanelKeysKept'
        BY <1>1 DEF OnceInv
      <4>1. InOnePlace /\ MintedLast /\ PanelKeysKept
        BY DEF OperatorInv, OnceInv
      <4>2. MintedLast' /\ PanelKeysKept'
        BY <1>1, <2>5, <3>2, <3>7, <4>1, MintedOthers DEF IsAt
      <4> QED
        BY <3>6, <4>1, <4>2
    <3> QED
      BY <1>2, <3>5, <3>8 DEF OperatorInv
  <2> QED
    BY <2>6, <2>7, <2>8
<1>6. ASSUME ~ (Fail(h) /\ UNCHANGED databaseVars)
      PROVE  \E chosen \in SUBSET VerifiedFor[field[m]] : Minting(chosen)
  BY <1>6 DEF MintReviewerSessions, KeyOf
<1> HIDE DEF Minting
<1> QED
  BY <1>4, <1>5, <1>6
-----------------------------------------------------------------------------
(***************************************************************************)
(* An answer is mined.                                                     *)
(***************************************************************************)
LEMMA MinedWork ==
  ASSUME OperatorInv, NEW tx \in mempool, Mine(tx),
         \/ Closed(tx.request)
         \/ Answered(tx.request) /\ UNCHANGED vars
  PROVE  WorkInv'
<1> DEFINE r == tx.request
<1>1. /\ OperatorTyped /\ Prepared /\ OfChain /\ Followed /\ NoRequestForgotten
      /\ r \in Request
  BY Known
<1>2. /\ mempool' = mempool \ {tx}
      /\ UNCHANGED <<events, handlers, inflight, dropped, sessions, nextKey,
                     redeliveries>>
  BY DEF Mine, processVars, databaseVars
<1>3. /\ \A q \in Request : q # r => Same(q)
      /\ Answered(r)' /\ Emitted(r)'
  <2>1. CASE Closed(r)
    BY <2>1 DEF Closed
  <2>2. CASE Answered(r) /\ UNCHANGED vars
    BY <1>1, <2>2, QuietChain, Known DEF Same
  <2> QED
    BY <2>1, <2>2
<1>4. \A q \in Request : /\ Emitted(q) => Emitted(q)'
                         /\ Answered(q) => Answered(q)'
                         /\ Open(q)' => q # r /\ Open(q)
  BY <1>3 DEF Same, Open
<1>5. OperatorTyped'
  BY <1>1, <1>2 DEF OperatorTyped
<1>6. Prepared'
  BY <1>1, <1>2 DEF Prepared, Runs
<1>7. OfChain'
  BY <1>1, <1>2, <1>4, Known DEF OfChain
<1>8. Followed'
  <2>1. ASSUME NEW g \in Handler, Runs(g, "waiting")
        PROVE  \E q \in Request :
                 /\ q = handlers[g].request
                 /\ Answer(g) \in mempool' \/ Answered(q)' \/ q \in dropped
    <3>1. handlers[g].request \in Request
      BY <2>1, Known DEF Position
    <3>2. \/ Answer(g) \in mempool
          \/ Answered(handlers[g].request)
          \/ handlers[g].request \in dropped
      BY <1>1, <2>1 DEF Followed
    <3>3. Answer(g).request = handlers[g].request
      BY DEF Answer
    <3> QED
      BY <1>2, <1>3, <1>4, <3>1, <3>2, <3>3
  <2> QED
    BY <1>1, <1>2, <2>1 DEF Followed, Runs, Answer, InvocationsOf, Answered
<1>9. NoRequestForgotten'
  <2> SUFFICES ASSUME NEW q \in Request, Open(q)'
               PROVE  \/ q \in events
                      \/ InvocationsOf(q)' # {}
                      \/ \E tx2 \in mempool' : tx2.request = q
                      \/ q \in dropped
    BY <1>2 DEF NoRequestForgotten
  <2>1. Open(q) /\ q # r
    BY <1>4
  <2>2. InvocationsOf(q)' = InvocationsOf(q)
    BY <1>2 DEF InvocationsOf
  <2> QED
    BY <1>1, <1>2, <2>1, <2>2 DEF NoRequestForgotten
<1> QED
  BY <1>5, <1>6, <1>7, <1>8, <1>9 DEF WorkInv

LEMMA MinedOnce ==
  ASSUME OperatorInv, InOnePlace, MintedLast, PanelKeysKept,
         NEW tx \in mempool, Mine(tx), Closed(tx.request),
         \A m \in ManuscriptId : status'[m] = "UNDER_REVIEW" =>
           \/ status[m] = "UNDER_REVIEW" /\ reviewers'[m] = reviewers[m]
           \/ /\ tx.request.kind = "reviewers"
              /\ m = reviewerRequestToMs[tx.request.id]
              /\ reviewers'[m] = tx.answer
  PROVE  InOnePlace' /\ MintedLast' /\ PanelKeysKept'
<1> DEFINE r == tx.request
<1>1. /\ mempool' = mempool \ {tx} /\ r \in Request
      /\ UNCHANGED <<events, handlers, sessions>>
  BY Known DEF Mine, databaseVars
<1>2. \A q \in Request : q # r /\ Open(q) => Open(q)'
  BY DEF Closed, Same, Open
<1>3. \A q \in Request : Pending(q) => q # r /\ Pending(q)'
  BY <1>1, <1>2 DEF Pending
<1>4. \A q \in Request : InvocationsOf(q)' = InvocationsOf(q)
  BY <1>1 DEF InvocationsOf
<1>5. ASSUME NEW q \in events PROVE Pending(q)' /\ InvocationsOf(q)' = {}
  BY <1>3, <1>4, Known DEF InOnePlace
<1>6. ASSUME NEW g \in Handler, handlers[g] # Idle, ~ Runs(g, "waiting")
      PROVE  \E q \in Request : q = handlers[g].request /\ Pending(q)'
  BY <1>3, <1>6, Known DEF InOnePlace
<1>7. ASSUME NEW tx2 \in mempool' PROVE Open(tx2.request)'
  <2>1. tx2.request \in Request /\ Open(tx2.request) /\ tx2.request # r
    BY <1>1, Known DEF InOnePlace
  <2> QED
    BY <1>2, <2>1
<1>8. InOnePlace'
  BY <1>1, <1>5, <1>6, <1>7
  DEF InOnePlace, Runs, Pending, Open, Emitted, Answered
<1>9. MintedLast'
  <2>1. \A q \in Request : Emitted(q) /\ q.kind = "reviewers" =>
          reviewerRequestToMs'[q.id] = reviewerRequestToMs[q.id]
    BY RequestIds DEF Closed, ManuscriptsKept, Emitted
  <2>2. \A g \in Handler : Runs(g, "sending") =>
          handlers[g].request \in Request /\ Emitted(handlers[g].request)
    BY Known DEF Position
  <2>3. \A tx2 \in mempool' : tx2 \in mempool /\ tx2.request \in Request
                              /\ Emitted(tx2.request)
    BY <1>1, Known
  <2> QED
    <3>1. ASSUME NEW g \in Handler, handlers'[g].pc = "sending",
                 handlers'[g].request.kind = "reviewers"
          PROVE  Range(handlers'[g].answer) \subseteq
                   {sessions'[reviewerRequestToMs'[handlers'[g].request.id]][w] :
                      w \in Wallet}
      <4>1. /\ handlers' = handlers /\ sessions' = sessions
            /\ Runs(g, "sending") /\ handlers[g].request.kind = "reviewers"
        BY <1>1, <3>1 DEF Runs
      <4>2. Range(handlers[g].answer) \subseteq
              {sessions[reviewerRequestToMs[handlers[g].request.id]][w] :
                 w \in Wallet}
        BY <4>1 DEF MintedLast, KeysOnRecord
      <4>3. reviewerRequestToMs'[handlers[g].request.id]
              = reviewerRequestToMs[handlers[g].request.id]
        BY <2>1, <2>2, <4>1
      <4> QED
        BY <4>1, <4>2, <4>3
    <3>2. ASSUME NEW tx2 \in mempool', tx2.request.kind = "reviewers"
          PROVE  Range(tx2.answer) \subseteq
                   {sessions'[reviewerRequestToMs'[tx2.request.id]][w] : w \in Wallet}
      <4>1. Range(tx2.answer) \subseteq
              {sessions[reviewerRequestToMs[tx2.request.id]][w] : w \in Wallet}
        BY <2>3, <3>2 DEF MintedLast, KeysOnRecord
      <4>2. reviewerRequestToMs'[tx2.request.id] = reviewerRequestToMs[tx2.request.id]
        BY <2>1, <2>3, <3>2
      <4> QED
        BY <1>1, <4>1, <4>2
    <3> QED
      BY <3>1, <3>2 DEF MintedLast, Runs, KeysOnRecord
<1>10. PanelKeysKept'
  BY <1>1 DEF PanelKeysKept, MintedLast, KeysOnRecord
<1> QED
  BY <1>8, <1>9, <1>10

LEMMA MineStep ==
  ASSUME OperatorInv, NEW tx \in mempool, Mine(tx)
  PROVE  OperatorInv'
<1>1. /\ ChainInv'
      /\ \/ /\ Closed(tx.request)
            /\ \A m \in ManuscriptId : status'[m] = "UNDER_REVIEW" =>
                 \/ status[m] = "UNDER_REVIEW" /\ reviewers'[m] = reviewers[m]
                 \/ /\ tx.request.kind = "reviewers"
                    /\ m = reviewerRequestToMs[tx.request.id]
                    /\ reviewers'[m] = tx.answer
         \/ Answered(tx.request) /\ UNCHANGED vars
  BY MineChain, Known DEF OperatorInv
<1>2. WorkInv'
  BY <1>1, MinedWork
<1>3. OnceInv'
  <2> SUFFICES ASSUME redeliveries = 0
               PROVE  InOnePlace' /\ MintedLast' /\ PanelKeysKept'
    BY DEF OnceInv, Mine, processVars
  <2>1. InOnePlace /\ MintedLast /\ PanelKeysKept
    BY DEF OperatorInv, OnceInv
  <2>2. ~ Answered(tx.request)
    BY <2>1 DEF InOnePlace, Open
  <2> QED
    BY <1>1, <2>1, <2>2, MinedOnce
<1> QED
  BY <1>1, <1>2, <1>3 DEF OperatorInv
-----------------------------------------------------------------------------
(***************************************************************************)
(* The process stops, starts, or hears an event again.                     *)
(***************************************************************************)
LEMMA CrashStep == ASSUME OperatorInv, Crash PROVE OperatorInv'
<1>0. OperatorTyped /\ Prepared /\ OfChain /\ Followed /\ NoRequestForgotten
  BY Known
<1>1. /\ UNCHANGED <<vars, mempool, sessions, nextKey, redeliveries>>
      /\ dropped' = dropped \cup events
                      \cup {r \in Request : InvocationsOf(r) # {}}
      /\ events' = {} /\ inflight' = {}
      /\ handlers' = [h \in Handler |-> Idle]
  BY DEF Crash, databaseVars
<1>2. ChainInv' /\ \A q \in Request : Same(q)
  BY <1>1, QuietChain
<1>3. \A h \in Handler : handlers'[h] = Idle /\ handlers'[h].pc = "idle"
  BY <1>1 DEF Idle
<1>4. OperatorTyped'
  BY <1>0, <1>1 DEF OperatorTyped
<1>5. Prepared' /\ Followed'
  BY <1>0, <1>1, <1>3 DEF Prepared, Followed, Runs
<1>6. OfChain'
  BY <1>0, <1>1, <1>2, <1>3, Known DEF OfChain, Same
<1>7. NoRequestForgotten'
  BY <1>0, <1>1, <1>2 DEF NoRequestForgotten, Open, Same
<1>8. InOnePlace => InOnePlace'
  <2> SUFFICES ASSUME InOnePlace PROVE InOnePlace'
    OBVIOUS
  <2>1. \A tx \in mempool' : Open(tx.request)'
    BY <1>1, <1>2, Known DEF InOnePlace, Open, Same
  <2> QED
    BY <1>1, <1>3, <2>1 DEF InOnePlace
<1>9. OnceInv'
  BY <1>1, <1>3, <1>8, QuietOnce
<1> QED
  BY <1>2, <1>4, <1>5, <1>6, <1>7, <1>9 DEF OperatorInv, WorkInv

(* The invariant does not depend on whether the process runs.              *)
LEMMA SameWork ==
  ASSUME OperatorInv,
         UNCHANGED <<vars, events, handlers, inflight, mempool, dropped,
                     sessions, nextKey, redeliveries>>
  PROVE  OperatorInv'
<1>1. ChainInv' /\ \A q \in Request : Same(q)
  BY QuietChain
<1>2. UNCHANGED workVars /\ PanelsCalm /\ ManuscriptsKept
  BY QuietChain DEF workVars, databaseVars, PanelsCalm, ManuscriptsKept
<1>3. WorkInv'
  BY <1>1, <1>2, RequestedWork, Known
<1>4. OnceInv'
  BY <1>1, <1>2, RequestedOnce
<1> QED
  BY <1>1, <1>3, <1>4 DEF OperatorInv

LEMMA RedeliverStep ==
  ASSUME OperatorInv, NEW r \in Request, Redeliver(r)
  PROVE  OperatorInv'
<1>0. OperatorTyped /\ Prepared /\ OfChain /\ Followed /\ NoRequestForgotten
  BY Known
<1>1. /\ UNCHANGED <<vars, handlers, inflight, mempool, dropped, sessions,
                     nextKey>>
      /\ events' = events \cup {r} /\ Emitted(r)
      /\ redeliveries' = redeliveries + 1
  BY DEF Redeliver, databaseVars
<1>2. ChainInv' /\ \A q \in Request : Same(q)
  BY <1>1, QuietChain
<1>3. OperatorTyped' /\ redeliveries' # 0
  BY <1>0, <1>1 DEF OperatorTyped
<1>4. Prepared'
  BY <1>0, <1>1 DEF Prepared, Runs
<1>5. OfChain'
  BY <1>0, <1>1, <1>2, Known DEF OfChain, Same
<1>6. Followed'
  <2>1. ASSUME NEW g \in Handler, Runs(g, "waiting")
        PROVE  \E q \in Request :
                 /\ q = handlers[g].request
                 /\ Answer(g) \in mempool \/ Answered(q)' \/ q \in dropped
    BY <1>0, <1>2, <2>1, Known DEF Followed, Same, Position
  <2> QED
    BY <1>0, <1>1, <2>1 DEF Followed, Runs, Answer, InvocationsOf, Answered
<1>7. NoRequestForgotten'
  BY <1>0, <1>1, <1>2 DEF NoRequestForgotten, Open, Same, InvocationsOf
<1> QED
  BY <1>2, <1>3, <1>4, <1>5, <1>6, <1>7 DEF OperatorInv, WorkInv, OnceInv
-----------------------------------------------------------------------------
(***************************************************************************)
(* The invariant, and what it gives.                                       *)
(***************************************************************************)
LEMMA InitOperator == OperatorInit => OperatorInv
<1> SUFFICES ASSUME OperatorInit PROVE OperatorInv
  OBVIOUS
<1> USE DEF OperatorInit
<1>1. TypeOK /\ RequestInv
  BY InitType, InitRequestInv
<1>2. nextReviewerRequestId = 0 /\ nextPlagiarismRequestId = 0
  BY DEF Init, RegistryInit, OracleInit
<1>3. \A id \in RequestId : ~ (id < 0)
  BY Identifiers
<1>4. \A r \in Request : ~ Emitted(r)
  BY <1>2, <1>3, RequestIds DEF Emitted
<1>12. PanelsMinted
  BY DEF Init, RegistryInit, PanelsMinted
<1>5. ChainInv
  BY <1>1, <1>2, <1>3, <1>12 DEF ChainInv, FieldsAssigned
<1>6. \A h \in Handler : handlers[h] = Idle /\ handlers[h].pc = "idle"
  BY DEF Idle
<1>7. OperatorTyped
  <2>1. Len(GeneratedKeys) \in Nat
    BY OperatorAssumption
  <2> QED
    BY <2>1 DEF OperatorTyped
<1>8. WorkInv
  BY <1>4, <1>6, <1>7
  DEF WorkInv, Prepared, OfChain, Followed, Runs, NoRequestForgotten, Open
<1>9. InOnePlace /\ MintedLast
  BY <1>6 DEF InOnePlace, MintedLast, Runs
<1>10. \A m \in ManuscriptId : status[m] = "SUBMITTED"
  BY DEF Init, RegistryInit
<1>11. PanelKeysKept
  BY <1>10 DEF PanelKeysKept
<1> QED
  BY <1>5, <1>8, <1>9, <1>11 DEF OperatorInv, OnceInv

LEMMA NextOperator == OperatorInv /\ [OperatorNext]_allVars => OperatorInv'
<1> SUFFICES ASSUME OperatorInv, [OperatorNext]_allVars PROVE OperatorInv'
  OBVIOUS
<1>1. CASE AuthorOrEditor
  BY <1>1, AuthorOrEditorStep
<1>2. ASSUME NEW m \in ManuscriptId, NEW v \in Verdict, NEW n \in Nonce,
             Vote(m, v, n)
      PROVE  OperatorInv'
  BY <1>2, VoteStep
<1>3. ASSUME NEW h \in Handler, NEW r \in Request, Deliver(h, r)
      PROVE  OperatorInv'
  BY <1>3, DeliverStep
<1>4. ASSUME NEW h \in Handler, HandlerStep(h) PROVE OperatorInv'
  BY <1>4, AfterQueryStep, CheckPlagiarismStep, MintReviewerSessionsStep,
     SendAnswerStep, ConfirmStep DEF HandlerStep
<1>5. ASSUME NEW tx \in mempool, Mine(tx) PROVE OperatorInv'
  BY <1>5, MineStep
<1>6. CASE Crash
  BY <1>6, CrashStep
<1>7. CASE Restart
  BY <1>7, SameWork DEF Restart, databaseVars
<1>8. ASSUME NEW r \in Request, Redeliver(r) PROVE OperatorInv'
  BY <1>8, RedeliverStep
<1>9. CASE UNCHANGED allVars
  BY <1>9, SameWork DEF allVars, operatorVars
<1> QED
  BY <1>1, <1>2, <1>3, <1>4, <1>5, <1>6, <1>7, <1>8, <1>9 DEF OperatorNext

(* The contracts keep their invariant, and the operator its own, however   *)
(* events, handlers, crashes and redeliveries interleave.                  *)
THEOREM OperatorInvariant == OperatorSpec => []OperatorInv
BY InitOperator, NextOperator, PTL DEF OperatorSpec

(* An open request is on its way, in work, broadcast, or was given up on,  *)
(* for any number of handlers, crashes and redeliveries.                   *)
THEOREM RequestsAreFollowed == OperatorSpec => []NoRequestForgotten
<1>1. OperatorInv => NoRequestForgotten
  BY Known
<1> QED
  BY <1>1, OperatorInvariant, PTL

(* While every event is delivered once, each panel the registry waits for  *)
(* can sign: no failure, restart or late answer overwrites a key in use.   *)
THEOREM PanelsCanSign == OperatorSpec => []PanelKeysKeptIfDeliveredOnce
<1>1. OperatorInv => PanelKeysKeptIfDeliveredOnce
  BY DEF OperatorInv, OnceInv, PanelKeysKeptIfDeliveredOnce
<1> QED
  BY <1>1, OperatorInvariant, PTL

(* The operator's answers, refused and repeated ones included, leave one   *)
(* open request per waiting manuscript and none for the others.            *)
THEOREM RequestsMatchUnderOperator == OperatorSpec => []RequestsMatchStatus
<1>1. OperatorInv => RequestsMatchStatus
  BY DEF OperatorInv, ChainInv, RequestInv
<1> QED
  BY <1>1, OperatorInvariant, PTL

(***************************************************************************)
(* Every panel on chain is one the backend minted: exactly as many         *)
(* addresses as it selects reviewers, no two the same, none an author's.   *)
(* The contract refuses no list that names an address twice, and such a    *)
(* panel could never complete; the operator, whatever fails, is delivered  *)
(* again or crashes in between, sends none.                                *)
(***************************************************************************)
THEOREM PanelsAreMinted == OperatorSpec => []PanelsMinted
<1>1. OperatorInv => PanelsMinted
  BY DEF OperatorInv, ChainInv
<1> QED
  BY <1>1, OperatorInvariant, PTL
-----------------------------------------------------------------------------
(***************************************************************************)
(* The operator is an oracle the registry expects: seen from the contracts *)
(* each of its steps is one of the registry's or none.                     *)
(***************************************************************************)
LEMMA AuthorOrEditorIsNext == ASSUME AuthorOrEditor PROVE Next
<1>1. ASSUME NEW a \in Author, NEW c \in Cid, NEW n \in Nonce,
             \/ SubmitManuscript(a, c, n)
             \/ \E m \in ManuscriptId : ReviseManuscript(m, a, c, n)
      PROVE  Next
  BY <1>1 DEF Next
<1>2. ASSUME NEW m \in ManuscriptId, NEW f \in Field,
             SubmitEditorReview(m, TRUE, f) \/ SubmitEditorReview(m, FALSE, f)
      PROVE  Next
  BY <1>2 DEF Next
<1> QED
  BY <1>1, <1>2 DEF AuthorOrEditor

LEMMA VoteIsNext ==
  ASSUME ChainInv, NEW m \in ManuscriptId, NEW v \in Verdict, NEW n \in Nonce,
         Vote(m, v, n)
  PROVE  Next
<1>1. PICK a \in Signers(m) : SubmitReview(m, a, v, n)
  BY DEF Vote
<1>2. reviewers[m] \in Seq(Address)
  BY DEF ChainInv, TypeOK
<1>3. a \in Address
  BY <1>2 DEF Signers, Range
<1> QED
  BY <1>1, <1>3 DEF Next

LEMMA MineIsNext ==
  ASSUME MintedPanels \subseteq ReviewerLists,
         OperatorTyped, Prepared, NEW tx \in mempool, Mine(tx)
  PROVE  [Next]_vars
<1>1. tx.request \in Request
  BY DEF OperatorTyped
<1>2. tx.request.id \in RequestId
  BY <1>1, RequestIds
<1>3. Answers(tx.request, tx.answer)
  BY DEF Prepared
<1>4. CASE /\ tx.request.kind = "plagiarism"
           /\ AnswerPlagiarismCheck(tx.request.id, Head(tx.answer))
  <2>1. PICK s \in Score : tx.answer = <<s>>
    BY <1>3, <1>4 DEF Answers
  <2>2. AnswerPlagiarismCheck(tx.request.id, s)
    BY <1>4, <2>1
  <2> QED
    BY <1>2, <2>2 DEF Next
<1>5. CASE /\ tx.request.kind = "reviewers"
           /\ AnswerReviewerSelection(tx.request.id, tx.answer)
  <2>1. tx.answer \in ReviewerLists
    BY <1>3, <1>5 DEF Answers
  <2> QED
    BY <1>2, <1>5, <2>1 DEF Next
<1> QED
  BY <1>4, <1>5 DEF Mine

LEMMA OperatorStepIsNext ==
  ASSUME MintedPanels \subseteq ReviewerLists, OperatorInv,
         [OperatorNext]_allVars
  PROVE  [Next]_vars
<1>1. ASSUME NEW h, HandlerStep(h) PROVE UNCHANGED vars
  BY <1>1 DEF HandlerStep, AfterQuery, CheckPlagiarism, MintReviewerSessions,
              SendAnswer, Confirm
<1>2. ASSUME NEW h, NEW r, Deliver(h, r) PROVE UNCHANGED vars
  BY <1>2 DEF Deliver
<1>3. ASSUME NEW r, Redeliver(r) PROVE UNCHANGED vars
  BY <1>3 DEF Redeliver
<1>4. ASSUME Crash \/ Restart \/ UNCHANGED allVars PROVE UNCHANGED vars
  BY <1>4 DEF Crash, Restart, allVars
<1>5. ChainInv /\ OperatorTyped /\ Prepared
  BY Known DEF OperatorInv
<1> QED
  BY <1>1, <1>2, <1>3, <1>4, <1>5, AuthorOrEditorIsNext, VoteIsNext, MineIsNext
  DEF OperatorNext

(***************************************************************************)
(* The operator with its handlers, crashes and redeliveries implements the *)
(* registry with the oracle it assumes, provided the lists that oracle may *)
(* answer with include those the backend can mint: what is proved of the   *)
(* registry for any oracle holds with this one.                            *)
(***************************************************************************)
THEOREM OperatorImplementsRegistry ==
  ASSUME MintedPanels \subseteq ReviewerLists
  PROVE  OperatorSpec => Spec
<1>1. OperatorInit => Init
  BY DEF OperatorInit
<1>2. (MintedPanels \subseteq ReviewerLists) /\ OperatorInv
        /\ [OperatorNext]_allVars => [Next]_vars
  BY OperatorStepIsNext
<1> QED
  BY <1>1, <1>2, OperatorInvariant, PTL DEF OperatorSpec, Spec
=============================================================================
