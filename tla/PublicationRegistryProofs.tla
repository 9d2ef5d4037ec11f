---------------------- MODULE PublicationRegistryProofs ----------------------
(***************************************************************************)
(* Theorems about PublicationRegistry, for every number of manuscripts,    *)
(* requests, addresses, panels and scores.                                 *)
(***************************************************************************)
EXTENDS PublicationRegistry, FiniteSetTheorems, TLAPS

(***************************************************************************)
(* Type correctness, one lemma per transaction.                            *)
(***************************************************************************)

(* The number of times an account occurs in a panel is a natural number.   *)
LEMMA OccurrencesType ==
  ASSUME NEW x, NEW list \in Seq(Address)
  PROVE  Occurrences(x, list) \in Nat
<1>1. IsFiniteSet(1 .. Len(list))
  BY FS_Interval
<1>2. {i \in DOMAIN list : list[i] = x} \subseteq 1 .. Len(list)
  OBVIOUS
<1>3. IsFiniteSet({i \in DOMAIN list : list[i] = x})
  BY <1>1, <1>2, FS_Subset
<1>4. QED
  BY <1>3, FS_CardinalityType DEF Occurrences

LEMMA NatProduct ==
  ASSUME NEW i \in Nat, NEW j \in Nat
  PROVE  i * j \in Nat
OBVIOUS

(* Paying the fee keeps every balance and allowance a natural number: the  *)
(* checks of the transfers are enough.                                     *)
LEMMA PayFromFeeType ==
  ASSUME TokenTypeOK, NEW payer \in Address, NEW list \in Seq(Address),
         PayFromFee(payer, list)
  PROVE  TokenTypeOK'
<1> USE TokenAssumption
<1>1. allowance' \in [Address -> Nat]
  BY DEF TokenTypeOK, PayFromFee
<1> DEFINE new(x) == balance[x] + REVIEWER_INCENTIVE * Occurrences(x, list)
                     + (IF x = Registry
                        THEN PUBLICATION_FEE - PaidOut(list) ELSE 0)
                     - (IF x = payer THEN PUBLICATION_FEE ELSE 0)
<1>2. ASSUME NEW x \in Account
      PROVE  new(x) \in Nat
  <2> DEFINE inc == REVIEWER_INCENTIVE * Occurrences(x, list)
             out == PaidOut(list)
  <2>1. inc \in Nat
    BY OccurrencesType, NatProduct
  <2>2. out \in Nat
    BY NatProduct DEF PaidOut
  <2>3. balance[x] \in Nat /\ balance[payer] \in Nat /\ balance[Registry] \in Nat
    BY <1>2 DEF TokenTypeOK, Account
  <2>4. /\ balance[payer] >= PUBLICATION_FEE
        /\ balance[Registry] + PUBLICATION_FEE >= out
    BY DEF PayFromFee
  <2>5. payer # Registry
    OBVIOUS
  <2> HIDE DEF inc, out
  <2>6. new(x) = balance[x] + inc + (IF x = Registry
                        THEN PUBLICATION_FEE - out ELSE 0)
                     - (IF x = payer THEN PUBLICATION_FEE ELSE 0)
    BY DEF inc, out
  <2> QED
    BY <2>1, <2>2, <2>3, <2>4, <2>5, <2>6
<1>3. balance' = [x \in Account |-> new(x)]
  BY DEF PayFromFee
<1>4. balance' \in [Account -> Nat]
  <2> HIDE DEF new
  <2> QED BY <1>2, <1>3
<1> QED
  BY <1>1, <1>4 DEF TokenTypeOK

LEMMA TransferType ==
  ASSUME TokenTypeOK, NEW from \in Account, NEW to \in Account,
         NEW amount \in Nat, Transfer(from, to, amount)
  PROVE  TokenTypeOK'
BY DEF TokenTypeOK, Transfer

(* What the proofs need to know of identifiers.                            *)
LEMMA Identifiers ==
  /\ ManuscriptId \subseteq Nat
  /\ RequestId \subseteq Nat
  /\ 0 \in ManuscriptId
  /\ \A n \in 0 .. MaxManuscripts :
       /\ n \in Nat /\ n + 1 \in Nat
       /\ n < MaxManuscripts => n \in ManuscriptId /\ n + 1 \in 0 .. MaxManuscripts
  /\ \A n \in 0 .. MaxRequests :
       /\ n \in Nat /\ n + 1 \in Nat
       /\ n < MaxRequests => n \in RequestId /\ n + 1 \in 0 .. MaxRequests
BY BoundsAssumption DEF ManuscriptId, RequestId

LEMMA InitType == Init => TypeOK
<1> SUFFICES ASSUME Init PROVE TypeOK
  OBVIOUS
<1> USE TokenAssumption, RegistryAssumption DEF Init, RegistryInit
<1>1. OracleTypeOK
  BY Identifiers, BoundsAssumption DEF OracleInit, OracleTypeOK
<1>2. TokenTypeOK
  BY DEF TokenInit, TokenTypeOK, Account
<1>3. NoVotes \in [Verdict -> Nat]
  BY DEF NoVotes
<1>4. "SUBMITTED" \in Status
  BY DEF Status
<1>5. 0 \in 0 .. MaxManuscripts
  BY BoundsAssumption
<1>6. <<>> \in Seq(DoiToken) /\ <<>> \in Seq(Address)
  OBVIOUS
<1> QED
  BY <1>1, <1>2, <1>3, <1>4, <1>5, <1>6 DEF TypeOK

LEMMA RequestPlagiarismCheckType ==
  ASSUME OracleTypeOK, NEW m \in ManuscriptId, NEW c \in Cid,
         RequestPlagiarismCheck(m, c)
  PROVE  OracleTypeOK'
<1>1. nextPlagiarismRequestId' \in 0 .. MaxRequests
  BY Identifiers DEF OracleTypeOK, RequestPlagiarismCheck
<1> QED
  BY <1>1 DEF OracleTypeOK, RequestPlagiarismCheck, reviewerVars

LEMMA RequestRandomReviewersType ==
  ASSUME OracleTypeOK, NEW m \in ManuscriptId, RequestRandomReviewers(m)
  PROVE  OracleTypeOK'
<1>1. nextReviewerRequestId' \in 0 .. MaxRequests
  BY Identifiers DEF OracleTypeOK, RequestRandomReviewers
<1> QED
  BY <1>1 DEF OracleTypeOK, RequestRandomReviewers, plagiarismVars

LEMMA SubmitManuscriptType ==
  ASSUME TypeOK, NEW a \in Author, NEW c \in Cid, NEW n \in Nonce,
         SubmitManuscript(a, c, n)
  PROVE  TypeOK'
<1> USE RegistryAssumption
<1>1. nextManuscriptId \in ManuscriptId /\ nextManuscriptId' \in 0 .. MaxManuscripts
  BY Identifiers DEF TypeOK, SubmitManuscript
<1>2. OracleTypeOK'
  BY <1>1, RequestPlagiarismCheckType DEF TypeOK, SubmitManuscript
<1>3. TokenTypeOK'
  BY DEF TypeOK, TokenTypeOK, SubmitManuscript, tokenVars
<1>4. nonces' \in [Address -> Nat]
  BY DEF TypeOK, SubmitManuscript, UseNonce
<1> QED
  BY <1>1, <1>2, <1>3, <1>4
  DEF TypeOK, SubmitManuscript, reviewVars, Status

LEMMA AnswerPlagiarismCheckType ==
  ASSUME TypeOK, NEW id \in RequestId, NEW s \in Score,
         AnswerPlagiarismCheck(id, s)
  PROVE  TypeOK'
<1> USE RegistryAssumption
        DEF AnswerPlagiarismCheck, FulfillPlagiarismCheck, FulfillPlagiarism
<1>1. OracleTypeOK'
  BY DEF TypeOK, OracleTypeOK, reviewerVars
<1>2. TokenTypeOK'
  BY DEF TypeOK, TokenTypeOK, tokenVars
<1>3. plagiarismRequestToMs[id] \in ManuscriptId
  BY DEF TypeOK, OracleTypeOK
<1> QED
  BY <1>1, <1>2, <1>3
  DEF TypeOK, submissionVars, contentVars, reviewVars, Status

LEMMA SubmitEditorReviewType ==
  ASSUME TypeOK, NEW m \in ManuscriptId, NEW approve \in BOOLEAN,
         NEW f \in Field, SubmitEditorReview(m, approve, f)
  PROVE  TypeOK'
<1> USE DEF SubmitEditorReview
<1>1. OracleTypeOK'
  <2>1. CASE approve
    BY <2>1, RequestRandomReviewersType DEF TypeOK
  <2>2. CASE ~ approve
    BY <2>2 DEF TypeOK, OracleTypeOK, oracleVars, plagiarismVars, reviewerVars
  <2> QED
    BY <2>1, <2>2
<1>2. TokenTypeOK'
  BY DEF TypeOK, TokenTypeOK, tokenVars
<1>3. /\ status' \in [ManuscriptId -> Status]
      /\ field' \in [ManuscriptId -> Field \cup {NoField}]
  <2>1. CASE approve
    <3>1. /\ status' = [status EXCEPT ![m] = "UNDER_REVIEW"]
          /\ field' = [field EXCEPT ![m] = f]
      BY <2>1
    <3> QED
      BY <3>1 DEF TypeOK, Status
  <2>2. CASE ~ approve
    BY <2>2 DEF TypeOK, Status
  <2> QED
    BY <2>1, <2>2
<1> QED
  BY <1>1, <1>2, <1>3 DEF TypeOK, submissionVars, contentVars, reviewVars

LEMMA AnswerReviewerSelectionType ==
  ASSUME TypeOK, NEW id \in RequestId, NEW list \in Seq(Address),
         AnswerReviewerSelection(id, list)
  PROVE  TypeOK'
<1> USE RegistryAssumption
        DEF AnswerReviewerSelection, FulfillReviewerSelection,
            FulfillRandomReviewers
<1>1. OracleTypeOK'
  BY DEF TypeOK, OracleTypeOK, plagiarismVars
<1>2. TokenTypeOK'
  BY DEF TypeOK, TokenTypeOK, tokenVars
<1>3. list \in Seq(Address)
  OBVIOUS
<1> QED
  BY <1>1, <1>2, <1>3 DEF TypeOK, submissionVars, contentVars

LEMMA DecisionType ==
  ASSUME NEW votes, NEW n
  PROVE  Decision(votes, n) \in {"ACCEPTED", "REJECTED", "REVISION_REQUESTED"}
BY DEF Decision

LEMMA SubmitReviewType ==
  ASSUME TypeOK, NEW m \in ManuscriptId, NEW a \in Address,
         NEW v \in Verdict, NEW n \in Nonce, SubmitReview(m, a, v, n)
  PROVE  TypeOK'
<1> USE DEF SubmitReview
<1>1. OracleTypeOK'
  BY DEF TypeOK, OracleTypeOK, oracleVars, plagiarismVars, reviewerVars
<1>2. TokenTypeOK'
  BY DEF TypeOK, TokenTypeOK, tokenVars
<1>3. nonces' \in [Address -> Nat]
  BY DEF TypeOK, UseNonce
<1>4. status' \in [ManuscriptId -> Status]
  BY DecisionType DEF TypeOK, Status
<1>5. reviewEvents' \subseteq ReviewEvent
  BY DEF TypeOK, ReviewEvent
<1>6. verdictCount' \in [ManuscriptId -> [Verdict -> Nat]]
  BY DEF TypeOK
<1>7. /\ hasReviewed' \in [ManuscriptId -> SUBSET Address]
      /\ reviewCount' \in [ManuscriptId -> Nat]
  BY DEF TypeOK
<1>8. UNCHANGED <<nextManuscriptId, author, cid, version, plagiarismScore,
                  field, reviewers, doiTokens>>
  BY DEF submissionVars, contentVars
<1> HIDE DEF SubmitReview
<1> QED
  BY <1>1, <1>2, <1>3, <1>4, <1>5, <1>6, <1>7, <1>8 DEF TypeOK

LEMMA ReviseManuscriptType ==
  ASSUME TypeOK, NEW m \in ManuscriptId, NEW a \in Author, NEW c \in Cid,
         NEW n \in Nonce, ReviseManuscript(m, a, c, n)
  PROVE  TypeOK'
<1> USE DEF ReviseManuscript
<1>1. OracleTypeOK'
  BY RequestPlagiarismCheckType DEF TypeOK
<1>2. TokenTypeOK'
  BY DEF TypeOK, TokenTypeOK, tokenVars
<1>3. nonces' \in [Address -> Nat]
  BY RegistryAssumption DEF TypeOK, UseNonce
<1>4. /\ reviewers' \in [ManuscriptId -> Seq(Address)]
      /\ hasReviewed' \in [ManuscriptId -> SUBSET Address]
      /\ reviewCount' \in [ManuscriptId -> Nat]
      /\ verdictCount' \in [ManuscriptId -> [Verdict -> Nat]]
  BY DEF TypeOK, ResetReviewState, NoVotes
<1>5. /\ cid' \in [ManuscriptId -> Cid \cup {NoCid}]
      /\ version' \in [ManuscriptId -> Nat]
      /\ status' \in [ManuscriptId -> Status]
  BY DEF TypeOK, Status
<1>6. UNCHANGED <<nextManuscriptId, author, plagiarismScore, field, doiTokens,
                  reviewEvents>>
  BY DEF submissionVars
<1> HIDE DEF ReviseManuscript
<1> QED
  BY <1>1, <1>2, <1>3, <1>4, <1>5, <1>6 DEF TypeOK

LEMMA PayPublicationFeeType ==
  ASSUME TypeOK, NEW m \in ManuscriptId, NEW a \in Author,
         PayPublicationFee(m, a)
  PROVE  TypeOK'
<1> USE DEF PayPublicationFee
<1>1. OracleTypeOK'
  BY DEF TypeOK, OracleTypeOK, oracleVars, plagiarismVars, reviewerVars
<1>2. TokenTypeOK'
  BY PayFromFeeType, RegistryAssumption DEF TypeOK
<1>3. doiTokens' \in Seq(DoiToken)
  BY RegistryAssumption DEF TypeOK, DoiToken
<1> QED
  BY <1>1, <1>2, <1>3
  DEF TypeOK, submissionVars, contentVars, reviewVars, Status

(* The wallets' token moves change nothing but the token.                  *)
LEMMA TokenMoveType ==
  ASSUME TypeOK, TokenTypeOK', UNCHANGED tokenFrame
  PROVE  TypeOK'
BY DEF TypeOK, OracleTypeOK, tokenFrame, registryVars, submissionVars,
       contentVars, reviewVars, oracleVars, plagiarismVars, reviewerVars

LEMMA WalletMoveType ==
  ASSUME TypeOK, NEW a \in Address,
         FundAuthor(a) \/ ApproveFee(a) \/ Withdraw(a)
  PROVE  TypeOK'
<1> USE TokenAssumption
<1>1. balance[a] \in Nat /\ a \in Account /\ Funder \in Account
  BY DEF TypeOK, TokenTypeOK, Account
<1>2. TokenTypeOK'
  <2>1. CASE FundAuthor(a)
    BY <1>1, <2>1, TransferType DEF FundAuthor, TypeOK
  <2>2. CASE ApproveFee(a)
    BY <2>2 DEF ApproveFee, Approve, TypeOK, TokenTypeOK
  <2>3. CASE Withdraw(a)
    BY <1>1, <2>3, TransferType DEF Withdraw, TypeOK
  <2> QED
    BY <2>1, <2>2, <2>3
<1> QED
  BY <1>2, TokenMoveType DEF FundAuthor, ApproveFee, Withdraw

LEMMA NextType == ASSUME TypeOK, [Next]_vars PROVE TypeOK'
<1>1. CASE Next
  BY <1>1, RegistryAssumption, SubmitManuscriptType,
     AnswerPlagiarismCheckType, SubmitEditorReviewType,
     AnswerReviewerSelectionType, SubmitReviewType, ReviseManuscriptType,
     PayPublicationFeeType, WalletMoveType DEF Next
<1>2. CASE UNCHANGED vars
  BY <1>2 DEF vars, TypeOK, OracleTypeOK, TokenTypeOK, registryVars,
    submissionVars, contentVars, reviewVars, oracleVars, plagiarismVars,
    reviewerVars, tokenVars
<1> QED
  BY <1>1, <1>2

(* TypeOK is an invariant.                                                 *)
THEOREM TypeCorrect == Spec => []TypeOK
BY InitType, NextType, PTL DEF Spec

(***************************************************************************)
(* RequestsMatchStatus.  The oracle's operations are characterised by what *)
(* they do to the sets of open requests; a transaction then only has to    *)
(* match that with what it does to the status and the panel.               *)
(***************************************************************************)

LEMMA OpenAfterPlagiarismRequest ==
  ASSUME TypeOK, UnusedIsBlank, NEW m \in ManuscriptId, NEW c,
         RequestPlagiarismCheck(m, c), NEW k \in ManuscriptId
  PROVE  /\ OpenPlagiarismRequests(k)' =
              OpenPlagiarismRequests(k)
                \cup (IF k = m THEN {nextPlagiarismRequestId} ELSE {})
         /\ OpenReviewerRequests(k)' = OpenReviewerRequests(k)
<1> DEFINE nxt == nextPlagiarismRequestId
<1>1. nxt \in RequestId /\ nxt \in Nat /\ nxt' = nxt + 1
  BY Identifiers DEF TypeOK, OracleTypeOK, RequestPlagiarismCheck
<1>2. ~ plagiarismRequestFulfilled[nxt]
  BY <1>1 DEF UnusedIsBlank
<1>3. OpenReviewerRequests(k)' = OpenReviewerRequests(k)
  BY DEF RequestPlagiarismCheck, reviewerVars, OpenReviewerRequests
<1>4. ASSUME NEW id \in RequestId
      PROVE  id \in OpenPlagiarismRequests(k)' <=>
               \/ id \in OpenPlagiarismRequests(k)
               \/ id = nxt /\ k = m
  <2>1. id \in Nat
    BY Identifiers
  <2>2. id < nxt' <=> id < nxt \/ id = nxt
    BY <1>1, <2>1
  <2>3. plagiarismRequestToMs'[id] =
          IF id = nxt THEN m ELSE plagiarismRequestToMs[id]
    BY <1>1 DEF TypeOK, OracleTypeOK, RequestPlagiarismCheck
  <2>4. plagiarismRequestFulfilled'[id] = plagiarismRequestFulfilled[id]
    BY DEF RequestPlagiarismCheck
  <2>5. ~ (nxt < nxt)
    BY <1>1
  <2> QED
    BY <1>2, <2>2, <2>3, <2>4, <2>5
    DEF OpenPlagiarismRequests, PlagiarismRequests
<1>5. /\ OpenPlagiarismRequests(k) \subseteq RequestId
      /\ OpenPlagiarismRequests(k)' \subseteq RequestId
  BY DEF OpenPlagiarismRequests, PlagiarismRequests
<1> QED
  BY <1>1, <1>3, <1>4, <1>5

LEMMA OpenAfterReviewerRequest ==
  ASSUME TypeOK, UnusedIsBlank, NEW m \in ManuscriptId,
         RequestRandomReviewers(m), NEW k \in ManuscriptId
  PROVE  /\ OpenReviewerRequests(k)' =
              OpenReviewerRequests(k)
                \cup (IF k = m THEN {nextReviewerRequestId} ELSE {})
         /\ OpenPlagiarismRequests(k)' = OpenPlagiarismRequests(k)
<1> DEFINE nxt == nextReviewerRequestId
<1>1. nxt \in RequestId /\ nxt \in Nat /\ nxt' = nxt + 1
  BY Identifiers DEF TypeOK, OracleTypeOK, RequestRandomReviewers
<1>2. ~ reviewerRequestFulfilled[nxt]
  BY <1>1 DEF UnusedIsBlank
<1>3. OpenPlagiarismRequests(k)' = OpenPlagiarismRequests(k)
  BY DEF RequestRandomReviewers, plagiarismVars, OpenPlagiarismRequests,
         PlagiarismRequests
<1>4. ASSUME NEW id \in RequestId
      PROVE  id \in OpenReviewerRequests(k)' <=>
               \/ id \in OpenReviewerRequests(k)
               \/ id = nxt /\ k = m
  <2>1. id \in Nat
    BY Identifiers
  <2>2. id < nxt' <=> id < nxt \/ id = nxt
    BY <1>1, <2>1
  <2>3. reviewerRequestToMs'[id] =
          IF id = nxt THEN m ELSE reviewerRequestToMs[id]
    BY <1>1 DEF TypeOK, OracleTypeOK, RequestRandomReviewers
  <2>4. reviewerRequestFulfilled'[id] = reviewerRequestFulfilled[id]
    BY DEF RequestRandomReviewers
  <2>5. ~ (nxt < nxt)
    BY <1>1
  <2> QED
    BY <1>2, <2>2, <2>3, <2>4, <2>5 DEF OpenReviewerRequests
<1>5. /\ OpenReviewerRequests(k) \subseteq RequestId
      /\ OpenReviewerRequests(k)' \subseteq RequestId
  BY DEF OpenReviewerRequests
<1> QED
  BY <1>1, <1>3, <1>4, <1>5

LEMMA OpenAfterPlagiarismAnswer ==
  ASSUME TypeOK, NEW id \in RequestId, NEW s,
         FulfillPlagiarismCheck(id, s), NEW k \in ManuscriptId
  PROVE  /\ id \in OpenPlagiarismRequests(plagiarismRequestToMs[id])
         /\ OpenPlagiarismRequests(k)' = OpenPlagiarismRequests(k) \ {id}
         /\ OpenReviewerRequests(k)' = OpenReviewerRequests(k)
BY DEF TypeOK, OracleTypeOK, FulfillPlagiarismCheck, reviewerVars,
       OpenReviewerRequests, OpenPlagiarismRequests, PlagiarismRequests

LEMMA OpenAfterReviewerAnswer ==
  ASSUME TypeOK, NEW id \in RequestId, NEW list,
         FulfillReviewerSelection(id, list), NEW k \in ManuscriptId
  PROVE  /\ id \in OpenReviewerRequests(reviewerRequestToMs[id])
         /\ OpenReviewerRequests(k)' = OpenReviewerRequests(k) \ {id}
         /\ OpenPlagiarismRequests(k)' = OpenPlagiarismRequests(k)
BY DEF TypeOK, OracleTypeOK, FulfillReviewerSelection, plagiarismVars,
       OpenReviewerRequests, OpenPlagiarismRequests, PlagiarismRequests

LEMMA OpenUnchanged ==
  ASSUME UNCHANGED oracleVars, NEW k \in ManuscriptId
  PROVE  /\ OpenReviewerRequests(k)' = OpenReviewerRequests(k)
         /\ OpenPlagiarismRequests(k)' = OpenPlagiarismRequests(k)
BY DEF oracleVars, plagiarismVars, reviewerVars, OpenReviewerRequests,
       OpenPlagiarismRequests, PlagiarismRequests

LEMMA StillBlank ==
  ASSUME TypeOK, UnusedIsBlank,
         \/ \E m, c : RequestPlagiarismCheck(m, c)
         \/ \E m : RequestRandomReviewers(m)
         \/ \E id \in RequestId : \E s : FulfillPlagiarismCheck(id, s)
         \/ \E id \in RequestId : \E list : FulfillReviewerSelection(id, list)
         \/ UNCHANGED oracleVars
  PROVE  UnusedIsBlank'
<1> SUFFICES ASSUME NEW i \in RequestId
             PROVE  /\ nextPlagiarismRequestId' <= i =>
                         ~ plagiarismRequestFulfilled'[i]
                    /\ nextReviewerRequestId' <= i =>
                         ~ reviewerRequestFulfilled'[i]
  BY DEF UnusedIsBlank
<1> USE DEF UnusedIsBlank
<1>1. /\ i \in Nat
      /\ nextPlagiarismRequestId \in Nat
      /\ nextReviewerRequestId \in Nat
  BY Identifiers DEF TypeOK, OracleTypeOK
<1>2. CASE \E m, c : RequestPlagiarismCheck(m, c)
  BY <1>1, <1>2 DEF RequestPlagiarismCheck, reviewerVars
<1>3. CASE \E m : RequestRandomReviewers(m)
  BY <1>1, <1>3 DEF RequestRandomReviewers, plagiarismVars
<1>4. CASE \E id \in RequestId : \E s : FulfillPlagiarismCheck(id, s)
  <2>0. PICK id \in RequestId : \E s : FulfillPlagiarismCheck(id, s)
    BY <1>4
  <2>1. PICK s : FulfillPlagiarismCheck(id, s)
    BY <2>0
  <2>2. id \in Nat /\ id < nextPlagiarismRequestId
    BY <2>1, Identifiers DEF FulfillPlagiarismCheck
  <2>3. i # id => plagiarismRequestFulfilled'[i] = plagiarismRequestFulfilled[i]
    BY <2>1 DEF FulfillPlagiarismCheck, TypeOK, OracleTypeOK
  <2>4. UNCHANGED <<nextPlagiarismRequestId, nextReviewerRequestId,
                    reviewerRequestFulfilled>>
    BY <2>1 DEF FulfillPlagiarismCheck, reviewerVars
  <2> QED
    BY <1>1, <2>2, <2>3, <2>4
<1>5. CASE \E id \in RequestId : \E list : FulfillReviewerSelection(id, list)
  <2>0. PICK id \in RequestId : \E list : FulfillReviewerSelection(id, list)
    BY <1>5
  <2>1. PICK list : FulfillReviewerSelection(id, list)
    BY <2>0
  <2>2. id \in Nat /\ id < nextReviewerRequestId
    BY <2>1, Identifiers DEF FulfillReviewerSelection
  <2>3. i # id => reviewerRequestFulfilled'[i] = reviewerRequestFulfilled[i]
    BY <2>1 DEF FulfillReviewerSelection, TypeOK, OracleTypeOK
  <2>4. UNCHANGED <<nextPlagiarismRequestId, nextReviewerRequestId,
                    plagiarismRequestFulfilled>>
    BY <2>1 DEF FulfillReviewerSelection, plagiarismVars
  <2> QED
    BY <1>1, <2>2, <2>3, <2>4
<1>6. CASE UNCHANGED oracleVars
  BY <1>6 DEF oracleVars, plagiarismVars, reviewerVars
<1> QED
  BY <1>2, <1>3, <1>4, <1>5, <1>6

LEMMA InitRequestInv == Init => RequestInv
<1> SUFFICES ASSUME Init PROVE RequestInv
  OBVIOUS
<1> USE Identifiers DEF Init, RegistryInit, OracleInit
<1>1. StatusOnceSubmitted /\ UnusedIsBlank
  BY DEF StatusOnceSubmitted, UnusedIsBlank, Exists
<1>2. NoPanelYet
  BY DEF NoPanelYet
<1>3. ASSUME NEW k \in ManuscriptId
      PROVE  OpenPlagiarismRequests(k) = {} /\ OpenReviewerRequests(k) = {}
  BY DEF OpenPlagiarismRequests, PlagiarismRequests, OpenReviewerRequests
<1>4. ASSUME NEW k \in ManuscriptId
      PROVE  status[k] # "CHECKING" /\ ~ Unanswered(k)
  BY DEF Unanswered
<1>5. RequestsMatchStatus
  BY <1>3, <1>4 DEF RequestsMatchStatus
<1> QED
  BY <1>1, <1>2, <1>5 DEF RequestInv

LEMMA SubmitManuscriptRequests ==
  ASSUME TypeOK, RequestInv, NEW a, NEW c \in Cid, NEW n,
         SubmitManuscript(a, c, n)
  PROVE  RequestInv'
<1> DEFINE m == nextManuscriptId
<1>1. m \in ManuscriptId /\ m \in Nat /\ m' = m + 1
  BY Identifiers DEF TypeOK, SubmitManuscript
<1>2. status[m] = "SUBMITTED" /\ reviewers[m] = <<>>
  BY <1>1 DEF RequestInv, StatusOnceSubmitted, NoPanelYet, Exists
<1>3. /\ status' = [status EXCEPT ![m] = "CHECKING"]
      /\ reviewers' = reviewers
      /\ RequestPlagiarismCheck(m, c)
  BY DEF SubmitManuscript, reviewVars
<1>4. StatusOnceSubmitted'
  <2> SUFFICES ASSUME NEW k \in ManuscriptId
               PROVE  Exists(k)' <=> status'[k] # "SUBMITTED"
    BY DEF StatusOnceSubmitted
  <2>1. k \in Nat
    BY Identifiers
  <2>2. Exists(k)' <=> Exists(k) \/ k = m
    BY <1>1, <2>1 DEF Exists
  <2> QED
    BY <1>3, <2>2 DEF RequestInv, StatusOnceSubmitted, TypeOK
<1>5. NoPanelYet'
  BY <1>2, <1>3 DEF RequestInv, NoPanelYet, TypeOK
<1>6. RequestsMatchStatus'
  <2> SUFFICES ASSUME NEW k \in ManuscriptId
               PROVE  /\ \A id, id2 \in OpenPlagiarismRequests(k)' : id = id2
                      /\ \A id, id2 \in OpenReviewerRequests(k)' : id = id2
                      /\ status'[k] = "CHECKING" <=>
                           OpenPlagiarismRequests(k)' # {}
                      /\ Unanswered(k)' <=> OpenReviewerRequests(k)' # {}
    BY DEF RequestsMatchStatus
  <2>1. /\ OpenPlagiarismRequests(k)' = OpenPlagiarismRequests(k)
             \cup (IF k = m THEN {nextPlagiarismRequestId} ELSE {})
        /\ OpenReviewerRequests(k)' = OpenReviewerRequests(k)
    BY <1>1, <1>3, OpenAfterPlagiarismRequest DEF RequestInv
  <2>2. CASE k = m
    <3>1. OpenPlagiarismRequests(m) = {} /\ OpenReviewerRequests(m) = {}
      BY <1>1, <1>2 DEF RequestInv, RequestsMatchStatus, Unanswered
    <3>2. status'[k] = "CHECKING" /\ ~ Unanswered(k)'
      BY <1>3, <2>2 DEF TypeOK, Unanswered
    <3> QED
      BY <2>1, <2>2, <3>1, <3>2
  <2>3. CASE k # m
    BY <1>1, <1>3, <2>1, <2>3
    DEF RequestInv, RequestsMatchStatus, Unanswered, TypeOK
  <2> QED
    BY <2>2, <2>3
<1>7. UnusedIsBlank'
  BY <1>3, StillBlank DEF RequestInv
<1> QED
  BY <1>4, <1>5, <1>6, <1>7 DEF RequestInv


LEMMA AnswerPlagiarismCheckRequests ==
  ASSUME TypeOK, RequestInv, NEW id \in RequestId, NEW s,
         AnswerPlagiarismCheck(id, s)
  PROVE  RequestInv'
<1> DEFINE m == plagiarismRequestToMs[id]
<1>1. m \in ManuscriptId
  BY DEF TypeOK, OracleTypeOK
<1>2. /\ FulfillPlagiarismCheck(id, s)
      /\ status[m] = "CHECKING"
      /\ UNCHANGED <<nextManuscriptId, reviewers>>
  BY DEF AnswerPlagiarismCheck, FulfillPlagiarism, RequireState,
         submissionVars, reviewVars
<1>3. /\ status'[m] \in {"REJECTED", "PENDING_EDITOR"}
      /\ \A k \in ManuscriptId : k # m => status'[k] = status[k]
  BY <1>1 DEF AnswerPlagiarismCheck, FulfillPlagiarism, TypeOK
<1>4. reviewers[m] = <<>>
  BY <1>1, <1>2 DEF RequestInv, NoPanelYet
<1>5. StatusOnceSubmitted'
  BY <1>1, <1>2, <1>3 DEF RequestInv, StatusOnceSubmitted, Exists
<1>6. UnusedIsBlank'
  BY <1>2, StillBlank DEF RequestInv
<1>7. NoPanelYet'
  BY <1>2, <1>3, <1>4 DEF RequestInv, NoPanelYet
<1>8. RequestsMatchStatus'
  <2> SUFFICES ASSUME NEW k \in ManuscriptId
               PROVE  /\ \A i, i2 \in OpenPlagiarismRequests(k)' : i = i2
                      /\ \A i, i2 \in OpenReviewerRequests(k)' : i = i2
                      /\ status'[k] = "CHECKING" <=>
                           OpenPlagiarismRequests(k)' # {}
                      /\ Unanswered(k)' <=> OpenReviewerRequests(k)' # {}
    BY DEF RequestsMatchStatus
  <2>1. /\ id \in OpenPlagiarismRequests(m)
        /\ OpenPlagiarismRequests(k)' = OpenPlagiarismRequests(k) \ {id}
        /\ OpenReviewerRequests(k)' = OpenReviewerRequests(k)
    BY <1>2, OpenAfterPlagiarismAnswer
  <2>2. k # m => id \notin OpenPlagiarismRequests(k)
    BY DEF OpenPlagiarismRequests, PlagiarismRequests
  <2>3. Unanswered(k)' <=> Unanswered(k)
    BY <1>1, <1>2, <1>3 DEF Unanswered
  <2> QED
    BY <1>1, <1>2, <1>3, <2>1, <2>2, <2>3 DEF RequestInv, RequestsMatchStatus
<1> QED
  BY <1>5, <1>6, <1>7, <1>8 DEF RequestInv

LEMMA SubmitEditorReviewRequests ==
  ASSUME TypeOK, RequestInv, NEW m \in ManuscriptId, NEW approve \in BOOLEAN,
         NEW f, SubmitEditorReview(m, approve, f)
  PROVE  RequestInv'
<1>1. /\ status[m] = "PENDING_EDITOR"
      /\ UNCHANGED <<nextManuscriptId, reviewers>>
  BY DEF SubmitEditorReview, RequireState, submissionVars, reviewVars
<1>2. /\ status'[m] = IF approve THEN "UNDER_REVIEW" ELSE "REJECTED"
      /\ \A k \in ManuscriptId : k # m => status'[k] = status[k]
  BY DEF SubmitEditorReview, TypeOK
<1>3. /\ approve => RequestRandomReviewers(m)
      /\ ~ approve => UNCHANGED oracleVars
  BY DEF SubmitEditorReview
<1>4. reviewers[m] = <<>>
  BY <1>1 DEF RequestInv, NoPanelYet
<1>5. StatusOnceSubmitted'
  BY <1>1, <1>2 DEF RequestInv, StatusOnceSubmitted, Exists
<1>6. UnusedIsBlank'
  BY <1>3, StillBlank DEF RequestInv
<1>7. NoPanelYet'
  BY <1>1, <1>2, <1>4 DEF RequestInv, NoPanelYet
<1>8. RequestsMatchStatus'
  <2> SUFFICES ASSUME NEW k \in ManuscriptId
               PROVE  /\ \A i, i2 \in OpenPlagiarismRequests(k)' : i = i2
                      /\ \A i, i2 \in OpenReviewerRequests(k)' : i = i2
                      /\ status'[k] = "CHECKING" <=>
                           OpenPlagiarismRequests(k)' # {}
                      /\ Unanswered(k)' <=> OpenReviewerRequests(k)' # {}
    BY DEF RequestsMatchStatus
  <2>1. /\ OpenPlagiarismRequests(k)' = OpenPlagiarismRequests(k)
        /\ OpenReviewerRequests(k)' = OpenReviewerRequests(k)
             \cup (IF approve /\ k = m THEN {nextReviewerRequestId} ELSE {})
    <3>1. CASE approve
      BY <1>3, <3>1, OpenAfterReviewerRequest DEF RequestInv
    <3>2. CASE ~ approve
      BY <1>3, <3>2, OpenUnchanged
    <3> QED
      BY <3>1, <3>2
  <2>2. OpenReviewerRequests(m) = {}
    BY <1>1 DEF RequestInv, RequestsMatchStatus, Unanswered
  <2>3. Unanswered(k)' <=> IF k = m THEN approve ELSE Unanswered(k)
    BY <1>1, <1>2, <1>4 DEF Unanswered
  <2> QED
    BY <1>1, <1>2, <2>1, <2>2, <2>3 DEF RequestInv, RequestsMatchStatus
<1> QED
  BY <1>5, <1>6, <1>7, <1>8 DEF RequestInv

LEMMA AnswerReviewerSelectionRequests ==
  ASSUME TypeOK, RequestInv, NEW id \in RequestId, NEW list \in Seq(Address),
         AnswerReviewerSelection(id, list)
  PROVE  RequestInv'
<1> DEFINE m == reviewerRequestToMs[id]
<1>1. m \in ManuscriptId
  BY DEF TypeOK, OracleTypeOK
<1>2. /\ FulfillReviewerSelection(id, list)
      /\ status[m] = "UNDER_REVIEW"
      /\ UNCHANGED <<nextManuscriptId, status>>
      /\ reviewers' = [reviewers EXCEPT ![m] = list]
  BY DEF AnswerReviewerSelection, FulfillRandomReviewers, RequireState,
         submissionVars
<1>3. list # <<>>
  BY <1>2 DEF FulfillReviewerSelection
<1>4. \A k \in ManuscriptId :
        reviewers'[k] = IF k = m THEN list ELSE reviewers[k]
  BY <1>1, <1>2 DEF TypeOK
<1>5. StatusOnceSubmitted'
  BY <1>2 DEF RequestInv, StatusOnceSubmitted, Exists
<1>6. UnusedIsBlank'
  BY <1>2, StillBlank DEF RequestInv
<1>7. NoPanelYet'
  BY <1>2, <1>4 DEF RequestInv, NoPanelYet
<1>8. RequestsMatchStatus'
  <2> SUFFICES ASSUME NEW k \in ManuscriptId
               PROVE  /\ \A i, i2 \in OpenPlagiarismRequests(k)' : i = i2
                      /\ \A i, i2 \in OpenReviewerRequests(k)' : i = i2
                      /\ status'[k] = "CHECKING" <=>
                           OpenPlagiarismRequests(k)' # {}
                      /\ Unanswered(k)' <=> OpenReviewerRequests(k)' # {}
    BY DEF RequestsMatchStatus
  <2>1. /\ id \in OpenReviewerRequests(m)
        /\ OpenReviewerRequests(k)' = OpenReviewerRequests(k) \ {id}
        /\ OpenPlagiarismRequests(k)' = OpenPlagiarismRequests(k)
    BY <1>2, OpenAfterReviewerAnswer
  <2>2. k # m => id \notin OpenReviewerRequests(k)
    BY DEF OpenReviewerRequests
  <2>3. Unanswered(k)' <=> k # m /\ Unanswered(k)
    BY <1>2, <1>3, <1>4 DEF Unanswered
  <2> QED
    BY <1>1, <1>2, <2>1, <2>2, <2>3 DEF RequestInv, RequestsMatchStatus
<1> QED
  BY <1>5, <1>6, <1>7, <1>8 DEF RequestInv

LEMMA SubmitReviewRequests ==
  ASSUME TypeOK, RequestInv, NEW m \in ManuscriptId, NEW a, NEW v, NEW n,
         SubmitReview(m, a, v, n)
  PROVE  RequestInv'
<1>1. /\ status[m] = "UNDER_REVIEW"
      /\ a \in Range(reviewers[m])
      /\ UNCHANGED <<nextManuscriptId, reviewers, oracleVars>>
  BY DEF SubmitReview, RequireState, submissionVars
<1>2. reviewers[m] # <<>>
  BY <1>1 DEF Range
<1>3. /\ status'[m] \in {"UNDER_REVIEW", "ACCEPTED", "REJECTED",
                         "REVISION_REQUESTED"}
      /\ \A k \in ManuscriptId : k # m => status'[k] = status[k]
  BY <1>1, DecisionType DEF SubmitReview, TypeOK
<1>4. StatusOnceSubmitted'
  BY <1>1, <1>3 DEF RequestInv, StatusOnceSubmitted, Exists
<1>5. UnusedIsBlank'
  BY <1>1, StillBlank DEF RequestInv
<1>6. NoPanelYet'
  BY <1>1, <1>3 DEF RequestInv, NoPanelYet
<1>7. ASSUME NEW k \in ManuscriptId
      PROVE  /\ status'[k] = "CHECKING" <=> status[k] = "CHECKING"
             /\ Unanswered(k)' <=> Unanswered(k)
             /\ OpenReviewerRequests(k)' = OpenReviewerRequests(k)
             /\ OpenPlagiarismRequests(k)' = OpenPlagiarismRequests(k)
  BY <1>1, <1>2, <1>3, OpenUnchanged DEF Unanswered
<1>8. RequestsMatchStatus'
  BY <1>7 DEF RequestInv, RequestsMatchStatus
<1> QED
  BY <1>4, <1>5, <1>6, <1>8 DEF RequestInv

LEMMA ReviseManuscriptRequests ==
  ASSUME TypeOK, RequestInv, NEW m \in ManuscriptId, NEW a, NEW c \in Cid,
         NEW n, ReviseManuscript(m, a, c, n)
  PROVE  RequestInv'
<1>1. /\ status[m] = "REVISION_REQUESTED"
      /\ RequestPlagiarismCheck(m, c)
      /\ nextManuscriptId' = nextManuscriptId
  BY DEF ReviseManuscript, RequireState, submissionVars
<1>2. \A k \in ManuscriptId :
        /\ status'[k] = IF k = m THEN "CHECKING" ELSE status[k]
        /\ reviewers'[k] = IF k = m THEN <<>> ELSE reviewers[k]
  BY DEF ReviseManuscript, ResetReviewState, TypeOK
<1>3. StatusOnceSubmitted'
  BY <1>1, <1>2 DEF RequestInv, StatusOnceSubmitted, Exists
<1>4. UnusedIsBlank'
  BY <1>1, StillBlank DEF RequestInv
<1>5. NoPanelYet'
  BY <1>2 DEF RequestInv, NoPanelYet
<1>6. RequestsMatchStatus'
  <2> SUFFICES ASSUME NEW k \in ManuscriptId
               PROVE  /\ \A i, i2 \in OpenPlagiarismRequests(k)' : i = i2
                      /\ \A i, i2 \in OpenReviewerRequests(k)' : i = i2
                      /\ status'[k] = "CHECKING" <=>
                           OpenPlagiarismRequests(k)' # {}
                      /\ Unanswered(k)' <=> OpenReviewerRequests(k)' # {}
    BY DEF RequestsMatchStatus
  <2>1. /\ OpenPlagiarismRequests(k)' = OpenPlagiarismRequests(k)
             \cup (IF k = m THEN {nextPlagiarismRequestId} ELSE {})
        /\ OpenReviewerRequests(k)' = OpenReviewerRequests(k)
    BY <1>1, OpenAfterPlagiarismRequest DEF RequestInv
  <2>2. OpenPlagiarismRequests(m) = {}
    BY <1>1 DEF RequestInv, RequestsMatchStatus
  <2>3. Unanswered(k)' <=> Unanswered(k)
    BY <1>1, <1>2 DEF Unanswered
  <2> QED
    BY <1>1, <1>2, <2>1, <2>2, <2>3 DEF RequestInv, RequestsMatchStatus
<1> QED
  BY <1>3, <1>4, <1>5, <1>6 DEF RequestInv

(* Payments touch neither requests nor panels.                             *)
LEMMA PaymentRequests ==
  ASSUME TypeOK, RequestInv,
         \/ \E m \in ManuscriptId, a \in Author : PayPublicationFee(m, a)
         \/ UNCHANGED <<registryVars, oracleVars>>
  PROVE  RequestInv'
<1>1. UNCHANGED <<nextManuscriptId, reviewers, oracleVars>>
  BY DEF PayPublicationFee, registryVars, submissionVars, reviewVars
<1>2. \A k \in ManuscriptId :
        status'[k] # status[k] => status[k] = "ACCEPTED"
                                    /\ status'[k] = "PUBLISHED"
  BY DEF PayPublicationFee, RequireState, registryVars, TypeOK
<1>3. StatusOnceSubmitted'
  BY <1>1, <1>2 DEF RequestInv, StatusOnceSubmitted, Exists
<1>4. UnusedIsBlank'
  BY <1>1, StillBlank DEF RequestInv
<1>5. NoPanelYet'
  BY <1>1, <1>2 DEF RequestInv, NoPanelYet
<1>6. ASSUME NEW k \in ManuscriptId
      PROVE  /\ status'[k] = "CHECKING" <=> status[k] = "CHECKING"
             /\ Unanswered(k)' <=> Unanswered(k)
             /\ OpenReviewerRequests(k)' = OpenReviewerRequests(k)
             /\ OpenPlagiarismRequests(k)' = OpenPlagiarismRequests(k)
  BY <1>1, <1>2, OpenUnchanged DEF Unanswered
<1>7. RequestsMatchStatus'
  BY <1>6 DEF RequestInv, RequestsMatchStatus
<1> QED
  BY <1>3, <1>4, <1>5, <1>7 DEF RequestInv

(* The inductive step, shared by the theorems below.                       *)
LEMMA RequestInvStep == TypeOK /\ RequestInv /\ [Next]_vars => RequestInv'
<1> SUFFICES ASSUME TypeOK, RequestInv, [Next]_vars PROVE RequestInv'
  OBVIOUS
<1>1. ASSUME NEW a, FundAuthor(a) \/ ApproveFee(a) \/ Withdraw(a)
      PROVE  UNCHANGED <<registryVars, oracleVars>>
  BY <1>1 DEF FundAuthor, ApproveFee, Withdraw, tokenFrame
<1>2. CASE Next
  <2>1. ASSUME NEW id \in RequestId, NEW list \in ReviewerLists,
               AnswerReviewerSelection(id, list)
        PROVE  RequestInv'
    <3>1. list \in Seq(Address)
      BY RegistryAssumption
    <3> QED
      BY <2>1, <3>1, AnswerReviewerSelectionRequests
  <2>2. ASSUME NEW a, FundAuthor(a) \/ ApproveFee(a) \/ Withdraw(a)
        PROVE  RequestInv'
    BY <1>1, <2>2, PaymentRequests
  <2>3. ASSUME NEW m \in ManuscriptId, NEW a \in Author, PayPublicationFee(m, a)
        PROVE  RequestInv'
    BY <2>3, PaymentRequests
  <2> QED
    BY <1>2, <2>1, <2>2, <2>3, SubmitManuscriptRequests,
       AnswerPlagiarismCheckRequests, SubmitEditorReviewRequests,
       SubmitReviewRequests, ReviseManuscriptRequests DEF Next
<1>3. CASE UNCHANGED vars
  BY <1>3, PaymentRequests DEF vars
<1> QED
  BY <1>2, <1>3

(* The strengthened invariant, and with it what it was made for: the       *)
(* workflow and the oracle's open requests always agree, so nothing waits  *)
(* for an answer that was not asked for or was already given.              *)
THEOREM RequestInvariant == Spec => []RequestInv
BY InitRequestInv, TypeCorrect, RequestInvStep, PTL DEF Spec

THEOREM RequestsMatch == Spec => []RequestsMatchStatus
<1>1. RequestInv => RequestsMatchStatus
  BY DEF RequestInv
<1> QED
  BY <1>1, RequestInvariant, PTL

(***************************************************************************)
(* SettledStays.  Every transaction names the one manuscript it works on   *)
(* and requires a status of it that is not settled; what it does leaves    *)
(* all other manuscripts, and the votes about them, as they were.          *)
(***************************************************************************)
Kept(k) ==
  /\ status'[k] = status[k]
  /\ cid'[k] = cid[k]
  /\ version'[k] = version[k]
  /\ plagiarismScore'[k] = plagiarismScore[k]
  /\ reviewers'[k] = reviewers[k]
  /\ VotersIn(k)' = VotersIn(k)

LEMMA VotersKept ==
  ASSUME NEW k \in ManuscriptId, version'[k] = version[k],
         \A e \in reviewEvents \cup reviewEvents' :
           e.msId = k => (e \in reviewEvents' <=> e \in reviewEvents)
  PROVE  VotersIn(k)' = VotersIn(k)
BY DEF VotersIn

LEMMA SubmitManuscriptKeeps ==
  ASSUME TypeOK, RequestInv, NEW a, NEW c, NEW n, SubmitManuscript(a, c, n),
         NEW k \in ManuscriptId, status[k] \in Settled
  PROVE  Kept(k)
<1>1. nextManuscriptId \in ManuscriptId /\ ~ (nextManuscriptId < nextManuscriptId)
  BY Identifiers DEF TypeOK, SubmitManuscript
<1>2. k # nextManuscriptId
  BY <1>1 DEF RequestInv, StatusOnceSubmitted, Exists, Settled
<1>3. /\ status'[k] = status[k]
      /\ cid'[k] = cid[k]
      /\ version'[k] = version[k]
  BY <1>2 DEF SubmitManuscript, TypeOK
<1>4. UNCHANGED <<plagiarismScore, reviewers, reviewEvents>>
  BY DEF SubmitManuscript, reviewVars
<1> QED
  BY <1>3, <1>4, VotersKept DEF Kept

LEMMA AnswerPlagiarismCheckKeeps ==
  ASSUME TypeOK, NEW id \in RequestId, NEW s, AnswerPlagiarismCheck(id, s),
         NEW k \in ManuscriptId, status[k] \in Settled
  PROVE  Kept(k)
<1>1. k # plagiarismRequestToMs[id]
  BY DEF AnswerPlagiarismCheck, FulfillPlagiarism, RequireState, Settled
<1>2. status'[k] = status[k] /\ plagiarismScore'[k] = plagiarismScore[k]
  BY <1>1 DEF AnswerPlagiarismCheck, FulfillPlagiarism, TypeOK
<1>3. UNCHANGED <<cid, version, reviewers, reviewEvents>>
  BY DEF AnswerPlagiarismCheck, FulfillPlagiarism, contentVars, reviewVars
<1> QED
  BY <1>2, <1>3, VotersKept DEF Kept

LEMMA SubmitEditorReviewKeeps ==
  ASSUME TypeOK, NEW m, NEW approve \in BOOLEAN, NEW f,
         SubmitEditorReview(m, approve, f),
         NEW k \in ManuscriptId, status[k] \in Settled
  PROVE  Kept(k)
<1>1. k # m
  BY DEF SubmitEditorReview, RequireState, Settled
<1>2. status'[k] = status[k]
  BY <1>1 DEF SubmitEditorReview, TypeOK
<1>3. UNCHANGED <<cid, version, plagiarismScore, reviewers, reviewEvents>>
  BY DEF SubmitEditorReview, contentVars, reviewVars
<1> QED
  BY <1>2, <1>3, VotersKept DEF Kept

LEMMA AnswerReviewerSelectionKeeps ==
  ASSUME TypeOK, NEW id \in RequestId, NEW list,
         AnswerReviewerSelection(id, list),
         NEW k \in ManuscriptId, status[k] \in Settled
  PROVE  Kept(k)
<1>1. k # reviewerRequestToMs[id]
  BY DEF AnswerReviewerSelection, FulfillRandomReviewers, RequireState, Settled
<1>2. reviewers'[k] = reviewers[k]
  BY <1>1 DEF AnswerReviewerSelection, FulfillRandomReviewers, TypeOK
<1>3. UNCHANGED <<status, cid, version, plagiarismScore, reviewEvents>>
  BY DEF AnswerReviewerSelection, FulfillRandomReviewers, contentVars
<1> QED
  BY <1>2, <1>3, VotersKept DEF Kept

LEMMA SubmitReviewKeeps ==
  ASSUME TypeOK, NEW m, NEW a, NEW v, NEW n, SubmitReview(m, a, v, n),
         NEW k \in ManuscriptId, status[k] \in Settled
  PROVE  Kept(k)
<1>1. k # m
  BY DEF SubmitReview, RequireState, Settled
<1>2. status'[k] = status[k]
  BY <1>1 DEF SubmitReview, TypeOK
<1>3. UNCHANGED <<cid, version, plagiarismScore, reviewers>>
  BY DEF SubmitReview, contentVars
<1>4. reviewEvents' = reviewEvents \cup
        {[msId |-> m, version |-> version[m], reviewer |-> a, verdict |-> v]}
  BY DEF SubmitReview
<1>5. VotersIn(k)' = VotersIn(k)
  BY <1>1, <1>3, <1>4, VotersKept
<1> QED
  BY <1>2, <1>3, <1>5 DEF Kept

LEMMA ReviseManuscriptKeeps ==
  ASSUME TypeOK, NEW m, NEW a, NEW c, NEW n, ReviseManuscript(m, a, c, n),
         NEW k \in ManuscriptId, status[k] \in Settled
  PROVE  Kept(k)
<1>1. k # m
  BY DEF ReviseManuscript, RequireState, Settled
<1>2. /\ status'[k] = status[k]
      /\ cid'[k] = cid[k]
      /\ version'[k] = version[k]
      /\ reviewers'[k] = reviewers[k]
  BY <1>1 DEF ReviseManuscript, ResetReviewState, TypeOK
<1>3. UNCHANGED <<plagiarismScore, reviewEvents>>
  BY DEF ReviseManuscript
<1> QED
  BY <1>2, <1>3, VotersKept DEF Kept

LEMMA PaymentKeeps ==
  ASSUME TypeOK,
         \/ \E m \in ManuscriptId, a \in Author : PayPublicationFee(m, a)
         \/ UNCHANGED <<registryVars, reviewEvents>>,
         NEW k \in ManuscriptId, status[k] \in Settled
  PROVE  Kept(k)
<1>1. status'[k] = status[k]
  BY DEF PayPublicationFee, RequireState, Settled, registryVars, TypeOK
<1>2. UNCHANGED <<cid, version, plagiarismScore, reviewers, reviewEvents>>
  BY DEF PayPublicationFee, registryVars, contentVars, reviewVars
<1> QED
  BY <1>1, <1>2, VotersKept DEF Kept

(* A rejected or published manuscript is never touched again.              *)
THEOREM SettledForever == Spec => SettledStays
<1>1. TypeOK /\ RequestInv /\ [Next]_vars =>
        [\A m \in ManuscriptId : status[m] \in Settled =>
           /\ status'[m] = status[m]
           /\ cid'[m] = cid[m]
           /\ version'[m] = version[m]
           /\ plagiarismScore'[m] = plagiarismScore[m]
           /\ reviewers'[m] = reviewers[m]
           /\ VotersIn(m)' = VotersIn(m)]_vars
  <2> SUFFICES ASSUME TypeOK, RequestInv, Next,
                      NEW k \in ManuscriptId, status[k] \in Settled
               PROVE  Kept(k)
    BY DEF Kept
  <2>1. ASSUME NEW a, FundAuthor(a) \/ ApproveFee(a) \/ Withdraw(a)
        PROVE  UNCHANGED <<registryVars, reviewEvents>>
    BY <2>1 DEF FundAuthor, ApproveFee, Withdraw, tokenFrame
  <2> QED
    BY <2>1, SubmitManuscriptKeeps, AnswerPlagiarismCheckKeeps,
       SubmitEditorReviewKeeps, AnswerReviewerSelectionKeeps,
       SubmitReviewKeeps, ReviseManuscriptKeeps, PaymentKeeps DEF Next
<1> QED
  BY <1>1, TypeCorrect, RequestInvariant, PTL DEF Spec, SettledStays
-----------------------------------------------------------------------------
(***************************************************************************)
(* What the registry publishes: only content that was checked gets past    *)
(* the check, and a published manuscript has exactly one token.            *)
(***************************************************************************)
(***************************************************************************)
(* Tokens.  Only a payment mints, and only the payment publishes.          *)
(***************************************************************************)
LEMMA InitPublished == Init => PublishedOnce
BY DEF Init, RegistryInit, PublishedOnce, TokensOf

LEMMA TokensKept ==
  ASSUME PublishedOnce, UNCHANGED doiTokens,
         \A k \in ManuscriptId :
           /\ status'[k] = "PUBLISHED" <=> status[k] = "PUBLISHED"
           /\ status[k] = "PUBLISHED" => /\ author'[k] = author[k]
                                         /\ version'[k] = version[k]
  PROVE  PublishedOnce'
BY DEF PublishedOnce, TokensOf

LEMMA PayPublicationFeePublishes ==
  ASSUME TypeOK, PublishedOnce, NEW m \in ManuscriptId, NEW a \in Author,
         PayPublicationFee(m, a)
  PROVE  PublishedOnce'
<1> DEFINE token == [owner |-> a, msId |-> m, version |-> version[m]]
           n == Len(doiTokens) + 1
<1>1. /\ status[m] = "ACCEPTED" /\ author[m] = a
      /\ status' = [status EXCEPT ![m] = "PUBLISHED"]
      /\ doiTokens' = Append(doiTokens, token)
      /\ UNCHANGED <<author, version>>
  BY DEF PayPublicationFee, RequireState, submissionVars, contentVars
<1>2. /\ status \in [ManuscriptId -> Status] /\ doiTokens \in Seq(DoiToken)
  BY DEF TypeOK
<1>3. token.owner = a /\ token.msId = m /\ token.version = version[m]
  OBVIOUS
<1> HIDE DEF token
<1>4. /\ DOMAIN doiTokens = 1 .. Len(doiTokens) /\ Len(doiTokens) \in Nat
      /\ DOMAIN doiTokens' = DOMAIN doiTokens \cup {n} /\ n \notin DOMAIN doiTokens
      /\ \A i \in DOMAIN doiTokens : doiTokens'[i] = doiTokens[i]
      /\ doiTokens'[n] = token
  BY <1>1, <1>2
<1> HIDE DEF n
<1>5. TokensOf(m) = {}
  BY <1>1 DEF PublishedOnce
<1>6. TokensOf(m)' = {n}
  BY <1>3, <1>4, <1>5 DEF TokensOf
<1>7. \A k \in ManuscriptId : k # m =>
        TokensOf(k)' = TokensOf(k) /\ status'[k] = status[k]
  BY <1>1, <1>2, <1>3, <1>4 DEF TokensOf
<1>8. ASSUME NEW k \in ManuscriptId
      PROVE  /\ \A i, j \in TokensOf(k)' : i = j
             /\ status'[k] = "PUBLISHED" <=> TokensOf(k)' # {}
             /\ \A i \in TokensOf(k)' : /\ doiTokens'[i].owner = author'[k]
                                        /\ doiTokens'[i].version = version'[k]
  <2>1. CASE k = m
    BY <1>1, <1>2, <1>3, <1>4, <1>6, <2>1
  <2>2. CASE k # m
    <3>1. \A i \in TokensOf(k) : doiTokens'[i] = doiTokens[i]
      BY <1>4 DEF TokensOf
    <3>2. /\ \A i, j \in TokensOf(k) : i = j
          /\ status[k] = "PUBLISHED" <=> TokensOf(k) # {}
          /\ \A i \in TokensOf(k) : /\ doiTokens[i].owner = author[k]
                                    /\ doiTokens[i].version = version[k]
      BY DEF PublishedOnce
    <3>3. TokensOf(k)' = TokensOf(k) /\ status'[k] = status[k]
          /\ author' = author /\ version' = version
      BY <1>1, <1>7, <2>2
    <3> QED
      BY <3>1, <3>2, <3>3
  <2> QED
    BY <2>1, <2>2
<1> QED
  BY <1>8 DEF PublishedOnce

LEMMA NextPublished ==
  ASSUME TypeOK, StatusOnceSubmitted, PublishedOnce, [Next]_vars
  PROVE  PublishedOnce'
<1>1. status \in [ManuscriptId -> Status]
  BY DEF TypeOK
<1>2. ASSUME NEW a \in Author, NEW c \in Cid, NEW n \in Nonce,
             SubmitManuscript(a, c, n)
      PROVE  PublishedOnce'
  <2>1. nextManuscriptId \in ManuscriptId
        /\ ~ (nextManuscriptId < nextManuscriptId)
    BY <1>2, Identifiers DEF TypeOK, SubmitManuscript
  <2>2. status[nextManuscriptId] = "SUBMITTED"
    BY <2>1 DEF StatusOnceSubmitted, Exists
  <2>3. /\ status' = [status EXCEPT ![nextManuscriptId] = "CHECKING"]
        /\ version' = [version EXCEPT ![nextManuscriptId] = 1]
        /\ author' = [author EXCEPT ![nextManuscriptId] = a]
        /\ doiTokens' = doiTokens
    BY <1>2 DEF SubmitManuscript
  <2> QED
    BY <1>1, <2>2, <2>3, TokensKept DEF TypeOK
<1>3. ASSUME NEW id \in RequestId, NEW s \in Score, AnswerPlagiarismCheck(id, s)
      PROVE  PublishedOnce'
  <2>1. /\ status[plagiarismRequestToMs[id]] = "CHECKING"
        /\ status' = [status EXCEPT ![plagiarismRequestToMs[id]] =
                        IF Exceeds(s) THEN "REJECTED" ELSE "PENDING_EDITOR"]
        /\ UNCHANGED <<author, version, doiTokens>>
    BY <1>3 DEF AnswerPlagiarismCheck, FulfillPlagiarism, RequireState,
                submissionVars, contentVars
  <2> QED
    BY <1>1, <2>1, TokensKept
<1>4. ASSUME NEW m \in ManuscriptId, NEW approve \in BOOLEAN, NEW f \in Field,
             SubmitEditorReview(m, approve, f)
      PROVE  PublishedOnce'
  <2>1. /\ status[m] = "PENDING_EDITOR"
        /\ status' = [status EXCEPT ![m] = IF approve THEN "UNDER_REVIEW"
                                           ELSE "REJECTED"]
        /\ UNCHANGED <<author, version, doiTokens>>
    BY <1>4 DEF SubmitEditorReview, RequireState, submissionVars, contentVars
  <2> QED
    BY <1>1, <2>1, TokensKept
<1>5. ASSUME NEW m \in ManuscriptId, NEW a \in Address, NEW v \in Verdict,
             NEW n \in Nonce, SubmitReview(m, a, v, n)
      PROVE  PublishedOnce'
  <2>1. /\ status[m] = "UNDER_REVIEW"
        /\ \A k \in ManuscriptId : k # m => status'[k] = status[k]
        /\ status'[m] \in {"UNDER_REVIEW", "ACCEPTED", "REJECTED",
                           "REVISION_REQUESTED"}
        /\ UNCHANGED <<author, version, doiTokens>>
    BY <1>1, <1>5, DecisionType
    DEF SubmitReview, RequireState, submissionVars, contentVars
  <2> QED
    BY <2>1, TokensKept
<1>6. ASSUME NEW m \in ManuscriptId, NEW a \in Author, NEW c \in Cid,
             NEW n \in Nonce, ReviseManuscript(m, a, c, n)
      PROVE  PublishedOnce'
  <2>1. /\ status[m] = "REVISION_REQUESTED"
        /\ status' = [status EXCEPT ![m] = "CHECKING"]
        /\ version' = [version EXCEPT ![m] = @ + 1]
        /\ UNCHANGED <<author, doiTokens>>
    BY <1>6 DEF ReviseManuscript, RequireState, submissionVars
  <2> QED
    BY <1>1, <2>1, TokensKept DEF TypeOK
<1>7. ASSUME UNCHANGED <<registryVars, doiTokens>> PROVE PublishedOnce'
  BY <1>7, TokensKept DEF registryVars, submissionVars, contentVars
<1>8. ASSUME NEW a, FundAuthor(a) \/ ApproveFee(a) \/ Withdraw(a)
      PROVE  PublishedOnce'
  BY <1>7, <1>8 DEF FundAuthor, ApproveFee, Withdraw, tokenFrame
<1>9. ASSUME UNCHANGED vars PROVE PublishedOnce'
  BY <1>7, <1>9 DEF vars
<1>10. ASSUME NEW id \in RequestId, NEW list \in ReviewerLists,
              AnswerReviewerSelection(id, list)
       PROVE  PublishedOnce'
  BY <1>10, TokensKept DEF AnswerReviewerSelection, FulfillRandomReviewers,
                           submissionVars, contentVars
<1> QED
  BY <1>2, <1>3, <1>4, <1>5, <1>6, <1>8, <1>9, <1>10,
     PayPublicationFeePublishes
  DEF Next

(***************************************************************************)
(* A DOI token exists exactly for each published manuscript, once, minted  *)
(* to its author for the version accepted: publishing and minting are one  *)
(* transaction, and nothing about a published manuscript changes after it. *)
(***************************************************************************)
THEOREM OneTokenEach == Spec => []PublishedOnce
<1>1. RequestInv => StatusOnceSubmitted
  BY DEF RequestInv
<1> QED
  BY <1>1, InitPublished, NextPublished, TypeCorrect, RequestInvariant, PTL
  DEF Spec

(***************************************************************************)
(* Checked content.  The newest check of a manuscript is of its current    *)
(* file, and open exactly while the manuscript is being checked.           *)
(***************************************************************************)
Newest(m, id) ==
  /\ id \in PlagiarismRequests(m)
  /\ \A id2 \in PlagiarismRequests(m) : id2 <= id
  /\ plagiarismRequestCid[id] = cid[m]
  /\ plagiarismRequestFulfilled[id] <=> status[m] # "CHECKING"
WithinThreshold(m) ==
  status[m] \notin {"CHECKING", "REJECTED"} =>
    plagiarismScore[m] <= PLAGIARISM_THRESHOLD
Checked(m) ==
  Exists(m) => (\E id \in RequestId : Newest(m, id)) /\ WithinThreshold(m)

LEMMA CheckedIsOnlyChecked ==
  (\A m \in ManuscriptId : Checked(m)) <=> OnlyCheckedContentAdvances
BY DEF Checked, Newest, WithinThreshold, OnlyCheckedContentAdvances,
       PlagiarismRequests

LEMMA InitChecked == Init => \A m \in ManuscriptId : Checked(m)
BY Identifiers DEF Init, RegistryInit, Checked, Exists

(* Requests that are neither opened nor answered stay the newest.          *)
LEMMA CheckedKept ==
  ASSUME NEW k \in ManuscriptId, Checked(k),
         UNCHANGED <<nextManuscriptId, plagiarismVars>>,
         cid'[k] = cid[k],
         status'[k] = "CHECKING" <=> status[k] = "CHECKING",
         WithinThreshold(k) /\ Exists(k) => WithinThreshold(k)'
  PROVE  Checked(k)'
<1> SUFFICES ASSUME Exists(k)'
             PROVE  (\E id \in RequestId : Newest(k, id)') /\ WithinThreshold(k)'
  BY DEF Checked
<1>1. PICK id \in RequestId : Newest(k, id)
  BY DEF Checked, Exists
<1>2. Newest(k, id)'
  BY <1>1 DEF Newest, PlagiarismRequests, plagiarismVars
<1>3. WithinThreshold(k)'
  BY DEF Checked, Exists
<1> QED
  BY <1>2, <1>3

(* A new check of manuscript m's new file.                                 *)
LEMMA RequestChecked ==
  ASSUME TypeOK, UnusedIsBlank, NEW m \in ManuscriptId, NEW c \in Cid,
         RequestPlagiarismCheck(m, c),
         cid' = [cid EXCEPT ![m] = c],
         status' = [status EXCEPT ![m] = "CHECKING"],
         UNCHANGED plagiarismScore,
         \A k \in ManuscriptId \ {m} :
           Checked(k) /\ (Exists(k)' <=> Exists(k))
  PROVE  \A k \in ManuscriptId : Checked(k)'
<1> DEFINE nxt == nextPlagiarismRequestId
<1>1. nxt \in RequestId /\ nxt \in Nat /\ nxt' = nxt + 1
  BY Identifiers DEF TypeOK, OracleTypeOK, RequestPlagiarismCheck
<1>2. ~ plagiarismRequestFulfilled[nxt]
  BY <1>1 DEF UnusedIsBlank
<1>3. /\ \A id \in RequestId :
           /\ plagiarismRequestToMs'[id] =
                IF id = nxt THEN m ELSE plagiarismRequestToMs[id]
           /\ plagiarismRequestCid'[id] =
                IF id = nxt THEN c ELSE plagiarismRequestCid[id]
      /\ plagiarismRequestFulfilled' = plagiarismRequestFulfilled
  BY <1>1 DEF TypeOK, OracleTypeOK, RequestPlagiarismCheck
<1>4. status \in [ManuscriptId -> Status] /\ cid \in [ManuscriptId -> Cid \cup {NoCid}]
  BY DEF TypeOK
<1>5. \A id \in RequestId : id \in Nat /\ (id < nxt + 1 <=> id < nxt \/ id = nxt)
  BY <1>1, Identifiers
<1>6. ASSUME NEW k \in ManuscriptId
      PROVE  PlagiarismRequests(k)' = PlagiarismRequests(k)
                                        \cup (IF k = m THEN {nxt} ELSE {})
  <2>1. ~ (nxt < nxt)
    BY <1>1
  <2> QED
    BY <1>1, <1>3, <1>5, <2>1 DEF PlagiarismRequests
<1>7. \A k \in ManuscriptId : \A id \in PlagiarismRequests(k) :
        id \in RequestId /\ id < nxt /\ id # nxt
  BY <1>1 DEF PlagiarismRequests
<1> SUFFICES ASSUME NEW k \in ManuscriptId, Exists(k)'
             PROVE  (\E id \in RequestId : Newest(k, id)') /\ WithinThreshold(k)'
  BY DEF Checked
<1>8. CASE k = m
  <2> SUFFICES ASSUME NEW id \in RequestId, id = nxt
               PROVE  Newest(k, id)' /\ WithinThreshold(k)'
    BY <1>1
  <2>1. status'[k] = "CHECKING" /\ cid'[k] = c
    BY <1>4, <1>8
  <2>2. id \in PlagiarismRequests(k)'
        /\ \A id2 \in PlagiarismRequests(k)' : id2 <= id
    BY <1>1, <1>5, <1>6, <1>7, <1>8
  <2>3. Newest(k, id)'
    BY <1>2, <1>3, <2>1, <2>2 DEF Newest
  <2> QED
    BY <2>1, <2>3 DEF WithinThreshold
<1>9. CASE k # m
  <2>1. PICK id \in RequestId : Newest(k, id)
    BY <1>9 DEF Checked
  <2>2. status'[k] = status[k] /\ cid'[k] = cid[k]
    BY <1>4, <1>9
  <2>3. PlagiarismRequests(k)' = PlagiarismRequests(k)
    BY <1>6, <1>9
  <2>4. id # nxt
    BY <1>7, <2>1 DEF Newest
  <2>5. Newest(k, id)'
    BY <1>3, <2>1, <2>2, <2>3, <2>4 DEF Newest
  <2>6. WithinThreshold(k)'
    BY <1>9, <2>2 DEF Checked, WithinThreshold
  <2> QED
    BY <2>5, <2>6
<1> QED
  BY <1>8, <1>9

(* An answer is to the newest check: it was open, and only one is.         *)
LEMMA AnswerPlagiarismCheckChecked ==
  ASSUME TypeOK, RequestInv, \A k \in ManuscriptId : Checked(k),
         NEW id \in RequestId, NEW s \in Score, AnswerPlagiarismCheck(id, s)
  PROVE  \A k \in ManuscriptId : Checked(k)'
<1> SUFFICES ASSUME NEW m \in ManuscriptId, m = plagiarismRequestToMs[id],
                    NEW k \in ManuscriptId, Exists(k)'
             PROVE  (\E i \in RequestId : Newest(k, i)') /\ WithinThreshold(k)'
  BY DEF TypeOK, OracleTypeOK, Checked
<1>1. /\ status[m] = "CHECKING"
      /\ status' = [status EXCEPT ![m] = IF Exceeds(s) THEN "REJECTED"
                                         ELSE "PENDING_EDITOR"]
      /\ plagiarismScore' = [plagiarismScore EXCEPT ![m] = s]
      /\ id < nextPlagiarismRequestId /\ ~ plagiarismRequestFulfilled[id]
      /\ plagiarismRequestFulfilled' =
           [plagiarismRequestFulfilled EXCEPT ![id] = TRUE]
      /\ UNCHANGED <<nextManuscriptId, cid, nextPlagiarismRequestId,
                     plagiarismRequestToMs, plagiarismRequestCid>>
  BY DEF AnswerPlagiarismCheck, FulfillPlagiarismCheck, FulfillPlagiarism,
         RequireState, submissionVars, contentVars
<1>2. /\ status \in [ManuscriptId -> Status]
      /\ plagiarismScore \in [ManuscriptId -> Nat]
      /\ plagiarismRequestFulfilled \in [RequestId -> BOOLEAN]
  BY DEF TypeOK, OracleTypeOK
<1>3. PlagiarismRequests(k)' = PlagiarismRequests(k)
  BY <1>1 DEF PlagiarismRequests
<1>4. PICK i \in RequestId : Newest(k, i)
  BY <1>1 DEF Checked, Exists
<1>5. WithinThreshold(k)
  BY <1>1 DEF Checked, Exists
<1>6. CASE k = m
  <2>1. i \in OpenPlagiarismRequests(m) /\ id \in OpenPlagiarismRequests(m)
    BY <1>1, <1>4, <1>6 DEF Newest, OpenPlagiarismRequests, PlagiarismRequests
  <2>2. i = id
    BY <2>1 DEF RequestInv, RequestsMatchStatus
  <2>3. plagiarismRequestFulfilled'[i] /\ status'[k] # "CHECKING"
    BY <1>1, <1>2, <1>6, <2>2
  <2>4. Newest(k, i)'
    BY <1>1, <1>3, <1>4, <2>3 DEF Newest
  <2>5. WithinThreshold(k)'
    <3>1. Exceeds(s) => status'[k] = "REJECTED"
      BY <1>1, <1>2, <1>6
    <3>2. plagiarismScore'[k] = s
      BY <1>1, <1>2, <1>6
    <3>3. ~ Exceeds(s) => s <= PLAGIARISM_THRESHOLD
      BY RegistryAssumption DEF Exceeds
    <3> QED
      BY <3>1, <3>2, <3>3 DEF WithinThreshold
  <2> QED
    BY <2>4, <2>5
<1>7. CASE k # m
  <2>1. i # id
    BY <1>4, <1>7 DEF Newest, PlagiarismRequests
  <2>2. /\ plagiarismRequestFulfilled'[i] = plagiarismRequestFulfilled[i]
        /\ status'[k] = status[k] /\ plagiarismScore'[k] = plagiarismScore[k]
    BY <1>1, <1>2, <1>7, <2>1
  <2>3. Newest(k, i)'
    BY <1>1, <1>3, <1>4, <2>2 DEF Newest
  <2>4. WithinThreshold(k)'
    BY <1>5, <2>2 DEF WithinThreshold
  <2> QED
    BY <2>3, <2>4
<1> QED
  BY <1>6, <1>7

LEMMA SubmitManuscriptChecked ==
  ASSUME TypeOK, RequestInv, \A k \in ManuscriptId : Checked(k),
         NEW a \in Author, NEW c \in Cid, NEW n \in Nonce,
         SubmitManuscript(a, c, n)
  PROVE  \A k \in ManuscriptId : Checked(k)'
<1>1. nextManuscriptId \in ManuscriptId /\ nextManuscriptId \in Nat
  BY Identifiers DEF TypeOK, SubmitManuscript
<1> SUFFICES ASSUME NEW m \in ManuscriptId, m = nextManuscriptId
             PROVE  \A k \in ManuscriptId : Checked(k)'
  BY <1>1
<1>2. /\ RequestPlagiarismCheck(m, c)
      /\ cid' = [cid EXCEPT ![m] = c]
      /\ status' = [status EXCEPT ![m] = "CHECKING"]
      /\ UNCHANGED plagiarismScore
      /\ nextManuscriptId' = nextManuscriptId + 1
  BY DEF SubmitManuscript
<1>3. \A k \in ManuscriptId \ {m} : Exists(k)' <=> Exists(k)
  BY <1>1, <1>2, Identifiers DEF Exists
<1> QED
  BY <1>2, <1>3, RequestChecked DEF RequestInv

LEMMA ReviseManuscriptChecked ==
  ASSUME TypeOK, RequestInv, \A k \in ManuscriptId : Checked(k),
         NEW m \in ManuscriptId, NEW a \in Author, NEW c \in Cid,
         NEW n \in Nonce, ReviseManuscript(m, a, c, n)
  PROVE  \A k \in ManuscriptId : Checked(k)'
<1>1. /\ RequestPlagiarismCheck(m, c)
      /\ cid' = [cid EXCEPT ![m] = c]
      /\ status' = [status EXCEPT ![m] = "CHECKING"]
      /\ UNCHANGED <<plagiarismScore, nextManuscriptId>>
  BY DEF ReviseManuscript, submissionVars
<1>2. \A k \in ManuscriptId \ {m} : Exists(k)' <=> Exists(k)
  BY <1>1 DEF Exists
<1> QED
  BY <1>1, <1>2, RequestChecked DEF RequestInv

(* A step that moves one manuscript out of a state past its check.         *)
LEMMA PastCheckKept ==
  ASSUME TypeOK, \A k \in ManuscriptId : Checked(k), NEW m \in ManuscriptId,
         UNCHANGED <<nextManuscriptId, plagiarismVars, cid, plagiarismScore>>,
         status[m] \notin {"CHECKING", "REJECTED"}, status'[m] # "CHECKING",
         \A k \in ManuscriptId : k # m => status'[k] = status[k]
  PROVE  \A k \in ManuscriptId : Checked(k)'
<1> SUFFICES ASSUME NEW k \in ManuscriptId PROVE Checked(k)'
  OBVIOUS
<1>1. status'[k] = "CHECKING" <=> status[k] = "CHECKING"
  OBVIOUS
<1>2. WithinThreshold(k) /\ Exists(k) => WithinThreshold(k)'
  BY DEF WithinThreshold
<1> QED
  BY <1>1, <1>2, CheckedKept

LEMMA NextChecked ==
  ASSUME TypeOK, RequestInv, \A k \in ManuscriptId : Checked(k), [Next]_vars
  PROVE  \A k \in ManuscriptId : Checked(k)'
<1>1. status \in [ManuscriptId -> Status]
  BY DEF TypeOK
<1>2. ASSUME NEW m \in ManuscriptId, NEW approve \in BOOLEAN, NEW f \in Field,
             SubmitEditorReview(m, approve, f)
      PROVE  \A k \in ManuscriptId : Checked(k)'
  <2>1. /\ status[m] = "PENDING_EDITOR"
        /\ status' = [status EXCEPT ![m] = IF approve THEN "UNDER_REVIEW"
                                           ELSE "REJECTED"]
        /\ UNCHANGED <<nextManuscriptId, plagiarismVars, cid, plagiarismScore>>
    BY <1>2 DEF SubmitEditorReview, RequireState, submissionVars, contentVars,
                RequestRandomReviewers, oracleVars
  <2> QED
    BY <1>1, <2>1, PastCheckKept
<1>3. ASSUME NEW m \in ManuscriptId, NEW a \in Address, NEW v \in Verdict,
             NEW n \in Nonce, SubmitReview(m, a, v, n)
      PROVE  \A k \in ManuscriptId : Checked(k)'
  <2>1. /\ status[m] = "UNDER_REVIEW"
        /\ \A k \in ManuscriptId : k # m => status'[k] = status[k]
        /\ status'[m] # "CHECKING"
        /\ UNCHANGED <<nextManuscriptId, plagiarismVars, cid, plagiarismScore>>
    BY <1>1, <1>3, DecisionType
    DEF SubmitReview, RequireState, submissionVars, contentVars, oracleVars
  <2> QED
    BY <2>1, PastCheckKept
<1>4. ASSUME NEW m \in ManuscriptId, NEW a \in Author, PayPublicationFee(m, a)
      PROVE  \A k \in ManuscriptId : Checked(k)'
  <2>1. /\ status[m] = "ACCEPTED"
        /\ status' = [status EXCEPT ![m] = "PUBLISHED"]
        /\ UNCHANGED <<nextManuscriptId, plagiarismVars, cid, plagiarismScore>>
    BY <1>4 DEF PayPublicationFee, RequireState, submissionVars, contentVars,
                oracleVars
  <2> QED
    BY <1>1, <2>1, PastCheckKept
<1>5. ASSUME UNCHANGED <<nextManuscriptId, plagiarismVars, cid, status,
                         plagiarismScore>>
      PROVE  \A k \in ManuscriptId : Checked(k)'
  BY <1>5, CheckedKept DEF WithinThreshold
<1>6. ASSUME NEW a, FundAuthor(a) \/ ApproveFee(a) \/ Withdraw(a)
      PROVE  \A k \in ManuscriptId : Checked(k)'
  BY <1>5, <1>6 DEF FundAuthor, ApproveFee, Withdraw, tokenFrame,
                    registryVars, submissionVars, contentVars, oracleVars
<1>7. ASSUME NEW id \in RequestId, NEW list \in ReviewerLists,
             AnswerReviewerSelection(id, list)
      PROVE  \A k \in ManuscriptId : Checked(k)'
  BY <1>5, <1>7 DEF AnswerReviewerSelection, FulfillRandomReviewers,
                    FulfillReviewerSelection, submissionVars, contentVars
<1>8. ASSUME UNCHANGED vars PROVE \A k \in ManuscriptId : Checked(k)'
  BY <1>5, <1>8 DEF vars, registryVars, submissionVars, contentVars, oracleVars
<1> QED
  BY <1>2, <1>3, <1>4, <1>6, <1>7, <1>8, AnswerPlagiarismCheckChecked,
     SubmitManuscriptChecked, ReviseManuscriptChecked DEF Next

(***************************************************************************)
(* Only checked content advances: past CHECKING a manuscript's current     *)
(* file is the one its newest, answered check was about, and unless it was *)
(* rejected the score on record is within the threshold.                   *)
(***************************************************************************)
THEOREM OnlyCheckedAdvances == Spec => []OnlyCheckedContentAdvances
<1>1. Init => \A k \in ManuscriptId : Checked(k)
  BY InitChecked
<1>2. TypeOK /\ RequestInv /\ (\A k \in ManuscriptId : Checked(k)) /\ [Next]_vars
        => (\A k \in ManuscriptId : Checked(k))'
  BY NextChecked
<1>3. (\A k \in ManuscriptId : Checked(k)) => OnlyCheckedContentAdvances
  BY CheckedIsOnlyChecked
<1> QED
  BY <1>1, <1>2, <1>3, TypeCorrect, RequestInvariant, PTL DEF Spec
-----------------------------------------------------------------------------
(***************************************************************************)
(* Money.  FeesRetained speaks of sums over all manuscripts and all        *)
(* accounts, which the library defines by recursion on sets.  Its          *)
(* induction theorems take a predicate; what is proved by induction here   *)
(* is stated as the set of the numbers, or of the sets, that satisfy it.   *)
(***************************************************************************)
(* A set of numbers with 0 and every successor has them all: the least one *)
(* missing would have its predecessor in the set.                          *)
LEMMA NatSetInduction ==
  ASSUME NEW G, 0 \in G, \A n \in Nat : n \in G => n + 1 \in G
  PROVE  Nat \subseteq G
<1> DEFINE R == OpToRel(<, Nat)
           T == Nat \ G
<1>1. IsWellFoundedOn(R, Nat)
  BY NatLessThanWellFounded
<1>2. \A i, j \in Nat : i < j => <<i, j>> \in R
  BY DEF OpToRel
<1> HIDE DEF R
<1>3. SUFFICES ASSUME T # {} PROVE FALSE
  OBVIOUS
<1>4. PICK n \in T : \A k \in T : ~ (<<k, n>> \in R)
  BY <1>1, <1>3, WFMin
<1>5. n \in Nat /\ n # 0 /\ n - 1 \in Nat
  OBVIOUS
<1>6. n - 1 \notin T
  <2>1. n - 1 < n
    BY <1>5
  <2>2. <<n - 1, n>> \in R
    BY <1>2, <1>5, <2>1
  <2> HIDE DEF T
  <2> QED BY <1>4, <2>2
<1> QED
  BY <1>5, <1>6

(* The element a fold over s takes next.                                   *)
NextOf(s) == CHOOSE x \in s : TRUE

LEMMA NextOfIn == ASSUME NEW s, s # {} PROVE NextOf(s) \in s
BY DEF NextOf

(* A family of sets with the empty one that is closed under adding the next*)
(* element has every subset of a finite set.                               *)
LEMMA SetInduction ==
  ASSUME NEW D, IsFiniteSet(D), NEW G, {} \in G,
         \A s \in SUBSET D : s # {} /\ s \ {NextOf(s)} \in G => s \in G
  PROVE  SUBSET D \subseteq G
<1> DEFINE H == {n \in Nat : \A s \in SUBSET D : Cardinality(s) = n => s \in G}
<1>1. \A s \in SUBSET D : IsFiniteSet(s) /\ Cardinality(s) \in Nat
  BY FS_Subset, FS_CardinalityType
<1>2. 0 \in H
  BY <1>1, FS_EmptySet
<1>3. ASSUME NEW n \in Nat, n \in H PROVE n + 1 \in H
  <2> SUFFICES ASSUME NEW s \in SUBSET D, Cardinality(s) = n + 1
               PROVE  s \in G
    OBVIOUS
  <2>1. s # {}
    <3>1. Cardinality({}) = 0 /\ n + 1 # 0
      BY FS_EmptySet
    <3> QED BY <3>1
  <2>2. Cardinality(s \ {NextOf(s)}) = n
    <3>1. NextOf(s) \in s /\ IsFiniteSet(s)
      BY <1>1, <2>1, NextOfIn
    <3>2. Cardinality(s \ {NextOf(s)}) = Cardinality(s) - 1
      BY <3>1, FS_RemoveElement
    <3> QED BY <3>2
  <2>3. s \ {NextOf(s)} \in G
    BY <1>3, <2>2
  <2> QED
    BY <2>1, <2>3
<1>4. Nat \subseteq H
  <2> HIDE DEF H
  <2> QED BY <1>2, <1>3, NatSetInduction
<1> QED
  BY <1>1, <1>4

(***************************************************************************)
(* A sum of f is defined through the function of all its partial sums.     *)
(* Such a function exists for every finite domain (by induction on the     *)
(* size of the sets it is right about), so the definition denotes it.      *)
(***************************************************************************)
Summed(f, D, g) ==
  g = [s \in SUBSET D |->
         IF s = {} THEN 0 ELSE f[NextOf(s)] + g[s \ {NextOf(s)}]]
PartialSum(f, D) == CHOOSE g : Summed(f, D, g)

LEMMA SumIsRec ==
  ASSUME NEW f, NEW D
  PROVE  SumFunctionOnSet(f, D) = PartialSum(f, D)[D]
BY DEF PartialSum, NextOf, Summed, SumFunctionOnSet, FoldFunctionOnSet, MapThenFoldSet

LEMMA SummedExists ==
  ASSUME NEW D, IsFiniteSet(D), NEW f \in [D -> Int]
  PROVE  \E g : Summed(f, D, g)
<1> DEFINE body(g, s) == IF s = {} THEN 0
                         ELSE f[NextOf(s)] + g[s \ {NextOf(s)}]
           upTo(g, n) == \A s \in SUBSET D :
                           Cardinality(s) <= n => g[s] = body(g, s)
           H == {n \in Nat : \E g \in [SUBSET D -> Int] : upTo(g, n)}
<1>1. \A s \in SUBSET D : IsFiniteSet(s) /\ Cardinality(s) \in Nat
  BY FS_Subset, FS_CardinalityType
<1>2. 0 \in H
  <2> DEFINE z == [s \in SUBSET D |-> 0]
  <2>1. \A s \in SUBSET D : Cardinality(s) <= 0 => s = {}
    BY <1>1, FS_EmptySet
  <2>2. z \in [SUBSET D -> Int] /\ upTo(z, 0)
    BY <2>1
  <2> QED
    BY <2>2
<1>3. ASSUME NEW n \in Nat, n \in H PROVE n + 1 \in H
  <2>1. PICK g \in [SUBSET D -> Int] : upTo(g, n)
    BY <1>3
  <2> DEFINE h == [s \in SUBSET D |-> body(g, s)]
  <2>2. \A s \in SUBSET D : s # {} =>
          NextOf(s) \in D /\ s \ {NextOf(s)} \in SUBSET D
    BY NextOfIn
  <2>3. h \in [SUBSET D -> Int]
    BY <2>2
  <2>4. \A s \in SUBSET D : Cardinality(s) <= n => h[s] = g[s]
    BY <2>1
  <2>5. ASSUME NEW s \in SUBSET D, Cardinality(s) <= n + 1, s # {}
        PROVE  h[s] = body(h, s)
    <3>1. Cardinality(s \ {NextOf(s)}) <= n
      BY <1>1, <2>5, NextOfIn, FS_RemoveElement
    <3> QED
      BY <2>2, <2>4, <2>5, <3>1
  <2>6. upTo(h, n + 1)
    <3>1. h[{}] = body(h, {})
      OBVIOUS
    <3> HIDE DEF h, body
    <3> QED BY <2>5, <3>1
  <2> HIDE DEF upTo, h
  <2> QED
    BY <2>3, <2>6
<1>4. Nat \subseteq H
  <2> HIDE DEF H
  <2> QED BY <1>2, <1>3, NatSetInduction
<1>5. Cardinality(D) \in Nat /\ \A s \in SUBSET D : Cardinality(s) <= Cardinality(D)
  BY FS_Subset, FS_CardinalityType
<1>6. PICK g \in [SUBSET D -> Int] : upTo(g, Cardinality(D))
  BY <1>4, <1>5
<1>7. g = [s \in SUBSET D |-> body(g, s)]
  BY <1>5, <1>6
<1> QED
  BY <1>7 DEF Summed

LEMMA PartialSums ==
  ASSUME NEW D, IsFiniteSet(D), NEW f \in [D -> Int]
  PROVE  /\ PartialSum(f, D)[{}] = 0
         /\ \A s \in SUBSET D : s # {} =>
              PartialSum(f, D)[s] =
                f[NextOf(s)] + PartialSum(f, D)[s \ {NextOf(s)}]
         /\ PartialSum(f, D) \in [SUBSET D -> Int]
<1> DEFINE g == PartialSum(f, D)
<1>1. Summed(f, D, g)
  BY SummedExists, Zenon DEF PartialSum
<1> HIDE DEF g
<1>2. DOMAIN g = SUBSET D
  BY <1>1 DEF Summed
<1>3. g[{}] = 0
  BY <1>1 DEF Summed
<1>4. ASSUME NEW s \in SUBSET D, s # {}
      PROVE  g[s] = f[NextOf(s)] + g[s \ {NextOf(s)}]
  BY <1>1, <1>4 DEF Summed
<1> DEFINE G == {s \in SUBSET D : g[s] \in Int}
<1>5. \A s \in SUBSET D : s # {} /\ s \ {NextOf(s)} \in G => s \in G
  BY <1>4, NextOfIn
<1>6. {} \in G
  BY <1>3
<1>7. SUBSET D \subseteq G
  <2> HIDE DEF G
  <2> QED BY <1>5, <1>6, SetInduction
<1>8. g \in [SUBSET D -> Int]
  <2>1. g = [s \in SUBSET D |-> g[s]]
    BY <1>1 DEF Summed
  <2> QED BY <1>7, <2>1
<1> QED
  BY <1>3, <1>4, <1>8 DEF g

(***************************************************************************)
(* What the proofs use of sums: their type, that they add up, and that a   *)
(* function with one non-zero value sums to it.                            *)
(***************************************************************************)
LEMMA SumType ==
  ASSUME NEW D, IsFiniteSet(D), NEW f \in [D -> Int]
  PROVE  SumFunction(f) = PartialSum(f, D)[D] /\ SumFunction(f) \in Int
<1>1. SumFunction(f) = PartialSum(f, D)[D]
  BY SumIsRec DEF SumFunction
<1>2. PartialSum(f, D)[D] \in Int
  <2>1. PartialSum(f, D) \in [SUBSET D -> Int] /\ D \in SUBSET D
    BY PartialSums
  <2> QED BY <2>1
<1> QED
  BY <1>1, <1>2

LEMMA SumAdd ==
  ASSUME NEW D, IsFiniteSet(D),
         NEW f \in [D -> Int], NEW g \in [D -> Int]
  PROVE  SumFunction([x \in D |-> f[x] + g[x]])
           = SumFunction(f) + SumFunction(g)
<1> DEFINE h == [x \in D |-> f[x] + g[x]]
<1>0. h \in [D -> Int] /\ \A x \in D : h[x] = f[x] + g[x]
  OBVIOUS
<1> HIDE DEF h
<1> DEFINE F == PartialSum(f, D)
           K == PartialSum(g, D)
           H == PartialSum(h, D)
           G == {s \in SUBSET D : H[s] = F[s] + K[s]}
<1>1. /\ F \in [SUBSET D -> Int] /\ K \in [SUBSET D -> Int]
      /\ F[{}] = 0 /\ K[{}] = 0 /\ H[{}] = 0
  BY <1>0, PartialSums
<1>2. \A s \in SUBSET D : s # {} =>
        F[s] = f[NextOf(s)] + F[s \ {NextOf(s)}]
  BY <1>0, PartialSums
<1>3. \A s \in SUBSET D : s # {} =>
        K[s] = g[NextOf(s)] + K[s \ {NextOf(s)}]
  BY <1>0, PartialSums
<1>4. \A s \in SUBSET D : s # {} =>
        H[s] = h[NextOf(s)] + H[s \ {NextOf(s)}]
  BY <1>0, PartialSums
<1> HIDE DEF F, K, H
<1>5. {} \in G
  BY <1>1
<1>6. ASSUME NEW s \in SUBSET D, s # {}, s \ {NextOf(s)} \in G
      PROVE  s \in G
  <2> DEFINE x == NextOf(s)
             t == s \ {x}
  <2>1. x \in D /\ t \in SUBSET D
    BY <1>6, NextOfIn
  <2>2. /\ F[s] = f[x] + F[t] /\ K[s] = g[x] + K[t] /\ H[s] = h[x] + H[t]
        /\ H[t] = F[t] + K[t] /\ h[x] = f[x] + g[x]
    BY <1>0, <1>2, <1>3, <1>4, <1>6, <2>1
  <2> HIDE DEF x, t
  <2>3. f[x] \in Int /\ g[x] \in Int /\ F[t] \in Int /\ K[t] \in Int
    BY <1>1, <2>1
  <2> QED
    BY <2>2, <2>3
<1>7. SUBSET D \subseteq G
  <2> HIDE DEF G
  <2> QED BY <1>5, <1>6, SetInduction
<1> QED
  BY <1>0, <1>7, SumType DEF F, K, H, h

LEMMA SumAtPoint ==
  ASSUME NEW D, IsFiniteSet(D), NEW f \in [D -> Int], NEW a \in D,
         \A x \in D : x # a => f[x] = 0
  PROVE  SumFunction(f) = f[a]
<1> DEFINE F == PartialSum(f, D)
           G == {s \in SUBSET D : F[s] = IF a \in s THEN f[a] ELSE 0}
<1>1. {} \in G
  BY PartialSums
<1>2. ASSUME NEW s \in SUBSET D, s # {}
      PROVE  F[s] = f[NextOf(s)] + F[s \ {NextOf(s)}]
  BY <1>2, PartialSums
<1> HIDE DEF F
<1>3. ASSUME NEW s \in SUBSET D, s # {}, s \ {NextOf(s)} \in G
      PROVE  s \in G
  <2> DEFINE x == NextOf(s)
             t == s \ {x}
  <2>1. x \in s /\ x \in D /\ t \in SUBSET D
    BY <1>3, NextOfIn
  <2>2. F[s] = f[x] + F[t] /\ F[t] = IF a \in t THEN f[a] ELSE 0
    BY <1>2, <1>3
  <2>3. a \in t <=> a \in s /\ a # x
    OBVIOUS
  <2> HIDE DEF x, t
  <2>4. F[s] = IF a \in s THEN f[a] ELSE 0
    BY <2>1, <2>2, <2>3
  <2> QED
    BY <2>4
<1>4. SUBSET D \subseteq G
  <2> HIDE DEF G
  <2> QED BY <1>1, <1>3, SetInduction
<1> QED
  BY <1>4, SumType DEF F

LEMMA SumOfNone ==
  ASSUME NEW D, IsFiniteSet(D), NEW f \in [D -> Int], \A x \in D : f[x] = 0
  PROVE  SumFunction(f) = 0
<1>1. CASE D = {}
  BY <1>1, SumType, PartialSums
<1>2. CASE D # {}
  BY <1>2, SumAtPoint
<1> QED
  BY <1>1, <1>2

LEMMA Distributes ==
  \A c, k \in Nat : c * k \in Nat /\ c * (k + 1) = c * k + c /\ c * 0 = 0
OBVIOUS

LEMMA AccountsFinite == IsFiniteSet(Account)
<1>1. IsFiniteSet(Address \cup {Funder})
  BY AddressesFinite, FS_AddElement
<1>2. IsFiniteSet((Address \cup {Funder}) \cup {Registry})
  BY <1>1, FS_AddElement
<1>3. Account = (Address \cup {Funder}) \cup {Registry}
  BY DEF Account
<1> QED
  BY <1>2, <1>3

(***************************************************************************)
(* What a payment hands out: over all accounts, one incentive for each     *)
(* entry of the list, also for a list that names somebody twice.           *)
(***************************************************************************)
OccurrencesUpTo(x, list, n) == Cardinality({i \in 1 .. n : list[i] = x})

LEMMA OccurrencesNext ==
  ASSUME NEW list \in Seq(Address), NEW n \in Nat, n + 1 <= Len(list), NEW x
  PROVE  /\ OccurrencesUpTo(x, list, n) \in Nat
         /\ OccurrencesUpTo(x, list, n + 1) =
              OccurrencesUpTo(x, list, n) + (IF list[n + 1] = x THEN 1 ELSE 0)
<1> DEFINE S == {i \in 1 .. n : list[i] = x}
           T == {i \in 1 .. n + 1 : list[i] = x}
<1>1. IsFiniteSet(S)
  <2>1. IsFiniteSet(1 .. n) /\ S \in SUBSET (1 .. n)
    BY FS_Interval
  <2> QED BY <2>1, FS_Subset
<1>2. Cardinality(S) \in Nat
  BY <1>1, FS_CardinalityType
<1>3. n + 1 \notin S
  OBVIOUS
<1>4. T = IF list[n + 1] = x THEN S \cup {n + 1} ELSE S
  <2>1. 1 .. n + 1 = (1 .. n) \cup {n + 1}
    OBVIOUS
  <2> QED BY <2>1
<1> HIDE DEF S, T
<1>5. Cardinality(T) = Cardinality(S) + (IF list[n + 1] = x THEN 1 ELSE 0)
  <2>1. Cardinality(S \cup {n + 1}) = Cardinality(S) + 1
    BY <1>1, <1>3, FS_AddElement
  <2> QED BY <1>2, <1>4, <2>1
<1> QED
  BY <1>2, <1>5 DEF OccurrencesUpTo, S, T

LEMMA SumOfIncentives ==
  ASSUME NEW list \in Seq(Address)
  PROVE  LET paid == [x \in Account |->
                        REVIEWER_INCENTIVE * Occurrences(x, list)]
         IN  /\ paid \in [Account -> Int]
             /\ SumFunction(paid) = PaidOut(list)
<1> USE TokenAssumption
<1> DEFINE c == REVIEWER_INCENTIVE
           paid(n) == [x \in Account |-> c * OccurrencesUpTo(x, list, n)]
           G == {n \in Nat : n <= Len(list) =>
                   /\ paid(n) \in [Account -> Int]
                   /\ SumFunction(paid(n)) = c * n}
<1>1. c \in Nat
  OBVIOUS
<1>2. 0 \in G
  <2>1. \A x : OccurrencesUpTo(x, list, 0) = 0
    <3>1. \A x : {i \in 1 .. 0 : list[i] = x} = {}
      OBVIOUS
    <3> QED BY <3>1, FS_EmptySet DEF OccurrencesUpTo
  <2>2. paid(0) = [x \in Account |-> 0] /\ c * 0 = 0
    BY <1>1, <2>1
  <2>3. SumFunction([x \in Account |-> 0]) = 0
    <3>1. [x \in Account |-> 0] \in [Account -> Int]
      OBVIOUS
    <3> QED BY <3>1, AccountsFinite, SumOfNone
  <2>4. paid(0) \in [Account -> Int]
    BY <2>2
  <2> HIDE DEF paid, c
  <2> QED
    BY <2>2, <2>3, <2>4
<1>3. ASSUME NEW n \in Nat, n \in G PROVE n + 1 \in G
  <2> SUFFICES ASSUME n + 1 <= Len(list)
               PROVE  /\ paid(n + 1) \in [Account -> Int]
                      /\ SumFunction(paid(n + 1)) = c * (n + 1)
    OBVIOUS
  <2> DEFINE one == [x \in Account |-> IF x = list[n + 1] THEN c ELSE 0]
  <2>1. paid(n) \in [Account -> Int] /\ SumFunction(paid(n)) = c * n
    <3>1. n <= Len(list)
      OBVIOUS
    <3> QED BY <1>3, <3>1
  <2>2. one \in [Account -> Int] /\ list[n + 1] \in Account
        /\ one[list[n + 1]] = c /\ \A x \in Account : x # list[n + 1] => one[x] = 0
    BY <1>1 DEF Account
  <2>3. SumFunction(one) = c
    <3> HIDE DEF one, c
    <3> QED BY <2>2, AccountsFinite, SumAtPoint
  <2>4. ASSUME NEW x \in Account
        PROVE  /\ paid(n + 1)[x] = paid(n)[x] + one[x]
               /\ paid(n + 1)[x] \in Int
    <3> DEFINE k == OccurrencesUpTo(x, list, n)
               k1 == OccurrencesUpTo(x, list, n + 1)
    <3>1. k \in Nat /\ k1 = k + (IF list[n + 1] = x THEN 1 ELSE 0)
      BY OccurrencesNext
    <3>2. paid(n + 1)[x] = c * k1 /\ paid(n)[x] = c * k
          /\ one[x] = IF x = list[n + 1] THEN c ELSE 0
      OBVIOUS
    <3> HIDE DEF paid, one, k, k1, c
    <3>3. c * k \in Nat /\ c * (k + 1) = c * k + c
      BY <1>1, <3>1, Distributes
    <3>4. CASE list[n + 1] = x
      <4>1. k1 = k + 1 /\ one[x] = c
        BY <3>1, <3>2, <3>4
      <4> QED BY <1>1, <3>2, <3>3, <4>1
    <3>5. CASE list[n + 1] # x
      <4>1. k1 = k /\ one[x] = 0
        BY <3>1, <3>2, <3>5
      <4> QED BY <3>2, <3>3, <4>1
    <3> QED
      BY <3>4, <3>5
  <2>5. paid(n + 1) \in [Account -> Int]
    BY <2>4
  <2>6. c * (n + 1) = c * n + c
    BY <1>1, Distributes
  <2>7. SumFunction(paid(n + 1)) = SumFunction(paid(n)) + SumFunction(one)
    <3> DEFINE before == paid(n)
               after == paid(n + 1)
    <3>1. /\ before \in [Account -> Int] /\ one \in [Account -> Int]
          /\ after \in [Account -> Int]
          /\ after = [x \in Account |-> before[x] + one[x]]
      BY <2>1, <2>2, <2>4, <2>5
    <3> HIDE DEF before, after, one
    <3>2. SumFunction(after) = SumFunction(before) + SumFunction(one)
      BY <3>1, AccountsFinite, SumAdd
    <3> QED BY <3>2 DEF before, after
  <2> HIDE DEF paid, one, c
  <2> QED
    BY <2>1, <2>3, <2>5, <2>6, <2>7
<1>4. Nat \subseteq G
  <2> HIDE DEF G
  <2> QED BY <1>2, <1>3, NatSetInduction
<1>5. Len(list) \in Nat /\ Len(list) <= Len(list)
  OBVIOUS
<1>6. paid(Len(list)) \in [Account -> Int]
      /\ SumFunction(paid(Len(list))) = c * Len(list)
  <2> HIDE DEF paid, c
  <2> QED BY <1>4, <1>5
<1>7. paid(Len(list)) = [x \in Account |-> REVIEWER_INCENTIVE * Occurrences(x, list)]
  <2>1. DOMAIN list = 1 .. Len(list)
    OBVIOUS
  <2>2. \A x : OccurrencesUpTo(x, list, Len(list)) = Occurrences(x, list)
    BY <2>1 DEF Occurrences, OccurrencesUpTo
  <2> QED BY <2>2
<1> QED
  BY <1>6, <1>7 DEF PaidOut

(* What each manuscript has left in the registry.                          *)
Share == [m \in ManuscriptId |->
            IF status[m] = "PUBLISHED"
            THEN PUBLICATION_FEE - REVIEWER_INCENTIVE * Len(reviewers[m])
            ELSE 0]

LEMMA ManuscriptsFinite == IsFiniteSet(ManuscriptId)
BY BoundsAssumption, FS_Interval DEF ManuscriptId

LEMMA ShareType == ASSUME TypeOK PROVE Share \in [ManuscriptId -> Int]
<1> SUFFICES ASSUME NEW m \in ManuscriptId
             PROVE  PUBLICATION_FEE - REVIEWER_INCENTIVE * Len(reviewers[m]) \in Int
  BY DEF Share
<1>1. Len(reviewers[m]) \in Nat
  BY DEF TypeOK
<1>2. REVIEWER_INCENTIVE * Len(reviewers[m]) \in Nat
  BY <1>1, TokenAssumption, NatProduct
<1> QED
  BY <1>2, TokenAssumption

(* One account gains, one loses, possibly the same.                        *)
LEMMA MovedBetween ==
  ASSUME NEW f \in [Account -> Int], NEW from \in Account, NEW to \in Account,
         NEW paid \in Int, NEW taken \in Int
  PROVE  SumFunction([x \in Account |->
             f[x] + (IF x = to THEN paid ELSE 0)
                  - (IF x = from THEN taken ELSE 0)])
           = SumFunction(f) + paid - taken
<1> DEFINE credit == [x \in Account |-> IF x = to THEN paid ELSE 0]
           debit == [x \in Account |-> IF x = from THEN -taken ELSE 0]
           mid == [x \in Account |-> f[x] + credit[x]]
           new == [x \in Account |->
             f[x] + (IF x = to THEN paid ELSE 0)
                  - (IF x = from THEN taken ELSE 0)]
<1>1. /\ credit \in [Account -> Int] /\ credit[to] = paid
      /\ \A x \in Account : x # to => credit[x] = 0
      /\ debit \in [Account -> Int] /\ debit[from] = -taken
      /\ \A x \in Account : x # from => debit[x] = 0
      /\ mid \in [Account -> Int]
      /\ new = [x \in Account |-> mid[x] + debit[x]]
  OBVIOUS
<1>2. mid = [x \in Account |-> f[x] + credit[x]]
  OBVIOUS
<1> HIDE DEF credit, debit, mid
<1>3. SumFunction(credit) = paid
  BY <1>1, AccountsFinite, SumAtPoint
<1>4. SumFunction(debit) = -taken
  BY <1>1, AccountsFinite, SumAtPoint
<1>5. SumFunction(mid) = SumFunction(f) + SumFunction(credit)
  BY <1>1, <1>2, AccountsFinite, SumAdd
<1>6. SumFunction(new) = SumFunction(mid) + SumFunction(debit)
  <2> HIDE DEF new
  <2> QED BY <1>1, AccountsFinite, SumAdd
<1>7. SumFunction(f) \in Int
  BY AccountsFinite, SumType
<1> QED
  BY <1>3, <1>4, <1>5, <1>6, <1>7

LEMMA TransferConserves ==
  ASSUME TokenTypeOK, NEW from \in Account, NEW to \in Account,
         NEW amount \in Nat, Transfer(from, to, amount)
  PROVE  SumFunction(balance') = SumFunction(balance)
<1>1. balance \in [Account -> Int] /\ amount \in Int
  BY DEF TokenTypeOK
<1>2. SumFunction(balance') = SumFunction(balance) + amount - amount
  BY <1>1, MovedBetween DEF Transfer
<1> QED
  BY <1>1, <1>2, AccountsFinite, SumType

(* A payment keeps the supply and leaves the registry one fee less one     *)
(* incentive per entry, whoever is on the list, the payer included.        *)
LEMMA PaymentConserves ==
  ASSUME TokenTypeOK, NEW payer \in Address, NEW list \in Seq(Address),
         PayFromFee(payer, list)
  PROVE  /\ SumFunction(balance') = SumFunction(balance)
         /\ balance'[Registry] =
              balance[Registry] + PUBLICATION_FEE - PaidOut(list)
<1> USE TokenAssumption
<1> DEFINE paid == [x \in Account |-> REVIEWER_INCENTIVE * Occurrences(x, list)]
           mid == [x \in Account |-> balance[x] + paid[x]]
           kept == PUBLICATION_FEE - PaidOut(list)
<1>1. payer \in Account /\ Registry \in Account /\ Registry # payer
      /\ balance \in [Account -> Int]
  BY DEF Account, TokenTypeOK
<1>2. PaidOut(list) \in Nat
  BY NatProduct DEF PaidOut
<1>3. paid \in [Account -> Int] /\ SumFunction(paid) = PaidOut(list)
  BY SumOfIncentives
<1>4. balance' = [x \in Account |-> mid[x] + (IF x = Registry THEN kept ELSE 0)
                          - (IF x = payer THEN PUBLICATION_FEE ELSE 0)]
  BY DEF PayFromFee
<1>5. mid = [x \in Account |-> balance[x] + paid[x]] /\ kept \in Int
      /\ mid[Registry] = balance[Registry] + paid[Registry]
  BY <1>1, <1>2
<1>6. mid \in [Account -> Int]
  BY <1>1, <1>3
<1>7. paid[Registry] = 0
  <2>1. Occurrences(Registry, list) = 0
    <3>1. {i \in DOMAIN list : list[i] = Registry} = {}
      OBVIOUS
    <3> QED BY <3>1, FS_EmptySet DEF Occurrences
  <2> QED BY <1>1, <2>1
<1>8. /\ SumFunction(balance) \in Int
      /\ SumFunction(mid) = SumFunction(balance) + SumFunction(paid)
  <2> HIDE DEF mid, paid
  <2> QED BY <1>1, <1>3, <1>5, AccountsFinite, SumAdd, SumType
<1> HIDE DEF mid, paid
<1>9. SumFunction(balance') = SumFunction(mid) + kept - PUBLICATION_FEE
  <2>1. /\ PUBLICATION_FEE \in Int /\ kept \in Int
        /\ payer \in Account /\ Registry \in Account
    BY <1>1, <1>5
  <2> HIDE DEF kept
  <2>2. SumFunction([x \in Account |->
             mid[x] + (IF x = Registry THEN kept ELSE 0)
                    - (IF x = payer THEN PUBLICATION_FEE ELSE 0)])
          = SumFunction(mid) + kept - PUBLICATION_FEE
    BY <1>6, <2>1, MovedBetween
  <2> QED
    BY <1>4, <2>2
<1>10. SumFunction(balance') = SumFunction(balance)
  BY <1>2, <1>3, <1>8, <1>9
<1>11. balance'[Registry] = mid[Registry] + kept
  BY <1>1, <1>4, <1>5, <1>6
<1> QED
  BY <1>1, <1>2, <1>5, <1>7, <1>10, <1>11

LEMMA InitFees == Init => FeesRetained
<1> SUFFICES ASSUME Init PROVE FeesRetained
  OBVIOUS
<1> USE TokenAssumption
<1>1. TypeOK
  BY InitType
<1>2. balance = [x \in Account |-> IF x = Funder THEN INITIAL_SUPPLY ELSE 0]
  BY DEF Init, TokenInit
<1>3. Funder \in Account /\ Registry \in Account
  BY DEF Account
<1>4. SumFunction(balance) = INITIAL_SUPPLY
  <2>1. balance \in [Account -> Int] /\ balance[Funder] = INITIAL_SUPPLY
        /\ \A x \in Account : x # Funder => balance[x] = 0
    BY <1>2, <1>3
  <2> QED BY <1>3, <2>1, AccountsFinite, SumAtPoint
<1>5. SumFunction(Share) = 0
  <2>1. \A m \in ManuscriptId : Share[m] = 0
    BY DEF Init, RegistryInit, Share
  <2> QED BY <1>1, <2>1, ShareType, ManuscriptsFinite, SumOfNone
<1>6. balance[Registry] = 0
  BY <1>2, <1>3
<1> QED
  BY <1>4, <1>5, <1>6 DEF FeesRetained, Share

(* Steps that pay nobody.                                                  *)
LEMMA FeesKept ==
  ASSUME TypeOK, FeesRetained, SumFunction(balance') = SumFunction(balance),
         balance'[Registry] = balance[Registry],
         \A k \in ManuscriptId :
           /\ status'[k] = "PUBLISHED" <=> status[k] = "PUBLISHED"
           /\ status[k] = "PUBLISHED" => reviewers'[k] = reviewers[k]
  PROVE  FeesRetained'
<1>1. Share' = Share
  BY DEF Share
<1> QED
  BY <1>1 DEF FeesRetained, Share

LEMMA PayPublicationFeeRetains ==
  ASSUME TypeOK, FeesRetained, NEW m \in ManuscriptId, NEW a \in Author,
         PayPublicationFee(m, a)
  PROVE  FeesRetained'
<1> USE TokenAssumption
<1> DEFINE part == [k \in ManuscriptId |->
                      IF k = m THEN PUBLICATION_FEE - PaidOut(reviewers[m])
                      ELSE 0]
<1>1. /\ status[m] = "ACCEPTED" /\ PayFromFee(a, reviewers[m])
      /\ status' = [status EXCEPT ![m] = "PUBLISHED"] /\ reviewers' = reviewers
  BY DEF PayPublicationFee, RequireState, reviewVars
<1>2. /\ TokenTypeOK /\ a \in Address /\ reviewers[m] \in Seq(Address)
      /\ status \in [ManuscriptId -> Status] /\ Len(reviewers[m]) \in Nat
  BY RegistryAssumption DEF TypeOK
<1>3. /\ SumFunction(balance') = SumFunction(balance)
      /\ balance'[Registry] =
           balance[Registry] + PUBLICATION_FEE - PaidOut(reviewers[m])
  BY <1>1, <1>2, PaymentConserves
<1>4. PaidOut(reviewers[m]) \in Nat
  BY <1>2, NatProduct DEF PaidOut
<1>5. Share \in [ManuscriptId -> Int]
  BY ShareType
<1>6. part \in [ManuscriptId -> Int] /\ part[m] = PUBLICATION_FEE - PaidOut(reviewers[m])
      /\ \A k \in ManuscriptId : k # m => part[k] = 0
  BY <1>4
<1>7. Share' = [k \in ManuscriptId |-> Share[k] + part[k]]
  <2>1. ASSUME NEW k \in ManuscriptId
        PROVE  Share'[k] = Share[k] + part[k]
    <3>1. CASE k = m
      <4>1. Share[k] = 0 /\ Share'[k] = part[k] /\ part[k] \in Int
        BY <1>1, <1>2, <1>6, <3>1 DEF Share, PaidOut
      <4> QED BY <4>1
    <3>2. CASE k # m
      <4>1. Share'[k] = Share[k]
        BY <1>1, <1>2, <3>2 DEF Share
      <4> QED BY <1>5, <1>6, <3>2, <4>1
    <3> QED BY <3>1, <3>2
  <2> HIDE DEF part
  <2> QED BY <2>1 DEF Share
<1> HIDE DEF part
<1>8. SumFunction(part) = PUBLICATION_FEE - PaidOut(reviewers[m])
  BY <1>6, ManuscriptsFinite, SumAtPoint
<1>9. SumFunction(Share') = SumFunction(Share) + SumFunction(part)
  BY <1>5, <1>6, <1>7, ManuscriptsFinite, SumAdd
<1>10. balance[Registry] = SumFunction(Share) /\ SumFunction(balance) = INITIAL_SUPPLY
  BY DEF FeesRetained, Share
<1>11. SumFunction(Share) \in Int
  BY <1>5, ManuscriptsFinite, SumType
<1>12. balance'[Registry] = SumFunction(Share')
  BY <1>3, <1>4, <1>8, <1>9, <1>10, <1>11
<1> QED
  BY <1>3, <1>10, <1>12 DEF FeesRetained, Share

LEMMA WalletMoveRetains ==
  ASSUME TypeOK, FeesRetained, NEW a \in Address,
         FundAuthor(a) \/ ApproveFee(a) \/ Withdraw(a)
  PROVE  FeesRetained'
<1> USE TokenAssumption
<1>1. balance[a] \in Nat /\ a \in Account /\ Funder \in Account
      /\ Registry \in Account /\ a # Registry /\ TokenTypeOK
      /\ balance \in [Account -> Nat]
  BY DEF TypeOK, TokenTypeOK, Account
<1>2. status' = status /\ reviewers' = reviewers
  BY DEF FundAuthor, ApproveFee, Withdraw, tokenFrame, registryVars, reviewVars
<1>3. ASSUME NEW from \in Account, NEW to \in Account, NEW amount \in Nat,
             Transfer(from, to, amount), from # Registry, to # Registry
      PROVE  FeesRetained'
  <2>1. SumFunction(balance') = SumFunction(balance)
    BY <1>1, <1>3, TransferConserves
  <2>2. balance'[Registry] = balance[Registry]
    BY <1>1, <1>3 DEF Transfer
  <2> QED BY <1>2, <2>1, <2>2, FeesKept
<1>4. CASE FundAuthor(a)
  <2>1. PUBLICATION_FEE - balance[a] \in Nat
    BY <1>1, <1>4 DEF FundAuthor
  <2> QED BY <1>1, <1>3, <1>4, <2>1 DEF FundAuthor
<1>5. CASE ApproveFee(a)
  BY <1>2, <1>5, FeesKept DEF ApproveFee, Approve
<1>6. CASE Withdraw(a)
  BY <1>1, <1>3, <1>6 DEF Withdraw
<1> QED
  BY <1>4, <1>5, <1>6

LEMMA NextFees ==
  ASSUME TypeOK, StatusOnceSubmitted, FeesRetained, [Next]_vars
  PROVE  FeesRetained'
<1>1. status \in [ManuscriptId -> Status] /\ reviewers \in [ManuscriptId -> Seq(Address)]
  BY DEF TypeOK
<1>0. ASSUME UNCHANGED tokenVars,
             \A k \in ManuscriptId :
               /\ status'[k] = "PUBLISHED" <=> status[k] = "PUBLISHED"
               /\ status[k] = "PUBLISHED" => reviewers'[k] = reviewers[k]
      PROVE  FeesRetained'
  BY <1>0, FeesKept DEF tokenVars
<1>2. ASSUME NEW a \in Author, NEW c \in Cid, NEW n \in Nonce,
             SubmitManuscript(a, c, n)
      PROVE  FeesRetained'
  <2>1. nextManuscriptId \in ManuscriptId
        /\ ~ (nextManuscriptId < nextManuscriptId)
    BY <1>2, Identifiers DEF TypeOK, SubmitManuscript
  <2>2. status[nextManuscriptId] = "SUBMITTED"
    BY <2>1 DEF StatusOnceSubmitted, Exists
  <2>3. /\ status' = [status EXCEPT ![nextManuscriptId] = "CHECKING"]
        /\ UNCHANGED <<reviewers, tokenVars>>
    BY <1>2 DEF SubmitManuscript, reviewVars
  <2> QED
    BY <1>0, <1>1, <2>2, <2>3
<1>3. ASSUME NEW id \in RequestId, NEW s \in Score, AnswerPlagiarismCheck(id, s)
      PROVE  FeesRetained'
  <2>1. /\ status[plagiarismRequestToMs[id]] = "CHECKING"
        /\ status' = [status EXCEPT ![plagiarismRequestToMs[id]] =
                        IF Exceeds(s) THEN "REJECTED" ELSE "PENDING_EDITOR"]
        /\ UNCHANGED <<reviewers, tokenVars>>
    BY <1>3 DEF AnswerPlagiarismCheck, FulfillPlagiarism, RequireState,
                reviewVars
  <2> QED
    BY <1>0, <1>1, <2>1
<1>4. ASSUME NEW m \in ManuscriptId, NEW approve \in BOOLEAN, NEW f \in Field,
             SubmitEditorReview(m, approve, f)
      PROVE  FeesRetained'
  <2>1. /\ status[m] = "PENDING_EDITOR"
        /\ status' = [status EXCEPT ![m] = IF approve THEN "UNDER_REVIEW"
                                           ELSE "REJECTED"]
        /\ UNCHANGED <<reviewers, tokenVars>>
    BY <1>4 DEF SubmitEditorReview, RequireState, reviewVars
  <2> QED
    BY <1>0, <1>1, <2>1
<1>5. ASSUME NEW m \in ManuscriptId, NEW a \in Address, NEW v \in Verdict,
             NEW n \in Nonce, SubmitReview(m, a, v, n)
      PROVE  FeesRetained'
  <2>1. /\ status[m] = "UNDER_REVIEW"
        /\ \A k \in ManuscriptId : k # m => status'[k] = status[k]
        /\ status'[m] \in {"UNDER_REVIEW", "ACCEPTED", "REJECTED",
                           "REVISION_REQUESTED"}
        /\ UNCHANGED <<reviewers, tokenVars>>
    BY <1>1, <1>5, DecisionType DEF SubmitReview, RequireState
  <2> QED
    BY <1>0, <2>1
<1>6. ASSUME NEW m \in ManuscriptId, NEW a \in Author, NEW c \in Cid,
             NEW n \in Nonce, ReviseManuscript(m, a, c, n)
      PROVE  FeesRetained'
  <2>1. /\ status[m] = "REVISION_REQUESTED"
        /\ status' = [status EXCEPT ![m] = "CHECKING"]
        /\ reviewers' = [reviewers EXCEPT ![m] = <<>>]
        /\ UNCHANGED tokenVars
    BY <1>6 DEF ReviseManuscript, RequireState, ResetReviewState
  <2> QED
    BY <1>0, <1>1, <2>1
<1>7. ASSUME NEW id \in RequestId, NEW list \in ReviewerLists,
             AnswerReviewerSelection(id, list)
      PROVE  FeesRetained'
  <2>1. /\ status[reviewerRequestToMs[id]] = "UNDER_REVIEW"
        /\ reviewers' = [reviewers EXCEPT ![reviewerRequestToMs[id]] = list]
        /\ UNCHANGED <<status, tokenVars>>
    BY <1>7 DEF AnswerReviewerSelection, FulfillRandomReviewers, RequireState
  <2> QED
    BY <1>0, <1>1, <2>1
<1>8. ASSUME NEW a \in Address, FundAuthor(a) \/ ApproveFee(a) \/ Withdraw(a)
      PROVE  FeesRetained'
  BY <1>8, WalletMoveRetains
<1>9. ASSUME UNCHANGED vars PROVE FeesRetained'
  BY <1>0, <1>9 DEF vars, registryVars, reviewVars
<1> QED
  BY <1>2, <1>3, <1>4, <1>5, <1>6, <1>7, <1>8, <1>9,
     PayPublicationFeeRetains, RegistryAssumption
  DEF Next

(***************************************************************************)
(* The registry's account holds exactly what the published manuscripts'    *)
(* fees and panels leave there, and payments, fundings and withdrawals     *)
(* create or lose no token: for any number of manuscripts and accounts,    *)
(* any fee and incentive, and panels of any size.                          *)
(***************************************************************************)
THEOREM FeesAccountedFor == Spec => []FeesRetained
<1>1. RequestInv => StatusOnceSubmitted
  BY DEF RequestInv
<1> QED
  BY <1>1, InitFees, NextFees, TypeCorrect, RequestInvariant, PTL DEF Spec
-----------------------------------------------------------------------------
(***************************************************************************)
(* The contract does not compare the incentives with the fee: a long panel *)
(* is paid from what earlier fees left.  With lists short enough for one   *)
(* fee no step ever takes from the registry.                               *)
(***************************************************************************)
PanelsAnswered ==
  \A m \in ManuscriptId : reviewers[m] \in ReviewerLists \cup {<<>>}
FeeCovers == \A list \in ReviewerLists : PaidOut(list) <= PUBLICATION_FEE
RegistryNeverPoorer == [][balance'[Registry] >= balance[Registry]]_vars

LEMMA NextPanels ==
  ASSUME TypeOK, PanelsAnswered, [Next]_vars
  PROVE  PanelsAnswered'
<1>1. reviewers \in [ManuscriptId -> Seq(Address)]
  BY DEF TypeOK
<1>2. ASSUME UNCHANGED reviewers PROVE PanelsAnswered'
  BY <1>2 DEF PanelsAnswered
<1>3. ASSUME NEW m \in ManuscriptId, NEW a, NEW c, NEW n,
             ReviseManuscript(m, a, c, n)
      PROVE  PanelsAnswered'
  BY <1>1, <1>3 DEF ReviseManuscript, ResetReviewState, PanelsAnswered
<1>4. ASSUME NEW id \in RequestId, NEW list \in ReviewerLists,
             AnswerReviewerSelection(id, list)
      PROVE  PanelsAnswered'
  BY <1>1, <1>4
  DEF AnswerReviewerSelection, FulfillRandomReviewers, PanelsAnswered
<1>5. ASSUME NEW a, FundAuthor(a) \/ ApproveFee(a) \/ Withdraw(a)
      PROVE  PanelsAnswered'
  BY <1>2, <1>5 DEF FundAuthor, ApproveFee, Withdraw, tokenFrame,
                    registryVars, reviewVars
<1>6. ASSUME UNCHANGED vars PROVE PanelsAnswered'
  BY <1>2, <1>6 DEF vars, registryVars, reviewVars
<1> QED
  BY <1>2, <1>3, <1>4, <1>5, <1>6
  DEF Next, SubmitManuscript, AnswerPlagiarismCheck, FulfillPlagiarism,
      SubmitEditorReview, SubmitReview, PayPublicationFee, reviewVars

LEMMA NextNeverPoorer ==
  ASSUME FeeCovers, TypeOK, PanelsAnswered, [Next]_vars
  PROVE  balance'[Registry] >= balance[Registry]
<1> USE TokenAssumption
<1>1. Registry \in Account /\ Funder \in Account /\ balance[Registry] \in Nat
      /\ balance \in [Account -> Nat]
  BY DEF TypeOK, TokenTypeOK, Account
<1>2. ASSUME UNCHANGED tokenVars PROVE balance'[Registry] = balance[Registry]
  BY <1>2 DEF tokenVars
<1>3. ASSUME NEW m \in ManuscriptId, NEW a \in Author, PayPublicationFee(m, a)
      PROVE  balance'[Registry] >= balance[Registry]
  <2> DEFINE out == PaidOut(reviewers[m])
  <2>1. /\ TokenTypeOK /\ a \in Address /\ reviewers[m] \in Seq(Address)
        /\ PayFromFee(a, reviewers[m])
    BY <1>3, RegistryAssumption DEF TypeOK, PayPublicationFee
  <2>2. balance'[Registry] = balance[Registry] + PUBLICATION_FEE - out
    BY <2>1, PaymentConserves
  <2>3. out \in Nat
    BY <2>1, NatProduct DEF PaidOut
  <2>4. out <= PUBLICATION_FEE
    <3>1. CASE reviewers[m] = <<>>
      <4>1. Len(reviewers[m]) = 0
        BY <3>1
      <4>2. out = 0
        BY <4>1, Distributes DEF PaidOut
      <4> QED BY <4>2
    <3>2. CASE reviewers[m] \in ReviewerLists
      BY <3>2 DEF FeeCovers
    <3> QED BY <3>1, <3>2 DEF PanelsAnswered
  <2> HIDE DEF out
  <2> QED
    BY <1>1, <2>2, <2>3, <2>4
<1>4. ASSUME NEW a \in Address, FundAuthor(a) \/ ApproveFee(a) \/ Withdraw(a)
      PROVE  balance'[Registry] = balance[Registry]
  <2>1. a # Registry /\ Funder # Registry
    OBVIOUS
  <2>2. ASSUME NEW from, NEW to, NEW amount \in Int,
               Transfer(from, to, amount), from # Registry, to # Registry
        PROVE  balance'[Registry] = balance[Registry]
    BY <1>1, <2>2 DEF Transfer
  <2>3. balance[a] \in Int /\ PUBLICATION_FEE - balance[a] \in Int
    BY <1>1 DEF Account
  <2> QED
    BY <1>4, <2>1, <2>2, <2>3 DEF FundAuthor, ApproveFee, Withdraw, Approve
<1>5. ASSUME UNCHANGED vars PROVE balance'[Registry] = balance[Registry]
  BY <1>2, <1>5 DEF vars
<1>6. balance'[Registry] >= balance[Registry]
      \/ balance'[Registry] = balance[Registry]
  BY <1>2, <1>3, <1>4, <1>5, RegistryAssumption
  DEF Next, SubmitManuscript, AnswerPlagiarismCheck, FulfillPlagiarism,
      SubmitEditorReview, AnswerReviewerSelection, FulfillRandomReviewers,
      SubmitReview, ReviseManuscript
<1> QED
  BY <1>1, <1>6

(***************************************************************************)
(* If the incentives of every list the oracle may answer with fit into one *)
(* fee, no step ever makes the registry poorer: each payment pays its own  *)
(* panel, whatever was paid or withdrawn before.                           *)
(***************************************************************************)
THEOREM PanelsPaidFromTheirFee ==
  ASSUME FeeCovers
  PROVE  Spec => RegistryNeverPoorer
<1>1. Init => PanelsAnswered
  BY DEF Init, RegistryInit, PanelsAnswered
<1>2. FeeCovers /\ TypeOK /\ PanelsAnswered /\ [Next]_vars =>
        [balance'[Registry] >= balance[Registry]]_vars
  BY NextNeverPoorer
<1>3. Spec => []PanelsAnswered
  BY <1>1, NextPanels, TypeCorrect, PTL DEF Spec
<1> QED
  BY <1>2, <1>3, TypeCorrect, PTL DEF Spec, RegistryNeverPoorer
=============================================================================
