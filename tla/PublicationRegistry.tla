------------------------- MODULE PublicationRegistry -------------------------
(***************************************************************************)
(* The publication workflow on chain: PublicationRegistry.sol together     *)
(* with the three contracts it calls in the same transaction               *)
(* (ReviewOracle, JournalToken, DOIToken).  One action is one transaction: *)
(* all its checks, its state changes in every contract it reaches, and the *)
(* decision it may trigger.  A call whose checks fail reverts and changes  *)
(* nothing, so it is no step here.                                         *)
(*                                                                         *)
(* The fields of struct Manuscript are functions of the manuscript's id.   *)
(* metadata, reviewHashes and the doi string are left out: no contract     *)
(* reads them.  Roles are granted at deployment and never change: the      *)
(* operator relays submitManuscript, submitEditorReview, submitReview and  *)
(* reviseManuscript, the oracle operator answers requests, and authors     *)
(* call payPublicationFee themselves.                                      *)
(*                                                                         *)
(* A definition X_Y next to X is X with a plausible mistake: the checks    *)
(* are rerun with it in X's place to see that they would notice.           *)
(***************************************************************************)
EXTENDS ReviewOracle, JournalToken, Functions

CONSTANTS
  Author,          \* addresses that submit manuscripts
  ReviewerLists,   \* the lists the oracle operator may answer with
  Field,           \* subject fields an editor may assign
  Score,           \* similarity scores of the plagiarism check
  PLAGIARISM_THRESHOLD,   \* 30 in the source
  MaxNonce         \* bound: signed operations per address

ASSUME RegistryAssumption ==
  /\ Author \subseteq Address
  /\ ReviewerLists \subseteq Seq(Address)
  /\ Score \subseteq Nat
  /\ PLAGIARISM_THRESHOLD \in Nat
  /\ MaxNonce \in Nat

(***************************************************************************)
(* The operator answers with session addresses it has just generated, one  *)
(* key pair for each selected user, so a list never repeats an address.    *)
(* The contract does not check this.                                       *)
(***************************************************************************)
ASSUME DistinctReviewers == \A list \in ReviewerLists : IsInjective(list)

NoAddress == "0x0"
NoField == ""
Nonce == 0 .. MaxNonce
Verdict == {"ACCEPT", "REJECT", "REVISE"}
Status == {"SUBMITTED", "CHECKING", "UNDER_REVIEW", "REVISION_REQUESTED",
           "ACCEPTED", "REJECTED", "PUBLISHED", "PENDING_EDITOR"}

VARIABLES
  nextManuscriptId,
  author,           \* msId -> address, NoAddress while there is no manuscript
  cid,              \* msId -> current file
  status,
  version,
  plagiarismScore,
  field,
  reviewers,        \* msId -> list of assigned session addresses
  hasReviewed,      \* msId -> addresses whose flag is set
  reviewCount,
  verdictCount,     \* msId -> acceptCount, rejectCount, reviseCount
  nonces,           \* address -> next nonce a signature must carry
  doiTokens,        \* DOIToken: the tokens minted so far, in order
  reviewEvents      \* the ReviewSubmitted events logged so far

submissionVars == <<nextManuscriptId, author>>
contentVars == <<cid, version>>
reviewVars == <<reviewers, hasReviewed, reviewCount, verdictCount>>
registryVars == <<submissionVars, contentVars, status, plagiarismScore,
                  field, reviewVars, nonces>>
vars == <<registryVars, oracleVars, tokenVars, doiTokens, reviewEvents>>

NoVotes == [v \in Verdict |-> 0]
(* An event is logged in the round given by the version it was mined at.   *)
ReviewEvent == [msId : ManuscriptId, version : Nat, reviewer : Address,
                verdict : Verdict]
DoiToken == [owner : Address, msId : ManuscriptId, version : Nat]

TypeOK ==
  /\ OracleTypeOK
  /\ TokenTypeOK
  /\ nextManuscriptId \in 0 .. MaxManuscripts
  /\ author \in [ManuscriptId -> Address \cup {NoAddress}]
  /\ cid \in [ManuscriptId -> Cid \cup {NoCid}]
  /\ status \in [ManuscriptId -> Status]
  /\ version \in [ManuscriptId -> Nat]
  /\ plagiarismScore \in [ManuscriptId -> Nat]
  /\ field \in [ManuscriptId -> Field \cup {NoField}]
  /\ reviewers \in [ManuscriptId -> Seq(Address)]
  /\ hasReviewed \in [ManuscriptId -> SUBSET Address]
  /\ reviewCount \in [ManuscriptId -> Nat]
  /\ verdictCount \in [ManuscriptId -> [Verdict -> Nat]]
  /\ nonces \in [Address -> Nat]
  /\ doiTokens \in Seq(DoiToken)
  /\ reviewEvents \subseteq ReviewEvent

RegistryInit ==
  /\ nextManuscriptId = 0
  /\ author = [m \in ManuscriptId |-> NoAddress]
  /\ cid = [m \in ManuscriptId |-> NoCid]
  /\ status = [m \in ManuscriptId |-> "SUBMITTED"]
  /\ version = [m \in ManuscriptId |-> 0]
  /\ plagiarismScore = [m \in ManuscriptId |-> 0]
  /\ field = [m \in ManuscriptId |-> NoField]
  /\ reviewers = [m \in ManuscriptId |-> <<>>]
  /\ hasReviewed = [m \in ManuscriptId |-> {}]
  /\ reviewCount = [m \in ManuscriptId |-> 0]
  /\ verdictCount = [m \in ManuscriptId |-> NoVotes]
  /\ nonces = [a \in Address |-> 0]
  /\ doiTokens = <<>>
  /\ reviewEvents = {}

(* The contracts as deployed and wired to each other: one registry, which the
   oracle contract reports to, and the whole supply with the deployer. *)
Init == OracleInit /\ TokenInit /\ RegistryInit
-----------------------------------------------------------------------------
(* _requireState: an id that was never submitted is in state SUBMITTED,    *)
(* which no call accepts.                                                  *)
RequireState_Skipped(m, expected) == TRUE
RequireState(m, expected) == status[m] = expected

(* The EIP-712 check shared by the relayed calls: the recovered signer's   *)
(* current nonce was signed, and is used up.                               *)
UseNonce(signer, nonce) ==
  /\ nonces[signer] = nonce
  /\ nonces' = [nonces EXCEPT ![signer] = @ + 1]

(* ECDSA.recover never yields the zero address here: a signer is an        *)
(* Address, and the manuscript takes the next free id.                     *)
SubmitManuscript(signer, newCid, nonce) ==
  /\ nextManuscriptId < MaxManuscripts
  /\ UseNonce(signer, nonce)
  /\ nextManuscriptId' = nextManuscriptId + 1
  /\ author' = [author EXCEPT ![nextManuscriptId] = signer]
  /\ cid' = [cid EXCEPT ![nextManuscriptId] = newCid]
  /\ status' = [status EXCEPT ![nextManuscriptId] = "CHECKING"]
  /\ version' = [version EXCEPT ![nextManuscriptId] = 1]
  /\ RequestPlagiarismCheck(nextManuscriptId, newCid)
  /\ UNCHANGED <<plagiarismScore, field, reviewVars, tokenVars, doiTokens,
                 reviewEvents>>

Exceeds_OffByOne(score) == score > PLAGIARISM_THRESHOLD + 1
Exceeds(score) == score > PLAGIARISM_THRESHOLD

(* fulfillPlagiarism, the registry's half of the oracle's answer. *)
FulfillPlagiarism(m, score) ==
  /\ RequireState(m, "CHECKING")
  /\ plagiarismScore' = [plagiarismScore EXCEPT ![m] = score]
  /\ status' = [status EXCEPT ![m] = IF Exceeds(score) THEN "REJECTED"
                                     ELSE "PENDING_EDITOR"]
  /\ UNCHANGED <<submissionVars, contentVars, field, reviewVars, nonces,
                 tokenVars, doiTokens, reviewEvents>>

AnswerPlagiarismCheck(id, score) ==
  /\ FulfillPlagiarismCheck(id, score)
  /\ FulfillPlagiarism(plagiarismRequestToMs[id], score)

SubmitEditorReview(m, approve, newField) ==
  /\ RequireState(m, "PENDING_EDITOR")
  /\ \/ /\ approve
        /\ field' = [field EXCEPT ![m] = newField]
        /\ status' = [status EXCEPT ![m] = "UNDER_REVIEW"]
        /\ RequestRandomReviewers(m)
     \/ /\ ~ approve
        /\ status' = [status EXCEPT ![m] = "REJECTED"]
        /\ UNCHANGED <<field, oracleVars>>
  /\ UNCHANGED <<submissionVars, contentVars, plagiarismScore, reviewVars,
                 nonces, tokenVars, doiTokens, reviewEvents>>

(* fulfillRandomReviewers, the registry's half of the oracle's answer.  It *)
(* replaces the list and touches nothing else.                             *)
FulfillRandomReviewers(m, reviewerList) ==
  /\ RequireState(m, "UNDER_REVIEW")
  /\ reviewers' = [reviewers EXCEPT ![m] = reviewerList]
  /\ UNCHANGED <<submissionVars, contentVars, status, plagiarismScore, field,
                 hasReviewed, reviewCount, verdictCount, nonces, tokenVars,
                 doiTokens, reviewEvents>>

AnswerReviewerSelection(id, reviewerList) ==
  /\ FulfillReviewerSelection(id, reviewerList)
  /\ FulfillRandomReviewers(reviewerRequestToMs[id], reviewerList)

(* _evaluateDecision over the counters of a completed panel of n. *)
MajorityOf_OffByOne(n) == n \div 2
MajorityOf(n) == n \div 2 + 1

Decision(votes, n) ==
  IF votes["ACCEPT"] >= MajorityOf(n) THEN "ACCEPTED"
  ELSE IF votes["REJECT"] >= MajorityOf(n) THEN "REJECTED"
  ELSE "REVISION_REQUESTED"   \* a REVISE majority, or none at all

SubmitReview(m, signer, verdict, nonce) ==
  /\ UseNonce(signer, nonce)
  /\ RequireState(m, "UNDER_REVIEW")
  /\ signer \in Range(reviewers[m])
  /\ signer \notin hasReviewed[m]
  /\ hasReviewed' = [hasReviewed EXCEPT ![m] = @ \cup {signer}]
  /\ reviewCount' = [reviewCount EXCEPT ![m] = @ + 1]
  /\ verdictCount' = [verdictCount EXCEPT ![m][verdict] = @ + 1]
  /\ status' = IF reviewCount'[m] = Len(reviewers[m])
               THEN [status EXCEPT ![m] =
                       Decision(verdictCount'[m], Len(reviewers[m]))]
               ELSE status
  /\ reviewEvents' = reviewEvents \cup
       {[msId |-> m, version |-> version[m], reviewer |-> signer,
         verdict |-> verdict]}
  /\ UNCHANGED <<submissionVars, contentVars, plagiarismScore, field,
                 reviewers, oracleVars, tokenVars, doiTokens>>

(* _resetReviewState: flags are cleared through the current list. *)
ResetReviewState_ListFirst(m) ==
  /\ reviewers' = [reviewers EXCEPT ![m] = <<>>]
  /\ hasReviewed' = [hasReviewed EXCEPT ![m] = @ \ Range(reviewers'[m])]
  /\ reviewCount' = [reviewCount EXCEPT ![m] = 0]
  /\ verdictCount' = [verdictCount EXCEPT ![m] = NoVotes]

ResetReviewState_KeepsVerdicts(m) ==
  /\ hasReviewed' = [hasReviewed EXCEPT ![m] = @ \ Range(reviewers[m])]
  /\ reviewers' = [reviewers EXCEPT ![m] = <<>>]
  /\ reviewCount' = [reviewCount EXCEPT ![m] = 0]
  /\ UNCHANGED verdictCount

ResetReviewState(m) ==
  /\ hasReviewed' = [hasReviewed EXCEPT ![m] = @ \ Range(reviewers[m])]
  /\ reviewers' = [reviewers EXCEPT ![m] = <<>>]
  /\ reviewCount' = [reviewCount EXCEPT ![m] = 0]
  /\ verdictCount' = [verdictCount EXCEPT ![m] = NoVotes]

ReviseManuscript(m, signer, newCid, nonce) ==
  /\ author[m] = signer
  /\ UseNonce(signer, nonce)
  /\ RequireState(m, "REVISION_REQUESTED")
  /\ cid' = [cid EXCEPT ![m] = newCid]
  /\ version' = [version EXCEPT ![m] = @ + 1]
  /\ status' = [status EXCEPT ![m] = "CHECKING"]
  /\ ResetReviewState(m)
  /\ RequestPlagiarismCheck(m, newCid)
  /\ UNCHANGED <<submissionVars, plagiarismScore, field, tokenVars, doiTokens,
                 reviewEvents>>

(* The fee comes in, every reviewer is paid, the DOI token is minted. *)
PayPublicationFee(m, sender) ==
  /\ RequireState(m, "ACCEPTED")
  /\ author[m] = sender
  /\ PayFromFee(sender, reviewers[m])
  /\ doiTokens' = Append(doiTokens, [owner |-> sender, msId |-> m,
                                     version |-> version[m]])
  /\ status' = [status EXCEPT ![m] = "PUBLISHED"]
  /\ UNCHANGED <<submissionVars, contentVars, plagiarismScore, field,
                 reviewVars, nonces, oracleVars, reviewEvents>>
-----------------------------------------------------------------------------
(* Token moves of the wallets: fundAndPublish tops the submission key up to *)
(* the fee and approves it; withdrawFromSession empties a session key.      *)
tokenFrame == <<registryVars, oracleVars, doiTokens, reviewEvents>>

FundAuthor(a) ==
  /\ balance[a] < PUBLICATION_FEE
  /\ Transfer(Funder, a, PUBLICATION_FEE - balance[a])
  /\ UNCHANGED tokenFrame

ApproveFee(a) ==
  /\ allowance[a] < PUBLICATION_FEE
  /\ Approve(a, PUBLICATION_FEE)
  /\ UNCHANGED tokenFrame

Withdraw(a) ==
  /\ balance[a] > 0
  /\ Transfer(a, Funder, balance[a])
  /\ UNCHANGED tokenFrame

Next ==
  \/ \E a \in Author, c \in Cid, n \in Nonce : SubmitManuscript(a, c, n)
  \/ \E id \in RequestId, s \in Score : AnswerPlagiarismCheck(id, s)
  \/ \E m \in ManuscriptId, approve \in BOOLEAN, f \in Field :
        SubmitEditorReview(m, approve, f)
  \/ \E id \in RequestId, list \in ReviewerLists :
        AnswerReviewerSelection(id, list)
  \/ \E m \in ManuscriptId, a \in Address, v \in Verdict, n \in Nonce :
        SubmitReview(m, a, v, n)
  \/ \E m \in ManuscriptId, a \in Author, c \in Cid, n \in Nonce :
        ReviseManuscript(m, a, c, n)
  \/ \E m \in ManuscriptId, a \in Author : PayPublicationFee(m, a)
  \/ \E a \in Author : FundAuthor(a)
  \/ \E a \in Author : ApproveFee(a)
  \/ \E a \in Address \ Author : Withdraw(a)

Spec == Init /\ [][Next]_vars
(***************************************************************************)
(* What has to happen for manuscripts to move: the operator relays what    *)
(* editors and reviewers send, and the oracle operator answers requests.   *)
(* A transaction that stays enabled is eventually sent by its sender and   *)
(* mined.  Authors owe nothing: they may never revise or pay.              *)
(***************************************************************************)
Fairness ==
  /\ \A id \in RequestId :
       /\ WF_vars(\E s \in Score : AnswerPlagiarismCheck(id, s))
       /\ WF_vars(\E list \in ReviewerLists : AnswerReviewerSelection(id, list))
  /\ \A m \in ManuscriptId :
       WF_vars(\E approve \in BOOLEAN, f \in Field :
                 SubmitEditorReview(m, approve, f))
  /\ \A m \in ManuscriptId, a \in Address :
       WF_vars(\E v \in Verdict, n \in Nonce : SubmitReview(m, a, v, n))

FairSpec == Spec /\ Fairness
-----------------------------------------------------------------------------
Exists(m) == m < nextManuscriptId
Unanswered(m) == status[m] = "UNDER_REVIEW" /\ reviewers[m] = <<>>
VotesIn(m, v) ==
  {e \in reviewEvents : e.msId = m /\ e.version = version[m] /\ e.verdict = v}
VotersIn(m) ==
  {e.reviewer : e \in {f \in reviewEvents :
                         f.msId = m /\ f.version = version[m]}}

(***************************************************************************)
(* The workflow waits for the oracle exactly when the oracle has a question*)
(* open about the manuscript: a CHECKING manuscript has one open plagiarism*)
(* request, one under review without a panel has one open selection, and no*)
(* other request is open.  A second open request would let an old answer   *)
(* settle a new round; a missing one would leave the manuscript stuck.     *)
(***************************************************************************)
RequestsMatchStatus ==
  \A m \in ManuscriptId :
    /\ \A id, id2 \in OpenPlagiarismRequests(m) : id = id2
    /\ \A id, id2 \in OpenReviewerRequests(m) : id = id2
    /\ status[m] = "CHECKING" <=> OpenPlagiarismRequests(m) # {}
    /\ Unanswered(m) <=> OpenReviewerRequests(m) # {}

(* What makes RequestsMatchStatus inductive: a manuscript has a status once *)
(* it exists, identifiers not handed out yet are blank, and there is no     *)
(* panel before the first selection of a round.                             *)
StatusOnceSubmitted ==
  \A m \in ManuscriptId : Exists(m) <=> status[m] # "SUBMITTED"
UnusedIsBlank ==
  \A id \in RequestId :
    /\ nextPlagiarismRequestId <= id => ~ plagiarismRequestFulfilled[id]
    /\ nextReviewerRequestId <= id => ~ reviewerRequestFulfilled[id]
NoPanelYet ==
  \A m \in ManuscriptId :
    status[m] \in {"SUBMITTED", "CHECKING", "PENDING_EDITOR"}
      => reviewers[m] = <<>>
RequestInv ==
  /\ StatusOnceSubmitted
  /\ UnusedIsBlank
  /\ NoPanelYet
  /\ RequestsMatchStatus

(***************************************************************************)
(* Only checked content advances: the newest plagiarism request about a    *)
(* manuscript is for its current file, it is answered once the manuscript  *)
(* has left CHECKING, and past that point the score on record is within    *)
(* the threshold unless the manuscript was rejected.  The old score stays  *)
(* on record through a revision: one that advances before its own file is  *)
(* checked, or an answer credited to another file, breaks it.              *)
(***************************************************************************)
OnlyCheckedContentAdvances ==
  \A m \in ManuscriptId : Exists(m) =>
    /\ \E id \in PlagiarismRequests(m) :
         /\ \A id2 \in PlagiarismRequests(m) : id2 <= id
         /\ plagiarismRequestCid[id] = cid[m]
         /\ plagiarismRequestFulfilled[id] <=> status[m] # "CHECKING"
    /\ status[m] \notin {"CHECKING", "REJECTED"} =>
         plagiarismScore[m] <= PLAGIARISM_THRESHOLD

(***************************************************************************)
(* The counters a decision is taken on agree with the reviews logged in    *)
(* the current round: same number for each verdict, same people, all of    *)
(* them on the panel.  Votes left over from an earlier round, or a flag    *)
(* that outlives its round, break it.                                      *)
(***************************************************************************)
TallyMatchesReviews ==
  \A m \in ManuscriptId :
    /\ hasReviewed[m] = VotersIn(m)
    /\ hasReviewed[m] \subseteq Range(reviewers[m])
    /\ reviewCount[m] = Cardinality(hasReviewed[m])
    /\ \A v \in Verdict : verdictCount[m][v] = Cardinality(VotesIn(m, v))

(***************************************************************************)
(* A panel can always finish: while a manuscript is under review with a    *)
(* panel, exactly as many panel members may still vote as votes are        *)
(* missing for the decision, and at least one is.  _evaluateDecision runs  *)
(* only on the vote that makes the count equal the list's length, so a     *)
(* round that misses that point never ends.                                *)
(***************************************************************************)
PanelCanFinish ==
  \A m \in ManuscriptId :
    status[m] = "UNDER_REVIEW" /\ reviewers[m] # <<>> =>
      /\ reviewCount[m] < Len(reviewers[m])
      /\ Cardinality(Range(reviewers[m]) \ hasReviewed[m])
           = Len(reviewers[m]) - reviewCount[m]

(***************************************************************************)
(* Decisions are the majority's: an accepted or published manuscript has   *)
(* the ACCEPT votes of more than half of a full panel in its current       *)
(* round; one rejected after reviews has as many REJECT votes; one sent    *)
(* back for revision has neither.                                          *)
(***************************************************************************)
Majority(m, v) == 2 * Cardinality(VotesIn(m, v)) > Len(reviewers[m])
PanelComplete(m) ==
  reviewers[m] # <<>> /\ VotersIn(m) = Range(reviewers[m])
DecisionIsMajoritys ==
  \A m \in ManuscriptId :
    /\ status[m] \in {"ACCEPTED", "PUBLISHED"} =>
         PanelComplete(m) /\ Majority(m, "ACCEPT")
    /\ status[m] = "REJECTED" /\ VotersIn(m) # {} =>
         PanelComplete(m) /\ Majority(m, "REJECT")
    /\ status[m] = "REVISION_REQUESTED" =>
         /\ PanelComplete(m)
         /\ ~ Majority(m, "ACCEPT")
         /\ ~ Majority(m, "REJECT")

(***************************************************************************)
(* A DOI token exists exactly for each published manuscript, once, minted  *)
(* to its author for the version that was accepted.                        *)
(***************************************************************************)
TokensOf(m) == {i \in DOMAIN doiTokens : doiTokens[i].msId = m}
PublishedOnce ==
  \A m \in ManuscriptId :
    /\ \A i, j \in TokensOf(m) : i = j
    /\ status[m] = "PUBLISHED" <=> TokensOf(m) # {}
    /\ \A i \in TokensOf(m) : /\ doiTokens[i].owner = author[m]
                              /\ doiTokens[i].version = version[m]

(***************************************************************************)
(* The registry's account holds what is left of the fees collected: one    *)
(* fee less one incentive per panel member, for every published            *)
(* manuscript; and JRT is neither created nor lost by any payment.         *)
(***************************************************************************)
FeesRetained ==
  /\ balance[Registry] =
       SumFunction([m \in ManuscriptId |->
         IF status[m] = "PUBLISHED"
         THEN PUBLICATION_FEE - REVIEWER_INCENTIVE * Len(reviewers[m])
         ELSE 0])
  /\ SumFunction(balance) = INITIAL_SUPPLY

(***************************************************************************)
(* A settled manuscript is never touched again: once rejected or           *)
(* published, its status, file, version, score, panel and votes stay.      *)
(***************************************************************************)
Settled == {"REJECTED", "PUBLISHED"}
SettledStays ==
  [][\A m \in ManuscriptId : status[m] \in Settled =>
       /\ status'[m] = status[m]
       /\ cid'[m] = cid[m]
       /\ version'[m] = version[m]
       /\ plagiarismScore'[m] = plagiarismScore[m]
       /\ reviewers'[m] = reviewers[m]
       /\ VotersIn(m)' = VotersIn(m)]_vars

(***************************************************************************)
(* Every round ends: a manuscript whose check has been requested is        *)
(* eventually decided on -- rejected, accepted or sent back -- provided    *)
(* the oracle, the editor and the panel members act.                       *)
(***************************************************************************)
EveryRoundEnds ==
  \A m \in ManuscriptId :
    status[m] = "CHECKING" ~>
      status[m] \in {"REJECTED", "ACCEPTED", "PUBLISHED", "REVISION_REQUESTED"}
=============================================================================
