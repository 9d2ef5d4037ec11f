--------------------------- MODULE ReviewDeskProofs ---------------------------
(***************************************************************************)
(* Theorems about ReviewDesk: whatever the reviewer's browser, the relayer *)
(* and the other parties do, for any number of rounds, blocks, clicks and  *)
(* withdrawals.                                                            *)
(***************************************************************************)
EXTENDS ReviewDesk, ReviewRoundProofs, SequenceTheorems

(***************************************************************************)
(* Types of what is kept off the chain.                                    *)
(***************************************************************************)
Call == [session : Mine, verdict : Verdict, nonce : Nonce, round : Nat]
UnderWay == [at : {"signing", "posting", "waiting", "pending", "indexed"},
             expected : Int, call : Call]
Form == [at : {"form"}, status : Status, count : Int]
Run == [at : {"gas", "sent"}, session : Mine, amount : Nat, here : BOOLEAN]
NoRun == [at : {"idle"}, session : {NoSession}, amount : {0}, here : {FALSE}]
LogEntry == [name : {"assigned", "review", "revised"}, block : Nat,
             reviewer : Address \cup {NoSession}, round : Nat]

DeskTyped ==
  /\ block \in Nat /\ settled \in Status \X Nat
  /\ log \subseteq LogEntry /\ IsFiniteSet(log)
  /\ bound \in {1, 2}
  /\ sessions \in [{1, 2} -> Mine \cup {NoSession}]
  /\ minted \subseteq Address
  /\ answering \in ReviewerLists \cup {<<>>}
  /\ page \in {Closed} \cup Form \cup UnderWay
  /\ mempool \subseteq Call
  /\ withdrawals \in [Withdrawal -> Run \cup NoRun]
  /\ offered \subseteq Mine
  /\ unconfirmed \subseteq [session : Mine, amount : Nat]
  /\ told \in [Mine -> Nat] /\ overlapped \subseteq Mine

(***************************************************************************)
(* The contracts are in a state of PublicationRegistry.                    *)
(***************************************************************************)
ChainInv ==
  /\ TypeOK /\ RequestInv /\ RoundsInv
  /\ \A m \in ManuscriptId : Checked(m)
Numbered == status[Desk] = "SUBMITTED" <=> version[Desk] = 0

(***************************************************************************)
(* Keys.  A panel being minted answers an open request.  Its members and   *)
(* those of the panel at work were minted, and the reviewer's own keys     *)
(* among them are in the table.                                            *)
(***************************************************************************)
Serving == Range(reviewers[Desk]) \cup Range(answering)
KeysInv ==
  /\ answering # <<>> => Unanswered(Desk)
  /\ Serving \subseteq minted
  /\ Serving \cap Mine \subseteq Held
  /\ Held \subseteq minted
  /\ bound = 1 => sessions[2] = NoSession

(***************************************************************************)
(* Fresh keys.  A key serves in one round only and votes once, so what was *)
(* signed or logged with a key of the panel at work belongs to the round   *)
(* at work.                                                                *)
(***************************************************************************)
OfThisRound(s, round) == s \in Serving => round = version[Desk]
CallFresh(c) == c.session \in minted /\ OfThisRound(c.session, c.round)
FreshInv ==
  /\ \A c \in mempool : CallFresh(c)
  /\ page \in UnderWay => CallFresh(page.call)
  /\ \A e \in reviewEvents :
       /\ e.msId = Desk /\ e.reviewer \in minted
       /\ OfThisRound(e.reviewer, e.version)
  /\ \A d, e \in reviewEvents : d.reviewer = e.reviewer => d = e

(***************************************************************************)
(* History.  A revision is the first thing logged in its block, so blocks  *)
(* tell the rounds apart; and the log has the panel and the voters of the  *)
(* round at work.                                                          *)
(***************************************************************************)
LoggedNow(name) ==
  {e.reviewer : e \in {f \in log : f.name = name /\ f.round = version[Desk]}}
HistoryInv ==
  /\ \A e \in log : e.block <= block /\ e.round <= version[Desk]
  /\ settled[2] <= version[Desk]
  /\ settled = <<"REVISION_REQUESTED", version[Desk]>> =>
       /\ status[Desk] = "REVISION_REQUESTED"
       /\ \A e \in log : e.block # block
  /\ ReportsUnderTheirVersion
  /\ LoggedNow("assigned") = Range(reviewers[Desk])
  /\ LoggedNow("review") = VotersIn(Desk)

(***************************************************************************)
(* Money.  A session holds what it was paid until that has been moved; a   *)
(* run of the withdrawal moves all of it, or reverts.  A session that never*)
(* had two runs at once has one at most, and nothing reported before that  *)
(* one ends.                                                               *)
(***************************************************************************)
RunOf(w, s) == withdrawals[w].at # "idle" /\ withdrawals[w].session = s
Whole(s, amount) == amount > 0 /\ amount = Earned(s)
OneRun(s) ==
  /\ \A w \in Withdrawal : RunOf(w, s) => told[s] = 0
  /\ \A w, u \in Withdrawal : RunOf(w, s) /\ RunOf(u, s) => w = u
MoneyInv ==
  /\ WithdrawnIsMoved
  /\ \A s \in Mine : balance[s] = 0 \/ balance[s] = Earned(s)
  /\ \A w \in Withdrawal, s \in Mine :
       RunOf(w, s) => Whole(s, withdrawals[w].amount)
  /\ \A s \in Mine \ overlapped : OneRun(s)
  /\ \A t \in unconfirmed : Whole(t.session, t.amount)

DeskInv ==
  /\ ChainInv /\ Numbered /\ DeskTyped
  /\ KeysInv /\ FreshInv /\ ConfirmedIsOnChain
  /\ HistoryInv /\ MoneyInv
-----------------------------------------------------------------------------
(***************************************************************************)
(* Every step of the desk is a step of the contracts, or leaves them       *)
(* alone, so the contracts' invariants hold.                               *)
(***************************************************************************)
LEMMA DeskId == Desk \in ManuscriptId
BY BoundsAssumption DEF Desk, ManuscriptId

LEMMA Lists ==
  /\ ReviewerLists \cup {<<>>} \subseteq Seq(Address)
  /\ \A list \in ReviewerLists \cup {<<>>} :
       /\ IsInjective(list)
       /\ \A s, t \in Range(list) \cap Mine : s = t
  /\ Range(<<>>) = {}
<1>1. Range(<<>>) = {} /\ IsInjective(<<>>) /\ <<>> \in Seq(Address)
  BY EmptyPanel
<1> QED
  BY <1>1, RegistryAssumption, DistinctReviewers, DeskAssumption

LEMMA ChainStep ==
  ASSUME ChainInv, [Next]_vars PROVE ChainInv'
BY NextType, RequestInvStep, NextRounds, NextChecked DEF ChainInv

LEMMA ChainKept ==
  ASSUME UNCHANGED chainVars PROVE UNCHANGED vars
BY DEF chainVars, vars

(* The moves of a withdrawal take what the session holds, or nothing.      *)
LEMMA MovedIsWithdrawn ==
  ASSUME ChainInv, MoneyInv, NEW s \in Mine, NEW n \in Nat, Whole(s, n),
         Moved(s, n)
  PROVE  /\ [Next]_vars
         /\ UNCHANGED <<registryVars, oracleVars, doiTokens, reviewEvents>>
         /\ balance'[s] = 0
         /\ \A r \in Mine : r # s => balance'[r] = balance[r]
<1> USE TokenAssumption, DeskAssumption
<1>1. /\ s \in Address /\ s \in Account /\ s # Funder /\ s \notin Author
      /\ balance \in [Account -> Nat]
      /\ balance[s] = 0 \/ balance[s] = n
  BY DEF ChainInv, TypeOK, TokenTypeOK, MoneyInv, Whole, Account
<1>2. UNCHANGED <<registryVars, oracleVars, doiTokens, reviewEvents>>
  BY DEF Moved
<1>3. CASE balance[s] >= n
  <2>1. balance[s] = n /\ n > 0 /\ Transfer(s, Funder, n)
    BY <1>1, <1>3 DEF Moved, Whole
  <2>2. Withdraw(s)
    BY <1>2, <2>1 DEF Withdraw, tokenFrame
  <2>3. \A r \in Mine : r \in Account /\ r # Funder
    BY DEF Account
  <2> QED
    BY <1>1, <1>2, <2>1, <2>2, <2>3 DEF Transfer, Next
<1>4. CASE ~ (balance[s] >= n)
  <2>1. UNCHANGED tokenVars
    BY <1>4 DEF Moved
  <2> QED
    BY <1>1, <1>2, <1>4, <2>1 DEF tokenVars, vars, Whole
<1> QED
  BY <1>3, <1>4

LEMMA RunIsWhole ==
  ASSUME DeskTyped, MoneyInv, NEW w \in Withdrawal, withdrawals[w].at # "idle"
  PROVE  /\ withdrawals[w] \in Run
         /\ withdrawals[w].session \in Mine /\ withdrawals[w].amount \in Nat
         /\ Whole(withdrawals[w].session, withdrawals[w].amount)
<1>1. withdrawals[w] \notin NoRun
  BY DEF NoRun
<1>2. withdrawals[w] \in Run
  BY <1>1 DEF DeskTyped
<1> QED
  BY <1>1, <1>2 DEF Run, MoneyInv, RunOf

(***************************************************************************)
(* The steps, by what they do to the contracts.                            *)
(***************************************************************************)
Calls ==
  OthersAct \/ AnswerSelection \/ \E c \in mempool : MineReview(c)
Withdrawals ==
  \/ \E w \in Withdrawal : Withdrawn(w)
  \/ \E t \in unconfirmed : LateTransfer(t)
OffChain ==
  \/ NewBlock \/ Rebind
  \/ \E list \in ReviewerLists : MintSessions(list)
  \/ LoadPage \/ LeavePage \/ ClickSubmit \/ SignReview
  \/ Relay \/ SubmitFails \/ Poll
  \/ \E c \in mempool : DropReview(c)
  \/ LoadEarnings
  \/ \E w \in Withdrawal : \/ \E s \in offered : ClickWithdraw(w, s)
                           \/ SendTransfer(w) \/ WithdrawFails(w)

LEMMA StepKinds ==
  /\ DeskNext => Calls \/ Withdrawals \/ OffChain
  /\ OffChain => UNCHANGED chainVars
BY DEF DeskNext, Calls, Withdrawals, OffChain, NewBlock, Rebind, MintSessions,
       LoadPage, LeavePage, ClickSubmit, SignReview, Relay, SubmitFails, Poll,
       DropReview, LoadEarnings, ClickWithdraw, SendTransfer, WithdrawFails

LEMMA CallsAreNext ==
  ASSUME DeskTyped, Calls
  PROVE  Next
<1>1. OtherCalls => Next
  BY DeskId, RegistryAssumption
  DEF OtherCalls, AuthorCalls, EditorScreens, ScreeningChoice, Next
<1>2. ASSUME AnswerSelection PROVE Next
  <2>1. answering \in ReviewerLists
    BY <1>2 DEF AnswerSelection, DeskTyped
  <2>2. PICK id \in RequestId : AnswerReviewerSelection(id, answering)
    BY <1>2 DEF AnswerSelection, OpenReviewerRequests
  <2> QED
    BY <2>1, <2>2 DEF Next
<1>3. ASSUME NEW c \in mempool, MineReview(c) PROVE Next
  <2>1. c.session \in Address /\ c.verdict \in Verdict /\ c.nonce \in Nonce
    BY DeskAssumption DEF DeskTyped, Call
  <2>2. SubmitReview(Desk, c.session, c.verdict, c.nonce)
    BY <1>3 DEF MineReview
  <2> QED
    BY <2>1, <2>2, DeskId DEF Next
<1> QED
  BY <1>1, <1>2, <1>3 DEF Calls, OthersAct

LEMMA StepsAreNext ==
  ASSUME ChainInv, DeskTyped, MoneyInv, [DeskNext]_deskVars
  PROVE  [Next]_vars
<1>1. CASE Calls
  BY <1>1, CallsAreNext
<1>2. CASE Withdrawals
  <2>1. ASSUME NEW w \in Withdrawal, Withdrawn(w) PROVE [Next]_vars
    BY <2>1, RunIsWhole, MovedIsWithdrawn DEF Withdrawn
  <2>2. ASSUME NEW t \in unconfirmed, LateTransfer(t) PROVE [Next]_vars
    <3>1. t.session \in Mine /\ t.amount \in Nat /\ Whole(t.session, t.amount)
      BY DEF DeskTyped, MoneyInv
    <3> QED
      BY <2>2, <3>1, MovedIsWithdrawn DEF LateTransfer
  <2> QED
    BY <1>2, <2>1, <2>2 DEF Withdrawals
<1>3. CASE OffChain \/ UNCHANGED deskVars
  <2>1. UNCHANGED chainVars
    BY <1>3, StepKinds DEF deskVars
  <2> QED
    BY <2>1, ChainKept
<1> QED
  BY <1>1, <1>2, <1>3, StepKinds

(***************************************************************************)
(* What a call does to Desk: nothing the reviewer could notice but a new   *)
(* status, the first submission, a panel, a vote, or a new round.          *)
(***************************************************************************)
Pays == \E a \in Author : PayPublicationFee(Desk, a)
Quiet ==
  /\ version'[Desk] = version[Desk] /\ reviewers'[Desk] = reviewers[Desk]
  /\ reviewEvents' = reviewEvents
  /\ \/ status'[Desk] = status[Desk]
     \/ /\ status[Desk] \in {"CHECKING", "PENDING_EDITOR"}
        /\ status'[Desk] \in {"PENDING_EDITOR", "UNDER_REVIEW", "REJECTED"}
     \/ status[Desk] = "ACCEPTED" /\ status'[Desk] = "PUBLISHED" /\ Pays
Begins ==
  /\ status[Desk] = "SUBMITTED" /\ status'[Desk] = "CHECKING"
  /\ version'[Desk] = 1
  /\ reviewers[Desk] = <<>> /\ reviewers'[Desk] = <<>>
  /\ reviewEvents' = reviewEvents
Draws(list) ==
  /\ status[Desk] = "UNDER_REVIEW" /\ status'[Desk] = "UNDER_REVIEW"
  /\ version'[Desk] = version[Desk]
  /\ reviewers[Desk] = <<>> /\ reviewers'[Desk] = list
  /\ reviewEvents' = reviewEvents
VoteOf(a, v) ==
  [msId |-> Desk, version |-> version[Desk], reviewer |-> a, verdict |-> v]
Votes(a, v) ==
  /\ status[Desk] = "UNDER_REVIEW"
  /\ status'[Desk] \in {"UNDER_REVIEW", "ACCEPTED", "REJECTED",
                        "REVISION_REQUESTED"}
  /\ version'[Desk] = version[Desk] /\ reviewers'[Desk] = reviewers[Desk]
  /\ a \in Range(reviewers[Desk]) \ hasReviewed[Desk]
  /\ VoteOf(a, v) \notin reviewEvents
  /\ reviewEvents' = reviewEvents \cup {VoteOf(a, v)}
Revises ==
  /\ settled = <<"REVISION_REQUESTED", version[Desk]>>
  /\ status[Desk] = "REVISION_REQUESTED" /\ status'[Desk] = "CHECKING"
  /\ version'[Desk] = version[Desk] + 1
  /\ reviewers'[Desk] = <<>>
  /\ reviewEvents' = reviewEvents

LEMMA SubmissionKind ==
  ASSUME ChainInv, NEW a, NEW c, NEW n, SubmitManuscript(a, c, n)
  PROVE  Quiet \/ Begins
<1>1. /\ nextManuscriptId \in ManuscriptId /\ nextManuscriptId \in Nat
      /\ status \in [ManuscriptId -> Status]
      /\ version \in [ManuscriptId -> Nat]
  BY Identifiers DEF ChainInv, TypeOK, SubmitManuscript
<1>2. /\ status' = [status EXCEPT ![nextManuscriptId] = "CHECKING"]
      /\ version' = [version EXCEPT ![nextManuscriptId] = 1]
      /\ UNCHANGED <<reviewers, reviewEvents>>
  BY DEF SubmitManuscript, reviewVars
<1>3. CASE nextManuscriptId = Desk
  <2>1. status[Desk] = "SUBMITTED"
    BY <1>1, <1>3 DEF ChainInv, RequestInv, StatusOnceSubmitted, Exists
  <2>2. reviewers[Desk] = <<>>
    BY <2>1, DeskId DEF ChainInv, RequestInv, NoPanelYet
  <2> QED
    BY <1>1, <1>2, <1>3, <2>1, <2>2, DeskId DEF Begins
<1>4. CASE nextManuscriptId # Desk
  BY <1>1, <1>2, <1>4, DeskId DEF Quiet
<1> QED
  BY <1>3, <1>4

LEMMA ReviewKind ==
  ASSUME ChainInv, NEW a \in Address, NEW v \in Verdict, NEW n,
         SubmitReview(Desk, a, v, n)
  PROVE  Votes(a, v)
<1>1. /\ status[Desk] = "UNDER_REVIEW"
      /\ a \in Range(reviewers[Desk]) /\ a \notin hasReviewed[Desk]
      /\ UNCHANGED <<version, reviewers>>
      /\ reviewEvents' = reviewEvents \cup {VoteOf(a, v)}
  BY DEF SubmitReview, RequireState, contentVars, VoteOf
<1>2. status'[Desk] \in {"UNDER_REVIEW", "ACCEPTED", "REJECTED",
                         "REVISION_REQUESTED"}
  <2>1. status \in [ManuscriptId -> Status]
    BY DEF ChainInv, TypeOK
  <2>2. Decision(verdictCount'[Desk], Len(reviewers[Desk]))
          \in {"ACCEPTED", "REJECTED", "REVISION_REQUESTED"}
    BY DecisionType
  <2> QED
    BY <1>1, <2>1, <2>2, DeskId DEF SubmitReview
<1>3. VoteOf(a, v) \notin reviewEvents
  <2>1. a \notin VotersIn(Desk)
    BY <1>1, DeskId DEF ChainInv, RoundsInv, RoundInv, Tallied
  <2> QED
    BY <2>1 DEF VotersIn, VoteOf
<1> QED
  BY <1>1, <1>2, <1>3 DEF Votes

LEMMA OtherKinds ==
  ASSUME ChainInv, OtherCalls
  PROVE  \/ Quiet \/ Begins \/ Revises
         \/ \E a \in Address \ Mine, v \in Verdict : Votes(a, v)
<1>1. /\ status \in [ManuscriptId -> Status]
      /\ version \in [ManuscriptId -> Nat]
      /\ reviewers \in [ManuscriptId -> Seq(Address)]
  BY DEF ChainInv, TypeOK
<1>2. ASSUME NEW a, NEW c, NEW n, ReviseManuscript(Desk, a, c, n),
             settled = <<"REVISION_REQUESTED", version[Desk]>>
      PROVE  Revises
  BY <1>1, <1>2, DeskId
  DEF ReviseManuscript, RequireState, ResetReviewState, Revises
<1>3. ASSUME NEW a \in Author, \/ FundAuthor(a) \/ ApproveFee(a)
                               \/ PayPublicationFee(Desk, a)
      PROVE  Quiet
  <2>1. CASE FundAuthor(a) \/ ApproveFee(a)
    BY <2>1 DEF FundAuthor, ApproveFee, tokenFrame, registryVars, contentVars,
                reviewVars, Quiet
  <2>2. CASE PayPublicationFee(Desk, a)
    BY <1>1, <2>2, DeskId
    DEF PayPublicationFee, RequireState, contentVars, reviewVars, Quiet, Pays
  <2> QED
    BY <1>3, <2>1, <2>2
<1>4. ASSUME NEW id \in RequestId, NEW s, AnswerPlagiarismCheck(id, s)
      PROVE  Quiet
  <2>1. PICK m \in ManuscriptId : m = plagiarismRequestToMs[id]
    BY DEF ChainInv, TypeOK, OracleTypeOK
  <2> QED
    BY <1>1, <1>4, <2>1, DeskId
    DEF AnswerPlagiarismCheck, FulfillPlagiarism, RequireState, contentVars,
        reviewVars, Quiet
<1>5. ASSUME NEW approve, NEW f, SubmitEditorReview(Desk, approve, f)
      PROVE  Quiet
  BY <1>1, <1>5, DeskId
  DEF SubmitEditorReview, RequireState, contentVars, reviewVars, Quiet
<1>6. ASSUME NEW a \in Address \ Mine, NEW v \in Verdict, NEW n \in Nonce,
             SubmitReview(Desk, a, v, n)
      PROVE  Votes(a, v)
  BY <1>6, ReviewKind
<1>7. CASE AuthorCalls
  BY <1>2, <1>3, <1>7, SubmissionKind DEF AuthorCalls
<1> QED
  BY <1>4, <1>5, <1>6, <1>7 DEF OtherCalls, EditorScreens

LEMMA SelectionKind ==
  ASSUME ChainInv, DeskTyped, AnswerSelection
  PROVE  Draws(answering)
<1>1. /\ status \in [ManuscriptId -> Status]
      /\ reviewers \in [ManuscriptId -> Seq(Address)]
  BY DEF ChainInv, TypeOK
<1>2. PICK id \in OpenReviewerRequests(Desk) :
        AnswerReviewerSelection(id, answering)
  BY DEF AnswerSelection
<1>3. reviewerRequestToMs[id] = Desk
  BY DEF OpenReviewerRequests
<1>4. Unanswered(Desk)
  BY DeskId DEF ChainInv, RequestInv, RequestsMatchStatus
<1> QED
  BY <1>1, <1>2, <1>3, <1>4, DeskId
  DEF AnswerReviewerSelection, FulfillRandomReviewers, RequireState,
      contentVars, Draws, Unanswered

LEMMA CallKinds ==
  ASSUME ChainInv, DeskTyped, Calls
  PROVE  \/ Quiet \/ Begins \/ Revises
         \/ AnswerSelection /\ Draws(answering)
         \/ \E a \in Address, v \in Verdict : Votes(a, v)
<1>1. ASSUME NEW c \in mempool, MineReview(c)
      PROVE  \E a \in Address, v \in Verdict : Votes(a, v)
  <2>1. c.session \in Address /\ c.verdict \in Verdict
    BY DeskAssumption DEF DeskTyped, Call
  <2> QED
    BY <1>1, <2>1, ReviewKind DEF MineReview
<1> QED
  BY <1>1, OtherKinds, SelectionKind DEF Calls, OthersAct

(* What calls leave alone.                                                 *)
LEMMA CallsFrame ==
  ASSUME Calls
  PROVE  /\ Logs
         /\ UNCHANGED <<block, settled, bound, sessions, minted, clicks,
                        earningVars>>
         /\ answering' = IF AnswerSelection THEN <<>> ELSE answering
         /\ mempool' \subseteq mempool
<1>1. CASE OthersAct
  <2>1. answering' = answering
    BY <1>1 DEF OthersAct, tableVars
  <2>2. AnswerSelection => answering' = <<>>
    BY DEF AnswerSelection
  <2> QED
    BY <1>1, <2>1, <2>2 DEF OthersAct, tableVars, pageVars, earningVars
<1>2. CASE AnswerSelection
  BY <1>2 DEF AnswerSelection, pageVars, earningVars
<1>3. ASSUME NEW c \in mempool, MineReview(c)
      PROVE  /\ Logs
             /\ UNCHANGED <<block, settled, bound, sessions, minted, clicks,
                            earningVars, answering>>
             /\ mempool' \subseteq mempool
  BY <1>3 DEF MineReview, tableVars, earningVars
<1>4. AnswerSelection => answering' = <<>>
  BY DEF AnswerSelection
<1> QED
  BY <1>1, <1>2, <1>3, <1>4 DEF Calls

(* What is logged.                                                         *)
LEMMA LogKept ==
  ASSUME Logs, Quiet \/ Begins
  PROVE  log' = log
<1>1. reviewEvents' \ reviewEvents = {}
  BY DEF Quiet, Begins
<1>2. Range(reviewers'[Desk]) \ Range(reviewers[Desk]) = {}
  BY DEF Quiet, Begins
<1>3. ~ (version'[Desk] > 1 /\ version'[Desk] # version[Desk])
  BY DEF Quiet, Begins
<1> QED
  BY <1>1, <1>2, <1>3 DEF Logs

LEMMA LogOfPanel ==
  ASSUME Logs, NEW list, Draws(list)
  PROVE  log' = log \cup {Entry("assigned", a) : a \in Range(list)}
<1>1. reviewEvents' \ reviewEvents = {}
  BY DEF Draws
<1>2. Range(reviewers'[Desk]) \ Range(reviewers[Desk]) = Range(list)
  BY Lists DEF Draws
<1>3. ~ (version'[Desk] > 1 /\ version'[Desk] # version[Desk])
  BY DEF Draws
<1> QED
  BY <1>1, <1>2, <1>3 DEF Logs

LEMMA LogOfVote ==
  ASSUME Logs, NEW a, NEW v, Votes(a, v)
  PROVE  log' = log \cup {Entry("review", a)}
<1>1. reviewEvents' \ reviewEvents = {VoteOf(a, v)}
  BY DEF Votes
<1>2. Range(reviewers'[Desk]) \ Range(reviewers[Desk]) = {}
  BY DEF Votes
<1>3. ~ (version'[Desk] > 1 /\ version'[Desk] # version[Desk])
  BY DEF Votes
<1>4. VoteOf(a, v).reviewer = a
  BY DEF VoteOf
<1>5. {Entry("review", e.reviewer) : e \in {VoteOf(a, v)}} = {Entry("review", a)}
  BY <1>4
<1> QED
  BY <1>1, <1>2, <1>3, <1>5 DEF Logs

LEMMA LogOfRevision ==
  ASSUME ChainInv, Numbered, Logs, Revises
  PROVE  /\ version[Desk] \in Nat \ {0}
         /\ log' = log \cup {Entry("revised", NoSession)}
<1>1. reviewEvents' \ reviewEvents = {}
  BY DEF Revises
<1>2. Range(reviewers'[Desk]) \ Range(reviewers[Desk]) = {}
  BY Lists DEF Revises
<1>3. version[Desk] \in Nat \ {0}
  BY DeskId DEF ChainInv, TypeOK, Revises, Numbered
<1>4. version'[Desk] > 1 /\ version'[Desk] # version[Desk]
  BY <1>3 DEF Revises
<1> QED
  BY <1>1, <1>2, <1>3, <1>4 DEF Logs

LEMMA StillNumbered ==
  ASSUME ChainInv, Numbered, DeskTyped, [DeskNext]_deskVars
  PROVE  Numbered'
<1>1. version[Desk] \in Nat
  BY DeskId DEF ChainInv, TypeOK
<1>2. CASE Calls
  <2>1. CASE Quiet \/ Begins \/ Revises \/ Draws(answering)
    BY <1>1, <2>1 DEF Quiet, Begins, Revises, Draws, Numbered
  <2>2. ASSUME NEW a, NEW v, Votes(a, v) PROVE Numbered'
    BY <2>2 DEF Votes, Numbered
  <2> QED
    BY <1>2, <2>1, <2>2, CallKinds
<1>3. CASE Withdrawals \/ OffChain \/ UNCHANGED deskVars
  <2>1. UNCHANGED registryVars
    BY <1>3, StepKinds
    DEF Withdrawals, Withdrawn, LateTransfer, Moved, deskVars, chainVars
  <2> QED
    BY <2>1 DEF registryVars, contentVars, Numbered
<1> QED
  BY <1>2, <1>3, StepKinds
-----------------------------------------------------------------------------
(***************************************************************************)
(* Types.                                                                  *)
(***************************************************************************)
LEMMA EntryType ==
  ASSUME TypeOK', DeskTyped, NEW name \in {"assigned", "review", "revised"},
         NEW who \in Address \cup {NoSession}
  PROVE  Entry(name, who) \in LogEntry
BY DeskId DEF TypeOK, DeskTyped, Entry, LogEntry

LEMMA LogType ==
  ASSUME ChainInv, TypeOK', Numbered, DeskTyped, Calls
  PROVE  log' \subseteq LogEntry /\ IsFiniteSet(log')
<1>1. Logs /\ log \subseteq LogEntry /\ IsFiniteSet(log)
  BY CallsFrame DEF DeskTyped
<1>2. CASE Quiet \/ Begins
  BY <1>1, <1>2, LogKept
<1>3. CASE Draws(answering)
  <2> DEFINE new == {Entry("assigned", a) : a \in Range(answering)}
  <2>1. answering \in Seq(Address) /\ IsInjective(answering)
    BY Lists DEF DeskTyped
  <2>2. IsFiniteSet(Range(answering)) /\ Range(answering) \subseteq Address
    BY <2>1, PanelSize
  <2>3. IsFiniteSet(new)
    <3> DEFINE entryOf == [a \in Range(answering) |-> Entry("assigned", a)]
    <3>1. entryOf \in Surjection(Range(answering), new)
      BY DEF Surjection
    <3> QED
      BY <2>2, <3>1, FS_Surjection
  <2>4. new \subseteq LogEntry
    BY <2>2, EntryType
  <2> HIDE DEF new
  <2>5. IsFiniteSet(log \cup new)
    BY <1>1, <2>3, FS_Union
  <2>6. log' = log \cup new
    BY <1>1, <1>3, LogOfPanel DEF new
  <2> QED
    BY <1>1, <2>4, <2>5, <2>6
<1>4. ASSUME NEW a \in Address, NEW v \in Verdict, Votes(a, v)
      PROVE  log' \subseteq LogEntry /\ IsFiniteSet(log')
  <2>1. log' = log \cup {Entry("review", a)}
    BY <1>1, <1>4, LogOfVote
  <2>2. IsFiniteSet(log \cup {Entry("review", a)})
    BY <1>1, FS_AddElement
  <2>3. Entry("review", a) \in LogEntry
    BY EntryType
  <2> QED
    BY <1>1, <2>1, <2>2, <2>3
<1>5. CASE Revises
  <2>1. log' = log \cup {Entry("revised", NoSession)}
    BY <1>1, <1>5, LogOfRevision
  <2>2. IsFiniteSet(log \cup {Entry("revised", NoSession)})
    BY <1>1, FS_AddElement
  <2>3. Entry("revised", NoSession) \in LogEntry
    BY EntryType
  <2> QED
    BY <1>1, <2>1, <2>2, <2>3
<1> QED
  BY <1>2, <1>3, <1>4, <1>5, CallKinds

(* The page keeps its form under a new position.                           *)
LEMMA PageMoved ==
  ASSUME page \in UnderWay,
         NEW at \in {"signing", "posting", "waiting", "pending", "indexed"}
  PROVE  /\ [page EXCEPT !.at = at] \in UnderWay
         /\ [page EXCEPT !.at = at].at = at
         /\ [page EXCEPT !.at = at].call = page.call
         /\ [page EXCEPT !.at = at].expected = page.expected
BY DEF UnderWay

LEMMA PageUnderWay ==
  ASSUME DeskTyped, page.at \notin {"closed", "form"}
  PROVE  page \in UnderWay /\ page.call \in Call /\ page.expected \in Int
BY DEF DeskTyped, Closed, Form, UnderWay

LEMMA BackToFormType ==
  ASSUME page \in UnderWay PROVE BackToForm \in Form
BY DEF BackToForm, Form, UnderWay, Status

LEMMA SignedPage ==
  ASSUME page \in UnderWay, NEW n \in Nonce
  PROVE  /\ [page EXCEPT !.at = "posting", !.call.nonce = n] \in UnderWay
         /\ [page EXCEPT !.at = "posting", !.call.nonce = n].at = "posting"
         /\ [page EXCEPT !.at = "posting", !.call.nonce = n].call
              = [page.call EXCEPT !.nonce = n]
<1>1. page.call \in Call
  BY DEF UnderWay
<1>2. [page.call EXCEPT !.nonce = n] \in Call
  BY <1>1 DEF Call
<1>3. [page EXCEPT !.at = "posting", !.call.nonce = n]
        = [page EXCEPT !.at = "posting", !.call = [page.call EXCEPT !.nonce = n]]
  BY DEF UnderWay
<1> HIDE DEF Call
<1>4. \A c \in Call :
        LET p == [page EXCEPT !.at = "posting", !.call = c]
        IN  p \in UnderWay /\ p.at = "posting" /\ p.call = c
  BY DEF UnderWay
<1> QED
  BY <1>2, <1>3, <1>4

LEMMA ReviewsCounted ==
  ASSUME DeskTyped PROVE Cardinality(Reviews) \in Int
<1>1. IsFiniteSet(Reviews)
  BY FS_Subset DEF Reviews, DeskTyped
<1> QED
  BY <1>1, FS_CardinalityType

(* The parts of the type, for the steps that touch only one of them.       *)
TableTyped ==
  /\ bound \in {1, 2}
  /\ sessions \in [{1, 2} -> Mine \cup {NoSession}]
  /\ minted \subseteq Address
  /\ answering \in ReviewerLists \cup {<<>>}
PageTyped ==
  /\ page \in {Closed} \cup Form \cup UnderWay
  /\ mempool \subseteq Call
EarningTyped ==
  /\ withdrawals \in [Withdrawal -> Run \cup NoRun]
  /\ offered \subseteq Mine
  /\ unconfirmed \subseteq [session : Mine, amount : Nat]
  /\ told \in [Mine -> Nat] /\ overlapped \subseteq Mine
BlockTyped == block \in Nat /\ settled \in Status \X Nat
LogTyped == log \subseteq LogEntry /\ IsFiniteSet(log)

LEMMA PartsOfType ==
  /\ DeskTyped <=> /\ BlockTyped /\ LogTyped /\ TableTyped
                   /\ PageTyped /\ EarningTyped
  /\ DeskTyped' <=> /\ BlockTyped' /\ LogTyped' /\ TableTyped'
                    /\ PageTyped' /\ EarningTyped'
BY DEF DeskTyped, BlockTyped, LogTyped, TableTyped, PageTyped, EarningTyped

LEMMA PartsKept ==
  /\ BlockTyped /\ UNCHANGED <<block, settled>> => BlockTyped'
  /\ LogTyped /\ UNCHANGED log => LogTyped'
  /\ TableTyped /\ UNCHANGED tableVars => TableTyped'
  /\ PageTyped /\ UNCHANGED pageVars => PageTyped'
  /\ EarningTyped /\ UNCHANGED earningVars => EarningTyped'
BY DEF BlockTyped, LogTyped, TableTyped, PageTyped, EarningTyped, tableVars,
       pageVars, earningVars

LEMMA HeldAreMine == DeskTyped => Held \subseteq Mine /\ DOMAIN Main = {1, 2}
<1>1. DOMAIN Main = {1, 2}
  BY DeskAssumption
<1> QED
  BY <1>1 DEF DeskTyped, Held

LEMMA PageSteps ==
  ASSUME ChainInv, DeskTyped,
         \/ LoadPage \/ LeavePage \/ ClickSubmit \/ SignReview
         \/ Relay \/ SubmitFails \/ Poll
         \/ \E c \in mempool : DropReview(c) \/ MineReview(c)
  PROVE  PageTyped'
<1> USE DEF PageTyped
<1>1. /\ mempool \subseteq Call
      /\ page \in {Closed} \cup Form \cup UnderWay
  BY DEF DeskTyped
<1>2. CASE LoadPage
  <2>1. status[Desk] \in Status
    BY DeskId DEF ChainInv, TypeOK
  <2>2. page' \in Form /\ mempool' = mempool
    BY <1>2, <2>1, ReviewsCounted DEF LoadPage, Form
  <2> QED
    BY <1>1, <2>2
<1>3. CASE LeavePage
  BY <1>1, <1>3 DEF LeavePage
<1>4. CASE ClickSubmit
  <2>1. PICK s \in Held, v \in Verdict :
          page' = [at |-> "signing", expected |-> page.count + 1,
                   call |-> [session |-> s, verdict |-> v, nonce |-> 0,
                             round |-> version[Desk]]]
    BY <1>4 DEF ClickSubmit
  <2>2. s \in Mine
    BY HeldAreMine
  <2>3. page.count \in Int
    BY <1>1, <1>4 DEF ClickSubmit, Submittable, Closed, Form, UnderWay
  <2>4. version[Desk] \in Nat /\ 0 \in Nonce
    BY DeskId, RegistryAssumption DEF ChainInv, TypeOK, Nonce
  <2>5. page' \in UnderWay
    BY <2>1, <2>2, <2>3, <2>4 DEF UnderWay, Call
  <2> QED
    BY <1>1, <1>4, <2>5 DEF ClickSubmit
<1>5. CASE SignReview
  <2>1. page \in UnderWay
    BY <1>5, PageUnderWay DEF SignReview
  <2>2. page' \in UnderWay /\ mempool' = mempool
    BY <1>5, <2>1, SignedPage DEF SignReview
  <2> QED
    BY <1>1, <2>2
<1>6. CASE Relay
  <2>1. page \in UnderWay /\ page.call \in Call
    BY <1>6, PageUnderWay DEF Relay
  <2>2. page' \in UnderWay
    BY <1>6, <2>1, PageMoved DEF Relay, Posted
  <2> QED
    BY <1>1, <1>6, <2>1, <2>2 DEF Relay
<1>7. CASE SubmitFails
  <2>1. page \in UnderWay
    BY <1>7, PageUnderWay DEF SubmitFails
  <2>2. page' \in Form /\ mempool' = mempool
    BY <1>7, <2>1, BackToFormType DEF SubmitFails
  <2> QED
    BY <1>1, <2>2
<1>8. CASE Poll
  <2>1. page \in UnderWay
    BY <1>8, PageUnderWay DEF Poll
  <2>2. page' \in UnderWay /\ mempool' = mempool
    BY <1>8, <2>1, PageMoved DEF Poll
  <2> QED
    BY <1>1, <2>2
<1>9. ASSUME NEW c \in mempool, DropReview(c) \/ MineReview(c)
      PROVE  PageTyped'
  <2>1. Awaited(c) => page \in UnderWay
    BY PageUnderWay DEF Awaited
  <2>2. mempool' \subseteq mempool
    BY <1>9 DEF DropReview, MineReview
  <2>3. Awaited(c) => BackToForm \in Form
    BY <2>1, BackToFormType
  <2>4. Awaited(c) => [page EXCEPT !.at = "pending"] \in UnderWay
    BY <2>1, PageMoved
  <2>5. \/ page' = page
        \/ Awaited(c) /\ page' = BackToForm
        \/ Awaited(c) /\ page' = [page EXCEPT !.at = "pending"]
    BY <1>9 DEF DropReview, MineReview
  <2> QED
    BY <1>1, <2>2, <2>3, <2>4, <2>5
<1> QED
  BY <1>2, <1>3, <1>4, <1>5, <1>6, <1>7, <1>8, <1>9

LEMMA EarningSteps ==
  ASSUME ChainInv, DeskTyped, MoneyInv,
         \/ LoadEarnings
         \/ \E w \in Withdrawal : \/ \E s \in offered : ClickWithdraw(w, s)
                                  \/ SendTransfer(w) \/ Withdrawn(w)
                                  \/ WithdrawFails(w)
         \/ \E t \in unconfirmed : LateTransfer(t)
  PROVE  EarningTyped'
<1> USE DEF EarningTyped
<1>1. EarningTyped
  BY PartsOfType
<1>2. CASE LoadEarnings
  <2>1. ASSUME NEW w \in Withdrawal
        PROVE  [withdrawals[w] EXCEPT !.here = FALSE] \in Run \cup NoRun
    <3>1. CASE withdrawals[w] \in Run
      BY <3>1 DEF Run
    <3>2. CASE withdrawals[w] \in NoRun
      BY <3>2 DEF NoRun
    <3> QED
      BY <1>1, <3>1, <3>2
  <2>2. offered' \subseteq Mine
    BY <1>2, HeldAreMine DEF LoadEarnings
  <2> QED
    BY <1>1, <1>2, <2>1, <2>2 DEF LoadEarnings
<1>3. ASSUME NEW w \in Withdrawal, NEW s \in offered, ClickWithdraw(w, s)
      PROVE  EarningTyped'
  <2>1. balance[s] \in Nat
    BY <1>1, DeskAssumption DEF ChainInv, TypeOK, TokenTypeOK, Account
  <2> QED
    BY <1>1, <1>3, <2>1 DEF ClickWithdraw, Run
<1>4. ASSUME NEW w \in Withdrawal, SendTransfer(w)
      PROVE  EarningTyped'
  <2>1. withdrawals[w] \in Run
    BY <1>4, RunIsWhole DEF SendTransfer
  <2>2. [withdrawals[w] EXCEPT !.at = "sent"] \in Run
    BY <2>1 DEF Run
  <2>3. withdrawals' = [withdrawals EXCEPT ![w] = [@ EXCEPT !.at = "sent"]]
    BY <1>4 DEF SendTransfer
  <2> QED
    BY <1>1, <1>4, <2>2, <2>3 DEF SendTransfer
<1>5. ASSUME NEW w \in Withdrawal, Withdrawn(w) PROVE EarningTyped'
  <2>1. withdrawals[w].session \in Mine /\ withdrawals[w].amount \in Nat
    BY <1>5, RunIsWhole DEF Withdrawn
  <2>2. NoWithdrawal \in NoRun
    BY DEF NoRun, NoWithdrawal
  <2> QED
    BY <1>1, <1>5, <2>1, <2>2 DEF Withdrawn, Done
<1>6. ASSUME NEW w \in Withdrawal, WithdrawFails(w) PROVE EarningTyped'
  <2>1. withdrawals[w].session \in Mine /\ withdrawals[w].amount \in Nat
    BY <1>6, RunIsWhole DEF WithdrawFails
  <2>2. NoWithdrawal \in NoRun
    BY DEF NoRun, NoWithdrawal
  <2> QED
    BY <1>1, <1>6, <2>1, <2>2 DEF WithdrawFails, Done
<1>7. ASSUME NEW t \in unconfirmed, LateTransfer(t) PROVE EarningTyped'
  BY <1>1, <1>7 DEF LateTransfer
<1> QED
  BY <1>2, <1>3, <1>4, <1>5, <1>6, <1>7

LEMMA TableSteps ==
  ASSUME DeskTyped,
         \/ Rebind
         \/ \E list \in ReviewerLists : MintSessions(list)
         \/ AnswerSelection
  PROVE  TableTyped'
<1> USE DEF TableTyped
<1>1. TableTyped
  BY PartsOfType
<1>2. CASE Rebind
  BY <1>1, <1>2 DEF Rebind
<1>3. ASSUME NEW list \in ReviewerLists, MintSessions(list)
      PROVE  TableTyped'
  <2>1. Range(list) \subseteq Address
    BY Lists, PanelSize
  <2>2. CASE Range(list) \cap Mine = {}
    BY <1>1, <1>3, <2>1, <2>2 DEF MintSessions, RowsAfter
  <2>3. CASE Range(list) \cap Mine # {}
    <3>1. PICK s : s = CHOOSE r \in Range(list) : r \in Mine
      OBVIOUS
    <3>2. s \in Mine
      BY <2>3, <3>1
    <3>3. sessions' = [sessions EXCEPT ![bound] = s]
      BY <1>3, <2>3, <3>1 DEF MintSessions, RowsAfter
    <3> QED
      BY <1>1, <1>3, <2>1, <3>2, <3>3 DEF MintSessions
  <2> QED
    BY <2>2, <2>3
<1>4. CASE AnswerSelection
  BY <1>1, <1>4 DEF AnswerSelection
<1> QED
  BY <1>2, <1>3, <1>4

LEMMA StillTyped ==
  ASSUME ChainInv, ChainInv', Numbered, DeskTyped, MoneyInv,
         [DeskNext]_deskVars
  PROVE  DeskTyped'
<1> USE PartsKept, PartsOfType
<1>1. CASE Calls
  <2>1. LogTyped'
    BY <1>1, LogType DEF ChainInv, LogTyped
  <2>2. BlockTyped' /\ EarningTyped'
    BY <1>1, CallsFrame
  <2>3. TableTyped' /\ PageTyped'
    <3>1. CASE OthersAct
      BY <3>1 DEF OthersAct
    <3>2. CASE AnswerSelection
      BY <3>2, TableSteps DEF AnswerSelection
    <3>3. ASSUME NEW c \in mempool, MineReview(c)
          PROVE  TableTyped' /\ PageTyped'
      BY <3>3, PageSteps DEF MineReview
    <3> QED
      BY <1>1, <3>1, <3>2, <3>3 DEF Calls
  <2> QED
    BY <2>1, <2>2, <2>3
<1>2. CASE NewBlock
  <2>1. BlockTyped'
    BY <1>2, DeskId DEF NewBlock, BlockTyped, ChainInv, TypeOK
  <2> QED
    BY <1>2, <2>1 DEF NewBlock
<1>3. CASE Rebind \/ \E list \in ReviewerLists : MintSessions(list)
  BY <1>3, TableSteps DEF Rebind, MintSessions
<1>4. CASE \/ LoadPage \/ LeavePage \/ ClickSubmit \/ SignReview
           \/ Relay \/ SubmitFails \/ Poll
           \/ \E c \in mempool : DropReview(c)
  BY <1>4, PageSteps
  DEF LoadPage, LeavePage, ClickSubmit, SignReview, Relay, SubmitFails, Poll,
      DropReview
<1>5. CASE LoadEarnings
  <2>1. PageTyped'
    BY <1>5 DEF LoadEarnings, PageTyped
  <2> QED
    BY <1>5, <2>1, EarningSteps DEF LoadEarnings
<1>6. CASE \/ \E w \in Withdrawal : \/ \E s \in offered : ClickWithdraw(w, s)
                                    \/ SendTransfer(w) \/ Withdrawn(w)
                                    \/ WithdrawFails(w)
           \/ \E t \in unconfirmed : LateTransfer(t)
  BY <1>6, EarningSteps
  DEF ClickWithdraw, SendTransfer, Withdrawn, WithdrawFails, LateTransfer,
      withdrawFrame
<1>7. CASE UNCHANGED deskVars
  BY <1>7 DEF deskVars
<1> QED
  BY <1>1, <1>2, <1>3, <1>4, <1>5, <1>6, <1>7 DEF DeskNext, Calls
-----------------------------------------------------------------------------
(***************************************************************************)
(* Keys.                                                                   *)
(***************************************************************************)
LEMMA HeldSame == UNCHANGED sessions => Held' = Held
BY DEF Held

LEMMA CallKeys ==
  ASSUME ChainInv, DeskTyped, KeysInv, Calls
  PROVE  KeysInv' /\ Serving' \subseteq Serving
<1>1. UNCHANGED <<bound, sessions, minted>> /\ Held' = Held
  BY CallsFrame, HeldSame
<1>2. answering' \in {answering, <<>>}
  BY CallsFrame
<1>3. Range(answering') \subseteq Range(answering)
  BY <1>2, Lists
<1>4. (answering' # <<>> => Unanswered(Desk)') /\ Serving' \subseteq Serving
  <2>1. CASE Quiet \/ Begins
    BY <1>2, <1>3, <2>1, Lists
    DEF Quiet, Begins, KeysInv, Unanswered, Serving
  <2>2. CASE Revises
    BY <1>2, <1>3, <2>2, Lists DEF Revises, KeysInv, Unanswered, Serving
  <2>3. CASE AnswerSelection /\ Draws(answering)
    <3>1. answering' = <<>>
      BY <2>3, CallsFrame
    <3> QED
      BY <1>3, <2>3, <3>1 DEF Draws, Serving
  <2>4. ASSUME NEW a, NEW v, Votes(a, v)
        PROVE  (answering' # <<>> => Unanswered(Desk)')
                 /\ Serving' \subseteq Serving
    BY <1>2, <1>3, <2>4, Lists DEF Votes, KeysInv, Unanswered, Serving
  <2> QED
    BY <2>1, <2>2, <2>3, <2>4, CallKinds
<1> QED
  BY <1>1, <1>4 DEF KeysInv

LEMMA MintKeys ==
  ASSUME ChainInv, DeskTyped, KeysInv, NEW list \in ReviewerLists,
         MintSessions(list)
  PROVE  KeysInv' /\ Serving' = Range(list)
<1>1. Unanswered(Desk) /\ UNCHANGED <<status, reviewers>>
  BY DeskId
  DEF MintSessions, ChainInv, RequestInv, RequestsMatchStatus, chainVars,
      registryVars, reviewVars
<1>2. Serving' = Range(list) /\ answering' = list
  BY <1>1, Lists DEF MintSessions, Serving, Unanswered
<1>3. /\ bound \in DOMAIN sessions /\ bound \in DOMAIN Main
      /\ bound' = bound /\ minted' = minted \cup Range(list)
  BY HeldAreMine DEF DeskTyped, MintSessions
<1>4. CASE Range(list) \cap Mine = {}
  <2>1. sessions' = sessions
    BY <1>4 DEF MintSessions, RowsAfter, DeskTyped
  <2>2. Held' = Held
    BY <2>1, HeldSame
  <2> QED
    BY <1>1, <1>2, <1>3, <1>4, <2>1, <2>2 DEF KeysInv, Unanswered
<1>5. CASE Range(list) \cap Mine # {}
  <2>1. PICK s : s = CHOOSE r \in Range(list) : r \in Mine
    OBVIOUS
  <2>2. s \in Mine /\ s \in Range(list)
    BY <1>5, <2>1
  <2>3. sessions' = [sessions EXCEPT ![bound] = s]
    BY <1>5, <2>1 DEF MintSessions, RowsAfter
  <2>4. s # NoSession
    BY <2>2, DeskAssumption
  <2>5. s \in Held' /\ Held' \subseteq Held \cup {s}
    BY <1>3, <2>3, <2>4 DEF Held
  <2>6. Range(list) \cap Mine = {s}
    BY <2>2, DeskAssumption
  <2>7. bound = 1 => sessions'[2] = sessions[2]
    BY <2>3 DEF DeskTyped
  <2> QED
    BY <1>1, <1>2, <1>3, <2>2, <2>5, <2>6, <2>7 DEF KeysInv, Unanswered
<1> QED
  BY <1>4, <1>5

(* Keys in use stay keys in use; only a minted panel, whose keys are new,  *)
(* adds to them.                                                           *)
LEMMA OtherKeys ==
  ASSUME KeysInv, UNCHANGED <<status, reviewers, sessions, minted, answering>>,
         bound' = 2 \/ bound' = bound
  PROVE  KeysInv' /\ Serving' = Serving
<1>1. Held' = Held
  BY HeldSame
<1> QED
  BY <1>1 DEF KeysInv, Serving, Unanswered

LEMMA StillHeld ==
  ASSUME ChainInv, DeskTyped, KeysInv, [DeskNext]_deskVars
  PROVE  /\ KeysInv'
         /\ minted \subseteq minted'
         /\ Serving' \subseteq Serving \/ Serving' \cap minted = {}
<1>1. CASE Calls
  BY <1>1, CallKeys, CallsFrame
<1>2. ASSUME NEW list \in ReviewerLists, MintSessions(list)
      PROVE  KeysInv' /\ minted \subseteq minted' /\ Serving' \cap minted = {}
  BY <1>2, MintKeys DEF MintSessions, Fresh
<1>3. CASE \/ (DeskNext /\ ~ Calls /\ ~ \E list \in ReviewerLists : MintSessions(list))
           \/ UNCHANGED deskVars
  <2>1. /\ UNCHANGED <<status, reviewers, sessions, minted, answering>>
        /\ bound' = 2 \/ bound' = bound
    BY <1>3
    DEF DeskNext, Calls, NewBlock, Rebind, LoadPage, LeavePage, ClickSubmit,
        SignReview, Relay, SubmitFails, Poll, DropReview, LoadEarnings,
        ClickWithdraw, SendTransfer, Withdrawn, WithdrawFails, LateTransfer,
        Moved, withdrawFrame, chainVars, registryVars, reviewVars, tableVars,
        deskVars
  <2> QED
    BY <2>1, OtherKeys
<1> QED
  BY <1>1, <1>2, <1>3
-----------------------------------------------------------------------------
(***************************************************************************)
(* Fresh keys.  Keys used before are not among those of a new panel, and   *)
(* no key is in use when a new round begins.                               *)
(***************************************************************************)
LEMMA RoundsApart ==
  ASSUME ChainInv, DeskTyped, KeysInv, [DeskNext]_deskVars
  PROVE  version'[Desk] = version[Desk] \/ Serving' = {}
<1>1. CASE Calls
  <2>1. CASE Begins \/ Revises
    <3>1. Range(reviewers'[Desk]) = {}
      BY <2>1, Lists DEF Begins, Revises
    <3>2. ~ Unanswered(Desk)
      BY <2>1 DEF Begins, Revises, Unanswered
    <3>3. answering = <<>> /\ answering' = <<>>
      BY <1>1, <3>2, CallsFrame DEF KeysInv
    <3> QED
      BY <3>1, <3>3, Lists DEF Serving
  <2>2. CASE Quiet \/ Draws(answering)
    BY <2>2 DEF Quiet, Draws
  <2>3. ASSUME NEW a, NEW v, Votes(a, v)
        PROVE  version'[Desk] = version[Desk]
    BY <2>3 DEF Votes
  <2> QED
    BY <1>1, <2>1, <2>2, <2>3, CallKinds
<1>2. CASE Withdrawals \/ OffChain \/ UNCHANGED deskVars
  <2>1. UNCHANGED registryVars
    BY <1>2, StepKinds
    DEF Withdrawals, Withdrawn, LateTransfer, Moved, deskVars, chainVars
  <2> QED
    BY <2>1 DEF registryVars, contentVars
<1> QED
  BY <1>1, <1>2, StepKinds

(* What was of this round, or of none at work, still is.                   *)
LEMMA OfRoundKept ==
  ASSUME ChainInv, DeskTyped, KeysInv, [DeskNext]_deskVars,
         NEW s \in minted, NEW r, OfThisRound(s, r)
  PROVE  s \in minted' /\ OfThisRound(s, r)'
<1>1. /\ minted \subseteq minted'
      /\ Serving' \subseteq Serving \/ Serving' \cap minted = {}
  BY StillHeld
<1>2. version'[Desk] = version[Desk] \/ Serving' = {}
  BY RoundsApart
<1> QED
  BY <1>1, <1>2 DEF OfThisRound

(* The review under way keeps its key and its round, from the click on.    *)
LEMMA PageCall ==
  ASSUME DeskTyped, [DeskNext]_deskVars, page' \in UnderWay
  PROVE  \/ /\ page \in UnderWay
            /\ page'.call.session = page.call.session
            /\ page'.call.round = page.call.round
            /\ page'.call.verdict = page.call.verdict
         \/ /\ page'.call.session \in Held
            /\ page'.call.round = version[Desk]
            /\ page'.at = "signing"
<1> DEFINE Kept3 == /\ page \in UnderWay
                    /\ page'.call.session = page.call.session
                    /\ page'.call.round = page.call.round
                    /\ page'.call.verdict = page.call.verdict
<1>1. Form \cap UnderWay = {} /\ Closed \notin UnderWay
  BY DEF Form, UnderWay, Closed
<1>2. CASE page' = page
  BY <1>2
<1>3. CASE LoadPage
  <2>1. page'.at = "form"
    BY <1>3 DEF LoadPage
  <2> QED
    BY <2>1 DEF UnderWay
<1>4. CASE LeavePage \/ LoadEarnings
  BY <1>1, <1>4 DEF LeavePage, LoadEarnings
<1>5. CASE ClickSubmit
  BY <1>5 DEF ClickSubmit, Submittable
<1>6. CASE SignReview
  <2>1. page \in UnderWay /\ page.call \in Call
    BY <1>6, PageUnderWay DEF SignReview
  <2>2. PICK n \in Nonce : n = nonces[page.call.session]
    BY <1>6 DEF SignReview
  <2>3. page'.call = [page.call EXCEPT !.nonce = n]
    BY <1>6, <2>1, <2>2, SignedPage DEF SignReview
  <2>4. /\ [page.call EXCEPT !.nonce = n].session = page.call.session
        /\ [page.call EXCEPT !.nonce = n].round = page.call.round
        /\ [page.call EXCEPT !.nonce = n].verdict = page.call.verdict
    BY <2>1 DEF Call
  <2> QED
    BY <2>1, <2>3, <2>4
<1>7. CASE Relay
  BY <1>7, PageUnderWay, PageMoved DEF Relay, Posted
<1>8. CASE Poll
  BY <1>8, PageUnderWay, PageMoved DEF Poll
<1>9. CASE SubmitFails
  BY <1>1, <1>9, PageUnderWay, BackToFormType DEF SubmitFails
<1>10. ASSUME NEW c \in mempool, MineReview(c), page' # page PROVE Kept3
  <2>1. page.at = "waiting" /\ page' = [page EXCEPT !.at = "pending"]
    BY <1>10 DEF MineReview, Awaited
  <2> QED
    BY <2>1, PageUnderWay, PageMoved
<1>11. ASSUME NEW c \in mempool, DropReview(c), page' # page PROVE FALSE
  <2>1. page.at = "waiting" /\ page' = BackToForm
    BY <1>11 DEF DropReview, Awaited
  <2> QED
    BY <1>1, <2>1, PageUnderWay, BackToFormType
<1>12. CASE \/ NewBlock \/ OthersAct \/ Rebind
            \/ \E list \in ReviewerLists : MintSessions(list)
            \/ AnswerSelection
            \/ \E w \in Withdrawal : \/ \E s \in offered : ClickWithdraw(w, s)
                                     \/ SendTransfer(w) \/ Withdrawn(w)
                                     \/ WithdrawFails(w)
            \/ \E t \in unconfirmed : LateTransfer(t)
            \/ UNCHANGED deskVars
  <2>1. page' = page
    BY <1>12
    DEF NewBlock, OthersAct, Rebind, MintSessions, AnswerSelection,
        ClickWithdraw, SendTransfer, Withdrawn, WithdrawFails, LateTransfer,
        withdrawFrame, pageVars, deskVars
  <2> QED
    BY <2>1
<1> QED
  BY <1>2, <1>3, <1>4, <1>5, <1>6, <1>7, <1>8, <1>9, <1>10, <1>11, <1>12
  DEF DeskNext

LEMMA MempoolGrows ==
  ASSUME DeskTyped, [DeskNext]_deskVars
  PROVE  \/ mempool' \subseteq mempool
         \/ page \in UnderWay /\ mempool' = mempool \cup {page.call}
<1>1. CASE Relay
  BY <1>1, PageUnderWay DEF Relay
<1>2. CASE Calls
  BY <1>2, CallsFrame
<1>3. CASE (DeskNext /\ ~ Relay /\ ~ Calls) \/ UNCHANGED deskVars
  BY <1>3
  DEF DeskNext, Calls, NewBlock, Rebind, MintSessions, LoadPage, LeavePage,
      ClickSubmit, SignReview, SubmitFails, Poll, DropReview, LoadEarnings,
      ClickWithdraw, SendTransfer, Withdrawn, WithdrawFails, LateTransfer,
      withdrawFrame, pageVars, deskVars
<1> QED
  BY <1>1, <1>2, <1>3

LEMMA EventsGrow ==
  ASSUME ChainInv, DeskTyped, [DeskNext]_deskVars
  PROVE  \/ reviewEvents' = reviewEvents
         \/ Calls /\ \E a \in Address, v \in Verdict : Votes(a, v)
<1>1. CASE Calls
  BY <1>1, CallKinds DEF Quiet, Begins, Revises, Draws
<1>2. CASE Withdrawals \/ OffChain \/ UNCHANGED deskVars
  BY <1>2, StepKinds
  DEF Withdrawals, Withdrawn, LateTransfer, Moved, deskVars, chainVars
<1> QED
  BY <1>1, <1>2, StepKinds

LEMMA StillFresh ==
  ASSUME ChainInv, DeskTyped, KeysInv, FreshInv, [DeskNext]_deskVars
  PROVE  FreshInv'
<1>1. ASSUME NEW s \in minted, NEW r, OfThisRound(s, r)
      PROVE  s \in minted' /\ OfThisRound(s, r)'
  BY <1>1, OfRoundKept
<1>2. ASSUME NEW s \in Held
      PROVE  s \in minted /\ OfThisRound(s, version[Desk])
  BY DEF KeysInv, OfThisRound
<1>3. ASSUME NEW c \in mempool' PROVE CallFresh(c)'
  <2>1. c \in mempool \/ (page \in UnderWay /\ c = page.call)
    BY MempoolGrows
  <2>2. CallFresh(c)
    BY <2>1 DEF FreshInv
  <2> QED
    BY <1>1, <2>2 DEF CallFresh
<1>4. ASSUME page' \in UnderWay
      PROVE  CallFresh(page.call)'
  <2>1. PICK s, r : s = page'.call.session /\ r = page'.call.round
    OBVIOUS
  <2>2. s \in minted /\ OfThisRound(s, r)
    <3>1. CASE page \in UnderWay /\ s = page.call.session /\ r = page.call.round
      BY <3>1 DEF FreshInv, CallFresh
    <3>2. CASE s \in Held /\ r = version[Desk]
      BY <1>2, <3>2
    <3> QED
      BY <1>4, <2>1, <3>1, <3>2, PageCall
  <2>3. s \in minted' /\ OfThisRound(s, r)'
    BY <1>1, <2>2
  <2> QED
    BY <2>1, <2>3 DEF CallFresh, OfThisRound
<1>5. ASSUME NEW e \in reviewEvents'
      PROVE  /\ e.msId = Desk /\ e.reviewer \in minted'
             /\ OfThisRound(e.reviewer, e.version)'
  <2>1. CASE e \in reviewEvents
    BY <1>1, <2>1 DEF FreshInv
  <2>2. CASE e \notin reviewEvents
    <3>1. PICK a \in Address, v \in Verdict : Votes(a, v)
      BY <2>2, EventsGrow
    <3>2. e = VoteOf(a, v)
      BY <2>2, <3>1 DEF Votes
    <3>3. e.msId = Desk /\ e.reviewer = a /\ e.version = version[Desk]
      BY <3>2 DEF VoteOf
    <3>4. a \in minted
      BY <3>1 DEF Votes, KeysInv, Serving
    <3>5. OfThisRound(a, version[Desk])
      BY DEF OfThisRound
    <3> QED
      BY <1>1, <3>3, <3>4, <3>5
  <2> QED
    BY <2>1, <2>2
<1>6. \A d, e \in reviewEvents' : d.reviewer = e.reviewer => d = e
  <2>1. CASE reviewEvents' = reviewEvents
    BY <2>1 DEF FreshInv
  <2>2. ASSUME NEW a \in Address, NEW v \in Verdict, Votes(a, v)
        PROVE  \A e \in reviewEvents : e.reviewer # a
    <3>1. a \in Serving /\ a \notin VotersIn(Desk)
      BY <2>2, DeskId
      DEF Votes, Serving, ChainInv, RoundsInv, RoundInv, Tallied
    <3> QED
      BY <3>1 DEF FreshInv, OfThisRound, VotersIn
  <2>3. ASSUME NEW a \in Address, NEW v \in Verdict, Votes(a, v)
        PROVE  \A d, e \in reviewEvents' : d.reviewer = e.reviewer => d = e
    <3>1. /\ reviewEvents' = reviewEvents \cup {VoteOf(a, v)}
          /\ VoteOf(a, v).reviewer = a
      BY <2>3 DEF Votes, VoteOf
    <3> QED
      BY <2>2, <2>3, <3>1 DEF FreshInv
  <2> QED
    BY <2>1, <2>3, EventsGrow
<1> QED
  BY <1>3, <1>4, <1>5, <1>6 DEF FreshInv, CallFresh
-----------------------------------------------------------------------------
(***************************************************************************)
(* Confirmation.  The page waits for the receipt of its own review before  *)
(* it says anything, and events are never taken back.                      *)
(***************************************************************************)
LEMMA Confirmation ==
  ASSUME DeskTyped, [DeskNext]_deskVars, page'.at \in {"pending", "indexed"}
  PROVE  \/ page.at \in {"pending", "indexed"} /\ page'.call = page.call
         \/ \E c \in mempool : MineReview(c) /\ page'.call = c
<1>1. CASE page' = page
  BY <1>1
<1>2. CASE LoadPage \/ LeavePage \/ ClickSubmit \/ LoadEarnings
  BY <1>2 DEF LoadPage, LeavePage, ClickSubmit, LoadEarnings, Closed
<1>3. CASE SignReview
  <2>1. page \in UnderWay
    BY <1>3, PageUnderWay DEF SignReview
  <2>2. PICK n \in Nonce : n = nonces[page.call.session]
    BY <1>3 DEF SignReview
  <2>3. page'.at = "posting"
    BY <1>3, <2>1, <2>2, SignedPage DEF SignReview
  <2> QED
    BY <2>3
<1>4. CASE Relay
  BY <1>4, PageUnderWay, PageMoved DEF Relay, Posted
<1>5. CASE SubmitFails
  BY <1>5 DEF SubmitFails, BackToForm
<1>6. CASE Poll
  BY <1>6, PageUnderWay, PageMoved DEF Poll
<1>7. ASSUME NEW c \in mempool, MineReview(c), page' # page
      PROVE  page'.call = c
  <2>1. /\ page.at = "waiting" /\ page.call = c
        /\ page' = [page EXCEPT !.at = "pending"]
    BY <1>7 DEF MineReview, Awaited
  <2> QED
    BY <2>1, PageUnderWay, PageMoved
<1>8. ASSUME NEW c \in mempool, DropReview(c), page' # page PROVE FALSE
  BY <1>8 DEF DropReview, BackToForm
<1>9. CASE \/ NewBlock \/ OthersAct \/ Rebind
           \/ \E list \in ReviewerLists : MintSessions(list)
           \/ AnswerSelection
           \/ \E w \in Withdrawal : \/ \E s \in offered : ClickWithdraw(w, s)
                                    \/ SendTransfer(w) \/ Withdrawn(w)
                                    \/ WithdrawFails(w)
           \/ \E t \in unconfirmed : LateTransfer(t)
           \/ UNCHANGED deskVars
  <2>1. page' = page
    BY <1>9
    DEF NewBlock, OthersAct, Rebind, MintSessions, AnswerSelection,
        ClickWithdraw, SendTransfer, Withdrawn, WithdrawFails, LateTransfer,
        withdrawFrame, pageVars, deskVars
  <2> QED
    BY <2>1, <1>1
<1> QED
  BY <1>1, <1>2, <1>3, <1>4, <1>5, <1>6, <1>7, <1>8, <1>9 DEF DeskNext

LEMMA StillConfirmed ==
  ASSUME ChainInv, DeskTyped, ConfirmedIsOnChain, [DeskNext]_deskVars
  PROVE  ConfirmedIsOnChain'
<1> SUFFICES ASSUME page'.at \in {"pending", "indexed"}
             PROVE  \E e \in reviewEvents' : /\ e.reviewer = page'.call.session
                                             /\ e.verdict = page'.call.verdict
  BY DEF ConfirmedIsOnChain, Confirmed
<1>1. reviewEvents \subseteq reviewEvents'
  BY EventsGrow DEF Votes
<1>2. CASE page.at \in {"pending", "indexed"} /\ page'.call = page.call
  BY <1>1, <1>2 DEF ConfirmedIsOnChain, Confirmed
<1>3. ASSUME NEW c \in mempool, MineReview(c), page'.call = c
      PROVE  \E e \in reviewEvents' : /\ e.reviewer = page'.call.session
                                      /\ e.verdict = page'.call.verdict
  <2>1. VoteOf(c.session, c.verdict) \in reviewEvents'
    BY <1>3 DEF MineReview, SubmitReview, VoteOf
  <2>2. /\ VoteOf(c.session, c.verdict).reviewer = c.session
        /\ VoteOf(c.session, c.verdict).verdict = c.verdict
    BY DEF VoteOf
  <2> QED
    BY <1>3, <2>1, <2>2
<1> QED
  BY <1>2, <1>3, Confirmation
-----------------------------------------------------------------------------
(***************************************************************************)
(* History.  Entries of the round at work leave the revisions logged alone *)
(* and stand in the block being filled; a revision is alone in its block   *)
(* when it is logged.                                                      *)
(***************************************************************************)
RevisedBy(b) == {e \in log : e.name = "revised" /\ e.block <= b}

LEMMA LatestIsCurrent ==
  ASSUME HistoryInv PROVE LatestVersion = VersionOf(block)
<1>1. {e \in log : e.name = "revised"} = RevisedBy(block)
  BY DEF HistoryInv, RevisedBy
<1> QED
  BY <1>1 DEF LatestVersion, VersionOf, RevisedBy

LEMMA LogFields ==
  ASSUME DeskTyped, NEW e \in log
  PROVE  e.block \in Nat /\ e.round \in Nat
BY DEF DeskTyped, LogEntry

LEMMA EntryFields ==
  ASSUME NEW name, NEW who
  PROVE  /\ Entry(name, who).name = name /\ Entry(name, who).block = block
         /\ Entry(name, who).reviewer = who
         /\ Entry(name, who).round = version'[Desk]
BY DEF Entry

(* Nothing logged, and the round goes on.                                  *)
LEMMA QuietHistory ==
  ASSUME HistoryInv, UNCHANGED <<log, block, settled>>,
         version'[Desk] = version[Desk], reviewers'[Desk] = reviewers[Desk],
         reviewEvents' = reviewEvents,
         status[Desk] = "REVISION_REQUESTED" => status'[Desk] = status[Desk]
  PROVE  HistoryInv'
<1>1. /\ VotersIn(Desk)' = VotersIn(Desk)
      /\ \A name : LoggedNow(name)' = LoggedNow(name)
  BY DEF VotersIn, LoggedNow
<1>2. ReportsUnderTheirVersion'
  BY DEF HistoryInv, ReportsUnderTheirVersion, LatestVersion, VersionOf
<1> QED
  BY <1>1, <1>2 DEF HistoryInv

(* Entries of the round at work.                                           *)
LEMMA RoundHistory ==
  ASSUME ChainInv, Numbered, DeskTyped, HistoryInv,
         UNCHANGED <<block, settled>>, status[Desk] = "UNDER_REVIEW",
         version'[Desk] = version[Desk],
         NEW new, log' = log \cup new,
         \A e \in new : /\ e.name # "revised" /\ e.block = block
                        /\ e.round = version[Desk],
         LoggedNow("assigned")' = Range(reviewers'[Desk]),
         LoggedNow("review")' = VotersIn(Desk)'
  PROVE  HistoryInv'
<1>1. block \in Nat /\ version[Desk] \in Nat /\ version[Desk] # 0
  BY DeskId DEF DeskTyped, ChainInv, TypeOK, Numbered
<1>2. \A b : RevisedBy(b)' = RevisedBy(b)
  BY DEF RevisedBy
<1>3. \A b : VersionOf(b)' = VersionOf(b)
  BY <1>2 DEF VersionOf, RevisedBy
<1>4. LatestVersion' = LatestVersion
  BY DEF LatestVersion
<1>5. VersionOf(block) = version[Desk]
  BY <1>1, LatestIsCurrent DEF HistoryInv, ReportsUnderTheirVersion
<1>6. ReportsUnderTheirVersion'
  <2>1. ASSUME NEW e \in log' PROVE VersionOf(e.block)' = e.round
    BY <1>3, <1>5 DEF HistoryInv, ReportsUnderTheirVersion
  <2> QED
    BY <1>4, <2>1 DEF HistoryInv, ReportsUnderTheirVersion
<1>7. \A e \in log' : e.block <= block /\ e.round <= version[Desk]
  BY <1>1 DEF HistoryInv
<1>8. settled # <<"REVISION_REQUESTED", version[Desk]>>
  BY DEF HistoryInv
<1> QED
  BY <1>6, <1>7, <1>8 DEF HistoryInv

LEMMA PanelHistory ==
  ASSUME ChainInv, Numbered, DeskTyped, HistoryInv,
         UNCHANGED <<block, settled>>, Logs, NEW list, Draws(list)
  PROVE  HistoryInv'
<1> DEFINE new == {Entry("assigned", a) : a \in Range(list)}
<1>1. log' = log \cup new /\ version'[Desk] = version[Desk]
  BY LogOfPanel DEF Draws
<1>2. \A e \in new : /\ e.name = "assigned" /\ e.block = block
                     /\ e.round = version[Desk]
  BY <1>1, EntryFields
<1>3. {e.reviewer : e \in new} = Range(list)
  BY EntryFields
<1> HIDE DEF new
<1>4. LoggedNow("assigned")' = Range(reviewers'[Desk])
  <2>1. LoggedNow("assigned") = {}
    BY Lists DEF HistoryInv, Draws
  <2>2. LoggedNow("assigned")' = LoggedNow("assigned") \cup {e.reviewer : e \in new}
    BY <1>1, <1>2 DEF LoggedNow
  <2> QED
    BY <1>3, <2>1, <2>2 DEF Draws
<1>5. LoggedNow("review")' = VotersIn(Desk)'
  <2>1. LoggedNow("review")' = LoggedNow("review")
    BY <1>1, <1>2 DEF LoggedNow
  <2>2. VotersIn(Desk)' = VotersIn(Desk)
    BY <1>1 DEF VotersIn, Draws
  <2> QED
    BY <2>1, <2>2 DEF HistoryInv
<1> QED
  BY <1>1, <1>2, <1>4, <1>5, RoundHistory DEF Draws

LEMMA VoteHistory ==
  ASSUME ChainInv, Numbered, DeskTyped, HistoryInv,
         UNCHANGED <<block, settled>>, Logs, NEW a, NEW v, Votes(a, v)
  PROVE  HistoryInv'
<1>1. PICK e0 : e0 = Entry("review", a)
  OBVIOUS
<1>2. log' = log \cup {e0} /\ version'[Desk] = version[Desk]
  BY <1>1, LogOfVote DEF Votes
<1>3. /\ e0.name = "review" /\ e0.block = block
      /\ e0.round = version[Desk] /\ e0.reviewer = a
  BY <1>1, <1>2, EntryFields
<1>4. LoggedNow("assigned")' = Range(reviewers'[Desk])
  <2>1. LoggedNow("assigned")' = LoggedNow("assigned")
    BY <1>2, <1>3 DEF LoggedNow
  <2> QED
    BY <2>1 DEF HistoryInv, Votes
<1>5. LoggedNow("review")' = VotersIn(Desk)'
  <2>1. LoggedNow("review")' = LoggedNow("review") \cup {a}
    BY <1>2, <1>3 DEF LoggedNow
  <2>2. VotersIn(Desk)' = VotersIn(Desk) \cup {a}
    <3>1. PICK vote : vote = VoteOf(a, v)
      OBVIOUS
    <3>2. vote.msId = Desk /\ vote.version = version[Desk] /\ vote.reviewer = a
      BY <3>1 DEF VoteOf
    <3>3. reviewEvents' = reviewEvents \cup {vote}
      BY <3>1 DEF Votes
    <3> QED
      BY <1>2, <3>2, <3>3 DEF VotersIn
  <2> QED
    BY <2>1, <2>2 DEF HistoryInv
<1>6. PICK new : /\ log' = log \cup new
                 /\ \A e \in new : /\ e.name # "revised" /\ e.block = block
                                    /\ e.round = version[Desk]
  <2>1. PICK new : new = {e0}
    OBVIOUS
  <2> QED
    BY <1>2, <1>3, <2>1
<1>7. status[Desk] = "UNDER_REVIEW"
  BY DEF Votes
<1> QED
  BY <1>2, <1>4, <1>5, <1>6, <1>7, RoundHistory

LEMMA BeginHistory ==
  ASSUME ChainInv, Numbered, DeskTyped, HistoryInv,
         UNCHANGED <<block, settled>>, log' = log, Begins
  PROVE  HistoryInv'
<1>1. version[Desk] = 0 /\ version'[Desk] = 1
  BY DEF Begins, Numbered
<1>2. log = {}
  <2> SUFFICES ASSUME NEW e \in log PROVE FALSE
    OBVIOUS
  <2>1. IsFiniteSet(RevisedBy(e.block))
    BY FS_Subset DEF RevisedBy, DeskTyped
  <2>2. Cardinality(RevisedBy(e.block)) \in Nat
    BY <2>1, FS_CardinalityType
  <2>3. e.round = 1 + Cardinality(RevisedBy(e.block)) /\ e.round <= 0
    BY <1>1 DEF HistoryInv, ReportsUnderTheirVersion, VersionOf, RevisedBy
  <2> QED
    BY <2>2, <2>3
<1>3. VotersIn(Desk)' = {}
  <2>1. \A e \in reviewEvents : e.msId = Desk => e.version # 1
    BY <1>1 DEF ChainInv, RoundsInv, EventInv
  <2> QED
    BY <1>1, <2>1 DEF VotersIn, Begins
<1>4. \A name : LoggedNow(name)' = {}
  BY <1>2 DEF LoggedNow
<1>5. ReportsUnderTheirVersion'
  <2>1. LatestVersion' = LatestVersion
    BY DEF LatestVersion
  <2>2. LatestVersion = 1
    BY <1>1 DEF HistoryInv, ReportsUnderTheirVersion
  <2> QED
    BY <1>1, <1>2, <2>1, <2>2 DEF ReportsUnderTheirVersion
<1>6. settled[2] <= 1 /\ settled # <<"REVISION_REQUESTED", 1>>
  <2>1. settled[2] \in Nat /\ settled[2] <= 0
    BY <1>1 DEF HistoryInv, DeskTyped
  <2> QED
    BY <2>1
<1>7. Range(reviewers'[Desk]) = {}
  BY Lists DEF Begins
<1> QED
  BY <1>1, <1>2, <1>3, <1>4, <1>5, <1>6, <1>7 DEF HistoryInv

LEMMA RevisionHistory ==
  ASSUME ChainInv, Numbered, DeskTyped, HistoryInv,
         UNCHANGED <<block, settled>>, Logs, Revises
  PROVE  HistoryInv'
<1>1. PICK e0 : e0 = Entry("revised", NoSession)
  OBVIOUS
<1>2. /\ version[Desk] \in Nat \ {0} /\ version'[Desk] = version[Desk] + 1
      /\ log' = log \cup {e0} /\ block \in Nat
  BY <1>1, LogOfRevision DEF Revises, DeskTyped
<1>3. /\ e0.name = "revised" /\ e0.block = block
      /\ e0.round = version[Desk] + 1
  BY <1>1, <1>2, EntryFields
<1>4. \A e \in log : /\ e.block \in Nat /\ e.block < block
                     /\ e.round \in Nat /\ e.round <= version[Desk]
  <2>1. settled = <<"REVISION_REQUESTED", version[Desk]>>
    BY DEF Revises
  <2> QED
    BY <1>2, <2>1, LogFields DEF HistoryInv
<1>5. e0 \notin log
  BY <1>2, <1>3, <1>4
<1>6. LatestVersion' = LatestVersion + 1
  <2> DEFINE revised == {e \in log : e.name = "revised"}
  <2>1. IsFiniteSet(revised) /\ e0 \notin revised
    BY <1>5, FS_Subset DEF DeskTyped
  <2>2. Cardinality(revised \cup {e0}) = Cardinality(revised) + 1
        /\ Cardinality(revised) \in Nat
    BY <2>1, FS_AddElement, FS_CardinalityType
  <2>3. {e \in log' : e.name = "revised"} = revised \cup {e0}
    BY <1>2, <1>3
  <2> HIDE DEF revised
  <2>4. LatestVersion' = 1 + Cardinality(revised \cup {e0})
    BY <2>3 DEF LatestVersion
  <2>5. LatestVersion = 1 + Cardinality(revised)
    BY DEF LatestVersion, revised
  <2> QED
    BY <2>2, <2>4, <2>5
<1>7. LatestVersion' = version'[Desk]
  BY <1>2, <1>6 DEF HistoryInv, ReportsUnderTheirVersion
<1>8. \A e \in log : VersionOf(e.block)' = VersionOf(e.block)
  <2> SUFFICES ASSUME NEW e \in log PROVE VersionOf(e.block)' = VersionOf(e.block)
    OBVIOUS
  <2>1. RevisedBy(e.block)' = RevisedBy(e.block)
    BY <1>2, <1>3, <1>4 DEF RevisedBy
  <2> QED
    BY <2>1 DEF VersionOf, RevisedBy
<1>9. VersionOf(block)' = LatestVersion'
  <2>1. {e \in log' : e.name = "revised" /\ e.block <= block}
          = {e \in log' : e.name = "revised"}
    BY <1>2, <1>3, <1>4
  <2> QED
    BY <2>1 DEF VersionOf, LatestVersion
<1>10. ReportsUnderTheirVersion'
  <2>1. ASSUME NEW e \in log' PROVE VersionOf(e.block)' = e.round
    <3>1. CASE e \in log
      BY <1>8, <3>1 DEF HistoryInv, ReportsUnderTheirVersion
    <3>2. CASE e = e0
      BY <1>2, <1>3, <1>7, <1>9, <3>2
    <3> QED
      BY <1>2, <3>1, <3>2
  <2> QED
    BY <1>2, <1>7, <2>1 DEF ReportsUnderTheirVersion
<1>11. LoggedNow("assigned")' = {} /\ LoggedNow("review")' = {}
  BY <1>2, <1>3, <1>4 DEF LoggedNow
<1>12. VotersIn(Desk)' = {}
  <2>1. \A e \in reviewEvents : e.msId = Desk => e.version # version[Desk] + 1
    BY <1>2 DEF ChainInv, RoundsInv, EventInv, TypeOK, ReviewEvent
  <2> QED
    BY <1>2, <2>1 DEF VotersIn, Revises
<1>13. \A e \in log' : e.block <= block /\ e.round <= version'[Desk]
  BY <1>2, <1>3, <1>4
<1>14. settled[2] <= version'[Desk]
       /\ settled # <<"REVISION_REQUESTED", version'[Desk]>>
  BY <1>2 DEF Revises
<1> QED
  BY <1>10, <1>11, <1>12, <1>13, <1>14, Lists DEF HistoryInv, Revises

LEMMA StillOrdered ==
  ASSUME ChainInv, Numbered, DeskTyped, HistoryInv, [DeskNext]_deskVars
  PROVE  HistoryInv'
<1>1. CASE Calls
  <2>1. Logs /\ UNCHANGED <<block, settled>>
    BY <1>1, CallsFrame
  <2>2. CASE Quiet
    BY <2>1, <2>2, LogKept, QuietHistory DEF Quiet
  <2>3. CASE Begins
    BY <2>1, <2>3, LogKept, BeginHistory
  <2>4. CASE Revises
    BY <2>1, <2>4, RevisionHistory
  <2>5. CASE Draws(answering)
    BY <2>1, <2>5, PanelHistory
  <2>6. ASSUME NEW a, NEW v, Votes(a, v) PROVE HistoryInv'
    BY <2>1, <2>6, VoteHistory
  <2> QED
    BY <1>1, <2>2, <2>3, <2>4, <2>5, <2>6, CallKinds
<1>2. CASE NewBlock
  <2>1. /\ block' = block + 1 /\ settled' = <<status[Desk], version[Desk]>>
        /\ UNCHANGED <<status, version, reviewers, reviewEvents, log>>
    BY <1>2 DEF NewBlock, chainVars, registryVars, contentVars, reviewVars
  <2>2. block \in Nat /\ version[Desk] \in Nat
        /\ \A e \in log : e.block \in Nat
    BY DeskId, LogFields DEF DeskTyped, ChainInv, TypeOK
  <2>3. \A e \in log : e.block <= block' /\ e.block # block'
    BY <2>1, <2>2 DEF HistoryInv
  <2>4. /\ VotersIn(Desk)' = VotersIn(Desk)
        /\ \A name : LoggedNow(name)' = LoggedNow(name)
    BY <2>1 DEF VotersIn, LoggedNow
  <2>5. ReportsUnderTheirVersion'
    BY <2>1 DEF HistoryInv, ReportsUnderTheirVersion, LatestVersion, VersionOf
  <2> QED
    BY <2>1, <2>2, <2>3, <2>4, <2>5 DEF HistoryInv
<1>3. CASE (DeskNext /\ ~ Calls /\ ~ NewBlock) \/ UNCHANGED deskVars
  <2>1. UNCHANGED <<log, block, settled, status, version, reviewers, reviewEvents>>
    BY <1>3
    DEF DeskNext, Calls, Rebind, MintSessions, LoadPage, LeavePage, ClickSubmit,
        SignReview, Relay, SubmitFails, Poll, DropReview, LoadEarnings,
        ClickWithdraw, SendTransfer, Withdrawn, WithdrawFails, LateTransfer,
        Moved, withdrawFrame, chainVars, registryVars, contentVars, reviewVars,
        deskVars
  <2> QED
    BY <2>1, QuietHistory
<1> QED
  BY <1>1, <1>2, <1>3
-----------------------------------------------------------------------------
(***************************************************************************)
(* Money.  A payment is the only call that gives a session tokens, once;   *)
(* after that only withdrawals move them.                                  *)
(***************************************************************************)
LEMMA OccursOnce ==
  ASSUME NEW list \in Seq(Address), IsInjective(list), NEW s
  PROVE  Occurrences(s, list) = IF s \in Range(list) THEN 1 ELSE 0
<1> DEFINE at == {i \in DOMAIN list : list[i] = s}
<1>1. CASE s \in Range(list)
  <2>1. PICK i \in DOMAIN list : list[i] = s
    BY <1>1 DEF Range
  <2>2. at = {i}
    BY <2>1 DEF IsInjective
  <2>3. Cardinality({i}) = 1
    BY FS_Singleton
  <2> QED
    BY <1>1, <2>2, <2>3 DEF Occurrences
<1>2. CASE s \notin Range(list)
  <2>1. at = {}
    BY <1>2 DEF Range
  <2> QED
    BY <1>2, <2>1, FS_EmptySet DEF Occurrences
<1> QED
  BY <1>1, <1>2

LEMMA SessionAccount ==
  ASSUME NEW s \in Mine
  PROVE  /\ s \in Account /\ s \in Address /\ s \notin Author
         /\ s # Funder /\ s # Registry
BY DeskAssumption, TokenAssumption DEF Account

LEMMA PaymentMoney ==
  ASSUME ChainInv, Pays, NEW s \in Mine
  PROVE  /\ status[Desk] = "ACCEPTED" /\ status'[Desk] = "PUBLISHED"
         /\ reviewers' = reviewers
         /\ balance'[s] = balance[s] + (IF s \in Range(reviewers[Desk])
                                        THEN REVIEWER_INCENTIVE ELSE 0)
<1>1. PICK a \in Author : PayPublicationFee(Desk, a)
  BY DEF Pays
<1>2. /\ status[Desk] = "ACCEPTED" /\ status'[Desk] = "PUBLISHED"
      /\ reviewers' = reviewers
  BY <1>1, DeskId
  DEF PayPublicationFee, RequireState, reviewVars, ChainInv, TypeOK
<1>3. s \in Account /\ s # Registry /\ s # a /\ balance[s] \in Nat
  BY SessionAccount DEF ChainInv, TypeOK, TokenTypeOK
<1>4. balance'[s] = balance[s]
        + REVIEWER_INCENTIVE * Occurrences(s, reviewers[Desk])
  <2>1. Occurrences(s, reviewers[Desk]) \in Nat
    BY DeskId, OccurrencesType DEF ChainInv, TypeOK
  <2>2. REVIEWER_INCENTIVE * Occurrences(s, reviewers[Desk]) \in Nat
    BY <2>1, NatProduct, TokenAssumption
  <2> QED
    BY <1>1, <1>3, <2>2 DEF PayPublicationFee, PayFromFee
<1>5. Occurrences(s, reviewers[Desk])
        = IF s \in Range(reviewers[Desk]) THEN 1 ELSE 0
  BY DeskId, OccursOnce DEF ChainInv, TypeOK, RoundsInv, RoundInv
<1>6. REVIEWER_INCENTIVE * 1 = REVIEWER_INCENTIVE
      /\ REVIEWER_INCENTIVE * 0 = 0
  BY TokenAssumption
<1> QED
  BY <1>2, <1>4, <1>5, <1>6

LEMMA CallMoney ==
  ASSUME ChainInv, DeskTyped, Calls, ~ Pays, NEW s \in Mine
  PROVE  balance'[s] = balance[s]
<1>1. balance \in [Account -> Nat]
  BY DEF ChainInv, TypeOK, TokenTypeOK
<1>2. ASSUME NEW a \in Author, FundAuthor(a) \/ ApproveFee(a)
      PROVE  balance'[s] = balance[s]
  <2>1. balance[s] \in Nat /\ s \in Account /\ s # a /\ s # Funder
    BY <1>1, SessionAccount
  <2> QED
    BY <1>2, <2>1 DEF FundAuthor, ApproveFee, Transfer, Approve
<1>3. CASE OthersAct
  BY <1>2, <1>3
  DEF OthersAct, OtherCalls, AuthorCalls, EditorScreens, SubmitManuscript,
      ReviseManuscript,
      AnswerPlagiarismCheck, FulfillPlagiarism, SubmitEditorReview,
      SubmitReview, tokenVars, Pays
<1>4. CASE AnswerSelection
  BY <1>4
  DEF AnswerSelection, AnswerReviewerSelection, FulfillRandomReviewers, tokenVars
<1>5. CASE \E c \in mempool : MineReview(c)
  BY <1>5 DEF MineReview, SubmitReview, tokenVars
<1> QED
  BY <1>3, <1>4, <1>5 DEF Calls

LEMMA EarnedKept ==
  ASSUME ChainInv, DeskTyped, Calls, ~ Pays, NEW s \in Mine
  PROVE  Earned(s)' = Earned(s)
<1>1. CASE Quiet \/ Begins \/ Revises \/ Draws(answering)
  BY <1>1 DEF Quiet, Begins, Revises, Draws, Earned
<1>2. ASSUME NEW a, NEW v, Votes(a, v) PROVE Earned(s)' = Earned(s)
  BY <1>2 DEF Votes, Earned
<1> QED
  BY <1>1, <1>2, CallKinds

LEMMA MoneyKept ==
  ASSUME DeskTyped, MoneyInv, UNCHANGED earningVars,
         \A s \in Mine : balance'[s] = balance[s] /\ Earned(s)' = Earned(s)
  PROVE  MoneyInv'
<1>1. UNCHANGED <<withdrawals, offered, unconfirmed, told, overlapped>>
  BY DEF earningVars
<1>2. WithdrawnIsMoved'
  BY <1>1 DEF MoneyInv, WithdrawnIsMoved
<1>3. \A s \in Mine : \A n : Whole(s, n)' <=> Whole(s, n)
  BY DEF Whole
<1>4. ASSUME NEW t \in unconfirmed PROVE Whole(t.session, t.amount)'
  BY <1>3 DEF MoneyInv, DeskTyped
<1>5. \A w, s : RunOf(w, s)' <=> RunOf(w, s)
  BY <1>1 DEF RunOf
<1>6. \A s \in Mine \ overlapped' : OneRun(s)'
  BY <1>1, <1>5 DEF MoneyInv, OneRun
<1>7. \A s \in Mine : balance'[s] = 0 \/ balance'[s] = Earned(s)'
  BY DEF MoneyInv
<1>8. \A w \in Withdrawal, s \in Mine :
        RunOf(w, s)' => Whole(s, withdrawals[w].amount)'
  BY <1>1, <1>5 DEF MoneyInv, Whole
<1> QED
  BY <1>1, <1>2, <1>4, <1>6, <1>7, <1>8 DEF MoneyInv

LEMMA PaymentKeepsMoney ==
  ASSUME ChainInv, DeskTyped, MoneyInv, UNCHANGED earningVars, Pays
  PROVE  MoneyInv'
<1>1. UNCHANGED <<withdrawals, offered, unconfirmed, told, overlapped>>
  BY DEF earningVars
<1>2. ASSUME NEW s \in Mine
      PROVE  /\ Earned(s) = 0 /\ balance[s] = 0 /\ told[s] = 0
             /\ balance'[s] = Earned(s)'
             /\ \A n : ~ Whole(s, n)
  <2>1. Earned(s) = 0
    BY <1>2, PaymentMoney DEF Earned
  <2>2. balance[s] \in Nat /\ told[s] \in Nat
    BY SessionAccount DEF ChainInv, TypeOK, TokenTypeOK, DeskTyped
  <2>3. balance[s] = 0 /\ told[s] = 0
    BY <2>1, <2>2 DEF MoneyInv, WithdrawnIsMoved
  <2>4. balance'[s] = Earned(s)'
    BY <2>3, PaymentMoney, TokenAssumption DEF Earned
  <2> QED
    BY <2>1, <2>3, <2>4 DEF Whole
<1>3. unconfirmed = {} /\ \A w \in Withdrawal, s \in Mine : ~ RunOf(w, s)
  BY <1>2 DEF MoneyInv, DeskTyped
<1>4. \A w \in Withdrawal, s \in Mine : ~ RunOf(w, s)'
  BY <1>1, <1>3 DEF RunOf
<1>5. \A s \in Mine : Earned(s)' \in Nat
  BY TokenAssumption DEF Earned
<1>6. WithdrawnIsMoved'
  BY <1>1, <1>2, <1>5 DEF WithdrawnIsMoved
<1>7. \A s \in Mine : OneRun(s)'
  BY <1>4 DEF OneRun
<1> QED
  BY <1>1, <1>2, <1>3, <1>4, <1>6, <1>7 DEF MoneyInv

LEMMA CallsKeepMoney ==
  ASSUME ChainInv, DeskTyped, MoneyInv, Calls
  PROVE  MoneyInv'
<1>1. UNCHANGED earningVars
  BY CallsFrame
<1>2. CASE Pays
  BY <1>1, <1>2, PaymentKeepsMoney
<1>3. CASE ~ Pays
  BY <1>1, <1>3, CallMoney, EarnedKept, MoneyKept
<1> QED
  BY <1>2, <1>3

(* The off-chain half of a withdrawal.                                     *)
LEMMA SameMoney ==
  ASSUME UNCHANGED chainVars
  PROVE  /\ balance' = balance
         /\ \A s : Earned(s)' = Earned(s)
         /\ \A s, n : Whole(s, n)' <=> Whole(s, n)
BY DEF chainVars, tokenVars, registryVars, reviewVars, Earned, Whole

LEMMA RunFields ==
  ASSUME DeskTyped, NEW w \in Withdrawal
  PROVE  \/ withdrawals[w] \in Run /\ withdrawals[w].at \in {"gas", "sent"}
         \/ withdrawals[w].at = "idle"
BY DEF DeskTyped, Run, NoRun

LEMMA ClickMoney ==
  ASSUME ChainInv, DeskTyped, MoneyInv, NEW w \in Withdrawal,
         NEW r \in offered, ClickWithdraw(w, r)
  PROVE  MoneyInv'
<1>1. /\ withdrawals[w].at = "idle" /\ balance[r] > 0
      /\ withdrawals' = [withdrawals EXCEPT
           ![w] = [at |-> "gas", session |-> r, amount |-> balance[r],
                   here |-> TRUE]]
      /\ overlapped' = overlapped \cup
                         ({r} \cap {withdrawals[u].session : u \in Withdrawal})
      /\ UNCHANGED <<chainVars, unconfirmed, told>>
  BY DEF ClickWithdraw
<1>2. /\ r \in Mine /\ withdrawals \in [Withdrawal -> Run \cup NoRun]
      /\ balance[r] \in Nat /\ told[r] \in Nat
  BY SessionAccount DEF DeskTyped, ChainInv, TypeOK, TokenTypeOK
<1>3. balance[r] = Earned(r) /\ told[r] = 0
  BY <1>1, <1>2 DEF MoneyInv, WithdrawnIsMoved
<1>4. Whole(r, balance[r])
  BY <1>1, <1>3 DEF Whole
<1>5. ASSUME NEW u \in Withdrawal, NEW s \in Mine, RunOf(u, s)'
      PROVE  \/ u = w /\ s = r /\ withdrawals'[u].amount = balance[r]
             \/ u # w /\ RunOf(u, s) /\ withdrawals'[u] = withdrawals[u]
  BY <1>1, <1>2, <1>5 DEF RunOf
<1>6. \A u \in Withdrawal, s \in Mine :
        RunOf(u, s)' => Whole(s, withdrawals'[u].amount)
  BY <1>4, <1>5 DEF MoneyInv
<1>7. ASSUME NEW s \in Mine \ overlapped' PROVE OneRun(s)'
  <2>1. s \notin overlapped
    BY <1>1
  <2>2. CASE s = r
    <3>1. \A u \in Withdrawal : ~ RunOf(u, r)
      BY <1>1, <1>7, <2>2 DEF RunOf
    <3> QED
      BY <1>1, <1>3, <1>5, <2>2, <3>1 DEF OneRun
  <2>3. CASE s # r
    BY <1>1, <1>5, <2>1, <2>3 DEF MoneyInv, OneRun
  <2> QED
    BY <2>2, <2>3
<1>8. WithdrawnIsMoved' /\ \A s \in Mine : balance'[s] = 0 \/ balance'[s] = Earned(s)'
  BY <1>1, SameMoney DEF MoneyInv, WithdrawnIsMoved
<1>9. \A t \in unconfirmed : Whole(t.session, t.amount)'
  BY <1>1, SameMoney DEF MoneyInv
<1>10. \A u \in Withdrawal, s \in Mine :
         RunOf(u, s)' => Whole(s, withdrawals[u].amount)'
  BY <1>1, <1>6, SameMoney DEF Whole
<1> QED
  BY <1>1, <1>7, <1>8, <1>9, <1>10 DEF MoneyInv

(* Runs that stay what they are but for the step they are at, or the page  *)
(* they belong to.                                                         *)
LEMMA SameRunsMoney ==
  ASSUME DeskTyped, MoneyInv,
         UNCHANGED <<chainVars, unconfirmed, told, overlapped>>,
         \A u \in Withdrawal :
           /\ withdrawals'[u].session = withdrawals[u].session
           /\ withdrawals'[u].amount = withdrawals[u].amount
           /\ withdrawals'[u].at = "idle" <=> withdrawals[u].at = "idle"
  PROVE  MoneyInv'
<1>1. \A u \in Withdrawal, s \in Mine : RunOf(u, s)' <=> RunOf(u, s)
  BY DEF RunOf
<1>2. \A u \in Withdrawal, s \in Mine :
        RunOf(u, s)' => Whole(s, withdrawals[u].amount)'
  BY <1>1, SameMoney DEF MoneyInv, Whole
<1>3. \A s \in Mine \ overlapped' : OneRun(s)'
  BY <1>1 DEF MoneyInv, OneRun
<1>4. WithdrawnIsMoved' /\ \A s \in Mine : balance'[s] = 0 \/ balance'[s] = Earned(s)'
  BY SameMoney DEF MoneyInv, WithdrawnIsMoved
<1>5. \A t \in unconfirmed : Whole(t.session, t.amount)'
  BY SameMoney DEF MoneyInv
<1> QED
  BY <1>2, <1>3, <1>4, <1>5 DEF MoneyInv

LEMMA SendMoney ==
  ASSUME ChainInv, DeskTyped, MoneyInv, NEW w \in Withdrawal, SendTransfer(w)
  PROVE  MoneyInv'
<1>1. /\ withdrawals[w].at = "gas"
      /\ withdrawals' = [withdrawals EXCEPT ![w].at = "sent"]
      /\ UNCHANGED <<chainVars, unconfirmed, told, overlapped>>
  BY DEF SendTransfer
<1>2. withdrawals[w] \in Run
  BY <1>1, RunIsWhole
<1>3. \A u \in Withdrawal : /\ withdrawals'[u].session = withdrawals[u].session
                            /\ withdrawals'[u].amount = withdrawals[u].amount
                            /\ withdrawals'[u].at = "idle"
                                 <=> withdrawals[u].at = "idle"
  BY <1>1, <1>2 DEF DeskTyped, Run
<1> QED
  BY <1>1, <1>3, SameRunsMoney

LEMMA LoadMoney ==
  ASSUME ChainInv, DeskTyped, MoneyInv, LoadEarnings
  PROVE  MoneyInv'
<1>1. /\ withdrawals' = [w \in Withdrawal |->
                           [withdrawals[w] EXCEPT !.here = FALSE]]
      /\ UNCHANGED <<chainVars, unconfirmed, told, overlapped>>
  BY DEF LoadEarnings
<1>2. \A u \in Withdrawal : /\ withdrawals'[u].session = withdrawals[u].session
                            /\ withdrawals'[u].amount = withdrawals[u].amount
                            /\ withdrawals'[u].at = withdrawals[u].at
  BY <1>1 DEF DeskTyped, Run, NoRun
<1> QED
  BY <1>1, <1>2, SameRunsMoney

(* A run that ends leaves the other runs as they were; of a session that   *)
(* never had two, there is none left.                                      *)
LEMMA RunEnds ==
  ASSUME DeskTyped, MoneyInv, NEW w \in Withdrawal,
         withdrawals[w].at # "idle", Done(w)
  PROVE  /\ RunOf(w, withdrawals[w].session)
         /\ \A u \in Withdrawal, s \in Mine : RunOf(u, s)' =>
              /\ RunOf(u, s) /\ withdrawals'[u] = withdrawals[u]
              /\ s \notin overlapped => s # withdrawals[w].session
<1>1. /\ withdrawals' = [withdrawals EXCEPT ![w] = NoWithdrawal]
      /\ withdrawals \in [Withdrawal -> Run \cup NoRun]
      /\ withdrawals[w].session \in Mine
  BY RunIsWhole DEF Done, DeskTyped
<1>2. RunOf(w, withdrawals[w].session)
  BY DEF RunOf
<1>3. ASSUME NEW u \in Withdrawal, NEW s \in Mine, RunOf(u, s)'
      PROVE  /\ RunOf(u, s) /\ withdrawals'[u] = withdrawals[u]
             /\ s \notin overlapped => s # withdrawals[w].session
  <2>1. u # w
    BY <1>1, <1>3 DEF RunOf, NoWithdrawal
  <2>2. withdrawals'[u] = withdrawals[u]
    BY <1>1, <2>1
  <2>3. RunOf(u, s)
    BY <1>3, <2>2 DEF RunOf
  <2>4. s \notin overlapped => s # withdrawals[w].session
    BY <1>1, <1>2, <2>1, <2>3 DEF MoneyInv, OneRun
  <2> QED
    BY <2>2, <2>3, <2>4
<1> QED
  BY <1>2, <1>3

LEMMA FailMoney ==
  ASSUME ChainInv, DeskTyped, MoneyInv, NEW w \in Withdrawal, WithdrawFails(w)
  PROVE  MoneyInv'
<1>1. /\ withdrawals[w].at # "idle" /\ Done(w)
      /\ UNCHANGED <<chainVars, told, overlapped>>
      /\ unconfirmed' = unconfirmed \cup
           (IF withdrawals[w].at = "sent"
            THEN {[session |-> withdrawals[w].session,
                   amount |-> withdrawals[w].amount]} ELSE {})
  BY DEF WithdrawFails
<1>2. Whole(withdrawals[w].session, withdrawals[w].amount)
  BY <1>1, RunIsWhole
<1>3. \A u \in Withdrawal, s \in Mine :
        RunOf(u, s)' => RunOf(u, s) /\ withdrawals'[u] = withdrawals[u]
  BY <1>1, RunEnds
<1>4. \A u \in Withdrawal, s \in Mine :
        RunOf(u, s)' => Whole(s, withdrawals[u].amount)'
  BY <1>1, <1>3, SameMoney DEF MoneyInv, Whole
<1>5. \A s \in Mine \ overlapped' : OneRun(s)'
  BY <1>1, <1>3 DEF MoneyInv, OneRun
<1>6. WithdrawnIsMoved' /\ \A s \in Mine : balance'[s] = 0 \/ balance'[s] = Earned(s)'
  BY <1>1, SameMoney DEF MoneyInv, WithdrawnIsMoved
<1>7. \A t \in unconfirmed' : Whole(t.session, t.amount)'
  <2>1. \A t \in unconfirmed' : Whole(t.session, t.amount)
    BY <1>1, <1>2 DEF MoneyInv
  <2> QED
    BY <1>1, <2>1, SameMoney
<1> QED
  BY <1>4, <1>5, <1>6, <1>7 DEF MoneyInv

(* What the token moves change of it.                                      *)
LEMMA EarnedFrame ==
  ASSUME UNCHANGED registryVars
  PROVE  \A s : /\ Earned(s)' = Earned(s)
                /\ \A n : Whole(s, n)' <=> Whole(s, n)
BY DEF registryVars, reviewVars, Earned, Whole

LEMMA WithdrawnMoney ==
  ASSUME ChainInv, DeskTyped, MoneyInv, NEW w \in Withdrawal, Withdrawn(w)
  PROVE  MoneyInv'
<1>1. withdrawals[w].at # "idle"
  BY DEF Withdrawn
<1>2. PICK r \in Mine, n \in Nat :
        r = withdrawals[w].session /\ n = withdrawals[w].amount
  BY <1>1, RunIsWhole
<1>3. /\ Moved(r, n) /\ Done(w)
      /\ told' = [told EXCEPT ![r] = @ + n]
      /\ UNCHANGED <<unconfirmed, overlapped>>
  BY <1>2 DEF Withdrawn
<1>4. Whole(r, n) /\ told \in [Mine -> Nat]
  BY <1>1, <1>2, RunIsWhole DEF DeskTyped
<1>5. /\ RunOf(w, r)
      /\ \A u \in Withdrawal, s \in Mine : RunOf(u, s)' =>
           /\ RunOf(u, s) /\ withdrawals'[u] = withdrawals[u]
           /\ s \notin overlapped => s # r
  BY <1>3, <1>1, <1>2, RunEnds
<1>6. r \notin overlapped => told[r] = 0
  BY <1>5 DEF MoneyInv, OneRun
<1>7. /\ UNCHANGED registryVars /\ balance'[r] = 0
      /\ \A s \in Mine : s # r => balance'[s] = balance[s]
  BY <1>3, <1>4, MovedIsWithdrawn
<1>8. told'[r] = told[r] + n /\ \A s \in Mine : s # r => told'[s] = told[s]
  BY <1>3, <1>4
<1>9. WithdrawnIsMoved'
  <2>1. /\ Earned(r)' > 0 /\ balance'[r] = 0
        /\ r \notin overlapped => told'[r] + balance'[r] <= Earned(r)'
    BY <1>4, <1>6, <1>7, <1>8, EarnedFrame DEF Whole
  <2>2. ASSUME NEW s \in Mine, s # r
        PROVE  /\ told'[s] > 0 => Earned(s)' > 0 /\ balance'[s] = 0
               /\ s \notin overlapped => told'[s] + balance'[s] <= Earned(s)'
    BY <1>7, <1>8, <2>2, EarnedFrame DEF MoneyInv, WithdrawnIsMoved
  <2> QED
    BY <1>3, <2>1, <2>2 DEF WithdrawnIsMoved
<1>10. \A s \in Mine : balance'[s] = 0 \/ balance'[s] = Earned(s)'
  BY <1>7, EarnedFrame DEF MoneyInv
<1>11. \A u \in Withdrawal, s \in Mine :
         RunOf(u, s)' => Whole(s, withdrawals[u].amount)'
  <2>1. ASSUME NEW u \in Withdrawal, NEW s \in Mine, RunOf(u, s)'
        PROVE  Whole(s, withdrawals[u].amount) /\ withdrawals'[u] = withdrawals[u]
    BY <1>5, <2>1 DEF MoneyInv
  <2> QED
    BY <1>7, <2>1, EarnedFrame DEF Whole
<1>12. \A s \in Mine \ overlapped' : OneRun(s)'
  BY <1>3, <1>5, <1>8 DEF MoneyInv, OneRun
<1>13. \A t \in unconfirmed' : Whole(t.session, t.amount)'
  BY <1>3, <1>7, EarnedFrame DEF MoneyInv
<1> QED
  BY <1>9, <1>10, <1>11, <1>12, <1>13 DEF MoneyInv

LEMMA LateMoney ==
  ASSUME ChainInv, DeskTyped, MoneyInv, NEW t \in unconfirmed, LateTransfer(t)
  PROVE  MoneyInv'
<1>1. /\ Moved(t.session, t.amount) /\ unconfirmed' \subseteq unconfirmed
      /\ UNCHANGED <<withdrawals, told, overlapped>>
  BY DEF LateTransfer
<1>2. t.session \in Mine /\ t.amount \in Nat /\ Whole(t.session, t.amount)
  BY DEF DeskTyped, MoneyInv
<1>3. /\ UNCHANGED registryVars /\ balance'[t.session] = 0
      /\ \A s \in Mine : s # t.session => balance'[s] = balance[s]
  BY <1>1, <1>2, MovedIsWithdrawn
<1>4. \A s \in Mine : balance[s] \in Nat /\ told[s] \in Nat
  BY SessionAccount DEF DeskTyped, ChainInv, TypeOK, TokenTypeOK
<1>5. \A s \in Mine : /\ balance'[s] \in {0, balance[s]}
                      /\ Earned(s)' = Earned(s) /\ Earned(s) \in Nat
  BY <1>3, EarnedFrame, TokenAssumption DEF Earned
<1>6. WithdrawnIsMoved'
  BY <1>1, <1>4, <1>5 DEF MoneyInv, WithdrawnIsMoved
<1>7. \A s \in Mine : balance'[s] = 0 \/ balance'[s] = Earned(s)'
  BY <1>5 DEF MoneyInv
<1>8. \A w, s : RunOf(w, s)' <=> RunOf(w, s)
  BY <1>1 DEF RunOf
<1>9. \A w \in Withdrawal, s \in Mine :
        RunOf(w, s)' => Whole(s, withdrawals[w].amount)'
  BY <1>1, <1>5, <1>8 DEF MoneyInv, Whole
<1>10. \A s \in Mine \ overlapped' : OneRun(s)'
  BY <1>1, <1>8 DEF MoneyInv, OneRun
<1>11. \A c \in unconfirmed' : Whole(c.session, c.amount)'
  BY <1>1, <1>3, EarnedFrame DEF MoneyInv
<1> QED
  BY <1>6, <1>7, <1>9, <1>10, <1>11 DEF MoneyInv

LEMMA StillMoney ==
  ASSUME ChainInv, DeskTyped, MoneyInv, [DeskNext]_deskVars
  PROVE  MoneyInv'
<1>1. CASE Calls
  BY <1>1, CallsKeepMoney
<1>2. CASE LoadEarnings
  BY <1>2, LoadMoney
<1>3. ASSUME NEW w \in Withdrawal,
             \/ \E s \in offered : ClickWithdraw(w, s)
             \/ SendTransfer(w) \/ Withdrawn(w) \/ WithdrawFails(w)
      PROVE  MoneyInv'
  BY <1>3, ClickMoney, SendMoney, WithdrawnMoney, FailMoney
<1>4. ASSUME NEW t \in unconfirmed, LateTransfer(t) PROVE MoneyInv'
  BY <1>4, LateMoney
<1>5. CASE \/ NewBlock \/ Rebind
           \/ \E list \in ReviewerLists : MintSessions(list)
           \/ LoadPage \/ LeavePage \/ ClickSubmit \/ SignReview
           \/ Relay \/ SubmitFails \/ Poll
           \/ \E c \in mempool : DropReview(c)
           \/ UNCHANGED deskVars
  <2>1. UNCHANGED chainVars /\ UNCHANGED earningVars
    BY <1>5
    DEF NewBlock, Rebind, MintSessions, LoadPage, LeavePage, ClickSubmit,
        SignReview, Relay, SubmitFails, Poll, DropReview, deskVars
  <2> QED
    BY <2>1, SameMoney, MoneyKept
<1> QED
  BY <1>1, <1>2, <1>3, <1>4, <1>5 DEF DeskNext, Calls
-----------------------------------------------------------------------------
(***************************************************************************)
(* The invariant.                                                          *)
(***************************************************************************)
LEMMA InitChain == Init => ChainInv /\ Numbered
<1> SUFFICES ASSUME Init PROVE ChainInv /\ Numbered
  OBVIOUS
<1>1. ChainInv
  BY InitType, InitRequestInv, InitRounds, InitChecked DEF ChainInv
<1>2. Numbered
  BY DeskId DEF Init, RegistryInit, Numbered
<1> QED
  BY <1>1, <1>2

LEMMA InitTyped == DeskInit => DeskTyped
<1> SUFFICES ASSUME DeskInit PROVE DeskTyped
  OBVIOUS
<1>1. DOMAIN Main = {1, 2}
  BY DeskAssumption
<1>2. IsFiniteSet({})
  BY FS_EmptySet
<1> QED
  BY <1>1, <1>2 DEF DeskInit, DeskTyped, Status, NoWithdrawal, NoRun

LEMMA InitDeskInv == DeskInit => DeskInv
<1> SUFFICES ASSUME DeskInit PROVE DeskInv
  OBVIOUS
<1>1. ChainInv /\ Numbered /\ DeskTyped
  BY InitChain, InitTyped DEF DeskInit
<1>2. /\ status[Desk] = "SUBMITTED" /\ version[Desk] = 0
      /\ reviewers[Desk] = <<>> /\ reviewEvents = {} /\ log = {}
      /\ \A s \in Mine : balance[s] = 0
  <2>1. \A s \in Mine : balance[s] = 0
    BY SessionAccount DEF DeskInit, Init, RegistryInit, TokenInit
  <2> QED
    BY <2>1, DeskId DEF DeskInit, Init, RegistryInit
<1>3. Held = {} /\ Serving = {}
  BY <1>2, Lists DEF DeskInit, Held, Serving
<1>4. KeysInv
  BY <1>3, DeskAssumption DEF DeskInit, KeysInv
<1>5. FreshInv
  BY <1>2 DEF DeskInit, FreshInv, Closed, UnderWay
<1>6. ConfirmedIsOnChain
  BY DEF DeskInit, ConfirmedIsOnChain, Confirmed, Closed
<1>7. HistoryInv
  <2>1. {e \in log : e.name = "revised"} = {}
    BY <1>2
  <2>2. LatestVersion = 1
    BY <2>1, FS_EmptySet DEF LatestVersion
  <2>3. ReportsUnderTheirVersion
    BY <1>2, <2>2 DEF ReportsUnderTheirVersion
  <2>4. /\ LoggedNow("assigned") = {} /\ LoggedNow("review") = {}
        /\ VotersIn(Desk) = {} /\ Range(reviewers[Desk]) = {}
    BY <1>2, Lists DEF LoggedNow, VotersIn
  <2>5. settled[2] = 0 /\ settled # <<"REVISION_REQUESTED", 0>>
    BY DEF DeskInit
  <2>6. settled[2] <= version[Desk]
        /\ settled # <<"REVISION_REQUESTED", version[Desk]>>
    BY <1>2, <2>5
  <2>7. \A e \in log : e.block <= block /\ e.round <= version[Desk]
    BY <1>2
  <2> QED
    BY <2>3, <2>4, <2>6, <2>7 DEF HistoryInv
<1>8. MoneyInv
  BY <1>2 DEF DeskInit, MoneyInv, WithdrawnIsMoved, OneRun, Earned, RunOf,
                NoWithdrawal
<1> QED
  BY <1>1, <1>4, <1>5, <1>6, <1>7, <1>8 DEF DeskInv

LEMMA NextDeskInv == DeskInv /\ [DeskNext]_deskVars => DeskInv'
<1> SUFFICES ASSUME DeskInv, [DeskNext]_deskVars PROVE DeskInv'
  OBVIOUS
<1> USE DEF DeskInv
<1>1. [Next]_vars
  BY StepsAreNext
<1>2. ChainInv'
  BY <1>1, ChainStep
<1>3. DeskTyped'
  BY <1>2, StillTyped
<1> QED
  BY <1>2, <1>3, StillNumbered, StillHeld, StillFresh, StillConfirmed,
     StillOrdered, StillMoney

(* Everything the desk keeps agrees with the contracts at all times.       *)
THEOREM DeskInvariant == DeskSpec => []DeskInv
BY InitDeskInv, NextDeskInv, PTL DEF DeskSpec

(***************************************************************************)
(* With the browser, the relayer and the followed reviewer's wallet added, *)
(* the contracts still do only what PublicationRegistry has them do, so    *)
(* every theorem about its Spec holds here too.                            *)
(***************************************************************************)
THEOREM DeskImplementsRegistry == DeskSpec => Spec
<1>1. DeskInit => Init
  BY DEF DeskInit
<1>2. DeskInv /\ [DeskNext]_deskVars => [Next]_vars
  BY StepsAreNext DEF DeskInv
<1> QED
  BY <1>1, <1>2, DeskInvariant, PTL DEF DeskSpec, Spec
-----------------------------------------------------------------------------
(***************************************************************************)
(* A panel never waits for a key the reviewer has lost, and what a session *)
(* earned can always be withdrawn (CreateReviewerSessionsForField, which   *)
(* replaces rows, against the panels and payments of the contract).        *)
(***************************************************************************)
THEOREM KeysHeld == DeskSpec => []KeysOfPanelHeld
<1>1. DeskInv => KeysOfPanelHeld
  <2> SUFFICES ASSUME DeskInv, NEW s \in Mine,
                      s \in Range(reviewers[Desk]) \/ balance[s] > 0
               PROVE  s \in Held
    BY DEF KeysOfPanelHeld
  <2>1. s \in Range(reviewers[Desk])
    BY DEF DeskInv, MoneyInv, Earned
  <2> QED
    BY <2>1 DEF DeskInv, KeysInv, Serving
<1> QED
  BY <1>1, DeskInvariant, PTL

(***************************************************************************)
(* When the review page says that the review is confirmed, it is logged on *)
(* the chain with the verdict chosen (handleSubmit, startPolling).         *)
(***************************************************************************)
THEOREM ConfirmedTrue == DeskSpec => []ConfirmedIsOnChain
<1>1. DeskInv => ConfirmedIsOnChain
  BY DEF DeskInv
<1> QED
  BY <1>1, DeskInvariant, PTL

(***************************************************************************)
(* Block numbers place every report under the version it was written about *)
(* (GetOpenReview): a revision is the first thing logged in its block.     *)
(***************************************************************************)
THEOREM ReportsPlaced == DeskSpec => []ReportsUnderTheirVersion
<1>1. DeskInv => ReportsUnderTheirVersion
  BY DEF DeskInv, HistoryInv
<1> QED
  BY <1>1, DeskInvariant, PTL

(***************************************************************************)
(* What the earnings page reports withdrawn has left the session, and adds *)
(* up to no more than was earned and is gone, except for a session that    *)
(* had two runs at once (withdrawFromSession, handleWithdraw).             *)
(***************************************************************************)
THEOREM WithdrawnMoved == DeskSpec => []WithdrawnIsMoved
<1>1. DeskInv => WithdrawnIsMoved
  BY DEF DeskInv, MoneyInv
<1> QED
  BY <1>1, DeskInvariant, PTL

(***************************************************************************)
(* The assignments page asks a panel member for a review exactly while the *)
(* contract would take one from the key the page finds.                    *)
(***************************************************************************)
THEOREM AssignmentsTrue == DeskSpec => []AssignmentsTellTheRound
<1>1. DeskInv => AssignmentsTellTheRound
  <2> SUFFICES ASSUME DeskInv, bound = 1,
                      NEW t \in Range(reviewers[Desk]) \cap Mine, NEW s \in Held
               PROVE  NeedsReview(s) <=> MayReview(s)
    BY DEF AssignmentsTellTheRound, ToReview
  <2>1. t \in Held
    BY DEF DeskInv, KeysInv, Serving
  <2>2. sessions[2] = NoSession /\ DOMAIN Main = {1, 2}
    BY DeskAssumption DEF DeskInv, KeysInv
  <2>3. s = t
    BY <2>1, <2>2 DEF Held
  <2> QED
    BY <2>3 DEF NeedsReview, MayReview
<1> QED
  BY <1>1, DeskInvariant, PTL

(***************************************************************************)
(* The marks shown for the latest version.  The panel and the voters are   *)
(* read from the log; a verdict is looked up by the reviewer's key alone,  *)
(* which is enough because a key serves in one round.                      *)
(***************************************************************************)
LEMMA MarksAreVotes ==
  ASSUME DeskInv, version[Desk] # 0
  PROVE  /\ Invited(LatestVersion) = Range(reviewers[Desk])
         /\ Reported(LatestVersion) = VotersIn(Desk)
         /\ \A v \in Verdict :
              Marked(LatestVersion, v)
                     = {e.reviewer : e \in VotesIn(Desk, v)}
<1>1. /\ LatestVersion = version[Desk]
      /\ \A e \in log : VersionOf(e.block) = e.round
  BY DEF DeskInv, HistoryInv, ReportsUnderTheirVersion
<1>2. Invited(LatestVersion) = Range(reviewers[Desk])
  BY <1>1 DEF DeskInv, HistoryInv, Invited, LoggedNow
<1>3. Reported(LatestVersion) = VotersIn(Desk)
  BY <1>1 DEF DeskInv, HistoryInv, Reported, Reviews, LoggedNow
<1>4. VotersIn(Desk) \subseteq Range(reviewers[Desk])
  BY DeskId DEF DeskInv, ChainInv, RoundsInv, RoundInv, Tallied
<1>5. \A e \in reviewEvents : e.reviewer \in Range(reviewers[Desk]) =>
        e.msId = Desk /\ e.version = version[Desk]
  BY DEF DeskInv, FreshInv, OfThisRound, Serving
<1>6. ASSUME NEW v \in Verdict
      PROVE  Marked(LatestVersion, v) = {e.reviewer : e \in VotesIn(Desk, v)}
  <2>1. ASSUME NEW a \in Marked(LatestVersion, v)
        PROVE  \E e \in VotesIn(Desk, v) : e.reviewer = a
    <3>1. PICK e \in reviewEvents : e.reviewer = a /\ e.verdict = v
      BY <2>1 DEF Marked, Report, Verdicts, Verdict
    <3>2. a \in Range(reviewers[Desk])
      BY <1>2, <2>1 DEF Marked
    <3> QED
      BY <1>5, <3>1, <3>2 DEF VotesIn
  <2>2. ASSUME NEW e \in VotesIn(Desk, v)
        PROVE  e.reviewer \in Marked(LatestVersion, v)
    <3>1. e \in reviewEvents /\ e.verdict = v
      BY DEF VotesIn
    <3>2. e.reviewer \in VotersIn(Desk)
      BY DEF VotesIn, VotersIn
    <3>3. v \in Verdicts(e.reviewer)
      BY <3>1 DEF Verdicts
    <3> QED
      BY <1>2, <1>3, <1>4, <3>2, <3>3 DEF Marked, Report
  <2> QED
    BY <2>1, <2>2
<1> QED
  BY <1>2, <1>3, <1>6

LEMMA OneMarkPerVote ==
  ASSUME ChainInv, NEW v
  PROVE  Cardinality({e.reviewer : e \in VotesIn(Desk, v)})
           = Cardinality(VotesIn(Desk, v))
<1> DEFINE votes == VotesIn(Desk, v)
           marks == {e.reviewer : e \in votes}
           mark == [e \in votes |-> e.reviewer]
<1>1. IsFiniteSet(votes)
  BY FS_Subset DEF VotesIn, ChainInv, RoundsInv, EventInv
<1>2. mark \in Surjection(votes, marks)
  BY DEF Surjection
<1>3. mark \in Injection(votes, marks)
  <2>1. ASSUME NEW d \in votes, NEW e \in votes, d.reviewer = e.reviewer
        PROVE  d = e
    <3>1. d \in ReviewEvent /\ e \in ReviewEvent
      BY DEF VotesIn, ChainInv, TypeOK
    <3>2. d.msId = e.msId /\ d.version = e.version /\ d.verdict = e.verdict
      BY DEF VotesIn
    <3> QED
      BY <2>1, <3>1, <3>2 DEF ReviewEvent
  <2>2. \A e \in votes : mark[e] = e.reviewer
    OBVIOUS
  <2>3. mark \in [votes -> marks]
    OBVIOUS
  <2> QED
    BY <2>1, <2>2, <2>3 DEF Injection, IsInjective
<1> QED
  BY <1>1, <1>2, <1>3, FS_Surjection

(* A voter has one mark, and so no two verdicts have more than half.       *)
LEMMA OneVerdictEach ==
  ASSUME DeskInv, NEW a \in VotersIn(Desk)
  PROVE  \E v \in Verdict : Verdicts(a) = {v}
<1>1. PICK e \in reviewEvents : e.reviewer = a
  BY DEF VotersIn
<1>2. e.verdict \in Verdict
  BY <1>1 DEF DeskInv, ChainInv, TypeOK, ReviewEvent
<1>3. \A d \in reviewEvents : d.reviewer = a => d = e
  BY <1>1 DEF DeskInv, FreshInv
<1>4. Verdicts(a) = {e.verdict}
  BY <1>1, <1>3 DEF Verdicts
<1> QED
  BY <1>2, <1>4

LEMMA OneMajority ==
  ASSUME DeskInv, Majority(Desk, "ACCEPT"), Majority(Desk, "REJECT")
  PROVE  FALSE
<1> DEFINE marks(v) == {e.reviewer : e \in VotesIn(Desk, v)}
           panel == Range(reviewers[Desk])
<1>1. IsFiniteSet(panel) /\ Cardinality(panel) = Len(reviewers[Desk])
      /\ Len(reviewers[Desk]) \in Nat
  BY DeskId, PanelSize DEF DeskInv, ChainInv, TypeOK, RoundsInv, RoundInv
<1>2. marks("ACCEPT") \subseteq panel /\ marks("REJECT") \subseteq panel
  <2>1. VotersIn(Desk) \subseteq panel
    BY DeskId DEF DeskInv, ChainInv, RoundsInv, RoundInv, Tallied
  <2> QED
    BY <2>1 DEF VotesIn, VotersIn
<1>3. /\ 2 * Cardinality(marks("ACCEPT")) > Cardinality(panel)
      /\ 2 * Cardinality(marks("REJECT")) > Cardinality(panel)
  BY <1>1, OneMarkPerVote DEF Majority, DeskInv
<1>4. /\ Cardinality(marks("ACCEPT")) \in Nat
      /\ Cardinality(marks("REJECT")) \in Nat
  BY <1>1, <1>2, FS_Subset, FS_CardinalityType
<1>5. Cardinality(marks("ACCEPT")) + Cardinality(marks("REJECT"))
        > Cardinality(panel)
  BY <1>1, <1>3, <1>4
<1>6. marks("ACCEPT") \cap marks("REJECT") # {}
  BY <1>1, <1>2, <1>5, FS_MajoritiesIntersect
<1>7. PICK d \in VotesIn(Desk, "ACCEPT"), e \in VotesIn(Desk, "REJECT") :
        d.reviewer = e.reviewer
  BY <1>6
<1> QED
  BY <1>7 DEF VotesIn, DeskInv, FreshInv

(* Where the stepper names the reviewers' decision, all have decided.      *)
LEMMA ShownIsDecided ==
  ASSUME DeskInv,
         StepperShows(Desk) \in {"ACCEPTED", "PUBLISHED", "REVISION_REQUESTED",
                                 "PEER_REVIEW"}
  PROVE  /\ PanelComplete(Desk)
         /\ Majority(Desk, "ACCEPT")
              <=> StepperShows(Desk) \in {"ACCEPTED", "PUBLISHED"}
         /\ Majority(Desk, "REJECT") <=> StepperShows(Desk) = "PEER_REVIEW"
<1>1. Decided(Desk) /\ Tallied(Desk)
  BY DeskId DEF DeskInv, ChainInv, RoundsInv, RoundInv
<1>2. CASE status[Desk] = "REJECTED"
  <2>1. StepperShows(Desk) = "PEER_REVIEW" /\ reviewCount[Desk] > 0
    BY <1>2 DEF StepperShows, RejectionReason
  <2>2. VotersIn(Desk) # {}
    BY <1>1, <2>1, FS_EmptySet DEF Tallied
  <2>3. PanelComplete(Desk) /\ Majority(Desk, "REJECT")
    BY <1>1, <1>2, <2>2 DEF Decided
  <2> QED
    BY <2>1, <2>3, OneMajority
<1>3. CASE status[Desk] # "REJECTED"
  <2>1. StepperShows(Desk) = status[Desk] /\ status[Desk] # "PEER_REVIEW"
    BY <1>3, DeskId DEF StepperShows, DeskInv, ChainInv, TypeOK, Status
  <2> QED
    BY <1>1, <2>1, OneMajority DEF Decided
<1> QED
  BY <1>2, <1>3

LEMMA MarksAccount ==
  ASSUME DeskInv PROVE ShownMarksDecide
<1> SUFFICES ASSUME StepperShows(Desk) \in {"ACCEPTED", "PUBLISHED",
                                            "REVISION_REQUESTED", "PEER_REVIEW"}
             PROVE  ShownMarksDecide
  BY DEF ShownMarksDecide
<1>1. status[Desk] # "SUBMITTED"
  BY DEF StepperShows
<1>2. version[Desk] # 0
  BY <1>1 DEF DeskInv, Numbered
<1>3. PanelComplete(Desk)
  BY ShownIsDecided
<1>4. /\ Invited(LatestVersion) = Range(reviewers[Desk])
      /\ Reported(LatestVersion) = Invited(LatestVersion)
  BY <1>2, <1>3, MarksAreVotes DEF PanelComplete
<1>5. Invited(LatestVersion) # {}
  <2>1. reviewers[Desk] # <<>> /\ reviewers[Desk] \in Seq(Address)
    BY <1>3, DeskId DEF PanelComplete, DeskInv, ChainInv, TypeOK
  <2>2. Len(reviewers[Desk]) \in Nat /\ Len(reviewers[Desk]) # 0
    BY <2>1, EmptySeq, LenProperties
  <2>3. 1 \in DOMAIN reviewers[Desk]
    BY <2>1, <2>2, LenProperties
  <2> QED
    BY <1>4, <2>3 DEF Range
<1>6. \A a \in Invited(LatestVersion) :
        \E v \in Verdict : Report(LatestVersion, a) = {v}
  BY <1>2, <1>4, MarksAreVotes, OneVerdictEach DEF Report
<1>7. \A v \in Verdict :
        2 * Cardinality(Marked(LatestVersion, v))
            > Cardinality(Invited(LatestVersion))
          <=> Majority(Desk, v)
  <2>1. \A v \in Verdict : Cardinality(Marked(LatestVersion, v))
                             = Cardinality(VotesIn(Desk, v))
    BY <1>2, MarksAreVotes, OneMarkPerVote DEF DeskInv
  <2>2. Cardinality(Range(reviewers[Desk])) = Len(reviewers[Desk])
    BY DeskId, PanelSize DEF DeskInv, ChainInv, TypeOK, RoundsInv, RoundInv
  <2> QED
    BY <1>4, <2>1, <2>2 DEF Majority
<1>8. "ACCEPT" \in Verdict /\ "REJECT" \in Verdict
  BY DEF Verdict
<1> QED
  BY <1>4, <1>5, <1>6, <1>7, <1>8, ShownIsDecided DEF ShownMarksDecide

(***************************************************************************)
(* Where a reader is shown a decision of the reviewers -- acceptance,      *)
(* revision, or a rejection by them -- the latest version shows one mark of*)
(* everybody invited, and their majority is the decision (the open-review  *)
(* panel and the stepper, over GetOpenReview).                             *)
(***************************************************************************)
THEOREM MarksDecide == DeskSpec => []ShownMarksDecide
<1>1. DeskInv => ShownMarksDecide
  BY MarksAccount
<1> QED
  BY <1>1, DeskInvariant, PTL
-----------------------------------------------------------------------------
(***************************************************************************)
(* A review counts in the round it was signed in (SubmitReview, relayed    *)
(* however late): the signature names no version, the key does.            *)
(***************************************************************************)
THEOREM ReviewsOfTheirRound == DeskSpec => ReviewOfItsRound
<1>1. DeskInv /\ [DeskNext]_deskVars =>
        [\A c \in mempool : c \notin mempool' /\ reviewEvents' # reviewEvents
           => \A e \in reviewEvents' \ reviewEvents :
                e.reviewer = c.session => c.round = version[Desk]]_deskVars
  <2> SUFFICES ASSUME DeskInv, [DeskNext]_deskVars, NEW c \in mempool,
                      NEW e \in reviewEvents' \ reviewEvents,
                      e.reviewer = c.session
               PROVE  c.round = version[Desk]
    OBVIOUS
  <2>1. PICK a \in Address, v \in Verdict : Votes(a, v)
    BY EventsGrow DEF DeskInv
  <2>2. e.reviewer = a
    BY <2>1 DEF Votes, VoteOf
  <2>3. c.session \in Serving
    BY <2>1, <2>2 DEF Votes, Serving
  <2> QED
    BY <2>3 DEF DeskInv, FreshInv, CallFresh, OfThisRound
<1> QED
  BY <1>1, DeskInvariant, PTL DEF DeskSpec, ReviewOfItsRound

(***************************************************************************)
(* What each rejection leaves on record.                                   *)
(***************************************************************************)
LEMMA RejectedByScore ==
  ASSUME ChainInv, NEW id \in RequestId, NEW s, AnswerPlagiarismCheck(id, s),
         status[Desk] # "REJECTED", status'[Desk] = "REJECTED"
  PROVE  status[Desk] = "CHECKING" /\ plagiarismScore'[Desk] > PLAGIARISM_THRESHOLD
<1>1. /\ status \in [ManuscriptId -> Status]
      /\ plagiarismScore \in [ManuscriptId -> Nat]
  BY DEF ChainInv, TypeOK
<1>2. PICK m \in ManuscriptId : m = plagiarismRequestToMs[id]
  BY DEF ChainInv, TypeOK, OracleTypeOK
<1>3. FulfillPlagiarism(m, s)
  BY <1>2 DEF AnswerPlagiarismCheck
<1>4. m = Desk
  BY <1>1, <1>3, DeskId DEF FulfillPlagiarism
<1> QED
  BY <1>1, <1>3, <1>4, DeskId
  DEF FulfillPlagiarism, RequireState, Exceeds, Status

LEMMA WithinUntilThen ==
  ASSUME ChainInv, status[Desk] \in {"PENDING_EDITOR", "UNDER_REVIEW"}
  PROVE  /\ plagiarismScore[Desk] <= PLAGIARISM_THRESHOLD
         /\ plagiarismScore[Desk] \in Nat /\ PLAGIARISM_THRESHOLD \in Nat
         /\ ~ (plagiarismScore[Desk] > PLAGIARISM_THRESHOLD)
<1>1. Exists(Desk)
  BY DeskId DEF ChainInv, RequestInv, StatusOnceSubmitted
<1>2. plagiarismScore[Desk] <= PLAGIARISM_THRESHOLD
  BY <1>1, DeskId DEF ChainInv, Checked, WithinThreshold
<1>3. plagiarismScore[Desk] \in Nat /\ PLAGIARISM_THRESHOLD \in Nat
  BY DeskId, RegistryAssumption DEF ChainInv, TypeOK
<1> QED
  BY <1>2, <1>3

LEMMA RejectedByEditor ==
  ASSUME ChainInv, NEW approve, NEW f, SubmitEditorReview(Desk, approve, f)
  PROVE  /\ status[Desk] = "PENDING_EDITOR"
         /\ plagiarismScore' = plagiarismScore
         /\ reviewCount'[Desk] = 0
<1>1. status[Desk] = "PENDING_EDITOR" /\ reviewers[Desk] = <<>>
  BY DeskId
  DEF SubmitEditorReview, RequireState, ChainInv, RequestInv, NoPanelYet
<1>2. hasReviewed[Desk] = {} /\ reviewCount[Desk] = Cardinality(hasReviewed[Desk])
  BY <1>1, DeskId, Lists DEF ChainInv, RoundsInv, RoundInv, Tallied
<1>3. reviewCount[Desk] = 0
  BY <1>2, FS_EmptySet
<1> QED
  BY <1>1, <1>3 DEF SubmitEditorReview, reviewVars

LEMMA RejectedByPanel ==
  ASSUME ChainInv, NEW a, NEW v, NEW n, SubmitReview(Desk, a, v, n)
  PROVE  /\ status[Desk] = "UNDER_REVIEW"
         /\ plagiarismScore' = plagiarismScore
         /\ reviewCount'[Desk] > 0
<1>1. reviewCount \in [ManuscriptId -> Nat]
  BY DEF ChainInv, TypeOK
<1> QED
  BY <1>1, DeskId DEF SubmitReview, RequireState

LEMMA RejectedByOthers ==
  ASSUME ChainInv, status[Desk] # "REJECTED", status'[Desk] = "REJECTED",
         OtherCalls
  PROVE  \/ \E id \in RequestId, s \in Score : AnswerPlagiarismCheck(id, s)
         \/ \E approve \in BOOLEAN, f \in Field :
              SubmitEditorReview(Desk, approve, f)
         \/ \E a \in Address, v \in Verdict, n \in Nonce :
              SubmitReview(Desk, a, v, n)
<1>1. ASSUME AuthorCalls PROVE FALSE
  <2>1. ASSUME NEW a, NEW c, NEW n, SubmitManuscript(a, c, n) PROVE FALSE
    <3>1. Quiet \/ Begins
      BY <2>1, SubmissionKind
    <3>2. status' = [status EXCEPT ![nextManuscriptId] = "CHECKING"]
      BY <2>1 DEF SubmitManuscript
    <3>3. status'[Desk] \in {status[Desk], "CHECKING"}
      BY <3>2, DeskId DEF ChainInv, TypeOK
    <3> QED
      BY <3>3
  <2>2. ASSUME NEW a, NEW c, NEW n, ReviseManuscript(Desk, a, c, n) PROVE FALSE
    BY <2>2, DeskId DEF ReviseManuscript, ChainInv, TypeOK
  <2>3. ASSUME NEW a, FundAuthor(a) \/ ApproveFee(a) PROVE FALSE
    BY <2>3 DEF FundAuthor, ApproveFee, tokenFrame, registryVars
  <2>4. ASSUME NEW a, PayPublicationFee(Desk, a) PROVE FALSE
    BY <2>4, DeskId DEF PayPublicationFee, ChainInv, TypeOK
  <2> QED
    BY <1>1, <2>1, <2>2, <2>3, <2>4 DEF AuthorCalls
<1> QED
  BY <1>1 DEF OtherCalls, EditorScreens, ScreeningChoice

(***************************************************************************)
(* The reason the stepper and the tracker derive from the scores and the   *)
(* counters is the step that rejected the manuscript.                      *)
(***************************************************************************)
THEOREM ReasonTrue == DeskSpec => ReasonIsTrue
<1>1. DeskInv /\ [DeskNext]_deskVars =>
        [status[Desk] # "REJECTED" /\ status'[Desk] = "REJECTED"
           => StepperShows(Desk)' =
                CASE status[Desk] = "CHECKING" -> "PLAGIARISM"
                  [] status[Desk] = "PENDING_EDITOR" -> "EDITOR"
                  [] status[Desk] = "UNDER_REVIEW" -> "PEER_REVIEW"]_deskVars
  <2> SUFFICES ASSUME DeskInv, [DeskNext]_deskVars,
                      status[Desk] # "REJECTED", status'[Desk] = "REJECTED"
               PROVE  RejectionReason(Desk)' =
                        CASE status[Desk] = "CHECKING" -> "PLAGIARISM"
                          [] status[Desk] = "PENDING_EDITOR" -> "EDITOR"
                          [] status[Desk] = "UNDER_REVIEW" -> "PEER_REVIEW"
    BY DEF StepperShows
  <2>1. ChainInv /\ DeskTyped
    BY DEF DeskInv
  <2>2. Calls
    <3>1. Withdrawals \/ OffChain \/ UNCHANGED deskVars => UNCHANGED registryVars
      BY StepKinds
      DEF Withdrawals, Withdrawn, LateTransfer, Moved, deskVars, chainVars
    <3> QED
      BY <3>1, StepKinds DEF registryVars
  <2>3. ~ AnswerSelection
    BY <2>1, SelectionKind DEF Draws
  <2>4. ASSUME NEW c \in mempool, MineReview(c)
        PROVE  \E a \in Address, v \in Verdict, n \in Nonce :
                 SubmitReview(Desk, a, v, n)
    <3>1. c.session \in Address /\ c.verdict \in Verdict /\ c.nonce \in Nonce
      BY <2>1, DeskAssumption DEF DeskTyped, Call
    <3> QED
      BY <2>4, <3>1 DEF MineReview
  <2>5. \/ \E id \in RequestId, s \in Score : AnswerPlagiarismCheck(id, s)
        \/ \E approve \in BOOLEAN, f \in Field :
             SubmitEditorReview(Desk, approve, f)
        \/ \E a \in Address, v \in Verdict, n \in Nonce :
             SubmitReview(Desk, a, v, n)
    BY <2>1, <2>2, <2>3, <2>4, RejectedByOthers DEF Calls, OthersAct
  <2>6. ASSUME NEW id \in RequestId, NEW s \in Score, AnswerPlagiarismCheck(id, s)
        PROVE  status[Desk] = "CHECKING" /\ RejectionReason(Desk)' = "PLAGIARISM"
    BY <2>1, <2>6, RejectedByScore DEF RejectionReason, Desk
  <2>7. ASSUME NEW approve, NEW f, SubmitEditorReview(Desk, approve, f)
        PROVE  status[Desk] = "PENDING_EDITOR" /\ RejectionReason(Desk)' = "EDITOR"
    BY <2>1, <2>7, RejectedByEditor, WithinUntilThen DEF RejectionReason, Desk
  <2>8. ASSUME NEW a, NEW v, NEW n, SubmitReview(Desk, a, v, n)
        PROVE  status[Desk] = "UNDER_REVIEW"
               /\ RejectionReason(Desk)' = "PEER_REVIEW"
    BY <2>1, <2>8, RejectedByPanel, WithinUntilThen DEF RejectionReason, Desk
  <2> QED
    BY <2>5, <2>6, <2>7, <2>8
<1> QED
  BY <1>1, DeskInvariant, PTL DEF DeskSpec, ReasonIsTrue
=============================================================================
