----------------------------- MODULE ReviewDesk -----------------------------
(***************************************************************************)
(* A reviewer's browser, the backend's session table and relayer, and the  *)
(* readers that rebuild the review history from logs, on top of the        *)
(* contracts of PublicationRegistry.                                       *)
(*                                                                         *)
(* One reviewer account is followed: its sessions, its review page for the *)
(* manuscript Desk and its earnings page.  The other panel members call    *)
(* the contract directly.  A block is told apart from the next one because *)
(* the history reader counts blocks; a read sees the block being filled.   *)
(***************************************************************************)
EXTENDS PublicationRegistry

CONSTANTS
  Mine,          \* session addresses minted for the reviewer followed here
  Main,          \* wallets the reviewer may have bound, the first one first
  MaxBlock,      \* bound: blocks told apart
  MaxReviews,    \* bound: clicks on "Submit Review"
  Withdrawal     \* bound: runs of withdrawFromSession at once

Desk == 0
NoSession == "none"

(***************************************************************************)
(* Session addresses are generated by the backend, so none of them is an   *)
(* author's; and the users drawn for a panel are distinct.                 *)
(***************************************************************************)
ASSUME DeskAssumption ==
  /\ Mine \subseteq Address \ Author
  /\ \A list \in ReviewerLists : \A s, t \in Range(list) \cap Mine : s = t
  /\ NoSession \notin Address
  /\ Main \in Seq(STRING) /\ Len(Main) = 2
  /\ MaxBlock \in Nat \ {0} /\ MaxReviews \in Nat

VARIABLES
  block,        \* number of the block being filled
  settled,      \* status and version of Desk in the block before
  log,          \* ReviewersAssigned, ReviewSubmitted, ManuscriptRevised
  bound,        \* index in Main of the wallet bound to the account
  sessions,     \* table reviewer_sessions: main wallet -> session, for Desk
  minted,       \* session addresses generated so far
  answering,    \* panel the oracle operator has minted and not yet sent
  page,         \* review page: closed, form as loaded, or a review under way
  clicks,       \* reviews submitted from it so far
  mempool,      \* relayed reviews not yet mined
  withdrawals,  \* runs of handleWithdraw
  offered,      \* sessions whose Withdraw button is enabled
  unconfirmed,  \* transfers sent, not mined, and no longer waited for
  told,         \* history: tokens the page said it moved from each session
  overlapped    \* history: sessions that had two withdrawals at once

tableVars == <<bound, sessions, minted, answering>>
pageVars == <<page, clicks, mempool>>
earningVars == <<withdrawals, offered, unconfirmed, told, overlapped>>
chainVars == <<registryVars, oracleVars, tokenVars, doiTokens, reviewEvents>>
deskVars == <<chainVars, block, settled, log, tableVars, pageVars,
              earningVars>>

Closed == [at |-> "closed"]

NoWithdrawal == [at |-> "idle", session |-> NoSession, amount |-> 0,
                 here |-> FALSE]

DeskInit ==
  /\ Init
  /\ block = 1 /\ settled = <<"SUBMITTED", 0>> /\ log = {}
  /\ bound = 1 /\ sessions = [i \in DOMAIN Main |-> NoSession]
  /\ minted = {} /\ answering = <<>>
  /\ page = Closed /\ clicks = 0 /\ mempool = {}
  /\ withdrawals = [w \in Withdrawal |-> NoWithdrawal]
  /\ offered = {} /\ unconfirmed = {} /\ told = [s \in Mine |-> 0]
  /\ overlapped = {}
-----------------------------------------------------------------------------
(* What a transaction logs about Desk, with the round it happened in.      *)
Entry(name, who) ==
  [name |-> name, block |-> block, reviewer |-> who, round |-> version'[Desk]]

Logs ==
  log' = log
    \cup {Entry("review", e.reviewer) : e \in reviewEvents' \ reviewEvents}
    \cup {Entry("assigned", a) :
            a \in Range(reviewers'[Desk]) \ Range(reviewers[Desk])}
    \cup (IF version'[Desk] > 1 /\ version'[Desk] # version[Desk]
          THEN {Entry("revised", NoSession)} ELSE {})

NewBlock ==
  /\ block < MaxBlock
  /\ block' = block + 1 /\ settled' = <<status[Desk], version[Desk]>>
  /\ UNCHANGED <<chainVars, log, tableVars, pageVars, earningVars>>

(* An author revises the version that was under revision in a mined block,
   with the nonce read there, and funds and pays from the tracker's card,
   shown for accepted manuscripts. *)
AuthorCalls ==
  \/ \E a \in Author, c \in Cid, n \in Nonce : SubmitManuscript(a, c, n)
  \/ \E a \in Author, c \in Cid, n \in Nonce :
       /\ settled = <<"REVISION_REQUESTED", version[Desk]>>
       /\ ReviseManuscript(Desk, a, c, n)
  \/ \E a \in Author :
       /\ status[Desk] = "ACCEPTED"
       /\ FundAuthor(a) \/ ApproveFee(a) \/ PayPublicationFee(Desk, a)

(* The card of a manuscript to screen: "Approve" wants a field chosen,
   "Desk-Reject" sends whichever is. *)
ScreeningChoice == [approve : BOOLEAN, field : Field]

EditorScreens ==
  \E choice \in ScreeningChoice :
    SubmitEditorReview(Desk, choice.approve, choice.field)

OtherCalls ==
  \/ AuthorCalls \/ EditorScreens
  \/ \E id \in RequestId, s \in Score : AnswerPlagiarismCheck(id, s)
  \/ \E a \in Address \ Mine, v \in Verdict, n \in Nonce :
       SubmitReview(Desk, a, v, n)

OthersAct ==
  /\ OtherCalls /\ Logs
  /\ UNCHANGED <<block, settled, tableVars, pageVars, earningVars>>
-----------------------------------------------------------------------------
(* GetReviewerSessionsForUser: rows of the account or of its wallet. *)
Held == {sessions[i] : i \in DOMAIN Main} \ {NoSession}

(* Binding another wallet (Accounts: a second click before the reload).  Only
   minting reads which wallet is bound, so it is placed right before that.
   Bound: a change before the first session is like none. *)
Rebind ==
  /\ bound = 1 /\ Held # {}
  /\ OpenReviewerRequests(Desk) # {} /\ answering = <<>>
  /\ bound' = 2
  /\ UNCHANGED <<chainVars, block, settled, log, sessions, minted, answering,
                 pageVars, earningVars>>

(* CreateReviewerSessionsForField: a fresh key pair for every member; a row
   of the same manuscript and main wallet is replaced. *)
Fresh_Reused(list) == TRUE
Fresh(list) == Range(list) \cap minted = {}

RowsAfter_DoNothing(list) ==
  [sessions EXCEPT ![bound] =
     IF @ # NoSession \/ Range(list) \cap Mine = {} THEN @
     ELSE CHOOSE s \in Range(list) : s \in Mine]
RowsAfter(list) ==
  [sessions EXCEPT ![bound] =
     IF Range(list) \cap Mine = {} THEN @
     ELSE CHOOSE s \in Range(list) : s \in Mine]

MintSessions(list) ==
  /\ OpenReviewerRequests(Desk) # {} /\ answering = <<>>
  /\ Fresh(list)
  /\ answering' = list
  /\ minted' = minted \cup Range(list)
  /\ sessions' = RowsAfter(list)
  /\ UNCHANGED <<chainVars, block, settled, log, bound, pageVars, earningVars>>

AnswerSelection ==
  /\ answering # <<>>
  /\ \E id \in OpenReviewerRequests(Desk) :
       AnswerReviewerSelection(id, answering)
  /\ Logs
  /\ answering' = <<>>
  /\ UNCHANGED <<block, settled, bound, sessions, minted, pageVars,
                 earningVars>>

-----------------------------------------------------------------------------
(* The review page.                                                        *)
Reviews == {e \in log : e.name = "review"}

(* fetchMs.  Bound: the reviewer has one tab, and does not come back from
   the earnings page while something is offered or under way there. *)
LoadPage ==
  /\ page.at \in {"closed", "form"} /\ Held # {}
  /\ offered = {} /\ \A w \in Withdrawal : withdrawals[w] = NoWithdrawal
  /\ page' = [at |-> "form", status |-> status[Desk],
              count |-> Cardinality(Reviews)]
  /\ page' # page
  /\ UNCHANGED <<chainVars, block, settled, log, tableVars, clicks, mempool,
                 earningVars>>

(* A page left at its form is one that is not used until it is reloaded. *)
LeavePage ==
  /\ page.at \notin {"closed", "form"} /\ page' = Closed
  /\ UNCHANGED <<chainVars, block, settled, log, tableVars, clicks, mempool,
                 earningVars>>

(* The form's button and the texts shown after it was used. *)
Submittable == page.at = "form" /\ page.status = "UNDER_REVIEW"
Confirmed == page.at \in {"pending", "indexed"}

(* handleSubmit, up to the session it signs with: find takes the first row
   for the manuscript, and rows of one manuscript come in no particular
   order.  round is what the chain was at then. *)
ClickSubmit ==
  /\ Submittable
  /\ clicks < MaxReviews
  /\ clicks' = clicks + 1
  /\ \E s \in Held, v \in Verdict :
       page' = [at |-> "signing", expected |-> page.count + 1,
                call |-> [session |-> s, verdict |-> v, nonce |-> 0,
                          round |-> version[Desk]]]
  /\ UNCHANGED <<chainVars, block, settled, log, tableVars, mempool,
                 earningVars>>

(* getNonce, signTypedDataWith, and the post *)
SignReview ==
  /\ page.at = "signing" /\ nonces[page.call.session] \in Nonce
  /\ page' = [page EXCEPT !.at = "posting",
                          !.call.nonce = nonces[page.call.session]]
  /\ UNCHANGED <<chainVars, block, settled, log, tableVars, clicks, mempool,
                 earningVars>>

(* sendTx: estimate, broadcast, wait for the receipt. *)
MayReview(s) == /\ status[Desk] = "UNDER_REVIEW"
                /\ s \in Range(reviewers[Desk]) \ hasReviewed[Desk]
Accepted(c) == nonces[c.session] = c.nonce /\ MayReview(c.session)

Posted_Unconfirmed == [page EXCEPT !.at = "pending"]
Posted == [page EXCEPT !.at = "waiting"]

Relay ==
  /\ page.at = "posting" /\ Accepted(page.call)
  /\ mempool' = mempool \cup {page.call}
  /\ page' = Posted
  /\ UNCHANGED <<chainVars, block, settled, log, tableVars, clicks,
                 earningVars>>

Awaited(c) == page.at = "waiting" /\ page.call = c

(* The call is executed, and the answer starts the polling. *)
MineReview(c) ==
  /\ SubmitReview(Desk, c.session, c.verdict, c.nonce) /\ Logs
  /\ mempool' = mempool \ {c}
  /\ page' = IF Awaited(c) THEN [page EXCEPT !.at = "pending"] ELSE page
  /\ UNCHANGED <<block, settled, tableVars, clicks, earningVars>>

(* The form again, with what the page knew of the manuscript. *)
BackToForm ==
  [at |-> "form", status |-> "UNDER_REVIEW", count |-> page.expected - 1]

(* It reverts, or another relay with its account nonce replaces it. *)
DropReview(c) ==
  /\ mempool' = mempool \ {c}
  /\ page' = IF Awaited(c) /\ ~ Accepted(c) THEN BackToForm ELSE page
  /\ UNCHANGED <<chainVars, block, settled, log, tableVars, clicks,
                 earningVars>>

(* Any failure on the way, and the two-minute limit on waiting. *)
SubmitFails ==
  /\ page.at \in {"signing", "posting", "waiting"}
  /\ page' = BackToForm
  /\ UNCHANGED <<chainVars, block, settled, log, tableVars, clicks, mempool,
                 earningVars>>

(* startPolling: every three seconds until the count is reached. *)
Poll ==
  /\ page.at = "pending" /\ Cardinality(Reviews) >= page.expected
  /\ page' = [page EXCEPT !.at = "indexed"]
  /\ UNCHANGED <<chainVars, block, settled, log, tableVars, clicks, mempool,
                 earningVars>>
-----------------------------------------------------------------------------
(* The earnings page: withdrawFromSession reads the balance, tops up gas,  *)
(* and transfers.  The button is disabled from the click on, in the page   *)
(* that was clicked: here tells whether a run still belongs to the page.   *)
withdrawFrame == <<block, settled, log, tableVars, pageVars>>
Done(w) == withdrawals' = [withdrawals EXCEPT ![w] = NoWithdrawal]

(* Moves the tokens, or reverts when they have been moved already. *)
Moved(session, amount) ==
  /\ IF balance[session] >= amount
     THEN Transfer(session, Funder, amount) ELSE UNCHANGED tokenVars
  /\ UNCHANGED <<registryVars, oracleVars, doiTokens, reviewEvents>>

(* The page is mounted, possibly again: a balance that cannot be read counts
   as none, and runs begun before go on without disabling a button.  Bound:
   only while there are earnings. *)
LoadEarnings ==
  /\ \E s \in Held : balance[s] > 0
  /\ offered' \in SUBSET {s \in Held : balance[s] > 0}
  /\ withdrawals' = [w \in Withdrawal |->
                       [withdrawals[w] EXCEPT !.here = FALSE]]
  /\ page' = Closed
  /\ UNCHANGED <<chainVars, block, settled, log, tableVars, clicks, mempool,
                 unconfirmed, told, overlapped>>

(* The session's row: "Withdraw", disabled without a balance and while a run
   begun in this page is under way. *)
WithdrawEnabled(s) == s \in offered

ClickWithdraw(w, s) ==
  /\ WithdrawEnabled(s) /\ withdrawals[w].at = "idle"
  /\ balance[s] > 0
  /\ withdrawals' = [withdrawals EXCEPT
       ![w] = [at |-> "gas", session |-> s, amount |-> balance[s],
               here |-> TRUE]]
  /\ offered' = offered \ {s}
  /\ overlapped' = overlapped \cup
                     ({s} \cap {withdrawals[u].session : u \in Withdrawal})
  /\ UNCHANGED <<chainVars, withdrawFrame, unconfirmed, told>>

(* Gas is there; the burner's transfer passes its estimate and is sent. *)
SendTransfer_NotAwaited(w) ==
  LET d == withdrawals[w]
  IN  /\ d.at = "gas" /\ balance[d.session] >= d.amount
      /\ unconfirmed' = unconfirmed \cup
           {[session |-> d.session, amount |-> d.amount]}
      /\ told' = [told EXCEPT ![d.session] = @ + d.amount]
      /\ Done(w)
      /\ UNCHANGED <<chainVars, withdrawFrame, offered, overlapped>>
SendTransfer(w) ==
  LET d == withdrawals[w]
  IN  /\ d.at = "gas" /\ balance[d.session] >= d.amount
      /\ withdrawals' = [withdrawals EXCEPT ![w].at = "sent"]
      /\ UNCHANGED <<chainVars, withdrawFrame, offered, unconfirmed, told,
                     overlapped>>

(* The transfer is mined; its receipt is awaited but not looked at, so one
   that reverts is reported like one that succeeds, on whatever page. *)
Withdrawn(w) ==
  LET d == withdrawals[w]
  IN  /\ d.at = "sent"
      /\ Moved(d.session, d.amount)
      /\ told' = [told EXCEPT ![d.session] = @ + d.amount]
      /\ Done(w)
      /\ UNCHANGED <<withdrawFrame, offered, unconfirmed, overlapped>>

(* Cancelled in MetaMask, failed, or no receipt in time: the button of its
   page is back, and a transfer that was sent may still be mined. *)
WithdrawFails(w) ==
  LET d == withdrawals[w]
  IN  /\ d.at # "idle"
      /\ Done(w)
      /\ offered' = offered \cup (IF d.here THEN {d.session} ELSE {})
      /\ unconfirmed' = unconfirmed \cup
           (IF d.at = "sent"
            THEN {[session |-> d.session, amount |-> d.amount]} ELSE {})
      /\ UNCHANGED <<chainVars, withdrawFrame, told, overlapped>>

LateTransfer(t) ==
  /\ Moved(t.session, t.amount)
  /\ unconfirmed' = unconfirmed \ {t}
  /\ UNCHANGED <<withdrawFrame, withdrawals, offered, told, overlapped>>
-----------------------------------------------------------------------------
DeskNext ==
  \/ NewBlock \/ OthersAct \/ Rebind
  \/ \E list \in ReviewerLists : MintSessions(list)
  \/ AnswerSelection
  \/ LoadPage \/ LeavePage \/ ClickSubmit \/ SignReview
  \/ Relay \/ SubmitFails \/ Poll
  \/ \E c \in mempool : MineReview(c) \/ DropReview(c)
  \/ LoadEarnings
  \/ \E w \in Withdrawal : \/ \E s \in offered : ClickWithdraw(w, s)
                           \/ SendTransfer(w) \/ Withdrawn(w)
                           \/ WithdrawFails(w)
  \/ \E t \in unconfirmed : LateTransfer(t)

DeskSpec == DeskInit /\ [][DeskNext]_deskVars
-----------------------------------------------------------------------------
(* The history reader (GetOpenReview, the article handler) and what the    *)
(* open-review panel and the stepper make of it.                           *)
VersionOf_Strict(b) ==
  1 + Cardinality({e \in log : e.name = "revised" /\ e.block < b})
VersionOf(b) ==
  1 + Cardinality({e \in log : e.name = "revised" /\ e.block <= b})

LatestVersion == 1 + Cardinality({e \in log : e.name = "revised"})

(* Assignments page: the filter of "Needs your review", and the rows of the
   manuscript that are listed there with a "Review" link. *)
NeedsReview(s) == status[Desk] = "UNDER_REVIEW" /\ s \notin hasReviewed[Desk]
ToReview == {s \in Held : NeedsReview(s)}

(* Report of reviewer a under version v: its verdict, or still pending. *)
Invited(v) ==
  {e.reviewer : e \in {f \in log : f.name = "assigned"
                                   /\ VersionOf(f.block) = v}}
Reported(v) ==
  {e.reviewer : e \in {f \in Reviews : VersionOf(f.block) = v}}
Verdicts(a) == {e.verdict : e \in {f \in reviewEvents : f.reviewer = a}}
Report(v, a) == IF a \in Reported(v) THEN Verdicts(a) ELSE {"pending"}
Marked(v, verdict) == {a \in Invited(v) : verdict \in Report(v, a)}

RejectionReason_AtThreshold(m) ==
  IF plagiarismScore[m] >= PLAGIARISM_THRESHOLD THEN "PLAGIARISM"
  ELSE IF reviewCount[m] > 0 THEN "PEER_REVIEW" ELSE "EDITOR"
RejectionReason(m) ==
  IF plagiarismScore[m] > PLAGIARISM_THRESHOLD THEN "PLAGIARISM"
  ELSE IF reviewCount[m] > 0 THEN "PEER_REVIEW" ELSE "EDITOR"

(* The stepper names a rejected manuscript's reason, any other's status. *)
StepperShows(m) ==
  IF status[m] = "REJECTED" THEN RejectionReason(m) ELSE status[m]
-----------------------------------------------------------------------------
(* A review counts in the round it was signed in, however late the relay
   gets it mined: the signature names no version, the one-time key does. *)
ReviewOfItsRound ==
  [][\A c \in mempool : c \notin mempool' /\ reviewEvents' # reviewEvents
       => \A e \in reviewEvents' \ reviewEvents :
            e.reviewer = c.session => c.round = version[Desk]]_deskVars

(* Review page: "Your review is confirmed on-chain" and "Review indexed" are
   true, even when other reviews made the count. *)
ConfirmedIsOnChain ==
  Confirmed =>
    \E e \in reviewEvents : /\ e.reviewer = page.call.session
                            /\ e.verdict = page.call.verdict

(* The reviewer holds the key of every session of theirs that may still
   vote, or holds tokens: a panel never waits for a key that is lost, and
   earnings can always be withdrawn. *)
KeysOfPanelHeld ==
  \A s \in Mine : s \in Range(reviewers[Desk]) \/ balance[s] > 0 => s \in Held

(* Assignments page: "Needs your review".  A panel member who has not bound
   another wallet is shown the manuscript there exactly while the contract
   would take a review signed with the key the page finds.  (Somebody who
   sat on an earlier panel only is shown it too, in vain: their flag was
   cleared, their row stays.) *)
AssignmentsTellTheRound ==
  bound = 1 /\ answering = <<>> /\ Range(reviewers[Desk]) \cap Mine # {} =>
    ToReview = {s \in Held : MayReview(s)}

(* Open peer review: the version a report is listed under is the round it
   was written in, though it is computed from block numbers. *)
ReportsUnderTheirVersion ==
  /\ LatestVersion = IF version[Desk] = 0 THEN 1 ELSE version[Desk]
  /\ \A e \in log : VersionOf(e.block) = e.round

(* Where the stepper shows what reviewers decided, the marks shown for the
   latest version account for it: everybody invited has reported, once, and
   more than half of the marks accept, more than half reject, or neither. *)
ShownMarksDecide ==
  LET latest == LatestVersion
      shown == StepperShows(Desk)
      most(v) == 2 * Cardinality(Marked(latest, v)) > Cardinality(Invited(latest))
  IN  shown \in {"ACCEPTED", "PUBLISHED", "REVISION_REQUESTED", "PEER_REVIEW"} =>
        /\ Invited(latest) # {} /\ Reported(latest) = Invited(latest)
        /\ \A a \in Invited(latest) : \E v \in Verdict : Report(latest, a) = {v}
        /\ most("ACCEPT") <=> shown \in {"ACCEPTED", "PUBLISHED"}
        /\ most("REJECT") <=> shown = "PEER_REVIEW"

(* Stepper and tracker: the reason shown for a rejection is the step that
   rejected it, although it is derived from scores and counters later. *)
ReasonIsTrue ==
  [][status[Desk] # "REJECTED" /\ status'[Desk] = "REJECTED"
     => StepperShows(Desk)' =
          CASE status[Desk] = "CHECKING" -> "PLAGIARISM"
            [] status[Desk] = "PENDING_EDITOR" -> "EDITOR"
            [] status[Desk] = "UNDER_REVIEW" -> "PEER_REVIEW"]_deskVars

Earned(s) ==
  IF status[Desk] = "PUBLISHED" /\ s \in Range(reviewers[Desk])
  THEN REVIEWER_INCENTIVE ELSE 0

(* Earnings page: what it reports withdrawn was earned and has left the
   session, even when the transfer of the run that reports it reverted; and
   of no session it reports more than was earned and is no longer held,
   unless the page was opened again and a second run begun during the first. *)
WithdrawnIsMoved ==
  \A s \in Mine :
    /\ told[s] > 0 => Earned(s) > 0 /\ balance[s] = 0
    /\ s \notin overlapped => told[s] + balance[s] <= Earned(s)
=============================================================================
