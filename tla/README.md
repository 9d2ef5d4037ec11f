# Verification of the publication system

TLA+ modules, model-checking configurations and machine-checked proofs for the
publication system of this repository: smart contracts that carry a manuscript
from submission to a DOI (`smartcontract/`), an off-chain oracle operator
(`oracle/`), a relaying backend (`backend-go/`) and a web client (`frontend/`).

`PROJECT.json` lists the components, the runs, the lines every definition
translates, the hazards of the code and the theorems.

## 1. The system

### Components, their state and their operations

| component | state | operations that change it |
|---|---|---|
| **PublicationRegistry.sol** | `nextManuscriptId`; per manuscript: author, cid, status, version, plagiarism score, field, reviewer list, four counters; `hasReviewed`, `reviewHashes`, `nonces`, `_verifiedReviewerFields` | `submitManuscript`, `submitEditorReview`, `submitReview`, `reviseManuscript` (relayed by the operator, the user recovered from an EIP-712 signature), `fulfillPlagiarism`, `fulfillRandomReviewers` (ORACLE_ROLE), `payPublicationFee` (the author's own wallet), `verifyReviewerFields`, roles |
| **ReviewOracle.sol** | two request counters, request → manuscript, request → fulfilled | `requestPlagiarismCheck`, `requestRandomReviewers` (the registry), `fulfillPlagiarismCheck`, `fulfillReviewerSelection` (the oracle operator) |
| **JournalToken.sol** | ERC20 balances and allowances | transfer, approve, transferFrom, mint |
| **DOIToken.sol** | tokens minted | `mint` (the registry), `postComment` (event only) |
| **reassign-reviewers.js** | none of its own | grants itself ORACLE_ROLE, calls `fulfillRandomReviewers`, revokes it |
| **oracle operator** (`oracle/src`) | in-flight sets, running handlers, undelivered events | event listeners, `handlePlagiarismRequest`, `handleReviewerSelection`, shutdown |
| **session wallets** (`session_wallet.go`, `session.go`) | table `reviewer_sessions`: (manuscript, main wallet) → session key | mint on request of the operator (upsert), read by the reviewer to sign |
| **relayer** (`ethereum.go`, `manuscript.go`) | the operator account's nonce at the node, transactions waited for, `submission_wallets` | `sendTx`: nonce, estimate, sign, broadcast with price bumps, wait |
| **accounts** (`usecase/user.go`, `usecase/auth.go`, `postgres_user.go`) | table `users` | register, log in, `BindWallet`, `VerifyIdentity`, whole-row `Save` |
| **field verification, editor assignment** (`editor.go`, `verification.go`) | `reviewer_field_requests`, `users.verified_fields`, editor assignments | submit, approve (chain, then database), reject, assign |
| **author's pages** (`author/submit`, `author/revise`, `tracker/[id]`, `wallet.ts`) | submission keys in localStorage, the form under way, the manuscript shown, the pay button's label, polling | submit, revise, look up, load, `fundAndPublish`, poll |
| **reviewer's pages** (`review/[msId]`, `assignments`, `earnings`) | the page's copy of the manuscript, the review under way, withdrawals | load, sign and submit, poll, `withdrawFromSession` |
| **profile, specialization and editor pages** | what the page loaded, the one busy item | bind, verify, apply, decide |
| **read side** (`manuscript_reader.go`, `article.go`, `OpenReviewPanel`) | none: rebuilt from state and logs on every request | – |
| **articles, journals, comments; HTTP shell; other pages** | listings, single-row inserts, configuration, browser state | – |

### How they interact

* A registry transaction calls the oracle contract, the tokens and back in one
  atomic transaction; a revert of any part undoes all of it.
* The oracle contract talks to the operator by events, and the operator answers
  by transactions: between the two lie an awaited view call, an HTTP request to
  the backend that commits to its database, a broadcast and a receipt.
* Users sign; the backend relays. Only payments and withdrawals are sent by the
  users' own (session) wallets.
* The administrator's script bypasses the oracle contract.
* A page awaits several calls in a row (upload, nonce, relay; balance, transfer,
  approval, payment) and keeps what it read before. The backend waits at most two
  minutes for a receipt and then reports an error, whatever becomes of the call.
* An editor's approval goes to the contract first and to the database second.

### What is hard

1. **State split over two contracts**: a request's life and a manuscript's
   status must stay in step over any number of rounds.
2. **Rounds**: `_resetReviewState` must leave nothing that counts later, and the
   decision is taken only at *equality* of count and panel size.
3. **Shared money**: incentives are paid out of a pooled account.
4. **Asynchronous handlers**: check, await, insert; failures are logged and not
   retried; events are not replayed; the process may stop anywhere.
5. **Overwritten keys**: minting again for the same manuscript replaces the keys
   of people who may already be on the panel.
6. **Maintenance in mid-round**: the script swaps panels after votes were cast.
7. **Calls given up on**: a relay that timed out, was replaced by another with the
   same account nonce, or lost its answer may still be mined, before or after
   the user's retry.
8. **Read, then write**: a whole row is saved that was read earlier; a wallet's
   owner is looked up before the row is written; an application's predecessors
   are superseded in one statement and it is inserted in another; a decision is
   checked before the contract call and marked after it. Any two may overlap.
9. **Pages**: buttons enabled a moment too long, answers that arrive out of
   order, a backend that is behind the chain, receipts nobody looks at.
10. **History from logs**: versions are computed from block numbers, and the reason of
    a rejection from scores and counters that rounds reset.

### What makes each part correct

* *Contracts*: an open request about a manuscript exists exactly when the
  manuscript waits for it; only checked content advances; counters are the
  reviews of the current round; a round can always finish, and does if everyone
  acts; decisions are majorities of complete panels; one token per published
  manuscript; the fees left are exactly accounted for; settled manuscripts stay.
* *Operator and session wallets*: no request disappears silently, every one is
  answered or given up on, and the panel's keys are on record.
* *Script*: nobody counts twice, and finished rounds are not touched.
* *Author's pages*: the key of every manuscript on chain is kept; a call counts
  for the round it was signed in; what is shown is what was asked for, and true;
  publishing costs one fee.
* *Reviewer's pages*: a review counts in the round it was signed in and is
  confirmed only if it is on chain; keys of panels and of money are held; the
  list of tasks agrees with what the contract would take; amounts reported as
  withdrawn have left the session.
* *Accounts and verification*: a wallet has one owner, bindings and roles are not
  lost, what an editor was told is so, and what is labelled as on chain is. Each
  holds except after named overlaps and failures, which the properties name.
* *Read side*: reports stand under the version they are about, the marks shown
  explain the decision, and the reason shown is the step that rejected.

## 2. Modules

| module | what it is | code |
|---|---|---|
| `ReviewOracle` | request lists of the oracle contract | `ReviewOracle.sol` |
| `JournalToken` | balances, allowances, the token part of a payment | `JournalToken.sol`, `payPublicationFee` |
| `PublicationRegistry` | **core**: the workflow, composed with both, and its properties | `PublicationRegistry.sol`, `DOIToken.mint`, `wallet.ts` |
| `ReviewProcess` | abstract specification: rounds, one complete ballot each, a majority | – |
| `ReviewProcessRefinement` | the mapping from the registry to `ReviewProcess` | – |
| `ManuscriptLifecycle` | abstract specification: the contracts as a submission key's holder sees them | – |
| `LifecycleRefinement` | the mapping from the registry to `ManuscriptLifecycle` | – |
| `ReviewerReassignment` | the registry with the maintenance script | `reassign-reviewers.js` |
| `OracleOperator` | the registry with the operator process and the session keys | `oracle/src`, `session_wallet.go`, `session.go` |
| `AuthorClient` | `ManuscriptLifecycle` with an author's browser and the relayer | `author/submit`, `author/revise`, `tracker/[id]`, `wallet.ts`, `ethereum.go`, `manuscript.go` |
| `ReviewDesk` | the registry with a reviewer's browser, the session table, the relayer and the history readers | `review/[msId]`, `assignments`, `earnings`, `wallet.ts`, `session_wallet.go`, `manuscript_reader.go`, `article.go`, `OpenReviewPanel` |
| `Accounts` | account rows, wallet binding, field verification, the pages that offer them | `usecase/user.go`, `postgres_user.go`, `verification.go`, `editor.go`, `profile`, `specialization`, `editor` |
| `...Proofs` (8 modules) | theorems, see section 4 | – |
| `MC...` | small instances of the above | – |

The web client meets the contracts in two ways. `AuthorClient` is composed with
the abstract `ManuscriptLifecycle`, because panels and votes do not matter to an
author, and `LifecycleRefinement` shows that the contracts implement it.
`ReviewDesk` needs panels, votes and money of the real contracts and is composed with
`PublicationRegistry` itself. `Accounts` shares only `verifyReviewerFields` with
the contracts and stands alone.

### Correspondence in `PublicationRegistry`

One action is one transaction: all checks as guards, all assignments of all
contracts reached, the decision included. A call that reverts changes nothing
and is no step. Struct fields are functions of the manuscript id. Mappings stay
total with zero defaults, as in Solidity: an id that was never submitted is in
status `SUBMITTED`, and `Exists(m)` says which ids were.

* `SubmitReview` contains `_evaluateDecision`; `ReviseManuscript` contains
  `_resetReviewState` and opens the new plagiarism request;
  `AnswerPlagiarismCheck` and `AnswerReviewerSelection` are the oracle
  contract's function conjoined with the registry's callback.
* `Init` is `scripts/deploy.js`: the oracle contract, the token with its whole
  supply at the deployer, and the registry as `initialize` leaves it
  (`RegistryInit`), wired to each other. Roles are those of the deployment:
  every call comes from the holder of the role it needs.
* The four vote counters are `reviewCount` and one record entry per verdict.
  `hasReviewed[m]` is the set of addresses whose flag is set. Clearing goes
  through the *current* list, as in the code, not through `hasReviewed` itself.
* `PayFromFee` nets the calls of one payment. Every intermediate balance the code
  depends on is a guard (allowance, the author's balance, the registry's balance
  after the fee came in).
* `FundAuthor`, `ApproveFee` and `Withdraw` are the token moves of
  `fundAndPublish` and `withdrawFromSession`, each at any time. `Funder` stands
  for all main wallets together. No account mints new JRT. (`AuthorClient` and
  `ReviewDesk` model the two functions await by await.)
* `reviewEvents` is the `ReviewSubmitted` log, each entry with the version it was
  mined at. The contract does not read it; the properties compare the counters
  with it, and the readers of `ReviewDesk` use it.
* A signature is a signer and a nonce. Signing and relaying are one step here,
  and separate steps in `AuthorClient` and `ReviewDesk`.
* `DistinctReviewers` (assumption): a list the operator answers with names no
  address twice, because every entry is a key generated for that request. The
  theorem `PanelsAreMinted` shows it of the operator as modelled.
* `AddressesFinite` (assumption): an address is 20 bytes.

### Correspondence in `OracleOperator`

Steps are the code between two awaits: `Deliver` (listener and the in-flight
check), `AfterQuery` (the view's result, then the insertion), `CheckPlagiarism`
or `MintReviewerSessions` (including the backend's commit), `SendAnswer`
(estimate and broadcast), `Mine` (the node), `Confirm` (receipt or error, then
`finally`; an answer broadcast may also have been replaced by another one with the
same account nonce, because every event resets the nonce manager).
Every step that can throw has the failing alternative. The view's result is
nondeterministic unless it says "answered", because a failing view call is
ignored by the code. `dropped` is a history variable: requests whose handler
logged an error, that were in a handler when the process ended, or that were
emitted while nobody listened. The two kinds of requests have in-flight sets of
their own. Listeners read the field before the handler starts; a field that
could not be read is the failing alternative of `MintReviewerSessions`.
Reviewers vote with the key on record (`Vote`).

### Correspondence in `AuthorClient`

* **Forms.** `ClickSubmit` and `ClickRevise` start the handler, `Uploaded` ends
  its upload and stores the one-time key (`saveSessionWallet` precedes the
  nonce), `Sign` is the nonce's answer, signing and the post. `Broadcast` is
  `sendTx` up to the broadcast: its estimate refuses what would revert. Then
  the node may `Mine`, `Revert` or lose (`Replaced`) the call. `Succeed` is the
  receipt, the best-effort mapping and the page left; `Fail` is any failure or
  the two-minute limit. A call in `mempool` whose form has failed is one given
  up on.
* **Buttons.** `SubmitEnabled`, `ReviseEnabled` and `PayEnabled` are what the
  pages render: when the form or the card is there and its button is not
  disabled. `KeyInBrowser` is `getSubmissionKey`, `ShowsPublished` what badge and
  stepper say. The forms' fields are data; they are always filled in.
* **Lookup.** `EnterId` starts a request and cleans up the previous effect;
  `LookedUp` is an answer, kept only if its effect is still active.
* **Tracker.** `shown` is the page's copy of the status. `ClickPay` to
  `PaymentDone` are the awaits of `handlePayFee` and `fundAndPublish`: the
  wallet, the balance, the transfer, gas, the allowance, approval, payment.
  `payStep` is the label that disables the button. Runs go on after the page is
  left, without touching its state. `LateMined` is a transfer or payment whose
  wait ended in an error. `Poll` and `PollAnswer` are `setInterval`'s requests
  and their answers. `seen` is the status at the node the backend reads; only
  payments reach it late (`Sync`), for other steps it is up to date.
* `disturbed` and `overlapped` are history variables: two runs at once, a run on
  a page that was behind, a wait that ended without a receipt; two polls at once.

### Correspondence in `ReviewDesk`

* One reviewer account is followed; `Mine` are the session addresses minted for
  it, at most one per panel. Other members call the contract directly.
* `log` are the three events the readers scan, each with its block and, for the
  properties, the round it belongs to. `NewBlock` ends a block; within a block
  any transactions follow each other. `settled` is the status and version at the
  end of the previous block: an author revises only what an earlier block sent
  back, since a revision needs the tracker to have shown it.
* `told` is, per session, what the earnings page has reported as withdrawn.
* `MintSessions` is `CreateReviewerSessionsForField` with its upsert on
  (manuscript, main wallet); `AnswerSelection` the operator's answer with the
  same list. `Rebind` changes the wallet between rounds. `Held` are the rows
  `GetReviewerSessionsForUser` returns.
* `LoadPage`, `ClickSubmit` (the row found first, so any), `SignReview`,
  `Relay`, `MineReview`, `DropReview`, `SubmitFails`, `Poll`: the review page and
  `sendTx` as above. `page.expected` is the count the page polls for.
* `LoadEarnings` to `LateTransfer`: the earnings page with `withdrawFromSession`.
  The reviewer has one tab: going to the earnings page leaves the review page.
  What disables a button is state of the mounted page (`withdrawing`): a run
  remembers in `here` whether its page is still shown, and `LoadEarnings`, which
  may come at any time, enables the button again while such a run goes on.
  `overlapped` are the sessions that had two runs at once.
* `Submittable` and `Confirmed` are the states in which the review page renders
  its enabled form and its two confirmations, `WithdrawEnabled` the row with an
  enabled button, `EditorScreens` the editor's card of a manuscript to screen
  (a card that is out of date sends a decision the contract refuses).
* `VersionOf`, `Invited`, `Reported`, `RejectionReason` and `NeedsReview` are the
  read side's functions of state and log. `Report` and `Marked` are the
  open-review panel's cells, `ToReview` the assignments page's first section,
  `StepperShows` what `ManuscriptStepper` tells a reader.

### Correspondence in `Accounts`

* A request of a user is a `job` that runs statement by statement: `StartSave`
  is the lookup of the owner, `LoadRow` reads the row, `SaveRow` writes it back
  (`NewRow`; `Save` leaves `verified_fields` out) and answers. A unique index
  covers the Google subject, none the wallet. `JobFails` is any statement
  failing. The answer to a commit may be lost (`Heard`, `AnswerOrError`): the user
  or editor sees an error for what was stored. `Apply` and `CommitApplication` are the transaction that supersedes
  what was pending when its `UPDATE` started and inserts the new request.
* `offered` is what the profile page shows as still to be set; binding runs once
  at a time, the Google button has no such limit. `Apply` omits the
  specialization page's `unchanged` check, since a page loaded earlier passes it.
* `DecideReviewerVerification` is `ReadRequest` (with the owner's row and the
  checks), then `Reject`, or `ChainWritten` and `MarkApproved`, which does not
  check the status again. `ChainFails` is a call not sent, replaced, or given up
  on: then it is in `late` and may be mined at any time. `list` and `busy` are
  the dashboard: one busy item, whose buttons are disabled.
* History variables name what the properties exclude: `raced` (a user one of
  whose jobs overlapped another on the same row or for the same wallet or subject), `doubled` (a request decided by two
  overlapping calls), `twice` (overlapping applications), `drifted` (the chain
  or the row was changed on the side: another wallet, a call that failed
  half-way or was mined late, an approval of another account with that wallet).

### The abstract specifications

`ReviewProcess` knows no requests, counters, flags or signatures: a round is a
check, a screening and *one ballot that becomes visible complete*: one vote of
each member of an odd panel of at least three; the outcome is a function of the
ballot. `ReviewProcessRefinement` maps a manuscript's status to a phase, its
version to the round, and the review log to the ballots, hiding the votes of the
round that is still undecided. That the registry implements it covers: votes of
an earlier round never decide a later one, no round is decided on a partial
panel, no decision is taken twice, and no transition exists besides these.

`ManuscriptLifecycle` keeps statuses, versions, nonces, and the tokens and
allowance of submission keys; check, screening and decision are one step each
with every outcome. `LifecycleRefinement` hides the rest. It assumes `KeysApart`:
no panel holds a submission key, because each is generated for one purpose
(`generateSessionWallet` in the browser, `crypto.GenerateKey` in the backend).

## 3. Runs

Bounds: `MaxManuscripts`, `MaxRequests` (per kind, which bounds the rounds),
`MaxNonce` (signatures per address), `MaxCrashes`, `MaxRedeliveries`, the sets
`Handler`, `Invocation`, `Job`, `Decision`, `Withdrawal` (what may run at once), the
sequence `GeneratedKeys`, `MaxVersion`, `MaxAttempts` (clicks on the two forms),
`MaxJobs` and `MaxClicks` (requests of users, decisions of editors), `MaxBlock`
(blocks told apart), `MaxReviews` (clicks on "Submit Review"). Deadlock is
not checked except in `Accounts`, where a page can always be loaded: with bounded
requests, and with authors who owe nothing, the other systems may stop. Panels are fixed lists,
so addresses are not symmetric; symmetric are the slots of what may run at once,
and in `Accounts` also users, wallets and fields. Runs with symmetry check
invariants and action properties only.

| run | instance | shows |
|---|---|---|
| `OneManuscript` | 1 manuscript, 2 rounds, panels ⟨r1,r2,r3⟩ and ⟨r4,r3,r2⟩, a panel of two that must be refused, 2 files, scores 30 and 31 | the core's safety, `ImplementsReviewProcess`, `ImplementsLifecycle` |
| `TwoManuscripts` | 2 manuscripts, one author, one shared panel, 2 requests of each kind | the inductive invariant `RequestInv`, fees when accounts and requests are shared, and `EveryRoundEnds` |
| `Reassignment` | 1 manuscript, 2 rounds, script lists ⟨r4⟩ and ⟨r1,r2,r4⟩ | what the script cannot break |
| `ReassignmentStuck` | the same | **violation**: a round without a possible verdict |
| `ReassignmentFlags` | the same | **violation**: a flag that outlives its round |
| `Operator` | 1 manuscript, 2 requests of each kind, 2 handlers, 1 crash, 1 redelivery, a field with three reviewers and one with two | `NoRequestForgotten`, `PanelKeysKeptIfDeliveredOnce` |
| `OperatorLive` | the same with 1 request of each kind | `EveryRequestEnds` |
| `OperatorRedelivery` | no crash, 1 redelivery | **violation**: the panel's keys are overwritten |
| `Author` | 1 manuscript, 3 versions, 3 keys, 3 clicks on the forms, 2 runs of the payment, a main wallet with no or two fees | keys, mappings, rounds, money and what the pages show |
| `FundedOnce` | the same with two fees | **violation**: two fees funded |
| `Accounts` | 2 users, wallets and field sets, 1 Google subject, 3 requests of users (2 at once), 3 decisions (2 at once), 2 applications | wallets, roles, fields and decisions |
| `Review` | 1 manuscript, 2 rounds, two panels with the followed reviewer under a fresh key each, 2 blocks, 2 reviews, 2 wallets, 2 withdrawals at once | the reviewer's pages and the history |

Why the bounds are enough to see something: two rounds are needed for anything
to be left over from the first; overlapping panels let the same address sit on
both, in another position; three reviewers give every majority and the
three-way split; 30 and 31 are the two sides of the threshold; two handlers are
needed for a race, two requests of a kind for a late answer to meet a later
round. Two manuscripts share four requests in the second run, so either each has
a round or one has two. In `Author`, a submission and two revisions are the least
for a call of an older round to meet a request of a later one, and two keys are
consumed by a retried submission; two runs of the payment are the least that
race. In `Accounts`, two jobs overlap and a third follows; a decision can overlap a
second one after the first was given up on and retried. In `Review`, "the same
block" and "a later block" are all the readers can tell apart, and two clicks are
a review and its retry, or one in each round.

Bounds with a reason in the code: a page left at its form is unused until it is
reloaded, so leaving it is a step only while a handler runs (`LeavePage`); the
tracker is opened when no relayed call is on its way, since none would be accepted
in the states the tracker acts on (`Open`); only minting reads the bound wallet,
so it changes right before (`Rebind`); the operator sees no order of votes, so in
its runs a panel votes in one order (`Vote`). Without a code reason, to keep the
run short: the wallet changes only after a first session was minted (`Rebind`; an
earlier change is like none), and the earnings page is opened once there is
something to withdraw (`LoadEarnings`; before, it offers nothing).

Beside several definitions stands a variant `X_Y`, the code with a plausible
mistake (a reset in the wrong order, an off-by-one, a missing mark). The mutants
in `PROJECT.json` name, for each property, one that breaks it.

### The properties

* `RequestInv`: CHECKING ⇔ exactly one open plagiarism request; UNDER_REVIEW
  without a panel ⇔ exactly one open selection; nothing else open; and what makes
  that inductive.
* `OnlyCheckedContentAdvances`: the newest check is for the current file, and the
  score on record past CHECKING is within the threshold.
* `TallyMatchesReviews`: counters and flags are the reviews logged this round.
* `PanelCanFinish`: members who may still vote = votes missing > 0.
* `PublishedOnce`, `FeesRetained`: tokens and money over all manuscripts.
* `SettledStays` (action property): rejected and published manuscripts are final.
* `EveryRoundEnds` (liveness), `ImplementsReviewProcess`, `ImplementsLifecycle`
  (refinement).
* `NobodyCountsTwice`, `DecidedPanelStays`, `VerdictAchievable`,
  `FlagsAreThisRounds`: the workflow with the script.
* `NoRequestForgotten`, `PanelKeysKept`, `PanelKeysKeptIfDeliveredOnce`,
  `EveryRequestEnds`: the operator.
* `KeysKept`, `MappedIsOnChain`, `RevisionOfItsRound` (action property): the
  author's relayed calls. `ShownIsEntered`, `PublishedIsTrue`,
  `PageCorrectsItself`: what the pages show. `RetriesFundOnce`: one fee, unless
  runs overlapped or a transaction was given up on; `FundedOnce` without the
  exception.
* `VerifiedWasGranted`, `ToldIsDecided`, `RejectedIsNotGranted`,
  `ShownFieldsAreOnChain`: chain, database and editor agree. `OneOwner`,
  `BindingKept`, `ApprovedIsReviewer`, `OnePending`: rows survive requests in any
  order, failures and lost answers. Except for `VerifiedWasGranted` and
  `ToldIsDecided` each names the overlap it excludes, and that overlap is the
  hazard: the code is exposed to it, without the exclusion the run finds it, and
  what the property says is that nothing *else* breaks the promise. `ToldIsDecided`
  says that a decided request left the queue, not which decision was stored.
* `ReviewOfItsRound`, `ReasonIsTrue` (action properties), `ConfirmedIsOnChain`,
  `KeysOfPanelHeld`, `AssignmentsTellTheRound`, `ReportsUnderTheirVersion`,
  `ShownMarksDecide`, `WithdrawnIsMoved`: the reviewer's pages and the history.
  `ShownMarksDecide` asks, wherever the stepper shows what reviewers decided
  (accepted, published, revision requested, rejected by them), for a complete
  panel with one verdict each whose majority is what is shown, both ways.
  `WithdrawnIsMoved` asks that what is reported withdrawn was earned and has left,
  and that amounts add up for every session without two runs at once.

`AuthorClient!TypeOK` is left out of the run to stay short: it is proved.

### Fairness

`PublicationRegistry!Fairness` is what has to happen off the chain for a round to
end: each open request is answered, the editor screens, each panel member votes.
All are weak: once enabled these transactions stay enabled until taken. Nothing
is assumed of authors. This is an assumption on people and on the operator
process, not a fact about the code: `OracleOperator` shows where the process
falls short of it (a request may be *dropped*), and so claims only
`EveryRequestEnds`: answered or given up on. `OperatorFairness` is weak fairness
of the JavaScript event loop (callbacks of a running process run, awaits
return), of the node (a broadcast answer is mined unless replaced) and of the supervisor that
restarts the process. Reviewers, editors and failures are not assumed. The web
client and the account code have no background work: nothing there must happen
unless a person clicks, so no liveness is claimed of them.

### Disagreements found

1. `ReassignmentStuck`: the script checks parity only, although its message and
   the oracle contract's comment promise three or more so that a verdict is
   always achievable. A list of one while two votes are counted, or a list
   without those who voted, never reaches the equality the decision waits for.
2. `ReassignmentFlags`: a member dropped after voting keeps `hasReviewed` through
   the revision; the backend's comment says the flag reflects the current round.
3. `OperatorRedelivery`: the in-flight check and the insertion are separated by
   an await, so two deliveries of one selection event both mint; the keys of the
   panel that gets assigned may be those overwritten.
4. `FundedOnce`: the pay button stays enabled until the wallet has answered; two
   runs both read an empty submission wallet and both fund it.

In the code's own workflow, without script and redelivery, every property of the
contracts holds. Reading the code for the models showed more, which the
exclusions of the properties name and no run of its own repeats:

* Without the exclusions of `Accounts`, two accounts can share a wallet after
  overlapping bindings (the README's "no other account can bind them"), a save can
  take back a role or a binding, and "Verified fields (on-chain)"
  (`specialization/page.tsx:141`) is false after a change of wallet: the label
  shows the database, and the contract keeps fields per wallet.
* Two accounts that share a wallet share the key (manuscript, main wallet) of
  `reviewer_sessions`: if both are drawn for one panel, one session overwrites the other.
* A review signs no version. A page loaded in round 1 and submitted in round 2
  gives a review of round 2: only the key fetched at the click ties it to a
  round (`ReviewOfItsRound` is about the round at that click).
* The assignments page ("Manuscripts assigned to you", `assignments/page.tsx:141`)
  shows "needs your review" to somebody who sat on an earlier panel only, and to
  everybody between a new round's start and the panel's answer:
  `AssignmentsTellTheRound` is restricted accordingly. After a change of wallet
  `find` may pick the row of the earlier round.
* "Each review you complete earns 10 JRT" (`earnings/page.tsx:123`): only the
  panel of the published version is paid.
* The tracker's timeline (`tracker/[id]/page.tsx:181`) counts assignments of all
  rounds as one panel.
* Neither `fundAndPublish` nor `withdrawFromSession` looks at a receipt's status.
  `PublishedIsTrue` holds all the same, because a payment that was estimated can
  only be overtaken by one that publishes. A withdrawal is reported twice: whoever
  leaves the earnings page by a link and comes back finds the button enabled during
  the first run (`withdrawing`, `earnings/page.tsx:36`, starts empty); both runs read
  10 JRT, the second transfer reverts unseen (`wallet.ts:365`), and both say "Withdrew
  10 JRT" (`earnings/page.tsx:89`). `WithdrawnIsMoved` without `overlapped` finds it.

## 4. Proofs

The proof modules prove, for every value of the constants that satisfies the
named assumptions of the modules they extend:

| module | theorem | statement |
|---|---|---|
| `PublicationRegistryProofs` | `TypeCorrect` | `Spec => []TypeOK` |
| | `RequestInvariant` | `Spec => []RequestInv` |
| | `RequestsMatch` | `Spec => []RequestsMatchStatus` |
| | `SettledForever` | `Spec => SettledStays` |
| | `OneTokenEach` | `Spec => []PublishedOnce` |
| | `OnlyCheckedAdvances` | `Spec => []OnlyCheckedContentAdvances` |
| | `FeesAccountedFor` | `Spec => []FeesRetained` |
| | `PanelsPaidFromTheirFee` | if each list's incentives fit into one fee: `Spec => RegistryNeverPoorer` |
| `ReviewRoundProofs` | `TallyCorrect` | `Spec => []TallyMatchesReviews` |
| | `PanelsCanFinish` | `Spec => []PanelCanFinish` |
| | `MajorityDecides` | `Spec => []DecisionIsMajoritys` |
| `RefinementProofs` | `ProcessImplemented` | `Spec => ImplementsReviewProcess` |
| | `LifecycleImplemented` | `Spec => ImplementsLifecycle` |
| `ReassignmentProofs` | `NobodyTwice` | `SpecWithScript => []NobodyCountsTwice` |
| | `PanelsStay` | `SpecWithScript => DecidedPanelStays` |
| | `FeesUnderScript`, `TokensUnderScript` | `SpecWithScript => []FeesRetained`, `SpecWithScript => []PublishedOnce` |
| | `CarefulScriptIsSafe` | `SpecWithScript /\ CarefulUse => [](VerdictAchievable /\ FlagsAreThisRounds /\ RequestsMatchStatus)` |
| `OperatorProofs` | `OperatorInvariant` | `OperatorSpec => []OperatorInv` |
| | `RequestsMatchUnderOperator` | `OperatorSpec => []RequestsMatchStatus` |
| | `RequestsAreFollowed` | `OperatorSpec => []NoRequestForgotten` |
| | `PanelsCanSign` | `OperatorSpec => []PanelKeysKeptIfDeliveredOnce` |
| | `PanelsAreMinted` | `OperatorSpec => []PanelsMinted` |
| | `OperatorImplementsRegistry` | if `ReviewerLists` contains the lists the backend can mint: `OperatorSpec => Spec` |
| `AuthorClientProofs` | `ClientInvariant`, `TypeCorrect` | `Spec => []ClientInv`, `Spec => []TypeOK` |
| | `KeysAreKept`, `MappedReachedTheChain`, `NoStaleLookup`, `PublishedIsNoPromise`, `RetriesAreSafe`, `PageRecovers` | `KeysKept`, `MappedIsOnChain`, `ShownIsEntered`, `PublishedIsTrue`, `RetriesFundOnce`, `PageCorrectsItself` always hold |
| | `RevisionsInTheirRound` | `Spec => RevisionOfItsRound` |
| `ReviewDeskProofs` | `DeskInvariant` | `DeskSpec => []DeskInv` |
| | `DeskImplementsRegistry` | `DeskSpec => Spec` |
| | `KeysHeld`, `ConfirmedTrue`, `AssignmentsTrue` | `KeysOfPanelHeld`, `ConfirmedIsOnChain`, `AssignmentsTellTheRound` always hold |
| | `ReportsPlaced`, `MarksDecide`, `WithdrawnMoved` | `ReportsUnderTheirVersion`, `ShownMarksDecide`, `WithdrawnIsMoved` always hold |
| | `ReviewsOfTheirRound`, `ReasonTrue` | `DeskSpec => ReviewOfItsRound`, `DeskSpec => ReasonIsTrue` |
| `AccountsProofs` | `TypeCorrect` | `Spec => []TypeOK` |
| | `NoSharedWallet`, `BindingStays`, `VerifiedHasRole`, `OneRequestPending` | `OneOwner`, `BindingKept`, `ApprovedIsReviewer`, `OnePending` always hold |
| | `VerifiedOnlyIfGranted`, `AnswerIsStored`, `RejectionHolds`, `LabelHolds` | `VerifiedWasGranted`, `ToldIsDecided`, `RejectedIsNotGranted`, `ShownFieldsAreOnChain` always hold |

*Type correctness* is one lemma per transaction. Its content is arithmetic:
`PayFromFeeType` shows that the checks of the transfers keep every balance and
allowance a natural number for any fee, incentive and panel, also when the
payer sits on the panel.

*Requests.* `RequestsMatchStatus` alone is not inductive. A fresh request must
find its slot blank (`UnusedIsBlank`), a selection requested by the editor must
find an empty panel (`NoPanelYet`), and a submission must find a manuscript
without a status, so that no request can be about an id not yet handed out
(`StatusOnceSubmitted`). `RequestInv` is the conjunction; `TwoManuscripts`
checks it. The lemmas `OpenAfter...` say how the sets of open requests change
with each operation of the oracle contract, and the lemmas `...Requests` derive
each part of the invariant for each transaction.

*Settled manuscripts.* Each transaction keeps a settled manuscript because its
state guard differs, except answers from the oracle, where `RequestInv` says no
request is open about it, and submissions, where its id is already handed out.

*Rounds.* `RoundsInv` says of each manuscript that flags, counters and logged
reviews of the version agree and lie within the panel (`Tallied`), that the count
stays short of the panel until the decision (`Waiting`), that a decision is the
majority's (`Decided`), and that logged reviews are of versions begun. Panels of
any odd size: the counting is done with the theorems on finite cardinalities,
one more vote at a time (`OneMoreVote`), and `PanelsCanFinish` is a subtraction.

*Content and tokens.* `Checked(m)` follows the newest request about a manuscript
from its opening to its answer; a later request about another manuscript does not
become the newest of this one. `PublishedOnce` is inductive by itself.

*Money.* `FeesRetained` relates the sum of all balances, the registry's own, and a
sum over the published manuscripts. The provers cannot instantiate an induction
theorem that takes an operator, but the library also says that every non-empty set
of naturals has a least element under `<` (`WFMin` with `NatLessThanWellFounded`),
so induction is stated with *sets* in place of predicates (`NatSetInduction`,
`SetInduction` over the subsets of a finite set). With it the recursive definition
behind `SumFunction` is shown to have a value (`SumIsRec`), to add up pointwise
(`SumAdd`) and to be its one entry where all others are zero (`SumAtPoint`). A
payment adds the incentives of all seats (`SumOfIncentives`, by induction over the
list) and moves the rest between payer and registry (`MovedBetween`), a payer on
the panel and repeated seats included. A transfer conserves the sum; a publication
adds one share. It needs `StatusOnceSubmitted` and that there are finitely many
addresses, nothing about panels. `PanelsPaidFromTheirFee` states what the contract
does not check: it is the length of the lists, not the pool, that keeps the
account from shrinking; its invariant is that every panel is empty or an answer
(`PanelsAnswered`).

*Refinements.* For `ReviewProcess`, `BallotInv` adds that panels are odd, votes of
a round single, and rounds numbered from one; then a vote before the last is a
stutter (`EarlyVoteMaps`) and the last one opens the whole ballot (`LastVoteMaps`).
For `ManuscriptLifecycle`, `LifeInv` adds that no panel holds a submission key,
without which a payment would credit an author, and that versions do not exceed
the checks requested.

*The script.* Its steps destroy `RoundsInv` on purpose (the two violations above).
`CountInv` is what survives: whoever voted in the round is flagged, though not the
converse, and the counters are the round's voters. Money and tokens only need
`StatusOnceSubmitted`, which is part of it, and that a published manuscript is out of the
script's reach. `CarefulUse` restricts the script to `KeepsTheRound`: the oracle has
answered, the list repeats nobody, keeps everybody who has voted, and is longer than
the count. Under it `RequestInv` and `RoundsInv` survive and both promises
hold. Each of the four is needed: without the first the oracle's own answer
replaces the panel once more, in mid-round and with its request still open.

*Accounts.* `Typed` gives every request under way the record its kind carries.
`RaceInv`: what a job has read is still current unless its user is `raced`, and a
wallet being bound belongs to nobody else; so a save changes its own column only,
whether or not its answer arrives. `QueueInv`: a job about to insert
supersedes all that is pending. `DecideInv`: one call per request unless `doubled`,
whoever passed the check was not overtaken, and each grant is known, in progress or
reported as an error. `DriftInv`: a wallet a decision carries is its owner's, and
what is marked is on chain, unless `drifted`.

*Operator.* `OperatorInv` has three parts. `ChainInv` is what was proved of the
contracts: every operator step is a transaction of theirs or a stutter, so it is
inherited, late and refused answers included. `WorkInv` follows a request through
the process: work and inflight sets only hold requests that were made, one in an
inflight set has a handler past the query, and one not in the operator's hands is
broadcast, answered or `dropped` (`Followed`). `OnceInv` is about histories
without a redelivery: a request is in one place only (`InOnePlace`), and the keys
minted last are those of the newest selection (`MintedLast`), so that a mint that
overwrites is one for a panel not yet assigned. The key of a mint is fresh, and
the wallets a field has are finitely many: `OperatorAssumption`. `ChainInv` includes
`PanelsMinted`: what is prepared, broadcast or on chain for a selection is a list of
`Count` different generated keys, none an author's. So the registry's
`DistinctReviewers` and the mapping's `KeysApart` are facts about this operator,
and with `ReviewerLists` instantiated by those lists it implements the registry.

*Author's client.* `ClientInv` adds to the types `CallsInv` (a key is stored
before the form is past its upload, and no call is broadcast whose key is not;
a call is for the round of its nonce, whatever the form has done since),
`PayInv` (what each run of the payment knows of wallet, allowance and status at
its await, and how a run that passed its estimate can be overtaken), `FundingInv`
(the fees a key was given while nothing was `disturbed`) and `PollInv` (an answer on
its way or a timer, unless polls were `overlapped`). `ShownIsEntered` is inductive
beside them. Money is counted in multiples of any positive fee.

*Reviewer's desk.* `DeskImplementsRegistry` proves `DeskSpec => Spec`: each
step is a registry transaction or leaves it alone, so the invariants of rounds
and requests hold here too. `KeysInv` and `FreshInv` say that a session row's key is
in at most one panel and that the panel the operator is answering with is fresh;
that is why a review cannot move to another round: its key would have to be on both
panels. `Numbered` and `HistoryInv` relate blocks and versions: a revision is
the first thing logged in its block, because an author acts on what an earlier
block sent back, so the number of revisions up to a block is the round of
everything logged in it (`ReportsUnderTheirVersion`). `FreshInv` also says that a
member has one event per round, so the marks shown are the votes counted, one per
member, and their majority is the contract's (`ShownMarksDecide`). `MoneyInv` says
that transfers move whole amounts: a run that has read a balance offers all a
session earned, so of several under way one moves it and the others revert; and a
session that is not `overlapped` has one run at most, and nothing reported while it
still holds something.

Only model-checked: liveness (`EveryRoundEnds`, `EveryRequestEnds`), which is out of
the prover's reach, as is `ENABLED`; the four violations are TLC's too. Every
invariant and action property of the passing runs is a theorem.

## 5. Not modelled, and why

* Role administration and upgrade of the contracts,
  `setPublicationRegistry`, `JournalToken.mint` by the administrator,
  `postComment`: set-up, or state the workflow does not read.
* Gas, ECDSA and EIP-712 hashing: a recovered signer is the signer. The operator
  account's nonce and the price bumps of `sendTx` appear only as what they do to a
  call: it may be replaced or given up on, and may be mined all the same.
* Metadata, review texts and CIDs, the DOI string: data no guard reads.
* The lazy choice of one editor per manuscript (a single `INSERT ... ON CONFLICT
  DO NOTHING`) and the screening list filtered by it.
* Registration, login, tokens and the session context of the web client: single
  statements over a row, and presentation.
* Listings of articles, journals, comments and reviewers; paging, time stamps and
  log decoding; the tracker's timeline; configuration and migrations; routing.
* `oracle/src/registry.js` and `oracle/src/reviewer.js`: no longer used.

## 6. Plan

1. **Operator account**: the nonces concurrent relays read, and the price bumps of
   `sendTx`, in place of a call that "may be replaced".
2. **EditorAssignment**: the assignment rows against the screening on chain.
3. **Proofs**: liveness on paper from the invariants that are proved, once a prover
   handles `ENABLED`; the script's four conditions as a run of their own.
