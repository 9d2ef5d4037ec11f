---------------------------- MODULE AuthorClient ----------------------------
(***************************************************************************)
(* An author's browser, the backend that relays its signed calls, and the  *)
(* contracts as ManuscriptLifecycle gives them.                            *)
(*                                                                         *)
(* The submit and the revise page run one handler: upload, sign with a     *)
(* one-time key, post, wait for the relay (sendTx).  The tracker page      *)
(* shows one manuscript, runs fundAndPublish, and polls afterwards.  Steps *)
(* are the code between two awaits.  Whatever is awaited may fail; a call  *)
(* that was broadcast and given up on may still be mined.                  *)
(***************************************************************************)
EXTENDS ManuscriptLifecycle, FiniteSets

CONSTANTS
  MaxAttempts,   \* bound: clicks on the two forms together
  Invocation,    \* bound: concurrent runs of handlePayFee
  Savings        \* tokens the author's main wallet may start with

ASSUME ClientAssumption ==
  /\ MaxAttempts \in Nat
  /\ Savings \subseteq Nat
  /\ IsFiniteSet(Key) /\ Cardinality(Key) >= MaxAttempts

Tracked == 0                     \* the manuscript the tracker page is open on
EnteredId == 0 .. MaxManuscripts \* the last one never exists

VARIABLES
  savedKeys,    \* localStorage: submission keys this browser holds
  mapped,       \* table submission_wallets: addresses with a known account
  form,         \* the form being sent, with what its handler has in hand
  attempts,     \* clicks so far; also the identity of the uploaded file
  mempool,      \* relayed transactions broadcast and not yet mined
  lookup,       \* revise page: the id entered, what is shown, requests out
  shown,        \* tracker page: status in the state variable ms
  payStep,      \* tracker page: label of the pay button
  pay,          \* invocation -> its position in fundAndPublish
  wallet,       \* tokens in the author's main wallet
  late,         \* payments broadcast whose invocation has given up waiting
  polling,      \* the interval: not started, "on" or "off"
  polls,        \* statuses carried by poll responses under way
  seen,         \* status of Tracked at the node the backend reads
  disturbed,    \* history: see FundedOnce
  overlapped    \* history: two poll requests were under way at once

formVars == <<savedKeys, mapped, form, attempts, mempool>>
payVars == <<payStep, pay, wallet, late, disturbed>>
pollVars == <<polling, polls, overlapped>>
pageVars == <<shown, payVars, pollVars>>
vars == <<lifecycleVars, formVars, lookup, pageVars, seen>>

Nothing == [id |-> MaxManuscripts, status |-> "none"]
NoLookup == [id |-> MaxManuscripts, ms |-> Nothing, out |-> {}]
(* A relayed call; what its handler does not have yet is as in NoCall.     *)
Call == [kind : {"none", "submit", "revise"}, m : Manuscript,
         key : Key \cup {NoKey}, nonce : Nat, file : 0 .. MaxAttempts,
         round : Nat]
NoCall == [kind |-> "none", m |-> 0, key |-> NoKey, nonce |-> 0, file |-> 0,
           round |-> 0]
Steps == {"form", "uploading", "signing", "posting", "waiting", "mined",
          "reverted"}
PayPosition == {"idle", "wallet", "transfer", "gas", "approve", "publish",
                "paying"}
PayStep == {"none", "funding-jrt", "funding-gas", "approving", "publishing"}

TypeOK ==
  /\ LifecycleTypeOK
  /\ savedKeys \subseteq Key
  /\ mapped \subseteq Key
  /\ form \in [step : Steps, call : Call]
  /\ attempts \in 0 .. MaxAttempts
  /\ mempool \subseteq Call
  /\ lookup.id \in EnteredId /\ lookup.out \subseteq EnteredId
  /\ shown \in Status \cup {"closed", "loading", "failed"}
  /\ payStep \in PayStep
  /\ \A i \in Invocation : /\ pay[i].at \in PayPosition
                           /\ pay[i].amount \in 0 .. PUBLICATION_FEE
  /\ wallet \in Nat
  /\ late \subseteq {"transfer", "pay"}
  /\ polling \in {"never", "on", "off"} /\ polls \subseteq Status
  /\ seen \in Status
  /\ disturbed \in BOOLEAN

Idle == [at |-> "idle", amount |-> 0, mounted |-> TRUE]

Init ==
  /\ LifecycleInit
  /\ savedKeys = {} /\ mapped = {}
  /\ form = [step |-> "form", call |-> NoCall]
  /\ attempts = 0
  /\ mempool = {}
  /\ lookup = NoLookup
  /\ shown = "closed" /\ payStep = "none"
  /\ pay = [i \in Invocation |-> Idle]
  /\ wallet \in Savings
  /\ late = {}
  /\ polling = "never" /\ polls = {}
  /\ seen = "SUBMITTED"
  /\ disturbed = FALSE /\ overlapped = FALSE
-----------------------------------------------------------------------------
(* The two forms.  The button is disabled while the handler runs.          *)
SubmitEnabled ==
  shown = "closed" /\ form.step = "form" /\ attempts < MaxAttempts
ReviseEnabled == SubmitEnabled /\ lookup.ms.status = "REVISION_REQUESTED"

(* getSubmissionKey: only this browser has it. *)
KeyInBrowser(m) == author[m] \in savedKeys

(* generateSessionWallet: a key nobody has used. *)
FreshKey ==
  CHOOSE k \in Key : k \notin {author[m] : m \in Manuscript} \cup savedKeys

ClickSubmit ==
  /\ SubmitEnabled
  /\ nextManuscriptId < MaxManuscripts
  /\ attempts' = attempts + 1
  /\ form' = [step |-> "uploading",
              call |-> [NoCall EXCEPT !.kind = "submit",
                                      !.file = attempts + 1]]
  /\ lookup' = NoLookup
  /\ UNCHANGED <<lifecycleVars, savedKeys, mapped, mempool, pageVars, seen>>

ClickRevise ==
  /\ ReviseEnabled
  /\ KeyInBrowser(lookup.ms.id)
  /\ attempts' = attempts + 1
  /\ form' = [step |-> "uploading",
              call |-> [NoCall EXCEPT !.kind = "revise",
                                      !.m = lookup.ms.id,
                                      !.file = attempts + 1]]
  /\ UNCHANGED <<lifecycleVars, savedKeys, mapped, mempool, lookup, pageVars,
                 seen>>

KeyFor(c) == IF c.kind = "submit" THEN FreshKey ELSE author[c.m]

Uploaded_KeyNotStored ==
  /\ form.step = "uploading"
  /\ LET k == KeyFor(form.call)
     IN  form' = [form EXCEPT !.step = "signing", !.call.key = k]
  /\ UNCHANGED <<lifecycleVars, savedKeys, mapped, attempts, mempool, lookup,
                 pageVars, seen>>

Uploaded ==
  /\ form.step = "uploading"
  /\ LET k == KeyFor(form.call)
     IN  /\ form' = [form EXCEPT !.step = "signing", !.call.key = k]
         /\ savedKeys' = savedKeys \cup {k}
  /\ UNCHANGED <<lifecycleVars, mapped, attempts, mempool, lookup, pageVars,
                 seen>>

(* getNonce answers; the call is signed and posted. *)
Sign ==
  /\ form.step = "signing"
  /\ form' = [form EXCEPT !.step = "posting",
                 !.call.nonce = nonces[form.call.key],
                 !.call.round = IF form.call.kind = "submit" THEN 0
                                ELSE version[form.call.m]]
  /\ UNCHANGED <<lifecycleVars, savedKeys, mapped, attempts, mempool, lookup,
                 pageVars, seen>>
-----------------------------------------------------------------------------
(* sendTx: estimate, broadcast, wait for the receipt.                      *)
Accepted(c) ==
  /\ nonces[c.key] = c.nonce
  /\ \/ c.kind = "submit" /\ nextManuscriptId < MaxManuscripts
     \/ /\ c.kind = "revise"
        /\ author[c.m] = c.key
        /\ status[c.m] = "REVISION_REQUESTED"

Broadcast_MapsFirst ==
  /\ form.step = "posting"
  /\ Accepted(form.call)
  /\ mempool' = mempool \cup {form.call}
  /\ form' = [form EXCEPT !.step = "waiting"]
  /\ mapped' = mapped \cup {form.call.key}
  /\ UNCHANGED <<lifecycleVars, savedKeys, attempts, lookup, pageVars, seen>>

Broadcast ==
  /\ form.step = "posting"
  /\ Accepted(form.call)
  /\ mempool' = mempool \cup {form.call}
  /\ form' = [form EXCEPT !.step = "waiting"]
  /\ UNCHANGED <<lifecycleVars, savedKeys, mapped, attempts, lookup, pageVars,
                 seen>>

Awaited(c) == form.step = "waiting" /\ form.call = c

(* The call is executed, or reverts in its block. *)
Mine(c) ==
  /\ c \in mempool
  /\ mempool' = mempool \ {c}
  /\ \/ c.kind = "submit" /\ Submit(c.key, c.nonce)
     \/ c.kind = "revise" /\ Revise(c.m, c.key, c.nonce)
  /\ form' = IF Awaited(c) THEN [form EXCEPT !.step = "mined"] ELSE form
  /\ seen' = status'[Tracked]
  /\ UNCHANGED <<savedKeys, mapped, attempts, lookup, pageVars>>

Revert(c) ==
  /\ c \in mempool
  /\ ~ Accepted(c)
  /\ mempool' = mempool \ {c}
  /\ form' = IF Awaited(c) THEN [form EXCEPT !.step = "reverted"] ELSE form
  /\ UNCHANGED <<lifecycleVars, savedKeys, mapped, attempts, lookup, pageVars,
                 seen>>

(* Another relay that read the same account nonce outbids this one. *)
Replaced(c) ==
  /\ c \in mempool
  /\ mempool' = mempool \ {c}
  /\ UNCHANGED <<lifecycleVars, savedKeys, mapped, form, attempts, lookup,
                 pageVars, seen>>

(* Success: the mapping is saved if the database allows, the page is left. *)
Succeed ==
  /\ form.step = "mined"
  /\ \/ mapped' = mapped \cup
          (IF form.call.kind = "submit" THEN {form.call.key} ELSE {})
     \/ UNCHANGED mapped
  /\ form' = [step |-> "form", call |-> NoCall]
  /\ lookup' = NoLookup
  /\ UNCHANGED <<lifecycleVars, savedKeys, attempts, mempool, pageVars, seen>>

(* Any failure, of the upload, an RPC call, the estimate, the receipt, and *)
(* the two-minute limit on waiting: the form is shown again.               *)
Fail ==
  /\ form.step \in {"uploading", "signing", "posting", "waiting", "reverted"}
  /\ form' = [step |-> "form", call |-> NoCall]
  /\ UNCHANGED <<lifecycleVars, savedKeys, mapped, attempts, mempool, lookup,
                 pageVars, seen>>
-----------------------------------------------------------------------------
(* The revise page looks up the id being entered.  A response is dropped   *)
(* when its effect has been cleaned up, that is when the id has changed.   *)
EnterId(id) ==
  /\ shown = "closed" /\ form.step = "form"
  /\ id # lookup.id
  /\ lookup' = [id |-> id, ms |-> Nothing, out |-> lookup.out \cup {id}]
  /\ UNCHANGED <<lifecycleVars, formVars, pageVars, seen>>

Found(id) == IF id < nextManuscriptId THEN [id |-> id, status |-> status[id]]
             ELSE Nothing

LookedUp_NoActiveFlag(id) ==
  /\ id \in lookup.out
  /\ lookup' = [lookup EXCEPT !.out = @ \ {id}, !.ms = Found(id)]
  /\ UNCHANGED <<lifecycleVars, formVars, pageVars, seen>>

LookedUp(id) ==
  /\ id \in lookup.out
  /\ lookup' = [lookup EXCEPT !.out = @ \ {id},
                              !.ms = IF id = lookup.id THEN Found(id) ELSE @]
  /\ UNCHANGED <<lifecycleVars, formVars, pageVars, seen>>
-----------------------------------------------------------------------------
(* The tracker page: the first load, and the cards its status shows.       *)
Load ==
  /\ shown = "loading"
  /\ shown' \in {seen, "failed"}
  /\ UNCHANGED <<lifecycleVars, formVars, lookup, payVars, pollVars, seen>>

(* What the badge and the stepper announce, and the card that offers to pay. *)
ShowsPublished == shown = "PUBLISHED"
PayEnabled == shown = "ACCEPTED" /\ payStep = "none"

(* The tab goes from the forms to the tracker page and back.  Leaving stops *)
(* the interval; invocations of handlePayFee run on without a page.  Bound: *)
(* the page is opened when no relayed call is on its way any more: in the   *)
(* states it acts on, none would be accepted.                               *)
Open ==
  /\ shown = "closed" /\ form.step = "form"
  /\ mempool = {}
  /\ shown' = "loading"
  /\ lookup' = NoLookup
  /\ UNCHANGED <<lifecycleVars, formVars, payVars, pollVars, seen>>

Leave ==
  /\ shown # "closed"
  /\ shown' = "closed" /\ payStep' = "none"
  /\ pay' = [i \in Invocation |->
               IF pay[i].at = "idle" THEN Idle
               ELSE [pay[i] EXCEPT !.mounted = FALSE]]
  /\ polling' = "never" /\ polls' = {} /\ overlapped' = FALSE
  /\ UNCHANGED <<lifecycleVars, formVars, lookup, wallet, late, disturbed,
                 seen>>

(* The backend's node catches up with the chain. *)
Sync ==
  /\ seen # status[Tracked]
  /\ seen' = status[Tracked]
  /\ UNCHANGED <<lifecycleVars, formVars, lookup, pageVars>>
-----------------------------------------------------------------------------
(* handlePayFee and fundAndPublish, await by await.                        *)
Payer == author[Tracked]
payFrame == <<formVars, lookup, pollVars, seen>>

(* The label of a run whose page is still open. *)
Label(i, label) == payStep' = IF pay[i].mounted THEN label ELSE payStep
At(i, position) == pay[i].at = position
Go(i, position) == pay' = [pay EXCEPT ![i].at = position]

(* The button is enabled until the wallet has answered. *)
ClickPay(i) ==
  /\ PayEnabled
  /\ KeyInBrowser(Tracked)
  /\ At(i, "idle")
  /\ pay' = [pay EXCEPT ![i] = [at |-> "wallet", amount |-> 0,
                                mounted |-> TRUE]]
  /\ disturbed' = \/ disturbed
                   \/ \E j \in Invocation : ~ At(j, "idle")
                   \/ status[Tracked] # "ACCEPTED"
  /\ UNCHANGED <<lifecycleVars, shown, payStep, wallet, late, payFrame>>

(* The wallet has answered: the label is set and the balance read, and what *)
(* the key still lacks is asked for.                                        *)
Missing(k) == PUBLICATION_FEE - jrt[k]

ReadBalance_Ignored(i) ==
  /\ At(i, "wallet")
  /\ pay' = [pay EXCEPT ![i].at = "transfer", ![i].amount = PUBLICATION_FEE]
  /\ Label(i, "funding-jrt")
  /\ UNCHANGED <<lifecycleVars, shown, wallet, late, disturbed, payFrame>>

ReadBalance(i) ==
  /\ At(i, "wallet")
  /\ IF jrt[Payer] < PUBLICATION_FEE
     THEN /\ pay' = [pay EXCEPT ![i].at = "transfer",
                                ![i].amount = Missing(Payer)]
          /\ Label(i, "funding-jrt")
     ELSE Go(i, "gas") /\ Label(i, "funding-gas")
  /\ UNCHANGED <<lifecycleVars, shown, wallet, late, disturbed, payFrame>>

(* A transfer is mined, or reverts for lack of tokens; its receipt is not   *)
(* looked at.                                                               *)
Transferred(amount) ==
  IF amount <= wallet
  THEN Receive(Payer, amount) /\ wallet' = wallet - amount
  ELSE UNCHANGED <<lifecycleVars, wallet>>

TransferDone(i) ==
  /\ At(i, "transfer")
  /\ Transferred(pay[i].amount)
  /\ Go(i, "gas") /\ Label(i, "funding-gas")
  /\ UNCHANGED <<shown, late, disturbed, payFrame>>

GasDone(i) ==
  /\ At(i, "gas")
  /\ IF approved[Payer] < PUBLICATION_FEE
     THEN Go(i, "approve") /\ Label(i, "approving")
     ELSE Go(i, "publish") /\ Label(i, "publishing")
  /\ UNCHANGED <<lifecycleVars, shown, wallet, late, disturbed, payFrame>>

ApproveDone(i) ==
  /\ At(i, "approve")
  /\ Approve(Payer)
  /\ Go(i, "publish") /\ Label(i, "publishing")
  /\ UNCHANGED <<shown, wallet, late, disturbed, payFrame>>

(* payPublicationFee is estimated first, which fails if it would revert. *)
Payable == /\ status[Tracked] = "ACCEPTED"
           /\ jrt[Payer] >= PUBLICATION_FEE
           /\ approved[Payer] >= PUBLICATION_FEE

SendPayment_NoEstimate(i) ==
  /\ At(i, "publish")
  /\ Go(i, "paying")
  /\ UNCHANGED <<lifecycleVars, shown, payStep, wallet, late, disturbed,
                 payFrame>>

SendPayment(i) ==
  /\ At(i, "publish")
  /\ Payable
  /\ Go(i, "paying")
  /\ UNCHANGED <<lifecycleVars, shown, payStep, wallet, late, disturbed,
                 payFrame>>

Paid == IF Payable THEN Pay(Tracked, Payer) ELSE UNCHANGED lifecycleVars

(* Mined, executed or reverted: the receipt's status is not looked at.  The *)
(* page shows PUBLISHED at once and polls for the backend to catch up.      *)
PaymentDone(i) ==
  /\ At(i, "paying")
  /\ Paid
  /\ pay' = [pay EXCEPT ![i] = Idle]
  /\ IF pay[i].mounted
     THEN shown' = "PUBLISHED" /\ payStep' = "none" /\ polling' = "on"
     ELSE UNCHANGED <<shown, payStep, polling>>
  /\ UNCHANGED <<formVars, lookup, wallet, late, disturbed, polls, overlapped,
                 seen>>

(* The wallet refuses, a call fails, an estimate reverts, or the wait for a *)
(* receipt ends without one; then the transaction is still in the mempool.  *)
PayFails(i) ==
  /\ ~ At(i, "idle")
  /\ pay' = [pay EXCEPT ![i] = Idle]
  /\ Label(i, "none")
  /\ \/ UNCHANGED <<late, disturbed>>
     \/ /\ At(i, "transfer") /\ pay[i].amount = PUBLICATION_FEE
        /\ late' = late \cup {"transfer"}
        /\ disturbed' = TRUE
     \/ /\ At(i, "paying")
        /\ late' = late \cup {"pay"}
        /\ disturbed' = TRUE
  /\ UNCHANGED <<lifecycleVars, shown, wallet, payFrame>>

LateMined(tx) ==
  /\ tx \in late
  /\ late' = late \ {tx}
  /\ \/ tx = "transfer" /\ Transferred(PUBLICATION_FEE)
     \/ tx = "pay" /\ Paid /\ UNCHANGED wallet
  /\ UNCHANGED <<shown, payStep, pay, disturbed, payFrame>>
-----------------------------------------------------------------------------
(* Polling: a request every three seconds, whether or not the previous one *)
(* has been answered.  A failed request changes nothing.                   *)
Poll ==
  /\ polling = "on"
  /\ Cardinality(polls) < 2          \* bound: answers under way
  /\ polls' = polls \cup {seen}
  /\ overlapped' = (overlapped \/ polls # {})
  /\ UNCHANGED <<lifecycleVars, formVars, lookup, shown, payVars, polling,
                 seen>>

PollAnswer_StopsAtOnce(s) ==
  /\ s \in polls
  /\ polls' = polls \ {s}
  /\ shown' = s
  /\ polling' = "off"
  /\ UNCHANGED <<lifecycleVars, formVars, lookup, payVars, overlapped, seen>>

PollAnswer(s) ==
  /\ s \in polls
  /\ polls' = polls \ {s}
  /\ shown' = s
  /\ polling' = IF s = "PUBLISHED" /\ polling = "on" THEN "off" ELSE polling
  /\ UNCHANGED <<lifecycleVars, formVars, lookup, payVars, overlapped, seen>>

PollFails(s) ==
  /\ s \in polls
  /\ polls' = polls \ {s}
  /\ UNCHANGED <<lifecycleVars, formVars, lookup, shown, payVars, polling,
                 overlapped, seen>>
-----------------------------------------------------------------------------
(* Bound: the node the backend reads may miss the payment, not other steps. *)
ChainMoves ==
  /\ Others
  /\ seen' = status'[Tracked]
  /\ UNCHANGED <<formVars, lookup, pageVars>>

FormStep ==
  \/ ClickSubmit \/ ClickRevise \/ Uploaded \/ Sign \/ Broadcast
  \/ Succeed \/ Fail
  \/ \E c \in mempool : Mine(c) \/ Revert(c) \/ Replaced(c)
  \/ \E id \in EnteredId : EnterId(id) \/ LookedUp(id)

PayRun(i) ==
  \/ ReadBalance(i) \/ TransferDone(i) \/ GasDone(i) \/ ApproveDone(i)
  \/ SendPayment(i) \/ PaymentDone(i) \/ PayFails(i)

PageStep ==
  \/ Open \/ Load \/ Leave
  \/ \E i \in Invocation : ClickPay(i) \/ PayRun(i)
  \/ \E tx \in late : LateMined(tx)
  \/ Poll
  \/ \E s \in polls : PollAnswer(s) \/ PollFails(s)

Next == ChainMoves \/ FormStep \/ PageStep \/ Sync

Spec == Init /\ [][Next]_vars

-----------------------------------------------------------------------------
(***************************************************************************)
(* Whoever submitted can go on: the key of every manuscript on chain is in *)
(* the browser it was submitted from, whatever failed after the key was    *)
(* made -- only that key can revise and pay, and no server has it.         *)
(***************************************************************************)
KeysKept ==
  \A m \in Manuscript : m < nextManuscriptId => author[m] \in savedKeys

(* An account is recorded only for a submission that reached the chain: a  *)
(* relay that failed or timed out leaves no mapping behind.                *)
MappedIsOnChain == mapped \subseteq {author[m] : m \in Manuscript}

(***************************************************************************)
(* A revision closes the round it was signed in: no call given up on after *)
(* a timeout and mined much later can answer a later request for revision  *)
(* with the file meant for an earlier one.                                 *)
(***************************************************************************)
RevisionOfItsRound ==
  [][\A m \in Manuscript :
       0 < version[m] /\ version[m] # version'[m] =>
         \E c \in mempool \ mempool' :
           c.kind = "revise" /\ c.m = m /\ c.round = version[m]]_vars

(* The revise page never shows, and so never revises, a manuscript other   *)
(* than the one whose id is entered, however the answers are ordered.      *)
ShownIsEntered ==
  lookup.ms.status # "none" => lookup.ms.id = lookup.id

(***************************************************************************)
(* PUBLISHED on the tracker page is never a promise: although the page     *)
(* does not look at receipts and does not wait for the backend, it shows   *)
(* PUBLISHED only when the manuscript is published on chain.               *)
(***************************************************************************)
PublishedIsTrue == ShowsPublished => status[Tracked] = "PUBLISHED"

(***************************************************************************)
(* A submission key is funded with one fee and left empty by publishing.   *)
(* FundedOnce is what the page announces; it fails when two runs overlap,  *)
(* when a transfer or payment is mined after its run gave up, and when a   *)
(* late answer brings the pay button back.  Without these, retries    *)
(* after failures at any other step never pay twice.                       *)
(***************************************************************************)
FundedOnce ==
  \A k \in Key :
    jrt[k] <= IF k = Payer /\ status[Tracked] = "PUBLISHED" THEN 0
              ELSE PUBLICATION_FEE
RetriesFundOnce == disturbed \/ FundedOnce

(***************************************************************************)
(* The page corrects itself: if, after a confirmed payment, it falls back  *)
(* to an older status because the backend is behind, it is still polling   *)
(* -- provided every poll is answered before the next is sent.  Otherwise  *)
(* an old answer that arrives last stays, with the pay button enabled.     *)
(***************************************************************************)
PageCorrectsItself ==
  polling # "never" /\ ~ ShowsPublished => polling = "on" \/ overlapped
=============================================================================
