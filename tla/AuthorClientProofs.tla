------------------------- MODULE AuthorClientProofs -------------------------
(***************************************************************************)
(* Theorems about AuthorClient, for any number of submission keys,         *)
(* manuscripts, attempts and overlapping runs of handlePayFee, any fee and *)
(* any savings.                                                            *)
(***************************************************************************)
EXTENDS AuthorClient, FiniteSetTheorems, TLAPS

(***************************************************************************)
(* Types, and what the contracts hold of an id that is in use or is not.   *)
(***************************************************************************)
LookupResult == [id : EnteredId, status : Status \cup {"none"}]
Run == [at : PayPosition, amount : 0 .. PUBLICATION_FEE, mounted : BOOLEAN]

FormTyped ==
  /\ savedKeys \subseteq Key
  /\ mapped \subseteq Key
  /\ form \in [step : Steps, call : Call]
  /\ attempts \in 0 .. MaxAttempts
  /\ mempool \subseteq Call
  /\ lookup \in [id : EnteredId, ms : LookupResult, out : SUBSET EnteredId]
PageTyped ==
  /\ pay \in [Invocation -> Run]
  /\ wallet \in Nat
  /\ late \subseteq {"transfer", "pay"}
  /\ disturbed \in BOOLEAN /\ overlapped \in BOOLEAN
ShownTyped ==
  /\ shown \in Status \cup {"closed", "loading", "failed"}
  /\ payStep \in PayStep
  /\ polling \in {"never", "on", "off"}
  /\ polls \subseteq Status
  /\ seen \in Status
IdsInUse ==
  \A m \in Manuscript :
    IF m < nextManuscriptId
    THEN author[m] \in Key /\ status[m] # "SUBMITTED" /\ version[m] > 0
    ELSE author[m] = NoKey /\ status[m] = "SUBMITTED" /\ version[m] = 0
Typed == LifecycleTypeOK /\ FormTyped /\ PageTyped /\ IdsInUse

(***************************************************************************)
(* Calls.  Whatever has been signed was signed with a saved key, for a     *)
(* manuscript that exists, with a nonce that either is used up by now or   *)
(* still goes with the round it was read in.  An attempt makes one key.    *)
(***************************************************************************)
HasKey(c) ==
  /\ c.kind \in {"submit", "revise"}
  /\ c.key \in savedKeys
  /\ c.kind = "revise" => c.m < nextManuscriptId /\ author[c.m] = c.key
Signed(c) ==
  /\ HasKey(c)
  /\ c.nonce <= nonces[c.key]
  /\ c.kind = "revise" /\ c.nonce = nonces[c.key] => version[c.m] = c.round
OnChain(c) == c.kind = "submit" => c.key \in {author[m] : m \in Manuscript}

KeysCounted ==
  /\ IsFiniteSet(savedKeys)
  /\ Cardinality(savedKeys) <= attempts
  /\ form.step = "uploading" => Cardinality(savedKeys) < attempts
FormKnown ==
  /\ form.step # "form" => form.call.kind \in {"submit", "revise"}
  /\ form.call.kind = "revise" => form.call.m < nextManuscriptId
  /\ form.step = "signing" => HasKey(form.call)
  /\ form.step \in {"posting", "waiting", "mined", "reverted"} =>
       Signed(form.call)
  /\ form.step = "mined" => OnChain(form.call)
  /\ lookup.ms.status # "none" => lookup.ms.id < nextManuscriptId
CallsInv ==
  /\ KeysKept
  /\ KeysCounted
  /\ FormKnown
  /\ \A c \in mempool : Signed(c)
  /\ MappedIsOnChain

(***************************************************************************)
(* Payment.  Who is about to pay still can, or somebody has paid; and what *)
(* the page was told of PUBLISHED is true.                                 *)
(***************************************************************************)
IsPublished == status[Tracked] = "PUBLISHED"
PayerKnown ==
  (\E i \in Invocation : ~ At(i, "idle")) \/ late # {} => Payer \in Key
PayInv ==
  /\ PayerKnown
  /\ \A i \in Invocation : At(i, "paying") => Payable \/ IsPublished
  /\ "pay" \in late => Payable \/ IsPublished
  /\ seen = "PUBLISHED" \/ "PUBLISHED" \in polls => IsPublished
  /\ PublishedIsTrue

(***************************************************************************)
(* Funding.  Until something disturbs it, one run is under way at most, on *)
(* an accepted manuscript, with a transfer of exactly what is missing.     *)
(***************************************************************************)
Calm ==
  /\ late = {}
  /\ \A i, j \in Invocation : ~ At(i, "idle") /\ ~ At(j, "idle") => i = j
  /\ \A i \in Invocation :
       /\ ~ At(i, "idle") => status[Tracked] = "ACCEPTED"
       /\ At(i, "transfer") => pay[i].amount = Missing(Payer)
  /\ \A k \in Key : k # Payer => jrt[k] = 0
  /\ FundedOnce
FundingInv == disturbed \/ Calm

(***************************************************************************)
(* Polling.  Without overlap there is one request out at most, and none    *)
(* once the interval has been stopped.                                     *)
(***************************************************************************)
PollInv ==
  overlapped \/ /\ \A s, t \in polls : s = t
                /\ polling = "off" => shown = "PUBLISHED" /\ polls = {}

ClientInv ==
  /\ Typed /\ ShownTyped
  /\ CallsInv /\ ShownIsEntered
  /\ PayInv /\ FundingInv /\ PollInv
-----------------------------------------------------------------------------
(***************************************************************************)
(* What every step of the contracts does, whoever takes it.                *)
(***************************************************************************)
Grows ==
  /\ nextManuscriptId <= nextManuscriptId'
  /\ \A m \in Manuscript : m < nextManuscriptId => author'[m] = author[m]
  /\ \A k \in Key : nonces[k] <= nonces'[k]
  /\ \A m \in Manuscript :
       m < nextManuscriptId /\ version'[m] # version[m] =>
         nonces[author[m]] < nonces'[author[m]]
  /\ IsPublished => IsPublished'
  /\ Payable => Payable' \/ IsPublished'
ChainOK == LifecycleTypeOK /\ IdsInUse

LEMMA Identifiers ==
  /\ Manuscript \subseteq Nat
  /\ Tracked \in Manuscript
  /\ NoKey \notin Key
  /\ \A n \in 0 .. MaxManuscripts :
       /\ n \in Nat /\ n + 1 \in Nat /\ n <= n + 1
       /\ n < MaxManuscripts =>
            n \in Manuscript /\ n + 1 \in 0 .. MaxManuscripts
BY LifecycleAssumption DEF Manuscript, Tracked, NoKey

LEMMA IdleChainGrows ==
  ASSUME ChainOK, UNCHANGED lifecycleVars
  PROVE  Grows /\ ChainOK'
<1> USE DEF lifecycleVars
<1>1. ChainOK'
  BY DEF ChainOK, LifecycleTypeOK, IdsInUse
<1>2. nextManuscriptId <= nextManuscriptId'
  BY Identifiers DEF ChainOK, LifecycleTypeOK
<1>3. \A k \in Key : nonces[k] <= nonces'[k]
  BY DEF ChainOK, LifecycleTypeOK
<1>4. /\ IsPublished => IsPublished'
      /\ Payable => Payable'
  BY DEF IsPublished, Payable, Payer
<1> QED
  BY <1>1, <1>2, <1>3, <1>4 DEF Grows

LEMMA SubmitGrows ==
  ASSUME ChainOK, NEW k \in Key, NEW n, Submit(k, n)
  PROVE  Grows /\ ChainOK'
<1> DEFINE new == nextManuscriptId
<1> USE Identifiers DEF ChainOK
<1>1. new \in Manuscript /\ new' = new + 1 /\ new' \in 0 .. MaxManuscripts
  BY DEF LifecycleTypeOK, Submit
<1>2. \A m \in Manuscript :
        /\ author'[m] = IF m = new THEN k ELSE author[m]
        /\ status'[m] = IF m = new THEN "CHECKING" ELSE status[m]
        /\ version'[m] = IF m = new THEN 1 ELSE version[m]
  BY <1>1 DEF LifecycleTypeOK, Submit
<1>3. LifecycleTypeOK'
  BY <1>1, LifecycleAssumption
  DEF LifecycleTypeOK, Submit, UseNonce, moneyVars, Status
<1>4. \A m \in Manuscript : m < new' <=> m < new \/ m = new
  BY <1>1
<1>5. IdsInUse'
  BY <1>1, <1>2, <1>4 DEF IdsInUse
<1>6. \A j \in Key : nonces[j] <= nonces'[j]
  BY DEF LifecycleTypeOK, Submit, UseNonce
<1>7. Tracked = new => status[Tracked] = "SUBMITTED"
  BY <1>1 DEF IdsInUse
<1>8. /\ IsPublished => IsPublished'
      /\ Payable => Payable'
  BY <1>2, <1>7 DEF IsPublished, Payable, Payer, Submit, moneyVars
<1>9. ~ (new < new)
  BY <1>1
<1> QED
  BY <1>1, <1>2, <1>3, <1>5, <1>6, <1>8, <1>9 DEF Grows

LEMMA ReviseGrows ==
  ASSUME ChainOK, NEW m \in Manuscript, NEW k \in Key, NEW n, Revise(m, k, n)
  PROVE  Grows /\ ChainOK'
<1> USE Identifiers DEF ChainOK
<1>1. LifecycleTypeOK'
  <2>1. version[m] + 1 \in 0 .. MaxVersion
    BY LifecycleAssumption DEF LifecycleTypeOK, Revise
  <2> QED
    BY <2>1 DEF LifecycleTypeOK, Revise, UseNonce, moneyVars, Status
<1>2. \A l \in Manuscript :
        /\ author'[l] = author[l]
        /\ status'[l] = IF l = m THEN "CHECKING" ELSE status[l]
        /\ version'[l] = IF l = m THEN version[m] + 1 ELSE version[l]
  BY DEF LifecycleTypeOK, Revise
<1>3. m < nextManuscriptId
  BY DEF IdsInUse, Revise
<1>4. version[m] \in Nat
  BY DEF LifecycleTypeOK
<1>5. IdsInUse'
  BY <1>2, <1>3, <1>4 DEF IdsInUse, Revise
<1>6. \A j \in Key : nonces'[j] = IF j = k THEN nonces[j] + 1 ELSE nonces[j]
  BY DEF LifecycleTypeOK, Revise, UseNonce
<1>7. /\ \A j \in Key : nonces[j] <= nonces'[j]
      /\ nonces[k] < nonces'[k]
  BY <1>6 DEF LifecycleTypeOK
<1>8. /\ IsPublished => IsPublished'
      /\ Payable => Payable'
  BY <1>2 DEF IsPublished, Payable, Payer, Revise, moneyVars
<1>9. nextManuscriptId <= nextManuscriptId'
  BY DEF LifecycleTypeOK, Revise
<1> QED
  BY <1>1, <1>2, <1>5, <1>7, <1>8, <1>9 DEF Grows, Revise

LEMMA PayGrows ==
  ASSUME ChainOK, NEW k \in Key, Pay(Tracked, k)
  PROVE  Grows /\ ChainOK'
<1> USE Identifiers DEF ChainOK
<1>1. /\ jrt[k] - PUBLICATION_FEE \in Nat
      /\ approved[k] - PUBLICATION_FEE \in Nat
  BY LifecycleAssumption DEF LifecycleTypeOK, Pay
<1>2. LifecycleTypeOK'
  BY <1>1 DEF LifecycleTypeOK, Pay, Status
<1>3. \A l \in Manuscript :
        status'[l] = IF l = Tracked THEN "PUBLISHED" ELSE status[l]
  BY DEF LifecycleTypeOK, Pay
<1>4. IdsInUse'
  BY <1>3 DEF IdsInUse, Pay
<1>5. IsPublished'
  BY <1>3 DEF IsPublished
<1>6. nextManuscriptId <= nextManuscriptId' /\ \A j \in Key : nonces[j] <= nonces'[j]
  BY DEF LifecycleTypeOK, Pay
<1> QED
  BY <1>2, <1>4, <1>5, <1>6 DEF Grows, Pay

(* Approving and receiving only help whoever is about to pay.              *)
LEMMA MoneyGrows ==
  ASSUME ChainOK, NEW k \in Key, NEW amount \in Nat,
         Approve(k) \/ Receive(k, amount)
  PROVE  Grows /\ ChainOK'
<1> USE Identifiers DEF ChainOK
<1>1. UNCHANGED <<nextManuscriptId, author, status, version, nonces>>
  BY DEF Approve, Receive
<1>2. LifecycleTypeOK'
  BY LifecycleAssumption DEF LifecycleTypeOK, Approve, Receive
<1>3. IdsInUse'
  BY <1>1 DEF IdsInUse
<1>4. /\ nextManuscriptId <= nextManuscriptId'
      /\ \A j \in Key : nonces[j] <= nonces'[j]
  BY <1>1 DEF LifecycleTypeOK
<1>5. Payable => Payable'
  <2> SUFFICES ASSUME Payable PROVE Payable'
    OBVIOUS
  <2>1. Payer \in Key
    BY DEF Payable, Payer, IdsInUse, LifecycleTypeOK
  <2>2. /\ jrt'[Payer] >= PUBLICATION_FEE
        /\ approved'[Payer] >= PUBLICATION_FEE
    BY <2>1, LifecycleAssumption
    DEF Payable, LifecycleTypeOK, Approve, Receive
  <2> QED
    BY <1>1, <2>2 DEF Payable, Payer
<1> QED
  BY <1>1, <1>2, <1>3, <1>4, <1>5 DEF Grows, IsPublished

LEMMA OthersGrow ==
  ASSUME ChainOK, Others
  PROVE  /\ Grows /\ ChainOK'
         /\ UNCHANGED <<nextManuscriptId, author, jrt>>
         /\ status[Tracked] = "ACCEPTED" => status'[Tracked] = "ACCEPTED"
         /\ IsPublished' => IsPublished
<1> USE Identifiers DEF ChainOK
<1>1. PICK m \in Manuscript, from \in {"CHECKING", "PENDING_EDITOR", "UNDER_REVIEW"},
           to \in {"REJECTED", "PENDING_EDITOR", "UNDER_REVIEW", "ACCEPTED",
                   "REVISION_REQUESTED"} : Move(m, from, to)
  BY DEF Others, Check, Screen, Decide
<1>2. UNCHANGED <<nextManuscriptId, author, version, nonces, jrt, approved>>
  BY <1>1 DEF Move, moneyVars
<1>3. /\ status[m] = from
      /\ \A l \in Manuscript : status'[l] = IF l = m THEN to ELSE status[l]
  BY <1>1 DEF Move, LifecycleTypeOK
<1>4. LifecycleTypeOK'
  BY <1>1 DEF Move, moneyVars, LifecycleTypeOK, Status
<1>5. IdsInUse'
  BY <1>2, <1>3 DEF IdsInUse
<1>6. /\ nextManuscriptId <= nextManuscriptId'
      /\ \A j \in Key : nonces[j] <= nonces'[j]
  BY <1>2 DEF LifecycleTypeOK
<1>7. /\ IsPublished <=> IsPublished'
      /\ status[Tracked] = "ACCEPTED" => status'[Tracked] = "ACCEPTED"
  BY <1>3 DEF IsPublished
<1>8. Payable => Payable'
  BY <1>2, <1>7 DEF Payable, Payer
<1> QED
  BY <1>2, <1>4, <1>5, <1>6, <1>7, <1>8 DEF Grows

(* What was signed stays signed, whoever moves.                            *)
LEMMA SignedStays ==
  ASSUME Typed, Grows, ChainOK', savedKeys \subseteq savedKeys',
         NEW c \in Call
  PROVE  /\ HasKey(c) => HasKey(c)'
         /\ Signed(c) => Signed(c)'
<1>1. /\ c.m \in Manuscript /\ c.m \in Nat /\ c.nonce \in Nat
      /\ nextManuscriptId \in Nat /\ nextManuscriptId' \in Nat
      /\ nextManuscriptId <= nextManuscriptId'
  BY Identifiers DEF Call, Typed, ChainOK, LifecycleTypeOK, Grows
<1>2. c.m < nextManuscriptId => c.m < nextManuscriptId'
  BY <1>1
<1>3. HasKey(c) => HasKey(c)'
  BY <1>1, <1>2 DEF HasKey, Grows
<1>4. ASSUME Signed(c) PROVE Signed(c)'
  <2>1. c.key \in Key /\ HasKey(c)
    BY <1>4 DEF Signed, HasKey, Typed, FormTyped
  <2>2. /\ nonces[c.key] \in Nat /\ nonces'[c.key] \in Nat
        /\ nonces[c.key] <= nonces'[c.key] /\ c.nonce <= nonces[c.key]
    BY <1>4, <2>1 DEF Signed, Typed, ChainOK, LifecycleTypeOK, Grows
  <2>3. ASSUME c.kind = "revise", c.nonce = nonces'[c.key]
        PROVE  version'[c.m] = c.round
    <3>1. c.nonce = nonces[c.key] /\ version[c.m] = c.round
      BY <1>1, <1>4, <2>2, <2>3 DEF Signed
    <3>2. c.m < nextManuscriptId /\ author[c.m] = c.key
      BY <2>1, <2>3 DEF HasKey
    <3>3. ~ (nonces[c.key] < nonces'[c.key])
      BY <2>2, <2>3, <3>1
    <3> QED
      BY <1>1, <3>1, <3>2, <3>3 DEF Grows
  <2> QED
    BY <1>1, <1>3, <2>1, <2>2, <2>3 DEF Signed
<1> QED
  BY <1>3, <1>4

(* Every step of the client moves the contracts as they allow, or not.     *)
LEMMA TransferredGrows ==
  ASSUME Typed, PayerKnown, NEW amount \in Nat, Transferred(amount),
         Payer \in Key
  PROVE  /\ Grows /\ ChainOK' /\ wallet' \in Nat
         /\ UNCHANGED <<nextManuscriptId, author, status>>
<1>1. CASE amount <= wallet
  BY <1>1, MoneyGrows DEF Transferred, Receive, Typed, PageTyped, ChainOK
<1>2. CASE ~ (amount <= wallet)
  BY <1>2, IdleChainGrows
  DEF Transferred, Typed, PageTyped, ChainOK, lifecycleVars
<1> QED
  BY <1>1, <1>2

LEMMA PaidGrows ==
  ASSUME Typed, Payer \in Key, Paid
  PROVE  /\ Grows /\ ChainOK'
         /\ UNCHANGED <<nextManuscriptId, author>>
BY PayGrows, IdleChainGrows DEF Paid, Typed, ChainOK, Pay, lifecycleVars

LEMMA FormStepGrows ==
  ASSUME ClientInv, FormStep
  PROVE  Grows /\ ChainOK'
<1>1. CASE UNCHANGED lifecycleVars
  BY <1>1, IdleChainGrows DEF ClientInv, Typed, ChainOK
<1>2. ASSUME NEW c \in mempool, Mine(c)
      PROVE  Grows /\ ChainOK'
  <2>1. c.key \in Key /\ c.m \in Manuscript
    BY DEF ClientInv, CallsInv, Signed, HasKey, Typed, FormTyped, Call
  <2> QED
    BY <1>2, <2>1, SubmitGrows, ReviseGrows DEF Mine, ClientInv, Typed, ChainOK
<1> QED
  BY <1>1, <1>2
  DEF FormStep, ClickSubmit, ClickRevise, Uploaded, Sign, Broadcast, Succeed,
      Fail, Revert, Replaced, EnterId, LookedUp

LEMMA PageStepGrows ==
  ASSUME ClientInv, PageStep
  PROVE  /\ Grows /\ ChainOK' /\ wallet' \in Nat
         /\ UNCHANGED <<nextManuscriptId, author>>
<1> DEFINE Goal == /\ Grows /\ ChainOK' /\ wallet' \in Nat
                   /\ UNCHANGED <<nextManuscriptId, author>>
<1>1. CASE UNCHANGED lifecycleVars /\ UNCHANGED wallet
  BY <1>1, IdleChainGrows
  DEF ClientInv, Typed, PageTyped, ChainOK, lifecycleVars
<1>2. ASSUME NEW i \in Invocation, TransferDone(i)
      PROVE  Goal
  <2>1. Payer \in Key /\ pay[i].amount \in Nat
    BY <1>2, LifecycleAssumption
    DEF TransferDone, ClientInv, PayInv, PayerKnown, At, Typed, PageTyped, Run
  <2> QED
    BY <1>2, <2>1, TransferredGrows DEF TransferDone, ClientInv, PayInv
<1>3. ASSUME NEW i \in Invocation, ApproveDone(i)
      PROVE  Goal
  <2>1. Payer \in Key
    BY <1>3 DEF ApproveDone, ClientInv, PayInv, PayerKnown, At
  <2> QED
    BY <1>3, <2>1, MoneyGrows
    DEF ApproveDone, Approve, ClientInv, Typed, PageTyped, ChainOK
<1>4. ASSUME NEW i \in Invocation, PaymentDone(i)
      PROVE  Goal
  <2>1. Payer \in Key
    BY <1>4 DEF PaymentDone, ClientInv, PayInv, PayerKnown, At
  <2> QED
    BY <1>4, <2>1, PaidGrows DEF PaymentDone, ClientInv, Typed, PageTyped
<1>5. ASSUME NEW tx \in late, LateMined(tx)
      PROVE  Goal
  <2>1. Payer \in Key /\ PUBLICATION_FEE \in Nat
    BY LifecycleAssumption DEF ClientInv, PayInv, PayerKnown
  <2> QED
    BY <1>5, <2>1, PaidGrows, TransferredGrows
    DEF LateMined, ClientInv, PayInv, Typed, PageTyped
<1>6. ASSUME NEW i \in Invocation,
             \/ ClickPay(i) \/ ReadBalance(i) \/ GasDone(i)
             \/ SendPayment(i) \/ PayFails(i)
      PROVE  Goal
  BY <1>1, <1>6 DEF ClickPay, ReadBalance, GasDone, SendPayment, PayFails
<1>7. ASSUME \/ Open \/ Load \/ Leave \/ Poll
             \/ \E s \in polls : PollAnswer(s) \/ PollFails(s)
      PROVE  Goal
  BY <1>1, <1>7 DEF Open, Load, Leave, Poll, PollAnswer, PollFails, payVars
<1> QED
  BY <1>2, <1>3, <1>4, <1>5, <1>6, <1>7 DEF PageStep, PayRun

(***************************************************************************)
(* Calls, action by action.                                                *)
(***************************************************************************)
LEMMA NothingFound ==
  /\ NoLookup \in [id : EnteredId, ms : LookupResult, out : SUBSET EnteredId]
  /\ NoLookup.ms.status = "none"
  /\ NoCall \in Call
  /\ NoCall.kind = "none"
BY LifecycleAssumption, ClientAssumption, Identifiers
DEF NoLookup, Nothing, NoCall, Call, EnteredId, LookupResult, Tracked

(* Steps that leave the calls and the keys alone.                          *)
LEMMA CallsKept ==
  ASSUME Typed, CallsInv, Grows, ChainOK',
         UNCHANGED <<formVars, author, nextManuscriptId>>,
         lookup' \in {lookup, NoLookup}
  PROVE  FormTyped' /\ CallsInv'
<1> USE DEF formVars
<1>1. FormTyped'
  BY NothingFound DEF Typed, FormTyped
<1>2. KeysKept' /\ KeysCounted' /\ MappedIsOnChain'
  BY DEF CallsInv, KeysKept, KeysCounted, MappedIsOnChain
<1>3. \A c \in Call : /\ HasKey(c) => HasKey(c)'
                      /\ Signed(c) => Signed(c)'
  BY SignedStays
<1>4. form.call \in Call /\ mempool \subseteq Call
  BY DEF Typed, FormTyped
<1>5. FormKnown'
  BY <1>3, <1>4, NothingFound DEF CallsInv, FormKnown, OnChain
<1> QED
  BY <1>1, <1>2, <1>3, <1>4, <1>5 DEF CallsInv

(* A fresh key exists as long as attempts are left, and adds one key.      *)
LEMMA FreshKeyExists ==
  ASSUME Typed, CallsInv, form.step = "uploading"
  PROVE  /\ FreshKey \in Key \ savedKeys
         /\ FreshKey \notin {author[m] : m \in Manuscript}
<1>1. savedKeys # Key
  <2>1. /\ Cardinality(savedKeys) \in Nat
        /\ Cardinality(savedKeys) < attempts
        /\ attempts \in Nat /\ attempts <= MaxAttempts
    BY ClientAssumption, FS_CardinalityType
    DEF CallsInv, KeysCounted, Typed, FormTyped
  <2>2. Cardinality(Key) \in Nat /\ MaxAttempts <= Cardinality(Key)
    BY ClientAssumption, FS_CardinalityType
  <2> QED
    BY <2>1, <2>2, ClientAssumption
<1>2. PICK k \in Key : k \notin savedKeys
  BY <1>1 DEF Typed, FormTyped
<1>3. ASSUME NEW m \in Manuscript PROVE author[m] \in savedKeys \cup {NoKey}
  BY DEF Typed, IdsInUse, CallsInv, KeysKept
<1>4. k \notin {author[m] : m \in Manuscript} \cup savedKeys
  BY <1>2, <1>3, Identifiers
<1> QED
  BY <1>2, <1>4 DEF FreshKey

LEMMA UploadedCalls ==
  ASSUME ClientInv, Uploaded
  PROVE  FormTyped' /\ CallsInv'
<1> DEFINE k == KeyFor(form.call)
<1> USE Identifiers
<1>1. /\ form.step = "uploading" /\ form.call \in Call
      /\ form \in [step : Steps, call : Call]
      /\ form.call.kind \in {"submit", "revise"}
      /\ form.call.m \in Manuscript
      /\ form.call.kind = "revise" => form.call.m < nextManuscriptId
  BY DEF ClientInv, Typed, FormTyped, CallsInv, FormKnown, Uploaded, Call
<1>2. k \in Key /\ (form.call.kind = "revise" => k = author[form.call.m]
                                                 /\ k \in savedKeys)
  BY <1>1, FreshKeyExists
  DEF KeyFor, ClientInv, CallsInv, KeysKept, Typed, FormTyped
<1>3. /\ form'.step = "signing" /\ form'.call = [form.call EXCEPT !.key = k]
      /\ form' \in [step : Steps, call : Call]
      /\ savedKeys' = savedKeys \cup {k}
  BY <1>1, <1>2 DEF Uploaded, Steps, Call
<1> HIDE DEF k
<1>4. /\ UNCHANGED <<mapped, attempts, mempool, lookup>>
      /\ UNCHANGED lifecycleVars
  BY DEF Uploaded
<1>5. FormTyped'
  BY <1>2, <1>3, <1>4 DEF ClientInv, Typed, FormTyped
<1>6. Grows /\ ChainOK'
  BY <1>4, IdleChainGrows DEF ClientInv, Typed, ChainOK
<1>7. \A c \in mempool : Signed(c)'
  BY <1>3, <1>6, SignedStays
  DEF ClientInv, CallsInv, Typed, FormTyped
<1>8. HasKey(form.call)'
  <2>1. form'.call.kind = form.call.kind /\ form'.call.key = k
        /\ form'.call.m = form.call.m
    BY <1>1, <1>3 DEF Call
  <2> QED
    BY <1>1, <1>2, <1>3, <1>4, <2>1 DEF HasKey, lifecycleVars
<1>9. KeysCounted'
  <2>0. IsFiniteSet(savedKeys) /\ savedKeys' = savedKeys \cup {k}
    BY <1>3 DEF ClientInv, CallsInv, KeysCounted
  <2>1. /\ IsFiniteSet(savedKeys')
        /\ Cardinality(savedKeys') <= Cardinality(savedKeys) + 1
    <3>1. Cardinality(savedKeys) \in Nat
      BY <2>0, FS_CardinalityType
    <3>2. /\ IsFiniteSet(savedKeys \cup {k})
          /\ Cardinality(savedKeys \cup {k}) =
               IF k \in savedKeys THEN Cardinality(savedKeys)
               ELSE Cardinality(savedKeys) + 1
      BY <2>0, FS_AddElement
    <3> QED
      BY <2>0, <3>1, <3>2
  <2> QED
    BY <1>1, <1>3, <1>4, <2>1, FS_CardinalityType, ClientAssumption
    DEF ClientInv, CallsInv, KeysCounted, Typed, FormTyped
<1>10. FormKnown'
  BY <1>1, <1>3, <1>4, <1>8
  DEF ClientInv, CallsInv, FormKnown, lifecycleVars, HasKey
<1> QED
  BY <1>3, <1>4, <1>5, <1>7, <1>9, <1>10
  DEF ClientInv, CallsInv, KeysKept, MappedIsOnChain, lifecycleVars

(* Steps of the handler that move neither the chain nor the saved keys.    *)
LEMMA HandlerCalls ==
  ASSUME ClientInv, UNCHANGED <<lifecycleVars, savedKeys, attempts>>,
         FormTyped', FormKnown', MappedIsOnChain',
         form'.step = "uploading" => form.step = "uploading",
         \A c \in mempool' : Signed(c)
  PROVE  FormTyped' /\ CallsInv'
<1>1. Grows /\ ChainOK'
  BY IdleChainGrows DEF ClientInv, Typed, ChainOK
<1>2. \A c \in mempool' : Signed(c)'
  <2>1. Typed /\ savedKeys' = savedKeys
    BY DEF ClientInv
  <2>2. \A c \in Call : Signed(c) => Signed(c)'
    BY <1>1, <2>1, SignedStays
  <2>3. mempool' \subseteq Call
    BY DEF FormTyped
  <2> QED
    BY <2>2, <2>3
<1>3. KeysCounted'
  BY DEF ClientInv, CallsInv, KeysCounted
<1> QED
  BY <1>2, <1>3 DEF ClientInv, CallsInv, KeysKept, lifecycleVars

LEMMA SignCalls ==
  ASSUME ClientInv, Sign
  PROVE  FormTyped' /\ CallsInv'
<1> USE Identifiers
<1>1. /\ form.step = "signing" /\ form.call \in Call
      /\ form \in [step : Steps, call : Call]
      /\ HasKey(form.call)
  BY DEF ClientInv, Typed, FormTyped, CallsInv, FormKnown, Sign
<1>2. /\ form.call.key \in Key /\ form.call.m \in Manuscript
      /\ nonces[form.call.key] \in Nat /\ version[form.call.m] \in Nat
  <2>1. form.call.key \in Key /\ form.call.m \in Manuscript
    BY <1>1 DEF HasKey, ClientInv, Typed, FormTyped, Call
  <2>2. nonces \in [Key -> Nat] /\ version \in [Manuscript -> Nat]
    BY LifecycleAssumption DEF ClientInv, Typed, LifecycleTypeOK
  <2> QED
    BY <2>1, <2>2
<1> DEFINE r == IF form.call.kind = "submit" THEN 0 ELSE version[form.call.m]
<1>3. r \in Nat
  BY <1>2
<1>4. /\ form'.step = "posting"
      /\ form'.call = [form.call EXCEPT !.nonce = nonces[form.call.key],
                                        !.round = r]
      /\ form' \in [step : Steps, call : Call]
  BY <1>1, <1>2, <1>3 DEF Sign, Steps, Call
<1>5. /\ form'.call.kind = form.call.kind /\ form'.call.m = form.call.m
      /\ form'.call.key = form.call.key /\ form'.call.round = r
      /\ form'.call.nonce = nonces[form.call.key]
  BY <1>1, <1>4 DEF Call
<1>6. UNCHANGED <<lifecycleVars, savedKeys, attempts, mapped, mempool, lookup>>
  BY DEF Sign
<1>7. FormTyped'
  BY <1>4, <1>6 DEF ClientInv, Typed, FormTyped
<1>8. Signed(form.call)'
  BY <1>1, <1>2, <1>5, <1>6 DEF Signed, HasKey, lifecycleVars
<1>9. FormKnown'
  BY <1>4, <1>5, <1>6, <1>8, <1>1
  DEF FormKnown, ClientInv, CallsInv, lifecycleVars, HasKey
<1> QED
  <2>1. /\ UNCHANGED <<lifecycleVars, savedKeys, attempts>>
        /\ mapped' = mapped /\ mempool' = mempool
        /\ form'.step # "uploading"
    BY <1>4, <1>6
  <2>2. MappedIsOnChain'
    BY <1>6 DEF ClientInv, CallsInv, MappedIsOnChain, lifecycleVars
  <2>3. \A c \in mempool' : Signed(c)
    BY <2>1 DEF ClientInv, CallsInv
  <2> HIDE DEF r
  <2> QED
    BY <1>7, <1>9, <2>1, <2>2, <2>3, HandlerCalls

LEMMA ClickCalls ==
  ASSUME ClientInv, ClickSubmit \/ ClickRevise
  PROVE  FormTyped' /\ CallsInv'
<1> USE Identifiers, NothingFound
<1>1. /\ form.step = "form" /\ attempts < MaxAttempts
      /\ attempts' = attempts + 1 /\ form'.step = "uploading"
      /\ UNCHANGED <<lifecycleVars, savedKeys, mapped, mempool>>
      /\ lookup' \in {lookup, NoLookup}
  BY DEF ClickSubmit, ClickRevise, SubmitEnabled, ReviseEnabled
<1>2. attempts \in Nat /\ attempts + 1 \in 0 .. MaxAttempts
  BY <1>1, ClientAssumption DEF ClientInv, Typed, FormTyped
<1>3. /\ form'.call.kind \in {"submit", "revise"}
      /\ form'.call.kind = "revise" => form'.call.m < nextManuscriptId
      /\ form' \in [step : Steps, call : Call]
  <2>1. CASE ClickSubmit
    <3>1. form' = [step |-> "uploading",
                   call |-> [NoCall EXCEPT !.kind = "submit",
                                           !.file = attempts + 1]]
      BY <2>1 DEF ClickSubmit
    <3> QED
      BY <3>1, <1>2 DEF Steps, Call, NoCall
  <2>2. CASE ClickRevise
    <3>1. form' = [step |-> "uploading",
                   call |-> [NoCall EXCEPT !.kind = "revise",
                                           !.m = lookup.ms.id,
                                           !.file = attempts + 1]]
          /\ lookup.ms.status = "REVISION_REQUESTED"
      BY <2>2 DEF ClickRevise, ReviseEnabled
    <3>2. lookup.ms.id < nextManuscriptId /\ lookup.ms.id \in Manuscript
      <4>1. lookup.ms.id < nextManuscriptId
        BY <3>1 DEF ClientInv, CallsInv, FormKnown
      <4>2. lookup.ms.id \in 0 .. MaxManuscripts
        BY DEF ClientInv, Typed, FormTyped, LookupResult, EnteredId
      <4>3. nextManuscriptId \in 0 .. MaxManuscripts
        BY DEF ClientInv, Typed, LifecycleTypeOK
      <4> QED
        BY <4>1, <4>2, <4>3, LifecycleAssumption DEF Manuscript
    <3> QED
      BY <3>1, <3>2, <1>2 DEF Steps, Call, NoCall
  <2> QED
    BY <2>1, <2>2 DEF ClickSubmit, ClickRevise
<1>4. FormTyped'
  BY <1>1, <1>2, <1>3 DEF ClientInv, Typed, FormTyped
<1>5. Grows /\ ChainOK'
  BY <1>1, IdleChainGrows DEF ClientInv, Typed, ChainOK
<1>6. \A c \in mempool' : Signed(c)'
  BY <1>1, <1>5, SignedStays DEF ClientInv, CallsInv, Typed, FormTyped
<1>7. KeysCounted'
  BY <1>1, <1>2, FS_CardinalityType DEF ClientInv, CallsInv, KeysCounted
<1>8. FormKnown'
  BY <1>1, <1>3 DEF FormKnown, ClientInv, CallsInv, lifecycleVars
<1> QED
  BY <1>1, <1>4, <1>6, <1>7, <1>8
  DEF ClientInv, CallsInv, KeysKept, MappedIsOnChain, lifecycleVars

(* Posting, and every way it ends but being mined.                         *)
LEMMA RelayCalls ==
  ASSUME ClientInv,
         \/ Broadcast \/ Succeed \/ Fail
         \/ \E c \in mempool : Revert(c) \/ Replaced(c)
  PROVE  FormTyped' /\ CallsInv'
<1> USE Identifiers, NothingFound
<1>1. /\ form.call \in Call /\ form \in [step : Steps, call : Call]
      /\ form.step # "form" => form.call.kind \in {"submit", "revise"}
      /\ form.step \in {"posting", "waiting", "mined", "reverted"} =>
           Signed(form.call)
  BY DEF ClientInv, Typed, FormTyped, CallsInv, FormKnown
<1>2. UNCHANGED <<lifecycleVars, savedKeys, attempts>>
  BY DEF Broadcast, Succeed, Fail, Revert, Replaced
<1>3. /\ form' \in [step : Steps, call : Call]
      /\ \/ form' = [step |-> "form", call |-> NoCall]
         \/ form' = form
         \/ /\ form.step = "posting" /\ form'.step = "waiting"
            /\ form'.call = form.call
         \/ /\ form.step = "waiting" /\ form'.step = "reverted"
            /\ form'.call = form.call
  BY <1>1 DEF Broadcast, Succeed, Fail, Revert, Replaced, Awaited, Steps
<1>4. /\ lookup' = lookup \/ lookup' = NoLookup
      /\ \/ mempool' \subseteq mempool
         \/ mempool' = mempool \cup {form.call} /\ form.step = "posting"
  BY DEF Broadcast, Succeed, Fail, Revert, Replaced
<1>5. \/ mapped' = mapped
      \/ /\ form.step = "mined" /\ form.call.kind = "submit"
         /\ mapped' = mapped \cup {form.call.key}
  BY DEF Broadcast, Succeed, Fail, Revert, Replaced
<1>6. /\ \A c \in mempool : Signed(c)
      /\ mempool \subseteq Call
      /\ form.step = "mined" => OnChain(form.call)
      /\ lookup.ms.status # "none" => lookup.ms.id < nextManuscriptId
      /\ form.call.kind = "revise" => form.call.m < nextManuscriptId
  BY DEF ClientInv, CallsInv, FormKnown, Typed, FormTyped
<1>7. \A c \in mempool' : Signed(c) /\ c \in Call
  BY <1>1, <1>4, <1>6
<1>8. MappedIsOnChain' /\ mapped' \subseteq Key
  <2>1. mapped \subseteq Key /\ MappedIsOnChain
    BY DEF ClientInv, Typed, FormTyped, CallsInv
  <2>2. CASE mapped' = mapped
    BY <1>2, <2>1, <2>2 DEF MappedIsOnChain, lifecycleVars
  <2>3. CASE /\ form.step = "mined" /\ form.call.kind = "submit"
             /\ mapped' = mapped \cup {form.call.key}
    <3>1. form.call.key \in {author[m] : m \in Manuscript}
      BY <1>6, <2>3 DEF OnChain
    <3>2. form.call.key \in Key
      BY <1>1, <2>3 DEF Signed, HasKey, ClientInv, Typed, FormTyped
    <3> QED
      BY <1>2, <2>1, <2>3, <3>1, <3>2 DEF MappedIsOnChain, lifecycleVars
  <2> QED
    BY <1>5, <2>2, <2>3
<1>9. FormTyped'
  BY <1>2, <1>3, <1>4, <1>7, <1>8 DEF ClientInv, Typed, FormTyped
<1>10. Signed(form.call) => Signed(form.call)' \/ form' = [step |-> "form", call |-> NoCall]
  <2>1. Grows /\ ChainOK'
    BY <1>2, IdleChainGrows DEF ClientInv, Typed, ChainOK
  <2>2. Signed(form.call) => Signed(form'.call) \/ form' = [step |-> "form", call |-> NoCall]
    BY <1>3
  <2> QED
    BY <1>2, <2>2 DEF Signed, HasKey, lifecycleVars
<1>11. FormKnown'
  <2>1. CASE form' = [step |-> "form", call |-> NoCall]
    BY <1>2, <1>4, <1>6, <2>1 DEF FormKnown, lifecycleVars
  <2>2. CASE form' = form
    <3>1. FormKnown
      BY DEF ClientInv, CallsInv
    <3> QED
      BY <1>2, <1>4, <2>2, <3>1
      DEF FormKnown, Signed, HasKey, OnChain, lifecycleVars
  <2>3. CASE /\ form.step \in {"posting", "waiting"}
             /\ form'.step \in {"waiting", "reverted"}
             /\ form'.call = form.call
    <3>1. Signed(form.call)' /\ form'.call.kind \in {"submit", "revise"}
      BY <1>1, <1>10, <2>3
    <3> QED
      BY <1>2, <1>4, <1>6, <2>3, <3>1 DEF FormKnown, lifecycleVars
  <2> QED
    BY <1>3, <2>1, <2>2, <2>3
<1>12. form'.step = "uploading" => form.step = "uploading"
  BY <1>3
<1> QED
  BY <1>2, <1>7, <1>8, <1>9, <1>11, <1>12, HandlerCalls

(* The revise page's lookup.                                               *)
LEMMA LookupCalls ==
  ASSUME ClientInv, NEW id \in EnteredId, EnterId(id) \/ LookedUp(id)
  PROVE  FormTyped' /\ CallsInv'
<1> USE Identifiers, NothingFound
<1>1. UNCHANGED <<lifecycleVars, savedKeys, attempts, mapped, mempool, form>>
  BY DEF EnterId, LookedUp, formVars
<1>2. /\ lookup \in [id : EnteredId, ms : LookupResult, out : SUBSET EnteredId]
      /\ lookup.ms.status # "none" => lookup.ms.id < nextManuscriptId
  BY DEF ClientInv, CallsInv, FormKnown, Typed, FormTyped
<1>3. /\ Nothing \in LookupResult /\ Nothing.status = "none"
      /\ Found(id) \in LookupResult
      /\ Found(id).status # "none" => Found(id).id < nextManuscriptId
  <2>1. Nothing \in LookupResult /\ Nothing.status = "none"
    BY LifecycleAssumption DEF Nothing, LookupResult, EnteredId
  <2>2. CASE id < nextManuscriptId
    <3>1. id \in Manuscript
      <4>1. id \in 0 .. MaxManuscripts /\ nextManuscriptId \in 0 .. MaxManuscripts
        BY DEF ClientInv, Typed, LifecycleTypeOK, EnteredId
      <4> QED
        BY <2>2, <4>1, LifecycleAssumption DEF Manuscript
    <3>2. status[id] \in Status
      BY <3>1 DEF ClientInv, Typed, LifecycleTypeOK
    <3> QED
      BY <2>1, <2>2, <3>2 DEF Found, LookupResult
  <2>3. CASE ~ (id < nextManuscriptId)
    BY <2>1, <2>3 DEF Found
  <2> QED
    BY <2>1, <2>2, <2>3
<1>4. /\ lookup' \in [id : EnteredId, ms : LookupResult, out : SUBSET EnteredId]
      /\ lookup'.ms \in {lookup.ms, Nothing, Found(id)}
  <2>1. CASE EnterId(id)
    <3>1. lookup' = [id |-> id, ms |-> Nothing, out |-> lookup.out \cup {id}]
      BY <2>1 DEF EnterId
    <3> QED
      BY <1>2, <1>3, <3>1
  <2>2. CASE LookedUp(id)
    <3> DEFINE shownMs == IF id = lookup.id THEN Found(id) ELSE lookup.ms
    <3>1. lookup' = [lookup EXCEPT !.out = @ \ {id}, !.ms = shownMs]
      BY <2>2 DEF LookedUp
    <3>2. shownMs \in LookupResult /\ shownMs \in {lookup.ms, Found(id)}
      BY <1>2, <1>3
    <3> HIDE DEF shownMs
    <3> QED
      BY <1>2, <3>1, <3>2
  <2> QED
    BY <2>1, <2>2
<1>5. FormTyped'
  BY <1>1, <1>4 DEF ClientInv, Typed, FormTyped
<1>6. FormKnown'
  <2>1. lookup'.ms.status # "none" => lookup'.ms.id < nextManuscriptId
    BY <1>2, <1>3, <1>4
  <2>2. FormKnown
    BY DEF ClientInv, CallsInv
  <2> QED
    BY <1>1, <2>1, <2>2 DEF FormKnown, Signed, HasKey, OnChain, lifecycleVars
<1>7. MappedIsOnChain' /\ \A c \in mempool' : Signed(c)
  BY <1>1 DEF ClientInv, CallsInv, MappedIsOnChain, lifecycleVars
<1> QED
  BY <1>1, <1>5, <1>6, <1>7, HandlerCalls

(* Being mined.  Authors only come to be known.                            *)
LEMMA AuthorsStay ==
  ASSUME Typed, Grows, NEW k \in Key, k \in {author[m] : m \in Manuscript}
  PROVE  k \in {author'[m] : m \in Manuscript}
<1>1. PICK m \in Manuscript : author[m] = k
  OBVIOUS
<1>2. m < nextManuscriptId
  BY <1>1, Identifiers DEF Typed, IdsInUse
<1> QED
  BY <1>1, <1>2 DEF Grows

LEMMA MineCalls ==
  ASSUME ClientInv, NEW c \in mempool, Mine(c)
  PROVE  FormTyped' /\ CallsInv'
<1> USE Identifiers
<1>1. /\ c \in Call /\ Signed(c) /\ c.key \in Key /\ c.m \in Manuscript
      /\ c.key \in savedKeys
  BY DEF ClientInv, CallsInv, Signed, HasKey, Typed, FormTyped, Call
<1>2. /\ UNCHANGED <<savedKeys, mapped, attempts, lookup>>
      /\ mempool' = mempool \ {c}
      /\ form' = IF Awaited(c) THEN [form EXCEPT !.step = "mined"] ELSE form
  BY DEF Mine
<1>3. Grows /\ ChainOK'
  BY FormStepGrows DEF FormStep
<1>4. /\ form.call \in Call /\ form \in [step : Steps, call : Call]
      /\ form.step # "form" => form.call.kind \in {"submit", "revise"}
      /\ form.step \in {"posting", "waiting", "mined", "reverted"} =>
           Signed(form.call)
      /\ form.step = "signing" => HasKey(form.call)
      /\ form.step = "mined" => OnChain(form.call)
  BY DEF ClientInv, Typed, FormTyped, CallsInv, FormKnown
<1>5. /\ form' \in [step : Steps, call : Call] /\ form'.call = form.call
      /\ \/ form'.step = form.step
         \/ form.step = "waiting" /\ form'.step = "mined" /\ form.call = c
  BY <1>2, <1>4 DEF Awaited, Steps
<1>6. FormTyped'
  BY <1>2, <1>5 DEF ClientInv, Typed, FormTyped
<1>7. \A d \in Call : /\ HasKey(d) => HasKey(d)'
                      /\ Signed(d) => Signed(d)'
  BY <1>2, <1>3, SignedStays DEF ClientInv
<1>8. \A d \in mempool' : Signed(d)'
  BY <1>2, <1>7 DEF ClientInv, CallsInv, Typed, FormTyped
<1>9. c.kind = "submit" => c.key \in {author'[m] : m \in Manuscript}
  <2> SUFFICES ASSUME c.kind = "submit"
               PROVE  c.key \in {author'[m] : m \in Manuscript}
    OBVIOUS
  <2>1. Submit(c.key, c.nonce)
    BY DEF Mine
  <2>2. nextManuscriptId \in Manuscript
    BY <2>1 DEF Submit, ClientInv, Typed, LifecycleTypeOK
  <2>3. author'[nextManuscriptId] = c.key
    BY <2>1, <2>2 DEF Submit, ClientInv, Typed, LifecycleTypeOK
  <2> QED
    BY <2>2, <2>3
<1>10. KeysKept'
  <2>1. ASSUME NEW m \in Manuscript, m < nextManuscriptId'
        PROVE  author'[m] \in savedKeys
    <3>1. CASE m < nextManuscriptId
      BY <1>3, <3>1 DEF Grows, ClientInv, CallsInv, KeysKept
    <3>2. CASE ~ (m < nextManuscriptId)
      <4>1. Submit(c.key, c.nonce)
        BY <2>1, <3>2 DEF Mine, Revise
      <4>2. nextManuscriptId \in Nat /\ m \in Nat
            /\ nextManuscriptId' = nextManuscriptId + 1
        BY <4>1 DEF Submit, ClientInv, Typed, LifecycleTypeOK
      <4>3. m = nextManuscriptId
        BY <2>1, <3>2, <4>2
      <4> QED
        BY <1>1, <4>1, <4>3 DEF Submit, ClientInv, Typed, LifecycleTypeOK
    <3> QED
      BY <3>1, <3>2
  <2> QED
    BY <1>2, <2>1 DEF KeysKept
<1>11. KeysCounted'
  BY <1>2, <1>5 DEF ClientInv, CallsInv, KeysCounted
<1>12. MappedIsOnChain'
  <2>1. \A k \in mapped : k \in Key /\ k \in {author[m] : m \in Manuscript}
    BY DEF ClientInv, CallsInv, MappedIsOnChain, Typed, FormTyped
  <2>2. \A k \in mapped : k \in {author'[m] : m \in Manuscript}
    BY <1>3, <2>1, AuthorsStay DEF ClientInv
  <2> QED
    BY <1>2, <2>2 DEF MappedIsOnChain
<1>13. FormKnown'
  <2>1. nextManuscriptId <= nextManuscriptId' /\ nextManuscriptId \in Nat
        /\ nextManuscriptId' \in Nat
    BY <1>3 DEF Grows, ChainOK, ClientInv, Typed, LifecycleTypeOK
  <2>2. lookup.ms.status # "none" => lookup.ms.id < nextManuscriptId'
    <3>1. lookup.ms.id \in Nat
      BY DEF ClientInv, Typed, FormTyped, LookupResult, EnteredId
    <3> QED
      BY <2>1, <3>1 DEF ClientInv, CallsInv, FormKnown
  <2>3. form.call.kind = "revise" => form.call.m < nextManuscriptId'
    <3>1. form.call.m \in Nat
      BY <1>4 DEF Call
    <3> QED
      BY <2>1, <3>1 DEF ClientInv, CallsInv, FormKnown
  <2>4. form'.step = "mined" => OnChain(form.call)'
    <3>1. ASSUME form.step = "mined", form.call.kind = "submit"
          PROVE  form.call.key \in {author'[m] : m \in Manuscript}
      <4>1. form.call.key \in Key
        BY <1>4, <3>1 DEF Signed, HasKey, ClientInv, Typed, FormTyped
      <4> QED
        BY <1>3, <1>4, <3>1, <4>1, AuthorsStay DEF OnChain, ClientInv
    <3> QED
      BY <1>5, <1>9, <3>1 DEF OnChain
  <2>5. /\ form'.step = "signing" => HasKey(form.call)'
        /\ form'.step \in {"posting", "waiting", "mined", "reverted"} =>
             Signed(form.call)'
    BY <1>4, <1>5, <1>7
  <2> QED
    BY <1>2, <1>4, <1>5, <2>2, <2>3, <2>4, <2>5 DEF FormKnown
<1> QED
  BY <1>6, <1>8, <1>10, <1>11, <1>12, <1>13 DEF CallsInv

(* CallsInv is kept by every step.                                         *)
LEMMA NextCalls ==
  ASSUME ClientInv, [Next]_vars
  PROVE  Grows /\ ChainOK' /\ FormTyped' /\ CallsInv'
<1>1. CASE FormStep
  <2>1. Grows /\ ChainOK'
    BY <1>1, FormStepGrows
  <2> QED
    BY <1>1, <2>1, ClickCalls, UploadedCalls, SignCalls, RelayCalls, LookupCalls,
       MineCalls DEF FormStep
<1>2. CASE PageStep
  <2>1. /\ Grows /\ ChainOK'
        /\ UNCHANGED <<nextManuscriptId, author>>
    BY <1>2, PageStepGrows
  <2>2. UNCHANGED formVars /\ lookup' \in {lookup, NoLookup}
    BY <1>2
    DEF PageStep, PayRun, Open, Load, Leave, ClickPay, ReadBalance,
        TransferDone, GasDone, ApproveDone, SendPayment, PaymentDone,
        PayFails, LateMined, Poll, PollAnswer, PollFails, payFrame
  <2> QED
    BY <2>1, <2>2, CallsKept DEF ClientInv
<1>3. CASE ChainMoves
  <2>1. /\ Grows /\ ChainOK'
        /\ UNCHANGED <<nextManuscriptId, author, formVars, lookup>>
    BY <1>3, OthersGrow DEF ChainMoves, ClientInv, Typed, ChainOK
  <2> QED
    BY <2>1, CallsKept DEF ClientInv
<1>4. CASE Sync \/ UNCHANGED vars
  <2>1. UNCHANGED <<lifecycleVars, formVars, lookup>>
    BY <1>4 DEF Sync, vars
  <2>2. Grows /\ ChainOK'
    BY <2>1, IdleChainGrows DEF ClientInv, Typed, ChainOK
  <2> QED
    BY <2>1, <2>2, CallsKept DEF ClientInv, lifecycleVars
<1> QED
  BY <1>1, <1>2, <1>3, <1>4 DEF Next

(***************************************************************************)
(* The tracker page.  Steps of the forms, of the contracts and of the node *)
(* the backend reads leave the runs alone.                                 *)
(***************************************************************************)
LEMMA StartedOnce ==
  ASSUME ClientInv, Grows, Payer \in Key
  PROVE  Payer' = Payer
BY Identifiers DEF Grows, Payer, ClientInv, Typed, IdsInUse

(* What the forms and the others do to the tracked manuscript.             *)
LEMMA OffPageSteps ==
  ASSUME ClientInv, FormStep \/ ChainMoves \/ Sync
  PROVE  /\ UNCHANGED pageVars
         /\ seen' \in {seen, status'[Tracked]}
         /\ status[Tracked] = "ACCEPTED" => status'[Tracked] = "ACCEPTED"
         /\ IsPublished' => IsPublished
         /\ jrt' = jrt
<1> USE Identifiers
<1>1. CASE FormStep
  <2>1. CASE UNCHANGED <<lifecycleVars, pageVars, seen>>
    BY <2>1 DEF lifecycleVars, IsPublished
  <2>2. ASSUME NEW c \in mempool, Mine(c)
        PROVE  /\ UNCHANGED pageVars
               /\ seen' \in {seen, status'[Tracked]}
               /\ status[Tracked] = "ACCEPTED" => status'[Tracked] = "ACCEPTED"
               /\ IsPublished' => IsPublished
               /\ jrt' = jrt
    <3>1. UNCHANGED pageVars /\ seen' = status'[Tracked] /\ jrt' = jrt
      BY <2>2 DEF Mine, Submit, Revise, moneyVars
    <3>2. CASE Submit(c.key, c.nonce)
      <4>1. status' = [status EXCEPT ![nextManuscriptId] = "CHECKING"]
        BY <3>2 DEF Submit
      <4>2. Tracked = nextManuscriptId => status[Tracked] = "SUBMITTED"
        BY DEF ClientInv, Typed, IdsInUse, LifecycleTypeOK
      <4> QED
        BY <3>1, <4>1, <4>2
        DEF IsPublished, ClientInv, Typed, LifecycleTypeOK
    <3>3. CASE Revise(c.m, c.key, c.nonce)
      <4>1. /\ status' = [status EXCEPT ![c.m] = "CHECKING"]
            /\ status[c.m] = "REVISION_REQUESTED"
        BY <3>3 DEF Revise
      <4> QED
        BY <3>1, <4>1 DEF IsPublished, ClientInv, Typed, LifecycleTypeOK
    <3> QED
      BY <2>2, <3>2, <3>3 DEF Mine
  <2> QED
    BY <1>1, <2>1, <2>2
    DEF FormStep, ClickSubmit, ClickRevise, Uploaded, Sign, Broadcast,
        Succeed, Fail, Revert, Replaced, EnterId, LookedUp
<1>2. CASE ChainMoves
  BY <1>2, OthersGrow DEF ChainMoves, ClientInv, Typed, ChainOK
<1>3. CASE Sync
  BY <1>3 DEF Sync, lifecycleVars, IsPublished
<1> QED
  BY <1>1, <1>2, <1>3

LEMMA OffPage ==
  ASSUME ClientInv, Grows, FormStep \/ ChainMoves \/ Sync
  PROVE  PageTyped' /\ PayInv' /\ FundingInv' /\ PollInv'
<1>1. UNCHANGED <<shown, payStep, pay, wallet, late, disturbed, polling, polls,
                  overlapped>>
  BY OffPageSteps DEF pageVars, payVars, pollVars
<1>2. PageTyped'
  BY <1>1 DEF ClientInv, Typed, PageTyped
<1>3. PollInv'
  BY <1>1 DEF ClientInv, PollInv
<1>4. PayInv'
  <2>1. PayerKnown'
    BY <1>1, StartedOnce DEF ClientInv, PayInv, PayerKnown, At
  <2>2. seen' = "PUBLISHED" => IsPublished'
    BY OffPageSteps DEF ClientInv, PayInv, Grows, IsPublished
  <2> QED
    BY <1>1, <2>1, <2>2
    DEF ClientInv, PayInv, Grows, PublishedIsTrue, ShowsPublished, IsPublished, At
<1>5. FundingInv'
  <2> SUFFICES ASSUME Calm PROVE Calm'
    BY <1>1 DEF ClientInv, FundingInv
  <2>1. jrt' = jrt
    BY OffPageSteps
  <2>2. /\ late' = {}
        /\ \A i, j \in Invocation : ~ At(i, "idle")' /\ ~ At(j, "idle")' => i = j
        /\ \A i \in Invocation : ~ At(i, "idle")' => status'[Tracked] = "ACCEPTED"
    BY <1>1, OffPageSteps DEF Calm, At
  <2>3. Payer' = Payer \/ Payer = NoKey
    BY StartedOnce, Identifiers
    DEF ClientInv, Typed, LifecycleTypeOK, Payer
  <2>4. \A i \in Invocation : At(i, "transfer")' => pay'[i].amount = Missing(Payer)'
    <3>1. ASSUME NEW i \in Invocation, At(i, "transfer")
          PROVE  Payer' = Payer
      <4>1. Payer \in Key
        BY <3>1 DEF ClientInv, PayInv, PayerKnown, At
      <4> QED
        BY <4>1, StartedOnce
    <3> QED
      BY <1>1, <2>1, <3>1 DEF Calm, At, Missing
  <2>5. \A k \in Key : k # Payer' => jrt'[k] = 0
    BY <2>1, <2>3, Identifiers DEF Calm
  <2>6. FundedOnce'
    <3>1. ASSUME NEW k \in Key
          PROVE  jrt[k] <= IF k = Payer' /\ IsPublished' THEN 0
                           ELSE PUBLICATION_FEE
      <4>1. jrt[k] <= IF k = Payer /\ IsPublished THEN 0 ELSE PUBLICATION_FEE
        BY DEF Calm, FundedOnce, IsPublished
      <4>2. CASE k = Payer
        <5>1. Payer' = Payer
          BY <4>2, StartedOnce
        <5> QED
          BY <4>1, <4>2, <5>1, OffPageSteps DEF Grows
      <4>3. CASE k # Payer
        <5>1. jrt[k] = 0
          BY <4>3 DEF Calm
        <5> QED
          BY <5>1, LifecycleAssumption
      <4> QED
        BY <4>2, <4>3
    <3> QED
      BY <2>1, <3>1 DEF FundedOnce, IsPublished
  <2> QED
    BY <2>2, <2>4, <2>5, <2>6 DEF Calm
<1> QED
  BY <1>2, <1>3, <1>4, <1>5

(* The runs of handlePayFee, action by action.                             *)
LEMMA RunSteps ==
  ASSUME ClientInv, NEW i \in Invocation, ClickPay(i) \/ PayRun(i)
  PROVE  \E run \in Run :
           /\ pay' = [pay EXCEPT ![i] = run]
           /\ run.at = "paying" => At(i, "paying") \/ SendPayment(i)
           /\ ~ At(i, "idle") \/ ClickPay(i)
           /\ run.at = "transfer" => ReadBalance(i) /\ run.amount = Missing(Payer)
<1> DEFINE Goal(run) ==
           /\ pay' = [pay EXCEPT ![i] = run]
           /\ run.at = "paying" => At(i, "paying") \/ SendPayment(i)
           /\ ~ At(i, "idle") \/ ClickPay(i)
           /\ run.at = "transfer" => ReadBalance(i) /\ run.amount = Missing(Payer)
<1> USE LifecycleAssumption
<1>1. pay \in [Invocation -> Run] /\ pay[i] \in Run
  BY DEF ClientInv, Typed, PageTyped
<1>2. 0 \in 0 .. PUBLICATION_FEE /\ Idle \in Run /\ Idle.at = "idle"
  BY DEF Idle, Run, PayPosition
<1>3. CASE ClickPay(i)
  <2> DEFINE run == [at |-> "wallet", amount |-> 0, mounted |-> TRUE]
  <2>1. run \in Run /\ pay' = [pay EXCEPT ![i] = run]
    BY <1>2, <1>3 DEF ClickPay, Run, PayPosition
  <2>2. Goal(run)
    BY <1>3, <2>1
  <2> QED
    BY <2>1, <2>2
<1>4. CASE ReadBalance(i) /\ jrt[Payer] < PUBLICATION_FEE
  <2> DEFINE run == [pay[i] EXCEPT !.at = "transfer", !.amount = Missing(Payer)]
  <2>1. Payer \in Key /\ At(i, "wallet")
    BY <1>4 DEF ReadBalance, ClientInv, PayInv, PayerKnown, At
  <2>2. Missing(Payer) \in 0 .. PUBLICATION_FEE
    <3>1. jrt[Payer] \in Nat
      BY <2>1 DEF ClientInv, Typed, LifecycleTypeOK
    <3> QED
      BY <1>4, <3>1 DEF Missing
  <2>3. pay' = [pay EXCEPT ![i] = run]
    BY <1>1, <1>4 DEF ReadBalance
  <2>4. run \in Run /\ run.at = "transfer" /\ run.amount = Missing(Payer)
    BY <1>1, <2>2 DEF Run, PayPosition
  <2>5. Goal(run)
    BY <1>4, <2>1, <2>3, <2>4 DEF At
  <2> QED
    BY <2>4, <2>5
<1>5. ASSUME NEW to \in {"gas", "approve", "publish", "paying"},
             Go(i, to), ~ At(i, "idle"), to = "paying" => SendPayment(i)
      PROVE  \E run \in Run : Goal(run)
  <2> DEFINE run == [pay[i] EXCEPT !.at = to]
  <2>1. run \in Run /\ run.at = to
    BY <1>1 DEF Run, PayPosition
  <2>2. pay' = [pay EXCEPT ![i] = run]
    BY <1>1, <1>5 DEF Go
  <2>3. Goal(run)
    BY <1>5, <2>1, <2>2
  <2> QED
    BY <2>1, <2>3
<1>6. CASE PaymentDone(i) \/ PayFails(i)
  <2>1. pay' = [pay EXCEPT ![i] = Idle] /\ ~ At(i, "idle")
    BY <1>6 DEF PaymentDone, PayFails, At
  <2>2. Goal(Idle)
    BY <1>2, <2>1
  <2> QED
    BY <1>2, <2>2
<1>7. CASE \/ ReadBalance(i) /\ ~ (jrt[Payer] < PUBLICATION_FEE)
           \/ TransferDone(i) \/ GasDone(i) \/ ApproveDone(i) \/ SendPayment(i)
  <2>1. ~ At(i, "idle")
    BY <1>7 DEF ReadBalance, TransferDone, GasDone, ApproveDone, SendPayment, At
  <2>2. \/ Go(i, "gas") \/ Go(i, "approve") \/ Go(i, "publish")
        \/ Go(i, "paying") /\ SendPayment(i)
    BY <1>7 DEF ReadBalance, TransferDone, GasDone, ApproveDone, SendPayment
  <2> QED
    BY <1>5, <2>1, <2>2
<1> HIDE DEF Goal
<1> QED
  BY <1>3, <1>4, <1>6, <1>7 DEF PayRun

LEMMA PageTypes ==
  ASSUME ClientInv, PageStep
  PROVE  PageTyped'
<1>1. wallet' \in Nat
  BY PageStepGrows
<1>2. pay' \in [Invocation -> Run]
  <2>1. pay \in [Invocation -> Run]
    BY DEF ClientInv, Typed, PageTyped
  <2>2. ASSUME NEW i \in Invocation, ClickPay(i) \/ PayRun(i)
        PROVE  pay' \in [Invocation -> Run]
    BY <2>1, <2>2, RunSteps
  <2>3. CASE Leave
    <3>1. pay' = [i \in Invocation |->
               IF pay[i].at = "idle" THEN Idle
               ELSE [pay[i] EXCEPT !.mounted = FALSE]]
      BY <2>3 DEF Leave
    <3>2. Idle \in Run
      BY LifecycleAssumption DEF Idle, Run, PayPosition
    <3>3. \A i \in Invocation : [pay[i] EXCEPT !.mounted = FALSE] \in Run
      BY <2>1 DEF Run
    <3> QED
      BY <3>1, <3>2, <3>3
  <2>4. CASE UNCHANGED pay
    BY <2>1, <2>4
  <2> QED
    BY <2>2, <2>3, <2>4
    DEF PageStep, Open, Load, LateMined, Poll, PollAnswer, PollFails, payVars
<1>3. late' \subseteq {"transfer", "pay"}
  BY DEF ClientInv, Typed, PageTyped, PageStep, PayRun, Open, Load, Leave,
         ClickPay, ReadBalance, TransferDone, GasDone, ApproveDone,
         SendPayment, PaymentDone, PayFails, LateMined, Poll, PollAnswer,
         PollFails, payVars
<1>4. disturbed' \in BOOLEAN
  BY DEF ClientInv, Typed, PageTyped, PageStep, PayRun, Open, Load, Leave,
         ClickPay, ReadBalance, TransferDone, GasDone, ApproveDone,
         SendPayment, PaymentDone, PayFails, LateMined, Poll, PollAnswer,
         PollFails, payVars
<1>5. overlapped' \in BOOLEAN
  BY DEF ClientInv, Typed, PageTyped, PageStep, PayRun, Open, Load, Leave,
         ClickPay, ReadBalance, TransferDone, GasDone, ApproveDone,
         SendPayment, PaymentDone, PayFails, LateMined, Poll, PollAnswer,
         PollFails, payFrame, pollVars
<1> QED
  BY <1>1, <1>2, <1>3, <1>4, <1>5 DEF PageTyped

(* Before and after any step of the page the payer is the same.            *)
LEMMA PayerStays ==
  ASSUME ClientInv, PageStep
  PROVE  /\ Payer' = Payer
         /\ Payable => Payable' \/ IsPublished'
         /\ IsPublished => IsPublished'
BY PageStepGrows DEF Payer, Grows

(* Whatever a payment is reported as, it is true.                          *)
LEMMA PaidIsPublished ==
  ASSUME ClientInv, Paid, Payable \/ IsPublished
  PROVE  IsPublished'
BY Identifiers
DEF Paid, Pay, IsPublished, ClientInv, Typed, LifecycleTypeOK, lifecycleVars

LEMMA PageNotRun ==
  ASSUME ClientInv,
         \/ Open \/ Load \/ Leave \/ Poll
         \/ \E s \in polls : PollAnswer(s) \/ PollFails(s)
  PROVE  /\ UNCHANGED <<lifecycleVars, late, disturbed, wallet>>
         /\ \A i \in Invocation : /\ pay'[i].at = pay[i].at
                                  /\ At(i, "transfer") => pay'[i].amount = pay[i].amount
<1>1. pay \in [Invocation -> Run]
  BY DEF ClientInv, Typed, PageTyped
<1>2. UNCHANGED <<lifecycleVars, late, disturbed, wallet>>
  BY DEF Open, Load, Leave, Poll, PollAnswer, PollFails, payVars
<1>3. CASE Leave
  <2>1. ASSUME NEW i \in Invocation
        PROVE  /\ pay'[i].at = pay[i].at
               /\ At(i, "transfer") => pay'[i].amount = pay[i].amount
    <3>1. pay'[i] = IF pay[i].at = "idle" THEN Idle
                    ELSE [pay[i] EXCEPT !.mounted = FALSE]
      BY <1>3 DEF Leave
    <3>2. pay[i] \in Run
      BY <1>1
    <3> QED
      BY <3>1, <3>2 DEF Run, Idle, At
  <2> QED
    BY <1>2, <2>1
<1>4. CASE UNCHANGED pay
  BY <1>2, <1>4
<1> QED
  BY <1>3, <1>4 DEF Open, Load, Poll, PollAnswer, PollFails, payVars

LEMMA PagePay ==
  ASSUME ClientInv, PageStep
  PROVE  PayInv'
<1> USE PayerStays
<1>1. /\ PayerKnown
      /\ \A i \in Invocation : At(i, "paying") => Payable \/ IsPublished
      /\ "pay" \in late => Payable \/ IsPublished
      /\ seen = "PUBLISHED" \/ "PUBLISHED" \in polls => IsPublished
      /\ shown = "PUBLISHED" => IsPublished
      /\ pay \in [Invocation -> Run]
  BY DEF ClientInv, PayInv, PublishedIsTrue, ShowsPublished, IsPublished, Typed, PageTyped
<1> DEFINE Runs == /\ PayerKnown'
                   /\ \A i \in Invocation : At(i, "paying")' => Payable' \/ IsPublished'
                   /\ "pay" \in late' => Payable' \/ IsPublished'
           Told == /\ seen' = "PUBLISHED" \/ "PUBLISHED" \in polls' => IsPublished'
                   /\ shown' = "PUBLISHED" => IsPublished'
<1>2. ASSUME NEW i \in Invocation, ClickPay(i) \/ PayRun(i)
      PROVE  Runs /\ Told
  <2>1. PICK run \in Run :
           /\ pay' = [pay EXCEPT ![i] = run]
           /\ run.at = "paying" => At(i, "paying") \/ SendPayment(i)
           /\ ~ At(i, "idle") \/ ClickPay(i)
    BY <1>2, RunSteps
  <2>2. Payer \in Key
    BY <1>1, <2>1
    DEF PayerKnown, ClickPay, KeyInBrowser, Payer, ClientInv, Typed, FormTyped
  <2>3. ASSUME NEW j \in Invocation, At(j, "paying")'
        PROVE  Payable' \/ IsPublished'
    <3>1. At(j, "paying") \/ SendPayment(i)
      BY <1>1, <2>1, <2>3 DEF At
    <3> QED
      BY <1>1, <3>1 DEF SendPayment
  <2>4. "pay" \in late' => "pay" \in late \/ At(i, "paying")
    <3>1. CASE PayFails(i)
      <4>1. \/ late' = late \/ late' = late \cup {"transfer"}
            \/ At(i, "paying")
        BY <3>1 DEF PayFails
      <4> QED
        BY <4>1
    <3>2. CASE late' = late
      BY <3>2
    <3> QED
      BY <1>2, <3>1, <3>2
      DEF ClickPay, PayRun, ReadBalance, TransferDone, GasDone, ApproveDone,
          SendPayment, PaymentDone
  <2>5. Runs
    BY <1>1, <2>2, <2>3, <2>4 DEF PayerKnown
  <2>6. UNCHANGED <<seen, polls>>
    BY <1>2
    DEF ClickPay, PayRun, ReadBalance, TransferDone, GasDone, ApproveDone,
        SendPayment, PaymentDone, PayFails, payFrame, pollVars
  <2>7. shown' = shown \/ (PaymentDone(i) /\ shown' = "PUBLISHED")
    BY <1>2
    DEF ClickPay, PayRun, ReadBalance, TransferDone, GasDone, ApproveDone,
        SendPayment, PaymentDone, PayFails
  <2>8. PaymentDone(i) => IsPublished'
    BY <1>1, PaidIsPublished DEF PaymentDone
  <2> QED
    BY <1>1, <2>5, <2>6, <2>7, <2>8
<1>3. ASSUME NEW tx \in late, LateMined(tx)
      PROVE  Runs /\ Told
  <2>1. /\ UNCHANGED <<pay, shown, seen, polls>> /\ late' \subseteq late
    BY <1>3 DEF LateMined, payFrame, pollVars
  <2>2. Payer \in Key
    BY <1>1 DEF PayerKnown
  <2> QED
    BY <1>1, <2>1, <2>2 DEF PayerKnown, At
<1>4. ASSUME \/ Open \/ Load \/ Leave \/ Poll
             \/ \E s \in polls : PollAnswer(s) \/ PollFails(s)
      PROVE  Runs /\ Told
  <2>1. Runs
    BY <1>1, <1>4, PageNotRun DEF PayerKnown, At
  <2>2. /\ seen' = seen
        /\ polls' \subseteq polls \cup {seen}
        /\ shown' = "PUBLISHED" =>
             shown = "PUBLISHED" \/ seen = "PUBLISHED" \/ "PUBLISHED" \in polls
    BY <1>4 DEF Open, Load, Leave, Poll, PollAnswer, PollFails, pollVars
  <2> QED
    BY <1>1, <2>1, <2>2
<1> QED
  <2>1. Runs /\ Told
    BY <1>2, <1>3, <1>4 DEF PageStep
  <2> QED
    BY <2>1 DEF PayInv, PublishedIsTrue, ShowsPublished, IsPublished

(* The interval, and the answers under way.                                *)
LEMMA PagePoll ==
  ASSUME ClientInv, PageStep
  PROVE  PollInv'
<1>1. \/ overlapped
      \/ /\ \A s, t \in polls : s = t
         /\ polling = "off" => shown = "PUBLISHED" /\ polls = {}
  BY DEF ClientInv, PollInv
<1>2. CASE UNCHANGED <<shown, polling, polls, overlapped>>
  BY <1>1, <1>2 DEF PollInv
<1>3. CASE Open \/ Load
  BY <1>1, <1>3 DEF Open, Load, pollVars, PollInv
<1>4. CASE Leave
  BY <1>4 DEF Leave, PollInv
<1>5. CASE Poll
  BY <1>1, <1>5 DEF Poll, PollInv
<1>6. ASSUME NEW s \in polls, PollAnswer(s) \/ PollFails(s)
      PROVE  PollInv'
  BY <1>1, <1>6 DEF PollAnswer, PollFails, PollInv
<1>7. ASSUME NEW i \in Invocation, PaymentDone(i)
      PROVE  PollInv'
  BY <1>1, <1>2, <1>7 DEF PaymentDone, PollInv
<1> QED
  BY <1>2, <1>3, <1>4, <1>5, <1>6, <1>7
  DEF PageStep, PayRun, ClickPay, ReadBalance, TransferDone, GasDone,
      ApproveDone, SendPayment, PayFails, LateMined, payFrame, pollVars

(***************************************************************************)
(* Funding, action by action.                                              *)
(***************************************************************************)
LEMMA CalmRun ==
  ASSUME ClientInv, Calm, NEW i \in Invocation, ClickPay(i) \/ PayRun(i),
         ~ disturbed'
  PROVE  /\ late' = {}
         /\ \A j \in Invocation : ~ At(j, "idle") => j = i
         /\ Payer \in Key /\ status[Tracked] = "ACCEPTED"
<1>1. late' = {}
  BY DEF Calm, ClickPay, PayRun, ReadBalance, TransferDone, GasDone,
         ApproveDone, SendPayment, PaymentDone, PayFails
<1>2. CASE ClickPay(i)
  <2>1. Payer \in Key
    BY <1>2 DEF ClickPay, KeyInBrowser, Payer, ClientInv, Typed, FormTyped
  <2> QED
    BY <1>1, <1>2, <2>1 DEF ClickPay
<1>3. CASE PayRun(i)
  <2>1. ~ At(i, "idle")
    BY <1>3
    DEF PayRun, ReadBalance, TransferDone, GasDone, ApproveDone, SendPayment,
        PaymentDone, PayFails, At
  <2> QED
    BY <1>1, <2>1 DEF Calm, ClientInv, PayInv, PayerKnown
<1> QED
  BY <1>2, <1>3

(* Of the steps of a run, a transfer and a payment move tokens.            *)
LEMMA RunMoney ==
  ASSUME ClientInv, NEW i \in Invocation, ClickPay(i) \/ PayRun(i)
  PROVE  \/ UNCHANGED <<status, jrt>>
         \/ /\ TransferDone(i) /\ UNCHANGED status
            /\ jrt' = [jrt EXCEPT ![Payer] = @ + pay[i].amount]
         \/ /\ PaymentDone(i) /\ Pay(Tracked, Payer)
<1>1. CASE UNCHANGED lifecycleVars
  BY <1>1 DEF lifecycleVars
<1>2. CASE ApproveDone(i)
  BY <1>2 DEF ApproveDone, Approve
<1>3. CASE TransferDone(i)
  BY <1>3 DEF TransferDone, Transferred, Receive, lifecycleVars
<1>4. CASE PaymentDone(i)
  BY <1>4 DEF PaymentDone, Paid, lifecycleVars
<1> QED
  BY <1>1, <1>2, <1>3, <1>4
  DEF PayRun, ClickPay, ReadBalance, GasDone, SendPayment, PayFails

LEMMA PageFunding ==
  ASSUME ClientInv, PageStep
  PROVE  FundingInv'
<1> USE PayerStays, Identifiers
<1> SUFFICES ASSUME ~ disturbed' PROVE Calm'
  BY DEF FundingInv
<1>1. Calm
  BY DEF ClientInv, FundingInv, PageStep, PayRun, Open, Load, Leave, ClickPay,
         ReadBalance, TransferDone, GasDone, ApproveDone, SendPayment,
         PaymentDone, PayFails, LateMined, Poll, PollAnswer, PollFails,
         payVars, Typed, PageTyped
<1>2. /\ pay \in [Invocation -> Run]
      /\ jrt \in [Key -> Nat] /\ PUBLICATION_FEE \in Nat
      /\ status \in [Manuscript -> Status]
  BY LifecycleAssumption DEF ClientInv, Typed, PageTyped, LifecycleTypeOK
<1>3. ASSUME NEW i \in Invocation, ClickPay(i) \/ PayRun(i)
      PROVE  Calm'
  <2>1. /\ late' = {}
        /\ \A j \in Invocation : ~ At(j, "idle") => j = i
        /\ Payer \in Key /\ status[Tracked] = "ACCEPTED"
    BY <1>1, <1>3, CalmRun
  <2>2. PICK run \in Run :
           /\ pay' = [pay EXCEPT ![i] = run]
           /\ run.at = "transfer" => ReadBalance(i) /\ run.amount = Missing(Payer)
    BY <1>3, RunSteps
  <2>3. \A j \in Invocation : ~ At(j, "idle")' => j = i
    BY <1>2, <2>1, <2>2 DEF At
  <2>4. /\ \A k \in Key : k # Payer => jrt[k] = 0
        /\ jrt[Payer] <= PUBLICATION_FEE
    BY <1>1, <1>2, <2>1 DEF Calm, FundedOnce
  <2>5. ~ IsPublished
    BY <2>1 DEF IsPublished
  <2>6. CASE UNCHANGED <<status, jrt>>
    <3>1. \A j \in Invocation : At(j, "transfer")' => pay'[j].amount = Missing(Payer)'
      BY <1>2, <2>1, <2>2, <2>3, <2>6 DEF At, Missing
    <3>2. FundedOnce'
      BY <1>2, <2>1, <2>4, <2>6 DEF FundedOnce
    <3> QED
      BY <2>1, <2>3, <2>4, <2>6, <3>1, <3>2 DEF Calm
  <2>7. CASE /\ TransferDone(i) /\ UNCHANGED status
             /\ jrt' = [jrt EXCEPT ![Payer] = @ + pay[i].amount]
    <3>1. pay[i].amount = PUBLICATION_FEE - jrt[Payer]
      BY <1>1, <2>7 DEF Calm, TransferDone, Missing
    <3>2. /\ jrt'[Payer] = PUBLICATION_FEE
          /\ \A k \in Key : k # Payer => jrt'[k] = 0
      BY <1>2, <2>1, <2>4, <2>7, <3>1
    <3>3. \A j \in Invocation : ~ At(j, "transfer")'
      <4>1. At(i, "transfer")
        BY <2>7 DEF TransferDone
      <4>2. run.at # "transfer"
        BY <2>2, <4>1 DEF ReadBalance, At
      <4>3. ~ At(i, "transfer")'
        BY <1>2, <2>2, <4>2 DEF At
      <4> QED
        BY <2>3, <4>3 DEF At
    <3>4. FundedOnce'
      BY <1>2, <2>1, <2>7, <3>2 DEF FundedOnce
    <3> QED
      BY <2>1, <2>3, <2>7, <3>2, <3>3, <3>4 DEF Calm
  <2>8. CASE PaymentDone(i) /\ Pay(Tracked, Payer)
    <3>1. /\ jrt'[Payer] = 0
          /\ \A k \in Key : k # Payer => jrt'[k] = 0
      BY <1>2, <2>1, <2>4, <2>8 DEF Pay
    <3>2. \A j \in Invocation : At(j, "idle")'
      <4>1. pay' = [pay EXCEPT ![i] = Idle]
        BY <2>8 DEF PaymentDone
      <4>2. At(i, "idle")'
        BY <1>2, <4>1 DEF At, Idle
      <4> QED
        BY <2>3, <4>2
    <3>3. FundedOnce'
      BY <1>2, <2>1, <3>1 DEF FundedOnce
    <3>4. \A j \in Invocation : ~ At(j, "transfer")'
      BY <3>2 DEF At
    <3> QED
      BY <2>1, <3>1, <3>2, <3>3, <3>4 DEF Calm
  <2> QED
    BY <1>3, <2>6, <2>7, <2>8, RunMoney
<1>4. ASSUME NEW tx \in late, LateMined(tx)
      PROVE  Calm'
  BY <1>1, <1>4 DEF Calm
<1>5. ASSUME \/ Open \/ Load \/ Leave \/ Poll
             \/ \E s \in polls : PollAnswer(s) \/ PollFails(s)
      PROVE  Calm'
  <2>1. /\ UNCHANGED <<status, jrt, late>>
        /\ \A i \in Invocation : /\ pay'[i].at = pay[i].at
                                 /\ At(i, "transfer") => pay'[i].amount = pay[i].amount
    BY <1>5, PageNotRun DEF lifecycleVars
  <2>2. FundedOnce'
    BY <1>1, <2>1 DEF Calm, FundedOnce
  <2> QED
    BY <1>1, <2>1, <2>2 DEF Calm, At, Missing
<1> QED
  BY <1>3, <1>4, <1>5 DEF PageStep

(***************************************************************************)
(* The small ones: what is shown has a type, and is what is entered.       *)
(***************************************************************************)
LEMMA ShownTypes ==
  ASSUME ClientInv, [Next]_vars, LifecycleTypeOK'
  PROVE  ShownTyped'
<1> USE Identifiers
<1>1. ShownTyped /\ seen \in Status /\ status'[Tracked] \in Status
  BY DEF ClientInv, ShownTyped, LifecycleTypeOK
<1>2. /\ status[Tracked] \in Status
      /\ {"none", "funding-jrt", "funding-gas", "approving", "publishing"} = PayStep
      /\ "PUBLISHED" \in Status
  BY DEF ClientInv, Typed, LifecycleTypeOK, PayStep, Status
<1>3. CASE FormStep \/ ChainMoves \/ Sync
  BY <1>1, <1>3, OffPageSteps DEF pageVars, payVars, pollVars, ShownTyped
<1>4. CASE PageStep
  <2>1. CASE Open \/ Load \/ Leave \/ Poll
    BY <1>1, <1>2, <2>1 DEF Open, Load, Leave, Poll, ShownTyped, payVars, pollVars
  <2>2. ASSUME NEW s \in polls, PollAnswer(s) \/ PollFails(s)
        PROVE  ShownTyped'
    BY <1>1, <2>2 DEF PollAnswer, PollFails, ShownTyped, payVars
  <2>3. ASSUME NEW tx \in late, LateMined(tx)
        PROVE  ShownTyped'
    BY <1>1, <2>3 DEF LateMined, ShownTyped, payFrame, pollVars
  <2>4. ASSUME NEW i \in Invocation, ClickPay(i)
        PROVE  ShownTyped'
    BY <1>1, <2>4 DEF ClickPay, ShownTyped, payFrame, pollVars
  <2>5. ASSUME NEW i \in Invocation, PaymentDone(i)
        PROVE  ShownTyped'
    BY <1>1, <1>2, <2>5 DEF PaymentDone, ShownTyped
  <2>6. ASSUME NEW i \in Invocation, PayRun(i), ~ PaymentDone(i)
        PROVE  ShownTyped'
    <3>1. UNCHANGED <<shown, polling, polls, seen>>
      BY <2>6
      DEF PayRun, ReadBalance, TransferDone, GasDone, ApproveDone, SendPayment,
          PayFails, payFrame, pollVars
    <3>2. payStep' \in PayStep
      BY <1>1, <1>2, <2>6
      DEF PayRun, ReadBalance, TransferDone, GasDone, ApproveDone, SendPayment,
          PayFails, Label, ShownTyped
    <3> QED
      BY <1>1, <3>1, <3>2 DEF ShownTyped
  <2> QED
    BY <1>4, <2>1, <2>2, <2>3, <2>4, <2>5, <2>6 DEF PageStep
<1>5. CASE UNCHANGED vars
  BY <1>1, <1>5 DEF vars, pageVars, payVars, pollVars, ShownTyped
<1> QED
  BY <1>3, <1>4, <1>5 DEF Next

LEMMA LookupShown ==
  ASSUME ClientInv, [Next]_vars
  PROVE  ShownIsEntered'
<1> USE NothingFound
<1>1. lookup \in [id : EnteredId, ms : LookupResult, out : SUBSET EnteredId]
  BY DEF ClientInv, Typed, FormTyped
<1>2. CASE lookup' \in {lookup, NoLookup}
  BY <1>2 DEF ClientInv, ShownIsEntered
<1>3. ASSUME NEW id \in EnteredId, EnterId(id)
      PROVE  ShownIsEntered'
  BY <1>3 DEF EnterId, ShownIsEntered, Nothing
<1>4. ASSUME NEW id \in EnteredId, LookedUp(id)
      PROVE  ShownIsEntered'
  <2>1. /\ lookup'.id = lookup.id
        /\ lookup'.ms = IF id = lookup.id THEN Found(id) ELSE lookup.ms
    BY <1>1, <1>4 DEF LookedUp
  <2>2. Found(id).status # "none" => Found(id).id = id
    BY DEF Found, Nothing
  <2> QED
    BY <2>1, <2>2 DEF ClientInv, ShownIsEntered
<1>5. CASE FormStep
  BY <1>2, <1>3, <1>4, <1>5
  DEF FormStep, ClickSubmit, ClickRevise, Uploaded, Sign, Broadcast, Succeed,
      Fail, Mine, Revert, Replaced
<1>6. CASE PageStep
  BY <1>2, <1>6
  DEF PageStep, PayRun, Open, Load, Leave, ClickPay, ReadBalance,
      TransferDone, GasDone, ApproveDone, SendPayment, PaymentDone, PayFails,
      LateMined, Poll, PollAnswer, PollFails, payFrame
<1> QED
  BY <1>2, <1>5, <1>6 DEF Next, ChainMoves, Sync, vars

(***************************************************************************)
(* The invariant.                                                          *)
(***************************************************************************)
LEMMA InitClient == Init => ClientInv
<1> SUFFICES ASSUME Init PROVE ClientInv
  OBVIOUS
<1> USE Identifiers, LifecycleAssumption, ClientAssumption, NothingFound
        DEF Init, LifecycleInit
<1>1. Idle \in Run /\ Idle.at = "idle"
  BY DEF Idle, Run, PayPosition
<1>2. LifecycleTypeOK
  BY DEF LifecycleTypeOK, Status, NoKey
<1>3. \A m \in Manuscript : ~ (m < nextManuscriptId)
  OBVIOUS
<1>4. IdsInUse
  BY <1>3 DEF IdsInUse
<1>5. FormTyped
  BY DEF FormTyped, Steps
<1>6. PageTyped
  BY <1>1 DEF PageTyped
<1>7. ShownTyped
  BY DEF ShownTyped, PayStep, Status
<1>8. CallsInv
  <2>1. KeysCounted
    BY FS_EmptySet DEF KeysCounted
  <2>2. FormKnown
    BY DEF FormKnown
  <2> QED
    BY <1>3, <2>1, <2>2 DEF CallsInv, KeysKept, MappedIsOnChain
<1>9. ShownIsEntered
  BY DEF ShownIsEntered
<1>10. \A i \in Invocation : At(i, "idle") /\ ~ At(i, "paying") /\ ~ At(i, "transfer")
  BY <1>1 DEF At
<1>11. PayInv
  BY <1>10 DEF PayInv, PayerKnown, PublishedIsTrue, ShowsPublished
<1>12. FundingInv
  BY <1>10 DEF FundingInv, Calm, FundedOnce
<1>13. PollInv
  BY DEF PollInv
<1> QED
  BY <1>2, <1>4, <1>5, <1>6, <1>7, <1>8, <1>9, <1>11, <1>12, <1>13
  DEF ClientInv, Typed

LEMMA NextClient == ClientInv /\ [Next]_vars => ClientInv'
<1> SUFFICES ASSUME ClientInv, [Next]_vars PROVE ClientInv'
  OBVIOUS
<1>1. Grows /\ ChainOK' /\ FormTyped' /\ CallsInv'
  BY NextCalls
<1>2. ShownTyped' /\ ShownIsEntered'
  BY <1>1, ShownTypes, LookupShown DEF ChainOK
<1>3. PageTyped' /\ PayInv' /\ FundingInv' /\ PollInv'
  <2>1. CASE FormStep \/ ChainMoves \/ Sync
    BY <1>1, <2>1, OffPage
  <2>2. CASE PageStep
    BY <2>2, PageTypes, PagePay, PageFunding, PagePoll
  <2>3. CASE UNCHANGED vars
    BY <2>3
    DEF ClientInv, Typed, vars, lifecycleVars, formVars, pageVars, payVars,
        pollVars, PageTyped, PayInv, PayerKnown, Payable, Payer, IsPublished,
        PublishedIsTrue, ShowsPublished, FundingInv, Calm, FundedOnce, Missing, PollInv, At
  <2> QED
    BY <2>1, <2>2, <2>3 DEF Next
<1> QED
  BY <1>1, <1>2, <1>3 DEF ClientInv, Typed, ChainOK

(* The invariant holds in every reachable state, whatever calls fail, time *)
(* out or overlap.                                                         *)
THEOREM ClientInvariant == Spec => []ClientInv
<1>1. Init => ClientInv
  BY InitClient
<1>2. ClientInv /\ [Next]_vars => ClientInv'
  BY NextClient
<1> QED
  BY <1>1, <1>2, PTL DEF Spec

(***************************************************************************)
(* Every variable of the browser, the backend and the page keeps its type. *)
(***************************************************************************)
THEOREM TypeCorrect == Spec => []TypeOK
<1>1. ClientInv => TypeOK
  BY DEF ClientInv, Typed, FormTyped, PageTyped, ShownTyped, TypeOK,
         LookupResult, Run
<1> QED
  BY <1>1, ClientInvariant, PTL

(***************************************************************************)
(* The key of every manuscript on chain is in the browser it came from: it *)
(* is stored before anything is signed with it, so no failure loses it.    *)
(***************************************************************************)
THEOREM KeysAreKept == Spec => []KeysKept
<1>1. ClientInv => KeysKept
  BY DEF ClientInv, CallsInv
<1> QED
  BY <1>1, ClientInvariant, PTL

(***************************************************************************)
(* No account is recorded for a submission that never reached the chain.   *)
(***************************************************************************)
THEOREM MappedReachedTheChain == Spec => []MappedIsOnChain
<1>1. ClientInv => MappedIsOnChain
  BY DEF ClientInv, CallsInv
<1> QED
  BY <1>1, ClientInvariant, PTL

(***************************************************************************)
(* The revise page shows the manuscript whose id is entered, or none, in   *)
(* whatever order the lookups are answered.                                *)
(***************************************************************************)
THEOREM NoStaleLookup == Spec => []ShownIsEntered
<1>1. ClientInv => ShownIsEntered
  BY DEF ClientInv
<1> QED
  BY <1>1, ClientInvariant, PTL

(***************************************************************************)
(* When the tracker page shows PUBLISHED the manuscript is published,      *)
(* though no receipt is looked at: what was estimated to succeed still     *)
(* does when it is mined, or another payment already has.                  *)
(***************************************************************************)
THEOREM PublishedIsNoPromise == Spec => []PublishedIsTrue
<1>1. ClientInv => PublishedIsTrue
  BY DEF ClientInv, PayInv
<1> QED
  BY <1>1, ClientInvariant, PTL

(***************************************************************************)
(* One run after another, with any of their steps failing, never gives a   *)
(* submission key more than one fee, and leaves it nothing once published. *)
(***************************************************************************)
THEOREM RetriesAreSafe == Spec => []RetriesFundOnce
<1>1. ClientInv => RetriesFundOnce
  BY DEF ClientInv, FundingInv, Calm, RetriesFundOnce
<1> QED
  BY <1>1, ClientInvariant, PTL

(***************************************************************************)
(* While polls are answered one by one, a page that fell back to an older  *)
(* status after a confirmed payment is still polling.                      *)
(***************************************************************************)
THEOREM PageRecovers == Spec => []PageCorrectsItself
<1>1. ClientInv => PageCorrectsItself
  BY DEF ClientInv, ShownTyped, PollInv, PageCorrectsItself, ShowsPublished
<1> QED
  BY <1>1, ClientInvariant, PTL

(***************************************************************************)
(* A revision mined at any time closes the round it was signed in: if the  *)
(* manuscript has moved on, so has the nonce, and the contract refuses it. *)
(***************************************************************************)
LEMMA PageVersion ==
  ASSUME PageStep
  PROVE  version' = version
<1>1. CASE UNCHANGED lifecycleVars
  BY <1>1 DEF lifecycleVars
<1>2. ASSUME NEW i \in Invocation, TransferDone(i) \/ ApproveDone(i) \/ PaymentDone(i)
      PROVE  version' = version
  BY <1>2 DEF TransferDone, Transferred, Receive, ApproveDone, Approve,
              PaymentDone, Paid, Pay, lifecycleVars
<1>3. ASSUME NEW tx \in late, LateMined(tx)
      PROVE  version' = version
  BY <1>3 DEF LateMined, Transferred, Receive, Paid, Pay, lifecycleVars
<1> QED
  BY <1>1, <1>2, <1>3
  DEF PageStep, PayRun, Open, Load, Leave, ClickPay, ReadBalance, GasDone,
      SendPayment, PayFails, Poll, PollAnswer, PollFails

LEMMA RevisionStep ==
  ASSUME ClientInv, [Next]_vars, NEW m \in Manuscript,
         0 < version[m], version[m] # version'[m]
  PROVE  \E c \in mempool \ mempool' :
           c.kind = "revise" /\ c.m = m /\ c.round = version[m]
<1> DEFINE Goal == \E c \in mempool \ mempool' :
                     c.kind = "revise" /\ c.m = m /\ c.round = version[m]
<1> USE Identifiers
<1>1. ASSUME NEW c \in mempool, Mine(c)
      PROVE  Goal
  <2>1. c \in mempool \ mempool'
    BY <1>1 DEF Mine
  <2>2. Signed(c)
    BY DEF ClientInv, CallsInv
  <2>3. version \in [Manuscript -> 0 .. MaxVersion]
    BY DEF ClientInv, Typed, LifecycleTypeOK
  <2>4. ~ Submit(c.key, c.nonce)
    <3> SUFFICES ASSUME Submit(c.key, c.nonce) PROVE FALSE
      OBVIOUS
    <3>1. m = nextManuscriptId
      BY <2>3 DEF Submit
    <3> QED
      BY <3>1 DEF ClientInv, Typed, IdsInUse
  <2>5. c.kind = "revise" /\ Revise(c.m, c.key, c.nonce)
    BY <1>1, <2>4 DEF Mine
  <2>6. c.m = m /\ c.nonce = nonces[c.key]
    BY <2>3, <2>5 DEF Revise, UseNonce
  <2> QED
    BY <2>1, <2>2, <2>5, <2>6 DEF Signed
<1>2. CASE UNCHANGED lifecycleVars
  BY <1>2 DEF lifecycleVars
<1>3. CASE FormStep
  BY <1>1, <1>2, <1>3
  DEF FormStep, ClickSubmit, ClickRevise, Uploaded, Sign, Broadcast, Succeed,
      Fail, Revert, Replaced, EnterId, LookedUp
<1>4. CASE ChainMoves
  BY <1>4 DEF ChainMoves, Others, Check, Screen, Decide, Move
<1> QED
  BY <1>2, <1>3, <1>4, PageVersion DEF Next, Sync, vars

THEOREM RevisionsInTheirRound == Spec => RevisionOfItsRound
<1>1. ClientInv /\ [Next]_vars =>
        [\A m \in Manuscript :
           0 < version[m] /\ version[m] # version'[m] =>
             \E c \in mempool \ mempool' :
               c.kind = "revise" /\ c.m = m /\ c.round = version[m]]_vars
  BY RevisionStep
<1> QED
  BY <1>1, ClientInvariant, PTL DEF Spec, RevisionOfItsRound

=============================================================================
