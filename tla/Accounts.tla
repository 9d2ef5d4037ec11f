------------------------------ MODULE Accounts ------------------------------
(***************************************************************************)
(* Account rows, wallet binding, identity verification, and the editors'   *)
(* verification of reviewer fields: profile and specialization page,       *)
(* editor dashboard, Go handlers, the Postgres tables, and the one         *)
(* contract call verifyReviewerFields.                                     *)
(*                                                                         *)
(* A request runs statement by statement: other requests interleave        *)
(* between two statements, and any statement may fail.  Save writes back   *)
(* every column read earlier except verified_fields, which it leaves out.  *)
(***************************************************************************)
EXTENDS Naturals, Sequences, FiniteSets

CONSTANTS
  User, Wallet, Subject,   \* accounts, MetaMask accounts, Google accounts
  FieldSet,                \* non-empty sets of fields, after cleaning
  None,                    \* no wallet, no subject, no verified field
  Job, Decision,           \* bound: requests of users, of editors, in flight
  MaxRequests,             \* bound: rows in reviewer_field_requests
  MaxJobs, MaxClicks       \* bound: requests of users, decisions of editors

ASSUME AccountsAssumption ==
  /\ None \notin Wallet \cup Subject \cup FieldSet
  /\ IsFiniteSet(Job)
  /\ MaxRequests \in Nat /\ MaxJobs \in Nat /\ MaxClicks \in Nat

RequestId == 1 .. MaxRequests

VARIABLES
  row,          \* table users: the columns Save writes
  verified,     \* table users: verified_fields
  requests,     \* table reviewer_field_requests, by id
  chainFields,  \* _verifiedReviewerFields of the contract
  late,         \* chain calls given up on that may still be mined
  job,          \* users' requests under way
  offered,      \* profile pages, as loaded: columns the user may still set
  decision,     \* editors' requests under way
  started,      \* requests of users and of editors so far
  list,         \* editor dashboard: verifications shown
  busy,         \* editor dashboard: the item whose buttons are disabled
  granted,      \* history: <<request, wallet>> of every write on chain
  told,         \* history: outcomes the editor was shown for a request
  toldWallet,   \* history: wallets that may be bound, for all the user knows
  raced,        \* history: users with a job that overlapped a rival
  doubled,      \* history: requests decided by two overlapping calls
  drifted,      \* history: users the chain was changed for on the side
  twice         \* history: users with overlapping applications

rowVars == <<row, verified>>
pageVars == <<offered, list, busy>>
historyVars == <<granted, told, toldWallet, raced, doubled, drifted, twice>>
vars == <<rowVars, requests, chainFields, late, job, decision, started,
          pageVars, historyVars>>

Row == [wallet : Wallet \cup {None}, subject : Subject \cup {None},
        role : {"user", "reviewer"}]
NewUser == [wallet |-> None, subject |-> None, role |-> "user"]
Request == [user : User, fields : FieldSet,
            status : {"pending", "superseded", "approved", "rejected"}]
Idle == [kind |-> "idle"]
DecisionStep == {"reading", "rejecting", "writing", "marking"}

TypeOK ==
  /\ row \in [User -> Row]
  /\ verified \in [User -> FieldSet \cup {None}]
  /\ requests \in Seq(Request) /\ Len(requests) <= MaxRequests
  /\ chainFields \in [Wallet -> FieldSet \cup {None}]
  /\ late \subseteq RequestId \X Wallet
  /\ \A j \in Job : job[j] = Idle \/ /\ job[j].user \in User
                                     /\ job[j].row \in Row
  /\ offered \subseteq User \X {"wallet", "subject"}
  /\ \A d \in Decision : \/ decision[d] = Idle
                         \/ /\ decision[d].id \in 1 .. Len(requests)
                            /\ decision[d].kind \in DecisionStep
                            /\ decision[d].kind \in {"writing", "marking"}
                                 => decision[d].wallet \in Wallet
  /\ list \subseteq [id : RequestId, bound : BOOLEAN]
  /\ busy \in RequestId \cup {0}
  /\ started.job \in 0 .. MaxJobs /\ started.click \in 0 .. MaxClicks

Init ==
  /\ row = [u \in User |-> NewUser]
  /\ verified = [u \in User |-> None]
  /\ requests = <<>>
  /\ chainFields = [w \in Wallet |-> None]
  /\ late = {}
  /\ job = [j \in Job |-> Idle]
  /\ offered = User \X {"wallet", "subject"}
  /\ decision = [d \in Decision |-> Idle]
  /\ list = {} /\ busy = 0
  /\ started = [job |-> 0, click |-> 0]
  /\ granted = {} /\ told = [id \in RequestId |-> {}]
  /\ toldWallet = [u \in User |-> {None}]
  /\ raced = {} /\ doubled = {} /\ drifted = {} /\ twice = {}
-----------------------------------------------------------------------------
(* BindWallet and VerifyIdentity: look up who has it, read the own row,    *)
(* write the whole row back.                                               *)
Saves == {"bind", "verify"}
InFlight(kinds) == {j \in Job : job[j].kind \in kinds}

Owners(column, value) == {u \in User : row[u][column] = value}

Owned_Unchecked(u, column, value) == FALSE
Owned(u, column, value) == Owners(column, value) \notin {{}, {u}}

(* Jobs that write the same row, or race for the same wallet or subject. *)
Rivals(u, value) ==
  {job[j].user : j \in {i \in InFlight(Saves) : \/ job[i].user = u
                                               \/ job[i].value = value}}

StartJob ==
  /\ started.job < MaxJobs
  /\ started' = [started EXCEPT !.job = @ + 1]

StartSave(j, u, kind, column, value) ==
  /\ job[j] = Idle /\ StartJob
  /\ ~Owned(u, column, value)
  /\ job' = [job EXCEPT ![j] = [kind |-> kind, user |-> u, value |-> value,
                                loaded |-> FALSE, row |-> NewUser]]
  /\ raced' = raced \cup (LET r == Rivals(u, value)
                          IN  IF r = {} THEN {} ELSE r \cup {u})
  /\ UNCHANGED <<rowVars, requests, chainFields, late, decision, pageVars,
                 granted, told, toldWallet, doubled, drifted, twice>>

(* handleConnectAndLink, one at a time; the Google button has no such limit.
   Each is offered while the page, as loaded, shows no value. *)
BindWallet(j, u, w) ==
  /\ <<u, "wallet">> \in offered
  /\ \A i \in InFlight({"bind"}) : job[i].user # u
  /\ StartSave(j, u, "bind", "wallet", w)

VerifyIdentity(j, u, s) ==
  /\ <<u, "subject">> \in offered
  /\ StartSave(j, u, "verify", "subject", s)

(* FindByID *)
LoadRow(j) ==
  /\ job[j].kind \in Saves /\ ~job[j].loaded
  /\ job' = [job EXCEPT ![j].loaded = TRUE, ![j].row = row[job[j].user]]
  /\ UNCHANGED <<started, rowVars, requests, chainFields, late, decision,
                 pageVars, historyVars>>

Column(kind) == IF kind = "bind" THEN "wallet" ELSE "subject"

(* The row Save writes: the one read, with the new value in its column. *)
NewRow_ColumnsDropped(b) ==
  [c \in DOMAIN b.row |-> IF c = Column(b.kind) THEN b.value
                          ELSE IF c = "role" THEN b.row.role ELSE None]
NewRow(b) == [b.row EXCEPT ![Column(b.kind)] = b.value]

(* What a bind tells its user: the wallet it bound, or, when the answer is
   lost after the commit, an error that leaves the old one possible. *)
Heard(b) ==
  {[toldWallet EXCEPT ![b.user] = {b.value}],
   [toldWallet EXCEPT ![b.user] = @ \cup {b.value}]}

(* Save, and the answer.  A unique index covers the subject; the wallet
   column has none. *)
SaveRow(j) ==
  LET b == job[j]
      u == b.user
  IN  /\ b.kind \in Saves /\ b.loaded
      /\ b.kind = "verify" => Owners("subject", b.value) \subseteq {u}
      /\ row' = [row EXCEPT ![u] = NewRow(b)]
      /\ toldWallet' \in IF b.kind = "bind" THEN Heard(b) ELSE {toldWallet}
      /\ drifted' = IF row[u].wallet \in {None, row'[u].wallet}
                    THEN drifted ELSE drifted \cup {u}
      /\ job' = [job EXCEPT ![j] = Idle]
      /\ UNCHANGED <<started, verified, requests, chainFields, late, decision,
                     pageVars, granted, told, raced, doubled, twice>>

(* A statement fails, or the index refuses the row: nothing is written. *)
JobFails(j) ==
  /\ job[j] # Idle
  /\ job' = [job EXCEPT ![j] = Idle]
  /\ UNCHANGED <<started, rowVars, requests, chainFields, late, decision,
                 pageVars, historyVars>>

(* The page shows a bound wallet and a verified identity, and offers to set
   what is missing. *)
Offers(u) == {<<u, c>> : c \in {x \in {"wallet", "subject"} : row[u][x] = None}}

LoadProfile(u) ==
  /\ offered' = {o \in offered : o[1] # u} \cup Offers(u)
  /\ UNCHANGED <<started, rowVars, requests, chainFields, late, job, decision,
                 list, busy, historyVars>>
-----------------------------------------------------------------------------
(* SubmitReviewerFields: one transaction that supersedes what was pending  *)
(* when its UPDATE started and inserts the new request.                    *)
Pending(u) ==
  {id \in DOMAIN requests : requests[id].user = u
                            /\ requests[id].status = "pending"}
Applications(u) == {j \in InFlight({"apply"}) : job[j].user = u}

Superseded_Kept(u) == {}
Superseded(u) == Pending(u)

Apply(j, u, fields) ==
  /\ job[j] = Idle /\ StartJob
  /\ Len(requests) + Cardinality(InFlight({"apply"})) < MaxRequests
  /\ job' = [job EXCEPT ![j] =
               [kind |-> "apply", user |-> u, value |-> fields,
                row |-> NewUser, old |-> Superseded(u)]]
  /\ twice' = IF Applications(u) = {} THEN twice ELSE twice \cup {u}
  /\ UNCHANGED <<rowVars, requests, chainFields, late, decision, pageVars,
                 granted, told, toldWallet, raced, doubled, drifted>>

CommitApplication(j) ==
  /\ job[j].kind = "apply"
  /\ LET left == [id \in DOMAIN requests |->
                    IF id \in job[j].old /\ requests[id].status = "pending"
                    THEN [requests[id] EXCEPT !.status = "superseded"]
                    ELSE requests[id]]
     IN  requests' = Append(left, [user |-> job[j].user,
                                   fields |-> job[j].value,
                                   status |-> "pending"])
  /\ job' = [job EXCEPT ![j] = Idle]
  /\ UNCHANGED <<started, rowVars, chainFields, late, decision, pageVars,
                 historyVars>>
-----------------------------------------------------------------------------
(* The editor dashboard and DecideReviewerVerification.                    *)

(* load, on mounting the page: calls under way lose their page. *)
OpenDashboard ==
  /\ list' = {[id |-> id, bound |-> row[requests[id].user].wallet # None] :
                id \in {i \in DOMAIN requests :
                          requests[i].status = "pending"}}
  /\ busy' = 0
  /\ decision' = [d \in Decision |->
                    IF decision[d] = Idle THEN Idle
                    ELSE [decision[d] EXCEPT !.mounted = FALSE]]
  /\ UNCHANGED <<started, rowVars, requests, chainFields, late, job, offered,
                 historyVars>>

Deciding(id) == {d \in Decision : decision[d] # Idle /\ decision[d].id = id}

(* The item's two buttons; approving needs a wallet, as listed. *)
DecideEnabled(v, approve) == busy # v.id /\ (approve => v.bound)

ClickDecide(d, v, approve) ==
  /\ decision[d] = Idle
  /\ started.click < MaxClicks
  /\ started' = [started EXCEPT !.click = @ + 1]
  /\ v \in list
  /\ DecideEnabled(v, approve)
  /\ decision' = [decision EXCEPT ![d] =
                    [kind |-> "reading", id |-> v.id, approve |-> approve,
                     mounted |-> TRUE, wallet |-> None]]
  /\ busy' = v.id
  /\ doubled' = IF Deciding(v.id) = {} THEN doubled ELSE doubled \cup {v.id}
  /\ UNCHANGED <<rowVars, requests, chainFields, late, job, offered, list,
                 granted, told, toldWallet, raced, drifted, twice>>

Decidable_AnyStatus(id) == TRUE
Decidable(id) == requests[id].status = "pending"

(* GetFieldRequest with the owner's row, and the checks on it. *)
ReadRequest_NoWalletCheck(d) ==
  LET c == decision[d]
  IN  /\ c.kind = "reading"
      /\ Decidable(c.id)
      /\ decision' = [decision EXCEPT
                        ![d].kind = IF c.approve THEN "writing"
                                    ELSE "rejecting",
                        ![d].wallet = IF c.approve
                                      THEN row[requests[c.id].user].wallet
                                      ELSE None]
      /\ UNCHANGED <<started, rowVars, requests, chainFields, late, job,
                     pageVars, historyVars>>

ReadRequest(d) ==
  LET c == decision[d]
      w == row[requests[c.id].user].wallet
  IN  /\ c.kind = "reading"
      /\ Decidable(c.id)
      /\ c.approve => w # None
      /\ decision' = [decision EXCEPT
                        ![d].kind = IF c.approve THEN "writing"
                                    ELSE "rejecting",
                        ![d].wallet = IF c.approve THEN w ELSE None]
      /\ UNCHANGED <<started, rowVars, requests, chainFields, late, job,
                     pageVars, historyVars>>

(* The answer: the page drops the item on success, and frees the buttons. *)
Answer(d, outcome) ==
  LET c == decision[d]
  IN  /\ decision' = [decision EXCEPT ![d] = Idle]
      /\ told' = [told EXCEPT ![c.id] = @ \cup {outcome}]
      /\ IF c.mounted
         THEN /\ busy' = 0
              /\ list' = IF outcome = "error" THEN list
                         ELSE {v \in list : v.id # c.id}
         ELSE UNCHANGED <<busy, list>>

(* The database has committed; the answer may still be lost on the way. *)
AnswerOrError(d, outcome) == Answer(d, outcome) \/ Answer(d, "error")

(* RejectFieldRequest reports success even when no row was pending. *)
Reject_NotStored(d) ==
  /\ decision[d].kind = "rejecting"
  /\ Answer(d, "rejected")
  /\ UNCHANGED <<started, rowVars, requests, chainFields, late, job, offered,
                 granted, toldWallet, raced, doubled, drifted, twice>>

Reject(d) ==
  LET id == decision[d].id
  IN  /\ decision[d].kind = "rejecting"
      /\ requests' = IF requests[id].status = "pending"
                     THEN [requests EXCEPT ![id].status = "rejected"]
                     ELSE requests
      /\ AnswerOrError(d, "rejected")
      /\ UNCHANGED <<started, rowVars, chainFields, late, job, offered,
                     granted, toldWallet, raced, doubled, drifted, twice>>

Holders(w) == {u \in User : row[u].wallet = w}
Granting(w) == {d \in Decision : /\ decision[d].kind \in {"writing", "marking"}
                                 /\ decision[d].wallet = w}

(* verifyReviewerFields is mined for request id. *)
Written_KeepsFirst(id, w) ==
  /\ chainFields' = IF chainFields[w] # None THEN chainFields
                    ELSE [chainFields EXCEPT ![w] = requests[id].fields]
  /\ granted' = granted \cup {<<id, w>>}
Written(id, w) ==
  /\ chainFields' = [chainFields EXCEPT ![w] = requests[id].fields]
  /\ granted' = granted \cup {<<id, w>>}

ChainWritten(d) ==
  LET c == decision[d]
  IN  /\ c.kind = "writing"
      /\ Written(c.id, c.wallet)
      /\ drifted' = drifted \cup (Holders(c.wallet) \
                       IF Granting(c.wallet) = {d} THEN {requests[c.id].user}
                       ELSE {})
      /\ decision' = [decision EXCEPT ![d].kind = "marking"]
      /\ UNCHANGED <<started, rowVars, requests, late, job, pageVars, told,
                     toldWallet, raced, doubled, twice>>

(* The call was not sent, was replaced, or its receipt did not come in
   time; in the last case it may still be mined. *)
ChainFails_Ignored(d) ==
  /\ decision[d].kind = "writing"
  /\ decision' = [decision EXCEPT ![d].kind = "marking"]
  /\ UNCHANGED <<started, rowVars, requests, chainFields, late, job, pageVars,
                 historyVars>>
ChainFails(d) ==
  LET c == decision[d]
  IN  /\ c.kind = "writing"
      /\ late' \in {late, late \cup {<<c.id, c.wallet>>}}
      /\ Answer(d, "error")
      /\ UNCHANGED <<started, rowVars, requests, chainFields, job, offered,
                     granted, toldWallet, raced, doubled, drifted, twice>>

LateMined ==
  \E call \in late :
    /\ Written(call[1], call[2])
    /\ late' = late \ {call}
    /\ drifted' = drifted \cup Holders(call[2])
                    \cup {requests[call[1]].user}
    /\ UNCHANGED <<started, rowVars, requests, job, decision, pageVars, told,
                   toldWallet, raced, doubled, twice>>

Promoted_No(role) == role
Promoted(role) == IF role = "user" THEN "reviewer" ELSE role

(* MarkFieldRequestApproved: no check that the request is still pending. *)
MarkApproved(d) ==
  LET id == decision[d].id
      u == requests[id].user
  IN  /\ decision[d].kind = "marking"
      /\ requests' = [requests EXCEPT ![id].status = "approved"]
      /\ verified' = [verified EXCEPT ![u] = requests[id].fields]
      /\ row' = [row EXCEPT ![u].role = Promoted(@)]
      /\ raced' = IF \E j \in InFlight(Saves) : job[j].user = u
                  THEN raced \cup {u} ELSE raced
      /\ AnswerOrError(d, "approved")
      /\ UNCHANGED <<started, chainFields, late, job, offered, granted,
                     toldWallet, doubled, drifted, twice>>

(* A database error, or a check of ReadRequest that refuses the request. *)
DecisionFails(d) ==
  /\ decision[d].kind \in {"reading", "rejecting", "marking"}
  /\ drifted' = IF decision[d].kind = "marking"
                THEN drifted \cup Holders(decision[d].wallet)
                       \cup {requests[decision[d].id].user}
                ELSE drifted
  /\ Answer(d, "error")
  /\ UNCHANGED <<started, rowVars, requests, chainFields, late, job, offered,
                 granted, toldWallet, raced, doubled, twice>>
-----------------------------------------------------------------------------
UserSteps(j) ==
  \/ \E u \in User : \/ \E w \in Wallet : BindWallet(j, u, w)
                     \/ \E s \in Subject : VerifyIdentity(j, u, s)
                     \/ \E f \in FieldSet : Apply(j, u, f)
  \/ LoadRow(j) \/ SaveRow(j) \/ CommitApplication(j) \/ JobFails(j)

EditorSteps(d) ==
  \/ \E v \in list, approve \in BOOLEAN : ClickDecide(d, v, approve)
  \/ ReadRequest(d) \/ Reject(d)
  \/ ChainWritten(d) \/ ChainFails(d)
  \/ MarkApproved(d) \/ DecisionFails(d)

Next ==
  \/ \E j \in Job : UserSteps(j)
  \/ \E u \in User : LoadProfile(u)
  \/ OpenDashboard
  \/ \E d \in Decision : EditorSteps(d)
  \/ LateMined

Spec == Init /\ [][Next]_vars
-----------------------------------------------------------------------------
Id == DOMAIN requests

(* The database is never ahead of the chain: fields shown as verified were
   written on chain for one of that user's requests
   (DecideReviewerVerification calls the contract before it marks). *)
VerifiedWasGranted ==
  \A u \in User : verified[u] # None =>
    \E g \in granted : /\ requests[g[1]].user = u
                       /\ requests[g[1]].fields = verified[u]

(* README: "no other account can bind them".  Two accounts share a wallet
   only if one of them had a job that overlapped a rival: FindByWalletAddress
   and Save are two statements and the column has no unique index. *)
OneOwner ==
  \A u, v \in User : u # v /\ row[u].wallet # None /\ {u, v} \cap raced = {}
                     => row[u].wallet # row[v].wallet

(* A user told that a wallet is bound has it, through later saves and
   failures, until a later bind of theirs; after one that ended in an error
   it may be that one's wallet.  Not so for a user one of whose jobs
   overlapped a rival: Save writes back every column read before. *)
BindingKept ==
  \A u \in User \ raced : row[u].wallet \in toldWallet[u]

(* A user with verified fields is a reviewer, unless a save that read the
   old role overlapped the approval. *)
ApprovedIsReviewer ==
  \A u \in User \ raced : verified[u] # None => row[u].role = "reviewer"

(* Specialization page: "Submitting again replaces it".  Two requests of one
   user are pending only if their transactions overlapped. *)
OnePending == \A u \in User \ twice : Cardinality(Pending(u)) <= 1

(* An editor is told of a decision only once the request has left the queue,
   whatever the user or another call did to it meanwhile. *)
ToldIsDecided ==
  \A id \in Id : told[id] \cap {"approved", "rejected"} # {}
                 => requests[id].status # "pending"

(* A request the editor was told is rejected was not granted on chain,
   unless another decision on it overlapped, or an earlier one failed. *)
RejectedIsNotGranted ==
  \A id \in Id \ doubled : "rejected" \in told[id] /\ "error" \notin told[id]
                           => \A g \in granted : g[1] # id

(* Specialization page: "Verified fields (on-chain)".  They are those of the
   bound wallet while no decision for the wallet is under way, except after
   a change of wallet, an approval that failed half-way, two approvals at
   once, or an approval for another account with the same wallet. *)
ShownFieldsAreOnChain ==
  \A u \in User \ drifted :
    verified[u] # None /\ Granting(row[u].wallet) = {}
      => chainFields[row[u].wallet] = verified[u]
=============================================================================
