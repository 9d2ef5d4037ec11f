--------------------------- MODULE AccountsProofs ---------------------------
(***************************************************************************)
(* Theorems about Accounts, for every number of accounts, wallets, editors *)
(* and overlapping requests: what a small instance is searched for is      *)
(* proved here without its bounds.                                         *)
(***************************************************************************)
EXTENDS Accounts, FiniteSetTheorems, SequenceTheorems, TLAPS

(***************************************************************************)
(* Types, in the detail the proofs need: which values a request under way  *)
(* carries, and that whatever names a request names one that exists.       *)
(***************************************************************************)
BindJob == [kind : {"bind"}, user : User, value : Wallet, loaded : BOOLEAN,
            row : Row]
VerifyJob == [kind : {"verify"}, user : User, value : Subject,
              loaded : BOOLEAN, row : Row]
ApplyJob == [kind : {"apply"}, user : User, value : FieldSet, row : Row,
             old : SUBSET RequestId]
JobType == {Idle} \cup BindJob \cup VerifyJob \cup ApplyJob
CallType == {Idle} \cup [kind : DecisionStep, id : RequestId,
                         approve : BOOLEAN, mounted : BOOLEAN,
                         wallet : Wallet \cup {None}]
Outcome == {"approved", "rejected", "error"}
Applying == InFlight({"apply"})

RowsTyped ==
  /\ row \in [User -> Row]
  /\ verified \in [User -> FieldSet \cup {None}]
  /\ toldWallet \in [User -> SUBSET (Wallet \cup {None})]
JobsTyped ==
  /\ job \in [Job -> JobType]
  /\ offered \subseteq User \X {"wallet", "subject"}
  /\ started \in [job : 0 .. MaxJobs, click : 0 .. MaxClicks]
RequestsTyped ==
  /\ requests \in Seq(Request)
  /\ Len(requests) + Cardinality(Applying) <= MaxRequests
ChainTyped ==
  /\ chainFields \in [Wallet -> FieldSet \cup {None}]
  /\ late \subseteq Id \X Wallet
  /\ granted \subseteq Id \X Wallet
CallsTyped ==
  /\ decision \in [Decision -> CallType]
  /\ \A d \in Decision : decision[d] # Idle =>
       /\ decision[d].id \in Id
       /\ decision[d].kind \in {"writing", "marking"} =>
            decision[d].wallet \in Wallet
  /\ list \subseteq [id : Id, bound : BOOLEAN]
  /\ busy \in Id \cup {0}
ToldTyped ==
  /\ told \in [RequestId -> SUBSET Outcome]
  /\ \A id \in RequestId : told[id] # {} => id \in Id

Typed == /\ RowsTyped /\ JobsTyped /\ RequestsTyped
         /\ ChainTyped /\ CallsTyped /\ ToldTyped

(***************************************************************************)
(* The applications under way are finitely many, and requests are numbered *)
(* from one to at most MaxRequests.                                        *)
(***************************************************************************)
LEMMA ApplyingFinite ==
  IsFiniteSet(Applying) /\ Cardinality(Applying) \in Nat
<1>1. Applying \in SUBSET Job
  BY DEF Applying, InFlight
<1>2. IsFiniteSet(Job)
  BY AccountsAssumption
<1>3. IsFiniteSet(Applying)
  BY <1>1, <1>2, FS_Subset
<1> QED
  BY <1>3, FS_CardinalityType

LEMMA RequestIds ==
  ASSUME RequestsTyped
  PROVE  /\ Len(requests) \in Nat
         /\ Len(requests) <= MaxRequests
         /\ Id = 1 .. Len(requests)
         /\ Id \subseteq RequestId
         /\ \A id \in Id : requests[id] \in Request
<1>1. requests \in Seq(Request)
  BY DEF RequestsTyped
<1>2. Len(requests) \in Nat /\ Id = 1 .. Len(requests)
  BY <1>1, LenProperties DEF Id
<1>3. Len(requests) <= MaxRequests
  BY <1>2, ApplyingFinite, AccountsAssumption DEF RequestsTyped
<1>4. \A id \in Id : requests[id] \in Request
  BY <1>1, <1>2, ElementOfSeq
<1> QED
  BY <1>2, <1>3, <1>4, AccountsAssumption DEF RequestId

LEMMA TypedImpliesTypeOK == Typed => TypeOK
<1> SUFFICES ASSUME Typed PROVE TypeOK
  OBVIOUS
<1> USE DEF Typed
<1>1. Id \subseteq RequestId /\ Id = 1 .. Len(requests)
       /\ Len(requests) <= MaxRequests /\ Id = DOMAIN requests
  BY RequestIds DEF Id
<1>2. late \subseteq RequestId \X Wallet
  BY <1>1 DEF ChainTyped
<1>3. \A j \in Job : \/ job[j] = Idle
                     \/ job[j].user \in User /\ job[j].row \in Row
  BY DEF JobsTyped, JobType, BindJob, VerifyJob, ApplyJob
<1>4. \A d \in Decision : \/ decision[d] = Idle
                          \/ /\ decision[d].id \in 1 .. Len(requests)
                             /\ decision[d].kind \in DecisionStep
                             /\ decision[d].kind \in {"writing", "marking"}
                                  => decision[d].wallet \in Wallet
  BY <1>1 DEF CallsTyped, CallType
<1>5. list \subseteq [id : RequestId, bound : BOOLEAN] /\ busy \in RequestId \cup {0}
  BY <1>1 DEF CallsTyped
<1>6. started.job \in 0 .. MaxJobs /\ started.click \in 0 .. MaxClicks
  BY DEF JobsTyped
<1> QED
  BY <1>1, <1>2, <1>3, <1>4, <1>5, <1>6
  DEF TypeOK, RowsTyped, JobsTyped, RequestsTyped, ChainTyped, CallsTyped

LEMMA InitTyped == Init => Typed
<1> SUFFICES ASSUME Init PROVE Typed
  OBVIOUS
<1> USE AccountsAssumption DEF Init
<1>1. RowsTyped
  BY DEF RowsTyped, Row, NewUser
<1>2. JobsTyped
  BY DEF JobsTyped, JobType
<1>3. RequestsTyped
  <2>1. Applying = {}
    BY DEF Applying, InFlight, Idle
  <2>2. requests \in Seq(Request) /\ Len(requests) = 0
    BY EmptySeq
  <2> QED
    BY <2>1, <2>2, FS_EmptySet DEF RequestsTyped
<1>4. ChainTyped
  BY DEF ChainTyped
<1>5. CallsTyped
  BY DEF CallsTyped, CallType
<1>6. ToldTyped
  BY DEF ToldTyped
<1> QED
  BY <1>1, <1>2, <1>3, <1>4, <1>5, <1>6 DEF Typed

(***************************************************************************)
(* How a step may change the table of requests: not at all, one status, or *)
(* one new row.  Either way rows keep their number, owner and fields.      *)
(***************************************************************************)
RequestsKept ==
  /\ Id \subseteq Id'
  /\ \A id \in Id : /\ requests'[id].user = requests[id].user
                    /\ requests'[id].fields = requests[id].fields

LEMMA StatusChange ==
  ASSUME requests \in Seq(Request), NEW i \in Id,
         NEW s \in {"pending", "superseded", "approved", "rejected"},
         requests' = [requests EXCEPT ![i].status = s]
  PROVE  /\ requests' \in Seq(Request)
         /\ Len(requests') = Len(requests)
         /\ Id' = Id
         /\ \A id \in Id : /\ requests'[id].user = requests[id].user
                           /\ requests'[id].fields = requests[id].fields
                           /\ requests'[id].status =
                                IF id = i THEN s ELSE requests[id].status
<1> DEFINE new == [requests[i] EXCEPT !.status = s]
<1>1. i \in 1 .. Len(requests) /\ Id = 1 .. Len(requests)
  BY LenProperties DEF Id
<1>2. \A id \in Id : requests[id] \in Request
  BY <1>1, ElementOfSeq
<1>3. new \in Request /\ new.status = s
      /\ new.user = requests[i].user /\ new.fields = requests[i].fields
  BY <1>2 DEF Request
<1>4. requests' = [requests EXCEPT ![i] = new]
  OBVIOUS
<1> HIDE DEF new
<1>5. /\ requests' \in Seq(Request)
      /\ Len(requests') = Len(requests)
      /\ \A id \in 1 .. Len(requests) :
           requests'[id] = IF id = i THEN new ELSE requests[id]
  BY <1>1, <1>3, <1>4, ExceptSeq
<1>6. Id' = Id
  BY <1>1, <1>5, LenProperties DEF Id
<1> QED
  BY <1>1, <1>3, <1>5, <1>6

(* Nothing the requests table's type speaks of changes.                    *)
LEMMA RequestsUnchanged ==
  ASSUME UNCHANGED requests
  PROVE  Id' = Id /\ RequestsKept
BY DEF Id, RequestsKept

LEMMA StartSaveTyped ==
  ASSUME Typed, NEW j \in Job, NEW u \in User,
         NEW kind, NEW column, NEW value,
         \/ kind = "bind" /\ value \in Wallet
         \/ kind = "verify" /\ value \in Subject,
         StartSave(j, u, kind, column, value)
  PROVE  Typed'
<1> USE DEF Typed, StartSave, StartJob
<1>1. RowsTyped'
  BY DEF RowsTyped, rowVars
<1>2. JobsTyped'
  <2>1. started' \in [job : 0 .. MaxJobs, click : 0 .. MaxClicks]
    BY AccountsAssumption DEF JobsTyped
  <2>2. NewUser \in Row
    BY DEF NewUser, Row
  <2>3. job' \in [Job -> JobType]
    BY <2>2 DEF JobsTyped, JobType, BindJob, VerifyJob
  <2> QED
    BY <2>1, <2>3 DEF JobsTyped, pageVars
<1>3. Applying' = Applying
  BY DEF JobsTyped, Applying, InFlight, Idle
<1>4. RequestsTyped'
  BY <1>3 DEF RequestsTyped
<1>5. Id' = Id
  BY RequestsUnchanged
<1> QED
  BY <1>1, <1>2, <1>4, <1>5 DEF ChainTyped, CallsTyped, ToldTyped, pageVars

LEMMA LoadRowTyped ==
  ASSUME Typed, NEW j \in Job, LoadRow(j)
  PROVE  Typed'
<1> USE DEF Typed, LoadRow
<1>1. RowsTyped'
  BY DEF RowsTyped, rowVars, historyVars
<1>2. JobsTyped'
  <2>1. job[j] \in BindJob \cup VerifyJob
    BY DEF JobsTyped, JobType, Saves, ApplyJob, Idle
  <2>2. row[job[j].user] \in Row
    BY <2>1 DEF RowsTyped, BindJob, VerifyJob
  <2>3. job' \in [Job -> JobType]
    BY <2>1, <2>2 DEF JobsTyped, JobType, BindJob, VerifyJob
  <2> QED
    BY <2>3 DEF JobsTyped, pageVars
<1>3. Applying' = Applying
  BY DEF JobsTyped, Applying, InFlight, Saves
<1>4. RequestsTyped'
  BY <1>3 DEF RequestsTyped
<1>5. Id' = Id
  BY RequestsUnchanged
<1> QED
  BY <1>1, <1>2, <1>4, <1>5
  DEF ChainTyped, CallsTyped, ToldTyped, pageVars, historyVars

(* Freeing the slot of a request that is not an application.               *)
LEMMA SaveRowTyped ==
  ASSUME Typed, NEW j \in Job, SaveRow(j)
  PROVE  Typed'
<1> USE DEF Typed, SaveRow
<1>1. job[j] \in BindJob \cup VerifyJob
  BY DEF JobsTyped, JobType, Saves, ApplyJob, Idle
<1>2. RowsTyped'
  <2>1. NewRow(job[j]) \in Row
    <3>1. CASE job[j] \in BindJob
      BY <3>1 DEF BindJob, NewRow, Column, Row
    <3>2. CASE job[j] \in VerifyJob
      BY <3>2 DEF VerifyJob, NewRow, Column, Row
    <3> QED
      BY <1>1, <3>1, <3>2
  <2>2. row' \in [User -> Row]
    BY <1>1, <2>1 DEF RowsTyped, BindJob, VerifyJob
  <2>3. toldWallet' \in [User -> SUBSET (Wallet \cup {None})]
    BY <1>1 DEF RowsTyped, BindJob, VerifyJob, Heard
  <2> QED
    BY <2>2, <2>3 DEF RowsTyped
<1>3. JobsTyped'
  BY DEF JobsTyped, JobType, pageVars
<1>4. Applying' = Applying
  BY <1>1 DEF JobsTyped, Applying, InFlight, Idle, BindJob, VerifyJob
<1>5. RequestsTyped'
  BY <1>4 DEF RequestsTyped
<1>6. Id' = Id
  BY RequestsUnchanged
<1> QED
  BY <1>2, <1>3, <1>5, <1>6 DEF ChainTyped, CallsTyped, ToldTyped, pageVars

LEMMA JobFailsTyped ==
  ASSUME Typed, NEW j \in Job, JobFails(j)
  PROVE  Typed'
<1> USE DEF Typed, JobFails
<1>1. RowsTyped'
  BY DEF RowsTyped, rowVars, historyVars
<1>2. JobsTyped'
  BY DEF JobsTyped, JobType, pageVars
<1>3. RequestsTyped'
  <2>1. Applying' \in SUBSET Applying
    BY DEF JobsTyped, Applying, InFlight, Idle
  <2>2. Cardinality(Applying') <= Cardinality(Applying)
        /\ Cardinality(Applying') \in Nat
    BY <2>1, ApplyingFinite, FS_Subset, FS_CardinalityType
  <2>3. Len(requests) \in Nat
    BY RequestIds
  <2> QED
    BY <2>2, <2>3, ApplyingFinite, AccountsAssumption DEF RequestsTyped
<1>4. Id' = Id
  BY RequestsUnchanged
<1> QED
  BY <1>1, <1>2, <1>3, <1>4
  DEF ChainTyped, CallsTyped, ToldTyped, pageVars, historyVars

LEMMA LoadProfileTyped ==
  ASSUME Typed, NEW u \in User, LoadProfile(u)
  PROVE  Typed'
<1> USE DEF Typed, LoadProfile, Offers
<1>1. RowsTyped'
  BY DEF RowsTyped, rowVars, historyVars
<1>2. JobsTyped'
  BY DEF JobsTyped
<1>3. RequestsTyped'
  BY DEF RequestsTyped, Applying, InFlight
<1>4. Id' = Id
  BY RequestsUnchanged
<1> QED
  BY <1>1, <1>2, <1>3, <1>4 DEF ChainTyped, CallsTyped, ToldTyped, historyVars

LEMMA ApplyTyped ==
  ASSUME Typed, NEW j \in Job, NEW u \in User, NEW f \in FieldSet,
         Apply(j, u, f)
  PROVE  Typed'
<1> USE DEF Typed, Apply, StartJob
<1>1. RowsTyped'
  BY DEF RowsTyped, rowVars
<1>2. Superseded(u) \in SUBSET RequestId
  BY RequestIds DEF Superseded, Pending, Id
<1>3. JobsTyped'
  <2>1. started' \in [job : 0 .. MaxJobs, click : 0 .. MaxClicks]
    BY AccountsAssumption DEF JobsTyped
  <2>2. NewUser \in Row
    BY DEF NewUser, Row
  <2>3. job' \in [Job -> JobType]
    BY <1>2, <2>2 DEF JobsTyped, JobType, ApplyJob
  <2> QED
    BY <2>1, <2>3 DEF JobsTyped, pageVars
<1>4. RequestsTyped'
  <2>1. Applying' = Applying \cup {j} /\ j \notin Applying
    BY DEF JobsTyped, Applying, InFlight, Idle
  <2>2. Cardinality(Applying') = Cardinality(Applying) + 1
    BY <2>1, ApplyingFinite, FS_AddElement
  <2>3. Len(requests) \in Nat
    BY RequestIds
  <2> QED
    BY <2>2, <2>3, ApplyingFinite, AccountsAssumption
    DEF RequestsTyped, Applying
<1>5. Id' = Id
  BY RequestsUnchanged
<1> QED
  BY <1>1, <1>3, <1>4, <1>5 DEF ChainTyped, CallsTyped, ToldTyped, pageVars

(* The row an application appends, and those it supersedes.                *)
LEMMA CommitFacts ==
  ASSUME Typed, NEW j \in Job, CommitApplication(j)
  PROVE  /\ requests' \in Seq(Request)
         /\ Len(requests') = Len(requests) + 1
         /\ Id' = Id \cup {Len(requests')} /\ Len(requests') \notin Id
         /\ requests'[Len(requests')] =
              [user |-> job[j].user, fields |-> job[j].value,
               status |-> "pending"]
         /\ \A id \in Id :
              /\ requests'[id].user = requests[id].user
              /\ requests'[id].fields = requests[id].fields
              /\ requests'[id].status =
                   IF id \in job[j].old /\ requests[id].status = "pending"
                   THEN "superseded" ELSE requests[id].status
<1> DEFINE left == [id \in DOMAIN requests |->
                      IF id \in job[j].old /\ requests[id].status = "pending"
                      THEN [requests[id] EXCEPT !.status = "superseded"]
                      ELSE requests[id]]
           new == [user |-> job[j].user, fields |-> job[j].value,
                   status |-> "pending"]
<1>1. requests \in Seq(Request) /\ Len(requests) \in Nat
      /\ Id = 1 .. Len(requests) /\ \A id \in Id : requests[id] \in Request
  BY RequestIds DEF Typed, RequestsTyped
<1>2. \A id \in Id : left[id] \in Request
  BY <1>1 DEF Request, Id
<1>3. left \in [1 .. Len(requests) -> Request]
  BY <1>1, <1>2 DEF Id
<1>4. left \in Seq(Request)
  BY <1>1, <1>3, SeqDef
<1>5. Len(left) = Len(requests)
  BY <1>1, <1>3, <1>4, LenProperties
<1>6. job[j] \in ApplyJob
  BY DEF Typed, CommitApplication, JobsTyped, JobType, BindJob, VerifyJob, Idle
<1>7. new \in Request
  BY <1>6 DEF ApplyJob, Request
<1>8. requests' = Append(left, new)
  BY DEF CommitApplication
<1>9. \A id \in Id : /\ left[id].user = requests[id].user
                     /\ left[id].fields = requests[id].fields
                     /\ left[id].status =
                          IF id \in job[j].old /\ requests[id].status = "pending"
                          THEN "superseded" ELSE requests[id].status
  BY <1>1 DEF Request, Id
<1> HIDE DEF left, new
<1>10. /\ requests' \in Seq(Request)
       /\ Len(requests') = Len(requests) + 1
       /\ \A id \in 1 .. Len(requests) : requests'[id] = left[id]
       /\ requests'[Len(requests) + 1] = new
  BY <1>4, <1>5, <1>7, <1>8, AppendProperties
<1>11. Id' = 1 .. (Len(requests) + 1)
  BY <1>10, LenProperties DEF Id
<1> QED
  BY <1>1, <1>9, <1>10, <1>11 DEF new

LEMMA CommitApplicationTyped ==
  ASSUME Typed, NEW j \in Job, CommitApplication(j)
  PROVE  Typed'
<1>1. RowsTyped'
  BY DEF Typed, CommitApplication, RowsTyped, rowVars, historyVars
<1>2. JobsTyped'
  BY DEF Typed, CommitApplication, JobsTyped, JobType, pageVars
<1>3. RequestsTyped'
  <2>1. Applying' = Applying \ {j} /\ j \in Applying
    BY DEF Typed, CommitApplication, JobsTyped, Applying, InFlight, Idle
  <2>2. Cardinality(Applying') = Cardinality(Applying) - 1
    BY <2>1, ApplyingFinite, FS_RemoveElement
  <2>3. Len(requests) \in Nat
    BY RequestIds DEF Typed
  <2>4. requests' \in Seq(Request) /\ Len(requests') = Len(requests) + 1
    BY CommitFacts
  <2>5. Len(requests) + Cardinality(Applying) <= MaxRequests
    BY DEF Typed, RequestsTyped
  <2> QED
    BY <2>2, <2>3, <2>4, <2>5, ApplyingFinite, AccountsAssumption
    DEF RequestsTyped
<1>4. Id \subseteq Id'
  BY CommitFacts
<1>5. ChainTyped'
  BY <1>4 DEF Typed, CommitApplication, ChainTyped, historyVars
<1>6. CallsTyped'
  BY <1>4 DEF Typed, CommitApplication, CallsTyped, pageVars
<1>7. ToldTyped'
  BY <1>4 DEF Typed, CommitApplication, ToldTyped, historyVars
<1> QED
  BY <1>1, <1>2, <1>3, <1>5, <1>6, <1>7 DEF Typed

LEMMA OpenDashboardTyped ==
  ASSUME Typed, OpenDashboard
  PROVE  Typed'
<1> USE DEF Typed, OpenDashboard
<1>1. RowsTyped' /\ JobsTyped' /\ RequestsTyped' /\ Id' = Id
  BY RequestsUnchanged
  DEF RowsTyped, JobsTyped, RequestsTyped, Applying, InFlight, rowVars,
      historyVars
<1>2. decision' \in [Decision -> CallType]
  <2>1. ASSUME NEW d \in Decision, decision[d] # Idle
        PROVE  [decision[d] EXCEPT !.mounted = FALSE] \in CallType
    <3>1. decision[d] \in CallType \ {Idle}
      BY <2>1 DEF CallsTyped
    <3> QED
      BY <3>1 DEF CallType
  <2>2. Idle \in CallType
    BY DEF CallType
  <2> QED
    BY <2>1, <2>2
<1>3. \A d \in Decision : decision'[d] # Idle =>
        /\ decision[d] # Idle
        /\ decision'[d].id = decision[d].id
        /\ decision'[d].kind = decision[d].kind
        /\ decision'[d].wallet = decision[d].wallet
  <2>1. SUFFICES ASSUME NEW d \in Decision, decision'[d] # Idle
                 PROVE  /\ decision[d] # Idle
                        /\ decision'[d].id = decision[d].id
                        /\ decision'[d].kind = decision[d].kind
                        /\ decision'[d].wallet = decision[d].wallet
    OBVIOUS
  <2>2. decision[d] # Idle
        /\ decision'[d] = [decision[d] EXCEPT !.mounted = FALSE]
    BY <2>1
  <2>3. decision[d] \in CallType \ {Idle}
    BY <2>2 DEF CallsTyped
  <2> QED
    BY <2>2, <2>3 DEF CallType
<1>4. list' \subseteq [id : Id, bound : BOOLEAN]
  <2>1. SUFFICES ASSUME NEW v \in list'
                 PROVE  v \in [id : Id, bound : BOOLEAN]
    OBVIOUS
  <2>2. PICK id \in Id :
          v = [id |-> id, bound |-> row[requests[id].user].wallet # None]
    BY DEF Id
  <2>3. (row[requests[id].user].wallet # None) \in BOOLEAN
    OBVIOUS
  <2> QED
    BY <2>2, <2>3
<1> QED
  BY <1>1, <1>2, <1>3, <1>4 DEF ChainTyped, CallsTyped, ToldTyped, historyVars

LEMMA ClickDecideTyped ==
  ASSUME Typed, NEW d \in Decision, NEW v \in list, NEW approve \in BOOLEAN,
         ClickDecide(d, v, approve)
  PROVE  Typed'
<1> USE DEF Typed, ClickDecide
<1>1. RowsTyped' /\ RequestsTyped' /\ Id' = Id
  BY RequestsUnchanged DEF RowsTyped, RequestsTyped, Applying, InFlight, rowVars
<1>2. JobsTyped'
  BY AccountsAssumption DEF JobsTyped
<1>3. v.id \in Id /\ Id \subseteq RequestId
  BY RequestIds DEF CallsTyped
<1>4. decision' \in [Decision -> CallType]
  BY <1>3 DEF CallsTyped, CallType, DecisionStep
<1>5. CallsTyped'
  BY <1>1, <1>3, <1>4 DEF CallsTyped, CallType
<1> QED
  BY <1>1, <1>2, <1>5 DEF ChainTyped, ToldTyped

LEMMA ReadRequestTyped ==
  ASSUME Typed, NEW d \in Decision, ReadRequest(d)
  PROVE  Typed'
<1> USE DEF Typed, ReadRequest
<1>1. RowsTyped' /\ JobsTyped' /\ RequestsTyped' /\ Id' = Id
  BY RequestsUnchanged
  DEF RowsTyped, JobsTyped, RequestsTyped, Applying, InFlight, rowVars,
      pageVars, historyVars
<1>2. decision[d] # Idle /\ decision[d].id \in Id
  BY DEF CallsTyped, Idle
<1>3. requests[decision[d].id].user \in User
  BY <1>2, RequestIds DEF Request
<1>4. row[requests[decision[d].id].user].wallet \in Wallet \cup {None}
  BY <1>3 DEF RowsTyped, Row
<1> DEFINE kind == IF decision[d].approve THEN "writing" ELSE "rejecting"
           wallet == IF decision[d].approve
                     THEN row[requests[decision[d].id].user].wallet ELSE None
<1>5. decision' \in [Decision -> CallType]
      /\ decision'[d].wallet = wallet /\ decision'[d].kind = kind
      /\ decision'[d].id = decision[d].id
      /\ \A e \in Decision \ {d} : decision'[e] = decision[e]
  <2> DEFINE new == [decision[d] EXCEPT !.kind = kind, !.wallet = wallet]
  <2>1. decision' = [decision EXCEPT ![d] = new]
    OBVIOUS
  <2>2. kind \in DecisionStep /\ wallet \in Wallet \cup {None}
    BY <1>4 DEF DecisionStep
  <2>3. decision[d] \in CallType \ {Idle} /\ decision \in [Decision -> CallType]
    BY <1>2 DEF CallsTyped
  <2> HIDE DEF kind, wallet, ReadRequest
  <2>4. new \in CallType /\ new.kind = kind /\ new.wallet = wallet
        /\ new.id = decision[d].id
    BY <2>2, <2>3 DEF CallType
  <2> HIDE DEF new
  <2> QED
    BY <2>1, <2>3, <2>4
<1>6. CallsTyped'
  <2>1. wallet \in Wallet \/ kind = "rejecting"
    BY <1>4
  <2>2. list' = list /\ busy' = busy
    BY DEF pageVars
  <2> HIDE DEF kind, wallet, ReadRequest
  <2> QED
    BY <1>1, <1>2, <1>5, <2>1, <2>2 DEF CallsTyped
<1> QED
  BY <1>1, <1>6 DEF ChainTyped, ToldTyped, pageVars, historyVars

(* The answer to the page, whatever the outcome.                           *)
LEMMA AnswerTyped ==
  ASSUME CallsTyped, ToldTyped, Id \subseteq RequestId, Id' = Id,
         NEW d \in Decision, decision[d] # Idle,
         NEW outcome \in Outcome, Answer(d, outcome)
  PROVE  CallsTyped' /\ ToldTyped'
<1>1. decision[d].id \in Id
  BY DEF CallsTyped
<1>2. decision' \in [Decision -> CallType]
  BY DEF CallsTyped, CallType, Answer
<1>3. CallsTyped'
  BY <1>2 DEF CallsTyped, Answer
<1>4. ToldTyped'
  BY <1>1 DEF ToldTyped, Answer, Outcome
<1> QED
  BY <1>3, <1>4

(* One request's status changes, nobody else's.                            *)
LEMMA RejectTyped ==
  ASSUME Typed, NEW d \in Decision, Reject(d)
  PROVE  Typed'
<1> USE DEF Typed, Reject
<1>1. decision[d] # Idle /\ decision[d].id \in Id
  BY DEF CallsTyped, Idle
<1>2. /\ requests' \in Seq(Request)
      /\ Len(requests') = Len(requests)
      /\ Id' = Id
  BY <1>1, StatusChange, RequestsUnchanged DEF RequestsTyped
<1>3. RowsTyped' /\ JobsTyped' /\ RequestsTyped'
  BY <1>2 DEF RowsTyped, JobsTyped, RequestsTyped, Applying, InFlight, rowVars
<1>4. CallsTyped' /\ ToldTyped'
  BY <1>1, <1>2, AnswerTyped, RequestIds DEF AnswerOrError, Outcome
<1> QED
  BY <1>2, <1>3, <1>4 DEF ChainTyped

LEMMA ChainWrittenTyped ==
  ASSUME Typed, NEW d \in Decision, ChainWritten(d)
  PROVE  Typed'
<1> USE DEF Typed, ChainWritten, Written
<1>1. RowsTyped' /\ JobsTyped' /\ RequestsTyped' /\ Id' = Id
  BY RequestsUnchanged
  DEF RowsTyped, JobsTyped, RequestsTyped, Applying, InFlight, rowVars,
      pageVars
<1>2. decision[d] # Idle /\ decision[d].id \in Id
      /\ decision[d].wallet \in Wallet
  BY DEF CallsTyped, Idle
<1>3. requests[decision[d].id].fields \in FieldSet
  BY <1>2, RequestIds DEF Request
<1>4. ChainTyped'
  BY <1>1, <1>2, <1>3 DEF ChainTyped
<1>5. decision' \in [Decision -> CallType]
  BY <1>2 DEF CallsTyped, CallType, DecisionStep
<1>6. CallsTyped'
  BY <1>1, <1>2, <1>5 DEF CallsTyped, CallType, pageVars
<1> QED
  BY <1>1, <1>4, <1>6 DEF ToldTyped

LEMMA ChainFailsTyped ==
  ASSUME Typed, NEW d \in Decision, ChainFails(d)
  PROVE  Typed'
<1> USE DEF Typed, ChainFails
<1>1. RowsTyped' /\ JobsTyped' /\ RequestsTyped' /\ Id' = Id
  BY RequestsUnchanged
  DEF RowsTyped, JobsTyped, RequestsTyped, Applying, InFlight, rowVars
<1>2. decision[d] # Idle /\ decision[d].id \in Id
      /\ decision[d].wallet \in Wallet
  BY DEF CallsTyped, Idle
<1>3. CallsTyped' /\ ToldTyped'
  BY <1>1, <1>2, AnswerTyped, RequestIds DEF Outcome
<1> QED
  BY <1>1, <1>2, <1>3 DEF ChainTyped

LEMMA LateMinedTyped ==
  ASSUME Typed, LateMined
  PROVE  Typed'
<1> USE DEF Typed
<1>1. PICK call \in late : /\ Written(call[1], call[2])
                           /\ late' = late \ {call}
  BY DEF LateMined
<1>2. RowsTyped' /\ JobsTyped' /\ RequestsTyped' /\ Id' = Id
  BY RequestsUnchanged
  DEF LateMined, RowsTyped, JobsTyped, RequestsTyped, Applying, InFlight,
      rowVars, pageVars
<1>3. call[1] \in Id /\ call[2] \in Wallet
  BY DEF ChainTyped
<1>4. requests[call[1]].fields \in FieldSet
  BY <1>3, RequestIds DEF Request
<1>5. ChainTyped'
  BY <1>1, <1>2, <1>3, <1>4 DEF ChainTyped, Written
<1> QED
  BY <1>2, <1>5 DEF LateMined, CallsTyped, ToldTyped, pageVars

LEMMA MarkApprovedTyped ==
  ASSUME Typed, NEW d \in Decision, MarkApproved(d)
  PROVE  Typed'
<1> USE DEF Typed, MarkApproved
<1>1. decision[d] # Idle /\ decision[d].id \in Id
  BY DEF CallsTyped, Idle
<1>2. /\ requests' \in Seq(Request)
      /\ Len(requests') = Len(requests)
      /\ Id' = Id
  BY <1>1, StatusChange DEF RequestsTyped
<1>3. /\ requests[decision[d].id].user \in User
      /\ requests[decision[d].id].fields \in FieldSet
  BY <1>1, RequestIds DEF Request
<1>4. RowsTyped'
  <2>1. row' \in [User -> Row]
    <3>1. Promoted(row[requests[decision[d].id].user].role)
            \in {"user", "reviewer"}
      BY <1>3 DEF RowsTyped, Row, Promoted
    <3> QED
      BY <1>3, <3>1 DEF RowsTyped, Row
  <2> QED
    BY <1>3, <2>1 DEF RowsTyped
<1>5. JobsTyped' /\ RequestsTyped'
  BY <1>2 DEF JobsTyped, RequestsTyped, Applying, InFlight
<1>6. CallsTyped' /\ ToldTyped'
  BY <1>1, <1>2, AnswerTyped, RequestIds DEF AnswerOrError, Outcome
<1> QED
  BY <1>2, <1>4, <1>5, <1>6 DEF ChainTyped

LEMMA DecisionFailsTyped ==
  ASSUME Typed, NEW d \in Decision, DecisionFails(d)
  PROVE  Typed'
<1> USE DEF Typed, DecisionFails
<1>1. RowsTyped' /\ JobsTyped' /\ RequestsTyped' /\ Id' = Id
  BY RequestsUnchanged
  DEF RowsTyped, JobsTyped, RequestsTyped, Applying, InFlight, rowVars
<1>2. decision[d] # Idle
  BY DEF Idle
<1>3. CallsTyped' /\ ToldTyped'
  BY <1>1, <1>2, AnswerTyped, RequestIds DEF Outcome
<1> QED
  BY <1>1, <1>3 DEF ChainTyped

LEMMA StutterTyped ==
  ASSUME Typed, UNCHANGED vars
  PROVE  Typed'
BY RequestsUnchanged
DEF vars, rowVars, pageVars, historyVars, Typed, RowsTyped, JobsTyped,
    RequestsTyped, Applying, InFlight, ChainTyped, CallsTyped, ToldTyped

LEMMA NextTyped ==
  ASSUME Typed, [Next]_vars
  PROVE  Typed'
<1>1. ASSUME NEW j \in Job, UserSteps(j) PROVE Typed'
  <2>1. ASSUME NEW u \in User, NEW w \in Wallet, BindWallet(j, u, w)
        PROVE  Typed'
    BY <2>1, StartSaveTyped DEF BindWallet
  <2>2. ASSUME NEW u \in User, NEW s \in Subject, VerifyIdentity(j, u, s)
        PROVE  Typed'
    BY <2>2, StartSaveTyped DEF VerifyIdentity
  <2> QED
    BY <1>1, <2>1, <2>2, ApplyTyped, LoadRowTyped, SaveRowTyped,
       CommitApplicationTyped, JobFailsTyped DEF UserSteps
<1>2. ASSUME NEW d \in Decision, EditorSteps(d) PROVE Typed'
  BY <1>2, ClickDecideTyped, ReadRequestTyped, RejectTyped, ChainWrittenTyped,
     ChainFailsTyped, MarkApprovedTyped, DecisionFailsTyped DEF EditorSteps
<1> QED
  BY <1>1, <1>2, LoadProfileTyped, OpenDashboardTyped, LateMinedTyped,
     StutterTyped DEF Next

LEMMA AlwaysTyped == Spec => []Typed
BY InitTyped, NextTyped, PTL DEF Spec

(***************************************************************************)
(* Accounts, requests, decisions and pages keep their types, for any       *)
(* number of users, editors and requests; in particular an approval never  *)
(* reaches the contract without a wallet, and no more requests are stored  *)
(* than were sent.                                                         *)
(***************************************************************************)
THEOREM TypeCorrect == Spec => []TypeOK
BY AlwaysTyped, TypedImpliesTypeOK, PTL

(***************************************************************************)
(* Rows of table users.  The invariant behind OneOwner, BindingKept and    *)
(* ApprovedIsReviewer: unless a user's requests raced, the row a request   *)
(* of theirs has read is still the row in the table, and the wallet a      *)
(* request is about to bind is bound to nobody else.                       *)
(***************************************************************************)
OverlapIsRace ==
  \A i, j \in Job :
    /\ i # j
    /\ job[i].kind \in Saves /\ job[j].kind \in Saves
    /\ job[i].user = job[j].user \/ job[i].value = job[j].value
    => job[i].user \in raced
ReadIsCurrent ==
  \A j \in Job :
    job[j].kind \in Saves /\ job[j].loaded /\ job[j].user \notin raced
      => job[j].row = row[job[j].user]
BoundToNobody ==
  \A j \in Job : job[j].kind = "bind" /\ job[j].user \notin raced =>
    \A v \in User \ raced : v # job[j].user => row[v].wallet # job[j].value

RaceInv == /\ OverlapIsRace /\ ReadIsCurrent /\ BoundToNobody
           /\ OneOwner /\ BindingKept /\ ApprovedIsReviewer

(* A request in a user's hands is one of the two kinds that save the row.  *)
LEMMA SaveJobs ==
  ASSUME Typed, NEW j \in Job, job[j].kind \in Saves
  PROVE  /\ job[j].user \in User
         /\ \/ job[j].kind = "bind" /\ job[j].value \in Wallet
            \/ job[j].kind = "verify" /\ job[j].value \in Subject
         /\ job[j].row \in Row
BY DEF Typed, JobsTyped, JobType, BindJob, VerifyJob, ApplyJob, Idle, Saves

LEMMA InitRace == Init => RaceInv
BY DEF Init, RaceInv, OverlapIsRace, ReadIsCurrent, BoundToNobody, OneOwner,
       BindingKept, ApprovedIsReviewer, Idle, Saves, NewUser

LEMMA StartSaveRace ==
  ASSUME Typed, RaceInv, NEW j \in Job, NEW u \in User,
         NEW kind \in Saves, NEW column, NEW value,
         kind = "bind" => column = "wallet",
         StartSave(j, u, kind, column, value)
  PROVE  RaceInv'
<1> DEFINE new == [kind |-> kind, user |-> u, value |-> value,
                   loaded |-> FALSE, row |-> NewUser]
<1>1. /\ job' = [job EXCEPT ![j] = new] /\ job[j] = Idle
      /\ row' = row /\ verified' = verified /\ toldWallet' = toldWallet
  BY DEF StartSave, rowVars
<1>2. job \in [Job -> JobType]
  BY DEF Typed, JobsTyped
<1>3. raced \subseteq raced'
  BY DEF StartSave
<1>4. \A i \in Job \ {j} :
        job[i].kind \in Saves /\ (job[i].user = u \/ job[i].value = value)
          => job[i].user \in raced' /\ u \in raced'
  BY DEF StartSave, Rivals, InFlight
<1>5. \A v \in User : v # u => row[v][column] # value
  BY DEF StartSave, Owned, Owners
<1>6. OverlapIsRace'
  BY <1>1, <1>2, <1>3, <1>4 DEF RaceInv, OverlapIsRace
<1>7. ReadIsCurrent'
  BY <1>1, <1>2, <1>3 DEF RaceInv, ReadIsCurrent
<1>8. BoundToNobody'
  BY <1>1, <1>2, <1>3, <1>5 DEF RaceInv, BoundToNobody, Saves
<1> QED
  BY <1>1, <1>3, <1>6, <1>7, <1>8
  DEF RaceInv, OneOwner, BindingKept, ApprovedIsReviewer

LEMMA LoadRowRace ==
  ASSUME Typed, RaceInv, NEW j \in Job, LoadRow(j)
  PROVE  RaceInv'
<1>1. row' = row /\ verified' = verified /\ toldWallet' = toldWallet
      /\ raced' = raced
  BY DEF LoadRow, rowVars, historyVars
<1>2. job \in [Job -> JobType] /\ job[j] \in BindJob \cup VerifyJob
  BY DEF Typed, JobsTyped, LoadRow, JobType, Saves, ApplyJob, Idle
<1>3. /\ job'[j].kind = job[j].kind /\ job'[j].user = job[j].user
      /\ job'[j].value = job[j].value /\ job'[j].row = row[job[j].user]
      /\ \A i \in Job \ {j} : job'[i] = job[i]
  BY <1>2 DEF LoadRow, BindJob, VerifyJob
<1>4. OverlapIsRace'
  BY <1>1, <1>3 DEF RaceInv, OverlapIsRace
<1>5. ReadIsCurrent'
  BY <1>1, <1>3 DEF RaceInv, ReadIsCurrent
<1>6. BoundToNobody'
  BY <1>1, <1>3 DEF RaceInv, BoundToNobody
<1> QED
  BY <1>1, <1>4, <1>5, <1>6
  DEF RaceInv, OneOwner, BindingKept, ApprovedIsReviewer

(* A save by a user who has not raced changes the column it is about and   *)
(* nothing else.                                                           *)
LEMMA SaveRowRace ==
  ASSUME Typed, RaceInv, NEW j \in Job, SaveRow(j)
  PROVE  RaceInv'
<1> DEFINE u == job[j].user
           new == NewRow(job[j])
<1>1. /\ job' = [job EXCEPT ![j] = Idle]
      /\ row' = [row EXCEPT ![u] = new]
      /\ verified' = verified /\ raced' = raced
      /\ toldWallet' \in IF job[j].kind = "bind" THEN Heard(job[j])
                         ELSE {toldWallet}
      /\ job[j].kind \in Saves /\ job[j].loaded
  BY DEF SaveRow
<1>2. /\ u \in User /\ job[j].row \in Row
      /\ \/ job[j].kind = "bind" /\ job[j].value \in Wallet
         \/ job[j].kind = "verify" /\ job[j].value \in Subject
  BY <1>1, SaveJobs
<1>3. /\ job \in [Job -> JobType] /\ row \in [User -> Row]
      /\ toldWallet \in [User -> SUBSET (Wallet \cup {None})]
  BY DEF Typed, JobsTyped, RowsTyped
<1>4. /\ new.role = job[j].row.role
      /\ new.wallet = IF job[j].kind = "bind" THEN job[j].value
                      ELSE job[j].row.wallet
  BY <1>2 DEF NewRow, Column, Row
<1>5. u \notin raced => job[j].row = row[u]
  BY <1>1 DEF RaceInv, ReadIsCurrent
<1>6. /\ \A v \in User : row'[v] = IF v = u THEN new ELSE row[v]
      /\ job'[j] = Idle /\ \A i \in Job \ {j} : job'[i] = job[i]
  BY <1>1, <1>3
<1>7. \A i \in Job \ {j} :
        job[i].kind \in Saves /\ u \notin raced
          => job[i].user # u /\ job[i].value # job[j].value
  BY <1>1 DEF RaceInv, OverlapIsRace
<1>8. u \notin raced /\ job[j].kind = "bind" =>
        \A v \in User \ raced : v # u => row[v].wallet # job[j].value
  BY DEF RaceInv, BoundToNobody
<1> HIDE DEF new, u
<1>9. OverlapIsRace'
  BY <1>1, <1>6 DEF RaceInv, OverlapIsRace, Idle, Saves
<1>10. ReadIsCurrent'
  BY <1>1, <1>2, <1>6, <1>7, SaveJobs
  DEF RaceInv, ReadIsCurrent, Idle, Saves
<1>11. BoundToNobody'
  <2> SUFFICES ASSUME NEW i \in Job, job'[i].kind = "bind",
                      job'[i].user \notin raced,
                      NEW v \in User \ raced, v # job'[i].user
               PROVE  row'[v].wallet # job'[i].value
    BY <1>1 DEF BoundToNobody
  <2>1. i # j /\ job'[i] = job[i]
    BY <1>6 DEF Idle
  <2>2. row[v].wallet # job[i].value
    BY <2>1 DEF RaceInv, BoundToNobody
  <2>3. CASE v = u
    BY <1>1, <1>4, <1>5, <1>6, <1>7, <2>1, <2>2, <2>3 DEF Saves
  <2>4. CASE v # u
    BY <1>6, <2>1, <2>2, <2>4
  <2> QED
    BY <2>3, <2>4
<1>12. OneOwner'
  BY <1>1, <1>2, <1>4, <1>5, <1>6, <1>8 DEF RaceInv, OneOwner
<1>13. BindingKept'
  <2>1. CASE job[j].kind = "bind"
    <3>1. /\ job[j].value \in toldWallet'[u]
          /\ \A v \in User \ {u} : toldWallet'[v] = toldWallet[v]
      BY <1>1, <1>2, <1>3, <2>1 DEF Heard, u
    <3> QED
      BY <1>1, <1>4, <1>6, <2>1, <3>1 DEF RaceInv, BindingKept
  <2>2. CASE job[j].kind # "bind"
    BY <1>1, <1>4, <1>5, <1>6, <2>2 DEF RaceInv, BindingKept
  <2> QED
    BY <2>1, <2>2
<1>14. ApprovedIsReviewer'
  BY <1>1, <1>4, <1>5, <1>6 DEF RaceInv, ApprovedIsReviewer
<1> QED
  BY <1>9, <1>10, <1>11, <1>12, <1>13, <1>14 DEF RaceInv

(* Freeing a slot without writing a row.                                   *)
LEMMA SlotFreedRace ==
  ASSUME Typed, RaceInv, NEW j \in Job, job' = [job EXCEPT ![j] = Idle],
         UNCHANGED <<rowVars, toldWallet, raced>>
  PROVE  RaceInv'
<1>1. job'[j] = Idle /\ \A i \in Job \ {j} : job'[i] = job[i]
  BY DEF Typed, JobsTyped
<1> QED
  BY <1>1
  DEF RaceInv, OverlapIsRace, ReadIsCurrent, BoundToNobody, OneOwner,
      BindingKept, ApprovedIsReviewer, Idle, Saves, rowVars

LEMMA ApplyRace ==
  ASSUME Typed, RaceInv, NEW j \in Job, NEW u \in User, NEW f \in FieldSet,
         Apply(j, u, f)
  PROVE  RaceInv'
<1>1. job'[j].kind = "apply" /\ \A i \in Job \ {j} : job'[i] = job[i]
  BY DEF Typed, JobsTyped, Apply
<1> QED
  BY <1>1
  DEF RaceInv, OverlapIsRace, ReadIsCurrent, BoundToNobody, OneOwner,
      BindingKept, ApprovedIsReviewer, Apply, Saves, rowVars

(* The approval promotes the owner; a save of theirs under way has raced.  *)
LEMMA MarkApprovedRace ==
  ASSUME Typed, RaceInv, NEW d \in Decision, MarkApproved(d)
  PROVE  RaceInv'
<1> DEFINE u == requests[decision[d].id].user
<1>1. /\ row' = [row EXCEPT ![u].role = Promoted(@)]
      /\ job' = job /\ toldWallet' = toldWallet
      /\ verified' = [verified EXCEPT ![u] = requests[decision[d].id].fields]
      /\ raced' = IF \E j \in InFlight(Saves) : job[j].user = u
                  THEN raced \cup {u} ELSE raced
  BY DEF MarkApproved
<1>2. decision[d].id \in Id
  BY DEF Typed, CallsTyped, MarkApproved, Idle
<1>3. u \in User
  BY <1>2, RequestIds DEF Typed, Request
<1>4. row \in [User -> Row] /\ verified \in [User -> FieldSet \cup {None}]
  BY DEF Typed, RowsTyped
<1> HIDE DEF u
<1>5. /\ row'[u].wallet = row[u].wallet /\ row'[u].role = "reviewer"
      /\ \A v \in User \ {u} : row'[v] = row[v] /\ verified'[v] = verified[v]
  BY <1>1, <1>3, <1>4 DEF Row, Promoted
<1>6. raced \subseteq raced'
      /\ \A j \in Job : job[j].kind \in Saves /\ job[j].user = u => u \in raced'
  BY <1>1 DEF InFlight
<1>7. OverlapIsRace'
  BY <1>1, <1>6 DEF RaceInv, OverlapIsRace
<1>8. ReadIsCurrent'
  BY <1>1, <1>5, <1>6, SaveJobs DEF RaceInv, ReadIsCurrent
<1>9. BoundToNobody'
  BY <1>1, <1>5, <1>6 DEF RaceInv, BoundToNobody
<1>10. OneOwner' /\ BindingKept' /\ ApprovedIsReviewer'
  BY <1>1, <1>5, <1>6
  DEF RaceInv, OneOwner, BindingKept, ApprovedIsReviewer
<1> QED
  BY <1>7, <1>8, <1>9, <1>10 DEF RaceInv

LEMMA OtherStepsRace ==
  ASSUME RaceInv, UNCHANGED <<rowVars, job, toldWallet, raced>>
  PROVE  RaceInv'
BY DEF RaceInv, OverlapIsRace, ReadIsCurrent, BoundToNobody, OneOwner,
       BindingKept, ApprovedIsReviewer, rowVars

LEMMA NextRace ==
  ASSUME Typed, RaceInv, [Next]_vars
  PROVE  RaceInv'
<1>1. ASSUME NEW j \in Job, UserSteps(j) PROVE RaceInv'
  <2>1. ASSUME NEW u \in User, NEW w \in Wallet, BindWallet(j, u, w)
        PROVE  RaceInv'
    BY <2>1, StartSaveRace DEF BindWallet, Saves
  <2>2. ASSUME NEW u \in User, NEW s \in Subject, VerifyIdentity(j, u, s)
        PROVE  RaceInv'
    BY <2>2, StartSaveRace DEF VerifyIdentity, Saves
  <2>3. ASSUME CommitApplication(j) PROVE RaceInv'
    BY <2>3, SlotFreedRace DEF CommitApplication, historyVars
  <2>4. ASSUME JobFails(j) PROVE RaceInv'
    BY <2>4, SlotFreedRace DEF JobFails, historyVars
  <2> QED
    BY <1>1, <2>1, <2>2, <2>3, <2>4, ApplyRace, LoadRowRace, SaveRowRace
    DEF UserSteps
<1>2. ASSUME NEW d \in Decision, EditorSteps(d) PROVE RaceInv'
  <2>1. ASSUME NEW v \in list, NEW approve \in BOOLEAN,
               ClickDecide(d, v, approve)
        PROVE  RaceInv'
    BY <2>1, OtherStepsRace DEF ClickDecide
  <2>2. ASSUME ReadRequest(d) PROVE RaceInv'
    BY <2>2, OtherStepsRace DEF ReadRequest, historyVars
  <2>3. ASSUME Reject(d) PROVE RaceInv'
    BY <2>3, OtherStepsRace DEF Reject
  <2>4. ASSUME ChainWritten(d) PROVE RaceInv'
    BY <2>4, OtherStepsRace DEF ChainWritten
  <2>5. ASSUME ChainFails(d) PROVE RaceInv'
    BY <2>5, OtherStepsRace DEF ChainFails
  <2>6. ASSUME DecisionFails(d) PROVE RaceInv'
    BY <2>6, OtherStepsRace DEF DecisionFails
  <2> QED
    BY <1>2, <2>1, <2>2, <2>3, <2>4, <2>5, <2>6, MarkApprovedRace
    DEF EditorSteps
<1>3. ASSUME NEW u \in User, LoadProfile(u) PROVE RaceInv'
  BY <1>3, OtherStepsRace DEF LoadProfile, historyVars
<1>4. ASSUME OpenDashboard PROVE RaceInv'
  BY <1>4, OtherStepsRace DEF OpenDashboard, historyVars
<1>5. ASSUME LateMined PROVE RaceInv'
  BY <1>5, OtherStepsRace DEF LateMined
<1>6. ASSUME UNCHANGED vars PROVE RaceInv'
  BY <1>6, OtherStepsRace DEF vars, historyVars
<1> QED
  BY <1>1, <1>2, <1>3, <1>4, <1>5, <1>6 DEF Next

LEMMA AlwaysRaceInv == Spec => []RaceInv
<1>1. Spec => []Typed
  BY AlwaysTyped
<1> QED
  BY <1>1, InitRace, NextRace, PTL DEF Spec

(***************************************************************************)
(* Two accounts share a wallet only if a request of one of them raced: the *)
(* check before the save is enough for requests that do not overlap.       *)
(***************************************************************************)
THEOREM NoSharedWallet == Spec => []OneOwner
BY AlwaysRaceInv, PTL DEF RaceInv

(***************************************************************************)
(* A binding a user was told of stays until they bind another, whatever    *)
(* fails and whichever answers are lost, unless a job of theirs overlapped *)
(* one that wrote the same row or wanted the same value.                   *)
(***************************************************************************)
THEOREM BindingStays == Spec => []BindingKept
BY AlwaysRaceInv, PTL DEF RaceInv

(***************************************************************************)
(* Whoever has verified fields has the role to use them, unless a save     *)
(* with the old role overlapped the approval.                              *)
(***************************************************************************)
THEOREM VerifiedHasRole == Spec => []ApprovedIsReviewer
BY AlwaysRaceInv, PTL DEF RaceInv

(***************************************************************************)
(* The queue of applications.  Unless two applications of a user overlap,  *)
(* the one under way supersedes all that is pending.                       *)
(***************************************************************************)
Queue == {id \in Id : requests[id].status = "pending"}

AtMostOnePending ==
  \A x, y \in Queue :
    requests[x].user = requests[y].user /\ requests[x].user \notin twice
      => x = y
SupersedesAll ==
  \A j \in Job : job[j].kind = "apply" /\ job[j].user \notin twice =>
    \A id \in Queue : requests[id].user = job[j].user => id \in job[j].old
OverlapIsTwice ==
  \A i, j \in Job :
    /\ i # j /\ job[i].kind = "apply" /\ job[j].kind = "apply"
    /\ job[i].user = job[j].user
    => job[i].user \in twice
QueueInv == AtMostOnePending /\ SupersedesAll /\ OverlapIsTwice

LEMMA InitQueue == Init => QueueInv
BY DEF Init, QueueInv, AtMostOnePending, SupersedesAll, OverlapIsTwice,
       Queue, Id, Idle

(* Steps that start no application and make nothing pending.               *)
LEMMA NothingNewPending ==
  ASSUME QueueInv, twice' = twice, Queue' \subseteq Queue,
         \A id \in Queue : requests'[id].user = requests[id].user,
         \A j \in Job : job'[j].kind = "apply" => job'[j] = job[j]
  PROVE  QueueInv'
BY DEF QueueInv, AtMostOnePending, SupersedesAll, OverlapIsTwice

LEMMA ApplyQueue ==
  ASSUME Typed, QueueInv, NEW j \in Job, NEW u \in User, NEW f \in FieldSet,
         Apply(j, u, f)
  PROVE  QueueInv'
<1>1. /\ job'[j].kind = "apply" /\ job'[j].user = u
      /\ job'[j].old = Pending(u)
      /\ \A i \in Job \ {j} : job'[i] = job[i]
  BY DEF Typed, JobsTyped, Apply, Superseded
<1>2. requests' = requests /\ Queue' = Queue /\ twice \subseteq twice'
  BY DEF Apply, Queue, Id
<1>3. \A i \in Job \ {j} :
        job[i].kind = "apply" /\ job[i].user = u => u \in twice'
  BY DEF Apply, Applications, InFlight
<1>4. \A id \in Queue : requests[id].user = u => id \in Pending(u)
  BY DEF Pending, Queue, Id
<1>5. AtMostOnePending'
  BY <1>2 DEF QueueInv, AtMostOnePending
<1>6. SupersedesAll'
  BY <1>1, <1>2, <1>4 DEF QueueInv, SupersedesAll
<1>7. OverlapIsTwice'
  BY <1>1, <1>2, <1>3 DEF QueueInv, OverlapIsTwice
<1> QED
  BY <1>5, <1>6, <1>7 DEF QueueInv

LEMMA CommitQueue ==
  ASSUME Typed, QueueInv, NEW j \in Job, CommitApplication(j)
  PROVE  QueueInv'
<1>0. /\ Id' = Id \cup {Len(requests')} /\ Len(requests') \notin Id
      /\ requests'[Len(requests')] =
           [user |-> job[j].user, fields |-> job[j].value,
            status |-> "pending"]
      /\ \A id \in Id :
           /\ requests'[id].user = requests[id].user
           /\ requests'[id].status =
                IF id \in job[j].old /\ requests[id].status = "pending"
                THEN "superseded" ELSE requests[id].status
  BY CommitFacts
<1> DEFINE n == Len(requests')
           u == job[j].user
<1>1. /\ job'[j] = Idle /\ \A i \in Job \ {j} : job'[i] = job[i]
      /\ twice' = twice /\ job[j].kind = "apply"
  BY DEF Typed, JobsTyped, CommitApplication, historyVars
<1>2. /\ Id' = Id \cup {n} /\ n \notin Id
      /\ requests'[n].user = u
      /\ \A id \in Id :
           /\ requests'[id].user = requests[id].user
           /\ requests'[id].status =
                IF id \in job[j].old /\ requests[id].status = "pending"
                THEN "superseded" ELSE requests[id].status
  BY <1>0
<1>3. u \notin twice =>
        \A id \in Queue : requests[id].user = u => id \in job[j].old
  BY <1>1 DEF QueueInv, SupersedesAll
<1>4. \A i \in Job \ {j} :
        job[i].kind = "apply" /\ job[i].user = u => u \in twice
  BY <1>1 DEF QueueInv, OverlapIsTwice
<1> HIDE DEF n, u
<1>5. \A id \in Queue' :
        \/ id = n
        \/ /\ id \in Queue /\ requests'[id].user = requests[id].user
           /\ requests[id].user = u => u \in twice
  BY <1>2, <1>3 DEF Queue
<1>6. AtMostOnePending'
  BY <1>1, <1>2, <1>5 DEF QueueInv, AtMostOnePending
<1>7. SupersedesAll'
  BY <1>1, <1>2, <1>4, <1>5 DEF QueueInv, SupersedesAll, Idle
<1>8. OverlapIsTwice'
  BY <1>1 DEF QueueInv, OverlapIsTwice, Idle
<1> QED
  BY <1>6, <1>7, <1>8 DEF QueueInv

(* A request's status changes to something other than pending.             *)
LEMMA SettledLeavesQueue ==
  ASSUME Typed, NEW i \in Id, NEW s, s = "approved" \/ s = "rejected",
         requests' = [requests EXCEPT ![i].status = s]
  PROVE  /\ Queue' \subseteq Queue
         /\ \A id \in Queue : requests'[id].user = requests[id].user
<1>1. s \in {"pending", "superseded", "approved", "rejected"}
  OBVIOUS
<1>2. /\ Id' = Id
      /\ \A id \in Id : /\ requests'[id].user = requests[id].user
                        /\ requests'[id].status =
                             IF id = i THEN s ELSE requests[id].status
  BY <1>1, StatusChange DEF Typed, RequestsTyped
<1> QED
  BY <1>2 DEF Queue

LEMMA NextQueue ==
  ASSUME Typed, QueueInv, [Next]_vars
  PROVE  QueueInv'
<1>1. ASSUME requests' = requests, twice' = twice,
             \A j \in Job : job'[j].kind = "apply" => job'[j] = job[j]
      PROVE  QueueInv'
  BY <1>1, NothingNewPending DEF Queue, Id
<1>2. ASSUME NEW j \in Job, UserSteps(j) PROVE QueueInv'
  <2>1. ASSUME NEW u \in User, NEW kind \in Saves, NEW column, NEW value,
               StartSave(j, u, kind, column, value)
        PROVE  QueueInv'
    <3>1. \A i \in Job : job'[i].kind = "apply" => job'[i] = job[i]
      BY <2>1 DEF StartSave, Typed, JobsTyped, Saves
    <3> QED
      BY <1>1, <2>1, <3>1 DEF StartSave
  <2>2. ASSUME LoadRow(j) PROVE QueueInv'
    <3>1. job[j] \in BindJob \cup VerifyJob /\ job \in [Job -> JobType]
      BY <2>2 DEF Typed, JobsTyped, LoadRow, JobType, Saves, ApplyJob, Idle
    <3>2. \A i \in Job : job'[i].kind = "apply" => job'[i] = job[i]
      BY <2>2, <3>1 DEF LoadRow, BindJob, VerifyJob
    <3> QED
      BY <1>1, <2>2, <3>2 DEF LoadRow, historyVars
  <2>3. ASSUME SaveRow(j) \/ JobFails(j) PROVE QueueInv'
    <3>1. \A i \in Job : job'[i].kind = "apply" => job'[i] = job[i]
      BY <2>3 DEF SaveRow, JobFails, Typed, JobsTyped, Idle
    <3> QED
      BY <1>1, <2>3, <3>1 DEF SaveRow, JobFails, historyVars
  <2> QED
    BY <1>2, <2>1, <2>2, <2>3, ApplyQueue, CommitQueue
    DEF UserSteps, BindWallet, VerifyIdentity, Saves
<1>3. ASSUME NEW d \in Decision, EditorSteps(d) PROVE QueueInv'
  <2>1. ASSUME Reject(d) PROVE QueueInv'
    <3>1. decision[d].id \in Id
      BY <2>1 DEF Reject, Typed, CallsTyped, Idle
    <3>2. CASE requests[decision[d].id].status = "pending"
      <4>1. requests' = [requests EXCEPT ![decision[d].id].status = "rejected"]
        BY <2>1, <3>2 DEF Reject
      <4> QED
        BY <2>1, <3>1, <4>1, SettledLeavesQueue, NothingNewPending DEF Reject
    <3>3. CASE requests[decision[d].id].status # "pending"
      BY <1>1, <2>1, <3>3 DEF Reject
    <3> QED
      BY <3>2, <3>3
  <2>2. ASSUME MarkApproved(d) PROVE QueueInv'
    <3>1. decision[d].id \in Id
      BY <2>2 DEF MarkApproved, Typed, CallsTyped, Idle
    <3>2. requests' = [requests EXCEPT ![decision[d].id].status = "approved"]
      BY <2>2 DEF MarkApproved
    <3> QED
      BY <2>2, <3>1, <3>2, SettledLeavesQueue, NothingNewPending
      DEF MarkApproved
  <2>3. ASSUME NEW v \in list, NEW approve \in BOOLEAN,
               ClickDecide(d, v, approve)
        PROVE  QueueInv'
    BY <1>1, <2>3 DEF ClickDecide
  <2>4. ASSUME ReadRequest(d) \/ ChainWritten(d) \/ ChainFails(d)
                 \/ DecisionFails(d)
        PROVE  QueueInv'
    BY <1>1, <2>4
    DEF ReadRequest, ChainWritten, ChainFails, DecisionFails, historyVars
  <2> QED
    BY <1>3, <2>1, <2>2, <2>3, <2>4 DEF EditorSteps
<1> QED
  BY <1>1, <1>2, <1>3
  DEF Next, LoadProfile, OpenDashboard, LateMined, vars, historyVars

LEMMA QueueImpliesOnePending == Typed /\ QueueInv => OnePending
<1> SUFFICES ASSUME Typed, QueueInv, NEW u \in User \ twice
             PROVE  Cardinality(Pending(u)) <= 1
  BY DEF OnePending
<1>1. CASE Pending(u) = {}
  BY <1>1, FS_EmptySet
<1>2. CASE Pending(u) # {}
  <2>1. PICK x : x \in Pending(u)
    BY <1>2
  <2>2. Pending(u) = {x}
    BY <2>1 DEF QueueInv, AtMostOnePending, Queue, Pending, Id
  <2>3. Cardinality({x}) = 1
    BY FS_Singleton
  <2> QED
    BY <2>2, <2>3
<1> QED
  BY <1>1, <1>2

(***************************************************************************)
(* A new application replaces the pending one: however editors decide in   *)
(* between, two stay pending only if the two were stored at the same time. *)
(***************************************************************************)
THEOREM OneRequestPending == Spec => []OnePending
<1>1. Spec => []Typed
  BY AlwaysTyped
<1>2. Spec => []QueueInv
  BY <1>1, InitQueue, NextQueue, PTL DEF Spec
<1> QED
  BY <1>1, <1>2, QueueImpliesOnePending, PTL
-----------------------------------------------------------------------------
(***************************************************************************)
(* The editors' half: what an editor is told, what the contract was told,  *)
(* and what the profile shows, for every number of editors deciding at     *)
(* once and every lost or late receipt.                                    *)
(***************************************************************************)
(***************************************************************************)
(* Decisions under way, answers given, and grants.  A request no two calls *)
(* decided at once has one outcome; whoever is past the check of its       *)
(* status has not been overtaken; and whatever was written on chain for it *)
(* was approved, is being marked, or was reported as an error.             *)
(***************************************************************************)
OneCallPerRequest ==
  \A d, e \in Decision :
    /\ decision[d] # Idle /\ decision[e] # Idle
    /\ decision[d].id = decision[e].id /\ decision[d].id \notin doubled
    => d = e
MarkingIsGranted ==
  \A d \in Decision : decision[d].kind = "marking" =>
    <<decision[d].id, decision[d].wallet>> \in granted
PastTheCheck ==
  \A d \in Decision :
    /\ decision[d].kind \in {"rejecting", "writing", "marking"}
    /\ decision[d].id \notin doubled
    => told[decision[d].id] \cap {"approved", "rejected"} = {}
LateIsError == \A call \in late : "error" \in told[call[1]]
GrantIsKnown ==
  \A g \in granted : g[1] \notin doubled =>
    \/ "error" \in told[g[1]] \/ "approved" \in told[g[1]]
    \/ \E d \in Decision : decision[d].kind = "marking"
                           /\ decision[d].id = g[1]
OneOutcome ==
  \A id \in Id \ doubled :
    ~ ("approved" \in told[id] /\ "rejected" \in told[id])

DecideInv == /\ OneCallPerRequest /\ MarkingIsGranted /\ PastTheCheck
             /\ LateIsError /\ GrantIsKnown /\ OneOutcome
             /\ ToldIsDecided /\ VerifiedWasGranted

LEMMA DecideInvImplies == Typed /\ DecideInv => RejectedIsNotGranted
<1> SUFFICES ASSUME Typed, DecideInv, NEW id \in Id \ doubled,
                    "rejected" \in told[id], "error" \notin told[id],
                    NEW g \in granted, g[1] = id
             PROVE  FALSE
  BY DEF RejectedIsNotGranted
<1>1. "approved" \notin told[id]
  BY DEF DecideInv, OneOutcome
<1>2. PICK d \in Decision : decision[d].kind = "marking" /\ decision[d].id = id
  BY <1>1 DEF DecideInv, GrantIsKnown
<1> QED
  BY <1>2 DEF DecideInv, PastTheCheck

LEMMA InitDecide == Init => DecideInv
BY DEF Init, DecideInv, OneCallPerRequest, MarkingIsGranted, PastTheCheck,
       LateIsError, GrantIsKnown, OneOutcome, ToldIsDecided,
       VerifiedWasGranted, Idle, Id

(* Users' steps: the table of requests may grow or lose a pending one.     *)
LEMMA UserStepDecide ==
  ASSUME Typed, DecideInv, RequestsKept, Id' \subseteq RequestId,
         \A id \in Id : requests'[id].status = "pending"
                          => requests[id].status = "pending",
         UNCHANGED <<decision, told, granted, late, doubled, verified>>
  PROVE  DecideInv'
<1>1. \A id \in Id' \ Id : told'[id] = {}
  BY DEF Typed, ToldTyped
<1>2. OneOutcome'
  BY <1>1 DEF DecideInv, OneOutcome
<1>3. ToldIsDecided'
  BY <1>1 DEF DecideInv, ToldIsDecided
<1>4. VerifiedWasGranted'
  BY DEF DecideInv, VerifiedWasGranted, RequestsKept, Typed, ChainTyped
<1> QED
  BY <1>2, <1>3, <1>4
  DEF DecideInv, OneCallPerRequest, MarkingIsGranted, PastTheCheck,
      LateIsError, GrantIsKnown

LEMMA CommitDecide ==
  ASSUME Typed, DecideInv, NEW j \in Job, CommitApplication(j)
  PROVE  DecideInv'
<1>1. Len(requests) + 1 <= MaxRequests /\ Len(requests) \in Nat
  <2>1. j \in Applying
    BY DEF CommitApplication, Applying, InFlight
  <2>2. /\ Cardinality(Applying \ {j}) = Cardinality(Applying) - 1
        /\ IsFiniteSet(Applying \ {j})
    BY <2>1, ApplyingFinite, FS_RemoveElement
  <2>3. Cardinality(Applying \ {j}) \in Nat
    BY <2>2, FS_CardinalityType
  <2>4. Len(requests) + Cardinality(Applying) <= MaxRequests
        /\ Len(requests) \in Nat
    BY RequestIds DEF Typed, RequestsTyped
  <2> QED
    BY <2>2, <2>3, <2>4, ApplyingFinite, AccountsAssumption
<1>2. Len(requests') = Len(requests) + 1 /\ Id' = Id \cup {Len(requests')}
      /\ \A id \in Id :
           /\ requests'[id].user = requests[id].user
           /\ requests'[id].fields = requests[id].fields
           /\ requests'[id].status =
                IF id \in job[j].old /\ requests[id].status = "pending"
                THEN "superseded" ELSE requests[id].status
  BY CommitFacts
<1>3. Len(requests') \in RequestId
  BY <1>1, <1>2, AccountsAssumption DEF RequestId
<1>4. Id' \subseteq RequestId /\ RequestsKept
  BY <1>2, <1>3, RequestIds DEF Typed, RequestsKept
<1> QED
  BY <1>2, <1>4, UserStepDecide DEF CommitApplication, rowVars, historyVars

(* A click: the same request under decision already makes it doubled.      *)
LEMMA ClickDecideDecide ==
  ASSUME Typed, DecideInv, NEW d \in Decision, NEW v \in list,
         NEW approve \in BOOLEAN, ClickDecide(d, v, approve)
  PROVE  DecideInv'
<1>1. /\ decision[d] = Idle /\ decision'[d].kind = "reading"
      /\ decision'[d].id = v.id
      /\ \A e \in Decision \ {d} : decision'[e] = decision[e]
  BY DEF Typed, CallsTyped, ClickDecide
<1>2. /\ doubled \subseteq doubled'
      /\ \A e \in Decision : decision[e] # Idle /\ decision[e].id = v.id
                             => v.id \in doubled'
  BY DEF ClickDecide, Deciding
<1>3. requests' = requests /\ Id' = Id /\ told' = told /\ late' = late
      /\ granted' = granted /\ verified' = verified
  BY DEF ClickDecide, rowVars, Id
<1>4. OneCallPerRequest'
  BY <1>1, <1>2 DEF DecideInv, OneCallPerRequest
<1>5. MarkingIsGranted' /\ PastTheCheck'
  BY <1>1, <1>2, <1>3 DEF DecideInv, MarkingIsGranted, PastTheCheck
<1>6. LateIsError' /\ OneOutcome' /\ ToldIsDecided' /\ VerifiedWasGranted'
  BY <1>2, <1>3
  DEF DecideInv, LateIsError, OneOutcome, ToldIsDecided, VerifiedWasGranted
<1>7. GrantIsKnown'
  <2> SUFFICES ASSUME NEW g \in granted, g[1] \notin doubled,
                      NEW e \in Decision, decision[e].kind = "marking",
                      decision[e].id = g[1]
               PROVE  decision'[e].kind = "marking" /\ decision'[e].id = g[1]
    BY <1>2, <1>3 DEF DecideInv, GrantIsKnown
  <2> QED
    BY <1>1 DEF Idle
<1> QED
  BY <1>4, <1>5, <1>6, <1>7 DEF DecideInv

(* The check of the status: nobody has been told of a decision yet.        *)
LEMMA ReadRequestDecide ==
  ASSUME Typed, DecideInv, NEW d \in Decision, ReadRequest(d)
  PROVE  DecideInv'
<1>1. /\ decision[d].kind = "reading"
      /\ requests[decision[d].id].status = "pending"
      /\ requests' = requests /\ Id' = Id /\ told' = told /\ late' = late
      /\ granted' = granted /\ verified' = verified /\ doubled' = doubled
  BY DEF ReadRequest, Decidable, rowVars, historyVars, Id
<1>2. decision[d] # Idle /\ decision[d].id \in Id
      /\ decision[d] \in CallType \ {Idle} /\ decision \in [Decision -> CallType]
  BY <1>1 DEF Typed, CallsTyped, Idle
<1>3. /\ decision'[d].kind \in {"writing", "rejecting"}
      /\ decision'[d].id = decision[d].id
      /\ \A e \in Decision \ {d} : decision'[e] = decision[e]
  BY <1>2 DEF ReadRequest, CallType
<1>4. told[decision[d].id] \cap {"approved", "rejected"} = {}
  BY <1>1, <1>2 DEF DecideInv, ToldIsDecided
<1>5. OneCallPerRequest'
  BY <1>1, <1>2, <1>3 DEF DecideInv, OneCallPerRequest
<1>6. MarkingIsGranted' /\ PastTheCheck'
  BY <1>1, <1>3, <1>4 DEF DecideInv, MarkingIsGranted, PastTheCheck
<1>7. LateIsError' /\ OneOutcome' /\ ToldIsDecided' /\ VerifiedWasGranted'
  BY <1>1
  DEF DecideInv, LateIsError, OneOutcome, ToldIsDecided, VerifiedWasGranted
<1>8. GrantIsKnown'
  BY <1>1, <1>3 DEF DecideInv, GrantIsKnown
<1> QED
  BY <1>5, <1>6, <1>7, <1>8 DEF DecideInv

(* What an answer changes.                                                 *)
LEMMA AnswerFacts ==
  ASSUME Typed, NEW d \in Decision, decision[d] # Idle,
         NEW outcome \in Outcome, Answer(d, outcome)
  PROVE  /\ decision[d].id \in Id /\ decision[d].id \in RequestId
         /\ decision'[d] = Idle
         /\ \A e \in Decision \ {d} : decision'[e] = decision[e]
         /\ told'[decision[d].id] = told[decision[d].id] \cup {outcome}
         /\ \A id \in RequestId \ {decision[d].id} : told'[id] = told[id]
<1>1. decision[d].id \in Id /\ decision[d].id \in RequestId
  BY RequestIds DEF Typed, CallsTyped
<1> QED
  BY <1>1 DEF Typed, CallsTyped, ToldTyped, Answer

(* An error: the request may still be decided, nothing else is forgotten.  *)
LEMMA ErrorDecide ==
  ASSUME Typed, DecideInv, NEW d \in Decision, decision[d] # Idle,
         Answer(d, "error"),
         late' \subseteq late \cup {<<decision[d].id, decision[d].wallet>>},
         UNCHANGED <<requests, granted, doubled, verified>>
  PROVE  DecideInv'
<1> DEFINE id == decision[d].id
<1>1. /\ id \in Id /\ id \in RequestId /\ decision'[d] = Idle
      /\ \A e \in Decision \ {d} : decision'[e] = decision[e]
      /\ told'[id] = told[id] \cup {"error"}
      /\ \A i \in RequestId \ {id} : told'[i] = told[i]
  BY AnswerFacts DEF Outcome
<1>2. Id' = Id /\ Id \subseteq RequestId
  BY RequestIds DEF Typed, Id
<1>3. \A i \in RequestId :
        /\ told[i] \subseteq told'[i]
        /\ told'[i] \cap {"approved", "rejected"}
             = told[i] \cap {"approved", "rejected"}
        /\ "approved" \in told'[i] => "approved" \in told[i]
        /\ "rejected" \in told'[i] => "rejected" \in told[i]
  BY <1>1
<1>4. \A e \in Decision : decision[e] # Idle => decision[e].id \in RequestId
  BY <1>2 DEF Typed, CallsTyped
<1>5. \A e \in Decision : decision'[e] # Idle => e # d
  BY <1>1
<1>6. \A g \in granted : g[1] \in RequestId
  BY <1>2 DEF Typed, ChainTyped
<1>7. \A call \in late : call[1] \in RequestId
  BY <1>2 DEF Typed, ChainTyped
<1> HIDE DEF id
<1>8. OneCallPerRequest' /\ MarkingIsGranted'
  BY <1>1, <1>5 DEF DecideInv, OneCallPerRequest, MarkingIsGranted, Idle
<1>9. PastTheCheck'
  <2> SUFFICES ASSUME NEW e \in Decision,
                      decision'[e].kind \in {"rejecting", "writing", "marking"},
                      decision'[e].id \notin doubled
               PROVE  told'[decision'[e].id] \cap {"approved", "rejected"} = {}
    BY DEF PastTheCheck
  <2>1. decision'[e] # Idle /\ decision'[e] = decision[e]
    BY <1>1 DEF Idle
  <2> QED
    BY <1>3, <1>4, <2>1 DEF DecideInv, PastTheCheck
<1>10. LateIsError'
  BY <1>1, <1>3, <1>7 DEF DecideInv, LateIsError, id
<1>11. GrantIsKnown'
  <2> SUFFICES ASSUME NEW g \in granted, g[1] \notin doubled
               PROVE  \/ "error" \in told'[g[1]] \/ "approved" \in told'[g[1]]
                      \/ \E e \in Decision : decision'[e].kind = "marking"
                                             /\ decision'[e].id = g[1]
    BY DEF GrantIsKnown
  <2>1. CASE g[1] = id
    BY <1>1, <2>1
  <2>2. CASE g[1] # id
    BY <1>1, <1>3, <1>6, <2>2 DEF DecideInv, GrantIsKnown, id
  <2> QED
    BY <2>1, <2>2
<1>12. OneOutcome' /\ ToldIsDecided'
  BY <1>2, <1>3 DEF DecideInv, OneOutcome, ToldIsDecided
<1>13. VerifiedWasGranted'
  BY DEF DecideInv, VerifiedWasGranted
<1> QED
  BY <1>8, <1>9, <1>10, <1>11, <1>12, <1>13 DEF DecideInv

(* A decision is stored and answered, or its answer is lost.               *)
LEMMA DecidedDecide ==
  ASSUME Typed, DecideInv, NEW d \in Decision,
         NEW outcome, NEW kind,
         \/ outcome = "approved" /\ kind = "marking"
         \/ outcome = "rejected" /\ kind = "rejecting"
         \/ outcome = "error" /\ kind \in {"marking", "rejecting"},
         decision[d].kind = kind, Answer(d, outcome),
         Id' = Id, RequestsKept,
         requests'[decision[d].id].status # "pending",
         \A i \in Id : requests'[i].status = "pending"
                       => requests[i].status = "pending",
         UNCHANGED <<granted, doubled, late>>, VerifiedWasGranted'
  PROVE  DecideInv'
<1> DEFINE id == decision[d].id
<1>1. outcome \in Outcome /\ decision[d] # Idle
      /\ decision[d].kind \in {"rejecting", "writing", "marking"}
      /\ (decision[d].kind = "marking" => outcome \in {"approved", "error"})
  BY DEF Outcome, Idle
<1>2. /\ id \in Id /\ id \in RequestId /\ decision'[d] = Idle
      /\ \A e \in Decision \ {d} : decision'[e] = decision[e]
      /\ told'[id] = told[id] \cup {outcome}
      /\ \A i \in RequestId \ {id} : told'[i] = told[i]
  BY <1>1, AnswerFacts
<1>3. Id \subseteq RequestId
  BY RequestIds DEF Typed
<1>4. \A e \in Decision : decision[e] # Idle => decision[e].id \in RequestId
  BY <1>3 DEF Typed, CallsTyped
<1>5. \A g \in granted : g[1] \in RequestId
  BY <1>3 DEF Typed, ChainTyped
<1>6. \A call \in late : call[1] \in RequestId
  BY <1>3 DEF Typed, ChainTyped
<1>7. \A e \in Decision : decision'[e] # Idle =>
        e # d /\ decision'[e] = decision[e]
  BY <1>2
<1>8. id \notin doubled => told[id] \cap {"approved", "rejected"} = {}
  BY <1>1 DEF DecideInv, PastTheCheck
<1>9. \A e \in Decision : e # d /\ decision[e] # Idle /\ id \notin doubled
                          => decision[e].id # id
  BY <1>1 DEF DecideInv, OneCallPerRequest
<1>10. \A i \in RequestId : told[i] \subseteq told'[i]
  BY <1>2
<1> HIDE DEF id
<1>11. OneCallPerRequest' /\ MarkingIsGranted'
  BY <1>2, <1>7 DEF DecideInv, OneCallPerRequest, MarkingIsGranted, Idle
<1>12. PastTheCheck'
  <2> SUFFICES ASSUME NEW e \in Decision,
                      decision'[e].kind \in {"rejecting", "writing", "marking"},
                      decision'[e].id \notin doubled
               PROVE  told'[decision'[e].id] \cap {"approved", "rejected"} = {}
    BY DEF PastTheCheck
  <2>1. decision'[e] # Idle
    BY DEF Idle
  <2>2. e # d /\ decision'[e] = decision[e]
    BY <1>7, <2>1
  <2>3. decision[e].id # id /\ decision[e].id \in RequestId
    BY <1>4, <1>9, <2>1, <2>2
  <2> QED
    BY <1>2, <2>2, <2>3 DEF DecideInv, PastTheCheck
<1>13. LateIsError'
  BY <1>6, <1>10 DEF DecideInv, LateIsError
<1>14. GrantIsKnown'
  <2> SUFFICES ASSUME NEW g \in granted, g[1] \notin doubled
               PROVE  \/ "error" \in told'[g[1]] \/ "approved" \in told'[g[1]]
                      \/ \E e \in Decision : decision'[e].kind = "marking"
                                             /\ decision'[e].id = g[1]
    BY DEF GrantIsKnown
  <2>1. CASE \E e \in Decision : decision[e].kind = "marking"
                                 /\ decision[e].id = g[1]
    <3>1. PICK e \in Decision : decision[e].kind = "marking"
                                /\ decision[e].id = g[1]
      BY <2>1
    <3>2. CASE e = d
      BY <1>1, <1>2, <3>1, <3>2 DEF id
    <3>3. CASE e # d
      BY <1>2, <3>1, <3>3
    <3> QED
      BY <3>2, <3>3
  <2>2. CASE ~ \E e \in Decision : decision[e].kind = "marking"
                                   /\ decision[e].id = g[1]
    BY <1>5, <1>10, <2>2 DEF DecideInv, GrantIsKnown
  <2> QED
    BY <2>1, <2>2
<1>15. OneOutcome'
  BY <1>2, <1>3, <1>8 DEF DecideInv, OneOutcome
<1>16. ToldIsDecided'
  BY <1>2, <1>3 DEF DecideInv, ToldIsDecided, id
<1> QED
  BY <1>11, <1>12, <1>13, <1>14, <1>15, <1>16 DEF DecideInv

LEMMA RejectDecide ==
  ASSUME Typed, DecideInv, NEW d \in Decision, Reject(d)
  PROVE  DecideInv'
<1>1. decision[d].id \in Id /\ decision[d].kind = "rejecting"
  BY DEF Reject, Typed, CallsTyped, Idle
<1>2. /\ Id' = Id /\ RequestsKept
      /\ requests'[decision[d].id].status # "pending"
      /\ \A i \in Id : requests'[i].status = "pending"
                        => requests[i].status = "pending"
  <2>1. CASE requests[decision[d].id].status = "pending"
    <3>1. requests' = [requests EXCEPT ![decision[d].id].status = "rejected"]
      BY <2>1 DEF Reject
    <3>2. /\ Id' = Id
          /\ \A id \in Id :
               /\ requests'[id].user = requests[id].user
               /\ requests'[id].fields = requests[id].fields
               /\ requests'[id].status = IF id = decision[d].id THEN "rejected"
                                         ELSE requests[id].status
      BY <1>1, <3>1, StatusChange DEF Typed, RequestsTyped
    <3> QED
      BY <1>1, <3>2 DEF RequestsKept
  <2>2. CASE requests[decision[d].id].status # "pending"
    BY <2>2, RequestsUnchanged DEF Reject
  <2> QED
    BY <2>1, <2>2
<1>3. PICK outcome \in {"rejected", "error"} : Answer(d, outcome)
  BY DEF Reject, AnswerOrError
<1>4. VerifiedWasGranted'
  BY <1>2 DEF Reject, rowVars, DecideInv, VerifiedWasGranted, RequestsKept,
              Typed, ChainTyped
<1>5. UNCHANGED <<granted, doubled, late>>
  BY DEF Reject
<1> QED
  BY <1>1, <1>2, <1>3, <1>4, <1>5, DecidedDecide

LEMMA MarkApprovedDecide ==
  ASSUME Typed, DecideInv, NEW d \in Decision, MarkApproved(d)
  PROVE  DecideInv'
<1> DEFINE id == decision[d].id
           u == requests[id].user
<1>1. id \in Id /\ decision[d].kind = "marking"
  BY DEF MarkApproved, Typed, CallsTyped, Idle
<1>2. requests' = [requests EXCEPT ![id].status = "approved"]
      /\ verified' = [verified EXCEPT ![u] = requests[id].fields]
      /\ granted' = granted
  BY DEF MarkApproved
<1>3. /\ Id' = Id
      /\ \A i \in Id : /\ requests'[i].user = requests[i].user
                       /\ requests'[i].fields = requests[i].fields
                       /\ requests'[i].status = IF i = id THEN "approved"
                                                ELSE requests[i].status
  <2>1. requests \in Seq(Request)
    BY DEF Typed, RequestsTyped
  <2> QED
    BY <1>1, <1>2, <2>1, StatusChange
<1>4. VerifiedWasGranted'
  <2>1. <<id, decision[d].wallet>> \in granted
    BY <1>1 DEF DecideInv, MarkingIsGranted
  <2>2. verified \in [User -> FieldSet \cup {None}]
    BY DEF Typed, RowsTyped
  <2> SUFFICES ASSUME NEW v \in User, verified'[v] # None
               PROVE  \E g \in granted : /\ requests'[g[1]].user = v
                                         /\ requests'[g[1]].fields = verified'[v]
    BY <1>2 DEF VerifiedWasGranted
  <2>3. CASE v = u
    <3>1. verified'[v] = requests[id].fields
      BY <1>2, <2>2, <2>3
    <3>2. requests'[id].user = v /\ requests'[id].fields = verified'[v]
      BY <1>1, <1>3, <2>3, <3>1
    <3> QED
      BY <2>1, <3>2
  <2>4. CASE v # u
    <3>1. verified'[v] = verified[v]
      BY <1>2, <2>2, <2>4
    <3>2. PICK g \in granted : /\ requests[g[1]].user = v
                               /\ requests[g[1]].fields = verified[v]
      BY <3>1 DEF DecideInv, VerifiedWasGranted
    <3>3. g[1] \in Id
      BY DEF Typed, ChainTyped
    <3> QED
      BY <1>3, <3>1, <3>2, <3>3
  <2> QED
    BY <2>3, <2>4
<1>5. PICK outcome \in {"approved", "error"} : Answer(d, outcome)
  BY DEF MarkApproved, AnswerOrError
<1>6. RequestsKept /\ requests'[decision[d].id].status # "pending"
      /\ \A i \in Id : requests'[i].status = "pending"
                        => requests[i].status = "pending"
  BY <1>1, <1>3 DEF RequestsKept
<1>7. UNCHANGED <<granted, doubled, late>>
  BY DEF MarkApproved
<1> QED
  BY <1>1, <1>3, <1>4, <1>5, <1>6, <1>7, DecidedDecide

LEMMA ChainWrittenDecide ==
  ASSUME Typed, DecideInv, NEW d \in Decision, ChainWritten(d)
  PROVE  DecideInv'
<1>1. /\ decision[d].kind = "writing"
      /\ granted' = granted \cup {<<decision[d].id, decision[d].wallet>>}
      /\ requests' = requests /\ Id' = Id /\ told' = told /\ late' = late
      /\ verified' = verified /\ doubled' = doubled
  BY DEF ChainWritten, Written, rowVars, Id
<1>2. decision[d] \in CallType \ {Idle} /\ decision \in [Decision -> CallType]
  BY <1>1 DEF Typed, CallsTyped, Idle
<1>3. /\ decision'[d].kind = "marking"
      /\ decision'[d].id = decision[d].id
      /\ decision'[d].wallet = decision[d].wallet
      /\ \A e \in Decision \ {d} : decision'[e] = decision[e]
  BY <1>2 DEF ChainWritten, CallType
<1>4. OneCallPerRequest'
  BY <1>1, <1>2, <1>3 DEF DecideInv, OneCallPerRequest
<1>5. MarkingIsGranted' /\ PastTheCheck'
  BY <1>1, <1>3 DEF DecideInv, MarkingIsGranted, PastTheCheck
<1>6. LateIsError' /\ OneOutcome' /\ ToldIsDecided' /\ VerifiedWasGranted'
  BY <1>1
  DEF DecideInv, LateIsError, OneOutcome, ToldIsDecided, VerifiedWasGranted
<1>7. GrantIsKnown'
  <2> SUFFICES ASSUME NEW g \in granted', g[1] \notin doubled,
                      "error" \notin told[g[1]], "approved" \notin told[g[1]]
               PROVE  \E e \in Decision : decision'[e].kind = "marking"
                                         /\ decision'[e].id = g[1]
    BY <1>1 DEF GrantIsKnown
  <2>1. CASE g \in granted
    <3>1. PICK e \in Decision : decision[e].kind = "marking"
                                /\ decision[e].id = g[1]
      BY <2>1 DEF DecideInv, GrantIsKnown
    <3> QED
      BY <1>1, <1>3, <3>1
  <2>2. CASE g = <<decision[d].id, decision[d].wallet>>
    BY <1>3, <2>2
  <2> QED
    BY <1>1, <2>1, <2>2
<1> QED
  BY <1>4, <1>5, <1>6, <1>7 DEF DecideInv

(* A call given up on was reported as an error, whenever it is mined.      *)
LEMMA LateMinedDecide ==
  ASSUME Typed, DecideInv, LateMined
  PROVE  DecideInv'
<1>1. PICK call \in late :
        granted' = granted \cup {<<call[1], call[2]>>}
        /\ late' = late \ {call}
  BY DEF LateMined, Written
<1>2. UNCHANGED <<requests, told, decision, verified, doubled>> /\ Id' = Id
  BY DEF LateMined, rowVars, Id
<1>3. "error" \in told[call[1]]
  BY DEF DecideInv, LateIsError
<1>4. GrantIsKnown'
  BY <1>1, <1>2, <1>3 DEF DecideInv, GrantIsKnown
<1> QED
  BY <1>1, <1>2, <1>4
  DEF DecideInv, OneCallPerRequest, MarkingIsGranted, PastTheCheck,
      LateIsError, OneOutcome, ToldIsDecided, VerifiedWasGranted

(* Reloading the dashboard: calls under way only lose their page.          *)
LEMMA ReloadKeepsCalls ==
  ASSUME Typed, OpenDashboard, NEW d \in Decision
  PROVE  \/ decision[d] = Idle /\ decision'[d] = Idle
         \/ /\ decision[d] # Idle /\ decision'[d] # Idle
            /\ decision'[d].id = decision[d].id
            /\ decision'[d].kind = decision[d].kind
            /\ decision'[d].wallet = decision[d].wallet
<1>1. CASE decision[d] = Idle
  BY <1>1 DEF OpenDashboard
<1>2. CASE decision[d] # Idle
  <2>1. decision'[d] = [decision[d] EXCEPT !.mounted = FALSE]
    BY <1>2 DEF OpenDashboard
  <2>2. decision[d] \in CallType \ {Idle}
    BY <1>2 DEF Typed, CallsTyped
  <2>3. /\ decision'[d].id = decision[d].id
        /\ decision'[d].kind = decision[d].kind
        /\ decision'[d].wallet = decision[d].wallet
        /\ decision[d].kind \in DecisionStep
    BY <2>1, <2>2 DEF CallType
  <2> QED
    BY <1>2, <2>3 DEF Idle, DecisionStep
<1> QED
  BY <1>1, <1>2

LEMMA OpenDashboardDecide ==
  ASSUME Typed, DecideInv, OpenDashboard
  PROVE  DecideInv'
<1>1. UNCHANGED <<requests, told, late, granted, verified, doubled>> /\ Id' = Id
  BY DEF OpenDashboard, rowVars, historyVars, Id
<1>2. \A d \in Decision :
        \/ decision[d] = Idle /\ decision'[d] = Idle
        \/ /\ decision[d] # Idle /\ decision'[d] # Idle
           /\ decision'[d].id = decision[d].id
           /\ decision'[d].kind = decision[d].kind
           /\ decision'[d].wallet = decision[d].wallet
  BY ReloadKeepsCalls
<1>3. OneCallPerRequest' /\ MarkingIsGranted'
  BY <1>1, <1>2 DEF DecideInv, OneCallPerRequest, MarkingIsGranted, Idle
<1>4. PastTheCheck'
  BY <1>1, <1>2 DEF DecideInv, PastTheCheck, Idle
<1>5. GrantIsKnown'
  BY <1>1, <1>2 DEF DecideInv, GrantIsKnown, Idle
<1> QED
  BY <1>1, <1>3, <1>4, <1>5
  DEF DecideInv, LateIsError, OneOutcome, ToldIsDecided, VerifiedWasGranted

LEMMA NextDecide ==
  ASSUME Typed, DecideInv, [Next]_vars
  PROVE  DecideInv'
<1>1. ASSUME UNCHANGED <<requests, decision, told, granted, late, doubled,
                         verified>>
      PROVE  DecideInv'
  <2>1. Id' = Id /\ RequestsKept /\ Id \subseteq RequestId
    BY <1>1, RequestsUnchanged, RequestIds DEF Typed
  <2> QED
    BY <1>1, <2>1, UserStepDecide
<1>2. ASSUME NEW j \in Job, UserSteps(j) PROVE DecideInv'
  <2>1. ASSUME NEW u \in User, NEW kind, NEW column, NEW value,
               StartSave(j, u, kind, column, value)
        PROVE  DecideInv'
    BY <1>1, <2>1 DEF StartSave, rowVars
  <2>2. ASSUME NEW u \in User, NEW f \in FieldSet, Apply(j, u, f)
        PROVE  DecideInv'
    BY <1>1, <2>2 DEF Apply, rowVars
  <2>3. ASSUME LoadRow(j) \/ SaveRow(j) \/ JobFails(j) PROVE DecideInv'
    BY <1>1, <2>3 DEF LoadRow, SaveRow, JobFails, rowVars, historyVars
  <2> QED
    BY <1>2, <2>1, <2>2, <2>3, CommitDecide
    DEF UserSteps, BindWallet, VerifyIdentity
<1>3. ASSUME NEW d \in Decision, EditorSteps(d) PROVE DecideInv'
  <2>1. ASSUME ChainFails(d) PROVE DecideInv'
    <3>1. decision[d] # Idle
      BY <2>1 DEF ChainFails, Idle
    <3>2. /\ Answer(d, "error")
          /\ late' \subseteq late \cup {<<decision[d].id, decision[d].wallet>>}
          /\ UNCHANGED <<requests, granted, doubled, verified>>
      BY <2>1 DEF ChainFails, rowVars
    <3> QED
      BY <3>1, <3>2, ErrorDecide
  <2>2. ASSUME DecisionFails(d) PROVE DecideInv'
    <3>1. decision[d] # Idle
      BY <2>2 DEF DecisionFails, Idle
    <3>2. /\ Answer(d, "error")
          /\ late' \subseteq late \cup {<<decision[d].id, decision[d].wallet>>}
          /\ UNCHANGED <<requests, granted, doubled, verified>>
      BY <2>2 DEF DecisionFails, rowVars
    <3> QED
      BY <3>1, <3>2, ErrorDecide
  <2> QED
    BY <1>3, <2>1, <2>2, ClickDecideDecide, ReadRequestDecide, RejectDecide,
       ChainWrittenDecide, MarkApprovedDecide DEF EditorSteps
<1>4. ASSUME NEW u \in User, LoadProfile(u) PROVE DecideInv'
  BY <1>1, <1>4 DEF LoadProfile, rowVars, historyVars
<1>5. ASSUME UNCHANGED vars PROVE DecideInv'
  BY <1>1, <1>5 DEF vars, rowVars, historyVars
<1> QED
  BY <1>2, <1>3, <1>4, <1>5, OpenDashboardDecide, LateMinedDecide DEF Next

LEMMA AlwaysDecideInv == Spec => []DecideInv
<1>1. Spec => []Typed
  BY AlwaysTyped
<1> QED
  BY <1>1, InitDecide, NextDecide, PTL DEF Spec

(***************************************************************************)
(* The database is never ahead of the chain: whatever is shown as verified *)
(* was written on chain for a request of that user (the contract is called *)
(* before the database is marked, and marking rests on its answer).        *)
(***************************************************************************)
THEOREM VerifiedOnlyIfGranted == Spec => []VerifiedWasGranted
BY AlwaysDecideInv, PTL DEF DecideInv

(***************************************************************************)
(* An editor is told of a decision only about a request that has left the  *)
(* queue for good, whichever of two editors, or the user, was first.       *)
(***************************************************************************)
THEOREM AnswerIsStored == Spec => []ToldIsDecided
BY AlwaysDecideInv, PTL DEF DecideInv

(***************************************************************************)
(* Unless two calls decided a request at once, or one ended in an error, a *)
(* rejected request was never granted on chain, and never is by a call     *)
(* mined late.                                                             *)
(***************************************************************************)
THEOREM RejectionHolds == Spec => []RejectedIsNotGranted
<1>1. Spec => []Typed
  BY AlwaysTyped
<1> QED
  BY <1>1, AlwaysDecideInv, DecideInvImplies, PTL

(***************************************************************************)
(* The label of the profile.  Unless the chain was changed for the user on *)
(* the side, an approval under way writes for the wallet the user has, and *)
(* what it wrote is there until it marks the request.                      *)
(***************************************************************************)
WalletIsOwners ==
  \A d \in Decision :
    /\ decision[d].kind \in {"writing", "marking"}
    /\ requests[decision[d].id].user \notin drifted
    => row[requests[decision[d].id].user].wallet = decision[d].wallet
ShownOrMarking ==
  \A u \in User \ drifted : verified[u] # None =>
    /\ row[u].wallet \in Wallet
    /\ \/ chainFields[row[u].wallet] = verified[u]
       \/ \E d \in Decision : /\ decision[d].kind = "marking"
                              /\ decision[d].wallet = row[u].wallet
                              /\ requests[decision[d].id].user = u
MarkedIsOnChain ==
  \A d \in Decision :
    /\ decision[d].kind = "marking"
    /\ requests[decision[d].id].user \notin drifted
    => chainFields[decision[d].wallet] = requests[decision[d].id].fields

DriftInv == WalletIsOwners /\ ShownOrMarking /\ MarkedIsOnChain

LEMMA DriftInvImplies == DriftInv => ShownFieldsAreOnChain
BY DEF DriftInv, ShownOrMarking, ShownFieldsAreOnChain, Granting

LEMMA InitDrift == Init => DriftInv
BY DEF Init, DriftInv, WalletIsOwners, ShownOrMarking, MarkedIsOnChain, Idle

(* What the calls that are granting name exists.                           *)
LEMMA GrantingTyped ==
  ASSUME Typed, NEW d \in Decision,
         decision[d].kind \in {"writing", "marking"}
  PROVE  /\ decision[d] # Idle
         /\ decision[d].id \in Id /\ decision[d].wallet \in Wallet
         /\ requests[decision[d].id].user \in User
         /\ requests[decision[d].id].fields \in FieldSet
<1>1. decision[d] # Idle
  BY DEF Idle
<1>2. decision[d].id \in Id /\ decision[d].wallet \in Wallet
  BY <1>1 DEF Typed, CallsTyped
<1> QED
  BY <1>1, <1>2, RequestIds DEF Typed, Request

(* Steps that write neither rows nor chain; a call under way stays or, if  *)
(* it was marking, gives up and has drifted.                               *)
LEMMA QuietDrift ==
  ASSUME Typed, DriftInv, RequestsKept, drifted \subseteq drifted',
         \A u \in User \ drifted' : row'[u].wallet = row[u].wallet,
         \A d \in Decision :
           decision'[d].kind \in {"writing", "marking"} =>
             /\ decision'[d].kind = decision[d].kind
             /\ decision'[d].id = decision[d].id
             /\ decision'[d].wallet = decision[d].wallet,
         \A d \in Decision :
           decision[d].kind = "marking" =>
             \/ /\ decision'[d].kind = "marking"
                /\ decision'[d].id = decision[d].id
                /\ decision'[d].wallet = decision[d].wallet
             \/ requests[decision[d].id].user \in drifted',
         UNCHANGED <<verified, chainFields>>
  PROVE  DriftInv'
<1>1. ASSUME NEW d \in Decision, decision'[d].kind \in {"writing", "marking"}
      PROVE  /\ decision'[d].kind = decision[d].kind
             /\ decision'[d].id = decision[d].id
             /\ decision'[d].wallet = decision[d].wallet
             /\ requests[decision[d].id].user \in User
             /\ requests'[decision[d].id].user = requests[decision[d].id].user
             /\ requests'[decision[d].id].fields = requests[decision[d].id].fields
  BY <1>1, GrantingTyped DEF RequestsKept
<1>2. WalletIsOwners'
  <2> SUFFICES ASSUME NEW d \in Decision,
                      decision'[d].kind \in {"writing", "marking"},
                      requests'[decision'[d].id].user \notin drifted'
               PROVE  row'[requests'[decision'[d].id].user].wallet
                        = decision'[d].wallet
    BY DEF WalletIsOwners
  <2>1. row[requests[decision[d].id].user].wallet = decision[d].wallet
    BY <1>1 DEF DriftInv, WalletIsOwners
  <2> QED
    BY <1>1, <2>1
<1>3. MarkedIsOnChain'
  <2> SUFFICES ASSUME NEW d \in Decision, decision'[d].kind = "marking",
                      requests'[decision'[d].id].user \notin drifted'
               PROVE  chainFields[decision'[d].wallet]
                        = requests'[decision'[d].id].fields
    BY DEF MarkedIsOnChain
  <2> QED
    BY <1>1 DEF DriftInv, MarkedIsOnChain
<1>4. ShownOrMarking'
  <2> SUFFICES ASSUME NEW u \in User \ drifted', verified[u] # None
               PROVE  /\ row[u].wallet \in Wallet
                      /\ \/ chainFields[row[u].wallet] = verified[u]
                         \/ \E d \in Decision :
                              /\ decision'[d].kind = "marking"
                              /\ decision'[d].wallet = row[u].wallet
                              /\ requests'[decision'[d].id].user = u
    BY DEF ShownOrMarking
  <2>1. row[u].wallet \in Wallet
    BY DEF DriftInv, ShownOrMarking
  <2>2. CASE chainFields[row[u].wallet] # verified[u]
    <3>1. PICK d \in Decision : /\ decision[d].kind = "marking"
                                /\ decision[d].wallet = row[u].wallet
                                /\ requests[decision[d].id].user = u
      BY <2>2 DEF DriftInv, ShownOrMarking
    <3>2. /\ decision'[d].kind = "marking"
          /\ decision'[d].id = decision[d].id
          /\ decision'[d].wallet = decision[d].wallet
      BY <3>1
    <3> QED
      BY <1>1, <2>1, <3>1, <3>2
  <2> QED
    BY <2>1, <2>2
<1> QED
  BY <1>2, <1>3, <1>4 DEF DriftInv

(* A save that changes the wallet of an account has drifted.               *)
LEMMA SaveRowDrift ==
  ASSUME Typed, DriftInv, NEW j \in Job, SaveRow(j)
  PROVE  DriftInv'
<1>1. /\ job[j].user \in User /\ row \in [User -> Row]
      /\ row' = [row EXCEPT ![job[j].user] = NewRow(job[j])]
      /\ drifted' = IF row[job[j].user].wallet
                         \in {None, row'[job[j].user].wallet}
                    THEN drifted ELSE drifted \cup {job[j].user}
      /\ requests' = requests /\ decision' = decision
      /\ verified' = verified /\ chainFields' = chainFields
  BY SaveJobs DEF SaveRow, Typed, RowsTyped
<1>2. None \notin Wallet
  BY AccountsAssumption
<1>3. \A u \in User \ drifted' :
        row[u].wallet \in Wallet => row'[u].wallet = row[u].wallet
  BY <1>1, <1>2
<1>4. \A d \in Decision : decision[d].kind \in {"writing", "marking"} =>
        decision[d].wallet \in Wallet /\ requests[decision[d].id].user \in User
  BY GrantingTyped
<1>5. drifted \subseteq drifted'
  BY <1>1
<1>6. WalletIsOwners'
  BY <1>1, <1>3, <1>4, <1>5 DEF DriftInv, WalletIsOwners
<1>7. ShownOrMarking'
  <2> SUFFICES ASSUME NEW u \in User \ drifted', verified[u] # None
               PROVE  /\ row'[u].wallet \in Wallet
                      /\ \/ chainFields[row'[u].wallet] = verified[u]
                         \/ \E d \in Decision :
                              /\ decision[d].kind = "marking"
                              /\ decision[d].wallet = row'[u].wallet
                              /\ requests[decision[d].id].user = u
    BY <1>1 DEF ShownOrMarking
  <2>1. row[u].wallet \in Wallet
    BY <1>5 DEF DriftInv, ShownOrMarking
  <2>2. row'[u].wallet = row[u].wallet
    BY <1>3, <2>1
  <2> QED
    BY <1>5, <2>2 DEF DriftInv, ShownOrMarking
<1>8. MarkedIsOnChain'
  BY <1>1, <1>5 DEF DriftInv, MarkedIsOnChain
<1> QED
  BY <1>6, <1>7, <1>8 DEF DriftInv

(* Steps of a call other than writing and marking: it frees its slot, or   *)
(* takes a step that grants nothing.                                       *)
LEMMA CallQuietDrift ==
  ASSUME Typed, DriftInv, RequestsKept, NEW d \in Decision,
         decision'[d].kind \notin {"writing", "marking"},
         \A e \in Decision \ {d} : decision'[e] = decision[e],
         drifted \subseteq drifted',
         decision[d].kind = "marking" =>
           requests[decision[d].id].user \in drifted',
         UNCHANGED <<row, verified, chainFields>>
  PROVE  DriftInv'
<1>1. \A e \in Decision :
        decision'[e].kind \in {"writing", "marking"} =>
          /\ decision'[e].kind = decision[e].kind
          /\ decision'[e].id = decision[e].id
          /\ decision'[e].wallet = decision[e].wallet
  OBVIOUS
<1>2. \A e \in Decision :
        decision[e].kind = "marking" =>
          \/ /\ decision'[e].kind = "marking"
             /\ decision'[e].id = decision[e].id
             /\ decision'[e].wallet = decision[e].wallet
          \/ requests[decision[e].id].user \in drifted'
  OBVIOUS
<1> QED
  BY <1>1, <1>2, QuietDrift

LEMMA ReadRequestDrift ==
  ASSUME Typed, DriftInv, NEW d \in Decision, ReadRequest(d)
  PROVE  DriftInv'
<1>1. /\ decision[d].kind = "reading"
      /\ UNCHANGED <<row, verified, requests, chainFields, drifted>>
  BY DEF ReadRequest, rowVars, historyVars
<1>2. decision[d] \in CallType \ {Idle} /\ decision \in [Decision -> CallType]
  BY <1>1 DEF Typed, CallsTyped, Idle
<1>3. /\ decision'[d].kind \in {"writing", "rejecting"}
      /\ decision'[d].id = decision[d].id
      /\ decision'[d].kind = "writing" =>
           decision'[d].wallet = row[requests[decision[d].id].user].wallet
      /\ \A e \in Decision \ {d} : decision'[e] = decision[e]
  BY <1>2 DEF ReadRequest, CallType
<1>4. WalletIsOwners'
  BY <1>1, <1>3 DEF DriftInv, WalletIsOwners
<1>5. ShownOrMarking'
  BY <1>1, <1>3 DEF DriftInv, ShownOrMarking
<1>6. MarkedIsOnChain'
  BY <1>1, <1>3 DEF DriftInv, MarkedIsOnChain
<1> QED
  BY <1>4, <1>5, <1>6 DEF DriftInv

(* The contract overwrites the wallet's fields: whoever else has the       *)
(* wallet, or the user if another approval for it is under way, drifts.    *)
LEMMA ChainWrittenDrift ==
  ASSUME Typed, DriftInv, NEW d \in Decision, ChainWritten(d)
  PROVE  DriftInv'
<1> DEFINE w == decision[d].wallet
           o == requests[decision[d].id].user
<1>1. /\ decision[d].kind = "writing"
      /\ UNCHANGED <<row, verified, requests>>
      /\ chainFields' = [chainFields EXCEPT ![w] = requests[decision[d].id].fields]
      /\ drifted' = drifted \cup (Holders(w) \ IF Granting(w) = {d} THEN {o}
                                              ELSE {})
  BY DEF ChainWritten, Written, rowVars
<1>2. decision[d] \in CallType \ {Idle} /\ decision \in [Decision -> CallType]
  BY <1>1 DEF Typed, CallsTyped, Idle
<1>3. /\ decision'[d].kind = "marking"
      /\ decision'[d].id = decision[d].id /\ decision'[d].wallet = w
      /\ \A e \in Decision \ {d} : decision'[e] = decision[e]
  BY <1>2 DEF ChainWritten, CallType
<1>4. w \in Wallet /\ o \in User
  BY <1>1, GrantingTyped
<1>5. chainFields \in [Wallet -> FieldSet \cup {None}]
  BY DEF Typed, ChainTyped
<1>6. \A u \in User \ drifted' : u \notin drifted
        /\ (row[u].wallet = w => u = o /\ Granting(w) = {d})
  BY <1>1 DEF Holders
<1>7. \A e \in Decision : /\ decision[e].kind \in {"writing", "marking"}
                          /\ decision[e].wallet = w /\ Granting(w) = {d}
                          => e = d
  BY DEF Granting
<1>8. \A e \in Decision : decision[e].kind \in {"writing", "marking"} =>
        decision[e].wallet \in Wallet /\ requests[decision[e].id].user \in User
  BY GrantingTyped
<1> HIDE DEF w
<1>9. WalletIsOwners'
  <2> SUFFICES ASSUME NEW e \in Decision,
                      decision'[e].kind \in {"writing", "marking"},
                      requests[decision'[e].id].user \notin drifted'
               PROVE  row[requests[decision'[e].id].user].wallet
                        = decision'[e].wallet
    BY <1>1 DEF WalletIsOwners
  <2>1. /\ decision[e].kind \in {"writing", "marking"}
        /\ decision'[e].id = decision[e].id
        /\ decision'[e].wallet = decision[e].wallet
    BY <1>1, <1>3 DEF w
  <2> QED
    BY <1>6, <1>8, <2>1 DEF DriftInv, WalletIsOwners
<1>10. ShownOrMarking'
  <2> SUFFICES ASSUME NEW u \in User \ drifted', verified[u] # None
               PROVE  /\ row[u].wallet \in Wallet
                      /\ \/ chainFields'[row[u].wallet] = verified[u]
                         \/ \E e \in Decision :
                              /\ decision'[e].kind = "marking"
                              /\ decision'[e].wallet = row[u].wallet
                              /\ requests[decision'[e].id].user = u
    BY <1>1 DEF ShownOrMarking
  <2>1. /\ row[u].wallet \in Wallet
        /\ \/ chainFields[row[u].wallet] = verified[u]
           \/ \E e \in Decision : /\ decision[e].kind = "marking"
                                  /\ decision[e].wallet = row[u].wallet
                                  /\ requests[decision[e].id].user = u
    BY <1>6 DEF DriftInv, ShownOrMarking
  <2>2. CASE row[u].wallet = w
    BY <1>3, <1>6, <2>1, <2>2
  <2>3. CASE row[u].wallet # w
    BY <1>1, <1>3, <1>5, <2>1, <2>3
  <2> QED
    BY <2>2, <2>3
<1>11. MarkedIsOnChain'
  <2> SUFFICES ASSUME NEW e \in Decision, decision'[e].kind = "marking",
                      requests[decision'[e].id].user \notin drifted'
               PROVE  chainFields'[decision'[e].wallet]
                        = requests[decision'[e].id].fields
    BY <1>1 DEF MarkedIsOnChain
  <2>1. CASE e = d
    BY <1>1, <1>3, <1>4, <1>5, <2>1
  <2>2. CASE e # d
    <3>1. decision'[e] = decision[e] /\ decision[e].kind = "marking"
      BY <1>3, <2>2
    <3>2. requests[decision[e].id].user \in User \ drifted'
      BY <1>8, <3>1
    <3>3. row[requests[decision[e].id].user].wallet = decision[e].wallet
      BY <1>6, <3>1, <3>2 DEF DriftInv, WalletIsOwners
    <3>4. decision[e].wallet # w
      BY <1>6, <1>7, <2>2, <3>1, <3>2, <3>3
    <3>5. chainFields[decision[e].wallet] = requests[decision[e].id].fields
      BY <1>6, <3>1, <3>2 DEF DriftInv, MarkedIsOnChain
    <3> QED
      BY <1>1, <1>5, <1>8, <3>1, <3>4, <3>5
  <2> QED
    BY <2>1, <2>2
<1> QED
  BY <1>9, <1>10, <1>11 DEF DriftInv

(* A call mined late: every holder of the wallet drifts.                   *)
LEMMA LateMinedDrift ==
  ASSUME Typed, DriftInv, LateMined
  PROVE  DriftInv'
<1>1. PICK call \in late :
        /\ chainFields' = [chainFields EXCEPT
                             ![call[2]] = requests[call[1]].fields]
        /\ drifted' = drifted \cup Holders(call[2])
                        \cup {requests[call[1]].user}
  BY DEF LateMined, Written
<1>2. UNCHANGED <<row, verified, requests, decision>>
  BY DEF LateMined, rowVars
<1>3. chainFields \in [Wallet -> FieldSet \cup {None}] /\ call[2] \in Wallet
  BY DEF Typed, ChainTyped
<1>4. \A u \in User \ drifted' : u \notin drifted /\ row[u].wallet # call[2]
  BY <1>1 DEF Holders
<1>5. \A e \in Decision : decision[e].kind \in {"writing", "marking"} =>
        decision[e].wallet \in Wallet /\ requests[decision[e].id].user \in User
  BY GrantingTyped
<1>6. \A x \in Wallet : x # call[2] => chainFields'[x] = chainFields[x]
  BY <1>1, <1>3
<1>7. WalletIsOwners'
  BY <1>1, <1>2 DEF DriftInv, WalletIsOwners
<1>8. ShownOrMarking'
  <2> SUFFICES ASSUME NEW u \in User \ drifted', verified[u] # None
               PROVE  /\ row[u].wallet \in Wallet
                      /\ \/ chainFields'[row[u].wallet] = verified[u]
                         \/ \E e \in Decision :
                              /\ decision[e].kind = "marking"
                              /\ decision[e].wallet = row[u].wallet
                              /\ requests[decision[e].id].user = u
    BY <1>2 DEF ShownOrMarking
  <2> QED
    BY <1>4, <1>6 DEF DriftInv, ShownOrMarking
<1>9. MarkedIsOnChain'
  <2> SUFFICES ASSUME NEW e \in Decision, decision[e].kind = "marking",
                      requests[decision[e].id].user \notin drifted'
               PROVE  chainFields'[decision[e].wallet]
                        = requests[decision[e].id].fields
    BY <1>2 DEF MarkedIsOnChain
  <2>1. requests[decision[e].id].user \in User \ drifted'
    BY <1>5
  <2>2. row[requests[decision[e].id].user].wallet = decision[e].wallet
    BY <1>4, <2>1 DEF DriftInv, WalletIsOwners
  <2> QED
    BY <1>4, <1>5, <1>6, <2>1, <2>2 DEF DriftInv, MarkedIsOnChain
<1> QED
  BY <1>7, <1>8, <1>9 DEF DriftInv

(* The mark shows what the chain has for the wallet the user still has.    *)
LEMMA MarkApprovedDrift ==
  ASSUME Typed, DriftInv, NEW d \in Decision, MarkApproved(d)
  PROVE  DriftInv'
<1> DEFINE id == decision[d].id
           o == requests[id].user
<1>1. /\ decision[d].kind = "marking"
      /\ verified' = [verified EXCEPT ![o] = requests[id].fields]
      /\ row' = [row EXCEPT ![o].role = Promoted(@)]
      /\ UNCHANGED <<chainFields, drifted>>
      /\ AnswerOrError(d, "approved")
  BY DEF MarkApproved
<1>2. decision[d] # Idle /\ id \in Id /\ o \in User
  BY <1>1, GrantingTyped
<1>3. \A i \in Id : /\ requests'[i].user = requests[i].user
                    /\ requests'[i].fields = requests[i].fields
  <2>1. requests' = [requests EXCEPT ![id].status = "approved"]
    BY DEF MarkApproved
  <2>2. requests \in Seq(Request)
    BY DEF Typed, RequestsTyped
  <2> QED
    BY <1>2, <2>1, <2>2, StatusChange
<1>4. decision'[d] = Idle /\ \A e \in Decision \ {d} : decision'[e] = decision[e]
  BY <1>1, <1>2, AnswerFacts DEF AnswerOrError, Outcome
<1>5. row \in [User -> Row] /\ verified \in [User -> FieldSet \cup {None}]
  BY DEF Typed, RowsTyped
<1>6. \A u \in User : row'[u].wallet = row[u].wallet
  BY <1>1, <1>2, <1>5 DEF Row
<1>7. \A u \in User : verified'[u] = IF u = o THEN requests[id].fields
                                     ELSE verified[u]
  BY <1>1, <1>5
<1>8. \A e \in Decision : decision'[e].kind \in {"writing", "marking"} =>
        e # d /\ decision'[e] = decision[e]
  BY <1>4 DEF Idle
<1>9. \A e \in Decision : decision[e].kind \in {"writing", "marking"} =>
        /\ decision[e].id \in Id /\ decision[e].wallet \in Wallet
        /\ requests[decision[e].id].user \in User
  BY GrantingTyped
<1>10. WalletIsOwners'
  BY <1>1, <1>3, <1>6, <1>8, <1>9 DEF DriftInv, WalletIsOwners
<1>11. MarkedIsOnChain'
  BY <1>1, <1>3, <1>8, <1>9 DEF DriftInv, MarkedIsOnChain
<1>12. o \notin drifted =>
        row[o].wallet = decision[d].wallet /\ decision[d].wallet \in Wallet
        /\ chainFields[row[o].wallet] = requests[id].fields
  BY <1>1, <1>9 DEF DriftInv, WalletIsOwners, MarkedIsOnChain
<1> HIDE DEF o, id
<1>13. ShownOrMarking'
  <2> SUFFICES ASSUME NEW u \in User \ drifted, verified'[u] # None
               PROVE  /\ row'[u].wallet \in Wallet
                      /\ \/ chainFields[row'[u].wallet] = verified'[u]
                         \/ \E e \in Decision :
                              /\ decision'[e].kind = "marking"
                              /\ decision'[e].wallet = row'[u].wallet
                              /\ requests'[decision'[e].id].user = u
    BY <1>1 DEF ShownOrMarking
  <2>1. CASE u = o
    BY <1>6, <1>7, <1>12, <2>1
  <2>2. CASE u # o
    <3>1. verified'[u] = verified[u] /\ row'[u].wallet = row[u].wallet
      BY <1>6, <1>7, <2>2
    <3>2. CASE chainFields[row[u].wallet] = verified[u]
      BY <3>1, <3>2 DEF DriftInv, ShownOrMarking
    <3>3. CASE chainFields[row[u].wallet] # verified[u]
      <4>1. PICK e \in Decision : /\ decision[e].kind = "marking"
                                  /\ decision[e].wallet = row[u].wallet
                                  /\ requests[decision[e].id].user = u
        BY <3>1, <3>3 DEF DriftInv, ShownOrMarking
      <4>2. e # d
        BY <2>2, <4>1 DEF o, id
      <4>3. row[u].wallet \in Wallet
        BY <3>1 DEF DriftInv, ShownOrMarking
      <4> QED
        BY <1>3, <1>4, <1>9, <3>1, <4>1, <4>2, <4>3
    <3> QED
      BY <3>2, <3>3
  <2> QED
    BY <2>1, <2>2
<1> QED
  BY <1>10, <1>11, <1>13 DEF DriftInv

LEMMA OpenDashboardDrift ==
  ASSUME Typed, DriftInv, OpenDashboard
  PROVE  DriftInv'
<1>1. UNCHANGED <<row, requests, chainFields, verified, drifted>>
      /\ RequestsKept
  BY RequestsUnchanged DEF OpenDashboard, rowVars, historyVars
<1>2. \A d \in Decision :
        \/ decision[d] = Idle /\ decision'[d] = Idle
        \/ /\ decision'[d].id = decision[d].id
           /\ decision'[d].kind = decision[d].kind
           /\ decision'[d].wallet = decision[d].wallet
  BY ReloadKeepsCalls
<1>3. \A d \in Decision :
        decision'[d].kind \in {"writing", "marking"} =>
          /\ decision'[d].kind = decision[d].kind
          /\ decision'[d].id = decision[d].id
          /\ decision'[d].wallet = decision[d].wallet
  BY <1>2 DEF Idle
<1>4. \A d \in Decision : decision[d].kind = "marking" =>
        /\ decision'[d].kind = "marking"
        /\ decision'[d].id = decision[d].id
        /\ decision'[d].wallet = decision[d].wallet
  BY <1>2 DEF Idle
<1> QED
  BY <1>1, <1>3, <1>4, QuietDrift

LEMMA NextDrift ==
  ASSUME Typed, DriftInv, [Next]_vars
  PROVE  DriftInv'
<1>1. ASSUME RequestsKept,
             UNCHANGED <<row, decision, drifted, verified, chainFields>>
      PROVE  DriftInv'
  BY <1>1, QuietDrift
<1>2. ASSUME requests' = requests PROVE RequestsKept
  BY <1>2, RequestsUnchanged
<1>3. ASSUME NEW j \in Job, UserSteps(j) PROVE DriftInv'
  <2>1. ASSUME NEW u \in User, NEW kind, NEW column, NEW value,
               StartSave(j, u, kind, column, value)
        PROVE  DriftInv'
    BY <1>1, <1>2, <2>1 DEF StartSave, rowVars
  <2>2. ASSUME NEW u \in User, NEW f \in FieldSet, Apply(j, u, f)
        PROVE  DriftInv'
    BY <1>1, <1>2, <2>2 DEF Apply, rowVars
  <2>3. ASSUME LoadRow(j) \/ JobFails(j) PROVE DriftInv'
    BY <1>1, <1>2, <2>3 DEF LoadRow, JobFails, rowVars, historyVars
  <2>4. ASSUME CommitApplication(j) PROVE DriftInv'
    <3>1. RequestsKept
      BY <2>4, CommitFacts DEF RequestsKept
    <3> QED
      BY <1>1, <2>4, <3>1 DEF CommitApplication, rowVars, historyVars
  <2> QED
    BY <1>3, <2>1, <2>2, <2>3, <2>4, SaveRowDrift
    DEF UserSteps, BindWallet, VerifyIdentity
<1>4. ASSUME NEW d \in Decision, EditorSteps(d) PROVE DriftInv'
  <2>1. ASSUME NEW v \in list, NEW approve \in BOOLEAN,
               ClickDecide(d, v, approve)
        PROVE  DriftInv'
    <3>1. /\ decision[d] = Idle /\ decision'[d].kind = "reading"
          /\ \A e \in Decision \ {d} : decision'[e] = decision[e]
          /\ UNCHANGED <<row, requests, drifted, verified, chainFields>>
      BY <2>1 DEF ClickDecide, rowVars, Typed, CallsTyped
    <3> QED
      BY <1>2, <3>1, CallQuietDrift DEF Idle
  <2>2. ASSUME Reject(d) PROVE DriftInv'
    <3>1. decision[d] # Idle /\ decision[d].kind = "rejecting"
          /\ AnswerOrError(d, "rejected")
          /\ UNCHANGED <<row, drifted, verified, chainFields>>
      BY <2>2 DEF Reject, Idle, rowVars
    <3>2. /\ decision[d].id \in Id /\ decision'[d] = Idle
          /\ \A e \in Decision \ {d} : decision'[e] = decision[e]
      BY <3>1, AnswerFacts DEF AnswerOrError, Outcome
    <3>3. RequestsKept
      <4>1. CASE requests[decision[d].id].status = "pending"
        <5>1. requests' = [requests EXCEPT ![decision[d].id].status = "rejected"]
          BY <2>2, <4>1 DEF Reject
        <5>2. requests \in Seq(Request)
          BY DEF Typed, RequestsTyped
        <5>3. /\ Id' = Id
              /\ \A id \in Id :
                   /\ requests'[id].user = requests[id].user
                   /\ requests'[id].fields = requests[id].fields
                   /\ requests'[id].status = IF id = decision[d].id
                                             THEN "rejected"
                                             ELSE requests[id].status
          BY <3>2, <5>1, <5>2, StatusChange
        <5> QED
          BY <5>3 DEF RequestsKept
      <4>2. CASE requests[decision[d].id].status # "pending"
        BY <1>2, <2>2, <4>2 DEF Reject
      <4> QED
        BY <4>1, <4>2
    <3> QED
      BY <3>1, <3>2, <3>3, CallQuietDrift DEF Idle
  <2>3. ASSUME ChainFails(d) PROVE DriftInv'
    <3>1. decision[d] # Idle /\ decision[d].kind = "writing"
          /\ Answer(d, "error")
          /\ UNCHANGED <<row, requests, drifted, verified, chainFields>>
      BY <2>3 DEF ChainFails, Idle, rowVars
    <3>2. /\ decision'[d] = Idle
          /\ \A e \in Decision \ {d} : decision'[e] = decision[e]
      BY <3>1, AnswerFacts DEF Outcome
    <3> QED
      BY <1>2, <3>1, <3>2, CallQuietDrift DEF Idle
  <2>4. ASSUME DecisionFails(d) PROVE DriftInv'
    <3>1. decision[d] # Idle /\ Answer(d, "error")
          /\ drifted \subseteq drifted'
          /\ (decision[d].kind = "marking"
               => requests[decision[d].id].user \in drifted')
          /\ UNCHANGED <<row, requests, verified, chainFields>>
      BY <2>4 DEF DecisionFails, Idle, rowVars
    <3>2. /\ decision'[d] = Idle
          /\ \A e \in Decision \ {d} : decision'[e] = decision[e]
      BY <3>1, AnswerFacts DEF Outcome
    <3> QED
      BY <1>2, <3>1, <3>2, CallQuietDrift DEF Idle
  <2> QED
    BY <1>4, <2>1, <2>2, <2>3, <2>4, ReadRequestDrift, ChainWrittenDrift,
       MarkApprovedDrift DEF EditorSteps
<1>5. ASSUME NEW u \in User, LoadProfile(u) PROVE DriftInv'
  BY <1>1, <1>2, <1>5 DEF LoadProfile, rowVars, historyVars
<1>6. ASSUME UNCHANGED vars PROVE DriftInv'
  BY <1>1, <1>2, <1>6 DEF vars, rowVars, historyVars
<1> QED
  BY <1>3, <1>4, <1>5, <1>6, OpenDashboardDrift, LateMinedDrift DEF Next

(***************************************************************************)
(* The label "Verified fields (on-chain)" of the specialization page is    *)
(* true while no decision for the wallet is under way, for every account   *)
(* the chain was not changed for on the side: by a new wallet, a call that *)
(* failed half-way or was mined late, or an approval of another account's  *)
(* request for the same wallet.                                            *)
(***************************************************************************)
THEOREM LabelHolds == Spec => []ShownFieldsAreOnChain
<1>1. Spec => []Typed
  BY AlwaysTyped
<1>2. Spec => []DriftInv
  BY <1>1, InitDrift, NextDrift, PTL DEF Spec
<1> QED
  BY <1>2, DriftInvImplies, PTL
=============================================================================
