------------------------ MODULE ManuscriptLifecycle ------------------------
(***************************************************************************)
(* The contracts as the holder of a submission key sees them: who may move *)
(* a manuscript, and along which states.  Panels, votes, requests and the  *)
(* reviewers' incentives are hidden; a check, a screening and a ballot are *)
(* one step each, with every outcome they may have.                        *)
(*                                                                         *)
(* The modules of the web client are composed with this specification; the *)
(* registry is shown to implement it in LifecycleRefinement.               *)
(***************************************************************************)
EXTENDS Integers

CONSTANTS
  Key,               \* submission addresses
  MaxManuscripts,    \* bound: manuscripts ever submitted
  MaxVersion,        \* bound: versions of one manuscript
  PUBLICATION_FEE

ASSUME LifecycleAssumption ==
  /\ MaxManuscripts \in Nat \ {0}
  /\ MaxVersion \in Nat \ {0}
  /\ PUBLICATION_FEE \in Nat \ {0}
  /\ "0x0" \notin Key

Manuscript == 0 .. (MaxManuscripts - 1)
NoKey == "0x0"
Status == {"SUBMITTED", "CHECKING", "UNDER_REVIEW", "REVISION_REQUESTED",
           "ACCEPTED", "REJECTED", "PUBLISHED", "PENDING_EDITOR"}

VARIABLES
  nextManuscriptId, author, status, version,
  nonces,       \* key -> the nonce its next signature must carry
  jrt,          \* key -> tokens it holds
  approved      \* key -> tokens the registry may draw

lifecycleVars ==
  <<nextManuscriptId, author, status, version, nonces, jrt, approved>>
moneyVars == <<jrt, approved>>

LifecycleTypeOK ==
  /\ nextManuscriptId \in 0 .. MaxManuscripts
  /\ author \in [Manuscript -> Key \cup {NoKey}]
  /\ status \in [Manuscript -> Status]
  /\ version \in [Manuscript -> 0 .. MaxVersion]
  /\ nonces \in [Key -> Nat]
  /\ jrt \in [Key -> Nat]
  /\ approved \in [Key -> Nat]

LifecycleInit ==
  /\ nextManuscriptId = 0
  /\ author = [m \in Manuscript |-> NoKey]
  /\ status = [m \in Manuscript |-> "SUBMITTED"]
  /\ version = [m \in Manuscript |-> 0]
  /\ nonces = [k \in Key |-> 0]
  /\ jrt = [k \in Key |-> 0]
  /\ approved = [k \in Key |-> 0]
-----------------------------------------------------------------------------
(* Relayed calls: the signer is recovered from the signature.              *)
UseNonce_Unchecked(k, n) == nonces' = [nonces EXCEPT ![k] = n + 1]
UseNonce(k, n) ==
  /\ nonces[k] = n
  /\ nonces' = [nonces EXCEPT ![k] = @ + 1]

Submit(k, n) ==
  /\ nextManuscriptId < MaxManuscripts
  /\ UseNonce(k, n)
  /\ nextManuscriptId' = nextManuscriptId + 1
  /\ author' = [author EXCEPT ![nextManuscriptId] = k]
  /\ status' = [status EXCEPT ![nextManuscriptId] = "CHECKING"]
  /\ version' = [version EXCEPT ![nextManuscriptId] = 1]
  /\ UNCHANGED moneyVars

Revise(m, k, n) ==
  /\ author[m] = k
  /\ status[m] = "REVISION_REQUESTED"
  /\ version[m] < MaxVersion
  /\ UseNonce(k, n)
  /\ status' = [status EXCEPT ![m] = "CHECKING"]
  /\ version' = [version EXCEPT ![m] = @ + 1]
  /\ UNCHANGED <<nextManuscriptId, author, moneyVars>>

(* Sent by the submission key itself. *)
Pay(m, k) ==
  /\ author[m] = k
  /\ status[m] = "ACCEPTED"
  /\ jrt[k] >= PUBLICATION_FEE
  /\ approved[k] >= PUBLICATION_FEE
  /\ status' = [status EXCEPT ![m] = "PUBLISHED"]
  /\ jrt' = [jrt EXCEPT ![k] = @ - PUBLICATION_FEE]
  /\ approved' = [approved EXCEPT ![k] = @ - PUBLICATION_FEE]
  /\ UNCHANGED <<nextManuscriptId, author, version, nonces>>

Approve(k) ==
  /\ approved' = [approved EXCEPT ![k] = PUBLICATION_FEE]
  /\ UNCHANGED <<nextManuscriptId, author, status, version, nonces, jrt>>

Receive(k, amount) ==
  /\ jrt' = [jrt EXCEPT ![k] = @ + amount]
  /\ UNCHANGED <<nextManuscriptId, author, status, version, nonces, approved>>
-----------------------------------------------------------------------------
(* What the oracle, the editor and the reviewers decide.                   *)
Move(m, from, to) ==
  /\ status[m] = from
  /\ status' = [status EXCEPT ![m] = to]
  /\ UNCHANGED <<nextManuscriptId, author, version, nonces, moneyVars>>

Check(m) == \E to \in {"REJECTED", "PENDING_EDITOR"} : Move(m, "CHECKING", to)
Screen(m) ==
  \E to \in {"REJECTED", "UNDER_REVIEW"} : Move(m, "PENDING_EDITOR", to)
Decide(m) ==
  \E to \in {"ACCEPTED", "REJECTED", "REVISION_REQUESTED"} :
    Move(m, "UNDER_REVIEW", to)

Others == \E m \in Manuscript : Check(m) \/ Screen(m) \/ Decide(m)

LifecycleNext ==
  \/ Others
  \/ \E k \in Key : Submit(k, nonces[k])
  \/ \E m \in Manuscript, k \in Key : Revise(m, k, nonces[k])
  \/ \E m \in Manuscript, k \in Key : Pay(m, k)
  \/ \E k \in Key : Approve(k)
  \/ \E k \in Key, amount \in 1 .. PUBLICATION_FEE : Receive(k, amount)

LifecycleSpec == LifecycleInit /\ [][LifecycleNext]_lifecycleVars
=============================================================================
