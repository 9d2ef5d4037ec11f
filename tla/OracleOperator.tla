--------------------------- MODULE OracleOperator ---------------------------
(***************************************************************************)
(* The off-chain oracle operator (oracle/src) with the backend service it  *)
(* asks for reviewers, against the contracts of PublicationRegistry.       *)
(*                                                                         *)
(* The operator subscribes to the two request events.  Every delivery runs *)
(* an asynchronous handler; handlers interleave at their awaits.  A request*)
(* whose handler fails, or whose event is mined while the process is down, *)
(* is not tried again: events are not replayed.  An event may be delivered *)
(* again, when a reorganisation mines its transaction a second time.       *)
(*                                                                         *)
(* The backend mints one session key per selected reviewer and stores it   *)
(* under (manuscript, the reviewer's bound wallet), over an older key.     *)
(* Payments do not concern the operator and are left out of OperatorNext.  *)
(***************************************************************************)
EXTENDS PublicationRegistry, SequencesExt

CONSTANTS
  Handler,          \* bound: handler invocations running at the same time
  Wallet,           \* bound wallets of the verified reviewers
  VerifiedFor,      \* field -> wallets of the reviewers verified for it
  GeneratedKeys,    \* bound: the session keys generated, in that order
  MaxCrashes,       \* bound: stops of the operator process
  MaxRedeliveries   \* bound: events delivered again

NoKey == "none"
Count == 3          \* what the backend selects when no count is requested

(* Keys are fresh: never generated twice, and nobody's address before.     *)
ASSUME OperatorAssumption ==
  /\ GeneratedKeys \in Seq(Address \ Author)
  /\ IsInjective(GeneratedKeys)
  /\ IsFiniteSet(Wallet)
  /\ \A f \in Field : VerifiedFor[f] \subseteq Wallet
  /\ MaxCrashes \in Nat
  /\ MaxRedeliveries \in Nat

Request == [kind : {"plagiarism", "reviewers"}, id : RequestId]
PlagiarismRequest(id) == [kind |-> "plagiarism", id |-> id]
ReviewersRequest(id) == [kind |-> "reviewers", id |-> id]
Idle == [pc |-> "idle"]

VARIABLES
  up,            \* is the operator process running?
  events,        \* requests whose event is still to be delivered
  handlers,      \* Handler -> Idle, or the invocation it runs
  inflight,      \* requests in the handlers' inflight sets
  mempool,       \* answers broadcast and not mined
  dropped,       \* requests given up on: an error was logged, or nobody heard
  sessions,      \* msId -> wallet -> session key on record
  nextKey,       \* index in GeneratedKeys of the next one
  crashes,
  redeliveries

operatorVars == <<up, events, handlers, inflight, mempool, dropped, sessions,
                  nextKey, crashes, redeliveries>>
allVars == <<vars, operatorVars>>
processVars == <<up, crashes, redeliveries>>
databaseVars == <<sessions, nextKey>>

OperatorInit ==
  /\ Init
  /\ up = TRUE
  /\ events = {}
  /\ handlers = [h \in Handler |-> Idle]
  /\ inflight = {}
  /\ mempool = {}
  /\ dropped = {}
  /\ sessions = [m \in ManuscriptId |-> [w \in Wallet |-> NoKey]]
  /\ nextKey = 1
  /\ crashes = 0
  /\ redeliveries = 0

Answered(r) == IF r.kind = "plagiarism" THEN plagiarismRequestFulfilled[r.id]
               ELSE reviewerRequestFulfilled[r.id]
Emitted(r) == IF r.kind = "plagiarism" THEN r.id < nextPlagiarismRequestId
              ELSE r.id < nextReviewerRequestId
-----------------------------------------------------------------------------
(* The contracts, and who is listening when they emit a request.           *)

Emit(r) ==
  /\ IF up THEN events' = events \cup {r} /\ UNCHANGED dropped
     ELSE dropped' = dropped \cup {r} /\ UNCHANGED events
  /\ UNCHANGED <<processVars, handlers, inflight, mempool, databaseVars>>

(* Reviewers sign with the key the backend has on record for them.  Bound:  *)
(* the members of a panel vote in one order; the operator sees none.        *)
Signers(m) ==
  {sessions[m][w] : w \in Wallet} \cap (Range(reviewers[m]) \ hasReviewed[m])

Vote(m, v, n) ==
  /\ Signers(m) # {}
  /\ SubmitReview(m, CHOOSE k \in Signers(m) : TRUE, v, n)
  /\ UNCHANGED operatorVars

AuthorOrEditor ==
  \/ \E a \in Author, c \in Cid, n \in Nonce :
       /\ \/ SubmitManuscript(a, c, n)
          \/ \E m \in ManuscriptId : ReviseManuscript(m, a, c, n)
       /\ Emit(PlagiarismRequest(nextPlagiarismRequestId))
  \/ \E m \in ManuscriptId, f \in Field :
       \/ /\ SubmitEditorReview(m, TRUE, f)
          /\ Emit(ReviewersRequest(nextReviewerRequestId))
       \/ SubmitEditorReview(m, FALSE, f) /\ UNCHANGED operatorVars
-----------------------------------------------------------------------------
(* One invocation of handlePlagiarismRequest or handleReviewerSelection.   *)

Runs(h, pc) == handlers[h].pc = pc
Advance(h, pc) == handlers' = [handlers EXCEPT ![h].pc = pc]
InvocationsOf(r) == {h \in Handler : handlers[h] # Idle /\ handlers[h].request = r}

(* Each handler module has an inflight set of its own.                     *)
AlreadyInFlight_AnyKind(r) == \E other \in inflight : other.id = r.id
AlreadyInFlight(r) == r \in inflight

(* The listener calls the handler, which returns at once for a request in  *)
(* flight and otherwise awaits the view that tells if it is answered.      *)
Deliver(h, r) ==
  /\ up
  /\ r \in events
  /\ Runs(h, "idle")
  /\ events' = events \ {r}
  /\ handlers' = IF AlreadyInFlight(r) THEN handlers
                 ELSE [handlers EXCEPT ![h] = [pc |-> "querying", request |-> r,
                                               answer |-> <<>>]]
  /\ UNCHANGED <<vars, processVars, inflight, mempool, dropped, databaseVars>>

(* The view's result, or its failure, arrives; only now is the request     *)
(* entered in the inflight set.                                            *)
AfterQuery(h) ==
  /\ Runs(h, "querying")
  /\ \/ /\ Answered(handlers[h].request)
        /\ handlers' = [handlers EXCEPT ![h] = Idle]
        /\ UNCHANGED inflight
     \/ /\ Advance(h, "working")
        /\ inflight' = inflight \cup {handlers[h].request}
  /\ UNCHANGED <<vars, processVars, events, mempool, dropped, databaseVars>>

(* The finally block, reached from a caught error or after the receipt.    *)
Finish(h) ==
  /\ handlers' = [handlers EXCEPT ![h] = Idle]
  /\ inflight' = inflight \ {handlers[h].request}

Fail(h) ==
  /\ Finish(h)
  /\ dropped' = dropped \cup {handlers[h].request}

(* checkPlagiarism always has a score: it falls back to the mock checker.  *)
CheckPlagiarism(h) ==
  /\ Runs(h, "working")
  /\ handlers[h].request.kind = "plagiarism"
  /\ \E score \in Score :
       handlers' = [handlers EXCEPT ![h].pc = "sending", ![h].answer = <<score>>]
  /\ UNCHANGED <<vars, processVars, events, inflight, mempool, dropped,
                 databaseVars>>

(* The row of a wallet already on record is overwritten.                   *)
StoreKeys_OnConflictDoNothing(m, keyOf) ==
  sessions' = [sessions EXCEPT ![m] =
    [w \in Wallet |-> IF w \in DOMAIN keyOf /\ @[w] = NoKey THEN keyOf[w]
                      ELSE @[w]]]

StoreKeys(m, keyOf) ==
  sessions' = [sessions EXCEPT ![m] =
    [w \in Wallet |-> IF w \in DOMAIN keyOf THEN keyOf[w] ELSE @[w]]]

(* mintReviewerSessions.  The backend commits one new key per candidate    *)
(* before it looks at how many there are; the field may not have been read,*)
(* and the backend's answer may not arrive.                                *)
MintReviewerSessions(h) ==
  LET r == handlers[h].request
      m == reviewerRequestToMs[r.id]
      keys(n) == SubSeq(GeneratedKeys, nextKey, nextKey + n - 1)
  IN
  /\ Runs(h, "working")
  /\ r.kind = "reviewers"
  /\ \/ Fail(h) /\ UNCHANGED databaseVars
     \/ \E chosen \in SUBSET VerifiedFor[field[m]] :
          LET n == Cardinality(chosen)
              seat == SetToSeq(chosen)
              keyOf == [w \in chosen |->
                          keys(n)[CHOOSE i \in 1 .. n : seat[i] = w]]
          IN
          /\ n = Count \/ (n < Count /\ chosen = VerifiedFor[field[m]])
          /\ nextKey + n - 1 <= Len(GeneratedKeys)
          /\ StoreKeys(m, keyOf)
          /\ nextKey' = nextKey + n
          /\ \/ Fail(h)
             \/ /\ n >= 3
                /\ handlers' = [handlers EXCEPT ![h].pc = "sending",
                                                ![h].answer = keys(n)]
                /\ UNCHANGED <<inflight, dropped>>
  /\ UNCHANGED <<vars, processVars, events, mempool>>

Answer(h) == [request |-> handlers[h].request, answer |-> handlers[h].answer]

(* The call is estimated on the current state and broadcast; either may    *)
(* fail, and it does when the request has been answered by now.            *)
SendAnswer(h) ==
  /\ Runs(h, "sending")
  /\ \/ /\ ~ Answered(handlers[h].request)
        /\ mempool' = mempool \cup {Answer(h)}
        /\ Advance(h, "waiting")
        /\ UNCHANGED <<inflight, dropped>>
     \/ Fail(h) /\ UNCHANGED mempool
  /\ UNCHANGED <<vars, processVars, events, databaseVars>>

(* The node mines a broadcast answer; one that the contracts refuse by now *)
(* reverts.                                                                *)
Mine(tx) ==
  LET r == tx.request IN
  /\ tx \in mempool
  /\ mempool' = mempool \ {tx}
  /\ \/ r.kind = "plagiarism" /\ AnswerPlagiarismCheck(r.id, Head(tx.answer))
     \/ r.kind = "reviewers" /\ AnswerReviewerSelection(r.id, tx.answer)
     \/ Answered(r) /\ UNCHANGED vars
  /\ UNCHANGED <<processVars, events, handlers, inflight, dropped, databaseVars>>

(* tx.wait returns the receipt, or fails: the node did not respond, or another *)
(* answer was broadcast with the same account nonce -- every event resets the  *)
(* nonce manager -- and took this one's place.                             *)
Confirm(h) ==
  /\ Runs(h, "waiting")
  /\ \/ /\ Answer(h) \notin mempool
        /\ Finish(h)
        /\ UNCHANGED <<mempool, dropped>>
     \/ /\ Fail(h)
        /\ \/ UNCHANGED mempool
           \/ /\ mempool \ {Answer(h)} # {}
              /\ mempool' = mempool \ {Answer(h)}
  /\ UNCHANGED <<vars, processVars, events, databaseVars>>
-----------------------------------------------------------------------------
(* The process ends: handlers and undelivered events are gone, broadcast   *)
(* answers are not.  It starts with empty sets and fresh subscriptions.    *)
Crash ==
  /\ up
  /\ crashes < MaxCrashes
  /\ up' = FALSE
  /\ crashes' = crashes + 1
  /\ dropped' = dropped \cup events
                  \cup {r \in Request : InvocationsOf(r) # {}}
  /\ events' = {}
  /\ handlers' = [h \in Handler |-> Idle]
  /\ inflight' = {}
  /\ UNCHANGED <<vars, mempool, databaseVars, redeliveries>>

Restart ==
  /\ ~ up
  /\ up' = TRUE
  /\ UNCHANGED <<vars, events, handlers, inflight, mempool, dropped,
                 databaseVars, crashes, redeliveries>>

Redeliver(r) ==
  /\ up
  /\ redeliveries < MaxRedeliveries
  /\ Emitted(r)
  /\ events' = events \cup {r}
  /\ redeliveries' = redeliveries + 1
  /\ UNCHANGED <<vars, up, handlers, inflight, mempool, dropped, databaseVars,
                 crashes>>

HandlerStep(h) ==
  \/ AfterQuery(h)
  \/ CheckPlagiarism(h)
  \/ MintReviewerSessions(h)
  \/ SendAnswer(h)
  \/ Confirm(h)

OperatorNext ==
  \/ AuthorOrEditor
  \/ \E m \in ManuscriptId, v \in Verdict, n \in Nonce : Vote(m, v, n)
  \/ \E h \in Handler, r \in Request : Deliver(h, r)
  \/ \E h \in Handler : HandlerStep(h)
  \/ \E tx \in mempool : Mine(tx)
  \/ Crash
  \/ Restart
  \/ \E r \in Request : Redeliver(r)

(* A running process serves its callbacks, a crashed one is restarted, and *)
(* what is broadcast is mined.                                             *)
OperatorFairness ==
  /\ \A r \in Request :
       /\ WF_allVars(\E h \in Handler : Deliver(h, r))
       /\ WF_allVars(\E tx \in mempool : tx.request = r /\ Mine(tx))
  /\ \A h \in Handler : WF_allVars(HandlerStep(h))
  /\ WF_allVars(Restart)

OperatorSpec == OperatorInit /\ [][OperatorNext]_allVars
FairOperatorSpec == OperatorSpec /\ OperatorFairness
-----------------------------------------------------------------------------
Open(r) == Emitted(r) /\ ~ Answered(r)

(***************************************************************************)
(* No request is forgotten silently: one that is open has its event on the *)
(* way, a handler at work, an answer broadcast, or was given up on for a   *)
(* reason the operator could report.  A handler that returned early for    *)
(* the wrong reason would break it, and leave a manuscript stuck.          *)
(***************************************************************************)
NoRequestForgotten ==
  \A r \in Request : Open(r) =>
    \/ r \in events
    \/ InvocationsOf(r) # {}
    \/ \E tx \in mempool : tx.request = r
    \/ r \in dropped

(***************************************************************************)
(* The panel can sign: every address the registry has assigned to a        *)
(* manuscript under review is a session key the backend still holds, so    *)
(* that the reviewer it was minted for can vote.  session.go:72 hands the  *)
(* keys out "so the frontend can sign reviews with them".  Minting a second*)
(* set of keys for the same request overwrites the first.                  *)
(***************************************************************************)
PanelKeysKept ==
  \A m \in ManuscriptId :
    status[m] = "UNDER_REVIEW" =>
      Range(reviewers[m]) \subseteq {sessions[m][w] : w \in Wallet}

(***************************************************************************)
(* While every event is delivered once, the panel can sign: failures,      *)
(* restarts, late answers and later rounds overwrite no key in use.        *)
(***************************************************************************)
PanelKeysKeptIfDeliveredOnce == redeliveries = 0 => PanelKeysKept

(***************************************************************************)
(* Every request is eventually answered or given up on: no combination of  *)
(* waiting handlers, crashes and restarts leaves one hanging.              *)
(***************************************************************************)
EveryRequestEnds ==
  \A r \in Request : Open(r) ~> Answered(r) \/ r \in dropped
=============================================================================
