---------------------------- MODULE ReviewOracle ----------------------------
(***************************************************************************)
(* The on-chain side of the oracle (ReviewOracle.sol): two numbered lists  *)
(* of requests, one for plagiarism checks and one for reviewer selections. *)
(* The registry opens a request by an internal call; an account holding    *)
(* ORACLE_ROLE answers it, once.  The answer calls the registry back in    *)
(* the same transaction, so the two halves are conjoined where both        *)
(* contracts are composed (PublicationRegistry) and a revert of either     *)
(* undoes both.                                                            *)
(*                                                                         *)
(* Solidity mappings are total functions whose untouched entries hold the  *)
(* zero value; they stay total here, over bounded identifiers.             *)
(***************************************************************************)
EXTENDS Integers, Sequences

CONSTANTS
  MaxManuscripts,   \* bound: manuscripts ever submitted
  MaxRequests,      \* bound: requests of each kind ever opened
  Cid               \* contents of manuscripts, as IPFS identifiers

ASSUME BoundsAssumption ==
  /\ MaxManuscripts \in Nat \ {0}
  /\ MaxRequests \in Nat \ {0}

ManuscriptId == 0 .. (MaxManuscripts - 1)
RequestId == 0 .. (MaxRequests - 1)
NoCid == ""

VARIABLES
  nextPlagiarismRequestId,
  plagiarismRequestToMs,
  plagiarismRequestCid,        \* the cid carried by PlagiarismCheckRequested
  plagiarismRequestFulfilled,
  nextReviewerRequestId,
  reviewerRequestToMs,
  reviewerRequestFulfilled

plagiarismVars ==
  <<nextPlagiarismRequestId, plagiarismRequestToMs, plagiarismRequestCid,
    plagiarismRequestFulfilled>>
reviewerVars ==
  <<nextReviewerRequestId, reviewerRequestToMs, reviewerRequestFulfilled>>
oracleVars == <<plagiarismVars, reviewerVars>>

OracleTypeOK ==
  /\ nextPlagiarismRequestId \in 0 .. MaxRequests
  /\ plagiarismRequestToMs \in [RequestId -> ManuscriptId]
  /\ plagiarismRequestCid \in [RequestId -> Cid \cup {NoCid}]
  /\ plagiarismRequestFulfilled \in [RequestId -> BOOLEAN]
  /\ nextReviewerRequestId \in 0 .. MaxRequests
  /\ reviewerRequestToMs \in [RequestId -> ManuscriptId]
  /\ reviewerRequestFulfilled \in [RequestId -> BOOLEAN]

OracleInit ==
  /\ nextPlagiarismRequestId = 0
  /\ plagiarismRequestToMs = [id \in RequestId |-> 0]
  /\ plagiarismRequestCid = [id \in RequestId |-> NoCid]
  /\ plagiarismRequestFulfilled = [id \in RequestId |-> FALSE]
  /\ nextReviewerRequestId = 0
  /\ reviewerRequestToMs = [id \in RequestId |-> 0]
  /\ reviewerRequestFulfilled = [id \in RequestId |-> FALSE]
-----------------------------------------------------------------------------
(* Called by the registry (REGISTRY_ROLE).                                 *)

RequestPlagiarismCheck_MsNotStored(m, c) ==
  /\ nextPlagiarismRequestId < MaxRequests
  /\ nextPlagiarismRequestId' = nextPlagiarismRequestId + 1
  /\ plagiarismRequestCid' =
       [plagiarismRequestCid EXCEPT ![nextPlagiarismRequestId] = c]
  /\ UNCHANGED <<plagiarismRequestToMs, plagiarismRequestFulfilled,
                 reviewerVars>>

RequestPlagiarismCheck(m, c) ==
  /\ nextPlagiarismRequestId < MaxRequests
  /\ nextPlagiarismRequestId' = nextPlagiarismRequestId + 1
  /\ plagiarismRequestToMs' =
       [plagiarismRequestToMs EXCEPT ![nextPlagiarismRequestId] = m]
  /\ plagiarismRequestCid' =
       [plagiarismRequestCid EXCEPT ![nextPlagiarismRequestId] = c]
  /\ UNCHANGED <<plagiarismRequestFulfilled, reviewerVars>>

RequestRandomReviewers(m) ==
  /\ nextReviewerRequestId < MaxRequests
  /\ nextReviewerRequestId' = nextReviewerRequestId + 1
  /\ reviewerRequestToMs' =
       [reviewerRequestToMs EXCEPT ![nextReviewerRequestId] = m]
  /\ UNCHANGED <<reviewerRequestFulfilled, plagiarismVars>>

(* Called by the off-chain operator (ORACLE_ROLE).                         *)

FulfillPlagiarismCheck(id, score) ==
  /\ id < nextPlagiarismRequestId
  /\ ~ plagiarismRequestFulfilled[id]
  /\ score <= 100
  /\ plagiarismRequestFulfilled' =
       [plagiarismRequestFulfilled EXCEPT ![id] = TRUE]
  /\ UNCHANGED <<nextPlagiarismRequestId, plagiarismRequestToMs,
                 plagiarismRequestCid, reviewerVars>>

FulfillReviewerSelection_AnyCount(id, reviewerList) ==
  /\ id < nextReviewerRequestId
  /\ ~ reviewerRequestFulfilled[id]
  /\ reviewerRequestFulfilled' =
       [reviewerRequestFulfilled EXCEPT ![id] = TRUE]
  /\ UNCHANGED <<nextReviewerRequestId, reviewerRequestToMs, plagiarismVars>>

FulfillReviewerSelection(id, reviewerList) ==
  /\ id < nextReviewerRequestId
  /\ ~ reviewerRequestFulfilled[id]
  /\ Len(reviewerList) >= 3
  /\ Len(reviewerList) % 2 = 1
  /\ reviewerRequestFulfilled' =
       [reviewerRequestFulfilled EXCEPT ![id] = TRUE]
  /\ UNCHANGED <<nextReviewerRequestId, reviewerRequestToMs, plagiarismVars>>
-----------------------------------------------------------------------------
(* The requests still waiting for an answer about manuscript m.            *)

PlagiarismRequests(m) ==
  {id \in RequestId : /\ id < nextPlagiarismRequestId
                      /\ plagiarismRequestToMs[id] = m}
OpenPlagiarismRequests(m) ==
  {id \in PlagiarismRequests(m) : ~ plagiarismRequestFulfilled[id]}

OpenReviewerRequests(m) ==
  {id \in RequestId : /\ id < nextReviewerRequestId
                      /\ reviewerRequestToMs[id] = m
                      /\ ~ reviewerRequestFulfilled[id]}
=============================================================================
