----------------------- MODULE ReviewProcessRefinement -----------------------
(***************************************************************************)
(* The refinement mapping from the contracts to ReviewProcess.  A ballot   *)
(* is open once its round has been decided: the votes already logged for a *)
(* panel that has not finished are not visible yet.                        *)
(***************************************************************************)
EXTENDS PublicationRegistry

PhaseOf == [SUBMITTED |-> "none", CHECKING |-> "checking",
            PENDING_EDITOR |-> "screening", UNDER_REVIEW |-> "review",
            REVISION_REQUESTED |-> "revising", ACCEPTED |-> "accepted",
            REJECTED |-> "rejected", PUBLISHED |-> "published"]

phases == [m \in ManuscriptId |-> PhaseOf[status[m]]]
openedVotes ==
  {e \in reviewEvents : \/ e.version # version[e.msId]
                        \/ status[e.msId] # "UNDER_REVIEW"}

Process == INSTANCE ReviewProcess WITH
  Manuscript <- ManuscriptId,
  Person <- Address,
  phase <- phases,
  round <- version,
  ballots <- openedVotes

(***************************************************************************)
(* The contracts implement the review process: whatever the interleaving   *)
(* of oracle answers, editor decisions, reviews and payments, what is      *)
(* visible is one complete odd ballot per round, decided by its majority.  *)
(***************************************************************************)
ImplementsReviewProcess == Process!Spec
=============================================================================
