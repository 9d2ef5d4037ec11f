--------------------------- MODULE ReviewProcess ---------------------------
(***************************************************************************)
(* What the publication workflow promises, without contracts, requests,    *)
(* counters or signatures: a manuscript goes through rounds; each round is *)
(* a check, a screening and one ballot of an odd panel; the ballot is      *)
(* opened once, complete, and its majority decides; an accepted manuscript *)
(* is published at most once.                                              *)
(*                                                                         *)
(* PublicationRegistry collects a ballot vote by vote, in counters that    *)
(* other transactions interleave with, and implements this specification   *)
(* under the mapping given in ReviewProcessRefinement.                     *)
(***************************************************************************)
EXTENDS Integers, FiniteSets

CONSTANTS Manuscript, Person

VARIABLES
  phase,     \* where each manuscript stands
  round,     \* its current round, 0 before submission
  ballots    \* the votes of every ballot opened so far

processVars == <<phase, round, ballots>>

Phase == {"none", "checking", "screening", "review", "revising", "accepted",
          "rejected", "published"}
Verdict == {"ACCEPT", "REJECT", "REVISE"}
Vote == [msId : Manuscript, version : Nat \ {0}, reviewer : Person, verdict : Verdict]

Init ==
  /\ phase = [m \in Manuscript |-> "none"]
  /\ round = [m \in Manuscript |-> 0]
  /\ ballots = {}

Move(m, from, to) ==
  /\ phase[m] \in from
  /\ phase' = [phase EXCEPT ![m] = to]

StartRound(m) ==
  /\ Move(m, {"none", "revising"}, "checking")
  /\ round' = [round EXCEPT ![m] = @ + 1]
  /\ UNCHANGED ballots

FinishCheck(m) ==
  /\ \E to \in {"rejected", "screening"} : Move(m, {"checking"}, to)
  /\ UNCHANGED <<round, ballots>>

FinishScreening(m) ==
  /\ \E to \in {"rejected", "review"} : Move(m, {"screening"}, to)
  /\ UNCHANGED <<round, ballots>>

(* A ballot is one vote of every member of an odd panel of at least three, *)
(* and a verdict carries it with more than half of the votes.              *)
Panel(ballot) == {vote.reviewer : vote \in ballot}

IsBallot(ballot, m) ==
  /\ \A vote \in ballot : vote.msId = m /\ vote.version = round[m]
  /\ \A vote, other \in ballot :
       vote.reviewer = other.reviewer => vote = other
  /\ Cardinality(Panel(ballot)) >= 3
  /\ Cardinality(Panel(ballot)) % 2 = 1

Carries(ballot, v) ==
  2 * Cardinality({vote \in ballot : vote.verdict = v}) > Cardinality(ballot)

Outcome(ballot) ==
  IF Carries(ballot, "ACCEPT") THEN "accepted"
  ELSE IF Carries(ballot, "REJECT") THEN "rejected"
  ELSE "revising"

(* The votes become visible together.  The new ones are described by what  *)
(* they satisfy rather than enumerated.                                    *)
OpenBallot(m) ==
  LET ballot == ballots' \ ballots
  IN  /\ ballots \subseteq ballots'
      /\ ballot \subseteq Vote
      /\ IsBallot(ballot, m)
      /\ Move(m, {"review"}, Outcome(ballot))
      /\ UNCHANGED round

Publish(m) ==
  /\ Move(m, {"accepted"}, "published")
  /\ UNCHANGED <<round, ballots>>

Next ==
  \E m \in Manuscript :
    \/ StartRound(m)
    \/ FinishCheck(m)
    \/ FinishScreening(m)
    \/ OpenBallot(m)
    \/ Publish(m)

Spec == Init /\ [][Next]_processVars
=============================================================================
