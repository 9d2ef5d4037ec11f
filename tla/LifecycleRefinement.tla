------------------------ MODULE LifecycleRefinement ------------------------
(***************************************************************************)
(* The mapping from the contracts to ManuscriptLifecycle: the submission   *)
(* keys are the authors, and everything else is hidden.                    *)
(***************************************************************************)
EXTENDS PublicationRegistry

(* A submission key is generated in the author's browser for one           *)
(* manuscript, a session key by the backend for one panel member: no       *)
(* author is paid an incentive into a submission key.                      *)
ASSUME KeysApart == \A list \in ReviewerLists : Range(list) \cap Author = {}

Lifecycle == INSTANCE ManuscriptLifecycle WITH
  Key <- Author,
  MaxVersion <- MaxRequests,
  nonces <- [a \in Author |-> nonces[a]],
  jrt <- [a \in Author |-> balance[a]],
  approved <- [a \in Author |-> allowance[a]]

(***************************************************************************)
(* The contracts implement the lifecycle the web client relies on: to an   *)
(* author every manuscript moves along its states by its own signature, by *)
(* its own payment of exactly one fee, or by one decision of others.       *)
(***************************************************************************)
ImplementsLifecycle == Lifecycle!LifecycleSpec
=============================================================================
