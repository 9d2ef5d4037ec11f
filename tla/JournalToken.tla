---------------------------- MODULE JournalToken ----------------------------
(***************************************************************************)
(* The JRT token (JournalToken.sol over OpenZeppelin's ERC20), as far as   *)
(* the registry and the wallets use it: balances, and the allowances the   *)
(* authors grant to the registry.  Amounts are whole tokens.               *)
(*                                                                         *)
(* PayFromFee is the token's part of payPublicationFee: transferFrom of    *)
(* the fee to the registry, then one transfer to every entry of the        *)
(* reviewer list.  The calls share one transaction, so only their sum is   *)
(* visible and a failing transfer undoes them all.                         *)
(***************************************************************************)
EXTENDS Integers, Sequences, FiniteSets

CONSTANTS
  Address,             \* externally owned accounts: authors and reviewers
  Funder,              \* the wallet authors fund their submission key from
  Registry,            \* the registry contract's own account
  PUBLICATION_FEE,     \* 100 JRT in the source
  REVIEWER_INCENTIVE,  \* 10 JRT in the source
  INITIAL_SUPPLY       \* minted to the deployer, who hands it out

Account == Address \cup {Funder, Registry}

ASSUME TokenAssumption ==
  /\ PUBLICATION_FEE \in Nat
  /\ REVIEWER_INCENTIVE \in Nat
  /\ INITIAL_SUPPLY \in Nat
  /\ Funder \notin Address
  /\ Registry \notin Address
  /\ Funder # Registry

(* An address is 20 bytes: there are finitely many accounts.               *)
ASSUME AddressesFinite == IsFiniteSet(Address)

VARIABLES
  balance,     \* balanceOf
  allowance    \* allowance[a]: what the registry may draw from a

tokenVars == <<balance, allowance>>

TokenTypeOK ==
  /\ balance \in [Account -> Nat]
  /\ allowance \in [Address -> Nat]

TokenInit ==
  /\ balance = [x \in Account |-> IF x = Funder THEN INITIAL_SUPPLY ELSE 0]
  /\ allowance = [a \in Address |-> 0]

(* ERC20.transfer *)
Transfer_Unchecked(from, to, amount) ==
  /\ balance' = [x \in Account |->
                   balance[x] + (IF x = to THEN amount ELSE 0)
                              - (IF x = from THEN amount ELSE 0)]
  /\ UNCHANGED allowance

Transfer(from, to, amount) ==
  /\ balance[from] >= amount
  /\ balance' = [x \in Account |->
                   balance[x] + (IF x = to THEN amount ELSE 0)
                              - (IF x = from THEN amount ELSE 0)]
  /\ UNCHANGED allowance

(* ERC20.approve, spender the registry *)
Approve(owner, amount) ==
  /\ allowance' = [allowance EXCEPT ![owner] = amount]
  /\ UNCHANGED balance

(* How often an account occurs in a reviewer list. *)
Occurrences(x, list) == Cardinality({i \in DOMAIN list : list[i] = x})

PaidOut_Once(reviewerList) == REVIEWER_INCENTIVE
PaidOut(reviewerList) == REVIEWER_INCENTIVE * Len(reviewerList)

PayFromFee(payer, reviewerList) ==
  /\ allowance[payer] >= PUBLICATION_FEE
  /\ balance[payer] >= PUBLICATION_FEE
  /\ balance[Registry] + PUBLICATION_FEE >= PaidOut(reviewerList)
  /\ allowance' = [allowance EXCEPT ![payer] = @ - PUBLICATION_FEE]
  /\ balance' = [x \in Account |->
       balance[x]
         + REVIEWER_INCENTIVE * Occurrences(x, reviewerList)
         + (IF x = Registry
            THEN PUBLICATION_FEE - PaidOut(reviewerList) ELSE 0)
         - (IF x = payer THEN PUBLICATION_FEE ELSE 0)]
=============================================================================
