------------------------------ MODULE MCAccounts -------------------------------
(***************************************************************************)
(* Accounts with two browsers, two forms under way and two addresses.      *)
(***************************************************************************)
EXTENDS Accounts, TLC

CONSTANTS b1, b2, r1, r2, u1, u2, t1

\* One address with two passwords, and another address.
TypedCredentials ==
    {[address |-> "a", password |-> "p"], [address |-> "a", password |-> "q"],
     [address |-> "b", password |-> "p"]}

\* Slots and ids have no identity, nor do browsers.
AccountSymmetry == Permutations(Browsers) \union Permutations(Slots) \union Permutations(Ids)
================================================================================
