----------------------------- MODULE MCAccounts -----------------------------
(* Small instances of Accounts for TLC. *)
EXTENDS Accounts, TLC

\* Requests are told apart by what they do, addresses by who has them.
Symmetric == {p @@ q : p \in Permutations(Requests), q \in Permutations(Emails)}
=============================================================================
