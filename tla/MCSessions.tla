----------------------------- MODULE MCSessions -----------------------------
(***************************************************************************)
(* A small instance of Sessions: two requests in flight, two sessions, and *)
(* ages of a few ticks.                                                    *)
(***************************************************************************)
EXTENDS Sessions, TLC

Symmetric == Permutations(Requests) \union Permutations(Users)
=============================================================================
