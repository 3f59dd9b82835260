--------------------------- MODULE SlidingWindow ---------------------------
(***************************************************************************)
(* What a throttle rule of MuminMate promises, without the table it is     *)
(* built on: per key (an email, an IP, an email from an IP) at most        *)
(* MaxEvents requests are granted in any window of Window time units, and  *)
(* two grants of a key are at least Cooldown apart.  users/limits.py names *)
(* the numbers, README.md "Throttling" states the rules.                   *)
(***************************************************************************)
EXTENDS Naturals, FiniteSets

CONSTANTS Ids, Keys, Times, MaxEvents, Window, Cooldown

VARIABLE granted    \* the requests that passed, each [id, key, at]

Grants == [id : Ids, key : Keys, at : Times]

\* Those of S that share g's key and fall in the window that opens with g.
InWindow(S, g) ==
    {h \in S : h.key = g.key /\ g.at =< h.at /\ h.at =< g.at + Window}

\* Every window holds at most MaxEvents.  It is enough to look at the windows
\* that open with a grant: SlidingWindowProofs shows that no other holds more.
Capped(S) == \A g \in S : Cardinality(InWindow(S, g)) =< MaxEvents

Spaced(S) ==
    \A g, h \in S : g.key = h.key /\ g.id # h.id
                      => g.at + Cooldown =< h.at \/ h.at + Cooldown =< g.at

Init == granted = {}

\* A request passes: only if the limits hold with it included.  Grants come
\* in the order the requests are counted, which need not be that of `at`.
Grant(g) ==
    /\ \A h \in granted : h.id # g.id
    /\ granted' = granted \union {g}
    /\ Capped(granted')
    /\ Spaced(granted')

\* A success forgets everything counted against one key.
Reset(k) == granted' = {g \in granted : g.key # k}

\* A limit nothing resets.
StrictSpec == Init /\ [][\E g \in Grants : Grant(g)]_granted

\* A limit a success resets.
ResettableSpec ==
    Init /\ [][(\E g \in Grants : Grant(g)) \/ (\E k \in Keys : Reset(k))]_granted
=============================================================================
