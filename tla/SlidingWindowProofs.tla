------------------------ MODULE SlidingWindowProofs ------------------------
(***************************************************************************)
(* What the rules of SlidingWindow come to: however the windows are laid   *)
(* over the time line, none holds more grants of a key than the limit.     *)
(***************************************************************************)
EXTENDS SlidingWindow, FiniteSetTheorems, TLAPS

\* The grants of a key from time t on, for as long as a window.
From(k, t) == {g \in granted : g.key = k /\ t =< g.at /\ g.at =< t + Window}

\* Any window, whenever it opens, and any two grants of a key.
Promised ==
    /\ \A k \in Keys, t \in Nat : Cardinality(From(k, t)) =< MaxEvents
    /\ Spaced(granted)

Kept == granted \subseteq Grants /\ IsFiniteSet(granted) /\ Capped(granted) /\ Spaced(granted)

\* A set of grants has an earliest one.
LEMMA EarliestGrant ==
    ASSUME Times \subseteq Nat, NEW S \in SUBSET Grants, S # {}
    PROVE  \E g \in S : \A h \in S : g.at =< h.at
<1>. DEFINE Ats == {g.at : g \in S}
            less == OpToRel(<, Nat)
<1>1. Ats \subseteq Nat /\ Ats # {}
    BY DEF Grants
<1>2. PICK a \in Ats : \A b \in Ats : <<b, a>> \notin less
    <2>. HIDE DEF Ats, less
    <2>1. IsWellFoundedOn(less, Nat)
        BY NatLessThanWellFounded DEF less
    <2>. QED BY <1>1, <2>1, WFMin
<1>3. ASSUME NEW b \in Ats PROVE a =< b
    <2>1. a \in Nat /\ b \in Nat
        BY <1>1
    <2>2. b < a => <<b, a>> \in less
        BY <2>1 DEF OpToRel
    <2>. HIDE DEF Ats, less
    <2>. QED BY <1>2, <2>1, <2>2
<1>. QED BY <1>2, <1>3

\* A window that opens with no grant holds no more than the one that opens with
\* its earliest.
LEMMA CappedAnywhere ==
    ASSUME Times \subseteq Nat, MaxEvents \in Nat, Window \in Nat, Kept,
           NEW k \in Keys, NEW t \in Nat
    PROVE  Cardinality(From(k, t)) =< MaxEvents
<1>1. CASE From(k, t) = {}
    BY <1>1, FS_EmptySet
<1>2. CASE From(k, t) # {}
    <2>1. From(k, t) \in SUBSET Grants
        BY DEF From, Kept
    <2>2. PICK g \in From(k, t) : \A h \in From(k, t) : g.at =< h.at
        BY <1>2, <2>1, EarliestGrant
    <2>3. g.at \in Nat /\ \A h \in From(k, t) : h.at \in Nat
        BY <2>1 DEF Grants
    <2>4. From(k, t) \subseteq InWindow(granted, g)
        BY <2>2, <2>3 DEF From, InWindow
    <2>5. IsFiniteSet(InWindow(granted, g)) /\ Cardinality(InWindow(granted, g)) =< MaxEvents
        BY <2>2, FS_Subset DEF From, InWindow, Kept, Capped
    <2>6. /\ Cardinality(From(k, t)) =< Cardinality(InWindow(granted, g))
          /\ Cardinality(From(k, t)) \in Nat /\ Cardinality(InWindow(granted, g)) \in Nat
        BY <2>4, <2>5, FS_Subset, FS_CardinalityType
    <2>. QED BY <2>5, <2>6
<1>. QED BY <1>1, <1>2

LEMMA InitKept == Init => Kept
BY FS_EmptySet DEF Init, Kept, Capped, Spaced

LEMMA GrantKeeps == ASSUME Kept, NEW g \in Grants, Grant(g) PROVE Kept'
<1>1. IsFiniteSet(granted')
    BY FS_AddElement DEF Grant, Kept
<1>. QED BY <1>1 DEF Grant, Kept

\* To forget grants breaks no limit.
LEMMA ResetKeeps == ASSUME MaxEvents \in Nat, Kept, NEW k \in Keys, Reset(k) PROVE Kept'
<1>1. granted' \subseteq granted /\ IsFiniteSet(granted')
    BY FS_Subset DEF Reset, Kept
<1>2. ASSUME NEW g \in granted' PROVE Cardinality(InWindow(granted', g)) =< MaxEvents
    <2>1. InWindow(granted', g) \subseteq InWindow(granted, g)
        BY <1>1 DEF InWindow
    <2>2. IsFiniteSet(InWindow(granted, g)) /\ Cardinality(InWindow(granted, g)) =< MaxEvents
        BY <1>1, FS_Subset DEF InWindow, Kept, Capped
    <2>3. /\ Cardinality(InWindow(granted', g)) =< Cardinality(InWindow(granted, g))
          /\ Cardinality(InWindow(granted', g)) \in Nat
          /\ Cardinality(InWindow(granted, g)) \in Nat
        BY <2>1, <2>2, FS_Subset, FS_CardinalityType
    <2>. QED BY <2>2, <2>3
<1>3. Capped(granted')
    BY <1>2 DEF Capped
<1>4. Spaced(granted')
    BY <1>1 DEF Kept, Spaced
<1>. QED BY <1>1, <1>3, <1>4 DEF Kept

\* README.md "Throttling", limits that nothing resets (resets, signups and
\* links): no window, whenever it opens, has more grants of a key than the
\* limit, and two of them are a cooldown apart.
THEOREM StrictLimit ==
    ASSUME Times \subseteq Nat, MaxEvents \in Nat, Window \in Nat
    PROVE  StrictSpec => []Promised
<1>1. Kept /\ [\E g \in Grants : Grant(g)]_granted => Kept'
    BY GrantKeeps DEF Kept
<1>2. Kept => Promised
    BY CappedAnywhere DEF Promised, Kept
<1>. QED BY <1>1, <1>2, InitKept, PTL DEF StrictSpec

\* The limit of logins, which a success resets: the same for the guesses that
\* are still held against a pair.
THEOREM ResettableLimit ==
    ASSUME Times \subseteq Nat, MaxEvents \in Nat, Window \in Nat
    PROVE  ResettableSpec => []Promised
<1>1. Kept /\ [(\E g \in Grants : Grant(g)) \/ (\E k \in Keys : Reset(k))]_granted => Kept'
    BY GrantKeeps, ResetKeeps DEF Kept
<1>2. Kept => Promised
    BY CappedAnywhere DEF Promised, Kept
<1>. QED BY <1>1, <1>2, InitKept, PTL DEF ResettableSpec
=============================================================================
