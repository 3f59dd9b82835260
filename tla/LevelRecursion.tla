--------------------------- MODULE LevelRecursion ---------------------------
(***************************************************************************)
(* Recursion by depth: the value at level 0 is Base, that of a level is Up *)
(* of the one below.  AuditRows defines the functions that walk documents  *)
(* so, and its proofs cite from here that the definition has its value,    *)
(* and induction over the levels, each at an instance of the constants.    *)
(***************************************************************************)
EXTENDS Integers, WellFoundedInduction, TLAPS

CONSTANTS Base, Up(_)

Level[n \in Nat] == IF n = 0 THEN Base ELSE Up(Level[n - 1])

-----------------------------------------------------------------------------
\* The first n levels.
Approx(g, n) == g = [i \in 0 .. n |-> IF i = 0 THEN Base ELSE Up(g[i - 1])]

\* What the first levels are.
LEMMA ApproxValue ==
    ASSUME NEW n \in Nat, NEW g, Approx(g, n)
    PROVE  g[0] = Base /\ \A i \in 1 .. n : g[i] = Up(g[i - 1])
<1>. DEFINE h == [i \in 0 .. n |-> IF i = 0 THEN Base ELSE Up(g[i - 1])]
<1>1. g = h
    BY DEF Approx
<1>2. h[0] = Base /\ \A i \in 1 .. n : h[i] = Up(g[i - 1])
    OBVIOUS
<1>. HIDE DEF h
<1>. QED BY <1>1, <1>2

\* The least number principle, for a set of numbers.
LEMMA Least ==
    ASSUME NEW S \in SUBSET Nat, S # {}
    PROVE  \E m \in S : \A k \in Nat : k < m => k \notin S
<1>1. PICK m \in S : \A k \in S : ~(<<k, m>> \in OpToRel(<, Nat))
    BY NatLessThanWellFounded, WFMin
<1>. QED BY <1>1 DEF OpToRel

\* They are the same whatever number of levels follows.
LEMMA ApproxUnique ==
    ASSUME NEW n \in Nat, NEW m \in Nat, n =< m, NEW g, Approx(g, n), NEW h, Approx(h, m)
    PROVE  \A i \in 0 .. n : g[i] = h[i]
<1>. DEFINE S == {i \in 0 .. n : g[i] # h[i]}
<1>. SUFFICES ASSUME S # {} PROVE FALSE
    OBVIOUS
<1>0. S \in SUBSET Nat
    OBVIOUS
<1>1. PICK i \in S : \A k \in Nat : k < i => k \notin S
    <2>. HIDE DEF S
    <2>. QED BY <1>0, Least
<1>2. /\ g[0] = Base /\ \A j \in 1 .. n : g[j] = Up(g[j - 1])
      /\ h[0] = Base /\ \A j \in 1 .. m : h[j] = Up(h[j - 1])
    BY ApproxValue
<1>3. i # 0 /\ i \in 1 .. n
    BY <1>2
<1>4. i - 1 \in 0 .. n /\ i - 1 < i /\ i - 1 \in Nat
    BY <1>3
<1>5. g[i - 1] = h[i - 1]
    BY <1>1, <1>4
<1>6. i \in 1 .. m
    BY <1>3
<1>. QED BY <1>2, <1>3, <1>5, <1>6

\* There are any number of levels.
LEMMA ApproxExists == \A n \in Nat : \E g : Approx(g, n)
<1>. DEFINE S == {n \in Nat : ~ \E g : Approx(g, n)}
<1>. SUFFICES ASSUME S # {} PROVE FALSE
    OBVIOUS
<1>1. PICK n \in S : \A k \in Nat : k < n => k \notin S
    BY Least
<1>2. n # 0
    <2>1. Approx([i \in 0 .. 0 |-> Base], 0)
        BY DEF Approx
    <2>. QED BY <2>1
<1>3. n - 1 \in Nat /\ n - 1 < n
    BY <1>2
<1>4. PICK g : Approx(g, n - 1)
    BY <1>1, <1>3
<1>. DEFINE h == [i \in 0 .. n |-> IF i = 0 THEN Base ELSE Up(g[i - 1])]
<1>5. /\ g[0] = Base /\ \A j \in 1 .. n - 1 : g[j] = Up(g[j - 1])
    BY <1>3, <1>4, ApproxValue
<1>6. \A j \in 0 .. n - 1 : h[j] = g[j]
    BY <1>3, <1>5
<1>7. h = [i \in 0 .. n |-> IF i = 0 THEN Base ELSE Up(h[i - 1])]
    <2>1. \A i \in 0 .. n : (IF i = 0 THEN Base ELSE Up(g[i - 1])) = (IF i = 0 THEN Base ELSE Up(h[i - 1]))
        <3>. SUFFICES ASSUME NEW i \in 0 .. n, i # 0 PROVE Up(g[i - 1]) = Up(h[i - 1])
            OBVIOUS
        <3>1. i - 1 \in 0 .. n - 1
            OBVIOUS
        <3>2. h[i - 1] = g[i - 1]
            BY <3>1, <1>6
        <3>. HIDE DEF h
        <3>. QED BY <3>2
    <2>. QED BY <2>1, Zenon
<1>8. Approx(h, n)
    BY <1>7 DEF Approx
<1>. QED BY <1>8

\* The recursive definition defines what it says: it holds the values its
\* equation gives, for any Base and Up.
THEOREM LevelDef ==
    /\ Level[0] = Base
    /\ \A n \in Nat : Level[n + 1] = Up(Level[n])
<1>. DEFINE G(n) == CHOOSE g : Approx(g, n)
            F == [n \in Nat |-> G(n)[n]]
<1>1. \A n \in Nat : Approx(G(n), n)
    BY ApproxExists
<1>. HIDE DEF G
<1>2. \A n \in Nat : G(n)[0] = Base /\ \A i \in 1 .. n : G(n)[i] = Up(G(n)[i - 1])
    BY <1>1, ApproxValue
<1>3. ASSUME NEW n \in Nat, n # 0 PROVE F[n] = Up(F[n - 1])
    <2>1. n - 1 \in Nat /\ n - 1 =< n /\ n - 1 \in 0 .. n - 1 /\ n \in 1 .. n
        BY <1>3
    <2>2. G(n - 1)[n - 1] = G(n)[n - 1]
        BY <1>1, <2>1, ApproxUnique
    <2>3. F[n] = G(n)[n] /\ F[n - 1] = G(n - 1)[n - 1]
        BY <2>1
    <2>4. G(n)[n] = Up(G(n)[n - 1])
        BY <1>2, <2>1
    <2>. QED BY <2>2, <2>3, <2>4
<1>4. F = [n \in Nat |-> IF n = 0 THEN Base ELSE Up(F[n - 1])]
    <2>1. F[0] = Base
        BY <1>2
    <2>. HIDE DEF F
    <2>2. \A n \in Nat : F[n] = IF n = 0 THEN Base ELSE Up(F[n - 1])
        BY <1>3, <2>1
    <2>3. F = [n \in Nat |-> F[n]]
        BY DEF F
    <2>. QED BY <2>2, <2>3, Zenon
<1>. HIDE DEF F
<1>5. Level = [n \in Nat |-> IF n = 0 THEN Base ELSE Up(Level[n - 1])]
    BY <1>4, Zenon DEF Level
<1>6. \A n \in Nat : Level[n] = IF n = 0 THEN Base ELSE Up(Level[n - 1])
    <2>. DEFINE R == [n \in Nat |-> IF n = 0 THEN Base ELSE Up(Level[n - 1])]
    <2>1. \A n \in Nat : R[n] = IF n = 0 THEN Base ELSE Up(Level[n - 1])
        OBVIOUS
    <2>2. Level = R
        BY <1>5
    <2>. HIDE DEF R
    <2>. QED BY <2>1, <2>2
<1>7. Level[0] = Base
    BY <1>6
<1>8. ASSUME NEW n \in Nat PROVE Level[n + 1] = Up(Level[n])
    <2>1. n + 1 \in Nat /\ n + 1 # 0 /\ (n + 1) - 1 = n
        OBVIOUS
    <2>. QED BY <2>1, <1>6
<1>. QED BY <1>7, <1>8

\* What holds at level 0, and at a level after each at which it holds, holds at
\* every level.
THEOREM Induction ==
    ASSUME NEW S \in SUBSET Nat, 0 \in S, \A n \in S : n + 1 \in S
    PROVE  \A n \in Nat : n \in S
<1>. DEFINE T == Nat \ S
<1>. SUFFICES ASSUME T # {} PROVE FALSE
    OBVIOUS
<1>0. T \in SUBSET Nat
    OBVIOUS
<1>1. PICK m \in T : \A k \in Nat : k < m => k \notin T
    <2>. HIDE DEF T
    <2>. QED BY <1>0, Least
<1>2. m # 0 /\ m \in Nat
    OBVIOUS
<1>3. m - 1 \in Nat /\ m - 1 < m /\ (m - 1) + 1 = m
    BY <1>2
<1>4. m - 1 \in S
    BY <1>1, <1>3
<1>. QED BY <1>3, <1>4
=============================================================================
