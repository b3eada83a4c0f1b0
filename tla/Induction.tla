------------------------------ MODULE Induction ------------------------------
(***************************************************************************)
(* Induction on the natural numbers, said of sets rather than of           *)
(* predicates, so that the provers can use it: a set of numbers that has 0 *)
(* and, with each number, the next has them all.                           *)
(***************************************************************************)
EXTENDS Integers, WellFoundedInduction, TLAPS

\* Every set of natural numbers that is not empty has a least one.
LEMMA LeastNatural ==
    ASSUME NEW T, T \subseteq Nat, T # {}
    PROVE  \E m \in T : \A k \in T : m <= k
<1> DEFINE Less == {pair \in Nat \X Nat : pair[1] < pair[2]}
<1>1. IsWellFoundedOn(Less, Nat)
  BY NatLessThanWellFounded DEF OpToRel
<1>2. \A x, y \in Nat : <<x, y>> \in Less <=> x < y
  OBVIOUS
<1> HIDE DEF Less
<1>3. PICK m \in T : \A k \in T : ~ (<<k, m>> \in Less)
  BY <1>1, WFMin
<1>4. \A k \in T : k \in Nat /\ m \in Nat
  OBVIOUS
<1>5. \A k \in T : ~ (k < m)
  BY <1>2, <1>3, <1>4
<1>6. QED
  BY <1>4, <1>5

\* Induction over 0 .. n.
LEMMA InductionUpTo ==
    ASSUME NEW n \in Nat, NEW T, 0 \in T, \A k \in 0 .. n - 1 : k \in T => k + 1 \in T
    PROVE  \A k \in 0 .. n : k \in T
<1> DEFINE Missing == {k \in 0 .. n : k \notin T}
<1>1. SUFFICES ASSUME Missing # {} PROVE FALSE
  OBVIOUS
<1>2. PICK m \in Missing : \A k \in Missing : m <= k
  <2>1. Missing \subseteq Nat
    OBVIOUS
  <2> HIDE DEF Missing
  <2>2. QED
    BY <1>1, <2>1, LeastNatural
<1>3. m \in 1 .. n /\ m \notin T
  OBVIOUS
<1>4. m - 1 \in 0 .. n - 1 /\ m - 1 \notin Missing
  BY <1>2, <1>3
<1>5. QED
  BY <1>3, <1>4

\* Induction over all natural numbers.
LEMMA InductionOnNat ==
    ASSUME NEW T, 0 \in T, \A k \in Nat : k \in T => k + 1 \in T
    PROVE  \A k \in Nat : k \in T
<1>1. SUFFICES ASSUME NEW n \in Nat PROVE n \in T
  OBVIOUS
<1>2. \A k \in 0 .. n - 1 : k \in T => k + 1 \in T
  OBVIOUS
<1>3. QED
  BY <1>2, InductionUpTo

\* The first n + 1 of s, f[s], f[f[s]], ...
Iterates(run, S, f, s, n) ==
    /\ run \in [0 .. n -> S]
    /\ run[0] = s
    /\ \A k \in 0 .. n - 1 : run[k + 1] = f[run[k]]

\* There are as many as one likes.
LEMMA IteratesExist ==
    ASSUME NEW S, NEW f \in [S -> S], NEW s \in S
    PROVE  \A n \in Nat : \E run : Iterates(run, S, f, s, n)
<1> DEFINE Reached == {n \in Nat : \E run : Iterates(run, S, f, s, n)}
<1>1. 0 \in Reached
  <2> DEFINE run == [k \in 0 .. 0 |-> s]
  <2>1. Iterates(run, S, f, s, 0)
    BY DEF Iterates
  <2>2. QED
    BY <2>1
<1>2. ASSUME NEW n \in Nat, n \in Reached PROVE n + 1 \in Reached
  <2>1. PICK run : Iterates(run, S, f, s, n)
    BY <1>2
  <2> DEFINE next == [k \in 0 .. n + 1 |-> IF k \in 0 .. n THEN run[k] ELSE f[run[n]]]
  <2>2. run \in [0 .. n -> S] /\ f[run[n]] \in S
    BY <2>1 DEF Iterates
  <2>3. next \in [0 .. n + 1 -> S] /\ next[0] = s
    BY <2>1, <2>2 DEF Iterates
  <2>4. ASSUME NEW k \in 0 .. n PROVE next[k + 1] = f[next[k]]
    <3>1. CASE k = n
      BY <3>1
    <3>2. CASE k # n
      <4>1. k \in 0 .. n - 1 /\ k + 1 \in 0 .. n
        BY <3>2
      <4>2. QED
        BY <2>1, <4>1 DEF Iterates
    <3>3. QED
      BY <3>1, <3>2
  <2>5. Iterates(next, S, f, s, n + 1)
    BY <2>3, <2>4 DEF Iterates
  <2>6. QED
    BY <2>5
<1>3. \A n \in Nat : n \in Reached
  <2> HIDE DEF Reached
  <2>1. QED
    BY <1>1, <1>2, InductionOnNat
<1>4. QED
  BY <1>3

\* Two runs agree as far as both go.
LEMMA IteratesAgree ==
    ASSUME NEW S, NEW f \in [S -> S], NEW s \in S, NEW m \in Nat, NEW n \in Nat, m <= n,
           NEW run, Iterates(run, S, f, s, m), NEW longer, Iterates(longer, S, f, s, n)
    PROVE  \A k \in 0 .. m : run[k] = longer[k]
<1> DEFINE Agreed == {k \in 0 .. m : run[k] = longer[k]}
<1>1. 0 \in Agreed
  BY DEF Iterates
<1>2. ASSUME NEW k \in 0 .. m - 1, k \in Agreed PROVE k + 1 \in Agreed
  BY <1>2 DEF Iterates
<1>3. \A k \in 0 .. m : k \in Agreed
  <2> HIDE DEF Agreed
  <2>1. QED
    BY <1>1, <1>2, InductionUpTo
<1>4. QED
  BY <1>3

\* All of s, f[s], f[f[s]], ...
Orbit(at, S, f, s) ==
    /\ at \in [Nat -> S]
    /\ at[0] = s
    /\ \A k \in Nat : at[k + 1] = f[at[k]]

\* A function can be applied over and over.
LEMMA Iteration ==
    ASSUME NEW S, NEW f, f \in [S -> S], NEW s, s \in S
    PROVE  \E at : Orbit(at, S, f, s)
<1> DEFINE Run(n) == CHOOSE run : Iterates(run, S, f, s, n)
           at == [n \in Nat |-> Run(n)[n]]
<1>1. \A n \in Nat : Iterates(Run(n), S, f, s, n)
  BY IteratesExist
<1> HIDE DEF Run
<1>2. at \in [Nat -> S] /\ at[0] = s
  BY <1>1 DEF Iterates
<1>3. ASSUME NEW k \in Nat PROVE at[k + 1] = f[at[k]]
  <2>1. Iterates(Run(k), S, f, s, k) /\ Iterates(Run(k + 1), S, f, s, k + 1)
    BY <1>1
  <2>2. Run(k)[k] = Run(k + 1)[k]
    BY <2>1, IteratesAgree
  <2>3. Run(k + 1)[k + 1] = f[Run(k + 1)[k]]
    BY <2>1 DEF Iterates
  <2>4. QED
    BY <2>2, <2>3
<1>4. Orbit(at, S, f, s)
  BY <1>2, <1>3 DEF Orbit
<1>5. QED
  BY <1>4

\* walk tells what there is at the first place of stop on the way by f.
Walks(walk, S, f, stop, val) ==
    walk = [s \in S |-> IF s \in stop THEN val[s] ELSE walk[f[s]]]

\* There is such a function, also when some places never lead to one of stop.
LEMMA WalkExists ==
    ASSUME NEW S, NEW f, f \in [S -> S], NEW stop, NEW val
    PROVE  \E walk : Walks(walk, S, f, stop, val)
<1> DEFINE At(s) == CHOOSE at : Orbit(at, S, f, s)
           Hits(s) == {k \in Nat : At(s)[k] \in stop}
           First(s) == CHOOSE k \in Hits(s) : \A j \in Hits(s) : k <= j
           walk == [s \in S |-> IF Hits(s) = {} THEN 0 ELSE val[At(s)[First(s)]]]
<1>1. \A s \in S : Orbit(At(s), S, f, s)
  BY Iteration
<1>2. ASSUME NEW s \in S PROVE \A k \in Nat : At(f[s])[k] = At(s)[k + 1]
  <2> DEFINE Same == {k \in Nat : At(f[s])[k] = At(s)[k + 1]}
  <2>1. f[s] \in S /\ Orbit(At(s), S, f, s) /\ Orbit(At(f[s]), S, f, f[s])
    BY <1>1
  <2> HIDE DEF At
  <2>2. 0 \in Same
    BY <2>1 DEF Orbit
  <2>3. ASSUME NEW k \in Nat, k \in Same PROVE k + 1 \in Same
    BY <2>1, <2>3 DEF Orbit
  <2>4. \A k \in Nat : k \in Same
    <3> HIDE DEF Same
    <3>1. QED
      BY <2>2, <2>3, InductionOnNat
  <2>5. QED
    BY <2>4
<1>3. ASSUME NEW s \in S, NEW m \in Hits(s), \A j \in Hits(s) : m <= j PROVE First(s) = m
  <2>1. \A k \in Hits(s) : (\A j \in Hits(s) : k <= j) => k = m
    <3>1. \A k \in Hits(s) : k \in Int
      OBVIOUS
    <3> HIDE DEF Hits
    <3>2. QED
      BY <1>3, <3>1
  <2> HIDE DEF Hits
  <2>2. QED
    BY <1>3, <2>1
<1>4. ASSUME NEW s \in S, s \in stop PROVE walk[s] = val[s]
  <2>1. At(s)[0] = s
    BY <1>1 DEF Orbit
  <2>2. 0 \in Hits(s) /\ \A j \in Hits(s) : 0 <= j
    BY <1>4, <2>1
  <2>3. First(s) = 0
    <3> HIDE DEF Hits, First
    <3>1. QED
      BY <1>3, <2>2
  <2> HIDE DEF At, Hits, First
  <2>4. QED
    BY <2>1, <2>2, <2>3
<1>5. ASSUME NEW s \in S, s \notin stop PROVE walk[s] = walk[f[s]]
  <2>1. At(s)[0] = s /\ f[s] \in S
    BY <1>1 DEF Orbit
  <2> HIDE DEF At
  <2>2. \A k \in Nat : k \in Hits(f[s]) <=> k + 1 \in Hits(s)
    BY <1>2
  <2>3. \A k \in Hits(s) : k \in Nat /\ k - 1 \in Nat /\ (k - 1) + 1 = k
    BY <1>5, <2>1
  <2>4. \A t : Hits(t) \subseteq Nat
    OBVIOUS
  <2> HIDE DEF Hits
  <2>5. Hits(s) = {} <=> Hits(f[s]) = {}
    BY <2>2, <2>3, <2>4
  <2>6. CASE Hits(s) # {}
    <3>1. PICK m \in Hits(f[s]) : \A j \in Hits(f[s]) : m <= j
      BY <2>4, <2>5, <2>6, LeastNatural
    <3>2. m + 1 \in Hits(s) /\ m \in Nat
      BY <2>2, <2>4, <3>1
    <3>3. \A j \in Hits(s) : m + 1 <= j
      <4>1. SUFFICES ASSUME NEW j \in Hits(s) PROVE m + 1 <= j
        OBVIOUS
      <4>2. j - 1 \in Hits(f[s]) /\ j \in Nat
        BY <2>2, <2>3
      <4>3. m <= j - 1
        BY <3>1, <4>2
      <4>4. QED
        BY <3>2, <4>2, <4>3
    <3>4. First(s) = m + 1 /\ First(f[s]) = m
      <4> HIDE DEF First
      <4>1. QED
        BY <1>3, <2>1, <3>1, <3>2, <3>3
    <3> HIDE DEF First
    <3>5. At(s)[First(s)] = At(f[s])[First(f[s])]
      BY <1>2, <3>2, <3>4
    <3>6. QED
      BY <2>1, <2>5, <2>6, <3>5
  <2>7. CASE Hits(s) = {}
    BY <2>1, <2>5, <2>7
  <2>8. QED
    BY <2>6, <2>7
<1> HIDE DEF walk
<1>6. walk = [s \in S |-> IF s \in stop THEN val[s] ELSE walk[f[s]]]
  <2>1. walk = [s \in S |-> walk[s]]
    BY DEF walk
  <2>2. \A s \in S : walk[s] = IF s \in stop THEN val[s] ELSE walk[f[s]]
    BY <1>4, <1>5
  <2>3. QED
    BY <2>1, <2>2
<1>7. QED
  BY <1>6 DEF Walks
=============================================================================
