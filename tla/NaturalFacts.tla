---------------------------- MODULE NaturalFacts ----------------------------
(***************************************************************************)
(* Facts about sets of natural numbers that several proofs need: a row has *)
(* an oldest, a list a first, a table a newest.                            *)
(***************************************************************************)
EXTENDS FiniteSetTheorems, TLAPS

\* A nonempty set of natural numbers has a least element.
LEMMA LeastElement ==
    ASSUME NEW S \in SUBSET Nat, S # {}
    PROVE  \E m \in S : \A n \in S : m <= n
<1>. DEFINE Below(n) == {k \in S : k <= n}
            F == {Below(n) : n \in S}
<1>1. F \subseteq FiniteSubsetsOf(S)
  <2>. SUFFICES ASSUME NEW n \in S
                PROVE  Below(n) \in SUBSET S /\ IsFiniteSet(Below(n))
    BY DEF FiniteSubsetsOf
  <2>1. \A k \in S : k <= n => k \in 0 .. n
    OBVIOUS
  <2>2. Below(n) \in SUBSET (0 .. n)
    BY <2>1
  <2>3. IsFiniteSet(0 .. n)
    BY FS_Interval
  <2>4. IsFiniteSet(Below(n))
    BY <2>2, <2>3, FS_Subset
  <2>. QED  BY <2>4
<1>2. PICK T \in F : \A U \in F : <<U, T>> \notin StrictSubsetOrdering(S)
  <2>1. F # {}
    OBVIOUS
  <2>. HIDE DEF F
  <2>. QED  BY <1>1, <2>1, FS_StrictSubsetOrderingWellFounded, WFMin
<1>3. PICK m \in S : T = Below(m)
  BY <1>2
<1>4. ASSUME NEW n \in S, n < m
      PROVE  FALSE
  <2>1. Below(n) \in F
    OBVIOUS
  <2>2. Below(n) \subseteq Below(m) /\ m \in Below(m) /\ m \notin Below(n)
    <3>1. \A k \in S : k <= n => k <= m
      BY <1>4
    <3>2. m <= m /\ ~(m <= n)
      BY <1>4
    <3>. QED  BY <3>1, <3>2
  <2>3. <<Below(n), Below(m)>> \in StrictSubsetOrdering(S)
    BY <2>2 DEF StrictSubsetOrdering
  <2>. QED  BY <1>2, <1>3, <2>1, <2>3
<1>. QED  BY <1>4

\* Induction up to n, for a set in the place of a property.
LEMMA IntervalInduction ==
    ASSUME NEW n \in Nat, NEW S, 0 \in S, \A i \in Nat : i < n /\ i \in S => i + 1 \in S
    PROVE  0 .. n \subseteq S
<1>. DEFINE Bad == {i \in 0 .. n : i \notin S}
<1>1. CASE Bad = {}
  BY <1>1
<1>2. CASE Bad # {}
  <2>1. Bad \in SUBSET Nat
    OBVIOUS
  <2>2. PICK m \in Bad : \A i \in Bad : m <= i
    <3>. HIDE DEF Bad
    <3>. QED  BY <1>2, <2>1, LeastElement
  <2>3. m \in 0 .. n /\ m \notin S /\ m # 0
    OBVIOUS
  <2>4. m - 1 \in Nat /\ m - 1 < n /\ m - 1 \in 0 .. n /\ ~(m <= m - 1)
    BY <2>3
  <2>5. m - 1 \in S
    BY <2>2, <2>4
  <2>6. (m - 1) + 1 \in S
    BY <2>4, <2>5
  <2>7. (m - 1) + 1 = m
    BY <2>3
  <2>. QED  BY <2>3, <2>6, <2>7
<1>. QED  BY <1>1, <1>2
=============================================================================
