--------------------------- MODULE FiniteNumbers ---------------------------
(* A fact about finite sets of numbers that several of the proofs need.    *)
EXTENDS Naturals, FiniteSets, FiniteSetTheorems, WellFoundedInduction, TLAPS

\* A finite nonempty set of numbers has a maximum: otherwise there is a smallest
\* nonempty subset without one, and it has one element too many.
LEMMA HasMaximum ==
    ASSUME NEW S \in SUBSET Nat, IsFiniteSet(S), S # {}
    PROVE  \E x \in S : \A y \in S : x >= y
<1> DEFINE HasMax(T) == \E x \in T : \A y \in T : x >= y
<1> DEFINE Bad == {T \in SUBSET S : T # {} /\ ~HasMax(T)}
<1>1. ASSUME Bad # {} PROVE FALSE
  <2>1. IsWellFoundedOn(StrictSubsetOrdering(S), FiniteSubsetsOf(S))
    BY FS_StrictSubsetOrderingWellFounded
  <2>2. Bad \subseteq FiniteSubsetsOf(S)
    BY FS_FiniteSubsetsOfFinite
  <2>3. PICK T \in Bad : \A U \in Bad : <<U, T>> \notin StrictSubsetOrdering(S)
    BY <1>1, <2>1, <2>2, WFMin
  <2>4. PICK x \in T : TRUE
    BY <2>3
  <2>5. T \ {x} \notin Bad
    BY <2>3, <2>4 DEF StrictSubsetOrdering
  <2>6. CASE T \ {x} = {}
    <3>1. \A y \in T : x >= y
      BY <2>3, <2>4, <2>6
    <3> QED
      BY <2>3, <2>4, <3>1
  <2>7. CASE HasMax(T \ {x})
    <3>1. PICK z \in T \ {x} : \A y \in T \ {x} : z >= y
      BY <2>7
    <3>2. x \in Nat /\ z \in Nat /\ T \subseteq Nat
      BY <2>3, <2>4, <3>1
    <3>3. CASE z >= x
      BY <2>3, <3>1, <3>2, <3>3
    <3>4. CASE x >= z
      BY <2>3, <2>4, <3>1, <3>2, <3>4
    <3> QED
      BY <3>2, <3>3, <3>4
  <2> QED
    BY <2>3, <2>5, <2>6, <2>7
<1>2. HasMax(S)
  BY <1>1
<1> QED
  BY <1>2
=============================================================================
