------------------------------- MODULE Pages -------------------------------
(***************************************************************************)
(* Pages of a finite set in an order: the lemmas on which the exactness of *)
(* every paged listing rests.                                              *)
(***************************************************************************)
EXTENDS FiniteSetTheorems, WellFoundedInduction, TLAPS

(* R orders S strictly; <<s, t>> means that s comes before t.               *)
Orders(R, S) ==
  /\ \A s \in S : <<s, s>> \notin R
  /\ \A s, t \in S : s # t => <<s, t>> \in R \/ <<t, s>> \in R
  /\ \A s, t, u \in S : <<s, t>> \in R /\ <<t, u>> \in R => <<s, u>> \in R

Ahead(R, S, s) == {t \in S : <<t, s>> \in R}

(* A set of natural numbers that is not empty has a least member.           *)
LEMMA LeastNat ==
  ASSUME NEW T, T \subseteq Nat, T # {}
  PROVE  \E x \in T : \A y \in T : x <= y
<1>1. PICK x \in T : \A y \in T : ~ (<<y, x>> \in OpToRel(<, Nat))
  BY NatLessThanWellFounded, WFMin
<1>2. \A y \in T : ~ (y < x)
  BY <1>1 DEF OpToRel
<1> QED
  BY <1>2

(* The sets of what is ahead are finite, and grow along the order.          *)
LEMMA AheadGrows ==
  ASSUME NEW S, NEW R, IsFiniteSet(S), Orders(R, S)
  PROVE  /\ \A s \in S : Cardinality(Ahead(R, S, s)) \in Nat
         /\ \A s, t \in S : <<s, t>> \in R =>
              Cardinality(Ahead(R, S, s)) < Cardinality(Ahead(R, S, t))
<1>1. \A s : /\ Ahead(R, S, s) \in SUBSET S /\ IsFiniteSet(Ahead(R, S, s))
             /\ Cardinality(Ahead(R, S, s)) \in Nat
  BY FS_Subset, FS_CardinalityType DEF Ahead
<1>2. ASSUME NEW s \in S, NEW t \in S, <<s, t>> \in R
      PROVE  Cardinality(Ahead(R, S, s)) < Cardinality(Ahead(R, S, t))
  <2>1. Ahead(R, S, s) \in SUBSET Ahead(R, S, t)
    BY <1>2 DEF Ahead, Orders
  <2>2. s \in Ahead(R, S, t) /\ s \notin Ahead(R, S, s)
    BY <1>2 DEF Ahead, Orders
  <2>3. /\ Cardinality(Ahead(R, S, s)) <= Cardinality(Ahead(R, S, t))
        /\ Cardinality(Ahead(R, S, s)) # Cardinality(Ahead(R, S, t))
    BY <1>1, <2>1, <2>2, FS_Subset
  <2> QED
    BY <1>1, <2>3
<1> QED
  BY <1>1, <1>2

(* A finite ordered set that is not empty has a first member.               *)
LEMMA FirstMember ==
  ASSUME NEW S, NEW R, IsFiniteSet(S), Orders(R, S), S # {}
  PROVE  \E s \in S : \A t \in S \ {s} : <<s, t>> \in R
<1> DEFINE T == {Cardinality(Ahead(R, S, s)) : s \in S}
<1>1. T \subseteq Nat /\ T # {}
  BY AheadGrows
<1>2. PICK x \in T : \A y \in T : x <= y
  BY <1>1, LeastNat
<1>3. PICK s \in S : x = Cardinality(Ahead(R, S, s))
  OBVIOUS
<1>4. ASSUME NEW t \in S \ {s}, <<t, s>> \in R PROVE FALSE
  <2>1. Cardinality(Ahead(R, S, t)) < Cardinality(Ahead(R, S, s))
    BY <1>4, AheadGrows
  <2>2. /\ Cardinality(Ahead(R, S, s)) <= Cardinality(Ahead(R, S, t))
        /\ Cardinality(Ahead(R, S, s)) \in Nat /\ Cardinality(Ahead(R, S, t)) \in Nat
    BY <1>2, <1>3, AheadGrows
  <2> QED
    BY <2>1, <2>2
<1> QED
  BY <1>4 DEF Orders

(* A last one, too.                                                         *)
LEMMA LastMember ==
  ASSUME NEW S, NEW R, IsFiniteSet(S), Orders(R, S), S # {}
  PROVE  \E s \in S : \A t \in S \ {s} : <<t, s>> \in R
<1> DEFINE Back == {p \in S \X S : <<p[2], p[1]>> \in R}
<1>1. \A s, t \in S : <<s, t>> \in Back <=> <<t, s>> \in R
  OBVIOUS
<1> HIDE DEF Back
<1>2. Orders(Back, S)
  BY <1>1 DEF Orders
<1> QED
  BY <1>1, <1>2, FirstMember

(* A page is what comes first of an ordered set: if something is left over, *)
(* it has a last row, and what is left over comes after that.               *)
LEMMA PageOfOrder ==
  ASSUME NEW S, NEW R, NEW size \in Nat \ {0}, NEW P,
         IsFiniteSet(S), Orders(R, S),
         P = {s \in S : Cardinality(Ahead(R, S, s)) < size}, P # S
  PROVE  \E l \in P : /\ \A t \in P \ {l} : <<t, l>> \in R
                      /\ \A s \in S \ P : <<l, s>> \in R
<1>1. P \in SUBSET S /\ S # {}
  OBVIOUS
<1>2. P # {}
  <2>1. PICK s \in S : \A t \in S \ {s} : <<s, t>> \in R
    BY <1>1, FirstMember
  <2>2. Ahead(R, S, s) = {}
    BY <2>1 DEF Ahead, Orders
  <2>3. Cardinality(Ahead(R, S, s)) = 0
    BY <2>2, FS_EmptySet
  <2> QED
    BY <2>3
<1>3. IsFiniteSet(P) /\ Orders(R, P)
  BY <1>1, FS_Subset DEF Orders
<1>4. PICK l \in P : \A t \in P \ {l} : <<t, l>> \in R
  BY <1>2, <1>3, LastMember
<1>5. ASSUME NEW s \in S \ P PROVE <<l, s>> \in R
  <2>1. <<l, s>> \in R \/ <<s, l>> \in R
    BY <1>1 DEF Orders
  <2>2. ASSUME <<s, l>> \in R PROVE FALSE
    <3>1. Cardinality(Ahead(R, S, s)) < Cardinality(Ahead(R, S, l))
      BY <1>1, <2>2, AheadGrows
    <3>2. /\ Cardinality(Ahead(R, S, s)) \in Nat /\ Cardinality(Ahead(R, S, l)) \in Nat
          /\ Cardinality(Ahead(R, S, l)) < size /\ ~(Cardinality(Ahead(R, S, s)) < size)
      BY <1>1, AheadGrows
    <3> QED
      BY <3>1, <3>2
  <2> QED
    BY <2>1, <2>2
<1> QED
  BY <1>4, <1>5

=============================================================================
