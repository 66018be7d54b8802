-------------------------- MODULE SequenceInduction ---------------------------
(***************************************************************************)
(* Induction on the natural numbers, in a form the provers can use: over   *)
(* the set of the numbers that have the property, from the well-founded    *)
(* order that the library proves.  With it, what FlattenSeq of the         *)
(* community modules yields, whose definition recurs over the index.       *)
(***************************************************************************)
EXTENDS Integers, SequencesExt, WellFoundedInduction, TLAPS

(* A set of natural numbers that is not empty has a least member.          *)
LEMMA NatLeast ==
    ASSUME NEW T, T \subseteq Nat, T # {}
    PROVE  \E m \in T : \A k \in T : m <= k
<1> DEFINE R == {ss \in Nat \X Nat : ss[1] < ss[2]}
<1>1. IsWellFoundedOn(R, Nat)
  BY NatLessThanWellFounded, Zenon DEF OpToRel
<1> HIDE DEF R
<1>2. PICK m \in T : \A k \in T : ~(<<k, m>> \in R)
  BY <1>1, WFMin
<1>3. \A k \in T : m <= k
  <2> SUFFICES ASSUME NEW k \in T PROVE m <= k
    OBVIOUS
  <2>1. ~(<<k, m>> \in R)
    BY <1>2
  <2>2. k \in Nat /\ m \in Nat
    OBVIOUS
  <2> QED BY <2>1, <2>2 DEF R
<1> QED BY <1>3

(* A set of natural numbers that holds 0 and every successor is Nat.       *)
LEMMA NatInduct ==
    ASSUME NEW S, S \subseteq Nat, 0 \in S, \A n \in S : n + 1 \in S
    PROVE  S = Nat
<1> SUFFICES ASSUME S # Nat PROVE FALSE
  OBVIOUS
<1>1. PICK m \in Nat \ S : \A k \in Nat \ S : m <= k
  <2>1. Nat \ S # {} /\ Nat \ S \subseteq Nat
    OBVIOUS
  <2> QED BY <2>1, NatLeast
<1>2. m - 1 \in Nat /\ m - 1 \in S
  BY <1>1
<1> QED BY <1>1, <1>2

------------------------------------------------------------------------------
(* f[i] joins the first i members of s, for i up to n.                     *)
Flattening(s, n, f) ==
    f = [i \in 1..n |-> IF i = 1 THEN s[i] ELSE f[i - 1] \o s[i]]

(* The equation of FlattenSeq has a solution.                              *)
LEMMA FlatteningExists ==
    ASSUME NEW s
    PROVE  \A n \in Nat : \E f : Flattening(s, n, f)
<1> DEFINE S == {n \in Nat : \E f : Flattening(s, n, f)}
<1>1. 0 \in S
  <2>1. Flattening(s, 0, [i \in 1..0 |-> i])
    BY DEF Flattening
  <2> QED BY <2>1
<1>2. ASSUME NEW n \in S PROVE n + 1 \in S
  <2>1. PICK f : Flattening(s, n, f)
    OBVIOUS
  <2> DEFINE g == [i \in 1..(n + 1) |-> IF i = 1 THEN s[i] ELSE f[i - 1] \o s[i]]
  <2>2. Flattening(s, n + 1, g)
    <3>1. \A i \in 1..n : f[i] = IF i = 1 THEN s[i] ELSE f[i - 1] \o s[i]
      BY <2>1 DEF Flattening
    <3>2. \A i \in 1..n : g[i] = f[i]
      BY <3>1
    <3>3. \A i \in 1..(n + 1) : i # 1 => i - 1 \in 1..n
      OBVIOUS
    <3>4. \A i \in 1..(n + 1) : (IF i = 1 THEN s[i] ELSE f[i - 1] \o s[i])
                                   = IF i = 1 THEN s[i] ELSE g[i - 1] \o s[i]
      BY <3>2, <3>3
    <3> HIDE DEF g
    <3>5. g = [i \in 1..(n + 1) |-> IF i = 1 THEN s[i] ELSE f[i - 1] \o s[i]]
      BY DEF g
    <3>6. g = [i \in 1..(n + 1) |-> IF i = 1 THEN s[i] ELSE g[i - 1] \o s[i]]
      BY <3>4, <3>5
    <3> QED BY <3>6 DEF Flattening
  <2> QED BY <2>2
<1> HIDE DEF S
<1>3. S = Nat
  <2>1. S \subseteq Nat
    BY DEF S
  <2> QED BY <1>1, <1>2, <2>1, NatInduct
<1> QED BY <1>3 DEF S

(* FlattenSeq joins the members of s from the first to the last.           *)
LEMMA FlattenSeqIs ==
    ASSUME NEW s, Len(s) \in Nat \ {0}
    PROVE  \E f : /\ \A i \in 1..Len(s) : f[i] = IF i = 1 THEN s[i] ELSE f[i - 1] \o s[i]
                  /\ FlattenSeq(s) = f[Len(s)]
<1> DEFINE f == CHOOSE f : Flattening(s, Len(s), f)
<1>1. Flattening(s, Len(s), f)
  BY FlatteningExists
<1>2. FlattenSeq(s) = f[Len(s)]
  BY DEF FlattenSeq, Flattening
<1> QED BY <1>1, <1>2 DEF Flattening

(* It joins them one by one, and yields a sequence over X when they are.   *)
LEMMA FlattenSeqSteps ==
    ASSUME NEW X, NEW s \in Seq(Seq(X))
    PROVE  \E f : /\ f[0] = <<>> /\ FlattenSeq(s) = f[Len(s)]
                  /\ \A i \in 1..Len(s) : f[i] = f[i - 1] \o s[i]
                  /\ \A i \in 0..Len(s) : f[i] \in Seq(X)
<1>1. Len(s) \in Nat /\ \A i \in 1..Len(s) : s[i] \in Seq(X)
  OBVIOUS
<1>2. PICK g : /\ \A i \in 1..Len(s) : g[i] = IF i = 1 THEN s[i] ELSE g[i - 1] \o s[i]
               /\ Len(s) # 0 => FlattenSeq(s) = g[Len(s)]
  <2>1. CASE Len(s) = 0
    BY <2>1
  <2>2. CASE Len(s) # 0
    <3>1. Len(s) \in Nat \ {0}
      BY <1>1, <2>2
    <3> QED BY <3>1, FlattenSeqIs
  <2> QED BY <2>1, <2>2
<1> DEFINE f == [i \in 0..Len(s) |-> IF i = 0 THEN <<>> ELSE g[i]]
<1>3. /\ f[0] = <<>>
      /\ \A i \in 1..Len(s) : f[i] = g[i]
  BY <1>1
<1> HIDE DEF f
<1>4. FlattenSeq(s) = f[Len(s)]
  <2>1. CASE Len(s) = 0
    <3>1. s = <<>>
      BY <2>1
    <3>2. FlattenSeq(s) = <<>>
      BY <2>1, <3>1, Zenon DEF FlattenSeq
    <3> QED BY <1>3, <2>1, <3>2
  <2>2. CASE Len(s) # 0
    BY <1>1, <1>2, <1>3, <2>2
  <2> QED BY <2>1, <2>2
<1>5. \A n \in 0..(Len(s) - 1) : f[n] \in Seq(X) => f[n + 1] = f[n] \o s[n + 1]
  <2> TAKE n \in 0..(Len(s) - 1)
  <2> HAVE f[n] \in Seq(X)
  <2>1. n + 1 \in 1..Len(s) /\ (n + 1) - 1 = n /\ s[n + 1] \in Seq(X)
    BY <1>1
  <2>2. CASE n = 0
    <3>1. f[n + 1] = s[n + 1] /\ f[n] = <<>>
      BY <1>2, <1>3, <2>1, <2>2
    <3>2. <<>> \o s[n + 1] = s[n + 1]
      BY <2>1
    <3> QED BY <3>1, <3>2
  <2>3. CASE n # 0
    <3>1. n \in 1..Len(s) /\ n + 1 # 1
      BY <2>3
    <3>2. f[n] = g[n] /\ f[n + 1] = g[n + 1]
      BY <1>3, <2>1, <3>1
    <3>3. g[n + 1] = g[n] \o s[n + 1]
      BY <1>2, <2>1, <3>1
    <3> QED BY <3>2, <3>3
  <2> QED BY <2>2, <2>3
<1> DEFINE S == {n \in Nat : n \in 0..Len(s) => f[n] \in Seq(X)}
<1>6. 0 \in S
  <2>1. <<>> \in Seq(X)
    OBVIOUS
  <2> QED BY <1>3, <2>1
<1>7. ASSUME NEW n \in S, n + 1 \in 0..Len(s) PROVE f[n + 1] \in Seq(X)
  <2>1. n \in 0..(Len(s) - 1) /\ n + 1 \in 1..Len(s) /\ n \in 0..Len(s)
    BY <1>1, <1>7
  <2>2. f[n] \in Seq(X) /\ s[n + 1] \in Seq(X)
    BY <1>1, <2>1
  <2>3. f[n + 1] = f[n] \o s[n + 1]
    BY <1>5, <2>1, <2>2
  <2> QED BY <2>2, <2>3
<1>8. ASSUME NEW n \in S PROVE n + 1 \in S
  <2>1. n + 1 \in Nat
    OBVIOUS
  <2> QED BY <1>7, <2>1
<1> HIDE DEF S
<1>9. S = Nat
  <2>1. S \subseteq Nat
    BY DEF S
  <2> QED BY <1>6, <1>8, <2>1, NatInduct
<1>10. \A i \in 0..Len(s) : f[i] \in Seq(X)
  <2> TAKE i \in 0..Len(s)
  <2>1. i \in S
    BY <1>1, <1>9
  <2> QED BY <2>1 DEF S
<1>11. \A i \in 1..Len(s) : f[i] = f[i - 1] \o s[i]
  <2> TAKE i \in 1..Len(s)
  <2>1. i - 1 \in 0..(Len(s) - 1) /\ i - 1 \in 0..Len(s) /\ (i - 1) + 1 = i
    BY <1>1
  <2>2. f[i - 1] \in Seq(X)
    BY <1>10, <2>1
  <2>3. f[(i - 1) + 1] = f[i - 1] \o s[(i - 1) + 1]
    BY <1>5, <2>1, <2>2
  <2> QED BY <2>1, <2>3
<1> QED BY <1>3, <1>4, <1>10, <1>11

(* In particular, it yields a sequence over X.                             *)
LEMMA FlattenSeqType ==
    ASSUME NEW X, NEW s \in Seq(Seq(X))
    PROVE  FlattenSeq(s) \in Seq(X)
<1>1. Len(s) \in 0..Len(s)
  OBVIOUS
<1> QED BY <1>1, FlattenSeqSteps
==============================================================================
