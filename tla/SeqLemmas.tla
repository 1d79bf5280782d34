----------------------------- MODULE SeqLemmas -----------------------------
(***************************************************************************)
(* Facts about naturals and sequences that the proofs share.               *)
(***************************************************************************)
EXTENDS Integers, Sequences, SequencesExt, SequenceTheorems,
        WellFoundedInduction, TLAPS

(* Every nonempty set of naturals has a least element. *)
LEMMA LeastNat ==
  ASSUME NEW T \in SUBSET Nat, T # {}
  PROVE  \E m \in T : \A n \in T : m <= n
<1> DEFINE R == OpToRel(<, Nat)
<1>1. \A x, y \in Nat : <<y, x>> \in R <=> y < x
  BY DEF OpToRel
<1>2. IsWellFoundedOn(R, Nat)
  BY NatLessThanWellFounded
<1> HIDE DEF R
<1>3. PICK x \in T : \A y \in T : ~ (<<y, x>> \in R)
  BY <1>2, WFMin
<1>4. ASSUME NEW y \in T
      PROVE  x <= y
  <2>1. ~ (y < x)
    BY <1>1, <1>3
  <2> QED
    BY <2>1
<1> QED
  BY <1>4

(* What SequencesExt's InsertAt and RemoveAt return. *)
LEMMA InsertAtProperties ==
  ASSUME NEW S, NEW s \in Seq(S), NEW e \in S, NEW i \in 1 .. Len(s) + 1
  PROVE  /\ InsertAt(s, i, e) \in Seq(S)
         /\ Len(InsertAt(s, i, e)) = Len(s) + 1
         /\ \A j \in 1 .. Len(s) + 1 :
              InsertAt(s, i, e)[j] = IF j < i THEN s[j]
                                     ELSE IF j = i THEN e ELSE s[j - 1]
<1> DEFINE p == SubSeq(s, 1, i - 1)
           q == SubSeq(s, i, Len(s))
<1>1. /\ p \in Seq(S) /\ Len(p) = i - 1
      /\ \A j \in 1 .. i - 1 : p[j] = s[j]
  BY SubSeqProperties
<1>2. /\ q \in Seq(S) /\ Len(q) = Len(s) - i + 1
      /\ \A j \in 1 .. Len(s) - i + 1 : q[j] = s[i + j - 1]
  BY SubSeqProperties
<1>3. /\ <<e>> \in Seq(S) /\ Len(<<e>>) = 1 /\ <<e>>[1] = e
  OBVIOUS
<1>4. InsertAt(s, i, e) = (p \o <<e>>) \o q
  BY DEF InsertAt
<1> HIDE DEF p, q
<1>5. /\ p \o <<e>> \in Seq(S) /\ Len(p \o <<e>>) = i
      /\ \A j \in 1 .. i - 1 : (p \o <<e>>)[j] = s[j]
      /\ (p \o <<e>>)[i] = e
  BY <1>1, <1>3, ConcatProperties
<1> DEFINE r == p \o <<e>>
<1> HIDE DEF r
<1>6. /\ r \in Seq(S) /\ Len(r) = i
      /\ \A j \in 1 .. i - 1 : r[j] = s[j]
      /\ r[i] = e
  BY <1>5 DEF r
<1> DEFINE t == r \o q
<1>7. /\ t \in Seq(S) /\ Len(t) = i + Len(q)
      /\ \A j \in 1 .. i + Len(q) : t[j] = IF j <= i THEN r[j] ELSE q[j - i]
  BY <1>2, <1>6, ConcatProperties
<1>8. InsertAt(s, i, e) = t
  BY <1>4 DEF r
<1> HIDE DEF t
<1>9. ASSUME NEW j \in 1 .. Len(s) + 1
      PROVE  t[j] = IF j < i THEN s[j] ELSE IF j = i THEN e ELSE s[j - 1]
  <2>1. j \in 1 .. i + Len(q)
    BY <1>2
  <2>2. CASE j <= i
    BY <2>1, <2>2, <1>6, <1>7
  <2>3. CASE j > i
    <3>1. t[j] = q[j - i]
      BY <2>1, <2>3, <1>7
    <3>2. j - i \in 1 .. Len(s) - i + 1
      BY <2>3
    <3>3. q[j - i] = s[i + (j - i) - 1]
      BY <3>2, <1>2
    <3>4. i + (j - i) - 1 = j - 1
      OBVIOUS
    <3>5. t[j] = s[j - 1]
      BY <3>1, <3>3, <3>4
    <3> QED
      BY <3>5, <2>3
  <2> QED
    BY <2>2, <2>3
<1> QED
  BY <1>2, <1>7, <1>8, <1>9

LEMMA RemoveAtProperties ==
  ASSUME NEW S, NEW s \in Seq(S), NEW i \in 1 .. Len(s)
  PROVE  /\ RemoveAt(s, i) \in Seq(S)
         /\ Len(RemoveAt(s, i)) = Len(s) - 1
         /\ \A j \in 1 .. Len(s) - 1 :
              RemoveAt(s, i)[j] = IF j < i THEN s[j] ELSE s[j + 1]
<1> DEFINE p == SubSeq(s, 1, i - 1)
           q == SubSeq(s, i + 1, Len(s))
<1>1. /\ p \in Seq(S) /\ Len(p) = i - 1
      /\ \A j \in 1 .. i - 1 : p[j] = s[j]
  BY SubSeqProperties
<1>2. /\ q \in Seq(S) /\ Len(q) = Len(s) - i
      /\ \A j \in 1 .. Len(s) - i : q[j] = s[i + j]
  BY SubSeqProperties
<1>3. RemoveAt(s, i) = p \o q
  BY DEF RemoveAt
<1> HIDE DEF p, q
<1> DEFINE t == p \o q
<1>4. /\ t \in Seq(S) /\ Len(t) = Len(s) - 1
      /\ \A j \in 1 .. Len(s) - 1 :
           t[j] = IF j <= i - 1 THEN p[j] ELSE q[j - (i - 1)]
  <2>1. /\ t \in Seq(S) /\ Len(t) = Len(p) + Len(q)
        /\ \A j \in 1 .. Len(p) + Len(q) :
             t[j] = IF j <= Len(p) THEN p[j] ELSE q[j - Len(p)]
    BY <1>1, <1>2, ConcatProperties
  <2>2. Len(p) + Len(q) = Len(s) - 1
    BY <1>1, <1>2
  <2> HIDE DEF t
  <2> QED
    BY <2>1, <2>2, <1>1
<1>5. RemoveAt(s, i) = t
  BY <1>3
<1> HIDE DEF t
<1>6. ASSUME NEW j \in 1 .. Len(s) - 1
      PROVE  t[j] = IF j < i THEN s[j] ELSE s[j + 1]
  <2>1. CASE j < i
    BY <2>1, <1>1, <1>4
  <2>2. CASE j >= i
    <3>1. t[j] = q[j - (i - 1)]
      BY <2>2, <1>4
    <3>2. j - (i - 1) \in 1 .. Len(s) - i
      BY <2>2
    <3>3. q[j - (i - 1)] = s[i + (j - (i - 1))]
      BY <3>2, <1>2
    <3>4. i + (j - (i - 1)) = j + 1
      OBVIOUS
    <3>5. t[j] = s[j + 1]
      BY <3>1, <3>3, <3>4
    <3> QED
      BY <3>5, <2>2
  <2> QED
    BY <2>1, <2>2
<1> QED
  BY <1>4, <1>5, <1>6
=============================================================================
