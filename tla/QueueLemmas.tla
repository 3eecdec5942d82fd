---------------------------- MODULE QueueLemmas ----------------------------
(***************************************************************************)
(* Facts about numbers and sequences that depend on no model.  Induction   *)
(* is in first-order form, with a set for the predicate: it comes from the *)
(* well-foundedness of <, by no theorem with an operator for a parameter,  *)
(* and lets one prove what a recursive function computes.                  *)
(***************************************************************************)
EXTENDS Naturals, Sequences, SequenceTheorems, WellFoundedInduction, TLAPS

\* A set of numbers that is not empty has a least element.
LEMMA LeastNat ==
  ASSUME NEW T, T \subseteq Nat, T # {}
  PROVE  \E x \in T : \A y \in T : ~(y < x)
<1>1. \E x \in T : \A y \in T : ~(<<y, x>> \in OpToRel(<, Nat))
  BY WFMin, NatLessThanWellFounded, Zenon
<1>2. ASSUME NEW x \in T, NEW y \in T, y < x PROVE <<y, x>> \in OpToRel(<, Nat)
  BY <1>2 DEF OpToRel
<1> QED
  BY <1>1, <1>2

\* A set that has 0, and the successor of each of its numbers below n, has
\* the numbers up to n.
LEMMA UpTo ==
  ASSUME NEW T, NEW n \in Nat, 0 \in T,
         \A i \in 0 .. n - 1 : i \in T => i + 1 \in T
  PROVE  0 .. n \subseteq T
<1> DEFINE U == {i \in 0 .. n : i \notin T}
<1> SUFFICES ASSUME U # {} PROVE FALSE
  OBVIOUS
<1>1. U \subseteq Nat
  OBVIOUS
<1>2. PICK x \in U : \A y \in U : ~(y < x)
  BY <1>1, LeastNat
<1>3. x \in 1 .. n /\ x \notin T
  OBVIOUS
<1>4. x - 1 \in 0 .. n - 1 /\ x - 1 < x /\ x - 1 \in 0 .. n /\ (x - 1) + 1 = x
  BY <1>3
<1>5. x - 1 \notin U
  BY <1>2, <1>4
<1> QED
  BY <1>3, <1>4, <1>5
-----------------------------------------------------------------------------
\* What is put behind the second of two sequences is behind both.
LEMMA AppendConcat ==
  ASSUME NEW S, NEW p \in Seq(S), NEW q \in Seq(S), NEW x \in S
  PROVE  Append(p \o q, x) = p \o Append(q, x) /\ Append(q, x) \in Seq(S)
<1>1. p \o q \in Seq(S) /\ <<x>> \in Seq(S)
  OBVIOUS
<1>2. Append(p \o q, x) = (p \o q) \o <<x>> /\ Append(q, x) = q \o <<x>>
  BY <1>1, AppendIsConcat
<1>3. (p \o q) \o <<x>> = p \o (q \o <<x>>)
  BY <1>1, ConcatAssociative
<1> QED
  BY <1>2, <1>3, AppendProperties

\* The first element of a sequence, and the others.
LEMMA HeadTailOfOne ==
  ASSUME NEW S, NEW x \in S, NEW q \in Seq(S)
  PROVE  <<x>> \o q # << >> /\ Head(<<x>> \o q) = x /\ Tail(<<x>> \o q) = q
<1> DEFINE r == <<x>> \o q
           n == Len(q)
<1>1. <<x>> \in Seq(S) /\ Len(<<x>>) = 1 /\ <<x>>[1] = x /\ n \in Nat
  OBVIOUS
<1>2. /\ r \in Seq(S) /\ Len(r) = 1 + n
      /\ \A i \in 1 .. 1 + n : r[i] = IF i <= 1 THEN <<x>>[i] ELSE q[i - 1]
  BY <1>1, ConcatProperties
<1> HIDE DEF r, n
<1>3. Len(r) # 0 /\ 1 \in 1 .. 1 + n
  BY <1>1, <1>2
<1>4. r # << >> /\ Head(r) = x
  BY <1>1, <1>2, <1>3, EmptySeq
<1>5. /\ Tail(r) \in Seq(S) /\ Len(Tail(r)) = n
      /\ \A i \in 1 .. n : Tail(r)[i] = r[i + 1]
  BY <1>1, <1>2, <1>4, HeadTailProperties
<1>6. ASSUME NEW i \in 1 .. n PROVE Tail(r)[i] = q[i]
  <2>1. i + 1 \in 1 .. 1 + n /\ ~(i + 1 <= 1) /\ (i + 1) - 1 = i
    BY <1>1
  <2> QED
    BY <1>2, <1>5, <2>1
<1>7. Tail(r) = q
  BY <1>5, <1>6, SeqEqual DEF n
<1> QED
  BY <1>4, <1>7 DEF r

\* The first element of two sequences is that of the first one.
LEMMA HeadTailOfConcat ==
  ASSUME NEW S, NEW p \in Seq(S), NEW q \in Seq(S), p # << >>
  PROVE  /\ p \o q \in Seq(S) /\ p \o q # << >>
         /\ Head(p \o q) = Head(p)
         /\ Tail(p \o q) = Tail(p) \o q
         /\ Tail(p \o q) \in Seq(S)
<1>1. /\ Head(p) \in S /\ Tail(p) \in Seq(S) /\ <<Head(p)>> \in Seq(S)
      /\ p = <<Head(p)>> \o Tail(p)
  OBVIOUS
<1>2. p \o q = <<Head(p)>> \o (Tail(p) \o q) /\ Tail(p) \o q \in Seq(S) /\ p \o q \in Seq(S)
  BY <1>1, ConcatAssociative, ConcatProperties
<1> QED
  BY <1>1, <1>2, HeadTailOfOne
=============================================================================
