--------------------------- MODULE SequenceLemmas ---------------------------
(***************************************************************************)
(* Lemmas about FlattenSeq of the community modules and about rising       *)
(* sequences, for the proofs of what becomes of a text on its way.         *)
(*                                                                         *)
(* FlattenSeq is a recursive function, for the provers the CHOOSE of a     *)
(* function that satisfies its equation.  That there is one, and what it   *)
(* is, is shown by induction over a set of numbers (SetInduction).         *)
(***************************************************************************)
EXTENDS SequencesExt, SequenceTheorems, WellFoundedInduction, TLAPS

(* A set of numbers has a least one, for < is well-founded.                *)
LEMMA LeastMember ==
    ASSUME NEW R, R \subseteq Nat, R # {}
    PROVE  \E n \in R : \A m \in R : n <= m
  <1> DEFINE less == OpToRel(<, Nat)
  <1>1. IsWellFoundedOn(less, Nat)
    BY NatLessThanWellFounded
  <1>2. \A x, y \in Nat : <<x, y>> \in less <=> x < y
    BY DEF OpToRel
  <1> HIDE DEF less
  <1>3. PICK n \in R : \A m \in R : ~(<<m, n>> \in less)
    BY <1>1, WFMin
  <1>4. ASSUME NEW m \in R PROVE n <= m
    <2>1. m \in Nat /\ n \in Nat /\ ~(m < n)
      BY <1>2, <1>3
    <2>2. QED
      BY <2>1
  <1>5. QED
    BY <1>4

(* Induction for a set of numbers.                                         *)
LEMMA SetInduction ==
    ASSUME NEW T, 0 \in T, \A n \in Nat : n \in T => n + 1 \in T
    PROVE  Nat \subseteq T
  <1> DEFINE rest == Nat \ T
  <1> SUFFICES ASSUME rest # {} PROVE FALSE
    OBVIOUS
  <1>1. PICK n \in rest : \A m \in rest : n <= m
    <2>1. rest \subseteq Nat
      OBVIOUS
    <2> HIDE DEF rest
    <2>2. QED
      BY <2>1, LeastMember
  <1>2. n - 1 \in Nat /\ ~(n <= n - 1) /\ n - 1 + 1 = n
    OBVIOUS
  <1>3. n - 1 \in T
    BY <1>1, <1>2
  <1>4. QED
    BY <1>2, <1>3

-----------------------------------------------------------------------------
(* The function that FlattenSeq computes: its i-th value is the first i    *)
(* members of s, one after the other.                                      *)
Unfolds(s, g) ==
    g = [i \in 1..Len(s) |-> IF i = 1 THEN s[i] ELSE g[i - 1] \o s[i]]

(* There is one.                                                           *)
LEMMA UnfoldsExists ==
    ASSUME NEW S, NEW s \in Seq(Seq(S))
    PROVE  \E g : Unfolds(s, g)
  <1> DEFINE Upto(g, n) == g = [i \in 1..n |-> IF i = 1 THEN s[i] ELSE g[i - 1] \o s[i]]
             T == {n \in Nat : \E g : Upto(g, n)}
  <1>1. 0 \in T
    <2>1. Upto([i \in 1..0 |-> <<>>], 0)
      OBVIOUS
    <2>2. \E f : Upto(f, 0)
      <3> HIDE DEF Upto
      <3> QED BY <2>1
    <2>3. QED
      BY <2>2
  <1>2. ASSUME NEW n \in Nat, n \in T
        PROVE  n + 1 \in T
    <2>1. PICK g : Upto(g, n)
      BY <1>2
    <2> DEFINE h == [i \in 1..(n + 1) |->
                        IF i = n + 1 THEN (IF n = 0 THEN s[1] ELSE g[n] \o s[n + 1])
                                     ELSE g[i]]
    <2>2. \A i \in 1..n : g[i] = IF i = 1 THEN s[i] ELSE g[i - 1] \o s[i]
      BY <2>1
    <2>3. \A i \in 1..(n + 1) : h[i] = IF i = 1 THEN s[i] ELSE h[i - 1] \o s[i]
      BY <2>2
    <2>4. h = [i \in 1..(n + 1) |-> h[i]]
      OBVIOUS
    <2> HIDE DEF h
    <2>5. h = [i \in 1..(n + 1) |-> IF i = 1 THEN s[i] ELSE h[i - 1] \o s[i]]
      BY <2>3, <2>4
    <2>6. Upto(h, n + 1)
      BY <2>5
    <2>7. \E f : Upto(f, n + 1)
      <3> HIDE DEF Upto
      <3> QED BY <2>6
    <2>8. QED
      <3> HIDE DEF Upto
      <3> QED BY <2>7
  <1>3. Nat \subseteq T
    <2> HIDE DEF T
    <2> QED BY <1>1, <1>2, SetInduction
  <1>4. Len(s) \in T
    BY <1>3, LenProperties
  <1>5. QED
    BY <1>4 DEF Unfolds

(* A further value is the last one and a further member.                   *)
LEMMA UnfoldsStep ==
    ASSUME NEW s, NEW g, Unfolds(s, g), NEW n \in Nat, n # 0, n + 1 \in 1..Len(s)
    PROVE  g[n + 1] = g[n] \o s[n + 1]
  <1> DEFINE k == n + 1
  <1>1. k \in 1..Len(s) /\ k # 1 /\ k - 1 = n
    OBVIOUS
  <1> HIDE DEF k
  <1>2. g[k] = g[k - 1] \o s[k]
    BY <1>1 DEF Unfolds
  <1>3. QED
    BY <1>1, <1>2 DEF k

(* What it is for a first part of s is what it is for s.                   *)
LEMMA UnfoldsAgree ==
    ASSUME NEW S, NEW s \in Seq(Seq(S)), NEW t \in Seq(Seq(S)),
           Len(s) <= Len(t), \A i \in 1..Len(s) : s[i] = t[i],
           NEW g, Unfolds(s, g), NEW h, Unfolds(t, h)
    PROVE  \A i \in 1..Len(s) : g[i] = h[i]
  <1> DEFINE T == {n \in Nat : n \in 1..Len(s) => g[n] = h[n]}
  <1>1. Len(s) \in Nat /\ Len(t) \in Nat
    BY LenProperties
  <1>2. /\ \A i \in 1..Len(s) : g[i] = IF i = 1 THEN s[i] ELSE g[i - 1] \o s[i]
        /\ \A i \in 1..Len(t) : h[i] = IF i = 1 THEN t[i] ELSE h[i - 1] \o t[i]
    BY DEF Unfolds
  <1>3. 0 \in T
    OBVIOUS
  <1>4. ASSUME NEW n \in Nat, n \in T
        PROVE  n + 1 \in T
    <2> SUFFICES ASSUME n + 1 \in 1..Len(s) PROVE g[n + 1] = h[n + 1]
      OBVIOUS
    <2>1. n + 1 \in 1..Len(t) /\ s[n + 1] = t[n + 1]
      BY <1>1
    <2>2. /\ g[n + 1] = IF n + 1 = 1 THEN s[n + 1] ELSE g[n + 1 - 1] \o s[n + 1]
          /\ h[n + 1] = IF n + 1 = 1 THEN t[n + 1] ELSE h[n + 1 - 1] \o t[n + 1]
      BY <1>2, <2>1
    <2>3. n + 1 - 1 = n /\ (n + 1 # 1 => g[n] = h[n])
      BY <1>1, <1>4
    <2>4. QED
      BY <2>1, <2>2, <2>3
  <1>5. Nat \subseteq T
    <2> HIDE DEF T
    <2> QED BY <1>3, <1>4, SetInduction
  <1>6. QED
    BY <1>1, <1>5

(* Its values are sequences.                                               *)
LEMMA UnfoldsType ==
    ASSUME NEW S, NEW s \in Seq(Seq(S)), NEW g, Unfolds(s, g)
    PROVE  \A i \in 1..Len(s) : g[i] \in Seq(S)
  <1> DEFINE T == {n \in Nat : n \in 1..Len(s) => g[n] \in Seq(S)}
  <1>1. Len(s) \in Nat /\ \A i \in 1..Len(s) : s[i] \in Seq(S)
    BY LenProperties, ElementOfSeq
  <1>2. \A i \in 1..Len(s) : g[i] = IF i = 1 THEN s[i] ELSE g[i - 1] \o s[i]
    BY DEF Unfolds
  <1>3. 0 \in T
    OBVIOUS
  <1>4. ASSUME NEW n \in Nat, n \in T
        PROVE  n + 1 \in T
    <2> SUFFICES ASSUME n + 1 \in 1..Len(s) PROVE g[n + 1] \in Seq(S)
      OBVIOUS
    <2>1. CASE n = 0
      BY <1>1, <1>2, <2>1
    <2>2. CASE n # 0
      <3>1. n \in 1..Len(s) /\ g[n] \in Seq(S) /\ s[n + 1] \in Seq(S)
        BY <1>1, <1>4, <2>2
      <3>2. g[n + 1] = g[n] \o s[n + 1]
        <4>1. g[n + 1] = IF n + 1 = 1 THEN s[n + 1] ELSE g[n + 1 - 1] \o s[n + 1]
          BY <1>2
        <4>2. n + 1 # 1 /\ n + 1 - 1 = n
          BY <2>2
        <4>3. QED
          BY <4>1, <4>2
      <3>3. QED
        BY <3>1, <3>2, ConcatProperties
    <2>3. QED
      BY <2>1, <2>2
  <1>5. Nat \subseteq T
    <2> HIDE DEF T
    <2> QED BY <1>3, <1>4, SetInduction
  <1>6. QED
    BY <1>1, <1>5

-----------------------------------------------------------------------------
(* FlattenSeq is the last value of that function.                          *)
LEMMA FlattenIsLast ==
    ASSUME NEW S, NEW s \in Seq(Seq(S)), Len(s) # 0, NEW g, Unfolds(s, g)
    PROVE  FlattenSeq(s) = g[Len(s)]
  <1> DEFINE f == CHOOSE h : Unfolds(s, h)
  <1>1. Unfolds(s, f)
    BY UnfoldsExists
  <1>2. FlattenSeq(s) = f[Len(s)]
    BY DEF FlattenSeq, Unfolds
  <1>3. Len(s) \in 1..Len(s)
    BY LenProperties
  <1> HIDE DEF f
  <1>4. f[Len(s)] = g[Len(s)]
    BY <1>1, <1>3, UnfoldsAgree, LenProperties
  <1>5. QED
    BY <1>2, <1>4

LEMMA FlattenEmpty == FlattenSeq(<<>>) = <<>>
  BY DEF FlattenSeq

(* The result is a sequence of the members' elements.                      *)
LEMMA FlattenType ==
    ASSUME NEW S, NEW s \in Seq(Seq(S))
    PROVE  FlattenSeq(s) \in Seq(S)
  <1>1. CASE Len(s) = 0
    <2>1. s = <<>>
      BY <1>1, EmptySeq
    <2>2. QED
      BY <2>1, FlattenEmpty, EmptySeq
  <1>2. CASE Len(s) # 0
    <2>1. PICK g : Unfolds(s, g)
      BY UnfoldsExists
    <2>2. Len(s) \in 1..Len(s)
      BY <1>2, LenProperties
    <2>3. QED
      BY <1>2, <2>1, <2>2, FlattenIsLast, UnfoldsType
  <1>3. QED
    BY <1>1, <1>2

(* A further member comes after the others.                                *)
LEMMA FlattenAppend ==
    ASSUME NEW S, NEW s \in Seq(Seq(S)), NEW x \in Seq(S)
    PROVE  FlattenSeq(Append(s, x)) = FlattenSeq(s) \o x
  <1> DEFINE t == Append(s, x)
  <1>1. /\ t \in Seq(Seq(S)) /\ Len(t) = Len(s) + 1 /\ Len(s) \in Nat
        /\ \A i \in 1..Len(s) : t[i] = s[i]
        /\ t[Len(s) + 1] = x
    BY AppendProperties, LenProperties
  <1> HIDE DEF t
  <1>2. PICK h : Unfolds(t, h)
    BY <1>1, UnfoldsExists
  <1>3. FlattenSeq(t) = h[Len(s) + 1]
    BY <1>1, <1>2, FlattenIsLast
  <1>4. \A i \in 1..(Len(s) + 1) : h[i] = IF i = 1 THEN t[i] ELSE h[i - 1] \o t[i]
    BY <1>1, <1>2 DEF Unfolds
  <1>5. CASE Len(s) = 0
    <2>1. h[Len(s) + 1] = x
      BY <1>1, <1>4, <1>5
    <2>2. s = <<>>
      BY <1>5, EmptySeq
    <2>3. QED
      BY <1>3, <2>1, <2>2, FlattenEmpty, ConcatEmptySeq DEF t
  <1>6. CASE Len(s) # 0
    <2>1. PICK g : Unfolds(s, g)
      BY UnfoldsExists
    <2>2. g[Len(s)] = h[Len(s)]
      <3>1. Len(s) <= Len(t) /\ \A i \in 1..Len(s) : s[i] = t[i]
        BY <1>1
      <3>2. \A i \in 1..Len(s) : g[i] = h[i]
        <4>1. t \in Seq(Seq(S))
          BY <1>1
        <4>2. QED
          BY <1>2, <2>1, <3>1, <4>1, UnfoldsAgree, SMTT(30)
      <3>3. QED
        BY <1>1, <1>6, <3>2
    <2>3. FlattenSeq(s) = g[Len(s)]
      BY <1>6, <2>1, FlattenIsLast
    <2>4. h[Len(s) + 1] = h[Len(s)] \o x
      <3>1. Len(s) + 1 \in 1..Len(t)
        BY <1>1
      <3>2. h[Len(s) + 1] = h[Len(s)] \o t[Len(s) + 1]
        BY <1>1, <1>2, <1>6, <3>1, UnfoldsStep
      <3>3. QED
        BY <1>1, <3>2
    <2>5. QED
      BY <1>3, <2>2, <2>3, <2>4 DEF t
  <1>7. QED
    BY <1>5, <1>6

(* A sequence that is not empty ends with a member.                        *)
LEMMA LastMember ==
    ASSUME NEW S, NEW s \in Seq(S), NEW n \in Nat, Len(s) = n + 1
    PROVE  \E t \in Seq(S), x \in S : s = Append(t, x) /\ Len(t) = n
  <1>1. s # <<>>
    BY EmptySeq
  <1>2. PICK t \in Seq(S), x \in S : s = Append(t, x)
    BY <1>1, SequenceEmptyOrAppend
  <1>3. Len(t) = n
    BY <1>2, AppendProperties, LenProperties
  <1>4. QED
    BY <1>2, <1>3

(* A first member comes before the others.                                 *)
LEMMA FlattenCons ==
    ASSUME NEW S, NEW s \in Seq(Seq(S)), NEW x \in Seq(S)
    PROVE  FlattenSeq(<<x>> \o s) = x \o FlattenSeq(s)
  <1> DEFINE OK(t) == FlattenSeq(<<x>> \o t) = x \o FlattenSeq(t)
             T == {n \in Nat : \A t \in Seq(Seq(S)) : Len(t) = n => OK(t)}
  <1>0. <<x>> \in Seq(Seq(S))
    OBVIOUS
  <1>1. 0 \in T
    <2> SUFFICES ASSUME NEW t \in Seq(Seq(S)), Len(t) = 0 PROVE OK(t)
      OBVIOUS
    <2>1. t = <<>>
      BY EmptySeq
    <2>2. <<x>> \o <<>> = <<x>> /\ <<x>> = Append(<<>>, x) /\ <<>> \in Seq(Seq(S))
      BY <1>0, ConcatEmptySeq
    <2>3. FlattenSeq(<<x>>) = <<>> \o x
      BY <2>2, FlattenAppend, FlattenEmpty
    <2>4. QED
      BY <2>1, <2>2, <2>3, FlattenEmpty, ConcatEmptySeq
  <1>2. ASSUME NEW n \in Nat, n \in T
        PROVE  n + 1 \in T
    <2> SUFFICES ASSUME NEW t \in Seq(Seq(S)), Len(t) = n + 1 PROVE OK(t)
      <3> HIDE DEF OK
      <3> QED OBVIOUS
    <2>1. PICK u \in Seq(Seq(S)), y \in Seq(S) : t = Append(u, y) /\ Len(u) = n
      BY LastMember
    <2>2. OK(u)
      BY <1>2, <2>1
    <2>3. <<x>> \o t = Append(<<x>> \o u, y) /\ <<x>> \o u \in Seq(Seq(S))
      <3>1. t = u \o <<y>> /\ <<y>> \in Seq(Seq(S))
        BY <2>1, AppendIsConcat
      <3>2. <<x>> \o u \in Seq(Seq(S))
        BY <1>0, ConcatProperties
      <3>3. (<<x>> \o u) \o <<y>> = <<x>> \o (u \o <<y>>)
        BY <1>0, <3>1, ConcatAssociative
      <3>4. (<<x>> \o u) \o <<y>> = Append(<<x>> \o u, y)
        BY <3>2, AppendIsConcat
      <3>5. QED
        BY <3>1, <3>2, <3>3, <3>4
    <2>4. FlattenSeq(<<x>> \o t) = FlattenSeq(<<x>> \o u) \o y
      BY <2>3, FlattenAppend
    <2>5. FlattenSeq(t) = FlattenSeq(u) \o y /\ FlattenSeq(u) \in Seq(S)
      BY <2>1, FlattenAppend, FlattenType
    <2>6. (x \o FlattenSeq(u)) \o y = x \o (FlattenSeq(u) \o y)
      BY <2>5, ConcatAssociative, SMTT(30)
    <2>7. QED
      BY <2>2, <2>4, <2>5, <2>6
  <1>3. Nat \subseteq T
    <2> HIDE DEF T
    <2> QED BY <1>1, <1>2, SetInduction
  <1>4. Len(s) \in T
    BY <1>3, LenProperties
  <1>5. QED
    BY <1>4

(* Empty members count for nothing.                                        *)
LEMMA FlattenOne ==
    ASSUME NEW S, NEW s \in Seq(Seq(S)), NEW k \in 1..Len(s),
           \A i \in 1..Len(s) : i # k => s[i] = <<>>
    PROVE  FlattenSeq(s) = s[k]
  <1>1. /\ Len(s) \in Nat /\ Len(s) # 0 /\ s[k] \in Seq(S)
        /\ \A i \in 1..Len(s) : s[i] \in Seq(S)
    BY LenProperties, ElementOfSeq
  <1>2. PICK g : Unfolds(s, g)
    BY UnfoldsExists
  <1>3. \A i \in 1..Len(s) : g[i] = IF i = 1 THEN s[i] ELSE g[i - 1] \o s[i]
    BY <1>2 DEF Unfolds
  <1> DEFINE sofar(n) == IF k <= n THEN s[k] ELSE <<>>
             T == {n \in Nat : n \in 1..Len(s) => g[n] = sofar(n)}
  <1>4. 0 \in T
    OBVIOUS
  <1>5. ASSUME NEW n \in Nat, n \in T
        PROVE  n + 1 \in T
    <2> SUFFICES ASSUME n + 1 \in 1..Len(s) PROVE g[n + 1] = sofar(n + 1)
      OBVIOUS
    <2>1. CASE n = 0
      BY <1>1, <1>3, <2>1
    <2>2. CASE n # 0
      <3>1. g[n + 1] = sofar(n) \o s[n + 1]
        <4>1. g[n + 1] = g[n] \o s[n + 1]
          BY <1>2, <2>2, UnfoldsStep
        <4>2. g[n] = sofar(n)
          BY <1>1, <1>5, <2>2
        <4>3. QED
          BY <4>1, <4>2
      <3>2. sofar(n) \in Seq(S) /\ s[n + 1] \in Seq(S)
        BY <1>1, EmptySeq
      <3>3. CASE n + 1 = k
        <4>1. sofar(n) = <<>> /\ sofar(n + 1) = s[n + 1]
          BY <3>3
        <4>2. QED
          BY <3>1, <3>2, <4>1, ConcatEmptySeq
      <3>4. CASE n + 1 # k
        <4>1. s[n + 1] = <<>> /\ sofar(n + 1) = sofar(n)
          BY <3>4
        <4>2. QED
          BY <3>1, <3>2, <4>1, ConcatEmptySeq
      <3>5. QED
        BY <3>3, <3>4
    <2>3. QED
      BY <2>1, <2>2
  <1>6. Nat \subseteq T
    <2> HIDE DEF T
    <2> QED BY <1>4, <1>5, SetInduction
  <1>7. g[Len(s)] = s[k]
    BY <1>1, <1>6
  <1>8. QED
    BY <1>1, <1>2, <1>7, FlattenIsLast

-----------------------------------------------------------------------------
(* The first element of one text becomes the last of the one before it.    *)
LEMMA MoveHead ==
    ASSUME NEW S, NEW r \in Seq(S), NEW s \in Seq(S), s # <<>>
    PROVE  Append(r, Head(s)) \o Tail(s) = r \o s
  <1>1. Head(s) \in S /\ Tail(s) \in Seq(S) /\ <<Head(s)>> \in Seq(S)
    BY HeadTailProperties
  <1>2. s = <<Head(s)>> \o Tail(s)
    <2> DEFINE t == <<Head(s)>> \o Tail(s)
    <2>1. /\ Len(t) = Len(s) /\ t \in Seq(S)
          /\ \A i \in 1..Len(s) : t[i] = s[i]
      BY <1>1, HeadTailProperties, LenProperties
    <2> HIDE DEF t
    <2>2. s = t
      BY <2>1, SeqEqual
    <2>3. QED
      BY <2>2 DEF t
  <1>3. Append(r, Head(s)) = r \o <<Head(s)>>
    BY <1>1, AppendIsConcat
  <1>4. (r \o <<Head(s)>>) \o Tail(s) = r \o (<<Head(s)>> \o Tail(s))
    BY <1>1, ConcatAssociative
  <1>5. QED
    BY <1>2, <1>3, <1>4

-----------------------------------------------------------------------------
(* Sequences of numbers that rise, and what is in them.                    *)
Rising(s)  == \A i, j \in 1..Len(s) : i < j => s[i] < s[j]
Members(s) == {s[i] : i \in 1..Len(s)}

(* The members of a sequence put together from two.                        *)
LEMMA MembersConcat ==
    ASSUME NEW S, NEW s \in Seq(S), NEW t \in Seq(S)
    PROVE  Members(s \o t) = Members(s) \cup Members(t)
  <1> DEFINE u == s \o t
  <1>1. /\ Len(s) \in Nat /\ Len(t) \in Nat /\ Len(u) = Len(s) + Len(t)
        /\ \A i \in 1..(Len(s) + Len(t)) :
              u[i] = IF i <= Len(s) THEN s[i] ELSE t[i - Len(s)]
    BY ConcatProperties, LenProperties
  <1> HIDE DEF u
  <1>2. ASSUME NEW x \in Members(u) PROVE x \in Members(s) \cup Members(t)
    BY <1>1, <1>2 DEF Members
  <1>3. ASSUME NEW x \in Members(s) PROVE x \in Members(u)
    <2>1. PICK i \in 1..Len(s) : x = s[i]
      BY <1>3 DEF Members
    <2>2. i \in 1..Len(u) /\ u[i] = s[i]
      BY <1>1
    <2>3. QED
      BY <2>1, <2>2 DEF Members
  <1>4. ASSUME NEW x \in Members(t) PROVE x \in Members(u)
    <2>1. PICK i \in 1..Len(t) : x = t[i]
      BY <1>4 DEF Members
    <2>2. i + Len(s) \in 1..Len(u) /\ u[i + Len(s)] = t[i]
      BY <1>1
    <2>3. QED
      BY <2>1, <2>2 DEF Members
  <1>5. QED
    BY <1>2, <1>3, <1>4 DEF u

(* It rises when both do and the members of the first are the smaller.     *)
LEMMA RisingConcat ==
    ASSUME NEW s \in Seq(Int), NEW t \in Seq(Int)
    PROVE  Rising(s \o t) <=>
               /\ Rising(s) /\ Rising(t)
               /\ \A x \in Members(s), y \in Members(t) : x < y
  <1> DEFINE u == s \o t
             m == Len(s)
             n == Len(t)
  <1>1. /\ m \in Nat /\ n \in Nat /\ Len(u) = m + n
        /\ \A i \in 1..m : u[i] = s[i] /\ s[i] \in Int
        /\ \A i \in 1..n : u[i + m] = t[i] /\ t[i] \in Int
    <2>1. /\ m \in Nat /\ n \in Nat /\ Len(u) = m + n
          /\ \A i \in 1..(m + n) : u[i] = IF i <= m THEN s[i] ELSE t[i - m]
      BY ConcatProperties, LenProperties
    <2>2. \A i \in 1..m : u[i] = s[i] /\ s[i] \in Int
      BY <2>1, ElementOfSeq
    <2>3. ASSUME NEW i \in 1..n PROVE u[i + m] = t[i] /\ t[i] \in Int
      <3>1. i + m \in 1..(m + n) /\ ~(i + m <= m) /\ i + m - m = i
        BY <2>1
      <3> HIDE DEF u, m, n
      <3>2. u[i + m] = t[i + m - m]
        BY <2>1, <3>1
      <3>3. QED
        BY <3>1, <3>2, ElementOfSeq DEF n
    <2>4. QED
      BY <2>1, <2>2, <2>3
  <1> HIDE DEF u, m, n
  <1>2. ASSUME Rising(u)
        PROVE  /\ Rising(s) /\ Rising(t)
               /\ \A x \in Members(s), y \in Members(t) : x < y
    <2>1. Rising(s)
      BY <1>1, <1>2 DEF Rising, m
    <2>2. Rising(t)
      <3> SUFFICES ASSUME NEW i \in 1..n, NEW j \in 1..n, i < j PROVE t[i] < t[j]
        BY DEF Rising, n
      <3>1. i + m \in 1..Len(u) /\ j + m \in 1..Len(u) /\ i + m < j + m
        BY <1>1
      <3>2. u[i + m] < u[j + m]
        BY <1>2, <3>1 DEF Rising
      <3>3. QED
        BY <1>1, <3>2
    <2>3. ASSUME NEW i \in 1..m, NEW j \in 1..n PROVE s[i] < t[j]
      <3>1. i \in 1..Len(u) /\ j + m \in 1..Len(u) /\ i < j + m
        BY <1>1
      <3>2. u[i] < u[j + m]
        BY <1>2, <3>1 DEF Rising
      <3>3. QED
        BY <1>1, <3>2
    <2>4. QED
      BY <2>1, <2>2, <2>3 DEF Members, m, n
  <1>3. ASSUME Rising(s), Rising(t), \A x \in Members(s), y \in Members(t) : x < y
        PROVE  Rising(u)
    <2> SUFFICES ASSUME NEW i \in 1..(m + n), NEW j \in 1..(m + n), i < j
                 PROVE  u[i] < u[j]
      BY <1>1 DEF Rising
    <2>1. CASE j <= m
      <3>1. i \in 1..m /\ j \in 1..m
        BY <1>1, <2>1
      <3>2. QED
        BY <1>1, <1>3, <3>1 DEF Rising, m
    <2>2. CASE i > m
      <3>1. PICK k \in 1..n : i = k + m
        BY <1>1, <2>2
      <3>2. PICK l \in 1..n : j = l + m
        BY <1>1, <2>2
      <3>3. t[k] < t[l]
        BY <1>1, <1>3, <3>1, <3>2 DEF Rising, n
      <3>4. QED
        BY <1>1, <3>1, <3>2, <3>3
    <2>3. CASE i <= m /\ j > m
      <3>1. i \in 1..m
        BY <1>1, <2>3
      <3>2. PICK l \in 1..n : j = l + m
        BY <1>1, <2>3
      <3>3. s[i] \in Members(s) /\ t[l] \in Members(t)
        BY <3>1 DEF Members, m, n
      <3>4. QED
        BY <1>1, <1>3, <3>1, <3>2, <3>3
    <2>4. QED
      BY <1>1, <2>1, <2>2, <2>3
  <1>4. QED
    BY <1>2, <1>3 DEF u

(* A part in the middle may be left out.                                   *)
LEMMA RisingCut ==
    ASSUME NEW a \in Seq(Int), NEW b \in Seq(Int), NEW c \in Seq(Int),
           Rising(a \o (b \o c))
    PROVE  /\ Rising(a \o c)
           /\ Members(a \o c) = Members(a \o (b \o c)) \ Members(b)
  <1>1. b \o c \in Seq(Int)
    BY ConcatProperties
  <1>2. /\ Members(b \o c) = Members(b) \cup Members(c)
        /\ Members(a \o (b \o c)) = Members(a) \cup Members(b \o c)
        /\ Members(a \o c) = Members(a) \cup Members(c)
    <2>1. Members(b \o c) = Members(b) \cup Members(c)
      BY MembersConcat
    <2>2. Members(a \o (b \o c)) = Members(a) \cup Members(b \o c)
      <3> DEFINE d == b \o c
      <3>1. d \in Seq(Int)
        BY <1>1
      <3> HIDE DEF d
      <3>2. Members(a \o d) = Members(a) \cup Members(d)
        BY <3>1, MembersConcat
      <3>3. QED
        BY <3>2 DEF d
    <2>3. Members(a \o c) = Members(a) \cup Members(c)
      BY MembersConcat
    <2>4. QED
      BY <2>1, <2>2, <2>3
  <1>3. /\ Rising(a) /\ Rising(b \o c)
        /\ \A x \in Members(a), y \in Members(b \o c) : x < y
    BY <1>1, RisingConcat
  <1>4. /\ Rising(b) /\ Rising(c)
        /\ \A x \in Members(b), y \in Members(c) : x < y
    BY <1>3, RisingConcat
  <1>5. Rising(a \o c)
    BY <1>2, <1>3, <1>4, RisingConcat
  <1>6. \A x \in Members(b) : x \in Int
    BY ElementOfSeq DEF Members
  <1>7. \A x \in Members(b) : x \notin Members(a) /\ x \notin Members(c)
    BY <1>2, <1>3, <1>4, <1>6
  <1>8. QED
    BY <1>2, <1>5, <1>7

(* All of the numbers 1..n but those that are gone, in their order.        *)
Whole(s, n, gone) ==
    /\ gone \subseteq 1..n
    /\ Rising(s) /\ Members(s) = (1..n) \ gone

(* The next numbers may follow.                                            *)
LEMMA WholeExtend ==
    ASSUME NEW s \in Seq(Int), NEW t \in Seq(Int), NEW n \in Nat, NEW gone,
           Whole(s, n, gone), \A i \in 1..Len(t) : t[i] = n + i
    PROVE  Whole(s \o t, n + Len(t), gone)
  <1>1. /\ Len(t) \in Nat /\ Rising(s)
        /\ gone \subseteq 1..n /\ Members(s) = (1..n) \ gone
    BY LenProperties DEF Whole
  <1>2. Members(t) = (n + 1)..(n + Len(t))
    <2>1. \A x \in Members(t) : x \in (n + 1)..(n + Len(t))
      BY <1>1 DEF Members
    <2>2. ASSUME NEW x \in (n + 1)..(n + Len(t)) PROVE x \in Members(t)
      <3>1. x - n \in 1..Len(t)
        BY <1>1
      <3>2. t[x - n] = n + (x - n)
        BY <3>1
      <3>3. n + (x - n) = x
        BY <1>1
      <3>4. QED
        BY <3>1, <3>2, <3>3 DEF Members
    <2>3. QED
      BY <2>1, <2>2
  <1>3. Rising(t)
    BY <1>1 DEF Rising
  <1>4. Rising(s \o t)
    <2>1. \A x \in Members(s), y \in Members(t) : x < y
      BY <1>1, <1>2
    <2>2. QED
      BY <1>1, <1>3, <2>1, RisingConcat
  <1>5. Members(s \o t) = Members(s) \cup Members(t)
    BY MembersConcat
  <1>6. Members(s \o t) = (1..(n + Len(t))) \ gone
    BY <1>1, <1>2, <1>5
  <1>7. gone \subseteq 1..(n + Len(t))
    BY <1>1
  <1>8. QED
    BY <1>4, <1>6, <1>7 DEF Whole
-----------------------------------------------------------------------------
(* A sequence cut after a and after e, and cut again.                      *)
LEMMA CutOf ==
    ASSUME NEW S, NEW s \in Seq(S), NEW a \in Nat, NEW e \in Nat, a <= e, e <= Len(s)
    PROVE  /\ SubSeq(s, a + 1, e) \in Seq(S) /\ Len(SubSeq(s, a + 1, e)) = e - a
           /\ \A i \in 1..(e - a) : SubSeq(s, a + 1, e)[i] = s[a + i]
  <1> DEFINE b == a + 1
             t == SubSeq(s, b, e)
  <1>1. b \in Int /\ e \in Int /\ \A i \in b..e : i \in 1..Len(s)
    BY LenProperties
  <1>2. \A i \in b..e : s[i] \in S
    BY <1>1, ElementOfSeq
  <1>3. e - b + 1 = e - a /\ (IF b <= e THEN e - b + 1 ELSE 0) = e - a
    OBVIOUS
  <1> HIDE DEF b
  <1>4. /\ t \in Seq(S) /\ Len(t) = IF b <= e THEN e - b + 1 ELSE 0
        /\ \A i \in 1..(e - b + 1) : t[i] = s[b + i - 1]
    BY <1>1, <1>2, SubSeqProperties
  <1> HIDE DEF t
  <1>5. \A i \in 1..(e - a) : t[i] = s[a + i]
    <2>1. \A i \in 1..(e - a) : b + i - 1 = a + i
      BY DEF b
    <2>2. QED
      BY <1>3, <1>4, <2>1
  <1>6. QED
    BY <1>3, <1>4, <1>5 DEF b, t

LEMMA CutOfCut ==
    ASSUME NEW S, NEW s \in Seq(S), NEW a \in Nat, a <= Len(s),
           NEW c \in Nat, c <= Len(s) - a
    PROVE  SubSeq(SubSeq(s, a + 1, Len(s)), 1, c) = SubSeq(s, a + 1, a + c)
  <1> DEFINE u == SubSeq(s, a + 1, Len(s))
             v == SubSeq(u, 0 + 1, c)
             e == a + c
             w == SubSeq(s, a + 1, e)
  <1>1. Len(s) \in Nat /\ e \in Nat /\ a <= e /\ e <= Len(s) /\ e - a = c
    BY LenProperties
  <1>2. /\ u \in Seq(S) /\ Len(u) = Len(s) - a
        /\ \A i \in 1..(Len(s) - a) : u[i] = s[a + i]
    BY <1>1, CutOf
  <1> HIDE DEF u, e
  <1>3. /\ v \in Seq(S) /\ Len(v) = c - 0
        /\ \A i \in 1..(c - 0) : v[i] = u[0 + i]
    BY <1>2, CutOf
  <1>4. /\ w \in Seq(S) /\ Len(w) = c
        /\ \A i \in 1..c : w[i] = s[a + i]
    BY <1>1, CutOf
  <1>5. v = SubSeq(u, 1, c)
    OBVIOUS
  <1> HIDE DEF v, w
  <1>6. Len(v) = c /\ \A i \in 1..c : v[i] = s[a + i]
    <2>1. c - 0 = c /\ Len(v) = c
      BY <1>3
    <2>2. ASSUME NEW i \in 1..c PROVE v[i] = s[a + i]
      <3>1. i \in 1..(Len(s) - a) /\ i \in 1..(c - 0) /\ 0 + i = i
        BY <1>1
      <3>2. v[i] = u[i] /\ u[i] = s[a + i]
        BY <1>2, <1>3, <3>1
      <3>3. QED
        BY <3>2
    <2>3. QED
      BY <2>1, <2>2
  <1>7. v = w
    BY <1>3, <1>4, <1>6, SeqEqual
  <1>8. QED
    BY <1>5, <1>7 DEF u, w, e

(* The end of a sequence is the end of its last part.                      *)
LEMMA EndOfConcat ==
    ASSUME NEW S, NEW a \in Seq(S), NEW b \in Seq(S), Len(b) # 0
    PROVE  Len(a \o b) # 0 /\ (a \o b)[Len(a \o b)] = b[Len(b)]
  <1> DEFINE c == a \o b
  <1>1. /\ Len(a) \in Nat /\ Len(b) \in Nat /\ Len(c) = Len(a) + Len(b)
        /\ \A i \in 1..(Len(a) + Len(b)) : c[i] = IF i <= Len(a) THEN a[i] ELSE b[i - Len(a)]
    BY ConcatProperties, LenProperties
  <1> HIDE DEF c
  <1>2. Len(c) # 0 /\ c[Len(c)] = b[Len(b)]
    BY <1>1
  <1>3. QED
    BY <1>2 DEF c

(* What is put after a part is put after the whole, and what is taken from *)
(* the front of a part is taken from the front of the whole.               *)
LEMMA AppendToPart ==
    ASSUME NEW S, NEW a \in Seq(S), NEW b \in Seq(S), NEW x \in S
    PROVE  a \o Append(b, x) = Append(a \o b, x)
  <1> DEFINE o == <<x>>
  <1>1. o \in Seq(S) /\ Append(b, x) = b \o o /\ a \o b \in Seq(S)
    BY AppendIsConcat, ConcatProperties
  <1>2. Append(a \o b, x) = (a \o b) \o o
    BY <1>1, AppendIsConcat
  <1> HIDE DEF o
  <1>3. (a \o b) \o o = a \o (b \o o)
    BY <1>1, ConcatAssociative
  <1>4. QED
    BY <1>1, <1>2, <1>3

LEMMA TailOfPart ==
    ASSUME NEW S, NEW a \in Seq(S), NEW b \in Seq(S), a # <<>>
    PROVE  /\ Len(a \o b) # 0 /\ Head(a) = (a \o b)[1]
           /\ Tail(a) \o b \in Seq(S) /\ Len(Tail(a) \o b) = Len(a \o b) - 1
           /\ \A i \in 1..(Len(a \o b) - 1) : (Tail(a) \o b)[i] = (a \o b)[i + 1]
  <1> DEFINE c == a \o b
             t == Tail(a)
             d == t \o b
  <1>1. /\ t \in Seq(S) /\ Len(t) = Len(a) - 1 /\ Len(a) \in Nat \ {0} /\ Len(b) \in Nat
        /\ \A i \in 1..(Len(a) - 1) : t[i] = a[i + 1]
    <2>1. Len(a) \in Nat /\ Len(a) # 0 /\ Len(b) \in Nat
      BY LenProperties, EmptySeq
    <2>2. QED
      BY <2>1, HeadTailProperties
  <1>2. Head(a) = a[1]
    OBVIOUS
  <1> HIDE DEF t
  <1>3. /\ c \in Seq(S) /\ Len(c) = Len(a) + Len(b)
        /\ \A i \in 1..(Len(a) + Len(b)) : c[i] = IF i <= Len(a) THEN a[i] ELSE b[i - Len(a)]
    BY ConcatProperties
  <1>4. /\ d \in Seq(S) /\ Len(d) = Len(t) + Len(b)
        /\ \A i \in 1..(Len(t) + Len(b)) : d[i] = IF i <= Len(t) THEN t[i] ELSE b[i - Len(t)]
    BY <1>1, ConcatProperties
  <1> HIDE DEF c, d
  <1>5. Len(c) # 0 /\ c[1] = a[1] /\ Len(d) = Len(c) - 1
    BY <1>1, <1>3, <1>4
  <1>6. ASSUME NEW i \in 1..(Len(c) - 1) PROVE d[i] = c[i + 1]
    <2>1. CASE i <= Len(t)
      BY <1>1, <1>3, <1>4, <2>1
    <2>2. CASE ~(i <= Len(t))
      <3>1. d[i] = b[i - Len(t)] /\ c[i + 1] = b[i + 1 - Len(a)] /\ i - Len(t) = i + 1 - Len(a)
        BY <1>1, <1>3, <1>4, <2>2
      <3>2. QED
        BY <3>1
    <2>3. QED
      BY <2>1, <2>2
  <1>7. QED
    BY <1>2, <1>4, <1>5, <1>6 DEF c, d, t

(* A first part and the one after it.                                      *)
LEMMA JoinCuts ==
    ASSUME NEW S, NEW s \in Seq(S), NEW a \in Nat, NEW e \in Nat, a <= e, e <= Len(s)
    PROVE  /\ SubSeq(s, 1, e) = SubSeq(s, 1, a) \o SubSeq(s, a + 1, e)
           /\ SubSeq(s, 1, a) \in Seq(S)
  <1> DEFINE u == SubSeq(s, 0 + 1, a)
             v == SubSeq(s, a + 1, e)
             w == SubSeq(s, 0 + 1, e)
             t == u \o v
  <1>1. /\ u \in Seq(S) /\ Len(u) = a - 0 /\ \A i \in 1..(a - 0) : u[i] = s[0 + i]
        /\ w \in Seq(S) /\ Len(w) = e - 0 /\ \A i \in 1..(e - 0) : w[i] = s[0 + i]
    <2>1. 0 \in Nat /\ 0 <= a /\ 0 <= e /\ a <= Len(s)
      BY LenProperties
    <2>2. QED
      BY <2>1, CutOf
  <1>2. v \in Seq(S) /\ Len(v) = e - a /\ \A i \in 1..(e - a) : v[i] = s[a + i]
    BY CutOf
  <1> HIDE DEF u, v, w
  <1>3. /\ t \in Seq(S) /\ Len(t) = a + (e - a)
        /\ \A i \in 1..(a + (e - a)) : t[i] = IF i <= a THEN u[i] ELSE v[i - a]
    <2>1. Len(u) = a /\ Len(v) = e - a
      BY <1>1, <1>2
    <2>2. /\ t \in Seq(S) /\ Len(t) = Len(u) + Len(v)
          /\ \A i \in 1..(Len(u) + Len(v)) :
                t[i] = IF i <= Len(u) THEN u[i] ELSE v[i - Len(u)]
      BY <1>1, <1>2, ConcatProperties
    <2> HIDE DEF t
    <2>3. QED
      BY <2>1, <2>2
  <1> HIDE DEF t
  <1>4. ASSUME NEW i \in 1..e PROVE t[i] = w[i]
    <2>1. w[i] = s[i] /\ t[i] = IF i <= a THEN u[i] ELSE v[i - a]
      BY <1>1, <1>3
    <2>2. CASE i <= a
      BY <1>1, <2>1, <2>2
    <2>3. CASE ~(i <= a)
      <3> DEFINE j == i - a
      <3>1. j \in 1..(e - a) /\ a + j = i
        BY <2>3
      <3> HIDE DEF j
      <3>2. v[j] = s[i]
        BY <1>2, <3>1
      <3>3. QED
        BY <2>1, <2>3, <3>2 DEF j
    <2>4. QED
      BY <2>2, <2>3
  <1>5. Len(t) = e /\ Len(w) = e
    BY <1>1, <1>3
  <1>6. t = w
    BY <1>1, <1>3, <1>4, <1>5, SeqEqual
  <1>7. QED
    BY <1>1, <1>6 DEF t, u, v, w

-----------------------------------------------------------------------------
(* Folds, as a step taken for one member after the other.                  *)

(* The function on sets of places that FoldLeft computes, from the step    *)
(* that takes a member in.                                                 *)
FoldsUp(h, D, base, step, s) ==
    \A T \in SUBSET D :
        h[T] = IF T = {} THEN base ELSE step[<<h[T \ {Max(T)}], s[Max(T)]>>]

LEMMA GreatestIsMax ==
    ASSUME NEW R \in SUBSET Nat, NEW n \in R, \A m \in R : m <= n
    PROVE  Max(R) = n
  <1>1. \E x \in R : \A y \in R : x >= y
    OBVIOUS
  <1>2. Max(R) \in R /\ \A y \in R : Max(R) >= y
    BY <1>1 DEF Max
  <1>3. Max(R) >= n /\ Max(R) <= n /\ Max(R) \in Nat /\ n \in Nat
    BY <1>2
  <1>4. QED
    BY <1>3

LEMMA FiniteHasMax ==
    ASSUME NEW n \in Nat, NEW T \in SUBSET (1..n), T # {}
    PROVE  Max(T) \in T /\ \A m \in T : m <= Max(T)
  <1> DEFINE up == {k \in 0..n : \A m \in T : m <= n - k}
             R == {k \in Nat : \E m \in T : m >= n - k}
  <1>1. R # {} /\ R \subseteq Nat
    <2>1. PICK m \in T : TRUE
      OBVIOUS
    <2>2. n - m \in R
      BY <2>1
    <2>3. QED
      BY <2>2
  <1>2. PICK k \in R : \A j \in R : k <= j
    <2> HIDE DEF R
    <2> QED BY <1>1, LeastMember
  <1>3. PICK m \in T : m >= n - k
    BY <1>2
  <1>4. \A x \in T : x <= m
    <2> SUFFICES ASSUME NEW x \in T, ~(x <= m) PROVE FALSE
      OBVIOUS
    <2>1. n - x \in R /\ n - x < k
      BY <1>3
    <2>2. QED
      BY <1>2, <2>1
  <1>5. Max(T) = m
    BY <1>4, GreatestIsMax
  <1>6. QED
    BY <1>4, <1>5

LEMMA FoldExists ==
    ASSUME NEW S, NEW A, NEW base \in S, NEW step \in [S \X A -> S], NEW s \in Seq(A)
    PROVE  \E h : h \in [SUBSET (DOMAIN s) -> S] /\ FoldsUp(h, DOMAIN s, base, step, s)
  <1> DEFINE P(n) == \E h : h \in [SUBSET (1..n) -> S] /\ FoldsUp(h, 1..n, base, step, s)
             N == {n \in Nat : n <= Len(s) => P(n)}
  <1>1. 0 \in N
    <2> DEFINE h == [T \in SUBSET (1..0) |-> base]
    <2>1. \A T \in SUBSET (1..0) : T = {}
      OBVIOUS
    <2>2. h \in [SUBSET (1..0) -> S] /\ FoldsUp(h, 1..0, base, step, s)
      BY <2>1 DEF FoldsUp
    <2>3. QED
      BY <2>2
  <1>2. ASSUME NEW n \in Nat, n \in N PROVE n + 1 \in N
    <2> SUFFICES ASSUME n + 1 <= Len(s) PROVE P(n + 1)
      <3> HIDE DEF P
      <3> QED OBVIOUS
    <2>0. P(n)
      <3> HIDE DEF P
      <3> QED BY <1>2
    <2>1. PICK h : h \in [SUBSET (1..n) -> S] /\ FoldsUp(h, 1..n, base, step, s)
      BY <2>0
    <2> DEFINE k == n + 1
               old(T) == T \ {k}
               g == [T \in SUBSET (1..k) |-> IF k \in T THEN step[<<h[old(T)], s[k]>>] ELSE h[T]]
    <2>2. s[k] \in A
      OBVIOUS
    <2>3. \A T \in SUBSET (1..k) : old(T) \in SUBSET (1..n) /\ (k \notin T => T \in SUBSET (1..n))
      OBVIOUS
    <2>4. g \in [SUBSET (1..k) -> S]
      <3> SUFFICES ASSUME NEW T \in SUBSET (1..k) 
                   PROVE  (IF k \in T THEN step[<<h[old(T)], s[k]>>] ELSE h[T]) \in S
        OBVIOUS
      <3>1. h[old(T)] \in S /\ (k \notin T => h[T] \in S)
        BY <2>1, <2>3
      <3> HIDE DEF old, k
      <3>2. <<h[old(T)], s[k]>> \in S \X A
        BY <2>2, <3>1
      <3>3. QED
        BY <3>1, <3>2
    <2>5. ASSUME NEW T \in SUBSET (1..k)
          PROVE  g[T] = IF T = {} THEN base ELSE step[<<g[T \ {Max(T)}], s[Max(T)]>>]
      <3>1. CASE k \in T
        <4>1. Max(T) = k
          <5>1. \A m \in T : m <= k
            OBVIOUS
          <5>2. QED
            BY <3>1, <5>1, GreatestIsMax
        <4>2. g[old(T)] = h[old(T)]
          BY <2>3
        <4>3. g[T] = step[<<h[old(T)], s[k]>>]
          BY <3>1
        <4> HIDE DEF g, k
        <4>4. QED
          BY <3>1, <4>1, <4>2, <4>3
      <3>2. CASE k \notin T
        <4>1. T \in SUBSET (1..n) /\ g[T] = h[T]
          BY <2>3, <3>2
        <4>2. h[T] = IF T = {} THEN base ELSE step[<<h[T \ {Max(T)}], s[Max(T)]>>]
          BY <2>1, <4>1 DEF FoldsUp
        <4>3. T \ {Max(T)} \in SUBSET (1..k) /\ k \notin T \ {Max(T)}
          BY <3>2
        <4>4. g[T \ {Max(T)}] = h[T \ {Max(T)}]
          BY <4>3
        <4> HIDE DEF g
        <4>5. QED
          BY <4>1, <4>2, <4>4
      <3>3. QED
        BY <3>1, <3>2
    <2>6. FoldsUp(g, 1..k, base, step, s)
      BY <2>5 DEF FoldsUp
    <2> HIDE DEF g
    <2>7. QED
      BY <2>4, <2>6
  <1>3. Nat \subseteq N
    <2> HIDE DEF N
    <2> QED BY <1>1, <1>2, SetInduction
  <1>4. Len(s) \in Nat /\ DOMAIN s = 1..Len(s)
    OBVIOUS
  <1>5. P(Len(s))
    <2> HIDE DEF P
    <2> QED BY <1>3, <1>4
  <1>6. QED
    BY <1>4, <1>5

(* What it is for the first places, one after the other.                   *)
Runs(g, base, step, s) ==
    g[0] = base /\ \A n \in 1..Len(s) : g[n] = step[<<g[n - 1], s[n]>>]

TakesIn(h, S, base, step, s) ==
    /\ h[{}] = base
    /\ \A n \in 1..Len(s) :
          h[1..(n - 1)] \in S => h[1..n] = step[<<h[1..(n - 1)], s[n]>>]

(* v is what s is folded to.                                               *)
FoldsTo(v, S, base, step, s) ==
    \E g \in [0..Len(s) -> S] : Runs(g, base, step, s) /\ v = g[Len(s)]

LEMMA FoldRuns ==
    ASSUME NEW S, NEW A, NEW base \in S, NEW step \in [S \X A -> S], NEW s \in Seq(A),
           NEW h, TakesIn(h, S, base, step, s)
    PROVE  FoldsTo(h[DOMAIN s], S, base, step, s)
  <1> DEFINE g == [n \in 0..Len(s) |-> h[1..n]]
             N == {n \in Nat : n <= Len(s) => h[1..n] \in S}
  <1>1. Len(s) \in Nat /\ DOMAIN s = 1..Len(s) /\ 1..0 = {}
    OBVIOUS
  <1>0. /\ h[{}] = base
        /\ \A n \in 1..Len(s) :
              h[1..(n - 1)] \in S => h[1..n] = step[<<h[1..(n - 1)], s[n]>>]
    BY DEF TakesIn
  <1>2. 0 \in N
    BY <1>0, <1>1
  <1>3. ASSUME NEW n \in Nat, n \in N PROVE n + 1 \in N
    <2> SUFFICES ASSUME n + 1 <= Len(s) PROVE h[1..(n + 1)] \in S
      OBVIOUS
    <2>1. n + 1 \in 1..Len(s) /\ n + 1 - 1 = n /\ s[n + 1] \in A
      BY <1>1
    <2>2. h[1..n] \in S
      BY <1>1, <1>3
    <2>3. <<h[1..n], s[n + 1]>> \in S \X A
      BY <2>1, <2>2
    <2>4. QED
      BY <1>0, <2>1, <2>2, <2>3
  <1>4. Nat \subseteq N
    <2> HIDE DEF N
    <2> QED BY <1>2, <1>3, SetInduction
  <1>5. \A n \in 0..Len(s) : h[1..n] \in S
    BY <1>1, <1>4
  <1>6. g \in [0..Len(s) -> S]
    BY <1>5
  <1>7. Runs(g, base, step, s)
    <2>1. g[0] = base
      BY <1>0, <1>1
    <2>2. ASSUME NEW n \in 1..Len(s) PROVE g[n] = step[<<g[n - 1], s[n]>>]
      <3>1. n - 1 \in 0..Len(s) /\ n \in 0..Len(s)
        BY <1>1
      <3>2. h[1..n] = step[<<h[1..(n - 1)], s[n]>>]
        BY <1>0, <1>5, <3>1
      <3>3. QED
        BY <3>1, <3>2
    <2>3. QED
      BY <2>1, <2>2 DEF Runs
  <1>8. h[DOMAIN s] = g[Len(s)]
    BY <1>1
  <1>9. QED
    BY <1>6, <1>7, <1>8 DEF FoldsTo

LEMMA FoldPlaces ==
    ASSUME NEW A, NEW s \in Seq(A)
    PROVE  /\ \A T \in SUBSET (DOMAIN s) : T # {} => s[Max(T)] \in A /\ T \ {Max(T)} \in SUBSET (DOMAIN s)
           /\ \A n \in 1..Len(s) : /\ 1..n \in SUBSET (DOMAIN s) /\ 1..n # {}
                                   /\ Max(1..n) = n /\ (1..n) \ {n} = 1..(n - 1)
           /\ {} \in SUBSET (DOMAIN s) /\ DOMAIN s = 1..Len(s) /\ Len(s) \in Nat
  <1>1. DOMAIN s = 1..Len(s) /\ Len(s) \in Nat
    OBVIOUS
  <1>2. ASSUME NEW T \in SUBSET (DOMAIN s), T # {} PROVE s[Max(T)] \in A
    <2>1. Max(T) \in T
      BY <1>1, <1>2, FiniteHasMax
    <2>2. QED
      BY <2>1
  <1>3. ASSUME NEW n \in 1..Len(s) PROVE Max(1..n) = n
    <2>1. 1..n \in SUBSET Nat /\ n \in 1..n /\ \A m \in 1..n : m <= n
      BY <1>1
    <2> DEFINE R == 1..n
    <2> HIDE DEF R
    <2>2. Max(R) = n
      BY <2>1, GreatestIsMax DEF R
    <2>3. QED
      BY <2>2 DEF R
  <1>4. QED
    BY <1>1, <1>2, <1>3

LEMMA LeastIsMin ==
    ASSUME NEW R, R \subseteq Nat, R # {}
    PROVE  Min(R) \in R /\ \A m \in R : Min(R) <= m
  <1>1. \E n \in R : \A m \in R : n <= m
    BY LeastMember
  <1>2. QED
    BY <1>1 DEF Min
=============================================================================
