---------------------------- MODULE ToolsProofs ----------------------------
(***************************************************************************)
(* Proofs about the programs that read a log.  stats.c: the batches do not *)
(* depend on how the input is cut into pieces, for any lines, any size of  *)
(* a batch and any size of a read.  QueryRead.cpp: a report says of each   *)
(* kind of line what the lines of the log say, for any log, window and     *)
(* size of the tables.                                                     *)
(***************************************************************************)
EXTENDS StatsBatches, QueryRead, SequenceLemmas, FiniteSetTheorems

Char == Nat \X {"a", "b", "end"}
StatRows == input.lines
Three(i) == Chars(i) \o <<Newline>>

LEMMA ThreeChars ==
    ASSUME NEW i \in Nat
    PROVE  /\ Three(i) \in Seq(Char) /\ Len(Three(i)) = 3
           /\ Three(i)[1] = <<i, "a">> /\ Three(i)[2] = <<i, "b">> /\ Three(i)[3] = Newline
  <1> DEFINE c == Chars(i)
             e == <<Newline>>
  <1>1. /\ c \in Seq(Char) /\ Len(c) = 2 /\ c[1] = <<i, "a">> /\ c[2] = <<i, "b">>
        /\ e \in Seq(Char) /\ Len(e) = 1 /\ e[1] = Newline
    BY DEF Chars, Newline, Char
  <1> HIDE DEF c, e, Char
  <1>2. /\ c \o e \in Seq(Char) /\ Len(c \o e) = 3
        /\ \A k \in 1..(2 + 1) : (c \o e)[k] = IF k <= 2 THEN c[k] ELSE e[k - 2]
    BY <1>1, ConcatProperties
  <1>3. (c \o e)[1] = c[1] /\ (c \o e)[2] = c[2] /\ (c \o e)[3] = e[1]
    BY <1>2
  <1>4. QED
    BY <1>1, <1>2, <1>3 DEF Three, c, e

(* The text of k lines: three characters each.                             *)
Laid(s, k) ==
    /\ s \in Seq(Char) /\ Len(s) = 3 * k
    /\ \A n \in Nat : n < k => /\ s[3 * n + 1] = <<n + 1, "a">>
                               /\ s[3 * n + 2] = <<n + 1, "b">>
                               /\ s[3 * n + 3] = Newline

LEMMA LaidLines ==
    ASSUME NEW k \in Nat
    PROVE  Laid(FlattenSeq([i \in 1..k |-> Three(i)]), k)
  <1> DEFINE S(m) == [i \in 1..m |-> Three(i)]
             T == {m \in Nat : Laid(FlattenSeq(S(m)), m)}
  <1>1. 0 \in T
    <2>1. S(0) = <<>>
      OBVIOUS
    <2>2. FlattenSeq(S(0)) = <<>>
      <3> HIDE DEF S
      <3> QED BY <2>1, FlattenEmpty
    <2>3. Laid(<<>>, 0)
      <3>1. <<>> \in Seq(Char) /\ Len(<<>>) = 0
        BY EmptySeq
      <3> HIDE DEF Char
      <3>2. QED
        BY <3>1 DEF Laid
    <2> HIDE DEF S
    <2>4. QED
      BY <2>2, <2>3
  <1>2. ASSUME NEW m \in Nat, m \in T PROVE m + 1 \in T
    <2> DEFINE a == S(m)
               x == Three(m + 1)
               s == FlattenSeq(a)
    <2>1. Laid(s, m)
      BY <1>2
    <2>2. /\ x \in Seq(Char) /\ Len(x) = 3
          /\ x[1] = <<m + 1, "a">> /\ x[2] = <<m + 1, "b">> /\ x[3] = Newline
      BY ThreeChars
    <2>3. a \in Seq(Seq(Char)) /\ Len(a) = m
      <3>1. \A i \in 1..m : Three(i) \in Seq(Char)
        BY ThreeChars
      <3> DEFINE V == Seq(Char)
      <3> HIDE DEF V
      <3>2. QED
        BY <3>1 DEF V
    <2>4. S(m + 1) = Append(a, x)
      <3> HIDE DEF x
      <3>1. \A i \in 1..(m + 1) : Append(a, x)[i] = Three(i)
        BY <2>3 DEF x
      <3>2. Append(a, x) = [i \in 1..(m + 1) |-> Append(a, x)[i]]
        BY <2>3
      <3>3. QED
        BY <3>1, <3>2
    <2>5. FlattenSeq(S(m + 1)) = s \o x
      <3> HIDE DEF S, x, a
      <3>1. FlattenSeq(Append(a, x)) = FlattenSeq(a) \o x
        BY <2>2, <2>3, FlattenAppend
      <3>2. QED
        BY <2>4, <3>1
    <2>6. /\ s \in Seq(Char) /\ Len(s) = 3 * m
          /\ \A n \in Nat : n < m => /\ s[3 * n + 1] = <<n + 1, "a">>
                                     /\ s[3 * n + 2] = <<n + 1, "b">>
                                     /\ s[3 * n + 3] = Newline
      BY <2>1 DEF Laid
    <2> HIDE DEF S, x, a, s, Char, T
    <2> DEFINE y == s \o x
    <2>7. /\ y \in Seq(Char) /\ Len(y) = 3 * m + 3
          /\ \A j \in 1..(3 * m + 3) : y[j] = IF j <= 3 * m THEN s[j] ELSE x[j - 3 * m]
      <3>1. /\ s \o x \in Seq(Char) /\ Len(s \o x) = Len(s) + Len(x)
            /\ \A j \in 1..(Len(s) + Len(x)) :
                  (s \o x)[j] = IF j <= Len(s) THEN s[j] ELSE x[j - Len(s)]
        BY <2>2, <2>6, ConcatProperties
      <3> HIDE DEF y
      <3>2. Len(s) + Len(x) = 3 * m + 3 /\ Len(s) = 3 * m
        BY <2>2, <2>6
      <3>3. QED
        BY <3>1, <3>2 DEF y
    <2> HIDE DEF y
    <2>8. ASSUME NEW n \in Nat, n < m + 1
          PROVE  /\ y[3 * n + 1] = <<n + 1, "a">> /\ y[3 * n + 2] = <<n + 1, "b">>
                 /\ y[3 * n + 3] = Newline
      <3>1. CASE n < m
        BY <2>6, <2>7, <3>1
      <3>2. CASE ~(n < m)
        <4>1. n = m
          BY <2>8, <3>2
        <4>2. y[3 * m + 1] = x[1] /\ y[3 * m + 2] = x[2] /\ y[3 * m + 3] = x[3]
          BY <2>7
        <4>3. QED
          BY <2>2, <4>1, <4>2
      <3>3. QED
        BY <3>1, <3>2
    <2>9. Laid(y, m + 1)
      BY <2>7, <2>8 DEF Laid
    <2>10. Laid(FlattenSeq(S(m + 1)), m + 1)
      BY <2>5, <2>9 DEF y
    <2>11. QED
      BY <2>10 DEF T
  <1>3. Nat \subseteq T
    <2> HIDE DEF T
    <2> QED BY <1>1, <1>2, SetInduction
  <1>4. QED
    BY <1>3

(* What read() can find at each place of the input.                        *)
LEMMA StreamChars ==
    ASSUME input \in Inputs
    PROVE  /\ StatRows \in Seq(StatLines) /\ Len(StatRows) \in Nat
           /\ Len(Stream) \in Nat /\ Len(Stream) <= 3 * Len(StatRows)
           /\ \A n \in Nat :
                 /\ 3 * n + 1 <= Len(Stream) => Stream[3 * n + 1] = <<n + 1, "a">>
                 /\ 3 * n + 2 <= Len(Stream) => Stream[3 * n + 2] = <<n + 1, "b">>
                 /\ 3 * n + 3 <= Len(Stream) => Stream[3 * n + 3] = Newline
  <1>1. StatRows \in Seq(StatLines) /\ Len(StatRows) \in Nat /\ DOMAIN StatRows = 1..Len(StatRows)
    <2>1. PICK m \in 0..MaxStatLines : StatRows \in [1..m -> StatLines]
      BY DEF Inputs, BoundedSeq, SeqOf, StatRows
    <2>2. m \in Nat
      BY <2>1
    <2>3. QED
      BY <2>1, <2>2
  <1> DEFINE all == FlattenSeq([i \in DOMAIN StatRows |-> Three(i)])
             L == Len(StatRows)
  <1>2. Laid(all, L)
    <2>1. DOMAIN StatRows = 1..L /\ L \in Nat
      BY <1>1
    <2> HIDE DEF L
    <2>2. QED
      BY <2>1, LaidLines
  <1>3. Stream = all \/ (all # <<>> /\ Stream = Front(all))
    BY DEF Stream, Three, StatRows
  <1> HIDE DEF all, L
  <1>4. L \in Nat /\ all \in Seq(Char) /\ Len(all) = 3 * L
        /\ \A n \in Nat : n < L => /\ all[3 * n + 1] = <<n + 1, "a">>
                                   /\ all[3 * n + 2] = <<n + 1, "b">>
                                   /\ all[3 * n + 3] = Newline
    BY <1>1, <1>2 DEF Laid, L
  <1>5. /\ Len(Stream) \in Nat /\ Len(Stream) <= 3 * L
        /\ \A j \in 1..Len(Stream) : Stream[j] = all[j]
    <2>1. CASE Stream = all
      BY <1>4, <2>1
    <2>2. CASE all # <<>> /\ Stream = Front(all)
      <3> DEFINE e == Len(all) - 1
      <3>1. e \in Nat /\ 0 <= e /\ e <= Len(all)
        BY <1>4, <2>2, EmptySeq, LenProperties
      <3>2. Stream = SubSeq(all, 0 + 1, e)
        BY <2>2 DEF Front
      <3> HIDE DEF e, Char
      <3>3. /\ Len(SubSeq(all, 0 + 1, e)) = e - 0
            /\ \A i \in 1..(e - 0) : SubSeq(all, 0 + 1, e)[i] = all[0 + i]
        BY <1>4, <3>1, CutOf
      <3>4. QED
        BY <1>4, <3>1, <3>2, <3>3
    <2>3. QED
      BY <1>3, <2>1, <2>2
  <1>6. \A n \in Nat :
           /\ 3 * n + 1 <= Len(Stream) => Stream[3 * n + 1] = <<n + 1, "a">>
           /\ 3 * n + 2 <= Len(Stream) => Stream[3 * n + 2] = <<n + 1, "b">>
           /\ 3 * n + 3 <= Len(Stream) => Stream[3 * n + 3] = Newline
    <2> SUFFICES ASSUME NEW n \in Nat
                 PROVE  /\ 3 * n + 1 <= Len(Stream) => Stream[3 * n + 1] = <<n + 1, "a">>
                        /\ 3 * n + 2 <= Len(Stream) => Stream[3 * n + 2] = <<n + 1, "b">>
                        /\ 3 * n + 3 <= Len(Stream) => Stream[3 * n + 3] = Newline
      OBVIOUS
    <2>1. 3 * n + 1 <= Len(Stream) => n < L
      BY <1>4, <1>5
    <2>2. QED
      BY <1>4, <1>5, <2>1
  <1>7. QED
    BY <1>1, <1>5, <1>6 DEF L

-----------------------------------------------------------------------------
LEMMA Quotient ==
    ASSUME NEW n \in Nat \ {0}, NEW q \in Nat, NEW r \in 0..(n - 1)
    PROVE  /\ n * q \in Nat /\ n * (q + 1) = n * q + n
           /\ (n * q + r) \div n = q /\ (n * q + r) % n = r
  BY SMTT(30)

StampType == Nat \cup {row.time : row \in StatLines}
ValueType == {0} \cup {row.value : row \in StatLines}
Pair      == StampType \X ValueType

(* What calc() should get for the lines of w.                              *)
PairAt(w, i) ==
    <<IF w[i].time = NoStamp THEN (i - 1) % number ELSE w[i].time, w[i].value>>
Pairs(w) == [i \in 1..Len(w) |-> PairAt(w, i)]

(* The batches b and the first v places of t and u hold it.                *)
Waiting(b, t, u, v, w) ==
    /\ Len(w) = number * Len(b) + v
    /\ FlattenSeq(b) = SubSeq(Pairs(w), 1, number * Len(b))
    /\ \A i \in 1..v : <<t[i], u[i]>> = Pairs(w)[number * Len(b) + i]

LEMMA PairsType ==
    ASSUME NEW w \in Seq(StatLines)
    PROVE  Pairs(w) \in Seq(Pair) /\ Len(Pairs(w)) = Len(w)
  <1>1. Len(w) \in Nat /\ \A i \in 1..Len(w) : w[i] \in StatLines
    BY LenProperties, ElementOfSeq
  <1>2. \A i \in 1..Len(w) : PairAt(w, i) \in Pair
    <2> SUFFICES ASSUME NEW i \in 1..Len(w) PROVE PairAt(w, i) \in Pair
      OBVIOUS
    <2>1. w[i].time \in StampType /\ w[i].value \in ValueType
      BY <1>1 DEF StampType, ValueType
    <2>2. (i - 1) % number \in StampType
      <3>1. i - 1 \in Nat
        BY <1>1
      <3>2. (i - 1) % number \in Nat
        BY <3>1, StatsAssumption
      <3>3. QED
        BY <3>2 DEF StampType
    <2>3. QED
      BY <2>1, <2>2 DEF PairAt, Pair
  <1>3. QED
    BY <1>1, <1>2 DEF Pairs

(* A line more is a pair more.                                             *)
LEMMA PairsGrow ==
    ASSUME NEW w \in Seq(StatLines), NEW row \in StatLines
    PROVE  /\ Append(w, row) \in Seq(StatLines) /\ Len(Append(w, row)) = Len(w) + 1
           /\ \A i \in 1..Len(w) : Pairs(Append(w, row))[i] = Pairs(w)[i]
           /\ Pairs(Append(w, row))[Len(w) + 1] =
                 <<IF row.time = NoStamp THEN Len(w) % number ELSE row.time, row.value>>
  <1> DEFINE x == Append(w, row)
             n == Len(w)
  <1>1. /\ x \in Seq(StatLines) /\ Len(x) = n + 1 /\ n \in Nat /\ x[n + 1] = row
        /\ \A i \in 1..n : x[i] = w[i]
    BY AppendProperties, LenProperties
  <1> HIDE DEF x
  <1>2. \A i \in 1..n : Pairs(x)[i] = Pairs(w)[i]
    BY <1>1 DEF Pairs, PairAt
  <1>3. Pairs(x)[n + 1] = PairAt(x, n + 1) /\ n + 1 - 1 = n
    BY <1>1 DEF Pairs
  <1>4. QED
    BY <1>1, <1>2, <1>3 DEF x, PairAt

(* A time that is noted for the next place changes none that waits.        *)
LEMMA TimeNoted ==
    ASSUME NEW b, NEW t, NEW u, NEW v \in 0..(number - 1), NEW w, NEW time,
           DOMAIN t = 1..number, Waiting(b, t, u, v, w)
    PROVE  Waiting(b, [t EXCEPT ![v + 1] = time], u, v, w)
  <1>1. \A i \in 1..v : i # v + 1 /\ i \in 1..number
    BY StatsAssumption
  <1>2. \A i \in 1..v : [t EXCEPT ![v + 1] = time][i] = t[i]
    BY <1>1
  <1>3. QED
    BY <1>2 DEF Waiting

Put(f, v, x)  == [f EXCEPT ![v + 1] = x]
Stamp(row, v) == IF row.time = NoStamp THEN v ELSE row.time
BatchOf(t, u) == [i \in 1..number |-> <<t[i], u[i]>>]

LEMMA AsSequence ==
    ASSUME NEW S, NEW n \in Nat, NEW t, NEW u, \A i \in 1..n : <<t[i], u[i]>> \in S
    PROVE  /\ [i \in 1..n |-> <<t[i], u[i]>>] \in Seq(S)
           /\ Len([i \in 1..n |-> <<t[i], u[i]>>]) = n
  OBVIOUS

LEMMA PairAdded ==
    ASSUME NEW b \in Seq(Seq(Pair)), NEW t \in [1..number -> StampType],
           NEW u \in [1..number -> ValueType], NEW v \in 0..(number - 1),
           NEW w \in Seq(StatLines), NEW row \in StatLines,
           Waiting(b, t, u, v, w)
    PROVE  LET t1    == Put(t, v, Stamp(row, v))
               u1    == Put(u, v, row.value)
               batch == BatchOf(t1, u1)
           IN  /\ v + 1 < number => Waiting(b, t1, u1, v + 1, Append(w, row))
               /\ v + 1 = number => /\ Waiting(Append(b, batch), t1, u1, 0, Append(w, row))
                                    /\ Append(b, batch) \in Seq(Seq(Pair))
  <1> DEFINE x == Append(w, row)
             p == Pairs(w)
             r == Pairs(x)
             q == Len(b)
             d == number * q
             n == Len(w)
             t1 == Put(t, v, Stamp(row, v))
             u1 == Put(u, v, row.value)
             batch == BatchOf(t1, u1)
  <1>1. number \in Nat /\ number # 0 /\ v \in Nat /\ v < number /\ q \in Nat
    BY StatsAssumption, LenProperties
  <1>2. d \in Nat /\ number * (q + 1) = d + number /\ (d + v) % number = v
    <2> HIDE DEF q
    <2>1. number \in Nat \ {0} /\ v \in 0..(number - 1)
      BY <1>1
    <2>2. QED
      BY <1>1, <2>1, Quotient
  <1>3. n = d + v /\ FlattenSeq(b) = SubSeq(p, 1, d) /\ \A i \in 1..v : <<t[i], u[i]>> = p[d + i]
    BY DEF Waiting
  <1>4. /\ x \in Seq(StatLines) /\ Len(x) = n + 1
        /\ \A i \in 1..n : r[i] = p[i]
        /\ r[n + 1] = <<IF row.time = NoStamp THEN n % number ELSE row.time, row.value>>
        /\ p \in Seq(Pair) /\ Len(p) = n /\ r \in Seq(Pair) /\ Len(r) = n + 1
    <2>1. x \in Seq(StatLines) /\ Len(x) = n + 1
      BY PairsGrow
    <2>2. /\ \A i \in 1..n : r[i] = p[i]
          /\ r[n + 1] = <<IF row.time = NoStamp THEN n % number ELSE row.time, row.value>>
      BY PairsGrow
    <2> HIDE DEF x
    <2>3. p \in Seq(Pair) /\ Len(p) = n /\ r \in Seq(Pair) /\ Len(r) = n + 1
      BY <2>1, PairsType
    <2>4. QED
      BY <2>1, <2>2, <2>3
  <1>5. d \in Nat /\ n = d + v /\ n \in Nat /\ v \in Nat /\ number \in Nat /\ v < number
    BY <1>1, <1>2, <1>3
  <1> HIDE DEF batch
  <1>6. \A i \in 1..(v + 1) : <<t1[i], u1[i]>> = r[d + i]
    <2> SUFFICES ASSUME NEW i \in 1..(v + 1) PROVE <<t1[i], u1[i]>> = r[d + i]
      OBVIOUS
    <2> HIDE DEF p, r, d, n, x
    <2>1. CASE i = v + 1
      <3>1. v + 1 \in 1..number
        BY <1>1
      <3>2. t1[v + 1] = (IF row.time = NoStamp THEN v ELSE row.time) /\ u1[v + 1] = row.value
        BY <3>1 DEF Put, Stamp
      <3>3. d + (v + 1) = n + 1 /\ n % number = v
        BY <1>1, <1>2, <1>3
      <3>4. QED
        BY <1>4, <2>1, <3>2, <3>3
    <2>2. CASE i # v + 1
      <3>1. i \in 1..v /\ i \in 1..number /\ d + i \in 1..n
        BY <1>5, <2>2
      <3>2. t1[i] = t[i] /\ u1[i] = u[i]
        BY <2>2, <3>1 DEF Put
      <3>3. QED
        BY <1>3, <1>4, <3>1, <3>2
    <2>3. QED
      BY <2>1, <2>2
  <1>7. SubSeq(r, 1, d) = SubSeq(p, 1, d)
    <2> HIDE DEF p, r, d, n, x
    <2>1. d \in Nat /\ d <= n /\ n \in Nat
      BY <1>5
    <2>2. \A i \in 1..d : i \in 1..n
      BY <2>1
    <2>3. \A i \in 1..d : r[i] = p[i]
      BY <1>4, <2>2
    <2>4. QED
      BY <2>1, <2>3
  <1>8. ASSUME v + 1 < number PROVE Waiting(b, t1, u1, v + 1, x)
    <2>1. Len(x) = d + (v + 1)
      BY <1>1, <1>2, <1>3, <1>4
    <2>2. QED
      BY <1>3, <1>6, <1>7, <2>1 DEF Waiting
  <1>9. ASSUME v + 1 = number
        PROVE  Waiting(Append(b, batch), t1, u1, 0, x) /\ Append(b, batch) \in Seq(Seq(Pair))
    <2>1. batch \in Seq(Pair) /\ Len(batch) = number /\ \A i \in 1..number : batch[i] = r[d + i]
      <3>1. \A i \in 1..number : <<t1[i], u1[i]>> = r[d + i]
        BY <1>6, <1>9
      <3> HIDE DEF p, r, d, n, x
      <3>2. \A i \in 1..number : d + i \in 1..(n + 1)
        BY <1>9, <1>5
      <3>3. \A i \in 1..number : r[d + i] \in Pair
        <4> HIDE DEF Pair
        <4>1. \A j \in 1..(n + 1) : r[j] \in Pair
          BY <1>4, ElementOfSeq
        <4>2. QED
          BY <3>2, <4>1
      <3>4. \A i \in 1..number : batch[i] = r[d + i]
        BY <3>1 DEF BatchOf, batch
      <3>5. batch \in Seq(Pair) /\ Len(batch) = number
        <4> HIDE DEF t1, u1, Pair
        <4>1. \A i \in 1..number : <<t1[i], u1[i]>> \in Pair
          BY <3>1, <3>3
        <4>2. QED
          BY <1>5, <4>1, AsSequence DEF BatchOf, batch
      <3>6. QED
        BY <3>4, <3>5
    <2> DEFINE b1 == Append(b, batch)
    <2> HIDE DEF batch, p, r, d, x, n, q
    <2>2. b1 \in Seq(Seq(Pair)) /\ Len(b1) = q + 1
      <3> DEFINE V == Seq(Pair)
      <3>1. b \in Seq(V) /\ batch \in V
        BY <2>1
      <3> HIDE DEF V
      <3>2. Append(b, batch) \in Seq(V) /\ Len(Append(b, batch)) = Len(b) + 1
        BY <3>1, AppendProperties
      <3>3. QED
        BY <3>2 DEF V, q
    <2>3. FlattenSeq(b1) = FlattenSeq(b) \o batch
      <3> HIDE DEF Pair
      <3> QED BY <2>1, FlattenAppend
    <2>4. d + number = n + 1 /\ d \in Nat /\ d <= d + number /\ d + number <= Len(r)
      BY <1>1, <1>2, <1>3, <1>4, <1>9
    <2>5. SubSeq(r, d + 1, d + number) = batch
      <3> DEFINE c == SubSeq(r, d + 1, d + number)
                 e == d + number
      <3> HIDE DEF e, Pair
      <3>1. d \in Nat /\ e \in Nat /\ d <= e /\ e <= Len(r) /\ e - d = number
        BY <1>1, <2>4 DEF e
      <3>2. /\ SubSeq(r, d + 1, e) \in Seq(Pair) /\ Len(SubSeq(r, d + 1, e)) = e - d
            /\ \A i \in 1..(e - d) : SubSeq(r, d + 1, e)[i] = r[d + i]
        BY <1>4, <3>1, CutOf
      <3> HIDE DEF c
      <3>3. c \in Seq(Pair) /\ Len(c) = number /\ \A i \in 1..number : c[i] = batch[i]
        BY <2>1, <3>1, <3>2 DEF c, e
      <3>4. c = batch
        BY <2>1, <3>3, SeqEqual
      <3>5. QED
        BY <3>4 DEF c
    <2>6. SubSeq(r, 1, d + number) = SubSeq(r, 1, d) \o SubSeq(r, d + 1, d + number)
      <3> DEFINE e == d + number
      <3>1. d \in Nat /\ e \in Nat /\ d <= e /\ e <= Len(r)
        BY <1>1, <2>4
      <3> HIDE DEF e, Pair
      <3>2. SubSeq(r, 1, e) = SubSeq(r, 1, d) \o SubSeq(r, d + 1, e)
        BY <1>4, <3>1, JoinCuts
      <3>3. QED
        BY <3>2 DEF e
    <2>7. FlattenSeq(b1) = SubSeq(r, 1, d + number)
      BY <1>3, <1>7, <2>3, <2>5, <2>6
    <2>8. number * Len(b1) = d + number
      BY <1>2, <2>2
    <2>9. Len(x) = number * Len(b1) + 0
      BY <1>1, <1>4, <2>4, <2>8
    <2>10. FlattenSeq(b1) = SubSeq(Pairs(x), 1, number * Len(b1))
      BY <2>7, <2>8 DEF r
    <2> HIDE DEF b1
    <2>11. \A i \in 1..0 : <<t1[i], u1[i]>> = Pairs(x)[number * Len(b1) + i]
      OBVIOUS
    <2>12. Waiting(b1, t1, u1, 0, x)
      BY <2>9, <2>10, <2>11 DEF Waiting
    <2>13. QED
      BY <2>2, <2>12 DEF b1
  <1>10. QED
    BY <1>8, <1>9 DEF batch

-----------------------------------------------------------------------------
(* The lines wanted are those of one line less, and the line if it is.     *)
LEMMA WantedStep ==
    ASSUME input \in Inputs
    PROVE  /\ WantedOf[0] = <<>>
           /\ \A n \in Nat : n < Len(StatRows) =>
                 WantedOf[n + 1] = IF Wants(StatRows[n + 1])
                                   THEN Append(WantedOf[n], StatRows[n + 1])
                                   ELSE WantedOf[n]
  <1> DEFINE next(w, n) == IF Wants(StatRows[n]) THEN Append(w, StatRows[n]) ELSE w
             Upto(g, m) == g = [n \in 0..m |-> IF n = 0 THEN <<>> ELSE next(g[n - 1], n)]
             T == {m \in Nat : \E g : Upto(g, m)}
  <1>1. Len(StatRows) \in Nat
    BY StreamChars
  <1> HIDE DEF next
  <1>2. 0 \in T
    <2>1. Upto([n \in 0..0 |-> <<>>], 0)
      OBVIOUS
    <2> HIDE DEF Upto
    <2>2. QED
      BY <2>1
  <1>3. ASSUME NEW m \in Nat, m \in T PROVE m + 1 \in T
    <2>1. PICK g : Upto(g, m)
      BY <1>3
    <2> DEFINE h == [n \in 0..(m + 1) |-> IF n = m + 1 THEN next(g[m], m + 1) ELSE g[n]]
    <2>2. \A n \in 0..m : g[n] = IF n = 0 THEN <<>> ELSE next(g[n - 1], n)
      BY <2>1
    <2>3. \A n \in 0..(m + 1) : h[n] = IF n = 0 THEN <<>> ELSE next(h[n - 1], n)
      <3> SUFFICES ASSUME NEW n \in 0..(m + 1)
                   PROVE  h[n] = IF n = 0 THEN <<>> ELSE next(h[n - 1], n)
        OBVIOUS
      <3>1. CASE n = m + 1
        <4>1. h[n] = next(g[m], n) /\ n - 1 = m /\ h[m] = g[m] /\ n # 0
          BY <3>1
        <4>2. QED
          BY <4>1
      <3>2. CASE n # m + 1
        <4>1. n \in 0..m /\ h[n] = g[n] /\ (n # 0 => h[n - 1] = g[n - 1])
          BY <3>2
        <4>2. QED
          BY <2>2, <4>1
      <3>3. QED
        BY <3>1, <3>2
    <2>4. h = [n \in 0..(m + 1) |-> h[n]]
      OBVIOUS
    <2> HIDE DEF h
    <2>5. h = [n \in 0..(m + 1) |-> IF n = 0 THEN <<>> ELSE next(h[n - 1], n)]
      BY <2>3, <2>4
    <2>6. Upto(h, m + 1)
      BY <2>5
    <2>7. \E f : Upto(f, m + 1)
      <3> HIDE DEF Upto
      <3> QED BY <2>6
    <2>8. QED
      <3> HIDE DEF Upto
      <3> QED BY <2>7
  <1>4. Nat \subseteq T
    <2> HIDE DEF T
    <2> QED BY <1>2, <1>3, SetInduction
  <1>5. PICK g : Upto(g, Len(StatRows))
    BY <1>1, <1>4
  <1>6. WantedOf = [n \in 0..Len(StatRows) |-> IF n = 0 THEN <<>> ELSE next(WantedOf[n - 1], n)]
    <2>1. g = [n \in 0..Len(StatRows) |-> IF n = 0 THEN <<>> ELSE next(g[n - 1], n)]
      BY <1>5
    <2>2. QED
      BY <2>1 DEF WantedOf, next, StatRows
  <1>7. /\ WantedOf[0] = <<>>
        /\ \A n \in 0..Len(StatRows) : n # 0 => WantedOf[n] = next(WantedOf[n - 1], n)
    BY <1>1, <1>6
  <1>8. ASSUME NEW n \in Nat, n < Len(StatRows)
        PROVE  WantedOf[n + 1] = next(WantedOf[n], n + 1)
    <2>1. n + 1 \in 0..Len(StatRows) /\ n + 1 # 0 /\ n + 1 - 1 = n
      BY <1>1, <1>8
    <2>2. QED
      BY <1>7, <2>1
  <1>9. QED
    BY <1>7, <1>8 DEF next

StateType ==
    [line: Seq(Char), lineNo: Nat, times: [1..number -> StampType],
     values: [1..number -> ValueType], valueI: 0..(number - 1), batches: Seq(Seq(Pair))]

(* The end of a line of the input.                                         *)
LEMMA LineDone ==
    ASSUME NEW st \in StateType, NEW row \in StatLines, WholeLine(st.line) = row,
           NEW w \in Seq(StatLines),
           Waiting(st.batches, st.times, st.values, st.valueI, w),
           NEW s, s = EndOfLine(st), NEW w1, w1 = IF Wants(row) THEN Append(w, row) ELSE w
    PROVE  /\ s \in StateType /\ s.line = <<>> /\ s.lineNo = st.lineNo + 1
           /\ Waiting(s.batches, s.times, s.values, s.valueI, w1)
  <1> DEFINE v == st.valueI
             time == Stamp(row, v)
             t1 == Put(st.times, v, time)
             u1 == Put(st.values, v, row.value)
             kept == [st EXCEPT !.line = <<>>, !.lineNo = @ + 1]
             noted == [kept EXCEPT !.times[v + 1] = time]
             batch == BatchOf(t1, u1)
  <1>1. /\ st.times \in [1..number -> StampType] /\ st.values \in [1..number -> ValueType]
        /\ v \in 0..(number - 1) /\ st.batches \in Seq(Seq(Pair)) /\ st.lineNo \in Nat
        /\ DOMAIN st.times = 1..number /\ v + 1 \in 1..number /\ v \in Nat
        /\ number \in Nat /\ number # 0
    BY StatsAssumption DEF StateType
  <1>2. t1 \in [1..number -> StampType] /\ u1 \in [1..number -> ValueType]
    <2>1. time \in StampType /\ row.value \in ValueType
      BY <1>1 DEF StampType, ValueType, Stamp
    <2> HIDE DEF time, v
    <2>2. QED
      BY <1>1, <2>1 DEF Put
  <1>3. kept = [line |-> <<>>, lineNo |-> st.lineNo + 1, times |-> st.times,
                values |-> st.values, valueI |-> v, batches |-> st.batches]
    <2> DEFINE A == Seq(Char)
               C == [1..number -> StampType]
               D == [1..number -> ValueType]
               E == 0..(number - 1)
               F == Seq(Seq(Pair))
    <2>1. st \in [line: A, lineNo: Nat, times: C, values: D, valueI: E, batches: F]
      BY DEF StateType
    <2> HIDE DEF A, C, D, E, F
    <2> DEFINE n == st.lineNo + 1
               k == [st EXCEPT !.line = <<>>]
    <2>2. k = [line |-> <<>>, lineNo |-> st.lineNo, times |-> st.times,
               values |-> st.values, valueI |-> v, batches |-> st.batches]
      BY <2>1
    <2>3. kept = [k EXCEPT !.lineNo = n]
      BY <2>1
    <2> HIDE DEF k, n, kept, v
    <2>4. [k EXCEPT !.lineNo = n] =
             [line |-> <<>>, lineNo |-> n, times |-> st.times,
              values |-> st.values, valueI |-> v, batches |-> st.batches]
      BY <2>2
    <2>5. QED
      BY <2>3, <2>4 DEF n
  <1>4. s = IF ~row.match THEN kept ELSE Full(ValueTaken(noted, row))
    BY DEF EndOfLine, Stamp
  <1> HIDE DEF v, time, kept
  <1>5. noted = [line |-> <<>>, lineNo |-> st.lineNo + 1, times |-> t1,
                 values |-> st.values, valueI |-> v, batches |-> st.batches]
    BY <1>3 DEF Put
  <1>6. <<>> \in Seq(Char) /\ st.lineNo + 1 \in Nat
    BY <1>1, EmptySeq
  <1>7. CASE ~row.match
    <2>1. s = kept /\ w1 = w
      BY <1>4, <1>7 DEF Wants
    <2>2. QED
      BY <1>1, <1>3, <1>6, <2>1 DEF StateType, v
  <1>8. CASE row.match /\ row.value = NoColumn
    <2>1. ValueTaken(noted, row) = noted
      BY <1>8 DEF ValueTaken
    <2>2. s = noted /\ w1 = w
      <3> HIDE DEF noted
      <3>1. noted.valueI < number
        BY <1>1, <1>5
      <3>2. QED
        BY <1>4, <1>8, <2>1, <3>1 DEF Full, Wants
    <2>3. Waiting(st.batches, t1, st.values, v, w)
      BY <1>1, TimeNoted DEF v, Put
    <2> HIDE DEF noted, t1
    <2>4. QED
      BY <1>1, <1>2, <1>5, <1>6, <2>2, <2>3 DEF StateType
  <1>9. CASE row.match /\ row.value # NoColumn
    <2> DEFINE more == ValueTaken(noted, row)
    <2>1. more = [line |-> <<>>, lineNo |-> st.lineNo + 1, times |-> t1,
                  values |-> u1, valueI |-> v + 1, batches |-> st.batches]
      <3>1. more = [noted EXCEPT !.values[noted.valueI + 1] = row.value, !.valueI = @ + 1]
        BY <1>9 DEF ValueTaken
      <3>2. noted.valueI = v /\ noted.values = st.values
        BY <1>5
      <3> HIDE DEF noted, more
      <3>3. more = [noted EXCEPT !.values = u1, !.valueI = v + 1]
        BY <3>1, <3>2 DEF Put
      <3> HIDE DEF t1, u1
      <3>4. QED
        BY <1>5, <3>3
    <2>2. w1 = Append(w, row) /\ s = Full(more)
      BY <1>4, <1>9 DEF Wants
    <2>3. /\ v + 1 < number => Waiting(st.batches, t1, u1, v + 1, w1)
          /\ v + 1 = number =>
                /\ Waiting(Append(st.batches, batch), t1, u1, 0, w1)
                /\ Append(st.batches, batch) \in Seq(Seq(Pair))
      <3>1. Waiting(st.batches, st.times, st.values, v, w)
        BY DEF v
      <3> DEFINE bs == st.batches
                 ts == st.times
                 us == st.values
      <3>2. /\ bs \in Seq(Seq(Pair)) /\ ts \in [1..number -> StampType]
            /\ us \in [1..number -> ValueType] /\ Waiting(bs, ts, us, v, w)
        BY <1>1, <3>1
      <3> HIDE DEF bs, ts, us
      <3> DEFINE tt == Put(ts, v, Stamp(row, v))
                 uu == Put(us, v, row.value)
      <3>3. /\ v + 1 < number => Waiting(bs, tt, uu, v + 1, Append(w, row))
            /\ v + 1 = number => /\ Waiting(Append(bs, BatchOf(tt, uu)), tt, uu, 0, Append(w, row))
                                 /\ Append(bs, BatchOf(tt, uu)) \in Seq(Seq(Pair))
        BY <1>1, <3>2, PairAdded
      <3>4. tt = t1 /\ uu = u1
        BY DEF ts, us, time
      <3> HIDE DEF tt, uu, t1, u1
      <3>5. QED
        BY <2>2, <3>3, <3>4 DEF bs
    <2> HIDE DEF noted, more, t1, u1, batch
    <2>4. CASE v + 1 < number
      <3>1. s = more
        BY <2>1, <2>2, <2>4 DEF Full
      <3>2. v + 1 \in 0..(number - 1)
        BY <1>1, <2>4
      <3>3. QED
        BY <1>1, <1>2, <1>6, <2>1, <2>3, <2>4, <3>1, <3>2 DEF StateType
    <2>5. CASE v + 1 = number
      <3>1. s = [more EXCEPT !.valueI = 0, !.batches = Append(@, Batch(more))]
        BY <1>1, <2>1, <2>2, <2>5 DEF Full
      <3>2. Batch(more) = batch
        BY <2>1 DEF Batch, BatchOf, batch
      <3>3. s = [line |-> <<>>, lineNo |-> st.lineNo + 1, times |-> t1, values |-> u1,
                 valueI |-> 0, batches |-> Append(st.batches, batch)]
        BY <2>1, <3>1, <3>2
      <3>4. 0 \in 0..(number - 1)
        BY <1>1
      <3>5. QED
        BY <1>1, <1>2, <1>6, <2>3, <2>5, <3>3, <3>4 DEF StateType
    <2>6. QED
      BY <1>1, <2>4, <2>5
  <1>10. QED
    BY <1>7, <1>8, <1>9

-----------------------------------------------------------------------------
NewLines(p) == {i \in 1..p : Stream[i] = Newline}

(* What is so when p characters were taken: all lines that ended are       *)
(* counted and what they gave waits or was given; the line so far is text  *)
(* of the next one.                                                        *)
LineReached(st, p) ==
    \/ p = 3 * st.lineNo /\ st.line = <<>>
    \/ p = 3 * st.lineNo + 1 /\ st.line = <<<<st.lineNo + 1, "a">>>>
    \/ p = 3 * st.lineNo + 2 /\ st.line = Chars(st.lineNo + 1)

Reached(st, p) ==
    /\ st \in StateType
    /\ WantedOf[st.lineNo] \in Seq(StatLines)
    /\ Waiting(st.batches, st.times, st.values, st.valueI, WantedOf[st.lineNo])
    /\ IsFiniteSet(NewLines(p)) /\ Cardinality(NewLines(p)) = st.lineNo
    /\ LineReached(st, p)

(* A character more.                                                       *)
LEMMA NewLinesStep ==
    ASSUME NEW p \in Nat, IsFiniteSet(NewLines(p))
    PROVE  /\ IsFiniteSet(NewLines(p + 1))
           /\ Stream[p + 1] # Newline => NewLines(p + 1) = NewLines(p)
           /\ Stream[p + 1] = Newline =>
                 Cardinality(NewLines(p + 1)) = Cardinality(NewLines(p)) + 1
  <1>1. CASE Stream[p + 1] = Newline
    <2>1. NewLines(p + 1) = NewLines(p) \cup {p + 1} /\ p + 1 \notin NewLines(p)
      BY <1>1 DEF NewLines
    <2>2. QED
      BY <1>1, <2>1, FS_AddElement
  <1>2. CASE Stream[p + 1] # Newline
    <2>1. NewLines(p + 1) = NewLines(p)
      BY <1>2 DEF NewLines
    <2>2. QED
      BY <1>2, <2>1
  <1>3. QED
    BY <1>1, <1>2

LEMMA PairAppended ==
    ASSUME NEW V, NEW x \in V, NEW y \in V
    PROVE  Append(<<x>>, y) = <<x, y>>
  <1> DEFINE r == Append(<<x>>, y)
             z == <<x, y>>
  <1>1. r \in Seq(V) /\ Len(r) = 2 /\ r[1] = x /\ r[2] = y
    OBVIOUS
  <1>2. z \in Seq(V) /\ Len(z) = 2 /\ z[1] = x /\ z[2] = y
    OBVIOUS
  <1> HIDE DEF r, z
  <1>3. \A i \in 1..2 : r[i] = z[i]
    BY <1>1, <1>2
  <1>4. r = z
    BY <1>1, <1>2, <1>3, SeqEqual
  <1>5. QED
    BY <1>4 DEF r, z

LEMMA TextGrows ==
    ASSUME NEW i \in Nat
    PROVE  /\ Append(<<>>, <<i, "a">>) = <<<<i, "a">>>>
           /\ Append(<<<<i, "a">>>>, <<i, "b">>) = Chars(i)
           /\ <<i, "a">> # Newline /\ <<i, "b">> # Newline
           /\ <<i, "a">> \in Char /\ <<i, "b">> \in Char
           /\ Chars(i)[1][1] = i
  <1>1. Append(<<>>, <<i, "a">>) = <<<<i, "a">>>>
    OBVIOUS
  <1>2. Append(<<<<i, "a">>>>, <<i, "b">>) = Chars(i)
    <2> DEFINE x == <<i, "a">>
               y == <<i, "b">>
               V == {x, y}
    <2>1. x \in V /\ y \in V
      OBVIOUS
    <2> HIDE DEF x, y, V
    <2>2. Append(<<x>>, y) = <<x, y>>
      BY <2>1, PairAppended
    <2>3. QED
      BY <2>2 DEF x, y, Chars
  <1>3. <<i, "a">> # Newline /\ <<i, "b">> # Newline
    BY DEF Newline
  <1>4. <<i, "a">> \in Char /\ <<i, "b">> \in Char
    BY DEF Char
  <1>5. Chars(i)[1][1] = i
    BY DEF Chars
  <1>6. QED
    BY <1>1, <1>2, <1>3, <1>4, <1>5

(* A character of a line's text.                                           *)
LEMMA CharTaken ==
    ASSUME NEW st \in StateType, NEW c \in Char, c # Newline
    PROVE  /\ Take(st, c) \in StateType
           /\ Take(st, c).line = Append(st.line, c)
           /\ Take(st, c).lineNo = st.lineNo /\ Take(st, c).times = st.times
           /\ Take(st, c).values = st.values /\ Take(st, c).valueI = st.valueI
           /\ Take(st, c).batches = st.batches
  <1> DEFINE A == Seq(Char)
             C == [1..number -> StampType]
             D == [1..number -> ValueType]
             E == 0..(number - 1)
             F == Seq(Seq(Pair))
             x == Append(st.line, c)
             s == [st EXCEPT !.line = x]
  <1>1. st \in [line: A, lineNo: Nat, times: C, values: D, valueI: E, batches: F]
    BY DEF StateType
  <1>2. Take(st, c) = s
    BY DEF Take
  <1>3. x \in A
    <2>1. st.line \in Seq(Char)
      BY <1>1
    <2> HIDE DEF Char
    <2>2. QED
      BY <2>1, AppendProperties
  <1> HIDE DEF A, C, D, E, F, x
  <1>4. /\ s \in [line: A, lineNo: Nat, times: C, values: D, valueI: E, batches: F]
        /\ s.line = x /\ s.lineNo = st.lineNo /\ s.times = st.times
        /\ s.values = st.values /\ s.valueI = st.valueI /\ s.batches = st.batches
    BY <1>1, <1>3
  <1> HIDE DEF s
  <1>5. QED
    BY <1>2, <1>4 DEF StateType, x, A, C, D, E, F

LEMMA TakeReaches ==
    ASSUME input \in Inputs, NEW p \in Nat, p + 1 <= Len(Stream),
           NEW st, Reached(st, p)
    PROVE  Reached(Take(st, Stream[p + 1]), p + 1)
  <1> DEFINE n == st.lineNo
             c == Stream[p + 1]
             s == Take(st, c)
             L == Len(StatRows)
  <1>1. /\ st \in StateType /\ n \in Nat /\ WantedOf[n] \in Seq(StatLines)
        /\ Waiting(st.batches, st.times, st.values, st.valueI, WantedOf[n])
        /\ IsFiniteSet(NewLines(p)) /\ Cardinality(NewLines(p)) = n
    BY DEF Reached, StateType
  <1>2. LineReached(st, p)
    BY DEF Reached
  <1>3. /\ L \in Nat /\ Len(Stream) \in Nat /\ Len(Stream) <= 3 * L
        /\ 3 * n + 1 <= Len(Stream) => Stream[3 * n + 1] = <<n + 1, "a">>
        /\ 3 * n + 2 <= Len(Stream) => Stream[3 * n + 2] = <<n + 1, "b">>
        /\ 3 * n + 3 <= Len(Stream) => Stream[3 * n + 3] = Newline
    BY <1>1, StreamChars
  <1> HIDE DEF L
  <1>4. /\ IsFiniteSet(NewLines(p + 1))
        /\ c # Newline => NewLines(p + 1) = NewLines(p)
        /\ c = Newline => Cardinality(NewLines(p + 1)) = n + 1
    BY <1>1, NewLinesStep
  <1>5. /\ Append(<<>>, <<n + 1, "a">>) = <<<<n + 1, "a">>>>
        /\ Append(<<<<n + 1, "a">>>>, <<n + 1, "b">>) = Chars(n + 1)
        /\ <<n + 1, "a">> # Newline /\ <<n + 1, "b">> # Newline
        /\ <<n + 1, "a">> \in Char /\ <<n + 1, "b">> \in Char
        /\ Chars(n + 1)[1][1] = n + 1
    <2> DEFINE i == n + 1
    <2>1. i \in Nat
      BY <1>1
    <2> HIDE DEF i
    <2>2. /\ Append(<<>>, <<i, "a">>) = <<<<i, "a">>>>
          /\ Append(<<<<i, "a">>>>, <<i, "b">>) = Chars(i)
          /\ <<i, "a">> # Newline /\ <<i, "b">> # Newline
          /\ <<i, "a">> \in Char /\ <<i, "b">> \in Char
          /\ Chars(i)[1][1] = i
      BY <2>1, TextGrows
    <2>3. QED
      BY <2>2 DEF i
  <1>6. ASSUME c \in Char, c # Newline, LineReached(s, p + 1)
        PROVE  Reached(s, p + 1)
    <2>1. /\ s \in StateType /\ s.lineNo = n /\ s.times = st.times
          /\ s.values = st.values /\ s.valueI = st.valueI /\ s.batches = st.batches
      BY <1>1, <1>6, CharTaken
    <2> HIDE DEF s
    <2>2. QED
      BY <1>1, <1>4, <1>6, <2>1 DEF Reached
  <1>7. CASE p = 3 * n /\ st.line = <<>>
    <2>1. c = <<n + 1, "a">>
      BY <1>3, <1>7
    <2>2. s.line = Append(st.line, c) /\ s.lineNo = n /\ c \in Char /\ c # Newline
      BY <1>1, <1>5, <2>1, CharTaken
    <2> HIDE DEF s, c
    <2>3. s.line = <<<<n + 1, "a">>>>
      BY <1>5, <1>7, <2>1, <2>2
    <2>4. p + 1 = 3 * s.lineNo + 1
      BY <1>7, <2>2
    <2>5. LineReached(s, p + 1)
      BY <2>2, <2>3, <2>4 DEF LineReached
    <2>6. QED
      BY <1>6, <2>2, <2>5 DEF s, c
  <1>8. CASE p = 3 * n + 1 /\ st.line = <<<<n + 1, "a">>>>
    <2>1. c = <<n + 1, "b">>
      BY <1>1, <1>3, <1>8
    <2>2. s.line = Append(st.line, c) /\ s.lineNo = n /\ c \in Char /\ c # Newline
      BY <1>1, <1>5, <2>1, CharTaken
    <2> HIDE DEF s, c
    <2>3. s.line = Chars(n + 1)
      BY <1>5, <1>8, <2>1, <2>2
    <2>4. p + 1 = 3 * s.lineNo + 2
      BY <1>1, <1>8, <2>2
    <2>5. LineReached(s, p + 1)
      BY <2>2, <2>3, <2>4 DEF LineReached
    <2>6. QED
      BY <1>6, <2>2, <2>5 DEF s, c
  <1>9. CASE p = 3 * n + 2 /\ st.line = Chars(n + 1)
    <2> DEFINE row == WholeLine(st.line)
               w1 == WantedOf[n + 1]
    <2>1. c = Newline /\ n + 1 \in 1..L /\ n < L
      <3>1. p + 1 = 3 * n + 3 /\ 3 * n + 3 <= Len(Stream)
        BY <1>1, <1>9
      <3>2. c = Newline
        BY <1>3, <3>1
      <3> DEFINE l == Len(Stream)
      <3>3. l \in Nat /\ L \in Nat /\ n \in Nat /\ 3 * n + 3 <= l /\ l <= 3 * L
        BY <1>1, <1>3, <3>1
      <3> HIDE DEF l
      <3>4. n + 1 \in 1..L /\ n < L
        BY <3>3
      <3>5. QED
        BY <3>2, <3>4
    <2>2. row = StatRows[n + 1] /\ row \in StatLines
      <3>1. n + 1 \in DOMAIN StatRows /\ StatRows[n + 1] \in StatLines
        BY <2>1, StreamChars, ElementOfSeq DEF L
      <3>2. row = input.lines[st.line[1][1]]
        BY <1>9, <3>1 DEF WholeLine, StatRows
      <3>3. QED
        BY <1>5, <1>9, <3>1, <3>2 DEF StatRows
    <2>3. /\ w1 = IF Wants(row) THEN Append(WantedOf[n], row) ELSE WantedOf[n]
          /\ w1 \in Seq(StatLines)
      <3>1. w1 = IF Wants(row) THEN Append(WantedOf[n], row) ELSE WantedOf[n]
        BY <1>1, <2>1, <2>2, WantedStep DEF L
      <3> HIDE DEF w1, row
      <3>2. QED
        BY <1>1, <2>2, <3>1, AppendProperties
    <2>4. s = EndOfLine(st)
      BY <2>1 DEF Take
    <2> HIDE DEF s, w1
    <2>5. /\ s \in StateType /\ s.line = <<>> /\ s.lineNo = n + 1
          /\ Waiting(s.batches, s.times, s.values, s.valueI, w1)
      BY <1>1, <2>2, <2>3, <2>4, LineDone
    <2>6. LineReached(s, p + 1)
      BY <1>1, <1>9, <2>5 DEF LineReached
    <2>7. QED
      BY <1>4, <2>1, <2>3, <2>5, <2>6 DEF Reached, w1, s
  <1>10. QED
    BY <1>2, <1>7, <1>8, <1>9 DEF LineReached

(* All that read() gave, one character after the other.                    *)
Steps(g, first, n) ==
    g = [k \in 0..n |-> IF k = 0 THEN first ELSE Take(g[k - 1], Stream[position + k])]

LEMMA StepsExist ==
    ASSUME NEW first, NEW n \in Nat
    PROVE  \E g : Steps(g, first, n)
  <1> DEFINE next(s, k) == Take(s, Stream[position + k])
             Upto(g, m) == g = [k \in 0..m |-> IF k = 0 THEN first ELSE next(g[k - 1], k)]
             T == {m \in Nat : \E g : Upto(g, m)}
  <1> HIDE DEF next
  <1>1. 0 \in T
    <2>1. Upto([k \in 0..0 |-> first], 0)
      OBVIOUS
    <2> HIDE DEF Upto
    <2>2. QED
      BY <2>1
  <1>2. ASSUME NEW m \in Nat, m \in T PROVE m + 1 \in T
    <2>1. PICK g : Upto(g, m)
      BY <1>2
    <2> DEFINE h == [k \in 0..(m + 1) |-> IF k = m + 1 THEN next(g[m], m + 1) ELSE g[k]]
    <2>2. \A k \in 0..m : g[k] = IF k = 0 THEN first ELSE next(g[k - 1], k)
      BY <2>1
    <2>3. \A k \in 0..(m + 1) : h[k] = IF k = 0 THEN first ELSE next(h[k - 1], k)
      <3> SUFFICES ASSUME NEW k \in 0..(m + 1)
                   PROVE  h[k] = IF k = 0 THEN first ELSE next(h[k - 1], k)
        OBVIOUS
      <3>1. CASE k = m + 1
        <4>1. h[k] = next(g[m], m + 1) /\ k - 1 = m /\ h[m] = g[m] /\ k # 0
          BY <3>1
        <4>2. QED
          BY <3>1, <4>1
      <3>2. CASE k # m + 1
        <4>1. k \in 0..m /\ h[k] = g[k] /\ (k # 0 => h[k - 1] = g[k - 1])
          BY <3>2
        <4>2. QED
          BY <2>2, <4>1
      <3>3. QED
        BY <3>1, <3>2
    <2>4. h = [k \in 0..(m + 1) |-> h[k]]
      OBVIOUS
    <2> HIDE DEF h
    <2>5. h = [k \in 0..(m + 1) |-> IF k = 0 THEN first ELSE next(h[k - 1], k)]
      BY <2>3, <2>4
    <2>6. Upto(h, m + 1)
      BY <2>5
    <2>7. \E f : Upto(f, m + 1)
      <3> HIDE DEF Upto
      <3> QED BY <2>6
    <2>8. QED
      <3> HIDE DEF Upto
      <3> QED BY <2>7
  <1>3. Nat \subseteq T
    <2> HIDE DEF T
    <2> QED BY <1>1, <1>2, SetInduction
  <1>4. PICK g : Upto(g, n)
    BY <1>3
  <1>5. Steps(g, first, n)
    BY <1>4 DEF Steps, next
  <1>6. QED
    BY <1>5

LEMMA TakenReaches ==
    ASSUME input \in Inputs, position \in Nat, NEW first, Reached(first, position),
           NEW n \in Nat, position + n <= Len(Stream)
    PROVE  Reached(Taken(first, n), position + n)
  <1>1. PICK g : Steps(g, first, n) /\ Taken(first, n) = g[n]
    <2> DEFINE c == CHOOSE g : Steps(g, first, n)
    <2>1. Steps(c, first, n)
      <3> HIDE DEF Steps
      <3> QED BY StepsExist
    <2>2. Taken(first, n) = c[n]
      BY DEF Taken, Steps
    <2> HIDE DEF c
    <2>3. QED
      BY <2>1, <2>2
  <1> DEFINE T == {k \in Nat : k <= n => Reached(g[k], position + k)}
  <1>2. \A k \in 0..n : g[k] = IF k = 0 THEN first ELSE Take(g[k - 1], Stream[position + k])
    BY <1>1 DEF Steps
  <1>3. 0 \in T
    <2>1. g[0] = first /\ position + 0 = position
      BY <1>2
    <2>2. QED
      BY <2>1
  <1>4. ASSUME NEW k \in Nat, k \in T PROVE k + 1 \in T
    <2> SUFFICES ASSUME k + 1 <= n PROVE Reached(g[k + 1], position + (k + 1))
      OBVIOUS
    <2> DEFINE p == position + k
               s == g[k]
    <2>1. g[k + 1] = Take(s, Stream[p + 1])
      <3>1. k + 1 \in 0..n /\ k + 1 # 0 /\ k + 1 - 1 = k /\ position + (k + 1) = p + 1
        OBVIOUS
      <3>2. QED
        BY <1>2, <3>1
    <2>2. p \in Nat /\ p + 1 <= Len(Stream) /\ Reached(s, p) /\ p + 1 = position + (k + 1)
      <3>1. Len(Stream) \in Nat
        BY StreamChars
      <3>2. QED
        BY <1>4, <3>1
    <2> HIDE DEF p, s
    <2>3. Reached(Take(s, Stream[p + 1]), p + 1)
      BY <2>2, TakeReaches
    <2>4. QED
      BY <2>1, <2>2, <2>3
  <1>5. Nat \subseteq T
    <2> HIDE DEF T
    <2> QED BY <1>3, <1>4, SetInduction
  <1>6. QED
    BY <1>1, <1>5

-----------------------------------------------------------------------------
State == [line |-> lineSoFar, lineNo |-> lineNo, times |-> times,
          values |-> values, valueI |-> valueI, batches |-> batches]

StatsInv == input \in Inputs /\ position \in Nat /\ Reached(State, position)

LEMMA StatsInvInit == StatsInit => StatsInv
  <1> SUFFICES ASSUME StatsInit PROVE StatsInv
    OBVIOUS
  <1>1. /\ input \in Inputs /\ position = 0 /\ lineSoFar = <<>> /\ lineNo = 0
        /\ times = [i \in 1..number |-> 0] /\ values = [i \in 1..number |-> 0]
        /\ valueI = 0 /\ batches = <<>> /\ number \in Nat /\ number # 0
    BY StatsAssumption DEF StatsInit
  <1>2. State \in StateType
    <2>1. lineSoFar \in Seq(Char) /\ batches \in Seq(Seq(Pair)) /\ lineNo \in Nat
      <3> DEFINE V == Seq(Pair)
      <3> HIDE DEF V, Char
      <3>1. QED
        BY <1>1, EmptySeq DEF V
    <2>2. /\ times \in [1..number -> StampType] /\ values \in [1..number -> ValueType]
          /\ valueI \in 0..(number - 1)
      BY <1>1 DEF StampType, ValueType
    <2>3. QED
      BY <2>1, <2>2 DEF State, StateType
  <1>3. WantedOf[0] = <<>>
    BY <1>1, WantedStep
  <1>4. Waiting(<<>>, times, values, 0, <<>>)
    <2>1. Len(<<>>) = 0 /\ number * 0 = 0 /\ FlattenSeq(<<>>) = <<>>
      BY <1>1, FlattenEmpty
    <2> DEFINE b == <<>>
               w == <<>>
               p == Pairs(w)
    <2>2. SubSeq(p, 1, 0) = <<>>
      OBVIOUS
    <2>3. /\ Len(w) = number * Len(b) + 0
          /\ FlattenSeq(b) = SubSeq(p, 1, number * Len(b))
      <3>1. Len(b) = 0 /\ Len(w) = 0 /\ FlattenSeq(b) = <<>>
        BY <2>1
      <3> DEFINE d == number * Len(b)
      <3> HIDE DEF b, w, p
      <3>2. d = 0
        BY <1>1, <3>1
      <3> HIDE DEF d
      <3>3. Len(w) = d + 0 /\ FlattenSeq(b) = SubSeq(p, 1, d)
        BY <2>2, <3>1, <3>2
      <3>4. QED
        BY <3>3 DEF d
    <2>4. \A i \in 1..0 : <<times[i], values[i]>> = p[number * Len(b) + i]
      OBVIOUS
    <2> HIDE DEF b
    <2>5. Waiting(b, times, values, 0, w)
      BY <2>3, <2>4 DEF Waiting
    <2>6. QED
      BY <2>5 DEF b
  <1>5. IsFiniteSet(NewLines(0)) /\ Cardinality(NewLines(0)) = 0
    <2>1. NewLines(0) = {}
      BY DEF NewLines
    <2>2. QED
      BY <2>1, FS_EmptySet
  <1>6. LineReached(State, 0)
    BY <1>1 DEF LineReached, State
  <1>7. /\ State.lineNo = 0 /\ State.batches = <<>> /\ State.times = times
        /\ State.values = values /\ State.valueI = 0
    BY <1>1 DEF State
  <1>8. WantedOf[State.lineNo] \in Seq(StatLines)
    BY <1>3, <1>7, EmptySeq
  <1>9. Reached(State, position)
    BY <1>1, <1>2, <1>3, <1>4, <1>5, <1>6, <1>7, <1>8 DEF Reached
  <1>10. QED
    BY <1>1, <1>9 DEF StatsInv

LEMMA StatsInvNext == StatsInv /\ [StatsNext]_statsVars => StatsInv'
  <1> SUFFICES ASSUME StatsInv, [StatsNext]_statsVars PROVE StatsInv'
    OBVIOUS
  <1>1. input \in Inputs /\ position \in Nat /\ Reached(State, position)
    BY DEF StatsInv
  <1>2. input' = input
    BY DEF StatsNext, ReadPiece, EndOfStream, statsVars
  <1>3. Stream' = Stream /\ WantedOf' = WantedOf
    BY <1>2 DEF Stream, WantedOf
  <1>4. \A s, p : Reached(s, p)' <=> Reached(s, p)
    BY <1>2, <1>3 DEF Reached, NewLines
  <1>5. CASE ReadPiece
    <2>1. PICK n \in 1..MaxRead :
             /\ position + n <= Len(Stream) /\ position' = position + n
             /\ LET st == Taken(State, n)
                IN  /\ lineSoFar' = st.line /\ lineNo' = st.lineNo
                    /\ times' = st.times /\ values' = st.values
                    /\ valueI' = st.valueI /\ batches' = st.batches
      BY <1>5 DEF ReadPiece, State
    <2>2. n \in Nat
      BY <2>1
    <2> DEFINE st == Taken(State, n)
    <2>3. Reached(st, position + n)
      BY <1>1, <2>1, <2>2, TakenReaches
    <2> HIDE DEF st
    <2>4. /\ lineSoFar' = st.line /\ lineNo' = st.lineNo
          /\ times' = st.times /\ values' = st.values
          /\ valueI' = st.valueI /\ batches' = st.batches
      BY <2>1 DEF st
    <2>5. st = [line |-> st.line, lineNo |-> st.lineNo, times |-> st.times,
                values |-> st.values, valueI |-> st.valueI, batches |-> st.batches]
      BY <2>3 DEF Reached, StateType
    <2>6. State' = st
      BY <2>4, <2>5 DEF State
    <2>7. Reached(State, position)'
      BY <1>4, <2>1, <2>3, <2>6
    <2>8. position' \in Nat
      BY <1>1, <2>1, <2>2
    <2>9. QED
      BY <1>1, <1>2, <2>7, <2>8 DEF StatsInv
  <1>6. CASE EndOfStream \/ UNCHANGED statsVars
    <2>1. position' = position /\ State' = State
      BY <1>6 DEF EndOfStream, statsVars, State
    <2>2. QED
      BY <1>1, <1>2, <1>4, <2>1 DEF StatsInv
  <1>7. QED
    BY <1>5, <1>6 DEF StatsNext

(* calc() gets the values of the lines with the key in their order, each   *)
(* once and with its own line's time, number of them at a time, however    *)
(* read() cuts the input (stats.c: the loops over line and data).          *)
THEOREM BatchesHold == StatsSpec => []BatchesInOrder
  <1>1. StatsInv => BatchesInOrder
    <2> SUFFICES ASSUME StatsInv PROVE BatchesInOrder
      OBVIOUS
    <2> DEFINE w == Wanted
               v == valueI
    <2>1. Reached(State, position)
      BY DEF StatsInv
    <2>2. /\ State \in StateType /\ State.lineNo = lineNo /\ State.batches = batches
          /\ State.times = times /\ State.values = values /\ State.valueI = valueI
      BY <2>1 DEF Reached, State
    <2>3. /\ w \in Seq(StatLines) /\ Waiting(batches, times, values, v, w)
          /\ Cardinality(NewLines(position)) = lineNo
      BY <2>1, <2>2 DEF Reached, Wanted
    <2>4. /\ batches \in Seq(Seq(Pair)) /\ v \in 0..(number - 1)
          /\ number \in Nat \ {0}
      BY <2>2, StatsAssumption DEF StateType
    <2> HIDE DEF w, v
    <2>5. Len(batches) \in Nat
      BY <2>4, LenProperties
    <2>6. (number * Len(batches) + v) \div number = Len(batches)
      BY <2>4, <2>5, Quotient
    <2>7. Len(batches) = Len(w) \div number
      BY <2>3, <2>6 DEF Waiting
    <2>8. Expected = Pairs(w)
      <3>1. DOMAIN w = 1..Len(w)
        BY <2>3
      <3>2. QED
        BY <3>1 DEF Expected, Pairs, PairAt, w
    <2>9. FlattenSeq(batches) = SubSeq(Expected, 1, number * Len(batches))
      BY <2>3, <2>8 DEF Waiting
    <2>10. lineNo = Cardinality({i \in 1..position : Stream[i] = Newline})
      BY <2>3 DEF NewLines
    <2>11. QED
      BY <2>7, <2>9, <2>10 DEF BatchesInOrder, w
  <1>2. QED
    BY <1>1, StatsInvInit, StatsInvNext, PTL DEF StatsSpec

-----------------------------------------------------------------------------
(***************************************************************************)
(* QueryRead.cpp.  A sum over a set of lines does not depend on the order  *)
(* in which they are taken; each pass over the samples of the window adds  *)
(* up its lines one by one; the samples are those of the lines with a key  *)
(* of the list, and the list holds the first keys of the log.              *)
(***************************************************************************)

(* The sum of a function over a set, whatever member is taken out first.   *)
SumOut(h, v, D) == \A T \in SUBSET D : \A x \in T : h[T] = v[x] + h[T \ {x}]
SumBy(h, v, D, c) ==
    \A T \in SUBSET D : T # {} => c[T] \in T /\ h[T] = v[c[T]] + h[T \ {c[T]}]

SumOf(h, v, D, L) ==
    /\ L \in Nat /\ D \in SUBSET (1..L) /\ v \in [D -> Int]
    /\ h \in [SUBSET D -> Int] /\ h[{}] = 0 /\ SumOut(h, v, D)

LEMMA AnyOrder ==
    ASSUME NEW D, IsFiniteSet(D), NEW v \in [D -> Int], NEW h \in [SUBSET D -> Int],
           NEW c, SumBy(h, v, D, c)
    PROVE  SumOut(h, v, D)
  <1> DEFINE P(T) == \A x \in T : h[T] = v[x] + h[T \ {x}]
             N == {n \in Nat : \A T \in SUBSET D : Cardinality(T) = n => P(T)}
  <1>0. \A T \in SUBSET D : IsFiniteSet(T)
    BY FS_Subset
  <1>1. 0 \in N
    <2> SUFFICES ASSUME NEW T \in SUBSET D, Cardinality(T) = 0 PROVE P(T)
      OBVIOUS
    <2>1. T = {}
      BY <1>0, FS_EmptySet
    <2>2. QED
      BY <2>1
  <1>2. ASSUME NEW n \in Nat, n \in N PROVE n + 1 \in N
    <2> SUFFICES ASSUME NEW T \in SUBSET D, Cardinality(T) = n + 1, NEW x \in T
                 PROVE  h[T] = v[x] + h[T \ {x}]
      OBVIOUS
    <2> DEFINE y == c[T]
               Tx == T \ {x}
               Ty == T \ {y}
               both == T \ {x, y}
    <2>1. y \in T /\ h[T] = v[y] + h[Ty]
      BY DEF SumBy
    <2> HIDE DEF y
    <2>2. Cardinality(Tx) = n /\ Cardinality(Ty) = n
      <3>1. Cardinality(T) - 1 = n
        BY <1>2
      <3>2. QED
        BY <1>0, <2>1, <3>1, FS_RemoveElement
    <2>3. Tx \in SUBSET D /\ Ty \in SUBSET D /\ both \in SUBSET D
      OBVIOUS
    <2>4. P(Tx) /\ P(Ty)
      <3> HIDE DEF P, Tx, Ty
      <3> QED BY <1>2, <2>2, <2>3
    <2>5. CASE x = y
      BY <2>1, <2>5
    <2>6. CASE x # y
      <3>1. Tx \ {y} = both /\ Ty \ {x} = both /\ y \in Tx /\ x \in Ty
        BY <2>1, <2>6
      <3>2. h[Tx] = v[y] + h[both] /\ h[Ty] = v[x] + h[both]
        <4> HIDE DEF Tx, Ty, both
        <4> QED BY <2>4, <3>1
      <3>3. v[x] \in Int /\ v[y] \in Int /\ h[both] \in Int
        BY <2>1, <2>3
      <3> HIDE DEF both, Tx, Ty
      <3>4. h[T] = v[x] + h[Tx]
        BY <2>1, <3>2, <3>3
      <3>5. QED
        BY <3>4 DEF Tx
    <2>7. QED
      BY <2>5, <2>6
  <1>3. Nat \subseteq N
    <2> HIDE DEF N
    <2> QED BY <1>1, <1>2, SetInduction
  <1>4. ASSUME NEW T \in SUBSET D PROVE P(T)
    <2>1. Cardinality(T) \in Nat
      BY <1>0, FS_CardinalityType
    <2>2. Cardinality(T) \in N
      BY <1>3, <2>1
    <2>3. QED
      BY <2>2
  <1>5. QED
    BY <1>4 DEF SumOut

(* There is such a sum.                                                    *)
LEMMA SumExists ==
    ASSUME NEW L \in Nat, NEW D \in SUBSET (1..L), NEW v \in [D -> Int]
    PROVE  \E h : SumOf(h, v, D, L)
  <1> DEFINE s == [i \in 1..L |-> IF i \in D THEN v[i] ELSE 0]
             step == [p \in Int \X Int |-> p[1] + p[2]]
             c == [T \in SUBSET D |-> Max(T)]
  <1>1. s \in Seq(Int) /\ DOMAIN s = 1..L /\ \A i \in D : s[i] = v[i]
    OBVIOUS
  <1>2. step \in [Int \X Int -> Int] /\ \A x, y \in Int : step[<<x, y>>] = x + y
    OBVIOUS
  <1> HIDE DEF s, step
  <1>3. PICK f : f \in [SUBSET (1..L) -> Int] /\ FoldsUp(f, 1..L, 0, step, s)
    <2>1. 0 \in Int
      OBVIOUS
    <2>2. \E f : f \in [SUBSET (DOMAIN s) -> Int] /\ FoldsUp(f, DOMAIN s, 0, step, s)
      BY <1>1, <1>2, <2>1, FoldExists
    <2>3. QED
      BY <1>1, <2>2
  <1> DEFINE h == [T \in SUBSET D |-> f[T]]
  <1>4. h \in [SUBSET D -> Int]
    BY <1>3
  <1>5. h[{}] = 0
    BY <1>3 DEF FoldsUp
  <1>6. SumBy(h, v, D, c)
    <2> SUFFICES ASSUME NEW T \in SUBSET D, T # {}
                 PROVE  c[T] \in T /\ h[T] = v[c[T]] + h[T \ {c[T]}]
      BY DEF SumBy
    <2> DEFINE m == Max(T)
    <2>1. T \in SUBSET (1..L) /\ m \in T
      BY FiniteHasMax
    <2>2. f[T] = step[<<f[T \ {m}], s[m]>>]
      BY <1>3, <2>1 DEF FoldsUp
    <2>3. c[T] = m
      OBVIOUS
    <2> HIDE DEF m, c
    <2>4. f[T \ {m}] \in Int /\ s[m] = v[m] /\ v[m] \in Int
      BY <1>1, <1>3, <2>1
    <2>5. f[T] = v[m] + f[T \ {m}]
      <3> DEFINE x == f[T \ {m}]
                 y == s[m]
      <3>1. x \in Int /\ y \in Int /\ f[T] = step[<<x, y>>]
        BY <2>2, <2>4
      <3> HIDE DEF x, y
      <3>2. f[T] = x + y /\ x + y = y + x
        BY <1>2, <3>1
      <3>3. QED
        BY <2>4, <3>2 DEF x, y
    <2>6. h[T] = f[T] /\ h[T \ {m}] = f[T \ {m}]
      OBVIOUS
    <2> HIDE DEF h
    <2>7. QED
      BY <2>1, <2>3, <2>5, <2>6
  <1> HIDE DEF h, c
  <1>7. IsFiniteSet(D)
    <2>1. IsFiniteSet(1..L)
      BY FS_Interval
    <2>2. QED
      BY <2>1, FS_Subset
  <1>8. SumOut(h, v, D)
    BY <1>4, <1>6, <1>7, AnyOrder
  <1>9. QED
    BY <1>4, <1>5, <1>8 DEF SumOf

(* It is what SumFunctionOnSet gives.                                      *)
LEMMA SumIs ==
    ASSUME NEW L, NEW D, NEW v, NEW h, SumOf(h, v, D, L), NEW S \in SUBSET D
    PROVE  SumFunctionOnSet(v, S) = h[S]
  <1> USE DEF SumOf
  <1> DEFINE Is(f) == f = [T \in SUBSET S |->
                             IF T = {} THEN 0
                             ELSE v[CHOOSE x \in T : TRUE] + f[T \ {CHOOSE x \in T : TRUE}]]
             iter == CHOOSE f : Is(f)
             c(T) == CHOOSE x \in T : TRUE
             g == [T \in SUBSET S |-> h[T]]
  <1>1. SumFunctionOnSet(v, S) = iter[S]
    BY DEF SumFunctionOnSet, FoldFunctionOnSet, MapThenFoldSet
  <1>2. \A T \in SUBSET S : T # {} => c(T) \in T
    OBVIOUS
  <1>3. Is(g)
    <2> SUFFICES ASSUME NEW T \in SUBSET S
                 PROVE  h[T] = IF T = {} THEN 0 ELSE v[c(T)] + g[T \ {c(T)}]
      OBVIOUS
    <2>1. CASE T = {}
      BY <2>1
    <2>2. CASE T # {}
      <3> DEFINE x == c(T)
      <3>1. x \in T
        BY <1>2, <2>2
      <3> HIDE DEF x
      <3>2. T \ {x} \in SUBSET S /\ T \in SUBSET D
        OBVIOUS
      <3>3. h[T] = v[x] + h[T \ {x}]
        BY <3>1, <3>2 DEF SumOut
      <3>4. g[T \ {x}] = h[T \ {x}]
        BY <3>2
      <3>5. h[T] = v[x] + g[T \ {x}]
        BY <3>3, <3>4
      <3>6. QED
        BY <2>2, <3>5 DEF x
    <2>3. QED
      BY <2>1, <2>2
  <1>4. Is(iter)
    <2>1. \E f : Is(f)
      BY <1>3
    <2> HIDE DEF Is
    <2>2. QED
      BY <2>1
  <1> HIDE DEF iter, g
  <1>5. \A T \in SUBSET S : iter[T] = IF T = {} THEN 0 ELSE v[c(T)] + iter[T \ {c(T)}]
    BY <1>4
  <1> HIDE DEF c, Is
  <1> DEFINE N == {n \in Nat : \A T \in SUBSET S : Cardinality(T) = n => iter[T] = h[T]}
  <1>0. \A T \in SUBSET S : IsFiniteSet(T)
    <2>1. IsFiniteSet(1..L)
      BY FS_Interval
    <2>2. QED
      BY <2>1, FS_Subset
  <1>6. 0 \in N
    <2> SUFFICES ASSUME NEW T \in SUBSET S, Cardinality(T) = 0 PROVE iter[T] = h[T]
      OBVIOUS
    <2>1. T = {}
      BY <1>0, FS_EmptySet
    <2>2. QED
      BY <1>5, <2>1
  <1>7. ASSUME NEW n \in Nat, n \in N PROVE n + 1 \in N
    <2> SUFFICES ASSUME NEW T \in SUBSET S, Cardinality(T) = n + 1 PROVE iter[T] = h[T]
      OBVIOUS
    <2>1. T # {}
      <3>1. Cardinality({}) = 0
        BY FS_EmptySet
      <3>2. n + 1 # 0
        BY <1>7
      <3>3. QED
        BY <3>1, <3>2
    <2> DEFINE x == c(T)
               U == T \ {x}
    <2>2. x \in T
      BY <1>2, <2>1
    <2>3. iter[T] = v[x] + iter[U]
      BY <1>5, <2>1
    <2> HIDE DEF x
    <2>4. Cardinality(U) = n
      <3>1. Cardinality(T) - 1 = n
        BY <1>7
      <3>2. QED
        BY <1>0, <2>2, <3>1, FS_RemoveElement
    <2>5. U \in SUBSET S /\ T \in SUBSET D
      OBVIOUS
    <2>6. h[T] = v[x] + h[U]
      BY <2>2, <2>5 DEF SumOut
    <2> HIDE DEF U
    <2>7. iter[U] = h[U]
      BY <1>7, <2>4, <2>5
    <2>8. QED
      BY <2>3, <2>6, <2>7
  <1>8. Nat \subseteq N
    <2> HIDE DEF N
    <2> QED BY <1>6, <1>7, SetInduction
  <1>9. S \in SUBSET S /\ Cardinality(S) \in Nat
    BY <1>0, FS_CardinalityType
  <1>10. iter[S] = h[S]
    BY <1>8, <1>9
  <1>11. QED
    BY <1>1, <1>10

LEMMA SumGiven ==
    ASSUME NEW L, NEW D, NEW v, NEW h, SumOf(h, v, D, L)
    PROVE  \A S \in SUBSET D : SumFunctionOnSet(v, S) = h[S]
  BY SumIs

(* Sums over sets of numbers.                                              *)
Summable(v, D) == \E L \in Nat : D \in SUBSET (1..L) /\ v \in [D -> Int]

LEMMA SumMore ==
    ASSUME NEW D, NEW v, Summable(v, D), NEW S \in SUBSET D
    PROVE  /\ SumFunctionOnSet(v, {}) = 0
           /\ SumFunctionOnSet(v, S) \in Int
           /\ \A x \in D \ S :
                 SumFunctionOnSet(v, S \cup {x}) = SumFunctionOnSet(v, S) + v[x]
  <1>0. PICK h : \E L : SumOf(h, v, D, L)
    <2>1. PICK L \in Nat : D \in SUBSET (1..L) /\ v \in [D -> Int]
      BY DEF Summable
    <2>2. \E h : SumOf(h, v, D, L)
      BY <2>1, SumExists
    <2>3. QED
      BY <2>2
  <1>1. /\ h \in [SUBSET D -> Int] /\ h[{}] = 0 /\ SumOut(h, v, D)
        /\ v \in [D -> Int]
    BY <1>0 DEF SumOf
  <1>2. \A T \in SUBSET D : SumFunctionOnSet(v, T) = h[T]
    BY <1>0, SumGiven
  <1>3. ASSUME NEW x \in D \ S
        PROVE  SumFunctionOnSet(v, S \cup {x}) = SumFunctionOnSet(v, S) + v[x]
    <2> DEFINE T == S \cup {x}
    <2>1. T \in SUBSET D /\ x \in T /\ T \ {x} = S
      OBVIOUS
    <2> HIDE DEF T
    <2>2. h[T] = v[x] + h[S]
      BY <1>1, <2>1 DEF SumOut
    <2>3. v[x] \in Int /\ h[S] \in Int
      BY <1>1
    <2>4. v[x] + h[S] = h[S] + v[x]
      BY <2>3
    <2>5. QED
      BY <1>2, <2>1, <2>2, <2>4 DEF T
  <1>4. QED
    BY <1>1, <1>2, <1>3

RowKeys == {r.key : r \in Rows}
Values == [1..PARAMS -> Int]
EntrySet == [key: RowKeys, nParams: Nat, sCount: Nat, average: Values, stdev: Values]
SampleSet(L) == [key: 1..L, t: Nat, nParams: Nat, params: Values]
Lists(L) == [1..L -> EntrySet]

(* What a sample does to the entry of its key, in the first pass and in    *)
(* the second.                                                             *)
LEMMA TalliedIs ==
    ASSUME NEW L, NEW e \in EntrySet, NEW s \in SampleSet(L)
    PROVE  /\ Tallied(e, s) \in EntrySet
           /\ Tallied(e, s).key = e.key /\ Tallied(e, s).stdev = e.stdev
           /\ Tallied(e, s).sCount = e.sCount + 1
           /\ \A k \in 1..PARAMS : Tallied(e, s).average[k] = e.average[k] + s.params[k]
  <1> DEFINE a == [k \in 1..PARAMS |-> e.average[k] + s.params[k]]
             c == e.sCount + 1
  <1>1. s.nParams \in Nat /\ s.params \in Values
    BY DEF SampleSet
  <1>2. /\ e.key \in RowKeys /\ e.nParams \in Nat /\ e.sCount \in Nat
        /\ e.average \in Values /\ e.stdev \in Values
    BY DEF EntrySet
  <1>3. a \in Values
    <2> DEFINE u == e.average
               v == s.params
    <2> HIDE DEF u, v
    <2>1. u \in Values /\ v \in Values
      BY <1>1, <1>2 DEF u, v
    <2>2. \A k \in 1..PARAMS : u[k] + v[k] \in Int
      BY <2>1 DEF Values
    <2>3. [k \in 1..PARAMS |-> u[k] + v[k]] \in Values
      BY <2>2 DEF Values
    <2>4. QED
      BY <2>3 DEF u, v
  <1>4. c \in Nat
    BY <1>2
  <1> DEFINE r == [e EXCEPT !.nParams = s.nParams, !.sCount = c, !.average = a]
  <1>5. Tallied(e, s) = r
    BY DEF Tallied, EntrySet
  <1> HIDE DEF a, c
  <1>6. r = [key |-> e.key, nParams |-> s.nParams, sCount |-> c, average |-> a, stdev |-> e.stdev]
    <2> DEFINE p == s.nParams
               r1 == [e EXCEPT !.nParams = p]
               r2 == [r1 EXCEPT !.sCount = c]
               r3 == [r2 EXCEPT !.average = a]
    <2>1. r = r3
      OBVIOUS
    <2> HIDE DEF p, r
    <2>2. r1 = [key |-> e.key, nParams |-> p, sCount |-> e.sCount, average |-> e.average,
                stdev |-> e.stdev]
      BY DEF EntrySet
    <2> HIDE DEF r1
    <2>3. r2 = [key |-> e.key, nParams |-> p, sCount |-> c, average |-> e.average,
                stdev |-> e.stdev]
      BY <2>2
    <2> HIDE DEF r2
    <2>4. r3 = [key |-> e.key, nParams |-> p, sCount |-> c, average |-> a, stdev |-> e.stdev]
      BY <2>3
    <2> HIDE DEF r3
    <2>5. QED
      BY <2>1, <2>4 DEF p
  <1>7. r \in EntrySet
    BY <1>1, <1>2, <1>3, <1>4, <1>6 DEF EntrySet
  <1>8. r.key = e.key /\ r.stdev = e.stdev /\ r.sCount = c /\ r.average = a
    BY <1>6
  <1> HIDE DEF r
  <1>9. QED
    BY <1>5, <1>7, <1>8 DEF a, c

LEMMA WidenedIs ==
    ASSUME NEW L, NEW e \in EntrySet, NEW s \in SampleSet(L)
    PROVE  /\ Widened(e, s) \in EntrySet
           /\ Widened(e, s).key = e.key /\ Widened(e, s).sCount = e.sCount
           /\ Widened(e, s).average = e.average
           /\ \A k \in 1..PARAMS :
                 Widened(e, s).stdev[k] =
                     e.stdev[k] + Square(e.sCount * s.params[k] - e.average[k])
  <1> DEFINE d == [k \in 1..PARAMS |->
                      e.stdev[k] + Square(e.sCount * s.params[k] - e.average[k])]
  <1>1. s.params \in Values
    BY DEF SampleSet
  <1>2. /\ e.key \in RowKeys /\ e.nParams \in Nat /\ e.sCount \in Nat
        /\ e.average \in Values /\ e.stdev \in Values
    BY DEF EntrySet
  <1>3. d \in Values
    <2> DEFINE u == e.average
               v == s.params
               w == e.stdev
               c == e.sCount
    <2> HIDE DEF u, v, w, c
    <2>1. u \in Values /\ v \in Values /\ w \in Values /\ c \in Nat
      BY <1>1, <1>2 DEF u, v, w, c
    <2>2. \A k \in 1..PARAMS : w[k] + Square(c * v[k] - u[k]) \in Int
      <3> TAKE k \in 1..PARAMS
      <3>1. w[k] \in Int /\ v[k] \in Int /\ u[k] \in Int /\ c \in Int
        BY <2>1 DEF Values
      <3>2. c * v[k] - u[k] \in Int
        BY <3>1
      <3> DEFINE x == c * v[k] - u[k]
      <3> HIDE DEF x
      <3>3. Square(x) \in Int
        BY <3>2 DEF Square, x
      <3>4. w[k] + Square(x) \in Int
        BY <3>1, <3>3
      <3>5. QED
        BY <3>4 DEF x
    <2>3. [k \in 1..PARAMS |-> w[k] + Square(c * v[k] - u[k])] \in Values
      BY <2>2 DEF Values
    <2>4. QED
      BY <2>3 DEF u, v, w, c
  <1> DEFINE r == [e EXCEPT !.stdev = d]
  <1>5. Widened(e, s) = r
    BY DEF Widened, EntrySet
  <1> HIDE DEF d
  <1>6. r = [key |-> e.key, nParams |-> e.nParams, sCount |-> e.sCount,
             average |-> e.average, stdev |-> d]
    BY DEF EntrySet
  <1>7. r \in EntrySet
    BY <1>2, <1>3, <1>6 DEF EntrySet
  <1>8. r.key = e.key /\ r.stdev = d /\ r.sCount = e.sCount /\ r.average = e.average
    BY <1>6
  <1> HIDE DEF r
  <1>9. QED
    BY <1>5, <1>7, <1>8 DEF d

LEMMA CountedIs ==
    ASSUME NEW L, NEW l \in Lists(L), NEW s \in SampleSet(L)
    PROVE  /\ Counted(l, s) \in Lists(L)
           /\ \A n \in 1..L : Counted(l, s)[n] = IF n = s.key THEN Tallied(l[n], s) ELSE l[n]
  <1> DEFINE e == l[s.key]
             r == Tallied(e, s)
  <1>1. s.key \in 1..L
    BY DEF SampleSet
  <1>2. e \in EntrySet
    BY <1>1 DEF Lists
  <1>3. Counted(l, s) = [l EXCEPT ![s.key] = r]
    BY DEF Counted
  <1>5. r \in EntrySet
    BY <1>2, TalliedIs
  <1> DEFINE m == [l EXCEPT ![s.key] = r]
  <1>6. m \in Lists(L)
    <2> HIDE DEF r
    <2> QED BY <1>5 DEF Lists
  <1>7. \A n \in 1..L : m[n] = IF n = s.key THEN r ELSE l[n]
    <2> HIDE DEF r
    <2> QED BY <1>1 DEF Lists
  <1> HIDE DEF m
  <1>8. QED
    BY <1>3, <1>6, <1>7 DEF m

LEMMA SpreadIs ==
    ASSUME NEW L, NEW l \in Lists(L), NEW s \in SampleSet(L)
    PROVE  /\ Spread(l, s) \in Lists(L)
           /\ \A n \in 1..L : Spread(l, s)[n] = IF n = s.key THEN Widened(l[n], s) ELSE l[n]
  <1> DEFINE e == l[s.key]
             r == Widened(e, s)
  <1>1. s.key \in 1..L
    BY DEF SampleSet
  <1>2. e \in EntrySet
    BY <1>1 DEF Lists
  <1>3. Spread(l, s) = [l EXCEPT ![s.key] = r]
    BY DEF Spread
  <1>5. r \in EntrySet
    BY <1>2, WidenedIs
  <1> DEFINE m == [l EXCEPT ![s.key] = r]
  <1>6. m \in Lists(L)
    <2> HIDE DEF r
    <2> QED BY <1>5 DEF Lists
  <1>7. \A n \in 1..L : m[n] = IF n = s.key THEN r ELSE l[n]
    <2> HIDE DEF r
    <2> QED BY <1>1 DEF Lists
  <1> HIDE DEF m
  <1>8. QED
    BY <1>3, <1>6, <1>7 DEF m

(* Both passes take one sample after the other.                           *)
LEMMA AveragedRuns ==
    ASSUME NEW L, NEW keys \in Lists(L), NEW s \in Seq(SampleSet(L))
    PROVE  \E g \in [0..Len(s) -> Lists(L)] :
              /\ g[0] = keys /\ g[Len(s)] = Averaged(keys, s)
              /\ \A n \in 1..Len(s) : g[n] = Counted(g[n - 1], s[n])
  <1> DEFINE B == Lists(L)
             A == SampleSet(L)
             step == [p \in B \X A |-> Counted(p[1], p[2])]
             Is(h) == h = [T \in SUBSET (DOMAIN s) |->
                             IF T = {} THEN keys ELSE Counted(h[T \ {Max(T)}], s[Max(T)])]
             iter == CHOOSE h : Is(h)
  <1>0. \A x \in B, y \in A : Counted(x, y) \in B
    BY CountedIs
  <1>1. step \in [B \X A -> B] /\ \A x \in B, y \in A : step[<<x, y>>] = Counted(x, y)
    <2> HIDE DEF A, B
    <2> QED BY <1>0
  <1>2. s \in Seq(A) /\ keys \in B
    OBVIOUS
  <1>3. Averaged(keys, s) = iter[DOMAIN s]
    BY DEF Averaged, FoldLeft, MapThenFoldSet
  <1> HIDE DEF step, B, A
  <1>4. \E h : Is(h)
    <2>1. PICK h : h \in [SUBSET (DOMAIN s) -> B] /\ FoldsUp(h, DOMAIN s, keys, step, s)
      BY <1>1, <1>2, FoldExists
    <2>2. \A T \in SUBSET (DOMAIN s) :
             h[T] = IF T = {} THEN keys ELSE Counted(h[T \ {Max(T)}], s[Max(T)])
      BY <1>1, <1>2, <2>1, FoldPlaces DEF FoldsUp
    <2>3. h = [T \in SUBSET (DOMAIN s) |-> h[T]]
      BY <2>1
    <2>4. Is(h)
      BY <2>2, <2>3
    <2> HIDE DEF Is
    <2>5. QED
      BY <2>4
  <1>5. Is(iter)
    <2> HIDE DEF Is
    <2> QED BY <1>4
  <1> HIDE DEF iter
  <1>6. /\ iter[{}] = keys
        /\ \A n \in 1..Len(s) : iter[1..n] = Counted(iter[1..(n - 1)], s[n])
    <2>1. iter[{}] = keys
      BY <1>2, <1>5, FoldPlaces
    <2>2. ASSUME NEW n \in 1..Len(s)
          PROVE  iter[1..n] = Counted(iter[1..(n - 1)], s[n])
      <3> DEFINE T == 1..n
      <3>1. T \in SUBSET (DOMAIN s) /\ T # {} /\ Max(T) = n /\ T \ {n} = 1..(n - 1)
        BY <1>2, FoldPlaces
      <3> HIDE DEF T
      <3>2. iter[T] = Counted(iter[T \ {Max(T)}], s[Max(T)])
        BY <1>5, <3>1
      <3>3. iter[T] = Counted(iter[1..(n - 1)], s[n])
        BY <3>1, <3>2
      <3>4. QED
        BY <3>3 DEF T
    <2>3. QED
      BY <2>1, <2>2
  <1>7. \A n \in 1..Len(s) :
            iter[1..(n - 1)] \in B => iter[1..n] = step[<<iter[1..(n - 1)], s[n]>>]
    BY <1>1, <1>2, <1>6
  <1>8. PICK g \in [0..Len(s) -> B] : Runs(g, keys, step, s) /\ iter[DOMAIN s] = g[Len(s)]
    <2>1. TakesIn(iter, B, keys, step, s)
      BY <1>6, <1>7 DEF TakesIn
    <2>2. FoldsTo(iter[DOMAIN s], B, keys, step, s)
      BY <1>1, <1>2, <2>1, FoldRuns
    <2>3. QED
      BY <2>2 DEF FoldsTo
  <1>9. g[0] = keys /\ \A n \in 1..Len(s) : g[n] = Counted(g[n - 1], s[n])
    <2>1. \A n \in 1..Len(s) : g[n - 1] \in B /\ s[n] \in A
      BY <1>2, <1>8
    <2>2. QED
      BY <1>1, <1>8, <2>1 DEF Runs
  <1>10. QED
    BY <1>3, <1>8, <1>9 DEF B

LEMMA DeviatedRuns ==
    ASSUME NEW L, NEW keys \in Lists(L), NEW s \in Seq(SampleSet(L))
    PROVE  \E g \in [0..Len(s) -> Lists(L)] :
              /\ g[0] = keys /\ g[Len(s)] = Deviated(keys, s)
              /\ \A n \in 1..Len(s) : g[n] = Spread(g[n - 1], s[n])
  <1> DEFINE B == Lists(L)
             A == SampleSet(L)
             step == [p \in B \X A |-> Spread(p[1], p[2])]
             Is(h) == h = [T \in SUBSET (DOMAIN s) |->
                             IF T = {} THEN keys ELSE Spread(h[T \ {Max(T)}], s[Max(T)])]
             iter == CHOOSE h : Is(h)
  <1>0. \A x \in B, y \in A : Spread(x, y) \in B
    BY SpreadIs
  <1>1. step \in [B \X A -> B] /\ \A x \in B, y \in A : step[<<x, y>>] = Spread(x, y)
    <2> HIDE DEF A, B
    <2> QED BY <1>0
  <1>2. s \in Seq(A) /\ keys \in B
    OBVIOUS
  <1>3. Deviated(keys, s) = iter[DOMAIN s]
    BY DEF Deviated, FoldLeft, MapThenFoldSet
  <1> HIDE DEF step, B, A
  <1>4. \E h : Is(h)
    <2>1. PICK h : h \in [SUBSET (DOMAIN s) -> B] /\ FoldsUp(h, DOMAIN s, keys, step, s)
      BY <1>1, <1>2, FoldExists
    <2>2. \A T \in SUBSET (DOMAIN s) :
             h[T] = IF T = {} THEN keys ELSE Spread(h[T \ {Max(T)}], s[Max(T)])
      BY <1>1, <1>2, <2>1, FoldPlaces DEF FoldsUp
    <2>3. h = [T \in SUBSET (DOMAIN s) |-> h[T]]
      BY <2>1
    <2>4. Is(h)
      BY <2>2, <2>3
    <2> HIDE DEF Is
    <2>5. QED
      BY <2>4
  <1>5. Is(iter)
    <2> HIDE DEF Is
    <2> QED BY <1>4
  <1> HIDE DEF iter
  <1>6. /\ iter[{}] = keys
        /\ \A n \in 1..Len(s) : iter[1..n] = Spread(iter[1..(n - 1)], s[n])
    <2>1. iter[{}] = keys
      BY <1>2, <1>5, FoldPlaces
    <2>2. ASSUME NEW n \in 1..Len(s)
          PROVE  iter[1..n] = Spread(iter[1..(n - 1)], s[n])
      <3> DEFINE T == 1..n
      <3>1. T \in SUBSET (DOMAIN s) /\ T # {} /\ Max(T) = n /\ T \ {n} = 1..(n - 1)
        BY <1>2, FoldPlaces
      <3> HIDE DEF T
      <3>2. iter[T] = Spread(iter[T \ {Max(T)}], s[Max(T)])
        BY <1>5, <3>1
      <3>3. iter[T] = Spread(iter[1..(n - 1)], s[n])
        BY <3>1, <3>2
      <3>4. QED
        BY <3>3 DEF T
    <2>3. QED
      BY <2>1, <2>2
  <1>7. \A n \in 1..Len(s) :
            iter[1..(n - 1)] \in B => iter[1..n] = step[<<iter[1..(n - 1)], s[n]>>]
    BY <1>1, <1>2, <1>6
  <1>8. PICK g \in [0..Len(s) -> B] : Runs(g, keys, step, s) /\ iter[DOMAIN s] = g[Len(s)]
    <2>1. TakesIn(iter, B, keys, step, s)
      BY <1>6, <1>7 DEF TakesIn
    <2>2. FoldsTo(iter[DOMAIN s], B, keys, step, s)
      BY <1>1, <1>2, <2>1, FoldRuns
    <2>3. QED
      BY <2>2 DEF FoldsTo
  <1>9. g[0] = keys /\ \A n \in 1..Len(s) : g[n] = Spread(g[n - 1], s[n])
    <2>1. \A n \in 1..Len(s) : g[n - 1] \in B /\ s[n] \in A
      BY <1>2, <1>8
    <2>2. QED
      BY <1>1, <1>8, <2>1 DEF Runs
  <1>10. QED
    BY <1>3, <1>8, <1>9 DEF B

(* The rows at which the samples of an entry lie, of the first m samples.  *)
Placed(s, at, L) ==
    /\ s \in Seq(SampleSet(L))
    /\ \E N \in Nat : at \in [1..Len(s) -> 1..N]
    /\ \A i, j \in 1..Len(s) : at[i] = at[j] => i = j

SamplesOf(s, n, m) == {i \in 1..m : s[i].key = n}
RowsOf(s, at, n, m) == {at[i] : i \in SamplesOf(s, n, m)}

LEMMA RowsOfMore ==
    ASSUME NEW s, NEW at, NEW L, Placed(s, at, L), NEW n
    PROVE  /\ Len(s) \in Nat /\ RowsOf(s, at, n, 0) = {}
           /\ \A m \in 1..Len(s) :
                 /\ s[m] \in SampleSet(L) /\ m - 1 \in 0..Len(s) /\ m \in 0..Len(s)
                 /\ at[m] \notin RowsOf(s, at, n, m - 1)
                 /\ s[m].key = n => RowsOf(s, at, n, m) = RowsOf(s, at, n, m - 1) \cup {at[m]}
                 /\ s[m].key # n => RowsOf(s, at, n, m) = RowsOf(s, at, n, m - 1)
           /\ \A m \in 0..Len(s) : /\ RowsOf(s, at, n, m) \subseteq RowsOf(s, at, n, Len(s))
                                   /\ IsFiniteSet(RowsOf(s, at, n, m))
           /\ \E N \in Nat : RowsOf(s, at, n, Len(s)) \subseteq 1..N
  <1> DEFINE M == Len(s)
             R(m) == RowsOf(s, at, n, m)
  <1>1. PICK N \in Nat : at \in [1..M -> 1..N]
    BY DEF Placed
  <1>2. \A i, j \in 1..M : at[i] = at[j] => i = j
    BY DEF Placed
  <1>3. M \in Nat /\ s \in Seq(SampleSet(L))
    BY DEF Placed
  <1>4. R(0) = {}
    BY DEF RowsOf, SamplesOf
  <1>5. ASSUME NEW m \in 1..M
        PROVE  /\ s[m] \in SampleSet(L) /\ m - 1 \in 0..M /\ m \in 0..M
               /\ at[m] \notin R(m - 1)
               /\ s[m].key = n => R(m) = R(m - 1) \cup {at[m]}
               /\ s[m].key # n => R(m) = R(m - 1)
    <2>1. s[m] \in SampleSet(L) /\ m - 1 \in 0..M /\ m \in 0..M
      BY <1>3
    <2>2. at[m] \notin R(m - 1)
      <3> SUFFICES ASSUME NEW i \in 1..(m - 1), at[i] = at[m] PROVE FALSE
        BY DEF RowsOf, SamplesOf
      <3>1. i \in 1..M /\ m \in 1..M /\ i # m
        BY <1>3
      <3>2. QED
        BY <1>2, <3>1
    <2>3. s[m].key = n => SamplesOf(s, n, m) = SamplesOf(s, n, m - 1) \cup {m}
      <3>1. \A i : i \in 1..m <=> (i \in 1..(m - 1) \/ i = m)
        BY <1>3
      <3>2. QED
        BY <3>1 DEF SamplesOf
    <2>4. s[m].key # n => SamplesOf(s, n, m) = SamplesOf(s, n, m - 1)
      <3>1. \A i : i \in 1..m <=> (i \in 1..(m - 1) \/ i = m)
        BY <1>3
      <3>2. QED
        BY <3>1 DEF SamplesOf
    <2>5. s[m].key = n => R(m) = R(m - 1) \cup {at[m]}
      BY <2>3 DEF RowsOf
    <2>6. s[m].key # n => R(m) = R(m - 1)
      BY <2>4 DEF RowsOf
    <2>7. QED
      BY <2>1, <2>2, <2>5, <2>6
  <1>6. ASSUME NEW m \in 0..M PROVE R(m) \subseteq R(M) /\ IsFiniteSet(R(m))
    <2>1. SamplesOf(s, n, m) \subseteq SamplesOf(s, n, M)
      BY <1>3 DEF SamplesOf
    <2>2. R(m) \subseteq R(M)
      BY <2>1 DEF RowsOf
    <2>3. R(m) \subseteq 1..N
      BY <1>1, <1>3 DEF RowsOf, SamplesOf
    <2>4. IsFiniteSet(1..N)
      BY FS_Interval
    <2> HIDE DEF R
    <2>5. QED
      BY <2>2, <2>3, <2>4, FS_Subset
  <1>7. R(M) \subseteq 1..N
    BY <1>1, <1>3 DEF RowsOf, SamplesOf
  <1> HIDE DEF R
  <1>8. QED
    BY <1>1, <1>3, <1>4, <1>5, <1>6, <1>7 DEF R

(* An entry after m samples of the first pass.                             *)
Counts(e, e0, R) == e.key = e0.key /\ e.stdev = e0.stdev /\ e.sCount = Cardinality(R)

(* The values of the samples of an entry at place k are those of the rows. *)
Valued(v, s, at, n, k) ==
    /\ v \in [RowsOf(s, at, n, Len(s)) -> Int]
    /\ \A i \in 1..Len(s) : s[i].key = n => v[at[i]] = s[i].params[k]

LEMMA ValuedSummable ==
    ASSUME NEW s, NEW at, NEW L, Placed(s, at, L), NEW n, NEW k, NEW v, Valued(v, s, at, n, k)
    PROVE  Summable(v, RowsOf(s, at, n, Len(s)))
  <1> DEFINE D == RowsOf(s, at, n, Len(s))
  <1>1. \E N \in Nat : D \subseteq 1..N
    BY RowsOfMore
  <1>2. v \in [D -> Int]
    BY DEF Valued
  <1> HIDE DEF D
  <1>3. QED
    BY <1>1, <1>2 DEF Summable, D

LEMMA FirstPass ==
    ASSUME NEW s, NEW at, NEW L, Placed(s, at, L), NEW keys \in Lists(L), NEW n \in 1..L,
           keys[n].sCount = 0
    PROVE  /\ Averaged(keys, s) \in Lists(L)
           /\ Counts(Averaged(keys, s)[n], keys[n], RowsOf(s, at, n, Len(s)))
           /\ \A v : \A k \in 1..PARAMS :
                 keys[n].average[k] = 0 /\ Valued(v, s, at, n, k) =>
                    Averaged(keys, s)[n].average[k]
                        = SumFunctionOnSet(v, RowsOf(s, at, n, Len(s)))
  <1> DEFINE M == Len(s)
             R(m) == RowsOf(s, at, n, m)
  <1>1. PICK g \in [0..M -> Lists(L)] :
              /\ g[0] = keys /\ g[M] = Averaged(keys, s)
              /\ \A m \in 1..M : g[m] = Counted(g[m - 1], s[m])
    <2>1. s \in Seq(SampleSet(L))
      BY DEF Placed
    <2>2. QED
      BY <2>1, AveragedRuns
  <1>2. /\ M \in Nat /\ R(0) = {}
        /\ \A m \in 1..M : /\ s[m] \in SampleSet(L) /\ m - 1 \in 0..M /\ m \in 0..M
                           /\ at[m] \notin R(m - 1)
                           /\ s[m].key = n => R(m) = R(m - 1) \cup {at[m]}
                           /\ s[m].key # n => R(m) = R(m - 1)
        /\ \A m \in 0..M : R(m) \subseteq R(M) /\ IsFiniteSet(R(m))
    BY RowsOfMore
  <1> HIDE DEF R
  <1>3. \A m \in 0..M : g[m] \in Lists(L) /\ g[m][n] \in EntrySet
    BY <1>1 DEF Lists
  <1>4. ASSUME NEW m \in 1..M
        PROVE  g[m][n] = IF n = s[m].key THEN Tallied(g[m - 1][n], s[m]) ELSE g[m - 1][n]
    <2> DEFINE l == g[m - 1]
    <2>1. l \in Lists(L) /\ s[m] \in SampleSet(L) /\ g[m] = Counted(l, s[m])
      BY <1>1, <1>2, <1>3
    <2> HIDE DEF l
    <2>2. QED
      BY <2>1, CountedIs DEF l
  <1> DEFINE P == {m \in Nat : m <= M => Counts(g[m][n], keys[n], R(m))}
  <1>5. 0 \in P
    <2>1. Cardinality({}) = 0
      BY FS_EmptySet
    <2>2. QED
      BY <1>1, <1>2, <2>1 DEF Counts
  <1>6. ASSUME NEW j \in Nat, j \in P PROVE j + 1 \in P
    <2> DEFINE m == j + 1
    <2> SUFFICES ASSUME m <= M PROVE Counts(g[m][n], keys[n], R(m))
      OBVIOUS
    <2>1. m \in 1..M /\ m - 1 = j /\ j \in 0..M
      BY <1>2
    <2> HIDE DEF m
    <2>2. Counts(g[j][n], keys[n], R(j))
      BY <1>2, <1>6, <2>1
    <2>3. CASE n = s[m].key
      <3> DEFINE e == g[j][n]
                 t == s[m]
                 f == Tallied(e, t)
      <3>1. e \in EntrySet /\ t \in SampleSet(L) /\ g[m][n] = f
        BY <1>2, <1>3, <1>4, <2>1, <2>3
      <3> HIDE DEF e, t
      <3>2. f.key = e.key /\ f.stdev = e.stdev /\ f.sCount = e.sCount + 1
        BY <3>1, TalliedIs
      <3> HIDE DEF f
      <3>3. Cardinality(R(m)) = Cardinality(R(j)) + 1
        <4>1. IsFiniteSet(R(j)) /\ at[m] \notin R(j) /\ R(m) = R(j) \cup {at[m]}
          BY <1>2, <2>1, <2>3
        <4> DEFINE T == R(j)
                   x == at[m]
        <4> HIDE DEF T, x
        <4>2. Cardinality(T \cup {x}) = Cardinality(T) + 1
          BY <4>1, FS_AddElement DEF T, x
        <4>3. QED
          BY <4>1, <4>2 DEF T, x
      <3>4. Counts(e, keys[n], R(j))
        BY <2>2 DEF e
      <3>5. Counts(f, keys[n], R(m))
        BY <3>2, <3>3, <3>4 DEF Counts
      <3>6. QED
        BY <3>1, <3>5
    <2>4. CASE n # s[m].key
      BY <1>2, <1>4, <2>1, <2>2, <2>4
    <2>5. QED
      BY <2>3, <2>4
  <1>7. M \in P
    <2>1. Nat \subseteq P
      <3> HIDE DEF P
      <3> QED BY <1>5, <1>6, SetInduction
    <2>2. QED
      BY <1>2, <2>1
  <1>8. Counts(Averaged(keys, s)[n], keys[n], R(M))
    BY <1>1, <1>2, <1>7
  <1>9. ASSUME NEW k \in 1..PARAMS, NEW v, keys[n].average[k] = 0, Valued(v, s, at, n, k)
        PROVE  Averaged(keys, s)[n].average[k] = SumFunctionOnSet(v, R(M))
    <2> DEFINE sum(m) == SumFunctionOnSet(v, R(m))
               Q == {m \in Nat : m <= M => g[m][n].average[k] = sum(m)}
    <2>0. Summable(v, R(M))
      BY <1>9, ValuedSummable DEF R
    <2>1. sum(0) = 0
      <3>1. R(0) \in SUBSET R(M)
        BY <1>2
      <3> DEFINE D == R(M)
      <3> HIDE DEF D
      <3>2. SumFunctionOnSet(v, {}) = 0
        BY <2>0, <3>1, SumMore DEF D
      <3>3. QED
        BY <1>2, <3>2
    <2>2. ASSUME NEW m \in 1..M, n = s[m].key
          PROVE  sum(m) = sum(m - 1) + s[m].params[k]
      <3> DEFINE S == R(m - 1)
                 x == at[m]
                 D == R(M)
      <3>1. S \in SUBSET D /\ R(m) = S \cup {x} /\ R(m) \in SUBSET D /\ x \notin S
        BY <1>2, <2>2
      <3>2. v[x] = s[m].params[k]
        BY <1>9, <2>2 DEF Valued
      <3> HIDE DEF S, x, D
      <3>3. x \in D \ S
        BY <3>1
      <3>4. SumFunctionOnSet(v, S \cup {x}) = SumFunctionOnSet(v, S) + v[x]
        BY <2>0, <3>1, <3>3, SumMore DEF D
      <3>5. QED
        BY <3>1, <3>2, <3>4 DEF S
    <2> HIDE DEF sum
    <2>3. 0 \in Q
      BY <1>1, <1>9, <2>1
    <2>4. ASSUME NEW j \in Nat, j \in Q PROVE j + 1 \in Q
      <3> DEFINE m == j + 1
      <3> SUFFICES ASSUME m <= M PROVE g[m][n].average[k] = sum(m)
        OBVIOUS
      <3>1. m \in 1..M /\ m - 1 = j /\ j \in 0..M
        BY <1>2
      <3> HIDE DEF m
      <3>2. g[j][n].average[k] = sum(j)
        BY <1>2, <2>4, <3>1
      <3>3. CASE n = s[m].key
        <4> DEFINE e == g[j][n]
                   t == s[m]
                   f == Tallied(e, t)
        <4>1. e \in EntrySet /\ t \in SampleSet(L) /\ g[m][n] = f
          BY <1>2, <1>3, <1>4, <3>1, <3>3
        <4>2. sum(m) = sum(j) + t.params[k]
          BY <2>2, <3>1, <3>3
        <4>3. e.average[k] = sum(j)
          BY <3>2
        <4> HIDE DEF e, t
        <4>4. f.average[k] = e.average[k] + t.params[k]
          BY <4>1, TalliedIs
        <4> HIDE DEF f
        <4>5. QED
          BY <4>1, <4>2, <4>3, <4>4
      <3>4. CASE n # s[m].key
        <4>1. sum(m) = sum(j)
          BY <1>2, <3>1, <3>4 DEF sum
        <4>2. QED
          BY <1>4, <3>1, <3>2, <3>4, <4>1
      <3>5. QED
        BY <3>3, <3>4
    <2>5. M \in Q
      <3>1. Nat \subseteq Q
        <4> HIDE DEF Q
        <4> QED BY <2>3, <2>4, SetInduction
      <3>2. QED
        BY <1>2, <3>1
    <2>6. QED
      BY <1>1, <1>2, <2>5 DEF sum
  <1>10. Averaged(keys, s) \in Lists(L)
    BY <1>1, <1>2
  <1>11. QED
    BY <1>8, <1>9, <1>10 DEF R

(* The squared deviations of C values with sum S and sum of squares Q.     *)
Deviation(c, a, Q, S, C) == c * (c * Q) - 2 * (c * (a * S)) + C * (a * a)

LEMMA DeviationMore ==
    ASSUME NEW c \in Int, NEW a \in Int, NEW Q \in Int, NEW S \in Int, NEW C \in Int, NEW p \in Int
    PROVE  /\ Deviation(c, a, Q, S, C) + Square(c * p - a)
                  = Deviation(c, a, Q + Square(p), S + p, C + 1)
           /\ Deviation(c, a, 0, 0, 0) = 0
  <1>1. (c * (c * Q) - 2 * (c * (a * S)) + C * (a * a)) + (c * p - a) * (c * p - a)
           = c * (c * (Q + p * p)) - 2 * (c * (a * (S + p))) + (C + 1) * (a * a)
    OBVIOUS
  <1>2. c * (c * 0) - 2 * (c * (a * 0)) + 0 * (a * a) = 0
    OBVIOUS
  <1>3. QED
    BY <1>1, <1>2 DEF Deviation, Square

LEMMA DeviationIs ==
    ASSUME NEW Q \in Int, NEW S \in Int, NEW C \in Int
    PROVE  Deviation(C, S, Q, S, C) = C * (C * Q - S * S)
  <1>1. C * (C * Q) - 2 * (C * (S * S)) + C * (S * S) = C * (C * Q - S * S)
    OBVIOUS
  <1>2. QED
    BY <1>1 DEF Deviation

Keeps(e, e0) == e.key = e0.key /\ e.sCount = e0.sCount /\ e.average = e0.average

LEMMA SecondPass ==
    ASSUME NEW s, NEW at, NEW L, Placed(s, at, L), NEW keys \in Lists(L), NEW n \in 1..L
    PROVE  /\ Deviated(keys, s) \in Lists(L)
           /\ Keeps(Deviated(keys, s)[n], keys[n])
           /\ \A v, w : \A k \in 1..PARAMS :
                 /\ keys[n].stdev[k] = 0 /\ Valued(v, s, at, n, k)
                 /\ w = [i \in RowsOf(s, at, n, Len(s)) |-> Square(v[i])]
                 => LET D == RowsOf(s, at, n, Len(s))
                    IN  Deviated(keys, s)[n].stdev[k]
                          = Deviation(keys[n].sCount, keys[n].average[k],
                                      SumFunctionOnSet(w, D), SumFunctionOnSet(v, D),
                                      Cardinality(D))
  <1> DEFINE M == Len(s)
             R(m) == RowsOf(s, at, n, m)
  <1>1. PICK g \in [0..M -> Lists(L)] :
              /\ g[0] = keys /\ g[M] = Deviated(keys, s)
              /\ \A m \in 1..M : g[m] = Spread(g[m - 1], s[m])
    <2>1. s \in Seq(SampleSet(L))
      BY DEF Placed
    <2>2. QED
      BY <2>1, DeviatedRuns
  <1>2. /\ M \in Nat /\ R(0) = {}
        /\ \A m \in 1..M : /\ s[m] \in SampleSet(L) /\ m - 1 \in 0..M /\ m \in 0..M
                           /\ at[m] \notin R(m - 1)
                           /\ s[m].key = n => R(m) = R(m - 1) \cup {at[m]}
                           /\ s[m].key # n => R(m) = R(m - 1)
        /\ \A m \in 0..M : R(m) \subseteq R(M) /\ IsFiniteSet(R(m))
    BY RowsOfMore
  <1> HIDE DEF R
  <1>3. \A m \in 0..M : g[m] \in Lists(L) /\ g[m][n] \in EntrySet
    BY <1>1 DEF Lists
  <1>4. ASSUME NEW m \in 1..M
        PROVE  g[m][n] = IF n = s[m].key THEN Widened(g[m - 1][n], s[m]) ELSE g[m - 1][n]
    <2> DEFINE l == g[m - 1]
    <2>1. l \in Lists(L) /\ s[m] \in SampleSet(L) /\ g[m] = Spread(l, s[m])
      BY <1>1, <1>2, <1>3
    <2> HIDE DEF l
    <2>2. QED
      BY <2>1, SpreadIs DEF l
  <1> DEFINE P == {m \in Nat : m <= M => Keeps(g[m][n], keys[n])}
  <1>5. 0 \in P
    BY <1>1 DEF Keeps
  <1>6. ASSUME NEW j \in Nat, j \in P PROVE j + 1 \in P
    <2> DEFINE m == j + 1
    <2> SUFFICES ASSUME m <= M PROVE Keeps(g[m][n], keys[n])
      OBVIOUS
    <2>1. m \in 1..M /\ m - 1 = j /\ j \in 0..M
      BY <1>2
    <2> HIDE DEF m
    <2>2. Keeps(g[j][n], keys[n])
      BY <1>2, <1>6, <2>1
    <2>3. CASE n = s[m].key
      <3> DEFINE e == g[j][n]
                 t == s[m]
                 f == Widened(e, t)
      <3>1. e \in EntrySet /\ t \in SampleSet(L) /\ g[m][n] = f
        BY <1>2, <1>3, <1>4, <2>1, <2>3
      <3> HIDE DEF e, t
      <3>2. f.key = e.key /\ f.sCount = e.sCount /\ f.average = e.average
        BY <3>1, WidenedIs
      <3> HIDE DEF f
      <3>3. Keeps(e, keys[n])
        BY <2>2 DEF e
      <3>4. Keeps(f, keys[n])
        BY <3>2, <3>3 DEF Keeps
      <3>5. QED
        BY <3>1, <3>4
    <2>4. CASE n # s[m].key
      BY <1>2, <1>4, <2>1, <2>2, <2>4
    <2>5. QED
      BY <2>3, <2>4
  <1>7. Nat \subseteq P
    <2> HIDE DEF P
    <2> QED BY <1>5, <1>6, SetInduction
  <1>8. \A m \in 0..M : Keeps(g[m][n], keys[n])
    BY <1>2, <1>7
  <1> HIDE DEF P
  <1>9. ASSUME NEW v, NEW w, NEW k \in 1..PARAMS, keys[n].stdev[k] = 0, Valued(v, s, at, n, k),
               w = [i \in R(M) |-> Square(v[i])]
        PROVE  Deviated(keys, s)[n].stdev[k]
                 = Deviation(keys[n].sCount, keys[n].average[k], SumFunctionOnSet(w, R(M)),
                             SumFunctionOnSet(v, R(M)), Cardinality(R(M)))
    <2> DEFINE D == R(M)
               c == keys[n].sCount
               a == keys[n].average[k]
               sum(m) == SumFunctionOnSet(v, R(m))
               squares(m) == SumFunctionOnSet(w, R(m))
               size(m) == Cardinality(R(m))
               dev(m) == Deviation(c, a, squares(m), sum(m), size(m))
               Q == {m \in Nat : m <= M => g[m][n].stdev[k] = dev(m)}
    <2>0. Summable(v, D)
      BY <1>9, ValuedSummable DEF R
    <2>1. Summable(w, D)
      <3> HIDE DEF D
      <3>1. PICK L1 \in Nat : D \in SUBSET (1..L1) /\ v \in [D -> Int]
        BY <2>0 DEF Summable
      <3>2. \A i \in D : Square(v[i]) \in Int
        BY <3>1 DEF Square
      <3>3. w = [i \in D |-> Square(v[i])]
        BY <1>9 DEF D
      <3>4. w \in [D -> Int]
        BY <3>2, <3>3
      <3>5. QED
        BY <3>1, <3>4 DEF Summable
    <2>2. c \in Int /\ a \in Int
      <3>1. keys[n] \in EntrySet
        BY DEF Lists
      <3>2. c \in Nat /\ keys[n].average \in Values
        BY <3>1 DEF EntrySet
      <3> DEFINE u == keys[n].average
      <3>3. u \in Values
        BY <3>2
      <3> HIDE DEF u
      <3>4. u[k] \in Int
        BY <3>3 DEF Values
      <3>5. QED
        BY <3>2, <3>4 DEF u
    <2> HIDE DEF c, a, D
    <2>3. \A m \in 0..M : R(m) \in SUBSET D /\ IsFiniteSet(R(m))
      BY <1>2 DEF D
    <2>4. sum(0) = 0 /\ squares(0) = 0 /\ size(0) = 0
      <3>1. SumFunctionOnSet(v, {}) = 0 /\ SumFunctionOnSet(w, {}) = 0
        <4>1. {} \in SUBSET D
          OBVIOUS
        <4>2. QED
          BY <2>0, <2>1, <4>1, SumMore
      <3>2. Cardinality({}) = 0
        BY FS_EmptySet
      <3>3. QED
        BY <1>2, <3>1, <3>2
    <2>5. \A m \in 0..M : sum(m) \in Int /\ squares(m) \in Int /\ size(m) \in Int
      <3> TAKE m \in 0..M
      <3> DEFINE S == R(m)
      <3>1. S \in SUBSET D /\ IsFiniteSet(S)
        BY <2>3
      <3> HIDE DEF S
      <3>2. SumFunctionOnSet(v, S) \in Int /\ SumFunctionOnSet(w, S) \in Int
        BY <2>0, <2>1, <3>1, SumMore
      <3>3. Cardinality(S) \in Nat
        BY <3>1, FS_CardinalityType
      <3>4. QED
        BY <3>2, <3>3 DEF S
    <2>6. ASSUME NEW m \in 1..M, n = s[m].key
          PROVE  /\ sum(m) = sum(m - 1) + s[m].params[k]
                 /\ squares(m) = squares(m - 1) + Square(s[m].params[k])
                 /\ size(m) = size(m - 1) + 1
                 /\ s[m].params[k] \in Int
      <3> DEFINE S == R(m - 1)
                 x == at[m]
      <3>1. S \in SUBSET D /\ R(m) = S \cup {x} /\ R(m) \in SUBSET D /\ x \notin S
            /\ IsFiniteSet(S)
        BY <1>2, <2>3, <2>6
      <3>2. v[x] = s[m].params[k]
        BY <1>9, <2>6 DEF Valued
      <3> HIDE DEF S, x
      <3>3. x \in D \ S
        BY <3>1
      <3>4. SumFunctionOnSet(v, S \cup {x}) = SumFunctionOnSet(v, S) + v[x]
        BY <2>0, <3>1, <3>3, SumMore
      <3>5. SumFunctionOnSet(w, S \cup {x}) = SumFunctionOnSet(w, S) + w[x]
        BY <2>1, <3>1, <3>3, SumMore
      <3>6. w[x] = Square(v[x])
        BY <1>9, <3>3 DEF D
      <3>7. Cardinality(S \cup {x}) = Cardinality(S) + 1
        BY <3>1, FS_AddElement
      <3>8. v[x] \in Int
        BY <2>0, <3>3 DEF Summable
      <3>9. QED
        BY <3>1, <3>2, <3>4, <3>5, <3>6, <3>7, <3>8 DEF S
    <2> HIDE DEF sum, squares, size
    <2>7. 0 \in Q
      <3>1. dev(0) = 0
        BY <2>2, <2>4, DeviationMore
      <3>2. QED
        BY <1>1, <1>9, <3>1
    <2>8. ASSUME NEW j \in Nat, j \in Q PROVE j + 1 \in Q
      <3> DEFINE m == j + 1
      <3> SUFFICES ASSUME m <= M PROVE g[m][n].stdev[k] = dev(m)
        OBVIOUS
      <3>1. m \in 1..M /\ m - 1 = j /\ j \in 0..M
        BY <1>2
      <3> HIDE DEF m
      <3>2. g[j][n].stdev[k] = dev(j)
        BY <1>2, <2>8, <3>1
      <3>3. CASE n = s[m].key
        <4> DEFINE e == g[j][n]
                   t == s[m]
                   f == Widened(e, t)
                   p == t.params[k]
        <4>1. e \in EntrySet /\ t \in SampleSet(L) /\ g[m][n] = f
          BY <1>2, <1>3, <1>4, <3>1, <3>3
        <4>2. /\ sum(m) = sum(j) + p /\ squares(m) = squares(j) + Square(p)
              /\ size(m) = size(j) + 1 /\ p \in Int
          BY <2>6, <3>1, <3>3
        <4>3. e.stdev[k] = dev(j)
          BY <3>2
        <4>4. e.sCount = c /\ e.average[k] = a
          BY <1>8, <3>1 DEF Keeps, c, a
        <4>5. sum(j) \in Int /\ squares(j) \in Int /\ size(j) \in Int
          BY <2>5, <3>1
        <4> HIDE DEF e, t
        <4>6. f.stdev[k] = e.stdev[k] + Square(e.sCount * p - e.average[k])
          BY <4>1, WidenedIs
        <4> HIDE DEF f, p
        <4>7. f.stdev[k] = Deviation(c, a, squares(j), sum(j), size(j)) + Square(c * p - a)
          BY <4>3, <4>4, <4>6
        <4>8. f.stdev[k] = Deviation(c, a, squares(j) + Square(p), sum(j) + p, size(j) + 1)
          BY <2>2, <4>2, <4>5, <4>7, DeviationMore
        <4>9. QED
          BY <4>1, <4>2, <4>8
      <3>4. CASE n # s[m].key
        <4>1. R(m) = R(j)
          BY <1>2, <3>1, <3>4
        <4>2. dev(m) = dev(j)
          BY <4>1 DEF sum, squares, size
        <4>3. QED
          BY <1>4, <3>1, <3>2, <3>4, <4>2
      <3>5. QED
        BY <3>3, <3>4
    <2>9. M \in Q
      <3>1. Nat \subseteq Q
        <4> HIDE DEF Q
        <4> QED BY <2>7, <2>8, SetInduction
      <3>2. QED
        BY <1>2, <3>1
    <2>10. QED
      BY <1>1, <1>2, <2>9 DEF sum, squares, size, c, a
  <1>10. Deviated(keys, s) \in Lists(L) /\ Keeps(Deviated(keys, s)[n], keys[n])
    BY <1>1, <1>2, <1>8
  <1>11. QED
    BY <1>9, <1>10 DEF R

(***************************************************************************)
(* What the property says of the lines read so far, as a function of them. *)
(***************************************************************************)
Marked(log, i) == {j \in 1..i : log[j].time # BadTime}
TimeIn(log, i) == IF Marked(log, i) = {} THEN 0 ELSE log[Max(Marked(log, i))].time
PlacesIn(log, key) == {i \in DOMAIN log : log[i].key = key}
FirstIn(log, key) == Min(PlacesIn(log, key))
SeenIn(log) == {log[i].key : i \in DOMAIN log} \ {NoKey}
Before(log, key) == {other \in SeenIn(log) : FirstIn(log, other) < FirstIn(log, key)}
ListedIn(log) == {key \in SeenIn(log) : Cardinality(Before(log, key)) < KEYS}
YoungIn(log, key) ==
    {i \in DOMAIN log :
        /\ log[i].key = key
        /\ \A j \in i..Len(log) : log[j].key \in ListedIn(log) =>
              TimeIn(log, j) > TimeIn(log, Len(log)) - nsamples}
NumberedIn(log, i, k) == k <= Len(log[i].vals) /\ log[i].vals[k] # NoValue

EntryOK(e, log) ==
    LET mine == YoungIn(log, e.key)
        n    == Cardinality(mine)
    IN  /\ e.sCount = n
        /\ \A k \in 1..PARAMS :
              (\A i \in mine : NumberedIn(log, i, k)) =>
                  LET S == SumFunction([i \in mine |-> log[i].vals[k]])
                      Q == SumFunction([i \in mine |-> Square(log[i].vals[k])])
                  IN  e.average[k] = S /\ e.stdev[k] = n * (n * Q - S * S)

ReportOK(r, log) ==
    /\ {e.key : e \in ToSet(r)} = ListedIn(log)
    /\ \A e \in ToSet(r) : EntryOK(e, log)

LEMMA WindowStatsIs == WindowStats <=> (report # NoReport => ReportOK(report, rows))
  <1>1. \A i : TimeAt(i) = TimeIn(rows, i)
    BY DEF TimeAt, TimeIn, Marked
  <1>2. \A key : FirstAt(key) = FirstIn(rows, key)
    BY DEF FirstAt, FirstIn, PlacesIn
  <1>3. KeysSeen = SeenIn(rows)
    BY DEF KeysSeen, SeenIn, ToSet
  <1>4. Listed = ListedIn(rows)
    BY <1>2, <1>3 DEF Listed, ListedIn, Before
  <1>5. \A key : Young(key) = YoungIn(rows, key)
    BY <1>1, <1>4 DEF Young, YoungIn
  <1>6. \A i, k : NumberedAt(i, k) <=> NumberedIn(rows, i, k)
    BY DEF NumberedAt, NumberedIn
  <1>7. QED
    BY <1>4, <1>5, <1>6 DEF WindowStats, ReportOK, EntryOK

-----------------------------------------------------------------------------
(* What the program keeps of the lines read so far.                        *)
KeysOf(l) == {l[n].key : n \in DOMAIN l}

ReadTypes(log, time, l, all) ==
    /\ log \in Seq(Rows) /\ time \in Nat
    /\ l \in Seq(EntrySet) /\ Len(l) <= KEYS
    /\ all \in Seq(SampleSet(Len(l)))

(* The keys of the list are the first of the log, in their order.          *)
FirstKeys(log, l) ==
    /\ KeysOf(l) \subseteq SeenIn(log)
    /\ \A m, n \in DOMAIN l : m < n => FirstIn(log, l[m].key) < FirstIn(log, l[n].key)
    /\ \A key \in SeenIn(log) \ KeysOf(l) :
          /\ Len(l) = KEYS
          /\ \A n \in DOMAIN l : FirstIn(log, l[n].key) < FirstIn(log, key)

(* Sample i is that of line pos[i], and each line with a key of the list   *)
(* has one.                                                                *)
SampleOf(log, l, s, p) ==
    /\ s.t = TimeIn(log, p) /\ l[s.key].key = log[p].key
    /\ \A k \in 1..PARAMS : NumberedIn(log, p, k) => s.params[k] = log[p].vals[k]

SamplesAt(log, l, all, pos) ==
    /\ pos \in [1..Len(all) -> 1..Len(log)]
    /\ \A i, j \in 1..Len(all) : i < j => pos[i] < pos[j]
    /\ \A p \in 1..Len(log) : log[p].key \in KeysOf(l) => \E i \in 1..Len(all) : pos[i] = p
    /\ \A i \in 1..Len(all) : SampleOf(log, l, all[i], pos[i])

ReadCore(log, time, l, all) ==
    /\ ReadTypes(log, time, l, all)
    /\ time = TimeIn(log, Len(log))
    /\ FirstKeys(log, l)
    /\ \E pos : SamplesAt(log, l, all, pos)

LEMMA FirstIs ==
    ASSUME NEW log \in Seq(Rows), NEW key \in SeenIn(log)
    PROVE  /\ FirstIn(log, key) \in 1..Len(log) /\ log[FirstIn(log, key)].key = key
           /\ \A i \in 1..Len(log) : log[i].key = key => FirstIn(log, key) <= i
  <1>1. PlacesIn(log, key) \subseteq Nat /\ PlacesIn(log, key) # {}
    BY DEF PlacesIn, SeenIn
  <1>2. /\ FirstIn(log, key) \in PlacesIn(log, key)
        /\ \A i \in PlacesIn(log, key) : FirstIn(log, key) <= i
    BY <1>1, LeastIsMin DEF FirstIn
  <1>3. QED
    BY <1>2 DEF PlacesIn

(* The keys that found room are those of the list.                         *)
LEMMA ListedIs ==
    ASSUME NEW log \in Seq(Rows), NEW l \in Seq(EntrySet), Len(l) <= KEYS, FirstKeys(log, l)
    PROVE  ListedIn(log) = KeysOf(l)
  <1> DEFINE L == Len(l)
             key(n) == l[n].key
  <1>0. L \in Nat /\ DOMAIN l = 1..L /\ KEYS \in Nat
    BY RowsAssumption
  <1>1. /\ \A n \in 1..L : key(n) \in SeenIn(log)
        /\ \A m, n \in 1..L : m < n => FirstIn(log, key(m)) < FirstIn(log, key(n))
        /\ \A k \in SeenIn(log) \ KeysOf(l) :
              L = KEYS /\ \A n \in 1..L : FirstIn(log, key(n)) < FirstIn(log, k)
    BY <1>0 DEF FirstKeys, KeysOf
  <1>2. KeysOf(l) = {key(n) : n \in 1..L}
    BY <1>0 DEF KeysOf
  <1> HIDE DEF key, L
  <1>3. \A k \in SeenIn(log) : FirstIn(log, k) \in Nat
    BY FirstIs
  <1>4. \A m, n \in 1..L : key(m) = key(n) => m = n
    <2> SUFFICES ASSUME NEW m \in 1..L, NEW n \in 1..L, key(m) = key(n), m # n PROVE FALSE
      OBVIOUS
    <2>1. m < n \/ n < m
      BY <1>0
    <2>2. FirstIn(log, key(m)) \in Nat /\ FirstIn(log, key(n)) \in Nat
      BY <1>1, <1>3
    <2>3. QED
      BY <1>1, <2>1, <2>2
  <1>5. ASSUME NEW n \in 0..L PROVE Cardinality({key(m) : m \in 1..n}) = n
                                   /\ IsFiniteSet({key(m) : m \in 1..n})
    <2> DEFINE T == {key(m) : m \in 1..n}
               f == [m \in 1..n |-> key(m)]
    <2>1. f \in Bijection(1..n, T)
      <3>1. f \in [1..n -> T]
        OBVIOUS
      <3>2. \A a, b \in 1..n : f[a] = f[b] => a = b
        BY <1>0, <1>4
      <3>3. \A t \in T : \E a \in 1..n : f[a] = t
        OBVIOUS
      <3> HIDE DEF f, T
      <3>4. QED
        BY <3>1, <3>2, <3>3 DEF Bijection, Injection, Surjection, IsInjective
    <2> HIDE DEF f, T
    <2>2. IsFiniteSet(1..n) /\ Cardinality(1..n) = n
      <3>1. n \in Int /\ 1 \in Int /\ n = IF 1 > n THEN 0 ELSE n - 1 + 1
        BY <1>0
      <3>2. QED
        BY <3>1, FS_Interval
    <2>3. IsFiniteSet(T) /\ Cardinality(T) = n
      <3>1. ExistsBijection(1..n, T)
        BY <2>1 DEF ExistsBijection
      <3>2. QED
        BY <2>2, <3>1, FS_Bijection
    <2>4. QED
      BY <2>3 DEF T
  <1>6. ASSUME NEW n \in 1..L PROVE key(n) \in ListedIn(log)
    <2> DEFINE B == Before(log, key(n))
               T == {key(m) : m \in 1..(n - 1)}
    <2>1. B \subseteq T
      <3> SUFFICES ASSUME NEW k \in SeenIn(log), FirstIn(log, k) < FirstIn(log, key(n))
                   PROVE  \E m \in 1..(n - 1) : k = key(m)
        BY DEF Before
      <3>1. FirstIn(log, key(n)) \in Nat /\ FirstIn(log, k) \in Nat
        BY <1>1, <1>3
      <3>2. k \in KeysOf(l)
        BY <1>1, <3>1
      <3>3. PICK m \in 1..L : k = key(m)
        BY <1>2, <3>2
      <3>4. ~(n < m) /\ m # n
        BY <1>1, <3>1, <3>3
      <3>5. m \in 1..(n - 1)
        BY <1>0, <3>4
      <3>6. QED
        BY <3>3, <3>5
    <2>2. Cardinality(T) = n - 1 /\ IsFiniteSet(T)
      <3>1. n - 1 \in 0..L
        BY <1>0
      <3>2. QED
        BY <1>5, <3>1
    <2> HIDE DEF B, T
    <2>3. Cardinality(B) <= n - 1 /\ Cardinality(B) \in Nat
      BY <2>1, <2>2, FS_Subset, FS_CardinalityType
    <2>4. Cardinality(B) < KEYS
      <3>1. L <= KEYS
        BY DEF L
      <3>2. QED
        BY <1>0, <2>3, <3>1
    <2>5. QED
      BY <1>1, <2>4 DEF ListedIn, B
  <1>7. ASSUME NEW k \in SeenIn(log) \ KeysOf(l) PROVE k \notin ListedIn(log)
    <2> DEFINE B == Before(log, k)
               T == {key(m) : m \in 1..L}
    <2>1. L = KEYS /\ T \subseteq B
      BY <1>1 DEF Before
    <2>2. Cardinality(T) = L
      <3>1. L \in 0..L
        BY <1>0
      <3>2. QED
        BY <1>5, <3>1
    <2>3. IsFiniteSet(B)
      <3> DEFINE N == Len(log)
      <3>0. N \in Nat /\ DOMAIN log = 1..N
        OBVIOUS
      <3>1. IsFiniteSet(1..N)
        BY <3>0, FS_Interval
      <3> HIDE DEF N
      <3> DEFINE U == {log[i].key : i \in 1..N}
      <3>2. IsFiniteSet(U)
        <4> DEFINE f == [i \in 1..N |-> log[i].key]
        <4>1. f \in [1..N -> U] /\ \A u \in U : \E i \in 1..N : f[i] = u
          OBVIOUS
        <4> HIDE DEF f, U
        <4>2. f \in Surjection(1..N, U)
          BY <4>1 DEF Surjection
        <4>3. QED
          BY <3>1, <4>2, FS_Surjection
      <3>3. B \subseteq U
        BY <3>0 DEF Before, SeenIn
      <3> HIDE DEF U, B
      <3>4. QED
        BY <3>2, <3>3, FS_Subset
    <2> HIDE DEF B, T
    <2>4. Cardinality(T) <= Cardinality(B) /\ Cardinality(B) \in Nat
      BY <2>1, <2>3, FS_Subset, FS_CardinalityType
    <2>5. ~(Cardinality(B) < KEYS)
      BY <1>0, <2>1, <2>2, <2>4
    <2>6. QED
      BY <2>5 DEF ListedIn, B
  <1>8. ListedIn(log) \subseteq SeenIn(log)
    BY DEF ListedIn
  <1>9. QED
    BY <1>2, <1>6, <1>7, <1>8

(* The window is the end of the samples.                                   *)
LEMMA WindowIs ==
    ASSUME NEW L, NEW all \in Seq(SampleSet(L)), NEW start \in Int
    PROVE  \E c \in 0..Len(all) :
              /\ Cardinality(WindowFrom(all, start)) = c
              /\ WindowFrom(all, start) = (Len(all) - c + 1)..Len(all)
  <1> DEFINE S == Len(all)
             W == WindowFrom(all, start)
             R == W \cup {S + 1}
  <1>1. S \in Nat /\ DOMAIN all = 1..S
    OBVIOUS
  <1>2. R \subseteq Nat /\ R # {} /\ \A i \in R : i \in 1..(S + 1)
    BY <1>1 DEF WindowFrom
  <1>3. PICK m \in R : \A i \in R : m <= i
    <2> HIDE DEF R
    <2> QED BY <1>2, LeastMember
  <1>4. \A i \in 1..S : i >= m => i \in W
    <2> SUFFICES ASSUME NEW i \in 1..S, i >= m PROVE i \in W
      OBVIOUS
    <2>1. m \in W
      BY <1>1, <1>2, <1>3
    <2>2. QED
      BY <1>1, <1>2, <2>1 DEF WindowFrom
  <1>5. W \subseteq 1..S /\ \A i \in W : m <= i
    BY <1>1, <1>3 DEF WindowFrom
  <1>6. m \in 1..(S + 1)
    BY <1>2, <1>3
  <1> HIDE DEF W, R
  <1>7. W = m..S
    <2> HIDE DEF S
    <2>1. m \in Int /\ S \in Int /\ 1 <= m
      BY <1>1, <1>6
    <2>2. ASSUME NEW i \in W PROVE i \in m..S
      <3>1. i \in 1..S /\ m <= i
        BY <1>5
      <3>2. QED
        BY <2>1, <3>1
    <2>3. ASSUME NEW i \in m..S PROVE i \in W
      <3>1. i \in 1..S /\ i >= m
        BY <2>1
      <3>2. QED
        BY <1>4, <3>1
    <2>4. QED
      BY <2>2, <2>3
  <1> DEFINE c == S - m + 1
  <1>8. c \in 0..S /\ m = S - c + 1
    BY <1>1, <1>6
  <1>9. Cardinality(m..S) = c
    <2>1. m \in Int /\ S \in Int /\ c = IF m > S THEN 0 ELSE S - m + 1
      BY <1>1, <1>6
    <2>2. QED
      BY <2>1, FS_Interval
  <1> HIDE DEF c
  <1>10. QED
    BY <1>7, <1>8, <1>9 DEF W

(* The samples of the window, the newest first.                            *)
Newest(all, c) == Reverse(SubSeq(all, Len(all) - c + 1, Len(all)))

LEMMA NewestIs ==
    ASSUME NEW L, NEW all \in Seq(SampleSet(L)), NEW c \in 0..Len(all)
    PROVE  /\ Newest(all, c) \in Seq(SampleSet(L)) /\ Len(Newest(all, c)) = c
           /\ \A i \in 1..c : /\ Newest(all, c)[i] = all[Len(all) + 1 - i]
                              /\ Len(all) + 1 - i \in 1..Len(all)
  <1> DEFINE S == Len(all)
             A == SampleSet(L)
             a == S - c + 1
             s == SubSeq(all, a, S)
  <1>1. S \in Nat /\ c \in Nat /\ c <= S /\ a \in 1..(S + 1)
    OBVIOUS
  <1>2. all \in Seq(A) /\ \A i \in a..S : all[i] \in A
    BY <1>1
  <1> HIDE DEF A
  <1>3. s \in Seq(A) /\ Len(s) = c /\ \A i \in 1..c : s[i] = all[a + i - 1]
    <2>1. s = [i \in 1..c |-> all[a + i - 1]]
      BY <1>1, <1>2
    <2>2. \A i \in 1..c : all[a + i - 1] \in A
      BY <1>1, <1>2
    <2> HIDE DEF s, a
    <2>3. QED
      BY <1>1, <2>1, <2>2
  <1> HIDE DEF s
  <1>4. Reverse(s) = [i \in 1..c |-> s[c - i + 1]]
    BY <1>3 DEF Reverse
  <1>5. \A i \in 1..c : /\ s[c - i + 1] = all[S + 1 - i]
                        /\ s[c - i + 1] \in A /\ S + 1 - i \in 1..S
    <2> TAKE i \in 1..c
    <2>1. c - i + 1 \in 1..c /\ a + (c - i + 1) - 1 = S + 1 - i /\ S + 1 - i \in a..S
          /\ S + 1 - i \in 1..S
      BY <1>1
    <2>2. QED
      BY <1>2, <1>3, <2>1
  <1> DEFINE r == Reverse(s)
  <1>6. r \in Seq(A) /\ Len(r) = c /\ \A i \in 1..c : r[i] = s[c - i + 1]
    BY <1>1, <1>4, <1>5
  <1>7. r = Newest(all, c)
    BY DEF Newest, s
  <1> HIDE DEF r
  <1>8. QED
    BY <1>5, <1>6, <1>7 DEF A

LEMMA ClearedIs ==
    ASSUME NEW L, NEW keys \in Lists(L)
    PROVE  /\ ClearStats(keys) \in Lists(L)
           /\ \A n \in 1..L : /\ ClearStats(keys)[n].key = keys[n].key
                              /\ ClearStats(keys)[n].sCount = 0
                              /\ \A k \in 1..PARAMS : /\ ClearStats(keys)[n].average[k] = 0
                                                      /\ ClearStats(keys)[n].stdev[k] = 0
  <1> DEFINE c(e) == [e EXCEPT !.sCount = 0, !.average = Zero, !.stdev = Zero]
  <1>1. Zero \in Values /\ \A k \in 1..PARAMS : Zero[k] = 0
    BY DEF Zero, Values
  <1>2. ASSUME NEW e \in EntrySet
        PROVE  /\ c(e) \in EntrySet /\ c(e).key = e.key /\ c(e).sCount = 0
               /\ c(e).average = Zero /\ c(e).stdev = Zero
    <2>1. c(e) = [key |-> e.key, nParams |-> e.nParams, sCount |-> 0, average |-> Zero,
                  stdev |-> Zero]
      <3> DEFINE r1 == [e EXCEPT !.sCount = 0]
                 r2 == [r1 EXCEPT !.average = Zero]
                 r3 == [r2 EXCEPT !.stdev = Zero]
      <3>1. c(e) = r3
        OBVIOUS
      <3> HIDE DEF c
      <3>2. r1 = [key |-> e.key, nParams |-> e.nParams, sCount |-> 0, average |-> e.average,
                  stdev |-> e.stdev]
        BY DEF EntrySet
      <3> HIDE DEF r1
      <3>3. r2 = [key |-> e.key, nParams |-> e.nParams, sCount |-> 0, average |-> Zero,
                  stdev |-> e.stdev]
        BY <3>2
      <3> HIDE DEF r2
      <3>4. r3 = [key |-> e.key, nParams |-> e.nParams, sCount |-> 0, average |-> Zero,
                  stdev |-> Zero]
        BY <3>3
      <3> HIDE DEF r3
      <3>5. QED
        BY <3>1, <3>4
    <2>2. e.key \in RowKeys /\ e.nParams \in Nat
      BY DEF EntrySet
    <2> DEFINE f == c(e)
    <2> HIDE DEF f
    <2>3. f \in EntrySet
      BY <1>1, <2>1, <2>2 DEF EntrySet, f
    <2>4. f.key = e.key /\ f.sCount = 0 /\ f.average = Zero /\ f.stdev = Zero
      BY <2>1 DEF f
    <2>5. QED
      BY <2>3, <2>4 DEF f
  <1>3. keys \in [1..L -> EntrySet]
    BY DEF Lists
  <1>4. ClearStats(keys) = [n \in 1..L |-> c(keys[n])]
    BY <1>3 DEF ClearStats
  <1> HIDE DEF c
  <1>5. \A n \in 1..L : c(keys[n]) \in EntrySet
    BY <1>2, <1>3
  <1>6. ClearStats(keys) \in [1..L -> EntrySet]
    BY <1>4, <1>5
  <1>7. \A n \in 1..L : ClearStats(keys)[n] = c(keys[n])
    BY <1>4
  <1>8. ASSUME NEW n \in 1..L
        PROVE  /\ ClearStats(keys)[n].key = keys[n].key
               /\ ClearStats(keys)[n].sCount = 0
               /\ \A k \in 1..PARAMS : /\ ClearStats(keys)[n].average[k] = 0
                                       /\ ClearStats(keys)[n].stdev[k] = 0
    <2> DEFINE e == keys[n]
    <2>1. e \in EntrySet /\ ClearStats(keys)[n] = c(e)
      BY <1>3, <1>7
    <2> HIDE DEF e
    <2>2. QED
      BY <1>1, <1>2, <2>1 DEF e
  <1>9. QED
    BY <1>6, <1>8 DEF Lists

(* No key is twice in the list.                                            *)
LEMMA KeysDiffer ==
    ASSUME NEW log \in Seq(Rows), NEW l \in Seq(EntrySet), FirstKeys(log, l)
    PROVE  \A m, n \in 1..Len(l) : l[m].key = l[n].key => m = n
  <1> DEFINE L == Len(l)
             key(n) == l[n].key
  <1>1. L \in Nat /\ DOMAIN l = 1..L
    OBVIOUS
  <1>2. /\ \A n \in 1..L : key(n) \in SeenIn(log)
        /\ \A m, n \in 1..L : m < n => FirstIn(log, key(m)) < FirstIn(log, key(n))
    BY <1>1 DEF FirstKeys, KeysOf
  <1>3. \A k \in SeenIn(log) : FirstIn(log, k) \in Nat
    BY FirstIs
  <1> SUFFICES ASSUME NEW m \in 1..L, NEW n \in 1..L, key(m) = key(n), m # n PROVE FALSE
    OBVIOUS
  <1> HIDE DEF key, L
  <1>4. m < n \/ n < m
    BY <1>1
  <1>5. FirstIn(log, key(m)) \in Nat /\ FirstIn(log, key(n)) \in Nat
    BY <1>2, <1>3
  <1>6. QED
    BY <1>2, <1>4, <1>5

(* The line of each sample of the window.                                  *)
RowAt(pos, S, c) == [i \in 1..c |-> pos[S + 1 - i]]

LEMMA NewestPlaced ==
    ASSUME NEW log \in Seq(Rows), NEW l, NEW L, NEW all \in Seq(SampleSet(L)),
           NEW pos, SamplesAt(log, l, all, pos), NEW c \in 0..Len(all)
    PROVE  Placed(Newest(all, c), RowAt(pos, Len(all), c), L)
  <1> DEFINE S == Len(all)
             N == Len(log)
             s == Newest(all, c)
             at == RowAt(pos, S, c)
  <1>1. S \in Nat /\ N \in Nat /\ c \in Nat /\ c <= S
    OBVIOUS
  <1>2. pos \in [1..S -> 1..N] /\ \A i, j \in 1..S : i < j => pos[i] < pos[j]
    BY DEF SamplesAt
  <1>3. s \in Seq(SampleSet(L)) /\ Len(s) = c /\ \A i \in 1..c : S + 1 - i \in 1..S
    BY NewestIs
  <1> HIDE DEF S, N, s
  <1>4. at \in [1..c -> 1..N] /\ \A i \in 1..c : at[i] = pos[S + 1 - i]
    BY <1>2, <1>3 DEF RowAt
  <1>5. ASSUME NEW i \in 1..c, NEW j \in 1..c, at[i] = at[j] PROVE i = j
    <2> DEFINE a == S + 1 - i
               b == S + 1 - j
    <2>1. a \in 1..S /\ b \in 1..S /\ pos[a] = pos[b]
      BY <1>3, <1>4, <1>5
    <2>2. pos[a] \in Nat /\ pos[b] \in Nat
      BY <1>2, <2>1
    <2>3. ~(a < b) /\ ~(b < a)
      <3> HIDE DEF a, b
      <3> QED BY <1>2, <2>1, <2>2
    <2>4. QED
      BY <1>1, <2>3
  <1> HIDE DEF at
  <1>6. Placed(s, at, L)
    <2>1. at \in [1..Len(s) -> 1..N] /\ \A i, j \in 1..Len(s) : at[i] = at[j] => i = j
      BY <1>3, <1>4, <1>5
    <2>2. QED
      BY <1>1, <1>3, <2>1 DEF Placed
  <1>7. QED
    BY <1>6 DEF at, s, S

(* The samples of the window with a key are the young lines of that key.   *)
LEMMA YoungRows ==
    ASSUME NEW log, NEW time, NEW l, NEW all, ReadTypes(log, time, l, all),
           time = TimeIn(log, Len(log)), FirstKeys(log, l),
           NEW pos, SamplesAt(log, l, all, pos), NEW c \in 0..Len(all),
           WindowFrom(all, time - nsamples) = (Len(all) - c + 1)..Len(all),
           NEW n \in 1..Len(l)
    PROVE  RowsOf(Newest(all, c), RowAt(pos, Len(all), c), n, c) = YoungIn(log, l[n].key)
  <1> DEFINE S == Len(all)
             N == Len(log)
             L == Len(l)
             s == Newest(all, c)
             at == RowAt(pos, S, c)
             start == time - nsamples
             W == WindowFrom(all, start)
  <1>0. /\ log \in Seq(Rows) /\ l \in Seq(EntrySet) /\ Len(l) <= KEYS /\ time \in Nat
        /\ all \in Seq(SampleSet(L))
    BY DEF ReadTypes
  <1>1. /\ S \in Nat /\ N \in Nat /\ L \in Nat /\ c \in Nat /\ c <= S
        /\ DOMAIN log = 1..N /\ DOMAIN all = 1..S /\ DOMAIN l = 1..L
    BY <1>0
  <1>2. ListedIn(log) = KeysOf(l)
    BY <1>0, ListedIs
  <1>3. \A a, b \in 1..L : l[a].key = l[b].key => a = b
    BY <1>0, KeysDiffer
  <1>4. /\ pos \in [1..S -> 1..N]
        /\ \A i, j \in 1..S : i < j => pos[i] < pos[j]
        /\ \A p \in 1..N : log[p].key \in KeysOf(l) => \E i \in 1..S : pos[i] = p
        /\ \A i \in 1..S : /\ all[i].t = TimeIn(log, pos[i])
                           /\ l[all[i].key].key = log[pos[i]].key
    BY DEF SamplesAt, SampleOf
  <1>5. \A i \in 1..S : all[i].key \in 1..L
    <2> TAKE i \in 1..S
    <2>1. all[i] \in SampleSet(L)
      BY <1>0, <1>1
    <2>2. QED
      BY <2>1 DEF SampleSet
  <1>6. /\ \A i \in 1..c : s[i] = all[S + 1 - i] /\ S + 1 - i \in 1..S
        /\ \A i \in 1..c : at[i] = pos[S + 1 - i]
    <2>1. \A i \in 1..c : s[i] = all[S + 1 - i] /\ S + 1 - i \in 1..S
      BY <1>0, NewestIs
    <2>2. \A i \in 1..c : at[i] = pos[S + 1 - i]
      BY DEF RowAt
    <2>3. QED
      BY <2>1, <2>2
  <1>7. \A i \in 1..S : i \in W <=> \A j \in i..S : all[j].t > start
    BY <1>1 DEF WindowFrom
  <1>8. \A p : p \in YoungIn(log, l[n].key) <=>
                  /\ p \in 1..N /\ log[p].key = l[n].key
                  /\ \A q \in p..N : log[q].key \in KeysOf(l) => TimeIn(log, q) > start
    BY <1>1, <1>2 DEF YoungIn
  <1>9. \A p : p \in RowsOf(s, at, n, c) <=> \E i \in 1..c : s[i].key = n /\ p = at[i]
    BY DEF RowsOf, SamplesOf
  <1>10. W = (S - c + 1)..S
    OBVIOUS
  <1>11. \A i \in 1..S : l[all[i].key].key \in KeysOf(l)
    BY <1>1, <1>5 DEF KeysOf
  <1>12. l[n].key \in KeysOf(l)
    BY <1>1 DEF KeysOf
  <1> HIDE DEF S, N, L, s, at, start, W
  <1>13. n \in 1..L
    BY DEF L
  <1>14. ASSUME NEW p \in RowsOf(s, at, n, c) PROVE p \in YoungIn(log, l[n].key)
    <2>1. PICK i \in 1..c : s[i].key = n /\ p = at[i]
      BY <1>9
    <2> DEFINE j == S + 1 - i
    <2>2. j \in 1..S /\ all[j].key = n /\ p = pos[j]
      BY <1>6, <2>1
    <2>3. j \in W
      BY <1>1, <1>10, <2>1
    <2> HIDE DEF j
    <2>4. p \in 1..N /\ log[p].key = l[n].key
      BY <1>4, <2>2
    <2>5. ASSUME NEW q \in p..N, log[q].key \in KeysOf(l) PROVE TimeIn(log, q) > start
      <3>1. q \in 1..N /\ p <= q
        BY <1>1, <2>4
      <3>2. PICK h \in 1..S : pos[h] = q
        BY <1>4, <2>5, <3>1
      <3>3. ~(h < j)
        BY <1>4, <2>2, <2>4, <3>1, <3>2
      <3>4. h \in j..S
        BY <1>1, <2>2, <3>3
      <3>5. all[h].t > start
        BY <1>7, <2>2, <2>3, <3>4
      <3>6. QED
        BY <1>4, <3>2, <3>5
    <2>6. QED
      BY <1>8, <2>4, <2>5
  <1>15. ASSUME NEW p \in YoungIn(log, l[n].key) PROVE p \in RowsOf(s, at, n, c)
    <2>1. /\ p \in 1..N /\ log[p].key = l[n].key
          /\ \A q \in p..N : log[q].key \in KeysOf(l) => TimeIn(log, q) > start
      BY <1>8
    <2>2. PICK j \in 1..S : pos[j] = p
      BY <1>4, <1>12, <2>1
    <2>3. j \in W
      <3> SUFFICES ASSUME NEW h \in j..S PROVE all[h].t > start
        BY <1>7
      <3>1. h \in 1..S /\ (h = j \/ j < h)
        BY <1>1
      <3>2. pos[h] \in 1..N /\ pos[j] <= pos[h]
        <4>1. pos[h] \in 1..N /\ pos[j] \in 1..N
          BY <1>4, <3>1
        <4>2. h = j \/ pos[j] < pos[h]
          BY <1>4, <3>1
        <4>3. QED
          BY <1>1, <4>1, <4>2
      <3>3. pos[h] \in p..N
        BY <1>1, <2>1, <2>2, <3>2
      <3>4. log[pos[h]].key \in KeysOf(l)
        BY <1>4, <1>11, <3>1
      <3> DEFINE q == pos[h]
      <3>5. all[h].t = TimeIn(log, q)
        BY <1>4, <3>1
      <3> HIDE DEF q
      <3>6. TimeIn(log, q) > start
        BY <2>1, <3>3, <3>4 DEF q
      <3>7. QED
        BY <3>5, <3>6
    <2>4. all[j].key = n
      <3>1. all[j].key \in 1..L
        BY <1>5
      <3>2. l[all[j].key].key = l[n].key
        BY <1>4, <2>1, <2>2
      <3>3. QED
        BY <1>3, <1>13, <3>1, <3>2
    <2> DEFINE i == S + 1 - j
    <2>5. i \in 1..c /\ S + 1 - i = j
      BY <1>1, <1>10, <2>3
    <2> HIDE DEF i
    <2>6. s[i].key = n /\ p = at[i]
      BY <1>6, <2>2, <2>4, <2>5
    <2>7. QED
      BY <1>9, <2>5, <2>6
  <1>16. QED
    BY <1>14, <1>15 DEF s, at, S

(* What a report says is right.                                            *)
LEMMA ReportIs ==
    ASSUME NEW log, NEW time, NEW l, NEW all, ReadCore(log, time, l, all)
    PROVE  LET r == ReportOf(l, all, time - nsamples)
           IN  /\ r \in Seq(EntrySet) /\ Len(r) = Len(l)
               /\ \A n \in 1..Len(l) : r[n].key = l[n].key
               /\ ReportOK(r, log)
  <1> DEFINE S == Len(all)
             N == Len(log)
             L == Len(l)
             start == time - nsamples
             r == ReportOf(l, all, start)
  <1>1. /\ ReadTypes(log, time, l, all) /\ time = TimeIn(log, N) /\ FirstKeys(log, l)
        /\ log \in Seq(Rows) /\ l \in Seq(EntrySet) /\ L <= KEYS /\ time \in Nat
        /\ all \in Seq(SampleSet(L))
    BY DEF ReadCore, ReadTypes
  <1>2. PICK pos : SamplesAt(log, l, all, pos)
    BY DEF ReadCore
  <1>3. start \in Int /\ L \in Nat /\ l \in Lists(L)
    <2>1. start \in Int
      BY <1>1, RowsAssumption
    <2>2. L \in Nat /\ l \in Lists(L)
      BY <1>1 DEF Lists
    <2>3. QED
      BY <2>1, <2>2
  <1>4. PICK c \in 0..S : /\ Cardinality(WindowFrom(all, start)) = c
                          /\ WindowFrom(all, start) = (S - c + 1)..S
    BY <1>1, <1>3, WindowIs
  <1> DEFINE s == Newest(all, c)
             at == RowAt(pos, S, c)
             cleared == ClearStats(l)
             a == Averaged(cleared, s)
             d == Deviated(a, s)
  <1>5. r = d
    BY <1>4 DEF ReportOf, Newest
  <1>6. Placed(s, at, L) /\ Len(s) = c
    BY <1>1, <1>2, NewestPlaced, NewestIs
  <1>7. \A n \in 1..L : RowsOf(s, at, n, c) = YoungIn(log, l[n].key)
    BY <1>1, <1>2, <1>4, YoungRows
  <1>8. /\ cleared \in Lists(L)
        /\ \A n \in 1..L : /\ cleared[n].key = l[n].key /\ cleared[n].sCount = 0
                            /\ \A k \in 1..PARAMS : /\ cleared[n].average[k] = 0
                                                    /\ cleared[n].stdev[k] = 0
    BY <1>3, ClearedIs
  <1>9. /\ \A i \in 1..c : s[i] = all[S + 1 - i] /\ S + 1 - i \in 1..S
        /\ \A i \in 1..c : at[i] = pos[S + 1 - i]
    <2>1. \A i \in 1..c : s[i] = all[S + 1 - i] /\ S + 1 - i \in 1..S
      BY <1>1, NewestIs
    <2>2. \A i \in 1..c : at[i] = pos[S + 1 - i]
      BY DEF RowAt
    <2>3. QED
      BY <2>1, <2>2
  <1>10. \A i \in 1..c : /\ at[i] \in 1..N
                         /\ \A k \in 1..PARAMS : NumberedIn(log, at[i], k) =>
                                                     s[i].params[k] = log[at[i]].vals[k]
    <2>1. pos \in [1..S -> 1..N] /\ \A i \in 1..S : SampleOf(log, l, all[i], pos[i])
      BY <1>2 DEF SamplesAt
    <2> TAKE i \in 1..c
    <2> DEFINE j == S + 1 - i
    <2>2. j \in 1..S /\ s[i] = all[j] /\ at[i] = pos[j]
      BY <1>9
    <2> HIDE DEF j, s, at
    <2>3. QED
      BY <2>1, <2>2 DEF SampleOf
  <1>11. \A p \in 1..N : log[p].vals \in Seq(Int)
    <2> TAKE p \in 1..N
    <2>1. log[p] \in Rows
      BY <1>1
    <2>2. QED
      BY <2>1, RowsAssumption
  <1> HIDE DEF r, s, at, cleared, S, N, L, start
  <1>12. /\ a \in Lists(L) /\ d \in Lists(L)
         /\ \A n \in 1..L : d[n].key = l[n].key /\ EntryOK(d[n], log)
    <2>1. ASSUME NEW n \in 1..L
          PROVE  a \in Lists(L) /\ d \in Lists(L) /\ d[n].key = l[n].key /\ EntryOK(d[n], log)
      <3> DEFINE R == RowsOf(s, at, n, c)
                 C == Cardinality(R)
                 e == d[n]
      <3>1. /\ a \in Lists(L)
            /\ a[n].key = l[n].key /\ a[n].stdev = cleared[n].stdev /\ a[n].sCount = C
        BY <1>6, <1>8, FirstPass DEF Counts
      <3>2. \A v : \A k \in 1..PARAMS : Valued(v, s, at, n, k) =>
                                         a[n].average[k] = SumFunctionOnSet(v, R)
        BY <1>6, <1>8, FirstPass
      <3>3. d \in Lists(L) /\ Keeps(e, a[n])
        BY <1>6, <3>1, SecondPass
      <3>4. \A v, w : \A k \in 1..PARAMS :
               a[n].stdev[k] = 0 /\ Valued(v, s, at, n, k) /\ w = [i \in R |-> Square(v[i])]
               => e.stdev[k] = Deviation(a[n].sCount, a[n].average[k], SumFunctionOnSet(w, R),
                                         SumFunctionOnSet(v, R), C)
        BY <1>6, <3>1, SecondPass
      <3> HIDE DEF a, d, R, C, e
      <3>5. e.key = l[n].key /\ e.sCount = C /\ e.average = a[n].average
        BY <3>1, <3>3 DEF Keeps
      <3>6. YoungIn(log, e.key) = R
        BY <1>7, <3>5 DEF R
      <3>7. ASSUME NEW k \in 1..PARAMS, \A i \in R : NumberedIn(log, i, k)
            PROVE  LET T == SumFunction([i \in R |-> log[i].vals[k]])
                       Q == SumFunction([i \in R |-> Square(log[i].vals[k])])
                   IN  e.average[k] = T /\ e.stdev[k] = C * (C * Q - T * T)
        <4> DEFINE v == [i \in R |-> log[i].vals[k]]
                   w == [i \in R |-> Square(log[i].vals[k])]
                   T == SumFunctionOnSet(v, R)
                   Q == SumFunctionOnSet(w, R)
        <4>1. R \subseteq 1..N /\ \A i \in 1..c : s[i].key = n => at[i] \in R
          BY <1>6, <1>10 DEF R, RowsOf, SamplesOf
        <4>2. \A i \in R : v[i] \in Int
          <5> TAKE i \in R
          <5>1. log[i].vals \in Seq(Int) /\ k \in 1..Len(log[i].vals)
            BY <1>11, <3>7, <4>1 DEF NumberedIn
          <5>2. QED
            BY <5>1
        <4>3. v \in [R -> Int]
          BY <4>2
        <4>4. w = [i \in R |-> Square(v[i])]
          OBVIOUS
        <4>5. \A i \in 1..Len(s) : s[i].key = n => v[at[i]] = s[i].params[k]
          BY <1>6, <1>10, <3>7, <4>1
        <4> HIDE DEF v, w
        <4>6. Valued(v, s, at, n, k)
          BY <1>6, <4>3, <4>5 DEF Valued, R
        <4>7. a[n].average[k] = T
          BY <3>2, <4>6
        <4>8. a[n].stdev[k] = 0
          BY <1>8, <3>1
        <4>9. e.stdev[k] = Deviation(C, T, Q, T, C)
          BY <3>1, <3>4, <4>4, <4>6, <4>7, <4>8
        <4>10. T \in Int /\ Q \in Int /\ C \in Int
          <5>1. Summable(v, R)
            BY <1>6, <4>6, ValuedSummable DEF R
          <5>2. Summable(w, R)
            <6>1. PICK M \in Nat : R \in SUBSET (1..M)
              BY <5>1 DEF Summable
            <6>2. \A i \in R : Square(v[i]) \in Int
              BY <4>3 DEF Square
            <6>3. w \in [R -> Int]
              BY <4>4, <6>2
            <6>4. QED
              BY <6>1, <6>3 DEF Summable
          <5>3. R \in SUBSET R
            OBVIOUS
          <5>4. T \in Int /\ Q \in Int
            BY <5>1, <5>2, <5>3, SumMore
          <5>5. IsFiniteSet(R)
            <6>1. N \in Nat
              BY <1>1 DEF N
            <6>2. IsFiniteSet(1..N)
              BY <6>1, FS_Interval
            <6>3. QED
              BY <4>1, <6>2, FS_Subset
          <5>6. C \in Nat
            BY <5>5, FS_CardinalityType DEF C
          <5>7. QED
            BY <5>4, <5>6
        <4>11. SumFunction(v) = T /\ SumFunction(w) = Q
          BY DEF SumFunction, v, w
        <4> HIDE DEF T, Q
        <4>12. e.stdev[k] = C * (C * Q - T * T)
          BY <4>9, <4>10, DeviationIs
        <4>13. e.average[k] = T
          BY <3>5, <4>7
        <4>14. QED
          BY <4>11, <4>12, <4>13 DEF v, w
      <3>8. EntryOK(e, log)
        BY <3>5, <3>6, <3>7 DEF EntryOK, C
      <3>9. QED
        BY <3>1, <3>3, <3>5, <3>8 DEF e
    <2>2. a \in Lists(L) /\ d \in Lists(L)
      <3>1. cleared \in Lists(L)
        BY <1>8
      <3>2. s \in Seq(SampleSet(L))
        BY <1>6 DEF Placed
      <3> HIDE DEF a
      <3>3. a \in Lists(L)
        <4>1. \E g \in [0..Len(s) -> Lists(L)] : g[Len(s)] = Averaged(cleared, s)
          BY <3>1, <3>2, AveragedRuns
        <4>2. Len(s) \in 0..Len(s)
          BY <3>2
        <4>3. QED
          BY <4>1, <4>2 DEF a
      <3>4. d \in Lists(L)
        <4>1. \E g \in [0..Len(s) -> Lists(L)] : g[Len(s)] = Deviated(a, s)
          BY <3>2, <3>3, DeviatedRuns
        <4>2. Len(s) \in 0..Len(s)
          BY <3>2
        <4>3. QED
          BY <4>1, <4>2
      <3>5. QED
        BY <3>3, <3>4
    <2>3. QED
      BY <2>1, <2>2
  <1> HIDE DEF a, d
  <1>13. d \in Seq(EntrySet) /\ Len(d) = L /\ DOMAIN d = 1..L
    BY <1>3, <1>12 DEF Lists
  <1>14. {e.key : e \in ToSet(d)} = ListedIn(log)
    <2>1. ListedIn(log) = KeysOf(l)
      BY <1>1, ListedIs DEF L
    <2>2. ToSet(d) = {d[n] : n \in 1..L}
      BY <1>13 DEF ToSet
    <2>3. KeysOf(l) = {l[n].key : n \in 1..L}
      BY <1>3 DEF KeysOf, Lists
    <2>4. \A n \in 1..L : d[n].key = l[n].key
      BY <1>12
    <2>5. {e.key : e \in ToSet(d)} = {l[n].key : n \in 1..L}
      BY <2>2, <2>4
    <2>6. QED
      BY <2>1, <2>3, <2>5
  <1>15. \A e \in ToSet(d) : EntryOK(e, log)
    BY <1>12, <1>13 DEF ToSet
  <1>16. ReportOK(d, log)
    BY <1>14, <1>15 DEF ReportOK
  <1>17. QED
    BY <1>5, <1>12, <1>13, <1>16 DEF r, L, start

-----------------------------------------------------------------------------
(* One line more.                                                          *)
TimeAfter(time, row) == IF row.time = BadTime THEN time ELSE row.time

LEMMA LogMore ==
    ASSUME NEW log \in Seq(Rows), NEW row \in Rows
    PROVE  /\ Append(log, row) \in Seq(Rows) /\ Len(Append(log, row)) = Len(log) + 1
           /\ Len(log) \in Nat
           /\ Append(log, row)[Len(log) + 1] = row
           /\ \A i \in 1..Len(log) : Append(log, row)[i] = log[i]
           /\ \A i : i \in 1..(Len(log) + 1) <=> (i \in 1..Len(log) \/ i = Len(log) + 1)
  OBVIOUS

LEMMA TimeMore ==
    ASSUME NEW log \in Seq(Rows), NEW row \in Rows
    PROVE  /\ \A i \in 1..Len(log) : TimeIn(Append(log, row), i) = TimeIn(log, i)
           /\ TimeIn(Append(log, row), Len(log) + 1) = TimeAfter(TimeIn(log, Len(log)), row)
           /\ TimeIn(log, Len(log)) \in Nat => TimeAfter(TimeIn(log, Len(log)), row) \in Nat
  <1> DEFINE N == Len(log)
             more == Append(log, row)
  <1>1. /\ N \in Nat /\ more[N + 1] = row
        /\ \A i \in 1..N : more[i] = log[i]
        /\ \A i : i \in 1..(N + 1) <=> (i \in 1..N \/ i = N + 1)
    BY LogMore
  <1> HIDE DEF N, more
  <1>2. ASSUME NEW i \in 0..N
        PROVE  /\ Marked(log, i) \subseteq 1..N /\ Marked(more, i) = Marked(log, i)
               /\ Marked(log, i) # {} => Max(Marked(log, i)) \in Marked(log, i)
    <2>1. i \in Nat /\ \A j \in 1..i : j \in 1..N
      BY <1>1
    <2>2. Marked(log, i) \subseteq 1..N /\ Marked(more, i) = Marked(log, i)
      BY <1>1, <2>1 DEF Marked
    <2> DEFINE T == Marked(log, i)
    <2> HIDE DEF T
    <2>3. T # {} => Max(T) \in T
      <3>1. T \in SUBSET (1..N)
        BY <2>2 DEF T
      <3>2. QED
        BY <1>1, <3>1, FiniteHasMax
    <2>4. QED
      BY <2>2, <2>3 DEF T
  <1>3. ASSUME NEW i \in 0..N PROVE TimeIn(more, i) = TimeIn(log, i)
    BY <1>1, <1>2 DEF TimeIn
  <1>4. N \in 0..N /\ \A i \in 1..N : i \in 0..N
    BY <1>1
  <1>5. CASE row.time = BadTime
    <2>1. Marked(more, N + 1) = Marked(more, N)
      BY <1>1, <1>5 DEF Marked
    <2>2. TimeIn(more, N + 1) = TimeIn(more, N)
      BY <2>1 DEF TimeIn
    <2>3. QED
      BY <1>3, <1>4, <1>5, <2>2 DEF TimeAfter, N, more
  <1>6. CASE row.time # BadTime
    <2> DEFINE T == Marked(more, N + 1)
    <2>1. T \subseteq 1..(N + 1) /\ N + 1 \in T
      BY <1>1, <1>6 DEF Marked
    <2> HIDE DEF T
    <2>2. Max(T) = N + 1
      <3>1. T \in SUBSET Nat /\ \A j \in T : j <= N + 1
        BY <1>1, <2>1
      <3>2. QED
        BY <2>1, <3>1, GreatestIsMax
    <2>3. TimeIn(more, N + 1) = row.time
      BY <1>1, <2>1, <2>2 DEF TimeIn, T
    <2>4. row.time \in Nat
      BY <1>6, RowsAssumption
    <2>5. QED
      BY <1>3, <1>4, <1>6, <2>3, <2>4 DEF TimeAfter, N, more
  <1>7. QED
    BY <1>5, <1>6

LEMMA FirstMore ==
    ASSUME NEW log \in Seq(Rows), NEW row \in Rows
    PROVE  /\ SeenIn(Append(log, row)) = SeenIn(log) \cup ({row.key} \ {NoKey})
           /\ \A key \in SeenIn(log) : FirstIn(Append(log, row), key) = FirstIn(log, key)
           /\ row.key \notin SeenIn(log) \cup {NoKey} =>
                 FirstIn(Append(log, row), row.key) = Len(log) + 1
           /\ \A key \in SeenIn(log) : FirstIn(log, key) \in 1..Len(log)
  <1> DEFINE N == Len(log)
             more == Append(log, row)
  <1>1. /\ N \in Nat /\ more[N + 1] = row
        /\ \A i \in 1..N : more[i] = log[i]
        /\ \A i : i \in 1..(N + 1) <=> (i \in 1..N \/ i = N + 1)
        /\ DOMAIN log = 1..N /\ DOMAIN more = 1..(N + 1) /\ more \in Seq(Rows)
    BY LogMore
  <1> HIDE DEF N, more
  <1>2. SeenIn(more) = SeenIn(log) \cup ({row.key} \ {NoKey})
    BY <1>1 DEF SeenIn
  <1>3. \A key \in SeenIn(log) : /\ FirstIn(log, key) \in 1..N
                                 /\ log[FirstIn(log, key)].key = key
                                 /\ \A i \in 1..N : log[i].key = key => FirstIn(log, key) <= i
    BY FirstIs DEF N
  <1>4. ASSUME NEW key \in SeenIn(more)
        PROVE  /\ FirstIn(more, key) \in 1..(N + 1)
               /\ more[FirstIn(more, key)].key = key
               /\ \A i \in 1..(N + 1) : more[i].key = key => FirstIn(more, key) <= i
    <2>1. Len(more) = N + 1
      BY LogMore DEF more, N
    <2>2. QED
      BY <1>1, <2>1, FirstIs
  <1>5. ASSUME NEW key \in SeenIn(log) PROVE FirstIn(more, key) = FirstIn(log, key)
    <2> DEFINE a == FirstIn(more, key)
               b == FirstIn(log, key)
    <2>1. /\ a \in 1..(N + 1) /\ more[a].key = key
          /\ \A i \in 1..(N + 1) : more[i].key = key => a <= i
      BY <1>2, <1>4
    <2>2. /\ b \in 1..N /\ log[b].key = key
          /\ \A i \in 1..N : log[i].key = key => b <= i
      BY <1>3
    <2> HIDE DEF a, b
    <2>3. a <= b
      BY <1>1, <2>1, <2>2
    <2>4. a \in 1..N
      BY <1>1, <2>1, <2>2, <2>3
    <2>5. b <= a
      BY <1>1, <2>1, <2>2, <2>4
    <2>6. a = b
      BY <1>1, <2>1, <2>2, <2>3, <2>5
    <2>7. QED
      BY <2>6 DEF a, b
  <1>6. ASSUME row.key \notin SeenIn(log) \cup {NoKey} PROVE FirstIn(more, row.key) = N + 1
    <2>1. row.key \in SeenIn(more)
      BY <1>2, <1>6
    <2>2. FirstIn(more, row.key) \notin 1..N
      <3>1. \A i \in 1..N : more[i].key # row.key
        BY <1>1, <1>6 DEF SeenIn
      <3>2. QED
        BY <1>4, <2>1, <3>1
    <2>3. QED
      BY <1>1, <1>4, <2>1, <2>2
  <1>7. QED
    BY <1>2, <1>3, <1>5, <1>6 DEF N, more

(* The list stays when the key of the line is in it or finds no room.      *)
LEMMA FirstKeysSame ==
    ASSUME NEW log \in Seq(Rows), NEW row \in Rows, NEW l \in Seq(EntrySet), FirstKeys(log, l),
           row.key \in KeysOf(l) \cup {NoKey} \/ Len(l) = KEYS
    PROVE  FirstKeys(Append(log, row), l)
  <1> DEFINE N == Len(log)
             L == Len(l)
             more == Append(log, row)
             key(n) == l[n].key
  <1>1. /\ SeenIn(more) = SeenIn(log) \cup ({row.key} \ {NoKey})
        /\ \A k \in SeenIn(log) : FirstIn(more, k) = FirstIn(log, k)
        /\ row.key \notin SeenIn(log) \cup {NoKey} => FirstIn(more, row.key) = N + 1
        /\ \A k \in SeenIn(log) : FirstIn(log, k) \in 1..N
    BY FirstMore
  <1>2. /\ N \in Nat /\ DOMAIN l = 1..L /\ KeysOf(l) \subseteq SeenIn(log)
        /\ \A n \in 1..L : key(n) \in KeysOf(l)
        /\ \A m, n \in 1..L : m < n => FirstIn(log, key(m)) < FirstIn(log, key(n))
        /\ \A k \in SeenIn(log) \ KeysOf(l) :
              L = KEYS /\ \A n \in 1..L : FirstIn(log, key(n)) < FirstIn(log, k)
    BY DEF FirstKeys, KeysOf
  <1> HIDE DEF N, more, key
  <1>3. KeysOf(l) \subseteq SeenIn(more)
    BY <1>1, <1>2
  <1>4. \A n \in 1..L : FirstIn(more, key(n)) = FirstIn(log, key(n))
    BY <1>1, <1>2
  <1>5. ASSUME NEW k \in SeenIn(more) \ KeysOf(l)
        PROVE  L = KEYS /\ \A n \in 1..L : FirstIn(more, key(n)) < FirstIn(more, k)
    <2>1. CASE k \in SeenIn(log)
      BY <1>1, <1>2, <1>4, <2>1
    <2>2. CASE k \notin SeenIn(log)
      <3>1. k = row.key /\ row.key \notin SeenIn(log) \cup {NoKey}
        BY <1>1, <2>2
      <3>2. L = KEYS /\ FirstIn(more, k) = N + 1
        BY <1>1, <1>5, <3>1
      <3>3. \A n \in 1..L : FirstIn(more, key(n)) \in 1..N
        BY <1>1, <1>2, <1>4
      <3>4. QED
        BY <1>2, <3>2, <3>3
    <2>3. QED
      BY <2>1, <2>2
  <1>6. \A m, n \in 1..L : m < n => FirstIn(more, key(m)) < FirstIn(more, key(n))
    BY <1>2, <1>4
  <1>7. QED
    BY <1>2, <1>3, <1>5, <1>6 DEF FirstKeys, key, more

(* A new key that finds room comes last.                                   *)
LEMMA FirstKeysMore ==
    ASSUME NEW log \in Seq(Rows), NEW row \in Rows, NEW l \in Seq(EntrySet), FirstKeys(log, l),
           row.key \notin KeysOf(l) \cup {NoKey}, Len(l) # KEYS, NEW e \in EntrySet,
           e.key = row.key
    PROVE  /\ FirstKeys(Append(log, row), Append(l, e))
           /\ KeysOf(Append(l, e)) = KeysOf(l) \cup {row.key}
           /\ row.key \notin SeenIn(log)
  <1> DEFINE N == Len(log)
             L == Len(l)
             more == Append(log, row)
             l2 == Append(l, e)
             key(n) == l2[n].key
  <1>1. /\ SeenIn(more) = SeenIn(log) \cup ({row.key} \ {NoKey})
        /\ \A k \in SeenIn(log) : FirstIn(more, k) = FirstIn(log, k)
        /\ row.key \notin SeenIn(log) \cup {NoKey} => FirstIn(more, row.key) = N + 1
        /\ \A k \in SeenIn(log) : FirstIn(log, k) \in 1..N
    BY FirstMore
  <1>2. /\ N \in Nat /\ L \in Nat /\ DOMAIN l2 = 1..(L + 1)
        /\ \A i : i \in 1..(L + 1) <=> (i \in 1..L \/ i = L + 1)
        /\ \A n \in 1..L : l2[n] = l[n]
        /\ l2[L + 1] = e /\ DOMAIN l = 1..L
    OBVIOUS
  <1>3. \A n \in 1..L : key(n) = l[n].key
    BY <1>2
  <1>4. key(L + 1) = row.key
    BY <1>2
  <1>5. /\ KeysOf(l) \subseteq SeenIn(log)
        /\ \A n \in 1..L : key(n) \in KeysOf(l)
        /\ \A m, n \in 1..L : m < n => FirstIn(log, key(m)) < FirstIn(log, key(n))
        /\ \A k \in SeenIn(log) : k \in KeysOf(l)
    BY <1>2, <1>3 DEF FirstKeys, KeysOf
  <1>6. KeysOf(l2) = KeysOf(l) \cup {row.key}
    BY <1>2, <1>3, <1>4 DEF KeysOf
  <1> HIDE DEF N, L, more, key, l2
  <1>7. row.key \notin SeenIn(log) \cup {NoKey}
    BY <1>5
  <1>8. /\ \A n \in 1..L : FirstIn(more, key(n)) = FirstIn(log, key(n))
                           /\ FirstIn(log, key(n)) \in 1..N
        /\ FirstIn(more, key(L + 1)) = N + 1
    BY <1>1, <1>4, <1>5, <1>7
  <1>9. ASSUME NEW m \in 1..(L + 1), NEW n \in 1..(L + 1), m < n
        PROVE  FirstIn(more, key(m)) < FirstIn(more, key(n))
    <2>1. m \in 1..L
      BY <1>2, <1>9
    <2>2. CASE n \in 1..L
      BY <1>5, <1>8, <1>9, <2>1, <2>2
    <2>3. CASE n = L + 1
      BY <1>2, <1>8, <2>1, <2>3
    <2>4. QED
      BY <1>2, <2>2, <2>3
  <1>10. SeenIn(more) \ KeysOf(l2) = {}
    BY <1>1, <1>5, <1>6
  <1>11. KeysOf(l2) \subseteq SeenIn(more)
    BY <1>1, <1>5, <1>6, <1>7
  <1>12. FirstKeys(more, l2)
    BY <1>2, <1>9, <1>10, <1>11 DEF FirstKeys, key
  <1>13. QED
    BY <1>6, <1>7, <1>12 DEF more, l2

(* A line that is not stored has no sample.                                *)
LEMMA SamplesSame ==
    ASSUME NEW log \in Seq(Rows), NEW row \in Rows, NEW l, NEW all, NEW pos,
           SamplesAt(log, l, all, pos), row.key \notin KeysOf(l)
    PROVE  SamplesAt(Append(log, row), l, all, pos)
  <1> DEFINE N == Len(log)
             more == Append(log, row)
             S == Len(all)
  <1>1. /\ Len(more) = N + 1 /\ N \in Nat /\ more[N + 1] = row
        /\ \A i \in 1..N : more[i] = log[i]
        /\ \A i : i \in 1..(N + 1) <=> (i \in 1..N \/ i = N + 1)
    BY LogMore
  <1>2. \A i \in 1..N : TimeIn(more, i) = TimeIn(log, i)
    BY TimeMore
  <1>3. /\ pos \in [1..S -> 1..N]
        /\ \A i, j \in 1..S : i < j => pos[i] < pos[j]
        /\ \A p \in 1..N : log[p].key \in KeysOf(l) => \E i \in 1..S : pos[i] = p
        /\ \A i \in 1..S : SampleOf(log, l, all[i], pos[i])
    BY DEF SamplesAt
  <1> HIDE DEF N, more, S
  <1>4. pos \in [1..S -> 1..(N + 1)] /\ \A i \in 1..S : pos[i] \in 1..N
    BY <1>1, <1>3
  <1>5. \A p \in 1..(N + 1) : more[p].key \in KeysOf(l) => \E i \in 1..S : pos[i] = p
    BY <1>1, <1>3
  <1>6. \A i \in 1..S : SampleOf(more, l, all[i], pos[i])
    BY <1>1, <1>2, <1>3, <1>4 DEF SampleOf, NumberedIn
  <1>7. SamplesAt(more, l, all, pos)
    BY <1>1, <1>3, <1>4, <1>5, <1>6 DEF SamplesAt, S
  <1>8. QED
    BY <1>7 DEF more

(* A line that is stored has the last one.                                 *)
LEMMA SamplesMore ==
    ASSUME NEW log \in Seq(Rows), NEW row \in Rows, NEW l, NEW l2, NEW A, NEW all \in Seq(A),
           NEW s \in A, NEW pos, SamplesAt(log, l, all, pos),
           \A i \in 1..Len(all) : l2[all[i].key].key = l[all[i].key].key,
           KeysOf(l2) \subseteq KeysOf(l) \cup {row.key}, row.key # NoKey,
           row.key \in KeysOf(l) \/ row.key \notin SeenIn(log),
           SampleOf(Append(log, row), l2, s, Len(log) + 1)
    PROVE  \E pos2 : SamplesAt(Append(log, row), l2, Append(all, s), pos2)
  <1> DEFINE N == Len(log)
             more == Append(log, row)
             S == Len(all)
             all2 == Append(all, s)
             pos2 == [i \in 1..(S + 1) |-> IF i = S + 1 THEN N + 1 ELSE pos[i]]
  <1>1. /\ Len(more) = N + 1 /\ N \in Nat /\ more[N + 1] = row
        /\ \A i \in 1..N : more[i] = log[i]
        /\ \A i : i \in 1..(N + 1) <=> (i \in 1..N \/ i = N + 1)
    BY LogMore
  <1>2. \A i \in 1..N : TimeIn(more, i) = TimeIn(log, i)
    BY TimeMore
  <1>3. /\ pos \in [1..S -> 1..N]
        /\ \A i, j \in 1..S : i < j => pos[i] < pos[j]
        /\ \A p \in 1..N : log[p].key \in KeysOf(l) => \E i \in 1..S : pos[i] = p
        /\ \A i \in 1..S : SampleOf(log, l, all[i], pos[i])
    BY DEF SamplesAt
  <1>4. /\ Len(all2) = S + 1 /\ S \in Nat /\ all2[S + 1] = s
        /\ \A i \in 1..S : all2[i] = all[i] /\ i # S + 1
        /\ \A i : i \in 1..(S + 1) <=> (i \in 1..S \/ i = S + 1)
    OBVIOUS
  <1>5. \A p \in 1..N : log[p].key \in SeenIn(log) \cup {NoKey}
    BY DEF SeenIn
  <1>6. \A i \in 1..S : l2[all[i].key].key = l[all[i].key].key
    OBVIOUS
  <1> HIDE DEF N, more, S, all2
  <1>7. SampleOf(more, l2, s, N + 1)
    BY DEF more, N
  <1>8. \A i \in 1..S : pos2[i] = pos[i] /\ pos[i] \in 1..N
    BY <1>3, <1>4
  <1>9. pos2[S + 1] = N + 1
    BY <1>4
  <1>10. pos2 \in [1..(S + 1) -> 1..(N + 1)]
    <2>1. pos2 = [i \in 1..(S + 1) |-> pos2[i]]
      OBVIOUS
    <2> HIDE DEF pos2
    <2>2. \A i \in 1..(S + 1) : pos2[i] \in 1..(N + 1)
      BY <1>1, <1>4, <1>8, <1>9
    <2>3. QED
      BY <2>1, <2>2
  <1> HIDE DEF pos2
  <1>11. ASSUME NEW i \in 1..(S + 1), NEW j \in 1..(S + 1), i < j PROVE pos2[i] < pos2[j]
    <2>1. i \in 1..S
      BY <1>4, <1>11
    <2>2. CASE j \in 1..S
      BY <1>3, <1>8, <1>11, <2>1, <2>2
    <2>3. CASE j = S + 1
      BY <1>1, <1>8, <1>9, <2>1, <2>3
    <2>4. QED
      BY <1>4, <2>2, <2>3
  <1>12. ASSUME NEW p \in 1..(N + 1), more[p].key \in KeysOf(l2)
         PROVE  \E i \in 1..(S + 1) : pos2[i] = p
    <2>1. CASE p = N + 1
      BY <1>4, <1>9, <2>1
    <2>2. CASE p \in 1..N
      <3>1. log[p].key \in KeysOf(l) \cup {row.key}
        BY <1>1, <1>12, <2>2
      <3>2. log[p].key \in KeysOf(l)
        BY <1>5, <2>2, <3>1
      <3>3. PICK i \in 1..S : pos[i] = p
        BY <1>3, <2>2, <3>2
      <3>4. QED
        BY <1>4, <1>8, <3>3
    <2>3. QED
      BY <1>1, <2>1, <2>2
  <1>13. ASSUME NEW i \in 1..(S + 1) PROVE SampleOf(more, l2, all2[i], pos2[i])
    <2>1. CASE i \in 1..S
      <3> DEFINE p == pos[i]
                 t == all[i]
      <3>1. SampleOf(log, l, t, p) /\ p \in 1..N /\ l2[t.key].key = l[t.key].key
        BY <1>3, <1>6, <1>8, <2>1
      <3>2. all2[i] = t /\ pos2[i] = p
        BY <1>4, <1>8, <2>1
      <3> HIDE DEF p, t
      <3>3. SampleOf(more, l2, t, p)
        BY <1>1, <1>2, <3>1 DEF SampleOf, NumberedIn
      <3>4. QED
        BY <3>2, <3>3
    <2>2. CASE i = S + 1
      BY <1>4, <1>7, <1>9, <2>2
    <2>3. QED
      BY <1>4, <2>1, <2>2
  <1>14. SamplesAt(more, l2, all2, pos2)
    BY <1>1, <1>4, <1>10, <1>11, <1>12, <1>13 DEF SamplesAt
  <1>15. QED
    BY <1>14 DEF more, all2

LEMMA SampleIs ==
    ASSUME NEW row \in Rows, NEW time \in Nat, NEW leftover \in Int, NEW L \in Nat, NEW n \in 1..L
    PROVE  LET s == Sample(n, row, time, leftover)
           IN  /\ s \in SampleSet(L) /\ s.key = n /\ s.t = time
               /\ \A k \in 1..PARAMS :
                     k <= Len(row.vals) /\ row.vals[k] # NoValue => s.params[k] = row.vals[k]
  <1> DEFINE v == row.vals
             D == {k \in DOMAIN v : v[k] # NoValue}
             p == [k \in 1..PARAMS |-> IF k <= Len(v) /\ v[k] # NoValue THEN v[k]
                                       ELSE IF k = 1 THEN 0 ELSE leftover]
             c == Cardinality(D)
  <1>1. v \in Seq(Int) /\ Len(v) \in Nat /\ DOMAIN v = 1..Len(v)
    BY RowsAssumption
  <1> HIDE DEF v
  <1>2. c \in Nat
    <2>1. D \subseteq 1..Len(v)
      BY <1>1
    <2>2. IsFiniteSet(1..Len(v))
      BY <1>1, FS_Interval
    <2> HIDE DEF D
    <2>3. QED
      BY <2>1, <2>2, FS_Subset, FS_CardinalityType
  <1>3. \A k \in 1..PARAMS : p[k] \in Int
    <2> TAKE k \in 1..PARAMS
    <2>1. k <= Len(v) => v[k] \in Int
      <3>1. k \in Nat /\ 1 <= k
        BY RowsAssumption
      <3>2. QED
        BY <1>1, <3>1
    <2>2. QED
      BY <2>1
  <1>4. p \in Values
    <2>1. p = [k \in 1..PARAMS |-> p[k]]
      OBVIOUS
    <2> HIDE DEF p
    <2>2. QED
      BY <1>3, <2>1 DEF Values
  <1>5. \A k \in 1..PARAMS : k <= Len(v) /\ v[k] # NoValue => p[k] = v[k]
    OBVIOUS
  <1>6. Sample(n, row, time, leftover) = [key |-> n, t |-> time, nParams |-> c, params |-> p]
    BY DEF Sample, v
  <1> HIDE DEF p, c
  <1>7. QED
    BY <1>2, <1>4, <1>5, <1>6 DEF SampleSet, v

LEMMA DroppedCore ==
    ASSUME NEW log, NEW time, NEW l, NEW all, ReadCore(log, time, l, all), NEW row \in Rows,
           row.key \notin KeysOf(l), row.key = NoKey \/ Len(l) = KEYS
    PROVE  ReadCore(Append(log, row), TimeAfter(time, row), l, all)
  <1> DEFINE N == Len(log)
             more == Append(log, row)
             t == TimeAfter(time, row)
  <1>1. /\ log \in Seq(Rows) /\ time \in Nat /\ l \in Seq(EntrySet) /\ Len(l) <= KEYS
        /\ all \in Seq(SampleSet(Len(l))) /\ time = TimeIn(log, N) /\ FirstKeys(log, l)
    BY DEF ReadCore, ReadTypes
  <1>2. more \in Seq(Rows) /\ Len(more) = N + 1
    BY <1>1, LogMore
  <1>3. t = TimeIn(more, Len(more)) /\ t \in Nat
    BY <1>1, <1>2, TimeMore
  <1>4. FirstKeys(more, l)
    BY <1>1, FirstKeysSame
  <1>5. \E pos : SamplesAt(more, l, all, pos)
    <2>1. PICK pos : SamplesAt(log, l, all, pos)
      BY DEF ReadCore
    <2>2. QED
      BY <1>1, <2>1, SamplesSame
  <1> HIDE DEF more, t
  <1>6. QED
    BY <1>1, <1>2, <1>3, <1>4, <1>5 DEF ReadCore, ReadTypes, more, t

LEMMA StoredCore ==
    ASSUME NEW log, NEW time, NEW l, NEW all, ReadCore(log, time, l, all), NEW row \in Rows,
           row.key # NoKey, NEW leftover \in Int, NEW n, NEW l2,
           \/ n \in 1..Len(l) /\ l[n].key = row.key /\ l2 = l
           \/ /\ row.key \notin KeysOf(l) /\ Len(l) # KEYS
              /\ n = Len(l) + 1 /\ l2 = Append(l, NewKey(row.key))
    PROVE  ReadCore(Append(log, row), TimeAfter(time, row), l2,
                    Append(all, Sample(n, row, TimeAfter(time, row), leftover)))
  <1> DEFINE N == Len(log)
             L == Len(l)
             L2 == Len(l2)
             more == Append(log, row)
             t == TimeAfter(time, row)
             s == Sample(n, row, t, leftover)
             A == SampleSet(L2)
  <1>1. /\ log \in Seq(Rows) /\ time \in Nat /\ l \in Seq(EntrySet) /\ L <= KEYS
        /\ all \in Seq(SampleSet(L)) /\ time = TimeIn(log, N) /\ FirstKeys(log, l)
        /\ L \in Nat /\ KEYS \in Nat
    BY RowsAssumption DEF ReadCore, ReadTypes
  <1>2. PICK pos : SamplesAt(log, l, all, pos)
    BY DEF ReadCore
  <1>3. more \in Seq(Rows) /\ Len(more) = N + 1 /\ more[N + 1] = row
    BY <1>1, LogMore
  <1>4. t = TimeIn(more, N + 1) /\ t \in Nat
    BY <1>1, TimeMore
  <1>5. NewKey(row.key) \in EntrySet /\ NewKey(row.key).key = row.key
    <2>1. Zero \in Values
      BY DEF Zero, Values
    <2>2. row.key \in RowKeys
      BY DEF RowKeys
    <2>3. QED
      BY <2>1, <2>2 DEF NewKey, EntrySet
  <1>6. /\ l2 \in Seq(EntrySet) /\ L2 <= KEYS /\ L2 \in Nat /\ n \in 1..L2 /\ L <= L2
        /\ l2[n].key = row.key
        /\ \A i \in 1..L : l2[i].key = l[i].key
        /\ FirstKeys(more, l2) /\ KeysOf(l2) \subseteq KeysOf(l) \cup {row.key}
        /\ row.key \in KeysOf(l) \/ row.key \notin SeenIn(log)
    <2>1. CASE n \in 1..L /\ l[n].key = row.key /\ l2 = l
      <3>1. row.key \in KeysOf(l)
        BY <1>1, <2>1 DEF KeysOf
      <3>2. FirstKeys(more, l)
        BY <1>1, <3>1, FirstKeysSame
      <3> HIDE DEF more
      <3>3. QED
        BY <1>1, <2>1, <3>1, <3>2
    <2>2. CASE /\ row.key \notin KeysOf(l) /\ L # KEYS
               /\ n = L + 1 /\ l2 = Append(l, NewKey(row.key))
      <3> DEFINE e == NewKey(row.key)
      <3>1. e \in EntrySet /\ e.key = row.key /\ l2 = Append(l, e)
        BY <1>5, <2>2
      <3> HIDE DEF e
      <3>2. /\ FirstKeys(more, l2) /\ KeysOf(l2) = KeysOf(l) \cup {row.key}
            /\ row.key \notin SeenIn(log)
        BY <1>1, <2>2, <3>1, FirstKeysMore
      <3> HIDE DEF more
      <3>3. /\ l2 \in Seq(EntrySet) /\ L2 = L + 1 /\ l2[L + 1] = e
            /\ \A i \in 1..L : l2[i] = l[i]
        BY <1>1, <3>1
      <3>4. QED
        BY <1>1, <2>2, <3>1, <3>2, <3>3
    <2>3. QED
      BY <2>1, <2>2
  <1>7. /\ s \in A /\ s.key = n /\ s.t = t
        /\ \A k \in 1..PARAMS :
              k <= Len(row.vals) /\ row.vals[k] # NoValue => s.params[k] = row.vals[k]
    <2>1. t \in Nat /\ L2 \in Nat /\ n \in 1..L2
      BY <1>4, <1>6
    <2> HIDE DEF t, L2
    <2>2. QED
      BY <2>1, SampleIs
  <1>8. all \in Seq(A) /\ \A i \in 1..Len(all) : all[i].key \in 1..L
    <2>1. SampleSet(L) \subseteq A
      <3>1. 1..L \subseteq 1..L2
        BY <1>1, <1>6
      <3>2. QED
        BY <3>1 DEF SampleSet
    <2> DEFINE B == SampleSet(L)
    <2>2. all \in Seq(B) /\ B \subseteq A
      BY <1>1, <2>1
    <2>3. \A b \in B : b.key \in 1..L
      BY DEF SampleSet
    <2> HIDE DEF A, B
    <2>4. QED
      BY <2>2, <2>3
  <1> HIDE DEF more, t, s, A, L2
  <1>9. SampleOf(more, l2, s, N + 1)
    BY <1>3, <1>4, <1>6, <1>7 DEF SampleOf, NumberedIn
  <1>10. \E pos2 : SamplesAt(more, l2, Append(all, s), pos2)
    <2>1. \A i \in 1..Len(all) : l2[all[i].key].key = l[all[i].key].key
      BY <1>6, <1>8
    <2>2. QED
      BY <1>1, <1>2, <1>6, <1>7, <1>8, <1>9, <2>1, SamplesMore DEF more
  <1>11. Append(all, s) \in Seq(A)
    BY <1>7, <1>8
  <1>12. ReadCore(more, t, l2, Append(all, s))
    BY <1>3, <1>4, <1>6, <1>10, <1>11 DEF ReadCore, ReadTypes, A, L2
  <1>13. QED
    BY <1>12 DEF more, t, s

LEMMA KeptCore ==
    ASSUME NEW log, NEW time, NEW l, NEW all, ReadCore(log, time, l, all),
           NEW r \in Seq(EntrySet), Len(r) = Len(l), \A n \in 1..Len(l) : r[n].key = l[n].key
    PROVE  ReadCore(log, time, r, all)
  <1> DEFINE L == Len(l)
  <1>1. /\ log \in Seq(Rows) /\ time \in Nat /\ l \in Seq(EntrySet) /\ L <= KEYS
        /\ all \in Seq(SampleSet(L)) /\ time = TimeIn(log, Len(log)) /\ FirstKeys(log, l)
    BY DEF ReadCore, ReadTypes
  <1>2. PICK pos : SamplesAt(log, l, all, pos)
    BY DEF ReadCore
  <1>3. DOMAIN l = 1..L /\ DOMAIN r = 1..L /\ Len(r) = L
    BY <1>1
  <1>4. KeysOf(r) = KeysOf(l)
    BY <1>3 DEF KeysOf
  <1>5. FirstKeys(log, r)
    BY <1>1, <1>3, <1>4 DEF FirstKeys
  <1>6. \A i \in 1..Len(all) : all[i].key \in 1..L
    <2> TAKE i \in 1..Len(all)
    <2>1. all[i] \in SampleSet(L)
      BY <1>1
    <2>2. QED
      BY <2>1 DEF SampleSet
  <1>7. SamplesAt(log, r, all, pos)
    BY <1>2, <1>4, <1>6 DEF SamplesAt, SampleOf
  <1>8. QED
    BY <1>1, <1>3, <1>5, <1>7 DEF ReadCore, ReadTypes

(* Without a sample there is no key.                                       *)
LEMMA EmptyCore ==
    ASSUME NEW log, NEW time, NEW l, ReadCore(log, time, l, <<>>)
    PROVE  l = <<>>
  <1>1. /\ log \in Seq(Rows) /\ l \in Seq(EntrySet) /\ KeysOf(l) \subseteq SeenIn(log)
        /\ \E pos : SamplesAt(log, l, <<>>, pos)
    BY DEF ReadCore, ReadTypes, FirstKeys
  <1>2. Len(<<>>) = 0 /\ DOMAIN log = 1..Len(log)
    BY <1>1
  <1>3. \A p \in 1..Len(log) : log[p].key \notin KeysOf(l)
    BY <1>1, <1>2 DEF SamplesAt
  <1>4. KeysOf(l) = {}
    BY <1>1, <1>2, <1>3 DEF SeenIn
  <1>5. DOMAIN l = {}
    BY <1>4 DEF KeysOf
  <1>6. QED
    BY <1>1, <1>5

(* The statistics are shown, or not.                                       *)
LEMMA ShownIs ==
    ASSUME NEW log, NEW time, NEW l, NEW all, ReadCore(log, time, l, all), NEW l2, NEW r2,
           \/ l2 = l /\ r2 = NoReport
           \/ l2 = ReportOf(l, all, time - nsamples) /\ r2 = l2
    PROVE  /\ ReadCore(log, time, l2, all)
           /\ r2 # NoReport => ReportOK(r2, log)
           /\ all = <<>> => r2 = NoReport
  <1>1. CASE l2 = l /\ r2 = NoReport
    BY <1>1
  <1>2. CASE l2 = ReportOf(l, all, time - nsamples) /\ r2 = l2
    <2>1. /\ l2 \in Seq(EntrySet) /\ Len(l2) = Len(l)
          /\ \A n \in 1..Len(l) : l2[n].key = l[n].key
          /\ ReportOK(l2, log)
      BY <1>2, ReportIs
    <2>2. ReadCore(log, time, l2, all)
      BY <2>1, KeptCore
    <2>3. all = <<>> => l2 = <<>>
      BY <2>2, EmptyCore
    <2>4. QED
      BY <1>2, <2>1, <2>2, <2>3 DEF NoReport
  <1>3. QED
    BY <1>1, <1>2

LEMMA KeyIndexIs ==
    ASSUME list \in Seq(EntrySet), NEW key
    PROVE  \/ KeyIndex(key) \in 1..Len(list) /\ list[KeyIndex(key)].key = key
           \/ KeyIndex(key) = Len(list) + 1 /\ key \notin KeysOf(list)
  <1> DEFINE L == Len(list)
             T == {n \in DOMAIN list : list[n].key = key} \cup {L + 1}
  <1>1. L \in Nat /\ DOMAIN list = 1..L
    OBVIOUS
  <1>2. T \subseteq Nat /\ T # {}
    BY <1>1
  <1>3. KeyIndex(key) = Min(T)
    BY DEF KeyIndex
  <1>4. Min(T) \in T /\ \A n \in T : Min(T) <= n
    <2> HIDE DEF T
    <2> QED BY <1>2, LeastIsMin
  <1> DEFINE m == Min(T)
  <1>5. /\ (m \in 1..L /\ list[m].key = key) \/ m = L + 1
        /\ \A n \in 1..L : list[n].key = key => m <= n
    BY <1>1, <1>4
  <1> HIDE DEF m
  <1>6. m = L + 1 => key \notin KeysOf(list)
    BY <1>1, <1>5 DEF KeysOf
  <1>7. QED
    BY <1>3, <1>5, <1>6 DEF m

(* What holds of the program: the report is right of the lines read, and   *)
(* until it crashes its list and its samples are those of these lines.     *)
ReadInv ==
    /\ report # NoReport => ReportOK(report, rows)
    /\ rpc # "crash" => /\ ReadCore(rows, sampleTime, list, samples)
                        /\ base \in {-1, 0, 1}
                        /\ samples = <<>> => report = NoReport

LEMMA ReadStart == ReadInit => ReadInv
  <1> SUFFICES ASSUME ReadInit PROVE ReadInv
    OBVIOUS
  <1>1. /\ sampleTime = 0 /\ base \in {-1, 0, 1} /\ report = NoReport
        /\ rows = <<>> /\ list = <<>> /\ samples = <<>>
    BY DEF ReadInit
  <1>2. ReadTypes(rows, sampleTime, list, samples)
    BY <1>1, RowsAssumption DEF ReadTypes
  <1>3. sampleTime = TimeIn(rows, Len(rows))
    <2>1. Marked(rows, 0) = {}
      BY DEF Marked
    <2>2. Len(rows) = 0
      BY <1>1
    <2>3. QED
      BY <1>1, <2>1, <2>2 DEF TimeIn
  <1>4. FirstKeys(rows, list)
    <2>1. DOMAIN list = {} /\ SeenIn(rows) = {}
      BY <1>1 DEF SeenIn
    <2>2. QED
      BY <2>1 DEF FirstKeys, KeysOf
  <1>5. SamplesAt(rows, list, samples, <<>>)
    <2>1. 1..Len(rows) = {} /\ 1..Len(samples) = {} /\ DOMAIN <<>> = {}
      BY <1>1
    <2>2. <<>> \in [{} -> 1..Len(rows)]
      OBVIOUS
    <2>3. QED
      BY <2>1, <2>2 DEF SamplesAt
  <1>6. QED
    BY <1>1, <1>2, <1>3, <1>4, <1>5 DEF ReadInv, ReadCore

(* The end of a line.                                                      *)
LEMMA LineEnds ==
    ASSUME NEW keys, NEW wanted, ReadCore(rows', sampleTime', keys, samples'),
           ShowStats(wanted, keys, samples'), base' \in {-1, 0, 1}
    PROVE  ReadInv'
  <1>1. CASE list' = keys /\ report' = NoReport
    BY <1>1 DEF ReadInv
  <1>2. CASE list' = ReportOf(keys, samples', sampleTime' - nsamples) /\ report' = list'
    <2>1. /\ ReadCore(rows', sampleTime', list', samples')
          /\ report' # NoReport => ReportOK(report', rows')
          /\ samples' = <<>> => report' = NoReport
      BY <1>2, ShownIs
    <2>2. QED
      BY <2>1 DEF ReadInv
  <1>3. QED
    BY <1>1, <1>2 DEF ShowStats

LEMMA DropKeeps ==
    ASSUME ReadInv, NEW row \in Rows, DropRow(row)
    PROVE  ReadInv'
  <1>1. /\ ReadCore(rows, sampleTime, list, samples) /\ base \in {-1, 0, 1}
        /\ rpc = "line"
    BY DEF ReadInv, DropRow
  <1>2. /\ sampleTime' = TimeAfter(sampleTime, row) /\ rows' = Append(rows, row)
        /\ samples' = samples /\ base' = base
        /\ ShowStats(row.mark, list, samples)
        /\ Dropped(row)
    BY DEF DropRow, TimeStamp, TimeAfter
  <1>3. list \in Seq(EntrySet) /\ KeysOf(list) \subseteq SeenIn(rows)
    BY <1>1 DEF ReadCore, ReadTypes, FirstKeys
  <1>4. row.key \notin KeysOf(list) /\ (row.key = NoKey \/ Len(list) = KEYS)
    <2>1. CASE row.key = NoKey
      BY <1>3, <2>1 DEF SeenIn
    <2>2. CASE KeyIndex(row.key) > Len(list) /\ Len(list) = KEYS
      <3>1. Len(list) \in Nat
        BY <1>3
      <3>2. KeyIndex(row.key) \notin 1..Len(list)
        BY <2>2, <3>1, KeyIndexIs, <1>3
      <3>3. QED
        BY <1>3, <2>2, <3>2, KeyIndexIs
    <2>3. QED
      BY <1>2, <2>1, <2>2 DEF Dropped
  <1>5. ReadCore(rows', sampleTime', list, samples')
    BY <1>1, <1>2, <1>4, DroppedCore
  <1>6. QED
    BY <1>1, <1>2, <1>5, LineEnds

LEMMA StoreKeeps ==
    ASSUME ReadInv, NEW row \in Rows, StoreRow(row)
    PROVE  ReadInv'
  <1> DEFINE n == KeyIndex(row.key)
             keys == IF n <= Len(list) THEN list ELSE Append(list, NewKey(row.key))
  <1>1. /\ ReadCore(rows, sampleTime, list, samples) /\ base \in {-1, 0, 1}
        /\ samples = <<>> => report = NoReport
        /\ rpc = "line"
    BY DEF ReadInv, StoreRow
  <1>2. /\ sampleTime' = TimeAfter(sampleTime, row) /\ rows' = Append(rows, row) /\ base' = base
        /\ ~Dropped(row)
    BY DEF StoreRow, TimeStamp, TimeAfter
  <1>3. list \in Seq(EntrySet) /\ samples \in Seq(SampleSet(Len(list)))
    BY <1>1 DEF ReadCore, ReadTypes
  <1>4. CASE base + Len(samples) < 0
    <2>1. rpc' = "crash" /\ report' = report
      BY <1>4 DEF StoreRow
    <2>2. samples = <<>>
      <3>1. Len(samples) = 0
        BY <1>1, <1>3, <1>4
      <3>2. QED
        BY <1>3, <3>1
    <2>3. report' = NoReport
      BY <1>1, <2>1, <2>2
    <2>4. QED
      BY <2>1, <2>3 DEF ReadInv
  <1>5. CASE ~(base + Len(samples) < 0)
    <2>1. PICK leftover \in Leftovers :
             /\ samples' = Append(samples, Sample(n, row, sampleTime', leftover))
             /\ ShowStats(row.mark, keys, samples')
      BY <1>5 DEF StoreRow
    <2>2. leftover \in Int
      BY RowsAssumption
    <2>3. row.key # NoKey
      BY <1>2 DEF Dropped
    <2>4. \/ n \in 1..Len(list) /\ list[n].key = row.key /\ keys = list
          \/ /\ row.key \notin KeysOf(list) /\ Len(list) # KEYS
             /\ n = Len(list) + 1 /\ keys = Append(list, NewKey(row.key))
      <3>0. Len(list) \in Nat
        BY <1>3
      <3>1. \/ n \in 1..Len(list) /\ list[n].key = row.key
            \/ n = Len(list) + 1 /\ row.key \notin KeysOf(list)
        BY <1>3, KeyIndexIs
      <3>2. ~(n > Len(list) /\ Len(list) = KEYS)
        BY <1>2 DEF Dropped
      <3> DEFINE more == Append(list, NewKey(row.key))
      <3>3. keys = IF n <= Len(list) THEN list ELSE more
        OBVIOUS
      <3> HIDE DEF n, more, keys
      <3>4. CASE n \in 1..Len(list) /\ list[n].key = row.key
        BY <3>0, <3>3, <3>4
      <3>5. CASE n = Len(list) + 1 /\ row.key \notin KeysOf(list)
        BY <3>0, <3>2, <3>3, <3>5 DEF more
      <3>6. QED
        BY <3>1, <3>4, <3>5
    <2> HIDE DEF n, keys
    <2>5. ReadCore(rows', sampleTime', keys, samples')
      BY <1>1, <1>2, <2>1, <2>2, <2>3, <2>4, StoredCore
    <2>6. QED
      BY <1>1, <1>2, <2>1, <2>5, LineEnds
  <1>6. QED
    BY <1>4, <1>5

LEMMA EndKeeps ==
    ASSUME ReadInv, EndOfInput
    PROVE  ReadInv'
  <1>1. /\ ReadCore(rows, sampleTime, list, samples) /\ base \in {-1, 0, 1} /\ rpc = "line"
        /\ report # NoReport => ReportOK(report, rows)
    BY DEF ReadInv, EndOfInput
  <1>2. sampleTime' = sampleTime /\ base' = base /\ samples' = samples /\ rows' = rows
    BY DEF EndOfInput
  <1>3. CASE rpc' = "crash" /\ report' = report
    BY <1>1, <1>2, <1>3 DEF ReadInv
  <1>4. CASE list' = ReportOf(list, samples, sampleTime - nsamples) /\ report' = list'
    <2>1. /\ ReadCore(rows, sampleTime, list', samples)
          /\ report' # NoReport => ReportOK(report', rows)
          /\ samples = <<>> => report' = NoReport
      BY <1>1, <1>4, ShownIs
    <2>2. QED
      BY <1>1, <1>2, <2>1 DEF ReadInv
  <1>5. QED
    BY <1>3, <1>4 DEF EndOfInput

LEMMA ReadStep == ReadInv /\ [ReadNext]_readVars => ReadInv'
  <1> SUFFICES ASSUME ReadInv, [ReadNext]_readVars PROVE ReadInv'
    OBVIOUS
  <1>1. ASSUME NEW row \in Rows, DropRow(row) PROVE ReadInv'
    BY <1>1, DropKeeps
  <1>2. ASSUME NEW row \in Rows, StoreRow(row) PROVE ReadInv'
    BY <1>2, StoreKeeps
  <1>3. CASE EmptyLine
    BY <1>3 DEF EmptyLine, ReadInv
  <1>4. CASE EndOfInput
    BY <1>4, EndKeeps
  <1>5. CASE UNCHANGED readVars
    BY <1>5 DEF readVars, ReadInv
  <1>6. QED
    BY <1>1, <1>2, <1>3, <1>4, <1>5 DEF ReadNext

(* A report gives, for each of the first KEYS keys of the log, the number, *)
(* the sum and the squared deviation of the values of its lines of the     *)
(* last nsamples seconds with no older line of these keys behind them, and *)
(* of no other line, whatever the time stamps, the places without a number *)
(* and the values left in memory are (QueryRead.cpp: the loops over        *)
(* samples and list, and their calls).                                     *)
THEOREM WindowsHold == ReadSpec => []WindowStats
  <1>1. ReadInv => WindowStats
    BY WindowStatsIs DEF ReadInv
  <1>2. QED
    BY ReadStart, ReadStep, <1>1, PTL DEF ReadSpec
=============================================================================
