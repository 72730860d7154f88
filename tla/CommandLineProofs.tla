------------------------- MODULE CommandLineProofs -------------------------
(***************************************************************************)
(* Proofs about CommandLine, for any command line and any files.           *)
(***************************************************************************)
EXTENDS CommandLine, TextProofs

(* The words of a line: none is empty, as an empty one ends it.            *)
LineWords(w) ==
    /\ Len(w) \in Nat /\ DOMAIN w = 1..Len(w)
    /\ \A i \in DOMAIN w : w[i] # <<>>

(* A word of a file is written in text, and so is a line of them.          *)
LEMMA WrittenType ==
    ASSUME NEW word \in Seq(Symbols), NEW quoted \in BOOLEAN
    PROVE  Written(word, quoted) \in Seq(Alphabet)
  <1> DEFINE S == Alphabet
  <1> DEFINE e == [i \in DOMAIN word |-> Escaped(word[i], quoted)]
             text == FlattenSeq(e)
  <1>1. ASSUME NEW c \in Symbols PROVE Escaped(c, quoted) \in Seq(S)
    <2> DEFINE a == <<Backslash, "n">>
               b == <<Backslash, c>>
               d == <<c>>
    <2>1. a \in Seq(S) /\ b \in Seq(S) /\ d \in Seq(S)
      <3>1. Backslash \in S /\ "n" \in S /\ c \in S
        BY DEF Alphabet
      <3> HIDE DEF S
      <3>2. QED
        BY <3>1
    <2>2. Escaped(c, quoted) =
             CASE c = "\n" -> a
               [] c \in {Quote, Backslash} -> b
               [] c = " " /\ ~quoted -> b
               [] OTHER -> d
      BY DEF Escaped
    <2> HIDE DEF a, b, d, S
    <2>3. QED
      BY <2>1, <2>2 DEF Quote, Backslash
  <1>2. e \in Seq(Seq(S))
    <2>1. Len(word) \in Nat /\ DOMAIN word = 1..Len(word) /\ \A i \in 1..Len(word) : word[i] \in Symbols
      BY LenProperties, ElementOfSeq
    <2>2. \A i \in 1..Len(word) : Escaped(word[i], quoted) \in Seq(S)
      BY <1>1, <2>1
    <2> DEFINE V == Seq(S)
    <2>3. \A i \in 1..Len(word) : Escaped(word[i], quoted) \in V
      BY <2>2
    <2> HIDE DEF V
    <2>4. e \in Seq(V)
      BY <2>1, <2>3
    <2>5. QED
      BY <2>4 DEF V
  <1> HIDE DEF S, e
  <1>3. text \in Seq(S)
    BY <1>2, FlattenType
  <1>4. <<Quote>> \in Seq(S)
    BY DEF S, Alphabet
  <1> HIDE DEF text
  <1> DEFINE q == <<Quote>>
  <1> HIDE DEF q
  <1>5. q \o text \o q \in Seq(S)
    <2>1. q \in Seq(S)
      BY <1>4 DEF q
    <2>2. q \o text \in Seq(S)
      BY <1>3, <2>1, ConcatProperties
    <2>3. QED
      BY <2>1, <2>2, ConcatProperties
  <1>6. QED
    BY <1>3, <1>5 DEF Written, text, e, q, S

LEMMA TextType ==
    ASSUME NEW row \in FileRows
    PROVE  TextOf(row) \in Seq(Alphabet)
  <1> DEFINE S == Alphabet
  <1>1. ASSUME NEW word \in Seq(Symbols), NEW quoted \in BOOLEAN
        PROVE  Written(word, quoted) \in Seq(S)
    BY WrittenType
  <1> DEFINE P(k) == (IF k = 1 THEN <<>> ELSE <<" ">>)
                         \o Written(row.words[k].word, row.words[k].quoted)
             b == <<" ">>
             e == [k \in DOMAIN row.words |-> P(k)]
             end == IF row.closed THEN <<" ">> ELSE <<>>
  <1>2. b \in Seq(S) /\ <<>> \in Seq(S)
    BY DEF S, Alphabet
  <1>3. /\ Len(row.words) \in Nat /\ DOMAIN row.words = 1..Len(row.words)
        /\ \A k \in 1..Len(row.words) :
              row.words[k].word \in Seq(Symbols) /\ row.words[k].quoted \in BOOLEAN
    <2> DEFINE V == [word: Seq(Symbols), quoted: BOOLEAN]
    <2>1. row.words \in Seq(V)
      BY DEF FileRows
    <2> HIDE DEF V
    <2>2. /\ Len(row.words) \in Nat /\ DOMAIN row.words = 1..Len(row.words)
          /\ \A k \in 1..Len(row.words) : row.words[k] \in V
      BY <2>1
    <2>3. QED
      BY <2>2 DEF V
  <1>4. \A k \in 1..Len(row.words) : P(k) \in Seq(S)
    <2> SUFFICES ASSUME NEW k \in 1..Len(row.words) PROVE P(k) \in Seq(S)
      OBVIOUS
    <2> DEFINE w == Written(row.words[k].word, row.words[k].quoted)
               l == IF k = 1 THEN <<>> ELSE <<" ">>
    <2>1. w \in Seq(S)
      BY <1>1, <1>3
    <2>2. l \in Seq(S)
      BY <1>2
    <2> HIDE DEF w, l, S
    <2>3. l \o w \in Seq(S)
      BY <2>1, <2>2, ConcatProperties
    <2>4. QED
      BY <2>3 DEF l, w
  <1>5. e \in Seq(Seq(S))
    <2> DEFINE V == Seq(S)
    <2>1. \A k \in 1..Len(row.words) : P(k) \in V
      BY <1>4
    <2> HIDE DEF V, P
    <2>2. e \in Seq(V)
      BY <1>3, <2>1
    <2>3. QED
      BY <2>2 DEF V
  <1>6. TextOf(row) = FlattenSeq(e) \o end
    BY DEF TextOf
  <1>7. end \in Seq(S)
    BY <1>2
  <1> HIDE DEF S, e, end
  <1>8. FlattenSeq(e) \in Seq(S)
    BY <1>5, FlattenType
  <1>9. FlattenSeq(e) \o end \in Seq(S)
    BY <1>7, <1>8, ConcatProperties
  <1>10. QED
    BY <1>6, <1>9 DEF S, e, end

LEMMA CharsEscape == Escapes(Alphabet)
  BY DEF Escapes, Unescaped, Alphabet

(* The words of a line of a file.                                          *)
LEMMA WordsOfLine ==
    ASSUME NEW row \in FileRows
    PROVE  /\ WordsOf(TextOf(row)) \in Seq(Seq(Alphabet) \ {<<>>})
           /\ LineWords(WordsOf(TextOf(row)))
  <1> DEFINE W == Seq(Alphabet) \ {<<>>}
             w == WordsOf(TextOf(row))
  <1>1. w \in Seq(W)
    BY TextType, CharsEscape, WordsType
  <1>2. \A x \in W : x # <<>>
    OBVIOUS
  <1> HIDE DEF W, w
  <1>3. LineWords(w)
    BY <1>1, <1>2 DEF LineWords
  <1>4. QED
    BY <1>1, <1>3 DEF W, w

-----------------------------------------------------------------------------
(* The times that an argument stands for.                                  *)

(* The fields of a time: one for every place behind a gap.                 *)
GapAt(word, i) == i = 0 \/ word[i] \in {" ", ":"}
FieldOf(word, i) ==
    OrZero(Number(word, IF word[i] = "+" THEN i + 1 ELSE i, 9))
FieldsTo(word, fields, i) ==
    IF GapAt(word, i - 1) /\ ~GapAt(word, i) THEN Append(fields, FieldOf(word, i)) ELSE fields

LEMMA FieldNat ==
    ASSUME NEW S, NEW word \in Seq(S), NEW i \in 1..Len(word)
    PROVE  FieldOf(word, i) \in Nat
  <1> DEFINE from == IF word[i] = "+" THEN i + 1 ELSE i
             n == 9
  <1>1. from \in Nat \ {0} /\ n \in Nat
    OBVIOUS
  <1>2. FieldOf(word, i) = OrZero(Number(word, from, n))
    BY DEF FieldOf
  <1> HIDE DEF from, n
  <1>3. Number(word, from, n) \in Nat \cup {-1}
    BY <1>1, NumberNat
  <1>4. QED
    BY <1>2, <1>3 DEF OrZero

LEMMA FieldsRun ==
    ASSUME NEW S, NEW word \in Seq(S)
    PROVE  \E g \in [0..Len([i \in DOMAIN word |-> i]) -> Seq(Nat)] :
              /\ g[0] = <<>> /\ g[Len([i \in DOMAIN word |-> i])] = TimeFields(word)
              /\ \A n \in 1..Len([i \in DOMAIN word |-> i]) : g[n] = FieldsTo(word, g[n - 1], ([i \in DOMAIN word |-> i])[n])
  <1> DEFINE B == Seq(Nat)
             A == 1..Len(word)
             s == [i \in DOMAIN word |-> i]
             step == [p \in B \X A |-> FieldsTo(word, p[1], p[2])]
             Is(h) == h = [T \in SUBSET (DOMAIN s) |->
                             IF T = {} THEN <<>> ELSE FieldsTo(word, h[T \ {Max(T)}], s[Max(T)])]
             iter == CHOOSE h : Is(h)
  <1>1. step \in [B \X A -> B] /\ \A x \in B, y \in A : step[<<x, y>>] = FieldsTo(word, x, y)
    <2> SUFFICES ASSUME NEW x \in B, NEW y \in A PROVE FieldsTo(word, x, y) \in B
      OBVIOUS
    <2>1. FieldOf(word, y) \in Nat
      BY FieldNat
    <2>2. QED
      BY <2>1 DEF FieldsTo
  <1>2. s \in Seq(A) /\ <<>> \in B
    OBVIOUS
  <1>3. TimeFields(word) = iter[DOMAIN s]
    BY DEF TimeFields, FoldLeftDomain, GapAt, FieldOf, FieldsTo, FoldLeft, MapThenFoldSet
  <1> HIDE DEF step, B, A, s
  <1>4. \E h : Is(h)
    <2>1. PICK h : h \in [SUBSET (DOMAIN s) -> B] /\ FoldsUp(h, DOMAIN s, <<>>, step, s)
      BY <1>1, <1>2, FoldExists
    <2>2. \A T \in SUBSET (DOMAIN s) :
             h[T] = IF T = {} THEN <<>> ELSE FieldsTo(word, h[T \ {Max(T)}], s[Max(T)])
      BY <1>1, <1>2, <2>1, FoldPlaces DEF FoldsUp
    <2>3. h = [T \in SUBSET (DOMAIN s) |-> h[T]]
      BY <2>1
    <2>4. Is(h)
      BY <2>2, <2>3
    <2> HIDE DEF Is
    <2>5. QED
      BY <2>4
  <1>5. Is(iter)
    <2> HIDE DEF Is
    <2> QED BY <1>4
  <1> HIDE DEF iter
  <1>6. /\ iter[{}] = <<>>
        /\ \A n \in 1..Len(s) : iter[1..n] = FieldsTo(word, iter[1..(n - 1)], s[n])
    <2>1. iter[{}] = <<>>
      BY <1>2, <1>5, FoldPlaces
    <2>2. ASSUME NEW n \in 1..Len(s)
          PROVE  iter[1..n] = FieldsTo(word, iter[1..(n - 1)], s[n])
      <3> DEFINE T == 1..n
      <3>1. T \in SUBSET (DOMAIN s) /\ T # {} /\ Max(T) = n /\ T \ {n} = 1..(n - 1)
        BY <1>2, FoldPlaces
      <3> HIDE DEF T
      <3>2. iter[T] = FieldsTo(word, iter[T \ {Max(T)}], s[Max(T)])
        BY <1>5, <3>1
      <3>3. iter[T] = FieldsTo(word, iter[1..(n - 1)], s[n])
        BY <3>1, <3>2
      <3>4. QED
        BY <3>3 DEF T
    <2>3. QED
      BY <2>1, <2>2
  <1>7. \A n \in 1..Len(s) :
            iter[1..(n - 1)] \in B => iter[1..n] = step[<<iter[1..(n - 1)], s[n]>>]
    BY <1>1, <1>2, <1>6
  <1>8. PICK g \in [0..Len(s) -> B] : Runs(g, <<>>, step, s) /\ iter[DOMAIN s] = g[Len(s)]
    <2>1. TakesIn(iter, B, <<>>, step, s)
      BY <1>6, <1>7 DEF TakesIn
    <2>2. FoldsTo(iter[DOMAIN s], B, <<>>, step, s)
      BY <1>1, <1>2, <2>1, FoldRuns
    <2>3. QED
      BY <2>2 DEF FoldsTo
  <1>9. g[0] = <<>> /\ \A n \in 1..Len(s) : g[n] = FieldsTo(word, g[n - 1], s[n])
    <2>1. \A n \in 1..Len(s) : g[n - 1] \in B /\ s[n] \in A
      BY <1>2, <1>8
    <2>2. QED
      BY <1>1, <1>8, <2>1 DEF Runs
  <1>10. QED
    BY <1>3, <1>8, <1>9 DEF B, s

LEMMA FieldsType ==
    ASSUME NEW S, NEW word \in Seq(S)
    PROVE  TimeFields(word) \in Seq(Nat)
  <1> DEFINE s == [i \in DOMAIN word |-> i]
  <1>1. PICK g \in [0..Len(s) -> Seq(Nat)] : g[Len(s)] = TimeFields(word)
    BY FieldsRun
  <1>2. DOMAIN word = 1..Len(word) /\ Len(word) \in Nat
    OBVIOUS
  <1>3. Len(s) = Len(word)
    BY <1>2
  <1>4. Len(s) \in 0..Len(s)
    BY <1>2, <1>3
  <1>5. QED
    BY <1>1, <1>4

(* A time of the command line is a time or none; a period is one.          *)
LEMMA TimeType ==
    ASSUME NEW S, NEW word \in Seq(S), NEW start \in Nat
    PROVE  /\ AbsTimeOf(word, start) \in Nat \cup {NoTime}
           /\ AbsTimeOf(word, 0) \in Nat
  <1> DEFINE fields == TimeFields(word)
             g == Given(fields)
             now == ToSysTime(start)
             d == DaySet(now, g)
             h == HourMade(now, g)
             m == MinuteMade(now, g)
             s == g.secs
             st == SecondSet(MinuteSet(HourSet(now, g), g), g)
  <1>1. fields \in Seq(Nat)
    BY FieldsType
  <1> HIDE DEF fields
  <1>2. Offset(fields) * MsPerSec \in Nat
    <2>1. Offset(fields) \in Nat
      BY <1>1, OffsetNat
    <2>2. QED
      BY <2>1, ClockIs, NatTimes
  <1>3. d \in Nat /\ h \in Nat /\ m \in Nat /\ s \in Nat
    BY <1>1, MadeNat
  <1>4. st = [wDay |-> d, wHour |-> h, wMinute |-> m, wSecond |-> s, wMilliseconds |-> 0]
    BY SysTimeForm, SetIs
  <1>5. /\ AbsTimeOf(word, start) = IF PlusSign(word) \/ start = 0
                                    THEN start + Offset(fields) * MsPerSec
                                    ELSE FromSysTime(st)
        /\ AbsTimeOf(word, 0) = 0 + Offset(fields) * MsPerSec
    BY DEF AbsTimeOf, StrToAbsTime, fields
  <1> HIDE DEF d, h, m, s, st
  <1>6. FromSysTime(st) \in Nat \cup {NoTime}
    <2>1. SecondsOf(d, h, m, s) \in Nat
      BY <1>3, SecondsAre
    <2>2. SecondsOf(d, h, m, s) * MsPerSec \in Nat
      BY <2>1, ClockIs, NatTimes
    <2>3. QED
      BY <1>3, <1>4, <2>2, FromIs
  <1>7. QED
    BY <1>2, <1>5, <1>6

LEMMA ClockTime ==
    ASSUME NEW t \in Clock
    PROVE  /\ t \in Nat \ {0} /\ ToSysTime(t).wDay <= LastDay
           /\ Seconds(t) + SecsPerDay =
                 LET st == ToSysTime(t) IN SecondsOf(st.wDay + 1, st.wHour, st.wMinute, st.wSecond)
  <1> DEFINE D == SecsPerDay
             k == LastDay + 1
             n == Seconds(t)
             st == ToSysTime(t)
             d == st.wDay
             h == st.wHour
             m == st.wMinute
             s == st.wSecond
             rest == h * SecsPerHour + m * SecsPerMin + s
  <1>1. D \in Nat \ {0} /\ k \in Nat
    BY ClockIs
  <1>2. k * D \in Nat
    BY <1>1, NatTimes
  <1>3. t \in Nat \ {0} /\ n \in Nat /\ n < k * D
    <2> DEFINE x == k * D
               y == x * MsPerSec
               z == D * MsPerSec
    <2>1. t \in z..(y - 1)
      BY DEF Clock
    <2>2. y \in Nat /\ z \in Nat /\ z # 0
      <3>1. y \in Nat /\ z \in Nat
        BY <1>1, <1>2, ClockIs, NatTimes
      <3>2. 0 * MsPerSec + MsPerSec <= D * MsPerSec /\ 0 * MsPerSec = 0
        <4>1. 0 < D
          BY <1>1
        <4> HIDE DEF D
        <4>2. QED
          BY <1>1, <4>1, ClockIs, TimesMore
      <3>3. QED
        BY <3>1, <3>2, ClockIs
    <2>3. t \in Nat \ {0} /\ t < y
      <3> HIDE DEF y, z
      <3> QED BY <2>1, <2>2
    <2>4. n \in Nat /\ n * MsPerSec \in Nat /\ n * MsPerSec <= t
      <3>1. /\ n \in Nat /\ t % MsPerSec \in 0..(MsPerSec - 1)
            /\ t = n * MsPerSec + (t % MsPerSec)
        BY <2>3, SecondsType
      <3> HIDE DEF n
      <3>2. n * MsPerSec \in Nat
        BY <3>1, ClockIs, NatTimes
      <3>3. QED
        BY <3>1, <3>2
    <2> HIDE DEF n, x
    <2>5. ASSUME x <= n PROVE FALSE
      <3>1. x * MsPerSec <= n * MsPerSec
        <4>1. CASE x = n
          BY <2>4, <4>1
        <4>2. CASE x < n
          <5>1. x * MsPerSec + MsPerSec <= n * MsPerSec
            BY <1>2, <2>4, <4>2, ClockIs, TimesMore DEF x
          <5>2. QED
            BY <2>2, <2>4, <5>1, ClockIs
        <4>3. QED
          BY <1>2, <2>4, <2>5, <4>1, <4>2 DEF x
      <3> HIDE DEF y
      <3>2. y <= n * MsPerSec
        BY <3>1 DEF y
      <3>3. QED
        BY <2>2, <2>3, <2>4, <3>2
    <2>6. QED
      BY <1>2, <2>3, <2>4, <2>5 DEF x
  <1>4. InRange(st) /\ n = TimeOf(st)
    BY <1>3, SysTimeIs
  <1> HIDE DEF n
  <1>5. d \in Nat /\ h \in Nat /\ m \in Nat /\ s \in Nat
    BY <1>4, ClockIs DEF InRange
  <1> HIDE DEF d, h, m, s
  <1>6. rest \in Nat
    BY <1>5, NatTimes, ClockIs
  <1>7. n = d * D + h * SecsPerHour + m * SecsPerMin + s
    <2>1. n = SecondsOf(d, h, m, s)
      BY <1>4 DEF TimeOf, d, h, m, s
    <2>2. SecondsOf(d, h, m, s) = d * D + h * SecsPerHour + m * SecsPerMin + s
      BY <1>5, SecondsAre
    <2>3. QED
      BY <2>1, <2>2
  <1>8. SecondsOf(d + 1, h, m, s) = (d + 1) * D + h * SecsPerHour + m * SecsPerMin + s
    <2> DEFINE e == d + 1
    <2>1. e \in Nat
      BY <1>5
    <2> HIDE DEF e
    <2>2. SecondsOf(e, h, m, s) = e * D + h * SecsPerHour + m * SecsPerMin + s
      BY <1>5, <2>1, SecondsAre
    <2>3. QED
      BY <2>2 DEF e
  <1> DEFINE x == h * SecsPerHour
             y == m * SecsPerMin
             z == d * D
  <1>9. x \in Nat /\ y \in Nat /\ z \in Nat /\ (d + 1) * D = z + D
    BY <1>1, <1>5, NatTimes, ClockIs
  <1> HIDE DEF D
  <1>10. d <= LastDay
    <2> SUFFICES ASSUME ~(d <= LastDay) PROVE FALSE
      OBVIOUS
    <2>1. k <= d
      BY <1>1, <1>5, ClockIs
    <2>2. k * D <= z
      <3>1. CASE k = d
        BY <1>9, <3>1
      <3>2. CASE k < d
        <4>1. k * D + D <= d * D
          BY <1>1, <1>5, <3>2, TimesMore
        <4>2. QED
          BY <1>1, <1>2, <1>9, <4>1
      <3>3. QED
        BY <1>1, <1>5, <2>1, <3>1, <3>2
    <2> HIDE DEF x, y, z, k
    <2>3. n = z + x + y + s
      BY <1>7 DEF x, y, z
    <2>4. QED
      BY <1>2, <1>3, <1>5, <1>9, <2>2, <2>3
  <1>11. n + D = SecondsOf(d + 1, h, m, s)
    <2>1. n = z + x + y + s
      BY <1>7
    <2>2. SecondsOf(d + 1, h, m, s) = z + D + x + y + s
      BY <1>8, <1>9
    <2> HIDE DEF x, y, z
    <2>3. QED
      BY <1>1, <1>5, <1>9, <2>1, <2>2
  <1>12. QED
    BY <1>3, <1>10, <1>11 DEF D, d, h, m, s, n

LEMMA NextTimeIs ==
    ASSUME NEW S, NEW word \in Seq(S), ~PlusSign(word), timeNow \in Clock
    PROVE  NextTime(word, AbsTimeOf(word, timeNow))
  <1> DEFINE g == Given(TimeFields(word))
             now == ToSysTime(timeNow)
             d == now.wDay
             h == now.wHour
             m == now.wMinute
             s == now.wSecond
             D == DaySet(now, g)
             H == HourMade(now, g)
             M == MinuteMade(now, g)
             r == g.secs
             t == AbsTimeOf(word, timeNow)
             T == SecondsOf(D, H, M, r)
             behind == r < s \/ (g.mins >= 0 /\ g.mins < m)
             second == Seconds(timeNow)
             ahead == {u \in second..(second + SecsPerDay) : Reads(ToSysTime(u * MsPerSec), g)}
             reached == D <= LastDay /\ H < HoursPerDay /\ M < MinsPerHour /\ r < SecsPerMin
  <1>1. TimeFields(word) \in Seq(Nat)
    BY FieldsType
  <1>2. timeNow \in Nat \ {0} /\ d <= LastDay /\ second + SecsPerDay = SecondsOf(d + 1, h, m, s)
    BY ClockTime
  <1>3. /\ d \in Nat /\ h \in 0..(HoursPerDay - 1) /\ m \in 0..(MinsPerHour - 1)
        /\ s \in 0..(SecsPerMin - 1) /\ second = SecondsOf(d, h, m, s)
    BY <1>2, SysTimeIs DEF InRange, TimeOf
  <1>4. now = [wDay |-> d, wHour |-> h, wMinute |-> m, wSecond |-> s,
               wMilliseconds |-> now.wMilliseconds]
    BY SysTimeForm
  <1>5. /\ g.secs \in Nat /\ g.mins \in Nat \cup {-1} /\ g.hrs \in Nat \cup {-1}
        /\ g.hrs >= 0 => g.mins >= 0
    BY <1>1, GivenIs
  <1>6. D \in Nat /\ H \in Nat /\ M \in Nat /\ r \in Nat
    BY <1>1, <1>2, MadeNat
  <1>7. t = IF reached THEN T * MsPerSec ELSE NoTime
    <2> DEFINE st == SecondSet(MinuteSet(HourSet(now, g), g), g)
    <2>1. st = [wDay |-> D, wHour |-> H, wMinute |-> M, wSecond |-> r, wMilliseconds |-> 0]
      BY <1>4, SetIs
    <2>2. t = FromSysTime(st)
      BY <1>2 DEF AbsTimeOf, StrToAbsTime
    <2> HIDE DEF st, D, H, M, r, t
    <2>3. QED
      BY <1>6, <2>1, <2>2, FromIs
  <1>8. NextTime(word, t) =
           IF t = NoTime THEN behind \/ now.wDay = LastDay \/ ahead = {}
           ELSE /\ t % MsPerSec = 0
                /\ timeNow <= t \/ (t = second * MsPerSec /\ Reads(now, g))
                /\ behind \/ t = MsPerSec * Min(ahead)
    BY DEF NextTime
  <1>00. /\ second \in Nat /\ timeNow % MsPerSec \in 0..(MsPerSec - 1)
         /\ timeNow = second * MsPerSec + (timeNow % MsPerSec)
    BY <1>2, SecondsType
  <1>9. \A u \in ahead : /\ u \in Nat /\ second <= u
                         /\ InRange(ToSysTime(u * MsPerSec)) /\ u = TimeOf(ToSysTime(u * MsPerSec))
                         /\ Reads(ToSysTime(u * MsPerSec), g)
    <2> SUFFICES ASSUME NEW u \in ahead
                 PROVE  /\ u \in Nat /\ second <= u
                        /\ InRange(ToSysTime(u * MsPerSec)) /\ u = TimeOf(ToSysTime(u * MsPerSec))
                        /\ Reads(ToSysTime(u * MsPerSec), g)
      OBVIOUS
    <2>1. SecsPerDay \in Nat
      BY ClockIs
    <2>2. u \in Nat /\ second <= u /\ Reads(ToSysTime(u * MsPerSec), g)
      <3> HIDE DEF g, second
      <3> QED BY <1>00, <2>1
    <2>3. u * MsPerSec \in Nat /\ Seconds(u * MsPerSec) = u
      BY <2>2, WholeIs
    <2>4. QED
      BY <2>2, <2>3, SysTimeIs
  <1> HIDE DEF now, g, t, second
  <1>10. ASSUME ~reached PROVE NextTime(word, t)
    <2> SUFFICES ASSUME ~behind, d # LastDay, ahead # {} PROVE FALSE
      <3> HIDE DEF behind, ahead, reached, T
      <3> QED BY <1>7, <1>8, <1>10
    <2> PICK u \in ahead : TRUE
      OBVIOUS
    <2> DEFINE st == ToSysTime(u * MsPerSec)
    <2>1. /\ g.hrs < 0 \/ g.hrs \in 0..(HoursPerDay - 1)
          /\ g.mins < 0 \/ g.mins \in 0..(MinsPerHour - 1)
          /\ r \in 0..(SecsPerMin - 1)
      <3>1. InRange(st) /\ Reads(st, g)
        BY <1>9
      <3> HIDE DEF st
      <3>2. QED
        BY <3>1 DEF InRange, Reads
    <2>2. /\ D = IF g.hrs < 0 THEN d ELSE IF h > g.hrs THEN d + 1 ELSE d
          /\ H = IF g.hrs < 0 THEN h ELSE g.hrs
          /\ M = IF g.mins < 0 THEN m ELSE g.mins
      <3>1. ~(s > r) /\ (g.mins >= 0 => ~(m > g.mins))
        BY <1>3, <1>5, ClockIs
      <3>2. D = IF g.hrs < 0 THEN d ELSE IF h > g.hrs THEN d + 1 ELSE d
        BY <1>3, <1>5 DEF DaySet, Later
      <3>3. H = IF g.hrs < 0 THEN h ELSE g.hrs
        BY SMTT(30), <1>3, <1>5, <3>1, ClockIs DEF HourMade, HourOf, Later
      <3>4. M = IF g.mins < 0 THEN m ELSE g.mins
        BY SMTT(30), <1>3, <1>5, <3>1, ClockIs DEF MinuteMade, MinuteOf, Later
      <3>5. QED
        BY <3>2, <3>3, <3>4
    <2>3. D <= LastDay
      BY SMTT(30), <1>2, <1>3, <2>2, ClockIs
    <2> HIDE DEF D, H, M
    <2>4. reached
      <3>1. D <= LastDay /\ r < SecsPerMin
        BY <1>6, <2>1, <2>3, ClockIs
      <3>2. H < HoursPerDay
        BY SMTT(30), <1>3, <1>5, <1>6, <2>1, <2>2, ClockIs
      <3>3. M < MinsPerHour
        BY SMTT(30), <1>3, <1>5, <1>6, <2>1, <2>2, ClockIs
      <3>4. QED
        BY <3>1, <3>2, <3>3
    <2>5. QED
      BY <1>10, <2>4
  <1>11. ASSUME reached PROVE NextTime(word, t)
    <2>1. /\ H \in 0..(HoursPerDay - 1) /\ M \in 0..(MinsPerHour - 1) /\ r \in 0..(SecsPerMin - 1)
      <3> HIDE DEF D, H, M, r
      <3> QED BY <1>6, <1>11, ClockIs
    <2>2. /\ second <= T
          /\ second = T => Reads(now, g)
          /\ ~behind =>
                /\ g.hrs < 0 \/ H = g.hrs
                /\ g.mins < 0 \/ M = g.mins
                /\ T <= second + SecsPerDay
                /\ \A e \in Nat, i \in 0..(HoursPerDay - 1), n \in 0..(MinsPerHour - 1) :
                      /\ second <= SecondsOf(e, i, n, r)
                      /\ g.hrs < 0 \/ i = g.hrs
                      /\ g.mins < 0 \/ n = g.mins
                      => T <= SecondsOf(e, i, n, r)
      <3>1. /\ SecondsOf(d, h, m, s) <= T
            /\ SecondsOf(d, h, m, s) = T => Reads(now, g)
            /\ ~behind =>
                  /\ g.hrs < 0 \/ H = g.hrs
                  /\ g.mins < 0 \/ M = g.mins
                  /\ T <= SecondsOf(d + 1, h, m, s)
                  /\ \A e \in Nat, i \in 0..(HoursPerDay - 1), n \in 0..(MinsPerHour - 1) :
                        /\ SecondsOf(d, h, m, s) <= SecondsOf(e, i, n, r)
                        /\ g.hrs < 0 \/ i = g.hrs
                        /\ g.mins < 0 \/ n = g.mins
                        => T <= SecondsOf(e, i, n, r)
        <4> HIDE DEF d, h, m, s
        <4>1. /\ d \in Nat /\ h \in 0..(HoursPerDay - 1) /\ m \in 0..(MinsPerHour - 1)
              /\ s \in 0..(SecsPerMin - 1)
          BY <1>3
        <4>2. now.wDay = d /\ now.wHour = h /\ now.wMinute = m /\ now.wSecond = s
          BY DEF d, h, m, s
        <4>3. /\ g.secs \in 0..(SecsPerMin - 1) /\ g.mins \in Nat \cup {-1}
              /\ g.hrs \in Nat \cup {-1} /\ (g.hrs >= 0 => g.mins >= 0)
          BY <1>5, <2>1
        <4>4. /\ HourMade(now, g) \in 0..(HoursPerDay - 1)
              /\ MinuteMade(now, g) \in 0..(MinsPerHour - 1)
          BY <2>1
        <4>5. NextMade(d, h, m, s, now, g)
          BY <4>1, <4>2, <4>3, <4>4, MadeNext
        <4>6. QED
          BY <4>5 DEF NextMade, Reads
      <3>2. second = SecondsOf(d, h, m, s) /\ second + SecsPerDay = SecondsOf(d + 1, h, m, s)
        BY <1>2, <1>3
      <3> HIDE DEF behind, T, H, M, r, d, h, m, s
      <3>3. QED
        BY <3>1, <3>2
    <2>3. T \in Nat /\ ToSysTime(T * MsPerSec) = [wDay |-> D, wHour |-> H, wMinute |-> M,
                                                  wSecond |-> r, wMilliseconds |-> 0]
      <3> HIDE DEF D, H, M, r
      <3> QED BY <1>6, <2>1, SecondsAre, FieldsAre
    <2>34. T * MsPerSec \in Nat /\ (T * MsPerSec) % MsPerSec = 0
      <3> HIDE DEF T
      <3> QED BY <2>3, WholeIs
    <2>4. t = T * MsPerSec /\ t # NoTime
      <3> HIDE DEF T
      <3> QED BY <1>7, <1>11, <2>34 DEF NoTime
    <2>5. ASSUME ~behind PROVE T = Min(ahead)
      <3>1. T \in ahead
        <4>1. Reads(ToSysTime(T * MsPerSec), g)
          <5> HIDE DEF D, H, M, T
          <5> QED BY <2>2, <2>3, <2>5 DEF Reads
        <4>2. T \in second..(second + SecsPerDay)
          <5> HIDE DEF T
          <5> QED BY <1>00, <2>2, <2>3, <2>5, ClockIs
        <4> HIDE DEF T
        <4>3. QED
          BY <4>1, <4>2
      <3>2. ASSUME NEW u \in ahead PROVE T <= u
        <4> DEFINE st == ToSysTime(u * MsPerSec)
                   e == st.wDay
                   i == st.wHour
                   n == st.wMinute
        <4>1. InRange(st) /\ u = TimeOf(st) /\ Reads(st, g) /\ second <= u
          BY <1>9
        <4> HIDE DEF st
        <4>2. /\ e \in Nat /\ i \in 0..(HoursPerDay - 1) /\ n \in 0..(MinsPerHour - 1)
              /\ g.hrs < 0 \/ i = g.hrs
              /\ g.mins < 0 \/ n = g.mins
              /\ u = SecondsOf(e, i, n, r)
          BY <4>1 DEF InRange, Reads, TimeOf
        <4> HIDE DEF e, i, n, T, H, M, D
        <4>3. QED
          BY <2>2, <2>5, <4>1, <4>2
      <3>3. ahead \subseteq Nat
        BY <1>9
      <3> DEFINE x == Min(ahead)
      <3> HIDE DEF ahead, T
      <3>4. x \in ahead /\ \A u \in ahead : x <= u
        BY <3>1, <3>3, LeastIsMin
      <3> HIDE DEF x
      <3>5. x <= T /\ T <= x /\ x \in Nat /\ T \in Nat
        BY <3>1, <3>2, <3>3, <3>4
      <3>6. T = x
        BY <3>5
      <3>7. QED
        BY <3>6 DEF x
    <2> HIDE DEF T, behind, ahead
    <2>6. timeNow <= t \/ (t = second * MsPerSec /\ Reads(now, g))
      <3>1. CASE second = T
        BY <2>2, <2>4, <3>1
      <3>2. CASE second < T
        <4>1. second * MsPerSec + MsPerSec <= T * MsPerSec
          BY <1>00, <2>3, <3>2, ClockIs, TimesMore
        <4>2. second * MsPerSec \in Nat
          BY <1>00, ClockIs, NatTimes
        <4>3. QED
          BY <1>00, <2>4, <2>34, <4>1, <4>2, ClockIs
      <3>3. QED
        BY <1>00, <2>2, <2>3, <3>1, <3>2
    <2>8. behind \/ t = MsPerSec * Min(ahead)
      <3>1. ASSUME ~behind PROVE t = MsPerSec * Min(ahead)
        <4>1. T * MsPerSec = MsPerSec * T
          BY <2>3, ClockIs
        <4>2. QED
          BY <2>4, <2>5, <3>1, <4>1
      <3>2. QED
        BY <3>1
    <2>9. t % MsPerSec = 0
      BY <2>4, <2>34
    <2>10. QED
      BY <1>8, <2>4, <2>6, <2>8, <2>9
  <1> HIDE DEF reached, ahead, behind, T, second
  <1>12. NextTime(word, t)
    BY <1>10, <1>11
  <1>13. QED
    BY <1>12 DEF t

-----------------------------------------------------------------------------
(* A word is behind a -j that is one itself, and so not an option, just    *)
(* when the word before it is a -j that stands behind none.                *)
LEMMA NotBehindAtStart ==
    ASSUME NEW w PROVE ~BehindJ(w, 1)
  BY DEF BehindJ

LEMMA RunOnce ==
    ASSUME NEW w, NEW i \in Nat, NEW n \in 0..(i - 1), NEW m \in 0..(i - 1),
           JRun(w, i, n), JRun(w, i, m)
    PROVE  n = m
  <1>1. ASSUME NEW a \in 0..(i - 1), NEW b \in 0..(i - 1), JRun(w, i, a), JRun(w, i, b), a < b
        PROVE  FALSE
    <2>1. i - a - 1 \in (i - b)..(i - 1) /\ i - a > 1
      BY <1>1
    <2>2. w[i - a - 1][1] = "-j"
      BY <1>1, <2>1 DEF JRun
    <2>3. w[i - a - 1][1] # "-j"
      BY <1>1, <2>1 DEF JRun
    <2>4. QED
      BY <2>2, <2>3
  <1>2. ~(n < m) /\ ~(m < n)
    BY <1>1
  <1>3. QED
    BY <1>2

LEMMA RunLonger ==
    ASSUME NEW w, NEW i \in Nat \ {0}, NEW n \in 0..(i - 1)
    PROVE  JRun(w, i + 1, n + 1) <=> w[i][1] = "-j" /\ JRun(w, i, n)
  <1>1. (i + 1) - (n + 1) = i - n /\ (i + 1) - 1 = i
    OBVIOUS
  <1>2. \A j \in Int : j \in (i - n)..i <=> j = i \/ j \in (i - n)..(i - 1)
    OBVIOUS
  <1>3. (\A j \in (i - n)..i : w[j][1] = "-j")
           <=> w[i][1] = "-j" /\ \A j \in (i - n)..(i - 1) : w[j][1] = "-j"
    BY <1>2
  <1>4. QED
    BY <1>1, <1>3 DEF JRun

LEMMA RunExists ==
    ASSUME NEW w, NEW i \in Nat \ {0}
    PROVE  \E n \in 0..(i - 1) : JRun(w, i, n)
  <1> DEFINE T == {m \in Nat : \E n \in 0..m : JRun(w, m + 1, n)}
  <1>1. 0 \in T
    BY DEF JRun
  <1>2. ASSUME NEW m \in Nat, m \in T PROVE m + 1 \in T
    <2>1. PICK n \in 0..m : JRun(w, m + 1, n)
      BY <1>2
    <2>2. CASE w[m + 1][1] = "-j"
      <3>1. m + 1 \in Nat \ {0} /\ n \in 0..(m + 1 - 1)
        BY <2>1
      <3>2. JRun(w, m + 1 + 1, n + 1)
        BY <2>1, <2>2, <3>1, RunLonger
      <3>3. n + 1 \in 0..(m + 1)
        OBVIOUS
      <3> HIDE DEF JRun
      <3>4. QED
        BY <3>2, <3>3
    <2>3. CASE w[m + 1][1] # "-j"
      <3>1. JRun(w, m + 1 + 1, 0)
        BY <2>3 DEF JRun
      <3>2. QED
        BY <3>1
    <2>4. QED
      BY <2>2, <2>3
  <1>3. Nat \subseteq T
    <2> HIDE DEF T
    <2> QED BY <1>1, <1>2, SetInduction
  <1>4. i - 1 \in Nat /\ i - 1 + 1 = i
    OBVIOUS
  <1>5. QED
    BY <1>3, <1>4

LEMMA BehindNext ==
    ASSUME NEW w, NEW i \in Nat \ {0}
    PROVE  BehindJ(w, i + 1) <=> w[i][1] = "-j" /\ ~BehindJ(w, i)
  <1>1. i + 1 \in Nat /\ i + 1 > 1 /\ i + 1 - 1 = i
    OBVIOUS
  <1>2. ASSUME NEW n \in 1..i PROVE JRun(w, i + 1, n) <=> w[i][1] = "-j" /\ JRun(w, i, n - 1)
    <2>1. n - 1 \in 0..(i - 1) /\ n - 1 + 1 = n
      OBVIOUS
    <2>2. JRun(w, i + 1, n - 1 + 1) <=> w[i][1] = "-j" /\ JRun(w, i, n - 1)
      BY <2>1, RunLonger
    <2>3. QED
      BY <2>1, <2>2
  <1>3. ASSUME BehindJ(w, i + 1) PROVE w[i][1] = "-j" /\ ~BehindJ(w, i)
    <2>1. PICK n \in 0..i : n % 2 = 1 /\ JRun(w, i + 1, n)
      BY <1>1, <1>3 DEF BehindJ
    <2>2. n \in 1..i /\ n - 1 \in 0..(i - 1) /\ (n - 1) % 2 = 0
      BY <2>1
    <2>3. w[i][1] = "-j" /\ JRun(w, i, n - 1)
      BY <1>2, <2>1, <2>2
    <2>4. \A m \in 0..(i - 1) : JRun(w, i, m) => m = n - 1
      BY <2>2, <2>3, RunOnce
    <2>5. QED
      BY <2>2, <2>3, <2>4 DEF BehindJ
  <1>4. ASSUME w[i][1] = "-j", ~BehindJ(w, i) PROVE BehindJ(w, i + 1)
    <2>1. PICK n \in 0..(i - 1) : JRun(w, i, n)
      BY RunExists
    <2>2. n % 2 # 1
      BY <1>4, <2>1 DEF BehindJ
    <2>3. n + 1 \in 1..i /\ n + 1 - 1 = n /\ (n + 1) % 2 = 1 /\ n + 1 \in 0..(i + 1 - 1)
      BY <2>1, <2>2
    <2>4. JRun(w, i + 1, n + 1)
      BY <1>2, <1>4, <2>1, <2>3
    <2>5. QED
      BY <2>3, <2>4 DEF BehindJ
  <1>5. QED
    BY <1>3, <1>4

(* Where config() stands in a line is no argument of the word before.      *)
Fresh(w, p) ==
    p \in DOMAIN w =>
        /\ ~BehindJ(w, p)
        /\ p > 1 => w[p - 1][1] \notin WithArgument \/ BehindJ(w, p - 1)

(* It passes over a word, or over a word and its argument.                 *)
Goes(w, p, p2) ==
    \/ p2 = p + 1 /\ w[p][1] \notin WithArgument \cup {"-j"}
    \/ p2 = p + 2 /\ w[p][1] = "-j"
    \/ /\ p2 = p + 2 /\ w[p][1] \in WithArgument
       /\ p + 1 \in DOMAIN w /\ ~IsOption(w[p + 1])

(* A word that is an argument.                                             *)
Passed(w, i) == (BehindJ(w, i) \/ ~IsOption(w[i])) /\ ~Positional(w, i)

LEMMA GoesFresh ==
    ASSUME NEW w, LineWords(w), NEW p \in DOMAIN w, NEW p2, Fresh(w, p), Goes(w, p, p2)
    PROVE  /\ p2 \in 1..(Len(w) + 2) /\ p2 > p
           /\ Fresh(w, p2)
           /\ \A i \in DOMAIN w : i < p2 => i <= p \/ Passed(w, i)
  <1>1. p \in Nat \ {0} /\ DOMAIN w = 1..Len(w) /\ Len(w) \in Nat /\ w[p] # <<>>
    BY DEF LineWords
  <1>2. BehindJ(w, p + 1) <=> w[p][1] = "-j"
    BY <1>1, BehindNext DEF Fresh
  <1>3. CASE p2 = p + 1 /\ w[p][1] \notin WithArgument \cup {"-j"}
    <2>1. p2 - 1 = p
      BY <1>1, <1>3
    <2>2. Fresh(w, p2)
      BY <1>1, <1>2, <1>3, <2>1 DEF Fresh
    <2>3. QED
      BY <1>1, <1>3, <2>2
  <1>4. CASE p2 = p + 2
    <2>1. p2 - 1 = p + 1 /\ p2 = (p + 1) + 1 /\ p + 1 \in Nat \ {0} /\ (p + 1) - 1 = p /\ p + 1 > 1
      BY <1>1, <1>4
    <2>2. BehindJ(w, p2) <=> w[p + 1][1] = "-j" /\ ~BehindJ(w, p + 1)
      BY <2>1, BehindNext
    <2>3. CASE w[p][1] = "-j"
      <3>1. BehindJ(w, p + 1) /\ ~BehindJ(w, p2)
        BY <1>2, <2>2, <2>3
      <3>2. Fresh(w, p2)
        BY <2>1, <3>1 DEF Fresh
      <3>3. Passed(w, p + 1)
        BY <3>1 DEF Passed, Positional
      <3>4. QED
        BY <1>1, <1>4, <3>2, <3>3
    <2>4. CASE w[p][1] \in WithArgument /\ p + 1 \in DOMAIN w /\ ~IsOption(w[p + 1])
      <3>1. w[p + 1] # <<>> /\ w[p + 1][1] \notin Options
        BY <2>4 DEF IsOption, LineWords
      <3>2. WithArgument \subseteq Options /\ "-j" \in Options /\ "-j" \notin WithArgument
        BY DEF WithArgument, Options, DeviceOptions, SetOptions, ValueOptions, FlagOptions
      <3>3. ~BehindJ(w, p + 1) /\ ~BehindJ(w, p2) /\ w[p + 1][1] \notin WithArgument
        BY <1>2, <2>2, <2>4, <3>1, <3>2
      <3>4. Fresh(w, p2)
        BY <2>1, <3>3 DEF Fresh
      <3>5. ~Positional(w, p + 1)
        BY <2>1, <2>4 DEF Positional, Fresh
      <3>6. Passed(w, p + 1)
        BY <2>4, <3>5 DEF Passed
      <3>7. QED
        BY <1>1, <1>4, <3>4, <3>6
    <2>5. w[p][1] = "-j" \/ (w[p][1] \in WithArgument /\ p + 1 \in DOMAIN w /\ ~IsOption(w[p + 1]))
      BY <1>1, <1>4 DEF Goes
    <2>6. QED
      BY <2>3, <2>4, <2>5
  <1>5. QED
    BY <1>3, <1>4 DEF Goes

LEMMA FreshWord ==
    ASSUME NEW w, LineWords(w), NEW p \in DOMAIN w, Fresh(w, p)
    PROVE  /\ p \in Devices(w) <=> w[p][1] \in DeviceOptions
           /\ Positional(w, p) <=> ~IsOption(w[p])
           /\ IsOption(w[p]) <=> w[p][1] \in Options
           /\ \A d, o : p \in PlacesOf(w, d, o) <=> p \in OwnOf(w, d) /\ w[p][1] = o
  <1>1. w[p] # <<>> /\ ~BehindJ(w, p)
    BY DEF LineWords, Fresh
  <1>2. p \in Devices(w) <=> w[p][1] \in DeviceOptions
    BY <1>1 DEF Devices
  <1>3. Positional(w, p) <=> ~IsOption(w[p])
    BY <1>1 DEF Positional, Fresh
  <1>4. IsOption(w[p]) <=> w[p][1] \in Options
    BY <1>1 DEF IsOption
  <1>5. QED
    BY <1>1, <1>2, <1>3, <1>4 DEF PlacesOf

(* Arguments are no devices, settings or messages.                         *)
LEMMA PassedIsNothing ==
    ASSUME NEW w, LineWords(w), NEW i \in DOMAIN w, Passed(w, i)
    PROVE  /\ i \notin Devices(w)
           /\ i \notin MessagePlaces(w)
           /\ \A d, o : o \in SetOptions => i \notin PlacesOf(w, d, o)
  <1>1. w[i] # <<>>
    BY DEF LineWords
  <1>2. DeviceOptions \subseteq Options /\ SetOptions \subseteq Options
    BY DEF Options
  <1>3. BehindJ(w, i) \/ w[i][1] \notin Options
    BY <1>1 DEF Passed, IsOption
  <1>4. i \notin Devices(w)
    BY <1>2, <1>3 DEF Devices
  <1>5. i \notin MessagePlaces(w)
    BY DEF MessagePlaces, Passed
  <1>6. \A d, o : o \in SetOptions => i \notin PlacesOf(w, d, o)
    BY <1>2, <1>3 DEF PlacesOf
  <1>7. QED
    BY <1>4, <1>5, <1>6

SetBefore(w, d, p, o) == {i \in PlacesOf(w, d, o) : i < p}
MineBefore(w, d, p)   == {i \in MessagePlaces(w) \cap OwnOf(w, d) : i < p}

LEMMA BeforeGrows ==
    ASSUME NEW w, LineWords(w), NEW p \in DOMAIN w, NEW p2, Fresh(w, p), Goes(w, p, p2),
           NEW d
    PROVE  /\ \A o \in SetOptions :
                 SetBefore(w, d, p2, o) = SetBefore(w, d, p, o) \cup
                    (IF p \in OwnOf(w, d) /\ w[p][1] = o THEN {p} ELSE {})
           /\ MineBefore(w, d, p2) = MineBefore(w, d, p) \cup
                    (IF p \in OwnOf(w, d) /\ p \in MessagePlaces(w) THEN {p} ELSE {})
           /\ \A i \in Devices(w) : i < p2 <=> i < p \/ (i = p /\ w[p][1] \in DeviceOptions)
           /\ (\A i \in 1..(p2 - 1) : i \in DOMAIN w => ~Positional(w, i))
                 <=> (\A i \in 1..(p - 1) : ~Positional(w, i)) /\ IsOption(w[p])
  <1>1. DOMAIN w = 1..Len(w) /\ Len(w) \in Nat /\ p \in Nat \ {0}
    BY DEF LineWords
  <1>2. /\ p2 \in 1..(Len(w) + 2) /\ p2 > p
        /\ \A i \in DOMAIN w : i < p2 => i <= p \/ Passed(w, i)
    BY GoesFresh
  <1>3. \A i \in DOMAIN w : i < p2 <=> i < p \/ i = p \/ (i < p2 /\ i > p)
    BY <1>1, <1>2
  <1>4. \A i \in DOMAIN w : i < p2 /\ i > p => Passed(w, i)
    BY <1>1, <1>2
  <1>5. ASSUME NEW o \in SetOptions
        PROVE  SetBefore(w, d, p2, o) = SetBefore(w, d, p, o) \cup
                    (IF p \in OwnOf(w, d) /\ w[p][1] = o THEN {p} ELSE {})
    <2>1. \A i \in PlacesOf(w, d, o) : i < p2 <=> i < p \/ i = p
      <3>1. \A i \in DOMAIN w : Passed(w, i) => i \notin PlacesOf(w, d, o)
        BY PassedIsNothing
      <3>2. PlacesOf(w, d, o) \subseteq DOMAIN w
        BY DEF PlacesOf, OwnOf
      <3>3. QED
        BY <1>3, <1>4, <3>1, <3>2
    <2>2. p \in PlacesOf(w, d, o) <=> p \in OwnOf(w, d) /\ w[p][1] = o
      BY FreshWord
    <2>3. QED
      BY <2>1, <2>2 DEF SetBefore
  <1>6. MineBefore(w, d, p2) = MineBefore(w, d, p) \cup
                    (IF p \in OwnOf(w, d) /\ p \in MessagePlaces(w) THEN {p} ELSE {})
    <2>1. \A i \in MessagePlaces(w) : i < p2 <=> i < p \/ i = p
      <3>1. \A i \in DOMAIN w : Passed(w, i) => i \notin MessagePlaces(w)
        BY PassedIsNothing
      <3>2. MessagePlaces(w) \subseteq DOMAIN w
        BY DEF MessagePlaces
      <3>3. QED
        BY <1>3, <1>4, <3>1, <3>2
    <2>2. QED
      BY <2>1 DEF MineBefore
  <1>7. \A i \in Devices(w) : i < p2 <=> i < p \/ (i = p /\ w[p][1] \in DeviceOptions)
    <2>1. \A i \in DOMAIN w : Passed(w, i) => i \notin Devices(w)
      BY PassedIsNothing
    <2>2. Devices(w) \subseteq DOMAIN w
      BY DEF Devices
    <2>3. p \in Devices(w) <=> w[p][1] \in DeviceOptions
      BY FreshWord
    <2>4. QED
      BY <1>3, <1>4, <2>1, <2>2, <2>3
  <1>8. (\A i \in 1..(p2 - 1) : i \in DOMAIN w => ~Positional(w, i))
                 <=> (\A i \in 1..(p - 1) : ~Positional(w, i)) /\ IsOption(w[p])
    <2>1. \A i \in DOMAIN w : Passed(w, i) => ~Positional(w, i)
      BY DEF Passed
    <2>2. Positional(w, p) <=> ~IsOption(w[p])
      BY FreshWord
    <2>3. \A i \in 1..(p - 1) : i \in DOMAIN w /\ i < p2 /\ i \in 1..(p2 - 1)
      BY <1>1, <1>2
    <2>4. p \in 1..(p2 - 1)
      BY <1>1, <1>2
    <2>5. \A i \in 1..(p2 - 1) : i \in DOMAIN w => i \in 1..(p - 1) \/ i = p \/ Passed(w, i)
      BY <1>1, <1>2, <1>4
    <2>6. QED
      BY <2>1, <2>2, <2>3, <2>4, <2>5
  <1>9. QED
    BY <1>5, <1>6, <1>7, <1>8

-----------------------------------------------------------------------------
(* The mode that stands before p, and the message that was made in it.     *)
SumRead(r, w, p) ==
    /\ InSumMode(w, r.from.arg, p) => r.nmea = 1
    /\ MineBefore(w, r.from.arg, p) = {} => r.message = <<>>
    /\ \A i \in MineBefore(w, r.from.arg, p) :
          InSumMode(w, r.from.arg, i) =>
              \E args : r.message = Summed(Unescape(r.text, args), 1)

(* A record has the settings and the message that stand before p.          *)
RecRead(r, w, p) ==
    /\ \A o \in SetOptions : r.set[o] = SettingAt(w, SetBefore(w, r.from.arg, p, o), o)
    /\ IF MineBefore(w, r.from.arg, p) = {}
       THEN r.text = <<>> /\ r.send = (r.device[1] = "-x")
       ELSE r.send /\ \A i \in MineBefore(w, r.from.arg, p) : r.text = w[i]
    /\ SumRead(r, w, p)

LEMMA PlacesGo ==
    ASSUME NEW w, LineWords(w), NEW p \in DOMAIN w, NEW p2, Fresh(w, p), Goes(w, p, p2)
    PROVE  p \in Int /\ p2 \in Int
  <1>1. DOMAIN w = 1..Len(w) /\ Len(w) \in Nat
    BY DEF LineWords
  <1>2. p2 \in 1..(Len(w) + 2)
    BY GoesFresh
  <1>3. QED
    BY <1>1, <1>2

LEMMA ModeOptions ==
    "-m" \in SetOptions /\ "-mx" \in SetOptions
  BY DEF SetOptions, FlagOptions

(* The mode is that of the settings before p.                              *)
LEMMA ModeBefore ==
    ASSUME NEW w, LineWords(w), NEW d, NEW p \in Int
    PROVE  InSumMode(w, d, p) <=>
              \E j \in SetBefore(w, d, p, "-m") : \A k \in SetBefore(w, d, p, "-mx") : k < j
  <1>1. \A o : \A k \in PlacesOf(w, d, o) : k \in Int
    BY DEF PlacesOf, OwnOf, LineWords
  <1>2. \A j \in PlacesOf(w, d, "-m") :
           j < p /\ (\A k \in PlacesOf(w, d, "-mx") : k < j \/ k >= p)
              <=> j < p /\ (\A k \in PlacesOf(w, d, "-mx") : k < p => k < j)
    BY <1>1
  <1>3. QED
    BY <1>2 DEF InSumMode, SetBefore

LEMMA SumKeeps ==
    ASSUME NEW w, LineWords(w), NEW p \in Int, NEW p2 \in Int,
           NEW r, SumRead(r, w, p),
           \A o \in SetOptions : SetBefore(w, r.from.arg, p2, o) = SetBefore(w, r.from.arg, p, o),
           MineBefore(w, r.from.arg, p2) = MineBefore(w, r.from.arg, p)
    PROVE  SumRead(r, w, p2)
  <1> DEFINE d == r.from.arg
  <1>1. /\ SetBefore(w, d, p2, "-m") = SetBefore(w, d, p, "-m")
        /\ SetBefore(w, d, p2, "-mx") = SetBefore(w, d, p, "-mx")
    BY ModeOptions
  <1> DEFINE D == d
  <1> HIDE DEF D
  <1>2. InSumMode(w, D, p2) <=> InSumMode(w, D, p)
    <2>1. /\ SetBefore(w, D, p2, "-m") = SetBefore(w, D, p, "-m")
          /\ SetBefore(w, D, p2, "-mx") = SetBefore(w, D, p, "-mx")
      BY <1>1 DEF D
    <2>2. QED
      BY <2>1, ModeBefore
  <1>3. QED
    BY <1>2 DEF SumRead, D

(* The option at p may set a mode.                                         *)
NmeaOf(c, n) == CASE c = "-m" -> 1 [] c = "-mx" -> 2 [] OTHER -> n

LEMMA SumSets ==
    ASSUME NEW w, LineWords(w), NEW p \in Int, NEW p2 \in Int,
           NEW r, SumRead(r, w, p), NEW c,
           \A o \in SetOptions :
              SetBefore(w, r.from.arg, p2, o) =
                 SetBefore(w, r.from.arg, p, o) \cup (IF c = o THEN {p} ELSE {}),
           MineBefore(w, r.from.arg, p2) = MineBefore(w, r.from.arg, p),
           NEW r2, r2.from = r.from, r2.text = r.text, r2.message = r.message,
           r2.nmea = NmeaOf(c, r.nmea)
    PROVE  SumRead(r2, w, p2)
  <1> DEFINE D == r.from.arg
             A(x) == SetBefore(w, D, x, "-m")
             B(x) == SetBefore(w, D, x, "-mx")
  <1>1. /\ A(p2) = A(p) \cup (IF c = "-m" THEN {p} ELSE {})
        /\ B(p2) = B(p) \cup (IF c = "-mx" THEN {p} ELSE {})
    BY ModeOptions
  <1>2. \A o : \A k \in SetBefore(w, D, p, o) : k \in Int /\ k < p
    BY DEF SetBefore, PlacesOf, OwnOf, LineWords
  <1>3. InSumMode(w, D, p) => r.nmea = 1
    BY DEF SumRead
  <1> HIDE DEF D
  <1>4. /\ InSumMode(w, D, p) <=> \E j \in A(p) : \A k \in B(p) : k < j
        /\ InSumMode(w, D, p2) <=> \E j \in A(p2) : \A k \in B(p2) : k < j
    BY ModeBefore
  <1>5. \A k \in A(p) \cup B(p) : k \in Int /\ k < p
    BY <1>2
  <1> HIDE DEF A, B
  <1>6. ASSUME InSumMode(w, D, p2) PROVE r2.nmea = 1
    <2>1. CASE c = "-m"
      BY <2>1 DEF NmeaOf
    <2>2. CASE c = "-mx"
      <3>1. A(p2) = A(p) /\ p \in B(p2)
        BY <1>1, <2>2
      <3>2. QED
        BY <1>4, <1>5, <1>6, <3>1
    <2>3. CASE c # "-m" /\ c # "-mx"
      <3>1. A(p2) = A(p) /\ B(p2) = B(p)
        BY <1>1, <2>3
      <3>2. r2.nmea = r.nmea
        BY <2>3 DEF NmeaOf
      <3>3. QED
        BY <1>3, <1>4, <1>6, <3>1, <3>2
    <2>4. QED
      BY <2>1, <2>2, <2>3
  <1>7. QED
    BY <1>6 DEF SumRead, D

LEMMA SumSends ==
    ASSUME NEW w, LineWords(w), NEW p \in Int, NEW p2 \in Int,
           NEW r, SumRead(r, w, p),
           \A o \in SetOptions : SetBefore(w, r.from.arg, p2, o) = SetBefore(w, r.from.arg, p, o),
           MineBefore(w, r.from.arg, p2) = {p},
           NEW r2, r2.from = r.from, r2.nmea = r.nmea, NEW args,
           r2.message = Summed(Unescape(r2.text, args), r.nmea)
    PROVE  SumRead(r2, w, p2)
  <1> DEFINE D == r.from.arg
  <1>1. /\ SetBefore(w, D, p2, "-m") = SetBefore(w, D, p, "-m")
        /\ SetBefore(w, D, p2, "-mx") = SetBefore(w, D, p, "-mx")
    BY ModeOptions
  <1>2. InSumMode(w, D, p) => r.nmea = 1
    BY DEF SumRead
  <1> HIDE DEF D
  <1>3. InSumMode(w, D, p2) <=> InSumMode(w, D, p)
    BY <1>1, ModeBefore
  <1>4. InSumMode(w, D, p) => \E x : r2.message = Summed(Unescape(r2.text, x), 1)
    BY <1>2
  <1>5. QED
    BY <1>2, <1>3, <1>4 DEF SumRead, D

LEMMA RecKeeps ==
    ASSUME NEW w, LineWords(w), NEW p \in DOMAIN w, NEW p2, Fresh(w, p), Goes(w, p, p2),
           NEW r, RecRead(r, w, p),
           p \in OwnOf(w, r.from.arg) => w[p][1] \notin SetOptions /\ p \notin MessagePlaces(w)
    PROVE  RecRead(r, w, p2)
  <1> DEFINE d == r.from.arg
             inOwn == p \in OwnOf(w, d)
  <1>1. inOwn => w[p][1] \notin SetOptions /\ p \notin MessagePlaces(w)
    OBVIOUS
  <1>2. /\ \A o \in SetOptions :
              SetBefore(w, d, p2, o) = SetBefore(w, d, p, o) \cup
                 (IF inOwn /\ w[p][1] = o THEN {p} ELSE {})
        /\ MineBefore(w, d, p2) = MineBefore(w, d, p) \cup
                 (IF inOwn /\ p \in MessagePlaces(w) THEN {p} ELSE {})
    <2> HIDE DEF d
    <2> QED BY BeforeGrows
  <1> HIDE DEF inOwn
  <1>3. \A o \in SetOptions : SetBefore(w, d, p2, o) = SetBefore(w, d, p, o)
    BY <1>1, <1>2
  <1>4. MineBefore(w, d, p2) = MineBefore(w, d, p)
    BY <1>1, <1>2
  <1>5. p \in Int /\ p2 \in Int
    BY PlacesGo
  <1>6. SumRead(r, w, p2)
    BY <1>3, <1>4, <1>5, SumKeeps DEF RecRead
  <1>7. QED
    BY <1>3, <1>4, <1>6 DEF RecRead

(* What the option at p sets: itself, or its argument.                     *)
WordFor(w, p, o) == w[p + IF o \in FlagOptions THEN 0 ELSE 1]

(* The last of several settings of a kind holds.                           *)
LEMMA LastSetting ==
    ASSUME NEW w, NEW R, NEW p \in R, \A i \in R : i \in Int /\ i <= p, NEW o
    PROVE  SettingAt(w, R, o) = WordFor(w, p, o)
  <1>1. Max(R) = p
    <2>1. \A x \in R : (\A y \in R : x >= y) => x = p
      OBVIOUS
    <2>2. \A y \in R : p >= y
      OBVIOUS
    <2>3. QED
      BY <2>1, <2>2 DEF Max
  <1>2. QED
    BY <1>1 DEF SettingAt, WordFor

OneSetting(r, r2, w, p) ==
    /\ \A o \in SetOptions : r2.set[o] = IF o = w[p][1] THEN WordFor(w, p, o) ELSE r.set[o]
    /\ r2.nmea = NmeaOf(w[p][1], r.nmea) /\ r2.message = r.message

LEMMA RecSets ==
    ASSUME NEW w, LineWords(w), NEW p \in DOMAIN w, NEW p2, Fresh(w, p), Goes(w, p, p2),
           NEW r, RecRead(r, w, p), p \in OwnOf(w, r.from.arg),
           w[p][1] \in SetOptions, NEW r2, r2.from = r.from, r2.device = r.device,
           r2.text = r.text, r2.send = r.send,
           OneSetting(r, r2, w, p)
    PROVE  RecRead(r2, w, p2)
  <1> DEFINE d == r.from.arg
  <1>1. IsOption(w[p]) /\ p \notin MessagePlaces(w)
    <2>1. SetOptions \subseteq Options
      BY DEF Options
    <2>2. QED
      BY <2>1, FreshWord DEF MessagePlaces
  <1>2. MineBefore(w, d, p2) = MineBefore(w, d, p)
    <2>1. MineBefore(w, d, p2) = MineBefore(w, d, p) \cup
              (IF p \in OwnOf(w, d) /\ p \in MessagePlaces(w) THEN {p} ELSE {})
      <3> HIDE DEF d
      <3> QED BY BeforeGrows
    <2>2. QED
      BY <1>1, <2>1
  <1>3. ASSUME NEW o \in SetOptions
        PROVE  r2.set[o] = SettingAt(w, SetBefore(w, d, p2, o), o)
    <2>1. SetBefore(w, d, p2, o) = SetBefore(w, d, p, o) \cup (IF w[p][1] = o THEN {p} ELSE {})
      <3>1. p \in OwnOf(w, d)
        OBVIOUS
      <3> HIDE DEF d
      <3> QED BY <3>1, BeforeGrows
    <2>2. r.set[o] = SettingAt(w, SetBefore(w, d, p, o), o)
      BY DEF RecRead
    <2>3. CASE w[p][1] = o
      <3> DEFINE R == SetBefore(w, d, p, o) \cup {p}
      <3>1. p \in R /\ \A i \in R : i \in Int /\ i <= p
        BY DEF SetBefore, PlacesOf, OwnOf, LineWords
      <3>2. SetBefore(w, d, p2, o) = R
        BY <2>1, <2>3
      <3>3. r2.set[o] = WordFor(w, p, o)
        BY <2>3 DEF OneSetting
      <3> HIDE DEF R
      <3>4. SettingAt(w, R, o) = WordFor(w, p, o)
        BY <3>1, LastSetting
      <3>5. QED
        BY <3>2, <3>3, <3>4
    <2>4. CASE w[p][1] # o
      BY <2>1, <2>2, <2>4 DEF OneSetting
    <2>5. QED
      BY <2>3, <2>4
  <1>4. p \in Int /\ p2 \in Int
    BY PlacesGo
  <1>5. SumRead(r2, w, p2)
    <2> DEFINE c == w[p][1]
    <2>1. \A o \in SetOptions :
             SetBefore(w, d, p2, o) = SetBefore(w, d, p, o) \cup (IF c = o THEN {p} ELSE {})
      <3>1. p \in OwnOf(w, d)
        OBVIOUS
      <3> HIDE DEF d
      <3> QED BY <3>1, BeforeGrows
    <2>2. r2.nmea = NmeaOf(c, r.nmea) /\ r2.message = r.message
      BY DEF OneSetting
    <2> HIDE DEF c
    <2>3. QED
      BY <1>2, <1>4, <2>1, <2>2, SumSets DEF RecRead
  <1>6. QED
    BY <1>2, <1>3, <1>5 DEF RecRead

LEMMA RecSends ==
    ASSUME NEW w, LineWords(w), NEW p \in DOMAIN w, NEW p2, Fresh(w, p), Goes(w, p, p2),
           NEW r, RecRead(r, w, p), p \in OwnOf(w, r.from.arg),
           p \in MessagePlaces(w), NEW r2, r2.from = r.from, r2.set = r.set,
           r2.text = w[p], r2.send = TRUE, r2.nmea = r.nmea, NEW args,
           r2.message = Summed(Unescape(r2.text, args), r.nmea)
    PROVE  RecRead(r2, w, p2)
  <1> DEFINE d == r.from.arg
  <1>1. w[p][1] \notin SetOptions
    <2>1. SetOptions \subseteq Options
      BY DEF Options
    <2>2. QED
      BY <2>1, FreshWord DEF MessagePlaces
  <1>2. /\ \A o \in SetOptions :
              SetBefore(w, d, p2, o) = SetBefore(w, d, p, o) \cup
                 (IF p \in OwnOf(w, d) /\ w[p][1] = o THEN {p} ELSE {})
        /\ MineBefore(w, d, p2) = MineBefore(w, d, p) \cup
                 (IF p \in OwnOf(w, d) /\ p \in MessagePlaces(w) THEN {p} ELSE {})
    <2> HIDE DEF d
    <2> QED BY BeforeGrows
  <1>3. MineBefore(w, d, p) = {}
    <2>1. \A i \in DOMAIN w : i < p => i \in 1..(p - 1)
      BY DEF LineWords
    <2>2. QED
      BY <2>1 DEF MineBefore, MessagePlaces
  <1>4. MineBefore(w, d, p2) = {p}
    BY <1>2, <1>3
  <1>5. \A o \in SetOptions : SetBefore(w, d, p2, o) = SetBefore(w, d, p, o)
    <2> SUFFICES ASSUME NEW o \in SetOptions
                 PROVE  SetBefore(w, d, p2, o) = SetBefore(w, d, p, o)
      OBVIOUS
    <2> HIDE DEF d
    <2>1. w[p][1] # o
      BY <1>1
    <2>2. SetBefore(w, d, p2, o) = SetBefore(w, d, p, o) \cup
             (IF p \in OwnOf(w, d) /\ w[p][1] = o THEN {p} ELSE {})
      BY <1>2
    <2> DEFINE A == SetBefore(w, d, p, o)
               B == SetBefore(w, d, p2, o)
    <2> HIDE DEF A, B
    <2>3. B = A \cup {}
      BY <2>1, <2>2 DEF A, B
    <2>4. QED
      BY <2>3 DEF A, B
  <1>6. \A o \in SetOptions : r2.set[o] = SettingAt(w, SetBefore(w, d, p2, o), o)
    BY <1>5 DEF RecRead
  <1>7. r2.send /\ \A i \in MineBefore(w, d, p2) : r2.text = w[i]
    BY <1>4
  <1>8. p \in Int /\ p2 \in Int
    BY PlacesGo
  <1>9. SumRead(r2, w, p2)
    BY <1>4, <1>5, <1>8, SumSends DEF RecRead
  <1>10. QED
    BY <1>4, <1>6, <1>7, <1>9 DEF RecRead

LEMMA RecNew ==
    ASSUME NEW w, LineWords(w), NEW p \in DOMAIN w, NEW p2, Fresh(w, p), Goes(w, p, p2),
           w[p][1] \in DeviceOptions,
           NEW r, r.from.arg = p, \A o \in SetOptions : r.set[o] = <<>>,
           r.text = <<>>, r.send = (r.device[1] = "-x"), r.message = <<>>
    PROVE  RecRead(r, w, p2)
  <1>1. w[p][1] \notin SetOptions /\ w[p][1] \in Options
    BY DEF SetOptions, DeviceOptions, FlagOptions, ValueOptions, Options
  <1>2. p \notin MessagePlaces(w)
    BY <1>1, FreshWord DEF MessagePlaces
  <1>3. \A i \in OwnOf(w, p) : ~(i < p)
    BY DEF OwnOf, LineWords
  <1>4. MineBefore(w, p, p) = {} /\ \A o : SetBefore(w, p, p, o) = {}
    BY <1>3 DEF MineBefore, SetBefore, PlacesOf
  <1>5. MineBefore(w, p, p2) = {}
    BY <1>2, <1>4, BeforeGrows
  <1>6. \A o \in SetOptions : SetBefore(w, p, p2, o) = {}
    BY <1>1, <1>4, BeforeGrows
  <1>7. SumRead(r, w, p2)
    <2>1. p2 \in Int
      BY PlacesGo
    <2>2. SetBefore(w, p, p2, "-m") = {}
      BY <1>6, ModeOptions
    <2>3. ~InSumMode(w, p, p2)
      BY <2>1, <2>2, ModeBefore
    <2>4. QED
      BY <1>5, <2>3 DEF SumRead
  <1>8. QED
    BY <1>5, <1>6, <1>7 DEF RecRead, SettingAt

-----------------------------------------------------------------------------
(* Line n is read up to p: every device has its record, and every record   *)
(* what stands behind its device.                                          *)
LineRead(n, w, p, recs) ==
    /\ \A d \in Devices(w) : d < p =>
          \E q \in DOMAIN recs : recs[q].from.line = n /\ recs[q].from.arg = d
    /\ \A q \in DOMAIN recs : recs[q].from.line = n =>
          recs[q].from.arg \in Devices(w) /\ recs[q].from.arg < p /\ RecRead(recs[q], w, p)

(* k is the record of the last device of line n before p, if any.          *)
Current(k, n, w, p, recs) ==
    IF k = Unset THEN \A j \in Devices(w) : ~(j < p)
    ELSE /\ k \in DOMAIN recs /\ recs[k].from.line = n
         /\ recs[k].from.arg \in Devices(w) /\ recs[k].from.arg < p
         /\ \A j \in Devices(w) : j < p => j <= recs[k].from.arg

OneEach(recs) ==
    \A q1, q2 \in DOMAIN recs :
        /\ recs[q1].from.line = recs[q2].from.line
        /\ recs[q1].from.arg = recs[q2].from.arg
        => q1 = q2

(* A word that is no device leaves the last device as it is.               *)
LEMMA SameDevices ==
    ASSUME NEW w, LineWords(w), NEW p \in DOMAIN w, NEW p2, Fresh(w, p), Goes(w, p, p2),
           w[p][1] \notin DeviceOptions
    PROVE  \A i \in Devices(w) : i < p2 <=> i < p
  BY BeforeGrows

LEMMA CurrentKept ==
    ASSUME NEW w, LineWords(w), NEW p \in DOMAIN w, NEW p2, Fresh(w, p), Goes(w, p, p2),
           w[p][1] \notin DeviceOptions, NEW n, NEW recs, NEW recs2, NEW k,
           Current(k, n, w, p, recs), DOMAIN recs2 = DOMAIN recs,
           \A q \in DOMAIN recs : recs2[q].from = recs[q].from
    PROVE  Current(k, n, w, p2, recs2)
  <1>1. \A i \in Devices(w) : i < p2 <=> i < p
    BY SameDevices
  <1>2. QED
    BY <1>1 DEF Current

(* What stands at p belongs to the record of the last device.              *)
LEMMA CurrentOwns ==
    ASSUME NEW w, LineWords(w), NEW p \in DOMAIN w, Fresh(w, p),
           w[p][1] \notin DeviceOptions, NEW n, NEW recs, NEW k, k # Unset,
           Current(k, n, w, p, recs)
    PROVE  /\ p \in OwnOf(w, recs[k].from.arg)
           /\ \A d \in Devices(w) : d < p /\ d # recs[k].from.arg => p \notin OwnOf(w, d)
  <1> DEFINE c == recs[k].from.arg
  <1>1. c \in Devices(w) /\ c < p /\ \A j \in Devices(w) : j < p => j <= c
    BY DEF Current
  <1>2. p \notin Devices(w) /\ p \in Nat /\ Devices(w) \subseteq Nat
    BY FreshWord DEF Devices, LineWords
  <1> HIDE DEF c
  <1>3. \A j \in Devices(w) : j > c => p < j
    BY <1>1, <1>2
  <1>4. p \in OwnOf(w, c)
    BY <1>1, <1>2, <1>3 DEF OwnOf
  <1>5. ASSUME NEW d \in Devices(w), d < p, d # c PROVE p \notin OwnOf(w, d)
    <2>1. c > d /\ ~(p < c)
      BY <1>1, <1>2, <1>5
    <2>2. QED
      BY <1>1, <2>1 DEF OwnOf
  <1>6. QED
    BY <1>4, <1>5 DEF c

(* A word that is no device, no setting and no message.                    *)
LEMMA LineKept ==
    ASSUME NEW w, LineWords(w), NEW p \in DOMAIN w, NEW p2, Fresh(w, p), Goes(w, p, p2),
           w[p][1] \notin DeviceOptions, w[p][1] \notin SetOptions, p \notin MessagePlaces(w),
           NEW n, NEW recs, LineRead(n, w, p, recs)
    PROVE  LineRead(n, w, p2, recs)
  <1>1. \A i \in Devices(w) : i < p2 <=> i < p
    BY SameDevices
  <1>2. \A q \in DOMAIN recs : RecRead(recs[q], w, p) => RecRead(recs[q], w, p2)
    BY RecKeeps
  <1>3. QED
    BY <1>1, <1>2 DEF LineRead

(* A setting, or the message, of the last device's record.                 *)
LEMMA LineChanged ==
    ASSUME NEW w, LineWords(w), NEW p \in DOMAIN w, NEW p2, Fresh(w, p), Goes(w, p, p2),
           w[p][1] \notin DeviceOptions,
           NEW n, NEW recs, NEW recs2, NEW k, k # Unset,
           LineRead(n, w, p, recs), Current(k, n, w, p, recs), OneEach(recs),
           DOMAIN recs2 = DOMAIN recs,
           \A q \in DOMAIN recs : q # k => recs2[q] = recs[q],
           recs2[k].from = recs[k].from, RecRead(recs2[k], w, p2)
    PROVE  LineRead(n, w, p2, recs2)
  <1>1. \A i \in Devices(w) : i < p2 <=> i < p
    BY SameDevices
  <1>2. k \in DOMAIN recs /\ recs[k].from.line = n
    BY DEF Current
  <1>3. \A q \in DOMAIN recs : recs2[q].from = recs[q].from
    OBVIOUS
  <1>4. ASSUME NEW q \in DOMAIN recs, recs[q].from.line = n
        PROVE  RecRead(recs2[q], w, p2)
    <2>1. CASE q = k
      BY <2>1
    <2>2. CASE q # k
      <3>1. recs[q].from.arg # recs[k].from.arg
        BY <1>2, <1>4, <2>2 DEF OneEach
      <3>2. RecRead(recs[q], w, p) /\ recs[q].from.arg \in Devices(w) /\ recs[q].from.arg < p
        BY <1>4 DEF LineRead
      <3>3. \A d \in Devices(w) : d < p /\ d # recs[k].from.arg => p \notin OwnOf(w, d)
        BY CurrentOwns
      <3>4. p \notin OwnOf(w, recs[q].from.arg)
        BY <3>1, <3>2, <3>3
      <3> DEFINE r == recs[q]
      <3>5. RecRead(r, w, p) /\ p \notin OwnOf(w, r.from.arg)
        BY <3>2, <3>4
      <3> HIDE DEF r
      <3>6. RecRead(r, w, p2)
        BY <3>5, RecKeeps
      <3>7. QED
        BY <2>2, <3>6 DEF r
    <2>3. QED
      BY <2>1, <2>2
  <1>5. QED
    BY <1>1, <1>3, <1>4 DEF LineRead

(* A device.                                                               *)
LEMMA LineNew ==
    ASSUME NEW w, LineWords(w), NEW p \in DOMAIN w, NEW p2, Fresh(w, p), Goes(w, p, p2),
           w[p][1] \in DeviceOptions,
           NEW n, NEW recs, NEW recs2, NEW k, k # Unset, LineRead(n, w, p, recs),
           DOMAIN recs2 = DOMAIN recs \cup {k}, k \notin DOMAIN recs,
           \A q \in DOMAIN recs : recs2[q] = recs[q],
           recs2[k].from.line = n, recs2[k].from.arg = p, RecRead(recs2[k], w, p2)
    PROVE  LineRead(n, w, p2, recs2) /\ Current(k, n, w, p2, recs2)
  <1>1. \A i \in Devices(w) : i < p2 <=> i < p \/ i = p
    BY BeforeGrows
  <1>2. p \in Devices(w) /\ p \in Nat
    BY FreshWord DEF LineWords
  <1>3. w[p][1] \notin SetOptions /\ p \notin MessagePlaces(w)
    <2>1. w[p][1] \notin SetOptions /\ w[p][1] \in Options
      BY DEF SetOptions, DeviceOptions, FlagOptions, ValueOptions, Options
    <2>2. QED
      BY <2>1, FreshWord DEF MessagePlaces
  <1>4. \A q \in DOMAIN recs : RecRead(recs[q], w, p) => RecRead(recs[q], w, p2)
    BY <1>3, RecKeeps
  <1>5. p < p2
    BY <1>1, <1>2
  <1>6. LineRead(n, w, p2, recs2)
    <2>1. ASSUME NEW d \in Devices(w), d < p2
          PROVE  \E q \in DOMAIN recs2 : recs2[q].from.line = n /\ recs2[q].from.arg = d
      <3>1. CASE d = p
        BY <3>1
      <3>2. CASE d < p
        BY <3>2 DEF LineRead
      <3>3. QED
        BY <1>1, <2>1, <3>1, <3>2
    <2>2. ASSUME NEW q \in DOMAIN recs2, recs2[q].from.line = n
          PROVE  recs2[q].from.arg \in Devices(w) /\ recs2[q].from.arg < p2 /\ RecRead(recs2[q], w, p2)
      <3>1. CASE q = k
        BY <1>2, <1>5, <3>1
      <3>2. CASE q # k
        <4>1. q \in DOMAIN recs /\ recs2[q] = recs[q]
          BY <3>2
        <4>2. recs[q].from.arg \in Devices(w) /\ recs[q].from.arg < p /\ RecRead(recs[q], w, p)
          BY <2>2, <4>1 DEF LineRead
        <4>3. QED
          BY <1>1, <1>4, <4>1, <4>2
      <3>3. QED
        BY <3>1, <3>2
    <2>3. QED
      BY <2>1, <2>2 DEF LineRead
  <1>7. Current(k, n, w, p2, recs2)
    <2>1. \A j \in Devices(w) : j < p2 => j <= p
      BY <1>1, <1>2 DEF Devices, LineWords
    <2>2. QED
      BY <1>2, <1>5, <2>1 DEF Current
  <1>8. QED
    BY <1>6, <1>7

-----------------------------------------------------------------------------
Sequence(s) == \E S : s \in Seq(S)

LEMMA SequenceIs ==
    ASSUME NEW s, Sequence(s)
    PROVE  Len(s) \in Nat /\ DOMAIN s = 1..Len(s) /\ (s = <<>> <=> Len(s) = 0)
  <1>1. PICK S : s \in Seq(S)
    BY DEF Sequence
  <1>2. QED
    BY <1>1

LEMMA AppendIs ==
    ASSUME NEW s, Sequence(s), NEW x
    PROVE  /\ Sequence(Append(s, x)) /\ DOMAIN Append(s, x) = DOMAIN s \cup {Len(s) + 1}
           /\ Len(Append(s, x)) = Len(s) + 1 /\ Len(s) + 1 \notin DOMAIN s
           /\ \A i \in DOMAIN s : Append(s, x)[i] = s[i]
           /\ Append(s, x)[Len(s) + 1] = x
  <1>1. PICK S : s \in Seq(S)
    BY DEF Sequence
  <1> DEFINE V == S \cup {x}
  <1>2. s \in Seq(V)
    BY <1>1
  <1>3. x \in V
    OBVIOUS
  <1> HIDE DEF V
  <1>4. Append(s, x) \in Seq(V) /\ Len(Append(s, x)) = Len(s) + 1
    BY <1>2, <1>3, AppendProperties
  <1>5. Len(s) \in Nat /\ DOMAIN s = 1..Len(s) /\ DOMAIN Append(s, x) = 1..(Len(s) + 1)
    BY <1>2, <1>4
  <1>6. \A i \in 1..Len(s) : Append(s, x)[i] = s[i]
    BY <1>2, <1>3, AppendProperties
  <1>7. Append(s, x)[Len(s) + 1] = x
    BY <1>2, <1>3, AppendProperties
  <1>8. QED
    BY <1>4, <1>5, <1>6, <1>7 DEF Sequence

LEMMA FrontIs ==
    ASSUME NEW s, Sequence(s), s # <<>>
    PROVE  /\ Sequence(Front(s)) /\ Len(Front(s)) = Len(s) - 1
           /\ DOMAIN Front(s) = 1..(Len(s) - 1)
           /\ \A i \in 1..(Len(s) - 1) : Front(s)[i] = s[i]
  <1>1. PICK S : s \in Seq(S)
    BY DEF Sequence
  <1>2. Len(s) \in Nat /\ Len(s) # 0 /\ DOMAIN s = 1..Len(s)
    BY <1>1
  <1>3. Front(s) = SubSeq(s, 1, Len(s) - 1)
    BY DEF Front
  <1>4. \A i \in 1..(Len(s) - 1) : s[i] \in S
    BY <1>1, <1>2
  <1>5. /\ SubSeq(s, 1, Len(s) - 1) \in Seq(S)
        /\ Len(SubSeq(s, 1, Len(s) - 1)) = Len(s) - 1
        /\ \A i \in 1..(Len(s) - 1) : SubSeq(s, 1, Len(s) - 1)[i] = s[i]
    <2> DEFINE n == Len(s) - 1
    <2>1. n \in Nat
      BY <1>2
    <2> HIDE DEF n
    <2>2. /\ SubSeq(s, 1, n) \in Seq(S)
          /\ Len(SubSeq(s, 1, n)) = IF 1 <= n THEN n - 1 + 1 ELSE 0
          /\ \A i \in 1..(n - 1 + 1) : SubSeq(s, 1, n)[i] = s[1 + i - 1]
      <3>1. \A i \in 1..n : s[i] \in S
        BY <1>4 DEF n
      <3>2. 1 \in Int /\ n \in Int
        BY <2>1
      <3>3. QED
        BY <3>1, <3>2, SubSeqProperties
    <2>3. n - 1 + 1 = n /\ (~(1 <= n) => n = 0) /\ \A i \in 1..n : 1 + i - 1 = i
      BY <2>1
    <2>4. Len(SubSeq(s, 1, n)) = n
      BY <2>2, <2>3
    <2>5. \A i \in 1..n : SubSeq(s, 1, n)[i] = s[i]
      BY <2>2, <2>3
    <2>6. QED
      BY <2>2, <2>4, <2>5 DEF n
  <1>7. Front(s) \in Seq(S) /\ Len(Front(s)) = Len(s) - 1
    BY <1>3, <1>5
  <1>8. Sequence(Front(s)) /\ DOMAIN Front(s) = 1..(Len(s) - 1)
    <2>1. Sequence(Front(s))
      BY <1>7 DEF Sequence
    <2>2. DOMAIN Front(s) = 1..Len(Front(s))
      BY <2>1, SequenceIs
    <2>3. QED
      BY <1>7, <2>1, <2>2
  <1>9. \A i \in 1..(Len(s) - 1) : Front(s)[i] = s[i]
    BY <1>3, <1>5
  <1>10. QED
    BY <1>7, <1>8, <1>9

LEMMA OntoIs ==
    ASSUME NEW s, Sequence(s), s # <<>>, NEW x
    PROVE  /\ Sequence(Front(s) \o <<x>>) /\ DOMAIN (Front(s) \o <<x>>) = DOMAIN s
           /\ Len(Front(s) \o <<x>>) = Len(s) /\ Len(s) \in DOMAIN s
           /\ \A i \in DOMAIN s :
                 (Front(s) \o <<x>>)[i] = IF i = Len(s) THEN x ELSE s[i]
  <1> DEFINE b == Front(s)
             t == Append(b, x)
  <1>1. Len(s) \in Nat \ {0} /\ DOMAIN s = 1..Len(s)
    BY SequenceIs
  <1>2. /\ Sequence(b) /\ Len(b) = Len(s) - 1 /\ DOMAIN b = 1..(Len(s) - 1)
        /\ \A i \in 1..(Len(s) - 1) : b[i] = s[i]
    BY FrontIs
  <1> HIDE DEF b
  <1>3. b \o <<x>> = t
    <2>1. PICK S : b \in Seq(S)
      BY <1>2 DEF Sequence
    <2> DEFINE V == S \cup {x}
    <2>2. b \in Seq(V) /\ x \in V
      BY <2>1
    <2> HIDE DEF V
    <2>3. QED
      BY <2>2, AppendIsConcat
  <1>4. /\ Sequence(t) /\ DOMAIN t = DOMAIN b \cup {Len(b) + 1} /\ Len(t) = Len(b) + 1
        /\ \A i \in DOMAIN b : t[i] = b[i]
        /\ t[Len(b) + 1] = x
    BY <1>2, AppendIs
  <1> HIDE DEF t
  <1>5. Len(b) + 1 = Len(s) /\ DOMAIN t = DOMAIN s /\ Len(s) \in DOMAIN s
    BY <1>1, <1>2, <1>4
  <1>6. \A i \in DOMAIN s : t[i] = IF i = Len(s) THEN x ELSE s[i]
    BY <1>1, <1>2, <1>4, <1>5
  <1>7. QED
    BY <1>3, <1>4, <1>5, <1>6 DEF b

-----------------------------------------------------------------------------
(* A call stands in its line, where the line's records have been read up   *)
(* to; the lines that no call stands in are read to their ends.            *)
FrameOK(f, lns, recs, pos) ==
    /\ f = [line |-> f.line, words |-> f.words, arg |-> f.arg, argParam |-> f.argParam,
            newQ |-> f.newQ, reading |-> f.reading, file |-> f.file]
    /\ f.line \in DOMAIN lns /\ f.words = lns[f.line].words /\ f.arg = pos[f.line]
    /\ f.arg \in 1..(Len(f.words) + 2) /\ Fresh(f.words, f.arg)
    /\ f.argParam \in Nat
    /\ f.argParam = 0 <=>
          \A i \in 1..(f.arg - 1) : i \in DOMAIN f.words => ~Positional(f.words, i)
    /\ Current(f.newQ, f.line, f.words, f.arg, recs)
    /\ f.file \in Seq(FileRows)

RecForm(r) ==
    /\ r = [device |-> r.device, from |-> r.from, set |-> r.set, first |-> r.first,
            last |-> r.last, period |-> r.period, nmea |-> r.nmea, send |-> r.send,
            message |-> r.message, text |-> r.text]
    /\ r.from = [line |-> r.from.line, arg |-> r.from.arg]
    /\ r.set = [o \in SetOptions |-> r.set[o]]

RecsOK(recs, lns) ==
    /\ Sequence(recs) /\ OneEach(recs)
    /\ \A q \in DOMAIN recs : RecForm(recs[q]) /\ recs[q].from.line \in DOMAIN lns

LinesOK(lns, recs, pos) ==
    /\ Sequence(lns) /\ pos \in [DOMAIN lns -> Nat]
    /\ \A n \in DOMAIN lns : /\ LineWords(lns[n].words)
                             /\ LineRead(n, lns[n].words, pos[n], recs)

StackOK(stk, lns, recs, pos) ==
    /\ Sequence(stk) /\ stk # <<>>
    /\ \A k \in DOMAIN stk : FrameOK(stk[k], lns, recs, pos)
    /\ \A j, k \in DOMAIN stk : stk[j].line = stk[k].line => j = k
    /\ \A n \in DOMAIN lns :
          (\A k \in DOMAIN stk : stk[k].line # n) => pos[n] > Len(lns[n].words)

Reading(stk, lns, recs, pos) ==
    RecsOK(recs, lns) /\ LinesOK(lns, recs, pos) /\ StackOK(stk, lns, recs, pos)

(* Records of line m alone are made or changed.                            *)
OnlyOf(m, recs, recs2) ==
    /\ \A q \in DOMAIN recs : q \in DOMAIN recs2 /\ recs2[q].from = recs[q].from
    /\ \A q \in DOMAIN recs2 :
          recs2[q].from.line # m => q \in DOMAIN recs /\ recs2[q] = recs[q]

(* The innermost call goes on in its line.                                 *)
LEMMA Moves ==
    ASSUME NEW stk, NEW lns, NEW recs, NEW pos, Reading(stk, lns, recs, pos),
           NEW t, t = stk[Len(stk)], NEW f, f.line = t.line,
           NEW pos2, pos2 = [pos EXCEPT ![t.line] = f.arg],
           NEW recs2, RecsOK(recs2, lns),
           OnlyOf(t.line, recs, recs2),
           FrameOK(f, lns, recs2, pos2),
           LineRead(t.line, lns[t.line].words, f.arg, recs2)
    PROVE  Reading(Front(stk) \o <<f>>, lns, recs2, pos2)
  <1> DEFINE s2 == Front(stk) \o <<f>>
             m == t.line
  <1>1. Sequence(stk) /\ stk # <<>>
    BY DEF Reading, StackOK
  <1>2. /\ Sequence(s2) /\ DOMAIN s2 = DOMAIN stk /\ Len(s2) = Len(stk) /\ Len(stk) \in DOMAIN stk
        /\ \A i \in DOMAIN stk : s2[i] = IF i = Len(stk) THEN f ELSE stk[i]
    BY <1>1, OntoIs
  <1>3. Len(stk) # 0 /\ (s2 = <<>> <=> Len(s2) = 0)
    BY <1>1, <1>2, SequenceIs
  <1> HIDE DEF s2
  <1>4. s2 # <<>>
    BY <1>2, <1>3
  <1>5. m \in DOMAIN lns /\ pos = [n \in DOMAIN lns |-> pos[n]]
    BY <1>2 DEF Reading, StackOK, FrameOK, LinesOK
  <1>6. pos2 = [n \in DOMAIN lns |-> IF n = m THEN f.arg ELSE pos[n]]
    BY <1>5
  <1>7. \A j, k \in DOMAIN stk : stk[j].line = stk[k].line => j = k
    BY DEF Reading, StackOK
  <1>8. \A k \in DOMAIN stk : s2[k].line = stk[k].line
    BY <1>2
  <1>9. ASSUME NEW k \in DOMAIN s2 PROVE FrameOK(s2[k], lns, recs2, pos2)
    <2>1. CASE k = Len(stk)
      BY <1>2, <2>1
    <2>2. CASE k # Len(stk)
      <3>1. FrameOK(stk[k], lns, recs, pos) /\ s2[k] = stk[k]
        BY <1>2, <2>2 DEF Reading, StackOK
      <3>2. stk[k].line # m
        BY <1>2, <1>7, <2>2
      <3> DEFINE g == stk[k]
      <3> HIDE DEF g
      <3>3. g.line \in DOMAIN lns /\ pos2[g.line] = pos[g.line]
        BY <1>6, <3>1, <3>2 DEF FrameOK, g
      <3>4. Current(g.newQ, g.line, g.words, g.arg, recs) => Current(g.newQ, g.line, g.words, g.arg, recs2)
        BY DEF Current, OnlyOf
      <3>5. FrameOK(g, lns, recs2, pos2)
        BY <3>1, <3>3, <3>4 DEF FrameOK, g
      <3>6. QED
        BY <3>1, <3>5 DEF g
    <2>3. QED
      BY <2>1, <2>2
  <1>10. ASSUME NEW n \in DOMAIN lns, \A k \in DOMAIN s2 : s2[k].line # n
         PROVE  pos2[n] > Len(lns[n].words)
    <2>1. \A k \in DOMAIN stk : stk[k].line # n
      BY <1>2, <1>8, <1>10
    <2>2. n # m
      BY <1>2, <2>1
    <2>3. pos[n] > Len(lns[n].words)
      BY <2>1 DEF Reading, StackOK
    <2>4. QED
      BY <1>6, <2>2, <2>3
  <1>11. StackOK(s2, lns, recs2, pos2)
    BY <1>2, <1>4, <1>7, <1>8, <1>9, <1>10 DEF StackOK
  <1>12. ASSUME NEW n \in DOMAIN lns
         PROVE  LineWords(lns[n].words) /\ LineRead(n, lns[n].words, pos2[n], recs2)
    <2>1. LineWords(lns[n].words) /\ LineRead(n, lns[n].words, pos[n], recs)
      BY DEF Reading, LinesOK
    <2>2. CASE n = m
      BY <1>6, <2>1, <2>2
    <2>3. CASE n # m
      <3> DEFINE w == lns[n].words
      <3> HIDE DEF w
      <3>1. pos2[n] = pos[n]
        BY <1>6, <2>3
      <3>2. LineRead(n, w, pos[n], recs) => LineRead(n, w, pos[n], recs2)
        BY <2>3 DEF LineRead, OnlyOf
      <3>3. QED
        BY <2>1, <3>1, <3>2 DEF w
    <2>4. QED
      BY <2>2, <2>3
  <1>13. LinesOK(lns, recs2, pos2)
    <2>1. f.arg \in Nat
      <3>1. f.arg \in 1..(Len(f.words) + 2)
        BY DEF FrameOK
      <3>2. QED
        BY <3>1
    <2>2. pos2 \in [DOMAIN lns -> Nat]
      BY <1>6, <2>1 DEF Reading, LinesOK
    <2>3. QED
      BY <1>12, <2>2 DEF Reading, LinesOK
  <1>14. QED
    BY <1>11, <1>13 DEF Reading, s2

LEMMA Advances ==
    ASSUME NEW stk, NEW lns, NEW recs, NEW pos, Reading(stk, lns, recs, pos),
           NEW t, t = stk[Len(stk)], t.arg \in DOMAIN t.words,
           NEW f, f.line = t.line, f.words = t.words, Goes(t.words, t.arg, f.arg),
           f = [line |-> f.line, words |-> f.words, arg |-> f.arg, argParam |-> f.argParam,
                newQ |-> f.newQ, reading |-> f.reading, file |-> f.file],
           f.argParam \in Nat,
           f.argParam = 0 <=> t.argParam = 0 /\ IsOption(t.words[t.arg]),
           f.file \in Seq(FileRows),
           NEW recs2, RecsOK(recs2, lns),
           OnlyOf(t.line, recs, recs2),
           Current(f.newQ, t.line, t.words, f.arg, recs2),
           LineRead(t.line, t.words, f.arg, recs2)
    PROVE  \E pos2 : Reading(Front(stk) \o <<f>>, lns, recs2, pos2)
  <1> DEFINE w == t.words
             p == t.arg
             pos2 == [pos EXCEPT ![t.line] = f.arg]
  <1>1. FrameOK(t, lns, recs, pos)
    <2>1. Sequence(stk) /\ stk # <<>>
      BY DEF Reading, StackOK
    <2>2. Len(stk) \in DOMAIN stk
      BY <2>1, OntoIs
    <2>3. QED
      BY <2>2 DEF Reading, StackOK
  <1>2. t.line \in DOMAIN lns /\ w = lns[t.line].words /\ Fresh(w, p)
    BY <1>1 DEF FrameOK
  <1>3. LineWords(w) /\ pos = [n \in DOMAIN lns |-> pos[n]]
    BY <1>2 DEF Reading, LinesOK
  <1>4. pos2[t.line] = f.arg
    BY <1>2, <1>3
  <1>5. p \in DOMAIN w /\ Goes(w, p, f.arg)
    OBVIOUS
  <1>6. t.argParam = 0 <=> \A i \in 1..(p - 1) : i \in DOMAIN w => ~Positional(w, i)
    BY <1>1 DEF FrameOK
  <1> HIDE DEF w, p, pos2
  <1>7. f.arg \in 1..(Len(w) + 2) /\ Fresh(w, f.arg)
    BY <1>2, <1>3, <1>5, GoesFresh
  <1>8. (\A i \in 1..(f.arg - 1) : i \in DOMAIN w => ~Positional(w, i))
            <=> (\A i \in 1..(p - 1) : ~Positional(w, i)) /\ IsOption(w[p])
    BY <1>2, <1>3, <1>5, BeforeGrows
  <1>9. \A i \in 1..(p - 1) : i \in DOMAIN w
    BY <1>3, <1>5 DEF LineWords
  <1>10. f.argParam = 0 <=> \A i \in 1..(f.arg - 1) : i \in DOMAIN w => ~Positional(w, i)
    BY <1>6, <1>8, <1>9 DEF w, p
  <1>11. FrameOK(f, lns, recs2, pos2)
    BY <1>2, <1>4, <1>7, <1>10 DEF FrameOK, w
  <1>12. LineRead(t.line, lns[t.line].words, f.arg, recs2)
    BY <1>2 DEF w
  <1>13. pos2 = [pos EXCEPT ![t.line] = f.arg]
    BY DEF pos2
  <1>14. Reading(Front(stk) \o <<f>>, lns, recs2, pos2)
    <2>1. /\ OnlyOf(t.line, recs, recs2) /\ f.line = t.line /\ t = stk[Len(stk)]
          /\ Reading(stk, lns, recs, pos) /\ RecsOK(recs2, lns)
      OBVIOUS
    <2>2. QED
      BY ONLY <1>11, <1>12, <1>13, <2>1, Moves
  <1>15. QED
    BY <1>14

(* It begins to read a file, takes a line of it, or ends it.               *)
LEMMA Stays ==
    ASSUME NEW stk, NEW lns, NEW recs, NEW pos, Reading(stk, lns, recs, pos),
           NEW t, t = stk[Len(stk)], NEW f,
           f = [line |-> t.line, words |-> t.words, arg |-> t.arg, argParam |-> t.argParam,
                newQ |-> t.newQ, reading |-> f.reading, file |-> f.file],
           f.file \in Seq(FileRows)
    PROVE  Reading(Front(stk) \o <<f>>, lns, recs, pos)
  <1>1. FrameOK(t, lns, recs, pos)
    <2>1. Sequence(stk) /\ stk # <<>>
      BY DEF Reading, StackOK
    <2>2. Len(stk) \in DOMAIN stk
      BY <2>1, OntoIs
    <2>3. QED
      BY <2>2 DEF Reading, StackOK
  <1>2. FrameOK(f, lns, recs, pos)
    <2>1. /\ f.line = t.line /\ f.words = t.words /\ f.arg = t.arg /\ f.argParam = t.argParam
          /\ f.newQ = t.newQ
      OBVIOUS
    <2>2. f = [line |-> f.line, words |-> f.words, arg |-> f.arg, argParam |-> f.argParam,
               newQ |-> f.newQ, reading |-> f.reading, file |-> f.file]
      OBVIOUS
    <2>3. QED
      BY <1>1, <2>1, <2>2 DEF FrameOK
  <1>3. /\ f.line = t.line /\ t.line \in DOMAIN lns /\ f.arg = pos[t.line]
        /\ pos = [n \in DOMAIN lns |-> pos[n]]
    BY <1>1 DEF FrameOK, Reading, LinesOK
  <1>4. pos = [pos EXCEPT ![t.line] = f.arg]
    BY <1>3
  <1>5. LineRead(t.line, lns[t.line].words, f.arg, recs)
    BY <1>3 DEF Reading, LinesOK
  <1>6. RecsOK(recs, lns)
    BY DEF Reading
  <1>7. OnlyOf(t.line, recs, recs)
    BY DEF OnlyOf
  <1>8. f.line = t.line
    BY <1>3
  <1>9. QED
    BY <1>2, <1>4, <1>5, <1>6, <1>7, <1>8, Moves

LEMMA FrameAtStart ==
    ASSUME NEW n, NEW lns, n \in DOMAIN lns, LineWords(lns[n].words),
           NEW recs, NEW pos, pos[n] = 1
    PROVE  FrameOK(Frame(n, lns[n].words), lns, recs, pos)
  <1> DEFINE w == lns[n].words
  <1>1. Len(w) \in Nat /\ DOMAIN w = 1..Len(w)
    BY DEF LineWords
  <1> HIDE DEF w
  <1>2. 1 \in 1..(Len(w) + 2)
    BY <1>1
  <1>3. Fresh(w, 1)
    BY NotBehindAtStart DEF Fresh
  <1>4. \A i \in 1..(1 - 1) : i \in DOMAIN w => ~Positional(w, i)
    OBVIOUS
  <1>5. \A j \in Devices(w) : ~(j < 1)
    BY <1>1 DEF Devices
  <1>6. <<>> \in Seq(FileRows)
    BY EmptySeq
  <1>7. Current(Unset, n, w, 1, recs)
    BY <1>5 DEF Current
  <1> DEFINE f == Frame(n, w)
  <1>8. /\ f = [line |-> f.line, words |-> f.words, arg |-> f.arg, argParam |-> f.argParam,
                newQ |-> f.newQ, reading |-> f.reading, file |-> f.file]
        /\ f.line = n /\ f.words = w /\ f.arg = 1 /\ f.argParam = 0 /\ f.newQ = Unset
        /\ f.file = <<>>
    BY DEF Frame
  <1> HIDE DEF f
  <1>9. FrameOK(f, lns, recs, pos)
    BY <1>2, <1>3, <1>4, <1>6, <1>7, <1>8 DEF FrameOK, w
  <1>10. QED
    BY <1>9 DEF f, w

(* The call for a new line.                                                *)
LEMMA Enters ==
    ASSUME NEW stk, NEW lns, NEW recs, NEW pos, Reading(stk, lns, recs, pos),
           NEW line, LineWords(line.words), NEW lns2, lns2 = Append(lns, line)
    PROVE  \E pos2 : Reading(Append(stk, Frame(Len(lns2), line.words)), lns2, recs, pos2)
  <1> DEFINE N == Len(lns) + 1
             pos2 == [n \in DOMAIN lns2 |-> IF n = N THEN 1 ELSE pos[n]]
             g == Frame(N, line.words)
             s2 == Append(stk, g)
  <1>1. Sequence(lns) /\ Sequence(stk) /\ stk # <<>>
    BY DEF Reading, LinesOK, StackOK
  <1>2. /\ Sequence(lns2) /\ DOMAIN lns2 = DOMAIN lns \cup {N} /\ Len(lns2) = N
        /\ N \notin DOMAIN lns
        /\ \A i \in DOMAIN lns : lns2[i] = lns[i]
        /\ lns2[N] = line
    BY <1>1, AppendIs
  <1>3. /\ Sequence(s2) /\ DOMAIN s2 = DOMAIN stk \cup {Len(stk) + 1}
        /\ Len(s2) = Len(stk) + 1 /\ Len(stk) + 1 \notin DOMAIN stk
        /\ \A i \in DOMAIN stk : s2[i] = stk[i]
        /\ s2[Len(stk) + 1] = g
    BY <1>1, AppendIs
  <1>4. s2 # <<>>
    <2>1. Len(s2) # 0
      BY <1>1, <1>3, SequenceIs
    <2> HIDE DEF s2
    <2>2. QED
      BY <1>3, <2>1, SequenceIs
  <1>5. Len(lns2) = N
    BY <1>2
  <1> HIDE DEF N, s2
  <1>6. /\ pos2[N] = 1 /\ \A n \in DOMAIN lns : pos2[n] = pos[n]
        /\ pos2 \in [DOMAIN lns2 -> Nat]
    BY <1>2 DEF Reading, LinesOK
  <1> HIDE DEF pos2
  <1>7. FrameOK(g, lns2, recs, pos2)
    BY <1>2, <1>6, FrameAtStart
  <1>8. g.line = N
    BY DEF Frame
  <1> HIDE DEF g
  <1>9. ASSUME NEW k \in DOMAIN stk
        PROVE  FrameOK(s2[k], lns2, recs, pos2) /\ s2[k].line # N
    <2> DEFINE f == stk[k]
    <2>1. FrameOK(f, lns, recs, pos)
      BY DEF Reading, StackOK
    <2> HIDE DEF f
    <2>2. f.line \in DOMAIN lns /\ f.line # N
      BY <1>2, <2>1 DEF FrameOK
    <2>3. lns2[f.line] = lns[f.line] /\ pos2[f.line] = pos[f.line] /\ f.line \in DOMAIN lns2
      BY <1>2, <1>6, <2>2
    <2>4. FrameOK(f, lns2, recs, pos2)
      BY <2>1, <2>3 DEF FrameOK
    <2>5. QED
      BY <1>3, <2>2, <2>4 DEF f
  <1>10. \A j, k \in DOMAIN s2 : s2[j].line = s2[k].line => j = k
    <2>1. \A j, k \in DOMAIN stk : stk[j].line = stk[k].line => j = k
      BY DEF Reading, StackOK
    <2>2. QED
      BY <1>3, <1>8, <1>9, <2>1
  <1>11. ASSUME NEW n \in DOMAIN lns2, \A k \in DOMAIN s2 : s2[k].line # n
         PROVE  pos2[n] > Len(lns2[n].words)
    <2>1. n # N
      BY <1>3, <1>8, <1>11
    <2>2. n \in DOMAIN lns /\ \A k \in DOMAIN stk : stk[k].line # n
      BY <1>2, <1>3, <1>11, <2>1
    <2>3. pos[n] > Len(lns[n].words)
      BY <2>2 DEF Reading, StackOK
    <2>4. QED
      BY <1>2, <1>6, <2>2, <2>3
  <1>12. StackOK(s2, lns2, recs, pos2)
    <2>1. \A k \in DOMAIN s2 : FrameOK(s2[k], lns2, recs, pos2)
      BY <1>3, <1>7, <1>9
    <2>2. QED
      BY <1>3, <1>4, <1>10, <1>11, <2>1 DEF StackOK
  <1>13. \A q \in DOMAIN recs : recs[q].from.line \in DOMAIN lns
    BY DEF Reading, RecsOK
  <1>14. ASSUME NEW n \in DOMAIN lns2
         PROVE  LineWords(lns2[n].words) /\ LineRead(n, lns2[n].words, pos2[n], recs)
    <2>1. CASE n = N
      <3>1. \A d \in Devices(line.words) : ~(d < 1)
        BY DEF Devices, LineWords
      <3>2. \A q \in DOMAIN recs : recs[q].from.line # N
        BY <1>2, <1>13
      <3>3. LineRead(N, line.words, 1, recs)
        BY <3>1, <3>2 DEF LineRead
      <3>4. QED
        BY <1>2, <1>6, <2>1, <3>3
    <2>2. CASE n # N
      <3>1. n \in DOMAIN lns
        BY <1>2, <2>2
      <3>2. LineWords(lns[n].words) /\ LineRead(n, lns[n].words, pos[n], recs)
        BY <3>1 DEF Reading, LinesOK
      <3>3. QED
        BY <1>2, <1>6, <3>1, <3>2
    <2>3. QED
      BY <2>1, <2>2
  <1>15. LinesOK(lns2, recs, pos2)
    BY <1>2, <1>6, <1>14 DEF LinesOK
  <1>16. RecsOK(recs, lns2)
    BY <1>2 DEF Reading, RecsOK
  <1>17. Reading(s2, lns2, recs, pos2)
    BY <1>12, <1>15, <1>16 DEF Reading
  <1>18. QED
    BY <1>5, <1>17 DEF s2, g

(* A call that has no more words returns.                                  *)
LEMMA Leaves ==
    ASSUME NEW stk, NEW lns, NEW recs, NEW pos, Reading(stk, lns, recs, pos),
           Len(stk) # 1, stk[Len(stk)].arg > Len(stk[Len(stk)].words)
    PROVE  Reading(Front(stk), lns, recs, pos)
  <1> DEFINE s2 == Front(stk)
             t == stk[Len(stk)]
  <1>1. Sequence(stk) /\ stk # <<>>
    BY DEF Reading, StackOK
  <1>2. /\ Sequence(s2) /\ Len(s2) = Len(stk) - 1 /\ DOMAIN s2 = 1..(Len(stk) - 1)
        /\ \A i \in 1..(Len(stk) - 1) : s2[i] = stk[i]
    BY <1>1, FrontIs
  <1>3. Len(stk) \in Nat /\ Len(stk) # 0 /\ DOMAIN stk = 1..Len(stk)
    BY <1>1, SequenceIs
  <1> HIDE DEF s2
  <1>4. s2 # <<>>
    BY <1>2, <1>3, SequenceIs
  <1>5. \A k \in DOMAIN s2 : s2[k] = stk[k] /\ k \in DOMAIN stk /\ FrameOK(stk[k], lns, recs, pos)
    BY <1>2, <1>3 DEF Reading, StackOK
  <1>6. \A j, k \in DOMAIN s2 : s2[j].line = s2[k].line => j = k
    BY <1>5 DEF Reading, StackOK
  <1>7. ASSUME NEW n \in DOMAIN lns, \A k \in DOMAIN s2 : s2[k].line # n
        PROVE  pos[n] > Len(lns[n].words)
    <2>1. CASE t.line = n
      <3>1. FrameOK(t, lns, recs, pos)
        BY <1>3 DEF Reading, StackOK
      <3>2. t.arg = pos[n] /\ t.words = lns[n].words
        BY <2>1, <3>1 DEF FrameOK
      <3>3. QED
        BY <3>2
    <2>2. CASE t.line # n
      <3>1. \A k \in DOMAIN stk : stk[k].line # n
        <4> SUFFICES ASSUME NEW k \in DOMAIN stk PROVE stk[k].line # n
          OBVIOUS
        <4>1. CASE k = Len(stk)
          BY <2>2, <4>1
        <4>2. CASE k # Len(stk)
          <5>1. k \in DOMAIN s2
            BY <1>2, <1>3, <4>2
          <5>2. QED
            BY <1>5, <1>7, <5>1
        <4>3. QED
          BY <4>1, <4>2
      <3>2. QED
        BY <3>1 DEF Reading, StackOK
    <2>3. QED
      BY <2>1, <2>2
  <1>8. StackOK(s2, lns, recs, pos)
    BY <1>2, <1>4, <1>5, <1>6, <1>7 DEF StackOK
  <1>9. QED
    BY <1>8 DEF Reading, s2

(* The call for the command line.                                          *)
LEMMA Begins ==
    ASSUME NEW w, LineWords(w), NEW row
    PROVE  \E pos : Reading(<<Frame(1, w)>>, <<[words |-> w, row |-> row]>>, <<>>, pos)
  <1> DEFINE g == Frame(1, w)
             line == [words |-> w, row |-> row]
             stk == <<g>>
             lns == <<line>>
             pos == [n \in DOMAIN lns |-> 1]
  <1>1. Sequence(stk) /\ Sequence(lns) /\ Sequence(<<>>)
    <2>1. stk \in Seq({g}) /\ lns \in Seq({line}) /\ <<>> \in Seq({g})
      <3> HIDE DEF g, line
      <3> QED OBVIOUS
    <2>2. QED
      BY <2>1 DEF Sequence
  <1>2. /\ DOMAIN stk = {1} /\ stk[1] = g /\ stk # <<>>
        /\ DOMAIN lns = {1} /\ lns[1] = line /\ DOMAIN <<>> = {}
    <2> HIDE DEF g, line
    <2> QED OBVIOUS
  <1>3. line.words = w
    OBVIOUS
  <1>4. g.line = 1
    BY DEF Frame
  <1>5. pos \in [DOMAIN lns -> Nat] /\ pos[1] = 1
    BY <1>2
  <1> HIDE DEF stk, lns, g, line, pos
  <1>6. FrameOK(g, lns, <<>>, pos)
    BY <1>2, <1>3, <1>5, FrameAtStart DEF g
  <1>7. StackOK(stk, lns, <<>>, pos)
    BY <1>1, <1>2, <1>4, <1>6 DEF StackOK
  <1>8. LineRead(1, w, 1, <<>>)
    <2>1. \A d \in Devices(w) : ~(d < 1)
      BY DEF Devices, LineWords
    <2>2. QED
      BY <1>2, <2>1 DEF LineRead
  <1>9. LinesOK(lns, <<>>, pos)
    BY <1>1, <1>2, <1>3, <1>5, <1>8 DEF LinesOK
  <1>10. RecsOK(<<>>, lns)
    BY <1>1, <1>2 DEF RecsOK, OneEach
  <1>11. Reading(stk, lns, <<>>, pos)
    BY <1>7, <1>9, <1>10 DEF Reading
  <1>12. QED
    BY <1>11 DEF stk, lns, g, line

(* When the call for the command line has no more words, every line is read*)
(* to its end.                                                             *)
LEMMA AllRead ==
    ASSUME NEW stk, NEW lns, NEW recs, NEW pos, Reading(stk, lns, recs, pos),
           Len(stk) = 1, stk[1].arg > Len(stk[1].words)
    PROVE  \A n \in DOMAIN lns :
              /\ LineWords(lns[n].words)
              /\ LineRead(n, lns[n].words, pos[n], recs)
              /\ pos[n] > Len(lns[n].words) /\ pos[n] \in Nat
  <1>1. DOMAIN stk = {1}
    <2>1. Sequence(stk)
      BY DEF Reading, StackOK
    <2>2. QED
      BY <2>1, SequenceIs
  <1>2. FrameOK(stk[1], lns, recs, pos)
    BY <1>1 DEF Reading, StackOK
  <1>3. ASSUME NEW n \in DOMAIN lns PROVE pos[n] > Len(lns[n].words)
    <2>1. CASE stk[1].line = n
      <3>1. stk[1].arg = pos[n] /\ stk[1].words = lns[n].words
        BY <1>2, <2>1 DEF FrameOK
      <3>2. QED
        BY <3>1
    <2>2. CASE stk[1].line # n
      BY <1>1, <2>2 DEF Reading, StackOK
    <2>3. QED
      BY <2>1, <2>2
  <1>4. QED
    BY <1>3 DEF Reading, LinesOK

LEMMA ReadToEnd ==
    ASSUME NEW w, LineWords(w), NEW p, p > Len(w), p \in Nat, NEW d
    PROVE  /\ \A o : SetBefore(w, d, p, o) = PlacesOf(w, d, o)
           /\ MineBefore(w, d, p) = MessagePlaces(w) \cap OwnOf(w, d)
           /\ \A i \in Devices(w) : i < p
  <1>1. \A i \in DOMAIN w : i < p
    BY DEF LineWords
  <1>2. Devices(w) \subseteq DOMAIN w /\ MessagePlaces(w) \subseteq DOMAIN w
    BY DEF Devices, MessagePlaces
  <1>3. \A o : PlacesOf(w, d, o) \subseteq DOMAIN w
    BY DEF PlacesOf, OwnOf
  <1>4. QED
    BY <1>1, <1>2, <1>3 DEF SetBefore, MineBefore

LEMMA AsGiven ==
    ASSUME NEW pos, Reading(stack, lines, records, pos),
           Len(stack) = 1, stack[1].arg > Len(stack[1].words)
    PROVE  RecordsAsGiven
  <1>1. \A n \in DOMAIN lines :
              /\ LineWords(lines[n].words)
              /\ LineRead(n, lines[n].words, pos[n], records)
              /\ pos[n] > Len(lines[n].words) /\ pos[n] \in Nat
    BY AllRead
  <1>2. \A n \in DOMAIN lines : \A i \in Devices(lines[n].words) : i < pos[n]
    <2>1. ASSUME NEW n \in DOMAIN lines, NEW i \in Devices(lines[n].words) PROVE i < pos[n]
      <3> DEFINE w == lines[n].words
      <3>1. LineWords(w) /\ pos[n] > Len(w) /\ pos[n] \in Nat
        BY <1>1
      <3> HIDE DEF w
      <3>2. \A j \in Devices(w) : j < pos[n]
        BY <3>1, ReadToEnd
      <3>3. QED
        BY <3>2 DEF w
    <2>2. QED
      BY <2>1
  <1>3. \A q \in DOMAIN records : RecForm(records[q]) /\ records[q].from.line \in DOMAIN lines
    BY DEF Reading, RecsOK
  <1>4. {q.from : q \in ToSet(records)} =
              UNION {{[line |-> n, arg |-> i] : i \in Devices(lines[n].words)} :
                        n \in DOMAIN lines}
    <2>1. ASSUME NEW r \in ToSet(records)
          PROVE  \E n \in DOMAIN lines : \E i \in Devices(lines[n].words) :
                    r.from = [line |-> n, arg |-> i]
      <3>1. PICK q \in DOMAIN records : r = records[q]
        BY DEF ToSet
      <3>2. r.from = [line |-> r.from.line, arg |-> r.from.arg] /\ r.from.line \in DOMAIN lines
        BY <1>3, <3>1 DEF RecForm
      <3>3. r.from.arg \in Devices(lines[r.from.line].words)
        BY <1>1, <3>1, <3>2 DEF LineRead
      <3>4. QED
        BY <3>2, <3>3
    <2>2. ASSUME NEW n \in DOMAIN lines, NEW i \in Devices(lines[n].words)
          PROVE  \E r \in ToSet(records) : r.from = [line |-> n, arg |-> i]
      <3>1. PICK q \in DOMAIN records : records[q].from.line = n /\ records[q].from.arg = i
        <4> DEFINE w == lines[n].words
                   p == pos[n]
        <4>1. LineRead(n, w, p, records) /\ i \in Devices(w) /\ i < p
          BY <1>1, <1>2
        <4> HIDE DEF w, p
        <4>2. QED
          BY <4>1 DEF LineRead
      <3>2. records[q].from = [line |-> n, arg |-> i] /\ records[q] \in ToSet(records)
        BY <1>3, <3>1 DEF RecForm, ToSet
      <3>3. QED
        BY <3>2
    <2> DEFINE A == {q.from : q \in ToSet(records)}
               C(n) == {[line |-> n, arg |-> i] : i \in Devices(lines[n].words)}
               B == UNION {C(n) : n \in DOMAIN lines}
    <2>3. ASSUME NEW x \in A PROVE x \in B
      <3>1. PICK r \in ToSet(records) : x = r.from
        OBVIOUS
      <3>2. PICK n \in DOMAIN lines : \E i \in Devices(lines[n].words) :
                    x = [line |-> n, arg |-> i]
        BY <2>1, <3>1
      <3>3. x \in C(n)
        BY <3>2
      <3> HIDE DEF C
      <3>4. QED
        BY <3>3
    <2>4. ASSUME NEW x \in B PROVE x \in A
      BY <2>2
    <2> HIDE DEF A, B
    <2>5. A = B
      BY <2>3, <2>4
    <2>6. QED
      BY <2>5 DEF A, B
  <1>5. ASSUME NEW r \in ToSet(records)
        PROVE  /\ \A o \in SetOptions : r.set[o] = SetTo(r, o)
               /\ LET mine == MessagePlaces(LineOf(r)) \cap Own(r)
                  IN  IF mine = {} THEN r.text = <<>> /\ r.send = (r.device[1] = "-x")
                      ELSE r.send /\ \A i \in mine : r.text = LineOf(r)[i]
    <2>1. PICK q \in DOMAIN records : r = records[q]
      BY DEF ToSet
    <2> DEFINE n == r.from.line
               d == r.from.arg
               w == lines[n].words
               p == pos[n]
    <2>2. n \in DOMAIN lines
      BY <1>3, <2>1
    <2>3. LineWords(w) /\ p > Len(w) /\ RecRead(r, w, p)
      BY <1>1, <2>1, <2>2 DEF LineRead
    <2>4. p \in Nat
      BY <1>1, <2>2
    <2>5. LineOf(r) = w
      BY DEF LineOf
    <2> HIDE DEF w, p
    <2> DEFINE D == d
    <2> HIDE DEF D
    <2>6. /\ \A o : SetBefore(w, D, p, o) = PlacesOf(w, D, o)
          /\ MineBefore(w, D, p) = MessagePlaces(w) \cap OwnOf(w, D)
      BY <2>3, <2>4, ReadToEnd
    <2>7. \A o \in SetOptions : r.set[o] = SettingAt(w, PlacesOf(w, D, o), o)
      BY <2>3, <2>6 DEF RecRead, D
    <2>8. LET mine == MessagePlaces(w) \cap OwnOf(w, D)
          IN  IF mine = {} THEN r.text = <<>> /\ r.send = (r.device[1] = "-x")
              ELSE r.send /\ \A i \in mine : r.text = w[i]
      BY <2>3, <2>6 DEF RecRead, D
    <2>9. QED
      BY <2>5, <2>7, <2>8 DEF SetTo, Places, Own, D
  <1>6. QED
    BY <1>4, <1>5 DEF RecordsAsGiven

-----------------------------------------------------------------------------
LEMMA TopIs ==
    ASSUME NEW pos, Reading(stack, lines, records, pos)
    PROVE  /\ Top = stack[Len(stack)]
           /\ FrameOK(Top, lines, records, pos)
           /\ LineWords(Top.words) /\ Top.line \in DOMAIN lines
           /\ LineRead(Top.line, Top.words, Top.arg, records)
           /\ RecsOK(records, lines)
  <1>1. Top = stack[Len(stack)]
    BY DEF Top, Last
  <1>2. Sequence(stack) /\ stack # <<>>
    BY DEF Reading, StackOK
  <1>3. Len(stack) \in DOMAIN stack
    BY <1>2, OntoIs
  <1> DEFINE t == Top
  <1>4. FrameOK(t, lines, records, pos)
    BY <1>1, <1>3 DEF Reading, StackOK
  <1> HIDE DEF t
  <1>5. t.line \in DOMAIN lines /\ t.words = lines[t.line].words /\ t.arg = pos[t.line]
    BY <1>4 DEF FrameOK
  <1>6. LineWords(t.words) /\ LineRead(t.line, t.words, t.arg, records)
    BY <1>5 DEF Reading, LinesOK
  <1>7. RecsOK(records, lines)
    BY DEF Reading
  <1>8. QED
    BY <1>1, <1>4, <1>5, <1>6, <1>7 DEF t

LEMMA WordIs ==
    /\ Word # <<>> => Top.arg \in DOMAIN Top.words /\ Word = Top.words[Top.arg]
    /\ Argument # <<>> =>
          Top.arg + 1 \in DOMAIN Top.words /\ Argument = Top.words[Top.arg + 1]
  BY DEF Word, Argument, WordAt

(* What the steps that make or set no record have in common.               *)
LEMMA GoesOn ==
    ASSUME NEW pos, Reading(stack, lines, records, pos), Word # <<>>,
           Word[1] \notin DeviceOptions, Word[1] \notin SetOptions,
           Top.arg \notin MessagePlaces(Top.words),
           NEW p2, Goes(Top.words, Top.arg, p2), NEW a \in Nat,
           a = 0 <=> Top.argParam = 0 /\ IsOption(Word),
           NEW b, NEW file \in Seq(FileRows), NEW f,
           f = [line |-> Top.line, words |-> Top.words, arg |-> p2, argParam |-> a,
                newQ |-> Top.newQ, reading |-> b, file |-> file]
    PROVE  \E pos2 : Reading(Onto(f), lines, records, pos2)
  <1> DEFINE t == Top
             w == t.words
             p == t.arg
             n == t.line
  <1>1. /\ t = stack[Len(stack)] /\ FrameOK(t, lines, records, pos)
        /\ LineWords(w) /\ n \in DOMAIN lines
        /\ LineRead(n, w, p, records) /\ RecsOK(records, lines)
    BY TopIs
  <1>2. p \in DOMAIN w /\ Word = w[p]
    BY WordIs
  <1>3. Fresh(w, p) /\ Current(t.newQ, n, w, p, records)
    BY <1>1 DEF FrameOK
  <1>4. /\ f.line = n /\ f.words = w /\ f.arg = p2 /\ f.argParam = a /\ f.newQ = t.newQ
        /\ f.file = file
        /\ f = [line |-> f.line, words |-> f.words, arg |-> f.arg, argParam |-> f.argParam,
                newQ |-> f.newQ, reading |-> f.reading, file |-> f.file]
    OBVIOUS
  <1>5. /\ Goes(w, p, p2) /\ w[p][1] \notin DeviceOptions /\ w[p][1] \notin SetOptions
        /\ p \notin MessagePlaces(w) /\ (a = 0 <=> t.argParam = 0 /\ IsOption(w[p]))
    BY <1>2
  <1>6. a \in Nat /\ file \in Seq(FileRows) /\ Reading(stack, lines, records, pos)
    OBVIOUS
  <1> DEFINE k == t.newQ
  <1> HIDE DEF w, p, n, k
  <1>7. LineRead(n, w, p2, records)
    BY <1>1, <1>2, <1>3, <1>5, LineKept
  <1>8. Current(k, n, w, p2, records)
    <2>1. Current(k, n, w, p, records)
      BY <1>3 DEF k
    <2>2. QED
      BY <1>1, <1>2, <1>3, <1>5, <2>1, CurrentKept
  <1>9. OnlyOf(n, records, records)
    BY DEF OnlyOf
  <1>10. f.words = t.words /\ f.line = t.line /\ t.arg \in DOMAIN t.words
    BY <1>2, <1>4 DEF w, n, p
  <1>11. Goes(t.words, t.arg, f.arg) /\ f.argParam \in Nat /\ f.file \in Seq(FileRows)
    BY <1>4, <1>5, <1>6 DEF w, p
  <1>12. f.argParam = 0 <=> t.argParam = 0 /\ IsOption(t.words[t.arg])
    BY <1>4, <1>5 DEF w, p
  <1>13. /\ OnlyOf(t.line, records, records)
         /\ Current(f.newQ, t.line, t.words, f.arg, records)
         /\ LineRead(t.line, t.words, f.arg, records)
    BY <1>4, <1>7, <1>8, <1>9 DEF w, n, k
  <1> HIDE DEF t
  <1>14. \E pos2 : Reading(Front(stack) \o <<f>>, lines, records, pos2)
    BY ONLY <1>1, <1>4, <1>6, <1>10, <1>11, <1>12, <1>13, Advances
  <1>15. QED
    BY <1>14 DEF Onto

(* A device's record, or a change of the call's record.                    *)
LEMMA RecordsOn ==
    ASSUME NEW pos, Reading(stack, lines, records, pos), Word # <<>>,
           NEW p2, Goes(Top.words, Top.arg, p2), NEW a \in Nat,
           a = 0 <=> Top.argParam = 0 /\ IsOption(Word),
           NEW k, NEW recs2, RecsOK(recs2, lines), OnlyOf(Top.line, records, recs2),
           Current(k, Top.line, Top.words, p2, recs2),
           LineRead(Top.line, Top.words, p2, recs2), NEW f,
           f = [line |-> Top.line, words |-> Top.words, arg |-> p2, argParam |-> a,
                newQ |-> k, reading |-> Top.reading, file |-> Top.file]
    PROVE  \E pos2 : Reading(Onto(f), lines, recs2, pos2)
  <1> DEFINE t == Top
  <1>1. t = stack[Len(stack)] /\ FrameOK(t, lines, records, pos)
    BY TopIs
  <1>2. t.arg \in DOMAIN t.words /\ Word = t.words[t.arg]
    BY WordIs
  <1>3. /\ f.line = t.line /\ f.words = t.words /\ f.arg = p2 /\ f.argParam = a /\ f.newQ = k
        /\ f.file = t.file
        /\ f = [line |-> f.line, words |-> f.words, arg |-> f.arg, argParam |-> f.argParam,
                newQ |-> f.newQ, reading |-> f.reading, file |-> f.file]
    OBVIOUS
  <1>4. f.argParam \in Nat /\ f.file \in Seq(FileRows) /\ Goes(t.words, t.arg, f.arg)
    BY <1>1, <1>3 DEF FrameOK
  <1>5. f.argParam = 0 <=> t.argParam = 0 /\ IsOption(t.words[t.arg])
    BY <1>2, <1>3
  <1>6. /\ OnlyOf(t.line, records, recs2) /\ RecsOK(recs2, lines)
        /\ Current(f.newQ, t.line, t.words, f.arg, recs2)
        /\ LineRead(t.line, t.words, f.arg, recs2)
        /\ Reading(stack, lines, records, pos)
    BY <1>3
  <1> HIDE DEF t
  <1>7. \E pos2 : Reading(Front(stack) \o <<f>>, lines, recs2, pos2)
    BY ONLY <1>1, <1>2, <1>3, <1>4, <1>5, <1>6, Advances
  <1>8. QED
    BY <1>7 DEF Onto

LEMMA OptionSets ==
    /\ DeviceOptions \cap SetOptions = {}
    /\ DeviceOptions \subseteq Options /\ SetOptions \subseteq Options
    /\ FlagOptions \cap ValueOptions = {} /\ FlagOptions \cap WithArgument = {}
    /\ ValueOptions \subseteq WithArgument /\ DeviceOptions \subseteq WithArgument
    /\ WithArgument \subseteq Options
    /\ {"-j", "-F"} \cap (DeviceOptions \cup SetOptions) = {}
    /\ "-F" \in WithArgument /\ "-j" \notin WithArgument /\ {"-j", "-F"} \subseteq Options
    /\ (MainOptions \cup {"-z"}) \cap (WithArgument \cup SetOptions \cup {"-j"}) = {}
    /\ MainOptions \cup {"-z"} \subseteq Options
  BY DEF DeviceOptions, SetOptions, FlagOptions, ValueOptions, MainOptions, WithArgument, Options

LEMMA OptionIsNoMessage ==
    ASSUME NEW pos, Reading(stack, lines, records, pos), Word # <<>>, IsOption(Word)
    PROVE  Top.arg \notin MessagePlaces(Top.words) /\ Word[1] \in Options
  <1> DEFINE t == Top
             w == t.words
             p == t.arg
  <1>1. LineWords(w) /\ FrameOK(t, lines, records, pos)
    BY TopIs
  <1>2. p \in DOMAIN w /\ Word = w[p]
    BY WordIs
  <1>3. Fresh(w, p)
    BY <1>1 DEF FrameOK
  <1>4. IsOption(w[p])
    BY <1>2
  <1> HIDE DEF w, p
  <1>5. p \notin MessagePlaces(w)
    BY <1>1, <1>2, <1>3, <1>4, FreshWord DEF MessagePlaces
  <1>6. QED
    BY <1>5 DEF w, p, t, IsOption

(* A record of the frame's fields, as EXCEPT makes it.                     *)
LEMMA TopForm ==
    ASSUME NEW pos, Reading(stack, lines, records, pos)
    PROVE  /\ Top = [line |-> Top.line, words |-> Top.words, arg |-> Top.arg,
                     argParam |-> Top.argParam, newQ |-> Top.newQ,
                     reading |-> Top.reading, file |-> Top.file]
           /\ Top.argParam \in Nat /\ Top.file \in Seq(FileRows) /\ Top.arg \in Nat
  <1> DEFINE t == Top
  <1>1. FrameOK(t, lines, records, pos)
    BY TopIs
  <1> HIDE DEF t
  <1>2. t.arg \in 1..(Len(t.words) + 2)
    BY <1>1 DEF FrameOK
  <1>3. QED
    BY <1>1, <1>2 DEF FrameOK, t

(* Two or three fields of a call are changed at once.                      *)
CountedAt(t, x, y)  == [t EXCEPT !.arg = x, !.argParam = y]
RecordAt(t, x, y)   == [t EXCEPT !.newQ = y, !.arg = x]
FileAt(t, x, y, z)  == [t EXCEPT !.arg = x, !.reading = y, !.file = z]

LEMMA FrameChanged ==
    ASSUME NEW t,
           t = [line |-> t.line, words |-> t.words, arg |-> t.arg, argParam |-> t.argParam,
                newQ |-> t.newQ, reading |-> t.reading, file |-> t.file],
           NEW x, NEW y, NEW z
    PROVE  /\ CountedAt(t, x, y) =
                 [line |-> t.line, words |-> t.words, arg |-> x, argParam |-> y,
                  newQ |-> t.newQ, reading |-> t.reading, file |-> t.file]
           /\ RecordAt(t, x, y) =
                 [line |-> t.line, words |-> t.words, arg |-> x, argParam |-> t.argParam,
                  newQ |-> y, reading |-> t.reading, file |-> t.file]
           /\ FileAt(t, x, y, z) =
                 [line |-> t.line, words |-> t.words, arg |-> x, argParam |-> t.argParam,
                  newQ |-> t.newQ, reading |-> y, file |-> z]
  <1> DEFINE u == [t EXCEPT !.arg = x]
             v == [t EXCEPT !.newQ = y]
             r == [u EXCEPT !.reading = y]
  <1>1. u = [line |-> t.line, words |-> t.words, arg |-> x, argParam |-> t.argParam,
             newQ |-> t.newQ, reading |-> t.reading, file |-> t.file]
    OBVIOUS
  <1>2. v = [line |-> t.line, words |-> t.words, arg |-> t.arg, argParam |-> t.argParam,
             newQ |-> y, reading |-> t.reading, file |-> t.file]
    OBVIOUS
  <1>3. /\ CountedAt(t, x, y) = [u EXCEPT !.argParam = y]
        /\ RecordAt(t, x, y) = [v EXCEPT !.arg = x]
        /\ FileAt(t, x, y, z) = [r EXCEPT !.file = z]
    BY DEF CountedAt, RecordAt, FileAt
  <1> HIDE DEF u, v
  <1>4. [u EXCEPT !.argParam = y] =
                 [line |-> t.line, words |-> t.words, arg |-> x, argParam |-> y,
                  newQ |-> t.newQ, reading |-> t.reading, file |-> t.file]
    BY <1>1
  <1>5. [v EXCEPT !.arg = x] =
                 [line |-> t.line, words |-> t.words, arg |-> x, argParam |-> t.argParam,
                  newQ |-> y, reading |-> t.reading, file |-> t.file]
    BY <1>2
  <1>6. r = [line |-> t.line, words |-> t.words, arg |-> x, argParam |-> t.argParam,
             newQ |-> t.newQ, reading |-> y, file |-> t.file]
    BY <1>1
  <1> HIDE DEF r
  <1>7. [r EXCEPT !.file = z] =
                 [line |-> t.line, words |-> t.words, arg |-> x, argParam |-> t.argParam,
                  newQ |-> t.newQ, reading |-> y, file |-> z]
    BY <1>6
  <1>8. QED
    BY <1>3, <1>4, <1>5, <1>7

Configured == \E pos : Reading(stack, lines, records, pos)

LEMMA SaveArgumentReads ==
    ASSUME Configured, SaveArgument PROVE Configured'
  <1>1. PICK pos : Reading(stack, lines, records, pos)
    BY DEF Configured
  <1> DEFINE t == Top
             f == [line |-> t.line, words |-> t.words, arg |-> t.arg + 2,
                   argParam |-> t.argParam, newQ |-> t.newQ,
                   reading |-> t.reading, file |-> t.file]
  <1>2. Word # <<>> /\ Word[1] = "-j" /\ IsOption(Word)
    BY OptionSets DEF SaveArgument, IsOption
  <1>3. Top.arg \notin MessagePlaces(Top.words)
    BY <1>1, <1>2, OptionIsNoMessage
  <1>4. Goes(Top.words, Top.arg, Top.arg + 2)
    BY <1>2, WordIs DEF Goes
  <1>5. Word[1] \notin DeviceOptions /\ Word[1] \notin SetOptions
    BY <1>2, OptionSets
  <1>6. /\ Top = [line |-> Top.line, words |-> Top.words, arg |-> Top.arg,
                  argParam |-> Top.argParam, newQ |-> Top.newQ,
                  reading |-> Top.reading, file |-> Top.file]
        /\ Top.argParam \in Nat /\ Top.file \in Seq(FileRows)
    BY <1>1, TopForm
  <1>7. \E pos2 : Reading(Onto(f), lines, records, pos2)
    BY <1>1, <1>2, <1>3, <1>4, <1>5, <1>6, GoesOn
  <1>8. [Top EXCEPT !.arg = @ + 2] = f
    BY <1>6
  <1> HIDE DEF f
  <1>9. stack' = Onto(f) /\ lines' = lines /\ records' = records
    BY <1>8 DEF SaveArgument
  <1>10. QED
    BY <1>7, <1>9 DEF Configured

LEMMA PassOverReads ==
    ASSUME Configured, PassOver PROVE Configured'
  <1>1. PICK pos : Reading(stack, lines, records, pos)
    BY DEF Configured
  <1> DEFINE t == Top
             a == IF IsOption(Word) THEN t.argParam ELSE t.argParam + 1
             f == [line |-> t.line, words |-> t.words, arg |-> t.arg + 1,
                   argParam |-> a, newQ |-> t.newQ,
                   reading |-> t.reading, file |-> t.file]
  <1>2. /\ Word # <<>>
        /\ \/ ~IsOption(Word) /\ Top.argParam > 0
           \/ Word[1] \in MainOptions \cup {"-z"}
    BY DEF PassOver
  <1>3. Word = Top.words[Top.arg] /\ Top.arg \in DOMAIN Top.words
    BY <1>2, WordIs
  <1>4. /\ Top = [line |-> Top.line, words |-> Top.words, arg |-> Top.arg,
                  argParam |-> Top.argParam, newQ |-> Top.newQ,
                  reading |-> Top.reading, file |-> Top.file]
        /\ Top.argParam \in Nat /\ Top.file \in Seq(FileRows)
    BY <1>1, TopForm
  <1>5. IsOption(Word) <=> Word[1] \in MainOptions \cup {"-z"}
    BY <1>2, OptionSets DEF IsOption
  <1>6. Word[1] \notin WithArgument \cup {"-j"} /\ Word[1] \notin SetOptions
        /\ Word[1] \notin DeviceOptions
    <2>1. CASE IsOption(Word)
      BY <1>5, <2>1, OptionSets
    <2>2. CASE ~IsOption(Word)
      BY <1>2, <2>2, OptionSets DEF IsOption
    <2>3. QED
      BY <2>1, <2>2
  <1>7. Top.arg \notin MessagePlaces(Top.words)
    <2>1. CASE IsOption(Word)
      BY <1>1, <1>2, <2>1, OptionIsNoMessage
    <2>2. CASE ~IsOption(Word)
      <3>1. Top.argParam # 0
        BY <1>2, <1>4, <1>5, <2>2
      <3>2. FrameOK(t, lines, records, pos)
        BY <1>1, TopIs
      <3>3. \E i \in 1..(t.arg - 1) : i \in DOMAIN t.words /\ Positional(t.words, i)
        BY <3>1, <3>2 DEF FrameOK
      <3>4. QED
        BY <3>3 DEF MessagePlaces
    <2>3. QED
      BY <2>1, <2>2
  <1>8. Goes(Top.words, Top.arg, Top.arg + 1)
    BY <1>3, <1>6 DEF Goes
  <1>9. a \in Nat /\ (a = 0 <=> Top.argParam = 0 /\ IsOption(Word))
    BY <1>4
  <1>10. f = [line |-> Top.line, words |-> Top.words, arg |-> Top.arg + 1,
              argParam |-> a, newQ |-> Top.newQ, reading |-> Top.reading, file |-> Top.file]
    OBVIOUS
  <1>11. [Top EXCEPT !.arg = @ + 1, !.argParam = IF IsOption(Word) THEN @ ELSE @ + 1] = f
    <2>1. [Top EXCEPT !.arg = @ + 1, !.argParam = IF IsOption(Word) THEN @ ELSE @ + 1]
             = CountedAt(Top, Top.arg + 1, a)
      BY DEF CountedAt
    <2>2. CountedAt(Top, Top.arg + 1, a) = f
      <3> HIDE DEF a
      <3> QED BY <1>4, FrameChanged
    <2> HIDE DEF f, a
    <2>3. QED
      BY <2>1, <2>2
  <1> HIDE DEF f, a
  <1>12. \E pos2 : Reading(Onto(f), lines, records, pos2)
    BY <1>1, <1>2, <1>4, <1>6, <1>7, <1>8, <1>9, <1>10, GoesOn
  <1>13. stack' = Onto(f) /\ lines' = lines /\ records' = records
    BY <1>11 DEF PassOver
  <1>14. QED
    BY <1>12, <1>13 DEF Configured

LEMMA OpenFileReads ==
    ASSUME Configured, GivenOK, OpenFile, status' = "config" PROVE Configured'
  <1>1. PICK pos : Reading(stack, lines, records, pos)
    BY DEF Configured
  <1>2. /\ Word # <<>> /\ Word[1] = "-F" /\ HasArgument
        /\ Argument[1] \in DOMAIN files
        /\ stack' = Onto([Top EXCEPT !.arg = @ + 2, !.reading = TRUE,
                                     !.file = files[Argument[1]]])
        /\ lines' = lines /\ records' = records
    BY DEF OpenFile
  <1> DEFINE file == files[Argument[1]]
             yes == TRUE
             f == [line |-> Top.line, words |-> Top.words, arg |-> Top.arg + 2,
                   argParam |-> Top.argParam, newQ |-> Top.newQ,
                   reading |-> yes, file |-> file]
  <1>3. file \in Seq(FileRows)
    BY <1>2 DEF GivenOK
  <1>4. /\ Top = [line |-> Top.line, words |-> Top.words, arg |-> Top.arg,
                  argParam |-> Top.argParam, newQ |-> Top.newQ,
                  reading |-> Top.reading, file |-> Top.file]
        /\ Top.argParam \in Nat
    BY <1>1, TopForm
  <1>5. IsOption(Word) /\ Word[1] \notin DeviceOptions /\ Word[1] \notin SetOptions
    BY <1>2, OptionSets DEF IsOption
  <1>6. Top.arg \notin MessagePlaces(Top.words)
    BY <1>1, <1>2, <1>5, OptionIsNoMessage
  <1>7. Goes(Top.words, Top.arg, Top.arg + 2)
    BY <1>2, WordIs, OptionSets DEF Goes, HasArgument
  <1>8. [Top EXCEPT !.arg = @ + 2, !.reading = TRUE, !.file = files[Argument[1]]] = f
    <2>1. [Top EXCEPT !.arg = @ + 2, !.reading = TRUE, !.file = files[Argument[1]]]
             = FileAt(Top, Top.arg + 2, yes, file)
      BY DEF FileAt
    <2>2. FileAt(Top, Top.arg + 2, yes, file) = f
      <3> HIDE DEF file, yes
      <3> QED BY <1>4, FrameChanged
    <2> HIDE DEF f, file, yes
    <2>3. QED
      BY <2>1, <2>2
  <1> HIDE DEF file, yes
  <1>9. \E pos2 : Reading(Onto(f), lines, records, pos2)
    BY <1>1, <1>2, <1>3, <1>4, <1>5, <1>6, <1>7, GoesOn
  <1> HIDE DEF f
  <1>10. stack' = Onto(f)
    BY <1>2, <1>8
  <1>11. QED
    BY <1>2, <1>9, <1>10 DEF Configured

LEMMA ReadLineReads ==
    ASSUME Configured, ReadLine PROVE Configured'
  <1>1. PICK pos : Reading(stack, lines, records, pos)
    BY DEF Configured
  <1> DEFINE row == Head(Top.file)
             rest == Tail(Top.file)
             words == WordsOf(TextOf(row))
             reader == [Top EXCEPT !.file = rest]
             line == [words |-> words, row |-> row]
  <1>2. /\ Top = [line |-> Top.line, words |-> Top.words, arg |-> Top.arg,
                  argParam |-> Top.argParam, newQ |-> Top.newQ,
                  reading |-> Top.reading, file |-> Top.file]
        /\ Top.file \in Seq(FileRows)
    BY <1>1, TopForm
  <1>3. row \in FileRows /\ rest \in Seq(FileRows)
    <2>1. Top.file # <<>>
      BY DEF ReadLine
    <2>2. QED
      BY <1>2, <2>1, HeadTailProperties
  <1>4. LineWords(words)
    BY <1>3, WordsOfLine
  <1>5. records' = records
    BY DEF ReadLine
  <1>6. \/ stack' = Onto(reader) /\ lines' = lines
        \/ /\ lines' = Append(lines, line)
           /\ stack' = Onto(reader) \o <<Frame(Len(lines'), words)>>
    BY DEF ReadLine
  <1>7. Reading(Onto(reader), lines, records, pos)
    <2> DEFINE t == Top
    <2>1. /\ reader = [line |-> t.line, words |-> t.words, arg |-> t.arg, argParam |-> t.argParam,
                       newQ |-> t.newQ, reading |-> reader.reading, file |-> reader.file]
          /\ reader.file = rest
      <3> HIDE DEF rest
      <3> QED BY <1>2
    <2>2. t = stack[Len(stack)]
      BY DEF Top, Last
    <2> HIDE DEF reader, rest, t
    <2>3. Reading(Front(stack) \o <<reader>>, lines, records, pos)
      BY <1>1, <1>3, <2>1, <2>2, Stays
    <2>4. QED
      BY <2>3 DEF Onto
  <1>8. CASE stack' = Onto(reader) /\ lines' = lines
    BY <1>5, <1>7, <1>8 DEF Configured
  <1>9. CASE /\ lines' = Append(lines, line)
             /\ stack' = Onto(reader) \o <<Frame(Len(lines'), words)>>
    <2> DEFINE s == Onto(reader)
               g == Frame(Len(lines'), words)
    <2>1. line.words = words
      OBVIOUS
    <2> HIDE DEF line
    <2>2. \E pos2 : Reading(Append(s, Frame(Len(lines'), line.words)), lines', records, pos2)
      <3> HIDE DEF s, words
      <3> QED BY <1>4, <1>7, <1>9, <2>1, Enters DEF s
    <2> HIDE DEF s, g, words
    <2>3. Append(s, g) = s \o <<g>>
      <3>1. Sequence(s)
        BY <1>7 DEF Reading, StackOK, s
      <3>2. PICK S : s \in Seq(S)
        BY <3>1 DEF Sequence
      <3> DEFINE V == S \cup {g}
      <3>3. s \in Seq(V) /\ g \in V
        BY <3>2
      <3> HIDE DEF V
      <3>4. QED
        BY <3>3, AppendIsConcat
    <2>4. \E pos2 : Reading(s \o <<g>>, lines', records, pos2)
      BY <2>1, <2>2, <2>3 DEF g
    <2>5. stack' = s \o <<g>>
      BY <1>9 DEF s, g
    <2>6. QED
      BY <1>5, <2>4, <2>5 DEF Configured
  <1>10. QED
    BY <1>6, <1>8, <1>9

LEMMA EndOfFileReads ==
    ASSUME Configured, EndOfFile PROVE Configured'
  <1>1. PICK pos : Reading(stack, lines, records, pos)
    BY DEF Configured
  <1> DEFINE t == Top
             no == FALSE
             f == [t EXCEPT !.reading = no]
  <1>2. /\ t = [line |-> t.line, words |-> t.words, arg |-> t.arg,
                argParam |-> t.argParam, newQ |-> t.newQ,
                reading |-> t.reading, file |-> t.file]
        /\ t.file \in Seq(FileRows) /\ t = stack[Len(stack)]
    BY <1>1, TopForm, TopIs
  <1>3. stack' = Onto(f) /\ lines' = lines /\ records' = records
    BY DEF EndOfFile
  <1> HIDE DEF t, no
  <1>4. /\ f = [line |-> t.line, words |-> t.words, arg |-> t.arg, argParam |-> t.argParam,
                newQ |-> t.newQ, reading |-> f.reading, file |-> f.file]
        /\ f.file = t.file
    BY <1>2
  <1> HIDE DEF f
  <1>5. Reading(Front(stack) \o <<f>>, lines, records, pos)
    BY <1>1, <1>2, <1>4, Stays
  <1>6. QED
    BY <1>3, <1>5 DEF Configured, Onto

LEMMA WordsEnd ==
    ASSUME NEW pos, Reading(stack, lines, records, pos), Word = <<>>
    PROVE  stack[Len(stack)].arg > Len(stack[Len(stack)].words)
  <1> DEFINE t == Top
  <1>1. FrameOK(t, lines, records, pos) /\ LineWords(t.words) /\ t = stack[Len(stack)]
    BY TopIs
  <1>2. t.arg \notin DOMAIN t.words
    BY <1>1 DEF Word, WordAt, LineWords
  <1> HIDE DEF t
  <1>3. t.arg \in 1..(Len(t.words) + 2) /\ DOMAIN t.words = 1..Len(t.words) /\ Len(t.words) \in Nat
    BY <1>1 DEF FrameOK, LineWords
  <1>4. QED
    BY <1>1, <1>2, <1>3

LEMMA ReturnReads ==
    ASSUME Configured, Return
    PROVE  Configured' /\ (status' = "done" => Len(stack') = 1 /\ stack'[1].arg > Len(stack'[1].words))
  <1>1. PICK pos : Reading(stack, lines, records, pos)
    BY DEF Configured
  <1>2. stack[Len(stack)].arg > Len(stack[Len(stack)].words)
    BY <1>1, WordsEnd DEF Return
  <1>3. lines' = lines /\ records' = records
    BY DEF Return
  <1>4. CASE Len(stack) = 1
    <2>1. stack' = stack
      BY <1>4 DEF Return
    <2>2. QED
      BY <1>1, <1>2, <1>3, <1>4, <2>1 DEF Configured
  <1>5. CASE Len(stack) # 1
    <2>1. stack' = Front(stack)
      BY <1>5 DEF Return, Returned
    <2>2. status' # "done"
      BY <1>5 DEF Return, Configures
    <2>3. Reading(Front(stack), lines, records, pos)
      BY <1>1, <1>2, <1>5, Leaves
    <2>4. QED
      BY <1>3, <2>1, <2>2, <2>3 DEF Configured
  <1>6. QED
    BY <1>4, <1>5

(* A change of one record of a line that keeps its place.                  *)
LEMMA OneChanged ==
    ASSUME NEW recs, NEW lns, RecsOK(recs, lns), NEW k \in DOMAIN recs, NEW r,
           RecForm(r), r.from = recs[k].from
    PROVE  LET recs2 == [recs EXCEPT ![k] = r]
           IN  /\ RecsOK(recs2, lns) /\ OnlyOf(recs[k].from.line, recs, recs2)
               /\ DOMAIN recs2 = DOMAIN recs /\ recs2[k] = r
               /\ \A q \in DOMAIN recs : q # k => recs2[q] = recs[q]
  <1> DEFINE recs2 == [recs EXCEPT ![k] = r]
  <1>1. Sequence(recs2)
    <2>1. PICK S : recs \in Seq(S)
      BY DEF RecsOK, Sequence
    <2> DEFINE V == S \cup {r}
    <2>2. recs \in Seq(V) /\ r \in V /\ DOMAIN recs = 1..Len(recs)
      BY <2>1
    <2> HIDE DEF V
    <2>3. recs2 \in Seq(V)
      BY <2>2, ExceptSeq
    <2>4. QED
      BY <2>3 DEF Sequence
  <1>2. /\ DOMAIN recs2 = DOMAIN recs /\ recs2[k] = r
        /\ \A q \in DOMAIN recs : q # k => recs2[q] = recs[q]
    OBVIOUS
  <1> HIDE DEF recs2
  <1>3. \A q \in DOMAIN recs : recs2[q].from = recs[q].from
    BY <1>2
  <1>4. OneEach(recs2)
    BY <1>2, <1>3 DEF RecsOK, OneEach
  <1>5. \A q \in DOMAIN recs2 : RecForm(recs2[q]) /\ recs2[q].from.line \in DOMAIN lns
    BY <1>2, <1>3 DEF RecsOK
  <1>6. OnlyOf(recs[k].from.line, recs, recs2)
    BY <1>2, <1>3 DEF OnlyOf
  <1>7. QED
    BY <1>1, <1>2, <1>4, <1>5, <1>6 DEF RecsOK, recs2

(* A setting or a message of the call's record.                            *)
LEMMA ChangesRecord ==
    ASSUME NEW pos, Reading(stack, lines, records, pos), Word # <<>>,
           Word[1] \notin DeviceOptions, Top.newQ # Unset,
           NEW p2, Goes(Top.words, Top.arg, p2), NEW a \in Nat,
           a = 0 <=> Top.argParam = 0 /\ IsOption(Word),
           NEW r, RecForm(r), r.from = records[Top.newQ].from,
           Fresh(Top.words, Top.arg) /\ Top.newQ \in DOMAIN records
              /\ Top.arg \in OwnOf(Top.words, records[Top.newQ].from.arg)
              /\ RecRead(records[Top.newQ], Top.words, Top.arg)
              => RecRead(r, Top.words, p2),
           NEW f,
           f = [line |-> Top.line, words |-> Top.words, arg |-> p2, argParam |-> a,
                newQ |-> Top.newQ, reading |-> Top.reading, file |-> Top.file]
    PROVE  \E pos2 : Reading(Onto(f), lines, [records EXCEPT ![Top.newQ] = r], pos2)
  <1> DEFINE t == Top
             w == t.words
             p == t.arg
             n == t.line
             k == t.newQ
             recs2 == [records EXCEPT ![k] = r]
  <1>1. /\ FrameOK(t, lines, records, pos)
        /\ LineWords(w) /\ LineRead(n, w, p, records) /\ RecsOK(records, lines)
    BY TopIs
  <1>2. p \in DOMAIN w /\ Word = w[p]
    BY WordIs
  <1>3. Fresh(w, p) /\ Current(k, n, w, p, records)
    BY <1>1 DEF FrameOK
  <1>4. k \in DOMAIN records /\ records[k].from.line = n
    BY <1>3 DEF Current
  <1>5. /\ Goes(w, p, p2) /\ w[p][1] \notin DeviceOptions /\ k # Unset
        /\ r.from = records[k].from /\ RecForm(r)
    BY <1>2
  <1>6. Fresh(w, p) /\ k \in DOMAIN records /\ p \in OwnOf(w, records[k].from.arg)
           /\ RecRead(records[k], w, p) => RecRead(r, w, p2)
    OBVIOUS
  <1> HIDE DEF w, p, n, k
  <1>7. /\ RecsOK(recs2, lines) /\ OnlyOf(n, records, recs2)
        /\ DOMAIN recs2 = DOMAIN records /\ recs2[k] = r
        /\ \A q \in DOMAIN records : q # k => recs2[q] = records[q]
    BY <1>1, <1>4, <1>5, OneChanged
  <1> HIDE DEF recs2
  <1>8. p \in OwnOf(w, records[k].from.arg)
    BY <1>1, <1>2, <1>3, <1>5, CurrentOwns
  <1>9. RecRead(r, w, p2)
    BY <1>1, <1>3, <1>4, <1>6, <1>8 DEF LineRead
  <1>10. LineRead(n, w, p2, recs2)
    <2>1. OneEach(records)
      BY <1>1 DEF RecsOK
    <2>2. QED
      BY <1>1, <1>2, <1>3, <1>5, <1>7, <1>9, <2>1, LineChanged
  <1>11. Current(k, n, w, p2, recs2)
    <2>1. \A q \in DOMAIN records : recs2[q].from = records[q].from
      BY <1>5, <1>7
    <2>2. QED
      BY <1>1, <1>2, <1>3, <1>5, <1>7, <2>1, CurrentKept
  <1>12. /\ OnlyOf(Top.line, records, recs2) /\ RecsOK(recs2, lines)
         /\ Current(k, Top.line, Top.words, p2, recs2)
         /\ LineRead(Top.line, Top.words, p2, recs2)
         /\ f = [line |-> Top.line, words |-> Top.words, arg |-> p2, argParam |-> a,
                 newQ |-> k, reading |-> Top.reading, file |-> Top.file]
    BY <1>7, <1>10, <1>11 DEF n, w, k
  <1>13. /\ Reading(stack, lines, records, pos) /\ Word # <<>>
         /\ Goes(Top.words, Top.arg, p2) /\ a \in Nat
         /\ a = 0 <=> Top.argParam = 0 /\ IsOption(Word)
    OBVIOUS
  <1>14. \E pos2 : Reading(Onto(f), lines, recs2, pos2)
    BY ONLY <1>12, <1>13, RecordsOn
  <1>15. QED
    BY <1>14 DEF recs2, k

FlagSet(q, c, x, m) == [q EXCEPT !.set[c] = x, !.nmea = m]
ValueSet(q, c, x, f, l, p) ==
    [q EXCEPT !.set[c] = x, !.first = f, !.last = l, !.period = p]

(* Of what RecRead looks at only the setting c is changed.                 *)
SetOnly(q, r, c, x, m) ==
    /\ RecForm(r) /\ r.from = q.from /\ r.device = q.device
    /\ r.text = q.text /\ r.send = q.send /\ r.message = q.message
    /\ r.set = [q.set EXCEPT ![c] = x] /\ r.nmea = m

LEMMA FieldsSet ==
    ASSUME NEW q, RecForm(q), NEW c \in SetOptions, NEW x, NEW m, NEW f, NEW l, NEW p
    PROVE  /\ SetOnly(q, FlagSet(q, c, x, m), c, x, m)
           /\ SetOnly(q, ValueSet(q, c, x, f, l, p), c, x, q.nmea)
  <1> DEFINE r == [q EXCEPT !.set[c] = x]
             sets == [q.set EXCEPT ![c] = x]
  <1>1. /\ q = [device |-> q.device, from |-> q.from, set |-> q.set, first |-> q.first,
                last |-> q.last, period |-> q.period, nmea |-> q.nmea, send |-> q.send,
                message |-> q.message, text |-> q.text]
        /\ q.from = [line |-> q.from.line, arg |-> q.from.arg]
        /\ q.set = [o \in SetOptions |-> q.set[o]]
    BY DEF RecForm
  <1>2. sets = [o \in SetOptions |-> sets[o]]
    BY <1>1
  <1>3. r = [q EXCEPT !.set = sets]
    OBVIOUS
  <1> HIDE DEF r, sets
  <1>4. r = [device |-> q.device, from |-> q.from, set |-> sets, first |-> q.first,
             last |-> q.last, period |-> q.period, nmea |-> q.nmea, send |-> q.send,
             message |-> q.message, text |-> q.text]
    BY <1>1, <1>3
  <1> DEFINE u1 == [r EXCEPT !.nmea = m]
             v1 == [r EXCEPT !.first = f]
             v2 == [v1 EXCEPT !.last = l]
             v3 == [v2 EXCEPT !.period = p]
  <1>5. FlagSet(q, c, x, m) = u1 /\ ValueSet(q, c, x, f, l, p) = v3
    BY DEF FlagSet, ValueSet, r
  <1>6. u1 = [device |-> q.device, from |-> q.from, set |-> sets, first |-> q.first,
              last |-> q.last, period |-> q.period, nmea |-> m, send |-> q.send,
              message |-> q.message, text |-> q.text]
    BY <1>4
  <1>7. v1 = [device |-> q.device, from |-> q.from, set |-> sets, first |-> f,
              last |-> q.last, period |-> q.period, nmea |-> q.nmea, send |-> q.send,
              message |-> q.message, text |-> q.text]
    BY <1>4
  <1> HIDE DEF u1, v1
  <1>8. v2 = [device |-> q.device, from |-> q.from, set |-> sets, first |-> f,
              last |-> l, period |-> q.period, nmea |-> q.nmea, send |-> q.send,
              message |-> q.message, text |-> q.text]
    BY <1>7
  <1> HIDE DEF v2
  <1>9. v3 = [device |-> q.device, from |-> q.from, set |-> sets, first |-> f,
              last |-> l, period |-> p, nmea |-> q.nmea, send |-> q.send,
              message |-> q.message, text |-> q.text]
    BY <1>8
  <1> HIDE DEF v3
  <1>10. SetOnly(q, u1, c, x, m)
    <2>1. /\ u1.device = q.device /\ u1.from = q.from /\ u1.set = sets /\ u1.text = q.text
          /\ u1.send = q.send /\ u1.message = q.message /\ u1.nmea = m
      BY <1>6
    <2>2. RecForm(u1)
      BY <1>1, <1>2, <1>6 DEF RecForm
    <2>3. QED
      BY <2>1, <2>2 DEF SetOnly, sets
  <1>11. SetOnly(q, v3, c, x, q.nmea)
    <2>1. /\ v3.device = q.device /\ v3.from = q.from /\ v3.set = sets /\ v3.text = q.text
          /\ v3.send = q.send /\ v3.message = q.message /\ v3.nmea = q.nmea
      BY <1>9
    <2>2. RecForm(v3)
      BY <1>1, <1>2, <1>9 DEF RecForm
    <2>3. QED
      BY <2>1, <2>2 DEF SetOnly, sets
  <1>12. QED
    BY <1>5, <1>10, <1>11

LEMMA SettingIs ==
    ASSUME NEW q, RecForm(q), Word[1] \in SetOptions
    PROVE  SetOnly(q, SettingOf(q), Word[1],
                   IF Word[1] \in FlagOptions THEN Word ELSE Argument, NmeaOf(Word[1], q.nmea))
  <1> DEFINE c == Word[1]
  <1>1. c \in FlagOptions \/ c \in ValueOptions
    BY DEF SetOptions
  <1>2. CASE c \in FlagOptions
    <2> DEFINE m == CASE c = "-m" -> 1 [] c = "-mx" -> 2 [] OTHER -> q.nmea
               W == Word
    <2>1. c \notin ValueOptions
      BY <1>2, OptionSets
    <2>2. SettingOf(q) = FlagSet(q, c, W, m)
      BY <1>2, <2>1 DEF SettingOf, FlagSet
    <2>3. m = NmeaOf(c, q.nmea)
      BY DEF NmeaOf
    <2> HIDE DEF c, m, W
    <2>4. SetOnly(q, FlagSet(q, c, W, m), c, W, m)
      BY FieldsSet DEF c
    <2>5. QED
      BY <1>2, <2>2, <2>3, <2>4 DEF c, W
  <1>3. CASE c \in ValueOptions
    <2> DEFINE f == IF c = "-f" THEN AbsTimeOf(Argument, timeNow) ELSE q.first
               l == IF c = "-l" THEN AbsTimeOf(Argument, timeNow) ELSE q.last
               p == IF c = "-p" THEN AbsTimeOf(Argument, 0) ELSE q.period
               A == Argument
    <2>1. c \notin FlagOptions
      BY <1>3, OptionSets
    <2>2. SettingOf(q) = ValueSet(q, c, A, f, l, p)
      BY <1>3, <2>1 DEF SettingOf, ValueSet
    <2>3. q.nmea = NmeaOf(c, q.nmea)
      BY <2>1 DEF NmeaOf, FlagOptions
    <2> HIDE DEF c, f, l, p, A
    <2>4. SetOnly(q, ValueSet(q, c, A, f, l, p), c, A, q.nmea)
      BY FieldsSet DEF c
    <2>5. QED
      BY <2>1, <2>2, <2>3, <2>4 DEF c, A
  <1>4. QED
    BY <1>1, <1>2, <1>3

LEMMA SetOptionReads ==
    ASSUME Configured, SetOption PROVE Configured'
  <1>1. PICK pos : Reading(stack, lines, records, pos)
    BY DEF Configured
  <1> DEFINE c == Word[1]
             k == Top.newQ
             s == IF c \in FlagOptions THEN 1 ELSE 2
             p2 == Top.arg + s
             q == records[k]
             r == SettingOf(q)
             a == Top.argParam
             f == [line |-> Top.line, words |-> Top.words, arg |-> p2, argParam |-> a,
                   newQ |-> Top.newQ, reading |-> Top.reading, file |-> Top.file]
             x == IF c \in FlagOptions THEN Word ELSE Argument
  <1>2. /\ Word # <<>> /\ IsOption(Word) /\ Top.newQ # Unset
        /\ c \in FlagOptions \/ (c \in ValueOptions /\ HasArgument)
        /\ stack' = Onto([Top EXCEPT !.arg = @ + s])
        /\ records' = [records EXCEPT ![k] = r]
        /\ lines' = lines
    BY DEF SetOption, NeedsRecord
  <1>3. /\ Top = [line |-> Top.line, words |-> Top.words, arg |-> Top.arg,
                  argParam |-> Top.argParam, newQ |-> Top.newQ,
                  reading |-> Top.reading, file |-> Top.file]
        /\ a \in Nat /\ Top.arg \in Nat
    BY <1>1, TopForm
  <1>4. c \in SetOptions /\ c \notin DeviceOptions
    BY <1>2, OptionSets DEF SetOptions
  <1>5. Word = Top.words[Top.arg] /\ Top.arg \in DOMAIN Top.words
    BY <1>2, WordIs
  <1>6. Goes(Top.words, Top.arg, p2) /\ x = WordFor(Top.words, Top.arg, c)
    <2>1. CASE c \in FlagOptions
      <3>1. Goes(Top.words, Top.arg, Top.arg + 1)
        BY <1>5, <2>1, OptionSets DEF Goes, FlagOptions
      <3>2. x = Word /\ s = 1 /\ WordFor(Top.words, Top.arg, c) = Top.words[Top.arg]
        BY <1>3, <2>1 DEF WordFor
      <3>3. QED
        BY <1>5, <3>1, <3>2
    <2>2. CASE c \notin FlagOptions
      <3>1. c \in WithArgument /\ Argument # <<>> /\ ~IsOption(Argument)
        BY <1>2, <2>2, OptionSets DEF HasArgument
      <3>2. Goes(Top.words, Top.arg, Top.arg + 2)
        BY <1>5, <3>1, WordIs DEF Goes
      <3>3. x = Argument /\ s = 2 /\ WordFor(Top.words, Top.arg, c) = Top.words[Top.arg + 1]
        BY <2>2 DEF WordFor
      <3>4. QED
        BY <3>1, <3>2, <3>3, WordIs
    <2>3. QED
      BY <2>1, <2>2
  <1>7. \A i \in DOMAIN records : RecForm(records[i])
    BY <1>1 DEF Reading, RecsOK
  <1>8. FrameOK(Top, lines, records, pos) /\ LineWords(Top.words)
    BY <1>1, TopIs
  <1>9. k \in DOMAIN records
    BY <1>2, <1>8 DEF FrameOK, Current
  <1>10. SetOnly(q, r, c, x, NmeaOf(c, q.nmea))
    BY <1>4, <1>7, <1>9, SettingIs
  <1>11. RecForm(r) /\ r.from = q.from
    BY <1>10 DEF SetOnly
  <1>12. ASSUME Fresh(Top.words, Top.arg), Top.arg \in OwnOf(Top.words, q.from.arg),
                RecRead(q, Top.words, Top.arg)
         PROVE  RecRead(r, Top.words, p2)
    <2> DEFINE w == Top.words
               p == Top.arg
    <2>1. q.set = [o \in SetOptions |-> q.set[o]]
      BY <1>7, <1>9 DEF RecForm
    <2>2. /\ r.from = q.from /\ r.device = q.device
          /\ r.text = q.text /\ r.send = q.send /\ r.set = [q.set EXCEPT ![c] = x]
          /\ r.message = q.message /\ r.nmea = NmeaOf(c, q.nmea)
      BY <1>10 DEF SetOnly
    <2>3. OneSetting(q, r, w, p)
      <3> HIDE DEF r, q, x
      <3> QED BY <1>5, <1>6, <2>1, <2>2 DEF OneSetting
    <2>4. /\ LineWords(w) /\ p \in DOMAIN w /\ Fresh(w, p) /\ Goes(w, p, p2)
          /\ RecRead(q, w, p) /\ p \in OwnOf(w, q.from.arg) /\ w[p][1] \in SetOptions
      BY <1>4, <1>5, <1>6, <1>8, <1>12
    <2> HIDE DEF w, p, p2, q, r
    <2>5. RecRead(r, w, p2)
      BY <2>2, <2>3, <2>4, RecSets
    <2>6. QED
      BY <2>5 DEF w
  <1>13. [Top EXCEPT !.arg = @ + s] = f
    <2> HIDE DEF s
    <2> QED BY <1>3
  <1>14. a = 0 <=> Top.argParam = 0 /\ IsOption(Word)
    BY <1>2
  <1> HIDE DEF r, p2, c, a
  <1>15. \E pos2 : Reading(Onto(f), lines, [records EXCEPT ![Top.newQ] = r], pos2)
    BY <1>1, <1>2, <1>3, <1>4, <1>6, <1>11, <1>12, <1>14, ChangesRecord DEF c
  <1> HIDE DEF f
  <1>16. stack' = Onto(f)
    BY <1>2, <1>13
  <1>17. QED
    BY <1>2, <1>15, <1>16 DEF Configured

SentAs(q, yes, x, y) == [q EXCEPT !.send = yes, !.text = x, !.message = y]

LEMMA SentIs ==
    ASSUME NEW q, RecForm(q), NEW yes, NEW x, NEW y
    PROVE  LET r == SentAs(q, yes, x, y)
           IN  /\ RecForm(r) /\ r.from = q.from /\ r.set = q.set
               /\ r.text = x /\ r.send = yes /\ r.message = y /\ r.nmea = q.nmea
  <1> DEFINE u == [q EXCEPT !.send = yes]
             v == [u EXCEPT !.text = x]
             r == [v EXCEPT !.message = y]
  <1>1. /\ q = [device |-> q.device, from |-> q.from, set |-> q.set, first |-> q.first,
                last |-> q.last, period |-> q.period, nmea |-> q.nmea, send |-> q.send,
                message |-> q.message, text |-> q.text]
        /\ q.from = [line |-> q.from.line, arg |-> q.from.arg]
        /\ q.set = [o \in SetOptions |-> q.set[o]]
    BY DEF RecForm
  <1>2. u = [device |-> q.device, from |-> q.from, set |-> q.set, first |-> q.first,
             last |-> q.last, period |-> q.period, nmea |-> q.nmea, send |-> yes,
             message |-> q.message, text |-> q.text]
    BY <1>1
  <1>3. SentAs(q, yes, x, y) = r
    BY DEF SentAs
  <1> HIDE DEF u
  <1>4. v = [device |-> q.device, from |-> q.from, set |-> q.set, first |-> q.first,
             last |-> q.last, period |-> q.period, nmea |-> q.nmea, send |-> yes,
             message |-> q.message, text |-> x]
    BY <1>2
  <1> HIDE DEF v
  <1>5. r = [device |-> q.device, from |-> q.from, set |-> q.set, first |-> q.first,
             last |-> q.last, period |-> q.period, nmea |-> q.nmea, send |-> yes,
             message |-> y, text |-> x]
    BY <1>4
  <1> HIDE DEF r
  <1>6. /\ r.from = q.from /\ r.set = q.set /\ r.text = x /\ r.send = yes
        /\ r.message = y /\ r.nmea = q.nmea
    BY <1>5
  <1>7. RecForm(r)
    BY <1>1, <1>5 DEF RecForm
  <1>8. QED
    BY <1>3, <1>6, <1>7

LEMMA SetMessageReads ==
    ASSUME Configured, SetMessage, status' # "crash" PROVE Configured'
  <1>1. PICK pos : Reading(stack, lines, records, pos)
    BY DEF Configured
  <1> DEFINE k == Top.newQ
             p2 == Top.arg + 1
             q == records[k]
             yes == TRUE
             msg == Summed(Unescape(Word, ArgsNow), q.nmea)
             r == SentAs(q, yes, Word, msg)
             a == Top.argParam + 1
             f == [line |-> Top.line, words |-> Top.words, arg |-> p2, argParam |-> a,
                   newQ |-> Top.newQ, reading |-> Top.reading, file |-> Top.file]
  <1>2. /\ Word # <<>> /\ ~IsOption(Word) /\ Top.newQ # Unset /\ Top.argParam = 0
        /\ stack' = Onto(CountedAt(Top, p2, a))
        /\ lines' = lines
    <2>1. /\ Word # <<>> /\ ~IsOption(Word) /\ Top.newQ # Unset
          /\ stack' = Onto(CountedAt(Top, p2, a))
          /\ lines' = lines
      BY DEF SetMessage, NeedsRecord, CountedAt
    <2>2. Top.argParam = 0
      <3>1. /\ Word # <<>> /\ ~IsOption(Word)
            /\ \/ Word[1] \in FlagOptions
               \/ Word[1] \in ValueOptions /\ HasArgument
               \/ ~IsOption(Word) /\ Top.argParam = 0
        BY DEF SetMessage, NeedsRecord
      <3>2. Word[1] \notin FlagOptions /\ Word[1] \notin ValueOptions
        BY <3>1, OptionSets DEF IsOption, SetOptions
      <3>3. QED
        BY <3>1, <3>2
    <2>3. QED
      BY <2>1, <2>2
  <1>3. records' = [records EXCEPT ![k] = r]
    BY DEF SetMessage, Composed, SentAs
  <1>4. /\ Top = [line |-> Top.line, words |-> Top.words, arg |-> Top.arg,
                  argParam |-> Top.argParam, newQ |-> Top.newQ,
                  reading |-> Top.reading, file |-> Top.file]
        /\ Top.arg \in Nat
    BY <1>1, TopForm
  <1>5. Word[1] \notin WithArgument \cup {"-j"} /\ Word[1] \notin DeviceOptions
    BY <1>2, OptionSets DEF IsOption
  <1>6. Word = Top.words[Top.arg] /\ Top.arg \in DOMAIN Top.words
    BY <1>2, WordIs
  <1>7. Goes(Top.words, Top.arg, p2)
    BY <1>5, <1>6 DEF Goes
  <1>8. \A i \in DOMAIN records : RecForm(records[i])
    BY <1>1 DEF Reading, RecsOK
  <1>9. FrameOK(Top, lines, records, pos) /\ LineWords(Top.words)
    BY <1>1, TopIs
  <1>10. k \in DOMAIN records
    BY <1>2, <1>9 DEF FrameOK, Current
  <1>11. /\ RecForm(r) /\ r.from = q.from /\ r.set = q.set /\ r.text = Word /\ r.send = yes
         /\ r.nmea = q.nmea /\ r.message = msg
    <2> HIDE DEF yes, msg
    <2>1. RecForm(q)
      BY <1>8, <1>10
    <2> HIDE DEF q
    <2>2. QED
      BY <2>1, SentIs
  <1>12. Top.arg \in MessagePlaces(Top.words)
    <2> DEFINE t == Top
               w == t.words
               p == t.arg
    <2>1. \A i \in 1..(p - 1) : i \in DOMAIN w => ~Positional(w, i)
      BY <1>2, <1>9 DEF FrameOK
    <2>2. \A i \in 1..(p - 1) : i \in DOMAIN w
      BY <1>6, <1>9 DEF LineWords
    <2>3. p \in DOMAIN w /\ Fresh(w, p) /\ ~IsOption(w[p]) /\ LineWords(w)
      BY <1>2, <1>6, <1>9 DEF FrameOK
    <2> HIDE DEF w, p
    <2>4. Positional(w, p)
      BY <2>3, FreshWord
    <2>5. p \in MessagePlaces(w)
      BY <2>1, <2>2, <2>3, <2>4 DEF MessagePlaces
    <2>6. QED
      BY <2>5 DEF w, p
  <1>13. ASSUME Fresh(Top.words, Top.arg), Top.arg \in OwnOf(Top.words, q.from.arg),
                RecRead(q, Top.words, Top.arg)
         PROVE  RecRead(r, Top.words, p2)
    <2> DEFINE w == Top.words
               p == Top.arg
    <2>1. /\ LineWords(w) /\ p \in DOMAIN w /\ Fresh(w, p) /\ Goes(w, p, p2)
          /\ RecRead(q, w, p) /\ p \in OwnOf(w, q.from.arg) /\ p \in MessagePlaces(w)
      BY <1>6, <1>7, <1>9, <1>12, <1>13
    <2>2. r.from = q.from /\ r.set = q.set /\ r.text = w[p] /\ r.nmea = q.nmea
      BY <1>6, <1>11
    <2>3. r.send = TRUE
      BY <1>11
    <2> DEFINE args == ArgsNow
    <2>4. r.message = Summed(Unescape(r.text, args), q.nmea)
      <3>1. r.message = msg /\ r.text = Word
        BY <1>11
      <3> HIDE DEF r
      <3>2. QED
        BY <3>1
    <2> HIDE DEF w, p, p2, q, r, args
    <2>5. RecRead(r, w, p2)
      BY <2>1, <2>2, <2>3, <2>4, RecSends
    <2>6. QED
      BY <2>5 DEF w
  <1>14. CountedAt(Top, p2, a) = f
    <2> HIDE DEF p2, a
    <2> QED BY <1>4, FrameChanged
  <1>15. a \in Nat /\ (a = 0 <=> Top.argParam = 0 /\ IsOption(Word))
    BY <1>2
  <1> HIDE DEF r, p2, a
  <1>16. \E pos2 : Reading(Onto(f), lines, [records EXCEPT ![Top.newQ] = r], pos2)
    <2>1. r.from = records[Top.newQ].from /\ RecForm(r)
      BY <1>11
    <2>2. Fresh(Top.words, Top.arg) /\ Top.newQ \in DOMAIN records
              /\ Top.arg \in OwnOf(Top.words, records[Top.newQ].from.arg)
              /\ RecRead(records[Top.newQ], Top.words, Top.arg)
              => RecRead(r, Top.words, p2)
      BY <1>13
    <2>3. QED
      BY <1>1, <1>2, <1>5, <1>7, <1>15, <2>1, <2>2, ChangesRecord
  <1> HIDE DEF f
  <1>17. stack' = Onto(f)
    BY <1>2, <1>14
  <1>18. QED
    BY <1>2, <1>3, <1>16, <1>17 DEF Configured

LEMMA RecordAdded ==
    ASSUME NEW recs, NEW lns, RecsOK(recs, lns), NEW r, RecForm(r),
           r.from.line \in DOMAIN lns,
           \A q \in DOMAIN recs :
              ~(recs[q].from.line = r.from.line /\ recs[q].from.arg = r.from.arg)
    PROVE  LET recs2 == Append(recs, r)
               k     == Len(recs2)
           IN  /\ RecsOK(recs2, lns) /\ OnlyOf(r.from.line, recs, recs2)
               /\ DOMAIN recs2 = DOMAIN recs \cup {k} /\ k \notin DOMAIN recs /\ k # Unset
               /\ recs2[k] = r /\ \A q \in DOMAIN recs : recs2[q] = recs[q]
  <1> DEFINE recs2 == Append(recs, r)
             k == Len(recs2)
  <1>1. Sequence(recs)
    BY DEF RecsOK
  <1>2. /\ Sequence(recs2) /\ DOMAIN recs2 = DOMAIN recs \cup {k}
        /\ k = Len(recs) + 1 /\ k \notin DOMAIN recs
        /\ \A i \in DOMAIN recs : recs2[i] = recs[i]
        /\ recs2[k] = r
    BY <1>1, AppendIs
  <1>3. k # Unset
    BY <1>1, <1>2, SequenceIs DEF Unset
  <1> HIDE DEF recs2, k
  <1>4. OneEach(recs2)
    BY <1>2 DEF RecsOK, OneEach
  <1>5. \A q \in DOMAIN recs2 : RecForm(recs2[q]) /\ recs2[q].from.line \in DOMAIN lns
    BY <1>2 DEF RecsOK
  <1>6. OnlyOf(r.from.line, recs, recs2)
    BY <1>2 DEF OnlyOf
  <1>7. QED
    BY <1>2, <1>3, <1>4, <1>5, <1>6 DEF RecsOK, recs2, k

LEMMA AddRecordReads ==
    ASSUME Configured, AddRecord PROVE Configured'
  <1>1. PICK pos : Reading(stack, lines, records, pos)
    BY DEF Configured
  <1> DEFINE w == Top.words
             p == Top.arg
             n == Top.line
             p2 == Top.arg + 2
             a == Top.argParam
             x == (Word[1] = "-x")
             r == [device |-> <<Word[1], Argument>>, from |-> [line |-> Top.line, arg |-> Top.arg],
                   set |-> [o \in SetOptions |-> <<>>], first |-> 0, last |-> 0, period |-> 0,
                   nmea |-> 0, send |-> x, message |-> <<>>, text |-> <<>>]
             recs2 == Append(records, r)
             k == Len(recs2)
             f == [line |-> Top.line, words |-> Top.words, arg |-> p2, argParam |-> a,
                   newQ |-> k, reading |-> Top.reading, file |-> Top.file]
  <1>2. /\ Word # <<>> /\ Word[1] \in DeviceOptions
        /\ Argument # <<>> /\ ~IsOption(Argument)
        /\ records' = recs2
        /\ stack' = Onto(RecordAt(Top, p2, Len(records')))
        /\ lines' = lines
    BY DEF AddRecord, HasArgument, RecordAt
  <1>3. /\ Top = [line |-> Top.line, words |-> Top.words, arg |-> Top.arg,
                  argParam |-> Top.argParam, newQ |-> Top.newQ,
                  reading |-> Top.reading, file |-> Top.file]
        /\ a \in Nat
    BY <1>1, TopForm
  <1>4. Word = w[p] /\ p \in DOMAIN w
    BY <1>2, WordIs
  <1>5. Goes(w, p, p2)
    BY <1>2, <1>4, WordIs, OptionSets DEF Goes
  <1>6. IsOption(Word)
    BY <1>2, OptionSets DEF IsOption
  <1>7. /\ LineWords(w) /\ n \in DOMAIN lines /\ LineRead(n, w, p, records)
        /\ RecsOK(records, lines) /\ Fresh(w, p)
    BY <1>1, TopIs DEF FrameOK
  <1>8. /\ RecForm(r) /\ r.from.line = n /\ r.from.arg = p
        /\ r.text = <<>> /\ r.send = x /\ r.device[1] = Word[1] /\ r.message = <<>>
        /\ \A o \in SetOptions : r.set[o] = <<>>
    <2> DEFINE dev == <<Word[1], Argument>>
               from == [line |-> n, arg |-> p]
               sets == [o \in SetOptions |-> <<>>]
    <2>1. dev[1] = Word[1] /\ from.line = n /\ from.arg = p /\ \A o \in SetOptions : sets[o] = <<>>
      OBVIOUS
    <2>2. from = [line |-> from.line, arg |-> from.arg] /\ sets = [o \in SetOptions |-> sets[o]]
      OBVIOUS
    <2> HIDE DEF dev, from, sets, x
    <2>3. r = [device |-> dev, from |-> from, set |-> sets, first |-> 0, last |-> 0,
               period |-> 0, nmea |-> 0, send |-> x, message |-> <<>>, text |-> <<>>]
      BY DEF dev, from, sets
    <2> HIDE DEF r
    <2>4. RecForm(r)
      BY <2>2, <2>3 DEF RecForm
    <2>5. /\ r.from = from /\ r.device = dev /\ r.set = sets /\ r.text = <<>> /\ r.send = x
          /\ r.message = <<>>
      BY <2>3
    <2>6. QED
      BY <2>1, <2>4, <2>5
  <1>9. r.send = (r.device[1] = "-x")
    <2> HIDE DEF r
    <2> QED BY <1>8
  <1> HIDE DEF r
  <1>10. \A q \in DOMAIN records :
              ~(records[q].from.line = r.from.line /\ records[q].from.arg = r.from.arg)
    <2> SUFFICES ASSUME NEW q \in DOMAIN records, records[q].from.line = n,
                        records[q].from.arg = p
                 PROVE  FALSE
      BY <1>8
    <2>1. p < p
      BY <1>7 DEF LineRead
    <2>2. p \in Nat
      BY <1>4, <1>7 DEF LineWords
    <2>3. QED
      BY <2>1, <2>2
  <1>11. /\ RecsOK(recs2, lines) /\ OnlyOf(n, records, recs2)
         /\ DOMAIN recs2 = DOMAIN records \cup {k} /\ k \notin DOMAIN records /\ k # Unset
         /\ recs2[k] = r /\ \A q \in DOMAIN records : recs2[q] = records[q]
    <2>1. r.from.line \in DOMAIN lines
      BY <1>7, <1>8
    <2> HIDE DEF n
    <2>2. QED
      BY <1>7, <1>8, <1>10, <2>1, RecordAdded DEF n
  <1>12. RecRead(r, w, p2)
    <2>1. w[p][1] \in DeviceOptions
      BY <1>2, <1>4
    <2> HIDE DEF w, p, p2
    <2>2. QED
      BY <1>4, <1>5, <1>7, <1>8, <1>9, <2>1, RecNew
  <1> HIDE DEF recs2, k
  <1>13. LineRead(n, w, p2, recs2) /\ Current(k, n, w, p2, recs2)
    <2>1. w[p][1] \in DeviceOptions
      BY <1>2, <1>4
    <2>2. recs2[k].from.line = n /\ recs2[k].from.arg = p /\ RecRead(recs2[k], w, p2)
      BY <1>8, <1>11, <1>12
    <2> HIDE DEF w, p, p2, n
    <2>3. QED
      BY <1>4, <1>5, <1>7, <1>11, <2>1, <2>2, LineNew
  <1>14. RecordAt(Top, p2, k) = f
    <2> HIDE DEF p2
    <2> QED BY <1>3, FrameChanged
  <1>15. a = 0 <=> Top.argParam = 0 /\ IsOption(Word)
    BY <1>6
  <1> HIDE DEF p2, a
  <1>16. \E pos2 : Reading(Onto(f), lines, recs2, pos2)
    BY <1>1, <1>2, <1>3, <1>5, <1>11, <1>13, <1>15, RecordsOn
  <1> HIDE DEF f
  <1>17. stack' = Onto(f)
    BY <1>2, <1>14 DEF k
  <1>18. QED
    BY <1>2, <1>16, <1>17 DEF Configured

-----------------------------------------------------------------------------
(* main() hands over arguments that are not empty, and no record is there. *)
Handed ==
    /\ records = <<>> /\ arg \in Nat \ {0}
    /\ \E w \in Seq(Seq(Symbols) \ {<<>>}) : stack = <<Frame(1, w)>>

StartInv ==
    /\ GivenOK
    /\ status = "args" => Handed
    /\ status \in {"config", "done"} /\ ~stray => Configured
    /\ status = "done" /\ ~stray =>
          Len(stack) = 1 /\ stack[1].arg > Len(stack[1].words)

LEMMA StartInvInit ==
    ASSUME StartInit, GivenOK PROVE StartInv
  <1>1. <<>> \in Seq(Seq(Symbols) \ {<<>>})
    BY EmptySeq
  <1> DEFINE W == Seq(Symbols) \ {<<>>}
  <1>2. \E w \in Seq(W) : stack = <<Frame(1, w)>>
    <2>1. stack = <<Frame(1, <<>>)>> /\ <<>> \in Seq(W)
      BY <1>1 DEF StartInit
    <2> HIDE DEF W
    <2> QED BY <2>1
  <1>3. records = <<>> /\ arg \in Nat \ {0}
    BY DEF StartInit
  <1>4. Handed
    BY <1>2, <1>3 DEF Handed
  <1>5. QED
    BY <1>4 DEF StartInit, StartInv

LEMMA FrameTakesWords ==
    ASSUME NEW w, NEW v, NEW g, g = Frame(1, w)
    PROVE  g.words = w /\ [g EXCEPT !.words = v] = Frame(1, v)
  <1> DEFINE no == FALSE
             none == <<>>
             of(u) == [line |-> 1, words |-> u, arg |-> 1, argParam |-> 0,
                       newQ |-> Unset, reading |-> no, file |-> none]
  <1>1. g = of(w) /\ Frame(1, v) = of(v)
    BY DEF Frame
  <1> HIDE DEF no, none
  <1>2. g.words = w
    BY <1>1
  <1>3. [g EXCEPT !.words = v] = of(v)
    BY <1>1
  <1>4. QED
    BY <1>1, <1>2, <1>3

LEMMA KeepArgHands ==
    ASSUME GivenOK, Handed, KeepArg PROVE Handed'
  <1> DEFINE W == Seq(Symbols) \ {<<>>}
  <1>1. PICK w \in Seq(W) : stack = <<Frame(1, w)>>
    BY DEF Handed
  <1> DEFINE x == argv[arg]
             g == Frame(1, w)
             v == Append(w, x)
  <1>2. x \in W /\ stack' = <<[stack[1] EXCEPT !.words = Append(@, x)]>>
        /\ arg' = arg + 1 /\ records' = records
    <2>1. argv \in Seq(W)
      BY DEF GivenOK
    <2>2. arg \in 1..Len(argv)
      <3>1. Len(argv) \in Nat
        BY <2>1
      <3>2. QED
        BY <3>1 DEF Handed, KeepArg
    <2>3. x \in W
      <3> HIDE DEF W
      <3> QED BY <2>1, <2>2
    <2>4. QED
      BY <2>3 DEF KeepArg
  <1>3. v \in Seq(W)
    <2> HIDE DEF W, x
    <2> QED BY <1>2
  <1>4. stack[1] = g
    <2> HIDE DEF g
    <2> QED BY <1>1 DEF g
  <1>5. g.words = w /\ [g EXCEPT !.words = v] = Frame(1, v)
    <2>1. g = Frame(1, w)
      OBVIOUS
    <2> HIDE DEF v, g
    <2> QED BY <2>1, FrameTakesWords
  <1>6. stack' = <<Frame(1, v)>>
    <2>1. Append(g.words, x) = v
      BY <1>5
    <2> HIDE DEF v, g, x
    <2>2. [g EXCEPT !.words = Append(@, x)] = [g EXCEPT !.words = v]
      BY <2>1
    <2> QED BY <1>2, <1>4, <1>5, <2>2
  <1> HIDE DEF v, g, x
  <1>7. \E u \in Seq(W) : stack' = <<Frame(1, u)>>
    <2> HIDE DEF W
    <2> QED BY <1>3, <1>6
  <1>8. records' = <<>> /\ arg' \in Nat \ {0}
    <2>1. records = <<>> /\ arg \in Nat \ {0}
      BY DEF Handed
    <2> QED BY <1>2, <2>1
  <1>9. QED
    BY <1>7, <1>8 DEF Handed

LEMMA StartConfigReads ==
    ASSUME Handed, StartConfig
    PROVE  /\ Configured'
           /\ status' = "done" => Len(stack') = 1 /\ stack'[1].arg > Len(stack'[1].words)
  <1> DEFINE W == Seq(Symbols) \ {<<>>}
  <1>1. PICK w \in Seq(W) : stack = <<Frame(1, w)>>
    BY DEF Handed
  <1> DEFINE g == Frame(1, w)
  <1>2. LineWords(w)
    <2>1. <<>> \notin W
      OBVIOUS
    <2> HIDE DEF W
    <2>2. Len(w) \in Nat /\ DOMAIN w = 1..Len(w) /\ \A i \in 1..Len(w) : w[i] \in W
      BY <1>1
    <2>3. QED
      BY <2>1, <2>2 DEF LineWords
  <1>3. stack[1] = g /\ Len(stack) = 1
    <2> HIDE DEF g
    <2> QED BY <1>1 DEF g
  <1>4. g.words = w /\ g.arg = 1
    BY DEF Frame
  <1>5. \E pos : Reading(<<Frame(1, w)>>, <<[words |-> w, row |-> CommandRow]>>, <<>>, pos)
    BY <1>2, Begins
  <1>6. /\ stack' = stack /\ records' = <<>>
        /\ lines' = <<[words |-> w, row |-> CommandRow]>>
        /\ status' = "done" => w = <<>>
    BY <1>3, <1>4 DEF StartConfig, Handed
  <1>7. Configured'
    BY <1>1, <1>5, <1>6 DEF Configured
  <1>8. w = <<>> => g.arg > Len(g.words)
    BY <1>4
  <1> HIDE DEF g
  <1>9. QED
    BY <1>3, <1>6, <1>7, <1>8

LEMMA StartInvStep ==
    ASSUME StartInv, [StartNext]_startVars PROVE StartInv'
  <1>1. GivenOK
    BY DEF StartInv
  <1>2. CASE UNCHANGED startVars
    BY <1>2 DEF StartInv, startVars, given, GivenOK, Handed, Configured
  <1>3. ASSUME MainArgs PROVE StartInv'
    <2>1. Handed /\ status = "args"
      BY <1>3 DEF StartInv, MainArgs, MainFlag, LogName, NoLogName, Usage, KeepArg, StartConfig, ArgIs
    <2>2. GivenOK'
      BY <1>1, <1>3 DEF GivenOK, given, MainArgs, MainFlag, LogName, NoLogName, Usage, KeepArg, StartConfig
    <2>3. CASE MainFlag \/ LogName
      <3>1. status' = status /\ stack' = stack /\ records' = records /\ arg' \in {arg + 1, arg + 2}
        BY <2>3 DEF MainFlag, LogName
      <3>2. Handed'
        BY <2>1, <3>1 DEF Handed
      <3>3. QED
        BY <2>1, <2>2, <3>1, <3>2 DEF StartInv
    <2>4. CASE NoLogName \/ Usage
      <3>1. status' \in {"crash", "exit"}
        BY <2>4 DEF NoLogName, Usage
      <3>2. QED
        BY <2>2, <3>1 DEF StartInv
    <2>5. CASE KeepArg
      <3>1. Handed' /\ status' = status
        BY <1>1, <2>1, <2>5, KeepArgHands DEF KeepArg
      <3>2. QED
        BY <2>1, <2>2, <3>1 DEF StartInv
    <2>6. CASE StartConfig
      <3>1. status' \in {"done", "config"}
        BY <2>6 DEF StartConfig
      <3>2. QED
        BY <2>1, <2>2, <2>6, <3>1, StartConfigReads DEF StartInv
    <2>7. QED
      BY <1>3, <2>3, <2>4, <2>5, <2>6 DEF MainArgs
  <1> DEFINE Step == NoArgument \/ AddRecord \/ SetOption \/ UseUnset \/ SaveArgument
                         \/ SetMessage \/ PassOver \/ OpenFile \/ ReadLine \/ EndOfFile \/ Return
  <1>4. ASSUME Step PROVE StartInv'
    <2>1. status = "config"
      BY <1>4 DEF NoArgument, AddRecord, SetOption, UseUnset, SaveArgument, SetMessage,
                  PassOver, OpenFile, ReadLine, EndOfFile, Return, Configures
    <2>2. GivenOK'
      BY <1>1, <1>4 DEF GivenOK, given, NoArgument, AddRecord, SetOption, UseUnset,
            SaveArgument, SetMessage, PassOver, OpenFile, ReadLine, EndOfFile, Return
    <2>3. status' # "args"
      BY <1>4, <2>1 DEF NoArgument, AddRecord, SetOption, UseUnset, SaveArgument, SetMessage,
                  PassOver, OpenFile, ReadLine, EndOfFile, Return
    <2>4. CASE NoArgument \/ UseUnset
      <3>1. status' = "exit" \/ stray'
        BY <2>4 DEF NoArgument, UseUnset
      <3>2. QED
        BY <2>2, <2>3, <3>1 DEF StartInv
    <2>5. CASE stray'
      BY <2>2, <2>3, <2>5 DEF StartInv
    <2>6. CASE ~stray' /\ ~(NoArgument \/ UseUnset)
      <3>1. ~stray /\ Configured
        BY <1>4, <2>1, <2>6 DEF StartInv, NoArgument, AddRecord, SetOption, UseUnset,
            SaveArgument, SetMessage, PassOver, OpenFile, ReadLine, EndOfFile, Return
      <3>2. CASE Return
        BY <2>2, <2>3, <3>1, <3>2, ReturnReads DEF StartInv
      <3>3. CASE ~Return
        <4>1. status' # "done"
          BY <1>4, <2>1, <2>6, <3>3 DEF AddRecord, SetOption,
            SaveArgument, SetMessage, PassOver, OpenFile, ReadLine, EndOfFile
        <4>2. ASSUME status' = "config" PROVE Configured'
          BY <1>1, <1>4, <2>6, <3>1, <3>3, <4>2, AddRecordReads, SetOptionReads,
             SaveArgumentReads, SetMessageReads, PassOverReads, OpenFileReads, ReadLineReads,
             EndOfFileReads
        <4>3. QED
          BY <2>2, <2>3, <4>1, <4>2 DEF StartInv
      <3>4. QED
        BY <3>2, <3>3
    <2>7. QED
      BY <2>4, <2>5, <2>6
  <1>5. QED
    BY <1>2, <1>3, <1>4 DEF StartNext

(* When the command line has been read, every device of every line has its *)
(* record, with the settings and the message that are its own: config()    *)
(* keeps newQ and the place in each line apart, whatever files are read.   *)
THEOREM GivenHold == StartSpec => []RecordsAsGiven
  <1>1. StartInit /\ GivenOK => StartInv
    BY StartInvInit
  <1>2. StartInv /\ [StartNext]_startVars => StartInv'
    BY StartInvStep
  <1>3. StartInv => RecordsAsGiven
    <2> SUFFICES ASSUME StartInv, status = "done", ~stray PROVE RecordsAsGiven
      BY DEF RecordsAsGiven
    <2>1. PICK pos : Reading(stack, lines, records, pos)
      BY DEF StartInv, Configured
    <2>2. QED
      BY <2>1, AsGiven DEF StartInv
  <1>4. QED
    BY <1>1, <1>2, <1>3, PTL DEF StartSpec

-----------------------------------------------------------------------------
(* What the state is made of, whether or not an option was used without a  *)
(* record.                                                                 *)
ReadWords == Seq(Alphabet) \ {<<>>}

Counts    == Nat \ {0}
WordLists == Seq(ReadWords)
RowLists  == Seq(FileRows)

Calls == [line: Counts, words: WordLists, arg: Counts, argParam: Nat,
          newQ: Nat, reading: BOOLEAN, file: RowLists]

Messages == Seq(0..255)

DeviceNames == Alphabet \X Seq(Alphabet)
PlacesIn    == [line: Nat, arg: Nat]
Settings    == [SetOptions -> Seq(Alphabet)]
Times       == Nat \cup {NoTime}
Modes       == 0..2
Texts       == Seq(Alphabet)

RecordSet ==
    [device: DeviceNames, from: PlacesIn, set: Settings, first: Times, last: Times,
     period: Nat, nmea: Modes, send: BOOLEAN, message: Messages, text: Texts]

(* A call's record is one of nr, its line one of nl or the next.           *)
Bounded(f, nr, nl) ==
    f.newQ <= nr /\ f.arg <= Len(f.words) + 2 /\ f.line <= nl + 1

StackTyped(stk, nr, nl) ==
    /\ stk # <<>> /\ stk \in Seq(Calls)
    /\ \A k \in DOMAIN stk : Bounded(stk[k], nr, nl)

(* The time of a record is that of the argument that is its setting.       *)
TimesGiven(q) ==
    /\ q.set["-f"] # <<>> => q.first = AbsTimeOf(q.set["-f"], timeNow)
    /\ q.set["-l"] # <<>> => q.last = AbsTimeOf(q.set["-l"], timeNow)

RecordsTyped(recs) ==
    recs \in Seq(RecordSet) /\ \A k \in DOMAIN recs : TimesGiven(recs[k])

LineSet == [words: Seq(ReadWords), row: FileRows]

LinesTyped(lns) ==
    /\ lns \in Seq(LineSet)
    /\ \A n \in 2..Len(lns) : lns[n].words = WordsOf(TextOf(lns[n].row))

ArgSet == [depth: Nat \ {0}, arg: Nat \ {0}]

StartTyped ==
    /\ GivenOK
    /\ status \in {"args", "config", "done", "exit", "crash"}
    /\ arg \in 1..(Len(argv) + 2) /\ stray \in BOOLEAN
    /\ StackTyped(stack, Len(records), Len(lines))
    /\ RecordsTyped(records) /\ LinesTyped(lines)
    /\ cmdlineargs \in Seq(ArgSet)

-----------------------------------------------------------------------------
CallOf(l, w, a, p, q, r, z) ==
    [line |-> l, words |-> w, arg |-> a, argParam |-> p, newQ |-> q, reading |-> r, file |-> z]

IsCall(f, l, w, a, p, q, r, z) ==
    /\ f \in Calls
    /\ f.line = l /\ f.words = w /\ f.arg = a /\ f.argParam = p /\ f.newQ = q
    /\ f.reading = r /\ f.file = z

LEMMA CallMade ==
    ASSUME NEW l \in Counts, NEW w \in WordLists, NEW a \in Counts, NEW p \in Nat,
           NEW q \in Nat, NEW r \in BOOLEAN, NEW z \in RowLists,
           NEW f, f = CallOf(l, w, a, p, q, r, z)
    PROVE  IsCall(f, l, w, a, p, q, r, z)
  <1>1. f \in Calls
    BY DEF CallOf, Calls
  <1>2. /\ f.line = l /\ f.words = w /\ f.arg = a /\ f.argParam = p /\ f.newQ = q /\ f.file = z
    BY DEF CallOf
  <1>3. f.reading = r
    BY DEF CallOf
  <1>4. QED
    BY <1>1, <1>2, <1>3 DEF IsCall

LEMMA CallIs ==
    ASSUME NEW t \in Calls
    PROVE  /\ t = CallOf(t.line, t.words, t.arg, t.argParam, t.newQ, t.reading, t.file)
           /\ t.line \in Counts /\ t.words \in WordLists /\ t.arg \in Counts
           /\ t.argParam \in Nat /\ t.newQ \in Nat /\ t.reading \in BOOLEAN
           /\ t.file \in RowLists
  BY DEF CallOf, Calls

(* One or more fields of a call changed.                                   *)
LEMMA CallChanged ==
    ASSUME NEW t \in Calls, NEW x
    PROVE  /\ [t EXCEPT !.arg = x] =
                 CallOf(t.line, t.words, x, t.argParam, t.newQ, t.reading, t.file)
           /\ [t EXCEPT !.newQ = x] =
                 CallOf(t.line, t.words, t.arg, t.argParam, x, t.reading, t.file)
           /\ [t EXCEPT !.reading = x] =
                 CallOf(t.line, t.words, t.arg, t.argParam, t.newQ, x, t.file)
           /\ [t EXCEPT !.file = x] =
                 CallOf(t.line, t.words, t.arg, t.argParam, t.newQ, t.reading, x)
           /\ [t EXCEPT !.words = x] =
                 CallOf(t.line, x, t.arg, t.argParam, t.newQ, t.reading, t.file)
  <1>1. t = [line |-> t.line, words |-> t.words, arg |-> t.arg, argParam |-> t.argParam,
             newQ |-> t.newQ, reading |-> t.reading, file |-> t.file]
    BY CallIs DEF CallOf
  <1>3. [t EXCEPT !.arg = x] =
                 CallOf(t.line, t.words, x, t.argParam, t.newQ, t.reading, t.file)
    BY <1>1 DEF CallOf
  <1>4. [t EXCEPT !.newQ = x] =
                 CallOf(t.line, t.words, t.arg, t.argParam, x, t.reading, t.file)
    BY <1>1 DEF CallOf
  <1>5. [t EXCEPT !.reading = x] =
                 CallOf(t.line, t.words, t.arg, t.argParam, t.newQ, x, t.file)
    BY <1>1 DEF CallOf
  <1>6. [t EXCEPT !.file = x] =
                 CallOf(t.line, t.words, t.arg, t.argParam, t.newQ, t.reading, x)
    BY <1>1 DEF CallOf
  <1>7. [t EXCEPT !.words = x] =
                 CallOf(t.line, x, t.arg, t.argParam, t.newQ, t.reading, t.file)
    BY <1>1 DEF CallOf
  <1>8. QED
    BY <1>3, <1>4, <1>5, <1>6, <1>7

LEMMA CallRecorded ==
    ASSUME NEW t \in Calls, NEW x, NEW y
    PROVE  RecordAt(t, x, y) = CallOf(t.line, t.words, x, t.argParam, y, t.reading, t.file)
  <1> DEFINE z == t.file
  <1>1. t = [line |-> t.line, words |-> t.words, arg |-> t.arg, argParam |-> t.argParam,
             newQ |-> t.newQ, reading |-> t.reading, file |-> t.file]
    BY CallIs DEF CallOf
  <1> HIDE DEF z
  <1>2. /\ RecordAt(t, x, y) = CallOf(t.line, t.words, x, t.argParam, y, t.reading, t.file)
        /\ FileAt(t, x, y, z) = CallOf(t.line, t.words, x, t.argParam, t.newQ, y, z)
    BY <1>1, FrameChanged DEF CallOf
  <1>3. QED
    BY <1>2

LEMMA CallFiled ==
    ASSUME NEW t \in Calls, NEW x, NEW y, NEW z
    PROVE  FileAt(t, x, y, z) = CallOf(t.line, t.words, x, t.argParam, t.newQ, y, z)
  <1>1. t = [line |-> t.line, words |-> t.words, arg |-> t.arg, argParam |-> t.argParam,
             newQ |-> t.newQ, reading |-> t.reading, file |-> t.file]
    BY CallIs DEF CallOf
  <1>2. QED
    BY <1>1, FrameChanged DEF CallOf

LEMMA CallCounted ==
    ASSUME NEW t \in Calls, NEW x, NEW y
    PROVE  CountedAt(t, x, y) = CallOf(t.line, t.words, x, y, t.newQ, t.reading, t.file)
  <1> DEFINE z == t.file
  <1>1. t = [line |-> t.line, words |-> t.words, arg |-> t.arg, argParam |-> t.argParam,
             newQ |-> t.newQ, reading |-> t.reading, file |-> t.file]
    BY CallIs DEF CallOf
  <1> HIDE DEF z
  <1>2. /\ CountedAt(t, x, y) = CallOf(t.line, t.words, x, y, t.newQ, t.reading, t.file)
        /\ FileAt(t, x, y, z) = CallOf(t.line, t.words, x, t.argParam, t.newQ, y, z)
    BY <1>1, FrameChanged DEF CallOf
  <1>3. QED
    BY <1>2

LEMMA OntoTyped ==
    ASSUME NEW s, NEW nr \in Nat, NEW nl \in Nat, StackTyped(s, nr, nl),
           NEW f \in Calls, Bounded(f, nr, nl)
    PROVE  /\ StackTyped(Front(s) \o <<f>>, nr, nl)
           /\ StackTyped(s \o <<f>>, nr, nl)
           /\ Len(s) # 1 => StackTyped(Front(s), nr, nl)
           /\ Len(s) \in DOMAIN s /\ Len(s) \in Nat \ {0}
           /\ s[Len(s)] \in Calls /\ Bounded(s[Len(s)], nr, nl)
  <1>1. s \in Seq(Calls) /\ s # <<>>
    BY DEF StackTyped
  <1>2. Len(s) \in Nat \ {0} /\ DOMAIN s = 1..Len(s) /\ Sequence(s)
    BY <1>1 DEF Sequence
  <1>3. \A i \in DOMAIN s : s[i] \in Calls /\ Bounded(s[i], nr, nl)
    BY <1>1, <1>2 DEF StackTyped
  <1> DEFINE b == Front(s)
             t == Append(s, f)
             u == b \o <<f>>
  <1>4. /\ Sequence(u) /\ DOMAIN u = DOMAIN s /\ Len(u) = Len(s)
        /\ \A i \in DOMAIN s : u[i] = IF i = Len(s) THEN f ELSE s[i]
    BY <1>1, <1>2, OntoIs
  <1>5. /\ Sequence(b) /\ Len(b) = Len(s) - 1 /\ DOMAIN b = 1..(Len(s) - 1)
        /\ \A i \in 1..(Len(s) - 1) : b[i] = s[i]
    BY <1>1, <1>2, FrontIs
  <1>6. s \o <<f>> = t /\ t \in Seq(Calls) /\ t # <<>> /\ Len(t) = Len(s) + 1
        /\ DOMAIN t = 1..(Len(s) + 1)
        /\ \A i \in 1..Len(s) : t[i] = s[i]
        /\ t[Len(s) + 1] = f
    <2> HIDE DEF t
    <2>1. s \o <<f>> = t /\ t \in Seq(Calls) /\ Len(t) = Len(s) + 1
      BY <1>1, AppendIsConcat, AppendProperties DEF t
    <2>2. (\A i \in 1..Len(s) : t[i] = s[i]) /\ t[Len(s) + 1] = f
      BY <1>1, AppendProperties DEF t
    <2>3. QED
      BY <1>2, <2>1, <2>2
  <1> HIDE DEF b, t, u
  <1>7. \A i \in DOMAIN u : u[i] \in Calls /\ Bounded(u[i], nr, nl)
    BY <1>3, <1>4
  <1>8. \A i \in DOMAIN b : b[i] \in Calls /\ Bounded(b[i], nr, nl)
    BY <1>2, <1>3, <1>5
  <1>9. \A i \in DOMAIN t : t[i] \in Calls /\ Bounded(t[i], nr, nl)
    BY <1>2, <1>3, <1>6
  <1>10. ASSUME NEW v, Sequence(v), \A i \in DOMAIN v : v[i] \in Calls PROVE v \in Seq(Calls)
    <2>1. PICK S : v \in Seq(S)
      BY <1>10 DEF Sequence
    <2>2. Len(v) \in Nat /\ DOMAIN v = 1..Len(v) /\ v = [i \in 1..Len(v) |-> v[i]]
      BY <2>1
    <2>3. QED
      BY <1>10, <2>2
  <1>11. StackTyped(u, nr, nl)
    <2>1. u # <<>>
      BY <1>2, <1>4
    <2>2. QED
      BY <1>4, <1>7, <1>10, <2>1 DEF StackTyped
  <1>12. Len(s) # 1 => StackTyped(b, nr, nl)
    <2>1. Len(s) # 1 => b # <<>>
      BY <1>2, <1>5
    <2>2. QED
      BY <1>5, <1>8, <1>10, <2>1 DEF StackTyped
  <1>13. StackTyped(t, nr, nl)
    BY <1>6, <1>9 DEF StackTyped
  <1>14. StackTyped(Front(s) \o <<f>>, nr, nl) /\ (Len(s) # 1 => StackTyped(Front(s), nr, nl))
    BY <1>11, <1>12 DEF b, u
  <1>15. StackTyped(s \o <<f>>, nr, nl)
    BY <1>6, <1>13
  <1>16. Len(s) \in DOMAIN s
    BY <1>2
  <1>17. QED
    BY <1>2, <1>3, <1>14, <1>15, <1>16

LEMMA StackGrows ==
    ASSUME NEW s, NEW nr \in Nat, NEW nl \in Nat, StackTyped(s, nr, nl),
           NEW nr2 \in Nat, NEW nl2 \in Nat, nr <= nr2, nl <= nl2
    PROVE  StackTyped(s, nr2, nl2)
  <1>1. ASSUME NEW k \in DOMAIN s PROVE Bounded(s[k], nr2, nl2)
    <2>1. s[k] \in Calls /\ Bounded(s[k], nr, nl)
      <3>1. s \in Seq(Calls)
        BY DEF StackTyped
      <3>2. QED
        BY <1>1, <3>1 DEF StackTyped
    <2> DEFINE f == s[k]
    <2> HIDE DEF f
    <2>2. f.newQ \in Nat /\ f.line \in Nat /\ Bounded(f, nr, nl)
      BY <2>1, CallIs DEF f, Counts
    <2>3. Bounded(f, nr2, nl2)
      BY <2>2 DEF Bounded
    <2>4. QED
      BY <2>3 DEF f
  <1>2. QED
    BY <1>1 DEF StackTyped

(* The words of the innermost call.                                        *)
LEMMA TopTyped ==
    ASSUME StartTyped
    PROVE  /\ Top \in Calls /\ Bounded(Top, Len(records), Len(lines))
           /\ Len(stack) \in Nat \ {0} /\ Len(records) \in Nat /\ Len(lines) \in Nat
           /\ Word # <<>> => /\ Word \in ReadWords /\ Word \in Seq(Alphabet)
                             /\ Top.arg \in DOMAIN Top.words /\ Top.arg <= Len(Top.words)
                             /\ Word[1] \in Alphabet
           /\ Argument \in Seq(Alphabet)
  <1>1. Len(records) \in Nat /\ Len(lines) \in Nat
    BY DEF StartTyped, RecordsTyped, LinesTyped
  <1>2. stack \in Seq(Calls) /\ stack # <<>> /\ StackTyped(stack, Len(records), Len(lines))
    BY DEF StartTyped, StackTyped
  <1>3. Len(stack) \in Nat \ {0} /\ DOMAIN stack = 1..Len(stack)
    BY <1>2
  <1>4. Top = stack[Len(stack)]
    BY DEF Top, Last
  <1>5. Top \in Calls /\ Bounded(Top, Len(records), Len(lines))
    <2>1. Len(stack) \in DOMAIN stack
      BY <1>3
    <2>2. QED
      BY <1>2, <1>4, <2>1 DEF StackTyped
  <1> DEFINE W == ReadWords
             w == Top.words
  <1>6. w \in Seq(W)
    BY <1>5, CallIs DEF WordLists
  <1>7. \A x \in W : x \in Seq(Alphabet) /\ x # <<>> /\ x[1] \in Alphabet
    <2> SUFFICES ASSUME NEW x \in W PROVE x \in Seq(Alphabet) /\ x # <<>> /\ x[1] \in Alphabet
      OBVIOUS
    <2>1. x \in Seq(Alphabet) /\ x # <<>>
      BY DEF ReadWords
    <2>2. 1 \in 1..Len(x)
      BY <2>1
    <2>3. QED
      BY <2>1, <2>2
  <1> HIDE DEF W, w
  <1>8. DOMAIN w = 1..Len(w) /\ Len(w) \in Nat /\ \A i \in DOMAIN w : w[i] \in W
    BY <1>6
  <1>9. ASSUME Word # <<>>
        PROVE  /\ Word \in W /\ Word \in Seq(Alphabet)
               /\ Top.arg \in DOMAIN Top.words /\ Top.arg <= Len(Top.words)
               /\ Word[1] \in Alphabet
    <2>1. Top.arg \in DOMAIN w /\ Word = w[Top.arg]
      BY <1>9, WordIs DEF w
    <2>2. QED
      BY <1>7, <1>8, <2>1 DEF w
  <1>10. Argument \in Seq(Alphabet)
    <2>1. CASE Argument = <<>>
      BY <2>1, EmptySeq
    <2>2. CASE Argument # <<>>
      BY <1>7, <1>8, <2>2, WordIs DEF w
    <2>3. QED
      BY <2>1, <2>2
  <1>11. QED
    BY <1>1, <1>3, <1>5, <1>9, <1>10 DEF W

-----------------------------------------------------------------------------
RecordOf(d, w, s, f, l, p, n, y, m, x) ==
    [device |-> d, from |-> w, set |-> s, first |-> f, last |-> l, period |-> p,
     nmea |-> n, send |-> y, message |-> m, text |-> x]

LEMMA RecordMade ==
    ASSUME NEW d \in DeviceNames, NEW w \in PlacesIn, NEW s \in Settings, NEW f \in Times,
           NEW l \in Times, NEW p \in Nat, NEW n \in Modes, NEW y \in BOOLEAN,
           NEW m \in Messages, NEW x \in Texts
    PROVE  LET q == RecordOf(d, w, s, f, l, p, n, y, m, x)
           IN  /\ q \in RecordSet
               /\ q.device = d /\ q.from = w /\ q.set = s /\ q.first = f /\ q.last = l
               /\ q.period = p /\ q.nmea = n /\ q.send = y /\ q.message = m /\ q.text = x
  <1> DEFINE q == RecordOf(d, w, s, f, l, p, n, y, m, x)
  <1>1. q \in RecordSet
    BY DEF RecordOf, RecordSet
  <1>2. /\ q.device = d /\ q.from = w /\ q.set = s /\ q.first = f /\ q.last = l
        /\ q.period = p /\ q.nmea = n /\ q.message = m /\ q.text = x
    BY DEF RecordOf
  <1>3. q.send = y
    BY DEF RecordOf
  <1> HIDE DEF q
  <1>4. QED
    BY <1>1, <1>2, <1>3 DEF q

LEMMA RecordIs ==
    ASSUME NEW q \in RecordSet
    PROVE  /\ q = RecordOf(q.device, q.from, q.set, q.first, q.last, q.period, q.nmea, q.send,
                           q.message, q.text)
           /\ q.device \in DeviceNames /\ q.from \in PlacesIn /\ q.set \in Settings
           /\ q.first \in Times /\ q.last \in Times /\ q.period \in Nat /\ q.nmea \in Modes
           /\ q.send \in BOOLEAN /\ q.message \in Messages /\ q.text \in Texts
           /\ RecForm(q)
  <1>1. /\ \A w \in PlacesIn : w = [line |-> w.line, arg |-> w.arg]
        /\ \A s \in Settings : s = [o \in SetOptions |-> s[o]]
    BY DEF PlacesIn, Settings
  <1>2. /\ q.device \in DeviceNames /\ q.from \in PlacesIn /\ q.set \in Settings
        /\ q.first \in Times /\ q.last \in Times /\ q.period \in Nat /\ q.nmea \in Modes
        /\ q.send \in BOOLEAN /\ q.message \in Messages /\ q.text \in Texts
    BY DEF RecordSet
  <1>3. q = [device |-> q.device, from |-> q.from, set |-> q.set, first |-> q.first,
             last |-> q.last, period |-> q.period, nmea |-> q.nmea, send |-> q.send,
             message |-> q.message, text |-> q.text]
    BY DEF RecordSet
  <1>4. RecForm(q)
    BY <1>1, <1>2, <1>3 DEF RecForm
  <1>5. QED
    BY <1>2, <1>3, <1>4 DEF RecordOf

(* What SettingOf() and Composed() make of a record's fields.                *)
LEMMA FlagForm ==
    ASSUME NEW q \in RecordSet, NEW c, NEW x, NEW m
    PROVE  FlagSet(q, c, x, m) =
              RecordOf(q.device, q.from, [q.set EXCEPT ![c] = x], q.first, q.last, q.period, m,
                       q.send, q.message, q.text)
  <1> DEFINE r == [q EXCEPT !.set[c] = x]
             sets == [q.set EXCEPT ![c] = x]
             u == [r EXCEPT !.nmea = m]
  <1>1. q = [device |-> q.device, from |-> q.from, set |-> q.set, first |-> q.first,
             last |-> q.last, period |-> q.period, nmea |-> q.nmea, send |-> q.send,
             message |-> q.message, text |-> q.text]
    BY RecordIs DEF RecordOf
  <1>2. FlagSet(q, c, x, m) = u
    BY DEF FlagSet
  <1>3. r = [q EXCEPT !.set = sets]
    OBVIOUS
  <1> HIDE DEF r, sets
  <1>4. r = [device |-> q.device, from |-> q.from, set |-> sets, first |-> q.first,
             last |-> q.last, period |-> q.period, nmea |-> q.nmea, send |-> q.send,
             message |-> q.message, text |-> q.text]
    BY <1>1, <1>3
  <1>5. u = [device |-> q.device, from |-> q.from, set |-> sets, first |-> q.first,
             last |-> q.last, period |-> q.period, nmea |-> m, send |-> q.send,
             message |-> q.message, text |-> q.text]
    BY <1>4
  <1> HIDE DEF u
  <1>6. QED
    BY <1>2, <1>5 DEF RecordOf, sets

LEMMA ValueForm ==
    ASSUME NEW q \in RecordSet, NEW c, NEW x, NEW f, NEW l, NEW p
    PROVE  ValueSet(q, c, x, f, l, p) =
              RecordOf(q.device, q.from, [q.set EXCEPT ![c] = x], f, l, p, q.nmea, q.send,
                       q.message, q.text)
  <1> DEFINE r == [q EXCEPT !.set[c] = x]
             sets == [q.set EXCEPT ![c] = x]
             v1 == [r EXCEPT !.first = f]
             v2 == [v1 EXCEPT !.last = l]
             v3 == [v2 EXCEPT !.period = p]
  <1>1. q = [device |-> q.device, from |-> q.from, set |-> q.set, first |-> q.first,
             last |-> q.last, period |-> q.period, nmea |-> q.nmea, send |-> q.send,
             message |-> q.message, text |-> q.text]
    BY RecordIs DEF RecordOf
  <1>2. ValueSet(q, c, x, f, l, p) = v3
    BY DEF ValueSet
  <1>3. r = [q EXCEPT !.set = sets]
    OBVIOUS
  <1> HIDE DEF r, sets
  <1>4. r = [device |-> q.device, from |-> q.from, set |-> sets, first |-> q.first,
             last |-> q.last, period |-> q.period, nmea |-> q.nmea, send |-> q.send,
             message |-> q.message, text |-> q.text]
    BY <1>1, <1>3
  <1>5. v1 = [device |-> q.device, from |-> q.from, set |-> sets, first |-> f,
             last |-> q.last, period |-> q.period, nmea |-> q.nmea, send |-> q.send,
             message |-> q.message, text |-> q.text]
    BY <1>4
  <1> HIDE DEF v1
  <1>6. v2 = [device |-> q.device, from |-> q.from, set |-> sets, first |-> f,
             last |-> l, period |-> q.period, nmea |-> q.nmea, send |-> q.send,
             message |-> q.message, text |-> q.text]
    BY <1>5
  <1> HIDE DEF v2
  <1>7. v3 = [device |-> q.device, from |-> q.from, set |-> sets, first |-> f,
             last |-> l, period |-> p, nmea |-> q.nmea, send |-> q.send,
             message |-> q.message, text |-> q.text]
    BY <1>6
  <1> HIDE DEF v3
  <1>8. QED
    BY <1>2, <1>7 DEF RecordOf, sets

LEMMA SentForm ==
    ASSUME NEW q \in RecordSet, NEW y, NEW x, NEW m
    PROVE  SentAs(q, y, x, m) =
              RecordOf(q.device, q.from, q.set, q.first, q.last, q.period, q.nmea, y, m, x)
  <1> DEFINE w1 == [q EXCEPT !.send = y]
             w2 == [w1 EXCEPT !.text = x]
             w3 == [w2 EXCEPT !.message = m]
  <1>1. q = [device |-> q.device, from |-> q.from, set |-> q.set, first |-> q.first,
             last |-> q.last, period |-> q.period, nmea |-> q.nmea, send |-> q.send,
             message |-> q.message, text |-> q.text]
    BY RecordIs DEF RecordOf
  <1>2. SentAs(q, y, x, m) = w3
    BY DEF SentAs
  <1>3. w1 = [device |-> q.device, from |-> q.from, set |-> q.set, first |-> q.first,
             last |-> q.last, period |-> q.period, nmea |-> q.nmea, send |-> y,
             message |-> q.message, text |-> q.text]
    BY <1>1
  <1> HIDE DEF w1
  <1>4. w2 = [device |-> q.device, from |-> q.from, set |-> q.set, first |-> q.first,
             last |-> q.last, period |-> q.period, nmea |-> q.nmea, send |-> y,
             message |-> q.message, text |-> x]
    BY <1>3
  <1> HIDE DEF w2
  <1>5. w3 = [device |-> q.device, from |-> q.from, set |-> q.set, first |-> q.first,
             last |-> q.last, period |-> q.period, nmea |-> q.nmea, send |-> y,
             message |-> m, text |-> x]
    BY <1>4
  <1> HIDE DEF w3
  <1>6. QED
    BY <1>2, <1>5 DEF RecordOf

LEMMA OptionValues ==
    /\ "-f" \in SetOptions /\ "-l" \in SetOptions /\ "-p" \in SetOptions
    /\ "-f" \notin FlagOptions /\ "-l" \notin FlagOptions /\ "-p" \notin FlagOptions
    /\ "-m" \in FlagOptions /\ "-mx" \in FlagOptions
  BY DEF SetOptions, FlagOptions, ValueOptions

LEMMA SettingTyped ==
    ASSUME StartTyped, NEW q \in RecordSet, TimesGiven(q), Word # <<>>, Word[1] \in SetOptions
    PROVE  SettingOf(q) \in RecordSet /\ TimesGiven(SettingOf(q))
  <1> DEFINE c == Word[1]
             W == Word
             A == Argument
             n == CASE c = "-m" -> 1 [] c = "-mx" -> 2 [] OTHER -> q.nmea
             f == IF c = "-f" THEN AbsTimeOf(Argument, timeNow) ELSE q.first
             l == IF c = "-l" THEN AbsTimeOf(Argument, timeNow) ELSE q.last
             p == IF c = "-p" THEN AbsTimeOf(Argument, 0) ELSE q.period
             Of(s, ff, ll, pp, nn) ==
                RecordOf(q.device, q.from, s, ff, ll, pp, nn, q.send, q.message, q.text)
             flags  == [q.set EXCEPT ![c] = W]
             values == [q.set EXCEPT ![c] = A]
  <1>1. W \in Seq(Alphabet) /\ A \in Seq(Alphabet)
    BY TopTyped
  <1>2. timeNow \in Nat
    <2>1. timeNow \in Clock
      BY DEF StartTyped, GivenOK
    <2>2. QED
      BY <2>1, ClockTime
  <1>3. /\ AbsTimeOf(A, timeNow) \in Times /\ AbsTimeOf(A, 0) \in Nat
    BY <1>1, <1>2, TimeType DEF Times
  <1>4. /\ q.device \in DeviceNames /\ q.from \in PlacesIn /\ q.set \in Settings
        /\ q.first \in Times /\ q.last \in Times /\ q.period \in Nat /\ q.nmea \in Modes
        /\ q.send \in BOOLEAN /\ q.message \in Messages /\ q.text \in Texts
    BY RecordIs
  <1>5. f \in Times /\ l \in Times /\ p \in Nat /\ n \in Modes
    BY <1>3, <1>4 DEF Modes
  <1>6. /\ flags \in Settings /\ values \in Settings
        /\ \A o \in SetOptions : /\ flags[o] = IF o = c THEN W ELSE q.set[o]
                                 /\ values[o] = IF o = c THEN A ELSE q.set[o]
    <2> DEFINE C == Seq(Alphabet)
    <2>1. W \in C /\ A \in C /\ q.set \in [SetOptions -> C] /\ c \in SetOptions
      BY <1>1, <1>4 DEF Settings
    <2> HIDE DEF C, W, A, c
    <2>2. /\ flags \in [SetOptions -> C] /\ values \in [SetOptions -> C]
          /\ \A o \in SetOptions : /\ flags[o] = IF o = c THEN W ELSE q.set[o]
                                   /\ values[o] = IF o = c THEN A ELSE q.set[o]
      BY <2>1
    <2>3. QED
      BY <2>2 DEF C, Settings
  <1>7. c \in FlagOptions \/ c \in ValueOptions
    BY DEF SetOptions
  <1>8. CASE c \in FlagOptions
    <2>1. c \notin ValueOptions
      BY <1>8, OptionSets
    <2>2. SettingOf(q) = FlagSet(q, c, W, n)
      BY <1>8, <2>1 DEF SettingOf, FlagSet
    <2>3. c # "-f" /\ c # "-l"
      BY <1>8, OptionValues
    <2> HIDE DEF c, W, n, flags
    <2>4. SettingOf(q) = Of(flags, q.first, q.last, q.period, n)
      BY <2>2, FlagForm DEF flags
    <2> DEFINE r == Of(flags, q.first, q.last, q.period, n)
    <2>5. r \in RecordSet /\ r.set = flags /\ r.first = q.first /\ r.last = q.last
      BY SMTT(30), <1>4, <1>5, <1>6, RecordMade
    <2> HIDE DEF r
    <2>6. flags["-f"] = q.set["-f"] /\ flags["-l"] = q.set["-l"]
      BY <1>6, <2>3, OptionValues
    <2>7. TimesGiven(r)
      BY <2>5, <2>6 DEF TimesGiven
    <2>8. QED
      BY <2>4, <2>5, <2>7 DEF r
  <1>9. CASE c \in ValueOptions
    <2>1. c \notin FlagOptions
      BY <1>9, OptionSets
    <2>2. SettingOf(q) = ValueSet(q, c, A, f, l, p)
      BY <1>9, <2>1 DEF SettingOf, ValueSet
    <2>3. /\ c = "-f" => f = AbsTimeOf(A, timeNow)
          /\ c # "-f" => f = q.first
          /\ c = "-l" => l = AbsTimeOf(A, timeNow)
          /\ c # "-l" => l = q.last
      OBVIOUS
    <2> HIDE DEF c, A, f, l, p, values
    <2>4. SettingOf(q) = Of(values, f, l, p, q.nmea)
      BY SMTT(30), <2>2, ValueForm DEF values
    <2> DEFINE r == Of(values, f, l, p, q.nmea)
    <2>5. r \in RecordSet /\ r.set = values /\ r.first = f /\ r.last = l
      BY SMTT(30), <1>4, <1>5, <1>6, RecordMade
    <2> HIDE DEF r
    <2>6. /\ values["-f"] = IF c = "-f" THEN A ELSE q.set["-f"]
          /\ values["-l"] = IF c = "-l" THEN A ELSE q.set["-l"]
      BY <1>6, OptionValues
    <2>7. TimesGiven(r)
      BY <2>3, <2>5, <2>6 DEF TimesGiven
    <2>8. QED
      BY <2>4, <2>5, <2>7 DEF r
  <1>10. QED
    BY <1>7, <1>8, <1>9

(* The arguments of -j are words, or nothing.                              *)
LEMMA ArgsTyped ==
    ASSUME StartTyped
    PROVE  \A k \in DOMAIN ArgsNow : ArgsNow[k] \in Seq(DOMAIN Code)
  <1> SUFFICES ASSUME NEW k \in DOMAIN ArgsNow PROVE ArgsNow[k] \in Seq(DOMAIN Code)
    OBVIOUS
  <1> DEFINE p == cmdlineargs[k]
             C == Seq(Alphabet)
             f == stack[p.depth]
  <1>1. k \in DOMAIN cmdlineargs
    BY DEF ArgsNow
  <1>2. p \in ArgSet
    BY <1>1 DEF StartTyped
  <1>3. p.depth \in Nat \ {0}
    BY <1>2 DEF ArgSet
  <1>4. ArgsNow[k] = IF p.depth <= Len(stack) THEN WordAt(f, p.arg) ELSE <<>>
    BY <1>1 DEF ArgsNow
  <1> HIDE DEF p
  <1>5. ASSUME p.depth <= Len(stack) PROVE WordAt(f, p.arg) \in C
    <2>1. stack \in Seq(Calls)
      BY DEF StartTyped, StackTyped
    <2>2. p.depth \in 1..Len(stack)
      BY <1>3, <1>5, <2>1
    <2>3. f \in Calls
      BY <2>1, <2>2
    <2> HIDE DEF f
    <2>4. f.words \in Seq(ReadWords)
      BY <2>3, CallIs DEF WordLists
    <2>5. \A x \in ReadWords : x \in C
      BY DEF ReadWords
    <2>6. <<>> \in C
      OBVIOUS
    <2> HIDE DEF C
    <2>7. QED
      BY <2>4, <2>5, <2>6 DEF WordAt
  <1>6. <<>> \in C
    OBVIOUS
  <1>7. ArgsNow[k] \in C
    <2> HIDE DEF C, f
    <2> QED BY <1>4, <1>5, <1>6
  <1>8. QED
    BY <1>7, SymbolsAssumption DEF C

LEMMA SentTyped ==
    ASSUME StartTyped, NEW q \in RecordSet, TimesGiven(q), Word # <<>>, ArgsGiven(Word, ArgsNow)
    PROVE  Composed(q) \in RecordSet /\ TimesGiven(Composed(q))
  <1> DEFINE m == Summed(Unescape(Word, ArgsNow), q.nmea)
             W == Word
             r == RecordOf(q.device, q.from, q.set, q.first, q.last, q.period, q.nmea, TRUE, m, W)
  <1>1. W \in Seq(Alphabet)
    BY TopTyped
  <1>2. m \in Messages
    <2>1. W \in Seq(DOMAIN Code)
      BY <1>1, SymbolsAssumption
    <2>2. Unescape(W, ArgsNow) \in Seq(0..255)
      BY <2>1, ArgsTyped, UnescapeType
    <2>3. QED
      BY <2>2, SummedType DEF Messages
  <1>3. Composed(q) = SentAs(q, TRUE, W, m)
    BY DEF Composed, SentAs
  <1> HIDE DEF m, W
  <1>4. Composed(q) = r
    <2> DEFINE yes == TRUE
    <2> HIDE DEF yes
    <2>1. SentAs(q, yes, W, m) = RecordOf(q.device, q.from, q.set, q.first, q.last, q.period,
                                          q.nmea, yes, m, W)
      BY SentForm
    <2>2. QED
      BY <1>3, <2>1 DEF yes
  <1>5. r \in RecordSet /\ r.set = q.set /\ r.first = q.first /\ r.last = q.last
    <2> DEFINE yes == TRUE
    <2>1. yes \in BOOLEAN
      OBVIOUS
    <2> HIDE DEF yes
    <2> DEFINE z == RecordOf(q.device, q.from, q.set, q.first, q.last, q.period, q.nmea, yes, m, W)
    <2>2. /\ q.device \in DeviceNames /\ q.from \in PlacesIn /\ q.set \in Settings
          /\ q.first \in Times /\ q.last \in Times /\ q.period \in Nat /\ q.nmea \in Modes
          /\ W \in Texts
      BY <1>1, RecordIs DEF Texts
    <2>3. z \in RecordSet /\ z.set = q.set /\ z.first = q.first /\ z.last = q.last
      BY <1>2, <2>1, <2>2, RecordMade
    <2>4. QED
      BY <2>3 DEF yes
  <1> HIDE DEF r
  <1>6. TimesGiven(r)
    BY <1>5 DEF TimesGiven
  <1>7. QED
    BY <1>4, <1>5, <1>6

-----------------------------------------------------------------------------
Statuses == {"args", "config", "done", "exit", "crash"}

LEMMA TypedNext ==
    ASSUME StartTyped, given' = given, status' \in Statuses,
           arg' \in 1..(Len(argv) + 2), stray' \in BOOLEAN,
           StackTyped(stack', Len(records'), Len(lines')),
           RecordsTyped(records'), LinesTyped(lines'), cmdlineargs' \in Seq(ArgSet)
    PROVE  StartTyped'
  <1>1. argv' = argv /\ files' = files /\ timeNow' = timeNow
    BY DEF given
  <1>2. GivenOK'
    BY <1>1 DEF StartTyped, GivenOK
  <1>3. RecordsTyped(records)'
    BY <1>1 DEF RecordsTyped, TimesGiven
  <1>4. LinesTyped(lines)' /\ StackTyped(stack, Len(records), Len(lines))'
    BY DEF LinesTyped, StackTyped
  <1>5. arg' \in 1..(Len(argv') + 2)
    BY <1>1
  <1>6. QED
    BY <1>2, <1>3, <1>4, <1>5 DEF StartTyped, Statuses

LEMMA TypedNow ==
    ASSUME StartTyped
    PROVE  /\ status \in Statuses /\ arg \in 1..(Len(argv) + 2) /\ stray \in BOOLEAN
           /\ StackTyped(stack, Len(records), Len(lines))
           /\ RecordsTyped(records) /\ LinesTyped(lines) /\ cmdlineargs \in Seq(ArgSet)
           /\ Len(argv) \in Nat
  BY DEF StartTyped, Statuses, GivenOK

LEMMA StartTypedInit ==
    ASSUME StartInit, GivenOK PROVE StartTyped
  <1> DEFINE f == Frame(1, <<>>)
  <1>1. <<>> \in Seq(ReadWords) /\ <<>> \in Seq(FileRows) /\ <<>> \in Seq(RecordSet)
        /\ <<>> \in Seq(LineSet) /\ <<>> \in Seq(ArgSet)
    BY EmptySeq
  <1>2. f = CallOf(1, <<>>, 1, 0, Unset, FALSE, <<>>)
    BY DEF Frame, CallOf
  <1>3. f \in Calls /\ f.newQ = 0 /\ f.arg = 1 /\ f.line = 1 /\ f.words = <<>>
    <2> DEFINE no == FALSE
               none == <<>>
               one == 1
    <2>1. none \in RowLists /\ none \in WordLists /\ one \in Counts /\ no \in BOOLEAN
      BY <1>1 DEF RowLists, WordLists, Counts
    <2> HIDE DEF none, one, no, f
    <2>2. f = CallOf(one, none, one, 0, 0, no, none)
      BY <1>2 DEF none, one, no, Unset
    <2>3. IsCall(f, one, none, one, 0, 0, no, none)
      BY <2>1, <2>2, CallMade
    <2>4. QED
      BY <2>3 DEF one, none, IsCall
  <1> HIDE DEF f
  <1>4. Bounded(f, 0, 0)
    BY <1>3 DEF Bounded
  <1>5. StackTyped(<<f>>, 0, 0)
    <2>1. <<f>> \in Seq(Calls) /\ <<f>> # <<>> /\ DOMAIN <<f>> = 1..1 /\ <<f>>[1] = f
      BY <1>3
    <2>2. QED
      BY <1>4, <2>1 DEF StackTyped
  <1>6. stack = <<f>> /\ records = <<>> /\ lines = <<>> /\ cmdlineargs = <<>>
    BY DEF StartInit, f
  <1>7. Len(<<>>) = 0 /\ DOMAIN <<>> = {} /\ 2..0 = {}
    OBVIOUS
  <1>8. RecordsTyped(<<>>) /\ LinesTyped(<<>>)
    BY <1>1, <1>7 DEF RecordsTyped, LinesTyped
  <1>9. Len(argv) \in Nat
    BY DEF GivenOK
  <1>10. status = "args" /\ arg = 1 /\ stray = FALSE
    BY DEF StartInit
  <1>11. StackTyped(stack, Len(records), Len(lines))
    BY <1>5, <1>6, <1>7
  <1>12. RecordsTyped(records) /\ LinesTyped(lines) /\ cmdlineargs \in Seq(ArgSet)
    BY <1>1, <1>6, <1>8
  <1>13. arg \in 1..(Len(argv) + 2)
    BY <1>9, <1>10
  <1>15. stray \in BOOLEAN
    BY <1>10
  <1>14. QED
    BY <1>10, <1>11, <1>12, <1>13, <1>15 DEF StartTyped

-----------------------------------------------------------------------------
LEMMA KeepArgTyped ==
    ASSUME StartTyped, KeepArg PROVE StartTyped'
  <1> DEFINE x == argv[arg]
             g == stack[1]
             v == Append(g.words, x)
             f == [g EXCEPT !.words = v]
  <1>1. /\ stack' = <<[g EXCEPT !.words = Append(@, x)]>> /\ arg' = arg + 1
        /\ arg <= Len(argv) /\ status' = status /\ records' = records /\ lines' = lines
        /\ cmdlineargs' = cmdlineargs /\ stray' = stray /\ given' = given
    BY DEF KeepArg
  <1>2. x \in ReadWords
    <2> DEFINE W == Seq(Symbols) \ {<<>>}
    <2>1. argv \in Seq(W) /\ arg \in 1..Len(argv)
      BY <1>1, TypedNow DEF StartTyped, GivenOK
    <2> HIDE DEF W
    <2>2. x \in W
      BY <2>1
    <2>3. Symbols \subseteq Alphabet
      BY DEF Alphabet
    <2>4. W \subseteq ReadWords
      BY <2>3 DEF ReadWords, W
    <2>5. QED
      BY <2>2, <2>4
  <1>3. g \in Calls /\ Bounded(g, Len(records), Len(lines))
    <2>1. stack \in Seq(Calls) /\ stack # <<>>
      BY TypedNow DEF StackTyped
    <2>2. 1 \in DOMAIN stack
      BY <2>1
    <2>3. QED
      BY <2>1, <2>2, TypedNow DEF StackTyped
  <1> HIDE DEF g, x
  <1>4. g.words \in Seq(ReadWords) /\ v \in Seq(ReadWords) /\ Len(v) = Len(g.words) + 1
        /\ Len(g.words) \in Nat
    <2>1. g.words \in Seq(ReadWords)
      BY <1>3, CallIs DEF WordLists
    <2>2. QED
      BY <1>2, <2>1
  <1>5. f \in Calls /\ Bounded(f, Len(records), Len(lines))
    <2> HIDE DEF v, f
    <2>1. f = CallOf(g.line, v, g.arg, g.argParam, g.newQ, g.reading, g.file)
      BY <1>3, CallChanged DEF f
    <2> DEFINE a == g.line
               b == g.arg
               c == g.argParam
               d == g.newQ
               r == g.reading
               z == g.file
    <2>5. /\ a \in Counts /\ b \in Counts /\ c \in Nat /\ d \in Nat /\ r \in BOOLEAN
          /\ z \in RowLists /\ v \in WordLists
      BY <1>3, <1>4, CallIs DEF WordLists
    <2> HIDE DEF a, b, c, d, r, z
    <2>6. IsCall(f, a, v, b, c, d, r, z)
      BY <2>1, <2>5, CallMade DEF a, b, c, d, r, z
    <2>2. f \in Calls /\ f.newQ = g.newQ /\ f.line = g.line /\ f.arg = g.arg /\ f.words = v
      BY <2>6 DEF IsCall, a, b, c, d, r, z
    <2>3. g.arg \in Nat
      BY <1>3, CallIs DEF Counts
    <2>4. QED
      BY <1>3, <1>4, <2>2, <2>3 DEF Bounded
  <1>6. stack' = <<f>>
    BY <1>1
  <1> HIDE DEF f, v
  <1>7. StackTyped(<<f>>, Len(records), Len(lines))
    <2>1. <<f>> \in Seq(Calls) /\ <<f>> # <<>> /\ DOMAIN <<f>> = 1..1 /\ <<f>>[1] = f
      BY <1>5
    <2>2. QED
      BY <1>5, <2>1 DEF StackTyped
  <1>8. arg' \in 1..(Len(argv) + 2)
    BY <1>1, TypedNow
  <1>9. QED
    BY <1>1, <1>6, <1>7, <1>8, TypedNow, TypedNext

LEMMA StartConfigTyped ==
    ASSUME StartTyped, Handed, StartConfig PROVE StartTyped'
  <1> DEFINE W == Seq(Symbols) \ {<<>>}
  <1>1. PICK w \in Seq(W) : stack = <<Frame(1, w)>>
    BY DEF Handed
  <1> DEFINE g == Frame(1, w)
             line == [words |-> w, row |-> CommandRow]
             no == FALSE
  <1>2. g = CallOf(1, w, 1, 0, Unset, no, <<>>) /\ no \in BOOLEAN
    BY DEF Frame, CallOf
  <1>3. w \in Seq(ReadWords)
    <2>1. Symbols \subseteq Alphabet
      BY DEF Alphabet
    <2>2. W \subseteq ReadWords
      BY <2>1 DEF ReadWords
    <2> HIDE DEF W
    <2>3. QED
      BY <2>2
  <1>4. stack[1] = g /\ Len(stack) = 1
    <2> HIDE DEF g
    <2> QED BY <1>1 DEF g
  <1> HIDE DEF g, no
  <1>5. g \in Calls /\ g.newQ = 0 /\ g.arg = 1 /\ g.line = 1 /\ g.words = w
    <2> DEFINE none == <<>>
               one == 1
    <2>1. none \in RowLists /\ w \in WordLists /\ one \in Counts
      BY <1>3, EmptySeq DEF RowLists, WordLists, Counts
    <2> HIDE DEF none, one
    <2>2. g = CallOf(one, w, one, 0, 0, no, none)
      BY <1>2 DEF none, one, Unset
    <2>3. IsCall(g, one, w, one, 0, 0, no, none)
      BY <1>2, <2>1, <2>2, CallMade
    <2>4. QED
      BY <2>3 DEF one, IsCall
  <1>6. CommandRow \in FileRows
    <2> DEFINE V == [word: Seq(Symbols), quoted: BOOLEAN]
               yes == TRUE
               none == <<>>
    <2>1. none \in Seq(V) /\ yes \in BOOLEAN
      BY EmptySeq
    <2>2. FileRows = [words: Seq(V), closed: BOOLEAN]
      BY DEF FileRows
    <2>3. CommandRow = [words |-> none, closed |-> yes]
      BY DEF CommandRow
    <2> HIDE DEF V, yes, none
    <2>4. QED
      BY <2>1, <2>2, <2>3
  <1>7. line \in LineSet
    BY <1>3, <1>6 DEF LineSet
  <1>8. /\ stack' = stack /\ records' = records /\ arg' = arg /\ given' = given
        /\ cmdlineargs' = cmdlineargs /\ stray' = stray /\ status' \in {"done", "config"}
        /\ lines' = <<[words |-> stack[1].words, row |-> CommandRow]>>
    BY DEF StartConfig
  <1>9. lines' = <<line>>
    BY <1>4, <1>5, <1>8
  <1> HIDE DEF line
  <1>10. LinesTyped(<<line>>) /\ Len(<<line>>) = 1
    BY <1>7 DEF LinesTyped
  <1>11. StackTyped(stack, Len(records), 1)
    <2>1. Len(records) \in Nat /\ Len(w) \in Nat
      BY <1>3, TopTyped
    <2>2. Bounded(g, Len(records), 1)
      BY <1>5, <2>1 DEF Bounded
    <2>3. stack \in Seq(Calls) /\ DOMAIN stack = 1..1 /\ stack # <<>>
      BY <1>4, TypedNow DEF StackTyped
    <2>4. QED
      BY <1>4, <2>2, <2>3 DEF StackTyped
  <1>12. QED
    BY <1>8, <1>9, <1>10, <1>11, TypedNow, TypedNext DEF Statuses

LEMMA MainArgsTyped ==
    ASSUME StartTyped, MainFlag \/ LogName \/ NoLogName \/ Usage PROVE StartTyped'
  <1>1. /\ given' = given /\ stack' = stack /\ records' = records /\ cmdlineargs' = cmdlineargs
        /\ lines' = lines /\ stray' = stray
    BY DEF MainFlag, LogName, NoLogName, Usage, ArgIs
  <1>2. status' \in Statuses
    BY TypedNow DEF MainFlag, LogName, NoLogName, Usage, Statuses
  <1>3. arg' \in 1..(Len(argv) + 2)
    <2>1. CASE MainFlag \/ LogName
      <3>1. arg' = arg + 1 \/ (arg' = arg + 2 /\ arg < Len(argv))
        BY <2>1 DEF MainFlag, LogName
      <3>2. arg <= Len(argv)
        BY <2>1 DEF MainFlag, LogName, ArgIs
      <3>3. QED
        BY <3>1, <3>2, TypedNow
    <2>2. CASE NoLogName \/ Usage
      BY <2>2, TypedNow DEF NoLogName, Usage
    <2>3. QED
      BY <2>1, <2>2
  <1>4. QED
    BY <1>1, <1>2, <1>3, TypedNow, TypedNext

-----------------------------------------------------------------------------
(* The innermost call is another one.                                      *)
LEMMA TopChanges ==
    ASSUME StartTyped, NEW f \in Calls, NEW nr \in Nat, Len(records) <= nr,
           f.newQ <= nr, f.arg <= Len(f.words) + 2, f.line <= Len(lines) + 1
    PROVE  StackTyped(Onto(f), nr, Len(lines))
  <1>1. StackTyped(stack, nr, Len(lines))
    BY TypedNow, TopTyped, StackGrows
  <1>2. Bounded(f, nr, Len(lines))
    BY DEF Bounded
  <1>3. QED
    BY <1>1, <1>2, TopTyped, OntoTyped DEF Onto

(* The innermost call goes on to a later argument.                         *)
LEMMA CallGoesOn ==
    ASSUME StartTyped, Word # <<>>, NEW a \in {Top.arg + 1, Top.arg + 2}, NEW p \in Nat,
           NEW nr \in Nat, Len(records) <= nr, NEW q \in Nat, q <= nr,
           NEW r \in BOOLEAN, NEW z \in RowLists
    PROVE  StackTyped(Onto(CallOf(Top.line, Top.words, a, p, q, r, z)), nr, Len(lines))
  <1> DEFINE t == Top
             f == CallOf(t.line, t.words, a, p, q, r, z)
  <1>1. t \in Calls /\ Bounded(t, Len(records), Len(lines)) /\ t.arg <= Len(t.words)
    BY TopTyped
  <1>2. a \in {t.arg + 1, t.arg + 2}
    OBVIOUS
  <1> HIDE DEF t
  <1>3. /\ t.line \in Counts /\ t.words \in WordLists /\ t.arg \in Counts
    BY <1>1, CallIs
  <1>4. Len(t.words) \in Nat
    BY <1>3 DEF WordLists
  <1>5. a \in Counts /\ a <= Len(t.words) + 2
    BY <1>1, <1>2, <1>3, <1>4 DEF Counts
  <1>6. f \in Calls /\ f.newQ = q /\ f.arg = a /\ f.line = t.line /\ f.words = t.words
    <2> DEFINE l == t.line
               w == t.words
    <2>1. l \in Counts /\ w \in WordLists /\ a \in Counts
      BY <1>3, <1>5
    <2> HIDE DEF l, w
    <2>4. f = CallOf(l, w, a, p, q, r, z)
      BY DEF l, w
    <2> HIDE DEF f
    <2>2. IsCall(f, l, w, a, p, q, r, z)
      BY <2>1, <2>4, CallMade
    <2>3. QED
      BY <2>2 DEF l, w, IsCall
  <1> HIDE DEF f
  <1>7. StackTyped(Onto(f), nr, Len(lines))
    BY <1>1, <1>5, <1>6, TopChanges DEF Bounded
  <1>8. QED
    BY <1>7 DEF f, t

-----------------------------------------------------------------------------
(* The innermost call stays where it is, with another record or file.      *)
LEMMA CallStays ==
    ASSUME StartTyped, NEW q \in Nat, q <= Len(records), NEW r \in BOOLEAN, NEW z \in RowLists,
           NEW f, f = CallOf(Top.line, Top.words, Top.arg, Top.argParam, q, r, z)
    PROVE  /\ StackTyped(Onto(f), Len(records), Len(lines))
           /\ f \in Calls /\ Bounded(f, Len(records), Len(lines))
  <1> DEFINE t == Top
             l == t.line
             w == t.words
             a == t.arg
             p == t.argParam
  <1>1. t \in Calls /\ Bounded(t, Len(records), Len(lines)) /\ Len(records) \in Nat
    BY TopTyped
  <1>2. f = CallOf(l, w, a, p, q, r, z)
    OBVIOUS
  <1> HIDE DEF t
  <1>3. l \in Counts /\ w \in WordLists /\ a \in Counts /\ p \in Nat
    BY <1>1, CallIs
  <1>4. a <= Len(w) + 2 /\ l <= Len(lines) + 1
    BY <1>1 DEF Bounded
  <1> HIDE DEF l, w, a, p
  <1>5. IsCall(f, l, w, a, p, q, r, z)
    BY <1>2, <1>3, CallMade
  <1>6. f \in Calls /\ f.newQ <= Len(records) /\ f.arg <= Len(f.words) + 2
        /\ f.line <= Len(lines) + 1
    BY <1>4, <1>5 DEF IsCall
  <1>7. Len(records) <= Len(records)
    BY <1>1
  <1>8. QED
    BY <1>1, <1>6, <1>7, TopChanges DEF Bounded

LEMMA NoArgumentTyped ==
    ASSUME StartTyped, NoArgument PROVE StartTyped'
  <1>1. /\ status' = "exit" /\ given' = given /\ arg' = arg /\ stack' = stack
        /\ records' = records /\ cmdlineargs' = cmdlineargs /\ lines' = lines /\ stray' = stray
    BY DEF NoArgument
  <1>2. status' \in Statuses
    BY <1>1 DEF Statuses
  <1>3. QED
    BY <1>1, <1>2, TypedNow, TypedNext

LEMMA AddRecordTyped ==
    ASSUME StartTyped, AddRecord PROVE StartTyped'
  <1> DEFINE d == <<Word[1], Argument>>
             w == [line |-> Top.line, arg |-> Top.arg]
             s == [o \in SetOptions |-> <<>>]
             y == Word[1] = "-x"
             none == <<>>
             new == RecordOf(d, w, s, 0, 0, 0, 0, y, none, none)
             recs == Append(records, new)
             f == [Top EXCEPT !.newQ = Len(recs), !.arg = @ + 2]
             n == Len(recs)
             a == Top.arg + 2
             g == CallOf(Top.line, Top.words, a, Top.argParam, n, Top.reading, Top.file)
  <1>1. /\ Word # <<>> /\ given' = given /\ status' = status /\ arg' = arg
        /\ cmdlineargs' = cmdlineargs /\ lines' = lines /\ stray' = stray
        /\ records' = recs
        /\ stack' = Onto([Top EXCEPT !.newQ = Len(records'), !.arg = @ + 2])
    BY DEF AddRecord, RecordOf
  <1>2. stack' = Onto(f)
    <2> HIDE DEF recs
    <2> QED BY <1>1
  <1>3. Word[1] \in Alphabet /\ Argument \in Seq(Alphabet) /\ Top \in Calls /\ Len(records) \in Nat
    BY <1>1, TopTyped
  <1>4. f = g
    <2>1. f = RecordAt(Top, a, n)
      BY DEF RecordAt
    <2> HIDE DEF f, recs, n, a
    <2>2. RecordAt(Top, a, n) = g
      BY <1>3, CallRecorded
    <2> HIDE DEF g
    <2>3. QED
      BY <2>1, <2>2
  <1>5. new \in RecordSet /\ new.set = s
    <2>1. d \in DeviceNames
      BY <1>3 DEF DeviceNames
    <2>2. Top.line \in Nat /\ Top.arg \in Nat
      BY <1>3, CallIs DEF Counts
    <2>3. w \in PlacesIn
      BY <2>2 DEF PlacesIn
    <2>4. s \in Settings
      BY EmptySeq DEF Settings
    <2>5. y \in BOOLEAN /\ none \in Messages /\ none \in Texts
      BY EmptySeq DEF Messages, Texts
    <2> DEFINE zero == 0
    <2>6. zero \in Times /\ zero \in Nat /\ zero \in Modes
      BY DEF Times, Modes
    <2> HIDE DEF d, w, s, y, none, zero
    <2> DEFINE q == RecordOf(d, w, s, zero, zero, zero, zero, y, none, none)
    <2>7. q \in RecordSet /\ q.set = s
      BY <2>1, <2>3, <2>4, <2>5, <2>6, RecordMade
    <2>8. QED
      BY <2>7 DEF zero
  <1>6. s["-f"] = <<>> /\ s["-l"] = <<>>
    BY OptionValues
  <1> HIDE DEF new, s
  <1>7. TimesGiven(new)
    BY <1>5, <1>6 DEF TimesGiven
  <1>8. records \in Seq(RecordSet) /\ \A k \in DOMAIN records : TimesGiven(records[k])
    BY TypedNow DEF RecordsTyped
  <1>9. recs \in Seq(RecordSet) /\ Len(recs) = Len(records) + 1
        /\ DOMAIN recs = 1..(Len(records) + 1) /\ DOMAIN records = 1..Len(records)
        /\ recs[Len(records) + 1] = new
        /\ \A k \in DOMAIN records : recs[k] = records[k]
    BY <1>5, <1>8
  <1> HIDE DEF recs
  <1>10. RecordsTyped(recs)
    <2>1. ASSUME NEW k \in DOMAIN recs PROVE TimesGiven(recs[k])
      <3>1. k = Len(records) + 1 \/ k \in DOMAIN records
        BY <1>3, <1>9
      <3>2. QED
        BY <1>7, <1>8, <1>9, <3>1
    <2>2. QED
      BY <1>9, <2>1 DEF RecordsTyped
  <1>11. StackTyped(Onto(g), n, Len(lines))
    <2> DEFINE p == Top.argParam
               r == Top.reading
               z == Top.file
    <2>1. n \in Nat /\ Len(records) <= n /\ n <= n /\ a \in {Top.arg + 1, Top.arg + 2}
      BY <1>3, <1>9
    <2>2. p \in Nat /\ r \in BOOLEAN /\ z \in RowLists
      BY <1>3, CallIs
    <2> HIDE DEF n, a, p, r, z
    <2>3. StackTyped(Onto(CallOf(Top.line, Top.words, a, p, n, r, z)), n, Len(lines))
      BY <1>1, <2>1, <2>2, CallGoesOn
    <2>4. QED
      BY <2>3 DEF p, r, z
  <1> HIDE DEF f, g
  <1>12. QED
    BY <1>1, <1>2, <1>4, <1>10, <1>11, TypedNow, TypedNext

(* One record is changed.                                                  *)
LEMMA RecordTyped ==
    ASSUME StartTyped, NEW k \in 1..Len(records), NEW r,
           r \in RecordSet, TimesGiven(r)
    PROVE  LET recs == [records EXCEPT ![k] = r]
           IN  RecordsTyped(recs) /\ Len(recs) = Len(records)
  <1> DEFINE recs == [records EXCEPT ![k] = r]
  <1>1. records \in Seq(RecordSet) /\ \A i \in DOMAIN records : TimesGiven(records[i])
    BY TypedNow DEF RecordsTyped
  <1>2. recs \in Seq(RecordSet) /\ Len(recs) = Len(records) /\ DOMAIN recs = DOMAIN records
    BY <1>1
  <1>3. \A i \in DOMAIN records : recs[i] = IF i = k THEN r ELSE records[i]
    BY <1>1
  <1> HIDE DEF recs
  <1>4. QED
    BY <1>1, <1>2, <1>3 DEF RecordsTyped

(* The record of the innermost call.                                       *)
LEMMA TopRecord ==
    ASSUME StartTyped, Top.newQ # Unset
    PROVE  /\ Top.newQ \in 1..Len(records) /\ Top.newQ \in DOMAIN records
           /\ records[Top.newQ] \in RecordSet /\ TimesGiven(records[Top.newQ])
  <1>1. Top \in Calls /\ Bounded(Top, Len(records), Len(lines)) /\ Len(records) \in Nat
    BY TopTyped
  <1>2. Top.newQ \in Nat
    BY <1>1, CallIs
  <1>3. records \in Seq(RecordSet) /\ \A i \in DOMAIN records : TimesGiven(records[i])
    BY TypedNow DEF RecordsTyped
  <1>4. Top.newQ \in 1..Len(records)
    BY <1>1, <1>2 DEF Bounded, Unset
  <1>5. DOMAIN records = 1..Len(records)
    BY <1>3
  <1>6. QED
    BY <1>3, <1>4, <1>5

LEMMA SetOptionTyped ==
    ASSUME StartTyped, SetOption PROVE StartTyped'
  <1> DEFINE k == Top.newQ
             r == SettingOf(records[k])
             recs == [records EXCEPT ![k] = r]
             s == IF Word[1] \in FlagOptions THEN 1 ELSE 2
             a == Top.arg + s
             f == [Top EXCEPT !.arg = @ + s]
             g == CallOf(Top.line, Top.words, a, Top.argParam, k, Top.reading, Top.file)
  <1>1. /\ Word # <<>> /\ k # Unset /\ Word[1] \in SetOptions
        /\ given' = given /\ status' = status /\ arg' = arg
        /\ cmdlineargs' = cmdlineargs /\ lines' = lines /\ stray' = stray
        /\ records' = recs /\ stack' = Onto(f)
    BY DEF SetOption, NeedsRecord, SetOptions
  <1>2. Top \in Calls /\ Len(records) \in Nat /\ Bounded(Top, Len(records), Len(lines))
    BY TopTyped
  <1>3. f = g
    <2>1. f = [Top EXCEPT !.arg = a]
      BY <1>2
    <2> HIDE DEF f, a
    <2>2. QED
      BY <1>2, <2>1, CallChanged
  <1>4. RecordsTyped(recs) /\ Len(recs) = Len(records)
    <2>1. k \in 1..Len(records) /\ records[k] \in RecordSet /\ TimesGiven(records[k])
      BY <1>1, TopRecord
    <2>2. r \in RecordSet /\ TimesGiven(r)
      BY <1>1, <2>1, SettingTyped
    <2> HIDE DEF r, k
    <2>3. QED
      BY <2>1, <2>2, RecordTyped
  <1>5. StackTyped(Onto(g), Len(records), Len(lines))
    <2> DEFINE p == Top.argParam
               b == Top.reading
               z == Top.file
               n == Len(records)
    <2>1. a \in {Top.arg + 1, Top.arg + 2}
      OBVIOUS
    <2>2. p \in Nat /\ b \in BOOLEAN /\ z \in RowLists /\ k \in Nat /\ k <= n /\ n <= n
      BY <1>2, CallIs DEF Bounded
    <2>3. n \in Nat
      BY <1>2
    <2> HIDE DEF n, a, p, b, z, k
    <2>4. Len(records) <= n
      BY <2>2 DEF n
    <2>5. StackTyped(Onto(CallOf(Top.line, Top.words, a, p, k, b, z)), n, Len(lines))
      BY <1>1, <2>1, <2>2, <2>3, <2>4, CallGoesOn
    <2>6. QED
      BY <2>5 DEF p, b, z, n
  <1> HIDE DEF recs, f, g
  <1>6. QED
    BY <1>1, <1>3, <1>4, <1>5, TypedNow, TypedNext

LEMMA UseUnsetTyped ==
    ASSUME StartTyped, UseUnset PROVE StartTyped'
  <1>1. /\ given' = given /\ arg' = arg /\ records' = records /\ stray' = TRUE
        /\ cmdlineargs' = cmdlineargs /\ lines' = lines
        /\ \/ status' = "crash" /\ stack' = stack
           \/ status' = status
              /\ \E q \in DOMAIN records : stack' = Onto([Top EXCEPT !.newQ = q])
    BY DEF UseUnset
  <1>2. status' \in Statuses
    BY <1>1, TypedNow DEF Statuses
  <1>3. StackTyped(stack', Len(records), Len(lines))
    <2>1. ASSUME NEW q \in DOMAIN records, stack' = Onto([Top EXCEPT !.newQ = q])
          PROVE  StackTyped(stack', Len(records), Len(lines))
      <3> DEFINE f == [Top EXCEPT !.newQ = q]
                 b == Top.reading
                 z == Top.file
      <3>1. Top \in Calls
        BY TopTyped
      <3>2. b \in BOOLEAN /\ z \in RowLists
        BY <3>1, CallIs
      <3>3. f = CallOf(Top.line, Top.words, Top.arg, Top.argParam, q, b, z)
        BY <3>1, CallChanged
      <3>4. q \in Nat /\ q <= Len(records)
        BY TypedNow DEF RecordsTyped
      <3> HIDE DEF f, b, z
      <3>5. StackTyped(Onto(f), Len(records), Len(lines))
        BY <3>2, <3>3, <3>4, CallStays
      <3>6. QED
        BY <2>1, <3>5 DEF f
    <2>2. QED
      BY <1>1, <2>1, TypedNow
  <1>4. stray' \in BOOLEAN
    BY <1>1
  <1>5. QED
    BY <1>1, <1>2, <1>3, <1>4, TypedNow, TypedNext

(* The innermost call passes to a later argument, nothing else of it       *)
(* changes but how many messages it saw.                                   *)
LEMMA Passes ==
    ASSUME StartTyped, Word # <<>>, NEW a \in {Top.arg + 1, Top.arg + 2}, NEW p \in Nat,
           NEW f, f = CountedAt(Top, a, p)
    PROVE  StackTyped(Onto(f), Len(records), Len(lines))
  <1> DEFINE k == Top.newQ
             b == Top.reading
             z == Top.file
             n == Len(records)
  <1>1. Top \in Calls /\ n \in Nat /\ Bounded(Top, n, Len(lines))
    BY TopTyped
  <1>2. b \in BOOLEAN /\ z \in RowLists /\ k \in Nat /\ k <= n /\ n <= n
    BY <1>1, CallIs DEF Bounded
  <1>3. f = CallOf(Top.line, Top.words, a, p, k, b, z)
    <2> DEFINE t == Top
    <2> HIDE DEF t
    <2>1. CountedAt(t, a, p) = CallOf(t.line, t.words, a, p, t.newQ, t.reading, t.file)
      BY <1>1, CallCounted DEF t
    <2>2. QED
      BY <2>1 DEF t
  <1> HIDE DEF n, k, b, z
  <1>4. Len(records) <= n
    BY <1>2 DEF n
  <1>5. StackTyped(Onto(CallOf(Top.line, Top.words, a, p, k, b, z)), n, Len(lines))
    BY <1>1, <1>2, <1>4, CallGoesOn
  <1>6. QED
    BY <1>3, <1>5 DEF n

-----------------------------------------------------------------------------
LEMMA SaveArgumentTyped ==
    ASSUME StartTyped, SaveArgument PROVE StartTyped'
  <1> DEFINE a == Top.arg + 2
             p == Top.argParam
             f == [Top EXCEPT !.arg = @ + 2]
             g == CountedAt(Top, a, p)
             e == [depth |-> Len(stack), arg |-> Top.arg + 1]
  <1>1. /\ Word # <<>> /\ given' = given /\ status' = status /\ arg' = arg
        /\ records' = records /\ lines' = lines /\ stray' = stray
        /\ cmdlineargs' = Append(cmdlineargs, e) /\ stack' = Onto(f)
    BY DEF SaveArgument
  <1>2. Top \in Calls /\ Len(stack) \in Nat \ {0}
    BY TopTyped
  <1>3. p \in Nat /\ Top.arg \in Nat \ {0}
    BY <1>2, CallIs DEF Counts
  <1>4. f = g
    <2> DEFINE t == Top
               r == [t EXCEPT !.arg = a]
    <2>1. f = r
      BY <1>2
    <2>2. t = CallOf(t.line, t.words, t.arg, t.argParam, t.newQ, t.reading, t.file)
      BY <1>2, CallIs
    <2>3. /\ r = CallOf(t.line, t.words, a, t.argParam, t.newQ, t.reading, t.file)
          /\ CountedAt(t, a, p) = CallOf(t.line, t.words, a, p, t.newQ, t.reading, t.file)
      <3> HIDE DEF t, a, p
      <3>1. t \in Calls
        BY <1>2 DEF t
      <3>2. CountedAt(t, a, p) = CallOf(t.line, t.words, a, p, t.newQ, t.reading, t.file)
        BY <3>1, CallCounted
      <3>3. r = CallOf(t.line, t.words, a, t.argParam, t.newQ, t.reading, t.file)
        BY <3>1, CallChanged
      <3>4. QED
        BY <3>2, <3>3
    <2> HIDE DEF f, r, a
    <2>4. QED
      BY <2>1, <2>3
  <1>5. StackTyped(Onto(g), Len(records), Len(lines))
    <2>1. a \in {Top.arg + 1, Top.arg + 2}
      OBVIOUS
    <2> HIDE DEF a, p, g
    <2>2. QED
      BY <1>1, <1>3, <2>1, Passes DEF g
  <1>6. e \in ArgSet
    BY <1>2, <1>3 DEF ArgSet
  <1> HIDE DEF e, f, g
  <1>7. cmdlineargs' \in Seq(ArgSet)
    BY <1>1, <1>6, TypedNow
  <1>8. QED
    BY <1>1, <1>4, <1>5, <1>7, TypedNow, TypedNext

LEMMA SetMessageTyped ==
    ASSUME StartTyped, SetMessage PROVE StartTyped'
  <1> DEFINE k == Top.newQ
             r == Composed(records[k])
             recs == [records EXCEPT ![k] = r]
             a == Top.arg + 1
             p == Top.argParam + 1
             f == [Top EXCEPT !.arg = @ + 1, !.argParam = @ + 1]
             g == CountedAt(Top, a, p)
  <1>1. /\ Word # <<>> /\ k # Unset /\ given' = given /\ arg' = arg
        /\ cmdlineargs' = cmdlineargs /\ lines' = lines /\ stray' = stray
        /\ stack' = Onto(f)
        /\ \/ ArgsGiven(Word, ArgsNow) /\ records' = recs /\ status' = status
           \/ status' = "crash" /\ records' = records
    BY DEF SetMessage, NeedsRecord
  <1>2. Top \in Calls
    BY TopTyped
  <1>3. p \in Nat /\ a \in {Top.arg + 1, Top.arg + 2}
    BY <1>2, CallIs
  <1>4. f = g
    BY DEF CountedAt
  <1>5. StackTyped(Onto(g), Len(records), Len(lines))
    <2> HIDE DEF a, p, g
    <2>1. QED
      BY <1>1, <1>3, Passes DEF g
  <1>6. RecordsTyped(records') /\ Len(records') = Len(records)
    <2>1. CASE ArgsGiven(Word, ArgsNow) /\ records' = recs
      <3>1. k \in 1..Len(records) /\ records[k] \in RecordSet /\ TimesGiven(records[k])
        BY <1>1, TopRecord
      <3>2. r \in RecordSet /\ TimesGiven(r)
        BY <1>1, <2>1, <3>1, SentTyped
      <3> HIDE DEF r, k
      <3>3. RecordsTyped(recs) /\ Len(recs) = Len(records)
        BY <3>1, <3>2, RecordTyped
      <3> HIDE DEF recs
      <3>4. QED
        BY <2>1, <3>3
    <2>2. CASE records' = records
      BY <2>2, TypedNow
    <2>3. QED
      BY <1>1, <2>1, <2>2
  <1>7. status' \in Statuses
    BY <1>1, TypedNow DEF Statuses
  <1> HIDE DEF f, g, recs
  <1>8. QED
    BY <1>1, <1>4, <1>5, <1>6, <1>7, TypedNow, TypedNext

LEMMA PassOverTyped ==
    ASSUME StartTyped, PassOver PROVE StartTyped'
  <1> DEFINE a == Top.arg + 1
             p == IF IsOption(Word) THEN Top.argParam ELSE Top.argParam + 1
             f == [Top EXCEPT !.arg = @ + 1, !.argParam = IF IsOption(Word) THEN @ ELSE @ + 1]
             g == CountedAt(Top, a, p)
  <1>1. /\ Word # <<>> /\ given' = given /\ status' = status /\ arg' = arg
        /\ records' = records /\ cmdlineargs' = cmdlineargs /\ lines' = lines /\ stray' = stray
        /\ stack' = Onto(f)
    BY DEF PassOver
  <1>2. Top \in Calls
    BY TopTyped
  <1>3. p \in Nat /\ a \in {Top.arg + 1, Top.arg + 2}
    BY <1>2, CallIs
  <1>4. f = g
    BY DEF CountedAt
  <1>5. StackTyped(Onto(g), Len(records), Len(lines))
    <2> HIDE DEF a, p, g
    <2>1. QED
      BY <1>1, <1>3, Passes DEF g
  <1> HIDE DEF f, g
  <1>6. QED
    BY <1>1, <1>4, <1>5, TypedNow, TypedNext

LEMMA OpenFileTyped ==
    ASSUME StartTyped, OpenFile PROVE StartTyped'
  <1> DEFINE a == Top.arg + 2
             z == files[Argument[1]]
             yes == TRUE
             f == FileAt(Top, a, yes, z)
  <1>1. /\ Word # <<>> /\ given' = given /\ arg' = arg
        /\ records' = records /\ cmdlineargs' = cmdlineargs /\ lines' = lines /\ stray' = stray
        /\ \/ Argument[1] \in DOMAIN files /\ stack' = Onto(f) /\ status' = status
           \/ status' = "exit" /\ stack' = stack
    BY DEF OpenFile, FileAt
  <1>2. StackTyped(stack', Len(records), Len(lines))
    <2>1. CASE Argument[1] \in DOMAIN files /\ stack' = Onto(f)
      <3> DEFINE k == Top.newQ
                 p == Top.argParam
                 n == Len(records)
      <3>1. Top \in Calls /\ n \in Nat /\ Bounded(Top, n, Len(lines))
        BY TopTyped
      <3>2. p \in Nat /\ k \in Nat /\ k <= n /\ n <= n
        BY <3>1, CallIs DEF Bounded
      <3>3. z \in RowLists /\ yes \in BOOLEAN
        BY <2>1 DEF StartTyped, GivenOK, RowLists
      <3>4. a \in {Top.arg + 1, Top.arg + 2}
        OBVIOUS
      <3>5. f = CallOf(Top.line, Top.words, a, p, k, yes, z)
        <4> DEFINE t == Top
        <4> HIDE DEF t, a, yes, z
        <4>1. FileAt(t, a, yes, z) = CallOf(t.line, t.words, a, t.argParam, t.newQ, yes, z)
          BY <3>1, CallFiled DEF t
        <4>2. QED
          BY <4>1 DEF t
      <3> HIDE DEF k, p, n, z, yes, a, f
      <3>6. Len(records) <= n
        BY <3>2 DEF n
      <3>7. StackTyped(Onto(CallOf(Top.line, Top.words, a, p, k, yes, z)), n, Len(lines))
        BY <1>1, <3>1, <3>2, <3>3, <3>4, <3>6, CallGoesOn
      <3>8. QED
        BY <2>1, <3>5, <3>7 DEF n
    <2>2. CASE stack' = stack
      BY <2>2, TypedNow
    <2>3. QED
      BY <1>1, <2>1, <2>2
  <1>3. status' \in Statuses
    BY <1>1, TypedNow DEF Statuses
  <1> HIDE DEF f
  <1>4. QED
    BY <1>1, <1>2, <1>3, TypedNow, TypedNext

LEMMA EndOfFileTyped ==
    ASSUME StartTyped, EndOfFile PROVE StartTyped'
  <1> DEFINE f == [Top EXCEPT !.reading = FALSE]
             k == Top.newQ
             z == Top.file
             no == FALSE
  <1>1. /\ given' = given /\ status' = status /\ arg' = arg
        /\ records' = records /\ cmdlineargs' = cmdlineargs /\ lines' = lines /\ stray' = stray
        /\ stack' = Onto(f)
    BY DEF EndOfFile
  <1>2. Top \in Calls /\ Bounded(Top, Len(records), Len(lines))
    BY TopTyped
  <1>3. k \in Nat /\ k <= Len(records) /\ z \in RowLists /\ no \in BOOLEAN
    BY <1>2, CallIs DEF Bounded
  <1>4. f = CallOf(Top.line, Top.words, Top.arg, Top.argParam, k, no, z)
    <2>1. f = [Top EXCEPT !.reading = no]
      OBVIOUS
    <2> HIDE DEF no, f
    <2>2. QED
      BY <1>2, <2>1, CallChanged
  <1> HIDE DEF f, k, z, no
  <1>5. StackTyped(Onto(f), Len(records), Len(lines))
    BY <1>3, <1>4, CallStays DEF k
  <1>6. QED
    BY <1>1, <1>5, TypedNow, TypedNext

LEMMA ReturnTyped ==
    ASSUME StartTyped, Return PROVE StartTyped'
  <1>1. /\ given' = given /\ arg' = arg
        /\ records' = records /\ cmdlineargs' = cmdlineargs /\ lines' = lines /\ stray' = stray
        /\ stack' = (IF Len(stack) = 1 THEN stack ELSE Front(stack))
        /\ status' \in {"done", status}
    BY DEF Return, Returned
  <1>2. StackTyped(stack', Len(records), Len(lines))
    <2>1. Top \in Calls /\ Bounded(Top, Len(records), Len(lines))
          /\ Len(records) \in Nat /\ Len(lines) \in Nat
      BY TopTyped
    <2>2. Len(stack) # 1 => StackTyped(Front(stack), Len(records), Len(lines))
      BY <2>1, TypedNow, OntoTyped
    <2>3. QED
      BY <1>1, <2>2, TypedNow
  <1>3. status' \in Statuses
    BY <1>1, TypedNow DEF Statuses
  <1>4. QED
    BY <1>1, <1>2, <1>3, TypedNow, TypedNext

-----------------------------------------------------------------------------
(* A line more than its words and its row.                                 *)
LEMMA LineTyped ==
    ASSUME LinesTyped(lines), NEW row \in FileRows,
           NEW line, line = [words |-> WordsOf(TextOf(row)), row |-> row]
    PROVE  /\ LinesTyped(Append(lines, line))
           /\ Len(Append(lines, line)) = Len(lines) + 1 /\ Len(lines) \in Nat
           /\ line.words \in WordLists
  <1> DEFINE w == WordsOf(TextOf(row))
             lns == Append(lines, line)
  <1>1. w \in Seq(ReadWords)
    BY WordsOfLine DEF ReadWords
  <1>2. line.words = w /\ line.row = row
    OBVIOUS
  <1> HIDE DEF w
  <1>3. line \in LineSet
    <2>1. line = [words |-> w, row |-> row]
      BY DEF w
    <2>2. QED
      BY <1>1, <2>1 DEF LineSet
  <1>4. lines \in Seq(LineSet) /\ \A n \in 2..Len(lines) : lines[n].words = WordsOf(TextOf(lines[n].row))
    BY DEF LinesTyped
  <1>5. line.words = WordsOf(TextOf(line.row))
    BY <1>2 DEF w
  <1>6. /\ lns \in Seq(LineSet) /\ Len(lns) = Len(lines) + 1 /\ Len(lines) \in Nat
        /\ lns[Len(lines) + 1] = line
        /\ \A n \in 1..Len(lines) : lns[n] = lines[n]
    BY <1>3, <1>4
  <1> HIDE DEF lns
  <1>7. ASSUME NEW n \in 2..Len(lns) PROVE lns[n].words = WordsOf(TextOf(lns[n].row))
    <2>1. n = Len(lines) + 1 \/ n \in 2..Len(lines)
      BY <1>6
    <2>2. CASE n = Len(lines) + 1
      BY <1>5, <1>6, <2>2
    <2>3. CASE n \in 2..Len(lines)
      <3>1. n \in 1..Len(lines)
        BY <1>6, <2>3
      <3>2. QED
        BY <1>4, <1>6, <2>3, <3>1
    <2>4. QED
      BY <2>1, <2>2, <2>3
  <1>8. LinesTyped(lns)
    BY <1>6, <1>7 DEF LinesTyped
  <1>9. QED
    BY <1>1, <1>2, <1>6, <1>8 DEF WordLists, lns

LEMMA ReadLineTyped ==
    ASSUME StartTyped, ReadLine PROVE StartTyped'
  <1> DEFINE t == Top
             row == Head(t.file)
             z == Tail(t.file)
             f == [Top EXCEPT !.file = Tail(@)]
             words == WordsOf(TextOf(row))
             line == [words |-> words, row |-> row]
             k == t.newQ
             r == t.reading
             lns == Append(lines, line)
             nr == Len(records)
             nl == Len(lines)
  <1>1. /\ t.file # <<>> /\ given' = given /\ status' = status /\ arg' = arg
        /\ records' = records /\ cmdlineargs' = cmdlineargs /\ stray' = stray
        /\ \/ stack' = Onto(f) /\ lines' = lines
           \/ stack' = Onto(f) \o <<Frame(Len(lines'), words)>> /\ lines' = lns
    BY DEF ReadLine
  <1>2. t \in Calls /\ Bounded(t, nr, nl) /\ nr \in Nat /\ nl \in Nat
    BY TopTyped
  <1>3. t.file \in Seq(FileRows)
    BY <1>2, CallIs DEF RowLists
  <1>4. row \in FileRows /\ z \in RowLists
    <2> DEFINE file == t.file
    <2> HIDE DEF file
    <2>1. Head(file) \in FileRows /\ Tail(file) \in Seq(FileRows)
      BY <1>1, <1>3, HeadTailProperties DEF file
    <2>2. QED
      BY <2>1 DEF file, RowLists
  <1>5. k \in Nat /\ k <= nr /\ r \in BOOLEAN
    BY <1>2, CallIs DEF Bounded
  <1>6. f = CallOf(Top.line, Top.words, Top.arg, Top.argParam, k, r, z)
    <2>1. f = [t EXCEPT !.file = z]
      OBVIOUS
    <2> HIDE DEF f, t, z
    <2>2. f = CallOf(t.line, t.words, t.arg, t.argParam, t.newQ, t.reading, z)
      BY <1>2, <2>1, CallChanged
    <2>3. QED
      BY <2>2 DEF t
  <1> HIDE DEF f, k, z, r, row, t, nr, nl
  <1>7. StackTyped(Onto(f), nr, nl)
    BY <1>4, <1>5, <1>6, CallStays DEF nr, nl
  <1>8. CASE stack' = Onto(f) /\ lines' = lines
    <2>1. StackTyped(stack', Len(records), Len(lines))
      BY <1>7, <1>8 DEF nr, nl
    <2>2. QED
      BY <1>1, <1>8, <2>1, TypedNow, TypedNext
  <1>9. CASE stack' = Onto(f) \o <<Frame(Len(lines'), words)>> /\ lines' = lns
    <2> DEFINE m == Len(lns)
               s == Onto(f)
               g == Frame(m, words)
    <2>1. LinesTyped(lns) /\ m = nl + 1 /\ words \in WordLists
      <3> DEFINE e == line
      <3>1. e.words = words /\ e = [words |-> WordsOf(TextOf(row)), row |-> row]
        OBVIOUS
      <3> HIDE DEF e, words
      <3>2. /\ LinesTyped(Append(lines, e)) /\ Len(Append(lines, e)) = Len(lines) + 1
            /\ e.words \in WordLists
        BY <1>4, <3>1, TypedNow, LineTyped
      <3>3. QED
        BY <3>1, <3>2 DEF e, nl
    <2>2. m \in Nat \ {0} /\ nl <= m
      BY <1>2, <2>1
    <2> HIDE DEF words, m, s
    <2>3. StackTyped(s, nr, m)
      <3>1. nr <= nr
        BY <1>2
      <3>2. m \in Nat
        BY <2>2
      <3>3. QED
        BY <1>2, <1>7, <2>2, <3>1, <3>2, StackGrows DEF s
    <2>4. g \in Calls /\ Bounded(g, nr, m)
      <3> DEFINE no == FALSE
                 one == 1
                 zero == 0
                 none == <<>>
      <3>1. no \in BOOLEAN /\ one \in Counts /\ zero \in Nat /\ none \in RowLists /\ m \in Counts
        BY <2>2, EmptySeq DEF Counts, RowLists
      <3>2. g = CallOf(m, words, one, zero, zero, no, none)
        BY DEF Frame, CallOf, Unset
      <3>3. Len(words) \in Nat
        BY <2>1 DEF WordLists
      <3> HIDE DEF g
      <3> DEFINE o == one
                 y == zero
                 b == no
                 e == none
      <3>4. o \in Counts /\ y \in Nat /\ b \in BOOLEAN /\ e \in RowLists
        BY <3>1
      <3> HIDE DEF o, y, b, e
      <3>5. g = CallOf(m, words, o, y, y, b, e)
        BY <3>2 DEF o, y, b, e
      <3>6. IsCall(g, m, words, o, y, y, b, e)
        BY <2>1, <3>1, <3>4, <3>5, CallMade
      <3>7. g \in Calls /\ g.newQ = 0 /\ g.arg = 1 /\ g.line = m /\ g.words = words
        BY <3>6 DEF IsCall, o, y
      <3>8. QED
        BY <1>2, <2>2, <3>3, <3>7 DEF Bounded
    <2> HIDE DEF g
    <2>5. StackTyped(s \o <<g>>, nr, m)
      <3>1. m \in Nat
        BY <2>2
      <3>2. QED
        BY <1>2, <2>3, <2>4, <3>1, OntoTyped
    <2>6. stack' = s \o <<g>> /\ Len(lines') = m /\ LinesTyped(lines')
      <3>1. Len(lines') = m
        BY <1>9 DEF m
      <3>2. QED
        BY <1>9, <2>1, <3>1 DEF s, g
    <2>7. StackTyped(stack', Len(records'), Len(lines'))
      BY <1>1, <2>5, <2>6 DEF nr
    <2>8. QED
      BY <1>1, <2>6, <2>7, TypedNow, TypedNext
  <1>10. QED
    BY <1>1, <1>8, <1>9

LEMMA StartTypedStep ==
    ASSUME StartInv, StartTyped, [StartNext]_startVars PROVE StartTyped'
  <1>1. CASE UNCHANGED startVars
    <2>1. /\ given' = given /\ status' = status /\ arg' = arg /\ stack' = stack
          /\ records' = records /\ cmdlineargs' = cmdlineargs /\ lines' = lines /\ stray' = stray
      BY <1>1 DEF startVars
    <2>2. QED
      BY <2>1, TypedNow, TypedNext
  <1>2. ASSUME MainArgs PROVE StartTyped'
    <2>1. CASE KeepArg
      BY <2>1, KeepArgTyped
    <2>2. CASE StartConfig
      <3>1. Handed
        BY <2>2 DEF StartInv, StartConfig
      <3>2. QED
        BY <2>2, <3>1, StartConfigTyped
    <2>3. CASE MainFlag \/ LogName \/ NoLogName \/ Usage
      BY <2>3, MainArgsTyped
    <2>4. QED
      BY <1>2, <2>1, <2>2, <2>3 DEF MainArgs
  <1>3. QED
    BY <1>1, <1>2, NoArgumentTyped, AddRecordTyped, SetOptionTyped, UseUnsetTyped,
       SaveArgumentTyped, SetMessageTyped, PassOverTyped, OpenFileTyped, ReadLineTyped,
       EndOfFileTyped, ReturnTyped DEF StartNext

LEMMA TypedTypeOK ==
    ASSUME StartTyped PROVE StartTypeOK
  <1>1. ASSUME NEW f \in ToSet(stack)
        PROVE  /\ f.newQ \in 0..Len(records)
               /\ f.arg \in 1..(Len(f.words) + 2) /\ f.argParam \in Nat
               /\ f.reading \in BOOLEAN /\ f.line \in 1..(Len(lines) + 1)
    <2>1. PICK i \in DOMAIN stack : f = stack[i]
      BY DEF ToSet
    <2>2. f \in Calls /\ Bounded(f, Len(records), Len(lines))
      BY <2>1, TypedNow DEF StackTyped
    <2>3. /\ f.line \in Nat \ {0} /\ f.words \in Seq(ReadWords) /\ f.arg \in Nat \ {0}
          /\ f.argParam \in Nat /\ f.newQ \in Nat /\ f.reading \in BOOLEAN
      BY <2>2, CallIs DEF Counts, WordLists
    <2>4. Len(f.words) \in Nat /\ Len(records) \in Nat /\ Len(lines) \in Nat
      BY <2>3, TopTyped
    <2>5. f.newQ \in 0..Len(records) /\ f.arg \in 1..(Len(f.words) + 2)
          /\ f.line \in 1..(Len(lines) + 1)
      BY <2>2, <2>3, <2>4 DEF Bounded
    <2>6. QED
      BY <2>3, <2>5
  <1>2. ASSUME NEW q \in ToSet(records)
        PROVE  /\ q.first \in Nat \cup {NoTime} /\ q.last \in Nat \cup {NoTime}
               /\ q.period \in Nat /\ q.nmea \in 0..2 /\ q.send \in BOOLEAN
               /\ q.message \in Seq(0..255)
    <2>1. PICK i \in DOMAIN records : q = records[i]
      BY DEF ToSet
    <2>2. q \in RecordSet
      BY <2>1, TypedNow DEF RecordsTyped
    <2>3. QED
      BY <2>2, RecordIs DEF Times, Modes, Messages
  <1>3. QED
    BY <1>1, <1>2 DEF StartTypeOK, StartTyped

LEMMA TypedNotPast ==
    ASSUME StartTyped PROVE TimeNotPast
  <1> SUFFICES ASSUME NEW q \in ToSet(records)
               PROVE  /\ q.set["-f"] # <<>> /\ ~PlusSign(q.set["-f"])
                             => NextTime(q.set["-f"], q.first)
                      /\ q.set["-l"] # <<>> /\ ~PlusSign(q.set["-l"])
                             => NextTime(q.set["-l"], q.last)
    BY DEF TimeNotPast
  <1>1. PICK i \in DOMAIN records : q = records[i]
    BY DEF ToSet
  <1>2. q \in RecordSet /\ TimesGiven(q)
    BY <1>1, TypedNow DEF RecordsTyped
  <1>3. q.set["-f"] \in Seq(Alphabet) /\ q.set["-l"] \in Seq(Alphabet)
    BY <1>2, RecordIs, OptionValues DEF Settings
  <1>4. timeNow \in Clock
    BY DEF StartTyped, GivenOK
  <1> DEFINE v == q.set["-f"]
             w == q.set["-l"]
  <1>5. v # <<>> /\ ~PlusSign(v) => NextTime(v, q.first)
    <2>1. v # <<>> => q.first = AbsTimeOf(v, timeNow)
      BY <1>2 DEF TimesGiven
    <2>2. v \in Seq(Alphabet)
      BY <1>3
    <2> HIDE DEF v
    <2>3. QED
      BY <1>4, <2>1, <2>2, NextTimeIs
  <1>6. w # <<>> /\ ~PlusSign(w) => NextTime(w, q.last)
    <2>1. w # <<>> => q.last = AbsTimeOf(w, timeNow)
      BY <1>2 DEF TimesGiven
    <2>2. w \in Seq(Alphabet)
      BY <1>3
    <2> HIDE DEF w
    <2>3. QED
      BY <1>4, <2>1, <2>2, NextTimeIs
  <1>7. QED
    BY <1>5, <1>6

(* What config() reads, keeps and computes for any command line and files  *)
(* has its type: no period, time, mode or byte of a message is out of its  *)
(* range.                                                                  *)
THEOREM StartTypesHold == StartSpec => []StartTypeOK
  <1>1. StartInit /\ GivenOK => StartInv /\ StartTyped
    BY StartInvInit, StartTypedInit
  <1>2. (StartInv /\ StartTyped) /\ [StartNext]_startVars => (StartInv /\ StartTyped)'
    BY StartInvStep, StartTypedStep
  <1>3. StartInv /\ StartTyped => StartTypeOK
    BY TypedTypeOK
  <1>4. QED
    BY <1>1, <1>2, <1>3, PTL DEF StartSpec

(* A time of day that -f or -l gives is never past already, whatever the   *)
(* clock shows, and is the next time that reads so, or none when there is  *)
(* none left, but for minutes and seconds behind the clock's.              *)
THEOREM TimesHold == StartSpec => []TimeNotPast
  <1>1. StartInit /\ GivenOK => StartInv /\ StartTyped
    BY StartInvInit, StartTypedInit
  <1>2. (StartInv /\ StartTyped) /\ [StartNext]_startVars => (StartInv /\ StartTyped)'
    BY StartInvStep, StartTypedStep
  <1>3. StartInv /\ StartTyped => TimeNotPast
    BY TypedNotPast
  <1>4. QED
    BY <1>1, <1>2, <1>3, PTL DEF StartSpec

-----------------------------------------------------------------------------
(* The only message of a line is the one that was made in its mode.        *)
LEMMA AsSummed ==
    ASSUME Configured, StartTyped, NEW q \in ToSet(records), Plain(q.text), SumMode(q),
           Find(Sent(q.message), Dollar) <= Len(Sent(q.message))
    PROVE  Checked(Sent(q.message))
  <1>1. PICK k \in DOMAIN records : q = records[k]
    BY DEF ToSet
  <1>2. q \in RecordSet
    BY <1>1, TypedNow DEF RecordsTyped
  <1>3. q.message \in Seq(0..255) /\ q.text \in Seq(Alphabet)
    BY <1>2, RecordIs DEF Messages, Texts
  <1>4. PICK pos : Reading(stack, lines, records, pos)
    BY DEF Configured
  <1> DEFINE n == q.from.line
             w == LineOf(q)
             p == pos[n]
             d == q.from.arg
             m == q.message
             text == q.text
  <1>0. PICK i \in MessagePlaces(w) : InSumMode(w, d, i)
    BY DEF SumMode
  <1>5. LineWords(w) /\ SumRead(q, w, p)
    <2>1. n \in DOMAIN lines
      BY <1>1, <1>4 DEF Reading, RecsOK
    <2>2. LineWords(lines[n].words) /\ LineRead(n, lines[n].words, pos[n], records)
      BY <1>4, <2>1 DEF Reading, LinesOK
    <2>3. LineWords(w) /\ LineRead(n, w, p, records)
      BY <2>2 DEF LineOf
    <2> HIDE DEF w, p
    <2>4. QED
      BY <1>1, <2>3 DEF LineRead, RecRead
  <1>6. MineBefore(w, d, p) # {}
    <2>1. m # <<>>
      <3> HIDE DEF m
      <3>1. SUFFICES ASSUME m = <<>> PROVE FALSE
        OBVIOUS
      <3>2. Sent(m) = m
        <4>1. /\ CString(m) \in Seq(0..255) /\ Len(CString(m)) <= Len(m)
          BY <1>3, CStringIs DEF m
        <4>2. CString(m) = <<>>
          BY <3>1, <4>1
        <4>3. Percent \notin ToSet(CString(m))
          BY <4>2 DEF ToSet
        <4>4. QED
          BY <4>3 DEF Sent
      <3>3. Find(m, Dollar) \in 1..(Len(m) + 1) /\ Len(m) = 0 /\ Find(m, Dollar) <= Len(m)
        BY <1>3, <3>1, <3>2, FindIs DEF m
      <3>4. QED
        BY <3>3
    <2> HIDE DEF w, p
    <2>2. QED
      BY <1>5, <2>1 DEF SumRead
  <1>7. i \in MineBefore(w, d, p)
    <2>1. PICK j \in MessagePlaces(w) : j \in MineBefore(w, d, p)
      BY <1>6 DEF MineBefore
    <2> HIDE DEF w, p
    <2>2. i \in MessagePlaces(w)
      BY <1>0
    <2>3. i \in Int /\ j \in Int /\ i >= 1 /\ j >= 1
      BY <1>5, <2>2 DEF MessagePlaces, LineWords
    <2>4. ~(i \in 1..(j - 1)) /\ ~(j \in 1..(i - 1))
      BY <2>1, <2>2 DEF MessagePlaces
    <2>5. i = j
      BY <2>3, <2>4
    <2>6. QED
      BY <2>1, <2>5
  <1>8. PICK args : m = Summed(Unescape(text, args), 1)
    <2>1. InSumMode(w, d, i)
      BY <1>0
    <2> HIDE DEF w, p
    <2>2. QED
      BY <1>5, <1>7, <2>1 DEF SumRead
  <1> HIDE DEF n, w, p
  <1>9. text \in Seq(DOMAIN Code)
    <2>1. Alphabet \subseteq DOMAIN Code /\ text \in Seq(Alphabet)
      BY <1>3, SymbolsAssumption
    <2> HIDE DEF text
    <2>2. QED
      BY <2>1
  <1>10. \A j \in DOMAIN text : text[j] # Backslash /\ text[j] # "*" /\ text[j] # "%"
    BY DEF Plain
  <1> HIDE DEF m, text
  <1> DEFINE B == Bytes(text)
  <1>11. m = Summed(B, 1)
    BY <1>8, <1>9, <1>10, UnescapePlain
  <1>12. B \in Seq(1..255) /\ \A j \in 1..Len(B) : B[j] # Star /\ B[j] # Percent
    BY <1>9, <1>10, BytesAre
  <1> HIDE DEF B
  <1>13. Sent(m) = m
    BY <1>11, <1>12, SentAsIs
  <1>14. Find(m, Dollar) <= Len(m)
    BY <1>13 DEF m
  <1>15. PICK e \in 1..Len(B) : /\ Sentence(m, e, Len(B)) /\ Ends(m, Len(B))
                                /\ Given2(m, Len(B)) = XorAll(Between(m, e, Len(B)))
    BY <1>11, <1>12, <1>14, SummedIs
  <1>16. Checked(m)
    BY <1>15, SentenceChecked
  <1>17. QED
    BY <1>13, <1>16 DEF m

LEMMA SumsWhenDone ==
    ASSUME StartInv, StartTyped PROVE SumsAccepted
  <1> SUFFICES ASSUME status = "done", ~stray, NEW q \in ToSet(records), Plain(q.text), SumMode(q),
                      Find(Sent(q.message), Dollar) <= Len(Sent(q.message))
               PROVE  Checked(Sent(q.message))
    BY DEF SumsAccepted, Checked, Refused
  <1>1. status \in {"config", "done"}
    OBVIOUS
  <1>2. Configured
    BY <1>1 DEF StartInv
  <1>3. QED
    BY <1>2, AsSummed

(* No sentence without a time goes out in the -m mode that the program's   *)
(* own check of a reply refuses, and with none of the changed bytes that   *)
(* Noticed names does it pass, whatever byte stands there instead: for     *)
(* every command line, with its command files and its order of options.    *)
THEOREM SumsHold == StartSpec => []SumsAccepted
  <1>1. StartInit /\ GivenOK => StartInv /\ StartTyped
    BY StartInvInit, StartTypedInit
  <1>2. (StartInv /\ StartTyped) /\ [StartNext]_startVars => (StartInv /\ StartTyped)'
    BY StartInvStep, StartTypedStep
  <1>3. StartInv /\ StartTyped => SumsAccepted
    BY SumsWhenDone
  <1>4. QED
    BY <1>1, <1>2, <1>3, PTL DEF StartSpec

-----------------------------------------------------------------------------
(* The rest of a bare last word is left behind it: as ReadAs says.         *)
LEMMA AsReadBack ==
    ASSUME NEW row \in FileRows, NEW k \in DOMAIN row.words
    PROVE  ReadAs(row, k) = ReadBackAt(row.words, Len(row.words), row.closed, k)
  <1> DEFINE w == row.words[k]
             text == Written(w.word, w.quoted)
             V == [word: Seq(Symbols), quoted: BOOLEAN]
             c == k < Len(row.words) \/ row.closed
             l == Len(text)
             m == Len(w.word)
  <1>1. w.word \in Seq(Symbols) /\ w.quoted \in BOOLEAN
    <2>1. row.words \in Seq(V)
      BY DEF FileRows
    <2> HIDE DEF V
    <2>2. w \in V
      BY <2>1, ElementOfSeq, LenProperties
    <2>3. QED
      BY <2>2 DEF V
  <1>2. l \in Nat /\ m \in Nat
    BY <1>1, WrittenType, LenProperties
  <1>3. ReadAs(row, k) = IF c \/ w.quoted THEN w.word
                         ELSE w.word \o SubSeq(text, l - (l - m) + 1, l)
    BY DEF ReadAs
  <1>4. ReadBackAt(row.words, Len(row.words), row.closed, k) =
            IF c \/ w.quoted THEN w.word ELSE w.word \o SubSeq(text, m + 1, l)
    BY DEF ReadBackAt, ReadBack
  <1> HIDE DEF l, m, text, w, c
  <1>5. l - (l - m) + 1 = m + 1
    BY <1>2
  <1>6. QED
    BY <1>3, <1>4, <1>5

LEMMA RowWordsRead ==
    ASSUME NEW row \in FileRows, \A w \in ToSet(row.words) : Writable(w)
    PROVE  WordsOf(TextOf(row)) = [k \in DOMAIN row.words |-> ReadAs(row, k)]
  <1> DEFINE words == row.words
             n == Len(words)
             closed == row.closed
             text == TextOf(row)
             w == WrittenAt(words, n)
             V == [word: Seq(Symbols), quoted: BOOLEAN]
  <1>1. words \in Seq(V) /\ closed \in BOOLEAN
    BY DEF FileRows
  <1>2. n \in Nat /\ DOMAIN words = 1..n /\ \A k \in 1..n : words[k] \in V
    <2> HIDE DEF V
    <2>1. QED
      BY <1>1, LenProperties, ElementOfSeq
  <1>3. text \in Seq(Alphabet)
    BY TextType
  <1>4. Escapes(Alphabet) /\ Blank \subseteq Alphabet
    BY CharsEscape DEF Alphabet, Blank
  <1>5. \A k \in 1..n : CanWrite(words[k], Symbols)
    <2> SUFFICES ASSUME NEW k \in 1..n PROVE CanWrite(words[k], Symbols)
      OBVIOUS
    <2>1. Writable(words[k])
      BY <1>2 DEF ToSet
    <2>2. words[k].word \in Seq(Symbols) /\ words[k].quoted \in BOOLEAN
      BY <1>2
    <2>3. QED
      BY <2>1, <2>2 DEF CanWrite, Writable
  <1>6. ASSUME NEW k \in 1..n PROVE IsWritten(w[k], Alphabet)
    <2> DEFINE x == words[k].word
               q == words[k].quoted
    <2>1. x \in Seq(Symbols) /\ q \in BOOLEAN /\ x # <<>> /\ (q \/ x[1] # "\t")
      BY <1>5 DEF CanWrite
    <2>2. w[k] = Written(x, q)
      BY DEF WrittenAt
    <2> HIDE DEF x, q, w
    <2>3. Written(x, q) \in Seq(Alphabet)
      BY <2>1, WrittenType
    <2>4. Layout(Written(x, q), Inner(x, q), q)
      BY <2>1, WrittenIs
    <2>5. QED
      BY <2>2, <2>3, <2>4 DEF Layout, IsWritten
  <1>7. IsLine(text, w, n, closed)
    <2> DEFINE P(k) == (IF k = 1 THEN <<>> ELSE <<" ">>) \o Written(words[k].word, words[k].quoted)
    <2>1. text = FlattenSeq([k \in 1..n |-> P(k)]) \o (IF closed THEN <<" ">> ELSE <<>>)
      BY <1>2 DEF TextOf
    <2>2. \A k \in 1..n : PartOf(w, k) = P(k)
      BY DEF PartOf, WrittenAt
    <2>3. [k \in 1..n |-> PartOf(w, k)] = [k \in 1..n |-> P(k)]
      BY <2>2
    <2> HIDE DEF text, w, n, P
    <2>4. QED
      BY <2>1, <2>3 DEF IsLine
  <1> HIDE DEF text, w
  <1>8. CASE n = 0
    <2>1. WordsOf(text) = <<>>
      <3> DEFINE end == IF closed THEN <<" ">> ELSE <<>>
      <3>1. text = FlattenSeq([k \in 1..n |-> PartOf(w, k)]) \o end
        BY <1>7 DEF IsLine
      <3>2. [k \in 1..n |-> PartOf(w, k)] = <<>>
        BY <1>8
      <3>3. end \in Seq(Blank) /\ Len(end) \in {0, 1}
        BY OneBlank, EmptySeq
      <3> HIDE DEF end
      <3>4. text = end
        BY <3>1, <3>2, <3>3, FlattenEmpty, ConcatEmptySeq
      <3>5. \A i \in 1..Len(text) : text[i] \in Blank
        BY <3>3, <3>4, ElementOfSeq
      <3>6. Skip(text, 1) = Len(text) + 1
        <4> DEFINE s == Skip(text, 1)
        <4>1. Len(text) \in Nat /\ 1 \in 1..(Len(text) + 1)
          BY <3>3, <3>4
        <4>2. s \in 1..(Len(text) + 1) /\ (s <= Len(text) => text[s] \notin Blank)
          BY <4>1, SkipOver
        <4> HIDE DEF s
        <4>3. ~(s <= Len(text))
          BY <3>5, <4>1, <4>2
        <4>4. s = Len(text) + 1
          BY <4>1, <4>2, <4>3
        <4>5. QED
          BY <4>4 DEF s
      <3>7. QED
        BY <1>3, <1>4, <3>6, BlankLine
    <2>2. [k \in DOMAIN words |-> ReadAs(row, k)] = <<>>
      BY <1>2, <1>8
    <2>3. QED
      BY <2>1, <2>2 DEF text
  <1>9. CASE n # 0
    <2>1. n \in Nat \ {0}
      BY <1>2, <1>9
    <2> HIDE DEF n, closed, words
    <2>2. PICK start : LaidOut(text, w, n, closed, start)
      BY <1>1, <1>4, <1>6, <1>7, <2>1, LinePlaced
    <2>3. start[1] = 1 /\ Len(text) \in Nat
      BY <1>3, <2>2, LenProperties DEF LaidOut
    <2>4. \A k \in 1..n : ReadsAt(text, words, n, closed, start, k)
      BY <1>1, <1>5, <2>1, <2>2, <2>3, WordReads DEF w
    <2>5. WordsOf(text) = [k \in 1..n |-> ReadBackAt(words, n, closed, k)]
      <3>1. ReadsAll(text, words, n, closed, start)
        BY <2>3, <2>4 DEF ReadsAll
      <3>2. QED
        BY <1>3, <1>4, <2>1, <3>1, LineReads
    <2>6. \A k \in 1..n : ReadBackAt(words, n, closed, k) = ReadAs(row, k)
      BY <1>2, AsReadBack DEF n, closed, words
    <2>7. WordsOf(text) = [k \in 1..n |-> ReadAs(row, k)]
      BY <2>5, <2>6
    <2>8. QED
      BY <1>2, <2>7 DEF text, words
  <1>10. QED
    BY <1>8, <1>9

LEMMA TypedReadBack ==
    ASSUME StartTyped PROVE WordsReadBack
  <1> SUFFICES ASSUME NEW n \in 2..Len(lines), \A w \in ToSet(lines[n].row.words) : Writable(w)
               PROVE  lines[n].words = [k \in DOMAIN lines[n].row.words |-> ReadAs(lines[n].row, k)]
    BY DEF WordsReadBack
  <1>1. lines \in Seq(LineSet) /\ lines[n].words = WordsOf(TextOf(lines[n].row))
    BY TypedNow DEF LinesTyped
  <1>2. lines[n] \in LineSet
    <2>1. n \in 1..Len(lines)
      BY <1>1, LenProperties
    <2>2. QED
      BY <1>1, <2>1, ElementOfSeq
  <1> DEFINE row == lines[n].row
  <1>3. row \in FileRows
    BY <1>2 DEF LineSet
  <1> HIDE DEF row
  <1>4. WordsOf(TextOf(row)) = [k \in DOMAIN row.words |-> ReadAs(row, k)]
    BY <1>3, RowWordsRead DEF row
  <1>5. QED
    BY <1>1, <1>4 DEF row

(* Whatever words are written into a command file, in quotes or bare, with *)
(* whatever blanks, quotes and backslashes in them, config() is called     *)
(* with these words: but for a bare word with escapes that ends the line.  *)
THEOREM WordsHold == StartSpec => []WordsReadBack
  <1>1. StartInit /\ GivenOK => StartInv /\ StartTyped
    BY StartInvInit, StartTypedInit
  <1>2. (StartInv /\ StartTyped) /\ [StartNext]_startVars => (StartInv /\ StartTyped)'
    BY StartInvStep, StartTypedStep
  <1>3. StartInv /\ StartTyped => WordsReadBack
    BY TypedReadBack
  <1>4. QED
    BY <1>1, <1>2, <1>3, PTL DEF StartSpec
=============================================================================
