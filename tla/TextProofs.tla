----------------------------- MODULE TextProofs -----------------------------
(***************************************************************************)
(* What the operators of Words, Message and AbsTime compute: the words of  *)
(* a line, the bytes of a message, its sums, and times of day.             *)
(***************************************************************************)
EXTENDS Message, AbsTime, SequenceLemmas

-----------------------------------------------------------------------------
(* Bytes and their exclusive or.                                           *)

PlaceValues == {1, 2, 4, 8, 16, 32, 64, 128}
Odd(v, a, b) == (a \div v + b \div v) % 2
Bit(v, a, b) == v * Odd(v, a, b)

LEMMA BitIs ==
    ASSUME NEW v \in PlaceValues, NEW a \in 0..255, NEW b \in 0..255
    PROVE  /\ Odd(v, a, b) \in {0, 1} /\ Odd(v, a, b) = Odd(v, b, a)
           /\ Bit(v, a, b) = IF Odd(v, a, b) = 0 THEN 0 ELSE v
           /\ a \div v \in Int /\ b \div v \in Int /\ v \in Nat \ {0}
  <1> DEFINE x == a \div v
             y == b \div v
  <1>1. v \in Nat \ {0} /\ x \in Int /\ y \in Int
    BY DEF PlaceValues
  <1> HIDE DEF x, y
  <1>2. (x + y) % 2 \in {0, 1} /\ (x + y) % 2 = (y + x) % 2
    BY <1>1
  <1>3. Odd(v, a, b) \in {0, 1} /\ Odd(v, a, b) = Odd(v, b, a)
    BY <1>2 DEF Odd, x, y
  <1>4. Bit(v, a, b) = v * Odd(v, a, b)
    BY DEF Bit
  <1>5. v * Odd(v, a, b) = IF Odd(v, a, b) = 0 THEN 0 ELSE v
    BY <1>1, <1>3
  <1>6. QED
    BY <1>1, <1>3, <1>4, <1>5 DEF x, y

LEMMA XorIsBits ==
    ASSUME NEW a, NEW b
    PROVE  Xor(a, b) = Bit(1, a, b) + Bit(2, a, b) + Bit(4, a, b) + Bit(8, a, b)
                     + Bit(16, a, b) + Bit(32, a, b) + Bit(64, a, b) + Bit(128, a, b)
  BY DEF Xor, Bit, Odd

LEMMA XorByte ==
    ASSUME NEW a \in 0..255, NEW b \in 0..255
    PROVE  Xor(a, b) \in 0..255 /\ Xor(a, b) = Xor(b, a)
  <1>1. \A v \in PlaceValues : Bit(v, a, b) \in {0, v} /\ Bit(v, a, b) = Bit(v, b, a)
    <2> SUFFICES ASSUME NEW v \in PlaceValues
                 PROVE  Bit(v, a, b) \in {0, v} /\ Bit(v, a, b) = Bit(v, b, a)
      OBVIOUS
    <2>1. Odd(v, a, b) = Odd(v, b, a)
      BY ZenonT(40), BitIs
    <2>3. Bit(v, a, b) = Bit(v, b, a)
      BY <2>1 DEF Bit
    <2>2. QED
      BY ZenonT(40), <2>3, BitIs
  <1>2. QED
    BY <1>1, XorIsBits DEF PlaceValues

(* A byte is its bits.                                                     *)
LEMMA ByteIsBits ==
    ASSUME NEW a \in 0..255, NEW b \in 0..255,
           \A v \in PlaceValues : (a \div v) % 2 = (b \div v) % 2
    PROVE  a = b
  <1>1. a \div 256 = b \div 256
    OBVIOUS
  <1>2. /\ (a \div 1) % 2 = (b \div 1) % 2   /\ (a \div 2) % 2 = (b \div 2) % 2
        /\ (a \div 4) % 2 = (b \div 4) % 2   /\ (a \div 8) % 2 = (b \div 8) % 2
        /\ (a \div 16) % 2 = (b \div 16) % 2 /\ (a \div 32) % 2 = (b \div 32) % 2
        /\ (a \div 64) % 2 = (b \div 64) % 2 /\ (a \div 128) % 2 = (b \div 128) % 2
    BY DEF PlaceValues
  <1>3. a \div 128 = b \div 128
    BY <1>1, <1>2
  <1>4. a \div 64 = b \div 64
    BY <1>2, <1>3
  <1>5. a \div 32 = b \div 32
    BY <1>2, <1>4
  <1>6. a \div 16 = b \div 16
    BY SMTT(30), <1>2, <1>5
  <1>7. a \div 8 = b \div 8
    BY SMTT(30), <1>2, <1>6
  <1>8. a \div 4 = b \div 4
    BY <1>2, <1>7
  <1>9. a \div 2 = b \div 2
    BY <1>2, <1>8
  <1>10. QED
    BY <1>2, <1>9

LEMMA XorTellsApart ==
    ASSUME NEW a \in 0..255, NEW b \in 0..255, NEW c \in 0..255, Xor(a, b) = Xor(a, c)
    PROVE  b = c
  <1>1. \A v \in PlaceValues : Bit(v, a, b) \in {0, v} /\ Bit(v, a, c) \in {0, v}
    BY ZenonT(40), BitIs
  <1>2. \A v \in PlaceValues : Bit(v, a, b) = Bit(v, a, c)
    BY SMTT(30), <1>1, XorIsBits DEF PlaceValues
  <1>3. \A v \in PlaceValues : (b \div v) % 2 = (c \div v) % 2
    <2> SUFFICES ASSUME NEW v \in PlaceValues PROVE (b \div v) % 2 = (c \div v) % 2
      OBVIOUS
    <2> DEFINE x == a \div v
               y == b \div v
               z == c \div v
    <2>1. x \in Int /\ y \in Int /\ z \in Int /\ v # 0
      BY ZenonT(40), BitIs
    <2>2. Odd(v, a, b) = Odd(v, a, c)
      <3>1. /\ Odd(v, a, b) \in {0, 1} /\ Bit(v, a, b) = IF Odd(v, a, b) = 0 THEN 0 ELSE v
            /\ Odd(v, a, c) \in {0, 1} /\ Bit(v, a, c) = IF Odd(v, a, c) = 0 THEN 0 ELSE v
        BY ZenonT(40), BitIs
      <3>2. QED
        BY <1>2, <2>1, <3>1
    <2>3. (x + y) % 2 = (x + z) % 2
      BY <2>2 DEF Odd
    <2> HIDE DEF x, y, z
    <2>6. y % 2 = z % 2
      BY <2>1, <2>3
    <2>7. QED
      BY <2>6 DEF y, z
  <1>4. QED
    BY <1>3, ByteIsBits

-----------------------------------------------------------------------------
(* Folds over sequences: sums, numbers and the exclusive or of them all.   *)

(* The exclusive or of a sequence takes in its bytes one after the other.  *)
LEMMA XorAllRuns ==
    ASSUME NEW s \in Seq(0..255)
    PROVE  \E g \in [0..Len(s) -> 0..255] :
              /\ g[0] = 0 /\ g[Len(s)] = XorAll(s)
              /\ \A n \in 1..Len(s) : g[n] = Xor(g[n - 1], s[n])
  <1> DEFINE B == 0..255
             A == 0..255
             step == [p \in B \X A |-> Xor(p[1], p[2])]
             Is(h) == h = [T \in SUBSET (DOMAIN s) |->
                             IF T = {} THEN 0 ELSE Xor(h[T \ {Max(T)}], s[Max(T)])]
             iter == CHOOSE h : Is(h)
  <1>1. step \in [B \X A -> B] /\ \A x \in B, y \in A : step[<<x, y>>] = Xor(x, y)
    BY ZenonT(40), XorByte
  <1>2. s \in Seq(A) /\ 0 \in B
    OBVIOUS
  <1>3. XorAll(s) = iter[DOMAIN s]
    BY DEF XorAll, FoldLeft, MapThenFoldSet
  <1> HIDE DEF step, B, A
  <1>4. \E h : Is(h)
    <2>1. PICK h : h \in [SUBSET (DOMAIN s) -> B] /\ FoldsUp(h, DOMAIN s, 0, step, s)
      BY <1>1, <1>2, FoldExists
    <2>2. \A T \in SUBSET (DOMAIN s) :
             h[T] = IF T = {} THEN 0 ELSE Xor(h[T \ {Max(T)}], s[Max(T)])
      BY <1>1, <1>2, <2>1, FoldPlaces DEF FoldsUp
    <2>3. h = [T \in SUBSET (DOMAIN s) |-> h[T]]
      BY <2>1
    <2>4. Is(h)
      BY <2>2, <2>3
    <2> HIDE DEF Is
    <2>5. QED
      BY <2>4
  <1>5. Is(iter)
    <2> HIDE DEF Is
    <2> QED BY <1>4
  <1> HIDE DEF iter
  <1>6. /\ iter[{}] = 0
        /\ \A n \in 1..Len(s) : iter[1..n] = Xor(iter[1..(n - 1)], s[n])
    <2>1. iter[{}] = 0
      BY <1>2, <1>5, FoldPlaces
    <2>2. ASSUME NEW n \in 1..Len(s)
          PROVE  iter[1..n] = Xor(iter[1..(n - 1)], s[n])
      <3> DEFINE T == 1..n
      <3>1. T \in SUBSET (DOMAIN s) /\ T # {} /\ Max(T) = n /\ T \ {n} = 1..(n - 1)
        BY <1>2, FoldPlaces
      <3> HIDE DEF T
      <3>2. iter[T] = Xor(iter[T \ {Max(T)}], s[Max(T)])
        BY <1>5, <3>1
      <3>3. iter[T] = Xor(iter[1..(n - 1)], s[n])
        BY <3>1, <3>2
      <3>4. QED
        BY <3>3 DEF T
    <2>3. QED
      BY <2>1, <2>2
  <1>7. \A n \in 1..Len(s) :
            iter[1..(n - 1)] \in B => iter[1..n] = step[<<iter[1..(n - 1)], s[n]>>]
    BY <1>1, <1>2, <1>6
  <1>8. PICK g \in [0..Len(s) -> B] : Runs(g, 0, step, s) /\ iter[DOMAIN s] = g[Len(s)]
    <2>1. TakesIn(iter, B, 0, step, s)
      BY <1>6, <1>7 DEF TakesIn
    <2>2. FoldsTo(iter[DOMAIN s], B, 0, step, s)
      BY <1>1, <1>2, <2>1, FoldRuns
    <2>3. QED
      BY <2>2 DEF FoldsTo
  <1>9. g[0] = 0 /\ \A n \in 1..Len(s) : g[n] = Xor(g[n - 1], s[n])
    <2>1. \A n \in 1..Len(s) : g[n - 1] \in B /\ s[n] \in A
      BY <1>2, <1>8
    <2>2. QED
      BY <1>1, <1>8, <2>1 DEF Runs
  <1>10. QED
    BY <1>3, <1>8, <1>9 DEF B

(* The sum of bytes.                                                       *)
LEMMA SumRuns ==
    ASSUME NEW s \in Seq(0..255)
    PROVE  \E g \in [0..Len(s) -> Nat] :
              /\ g[0] = 0 /\ g[Len(s)] = SumWide(s)
              /\ \A n \in 1..Len(s) : g[n] = g[n - 1] + s[n]
  <1> DEFINE B == Nat
             A == 0..255
             step == [p \in B \X A |-> p[1] + p[2]]
             Is(h) == h = [T \in SUBSET (DOMAIN s) |->
                             IF T = {} THEN 0 ELSE h[T \ {Max(T)}] + s[Max(T)]]
             iter == CHOOSE h : Is(h)
  <1>1. step \in [B \X A -> B] /\ \A x \in B, y \in A : step[<<x, y>>] = x + y
    <2> SUFFICES ASSUME NEW x \in B, NEW y \in A PROVE x + y \in B
      OBVIOUS
    <2>1. x \in Nat /\ y \in Nat
      OBVIOUS
    <2>2. QED
      BY <2>1
  <1>2. s \in Seq(A) /\ 0 \in B
    OBVIOUS
  <1>3. SumWide(s) = iter[DOMAIN s]
    BY DEF SumWide, FoldLeft, MapThenFoldSet
  <1> HIDE DEF step, B, A
  <1>4. \E h : Is(h)
    <2>1. PICK h : h \in [SUBSET (DOMAIN s) -> B] /\ FoldsUp(h, DOMAIN s, 0, step, s)
      BY <1>1, <1>2, FoldExists
    <2>2. \A T \in SUBSET (DOMAIN s) :
             h[T] = IF T = {} THEN 0 ELSE h[T \ {Max(T)}] + s[Max(T)]
      BY <1>1, <1>2, <2>1, FoldPlaces DEF FoldsUp
    <2>3. h = [T \in SUBSET (DOMAIN s) |-> h[T]]
      BY <2>1
    <2>4. Is(h)
      BY <2>2, <2>3
    <2> HIDE DEF Is
    <2>5. QED
      BY <2>4
  <1>5. Is(iter)
    <2> HIDE DEF Is
    <2> QED BY <1>4
  <1> HIDE DEF iter
  <1>6. /\ iter[{}] = 0
        /\ \A n \in 1..Len(s) : iter[1..n] = iter[1..(n - 1)] + s[n]
    <2>1. iter[{}] = 0
      BY <1>2, <1>5, FoldPlaces
    <2>2. ASSUME NEW n \in 1..Len(s)
          PROVE  iter[1..n] = iter[1..(n - 1)] + s[n]
      <3> DEFINE T == 1..n
      <3>1. T \in SUBSET (DOMAIN s) /\ T # {} /\ Max(T) = n /\ T \ {n} = 1..(n - 1)
        BY <1>2, FoldPlaces
      <3> HIDE DEF T
      <3>2. iter[T] = iter[T \ {Max(T)}] + s[Max(T)]
        BY <1>5, <3>1
      <3>3. iter[T] = iter[1..(n - 1)] + s[n]
        BY <3>1, <3>2
      <3>4. QED
        BY <3>3 DEF T
    <2>3. QED
      BY <2>1, <2>2
  <1>7. \A n \in 1..Len(s) :
            iter[1..(n - 1)] \in B => iter[1..n] = step[<<iter[1..(n - 1)], s[n]>>]
    BY <1>1, <1>2, <1>6
  <1>8. PICK g \in [0..Len(s) -> B] : Runs(g, 0, step, s) /\ iter[DOMAIN s] = g[Len(s)]
    <2>1. TakesIn(iter, B, 0, step, s)
      BY <1>6, <1>7 DEF TakesIn
    <2>2. FoldsTo(iter[DOMAIN s], B, 0, step, s)
      BY <1>1, <1>2, <2>1, FoldRuns
    <2>3. QED
      BY <2>2 DEF FoldsTo
  <1>9. g[0] = 0 /\ \A n \in 1..Len(s) : g[n] = g[n - 1] + s[n]
    <2>1. \A n \in 1..Len(s) : g[n - 1] \in B /\ s[n] \in A
      BY <1>2, <1>8
    <2>2. QED
      BY <1>1, <1>8, <2>1 DEF Runs
  <1>10. QED
    BY <1>3, <1>8, <1>9 DEF B

(* A digit is less than ten.                                               *)
LEMMA ValueIs ==
    \A c \in DecimalDigits : Value(c) \in 0..9
  <1>1. DOMAIN Digits = 1..10 /\ Len(Digits) = 10
    BY DEF Digits
  <1>2. SUFFICES ASSUME NEW c \in DecimalDigits PROVE Value(c) \in 0..9
    OBVIOUS
  <1>3. \E d \in DOMAIN Digits : Digits[d] = c
    BY <1>2 DEF DecimalDigits, ToSet
  <1> DEFINE d == CHOOSE d \in DOMAIN Digits : Digits[d] = c
  <1>4. d \in DOMAIN Digits
    BY <1>3
  <1>5. Value(c) = d - 1
    BY DEF Value
  <1> HIDE DEF d
  <1>6. QED
    BY <1>1, <1>4, <1>5

(* The digits of a number, from the left.                                  *)
LEMMA ValueRuns ==
    ASSUME NEW s \in Seq(DecimalDigits)
    PROVE  \E g \in [0..Len(s) -> Nat] :
              /\ g[0] = 0 /\ g[Len(s)] = ValueOf(s)
              /\ \A n \in 1..Len(s) : g[n] = 10 * g[n - 1] + Value(s[n])
  <1> DEFINE B == Nat
             A == DecimalDigits
             step == [p \in B \X A |-> 10 * p[1] + Value(p[2])]
             Is(h) == h = [T \in SUBSET (DOMAIN s) |->
                             IF T = {} THEN 0 ELSE 10 * h[T \ {Max(T)}] + Value(s[Max(T)])]
             iter == CHOOSE h : Is(h)
  <1>1. step \in [B \X A -> B] /\ \A x \in B, y \in A : step[<<x, y>>] = 10 * x + Value(y)
    <2> SUFFICES ASSUME NEW x \in B, NEW y \in A PROVE 10 * x + Value(y) \in B
      OBVIOUS
    <2>1. 10 * x \in Nat /\ Value(y) \in Nat
      BY ValueIs
    <2>2. QED
      BY <2>1
  <1>2. s \in Seq(A) /\ 0 \in B
    OBVIOUS
  <1>3. ValueOf(s) = iter[DOMAIN s]
    BY DEF ValueOf, FoldLeft, MapThenFoldSet
  <1> HIDE DEF step, B, A
  <1>4. \E h : Is(h)
    <2>1. PICK h : h \in [SUBSET (DOMAIN s) -> B] /\ FoldsUp(h, DOMAIN s, 0, step, s)
      BY <1>1, <1>2, FoldExists
    <2>2. \A T \in SUBSET (DOMAIN s) :
             h[T] = IF T = {} THEN 0 ELSE 10 * h[T \ {Max(T)}] + Value(s[Max(T)])
      BY <1>1, <1>2, <2>1, FoldPlaces DEF FoldsUp
    <2>3. h = [T \in SUBSET (DOMAIN s) |-> h[T]]
      BY <2>1
    <2>4. Is(h)
      BY <2>2, <2>3
    <2> HIDE DEF Is
    <2>5. QED
      BY <2>4
  <1>5. Is(iter)
    <2> HIDE DEF Is
    <2> QED BY <1>4
  <1> HIDE DEF iter
  <1>6. /\ iter[{}] = 0
        /\ \A n \in 1..Len(s) : iter[1..n] = 10 * iter[1..(n - 1)] + Value(s[n])
    <2>1. iter[{}] = 0
      BY <1>2, <1>5, FoldPlaces
    <2>2. ASSUME NEW n \in 1..Len(s)
          PROVE  iter[1..n] = 10 * iter[1..(n - 1)] + Value(s[n])
      <3> DEFINE T == 1..n
      <3>1. T \in SUBSET (DOMAIN s) /\ T # {} /\ Max(T) = n /\ T \ {n} = 1..(n - 1)
        BY <1>2, FoldPlaces
      <3> HIDE DEF T
      <3>2. iter[T] = 10 * iter[T \ {Max(T)}] + Value(s[Max(T)])
        BY <1>5, <3>1
      <3>3. iter[T] = 10 * iter[1..(n - 1)] + Value(s[n])
        BY <3>1, <3>2
      <3>4. QED
        BY <3>3 DEF T
    <2>3. QED
      BY <2>1, <2>2
  <1>7. \A n \in 1..Len(s) :
            iter[1..(n - 1)] \in B => iter[1..n] = step[<<iter[1..(n - 1)], s[n]>>]
    BY <1>1, <1>2, <1>6
  <1>8. PICK g \in [0..Len(s) -> B] : Runs(g, 0, step, s) /\ iter[DOMAIN s] = g[Len(s)]
    <2>1. TakesIn(iter, B, 0, step, s)
      BY <1>6, <1>7 DEF TakesIn
    <2>2. FoldsTo(iter[DOMAIN s], B, 0, step, s)
      BY <1>1, <1>2, <2>1, FoldRuns
    <2>3. QED
      BY <2>2 DEF FoldsTo
  <1>9. g[0] = 0 /\ \A n \in 1..Len(s) : g[n] = 10 * g[n - 1] + Value(s[n])
    <2>1. \A n \in 1..Len(s) : g[n - 1] \in B /\ s[n] \in A
      BY <1>2, <1>8
    <2>2. QED
      BY <1>1, <1>8, <2>1 DEF Runs
  <1>10. QED
    BY <1>3, <1>8, <1>9 DEF B

(* What a byte counts as a digit.                                          *)
HexBytes == 48..57 \cup 65..70 \cup 97..102

LEMMA FromHexIs ==
    ASSUME NEW b \in 0..255
    PROVE  /\ FromHex(b) \in 0..15 \cup {-1}
           /\ FromHex(b) # -1 <=> b \in HexBytes
           /\ b \in 48..57 => FromHex(b) = b - 48
           /\ b \in 65..70 => FromHex(b) = b - 55
  <1>1. CASE b \in 48..57
    BY <1>1 DEF FromHex, HexBytes
  <1>2. CASE b \in 65..70
    <2>1. b \notin 48..57
      BY <1>2
    <2>2. FromHex(b) = b - 55
      BY <1>2, <2>1 DEF FromHex
    <2>3. QED
      BY <1>2, <2>1, <2>2 DEF HexBytes
  <1>3. CASE b \in 97..102
    <2>1. b \notin 48..57 /\ b \notin 65..70
      BY <1>3
    <2>2. FromHex(b) = b - 87
      BY <1>3, <2>1 DEF FromHex
    <2>3. QED
      BY <1>3, <2>1, <2>2 DEF HexBytes
  <1>4. CASE b \notin HexBytes
    BY <1>4 DEF FromHex, HexBytes
  <1>5. QED
    BY <1>1, <1>2, <1>3, <1>4 DEF HexBytes

(* The bytes of a hexadecimal number.                                      *)
LEMMA HexRuns ==
    ASSUME NEW s \in Seq(HexBytes)
    PROVE  \E g \in [0..Len(s) -> Nat] :
              /\ g[0] = 0 /\ g[Len(s)] = HexValue(s)
              /\ \A n \in 1..Len(s) : g[n] = 16 * g[n - 1] + FromHex(s[n])
  <1> DEFINE B == Nat
             A == HexBytes
             step == [p \in B \X A |-> 16 * p[1] + FromHex(p[2])]
             Is(h) == h = [T \in SUBSET (DOMAIN s) |->
                             IF T = {} THEN 0 ELSE 16 * h[T \ {Max(T)}] + FromHex(s[Max(T)])]
             iter == CHOOSE h : Is(h)
  <1>1. step \in [B \X A -> B] /\ \A x \in B, y \in A : step[<<x, y>>] = 16 * x + FromHex(y)
    <2> SUFFICES ASSUME NEW x \in B, NEW y \in A PROVE 16 * x + FromHex(y) \in B
      OBVIOUS
    <2>1. FromHex(y) \in Nat
      <3>1. y \in 0..255 /\ y \in HexBytes
        BY DEF HexBytes
      <3>2. FromHex(y) # -1 /\ FromHex(y) \in 0..15 \cup {-1}
        BY <3>1, FromHexIs
      <3>3. QED
        BY <3>2
    <2>2. QED
      BY <2>1
  <1>2. s \in Seq(A) /\ 0 \in B
    OBVIOUS
  <1>3. HexValue(s) = iter[DOMAIN s]
    BY DEF HexValue, FoldLeft, MapThenFoldSet
  <1> HIDE DEF step, B, A
  <1>4. \E h : Is(h)
    <2>1. PICK h : h \in [SUBSET (DOMAIN s) -> B] /\ FoldsUp(h, DOMAIN s, 0, step, s)
      BY <1>1, <1>2, FoldExists
    <2>2. \A T \in SUBSET (DOMAIN s) :
             h[T] = IF T = {} THEN 0 ELSE 16 * h[T \ {Max(T)}] + FromHex(s[Max(T)])
      BY <1>1, <1>2, <2>1, FoldPlaces DEF FoldsUp
    <2>3. h = [T \in SUBSET (DOMAIN s) |-> h[T]]
      BY <2>1
    <2>4. Is(h)
      BY <2>2, <2>3
    <2> HIDE DEF Is
    <2>5. QED
      BY <2>4
  <1>5. Is(iter)
    <2> HIDE DEF Is
    <2> QED BY <1>4
  <1> HIDE DEF iter
  <1>6. /\ iter[{}] = 0
        /\ \A n \in 1..Len(s) : iter[1..n] = 16 * iter[1..(n - 1)] + FromHex(s[n])
    <2>1. iter[{}] = 0
      BY <1>2, <1>5, FoldPlaces
    <2>2. ASSUME NEW n \in 1..Len(s)
          PROVE  iter[1..n] = 16 * iter[1..(n - 1)] + FromHex(s[n])
      <3> DEFINE T == 1..n
      <3>1. T \in SUBSET (DOMAIN s) /\ T # {} /\ Max(T) = n /\ T \ {n} = 1..(n - 1)
        BY <1>2, FoldPlaces
      <3> HIDE DEF T
      <3>2. iter[T] = 16 * iter[T \ {Max(T)}] + FromHex(s[Max(T)])
        BY <1>5, <3>1
      <3>3. iter[T] = 16 * iter[1..(n - 1)] + FromHex(s[n])
        BY <3>1, <3>2
      <3>4. QED
        BY <3>3 DEF T
    <2>3. QED
      BY <2>1, <2>2
  <1>7. \A n \in 1..Len(s) :
            iter[1..(n - 1)] \in B => iter[1..n] = step[<<iter[1..(n - 1)], s[n]>>]
    BY <1>1, <1>2, <1>6
  <1>8. PICK g \in [0..Len(s) -> B] : Runs(g, 0, step, s) /\ iter[DOMAIN s] = g[Len(s)]
    <2>1. TakesIn(iter, B, 0, step, s)
      BY <1>6, <1>7 DEF TakesIn
    <2>2. FoldsTo(iter[DOMAIN s], B, 0, step, s)
      BY <1>1, <1>2, <2>1, FoldRuns
    <2>3. QED
      BY <2>2 DEF FoldsTo
  <1>9. g[0] = 0 /\ \A n \in 1..Len(s) : g[n] = 16 * g[n - 1] + FromHex(s[n])
    <2>1. \A n \in 1..Len(s) : g[n - 1] \in B /\ s[n] \in A
      BY <1>2, <1>8
    <2>2. QED
      BY <1>1, <1>8, <2>1 DEF Runs
  <1>10. QED
    BY <1>3, <1>8, <1>9 DEF B

-----------------------------------------------------------------------------
(* Numbers in a word, and induction from the end of a text.                *)

(* Induction from the end of a text to its beginning.                      *)
Downward(N, T) == \A i \in 1..N : (\A j \in 1..N : j > i => j \in T) => i \in T

LEMMA DownInduction ==
    ASSUME NEW N \in Nat, NEW T, Downward(N, T)
    PROVE  1..N \subseteq T
  <1> DEFINE R == {m \in Nat : \A j \in 1..N : j > N - m => j \in T}
  <1>1. 0 \in R
    OBVIOUS
  <1>2. ASSUME NEW m \in Nat, m \in R PROVE m + 1 \in R
    <2> SUFFICES ASSUME NEW j \in 1..N, j > N - (m + 1) PROVE j \in T
      OBVIOUS
    <2>1. \A k \in 1..N : k > j => k \in T
      BY <1>2
    <2>2. QED
      BY <2>1 DEF Downward
  <1>3. Nat \subseteq R
    <2> HIDE DEF R
    <2> QED BY <1>1, <1>2, SetInduction
  <1>4. N \in R
    BY <1>3
  <1>5. QED
    BY <1>4

-----------------------------------------------------------------------------
(* A number is none or that of some digits, no more than are read.         *)
LEMMA NumberIs ==
    ASSUME NEW S, NEW word \in Seq(S), NEW i \in Nat \ {0}, NEW n \in Nat
    PROVE  \/ Number(word, i, n) = -1
           \/ \E s \in Seq(DecimalDigits) :
                 Len(s) <= n /\ Number(word, i, n) = ValueOf(s)
  <1> DEFINE R == {j \in i..(i + n) : \/ j = i + n \/ j > Len(word)
                                      \/ word[j] \notin DecimalDigits}
             end == Min(R)
             s == SubSeq(word, i, end - 1)
  <1>1. R \subseteq Nat /\ i + n \in R /\ \A j \in R : j \in i..(i + n)
    OBVIOUS
  <1>2. \A j \in i..(i + n) : j \notin R => j <= Len(word) /\ word[j] \in DecimalDigits
    OBVIOUS
  <1>3. Number(word, i, n) = IF end = i THEN -1 ELSE ValueOf(s)
    BY DEF Number
  <1> HIDE DEF R
  <1>4. end \in i..(i + n) /\ \A j \in R : end <= j
    BY <1>1, LeastIsMin
  <1> HIDE DEF end
  <1>5. \A j \in i..(end - 1) : j <= Len(word) /\ word[j] \in DecimalDigits
    <2> SUFFICES ASSUME NEW j \in i..(end - 1) PROVE j <= Len(word) /\ word[j] \in DecimalDigits
      OBVIOUS
    <2>1. j \in i..(i + n) /\ ~(end <= j)
      BY <1>4
    <2>2. QED
      BY <1>2, <1>4, <2>1
  <1>6. CASE end # i
    <2>1. Len(s) = end - i /\ \A k \in 1..Len(s) : s[k] = word[i + k - 1]
      BY <1>4
    <2>2. \A k \in 1..(end - i) : i + k - 1 \in i..(end - 1)
      BY <1>4
    <2>3. \A k \in 1..(end - i) : word[i + k - 1] \in DecimalDigits
      BY <1>5, <2>2
    <2>4. i \in 1..Len(word) /\ end - 1 \in i..Len(word)
      <3>1. i \in i..(end - 1) /\ end - 1 \in i..(end - 1)
        BY <1>4, <1>6
      <3>2. i <= Len(word) /\ end - 1 <= Len(word)
        BY <1>5, <3>1
      <3>3. QED
        BY <3>1, <3>2
    <2>5. s \in Seq(DecimalDigits)
      <3>1. s = [k \in 1..Len(s) |-> s[k]] /\ Len(s) \in Nat
        BY <2>4
      <3> HIDE DEF s
      <3>2. \A k \in 1..Len(s) : s[k] \in DecimalDigits
        BY <1>4, <2>1, <2>3
      <3> DEFINE l == Len(s)
      <3> HIDE DEF l
      <3>3. [k \in 1..l |-> s[k]] \in Seq(DecimalDigits)
        BY <3>1, <3>2 DEF l
      <3>4. QED
        BY <3>1, <3>3 DEF l
    <2>6. Len(s) <= n
      BY <1>4, <2>1
    <2>7. QED
      BY <1>3, <1>6, <2>5, <2>6
  <1>7. QED
    BY <1>3, <1>6

LEMMA NumberNat ==
    ASSUME NEW S, NEW word \in Seq(S), NEW i \in Nat \ {0}, NEW n \in Nat
    PROVE  Number(word, i, n) \in Nat \cup {-1}
  <1>1. ASSUME NEW s \in Seq(DecimalDigits) PROVE ValueOf(s) \in Nat
    <2>2. PICK g \in [0..Len(s) -> Nat] : g[Len(s)] = ValueOf(s)
      BY ValueRuns
    <2>3. Len(s) \in 0..Len(s)
      OBVIOUS
    <2>4. QED
      BY <2>2, <2>3
  <1>2. QED
    BY <1>1, NumberIs

(* What is read with %x is a number, whatever the bytes are.               *)
LEMMA HexNat ==
    ASSUME NEW s \in Seq(HexBytes)
    PROVE  HexValue(s) \in Nat
  <1>1. PICK g \in [0..Len(s) -> Nat] : g[Len(s)] = HexValue(s)
    BY HexRuns
  <1>2. Len(s) \in 0..Len(s)
    OBVIOUS
  <1>3. QED
    BY <1>1, <1>2

LEMMA HexAtInt ==
    ASSUME NEW m \in Seq(1..255), NEW i \in Nat \ {0}, NEW width \in Nat, NEW k \in Int
    PROVE  HexAt(m, i, width, k) \in Int
  <1> DEFINE F == {j \in i..Len(m) : m[j] \notin Blanks} \cup {Len(m) + 1}
             first == Min(F)
             stop == IF first + width <= Len(m) THEN first + width ELSE Len(m) + 1
             At(j) == IF j < stop THEN m[j] ELSE 0
             start == IF At(first) \in Signs THEN first + 1 ELSE first
             from == IF ZeroX(At(start), At(start + 1)) THEN start + 2 ELSE start
             E == {j \in from..stop : FromHex(At(j)) = -1}
             end == Min(E)
             n == HexValue(SubSeq(m, from, end - 1))
  <1>1. HexAt(m, i, width, k) = IF end = from THEN k ELSE IF At(first) = Minus THEN -n ELSE n
    BY DEF HexAt
  <1>2. Len(m) \in Nat /\ \A j \in 1..Len(m) : m[j] \in 1..255
    BY ElementOfSeq
  <1>3. first \in 1..(Len(m) + 1)
    <2>1. F \subseteq Nat /\ Len(m) + 1 \in F /\ F \subseteq 1..(Len(m) + 1)
      BY <1>2
    <2> HIDE DEF F
    <2>2. QED
      BY <2>1, LeastIsMin
  <1> HIDE DEF first, F
  <1>4. stop \in first..(Len(m) + 1)
    BY <1>2, <1>3
  <1>5. At(stop) = 0 /\ 0 \notin Signs /\ FromHex(0) = -1 /\ (\A b : ~ZeroX(0, b) /\ ~ZeroX(b, 0))
    <2>1. FromHex(0) = -1
      BY FromHexIs DEF HexBytes
    <2>2. QED
      BY <1>4, <2>1 DEF Signs, Minus, ZeroX
  <1>6. \A j \in first..(stop - 1) : At(j) = m[j] /\ m[j] \in 1..255
    BY <1>2, <1>3, <1>4
  <1>7. \A j \in Nat : j >= stop => At(j) = 0
    BY <1>3, <1>4
  <1> HIDE DEF At, stop
  <1>8. start \in first..stop
    BY <1>3, <1>4, <1>5, <1>7
  <1> HIDE DEF start
  <1>9. from \in first..stop
    <2>1. CASE ZeroX(At(start), At(start + 1))
      <3>1. At(start) # 0 /\ At(start + 1) # 0
        BY <2>1 DEF ZeroX
      <3>2. start + 1 < stop
        BY <1>3, <1>4, <1>7, <1>8, <3>1
      <3>3. QED
        BY <1>3, <1>4, <1>8, <2>1, <3>2
    <2>2. CASE ~ZeroX(At(start), At(start + 1))
      BY <1>8, <2>2
    <2>3. QED
      BY <2>1, <2>2
  <1> HIDE DEF from
  <1>10. end \in from..stop /\ \A j \in from..stop : FromHex(At(j)) = -1 => end <= j
    <2>1. E \subseteq Nat /\ stop \in E /\ E \subseteq from..stop
      BY <1>3, <1>4, <1>5, <1>9
    <2>2. \A j \in from..stop : FromHex(At(j)) = -1 => j \in E
      OBVIOUS
    <2> HIDE DEF E
    <2>3. end \in E /\ \A j \in E : end <= j
      BY <2>1, LeastIsMin
    <2>4. QED
      BY <2>1, <2>2, <2>3
  <1> HIDE DEF end, E
  <1>11. \A j \in from..(end - 1) : m[j] \in HexBytes
    <2> SUFFICES ASSUME NEW j \in from..(end - 1) PROVE m[j] \in HexBytes
      OBVIOUS
    <2>1. j \in from..stop /\ ~(end <= j) /\ j \in first..(stop - 1)
      BY <1>3, <1>4, <1>9, <1>10
    <2>2. FromHex(m[j]) # -1 /\ m[j] \in 1..255
      BY <1>6, <1>10, <2>1
    <2> DEFINE b == m[j]
    <2> HIDE DEF b
    <2>3. b \in 0..255 /\ FromHex(b) # -1
      BY <2>2 DEF b
    <2>4. b \in HexBytes
      BY <2>3, FromHexIs
    <2>5. QED
      BY <2>4 DEF b
  <1>12. n \in Nat
    <2> DEFINE e == end - 1
    <2>1. from \in Int /\ e \in Int
      BY <1>3, <1>4, <1>9, <1>10
    <2>2. \A j \in from..e : m[j] \in HexBytes
      BY <1>11
    <2> HIDE DEF e
    <2>3. SubSeq(m, from, e) \in Seq(HexBytes)
      BY <2>1, <2>2, SubSeqProperties
    <2>4. QED
      BY <2>3, HexNat DEF e
  <1> HIDE DEF n
  <1>13. QED
    BY <1>1, <1>12

LEMMA BytesAre ==
    ASSUME NEW s \in Seq(DOMAIN Code)
    PROVE  /\ Bytes(s) \in Seq(1..255) /\ Len(Bytes(s)) = Len(s)
           /\ \A i \in 1..Len(s) : /\ Bytes(s)[i] = Code[s[i]] /\ Bytes(s)[i] \in 1..255
                                   /\ Bytes(s)[i] = Star <=> s[i] = "*"
           /\ \A i \in 1..Len(s) : Bytes(s)[i] = Percent <=> s[i] = "%"
  <1> DEFINE l == Len(s)
  <1>1. DOMAIN s = 1..l /\ l \in Nat /\ \A i \in 1..l : s[i] \in DOMAIN Code
    OBVIOUS
  <1>2. Bytes(s) = [i \in 1..l |-> Code[s[i]]]
    BY <1>1 DEF Bytes
  <1>3. \A i \in 1..l : Code[s[i]] \in 1..255 /\ (Code[s[i]] = Star <=> s[i] = "*")
                       /\ (Code[s[i]] = Percent <=> s[i] = "%")
    BY <1>1, CodeAssumption
  <1> HIDE DEF l
  <1>4. [i \in 1..l |-> Code[s[i]]] \in Seq(1..255)
    BY <1>1, <1>3
  <1>5. QED
    BY <1>1, <1>2, <1>3, <1>4 DEF l

(* Two digits are a byte.                                                  *)
LEMMA HexByteIs ==
    ASSUME NEW word \in Seq(DOMAIN Code), NEW i \in Nat \ {0}
    PROVE  HexByte(word, i) \in 0..255
  <1> DEFINE n == HexAt(Bytes(word), i, 2, 0)
             width == 2
             k == 0
  <1>1. n \in Int
    <2>1. Bytes(word) \in Seq(1..255)
      BY BytesAre
    <2>2. width \in Nat /\ k \in Int
      OBVIOUS
    <2> HIDE DEF width, k
    <2>3. HexAt(Bytes(word), i, width, k) \in Int
      BY <2>1, <2>2, HexAtInt
    <2>4. QED
      BY <2>3 DEF width, k
  <1> HIDE DEF n
  <1>2. n % 256 \in 0..255
    BY <1>1
  <1>3. QED
    BY <1>2 DEF HexByte, n

-----------------------------------------------------------------------------
(* The bytes of a message without its escapes.                             *)

(* What is put out from place i of a word on, and how often it is asked    *)
(* for: f is what Unescape() works out for the places behind it.           *)
FromPlace(f, word, args, i) ==
    IF i > Len(word) THEN <<>>
    ELSE IF word[i] # Backslash THEN Bytes(<<word[i]>>) \o f[i + 1]
    ELSE IF i = Len(word) THEN <<0>>
    ELSE CASE word[i + 1] = "r" -> <<13>> \o f[i + 2]
           [] word[i + 1] = "n" -> <<10>> \o f[i + 2]
           [] word[i + 1] = "x" -> <<HexByte(word, i + 2)>> \o f[i + 3]
           [] word[i + 1] = "j" ->
                 Bytes(args[ArgNumber(word, i + 2) + 1]) \o f[AfterArgNumber(word, i + 2)]
           [] OTHER -> Bytes(<<word[i + 1]>>) \o f[i + 2]

(* That there is such a function.                                          *)
LEMMA UnescapeIs ==
    ASSUME NEW word, Len(word) \in Nat, NEW args
    PROVE  \E f : /\ Unescape(word, args) = f[1]
                  /\ \A i \in 1..(Len(word) + 3) : f[i] = FromPlace(f, word, args, i)
  <1> DEFINE N == Len(word) + 3
             Is(f) == f = [i \in 1..N |-> FromPlace(f, word, args, i)]
  <1>1. N \in Nat /\ N > 0
    OBVIOUS
  <1>2. Unescape(word, args) = (CHOOSE f : Is(f))[1]
    BY DEF Unescape, FromPlace
  <1>3. ASSUME NEW g, NEW h, NEW i \in 1..N, \A j \in 1..N : j > i => g[j] = h[j]
        PROVE  FromPlace(g, word, args, i) = FromPlace(h, word, args, i)
    <2>1. CASE i > Len(word)
      BY <2>1 DEF FromPlace
    <2>2. CASE i <= Len(word)
      <3> DEFINE k == AfterArgNumber(word, i + 2)
      <3>1. i + 1 \in 1..N /\ i + 2 \in 1..N /\ i + 3 \in 1..N
        BY <2>2
      <3>2. k = i + 2 \/ k = i + 3
        BY DEF AfterArgNumber
      <3>3. k \in 1..N /\ k > i
        BY <3>1, <3>2
      <3> HIDE DEF k, N
      <3>4. g[i + 1] = h[i + 1] /\ g[i + 2] = h[i + 2] /\ g[i + 3] = h[i + 3] /\ g[k] = h[k]
        BY <1>3, <3>1, <3>3
      <3>5. QED
        BY <3>4 DEF FromPlace, k
    <2>3. QED
      BY <2>1, <2>2
  <1>4. \E f : Is(f)
    <2> HIDE DEF N
    <2> DEFINE Part(g, i) == \A j \in 1..N : j >= i => g[j] = FromPlace(g, word, args, j)
               T == {i \in 1..N : \E g : Part(g, i)}
    <2>1. ASSUME NEW i \in 1..N, \A j \in 1..N : j > i => j \in T
          PROVE  i \in T
      <3>1. PICK g : \A j \in 1..N : j > i => g[j] = FromPlace(g, word, args, j)
        <4>1. CASE i = N
          BY <1>1, <4>1
        <4>2. CASE i # N
          <5>1. i + 1 \in 1..N /\ i + 1 > i
            BY <1>1, <4>2
          <5>2. i + 1 \in T
            BY <2>1, <5>1
          <5>3. PICK g : Part(g, i + 1)
            BY <5>2
          <5>4. QED
            BY <1>1, <5>3
        <4>3. QED
          BY <4>1, <4>2
      <3> DEFINE h == [j \in 1..N |-> IF j = i THEN FromPlace(g, word, args, i) ELSE g[j]]
      <3>2. \A j \in 1..N : j >= i => \A k \in 1..N : k > j => g[k] = h[k]
        BY <1>1
      <3>3. \A j \in 1..N : j >= i => FromPlace(h, word, args, j) = FromPlace(g, word, args, j)
        <4> SUFFICES ASSUME NEW j \in 1..N, j >= i PROVE FromPlace(h, word, args, j) = FromPlace(g, word, args, j)
          OBVIOUS
        <4> HIDE DEF h
        <4>1. FromPlace(g, word, args, j) = FromPlace(h, word, args, j)
          BY <1>3, <3>2
        <4>2. QED
          BY <4>1
      <3>4. Part(h, i)
        BY <1>1, <3>1, <3>3
      <3>5. \E f : Part(f, i)
        <4> HIDE DEF Part, h
        <4> QED BY <3>4
      <3>6. QED
        <4> HIDE DEF Part
        <4> QED BY <3>5
    <2>2. 1..N \subseteq T
      <3> HIDE DEF T
      <3>1. Downward(N, T)
        BY <2>1 DEF Downward
      <3>2. QED
        BY <1>1, <3>1, DownInduction
    <2>3. PICK g : Part(g, 1)
      <3>1. 1 \in T
        <4> HIDE DEF T
        <4> QED BY <1>1, <2>2
      <3> HIDE DEF Part
      <3> QED BY <3>1
    <2> DEFINE h == [j \in 1..N |-> g[j]]
    <2>4. \A j \in 1..N : h[j] = FromPlace(h, word, args, j)
      <3> SUFFICES ASSUME NEW j \in 1..N PROVE h[j] = FromPlace(h, word, args, j)
        OBVIOUS
      <3>1. g[j] = FromPlace(g, word, args, j)
        BY <1>1, <2>3
      <3>2. \A k \in 1..N : k > j => g[k] = h[k]
        OBVIOUS
      <3>3. h[j] = g[j]
        OBVIOUS
      <3> HIDE DEF h
      <3>4. FromPlace(g, word, args, j) = FromPlace(h, word, args, j)
        BY <1>3, <3>2
      <3>5. QED
        BY <3>1, <3>3, <3>4
    <2>5. h = [j \in 1..N |-> h[j]]
      OBVIOUS
    <2> HIDE DEF h
    <2>6. Is(h)
      BY <2>4, <2>5
    <2>7. QED
      <3> HIDE DEF Is
      <3> QED BY <2>6
  <1> DEFINE f == CHOOSE f : Is(f)
  <1>5. Is(f)
    <2> HIDE DEF Is
    <2> QED BY <1>4
  <1> HIDE DEF f
  <1>6. \A i \in 1..N : f[i] = FromPlace(f, word, args, i)
    BY <1>5
  <1>7. QED
    BY <1>2, <1>6 DEF f

LEMMA WideBytes ==
    ASSUME NEW s \in Seq(1..255)
    PROVE  s \in Seq(0..255)
  OBVIOUS

LEMMA OneByte ==
    ASSUME NEW c \in DOMAIN Code
    PROVE  Bytes(<<c>>) = <<Code[c]>> /\ Code[c] \in 1..255
  <1>1. Bytes(<<c>>) = [i \in 1..1 |-> Code[<<c>>[i]]]
    BY DEF Bytes
  <1>2. QED
    BY <1>1, CodeAssumption

(* A message is made of bytes, whatever the word and the arguments it      *)
(* names are.                                                              *)
LEMMA UnescapeType ==
    ASSUME NEW word \in Seq(DOMAIN Code), NEW args,
           \A k \in DOMAIN args : args[k] \in Seq(DOMAIN Code),
           ArgsGiven(word, args)
    PROVE  Unescape(word, args) \in Seq(0..255)
  <1> DEFINE N == Len(word) + 3
             M == Seq(0..255)
  <1>1. N \in Nat /\ Len(word) \in Nat /\ N = Len(word) + 3
    OBVIOUS
  <1>2. PICK f : /\ Unescape(word, args) = f[1]
                 /\ \A i \in 1..N : f[i] = FromPlace(f, word, args, i)
    BY UnescapeIs
  <1>3. \A b \in 0..255 : <<b>> \in M
    OBVIOUS
  <1>4. \A x, y \in M : x \o y \in M
    OBVIOUS
  <1>5. <<>> \in M
    OBVIOUS
  <1> HIDE DEF N
  <1> DEFINE T == {i \in 1..N : f[i] \in M}
  <1>6. ASSUME NEW i \in 1..N, \A j \in 1..N : j > i => j \in T
        PROVE  i \in T
    <2>1. f[i] = FromPlace(f, word, args, i)
      BY <1>2
    <2>2. \A j \in 1..N : j > i => f[j] \in M
      BY <1>6
    <2> HIDE DEF M
    <2>3. CASE i > Len(word)
      BY <1>5, <2>1, <2>3 DEF FromPlace
    <2>4. CASE i <= Len(word)
      <3> DEFINE k == AfterArgNumber(word, i + 2)
      <3>1. i + 1 \in 1..N /\ i + 2 \in 1..N /\ i + 3 \in 1..N
        BY <1>1, <2>4
      <3>2. k = i + 2 \/ k = i + 3
        BY DEF AfterArgNumber
      <3>3. k \in 1..N /\ k > i
        BY <3>1, <3>2
      <3> HIDE DEF k
      <3>4. f[i + 1] \in M /\ f[i + 2] \in M /\ f[i + 3] \in M /\ f[k] \in M
        BY <2>2, <3>1, <3>3
      <3>5. i \in DOMAIN word /\ Bytes(<<word[i]>>) \in M
        <4>1. i \in DOMAIN word /\ word[i] \in DOMAIN Code
          BY <1>1, <2>4
        <4>2. Code[word[i]] \in 0..255 /\ Bytes(<<word[i]>>) = <<Code[word[i]]>>
          BY <4>1, OneByte
        <4>3. QED
          BY <1>3, <4>1, <4>2
      <3>6. CASE word[i] # Backslash
        BY <1>4, <2>1, <2>4, <3>4, <3>5, <3>6 DEF FromPlace
      <3>7. CASE word[i] = Backslash /\ i = Len(word)
        <4>1. f[i] = <<0>>
          BY <2>1, <2>4, <3>7 DEF FromPlace
        <4>2. <<0>> \in M
          BY <1>3
        <4>3. QED
          BY <4>1, <4>2
      <3>8. CASE word[i] = Backslash /\ i # Len(word)
        <4>1. f[i] = CASE word[i + 1] = "r" -> <<13>> \o f[i + 2]
                       [] word[i + 1] = "n" -> <<10>> \o f[i + 2]
                       [] word[i + 1] = "x" -> <<HexByte(word, i + 2)>> \o f[i + 3]
                       [] word[i + 1] = "j" ->
                             Bytes(args[ArgNumber(word, i + 2) + 1]) \o f[k]
                       [] OTHER -> Bytes(<<word[i + 1]>>) \o f[i + 2]
          BY <2>1, <2>4, <3>8 DEF FromPlace, k
        <4>2. i + 1 \in DOMAIN word /\ word[i + 1] \in DOMAIN Code
          BY <1>1, <2>4, <3>8
        <4>3. Bytes(<<word[i + 1]>>) \in M
          <5>1. Code[word[i + 1]] \in 0..255 /\ Bytes(<<word[i + 1]>>) = <<Code[word[i + 1]]>>
            BY <4>2, OneByte
          <5>2. QED
            BY <1>3, <5>1
        <4>4. <<HexByte(word, i + 2)>> \in M
          <5>1. i + 2 \in Nat \ {0}
            OBVIOUS
          <5>2. HexByte(word, i + 2) \in 0..255
            BY <5>1, HexByteIs
          <5>3. QED
            BY <1>3, <5>2
        <4>5. word[i + 1] = "j" => Bytes(args[ArgNumber(word, i + 2) + 1]) \in M
          <5> SUFFICES ASSUME word[i + 1] = "j"
                       PROVE  Bytes(args[ArgNumber(word, i + 2) + 1]) \in M
            OBVIOUS
          <5>1. i \in 1..(Len(word) - 1)
            BY <1>1, <2>4, <3>8
          <5>2. ArgNumber(word, i + 2) + 1 \in DOMAIN args
            BY <3>8, <5>1 DEF ArgsGiven
          <5>3. args[ArgNumber(word, i + 2) + 1] \in Seq(DOMAIN Code)
            BY <5>2
          <5>4. QED
            BY <5>3, BytesAre, WideBytes DEF M
        <4>6. <<13>> \in M /\ <<10>> \in M
          BY <1>3
        <4>7. CASE word[i + 1] = "r"
          BY <1>4, <3>4, <4>1, <4>6, <4>7
        <4>8. CASE word[i + 1] = "n"
          BY <1>4, <3>4, <4>1, <4>6, <4>8
        <4>9. CASE word[i + 1] = "x"
          BY <1>4, <3>4, <4>1, <4>4, <4>9
        <4>10. CASE word[i + 1] = "j"
          BY <1>4, <3>4, <4>1, <4>5, <4>10
        <4>11. CASE word[i + 1] \notin {"r", "n", "x", "j"}
          BY <1>4, <3>4, <4>1, <4>3, <4>11
        <4>12. QED
          BY <4>7, <4>8, <4>9, <4>10, <4>11
      <3>9. QED
        BY <3>6, <3>7, <3>8
    <2>5. QED
      BY <1>1, <2>3, <2>4
  <1>7. 1..N \subseteq T
    <2> HIDE DEF T
    <2>1. Downward(N, T)
      BY <1>6 DEF Downward
    <2>2. QED
      BY <1>1, <2>1, DownInduction
  <1>8. 1 \in T
    BY <1>1, <1>7
  <1>9. QED
    BY <1>2, <1>8

-----------------------------------------------------------------------------
(* Places of a byte, the string up to its first zero, and the sum put behind it. *)

LEMMA FindIs ==
    ASSUME NEW S, NEW s \in Seq(S), NEW b
    PROVE  /\ Find(s, b) \in 1..(Len(s) + 1)
           /\ Find(s, b) <= Len(s) => s[Find(s, b)] = b
           /\ \A j \in 1..Len(s) : s[j] = b => Find(s, b) <= j
  <1> DEFINE R == {i \in DOMAIN s : s[i] = b} \cup {Len(s) + 1}
  <1>1. DOMAIN s = 1..Len(s) /\ Len(s) \in Nat
    OBVIOUS
  <1>2. R \subseteq Nat /\ Len(s) + 1 \in R /\ R \subseteq 1..(Len(s) + 1)
    BY <1>1
  <1>3. /\ \A i \in R : i <= Len(s) => s[i] = b
        /\ \A i \in 1..Len(s) : s[i] = b => i \in R
    BY <1>1
  <1>4. Find(s, b) = Min(R)
    BY DEF Find
  <1> HIDE DEF R
  <1>5. Min(R) \in R /\ \A m \in R : Min(R) <= m
    BY <1>2, LeastIsMin
  <1>6. QED
    BY <1>2, <1>3, <1>4, <1>5

(* The exclusive or of some bytes, as two digits.                          *)
LEMMA XorDigits ==
    ASSUME NEW s \in Seq(0..255)
    PROVE  /\ XorAll(s) \in 0..255
           /\ XorAll(s) \div 16 \in 0..15 /\ XorAll(s) % 16 \in 0..15
           /\ XorAll(s) = 16 * (XorAll(s) \div 16) + (XorAll(s) % 16)
           /\ HexCode(XorAll(s) \div 16) \in 48..57 \cup 65..70
           /\ HexCode(XorAll(s) % 16) \in 48..57 \cup 65..70
  <1>1. PICK g \in [0..Len(s) -> 0..255] : g[Len(s)] = XorAll(s)
    BY XorAllRuns
  <1>2. XorAll(s) \in 0..255
    <2>1. Len(s) \in 0..Len(s)
      OBVIOUS
    <2>2. QED
      BY ZenonT(40), <1>1, <2>1
  <1> DEFINE x == XorAll(s)
  <1>3. x \in 0..255
    BY <1>2
  <1> HIDE DEF x
  <1>4. /\ x \div 16 \in 0..15 /\ x % 16 \in 0..15
        /\ x = 16 * (x \div 16) + (x % 16)
    BY ONLY <1>3
  <1>5. ASSUME NEW n \in 0..15 PROVE HexCode(n) \in 48..57 \cup 65..70
    BY DEF HexCode
  <1>6. QED
    BY <1>2, <1>4, <1>5 DEF x

LEMMA RestIs ==
    ASSUME NEW S, NEW s \in Seq(S), NEW d \in 1..(Len(s) + 1)
    PROVE  /\ SubSeq(s, d + 1, Len(s)) \in Seq(S)
           /\ d <= Len(s) => Len(SubSeq(s, d + 1, Len(s))) = Len(s) - d
           /\ d <= Len(s) => \A i \in 1..(Len(s) - d) : SubSeq(s, d + 1, Len(s))[i] = s[d + i]
  <1>1. CASE d >= Len(s)
    <2>1. SubSeq(s, d + 1, Len(s)) = <<>>
      BY <1>1
    <2>2. QED
      BY <1>1, <2>1
  <1>2. CASE d < Len(s)
    <2> DEFINE t == SubSeq(s, d + 1, Len(s))
    <2>1. d + 1 \in 1..Len(s) /\ Len(s) \in 1..Len(s)
      BY <1>2
    <2>2. t \in Seq(S) /\ Len(t) = Len(s) - d
      BY <2>1
    <2>3. \A i \in 1..(Len(s) - d) : t[i] = s[d + i]
      BY <2>1
    <2>4. QED
      BY <2>2, <2>3
  <1>3. QED
    BY <1>1, <1>2

(* Where the dollar is, and what is sent behind the message.               *)
LEMMA CStringIs ==
    ASSUME NEW m \in Seq(0..255)
    PROVE  /\ CString(m) \in Seq(0..255) /\ Len(CString(m)) <= Len(m)
           /\ \A i \in 1..Len(CString(m)) : CString(m)[i] = m[i] /\ m[i] # 0
           /\ Len(CString(m)) < Len(m) => m[Len(CString(m)) + 1] = 0
  <1> DEFINE z == Find(m, 0)
  <1>1. z \in 1..(Len(m) + 1) /\ (\A j \in 1..Len(m) : m[j] = 0 => z <= j)
        /\ (z <= Len(m) => m[z] = 0)
    BY FindIs
  <1>2. CString(m) = SubSeq(m, 1, z - 1)
    BY DEF CString
  <1> HIDE DEF z
  <1>3. SubSeq(m, 1, z - 1) \in Seq(0..255) /\ Len(SubSeq(m, 1, z - 1)) = z - 1
    <2>1. CASE z = 1
      <3>1. SubSeq(m, 1, 0) = <<>>
        OBVIOUS
      <3>2. <<>> \in Seq(0..255) /\ Len(<<>>) = 0 /\ z - 1 = 0
        BY <2>1
      <3>3. QED
        BY <3>1, <3>2
    <2>2. CASE z # 1
      <3> DEFINE n == z - 1
      <3>1. n \in 1..Len(m)
        BY <1>1, <2>2
      <3> HIDE DEF n
      <3>2. \A i \in 1..n : m[i] \in 0..255
        <4>1. Len(m) \in Nat /\ \A i \in 1..Len(m) : m[i] \in 0..255
          BY LenProperties, ElementOfSeq
        <4>2. 1..n \subseteq 1..Len(m)
          BY <3>1, <4>1
        <4>3. QED
          BY <4>1, <4>2
      <3> DEFINE S == 0..255
                 s == m
                 one == 1
      <3>4. one \in Int /\ n \in Int /\ \A i \in one..n : s[i] \in S
        BY <3>1, <3>2
      <3> HIDE DEF S, s, one
      <3>5. SubSeq(s, one, n) \in Seq(S) /\ Len(SubSeq(s, one, n)) = IF one <= n THEN n - one + 1 ELSE 0
        BY <3>4, SubSeqProperties
      <3>6. SubSeq(m, 1, n) \in Seq(0..255) /\ Len(SubSeq(m, 1, n)) = n
        BY <3>1, <3>5 DEF S, s, one
      <3>7. QED
        BY <3>6 DEF n
    <2>3. QED
      BY <2>1, <2>2
  <1>4. \A i \in 1..(z - 1) : SubSeq(m, 1, z - 1)[i] = m[i]
    BY <1>1
  <1>5. QED
    BY <1>1, <1>2, <1>3, <1>4

LEMMA SummedType ==
    ASSUME NEW m \in Seq(0..255), NEW nmea
    PROVE  Summed(m, nmea) \in Seq(0..255)
  <1> DEFINE M == Seq(0..255)
             dollar == Find(CString(m), Dollar)
             body == SubSeq(m, dollar + 1, Len(m))
             sum == XorSum(body)
  <1>1. dollar \in 1..(Len(m) + 1)
    <2>1. CString(m) \in Seq(0..255) /\ Len(CString(m)) <= Len(m) /\ Len(m) \in Nat
      BY CStringIs
    <2>2. dollar \in 1..(Len(CString(m)) + 1)
      BY <2>1, FindIs
    <2>3. Len(CString(m)) \in Nat
      BY <2>1
    <2>4. QED
      BY <2>1, <2>2, <2>3
  <1> HIDE DEF dollar
  <1>2. body \in M
    BY <1>1, RestIs
  <1> HIDE DEF body
  <1>3. HexCode(sum \div 16) \in 0..255 /\ HexCode(sum % 16) \in 0..255
    BY <1>2, XorDigits DEF XorSum
  <1>4. Sum(body) \in 0..255
    <2>1. PICK g \in [0..Len(body) -> Nat] : g[Len(body)] = SumWide(body)
      BY <1>2, SumRuns
    <2>2. Len(body) \in 0..Len(body)
      BY <1>2
    <2>3. PICK n \in Nat : SumWide(body) = n
      BY <2>1, <2>2
    <2>4. n % 256 \in 0..255
      OBVIOUS
    <2>5. Sum(body) = SumWide(body) % 256
      BY DEF Sum
    <2>6. QED
      BY <2>3, <2>4, <2>5
  <1>5. \A x, y \in M : x \o y \in M
    OBVIOUS
  <1>6. CrLf \in M /\ (\A a \in 0..255 : <<a>> \in M) /\ \A a, b, c \in 0..255 : <<a, b, c>> \in M
    <2>1. 13 \in 0..255 /\ 10 \in 0..255
      OBVIOUS
    <2>2. \A a, b \in 0..255 : <<a, b>> \in M
      OBVIOUS
    <2>3. CrLf \in M
      BY <2>1, <2>2 DEF CrLf
    <2>4. \A a \in 0..255 : <<a>> \in M
      OBVIOUS
    <2>5. \A a, b, c \in 0..255 : <<a, b, c>> \in M
      OBVIOUS
    <2> HIDE DEF M
    <2>6. QED
      BY <2>3, <2>4, <2>5
  <1>7. Star \in 0..255
    BY DEF Star
  <1> DEFINE digits == <<Star, HexCode(sum \div 16), HexCode(sum % 16)>>
  <1>8. Summed(m, nmea) \in {m, m \o digits \o CrLf, m \o <<Sum(body)>> \o CrLf}
    BY DEF Summed, dollar, body
  <1>9. digits \in M /\ <<Sum(body)>> \in M /\ m \in M
    <2> HIDE DEF sum
    <2>1. QED
      BY <1>3, <1>4, <1>6, <1>7
  <1> DEFINE last == <<Sum(body)>>
  <1>10. last \in M
    BY <1>9
  <1>11. Summed(m, nmea) = m \/ Summed(m, nmea) = m \o digits \o CrLf
         \/ Summed(m, nmea) = m \o last \o CrLf
    BY <1>8
  <1> HIDE DEF digits, last, M
  <1>12. Summed(m, nmea) \in M
    <2>1. m \o digits \in M /\ m \o last \in M
      BY <1>5, <1>9, <1>10
    <2>2. m \o digits \o CrLf \in M /\ m \o last \o CrLf \in M
      BY <1>5, <1>6, <2>1
    <2>3. QED
      BY <1>9, <1>11, <2>2
  <1>13. QED
    BY <1>12 DEF M

(* A word without a backslash is sent as it is.                            *)
LEMMA UnescapePlain ==
    ASSUME NEW word \in Seq(DOMAIN Code), NEW args,
           \A i \in DOMAIN word : word[i] # Backslash
    PROVE  Unescape(word, args) = Bytes(word)
  <1> DEFINE N == Len(word) + 3
             L == Len(word)
             Is(s, i) == /\ s \in Seq(1..255) /\ Len(s) = L + 1 - i
                         /\ \A k \in 1..(L + 1 - i) : s[k] = Code[word[i + k - 1]]
  <1>1. N \in Nat /\ L \in Nat /\ N = L + 3 /\ DOMAIN word = 1..L
    OBVIOUS
  <1>2. PICK f : /\ Unescape(word, args) = f[1]
                 /\ \A i \in 1..N : f[i] = FromPlace(f, word, args, i)
    BY UnescapeIs
  <1>3. \A i \in 1..L : /\ Code[word[i]] \in 1..255 /\ word[i] # Backslash
                        /\ Bytes(<<word[i]>>) = <<Code[word[i]]>>
    <2> SUFFICES ASSUME NEW i \in 1..L
                 PROVE  /\ Code[word[i]] \in 1..255 /\ word[i] # Backslash
                        /\ Bytes(<<word[i]>>) = <<Code[word[i]]>>
      OBVIOUS
    <2>1. word[i] \in DOMAIN Code /\ word[i] # Backslash
      BY <1>1
    <2>2. QED
      BY <2>1, OneByte
  <1>4. /\ \A i \in 1..N : i > L => f[i] = <<>>
        /\ \A i \in 1..L : f[i] = <<Code[word[i]]>> \o f[i + 1]
    <2>1. ASSUME NEW i \in 1..N, i > L PROVE f[i] = <<>>
      BY <1>2, <2>1 DEF FromPlace
    <2>2. ASSUME NEW i \in 1..L PROVE f[i] = <<Code[word[i]]>> \o f[i + 1]
      <3>1. i \in 1..N /\ ~(i > Len(word)) /\ word[i] # Backslash
        BY <1>1, <1>3
      <3>2. f[i] = Bytes(<<word[i]>>) \o f[i + 1]
        BY <1>2, <3>1 DEF FromPlace
      <3>3. QED
        BY <1>3, <3>2
    <2>3. QED
      BY <2>1, <2>2
  <1> HIDE DEF N, L
  <1> DEFINE T == {i \in 1..(L + 1) : Is(f[i], i)}
  <1>5. ASSUME NEW i \in 1..(L + 1), \A j \in 1..(L + 1) : j > i => j \in T
        PROVE  i \in T
    <2>1. CASE i = L + 1
      <3>1. f[i] = <<>> /\ L + 1 - i = 0
        BY <1>1, <1>4, <2>1
      <3>2. <<>> \in Seq(1..255) /\ Len(<<>>) = 0
        OBVIOUS
      <3>3. 1..(L + 1 - i) = {}
        BY <3>1
      <3>4. Is(<<>>, i)
        BY <3>1, <3>2, <3>3
      <3> HIDE DEF Is
      <3>5. QED
        BY <3>1, <3>4
    <2>2. CASE i # L + 1
      <3>1. i \in 1..L /\ i + 1 \in 1..(L + 1) /\ i + 1 > i
        BY <1>1, <2>2
      <3>2. Is(f[i + 1], i + 1)
        BY <1>5, <3>1
      <3> DEFINE t == f[i + 1]
                 b == Code[word[i]]
      <3>3. t \in Seq(1..255) /\ Len(t) = L - i /\ \A k \in 1..(L - i) : t[k] = Code[word[i + k]]
        <4>1. L + 1 - (i + 1) = L - i
          BY <1>1, <3>1
        <4>2. \A k \in 1..(L - i) : i + 1 + k - 1 = i + k
          BY <1>1, <3>1
        <4>3. QED
          BY <3>2, <4>1, <4>2
      <3>4. b \in 1..255 /\ f[i] = <<b>> \o t
        BY <1>3, <1>4, <3>1
      <3> DEFINE c == word[i]
      <3>5. b = Code[c]
        OBVIOUS
      <3> HIDE DEF t, b
      <3>6. <<b>> \o t \in Seq(1..255) /\ Len(<<b>> \o t) = L + 1 - i
        <4> DEFINE A == 1..255
        <4>1. t \in Seq(A) /\ b \in A /\ Len(t) = L - i
          BY <3>3, <3>4
        <4> HIDE DEF A
        <4>2. <<b>> \o t \in Seq(A) /\ Len(<<b>> \o t) = 1 + Len(t)
          BY <4>1
        <4>3. 1 + (L - i) = L + 1 - i
          BY <1>1, <3>1
        <4>4. QED
          BY <4>1, <4>2, <4>3 DEF A
      <3>7. ASSUME NEW k \in 1..(L + 1 - i)
            PROVE  (<<b>> \o t)[k] = Code[word[i + k - 1]]
        <4>1. CASE k = 1
          <5>1. (<<b>> \o t)[1] = b /\ i + k - 1 = i
            BY <3>1, <3>3, <3>4, <4>1
          <5>2. QED
            BY <3>5, <4>1, <5>1
        <4>2. CASE k # 1
          <5>1. (<<b>> \o t)[k] = t[k - 1] /\ k - 1 \in 1..(L - i)
            BY <1>1, <3>1, <3>3, <3>4, <4>2
          <5>2. i + (k - 1) = i + k - 1
            BY <3>1
          <5>3. QED
            BY <3>3, <5>1, <5>2
        <4>3. QED
          BY <4>1, <4>2
      <3>8. QED
        BY <3>4, <3>6, <3>7
    <2>3. QED
      BY <2>1, <2>2
  <1>6. 1 \in T
    <2> HIDE DEF T
    <2>1. Downward(L + 1, T) /\ L + 1 \in Nat
      BY <1>1, <1>5 DEF Downward
    <2>2. 1..(L + 1) \subseteq T
      BY <2>1, DownInduction
    <2>3. QED
      BY <1>1, <2>2
  <1> DEFINE s == f[1]
  <1>7. s \in Seq(1..255) /\ Len(s) = L /\ \A k \in 1..L : s[k] = Code[word[k]]
    <2>1. L + 1 - 1 = L /\ \A k \in 1..L : 1 + k - 1 = k
      BY <1>1
    <2>2. Is(s, 1)
      BY <1>6
    <2>3. QED
      BY <2>1, <2>2
  <1> HIDE DEF s
  <1>8. s = [k \in 1..L |-> s[k]]
    BY <1>7
  <1>9. Bytes(word) = [k \in 1..L |-> Code[word[k]]]
    BY <1>1 DEF Bytes
  <1>10. QED
    BY <1>2, <1>7, <1>8, <1>9 DEF s

-----------------------------------------------------------------------------
(* The words of a line.                                                    *)

LEMMA SkipOver ==
    ASSUME NEW text, Len(text) \in Nat, NEW from \in 1..(Len(text) + 1)
    PROVE  /\ Skip(text, from) \in from..(Len(text) + 1)
           /\ Skip(text, from) <= Len(text) => text[Skip(text, from)] \notin Blank
           /\ \A i \in from..Len(text) : text[i] \notin Blank => Skip(text, from) <= i
  <1> DEFINE R == {i \in from..Len(text) : text[i] \notin Blank} \cup {Len(text) + 1}
  <1>1. /\ R \subseteq Nat /\ R # {}
        /\ \A i \in R : i \in from..(Len(text) + 1) /\ (i <= Len(text) => text[i] \notin Blank)
        /\ \A i \in from..Len(text) : text[i] \notin Blank => i \in R
    OBVIOUS
  <1>2. Skip(text, from) = Min(R)
    BY DEF Skip
  <1> HIDE DEF R
  <1>3. Min(R) \in R /\ \A m \in R : Min(R) <= m
    BY <1>1, LeastIsMin
  <1>4. QED
    BY <1>1, <1>2, <1>3


(* What is scanned from place i on, f being what is scanned behind it.     *)
ScanFrom(f, text, closing, i) ==
    IF i > Len(text) \/ text[i] = closing THEN [out |-> <<>>, stop |-> i]
    ELSE IF text[i] # Backslash THEN [f[i + 1] EXCEPT !.out = <<text[i]>> \o @]
    ELSE IF i = Len(text) THEN f[i + 1]
    ELSE [f[i + 2] EXCEPT !.out = <<Unescaped(text[i + 1])>> \o @]

LEMMA ScanIs ==
    ASSUME NEW text, Len(text) \in Nat, NEW p \in 1..(Len(text) + 1), NEW closing
    PROVE  \E f : /\ Scan(text, p, closing) = f[p]
                  /\ \A i \in p..(Len(text) + 1) : f[i] = ScanFrom(f, text, closing, i)
  <1> DEFINE L == Len(text)
             Is(g) == g = [i \in p..(L + 1) |-> ScanFrom(g, text, closing, i)]
  <1>1. L \in Nat /\ p \in 1..(L + 1)
    OBVIOUS
  <1>0. Scan(text, p, closing) = (CHOOSE g : Is(g))[p]
    BY DEF Scan, ScanFrom
  <1>2. ASSUME NEW g, NEW h, NEW i \in p..(L + 1), \A j \in p..(L + 1) : j > i => g[j] = h[j]
        PROVE  ScanFrom(g, text, closing, i) = ScanFrom(h, text, closing, i)
    <2>1. CASE i > L \/ text[i] = closing
      BY <2>1 DEF ScanFrom
    <2>2. CASE ~(i > L \/ text[i] = closing)
      <3>1. i + 1 \in p..(L + 1) /\ i + 1 > i /\ (i # L => i + 2 \in p..(L + 1) /\ i + 2 > i)
        BY <1>1, <2>2
      <3>2. g[i + 1] = h[i + 1] /\ (i # L => g[i + 2] = h[i + 2])
        BY <1>2, <3>1
      <3>3. QED
        BY <2>2, <3>2 DEF ScanFrom
    <2>3. QED
      BY <2>1, <2>2
  <1>3. \E g : Is(g)
    <2> DEFINE Part(g, i) == \A j \in p..(L + 1) : j >= i => g[j] = ScanFrom(g, text, closing, j)
               T == {i \in 1..(L + 1) : \E g : Part(g, i)}
    <2> HIDE DEF L
    <2>1. ASSUME NEW i \in 1..(L + 1), \A j \in 1..(L + 1) : j > i => j \in T
          PROVE  i \in T
      <3>1. PICK g : \A j \in p..(L + 1) : j > i => g[j] = ScanFrom(g, text, closing, j)
        <4>1. CASE i = L + 1
          BY <1>1, <4>1
        <4>2. CASE i # L + 1
          <5>1. i + 1 \in 1..(L + 1) /\ i + 1 > i
            BY <1>1, <4>2
          <5>2. i + 1 \in T
            BY <2>1, <5>1
          <5>3. PICK g : Part(g, i + 1)
            BY <5>2
          <5>4. QED
            BY <1>1, <5>3
        <4>3. QED
          BY <4>1, <4>2
      <3> DEFINE h == [j \in p..(L + 1) |-> IF j = i THEN ScanFrom(g, text, closing, i) ELSE g[j]]
      <3>2. \A j \in p..(L + 1) : j >= i =>
               \A k \in p..(L + 1) : k > j => g[k] = h[k]
        BY <1>1
      <3>3. \A j \in p..(L + 1) : j >= i => ScanFrom(h, text, closing, j) = ScanFrom(g, text, closing, j)
        <4> SUFFICES ASSUME NEW j \in p..(L + 1), j >= i PROVE ScanFrom(h, text, closing, j) = ScanFrom(g, text, closing, j)
          OBVIOUS
        <4> HIDE DEF h
        <4>1. ScanFrom(g, text, closing, j) = ScanFrom(h, text, closing, j)
          BY <1>2, <3>2
        <4>2. QED
          BY <4>1
      <3>4. Part(h, i)
        BY <1>1, <3>1, <3>3
      <3>5. \E f : Part(f, i)
        <4> HIDE DEF Part, h
        <4> QED BY <3>4
      <3>6. QED
        <4> HIDE DEF Part
        <4> QED BY <3>5
    <2>2. 1..(L + 1) \subseteq T
      <3>1. L + 1 \in Nat
        BY <1>1
      <3> HIDE DEF T
      <3>2. Downward(L + 1, T)
        BY <2>1 DEF Downward
      <3>3. QED
        BY <3>1, <3>2, DownInduction
    <2>3. PICK g : Part(g, 1)
      <3>1. 1 \in T
        <4> HIDE DEF T
        <4> QED BY <1>1, <2>2
      <3> HIDE DEF Part
      <3> QED BY <3>1
    <2> DEFINE h == [j \in p..(L + 1) |-> g[j]]
    <2>4. \A j \in p..(L + 1) : h[j] = ScanFrom(h, text, closing, j)
      <3> SUFFICES ASSUME NEW j \in p..(L + 1) PROVE h[j] = ScanFrom(h, text, closing, j)
        OBVIOUS
      <3>1. g[j] = ScanFrom(g, text, closing, j)
        BY <1>1, <2>3
      <3>2. \A k \in p..(L + 1) : k > j => g[k] = h[k]
        OBVIOUS
      <3>3. h[j] = g[j]
        OBVIOUS
      <3> HIDE DEF h
      <3>4. ScanFrom(g, text, closing, j) = ScanFrom(h, text, closing, j)
        BY <1>2, <3>2
      <3>5. QED
        BY <3>1, <3>3, <3>4
    <2>5. h = [j \in p..(L + 1) |-> h[j]]
      OBVIOUS
    <2> HIDE DEF h
    <2>6. Is(h)
      BY <2>4, <2>5
    <2>7. QED
      <3> HIDE DEF Is
      <3> QED BY <2>6
  <1> DEFINE f == CHOOSE g : Is(g)
  <1>4. Is(f)
    <2> HIDE DEF Is
    <2> QED BY <1>3
  <1>5. Scan(text, p, closing) = f[p]
    BY <1>0
  <1> HIDE DEF f
  <1>6. \A i \in p..(L + 1) : f[i] = ScanFrom(f, text, closing, i)
    BY <1>4
  <1>7. QED
    BY <1>5, <1>6

(* What a text is made of is kept by its escapes.                          *)
Escapes(C) == \A c \in C : Unescaped(c) \in C

LEMMA ScanType ==
    ASSUME NEW C, Escapes(C), NEW text \in Seq(C), NEW p \in 1..(Len(text) + 1), NEW closing
    PROVE  /\ Scan(text, p, closing) \in [out: Seq(C), stop: p..(Len(text) + 1)]
           /\ Len(Scan(text, p, closing).out) <= Scan(text, p, closing).stop - p
  <1> DEFINE L == Len(text)
             M == Seq(C)
             Is(r, i) == /\ r \in [out: M, stop: i..(L + 1)]
                         /\ Len(r.out) <= r.stop - i
  <1>1. L \in Nat /\ p \in 1..(L + 1) /\ \A i \in 1..L : text[i] \in C /\ Unescaped(text[i]) \in C
    BY DEF Escapes
  <1>2. PICK f : /\ Scan(text, p, closing) = f[p]
                 /\ \A i \in p..(L + 1) : f[i] = ScanFrom(f, text, closing, i)
    BY ScanIs
  <1>3. ASSUME NEW i \in p..(L + 1), NEW j \in p..(L + 1), j > i, NEW r, Is(r, j), NEW c \in C
        PROVE  Is([r EXCEPT !.out = <<c>> \o @], i) /\ Is(r, i)
    <2> DEFINE o == r.out
               s == r.stop
               x == <<c>> \o o
               r2 == [out |-> x, stop |-> s]
    <2>1. o \in M /\ s \in j..(L + 1) /\ Len(o) <= s - j /\ r = [out |-> o, stop |-> s]
      <3> HIDE DEF M
      <3> QED BY <1>3
    <2>2. x \in M /\ Len(x) = Len(o) + 1 /\ Len(o) \in Nat
      BY <2>1
    <2>3. [r EXCEPT !.out = <<c>> \o @] = r2
      <3> HIDE DEF M
      <3>1. [r EXCEPT !.out = x] = r2
        <4> HIDE DEF x, M
        <4> DEFINE J == j..(L + 1)
        <4>1. r \in [out: M, stop: J]
          BY <1>3
        <4> HIDE DEF J
        <4>2. QED
          BY <4>1
      <3>2. QED
        BY <3>1 DEF x
    <2> HIDE DEF M, x
    <2>4. s \in i..(L + 1) /\ Len(o) <= s - i /\ Len(x) <= s - i
      <3> HIDE DEF o, s
      <3> QED BY <1>1, <1>3, <2>1, <2>2
    <2>5. Is(r2, i) /\ Is(r, i)
      <3>1. r2.out = x /\ r2.stop = s /\ r2 \in [out: M, stop: i..(L + 1)]
        BY <2>2, <2>4
      <3>2. r \in [out: M, stop: i..(L + 1)]
        <4> HIDE DEF o, s
        <4> QED BY <2>1, <2>4
      <3>3. QED
        BY <2>4, <3>1, <3>2
    <2>6. QED
      BY <2>3, <2>5
  <1> DEFINE T == {i \in 1..(L + 1) : i >= p => Is(f[i], i)}
  <1>4. ASSUME NEW i \in 1..(L + 1), \A j \in 1..(L + 1) : j > i => j \in T
        PROVE  i \in T
    <2> SUFFICES ASSUME i >= p PROVE Is(f[i], i)
      BY DEF T
    <2>1. f[i] = ScanFrom(f, text, closing, i) /\ i \in p..(L + 1)
      BY <1>1, <1>2
    <2>2. \A j \in p..(L + 1) : j > i => Is(f[j], j)
      BY <1>1, <1>4
    <2>3. CASE i > L \/ text[i] = closing
      <3>1. f[i] = [out |-> <<>>, stop |-> i]
        BY <2>1, <2>3 DEF ScanFrom
      <3>2. <<>> \in M /\ Len(<<>>) = 0
        OBVIOUS
      <3> HIDE DEF M
      <3>3. QED
        BY <1>1, <3>1, <3>2
    <2>4. CASE ~(i > L \/ text[i] = closing)
      <3>1. /\ i \in 1..L /\ i \in p..(L + 1) /\ i + 1 \in p..(L + 1) /\ i + 1 > i
            /\ i # L => i + 2 \in p..(L + 1) /\ i + 2 > i /\ i + 1 \in 1..L
        BY <1>1, <2>1, <2>4
      <3>2. text[i] \in C /\ Is(f[i + 1], i + 1)
        BY <1>1, <2>2, <3>1
      <3> HIDE DEF Is
      <3>3. CASE text[i] # Backslash
        <4>1. f[i] = [f[i + 1] EXCEPT !.out = <<text[i]>> \o @]
          BY <2>1, <2>4, <3>3 DEF ScanFrom
        <4> DEFINE j == i + 1
        <4> HIDE DEF j
        <4>2. j \in p..(L + 1) /\ j > i /\ i \in p..(L + 1) /\ Is(f[j], j)
          BY <3>1, <3>2 DEF j
        <4>3. Is([f[j] EXCEPT !.out = <<text[i]>> \o @], i)
          BY <1>3, <3>2, <4>2
        <4>4. QED
          BY <4>1, <4>3 DEF j
      <3>4. CASE text[i] = Backslash /\ i = L
        <4>1. f[i] = f[i + 1]
          BY <2>1, <2>4, <3>4 DEF ScanFrom
        <4>2. QED
          BY <1>3, <3>1, <3>2, <4>1
      <3>5. CASE text[i] = Backslash /\ i # L
        <4>1. f[i] = [f[i + 2] EXCEPT !.out = <<Unescaped(text[i + 1])>> \o @]
          BY <2>1, <2>4, <3>5 DEF ScanFrom
        <4>2. Unescaped(text[i + 1]) \in C /\ Is(f[i + 2], i + 2)
          BY <1>1, <2>2, <3>1, <3>5
        <4> DEFINE c == Unescaped(text[i + 1])
                   j == i + 2
        <4>3. j \in p..(L + 1) /\ j > i /\ i \in p..(L + 1)
          BY <3>1, <3>5
        <4> HIDE DEF c, j
        <4>4. c \in C /\ Is(f[j], j)
          BY <4>2 DEF c, j
        <4>5. Is([f[j] EXCEPT !.out = <<c>> \o @], i)
          BY <1>3, <4>3, <4>4
        <4>6. QED
          BY <4>1, <4>5 DEF c, j
      <3>6. QED
        BY <3>3, <3>4, <3>5
    <2>5. QED
      BY <2>3, <2>4
  <1>5. 1..(L + 1) \subseteq T
    <2> HIDE DEF T
    <2>1. L + 1 \in Nat /\ Downward(L + 1, T)
      BY <1>1, <1>4 DEF Downward
    <2>2. QED
      BY <2>1, DownInduction
  <1>6. Is(f[p], p)
    <2> HIDE DEF Is
    <2>1. p \in T
      BY <1>5
    <2>2. QED
      BY <1>1, <2>1
  <1>7. QED
    BY <1>2, <1>6

(* A word, and where to look for the next one.                             *)
LEMMA ParameterType ==
    ASSUME NEW C, Escapes(C), NEW text \in Seq(C), NEW i \in 1..(Len(text) + 1)
    PROVE  /\ GetParameter(text, i).word \in Seq(C)
           /\ \/ GetParameter(text, i).next > Len(text)
              \/ GetParameter(text, i).next \in (i + 1)..Len(text)
  <1> DEFINE L == Len(text)
             start == Skip(text, i)
             isstring == start <= Len(text) /\ text[start] = Quote
             p == IF isstring THEN start + 1 ELSE start
             closing == IF isstring THEN Quote ELSE " "
             scanned == Scan(text, p, closing)
             stop == scanned.stop
             out == scanned.out
             rest == SubSeq(text, p + Len(out), Len(text))
             w == out \o rest
  <1>1. start \in i..(L + 1) /\ L \in Nat
    BY SkipOver
  <1>2. p \in i..(L + 1) /\ p \in 1..(L + 1)
    <2> HIDE DEF start
    <2>1. isstring => start <= L
      OBVIOUS
    <2> HIDE DEF isstring
    <2>2. QED
      BY <1>1, <2>1
  <1> HIDE DEF p
  <1>3. /\ scanned \in [out: Seq(C), stop: p..(L + 1)] /\ Len(out) <= stop - p
    BY <1>2, ScanType
  <1>4. GetParameter(text, i) =
           IF stop > L THEN [word |-> w, next |-> L + 1]
           ELSE [word |-> out, next |-> Skip(text, stop + 1)]
    BY DEF GetParameter, p
  <1>5. out \in Seq(C) /\ stop \in p..(L + 1)
    BY <1>3
  <1> HIDE DEF scanned, out, stop, start, closing
  <1>6. CASE stop > L
    <2>1. GetParameter(text, i).next = L + 1 /\ GetParameter(text, i).word = w
      <3> HIDE DEF w
      <3> QED BY <1>4, <1>6
    <2>2. rest \in Seq(C)
      <3> DEFINE m == p + Len(out)
      <3>1. m \in Int /\ L \in Int /\ \A k \in m..L : text[k] \in C
        <4>1. m \in Nat \ {0}
          BY <1>2, <1>5
        <4> HIDE DEF m
        <4>2. QED
          BY <4>1
      <3> HIDE DEF m
      <3>2. SubSeq(text, m, L) \in Seq(C)
        BY <3>1, SubSeqProperties
      <3>3. QED
        BY <3>2 DEF m
    <2> HIDE DEF rest
    <2>3. w \in Seq(C)
      BY <1>5, <2>2
    <2> HIDE DEF w
    <2>4. QED
      BY <1>1, <2>1, <2>3
  <1>7. CASE ~(stop > L)
    <2>1. GetParameter(text, i).next = Skip(text, stop + 1) /\ GetParameter(text, i).word = out
      BY <1>4, <1>7
    <2>2. stop + 1 \in 1..(L + 1) /\ stop + 1 >= i + 1
      BY <1>1, <1>2, <1>5, <1>7
    <2>3. Skip(text, stop + 1) \in (stop + 1)..(L + 1)
      BY <1>1, <2>2, SkipOver
    <2>4. QED
      BY <1>1, <1>5, <2>1, <2>2, <2>3
  <1>8. QED
    BY <1>6, <1>7

(* The words from place i on, f being those from the places behind it.     *)
WordsFrom(f, text, i) ==
    IF GetParameter(text, i).word = <<>> THEN <<>>
    ELSE <<GetParameter(text, i).word>>
             \o IF GetParameter(text, i).next > Len(text) THEN <<>> ELSE f[GetParameter(text, i).next]

LEMMA WordsIs ==
    ASSUME NEW C, Escapes(C), NEW text \in Seq(C)
    PROVE  \E f : /\ WordsOf(text) = f[1]
                  /\ \A i \in 1..(Len(text) + 1) : f[i] = WordsFrom(f, text, i)
  <1> DEFINE N == Len(text) + 1
             Is(g) == g = [i \in 1..N |-> WordsFrom(g, text, i)]
             after(i) == GetParameter(text, i).next
  <1>1. N \in Nat /\ N = Len(text) + 1 /\ Len(text) \in Nat
    OBVIOUS
  <1>2. \A i \in 1..N : after(i) > Len(text) \/ after(i) \in (i + 1)..Len(text)
    BY ParameterType
  <1>3. WordsOf(text) = (CHOOSE g : Is(g))[1]
    BY DEF WordsOf, WordsFrom
  <1> HIDE DEF N
  <1>4. ASSUME NEW g, NEW h, NEW i \in 1..N, \A j \in 1..N : j > i => g[j] = h[j]
        PROVE  WordsFrom(g, text, i) = WordsFrom(h, text, i)
    <2>1. after(i) > Len(text) \/ g[after(i)] = h[after(i)]
      <3> HIDE DEF after
      <3> QED BY <1>1, <1>2, <1>4
    <2>2. QED
      BY <2>1 DEF WordsFrom
  <1>5. \E g : Is(g)
    <2> DEFINE Part(g, i) == \A j \in 1..N : j >= i => g[j] = WordsFrom(g, text, j)
               T == {i \in 1..N : \E g : Part(g, i)}
    <2>1. ASSUME NEW i \in 1..N, \A j \in 1..N : j > i => j \in T
          PROVE  i \in T
      <3>1. PICK g : \A j \in 1..N : j > i => g[j] = WordsFrom(g, text, j)
        <4>1. CASE i = N
          BY <1>1, <4>1
        <4>2. CASE i # N
          <5>1. i + 1 \in 1..N /\ i + 1 > i
            BY <1>1, <4>2
          <5>2. i + 1 \in T
            BY <2>1, <5>1
          <5>3. PICK g : Part(g, i + 1)
            BY <5>2
          <5>4. QED
            BY <1>1, <5>3
        <4>3. QED
          BY <4>1, <4>2
      <3> DEFINE h == [j \in 1..N |-> IF j = i THEN WordsFrom(g, text, i) ELSE g[j]]
      <3>2. \A j \in 1..N : j >= i => \A k \in 1..N : k > j => g[k] = h[k]
        BY <1>1
      <3>3. \A j \in 1..N : j >= i => WordsFrom(h, text, j) = WordsFrom(g, text, j)
        <4> SUFFICES ASSUME NEW j \in 1..N, j >= i PROVE WordsFrom(h, text, j) = WordsFrom(g, text, j)
          OBVIOUS
        <4> HIDE DEF h
        <4>1. WordsFrom(g, text, j) = WordsFrom(h, text, j)
          BY <1>4, <3>2
        <4>2. QED
          BY <4>1
      <3>4. Part(h, i)
        BY <1>1, <3>1, <3>3
      <3>5. \E f : Part(f, i)
        <4> HIDE DEF Part, h
        <4> QED BY <3>4
      <3>6. QED
        <4> HIDE DEF Part
        <4> QED BY <3>5
    <2>2. 1..N \subseteq T
      <3> HIDE DEF T
      <3>1. Downward(N, T)
        BY <2>1 DEF Downward
      <3>2. QED
        BY <1>1, <3>1, DownInduction
    <2>3. PICK g : Part(g, 1)
      <3>1. 1 \in T
        <4> HIDE DEF T
        <4> QED BY <1>1, <2>2
      <3> HIDE DEF Part
      <3> QED BY <3>1
    <2> DEFINE h == [j \in 1..N |-> g[j]]
    <2>4. \A j \in 1..N : h[j] = WordsFrom(h, text, j)
      <3> SUFFICES ASSUME NEW j \in 1..N PROVE h[j] = WordsFrom(h, text, j)
        OBVIOUS
      <3>1. g[j] = WordsFrom(g, text, j)
        BY <1>1, <2>3
      <3>2. \A k \in 1..N : k > j => g[k] = h[k]
        OBVIOUS
      <3>3. h[j] = g[j]
        OBVIOUS
      <3> HIDE DEF h
      <3>4. WordsFrom(g, text, j) = WordsFrom(h, text, j)
        BY <1>4, <3>2
      <3>5. QED
        BY <3>1, <3>3, <3>4
    <2>5. h = [j \in 1..N |-> h[j]]
      OBVIOUS
    <2> HIDE DEF h
    <2>6. Is(h)
      BY <2>4, <2>5
    <2>7. QED
      <3> HIDE DEF Is
      <3> QED BY <2>6
  <1> DEFINE f == CHOOSE g : Is(g)
  <1>6. Is(f)
    <2> HIDE DEF Is
    <2> QED BY <1>5
  <1> HIDE DEF f
  <1>7. \A i \in 1..N : f[i] = WordsFrom(f, text, i)
    BY <1>6
  <1>8. QED
    BY <1>3, <1>7 DEF f, N

(* The words of a line: none is empty, as an empty one ends it.            *)
LEMMA WordsType ==
    ASSUME NEW C, Escapes(C), NEW text \in Seq(C)
    PROVE  WordsOf(text) \in Seq(Seq(C) \ {<<>>})
  <1> DEFINE L == Len(text)
             N == Len(text) + 1
             W(i) == GetParameter(text, i).word
             after(i) == GetParameter(text, i).next
             V == Seq(C) \ {<<>>}
  <1>1. L \in Nat /\ N \in Nat /\ N = L + 1
    OBVIOUS
  <1>2. \A i \in 1..N : /\ after(i) > L \/ after(i) \in (i + 1)..L
                        /\ W(i) # <<>> => W(i) \in V
    BY ParameterType
  <1>3. PICK f : /\ WordsOf(text) = f[1]
                 /\ \A i \in 1..N : f[i] = WordsFrom(f, text, i)
    BY WordsIs
  <1>4. \A i \in 1..N : f[i] = IF W(i) = <<>> THEN <<>>
                               ELSE <<W(i)>> \o IF after(i) > L THEN <<>> ELSE f[after(i)]
    BY <1>3 DEF WordsFrom
  <1> HIDE DEF L, N, W, after, V
  <1> DEFINE T == {i \in 1..N : f[i] \in Seq(V)}
  <1>8. ASSUME NEW i \in 1..N, \A j \in 1..N : j > i => j \in T
        PROVE  i \in T
    <2>3. after(i) > L \/ f[after(i)] \in Seq(V)
      BY <1>1, <1>2, <1>8
    <2>4. <<>> \in Seq(V)
      BY EmptySeq
    <2>5. CASE W(i) = <<>>
      BY <1>4, <2>4, <2>5
    <2>6. CASE W(i) # <<>>
      <3> DEFINE x == W(i)
                 r == IF after(i) > L THEN <<>> ELSE f[after(i)]
      <3>1. r \in Seq(V)
        BY <2>3, <2>4
      <3>2. f[i] = <<x>> \o r
        BY <1>4, <2>6
      <3>3. x \in V
        BY <1>2, <2>6
      <3> HIDE DEF x, r
      <3>4. <<x>> \in Seq(V)
        BY <3>3
      <3>5. <<x>> \o r \in Seq(V)
        BY <3>1, <3>4, ConcatProperties
      <3>6. QED
        BY <3>2, <3>5
    <2>7. QED
      BY <2>5, <2>6
  <1>9. 1..N \subseteq T
    <2> HIDE DEF T
    <2>1. Downward(N, T)
      BY <1>8 DEF Downward
    <2>2. QED
      BY <1>1, <2>1, DownInduction
  <1>10. 1 \in T
    <2> HIDE DEF T
    <2> QED BY <1>1, <1>9
  <1>11. QED
    BY <1>3, <1>10 DEF V

-----------------------------------------------------------------------------
(* Times of day.                                                           *)

(* Times: numbers of two places and more.                                  *)
LEMMA NatTimes ==
    ASSUME NEW a \in Nat, NEW b \in Nat
    PROVE  a * b \in Nat
  OBVIOUS

LEMMA TimesMore ==
    ASSUME NEW a \in Nat, NEW b \in Nat, NEW B \in Nat, a < b
    PROVE  a * B + B <= b * B
  <1>1. PICK k \in Nat : b = a + 1 + k
    <2>1. b - a - 1 \in Nat /\ b = a + 1 + (b - a - 1)
      OBVIOUS
    <2>2. QED
      BY <2>1
  <1>2. b * B = a * B + B + k * B
    BY <1>1
  <1>3. k * B \in Nat /\ a * B \in Nat
    BY NatTimes
  <1>4. QED
    BY <1>2, <1>3

(* The larger of two numbers of two places.                                *)
LEMMA Places2 ==
    ASSUME NEW B \in Nat, NEW a \in Nat, NEW b \in Nat, NEW r \in 0..(B - 1), NEW q \in 0..(B - 1)
    PROVE  /\ a < b => a * B + r < b * B + q
           /\ a * B + r <= b * B + q => a <= b /\ (a = b => r <= q)
           /\ a * B + r = b * B + q => a = b /\ r = q
  <1>1. /\ a < b => a * B + B <= b * B
        /\ b < a => b * B + B <= a * B
    BY TimesMore
  <1>2. PICK x \in Nat : x = a * B
    BY NatTimes
  <1>3. PICK y \in Nat : y = b * B
    BY NatTimes
  <1>4. /\ a < b => x + B <= y
        /\ b < a => y + B <= x
        /\ a = b => x = y
    BY <1>1, <1>2, <1>3
  <1>5. /\ a < b => x + r < y + q
        /\ x + r <= y + q => a <= b /\ (a = b => r <= q)
        /\ x + r = y + q => a = b /\ r = q
    BY <1>4
  <1>6. QED
    BY <1>2, <1>3, <1>5

LEMMA DivPlaces ==
    ASSUME NEW B \in Nat \ {0}, NEW t \in Nat
    PROVE  t \div B \in Nat /\ t % B \in 0..(B - 1) /\ t = (t \div B) * B + (t % B)
  OBVIOUS

LEMMA DivIs ==
    ASSUME NEW B \in Nat \ {0}, NEW a \in Nat, NEW r \in 0..(B - 1)
    PROVE  (a * B + r) \div B = a /\ (a * B + r) % B = r
  <1> DEFINE t == a * B + r
  <1>1. t \in Nat
    BY NatTimes
  <1>2. t = a * B + r
    OBVIOUS
  <1> HIDE DEF t
  <1>3. t \div B \in Nat /\ t % B \in 0..(B - 1) /\ t = (t \div B) * B + (t % B)
    BY <1>1, DivPlaces
  <1>4. PICK p \in Nat : p = t \div B
    BY <1>3
  <1>5. PICK m \in 0..(B - 1) : m = t % B
    BY <1>3
  <1>6. a * B + r = p * B + m
    BY <1>2, <1>3, <1>4, <1>5
  <1>7. a = p /\ r = m
    BY <1>6, Places2
  <1>8. QED
    BY <1>4, <1>5, <1>7 DEF t

LEMMA DivOfDiv ==
    ASSUME NEW B \in Nat \ {0}, NEW C \in Nat \ {0}, NEW t \in Nat
    PROVE  t \div (B * C) = (t \div B) \div C
  <1>1. PICK p \in Nat : p = t \div B
    BY DivPlaces
  <1>2. PICK m \in 0..(B - 1) : m = t % B
    BY DivPlaces
  <1>3. t = p * B + m
    BY <1>1, <1>2, DivPlaces
  <1>4. PICK q \in Nat : q = p \div C
    BY DivPlaces
  <1>5. PICK n \in 0..(C - 1) : n = p % C
    BY DivPlaces
  <1>6. p = q * C + n
    BY <1>4, <1>5, DivPlaces
  <1> DEFINE E == B * C
             s == n * B + m
  <1>7. E \in Nat \ {0} /\ s \in Nat
    <2>1. E \in Nat /\ n * B \in Nat
      BY NatTimes
    <2>2. E # 0
      OBVIOUS
    <2>3. QED
      BY <2>1, <2>2
  <1>8. s < E
    <2>1. n * B + B <= C * B
      BY TimesMore
    <2>2. C * B = E
      OBVIOUS
    <2>3. QED
      BY <2>1, <2>2, NatTimes
  <1>9. t = q * E + s
    <2>1. p * B = q * C * B + n * B
      BY <1>6
    <2>2. q * C * B = q * E
      OBVIOUS
    <2>3. QED
      BY <1>3, <2>1, <2>2
  <1> HIDE DEF E, s
  <1>10. t \div E = q
    BY <1>7, <1>8, <1>9, DivIs
  <1>11. QED
    BY <1>1, <1>4, <1>10 DEF E

LEMMA ClockIs ==
    /\ HoursPerDay \in Nat \ {0} /\ MinsPerHour \in Nat \ {0} /\ SecsPerMin \in Nat \ {0}
    /\ LastDay \in Nat \ {0} /\ SecsPerHour \in Nat \ {0} /\ SecsPerDay \in Nat \ {0}
    /\ MsPerSec \in Nat \ {0}
  <1>1. /\ HoursPerDay \in Nat \ {0} /\ MinsPerHour \in Nat \ {0} /\ SecsPerMin \in Nat \ {0}
        /\ LastDay \in Nat \ {0} /\ MsPerSec \in Nat \ {0}
    BY ClockAssumption
  <1>2. SecsPerHour \in Nat \ {0}
    BY <1>1, NatTimes DEF SecsPerHour
  <1>3. SecsPerDay \in Nat \ {0}
    BY <1>1, <1>2, NatTimes DEF SecsPerDay
  <1>4. QED
    BY <1>1, <1>2, <1>3

(* The time of a day's number, an hour, a minute and a second.             *)
HoursOf(d, h)         == d * HoursPerDay + h
MinutesOf(d, h, m)    == HoursOf(d, h) * MinsPerHour + m
SecondsOf(d, h, m, s) == MinutesOf(d, h, m) * SecsPerMin + s

LEMMA SecondsAre ==
    ASSUME NEW d \in Nat, NEW h \in Nat, NEW m \in Nat, NEW s \in Nat
    PROVE  /\ HoursOf(d, h) \in Nat /\ MinutesOf(d, h, m) \in Nat /\ SecondsOf(d, h, m, s) \in Nat
           /\ SecondsOf(d, h, m, s)
                 = d * SecsPerDay + h * SecsPerHour + m * SecsPerMin + s
  <1>1. HoursOf(d, h) \in Nat
    BY ClockIs, NatTimes DEF HoursOf
  <1>2. MinutesOf(d, h, m) \in Nat
    BY <1>1, ClockIs, NatTimes DEF MinutesOf
  <1>3. SecondsOf(d, h, m, s) \in Nat
    BY <1>2, ClockIs, NatTimes DEF SecondsOf
  <1> DEFINE H == HoursPerDay
             M == MinsPerHour
             S == SecsPerMin
  <1>4. H \in Nat /\ M \in Nat /\ S \in Nat
    BY ClockIs
  <1> HIDE DEF H, M, S
  <1>5. ((d * H + h) * M + m) * S + s = d * (S * M * H) + h * (S * M) + m * S + s
    <2>1. (d * H + h) * M = d * H * M + h * M
      BY <1>4
    <2>2. (d * H * M + h * M + m) * S = d * H * M * S + h * M * S + m * S
      BY <1>4
    <2>3. d * H * M * S = d * (S * M * H) /\ h * M * S = h * (S * M)
      BY <1>4
    <2>4. QED
      BY <1>4, <2>1, <2>2, <2>3
  <1>6. QED
    BY <1>1, <1>2, <1>3, <1>5
       DEF SecondsOf, MinutesOf, HoursOf, SecsPerDay, SecsPerHour, H, M, S

InRange(st) == /\ st.wDay \in Nat /\ st.wHour \in 0..(HoursPerDay - 1)
               /\ st.wMinute \in 0..(MinsPerHour - 1) /\ st.wSecond \in 0..(SecsPerMin - 1)
               /\ st.wMilliseconds \in 0..(MsPerSec - 1)

TimeOf(st) == SecondsOf(st.wDay, st.wHour, st.wMinute, st.wSecond)

(* A time is that of its fields.                                           *)
LEMMA SecondsType ==
    ASSUME NEW t \in Nat
    PROVE  /\ Seconds(t) \in Nat /\ t % MsPerSec \in 0..(MsPerSec - 1)
           /\ t = Seconds(t) * MsPerSec + (t % MsPerSec)
  BY ClockIs, DivPlaces DEF Seconds

LEMMA WholeIs ==
    ASSUME NEW n \in Nat
    PROVE  /\ n * MsPerSec \in Nat /\ Seconds(n * MsPerSec) = n
           /\ (n * MsPerSec) % MsPerSec = 0
  <1> DEFINE x == n * MsPerSec
  <1>1. x \in Nat
    BY ClockIs, NatTimes
  <1>2. (x + 0) \div MsPerSec = n /\ (x + 0) % MsPerSec = 0
    BY ClockIs, DivIs
  <1> HIDE DEF x
  <1>3. x + 0 = x
    BY <1>1
  <1>4. x \div MsPerSec = n /\ x % MsPerSec = 0
    BY <1>2, <1>3
  <1>5. QED
    BY <1>1, <1>4 DEF Seconds, x

LEMMA SysTimeIs ==
    ASSUME NEW t \in Nat
    PROVE  /\ InRange(ToSysTime(t)) /\ Seconds(t) = TimeOf(ToSysTime(t))
           /\ ToSysTime(t).wMilliseconds = t % MsPerSec
  <1> DEFINE n == Seconds(t)
             ms == n \div SecsPerMin
             hs == ms \div MinsPerHour
             ds == hs \div HoursPerDay
  <1>0. n \in Nat /\ t % MsPerSec \in 0..(MsPerSec - 1)
    BY SecondsType
  <1>00. n = Seconds(t)
    OBVIOUS
  <1> HIDE DEF n
  <1>1. ms \in Nat /\ n % SecsPerMin \in 0..(SecsPerMin - 1) /\ n = ms * SecsPerMin + (n % SecsPerMin)
    BY <1>0, ClockIs, DivPlaces
  <1> HIDE DEF ms
  <1>2. hs \in Nat /\ ms % MinsPerHour \in 0..(MinsPerHour - 1) /\ ms = hs * MinsPerHour + (ms % MinsPerHour)
    BY <1>1, ClockIs, DivPlaces
  <1>3. n \div SecsPerHour = hs
    BY <1>0, ClockIs, DivOfDiv DEF SecsPerHour, ms
  <1> HIDE DEF hs
  <1>4. ds \in Nat /\ hs % HoursPerDay \in 0..(HoursPerDay - 1) /\ hs = ds * HoursPerDay + (hs % HoursPerDay)
    BY <1>2, ClockIs, DivPlaces
  <1>5. n \div SecsPerDay = ds
    <2>1. n \div SecsPerDay = (n \div SecsPerHour) \div HoursPerDay
      BY <1>0, ClockIs, DivOfDiv DEF SecsPerDay
    <2>2. QED
      BY <1>3, <2>1 DEF ds
  <1> HIDE DEF ds
  <1> DEFINE st == ToSysTime(t)
  <1>6. /\ st.wDay = ds /\ st.wHour = hs % HoursPerDay
        /\ st.wMinute = ms % MinsPerHour /\ st.wSecond = n % SecsPerMin
        /\ st.wMilliseconds = t % MsPerSec
    BY <1>00, <1>3, <1>5 DEF ToSysTime, ms
  <1> HIDE DEF st
  <1>7. InRange(st)
    BY <1>0, <1>1, <1>2, <1>4, <1>6 DEF InRange
  <1>8. hs = HoursOf(ds, st.wHour)
    BY <1>4, <1>6 DEF HoursOf
  <1>9. ms = MinutesOf(ds, st.wHour, st.wMinute)
    BY <1>2, <1>6, <1>8 DEF MinutesOf
  <1>10. n = TimeOf(st)
    BY <1>1, <1>6, <1>9 DEF TimeOf, SecondsOf
  <1>11. QED
    BY <1>00, <1>6, <1>7, <1>10 DEF st

(* The fields of a time are those that it was made of.                     *)
LEMMA FieldsAre ==
    ASSUME NEW d \in Nat, NEW h \in 0..(HoursPerDay - 1), NEW m \in 0..(MinsPerHour - 1),
           NEW s \in 0..(SecsPerMin - 1)
    PROVE  ToSysTime(SecondsOf(d, h, m, s) * MsPerSec) =
              [wDay |-> d, wHour |-> h, wMinute |-> m, wSecond |-> s, wMilliseconds |-> 0]
  <1> DEFINE t == SecondsOf(d, h, m, s)
             st == ToSysTime(t * MsPerSec)
  <1>0. h \in Nat /\ m \in Nat /\ s \in Nat
    BY ClockIs
  <1>1. t \in Nat
    BY <1>0, SecondsAre
  <1>2. InRange(st) /\ t = TimeOf(st) /\ st.wMilliseconds = 0
    <2> HIDE DEF t
    <2>1. t * MsPerSec \in Nat /\ Seconds(t * MsPerSec) = t /\ (t * MsPerSec) % MsPerSec = 0
      BY <1>1, WholeIs
    <2>2. QED
      BY <2>1, SysTimeIs
  <1>3. st = [wDay |-> st.wDay, wHour |-> st.wHour, wMinute |-> st.wMinute, wSecond |-> st.wSecond,
              wMilliseconds |-> st.wMilliseconds]
    BY DEF ToSysTime
  <1> HIDE DEF st
  <1> DEFINE d2 == st.wDay
             h2 == st.wHour
             m2 == st.wMinute
             s2 == st.wSecond
  <1>4. d2 \in Nat /\ h2 \in 0..(HoursPerDay - 1) /\ m2 \in 0..(MinsPerHour - 1) /\ s2 \in 0..(SecsPerMin - 1)
    BY <1>2 DEF InRange
  <1>5. SecondsOf(d, h, m, s) = SecondsOf(d2, h2, m2, s2)
    BY <1>2 DEF TimeOf
  <1> HIDE DEF d2, h2, m2, s2, t
  <1>6. MinutesOf(d, h, m) \in Nat /\ MinutesOf(d2, h2, m2) \in Nat /\ HoursOf(d, h) \in Nat /\ HoursOf(d2, h2) \in Nat
    <2>1. h2 \in Nat /\ m2 \in Nat /\ s2 \in Nat
      BY <1>4, ClockIs
    <2>2. QED
      BY <1>0, <1>4, <2>1, SecondsAre
  <1>7. MinutesOf(d, h, m) = MinutesOf(d2, h2, m2) /\ s = s2
    <2> DEFINE a == MinutesOf(d, h, m)
               b == MinutesOf(d2, h2, m2)
    <2>1. a \in Nat /\ b \in Nat /\ a * SecsPerMin + s = b * SecsPerMin + s2
      BY <1>5, <1>6 DEF SecondsOf
    <2> HIDE DEF a, b
    <2>2. a = b /\ s = s2
      BY <1>4, <2>1, ClockIs, Places2
    <2>3. QED
      BY <2>2 DEF a, b
  <1>8. HoursOf(d, h) = HoursOf(d2, h2) /\ m = m2
    <2> DEFINE a == HoursOf(d, h)
               b == HoursOf(d2, h2)
    <2>1. a \in Nat /\ b \in Nat /\ a * MinsPerHour + m = b * MinsPerHour + m2
      BY <1>6, <1>7 DEF MinutesOf
    <2> HIDE DEF a, b
    <2>2. a = b /\ m = m2
      BY <1>4, <2>1, ClockIs, Places2
    <2>3. QED
      BY <2>2 DEF a, b
  <1>9. d = d2 /\ h = h2
    BY <1>4, <1>8, ClockIs, Places2 DEF HoursOf
  <1>10. QED
    BY <1>2, <1>3, <1>7, <1>8, <1>9 DEF d2, h2, m2, s2, st, t

(* The fields of a time are not before those of another one.               *)
InOrder(d, h, m, s, e, i, n, r) ==
    \/ d < e
    \/ d = e /\ \/ h < i
                \/ h = i /\ \/ m < n
                            \/ m = n /\ s <= r

LEMMA TimesInOrder ==
    ASSUME NEW d \in Nat, NEW h \in 0..(HoursPerDay - 1), NEW m \in 0..(MinsPerHour - 1),
           NEW s \in 0..(SecsPerMin - 1),
           NEW e \in Nat, NEW i \in 0..(HoursPerDay - 1), NEW n \in 0..(MinsPerHour - 1),
           NEW r \in 0..(SecsPerMin - 1)
    PROVE  SecondsOf(d, h, m, s) <= SecondsOf(e, i, n, r) <=> InOrder(d, h, m, s, e, i, n, r)
  <1>0. h \in Nat /\ m \in Nat /\ s \in Nat /\ i \in Nat /\ n \in Nat /\ r \in Nat
    BY ClockIs
  <1>1. /\ HoursOf(d, h) \in Nat /\ HoursOf(e, i) \in Nat
        /\ MinutesOf(d, h, m) \in Nat /\ MinutesOf(e, i, n) \in Nat
        /\ SecondsOf(d, h, m, s) \in Nat /\ SecondsOf(e, i, n, r) \in Nat
    BY <1>0, SecondsAre
  <1>2. HoursOf(d, h) < HoursOf(e, i) <=> d < e \/ (d = e /\ h < i)
    <2>1. /\ d < e => HoursOf(d, h) < HoursOf(e, i)
          /\ HoursOf(e, i) <= HoursOf(d, h) => e <= d /\ (e = d => i <= h)
      BY ClockIs, Places2 DEF HoursOf
    <2>2. /\ HoursOf(d, h) <= HoursOf(e, i) => d <= e /\ (d = e => h <= i)
          /\ HoursOf(d, h) = HoursOf(e, i) => d = e /\ h = i
      BY ClockIs, Places2 DEF HoursOf
    <2>3. QED
      BY <1>0, <1>1, <2>1, <2>2
  <1>3. HoursOf(d, h) = HoursOf(e, i) <=> d = e /\ h = i
    BY ClockIs, Places2 DEF HoursOf
  <1>4. MinutesOf(d, h, m) < MinutesOf(e, i, n) <=>
           HoursOf(d, h) < HoursOf(e, i) \/ (HoursOf(d, h) = HoursOf(e, i) /\ m < n)
    <2>1. /\ HoursOf(d, h) < HoursOf(e, i) => MinutesOf(d, h, m) < MinutesOf(e, i, n)
          /\ HoursOf(e, i) < HoursOf(d, h) => MinutesOf(e, i, n) < MinutesOf(d, h, m)
      BY <1>1, ClockIs, Places2 DEF MinutesOf
    <2>2. HoursOf(d, h) = HoursOf(e, i) => (MinutesOf(d, h, m) < MinutesOf(e, i, n) <=> m < n)
      <3> DEFINE a == HoursOf(d, h) * MinsPerHour
      <3>1. a \in Nat
        BY <1>1, ClockIs, NatTimes
      <3>2. HoursOf(d, h) = HoursOf(e, i) => /\ MinutesOf(d, h, m) = a + m
                                             /\ MinutesOf(e, i, n) = a + n
        BY DEF MinutesOf
      <3> HIDE DEF a
      <3>3. QED
        BY <1>0, <3>1, <3>2
    <2>3. QED
      BY <1>1, <2>1, <2>2
  <1>5. MinutesOf(d, h, m) = MinutesOf(e, i, n) <=> HoursOf(d, h) = HoursOf(e, i) /\ m = n
    <2> DEFINE a == HoursOf(d, h)
               b == HoursOf(e, i)
    <2>1. a \in Nat /\ b \in Nat
      BY <1>1
    <2> HIDE DEF a, b
    <2>2. a * MinsPerHour + m = b * MinsPerHour + n <=> a = b /\ m = n
      BY <2>1, ClockIs, Places2
    <2>3. QED
      BY <2>2 DEF a, b, MinutesOf
  <1>6. SecondsOf(d, h, m, s) <= SecondsOf(e, i, n, r) <=>
           \/ MinutesOf(d, h, m) < MinutesOf(e, i, n)
           \/ MinutesOf(d, h, m) = MinutesOf(e, i, n) /\ s <= r
    <2>1. /\ MinutesOf(d, h, m) < MinutesOf(e, i, n) => SecondsOf(d, h, m, s) < SecondsOf(e, i, n, r)
          /\ MinutesOf(e, i, n) < MinutesOf(d, h, m) => SecondsOf(e, i, n, r) < SecondsOf(d, h, m, s)
      BY <1>1, ClockIs, Places2 DEF SecondsOf
    <2>2. MinutesOf(d, h, m) = MinutesOf(e, i, n) =>
             (SecondsOf(d, h, m, s) <= SecondsOf(e, i, n, r) <=> s <= r)
      <3> DEFINE a == MinutesOf(d, h, m) * SecsPerMin
      <3>1. a \in Nat
        BY <1>1, ClockIs, NatTimes
      <3>2. MinutesOf(d, h, m) = MinutesOf(e, i, n) => /\ SecondsOf(d, h, m, s) = a + s
                                                       /\ SecondsOf(e, i, n, r) = a + r
        BY DEF SecondsOf
      <3> HIDE DEF a
      <3>3. QED
        BY <1>0, <3>1, <3>2
    <2>3. QED
      BY <1>1, <2>1, <2>2
  <1>7. QED
    BY <1>2, <1>3, <1>4, <1>5, <1>6 DEF InOrder

(* What a time gives: an hour only together with a minute.                 *)
LEMMA GivenIs ==
    ASSUME NEW fields \in Seq(Nat)
    PROVE  /\ Given(fields).secs \in Nat
           /\ Given(fields).mins \in Nat \cup {-1} /\ Given(fields).hrs \in Nat \cup {-1}
           /\ Given(fields).hrs >= 0 => Given(fields).mins >= 0
  <1> DEFINE n == Len(fields)
  <1>1. n \in Nat /\ \A i \in 1..n : fields[i] \in Nat
    OBVIOUS
  <1>2. n = 0 \/ n = 1 \/ n = 2 \/ n = 3 \/ n > 3
    <2>1. n \in Nat
      BY <1>1
    <2> HIDE DEF n
    <2>2. QED
      BY <2>1
  <1>3. n > 3 => fields[1] * HoursPerDay + fields[2] \in Nat
    <2> SUFFICES ASSUME n > 3 PROVE fields[1] * HoursPerDay + fields[2] \in Nat
      OBVIOUS
    <2>1. fields[1] \in Nat /\ fields[2] \in Nat
      BY <1>1
    <2>2. fields[1] * HoursPerDay \in Nat
      BY <2>1, ClockIs, NatTimes
    <2>3. QED
      BY <2>1, <2>2
  <1> DEFINE hours == fields[1] * HoursPerDay + fields[2]
  <1> HIDE DEF hours
  <1>4. /\ Given(fields).secs = IF n = 0 THEN 0 ELSE fields[n]
        /\ Given(fields).mins = IF n < 2 THEN -1 ELSE fields[n - 1]
        /\ Given(fields).hrs = IF n < 3 THEN -1 ELSE IF n = 3 THEN fields[1] ELSE hours
    BY DEF Given, hours
  <1>5. n > 3 => hours \in Nat
    BY <1>3 DEF hours
  <1>6. /\ n # 0 => fields[n] \in Nat
        /\ n >= 2 => fields[n - 1] \in Nat
        /\ n >= 3 => fields[1] \in Nat
    <2>1. n # 0 => n \in 1..n
      BY <1>1
    <2>2. n >= 2 => n - 1 \in 1..n /\ 1 \in 1..n
      BY <1>1
    <2> HIDE DEF n
    <2>3. QED
      BY <1>1, <2>1, <2>2
  <1> HIDE DEF n
  <1>7. QED
    BY <1>1, <1>2, <1>4, <1>5, <1>6

LEMMA OffsetNat ==
    ASSUME NEW fields \in Seq(Nat)
    PROVE  Offset(fields) \in Nat
  <1> DEFINE g == Given(fields)
  <1>1. g.secs \in Nat /\ OrZero(g.mins) \in Nat /\ OrZero(g.hrs) \in Nat
    BY GivenIs DEF OrZero
  <1>2. OrZero(g.mins) * SecsPerMin \in Nat /\ OrZero(g.hrs) * SecsPerHour \in Nat
    BY <1>1, ClockIs, NatTimes
  <1>3. Offset(fields) = g.secs + OrZero(g.mins) * SecsPerMin + OrZero(g.hrs) * SecsPerHour
    BY DEF Offset
  <1> HIDE DEF g
  <1>4. QED
    BY <1>1, <1>2, <1>3

(* The fields that a time is put together from.                            *)
DaySet(now, g) == IF g.hrs < 0 THEN now.wDay ELSE now.wDay + Later(now.wHour, g.hrs)
HourOf(now, g) == IF g.hrs < 0 THEN now.wHour ELSE g.hrs
HourMade(now, g) ==
    IF g.mins < 0 THEN HourOf(now, g) ELSE HourOf(now, g) + Later(now.wMinute, g.mins)
MinuteOf(now, g) == IF g.mins < 0 THEN now.wMinute ELSE g.mins
MinuteMade(now, g) == MinuteOf(now, g) + Later(now.wSecond, g.secs)

LEMMA SetIs ==
    ASSUME NEW now, now = [wDay |-> now.wDay, wHour |-> now.wHour, wMinute |-> now.wMinute,
                           wSecond |-> now.wSecond, wMilliseconds |-> now.wMilliseconds],
           NEW g
    PROVE  SecondSet(MinuteSet(HourSet(now, g), g), g) =
              [wDay |-> DaySet(now, g), wHour |-> HourMade(now, g),
               wMinute |-> MinuteMade(now, g), wSecond |-> g.secs, wMilliseconds |-> 0]
  <1> DEFINE d == now.wDay
             h == now.wHour
             m == now.wMinute
             s == now.wSecond
             u == now.wMilliseconds
             st1 == [wDay |-> DaySet(now, g), wHour |-> HourOf(now, g), wMinute |-> m, wSecond |-> s,
                     wMilliseconds |-> u]
             st2 == [wDay |-> DaySet(now, g), wHour |-> HourMade(now, g),
                     wMinute |-> MinuteOf(now, g), wSecond |-> s, wMilliseconds |-> u]
  <1>1. HourSet(now, g) = st1
    BY DEF HourSet, DaySet, HourOf
  <1>2. MinuteSet(st1, g) = st2
    BY DEF MinuteSet, HourMade, MinuteOf
  <1>3. SecondSet(st2, g) = [wDay |-> DaySet(now, g), wHour |-> HourMade(now, g),
                             wMinute |-> MinuteMade(now, g), wSecond |-> g.secs,
                             wMilliseconds |-> 0]
    <2> DEFINE a == DaySet(now, g)
               b == HourMade(now, g)
               c == MinuteOf(now, g)
               e == g.secs
               more == Later(s, e)
               x == c + more
               r2 == [wDay |-> a, wHour |-> b, wMinute |-> x, wSecond |-> s, wMilliseconds |-> u]
               r3 == [wDay |-> a, wHour |-> b, wMinute |-> x, wSecond |-> e, wMilliseconds |-> u]
               r4 == [wDay |-> a, wHour |-> b, wMinute |-> x, wSecond |-> e, wMilliseconds |-> 0]
    <2>1. MinuteMade(now, g) = x
      BY DEF MinuteMade
    <2>2. SecondSet(st2, g) = [st2 EXCEPT !.wMinute = @ + Later(st2.wSecond, e), !.wSecond = e,
                                          !.wMilliseconds = 0]
      BY DEF SecondSet
    <2>3. /\ st2.wSecond = s /\ st2.wMinute = c
          /\ st2 = [wDay |-> a, wHour |-> b, wMinute |-> c, wSecond |-> s, wMilliseconds |-> u]
      OBVIOUS
    <2> HIDE DEF a, b, c, e, s, u, st2
    <2>4. st2.wMinute + Later(st2.wSecond, e) = x
      BY <2>3
    <2> HIDE DEF more, x
    <2>5. [st2 EXCEPT !.wMinute = x] = r2
      BY <2>3
    <2>6. [r2 EXCEPT !.wSecond = e] = r3
      OBVIOUS
    <2>7. [r3 EXCEPT !.wMilliseconds = 0] = r4
      OBVIOUS
    <2>8. [st2 EXCEPT !.wMinute = x, !.wSecond = e, !.wMilliseconds = 0]
             = [[[st2 EXCEPT !.wMinute = x] EXCEPT !.wSecond = e] EXCEPT !.wMilliseconds = 0]
      OBVIOUS
    <2>9. [st2 EXCEPT !.wMinute = x, !.wSecond = e, !.wMilliseconds = 0] = r4
      <3> HIDE DEF r2, r3, r4
      <3> QED BY <2>5, <2>6, <2>7, <2>8, Zenon
    <2>10. SecondSet(st2, g) = r4
      <3> HIDE DEF r4
      <3> QED BY <2>2, <2>4, <2>9
    <2>11. QED
      BY <2>1, <2>10 DEF a, b, e
  <1>4. QED
    BY <1>1, <1>2, <1>3

LEMMA FromIs ==
    ASSUME NEW d \in Nat, NEW h \in Nat, NEW m \in Nat, NEW s \in Nat, NEW st,
           st = [wDay |-> d, wHour |-> h, wMinute |-> m, wSecond |-> s, wMilliseconds |-> 0]
    PROVE  FromSysTime(st) =
              IF d <= LastDay /\ h < HoursPerDay /\ m < MinsPerHour /\ s < SecsPerMin
              THEN SecondsOf(d, h, m, s) * MsPerSec ELSE NoTime
  <1>1. /\ st.wDay = d /\ st.wHour = h /\ st.wMinute = m /\ st.wSecond = s
        /\ st.wMilliseconds = 0
    OBVIOUS
  <1>2. SecondsOf(d, h, m, s) = d * SecsPerDay + h * SecsPerHour + m * SecsPerMin + s
    BY SecondsAre
  <1> DEFINE n == SecondsOf(d, h, m, s)
  <1>3. n = WholeSeconds(st)
    BY <1>1, <1>2 DEF WholeSeconds
  <1>00. n \in Nat
    BY SecondsAre
  <1> HIDE DEF n
  <1>4. n * MsPerSec \in Nat /\ 0 < MsPerSec
    BY <1>00, ClockIs, NatTimes
  <1>5. FromSysTime(st) = IF d <= LastDay /\ h < HoursPerDay /\ m < MinsPerHour /\ s < SecsPerMin
                          THEN n * MsPerSec + 0 ELSE NoTime
    BY <1>1, <1>3, <1>4 DEF FromSysTime
  <1>6. n * MsPerSec + 0 = n * MsPerSec
    BY <1>4
  <1>7. QED
    BY <1>5, <1>6 DEF n

LEMMA MadeNat ==
    ASSUME NEW t \in Nat, NEW fields \in Seq(Nat)
    PROVE  LET now == ToSysTime(t)
               g == Given(fields)
           IN  /\ DaySet(now, g) \in Nat /\ HourMade(now, g) \in Nat
               /\ MinuteMade(now, g) \in Nat /\ g.secs \in Nat
  <1> DEFINE now == ToSysTime(t)
             g == Given(fields)
  <1>1. now.wDay \in Nat /\ now.wHour \in Nat /\ now.wMinute \in Nat /\ now.wSecond \in Nat
    <2>1. InRange(now)
      BY SysTimeIs
    <2> HIDE DEF now
    <2>2. QED
      BY <2>1, ClockIs DEF InRange
  <1>2. g.secs \in Nat /\ g.mins \in Nat \cup {-1} /\ g.hrs \in Nat \cup {-1}
    BY GivenIs
  <1> HIDE DEF now, g
  <1>3. \A a, b \in Int : Later(a, b) \in {0, 1}
    BY DEF Later
  <1>4. /\ Later(now.wHour, g.hrs) \in {0, 1} /\ Later(now.wMinute, g.mins) \in {0, 1}
        /\ Later(now.wSecond, g.secs) \in {0, 1}
    BY <1>1, <1>2, <1>3
  <1>5. DaySet(now, g) \in Nat
    BY <1>1, <1>2, <1>4 DEF DaySet
  <1>6. HourMade(now, g) \in Nat
    BY <1>1, <1>2, <1>4 DEF HourMade, HourOf
  <1>7. MinuteMade(now, g) \in Nat
    BY <1>1, <1>2, <1>4 DEF MinuteMade, MinuteOf
  <1>8. QED
    BY <1>2, <1>5, <1>6, <1>7 DEF now, g

LEMMA SysTimeForm ==
    ASSUME NEW t
    PROVE  LET now == ToSysTime(t)
           IN  now = [wDay |-> now.wDay, wHour |-> now.wHour, wMinute |-> now.wMinute,
                      wSecond |-> now.wSecond, wMilliseconds |-> now.wMilliseconds]
  BY DEF ToSysTime

NextMade(d, h, m, s, now, g) ==
    /\ SecondsOf(d, h, m, s)
          <= SecondsOf(DaySet(now, g), HourMade(now, g), MinuteMade(now, g), g.secs)
    /\ SecondsOf(d, h, m, s)
          = SecondsOf(DaySet(now, g), HourMade(now, g), MinuteMade(now, g), g.secs) =>
          /\ g.hrs < 0 \/ now.wHour = g.hrs
          /\ g.mins < 0 \/ now.wMinute = g.mins
          /\ now.wSecond = g.secs
    /\ ~(g.secs < s \/ (g.mins >= 0 /\ g.mins < m)) =>
          /\ g.hrs < 0 \/ HourMade(now, g) = g.hrs
          /\ g.mins < 0 \/ MinuteMade(now, g) = g.mins
          /\ SecondsOf(DaySet(now, g), HourMade(now, g), MinuteMade(now, g), g.secs)
                <= SecondsOf(d + 1, h, m, s)
          /\ \A e \in Nat, i \in 0..(HoursPerDay - 1), n \in 0..(MinsPerHour - 1) :
                /\ SecondsOf(d, h, m, s) <= SecondsOf(e, i, n, g.secs)
                /\ g.hrs < 0 \/ i = g.hrs
                /\ g.mins < 0 \/ n = g.mins
                => SecondsOf(DaySet(now, g), HourMade(now, g), MinuteMade(now, g), g.secs)
                      <= SecondsOf(e, i, n, g.secs)

(* The time that is made is not before now, nor the next one that reads    *)
(* so; d to s are the fields of the clock, and a is a later time.          *)
LEMMA MadeNext ==
    ASSUME NEW d \in Nat, NEW h \in 0..(HoursPerDay - 1), NEW m \in 0..(MinsPerHour - 1),
           NEW s \in 0..(SecsPerMin - 1), NEW now,
           now.wDay = d, now.wHour = h, now.wMinute = m, now.wSecond = s,
           NEW g, g.secs \in 0..(SecsPerMin - 1), g.mins \in Nat \cup {-1}, g.hrs \in Nat \cup {-1},
           g.hrs >= 0 => g.mins >= 0,
           HourMade(now, g) \in 0..(HoursPerDay - 1), MinuteMade(now, g) \in 0..(MinsPerHour - 1)
    PROVE  NextMade(d, h, m, s, now, g)
  <1> DEFINE D == DaySet(now, g)
             H == HourMade(now, g)
             M == MinuteMade(now, g)
             r == g.secs
             a == g.mins
             b == g.hrs
             T == SecondsOf(D, H, M, r)
             behind == r < s \/ (a >= 0 /\ a < m)
  <1>0. /\ HoursPerDay \in Nat /\ MinsPerHour \in Nat /\ SecsPerMin \in Nat
        /\ now.wDay = d /\ now.wHour = h /\ now.wMinute = m /\ now.wSecond = s
    BY ClockIs
  <1>1. /\ D = IF b < 0 THEN d ELSE IF h > b THEN d + 1 ELSE d
        /\ H = (IF b < 0 THEN h ELSE b) + (IF a < 0 THEN 0 ELSE IF m > a THEN 1 ELSE 0)
        /\ M = (IF a < 0 THEN m ELSE a) + (IF s > r THEN 1 ELSE 0)
    <2>1. D = IF b < 0 THEN d ELSE IF h > b THEN d + 1 ELSE d
      BY <1>0 DEF DaySet, Later
    <2>2. H = (IF b < 0 THEN h ELSE b) + (IF a < 0 THEN 0 ELSE IF m > a THEN 1 ELSE 0)
      BY <1>0 DEF HourMade, HourOf, Later
    <2>3. M = (IF a < 0 THEN m ELSE a) + (IF s > r THEN 1 ELSE 0)
      BY <1>0 DEF MinuteMade, MinuteOf, Later
    <2>4. QED
      BY <2>1, <2>2, <2>3
  <1>2. /\ r \in 0..(SecsPerMin - 1) /\ a \in Nat \cup {-1} /\ b \in Nat \cup {-1}
        /\ b >= 0 => a >= 0
        /\ H \in 0..(HoursPerDay - 1) /\ M \in 0..(MinsPerHour - 1)
    OBVIOUS
  <1> HIDE DEF D, H, M, r, a, b
  <1>3. D \in Nat
    BY <1>1
  <1>4. SecondsOf(d, h, m, s) <= T
    <2>1. InOrder(d, h, m, s, D, H, M, r)
      BY <1>0, <1>1, <1>2 DEF InOrder
    <2>2. QED
      BY <1>2, <1>3, <2>1, TimesInOrder
  <1>5. ASSUME ~behind
        PROVE  /\ b < 0 \/ H = b
               /\ a < 0 \/ M = a
               /\ T <= SecondsOf(d + 1, h, m, s)
               /\ \A e \in Nat, i \in 0..(HoursPerDay - 1), n \in 0..(MinsPerHour - 1) :
                     /\ SecondsOf(d, h, m, s) <= SecondsOf(e, i, n, r)
                     /\ b < 0 \/ i = b
                     /\ a < 0 \/ n = a
                     => T <= SecondsOf(e, i, n, r)
    <2>1. /\ H = IF b < 0 THEN h ELSE b
          /\ M = IF a < 0 THEN m ELSE a
          /\ s <= r
      BY <1>0, <1>1, <1>2, <1>5
    <2>2. /\ b < 0 \/ H = b
          /\ a < 0 \/ M = a
      BY <2>1
    <2>3. T <= SecondsOf(d + 1, h, m, s)
      <3> DEFINE e == d + 1
      <3>1. e \in Nat
        OBVIOUS
      <3>2. InOrder(D, H, M, r, e, h, m, s)
        BY <1>0, <1>1, <1>2, <2>1 DEF InOrder
      <3> HIDE DEF e
      <3>3. T <= SecondsOf(e, h, m, s)
        BY <1>2, <1>3, <3>1, <3>2, TimesInOrder
      <3>4. QED
        BY <3>3 DEF e
    <2>4. ASSUME NEW e \in Nat, NEW i \in 0..(HoursPerDay - 1), NEW n \in 0..(MinsPerHour - 1),
                 SecondsOf(d, h, m, s) <= SecondsOf(e, i, n, r),
                 b < 0 \/ i = b, a < 0 \/ n = a
          PROVE  T <= SecondsOf(e, i, n, r)
      <3>1. InOrder(d, h, m, s, e, i, n, r)
        BY <1>2, <2>4, TimesInOrder
      <3>2. InOrder(D, H, M, r, e, i, n, r)
        BY <1>0, <1>1, <1>2, <1>3, <2>1, <2>4, <3>1 DEF InOrder
      <3>3. QED
        BY <1>2, <1>3, <3>2, TimesInOrder
    <2>5. QED
      BY <2>2, <2>3, <2>4
  <1>6. ASSUME SecondsOf(d, h, m, s) = T
        PROVE  (b < 0 \/ now.wHour = b) /\ (a < 0 \/ now.wMinute = a) /\ now.wSecond = r
    <2>0. h \in Nat /\ m \in Nat /\ s \in Nat
      BY <1>0
    <2>1. SecondsOf(d, h, m, s) \in Nat
      BY <2>0, SecondsAre
    <2> DEFINE x == SecondsOf(d, h, m, s)
    <2>2. x <= T /\ T <= x
      <3> HIDE DEF x, T
      <3> QED BY <1>6, <2>1 DEF x
    <2>3. InOrder(d, h, m, s, D, H, M, r)
      BY <1>2, <1>3, <2>2, TimesInOrder
    <2>4. InOrder(D, H, M, r, d, h, m, s)
      BY <1>2, <1>3, <2>2, TimesInOrder
    <2>5. D = d /\ H = h /\ M = m /\ r = s
      BY <1>0, <1>2, <1>3, <2>3, <2>4 DEF InOrder
    <2>6. a < 0 \/ m = a
      BY <1>0, <1>1, <1>2, <2>5
    <2>7. b < 0 \/ h = b
      BY <1>0, <1>1, <1>2, <2>5, <2>6
    <2>8. QED
      BY <1>0, <2>5, <2>6, <2>7
  <1>7. QED
    BY <1>4, <1>5, <1>6 DEF NextMade, D, H, M, r, a, b

-----------------------------------------------------------------------------
(* A position that is the first of its byte is what is found.              *)
LEMMA FoundAt ==
    ASSUME NEW S, NEW s \in Seq(S), NEW b, NEW d \in 1..Len(s), s[d] = b,
           \A j \in 1..(d - 1) : s[j] # b
    PROVE  Find(s, b) = d
  <1> DEFINE x == Find(s, b)
  <1>1. /\ x \in 1..(Len(s) + 1) /\ x <= d
        /\ x <= Len(s) => s[x] = b
    BY FindIs
  <1> HIDE DEF x
  <1>2. Len(s) \in Nat
    OBVIOUS
  <1>3. ~(x \in 1..(d - 1))
    BY <1>1, <1>2
  <1>4. x = d
    BY <1>1, <1>2, <1>3
  <1>5. QED
    BY <1>4 DEF x

(* A sentence from the dollar d to the star, with its two digits and what  *)
(* ends the line.                                                          *)
Sentence(m, d, l) ==
    /\ m \in Seq(0..255) /\ l \in Nat /\ d \in 1..l /\ Len(m) = l + 5
    /\ m[d] = Dollar /\ \A j \in 1..(d - 1) : m[j] # Dollar
    /\ m[l + 1] = Star /\ \A j \in 1..l : m[j] # Star
    /\ m[l + 5] = 10

Ends(m, l) == m[l + 2] \in HexBytes /\ m[l + 3] \in HexBytes /\ m[l + 4] = 13

(* The sum that stands behind the star, and the one of the bytes between.  *)
Given2(m, l)   == 16 * FromHex(m[l + 2]) + FromHex(m[l + 3])
Between(m, d, l) == SubSeq(m, d + 1, l)

(* From byte a on there are digits up to byte e; f is the first of them,   *)
(* or the sign in front.                                                   *)
Scans(m, i, f, a, e) ==
    /\ m \in Seq(0..255) /\ i \in 1..Len(m)
    /\ f \in i..Len(m) /\ \A j \in i..(f - 1) : m[j] \in Blanks
    /\ m[f] \notin Blanks
    /\ a \in Nat /\ a = (IF m[f] \in Signs THEN f + 1 ELSE f) /\ a + 1 <= Len(m)
    /\ ~ZeroX(m[a], m[a + 1])
    /\ e \in a..Len(m) /\ \A j \in a..(e - 1) : m[j] \in HexBytes
    /\ m[e] \notin HexBytes

LEMMA HexAtGoes ==
    ASSUME NEW m, NEW i, NEW f, NEW a, NEW e, NEW k, Scans(m, i, f, a, e)
    PROVE  HexAt(m, i, Len(m), k) =
              IF e = a THEN k
              ELSE IF m[f] = Minus THEN -HexValue(SubSeq(m, a, e - 1))
              ELSE HexValue(SubSeq(m, a, e - 1))
  <1> DEFINE F == {j \in i..Len(m) : m[j] \notin Blanks} \cup {Len(m) + 1}
             first == Min(F)
             stop == IF first + Len(m) <= Len(m) THEN first + Len(m) ELSE Len(m) + 1
             At(j) == IF j < stop THEN m[j] ELSE 0
             start == IF At(first) \in Signs THEN first + 1 ELSE first
             from == IF ZeroX(At(start), At(start + 1)) THEN start + 2 ELSE start
             E == {j \in from..stop : FromHex(At(j)) = -1}
             end == Min(E)
             n == HexValue(SubSeq(m, from, end - 1))
  <1>1. HexAt(m, i, Len(m), k) = IF end = from THEN k ELSE IF At(first) = Minus THEN -n ELSE n
    BY DEF HexAt
  <1>0. /\ m \in Seq(0..255) /\ i \in 1..Len(m)
        /\ f \in i..Len(m) /\ \A j \in i..(f - 1) : m[j] \in Blanks
        /\ m[f] \notin Blanks
        /\ a \in Nat /\ a = (IF m[f] \in Signs THEN f + 1 ELSE f) /\ a + 1 <= Len(m)
        /\ ~ZeroX(m[a], m[a + 1])
        /\ e \in a..Len(m) /\ \A j \in a..(e - 1) : m[j] \in HexBytes
        /\ m[e] \notin HexBytes
    BY DEF Scans
  <1>2. Len(m) \in Nat /\ i \in Nat /\ f \in Nat /\ e \in Nat
    BY <1>0
  <1>3. first = f
    <2>1. F \subseteq Nat /\ f \in F /\ \A j \in F : f <= j
      BY <1>0, <1>2
    <2> HIDE DEF F
    <2>2. first \in F /\ first <= f
      BY <2>1, LeastIsMin
    <2> HIDE DEF first
    <2>3. first \in Nat /\ f <= first
      BY <2>1, <2>2
    <2>4. QED
      BY <1>0, <1>2, <2>2, <2>3
  <1> HIDE DEF first, F
  <1>4. stop = Len(m) + 1
    BY <1>0, <1>2, <1>3
  <1>5. \A j \in i..Len(m) : At(j) = m[j]
    BY <1>0, <1>2, <1>4
  <1> HIDE DEF At, stop
  <1>6. start = a
    BY <1>0, <1>2, <1>3, <1>5
  <1> HIDE DEF start
  <1>7. from = a
    <2>1. a \in i..Len(m) /\ a + 1 \in i..Len(m)
      BY <1>0, <1>2
    <2>2. ~ZeroX(At(start), At(start + 1))
      BY <1>0, <1>5, <1>6, <2>1
    <2>3. QED
      BY <1>6, <2>2
  <1> HIDE DEF from
  <1>8. \A j \in a..e : At(j) = m[j] /\ m[j] \in 0..255
    <2> SUFFICES ASSUME NEW j \in a..e PROVE At(j) = m[j] /\ m[j] \in 0..255
      OBVIOUS
    <2>1. j \in i..Len(m) /\ j \in 1..Len(m)
      BY <1>0, <1>2
    <2>2. QED
      BY <1>0, <1>5, <2>1, ElementOfSeq
  <1>9. end = e
    <2>1. ASSUME NEW j \in a..e PROVE FromHex(At(j)) = -1 <=> m[j] \notin HexBytes
      <3> DEFINE b == m[j]
      <3>1. b \in 0..255 /\ At(j) = b
        BY <1>8
      <3> HIDE DEF b
      <3>2. FromHex(b) # -1 <=> b \in HexBytes
        BY <3>1, FromHexIs
      <3>3. QED
        BY <3>1, <3>2 DEF b
    <2>2. \A j \in a..e : FromHex(At(j)) = -1 <=> j = e
      <3>1. \A j \in a..e : j # e => j \in a..(e - 1)
        BY <1>0, <1>2
      <3>2. QED
        BY <1>0, <1>2, <2>1, <3>1
    <2>3. E \subseteq Nat /\ e \in E /\ \A j \in E : e <= j
      <3>1. e \in a..stop
        BY <1>0, <1>2, <1>4
      <3>2. \A j \in a..stop : ~(e <= j) => j \in a..e /\ j # e
        BY <1>0, <1>2, <1>4
      <3>3. e \in a..e /\ \A j \in a..stop : j \in Nat
        BY <1>0, <1>2, <1>4
      <3>4. QED
        BY <1>7, <2>2, <3>1, <3>2, <3>3
    <2> HIDE DEF E
    <2>4. end \in E /\ end <= e
      BY <2>3, LeastIsMin
    <2> HIDE DEF end
    <2>5. end \in Nat /\ e <= end
      BY <2>3, <2>4
    <2>6. QED
      BY <1>0, <1>2, <2>4, <2>5
  <1> HIDE DEF end, E
  <1>10. At(first) = m[f]
    BY <1>0, <1>2, <1>3, <1>5
  <1>11. n = HexValue(SubSeq(m, a, e - 1))
    BY <1>7, <1>9
  <1> HIDE DEF n
  <1>12. QED
    BY <1>1, <1>7, <1>9, <1>10, <1>11

(* Up to three digits.                                                     *)
Digited(m, a, e) ==
    /\ a \in Nat /\ e \in Nat /\ e > a /\ e <= a + 3
    /\ \A j \in a..(e - 1) : m[j] \in HexBytes

LEMMA DigitsAt ==
    ASSUME NEW m, NEW a, NEW e, Digited(m, a, e)
    PROVE  /\ e = a + 1 => HexValue(SubSeq(m, a, e - 1)) = FromHex(m[a])
           /\ e = a + 2 => HexValue(SubSeq(m, a, e - 1)) = 16 * FromHex(m[a]) + FromHex(m[a + 1])
           /\ e = a + 3 => HexValue(SubSeq(m, a, e - 1))
                               = 256 * FromHex(m[a]) + 16 * FromHex(m[a + 1]) + FromHex(m[a + 2])
  <1> DEFINE b == e - 1
             s == SubSeq(m, a, b)
  <1>0. /\ a \in Nat /\ e \in Nat /\ e > a /\ e <= a + 3
        /\ \A j \in a..(e - 1) : m[j] \in HexBytes
    BY DEF Digited
  <1>1. a \in Int /\ b \in Int /\ a <= b /\ b - a + 1 = e - a
    BY <1>0
  <1>2. \A j \in a..b : m[j] \in HexBytes
    BY <1>0
  <1> HIDE DEF b
  <1>3. /\ s \in Seq(HexBytes) /\ Len(s) = e - a
        /\ \A i \in 1..(e - a) : s[i] = m[a + i - 1]
    BY <1>0, <1>1, <1>2, SubSeqProperties
  <1>4. s = SubSeq(m, a, e - 1)
    BY DEF b
  <1> HIDE DEF s
  <1>5. PICK g \in [0..Len(s) -> Nat] :
              /\ g[0] = 0 /\ g[Len(s)] = HexValue(s)
              /\ \A n \in 1..Len(s) : g[n] = 16 * g[n - 1] + FromHex(s[n])
    BY <1>3, HexRuns
  <1>6. \A i \in 1..(e - a) : s[i] = m[a + i - 1] /\ FromHex(m[a + i - 1]) \in 0..15
    <2> SUFFICES ASSUME NEW i \in 1..(e - a) PROVE FromHex(m[a + i - 1]) \in 0..15
      BY <1>3
    <2> DEFINE c == m[a + i - 1]
    <2>1. a + i - 1 \in a..b
      BY <1>0, <1>1
    <2>2. c \in HexBytes
      BY <1>2, <2>1
    <2> HIDE DEF c
    <2>3. c \in 0..255
      BY <2>2 DEF HexBytes
    <2>4. FromHex(c) \in 0..15
      BY <2>2, <2>3, FromHexIs
    <2>5. QED
      BY <2>4 DEF c
  <1>7. a + 1 - 1 = a /\ a + 2 - 1 = a + 1 /\ a + 3 - 1 = a + 2
    BY <1>0
  <1> DEFINE x == FromHex(m[a])
             y == FromHex(m[a + 1])
             z == FromHex(m[a + 2])
  <1>8. /\ x \in 0..15 /\ FromHex(s[1]) = x
        /\ e >= a + 2 => y \in 0..15 /\ FromHex(s[2]) = y
        /\ e >= a + 3 => z \in 0..15 /\ FromHex(s[3]) = z
    <2>1. 1 \in 1..(e - a) /\ (e >= a + 2 => 2 \in 1..(e - a)) /\ (e >= a + 3 => 3 \in 1..(e - a))
      BY <1>0
    <2>2. QED
      BY <1>6, <1>7, <2>1
  <1> HIDE DEF x, y, z
  <1>9. g[1] = x
    <2>1. 1 \in 1..Len(s) /\ 1 - 1 = 0
      BY <1>0, <1>3
    <2>2. g[1] = 16 * g[0] + FromHex(s[1])
      BY <1>5, <2>1
    <2>3. QED
      BY <1>5, <1>8, <2>2
  <1>10. e >= a + 2 => g[2] = 16 * x + y
    <2> SUFFICES ASSUME e >= a + 2 PROVE g[2] = 16 * x + y
      OBVIOUS
    <2>1. 2 \in 1..Len(s) /\ 2 - 1 = 1
      BY <1>0, <1>3
    <2>2. g[2] = 16 * g[1] + FromHex(s[2])
      BY <1>5, <2>1
    <2>3. QED
      BY <1>8, <1>9, <2>2
  <1>11. e >= a + 3 => g[3] = 256 * x + 16 * y + z
    <2> SUFFICES ASSUME e >= a + 3 PROVE g[3] = 256 * x + 16 * y + z
      OBVIOUS
    <2>1. 3 \in 1..Len(s) /\ 3 - 1 = 2
      BY <1>0, <1>3
    <2>2. g[3] = 16 * g[2] + FromHex(s[3])
      BY <1>5, <2>1
    <2>3. e >= a + 2
      BY <1>0
    <2>4. /\ x \in 0..15 /\ y \in 0..15 /\ z \in 0..15 /\ FromHex(s[3]) = z
          /\ g[2] = 16 * x + y
      BY <1>8, <1>10, <2>3
    <2>5. QED
      BY <2>2, <2>4
  <1>12. g[e - a] = HexValue(s)
    BY <1>3, <1>5
  <1>13. /\ e = a + 1 => HexValue(s) = x
         /\ e = a + 2 => HexValue(s) = 16 * x + y
         /\ e = a + 3 => HexValue(s) = 256 * x + 16 * y + z
    <2>1. (e = a + 1 => e - a = 1) /\ (e = a + 2 => e - a = 2) /\ (e = a + 3 => e - a = 3)
      BY <1>0
    <2>2. QED
      BY <1>0, <1>9, <1>10, <1>11, <1>12, <2>1
  <1>14. QED
    BY <1>4, <1>13 DEF x, y, z

(* What is read behind the star: two digits or three of them, one, or      *)
(* where the first is none the second, or nothing.                         *)
LEMMA BehindStar ==
    ASSUME NEW m, NEW d, NEW l, Sentence(m, d, l), NEW k \in Nat
    PROVE  LET x == m[l + 2]
               y == m[l + 3]
               z == m[l + 4]
               n == HexAt(m, l + 2, Len(m), k)
           IN  /\ x \in HexBytes /\ y \in HexBytes /\ z \notin HexBytes => n = Given2(m, l)
               /\ x \in HexBytes /\ y \in HexBytes /\ z \in HexBytes =>
                     n = 256 * FromHex(x) + 16 * FromHex(y) + FromHex(z)
               /\ x \in HexBytes /\ y \notin HexBytes /\ x # 48 => n = FromHex(x)
               /\ x \notin HexBytes /\ y \in HexBytes /\ z = 13 =>
                     n \in {FromHex(y), -FromHex(y), k}
  <1> DEFINE p == l + 2
             x == m[p]
             y == m[p + 1]
             z == m[p + 2]
             n == HexAt(m, p, Len(m), k)
  <1>1. /\ m \in Seq(0..255) /\ l \in Nat /\ Len(m) = l + 5 /\ m[l + 5] = 10
    BY DEF Sentence
  <1>2. /\ p \in 1..Len(m) /\ p \in Nat /\ Len(m) = p + 3 /\ p + 1 = l + 3 /\ p + 2 = l + 4
        /\ p + 3 = l + 5
    BY <1>1
  <1>3. m[p + 3] = 10
    BY <1>1, <1>2
  <1> HIDE DEF p
  <1>4. /\ \A b \in HexBytes : b \notin Blanks /\ b \notin Signs /\ b # Minus
        /\ \A b \in HexBytes : ~ZeroX(b, 10) /\ ~ZeroX(b, 13) /\ \A c \in HexBytes : ~ZeroX(b, c)
        /\ \A b, c : b # 48 => ~ZeroX(b, c)
        /\ 10 \notin HexBytes /\ 13 \notin HexBytes
    BY DEF HexBytes, Blanks, Signs, Minus, ZeroX
  <1>5. ASSUME x \in HexBytes, ~ZeroX(x, y), NEW e \in (p + 1)..(p + 3),
               \A j \in p..(e - 1) : m[j] \in HexBytes, m[e] \notin HexBytes
        PROVE  n = HexValue(SubSeq(m, p, e - 1))
    <2>1. /\ x \notin Blanks /\ x \notin Signs /\ x # Minus
      BY <1>4, <1>5
    <2>2. p \in p..Len(m) /\ p + 1 <= Len(m) /\ e \in p..Len(m) /\ e # p
          /\ \A j \in p..(p - 1) : m[j] \in Blanks
      BY <1>2, <1>5
    <2>3. p = IF m[p] \in Signs THEN p + 1 ELSE p
      BY <2>1
    <2>4. n = IF e = p THEN k
              ELSE IF m[p] = Minus THEN -HexValue(SubSeq(m, p, e - 1))
              ELSE HexValue(SubSeq(m, p, e - 1))
      <3> HIDE DEF n
      <3>1. m[p] \notin Blanks /\ ~ZeroX(m[p], m[p + 1])
        BY <1>5, <2>1
      <3>2. Scans(m, p, p, p, e)
        BY <1>1, <1>2, <1>5, <2>2, <2>3, <3>1 DEF Scans
      <3>3. QED
        BY <3>2, HexAtGoes DEF n
    <2>5. QED
      BY <2>1, <2>2, <2>4
  <1>6. ASSUME x \in HexBytes, y \in HexBytes, z \notin HexBytes
        PROVE  n = 16 * FromHex(x) + FromHex(y)
    <2> DEFINE e == p + 2
    <2>1. e \in (p + 1)..(p + 3) /\ e \in Nat /\ e > p /\ e <= p + 3 /\ e = p + 2
          /\ \A j \in p..(e - 1) : j = p \/ j = p + 1
      BY <1>2
    <2>2. m[e] \notin HexBytes /\ \A j \in p..(e - 1) : m[j] \in HexBytes
      BY <1>6, <2>1
    <2> HIDE DEF e
    <2>3. n = HexValue(SubSeq(m, p, e - 1))
      BY <1>4, <1>5, <1>6, <2>1, <2>2
    <2>4. HexValue(SubSeq(m, p, e - 1)) = 16 * FromHex(m[p]) + FromHex(m[p + 1])
      <3>1. Digited(m, p, e)
        BY <1>2, <2>1, <2>2 DEF Digited
      <3>2. QED
        BY <2>1, <3>1, DigitsAt
    <2>5. QED
      BY <2>3, <2>4
  <1>7. ASSUME x \in HexBytes, y \in HexBytes, z \in HexBytes
        PROVE  n = 256 * FromHex(x) + 16 * FromHex(y) + FromHex(z)
    <2> DEFINE e == p + 3
    <2>1. e \in (p + 1)..(p + 3) /\ e \in Nat /\ e > p /\ e <= p + 3 /\ e = p + 3
          /\ \A j \in p..(e - 1) : j = p \/ j = p + 1 \/ j = p + 2
      BY <1>2
    <2>2. m[e] \notin HexBytes /\ \A j \in p..(e - 1) : m[j] \in HexBytes
      BY <1>3, <1>4, <1>7, <2>1
    <2> HIDE DEF e
    <2>3. n = HexValue(SubSeq(m, p, e - 1))
      BY <1>4, <1>5, <1>7, <2>1, <2>2
    <2>4. HexValue(SubSeq(m, p, e - 1))
             = 256 * FromHex(m[p]) + 16 * FromHex(m[p + 1]) + FromHex(m[p + 2])
      <3>1. Digited(m, p, e)
        BY <1>2, <2>1, <2>2 DEF Digited
      <3>2. QED
        BY <2>1, <3>1, DigitsAt
    <2>5. QED
      BY <2>3, <2>4
  <1>8. ASSUME x \in HexBytes, y \notin HexBytes, x # 48
        PROVE  n = FromHex(x)
    <2> DEFINE e == p + 1
    <2>1. e \in (p + 1)..(p + 3) /\ e \in Nat /\ e > p /\ e <= p + 3 /\ e = p + 1
          /\ \A j \in p..(e - 1) : j = p
      BY <1>2
    <2>2. m[e] \notin HexBytes /\ \A j \in p..(e - 1) : m[j] \in HexBytes
      BY <1>8, <2>1
    <2> HIDE DEF e
    <2>3. n = HexValue(SubSeq(m, p, e - 1))
      BY <1>4, <1>5, <1>8, <2>1, <2>2
    <2>4. HexValue(SubSeq(m, p, e - 1)) = FromHex(m[p])
      <3>1. Digited(m, p, e)
        BY <1>2, <2>1, <2>2 DEF Digited
      <3>2. QED
        BY <2>1, <3>1, DigitsAt
    <2>5. QED
      BY <2>3, <2>4
  <1>9. ASSUME x \notin HexBytes, y \in HexBytes, z = 13
        PROVE  n \in {FromHex(y), -FromHex(y), k}
    <2> DEFINE q == p + 1
               e == p + 2
               v == HexValue(SubSeq(m, q, e - 1))
    <2>1. /\ q \in Nat /\ e \in Nat /\ e > q /\ e <= q + 3 /\ e = q + 1 /\ q + 1 = p + 2
          /\ q + 1 <= Len(m) /\ q \in p..Len(m) /\ e \in q..Len(m) /\ e # q
          /\ (\A j \in q..(e - 1) : j = q) /\ (\A j \in p..(q - 1) : j = p) /\ p \in p..Len(m)
      BY <1>2
    <2>2. /\ m[q] \in HexBytes /\ m[e] = 13 /\ m[e] \notin HexBytes
          /\ \A j \in q..(e - 1) : m[j] \in HexBytes
      BY <1>4, <1>9, <2>1
    <2>3. ~ZeroX(m[q], m[q + 1]) /\ m[q] \notin Blanks /\ m[q] \notin Signs /\ m[q] # Minus
      BY <1>4, <1>9, <2>1, <2>2
    <2>4. v = FromHex(y)
      <3>1. HexValue(SubSeq(m, q, e - 1)) = FromHex(m[q])
        <4> HIDE DEF q, e
        <4>1. Digited(m, q, e)
          BY <2>1, <2>2 DEF Digited
        <4>2. QED
          BY <2>1, <4>1, DigitsAt
      <3>2. QED
        BY <3>1
    <2> HIDE DEF v
    <2>5. CASE x \in Blanks
      <3>1. \A j \in p..(q - 1) : m[j] \in Blanks
        BY <2>1, <2>5
      <3>2. q = IF m[q] \in Signs THEN q + 1 ELSE q
        BY <2>3
      <3>3. n = IF e = q THEN k ELSE IF m[q] = Minus THEN -v ELSE v
        <4> HIDE DEF n, q, e
        <4>1. Scans(m, p, q, q, e)
          BY <1>1, <1>2, <2>1, <2>2, <2>3, <3>1, <3>2 DEF Scans
        <4>2. QED
          BY <4>1, HexAtGoes DEF n, v
      <3>4. QED
        BY <2>1, <2>3, <2>4, <3>3
    <2>6. CASE x \notin Blanks /\ x \in Signs
      <3>1. q = IF m[p] \in Signs THEN p + 1 ELSE p
        BY <2>6
      <3>2. \A j \in p..(p - 1) : m[j] \in Blanks
        BY <1>2
      <3>3. m[p] \notin Blanks
        BY <2>6
      <3>4. n = IF e = q THEN k ELSE IF m[p] = Minus THEN -v ELSE v
        <4> HIDE DEF n, q, e
        <4>1. Scans(m, p, p, q, e)
          BY <1>1, <1>2, <2>1, <2>2, <2>3, <3>1, <3>2, <3>3 DEF Scans
        <4>2. QED
          BY <4>1, HexAtGoes DEF n, v
      <3>5. QED
        BY <2>1, <2>4, <3>4
    <2>7. CASE x \notin Blanks /\ x \notin Signs
      <3>1. p = IF m[p] \in Signs THEN p + 1 ELSE p
        BY <2>7
      <3>2. /\ \A j \in p..(p - 1) : m[j] \in Blanks
            /\ \A j \in p..(p - 1) : m[j] \in HexBytes
        BY <1>2
      <3>3. m[p] \notin Blanks /\ m[p] \notin HexBytes /\ ~ZeroX(m[p], m[p + 1])
        <4>1. x # 48
          BY <1>9 DEF HexBytes
        <4>2. QED
          BY <1>4, <1>9, <2>7, <4>1
      <3>4. p + 1 <= Len(m) /\ p \in p..Len(m)
        BY <1>2
      <3>5. n = k
        <4> HIDE DEF n, q, e
        <4>1. Scans(m, p, p, p, p)
          BY <1>1, <1>2, <3>1, <3>2, <3>3, <3>4 DEF Scans
        <4>2. QED
          BY <4>1, HexAtGoes DEF n
      <3>6. QED
        BY <3>5
    <2>8. QED
      BY <2>5, <2>6, <2>7
  <1> HIDE DEF n
  <1>10. /\ x \in HexBytes /\ y \in HexBytes /\ z \notin HexBytes =>
               n = 16 * FromHex(x) + FromHex(y)
         /\ x \in HexBytes /\ y \in HexBytes /\ z \in HexBytes =>
               n = 256 * FromHex(x) + 16 * FromHex(y) + FromHex(z)
         /\ x \in HexBytes /\ y \notin HexBytes /\ x # 48 => n = FromHex(x)
         /\ x \notin HexBytes /\ y \in HexBytes /\ z = 13 => n \in {FromHex(y), -FromHex(y), k}
    BY <1>6, <1>7, <1>8, <1>9
  <1>11. x = m[l + 2] /\ y = m[l + 3] /\ z = m[l + 4] /\ n = HexAt(m, l + 2, Len(m), k)
    BY <1>2 DEF n, p
  <1>12. QED
    BY <1>10, <1>11 DEF Given2

LEMMA SentenceCheck ==
    ASSUME NEW m, NEW d, NEW l, Sentence(m, d, l)
    PROVE  /\ NmeaCheck(m) = IF HexAt(m, l + 2, Len(m), l) % UIntRange = XorAll(Between(m, d, l))
                             THEN 0 ELSE 1
           /\ Find(m, Dollar) = d /\ Find(m, Star) = l + 1
  <1>1. /\ m \in Seq(0..255) /\ l \in Nat /\ d \in 1..l /\ Len(m) = l + 5
        /\ m[d] = Dollar /\ \A j \in 1..(d - 1) : m[j] # Dollar
        /\ m[l + 1] = Star /\ \A j \in 1..l : m[j] # Star
    BY DEF Sentence
  <1>2. Find(m, Dollar) = d
    <2>1. d \in 1..Len(m)
      BY <1>1
    <2>2. QED
      BY <1>1, <2>1, FoundAt
  <1>3. Find(m, Star) = l + 1
    <2> DEFINE p == l + 1
    <2>1. p \in 1..Len(m) /\ m[p] = Star /\ \A j \in 1..(p - 1) : m[j] # Star
      BY <1>1
    <2> HIDE DEF p
    <2>2. Find(m, Star) = p
      BY <1>1, <2>1, FoundAt
    <2>3. QED
      BY <2>2 DEF p
  <1> DEFINE i == IF Find(m, Star) > Find(m, Dollar) THEN Find(m, Star) - 1 ELSE Find(m, Dollar)
             x == HexAt(m, Find(m, Star) + 1, Len(m), i)
  <1>4. NmeaCheck(m) =
            IF Len(m) - Find(m, Dollar) + 1 <= 4 \/ Find(m, Star) = 1 THEN -1
            ELSE IF x % UIntRange = XorAll(SubSeq(m, Find(m, Dollar) + 1, Find(m, Star) - 1))
            THEN 0 ELSE 1
    BY DEF NmeaCheck
  <1>5. i = l /\ Find(m, Star) + 1 = l + 2
    BY <1>1, <1>2, <1>3
  <1> HIDE DEF i
  <1>6. x = HexAt(m, l + 2, Len(m), l)
    BY <1>5
  <1> HIDE DEF x
  <1>7. ~(Len(m) - d + 1 <= 4 \/ l + 1 = 1) /\ (l + 1) - 1 = l
    BY <1>1
  <1>8. SubSeq(m, Find(m, Dollar) + 1, Find(m, Star) - 1) = Between(m, d, l)
    BY <1>2, <1>3, <1>7 DEF Between
  <1>9. NmeaCheck(m) = IF x % UIntRange = XorAll(Between(m, d, l)) THEN 0 ELSE 1
    BY <1>2, <1>3, <1>4, <1>7, <1>8
  <1>10. QED
    BY <1>2, <1>3, <1>6, <1>9

LEMMA XorTellsFirst ==
    ASSUME NEW a \in 0..255, NEW b \in 0..255, NEW c \in 0..255, Xor(b, a) = Xor(c, a)
    PROVE  b = c
  <1>1. \A v \in PlaceValues : Bit(v, a, b) = Bit(v, b, a) /\ Bit(v, a, c) = Bit(v, c, a)
    <2> SUFFICES ASSUME NEW v \in PlaceValues
                 PROVE  Bit(v, a, b) = Bit(v, b, a) /\ Bit(v, a, c) = Bit(v, c, a)
      OBVIOUS
    <2>1. Odd(v, a, b) = Odd(v, b, a) /\ Odd(v, a, c) = Odd(v, c, a)
      BY ZenonT(40), BitIs
    <2>2. QED
      BY <2>1 DEF Bit
  <1>2. Xor(a, b) = Xor(b, a) /\ Xor(a, c) = Xor(c, a)
    BY <1>1, XorIsBits DEF PlaceValues
  <1>3. QED
    BY ZenonT(40), <1>2, XorTellsApart

(* One changed byte changes the sum.                                       *)
OtherAt(s, t, k) ==
    Len(t) = Len(s) /\ t[k] # s[k] /\ \A i \in 1..Len(s) : i # k => t[i] = s[i]

LEMMA XorChanges ==
    ASSUME NEW s \in Seq(0..255), NEW t \in Seq(0..255), NEW k \in 1..Len(s), OtherAt(s, t, k)
    PROVE  XorAll(t) # XorAll(s)
  <1> DEFINE n == Len(s)
  <1>1. PICK g \in [0..n -> 0..255] :
              /\ g[0] = 0 /\ g[n] = XorAll(s)
              /\ \A i \in 1..n : g[i] = Xor(g[i - 1], s[i])
    BY XorAllRuns
  <1>2. PICK h \in [0..n -> 0..255] :
              /\ h[0] = 0 /\ h[n] = XorAll(t)
              /\ \A i \in 1..n : h[i] = Xor(h[i - 1], t[i])
    BY XorAllRuns DEF OtherAt
  <1>3. n \in Nat /\ \A i \in 1..n : s[i] \in 0..255 /\ t[i] \in 0..255
    <2>1. n \in Nat
      OBVIOUS
    <2>2. \A i \in 1..n : s[i] \in 0..255 /\ t[i] \in 0..255
      BY ElementOfSeq DEF OtherAt
    <2>3. QED
      BY <2>1, <2>2
  <1>4. k \in 1..n /\ t[k] # s[k] /\ \A i \in 1..n : i # k => t[i] = s[i]
    BY DEF OtherAt
  <1>10. Len(t) = n
    BY DEF OtherAt
  <1> HIDE DEF n
  <1> DEFINE P(i) == IF i < k THEN g[i] = h[i] ELSE g[i] # h[i]
  <1>5. \A i \in 0..(n - 1) : P(i) => P(i + 1)
    <2> SUFFICES ASSUME NEW i \in 0..(n - 1), P(i) PROVE P(i + 1)
      OBVIOUS
    <2>1. i \in 0..n /\ i + 1 \in 1..n /\ (i + 1) - 1 = i
      BY <1>3
    <2> DEFINE y == i + 1
               u == g[i]
               v == h[i]
    <2>2. /\ g[y] = Xor(u, s[y]) /\ h[y] = Xor(v, t[y])
          /\ u \in 0..255 /\ v \in 0..255 /\ s[y] \in 0..255 /\ t[y] \in 0..255
      BY <1>1, <1>2, <1>3, <2>1
    <2>3. CASE y < k
      <3>1. i < k /\ y # k
        BY <1>3, <1>4, <2>1, <2>3
      <3>2. u = v /\ t[y] = s[y]
        BY <1>4, <2>1, <3>1
      <3>3. QED
        BY <2>2, <2>3, <3>2
    <2>4. CASE y = k
      <3>1. i < k
        BY <1>3, <1>4, <2>1, <2>4
      <3>2. u = v /\ t[y] # s[y] /\ ~(y < k)
        BY <1>4, <2>1, <2>4, <3>1
      <3> HIDE DEF u, v, y
      <3> DEFINE a == s[y]
                 c == t[y]
      <3>6. a # c /\ a \in 0..255 /\ c \in 0..255 /\ u \in 0..255
        BY <2>2, <3>2
      <3> HIDE DEF a, c
      <3>3. Xor(u, a) # Xor(u, c)
        BY <3>6, XorTellsApart
      <3>4. g[y] # h[y]
        BY <2>2, <3>2, <3>3 DEF a, c
      <3>5. QED
        BY <3>2, <3>4 DEF y
    <2>5. CASE y > k
      <3>1. ~(i < k) /\ y # k /\ ~(y < k)
        BY <1>3, <1>4, <2>1, <2>5
      <3>2. u # v /\ t[y] = s[y]
        BY <1>4, <2>1, <3>1
      <3> DEFINE a == s[y]
      <3> HIDE DEF u, v, a
      <3>3. Xor(u, a) # Xor(v, a)
        <4>1. a \in 0..255
          BY <2>2 DEF a
        <4>2. QED
          BY ZenonT(40), <2>2, <3>2, <4>1, XorTellsFirst
      <3>4. g[y] # h[y]
        BY <2>2, <3>2, <3>3 DEF a
      <3>5. QED
        BY <3>1, <3>4
    <2>6. QED
      BY <1>3, <1>4, <2>1, <2>3, <2>4, <2>5
  <1>6. P(0)
    BY <1>1, <1>2, <1>4
  <1>7. P(n)
    <2> DEFINE R == {i \in Nat : i \in 0..n => P(i)}
    <2>1. 0 \in R
      BY <1>6
    <2>2. ASSUME NEW i \in Nat, i \in R PROVE i + 1 \in R
      <3> SUFFICES ASSUME i + 1 \in 0..n PROVE P(i + 1)
        OBVIOUS
      <3>1. i \in 0..(n - 1) /\ i \in 0..n
        BY <1>3
      <3>2. P(i)
        BY <2>2, <3>1
      <3> HIDE DEF P
      <3>3. QED
        BY <1>5, <3>1, <3>2
    <2>3. Nat \subseteq R
      <3> HIDE DEF R
      <3> QED BY <2>1, <2>2, SetInduction
    <2> HIDE DEF P
    <2>4. QED
      BY <1>3, <2>3
  <1>8. ~(n < k)
    BY <1>3, <1>4
  <1>9. QED
    BY <1>1, <1>2, <1>7, <1>8 DEF n

-----------------------------------------------------------------------------
(* Parts of two sequences that have the same elements are the same.        *)
LEMMA SamePart ==
    ASSUME NEW S, NEW s \in Seq(S), NEW t \in Seq(S), NEW a \in Nat, NEW b \in Nat,
           a >= 1, b <= Len(s), b <= Len(t), \A i \in a..b : s[i] = t[i]
    PROVE  SubSeq(s, a, b) = SubSeq(t, a, b)
  <1> DEFINE x == SubSeq(s, a, b)
             y == SubSeq(t, a, b)
  <1>1. Len(s) \in Nat /\ Len(t) \in Nat
    OBVIOUS
  <1>2. \A i \in a..b : s[i] \in S /\ t[i] \in S
    <2> SUFFICES ASSUME NEW i \in a..b PROVE s[i] \in S /\ t[i] \in S
      OBVIOUS
    <2>1. i \in 1..Len(s) /\ i \in 1..Len(t)
      BY <1>1
    <2>2. QED
      BY <2>1, ElementOfSeq
  <1>3. /\ x \in Seq(S) /\ Len(x) = (IF a <= b THEN b - a + 1 ELSE 0)
        /\ \A i \in 1..(b - a + 1) : x[i] = s[a + i - 1]
    BY <1>2, SubSeqProperties
  <1>4. /\ y \in Seq(S) /\ Len(y) = (IF a <= b THEN b - a + 1 ELSE 0)
        /\ \A i \in 1..(b - a + 1) : y[i] = t[a + i - 1]
    BY <1>2, SubSeqProperties
  <1> HIDE DEF x, y
  <1>5. Len(x) = Len(y) /\ Len(x) \in Nat
    BY <1>3, <1>4
  <1>6. ASSUME NEW i \in 1..Len(x) PROVE x[i] = y[i]
    <2>1. i \in 1..(b - a + 1) /\ a + i - 1 \in a..b
      BY <1>3, <1>5
    <2>2. QED
      BY <1>3, <1>4, <2>1
  <1>7. x = y
    BY <1>3, <1>4, <1>5, <1>6, SeqEqual
  <1>8. QED
    BY <1>7 DEF x, y

(* The sentence of the -m mode.                                            *)
LEMMA SummedIs ==
    ASSUME NEW B \in Seq(1..255), \A i \in 1..Len(B) : B[i] # Star,
           NEW m, m = Summed(B, 1), Find(m, Dollar) <= Len(m)
    PROVE  \E d \in 1..Len(B) : /\ Sentence(m, d, Len(B)) /\ Ends(m, Len(B))
                                /\ Given2(m, Len(B)) = XorAll(Between(m, d, Len(B)))
  <1> DEFINE l == Len(B)
             d == Find(B, Dollar)
             body == SubSeq(B, d + 1, l)
             x == XorAll(body)
             h == HexCode(x \div 16)
             k == HexCode(x % 16)
             tail == <<Star, h, k>> \o CrLf
  <1>1. B \in Seq(0..255) /\ l \in Nat
    BY WideBytes
  <1>2. CString(B) = B
    <2> DEFINE c == CString(B)
    <2>1. /\ c \in Seq(0..255) /\ Len(c) <= l /\ \A i \in 1..Len(c) : c[i] = B[i]
          /\ Len(c) < l => B[Len(c) + 1] = 0
      BY <1>1, CStringIs
    <2>2. \A i \in 1..l : B[i] # 0
      <3> SUFFICES ASSUME NEW i \in 1..l PROVE B[i] # 0
        OBVIOUS
      <3> DEFINE b == B[i]
      <3>1. b \in 1..255
        BY ElementOfSeq
      <3> HIDE DEF b
      <3>2. b # 0
        BY <3>1
      <3>3. QED
        BY <3>2 DEF b
    <2> HIDE DEF c, l
    <2>3. Len(c) = l
      <3>1. Len(c) \in Nat
        BY <2>1
      <3>2. Len(c) + 1 \in 1..l \/ Len(c) = l
        BY <1>1, <2>1, <3>1
      <3>3. QED
        BY <2>1, <2>2, <3>1, <3>2, <1>1
    <2>4. c = B
      BY <1>1, <2>1, <2>3, SeqEqual DEF l
    <2>5. QED
      BY <2>4 DEF c
  <1>3. /\ d \in 1..(l + 1)
        /\ d <= l => B[d] = Dollar
        /\ \A j \in 1..l : B[j] = Dollar => d <= j
    BY <1>1, FindIs
  <1>4. m = IF d > l THEN B ELSE B \o <<Star, h, k>> \o CrLf
    <2>1. 1 # 0
      OBVIOUS
    <2>2. QED
      BY <1>2, <2>1 DEF Summed, XorSum
  <1>5. d \in 1..l
    <2>1. CASE d > l
      <3>1. m = B
        <4> HIDE DEF d, l, h, k
        <4> QED BY <1>4, <2>1
      <3>2. d <= l
        BY <3>1
      <3> HIDE DEF d, l
      <3>3. QED
        BY <1>1, <1>3, <2>1, <3>2
    <2>2. CASE ~(d > l)
      <3> HIDE DEF d, l
      <3> QED BY <1>1, <1>3, <2>2
    <2>3. QED
      BY <2>1, <2>2
  <1> DEFINE e == d
  <1>6. body \in Seq(0..255)
    <2> DEFINE A == 0..255
    <2>1. B \in Seq(A) /\ d \in 1..(Len(B) + 1)
      BY <1>1, <1>3
    <2> HIDE DEF A, d
    <2>2. SubSeq(B, d + 1, Len(B)) \in Seq(A)
      BY <2>1, RestIs
    <2>3. QED
      BY <2>2 DEF A
  <1>7. /\ x \in 0..255 /\ h \in 48..57 \cup 65..70 /\ k \in 48..57 \cup 65..70
        /\ x = 16 * (x \div 16) + (x % 16) /\ x \div 16 \in 0..15 /\ x % 16 \in 0..15
    <2> HIDE DEF body
    <2> QED BY <1>6, XorDigits
  <1>8. FromHex(h) = x \div 16 /\ FromHex(k) = x % 16
    <2>1. ASSUME NEW n \in 0..15 PROVE FromHex(HexCode(n)) = n
      <3> DEFINE c == HexCode(n)
      <3>4. /\ n < 10 => c = 48 + n
            /\ ~(n < 10) => c = 55 + n
        BY DEF HexCode
      <3> HIDE DEF c
      <3>1. CASE n < 10
        <4>1. c \in 0..255 /\ c \in 48..57 /\ c - 48 = n
          BY <3>1, <3>4
        <4>2. FromHex(c) = c - 48
          BY <4>1, FromHexIs
        <4>3. QED
          BY <4>1, <4>2 DEF c
      <3>2. CASE ~(n < 10)
        <4>1. c \in 0..255 /\ c \in 65..70 /\ c - 55 = n
          BY <3>2, <3>4
        <4>2. FromHex(c) = c - 55
          BY <4>1, FromHexIs
        <4>3. QED
          BY <4>1, <4>2 DEF c
      <3>3. QED
        BY <3>1, <3>2
    <2> HIDE DEF x
    <2>2. QED
      BY SMTT(30), <1>7, <2>1
  <1> DEFINE A == 0..255
             u == <<Star, h, k>>
             n == B \o u
  <1>9. m = n \o CrLf
    <2> HIDE DEF h, k, d, l
    <2>1. ~(d > l)
      BY <1>1, <1>5
    <2>2. m = B \o <<Star, h, k>> \o CrLf
      BY <1>4, <2>1
    <2>3. QED
      BY <2>2
  <1>10. /\ u \in Seq(A) /\ Len(u) = 3 /\ u[1] = Star /\ u[2] = h /\ u[3] = k
         /\ CrLf \in Seq(A) /\ Len(CrLf) = 2 /\ CrLf[1] = 13 /\ CrLf[2] = 10
    <2> HIDE DEF h, k
    <2>1. h \in A /\ k \in A /\ Star \in A /\ 13 \in A /\ 10 \in A
      BY <1>7 DEF Star
    <2> HIDE DEF A
    <2>2. u \in Seq(A) /\ Len(u) = 3 /\ u[1] = Star /\ u[2] = h /\ u[3] = k
      BY <2>1
    <2>3. CrLf \in Seq(A) /\ Len(CrLf) = 2 /\ CrLf[1] = 13 /\ CrLf[2] = 10
      BY <2>1 DEF CrLf
    <2>4. QED
      BY <2>2, <2>3
  <1> HIDE DEF u, x, h, k, body, d, tail
  <1>11. /\ m \in Seq(0..255) /\ Len(m) = l + 5
         /\ \A i \in 1..l : m[i] = B[i]
         /\ m[l + 1] = Star /\ m[l + 2] = h /\ m[l + 3] = k /\ m[l + 4] = 13
         /\ m[l + 5] = 10
    <2>0. B \in Seq(A) /\ Len(B) = l
      BY <1>1
    <2> HIDE DEF A, l
    <2>1. /\ n \in Seq(A) /\ Len(n) = l + 3
          /\ \A i \in 1..(l + 3) : n[i] = IF i <= l THEN B[i] ELSE u[i - l]
      <3> HIDE DEF n
      <3>1. /\ B \o u \in Seq(A) /\ Len(B \o u) = Len(B) + Len(u)
            /\ \A i \in 1..(Len(B) + Len(u)) : (B \o u)[i] = IF i <= Len(B) THEN B[i] ELSE u[i - Len(B)]
        <4>1. u \in Seq(A) /\ B \in Seq(A)
          BY <2>0, <1>10
        <4>2. QED
          BY <4>1, ConcatProperties
      <3>2. QED
        BY <2>0, <1>10, <3>1 DEF n
    <2> HIDE DEF n
    <2>2. /\ m \in Seq(A) /\ Len(m) = (l + 3) + 2
          /\ \A i \in 1..((l + 3) + 2) : m[i] = IF i <= l + 3 THEN n[i] ELSE CrLf[i - (l + 3)]
      <3> DEFINE v == CrLf
      <3>1. v \in Seq(A) /\ Len(v) = 2 /\ m = n \o v
        BY <1>9, <1>10
      <3> HIDE DEF v
      <3>2. /\ n \o v \in Seq(A) /\ Len(n \o v) = Len(n) + Len(v)
            /\ \A i \in 1..(Len(n) + Len(v)) : (n \o v)[i] = IF i <= Len(n) THEN n[i] ELSE v[i - Len(n)]
        <4>1. n \in Seq(A) /\ v \in Seq(A)
          BY <2>1, <3>1
        <4>2. QED
          BY <4>1, ConcatProperties
      <3>3. QED
        BY <2>1, <3>1, <3>2 DEF v
    <2>3. /\ l + 1 \in 1..(l + 3) /\ l + 2 \in 1..(l + 3) /\ l + 3 \in 1..(l + 3)
          /\ l + 4 \in 1..((l + 3) + 2) /\ ~(l + 4 <= l + 3) /\ (l + 4) - (l + 3) = 1
          /\ l + 5 \in 1..((l + 3) + 2) /\ ~(l + 5 <= l + 3) /\ (l + 5) - (l + 3) = 2
          /\ (l + 1) - l = 1 /\ (l + 2) - l = 2 /\ (l + 3) - l = 3
          /\ ~(l + 1 <= l) /\ ~(l + 2 <= l) /\ ~(l + 3 <= l) /\ (l + 3) + 2 = l + 5
          /\ \A i \in 1..(l + 3) : i <= l + 3 /\ i \in 1..((l + 3) + 2)
          /\ \A i \in 1..l : i \in 1..(l + 3) /\ i <= l
      BY <1>1
    <2>4. \A i \in 1..(l + 3) : m[i] = n[i]
      BY <2>2, <2>3
    <2>5. n[l + 1] = Star /\ n[l + 2] = h /\ n[l + 3] = k
      <3>1. n[l + 1] = u[1] /\ n[l + 2] = u[2] /\ n[l + 3] = u[3]
        BY <2>1, <2>3
      <3>2. QED
        BY <1>10, <3>1
    <2>6. m[l + 4] = 13 /\ m[l + 5] = 10
      BY SMTT(30), <1>10, <2>2, <2>3
    <2>7. \A i \in 1..l : m[i] = B[i]
      BY <2>1, <2>3, <2>4
    <2>8. m[l + 1] = Star /\ m[l + 2] = h /\ m[l + 3] = k
      BY <2>3, <2>4, <2>5
    <2>9. m \in Seq(A) /\ Len(m) = l + 5
      BY <2>2, <2>3
    <2>10. QED
      BY <2>6, <2>7, <2>8, <2>9 DEF A
  <1> HIDE DEF l
  <1>12. Sentence(m, d, l) /\ Ends(m, l)
    <2>1. m[d] = Dollar /\ \A j \in 1..(d - 1) : m[j] # Dollar
      <3>1. \A j \in 1..(d - 1) : j \in 1..l /\ ~(d <= j)
        BY <1>1, <1>5
      <3>2. d <= l
        BY <1>5
      <3>3. m[d] = Dollar
        BY <1>3, <1>5, <1>11, <3>2
      <3>4. \A j \in 1..(d - 1) : m[j] # Dollar
        BY <1>3, <1>11, <3>1
      <3>5. QED
        BY <3>3, <3>4
    <2>2. \A j \in 1..l : m[j] # Star
      BY <1>11 DEF l
    <2>3. h \in HexBytes /\ k \in HexBytes
      BY <1>7 DEF HexBytes
    <2>4. Ends(m, l)
      BY <1>11, <2>3 DEF Ends
    <2>5. QED
      BY <1>1, <1>5, <1>11, <2>1, <2>2, <2>4 DEF Sentence
  <1>13. Given2(m, l) = x
    <2>1. FromHex(m[l + 2]) = x \div 16 /\ FromHex(m[l + 3]) = x % 16
      BY <1>8, <1>11
    <2>2. QED
      BY <1>7, <2>1 DEF Given2
  <1>14. Between(m, d, l) = body
    <2> DEFINE a == d + 1
    <2>1. a \in Nat /\ a >= 1 /\ l <= Len(m) /\ l <= Len(B) /\ \A i \in a..l : m[i] = B[i]
      <3>1. \A i \in a..l : i \in 1..l
        BY <1>1, <1>5
      <3>2. l <= Len(B)
        BY <1>1 DEF l
      <3>3. QED
        BY <1>1, <1>5, <1>11, <3>1, <3>2
    <2> HIDE DEF a
    <2>2. SubSeq(m, a, l) = SubSeq(B, a, l)
      BY <1>1, <1>11, <2>1, SamePart
    <2>3. QED
      BY <2>2 DEF a, Between, body
  <1>15. QED
    BY <1>5, <1>12, <1>13, <1>14 DEF l, x

(* A number below the range of an unsigned int, and a negative one.        *)
Wrapped(n) == n % UIntRange

InUInt(n) == n \in 0..4095
Negated(n) == -n

LEMMA UIntIs ==
    ASSUME NEW n, InUInt(n)
    PROVE  Wrapped(n) = n
  <1>1. UIntRange \in Nat /\ UIntRange >= 65536
    BY UIntAssumption
  <1>2. n \in 0..4095
    BY DEF InUInt
  <1>3. n % UIntRange = n
    BY <1>1, <1>2
  <1>4. QED
    BY <1>3 DEF Wrapped

LEMMA NegatedIs ==
    ASSUME NEW n, n \in 0..15
    PROVE  Wrapped(Negated(n)) = 0 \/ Wrapped(Negated(n)) > 255
  <1>1. UIntRange \in Nat /\ UIntRange >= 65536
    BY UIntAssumption
  <1>2. (-n) % UIntRange = 0 \/ (-n) % UIntRange > 255
    BY <1>1
  <1>3. QED
    BY <1>2 DEF Wrapped, Negated

(* A sentence is right, and is not with another byte in it where the check *)
(* must notice it.                                                         *)
Refused(m, i, b) == NmeaCheck([m EXCEPT ![i] = b]) = 1

Checked(m) ==
    /\ NmeaCheck(m) = 0
    /\ \A i \in DOMAIN m, b \in 1..255 : b # m[i] /\ Noticed(m, i, b) => Refused(m, i, b)

(* Byte i is b, the others are as they were.                               *)
ByteAt(m, n, i, b) == \A j \in 1..Len(m) : n[j] = IF j = i THEN b ELSE m[j]

(* Another byte in the text: the sum behind the star is what it was, that  *)
(* of the text is not.                                                     *)
LEMMA TextChanged ==
    ASSUME NEW m, NEW d, NEW l, Sentence(m, d, l), NEW n, Sentence(n, d, l),
           NEW i \in (d + 1)..l, NEW b, b # m[i], ByteAt(m, n, i, b)
    PROVE  XorAll(Between(n, d, l)) # XorAll(Between(m, d, l))
  <1> DEFINE s == Between(m, d, l)
             t == Between(n, d, l)
             k == i - d
  <1>1. /\ m \in Seq(0..255) /\ n \in Seq(0..255) /\ l \in Nat /\ d \in 1..l
        /\ Len(m) = l + 5 /\ Len(n) = l + 5
    BY DEF Sentence
  <1>2. d + 1 \in Int /\ l \in Int /\ l - (d + 1) + 1 = l - d /\ d + 1 <= l
        /\ \A j \in (d + 1)..l : j \in 1..Len(m)
    BY <1>1
  <1>3. \A j \in (d + 1)..l : m[j] \in 0..255 /\ n[j] \in 0..255
    <2> SUFFICES ASSUME NEW j \in (d + 1)..l PROVE m[j] \in 0..255 /\ n[j] \in 0..255
      OBVIOUS
    <2>1. j \in 1..Len(m) /\ j \in 1..Len(n)
      BY <1>1, <1>2
    <2>2. QED
      BY ZenonT(40), <1>1, <2>1, ElementOfSeq
  <1>4. /\ s \in Seq(0..255) /\ Len(s) = l - d
        /\ \A j \in 1..(l - d) : s[j] = m[(d + 1) + j - 1]
    <2> DEFINE a == d + 1
    <2>1. a \in Int /\ \A j \in a..l : m[j] \in 0..255
      BY <1>2, <1>3
    <2> HIDE DEF a
    <2>2. /\ SubSeq(m, a, l) \in Seq(0..255)
          /\ Len(SubSeq(m, a, l)) = (IF a <= l THEN l - a + 1 ELSE 0)
          /\ \A j \in 1..(l - a + 1) : SubSeq(m, a, l)[j] = m[a + j - 1]
      BY <1>2, <2>1, SubSeqProperties
    <2>3. l - a + 1 = l - d /\ a <= l
      BY <1>2 DEF a
    <2>4. QED
      BY <2>2, <2>3 DEF a, Between
  <1>5. /\ t \in Seq(0..255) /\ Len(t) = l - d
        /\ \A j \in 1..(l - d) : t[j] = n[(d + 1) + j - 1]
    <2> DEFINE a == d + 1
    <2>1. a \in Int /\ \A j \in a..l : n[j] \in 0..255
      BY <1>2, <1>3
    <2> HIDE DEF a
    <2>2. /\ SubSeq(n, a, l) \in Seq(0..255)
          /\ Len(SubSeq(n, a, l)) = (IF a <= l THEN l - a + 1 ELSE 0)
          /\ \A j \in 1..(l - a + 1) : SubSeq(n, a, l)[j] = n[a + j - 1]
      BY <1>2, <2>1, SubSeqProperties
    <2>3. l - a + 1 = l - d /\ a <= l
      BY <1>2 DEF a
    <2>4. QED
      BY <2>2, <2>3 DEF a, Between
  <1> HIDE DEF s, t
  <1>6. k \in 1..(l - d) /\ (d + 1) + k - 1 = i
        /\ \A j \in 1..(l - d) : (d + 1) + j - 1 \in 1..Len(m)
                                 /\ (j # k => (d + 1) + j - 1 # i)
    BY <1>1
  <1>7. i \in 1..Len(m)
    BY <1>1
  <1> HIDE DEF k
  <1>8. t[k] # s[k]
    <2>1. s[k] = m[i] /\ t[k] = n[i]
      BY <1>4, <1>5, <1>6
    <2>2. QED
      BY <1>7, <2>1 DEF ByteAt
  <1>9. \A j \in 1..(l - d) : j # k => t[j] = s[j]
    <2> SUFFICES ASSUME NEW j \in 1..(l - d), j # k PROVE t[j] = s[j]
      OBVIOUS
    <2> DEFINE y == (d + 1) + j - 1
    <2>1. y \in 1..Len(m) /\ y # i /\ t[j] = n[y] /\ s[j] = m[y]
      BY <1>4, <1>5, <1>6
    <2> HIDE DEF y
    <2>2. QED
      BY <2>1 DEF ByteAt
  <1>10. k \in 1..Len(s) /\ OtherAt(s, t, k)
    BY <1>4, <1>5, <1>6, <1>8, <1>9 DEF OtherAt
  <1>11. XorAll(t) # XorAll(s)
    BY <1>4, <1>5, <1>10, XorChanges
  <1>12. QED
    BY <1>11 DEF s, t

(* Another byte behind the star: another number is read, or the position   *)
(* of the star.                                                            *)
LEMMA SumChanged ==
    ASSUME NEW m, NEW d, NEW l, Sentence(m, d, l), Ends(m, l), NEW n, Sentence(n, d, l),
           NEW i \in (l + 2)..(l + 4), NEW b \in 0..255, FromHex(b) # FromHex(m[i]),
           ByteAt(m, n, i, b), NEW s, s = Given2(m, l),
           \/ FromHex(b) # -1 /\ FromHex(m[i]) # -1
           \/ s >= 16 /\ s # Wrapped(l)
    PROVE  Wrapped(HexAt(n, l + 2, Len(n), l)) # s
  <1> DEFINE x == m[l + 2]
             y == m[l + 3]
             z == m[l + 4]
             u == FromHex(x)
             v == FromHex(y)
             w == FromHex(b)
             r == HexAt(n, l + 2, Len(n), l)
  <1>1. /\ l \in Nat /\ Len(m) = l + 5
        /\ x \in HexBytes /\ y \in HexBytes /\ z = 13
    BY DEF Sentence, Ends
  <1>2. /\ l + 2 \in 1..Len(m) /\ l + 3 \in 1..Len(m) /\ l + 4 \in 1..Len(m)
        /\ i = l + 2 \/ i = l + 3 \/ i = l + 4
        /\ l + 2 # l + 3 /\ l + 2 # l + 4 /\ l + 3 # l + 4
    BY <1>1
  <1>3. /\ n[l + 2] = IF i = l + 2 THEN b ELSE x
        /\ n[l + 3] = IF i = l + 3 THEN b ELSE y
        /\ n[l + 4] = IF i = l + 4 THEN b ELSE z
    BY <1>2 DEF ByteAt
  <1>4. /\ u \in 0..15 /\ v \in 0..15 /\ w \in 0..15 \cup {-1}
        /\ w # -1 <=> b \in HexBytes
        /\ z \notin HexBytes /\ FromHex(z) = -1
        /\ x = 48 => u = 0
    <2>1. \A c \in HexBytes : c \in 0..255
      BY DEF HexBytes
    <2>2. ASSUME NEW c \in HexBytes PROVE FromHex(c) \in 0..15
      BY <2>1, FromHexIs
    <2>3. w \in 0..15 \cup {-1} /\ (w # -1 <=> b \in HexBytes)
      BY FromHexIs
    <2>4. 13 \notin HexBytes /\ FromHex(13) = -1 /\ FromHex(48) = 0
      BY DEF HexBytes, FromHex
    <2>5. u \in 0..15 /\ v \in 0..15
      BY <1>1, <2>2
    <2>6. QED
      BY <1>1, <2>3, <2>4, <2>5
  <1>5. s = 16 * u + v
    BY DEF Given2
  <1>6. /\ n[l + 2] \in HexBytes /\ n[l + 3] \in HexBytes /\ n[l + 4] \notin HexBytes =>
              r = 16 * FromHex(n[l + 2]) + FromHex(n[l + 3])
        /\ n[l + 2] \in HexBytes /\ n[l + 3] \in HexBytes /\ n[l + 4] \in HexBytes =>
              r = 256 * FromHex(n[l + 2]) + 16 * FromHex(n[l + 3]) + FromHex(n[l + 4])
        /\ n[l + 2] \in HexBytes /\ n[l + 3] \notin HexBytes /\ n[l + 2] # 48 =>
              r = FromHex(n[l + 2])
        /\ n[l + 2] \notin HexBytes /\ n[l + 3] \in HexBytes /\ n[l + 4] = 13 =>
              r \in {FromHex(n[l + 3]), -FromHex(n[l + 3]), l}
    <2>1. l \in Nat
      BY <1>1
    <2>2. QED
      BY <2>1, BehindStar DEF Given2
  <1>7. /\ FromHex(b) # FromHex(m[i])
        /\ \/ w # -1 /\ FromHex(m[i]) # -1
           \/ s >= 16 /\ s # Wrapped(l)
    OBVIOUS
  <1> HIDE DEF r
  <1>8. CASE i = l + 2
    <2>1. n[l + 2] = b /\ n[l + 3] = y /\ n[l + 4] = 13 /\ n[l + 4] \notin HexBytes /\ w # u
      BY <1>1, <1>2, <1>3, <1>4, <1>7, <1>8
    <2>2. CASE b \in HexBytes
      <3>1. r = 16 * w + v
        BY <1>1, <1>6, <2>1, <2>2
      <3> HIDE DEF u, v, w
      <3>2. r \in 0..4095 /\ r # s
        BY <1>4, <1>5, <2>1, <2>2, <3>1
      <3>3. Wrapped(r) = r
        <4>1. InUInt(r)
          BY <3>2 DEF InUInt
        <4>2. QED
          BY <4>1, UIntIs
      <3>4. QED
        BY <3>2, <3>3 DEF r
    <2>3. CASE b \notin HexBytes
      <3>1. r \in {v, -v, l}
        BY <1>1, <1>6, <2>1, <2>3
      <3>2. s >= 16 /\ s # Wrapped(l)
        BY <1>4, <1>7, <2>3
      <3> HIDE DEF u, v, w
      <3>3. v \in 0..4095 /\ s \in 0..255
        BY <1>4, <1>5
      <3>4. Wrapped(v) = v /\ (Wrapped(Negated(v)) = 0 \/ Wrapped(Negated(v)) > 255)
        <4>1. Wrapped(v) = v
          <5>1. InUInt(v)
            BY <3>3 DEF InUInt
          <5>2. QED
            BY <5>1, UIntIs
        <4>2. v \in 0..15
          BY <1>4
        <4>3. QED
          BY <4>1, <4>2, NegatedIs
      <3>5. CASE r = l
        BY <3>2, <3>5 DEF r
      <3>6. CASE r = v
        <4>1. v < s
          BY <1>4, <3>2, <3>3
        <4>2. v # s
          BY <1>4, <3>3, <4>1
        <4>3. QED
          BY <3>4, <3>6, <4>2 DEF r
      <3>7. CASE r = -v
        <4>1. Wrapped(Negated(v)) # s
          BY <3>2, <3>3, <3>4
        <4>2. QED
          BY <3>7, <4>1 DEF r, Negated
      <3>8. QED
        BY <3>1, <3>5, <3>6, <3>7
    <2>4. QED
      BY <2>2, <2>3
  <1>9. CASE i = l + 3
    <2>1. n[l + 2] = x /\ n[l + 3] = b /\ n[l + 4] = 13 /\ n[l + 4] \notin HexBytes /\ w # v
      BY <1>1, <1>2, <1>3, <1>4, <1>7, <1>9
    <2>2. CASE b \in HexBytes
      <3>1. r = 16 * u + w
        BY <1>1, <1>6, <2>1, <2>2
      <3> HIDE DEF u, v, w
      <3>2. r \in 0..4095 /\ r # s
        BY <1>4, <1>5, <2>1, <2>2, <3>1
      <3>3. Wrapped(r) = r
        <4>1. InUInt(r)
          BY <3>2 DEF InUInt
        <4>2. QED
          BY <4>1, UIntIs
      <3>4. QED
        BY <3>2, <3>3 DEF r
    <2>3. CASE b \notin HexBytes
      <3>1. s >= 16
        BY <1>4, <1>7, <2>3
      <3>2. x # 48
        <4> HIDE DEF x, v
        <4>1. s = 16 * u + v /\ (x = 48 => u = 0) /\ v \in 0..15
          BY <1>4, <1>5
        <4> HIDE DEF u
        <4>2. u # 0
          BY <3>1, <4>1
        <4>3. QED
          BY <4>1, <4>2
      <3>3. r = u
        BY <1>1, <1>6, <2>1, <2>3, <3>2
      <3> HIDE DEF u, v, w
      <3>4. r \in 0..4095 /\ r # s
        BY <1>4, <3>1, <3>3
      <3>5. Wrapped(r) = r
        <4>1. InUInt(r)
          BY <3>4 DEF InUInt
        <4>2. QED
          BY <4>1, UIntIs
      <3>6. QED
        BY <3>4, <3>5 DEF r
    <2>4. QED
      BY <2>2, <2>3
  <1>10. CASE i = l + 4
    <2>1. n[l + 2] = x /\ n[l + 3] = y /\ n[l + 4] = b /\ w # -1 /\ s >= 16
      BY <1>1, <1>2, <1>3, <1>4, <1>7, <1>10
    <2>2. r = 256 * u + 16 * v + w
      BY <1>1, <1>4, <1>6, <2>1
    <2> HIDE DEF u, v, w
    <2>3. u >= 1
      BY <1>4, <1>5, <2>1
    <2>4. r \in 0..4095 /\ r # s
      BY <1>4, <1>5, <2>1, <2>2, <2>3
    <2>5. Wrapped(r) = r
      <3>1. InUInt(r)
        BY <2>4 DEF InUInt
      <3>2. QED
        BY <3>1, UIntIs
    <2>6. QED
      BY <2>4, <2>5 DEF r
  <1>11. QED
    BY <1>2, <1>8, <1>9, <1>10 DEF r

LEMMA SentenceChecked ==
    ASSUME NEW m, NEW d, NEW l, Sentence(m, d, l), Ends(m, l),
           Given2(m, l) = XorAll(Between(m, d, l))
    PROVE  Checked(m)
  <1> DEFINE s == XorAll(Between(m, d, l))
  <1>1. /\ m \in Seq(0..255) /\ l \in Nat /\ d \in 1..l /\ Len(m) = l + 5
        /\ m[d] = Dollar /\ \A j \in 1..(d - 1) : m[j] # Dollar
        /\ m[l + 1] = Star /\ \A j \in 1..l : m[j] # Star
        /\ m[l + 5] = 10
        /\ m[l + 2] \in HexBytes /\ m[l + 3] \in HexBytes /\ m[l + 4] = 13
    BY DEF Sentence, Ends
  <1>2. s \in 0..255 /\ s = Given2(m, l)
    <2>1. \A c \in HexBytes : c \in 0..255
      BY DEF HexBytes
    <2>2. Between(m, d, l) \in Seq(0..255)
      <3> DEFINE A == 0..255
                 a == d + 1
      <3>1. a \in Int /\ l \in Int /\ \A j \in a..l : j \in 1..Len(m)
        BY <1>1
      <3> HIDE DEF A, a
      <3>2. m \in Seq(A)
        BY <1>1 DEF A
      <3>3. \A j \in a..l : m[j] \in A
        BY <3>1, <3>2, ElementOfSeq
      <3>4. SubSeq(m, a, l) \in Seq(A)
        BY <3>1, <3>3, SubSeqProperties
      <3>5. QED
        BY <3>4 DEF A, a, Between
    <2>3. QED
      BY <2>2, XorDigits
  <1>3. Find(m, Dollar) = d /\ Find(m, Star) = l + 1
    BY SentenceCheck
  <1>4. NmeaCheck(m) = 0
    <2>1. m[l + 4] \notin HexBytes
      <3>1. 13 \notin HexBytes
        BY DEF HexBytes
      <3>2. QED
        BY <1>1, <3>1
    <2>2. HexAt(m, l + 2, Len(m), l) = Given2(m, l)
      BY <1>1, <2>1, BehindStar
    <2> HIDE DEF s
    <2>3. s \in 0..4095
      BY <1>2
    <2>4. Wrapped(s) = s
      <3>1. InUInt(s)
        BY <2>3 DEF InUInt
      <3>2. QED
        BY <3>1, UIntIs
    <2>5. Wrapped(HexAt(m, l + 2, Len(m), l)) = XorAll(Between(m, d, l))
      BY <1>2, <2>2, <2>4 DEF s
    <2>6. QED
      BY <2>5, SentenceCheck DEF Wrapped
  <1>5. ASSUME NEW i \in DOMAIN m, NEW b \in 1..255, b # m[i], Noticed(m, i, b)
        PROVE  Refused(m, i, b)
    <2> DEFINE n == [m EXCEPT ![i] = b]
    <2>1. /\ i \in 1..Len(m) /\ b \in 0..255
          /\ \/ d < i /\ i < l + 1 /\ b # Star
             \/ /\ i \in (l + 2)..(l + 4) /\ FromHex(b) # FromHex(m[i])
                /\ \/ FromHex(b) # -1 /\ FromHex(m[i]) # -1
                   \/ s >= 16 /\ s # Wrapped(l)
      <3>1. i \in 1..Len(m) /\ b \in 0..255
        BY <1>1
      <3>2. /\ (l + 1) - 1 = l /\ (l + 1) + 1 = l + 2 /\ (l + 1) + 3 = l + 4
        BY <1>1
      <3>3. s = XorAll(SubSeq(m, Find(m, Dollar) + 1, Find(m, Star) - 1))
        BY <1>3, <3>2 DEF Between
      <3> HIDE DEF s
      <3>4. QED
        BY <1>3, <1>5, <3>1, <3>2, <3>3 DEF Noticed, Wrapped
    <2>2. i # d /\ i # l + 1 /\ i # l + 5 /\ ~(i \in 1..(d - 1)) /\ (i <= l => b # Star)
      BY <1>1, <2>1
    <2>3. /\ n \in Seq(0..255) /\ Len(n) = l + 5
          /\ \A j \in 1..Len(m) : n[j] = IF j = i THEN b ELSE m[j]
          /\ ByteAt(m, n, i, b)
      BY <1>1, <2>1 DEF ByteAt
    <2> HIDE DEF n
    <2>4. Sentence(n, d, l)
      <3>1. \A j \in 1..(d - 1) : j \in 1..Len(m) /\ j # i
        BY <1>1, <2>2
      <3>2. \A j \in 1..l : j \in 1..Len(m) /\ j <= l
        BY <1>1
      <3>3. d \in 1..Len(m) /\ l + 1 \in 1..Len(m) /\ l + 5 \in 1..Len(m)
        BY <1>1
      <3>4. n[d] = Dollar /\ n[l + 1] = Star /\ n[l + 5] = 10
        BY <1>1, <2>2, <2>3, <3>3
      <3>5. \A j \in 1..(d - 1) : n[j] # Dollar
        BY <1>1, <2>3, <3>1
      <3>6. \A j \in 1..l : n[j] # Star
        BY <1>1, <2>2, <2>3, <3>2
      <3>7. QED
        BY <1>1, <2>3, <3>4, <3>5, <3>6 DEF Sentence
    <2>5. NmeaCheck(n) = IF Wrapped(HexAt(n, l + 2, Len(n), l)) = XorAll(Between(n, d, l))
                         THEN 0 ELSE 1
      BY <2>4, SentenceCheck DEF Wrapped
    <2>6. Wrapped(HexAt(n, l + 2, Len(n), l)) # XorAll(Between(n, d, l))
      <3>1. CASE i <= l
        <4>1. i \in (d + 1)..l
          BY <1>1, <2>1, <3>1
        <4>2. XorAll(Between(n, d, l)) # s
          <5>1. b # m[i]
            BY <1>5
          <5>2. XorAll(Between(n, d, l)) # XorAll(Between(m, d, l))
            BY <2>3, <2>4, <4>1, <5>1, TextChanged
          <5>3. QED
            BY <5>2
        <4>3. HexAt(n, l + 2, Len(n), l) = s
          <5>1. /\ l + 2 \in 1..Len(m) /\ l + 3 \in 1..Len(m) /\ l + 4 \in 1..Len(m)
                /\ l + 2 # i /\ l + 3 # i /\ l + 4 # i
            BY <1>1, <3>1
          <5>2. n[l + 2] = m[l + 2] /\ n[l + 3] = m[l + 3] /\ n[l + 4] = m[l + 4]
            BY <2>3, <5>1
          <5>3. n[l + 4] \notin HexBytes
            <6>1. 13 \notin HexBytes
              BY DEF HexBytes
            <6>2. QED
              BY <1>1, <5>2, <6>1
          <5>4. HexAt(n, l + 2, Len(n), l) = Given2(n, l)
            BY SMTT(30), <1>1, <2>4, <5>2, <5>3, BehindStar
          <5>5. Given2(n, l) = Given2(m, l)
            BY <5>2 DEF Given2
          <5>6. QED
            BY <1>2, <5>4, <5>5
        <4> HIDE DEF s
        <4>4. Wrapped(s) = s
          <5>1. s \in 0..4095
            BY <1>2
            <5>2. InUInt(s)
              BY <5>1 DEF InUInt
            <5>3. QED
              BY <5>2, UIntIs
        <4>5. QED
          BY <4>2, <4>3, <4>4
      <3>2. CASE i > l
        <4>1. /\ i \in (l + 2)..(l + 4) /\ FromHex(b) # FromHex(m[i])
              /\ \/ FromHex(b) # -1 /\ FromHex(m[i]) # -1
                 \/ s >= 16 /\ s # Wrapped(l)
          BY <1>1, <2>1, <3>2
        <4>2. Between(n, d, l) = Between(m, d, l)
          <5> DEFINE a == d + 1
          <5>1. a \in Nat /\ a >= 1 /\ l <= Len(m) /\ l <= Len(n)
                /\ \A j \in a..l : j \in 1..Len(m) /\ j # i
            BY <1>1, <2>3, <3>2
          <5> HIDE DEF a
          <5>2. \A j \in a..l : n[j] = m[j]
            BY <2>3, <5>1
          <5>3. SubSeq(n, a, l) = SubSeq(m, a, l)
            BY <1>1, <2>3, <5>1, <5>2, SamePart
          <5>4. QED
            BY <5>3 DEF a, Between
        <4> HIDE DEF s
        <4>3. Wrapped(HexAt(n, l + 2, Len(n), l)) # s
          <5>1. /\ i \in (l + 2)..(l + 4) /\ b \in 0..255 /\ FromHex(b) # FromHex(m[i])
                /\ \/ FromHex(b) # -1 /\ FromHex(m[i]) # -1
                   \/ s >= 16 /\ s # Wrapped(l)
            BY <2>1, <4>1
          <5>2. /\ Sentence(m, d, l) /\ Ends(m, l) /\ Sentence(n, d, l)
                /\ ByteAt(m, n, i, b) /\ s = Given2(m, l)
            BY <1>2, <2>3, <2>4
          <5>3. QED
            BY ZenonT(30), <5>1, <5>2, SumChanged
        <4>4. QED
          BY <4>2, <4>3 DEF s
      <3>3. QED
        BY <1>1, <2>1, <3>1, <3>2
    <2>7. NmeaCheck(n) = 1
      BY <2>5, <2>6
    <2>8. QED
      BY <2>7 DEF n, Refused
  <1>6. QED
    BY <1>4, <1>5 DEF Checked

(* No time is put into a sentence without a %: it goes out as it is.       *)
LEMMA SentAsIs ==
    ASSUME NEW B \in Seq(1..255), \A i \in 1..Len(B) : B[i] # Percent
    PROVE  Sent(Summed(B, 1)) = Summed(B, 1)
  <1> DEFINE S == 0..255 \ {Percent}
             m == Summed(B, 1)
             dollar == Find(CString(B), Dollar)
             body == SubSeq(B, dollar + 1, Len(B))
             sum == XorSum(body)
             h == HexCode(sum \div 16)
             k == HexCode(sum % 16)
             u == <<Star, h, k>>
  <1>1. B \in Seq(0..255)
    BY WideBytes
  <1>2. dollar \in 1..(Len(B) + 1)
    <2>1. CString(B) \in Seq(0..255) /\ Len(CString(B)) <= Len(B) /\ Len(B) \in Nat
      BY <1>1, CStringIs
    <2>2. dollar \in 1..(Len(CString(B)) + 1)
      BY <2>1, FindIs
    <2>3. Len(CString(B)) \in Nat
      BY <2>1
    <2>4. QED
      BY <2>1, <2>2, <2>3
  <1>3. m = B \/ m = B \o u \o CrLf
    <2>1. 1 # 0
      OBVIOUS
    <2>2. QED
      BY <2>1 DEF Summed
  <1> HIDE DEF dollar
  <1>4. body \in Seq(0..255)
    BY <1>1, <1>2, RestIs
  <1> HIDE DEF body
  <1>5. h \in 48..57 \cup 65..70 /\ k \in 48..57 \cup 65..70
    BY <1>4, XorDigits DEF XorSum
  <1> HIDE DEF h, k, m
  <1>6. u \in Seq(S) /\ CrLf \in Seq(S)
    <2>1. h \in S /\ k \in S /\ Star \in S /\ 13 \in S /\ 10 \in S
      BY <1>5 DEF Star, Percent
    <2> HIDE DEF S
    <2>2. QED
      BY <2>1 DEF CrLf
  <1>7. B \in Seq(S)
    <2> DEFINE l == Len(B)
    <2>1. l \in Nat /\ DOMAIN B = 1..l
      OBVIOUS
    <2>2. \A i \in 1..l : B[i] \in S
      <3> SUFFICES ASSUME NEW i \in 1..l PROVE B[i] \in S
        OBVIOUS
      <3>1. B[i] \in 1..255 /\ B[i] # Percent
        BY ElementOfSeq
      <3> DEFINE b == B[i]
      <3> HIDE DEF b
      <3>2. b \in S
        <4>1. b \in 1..255 /\ b # Percent
          BY <3>1 DEF b
        <4>2. QED
          BY <4>1
      <3>3. QED
        BY <3>2 DEF b
    <2> HIDE DEF l, S
    <2>3. B = [i \in 1..l |-> B[i]]
      BY <2>1
    <2>4. QED
      BY <2>1, <2>2, <2>3
  <1> HIDE DEF u
  <1>8. m \in Seq(S)
    <2> HIDE DEF S
    <2> DEFINE v == CrLf
    <2>1. v \in Seq(S)
      BY <1>6
    <2> HIDE DEF v
    <2>2. B \o u \in Seq(S)
      BY <1>6, <1>7
    <2>3. (B \o u) \o v \in Seq(S)
      BY <2>1, <2>2
    <2>4. QED
      BY <1>3, <1>7, <2>3 DEF v
  <1>9. m \in Seq(0..255)
    BY <1>1, SummedType DEF m
  <1>10. Percent \notin ToSet(CString(m))
    <2> DEFINE c == CString(m)
    <2>1. c \in Seq(0..255) /\ Len(c) <= Len(m) /\ \A i \in 1..Len(c) : c[i] = m[i]
      BY <1>9, CStringIs
    <2> HIDE DEF c
    <2>2. Len(c) \in Nat /\ Len(m) \in Nat /\ DOMAIN c = 1..Len(c)
      BY <1>9, <2>1
    <2>3. \A i \in 1..Len(c) : c[i] # Percent
      <3> SUFFICES ASSUME NEW i \in 1..Len(c) PROVE c[i] # Percent
        OBVIOUS
      <3>1. i \in 1..Len(m)
        BY <2>1, <2>2
      <3>2. m[i] \in S
        <4> HIDE DEF S
        <4>1. QED
          BY <1>8, <3>1, ElementOfSeq
      <3>3. m[i] # Percent
        BY <3>2
      <3>4. QED
        BY <2>1, <3>3
    <2>4. QED
      BY <2>2, <2>3 DEF ToSet, c
  <1>11. QED
    BY <1>10 DEF Sent, m

-----------------------------------------------------------------------------
(* The members of s stand in the text one after the other, from places at. *)
StandsAt(text, p, s) ==
    /\ p \in 1..(Len(text) + 1) /\ p + Len(s) <= Len(text) + 1
    /\ \A j \in 1..Len(s) : text[p + j - 1] = s[j]

Placed(s, text, at) ==
    /\ at[1] = 1 /\ at[Len(s) + 1] = Len(text) + 1
    /\ \A k \in 1..(Len(s) + 1) : at[k] \in Nat \ {0} /\ at[k] <= Len(text) + 1
    /\ \A k \in 1..Len(s) : at[k + 1] = at[k] + Len(s[k]) /\ StandsAt(text, at[k], s[k])

LEMMA StandsLonger ==
    ASSUME NEW S, NEW a \in Seq(S), NEW b \in Seq(S), NEW p, NEW s, Len(s) \in Nat,
           StandsAt(a, p, s)
    PROVE  StandsAt(a \o b, p, s)
  <1> DEFINE c == a \o b
  <1>1. /\ Len(a) \in Nat /\ Len(b) \in Nat /\ Len(c) = Len(a) + Len(b)
        /\ \A i \in 1..(Len(a) + Len(b)) : c[i] = IF i <= Len(a) THEN a[i] ELSE b[i - Len(a)]
    BY ConcatProperties, LenProperties
  <1> HIDE DEF c
  <1>2. /\ p \in 1..(Len(a) + 1) /\ p + Len(s) <= Len(a) + 1
        /\ \A j \in 1..Len(s) : a[p + j - 1] = s[j]
    BY DEF StandsAt
  <1>3. ASSUME NEW j \in 1..Len(s) PROVE c[p + j - 1] = s[j]
    <2> DEFINE k == p + j - 1
    <2>1. k \in 1..(Len(a) + Len(b)) /\ k <= Len(a) /\ a[k] = s[j]
      BY <1>1, <1>2
    <2> HIDE DEF k
    <2>2. c[k] = s[j]
      BY <1>1, <2>1
    <2>3. QED
      BY <2>2 DEF k
  <1>4. p \in 1..(Len(c) + 1) /\ p + Len(s) <= Len(c) + 1
    BY <1>1, <1>2
  <1>5. QED
    BY <1>3, <1>4 DEF StandsAt, c

LEMMA StandsBehind ==
    ASSUME NEW S, NEW a \in Seq(S), NEW b \in Seq(S)
    PROVE  StandsAt(a \o b, Len(a) + 1, b)
  <1> DEFINE c == a \o b
  <1>1. /\ Len(a) \in Nat /\ Len(b) \in Nat /\ Len(c) = Len(a) + Len(b)
        /\ \A i \in 1..(Len(a) + Len(b)) : c[i] = IF i <= Len(a) THEN a[i] ELSE b[i - Len(a)]
    BY ConcatProperties, LenProperties
  <1> HIDE DEF c
  <1>2. ASSUME NEW j \in 1..Len(b) PROVE c[(Len(a) + 1) + j - 1] = b[j]
    <2> DEFINE k == (Len(a) + 1) + j - 1
    <2>1. k \in 1..(Len(a) + Len(b)) /\ ~(k <= Len(a)) /\ k - Len(a) = j
      BY <1>1
    <2> HIDE DEF k
    <2>2. c[k] = b[j]
      BY <1>1, <2>1
    <2>3. QED
      BY <2>2 DEF k
  <1>3. Len(a) + 1 \in 1..(Len(c) + 1) /\ (Len(a) + 1) + Len(b) <= Len(c) + 1
    BY <1>1
  <1>4. QED
    BY <1>2, <1>3 DEF StandsAt, c

LEMMA FlattenPlaced ==
    ASSUME NEW S, NEW s \in Seq(Seq(S))
    PROVE  \E at : Placed(s, FlattenSeq(s), at)
  <1> DEFINE OK(t) == \E at : Placed(t, FlattenSeq(t), at)
             T == {n \in Nat : \A t \in Seq(Seq(S)) : Len(t) = n => OK(t)}
  <1>1. 0 \in T
    <2> SUFFICES ASSUME NEW t \in Seq(Seq(S)), Len(t) = 0 PROVE OK(t)
      OBVIOUS
    <2>1. t = <<>>
      BY EmptySeq
    <2>2. FlattenSeq(t) = <<>> /\ Len(t) = 0
      BY <2>1, FlattenEmpty
    <2> DEFINE F == FlattenSeq(t)
               at == [k \in {1} |-> 1]
    <2>3. Len(F) = 0 /\ at[1] = 1
      BY <2>2
    <2> HIDE DEF F, at
    <2>4. Placed(t, F, at)
      BY <2>2, <2>3 DEF Placed
    <2>5. QED
      BY <2>4 DEF F
  <1>2. ASSUME NEW n \in Nat, n \in T PROVE n + 1 \in T
    <2> SUFFICES ASSUME NEW s2 \in Seq(Seq(S)), Len(s2) = n + 1 PROVE OK(s2)
      OBVIOUS
    <2> DEFINE V == Seq(S)
    <2>1. PICK t \in Seq(V), x \in V : s2 = Append(t, x) /\ Len(t) = n
      <3>1. s2 \in Seq(V)
        OBVIOUS
      <3> HIDE DEF V
      <3>2. QED
        BY <3>1, LastMember
    <2>2. OK(t) /\ t \in Seq(Seq(S)) /\ x \in Seq(S)
      BY <1>2, <2>1
    <2> DEFINE F == FlattenSeq(t)
               G == FlattenSeq(s2)
    <2>3. G = F \o x /\ F \in Seq(S)
      BY <2>1, <2>2, FlattenAppend, FlattenType
    <2>4. PICK at : Placed(t, F, at)
      BY <2>2
    <2>5. /\ \A i \in 1..n : s2[i] = t[i] /\ Len(t[i]) \in Nat
          /\ s2[n + 1] = x /\ Len(x) \in Nat
      <3>1. \A i \in 1..Len(t) : Append(t, x)[i] = t[i]
        BY <2>1, <2>2, AppendProperties
      <3>2. Append(t, x)[Len(t) + 1] = x
        BY <2>1, <2>2, AppendProperties
      <3>3. \A i \in 1..n : t[i] \in Seq(S)
        BY <2>1, <2>2, ElementOfSeq
      <3>4. QED
        BY <2>1, <2>2, <3>1, <3>2, <3>3, LenProperties
    <2>6. Len(F) \in Nat /\ Len(G) = Len(F) + Len(x)
      BY <2>2, <2>3, ConcatProperties, LenProperties
    <2> DEFINE at2 == [k \in 1..(n + 2) |-> IF k <= n + 1 THEN at[k] ELSE Len(G) + 1]
    <2>7. /\ \A k \in 1..(n + 1) : at2[k] = at[k]
          /\ at2[n + 2] = Len(G) + 1
      OBVIOUS
    <2>8. \A k \in 1..n : StandsAt(F, at[k], t[k]) /\ at[k + 1] = at[k] + Len(t[k])
      BY <2>1, <2>4 DEF Placed
    <2>9. \A k \in 1..n : StandsAt(G, at[k], s2[k])
      <3> HIDE DEF F, G
      <3> QED BY <2>2, <2>3, <2>5, <2>8, StandsLonger
    <2>10. at[n + 1] = Len(F) + 1 /\ at[1] = 1
      BY <2>1, <2>4 DEF Placed
    <2>11. StandsAt(G, at[n + 1], s2[n + 1])
      <3>1. StandsAt(G, Len(F) + 1, x)
        <4> HIDE DEF F, G
        <4> QED BY <2>2, <2>3, StandsBehind
      <3>2. QED
        BY <2>5, <2>10, <3>1
    <2>12. \A k \in 1..(n + 1) : at[k] \in Nat \ {0} /\ at[k] <= Len(F) + 1
      BY <2>1, <2>4 DEF Placed
    <2> HIDE DEF at2, F, G
    <2>13. \A k \in 1..(n + 1) : at2[k + 1] = at2[k] + Len(s2[k]) /\ StandsAt(G, at2[k], s2[k])
      <3> SUFFICES ASSUME NEW k \in 1..(n + 1)
                   PROVE  at2[k + 1] = at2[k] + Len(s2[k]) /\ StandsAt(G, at2[k], s2[k])
        OBVIOUS
      <3>1. CASE k = n + 1
        <4>1. k + 1 = n + 2
          BY <3>1
        <4>2. QED
          BY <2>5, <2>6, <2>7, <2>10, <2>11, <3>1, <4>1
      <3>2. CASE k # n + 1
        <4>1. k \in 1..n /\ k + 1 \in 1..(n + 1)
          BY <3>2
        <4>2. QED
          BY <2>5, <2>7, <2>8, <2>9, <4>1
      <3>3. QED
        BY <3>1, <3>2
    <2>14. \A k \in 1..(n + 2) : at2[k] \in Nat \ {0} /\ at2[k] <= Len(G) + 1
      <3>1. \A k \in 1..(n + 2) : k \in 1..(n + 1) \/ k = n + 2
        OBVIOUS
      <3>2. \A k \in 1..(n + 1) : at2[k] \in Nat \ {0} /\ at2[k] <= Len(G) + 1
        <4> SUFFICES ASSUME NEW k \in 1..(n + 1)
                     PROVE  at2[k] \in Nat \ {0} /\ at2[k] <= Len(G) + 1
          OBVIOUS
        <4>1. at2[k] = at[k] /\ at[k] \in Nat \ {0} /\ at[k] <= Len(F) + 1
          BY <2>7, <2>12
        <4>2. Len(x) \in Nat
          BY <2>5
        <4>3. QED
          BY <2>6, <4>1, <4>2
      <3>3. QED
        BY <2>5, <2>6, <2>7, <3>1, <3>2
    <2>15. at2[1] = 1
      BY <2>7, <2>10
    <2>16. (n + 1) + 1 = n + 2
      OBVIOUS
    <2>17. Placed(s2, G, at2)
      BY <2>7, <2>13, <2>14, <2>15, <2>16 DEF Placed
    <2>18. QED
      BY <2>17 DEF G
  <1> HIDE DEF T
  <1>3. Nat \subseteq T
    BY <1>1, <1>2, SetInduction
  <1>4. Len(s) \in T
    BY <1>3, LenProperties
  <1>5. QED
    BY <1>4 DEF T

-----------------------------------------------------------------------------
(* What an escape stands for is what it was written for.                   *)
Closing(quoted) == IF quoted THEN Quote ELSE " "

LEMMA EscapedIs ==
    ASSUME NEW c, NEW quoted \in BOOLEAN, NEW e, e = Escaped(c, quoted)
    PROVE  \/ /\ Len(e) = 1 /\ e[1] = c /\ c # Closing(quoted) /\ c # Backslash /\ c # Quote
           \/ /\ Len(e) = 2 /\ e[1] = Backslash /\ Unescaped(e[2]) = c
              /\ Backslash # Closing(quoted)
  <1>0. Backslash # Closing(quoted)
    BY DEF Backslash, Closing, Quote
  <1>1. CASE c = "\n"
    <2>1. e = <<Backslash, "n">>
      BY <1>1 DEF Escaped, Quote, Backslash
    <2>2. Unescaped("n") = c
      BY <1>1 DEF Unescaped
    <2>3. QED
      BY <1>0, <2>1, <2>2
  <1>2. CASE c # "\n" /\ (c \in {Quote, Backslash} \/ (c = " " /\ ~quoted))
    <2>1. e = <<Backslash, c>>
      BY <1>2 DEF Escaped
    <2>2. Unescaped(c) = c
      BY <1>2 DEF Unescaped, Quote, Backslash
    <2>3. QED
      BY <1>0, <2>1, <2>2
  <1>3. CASE c # "\n" /\ ~(c \in {Quote, Backslash} \/ (c = " " /\ ~quoted))
    <2>1. e = <<c>>
      BY <1>3 DEF Escaped
    <2>2. c # Closing(quoted) /\ c # Backslash /\ c # Quote
      BY <1>3 DEF Closing
    <2>3. QED
      BY <2>1, <2>2
  <1>4. QED
    BY <1>1, <1>2, <1>3

-----------------------------------------------------------------------------
Inner(word, quoted) == FlattenSeq([i \in DOMAIN word |-> Escaped(word[i], quoted)])

LEMMA RestOfWord ==
    ASSUME NEW S, NEW word \in Seq(S), NEW i \in 1..Len(word)
    PROVE  /\ <<word[i]>> \o SubSeq(word, i + 1, Len(word)) = SubSeq(word, i, Len(word))
           /\ SubSeq(word, 1, Len(word)) = word
  <1> DEFINE n == Len(word)
             j == i + 1
             a == SubSeq(word, j, n)
             b == SubSeq(word, i, n)
             c == <<word[i]>>
             w == SubSeq(word, 1, n)
  <1>1. n \in Nat /\ i \in Int /\ j \in Int /\ i <= n /\ j = i + 1 /\ i >= 1
    BY LenProperties
  <1>2. \A k \in 1..n : word[k] \in S
    BY ElementOfSeq
  <1> HIDE DEF n, j
  <1>3. /\ a \in Seq(S) /\ Len(a) = n - i /\ \A k \in 1..(n - i) : a[k] = word[i + k]
    <2>1. \A k \in j..n : word[k] \in S
      BY <1>1, <1>2
    <2>2. /\ a \in Seq(S) /\ Len(a) = (IF j <= n THEN n - j + 1 ELSE 0)
          /\ \A k \in 1..(n - j + 1) : a[k] = word[j + k - 1]
      BY <1>1, <2>1, SubSeqProperties
    <2> HIDE DEF a
    <2>3. Len(a) = n - i
      BY <1>1, <2>2
    <2>4. ASSUME NEW k \in 1..(n - i) PROVE a[k] = word[i + k]
      <3>1. k \in 1..(n - j + 1) /\ j + k - 1 = i + k
        BY <1>1
      <3>2. a[k] = word[j + k - 1]
        BY <2>2, <3>1
      <3>3. QED
        BY <3>1, <3>2
    <2>5. QED
      BY <2>2, <2>3, <2>4
  <1>4. /\ b \in Seq(S) /\ Len(b) = n - i + 1 /\ \A k \in 1..(n - i + 1) : b[k] = word[i + k - 1]
    <2>1. \A k \in i..n : word[k] \in S
      BY <1>1, <1>2
    <2>2. /\ b \in Seq(S) /\ Len(b) = (IF i <= n THEN n - i + 1 ELSE 0)
          /\ \A k \in 1..(n - i + 1) : b[k] = word[i + k - 1]
      BY <1>1, <2>1, SubSeqProperties
    <2> HIDE DEF b
    <2>3. QED
      BY <1>1, <2>2
  <1>5. c \in Seq(S) /\ Len(c) = 1 /\ c[1] = word[i]
    <2>1. word[i] \in S
      BY <1>1, <1>2
    <2>2. QED
      BY <2>1
  <1> HIDE DEF a, b, c
  <1>6. c \o a = b
    <2> DEFINE d == c \o a
    <2>1. /\ d \in Seq(S) /\ Len(d) = Len(c) + Len(a)
          /\ \A k \in 1..(Len(c) + Len(a)) : d[k] = IF k <= Len(c) THEN c[k] ELSE a[k - Len(c)]
      BY <1>3, <1>5, ConcatProperties
    <2> HIDE DEF d
    <2>2. Len(d) = Len(b)
      BY <1>1, <1>3, <1>4, <1>5, <2>1
    <2>3. ASSUME NEW k \in 1..Len(d) PROVE d[k] = b[k]
      <3>1. k \in 1..(n - i + 1) /\ k \in 1..(Len(c) + Len(a))
        BY <1>3, <1>4, <2>1, <2>2
      <3>2. CASE k = 1
        <4>1. d[k] = c[k]
          BY <1>5, <2>1, <3>1, <3>2
        <4>2. b[k] = word[i + k - 1] /\ i + k - 1 = i
          BY <1>1, <1>4, <3>1, <3>2
        <4>3. QED
          BY <1>5, <3>2, <4>1, <4>2
      <3>3. CASE k # 1
        <4>1. d[k] = a[k - 1] /\ k - 1 \in 1..(n - i) /\ i + (k - 1) = i + k - 1
          BY <1>1, <1>5, <2>1, <3>1, <3>3
        <4> DEFINE h == k - 1
        <4> HIDE DEF h
        <4>2. a[h] = word[i + h] /\ i + h = i + k - 1
          BY <1>3, <4>1 DEF h
        <4>3. b[k] = word[i + k - 1]
          BY <1>4, <3>1
        <4>4. QED
          BY <4>1, <4>2, <4>3 DEF h
      <3>4. QED
        BY <3>2, <3>3
    <2>4. d = b
      BY <1>4, <2>1, <2>2, <2>3, SeqEqual
    <2>5. QED
      BY <2>4 DEF d
  <1>7. w = word
    <2>1. \A k \in 1..n : word[k] \in S
      BY <1>2
    <2> DEFINE one == 1
    <2>2. one \in Int /\ one = 1
      OBVIOUS
    <2> HIDE DEF one
    <2>3. /\ SubSeq(word, one, n) \in Seq(S)
          /\ Len(SubSeq(word, one, n)) = (IF one <= n THEN n - one + 1 ELSE 0)
          /\ \A k \in 1..(n - one + 1) : SubSeq(word, one, n)[k] = word[one + k - 1]
      BY <1>1, <2>1, <2>2, SubSeqProperties
    <2>4. w = SubSeq(word, one, n)
      BY <2>2
    <2> HIDE DEF w
    <2>5. Len(w) = Len(word) /\ \A k \in 1..Len(w) : w[k] = word[k]
      <3>1. Len(w) = n
        BY <1>1, <2>2, <2>3, <2>4
      <3>2. ASSUME NEW k \in 1..n PROVE w[k] = word[k]
        <4>1. k \in 1..(n - one + 1) /\ one + k - 1 = k
          BY <1>1, <2>2
        <4>2. w[k] = word[one + k - 1]
          BY <2>3, <2>4, <4>1
        <4>3. QED
          BY <4>1, <4>2
      <3>3. QED
        BY <3>1, <3>2 DEF n
    <2>6. QED
      BY <2>3, <2>4, <2>5, SeqEqual
  <1>8. QED
    BY <1>6, <1>7 DEF a, b, c, w, n, j

Scanned(o, z) == [out |-> o, stop |-> z]

LEMMA ScannedMore ==
    ASSUME NEW o, NEW z, NEW c, NEW r, r = Scanned(o, z),
           NEW x, x = [r EXCEPT !.out = <<c>> \o @]
    PROVE  x = Scanned(<<c>> \o o, z)
  <1> DEFINE y == <<c>> \o o
  <1>1. r.out = o /\ <<c>> \o r.out = y
    BY DEF Scanned
  <1>2. r = [out |-> o, stop |-> z] /\ Scanned(y, z) = [out |-> y, stop |-> z]
    BY DEF Scanned
  <1>3. [r EXCEPT !.out = <<c>> \o @] = [r EXCEPT !.out = y]
    <2> HIDE DEF y
    <2> QED BY <1>1
  <1> HIDE DEF y
  <1>4. [r EXCEPT !.out = y] = Scanned(y, z)
    BY <1>2
  <1>5. QED
    BY <1>3, <1>4 DEF y

(* A word and the pieces it is written in.                                 *)
LEMMA InnerIs ==
    ASSUME NEW word, NEW S, word \in Seq(S), NEW quoted \in BOOLEAN
    PROVE  \E at : LET e == [i \in DOMAIN word |-> Escaped(word[i], quoted)]
                   IN  /\ Placed(e, Inner(word, quoted), at) /\ Len(e) = Len(word)
                       /\ \A i \in 1..Len(word) : e[i] = Escaped(word[i], quoted)
                       /\ \E V : Inner(word, quoted) \in Seq(V)
  <1> DEFINE n == Len(word)
             e == [i \in DOMAIN word |-> Escaped(word[i], quoted)]
             W == {word[i] : i \in 1..n} \cup {Backslash, "n"}
  <1>1. n \in Nat /\ DOMAIN word = 1..n
    BY LenProperties
  <1>2. Len(e) = n /\ \A i \in 1..n : e[i] = Escaped(word[i], quoted)
    BY <1>1
  <1>3. \A i \in 1..n : Escaped(word[i], quoted) \in Seq(W)
    <2> SUFFICES ASSUME NEW i \in 1..n PROVE Escaped(word[i], quoted) \in Seq(W)
      OBVIOUS
    <2> DEFINE c == word[i]
    <2>1. c \in W /\ Backslash \in W /\ "n" \in W
      OBVIOUS
    <2> HIDE DEF c, W
    <2>2. <<Backslash, "n">> \in Seq(W) /\ <<Backslash, c>> \in Seq(W) /\ <<c>> \in Seq(W)
      BY <2>1
    <2>3. Escaped(c, quoted) \in {<<Backslash, "n">>, <<Backslash, c>>, <<c>>}
      BY DEF Escaped
    <2>4. QED
      BY <2>2, <2>3 DEF c
  <1>4. e \in Seq(Seq(W))
    <2> DEFINE V == Seq(W)
    <2>1. \A i \in 1..n : Escaped(word[i], quoted) \in V
      BY <1>3
    <2> HIDE DEF V, n
    <2>2. e \in Seq(V)
      BY <1>1, <2>1
    <2>3. QED
      BY <2>2 DEF V
  <1> HIDE DEF e, W
  <1>5. PICK at : Placed(e, FlattenSeq(e), at)
    BY <1>4, FlattenPlaced
  <1>6. FlattenSeq(e) \in Seq(W)
    BY <1>4, FlattenType
  <1>7. Inner(word, quoted) = FlattenSeq(e)
    BY DEF Inner, e
  <1>8. QED
    BY <1>2, <1>5, <1>6, <1>7 DEF e

-----------------------------------------------------------------------------
(* What was written for a word is scanned as the word, up to what closes   *)
(* it or the end of the line.                                              *)
LEMMA ScanWritten ==
    ASSUME NEW S, NEW word \in Seq(S), NEW quoted \in BOOLEAN,
           NEW text, Len(text) \in Nat, NEW p, NEW z, z = p + Len(Inner(word, quoted)),
           StandsAt(text, p, Inner(word, quoted)),
           z = Len(text) + 1 \/ text[z] = Closing(quoted)
    PROVE  Scan(text, p, Closing(quoted)) = Scanned(word, z)
  <1> DEFINE n == Len(word)
             L == Len(text)
             e == [i \in DOMAIN word |-> Escaped(word[i], quoted)]
             F == Inner(word, quoted)
             closing == Closing(quoted)
             Rest(i) == SubSeq(word, i, n)
  <1>1. PICK at : /\ Placed(e, F, at) /\ Len(e) = n
                  /\ \A i \in 1..n : e[i] = Escaped(word[i], quoted)
                  /\ \E V : F \in Seq(V)
    BY InnerIs
  <1>2. n \in Nat /\ L \in Nat /\ Len(F) \in Nat
    BY <1>1, LenProperties
  <1> HIDE DEF e, F, n, L
  <1>3. /\ p \in 1..(L + 1) /\ z \in 1..(L + 1) /\ z = p + Len(F)
        /\ \A j \in 1..Len(F) : text[p + j - 1] = F[j]
    BY <1>2 DEF StandsAt, F, L
  <1>4. /\ at[1] = 1 /\ at[n + 1] = Len(F) + 1
        /\ \A i \in 1..(n + 1) : at[i] \in Nat \ {0} /\ at[i] <= Len(F) + 1
        /\ \A i \in 1..n : at[i + 1] = at[i] + Len(e[i]) /\ StandsAt(F, at[i], e[i])
    BY <1>1 DEF Placed
  <1>5. PICK f : /\ Scan(text, p, closing) = f[p]
                 /\ \A i \in p..(L + 1) : f[i] = ScanFrom(f, text, closing, i)
    <2>1. p \in 1..(Len(text) + 1)
      BY <1>3 DEF L
    <2> HIDE DEF closing
    <2>2. \E f : /\ Scan(text, p, closing) = f[p]
                 /\ \A i \in p..(Len(text) + 1) : f[i] = ScanFrom(f, text, closing, i)
      BY <2>1, ScanIs
    <2>3. QED
      BY <2>2 DEF L
  <1>0. p \in Nat /\ z \in Nat /\ L \in Nat /\ Len(F) \in Nat /\ p >= 1 /\ z <= L + 1 /\ z = p + Len(F)
    BY <1>2, <1>3
  <1> DEFINE T == {i \in 1..(n + 1) : f[p + at[i] - 1] = Scanned(Rest(i), z)}
  <1>6. ASSUME NEW i \in 1..(n + 1), \A j \in 1..(n + 1) : j > i => j \in T
        PROVE  i \in T
    <2> DEFINE P == p + at[i] - 1
    <2>1. P \in p..(L + 1) /\ at[i] \in Nat \ {0} /\ P = p + at[i] - 1
      <3>1. at[i] \in Nat \ {0} /\ at[i] <= Len(F) + 1
        BY <1>4
      <3>2. QED
        BY SMTT(30), <1>0, <3>1
    <2> HIDE DEF P
    <2>2. f[P] = ScanFrom(f, text, closing, P)
      BY <1>5, <2>1
    <2>3. CASE i = n + 1
      <3>1. P = z
        BY SMTT(30), <1>2, <1>3, <1>4, <2>1, <2>3
      <3>2. P > L \/ text[P] = closing
        BY <1>2, <3>1 DEF L
      <3>3. f[P] = Scanned(<<>>, P)
        BY <2>2, <3>2 DEF ScanFrom, Scanned, L
      <3>4. Rest(i) = <<>>
        BY <1>2, <2>3, SubSeqEmpty
      <3> HIDE DEF Rest
      <3>5. QED
        BY <2>1, <3>1, <3>3, <3>4
    <2>4. CASE i # n + 1
      <3> DEFINE c == word[i]
                 ei == e[i]
                 k == i + 1
      <3>1. i \in 1..n /\ k \in 1..(n + 1) /\ k > i
        BY <1>2, <2>4
      <3>2. ei = Escaped(c, quoted)
        BY <1>1, <3>1
      <3>3. k \in T
        BY <1>6, <3>1
      <3>4. at[k] = at[i] + Len(ei) /\ StandsAt(F, at[i], ei)
        BY <1>4, <3>1
      <3>5. Rest(i) = <<c>> \o Rest(k)
        BY <3>1, RestOfWord DEF n
      <3>6. f[p + at[k] - 1] = Scanned(Rest(k), z)
        BY <3>3
      <3> HIDE DEF Rest, T, c, k, ei
      <3>7. \A j \in 1..Len(ei) : text[P + j - 1] = ei[j] /\ P + j - 1 <= L
        <4> SUFFICES ASSUME NEW j \in 1..Len(ei) PROVE text[P + j - 1] = ei[j] /\ P + j - 1 <= L
          OBVIOUS
        <4> DEFINE h == at[i] + j - 1
        <4>1. F[h] = ei[j] /\ at[i] + Len(ei) <= Len(F) + 1
          BY <3>4 DEF StandsAt
        <4>2. Len(ei) \in Nat
          BY <3>2, EscapedIs
        <4>3. h \in 1..Len(F) /\ p + h - 1 = P + j - 1
          <5> DEFINE m == Len(F)
                     o == Len(ei)
                     a == at[i]
          <5>1. /\ a \in Nat \ {0} /\ m \in Nat /\ o \in Nat /\ j \in 1..o
                /\ a + o <= m + 1 /\ p \in Nat /\ P = p + a - 1
            BY <1>0, <2>1, <4>1, <4>2
          <5> HIDE DEF m, o, a
          <5>2. a + j - 1 \in 1..m /\ p + (a + j - 1) - 1 = P + j - 1
            BY ONLY <5>1
          <5>3. QED
            BY <5>2 DEF m, a
        <4> HIDE DEF h
        <4>4. text[p + h - 1] = F[h]
          BY <1>3, <4>3
        <4>5. p + h - 1 <= L
          BY <1>2, <1>3, <4>3
        <4>6. QED
          BY <4>1, <4>3, <4>4, <4>5 DEF h
      <3>8. \/ /\ Len(ei) = 1 /\ ei[1] = c /\ c # closing /\ c # Backslash
            \/ /\ Len(ei) = 2 /\ ei[1] = Backslash /\ Unescaped(ei[2]) = c
               /\ Backslash # closing
        BY <3>2, EscapedIs
      <3> HIDE DEF closing
      <3>9. CASE Len(ei) = 1
        <4>1. ei[1] = c /\ c # closing /\ c # Backslash
          BY <3>8, <3>9
        <4>2. text[P] = c /\ P <= L
          <5>1. text[P + 1 - 1] = ei[1] /\ P + 1 - 1 <= L
            BY <3>7, <3>9
          <5>2. P + 1 - 1 = P
            BY <2>1
          <5>3. QED
            BY <4>1, <5>1, <5>2
        <4>3. P + 1 = p + at[k] - 1
          BY SMTT(30), <1>0, <2>1, <3>4, <3>9
        <4>4. f[P + 1] = Scanned(Rest(k), z)
          BY <3>6, <4>3
        <4>5. ~(P > L)
          BY <1>2, <1>3, <2>1, <4>2
        <4>6. f[P] = [f[P + 1] EXCEPT !.out = <<c>> \o @]
          BY <2>2, <4>1, <4>2, <4>5 DEF ScanFrom, L
        <4>7. f[P] = Scanned(<<c>> \o Rest(k), z)
          <5> DEFINE r == f[P + 1]
                     x == f[P]
                     o == Rest(k)
          <5>1. r = Scanned(o, z) /\ x = [r EXCEPT !.out = <<c>> \o @]
            BY <4>4, <4>6
          <5> HIDE DEF r, x, o
          <5>2. x = Scanned(<<c>> \o o, z)
            BY <5>1, ScannedMore
          <5>3. QED
            BY <5>2 DEF x, o
        <4>8. QED
          BY <2>1, <3>5, <4>7 DEF T
      <3>10. CASE Len(ei) = 2
        <4>1. ei[1] = Backslash /\ Unescaped(ei[2]) = c /\ Backslash # closing
          BY <3>8, <3>10
        <4>2. /\ text[P] = Backslash /\ text[P + 1] = ei[2] /\ P + 1 <= L
          <5>1. /\ text[P + 1 - 1] = ei[1] /\ text[P + 2 - 1] = ei[2] /\ P + 2 - 1 <= L
            BY <3>7, <3>10
          <5>2. P + 1 - 1 = P /\ P + 2 - 1 = P + 1
            BY <2>1
          <5>3. QED
            BY <4>1, <5>1, <5>2
        <4>3. P + 2 = p + at[k] - 1
          BY SMTT(30), <1>0, <2>1, <3>4, <3>10
        <4>4. f[P + 2] = Scanned(Rest(k), z)
          BY <3>6, <4>3
        <4>5. ~(P > L) /\ P # L
          <5>1. P \in Int /\ L \in Int /\ P + 1 <= L
            BY <1>0, <2>1, <4>2
          <5>2. P < L
            BY <5>1
          <5>3. QED
            BY <5>1, <5>2
        <4>6. f[P] = [f[P + 2] EXCEPT !.out = <<c>> \o @]
          BY <2>2, <4>1, <4>2, <4>5 DEF ScanFrom, L
        <4>7. f[P] = Scanned(<<c>> \o Rest(k), z)
          <5> DEFINE r == f[P + 2]
                     x == f[P]
                     o == Rest(k)
          <5>1. r = Scanned(o, z) /\ x = [r EXCEPT !.out = <<c>> \o @]
            BY <4>4, <4>6
          <5> HIDE DEF r, x, o
          <5>2. x = Scanned(<<c>> \o o, z)
            BY <5>1, ScannedMore
          <5>3. QED
            BY <5>2 DEF x, o
        <4>8. QED
          BY <2>1, <3>5, <4>7 DEF T
      <3>11. QED
        BY <3>8, <3>9, <3>10
    <2>5. QED
      BY <2>3, <2>4
  <1> HIDE DEF T
  <1>7. 1..(n + 1) \subseteq T
    <2>1. n + 1 \in Nat
      BY <1>2
    <2>2. Downward(n + 1, T)
      BY <1>6 DEF Downward
    <2>3. QED
      BY <2>1, <2>2, DownInduction
  <1>8. 1 \in T
    BY <1>2, <1>7
  <1>9. f[p + at[1] - 1] = Scanned(Rest(1), z)
    BY <1>8 DEF T
  <1>10. p + at[1] - 1 = p
    BY <1>2, <1>3, <1>4
  <1>11. Rest(1) = word
    <2>1. CASE n = 0
      <3>1. word = <<>>
        BY <2>1, EmptySeq DEF n
      <3>2. SubSeq(word, 1, n) = <<>>
        BY <2>1, SubSeqEmpty
      <3>3. QED
        BY <3>1, <3>2
    <2>2. CASE n # 0
      <3>1. 1 \in 1..n
        BY <1>2, <2>2
      <3>2. QED
        BY <3>1, RestOfWord DEF n
    <2>3. QED
      BY <2>1, <2>2
  <1> HIDE DEF Rest
  <1>12. QED
    BY <1>5, <1>9, <1>10, <1>11

-----------------------------------------------------------------------------
LEMMA SkipStays ==
    ASSUME NEW text, Len(text) \in Nat, NEW from \in 1..(Len(text) + 1),
           from <= Len(text) => text[from] \notin Blank
    PROVE  Skip(text, from) = from
  <1>1. /\ Skip(text, from) \in from..(Len(text) + 1)
        /\ \A i \in from..Len(text) : text[i] \notin Blank => Skip(text, from) <= i
    BY SkipOver
  <1>2. CASE from = Len(text) + 1
    BY <1>1, <1>2
  <1>3. CASE from # Len(text) + 1
    <2>1. from \in from..Len(text) /\ from <= Len(text)
      BY <1>3
    <2>2. Skip(text, from) <= from
      BY <1>1, <2>1
    <2>3. QED
      BY <1>1, <2>2
  <1>4. QED
    BY <1>2, <1>3

LEMMA SkipOne ==
    ASSUME NEW text, Len(text) \in Nat, NEW from \in 1..Len(text), text[from] \in Blank,
           from + 1 <= Len(text) => text[from + 1] \notin Blank
    PROVE  Skip(text, from) = from + 1
  <1> DEFINE k == from + 1
  <1>1. /\ Skip(text, from) \in from..(Len(text) + 1)
        /\ Skip(text, from) <= Len(text) => text[Skip(text, from)] \notin Blank
        /\ \A i \in from..Len(text) : text[i] \notin Blank => Skip(text, from) <= i
    BY SkipOver
  <1> DEFINE s == Skip(text, from)
  <1> HIDE DEF s
  <1>2. s \in from..(Len(text) + 1) /\ s # from
    BY <1>1 DEF s
  <1>3. CASE from = Len(text)
    BY <1>2, <1>3 DEF s
  <1>4. CASE from # Len(text)
    <2>1. k \in from..Len(text) /\ k <= Len(text) /\ k = from + 1
      BY <1>4
    <2>2. text[k] \notin Blank
      BY <2>1
    <2> HIDE DEF k
    <2>3. s <= k
      BY <1>1, <2>1, <2>2 DEF s
    <2>4. s = k
      BY <1>2, <2>1, <2>3
    <2>5. QED
      BY <2>1, <2>4 DEF s
  <1>5. QED
    BY <1>3, <1>4

(* The first character of what is written is no blank, and it is a quote   *)
(* only where a quote opens the word.                                      *)
Layout(W, F, quoted) ==
    /\ Len(F) \in Nat /\ Len(W) \in Nat \ {0} /\ W[1] \notin Blank
    /\ quoted => /\ Len(W) = Len(F) + 2 /\ W[1] = Quote /\ W[Len(F) + 2] = Quote
                 /\ \A j \in 1..Len(F) : W[j + 1] = F[j]
    /\ ~quoted => W = F /\ W[1] # Quote
    /\ \E V : W \in Seq(V)

LEMMA WrittenIs ==
    ASSUME NEW S, NEW word \in Seq(S), NEW quoted \in BOOLEAN, word # <<>>,
           quoted \/ word[1] # "\t"
    PROVE  Layout(Written(word, quoted), Inner(word, quoted), quoted)
  <1> DEFINE W == Written(word, quoted)
             F == Inner(word, quoted)
             n == Len(word)
             e == [i \in DOMAIN word |-> Escaped(word[i], quoted)]
             q == <<Quote>>
  <1>1. PICK at : /\ Placed(e, F, at) /\ Len(e) = n
                  /\ \A i \in 1..n : e[i] = Escaped(word[i], quoted)
                  /\ \E V : F \in Seq(V)
    BY InnerIs
  <1>2. n \in Nat \ {0}
    BY EmptySeq
  <1>3. PICK V : F \in Seq(V)
    BY <1>1
  <1>4. W = IF quoted THEN q \o F \o q ELSE F
    BY DEF Written, Inner
  <1>5. Len(F) \in Nat
    BY <1>3, LenProperties
  <1> HIDE DEF W, F, n, e, q
  <1>6. ASSUME quoted PROVE Layout(W, F, quoted)
    <2> DEFINE U == V \cup {Quote}
               a == q \o F
    <2>1. q \in Seq(U) /\ Len(q) = 1 /\ q[1] = Quote
      BY DEF q
    <2>2. F \in Seq(U)
      BY <1>3
    <2> HIDE DEF U
    <2>3. /\ a \in Seq(U) /\ Len(a) = 1 + Len(F)
          /\ \A i \in 1..(1 + Len(F)) : a[i] = IF i <= 1 THEN q[i] ELSE F[i - 1]
      <3>1. /\ q \o F \in Seq(U) /\ Len(q \o F) = Len(q) + Len(F)
            /\ \A i \in 1..(Len(q) + Len(F)) :
                  (q \o F)[i] = IF i <= Len(q) THEN q[i] ELSE F[i - Len(q)]
        BY <2>1, <2>2, ConcatProperties
      <3> HIDE DEF a
      <3>2. /\ a \in Seq(U) /\ Len(a) = Len(q) + Len(F)
            /\ \A i \in 1..(Len(q) + Len(F)) : a[i] = IF i <= Len(q) THEN q[i] ELSE F[i - Len(q)]
        BY <3>1 DEF a
      <3>3. QED
        BY <2>1, <3>2
    <2> HIDE DEF a
    <2>4. W = a \o q
      BY <1>4, <1>6 DEF a
    <2>5. /\ W \in Seq(U) /\ Len(W) = Len(a) + 1
          /\ \A i \in 1..(Len(a) + 1) : W[i] = IF i <= Len(a) THEN a[i] ELSE q[i - Len(a)]
      <3>1. /\ a \o q \in Seq(U) /\ Len(a \o q) = Len(a) + Len(q)
            /\ \A i \in 1..(Len(a) + Len(q)) :
                  (a \o q)[i] = IF i <= Len(a) THEN a[i] ELSE q[i - Len(a)]
        BY <2>1, <2>3, ConcatProperties
      <3>2. /\ W \in Seq(U) /\ Len(W) = Len(a) + Len(q)
            /\ \A i \in 1..(Len(a) + Len(q)) : W[i] = IF i <= Len(a) THEN a[i] ELSE q[i - Len(a)]
        BY <2>4, <3>1
      <3>3. QED
        BY <2>1, <3>2
    <2>6. Len(W) = Len(F) + 2
      BY <1>5, <2>3, <2>5
    <2>7. W[1] = Quote
      <3>1. 1 \in 1..(Len(a) + 1) /\ 1 <= Len(a) /\ 1 \in 1..(1 + Len(F))
        BY <1>5, <2>3
      <3>2. W[1] = a[1] /\ a[1] = q[1]
        BY <2>3, <2>5, <3>1
      <3>3. QED
        BY <2>1, <3>2
    <2>8. W[Len(F) + 2] = Quote
      <3> DEFINE k == Len(F) + 2
      <3>1. k \in 1..(Len(a) + 1) /\ ~(k <= Len(a)) /\ k - Len(a) = 1
        BY <1>5, <2>3
      <3> HIDE DEF k
      <3>2. W[k] = q[1]
        BY <2>5, <3>1
      <3>3. QED
        BY <2>1, <3>2 DEF k
    <2>9. ASSUME NEW j \in 1..Len(F) PROVE W[j + 1] = F[j]
      <3> DEFINE k == j + 1
      <3>1. k \in 1..(Len(a) + 1) /\ k <= Len(a) /\ k \in 1..(1 + Len(F)) /\ ~(k <= 1) /\ k - 1 = j
        BY <1>5, <2>3
      <3> HIDE DEF k
      <3>2. W[k] = a[k] /\ a[k] = F[k - 1]
        BY <2>3, <2>5, <3>1
      <3>3. QED
        BY <3>1, <3>2 DEF k
    <2>10. Quote \notin Blank
      BY DEF Quote, Blank
    <2>11. W[1] \notin Blank /\ Len(W) \in Nat \ {0}
      BY <1>5, <2>6, <2>7, <2>10
    <2> HIDE DEF U
    <2>12. QED
      BY <1>5, <1>6, <2>5, <2>6, <2>7, <2>8, <2>9, <2>11 DEF Layout
  <1>7. ASSUME ~quoted PROVE Layout(W, F, quoted)
    <2>1. W = F
      BY <1>4, <1>7
    <2> DEFINE c == word[1]
               e1 == e[1]
    <2>2. e1 = Escaped(c, quoted)
      BY <1>1, <1>2
    <2>3. StandsAt(F, 1, e1)
      BY <1>1, <1>2 DEF Placed
    <2> HIDE DEF c, e1
    <2>4. \/ /\ Len(e1) = 1 /\ e1[1] = c /\ c # Closing(quoted) /\ c # Quote
          \/ Len(e1) = 2 /\ e1[1] = Backslash
      BY <2>2, EscapedIs
    <2>5. F[1 + 1 - 1] = e1[1] /\ 1 + Len(e1) <= Len(F) + 1
      BY <2>3, <2>4 DEF StandsAt
    <2>6. F[1] = e1[1] /\ Len(F) # 0
      BY <1>5, <2>4, <2>5
    <2>7. F[1] \notin Blank /\ F[1] # Quote
      <3>1. c # "\t" /\ Closing(quoted) = " "
        BY <1>7 DEF c, Closing
      <3>2. QED
        BY <2>4, <2>6, <3>1 DEF Blank, Quote, Backslash
    <2>8. Len(W) \in Nat \ {0} /\ W[1] \notin Blank /\ W[1] # Quote /\ \E U : W \in Seq(U)
      BY <1>3, <1>5, <2>1, <2>6, <2>7
    <2>9. QED
      BY <1>5, <1>7, <2>1, <2>8 DEF Layout
  <1>8. QED
    BY <1>6, <1>7 DEF W, F

-----------------------------------------------------------------------------
(* The end of a text is the end of what stands there.                      *)
LEMMA EndOfText ==
    ASSUME NEW S, NEW W \in Seq(S), NEW text, Len(text) \in Nat, NEW p, StandsAt(text, p, W),
           p + Len(W) = Len(text) + 1, NEW m \in Nat
    PROVE  SubSeq(text, p + m, Len(text)) = SubSeq(W, m + 1, Len(W))
  <1> DEFINE L == Len(text)
             l == Len(W)
             i == p + m
             j == m + 1
             a == SubSeq(text, i, L)
             b == SubSeq(W, j, l)
  <1>1. /\ l \in Nat /\ L \in Nat /\ p \in Nat \ {0} /\ p + l = L + 1
        /\ i \in Int /\ j \in Int /\ i = p + m /\ j = m + 1
    BY LenProperties DEF StandsAt
  <1>2. \A k \in 1..l : W[k] \in S /\ text[p + k - 1] = W[k]
    BY ElementOfSeq DEF StandsAt
  <1> HIDE DEF L, l, i, j
  <1>3. ASSUME NEW k \in i..L PROVE text[k] \in S
    <2> DEFINE h == k - p + 1
    <2>1. h \in 1..l /\ p + h - 1 = k
      BY <1>1
    <2> HIDE DEF h
    <2>2. text[p + h - 1] = W[h] /\ W[h] \in S
      BY <1>2, <2>1
    <2>3. QED
      BY <2>1, <2>2
  <1>4. /\ a \in Seq(S) /\ Len(a) = (IF i <= L THEN L - i + 1 ELSE 0)
        /\ \A k \in 1..(L - i + 1) : a[k] = text[i + k - 1]
    BY <1>1, <1>3, SubSeqProperties
  <1>5. \A k \in j..l : W[k] \in S
    BY <1>1, <1>2
  <1>6. /\ b \in Seq(S) /\ Len(b) = (IF j <= l THEN l - j + 1 ELSE 0)
        /\ \A k \in 1..(l - j + 1) : b[k] = W[j + k - 1]
    BY <1>1, <1>5, SubSeqProperties
  <1> HIDE DEF a, b
  <1>7. Len(a) = Len(b)
    <2>1. i <= L <=> j <= l
      BY <1>1
    <2>2. L - i + 1 = l - j + 1
      BY <1>1
    <2>3. QED
      BY <1>4, <1>6, <2>1, <2>2
  <1>8. ASSUME NEW k \in 1..Len(a) PROVE a[k] = b[k]
    <2>1. k \in 1..(L - i + 1) /\ k \in 1..(l - j + 1) /\ k \in Nat
      BY <1>1, <1>4, <1>6, <1>7
    <2> DEFINE h == j + k - 1
    <2>2. h \in 1..l /\ p + h - 1 = i + k - 1
      BY <1>1, <2>1
    <2> HIDE DEF h
    <2>3. text[p + h - 1] = W[h]
      BY <1>2, <2>2
    <2>4. a[k] = text[i + k - 1] /\ b[k] = W[h]
      BY <1>4, <1>6, <2>1 DEF h
    <2>5. QED
      BY <2>2, <2>3, <2>4
  <1>9. a = b
    BY <1>4, <1>6, <1>7, <1>8, SeqEqual
  <1>10. QED
    BY <1>9 DEF a, b, i, j, l, L

(* A word that is followed by a blank and the next one, or by the end of   *)
(* the line.                                                               *)
ReadBack(word, quoted, closed) ==
    IF closed \/ quoted THEN word
    ELSE word \o SubSeq(Written(word, quoted), Len(word) + 1, Len(Written(word, quoted)))

(* What comes behind the word that ends at e.                              *)
Follows(text, e, closed) ==
    /\ closed => /\ e <= Len(text) /\ text[e] = " "
                 /\ e + 1 <= Len(text) => text[e + 1] \notin Blank
    /\ ~closed => e = Len(text) + 1

LEMMA ParameterReads ==
    ASSUME NEW S, NEW word \in Seq(S), NEW quoted \in BOOLEAN, word # <<>>,
           quoted \/ word[1] # "\t", NEW closed \in BOOLEAN,
           NEW text, Len(text) \in Nat, NEW p, StandsAt(text, p, Written(word, quoted)),
           NEW e, e = p + Len(Written(word, quoted)), Follows(text, e, closed)
    PROVE  /\ GetParameter(text, p).word = ReadBack(word, quoted, closed)
           /\ GetParameter(text, p).next = IF closed THEN e + 1 ELSE e
  <1> DEFINE W == Written(word, quoted)
             F == Inner(word, quoted)
             L == Len(text)
             r == IF quoted THEN p + 1 ELSE p
             z == r + Len(F)
  <1>0. Layout(W, F, quoted) /\ StandsAt(text, p, W) /\ e = p + Len(W) /\ L \in Nat
    BY WrittenIs
  <1> HIDE DEF W, F
  <1>1. /\ Len(F) \in Nat
        /\ Len(W) \in Nat \ {0}
        /\ W[1] \notin Blank
        /\ quoted => /\ Len(W) = Len(F) + 2
                     /\ W[1] = Quote
                     /\ W[Len(F) + 2] = Quote
                     /\ \A j \in 1..Len(F) : W[j + 1] = F[j]
        /\ ~quoted => W = F /\ W[1] # Quote
        /\ \E V : W \in Seq(V)
    BY <1>0 DEF Layout
  <1>2. /\ p \in Nat \ {0}
        /\ p + Len(W) <= L + 1
        /\ \A j \in 1..Len(W) : text[p + j - 1] = W[j]
    BY <1>0 DEF StandsAt
  <1>21. /\ closed => /\ e <= L /\ text[e] = " "
                      /\ e + 1 <= L => text[e + 1] \notin Blank
         /\ ~closed => e = L + 1
    BY DEF Follows
  <1>22. L = Len(text)
    OBVIOUS
  <1> HIDE DEF L
  <1>3. e \in Nat /\ e = p + Len(W) /\ L \in Nat /\ p <= L
    BY <1>0, <1>1, <1>2
  <1>23. e \in Nat \ {0} /\ L \in Nat
    <2>1. e \in Nat /\ e # 0
      BY ONLY <1>1, <1>2, <1>3
    <2>2. QED
      BY <1>0, <2>1
  <1>4. text[p] = W[1]
    <2>1. text[p + 1 - 1] = W[1]
      BY <1>1, <1>2
    <2>2. p + 1 - 1 = p
      BY <1>2
    <2>3. QED
      BY <2>1, <2>2
  <1>5. Skip(text, p) = p
    <2>1. p \in 1..(Len(text) + 1)
      BY <1>2, <1>3 DEF L
    <2>2. QED
      BY <1>1, <1>4, <2>1, SkipStays
  <1>6. (p <= L /\ text[p] = Quote) <=> quoted
    BY <1>1, <1>3, <1>4
  <1>7. r \in Nat /\ z \in Nat /\ z = r + Len(F) /\ r <= L + 1 /\ z <= L + 1 /\ r >= 1
    <2>1. CASE quoted
      BY <1>1, <1>2, <1>3, <2>1
    <2>2. CASE ~quoted
      BY <1>1, <1>2, <1>3, <2>2
    <2>3. QED
      BY <2>1, <2>2
  <1>8. StandsAt(text, r, F)
    <2>1. CASE quoted
      <3>1. ASSUME NEW j \in 1..Len(F) PROVE text[(p + 1) + j - 1] = F[j]
        <4> DEFINE k == j + 1
        <4>1. k \in 1..Len(W) /\ p + k - 1 = (p + 1) + j - 1
          BY <1>1, <1>2, <2>1
        <4>2. W[k] = F[j]
          BY <1>1, <2>1
        <4> HIDE DEF k
        <4>3. text[p + k - 1] = W[k]
          BY <1>2, <4>1
        <4>4. QED
          BY <4>1, <4>2, <4>3
      <3>2. r = p + 1
        BY <2>1
      <3>3. p + 1 \in 1..(Len(text) + 1) /\ (p + 1) + Len(F) <= Len(text) + 1
        BY <1>3, <1>7, <3>2 DEF L
      <3>4. QED
        BY <3>1, <3>2, <3>3 DEF StandsAt
    <2>2. CASE ~quoted
      BY <1>1, <2>2 DEF W
    <2>3. QED
      BY <2>1, <2>2
  <1>9. z = L + 1 \/ text[z] = Closing(quoted)
    <2>1. CASE quoted
      <3> DEFINE k == Len(F) + 2
      <3>1. k \in 1..Len(W) /\ p + k - 1 = z /\ W[k] = Quote
        BY <1>1, <1>2, <2>1
      <3> HIDE DEF k, z
      <3>2. text[p + k - 1] = W[k]
        BY <1>2, <3>1
      <3>3. QED
        BY <2>1, <3>1, <3>2 DEF Closing
    <2>2. CASE ~quoted
      <3>1. z = e
        BY <1>1, <1>3, <2>2
      <3> HIDE DEF z
      <3>2. Closing(quoted) = " "
        BY <2>2 DEF Closing
      <3>3. QED
        BY <1>21, <3>1, <3>2
    <2>3. QED
      BY <2>1, <2>2
  <1>10. Scan(text, r, Closing(quoted)) = Scanned(word, z)
    <2> HIDE DEF r, z
    <2>1. /\ z = r + Len(Inner(word, quoted)) /\ StandsAt(text, r, Inner(word, quoted))
          /\ (z = Len(text) + 1 \/ text[z] = Closing(quoted))
      BY <1>7, <1>8, <1>9 DEF F, L
    <2>2. QED
      BY <2>1, ScanWritten
  <1>11. GetParameter(text, p) =
            IF z > L THEN [word |-> word \o SubSeq(text, r + Len(word), L), next |-> L + 1]
            ELSE [word |-> word, next |-> Skip(text, z + 1)]
    <2> DEFINE isstring == p <= Len(text) /\ text[p] = Quote
               q == IF isstring THEN p + 1 ELSE p
               s == Scan(text, q, IF isstring THEN Quote ELSE " ")
    <2>1. GetParameter(text, p) =
             IF s.stop > Len(text)
             THEN [word |-> s.out \o SubSeq(text, q + Len(s.out), Len(text)), next |-> Len(text) + 1]
             ELSE [word |-> s.out, next |-> Skip(text, s.stop + 1)]
      BY <1>5 DEF GetParameter
    <2>2. q = r /\ s = Scanned(word, z)
      <3>1. isstring <=> quoted
        BY <1>6 DEF L
      <3> HIDE DEF isstring
      <3>2. q = r /\ (IF isstring THEN Quote ELSE " ") = Closing(quoted)
        BY <3>1 DEF Closing
      <3>3. QED
        BY <1>10, <3>2
    <2> HIDE DEF q, s, r, z
    <2>3. s.out = word /\ s.stop = z
      BY <2>2 DEF Scanned
    <2>4. QED
      BY <2>1, <2>2, <2>3 DEF L
  <1>12. CASE quoted
    <2>1. z + 1 = e /\ ~(z > L)
      <3>1. z = p + 1 + Len(F) /\ Len(W) = Len(F) + 2
        BY <1>1, <1>12
      <3> HIDE DEF z
      <3>2. QED
        BY SMTT(30), <1>1, <1>2, <1>3, <1>7, <3>1
    <2>2. GetParameter(text, p).word = word /\ GetParameter(text, p).next = Skip(text, e)
      BY <1>11, <2>1
    <2>3. Skip(text, e) = IF closed THEN e + 1 ELSE e
      <3>1. CASE closed
        <4>1. e \in 1..Len(text) /\ text[e] \in Blank
          <5>1. e <= L /\ text[e] = " "
            BY <1>21, <3>1
          <5>11. e <= L
            BY <5>1
          <5>2. e \in 1..L
            BY ONLY <1>23, <5>11
          <5>3. QED
            BY <1>22, <5>1, <5>2 DEF Blank
        <4>2. e + 1 <= Len(text) => text[e + 1] \notin Blank
          BY <1>21, <3>1 DEF L
        <4>3. QED
          BY <3>1, <4>1, <4>2, SkipOne
      <3>2. CASE ~closed
        <4>1. e \in 1..(Len(text) + 1) /\ ~(e <= Len(text))
          <5>1. e = L + 1
            BY <1>21, <3>2
          <5>2. e \in 1..(L + 1) /\ ~(e <= L)
            BY ONLY <1>23, <5>1
          <5>3. QED
            BY <1>22, <5>2
        <4>2. QED
          BY <3>2, <4>1, SkipStays
      <3>3. QED
        BY <3>1, <3>2
    <2>4. QED
      BY <1>12, <2>2, <2>3 DEF ReadBack
  <1>13. CASE ~quoted
    <2>1. z = e /\ r = p
      BY <1>1, <1>3, <1>13
    <2>2. CASE closed
      <3>1. ~(z > L) /\ e + 1 \in 1..(Len(text) + 1)
        <4> HIDE DEF z
        <4>1. e <= L /\ z = e
          BY <1>21, <2>1, <2>2
        <4>2. ~(z > L) /\ e + 1 \in 1..(L + 1)
          BY ONLY <1>23, <4>1
        <4>3. QED
          BY <1>22, <4>2
      <3>2. Skip(text, e + 1) = e + 1
        <4>1. e + 1 <= Len(text) => text[e + 1] \notin Blank
          BY <1>21, <2>2 DEF L
        <4> DEFINE k == e + 1
        <4>2. k \in 1..(Len(text) + 1) /\ (k <= Len(text) => text[k] \notin Blank)
          BY <3>1, <4>1
        <4> HIDE DEF k
        <4>3. Skip(text, k) = k
          BY <4>2, SkipStays
        <4>4. QED
          BY <4>3 DEF k
      <3>3. GetParameter(text, p).word = word /\ GetParameter(text, p).next = Skip(text, e + 1)
        BY <1>11, <2>1, <3>1
      <3>4. QED
        BY <2>2, <3>2, <3>3 DEF ReadBack
    <2>3. CASE ~closed
      <3>1. z > L /\ L + 1 = e /\ p + Len(W) = Len(text) + 1
        <4> HIDE DEF z
        <4>1. e = L + 1 /\ z = e /\ p + Len(W) = e
          BY <1>3, <1>21, <2>1, <2>3
        <4>2. z > L /\ L + 1 = e /\ p + Len(W) = L + 1
          BY ONLY <1>23, <4>1
        <4>3. QED
          BY <1>22, <4>2
      <3> DEFINE o == word \o SubSeq(text, p + Len(word), L)
      <3>2. GetParameter(text, p) = [word |-> o, next |-> e]
        BY <1>11, <2>1, <3>1
      <3>3. SubSeq(text, p + Len(word), Len(text)) = SubSeq(W, Len(word) + 1, Len(W))
        <4>1. PICK V : W \in Seq(V)
          BY <1>1
        <4> DEFINE m == Len(word)
        <4>2. m \in Nat
          BY LenProperties
        <4> HIDE DEF m
        <4>3. StandsAt(text, p, W)
          BY DEF W
        <4>4. SubSeq(text, p + m, Len(text)) = SubSeq(W, m + 1, Len(W))
          BY <3>1, <4>1, <4>2, <4>3, EndOfText
        <4>5. QED
          BY <4>4 DEF m
      <3>4. o = ReadBack(word, quoted, closed)
        BY <1>13, <2>3, <3>3 DEF ReadBack, W, L
      <3> HIDE DEF o
      <3>5. GetParameter(text, p).word = o /\ GetParameter(text, p).next = e
        BY <3>2
      <3>6. QED
        BY <2>3, <3>4, <3>5
    <2>4. QED
      BY <2>2, <2>3
  <1>14. QED
    BY <1>12, <1>13

-----------------------------------------------------------------------------
(* The written words w of a line, one behind the other, with a blank in    *)
(* between and with one behind the last where the line is closed.          *)
PartOf(w, k) == (IF k = 1 THEN <<>> ELSE <<" ">>) \o w[k]
WordStands(text, w, k, start) ==
    StandsAt(text, start, w[k]) /\ start \in 1..Len(text) /\ text[start] \notin Blank
LaidOut(text, w, n, closed, start) ==
    /\ start[1] = 1
    /\ \A k \in 1..n : /\ WordStands(text, w, k, start[k])
                       /\ Follows(text, start[k] + Len(w[k]), k < n \/ closed)
    /\ \A k \in 1..n : k < n => start[k + 1] = start[k] + Len(w[k]) + 1
    /\ closed => start[n] + Len(w[n]) = Len(text)

IsWritten(s, V) == s \in Seq(V) /\ Len(s) \in Nat \ {0} /\ s[1] \notin Blank

BlankAt(text, i) == text[i] = " "

LEMMA OneBlank ==
    ASSUME NEW C, Blank \subseteq C
    PROVE  <<" ">> \in Seq(C) /\ Len(<<" ">>) = 1 /\ BlankAt(<<" ">>, 1)
  <1> DEFINE c == " "
  <1>1. c \in C
    BY DEF Blank
  <1> HIDE DEF c
  <1>2. <<c>> \in Seq(C) /\ Len(<<c>>) = 1 /\ <<c>>[1] = c
    BY <1>1
  <1>3. QED
    BY <1>2 DEF c, BlankAt

PartPlaced(C, text, w, k, p) ==
    /\ PartOf(w, k) \in Seq(C)
    /\ k = 1 => WordStands(text, w, k, p) /\ Len(PartOf(w, k)) = Len(w[k])
    /\ k # 1 => /\ WordStands(text, w, k, p + 1) /\ BlankAt(text, p)
                /\ Len(PartOf(w, k)) = 1 + Len(w[k])

LEMMA PartStands ==
    ASSUME NEW C, NEW w, NEW k \in Nat \ {0}, IsWritten(w[k], C), Blank \subseteq C,
           NEW text, Len(text) \in Nat, NEW p, StandsAt(text, p, PartOf(w, k))
    PROVE  PartPlaced(C, text, w, k, p)
  <1> DEFINE s == w[k]
             e == PartOf(w, k)
             L == Len(text)
             b == <<" ">>
  <1>1. s \in Seq(C) /\ Len(s) \in Nat \ {0} /\ s[1] \notin Blank
    BY DEF IsWritten
  <1>2. /\ p \in Nat \ {0}
        /\ p + Len(e) <= L + 1
        /\ \A j \in 1..Len(e) : text[p + j - 1] = e[j]
    BY DEF StandsAt
  <1>3. ASSUME k = 1 PROVE e \in Seq(C) /\ WordStands(text, w, k, p) /\ Len(e) = Len(s)
    <2>1. e = s
      <3>1. e = <<>> \o s
        BY <1>3 DEF PartOf
      <3> HIDE DEF s, e
      <3>2. QED
        BY <1>1, <3>1, ConcatEmptySeq
    <2>2. StandsAt(text, p, s)
      BY <2>1
    <2>3. text[p] = s[1] /\ p \in 1..L
      <3> HIDE DEF s, e, L
      <3>1. text[p + 1 - 1] = s[1]
        BY <1>1, <1>2, <2>1
      <3>2. p + 1 - 1 = p
        BY <1>2
      <3>3. L \in Nat
        BY DEF L
      <3>4. QED
        BY <1>1, <1>2, <2>1, <3>1, <3>2, <3>3
    <2>4. QED
      BY <1>1, <2>1, <2>2, <2>3 DEF WordStands
  <1>4. ASSUME k # 1
        PROVE  /\ e \in Seq(C) /\ WordStands(text, w, k, p + 1)
               /\ BlankAt(text, p) /\ Len(e) = 1 + Len(s)
    <2>1. e = b \o s
      BY <1>4 DEF PartOf
    <2>2. b \in Seq(C) /\ Len(b) = 1 /\ BlankAt(b, 1)
      BY OneBlank
    <2> HIDE DEF b, s, e
    <2>3. /\ e \in Seq(C) /\ Len(e) = Len(b) + Len(s)
          /\ \A i \in 1..(Len(b) + Len(s)) : e[i] = IF i <= Len(b) THEN b[i] ELSE s[i - Len(b)]
      BY <1>1, <2>1, <2>2, ConcatProperties
    <2>4. /\ Len(e) = 1 + Len(s)
          /\ \A i \in 1..(1 + Len(s)) : e[i] = IF i <= 1 THEN b[i] ELSE s[i - 1]
      BY <2>2, <2>3
    <2>5. BlankAt(text, p)
      <3>1. 1 \in 1..Len(e) /\ 1 \in 1..(1 + Len(s)) /\ p + 1 - 1 = p
        BY <1>1, <1>2, <2>4
      <3>2. text[p + 1 - 1] = e[1] /\ e[1] = b[1]
        BY <1>2, <2>4, <3>1
      <3>3. QED
        BY <2>2, <3>1, <3>2 DEF BlankAt
    <2> DEFINE P == p + 1
    <2>6. P \in 1..L /\ P + Len(s) <= L + 1
      <3>1. L \in Nat
        OBVIOUS
      <3> HIDE DEF L
      <3>2. QED
        BY <1>1, <1>2, <2>4, <3>1
    <2>7. ASSUME NEW j \in 1..Len(s) PROVE text[P + j - 1] = s[j]
      <3> DEFINE i == j + 1
      <3>1. i \in 1..Len(e) /\ i \in 1..(1 + Len(s)) /\ ~(i <= 1) /\ i - 1 = j /\ p + i - 1 = P + j - 1
        BY <1>1, <1>2, <2>4
      <3> HIDE DEF i, P
      <3>2. text[p + i - 1] = e[i] /\ e[i] = s[i - 1]
        BY <1>2, <2>4, <3>1
      <3>3. QED
        BY <3>1, <3>2
    <2>8. text[P] = s[1]
      <3>1. 1 \in 1..Len(s) /\ P + 1 - 1 = P
        BY <1>1, <1>2
      <3> HIDE DEF P
      <3>2. text[P + 1 - 1] = s[1]
        BY <2>7, <3>1
      <3>3. QED
        BY <3>1, <3>2
    <2>9. StandsAt(text, P, s)
      <3>1. P \in 1..(Len(text) + 1) /\ P + Len(s) <= Len(text) + 1
        BY <2>6
      <3> HIDE DEF P
      <3>2. QED
        BY <2>7, <3>1 DEF StandsAt
    <2>10. WordStands(text, w, k, P)
      <3> HIDE DEF P
      <3>1. P \in 1..Len(text) /\ text[P] \notin Blank
        BY <1>1, <2>6, <2>8
      <3>2. QED
        BY <2>9, <3>1 DEF WordStands, s
    <2>11. QED
      BY <2>3, <2>4, <2>5, <2>10
  <1>5. QED
    BY <1>3, <1>4 DEF PartPlaced

IsLine(text, w, n, closed) ==
    text = FlattenSeq([k \in 1..n |-> PartOf(w, k)]) \o (IF closed THEN <<" ">> ELSE <<>>)

LEMMA LinePlaced ==
    ASSUME NEW C, Blank \subseteq C, NEW n \in Nat \ {0}, NEW w,
           \A k \in 1..n : IsWritten(w[k], C), NEW closed \in BOOLEAN,
           NEW text, IsLine(text, w, n, closed)
    PROVE  text \in Seq(C) /\ \E start : LaidOut(text, w, n, closed, start)
  <1> DEFINE parts == [k \in 1..n |-> PartOf(w, k)]
             F == FlattenSeq(parts)
             end == IF closed THEN <<" ">> ELSE <<>>
             V == Seq(C)
  <1>1. \A k \in 1..n : parts[k] = PartOf(w, k) /\ PartOf(w, k) \in V
    <2> SUFFICES ASSUME NEW k \in 1..n PROVE PartOf(w, k) \in V
      OBVIOUS
    <2> DEFINE e == PartOf(w, k)
    <2>1. w[k] \in Seq(C)
      BY DEF IsWritten
    <2> DEFINE b == IF k = 1 THEN <<>> ELSE <<" ">>
    <2>2. b \in Seq(C)
      <3>1. CASE k = 1
        BY <3>1, EmptySeq
      <3>2. CASE k # 1
        BY <3>2, OneBlank
      <3>3. QED
        BY <3>1, <3>2
    <2>3. b \in Seq(C) /\ e = b \o w[k]
      BY <2>2 DEF PartOf
    <2> HIDE DEF b, e
    <2>4. e \in Seq(C)
      BY <2>1, <2>3, ConcatProperties
    <2>5. QED
      BY <2>4 DEF e
  <1>2. parts \in Seq(V) /\ Len(parts) = n
    <2> HIDE DEF V
    <2>1. \A k \in 1..n : parts[k] \in V
      BY <1>1
    <2>2. QED
      BY <2>1
  <1>3. end \in Seq(C) /\ Len(end) = (IF closed THEN 1 ELSE 0) /\ (closed => BlankAt(end, 1))
        /\ (~closed => end = <<>>)
    <2>1. CASE closed
      BY <2>1, OneBlank
    <2>2. CASE ~closed
      BY <2>2, EmptySeq
    <2>3. QED
      BY <2>1, <2>2
  <1>4. text = F \o end
    BY DEF IsLine
  <1> HIDE DEF parts, end
  <1>5. PICK at : Placed(parts, F, at)
    BY <1>2, FlattenPlaced
  <1>6. F \in Seq(C)
    BY <1>2, FlattenType
  <1> HIDE DEF F
  <1>7. /\ text \in Seq(C) /\ Len(text) = Len(F) + Len(end) /\ Len(F) \in Nat
        /\ Len(end) \in Nat
        /\ \A i \in 1..(Len(F) + Len(end)) : text[i] = IF i <= Len(F) THEN F[i] ELSE end[i - Len(F)]
    <2>1. /\ F \o end \in Seq(C) /\ Len(F \o end) = Len(F) + Len(end)
          /\ \A i \in 1..(Len(F) + Len(end)) :
                (F \o end)[i] = IF i <= Len(F) THEN F[i] ELSE end[i - Len(F)]
      <3>1. F \in Seq(C) /\ end \in Seq(C)
        BY <1>3, <1>6
      <3>2. QED
        BY <3>1, ConcatProperties
    <2>2. QED
      BY <1>3, <1>4, <1>6, <2>1, LenProperties
  <1> DEFINE start == [k \in 1..(n + 1) |-> IF k = 1 THEN 1 ELSE at[k] + 1]
  <1>8. /\ at[1] = 1 /\ at[n + 1] = Len(F) + 1
        /\ \A k \in 1..(n + 1) : at[k] \in Nat \ {0}
        /\ \A k \in 1..n : at[k + 1] = at[k] + Len(parts[k]) /\ StandsAt(F, at[k], parts[k])
    BY <1>2, <1>5 DEF Placed
  <1>9. /\ start[1] = 1
        /\ \A k \in 1..(n + 1) : k # 1 => start[k] = at[k] + 1
    OBVIOUS
  <1> HIDE DEF start
  <1>10. ASSUME NEW k \in 1..n
         PROVE  /\ WordStands(text, w, k, start[k])
                /\ start[k] + Len(w[k]) = at[k + 1]
                /\ k # 1 => BlankAt(text, at[k])
    <2> DEFINE e == PartOf(w, k)
               p == at[k]
    <2>1. p \in Nat \ {0} /\ StandsAt(F, p, e) /\ at[k + 1] = p + Len(e) /\ e \in Seq(C)
      <3>1. PartOf(w, k) \in Seq(C) /\ parts[k] = PartOf(w, k)
        BY <1>1
      <3>2. k \in 1..(n + 1)
        OBVIOUS
      <3>3. QED
        BY <1>8, <3>1, <3>2
    <2>2. StandsAt(text, p, e) /\ Len(text) \in Nat
      <3> HIDE DEF e, p
      <3>1. Len(e) \in Nat /\ StandsAt(F \o end, p, e)
        BY <1>3, <1>6, <2>1, LenProperties, StandsLonger
      <3>2. QED
        BY <1>4, <1>7, <3>1
    <2> HIDE DEF p
    <2>3. /\ k = 1 => WordStands(text, w, k, p) /\ Len(e) = Len(w[k])
          /\ k # 1 => /\ WordStands(text, w, k, p + 1) /\ BlankAt(text, p)
                      /\ Len(e) = 1 + Len(w[k])
      <3>1. k \in Nat \ {0} /\ IsWritten(w[k], C)
        OBVIOUS
      <3>2. QED
        <4>1. PartPlaced(C, text, w, k, p)
          <5> HIDE DEF V
          <5>1. QED
            BY <2>2, <3>1, PartStands
        <4>2. QED
          BY <4>1 DEF PartPlaced
    <2> HIDE DEF e
    <2>4. Len(w[k]) \in Nat
      BY DEF IsWritten
    <2>5. ASSUME k = 1 PROVE WordStands(text, w, k, start[k]) /\ start[k] + Len(w[k]) = at[k + 1]
      <3>1. start[k] = p
        BY <1>8, <1>9, <2>5 DEF p
      <3>2. QED
        BY <2>1, <2>3, <2>5, <3>1
    <2>6. ASSUME k # 1 PROVE WordStands(text, w, k, start[k]) /\ start[k] + Len(w[k]) = at[k + 1]
      <3>1. start[k] = p + 1 /\ at[k + 1] = p + Len(e) /\ Len(e) = 1 + Len(w[k])
        BY <1>9, <2>1, <2>3, <2>6 DEF p
      <3>2. start[k] + Len(w[k]) = at[k + 1]
        <4> DEFINE l == Len(w[k])
        <4>1. p \in Nat /\ l \in Nat
          BY <2>1, <2>4
        <4>2. start[k] = p + 1 /\ at[k + 1] = p + (1 + l)
          BY <3>1
        <4> HIDE DEF l
        <4>3. start[k] + l = at[k + 1]
          BY ONLY <4>1, <4>2
        <4>4. QED
          BY <4>3 DEF l
      <3>3. QED
        BY <2>3, <2>6, <3>1, <3>2
    <2>7. k # 1 => BlankAt(text, at[k])
      BY <2>3 DEF p
    <2>8. QED
      BY <2>5, <2>6, <2>7
  <1>11. ASSUME NEW k \in 1..n, k < n
         PROVE  /\ Follows(text, start[k] + Len(w[k]), k < n \/ closed)
                /\ start[k + 1] = start[k] + Len(w[k]) + 1
    <2> DEFINE m == k + 1
               e == start[k] + Len(w[k])
    <2>1. m \in 1..n /\ m \in 1..(n + 1) /\ m # 1
      BY <1>11
    <2>2. e = at[m] /\ at[m] \in Nat
      BY <1>8, <1>10, <2>1
    <2> HIDE DEF m, e
    <2>3. start[m] = e + 1 /\ WordStands(text, w, m, e + 1)
      BY <1>9, <1>10, <2>1, <2>2
    <2>4. BlankAt(text, e)
      BY <1>10, <2>1, <2>2
    <2>5. e + 1 <= Len(text) /\ text[e + 1] \notin Blank
      BY <1>7, <2>3 DEF WordStands
    <2>6. e <= Len(text)
      BY <1>7, <2>2, <2>5
    <2>7. Follows(text, e, k < n \/ closed)
      BY <1>11, <2>4, <2>5, <2>6 DEF Follows, BlankAt
    <2>8. QED
      BY <2>3, <2>7 DEF m, e
  <1>12. /\ Follows(text, start[n] + Len(w[n]), n < n \/ closed)
         /\ closed => start[n] + Len(w[n]) = Len(text)
    <2> DEFINE e == start[n] + Len(w[n])
    <2>1. e = Len(F) + 1
      BY <1>8, <1>10
    <2> HIDE DEF e
    <2>2. ASSUME closed PROVE Follows(text, e, n < n \/ closed) /\ e = Len(text)
      <3>1. Len(end) = 1 /\ BlankAt(end, 1)
        BY <1>3, <2>2
      <3>2. e = Len(text) /\ e \in 1..(Len(F) + Len(end)) /\ ~(e <= Len(F)) /\ e - Len(F) = 1
        <4>1. Len(end) = 1
          BY <3>1
        <4>2. QED
          BY ONLY <1>7, <2>1, <4>1
      <3>3. BlankAt(text, e)
        <4>1. text[e] = end[1]
          BY <1>7, <3>2
        <4>2. QED
          BY <3>1, <4>1 DEF BlankAt
      <3>4. ~(e + 1 <= Len(text)) /\ e <= Len(text)
        BY <1>7, <3>2
      <3>5. QED
        BY <2>2, <3>2, <3>3, <3>4 DEF Follows, BlankAt
    <2>3. ASSUME ~closed PROVE Follows(text, e, n < n \/ closed)
      <3>1. Len(end) = 0 /\ ~(n < n)
        BY <1>3, <2>3
      <3>2. e = Len(text) + 1
        BY <1>7, <2>1, <3>1
      <3>3. QED
        BY <2>3, <3>1, <3>2 DEF Follows
    <2>4. QED
      BY <2>2, <2>3 DEF e
  <1>13. LaidOut(text, w, n, closed, start)
    <2>1. ASSUME NEW k \in 1..n
          PROVE  /\ WordStands(text, w, k, start[k])
                 /\ Follows(text, start[k] + Len(w[k]), k < n \/ closed)
                 /\ k < n => start[k + 1] = start[k] + Len(w[k]) + 1
      <3>1. k < n \/ k = n
        OBVIOUS
      <3>2. CASE k < n
        BY <1>10, <1>11, <3>2
      <3>3. CASE k = n
        BY <1>10, <1>12, <3>3
      <3>4. QED
        BY <3>1, <3>2, <3>3
    <2>2. QED
      BY <1>9, <1>12, <2>1 DEF LaidOut
  <1>14. QED
    BY <1>7, <1>13

-----------------------------------------------------------------------------
LEMMA ReadBackFull ==
    ASSUME NEW S, NEW word \in Seq(S), NEW quoted \in BOOLEAN, word # <<>>,
           quoted \/ word[1] # "\t", NEW closed
    PROVE  ReadBack(word, quoted, closed) # <<>>
  <1>1. CASE closed \/ quoted
    BY <1>1 DEF ReadBack
  <1>2. CASE ~(closed \/ quoted)
    <2> DEFINE W == Written(word, quoted)
               m == Len(word) + 1
               n == Len(W)
               x == SubSeq(W, m, n)
    <2>1. Layout(W, Inner(word, quoted), quoted)
      BY WrittenIs
    <2> HIDE DEF W
    <2>2. PICK V : W \in Seq(V)
      BY <2>1 DEF Layout
    <2> DEFINE U == S \cup V
    <2>3. W \in Seq(U) /\ word \in Seq(U) /\ Len(word) \in Nat \ {0}
      BY <2>2, EmptySeq
    <2>4. m \in Int /\ n \in Int /\ m >= 1 /\ \A i \in m..n : W[i] \in U
      <3> HIDE DEF U
      <3>1. n \in Nat /\ \A i \in 1..n : W[i] \in U
        BY <2>3, ElementOfSeq, LenProperties
      <3>2. m \in Nat /\ m >= 1
        BY <2>3
      <3>3. QED
        BY <3>1, <3>2
    <2> HIDE DEF U, m, n
    <2>5. x \in Seq(U)
      BY <2>4, SubSeqProperties
    <2> HIDE DEF x
    <2>6. Len(word \o x) = Len(word) + Len(x) /\ Len(x) \in Nat
      BY <2>3, <2>5, ConcatProperties, LenProperties
    <2>7. Len(word \o x) # 0
      BY <2>3, <2>6
    <2>8. word \o x # <<>>
      BY <2>7, EmptySeq
    <2>9. ReadBack(word, quoted, closed) = word \o x
      BY <1>2 DEF ReadBack, x, W, m, n
    <2>10. QED
      BY <2>8, <2>9
  <1>3. QED
    BY <1>1, <1>2

(* A word that can be written into a file.                                 *)
CanWrite(w, S) ==
    /\ w.word \in Seq(S) /\ w.quoted \in BOOLEAN
    /\ w.word # <<>> /\ (w.quoted \/ w.word[1] # "\t")

ReadBackAt(words, n, closed, k) == ReadBack(words[k].word, words[k].quoted, k < n \/ closed)
WrittenAt(words, n) == [k \in 1..n |-> Written(words[k].word, words[k].quoted)]

(* What is read at the start of a word.                                    *)
ReadsAt(text, words, n, closed, start, k) ==
    /\ GetParameter(text, start[k]).word = ReadBackAt(words, n, closed, k)
    /\ ReadBackAt(words, n, closed, k) # <<>>
    /\ start[k] \in 1..Len(text)
    /\ k < n => GetParameter(text, start[k]).next = start[k + 1] /\ start[k + 1] \in 1..Len(text)
    /\ k = n => GetParameter(text, start[k]).next > Len(text)

LEMMA WordReads ==
    ASSUME NEW S, NEW words, NEW n \in Nat \ {0}, \A k \in 1..n : CanWrite(words[k], S),
           NEW closed \in BOOLEAN, NEW text, Len(text) \in Nat, NEW start,
           LaidOut(text, WrittenAt(words, n), n, closed, start), NEW k \in 1..n
    PROVE  ReadsAt(text, words, n, closed, start, k)
  <1> DEFINE x == words[k].word
             q == words[k].quoted
             w == WrittenAt(words, n)
             p == start[k]
             c == k < n \/ closed
             e == p + Len(w[k])
             g == GetParameter(text, p)
  <1>1. x \in Seq(S) /\ q \in BOOLEAN /\ x # <<>> /\ (q \/ x[1] # "\t") /\ c \in BOOLEAN
    BY DEF CanWrite
  <1>2. w[k] = Written(x, q)
    BY DEF WrittenAt
  <1>3. /\ WordStands(text, w, k, p) /\ Follows(text, e, c)
        /\ k < n => start[k + 1] = e + 1
        /\ closed => start[n] + Len(w[n]) = Len(text)
    BY DEF LaidOut
  <1>4. StandsAt(text, p, w[k]) /\ p \in 1..Len(text)
    BY <1>3 DEF WordStands
  <1> HIDE DEF x, q, c, w, p
  <1>5. g.word = ReadBack(x, q, c) /\ g.next = IF c THEN e + 1 ELSE e
    BY <1>1, <1>2, <1>3, <1>4, ParameterReads
  <1>6. ReadBack(x, q, c) # <<>>
    BY <1>1, ReadBackFull
  <1> HIDE DEF g, e
  <1>7. ASSUME k < n PROVE g.next = start[k + 1] /\ start[k + 1] \in 1..Len(text)
    <2>1. c
      BY <1>7 DEF c
    <2>2. g.next = start[k + 1]
      BY <1>3, <1>5, <1>7, <2>1
    <2>3. k + 1 \in 1..n
      BY <1>7
    <2> DEFINE m == k + 1
    <2> HIDE DEF m
    <2>4. m \in 1..n
      BY <2>3 DEF m
    <2>5. start[m] \in 1..Len(text)
      BY <2>4 DEF LaidOut, WordStands
    <2>6. QED
      BY <2>2, <2>5 DEF m
  <1>8. ASSUME k = n PROVE g.next > Len(text)
    <2>1. CASE closed
      <3>1. e = Len(text) /\ c
        BY <1>3, <1>8, <2>1 DEF e, p, c
      <3>2. QED
        BY <1>5, <3>1
    <2>2. CASE ~closed
      <3>1. ~c
        BY <1>8, <2>2 DEF c
      <3>2. e = Len(text) + 1
        BY <1>3, <3>1 DEF Follows
      <3>3. QED
        BY <1>5, <3>1, <3>2
    <2>3. QED
      BY <2>1, <2>2
  <1>9. QED
    BY <1>4, <1>5, <1>6, <1>7, <1>8 DEF ReadsAt, ReadBackAt, x, q, c, p, g

ReadsAll(text, words, n, closed, start) ==
    start[1] = 1 /\ \A k \in 1..n : ReadsAt(text, words, n, closed, start, k)

LEMMA LineReads ==
    ASSUME NEW C, Escapes(C), NEW text \in Seq(C),
           NEW words, NEW n \in Nat \ {0}, NEW closed, NEW start, ReadsAll(text, words, n, closed, start)
    PROVE  WordsOf(text) = [k \in 1..n |-> ReadBackAt(words, n, closed, k)]
  <1> DEFINE R(k) == ReadBackAt(words, n, closed, k)
             Rest(k) == [j \in 1..(n - k + 1) |-> R(k + j - 1)]
             L == Len(text)
  <1>1. PICK f : WordsOf(text) = f[1] /\ \A i \in 1..(Len(text) + 1) : f[i] = WordsFrom(f, text, i)
    BY WordsIs
  <1>2. ASSUME NEW k \in 1..n
        PROVE  /\ k = n => f[start[k]] = <<R(k)>>
               /\ k < n => f[start[k]] = <<R(k)>> \o f[start[k + 1]]
    <2> DEFINE g == GetParameter(text, start[k])
    <2>1. ReadsAt(text, words, n, closed, start, k)
      BY DEF ReadsAll
    <2>2. /\ g.word = R(k) /\ R(k) # <<>> /\ start[k] \in 1..L
          /\ k < n => g.next = start[k + 1] /\ start[k + 1] \in 1..L
          /\ k = n => g.next > L
      BY <2>1 DEF ReadsAt
    <2>3. L \in Nat
      BY LenProperties
    <2>4. f[start[k]] = WordsFrom(f, text, start[k])
      <3>1. start[k] \in 1..(L + 1)
        BY <2>2, <2>3
      <3>2. QED
        BY <1>1, <3>1
    <2>5. f[start[k]] = <<R(k)>> \o IF g.next > L THEN <<>> ELSE f[g.next]
      BY <2>2, <2>4 DEF WordsFrom
    <2> HIDE DEF g, L, R
    <2>6. ASSUME k = n PROVE f[start[k]] = <<R(k)>>
      <3>1. f[start[k]] = <<R(k)>> \o <<>>
        BY <2>2, <2>5, <2>6
      <3>2. <<R(k)>> \in Seq({R(k)})
        OBVIOUS
      <3>3. QED
        BY <3>1, <3>2, ConcatEmptySeq
    <2>7. ASSUME k < n PROVE f[start[k]] = <<R(k)>> \o f[start[k + 1]]
      <3>1. g.next = start[k + 1] /\ ~(g.next > L)
        BY <2>2, <2>3, <2>7
      <3>2. QED
        BY <2>5, <3>1
    <2>8. QED
      BY <2>6, <2>7
  <1> DEFINE T == {k \in 1..n : f[start[k]] = Rest(k)}
  <1>3. ASSUME NEW k \in 1..n, \A j \in 1..n : j > k => j \in T
        PROVE  k \in T
    <2>1. CASE k = n
      <3>1. n - k + 1 = 1 /\ k + 1 - 1 = k
        BY <2>1
      <3>2. Rest(k) = [j \in 1..1 |-> R(k + j - 1)]
        BY <3>1
      <3>3. Rest(k) = <<R(k)>>
        <4>1. \A j \in 1..1 : k + j - 1 = k
          BY <3>1
        <4>2. Rest(k) = [j \in 1..1 |-> R(k)]
          BY <3>2, <4>1
        <4> HIDE DEF R
        <4>3. QED
          BY SMTT(30), <4>2
      <3>4. QED
        BY <1>2, <2>1, <3>3
    <2>2. CASE k # n
      <3> DEFINE m == k + 1
                 o == <<R(k)>>
                 u == Rest(m)
                 v == Rest(k)
                 U == {R(i) : i \in 1..n}
      <3>1. k < n /\ m \in 1..n /\ m > k
        BY <2>2
      <3>2. f[start[m]] = u
        BY <1>3, <3>1
      <3>3. f[start[k]] = o \o u
        BY <1>2, <3>1, <3>2
      <3> HIDE DEF R
      <3>4. o \in Seq(U) /\ Len(o) = 1 /\ o[1] = R(k)
        OBVIOUS
      <3>5. n - k \in Nat /\ n - m + 1 = n - k
        BY <3>1
      <3>6. u = [j \in 1..(n - k) |-> R(m + j - 1)]
        BY <3>5
      <3>7. u \in Seq(U) /\ Len(u) = n - k /\ \A j \in 1..(n - k) : u[j] = R(m + j - 1)
        <4>1. \A j \in 1..(n - k) : R(m + j - 1) \in U
          <5>1. \A j \in 1..(n - k) : m + j - 1 \in 1..n
            BY <3>1
          <5>2. QED
            BY <5>1
        <4> HIDE DEF U, u
        <4>2. QED
          BY <3>5, <3>6, <4>1
      <3>8. v \in Seq(U) /\ Len(v) = n - k + 1 /\ \A j \in 1..(n - k + 1) : v[j] = R(k + j - 1)
        <4>1. \A j \in 1..(n - k + 1) : R(k + j - 1) \in U
          <5>1. \A j \in 1..(n - k + 1) : k + j - 1 \in 1..n
            BY <3>1
          <5>2. QED
            BY <5>1
        <4>2. v = [j \in 1..(n - k + 1) |-> R(k + j - 1)]
          OBVIOUS
        <4> HIDE DEF U, v
        <4>3. QED
          BY <3>5, <4>1, <4>2
      <3> HIDE DEF o, u, v, U
      <3>9. /\ o \o u \in Seq(U) /\ Len(o \o u) = Len(o) + Len(u)
            /\ \A i \in 1..(Len(o) + Len(u)) : (o \o u)[i] = IF i <= Len(o) THEN o[i] ELSE u[i - Len(o)]
        BY <3>4, <3>7, ConcatProperties
      <3> DEFINE y == o \o u
      <3>10. /\ y \in Seq(U) /\ Len(y) = 1 + (n - k)
             /\ \A i \in 1..(1 + (n - k)) : y[i] = IF i <= 1 THEN o[i] ELSE u[i - 1]
        BY <3>4, <3>7, <3>9
      <3> HIDE DEF y
      <3>11. ASSUME NEW j \in 1..Len(y) PROVE y[j] = v[j]
        <4>1. j \in 1..(1 + (n - k)) /\ j \in 1..(n - k + 1)
          BY <3>5, <3>10
        <4>2. y[j] = (IF j <= 1 THEN o[j] ELSE u[j - 1]) /\ v[j] = R(k + j - 1)
          BY <3>8, <3>10, <4>1
        <4>3. CASE j = 1
          <5>1. k + j - 1 = k
            BY <4>3
          <5>2. QED
            BY <3>4, <4>2, <4>3, <5>1
        <4>4. CASE j # 1
          <5> DEFINE i == j - 1
          <5>1. i \in 1..(n - k) /\ ~(j <= 1) /\ m + i - 1 = k + j - 1
            BY <3>5, <4>1, <4>4
          <5> HIDE DEF i
          <5>2. u[i] = R(m + i - 1) /\ y[j] = u[i]
            BY <3>7, <4>2, <5>1 DEF i
          <5>3. QED
            BY <4>2, <5>1, <5>2
        <4>5. QED
          BY <4>3, <4>4
      <3>12. Len(y) = Len(v)
        BY <3>5, <3>8, <3>10
      <3>13. y = v
        BY <3>8, <3>10, <3>11, <3>12, SeqEqual
      <3>14. QED
        BY <3>3, <3>13 DEF y, v
    <2>3. QED
      BY <2>1, <2>2
  <1> HIDE DEF T
  <1>4. 1..n \subseteq T
    <2>1. Downward(n, T)
      BY <1>3 DEF Downward
    <2>2. QED
      BY <2>1, DownInduction
  <1>5. 1 \in T
    BY <1>4
  <1>6. WordsOf(text) = Rest(1)
    BY <1>1, <1>5 DEF T, ReadsAll
  <1>7. n - 1 + 1 = n /\ \A j \in 1..n : 1 + j - 1 = j
    OBVIOUS
  <1>8. QED
    BY <1>6, <1>7

LEMMA BlankLine ==
    ASSUME NEW C, Escapes(C), NEW text \in Seq(C), Skip(text, 1) = Len(text) + 1
    PROVE  WordsOf(text) = <<>>
  <1> DEFINE L == Len(text)
             p == L + 1
             bl == " "
             scanned == Scan(text, p, bl)
  <1>1. L \in Nat /\ p \in 1..(L + 1) /\ p > L /\ 1 \in 1..(L + 1) /\ p \in p..(L + 1)
    BY LenProperties
  <1>2. scanned = [out |-> <<>>, stop |-> p]
    <2> HIDE DEF p, bl
    <2>1. PICK f : scanned = f[p] /\ \A i \in p..(Len(text) + 1) : f[i] = ScanFrom(f, text, bl, i)
      <3>1. p \in 1..(Len(text) + 1) /\ Len(text) \in Nat
        BY <1>1
      <3> HIDE DEF L
      <3>2. QED
        BY <3>1, ScanIs
    <2>2. f[p] = ScanFrom(f, text, bl, p)
      BY <1>1, <2>1
    <2>3. ScanFrom(f, text, bl, p) = [out |-> <<>>, stop |-> p]
      BY <1>1 DEF ScanFrom
    <2>4. QED
      BY <2>1, <2>2, <2>3
  <1>3. Skip(text, 1) = p /\ ~(p <= Len(text))
    BY <1>1
  <1> DEFINE g == GetParameter(text, 1)
  <1>4. g = [word |-> <<>> \o SubSeq(text, p + 0, L), next |-> L + 1]
    <2>1. scanned.stop > Len(text) /\ scanned.out = <<>> /\ Len(scanned.out) = 0
      <3>1. <<>> = <<>> /\ Len(<<>>) = 0
        OBVIOUS
      <3> HIDE DEF scanned, p
      <3>2. scanned.stop = p /\ scanned.out = <<>>
        BY <1>2
      <3>3. QED
        BY <1>1, <3>1, <3>2
    <2>2. g = IF scanned.stop > Len(text)
              THEN [word |-> scanned.out \o SubSeq(text, p + Len(scanned.out), Len(text)),
                    next |-> Len(text) + 1]
              ELSE [word |-> scanned.out, next |-> Skip(text, scanned.stop + 1)]
      <3> HIDE DEF scanned, p
      <3>1. QED
        BY <1>3 DEF GetParameter, scanned, bl
    <2>3. g = [word |-> scanned.out \o SubSeq(text, p + Len(scanned.out), Len(text)),
               next |-> Len(text) + 1]
      BY <2>1, <2>2
    <2>4. QED
      <3> HIDE DEF scanned, p
      <3>1. QED
        BY <2>1, <2>3
  <1>5. g.word = <<>>
    <2> DEFINE x == SubSeq(text, p + 0, L)
    <2>1. x \in Seq(C) /\ Len(x) = 0
      <3> DEFINE i == p + 0
      <3>1. i \in Int /\ L \in Int /\ i = L + 1 /\ \A j \in i..L : text[j] \in C
        BY <1>1
      <3> HIDE DEF i, L
      <3>2. SubSeq(text, i, L) \in Seq(C) /\ Len(SubSeq(text, i, L)) = (IF i <= L THEN L - i + 1 ELSE 0)
        BY <3>1, SubSeqProperties
      <3>3. ~(i <= L)
        BY <3>1
      <3>4. QED
        BY <3>2, <3>3 DEF i
    <2> HIDE DEF x
    <2>2. x = <<>>
      BY <2>1, EmptySeq
    <2>3. <<>> \o x = <<>>
      BY <2>1, <2>2, ConcatEmptySeq
    <2>4. QED
      BY <1>4, <2>3 DEF x
  <1>6. PICK f : WordsOf(text) = f[1] /\ \A i \in 1..(Len(text) + 1) : f[i] = WordsFrom(f, text, i)
    BY WordsIs
  <1>7. f[1] = WordsFrom(f, text, 1)
    BY <1>1, <1>6
  <1>8. QED
    BY <1>5, <1>6, <1>7 DEF WordsFrom
=============================================================================
