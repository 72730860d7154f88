------------------------------ MODULE Message ------------------------------
(***************************************************************************)
(* The message of a record as config() puts it together from a word of the *)
(* command line, with the check sum of the -m and -mx modes, what goes out *)
(* for it, and the check of a reply in nmea.cpp.  A message is a sequence  *)
(* of bytes.                                                               *)
(***************************************************************************)
EXTENDS Words

CONSTANTS Code,         \* the byte that stands for a symbol in a message
          UIntRange,    \* an unsigned int is below it
          TimeText      \* what strftime() puts for % and a byte

Dollar  == 36
Percent == 37
Star    == 42
CrLf    == <<13, 10>>

ASSUME CodeAssumption ==
    \A c \in DOMAIN Code :
        Code[c] \in 1..255 /\ (Code[c] = Star <=> c = "*") /\ (Code[c] = Percent <=> c = "%")

ASSUME UIntAssumption == UIntRange \in Nat /\ UIntRange >= 65536
ASSUME TimeTextAssumption == TimeText \in [1..255 -> Seq(1..255)]

Digits == <<"0", "1", "2", "3", "4", "5", "6", "7", "8", "9">>

Value(c) == (CHOOSE d \in DOMAIN Digits : Digits[d] = c) - 1
DecimalDigits == ToSet(Digits)

(* A number of at most n digits, from position i of the word on; -1 if     *)
(* there is none.  This is strtoul() and sscanf() with %d.                 *)
ValueOf(digits) == FoldLeft(LAMBDA sum, c : 10 * sum + Value(c), 0, digits)

Number(word, i, n) ==
    LET end == Min({j \in i..(i + n) :
                       \/ j = i + n \/ j > Len(word)
                       \/ word[j] \notin DecimalDigits})
    IN  IF end = i THEN -1 ELSE ValueOf(SubSeq(word, i, end - 1))

-----------------------------------------------------------------------------
(* The number that sscanf() finds with %x from byte i on, in as many bytes *)
(* as the width: blanks in front, which the width does not count, a sign   *)
(* and 0x are passed over.  Without a digit the variable is left as it is. *)
Blanks   == 9..13 \cup {32}
Minus    == 45
Signs    == {43, Minus}
ZeroX(b, c) == b = 48 /\ c \in {88, 120}

FromHex(b) ==
    CASE b \in 48..57 -> b - 48 [] b \in 65..70 -> b - 55 [] b \in 97..102 -> b - 87
      [] OTHER -> -1

HexValue(bytes) == FoldLeft(LAMBDA sum, b : 16 * sum + FromHex(b), 0, bytes)

HexAt(bytes, i, width, unread) ==
    LET first == Min({j \in i..Len(bytes) : bytes[j] \notin Blanks} \cup {Len(bytes) + 1})
        stop  == IF first + width <= Len(bytes) THEN first + width ELSE Len(bytes) + 1
        At(j) == IF j < stop THEN bytes[j] ELSE 0
        start == IF At(first) \in Signs THEN first + 1 ELSE first
        from  == IF ZeroX(At(start), At(start + 1)) THEN start + 2 ELSE start
        end   == Min({j \in from..stop : FromHex(At(j)) = -1})
        n     == HexValue(SubSeq(bytes, from, end - 1))
    IN  IF end = from THEN unread ELSE IF At(first) = Minus THEN -n ELSE n

-----------------------------------------------------------------------------
Bytes(symbols) == [i \in DOMAIN symbols |-> Code[symbols[i]]]

(* \xHH: the byte is read from two digits, but only the x and one digit    *)
(* are passed over.  \jN takes in an argument of -j.                       *)
HexByte(word, i) == HexAt(Bytes(word), i, 2, 0) % 256

ArgNumber(word, i) == LET n == Number(word, i, 9) IN IF n = -1 THEN 0 ELSE n

AfterArgNumber(word, i) == IF i <= Len(word) /\ word[i] \in DecimalDigits THEN i + 1 ELSE i

(* The word without its escapes.  One that a backslash ends is left by one *)
(* character, into the zeros behind it.                                    *)
Unescape(word, args) ==
    LET from[i \in 1..(Len(word) + 3)] ==
            IF i > Len(word) THEN <<>>
            ELSE IF word[i] # Backslash THEN Bytes(<<word[i]>>) \o from[i + 1]
            ELSE IF i = Len(word) THEN <<0>>
            ELSE CASE word[i + 1] = "r" -> <<13>> \o from[i + 2]
                   [] word[i + 1] = "n" -> <<10>> \o from[i + 2]
                   [] word[i + 1] = "x" -> <<HexByte(word, i + 2)>> \o from[i + 3]
                   [] word[i + 1] = "j" ->
                         Bytes(args[ArgNumber(word, i + 2) + 1])
                             \o from[AfterArgNumber(word, i + 2)]
                   [] OTHER -> Bytes(<<word[i + 1]>>) \o from[i + 2]
    IN  from[1]

(* All \jN of a word name an argument that -j gave.                        *)
ArgsGiven(word, args) ==
    \A i \in 1..(Len(word) - 1) :
        word[i] = Backslash /\ word[i + 1] = "j" =>
            ArgNumber(word, i + 2) + 1 \in DOMAIN args

-----------------------------------------------------------------------------
(* The position of a byte, the length plus one if it is not there.         *)
Find(bytes, b) ==
    Min({i \in DOMAIN bytes : bytes[i] = b} \cup {Len(bytes) + 1})

(* A string ends at its first zero.                                        *)
CString(bytes) == SubSeq(bytes, 1, Find(bytes, 0) - 1)

SumWide(bytes) == FoldLeft(LAMBDA sum, b : sum + b, 0, bytes)   \* mutant: no & 0xff
Sum(bytes) == SumWide(bytes) % 256

(* The exclusive or of two bytes, bit by bit.                              *)
Xor(a, b) ==
    LET bit(v) == v * ((a \div v + b \div v) % 2)
    IN  bit(1) + bit(2) + bit(4) + bit(8) + bit(16) + bit(32) + bit(64) + bit(128)

XorAll(bytes) == FoldLeft(Xor, 0, bytes)
XorFromDollar(bytes) == XorAll(<<Dollar>> \o bytes)   \* mutant: the $ is not skipped
XorSum(bytes) == XorAll(bytes)

HexCode(n) == IF n < 10 THEN 48 + n ELSE 55 + n

(* A sentence, if the record's nmea mode is set and there is a $ in it.    *)
Summed(message, nmea) ==
    LET dollar == Find(CString(message), Dollar)
        body   == SubSeq(message, dollar + 1, Len(message))
        sum    == XorSum(body)
    IN  IF nmea = 0 \/ dollar > Len(CString(message)) THEN message
        ELSE IF nmea = 1
        THEN message \o <<Star, HexCode(sum \div 16), HexCode(sum % 16)>> \o CrLf
        ELSE message \o <<Sum(body)>> \o CrLf

(* What goes out: if there is a % in the message, what strftime() makes of *)
(* it, up to its first zero, and it knows nothing of a sum in it.          *)
Expanded(bytes) ==
    LET from[i \in 1..(Len(bytes) + 2)] ==
            IF i > Len(bytes) THEN <<>>
            ELSE IF bytes[i] # Percent THEN <<bytes[i]>> \o from[i + 1]
            ELSE (IF i = Len(bytes) THEN <<>> ELSE TimeText[bytes[i + 1]]) \o from[i + 2]
    IN  from[1]

Sent(message) ==
    IF Percent \in ToSet(CString(message)) THEN Expanded(CString(message)) ELSE message

(* NmeaCheck() of a string in which there is a star: -1 without a          *)
(* sentence, 0 if the sum is right, 1 if it is not.  Where no number can   *)
(* be read, the count i of the loop before is taken for it.                *)
NmeaCheck(bytes) ==
    LET startCh == Find(bytes, Dollar)
        starCh  == Find(bytes, Star)
        i       == IF starCh > startCh THEN starCh - 1 ELSE startCh
    IN  IF Len(bytes) - startCh + 1 <= 4 \/ starCh = 1 THEN -1
        ELSE IF HexAt(bytes, starCh + 1, Len(bytes), i) % UIntRange
                    = XorAll(SubSeq(bytes, startCh + 1, starCh - 1))
        THEN 0 ELSE 1

(* The changes of one byte behind the dollar that the check must notice:   *)
(* any in the text; behind the star, another digit.  Something else in     *)
(* place of one passes for a leading zero, and where nothing can be read   *)
(* the position of the star is taken for the sum.                          *)
Noticed(out, i, b) ==
    LET dollar == Find(out, Dollar)
        star   == Find(out, Star)
        sum    == XorAll(SubSeq(out, dollar + 1, star - 1))
    IN  \/ dollar < i /\ i < star /\ b # Star
        \/ /\ i \in (star + 1)..(star + 3) /\ FromHex(b) # FromHex(out[i])
           /\ \/ FromHex(b) # -1 /\ FromHex(out[i]) # -1
              \/ sum >= 16 /\ sum # (star - 1) % UIntRange
=============================================================================
