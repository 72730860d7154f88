--------------------------- MODULE WatchPlotProofs ---------------------------
(***************************************************************************)
(* Proofs about LogFile and WatchPlot: that the log is whole, and what the *)
(* plotter reads of it and survives, for any number of lines, names and    *)
(* shapes.                                                                 *)
(***************************************************************************)
EXTENDS WatchPlot, SequenceLemmas, FiniteSetTheorems

LoggerVars == <<logger, printed, file, exists>>

(* What the plotter does is nothing to the log.                            *)
LEMMA PlotterFrame ==
    ASSUME Register \/ PlotStep \/ Overflow
    PROVE  UNCHANGED LoggerVars
  BY DEF Register, PlotStep, Overflow, PollEvents, Follow, EventsDone, ReadLine,
     ReadNull, folder, LoggerVars

-----------------------------------------------------------------------------
(***************************************************************************)
(* The names.  From the first pass on the name that is due is the name of  *)
(* the stream, unless its file could not be opened.                        *)
(***************************************************************************)

NameInv ==
    /\ rolls \in BOOLEAN /\ name \in Name
    /\ rollFile \in {-1, 0, 1}
    /\ rolls => rollFile = 1
    /\ ~rolls => rollFile = IF passName = None THEN -1 ELSE 0
    /\ passName \in Name \cup {None} /\ logStream \in {passName, None}
    /\ logFileNameExp = passName /\ logFileNameLast = passName
    /\ passName # None /\ logStream = None => passName \in refused
    /\ refused \subseteq Name /\ exists \subseteq Name

LEMMA NameFacts == Name \subseteq Nat /\ None \notin Name /\ 1 \in Name
  BY LogBoundsAssumption DEF Name, None

LEMMA NameKept == NameInv /\ [Next]_vars => NameInv'
  <1> SUFFICES ASSUME NameInv, [Next]_vars PROVE NameInv'
    OBVIOUS
  <1>1. ASSUME UNCHANGED <<rolls, naming, passName, refused, exists>> PROVE NameInv'
    BY <1>1, Zenon DEF NameInv, naming
  <1>2. CASE UNCHANGED vars
    BY <1>1, <1>2 DEF vars, logger, folder, printed
  <1>3. CASE Register \/ PlotStep \/ Overflow
    BY <1>1, <1>3, PlotterFrame DEF LoggerVars, logger, printed
  <1>4. CASE BeginLine
    BY <1>1, <1>4 DEF BeginLine, Counted, WriteOut
  <1>5. CASE Spill \/ EndLine
    BY <1>1, <1>5 DEF Spill, EndLine, WriteOut, printed
  <1>6. CASE BeginPass
    <2>1. rolls' = rolls /\ name' \in Name /\ passName \in Name \cup {None}
      BY <1>6, LogBoundsAssumption DEF BeginPass, Name, NameInv
    <2>2. /\ rolls => rollFile' = 1
          /\ ~rolls => rollFile' = 0
          /\ logFileNameExp' = passName' /\ passName' \in Name
      <3>1. CASE rolls
        <4>1. rollFile = 1
          BY <3>1, Zenon DEF NameInv
        <4>2. /\ logFileNameExp' = name' /\ rollFile' = 1
          BY <1>6, <4>1 DEF BeginPass, RollAfter
        <4>3. passName' = name'
          BY <1>6, <3>1, Zenon DEF BeginPass
        <4>4. QED
          BY <2>1, <3>1, <4>2, <4>3, Zenon
      <3>2. CASE ~rolls
        <4>1. rollFile = IF passName = None THEN -1 ELSE 0
          BY <3>2, Zenon DEF NameInv
        <4>2. rollFile' = 0
          BY <1>6, <4>1 DEF BeginPass, RollAfter
        <4>3. passName' = IF passName = None THEN name' ELSE passName
          BY <1>6, <3>2, Zenon DEF BeginPass
        <4>4. logFileNameExp' = passName'
          BY <1>6, <4>1, <4>3 DEF BeginPass, NameInv
        <4>5. passName' \in Name
          BY <2>1, <4>3
        <4>6. QED
          BY <3>2, <4>2, <4>4, <4>5, Zenon
      <3>3. QED
        BY <3>1, <3>2, Zenon
    <2>3. /\ logFileNameLast' = passName' /\ logStream' \in {passName', None}
          /\ refused \subseteq refused' /\ refused' \subseteq Name /\ exists' \subseteq Name
          /\ logStream' = None => passName' \in refused'
      <3>1. /\ logFileNameExp' = passName' /\ passName' \in Name
            /\ passName \in Name \cup {None} /\ logStream \in {passName, None}
            /\ passName # None /\ logStream = None => passName \in refused
            /\ logFileNameExp = passName /\ logFileNameLast = passName
            /\ refused \subseteq Name /\ exists \subseteq Name
        BY <2>2, Zenon DEF NameInv
      <3>2. CASE logFileNameExp' # logFileNameLast
        <4>1. Open /\ logFileNameLast' = logFileNameExp'
          BY <1>6, <3>2 DEF BeginPass
        <4>2. QED
          BY <3>1, <4>1, NameFacts DEF Open
      <3>3. CASE logFileNameExp' = logFileNameLast
        <4>1. UNCHANGED <<logStream, logFileNameLast, exists, refused>>
          BY <1>6, <3>3 DEF BeginPass
        <4>2. QED
          BY <3>1, <3>3, <4>1, NameFacts
      <3>4. QED
        BY <3>2, <3>3
    <2>4. /\ passName' # None /\ 1 \in {-1, 0, 1} /\ 0 \in {-1, 0, 1}
          /\ (IF passName' = None THEN -1 ELSE 0) = 0
      BY <2>2, NameFacts
    <2>5. rolls \in BOOLEAN
      BY DEF NameInv
    <2>6. rollFile' \in {-1, 0, 1}
      BY <2>2, <2>4, <2>5, Zenon
    <2> DEFINE mark == IF passName' = None THEN -1 ELSE 0
    <2>7. mark = 0
      BY <2>4
    <2> HIDE DEF mark
    <2>8. ~rolls' => rollFile' = mark
      BY <2>1, <2>2, <2>7, Zenon
    <2>9. QED
      BY <2>1, <2>2, <2>3, <2>5, <2>6, <2>8, Zenon DEF NameInv, mark
  <1>7. QED
    BY <1>2, <1>3, <1>4, <1>5, <1>6 DEF Next, LoggerNext, LogStep

-----------------------------------------------------------------------------
(***************************************************************************)
(* The lines.                                                              *)
(***************************************************************************)

LineInv ==
    /\ shape \in Scripts /\ line \in 0..Len(shape)
    /\ lpc \in {"records", "reply", "end"}
    /\ buffer \in Seq(Piece) /\ (lpc = "records" => buffer = <<>>)
    /\ lpc # "records" => line \in Nat \ {0}
    /\ named \in Seq(Name) /\ Len(named) = line
    /\ unlogged \subseteq 1..line
    /\ \A n \in unlogged : named[n] \in refused

LEMMA ShapeType ==
    ASSUME LineInv
    PROVE  shape \in Seq(Shape) /\ Len(shape) \in Nat /\ line \in Nat
  BY LogBoundsAssumption, LenProperties DEF LineInv

LEMMA PieceType ==
    ASSUME NEW n \in Nat \ {0}, NEW p \in Part
    PROVE  [line |-> n, part |-> p] \in Piece /\ <<[line |-> n, part |-> p]>> \in Seq(Piece)
  <1>1. [line |-> n, part |-> p] \in Piece
    BY DEF Piece
  <1>2. QED
    BY <1>1

LEMMA OpeningType ==
    ASSUME LineInv, Counted
    PROVE  Opening \in Seq(Piece)
  <1>1. line' \in Nat \ {0}
    BY ShapeType DEF Counted
  <1>2. <<PieceOf("head")>> \in Seq(Piece) /\ <<PieceOf("tx")>> \in Seq(Piece)
    BY <1>1, PieceType DEF PieceOf, Part
  <1>3. <<>> \in Seq(Piece)
    BY EmptySeq
  <1>4. QED
    BY <1>2, <1>3, ConcatProperties DEF Opening

LEMMA LineKept == NameInv /\ LineInv /\ [Next]_vars => LineInv'
  <1> SUFFICES ASSUME NameInv, LineInv, [Next]_vars PROVE LineInv'
    OBVIOUS
  <1>1. ASSUME UNCHANGED <<shape, line, lpc, buffer, named, unlogged>>,
               refused \subseteq refused'
        PROVE  LineInv'
    BY <1>1 DEF LineInv
  <1>2. CASE UNCHANGED vars
    BY <1>1, <1>2 DEF vars, logger, printed
  <1>3. CASE Register \/ PlotStep \/ Overflow
    BY <1>1, <1>3, PlotterFrame DEF LoggerVars, logger, printed
  <1>4. CASE BeginPass
    BY <1>1, <1>4 DEF BeginPass, Open
  <1>5. CASE BeginLine
    <2>1. /\ line' = line + 1 /\ line' \in 1..Len(shape) /\ shape' = shape /\ lpc' = "reply"
          /\ refused' = refused /\ passName \in Name /\ lpc = "records"
      BY <1>5, ShapeType DEF BeginLine, Counted, NameInv
    <2>2. buffer' \in Seq(Piece)
      <3>1. Opening \in Seq(Piece)
        BY <1>5, OpeningType DEF BeginLine
      <3>2. QED
        BY <1>5, <3>1 DEF BeginLine, LineInv
    <2>3. /\ named' \in Seq(Name) /\ Len(named') = line' /\ named'[line'] = passName
          /\ \A n \in 1..line : named'[n] = named[n]
      BY <1>5, <2>1, AppendProperties DEF BeginLine, Counted, LineInv
    <2>4. unlogged' = IF logStream = None THEN unlogged \cup {line'} ELSE unlogged
      BY <1>5 DEF BeginLine, Counted
    <2>5. logStream = None => passName \in refused
      BY <2>1, NameFacts DEF NameInv
    <2>6. unlogged' \subseteq 1..line'
      BY <2>1, <2>4, ShapeType DEF LineInv
    <2>7. \A n \in unlogged' : named'[n] \in refused'
      BY <2>1, <2>3, <2>4, <2>5 DEF LineInv
    <2>8. QED
      BY <2>1, <2>2, <2>3, <2>6, <2>7, ShapeType DEF LineInv
  <1>6. CASE Spill
    <2>1. /\ UNCHANGED <<shape, line, named, unlogged, refused>> /\ lpc = "reply"
          /\ lpc' = "end" /\ buffer' = <<PieceOf("rest")>>
      BY <1>6 DEF Spill, printed
    <2>2. buffer' \in Seq(Piece)
      BY <2>1, PieceType DEF LineInv, PieceOf, Part
    <2>3. QED
      BY <2>1, <2>2 DEF LineInv
  <1>7. CASE EndLine
    <2>1. /\ UNCHANGED <<shape, line, named, unlogged, refused>>
          /\ lpc' = "records" /\ buffer' = <<>>
      BY <1>7 DEF EndLine, printed
    <2>2. QED
      BY <2>1, EmptySeq DEF LineInv
  <1>8. QED
    BY <1>2, <1>3, <1>4, <1>5, <1>6, <1>7 DEF Next, LoggerNext, LogStep

-----------------------------------------------------------------------------
(***************************************************************************)
(* The files.  What is still to come of a line that has begun is the text  *)
(* that stdio holds back and the pieces that were not printed yet; with    *)
(* them each file holds its lines.                                         *)
(***************************************************************************)

Of(n, part) == [line |-> n, part |-> part]
Remains ==
    IF lpc = "end" THEN <<Of(line, "end")>>
    ELSE <<Of(line, "reply"), Of(line, "rest"), Of(line, "end")>>
Pending(k) ==
    IF lpc # "records" /\ logStream = k THEN buffer \o Remains ELSE <<>>

FileInv ==
    /\ file \in [Name -> Seq(Piece)]
    /\ \A k \in Name : LinesFor(k) = file[k] \o Pending(k)

(* The pieces and their sequences, for a set that the provers see whole.   *)
LEMMA PieceConcat ==
    ASSUME NEW a \in Seq(Piece), NEW b \in Seq(Piece)
    PROVE  /\ a \o b \in Seq(Piece) /\ <<>> \in Seq(Piece)
           /\ a \o <<>> = a /\ <<>> \o a = a
  <1> HIDE DEF Piece
  <1> QED BY ConcatProperties, ConcatEmptySeq, EmptySeq

LEMMA PieceAssociative ==
    ASSUME NEW a \in Seq(Piece), NEW b \in Seq(Piece), NEW c \in Seq(Piece)
    PROVE  (a \o b) \o c = a \o (b \o c)
  BY ConcatAssociative

LEMMA OfType ==
    ASSUME NEW n \in Nat \ {0}
    PROVE  /\ \A p \in Part : Of(n, p) \in Piece
           /\ \A p \in Part : <<Of(n, p)>> \in Seq(Piece)
           /\ \A p, q, r \in Part : <<Of(n, p), Of(n, q), Of(n, r)>> \in Seq(Piece)
           /\ \A p, q, r \in Part :
                 <<Of(n, p), Of(n, q), Of(n, r)>>
                    = <<Of(n, p)>> \o <<Of(n, q), Of(n, r)>>
           /\ \A p, q \in Part : <<Of(n, p), Of(n, q)>> = <<Of(n, p)>> \o <<Of(n, q)>>
           /\ \A p, q \in Part : <<Of(n, p), Of(n, q)>> \in Seq(Piece)
  <1>1. \A p \in Part : Of(n, p) \in Piece
    BY DEF Of, Piece
  <1> HIDE DEF Piece
  <1>2. \A p \in Part : <<Of(n, p)>> \in Seq(Piece)
    BY <1>1
  <1>3. \A p, q \in Part : <<Of(n, p), Of(n, q)>> \in Seq(Piece)
    BY <1>1
  <1>4. \A p, q, r \in Part : <<Of(n, p), Of(n, q), Of(n, r)>> \in Seq(Piece)
    BY <1>1
  <1>5. \A p, q \in Part : <<Of(n, p), Of(n, q)>> = <<Of(n, p)>> \o <<Of(n, q)>>
    OBVIOUS
  <1>6. \A p, q, r \in Part :
           <<Of(n, p), Of(n, q), Of(n, r)>> = <<Of(n, p)>> \o <<Of(n, q), Of(n, r)>>
    OBVIOUS
  <1>7. QED
    BY <1>1, <1>2, <1>3, <1>4, <1>5, <1>6

(* The texts that the logger prints.                                       *)
LEMMA PartTexts ==
    ASSUME NEW n \in Nat \ {0}
    PROVE  /\ <<Of(n, "head")>> \in Seq(Piece) /\ <<Of(n, "tx")>> \in Seq(Piece)
           /\ <<Of(n, "reply")>> \in Seq(Piece) /\ <<Of(n, "end")>> \in Seq(Piece)
           /\ <<Of(n, "rest"), Of(n, "end")>> \in Seq(Piece)
           /\ <<Of(n, "reply"), Of(n, "rest"), Of(n, "end")>> \in Seq(Piece)
           /\ <<Of(n, "reply"), Of(n, "rest"), Of(n, "end")>>
                 = <<Of(n, "reply")>> \o <<Of(n, "rest"), Of(n, "end")>>
           /\ <<Of(n, "rest"), Of(n, "end")>> = <<Of(n, "rest")>> \o <<Of(n, "end")>>
  <1>1. {"head", "tx", "reply", "rest", "end"} = Part
    BY DEF Part
  <1>2. \A p \in Part : Of(n, p) \in Piece
    BY OfType
  <1>3. /\ Of(n, "head") \in Piece /\ Of(n, "tx") \in Piece /\ Of(n, "reply") \in Piece
        /\ Of(n, "rest") \in Piece /\ Of(n, "end") \in Piece
    BY <1>1, <1>2
  <1> HIDE DEF Piece, Of
  <1>4. /\ <<Of(n, "head")>> \in Seq(Piece) /\ <<Of(n, "tx")>> \in Seq(Piece)
        /\ <<Of(n, "reply")>> \in Seq(Piece) /\ <<Of(n, "end")>> \in Seq(Piece)
    BY <1>3
  <1>5. /\ <<Of(n, "rest"), Of(n, "end")>> \in Seq(Piece)
        /\ <<Of(n, "reply"), Of(n, "rest"), Of(n, "end")>> \in Seq(Piece)
    BY <1>3
  <1>6. <<Of(n, "reply"), Of(n, "rest"), Of(n, "end")>>
           = <<Of(n, "reply")>> \o <<Of(n, "rest"), Of(n, "end")>>
    OBVIOUS
  <1>7. <<Of(n, "rest"), Of(n, "end")>> = <<Of(n, "rest")>> \o <<Of(n, "end")>>
    OBVIOUS
  <1>8. QED
    BY <1>4, <1>5, <1>6, <1>7

LEMMA RemainsType ==
    ASSUME line \in Nat \ {0}
    PROVE  Remains \in Seq(Piece)
  <1> DEFINE n == line
  <1>1. n \in Nat \ {0}
    OBVIOUS
  <1> HIDE DEF n
  <1>2. <<Of(n, "end")>> \in Seq(Piece)
        /\ <<Of(n, "reply"), Of(n, "rest"), Of(n, "end")>> \in Seq(Piece)
    BY <1>1, PartTexts
  <1>3. QED
    BY <1>2 DEF Remains, n

(* A line is its opening and what remains after it.                        *)
Begun(n) ==
    <<Of(n, "head")>> \o (IF shape[n].sends THEN <<Of(n, "tx")>> ELSE <<>>)

LEMMA LineParts ==
    ASSUME NEW n \in Nat \ {0}
    PROVE  /\ Line(n) = Begun(n) \o <<Of(n, "reply"), Of(n, "rest"), Of(n, "end")>>
           /\ Line(n) \in Seq(Piece) /\ Begun(n) \in Seq(Piece)
  <1>1. Line(n) = Begun(n) \o <<Of(n, "reply"), Of(n, "rest"), Of(n, "end")>>
    BY DEF Line, Begun, Of
  <1>2. /\ <<Of(n, "head")>> \in Seq(Piece) /\ <<Of(n, "tx")>> \in Seq(Piece)
        /\ <<>> \in Seq(Piece)
        /\ <<Of(n, "reply"), Of(n, "rest"), Of(n, "end")>> \in Seq(Piece)
    BY PartTexts, EmptySeq
  <1>3. Begun(n) \in Seq(Piece)
    BY <1>2, PieceConcat DEF Begun
  <1>4. QED
    BY <1>1, <1>2, <1>3, PieceConcat

(* The lines that belong in a file.                                        *)
Belongs(k) == [n \in 1..line |-> IF named[n] = k /\ n \notin unlogged THEN Line(n) ELSE <<>>]

LEMMA BelongsType ==
    ASSUME LineInv, NEW k
    PROVE  /\ Belongs(k) \in Seq(Seq(Piece)) /\ Len(Belongs(k)) = line
           /\ LinesFor(k) = FlattenSeq(Belongs(k)) /\ LinesFor(k) \in Seq(Piece)
  <1>1. line \in Nat
    BY ShapeType
  <1>2. ASSUME NEW n \in 1..line PROVE Line(n) \in Seq(Piece) /\ <<>> \in Seq(Piece)
    <2>1. n \in Nat \ {0}
      BY <1>1
    <2>2. Line(n) \in Seq(Piece)
      BY <2>1, LineParts
    <2>3. <<>> \in Seq(Piece)
      OBVIOUS
    <2>4. QED
      BY <2>2, <2>3
  <1> DEFINE T == Seq(Piece)
  <1>3. \A n \in 1..line : (IF named[n] = k /\ n \notin unlogged THEN Line(n) ELSE <<>>) \in T
    BY <1>2
  <1> HIDE DEF T
  <1>4. Belongs(k) \in Seq(T) /\ Len(Belongs(k)) = line
    BY <1>1, <1>3 DEF Belongs
  <1>5. LinesFor(k) = FlattenSeq(Belongs(k))
    BY DEF LinesFor, Belongs
  <1>6. QED
    BY <1>4, <1>5, FlattenType DEF T

LEMMA LinesSame ==
    ASSUME NEW k, UNCHANGED <<shape, line, named, unlogged>>
    PROVE  LinesFor(k)' = LinesFor(k)
  BY DEF LinesFor, Line

(* A line that begins is added to the file of its pass, if it is open.     *)
LEMMA LinesGrow ==
    ASSUME NameInv, LineInv, LineInv', NEW k \in Name, shape' = shape,
           line' = line + 1, named' = Append(named, passName), passName \in Name,
           unlogged' = IF logStream = None THEN unlogged \cup {line'} ELSE unlogged
    PROVE  LinesFor(k)' = LinesFor(k) \o (IF logStream = k THEN Line(line + 1) ELSE <<>>)
  <1> DEFINE new == IF logStream = k THEN Line(line + 1) ELSE <<>>
             T == Seq(Piece)
  <1>1. /\ line \in Nat /\ unlogged \subseteq 1..line /\ k # None
        /\ logStream \in {passName, None} /\ Len(named) = line /\ named \in Seq(Name)
    BY ShapeType, NameFacts DEF LineInv, NameInv
  <1>2. /\ named'[line + 1] = passName
        /\ \A n \in 1..line : named'[n] = named[n]
    BY <1>1, AppendProperties
  <1>3. \A n \in 1..line : n \in unlogged' <=> n \in unlogged
    BY <1>1
  <1>4. line + 1 \in unlogged' <=> logStream = None
    BY <1>1
  <1>5. \A n : Line(n)' = Line(n)
    BY DEF Line
  <1>6. named'[line + 1] = k /\ line + 1 \notin unlogged' <=> logStream = k
    BY <1>1, <1>2, <1>4
  <1>7. Line(line + 1) \in T /\ <<>> \in T
    <2>1. line + 1 \in Nat \ {0}
      BY <1>1
    <2>2. Line(line + 1) \in Seq(Piece)
      BY <2>1, LineParts
    <2>3. <<>> \in Seq(Piece)
      OBVIOUS
    <2>4. QED
      BY <2>2, <2>3
  <1>8. new \in T
    BY <1>7
  <1>9. Belongs(k)' = [n \in 1..(line + 1) |-> IF n = line + 1 THEN new ELSE Belongs(k)[n]]
    <2>1. Belongs(k)' = [n \in 1..(line + 1) |->
              IF named'[n] = k /\ n \notin unlogged' THEN Line(n) ELSE <<>>]
      BY <1>5 DEF Belongs
    <2>2. \A n \in 1..line : Belongs(k)[n] =
              IF named'[n] = k /\ n \notin unlogged' THEN Line(n) ELSE <<>>
      BY <1>2, <1>3 DEF Belongs
    <2>3. new = IF named'[line + 1] = k /\ line + 1 \notin unlogged'
                THEN Line(line + 1) ELSE <<>>
      BY <1>6
    <2> HIDE DEF new
    <2>4. \A n \in 1..(line + 1) : n = line + 1 \/ n \in 1..line
      BY <1>1
    <2>5. QED
      BY <2>1, <2>2, <2>3, <2>4
  <1>10. /\ Belongs(k) \in Seq(T) /\ Len(Belongs(k)) = line
         /\ LinesFor(k) = FlattenSeq(Belongs(k)) /\ LinesFor(k)' = FlattenSeq(Belongs(k)')
    BY BelongsType DEF LinesFor, Belongs
  <1> HIDE DEF new, T
  <1> DEFINE old == Belongs(k)
  <1>11. old \in Seq(T) /\ Len(old) = line
    BY <1>10
  <1>12. Belongs(k)' = [n \in 1..(line + 1) |-> IF n = line + 1 THEN new ELSE old[n]]
    BY <1>9
  <1> HIDE DEF old
  <1>13. Append(old, new) = [n \in 1..(line + 1) |-> IF n = line + 1 THEN new ELSE old[n]]
    <2> DEFINE both == Append(old, new)
    <2>1. /\ both \in Seq(T) /\ Len(both) = line + 1 /\ both[line + 1] = new
          /\ \A n \in 1..line : both[n] = old[n]
      BY <1>1, <1>8, <1>11, AppendProperties
    <2> HIDE DEF both
    <2>2. both = [n \in 1..(line + 1) |-> both[n]]
      BY <2>1, LenProperties
    <2>3. \A n \in 1..(line + 1) : both[n] = IF n = line + 1 THEN new ELSE old[n]
      BY <1>1, <2>1
    <2>4. QED
      BY <2>2, <2>3 DEF both
  <1>14. FlattenSeq(Append(old, new)) = FlattenSeq(old) \o new
    BY <1>8, <1>11, FlattenAppend DEF T
  <1>15. QED
    BY <1>10, <1>12, <1>13, <1>14 DEF old, new

LEMMA WriteOutAdds ==
    ASSUME NEW text \in Seq(Piece), WriteOut(text), FileInv, NameInv
    PROVE  /\ file' \in [Name -> Seq(Piece)]
           /\ \A k \in Name : file'[k] = IF logStream = k THEN file[k] \o text ELSE file[k]
  <1>1. logStream \in Name \cup {None} /\ None \notin Name /\ file \in [Name -> Seq(Piece)]
    BY NameFacts DEF NameInv, FileInv
  <1>2. \A k \in Name : file[k] \o text \in Seq(Piece) /\ file[k] \o <<>> = file[k]
    BY <1>1, PieceConcat
  <1>3. CASE logStream = None \/ text = <<>>
    <2>1. file' = file
      BY <1>3 DEF WriteOut
    <2>2. QED
      BY <1>1, <1>2, <1>3, <2>1
  <1>4. CASE ~(logStream = None \/ text = <<>>)
    <2>1. file' = [file EXCEPT ![logStream] = file[logStream] \o text]
      BY <1>4 DEF WriteOut
    <2>2. QED
      BY <1>1, <1>2, <1>4, <2>1
  <1>5. QED
    BY <1>3, <1>4

LEMMA FileKept == NameInv /\ LineInv /\ LineInv' /\ FileInv /\ [Next]_vars => FileInv'
  <1> SUFFICES ASSUME NameInv, LineInv, LineInv', FileInv, [Next]_vars PROVE FileInv'
    OBVIOUS
  <1>1. /\ file \in [Name -> Seq(Piece)]
        /\ \A k \in Name : LinesFor(k) = file[k] \o Pending(k)
        /\ \A k \in Name : file[k] \in Seq(Piece)
    BY DEF FileInv
  <1>2. ASSUME UNCHANGED <<shape, line, named, unlogged, file, lpc, logStream, buffer>>
        PROVE  FileInv'
    BY <1>2, <1>1, LinesSame DEF FileInv, Pending, Remains
  <1>3. CASE UNCHANGED vars
    BY <1>2, <1>3 DEF vars, logger, folder, printed, naming
  <1>4. CASE Register \/ PlotStep \/ Overflow
    BY <1>2, <1>4, PlotterFrame DEF LoggerVars, logger, printed, naming
  <1>5. CASE BeginPass
    <2>1. /\ UNCHANGED <<shape, line, named, unlogged, file, lpc>> /\ lpc = "records"
      BY <1>5 DEF BeginPass
    <2>2. \A k \in Name : LinesFor(k)' = LinesFor(k)
      BY <2>1, LinesSame
    <2>3. \A k : Pending(k) = <<>> /\ Pending(k)' = <<>>
      BY <2>1 DEF Pending
    <2>4. QED
      BY <1>1, <2>1, <2>2, <2>3 DEF FileInv
  <1>6. CASE BeginLine
    <2> DEFINE n == line + 1
    <2>1. /\ n \in Nat \ {0} /\ lpc = "records" /\ lpc' = "reply" /\ line' = n
          /\ shape' = shape /\ passName \in Name /\ logStream' = logStream
          /\ named' = Append(named, passName) /\ buffer = <<>>
          /\ unlogged' = IF logStream = None THEN unlogged \cup {line'} ELSE unlogged
      BY <1>6, ShapeType, NameFacts DEF BeginLine, Counted, NameInv, LineInv, naming
    <2>2. Opening = Begun(n) /\ Begun(n) \in Seq(Piece)
      BY <2>1, LineParts DEF Opening, Begun, PieceOf, Of
    <2> DEFINE rest == <<Of(n, "reply"), Of(n, "rest"), Of(n, "end")>>
    <2>3. Remains' = rest /\ rest \in Seq(Piece)
      <3>1. rest \in Seq(Piece)
        BY <2>1, PartTexts
      <3>2. QED
        BY <2>1, <3>1 DEF Remains
    <2>4. \A k \in Name : Pending(k)' = IF logStream = k THEN buffer' \o rest ELSE <<>>
      BY <2>1, <2>3 DEF Pending
    <2>5. \A k \in Name : LinesFor(k) = file[k]
      BY <1>1, <2>1, PieceConcat DEF Pending
    <2>6. \A k \in Name :
             LinesFor(k)' = file[k] \o (IF logStream = k THEN Begun(n) \o rest ELSE <<>>)
      BY <2>1, <2>5, LinesGrow, LineParts
    <2> DEFINE begun == Begun(n)
    <2>7. begun \in Seq(Piece) /\ rest \in Seq(Piece)
      BY <2>2, <2>3
    <2>8. \/ WriteOut(begun) /\ buffer' = <<>>
          \/ file' = file /\ buffer' = begun
      BY <1>6, <2>1, <2>2 DEF BeginLine
    <2> HIDE DEF n, rest, begun
    <2>9. \A k \in Name : /\ LinesFor(k)' = file[k] \o (IF logStream = k THEN begun \o rest ELSE <<>>)
                          /\ Pending(k)' = IF logStream = k THEN buffer' \o rest ELSE <<>>
      BY <2>4, <2>6 DEF begun
    <2>10. CASE WriteOut(begun) /\ buffer' = <<>>
      <3>1. /\ file' \in [Name -> Seq(Piece)]
            /\ \A k \in Name : file'[k] = IF logStream = k THEN file[k] \o begun ELSE file[k]
        BY <2>7, <2>10, WriteOutAdds
      <3>2. \A k \in Name : (file[k] \o begun) \o rest = file[k] \o (begun \o rest)
        BY <1>1, <2>7, PieceAssociative
      <3>3. <<>> \o rest = rest
        BY <2>7, PieceConcat
      <3>4. ASSUME NEW k \in Name PROVE (LinesFor(k) = file[k] \o Pending(k))'
        BY <2>9, <2>10, <3>1, <3>2, <3>3
      <3>5. QED
        BY <3>1, <3>4 DEF FileInv
    <2>11. CASE file' = file /\ buffer' = begun
      <3>1. ASSUME NEW k \in Name PROVE (LinesFor(k) = file[k] \o Pending(k))'
        BY <2>9, <2>11
      <3>2. QED
        BY <1>1, <2>11, <3>1 DEF FileInv
    <2>12. QED
      BY <2>8, <2>10, <2>11
  <1>7. CASE Spill
    <2>1. /\ UNCHANGED <<shape, line, named, unlogged, logStream>>
          /\ lpc = "reply" /\ lpc' = "end" /\ line \in Nat \ {0}
          /\ buffer \in Seq(Piece) /\ buffer' = <<Of(line, "rest")>>
          /\ WriteOut(buffer \o <<Of(line, "reply")>>)
      BY <1>7 DEF Spill, PieceOf, Of, LineInv, printed, naming
    <2> DEFINE half == <<Of(line, "reply")>>
               rest == <<Of(line, "rest"), Of(line, "end")>>
    <2>2. /\ half \in Seq(Piece) /\ rest \in Seq(Piece)
          /\ Remains = half \o rest /\ buffer' \o Remains' = rest
      <3>1. /\ half \in Seq(Piece) /\ rest \in Seq(Piece)
            /\ <<Of(line, "reply"), Of(line, "rest"), Of(line, "end")>> = half \o rest
            /\ rest = <<Of(line, "rest")>> \o <<Of(line, "end")>>
        BY <2>1, PartTexts
      <3>2. /\ Remains = <<Of(line, "reply"), Of(line, "rest"), Of(line, "end")>>
            /\ Remains' = <<Of(line, "end")>>
        BY <2>1 DEF Remains
      <3>3. QED
        BY <2>1, <3>1, <3>2
    <2> HIDE DEF half, rest
    <2>3. \A k \in Name : /\ Pending(k) = IF logStream = k THEN buffer \o (half \o rest) ELSE <<>>
                          /\ Pending(k)' = IF logStream = k THEN rest ELSE <<>>
      BY <2>1, <2>2 DEF Pending
    <2>4. buffer \o half \in Seq(Piece) /\ (buffer \o half) \o rest = buffer \o (half \o rest)
      <3>1. buffer \o half \in Seq(Piece)
        BY <2>1, <2>2, PieceConcat
      <3>2. (buffer \o half) \o rest = buffer \o (half \o rest)
        BY <2>1, <2>2, PieceAssociative
      <3>3. QED
        BY <3>1, <3>2
    <2>5. /\ file' \in [Name -> Seq(Piece)]
          /\ \A k \in Name :
                file'[k] = IF logStream = k THEN file[k] \o (buffer \o half) ELSE file[k]
      BY <2>1, <2>4, WriteOutAdds DEF half
    <2> DEFINE text == buffer \o half
    <2>6. \A k \in Name : (file[k] \o text) \o rest = file[k] \o (text \o rest)
      <3>1. text \in Seq(Piece)
        BY <2>4
      <3> HIDE DEF text
      <3>2. ASSUME NEW k \in Name PROVE (file[k] \o text) \o rest = file[k] \o (text \o rest)
        <4>1. file[k] \in Seq(Piece) /\ rest \in Seq(Piece)
          BY <1>1, <2>2
        <4>2. QED
          BY <3>1, <4>1, PieceAssociative
      <3>3. QED
        BY <3>2
    <2>7. ASSUME NEW k \in Name PROVE (LinesFor(k) = file[k] \o Pending(k))'
      <3>1. LinesFor(k)' = LinesFor(k)
        BY <2>1, LinesSame
      <3>2. QED
        BY <1>1, <2>3, <2>4, <2>5, <2>6, <3>1
    <2>8. QED
      BY <2>5, <2>7 DEF FileInv
  <1>8. CASE EndLine
    <2>1. /\ UNCHANGED <<shape, line, named, unlogged, logStream>>
          /\ lpc # "records" /\ lpc' = "records" /\ line \in Nat \ {0}
          /\ buffer \in Seq(Piece) /\ WriteOut(buffer \o Remains)
      BY <1>8 DEF EndLine, Complete, RestOfLine, Remains, PieceOf, Of, LineInv, printed, naming
    <2>2. Remains \in Seq(Piece)
      BY <2>1, RemainsType
    <2>3. buffer \o Remains \in Seq(Piece)
      BY <2>1, <2>2, PieceConcat
    <2>4. /\ file' \in [Name -> Seq(Piece)]
          /\ \A k \in Name :
                file'[k] = IF logStream = k THEN file[k] \o (buffer \o Remains) ELSE file[k]
      BY <2>1, <2>3, WriteOutAdds
    <2>5. ASSUME NEW k \in Name PROVE (LinesFor(k) = file[k] \o Pending(k))'
      <3>1. LinesFor(k)' = LinesFor(k)
        BY <2>1, LinesSame
      <3>2. Pending(k) = (IF logStream = k THEN buffer \o Remains ELSE <<>>) /\ Pending(k)' = <<>>
        BY <2>1 DEF Pending
      <3>3. file'[k] \in Seq(Piece) /\ file'[k] \o <<>> = file'[k] /\ file[k] \o <<>> = file[k]
        BY <1>1, <2>4, PieceConcat
      <3>4. QED
        BY <1>1, <2>4, <3>1, <3>2, <3>3
    <2>6. QED
      BY <2>4, <2>5 DEF FileInv
  <1>9. QED
    BY <1>3, <1>4, <1>5, <1>6, <1>7, <1>8 DEF Next, LoggerNext, LogStep

LEMMA StartsWhole == Init => NameInv /\ LineInv /\ FileInv
  <1> SUFFICES ASSUME Init PROVE NameInv /\ LineInv /\ FileInv
    OBVIOUS
  <1>1. NameInv
    <2>1. /\ rolls \in BOOLEAN /\ name \in Name /\ passName = None /\ logStream = None
          /\ logFileNameExp = None /\ logFileNameLast = None
          /\ refused = {} /\ exists = {}
      BY NameFacts DEF Init, LogInit
    <2>2. rollFile = IF rolls THEN 1 ELSE -1
      BY DEF Init, LogInit
    <2> DEFINE mark == IF passName = None THEN -1 ELSE 0
    <2>3. mark = -1
      BY <2>1
    <2>4. -1 \in {-1, 0, 1} /\ 1 \in {-1, 0, 1}
      OBVIOUS
    <2> HIDE DEF mark
    <2>5. /\ rolls => rollFile = 1
          /\ ~rolls => rollFile = mark
          /\ rollFile \in {-1, 0, 1}
      BY <2>1, <2>2, <2>3, <2>4, Zenon
    <2>6. QED
      BY <2>1, <2>5, Zenon DEF NameInv, mark
  <1>2. LineInv
    <2>1. /\ shape \in Scripts /\ line = 0 /\ lpc = "records" /\ buffer = <<>>
          /\ named = <<>> /\ unlogged = {}
      BY DEF Init, LogInit
    <2>2. shape \in Seq(Shape) /\ Len(shape) \in Nat
      BY <2>1, LogBoundsAssumption, LenProperties
    <2>3. <<>> \in Seq(Piece) /\ <<>> \in Seq(Name) /\ Len(<<>>) = 0
      OBVIOUS
    <2>4. QED
      BY <2>1, <2>2, <2>3 DEF LineInv
  <1>3. FileInv
    <2>1. file = [k \in Name |-> <<>>] /\ lpc = "records" /\ line = 0
      BY DEF Init, LogInit
    <2>2. file \in [Name -> Seq(Piece)] /\ <<>> \o <<>> = <<>>
      BY <2>1, PieceConcat
    <2>3. ASSUME NEW k \in Name PROVE LinesFor(k) = <<>>
      <3>1. Belongs(k) \in Seq(Seq(Piece)) /\ Len(Belongs(k)) = 0
        BY <1>2, <2>1, BelongsType
      <3>2. Belongs(k) = <<>>
        BY <3>1, EmptySeq
      <3>3. QED
        BY <1>2, <3>2, BelongsType, FlattenEmpty
    <2>4. QED
      BY <2>1, <2>2, <2>3 DEF FileInv, Pending
  <1>4. QED
    BY <1>1, <1>2, <1>3

LEMMA LoggerInvariant == Spec => [](NameInv /\ LineInv /\ FileInv)
  BY StartsWhole, NameKept, LineKept, FileKept, PTL DEF Spec

LEMMA PendingType ==
    ASSUME LineInv, NEW k
    PROVE  Pending(k) \in Seq(Piece)
  <1>1. CASE lpc = "records"
    BY <1>1, PieceConcat DEF Pending
  <1>2. CASE lpc # "records"
    <2>1. line \in Nat \ {0} /\ buffer \in Seq(Piece)
      BY <1>2 DEF LineInv
    <2>2. Remains \in Seq(Piece)
      BY <2>1, RemainsType
    <2>3. QED
      BY <2>1, <2>2, PieceConcat DEF Pending
  <1>3. QED
    BY <1>1, <1>2

(* A sequence with more after it is a first part of both.                  *)
LEMMA PrefixOf ==
    ASSUME NEW S, NEW a \in Seq(S), NEW b \in Seq(S)
    PROVE  IsPrefix(a, a \o b)
  <1> DEFINE c == a \o b
  <1>1. /\ Len(a) \in Nat /\ Len(b) \in Nat /\ Len(c) = Len(a) + Len(b) /\ c \in Seq(S)
        /\ \A i \in 1..Len(a) : c[i] = a[i]
    BY ConcatProperties, LenProperties
  <1> HIDE DEF c
  <1>2. Len(a) <= Len(c)
    BY <1>1
  <1>3. SubSeq(a, 1, Len(a)) = [i \in 1..Len(a) |-> a[i]]
    BY <1>1
  <1>4. SubSeq(c, 1, Len(a)) = [i \in 1..Len(a) |-> c[i]]
    BY <1>1
  <1>5. QED
    BY <1>1, <1>2, <1>3, <1>4 DEF IsPrefix, c

(* After every record each file of the log holds its lines, in their order *)
(* and complete, and in the middle of a line a first part of them; a line  *)
(* is missing only where its file could not be opened: for any number of   *)
(* lines and names, and whatever the stdio buffer holds back.              *)
THEOREM LogHolds == Spec => []LogIsWhole
  <1>1. ASSUME NameInv, LineInv, FileInv PROVE LogIsWhole
    <2>1. ASSUME NEW k \in Name
          PROVE  /\ IsPrefix(file[k], LinesFor(k))
                 /\ lpc = "records" => file[k] = LinesFor(k)
      <3>1. file[k] \in Seq(Piece) /\ LinesFor(k) = file[k] \o Pending(k)
        BY <1>1 DEF FileInv
      <3>2. Pending(k) \in Seq(Piece)
        BY <1>1, PendingType
      <3>3. IsPrefix(file[k], LinesFor(k))
        BY <3>1, <3>2, PrefixOf
      <3>4. lpc = "records" => file[k] = LinesFor(k)
        BY <3>1, PieceConcat DEF Pending
      <3>5. QED
        BY <3>3, <3>4
    <2>2. QED
      BY <1>1, <2>1 DEF LogIsWhole, LineInv
  <1>2. QED
    BY <1>1, LoggerInvariant, PTL

-----------------------------------------------------------------------------
(***************************************************************************)
(* What the logger writes.  Each write ends with a piece after which it    *)
(* flushes, and is noticed; a file only grows.                             *)
(***************************************************************************)

Stop(sh, p) == p.part \in {"tx", "end"} \/ (sh[p.line].long /\ p.part = "reply")

Wrote(text) ==
    /\ text \in Seq(Piece) /\ Len(text) # 0 /\ Stop(shape, text[Len(text)])
    /\ logStream \in Name
    /\ file' = [file EXCEPT ![logStream] = file[logStream] \o text]
    /\ events' = Noticed("modify", logStream)

LEMMA WriteOutWrites ==
    ASSUME NameInv, NEW text \in Seq(Piece), Len(text) # 0, Stop(shape, text[Len(text)]), WriteOut(text)
    PROVE  UNCHANGED <<file, events>> \/ Wrote(text)
  <1>1. logStream \in Name \cup {None} /\ None \notin Name /\ text # <<>>
    BY NameFacts DEF NameInv
  <1>2. QED
    BY <1>1 DEF WriteOut, Wrote

LEMMA LastOfConcat ==
    ASSUME NEW a \in Seq(Piece), NEW b \in Seq(Piece), Len(b) # 0
    PROVE  Len(a \o b) # 0 /\ (a \o b)[Len(a \o b)] = b[Len(b)]
  BY EndOfConcat

LEMMA LogWrites ==
    ASSUME NameInv, LineInv, LogStep
    PROVE  \/ \E text : Wrote(text)
           \/ UNCHANGED <<file, events>>
           \/ BeginPass
  <1>1. CASE BeginLine
    <2> DEFINE n == line + 1
    <2>1. /\ n \in Nat \ {0} /\ line' = n /\ shape' = shape
      BY <1>1, ShapeType DEF BeginLine, Counted, LineInv
    <2>2. CASE shape[line'].sends
      <3>1. Opening = <<Of(n, "head")>> \o <<Of(n, "tx")>> /\ WriteOut(Opening)
        BY <1>1, <2>1, <2>2 DEF BeginLine, Opening, PieceOf, Of
      <3>2. /\ <<Of(n, "head")>> \in Seq(Piece) /\ <<Of(n, "tx")>> \in Seq(Piece)
            /\ Len(<<Of(n, "tx")>>) = 1 /\ <<Of(n, "tx")>>[1] = Of(n, "tx")
        BY <2>1, PartTexts
      <3>3. Stop(shape, Of(n, "tx"))
        BY DEF Stop, Of
      <3>4. /\ Opening \in Seq(Piece) /\ Len(Opening) # 0 /\ Opening[Len(Opening)] = Of(n, "tx")
        BY <3>1, <3>2, LastOfConcat, PieceConcat
      <3>5. QED
        BY <3>1, <3>3, <3>4, WriteOutWrites
    <2>3. CASE ~shape[line'].sends
      BY <1>1, <2>3 DEF BeginLine
    <2>4. QED
      BY <2>2, <2>3
  <1>2. CASE Spill
    <2> DEFINE half == <<Of(line, "reply")>>
    <2>1. /\ line \in Nat \ {0} /\ buffer \in Seq(Piece) /\ shape[line].long
          /\ WriteOut(buffer \o half)
      BY <1>2 DEF Spill, PieceOf, Of, LineInv
    <2>2. half \in Seq(Piece) /\ Len(half) = 1 /\ half[1] = Of(line, "reply")
      BY <2>1, PartTexts
    <2>3. Stop(shape, Of(line, "reply"))
      BY <2>1, Zenon DEF Stop, Of
    <2> HIDE DEF half
    <2>4. /\ buffer \o half \in Seq(Piece) /\ Len(buffer \o half) # 0
          /\ (buffer \o half)[Len(buffer \o half)] = Of(line, "reply")
      <3>1. half[Len(half)] = Of(line, "reply") /\ Len(half) # 0
        BY <2>2
      <3>2. QED
        BY <2>1, <2>2, <3>1, LastOfConcat, PieceConcat
    <2>5. QED
      BY <2>1, <2>3, <2>4, WriteOutWrites
  <1>3. CASE EndLine
    <2>1. /\ line \in Nat \ {0} /\ buffer \in Seq(Piece) /\ WriteOut(buffer \o Remains)
      BY <1>3 DEF EndLine, Complete, RestOfLine, Remains, PieceOf, Of, LineInv
    <2>2. /\ Remains \in Seq(Piece) /\ Len(Remains) # 0
          /\ Remains[Len(Remains)] = Of(line, "end")
      <3>1. Remains \in Seq(Piece)
        BY <2>1, RemainsType
      <3>2. Len(Remains) # 0 /\ Remains[Len(Remains)] = Of(line, "end")
        BY DEF Remains
      <3>3. QED
        BY <3>1, <3>2
    <2>3. Stop(shape, Of(line, "end"))
      BY DEF Stop, Of
    <2>4. /\ buffer \o Remains \in Seq(Piece) /\ Len(buffer \o Remains) # 0
          /\ (buffer \o Remains)[Len(buffer \o Remains)] = Of(line, "end")
      BY <2>1, <2>2, LastOfConcat, PieceConcat
    <2>5. QED
      BY <2>1, <2>3, <2>4, WriteOutWrites
  <1>4. QED
    BY <1>1, <1>2, <1>3 DEF LogStep

(* A file keeps what it has.                                               *)
Grows ==
    \A k \in Name :
        /\ Len(file[k]) \in Nat /\ Len(file'[k]) \in Nat
        /\ Len(file[k]) <= Len(file'[k])
        /\ \A i \in 1..Len(file[k]) : file'[k][i] = file[k][i]

LEMMA FilesGrow ==
    ASSUME NameInv, LineInv, FileInv, [Next]_vars
    PROVE  Grows
  <1>1. \A k \in Name : file[k] \in Seq(Piece) /\ Len(file[k]) \in Nat
    BY LenProperties DEF FileInv
  <1>2. ASSUME file' = file PROVE Grows
    BY <1>1, <1>2 DEF Grows
  <1>3. ASSUME NEW text, Wrote(text) PROVE Grows
    <2> SUFFICES ASSUME NEW k \in Name
                 PROVE  /\ Len(file[k]) \in Nat /\ Len(file'[k]) \in Nat
                        /\ Len(file[k]) <= Len(file'[k])
                        /\ \A i \in 1..Len(file[k]) : file'[k][i] = file[k][i]
      BY DEF Grows
    <2>1. text \in Seq(Piece) /\ file \in [Name -> Seq(Piece)]
          /\ file'[k] = IF k = logStream THEN file[k] \o text ELSE file[k]
      BY <1>3 DEF Wrote, FileInv
    <2>2. /\ Len(file[k] \o text) = Len(file[k]) + Len(text) /\ Len(text) \in Nat
          /\ \A i \in 1..Len(file[k]) : (file[k] \o text)[i] = file[k][i]
      BY <1>1, <2>1, ConcatProperties, LenProperties
    <2>3. QED
      BY <1>1, <2>1, <2>2
  <1>4. CASE LogStep
    BY <1>2, <1>3, <1>4, LogWrites DEF BeginPass
  <1>5. CASE UNCHANGED vars
    BY <1>2, <1>5 DEF vars, folder
  <1>6. CASE Register \/ PlotStep \/ Overflow
    BY <1>2, <1>6, PlotterFrame DEF LoggerVars
  <1>7. QED
    BY <1>4, <1>5, <1>6 DEF Next, LoggerNext

-----------------------------------------------------------------------------
(***************************************************************************)
(* The reader.                                                             *)
(***************************************************************************)

Notice(kind, k) == [kind |-> kind, file |-> k]
Event == {Notice(kind, k) : kind \in {"create", "modify"}, k \in Name}
            \cup {Notice("overflow", None)}

ReaderInv ==
    /\ watched \in BOOLEAN /\ overflowed \in BOOLEAN /\ valuePos \in Positions
    /\ wpc \in {"off", "take", "event", "read", "dead"}
    /\ events \in Seq(Event) /\ batch \in Seq(Event)
    /\ in \in Name \cup {None}
    /\ wpc = "read" => in # None
    /\ at \in Nat /\ (in # None => at <= Len(file[in]))
    /\ followed \in Seq(Name) /\ curLines \in Seq(Seq(Piece))

LEMMA NoticeType ==
    ASSUME NEW kind \in {"create", "modify"}, NEW k \in Name, events \in Seq(Event)
    PROVE  /\ Noticed(kind, k) \in Seq(Event)
           /\ Noticed(kind, k) \in {events, Append(events, Notice(kind, k))}
  <1>1. Notice(kind, k) \in Event
    BY DEF Event
  <1>2. Noticed(kind, k) = events \/ Noticed(kind, k) = Append(events, Notice(kind, k))
    BY DEF Noticed, Notice
  <1> HIDE DEF Event
  <1>3. Append(events, Notice(kind, k)) \in Seq(Event)
    BY <1>1, AppendProperties
  <1>4. QED
    BY <1>2, <1>3

(* A line as it is read: what is left up to the first end of a line, or of *)
(* the file.                                                               *)
LEMMA LineRead ==
    ASSUME NEW f \in Seq(Piece), f = file[in], at \in Nat, at <= Len(f), Unread # <<>>
    PROVE  \E e \in (at + 1)..Len(f) :
              /\ CurLine = SubSeq(f, at + 1, e) /\ CurLine \in Seq(Piece)
              /\ Len(CurLine) = e - at
              /\ \A i \in 1..(e - at) : CurLine[i] = f[at + i]
              /\ e = Len(f) \/ f[e].part = "end"
              /\ \A m \in (at + 1)..(e - 1) : f[m].part # "end"
  <1> DEFINE u == SubSeq(f, at + 1, Len(f))
             ends == {i \in DOMAIN u : u[i].part = "end"}
  <1>1. Unread = u
    BY DEF Unread
  <1>2. Len(f) \in Nat
    BY LenProperties
  <1>3. /\ u \in Seq(Piece) /\ Len(u) = Len(f) - at /\ DOMAIN u = 1..Len(u)
        /\ \A i \in 1..(Len(f) - at) : u[i] = f[at + i]
    BY <1>2, CutOf, LenProperties
  <1>4. Len(u) # 0
    BY <1>1, <1>3, EmptySeq
  <1>5. CurLine = IF ends = {} THEN u
                  ELSE SubSeq(u, 1, CHOOSE i \in ends : \A j \in ends : i <= j)
    BY <1>1 DEF CurLine
  <1> HIDE DEF u
  <1>6. \E c \in 1..Len(u) :
           /\ CurLine = SubSeq(u, 1, c)
           /\ c = Len(u) \/ u[c].part = "end"
           /\ \A i \in 1..(c - 1) : u[i].part # "end"
    <2>1. Len(u) \in Nat
      BY <1>3, LenProperties
    <2>2. CASE ends = {}
      <3>1. \A i \in 1..Len(u) : u[i].part # "end"
        BY <1>3, <2>2
      <3>2. SubSeq(u, 1, Len(u)) = u
        BY <1>3, <2>1
      <3> DEFINE c == Len(u)
      <3>3. c \in 1..Len(u) /\ \A i \in 1..(c - 1) : i \in 1..Len(u)
        BY <1>4, <2>1
      <3>4. CurLine = SubSeq(u, 1, c)
        BY <1>5, <2>2, <3>2
      <3>5. c = Len(u)
        OBVIOUS
      <3> HIDE DEF c
      <3>6. QED
        BY <3>1, <3>3, <3>4, <3>5
    <2>3. CASE ends # {}
      <3> DEFINE c == CHOOSE i \in ends : \A j \in ends : i <= j
      <3>1. ends \subseteq Nat
        BY <1>3
      <3>2. c \in ends /\ \A j \in ends : c <= j
        <4> HIDE DEF ends
        <4>1. \E i \in ends : \A j \in ends : i <= j
          BY <2>3, <3>1, LeastMember
        <4>2. QED
          BY <4>1
      <3>3. CurLine = SubSeq(u, 1, c)
        BY <1>5, <2>3
      <3> HIDE DEF c
      <3>4. c \in 1..Len(u) /\ u[c].part = "end"
        BY <1>3, <3>2
      <3>5. \A i \in 1..(c - 1) : u[i].part # "end"
        <4> SUFFICES ASSUME NEW i \in 1..(c - 1), u[i].part = "end" PROVE FALSE
          OBVIOUS
        <4>1. i \in DOMAIN u /\ ~(c <= i)
          BY <1>3, <2>1, <3>4
        <4>2. QED
          BY <3>2, <4>1
      <3>6. QED
        BY <3>3, <3>4, <3>5
    <2>4. QED
      BY <2>2, <2>3
  <1>7. PICK c \in 1..Len(u) :
           /\ CurLine = SubSeq(u, 1, c)
           /\ c = Len(u) \/ u[c].part = "end"
           /\ \A i \in 1..(c - 1) : u[i].part # "end"
    BY <1>6
  <1> DEFINE e == at + c
  <1>8. /\ e \in (at + 1)..Len(f) /\ e - at = c /\ c \in Nat
        /\ c = Len(u) => e = Len(f)
    BY <1>2, <1>3
  <1>9. CurLine = SubSeq(f, at + 1, e)
    <2>1. c <= Len(f) - at
      BY <1>2, <1>3
    <2>2. SubSeq(SubSeq(f, at + 1, Len(f)), 1, c) = SubSeq(f, at + 1, at + c)
      BY <1>8, <2>1, CutOfCut
    <2>3. QED
      BY <1>7, <2>2 DEF u
  <1>10. e \in Nat /\ at <= e /\ e <= Len(f)
    BY <1>2, <1>8
  <1>11. \A i \in 1..c : u[i] = f[at + i]
    BY <1>2, <1>3
  <1>12. \A m \in (at + 1)..(e - 1) : f[m].part # "end"
    <2> SUFFICES ASSUME NEW m \in (at + 1)..(e - 1) PROVE f[m].part # "end"
      OBVIOUS
    <2> DEFINE i == m - at
    <2>1. i \in 1..(c - 1) /\ i \in 1..c /\ at + i = m
      BY <1>8
    <2> HIDE DEF i
    <2>2. u[i].part # "end" /\ u[i] = f[at + i]
      BY <1>7, <1>11, <2>1
    <2>3. QED
      BY <2>1, <2>2
  <1>13. e = Len(f) \/ f[e].part = "end"
    <2>1. u[c] = f[at + c]
      BY <1>8, <1>11
    <2>2. CASE c = Len(u)
      BY <1>8, <2>2
    <2>3. CASE u[c].part = "end"
      BY <2>1, <2>3
    <2>4. QED
      BY <1>7, <2>2, <2>3
  <1> HIDE DEF e
  <1>14. /\ CurLine \in Seq(Piece) /\ Len(CurLine) = e - at
         /\ \A i \in 1..(e - at) : CurLine[i] = f[at + i]
    BY <1>9, <1>10, CutOf
  <1>15. QED
    BY <1>8, <1>9, <1>12, <1>13, <1>14

LEMMA ReaderKept ==
    NameInv /\ LineInv /\ FileInv /\ ReaderInv /\ [Next]_vars => ReaderInv'
  <1> SUFFICES ASSUME NameInv, LineInv, FileInv, ReaderInv, [Next]_vars PROVE ReaderInv'
    OBVIOUS
  <1> USE DEF ReaderInv
  <1>1. Grows /\ \A k \in Name : file[k] \in Seq(Piece)
    BY FilesGrow DEF FileInv
  <1>2. None \notin Name
    BY NameFacts
  <1>3. ASSUME UNCHANGED <<valuePos, wpc, batch, in, at, overflowed, followed, curLines>>,
               watched' = watched, events' \in Seq(Event)
        PROVE  ReaderInv'
    <2>1. at' \in Nat /\ (in' # None => at' <= Len(file'[in']))
      BY <1>1, <1>3 DEF Grows
    <2>2. watched' \in BOOLEAN /\ overflowed' \in BOOLEAN
      BY <1>3, Zenon
    <2>3. QED
      BY <1>3, <2>1, <2>2
  <1>4. CASE LoggerNext
    <2>1. UNCHANGED <<valuePos, wpc, batch, in, at, overflowed, followed, curLines>> /\ LogStep
      BY <1>4 DEF LoggerNext
    <2>2. watched' = watched
      BY <2>1 DEF LogStep, BeginPass, BeginLine, Counted, Spill, EndLine
    <2>3. events' \in Seq(Event)
      <3>1. CASE \E text : Wrote(text)
        BY <3>1, NoticeType DEF Wrote
      <3>2. CASE UNCHANGED <<file, events>>
        BY <3>2
      <3>3. CASE BeginPass
        <4>1. logFileNameExp' \in Name \cup {None}
          <5>1. (NameInv)'
            BY NameKept
          <5>2. QED
            BY <5>1 DEF NameInv
        <4>2. CASE logFileNameExp' # logFileNameLast /\ Open
          <5>1. logFileNameExp' \in Name
            BY <3>3, LogBoundsAssumption, NameFacts DEF BeginPass, NameInv, Name
          <5>2. QED
            BY <4>2, <5>1, NoticeType DEF Open
        <4>3. CASE events' = events
          BY <4>3
        <4>4. QED
          BY <3>3, <4>2, <4>3 DEF BeginPass
      <3>4. QED
        BY <2>1, <3>1, <3>2, <3>3, LogWrites
    <2>4. QED
      BY <1>3, <2>1, <2>2, <2>3
  <1>5. CASE UNCHANGED vars
    BY <1>3, <1>5 DEF vars, folder, plotter
  <1>6. CASE Overflow
    <2>1. events' \in Seq(Event)
      <3>1. [kind |-> "overflow", file |-> None] \in Event
        BY DEF Event, Notice
      <3>2. events' = <<[kind |-> "overflow", file |-> None]>>
        BY <1>6 DEF Overflow
      <3> HIDE DEF Event
      <3>3. QED
        BY <3>1, <3>2
    <2>2. /\ UNCHANGED <<file, watched, valuePos, wpc, batch, in, at, followed, curLines>>
          /\ overflowed' = TRUE
      BY <1>6 DEF Overflow
    <2>3. watched' \in BOOLEAN /\ overflowed' \in BOOLEAN
      BY <2>2, Zenon
    <2>4. QED
      BY <2>1, <2>2, <2>3
  <1>7. CASE Register \/ PlotStep
    <2>1. /\ UNCHANGED <<file, valuePos, overflowed>>
      BY <1>7, PlotterFrame DEF LoggerVars, Register, PlotStep, PollEvents, Follow,
         EventsDone, ReadLine, ReadNull
    <2>2. watched' \in BOOLEAN
      BY <1>7, Zenon DEF Register, PlotStep, PollEvents, Follow, EventsDone, ReadLine,
         ReadNull, folder
    <2>3. overflowed' \in BOOLEAN
      BY <2>1, Zenon
    <2>4. CASE Register
      BY <2>1, <2>2, <2>3, <2>4 DEF Register
    <2>5. CASE PollEvents
      BY <2>1, <2>2, <2>3, <2>5, EmptySeq DEF PollEvents
    <2>6. CASE EventsDone
      BY <2>1, <2>2, <2>3, <2>6 DEF EventsDone, folder
    <2>7. CASE ReadNull
      BY <2>1, <2>2, <2>3, <2>7 DEF ReadNull, folder
    <2>8. CASE ReadLine
      <3>1. /\ UNCHANGED <<events, batch, in, followed>> /\ wpc = "read"
            /\ wpc' \in {"dead", "read"} /\ Unread # <<>>
            /\ at' = at + Len(CurLine) /\ curLines' = Append(curLines, CurLine)
        BY <2>8 DEF ReadLine, PassOver, AddValue, Fatal, AfterLine, folder
      <3>2. file[in] \in Seq(Piece) /\ in # None /\ at <= Len(file[in])
        BY <1>1, <3>1
      <3>3. PICK e \in (at + 1)..Len(file[in]) :
               Len(CurLine) = e - at /\ CurLine \in Seq(Piece)
        BY <3>1, <3>2, LineRead
      <3>4. at' = e /\ at' \in Nat /\ at' <= Len(file[in])
        BY <3>1, <3>2, <3>3, LenProperties
      <3>5. curLines' \in Seq(Seq(Piece))
        BY <3>1, <3>3, AppendProperties
      <3>6. QED
        BY <2>1, <2>2, <2>3, <3>1, <3>4, <3>5
    <2>9. CASE Follow
      <3>1. /\ wpc = "event" /\ batch # <<>> /\ batch' = Tail(batch)
            /\ UNCHANGED <<events, curLines>>
        BY <2>9 DEF Follow, folder
      <3>2. Head(batch) \in Event /\ batch' \in Seq(Event)
        <4> HIDE DEF Event
        <4> QED BY <3>1, HeadTailProperties
      <3>3. CASE Head(batch).kind = "overflow"
        <4>1. UNCHANGED <<wpc, in, at, followed>>
          BY <2>9, <3>3 DEF Follow
        <4>2. QED
          BY <2>1, <2>2, <2>3, <3>1, <3>2, <4>1
      <3>4. CASE Head(batch).kind # "overflow"
        <4>1. Head(batch).file \in Name
          BY <3>2, <3>4 DEF Event, Notice
        <4>2. CASE Opens(Head(batch))
          <5>1. /\ wpc' = "read" /\ in' = Head(batch).file /\ at' = 0
                /\ followed' = Append(followed, Head(batch).file)
            BY <2>9, <3>4, <4>2 DEF Follow, Start
          <5>2. followed' \in Seq(Name) /\ 0 <= Len(file[in'])
            BY <1>1, <4>1, <5>1, AppendProperties, LenProperties
          <5>3. QED
            BY <1>2, <2>1, <2>2, <2>3, <3>1, <3>2, <4>1, <5>1, <5>2
        <4>3. CASE ~Opens(Head(batch))
          <5>1. wpc' = "read" /\ UNCHANGED <<in, at, followed>> /\ in # None
            BY <2>9, <3>4, <4>3 DEF Follow, Opens
          <5>2. QED
            BY <2>1, <2>2, <2>3, <3>1, <3>2, <5>1
        <4>4. QED
          BY <4>2, <4>3
      <3>5. QED
        BY <3>3, <3>4
    <2>10. QED
      BY <1>7, <2>4, <2>5, <2>6, <2>7, <2>8, <2>9 DEF PlotStep
  <1>8. QED
    BY <1>4, <1>5, <1>6, <1>7 DEF Next

LEMMA ReaderStarts == Init => ReaderInv
  <1> SUFFICES ASSUME Init PROVE ReaderInv
    OBVIOUS
  <1>1. /\ wpc = "off" /\ events = <<>> /\ batch = <<>> /\ in = None /\ at = 0
        /\ followed = <<>> /\ curLines = <<>> /\ valuePos \in Positions
    BY DEF Init, LogInit
  <1>2. watched \in BOOLEAN /\ overflowed \in BOOLEAN
    BY Zenon DEF Init, LogInit
  <1>3. QED
    BY <1>1, <1>2, EmptySeq DEF ReaderInv

LEMMA ReaderInvariant == Spec => [](NameInv /\ LineInv /\ FileInv /\ ReaderInv)
  BY StartsWhole, ReaderStarts, NameKept, LineKept, FileKept, ReaderKept, PTL DEF Spec

-----------------------------------------------------------------------------
(***************************************************************************)
(* Where a file is flushed.  Every file is made of lines, one after the    *)
(* other, the last of them perhaps cut short, and it ends, like what the   *)
(* reader has read of it, with a piece after which the logger flushes.     *)
(***************************************************************************)

(* Every piece s[i] has its place in a line l that begins after b.         *)
InLine(s, i, l, b) ==
    /\ b # 0 => s[b].part = "end"
    /\ i - b <= Len(l)
    /\ \A m \in (b + 1)..i : s[m] = l[m - b]

Placed(s, ls) ==
    \A i \in 1..Len(s) : \E n \in 1..Len(ls), b \in 0..(i - 1) : InLine(s, i, ls[n], b)

WholeLines(s, ls) == Placed(s, ls) /\ (Len(s) # 0 => s[Len(s)].part = "end")

Lines == [n \in 1..line |-> Line(n)]

PlaceInv == \A k \in Name : WholeLines(LinesFor(k), Lines)
FlushInv == \A k \in Name : Len(file[k]) # 0 => Stop(shape, file[k][Len(file[k])])
StopInv  == in # None /\ at # 0 => Stop(shape, file[in][at])

LEMMA LinePieces ==
    ASSUME NEW n \in Nat \ {0}
    PROVE  /\ Len(Line(n)) \in Nat \ {0} /\ Line(n)[Len(Line(n))].part = "end"
           /\ DOMAIN Line(n) = 1..Len(Line(n)) /\ Line(n) \in Seq(Piece)
           /\ \A i \in 1..Len(Line(n)) :
                 Line(n)[i].line = n /\ (Line(n)[i].part = "head" => i = 1)
  <1> DEFINE l == Line(n)
             head == Of(n, "head")
             tx == Of(n, "tx")
             reply == Of(n, "reply")
             rest == Of(n, "rest")
             end == Of(n, "end")
  <1>1. /\ head.line = n /\ tx.line = n /\ reply.line = n /\ rest.line = n /\ end.line = n
        /\ tx.part # "head" /\ reply.part # "head" /\ rest.part # "head"
        /\ end.part # "head" /\ end.part = "end"
    BY DEF Of
  <1>2. l = (<<head>> \o (IF shape[n].sends THEN <<tx>> ELSE <<>>)) \o <<reply, rest, end>>
    BY DEF Line, Of
  <1>3. l \in Seq(Piece)
    BY LineParts
  <1> HIDE DEF l, head, tx, reply, rest, end
  <1>4. /\ head \in Piece /\ tx \in Piece /\ reply \in Piece /\ rest \in Piece
        /\ end \in Piece
    BY OfType DEF Part, head, tx, reply, rest, end
  <1> DEFINE y == <<reply, rest, end>>
  <1>5. y \in Seq(Piece) /\ Len(y) = 3 /\ y[1] = reply /\ y[2] = rest /\ y[3] = end
    BY <1>4
  <1> HIDE DEF y
  <1>6. ASSUME NEW x \in Seq(Piece), l = x \o y, Len(x) \in {1, 2},
               x[1] = head, Len(x) = 2 => x[2] = tx
        PROVE  /\ Len(l) \in Nat \ {0} /\ l[Len(l)].part = "end" /\ DOMAIN l = 1..Len(l)
               /\ \A i \in 1..Len(l) : l[i].line = n /\ (l[i].part = "head" => i = 1)
    <2>1. /\ Len(l) = Len(x) + 3 /\ DOMAIN l = 1..Len(l)
          /\ \A i \in 1..(Len(x) + 3) : l[i] = IF i <= Len(x) THEN x[i] ELSE y[i - Len(x)]
      <3>1. /\ Len(x \o y) = Len(x) + Len(y)
            /\ \A i \in 1..(Len(x) + Len(y)) :
                  (x \o y)[i] = IF i <= Len(x) THEN x[i] ELSE y[i - Len(x)]
        <4> HIDE DEF Piece
        <4>1. QED
          BY <1>5, ConcatProperties
      <3>2. DOMAIN l = 1..Len(l)
        BY <1>3, LenProperties
      <3>3. QED
        BY <1>5, <1>6, <3>1, <3>2
    <2>2. l[Len(l)] = end
      BY <1>5, <1>6, <2>1
    <2>3. ASSUME NEW i \in 1..Len(l) PROVE l[i].line = n /\ (l[i].part = "head" => i = 1)
      <3>1. CASE i <= Len(x)
        <4>1. l[i] = x[i] /\ (i = 1 \/ (i = 2 /\ Len(x) = 2))
          BY <1>6, <2>1, <3>1
        <4>2. QED
          BY <1>1, <1>6, <4>1
      <3>2. CASE ~(i <= Len(x))
        <4>1. l[i] = y[i - Len(x)] /\ i - Len(x) \in 1..3
          BY <1>6, <2>1, <3>2
        <4>2. l[i] \in {reply, rest, end}
          BY <1>5, <4>1
        <4>3. QED
          BY <1>1, <4>2
      <3>3. QED
        BY <3>1, <3>2
    <2>4. QED
      BY <1>1, <1>6, <2>1, <2>2, <2>3
  <1>7. \E x \in Seq(Piece) : /\ l = x \o y /\ Len(x) \in {1, 2}
                             /\ x[1] = head /\ (Len(x) = 2 => x[2] = tx)
    <2> DEFINE a == <<head>>
               b == <<tx>>
    <2>1. a \in Seq(Piece) /\ b \in Seq(Piece) /\ Len(a) = 1 /\ Len(b) = 1
          /\ a[1] = head /\ b[1] = tx
      BY <1>4
    <2>2. CASE shape[n].sends
      <3>1. l = (a \o b) \o y
        BY <1>2, <2>2 DEF y
      <3> HIDE DEF a, b
      <3> DEFINE x == a \o b
      <3>2. x \in Seq(Piece) /\ Len(x) = 2 /\ x[1] = head /\ x[2] = tx
        BY <2>1, ConcatProperties
      <3> HIDE DEF x
      <3>3. l = x \o y
        BY <3>1 DEF x
      <3>4. QED
        BY <3>2, <3>3
    <2>3. CASE ~shape[n].sends
      <3>1. l = (a \o <<>>) \o y
        BY <1>2, <2>3 DEF y
      <3>2. l = a \o y
        BY <2>1, <3>1, PieceConcat
      <3> HIDE DEF a
      <3>3. QED
        BY <2>1, <3>2
    <2>4. QED
      BY <2>2, <2>3
  <1>8. QED
    BY <1>3, <1>6, <1>7 DEF l

(* A line put after whole lines gives whole lines.                         *)
LEMMA OneMoreLine ==
    ASSUME NEW s \in Seq(Piece), NEW ls \in Seq(Seq(Piece)), WholeLines(s, ls),
           NEW l \in Seq(Piece), Len(l) # 0, l[Len(l)].part = "end"
    PROVE  /\ WholeLines(s, Append(ls, l))
           /\ WholeLines(s \o l, Append(ls, l))
  <1> DEFINE t == s \o l
             ms == Append(ls, l)
  <1>1. /\ Len(ls) \in Nat /\ Len(ms) = Len(ls) + 1 /\ ms[Len(ls) + 1] = l
        /\ \A n \in 1..Len(ls) : ms[n] = ls[n]
    <2> DEFINE T == Seq(Piece)
    <2>1. ls \in Seq(T) /\ l \in T
      OBVIOUS
    <2> HIDE DEF T
    <2>2. QED
      BY <2>1, AppendProperties, LenProperties
  <1>2. \A n \in 1..Len(ls) : n \in 1..Len(ms) /\ ms[n] = ls[n]
    BY <1>1
  <1>3. Len(ls) + 1 \in 1..Len(ms)
    BY <1>1
  <1>4. /\ t \in Seq(Piece) /\ Len(t) = Len(s) + Len(l) /\ Len(s) \in Nat /\ Len(l) \in Nat
        /\ \A i \in 1..(Len(s) + Len(l)) : t[i] = IF i <= Len(s) THEN s[i] ELSE l[i - Len(s)]
    BY ConcatProperties, LenProperties
  <1>7. Len(t) # 0 /\ t[Len(t)].part = "end"
    BY LastOfConcat
  <1> HIDE DEF t, ms
  <1>5. Placed(s, ms)
    <2> SUFFICES ASSUME NEW i \in 1..Len(s)
                 PROVE  \E n \in 1..Len(ms), b \in 0..(i - 1) : InLine(s, i, ms[n], b)
      BY DEF Placed
    <2>1. PICK n \in 1..Len(ls), b \in 0..(i - 1) : InLine(s, i, ls[n], b)
      BY DEF WholeLines, Placed
    <2>2. QED
      BY <1>2, <2>1
  <1>6. ASSUME NEW i \in 1..Len(t)
        PROVE  \E n \in 1..Len(ms), b \in 0..(i - 1) : InLine(t, i, ms[n], b)
    <2>1. CASE i <= Len(s)
      <3>1. i \in 1..Len(s)
        BY <1>4, <2>1
      <3>2. PICK n \in 1..Len(ls), b \in 0..(i - 1) : InLine(s, i, ls[n], b)
        BY <3>1 DEF WholeLines, Placed
      <3>3. \A m \in 1..i : t[m] = s[m]
        BY <1>4, <3>1
      <3>4. /\ b # 0 => b \in 1..i
            /\ \A m \in (b + 1)..i : m \in 1..i
        OBVIOUS
      <3>5. InLine(t, i, ls[n], b)
        BY <3>2, <3>3, <3>4 DEF InLine
      <3>6. QED
        BY <1>2, <3>5
    <2>2. CASE ~(i <= Len(s))
      <3> DEFINE b == Len(s)
      <3>1. b \in 0..(i - 1) /\ i - b <= Len(l)
        BY <1>4, <2>2
      <3>2. b # 0 => t[b].part = "end"
        BY <1>4 DEF WholeLines
      <3>3. \A m \in (b + 1)..i : t[m] = l[m - b]
        BY <1>4
      <3> HIDE DEF b
      <3>4. InLine(t, i, ms[Len(ls) + 1], b)
        BY <1>1, <3>1, <3>2, <3>3 DEF InLine
      <3>5. QED
        BY <1>3, <3>1, <3>4
    <2>3. QED
      BY <2>1, <2>2
  <1>8. QED
    BY <1>5, <1>6, <1>7 DEF WholeLines, Placed, t, ms

LEMMA LinesType ==
    ASSUME LineInv
    PROVE  Lines \in Seq(Seq(Piece)) /\ Len(Lines) = line
  <1> DEFINE T == Seq(Piece)
  <1>1. line \in Nat
    BY ShapeType
  <1>2. ASSUME NEW n \in 1..line PROVE Line(n) \in T
    <2>1. n \in Nat \ {0}
      BY <1>1
    <2>2. QED
      BY <2>1, LineParts
  <1> HIDE DEF T
  <1>3. Lines \in Seq(T) /\ Len(Lines) = line
    BY <1>1, <1>2 DEF Lines
  <1>4. QED
    BY <1>3 DEF T

LEMMA PlaceKept ==
    NameInv /\ LineInv /\ LineInv' /\ PlaceInv /\ [Next]_vars => PlaceInv'
  <1> SUFFICES ASSUME NameInv, LineInv, LineInv', PlaceInv, [Next]_vars,
                      NEW k \in Name
               PROVE  WholeLines(LinesFor(k)', Lines')
    BY DEF PlaceInv
  <1>1. line \in Nat /\ LinesFor(k) \in Seq(Piece) /\ WholeLines(LinesFor(k), Lines)
    BY ShapeType, BelongsType DEF PlaceInv
  <1>2. ASSUME UNCHANGED <<shape, line, named, unlogged>>
        PROVE  WholeLines(LinesFor(k)', Lines')
    <2>1. LinesFor(k)' = LinesFor(k)
      BY <1>2, LinesSame
    <2>2. Lines' = Lines
      BY <1>2 DEF Lines, Line
    <2>3. QED
      BY <1>1, <2>1, <2>2
  <1>3. CASE BeginLine
    <2> DEFINE l == Line(line + 1)
    <2>1. /\ line' = line + 1 /\ shape' = shape /\ passName \in Name
          /\ named' = Append(named, passName)
          /\ unlogged' = IF logStream = None THEN unlogged \cup {line'} ELSE unlogged
      BY <1>3, NameFacts DEF BeginLine, Counted, NameInv
    <2>2. LinesFor(k)' = LinesFor(k) \o (IF logStream = k THEN l ELSE <<>>)
      BY <2>1, LinesGrow
    <2>3. l \in Seq(Piece) /\ Len(l) # 0 /\ l[Len(l)].part = "end"
      <3>1. line + 1 \in Nat \ {0}
        BY <1>1
      <3>2. QED
        BY <3>1, LinePieces
    <2>4. LinesFor(k)' = LinesFor(k) \/ LinesFor(k)' = LinesFor(k) \o l
      BY <1>1, <2>2, PieceConcat
    <2>5. Lines' = Append(Lines, l)
      <3>1. Lines' = [n \in 1..(line + 1) |-> Line(n)]
        BY <2>1 DEF Lines, Line
      <3>2. Lines \in Seq(Seq(Piece)) /\ Len(Lines) = line
        BY LinesType
      <3>3. \A n \in 1..line : Lines[n] = Line(n)
        BY DEF Lines
      <3> DEFINE T == Seq(Piece)
                 both == Append(Lines, l)
      <3>4. /\ both \in Seq(T) /\ Len(both) = line + 1 /\ both[line + 1] = l
            /\ \A n \in 1..line : both[n] = Lines[n]
        <4>1. Lines \in Seq(T) /\ l \in T
          BY <2>3, <3>2
        <4> HIDE DEF T, l
        <4>2. QED
          BY <3>2, <4>1, AppendProperties
      <3> HIDE DEF both, T
      <3>5. both = [n \in 1..(line + 1) |-> both[n]]
        BY <3>4, LenProperties
      <3>6. \A n \in 1..(line + 1) : both[n] = Line(n)
        <4>1. \A n \in 1..(line + 1) : n \in 1..line \/ n = line + 1
          BY <1>1
        <4>2. QED
          BY <3>3, <3>4, <4>1
      <3>7. QED
        BY <3>1, <3>5, <3>6 DEF both
    <2>6. Lines \in Seq(Seq(Piece))
      BY LinesType
    <2> HIDE DEF l
    <2>7. QED
      BY <1>1, <2>3, <2>4, <2>5, <2>6, OneMoreLine
  <1>4. CASE BeginPass \/ Spill \/ EndLine
    BY <1>2, <1>4 DEF BeginPass, Spill, EndLine, printed
  <1>5. CASE Register \/ PlotStep \/ Overflow
    BY <1>2, <1>5, PlotterFrame DEF LoggerVars, logger, printed
  <1>6. CASE UNCHANGED vars
    BY <1>2, <1>6 DEF vars, logger, printed
  <1>7. QED
    BY <1>3, <1>4, <1>5, <1>6 DEF Next, LoggerNext, LogStep

-----------------------------------------------------------------------------
LEMMA ShapeKept ==
    ASSUME [Next]_vars
    PROVE  shape' = shape /\ \A n : Line(n)' = Line(n) /\ Cuts(n)' = Cuts(n)
  <1>1. shape' = shape
    <2>1. CASE LogStep
      BY <2>1 DEF LogStep, BeginPass, BeginLine, Counted, Spill, EndLine
    <2>2. CASE Register \/ PlotStep \/ Overflow
      BY <2>2, PlotterFrame DEF LoggerVars, logger
    <2>3. CASE UNCHANGED vars
      BY <2>3 DEF vars, logger
    <2>4. QED
      BY <2>1, <2>2, <2>3 DEF Next, LoggerNext
  <1>2. \A n : Line(n)' = Line(n)
    BY <1>1 DEF Line
  <1>3. \A n : Cuts(n)' = Cuts(n)
    BY <1>1, <1>2 DEF Cuts
  <1>4. QED
    BY <1>1, <1>2, <1>3

LEMMA FlushKept ==
    NameInv /\ LineInv /\ FileInv /\ FlushInv /\ [Next]_vars => FlushInv'
  <1> SUFFICES ASSUME NameInv, LineInv, FileInv, FlushInv, [Next]_vars,
                      NEW k \in Name, Len(file'[k]) # 0
               PROVE  Stop(shape', file'[k][Len(file'[k])])
    BY DEF FlushInv
  <1>1. shape' = shape /\ file[k] \in Seq(Piece)
    BY ShapeKept DEF FileInv
  <1>2. ASSUME file' = file PROVE Stop(shape', file'[k][Len(file'[k])])
    BY <1>1, <1>2 DEF FlushInv
  <1>3. ASSUME NEW text, Wrote(text) PROVE Stop(shape', file'[k][Len(file'[k])])
    <2>1. /\ text \in Seq(Piece) /\ Len(text) # 0 /\ Stop(shape, text[Len(text)])
          /\ file'[k] = IF k = logStream THEN file[k] \o text ELSE file[k]
      BY <1>3 DEF Wrote, FileInv
    <2>2. CASE k = logStream
      BY <1>1, <2>1, <2>2, LastOfConcat
    <2>3. CASE k # logStream
      BY <1>1, <2>1, <2>3 DEF FlushInv
    <2>4. QED
      BY <2>2, <2>3
  <1>4. CASE LogStep
    BY <1>2, <1>3, <1>4, LogWrites DEF BeginPass
  <1>5. CASE UNCHANGED vars
    BY <1>2, <1>5 DEF vars, folder
  <1>6. CASE Register \/ PlotStep \/ Overflow
    BY <1>2, <1>6, PlotterFrame DEF LoggerVars
  <1>7. QED
    BY <1>4, <1>5, <1>6 DEF Next, LoggerNext

(* What is in a file is what begins its lines.                             *)
LEMMA FileBegins ==
    ASSUME LineInv, FileInv, NEW k \in Name
    PROVE  /\ Len(file[k]) \in Nat /\ Len(LinesFor(k)) \in Nat
           /\ Len(file[k]) <= Len(LinesFor(k))
           /\ \A i \in 1..Len(file[k]) : file[k][i] = LinesFor(k)[i]
  <1> DEFINE f == file[k]
             p == Pending(k)
             s == LinesFor(k)
  <1>1. f \in Seq(Piece) /\ p \in Seq(Piece) /\ s = f \o p
    BY PendingType DEF FileInv
  <1> HIDE DEF f, p, s
  <1>2. /\ Len(f) \in Nat /\ Len(p) \in Nat /\ Len(s) = Len(f) + Len(p)
        /\ \A i \in 1..Len(f) : s[i] = f[i]
    BY <1>1, ConcatProperties, LenProperties
  <1>3. QED
    BY <1>2 DEF f, s

LEMMA StopCuts ==
    ASSUME NEW n \in Nat \ {0}, NEW i \in 1..Len(Line(n)), Stop(shape, Line(n)[i])
    PROVE  i \in Cuts(n)
  <1>1. Line(n)[i].line = n /\ i \in DOMAIN Line(n)
    BY LinePieces
  <1>2. Line(n)[i].part \in {"tx", "end"} \/ (shape[n].long /\ Line(n)[i].part = "reply")
    BY <1>1, Zenon DEF Stop
  <1>3. QED
    BY <1>1, <1>2, Zenon DEF Cuts

(* What is read as a line is what a line holds between two flushes.        *)
LEMMA CutPlace ==
    ASSUME LineInv, FileInv, ReaderInv, PlaceInv, FlushInv, StopInv,
           wpc = "read", Unread # <<>>
    PROVE  /\ Stop(shape, file[in][at + Len(CurLine)])
           /\ \E n \in 1..line : \E i \in Cuts(n) \cup {0}, j \in Cuts(n) :
                 /\ CurLine = SubSeq(Line(n), i + 1, j)
                 /\ Len(CurLine) # 0 /\ CurLine[1].line = n
                 /\ CurLine[1].part = "head" => i = 0
  <1> DEFINE f == file[in]
             s == LinesFor(in)
  <1>1. /\ f \in Seq(Piece) /\ in \in Name /\ at \in Nat /\ at <= Len(f)
        /\ WholeLines(s, Lines)
    BY DEF ReaderInv, FileInv, PlaceInv
  <1>2. PICK e \in (at + 1)..Len(f) :
            /\ CurLine = SubSeq(f, at + 1, e) /\ CurLine \in Seq(Piece)
            /\ Len(CurLine) = e - at
            /\ \A i \in 1..(e - at) : CurLine[i] = f[at + i]
            /\ e = Len(f) \/ f[e].part = "end"
            /\ \A m \in (at + 1)..(e - 1) : f[m].part # "end"
    BY <1>1, LineRead
  <1>3. /\ Len(f) \in Nat /\ e \in 1..Len(s) /\ e \in 1..Len(f)
        /\ \A m \in 1..Len(f) : f[m] = s[m]
    BY <1>1, <1>2, FileBegins
  <1>4. Len(Lines) = line /\ line \in Nat /\ \A n \in 1..line : Lines[n] = Line(n)
    BY LinesType, ShapeType DEF Lines
  <1>5. PICK n \in 1..Len(Lines), b \in 0..(e - 1) : InLine(s, e, Lines[n], b)
    BY <1>1, <1>3 DEF WholeLines, Placed
  <1> DEFINE l == Line(n)
             i == at - b
             j == e - b
  <1>6. n \in 1..line /\ n \in Nat \ {0} /\ Lines[n] = l
    BY <1>4, <1>5
  <1>7. /\ l \in Seq(Piece) /\ Len(l) \in Nat
        /\ \A m \in 1..Len(l) : l[m].line = n /\ (l[m].part = "head" => m = 1)
    BY <1>6, LinePieces
  <1>8. Stop(shape, f[e])
    <2>1. CASE e = Len(f)
      <3>1. Len(f) # 0
        BY <1>2, <1>3
      <3>2. QED
        BY <1>1, <2>1, <3>1 DEF FlushInv
    <2>2. CASE f[e].part = "end"
      BY <2>2 DEF Stop
    <2>3. QED
      BY <1>2, <2>1, <2>2
  <1>9. at # 0 => Stop(shape, f[at])
    BY <1>1 DEF StopInv, ReaderInv
  <1>10. at + Len(CurLine) = e
    BY <1>1, <1>2
  <1> HIDE DEF f, s, l
  <1>11. /\ b # 0 => s[b].part = "end"
         /\ e - b <= Len(l)
         /\ \A m \in (b + 1)..e : s[m] = l[m - b]
    BY <1>5, <1>6 DEF InLine
  <1>12. b <= at
    <2> SUFFICES ASSUME ~(b <= at) PROVE FALSE
      OBVIOUS
    <2>1. b \in (at + 1)..(e - 1) /\ b # 0 /\ b \in 1..Len(f)
      BY <1>1, <1>2, <1>3
    <2>2. f[b].part = "end"
      BY <1>3, <1>11, <2>1
    <2>3. QED
      BY <1>2, <2>1, <2>2
  <1>13. /\ i \in Nat /\ j \in 1..Len(l) /\ i < j /\ j - i = e - at
         /\ i # 0 => at # 0 /\ at \in (b + 1)..e /\ at \in 1..Len(f) /\ i \in 1..Len(l)
    BY <1>1, <1>3, <1>7, <1>11, <1>12
  <1>14. \A m \in 1..(e - at) : at + m \in 1..Len(f) /\ at + m \in (b + 1)..e /\ at + m - b = i + m
    BY <1>1, <1>3, <1>12
  <1>15. f[e] = l[j] /\ (i # 0 => f[at] = l[i])
    <2>1. e \in (b + 1)..e
      BY <1>3
    <2>2. QED
      BY <1>3, <1>11, <1>13, <2>1
  <1> HIDE DEF i, j
  <1>16. \A m \in 1..(e - at) : CurLine[m] = l[i + m]
    <2> SUFFICES ASSUME NEW m \in 1..(e - at) PROVE CurLine[m] = l[i + m]
      OBVIOUS
    <2>1. CurLine[m] = f[at + m] /\ f[at + m] = s[at + m]
      BY <1>2, <1>3, <1>14
    <2> DEFINE k == at + m
    <2>2. k \in (b + 1)..e /\ k - b = i + m
      BY <1>1, <1>3, <1>12 DEF i
    <2>3. CurLine[m] = s[k]
      BY <2>1
    <2> HIDE DEF k
    <2>4. s[k] = l[k - b]
      BY <1>11, <2>2
    <2>5. QED
      BY <2>2, <2>3, <2>4
  <1>17. CurLine = SubSeq(l, i + 1, j)
    <2> DEFINE c == SubSeq(l, i + 1, j)
               d == CurLine
    <2>1. i \in Nat /\ j \in Nat /\ i <= j /\ j <= Len(l)
      BY <1>7, <1>13
    <2>2. c \in Seq(Piece) /\ Len(c) = j - i /\ \A m \in 1..(j - i) : c[m] = l[i + m]
      BY <1>7, <2>1, CutOf
    <2>3. d \in Seq(Piece) /\ Len(d) = e - at /\ \A m \in 1..(e - at) : d[m] = l[i + m]
      BY <1>2, <1>16
    <2> HIDE DEF c, d
    <2>4. c = d
      BY <1>13, <2>2, <2>3, SeqEqual
    <2>5. QED
      BY <2>4 DEF c, d
  <1>18. j \in Cuts(n)
    BY <1>6, <1>8, <1>13, <1>15, StopCuts DEF l
  <1>19. i \in Cuts(n) \cup {0}
    BY <1>6, <1>9, <1>13, <1>15, StopCuts DEF l
  <1>20. Len(CurLine) # 0 /\ CurLine[1] = l[i + 1] /\ i + 1 \in 1..Len(l)
    <2>1. 1 \in 1..(e - at) /\ e - at # 0
      BY <1>1, <1>2
    <2>2. i + 1 \in 1..Len(l)
      BY <1>7, <1>13
    <2>3. QED
      BY <1>2, <1>16, <2>1, <2>2
  <1>21. CurLine[1].line = n /\ (CurLine[1].part = "head" => i = 0)
    <2>1. i + 1 = 1 => i = 0
      BY <1>13
    <2>2. QED
      BY <1>7, <1>20, <2>1
  <1>22. QED
    BY <1>6, <1>8, <1>10, <1>17, <1>18, <1>19, <1>20, <1>21 DEF f, l

(* The lines read so far.                                                  *)
IsCut(text) ==
    \E n \in 1..line : \E i \in Cuts(n) \cup {0}, j \in Cuts(n) :
        /\ text = SubSeq(Line(n), i + 1, j)
        /\ Len(text) # 0 /\ text[1].line = n

CutInv  == \A t \in 1..Len(curLines) : IsCut(curLines[t])

ReadingInv == StopInv /\ CutInv

LEMMA CutStays ==
    ASSUME LineInv, [Next]_vars
    PROVE  \A text : IsCut(text) => IsCut(text)'
  <1>1. \A n : Line(n)' = Line(n) /\ Cuts(n)' = Cuts(n)
    BY ShapeKept
  <1>2. 1..line \subseteq 1..line'
    <2>1. line \in Nat
      BY ShapeType
    <2>2. line' = line \/ line' = line + 1
      <3>1. CASE LogStep
        BY <3>1 DEF LogStep, BeginPass, BeginLine, Counted, Spill, EndLine
      <3>2. CASE Register \/ PlotStep \/ Overflow
        BY <3>2, PlotterFrame DEF LoggerVars, logger
      <3>3. CASE UNCHANGED vars
        BY <3>3 DEF vars, logger
      <3>4. QED
        BY <3>1, <3>2, <3>3 DEF Next, LoggerNext
    <2>3. QED
      BY <2>1, <2>2
  <1>3. ASSUME NEW text, IsCut(text) PROVE IsCut(text)'
    <2>1. PICK n \in 1..line : \E i \in Cuts(n) \cup {0}, j \in Cuts(n) :
              /\ text = SubSeq(Line(n), i + 1, j)
              /\ Len(text) # 0 /\ text[1].line = n
      BY <1>3 DEF IsCut
    <2>2. n \in 1..line'
      BY <1>2
    <2>3. QED
      BY <1>1, <2>1, <2>2 DEF IsCut
  <1>4. QED
    BY <1>3

LEMMA ReadingKept ==
    /\ NameInv /\ LineInv /\ FileInv /\ ReaderInv /\ PlaceInv /\ FlushInv
    /\ ReadingInv /\ [Next]_vars
    => ReadingInv'
  <1> SUFFICES ASSUME NameInv, LineInv, FileInv, ReaderInv, PlaceInv, FlushInv,
                      ReadingInv, [Next]_vars
               PROVE  ReadingInv'
    OBVIOUS
  <1>1. StopInv /\ CutInv /\ in \in Name \cup {None} /\ at \in Nat
    BY DEF ReadingInv, ReaderInv
  <1>2. shape' = shape /\ Grows
    BY ShapeKept, FilesGrow
  <1>3. ASSUME in' = in, at' = at PROVE StopInv'
    <2> SUFFICES ASSUME in # None, at # 0 PROVE Stop(shape', file'[in'][at'])
      BY <1>3 DEF StopInv
    <2>1. in \in Name /\ at \in 1..Len(file[in])
      BY <1>1, <1>2 DEF ReaderInv, Grows
    <2>2. Stop(shape, file[in][at]) /\ file'[in][at] = file[in][at]
      BY <1>1, <1>2, <2>1 DEF StopInv, Grows
    <2>3. QED
      BY <1>2, <1>3, <2>2
  <1>4. ASSUME curLines' = curLines PROVE CutInv'
    <2> SUFFICES ASSUME NEW t \in 1..Len(curLines) PROVE IsCut(curLines[t])'
      BY <1>4 DEF CutInv
    <2> DEFINE text == curLines[t]
    <2>1. PICK x : x = text
      OBVIOUS
    <2>2. IsCut(x)
      BY <1>1, <2>1 DEF CutInv
    <2>3. IsCut(x)'
      BY <2>2, CutStays
    <2>4. x = curLines'[t]
      BY <1>4, <2>1
    <2>5. QED
      BY <2>3, <2>4 DEF IsCut
  <1>5. CASE LoggerNext \/ UNCHANGED vars
    <2>1. UNCHANGED <<in, at, curLines>>
      BY <1>5 DEF LoggerNext, vars, plotter
    <2>2. QED
      BY <1>3, <1>4, <2>1 DEF ReadingInv
  <1>6. CASE Register \/ PollEvents \/ EventsDone \/ ReadNull \/ Overflow
    <2>1. UNCHANGED <<in, at, curLines>>
      BY <1>6 DEF Register, PollEvents, EventsDone, ReadNull, Overflow
    <2>2. QED
      BY <1>3, <1>4, <2>1 DEF ReadingInv
  <1>7. CASE Follow
    <2>1. curLines' = curLines /\ (UNCHANGED <<in, at>> \/ at' = 0)
      BY <1>7 DEF Follow, Start
    <2>2. StopInv'
      BY <1>3, <2>1 DEF StopInv
    <2>3. QED
      BY <1>4, <2>1, <2>2 DEF ReadingInv
  <1>8. CASE ReadLine
    <2>1. /\ wpc = "read" /\ Unread # <<>> /\ in' = in /\ file' = file
          /\ at' = at + Len(CurLine) /\ curLines' = Append(curLines, CurLine)
      BY <1>8 DEF ReadLine, folder
    <2> DEFINE c == CurLine
    <2>2. /\ Stop(shape, file[in][at + Len(c)])
          /\ \E n \in 1..line : \E i \in Cuts(n) \cup {0}, j \in Cuts(n) :
                 /\ c = SubSeq(Line(n), i + 1, j)
                 /\ Len(c) # 0 /\ c[1].line = n
                 /\ c[1].part = "head" => i = 0
      BY <1>1, <2>1, CutPlace
    <2>3. StopInv'
      BY <1>2, <2>1, <2>2 DEF StopInv
    <2>4. c \in Seq(Piece)
      <3>1. file[in] \in Seq(Piece) /\ at <= Len(file[in])
        BY <2>1 DEF ReaderInv, FileInv
      <3>2. QED
        BY <1>1, <2>1, <3>1, LineRead
    <2>5. PICK x \in Seq(Piece) : x = c
      BY <2>4
    <2> HIDE DEF c
    <2>6. IsCut(x)
      BY <2>2, <2>5 DEF IsCut
    <2>7. IsCut(x)'
      BY <2>6, CutStays
    <2>8. /\ Len(curLines) \in Nat /\ Len(curLines') = Len(curLines) + 1
          /\ curLines'[Len(curLines) + 1] = x
          /\ \A t \in 1..Len(curLines) : curLines'[t] = curLines[t]
      <3> DEFINE T == Seq(Piece)
      <3>1. curLines \in Seq(T) /\ c \in T /\ curLines' = Append(curLines, c)
        BY <2>1, <2>4 DEF ReaderInv, c
      <3> HIDE DEF T
      <3>2. QED
        BY <2>5, <3>1, AppendProperties, LenProperties
    <2>9. CutInv'
      <3> SUFFICES ASSUME NEW t \in 1..Len(curLines') PROVE IsCut(curLines[t])'
        BY DEF CutInv
      <3>1. PICK y : y = curLines'[t]
        OBVIOUS
      <3>2. IsCut(y)'
        <4>1. CASE t \in 1..Len(curLines)
          <5>1. y = curLines[t] /\ IsCut(curLines[t])
            BY <1>1, <2>8, <3>1, <4>1 DEF CutInv
          <5>2. IsCut(y)
            BY <5>1
          <5>3. QED
            BY <5>2, CutStays
        <4>2. CASE t \notin 1..Len(curLines)
          <5>1. t = Len(curLines) + 1
            BY <2>8, <4>2
          <5>2. y = x
            BY <2>8, <3>1, <5>1
          <5>3. QED
            BY <2>7, <5>2
        <4>3. QED
          BY <4>1, <4>2
      <3>3. QED
        BY <3>1, <3>2 DEF IsCut
    <2>10. QED
      BY <2>3, <2>9 DEF ReadingInv
  <1>9. QED
    BY <1>5, <1>6, <1>7, <1>8 DEF Next, PlotStep

LEMMA ReadingStarts == Init => PlaceInv /\ FlushInv /\ ReadingInv
  <1> SUFFICES ASSUME Init PROVE PlaceInv /\ FlushInv /\ ReadingInv
    OBVIOUS
  <1>1. /\ wpc = "off" /\ in = None /\ at = 0 /\ curLines = <<>>
        /\ file = [k \in Name |-> <<>>] /\ lpc = "records"
        /\ NameInv /\ LineInv /\ FileInv
    BY StartsWhole DEF Init, LogInit
  <1>2. \A k \in Name : Len(file[k]) = 0
    BY <1>1
  <1>3. FlushInv
    BY <1>2 DEF FlushInv
  <1>4. ASSUME NEW k \in Name PROVE WholeLines(LinesFor(k), Lines)
    <2>1. LinesFor(k) = file[k] \o <<>>
      BY <1>1 DEF FileInv, Pending
    <2>2. Len(LinesFor(k)) = 0
      BY <1>1, <1>2, <2>1
    <2>3. QED
      BY <2>2 DEF WholeLines, Placed
  <1>5. ReadingInv
    BY <1>1 DEF ReadingInv, StopInv, CutInv
  <1>6. QED
    BY <1>3, <1>4, <1>5 DEF PlaceInv

LEMMA ReadingInvariant ==
    Spec => [](LineInv /\ FileInv /\ ReaderInv /\ PlaceInv /\ FlushInv /\ ReadingInv)
  BY ReaderInvariant, ReadingStarts, PlaceKept, FlushKept, ReadingKept, PTL DEF Spec

(* What the plotter takes for a line begins at the start of a line, or     *)
(* where the logger flushed before, and ends where it flushes: whenever    *)
(* the reader comes, and however long the log is.                          *)
THEOREM CutsHold == Spec => []CutsAtFlushes
  <1>1. ASSUME ReaderInv, ReadingInv PROVE CutsAtFlushes
    <2> SUFFICES ASSUME NEW text \in ToSet(curLines)
                 PROVE  \E i \in Cuts(text[1].line) \cup {0}, j \in Cuts(text[1].line) :
                           text = SubSeq(Line(text[1].line), i + 1, j)
      BY DEF CutsAtFlushes
    <2>1. PICK t \in 1..Len(curLines) : text = curLines[t]
      BY <1>1, LenProperties DEF ToSet, ReaderInv
    <2>2. IsCut(text)
      BY <1>1, <2>1 DEF ReadingInv, CutInv
    <2>3. QED
      BY <2>2 DEF IsCut
  <1>2. QED
    BY <1>1, ReadingInvariant, PTL

-----------------------------------------------------------------------------
(***************************************************************************)
(* The notices.  The names of the files that the logger opens rise; the    *)
(* notices that wait tell of them in that order, and of all the files that *)
(* came after the one that is read.  Text that the reader has not read is  *)
(* told of before the next file is.                                        *)
(***************************************************************************)

Queue == batch \o events

PassInv ==
    /\ passName <= name
    /\ \A k \in exists : k <= passName
    /\ logStream # None => logStream \in exists

WatchInv ==
    /\ wpc = "off" => events = <<>> /\ batch = <<>> /\ in = None
    /\ wpc = "take" => batch = <<>>
    /\ wpc = "off" <=> ~watched

LEMMA Unwatched ==
    ASSUME ~watched, NEW kind, NEW k
    PROVE  Noticed(kind, k) = events
  BY Zenon DEF Noticed

(* What a step of the logger does to the files and to the notices.         *)
Created(k) ==
    /\ k \in Name /\ passName < k /\ \A j \in exists : j < k
    /\ exists' = exists \cup {k} /\ file' = file
    /\ events' = Noticed("create", k)

Written(k) ==
    /\ k \in exists /\ k = passName
    /\ exists' = exists
    /\ \A j \in Name : j # k => file'[j] = file[j]
    /\ events' = Noticed("modify", k)

LEMMA LogMoves ==
    ASSUME NameInv, LineInv, FileInv, PassInv, LogStep
    PROVE  \/ UNCHANGED <<file, events, exists>>
           \/ \E k : Created(k)
           \/ \E k : Written(k)
  <1>1. CASE BeginPass
    <2>1. /\ file' = file /\ name' \in name..MaxName
          /\ logFileNameExp' = IF rollFile # 0 THEN name' ELSE logFileNameExp
      BY <1>1 DEF BeginPass
    <2>2. /\ passName <= name /\ name \in Nat /\ passName \in Nat
          /\ logFileNameExp = passName /\ logFileNameLast = passName /\ exists \subseteq Nat
          /\ \A k \in exists : k <= passName
      BY NameFacts DEF NameInv, PassInv, None
    <2>3. CASE logFileNameExp' = logFileNameLast
      BY <1>1, <2>3 DEF BeginPass
    <2>4. CASE logFileNameExp' # logFileNameLast
      <3>1. logFileNameExp' = name' /\ passName < name'
        BY <2>1, <2>2, <2>4
      <3>2. Open
        BY <1>1, <2>4 DEF BeginPass
      <3>3. name' \in Name /\ name' \notin exists
        BY <2>1, <2>2, <3>1, LogBoundsAssumption DEF Name
      <3>4. CASE UNCHANGED <<exists, events>>
        BY <2>1, <3>4
      <3>5. CASE exists' = exists \cup {name'} /\ events' = Noticed("create", name')
        <4>1. \A j \in exists : j < name'
          BY <2>1, <2>2, <3>1
        <4>2. PICK k : k = name'
          OBVIOUS
        <4>3. Created(k)
          BY <2>1, <3>1, <3>3, <3>5, <4>1, <4>2 DEF Created
        <4>4. QED
          BY <4>3
      <3>6. QED
        BY <3>1, <3>2, <3>3, <3>4, <3>5 DEF Open
    <2>5. QED
      BY <2>3, <2>4
  <1>2. CASE ~BeginPass
    <2>1. exists' = exists
      BY <1>2 DEF LogStep, BeginLine, Counted, Spill, EndLine
    <2>2. ASSUME NEW text, Wrote(text) PROVE Written(logStream)
      <3>1. /\ logStream \in Name /\ events' = Noticed("modify", logStream)
            /\ \A j \in Name : j # logStream => file'[j] = file[j]
        BY <2>2 DEF Wrote, FileInv
      <3>2. logStream = passName /\ logStream \in exists
        BY <3>1, NameFacts DEF NameInv, PassInv
      <3>3. QED
        BY <2>1, <3>1, <3>2 DEF Written
    <2>3. QED
      BY <1>2, <2>1, <2>2, LogWrites
  <1>3. QED
    BY <1>1, <1>2

LEMMA PassKept == NameInv /\ PassInv /\ [Next]_vars => PassInv'
  <1> SUFFICES ASSUME NameInv, PassInv, [Next]_vars PROVE PassInv'
    OBVIOUS
  <1>1. ASSUME UNCHANGED <<passName, name, exists, logStream>> PROVE PassInv'
    BY <1>1 DEF PassInv
  <1>2. CASE BeginPass
    <2>1. /\ name' \in name..MaxName
          /\ passName' = name' \/ passName' = passName
          /\ logFileNameExp' = IF rollFile # 0 THEN name' ELSE logFileNameExp
      BY <1>2 DEF BeginPass
    <2>2. /\ passName <= name /\ name \in Nat /\ passName \in Nat
          /\ logFileNameExp = passName /\ logFileNameLast = passName /\ exists \subseteq Nat
          /\ \A k \in exists : k <= passName
      BY NameFacts DEF NameInv, PassInv, None
    <2>3. logFileNameExp' = passName' /\ logStream' \in {passName', None}
      <3>1. (NameInv)'
        BY NameKept
      <3>2. QED
        BY <3>1 DEF NameInv
    <2>4. passName' <= name' /\ passName <= passName'
      BY <2>1, <2>2, LogBoundsAssumption
    <2>5. exists' \subseteq exists \cup {passName'} /\ (logStream' # None => logStream' \in exists')
      <3>1. CASE logFileNameExp' # logFileNameLast
        BY <1>2, <2>3, <3>1 DEF BeginPass, Open
      <3>2. CASE logFileNameExp' = logFileNameLast
        BY <1>2, <3>2 DEF BeginPass, PassInv
      <3>3. QED
        BY <3>1, <3>2
    <2>6. \A k \in exists' : k <= passName'
      BY <2>1, <2>2, <2>4, <2>5, LogBoundsAssumption
    <2>7. QED
      BY <2>4, <2>5, <2>6 DEF PassInv
  <1>3. CASE BeginLine \/ Spill \/ EndLine
    BY <1>1, <1>3 DEF BeginLine, Counted, Spill, EndLine, printed, naming
  <1>4. CASE Register \/ PlotStep \/ Overflow
    BY <1>1, <1>4, PlotterFrame DEF LoggerVars, logger, printed, naming
  <1>5. CASE UNCHANGED vars
    BY <1>1, <1>5 DEF vars, logger, printed, folder, naming
  <1>6. QED
    BY <1>2, <1>3, <1>4, <1>5 DEF Next, LoggerNext, LogStep

LEMMA WatchKept ==
    NameInv /\ LineInv /\ FileInv /\ ReaderInv /\ PassInv /\ WatchInv /\ [Next]_vars
    => WatchInv'
  <1> SUFFICES ASSUME NameInv, LineInv, FileInv, ReaderInv, PassInv, WatchInv, [Next]_vars
               PROVE  WatchInv'
    OBVIOUS
  <1>1. CASE LoggerNext
    <2>1. UNCHANGED <<wpc, batch, in>> /\ LogStep
      BY <1>1 DEF LoggerNext
    <2>2. watched' = watched
      BY <2>1 DEF LogStep, BeginPass, BeginLine, Counted, Spill, EndLine
    <2>3. ASSUME wpc = "off" PROVE events' = events
      <3>1. ~watched
        BY <2>3, Zenon DEF WatchInv
      <3>2. QED
        BY <2>1, <3>1, LogMoves, Unwatched DEF Created, Written
    <2>4. wpc' = "off" => events' = <<>> /\ batch' = <<>> /\ in' = None
      BY <2>1, <2>3 DEF WatchInv
    <2>5. wpc' = "take" => batch' = <<>>
      BY <2>1 DEF WatchInv
    <2>6. wpc' = "off" <=> ~watched'
      BY <2>1, <2>2, Zenon DEF WatchInv
    <2>7. QED
      BY <2>4, <2>5, <2>6, Zenon DEF WatchInv
  <1>2. CASE UNCHANGED vars
    BY <1>2, Zenon DEF vars, folder, plotter, WatchInv
  <1>3. CASE Register
    <2>1. wpc' = "take" /\ wpc = "off" /\ batch' = batch
      BY <1>3 DEF Register
    <2>2. watched' = TRUE
      BY <1>3, Zenon DEF Register
    <2>3. batch = <<>> /\ "take" # "off"
      BY <2>1 DEF WatchInv
    <2>4. QED
      BY <2>1, <2>2, <2>3, Zenon DEF WatchInv
  <1>4. CASE PlotStep \/ Overflow
    <2>1. watched' = watched
      BY <1>4, Zenon DEF PlotStep, Overflow, PollEvents, Follow, EventsDone, ReadLine,
         ReadNull, folder
    <2>2. wpc # "off" /\ wpc' # "off" /\ (wpc' = "take" => batch' = <<>>)
      <3>1. CASE PlotStep
        BY <3>1 DEF PlotStep, PollEvents, Follow, EventsDone, ReadLine,
           PassOver, AddValue, Fatal, ReadNull, AfterLine
      <3>2. CASE Overflow
        BY <3>2 DEF Overflow, WatchInv
      <3>3. QED
        BY <1>4, <3>1, <3>2
    <2>3. QED
      BY <2>1, <2>2, Zenon DEF WatchInv
  <1>5. QED
    BY <1>1, <1>2, <1>3, <1>4 DEF Next

-----------------------------------------------------------------------------
(* The notices q, while none is lost: they name files that exist, in their *)
(* order; those since k; those that tell of the files after k.             *)
Ordered(q, there) ==
    /\ \A i \in 1..Len(q) : q[i].file \in there /\ q[i].kind \in {"create", "modify"}
    /\ \A i, j \in 1..Len(q) :
          i < j => /\ q[i].file <= q[j].file
                   /\ q[j].kind = "create" => q[i].file < q[j].file

Since(q, k) ==
    \A i \in 1..Len(q) :
        k <= q[i].file /\ (q[i].kind = "create" => k < q[i].file)

Told(q, k, there) ==
    \A j \in there : k < j => \E i \in 1..Len(q) : q[i] = Notice("create", j)

(* They are what a reader of file k needs, or one of no file yet.          *)
Serves(q, k, there) ==
    /\ Ordered(q, there)
    /\ k # None => k \in there /\ Since(q, k) /\ Told(q, k, there)
    /\ k = None /\ Len(q) # 0 => Told(q, q[1].file, there)

NoticeInv ==
    /\ Serves(Queue, in, exists)
    /\ in # None /\ wpc \notin {"read", "dead"} /\ at < Len(file[in])
          => Len(Queue) # 0 /\ Queue[1].kind = "modify"

(* A notice of the newest file is added at the end.                        *)
LEMMA NoticeAdded ==
    ASSUME NEW q \in Seq(Event), NEW k \in Name \cup {None}, NEW there \in SUBSET Nat,
           Serves(q, k, there),
           NEW n \in Name, \A j \in there : j <= n,
           NEW kind \in {"create", "modify"},
           kind = "create" => \A j \in there : j < n,
           kind = "modify" => n \in there
    PROVE  Serves(Append(q, Notice(kind, n)), k, there \cup {n})
  <1> DEFINE e == Notice(kind, n)
             r == Append(q, e)
             m == Len(q) + 1
             all == there \cup {n}
  <1>1. e \in Event /\ e.kind = kind /\ e.file = n /\ (kind = "create" => e = Notice("create", n))
    BY DEF Event, Notice
  <1>2. /\ Len(q) \in Nat /\ Len(r) = m /\ m \in 1..m /\ r[m] = e /\ 1 \in 1..m /\ m # 0
        /\ \A i \in 1..m : i = m \/ (i \in 1..Len(q) /\ i < m)
        /\ \A i \in 1..Len(q) : r[i] = q[i] /\ i \in 1..m /\ ~(m < i)
    <2> HIDE DEF e, Event
    <2>1. Len(q) \in Nat /\ Len(r) = m /\ r[m] = e /\ \A i \in 1..Len(q) : r[i] = q[i]
      BY <1>1, AppendProperties, LenProperties
    <2> HIDE DEF r
    <2>2. QED
      BY <2>1
  <1>3. n \in Nat /\ n # None /\ k \in Nat /\ None = 0
    BY NameFacts DEF None
  <1>4. Ordered(q, there)
    BY DEF Serves
  <1> HIDE DEF e, r, m, all
  <1>5. \A i \in 1..Len(q) : /\ q[i].file \in there /\ q[i].kind \in {"create", "modify"}
                             /\ q[i].file <= n /\ (kind = "create" => q[i].file < n)
    BY <1>4 DEF Ordered
  <1>6. Ordered(r, all)
    <2>1. ASSUME NEW i \in 1..m
          PROVE  r[i].file \in all /\ r[i].kind \in {"create", "modify"}
      <3>1. CASE i = m
        BY <1>1, <1>2, <3>1 DEF all
      <3>2. CASE i # m
        <4>1. i \in 1..Len(q) /\ r[i] = q[i]
          BY <1>2, <3>2
        <4>2. QED
          BY <1>5, <4>1 DEF all
      <3>3. QED
        BY <3>1, <3>2
    <2>2. ASSUME NEW i \in 1..m, NEW j \in 1..m, i < j
          PROVE  /\ r[i].file <= r[j].file
                 /\ r[j].kind = "create" => r[i].file < r[j].file
      <3>1. i \in 1..Len(q) /\ r[i] = q[i]
        BY <1>2, <2>2
      <3>2. CASE j = m
        BY <1>1, <1>2, <1>5, <3>1, <3>2
      <3>3. CASE j # m
        <4>1. j \in 1..Len(q) /\ r[j] = q[j]
          BY <1>2, <3>3
        <4>2. QED
          BY <1>4, <2>2, <3>1, <4>1 DEF Ordered
      <3>4. QED
        BY <3>2, <3>3
    <2>3. QED
      BY <1>2, <2>1, <2>2 DEF Ordered
  <1>7. ASSUME NEW o, Told(q, o, there) PROVE Told(r, o, all)
    <2> SUFFICES ASSUME NEW j \in all, o < j
                 PROVE  \E i \in 1..m : r[i] = Notice("create", j)
      BY <1>2 DEF Told
    <2>1. CASE j \in there
      <3>1. PICK i \in 1..Len(q) : q[i] = Notice("create", j)
        BY <1>7, <2>1 DEF Told
      <3>2. QED
        BY <1>2, <3>1
    <2>2. CASE j \notin there
      <3>1. j = n /\ kind = "create"
        BY <2>2 DEF all
      <3>2. QED
        BY <1>1, <1>2, <3>1
    <2>3. QED
      BY <2>1, <2>2
  <1>8. ASSUME k # None PROVE k \in all /\ Since(r, k) /\ Told(r, k, all)
    <2>1. k \in there /\ Since(q, k) /\ Told(q, k, there)
      BY <1>8 DEF Serves
    <2>2. k <= n /\ (kind = "create" => k < n)
      BY <2>1
    <2>3. ASSUME NEW i \in 1..m
          PROVE  k <= r[i].file /\ (r[i].kind = "create" => k < r[i].file)
      <3>1. CASE i = m
        BY <1>1, <1>2, <2>2, <3>1
      <3>2. CASE i # m
        <4>1. i \in 1..Len(q) /\ r[i] = q[i]
          BY <1>2, <3>2
        <4>2. QED
          BY <2>1, <4>1 DEF Since
      <3>3. QED
        BY <3>1, <3>2
    <2>4. QED
      BY <1>2, <1>7, <2>1, <2>3 DEF Since, all
  <1>9. ASSUME k = None PROVE Told(r, r[1].file, all)
    <2>1. CASE Len(q) = 0
      <3>1. m = 1 /\ r[1].file = n
        BY <1>1, <1>2, <2>1 DEF m
      <3>2. \A j \in all : ~(n < j)
        BY <1>3 DEF all
      <3>3. QED
        BY <3>1, <3>2 DEF Told
    <2>2. CASE Len(q) # 0
      <3>1. Told(q, q[1].file, there) /\ r[1] = q[1]
        BY <1>2, <1>9, <2>2 DEF Serves
      <3>2. QED
        BY <1>7, <3>1
    <2>3. QED
      BY <2>1, <2>2
  <1>10. QED
    BY <1>6, <1>8, <1>9 DEF Serves, r, e, all

(* The first notice is taken: its file is opened, or it is of the file     *)
(* that is read.                                                           *)
LEMMA NoticeTaken ==
    ASSUME NEW q \in Seq(Event), NEW k \in Name \cup {None}, NEW there \in SUBSET Name,
           Serves(q, k, there), Len(q) # 0,
           NEW r \in Seq(Event), Len(r) = Len(q) - 1,
           \A i \in 1..(Len(q) - 1) : r[i] = q[i + 1]
    PROVE  /\ q[1].file \in there
           /\ q[1].kind = "create" \/ k = None => Serves(r, q[1].file, there)
           /\ q[1].kind # "create" /\ k # None => Serves(r, k, there)
           /\ q[1].kind = "create" /\ k # None =>
                 /\ k < q[1].file
                 /\ \A j \in there : k < j /\ j <= q[1].file => j = q[1].file
  <1> DEFINE a == q[1].file
  <1>1. /\ Len(q) \in Nat /\ Len(r) \in Nat /\ 1 \in 1..Len(q)
        /\ \A i \in 1..Len(r) : i + 1 \in 1..Len(q) /\ 1 < i + 1 /\ r[i] = q[i + 1]
        /\ \A i \in 1..Len(q) : i = 1 \/ (i - 1 \in 1..Len(r) /\ r[i - 1] = q[i] /\ 1 < i)
    <2>1. Len(q) \in Nat /\ Len(r) \in Nat
      BY LenProperties
    <2>2. \A i \in 1..Len(r) : r[i] = q[i + 1]
      BY <2>1
    <2>3. ASSUME NEW i \in 1..Len(q), i # 1 PROVE i - 1 \in 1..Len(r) /\ r[i - 1] = q[i]
      <3>1. i - 1 \in 1..Len(r) /\ i - 1 + 1 = i
        BY <2>1, <2>3
      <3>2. QED
        BY <2>2, <3>1
    <2>4. QED
      BY <2>1, <2>2, <2>3
  <1>2. Ordered(q, there) /\ there \subseteq Nat /\ k \in Nat /\ None \notin there
    BY NameFacts DEF Serves, None
  <1>3. a \in there /\ a \in Nat /\ a # None
    BY <1>1, <1>2 DEF Ordered
  <1>4. \A i \in 1..Len(q) : /\ q[i].file \in Nat
                             /\ 1 < i => /\ a <= q[i].file
                                         /\ q[i].kind = "create" => a < q[i].file
    BY <1>1, <1>2 DEF Ordered
  <1>5. Ordered(r, there) /\ Since(r, a)
    <2>1. \A i \in 1..Len(r) : r[i].file \in there /\ r[i].kind \in {"create", "modify"}
      BY <1>1, <1>2 DEF Ordered
    <2>2. ASSUME NEW i \in 1..Len(r), NEW j \in 1..Len(r), i < j
          PROVE  /\ r[i].file <= r[j].file
                 /\ r[j].kind = "create" => r[i].file < r[j].file
      <3>1. /\ i + 1 \in 1..Len(q) /\ j + 1 \in 1..Len(q) /\ i + 1 < j + 1
            /\ r[i] = q[i + 1] /\ r[j] = q[j + 1]
        BY <1>1, <2>2
      <3>2. QED
        BY <1>2, <3>1 DEF Ordered
    <2>3. \A i \in 1..Len(r) : a <= r[i].file /\ (r[i].kind = "create" => a < r[i].file)
      BY <1>1, <1>4
    <2>4. QED
      BY <2>1, <2>2, <2>3 DEF Ordered, Since
  <1>6. ASSUME NEW o \in Nat, Told(q, o, there), NEW j \in there, o < j,
               q[1] # Notice("create", j)
        PROVE  \E i \in 1..Len(r) : r[i] = Notice("create", j)
    <2>1. PICK i \in 1..Len(q) : q[i] = Notice("create", j)
      BY <1>6 DEF Told
    <2>2. i # 1
      BY <1>6, <2>1
    <2>3. i - 1 \in 1..Len(r) /\ r[i - 1] = q[i]
      BY <1>1, <2>2
    <2>4. QED
      BY <2>1, <2>3
  <1>7. \A j : q[1] = Notice("create", j) => q[1].kind = "create" /\ j = a
    BY DEF Notice
  <1>8. CASE q[1].kind = "create" /\ k # None
    <2>1. k < a /\ Told(q, k, there)
      BY <1>1, <1>8 DEF Serves, Since
    <2>2. Told(r, a, there)
      <3> SUFFICES ASSUME NEW j \in there, a < j
                   PROVE  \E i \in 1..Len(r) : r[i] = Notice("create", j)
        BY DEF Told
      <3>1. k < j /\ j # a
        BY <1>2, <1>3, <2>1
      <3>2. QED
        BY <1>2, <1>6, <1>7, <2>1, <3>1
    <2>3. ASSUME NEW j \in there, k < j, j <= a PROVE j = a
      <3>1. PICK i \in 1..Len(q) : q[i] = Notice("create", j)
        BY <2>1, <2>3 DEF Told
      <3>2. q[i].file = j /\ q[i].kind = "create"
        BY <3>1 DEF Notice
      <3>3. CASE i = 1
        BY <3>2, <3>3
      <3>4. CASE i # 1
        <4>1. a < j
          BY <1>1, <1>4, <3>2, <3>4
        <4>2. QED
          BY <1>2, <1>3, <2>3, <4>1
      <3>5. QED
        BY <3>3, <3>4
    <2>4. Serves(r, a, there)
      BY <1>3, <1>5, <2>2 DEF Serves
    <2>5. QED
      BY <1>3, <1>8, <2>1, <2>3, <2>4
  <1>9. CASE k = None
    <2>1. Told(q, a, there)
      BY <1>9 DEF Serves
    <2>2. Told(r, a, there)
      <3> SUFFICES ASSUME NEW j \in there, a < j
                   PROVE  \E i \in 1..Len(r) : r[i] = Notice("create", j)
        BY DEF Told
      <3>1. j # a
        BY <1>2, <1>3
      <3>2. QED
        BY <1>3, <1>6, <1>7, <2>1, <3>1
    <2>3. Serves(r, a, there)
      BY <1>3, <1>5, <2>2 DEF Serves
    <2>4. QED
      BY <1>3, <1>9, <2>3
  <1>10. CASE q[1].kind # "create" /\ k # None
    <2>1. k \in there /\ Since(q, k) /\ Told(q, k, there)
      BY <1>10 DEF Serves
    <2>2. Since(r, k)
      BY <1>1, <2>1 DEF Since
    <2>3. Told(r, k, there)
      <3> SUFFICES ASSUME NEW j \in there, k < j
                   PROVE  \E i \in 1..Len(r) : r[i] = Notice("create", j)
        BY DEF Told
      <3>1. QED
        BY <1>2, <1>6, <1>7, <1>10, <2>1
    <2>4. Serves(r, k, there)
      BY <1>5, <1>10, <2>1, <2>2, <2>3 DEF Serves
    <2>5. QED
      BY <1>3, <1>10, <2>4
  <1>11. QED
    BY <1>8, <1>9, <1>10

LEMMA NoticedIs ==
    ASSUME watched, NEW kind, NEW k
    PROVE  \/ Noticed(kind, k) = Append(events, Notice(kind, k))
           \/ /\ Noticed(kind, k) = events
              /\ events # <<>> /\ Last(events) = Notice(kind, k)
  <1>1. CASE events # <<>> /\ Last(events) = Notice(kind, k)
    BY <1>1, Zenon DEF Noticed, Notice
  <1>2. CASE ~(events # <<>> /\ Last(events) = Notice(kind, k))
    BY <1>2, Zenon DEF Noticed, Notice
  <1>3. QED
    BY <1>1, <1>2

LEMMA QueueType ==
    ASSUME ReaderInv
    PROVE  /\ Queue \in Seq(Event) /\ Len(Queue) \in Nat
           /\ \A i \in 1..Len(Queue) : Queue[i] \in Event
           /\ events # <<>> => Len(Queue) # 0 /\ Queue[Len(Queue)] = Last(events)
  <1>1. batch \in Seq(Event) /\ events \in Seq(Event)
    BY DEF ReaderInv
  <1> HIDE DEF Event
  <1>2. Queue \in Seq(Event)
    BY <1>1, ConcatProperties DEF Queue
  <1>3. ASSUME events # <<>> PROVE Len(Queue) # 0 /\ Queue[Len(Queue)] = Last(events)
    <2>1. Len(events) # 0
      BY <1>1, <1>3, EmptySeq
    <2>2. QED
      BY <1>1, <2>1, EndOfConcat DEF Queue, Last
  <1>4. QED
    BY <1>2, <1>3, LenProperties, ElementOfSeq

(* Notices of the newest file only leave the first one for unread text.    *)
LEMMA FirstIsText ==
    ASSUME NEW q, NEW k, NEW there, Serves(q, k, there), k # None, k \in Nat,
           Len(q) \in Nat, Len(q) # 0, there \subseteq Nat, \A j \in there : j <= k
    PROVE  q[1].kind = "modify"
  <1>1. 1 \in 1..Len(q)
    OBVIOUS
  <1>2. /\ q[1].file \in there /\ q[1].kind \in {"create", "modify"}
        /\ q[1].kind = "create" => k < q[1].file
    BY <1>1 DEF Serves, Ordered, Since
  <1>3. q[1].file \in Nat /\ q[1].file <= k
    BY <1>2
  <1>4. ~(k < q[1].file)
    BY <1>3
  <1>5. QED
    BY <1>2, <1>4

LEMMA NoticeLogged ==
    ASSUME NameInv, LineInv, FileInv, ReaderInv, ReaderInv', PassInv, WatchInv,
           NoticeInv, LoggerNext
    PROVE  NoticeInv'
  <1>1. UNCHANGED <<wpc, batch, in, at>> /\ LogStep
    BY DEF LoggerNext
  <1>2. /\ Queue \in Seq(Event) /\ Len(Queue) \in Nat
        /\ events # <<>> => Len(Queue) # 0 /\ Queue[Len(Queue)] = Last(events)
        /\ Queue' = batch \o events'
    BY <1>1, QueueType DEF Queue
  <1>3. /\ exists \subseteq Name /\ Name \subseteq Nat /\ None \notin Name /\ None = 0
        /\ in \in Name \cup {None} /\ \A k \in exists : k <= passName
    BY NameFacts DEF NameInv, PassInv, ReaderInv, None
  <1>4. Serves(Queue, in, exists)
    BY DEF NoticeInv
  <1>5. watched => \A n \in Name : \A kind \in {"create", "modify"} :
            events' = Noticed(kind, n) =>
               \/ Queue' = Append(Queue, Notice(kind, n))
               \/ /\ Queue' = Queue /\ Len(Queue) # 0
                  /\ Queue[Len(Queue)] = Notice(kind, n)
    <2> SUFFICES ASSUME watched, NEW n \in Name, NEW kind \in {"create", "modify"},
                        events' = Noticed(kind, n)
                 PROVE  \/ Queue' = Append(Queue, Notice(kind, n))
                        \/ /\ Queue' = Queue /\ Len(Queue) # 0
                           /\ Queue[Len(Queue)] = Notice(kind, n)
      BY Zenon
    <2>1. CASE events' = Append(events, Notice(kind, n))
      <3>1. /\ Notice(kind, n) \in Event /\ batch \in Seq(Event) /\ events \in Seq(Event)
        BY DEF Event, ReaderInv
      <3> HIDE DEF Event
      <3>2. batch \o Append(events, Notice(kind, n)) = Append(batch \o events, Notice(kind, n))
        BY <3>1, AppendToPart
      <3>3. QED
        BY <1>2, <2>1, <3>2 DEF Queue
    <2>2. CASE events' = events /\ events # <<>> /\ Last(events) = Notice(kind, n)
      BY <1>2, <2>2 DEF Queue
    <2>3. QED
      BY <2>1, <2>2, NoticedIs, Zenon
  <1>6. CASE ~watched
    <2>1. wpc = "off"
      BY <1>6, Zenon DEF WatchInv
    <2>2. wpc' = "off" /\ in = None /\ batch = <<>>
      BY <1>1, <2>1 DEF WatchInv
    <2>3. events' = <<>>
      <3>1. events' = events
        BY <1>1, <1>6, LogMoves, Unwatched DEF Created, Written
      <3>2. QED
        BY <2>1, <3>1 DEF WatchInv
    <2>4. Queue' = <<>>
      BY <1>2, <2>2, <2>3
    <2>5. QED
      BY <1>1, <2>2, <2>4 DEF NoticeInv, Serves, Ordered
  <1>7. CASE watched /\ UNCHANGED <<file, events, exists>>
    BY <1>1, <1>2, <1>7 DEF NoticeInv, Queue
  <1>8. ASSUME watched, NEW k, Created(k) PROVE NoticeInv'
    <2>1. /\ k \in Name /\ \A j \in exists : j < k
          /\ exists' = exists \cup {k} /\ file' = file /\ events' = Noticed("create", k)
      BY <1>8 DEF Created
    <2>2. Queue' = Append(Queue, Notice("create", k))
      <3>1. ASSUME Len(Queue) # 0, Queue[Len(Queue)] = Notice("create", k) PROVE FALSE
        <4>1. Len(Queue) \in 1..Len(Queue)
          BY <1>2, <3>1
        <4>2. Queue[Len(Queue)].file \in exists
          BY <1>4, <4>1 DEF Serves, Ordered
        <4>3. k \in exists
          BY <3>1, <4>2 DEF Notice
        <4>4. QED
          BY <1>3, <2>1, <4>3
      <3>2. QED
        BY <1>5, <1>8, <2>1, <3>1, Zenon
    <2>3. Serves(Queue', in, exists')
      <3>1. \A j \in exists : j <= k
        BY <1>3, <2>1
      <3>2. exists \in SUBSET Nat
        BY <1>3
      <3> DEFINE q == Queue
      <3>3. q \in Seq(Event) /\ Serves(q, in, exists)
        BY <1>2, <1>4
      <3> HIDE DEF q, Event
      <3>4. Serves(Append(q, Notice("create", k)), in, exists \cup {k})
        BY <1>3, <2>1, <3>1, <3>2, <3>3, NoticeAdded
      <3>5. QED
        BY <2>1, <2>2, <3>4 DEF q
    <2>4. ASSUME in # None, wpc \notin {"read", "dead"}, at < Len(file[in])
          PROVE  Len(Queue') # 0 /\ Queue'[1].kind = "modify"
      <3>1. Len(Queue) # 0 /\ Queue[1].kind = "modify"
        BY <2>4 DEF NoticeInv
      <3>2. Notice("create", k) \in Event
        BY <2>1 DEF Event
      <3> HIDE DEF Event
      <3>3. Len(Append(Queue, Notice("create", k))) # 0
            /\ Append(Queue, Notice("create", k))[1] = Queue[1]
        BY <1>2, <3>1, <3>2, AppendProperties
      <3>4. QED
        BY <2>2, <3>1, <3>3
    <2>5. QED
      BY <1>1, <2>1, <2>3, <2>4 DEF NoticeInv
  <1>9. ASSUME watched, NEW k, Written(k) PROVE NoticeInv'
    <2>1. /\ k \in exists /\ k \in Name /\ k = passName /\ exists' = exists
          /\ \A j \in Name : j # k => file'[j] = file[j]
          /\ events' = Noticed("modify", k)
      BY <1>3, <1>9 DEF Written
    <2>2. \/ Queue' = Append(Queue, Notice("modify", k))
          \/ Queue' = Queue /\ Len(Queue) # 0
      BY <1>5, <1>9, <2>1, Zenon
    <2>3. Serves(Queue', in, exists')
      <3>1. exists \in SUBSET Nat /\ exists \cup {k} = exists
        BY <1>3, <2>1
      <3>2. \A j \in exists : j <= k
        BY <1>3, <2>1
      <3> DEFINE q == Queue
      <3>3. q \in Seq(Event) /\ Serves(q, in, exists)
        BY <1>2, <1>4
      <3> HIDE DEF q, Event
      <3>4. Serves(Append(q, Notice("modify", k)), in, exists \cup {k})
        BY <1>3, <2>1, <3>1, <3>2, <3>3, NoticeAdded
      <3>5. QED
        BY <1>4, <2>1, <2>2, <3>1, <3>4 DEF q
    <2>4. /\ Len(Queue') \in Nat /\ Len(Queue') # 0
          /\ Len(Queue) # 0 => Queue'[1] = Queue[1]
      <3>1. Notice("modify", k) \in Event
        BY <2>1 DEF Event
      <3> HIDE DEF Event
      <3>2. /\ Len(Append(Queue, Notice("modify", k))) = Len(Queue) + 1
            /\ Len(Queue) # 0 => Append(Queue, Notice("modify", k))[1] = Queue[1]
        BY <1>2, <3>1, AppendProperties
      <3>3. QED
        <4> DEFINE r == Append(Queue, Notice("modify", k))
        <4>1. Len(Queue) \in Nat
          BY <1>2
        <4>2. CASE Queue' = r
          BY <3>2, <4>1, <4>2
        <4>3. CASE Queue' = Queue /\ Len(Queue) # 0
          BY <4>1, <4>3
        <4>4. QED
          BY <2>2, <4>2, <4>3
    <2>5. ASSUME in # None, wpc \notin {"read", "dead"}, at < Len(file'[in])
          PROVE  Queue'[1].kind = "modify"
      <3>1. CASE in = k
        <4>1. in \in Nat /\ exists' \subseteq Nat /\ \A j \in exists' : j <= in
          BY <1>3, <2>1, <3>1
        <4>2. QED
          BY <2>3, <2>4, <2>5, <4>1, FirstIsText
      <3>2. CASE in # k
        <4>1. file'[in] = file[in]
          BY <1>3, <2>1, <2>5, <3>2
        <4>2. Len(Queue) # 0 /\ Queue[1].kind = "modify"
          BY <2>5, <4>1 DEF NoticeInv
        <4>3. QED
          BY <2>4, <4>2
      <3>3. QED
        BY <3>1, <3>2
    <2>6. QED
      BY <1>1, <2>3, <2>4, <2>5 DEF NoticeInv
  <1>10. QED
    BY <1>1, <1>6, <1>7, <1>8, <1>9, LogMoves, Zenon

(* What Follow does with the first notice.                                 *)
LEMMA FollowTakes ==
    ASSUME NameInv, FileInv, ReaderInv, NoticeInv, Follow
    PROVE  /\ wpc = "event" /\ wpc' = "read" /\ UNCHANGED <<exists, file, curLines>>
           /\ Len(Queue) # 0 /\ Queue[1].file \in exists
           /\ \/ /\ Queue[1].kind = "create" \/ in = None
                 /\ in' = Queue[1].file /\ at' = 0
                 /\ followed' = Append(followed, Queue[1].file)
              \/ /\ Queue[1].kind # "create" /\ in # None
                 /\ UNCHANGED <<in, at, followed>>
           /\ Serves(Queue', in', exists)
           /\ in # None /\ Queue[1].kind = "create" =>
                 /\ in < Queue[1].file /\ Len(file[in]) <= at
                 /\ \A j \in exists : in < j /\ j <= Queue[1].file => j = Queue[1].file
  <1> DEFINE q == Queue
             r == Tail(batch) \o events
  <1>1. /\ wpc = "event" /\ batch # <<>> /\ batch' = Tail(batch)
        /\ UNCHANGED <<exists, file, events, curLines>>
    BY DEF Follow, folder, printed, logger
  <1>2. /\ q \in Seq(Event) /\ Len(q) # 0 /\ Head(batch) = q[1] /\ Queue' = r
        /\ r \in Seq(Event) /\ Len(r) = Len(q) - 1
        /\ \A i \in 1..(Len(q) - 1) : r[i] = q[i + 1]
    <2>1. batch \in Seq(Event) /\ events \in Seq(Event)
      BY DEF ReaderInv
    <2> HIDE DEF Event
    <2>2. QED
      BY <1>1, <2>1, QueueType, TailOfPart DEF Queue
  <1>3. Serves(q, in, exists) /\ in \in Name \cup {None} /\ exists \in SUBSET Name
    BY DEF NoticeInv, ReaderInv, NameInv
  <1>4. q[1].kind \in {"create", "modify"}
    <2>1. Len(q) \in Nat /\ 1 \in 1..Len(q)
      BY <1>2, QueueType
    <2>2. QED
      BY <1>3, <2>1 DEF Serves, Ordered
  <1>5. /\ wpc' = "read"
        /\ \/ /\ q[1].kind = "create" \/ in = None
              /\ in' = q[1].file /\ at' = 0 /\ followed' = Append(followed, q[1].file)
           \/ /\ q[1].kind # "create" /\ in # None
              /\ UNCHANGED <<in, at, followed>>
    BY <1>2, <1>4 DEF Follow, Opens, Start
  <1>6. in # None /\ q[1].kind = "create" => Len(file[in]) <= at
    <2> SUFFICES ASSUME in # None, q[1].kind = "create" PROVE Len(file[in]) <= at
      OBVIOUS
    <2>1. ~(at < Len(file[in]))
      BY <1>1 DEF NoticeInv
    <2>2. at <= Len(file[in]) /\ at \in Nat
      BY DEF ReaderInv
    <2>3. file[in] \in Seq(Piece) /\ Len(file[in]) \in Nat
      BY LenProperties DEF FileInv, ReaderInv
    <2>4. QED
      BY <2>1, <2>2, <2>3
  <1> HIDE DEF q, r
  <1>7. /\ q[1].file \in exists
        /\ q[1].kind = "create" \/ in = None => Serves(r, q[1].file, exists)
        /\ q[1].kind # "create" /\ in # None => Serves(r, in, exists)
        /\ q[1].kind = "create" /\ in # None =>
              /\ in < q[1].file
              /\ \A j \in exists : in < j /\ j <= q[1].file => j = q[1].file
    <2> HIDE DEF Event
    <2>1. QED
      BY <1>2, <1>3, NoticeTaken
  <1>8. Serves(Queue', in', exists)
    BY <1>2, <1>5, <1>7
  <1>9. QED
    BY <1>1, <1>2, <1>5, <1>6, <1>7, <1>8 DEF q

LEMMA NoticePlotted ==
    ASSUME NameInv, LineInv, FileInv, ReaderInv, WatchInv, NoticeInv, Register \/ PlotStep
    PROVE  NoticeInv'
  <1>1. file' = file /\ exists' = exists
    BY PlotterFrame DEF LoggerVars
  <1>2. batch \in Seq(Event) /\ events \in Seq(Event)
    BY DEF ReaderInv
  <1>3. CASE Register
    BY <1>1, <1>3 DEF Register, NoticeInv, Queue
  <1>4. CASE PollEvents
    <2>1. /\ wpc = "take" /\ batch' = events /\ events' = <<>> /\ UNCHANGED <<in, at>>
      BY <1>4 DEF PollEvents
    <2>2. batch = <<>>
      BY <2>1 DEF WatchInv
    <2>3. Queue' = Queue
      <3> HIDE DEF Event
      <3> QED BY <1>2, <2>1, <2>2, ConcatEmptySeq DEF Queue
    <2>4. QED
      BY <1>1, <2>1, <2>3 DEF NoticeInv
  <1>5. CASE EventsDone
    BY <1>1, <1>5 DEF EventsDone, NoticeInv, Queue, folder
  <1>6. CASE ReadNull
    <2>1. /\ UNCHANGED <<batch, events, in, at>> /\ Unread = <<>> /\ wpc = "read"
      BY <1>6 DEF ReadNull, folder
    <2>2. ~(at < Len(file[in]))
      <3>1. file[in] \in Seq(Piece) /\ at \in Nat /\ at <= Len(file[in]) /\ Len(file[in]) \in Nat
        BY <2>1, LenProperties DEF ReaderInv, FileInv
      <3>2. Len(Unread) = Len(file[in]) - at
        BY <3>1, CutOf DEF Unread
      <3>3. QED
        BY <2>1, <3>1, <3>2
    <2>3. QED
      BY <1>1, <2>1, <2>2 DEF NoticeInv, Queue
  <1>7. CASE ReadLine
    <2>1. /\ UNCHANGED <<batch, events, in>> /\ wpc' \in {"read", "dead"}
      BY <1>7 DEF ReadLine, PassOver, AddValue, Fatal, AfterLine, folder
    <2>2. QED
      BY <1>1, <2>1 DEF NoticeInv, Queue
  <1>8. CASE Follow
    BY <1>1, <1>8, FollowTakes DEF NoticeInv
  <1>9. QED
    BY <1>3, <1>4, <1>5, <1>6, <1>7, <1>8 DEF PlotStep

-----------------------------------------------------------------------------
(***************************************************************************)
(* What the plotter has read, while no notice is lost.                     *)
(***************************************************************************)

Prior == [i \in 1..(Len(followed) - 1) |-> file[followed[i]]]

FollowedInv ==
    /\ in = None => followed = <<>> /\ curLines = <<>>
    /\ in # None =>
          /\ Len(followed) # 0 /\ followed[Len(followed)] = in
          /\ Rising(followed) /\ \A i \in 1..Len(followed) : followed[i] \in exists
          /\ \A k \in exists :
                followed[1] <= k /\ k <= in => \E i \in 1..Len(followed) : followed[i] = k
          /\ FlattenSeq(curLines) = FlattenSeq(Prior) \o SubSeq(file[in], 1, at)

LEMMA PriorType ==
    ASSUME FileInv, ReaderInv, Len(followed) # 0
    PROVE  /\ Prior \in Seq(Seq(Piece)) /\ Len(Prior) = Len(followed) - 1
           /\ Len(followed) \in Nat
           /\ \A i \in 1..Len(followed) : followed[i] \in Name
  <1> DEFINE T == Seq(Piece)
             n == Len(followed) - 1
  <1>1. Len(followed) \in Nat /\ n \in Nat /\ \A i \in 1..Len(followed) : followed[i] \in Name
    BY LenProperties, ElementOfSeq DEF ReaderInv
  <1>2. \A i \in 1..n : file[followed[i]] \in T
    BY <1>1 DEF FileInv
  <1> HIDE DEF T, n
  <1>3. [i \in 1..n |-> file[followed[i]]] \in Seq(T)
        /\ Len([i \in 1..n |-> file[followed[i]]]) = n
    BY <1>1, <1>2
  <1>4. QED
    BY <1>1, <1>3 DEF Prior, T, n

(* The logger writes on, but not to the files before this one, and opens   *)
(* only later ones.                                                        *)
LEMMA FollowedLogged ==
    ASSUME NameInv, LineInv, FileInv, ReaderInv, PassInv, FollowedInv, LoggerNext
    PROVE  FollowedInv'
  <1>1. UNCHANGED <<in, at, followed, curLines>> /\ LogStep
    BY DEF LoggerNext
  <1>2. CASE in = None
    BY <1>1, <1>2 DEF FollowedInv
  <1>3. CASE in # None
    <2> DEFINE n == Len(followed)
    <2>1. /\ n # 0 /\ followed[n] = in /\ Rising(followed)
          /\ \A i \in 1..n : followed[i] \in exists
          /\ \A k \in exists :
                followed[1] <= k /\ k <= in => \E i \in 1..n : followed[i] = k
          /\ FlattenSeq(curLines) = FlattenSeq(Prior) \o SubSeq(file[in], 1, at)
      BY <1>3 DEF FollowedInv
    <2>2. /\ n \in Nat /\ \A i \in 1..n : followed[i] \in Name
          /\ in \in exists /\ in \in Name /\ exists \subseteq Nat /\ Name \subseteq Nat
          /\ exists \subseteq Name /\ in <= passName /\ passName \in Nat
      <3>1. n \in 1..n /\ n \in Nat /\ \A i \in 1..n : followed[i] \in Name
        BY <2>1, PriorType
      <3>2. in \in exists
        BY <2>1, <3>1
      <3>3. /\ Name \subseteq Nat /\ exists \subseteq Name /\ passName \in Nat
            /\ \A k \in exists : k <= passName
        BY NameFacts DEF NameInv, PassInv, None
      <3>4. exists \subseteq Nat /\ in \in Name /\ in <= passName
        BY <3>2, <3>3
      <3>5. QED
        BY <3>1, <3>2, <3>3, <3>4
    <2> DEFINE Later == /\ exists \subseteq exists'
                        /\ \A k \in exists' : k \in exists \/ in < k
                        /\ \A k \in Name : k < in => file'[k] = file[k]
    <2>3. Later
      <3>1. CASE UNCHANGED <<file, events, exists>>
        BY <3>1
      <3>2. ASSUME NEW k, Created(k) PROVE Later
        <4>1. in < k
          BY <2>2, <3>2 DEF Created
        <4>2. QED
          BY <3>2, <4>1 DEF Created
      <3>3. ASSUME NEW k, Written(k) PROVE Later
        <4>1. \A j \in Name : j < in => j # k
          BY <2>2, <3>3 DEF Written
        <4>2. QED
          BY <3>3, <4>1 DEF Written
      <3>4. QED
        BY <1>1, <3>1, <3>2, <3>3, LogMoves
    <2>4. Prior' = Prior
      <3>1. \A i \in 1..(n - 1) : i \in 1..n /\ n \in 1..n /\ i < n
        BY <2>1, <2>2
      <3>2. \A i \in 1..(n - 1) : file'[followed[i]] = file[followed[i]]
        BY <2>1, <2>2, <2>3, <3>1 DEF Rising
      <3>3. QED
        BY <1>1, <3>2 DEF Prior
    <2>5. SubSeq(file'[in], 1, at) = SubSeq(file[in], 1, at)
      <3>1. at \in Nat /\ at <= Len(file[in])
        BY <1>3 DEF ReaderInv
      <3>2. /\ Len(file[in]) \in Nat
            /\ \A i \in 1..Len(file[in]) : file'[in][i] = file[in][i]
        BY <2>2, FilesGrow DEF Grows, Next
      <3>3. \A i \in 1..at : file'[in][i] = file[in][i]
        BY <3>1, <3>2
      <3>4. QED
        BY <3>1, <3>3
    <2>6. \A k \in exists' :
             followed[1] <= k /\ k <= in => \E i \in 1..n : followed[i] = k
      <3> SUFFICES ASSUME NEW k \in exists', followed[1] <= k, k <= in
                   PROVE  \E i \in 1..n : followed[i] = k
        OBVIOUS
      <3>1. k \in exists
        <4>1. CASE k \in exists
          BY <4>1
        <4>2. CASE k \notin exists
          <5>1. in < k
            BY <2>3, <4>2
          <5>2. k \in Nat
            <6>1. (NameInv)'
              BY NameKept DEF Next
            <6>2. QED
              BY <6>1, NameFacts DEF NameInv
          <5>3. QED
            BY <2>2, <5>1, <5>2
        <4>3. QED
          BY <4>1, <4>2
      <3>2. QED
        BY <2>1, <3>1
    <2>7. QED
      BY <1>1, <1>3, <2>1, <2>3, <2>4, <2>5, <2>6 DEF FollowedInv
  <1>4. QED
    BY <1>2, <1>3


(* The file of the first notice is opened: the one before was read to its  *)
(* end, and none was passed over.                                          *)
LEMMA FollowedOpens ==
    ASSUME NameInv, FileInv, ReaderInv, NoticeInv, FollowedInv, Follow
    PROVE  FollowedInv'
  <1> DEFINE a == Queue[1].file
  <1>1. UNCHANGED <<exists, file, curLines>> /\ a \in exists
    BY FollowTakes
  <1>2. /\ a \in Name /\ a # None /\ exists \subseteq Nat /\ Name \subseteq Nat
        /\ file[a] \in Seq(Piece)
    BY <1>1, NameFacts DEF NameInv, FileInv
  <1>3. \/ UNCHANGED <<in, at, followed>>
        \/ /\ in' = a /\ at' = 0 /\ followed' = Append(followed, a)
           /\ in = None \/ Queue[1].kind = "create"
    BY FollowTakes
  <1> HIDE DEF a
  <1>4. CASE UNCHANGED <<in, at, followed>>
    BY <1>1, <1>4 DEF FollowedInv, Prior
  <1>5. CASE in' = a /\ at' = 0 /\ followed' = Append(followed, a)
             /\ (in = None \/ Queue[1].kind = "create")
    <2>1. SubSeq(file'[in'], 1, at') = <<>>
      BY <1>5
    <2> DEFINE n == Len(followed)
               m == Len(followed')
    <2>2. /\ followed \in Seq(Name) /\ n \in Nat /\ m = n + 1 /\ followed'[m] = a /\ m \in 1..m
          /\ \A i \in 1..n : followed'[i] = followed[i] /\ i \in 1..m
          /\ \A i \in 1..m : i = m \/ i \in 1..n
      <3>1. followed \in Seq(Name)
        BY DEF ReaderInv
      <3>2. /\ n \in Nat /\ m = n + 1 /\ followed'[n + 1] = a
            /\ \A i \in 1..n : followed'[i] = followed[i]
        BY <1>2, <1>5, <3>1, AppendProperties, LenProperties
      <3> HIDE DEF n, m
      <3>3. QED
        BY <3>1, <3>2
    <2>3. CASE in = None
      <3>1. followed = <<>> /\ curLines = <<>>
        BY <2>3 DEF FollowedInv
      <3>2. n = 0 /\ m = 1 /\ followed'[1] = a
        BY <2>2, <3>1
      <3>3. Rising(followed') /\ \A i \in 1..m : followed'[i] \in exists
        BY <1>1, <3>2 DEF Rising
      <3>4. \A k \in exists : followed'[1] <= k /\ k <= a => \E i \in 1..m : followed'[i] = k
        BY <1>2, <3>2
      <3>5. Prior' = <<>>
        BY <3>2 DEF Prior
      <3>6. FlattenSeq(curLines') = FlattenSeq(Prior') \o SubSeq(file'[in'], 1, at')
        <4>1. curLines' = <<>>
          BY <1>1, <3>1
        <4>2. FlattenSeq(curLines') = <<>> /\ FlattenSeq(Prior') = <<>>
          BY <3>5, <4>1, FlattenEmpty
        <4>3. <<>> \o <<>> = <<>>
          BY <1>2, PieceConcat
        <4>4. QED
          BY <2>1, <4>2, <4>3
      <3> HIDE DEF n, m
      <3>7. in' # None /\ Len(followed') # 0 /\ followed'[Len(followed')] = in'
        BY <1>2, <1>5, <2>2, <3>2 DEF m
      <3>8. QED
        BY <1>1, <1>5, <3>3, <3>4, <3>6, <3>7 DEF FollowedInv, m
    <2>4. CASE in # None
      <3>1. /\ n # 0 /\ followed[n] = in /\ Rising(followed)
            /\ \A i \in 1..n : followed[i] \in exists
            /\ \A k \in exists :
                  followed[1] <= k /\ k <= in => \E i \in 1..n : followed[i] = k
            /\ FlattenSeq(curLines) = FlattenSeq(Prior) \o SubSeq(file[in], 1, at)
        BY <2>4 DEF FollowedInv
      <3>2. /\ in < a /\ Len(file[in]) <= at
            /\ \A k \in exists : in < k /\ k <= a => k = a
        BY <1>5, <2>4, FollowTakes DEF a
      <3>3. /\ in \in Nat /\ in \in Name /\ 1 \in 1..n /\ n \in 1..n
            /\ \A i \in 1..n : followed[i] \in Nat /\ (i # n => i < n)
        <4>1. 1 \in 1..n /\ n \in 1..n /\ \A i \in 1..n : i # n => i < n
          BY <2>2, <3>1
        <4>2. in \in Name
          BY <2>4 DEF ReaderInv
        <4>3. \A i \in 1..n : followed[i] \in Nat
          BY <1>2, <3>1
        <4>4. QED
          BY <1>2, <4>1, <4>2, <4>3
      <3>4. \A i \in 1..n : followed[i] < a
        <4> SUFFICES ASSUME NEW i \in 1..n PROVE followed[i] < a
          OBVIOUS
        <4>1. followed[i] <= in
          BY <3>1, <3>3 DEF Rising
        <4>2. QED
          BY <1>2, <3>2, <3>3, <4>1
      <3>5. Rising(followed')
        <4> SUFFICES ASSUME NEW i \in 1..m, NEW j \in 1..m, i < j
                     PROVE  followed'[i] < followed'[j]
          BY DEF Rising
        <4>1. i \in 1..n
          BY <2>2
        <4>2. CASE j = m
          BY <2>2, <3>4, <4>1, <4>2
        <4>3. CASE j # m
          <5>1. j \in 1..n /\ followed'[j] = followed[j] /\ followed'[i] = followed[i]
            BY <2>2, <4>1, <4>3
          <5>2. QED
            BY <3>1, <4>1, <5>1 DEF Rising
        <4>4. QED
          BY <4>2, <4>3
      <3>6. \A i \in 1..m : followed'[i] \in exists
        <4> SUFFICES ASSUME NEW i \in 1..m PROVE followed'[i] \in exists
          OBVIOUS
        <4>1. CASE i = m
          BY <1>1, <2>2, <4>1
        <4>2. CASE i # m
          <5>1. i \in 1..n /\ followed'[i] = followed[i]
            BY <2>2, <4>2
          <5>2. QED
            BY <3>1, <5>1
        <4>3. QED
          BY <4>1, <4>2
      <3>7. ASSUME NEW k \in exists, followed'[1] <= k, k <= a
            PROVE  \E i \in 1..m : followed'[i] = k
        <4>1. followed[1] <= k /\ k \in Nat
          BY <1>2, <2>2, <3>3, <3>7
        <4>2. CASE k <= in
          <5>1. PICK i \in 1..n : followed[i] = k
            BY <3>1, <4>1, <4>2
          <5>2. followed'[i] = k /\ i \in 1..m
            BY <2>2, <5>1
          <5>3. QED
            BY <5>2
        <4>3. CASE ~(k <= in)
          <5>1. k = a
            BY <3>2, <3>3, <3>7, <4>1, <4>3
          <5>2. QED
            BY <2>2, <5>1
        <4>4. QED
          BY <4>2, <4>3
      <3>8. /\ Prior \in Seq(Seq(Piece)) /\ Len(Prior) = n - 1
            /\ file[in] \in Seq(Piece)
        BY <3>1, <3>3, PriorType DEF FileInv
      <3>9. Prior' = Append(Prior, file[in])
        <4> DEFINE T == Seq(Piece)
                   p == Prior
                   r == Append(p, file[in])
        <4>1. p \in Seq(T) /\ file[in] \in T
          BY <3>8
        <4> HIDE DEF T
        <4>2. /\ r \in Seq(T) /\ Len(r) = n - 1 + 1 /\ r[n - 1 + 1] = file[in]
              /\ \A i \in 1..(n - 1) : r[i] = p[i]
          BY <3>8, <4>1, AppendProperties
        <4>3. n - 1 + 1 = n /\ m - 1 = n
          BY <2>2
        <4>4. \A i \in 1..(n - 1) : p[i] = file[followed[i]] /\ i \in 1..n
          BY <2>2 DEF Prior
        <4>5. Prior' = [i \in 1..n |-> file[followed[i]]]
          <5>1. Prior' = [i \in 1..n |-> file'[followed'[i]]]
            BY <4>3 DEF Prior
          <5>2. \A i \in 1..n : file'[followed'[i]] = file[followed[i]]
            BY <1>1, <2>2
          <5>3. QED
            BY <5>1, <5>2
        <4> HIDE DEF r, p
        <4>6. r = [i \in 1..n |-> r[i]]
          BY <4>2, <4>3, LenProperties
        <4>7. \A i \in 1..n : r[i] = file[followed[i]]
          <5> SUFFICES ASSUME NEW i \in 1..n PROVE r[i] = file[followed[i]]
            OBVIOUS
          <5>1. CASE i = n
            BY <3>1, <4>2, <4>3, <5>1
          <5>2. CASE i # n
            <6>1. i \in 1..(n - 1)
              BY <2>2, <5>2
            <6>2. QED
              BY <4>2, <4>4, <6>1
          <5>3. QED
            BY <5>1, <5>2
        <4>8. QED
          BY <4>5, <4>6, <4>7 DEF r, p
      <3>10. SubSeq(file[in], 1, at) = file[in]
        <4>1. at \in Nat /\ at <= Len(file[in]) /\ Len(file[in]) \in Nat
          BY <2>4, <3>8, LenProperties DEF ReaderInv
        <4>2. at = Len(file[in])
          BY <3>2, <4>1
        <4>3. QED
          BY <3>8, <4>2, SubSeqFull
      <3>11. FlattenSeq(Prior') = FlattenSeq(curLines)
        BY <3>1, <3>8, <3>9, <3>10, FlattenAppend
      <3>12. FlattenSeq(curLines') = FlattenSeq(Prior') \o SubSeq(file'[in'], 1, at')
        <4>1. FlattenSeq(curLines) \in Seq(Piece)
          BY FlattenType DEF ReaderInv
        <4>2. QED
          BY <1>1, <2>1, <3>11, <4>1, PieceConcat
      <3>13. followed'[1] = followed[1]
        BY <2>2, <3>3
      <3> HIDE DEF n, m
      <3>14. in' # None /\ Len(followed') # 0 /\ followed'[Len(followed')] = in'
        BY <1>2, <1>5, <2>2, <3>3 DEF m
      <3>15. QED
        BY <1>1, <1>5, <3>5, <3>6, <3>7, <3>12, <3>14 DEF FollowedInv, m
    <2>5. QED
      BY <2>3, <2>4
  <1>6. QED
    BY <1>3, <1>4, <1>5

LEMMA FollowedPlotted ==
    ASSUME NameInv, LineInv, FileInv, ReaderInv, NoticeInv, FollowedInv, Register \/ PlotStep
    PROVE  FollowedInv'
  <1>1. file' = file /\ exists' = exists
    BY PlotterFrame DEF LoggerVars
  <1>2. CASE Register \/ PollEvents \/ EventsDone \/ ReadNull
    <2>1. UNCHANGED <<in, at, followed, curLines>>
      BY <1>2 DEF Register, PollEvents, EventsDone, ReadNull
    <2>2. QED
      BY <1>1, <2>1 DEF FollowedInv, Prior
  <1>3. CASE ReadLine
    <2> DEFINE c == CurLine
               f == file[in]
    <2>1. /\ UNCHANGED <<in, followed>> /\ wpc = "read" /\ Unread # <<>>
          /\ at' = at + Len(c) /\ curLines' = Append(curLines, c)
      BY <1>3 DEF ReadLine
    <2>2. f \in Seq(Piece) /\ at \in Nat /\ at <= Len(f) /\ in # None /\ Len(f) \in Nat
      BY <2>1, LenProperties DEF ReaderInv, FileInv
    <2>3. PICK e \in (at + 1)..Len(f) :
             c = SubSeq(f, at + 1, e) /\ c \in Seq(Piece) /\ Len(c) = e - at
      BY <2>1, <2>2, LineRead
    <2> HIDE DEF c
    <2>4. at' = e /\ e \in Nat /\ at <= e /\ e <= Len(f)
      BY <2>1, <2>2, <2>3
    <2>5. SubSeq(f, 1, e) = SubSeq(f, 1, at) \o c /\ SubSeq(f, 1, at) \in Seq(Piece)
      BY <2>2, <2>3, <2>4, JoinCuts
    <2>6. /\ Len(followed) # 0
          /\ FlattenSeq(curLines) = FlattenSeq(Prior) \o SubSeq(f, 1, at)
      BY <2>2 DEF FollowedInv
    <2>7. FlattenSeq(Prior) \in Seq(Piece) /\ curLines \in Seq(Seq(Piece))
      BY <2>6, PriorType, FlattenType DEF ReaderInv
    <2>8. FlattenSeq(curLines') = FlattenSeq(curLines) \o c
      BY <2>1, <2>3, <2>7, FlattenAppend
    <2> DEFINE p == FlattenSeq(Prior)
               u == SubSeq(f, 1, at)
    <2>9. (p \o u) \o c = p \o (u \o c)
      <3>1. p \in Seq(Piece) /\ u \in Seq(Piece)
        BY <2>5, <2>7
      <3> HIDE DEF p, u
      <3>2. QED
        BY <2>3, <3>1, PieceAssociative
    <2>10. Prior' = Prior
      BY <1>1, <2>1 DEF Prior
    <2>11. FlattenSeq(curLines') = FlattenSeq(Prior') \o SubSeq(file'[in'], 1, at')
      BY <1>1, <2>1, <2>4, <2>5, <2>6, <2>8, <2>9, <2>10
    <2>12. QED
      BY <1>1, <2>1, <2>2, <2>11 DEF FollowedInv
  <1>4. CASE Follow
    BY <1>4, FollowedOpens
  <1>5. QED
    BY <1>2, <1>3, <1>4 DEF PlotStep


-----------------------------------------------------------------------------
TailInv == ~overflowed => NoticeInv /\ FollowedInv

LEMMA TailKept ==
    NameInv /\ LineInv /\ FileInv /\ ReaderInv /\ ReaderInv' /\ PassInv /\ WatchInv
        /\ TailInv /\ [Next]_vars
    => TailInv'
  <1> SUFFICES ASSUME NameInv, LineInv, FileInv, ReaderInv, ReaderInv', PassInv, WatchInv,
                      TailInv, [Next]_vars
               PROVE  TailInv'
    OBVIOUS
  <1>1. ASSUME ~overflowed, LoggerNext PROVE (NoticeInv /\ FollowedInv)'
    <2>1. NoticeInv /\ FollowedInv
      BY <1>1, Zenon DEF TailInv
    <2>2. NoticeInv' /\ FollowedInv'
      BY <1>1, <2>1, NoticeLogged, FollowedLogged
    <2>3. QED
      BY <2>2
  <1>2. ASSUME ~overflowed, Register \/ PlotStep PROVE (NoticeInv /\ FollowedInv)'
    <2>1. NoticeInv /\ FollowedInv
      BY <1>2, Zenon DEF TailInv
    <2>2. NoticeInv' /\ FollowedInv'
      BY <1>2, <2>1, NoticePlotted, FollowedPlotted
    <2>3. QED
      BY <2>2
  <1>3. CASE LoggerNext
    <2>1. overflowed' = overflowed
      BY <1>3 DEF LoggerNext
    <2>2. QED
      BY <1>1, <1>3, <2>1, Zenon DEF TailInv
  <1>4. CASE Register \/ PlotStep
    <2>1. overflowed' = overflowed
      BY <1>4 DEF Register, PlotStep, PollEvents, Follow, EventsDone, ReadLine, ReadNull
    <2>2. QED
      BY <1>2, <1>4, <2>1, Zenon DEF TailInv
  <1>5. CASE Overflow
    <2>1. overflowed'
      BY <1>5, Zenon DEF Overflow
    <2>2. QED
      BY <2>1, Zenon DEF TailInv
  <1>6. CASE UNCHANGED vars
    <2>1. /\ UNCHANGED <<file, exists, events, batch, in, at, wpc, followed, curLines>>
          /\ overflowed' = overflowed
      BY <1>6 DEF vars, logger, folder, plotter
    <2>2. Queue' = Queue /\ Prior' = Prior
      BY <2>1 DEF Queue, Prior
    <2>3. NoticeInv' <=> NoticeInv
      BY <2>1, <2>2 DEF NoticeInv
    <2>4. FollowedInv' <=> FollowedInv
      BY <2>1, <2>2 DEF FollowedInv
    <2>5. QED
      BY <2>1, <2>3, <2>4, Zenon DEF TailInv
  <1>7. QED
    BY <1>3, <1>4, <1>5, <1>6 DEF Next

LEMMA TailStarts == Init => PassInv /\ WatchInv /\ TailInv
  <1> SUFFICES ASSUME Init PROVE PassInv /\ WatchInv /\ TailInv
    OBVIOUS
  <1>1. /\ wpc = "off" /\ events = <<>> /\ batch = <<>> /\ in = None
        /\ followed = <<>> /\ curLines = <<>> /\ exists = {}
        /\ passName = None /\ name = 1 /\ logStream = None
    BY DEF Init, LogInit
  <1>2. ~watched
    BY Zenon DEF Init, LogInit
  <1>3. PassInv
    BY <1>1 DEF PassInv, None
  <1>4. WatchInv
    BY <1>1, <1>2, Zenon DEF WatchInv
  <1>5. Queue = <<>>
    BY <1>1, ConcatEmptySeq, EmptySeq DEF Queue
  <1>6. NoticeInv
    BY <1>1, <1>5 DEF NoticeInv, Serves, Ordered
  <1>7. FollowedInv
    BY <1>1 DEF FollowedInv
  <1>8. QED
    BY <1>3, <1>4, <1>6, <1>7, Zenon DEF TailInv

LEMMA TailInvariant ==
    Spec => [](NameInv /\ LineInv /\ FileInv /\ ReaderInv /\ PassInv /\ WatchInv /\ TailInv)
  BY ReaderInvariant, TailStarts, PassKept, WatchKept, TailKept, PTL DEF Spec

(* While no notice is lost the plotter reads each file that it follows     *)
(* once and to its end before it turns to the next, and passes over none:  *)
(* for any directory, any shape of the lines and any delay of the reader.  *)
THEOREM TailHolds == Spec => []TailComplete
  <1>1. ASSUME NameInv, FileInv, ReaderInv, TailInv PROVE TailComplete
    <2> SUFFICES ASSUME ~overflowed, followed # <<>>
                 PROVE  /\ FlattenSeq(curLines) = FlattenSeq(Prior) \o SubSeq(file[in], 1, at)
                        /\ \A i \in 1..(Len(followed) - 1) : followed[i] < followed[i + 1]
                        /\ ToSet(followed) = {k \in exists : followed[1] <= k /\ k <= in}
      BY Zenon DEF TailComplete, Prior
    <2> DEFINE n == Len(followed)
    <2>1. FollowedInv
      BY <1>1, Zenon DEF TailInv
    <2>2. /\ n # 0 /\ followed[n] = in /\ Rising(followed)
          /\ \A i \in 1..n : followed[i] \in exists
          /\ \A k \in exists :
                followed[1] <= k /\ k <= in => \E i \in 1..n : followed[i] = k
          /\ FlattenSeq(curLines) = FlattenSeq(Prior) \o SubSeq(file[in], 1, at)
      BY <2>1 DEF FollowedInv
    <2>3. n \in Nat /\ \A i \in 1..n : followed[i] \in Nat
      BY <1>1, <2>2, PriorType, NameFacts
    <2>4. \A i \in 1..(n - 1) : followed[i] < followed[i + 1]
      <3>1. \A i \in 1..(n - 1) : i \in 1..n /\ i + 1 \in 1..n /\ i < i + 1
        BY <2>3
      <3>2. QED
        BY <2>2, <3>1 DEF Rising
    <2>5. \A i \in 1..n : followed[1] <= followed[i] /\ followed[i] <= in
      <3> SUFFICES ASSUME NEW i \in 1..n
                   PROVE  followed[1] <= followed[i] /\ followed[i] <= followed[n]
        BY <2>2
      <3>1. 1 \in 1..n /\ n \in 1..n /\ (i = 1 \/ 1 < i) /\ (i = n \/ i < n)
        BY <2>2, <2>3
      <3>2. followed[1] \in Nat /\ followed[i] \in Nat /\ followed[n] \in Nat
        BY <2>3, <3>1
      <3>3. /\ 1 < i => followed[1] < followed[i]
            /\ i < n => followed[i] < followed[n]
        BY <2>2, <3>1 DEF Rising
      <3> HIDE DEF n
      <3>4. QED
        BY <3>1, <3>2, <3>3
    <2>6. ToSet(followed) = {followed[i] : i \in 1..n}
      BY <1>1, LenProperties DEF ToSet, ReaderInv
    <2>7. QED
      BY <2>2, <2>4, <2>5, <2>6
  <1>2. QED
    BY <1>1, TailInvariant, PTL

-----------------------------------------------------------------------------
(***************************************************************************)
(* The values.  The lines of a file are in their order, and a file that is *)
(* opened is newer than the one before it, whether or not a notice is lost:*)
(* so no line is read twice from its beginning, and of two values with one *)
(* stamp each comes from a line of its own.                                *)
(***************************************************************************)

(* What comes before the beginning of a line belongs to earlier lines.     *)
Numbered(s, k) ==
    /\ \A i \in 1..Len(s) : s[i].line \in 1..line /\ named[s[i].line] = k
    /\ \A i, j \in 1..Len(s) : i < j /\ s[j].part = "head" => s[i].line < s[j].line

OrderInv == \A k \in Name : Numbered(LinesFor(k), k)
StampInv == timeNow \in Nat /\ stamped \in Seq(Nat) /\ Len(stamped) = line

(* The lines keep their numbers, their names and their stamps.             *)
LEMMA PrintedKept ==
    ASSUME LineInv, LineInv', StampInv, [Next]_vars
    PROVE  /\ StampInv' /\ valuePos' = valuePos
           /\ \A n \in 1..line : /\ n \in 1..line' /\ named'[n] = named[n]
                                 /\ stamped'[n] = stamped[n]
  <1>1. line \in Nat /\ line' \in Nat /\ Len(named) = line /\ named \in Seq(Name)
    BY ShapeType DEF LineInv
  <1>2. valuePos' = valuePos
    BY DEF Next, vars, plotter, LoggerNext, Register, PlotStep, Overflow, PollEvents,
       Follow, EventsDone, ReadLine, ReadNull
  <1>3. ASSUME UNCHANGED <<line, stamped, named>>, timeNow' \in Nat
        PROVE  /\ StampInv'
               /\ \A n \in 1..line : /\ n \in 1..line' /\ named'[n] = named[n]
                                     /\ stamped'[n] = stamped[n]
    BY <1>3 DEF StampInv
  <1>4. CASE BeginLine
    <2>1. /\ line' = line + 1 /\ stamped' = Append(stamped, timeNow) /\ timeNow' = timeNow
          /\ named' = Append(named, passName) /\ timeNow \in Nat /\ stamped \in Seq(Nat)
          /\ Len(stamped) = line
      BY <1>4 DEF BeginLine, Counted, StampInv
    <2>2. /\ stamped' \in Seq(Nat) /\ Len(stamped') = line'
          /\ \A n \in 1..line : stamped'[n] = stamped[n]
      BY <1>1, <2>1, AppendProperties
    <2>3. \A n \in 1..line : named'[n] = named[n]
      BY <1>1, <2>1, AppendProperties
    <2>4. QED
      BY <1>1, <1>2, <2>1, <2>2, <2>3 DEF StampInv
  <1>5. CASE BeginPass
    <2>1. /\ UNCHANGED <<line, stamped, named>>
          /\ timeNow' = line + 1 \/ timeNow' = timeNow
      BY <1>5 DEF BeginPass
    <2>2. timeNow' \in Nat
      BY <1>1, <2>1 DEF StampInv
    <2>3. QED
      BY <1>2, <1>3, <2>1, <2>2
  <1>6. CASE Spill \/ EndLine
    <2>1. UNCHANGED <<line, stamped, named, timeNow>>
      BY <1>6 DEF Spill, EndLine, printed
    <2>2. QED
      BY <1>2, <1>3, <2>1 DEF StampInv
  <1>7. CASE Register \/ PlotStep \/ Overflow \/ UNCHANGED vars
    <2>1. UNCHANGED <<line, stamped, named, timeNow>>
      BY <1>7, PlotterFrame DEF LoggerVars, vars, logger, printed
    <2>2. QED
      BY <1>2, <1>3, <2>1 DEF StampInv
  <1>8. QED
    BY <1>4, <1>5, <1>6, <1>7 DEF Next, LoggerNext, LogStep

LEMMA OrderKept ==
    NameInv /\ LineInv /\ LineInv' /\ OrderInv /\ [Next]_vars => OrderInv'
  <1> SUFFICES ASSUME NameInv, LineInv, LineInv', OrderInv, [Next]_vars, NEW k \in Name
               PROVE  Numbered(LinesFor(k), k)'
    BY DEF OrderInv
  <1>1. line \in Nat /\ LinesFor(k) \in Seq(Piece) /\ Numbered(LinesFor(k), k)
    BY ShapeType, BelongsType DEF OrderInv
  <1>2. ASSUME UNCHANGED <<shape, line, named, unlogged>>
        PROVE  Numbered(LinesFor(k), k)'
    <2>1. LinesFor(k)' = LinesFor(k)
      BY <1>2, LinesSame
    <2>2. QED
      BY <1>1, <1>2, <2>1 DEF Numbered
  <1>3. CASE BeginLine
    <2> DEFINE l == Line(line + 1)
               s == LinesFor(k)
               t == LinesFor(k)'
    <2>1. /\ line' = line + 1 /\ shape' = shape /\ passName \in Name
          /\ named' = Append(named, passName)
          /\ unlogged' = IF logStream = None THEN unlogged \cup {line'} ELSE unlogged
      BY <1>3, NameFacts DEF BeginLine, Counted, NameInv
    <2>2. t = s \o (IF logStream = k THEN l ELSE <<>>)
      BY <2>1, LinesGrow
    <2>3. /\ l \in Seq(Piece) /\ Len(l) \in Nat
          /\ \A i \in 1..Len(l) : l[i].line = line + 1 /\ (l[i].part = "head" => i = 1)
      <3>1. line + 1 \in Nat \ {0}
        BY <1>1
      <3>2. QED
        BY <3>1, LinePieces
    <2>4. /\ named'[line + 1] = passName
          /\ \A n \in 1..line : named'[n] = named[n]
      BY <1>1, <2>1, AppendProperties DEF LineInv
    <2>41. \A n \in 1..line : n \in 1..line' /\ named'[n] = named[n]
      <3>1. \A n \in 1..line : n \in 1..line'
        BY <1>1, <2>1
      <3>2. QED
        BY <2>4, <3>1
    <2>5. logStream = k => passName = k
      BY NameFacts DEF NameInv
    <2>6. s \in Seq(Piece) /\ Len(s) \in Nat /\ Numbered(s, k)
      BY <1>1, LenProperties
    <2>7. CASE logStream # k
      <3>1. t = s
        BY <2>2, <2>6, <2>7, PieceConcat
      <3> HIDE DEF s, t
      <3>2. ASSUME NEW i \in 1..Len(s)
            PROVE  s[i].line \in 1..line' /\ named'[s[i].line] = k
        <4>1. s[i].line \in 1..line /\ named[s[i].line] = k
          BY <2>6 DEF Numbered
        <4>2. PICK n \in 1..line : n = s[i].line
          BY <4>1
        <4>3. named'[n] = k /\ n \in 1..line'
          BY <2>41, <4>1, <4>2, Zenon
        <4>4. QED
          BY <4>2, <4>3
      <3>3. QED
        BY <2>6, <3>1, <3>2 DEF Numbered, t
    <2>8. CASE logStream = k
      <3>1. t = s \o l
        BY <2>2, <2>8
      <3> HIDE DEF l, s, t
      <3>2. /\ Len(t) = Len(s) + Len(l)
            /\ \A i \in 1..(Len(s) + Len(l)) : t[i] = IF i <= Len(s) THEN s[i] ELSE l[i - Len(s)]
        BY <2>3, <2>6, <3>1, ConcatProperties
      <3>3. ASSUME NEW i \in 1..Len(t)
            PROVE  \/ i \in 1..Len(s) /\ t[i] = s[i]
                   \/ i - Len(s) \in 1..Len(l) /\ t[i] = l[i - Len(s)]
        BY <2>3, <2>6, <3>2
      <3>4. ASSUME NEW i \in 1..Len(t)
            PROVE  t[i].line \in 1..line' /\ named'[t[i].line] = k
        <4>1. CASE i \in 1..Len(s) /\ t[i] = s[i]
          <5>1. s[i].line \in 1..line /\ named[s[i].line] = k
            BY <2>6, <4>1 DEF Numbered
          <5>2. PICK n \in 1..line : n = s[i].line
            BY <5>1
          <5>3. named'[n] = k /\ n \in 1..line'
            BY <2>41, <5>1, <5>2, Zenon
          <5>4. QED
            BY <4>1, <5>2, <5>3
        <4>2. CASE i - Len(s) \in 1..Len(l) /\ t[i] = l[i - Len(s)]
          <5>1. t[i].line = line + 1
            BY <2>3, <4>2
          <5>2. named'[line + 1] = k /\ line + 1 \in 1..line'
            BY <1>1, <2>1, <2>4, <2>5, <2>8
          <5>3. QED
            BY <5>1, <5>2
        <4>3. QED
          BY <3>3, <4>1, <4>2
      <3>5. ASSUME NEW i \in 1..Len(t), NEW j \in 1..Len(t), i < j, t[j].part = "head"
            PROVE  t[i].line < t[j].line
        <4>1. CASE j \in 1..Len(s) /\ t[j] = s[j]
          <5>1. i \in 1..Len(s) /\ t[i] = s[i]
            BY <2>6, <3>2, <3>5, <4>1
          <5>2. QED
            BY <2>6, <3>5, <4>1, <5>1 DEF Numbered
        <4>2. CASE j - Len(s) \in 1..Len(l) /\ t[j] = l[j - Len(s)]
          <5>1. t[j].line = line + 1 /\ j - Len(s) = 1
            BY <2>3, <3>5, <4>2
          <5>2. i \in 1..Len(s) /\ t[i] = s[i]
            BY <2>6, <3>2, <3>5, <5>1
          <5>3. s[i].line \in 1..line
            BY <2>6, <5>2 DEF Numbered
          <5>4. QED
            BY <1>1, <5>1, <5>2, <5>3
        <4>3. QED
          BY <3>3, <4>1, <4>2
      <3>6. QED
        BY <3>4, <3>5 DEF Numbered, t
    <2>9. QED
      BY <2>7, <2>8
  <1>4. CASE BeginPass \/ Spill \/ EndLine
    BY <1>2, <1>4 DEF BeginPass, Spill, EndLine, printed
  <1>5. CASE Register \/ PlotStep \/ Overflow
    BY <1>2, <1>5, PlotterFrame DEF LoggerVars, logger, printed
  <1>6. CASE UNCHANGED vars
    BY <1>2, <1>6 DEF vars, logger, printed
  <1>7. QED
    BY <1>3, <1>4, <1>5, <1>6 DEF Next, LoggerNext, LogStep

(* The notices q of a reader of file k, some of them perhaps lost: what is *)
(* created is newer than all that was named before.                        *)
Upward(q, k, there) ==
    /\ k \in there \cup {None}
    /\ \A i \in 1..Len(q) : q[i].file \in there \cup {None}
                            /\ (q[i].kind = "create" => k < q[i].file)
    /\ \A i, j \in 1..Len(q) : i < j /\ q[j].kind = "create" => q[i].file < q[j].file

UpwardInv == Upward(Queue, in, exists)

LEMMA UpwardAdded ==
    ASSUME NEW q \in Seq(Event), NEW k, NEW there, Upward(q, k, there),
           NEW e \in Event, NEW all, there \subseteq all, e.file \in all \cup {None},
           e.kind = "create" => \A j \in there \cup {None} : j < e.file
    PROVE  Upward(Append(q, e), k, all)
  <1> DEFINE r == Append(q, e)
             m == Len(q) + 1
  <1>1. /\ Len(q) \in Nat /\ Len(r) = m /\ r[m] = e
        /\ \A i \in 1..Len(q) : r[i] = q[i]
    <2> HIDE DEF Event
    <2>1. QED
      BY AppendProperties, LenProperties
  <1>2. /\ \A i \in 1..m : i = m \/ (i \in 1..Len(q) /\ i < m)
        /\ \A i \in 1..Len(q) : ~(m < i)
        /\ ~(m < m)
    BY <1>1
  <1> HIDE DEF r, m
  <1>3. ASSUME NEW i \in 1..m
        PROVE  r[i].file \in all \cup {None} /\ (r[i].kind = "create" => k < r[i].file)
    BY <1>1, <1>2 DEF Upward
  <1>4. ASSUME NEW i \in 1..m, NEW j \in 1..m, i < j, r[j].kind = "create"
        PROVE  r[i].file < r[j].file
    <2>1. i \in 1..Len(q) /\ r[i] = q[i] /\ q[i].file \in there \cup {None}
      BY <1>1, <1>2, <1>4 DEF Upward
    <2>2. CASE j = m
      BY <1>1, <1>4, <2>1, <2>2
    <2>3. CASE j \in 1..Len(q)
      BY <1>1, <1>4, <2>1, <2>3 DEF Upward
    <2>4. QED
      BY <1>2, <2>2, <2>3
  <1>5. k \in all \cup {None}
    BY DEF Upward
  <1>6. QED
    BY <1>1, <1>3, <1>4, <1>5 DEF Upward, r

LEMMA UpwardPart ==
    ASSUME NEW b \in Seq(Event), NEW e \in Seq(Event), NEW k, NEW there,
           Upward(b \o e, k, there)
    PROVE  Upward(b, k, there)
  <1>1. /\ Len(b) \in Nat /\ Len(e) \in Nat /\ Len(b \o e) = Len(b) + Len(e)
        /\ \A i \in 1..Len(b) : (b \o e)[i] = b[i]
    <2> HIDE DEF Event
    <2>1. QED
      BY ConcatProperties, LenProperties
  <1>2. \A i \in 1..Len(b) : i \in 1..Len(b \o e) /\ (b \o e)[i] = b[i]
    BY <1>1
  <1>3. QED
    BY <1>2 DEF Upward

LEMMA UpwardKept ==
    NameInv /\ LineInv /\ FileInv /\ ReaderInv /\ PassInv /\ WatchInv /\ UpwardInv
    /\ [Next]_vars => UpwardInv'
  <1> SUFFICES ASSUME NameInv, LineInv, FileInv, ReaderInv, PassInv, WatchInv, UpwardInv,
                      [Next]_vars
               PROVE  UpwardInv'
    OBVIOUS
  <1>1. batch \in Seq(Event) /\ events \in Seq(Event) /\ Queue \in Seq(Event)
    BY QueueType DEF ReaderInv
  <1>2. exists \subseteq Name /\ Name \subseteq Nat /\ None \notin Name /\ None = 0
    BY NameFacts DEF NameInv, None
  <1>3. ASSUME UNCHANGED <<Queue, in, exists>> PROVE UpwardInv'
    BY <1>3 DEF UpwardInv
  <1>4. CASE LoggerNext
    <2>1. UNCHANGED <<batch, in>> /\ LogStep
      BY <1>4 DEF LoggerNext
    <2>2. ASSUME NEW k \in Name, NEW kind \in {"create", "modify"},
                 exists' = exists \cup {k}, events' = Noticed(kind, k),
                 kind = "create" => \A j \in exists : j < k
          PROVE  UpwardInv'
      <3> DEFINE e == Notice(kind, k)
      <3>1. e \in Event /\ e.file = k /\ e.kind = kind
        BY DEF Event, Notice
      <3>2. /\ exists \subseteq exists' /\ e.file \in exists' \cup {None}
            /\ e.kind = "create" => \A j \in exists \cup {None} : j < e.file
        BY <1>2, <2>2, <3>1
      <3>3. events' = events \/ events' = Append(events, e)
        BY <2>2, Zenon DEF Noticed, Notice
      <3>4. CASE events' = events
        BY <2>1, <2>2, <3>4 DEF UpwardInv, Upward, Queue
      <3>5. CASE events' = Append(events, e)
        <4> HIDE DEF e, Event
        <4>1. Queue' = Append(Queue, e)
          BY <1>1, <2>1, <3>1, <3>5, AppendToPart DEF Queue
        <4>2. Upward(Append(Queue, e), in, exists')
          <5> DEFINE q == Queue
                     all == exists'
          <5>1. q \in Seq(Event) /\ Upward(q, in, exists) /\ e \in Event /\ exists \subseteq all
                /\ e.file \in all \cup {None}
                /\ (e.kind = "create" => \A j \in exists \cup {None} : j < e.file)
            BY <1>1, <3>1, <3>2 DEF UpwardInv
          <5> HIDE DEF q, all
          <5>2. Upward(Append(q, e), in, all)
            BY <5>1, UpwardAdded
          <5>3. QED
            BY <5>2 DEF q, all
        <4>3. QED
          BY <2>1, <4>1, <4>2 DEF UpwardInv
      <3>6. QED
        BY <3>3, <3>4, <3>5
    <2>3. CASE UNCHANGED <<file, events, exists>>
      BY <1>3, <2>1, <2>3 DEF Queue
    <2>4. ASSUME NEW k, Created(k) PROVE UpwardInv'
      BY <2>2, <2>4 DEF Created
    <2>5. ASSUME NEW k, Written(k) PROVE UpwardInv'
      <3>1. k \in Name /\ exists' = exists \cup {k} /\ events' = Noticed("modify", k)
        BY <1>2, <2>5 DEF Written
      <3>2. QED
        BY <2>2, <3>1
    <2>6. QED
      BY <2>1, <2>3, <2>4, <2>5, LogMoves
  <1>5. CASE Register \/ EventsDone \/ ReadLine \/ ReadNull
    <2>1. UNCHANGED <<batch, events, in, exists>>
      BY <1>5 DEF Register, EventsDone, ReadLine, ReadNull, folder
    <2>2. QED
      BY <1>3, <2>1 DEF Queue
  <1>6. CASE UNCHANGED vars
    BY <1>3, <1>6 DEF vars, folder, plotter, Queue
  <1>7. CASE PollEvents
    <2>1. /\ wpc = "take" /\ batch' = events /\ events' = <<>> /\ UNCHANGED <<in, exists>>
      BY <1>7 DEF PollEvents
    <2>2. batch = <<>>
      BY <2>1 DEF WatchInv
    <2>3. batch' \o events' = batch \o events
      BY <1>1, <2>1, <2>2, ConcatEmptySeq
    <2>4. QED
      BY <1>3, <2>1, <2>3 DEF Queue
  <1>8. CASE Overflow
    <2> DEFINE e == Notice("overflow", None)
    <2>1. events' = <<e>> /\ UNCHANGED <<batch, in, exists>>
      BY <1>8 DEF Overflow, Notice
    <2>2. e \in Event /\ e.file = None /\ e.kind # "create"
      BY DEF Event, Notice
    <2> HIDE DEF e, Event
    <2>3. Queue' = Append(batch, e)
      BY <1>1, <2>1, <2>2 DEF Queue
    <2>4. Upward(batch, in, exists)
      BY <1>1, UpwardPart DEF UpwardInv, Queue
    <2>5. Upward(Append(batch, e), in, exists)
      BY <1>1, <2>2, <2>4, UpwardAdded
    <2>6. QED
      BY <2>1, <2>3, <2>5 DEF UpwardInv
  <1>9. CASE Follow
    <2> DEFINE q == Queue
               r == Tail(batch) \o events
    <2>1. /\ batch # <<>> /\ batch' = Tail(batch) /\ UNCHANGED <<exists, events>>
      BY <1>9 DEF Follow, folder
    <2>2. /\ q \in Seq(Event) /\ Len(q) # 0 /\ Len(q) \in Nat /\ Head(batch) = q[1]
          /\ Queue' = r /\ r \in Seq(Event) /\ Len(r) = Len(q) - 1
          /\ \A i \in 1..(Len(q) - 1) : r[i] = q[i + 1]
      <3> HIDE DEF Event
      <3>1. QED
        BY <1>1, <2>1, QueueType, TailOfPart DEF Queue
    <2>3. in' = in \/ (in' = q[1].file /\ Opens(q[1]))
      BY <1>9, <2>2 DEF Follow
    <2> HIDE DEF q, r
    <2>4. \A i \in 1..Len(r) : i + 1 \in 1..Len(q) /\ 1 < i + 1 /\ r[i] = q[i + 1]
      BY <2>2
    <2>5. Upward(q, in, exists) /\ 1 \in 1..Len(q)
      BY <2>2 DEF UpwardInv, q
    <2>6. /\ in' \in exists \cup {None}
          /\ \A i \in 1..Len(r) : r[i].kind = "create" => in' < r[i].file
      BY <2>3, <2>4, <2>5 DEF Upward
    <2>7. \A i \in 1..Len(r) : r[i].file \in exists \cup {None}
      BY <2>4, <2>5 DEF Upward
    <2>8. ASSUME NEW i \in 1..Len(r), NEW j \in 1..Len(r), i < j, r[j].kind = "create"
          PROVE  r[i].file < r[j].file
      <3>1. /\ i + 1 \in 1..Len(q) /\ j + 1 \in 1..Len(q) /\ i + 1 < j + 1
            /\ r[i] = q[i + 1] /\ r[j] = q[j + 1]
        BY <2>4, <2>8
      <3>2. QED
        BY <2>5, <2>8, <3>1 DEF Upward
    <2>9. QED
      BY <2>1, <2>2, <2>6, <2>7, <2>8 DEF UpwardInv, Upward
  <1>10. QED
    BY <1>4, <1>5, <1>6, <1>7, <1>8, <1>9 DEF Next, PlotStep

(* The lines that have a value in the chart were read, each from its       *)
(* beginning, before what is still to be read.                             *)
ValueLine(n) ==
    valuePos \in ValueFields /\ shape[n].number /\ Fields(Line(n)) > valuePos

Passed(m) ==
    named[m] < in \/ (named[m] = in /\ \E i \in 1..at : file[in][i].line = m)

SeriesInv ==
    /\ in = None => series = {}
    /\ \A x \in series : \E m \in 1..line : stamped[m] = x /\ ValueLine(m) /\ Passed(m)

AtCut == \E n \in 1..line : \E j \in Cuts(n) : Fields(SubSeq(Line(n), 1, j)) = valuePos
Twice == \E m, n \in 1..line : m # n /\ stamped[m] = stamped[n] /\ ValueLine(m) /\ ValueLine(n)
DeadInv == wpc = "dead" => AtCut \/ Twice

(* The more of a line is there, the more fields it has.                    *)
LEMMA FieldsOfCut ==
    ASSUME NEW n \in Nat \ {0}, NEW j \in Cuts(n)
    PROVE  /\ Fields(SubSeq(Line(n), 1, j)) \in Nat /\ Fields(Line(n)) \in Nat
           /\ Fields(SubSeq(Line(n), 1, j)) <= Fields(Line(n))
  <1> DEFINE l == Line(n)
             c == SubSeq(l, 1, j)
             P(text) == {p \in {"tx", "reply"} : Has(text, p)}
  <1>1. l \in Seq(Piece) /\ Len(l) \in Nat /\ DOMAIN l = 1..Len(l)
    BY LinePieces
  <1>2. j \in 1..Len(l)
    BY <1>1 DEF Cuts
  <1>3. DOMAIN c = 1..j /\ \A i \in 1..j : i \in 1..Len(l) /\ c[i] = l[i]
    <2> HIDE DEF l, Piece
    <2>1. c \in Seq(Piece) /\ Len(c) = j - 0 /\ \A i \in 1..(j - 0) : c[i] = l[0 + i]
      <3>1. 0 \in Nat /\ j \in Nat /\ 0 <= j /\ j <= Len(l) /\ 0 + 1 = 1
        BY <1>1, <1>2
      <3>2. QED
        BY <1>1, <3>1, CutOf
    <2> HIDE DEF c
    <2>2. QED
      BY <1>1, <1>2, <2>1, LenProperties
  <1> HIDE DEF l, c
  <1>4. P(c) \subseteq P(l)
    BY <1>1, <1>3 DEF Has
  <1>5. IsFiniteSet(P(l)) /\ IsFiniteSet(P(c))
    <2>1. IsFiniteSet({"tx", "reply"})
      <3>1. IsFiniteSet({"tx"}) /\ IsFiniteSet({"reply"})
        BY FS_Singleton
      <3>2. {"tx"} \cup {"reply"} = {"tx", "reply"}
        OBVIOUS
      <3>3. IsFiniteSet({"tx"} \cup {"reply"})
        BY <3>1, FS_Union
      <3>4. QED
        BY <3>2, <3>3
    <2>2. \A text : P(text) \subseteq {"tx", "reply"}
      OBVIOUS
    <2> HIDE DEF P
    <2>3. QED
      BY <2>1, <2>2, FS_Subset
  <1> DEFINE a == Cardinality(P(c))
             b == Cardinality(P(l))
  <1>6. a \in Nat /\ b \in Nat /\ a <= b
    <2> HIDE DEF P
    <2>1. QED
      BY <1>4, <1>5, FS_CardinalityType, FS_Subset
  <1>7. Fields(c) = 2 + 2 * a /\ Fields(l) = 2 + 2 * b
    BY DEF Fields
  <1> HIDE DEF a, b
  <1>8. QED
    BY <1>6, <1>7 DEF c, l

(* A line that is read from its beginning was not read before.             *)
LEMMA HeadRead ==
    ASSUME LineInv, FileInv, ReaderInv, PlaceInv, FlushInv, StopInv, OrderInv,
           wpc = "read", Unread # <<>>, CurLine[1].part = "head"
    PROVE  \E n \in 1..line : \E j \in Cuts(n) :
              /\ CurLine = SubSeq(Line(n), 1, j) /\ CurLine[1].line = n
              /\ Fields(CurLine) = Fields(SubSeq(Line(n), 1, j))
              /\ named[n] = in /\ \A m \in 1..line : Passed(m) => m # n
              /\ \E i \in 1..(at + Len(CurLine)) : file[in][i].line = n
  <1> DEFINE c == CurLine
             f == file[in]
  <1>1. f \in Seq(Piece) /\ in \in Name /\ at \in Nat /\ at <= Len(f)
    BY DEF ReaderInv, FileInv
  <1>2. PICK e \in (at + 1)..Len(f) :
            Len(c) = e - at /\ \A i \in 1..(e - at) : c[i] = f[at + i]
    BY <1>1, LineRead
  <1>3. PICK n \in 1..line : \E i \in Cuts(n) \cup {0}, j \in Cuts(n) :
            /\ c = SubSeq(Line(n), i + 1, j)
            /\ Len(c) # 0 /\ c[1].line = n
            /\ c[1].part = "head" => i = 0
    BY CutPlace
  <1>4. PICK j \in Cuts(n) : c = SubSeq(Line(n), 1, j) /\ c[1].line = n
    <2>1. PICK i \in Cuts(n) \cup {0}, j \in Cuts(n) :
             c = SubSeq(Line(n), i + 1, j) /\ i = 0 /\ c[1].line = n
      BY <1>3
    <2>2. i + 1 = 1
      BY <2>1
    <2>3. QED
      BY <2>1, <2>2
  <1> HIDE DEF c, f
  <1>5. c[1] = f[at + 1] /\ at + 1 \in 1..Len(f) /\ at + 1 \in 1..(at + Len(c))
    <2>1. Len(f) \in Nat /\ 1 \in 1..(e - at)
      BY <1>1, <1>2, LenProperties
    <2>2. QED
      BY <1>1, <1>2, <2>1
  <1> DEFINE s == LinesFor(in)
  <1>6. /\ Len(f) <= Len(s) /\ Len(f) \in Nat /\ Len(s) \in Nat
        /\ \A i \in 1..Len(f) : f[i] = s[i]
    BY <1>1, FileBegins DEF f
  <1>7. Numbered(s, in)
    BY <1>1 DEF OrderInv
  <1> HIDE DEF s
  <1>8. s[at + 1].line = n /\ s[at + 1].part = "head" /\ at + 1 \in 1..Len(s)
    <2>1. c[1].line = n /\ c[1].part = "head"
      BY <1>4 DEF c
    <2>2. f[at + 1] = s[at + 1]
      BY <1>5, <1>6
    <2>3. at + 1 \in 1..Len(s)
      BY <1>1, <1>5, <1>6
    <2>4. c[1] = s[at + 1]
      BY <1>5, <2>2
    <2>5. QED
      BY <2>1, <2>3, <2>4
  <1>9. named[n] = in
    BY <1>7, <1>8 DEF Numbered
  <1>10. \A i \in 1..at : f[i].line < n
    <2> SUFFICES ASSUME NEW i \in 1..at PROVE f[i].line < n
      OBVIOUS
    <2>1. i \in 1..Len(f) /\ i \in 1..Len(s) /\ i < at + 1
      BY <1>1, <1>5, <1>6
    <2>2. QED
      BY <1>6, <1>7, <1>8, <2>1 DEF Numbered
  <1>11. ASSUME NEW m \in 1..line, Passed(m) PROVE m # n
    <2>1. CASE named[m] < in
      <3>1. in \in Nat /\ ~(in < in)
        BY <1>1, NameFacts
      <3>2. QED
        BY <1>9, <2>1, <3>1
    <2>2. CASE \E i \in 1..at : f[i].line = m
      <3>1. m < n /\ n \in Nat /\ m \in Nat
        BY <1>10, <2>2
      <3>2. QED
        BY <3>1
    <2>3. QED
      BY <1>11, <2>1, <2>2 DEF Passed, f
  <1>12. f[at + 1].line = n
    BY <1>4, <1>5
  <1>13. QED
    BY <1>4, <1>5, <1>9, <1>11, <1>12 DEF c, f

LEMMA SeriesKept ==
    /\ NameInv /\ LineInv /\ LineInv' /\ FileInv /\ ReaderInv /\ ReaderInv' /\ PlaceInv
    /\ FlushInv /\ StopInv /\ OrderInv /\ StampInv /\ UpwardInv /\ WatchInv
    /\ SeriesInv /\ [Next]_vars
    => SeriesInv'
  <1> SUFFICES ASSUME NameInv, LineInv, LineInv', FileInv, ReaderInv, ReaderInv', PlaceInv,
                      FlushInv, StopInv, OrderInv, StampInv, UpwardInv, WatchInv,
                      SeriesInv, [Next]_vars
               PROVE  SeriesInv'
    OBVIOUS
  <1>1. /\ valuePos' = valuePos
        /\ \A n \in 1..line : /\ n \in 1..line' /\ named'[n] = named[n]
                              /\ stamped'[n] = stamped[n]
    BY PrintedKept
  <1>2. \A n : ValueLine(n)' <=> ValueLine(n)
    <2>1. shape' = shape /\ \A n : Line(n)' = Line(n)
      BY ShapeKept
    <2>2. QED
      BY <1>1, <2>1 DEF ValueLine
  <1>3. /\ in \in Name \cup {None} /\ at \in Nat /\ at' \in Nat
        /\ in # None => at <= Len(file[in])
        /\ Name \subseteq Nat /\ None \notin Name
        /\ Grows /\ \A n \in 1..line : named[n] \in Name
    <2>1. line \in Nat /\ named \in Seq(Name) /\ Len(named) = line
      BY ShapeType DEF LineInv
    <2>2. QED
      BY <2>1, FilesGrow, NameFacts DEF ReaderInv
  <1>4. ASSUME NEW m \in 1..line, Passed(m), in # None,
               \/ in' = in /\ at <= at'
               \/ in < in'
        PROVE  Passed(m)'
    <2>1. named[m] \in Nat /\ in \in Nat /\ in \in Name /\ named'[m] = named[m]
      BY <1>1, <1>3, <1>4
    <2>2. CASE in' = in /\ at <= at'
      <3>1. CASE named[m] < in
        BY <2>1, <2>2, <3>1 DEF Passed
      <3>2. CASE named[m] = in /\ \E i \in 1..at : file[in][i].line = m
        <4>1. PICK i \in 1..at : file[in][i].line = m
          BY <3>2
        <4>2. i \in 1..at' /\ i \in 1..Len(file[in])
          BY <1>3, <1>4, <2>2
        <4>3. file'[in][i] = file[in][i]
          BY <1>3, <2>1, <4>2 DEF Grows
        <4>4. QED
          BY <2>1, <2>2, <3>2, <4>1, <4>2, <4>3 DEF Passed
      <3>3. QED
        BY <1>4, <3>1, <3>2 DEF Passed
    <2>3. CASE in < in'
      <3>1. named[m] <= in
        BY <1>4, <2>1 DEF Passed
      <3>2. in' \in Nat
        <4>1. in' \in Name \cup {None} /\ None \in Nat
          BY DEF ReaderInv, None
        <4>2. QED
          BY <1>3, <4>1
      <3>3. named[m] < in'
        BY <2>1, <2>3, <3>1, <3>2
      <3>4. QED
        BY <2>1, <3>3 DEF Passed
    <2>4. QED
      BY <1>4, <2>2, <2>3
  <1>5. ASSUME series' = series,
               \/ in' = in /\ at <= at'
               \/ in = None
               \/ in < in'
        PROVE  SeriesInv'
    <2>1. CASE in = None
      <3>1. series' = {}
        BY <1>5, <2>1 DEF SeriesInv
      <3>2. QED
        BY <3>1 DEF SeriesInv
    <2>2. CASE in # None
      <3>1. in' # None
        BY <1>3, <1>5, <2>2 DEF None
      <3>2. ASSUME NEW x \in series'
            PROVE  \E m \in 1..line' : stamped'[m] = x /\ ValueLine(m)' /\ Passed(m)'
        <4>1. PICK m \in 1..line : stamped[m] = x /\ ValueLine(m) /\ Passed(m)
          BY <1>5, <3>2 DEF SeriesInv
        <4>2. Passed(m)'
          BY <1>4, <1>5, <2>2, <4>1
        <4>3. m \in 1..line' /\ stamped'[m] = x /\ ValueLine(m)'
          BY <1>1, <1>2, <4>1
        <4>4. QED
          BY <4>2, <4>3
      <3>3. QED
        BY <3>1, <3>2 DEF SeriesInv
    <2>3. QED
      BY <2>1, <2>2
  <1>6. CASE LoggerNext \/ UNCHANGED vars \/ Register \/ PollEvents \/ EventsDone
             \/ ReadNull \/ Overflow
    <2>1. UNCHANGED <<in, at, series>>
      BY <1>6 DEF LoggerNext, vars, plotter, Register, PollEvents, EventsDone, ReadNull,
         Overflow
    <2>2. at <= at'
      BY <1>3, <2>1
    <2>3. QED
      BY <1>5, <2>1, <2>2
  <1>7. CASE Follow
    <2>1. /\ batch # <<>> /\ series' = series
          /\ \/ UNCHANGED <<in, at>>
             \/ in' = Head(batch).file /\ (Head(batch).kind = "create" \/ in = None)
      BY <1>7 DEF Follow, Opens
    <2>2. Head(batch) = Queue[1] /\ Len(Queue) # 0 /\ Len(Queue) \in Nat
      <3>1. batch \in Seq(Event) /\ events \in Seq(Event)
        BY DEF ReaderInv
      <3> HIDE DEF Event
      <3>2. QED
        BY <2>1, <3>1, QueueType, TailOfPart DEF Queue
    <2>3. 1 \in 1..Len(Queue)
      BY <2>2
    <2>4. Head(batch).kind = "create" => in < Head(batch).file
      BY <2>2, <2>3 DEF UpwardInv, Upward
    <2>5. at <= at
      BY <1>3
    <2>6. QED
      BY <1>5, <2>1, <2>4, <2>5
  <1>8. CASE ReadLine
    <2>1. /\ wpc = "read" /\ Unread # <<>> /\ in' = in /\ file' = file /\ in # None
          /\ at' = at + Len(CurLine) /\ UNCHANGED <<line, named, stamped, shape>>
          /\ PassOver(CurLine) \/ AddValue(CurLine) \/ Fatal(CurLine)
      BY <1>8 DEF ReadLine, folder, printed, logger, ReaderInv
    <2>2. at <= at'
      <3>1. PICK e \in (at + 1)..Len(file[in]) : Len(CurLine) = e - at
        <4>1. file[in] \in Seq(Piece) /\ at <= Len(file[in])
          BY <2>1, <1>3 DEF FileInv
        <4>2. QED
          BY <1>3, <2>1, <4>1, LineRead
      <3>2. Len(file[in]) \in Nat
        BY <1>3, <2>1 DEF Grows
      <3>3. QED
        BY <1>3, <2>1, <3>1, <3>2
    <2>3. CASE PassOver(CurLine) \/ Fatal(CurLine)
      <3>1. series' = series
        BY <2>3 DEF PassOver, Fatal
      <3>2. QED
        BY <1>5, <2>1, <2>2, <3>1
    <2>4. CASE AddValue(CurLine)
      <3>1. /\ CurLine[1].part = "head" /\ Fields(CurLine) > valuePos
            /\ valuePos \in ValueFields /\ shape[CurLine[1].line].number
            /\ series' = series \cup {stamped[CurLine[1].line]}
        BY <2>4 DEF AddValue, HasValue, Matches, StampOf
      <3>2. PICK n \in 1..line : \E j \in Cuts(n) :
              /\ CurLine = SubSeq(Line(n), 1, j) /\ CurLine[1].line = n
              /\ Fields(CurLine) = Fields(SubSeq(Line(n), 1, j))
              /\ named[n] = in
              /\ \E i \in 1..(at + Len(CurLine)) : file[in][i].line = n
        BY <2>1, <3>1, HeadRead
      <3>3. ValueLine(n)
        <4>1. PICK j \in Cuts(n) : Fields(CurLine) = Fields(SubSeq(Line(n), 1, j))
          BY <3>2
        <4>2. n \in Nat \ {0} /\ valuePos \in Nat
          BY ShapeType, PosAssumption DEF ReaderInv
        <4>3. /\ Fields(SubSeq(Line(n), 1, j)) \in Nat /\ Fields(Line(n)) \in Nat
              /\ Fields(SubSeq(Line(n), 1, j)) <= Fields(Line(n))
          BY <4>2, FieldsOfCut
        <4>4. Fields(Line(n)) > valuePos
          BY <3>1, <4>1, <4>2, <4>3
        <4>5. QED
          BY <3>1, <3>2, <4>4 DEF ValueLine
      <3>4. Passed(n)'
        BY <2>1, <3>2 DEF Passed
      <3>5. ASSUME NEW x \in series'
            PROVE  \E m \in 1..line' : stamped'[m] = x /\ ValueLine(m)' /\ Passed(m)'
        <4>1. CASE x = stamped[n]
          BY <1>1, <1>2, <3>2, <3>3, <3>4, <4>1
        <4>2. CASE x \in series
          <5>1. PICK m \in 1..line : stamped[m] = x /\ ValueLine(m) /\ Passed(m)
            BY <4>2 DEF SeriesInv
          <5>2. Passed(m)'
            BY <1>4, <2>1, <2>2, <5>1
          <5>3. m \in 1..line' /\ stamped'[m] = x /\ ValueLine(m)'
            BY <1>1, <1>2, <5>1
          <5>4. QED
            BY <5>2, <5>3
        <4>3. QED
          BY <3>1, <3>2, <3>5, <4>1, <4>2
      <3>6. QED
        BY <2>1, <3>5 DEF SeriesInv
    <2>5. QED
      BY <2>1, <2>3, <2>4
  <1>9. QED
    BY <1>6, <1>7, <1>8 DEF Next, PlotStep

LEMMA DeadKept ==
    /\ NameInv /\ LineInv /\ LineInv' /\ FileInv /\ ReaderInv /\ PlaceInv /\ FlushInv
    /\ StopInv /\ OrderInv /\ StampInv /\ SeriesInv /\ DeadInv /\ [Next]_vars
    => DeadInv'
  <1> SUFFICES ASSUME NameInv, LineInv, LineInv', FileInv, ReaderInv, PlaceInv, FlushInv,
                      StopInv, OrderInv, StampInv, SeriesInv, DeadInv, [Next]_vars
               PROVE  DeadInv'
    OBVIOUS
  <1>1. /\ valuePos' = valuePos
        /\ \A n \in 1..line : /\ n \in 1..line' /\ named'[n] = named[n]
                              /\ stamped'[n] = stamped[n]
    BY PrintedKept
  <1>2. shape' = shape /\ \A n : Line(n)' = Line(n) /\ Cuts(n)' = Cuts(n)
    BY ShapeKept
  <1>3. AtCut => AtCut'
    BY <1>1, <1>2 DEF AtCut
  <1>4. Twice => Twice'
    <2> SUFFICES ASSUME Twice PROVE Twice'
      OBVIOUS
    <2>1. PICK m \in 1..line, n \in 1..line :
             m # n /\ stamped[m] = stamped[n] /\ ValueLine(m) /\ ValueLine(n)
      BY DEF Twice
    <2>2. ValueLine(m)' /\ ValueLine(n)'
      BY <1>1, <1>2, <2>1 DEF ValueLine
    <2>3. m \in 1..line' /\ n \in 1..line' /\ stamped'[m] = stamped'[n]
      BY <1>1, <2>1
    <2>4. QED
      BY <2>1, <2>2, <2>3 DEF Twice
  <1>5. ASSUME wpc' = "dead" => wpc = "dead" PROVE DeadInv'
    BY <1>3, <1>4, <1>5 DEF DeadInv
  <1>6. CASE ~ReadLine
    <2>1. wpc' = "dead" => wpc = "dead"
      BY <1>6 DEF Next, PlotStep, LoggerNext, vars, plotter, Register, PollEvents, Follow,
         EventsDone, ReadNull, Overflow
    <2>2. QED
      BY <1>5, <2>1
  <1>7. CASE ReadLine
    <2>1. wpc = "read" /\ Unread # <<>>
          /\ (PassOver(CurLine) \/ AddValue(CurLine) \/ Fatal(CurLine))
      BY <1>7 DEF ReadLine
    <2>2. CASE PassOver(CurLine) \/ AddValue(CurLine)
      BY <1>5, <2>2 DEF PassOver, AddValue, AfterLine
    <2>3. CASE Fatal(CurLine)
      <3>1. CurLine[1].part = "head"
        BY <2>3 DEF Fatal, OutOfBounds, HasValue, Matches
      <3>2. PICK n \in 1..line : \E j \in Cuts(n) :
              /\ CurLine[1].line = n
              /\ Fields(CurLine) = Fields(SubSeq(Line(n), 1, j))
              /\ \A m \in 1..line : Passed(m) => m # n
        BY <2>1, <3>1, HeadRead
      <3>3. PICK j \in Cuts(n) : Fields(CurLine) = Fields(SubSeq(Line(n), 1, j))
        BY <3>2
      <3>4. CASE OutOfBounds(CurLine)
        <4>1. Fields(SubSeq(Line(n), 1, j)) = valuePos
          BY <3>3, <3>4 DEF OutOfBounds
        <4>2. AtCut
          BY <4>1 DEF AtCut
        <4>3. QED
          BY <1>3, <4>2 DEF DeadInv
      <3>5. CASE HasValue(CurLine) /\ StampOf(CurLine) \in series
        <4>1. /\ Fields(CurLine) > valuePos /\ valuePos \in ValueFields /\ shape[n].number
              /\ stamped[n] \in series
          BY <3>2, <3>5 DEF HasValue, StampOf
        <4>2. PICK m \in 1..line : stamped[m] = stamped[n] /\ ValueLine(m) /\ Passed(m)
          BY <4>1 DEF SeriesInv
        <4>3. m # n
          BY <3>2, <4>2
        <4>4. ValueLine(n)
          <5>1. n \in Nat \ {0} /\ valuePos \in Nat
            BY ShapeType, PosAssumption DEF ReaderInv
          <5>2. /\ Fields(SubSeq(Line(n), 1, j)) \in Nat /\ Fields(Line(n)) \in Nat
                /\ Fields(SubSeq(Line(n), 1, j)) <= Fields(Line(n))
            BY <5>1, FieldsOfCut
          <5>3. Fields(Line(n)) > valuePos
            BY <3>3, <4>1, <5>1, <5>2
          <5>4. QED
            BY <4>1, <5>3 DEF ValueLine
        <4>5. Twice
          BY <4>2, <4>3, <4>4 DEF Twice
        <4>6. QED
          BY <1>4, <4>5 DEF DeadInv
      <3>6. QED
        BY <2>3, <3>4, <3>5 DEF Fatal
    <2>4. QED
      BY <2>1, <2>2, <2>3
  <1>8. QED
    BY <1>6, <1>7

LEMMA ValuesStart == Init => OrderInv /\ StampInv /\ UpwardInv /\ SeriesInv /\ DeadInv
  <1> SUFFICES ASSUME Init PROVE OrderInv /\ StampInv /\ UpwardInv /\ SeriesInv /\ DeadInv
    OBVIOUS
  <1>1. /\ wpc = "off" /\ in = None /\ series = {} /\ batch = <<>> /\ events = <<>>
        /\ timeNow = 0 /\ stamped = <<>> /\ line = 0 /\ lpc = "records"
        /\ file = [k \in Name |-> <<>>] /\ LineInv /\ FileInv
    BY StartsWhole DEF Init, LogInit
  <1>2. ASSUME NEW k \in Name PROVE Numbered(LinesFor(k), k)
    <2>1. LinesFor(k) = file[k] \o <<>>
      BY <1>1 DEF FileInv, Pending
    <2>2. Len(LinesFor(k)) = 0
      BY <1>1, <2>1
    <2>3. QED
      BY <2>2 DEF Numbered
  <1>3. StampInv
    BY <1>1, EmptySeq DEF StampInv
  <1>4. Queue = <<>>
    BY <1>1, ConcatEmptySeq, EmptySeq DEF Queue
  <1>5. UpwardInv
    BY <1>1, <1>4 DEF UpwardInv, Upward
  <1>6. QED
    BY <1>1, <1>2, <1>3, <1>5 DEF OrderInv, SeriesInv, DeadInv

LEMMA ValuesInvariant ==
    Spec => [](/\ NameInv /\ LineInv /\ FileInv /\ ReaderInv /\ PlaceInv /\ FlushInv
               /\ ReadingInv /\ PassInv /\ WatchInv /\ OrderInv /\ StampInv /\ UpwardInv
               /\ SeriesInv /\ DeadInv)
  <1>1. ReadingInv => StopInv
    BY DEF ReadingInv
  <1>2. QED
    BY <1>1, TailInvariant, ReadingInvariant, ValuesStart, OrderKept, PrintedKept, UpwardKept,
       SeriesKept, DeadKept, PTL DEF Spec

(* The plotter dies only of a log in which a line, up to a flush, has just *)
(* as many fields as the value position, or two lines with one stamp have  *)
(* a number each there: however the notices are lost, merged or delayed.   *)
THEOREM DeathHolds == Spec => []PlotterSurvives
  <1>1. ASSUME LineInv, DeadInv PROVE PlotterSurvives
    <2> SUFFICES ASSUME Twice
                 PROVE  /\ valuePos \in ValueFields
                        /\ \E m, n \in 1..line :
                              /\ m < n /\ stamped[m] = stamped[n]
                              /\ \A l \in {m, n} : shape[l].number /\ Fields(Line(l)) > valuePos
      BY <1>1, Zenon DEF PlotterSurvives, DeadInv, AtCut
    <2>1. PICK m \in 1..line, n \in 1..line :
             m # n /\ stamped[m] = stamped[n] /\ ValueLine(m) /\ ValueLine(n)
      BY DEF Twice
    <2>2. m < n \/ n < m
      <3>1. m \in Nat /\ n \in Nat
        BY <1>1, ShapeType
      <3>2. QED
        BY <2>1, <3>1
    <2>3. /\ valuePos \in ValueFields
          /\ \A l \in {m, n} : shape[l].number /\ Fields(Line(l)) > valuePos
      BY <2>1 DEF ValueLine
    <2>4. QED
      BY <2>1, <2>2, <2>3
  <1>2. QED
    BY <1>1, ValuesInvariant, PTL

(* Every variable keeps its type, and the reader, which keeps its place    *)
(* while the logger writes on, is never past the end of its file.          *)
THEOREM PlotterTypes == Spec => []LogTypeOK
  <1>1. ASSUME NameInv, LineInv, FileInv, ReaderInv, StampInv, SeriesInv PROVE LogTypeOK
    <2>1. rolls \in BOOLEAN /\ watched \in BOOLEAN /\ overflowed \in BOOLEAN
      BY <1>1 DEF NameInv, ReaderInv
    <2>2. \A e \in ToSet(events \o batch) : e.kind \in {"create", "modify", "overflow"}
      <3> DEFINE all == events \o batch
      <3>1. all \in Seq(Event)
        BY <1>1, ConcatProperties DEF ReaderInv
      <3>2. \A e \in Event : e.kind \in {"create", "modify", "overflow"}
        BY DEF Event, Notice
      <3> HIDE DEF all, Event
      <3>3. \A i \in DOMAIN all : all[i] \in Event
        BY <3>1, ElementOfSeq, LenProperties
      <3>4. QED
        BY <3>2, <3>3 DEF all, ToSet
    <2>3. /\ shape \in Scripts /\ name \in Name /\ rollFile \in {-1, 0, 1}
          /\ {logFileNameExp, logFileNameLast, logStream, in} \subseteq Name \cup {None}
          /\ exists \subseteq Name
      BY <1>1 DEF NameInv, LineInv, ReaderInv
    <2>4. /\ buffer \in Seq(Piece)
          /\ lpc \in {"records", "reply", "end"} /\ line \in 0..Len(shape)
          /\ file \in [Name -> Seq(Piece)]
          /\ valuePos \in Positions
          /\ wpc \in {"off", "take", "event", "read", "dead"}
          /\ at \in Nat /\ (in # None => at <= Len(file[in]))
      BY <1>1 DEF LineInv, FileInv, ReaderInv
    <2>5. timeNow \in Nat /\ stamped \in Seq(Nat) /\ series \subseteq Nat
      <3>1. timeNow \in Nat /\ stamped \in Seq(Nat) /\ Len(stamped) = line
        BY <1>1 DEF StampInv
      <3>2. \A m \in 1..line : stamped[m] \in Nat
        BY <3>1
      <3>3. QED
        BY <1>1, <3>1, <3>2 DEF SeriesInv
    <2>6. QED
      BY <2>1, <2>2, <2>3, <2>4, <2>5, Zenon DEF LogTypeOK
  <1>2. QED
    BY <1>1, ValuesInvariant, PTL

=============================================================================
