---------------------------- MODULE StatsBatches ----------------------------
(***************************************************************************)
(* stats.c: the standard input comes in pieces that know nothing of lines; *)
(* every number values found in a column of the lines with the key are     *)
(* given to calc() together with their times.                              *)
(***************************************************************************)
EXTENDS Integers, SequencesExt

CONSTANTS StatLines,    \* bound: the lines of the input
          MaxStatLines, \* bound: how many there are
          number,       \* an argument: values in a batch
          MaxRead       \* bound: how much read() returns at most

(* A line: whether the key is in it, its time stamp and the column's value *)
NoStamp == -1
NoColumn == -1

ASSUME StatsAssumption == number \in Nat \ {0} /\ MaxRead \in Nat \ {0}

VARIABLES spc, input,           \* the input, in lines, and whether the last one ends
          position,             \* how much of it was read
          lineSoFar, lineNo,        \* the line so far
          times, values, valueI,
          batches               \* history: what calc() got

statsVars == <<spc, input, position, lineSoFar, lineNo, times, values, valueI, batches>>

Inputs == [lines: BoundedSeq(StatLines, MaxStatLines), ended: BOOLEAN]

StatsInit ==
    /\ spc = "read"
    /\ input \in Inputs
    /\ position = 0 /\ lineSoFar = <<>> /\ lineNo = 0
    /\ times = [i \in 1..number |-> 0] /\ values = [i \in 1..number |-> 0]
    /\ valueI = 0 /\ batches = <<>>

(* A line takes two characters and its end.                                *)
Newline == <<0, "end">>
Chars(i) == <<<<i, "a">>, <<i, "b">>>>

Stream ==
    LET all == FlattenSeq([i \in DOMAIN input.lines |-> Chars(i) \o <<Newline>>])
    IN  IF input.ended \/ all = <<>> THEN all ELSE Front(all)

-----------------------------------------------------------------------------
(* The line's place in the input; it is none if it is not whole.           *)
WholeLine(text) ==
    IF \E i \in DOMAIN input.lines : text = Chars(i)
    THEN input.lines[text[1][1]]
    ELSE [match |-> FALSE, time |-> NoStamp, value |-> NoColumn]

Batch(st) == [i \in 1..number |-> <<st.times[i], st.values[i]>>]

ValueTakenAlways(st, row) == [st EXCEPT !.values[st.valueI + 1] = row.value,
                                     !.valueI = @ + 1]   \* mutant: with no value too

(* The value goes beside the time that was just noted; without one the     *)
(* time is overwritten by the next line's.                                 *)
ValueTaken(st, row) ==
    IF row.value = NoColumn THEN st
    ELSE [st EXCEPT !.values[st.valueI + 1] = row.value, !.valueI = @ + 1]

Full(st) ==
    IF st.valueI < number THEN st
    ELSE [st EXCEPT !.valueI = 0, !.batches = Append(@, Batch(st))]

EndOfLine(st) ==
    LET row  == WholeLine(st.line)
        time == IF row.time = NoStamp THEN st.valueI ELSE row.time
        kept == [st EXCEPT !.line = <<>>, !.lineNo = @ + 1]
    IN  IF ~row.match THEN kept
        ELSE Full(ValueTaken([kept EXCEPT !.times[st.valueI + 1] = time], row))

(* One character of what read() gave, and all of them.                     *)
Take(st, c) == IF c = Newline THEN EndOfLine(st) ELSE [st EXCEPT !.line = Append(@, c)]

Taken(first, n) ==
    LET st[k \in 0..n] == IF k = 0 THEN first ELSE Take(st[k - 1], Stream[position + k])
    IN  st[n]

ReadPiece ==
    /\ spc = "read"
    /\ \E n \in 1..MaxRead :
          /\ position + n <= Len(Stream)
          /\ position' = position + n
          /\ LET st == Taken([line |-> lineSoFar, lineNo |-> lineNo, times |-> times,
                              values |-> values, valueI |-> valueI,
                              batches |-> batches], n)
             IN  /\ lineSoFar' = st.line /\ lineNo' = st.lineNo
                 /\ times' = st.times /\ values' = st.values
                 /\ valueI' = st.valueI /\ batches' = st.batches
    /\ UNCHANGED <<spc, input>>

EndOfStream ==
    /\ spc = "read" /\ position = Len(Stream)
    /\ spc' = "end"
    /\ UNCHANGED <<input, position, lineSoFar, lineNo, times, values, valueI, batches>>

StatsNext == ReadPiece \/ EndOfStream

StatsSpec == StatsInit /\ [][StatsNext]_statsVars

-----------------------------------------------------------------------------
(***************************************************************************)
(* Property.                                                               *)
(***************************************************************************)

(* The values of the lines that were read to their end, with their times;  *)
(* a line without a time stamp has its place in the batch for one.         *)
Wants(row) == row.match /\ row.value # NoColumn

WantedOf[n \in 0..Len(input.lines)] ==
    IF n = 0 THEN <<>>
    ELSE IF Wants(input.lines[n]) THEN Append(WantedOf[n - 1], input.lines[n])
    ELSE WantedOf[n - 1]

Wanted == WantedOf[lineNo]

Expected ==
    [i \in DOMAIN Wanted |->
        <<IF Wanted[i].time = NoStamp THEN (i - 1) % number ELSE Wanted[i].time,
          Wanted[i].value>>]

(* However the input is cut into pieces, calc() gets the values of the     *)
(* lines with the key in their order, each once and with its own line's    *)
(* time, number of them at a time; less than number of them are waiting.   *)
BatchesInOrder ==
    /\ Len(batches) = Len(Wanted) \div number
    /\ FlattenSeq(batches) = SubSeq(Expected, 1, number * Len(batches))
    /\ lineNo = Cardinality({i \in 1..position : Stream[i] = Newline})
=============================================================================
