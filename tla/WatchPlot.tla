----------------------------- MODULE WatchPlot -----------------------------
(***************************************************************************)
(* watchPlot.java beside the logger: it waits for notices of the log's     *)
(* directory and reads the log line by line into the chart of plot.java.   *)
(* At the end of the file readLine() takes what is there for a line.       *)
(***************************************************************************)
EXTENDS LogFile

CONSTANT Positions      \* bound: value positions on the command line

ASSUME PosAssumption == Positions \subseteq Nat

VARIABLES valuePos,         \* pos, an argument of the program
          wpc, batch,       \* where it is, and the events of the polled key
          in, at,           \* the file it reads (None for null), and how far
          series,           \* s1: the stamps that have a value in the chart
          overflowed        \* a notice was lost

(* History: the files followed in their order, the lines as they were      *)
(* read, and the lines finished while the directory was watched.           *)
VARIABLES followed, curLines, due

plotter == <<valuePos, wpc, batch, in, at, series, overflowed, followed,
             curLines, due>>
vars    == <<logger, folder, printed, plotter>>

Init ==
    /\ LogInit
    /\ valuePos \in Positions
    /\ wpc = "off" /\ batch = <<>>
    /\ in = None /\ at = 0 /\ series = {}
    /\ overflowed = FALSE
    /\ followed = <<>> /\ curLines = <<>> /\ due = {}

(* The plotter is started and registers the directory.                     *)
Register ==
    /\ wpc = "off"
    /\ wpc' = "take" /\ watched' = TRUE
    /\ UNCHANGED <<logger, printed, file, exists, events, valuePos, batch, in,
                   at, series, overflowed, followed, curLines, due>>

(* take() and pollEvents(): all notices so far.                            *)
PollEvents ==
    /\ wpc = "take" /\ events # <<>>
    /\ batch' = events /\ events' = <<>>
    /\ wpc' = "event"
    /\ UNCHANGED <<logger, printed, file, exists, watched, valuePos, in, at,
                   series, overflowed, followed, curLines, due>>

OpensAny(e) == TRUE                          \* mutant: every event opens the file

(* A created file is opened, and any file when none is open.               *)
Opens(e) == e.kind = "create" \/ in = None

StartKept == at                              \* mutant: the old position is kept
Start == 0

Follow ==
    /\ wpc = "event" /\ batch # <<>>
    /\ batch' = Tail(batch)
    /\ LET e == Head(batch)
       IN  IF e.kind = "overflow"
           THEN UNCHANGED <<wpc, in, at, followed>>
           ELSE /\ wpc' = "read"
                /\ IF Opens(e)
                   THEN /\ in' = e.file /\ at' = Start
                        /\ followed' = Append(followed, e.file)
                   ELSE UNCHANGED <<in, at, followed>>
    /\ UNCHANGED <<logger, printed, folder, valuePos, series, overflowed, curLines,
                   due>>

EventsDone ==
    /\ wpc = "event" /\ batch = <<>>
    /\ wpc' = "take"
    /\ UNCHANGED <<logger, printed, folder, valuePos, batch, in, at, series,
                   overflowed, followed, curLines, due>>

-----------------------------------------------------------------------------
Unread == SubSeq(file[in], at + 1, Len(file[in]))

(* readLine(): up to the end of the line, or of the file.                  *)
CurLine ==
    LET ends == {i \in DOMAIN Unread : Unread[i].part = "end"}
    IN  IF ends = {} THEN Unread
        ELSE SubSeq(Unread, 1, CHOOSE i \in ends : \A j \in ends : i <= j)

Has(text, part) == \E i \in DOMAIN text : text[i].part = part

(* split(","): stamp and device, and two fields each for message and       *)
(* reply.  There is no comma in any of them.                               *)
Fields(text) ==
    2 + 2 * Cardinality({p \in {"tx", "reply"} : Has(text, p)})

(* A line that begins with a time stamp is split.                          *)
Matches(text) == text[1].part = "head"

OutOfBoundsAll(text) ==                      \* mutant: no test of the length
    Matches(text) /\ Fields(text) <= valuePos

(* "split.length >= pos" lets split[pos] go one past the end.              *)
OutOfBounds(text) == Matches(text) /\ Fields(text) = valuePos

(* The fields after the names Tx and Rx may be numbers.                    *)
ValueFields == {3, 5}

HasValue(text) ==
    /\ Matches(text) /\ Fields(text) > valuePos
    /\ valuePos \in ValueFields /\ shape[text[1].line].number

StampOf(text) == stamped[text[1].line]

AfterLineOne == "event"                      \* mutant: one line an event
AfterLine == "read"

(* plot.read() of a line: there is nothing to plot, or it is no number.    *)
PassOver(text) ==
    /\ ~OutOfBounds(text) /\ ~HasValue(text)
    /\ wpc' = AfterLine
    /\ UNCHANGED series

(* A number goes into the chart under the line's stamp.                    *)
AddValue(text) ==
    /\ HasValue(text) /\ StampOf(text) \notin series
    /\ series' = series \cup {StampOf(text)}
    /\ wpc' = AfterLine

(* An index out of bounds, and a second value for a stamp, which add()     *)
(* refuses, are exceptions that nobody catches: they end the program.      *)
Fatal(text) ==
    /\ \/ OutOfBounds(text)
       \/ HasValue(text) /\ StampOf(text) \in series
    /\ wpc' = "dead"
    /\ UNCHANGED series

ReadLine ==
    /\ wpc = "read" /\ Unread # <<>>
    /\ at' = at + Len(CurLine)
    /\ curLines' = Append(curLines, CurLine)
    /\ PassOver(CurLine) \/ AddValue(CurLine) \/ Fatal(CurLine)
    /\ UNCHANGED <<logger, printed, folder, valuePos, batch, in, overflowed,
                   followed, due>>

(* readLine() returns null.                                                *)
ReadNull ==
    /\ wpc = "read" /\ Unread = <<>>
    /\ wpc' = "event"
    /\ UNCHANGED <<logger, printed, folder, valuePos, batch, in, at, series,
                   overflowed, followed, curLines, due>>

PlotStep == PollEvents \/ Follow \/ EventsDone \/ ReadLine \/ ReadNull

(* The system's buffer for the notices is full; it keeps only that fact.   *)
Overflow ==
    /\ events # <<>> /\ ~overflowed
    /\ events' = <<[kind |-> "overflow", file |-> None]>>
    /\ overflowed' = TRUE
    /\ UNCHANGED <<logger, printed, file, exists, watched, valuePos, wpc, batch,
                   in, at, series, followed, curLines, due>>

LoggerNext ==
    /\ LogStep
    /\ due' = IF lpc \in {"reply", "end"} /\ lpc' = "records"
                    /\ watched /\ logStream # None
              THEN due \cup {line} ELSE due
    /\ UNCHANGED <<valuePos, wpc, batch, in, at, series, overflowed, followed,
                   curLines>>

Next == \/ LoggerNext
        \/ Register \/ PlotStep \/ Overflow

Spec == Init /\ [][Next]_vars

(* The plotter runs whenever it has something to do.                       *)
FairSpec == Spec /\ WF_vars(PlotStep)

-----------------------------------------------------------------------------
(***************************************************************************)
(* Properties.                                                             *)
(***************************************************************************)

(* Every variable keeps its type; a reader is never past its file's end.   *)
LogTypeOK ==
    /\ shape \in Scripts /\ rolls \in BOOLEAN /\ name \in Name /\ rollFile \in {-1, 0, 1}
    /\ {logFileNameExp, logFileNameLast, logStream, in} \subseteq Name \cup {None}
    /\ buffer \in Seq(Piece)
    /\ lpc \in {"records", "reply", "end"} /\ line \in 0..Len(shape)
    /\ file \in [Name -> Seq(Piece)] /\ exists \subseteq Name
    /\ watched \in BOOLEAN
    /\ \A e \in ToSet(events \o batch) : e.kind \in {"create", "modify", "overflow"}
    /\ valuePos \in Positions
    /\ wpc \in {"off", "take", "event", "read", "dead"}
    /\ overflowed \in BOOLEAN
    /\ timeNow \in Nat /\ stamped \in Seq(Nat) /\ series \subseteq Nat
    /\ at \in Nat /\ (in # None => at <= Len(file[in]))

(* The log is whole after every record: each file holds, in their order    *)
(* and complete, the lines of the passes that began under its name, and in *)
(* the middle of a line nothing but a first part of that line; a line is   *)
(* missing only if the file of its pass could not be opened.               *)
LogIsWhole ==
    /\ \A k \in Name :
          /\ IsPrefix(file[k], LinesFor(k))
          /\ lpc = "records" => file[k] = LinesFor(k)
    /\ \A n \in unlogged : named[n] \in refused

(* While no notice is lost the plotter reads every file that it follows    *)
(* once, from its first line, to its last before it turns to the next, and *)
(* passes over no file: the switch to a new file leaves nothing unread of  *)
(* the old one, for a pass's last write is noticed before the new file is. *)
TailComplete ==
    ~overflowed /\ followed # <<>> =>
        /\ FlattenSeq(curLines) =
              FlattenSeq([i \in 1..(Len(followed) - 1) |-> file[followed[i]]])
                  \o SubSeq(file[in], 1, at)
        /\ \A i \in 1..(Len(followed) - 1) : followed[i] < followed[i + 1]
        /\ ToSet(followed) = {k \in exists : followed[1] <= k /\ k <= in}

(* The plotter takes a part of a line for a line only where the logger     *)
(* flushes: after a message, and where a reply is too long for stdio.  The *)
(* line of a record that only listens is read whole.                       *)
CutsAtFlushes ==
    \A text \in ToSet(curLines) :
        LET n == text[1].line
        IN  \E i \in Cuts(n) \cup {0}, j \in Cuts(n) : text = SubSeq(Line(n), i + 1, j)

(* The plotter survives every log in which no two lines have one stamp and *)
(* a number each (those of a pass have one stamp), and no line has exactly *)
(* as many fields as the value position at one of the logger's flushes: it *)
(* reads a line once, whatever notices are lost or merged, and no line     *)
(* brings its value twice.                                                 *)
PlotterSurvives ==
    wpc = "dead" =>
        \/ \E n \in 1..line : \E j \in Cuts(n) : Fields(SubSeq(Line(n), 1, j)) = valuePos
        \/ /\ valuePos \in ValueFields
           /\ \E m, n \in 1..line :
                 /\ m < n /\ stamped[m] = stamped[n]
                 /\ \A l \in {m, n} : shape[l].number /\ Fields(Line(l)) > valuePos

EndIsRead(n) == \E text \in ToSet(curLines) : Last(text) = [line |-> n, part |-> "end"]

(* Every line finished while the plotter watches comes to be read, unless  *)
(* a notice was lost or an exception has ended the plotter: also the last  *)
(* one before the logger falls silent.                                     *)
LinesAreRead ==
    []<>(overflowed \/ wpc = "dead" \/ \A n \in due : EndIsRead(n))
=============================================================================
