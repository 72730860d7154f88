------------------------------ MODULE LogFile ------------------------------
(***************************************************************************)
(* The log of main.cpp: how its file is chosen and rolled at the start of  *)
(* a pass, and how a line reaches it piece by piece through the stdio      *)
(* buffer, with a flush after a message was sent and one after the record. *)
(*                                                                         *)
(* A file is the sequence of the pieces written to it.  Every write and    *)
(* every new file is noticed by whoever watches the directory.             *)
(***************************************************************************)
EXTENDS Integers, SequencesExt

CONSTANTS Scripts,      \* bound: the shapes of the lines of a run, in their order
          MaxName,      \* bound: names that strftime() gives, in their order
          Refusable     \* bound: the names whose file may fail to open

Name == 1..MaxName
None == 0

(* Whether a message goes before the reply, whether the reply is too long  *)
(* for what stdio can hold back, whether the texts are numbers, and whether*)
(* a pass for this line comes in the millisecond of the one before.        *)
Shape == [sends: BOOLEAN, long: BOOLEAN, number: BOOLEAN, sameTime: BOOLEAN]

ASSUME LogBoundsAssumption ==
    /\ MaxName \in Nat \ {0} /\ Refusable \subseteq Name
    /\ Scripts \subseteq Seq(Shape)

(* The pieces of a line: time stamp and header, the message, the reply in  *)
(* two halves, the end of the line.                                        *)
Part  == {"head", "tx", "reply", "rest", "end"}
Piece == [line: Nat \ {0}, part: Part]

VARIABLES shape,            \* of each line: what the records do
          rolls,            \* -or was given, not -o
          name,             \* what strftime() made of logFileName
          rollFile,         \* -1 with -o until the first pass, 0 then; 1 with -or
          logFileNameExp, logFileNameLast,
          logStream,        \* the file it writes to, None for NULL
          buffer,           \* the text stdio holds back
          lpc, line         \* where main() is, and the number of the line

(* The directory: the files, and the notices for the one who watches it.   *)
VARIABLES file, exists, watched, events

(* The stamp of the pass, and the one each line begins with.  A moment is  *)
(* named by the first line that could be stamped with it.                  *)
VARIABLES timeNow, stamped

(* History: the name that is due for a pass, and for each line, the lines  *)
(* printed while there was no log, and the names whose file could not be   *)
(* opened.                                                                 *)
VARIABLES passName, named, unlogged, refused

naming  == <<name, rollFile, logFileNameExp, logFileNameLast, logStream>>
logger  == <<shape, rolls, naming, buffer, lpc, line>>
folder  == <<file, exists, watched, events>>
printed == <<timeNow, stamped, passName, named, unlogged, refused>>

LogInit ==
    /\ shape \in Scripts
    /\ name = 1
    /\ rolls \in BOOLEAN
    /\ rollFile = IF rolls THEN 1 ELSE -1
    /\ logFileNameExp = None /\ logFileNameLast = None
    /\ logStream = None
    /\ buffer = <<>>
    /\ lpc = "records" /\ line = 0
    /\ file = [k \in Name |-> <<>>]
    /\ exists = {} /\ watched = FALSE /\ events = <<>>
    /\ timeNow = 0 /\ stamped = <<>>
    /\ passName = None
    /\ named = <<>> /\ unlogged = {} /\ refused = {}

-----------------------------------------------------------------------------
(* A notice waits for the watcher; one that repeats the last is merged     *)
(* with it.                                                                *)
Noticed(kind, k) ==
    LET e == [kind |-> kind, file |-> k]
    IN  IF ~watched \/ (events # <<>> /\ Last(events) = e) THEN events
        ELSE Append(events, e)

(* Text goes from stdio to the file; with no log it goes nowhere.          *)
WriteOut(text) ==
    IF logStream = None \/ text = <<>>
    THEN UNCHANGED <<file, events>>
    ELSE /\ file' = [file EXCEPT ![logStream] = @ \o text]
         /\ events' = Noticed("modify", logStream)

RollAfterOnce == rollFile' = 0               \* mutant: the test for -1 is lost
RollAfter == rollFile' = IF rollFile = -1 THEN 0 ELSE rollFile

(* fopen() with "a": a new file is noticed, an old one is continued.       *)
Open ==
    \/ /\ logStream' = logFileNameExp'
       /\ exists' = exists \cup {logFileNameExp'}
       /\ events' = IF logFileNameExp' \in exists THEN events
                    ELSE Noticed("create", logFileNameExp')
       /\ UNCHANGED refused
    \/ /\ logFileNameExp' \in Refusable
       /\ logStream' = None
       /\ refused' = refused \cup {logFileNameExp'}
       /\ UNCHANGED <<exists, events>>

(* The start of a pass, in the same millisecond as the last one or later:  *)
(* the clock is read; the name is made again, always or the first time,    *)
(* and a new name gets a new stream.  The name counts as done even if its  *)
(* file cannot be opened.                                                  *)
BeginPass ==
    /\ lpc = "records"
    /\ name' \in name..MaxName
    /\ logFileNameExp' = IF rollFile # 0 THEN name' ELSE logFileNameExp
    /\ RollAfter
    /\ IF logFileNameExp' # logFileNameLast
       THEN Open /\ logFileNameLast' = logFileNameExp'
       ELSE UNCHANGED <<logStream, logFileNameLast, exists, events, refused>>
    /\ passName' = IF passName = None \/ rolls THEN name' ELSE passName
    /\ timeNow' = IF line < Len(shape) /\ ~shape[line + 1].sameTime
                  THEN line + 1 ELSE timeNow
    /\ UNCHANGED <<shape, rolls, buffer, lpc, line, file, watched, stamped, named,
                   unlogged>>

PieceOf(part) == [line |-> line', part |-> part]

(* A line begins, with the stamp of its pass; the pass's name is kept.     *)
Counted ==
    /\ lpc = "records" /\ passName # None
    /\ line < Len(shape)
    /\ line' = line + 1
    /\ stamped' = Append(stamped, timeNow)
    /\ named' = Append(named, passName)
    /\ unlogged' = IF logStream = None THEN unlogged \cup {line'} ELSE unlogged
    /\ lpc' = "reply"
    /\ UNCHANGED <<shape, rolls, naming, exists, watched, timeNow, passName, refused>>

Opening ==
    <<PieceOf("head")>> \o IF shape[line'].sends THEN <<PieceOf("tx")>> ELSE <<>>

BeginLineFlushed ==                          \* mutant: the stamp is flushed at once
    Counted /\ WriteOut(Opening) /\ UNCHANGED buffer

(* A record prints its stamp; if it sends, its message too, and flushes.   *)
BeginLine ==
    /\ Counted
    /\ IF shape[line'].sends
       THEN WriteOut(Opening) /\ UNCHANGED buffer
       ELSE buffer' = Opening /\ UNCHANGED <<file, events>>

(* A reply longer than the buffer reaches the file in two parts.           *)
Spill ==
    /\ lpc = "reply" /\ shape[line].long
    /\ UNCHANGED line
    /\ WriteOut(buffer \o <<PieceOf("reply")>>)
    /\ buffer' = <<PieceOf("rest")>>
    /\ lpc' = "end"
    /\ UNCHANGED <<shape, rolls, naming, exists, watched, printed>>

RestOfLine ==
    IF lpc = "end" THEN <<PieceOf("end")>>
    ELSE <<PieceOf("reply"), PieceOf("rest"), PieceOf("end")>>

Complete == lpc = "end" \/ (lpc = "reply" /\ ~shape[line].long)

(* The reply and the end of the line, and the flush after the record.      *)
EndLine ==
    /\ Complete
    /\ UNCHANGED line
    /\ WriteOut(buffer \o RestOfLine)
    /\ buffer' = <<>>
    /\ lpc' = "records"
    /\ UNCHANGED <<shape, rolls, naming, exists, watched, printed>>

LogStep == BeginPass \/ BeginLine \/ Spill \/ EndLine

-----------------------------------------------------------------------------
(* What a line should look like in the file.                               *)
Line(n) ==
    <<[line |-> n, part |-> "head"]>>
        \o (IF shape[n].sends THEN <<[line |-> n, part |-> "tx"]>> ELSE <<>>)
        \o <<[line |-> n, part |-> "reply"], [line |-> n, part |-> "rest"],
             [line |-> n, part |-> "end"]>>

(* The pieces after which it goes out to the file.                         *)
Cuts(n) ==
    {i \in DOMAIN Line(n) : \/ Line(n)[i].part \in {"tx", "end"}
                            \/ shape[n].long /\ Line(n)[i].part = "reply"}

LinesFor(k) ==
    FlattenSeq([n \in 1..line |->
        IF named[n] = k /\ n \notin unlogged THEN Line(n) ELSE <<>>])
=============================================================================
