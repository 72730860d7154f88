---------------------------- MODULE CommandLine ----------------------------
(***************************************************************************)
(* The start of Query: main() sorts out its own options and hands the rest *)
(* of the command line to config(), which makes the records and calls      *)
(* itself for every line of a command file.  One step is one argument.     *)
(***************************************************************************)
EXTENDS Message, AbsTime

CONSTANT Symbols        \* bound: what words are made of

(* Each symbol, and what an escape in a file stands for, has its byte.     *)
Alphabet == Symbols \cup {" ", Quote, Backslash, "n", "\n", "\r", "\t"}

ASSUME SymbolsAssumption == Alphabet \subseteq DOMAIN Code

DeviceOptions == {"-a", "-d", "-i", "-x", "-N"}
FlagOptions   == {"-r", "-c", "-u", "-m", "-mx", "-et"}
ValueOptions  == {"-f", "-l", "-p", "-n", "-q", "-P", "-s", "-es", "-h"}
SetOptions    == FlagOptions \cup ValueOptions
MainOptions   == {"-t", "-b", "-g", "-o", "-or", "-?"}
Options       == DeviceOptions \cup SetOptions \cup MainOptions \cup {"-j", "-F", "-z"}

IsOption(word) == word # <<>> /\ word[1] \in Options

VARIABLES argv, files, timeNow, \* what the program is started with
          status, arg,          \* of main(): where it is, and its argument
          stack,                \* the calls of config()
          records, cmdlineargs

(* History: the lines config() was called with, and whether an option was  *)
(* used without a record.                                                  *)
VARIABLES lines, stray

given == <<argv, files, timeNow>>

(* A command line with no empty arguments, and the lines of every file:    *)
(* their words, each in quotes or bare, and whether blanks follow the last.*)
FileRows == [words: Seq([word: Seq(Symbols), quoted: BOOLEAN]), closed: BOOLEAN]

GivenOK ==
    /\ argv \in Seq(Seq(Symbols) \ {<<>>})
    /\ \A f \in DOMAIN files : files[f] \in Seq(FileRows)
    /\ timeNow \in Clock

startVars == <<given, status, arg, stack, records, cmdlineargs, lines, stray>>

Unset == 0

(* A call: its words and their line's number, its next argument, how many  *)
(* messages it saw, its record, and the rest of the file it reads, if any. *)
Frame(n, words) ==
    [line |-> n, words |-> words, arg |-> 1, argParam |-> 0, newQ |-> Unset,
     reading |-> FALSE, file |-> <<>>]

Top      == Last(stack)
Onto(f)  == Front(stack) \o <<f>>

StartInit ==
    /\ status = "args" /\ arg = 1
    /\ stack = <<Frame(1, <<>>)>>
    /\ records = <<>> /\ cmdlineargs = <<>>
    /\ lines = <<>> /\ stray = FALSE

-----------------------------------------------------------------------------
(* main(): its own options anywhere on the command line.                   *)
ArgIs(S) == status = "args" /\ arg <= Len(argv) /\ argv[arg][1] \in S

MainFlag ==
    /\ ArgIs({"-t", "-b", "-g"})
    /\ arg' = arg + 1
    /\ UNCHANGED <<given, status, stack, records, cmdlineargs, lines, stray>>

LogName ==
    /\ ArgIs({"-o", "-or"})
    /\ arg < Len(argv) /\ ~IsOption(argv[arg + 1])
    /\ arg' = arg + 2
    /\ UNCHANGED <<given, status, stack, records, cmdlineargs, lines, stray>>

(* arg <= argc lets the one behind the last argument through: a null.      *)
NoLogName ==
    /\ ArgIs({"-o", "-or"})
    /\ status' = IF arg = Len(argv) THEN "crash" ELSE "exit"
    /\ arg < Len(argv) => IsOption(argv[arg + 1])
    /\ UNCHANGED <<given, arg, stack, records, cmdlineargs, lines, stray>>

Usage ==
    /\ status = "args" /\ (argv = <<>> \/ ArgIs({"-?"}))
    /\ status' = "exit"
    /\ UNCHANGED <<given, arg, stack, records, cmdlineargs, lines, stray>>

KeepArg ==
    /\ status = "args" /\ arg <= Len(argv) /\ argv[arg][1] \notin MainOptions
    /\ stack' = <<[stack[1] EXCEPT !.words = Append(@, argv[arg])]>>
    /\ arg' = arg + 1
    /\ UNCHANGED <<given, status, records, cmdlineargs, lines, stray>>

(* The shell has taken the command line apart.                             *)
CommandRow == [words |-> <<>>, closed |-> TRUE]

StartConfig ==
    /\ status = "args" /\ argv # <<>> /\ arg > Len(argv)
    /\ status' = IF stack[1].words = <<>> THEN "done" ELSE "config"
    /\ lines' = <<[words |-> stack[1].words, row |-> CommandRow]>>
    /\ UNCHANGED <<given, arg, stack, records, cmdlineargs, stray>>

MainArgs == MainFlag \/ LogName \/ NoLogName \/ Usage \/ KeepArg \/ StartConfig

-----------------------------------------------------------------------------
(* config(): one argument of the innermost call.                           *)
Configures == status = "config" /\ ~Top.reading

WordAt(f, i) == IF i \in DOMAIN f.words THEN f.words[i] ELSE <<>>

Word     == WordAt(Top, Top.arg)
Argument == WordAt(Top, Top.arg + 1)
HasArgument == Argument # <<>> /\ ~IsOption(Argument)

NoArgument ==
    /\ Configures /\ Word # <<>>
    /\ Word[1] \in DeviceOptions \cup ValueOptions \cup {"-F"}
    /\ ~HasArgument
    /\ status' = "exit"
    /\ UNCHANGED <<given, arg, stack, records, cmdlineargs, lines, stray>>

AddRecord ==
    /\ Configures /\ Word # <<>> /\ Word[1] \in DeviceOptions /\ HasArgument
    /\ records' = Append(records,
          [device |-> <<Word[1], Argument>>, from |-> [line |-> Top.line, arg |-> Top.arg],
           set |-> [o \in SetOptions |-> <<>>], first |-> 0, last |-> 0, period |-> 0,
           nmea |-> 0, send |-> Word[1] = "-x", message |-> <<>>, text |-> <<>>])
    /\ stack' = Onto([Top EXCEPT !.newQ = Len(records'), !.arg = @ + 2])
    /\ UNCHANGED <<given, status, arg, cmdlineargs, lines, stray>>

PlusSign(word) == word[1] = "+"

TimeFields(word) ==
    LET IsGap(i) == i = 0 \/ word[i] \in {" ", ":"}
        FieldAt(i) == OrZero(Number(word, IF word[i] = "+" THEN i + 1 ELSE i, 9))
    IN  FoldLeftDomain(LAMBDA fields, i : IF IsGap(i - 1) /\ ~IsGap(i)
                                          THEN Append(fields, FieldAt(i)) ELSE fields,
                       <<>>, word)

AbsTimeOf(word, start) == StrToAbsTime(PlusSign(word), TimeFields(word), start)

(* A setting of record q; times are worked out at once.                    *)
SettingOf(q) ==
    CASE Word[1] \in FlagOptions ->
            [q EXCEPT !.set[Word[1]] = Word,
                      !.nmea = CASE Word[1] = "-m" -> 1 [] Word[1] = "-mx" -> 2 [] OTHER -> @]
      [] Word[1] \in ValueOptions ->
            [q EXCEPT !.set[Word[1]] = Argument,
                      !.first  = IF Word[1] = "-f" THEN AbsTimeOf(Argument, timeNow) ELSE @,
                      !.last   = IF Word[1] = "-l" THEN AbsTimeOf(Argument, timeNow) ELSE @,
                      !.period = IF Word[1] = "-p" THEN AbsTimeOf(Argument, 0) ELSE @]

NeedsRecord ==
    /\ Word # <<>>
    /\ \/ Word[1] \in FlagOptions
       \/ Word[1] \in ValueOptions /\ HasArgument
       \/ ~IsOption(Word) /\ Top.argParam = 0

SetOption ==
    /\ Configures /\ NeedsRecord /\ IsOption(Word) /\ Top.newQ # Unset
    /\ records' = [records EXCEPT ![Top.newQ] = SettingOf(@)]
    /\ stack' = Onto([Top EXCEPT !.arg = @ + (IF Word[1] \in FlagOptions THEN 1 ELSE 2)])
    /\ UNCHANGED <<given, status, arg, cmdlineargs, lines, stray>>

(* newQ is not set until the first device of the call: the program stops,  *)
(* or goes on with a record that an earlier call left on the stack.        *)
UseUnset ==
    /\ Configures /\ NeedsRecord /\ Top.newQ = Unset
    /\ stray' = TRUE
    /\ \/ status' = "crash" /\ UNCHANGED stack
       \/ /\ UNCHANGED status
          /\ \E q \in DOMAIN records : stack' = Onto([Top EXCEPT !.newQ = q])
    /\ UNCHANGED <<given, arg, records, cmdlineargs, lines>>

(* The arguments of -j are pointers into the words of a call; when a file  *)
(* is read to its end, the words of its lines are cleared.                 *)
ArgsNow ==
    [k \in DOMAIN cmdlineargs |->
        LET p == cmdlineargs[k]
        IN  IF p.depth <= Len(stack) THEN WordAt(stack[p.depth], p.arg) ELSE <<>>]

SaveArgument ==
    /\ Configures /\ Word # <<>> /\ Word[1] = "-j"
    /\ cmdlineargs' = Append(cmdlineargs, [depth |-> Len(stack), arg |-> Top.arg + 1])
    /\ stack' = Onto([Top EXCEPT !.arg = @ + 2])
    /\ UNCHANGED <<given, status, arg, records, lines, stray>>

(* The message is put together once, its sum with it; what goes out for it *)
(* each time is Sent(message).                                             *)
Composed(q) ==
    [q EXCEPT !.send = TRUE, !.text = Word,
              !.message = Summed(Unescape(Word, ArgsNow), q.nmea)]

SetMessage ==
    /\ Configures /\ NeedsRecord /\ ~IsOption(Word) /\ Top.newQ # Unset
    /\ IF ArgsGiven(Word, ArgsNow)
       THEN /\ records' = [records EXCEPT ![Top.newQ] = Composed(@)]
            /\ UNCHANGED status
       ELSE status' = "crash" /\ UNCHANGED records
    /\ stack' = Onto([Top EXCEPT !.arg = @ + 1, !.argParam = @ + 1])
    /\ UNCHANGED <<given, arg, cmdlineargs, lines, stray>>

(* A second word, an unknown option: said on stderr and passed over.       *)
PassOver ==
    /\ Configures /\ Word # <<>>
    /\ \/ ~IsOption(Word) /\ Top.argParam > 0
       \/ Word[1] \in MainOptions \cup {"-z"}
    /\ stack' = Onto([Top EXCEPT !.arg = @ + 1,
                                 !.argParam = IF IsOption(Word) THEN @ ELSE @ + 1])
    /\ UNCHANGED <<given, status, arg, records, cmdlineargs, lines, stray>>

-----------------------------------------------------------------------------
(* -F: a file that opens is read line by line, each in a call of its own.  *)
TextOf(row) ==
    LET Parted(k) == (IF k = 1 THEN <<>> ELSE <<" ">>)
                         \o Written(row.words[k].word, row.words[k].quoted)
    IN  FlattenSeq([k \in DOMAIN row.words |-> Parted(k)])
            \o (IF row.closed THEN <<" ">> ELSE <<>>)

OpenFile ==
    /\ Configures /\ Word # <<>> /\ Word[1] = "-F" /\ HasArgument
    /\ IF Argument[1] \in DOMAIN files
       THEN /\ stack' = Onto([Top EXCEPT !.arg = @ + 2, !.reading = TRUE,
                                         !.file = files[Argument[1]]])
            /\ UNCHANGED status
       ELSE status' = "exit" /\ UNCHANGED stack
    /\ UNCHANGED <<given, arg, records, cmdlineargs, lines, stray>>

Comment(text) == text = <<>> \/ text[1] = ";"

ReadLine ==
    /\ status = "config" /\ Top.reading /\ Top.file # <<>>
    /\ LET row    == Head(Top.file)
           reader == [Top EXCEPT !.file = Tail(@)]
           words  == WordsOf(TextOf(row))
       IN  IF Comment(TextOf(row))
           THEN stack' = Onto(reader) /\ UNCHANGED lines
           ELSE /\ lines' = Append(lines, [words |-> words, row |-> row])
                /\ stack' = Onto(reader) \o <<Frame(Len(lines'), words)>>
    /\ UNCHANGED <<given, status, arg, records, cmdlineargs, stray>>

EndOfFile ==
    /\ status = "config" /\ Top.reading /\ Top.file = <<>>
    /\ stack' = Onto([Top EXCEPT !.reading = FALSE])
    /\ UNCHANGED <<given, status, arg, records, cmdlineargs, lines, stray>>

ReturnedShared ==                            \* mutant: newQ is shared by all calls
    Append(SubSeq(stack, 1, Len(stack) - 2),
           [stack[Len(stack) - 1] EXCEPT !.newQ = Top.newQ])
Returned == Front(stack)

Return ==
    /\ Configures /\ Word = <<>>
    /\ stack' = IF Len(stack) = 1 THEN stack ELSE Returned
    /\ status' = IF Len(stack) = 1 THEN "done" ELSE status
    /\ UNCHANGED <<given, arg, records, cmdlineargs, lines, stray>>

StartNext == \/ MainArgs
        \/ NoArgument \/ AddRecord \/ SetOption \/ UseUnset \/ SaveArgument
        \/ SetMessage \/ PassOver
        \/ OpenFile \/ ReadLine \/ EndOfFile \/ Return

StartSpec == StartInit /\ GivenOK /\ [][StartNext]_startVars

-----------------------------------------------------------------------------
(***************************************************************************)
(* Properties.                                                             *)
(***************************************************************************)

(* Every variable keeps its type; a call's record is one that exists.      *)
StartTypeOK ==
    /\ GivenOK
    /\ status \in {"args", "config", "done", "exit", "crash"}
    /\ arg \in 1..(Len(argv) + 2)
    /\ \A f \in ToSet(stack) :
          /\ f.newQ \in 0..Len(records)
          /\ f.arg \in 1..(Len(f.words) + 2) /\ f.argParam \in Nat
          /\ f.reading \in BOOLEAN /\ f.line \in 1..(Len(lines) + 1)
    /\ \A q \in ToSet(records) :
          /\ q.first \in Nat \cup {NoTime} /\ q.last \in Nat \cup {NoTime}
          /\ q.period \in Nat /\ q.nmea \in 0..2 /\ q.send \in BOOLEAN
          /\ q.message \in Seq(0..255)
    /\ stray \in BOOLEAN

LineOf(q) == lines[q.from.line].words

(* The word behind a -j is its argument whatever it is, another -j too: of *)
(* several in a row every second one is an option.                         *)
JRun(words, i, n) ==
    /\ \A j \in (i - n)..(i - 1) : words[j][1] = "-j"
    /\ i - n > 1 => words[i - n - 1][1] # "-j"

BehindJ(words, i) == \E n \in 0..(i - 1) : n % 2 = 1 /\ JRun(words, i, n)

(* The words of a line that are a record's own: from its device option to  *)
(* the next one.                                                           *)
Devices(words) ==
    {i \in DOMAIN words : words[i][1] \in DeviceOptions /\ ~BehindJ(words, i)}

OwnOf(words, d) ==
    {i \in DOMAIN words : i >= d /\ \A j \in Devices(words) : j > d => i < j}

Own(q) == OwnOf(LineOf(q), q.from.arg)

(* A word that is neither an option nor one's argument.                    *)
WithArgument == DeviceOptions \cup ValueOptions \cup {"-F"}

Positional(words, i) ==
    /\ ~IsOption(words[i]) /\ ~BehindJ(words, i)
    /\ i > 1 => words[i - 1][1] \notin WithArgument \/ BehindJ(words, i - 1)

MessagePlaces(words) == {i \in DOMAIN words : /\ Positional(words, i)
                                          /\ \A j \in 1..(i - 1) : ~Positional(words, j)}

PlacesOf(words, d, o) ==
    {i \in OwnOf(words, d) : words[i][1] = o /\ ~BehindJ(words, i)}

Places(q, o) == PlacesOf(LineOf(q), q.from.arg, o)

SettingAt(words, S, o) ==
    IF S = {} THEN <<>>
    ELSE words[Max(S) + IF o \in FlagOptions THEN 0 ELSE 1]

SetTo(q, o) == SettingAt(LineOf(q), Places(q, o), o)

(* When the command line is read there is a record for every device, in    *)
(* the order of the lines, and each has the settings that stand between    *)
(* its device and the next one of the same line, whatever files are read   *)
(* in between; the first word of a line that is no option is the message   *)
(* of the record it stands behind, and no other word is sent.              *)
RecordsAsGiven ==
    status = "done" /\ ~stray =>
        /\ {q.from : q \in ToSet(records)} =
              UNION {{[line |-> n, arg |-> i] : i \in Devices(lines[n].words)} :
                        n \in DOMAIN lines}
        /\ \A q \in ToSet(records) :
              /\ \A o \in SetOptions : q.set[o] = SetTo(q, o)
              /\ LET mine == MessagePlaces(LineOf(q)) \cap Own(q)
                 IN  IF mine = {} THEN q.text = <<>> /\ q.send = (q.device[1] = "-x")
                     ELSE q.send /\ \A i \in mine : q.text = LineOf(q)[i]

(* What is read for the last word of a line: one that nothing closes has   *)
(* as many of its last characters again as it had escapes.                 *)
ReadAs(row, k) ==
    LET w    == row.words[k]
        text == Written(w.word, w.quoted)
        e    == Len(text) - Len(w.word)
    IN  IF k < Len(row.words) \/ row.closed \/ w.quoted THEN w.word
        ELSE w.word \o SubSeq(text, Len(text) - e + 1, Len(text))

(* An empty word ends the line; a tab in front of a bare one is no part of *)
(* it.                                                                     *)
Writable(w) == w.word # <<>> /\ (w.quoted \/ w.word[1] # "\t")

(* Every such word can be put into a command file, in quotes or bare, and  *)
(* is read back as it was meant, blanks, quotes and backslashes included;  *)
(* but for a bare word that ends the line and has escapes.                 *)
WordsReadBack ==
    \A n \in 2..Len(lines) :
        (\A w \in ToSet(lines[n].row.words) : Writable(w)) =>
            lines[n].words = [k \in DOMAIN lines[n].row.words |-> ReadAs(lines[n].row, k)]

Plain(text) == \A i \in DOMAIN text : text[i] \notin {Backslash, "*", "%"}

(* Of the mode options between a device and place i the last one is -m.    *)
InSumMode(words, d, i) ==
    \E j \in PlacesOf(words, d, "-m") :
        j < i /\ \A k \in PlacesOf(words, d, "-mx") : k < j \/ k >= i

SumMode(q) ==
    \E i \in MessagePlaces(LineOf(q)) : InSumMode(LineOf(q), q.from.arg, i)

(* A sentence without a time that goes out in the -m mode is right by the  *)
(* program's own check of a reply, and not with any such change of it.     *)
SumsAccepted ==
    status = "done" /\ ~stray => \A q \in ToSet(records) :
        LET out == Sent(q.message)
        IN  Plain(q.text) /\ SumMode(q) /\ Find(out, Dollar) <= Len(out) =>
                /\ NmeaCheck(out) = 0
                /\ \A i \in DOMAIN out, b \in 1..255 :
                      b # out[i] /\ Noticed(out, i, b) => NmeaCheck([out EXCEPT ![i] = b]) = 1

(* The -m option and "can be strftime chars" together: a sentence with a   *)
(* time in it is right by the check too when it goes out.                  *)
TimedSumsAccepted ==
    status = "done" /\ ~stray => \A q \in ToSet(records) :
        LET out == Sent(q.message)
        IN  SumMode(q) /\ "*" \notin ToSet(q.text) /\ Find(out, Dollar) <= Len(out) =>
                NmeaCheck(out) = 0

Reads(st, g) ==
    /\ g.hrs  < 0 \/ st.wHour = g.hrs
    /\ g.mins < 0 \/ st.wMinute = g.mins
    /\ st.wSecond = g.secs

(* An absolute time is a whole second and never before now, but for one:   *)
(* if the clock shows what is given, it is the second that has begun.  It  *)
(* is the next second at which the clock reads so, unless the minute or    *)
(* the second given is behind the clock's, and only then, on the last day  *)
(* or with a number too large can it be no time at all.                    *)
NextTime(word, t) ==
    LET g      == Given(TimeFields(word))
        now    == ToSysTime(timeNow)
        second == Seconds(timeNow)
        behind == g.secs < now.wSecond \/ (g.mins >= 0 /\ g.mins < now.wMinute)
        ahead  == {s \in second..(second + SecsPerDay) : Reads(ToSysTime(s * MsPerSec), g)}
    IN  IF t = NoTime
        THEN behind \/ now.wDay = LastDay \/ ahead = {}
        ELSE /\ t % MsPerSec = 0
             /\ timeNow <= t \/ (t = second * MsPerSec /\ Reads(now, g))
             /\ behind \/ t = MsPerSec * Min(ahead)

TimeNotPast ==
    \A q \in ToSet(records) :
        /\ q.set["-f"] # <<>> /\ ~PlusSign(q.set["-f"]) => NextTime(q.set["-f"], q.first)
        /\ q.set["-l"] # <<>> /\ ~PlusSign(q.set["-l"]) => NextTime(q.set["-l"], q.last)
=============================================================================
