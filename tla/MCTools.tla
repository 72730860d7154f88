------------------------------ MODULE MCTools ------------------------------
(***************************************************************************)
(* The programs that turn text into data, one in each behaviour: the start *)
(* of Query with a command line and the files it names, QueryRead with a   *)
(* log, and stats with a stream of lines.  They share no state.            *)
(***************************************************************************)
EXTENDS CommandLine, QueryRead, StatsBatches

LOCAL INSTANCE SequencesExt
LOCAL INSTANCE TLC

VARIABLE program

CONSTANT CommandLines   \* the command lines of a run: argv, files, timeNow

toolVars == <<program, startVars, readVars, statsVars>>

(* A program that is not run.                                              *)
NoStart == argv = <<>> /\ files = <<>> /\ timeNow = SecsPerDay * MsPerSec
NoRead  == base = 0
NoStats == input = [lines |-> <<>>, ended |-> TRUE]

Init ==
    /\ program \in {"query", "queryread", "stats"}
    /\ program # "query"     => NoStart
    /\ program # "queryread" => NoRead
    /\ program # "stats"     => NoStats
    /\ program = "query" =>
          \E c \in CommandLines : argv = c.argv /\ files = c.files /\ timeNow = c.timeNow
    /\ StartInit /\ ReadInit /\ StatsInit

Next ==
    \/ program = "query"     /\ StartNext /\ UNCHANGED <<program, readVars, statsVars>>
    \/ program = "queryread" /\ ReadNext  /\ UNCHANGED <<program, startVars, statsVars>>
    \/ program = "stats"     /\ StatsNext /\ UNCHANGED <<program, startVars, readVars>>

Spec == Init /\ [][Next]_toolVars

-----------------------------------------------------------------------------
(* The clock: days of three hours of three minutes of three seconds of two *)
(* milliseconds, and two days in the month.                                *)
Now == 60

W(s)     == <<s>>                            \* a word of one symbol
Bare(w)  == [word |-> w, quoted |-> FALSE]
Quoted(w) == [word |-> w, quoted |-> TRUE]
Row(ws)  == [words |-> [i \in DOMAIN ws |-> Bare(ws[i])], closed |-> TRUE]

Command(args, fs, now) == [argv |-> args, files |-> fs, timeNow |-> now]

(* Every command line of up to four of these, with a file of two records   *)
(* and a comment, one with a line of settings, and one that names a file.  *)
Group == {<<W("-d"), W("COM1")>>, <<W("-i"), W("host")>>, <<W("-r")>>,
          <<W("-n"), W("5")>>, <<W("-F"), W("f")>>, <<W("text")>>}

Files ==
    [f |-> <<Row(<<W("-a"), W("7"), W("text"), W("-r")>>), Row(<<>>),
             Row(<<W(";"), W("-r")>>), Row(<<W("-x"), W("host"), W("-n"), W("3")>>)>>,
     h |-> <<Row(<<W("-a"), W("7"), <<"\\", "j", "0">>>>), Row(<<W("-r"), W("text")>>)>>,
     k |-> <<Row(<<W("-d"), W("COM1"), W("-o"), W("text"), <<"-r", "a">>>>)>>,
     g |-> <<Row(<<W("-d"), W("COM1"), W("-F"), W("f"), W("-c")>>)>>]

Ordered == {Command(FlattenSeq(s), Files, Now) : s \in BoundedSeq(Group, 4)}

(* The ends of a command line, main()'s options, and arguments of -j.      *)
Special ==
    {Command(a, Files, Now) : a \in {
        <<W("-F"), W("g"), W("-r")>>, <<W("-d"), W("COM1"), W("-F"), W("lost")>>,
        <<W("-d")>>, <<W("-d"), W("COM1"), W("-n"), W("-r")>>,
        <<W("-t"), W("-o"), W("log"), W("-d"), W("COM1"), W("text")>>,
        <<W("-d"), W("COM1"), W("-or")>>, <<W("-o"), W("-d"), W("COM1")>>,
        <<W("-d"), W("COM1"), W("-?")>>, <<W("-b")>>, <<W("-z"), W("-d"), W("COM1")>>,
        <<W("-j"), W("text"), W("-d"), W("COM1"), <<"\\", "j", "0", "a">>>>,
        <<W("-j"), W("text"), W("-F"), W("h")>>,
        <<W("-d"), W("COM1"), W("-j"), W("-d"), W("text"), W("-r")>>,
        <<W("-d"), W("COM1"), W("-j"), W("-j"), W("-n"), W("5"), W("text")>>,
        <<W("-j"), W("-r"), W("-F"), W("k")>>,
        <<W("-d"), W("COM1"), <<"\\", "j", "1">>>>,
        <<W("-d"), W("COM1"), W("-m"), W("-mx"), <<"$", "a">>, W("-m")>>,
        <<W("-d"), W("COM1"), W("-mx"), W("-m"), <<"$", "a">>, W("-mx")>>}}

(* Words of up to three symbols, as the message of a line of a file.       *)
Symbol == {"a", " ", "\"", "\\", "\n", "\t"}

LastWords == {w \in BoundedSeq(Symbol, 3) : w # <<>> /\ w[1] # "-"}

InFiles ==
    {Command(<<W("-F"), W("f")>>,
             [f |-> <<[words |-> <<Bare(W("-d")), Bare(W("COM1")), [word |-> w, quoted |-> q],
                                   Bare(W("-r"))>>,
                       closed |-> FALSE],
                      [words |-> <<Bare(W("-r")), [word |-> w, quoted |-> q]>>, closed |-> c]>>],
             Now) : w \in LastWords, q \in BOOLEAN, c \in BOOLEAN}

(* Sentences of up to three symbols, in either mode, -m before or after,   *)
(* and a longer one: its sum is the position of its star.                  *)
Sentence == BoundedSeq({"$", "a", "b", "c", "*", "%"}, 3) \ {<<>>}

Longer == [i \in 1..16 |-> CASE i = 1 -> "$" [] i = 16 -> "d" [] OTHER -> "a"]

Nmea ==
    {Command(<<W("-d"), W("COM1"), W(m), w>>, <<>>, Now) : m \in {"-m", "-mx"}, w \in Sentence}
    \cup {Command(<<W("-d"), W("COM1"), w, W("-m")>>, <<>>, Now) : w \in Sentence}
    \cup {Command(<<W("-d"), W("COM1"), W("-m"), Longer>>, <<>>, Now)}

(* Times of one to three fields, and offsets.                              *)
Digit3 == {"0", "1", "2"}
Time == {<<s>> : s \in Digit3} \cup {<<m, ":", s>> : m \in Digit3, s \in Digit3}
            \cup {<<h, ":", m, ":", s>> : h \in Digit3, m \in Digit3, s \in Digit3}
            \cup {<<"+", "2">>, <<"3">>, <<"1", ":", "0", ":", "0", ":", "0">>}

Times ==
    {Command(<<W("-d"), W("COM1"), W(o), t>>, <<>>, now) :
        o \in {"-f", "-l"}, t \in Time, now \in Clock}
    \cup {Command(<<W("-d"), W("COM1"), W("-p"), t>>, <<>>, Now) : t \in Time}

(* Escapes of the message.                                                 *)
Escape ==
    {Command(<<W("-d"), W("COM1"), w>>, <<>>, Now) :
        w \in {<<"a", "\\", "n">>, <<"\\", "r", "\\", "n">>, <<"\\", "\\">>,
               <<"a", "\\", "x", "0", "D">>}}

MCCommandLines == Ordered \cup Special \cup InFiles \cup Nmea \cup Times \cup Escape

Coded  == "$" :> 36 @@ "*" :> 42 @@ "a" :> 97 @@ "b" :> 98 @@ "c" :> 200 @@ "d" :> 16
            @@ " " :> 32 @@ "%" :> 37 @@ "\"" :> 34
            @@ "\\" :> 92 @@ "\n" :> 10 @@ "text" :> 116 @@ "n" :> 110 @@ "r" :> 114
            @@ "x" :> 120 @@ "j" :> 106 @@ "0" :> 48 @@ "1" :> 49 @@ "D" :> 68
            @@ ";" :> 59 @@ "COM1" :> 67

MCSymbols == DOMAIN Coded \cup Options \cup {"\t", ":", "+", "2", "3", "5", "7", "lost",
                                             "host", "log", "f", "g", "h", "k"}

(* A sentence with a time in it.                                           *)
Timed == {Command(<<W("-d"), W("COM1"), W("-m"), <<"$", "%", "a">>>>, <<>>, Now)}

(* What the time is: a % that two of them stand for, and two digits.       *)
MCTimeText == [b \in 1..255 |-> IF b = Percent THEN <<Percent>> ELSE <<50, 52>>]

(* The other symbols are in no message of these command lines.             *)
MCCode == Coded @@ [c \in MCSymbols \cup {"\r"} |-> 46]

-----------------------------------------------------------------------------
Sampled(t, key, vals, mark) == [time |-> t, key |-> key, vals |-> vals, mark |-> mark]

MCRows ==
    {Sampled(t, key, vals, FALSE) : t \in 4..6, key \in {"A", "B"},
                                    vals \in {<<1>>, <<3, 2>>}}
    \cup {Sampled(5, "C", <<1>>, FALSE), Sampled(5, "A", <<NoValue, 4>>, FALSE),
          Sampled(BadTime, "A", <<2>>, FALSE), Sampled(6, NoKey, <<>>, TRUE),
          Sampled(6, "B", <<2, 1>>, TRUE)}

Stat(m, t, v) == [match |-> m, time |-> t, value |-> v]

MCStatLines == {Stat(TRUE, 5, 1), Stat(TRUE, 6, 2), Stat(TRUE, 7, NoColumn),
                Stat(FALSE, 8, 3), Stat(TRUE, NoStamp, 4)}
=============================================================================
