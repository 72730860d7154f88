----------------------------- MODULE QueryRead -----------------------------
(***************************************************************************)
(* QueryRead.cpp: the log is read line by line, and whenever a line holds  *)
(* the key that was asked for, and at the end, the samples of the last     *)
(* nsamples seconds are averaged for every kind of line so far.            *)
(***************************************************************************)
EXTENDS Integers, SequencesExt

CONSTANTS Rows,         \* bound: the lines of a log
          MaxRows,      \* bound: how many a log has
          KEYS, PARAMS,
          nsamples,     \* an argument of the program
          Leftovers     \* bound: what fresh memory may hold

(* A line: its time stamp, the device and message that make its key, the   *)
(* values of its reply, and whether the key asked for is in it.            *)
BadTime == -1
NoKey   == "none"
NoValue == -1

ASSUME RowsAssumption ==
    /\ KEYS \in Nat /\ PARAMS \in Nat /\ nsamples \in Int /\ Leftovers \subseteq Int
    /\ \A r \in Rows : /\ DOMAIN r = {"time", "key", "vals", "mark"}
                       /\ r.time \in Nat \cup {BadTime}
                       /\ r.vals \in Seq(Int) /\ Len(r.vals) <= PARAMS

VARIABLES rpc,
          sampleTime, base, samples,    \* readSamples is base + Len(samples)
          list,
          rows, report                  \* history: the lines read, the last report

readVars == <<rpc, sampleTime, base, samples, list, rows, report>>

NoReport == <<>>

(* readSamples is not set: the first sample goes to any place of the array *)
(* or outside of it.                                                       *)
ReadInit ==
    /\ rpc = "line" /\ sampleTime = 0
    /\ base \in {-1, 0, 1}
    /\ samples = <<>> /\ list = <<>>
    /\ rows = <<>> /\ report = NoReport

-----------------------------------------------------------------------------
Zero == [k \in 1..PARAMS |-> 0]

(* A value that is no number leaves its place as it was, yet a later one   *)
(* does not move up; only the first place was cleared.                     *)
Sample(n, row, time, leftover) ==
    [key |-> n, t |-> time,
     nParams |-> Cardinality({k \in DOMAIN row.vals : row.vals[k] # NoValue}),
     params |-> [k \in 1..PARAMS |->
                    IF k <= Len(row.vals) /\ row.vals[k] # NoValue THEN row.vals[k]
                    ELSE IF k = 1 THEN 0 ELSE leftover]]

KeyIndex(key) == Min({n \in DOMAIN list : list[n].key = key} \cup {Len(list) + 1})

(* The samples that count: back from the last one to the first too old.    *)
WindowFrom(all, startTime) ==
    {i \in DOMAIN all : \A j \in i..Len(all) : all[j].t > startTime}

(* With all of them young enough the search goes on in front of the first, *)
(* where nothing was stored: the time is 0 and there is no key.            *)
RunsOut(all, startTime) ==
    base > 0 /\ startTime < 0 /\ WindowFrom(all, startTime) = DOMAIN all

ClearStatsNot(keys) == keys                  \* mutant: the sums are not cleared
ClearStats(keys) ==
    [n \in DOMAIN keys |-> [keys[n] EXCEPT !.sCount = 0, !.average = Zero, !.stdev = Zero]]

(* First pass: counts and sums; the oldest sample sets how many values are *)
(* printed.                                                                *)
Tallied(entry, s) ==
    [entry EXCEPT !.nParams = s.nParams, !.sCount = @ + 1,
                  !.average = [k \in 1..PARAMS |-> @[k] + s.params[k]]]

(* Second pass: the squared deviations, here count*count times too large,  *)
(* as the average is still the sum.                                        *)
Square(x) == x * x

Widened(entry, s) ==
    [entry EXCEPT !.stdev = [k \in 1..PARAMS |->
        @[k] + Square(entry.sCount * s.params[k] - entry.average[k])]]

Counted(l, s) == [l EXCEPT ![s.key] = Tallied(@, s)]
Spread(l, s)  == [l EXCEPT ![s.key] = Widened(@, s)]

Averaged(keys, newest) == FoldLeft(Counted, keys, newest)
Deviated(keys, newest) == FoldLeft(Spread, keys, newest)

ReportOf(keys, all, startTime) ==
    LET window == WindowFrom(all, startTime)
        newest == Reverse(SubSeq(all, Len(all) - Cardinality(window) + 1, Len(all)))
    IN  Deviated(Averaged(ClearStats(keys), newest), newest)

(* The statistics at the end of a line that holds the key, and at the end. *)
ShowStats(wanted, keys, all) ==
    IF ~wanted THEN list' = keys /\ report' = NoReport /\ rpc' = "line"
    ELSE IF RunsOut(all, sampleTime' - nsamples)
    THEN rpc' = "crash" /\ list' = keys /\ report' = NoReport
    ELSE /\ list' = ReportOf(keys, all, sampleTime' - nsamples)
         /\ report' = list'
         /\ rpc' = "line"

TimeStamp(row) == sampleTime' = IF row.time = BadTime THEN sampleTime ELSE row.time

(* A line without a reply, or of a key that finds no room, is not stored.  *)
Dropped(row) ==
    row.key = NoKey \/ (KeyIndex(row.key) > Len(list) /\ Len(list) = KEYS)

DropRow(row) ==
    /\ rpc = "line" /\ Dropped(row)
    /\ TimeStamp(row)
    /\ ShowStats(row.mark, list, samples)
    /\ rows' = Append(rows, row)
    /\ UNCHANGED <<base, samples>>

NewKey(key) == [key |-> key, nParams |-> 0, sCount |-> 0, average |-> Zero, stdev |-> Zero]

StoreRow(row) ==
    /\ rpc = "line" /\ ~Dropped(row)
    /\ TimeStamp(row)
    /\ rows' = Append(rows, row)
    /\ UNCHANGED base
    /\ IF base + Len(samples) < 0
       THEN rpc' = "crash" /\ UNCHANGED <<samples, list, report>>
       ELSE \E leftover \in Leftovers :
               /\ samples' = Append(samples, Sample(KeyIndex(row.key), row, sampleTime', leftover))
               /\ ShowStats(row.mark,
                            IF KeyIndex(row.key) <= Len(list) THEN list
                            ELSE Append(list, NewKey(row.key)),
                            samples')

(* An empty line ends the program like the end of the input, but the end   *)
(* counts as a line with the key.                                          *)
EmptyLine ==
    /\ rpc = "line"
    /\ rpc' = "end" /\ report' = NoReport
    /\ UNCHANGED <<sampleTime, base, samples, list, rows>>

EndOfInput ==
    /\ rpc = "line"
    /\ UNCHANGED <<sampleTime, base, samples, rows>>
    /\ IF RunsOut(samples, sampleTime - nsamples)
       THEN rpc' = "crash" /\ UNCHANGED <<list, report>>
       ELSE /\ list' = ReportOf(list, samples, sampleTime - nsamples)
            /\ report' = list'
            /\ rpc' = "end"

ReadNext ==
    \/ /\ Len(rows) < MaxRows
       /\ \E row \in Rows : DropRow(row) \/ StoreRow(row)
    \/ EmptyLine \/ EndOfInput

ReadSpec == ReadInit /\ [][ReadNext]_readVars

-----------------------------------------------------------------------------
(***************************************************************************)
(* Property: what a report says, worked out from the lines of the log.     *)
(***************************************************************************)

(* The time of a line is its own, or that of the last line that had one.   *)
TimeAt(i) ==
    LET good == {j \in 1..i : rows[j].time # BadTime}
    IN  IF good = {} THEN 0 ELSE rows[Max(good)].time

(* The keys that found room: the first KEYS of the log.                    *)
FirstAt(key) == Min({i \in DOMAIN rows : rows[i].key = key})
KeysSeen == {r.key : r \in ToSet(rows)} \ {NoKey}
Listed == {key \in KeysSeen :
              Cardinality({other \in KeysSeen : FirstAt(other) < FirstAt(key)}) < KEYS}

Young(key) ==
    {i \in DOMAIN rows :
        /\ rows[i].key = key
        /\ \A j \in i..Len(rows) : rows[j].key \in Listed =>
              TimeAt(j) > TimeAt(Len(rows)) - nsamples}

NumberedAt(i, k) == k <= Len(rows[i].vals) /\ rows[i].vals[k] # NoValue

(* Every report counts, for each of the keys that found room, its lines of *)
(* the last nsamples seconds, those with no older line of a listed key     *)
(* behind them, and for each place at which all of these have a number     *)
(* gives their sum and their squared deviation; nothing of an earlier      *)
(* report, another key or an older line gets into it.                      *)
WindowStats ==
    report # NoReport =>
        /\ {r.key : r \in ToSet(report)} = Listed
        /\ \A r \in ToSet(report) :
              LET mine == Young(r.key)
                  n    == Cardinality(mine)
              IN  /\ r.sCount = n
                  /\ \A k \in 1..PARAMS :
                        (\A i \in mine : NumberedAt(i, k)) =>
                            LET S == SumFunction([i \in mine |-> rows[i].vals[k]])
                                Q == SumFunction([i \in mine |-> Square(rows[i].vals[k])])
                            IN  r.average[k] = S /\ r.stdev[k] = n * (n * Q - S * S)
=============================================================================
