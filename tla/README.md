# Verification of QueryLog

QueryLog polls laboratory instruments over GPIB, serial ports, sockets and a
NIDAQ card, and logs what they answer. This directory holds TLA+ modules that
model its programs, TLC configurations that check them on small instances, and
proofs, checked by TLAPS, of what holds for every instance.

The Makefile builds for Windows (`WINDOWS=1`), and `IpPort.cpp` compiles there
only: where the source has two variants the Windows one is modelled.

## The system

| component | state it keeps | operations | talks to |
|---|---|---|---|
| record scheduling (`query.cpp`) | first, last, period, number, nextRuntime, srqReq | `thisRecord`, `finished` | main loop, its device's `dataAvaliable` |
| main loop (`main.cpp`) | `timeNow`, `cont`, `record`, the shared `ReadBuffer`, statistics | one pass over all records, `quit` | records, ports, log file |
| control handler (`main.cpp`) | `exitSig` | `CtrlHandler`, in a thread of its own | main loop |
| service requests (`main.cpp`, `gpibPort.cpp`) | the request bit of each instrument, `srqReq` | the polling loop, `portService` | GPIB bus |
| port life cycle (all ports) | handle, `Dev` | `portOpen`, `reOpen`, `portClose` | operating system |
| serial port | `tempBuffer`, `rxdChars`, EOS, timeout, pace | read, write, probe, break | UART |
| IP port | socket, the global `bytes`, `lastRx`, `rxBuf` | read, write, probe | network |
| GPIB port | handle, EOS, EOT, timeout | read, write, poll, clear | bus |
| command port | none on Windows | read and write that do nothing | - |
| NIDAQ port | the global task and `dataAv` | read, probe, the driver's callback | driver thread |
| option parser (`config`, `getParameter`) | the record under construction | one case per option | records, files |
| time parser (`timeStamp.cpp`) | none | `strToAbsTime`, formatting | clock |
| NMEA checksums (`nmea.cpp`, `config`) | none | check, append | records |
| log file (`main.cpp`, `common.cpp`) | `logStream`, last name | roll, print, flush | file system |
| live plotter (`watchPlot.java`) | current file and reader | directory events, read lines | log file |
| `QueryRead`, `stats` | sample windows | one pass over a log | standard input |
| `client`, `plot.java`, `WatchDir.java`, `protoPort.cpp` | - | test, chart, example, template | - |

What is hard here: one thread serves all records, so a slow read delays the
others and makes their decisions use an old time stamp; the control handler
runs in parallel with it from before the ports are open; instruments raise
requests while they are being polled, and a poll takes the request from the
instrument whether or not anyone acts on it; ports of the same device share
handles, all IP ports share one receive state, and all ports share one read
buffer; a socket blocks where the other ports time out; the log is flushed in
the middle of a line while another program reads it.

What makes each part correct: a record sends what `-n` says, at the slots
`-f` and `-p` say, inside `-f` and `-l`; a request is answered by every `-u`
record of the device; the program ends when nothing is left and when told to;
a logged reply is the reply of its record and of its pass; a handle used is a
handle open; a line of the log is read whole.

## Modules

- `QueryRecord` - the decisions of `query::thisRecord` and `query::finished` as
  operators on a record's settings and on `nextRuntime`, `number`, `srqReq`
  and the time. It has no variables, so that other modules may use it.
- `QueryLoop` - `main()` from the setting of the loop's flags to the exit.
  `pc` is the loop's position: `start`, `while` (its test), `service` (the
  polling loop), `decide` (`thisRecord` of the current record, or the end of
  the pass when `record` is past the last), `act` (what `recordAction` has
  left: clear, send, read), `recv` (inside `IpPort::portRead`), `quit`,
  `done`, and `killed` for the two `exit(-1)`. Actions that the loop takes
  without anyone else being able to notice are one step; between two of them
  the control handler, the clock and the devices step freely. Each device has
  a port class, and each class its own read and probe.
- `PollSchedule` - what is promised about the messages sent, with no loop, due
  times or arming: `Serve(r)` says when the next message of a record may go
  out, from its settings, the number already sent and the time alone.
  `QueryLoop` implements it (`ImplementsSchedule`) with `served <- sent` and
  `now <- timeNow`; everything else the loop does is a stutter there.
- `PortTable` - construction, opening, re-opening and closing of the ports.
  `handle` and `Dev` are the fields of the port objects, which no constructor
  sets, so `Init` gives them any contents; the handle that the system gives to
  record `h` is named `h`. `QueryLoop` begins where `StartLoop` leaves
  off and ends where `LeaveLoop` begins. A handle leads to the device it was
  opened for (`open`), and `closes` counts the calls that close it.
- `DataPath` - the way of the text from the devices to the log: one record at
  a time has its turn, writes or probes, reads, and what is then in
  `ReadBuffer` is logged. `pc` is `idle`, `write`, `probe`, `begin` (of
  `portRead`), `test` (its loop), `log`; `clear` lies between the two
  statements of the NIDAQ probe, `recv` and `copy` inside the IP port's loop. A
  character is known by its place among all that its device has produced, so
  that what becomes of each of them can be followed (`logged`, `lost`).
- `SerialPort`, `IpPort`, `NidaqPort`, `GpibPort` - what each class holds between
  device and `ReadBuffer`: the system's receive buffer and the `tempBuffer` of
  each record; the socket and the globals `rxBuf`, `bytes`, `lastRx`; the
  driver's queue, its thread and `dataAv`; the instrument's answer. One action
  per operation of the port, and the device's own.
- `PortData` - the four under one loop, with the devices, the network, the
  driver's thread and the clock stepping at any time.
- `LogFile` - the file of a pass (`-o`, `-or`), its roll, and the way of a line
  through the stdio buffer with the flush after a message and the one after a
  record. A file is the sequence of the pieces written to it.
- `WatchPlot` - `LogFile` beside `watchPlot.java`: the notices of the directory,
  the events of a key, the reader that takes a part of a line for a line at the
  end of the file, and `plot.read` with the chart's time stamps (`series`).
- `Words` (`getParameter`), `Message` (the escapes of a message, its check sum,
  what `strftime` makes of it when it is sent, `NmeaCheck` with what `sscanf`
  reads), `AbsTime` (`strToAbsTime`, to the millisecond) - operators, with no
  variables.
- `CommandLine` - `main`'s options and `config` with a stack of its calls, one
  step an argument. The history variable `lines` keeps the lines it was given.
- `QueryRead`, `StatsBatches` - the two programs that read a log: one step is a
  line of the log, or one `read` of the input.
- `MCQueryLoop`, `MCPortTable`, `MCPortData`, `MCWatchPlot`, `MCTools` - the
  instances. A configuration is chosen in `Init` and never changes, so one run
  covers several command lines. `MCTools` holds the three programs that turn
  text into data side by side; `program` says which of them a behaviour runs.
- `QueryLoopProofs`, `PortTableProofs`, `PortDataProofs`, `WatchPlotProofs`,
  `CommandLineProofs`, `ToolsProofs` - the proofs. `SequenceLemmas` holds what
  they need to know of `FlattenSeq`, of folds, of rising sequences and of cuts
  of a sequence; `TextProofs` what `Words`, `Message` and `AbsTime` compute.

Abstractions. Text is its origin: `rxFrom` is the record whose device filled
`ReadBuffer`, 0 when the buffer is empty. A read may return text or none, in
time or not, as its port class allows. Formatting, headers, the time stamp's
text and the pacing of characters change none of the state that is kept; the
log has modules of its own. `portWrite`'s result is ignored by `main()`. The statistics counters
stop at `MaxCount` and the clock at `MaxTime`; these are the only bounds.
A console event is one that `CtrlHandler` handles or one that it does not (its
`default`, as for Ctrl-Break): the system then ends the process.
The character level lies below `QueryLoop`: there a read is one step with any
of the outcomes that `PortData` shows in detail. An unanswered serial poll leaves `portService` testing an unwritten byte: the
model takes either answer. The clock does not go back (see the hazards). Of the
settings a port writes to its device while it opens it only the EOS character
of a GPIB handle is kept, and the poll there is left out, as its effect is one
of `QueryLoop`'s initial states. In `PortTable` a NIDAQ task that a second
constructor overwrites before the port is opened is not counted as a handle. The
NIDAQ driver's queue has no limit.

In `SerialPort` the message goes out in the step that purges the receive
buffer: what arrives while its characters are sent arrives after that step.
In `LogFile` the names that `strftime` gives are numbers that never go down,
the lines printed between two flushes are pieces, and one reply may be longer
than stdio can hold back; no file is there beforehand. A line's stamp is that of
its pass, and two passes may begin in one millisecond (`sameTime`); the clock does
not go back. There is no comma in a header, a message or a reply, so a line that
sends has six fields when it is whole; its texts are numbers or they are not. In
`WatchPlot` the system merges a notice with an equal one before it, and may lose
notices once (`Overflow`); that the chart drops values a day old is left out. The
second of two values with one stamp is an exception of the chart's `add`, and ends
the plotter as the index does, for neither is among those it catches. The lines of
`CommandLine` are sequences of words and a word is a sequence of symbols, each a
character that the code looks at or a run of those that it does not; a setting
keeps its word, and only times, `-m` and the message are worked out. In
`AbsTime` the day, the hour, the minute and the second may have any length, and a
conversion out of range gives `NoTime`; `Clock` is what the clock may show. In
`Message` the C library's part is `HexAt`, what `sscanf` reads with `%x` (blanks, a
sign and `0x` go before the digits, and without one the variable keeps its value,
also behind `0x`), and `TimeText`, what `strftime` puts for `%` and a character:
any bytes, which fit into the buffer.
The characters that `getParameter` looks for have bytes, as all others do
(`SymbolsAssumption`). `QueryRead` counts in integers: the
average is its sum and the deviation is `sCount^2` times too large. What the
memory holds in an array index or a record pointer that nobody set is chosen
freely (`base`, `UseUnset`); accesses that cannot go on end in `crash`.

## Runs

| run | configurations | shows |
|---|---|---|
| `loop_safe` | seven pairs of records: a shared serial port with `-l` and a listener; an endless sender beside an NMEA poller; two `-u` records; a `-u` record beside a timed one; sockets; the command port beside a negative count; clear beside NIDAQ | the safety properties below |
| `loop_live` | three pairs without sockets | the liveness properties |
| `loop_command` | serial beside command port with `-r` | violation: the reply of the other record is logged |
| `loop_signal` | two endless records | violation: a Ctrl-C during start-up is lost |
| `loop_count` | two listeners with `-n` | violation: the count is used up without a message |
| `ports_safe` | all 216 assignments of three records to six devices | the safety of the port table |
| `ports_socket` | a connection shared by the first and the third record | violation: the second one has no handle |
| `data_safe` | ten pairs of records on one device or two: poller and listener, two listeners, an empty message, TCP beside UDP, the NIDAQ channel, an instrument with and without EOS | where every character goes, and that reads end |
| `data_timeout` | a serial poller beside a listener on a connection | violation: a silent socket holds all records up |
| `log_safe` | three lines, with numbers or words, two of them in one millisecond or not, three names of which one may be refused, `-o` and `-or`, two value positions | the log is whole and the plotter reads all of it |
| `text_safe` | 1555 command lines of up to four parts with nested files, words of up to three symbols, messages with escapes, NMEA sentences and every change of one byte, times at 108 moments of the clock; logs of three lines; streams of four lines | what the text is made into |
| `text_time` | a sentence with `%` in the `-m` mode | violation: the sum that goes out is that of the text before the time was put in |

Safety: `BudgetKept` (each sent message is counted once, never more than
`-n`), `OnGrid` (the k-th message belongs to slot `first + (k-1)*period`),
`NeverEarly`, `InsideWindow`, `SrqAgree`, `CompleteAtQuit` (nothing is left
undone when the program ends by itself), `ReportAddsUp`, the action property
`ReplyIsOwn`, and the refinement `ImplementsSchedule`. Of the port table:
`OwnHandle` (in the loop every port works with an open handle of its own
device; re-opened sockets excepted, see `ports_socket`), `OpenedOnce`,
`ClosedOnce`, `AllClosed`. Liveness: `SignalStops`, `DueIsServed`, `RequestIsServed`,
`SpentStops`.

Of the data path: `Conserved` (each character is logged once, in order, or still
to come, or given up, whichever record and buffer it went through),
`NothingLost` (only a message sent on the same serial line makes the program
give up what was received), `OneReply`, `FreshReply`, `NothingHeldBack`,
`SampleWaits`, and the liveness property `ReadEnds`. Of the log: `LogIsWhole`,
`TailComplete`, `CutsAtFlushes`, `PlotterSurvives` (what ends the plotter is in the
lines themselves: it never brings a line's value twice, whatever notices are
merged or lost) and `LinesAreRead` (a line written while the plotter watches comes
to be read, also the last one before the logger falls silent, unless an exception
has ended the plotter or a notice was lost). Of the text: `RecordsAsGiven` (options belong to the
device before them on the same line, whatever files are read in between),
`WordsReadBack`, `SumsAccepted` (a sentence without a time in it passes `NmeaCheck`
when it goes out, and not with any change of one byte that `Noticed` names),
`TimeNotPast`, `WindowStats`, `BatchesInOrder`. Each of these is worked out in another way than the code
does it: from the line, the log or the input as a whole.

Where the code's behaviour is the weaker one, the property says so: a listener's
first character is not compared with EOS (`OneReply`); the last bare word of a
line that has escapes keeps some of its old end (`WordsReadBack`); an absolute
time may be an hour off, or none, when its minute or second is behind the
clock's, and the second that has begun is taken when it is the one given, so that
the time is up to 999 ms before the clock's (`TimeNotPast`); a line with exactly as
many fields as the value position ends the plotter, and so do two lines of one
pass with a number each there (`PlotterSurvives`); without a record the outcome of
an option is open (`RecordsAsGiven`). Three more have no run: `\xHH` puts its
second digit behind the byte (`main.cpp:537`; `HexByte`, `Unescape`), a serial poll
that fails may give a record the request of another instrument (`PollFails`), and
a record decides by the stamp of its pass, so that behind a slow one it may run
after its last time by the clock (`InsideWindow` is stated by the stamp).

`Noticed`, of `SumsAccepted`, leaves out what `NmeaCheck` lets pass: a star put into the text, which moves the sum; a blank, a sign or another
byte in place of a sum's leading zero (`*05` and `* 5` are one number); the case of
a digit; and, where no digit is left to read, a sum that happens to be the position
of the star, as `sscanf` then leaves the counter of the loop before it in place. Of
a byte put over the CR nothing is claimed for sums of one digit.

Bounds. Two records are enough for a shared device, for one record delaying the
other, and for one ending before the other; every quantified property relates
at most two records. Five ticks let a record with period 2 be late by more than
a period and catch up, and let `-l` go by; counters up to 3 exceed every `-n`
of the instances. Three records are the fewest of which two share a device and
are not neighbours; the port table has no other bound. Three characters a device
and a receive buffer of two make a segment fit, fill the buffer, and exceed it;
two of them can be a late reply and its successor. Three lines and three names
let the plotter switch twice, once past a name that could not be opened. In the
text run a minute has three seconds, an hour three minutes, a day three hours and
the month two days, and a second two milliseconds, so that the clock's 108 moments
meet every order of the fields with the time given, on the second and after it;
`SumsAccepted` tries all 255 bytes at every place of a sentence, the sentences
reach bytes above 127, and one of 16 bytes has the position of its star for its
sum. The two value positions are that of no value (the name `Rx`) and that of a
reply's; with two stamps and two positions a line with a stamp that is there
already is plotted, passed over and read in two parts. Two keys, two
values and a window of two seconds in `QueryRead` let a third key find no room
and a sample leave the window; batches of two with pieces of up to four
characters cut lines and batches at every place.

Deadlock is not checked in `data_safe` and `data_timeout`, where the program
may wait for ever in `recvfrom`, and in `text_safe` and `text_time`, where
the programs end.

Fairness. `WF_vars(Program)`: the operating system runs the main thread
whenever it is not blocked; `WF_vars(Tick)`: time passes. Nothing is assumed of
instruments, the network or the user. In the liveness run `PollMayFail` is
FALSE, since a poll that always fails never delivers its request, and there is
no socket, since `recvfrom` on a blocking socket may wait for ever. In
`PortData` the main thread is fair and the timeout of a read passes
(`WF_vars(TimeoutPasses)`); devices owe nothing. In `WatchPlot` only the plotter
is fair (`WF_vars(PlotStep)`): it runs whenever a notice or text waits, while
the logger may stop at any point.

## Proofs

`QueryLoopProofs` proves for any number of records, any set of configurations
and any bounds, from the named assumptions on the constants alone:

- `TypeCorrect`: `TypeOK`, together with `LoopOK`, which ties `pc` to the
  current record and its remaining actions. `TypeOK` alone is not inductive: a
  step of the record loop reads `conf[record]`, and only `LoopOK` says that
  `record` is one of the records there.
- `BudgetIsKept` (`BudgetKept`), `GridIsKept` (`OnGrid`), `WindowIsKept`
  (`InsideWindow`), `NothingEarly` (`NeverEarly`), `EndIsComplete`
  (`CompleteAtQuit`), `RequestsAgree` (`SrqAgree`), `ReportsAddUp`
  (`ReportAddsUp`): the safety invariants of the run `loop_safe`.
  `StepKinds` first sorts all steps: four kinds change what a record may do or
  has done, all others are calm. `DecideIsDecision` states what a decision
  stores and grants. The schedule needs `ScheduleInv`: the stamp of a pass is
  never ahead of the clock and never goes back (`TimeStep`), a record that does
  not wait for requests is armed only after its first time, and only `-u`
  records ever have a request. `EndIsComplete` combines the count with
  `CompletionInv`, that at the loop's exit no record is active.

- `RepliesAreOwn`: the action property `ReplyIsOwn`, under `NoCommandReply`: no
  configuration polls a program's command port for an answer. The hypothesis is
  the exact boundary: `loop_command` breaks the property with one such record,
  because that port's read leaves `ReadBuffer` alone.

The module ends with `ScheduleImplemented`, that the loop implements
`PollSchedule`. The four invariants above are what the step that sends needs:
the count gives `InBudget`, the window `InTime`, and the slot follows because
`nextRuntime` is on the grid (one period beyond the message granted) and less
than a period ahead of the pass. Every other step leaves `conf` and `sent`
alone and moves `timeNow` on or not at all.

`PortTableProofs` proves `PortTypeCorrect`, `HandlesAreOwn`,
`DevicesOpenedOnce`, `HandlesClosedOnce` and `QuitClosesAll`, for any number of records and any
assignment of devices, from one invariant, `PortInv`: which record or task an
open handle belongs to (`OpenOf`), what the open loop has achieved for the
records it has passed (`ReadyOf`), what `quit` has still to find for those it
has not (`LeftOf`), and that each open handle still has a record whose turn
will close it (`Closer`). The NIDAQ driver's refusal to add a channel to a
running task is an assumption about the driver, stated in `OpenTask`.

`PortDataProofs` proves, for any records, devices, configurations and size of
`rxBuf`, five properties of the data path. They share `Base`: which port classes
and records a place of the loop is for (`PlaceInv`), the types of what is held
(`Typed`), and that a probed character is in `tempBuffer` only from the probe to
the read of the same turn (`TempInv`). `NothingHeldBackHolds` follows from it.
The others add one invariant each:

- `SampleWaitsHolds`: the driver's queue holds at least as many samples as are
  owed (`Owed`): one for each pending callback, one for the flag, one for a read
  that was told of a sample. A callback lost between the test of `dataAv` and its
  reset makes the queue longer than that, never shorter. It rests on
  `TaskAssumption`, that a configuration has one NIDAQ device, as the driver
  refuses a second.
- `FreshReplyHolds`: between the purge and the log, the line and `ReadBuffer` hold
  only characters with numbers above `asked` (`FreshInv`).
- `OneReplyHolds`: what was read so far has no EOS character, or only its last is
  one, not counting the character of a listener's probe (`ReplyInv`).
- `NothingLostHolds`: no segment is empty and `rxBuf` is empty when `recvfrom`
  returns, so something of every segment is stored; only a message on the same
  line makes a serial port throw text away (`LossInv`).

Its second part proves `DataTypes`, and `ConservedHolds` for the same
parameters. The invariant `Conserved` is not inductive, since it forgets who
holds a character: a probed one is with one record only, the IP port's globals
belong to the record that reads, and a listener's read leaves the others'
buffers alone. With `PlaceInv`, `TempInv` and the types each step is one of a few
moves on the text of one device: its end grows (`arrived`), its parts change
hands, a part goes (`lost`), or nothing moves; each keeps the text rising and its
members what they should be (`Rising`, `Members`, `RisingConcat`, `RisingCut`).

`WatchPlotProofs` proves, for any directory of names, shapes of the lines,
refused openings and value positions:

- `LogHolds`: `LogIsWhole`, from `FileInv`: file and stdio buffer together are the
  lines of the passes of that name and a first part of the current one (`Pending`
  says how much of it). `NameInv` says where the names stand between two passes.
- `PlotterTypes`: `LogTypeOK` with `ReaderInv`. That the reader is never past the
  end needs that files only grow (`FilesGrow`).
- `CutsHold`: every file is laid out in whole lines and ends where the logger
  flushed (`PlaceInv`, `FlushInv`), so the place where the reader stopped is one
  (`StopInv`), and stays one while the logger writes on.
- `DeathHolds`: `PlotterSurvives`. That no line's value comes twice needs more than
  the cuts, since it holds also when notices are lost: a file the plotter opens
  is newer than the one it had, as what is created is newer than all that was
  named before (`UpwardInv`), and in a file the lines are in their order, the
  beginning of each behind all of the earlier ones (`OrderInv`). So a stamp in the
  chart is that of a line that was passed (`SeriesInv`), and a value refused for
  its stamp belongs to another line (`DeadInv`).
- `TailHolds`: `TailComplete`, by two invariants that hold until a notice is lost.
  `NoticeInv`: the notices that wait, those of the polled key before the newer
  ones, are in the order of the files, tell of every file after the one that is
  read, and unread text of that file is told of first (a "modify" is in front).
  `FollowedInv`: what was read is all text of the files followed before and the
  first `at` pieces of the current one, and no file lies between. Merging equal
  notices is why the first must speak of the last notice: a write that meets an
  equal notice is told of by that one.

`CommandLineProofs` proves `GivenHold` (`RecordsAsGiven`), for any command line,
any files and any nesting of them. `RecordsAsGiven` speaks of the end, when every
line was read; `Reading` says it of the lines read so far. With each line goes
the place up to which it was read (`pos`): a call of `config` that still runs is
at that place of its line (`FrameOK`), a line without one is read to its end
(`LinesOK`). `RecRead` gives a record the settings of its line before that place
and after its device, up to the next device, and `LineRead` gives each such
device one record; `Current` says that the record a call works on is the one of
the last device before the place. A call goes into another line by `Enters`,
which opens a line read up to its first word, and comes back by `Leaves`, so the
records of the lines above are as they were (`LineKept`). Which words are options
is decided by what is in front of them, since the word behind `-j` is none: every
call stands at a word that no `-j` swallows (`Fresh`), and `GoesFresh` follows it
over the words an option takes. `WordsOfLine` gives the calls what they need of
`getParameter`: no word it cuts from a line of a file is empty, by induction from
the line's end (`DownInduction`). As in the property, nothing is claimed once an
option was met without a record.

`CommandLineProofs` goes on with the other three invariants of `CommandLine` and
its types, on what `TextProofs` says of the operators below:

- `StartTypesHold`: `StartTypeOK`, by `StartTyped`, which types each call on the
  stack, each record and each line. A message is at most bytes because an escape
  gives one (`UnescapeType`: `\xHH` by `HexByteIs`, `\jN` by the arguments' type)
  and a sum is a remainder or an exclusive or of bytes (`SummedType`, `XorByte`).
- `TimesHold`: `TimeNotPast`, for a clock of any number of milliseconds a second.
  It follows `strToAbsTime` field by field: each
  adjustment takes the next hour, then minute, then second that is not behind
  the clock's (`HourMade`, `MinuteMade`, `DaySet`). `MadeNext` then says that a
  time which reads as it was given, and lies between the clock and the one made,
  is that one, as times and their fields have the same order (`TimesInOrder`).
- `SumsHold`: `SumsAccepted`. Which of `-m` and `-mx` counted for a message is the
  last one in front of it on its line, up to the next device; `SumRead` carries
  that through `config` for the part of each line that was read. `SummedIs`
  gives the form of the bytes sent, and `SentAsIs` that they go out as they are
  when there is no `%` in them. `FoundAt` and `HexAtGoes` say what `NmeaCheck` finds
  in them, and `SentenceChecked` puts both together: the exclusive or of the text
  is the number behind the star, and a changed byte of the text changes it
  (`TextChanged`, `XorChanges`), because `Xor` with one byte is one-to-one
  (`XorTellsApart`, proved from the eight places of a byte). For a changed byte
  behind the star `BehindStar` goes over what `sscanf` can then meet: digits and
  other bytes in the three places, blanks and signs in front, no digit at all.
  `SumChanged` says that none of the numbers it reads is the sum, nor, where it
  reads none, the position of the star (`Noticed`).
- `WordsHold`: `WordsReadBack`. A line is laid out as words with their escapes and
  single blanks (`FlattenPlaced`, `LinePlaced`). `ScanWritten` goes back from the
  end of a word: from the place where the escape of its i-th symbol begins, `Scan`
  gives the word's symbols from the i-th on; `ParameterReads` adds the blanks and
  quotes, and `LineReads` goes over the words of the line. For a bare word at the
  end of a line the result is the word and the last characters of its escaped
  form, as many as it has escapes (`ReadBack`); the property says so.

Two of these properties were wrong before they were proved. `SumsAccepted` held of every
record of the runs, yet not of `-d COM1 -m -mx $a -m`, where the `-m` in front of
the message is not the mode that was in force there: now it names the last one.
`WordsReadBack` did not say that a bare word which begins with a tab loses it,
and that an empty word ends the line (`Writable`).

`ToolsProofs` proves `BatchesHold` (`BatchesInOrder`), for any lines, size of a
batch and size of a read. `StatsInv` says of the text taken so far what
`BatchesInOrder` says of the end of a piece: which characters of the next line
are in `line` (`LineReached`), and that the batches with the first `valueI`
places of `times` and `values` are the pairs wanted of the lines that ended
(`Waiting`). Each character keeps it (`TakeReaches`), so each piece does
(`TakenReaches`); where the pieces are cut plays no part. That a time is noted
one line early, and overwritten when the line has no value, is harmless because
it goes to the place after the waiting ones (`TimeNoted`).

Its second part proves `WindowsHold` (`WindowStats`), for any log, any window
and any size of the tables. The program goes over samples, newest first, in two
passes; the property speaks of sets of lines. `ReadInv` ties them together until
a crash. The list holds the first keys of the log in their order, and a key seen
but not listed came after a full list (`FirstKeys`), so its keys are those that
the property counts (`ListedIs`). Samples belong to lines at rising places, one
to each line with a key of the list (`SamplesAt`). So the samples of a key in the
window, which is the end of the samples (`WindowIs`), are exactly the young lines
of that key (`YoungRows`): the search stops at the first old sample also where
the clock went back, as the property does. That the pass adds up these lines
(`FirstPass`, `SecondPass`) needs that a sum over a set does not depend on which
member is taken first (`AnyOrder`, `SumIs`), and that the sum of the squared
deviations is the polynomial of the sums so far at each step (`DeviationMore`).
That the sums are cleared (`ClearedIs`) is what lets a list stay in use from
report to report. A first sample stored in front of the array crashes with no
report shown, since without a sample there is no key (`EmptyCore`).

Induction. What a recursive definition computes can be proved only where the
induction needs no operator as a parameter: `SequenceLemmas` derives induction
on a set of numbers (`SetInduction`) from the least member of a set, and with it
what `FlattenSeq` returns, which the data path and the log need. A fold takes an
operator, which the library's facts about it cannot be told of: `FoldExists` and
`FoldRuns` speak of a step that is a function instead, and each fold of the model
is shown to be one of such a step (`XorAllRuns`, `SumRuns`, `ValueRuns`,
`HexRuns`, `AveragedRuns`, `DeviatedRuns`).

Only model-checked: the liveness properties, as liveness is out of the prover's
reach.

## Plan

Done: all the modules above, their runs, and a proof of every safety property of
theirs, the action property and the refinement. Not covered yet are the
components under "Not modelled" below and the seven hazards without a property.

## Not modelled

- `NIDAQmx.h`, `ni488.h`, `ni4882.h` and `ContAcq-IntClk.c` are the vendor's headers
  and example: two thirds of the lines under `src/`, and no logic of this
  system. What the code calls of them is modelled from its use.
- The Linux branches (`fork` of the command port, signals, `tcflush`): the
  Makefile builds for Windows.
- The arithmetic of `calc` in `stats.c` (mean, deviation, slope in doubles), the
  rounding of doubles in `QueryRead`, and `mktime`'s months.
- The lengths of fixed arrays: 16 saved arguments, 1024 characters of a line,
  the number of records.
- The headers, formats and colours of what is printed; the chart of `plot.java`;
  the notices of deleted files, as the logger deletes none.
- `client.cpp` prints datagrams in one blocking loop without state;
  `protoPort.cpp` is a template that is not built; `WatchDir.java` is an example
  of the Java library.
