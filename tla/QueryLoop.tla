----------------------------- MODULE QueryLoop -----------------------------
(***************************************************************************)
(* The main program of the query logger (src/src/main.cpp) from the end of *)
(* its start-up to its exit: one thread that passes over all the records,  *)
(* polls the GPIB devices that were told to wait for a service request,    *)
(* lets every record decide whether it runs, and clears, writes and reads  *)
(* its device.  Around it: the console's control handler, which runs in a  *)
(* thread of its own, the clock, and the devices.                          *)
(*                                                                         *)
(* The loop's position is pc.  Between two of its actions the control      *)
(* handler, the clock and the devices may take steps.                      *)
(***************************************************************************)
EXTENDS QueryRecord

CONSTANTS NRecords,     \* records, the number of used entries of q[]
          Kind,         \* the port class of each device
          Confs,        \* the configurations of the records considered
          MaxTime,      \* bound: the clock stops here
          MaxCount,     \* bound: the statistics counters stop here
          PollMayFail   \* may a serial poll fail on an asserted SRQ line?

Rec   == 1..NRecords
Kinds == {"gpib", "serial", "ip", "command", "nidaq"}

ASSUME NRecordsAssumption == NRecords \in Nat
ASSUME KindAssumption     == Kind \in [Device -> Kinds]
ASSUME ConfsAssumption    == Confs \subseteq [Rec -> Settings]
ASSUME BoundsAssumption   == MaxTime \in Nat /\ MaxCount \in Nat
ASSUME PollAssumption     == PollMayFail \in BOOLEAN

(* The command line: chosen in Init, never changed.                        *)
VARIABLE conf
(* The scheduling state of the records: nextRuntime, number, srqReq.       *)
VARIABLES nextRuntime, number, srqReq
(* Their statistics, printed by quit() under -g.                           *)
VARIABLES sent, received, timeouts, checked, sumErrors
(* The loop: where it is, its record index, the time stamp of the pass,    *)
(* what the current record has still to do, the flag cont, and the record  *)
(* whose device filled the shared ReadBuffer (0: it holds no text).        *)
VARIABLES pc, record, timeNow, recordAction, cont, rxFrom
(* Shared with the control handler's thread.                               *)
VARIABLE exitSig
(* Outside the program: the clock, the request bit of each GPIB device,    *)
(* and what each socket would deliver.                                     *)
VARIABLES clock, rqs, wire

schedule == <<nextRuntime, number, srqReq>>
stats    == <<sent, received, timeouts, checked, sumErrors>>
loop     == <<record, timeNow, recordAction, cont, rxFrom>>
outside  == <<clock, rqs, wire>>
vars     == <<conf, schedule, stats, pc, loop, exitSig, outside>>

Locations == {"start", "while", "service", "decide", "act", "recv",
              "quit", "done", "killed"}
Running   == pc \notin {"done", "killed"}

Init ==
    /\ conf \in Confs
    /\ nextRuntime = [r \in Rec |-> 0]
    /\ number = [r \in Rec |-> conf[r].number]
    /\ srqReq = [r \in Rec |-> FALSE]
    /\ sent = [r \in Rec |-> 0]
    /\ received = [r \in Rec |-> 0]
    /\ timeouts = [r \in Rec |-> 0]
    /\ checked = [r \in Rec |-> 0]
    /\ sumErrors = [r \in Rec |-> 0]
    /\ pc = "start"
    /\ record = NRecords + 1
    /\ timeNow = 1
    /\ recordAction = {}
    /\ cont = FALSE
    /\ rxFrom = 0
    /\ exitSig = 0
    /\ clock = 1
    /\ rqs \in [Device -> BOOLEAN]
    /\ \A d \in Device : rqs[d] => Kind[d] = "gpib"
    /\ wire = [d \in Device |-> "quiet"]

Dev(r)   == conf[r].device
PortOf(r) == Kind[Dev(r)]

(* A counter that stops at the bound MaxCount.                             *)
Bump(counter, r) ==
    [counter EXCEPT ![r] = IF @ < MaxCount THEN @ + 1 ELSE @]

-----------------------------------------------------------------------------
(* The ports are open; the loop's flags are set, exitSig among them.       *)
StartLoop ==
    /\ pc = "start"
    /\ cont' = TRUE
    /\ exitSig' = 0
    /\ pc' = "while"
    /\ UNCHANGED <<conf, schedule, stats, record, timeNow, recordAction,
                   rxFrom, outside>>

(* The loop's test.                                                        *)
KeepGoingEither == cont \/ exitSig = 0      \* mutant: || for &&
KeepGoing == cont /\ exitSig = 0

(* A pass begins by forgetting the requests of the last one.               *)
BeginPass ==
    /\ pc = "while"
    /\ KeepGoing
    /\ srqReq' = [r \in Rec |-> FALSE]
    /\ record' = 1
    /\ pc' = "service"
    /\ UNCHANGED <<conf, nextRuntime, number, stats, timeNow, recordAction,
                   cont, rxFrom, exitSig, outside>>

LeaveLoop ==
    /\ pc = "while"
    /\ ~KeepGoing
    /\ pc' = "quit"
    /\ UNCHANGED <<conf, schedule, stats, loop, exitSig, outside>>

-----------------------------------------------------------------------------
(* The service loop.  gpibPort::portService() looks at the board's SRQ     *)
(* line, which any device holds, and then polls its own device; the other  *)
(* ports answer 0.                                                         *)
SrqLine == \E d \in Device : rqs[d]

Polls(r) == conf[r].srq /\ ~srqReq[r] /\ PortOf(r) = "gpib" /\ SrqLine

SkipPoll ==
    /\ pc = "service" /\ record \in Rec
    /\ ~Polls(record)
    /\ record' = record + 1
    /\ UNCHANGED <<conf, schedule, stats, pc, timeNow, recordAction, cont,
                   rxFrom, exitSig, outside>>

RequestOne(r) == [srqReq EXCEPT ![r] = TRUE]  \* mutant: the inner loop is lost

(* Every -u record of the polled record's device gets the request.         *)
RequestAll(r) ==
    [j \in Rec |-> IF Dev(j) = Dev(r) /\ conf[j].srq THEN TRUE ELSE srqReq[j]]

(* The device answers the poll, which drops its request.                   *)
PollAnswered ==
    /\ pc = "service" /\ record \in Rec
    /\ Polls(record)
    /\ srqReq' = IF rqs[Dev(record)] THEN RequestAll(record) ELSE srqReq
    /\ rqs' = [rqs EXCEPT ![Dev(record)] = FALSE]
    /\ record' = record + 1
    /\ UNCHANGED <<conf, nextRuntime, number, stats, pc, timeNow,
                   recordAction, cont, rxFrom, exitSig, clock, wire>>

(* The poll fails: portService() tests a status byte nobody wrote.         *)
PollFails ==
    /\ pc = "service" /\ record \in Rec
    /\ Polls(record)
    /\ PollMayFail
    /\ srqReq' \in {srqReq, RequestAll(record)}
    /\ record' = record + 1
    /\ UNCHANGED <<conf, nextRuntime, number, stats, pc, timeNow,
                   recordAction, cont, rxFrom, exitSig, outside>>

(* One time stamp for the whole pass.                                      *)
StampPass ==
    /\ pc = "service" /\ record \notin Rec
    /\ timeNow' = clock
    /\ record' = 1
    /\ pc' = "decide"
    /\ UNCHANGED <<conf, schedule, stats, recordAction, cont, rxFrom,
                   exitSig, outside>>

-----------------------------------------------------------------------------
(* Go on with the current record's remaining actions, or to the next one.  *)
Proceed(actions) ==
    /\ recordAction' = actions
    /\ IF actions = {}
       THEN pc' = "decide" /\ record' = record + 1
       ELSE pc' = "act"    /\ record' = record

(* What dataAvaliable() answers.  A serial port reads for 10 ms, a NIDAQ   *)
(* port looks at a flag its driver sets, a GPIB port always says yes, the  *)
(* command port never.  A socket is a blocking one: the answer comes when  *)
(* there is data, or when the peer has closed.                             *)
DataAvailable(r) ==
    CASE PortOf(r) = "gpib"    -> {TRUE}
      [] PortOf(r) = "command" -> {FALSE}
      [] PortOf(r) = "ip"      -> {w = "data" : w \in {wire[Dev(r)]} \ {"quiet"}}
      [] OTHER                 -> BOOLEAN

(* thisRecord() for the current record, with the device's answer when the  *)
(* record runs and asks for it.                                            *)
Decide ==
    /\ pc = "decide" /\ record \in Rec
    /\ LET r    == record
           c    == conf[r]
           runs == Fires(c, nextRuntime[r], number[r], srqReq[r], timeNow)
       IN  /\ nextRuntime' = [nextRuntime EXCEPT ![r] =
                  NextRuntimeAfter(c, @, number[r], srqReq[r], timeNow)]
           /\ number' = [number EXCEPT ![r] =
                  NumberAfter(c, nextRuntime[r], @, srqReq[r], timeNow)]
           /\ \/ ~runs /\ Proceed({})
              \/ runs /\ ~Probes(c) /\ Proceed(ActionsOf(c, FALSE))
              \/ /\ runs /\ Probes(c)
                 /\ \E avail \in DataAvailable(r) : Proceed(ActionsOf(c, avail))
    /\ UNCHANGED <<conf, srqReq, stats, timeNow, cont, rxFrom, exitSig, outside>>

ClearDevice ==
    /\ pc = "act" /\ "clear" \in recordAction
    /\ Proceed(recordAction \ {"clear"})
    /\ UNCHANGED <<conf, schedule, stats, timeNow, cont, rxFrom, exitSig, outside>>

(* gpibPort::portMode() ends the program when the device cannot be cleared. *)
ClearFails ==
    /\ pc = "act" /\ "clear" \in recordAction
    /\ PortOf(record) = "gpib"
    /\ pc' = "killed"
    /\ UNCHANGED <<conf, schedule, stats, loop, exitSig, outside>>

(* The message goes out, or is lost in an error portWrite() reports and    *)
(* main() does not look at; it counts as sent.                             *)
SendMessage ==
    /\ pc = "act" /\ "clear" \notin recordAction /\ "send" \in recordAction
    /\ sent' = Bump(sent, record)
    /\ Proceed(recordAction \ {"send"})
    /\ UNCHANGED <<conf, schedule, received, timeouts, checked, sumErrors,
                   timeNow, cont, rxFrom, exitSig, outside>>

-----------------------------------------------------------------------------
(* What main() does with the result of portRead(): from is the origin of   *)
(* the text now in ReadBuffer.  NmeaCheck() finds no sum, a right one or a *)
(* wrong one (-1, 0, 1).                                                   *)
AccountSwapped(from, timedOut) ==            \* mutant: >= and > swapped
    /\ rxFrom' = from
    /\ received' = IF from # 0 THEN Bump(received, record) ELSE received
    /\ IF from # 0 /\ conf[record].nmea
       THEN \E check \in {-1, 0, 1} :
               /\ checked' = IF check > 0 THEN Bump(checked, record) ELSE checked
               /\ sumErrors' = IF check >= 0 THEN Bump(sumErrors, record) ELSE sumErrors
       ELSE UNCHANGED <<checked, sumErrors>>
    /\ timeouts' = IF timedOut THEN Bump(timeouts, record) ELSE timeouts

Account(from, timedOut) ==
    /\ rxFrom' = from
    /\ received' = IF from # 0 THEN Bump(received, record) ELSE received
    /\ IF from # 0 /\ conf[record].nmea
       THEN \E check \in {-1, 0, 1} :
               /\ checked' = IF check >= 0 THEN Bump(checked, record) ELSE checked
               /\ sumErrors' = IF check > 0 THEN Bump(sumErrors, record) ELSE sumErrors
       ELSE UNCHANGED <<checked, sumErrors>>
    /\ timeouts' = IF timedOut THEN Bump(timeouts, record) ELSE timeouts

Reads(port) ==
    /\ pc = "act" /\ recordAction = {"read"}
    /\ PortOf(record) = port
    /\ UNCHANGED <<conf, schedule, sent, timeNow, cont, exitSig, outside>>

(* Text (or none: a NUL byte ends it) up to the EOS character or until the *)
(* timeout, which keeps the text read so far.                              *)
ReadSerial ==
    /\ Reads("serial")
    /\ \E from \in {0, record}, timedOut \in BOOLEAN : Account(from, timedOut)
    /\ Proceed({})

ReadGpibStale ==                             \* mutant: buffer[0] is not reset
    /\ Reads("gpib")
    /\ \/ \E from \in {0, record} : Account(from, FALSE)
       \/ Account(rxFrom, TRUE)
    /\ Proceed({})

(* An error or a timeout leaves an empty buffer and returns -1.            *)
ReadGpib ==
    /\ Reads("gpib")
    /\ \/ \E from \in {0, record} : Account(from, FALSE)
       \/ Account(0, TRUE)
    /\ Proceed({})

(* One sample, printed into the buffer.                                    *)
ReadNidaq ==
    /\ Reads("nidaq")
    /\ Account(record, FALSE)
    /\ Proceed({})

(* commandPort::portRead() leaves the buffer as the last read left it.     *)
ReadCommand ==
    /\ Reads("command")
    /\ Account(rxFrom, FALSE)
    /\ Proceed({})

(* IpPort::portRead() empties the buffer and starts to receive.            *)
ReadIp ==
    /\ Reads("ip")
    /\ rxFrom' = 0
    /\ pc' = "recv"
    /\ UNCHANGED <<received, timeouts, checked, sumErrors, record, recordAction>>

(* One turn of its loop.  recvfrom() blocks while the wire is quiet.  What *)
(* arrived is copied; the loop ends with the EOS character or when the     *)
(* timeout has passed, and goes round again otherwise.  A closed           *)
(* connection delivers nothing until the timeout.                          *)
ReceiveIp ==
    /\ pc = "recv"
    /\ \/ /\ wire[Dev(record)] = "data"
          /\ wire' = [wire EXCEPT ![Dev(record)] = "quiet"]
          /\ \/ \E timedOut \in BOOLEAN : Account(record, timedOut) /\ Proceed({})
             \/ /\ rxFrom' = record
                /\ UNCHANGED <<received, timeouts, checked, sumErrors, pc,
                               record, recordAction>>
       \/ /\ wire[Dev(record)] = "closed"
          /\ Account(rxFrom, TRUE)
          /\ Proceed({})
          /\ UNCHANGED wire
    /\ UNCHANGED <<conf, schedule, sent, timeNow, cont, exitSig, clock, rqs>>

-----------------------------------------------------------------------------
EndPassLast ==                               \* mutant: the last record decides
    /\ pc = "decide" /\ record \notin Rec
    /\ cont' = Active(conf[NRecords], number[NRecords], timeNow)
    /\ pc' = "while"
    /\ UNCHANGED <<conf, schedule, stats, record, timeNow, recordAction,
                   rxFrom, exitSig, outside>>

(* All records done: the program goes on while one of them is active.      *)
EndPass ==
    /\ pc = "decide" /\ record \notin Rec
    /\ cont' = \E r \in Rec : Active(conf[r], number[r], timeNow)
    /\ pc' = "while"
    /\ UNCHANGED <<conf, schedule, stats, record, timeNow, recordAction,
                   rxFrom, exitSig, outside>>

Quit ==
    /\ pc = "quit"
    /\ pc' = "done"
    /\ UNCHANGED <<conf, schedule, stats, loop, exitSig, outside>>

-----------------------------------------------------------------------------
CtrlHandlerSig ==                            \* mutant: the event's number is kept
    /\ Running
    /\ \E handled \in BOOLEAN :
          IF handled /\ exitSig # -1
          THEN exitSig' = 2 /\ UNCHANGED pc
          ELSE pc' = "killed" /\ UNCHANGED exitSig
    /\ UNCHANGED <<conf, schedule, stats, loop, outside>>

(* The control handler: the first event asks the loop to stop, one that    *)
(* comes before the loop has seen the last ends the process, and so does   *)
(* the system after one that is not handled, as Ctrl-Break is not.         *)
CtrlHandler ==
    /\ Running
    /\ \E handled \in BOOLEAN :
          IF handled /\ exitSig # -1
          THEN exitSig' = -1 /\ UNCHANGED pc
          ELSE pc' = "killed" /\ UNCHANGED exitSig
    /\ UNCHANGED <<conf, schedule, stats, loop, outside>>

Tick ==
    /\ Running
    /\ clock < MaxTime
    /\ clock' = clock + 1
    /\ UNCHANGED <<conf, schedule, stats, pc, loop, exitSig, rqs, wire>>

(* A GPIB device asserts its request.                                      *)
RaiseSrq(d) ==
    /\ Running
    /\ Kind[d] = "gpib" /\ ~rqs[d]
    /\ rqs' = [rqs EXCEPT ![d] = TRUE]
    /\ UNCHANGED <<conf, schedule, stats, pc, loop, exitSig, clock, wire>>

(* Data for a socket, or the end of its connection.                        *)
Arrive(d) ==
    /\ Running
    /\ Kind[d] = "ip" /\ wire[d] = "quiet"
    /\ wire' \in {[wire EXCEPT ![d] = w] : w \in {"data", "closed"}}
    /\ UNCHANGED <<conf, schedule, stats, pc, loop, exitSig, clock, rqs>>

Terminated == ~Running /\ UNCHANGED vars

-----------------------------------------------------------------------------
Read == \/ ReadSerial \/ ReadGpib \/ ReadNidaq \/ ReadCommand
        \/ ReadIp \/ ReceiveIp

Program == \/ StartLoop \/ BeginPass \/ LeaveLoop
           \/ SkipPoll \/ PollAnswered \/ PollFails \/ StampPass
           \/ Decide \/ ClearDevice \/ ClearFails \/ SendMessage \/ Read
           \/ EndPass \/ Quit

Environment == \/ CtrlHandler \/ Tick
               \/ \E d \in Device : RaiseSrq(d) \/ Arrive(d)

Next == Program \/ Environment \/ Terminated

Spec == Init /\ [][Next]_vars

(* The operating system runs the main thread, and time passes.             *)
Fairness == WF_vars(Program) /\ WF_vars(Tick)

FairSpec == Spec /\ Fairness

-----------------------------------------------------------------------------
(***************************************************************************)
(* Properties.                                                             *)
(***************************************************************************)

(* Every variable keeps its type; received text comes from some record.    *)
TypeOK ==
    /\ conf \in Confs
    /\ nextRuntime \in [Rec -> Nat]
    /\ number \in [Rec -> Int]
    /\ srqReq \in [Rec -> BOOLEAN]
    /\ sent \in [Rec -> 0..MaxCount]
    /\ received \in [Rec -> 0..MaxCount]
    /\ timeouts \in [Rec -> 0..MaxCount]
    /\ checked \in [Rec -> 0..MaxCount]
    /\ sumErrors \in [Rec -> 0..MaxCount]
    /\ pc \in Locations
    /\ record \in 1..(NRecords + 1)
    /\ timeNow \in Nat \ {0}
    /\ recordAction \subseteq {"clear", "send", "read"}
    /\ cont \in BOOLEAN
    /\ rxFrom \in 0..NRecords
    /\ exitSig \in {0, -1}
    /\ clock \in Nat \ {0}
    /\ rqs \in [Device -> BOOLEAN]
    /\ wire \in [Device -> {"quiet", "data", "closed"}]

(* The messages of r that thisRecord() has granted: those sent, and the    *)
(* one main() is about to send.                                            *)
Granted(r) == sent[r] + IF record = r /\ "send" \in recordAction THEN 1 ELSE 0

(* A record told to send -n messages never sends more, and each one sent   *)
(* is taken off its count exactly once, whatever made the record run: its  *)
(* slot, a service request, or both in one pass.                           *)
BudgetKept ==
    \A r \in Rec : conf[r].send /\ conf[r].number \in 0..MaxCount =>
        number[r] >= 0 /\ Granted(r) + number[r] = conf[r].number

(* The k-th message of a record with a first time and a period belongs to  *)
(* the slot first + (k-1)*period: however late a pass runs, and however    *)
(* many slots went by during a slow read, none is skipped, none is served  *)
(* twice, and the delays do not add up to a drift.                         *)
OnGrid ==
    \A r \in Rec :
        LET c == conf[r]
        IN  c.send /\ ~c.srq /\ c.first > 0 /\ c.period > 0 /\ sent[r] < MaxCount =>
              \/ nextRuntime[r] = 0 /\ Granted(r) = 0
              \/ nextRuntime[r] = c.first + Granted(r) * c.period

(* The slot a record runs for has passed: its next slot is never more than *)
(* a period ahead of the pass, so catching up after a delay cannot turn    *)
(* into running early.                                                     *)
NeverEarly ==
    \A r \in Rec : ~conf[r].srq =>
        nextRuntime[r] < timeNow + IF conf[r].period > 0 THEN conf[r].period ELSE 1

(* A record that runs without a service request runs after its first time  *)
(* and not after its last, although it was armed in an earlier pass and    *)
(* the pass's time stamp is older than the action.                         *)
InsideWindow ==
    recordAction # {} /\ ~srqReq[record] =>
        /\ conf[record].first < timeNow
        /\ conf[record].last = 0 \/ timeNow <= conf[record].last

(* All -u records of one device agree on whether the device asked for      *)
(* service, although each polls at its own time, the device may ask        *)
(* between two polls, and only one poll sees the request bit.              *)
SrqAgree ==
    \A i, j \in Rec : Dev(i) = Dev(j) /\ conf[i].srq /\ conf[j].srq
                          => srqReq[i] = srqReq[j]

(* A program that ends by itself leaves nothing undone: every message of   *)
(* an -n record without a last time was sent, and every last time is over. *)
CompleteAtQuit ==
    pc = "quit" /\ exitSig = 0 =>
        \A r \in Rec :
            LET c == conf[r]
            IN  IF c.last # 0 THEN c.last <= timeNow
                ELSE c.send /\ c.number \in -1..MaxCount => sent[r] = c.number

(* The figures quit() prints add up: check sums are counted for received   *)
(* replies only, errors for check sums only, and a record that polls its   *)
(* device reports at most one reply and one timeout for each message.      *)
ReportAddsUp ==
    \A r \in Rec :
        /\ sumErrors[r] <= checked[r] /\ checked[r] <= received[r]
        /\ conf[r].send => received[r] <= sent[r] /\ timeouts[r] <= sent[r]

(* Text logged as a record's reply was read from its device by that read,  *)
(* never what an earlier read left in the shared buffer.                   *)
ReplyIsOwn == [][received' # received => rxFrom' = record]_vars

PS == INSTANCE PollSchedule
      WITH Record <- Rec, plan <- conf, served <- sent, now <- timeNow

(* The loop keeps the promise of PollSchedule: whatever the passes, polls  *)
(* and reads in between, the message that goes out is one its record still *)
(* has, for a slot that has passed, inside the record's window.            *)
ImplementsSchedule == PS!Spec

-----------------------------------------------------------------------------
Stopped == ~Running

(* Ctrl-C in the loop ends the program, though not in the middle of a      *)
(* record: the flag is looked at once a pass.                              *)
SignalStops == exitSig = -1 /\ pc # "start" ~> Stopped

Due(r) == /\ conf[r].send /\ conf[r].last = 0 /\ ~conf[r].srq
          /\ 0 < nextRuntime[r] /\ nextRuntime[r] < clock /\ number[r] # 0

(* A slot that has passed is served, unless the program is stopped: no     *)
(* record starves another one.                                             *)
DueIsServed ==
    \A r \in Rec :
        Due(r) ~> (record = r /\ "send" \in recordAction) \/ pc = "quit" \/ Stopped

(* A request is answered by every -u record of the device that may still   *)
(* run, though the poll that found it was one record's.                    *)
RequestIsServed ==
    \A r \in Rec :
        (rqs[Dev(r)] /\ conf[r].srq /\ conf[r].send /\ number[r] # 0) ~>
            (record = r /\ srqReq[r] /\ "send" \in recordAction)
                \/ pc = "quit" \/ Stopped

Spent(r) == IF conf[r].last # 0 THEN conf[r].last <= clock ELSE number[r] = 0

(* When every count is used up and every last time over, the program ends. *)
SpentStops == (\A r \in Rec : Spent(r)) ~> Stopped

-----------------------------------------------------------------------------
(* What the documents say and the code does not do.                        *)

(* Ctrl-C is not forgotten, whenever it comes: "while we still have active *)
(* records, or an exit signal is received" (main.cpp).                     *)
SignalHonoured == exitSig = -1 ~> Stopped

(* -n is the "number of messages": a record that only reads and was given  *)
(* -n N has read N of them when the program ends by itself.                *)
NumberCountsMessages ==
    pc = "quit" /\ exitSig = 0 =>
        \A r \in Rec :
            Probes(conf[r]) /\ conf[r].last = 0 /\ conf[r].number >= 0
                => received[r] >= conf[r].number
=============================================================================
