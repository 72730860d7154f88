------------------------------ MODULE PortData ------------------------------
(***************************************************************************)
(* The port classes together under one loop: what every character that a   *)
(* device produces comes to.                                               *)
(***************************************************************************)
EXTENDS SerialPort, IpPort, NidaqPort, GpibPort, SequencesExt

vars == <<turn, history, serial, ip, nidaq, gpib>>

Init == DataInit /\ SerialInit /\ IpInit /\ NidaqInit /\ GpibInit

Program == \/ (NextTurn \/ Log) /\ UNCHANGED <<serial, ip, nidaq, gpib>>
           \/ SerialStep        /\ UNCHANGED <<ip, nidaq, gpib>>
           \/ IpStep            /\ UNCHANGED <<serial, nidaq, gpib>>
           \/ NidaqStep         /\ UNCHANGED <<serial, ip, gpib>>
           \/ GpibStep          /\ UNCHANGED <<serial, ip, nidaq>>

Used == {conf[r].device : r \in Rec}

TimeoutPasses == Expire /\ UNCHANGED <<serial, ip, nidaq, gpib>>

Outside == \/ TimeoutPasses
           \/ \E d \in Used :
                 \/ SerialArrives(d)              /\ UNCHANGED <<ip, nidaq, gpib>>
                 \/ (IpArrives(d) \/ PeerCloses(d)) /\ UNCHANGED <<serial, nidaq, gpib>>
                 \/ Sample(d)                     /\ UNCHANGED <<serial, ip, gpib>>
                 \/ Answers(d)                    /\ UNCHANGED <<serial, ip, nidaq>>
           \/ EveryNCallback /\ UNCHANGED <<serial, ip, gpib>>

Next == Program \/ Outside

Spec == Init /\ [][Next]_vars

(* The main thread runs, and timeouts pass.                                *)
FairSpec == Spec /\ WF_vars(Program) /\ WF_vars(TimeoutPasses)

-----------------------------------------------------------------------------
(***************************************************************************)
(* Properties.                                                             *)
(***************************************************************************)

Char == [n: 0..MaxText, eos: BOOLEAN]

(* Every variable keeps its type.                                          *)
DataTypeOK ==
    /\ conf \in Confs /\ record \in Rec
    /\ pc \in {"idle", "write", "probe", "clear", "begin",
               "test", "recv", "copy", "log"}
    /\ ReadBuffer \in Seq(Char) /\ expired \in BOOLEAN
    /\ arrived \in [Device -> 0..MaxText] /\ asked \in 0..MaxText
    /\ logged \in [Device -> Seq(0..MaxText)]
    /\ lost \in [Device -> SUBSET (0..MaxText)]
    /\ line \in [Device -> Seq(Char)] /\ tempBuffer \in [Rec -> Seq(Char)]
    /\ wire \in [Device -> Seq(Seq(Char))] /\ closed \in [Device -> BOOLEAN]
    /\ rxBuf \in Seq(Char) /\ bytes \in 0..RxSize /\ lastRx \in 0..RxSize
    /\ ret \in BOOLEAN
    /\ fifo \in Seq(Char) /\ callbacks \in 0..MaxText /\ dataAv \in BOOLEAN
    /\ answer \in [Device -> Seq(Char)]

(* The characters of device d that the port or the system still holds, the *)
(* next one to be read first.                                              *)
Held(d) ==
    LET temp == FlattenSeq([r \in Rec |-> IF conf[r].device = d
                                          THEN tempBuffer[r] ELSE <<>>])
        left == IF Dev = d THEN SubSeq(rxBuf, lastRx + 1, lastRx + bytes) ELSE <<>>
    IN  CASE Kind[d] = "serial" -> temp \o line[d]
          [] Kind[d] \in {"tcp", "udp"} -> left \o FlattenSeq(wire[d])
          [] Kind[d] = "nidaq" -> fifo
          [] Kind[d] = "gpib" -> answer[d]

(* What of it was or will be logged, in this order.                        *)
Text(d) == logged[d] \o NumbersOf(IF Dev = d THEN ReadBuffer ELSE <<>>)
                     \o NumbersOf(Held(d))

Ascending(s) == \A i \in 1..(Len(s) - 1) : s[i] < s[i + 1]

(* Every character that a device produced is logged once, in its order, or *)
(* is still to come in that order, or was given up and is logged nowhere;  *)
(* whichever of the records that share the device took it, and through     *)
(* however many buffers it went.                                           *)
Conserved ==
    \A d \in Used :
        /\ Ascending(Text(d))
        /\ {Text(d)[i] : i \in DOMAIN Text(d)} = (1..arrived[d]) \ lost[d]

Senders(d) == {r \in Rec : conf[r].device = d /\ conf[r].message = "text"}

(* Only a message sent on the same line makes the program give up what a   *)
(* serial line received: the records that listen lose nothing to each      *)
(* other's probes and timeouts.  A connection and the driver's queue lose  *)
(* nothing at all.                                                         *)
NothingLost ==
    \A d \in Used :
        Kind[d] \in {"tcp", "nidaq"} \/ (Kind[d] = "serial" /\ Senders(d) = {})
            => lost[d] = {}

(* One read of a serial or GPIB port logs one reply: nothing follows an    *)
(* EOS character, except the one that a listener's probe had taken, which  *)
(* portRead() does not look at.                                            *)
OneReply ==
    pc = "log" =>
        \A i \in 1..(Len(ReadBuffer) - 1) : ReadBuffer[i].eos =>
            /\ (Has({"serial"}) /\ conf[record].eos) =>
                  (i = 1 /\ conf[record].message = "none")
            /\ ~(Has({"gpib"}) /\ HandleEos)

(* What a record logs as the reply to its message on a serial line was     *)
(* received after portWrite() began to send the message: nothing that an   *)
(* earlier message had answered by then is taken for the reply to this one.*)
FreshReply ==
    pc = "log" /\ Has({"serial"}) /\ conf[record].message = "text" =>
        \A i \in DOMAIN ReadBuffer : ReadBuffer[i].n > asked

(* Between two turns no port has text to itself: the globals of the IP     *)
(* ports hold nothing that another socket's record could take for its own, *)
(* and no record keeps a probed character while another one reads.         *)
NothingHeldBack ==
    pc = "idle" => bytes = 0 /\ \A r \in Rec : tempBuffer[r] = <<>>

(* When all records of the task only listen, a read finds a sample,        *)
(* although callbacks may be forgotten between the test of dataAv and its  *)
(* reset: the program never prints a value that was not measured.          *)
SampleWaits ==
    pc \in {"clear", "begin"} /\ Has({"nidaq"})
        /\ (\A r \in Rec : conf[r].device = Dev => conf[r].message = "none")
            => fifo # <<>>

(* -q: a read ends, even on a line that is silent or never stops, so that  *)
(* the other records get their turn.                                       *)
ReadEnds == (Reading /\ Has({"serial", "gpib"})) ~> (pc = "idle")

(* "-q <ms> - set read timeout" (main.cpp), said of any device.            *)
TimeoutHonoured == Reading ~> (pc = "idle")
=============================================================================
