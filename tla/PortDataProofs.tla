--------------------------- MODULE PortDataProofs ---------------------------
(***************************************************************************)
(* Proofs about PortData, for any number of records, any devices and any   *)
(* configurations of them.                                                 *)
(***************************************************************************)
EXTENDS PortData, SequenceLemmas

Places == {"idle", "write", "probe", "clear", "begin", "test", "recv", "copy", "log"}

(* Which port classes and which records the places of the loop are for,    *)
(* and where nothing is under way.                                         *)
PlaceInv ==
    /\ conf \in Confs /\ record \in Rec /\ pc \in Places
    /\ pc \in {"recv", "copy"} => Has({"tcp", "udp"})
    /\ pc = "test" => ~Has({"nidaq"})
    /\ pc = "clear" => Has({"nidaq"})
    /\ pc = "write" => conf[record].message # "none"
    /\ pc \in {"probe", "clear"} => conf[record].message = "none"
    /\ pc # "copy" => bytes = 0
    /\ ~Reading /\ pc # "log" => ReadBuffer = <<>>

LEMMA RecordTypes ==
    ASSUME conf \in Confs, NEW r \in Rec
    PROVE  /\ conf[r].device \in Device
           /\ conf[r].message \in {"none", "empty", "text"}
           /\ Kind[conf[r].device] \in Kinds
  BY ConfsAssumption, KindAssumption DEF Reader

LEMMA InitPlace == Init => PlaceInv
  BY NRecordsAssumption
  DEF Init, DataInit, IpInit, PlaceInv, Rec, Places, Reading

(* The loop goes from place to place.                                      *)
LEMMA PlaceKept == PlaceInv /\ [Next]_vars => PlaceInv'
  <1> SUFFICES ASSUME PlaceInv, [Next]_vars PROVE PlaceInv'
    OBVIOUS
  <1> USE DEF PlaceInv, Places, Reading, Has, Dev, Goto
  <1>1. CASE UNCHANGED vars
    BY <1>1 DEF vars, turn, ip
  <1>2. ASSUME NextTurn, UNCHANGED ip PROVE PlaceInv'
    BY <1>2 DEF NextTurn, ip
  <1>3. ASSUME Log, UNCHANGED ip PROVE PlaceInv'
    BY <1>3 DEF Log, ip
  <1>4. ASSUME SerialStep, UNCHANGED ip PROVE PlaceInv'
    <2>1. CASE WriteSerial
      BY <1>4, <2>1 DEF WriteSerial, Written, ip
    <2>2. CASE ProbeSerial
      BY <1>4, <2>2 DEF ProbeSerial, Probed, ip
    <2>3. CASE BeginSerial
      BY <1>4, <2>3 DEF BeginSerial, ReadBegins, ip
    <2>4. CASE ReadChar
      BY <1>4, <2>4 DEF ReadChar, ip
    <2>5. CASE SerialTimesOut
      BY <1>4, <2>5 DEF SerialTimesOut, ip
    <2>6. QED
      BY <1>4, <2>1, <2>2, <2>3, <2>4, <2>5 DEF SerialStep
  <1>5. ASSUME IpStep PROVE PlaceInv'
    <2>1. CASE WriteIp
      BY <2>1 DEF WriteIp, Written, ip
    <2>2. CASE ProbeIp
      BY <2>2 DEF ProbeIp, Probed, ip
    <2>3. CASE BeginIp
      BY <2>3 DEF BeginIp, ReadBegins
    <2>4. CASE TestIp
      BY <2>4 DEF TestIp, ip
    <2>5. CASE Receive
      BY <2>5 DEF Receive
    <2>6. CASE ReceiveNothing
      BY <2>6 DEF ReceiveNothing
    <2>7. CASE Copy
      BY <2>7 DEF Copy
    <2>8. CASE CopyDone
      BY <2>8 DEF CopyDone, ip
    <2>9. QED
      BY <1>5, <2>1, <2>2, <2>3, <2>4, <2>5, <2>6, <2>7, <2>8 DEF IpStep
  <1>6. ASSUME NidaqStep, UNCHANGED ip PROVE PlaceInv'
    <2>1. CASE WriteNidaq
      BY <1>6, <2>1 DEF WriteNidaq, Written, ip
    <2>2. CASE TestFlag
      BY <1>6, <2>2 DEF TestFlag, ip
    <2>3. CASE ClearFlag
      BY <1>6, <2>3 DEF ClearFlag, Probed, ip
    <2>4. CASE ReadSample
      BY <1>6, <2>4 DEF ReadSample, ip
    <2>5. QED
      BY <1>6, <2>1, <2>2, <2>3, <2>4 DEF NidaqStep
  <1>7. ASSUME GpibStep, UNCHANGED ip PROVE PlaceInv'
    <2>1. CASE WriteGpib
      BY <1>7, <2>1 DEF WriteGpib, Written, ip
    <2>2. CASE ProbeGpib
      BY <1>7, <2>2 DEF ProbeGpib, Probed, ip
    <2>3. CASE BeginGpib
      BY <1>7, <2>3 DEF BeginGpib, ReadBegins, ip
    <2>4. CASE TakeChar
      BY <1>7, <2>4 DEF TakeChar, ip
    <2>5. CASE GpibTimesOut
      BY <1>7, <2>5 DEF GpibTimesOut, ip
    <2>6. QED
      BY <1>7, <2>1, <2>2, <2>3, <2>4, <2>5 DEF GpibStep
  <1>8. ASSUME Outside PROVE PlaceInv'
    <2>1. UNCHANGED <<conf, pc, record, ReadBuffer, bytes>>
      BY <1>8 DEF Outside, TimeoutPasses, Expire, SerialArrives, IpArrives,
         PeerCloses, Sample, Answers, EveryNCallback, Arrives, turn, ip
    <2>2. QED
      BY <2>1
  <1>9. QED
    BY <1>1, <1>2, <1>3, <1>4, <1>5, <1>6, <1>7, <1>8 DEF Next, Program

-----------------------------------------------------------------------------
(***************************************************************************)
(* What a listener's probe takes is read in the same turn.                 *)
(***************************************************************************)

Probing(r) ==
    /\ pc = "begin" /\ r = record
    /\ Has({"serial"}) /\ conf[r].message = "none"

TempInv ==
    /\ tempBuffer \in [Rec -> Seq(Char)]
    /\ \A r \in Rec : tempBuffer[r] # <<>> => Probing(r)
    /\ \A r \in Rec : Len(tempBuffer[r]) <= 1

Typed ==
    /\ arrived \in [Device -> 0..MaxText] /\ asked \in 0..MaxText
    /\ line \in [Device -> Seq(Char)]
    /\ answer \in [Device -> Seq(Char)]
    /\ fifo \in Seq(Char)

LEMMA OneChar ==
    ASSUME NEW s \in Seq(Char), Len(s) = 1
    PROVE  s # <<>> /\ Len(s) <= 1
  <1>1. s # <<>>
    BY EmptySeq
  <1>2. Len(s) <= 1
    OBVIOUS
  <1>3. QED
    BY <1>1, <1>2

LEMMA InitTemp == Init => TempInv /\ Typed
  <1>1. <<>> \in Seq(Char) /\ Len(<<>>) = 0
    BY EmptySeq
  <1>2. QED
    BY <1>1, BoundAssumption
    DEF Init, DataInit, SerialInit, NidaqInit, GpibInit, TempInv, Typed

(* A device's next characters are numbered on from those before.           *)
LEMMA ProducedText ==
    ASSUME NEW d \in Device, NEW k \in Nat, arrived \in [Device -> 0..MaxText],
           Arrives(d, k), NEW text \in Produced(d, k)
    PROVE  /\ text \in Seq(Char) /\ Len(text) = k
           /\ \A i \in 1..k : text[i].n = arrived[d] + i
  <1>1. PICK ends : text = [i \in 1..k |-> [n |-> arrived[d] + i, eos |-> i \in ends]]
    BY DEF Produced
  <1>2. \A i \in 1..k : text[i].n = arrived[d] + i /\ text[i] \in Char
    <2> SUFFICES ASSUME NEW i \in 1..k
                 PROVE  text[i].n = arrived[d] + i /\ text[i] \in Char
      OBVIOUS
    <2>1. arrived[d] + i \in 0..MaxText
      BY BoundAssumption DEF Arrives
    <2>2. QED
      BY <1>1, <2>1 DEF Char
  <1>3. text \in [1..k -> Char]
    BY <1>1, <1>2
  <1>4. QED
    BY <1>2, <1>3, IsASeq

(* What the devices do to the sequences.                                   *)
LEMMA OutsideTyped ==
    ASSUME PlaceInv, Typed, Outside
    PROVE  Typed'
  <1> USE DEF Typed
  <1>1. CASE TimeoutPasses
    BY <1>1 DEF TimeoutPasses, Expire, history, serial, nidaq, gpib
  <1>2. CASE EveryNCallback /\ UNCHANGED <<serial, ip, gpib>>
    BY <1>2 DEF EveryNCallback, history, serial, gpib
  <1>3. ASSUME NEW d \in Used,
               \/ SerialArrives(d) /\ UNCHANGED <<ip, nidaq, gpib>>
               \/ (IpArrives(d) \/ PeerCloses(d)) /\ UNCHANGED <<serial, nidaq, gpib>>
               \/ Sample(d) /\ UNCHANGED <<serial, ip, gpib>>
               \/ Answers(d) /\ UNCHANGED <<serial, ip, nidaq>>
        PROVE  Typed'
    <2>1. d \in Device
      BY RecordTypes DEF Used, PlaceInv
    <2>2. ASSUME NEW k \in Nat, Arrives(d, k)
          PROVE  arrived' \in [Device -> 0..MaxText] /\ asked' \in 0..MaxText
      <3>1. arrived[d] + k \in 0..MaxText
        BY <2>1, <2>2, BoundAssumption DEF Arrives
      <3>2. QED
        BY <2>1, <2>2, <3>1 DEF Arrives
    <2>3. CASE SerialArrives(d) /\ UNCHANGED <<ip, nidaq, gpib>>
      <3>1. PICK text \in Produced(d, 1) : line' = [line EXCEPT ![d] = @ \o text]
        BY <2>3 DEF SerialArrives
      <3>2. line[d] \o text \in Seq(Char)
        BY <2>1, <2>3, <3>1, ProducedText, ConcatProperties
        DEF SerialArrives
      <3>3. line' \in [Device -> Seq(Char)]
        BY <2>1, <3>1, <3>2
      <3>4. QED
        BY <2>2, <2>3, <3>3 DEF SerialArrives, nidaq, gpib
    <2>4. CASE IpArrives(d) /\ UNCHANGED <<serial, nidaq, gpib>>
      <3>1. \E k \in Nat : Arrives(d, k)
        BY <2>4, RxSizeAssumption DEF IpArrives
      <3>2. QED
        BY <2>2, <2>4, <3>1 DEF serial, nidaq, gpib
    <2>5. CASE PeerCloses(d) /\ UNCHANGED <<serial, nidaq, gpib>>
      BY <2>5 DEF PeerCloses, history, serial, nidaq, gpib
    <2>6. CASE Sample(d) /\ UNCHANGED <<serial, ip, gpib>>
      <3>1. PICK text \in Produced(d, 1) : fifo' = fifo \o text
        BY <2>6 DEF Sample
      <3>2. fifo' \in Seq(Char)
        BY <2>1, <2>6, <3>1, ProducedText, ConcatProperties
        DEF Sample
      <3>3. QED
        BY <2>2, <2>6, <3>2 DEF Sample, serial, gpib
    <2>7. CASE Answers(d) /\ UNCHANGED <<serial, ip, nidaq>>
      <3>1. PICK text \in Produced(d, 1) : answer' = [answer EXCEPT ![d] = @ \o text]
        BY <2>7 DEF Answers
      <3>2. answer[d] \o text \in Seq(Char)
        BY <2>1, <2>7, <3>1, ProducedText, ConcatProperties
        DEF Answers
      <3>3. answer' \in [Device -> Seq(Char)]
        BY <2>1, <3>1, <3>2
      <3>4. QED
        BY <2>2, <2>7, <3>3 DEF Answers, serial, nidaq
    <2>8. QED
      BY <1>3, <2>3, <2>4, <2>5, <2>6, <2>7
  <1>4. QED
    BY <1>1, <1>2, <1>3 DEF Outside

LEMMA TypedKept == PlaceInv /\ Typed /\ [Next]_vars => Typed'
  <1> SUFFICES ASSUME PlaceInv, Typed, [Next]_vars PROVE Typed'
    OBVIOUS
  <1> USE DEF Typed, history, serial, nidaq, gpib
  <1>1. Dev \in Device
    BY RecordTypes DEF PlaceInv, Dev
  <1>2. <<>> \in Seq(Char)
    BY EmptySeq
  <1>3. \A s \in Seq(Char) : s # <<>> => Tail(s) \in Seq(Char)
    BY HeadTailProperties
  <1>4. CASE UNCHANGED vars
    BY <1>4 DEF vars
  <1>5. ASSUME NextTurn \/ Log, UNCHANGED <<serial, ip, nidaq, gpib>> PROVE Typed'
    BY <1>5, BoundAssumption DEF NextTurn, Log
  <1>6. ASSUME Written PROVE arrived' = arrived /\ asked' \in 0..MaxText
    BY <1>1, <1>6 DEF Written
  <1>7. ASSUME SerialStep, UNCHANGED <<ip, nidaq, gpib>> PROVE Typed'
    <2>1. CASE WriteSerial
      <3>1. line' \in [Device -> Seq(Char)]
        BY <1>1, <1>2, <2>1 DEF WriteSerial
      <3>2. QED
        BY <1>6, <1>7, <2>1, <3>1 DEF WriteSerial
    <2>2. ASSUME line[Dev] # <<>>, TakeNext PROVE line' \in [Device -> Seq(Char)]
      BY <1>1, <1>3, <2>2 DEF TakeNext
    <2>3. CASE ProbeSerial
      <3>1. line' \in [Device -> Seq(Char)]
        BY <2>2, <2>3 DEF ProbeSerial
      <3>2. QED
        BY <1>7, <2>3, <3>1 DEF ProbeSerial, Probed
    <2>4. CASE BeginSerial
      BY <1>7, <2>4 DEF BeginSerial, ReadBegins
    <2>5. CASE ReadChar
      <3>1. line' \in [Device -> Seq(Char)]
        BY <2>2, <2>5 DEF ReadChar
      <3>2. QED
        BY <1>7, <2>5, <3>1 DEF ReadChar
    <2>6. CASE SerialTimesOut
      BY <1>7, <2>6 DEF SerialTimesOut
    <2>7. QED
      BY <1>7, <2>1, <2>3, <2>4, <2>5, <2>6 DEF SerialStep
  <1>8. ASSUME IpStep, UNCHANGED <<serial, nidaq, gpib>> PROVE Typed'
    <2>1. arrived' = arrived /\ asked' \in 0..MaxText
      BY <1>6, <1>8 DEF IpStep, WriteIp, ProbeIp, BeginIp, TestIp, Receive,
         ReceiveNothing, Copy, CopyDone, Probed, ReadBegins
    <2>2. QED
      BY <1>8, <2>1
  <1>9. ASSUME NidaqStep, UNCHANGED <<serial, ip, gpib>> PROVE Typed'
    <2>1. arrived' = arrived /\ asked' \in 0..MaxText
      BY <1>6, <1>9 DEF NidaqStep, WriteNidaq, TestFlag, ClearFlag, ReadSample, Probed
    <2>2. fifo' \in Seq(Char)
      BY <1>3, <1>9 DEF NidaqStep, WriteNidaq, TestFlag, ClearFlag, ReadSample, Probed
    <2>3. QED
      BY <1>9, <2>1, <2>2
  <1>10. ASSUME GpibStep, UNCHANGED <<serial, ip, nidaq>> PROVE Typed'
    <2>1. arrived' = arrived /\ asked' \in 0..MaxText
      BY <1>6, <1>10 DEF GpibStep, WriteGpib, ProbeGpib, BeginGpib, TakeChar,
         GpibTimesOut, Probed, ReadBegins
    <2>2. answer' \in [Device -> Seq(Char)]
      BY <1>1, <1>3, <1>10 DEF GpibStep, WriteGpib, ProbeGpib, BeginGpib, TakeChar,
         GpibTimesOut, Probed, ReadBegins
    <2>3. QED
      BY <1>10, <2>1, <2>2
  <1>11. QED
    BY <1>4, <1>5, <1>7, <1>8, <1>9, <1>10, OutsideTyped DEF Next, Program

LEMMA TempKept == PlaceInv /\ Typed /\ TempInv /\ [Next]_vars => TempInv'
  <1> SUFFICES ASSUME PlaceInv, Typed, TempInv, [Next]_vars PROVE TempInv'
    OBVIOUS
  <1> USE DEF TempInv
  <1>1. record \in Rec /\ Dev \in Device
    BY RecordTypes DEF PlaceInv, Dev
  <1>2. <<>> \in Seq(Char) /\ Len(<<>>) = 0
    BY EmptySeq
  <1>3. ASSUME tempBuffer' = tempBuffer, pc # "begin" PROVE TempInv'
    BY <1>3 DEF Probing
  <1>4. ASSUME UNCHANGED <<conf, pc, record, tempBuffer>> PROVE TempInv'
    BY <1>4 DEF Probing, Has, Dev
  <1>5. ASSUME tempBuffer' = tempBuffer, ~Has({"serial"}) PROVE TempInv'
    BY <1>5 DEF Probing
  <1>6. CASE UNCHANGED vars
    BY <1>4, <1>6 DEF vars, turn, serial
  <1>7. ASSUME NextTurn \/ Log, UNCHANGED serial PROVE TempInv'
    BY <1>3, <1>7 DEF NextTurn, Log, serial
  <1>8. CASE SerialStep
    <2>1. CASE WriteSerial
      BY <1>3, <2>1 DEF WriteSerial
    <2>2. CASE ProbeSerial
      <3>1. /\ pc = "probe" /\ Has({"serial"}) /\ conf[record].message = "none"
            /\ UNCHANGED <<conf, record>>
            /\ pc' = IF tempBuffer'[record] # <<>> THEN "begin" ELSE "idle"
        BY <2>2 DEF ProbeSerial, Probed, Goto, PlaceInv
      <3>2. \A r \in Rec : tempBuffer[r] = <<>>
        BY <3>1 DEF Probing
      <3>3. CASE line[Dev] = <<>>
        BY <1>3, <2>2, <3>1, <3>3 DEF ProbeSerial, serial
      <3>4. CASE line[Dev] # <<>>
        <4>1. Head(line[Dev]) \in Char
          BY <1>1, <3>4, HeadTailProperties DEF Typed
        <4>2. PICK taken : taken = Append(tempBuffer[record], Head(line[Dev]))
          OBVIOUS
        <4>3. taken \in Seq(Char) /\ Len(taken) = 1
          BY <1>1, <1>2, <3>2, <4>1, <4>2, AppendProperties
        <4>4. taken # <<>> /\ Len(taken) <= 1
          BY <4>3, OneChar
        <4>5. tempBuffer' = [tempBuffer EXCEPT ![record] = taken]
          BY <2>2, <3>4, <4>2 DEF ProbeSerial
        <4>6. tempBuffer' \in [Rec -> Seq(Char)] /\ tempBuffer'[record] = taken
          BY <1>1, <4>3, <4>5
        <4>7. \A r \in Rec : r # record => tempBuffer'[r] = <<>>
          BY <3>2, <4>5
        <4>8. pc' = "begin"
          BY <3>1, <4>4, <4>6
        <4>9. \A r \in Rec : tempBuffer'[r] # <<>> => Probing(r)'
          BY <3>1, <4>7, <4>8 DEF Probing, Has, Dev
        <4>10. ASSUME NEW r \in Rec PROVE Len(tempBuffer'[r]) <= 1
          <5>1. CASE r = record
            BY <4>4, <4>6, <5>1, Zenon
          <5>2. CASE r # record
            BY <1>2, <4>7, <5>2
          <5>3. QED
            BY <5>1, <5>2
        <4>11. QED
          BY <4>6, <4>9, <4>10
      <3>5. QED
        BY <3>3, <3>4
    <2>3. CASE BeginSerial
      <3>1. tempBuffer' = [tempBuffer EXCEPT ![record] = <<>>]
        BY <2>3 DEF BeginSerial
      <3>2. \A r \in Rec : tempBuffer'[r] = <<>>
        BY <1>1, <3>1 DEF Probing
      <3>3. tempBuffer' \in [Rec -> Seq(Char)]
        BY <1>1, <1>2, <3>1
      <3>4. QED
        BY <1>2, <3>2, <3>3
    <2>4. CASE ReadChar
      BY <1>3, <2>4 DEF ReadChar
    <2>5. CASE SerialTimesOut
      BY <1>3, <2>5 DEF SerialTimesOut, serial
    <2>6. QED
      BY <1>8, <2>1, <2>2, <2>3, <2>4, <2>5 DEF SerialStep
  <1>9. ASSUME IpStep, UNCHANGED serial PROVE TempInv'
    <2>1. Kind[Dev] \in {"tcp", "udp"}
      BY <1>9 DEF IpStep, WriteIp, ProbeIp, BeginIp, TestIp, Receive,
         ReceiveNothing, Copy, CopyDone, PlaceInv, Has
    <2>2. QED
      BY <1>5, <1>9, <2>1 DEF serial, Has
  <1>10. ASSUME NidaqStep, UNCHANGED serial PROVE TempInv'
    <2>1. Kind[Dev] = "nidaq"
      BY <1>10 DEF NidaqStep, WriteNidaq, TestFlag, ClearFlag, ReadSample, PlaceInv, Has
    <2>2. QED
      BY <1>5, <1>10, <2>1 DEF serial, Has
  <1>11. ASSUME GpibStep, UNCHANGED serial PROVE TempInv'
    <2>1. Kind[Dev] = "gpib"
      BY <1>11 DEF GpibStep, WriteGpib, ProbeGpib, BeginGpib, TakeChar, GpibTimesOut, Has
    <2>2. QED
      BY <1>5, <1>11, <2>1 DEF serial, Has
  <1>12. CASE Outside
    <2>1. UNCHANGED <<conf, pc, record, tempBuffer>>
      BY <1>12 DEF Outside, TimeoutPasses, Expire, SerialArrives, IpArrives,
         PeerCloses, Sample, Answers, EveryNCallback, Arrives, turn, serial
    <2>2. QED
      BY <1>4, <2>1
  <1>13. QED
    BY <1>6, <1>7, <1>8, <1>9, <1>10, <1>11, <1>12 DEF Next, Program

Base == PlaceInv /\ Typed /\ TempInv

LEMMA BaseHolds == Spec => []Base
  <1>1. Init => Base
    BY InitPlace, InitTemp DEF Base
  <1>2. Base /\ [Next]_vars => Base'
    BY PlaceKept, TypedKept, TempKept DEF Base
  <1>3. QED
    BY <1>1, <1>2, PTL DEF Spec

(* Between two turns the shared variables of the IP ports and the buffers  *)
(* of the serial ports are empty, for any number of records and however    *)
(* they share their ports.                                                 *)
THEOREM NothingHeldBackHolds == Spec => []NothingHeldBack
  <1>1. Base => NothingHeldBack
    BY DEF Base, PlaceInv, TempInv, Probing, NothingHeldBack
  <1>2. QED
    BY <1>1, BaseHolds, PTL

-----------------------------------------------------------------------------
(***************************************************************************)
(* A sample for every callback that is owed, announced or being answered.  *)
(***************************************************************************)

Listening ==
    \A r \in Rec : Kind[conf[r].device] = "nidaq" => conf[r].message = "none"

Owed ==
    callbacks + (IF dataAv THEN 1 ELSE 0)
              + (IF pc = "begin" /\ Has({"nidaq"}) THEN 1 ELSE 0)

SampleInv ==
    /\ callbacks \in Nat /\ dataAv \in BOOLEAN
    /\ pc = "clear" => dataAv
    /\ Listening => Owed <= Len(fifo)

LEMMA InitSample == Init => SampleInv
  <1> SUFFICES ASSUME Init PROVE SampleInv
    OBVIOUS
  <1>1. callbacks = 0 /\ pc = "idle" /\ fifo = <<>> /\ Len(fifo) = 0
    BY DEF Init, DataInit, NidaqInit
  <1>2. dataAv \in BOOLEAN /\ ~dataAv
    BY Zenon DEF Init, NidaqInit
  <1>3. Owed = 0
    BY <1>1, <1>2 DEF Owed
  <1>4. callbacks \in Nat /\ pc # "clear" /\ Owed <= Len(fifo)
    BY <1>1, <1>3
  <1>5. QED
    BY <1>2, <1>4, Zenon DEF SampleInv

LEMMA SampleKept == Base /\ SampleInv /\ [Next]_vars => SampleInv'
  <1> SUFFICES ASSUME Base, SampleInv, [Next]_vars PROVE SampleInv'
    OBVIOUS
  <1> USE DEF SampleInv
  <1>1. PlaceInv /\ fifo \in Seq(Char) /\ Len(fifo) \in Nat
    BY LenProperties DEF Base, Typed
  <1>2. ASSUME UNCHANGED <<conf, pc, record, nidaq>> PROVE SampleInv'
    BY <1>2 DEF Owed, Listening, Has, Dev, nidaq
  <1>3. ASSUME conf' = conf, UNCHANGED nidaq, pc # "begin" \/ ~Has({"nidaq"}),
               pc' # "clear", pc' # "begin" \/ ~Has({"nidaq"})'
        PROVE  SampleInv'
    BY <1>1, <1>3 DEF Owed, Listening, nidaq
  <1>4. CASE UNCHANGED vars
    BY <1>2, <1>4 DEF vars, turn
  <1>5. ASSUME NextTurn \/ Log, UNCHANGED nidaq PROVE SampleInv'
    BY <1>3, <1>5 DEF NextTurn, Log, Goto
  <1>6. ASSUME SerialStep, UNCHANGED nidaq PROVE SampleInv'
    <2>1. Kind[Dev] = "serial" /\ UNCHANGED <<conf, record>> /\ pc' # "clear"
      BY <1>6 DEF SerialStep, WriteSerial, ProbeSerial, BeginSerial, ReadChar,
         SerialTimesOut, Written, Probed, ReadBegins, Goto, Has
    <2>2. QED
      BY <1>3, <1>6, <2>1 DEF Has, Dev
  <1>7. ASSUME IpStep, UNCHANGED nidaq PROVE SampleInv'
    <2>1. Kind[Dev] \in {"tcp", "udp"} /\ UNCHANGED <<conf, record>> /\ pc' # "clear"
      BY <1>1, <1>7 DEF IpStep, WriteIp, ProbeIp, BeginIp, TestIp, Receive,
         ReceiveNothing, Copy, CopyDone, Written, Probed, ReadBegins, Goto, PlaceInv, Has
    <2>2. QED
      BY <1>3, <1>7, <2>1 DEF Has, Dev
  <1>8. ASSUME GpibStep, UNCHANGED nidaq PROVE SampleInv'
    <2>1. Kind[Dev] = "gpib" /\ UNCHANGED <<conf, record>> /\ pc' # "clear"
      BY <1>8 DEF GpibStep, WriteGpib, ProbeGpib, BeginGpib, TakeChar, GpibTimesOut,
         Written, Probed, ReadBegins, Goto, Has
    <2>2. QED
      BY <1>3, <1>8, <2>1 DEF Has, Dev
  <1>9. CASE NidaqStep
    <2>1. CASE WriteNidaq
      <3>1. /\ conf' = conf /\ record' = record /\ UNCHANGED nidaq
            /\ pc = "write" /\ Kind[Dev] = "nidaq" /\ pc' # "clear"
        BY <2>1 DEF WriteNidaq, Written, Goto, Has
      <3>2. ~Listening'
        BY <1>1, <3>1 DEF Listening, PlaceInv, Dev
      <3>3. QED
        BY <3>1, <3>2 DEF nidaq
    <2>2. CASE TestFlag
      BY <1>1, <2>2 DEF TestFlag, Goto, Owed, Listening, nidaq
    <2>3. CASE ClearFlag
      <3>1. /\ conf' = conf /\ record' = record /\ fifo' = fifo
            /\ callbacks' = callbacks /\ dataAv' = FALSE
            /\ pc = "clear" /\ pc' = "begin"
        BY <2>3 DEF ClearFlag, Probed, Goto
      <3>2. dataAv /\ (Listening' => Listening)
        BY <3>1 DEF Listening
      <3>3. Owed' <= Owed
        BY <3>1, <3>2 DEF Owed
      <3>4. Owed \in Int /\ Owed' \in Int
        BY <3>1 DEF Owed
      <3>5. (Listening => Owed <= Len(fifo))'
        BY <1>1, <3>1, <3>2, <3>3, <3>4
      <3>6. (callbacks \in Nat /\ pc # "clear" /\ dataAv \in BOOLEAN)'
        BY <3>1, Zenon
      <3>7. QED
        BY <3>5, <3>6, Zenon
    <2>4. CASE ReadSample
      <3>1. /\ conf' = conf /\ callbacks' = callbacks /\ dataAv' = dataAv
            /\ pc = "begin" /\ pc' = "log" /\ Has({"nidaq"})
        BY <2>4 DEF ReadSample, Goto
      <3>2. Owed = Owed' + 1 /\ Owed' \in Nat
        BY <3>1 DEF Owed
      <3>3. (Listening => Owed <= Len(fifo))'
        <4> SUFFICES ASSUME Listening' PROVE Owed' <= Len(fifo')
          OBVIOUS
        <4>1. Owed <= Len(fifo)
          BY <3>1 DEF Listening
        <4>2. fifo # <<>>
          BY <3>2, <4>1, <1>1
        <4>3. fifo' = Tail(fifo)
          BY <2>4, <4>2 DEF ReadSample
        <4>4. Len(fifo') = Len(fifo) - 1
          BY <1>1, <4>2, <4>3, HeadTailProperties
        <4>5. QED
          BY <1>1, <3>2, <4>1, <4>4
      <3>4. callbacks' \in Nat /\ pc' # "clear"
        BY <3>1
      <3>5. (dataAv \in BOOLEAN)'
        BY <3>1, Zenon
      <3>6. QED
        BY <3>3, <3>4, <3>5, Zenon
    <2>5. QED
      BY <1>9, <2>1, <2>2, <2>3, <2>4 DEF NidaqStep
  <1>10. CASE Outside
    <2>1. CASE TimeoutPasses
      BY <1>2, <2>1 DEF TimeoutPasses, Expire
    <2>2. CASE EveryNCallback
      <3>1. /\ UNCHANGED <<conf, pc, record, fifo>>
            /\ callbacks \in Nat /\ callbacks > 0
            /\ callbacks' = callbacks - 1 /\ dataAv' = TRUE
        BY <2>2 DEF EveryNCallback, turn
      <3>2. Owed' <= Owed /\ Owed \in Int /\ Owed' \in Int
        BY <3>1 DEF Owed, Has, Dev
      <3>3. Listening' => Listening
        BY <3>1 DEF Listening
      <3>4. QED
        BY <1>1, <3>1, <3>2, <3>3
    <2>3. ASSUME NEW d \in Used, Sample(d) PROVE SampleInv'
      <3>1. PICK text \in Produced(d, 1) : fifo' = fifo \o text
        BY <2>3 DEF Sample
      <3>2. d \in Device
        BY <1>1, RecordTypes DEF Used, PlaceInv
      <3>3. Len(fifo') = Len(fifo) + 1
        <4>1. Arrives(d, 1)
          BY <2>3 DEF Sample
        <4>2. text \in Seq(Char) /\ Len(text) = 1
          BY <1>1, <3>1, <3>2, <4>1, ProducedText DEF Base, Typed
        <4>3. QED
          BY <1>1, <3>1, <4>2, ConcatProperties
      <3>4. /\ UNCHANGED <<conf, pc, record, dataAv>>
            /\ callbacks' = callbacks + 1
        BY <2>3 DEF Sample, Arrives, turn
      <3>5. Owed' = Owed + 1 /\ Owed \in Int
        BY <3>4 DEF Owed, Has, Dev
      <3>6. Listening' => Listening
        BY <3>4 DEF Listening
      <3>7. QED
        BY <1>1, <3>3, <3>4, <3>5, <3>6
    <2>4. ASSUME NEW d \in Used,
                 SerialArrives(d) \/ IpArrives(d) \/ PeerCloses(d) \/ Answers(d),
                 UNCHANGED nidaq
          PROVE  SampleInv'
      BY <1>2, <2>4 DEF SerialArrives, IpArrives, PeerCloses, Answers, Arrives, turn
    <2>5. QED
      BY <1>10, <2>1, <2>2, <2>3, <2>4 DEF Outside
  <1>11. QED
    BY <1>4, <1>5, <1>6, <1>7, <1>8, <1>9, <1>10 DEF Next, Program

(* A record of a task to which nobody sends a message finds a sample when  *)
(* it reads, wherever the callbacks fall between the test of dataAv and    *)
(* its reset, and for any number of records.                               *)
THEOREM SampleWaitsHolds == Spec => []SampleWaits
  <1>1. Init => SampleInv
    BY InitSample
  <1>2. Base /\ SampleInv /\ [Next]_vars => SampleInv'
    BY SampleKept
  <1>3. ASSUME Base, SampleInv PROVE SampleWaits
    <2> SUFFICES ASSUME pc \in {"clear", "begin"}, Has({"nidaq"}),
                        \A r \in Rec : conf[r].device = Dev => conf[r].message = "none"
                 PROVE  fifo # <<>>
      BY DEF SampleWaits
    <2>1. conf \in Confs /\ record \in Rec
      BY <1>3 DEF Base, PlaceInv
    <2>2. \A r \in Rec : Kind[conf[r].device] = "nidaq" => conf[r].device = Dev
      BY <2>1, TaskAssumption DEF Has, Dev
    <2>3. Listening
      BY <2>2 DEF Listening
    <2>4. Owed > 0 /\ Owed \in Nat
      BY <1>3 DEF SampleInv, Owed
    <2>5. Owed <= Len(fifo)
      BY <1>3, <2>3 DEF SampleInv
    <2>6. QED
      BY <2>4, <2>5
  <1>4. QED
    BY <1>1, <1>2, <1>3, BaseHolds, PTL DEF Spec

-----------------------------------------------------------------------------
(***************************************************************************)
(* ReadBuffer holds characters, except that of an IP port, of which        *)
(* nothing is said.                                                        *)
(***************************************************************************)

BufferInv == Has({"serial", "nidaq", "gpib"}) => ReadBuffer \in Seq(Char)

LEMMA BufferHolds == Spec => []BufferInv
  <1>1. Init => BufferInv
    BY EmptySeq DEF Init, DataInit, BufferInv
  <1>2. ASSUME Base, BufferInv, [Next]_vars PROVE BufferInv'
    <2> USE DEF BufferInv, history, serial, nidaq, gpib
    <2>1. /\ Dev \in Device /\ record \in Rec /\ fifo \in Seq(Char) /\ <<>> \in Seq(Char)
          /\ tempBuffer \in [Rec -> Seq(Char)]
          /\ line[Dev] \in Seq(Char) /\ answer[Dev] \in Seq(Char)
      BY <1>2, RecordTypes, EmptySeq DEF Base, PlaceInv, TempInv, Typed, Dev
    <2>2. \A s, t \in Seq(Char) : t # <<>> => Append(s, Head(t)) \in Seq(Char)
      BY HeadTailProperties, AppendProperties
    <2>3. ASSUME UNCHANGED <<conf, record, ReadBuffer>> PROVE BufferInv'
      BY <1>2, <2>3 DEF Has, Dev
    <2>4. ASSUME ReadBuffer' \in Seq(Char) PROVE BufferInv'
      BY <2>4
    <2>5. CASE UNCHANGED vars
      BY <2>3, <2>5 DEF vars, turn
    <2>6. CASE NextTurn \/ Log
      BY <1>2, <2>1, <2>4, <2>6 DEF NextTurn, Log, Base, PlaceInv, Reading
    <2>7. CASE SerialStep
      <3>1. CASE WriteSerial \/ ProbeSerial \/ SerialTimesOut
        BY <2>3, <3>1 DEF WriteSerial, ProbeSerial, SerialTimesOut, Written, Probed, Goto
      <3>2. CASE BeginSerial \/ ReadChar
        <4>1. Has({"serial"})
          BY <3>2 DEF BeginSerial, ReadChar
        <4>2. ReadBuffer \in Seq(Char)
          BY <1>2, <4>1 DEF Has
        <4>3. QED
          BY <2>1, <2>2, <2>4, <3>2, <4>2 DEF BeginSerial, ReadChar, ReadBegins
      <3>3. QED
        BY <2>7, <3>1, <3>2 DEF SerialStep
    <2>8. CASE IpStep
      <3>1. Kind[Dev] \in {"tcp", "udp"} /\ UNCHANGED <<conf, record>>
        BY <1>2, <2>8 DEF IpStep, WriteIp, ProbeIp, BeginIp, TestIp, Receive,
           ReceiveNothing, Copy, CopyDone, Written, Probed, ReadBegins, Goto,
           Base, PlaceInv, Has
      <3>2. QED
        BY <3>1 DEF Has, Dev
    <2>9. CASE NidaqStep
      <3>1. CASE WriteNidaq \/ TestFlag \/ ClearFlag
        BY <2>3, <3>1 DEF WriteNidaq, TestFlag, ClearFlag, Written, Probed, Goto
      <3>2. CASE ReadSample
        <4>1. Unread \in Char /\ (fifo # <<>> => Head(fifo) \in Char)
          <5>1. Unread \in Char
            BY BoundAssumption DEF Unread, Char
          <5>2. fifo # <<>> => Head(fifo) \in Char
            BY <2>1, HeadTailProperties
          <5>3. QED
            BY <5>1, <5>2
        <4>2. \A c \in Char : <<c>> \in Seq(Char)
          OBVIOUS
        <4>3. QED
          BY <2>4, <3>2, <4>1, <4>2 DEF ReadSample
      <3>3. QED
        BY <2>9, <3>1, <3>2 DEF NidaqStep
    <2>10. CASE GpibStep
      <3>1. CASE WriteGpib \/ ProbeGpib
        BY <2>3, <3>1 DEF WriteGpib, ProbeGpib, Written, Probed, Goto
      <3>2. CASE BeginGpib \/ TakeChar \/ GpibTimesOut
        <4>1. Has({"gpib"})
          BY <3>2 DEF BeginGpib, TakeChar, GpibTimesOut
        <4>2. ReadBuffer \in Seq(Char)
          BY <1>2, <4>1 DEF Has
        <4>3. QED
          BY <2>1, <2>2, <2>4, <3>2, <4>2 DEF BeginGpib, TakeChar, GpibTimesOut, ReadBegins
      <3>3. QED
        BY <2>10, <3>1, <3>2 DEF GpibStep
    <2>11. CASE Outside
      <3>1. UNCHANGED <<conf, record, ReadBuffer>>
        BY <2>11 DEF Outside, TimeoutPasses, Expire, SerialArrives, IpArrives,
           PeerCloses, Sample, Answers, EveryNCallback, Arrives, turn
      <3>2. QED
        BY <2>3, <3>1
    <2>12. QED
      BY <1>2, <2>5, <2>6, <2>7, <2>8, <2>9, <2>10, <2>11 DEF Next, Program
  <1>3. QED
    BY <1>1, <1>2, BaseHolds, PTL DEF Spec

-----------------------------------------------------------------------------
(***************************************************************************)
(* The reply to a message.                                                 *)
(***************************************************************************)

Later(s, m) == \A i \in 1..Len(s) : s[i].n > m

LEMMA LaterRest ==
    ASSUME NEW s \in Seq(Char), s # <<>>, NEW m \in Nat, Later(s, m)
    PROVE  Later(Tail(s), m) /\ Head(s) \in Char /\ Head(s).n > m
  <1>1. /\ Len(s) \in Nat \ {0} /\ Head(s) = s[1] /\ Head(s) \in Char
        /\ Len(Tail(s)) = Len(s) - 1
        /\ \A i \in 1..Len(Tail(s)) : Tail(s)[i] = s[i + 1]
    BY EmptySeq, HeadTailProperties
  <1>2. \A i \in 1..Len(Tail(s)) : i + 1 \in 1..Len(s)
    BY <1>1
  <1>3. 1 \in 1..Len(s)
    BY <1>1
  <1>4. QED
    BY <1>1, <1>2, <1>3 DEF Later

LEMMA LaterAppend ==
    ASSUME NEW s \in Seq(Char), NEW c \in Char, NEW m \in Nat, Later(s, m), c.n > m
    PROVE  Later(Append(s, c), m)
  <1>1. /\ Len(s) \in Nat /\ Len(Append(s, c)) = Len(s) + 1
        /\ \A i \in 1..Len(s) : Append(s, c)[i] = s[i]
        /\ Append(s, c)[Len(s) + 1] = c
    BY AppendProperties
  <1>2. \A i \in 1..(Len(s) + 1) : i \in 1..Len(s) \/ i = Len(s) + 1
    BY <1>1
  <1>3. QED
    BY <1>1, <1>2 DEF Later

LEMMA LaterConcat ==
    ASSUME NEW s \in Seq(Char), NEW t \in Seq(Char), NEW m \in Nat, Later(s, m), Later(t, m)
    PROVE  Later(s \o t, m)
  <1>1. /\ Len(s) \in Nat /\ Len(t) \in Nat /\ Len(s \o t) = Len(s) + Len(t)
        /\ \A i \in 1..(Len(s) + Len(t)) :
              (s \o t)[i] = IF i <= Len(s) THEN s[i] ELSE t[i - Len(s)]
    BY ConcatProperties
  <1>2. SUFFICES ASSUME NEW i \in 1..(Len(s) + Len(t)) PROVE (s \o t)[i].n > m
    BY <1>1 DEF Later
  <1>3. CASE i <= Len(s)
    BY <1>1, <1>3 DEF Later
  <1>4. CASE ~(i <= Len(s))
    <2>1. i - Len(s) \in 1..Len(t)
      BY <1>1, <1>4
    <2>2. QED
      BY <1>1, <1>4, <2>1 DEF Later
  <1>5. QED
    BY <1>3, <1>4

(* From the moment the message begins to go out, the line and ReadBuffer   *)
(* hold only what arrived later.                                           *)
Replying == Has({"serial"}) /\ conf[record].message = "text"

FreshInv ==
    Replying /\ pc \in {"begin", "test", "log"} =>
        /\ asked <= arrived[Dev]
        /\ Later(line[Dev], asked)
        /\ Later(ReadBuffer, asked)

Known == Base /\ BufferInv

LEMMA FreshKept == Known /\ FreshInv /\ [Next]_vars => FreshInv'
  <1> SUFFICES ASSUME Known, FreshInv, [Next]_vars PROVE FreshInv'
    OBVIOUS
  <1> USE DEF FreshInv
  <1>1. PlaceInv /\ Dev \in Device /\ record \in Rec
    BY RecordTypes DEF Known, Base, PlaceInv, Dev
  <1>2. /\ line \in [Device -> Seq(Char)] /\ line[Dev] \in Seq(Char)
        /\ arrived \in [Device -> 0..MaxText] /\ arrived[Dev] \in Nat /\ asked \in 0..MaxText
        /\ Replying => ReadBuffer \in Seq(Char)
    BY <1>1 DEF Known, Base, Typed, BufferInv, Replying, Has
  <1>3. \A m : Later(<<>>, m)
    BY DEF Later
  <1>4. ASSUME UNCHANGED <<conf, record>> PROVE Dev' = Dev /\ Replying' = Replying
    BY <1>4 DEF Dev, Replying, Has
  <1>5. ASSUME UNCHANGED <<conf, record, ReadBuffer, arrived, asked, line>>,
               pc' \in {"begin", "test", "log"} => pc \in {"begin", "test", "log"}
        PROVE  FreshInv'
    BY <1>4, <1>5
  <1>6. ASSUME UNCHANGED <<conf, record>>, ~Replying PROVE FreshInv'
    BY <1>4, <1>6
  <1>7. ASSUME pc' \notin {"begin", "test", "log"} PROVE FreshInv'
    BY <1>7
  <1>8. CASE UNCHANGED vars
    BY <1>5, <1>8 DEF vars, turn, history, serial
  <1>9. CASE NextTurn \/ Log
    BY <1>1, <1>7, <1>9 DEF NextTurn, Log, Goto, PlaceInv
  <1>10. CASE SerialStep
    <2>1. CASE WriteSerial
      <3>1. /\ UNCHANGED <<conf, record, ReadBuffer, arrived>>
            /\ ReadBuffer = <<>> /\ asked' = arrived[Dev]
        BY <1>1, <2>1 DEF WriteSerial, Written, Goto, PlaceInv, Reading
      <3>2. Replying => line'[Dev] = <<>>
        BY <1>1, <1>2, <2>1 DEF WriteSerial, Replying
      <3>3. asked' <= arrived'[Dev] /\ Later(ReadBuffer', asked')
        BY <1>2, <1>3, <3>1
      <3>4. Replying => Later(line'[Dev], asked')
        BY <1>3, <3>2
      <3>5. QED
        BY <1>4, <3>1, <3>3, <3>4
    <2>2. CASE ProbeSerial
      BY <1>1, <1>6, <2>2 DEF ProbeSerial, Probed, Goto, PlaceInv, Replying
    <2>3. CASE BeginSerial
      <3>1. UNCHANGED <<conf, record, arrived, asked, line>> /\ pc = "begin"
        BY <2>3 DEF BeginSerial, ReadBegins, Goto, history
      <3>2. Replying => ReadBuffer' = <<>>
        BY <1>1, <2>3 DEF BeginSerial, ReadBegins, Known, Base, TempInv, Probing, Replying
      <3>3. QED
        BY <1>3, <1>4, <3>1, <3>2
    <2>4. CASE ReadChar
      <3>1. /\ UNCHANGED <<conf, record, arrived, asked>> /\ pc = "test"
            /\ ReadBuffer' = Append(ReadBuffer, Head(line[Dev]))
            /\ line'[Dev] = Tail(line[Dev]) /\ line[Dev] # <<>>
        BY <1>1, <1>2, <2>4 DEF ReadChar, TakeNext, Goto, history
      <3>2. SUFFICES ASSUME Replying PROVE FreshInv'
        BY <1>6, <3>1
      <3>3. /\ Later(Tail(line[Dev]), asked)
            /\ Head(line[Dev]) \in Char /\ Head(line[Dev]).n > asked
        BY <1>2, <3>1, <3>2, LaterRest
      <3>4. Later(Append(ReadBuffer, Head(line[Dev])), asked)
        BY <1>2, <3>1, <3>2, <3>3, LaterAppend
      <3>5. QED
        BY <1>4, <3>1, <3>2, <3>3, <3>4
    <2>5. CASE SerialTimesOut
      BY <1>5, <2>5 DEF SerialTimesOut, Goto, history, serial
    <2>6. QED
      BY <1>10, <2>1, <2>2, <2>3, <2>4, <2>5 DEF SerialStep
  <1>11. CASE IpStep \/ NidaqStep \/ GpibStep
    <2>1. ~Has({"serial"}) /\ UNCHANGED <<conf, record>>
      BY <1>1, <1>11 DEF IpStep, WriteIp, ProbeIp, BeginIp, TestIp, Receive,
         ReceiveNothing, Copy, CopyDone, NidaqStep, WriteNidaq, TestFlag, ClearFlag,
         ReadSample, GpibStep, WriteGpib, ProbeGpib, BeginGpib, TakeChar, GpibTimesOut,
         Written, Probed, ReadBegins, Goto, PlaceInv, Has
    <2>2. QED
      BY <1>6, <2>1 DEF Replying
  <1>12. CASE Outside
    <2>1. CASE TimeoutPasses
      BY <1>5, <2>1 DEF TimeoutPasses, Expire, history, serial
    <2>2. CASE EveryNCallback /\ UNCHANGED serial
      BY <1>5, <2>2 DEF EveryNCallback, turn, history, serial
    <2>3. ASSUME NEW d \in Used, PeerCloses(d), UNCHANGED serial PROVE FreshInv'
      BY <1>5, <2>3 DEF PeerCloses, turn, history, serial
    <2>4. ASSUME NEW d \in Used, NEW k \in Nat, Arrives(d, k), UNCHANGED line
          PROVE  FreshInv'
      <3>1. UNCHANGED <<conf, pc, record, ReadBuffer, asked>>
        BY <2>4 DEF Arrives, turn
      <3>2. arrived[Dev] <= arrived'[Dev] /\ arrived'[Dev] \in Nat
        BY <1>1, <1>2, <2>4 DEF Arrives
      <3>3. asked <= arrived[Dev] => asked' <= arrived'[Dev]
        BY <1>2, <3>1, <3>2
      <3>4. QED
        BY <1>4, <2>4, <3>1, <3>3
    <2>5. ASSUME NEW d \in Used,
                 IpArrives(d) \/ Sample(d) \/ Answers(d), UNCHANGED serial
          PROVE  FreshInv'
      <3>1. \E k \in Nat : Arrives(d, k)
        BY <2>5, RxSizeAssumption DEF IpArrives, Sample, Answers
      <3>2. QED
        BY <2>4, <2>5, <3>1 DEF serial
    <2>6. ASSUME NEW d \in Used, SerialArrives(d) PROVE FreshInv'
      <3>1. PICK text \in Produced(d, 1) : line' = [line EXCEPT ![d] = @ \o text]
        BY <2>6 DEF SerialArrives
      <3>2. UNCHANGED <<conf, pc, record, ReadBuffer, asked>>
        BY <2>6 DEF SerialArrives, Arrives, turn
      <3>3. arrived[Dev] <= arrived'[Dev] /\ arrived'[Dev] \in Nat
        BY <1>1, <1>2, <2>6 DEF SerialArrives, Arrives
      <3>4. asked <= arrived[Dev] => asked' <= arrived'[Dev]
        BY <1>2, <3>2, <3>3
      <3>5. SUFFICES ASSUME Replying, pc \in {"begin", "test", "log"}
                     PROVE  Later(line'[Dev], asked)
        BY <1>4, <3>2, <3>4
      <3>6. CASE d = Dev
        <4>1. text \in Seq(Char) /\ Len(text) = 1 /\ \A i \in 1..1 : text[i].n = arrived[Dev] + i
          <5>1. Arrives(Dev, 1) /\ text \in Produced(Dev, 1)
            BY <2>6, <3>1, <3>6 DEF SerialArrives
          <5>2. QED
            BY <1>1, <1>2, <5>1, ProducedText
        <4>2. Later(text, asked)
          BY <1>2, <3>5, <4>1 DEF Later
        <4>3. Later(line[Dev] \o text, asked)
          BY <1>2, <3>5, <4>1, <4>2, LaterConcat
        <4>4. QED
          BY <1>1, <1>2, <3>1, <3>6, <4>3
      <3>7. CASE d # Dev
        BY <1>1, <1>2, <3>1, <3>5, <3>7
      <3>8. QED
        BY <3>6, <3>7
    <2>7. QED
      BY <1>12, <2>1, <2>2, <2>3, <2>5, <2>6 DEF Outside
  <1>13. QED
    BY <1>8, <1>9, <1>10, <1>11, <1>12 DEF Next, Program

(* What is logged as the reply on a serial line arrived after the message  *)
(* began to go out, for any number of records that share the line.         *)
THEOREM FreshReplyHolds == Spec => []FreshReply
  <1>1. Init => FreshInv
    BY DEF Init, DataInit, FreshInv
  <1>2. Known /\ FreshInv /\ [Next]_vars => FreshInv'
    BY FreshKept
  <1>3. ASSUME Known, FreshInv PROVE FreshReply
    <2> SUFFICES ASSUME pc = "log", Replying, NEW i \in DOMAIN ReadBuffer
                 PROVE  ReadBuffer[i].n > asked
      BY DEF FreshReply, Replying
    <2>1. ReadBuffer \in Seq(Char)
      BY <1>3 DEF Known, BufferInv, Replying, Has
    <2>2. QED
      BY <1>3, <2>1 DEF FreshInv, Later
  <1>4. QED
    BY <1>1, <1>2, <1>3, BaseHolds, BufferHolds, PTL DEF Spec, Known

-----------------------------------------------------------------------------
(***************************************************************************)
(* One reply for each read.                                                *)
(***************************************************************************)

EosFree(s, from, upto) == \A i \in from..upto : ~s[i].eos

LEMMA EosFreeAppend ==
    ASSUME NEW s \in Seq(Char), NEW c \in Char, NEW from \in Nat \ {0},
           EosFree(s, from, Len(s))
    PROVE  /\ EosFree(Append(s, c), from, Len(Append(s, c)) - 1)
           /\ ~c.eos => EosFree(Append(s, c), from, Len(Append(s, c)))
  <1>1. /\ Len(s) \in Nat /\ Len(Append(s, c)) = Len(s) + 1
        /\ \A i \in 1..Len(s) : Append(s, c)[i] = s[i]
        /\ Append(s, c)[Len(s) + 1] = c
    BY AppendProperties
  <1>2. \A i \in from..Len(s) : i \in 1..Len(s)
    BY <1>1
  <1>3. EosFree(Append(s, c), from, Len(s))
    BY <1>1, <1>2, Zenon DEF EosFree
  <1>4. ASSUME ~c.eos, NEW i \in from..(Len(s) + 1) PROVE ~Append(s, c)[i].eos
    <2>1. i \in from..Len(s) \/ i = Len(s) + 1
      BY <1>1
    <2>2. QED
      BY <1>1, <1>3, <1>4, <2>1, Zenon DEF EosFree
  <1>5. Len(Append(s, c)) - 1 = Len(s)
    BY <1>1
  <1>6. QED
    BY <1>1, <1>3, <1>4, <1>5, Zenon DEF EosFree

LEMMA EosFreeLess ==
    ASSUME NEW s \in Seq(Char), NEW from \in Nat \ {0}, EosFree(s, from, Len(s))
    PROVE  EosFree(s, from, Len(s) - 1)
  <1>1. \A i \in from..(Len(s) - 1) : i \in from..Len(s)
    BY LenProperties
  <1>2. QED
    BY <1>1, Zenon DEF EosFree

(* Where the reads that are looked at begin, and which reads those are.    *)
First == IF Has({"serial"}) /\ conf[record].message = "none" THEN 2 ELSE 1

EosRead == \/ Has({"serial"}) /\ conf[record].eos
           \/ Has({"gpib"}) /\ HandleEos

ReplyInv ==
    EosRead =>
        /\ pc = "test" => EosFree(ReadBuffer, First, Len(ReadBuffer))
        /\ pc = "log"  => EosFree(ReadBuffer, First, Len(ReadBuffer) - 1)

LEMMA ReplyKept == Known /\ ReplyInv /\ [Next]_vars => ReplyInv'
  <1> SUFFICES ASSUME Known, ReplyInv, [Next]_vars PROVE ReplyInv'
    OBVIOUS
  <1>1. /\ PlaceInv /\ Dev \in Device /\ record \in Rec
        /\ First \in Nat \ {0} /\ (EosRead => ReadBuffer \in Seq(Char))
    BY RecordTypes DEF Known, Base, PlaceInv, Dev, First, EosRead, BufferInv, Has
  <1>2. ASSUME UNCHANGED <<conf, record>> PROVE First' = First /\ (EosRead' <=> EosRead)
    BY <1>2 DEF First, EosRead, HandleEos, SetsEos, Has, Dev
  <1>3. ASSUME UNCHANGED <<conf, record>>, ~EosRead PROVE ReplyInv'
    BY <1>2, <1>3 DEF ReplyInv
  <1>4. ASSUME pc' \notin {"test", "log"} PROVE ReplyInv'
    BY <1>4 DEF ReplyInv
  <1>5. ASSUME UNCHANGED <<conf, pc, record, ReadBuffer>> PROVE ReplyInv'
    BY <1>2, <1>5, Zenon DEF ReplyInv
  <1>6. ASSUME UNCHANGED <<conf, record>>, pc' = "test", ReadBuffer' \in Seq(Char),
               EosRead => EosFree(ReadBuffer', First, Len(ReadBuffer'))
        PROVE  ReplyInv'
    BY <1>2, <1>6 DEF ReplyInv
  <1>7. ASSUME UNCHANGED <<conf, record>>, pc' = "log",
               EosRead => EosFree(ReadBuffer', First, Len(ReadBuffer') - 1)
        PROVE  ReplyInv'
    BY <1>2, <1>7 DEF ReplyInv
  <1>8. /\ <<>> \in Seq(Char) /\ EosFree(<<>>, First, Len(<<>>))
        /\ EosFree(<<>>, First, Len(<<>>) - 1)
    <2>1. \A i \in First..0 : FALSE
      BY <1>1
    <2>2. \A i \in First..(0 - 1) : FALSE
      BY <1>1
    <2>3. QED
      BY <2>1, <2>2, EmptySeq DEF EosFree
  <1>9. CASE UNCHANGED vars
    BY <1>5, <1>9 DEF vars, turn
  <1>10. CASE NextTurn \/ Log
    BY <1>1, <1>4, <1>10 DEF NextTurn, Log, Goto, PlaceInv
  <1>11. CASE SerialStep
    <2>1. CASE WriteSerial \/ ProbeSerial
      BY <1>4, <2>1 DEF WriteSerial, ProbeSerial, Written, Probed, Goto
    <2>2. CASE BeginSerial
      <3> DEFINE text == tempBuffer[record]
      <3>1. /\ UNCHANGED <<conf, record>> /\ pc = "begin" /\ pc' = "test"
            /\ ReadBuffer' = text
        BY <2>2 DEF BeginSerial, ReadBegins, Goto
      <3>2. CASE text = <<>>
        BY <1>6, <1>8, <3>1, <3>2
      <3>3. CASE text # <<>>
        <4>1. text \in Seq(Char) /\ Len(text) <= 1 /\ First = 2
          BY <1>1, <3>3 DEF Known, Base, TempInv, Probing, First
        <4>2. \A i \in 2..Len(text) : FALSE
          BY <4>1, LenProperties
        <4>3. EosFree(text, First, Len(text))
          BY <4>1, <4>2 DEF EosFree
        <4>4. QED
          BY <1>6, <3>1, <4>1, <4>3
      <3>4. QED
        BY <3>2, <3>3
    <2>3. CASE ReadChar
      <3> DEFINE c == Head(line[Dev])
      <3>1. /\ UNCHANGED <<conf, record>> /\ pc = "test" /\ Has({"serial"})
            /\ ReadBuffer' = Append(ReadBuffer, c)
            /\ pc' = IF conf[record].eos /\ c.eos THEN "log" ELSE "test"
            /\ line[Dev] # <<>>
        BY <2>3 DEF ReadChar, Goto
      <3>2. SUFFICES ASSUME EosRead PROVE ReplyInv'
        BY <1>3, <3>1
      <3>3. c \in Char
        BY <1>1, <3>1, HeadTailProperties DEF Known, Base, Typed
      <3>4. EosFree(ReadBuffer, First, Len(ReadBuffer))
        BY <3>1, <3>2 DEF ReplyInv
      <3>5. /\ EosFree(ReadBuffer', First, Len(ReadBuffer') - 1)
            /\ ~c.eos => EosFree(ReadBuffer', First, Len(ReadBuffer'))
            /\ ReadBuffer' \in Seq(Char)
        BY <1>1, <3>1, <3>2, <3>3, <3>4, EosFreeAppend, AppendProperties
      <3>6. conf[record].eos
        BY <3>1, <3>2 DEF EosRead, Has
      <3>7. CASE c.eos
        BY <1>7, <3>1, <3>5, <3>6, <3>7
      <3>8. CASE ~c.eos
        BY <1>6, <3>1, <3>5, <3>8
      <3>9. QED
        BY <3>7, <3>8
    <2>4. CASE SerialTimesOut
      <3>1. /\ UNCHANGED <<conf, record, ReadBuffer>> /\ pc = "test" /\ pc' = "log"
        BY <2>4 DEF SerialTimesOut, Goto
      <3>2. EosRead => EosFree(ReadBuffer', First, Len(ReadBuffer') - 1)
        BY <1>1, <3>1, EosFreeLess DEF ReplyInv
      <3>3. QED
        BY <1>7, <3>1, <3>2
    <2>5. QED
      BY <1>11, <2>1, <2>2, <2>3, <2>4 DEF SerialStep
  <1>12. CASE IpStep
    <2>1. Kind[Dev] \in {"tcp", "udp"} /\ UNCHANGED <<conf, record>>
      BY <1>1, <1>12 DEF IpStep, WriteIp, ProbeIp, BeginIp, TestIp, Receive,
         ReceiveNothing, Copy, CopyDone, Written, Probed, ReadBegins, Goto, PlaceInv, Has
    <2>2. QED
      BY <1>3, <2>1 DEF EosRead, Has
  <1>13. CASE NidaqStep
    <2>1. Kind[Dev] = "nidaq" /\ UNCHANGED <<conf, record>>
      BY <1>1, <1>13 DEF NidaqStep, WriteNidaq, TestFlag, ClearFlag, ReadSample,
         Written, Probed, Goto, PlaceInv, Has
    <2>2. QED
      BY <1>3, <2>1 DEF EosRead, Has
  <1>14. CASE GpibStep
    <2>1. CASE WriteGpib \/ ProbeGpib
      BY <1>4, <2>1 DEF WriteGpib, ProbeGpib, Written, Probed, Goto
    <2>2. CASE BeginGpib
      BY <1>6, <1>8, <2>2 DEF BeginGpib, ReadBegins, Goto
    <2>3. CASE TakeChar
      <3> DEFINE c == Head(answer[Dev])
      <3>1. /\ UNCHANGED <<conf, record>> /\ pc = "test" /\ Has({"gpib"})
            /\ ReadBuffer' = Append(ReadBuffer, c) /\ answer[Dev] # <<>>
        BY <2>3 DEF TakeChar, Goto
      <3>2. pc' = "log" \/ (pc' = "test" /\ ~(HandleEos /\ c.eos))
        BY <2>3, Zenon DEF TakeChar, Goto
      <3>3. SUFFICES ASSUME EosRead PROVE ReplyInv'
        BY <1>3, <3>1
      <3>4. c \in Char
        BY <1>1, <3>1, HeadTailProperties DEF Known, Base, Typed
      <3>5. EosFree(ReadBuffer, First, Len(ReadBuffer))
        BY <3>1, <3>3 DEF ReplyInv
      <3>6. /\ EosFree(ReadBuffer', First, Len(ReadBuffer') - 1)
            /\ ~c.eos => EosFree(ReadBuffer', First, Len(ReadBuffer'))
            /\ ReadBuffer' \in Seq(Char)
        BY <1>1, <3>1, <3>3, <3>4, <3>5, EosFreeAppend, AppendProperties
      <3>7. HandleEos
        BY <3>1, <3>3 DEF EosRead, Has
      <3>8. CASE pc' = "log"
        BY <1>7, <3>1, <3>6, <3>8
      <3>9. CASE pc' = "test" /\ ~(HandleEos /\ c.eos)
        BY <1>6, <3>1, <3>6, <3>7, <3>9
      <3>10. QED
        BY <3>2, <3>8, <3>9
    <2>4. CASE GpibTimesOut
      BY <1>7, <1>8, <2>4 DEF GpibTimesOut, Goto
    <2>5. QED
      BY <1>14, <2>1, <2>2, <2>3, <2>4 DEF GpibStep
  <1>15. CASE Outside
    <2>1. UNCHANGED <<conf, pc, record, ReadBuffer>>
      BY <1>15 DEF Outside, TimeoutPasses, Expire, SerialArrives, IpArrives,
         PeerCloses, Sample, Answers, EveryNCallback, Arrives, turn
    <2>2. QED
      BY <1>5, <2>1
  <1>16. QED
    BY <1>9, <1>10, <1>11, <1>12, <1>13, <1>14, <1>15 DEF Next, Program

(* A read of a serial or GPIB port whose EOS character is set logs one     *)
(* reply, whatever arrives and whenever the read times out.                *)
THEOREM OneReplyHolds == Spec => []OneReply
  <1>1. Init => ReplyInv
    BY DEF Init, DataInit, ReplyInv
  <1>2. Known /\ ReplyInv /\ [Next]_vars => ReplyInv'
    BY ReplyKept
  <1>3. ASSUME Known, ReplyInv PROVE OneReply
    <2> SUFFICES ASSUME pc = "log", NEW i \in 1..(Len(ReadBuffer) - 1),
                        ReadBuffer[i].eos
                 PROVE  /\ (Has({"serial"}) /\ conf[record].eos) =>
                              (i = 1 /\ conf[record].message = "none")
                        /\ ~(Has({"gpib"}) /\ HandleEos)
      BY DEF OneReply
    <2>1. EosRead => i \notin First..(Len(ReadBuffer) - 1)
      BY <1>3, Zenon DEF ReplyInv, EosFree
    <2>2. ASSUME EosRead PROVE First = 2 /\ i = 1
      <3>1. ReadBuffer \in Seq(Char)
        BY <1>3, <2>2 DEF Known, BufferInv, EosRead, Has
      <3>2. QED
        BY <2>1, <2>2, <3>1, LenProperties DEF First
    <2>3. First = 2 => Kind[Dev] = "serial" /\ conf[record].message = "none"
      BY DEF First, Has
    <2>4. ~(Has({"gpib"}) /\ Kind[Dev] = "serial")
      BY DEF Has
    <2>5. ASSUME Has({"serial"}), conf[record].eos
          PROVE  i = 1 /\ conf[record].message = "none"
      <3>1. EosRead
        BY <2>5, Zenon DEF EosRead
      <3>2. QED
        BY <2>2, <2>3, <3>1
    <2>6. ASSUME Has({"gpib"}), HandleEos PROVE FALSE
      <3>1. EosRead
        BY <2>6, Zenon DEF EosRead
      <3>2. QED
        BY <2>2, <2>3, <2>4, <2>6, <3>1
    <2>7. QED
      BY <2>5, <2>6, Zenon
  <1>4. QED
    BY <1>1, <1>2, <1>3, BaseHolds, BufferHolds, PTL DEF Spec, Known

-----------------------------------------------------------------------------
(***************************************************************************)
(* What the program gives up.  No segment is empty, so recvfrom() stores   *)
(* something of every one that it takes from a connection.                 *)
(***************************************************************************)

Segment == Seq(Char) \ {<<>>}

LossInv ==
    /\ wire \in [Device -> Seq(Segment)]
    /\ DOMAIN lost = Device
    /\ NothingLost

LEMMA TakenApart ==
    ASSUME PlaceInv, LossInv, Receive
    PROVE  /\ Head(wire[Dev]) \in Segment
           /\ LeftOver \in Seq(Segment)
           /\ Kind[Dev] = "tcp" => Stored # <<>>
  <1> DEFINE text == Head(wire[Dev])
             rest == SubSeq(text, RxSize + 1, Len(text))
  <1>1. bytes = 0 /\ wire[Dev] # <<>> /\ wire[Dev] \in Seq(Segment)
    BY RecordTypes DEF PlaceInv, LossInv, Receive, Dev
  <1>2. text \in Segment /\ Tail(wire[Dev]) \in Seq(Segment)
    BY <1>1, HeadTailProperties
  <1>3. Room = RxSize /\ RxSize \in Nat \ {0}
    BY <1>1, RxSizeAssumption DEF Room
  <1>4. text \in Seq(Char) /\ text # <<>> /\ Len(text) \in Nat \ {0}
    BY <1>2, EmptySeq DEF Segment
  <1>5. ASSUME Len(text) > RxSize
        PROVE  rest \in Segment /\ SubSeq(text, 1, RxSize) # <<>>
    <2>1. /\ rest \in Seq(Char) /\ Len(rest) = Len(text) - RxSize
          /\ SubSeq(text, 1, RxSize) \in Seq(Char)
          /\ Len(SubSeq(text, 1, RxSize)) = RxSize
      BY <1>3, <1>4, <1>5, SubSeqProperties
    <2>2. Len(rest) # 0 /\ Len(SubSeq(text, 1, RxSize)) # 0
      BY <1>3, <1>4, <1>5, <2>1
    <2>3. rest # <<>> /\ SubSeq(text, 1, RxSize) # <<>>
      BY <2>1, <2>2, EmptySeq
    <2>4. QED
      BY <2>1, <2>3 DEF Segment
  <1>6. ASSUME NEW s \in Segment PROVE <<s>> \o Tail(wire[Dev]) \in Seq(Segment)
    <2>1. <<s>> \in Seq(Segment)
      BY <1>6
    <2>2. QED
      BY <1>2, <2>1, ConcatProperties
  <1>7. LeftOver \in Seq(Segment)
    BY <1>2, <1>3, <1>5, <1>6 DEF LeftOver
  <1>8. Kind[Dev] = "tcp" => Stored # <<>>
    BY <1>3, <1>4, <1>5 DEF Stored
  <1>9. QED
    BY <1>2, <1>7, <1>8

LEMMA LossKept == Known /\ LossInv /\ [Next]_vars => LossInv'
  <1> SUFFICES ASSUME Known, LossInv, [Next]_vars PROVE LossInv'
    OBVIOUS
  <1> USE DEF LossInv
  <1>1. /\ PlaceInv /\ Dev \in Device /\ record \in Rec
        /\ wire[Dev] \in Seq(Segment)
    BY RecordTypes DEF Known, Base, PlaceInv, Dev
  <1>2. ASSUME conf' = conf, lost' = lost PROVE DOMAIN lost' = Device /\ NothingLost'
    BY <1>2 DEF NothingLost, Used, Senders
  <1>3. ASSUME conf' = conf, UNCHANGED <<wire, lost>> PROVE LossInv'
    BY <1>2, <1>3
  <1>4. ASSUME conf' = conf, NEW gone, lost' = [lost EXCEPT ![Dev] = @ \cup gone],
               \/ Kind[Dev] \notin {"tcp", "nidaq", "serial"}
               \/ Kind[Dev] = "serial" /\ conf[record].message = "text"
        PROVE  DOMAIN lost' = Device /\ NothingLost'
    <2>1. \A d \in Device : d # Dev => lost'[d] = lost[d]
      BY <1>4
    <2>2. Kind[Dev] = "serial" => Senders(Dev) # {}
      BY <1>1, <1>4 DEF Senders, Dev
    <2>3. Used \subseteq Device
      BY <1>1, RecordTypes DEF Used, PlaceInv
    <2>4. QED
      BY <1>4, <2>1, <2>2, <2>3 DEF NothingLost, Used, Senders
  <1>5. CASE UNCHANGED vars
    BY <1>3, <1>5 DEF vars, turn, history, ip
  <1>6. ASSUME NextTurn \/ Log, UNCHANGED ip PROVE LossInv'
    BY <1>3, <1>6 DEF NextTurn, Log, Goto, ip
  <1>7. ASSUME SerialStep, UNCHANGED ip PROVE LossInv'
    <2>1. CASE WriteSerial
      <3>1. conf' = conf /\ wire' = wire /\ pc = "write" /\ Kind[Dev] = "serial"
        BY <1>7, <2>1 DEF WriteSerial, Written, Goto, Has, ip
      <3>2. CASE conf[record].message = "empty"
        BY <1>3, <2>1, <3>1, <3>2 DEF WriteSerial
      <3>3. CASE conf[record].message # "empty"
        <4>1. conf[record].message = "text"
          BY <1>1, <3>1, <3>3, RecordTypes DEF PlaceInv
        <4>2. lost' = [lost EXCEPT ![Dev] = @ \cup Numbers(line[Dev])]
          BY <2>1, <3>3 DEF WriteSerial
        <4>3. QED
          BY <1>4, <3>1, <4>1, <4>2
      <3>4. QED
        BY <3>2, <3>3
    <2>2. CASE ProbeSerial \/ BeginSerial \/ ReadChar \/ SerialTimesOut
      BY <1>3, <1>7, <2>2 DEF ProbeSerial, BeginSerial, ReadChar, SerialTimesOut,
         Probed, ReadBegins, Goto, history, ip
    <2>3. QED
      BY <1>7, <2>1, <2>2 DEF SerialStep
  <1>8. CASE IpStep
    <2>1. CASE WriteIp \/ ProbeIp \/ BeginIp \/ TestIp \/ ReceiveNothing \/ Copy \/ CopyDone
      BY <1>3, <2>1 DEF WriteIp, ProbeIp, BeginIp, TestIp, ReceiveNothing, Copy,
         CopyDone, Written, Probed, ReadBegins, Goto, history, ip
    <2>2. CASE Receive
      <3>1. /\ conf' = conf /\ wire' = [wire EXCEPT ![Dev] = LeftOver]
            /\ Kind[Dev] \in {"tcp", "udp"}
        BY <1>1, <2>2 DEF Receive, Goto, PlaceInv, Has
      <3>2. LeftOver \in Seq(Segment) /\ (Kind[Dev] = "tcp" => Stored # <<>>)
        BY <1>1, <2>2, TakenApart
      <3>3. wire' \in [Device -> Seq(Segment)]
        BY <1>1, <3>1, <3>2
      <3>4. CASE Stored = <<>>
        <4>1. lost' = [lost EXCEPT ![Dev] = @ \cup Numbers(Head(wire[Dev]))]
          BY <2>2, <3>4 DEF Receive
        <4>2. Kind[Dev] \notin {"tcp", "nidaq", "serial"}
          BY <3>1, <3>2, <3>4
        <4>3. QED
          BY <1>4, <3>1, <3>3, <4>1, <4>2
      <3>5. CASE Stored # <<>>
        <4>1. lost' = [lost EXCEPT ![Dev] = @]
          BY <2>2, <3>5 DEF Receive
        <4>2. lost' = [lost EXCEPT ![Dev] = lost[Dev]]
          BY <4>1
        <4>3. DOMAIN lost' = Device /\ \A d \in Device : lost'[d] = lost[d]
          BY <4>2
        <4>4. Used \subseteq Device
          BY <1>1, RecordTypes DEF Used, PlaceInv
        <4>5. NothingLost'
          BY <3>1, <4>3, <4>4 DEF NothingLost, Used, Senders
        <4>6. QED
          BY <3>3, <4>3, <4>5
      <3>6. QED
        BY <3>4, <3>5
    <2>3. QED
      BY <1>8, <2>1, <2>2 DEF IpStep
  <1>9. ASSUME NidaqStep, UNCHANGED ip PROVE LossInv'
    BY <1>3, <1>9 DEF NidaqStep, WriteNidaq, TestFlag, ClearFlag, ReadSample,
       Written, Probed, Goto, history, ip
  <1>10. ASSUME GpibStep, UNCHANGED ip PROVE LossInv'
    <2>1. CASE WriteGpib \/ ProbeGpib \/ BeginGpib \/ TakeChar
      BY <1>3, <1>10, <2>1 DEF WriteGpib, ProbeGpib, BeginGpib, TakeChar,
         Written, Probed, ReadBegins, Goto, history, ip
    <2>2. CASE GpibTimesOut
      <3>1. conf' = conf /\ wire' = wire /\ Kind[Dev] = "gpib"
        BY <1>10, <2>2 DEF GpibTimesOut, Goto, Has, ip
      <3>2. lost' = [lost EXCEPT ![Dev] = @ \cup Numbers(ReadBuffer)]
        BY <2>2 DEF GpibTimesOut
      <3>3. QED
        BY <1>4, <3>1, <3>2
    <2>3. QED
      BY <1>10, <2>1, <2>2 DEF GpibStep
  <1>11. CASE Outside
    <2>1. conf' = conf /\ lost' = lost
      BY <1>11 DEF Outside, TimeoutPasses, Expire, SerialArrives, IpArrives,
         PeerCloses, Sample, Answers, EveryNCallback, Arrives, turn, history
    <2>2. CASE wire' = wire
      BY <1>3, <2>1, <2>2
    <2>3. ASSUME NEW d \in Used, IpArrives(d) PROVE wire' \in [Device -> Seq(Segment)]
      <3>1. PICK k \in 1..(RxSize + 1) :
                 /\ Arrives(d, k)
                 /\ \E text \in Produced(d, k) : wire' = [wire EXCEPT ![d] = Append(@, text)]
        BY <2>3 DEF IpArrives
      <3>2. PICK text \in Produced(d, k) : wire' = [wire EXCEPT ![d] = Append(@, text)]
        BY <3>1
      <3>3. d \in Device
        BY <1>1, RecordTypes DEF Used, PlaceInv
      <3>4. k \in Nat /\ k # 0
        BY RxSizeAssumption
      <3>5. text \in Seq(Char) /\ Len(text) = k
        BY <3>1, <3>3, <3>4, ProducedText DEF Known, Base, Typed
      <3>6. text \in Segment
        BY <3>4, <3>5, EmptySeq DEF Segment
      <3>7. Append(wire[d], text) \in Seq(Segment)
        BY <3>3, <3>6, AppendProperties
      <3>8. QED
        BY <3>2, <3>3, <3>7
    <2>4. QED
      BY <1>2, <1>11, <2>1, <2>2, <2>3 DEF Outside, TimeoutPasses, EveryNCallback,
         PeerCloses, ip
  <1>12. QED
    BY <1>5, <1>6, <1>7, <1>8, <1>9, <1>10, <1>11 DEF Next, Program

(* The invariant of these proofs.                                          *)
LEMMA LossHolds == Spec => [](Known /\ LossInv)
  <1>1. ASSUME Init PROVE LossInv
    <2>1. <<>> \in Seq(Segment)
      BY EmptySeq
    <2>2. QED
      BY <1>1, <2>1, RecordTypes
         DEF Init, DataInit, IpInit, LossInv, NothingLost, Used
  <1>2. Known /\ LossInv /\ [Next]_vars => LossInv'
    BY LossKept
  <1>3. QED
    BY <1>1, <1>2, BaseHolds, BufferHolds, PTL DEF Spec, Known

(* Nothing that a connection, the driver's queue or a serial line to which *)
(* nobody sends has delivered is given up, however the timeouts fall.      *)
THEOREM NothingLostHolds == Spec => []NothingLost
  <1>1. LossInv => NothingLost
    BY DEF LossInv
  <1>2. QED
    BY <1>1, LossHolds, PTL

-----------------------------------------------------------------------------
(***************************************************************************)
(* That every variable keeps its type, and that every character comes out  *)
(* once, in its order.                                                     *)
(***************************************************************************)
(* The numbers of characters.                                              *)
Ordinal == 0..MaxText

Facts == Known /\ LossInv

LEMMA FactsTypes ==
    ASSUME Facts
    PROVE  /\ PlaceInv /\ record \in Rec /\ Dev \in Device /\ Dev \in Used
           /\ Used \subseteq Device
           /\ arrived \in [Device -> Ordinal]
           /\ line \in [Device -> Seq(Char)] /\ answer \in [Device -> Seq(Char)]
           /\ fifo \in Seq(Char) /\ tempBuffer \in [Rec -> Seq(Char)]
           /\ wire \in [Device -> Seq(Segment)] /\ DOMAIN lost = Device
           /\ tempBuffer[record] \in Seq(Char)
           /\ line[Dev] \in Seq(Char) /\ answer[Dev] \in Seq(Char)
  BY RecordTypes
  DEF Facts, Known, Base, PlaceInv, Typed, TempInv, LossInv, Dev, Used, Ordinal

-----------------------------------------------------------------------------
(***************************************************************************)
(* The globals that the IP ports share.                                    *)
(***************************************************************************)

(* What is left of the received text is inside of rxBuf.                   *)
IpInv ==
    /\ rxBuf \in Seq(Char) /\ bytes \in Nat /\ lastRx \in Nat
    /\ lastRx + bytes <= Len(rxBuf) /\ lastRx + bytes <= RxSize

(* recvfrom() stores characters of the segment, and not too many.          *)
LEMMA StoredText ==
    ASSUME Facts, Receive
    PROVE  Stored \in Seq(Char) /\ Len(Stored) <= RxSize
  <1> DEFINE text == Head(wire[Dev])
  <1>1. text \in Seq(Char)
    BY TakenApart DEF Facts, Known, Base, Segment
  <1>2. Room = RxSize /\ RxSize \in Nat
    BY RxSizeAssumption DEF Facts, Known, Base, PlaceInv, Receive, Room
  <1>3. Len(text) \in Nat
    BY <1>1, LenProperties
  <1>4. CASE Len(text) <= RxSize
    BY <1>1, <1>2, <1>4 DEF Stored
  <1>5. CASE Len(text) > RxSize /\ Kind[Dev] = "tcp"
    <2>1. SubSeq(text, 1, RxSize) \in Seq(Char) /\ Len(SubSeq(text, 1, RxSize)) = RxSize
      BY <1>1, <1>2, <1>3, <1>5, SubSeqProperties
    <2>2. Stored = SubSeq(text, 1, RxSize)
      BY <1>2, <1>3, <1>5 DEF Stored
    <2>3. QED
      BY <1>2, <2>1, <2>2
  <1>6. CASE Len(text) > RxSize /\ Kind[Dev] # "tcp"
    <2>1. Stored = <<>>
      BY <1>2, <1>3, <1>6 DEF Stored
    <2>2. QED
      BY <1>2, <2>1, EmptySeq
  <1>7. QED
    BY <1>2, <1>3, <1>4, <1>5, <1>6

LEMMA IpKept == Facts /\ IpInv /\ [Next]_vars => IpInv'
  <1> SUFFICES ASSUME Facts, IpInv, [Next]_vars PROVE IpInv'
    OBVIOUS
  <1> USE DEF IpInv
  <1>1. PlaceInv
    BY FactsTypes
  <1>2. ASSUME UNCHANGED <<rxBuf, bytes, lastRx>> PROVE IpInv'
    BY <1>2
  <1>3. CASE UNCHANGED vars
    BY <1>2, <1>3 DEF vars, ip
  <1>4. CASE IpStep
    <2>1. CASE WriteIp \/ ProbeIp \/ BeginIp \/ TestIp \/ CopyDone
      BY <1>2, <2>1 DEF WriteIp, ProbeIp, BeginIp, TestIp, CopyDone, ip
    <2>2. CASE Receive
      <3>1. Stored \in Seq(Char) /\ Len(Stored) <= RxSize /\ Len(Stored) \in Nat
        BY <2>2, StoredText, LenProperties
      <3>2. bytes = 0
        BY <1>1, <2>2 DEF Receive, PlaceInv
      <3>3. SubSeq(rxBuf, 1, 0) = <<>>
        BY SubSeqEmpty
      <3>4. rxBuf' = <<>> \o Stored /\ bytes' = Len(Stored) /\ lastRx' = 0
        BY <2>2, <3>1, <3>2, <3>3 DEF Receive
      <3>5. rxBuf' = Stored
        BY <3>1, <3>4, ConcatEmptySeq
      <3>6. QED
        BY <3>1, <3>4, <3>5
    <2>3. CASE ReceiveNothing
      <3>1. bytes = 0 /\ lastRx' = bytes /\ bytes' = bytes /\ rxBuf' = rxBuf
        BY <1>1, <2>3 DEF ReceiveNothing, PlaceInv
      <3>2. QED
        BY <3>1, RxSizeAssumption, LenProperties
    <2>4. CASE Copy
      BY <2>4, LenProperties DEF Copy
    <2>5. QED
      BY <1>4, <2>1, <2>2, <2>3, <2>4 DEF IpStep
  <1>5. CASE UNCHANGED ip
    BY <1>2, <1>5 DEF ip
  <1>6. CASE Outside
    <2>1. UNCHANGED <<rxBuf, bytes, lastRx>>
      BY <1>6 DEF Outside, TimeoutPasses, EveryNCallback, IpArrives, PeerCloses, ip
    <2>2. QED
      BY <1>2, <2>1
  <1>7. QED
    BY <1>3, <1>4, <1>5, <1>6 DEF Next, Program

-----------------------------------------------------------------------------
(***************************************************************************)
(* ReadBuffer and the history.                                             *)
(***************************************************************************)

TextInv ==
    /\ ReadBuffer \in Seq(Char)
    /\ logged \in [Device -> Seq(Ordinal)]
    /\ lost \in [Device -> SUBSET Ordinal]

LEMMA NumbersType ==
    ASSUME NEW s \in Seq(Char)
    PROVE  Numbers(s) \in SUBSET Ordinal /\ NumbersOf(s) \in Seq(Ordinal)
  <1>1. Len(s) \in Nat /\ DOMAIN s = 1..Len(s) /\ \A i \in 1..Len(s) : s[i].n \in Ordinal
    <2>1. \A i \in 1..Len(s) : s[i] \in Char
      BY ElementOfSeq
    <2>2. QED
      BY <2>1, LenProperties DEF Char, Ordinal
  <1>2. Numbers(s) \in SUBSET Ordinal
    BY <1>1 DEF Numbers
  <1>3. [i \in DOMAIN s |-> s[i].n] \in Seq(Ordinal)
    BY <1>1, IsASeq
  <1>4. QED
    BY <1>2, <1>3, EmptySeq DEF NumbersOf

LEMMA CopiedChar ==
    ASSUME Facts, IpInv, Copy
    PROVE  rxBuf[lastRx + 1] \in Char
  <1>1. lastRx + 1 \in 1..Len(rxBuf)
    BY LenProperties DEF IpInv, Copy
  <1>2. QED
    BY <1>1, ElementOfSeq DEF IpInv

LEMMA TextKept == Facts /\ IpInv /\ TextInv /\ [Next]_vars => TextInv'
  <1> SUFFICES ASSUME Facts, IpInv, TextInv, [Next]_vars PROVE TextInv'
    OBVIOUS
  <1> USE DEF TextInv
  <1>1. /\ Dev \in Device /\ fifo \in Seq(Char) /\ tempBuffer[record] \in Seq(Char)
        /\ line[Dev] \in Seq(Char) /\ answer[Dev] \in Seq(Char) /\ <<>> \in Seq(Char)
    BY FactsTypes, EmptySeq
  <1>2. \A s, t \in Seq(Char) : t # <<>> => Append(s, Head(t)) \in Seq(Char)
    BY HeadTailProperties, AppendProperties
  <1>3. ASSUME UNCHANGED <<ReadBuffer, logged, lost>> PROVE TextInv'
    BY <1>3
  <1>4. ASSUME ReadBuffer' \in Seq(Char), UNCHANGED <<logged, lost>> PROVE TextInv'
    BY <1>4
  <1>5. ASSUME ReadBuffer' \in Seq(Char), logged' = logged, NEW s \in Seq(Char),
               lost' = [lost EXCEPT ![Dev] = @ \cup Numbers(s)]
        PROVE  TextInv'
    <2>1. lost[Dev] \cup Numbers(s) \in SUBSET Ordinal
      BY <1>1, NumbersType
    <2>2. QED
      BY <1>5, <2>1
  <1>6. CASE UNCHANGED vars
    BY <1>3, <1>6 DEF vars, turn, history
  <1>7. CASE NextTurn
    BY <1>3, <1>7 DEF NextTurn
  <1>8. CASE Log
    <2>1. logged[Dev] \o NumbersOf(ReadBuffer) \in Seq(Ordinal)
      BY <1>1, NumbersType, ConcatProperties
    <2>2. logged' \in [Device -> Seq(Ordinal)]
      BY <1>8, <2>1 DEF Log
    <2>3. QED
      BY <1>1, <1>8, <2>2 DEF Log
  <1>9. CASE SerialStep
    <2>1. CASE WriteSerial
      <3>1. UNCHANGED <<ReadBuffer, logged>>
        BY <2>1 DEF WriteSerial, Written
      <3>2. CASE lost' = lost
        BY <1>3, <3>1, <3>2
      <3>3. CASE lost' = [lost EXCEPT ![Dev] = @ \cup Numbers(line[Dev])]
        BY <1>1, <1>5, <3>1, <3>3
      <3>4. QED
        BY <2>1, <3>2, <3>3 DEF WriteSerial
    <2>2. CASE ProbeSerial \/ SerialTimesOut
      BY <1>3, <2>2 DEF ProbeSerial, SerialTimesOut, Probed, history
    <2>3. CASE BeginSerial \/ ReadChar
      <3>1. ReadBuffer' \in Seq(Char)
        BY <1>1, <1>2, <2>3 DEF BeginSerial, ReadChar, ReadBegins
      <3>2. UNCHANGED <<logged, lost>>
        BY <2>3 DEF BeginSerial, ReadChar, ReadBegins, history
      <3>3. QED
        BY <1>4, <3>1, <3>2
    <2>4. QED
      BY <1>9, <2>1, <2>2, <2>3 DEF SerialStep
  <1>10. CASE IpStep
    <2>1. CASE WriteIp \/ ProbeIp \/ TestIp \/ ReceiveNothing \/ CopyDone
      BY <1>3, <2>1 DEF WriteIp, ProbeIp, TestIp, ReceiveNothing, CopyDone,
         Written, Probed, history
    <2>2. CASE BeginIp
      BY <1>1, <1>4, <2>2 DEF BeginIp, ReadBegins, history
    <2>3. CASE Receive
      <3>1. UNCHANGED <<ReadBuffer, logged>> /\ Head(wire[Dev]) \in Seq(Char)
        BY <2>3, TakenApart DEF Receive, Facts, Known, Base, Segment
      <3>2. CASE Stored = <<>>
        <4>1. lost' = [lost EXCEPT ![Dev] = @ \cup Numbers(Head(wire[Dev]))]
          BY <2>3, <3>2 DEF Receive
        <4>2. QED
          BY <1>5, <3>1, <4>1
      <3>3. CASE Stored # <<>>
        <4>1. lost' = [lost EXCEPT ![Dev] = lost[Dev]]
          BY <2>3, <3>3 DEF Receive
        <4>2. lost' = lost
          BY <1>1, <4>1
        <4>3. QED
          BY <1>3, <3>1, <4>2
      <3>4. QED
        BY <3>2, <3>3
    <2>4. CASE Copy
      <3>1. ReadBuffer' \in Seq(Char)
        BY <2>4, CopiedChar, AppendProperties DEF Copy
      <3>2. QED
        BY <1>4, <2>4, <3>1 DEF Copy, history
    <2>5. QED
      BY <1>10, <2>1, <2>2, <2>3, <2>4 DEF IpStep
  <1>11. CASE NidaqStep
    <2>1. CASE WriteNidaq \/ TestFlag \/ ClearFlag
      BY <1>3, <2>1 DEF WriteNidaq, TestFlag, ClearFlag, Written, Probed, history
    <2>2. CASE ReadSample
      <3>1. Unread \in Char /\ (fifo # <<>> => Head(fifo) \in Char)
        <4>1. Unread \in Char
          BY BoundAssumption DEF Unread, Char
        <4>2. fifo # <<>> => Head(fifo) \in Char
          BY <1>1, HeadTailProperties
        <4>3. QED
          BY <4>1, <4>2
      <3>2. \A c \in Char : <<c>> \in Seq(Char)
        OBVIOUS
      <3>3. ReadBuffer' \in Seq(Char)
        BY <2>2, <3>1, <3>2 DEF ReadSample
      <3>4. QED
        BY <1>4, <2>2, <3>3 DEF ReadSample, history
    <2>3. QED
      BY <1>11, <2>1, <2>2 DEF NidaqStep
  <1>12. CASE GpibStep
    <2>1. CASE WriteGpib \/ ProbeGpib
      BY <1>3, <2>1 DEF WriteGpib, ProbeGpib, Written, Probed, history
    <2>2. CASE BeginGpib \/ TakeChar
      <3>1. ReadBuffer' \in Seq(Char)
        BY <1>1, <1>2, <2>2 DEF BeginGpib, TakeChar, ReadBegins
      <3>2. QED
        BY <1>4, <2>2, <3>1 DEF BeginGpib, TakeChar, ReadBegins, history
    <2>3. CASE GpibTimesOut
      BY <1>1, <1>5, <2>3 DEF GpibTimesOut
    <2>4. QED
      BY <1>12, <2>1, <2>2, <2>3 DEF GpibStep
  <1>13. CASE Outside
    BY <1>3, <1>13 DEF Outside, TimeoutPasses, Expire, SerialArrives, IpArrives,
       PeerCloses, Sample, Answers, EveryNCallback, Arrives, turn, history
  <1>14. QED
    BY <1>6, <1>7, <1>8, <1>9, <1>10, <1>11, <1>12, <1>13 DEF Next, Program

-----------------------------------------------------------------------------
(***************************************************************************)
(* Flags, and the callbacks that the driver still owes.                    *)
(***************************************************************************)

FlagInv ==
    /\ expired \in BOOLEAN /\ ret \in BOOLEAN /\ dataAv \in BOOLEAN
    /\ closed \in [Device -> BOOLEAN]

LEMMA FlagsKept == Facts /\ FlagInv /\ [Next]_vars => FlagInv'
  <1> SUFFICES ASSUME Facts, FlagInv, [Next]_vars PROVE FlagInv'
    OBVIOUS
  <1> USE DEF FlagInv
  <1>1. ASSUME UNCHANGED <<expired, ret, dataAv, closed>> PROVE FlagInv'
    BY <1>1, Zenon
  <1>2. ASSUME expired' \in BOOLEAN, UNCHANGED <<ret, dataAv, closed>> PROVE FlagInv'
    BY <1>2, Zenon
  <1>3. ASSUME dataAv' \in BOOLEAN, UNCHANGED <<expired, ret, closed>> PROVE FlagInv'
    BY <1>3, Zenon
  <1>4. ASSUME ret' \in BOOLEAN, expired' \in BOOLEAN, UNCHANGED <<dataAv, closed>>
        PROVE  FlagInv'
    BY <1>4, Zenon
  <1>5. CASE UNCHANGED vars
    BY <1>1, <1>5 DEF vars, turn, ip, nidaq
  <1>6. ASSUME NextTurn \/ Log, UNCHANGED <<ip, nidaq>> PROVE FlagInv'
    BY <1>1, <1>6 DEF NextTurn, Log, ip, nidaq
  <1>7. ASSUME SerialStep \/ GpibStep, UNCHANGED <<ip, nidaq>> PROVE FlagInv'
    <2>1. expired' = expired \/ expired' = FALSE
      BY <1>7, Zenon DEF SerialStep, WriteSerial, ProbeSerial, BeginSerial, ReadChar,
         SerialTimesOut, GpibStep, WriteGpib, ProbeGpib, BeginGpib, TakeChar,
         GpibTimesOut, Written, Probed, ReadBegins
    <2>2. expired' \in BOOLEAN
      BY <2>1, Zenon
    <2>3. QED
      BY <1>2, <1>7, <2>2 DEF ip, nidaq
  <1>8. ASSUME IpStep, UNCHANGED nidaq PROVE FlagInv'
    <2>1. CASE WriteIp \/ ProbeIp \/ TestIp \/ Receive \/ ReceiveNothing \/ CopyDone
      BY <1>1, <1>8, <2>1 DEF WriteIp, ProbeIp, TestIp, Receive, ReceiveNothing,
         CopyDone, Written, Probed, ip, nidaq
    <2>2. CASE BeginIp \/ Copy
      <3>1. ret' \in BOOLEAN
        BY <2>2, Zenon DEF BeginIp, Copy
      <3>2. expired' \in BOOLEAN
        BY <2>2, Zenon DEF BeginIp, Copy, ReadBegins
      <3>3. QED
        BY <1>4, <1>8, <2>2, <3>1, <3>2 DEF BeginIp, Copy, nidaq
    <2>3. QED
      BY <1>8, <2>1, <2>2 DEF IpStep
  <1>9. ASSUME NidaqStep, UNCHANGED ip PROVE FlagInv'
    <2>1. dataAv' \in BOOLEAN
      BY <1>9, Zenon DEF NidaqStep, WriteNidaq, TestFlag, ClearFlag, ReadSample, nidaq
    <2>2. expired' = expired
      BY <1>9, Zenon DEF NidaqStep, WriteNidaq, TestFlag, ClearFlag, ReadSample,
         Written, Probed
    <2>3. QED
      BY <1>3, <1>9, <2>1, <2>2 DEF ip
  <1>10. CASE Outside
    <2>1. CASE TimeoutPasses
      <3>1. expired' \in BOOLEAN
        BY <2>1, Zenon DEF TimeoutPasses, Expire
      <3>2. QED
        BY <1>2, <2>1, <3>1 DEF TimeoutPasses, ip, nidaq
    <2>2. CASE EveryNCallback /\ UNCHANGED ip
      <3>1. dataAv' \in BOOLEAN
        BY <2>2, Zenon DEF EveryNCallback
      <3>2. QED
        BY <1>3, <2>2, <3>1 DEF EveryNCallback, turn, ip
    <2>3. ASSUME NEW d \in Used, PeerCloses(d), UNCHANGED nidaq PROVE FlagInv'
      <3>1. closed' \in [Device -> BOOLEAN]
        BY <2>3 DEF PeerCloses
      <3>2. UNCHANGED <<expired, ret, dataAv>>
        BY <2>3 DEF PeerCloses, turn, nidaq
      <3>3. QED
        BY <3>1, <3>2, Zenon
    <2>4. ASSUME NEW d \in Used,
                 \/ (SerialArrives(d) \/ Answers(d)) /\ UNCHANGED <<ip, nidaq>>
                 \/ IpArrives(d) /\ UNCHANGED nidaq
                 \/ Sample(d) /\ UNCHANGED ip
          PROVE  FlagInv'
      BY <1>1, <2>4 DEF SerialArrives, IpArrives, Sample, Answers, Arrives, turn, ip, nidaq
    <2>5. QED
      BY <1>10, <2>1, <2>2, <2>3, <2>4 DEF Outside
  <1>11. QED
    BY <1>5, <1>6, <1>7, <1>8, <1>9, <1>10 DEF Next, Program

(* Callbacks belong to samples of the one task.                            *)
OwedInv ==
    /\ callbacks \in Nat
    /\ callbacks = 0 \/ \E d \in Used : Kind[d] = "nidaq" /\ callbacks <= arrived[d]

LEMMA OneTask ==
    ASSUME PlaceInv, NEW d \in Used, NEW e \in Used, Kind[d] = "nidaq", Kind[e] = "nidaq"
    PROVE  d = e
  BY TaskAssumption DEF Used, PlaceInv

LEMMA OwedKept == Facts /\ OwedInv /\ [Next]_vars => OwedInv'
  <1> SUFFICES ASSUME Facts, OwedInv, [Next]_vars PROVE OwedInv'
    OBVIOUS
  <1> USE DEF OwedInv
  <1>1. PlaceInv /\ Used \subseteq Device /\ arrived \in [Device -> Ordinal]
    BY FactsTypes
  <1>2. ASSUME UNCHANGED <<Used, arrived, callbacks>> PROVE OwedInv'
    BY <1>2
  <1>3. ASSUME NEW d \in Used, NEW k \in Nat, Arrives(d, k), callbacks' = callbacks
        PROVE  OwedInv'
    <2>1. Used' = Used
      BY <1>3 DEF Arrives, turn, Used
    <2>2. \A e \in Used : arrived[e] \in Nat /\ arrived'[e] \in Nat /\ arrived[e] <= arrived'[e]
      BY <1>1, <1>3 DEF Arrives, Ordinal
    <2>3. QED
      BY <1>3, <2>1, <2>2
  <1>4. CASE UNCHANGED vars
    BY <1>2, <1>4 DEF vars, turn, history, nidaq, Used
  <1>5. CASE Program
    <2>1. UNCHANGED <<conf, arrived, callbacks>>
      BY <1>5 DEF Program, NextTurn, Log, SerialStep, WriteSerial, ProbeSerial,
         BeginSerial, ReadChar, SerialTimesOut, IpStep, WriteIp, ProbeIp, BeginIp,
         TestIp, Receive, ReceiveNothing, Copy, CopyDone, NidaqStep, WriteNidaq,
         TestFlag, ClearFlag, ReadSample, GpibStep, WriteGpib, ProbeGpib, BeginGpib,
         TakeChar, GpibTimesOut, Written, Probed, ReadBegins, Goto, history, nidaq
    <2>2. QED
      BY <1>2, <2>1 DEF Used
  <1>6. CASE Outside
    <2>1. CASE TimeoutPasses
      BY <1>2, <2>1 DEF TimeoutPasses, Expire, history, nidaq, Used
    <2>2. CASE EveryNCallback
      <3>1. UNCHANGED <<Used, arrived>> /\ callbacks > 0 /\ callbacks' = callbacks - 1
        BY <2>2 DEF EveryNCallback, turn, history, Used
      <3>2. PICK d \in Used : Kind[d] = "nidaq" /\ callbacks <= arrived[d]
        BY <3>1
      <3>3. callbacks' \in Nat /\ callbacks' <= arrived[d]
        BY <1>1, <3>1, <3>2 DEF Ordinal
      <3>4. QED
        BY <3>1, <3>2, <3>3
    <2>3. ASSUME NEW d \in Used, PeerCloses(d), UNCHANGED nidaq PROVE OwedInv'
      BY <1>2, <2>3 DEF PeerCloses, turn, history, nidaq, Used
    <2>4. ASSUME NEW d \in Used, SerialArrives(d) \/ IpArrives(d) \/ Answers(d),
                 UNCHANGED nidaq
          PROVE  OwedInv'
      <3>1. \E k \in Nat : Arrives(d, k)
        BY <2>4, RxSizeAssumption DEF SerialArrives, IpArrives, Answers
      <3>2. QED
        BY <1>3, <2>4, <3>1 DEF nidaq
    <2>5. ASSUME NEW d \in Used, Sample(d) PROVE OwedInv'
      <3>1. /\ Kind[d] = "nidaq" /\ callbacks' = callbacks + 1 /\ Used' = Used
            /\ arrived' = [arrived EXCEPT ![d] = @ + 1]
        BY <2>5 DEF Sample, Arrives, turn, Used
      <3>2. arrived'[d] = arrived[d] + 1 /\ arrived[d] \in Nat
        BY <1>1, <3>1 DEF Ordinal
      <3>3. callbacks <= arrived[d]
        BY <1>1, <3>1, <3>2, OneTask
      <3>4. QED
        BY <3>1, <3>2, <3>3
    <2>6. QED
      BY <1>6, <2>1, <2>2, <2>3, <2>4, <2>5 DEF Outside
  <1>7. QED
    BY <1>4, <1>5, <1>6 DEF Next

-----------------------------------------------------------------------------

Kept == Facts /\ IpInv /\ TextInv /\ FlagInv /\ OwedInv

LEMMA KeptHolds == Spec => []Kept
  <1>1. ASSUME Init PROVE IpInv /\ TextInv /\ OwedInv
    <2>1. <<>> \in Seq(Char) /\ Len(<<>>) = 0 /\ <<>> \in Seq(Ordinal)
      BY EmptySeq
    <2>2. IpInv
      BY <1>1, <2>1, RxSizeAssumption DEF Init, IpInit, IpInv
    <2>3. TextInv
      BY <1>1, <2>1 DEF Init, DataInit, TextInv
    <2>4. OwedInv
      BY <1>1 DEF Init, NidaqInit, OwedInv
    <2>5. QED
      BY <2>2, <2>3, <2>4
  <1>2. Init => FlagInv
    BY DEF Init, DataInit, IpInit, NidaqInit, FlagInv
  <1>3. Spec => []Facts
    BY LossHolds DEF Facts
  <1>4. /\ Facts /\ IpInv /\ [Next]_vars => IpInv'
        /\ Facts /\ IpInv /\ TextInv /\ [Next]_vars => TextInv'
        /\ Facts /\ FlagInv /\ [Next]_vars => FlagInv'
        /\ Facts /\ OwedInv /\ [Next]_vars => OwedInv'
    BY IpKept, TextKept, FlagsKept, OwedKept
  <1>5. QED
    BY <1>1, <1>2, <1>3, <1>4, PTL DEF Spec, Kept

LEMMA SegmentsAreTexts == Seq(Segment) \subseteq Seq(Seq(Char))
  <1>1. Segment \subseteq Seq(Char)
    BY DEF Segment
  <1>2. ASSUME NEW s \in Seq(Segment) PROVE s \in Seq(Seq(Char))
    <2>1. \A i \in 1..Len(s) : s[i] \in Seq(Char)
      BY <1>1, ElementOfSeq
    <2>2. s = [i \in 1..Len(s) |-> s[i]] /\ Len(s) \in Nat
      BY LenProperties
    <2>3. QED
      BY <2>1, <2>2, IsASeq
  <1>3. QED
    BY <1>2

(* Every variable keeps its type, for any number of records and devices.   *)
THEOREM DataTypes == Spec => []DataTypeOK
  <1>1. ASSUME Kept PROVE DataTypeOK
    <2>1. Facts /\ IpInv /\ TextInv /\ FlagInv /\ OwedInv
      BY <1>1 DEF Kept
    <2>2. /\ conf \in Confs /\ record \in Rec
          /\ pc \in {"idle", "write", "probe", "clear", "begin",
                     "test", "recv", "copy", "log"}
          /\ arrived \in [Device -> 0..MaxText] /\ asked \in 0..MaxText
          /\ line \in [Device -> Seq(Char)] /\ tempBuffer \in [Rec -> Seq(Char)]
          /\ fifo \in Seq(Char) /\ answer \in [Device -> Seq(Char)]
      BY <2>1 DEF Facts, Known, Base, PlaceInv, Typed, TempInv, Places
    <2>3. /\ ReadBuffer \in Seq(Char)
          /\ logged \in [Device -> Seq(0..MaxText)]
          /\ lost \in [Device -> SUBSET (0..MaxText)]
      BY <2>1 DEF TextInv, Ordinal
    <2>4. wire \in [Device -> Seq(Seq(Char))]
      <3>1. wire \in [Device -> Seq(Segment)]
        BY <2>1, FactsTypes
      <3>2. QED
        BY <3>1, SegmentsAreTexts
    <2>5. rxBuf \in Seq(Char) /\ bytes \in 0..RxSize /\ lastRx \in 0..RxSize
      BY <2>1, RxSizeAssumption DEF IpInv
    <2>6. callbacks \in 0..MaxText
      <3>1. Used \subseteq Device /\ arrived \in [Device -> 0..MaxText]
        BY <2>1, FactsTypes DEF Ordinal
      <3>2. QED
        BY <2>1, <3>1, BoundAssumption DEF OwedInv
    <2>7. QED
      BY <2>1, <2>2, <2>3, <2>4, <2>5, <2>6 DEF FlagInv, DataTypeOK
  <1>2. QED
    BY <1>1, KeptHolds, PTL

-----------------------------------------------------------------------------
(***************************************************************************)
(* The numbers of a text.                                                  *)
(***************************************************************************)

Nums(s) == [i \in 1..Len(s) |-> s[i].n]

(* The library's facts, for the sequences of numbers.                      *)
LEMMA IntConcat ==
    ASSUME NEW a \in Seq(Int), NEW b \in Seq(Int)
    PROVE  /\ a \o b \in Seq(Int) /\ Len(a \o b) = Len(a) + Len(b)
           /\ \A i \in 1..(Len(a) + Len(b)) :
                 (a \o b)[i] = IF i <= Len(a) THEN a[i] ELSE b[i - Len(a)]
  BY ConcatProperties

LEMMA IntAssociative ==
    ASSUME NEW a \in Seq(Int), NEW b \in Seq(Int), NEW c \in Seq(Int)
    PROVE  a \o (b \o c) = (a \o b) \o c
  <1> DEFINE S == Int
  <1>1. a \in Seq(S) /\ b \in Seq(S) /\ c \in Seq(S)
    OBVIOUS
  <1> HIDE DEF S
  <1>2. QED
    BY <1>1, ConcatAssociative, SMTT(30)

LEMMA IntMembers ==
    ASSUME NEW a \in Seq(Int), NEW b \in Seq(Int)
    PROVE  Members(a \o b) = Members(a) \cup Members(b)
  <1> DEFINE S == Int
  <1>1. a \in Seq(S) /\ b \in Seq(S)
    OBVIOUS
  <1> HIDE DEF S
  <1>2. QED
    BY <1>1, MembersConcat, SMTT(30)

LEMMA CharAssociative ==
    ASSUME NEW a \in Seq(Char), NEW b \in Seq(Char), NEW c \in Seq(Char)
    PROVE  a \o (b \o c) = (a \o b) \o c
  BY ConcatAssociative, SMTT(30)

LEMMA EmptyChars ==
    ASSUME NEW s \in Seq(Char)
    PROVE  s = <<>> <=> Len(s) = 0
  BY EmptySeq

LEMMA NumsType ==
    ASSUME NEW s \in Seq(Char)
    PROVE  /\ Nums(s) \in Seq(Int) /\ Len(Nums(s)) = Len(s)
           /\ \A i \in 1..Len(s) : Nums(s)[i] = s[i].n
           /\ Members(Nums(s)) = Numbers(s)
  <1>1. Len(s) \in Nat /\ DOMAIN s = 1..Len(s) /\ \A i \in 1..Len(s) : s[i].n \in Int
    <2>1. \A i \in 1..Len(s) : s[i] \in Char
      BY ElementOfSeq
    <2>2. QED
      BY <2>1, LenProperties DEF Char
  <1>2. Nums(s) \in Seq(Int) /\ Len(Nums(s)) = Len(s)
    BY <1>1, IsASeq DEF Nums
  <1>3. \A i \in 1..Len(s) : Nums(s)[i] = s[i].n
    BY DEF Nums
  <1>4. Members(Nums(s)) = Numbers(s)
    BY <1>1, <1>2, <1>3 DEF Members, Numbers
  <1>5. QED
    BY <1>2, <1>3, <1>4

LEMMA NumsEmpty == Nums(<<>>) = <<>> /\ Numbers(<<>>) = {}
  <1>1. Nums(<<>>) \in Seq(Int) /\ Len(Nums(<<>>)) = 0
    BY NumsType, EmptySeq
  <1>2. Numbers(<<>>) = {}
    BY DEF Numbers
  <1>3. QED
    BY <1>1, <1>2, EmptySeq

LEMMA NumsConcat ==
    ASSUME NEW s \in Seq(Char), NEW t \in Seq(Char)
    PROVE  Nums(s \o t) = Nums(s) \o Nums(t)
  <1> DEFINE u == s \o t
             m == Len(s)
             n == Len(t)
             v == Nums(s) \o Nums(t)
  <1>1. /\ u \in Seq(Char) /\ m \in Nat /\ n \in Nat /\ Len(u) = m + n
        /\ \A i \in 1..(m + n) : u[i] = IF i <= m THEN s[i] ELSE t[i - m]
    BY ConcatProperties, LenProperties
  <1>2. /\ v \in Seq(Int) /\ Len(v) = m + n
        /\ \A i \in 1..(m + n) : v[i] = IF i <= m THEN Nums(s)[i] ELSE Nums(t)[i - m]
    <2> DEFINE ns == Nums(s)
               nt == Nums(t)
    <2>1. ns \in Seq(Int) /\ Len(ns) = m /\ nt \in Seq(Int) /\ Len(nt) = n
      BY NumsType
    <2> HIDE DEF ns, nt, m, n
    <2>2. /\ ns \o nt \in Seq(Int) /\ Len(ns \o nt) = m + n
          /\ \A i \in 1..(m + n) : (ns \o nt)[i] = IF i <= m THEN ns[i] ELSE nt[i - m]
      BY <2>1, IntConcat
    <2>3. QED
      BY <2>2 DEF ns, nt, m, n
  <1>3. /\ Nums(u) \in Seq(Int) /\ Len(Nums(u)) = m + n
        /\ \A i \in 1..(m + n) : Nums(u)[i] = u[i].n
    BY <1>1, NumsType
  <1>4. ASSUME NEW i \in 1..(m + n) PROVE Nums(u)[i] = v[i]
    <2>1. CASE i <= m
      <3>1. i \in 1..m
        BY <1>1, <2>1
      <3>2. Nums(s)[i] = s[i].n
        BY <3>1, NumsType
      <3>3. QED
        BY <1>1, <1>2, <1>3, <2>1, <3>2
    <2>2. CASE ~(i <= m)
      <3>1. i - m \in 1..n
        BY <1>1, <2>2
      <3>2. Nums(t)[i - m] = t[i - m].n
        BY <3>1, NumsType
      <3>3. QED
        BY <1>1, <1>2, <1>3, <2>2, <3>2
    <2>3. QED
      BY <2>1, <2>2
  <1> HIDE DEF u, v
  <1>5. Nums(u) = v
    BY <1>2, <1>3, <1>4, SeqEqual
  <1>6. QED
    BY <1>5 DEF u, v

-----------------------------------------------------------------------------
(***************************************************************************)
(* What is done to a text that is whole.                                   *)
(***************************************************************************)

(* A text in the middle is given up.                                       *)
LEMMA LoseText ==
    ASSUME NEW l \in Seq(Int), NEW n, NEW gone,
           NEW a \in Seq(Char), NEW b \in Seq(Char), NEW c \in Seq(Char),
           Whole(l \o Nums(a \o (b \o c)), n, gone)
    PROVE  Whole(l \o Nums(a \o c), n, gone \cup Numbers(b))
  <1> DEFINE la == l \o Nums(a)
             before == la \o (Nums(b) \o Nums(c))
             after == la \o Nums(c)
  <1>1. /\ Nums(a) \in Seq(Int) /\ Nums(b) \in Seq(Int) /\ Nums(c) \in Seq(Int)
        /\ Members(Nums(b)) = Numbers(b)
    BY NumsType
  <1>2. la \in Seq(Int)
    BY <1>1, ConcatProperties
  <1>3. l \o Nums(a \o (b \o c)) = before
    <2> DEFINE bc == b \o c
    <2>1. bc \in Seq(Char) /\ Nums(bc) = Nums(b) \o Nums(c)
      BY NumsConcat, ConcatProperties
    <2> HIDE DEF bc
    <2>2. Nums(a \o bc) = Nums(a) \o Nums(bc) /\ Nums(bc) \in Seq(Int)
      BY <2>1, NumsConcat, NumsType
    <2>3. l \o (Nums(a) \o Nums(bc)) = la \o Nums(bc)
      BY <1>1, <2>2, IntAssociative
    <2>4. QED
      BY <2>1, <2>2, <2>3 DEF bc
  <1>4. l \o Nums(a \o c) = after
    <2>1. Nums(a \o c) = Nums(a) \o Nums(c)
      BY NumsConcat
    <2>2. l \o (Nums(a) \o Nums(c)) = (l \o Nums(a)) \o Nums(c)
      BY <1>1, IntAssociative
    <2>3. QED
      BY <2>1, <2>2
  <1>5. Rising(before) /\ Members(before) = (1..n) \ gone /\ gone \subseteq 1..n
    BY <1>3 DEF Whole
  <1>6. Rising(after) /\ Members(after) = Members(before) \ Numbers(b)
    <2> HIDE DEF la
    <2> QED BY <1>1, <1>2, <1>5, RisingCut
  <1>7. Numbers(b) \subseteq Members(before)
    <2> DEFINE bc == Nums(b) \o Nums(c)
    <2>1. bc \in Seq(Int) /\ Members(bc) = Members(Nums(b)) \cup Members(Nums(c))
      BY <1>1, MembersConcat, ConcatProperties
    <2> HIDE DEF bc, la
    <2>2. Members(la \o bc) = Members(la) \cup Members(bc)
      BY <1>2, <2>1, MembersConcat
    <2>3. QED
      BY <1>1, <2>1, <2>2 DEF bc
  <1> HIDE DEF before, after
  <1>8. QED
    BY <1>4, <1>5, <1>6, <1>7 DEF Whole

(* The next text follows.                                                  *)
LEMMA GrowText ==
    ASSUME NEW l \in Seq(Int), NEW n \in Nat, NEW gone,
           NEW s \in Seq(Char), NEW t \in Seq(Char),
           Whole(l \o Nums(s), n, gone), \A i \in 1..Len(t) : t[i].n = n + i
    PROVE  Whole(l \o Nums(s \o t), n + Len(t), gone)
  <1> DEFINE ls == l \o Nums(s)
             nt == Nums(t)
  <1>1. Nums(s) \in Seq(Int) /\ nt \in Seq(Int) /\ Len(nt) = Len(t) /\ Len(t) \in Nat
    BY NumsType, LenProperties
  <1>2. \A i \in 1..Len(nt) : nt[i] = n + i
    BY <1>1, NumsType
  <1>3. ls \in Seq(Int)
    BY <1>1, ConcatProperties
  <1>4. l \o Nums(s \o t) = ls \o nt
    <2>1. Nums(s \o t) = Nums(s) \o Nums(t)
      BY NumsConcat
    <2>2. l \o (Nums(s) \o Nums(t)) = (l \o Nums(s)) \o Nums(t)
      BY <1>1, IntAssociative
    <2>3. QED
      BY <2>1, <2>2
  <1> HIDE DEF ls, nt
  <1>5. Whole(ls, n, gone)
    BY DEF ls
  <1>6. Whole(ls \o nt, n + Len(nt), gone)
    BY <1>1, <1>2, <1>3, <1>5, WholeExtend
  <1>7. QED
    BY <1>1, <1>4, <1>6

(* The first text is logged.                                               *)
LEMMA LogText ==
    ASSUME NEW l \in Seq(Int), NEW n, NEW gone,
           NEW a \in Seq(Char), NEW s \in Seq(Char), Whole(l \o Nums(a \o s), n, gone)
    PROVE  Whole((l \o Nums(a)) \o Nums(s), n, gone)
  <1>1. Nums(a \o s) = Nums(a) \o Nums(s) /\ Nums(a) \in Seq(Int) /\ Nums(s) \in Seq(Int)
    BY NumsConcat, NumsType
  <1>2. l \o (Nums(a) \o Nums(s)) = (l \o Nums(a)) \o Nums(s)
    BY <1>1, IntAssociative
  <1>3. QED
    BY <1>1, <1>2

(* The characters of a text that is whole are numbered.                    *)
LEMMA TextNumbered ==
    ASSUME NEW l \in Seq(Int), NEW n, NEW gone,
           NEW a \in Seq(Char), NEW s \in Seq(Char), Whole(l \o Nums(a \o s), n, gone)
    PROVE  0 \notin Numbers(a) /\ 0 \notin Numbers(s)
  <1>1. /\ Nums(a \o s) = Nums(a) \o Nums(s)
        /\ Nums(a) \in Seq(Int) /\ Nums(s) \in Seq(Int)
        /\ Members(Nums(a)) = Numbers(a) /\ Members(Nums(s)) = Numbers(s)
    BY NumsConcat, NumsType
  <1> DEFINE as == Nums(a) \o Nums(s)
  <1>2. as \in Seq(Int) /\ Members(as) = Numbers(a) \cup Numbers(s)
    BY <1>1, MembersConcat, ConcatProperties
  <1>3. Members(l \o as) = (1..n) \ gone
    BY <1>1 DEF Whole
  <1> HIDE DEF as
  <1>4. Members(l \o as) = Members(l) \cup Members(as)
    BY <1>2, IntMembers
  <1>5. 0 \notin 1..n
    OBVIOUS
  <1>6. QED
    BY <1>2, <1>3, <1>4, <1>5

-----------------------------------------------------------------------------
(***************************************************************************)
(* The way of a device's text: what was logged, what is in ReadBuffer, and *)
(* what is still on its way there.                                         *)
(***************************************************************************)

(* A sample that nobody took is no part of the text.                       *)
Blank == Has({"nidaq"}) /\ ReadBuffer = <<Unread>>

Ahead(d) == IF Dev = d /\ ~Blank THEN ReadBuffer ELSE <<>>

Taken(d) == IF Dev = d THEN tempBuffer[record] ELSE <<>>
Left(d)  == IF Dev = d THEN SubSeq(rxBuf, lastRx + 1, lastRx + bytes) ELSE <<>>

Rest(d) ==
    CASE Kind[d] = "serial" -> Taken(d) \o line[d]
      [] Kind[d] \in {"tcp", "udp"} -> Left(d) \o FlattenSeq(wire[d])
      [] Kind[d] = "nidaq" -> fifo
      [] Kind[d] = "gpib" -> answer[d]

FlowOK(d) == Whole(logged[d] \o Nums(Ahead(d) \o Rest(d)), arrived[d], lost[d])

FlowInv == \A d \in Used : FlowOK(d)

LEMMA RestIs ==
    ASSUME NEW d
    PROVE  /\ Kind[d] = "serial" => Rest(d) = Taken(d) \o line[d]
           /\ Kind[d] \in {"tcp", "udp"} => Rest(d) = Left(d) \o FlattenSeq(wire[d])
           /\ Kind[d] = "nidaq" => Rest(d) = fifo
           /\ Kind[d] = "gpib" => Rest(d) = answer[d]
  BY DEF Rest

LEMMA KeptTypes ==
    ASSUME Kept
    PROVE  /\ Facts /\ IpInv /\ PlaceInv /\ record \in Rec
           /\ Dev \in Device /\ Dev \in Used /\ Used \subseteq Device
           /\ Kind \in [Device -> Kinds]
           /\ ReadBuffer \in Seq(Char) /\ fifo \in Seq(Char)
           /\ tempBuffer[record] \in Seq(Char)
           /\ arrived \in [Device -> 0..MaxText] /\ DOMAIN lost = Device
           /\ line \in [Device -> Seq(Char)] /\ answer \in [Device -> Seq(Char)]
           /\ wire \in [Device -> Seq(Segment)] /\ DOMAIN logged = Device
  <1>1. Facts /\ IpInv /\ TextInv
    BY DEF Kept
  <1>2. QED
    BY <1>1, FactsTypes, KindAssumption DEF TextInv, Ordinal

(* A part of a text.                                                       *)
LEMMA LeftType ==
    ASSUME Kept
    PROVE  /\ SubSeq(rxBuf, lastRx + 1, lastRx + bytes) \in Seq(Char)
           /\ bytes = 0 => SubSeq(rxBuf, lastRx + 1, lastRx + bytes) = <<>>
  <1> DEFINE part == SubSeq(rxBuf, lastRx + 1, lastRx + bytes)
  <1>1. /\ rxBuf \in Seq(Char) /\ bytes \in Nat /\ lastRx \in Nat
        /\ lastRx + bytes <= Len(rxBuf) /\ Len(rxBuf) \in Nat
    BY LenProperties DEF Kept, IpInv
  <1>2. CASE bytes = 0
    <2>1. part = <<>>
      BY <1>1, <1>2, SubSeqEmpty
    <2>2. QED
      BY <2>1, EmptySeq
  <1>3. CASE bytes # 0
    <2>1. part \in Seq(Char)
      BY <1>1, <1>3, SubSeqProperties
    <2>2. QED
      BY <1>3, <2>1
  <1>4. QED
    BY <1>2, <1>3

LEMMA FlowTypes ==
    ASSUME Kept, NEW d \in Device
    PROVE  /\ Ahead(d) \in Seq(Char) /\ Taken(d) \in Seq(Char) /\ Left(d) \in Seq(Char)
           /\ FlattenSeq(wire[d]) \in Seq(Char) /\ Rest(d) \in Seq(Char)
           /\ logged[d] \in Seq(Int)
  <1>1. <<>> \in Seq(Char)
    BY EmptySeq
  <1>2. Ahead(d) \in Seq(Char) /\ Taken(d) \in Seq(Char) /\ Left(d) \in Seq(Char)
    BY <1>1, KeptTypes, LeftType DEF Ahead, Taken, Left
  <1>3. FlattenSeq(wire[d]) \in Seq(Char)
    <2>1. wire[d] \in Seq(Seq(Char))
      BY KeptTypes, SegmentsAreTexts
    <2>2. QED
      BY <2>1, FlattenType
  <1>4. line[d] \in Seq(Char) /\ fifo \in Seq(Char) /\ answer[d] \in Seq(Char)
        /\ Kind[d] \in Kinds
    BY KeptTypes
  <1>5. Taken(d) \o line[d] \in Seq(Char) /\ Left(d) \o FlattenSeq(wire[d]) \in Seq(Char)
    BY <1>2, <1>3, <1>4, ConcatProperties
  <1>6. Rest(d) \in Seq(Char)
    BY <1>4, <1>5, RestIs DEF Kinds
  <1>7. logged[d] \in Seq(Int)
    <2>1. logged[d] \in Seq(Ordinal) /\ Ordinal \subseteq Int
      BY DEF Kept, TextInv, Ordinal
    <2>2. Len(logged[d]) \in Nat /\ logged[d] = [i \in 1..Len(logged[d]) |-> logged[d][i]]
      BY <2>1, LenProperties
    <2>3. \A i \in 1..Len(logged[d]) : logged[d][i] \in Int
      BY <2>1, ElementOfSeq
    <2>4. QED
      BY <2>2, <2>3, IsASeq
  <1>8. QED
    BY <1>2, <1>3, <1>6, <1>7

-----------------------------------------------------------------------------
(***************************************************************************)
(* A step of the program is about the device of its record.                *)
(***************************************************************************)

Frame ==
    /\ UNCHANGED <<conf, record, arrived>>
    /\ \A d \in Device : d # Dev =>
          /\ line'[d] = line[d] /\ wire'[d] = wire[d] /\ answer'[d] = answer[d]
          /\ logged'[d] = logged[d] /\ lost'[d] = lost[d]
    /\ Kind[Dev] = "nidaq" \/ fifo' = fifo

LEMMA OthersFlow ==
    ASSUME Kept, FlowInv, Frame, FlowOK(Dev)'
    PROVE  FlowInv'
  <1>1. Used' = Used /\ Dev' = Dev
    BY DEF Frame, Used, Dev
  <1>2. ASSUME NEW d \in Used, d # Dev PROVE FlowOK(d)'
    <2>1. d \in Device /\ Kind[d] \in Kinds
      BY KeptTypes
    <2>2. /\ line'[d] = line[d] /\ wire'[d] = wire[d] /\ answer'[d] = answer[d]
          /\ logged'[d] = logged[d] /\ lost'[d] = lost[d] /\ arrived'[d] = arrived[d]
      BY <1>2, <2>1 DEF Frame
    <2>3. Ahead(d)' = Ahead(d) /\ Taken(d)' = Taken(d) /\ Left(d)' = Left(d)
      BY <1>1, <1>2 DEF Ahead, Taken, Left
    <2>4. Kind[d] = "nidaq" => fifo' = fifo
      BY <1>2, KeptTypes, OneTask DEF Frame
    <2>5. Rest(d)' = Rest(d)
      <3>1. CASE Kind[d] = "serial"
        BY <2>2, <2>3, <3>1 DEF Rest
      <3>2. CASE Kind[d] \in {"tcp", "udp"}
        BY <2>2, <2>3, <3>2 DEF Rest
      <3>3. CASE Kind[d] = "nidaq"
        BY <2>4, <3>3 DEF Rest
      <3>4. CASE Kind[d] = "gpib"
        BY <2>2, <3>4 DEF Rest
      <3>5. QED
        BY <2>1, <3>1, <3>2, <3>3, <3>4 DEF Kinds
    <2>6. FlowOK(d)
      BY DEF FlowInv
    <2>7. QED
      BY <2>2, <2>3, <2>5, <2>6 DEF FlowOK
  <1>3. QED
    BY <1>1, <1>2 DEF FlowInv

(* The text only moved on.                                                 *)
LEMMA SameFlow ==
    ASSUME Kept, FlowInv, Frame, logged'[Dev] = logged[Dev], lost'[Dev] = lost[Dev],
           Ahead(Dev)' \o Rest(Dev)' = Ahead(Dev) \o Rest(Dev)
    PROVE  FlowInv'
  <1>1. Dev' = Dev /\ arrived' = arrived
    BY DEF Frame, Dev
  <1>2. FlowOK(Dev)
    BY KeptTypes DEF FlowInv
  <1>3. FlowOK(Dev)'
    BY <1>1, <1>2 DEF FlowOK
  <1>4. QED
    BY <1>3, OthersFlow

(* A part of it was given up.                                              *)
LEMMA LossFlow ==
    ASSUME Kept, FlowInv, Frame, logged'[Dev] = logged[Dev],
           NEW a \in Seq(Char), NEW b \in Seq(Char), NEW c \in Seq(Char),
           Ahead(Dev) \o Rest(Dev) = a \o (b \o c),
           Ahead(Dev)' \o Rest(Dev)' = a \o c,
           lost'[Dev] = lost[Dev] \cup Numbers(b)
    PROVE  FlowInv'
  <1>1. Dev' = Dev /\ arrived' = arrived
    BY DEF Frame, Dev
  <1>2. Whole(logged[Dev] \o Nums(a \o (b \o c)), arrived[Dev], lost[Dev])
    BY KeptTypes DEF FlowInv, FlowOK
  <1>3. logged[Dev] \in Seq(Int)
    BY KeptTypes, FlowTypes
  <1>4. Whole(logged[Dev] \o Nums(a \o c), arrived[Dev], lost[Dev] \cup Numbers(b))
    BY <1>2, <1>3, LoseText
  <1>5. FlowOK(Dev)'
    BY <1>1, <1>4 DEF FlowOK
  <1>6. QED
    BY <1>5, OthersFlow

-----------------------------------------------------------------------------
(***************************************************************************)
(* The steps of the port classes.                                          *)
(***************************************************************************)

(* At the record's own device.                                             *)
LEMMA AheadIs ==
    /\ Kind[Dev] # "nidaq" => Ahead(Dev) = ReadBuffer
    /\ ~Blank => Ahead(Dev) = ReadBuffer
    /\ Taken(Dev) = tempBuffer[record]
    /\ Left(Dev) = SubSeq(rxBuf, lastRx + 1, lastRx + bytes)
  BY DEF Ahead, Taken, Left, Blank, Has

LEMMA AheadWillBe ==
    /\ Kind[Dev'] # "nidaq" => Ahead(Dev)' = ReadBuffer'
    /\ ~Blank' => Ahead(Dev)' = ReadBuffer'
    /\ Taken(Dev)' = tempBuffer'[record']
    /\ Left(Dev)' = SubSeq(rxBuf', lastRx' + 1, lastRx' + bytes')
  BY DEF Ahead, Taken, Left, Blank, Has

LEMMA RestWillBe ==
    /\ Kind[Dev'] = "serial" => Rest(Dev)' = Taken(Dev)' \o line'[Dev']
    /\ Kind[Dev'] \in {"tcp", "udp"} => Rest(Dev)' = Left(Dev)' \o FlattenSeq(wire'[Dev'])
    /\ Kind[Dev'] = "nidaq" => Rest(Dev)' = fifo'
    /\ Kind[Dev'] = "gpib" => Rest(Dev)' = answer'[Dev']
  BY DEF Rest

LEMMA SerialFlow ==
    ASSUME Kept, FlowInv, SerialStep, UNCHANGED <<ip, nidaq, gpib>>
    PROVE  FlowInv'
  <1>1. /\ PlaceInv /\ record \in Rec /\ Dev \in Device /\ DOMAIN lost = Device
        /\ ReadBuffer \in Seq(Char) /\ tempBuffer[record] \in Seq(Char)
        /\ DOMAIN tempBuffer = Rec /\ DOMAIN line = Device /\ line[Dev] \in Seq(Char)
        /\ <<>> \in Seq(Char)
    BY KeptTypes, EmptySeq DEF Kept, Facts, Known, Base, TempInv
  <1>2. Kind[Dev] = "serial" /\ UNCHANGED <<conf, record, arrived, logged>>
    BY DEF SerialStep, WriteSerial, ProbeSerial, BeginSerial, ReadChar, SerialTimesOut,
       Written, Probed, ReadBegins, Goto, Has, history
  <1>3. Dev' = Dev
    BY <1>2 DEF Dev
  <1>4. /\ \A d \in Device : d # Dev => line'[d] = line[d]
        /\ \A d \in Device : d # Dev => lost'[d] = lost[d]
    BY <1>1 DEF SerialStep, WriteSerial, ProbeSerial, BeginSerial, ReadChar,
       SerialTimesOut, TakeNext, Probed, ReadBegins, history, serial
  <1>5. Frame
    BY <1>2, <1>4 DEF Frame, ip, nidaq, gpib
  <1> DEFINE text == line[Dev]
             temp == tempBuffer[record]
  <1>6. /\ Ahead(Dev) = ReadBuffer /\ Rest(Dev) = temp \o text
        /\ Ahead(Dev)' = ReadBuffer' /\ Rest(Dev)' = tempBuffer'[record] \o line'[Dev]
    BY <1>2, <1>3, AheadIs, AheadWillBe, RestIs, RestWillBe
  <1>7. pc # "begin" => temp = <<>>
    BY <1>1 DEF Kept, Facts, Known, Base, TempInv, Probing
  <1>8. pc \in {"write", "probe", "begin"} => ReadBuffer = <<>>
    BY <1>1 DEF PlaceInv, Reading
  <1>9. CASE WriteSerial
    <2>1. pc = "write" /\ ReadBuffer' = ReadBuffer /\ tempBuffer' = tempBuffer
      BY <1>9 DEF WriteSerial, Written
    <2>2. CASE lost' = lost /\ line' = line
      BY <1>2, <1>5, <1>6, <2>1, <2>2, SameFlow
    <2>3. CASE /\ lost' = [lost EXCEPT ![Dev] = @ \cup Numbers(line[Dev])]
               /\ line' = [line EXCEPT ![Dev] = <<>>]
      <3>1. lost'[Dev] = lost[Dev] \cup Numbers(text) /\ line'[Dev] = <<>>
        BY <1>1, <2>3
      <3>2. ReadBuffer = <<>> /\ temp = <<>>
        BY <1>7, <1>8, <2>1
      <3>3. Ahead(Dev) \o Rest(Dev) = <<>> \o (text \o <<>>)
        BY <1>1, <1>6, <3>2, ConcatEmptySeq
      <3>4. Ahead(Dev)' \o Rest(Dev)' = <<>> \o <<>>
        BY <1>1, <1>6, <2>1, <3>1, <3>2, ConcatEmptySeq
      <3>5. logged'[Dev] = logged[Dev]
        BY <1>2
      <3>6. QED
        BY <1>1, <1>5, <3>1, <3>3, <3>4, <3>5, LossFlow
    <2>4. QED
      BY <1>9, <2>2, <2>3 DEF WriteSerial
  <1>10. ASSUME lost' = lost, ReadBuffer' \o (tempBuffer'[record] \o line'[Dev])
                              = ReadBuffer \o (temp \o text)
         PROVE  FlowInv'
    BY <1>2, <1>5, <1>6, <1>10, SameFlow
  <1>11. CASE ProbeSerial
    <2>1. lost' = lost /\ ReadBuffer' = ReadBuffer
      BY <1>11 DEF ProbeSerial, Probed, history
    <2>2. CASE text = <<>>
      BY <1>10, <1>11, <2>1, <2>2 DEF ProbeSerial, serial
    <2>3. CASE text # <<>>
      <3>1. tempBuffer'[record] = Append(temp, Head(text)) /\ line'[Dev] = Tail(text)
        BY <1>1, <1>11, <2>3 DEF ProbeSerial, TakeNext
      <3>2. Append(temp, Head(text)) \o Tail(text) = temp \o text
        BY <1>1, <2>3, MoveHead
      <3>3. QED
        BY <1>10, <2>1, <3>1, <3>2
    <2>4. QED
      BY <2>2, <2>3
  <1>12. CASE BeginSerial
    <2>1. /\ lost' = lost /\ ReadBuffer' = temp /\ line' = line /\ ReadBuffer = <<>>
          /\ tempBuffer'[record] = <<>>
      BY <1>1, <1>8, <1>12 DEF BeginSerial, ReadBegins, history
    <2>2. temp \o text \in Seq(Char)
      BY <1>1, ConcatProperties
    <2>3. <<>> \o text = text /\ <<>> \o (temp \o text) = temp \o text
      BY <1>1, <2>2, ConcatEmptySeq
    <2>4. QED
      BY <1>10, <2>1, <2>3
  <1>13. CASE ReadChar
    <2>1. /\ lost' = lost /\ ReadBuffer' = Append(ReadBuffer, Head(text))
          /\ text # <<>> /\ line'[Dev] = Tail(text)
          /\ tempBuffer' = tempBuffer /\ temp = <<>>
      BY <1>1, <1>7, <1>13 DEF ReadChar, TakeNext, history
    <2>2. Append(ReadBuffer, Head(text)) \o Tail(text) = ReadBuffer \o text
      BY <1>1, <2>1, MoveHead
    <2>3. Tail(text) \in Seq(Char)
      BY <1>1, <2>1, HeadTailProperties
    <2>4. <<>> \o text = text /\ <<>> \o Tail(text) = Tail(text)
      BY <1>1, <2>3, ConcatEmptySeq
    <2>5. QED
      BY <1>10, <2>1, <2>2, <2>4
  <1>14. CASE SerialTimesOut
    BY <1>10, <1>14 DEF SerialTimesOut, history, serial
  <1>15. QED
    BY <1>9, <1>11, <1>12, <1>13, <1>14 DEF SerialStep

LEMMA GpibFlow ==
    ASSUME Kept, FlowInv, GpibStep, UNCHANGED <<serial, ip, nidaq>>
    PROVE  FlowInv'
  <1>1. /\ PlaceInv /\ Dev \in Device /\ DOMAIN lost = Device
        /\ ReadBuffer \in Seq(Char)
        /\ DOMAIN answer = Device /\ answer[Dev] \in Seq(Char) /\ <<>> \in Seq(Char)
    BY KeptTypes, EmptySeq
  <1>2. Kind[Dev] = "gpib" /\ UNCHANGED <<conf, record, arrived, logged>>
    BY DEF GpibStep, WriteGpib, ProbeGpib, BeginGpib, TakeChar, GpibTimesOut,
       Written, Probed, ReadBegins, Goto, Has, history
  <1>3. Dev' = Dev
    BY <1>2 DEF Dev
  <1>4. /\ \A d \in Device : d # Dev => answer'[d] = answer[d]
        /\ \A d \in Device : d # Dev => lost'[d] = lost[d]
    BY <1>1 DEF GpibStep, WriteGpib, ProbeGpib, BeginGpib, TakeChar, GpibTimesOut,
       Probed, ReadBegins, history, gpib
  <1>5. Frame
    BY <1>2, <1>4 DEF Frame, serial, ip, nidaq
  <1> DEFINE text == answer[Dev]
  <1>6. /\ Ahead(Dev) = ReadBuffer /\ Rest(Dev) = text
        /\ Ahead(Dev)' = ReadBuffer' /\ Rest(Dev)' = answer'[Dev]
    BY <1>2, <1>3, AheadIs, AheadWillBe, RestIs, RestWillBe
  <1>7. ASSUME lost' = lost, ReadBuffer' \o answer'[Dev] = ReadBuffer \o text
        PROVE  FlowInv'
    BY <1>2, <1>5, <1>6, <1>7, SameFlow
  <1>8. CASE WriteGpib \/ ProbeGpib
    BY <1>7, <1>8 DEF WriteGpib, ProbeGpib, Written, Probed, history, gpib
  <1>9. CASE BeginGpib
    <2>1. lost' = lost /\ ReadBuffer' = <<>> /\ ReadBuffer = <<>> /\ answer' = answer
      BY <1>1, <1>9 DEF BeginGpib, ReadBegins, history, gpib, PlaceInv, Reading
    <2>2. QED
      BY <1>7, <2>1
  <1>10. CASE TakeChar
    <2>1. /\ lost' = lost /\ ReadBuffer' = Append(ReadBuffer, Head(text))
          /\ text # <<>> /\ answer'[Dev] = Tail(text)
      BY <1>1, <1>10 DEF TakeChar, history
    <2>2. Append(ReadBuffer, Head(text)) \o Tail(text) = ReadBuffer \o text
      BY <1>1, <2>1, MoveHead
    <2>3. QED
      BY <1>7, <2>1, <2>2
  <1>11. CASE GpibTimesOut
    <2>1. /\ lost'[Dev] = lost[Dev] \cup Numbers(ReadBuffer)
          /\ ReadBuffer' = <<>> /\ answer' = answer
      BY <1>1, <1>11 DEF GpibTimesOut, gpib
    <2>2. ReadBuffer \o text \in Seq(Char)
      BY <1>1, ConcatProperties
    <2>3. <<>> \o (ReadBuffer \o text) = ReadBuffer \o text
      BY <2>2, ConcatEmptySeq
    <2>4. logged'[Dev] = logged[Dev]
      BY <1>2
    <2>5. Ahead(Dev) \o Rest(Dev) = <<>> \o (ReadBuffer \o text)
      BY <1>6, <2>3
    <2>6. Ahead(Dev)' \o Rest(Dev)' = <<>> \o text
      BY <1>6, <2>1
    <2>7. QED
      BY <1>1, <1>5, <2>1, <2>4, <2>5, <2>6, LossFlow
  <1>12. QED
    BY <1>8, <1>9, <1>10, <1>11 DEF GpibStep

LEMMA NidaqFlow ==
    ASSUME Kept, FlowInv, NidaqStep, UNCHANGED <<serial, ip, gpib>>
    PROVE  FlowInv'
  <1>1. /\ PlaceInv /\ Dev \in Device /\ Dev \in Used
        /\ ReadBuffer \in Seq(Char) /\ fifo \in Seq(Char) /\ <<>> \in Seq(Char)
    BY KeptTypes, EmptySeq
  <1>2. UNCHANGED <<conf, record, arrived, logged, lost>>
    BY DEF NidaqStep, WriteNidaq, TestFlag, ClearFlag, ReadSample, Written, Probed,
       Goto, history
  <1>3. Kind[Dev] = "nidaq"
    BY <1>1 DEF NidaqStep, WriteNidaq, TestFlag, ClearFlag, ReadSample, PlaceInv, Has
  <1>4. Dev' = Dev /\ Frame
    BY <1>2, <1>3 DEF Frame, Dev, serial, ip, gpib
  <1>5. Rest(Dev) = fifo /\ Rest(Dev)' = fifo'
    BY <1>3, <1>4, RestIs, RestWillBe
  <1>6. ASSUME Ahead(Dev)' \o fifo' = Ahead(Dev) \o fifo PROVE FlowInv'
    BY <1>2, <1>4, <1>5, <1>6, SameFlow
  <1>7. CASE WriteNidaq \/ TestFlag \/ ClearFlag
    <2>1. UNCHANGED <<ReadBuffer, fifo>>
      BY <1>7 DEF WriteNidaq, TestFlag, ClearFlag, Written, Probed, nidaq
    <2>2. Ahead(Dev)' = Ahead(Dev)
      BY <1>2, <1>4, <2>1 DEF Ahead, Blank, Has, Dev
    <2>3. QED
      BY <1>6, <2>1, <2>2
  <1>8. CASE ReadSample
    <2>1. ReadBuffer = <<>>
      BY <1>1, <1>8 DEF ReadSample, PlaceInv, Reading
    <2>2. Ahead(Dev) = <<>>
      BY <2>1 DEF Ahead
    <2>3. CASE fifo = <<>>
      <3>1. ReadBuffer' = <<Unread>> /\ fifo' = fifo
        BY <1>8, <2>3 DEF ReadSample
      <3>2. Ahead(Dev)' = <<>>
        BY <1>3, <1>4, <3>1 DEF Ahead, Blank, Has
      <3>3. QED
        BY <1>6, <2>2, <3>1, <3>2
    <2>4. CASE fifo # <<>>
      <3>1. ReadBuffer' = <<Head(fifo)>> /\ fifo' = Tail(fifo)
        BY <1>8, <2>4 DEF ReadSample
      <3>2. 0 \notin Numbers(fifo)
        <4>1. Whole(logged[Dev] \o Nums(<<>> \o fifo), arrived[Dev], lost[Dev])
          BY <1>1, <1>5, <2>2 DEF FlowInv, FlowOK
        <4>2. logged[Dev] \in Seq(Int)
          BY <1>1, FlowTypes
        <4>3. QED
          BY <1>1, <4>1, <4>2, TextNumbered
      <3>3. /\ Head(fifo) \in Char /\ Head(fifo) = fifo[1] /\ 1 \in DOMAIN fifo
            /\ Tail(fifo) \in Seq(Char)
        BY <1>1, <2>4, HeadTailProperties, EmptySeq, LenProperties
      <3>4. Head(fifo).n # 0
        BY <3>2, <3>3 DEF Numbers
      <3>5. ReadBuffer' # <<Unread>>
        BY <3>1, <3>4 DEF Unread
      <3>6. Ahead(Dev)' = <<Head(fifo)>>
        BY <3>1, <3>5, AheadWillBe DEF Blank
      <3>7. Append(<<>>, Head(fifo)) \o Tail(fifo) = <<>> \o fifo
        BY <1>1, <2>4, MoveHead
      <3>8. Append(<<>>, Head(fifo)) = <<Head(fifo)>>
        OBVIOUS
      <3>9. QED
        BY <1>6, <2>2, <3>1, <3>6, <3>7, <3>8
    <2>5. QED
      BY <2>3, <2>4
  <1>9. QED
    BY <1>7, <1>8 DEF NidaqStep

(* recvfrom() moves the next segment on, cuts it, or drops the datagram.   *)
LEMMA ReceiveFlow ==
    ASSUME Kept, FlowInv, Receive, Frame
    PROVE  FlowInv'
  <1> DEFINE text == Head(wire[Dev])
             more == Tail(wire[Dev])
             later == FlattenSeq(more)
             rest == SubSeq(text, RxSize + 1, Len(text))
  <1>1. /\ PlaceInv /\ Dev \in Device /\ ReadBuffer \in Seq(Char)
        /\ wire \in [Device -> Seq(Segment)] /\ DOMAIN lost = Device /\ rxBuf \in Seq(Char)
    BY KeptTypes DEF Kept, IpInv
  <1>2. /\ Kind[Dev] \in {"tcp", "udp"} /\ bytes = 0 /\ Dev' = Dev
        /\ UNCHANGED <<ReadBuffer, logged>> /\ wire[Dev] # <<>>
    BY <1>1 DEF Receive, Frame, PlaceInv, Has, Dev
  <1>3. /\ text \in Seq(Char) /\ text # <<>> /\ more \in Seq(Seq(Char))
        /\ Len(text) \in Nat
    <2>1. text \in Segment
      BY TakenApart DEF Receive, Kept, Facts, Known, Base
    <2>2. wire[Dev] \in Seq(Seq(Char))
      BY <1>1, SegmentsAreTexts
    <2>3. more \in Seq(Seq(Char))
      BY <1>2, <2>2, HeadTailProperties
    <2>4. QED
      BY <2>1, <2>3, LenProperties DEF Segment
  <1>4. later \in Seq(Char)
    BY <1>3, FlattenType
  <1>5. FlattenSeq(wire[Dev]) = text \o later
    <2>1. wire[Dev] \in Seq(Seq(Char)) /\ <<>> \in Seq(Seq(Char))
      BY <1>1, SegmentsAreTexts, EmptySeq
    <2>2. Append(<<>>, text) \o more = <<>> \o wire[Dev]
      BY <1>2, <2>1, MoveHead
    <2>3. <<text>> \o more = wire[Dev]
      BY <2>1, <2>2, ConcatEmptySeq
    <2>4. FlattenSeq(<<text>> \o more) = text \o later
      BY <1>3, FlattenCons
    <2>5. QED
      BY <2>3, <2>4
  <1>6. text \o later \in Seq(Char)
    BY <1>3, <1>4, ConcatProperties
  <1>7. Ahead(Dev) = ReadBuffer /\ Rest(Dev) = text \o later
    <2>1. Ahead(Dev) = ReadBuffer
      BY <1>2, AheadIs
    <2>2. Left(Dev) = <<>>
      BY <1>2, AheadIs, LeftType
    <2>3. Rest(Dev) = <<>> \o (text \o later)
      BY <1>2, <1>5, <2>2, RestIs
    <2>4. QED
      BY <1>6, <2>1, <2>3, ConcatEmptySeq
  <1>8. Room = RxSize /\ RxSize \in Nat \ {0}
    BY <1>2, RxSizeAssumption DEF Room
  <1>9. /\ Stored \in Seq(Char) /\ Len(Stored) \in Nat
        /\ rxBuf' = Stored /\ lastRx' = 0 /\ bytes' = Len(Stored)
        /\ wire'[Dev] = LeftOver
    <2>1. Stored \in Seq(Char) /\ Len(Stored) \in Nat
      BY StoredText, LenProperties DEF Kept
    <2>2. SubSeq(rxBuf, 1, 0) = <<>>
      BY SubSeqEmpty
    <2>3. rxBuf' = <<>> \o Stored /\ lastRx' = 0 /\ bytes' = Len(Stored)
      BY <1>2, <2>1, <2>2 DEF Receive
    <2>4. wire'[Dev] = LeftOver
      BY <1>1 DEF Receive
    <2>5. QED
      BY <2>1, <2>3, <2>4, ConcatEmptySeq
  <1>10. Ahead(Dev)' = ReadBuffer /\ Rest(Dev)' = Stored \o FlattenSeq(LeftOver)
    <2>1. Ahead(Dev)' = ReadBuffer
      BY <1>2, AheadWillBe
    <2>2. Left(Dev)' = SubSeq(Stored, 0 + 1, 0 + Len(Stored))
      BY <1>9, AheadWillBe
    <2>3. Left(Dev)' = SubSeq(Stored, 1, Len(Stored))
      BY <1>9, <2>2
    <2>4. SubSeq(Stored, 1, Len(Stored)) = Stored
      <3> DEFINE part == SubSeq(Stored, 1, Len(Stored))
      <3>1. CASE Len(Stored) = 0
        <4>1. Stored = <<>> /\ part = <<>>
          BY <1>9, <3>1, EmptySeq, SubSeqEmpty
        <4>2. QED
          BY <4>1
      <3>2. CASE Len(Stored) # 0
        <4>1. /\ part \in Seq(Char) /\ Len(part) = Len(Stored)
              /\ \A i \in 1..Len(Stored) : part[i] = Stored[i]
          BY <1>9, <3>2, SubSeqProperties
        <4> HIDE DEF part
        <4>2. part = Stored
          BY <1>9, <4>1, SeqEqual
        <4>3. QED
          BY <4>2 DEF part
      <3>3. QED
        BY <3>1, <3>2
    <2>5. QED
      BY <1>2, <1>9, <2>1, <2>3, <2>4, RestWillBe
  <1>11. ASSUME Stored # <<>>, Stored \o FlattenSeq(LeftOver) = text \o later
         PROVE  FlowInv'
    <2>1. lost' = [lost EXCEPT ![Dev] = lost[Dev]]
      BY <1>11 DEF Receive
    <2>2. lost'[Dev] = lost[Dev] /\ logged'[Dev] = logged[Dev]
      BY <1>1, <1>2, <2>1
    <2>3. QED
      BY <1>7, <1>10, <1>11, <2>2, SameFlow
  <1>12. CASE Len(text) <= RxSize
    <2>1. Stored = text /\ LeftOver = more
      BY <1>3, <1>8, <1>12 DEF Stored, LeftOver
    <2>2. QED
      BY <1>3, <1>11, <2>1
  <1>13. CASE Len(text) > RxSize /\ Kind[Dev] = "tcp"
    <2> DEFINE first == SubSeq(text, 1, RxSize)
    <2>1. Stored = first /\ LeftOver = <<rest>> \o more
      BY <1>3, <1>8, <1>13 DEF Stored, LeftOver
    <2>2. /\ first \in Seq(Char) /\ Len(first) = RxSize
          /\ \A i \in 1..RxSize : first[i] = text[i]
          /\ rest \in Seq(Char) /\ Len(rest) = Len(text) - RxSize
          /\ \A i \in 1..(Len(text) - RxSize) : rest[i] = text[RxSize + i]
      <3>1. /\ first \in Seq(Char) /\ Len(first) = RxSize
            /\ \A i \in 1..RxSize : first[i] = text[i]
        BY <1>3, <1>8, <1>13, SubSeqProperties
      <3>2. /\ rest \in Seq(Char) /\ Len(rest) = Len(text) - RxSize
            /\ \A i \in 1..(Len(text) - RxSize) : rest[i] = text[RxSize + i]
        BY <1>3, <1>8, <1>13, SubSeqProperties
      <3>3. QED
        BY <3>1, <3>2
    <2> HIDE DEF first, rest
    <2>3. first \o rest = text
      <3> DEFINE both == first \o rest
      <3>1. /\ both \in Seq(Char) /\ Len(both) = Len(first) + Len(rest)
            /\ \A i \in 1..(Len(first) + Len(rest)) :
                  both[i] = IF i <= Len(first) THEN first[i] ELSE rest[i - Len(first)]
        BY <2>2, ConcatProperties
      <3>2. Len(both) = Len(text)
        BY <1>3, <1>8, <2>2, <3>1
      <3>3. ASSUME NEW i \in 1..Len(text) PROVE both[i] = text[i]
        <4>1. CASE i <= RxSize
          BY <1>3, <1>8, <2>2, <3>1, <4>1
        <4>2. CASE ~(i <= RxSize)
          <5>1. i - RxSize \in 1..(Len(text) - RxSize) /\ RxSize + (i - RxSize) = i
            BY <1>3, <1>8, <4>2
          <5>2. rest[i - RxSize] = text[RxSize + (i - RxSize)]
            BY <2>2, <5>1
          <5>3. both[i] = rest[i - RxSize]
            BY <1>3, <1>8, <2>2, <3>1, <4>2
          <5>4. QED
            BY <5>1, <5>2, <5>3
        <4>3. QED
          BY <4>1, <4>2
      <3> HIDE DEF both
      <3>4. both = text
        BY <1>3, <3>1, <3>2, <3>3, SeqEqual
      <3>5. QED
        BY <3>4 DEF both
    <2>4. FlattenSeq(<<rest>> \o more) = rest \o later
      BY <1>3, <2>2, FlattenCons
    <2>5. first \o (rest \o later) = (first \o rest) \o later
      BY <1>4, <2>2, CharAssociative
    <2>6. Stored # <<>>
      BY <1>8, <2>1, <2>2, EmptySeq
    <2>7. QED
      BY <1>11, <2>1, <2>3, <2>4, <2>5, <2>6
  <1>14. CASE Len(text) > RxSize /\ Kind[Dev] # "tcp"
    <2>1. Stored = <<>> /\ LeftOver = more
      BY <1>3, <1>8, <1>14 DEF Stored, LeftOver
    <2>2. lost'[Dev] = lost[Dev] \cup Numbers(text) /\ logged'[Dev] = logged[Dev]
      BY <1>1, <1>2, <2>1 DEF Receive
    <2>3. Ahead(Dev) \o Rest(Dev) = ReadBuffer \o (text \o later)
      BY <1>7
    <2>4. Ahead(Dev)' \o Rest(Dev)' = ReadBuffer \o later
      BY <1>4, <1>10, <2>1, ConcatEmptySeq
    <2> HIDE DEF text, later
    <2>5. QED
      BY <1>1, <1>3, <1>4, <2>2, <2>3, <2>4, LossFlow
  <1>15. QED
    BY <1>3, <1>8, <1>12, <1>13, <1>14

(* The copy takes the first of what is left.                               *)
LEMMA CopyFlow ==
    ASSUME Kept, FlowInv, Copy, Frame
    PROVE  FlowInv'
  <1> DEFINE left == SubSeq(rxBuf, lastRx + 1, lastRx + bytes)
             less == SubSeq(rxBuf, lastRx + 1 + 1, lastRx + 1 + (bytes - 1))
             later == FlattenSeq(wire[Dev])
  <1>1. /\ PlaceInv /\ Dev \in Device /\ ReadBuffer \in Seq(Char)
        /\ rxBuf \in Seq(Char) /\ bytes \in Nat /\ lastRx \in Nat /\ bytes > 0
        /\ lastRx + bytes <= Len(rxBuf) /\ Len(rxBuf) \in Nat /\ later \in Seq(Char)
    BY KeptTypes, FlowTypes, LenProperties DEF Kept, IpInv, Copy
  <1>2. /\ Kind[Dev] \in {"tcp", "udp"} /\ Dev' = Dev
        /\ UNCHANGED <<logged, lost, wire>>
        /\ ReadBuffer' = Append(ReadBuffer, rxBuf[lastRx + 1])
        /\ bytes' = bytes - 1 /\ lastRx' = lastRx + 1 /\ rxBuf' = rxBuf
    BY <1>1 DEF Copy, Frame, PlaceInv, Has, Dev, history
  <1>3. /\ left \in Seq(Char) /\ Len(left) = bytes
        /\ \A i \in 1..bytes : left[i] = rxBuf[lastRx + i]
    <2> DEFINE e == lastRx + bytes
    <2>1. e \in Nat /\ lastRx <= e /\ e <= Len(rxBuf) /\ e - lastRx = bytes
      BY <1>1
    <2> HIDE DEF e, Char
    <2>2. /\ SubSeq(rxBuf, lastRx + 1, e) \in Seq(Char)
          /\ Len(SubSeq(rxBuf, lastRx + 1, e)) = e - lastRx
          /\ \A i \in 1..(e - lastRx) : SubSeq(rxBuf, lastRx + 1, e)[i] = rxBuf[lastRx + i]
      BY <1>1, <2>1, CutOf
    <2>3. QED
      BY <2>1, <2>2 DEF e
  <1>4. left # <<>>
    <2> HIDE DEF left
    <2>1. Len(left) # 0
      BY <1>1, <1>3
    <2>2. QED
      BY <1>3, <2>1, EmptyChars
  <1>5. Head(left) = rxBuf[lastRx + 1]
    <2> HIDE DEF left, Char
    <2>1. Head(left) = left[1]
      BY <1>3, <1>4
    <2>2. left[1] = rxBuf[lastRx + 1]
      BY <1>1, <1>3
    <2>3. QED
      BY <2>1, <2>2
  <1>6. less = Tail(left)
    <2> HIDE DEF left
    <2>1. /\ Tail(left) \in Seq(Char) /\ Len(Tail(left)) = bytes - 1
          /\ \A i \in 1..Len(Tail(left)) : Tail(left)[i] = left[i + 1]
      BY <1>3, <1>4, HeadTailProperties
    <2>2. \A i \in 1..(bytes - 1) : Tail(left)[i] = rxBuf[lastRx + (i + 1)]
      BY <1>1, <1>3, <2>1
    <2>3. CASE bytes = 1
      <3>1. Tail(left) = <<>>
        <4> DEFINE end == Tail(left)
        <4>1. end \in Seq(Char) /\ Len(end) = 0
          BY <2>1, <2>3
        <4> HIDE DEF end
        <4>2. end = <<>>
          BY <4>1, EmptyChars
        <4>3. QED
          BY <4>2 DEF end
      <3>2. less = <<>>
        BY <1>1, <2>3, SubSeqEmpty
      <3>3. QED
        BY <3>1, <3>2
    <2>4. CASE bytes # 1
      <3> DEFINE from == lastRx + 1 + 1
                 to == lastRx + 1 + (bytes - 1)
      <3>1. /\ from \in 1..Len(rxBuf) /\ to \in from..Len(rxBuf)
            /\ to - from + 1 = bytes - 1
        BY <1>1, <2>4
      <3> HIDE DEF from, to
      <3>2. /\ SubSeq(rxBuf, from, to) \in Seq(Char)
            /\ Len(SubSeq(rxBuf, from, to)) = bytes - 1
            /\ \A i \in 1..(bytes - 1) : SubSeq(rxBuf, from, to)[i] = rxBuf[from + i - 1]
        BY <1>1, <3>1, SubSeqProperties
      <3>3. \A i \in 1..(bytes - 1) : from + i - 1 = lastRx + (i + 1)
        BY <1>1 DEF from
      <3>4. \A i \in 1..(bytes - 1) : SubSeq(rxBuf, from, to)[i] = Tail(left)[i]
        BY <2>2, <3>2, <3>3
      <3>5. SubSeq(rxBuf, from, to) = Tail(left)
        BY <2>1, <3>2, <3>4, SeqEqual
      <3>6. QED
        BY <3>5 DEF from, to
    <2>5. QED
      BY <2>3, <2>4
  <1> HIDE DEF left, less, later
  <1>7. Ahead(Dev) \o Rest(Dev) = ReadBuffer \o (left \o later)
    <2>1. Ahead(Dev) = ReadBuffer /\ Left(Dev) = left
      BY <1>2, AheadIs DEF left
    <2>2. QED
      BY <1>2, <2>1, RestIs DEF later
  <1>8. Ahead(Dev)' \o Rest(Dev)' = Append(ReadBuffer, Head(left)) \o (Tail(left) \o later)
    <2>1. Ahead(Dev)' = Append(ReadBuffer, Head(left))
      BY <1>2, <1>5, AheadWillBe
    <2>2. Left(Dev)' = less
      BY <1>2, AheadWillBe DEF less
    <2>3. QED
      BY <1>2, <1>6, <2>1, <2>2, RestWillBe DEF later
  <1>9. Append(ReadBuffer, Head(left)) \o (Tail(left) \o later) = ReadBuffer \o (left \o later)
    <2> DEFINE read == Append(ReadBuffer, Head(left))
    <2>1. Head(left) \in Char /\ Tail(left) \in Seq(Char)
      BY <1>3, <1>4, HeadTailProperties
    <2>2. read \in Seq(Char)
      BY <1>1, <2>1, AppendProperties
    <2>3. read \o Tail(left) = ReadBuffer \o left
      BY <1>1, <1>3, <1>4, MoveHead
    <2> HIDE DEF read
    <2>4. read \o (Tail(left) \o later) = (read \o Tail(left)) \o later
      BY <1>1, <2>1, <2>2, CharAssociative
    <2>5. ReadBuffer \o (left \o later) = (ReadBuffer \o left) \o later
      BY <1>1, <1>3, CharAssociative
    <2>6. QED
      BY <2>3, <2>4, <2>5 DEF read
  <1>10. logged'[Dev] = logged[Dev] /\ lost'[Dev] = lost[Dev]
    BY <1>2
  <1>11. QED
    BY <1>7, <1>8, <1>9, <1>10, SameFlow

LEMMA IpFlow ==
    ASSUME Kept, FlowInv, IpStep, UNCHANGED <<serial, nidaq, gpib>>
    PROVE  FlowInv'
  <1>1. PlaceInv /\ Dev \in Device /\ DOMAIN wire = Device /\ DOMAIN lost = Device
    BY KeptTypes
  <1>2. /\ Kind[Dev] \in {"tcp", "udp"} /\ UNCHANGED <<conf, record, arrived, logged>>
    BY <1>1 DEF IpStep, WriteIp, ProbeIp, BeginIp, TestIp, Receive, ReceiveNothing,
       Copy, CopyDone, Written, Probed, ReadBegins, Goto, PlaceInv, Has, history
  <1>3. Dev' = Dev
    BY <1>2 DEF Dev
  <1>4. /\ \A d \in Device : d # Dev => wire'[d] = wire[d]
        /\ \A d \in Device : d # Dev => lost'[d] = lost[d]
    BY <1>1 DEF IpStep, WriteIp, ProbeIp, BeginIp, TestIp, Receive, ReceiveNothing,
       Copy, CopyDone, Probed, ReadBegins, history, ip
  <1>5. Frame
    BY <1>2, <1>4 DEF Frame, serial, nidaq, gpib
  <1>6. ASSUME UNCHANGED <<ReadBuffer, lost, wire>>, Left(Dev)' = Left(Dev)
        PROVE  FlowInv'
    <2>1. Ahead(Dev)' = ReadBuffer' /\ Ahead(Dev) = ReadBuffer
      BY <1>2, <1>3, AheadIs, AheadWillBe
    <2>2. Rest(Dev)' = Rest(Dev)
      BY <1>2, <1>3, <1>6, RestIs, RestWillBe
    <2>3. QED
      BY <1>2, <1>5, <1>6, <2>1, <2>2, SameFlow
  <1>7. CASE WriteIp \/ ProbeIp \/ TestIp \/ CopyDone
    <2>1. UNCHANGED <<ReadBuffer, lost, wire, rxBuf, bytes, lastRx>>
      BY <1>7 DEF WriteIp, ProbeIp, TestIp, CopyDone, Written, Probed, history, ip
    <2>2. QED
      BY <1>3, <1>6, <2>1 DEF Left
  <1>8. CASE BeginIp
    <2>1. UNCHANGED <<ReadBuffer, lost, wire, rxBuf, bytes, lastRx>>
      BY <1>1, <1>8 DEF BeginIp, ReadBegins, PlaceInv, Reading, history
    <2>2. QED
      BY <1>3, <1>6, <2>1 DEF Left
  <1>9. CASE ReceiveNothing
    <2>1. UNCHANGED <<ReadBuffer, lost, wire, bytes>> /\ bytes = 0
      BY <1>1, <1>9 DEF ReceiveNothing, PlaceInv, history
    <2>2. Left(Dev) = <<>>
      BY <2>1, AheadIs, LeftType
    <2>3. SubSeq(rxBuf', lastRx' + 1, lastRx' + bytes') = <<>>
      <3>1. lastRx' = 0 /\ bytes' = 0
        BY <1>9, <2>1 DEF ReceiveNothing
      <3>2. QED
        BY <3>1, SubSeqEmpty
    <2>4. QED
      BY <1>6, <2>1, <2>2, <2>3, AheadWillBe
  <1>10. CASE Receive
    BY <1>5, <1>10, ReceiveFlow
  <1>11. CASE Copy
    BY <1>5, <1>11, CopyFlow
  <1>12. QED
    BY <1>7, <1>8, <1>9, <1>10, <1>11 DEF IpStep

-----------------------------------------------------------------------------
(***************************************************************************)
(* The loop.                                                               *)
(***************************************************************************)

(* Where nothing is under way, the text is what waits outside.             *)
LEMMA RestAlone ==
    ASSUME Kept, pc = "idle", NEW d \in Device
    PROVE  Ahead(d) = <<>> /\ Taken(d) = <<>> /\ Left(d) = <<>>
  <1>1. PlaceInv /\ record \in Rec
    BY KeptTypes
  <1>2. ReadBuffer = <<>> /\ bytes = 0
    BY <1>1 DEF PlaceInv, Reading
  <1>3. tempBuffer[record] = <<>>
    BY <1>1 DEF Kept, Facts, Known, Base, TempInv, Probing
  <1>4. SubSeq(rxBuf, lastRx + 1, lastRx + bytes) = <<>>
    BY <1>2, LeftType
  <1>5. QED
    BY <1>2, <1>3, <1>4 DEF Ahead, Taken, Left

LEMMA TurnFlow ==
    ASSUME Kept, FlowInv, NextTurn, UNCHANGED <<serial, ip, nidaq, gpib>>
    PROVE  FlowInv'
  <1>1. /\ pc = "idle" /\ conf' = conf /\ record' \in Rec /\ Used' = Used
        /\ UNCHANGED <<ReadBuffer, arrived, logged, lost>>
        /\ UNCHANGED <<line, tempBuffer, wire, rxBuf, bytes, lastRx, fifo, answer>>
    BY DEF NextTurn, Used, serial, ip, nidaq, gpib
  <1>2. ReadBuffer = <<>> /\ bytes = 0 /\ \A r \in Rec : tempBuffer[r] = <<>>
    BY <1>1, KeptTypes
    DEF PlaceInv, Reading, Kept, Facts, Known, Base, TempInv, Probing
  <1>3. ASSUME NEW d \in Used PROVE FlowOK(d)'
    <2>1. d \in Device /\ Kind[d] \in Kinds
      BY KeptTypes
    <2>2. Ahead(d) = <<>> /\ Taken(d) = <<>> /\ Left(d) = <<>>
      BY <1>1, <2>1, RestAlone
    <2>3. Ahead(d)' = <<>> /\ Taken(d)' = <<>>
      BY <1>1, <1>2 DEF Ahead, Taken
    <2>4. Left(d)' = <<>>
      <3>1. SubSeq(rxBuf, lastRx + 1, lastRx + bytes) = <<>>
        BY <1>2, LeftType
      <3>2. QED
        BY <1>1, <3>1 DEF Left
    <2>5. Rest(d)' = Rest(d)
      <3>1. CASE Kind[d] = "serial"
        BY <1>1, <2>2, <2>3, <3>1 DEF Rest
      <3>2. CASE Kind[d] \in {"tcp", "udp"}
        BY <1>1, <2>2, <2>4, <3>2 DEF Rest
      <3>3. CASE Kind[d] \in {"nidaq", "gpib"}
        BY <1>1, <3>3 DEF Rest
      <3>4. QED
        BY <2>1, <3>1, <3>2, <3>3 DEF Kinds
    <2>6. FlowOK(d)
      BY DEF FlowInv
    <2>7. QED
      BY <1>1, <2>2, <2>3, <2>5, <2>6 DEF FlowOK
  <1>4. QED
    BY <1>1, <1>3 DEF FlowInv

(* What main() logs is what ReadBuffer adds to the text.                   *)
LEMMA AheadLogged ==
    ASSUME Kept, FlowInv
    PROVE  NumbersOf(ReadBuffer) = Nums(Ahead(Dev))
  <1>1. ReadBuffer \in Seq(Char) /\ Dev \in Used /\ Dev \in Device
    BY KeptTypes
  <1>2. CASE Blank
    <2>1. ReadBuffer = <<Unread>> /\ Unread.n = 0 /\ Ahead(Dev) = <<>>
      BY <1>2 DEF Blank, Ahead, Unread
    <2>2. 1 \in DOMAIN ReadBuffer /\ ReadBuffer[1].n = 0
      BY <2>1
    <2>3. 0 \in Numbers(ReadBuffer)
      BY <2>2 DEF Numbers
    <2>4. QED
      BY <2>1, <2>3, NumsEmpty DEF NumbersOf
  <1>3. CASE ~Blank
    <2>1. Ahead(Dev) = ReadBuffer
      BY <1>3, AheadIs
    <2>2. Whole(logged[Dev] \o Nums(ReadBuffer \o Rest(Dev)), arrived[Dev], lost[Dev])
      BY <1>1, <2>1 DEF FlowInv, FlowOK
    <2>3. logged[Dev] \in Seq(Int) /\ Rest(Dev) \in Seq(Char)
      BY <1>1, FlowTypes
    <2>4. 0 \notin Numbers(ReadBuffer)
      BY <1>1, <2>2, <2>3, TextNumbered
    <2>5. DOMAIN ReadBuffer = 1..Len(ReadBuffer)
      BY <1>1, LenProperties
    <2>6. QED
      BY <2>1, <2>4, <2>5 DEF NumbersOf, Nums
  <1>4. QED
    BY <1>2, <1>3

LEMMA LogFlow ==
    ASSUME Kept, FlowInv, Log, UNCHANGED <<serial, ip, nidaq, gpib>>
    PROVE  FlowInv'
  <1>1. Dev \in Device /\ Dev \in Used /\ DOMAIN logged = Device /\ Kind[Dev] \in Kinds
    BY KeptTypes
  <1>2. /\ UNCHANGED <<conf, record, arrived, lost>> /\ ReadBuffer' = <<>>
        /\ UNCHANGED <<line, tempBuffer, wire, rxBuf, bytes, lastRx, fifo, answer>>
        /\ logged' = [logged EXCEPT ![Dev] = @ \o NumbersOf(ReadBuffer)]
    BY DEF Log, Goto, serial, ip, nidaq, gpib
  <1>3. Frame /\ Dev' = Dev
    BY <1>1, <1>2 DEF Frame, Dev
  <1>4. logged'[Dev] = logged[Dev] \o Nums(Ahead(Dev))
    <2>1. logged'[Dev] = logged[Dev] \o NumbersOf(ReadBuffer)
      BY <1>1, <1>2
    <2>2. NumbersOf(ReadBuffer) = Nums(Ahead(Dev))
      BY AheadLogged
    <2>3. QED
      BY <2>1, <2>2
  <1>5. Ahead(Dev)' = <<>> /\ Rest(Dev)' = Rest(Dev)
    BY <1>2, <1>3 DEF Ahead, Rest, Taken, Left
  <1>6. logged[Dev] \in Seq(Int) /\ Ahead(Dev) \in Seq(Char) /\ Rest(Dev) \in Seq(Char)
    BY <1>1, FlowTypes
  <1>7. Whole(logged[Dev] \o Nums(Ahead(Dev) \o Rest(Dev)), arrived[Dev], lost[Dev])
    BY <1>1 DEF FlowInv, FlowOK
  <1>8. Whole((logged[Dev] \o Nums(Ahead(Dev))) \o Nums(Rest(Dev)), arrived[Dev], lost[Dev])
    BY <1>6, <1>7, LogText
  <1>9. <<>> \o Rest(Dev) = Rest(Dev)
    BY <1>6, ConcatEmptySeq
  <1>10. FlowOK(Dev)'
    BY <1>2, <1>3, <1>4, <1>5, <1>8, <1>9 DEF FlowOK
  <1>11. QED
    BY <1>3, <1>10, OthersFlow

-----------------------------------------------------------------------------
(***************************************************************************)
(* What a device produces comes last.                                      *)
(***************************************************************************)

LEMMA ArrivalFlow ==
    ASSUME Kept, FlowInv, NEW d \in Used, NEW k \in Nat, Arrives(d, k),
           NEW text \in Produced(d, k), Rest(d)' = Rest(d) \o text,
           \A e \in Used : e # d => Rest(e)' = Rest(e)
    PROVE  FlowInv'
  <1>1. /\ UNCHANGED <<conf, pc, record, ReadBuffer, logged, lost>>
        /\ arrived' = [arrived EXCEPT ![d] = @ + k]
    BY DEF Arrives, turn
  <1>2. Used' = Used /\ \A e : Ahead(e)' = Ahead(e)
    BY <1>1 DEF Used, Ahead, Blank, Has, Dev
  <1>3. d \in Device /\ Used \subseteq Device /\ arrived \in [Device -> 0..MaxText]
    BY KeptTypes
  <1>4. ASSUME NEW e \in Used, e # d PROVE FlowOK(e)'
    <2>1. arrived'[e] = arrived[e] /\ FlowOK(e)
      BY <1>1, <1>3, <1>4 DEF FlowInv
    <2>2. QED
      BY <1>1, <1>2, <1>4, <2>1 DEF FlowOK
  <1>5. FlowOK(d)'
    <2>1. /\ Ahead(d) \in Seq(Char) /\ Rest(d) \in Seq(Char) /\ logged[d] \in Seq(Int)
          /\ Ahead(d) \o Rest(d) \in Seq(Char)
      BY <1>3, FlowTypes, ConcatProperties
    <2>2. /\ text \in Seq(Char) /\ Len(text) = k
          /\ \A i \in 1..k : text[i].n = arrived[d] + i
      BY <1>3, ProducedText
    <2>3. Whole(logged[d] \o Nums(Ahead(d) \o Rest(d)), arrived[d], lost[d])
      BY DEF FlowInv, FlowOK
    <2>4. arrived[d] \in Nat /\ arrived'[d] = arrived[d] + k
      BY <1>1, <1>3
    <2>5. Whole(logged[d] \o Nums((Ahead(d) \o Rest(d)) \o text), arrived[d] + k, lost[d])
      <3> DEFINE s == Ahead(d) \o Rest(d)
      <3>1. s \in Seq(Char) /\ Whole(logged[d] \o Nums(s), arrived[d], lost[d])
        BY <2>1, <2>3
      <3> HIDE DEF s
      <3>2. Whole(logged[d] \o Nums(s \o text), arrived[d] + Len(text), lost[d])
        BY <2>1, <2>2, <2>4, <3>1, GrowText
      <3>3. QED
        BY <2>2, <3>2 DEF s
    <2>6. Ahead(d) \o (Rest(d) \o text) = (Ahead(d) \o Rest(d)) \o text
      BY <2>1, <2>2, CharAssociative
    <2>7. QED
      BY <1>1, <1>2, <2>4, <2>5, <2>6 DEF FlowOK
  <1>6. QED
    BY <1>2, <1>4, <1>5 DEF FlowInv

LEMMA OutsideFlow ==
    ASSUME Kept, FlowInv, Outside
    PROVE  FlowInv'
  <1>1. ASSUME UNCHANGED <<conf, record, ReadBuffer, arrived, logged, lost, line,
                           tempBuffer, wire, rxBuf, bytes, lastRx, fifo, answer>>
        PROVE  FlowInv'
    <2>1. Used' = Used /\ \A d : Ahead(d)' = Ahead(d) /\ Rest(d)' = Rest(d)
      BY <1>1 DEF Used, Ahead, Blank, Has, Rest, Taken, Left, Dev
    <2>2. QED
      BY <1>1, <2>1 DEF FlowInv, FlowOK
  <1>2. CASE TimeoutPasses
    BY <1>1, <1>2 DEF TimeoutPasses, Expire, history, serial, ip, nidaq, gpib
  <1>3. CASE EveryNCallback /\ UNCHANGED <<serial, ip, gpib>>
    BY <1>1, <1>3 DEF EveryNCallback, turn, history, serial, ip, gpib
  <1>4. ASSUME NEW d \in Used, PeerCloses(d), UNCHANGED <<serial, nidaq, gpib>>
        PROVE  FlowInv'
    BY <1>1, <1>4 DEF PeerCloses, turn, history, serial, nidaq, gpib
  <1>5. /\ Used \subseteq Device /\ Kind \in [Device -> Kinds] /\ PlaceInv
        /\ line \in [Device -> Seq(Char)] /\ answer \in [Device -> Seq(Char)]
        /\ wire \in [Device -> Seq(Segment)] /\ fifo \in Seq(Char)
        /\ arrived \in [Device -> 0..MaxText]
    BY KeptTypes
  <1>6. ASSUME NEW d \in Used, SerialArrives(d), UNCHANGED <<ip, nidaq, gpib>>
        PROVE  FlowInv'
    <2>1. PICK text \in Produced(d, 1) : line' = [line EXCEPT ![d] = @ \o text]
      BY <1>6 DEF SerialArrives
    <2>2. Arrives(d, 1) /\ Kind[d] = "serial" /\ tempBuffer' = tempBuffer
      BY <1>6 DEF SerialArrives
    <2>3. UNCHANGED <<Dev, record, rxBuf, bytes, lastRx, wire, fifo, answer>>
      BY <1>6, <2>2 DEF Arrives, turn, Dev, ip, nidaq, gpib
    <2>4. \A e : Taken(e)' = Taken(e) /\ Left(e)' = Left(e)
      BY <2>2, <2>3 DEF Taken, Left
    <2>5. \A e \in Used : e # d => Rest(e)' = Rest(e)
      BY <1>5, <2>1, <2>3, <2>4 DEF Rest
    <2>6. line'[d] = line[d] \o text
      BY <1>5, <2>1
    <2>7. text \in Seq(Char) /\ Taken(d) \in Seq(Char) /\ line[d] \in Seq(Char)
      BY <1>5, <2>1, <2>2, FlowTypes, ProducedText
    <2>8. Taken(d) \o (line[d] \o text) = (Taken(d) \o line[d]) \o text
      BY <2>7, CharAssociative
    <2>9. Rest(d)' = Rest(d) \o text
      BY <2>2, <2>4, <2>6, <2>8 DEF Rest
    <2>10. QED
      BY <2>1, <2>2, <2>5, <2>9, ArrivalFlow
  <1>7. ASSUME NEW d \in Used, IpArrives(d), UNCHANGED <<serial, nidaq, gpib>>
        PROVE  FlowInv'
    <2>1. PICK k \in 1..(RxSize + 1) :
             /\ Arrives(d, k)
             /\ \E text \in Produced(d, k) : wire' = [wire EXCEPT ![d] = Append(@, text)]
      BY <1>7 DEF IpArrives
    <2>2. PICK text \in Produced(d, k) : wire' = [wire EXCEPT ![d] = Append(@, text)]
      BY <2>1
    <2>3. Kind[d] \in {"tcp", "udp"} /\ k \in Nat
      BY <1>7, RxSizeAssumption DEF IpArrives
    <2>4. UNCHANGED <<Dev, record, tempBuffer, rxBuf, bytes, lastRx, line, fifo, answer>>
      BY <1>7, <2>1 DEF IpArrives, Arrives, turn, Dev, serial, nidaq, gpib
    <2>5. \A e : Taken(e)' = Taken(e) /\ Left(e)' = Left(e)
      BY <2>4 DEF Taken, Left
    <2>6. \A e \in Used : e # d => Rest(e)' = Rest(e)
      <3>1. \A e \in Used : e # d => wire'[e] = wire[e]
        BY <1>5, <2>2
      <3>2. QED
        BY <2>4, <2>5, <3>1 DEF Rest
    <2>7. wire'[d] = Append(wire[d], text)
      BY <1>5, <2>2
    <2>8. /\ text \in Seq(Char) /\ Left(d) \in Seq(Char)
          /\ FlattenSeq(wire[d]) \in Seq(Char) /\ wire[d] \in Seq(Seq(Char))
      BY <1>5, <2>1, <2>2, <2>3, FlowTypes, ProducedText, SegmentsAreTexts
    <2>9. FlattenSeq(wire'[d]) = FlattenSeq(wire[d]) \o text
      BY <2>7, <2>8, FlattenAppend
    <2>10. Left(d) \o (FlattenSeq(wire[d]) \o text) = (Left(d) \o FlattenSeq(wire[d])) \o text
      BY <2>8, CharAssociative
    <2>11. Rest(d)' = Rest(d) \o text
      BY <2>3, <2>5, <2>9, <2>10 DEF Rest
    <2>12. QED
      BY <2>1, <2>2, <2>3, <2>6, <2>11, ArrivalFlow
  <1>8. ASSUME NEW d \in Used, Sample(d), UNCHANGED <<serial, ip, gpib>>
        PROVE  FlowInv'
    <2>1. PICK text \in Produced(d, 1) : fifo' = fifo \o text
      BY <1>8 DEF Sample
    <2>2. Arrives(d, 1) /\ Kind[d] = "nidaq"
      BY <1>8 DEF Sample
    <2>3. UNCHANGED <<Dev, record, tempBuffer, rxBuf, bytes, lastRx, line, wire, answer>>
      BY <1>8, <2>2 DEF Arrives, turn, Dev, serial, ip, gpib
    <2>4. \A e \in Used : e # d => Kind[e] # "nidaq"
      BY <1>5, <2>2, OneTask
    <2>5. \A e : Taken(e)' = Taken(e) /\ Left(e)' = Left(e)
      BY <2>3 DEF Taken, Left
    <2>6. ASSUME NEW e \in Used, e # d PROVE Rest(e)' = Rest(e)
      BY <1>5, <2>3, <2>4, <2>5, <2>6, RestIs DEF Rest, Kinds
    <2>7. Rest(d)' = Rest(d) \o text
      BY <2>1, <2>2 DEF Rest
    <2>8. QED
      BY <2>1, <2>2, <2>6, <2>7, ArrivalFlow
  <1>9. ASSUME NEW d \in Used, Answers(d), UNCHANGED <<serial, ip, nidaq>>
        PROVE  FlowInv'
    <2>1. PICK text \in Produced(d, 1) : answer' = [answer EXCEPT ![d] = @ \o text]
      BY <1>9 DEF Answers
    <2>2. Arrives(d, 1) /\ Kind[d] = "gpib"
      BY <1>9 DEF Answers
    <2>3. UNCHANGED <<Dev, record, tempBuffer, rxBuf, bytes, lastRx, line, wire, fifo>>
      BY <1>9, <2>2 DEF Arrives, turn, Dev, serial, ip, nidaq
    <2>4. \A e : Taken(e)' = Taken(e) /\ Left(e)' = Left(e)
      BY <2>3 DEF Taken, Left
    <2>5. \A e \in Used : e # d => Rest(e)' = Rest(e)
      BY <1>5, <2>1, <2>3, <2>4 DEF Rest
    <2>6. Rest(d)' = Rest(d) \o text
      BY <1>5, <2>1, <2>2 DEF Rest
    <2>7. QED
      BY <2>1, <2>2, <2>5, <2>6, ArrivalFlow
  <1>10. QED
    BY <1>2, <1>3, <1>4, <1>6, <1>7, <1>8, <1>9 DEF Outside

-----------------------------------------------------------------------------
(***************************************************************************)
(* All together.                                                           *)
(***************************************************************************)

LEMMA FlowKept == Kept /\ FlowInv /\ [Next]_vars => FlowInv'
  <1> SUFFICES ASSUME Kept, FlowInv, [Next]_vars PROVE FlowInv'
    OBVIOUS
  <1>1. CASE UNCHANGED vars
    <2>1. UNCHANGED <<conf, record, ReadBuffer, arrived, logged, lost, line,
                      tempBuffer, wire, rxBuf, bytes, lastRx, fifo, answer>>
      BY <1>1 DEF vars, turn, history, serial, ip, nidaq, gpib
    <2>2. Used' = Used /\ \A d : Ahead(d)' = Ahead(d) /\ Rest(d)' = Rest(d)
      BY <2>1 DEF Used, Ahead, Blank, Has, Rest, Taken, Left, Dev
    <2>3. QED
      BY <2>1, <2>2 DEF FlowInv, FlowOK
  <1>2. CASE Program
    BY <1>2, TurnFlow, LogFlow, SerialFlow, IpFlow, NidaqFlow, GpibFlow DEF Program
  <1>3. CASE Outside
    BY <1>3, OutsideFlow
  <1>4. QED
    BY <1>1, <1>2, <1>3 DEF Next

LEMMA InitFlow == Init => FlowInv
  <1> SUFFICES ASSUME Init, NEW d \in Used PROVE FlowOK(d)
    BY DEF FlowInv
  <1>1. d \in Device /\ record \in Rec /\ Kind[d] \in Kinds
    BY RecordTypes, NRecordsAssumption, KindAssumption DEF Init, DataInit, Used, Rec
  <1>2. /\ ReadBuffer = <<>> /\ logged[d] = <<>> /\ arrived[d] = 0 /\ lost[d] = {}
        /\ line[d] = <<>> /\ tempBuffer[record] = <<>> /\ wire[d] = <<>>
        /\ bytes = 0 /\ lastRx = 0 /\ fifo = <<>> /\ answer[d] = <<>>
    BY <1>1 DEF Init, DataInit, SerialInit, IpInit, NidaqInit, GpibInit
  <1>3. <<>> \in Seq(Char) /\ <<>> \o <<>> = <<>>
    BY EmptySeq, ConcatEmptySeq
  <1>4. SubSeq(rxBuf, lastRx + 1, lastRx + bytes) = <<>>
    BY <1>2, SubSeqEmpty
  <1>5. Ahead(d) = <<>> /\ Taken(d) = <<>> /\ Left(d) = <<>> /\ FlattenSeq(wire[d]) = <<>>
    BY <1>2, <1>4, FlattenEmpty DEF Ahead, Taken, Left
  <1>6. Rest(d) = <<>>
    BY <1>1, <1>2, <1>3, <1>5 DEF Rest, Kinds
  <1>7. logged[d] \o Nums(Ahead(d) \o Rest(d)) = <<>>
    BY <1>2, <1>3, <1>5, <1>6, NumsEmpty
  <1>8. Rising(<<>>) /\ Members(<<>>) = {}
    BY DEF Rising, Members
  <1>9. QED
    BY <1>2, <1>7, <1>8 DEF FlowOK, Whole

LEMMA FlowHolds == Spec => [](Kept /\ FlowInv)
  <1>1. Kept /\ FlowInv /\ [Next]_vars => FlowInv'
    BY FlowKept
  <1>2. QED
    BY <1>1, InitFlow, KeptHolds, PTL DEF Spec

(* What the port holds of the text is what is on its way to ReadBuffer:    *)
(* no record but the one whose turn it is has a character to itself.       *)
LEMMA HeldIsRest ==
    ASSUME Kept, NEW d \in Used
    PROVE  Held(d) = Rest(d)
  <1> DEFINE temps == [r \in Rec |-> IF conf[r].device = d THEN tempBuffer[r] ELSE <<>>]
  <1>1. /\ tempBuffer \in [Rec -> Seq(Char)] /\ <<>> \in Seq(Char)
        /\ \A r \in Rec : tempBuffer[r] # <<>> => r = record
    BY EmptySeq DEF Kept, Facts, Known, Base, TempInv, Probing
  <1>2. /\ temps \in Seq(Seq(Char)) /\ Len(temps) = NRecords
        /\ \A r \in Rec : r # record => temps[r] = <<>>
        /\ temps[record] = Taken(d)
    <2>1. \A r \in Rec : temps[r] \in Seq(Char)
      BY <1>1
    <2>2. temps \in Seq(Seq(Char)) /\ Len(temps) = NRecords
      <3>1. temps \in [1..NRecords -> Seq(Char)]
        BY <2>1 DEF Rec
      <3> HIDE DEF temps
      <3>2. temps \in Seq(Seq(Char)) /\ DOMAIN temps = 1..NRecords /\ Len(temps) \in Nat
        BY <3>1, NRecordsAssumption, IsASeq, LenProperties
      <3>3. QED
        BY <3>1, <3>2, NRecordsAssumption, LenProperties
    <2>3. \A r \in Rec : r # record => temps[r] = <<>>
      BY <1>1
    <2>4. temps[record] = Taken(d)
      BY KeptTypes DEF Taken, Dev
    <2>5. QED
      BY <2>2, <2>3, <2>4
  <1> HIDE DEF temps
  <1>3. FlattenSeq(temps) = Taken(d)
    <2>1. record \in 1..Len(temps) /\ \A r \in 1..Len(temps) : r # record => temps[r] = <<>>
      BY <1>2, KeptTypes DEF Rec
    <2>2. FlattenSeq(temps) = temps[record]
      BY <1>2, <2>1, FlattenOne
    <2>3. QED
      BY <1>2, <2>2
  <1>4. QED
    BY <1>3 DEF Held, Rest, Left, temps

(* Every character that a device produced is logged once, in its order, or *)
(* still comes in that order, or was given up and comes nowhere: for any   *)
(* number of records, however they share their devices, and for segments   *)
(* and texts of any length.                                                *)
THEOREM ConservedHolds == Spec => []Conserved
  <1>1. ASSUME Kept, FlowInv PROVE Conserved
    <2> SUFFICES ASSUME NEW d \in Used
                 PROVE  /\ Ascending(Text(d))
                        /\ {Text(d)[i] : i \in DOMAIN Text(d)} = (1..arrived[d]) \ lost[d]
      BY DEF Conserved
    <2> DEFINE l == logged[d]
               a == Nums(Ahead(d))
               r == Nums(Rest(d))
    <2>1. d \in Device /\ Ahead(d) \in Seq(Char) /\ Rest(d) \in Seq(Char) /\ l \in Seq(Int)
      BY <1>1, KeptTypes, FlowTypes
    <2>2. Whole(l \o Nums(Ahead(d) \o Rest(d)), arrived[d], lost[d])
      BY <1>1 DEF FlowInv, FlowOK
    <2>3. NumbersOf(IF Dev = d THEN ReadBuffer ELSE <<>>) = a
      <3>1. CASE Dev = d
        BY <1>1, <3>1, AheadLogged
      <3>2. CASE Dev # d
        <4>1. Ahead(d) = <<>>
          BY <3>2 DEF Ahead
        <4>2. NumbersOf(<<>>) = <<>>
          <5>1. 0 \notin Numbers(<<>>) /\ Nums(<<>>) = <<>>
            BY NumsEmpty
          <5>2. DOMAIN <<>> = 1..Len(<<>>)
            OBVIOUS
          <5>3. QED
            BY <5>1, <5>2 DEF NumbersOf, Nums
        <4>3. QED
          BY <3>2, <4>1, <4>2, NumsEmpty
      <3>3. QED
        BY <3>1, <3>2
    <2>4. NumbersOf(Held(d)) = r
      <3>1. Held(d) = Rest(d)
        BY <1>1, HeldIsRest
      <3>2. 0 \notin Numbers(Rest(d))
        BY <2>1, <2>2, TextNumbered
      <3>3. DOMAIN Rest(d) = 1..Len(Rest(d))
        BY <2>1, LenProperties
      <3>4. QED
        BY <3>1, <3>2, <3>3 DEF NumbersOf, Nums
    <2>5. Text(d) = (l \o a) \o r
      BY <2>3, <2>4 DEF Text
    <2>6. a \in Seq(Int) /\ r \in Seq(Int)
      BY <2>1, NumsType
    <2>7. Whole((l \o a) \o r, arrived[d], lost[d])
      BY <2>1, <2>2, LogText
    <2> HIDE DEF l, a, r
    <2>8. Text(d) \in Seq(Int)
      <3>1. l \o a \in Seq(Int)
        BY <2>1, <2>6, IntConcat
      <3>2. (l \o a) \o r \in Seq(Int)
        BY <2>6, <3>1, IntConcat
      <3>3. QED
        BY <2>5, <3>2
    <2>9. Whole(Text(d), arrived[d], lost[d])
      BY <2>5, <2>7
    <2>10. Rising(Text(d)) /\ Members(Text(d)) = (1..arrived[d]) \ lost[d]
      BY <2>9 DEF Whole
    <2>11. Len(Text(d)) \in Nat /\ DOMAIN Text(d) = 1..Len(Text(d))
      BY <2>8, LenProperties
    <2>12. Ascending(Text(d))
      BY <2>10, <2>11 DEF Ascending, Rising
    <2>13. QED
      BY <2>10, <2>11, <2>12 DEF Members
  <1>2. QED
    BY <1>1, FlowHolds, PTL
=============================================================================
