-------------------------- MODULE PortTableProofs --------------------------
(***************************************************************************)
(* Proofs about PortTable, for every number of records and every           *)
(* assignment of devices to them.                                          *)
(***************************************************************************)
EXTENDS PortTable, TLAPS

OSKinds == {"gpib", "serial", "ip"}

(* An open handle is that of the record that opened it first, or the       *)
(* global task's.                                                          *)
OpenOf(h) ==
    open[h] # Closed =>
        \/ /\ KindOf(h) \in OSKinds /\ Earlier(h) = {}
           /\ open[h] = conf[h] /\ handle[h] = h
        \/ h = taskHandle /\ KindOf(h) = "nidaq" /\ Kind[open[h]] = "nidaq"

(* What the open loop has achieved for record r.                           *)
ReadyOf(r) ==
    /\ KindOf(r) # "command" /\ (KindOf(r) = "ip" => Earlier(r) = {}) => HasHandle(r)
    /\ KindOf(r) \in OSKinds /\ Earlier(r) = {} => handle[r] = r /\ Dev[r] = r

(* A record of which quit() has still to close the port.                   *)
LeftOf(r) ==
    KindOf(r) # "command" /\ Earlier(r) = {} => HasHandle(r)

(* The record whose turn in quit() closes handle h.                        *)
Closer(h) ==
    open[h] # Closed =>
        \E r \in Rec : /\ Earlier(r) = {} /\ conf[r] = open[h]
                       /\ pc \in {"quit", "done"} => r >= record

TaskInv ==
    /\ taskHandle # NoHandle => taskHandle \in Rec /\ KindOf(taskHandle) = "nidaq"
    /\ pc # "exited" =>
         \A r \in Rec : KindOf(r) = "nidaq" /\ (pc = "config" => r < record)
                             => taskHandle \in Rec

PhaseInv ==
    /\ pc \in {"loop", "done"} => record = NRecords + 1
    /\ pc = "config" => \A h \in Rec : open[h] = Closed
    /\ pc \in {"config", "open", "loop"} => \A h \in Rec : closes[h] = 0
    /\ pc \in {"open", "loop"} => \A r \in Rec : r < record => ReadyOf(r)
    /\ pc = "quit" => \A r \in Rec : r >= record => LeftOf(r)

HandleInv == \A h \in Rec : OpenOf(h) /\ (pc # "exited" => Closer(h))

PortInv == PortTypeOK /\ TaskInv /\ PhaseInv /\ HandleInv /\ ClosedOnce

LEMMA KindType ==
    ASSUME conf \in Confs, NEW r \in Rec
    PROVE  /\ conf[r] \in Device /\ conf[r] # Closed
           /\ KindOf(r) \in Kinds
  BY ConfsAssumption, KindAssumption, ClosedAssumption DEF KindOf

LEMMA InitPorts == Init => PortInv
  <1> SUFFICES ASSUME Init PROVE PortInv
    OBVIOUS
  <1>1. PortTypeOK
    BY NRecordsAssumption DEF Init, PortTypeOK, Rec, NoHandle, Null, Wild, TaskAddr
  <1>2. TaskInv
    BY DEF Init, TaskInv, Rec
  <1>3. PhaseInv /\ HandleInv /\ ClosedOnce
    BY DEF Init, PhaseInv, HandleInv, OpenOf, Closer, ClosedOnce
  <1>4. QED
    BY <1>1, <1>2, <1>3 DEF PortInv

(* The first record of a device opens a handle of its own.                 *)
LEMMA OpenHandleKeeps == PortInv /\ OpenHandle => PortInv'
  <1> SUFFICES ASSUME PortInv, OpenHandle PROVE PortInv'
    OBVIOUS
  <1> USE DEF PortInv
  <1>1. /\ pc = "open" /\ pc' = "open" /\ record \in Rec /\ record' = record + 1
        /\ Earlier(record) = {} /\ KindOf(record) \in OSKinds
        /\ handle' = [handle EXCEPT ![record] = record]
        /\ open' = [open EXCEPT ![record] = conf[record]]
        /\ Dev' = [Dev EXCEPT ![record] = record]
        /\ UNCHANGED <<conf, taskHandle, closes>>
    BY DEF OpenHandle, NextRecord, OSKinds
  <1>2. conf \in Confs /\ NRecords \in Nat /\ \A r \in Rec : r \in Nat /\ KindOf(r)' = KindOf(r)
        /\ Earlier(r)' = Earlier(r)
    BY <1>1, NRecordsAssumption DEF PortTypeOK, Rec, KindOf, Earlier
  <1>3. /\ handle \in [Rec -> Rec \cup {NoHandle}]
        /\ Dev \in [Rec -> Rec \cup {Null, Wild, TaskAddr}]
        /\ open \in [Rec -> Device \cup {Closed}] /\ closes \in [Rec -> Nat]
        /\ conf[record] \in Device /\ conf[record] # Closed
    BY <1>1, <1>2, KindType DEF PortTypeOK
  <1>4. PortTypeOK'
    BY <1>1, <1>2, <1>3 DEF PortTypeOK, Rec
  <1>5. TaskInv'
    BY <1>1, <1>2 DEF TaskInv
  <1>6. open[record] = Closed \/ open[record] = conf[record]
    BY <1>1 DEF HandleInv, OpenOf, TaskInv, OSKinds
  <1>7. ASSUME NEW r \in Rec, r < record + 1 PROVE ReadyOf(r)'
    <2>1. CASE r = record
      BY <1>1, <1>2, <1>3, <2>1 DEF ReadyOf, HasHandle, HandleOf, OSKinds
    <2>2. CASE r # record
      <3>1. ReadyOf(r) /\ r < record
        BY <1>1, <1>2, <1>7, <2>2 DEF PhaseInv
      <3>2. /\ handle'[r] = handle[r] /\ Dev'[r] = Dev[r]
            /\ HandleOf(r)' = HandleOf(r)
        BY <1>1, <1>2, <1>3, <2>2 DEF HandleOf
      <3>3. HasHandle(r) => HasHandle(r)'
        BY <1>1, <1>2, <1>3, <1>6, <3>2, KindType DEF HasHandle
      <3>4. QED
        BY <1>2, <3>1, <3>2, <3>3 DEF ReadyOf
    <2>3. QED
      BY <2>1, <2>2
  <1>8. PhaseInv'
    BY <1>1, <1>2, <1>7 DEF PhaseInv
  <1>9. ASSUME NEW h \in Rec PROVE OpenOf(h)' /\ Closer(h)'
    <2>1. CASE h = record
      BY <1>1, <1>2, <1>3, <2>1 DEF OpenOf, Closer
    <2>2. CASE h # record
      BY <1>1, <1>2, <1>3, <2>2 DEF OpenOf, Closer, HandleInv
    <2>3. QED
      BY <2>1, <2>2
  <1>10. ClosedOnce'
    BY <1>1, <1>3 DEF ClosedOnce, PhaseInv
  <1>11. QED
    BY <1>4, <1>5, <1>8, <1>9, <1>10 DEF HandleInv

(* The first NIDAQ device starts the global task; a second one stops it    *)
(* and the program.                                                        *)
LEMMA OpenTaskKeeps == PortInv /\ OpenTask => PortInv'
  <1> SUFFICES ASSUME PortInv, OpenTask PROVE PortInv'
    OBVIOUS
  <1> USE DEF PortInv
  <1>1. /\ pc = "open" /\ record \in Rec /\ Earlier(record) = {}
        /\ KindOf(record) = "nidaq" /\ UNCHANGED <<conf, handle, taskHandle>>
    BY DEF OpenTask
  <1>2. conf \in Confs /\ NRecords \in Nat /\ \A r \in Rec : r \in Nat /\ KindOf(r)' = KindOf(r)
        /\ Earlier(r)' = Earlier(r) /\ HandleOf(r)' = HandleOf(r)
    BY <1>1, NRecordsAssumption DEF PortTypeOK, Rec, KindOf, Earlier, HandleOf
  <1>3. /\ taskHandle \in Rec /\ KindOf(taskHandle) = "nidaq"
        /\ Dev \in [Rec -> Rec \cup {Null, Wild, TaskAddr}]
        /\ open \in [Rec -> Device \cup {Closed}] /\ closes \in [Rec -> Nat]
        /\ conf[record] \in Device /\ conf[record] # Closed
        /\ \A h \in Rec : closes[h] = 0
    BY <1>1, <1>2, KindType DEF PortTypeOK, TaskInv, PhaseInv, NoHandle, Rec
  <1>4. CASE /\ open[taskHandle] = Closed
             /\ open' = [open EXCEPT ![taskHandle] = conf[record]]
             /\ Dev' = [Dev EXCEPT ![record] = TaskAddr]
             /\ NextRecord
             /\ UNCHANGED closes
    <2>1. pc' = "open" /\ record' = record + 1
      BY <1>4 DEF NextRecord
    <2>2. PortTypeOK'
      BY <1>1, <1>2, <1>3, <1>4, <2>1 DEF PortTypeOK, Rec
    <2>3. TaskInv'
      BY <1>1, <1>2, <1>3, <2>1 DEF TaskInv
    <2>4. ASSUME NEW r \in Rec, r < record + 1 PROVE ReadyOf(r)'
      <3>1. CASE r = record
        BY <1>1, <1>2, <1>3, <1>4, <3>1 DEF ReadyOf, HasHandle, HandleOf, OSKinds
      <3>2. CASE r # record
        <4>1. ReadyOf(r) /\ r < record
          BY <1>1, <1>2, <2>4, <3>2 DEF PhaseInv
        <4>2. HasHandle(r) => HasHandle(r)'
          <5>1. HasHandle(r) => HandleOf(r) # taskHandle
            BY <1>2, <1>4, KindType DEF HasHandle
          <5>2. QED
            BY <1>1, <1>2, <1>3, <1>4, <5>1 DEF HasHandle
        <4>3. QED
          BY <1>1, <1>2, <1>3, <1>4, <3>2, <4>1, <4>2 DEF ReadyOf
      <3>3. QED
        BY <3>1, <3>2
    <2>5. PhaseInv'
      BY <1>1, <1>2, <1>3, <1>4, <2>1, <2>4 DEF PhaseInv
    <2>6. ASSUME NEW h \in Rec PROVE OpenOf(h)' /\ Closer(h)'
      <3>1. CASE h = taskHandle
        <4>1. open'[h] = conf[record]
          BY <1>3, <1>4, <3>1
        <4>2. QED
          BY <1>1, <1>2, <1>3, <2>1, <3>1, <4>1 DEF OpenOf, Closer, KindOf
      <3>2. CASE h # taskHandle
        BY <1>1, <1>2, <1>3, <1>4, <2>1, <3>2 DEF OpenOf, Closer, HandleInv
      <3>3. QED
        BY <3>1, <3>2
    <2>7. ClosedOnce'
      BY <1>3, <1>4 DEF ClosedOnce
    <2>8. QED
      BY <2>2, <2>3, <2>5, <2>6, <2>7 DEF HandleInv
  <1>5. CASE /\ open' = [open EXCEPT ![taskHandle] = Closed]
             /\ closes' = [closes EXCEPT ![taskHandle] = @ + 1]
             /\ CouldNotOpen
             /\ UNCHANGED Dev
    <2>1. pc' = "exited" /\ record' = record
      BY <1>5 DEF CouldNotOpen
    <2>2. PortTypeOK'
      BY <1>1, <1>3, <1>5, <2>1 DEF PortTypeOK
    <2>3. TaskInv' /\ PhaseInv'
      BY <1>1, <1>2, <1>3, <2>1 DEF TaskInv, PhaseInv
    <2>4. ASSUME NEW h \in Rec PROVE OpenOf(h)'
      BY <1>1, <1>2, <1>3, <1>5 DEF OpenOf, HandleInv
    <2>5. ClosedOnce'
      BY <1>3, <1>5 DEF ClosedOnce
    <2>6. QED
      BY <2>1, <2>2, <2>3, <2>4, <2>5 DEF HandleInv
  <1>6. QED
    BY <1>4, <1>5 DEF OpenTask

(* A later record of a device is given the first one's handle.             *)
LEMMA ReOpenKeeps == PortInv /\ ReOpen => PortInv'
  <1> SUFFICES ASSUME PortInv, ReOpen PROVE PortInv'
    OBVIOUS
  <1> USE DEF PortInv
  <1>1. PICK i \in Earlier(record) :
          /\ \A j \in Earlier(record) : i <= j
          /\ Dev' = [Dev EXCEPT ![record] = Dev[i]]
          /\ handle' = [handle EXCEPT ![record] = HandleAfterReOpen(record, Dev[i])]
          /\ IF Dev[i] = Null THEN CouldNotOpen ELSE NextRecord
    BY DEF ReOpen
  <1>2. pc = "open" /\ record \in Rec /\ UNCHANGED <<conf, taskHandle, open, closes>>
    BY DEF ReOpen
  <1>3. conf \in Confs /\ NRecords \in Nat /\ \A r \in Rec : r \in Nat /\ KindOf(r)' = KindOf(r)
        /\ Earlier(r)' = Earlier(r)
    BY <1>2, NRecordsAssumption DEF PortTypeOK, Rec, KindOf, Earlier
  <1>4. i \in Rec /\ i < record /\ conf[i] = conf[record] /\ KindOf(i) = KindOf(record)
    BY <1>2, <1>3 DEF Earlier, Rec, KindOf
  <1>5. Earlier(i) = {}
    BY <1>1, <1>2, <1>3, <1>4 DEF Earlier, Rec
  <1>6. ReadyOf(i)
    BY <1>2, <1>4 DEF PhaseInv
  <1>7. /\ handle \in [Rec -> Rec \cup {NoHandle}]
        /\ Dev \in [Rec -> Rec \cup {Null, Wild, TaskAddr}]
        /\ open \in [Rec -> Device \cup {Closed}] /\ closes \in [Rec -> Nat]
        /\ \A h \in Rec : closes[h] = 0
    BY <1>2 DEF PortTypeOK, PhaseInv
  <1>8. KindOf(record) \in {"gpib", "serial"} =>
          HandleAfterReOpen(record, Dev[i]) = i /\ open[i] = conf[record]
    BY <1>4, <1>5, <1>6 DEF ReadyOf, HandleAfterReOpen, OSKinds, HasHandle, HandleOf
  <1>9. HandleAfterReOpen(record, Dev[i]) \in Rec \cup {NoHandle}
    BY <1>2, <1>4, <1>7, <1>8 DEF HandleAfterReOpen
  <1>10. \/ pc' = "open" /\ record' = record + 1
         \/ pc' = "exited" /\ record' = record
    BY <1>1 DEF NextRecord, CouldNotOpen
  <1>11. PortTypeOK'
    BY <1>1, <1>2, <1>3, <1>4, <1>7, <1>9, <1>10 DEF PortTypeOK, Rec
  <1>12. TaskInv'
    BY <1>2, <1>3, <1>10 DEF TaskInv
  <1>13. ASSUME NEW r \in Rec, r < record + 1 PROVE ReadyOf(r)'
    <2>1. CASE r = record
      <3>1. Earlier(r)' # {}
        BY <1>1, <1>3, <2>1
      <3>2. KindOf(r) \in {"gpib", "serial"} => HasHandle(r)'
        BY <1>1, <1>2, <1>3, <1>4, <1>7, <1>8, <2>1 DEF HasHandle, HandleOf
      <3>3. KindOf(r) = "nidaq" => HasHandle(r)'
        BY <1>2, <1>3, <1>4, <1>6, <2>1 DEF HasHandle, HandleOf, ReadyOf
      <3>4. KindOf(r) \in Kinds
        BY <1>3, KindType
      <3>5. QED
        BY <1>3, <3>1, <3>2, <3>3, <3>4 DEF ReadyOf, Kinds
    <2>2. CASE r # record
      <3>1. ReadyOf(r) /\ r < record
        BY <1>2, <1>3, <1>13, <2>2 DEF PhaseInv
      <3>2. handle'[r] = handle[r] /\ Dev'[r] = Dev[r]
        BY <1>1, <1>7, <2>2
      <3>3. QED
        BY <1>2, <1>3, <3>1, <3>2 DEF ReadyOf, HasHandle, HandleOf
    <2>3. QED
      BY <2>1, <2>2
  <1>14. PhaseInv'
    BY <1>2, <1>3, <1>7, <1>10, <1>13 DEF PhaseInv
  <1>15. ASSUME NEW h \in Rec PROVE OpenOf(h)' /\ Closer(h)'
    <2>1. OpenOf(h) /\ Closer(h)
      BY <1>2 DEF HandleInv
    <2>2. CASE h = record
      BY <1>1, <1>2, <1>3, <1>10, <2>1, <2>2 DEF OpenOf, Closer
    <2>3. CASE h # record
      <3>1. handle'[h] = handle[h]
        BY <1>1, <1>7, <2>3
      <3>2. QED
        BY <1>2, <1>3, <1>10, <2>1, <3>1 DEF OpenOf, Closer
    <2>4. QED
      BY <2>2, <2>3
  <1>16. ClosedOnce'
    BY <1>2, <1>7 DEF ClosedOnce
  <1>17. QED
    BY <1>11, <1>12, <1>14, <1>15, <1>16 DEF HandleInv

(* quit() closes one open handle, which no record still to come needs.     *)
LEMMA ClosePortKeeps == PortInv /\ ClosePort => PortInv'
  <1> SUFFICES ASSUME PortInv, ClosePort PROVE PortInv'
    OBVIOUS
  <1> USE DEF PortInv
  <1>1. /\ pc = "quit" /\ pc' = "quit" /\ record \in Rec /\ record' = record + 1
        /\ UNCHANGED <<conf, handle, Dev, taskHandle>>
    BY DEF ClosePort
  <1>2. conf \in Confs /\ NRecords \in Nat /\ \A r \in Rec : r \in Nat /\ KindOf(r)' = KindOf(r)
        /\ Earlier(r)' = Earlier(r) /\ HandleOf(r)' = HandleOf(r)
    BY <1>1, NRecordsAssumption DEF PortTypeOK, Rec, KindOf, Earlier, HandleOf
  <1>3. open \in [Rec -> Device \cup {Closed}] /\ closes \in [Rec -> Nat]
    BY DEF PortTypeOK
  <1>4. TaskInv'
    BY <1>1, <1>2 DEF TaskInv
  <1> DEFINE h0 == HandleOf(record)
  <1>5. CASE NeedClose(record) /\ KindOf(record) # "command"
    <2>1. /\ open' = [open EXCEPT ![h0] = Closed]
          /\ closes' = [closes EXCEPT ![h0] = @ + 1]
      BY <1>5 DEF ClosePort
    <2>2. h0 \in Rec /\ open[h0] = conf[record] /\ conf[record] # Closed
      <3>1. LeftOf(record)
        BY <1>1, <1>2 DEF PhaseInv
      <3>2. QED
        BY <1>1, <1>2, <1>5, <3>1, KindType DEF LeftOf, HasHandle, NeedClose
    <2> HIDE DEF h0
    <2>3. closes[h0] = 0
      BY <2>2 DEF ClosedOnce
    <2>4. PortTypeOK'
      BY <1>1, <1>2, <1>3, <2>1, <2>2 DEF PortTypeOK, Rec
    <2>5. ASSUME NEW r \in Rec, r >= record + 1 PROVE LeftOf(r)'
      <3> SUFFICES ASSUME KindOf(r) # "command", Earlier(r) = {}
                   PROVE  HasHandle(r)'
        BY <1>2 DEF LeftOf
      <3>1. HasHandle(r)
        BY <1>1, <1>2, <2>5 DEF PhaseInv, LeftOf
      <3>2. conf[record] # conf[r]
        BY <1>1, <1>2, <2>5 DEF Earlier, Rec
      <3>3. HandleOf(r) # h0
        BY <2>2, <3>1, <3>2 DEF HasHandle
      <3>4. QED
        BY <1>1, <1>2, <1>3, <2>1, <3>1, <3>3 DEF HasHandle
    <2>6. PhaseInv'
      BY <1>1, <2>5 DEF PhaseInv
    <2>7. ASSUME NEW h \in Rec PROVE OpenOf(h)' /\ Closer(h)'
      <3>1. CASE h = h0
        BY <1>3, <2>1, <3>1 DEF OpenOf, Closer
      <3>2. CASE h # h0
        <4>1. open'[h] = open[h] /\ OpenOf(h) /\ Closer(h)
          BY <1>1, <1>3, <2>1, <3>2 DEF HandleInv
        <4>2. OpenOf(h)'
          BY <1>1, <1>2, <4>1 DEF OpenOf
        <4>3. open[h] # Closed => open[h] # conf[record]
          <5>1. OpenOf(h0) /\ OpenOf(h)
            BY <2>2 DEF HandleInv
          <5>2. \A r \in Rec : conf[r] = conf[record] => KindOf(r) = KindOf(record)
            BY DEF KindOf
          <5>3. QED
            BY <1>1, <1>2, <2>2, <3>2, <5>1, <5>2
            DEF OpenOf, Earlier, Rec, OSKinds, KindOf
        <4>4. Closer(h)'
          BY <1>1, <1>2, <4>1, <4>3 DEF Closer
        <4>5. QED
          BY <4>2, <4>4
      <3>3. QED
        BY <3>1, <3>2
    <2>8. ClosedOnce'
      BY <1>3, <2>1, <2>3 DEF ClosedOnce
    <2>9. QED
      BY <1>4, <2>4, <2>6, <2>7, <2>8 DEF HandleInv
  <1>6. CASE ~(NeedClose(record) /\ KindOf(record) # "command")
    <2>1. UNCHANGED <<open, closes>>
      BY <1>6 DEF ClosePort
    <2>2. PortTypeOK' /\ ClosedOnce'
      BY <1>1, <1>2, <2>1 DEF PortTypeOK, Rec, ClosedOnce
    <2>3. PhaseInv'
      BY <1>1, <1>2, <2>1 DEF PhaseInv, LeftOf, HasHandle
    <2>4. ASSUME NEW h \in Rec PROVE OpenOf(h)' /\ Closer(h)'
      <3>1. OpenOf(h)' /\ OpenOf(h) /\ Closer(h)
        BY <1>1, <1>2, <2>1 DEF OpenOf, HandleInv
      <3>2. open[h] # Closed /\ conf[record] = open[h] => KindOf(record) # "command"
        BY <1>1, <1>2, <3>1 DEF OpenOf, KindOf, OSKinds
      <3>3. Closer(h)'
        BY <1>1, <1>2, <1>6, <2>1, <3>1, <3>2 DEF Closer, NeedClose
      <3>4. QED
        BY <3>1, <3>3
    <2>5. QED
      BY <1>4, <2>2, <2>3, <2>4 DEF HandleInv
  <1>7. QED
    BY <1>5, <1>6

LEMMA StepPorts == PortInv /\ [Next]_vars => PortInv'
  <1> SUFFICES ASSUME PortInv, [Next]_vars PROVE PortInv'
    OBVIOUS
  <1> USE DEF PortInv
  <1>1. CASE Construct
    <2>1. /\ pc = "config" /\ pc' = "config" /\ record \in Rec /\ record' = record + 1
          /\ taskHandle' = (IF KindOf(record) = "nidaq" THEN record ELSE taskHandle)
          /\ UNCHANGED <<conf, handle, Dev, open, closes>>
      BY <1>1 DEF Construct
    <2>2. conf \in Confs /\ NRecords \in Nat /\ \A r \in Rec : r \in Nat /\ KindOf(r)' = KindOf(r)
      BY <2>1, NRecordsAssumption DEF PortTypeOK, Rec, KindOf
    <2>3. PortTypeOK'
      BY <2>1, <2>2 DEF PortTypeOK, Rec
    <2>4. TaskInv'
      BY <2>1, <2>2 DEF TaskInv, Rec, NoHandle, PortTypeOK, KindOf
    <2>5. PhaseInv' /\ HandleInv' /\ ClosedOnce'
      BY <2>1 DEF PhaseInv, HandleInv, OpenOf, Closer, ClosedOnce
    <2>6. QED
      BY <2>3, <2>4, <2>5
  <1>2. CASE ConfigDone \/ StartLoop \/ LeaveLoop \/ Finish
    <2>1. UNCHANGED <<conf, handle, Dev, taskHandle, open, closes>>
      BY <1>2 DEF ConfigDone, StartLoop, LeaveLoop, Finish
    <2>2. NRecords \in Nat /\ \A r \in Rec :
            /\ r \in Nat /\ r >= 1 /\ r <= NRecords
            /\ ReadyOf(r)' = ReadyOf(r) /\ LeftOf(r)' = LeftOf(r)
            /\ OpenOf(r)' = OpenOf(r) /\ KindOf(r)' = KindOf(r)
            /\ (ReadyOf(r) => LeftOf(r))
      BY <2>1, NRecordsAssumption
      DEF ReadyOf, LeftOf, OpenOf, HasHandle, HandleOf, KindOf, Earlier, Rec
    <2>3. /\ \/ pc = "config" /\ pc' = "open" /\ record' = 1 /\ record \notin Rec
             \/ pc = "open" /\ pc' = "loop" /\ record' = record /\ record \notin Rec
             \/ pc = "loop" /\ pc' = "quit" /\ record' = 1
             \/ pc = "quit" /\ pc' = "done" /\ record' = record /\ record \notin Rec
          /\ record \in 1..(NRecords + 1)
      BY <1>2 DEF ConfigDone, StartLoop, LeaveLoop, Finish, PortTypeOK
    <2>4. record \notin Rec => record = NRecords + 1
      BY <2>2, <2>3 DEF Rec
    <2>5. PortTypeOK' /\ ClosedOnce'
      BY <2>1, <2>2, <2>3 DEF PortTypeOK, ClosedOnce
    <2>6. TaskInv'
      BY <2>1, <2>2, <2>3, <2>4 DEF TaskInv, KindOf
    <2>7. PhaseInv'
      BY <2>1, <2>2, <2>3, <2>4 DEF PhaseInv
    <2>8. HandleInv'
      <3>1. ASSUME NEW h \in Rec PROVE Closer(h)'
        <4>1. Closer(h)
          BY <2>3 DEF HandleInv
        <4>2. \A r \in Rec : Earlier(r)' = Earlier(r)
          BY <2>1 DEF Earlier
        <4>3. QED
          BY <2>1, <2>2, <2>3, <4>1, <4>2 DEF Closer
      <3>2. QED
        BY <2>2, <3>1 DEF HandleInv
    <2>9. QED
      BY <2>5, <2>6, <2>7, <2>8
  <1>3. CASE OpenFails \/ Killed
    <2>1. pc' = "exited" /\ UNCHANGED <<conf, record, handle, Dev, taskHandle, open, closes>>
      BY <1>3 DEF OpenFails, CouldNotOpen, Killed
    <2>2. PortTypeOK' /\ ClosedOnce' /\ PhaseInv'
      BY <2>1 DEF PortTypeOK, ClosedOnce, PhaseInv
    <2>3. TaskInv'
      BY <2>1 DEF TaskInv, KindOf
    <2>4. HandleInv'
      BY <2>1 DEF HandleInv, OpenOf, KindOf, Earlier
    <2>5. QED
      BY <2>2, <2>3, <2>4
  <1>4. CASE OpenCommand
    <2>1. /\ pc = "open" /\ pc' = "open" /\ record \in Rec /\ record' = record + 1
          /\ KindOf(record) = "command"
          /\ UNCHANGED <<conf, handle, Dev, taskHandle, open, closes>>
      BY <1>4 DEF OpenCommand, NextRecord
    <2>2. PortTypeOK' /\ ClosedOnce' /\ TaskInv'
      BY <2>1, NRecordsAssumption DEF PortTypeOK, ClosedOnce, TaskInv, Rec, KindOf
    <2>3. ASSUME NEW r \in Rec, r < record + 1 PROVE ReadyOf(r)'
      <3>1. r = record \/ r < record
        BY <2>1, <2>3 DEF Rec
      <3>2. ReadyOf(r)
        BY <2>1, <3>1 DEF PhaseInv, ReadyOf, OSKinds
      <3>3. QED
        BY <2>1, <3>2 DEF ReadyOf, HasHandle, HandleOf, KindOf, Earlier
    <2>4. PhaseInv'
      BY <2>1, <2>3 DEF PhaseInv
    <2>5. HandleInv'
      BY <2>1 DEF HandleInv, OpenOf, Closer, KindOf, Earlier
    <2>6. QED
      BY <2>2, <2>4, <2>5
  <1>5. CASE UNCHANGED vars
    BY <1>5 DEF vars, PortTypeOK, TaskInv, PhaseInv, HandleInv, ClosedOnce, OpenOf,
       Closer, ReadyOf, LeftOf, HasHandle, HandleOf, KindOf, Earlier
  <1>6. QED
    BY <1>1, <1>2, <1>3, <1>4, <1>5, OpenHandleKeeps, OpenTaskKeeps, ReOpenKeeps,
       ClosePortKeeps
    DEF Next, Terminated

LEMMA PortsInvariant == Spec => []PortInv
  BY InitPorts, StepPorts, PTL DEF Spec

(* Every variable of the port table keeps its type (PortTypeOK).           *)
THEOREM PortTypeCorrect == Spec => []PortTypeOK
  <1>1. PortInv => PortTypeOK
    BY DEF PortInv
  <1>2. QED
    BY <1>1, PortsInvariant, PTL

(* In the loop every port but a re-opened socket works with an open handle *)
(* of its own device (OwnHandle), whichever records share it.              *)
THEOREM HandlesAreOwn == Spec => []OwnHandle
  <1>1. PortInv => OwnHandle
    BY NRecordsAssumption DEF PortInv, PhaseInv, ReadyOf, OwnHandle, Rec
  <1>2. QED
    BY <1>1, PortsInvariant, PTL

(* No device is ever open through two handles (OpenedOnce).                *)
THEOREM DevicesOpenedOnce == Spec => []OpenedOnce
  <1>1. PortInv => OpenedOnce
    <2> SUFFICES ASSUME PortInv, NEW g \in Rec, NEW h \in Rec,
                        open[g] = open[h], open[g] # Closed
                 PROVE  g = h
      BY DEF OpenedOnce
    <2>1. OpenOf(g) /\ OpenOf(h)
      BY DEF PortInv, HandleInv
    <2>2. QED
      BY <2>1, NRecordsAssumption DEF OpenOf, KindOf, OSKinds, Earlier, Rec
  <1>2. QED
    BY <1>1, PortsInvariant, PTL

(* No handle is closed twice (ClosedOnce), though quit() comes to it once  *)
(* for each record of the device and a failed open closes it too.          *)
THEOREM HandlesClosedOnce == Spec => []ClosedOnce
  <1>1. PortInv => ClosedOnce
    BY DEF PortInv
  <1>2. QED
    BY <1>1, PortsInvariant, PTL

(* quit() leaves no handle open (AllClosed): until it is done, a record    *)
(* that will close it is still to come.                                    *)
THEOREM QuitClosesAll == Spec => []AllClosed
  <1>1. PortInv => AllClosed
    <2> SUFFICES ASSUME PortInv, pc = "done", NEW h \in Rec, open[h] # Closed
                 PROVE  FALSE
      BY DEF PortInv, AllClosed
    <2>1. PICK r \in Rec : r >= record
      BY DEF PortInv, HandleInv, Closer
    <2>2. QED
      BY <2>1, NRecordsAssumption DEF PortInv, PhaseInv, Rec
  <1>2. QED
    BY <1>1, PortsInvariant, PTL
=============================================================================
