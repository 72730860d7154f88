----------------------------- MODULE PortTable -----------------------------
(***************************************************************************)
(* The life of the ports: one port object for each record, one handle of   *)
(* the operating system for each device.  config() constructs the objects, *)
(* main() opens the first record of each device and re-opens the others    *)
(* with the first one's Dev, the loop uses them all, and quit() closes the *)
(* first record of each device.                                            *)
(*                                                                         *)
(* The handle that record h's open call gets from the system is named h,   *)
(* and so is the task that the constructor of a NIDAQ record h creates.    *)
(***************************************************************************)
EXTENDS Integers

CONSTANTS NRecords,     \* records, the number of used entries of q[]
          Device,       \* the deviceStrings
          Kind,         \* the port class of each device
          Closed,       \* where a handle leads that is not open
          Confs         \* the devices of the records, for each configuration

Rec   == 1..NRecords
Kinds == {"gpib", "serial", "ip", "command", "nidaq"}

(* A value that names no handle, and the values of Dev that are not the    *)
(* address of a record's handle.                                           *)
NoHandle == 0
Null     == 0
Wild     == -1
TaskAddr == -2

ASSUME NRecordsAssumption == NRecords \in Nat
ASSUME KindAssumption     == Kind \in [Device -> Kinds]
ASSUME ClosedAssumption   == Closed \notin Device
ASSUME ConfsAssumption    == Confs \subseteq [Rec -> Device]

VARIABLES conf,         \* conf[r]: the device of record r
          pc, record,   \* where the program is, and its record index
          handle,       \* each object's handle field
          Dev,          \* each object's Dev
          taskHandle,   \* the NIDAQ ports' global task handle
          open,         \* the device an open handle leads to
          closes        \* how often each handle was closed

vars == <<conf, pc, record, handle, Dev, taskHandle, open, closes>>

KindOf(r) == Kind[conf[r]]
Running == pc \notin {"done", "exited"}

(* No constructor sets handle or Dev: they hold what the memory held.      *)
Init ==
    /\ conf \in Confs
    /\ pc = "config"
    /\ record = 1
    /\ handle \in [Rec -> Rec \cup {NoHandle}]
    /\ Dev \in [Rec -> {Null, Wild}]
    /\ taskHandle = NoHandle
    /\ open = [h \in Rec |-> Closed]
    /\ closes = [h \in Rec |-> 0]

-----------------------------------------------------------------------------
(* config(): the next object is constructed; a NIDAQ one creates a task.   *)
Construct ==
    /\ pc = "config" /\ record \in Rec
    /\ taskHandle' = IF KindOf(record) = "nidaq" THEN record ELSE taskHandle
    /\ record' = record + 1
    /\ UNCHANGED <<conf, pc, handle, Dev, open, closes>>

ConfigDone ==
    /\ pc = "config" /\ record \notin Rec
    /\ pc' = "open" /\ record' = 1
    /\ UNCHANGED <<conf, handle, Dev, taskHandle, open, closes>>

EarlierNext(r) ==                            \* mutant: only the record before
    {i \in 1..(r - 1) : i = r - 1 /\ conf[i] = conf[r]}

(* The records before r with r's device.                                   *)
Earlier(r) == {i \in 1..(r - 1) : conf[i] = conf[r]}

(* Opening goes on with the next record if portOpen() or reOpen() returned *)
(* something, and ends the program otherwise.                              *)
NextRecord == pc' = "open" /\ record' = record + 1
CouldNotOpen == pc' = "exited" /\ UNCHANGED record

(* portOpen() of a GPIB, serial or IP port.                                *)
OpenHandle ==
    /\ pc = "open" /\ record \in Rec
    /\ Earlier(record) = {}
    /\ KindOf(record) \in {"gpib", "serial", "ip"}
    /\ handle' = [handle EXCEPT ![record] = record]
    /\ open' = [open EXCEPT ![record] = conf[record]]
    /\ Dev' = [Dev EXCEPT ![record] = record]
    /\ NextRecord
    /\ UNCHANGED <<conf, taskHandle, closes>>

(* The system refuses; the GPIB and serial ports end the program there.    *)
OpenFails ==
    /\ pc = "open" /\ record \in Rec
    /\ Earlier(record) = {}
    /\ KindOf(record) \in {"gpib", "serial", "ip"}
    /\ CouldNotOpen
    /\ UNCHANGED <<conf, handle, Dev, taskHandle, open, closes>>

(* commandPort::portOpen() returns its text and leaves Dev alone.          *)
OpenCommand ==
    /\ pc = "open" /\ record \in Rec
    /\ Earlier(record) = {}
    /\ KindOf(record) = "command"
    /\ NextRecord
    /\ UNCHANGED <<conf, handle, Dev, taskHandle, open, closes>>

(* NIDAQPort::portOpen() adds its channel to the global task and starts    *)
(* it.  The driver refuses a channel for a task that runs already; after   *)
(* any error the task is stopped and cleared.                              *)
OpenTask ==
    /\ pc = "open" /\ record \in Rec
    /\ Earlier(record) = {}
    /\ KindOf(record) = "nidaq"
    /\ \/ /\ open[taskHandle] = Closed
          /\ open' = [open EXCEPT ![taskHandle] = conf[record]]
          /\ Dev' = [Dev EXCEPT ![record] = TaskAddr]
          /\ NextRecord
          /\ UNCHANGED closes
       \/ /\ open' = [open EXCEPT ![taskHandle] = Closed]
          /\ closes' = [closes EXCEPT ![taskHandle] = @ + 1]
          /\ CouldNotOpen
          /\ UNCHANGED Dev
    /\ UNCHANGED <<conf, handle, taskHandle>>

HandleKept(r, p) == handle[r]                \* mutant: no reOpen() copies it
HandleCast(r, p) == p                        \* mutant: Dev itself is the handle

(* The GPIB and serial ports copy the handle that the first one's Dev      *)
(* points to; the IP port does not.                                        *)
HandleAfterReOpen(r, p) ==
    IF KindOf(r) \in {"gpib", "serial"} THEN handle[p] ELSE handle[r]

(* reOpen() of a record whose device an earlier one has opened.            *)
ReOpen ==
    /\ pc = "open" /\ record \in Rec
    /\ \E i \in Earlier(record) :
          /\ \A j \in Earlier(record) : i <= j
          /\ Dev' = [Dev EXCEPT ![record] = Dev[i]]
          /\ handle' = [handle EXCEPT ![record] = HandleAfterReOpen(record, Dev[i])]
          /\ IF Dev[i] = Null THEN CouldNotOpen ELSE NextRecord
    /\ UNCHANGED <<conf, taskHandle, open, closes>>

StartLoop ==
    /\ pc = "open" /\ record \notin Rec
    /\ pc' = "loop"
    /\ UNCHANGED <<conf, record, handle, Dev, taskHandle, open, closes>>

(* The loop, QueryLoop's subject, comes to its end.                        *)
LeaveLoop ==
    /\ pc = "loop"
    /\ pc' = "quit" /\ record' = 1
    /\ UNCHANGED <<conf, handle, Dev, taskHandle, open, closes>>

(* The handle that the port object of record r works with.                 *)
HandleOf(r) == IF KindOf(r) = "nidaq" THEN taskHandle ELSE handle[r]

NeedCloseAlways(r) == TRUE                   \* mutant: no look at the others
NeedCloseNever(r) == \A i \in 1..r : conf[i] # conf[r]     \* mutant: i <= record

(* quit(): the first record of each device closes it.                      *)
NeedClose(r) == Earlier(r) = {}

ClosePort ==
    /\ pc = "quit" /\ record \in Rec
    /\ IF NeedClose(record) /\ KindOf(record) # "command"
       THEN /\ open' = [open EXCEPT ![HandleOf(record)] = Closed]
            /\ closes' = [closes EXCEPT ![HandleOf(record)] = @ + 1]
       ELSE UNCHANGED <<open, closes>>
    /\ record' = record + 1
    /\ UNCHANGED <<conf, pc, handle, Dev, taskHandle>>

Finish ==
    /\ pc = "quit" /\ record \notin Rec
    /\ pc' = "done"
    /\ UNCHANGED <<conf, record, handle, Dev, taskHandle, open, closes>>

(* The second console event, or a GPIB device that cannot be cleared, ends *)
(* the process wherever it is.                                             *)
Killed ==
    /\ Running
    /\ pc' = "exited"
    /\ UNCHANGED <<conf, record, handle, Dev, taskHandle, open, closes>>

Terminated == ~Running /\ UNCHANGED vars

Next == \/ Construct \/ ConfigDone
        \/ OpenHandle \/ OpenFails \/ OpenCommand \/ OpenTask \/ ReOpen
        \/ StartLoop \/ LeaveLoop \/ ClosePort \/ Finish
        \/ Killed \/ Terminated

Spec == Init /\ [][Next]_vars

-----------------------------------------------------------------------------
(***************************************************************************)
(* Properties.                                                             *)
(***************************************************************************)

(* Every variable keeps its type.                                          *)
PortTypeOK ==
    /\ conf \in Confs
    /\ pc \in {"config", "open", "loop", "quit", "done", "exited"}
    /\ record \in 1..(NRecords + 1)
    /\ handle \in [Rec -> Rec \cup {NoHandle}]
    /\ Dev \in [Rec -> Rec \cup {Null, Wild, TaskAddr}]
    /\ taskHandle \in Rec \cup {NoHandle}
    /\ open \in [Rec -> Device \cup {Closed}]
    /\ closes \in [Rec -> Nat]

HasHandle(r) == HandleOf(r) \in Rec /\ open[HandleOf(r)] = conf[r]

(* In the loop every port works with an open handle of its own device,     *)
(* though only the first record of a device opened it and the others were  *)
(* given it through Dev.  (For re-opened sockets see SocketsHaveHandles.)  *)
OwnHandle ==
    pc = "loop" =>
        \A r \in Rec : KindOf(r) # "command" /\ (KindOf(r) = "ip" => Earlier(r) = {})
                           => HasHandle(r)

(* No device is ever open twice: the system refuses a second handle for a  *)
(* serial port, and a second GPIB handle would have settings of its own.   *)
OpenedOnce ==
    \A g, h \in Rec : open[g] = open[h] /\ open[g] # Closed => g = h

(* No handle is closed twice, though quit() comes to it once for each      *)
(* record of the device and a failed open closes too, and none that was    *)
(* closed is in use.                                                       *)
ClosedOnce == \A h \in Rec : closes[h] <= 1 /\ (open[h] # Closed => closes[h] = 0)

(* quit() leaves nothing open.                                             *)
AllClosed == pc = "done" => \A h \in Rec : open[h] = Closed

(* "check if its already open" (main.cpp): a record that shares a socket   *)
(* works with the open one.                                                *)
SocketsHaveHandles ==
    pc = "loop" => \A r \in Rec : KindOf(r) = "ip" => HasHandle(r)
=============================================================================
