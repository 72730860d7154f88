------------------------------ MODULE DataPath ------------------------------
(***************************************************************************)
(* The way of the text from the devices to the log, seen from the program: *)
(* the loop gives one record at a time its turn, the record writes or asks *)
(* for data, reads, and main() logs what is then in the shared ReadBuffer. *)
(* Which record is due is QueryLoop's subject; here any record may be      *)
(* next.  The port classes extend this module with what they hold between  *)
(* device and ReadBuffer.                                                  *)
(*                                                                         *)
(* A character (for the NIDAQ port a sample) is known by n, its place      *)
(* among all that its device has produced; eos tells the EOS character.    *)
(***************************************************************************)
EXTENDS Integers, Sequences

CONSTANTS NRecords,     \* records, the number of used entries of q[]
          Device,       \* the deviceStrings
          Kind,         \* the port class of each device
          Confs,        \* the configurations of the records considered
          MaxText       \* bound: characters that a device produces

Rec   == 1..NRecords
Kinds == {"gpib", "serial", "tcp", "udp", "nidaq"}

(* What of a record matters here: its message, if it sends one, whether it *)
(* reads, and whether its eosMode is the EOS character; the constructors   *)
(* leave eosMode unset, so without -es it may be anything.                 *)
Reader == [device: Device, message: {"none", "empty", "text"},
           receiveWait: BOOLEAN, eos: BOOLEAN]

(* Without a record the loop ends at once.  The driver has one task: a      *)
(* second NIDAQ device ends the program when it is opened (PortTable).     *)
ASSUME NRecordsAssumption == NRecords \in Nat \ {0}
ASSUME KindAssumption     == Kind \in [Device -> Kinds]
ASSUME ConfsAssumption    == Confs \subseteq [Rec -> Reader]
ASSUME TaskAssumption     ==
    \A c \in Confs : \A r, s \in Rec :
        Kind[c[r].device] = "nidaq" /\ Kind[c[s].device] = "nidaq" =>
            c[r].device = c[s].device
ASSUME BoundAssumption    == MaxText \in Nat

VARIABLES conf,         \* the command line, never changed
          pc, record,   \* where the loop is, and its record
          ReadBuffer,   \* the text of the current read
          expired       \* the current read's timeout has passed

(* History: the characters produced so far, how many were there when the   *)
(* current record's message began to go out, those logged, and given up.   *)
VARIABLES arrived, asked, logged, lost

turn    == <<conf, pc, record, ReadBuffer, expired>>
history == <<arrived, asked, logged, lost>>

Dev == conf[record].device
Has(kinds) == Kind[Dev] \in kinds

(* The numbers of the characters of a text, none for a sample that nobody  *)
(* took (0), which is printed alone.                                       *)
Numbers(text) == {text[i].n : i \in DOMAIN text}
NumbersOf(text) ==
    IF 0 \in Numbers(text) THEN <<>> ELSE [i \in DOMAIN text |-> text[i].n]

DataInit ==
    /\ conf \in Confs
    /\ pc = "idle" /\ record = 1
    /\ ReadBuffer = <<>> /\ expired = FALSE
    /\ arrived = [d \in Device |-> 0] /\ asked = 0
    /\ logged = [d \in Device |-> <<>>]
    /\ lost = [d \in Device |-> {}]

Goto(place) == pc' = place /\ UNCHANGED <<conf, record>>

(* A record's turn: it sends, or it looks for data.                        *)
NextTurn ==
    /\ pc = "idle"
    /\ \E r \in Rec :
          /\ conf[r].message # "none" \/ conf[r].receiveWait
          /\ record' = r
          /\ pc' = IF conf[r].message # "none" THEN "write" ELSE "probe"
    /\ asked' = 0
    /\ UNCHANGED <<conf, ReadBuffer, expired, arrived, logged, lost>>

(* The message goes out; next the reply, if the record wants one.  What     *)
(* arrives while the characters are sent counts as arrived after this step.*)
Written ==
    /\ Goto(IF conf[record].receiveWait THEN "begin" ELSE "idle")
    /\ asked' = arrived[Dev]
    /\ UNCHANGED <<ReadBuffer, expired, arrived, logged>>

(* dataAvaliable() has answered.                                           *)
Probed(available) ==
    /\ Goto(IF available THEN "begin" ELSE "idle")
    /\ UNCHANGED <<ReadBuffer, expired, history>>

(* portRead() begins, with what the port object has of the text already.   *)
ReadBegins(text) ==
    /\ Goto("test")
    /\ ReadBuffer' = text
    /\ expired' = FALSE
    /\ UNCHANGED history

(* portRead() returns; main() has the text printed.                        *)
Log ==
    /\ pc = "log"
    /\ logged' = [logged EXCEPT ![Dev] = @ \o NumbersOf(ReadBuffer)]
    /\ ReadBuffer' = <<>>
    /\ Goto("idle")
    /\ UNCHANGED <<expired, arrived, asked, lost>>

Reading == pc \in {"test", "recv", "copy"}

(* Time passes: the read's timeout is over.                                *)
Expire ==
    /\ Reading /\ ~expired
    /\ expired' = TRUE
    /\ UNCHANGED <<conf, pc, record, ReadBuffer, history>>

(* The next k characters of device d, any of them EOS if a record cares.   *)
EosMatters(d) == \E r \in Rec : conf[r].device = d /\ conf[r].eos

Produced(d, k) ==
    {[i \in 1..k |-> [n |-> arrived[d] + i, eos |-> i \in ends]] :
        ends \in IF EosMatters(d) THEN SUBSET (1..k) ELSE {{}}}

Arrives(d, k) ==
    /\ arrived[d] + k <= MaxText
    /\ arrived' = [arrived EXCEPT ![d] = @ + k]
    /\ UNCHANGED <<turn, asked, logged, lost>>
=============================================================================
