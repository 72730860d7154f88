----------------------------- MODULE SerialPort -----------------------------
(***************************************************************************)
(* serialPort.cpp: characters wait in the system's receive buffer of the   *)
(* port; dataAvaliable() moves one into the tempBuffer of the record that  *)
(* asks.  All records of a port share the former and have a tempBuffer     *)
(* each.                                                                   *)
(***************************************************************************)
EXTENDS DataPath

VARIABLES line,         \* the receive buffer of each port
          tempBuffer    \* tempBuffer[0 .. rxdChars-1] of each record

serial == <<line, tempBuffer>>

SerialInit ==
    /\ line = [d \in Device |-> <<>>]
    /\ tempBuffer = [r \in Rec |-> <<>>]

WriteSerialKeeps ==                          \* mutant: PURGE_RXCLEAR is forgotten
    /\ pc = "write" /\ Has({"serial"})
    /\ Written
    /\ UNCHANGED <<lost, serial>>

WriteSerialAlways ==                         \* mutant: no early return for an empty message
    /\ pc = "write" /\ Has({"serial"})
    /\ lost' = [lost EXCEPT ![Dev] = @ \cup Numbers(line[Dev])]
    /\ line' = [line EXCEPT ![Dev] = <<>>]
    /\ Written
    /\ UNCHANGED tempBuffer

(* portWrite(): what was received so far is thrown away, unless the        *)
(* message is empty.                                                       *)
WriteSerial ==
    /\ pc = "write" /\ Has({"serial"})
    /\ IF conf[record].message = "empty"
       THEN UNCHANGED <<lost, line>>
       ELSE /\ lost' = [lost EXCEPT ![Dev] = @ \cup Numbers(line[Dev])]
            /\ line' = [line EXCEPT ![Dev] = <<>>]
    /\ Written
    /\ UNCHANGED tempBuffer

TakeNext == line' = [line EXCEPT ![Dev] = Tail(@)]

(* dataAvaliable(): one character is read, if there is one.                *)
ProbeSerial ==
    /\ pc = "probe" /\ Has({"serial"})
    /\ IF line[Dev] = <<>>
       THEN UNCHANGED serial
       ELSE /\ tempBuffer' = [tempBuffer EXCEPT ![record] = Append(@, Head(line[Dev]))]
            /\ TakeNext
    /\ Probed(tempBuffer'[record] # <<>>)

BeginSerialTwice ==                          \* mutant: rxdChars is not counted down
    /\ pc = "begin" /\ Has({"serial"})
    /\ ReadBegins(tempBuffer[record])
    /\ UNCHANGED serial

(* portRead() first takes over the characters of tempBuffer, with no look  *)
(* at the EOS character.                                                   *)
BeginSerial ==
    /\ pc = "begin" /\ Has({"serial"})
    /\ ReadBegins(tempBuffer[record])
    /\ tempBuffer' = [tempBuffer EXCEPT ![record] = <<>>]
    /\ UNCHANGED line

ReadCharOn ==                                \* mutant: EOS does not end the loop
    /\ pc = "test" /\ Has({"serial"})
    /\ ~expired /\ line[Dev] # <<>>
    /\ ReadBuffer' = Append(ReadBuffer, Head(line[Dev]))
    /\ TakeNext
    /\ UNCHANGED <<conf, pc, record, expired, history, tempBuffer>>

(* One turn of the loop in which ReadFile() returns a character; one in    *)
(* which it returns none changes nothing.                                  *)
ReadChar ==
    /\ pc = "test" /\ Has({"serial"})
    /\ ~expired /\ line[Dev] # <<>>
    /\ ReadBuffer' = Append(ReadBuffer, Head(line[Dev]))
    /\ TakeNext
    /\ Goto(IF conf[record].eos /\ Head(line[Dev]).eos THEN "log" ELSE "test")
    /\ UNCHANGED <<expired, history, tempBuffer>>

SerialTimesOutEmpty ==                       \* mutant: text holds the timeout off
    /\ pc = "test" /\ Has({"serial"})
    /\ expired /\ ReadBuffer = <<>>
    /\ Goto("log")
    /\ UNCHANGED <<ReadBuffer, expired, history, serial>>

(* The timeout ends the loop; the text read so far is kept.                *)
SerialTimesOut ==
    /\ pc = "test" /\ Has({"serial"})
    /\ expired
    /\ Goto("log")
    /\ UNCHANGED <<ReadBuffer, expired, history, serial>>

SerialStep == \/ WriteSerial \/ ProbeSerial \/ BeginSerial
              \/ ReadChar \/ SerialTimesOut

(* A character arrives on a line.                                          *)
SerialArrives(d) ==
    /\ Kind[d] = "serial"
    /\ \E text \in Produced(d, 1) : line' = [line EXCEPT ![d] = @ \o text]
    /\ Arrives(d, 1)
    /\ UNCHANGED tempBuffer
=============================================================================
