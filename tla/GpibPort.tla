------------------------------ MODULE GpibPort ------------------------------
(***************************************************************************)
(* gpibPort.cpp, reading and writing: the instrument holds its answer      *)
(* until it is addressed; ibrd() takes it up to the EOS character that     *)
(* portOpen() gave the shared handle.                                      *)
(***************************************************************************)
EXTENDS DataPath

VARIABLE answer         \* what each instrument has to say

gpib == <<answer>>

GpibInit == answer = [d \in Device |-> <<>>]

WriteGpib ==
    /\ pc = "write" /\ Has({"gpib"})
    /\ Written
    /\ UNCHANGED <<lost, gpib>>

(* dataAvaliable() knows nothing of the instrument.                        *)
ProbeGpib ==
    /\ pc = "probe" /\ Has({"gpib"})
    /\ Probed(TRUE)
    /\ UNCHANGED gpib

BeginGpib ==
    /\ pc = "begin" /\ Has({"gpib"})
    /\ ReadBegins(<<>>)
    /\ UNCHANGED gpib

(* reOpen() copies the handle of the first record, and with it its eosMode.*)
SetsEos(r) ==
    /\ conf[r].device = Dev
    /\ \A i \in 1..(r - 1) : conf[i].device # Dev

HandleEos == \E r \in Rec : SetsEos(r) /\ conf[r].eos

(* ibrd() takes a character; with any of them the instrument may end its   *)
(* answer (EOI) ...                                                        *)
TakeChar ==
    /\ pc = "test" /\ Has({"gpib"})
    /\ ~expired /\ answer[Dev] # <<>>
    /\ ReadBuffer' = Append(ReadBuffer, Head(answer[Dev]))
    /\ answer' = [answer EXCEPT ![Dev] = Tail(@)]
    /\ \/ Goto("log")
       \/ Goto("test") /\ ~(HandleEos /\ Head(answer[Dev]).eos)
    /\ UNCHANGED <<expired, history>>

(* ... or reports that the instrument did not finish in time; then         *)
(* portRead() gives up what was taken.                                     *)
GpibTimesOut ==
    /\ pc = "test" /\ Has({"gpib"})
    /\ expired
    /\ ReadBuffer' = <<>>
    /\ lost' = [lost EXCEPT ![Dev] = @ \cup Numbers(ReadBuffer)]
    /\ Goto("log")
    /\ UNCHANGED <<expired, arrived, asked, logged, gpib>>

GpibStep == \/ WriteGpib \/ ProbeGpib \/ BeginGpib
            \/ TakeChar \/ GpibTimesOut

Answers(d) ==
    /\ Kind[d] = "gpib"
    /\ \E text \in Produced(d, 1) : answer' = [answer EXCEPT ![d] = @ \o text]
    /\ Arrives(d, 1)
=============================================================================
