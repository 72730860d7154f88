------------------------------ MODULE NidaqPort ------------------------------
(***************************************************************************)
(* NIDAQPort.cpp: the driver samples in a thread of its own, keeps the     *)
(* samples of the one task in a queue, and calls EveryNCallback(), which   *)
(* sets dataAv, once for each of them.                                     *)
(***************************************************************************)
EXTENDS DataPath

VARIABLES fifo,         \* the samples that the driver holds
          callbacks,    \* samples whose callback has not run yet
          dataAv

nidaq == <<fifo, callbacks, dataAv>>

NidaqInit == fifo = <<>> /\ callbacks = 0 /\ dataAv = FALSE

(* portWrite() does nothing.                                               *)
WriteNidaq ==
    /\ pc = "write" /\ Has({"nidaq"})
    /\ Written
    /\ UNCHANGED <<lost, nidaq>>

(* dataAvaliable(), first the test of dataAv ...                           *)
TestFlag ==
    /\ pc = "probe" /\ Has({"nidaq"})
    /\ Goto(IF dataAv THEN "clear" ELSE "idle")
    /\ UNCHANGED <<ReadBuffer, expired, history, nidaq>>

ClearFlagNot ==                              \* mutant: the flag stays set
    /\ pc = "clear"
    /\ Probed(TRUE)
    /\ UNCHANGED nidaq

(* ... and then its reset; a callback in between is forgotten.             *)
ClearFlag ==
    /\ pc = "clear"
    /\ dataAv' = FALSE
    /\ Probed(TRUE)
    /\ UNCHANGED <<fifo, callbacks>>

(* What portRead() prints when the driver has no sample for it: data[0] as *)
(* the stack left it.                                                      *)
Unread == [n |-> 0, eos |-> FALSE]

(* portRead(): one sample, and no waiting for one.                         *)
ReadSample ==
    /\ pc = "begin" /\ Has({"nidaq"})
    /\ IF fifo = <<>>
       THEN ReadBuffer' = <<Unread>> /\ UNCHANGED fifo
       ELSE ReadBuffer' = <<Head(fifo)>> /\ fifo' = Tail(fifo)
    /\ Goto("log")
    /\ UNCHANGED <<expired, history, callbacks, dataAv>>

NidaqStep == WriteNidaq \/ TestFlag \/ ClearFlag \/ ReadSample

(* The driver's thread: a sample is taken, then its callback runs.         *)
Sample(d) ==
    /\ Kind[d] = "nidaq"
    /\ \E text \in Produced(d, 1) : fifo' = fifo \o text
    /\ callbacks' = callbacks + 1
    /\ Arrives(d, 1)
    /\ UNCHANGED dataAv

EveryNCallback ==
    /\ callbacks > 0
    /\ callbacks' = callbacks - 1
    /\ dataAv' = TRUE
    /\ UNCHANGED <<turn, history, fifo>>
=============================================================================
