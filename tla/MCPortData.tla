----------------------------- MODULE MCPortData -----------------------------
(***************************************************************************)
(* Two records on one device or on two: a poller and a listener on one     *)
(* serial port, with and without an EOS character; two listeners there; a  *)
(* record with an empty message; a connection beside datagrams; the NIDAQ  *)
(* channel with listeners and with a sender; an instrument with and        *)
(* without EOS.                                                            *)
(***************************************************************************)
EXTENDS PortData

MCNRecords == 2
MCDevice == {"COM1", "10.0.0.1:5000", "UDP:0.0.0.0:6000", "Dev1/ai0", "6"}
MCKind == [d \in MCDevice |->
            CASE d = "COM1"             -> "serial"
              [] d = "10.0.0.1:5000"    -> "tcp"
              [] d = "UDP:0.0.0.0:6000" -> "udp"
              [] d = "Dev1/ai0"         -> "nidaq"
              [] OTHER                  -> "gpib"]

Listener(d, eos)    == [device |-> d, message |-> "none", receiveWait |-> TRUE, eos |-> eos]
Poller(d, eos)      == [device |-> d, message |-> "text", receiveWait |-> TRUE, eos |-> eos]
Talker(d)           == [device |-> d, message |-> "text", receiveWait |-> FALSE, eos |-> FALSE]
EmptyPoller(d, eos) == [device |-> d, message |-> "empty", receiveWait |-> TRUE, eos |-> eos]

MCConfs ==
    {<<Poller("COM1", TRUE), Listener("COM1", e)>> : e \in BOOLEAN} \cup
    {<<Listener("COM1", TRUE), Listener("COM1", FALSE)>>,
     <<EmptyPoller("COM1", TRUE), Listener("COM1", TRUE)>>,
     <<Talker("COM1"), Listener("COM1", TRUE)>>,
     <<Poller("10.0.0.1:5000", TRUE), Listener("UDP:0.0.0.0:6000", FALSE)>>,
     <<Listener("UDP:0.0.0.0:6000", TRUE), Listener("Dev1/ai0", FALSE)>>,
     <<Listener("Dev1/ai0", FALSE), Poller("Dev1/ai0", FALSE)>>,
     <<Listener("Dev1/ai0", FALSE), Listener("Dev1/ai0", FALSE)>>,
     <<Poller("6", TRUE), Listener("6", FALSE)>>,
     <<Poller("6", FALSE), Listener("COM1", TRUE)>>}

(* A poller that shares the program with a socket.                         *)
SocketConfs == {<<Poller("COM1", TRUE), Listener("10.0.0.1:5000", TRUE)>>}
=============================================================================
