------------------------------- MODULE IpPort -------------------------------
(***************************************************************************)
(* IpPort.cpp: rxBuf, bytes and lastRx are globals that all IP ports       *)
(* share.  recvfrom() on the blocking socket waits for data or for the end *)
(* of the connection; neither the probe nor portRead() looks at the clock  *)
(* while it waits.                                                         *)
(***************************************************************************)
EXTENDS DataPath

CONSTANT RxSize         \* sizeof(rxBuf)

ASSUME RxSizeAssumption == RxSize \in Nat \ {0}

VARIABLES wire,         \* segments or datagrams that wait in each socket
          closed,       \* the peer has closed the connection
          rxBuf, bytes, lastRx,
          ret           \* the current read has seen its EOS character

ip == <<wire, closed, rxBuf, bytes, lastRx, ret>>

IpInit ==
    /\ wire = [d \in Device |-> <<>>]
    /\ closed = [d \in Device |-> FALSE]
    /\ rxBuf = <<>> /\ bytes = 0 /\ lastRx = 0 /\ ret = FALSE

(* portWrite(): nothing of what waits in the socket is touched.            *)
WriteIp ==
    /\ pc = "write" /\ Has({"tcp", "udp"})
    /\ Written
    /\ UNCHANGED <<lost, ip>>

(* dataAvaliable(): text left in rxBuf, or else the answer of a peek.      *)
ProbeIp ==
    /\ pc = "probe" /\ Has({"tcp", "udp"})
    /\ bytes > 0 \/ wire[Dev] # <<>> \/ closed[Dev]
    /\ Probed(bytes > 0 \/ wire[Dev] # <<>>)
    /\ UNCHANGED ip

BeginIp ==
    /\ pc = "begin" /\ Has({"tcp", "udp"})
    /\ ReadBegins(<<>>)
    /\ ret' = FALSE
    /\ UNCHANGED <<wire, closed, rxBuf, bytes, lastRx>>

(* The test of portRead()'s loop.                                          *)
TestIp ==
    /\ pc = "test" /\ Has({"tcp", "udp"})
    /\ Goto(IF expired \/ ret THEN "log" ELSE "recv")
    /\ UNCHANGED <<ReadBuffer, expired, history, ip>>

(* What recvfrom() stores of the segment that is next: as much as fits, or *)
(* nothing of a datagram that does not fit.                                *)
Room == RxSize - bytes
StoredAll == Head(wire[Dev])                 \* mutant: recvfrom() is not given the size
Stored ==
    LET text == Head(wire[Dev])
    IN  IF Len(text) <= Room THEN text
        ELSE IF Kind[Dev] = "tcp" THEN SubSeq(text, 1, Room) ELSE <<>>

(* What stays in the socket: the rest of a segment, but not of a datagram. *)
LeftOver ==
    LET text == Head(wire[Dev])
    IN  IF Kind[Dev] = "tcp" /\ Len(text) > Room
        THEN <<SubSeq(text, Room + 1, Len(text))>> \o Tail(wire[Dev])
        ELSE Tail(wire[Dev])

(* The two recvfrom() of the loop return.                                  *)
Receive ==
    /\ pc = "recv"
    /\ wire[Dev] # <<>>
    /\ rxBuf' = SubSeq(rxBuf, 1, bytes) \o Stored
    /\ lastRx' = bytes
    /\ bytes' = bytes + Len(Stored)
    /\ wire' = [wire EXCEPT ![Dev] = LeftOver]
    /\ lost' = [lost EXCEPT ![Dev] =
          IF Stored = <<>> THEN @ \cup Numbers(Head(wire[Dev])) ELSE @]
    /\ Goto("copy")
    /\ UNCHANGED <<ReadBuffer, expired, arrived, asked, logged, closed, ret>>

(* ... or tell that the connection is over.                                *)
ReceiveNothing ==
    /\ pc = "recv"
    /\ wire[Dev] = <<>> /\ closed[Dev]
    /\ lastRx' = bytes
    /\ Goto("test")
    /\ UNCHANGED <<ReadBuffer, expired, history, wire, closed, rxBuf, bytes, ret>>

IsEos(c) == conf[record].eos /\ c.eos

CopyToEos ==                                 \* mutant: the copy stops at EOS
    /\ pc = "copy" /\ bytes > 0
    /\ ReadBuffer' = Append(ReadBuffer, rxBuf[lastRx + 1])
    /\ bytes' = bytes - 1
    /\ lastRx' = lastRx + 1
    /\ ret' = (ret \/ IsEos(rxBuf[lastRx + 1]))
    /\ Goto(IF ret' THEN "test" ELSE "copy")
    /\ UNCHANGED <<expired, history, wire, closed, rxBuf>>

(* One character is copied; an EOS character is noted and the copy goes on.*)
Copy ==
    /\ pc = "copy" /\ bytes > 0
    /\ ReadBuffer' = Append(ReadBuffer, rxBuf[lastRx + 1])
    /\ bytes' = bytes - 1
    /\ lastRx' = lastRx + 1
    /\ ret' = (ret \/ IsEos(rxBuf[lastRx + 1]))
    /\ UNCHANGED <<conf, pc, record, expired, history, wire, closed, rxBuf>>

CopyDone ==
    /\ pc = "copy" /\ bytes = 0
    /\ Goto("test")
    /\ UNCHANGED <<ReadBuffer, expired, history, ip>>

IpStep == \/ WriteIp \/ ProbeIp \/ BeginIp \/ TestIp
          \/ Receive \/ ReceiveNothing \/ Copy \/ CopyDone

(* A segment or a datagram of k characters arrives.                        *)
IpArrives(d) ==
    /\ Kind[d] \in {"tcp", "udp"} /\ ~closed[d]
    /\ \E k \in 1..(RxSize + 1) :
          /\ Arrives(d, k)
          /\ \E text \in Produced(d, k) : wire' = [wire EXCEPT ![d] = Append(@, text)]
    /\ UNCHANGED <<closed, rxBuf, bytes, lastRx, ret>>

PeerCloses(d) ==
    /\ Kind[d] = "tcp" /\ ~closed[d]
    /\ closed' = [closed EXCEPT ![d] = TRUE]
    /\ UNCHANGED <<turn, history, wire, rxBuf, bytes, lastRx, ret>>
=============================================================================
