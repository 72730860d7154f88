---------------------------- MODULE MCQueryLoop ----------------------------
(***************************************************************************)
(* The small instances of QueryLoop.  Every configuration has two records: *)
(* enough for two records that share a device, for one that delays the     *)
(* other, and for one that ends while the other goes on.                   *)
(***************************************************************************)
EXTENDS QueryLoop

MCNRecords == 2
MCDevice == {"6", "COM1", "10.0.0.1:5000", "sound", "Dev1/ai0"}
MCKind == [d \in MCDevice |->
            CASE d = "6"             -> "gpib"
              [] d = "COM1"          -> "serial"
              [] d = "10.0.0.1:5000" -> "ip"
              [] d = "sound"         -> "command"
              [] d = "Dev1/ai0"      -> "nidaq"]

(* <device> <message> -r -f first -p period -n count                       *)
Poller(d, first, period, count) ==
    [NewRecord(d) EXCEPT !.send = TRUE, !.receiveWait = TRUE,
                         !.first = first, !.period = period, !.number = count]
(* -x <program> <message> -p period -n count                               *)
Sender(d, period, count) ==
    [NewRecord(d) EXCEPT !.send = TRUE, !.period = period, !.number = count]
(* <device> -r -n count                                                    *)
Listener(d, count) ==
    [NewRecord(d) EXCEPT !.receiveWait = TRUE, !.number = count]
(* <device> -u <message> -n count                                          *)
OnRequest(d, count) ==
    [NewRecord(d) EXCEPT !.srq = TRUE, !.send = TRUE, !.number = count]

Until(c, t)  == [c EXCEPT !.last = t]
Clearing(c)  == [c EXCEPT !.sendClear = TRUE]
Nmea(c)      == [c EXCEPT !.nmea = TRUE]
Reading(c)   == [c EXCEPT !.receiveWait = TRUE]
From(c, t)   == [c EXCEPT !.first = t]

SafeConfs ==
    { <<Until(Poller("COM1", 1, 2, 2), 4), Listener("COM1", 2)>>,
      <<From(Sender("COM1", 1, -1), 1), Nmea(Poller("COM1", 2, 2, 1))>>,
      <<Reading(OnRequest("6", 2)), Clearing(OnRequest("6", -1))>>,
      <<From(OnRequest("6", 1), 3), Until(Poller("6", 2, 1, -1), 4)>>,
      <<Poller("10.0.0.1:5000", 1, 1, 2), Listener("10.0.0.1:5000", -1)>>,
      <<Sender("sound", 2, 1), Poller("COM1", 1, 2, -5)>>,
      <<Clearing(Poller("6", 0, 1, 2)), Listener("Dev1/ai0", 1)>> }

(* Without sockets: a blocked receive stops everything, see the README.    *)
LiveConfs ==
    { <<Poller("COM1", 1, 2, -1), Until(Poller("COM1", 1, 0, -1), 3)>>,
      <<OnRequest("6", -1), OnRequest("6", 1)>>,
      <<Until(Listener("COM1", -1), 3), Poller("sound", 2, 1, 2)>> }

(* Records on the command port beside a record that fills the buffer.      *)
CommandConfs == { <<Poller("COM1", 1, 2, -1), Poller("sound", 1, 2, -1)>> }

ForeverConfs == { <<Poller("COM1", 1, 2, -1), Poller("COM1", 1, 2, -1)>> }

CountedListenerConfs == { <<Listener("COM1", 2), Listener("COM1", 1)>> }
=============================================================================
