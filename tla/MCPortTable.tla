---------------------------- MODULE MCPortTable ----------------------------
(***************************************************************************)
(* Three records over one device of each kind and a second NIDAQ channel:  *)
(* devices shared by all, by neighbours, by the first and the last, or not *)
(* at all, in any order.                                                   *)
(***************************************************************************)
EXTENDS PortTable

MCNRecords == 3
MCDevice == {"6", "COM1", "10.0.0.1:5000", "sound", "Dev1/ai0", "Dev1/ai1"}
MCKind == [d \in MCDevice |->
            CASE d = "6"             -> "gpib"
              [] d = "COM1"          -> "serial"
              [] d = "10.0.0.1:5000" -> "ip"
              [] d = "sound"         -> "command"
              [] OTHER               -> "nidaq"]

AllConfs == [1..MCNRecords -> MCDevice]

SharedSocket == {<<"10.0.0.1:5000", "COM1", "10.0.0.1:5000">>}
=============================================================================
