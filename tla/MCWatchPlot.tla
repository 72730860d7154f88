---------------------------- MODULE MCWatchPlot ----------------------------
(***************************************************************************)
(* A logger of three lines under up to three names, with the plotter: the  *)
(* records only listen, send, or take replies that stdio cannot hold.      *)
(***************************************************************************)
EXTENDS WatchPlot

Listens == [sends |-> FALSE, long |-> FALSE, number |-> TRUE, sameTime |-> FALSE]
Sends   == [Listens EXCEPT !.sends = TRUE]
Reads   == [Listens EXCEPT !.long = TRUE]
InWords(s) == [s EXCEPT !.number = FALSE]
Soon(s)    == [s EXCEPT !.sameTime = TRUE]

MCScripts   == {<<Sends, Listens, Soon(Sends)>>, <<Listens, InWords(Sends), Reads>>}
MCRefusable == {2}
MCPositions == {4, 5}
=============================================================================
