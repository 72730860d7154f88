---------------------------- MODULE PollSchedule ----------------------------
(***************************************************************************)
(* What the query logger promises about the messages it sends, without a   *)
(* loop, passes, arming or due times: which message of a record may go out *)
(* at which time.  QueryLoop implements it (ImplementsSchedule).           *)
(***************************************************************************)
EXTENDS Integers

CONSTANTS Record,       \* the records
          MaxCount      \* bound: messages are counted up to here

VARIABLES plan,         \* the records' settings, see QueryRecord!Settings
          served,       \* the messages each record has sent
          now           \* the time the program goes by

vars == <<plan, served, now>>

Start == served = [r \in Record |-> 0]

(* A record's slots begin at its first time, one each period.              *)
Slot(r, k) == plan[r].first + k * plan[r].period

InBudget(r) == plan[r].number >= 0 => served[r] < plan[r].number

InTime(r) == /\ plan[r].first < now
             /\ plan[r].last = 0 \/ now <= plan[r].last
             /\ plan[r].first > 0 => Slot(r, served[r]) < now

(* The next message of r: within its count, and, unless a service request  *)
(* is what it waits for, inside its window and after the slot it is for.   *)
Serve(r) ==
    /\ plan[r].send
    /\ InBudget(r)
    /\ plan[r].srq \/ InTime(r)
    /\ served[r] < MaxCount
    /\ served' = [served EXCEPT ![r] = @ + 1]
    /\ UNCHANGED <<plan, now>>

Advance == now' > now /\ UNCHANGED <<plan, served>>

Next == Advance \/ \E r \in Record : Serve(r)

Spec == Start /\ [][Next]_vars
=============================================================================
