---------------------------- MODULE QueryRecord ----------------------------
(***************************************************************************)
(* One record of the query program: the scheduling decisions of class      *)
(* query (src/src/query.cpp), as pure operators on the record's            *)
(* configuration c and on the three fields thisRecord() reads and writes.  *)
(*                                                                         *)
(*   next   query::nextRuntime, 0 while the record is not armed            *)
(*   num    query::number, the messages left, negative for no limit        *)
(*   req    query::srqReq # 0, a service request is waiting                *)
(*   now    main.cpp's timeNow; the clock is in abstract ticks             *)
(***************************************************************************)
EXTENDS Integers

CONSTANT Device         \* the deviceStrings of the configuration

(* The fields the command line gives a record.  number is any integer:     *)
(* main.cpp stores strtoul's unsigned result in a signed int, so a large   *)
(* -n becomes negative.                                                    *)
Settings == [device: Device, first: Nat, last: Nat, period: Nat, number: Int,
             send: BOOLEAN, receiveWait: BOOLEAN, sendClear: BOOLEAN,
             nmea: BOOLEAN, srq: BOOLEAN]

(* A record as query::query() leaves it, before any option is applied.     *)
NewRecord(d) == [device |-> d, first |-> 0, last |-> 0, period |-> 0,
                 number |-> -1, send |-> FALSE, receiveWait |-> FALSE,
                 sendClear |-> FALSE, nmea |-> FALSE, srq |-> FALSE]

-----------------------------------------------------------------------------
(* thisRecord(): the first call after the first time arms the record.      *)
Arms(c, next, now) == next = 0 /\ c.first < now

Armed(c, next, now) ==
    IF Arms(c, next, now) THEN IF c.first = 0 THEN now ELSE c.first ELSE next

SlotPassedAt(c, next, now) ==                \* mutant: <= for <
    next > 0 /\ next <= now /\ ~c.srq /\ (c.last = 0 \/ now <= c.last)
SlotPassedAfterLast(c, next, now) ==         \* mutant: the last time is not tested
    next > 0 /\ next < now /\ ~c.srq
SlotPassedNoLast(c, next, now) ==            \* mutant: last = 0 is not special
    next > 0 /\ next < now /\ ~c.srq /\ now <= c.last

(* The record's slot has passed, it does not wait for a service request,   *)
(* and the last time has not gone by.                                      *)
SlotPassed(c, next, now) ==
    /\ next > 0
    /\ next < now
    /\ ~c.srq
    /\ c.last = 0 \/ now <= c.last

(* A service request runs the record whatever its times say.               *)
Wanted(c, next, req, now) == SlotPassed(c, next, now) \/ req

FiresUncounted(c, next, num, req, now) ==    \* mutant: number == 0 is not tested
    Wanted(c, next, req, now)
Fires(c, next, num, req, now) == Wanted(c, next, req, now) /\ num # 0

NumberAfter(c, next, num, req, now) ==
    IF Wanted(c, next, req, now) /\ num > 0 THEN num - 1 ELSE num

NextSlotFromNow(c, next, now) ==             \* mutant: always now + period
    IF c.period > 0 THEN now + c.period ELSE next

NextSlotKept(c, next, now) ==                \* mutant: the armed slot is not moved
    IF c.period > 0 /\ next = 0 THEN now + c.period ELSE next

(* The slot after a run: one period after the slot that was due, not after *)
(* the time the run took place, unless the record was not armed yet.       *)
NextSlot(c, next, now) ==
    CASE c.period = 0           -> next
      [] c.period > 0 /\ next = 0 -> now + c.period
      [] OTHER                  -> next + c.period

NextRuntimeAfter(c, next, num, req, now) ==
    LET armed == Armed(c, next, now)
    IN  IF Fires(c, next, num, req, now) THEN NextSlot(c, armed, now) ELSE armed

(* A record that only reads asks its device for data before it reads.      *)
Probes(c) == c.receiveWait /\ ~c.send

(* The bits of recordAction, given what dataAvaliable() answered.          *)
ActionsOf(c, avail) ==
    {a \in {"clear", "send", "read"} :
        CASE a = "clear" -> c.sendClear
          [] a = "send"  -> c.send
          [] a = "read"  -> c.receiveWait /\ (c.send \/ avail)}

ActiveAtZero(c, num, now) ==                 \* mutant: >= for >
    IF c.last # 0 THEN c.last > now ELSE num = -1 \/ num >= 0

(* finished(), which answers 1 while the record still has work: a last     *)
(* time decides alone, the message count only without one.                 *)
Active(c, num, now) ==
    IF c.last # 0 THEN c.last > now ELSE num = -1 \/ num > 0
=============================================================================
