-------------------------- MODULE QueryLoopProofs --------------------------
(***************************************************************************)
(* Proofs about QueryLoop, for every number of records, every set of       *)
(* configurations and every bound.                                         *)
(***************************************************************************)
EXTENDS QueryLoop, TLAPS

(* Where the loop is and what the current record has still to do.          *)
LoopOK ==
    /\ recordAction # {} => record \in Rec /\ pc \in {"act", "recv", "killed"}
    /\ pc \in {"act", "recv"} => recordAction # {}
    /\ pc = "recv" => recordAction = {"read"}

TypeInv == TypeOK /\ LoopOK

(* A counter stays within its bound.                                       *)
LEMMA BumpType ==
    ASSUME NEW counter \in [Rec -> 0..MaxCount], NEW r \in Rec
    PROVE  Bump(counter, r) \in [Rec -> 0..MaxCount]
  BY BoundsAssumption DEF Bump

(* The settings of a record have their types.                              *)
LEMMA ConfType ==
    ASSUME conf \in Confs, NEW r \in Rec
    PROVE  /\ conf[r] \in Settings
           /\ Dev(r) \in Device
           /\ PortOf(r) \in Kinds
  BY ConfsAssumption, KindAssumption DEF Settings, Dev, PortOf

(* Going on to the next action or record keeps the loop's position sound.  *)
LEMMA ProceedType ==
    ASSUME record \in Rec, NRecords \in Nat,
           NEW a \in SUBSET {"clear", "send", "read"}, Proceed(a)
    PROVE  /\ recordAction' = a
           /\ recordAction' \subseteq {"clear", "send", "read"}
           /\ pc' \in {"decide", "act"}
           /\ record' \in 1..(NRecords + 1)
           /\ recordAction' # {} => record' \in Rec /\ pc' = "act" /\ record' = record
           /\ pc' = "act" => recordAction' # {}
  <1>1. CASE a = {}
    BY <1>1 DEF Proceed, Rec
  <1>2. CASE a # {}
    <2>1. recordAction' = a /\ pc' = "act" /\ record' = record
      BY <1>2 DEF Proceed
    <2>2. QED
      BY <1>2, <2>1 DEF Rec
  <1>3. QED
    BY <1>1, <1>2

(* The accounting of a read keeps the counters' types.                     *)
LEMMA AccountType ==
    ASSUME TypeOK, record \in Rec, NEW from \in 0..NRecords,
           NEW timedOut \in BOOLEAN, Account(from, timedOut)
    PROVE  /\ rxFrom' \in 0..NRecords
           /\ received' \in [Rec -> 0..MaxCount]
           /\ timeouts' \in [Rec -> 0..MaxCount]
           /\ checked' \in [Rec -> 0..MaxCount]
           /\ sumErrors' \in [Rec -> 0..MaxCount]
  <1>1. received' \in [Rec -> 0..MaxCount] /\ timeouts' \in [Rec -> 0..MaxCount]
    BY BumpType DEF Account, TypeOK
  <1>2. checked' \in [Rec -> 0..MaxCount] /\ sumErrors' \in [Rec -> 0..MaxCount]
    BY BumpType DEF Account, TypeOK
  <1>3. QED
    BY <1>1, <1>2 DEF Account

(* Handing a request to all records keeps the request bits' type.          *)
LEMMA RequestType ==
    ASSUME srqReq \in [Rec -> BOOLEAN], NEW r \in Rec
    PROVE  RequestAll(r) \in [Rec -> BOOLEAN]
  <1>1. \A j \in Rec : (IF Dev(j) = Dev(r) /\ conf[j].srq THEN TRUE ELSE srqReq[j])
                           \in BOOLEAN
    OBVIOUS
  <1>2. QED
    BY <1>1, Zenon DEF RequestAll

(* What thisRecord() computes has the types of the fields it is kept in.   *)
LEMMA DecisionType ==
    ASSUME NEW c \in Settings, NEW next \in Nat, NEW num \in Int,
           NEW req \in BOOLEAN, NEW now \in Nat
    PROVE  /\ NextRuntimeAfter(c, next, num, req, now) \in Nat
           /\ NumberAfter(c, next, num, req, now) \in Int
  BY DEF NextRuntimeAfter, NumberAfter, Armed, Arms, NextSlot, Fires, Wanted,
         SlotPassed, Settings

LEMMA InitType == Init => TypeInv
  <1> SUFFICES ASSUME Init PROVE TypeInv
    OBVIOUS
  <1>1. \A r \in Rec : conf[r].number \in Int
    BY ConfType DEF Init, Settings
  <1>2. number \in [Rec -> Int] /\ conf \in Confs
    BY <1>1 DEF Init
  <1>3. srqReq \in [Rec -> BOOLEAN] /\ rqs \in [Device -> BOOLEAN]
    BY DEF Init
  <1>4. wire \in [Device -> {"quiet", "data", "closed"}]
    BY DEF Init
  <1>5. /\ nextRuntime \in [Rec -> Nat]
        /\ sent \in [Rec -> 0..MaxCount] /\ received \in [Rec -> 0..MaxCount]
        /\ timeouts \in [Rec -> 0..MaxCount] /\ checked \in [Rec -> 0..MaxCount]
        /\ sumErrors \in [Rec -> 0..MaxCount]
    BY BoundsAssumption DEF Init
  <1>6. record \in 1..(NRecords + 1) /\ rxFrom \in 0..NRecords
    BY NRecordsAssumption DEF Init
  <1>7. timeNow \in Nat \ {0} /\ clock \in Nat \ {0} /\ exitSig \in {0, -1}
    BY DEF Init
  <1>8. /\ pc \in Locations /\ pc \notin {"act", "recv"} /\ cont \in BOOLEAN
        /\ recordAction = {}
    BY DEF Init, Locations
  <1>9. TypeOK
    BY <1>2, <1>3, <1>4, <1>5, <1>6, <1>7, <1>8, Zenon DEF TypeOK
  <1>10. QED
    BY <1>8, <1>9 DEF TypeInv, LoopOK

LEMMA StepType == TypeInv /\ [Next]_vars => TypeInv'
  <1> SUFFICES ASSUME TypeInv, [Next]_vars PROVE TypeInv'
    OBVIOUS
  <1> USE NRecordsAssumption DEF TypeInv
  <1>1. CASE StartLoop
    BY <1>1 DEF StartLoop, TypeOK, LoopOK, Locations, schedule, stats, outside
  <1>2. CASE BeginPass
    BY <1>2 DEF BeginPass, TypeOK, LoopOK, Locations, stats, outside
  <1>3. CASE LeaveLoop
    BY <1>3 DEF LeaveLoop, TypeOK, LoopOK, Locations, schedule, stats, loop, outside
  <1>4. CASE SkipPoll
    BY <1>4 DEF SkipPoll, TypeOK, LoopOK, Locations, schedule, stats, outside, Rec
  <1>5. CASE PollAnswered
    <2>1. srqReq' \in [Rec -> BOOLEAN]
      <3>1. srqReq' = srqReq \/ srqReq' = RequestAll(record)
        BY <1>5, Zenon DEF PollAnswered
      <3>2. QED
        BY <1>5, <3>1, RequestType, Zenon DEF PollAnswered, TypeOK
    <2>2. rqs' \in [Device -> BOOLEAN]
      BY <1>5, Zenon DEF PollAnswered, TypeOK
    <2>3. /\ record' = record + 1 /\ record \in Rec /\ pc = "service"
          /\ UNCHANGED <<conf, nextRuntime, number, stats, pc, timeNow,
                         recordAction, cont, rxFrom, exitSig, clock, wire>>
      BY <1>5 DEF PollAnswered
    <2>4. QED
      BY <2>1, <2>2, <2>3 DEF TypeOK, LoopOK, Locations, stats, Rec
  <1>6. CASE PollFails
    <2>1. srqReq' \in [Rec -> BOOLEAN]
      <3>1. srqReq' = srqReq \/ srqReq' = RequestAll(record)
        BY <1>6, Zenon DEF PollFails
      <3>2. QED
        <4>1. srqReq \in [Rec -> BOOLEAN]
          BY Zenon DEF TypeOK
        <4>2. record \in Rec
          BY <1>6, Zenon DEF PollFails
        <4>3. RequestAll(record) \in [Rec -> BOOLEAN]
          BY <4>1, <4>2, RequestType, Zenon
        <4>4. QED
          BY <3>1, <4>1, <4>3, Zenon
    <2>2. /\ record' = record + 1 /\ record \in Rec /\ pc = "service"
          /\ UNCHANGED <<conf, nextRuntime, number, stats, pc, timeNow,
                         recordAction, cont, rxFrom, exitSig, outside>>
      BY <1>6, Zenon DEF PollFails
    <2>3. QED
      BY <2>1, <2>2 DEF TypeOK, LoopOK, Locations, stats, outside, Rec
  <1>7. CASE StampPass
    BY <1>7 DEF StampPass, TypeOK, LoopOK, Locations, schedule, stats, outside
  <1>8. CASE Decide
    <2> DEFINE c == conf[record]
    <2>1. record \in Rec /\ c \in Settings /\ timeNow \in Nat
      BY <1>8, ConfType DEF Decide, TypeOK
    <2>2. nextRuntime' \in [Rec -> Nat]
      BY <1>8, <2>1, DecisionType DEF Decide, TypeOK
    <2>3. number' \in [Rec -> Int]
      BY <1>8, <2>1, DecisionType DEF Decide, TypeOK
    <2>4. PICK a \in SUBSET {"clear", "send", "read"} : Proceed(a)
      <3>1. \A avail \in BOOLEAN : ActionsOf(c, avail) \in SUBSET {"clear", "send", "read"}
        BY DEF ActionsOf
      <3>2. DataAvailable(record) \subseteq BOOLEAN
        BY DEF DataAvailable
      <3>3. QED
        BY <1>8, <3>1, <3>2 DEF Decide
    <2>5. QED
      BY <1>8, <2>1, <2>2, <2>3, <2>4, ProceedType
      DEF Decide, TypeOK, LoopOK, Locations, stats, outside
  <1>9. CASE ClearDevice
    <2>1. record \in Rec
      BY <1>9 DEF ClearDevice, LoopOK
    <2>2. (recordAction \ {"clear"}) \in SUBSET {"clear", "send", "read"}
      BY DEF TypeOK
    <2>3. QED
      BY <1>9, <2>1, <2>2, ProceedType
      DEF ClearDevice, TypeOK, LoopOK, Locations, schedule, stats, outside
  <1>10. CASE ClearFails
    BY <1>10 DEF ClearFails, TypeOK, LoopOK, Locations, schedule, stats, loop, outside
  <1>11. CASE SendMessage
    <2>1. record \in Rec
      BY <1>11 DEF SendMessage, LoopOK
    <2>2. (recordAction \ {"send"}) \in SUBSET {"clear", "send", "read"}
      BY DEF TypeOK
    <2>3. sent' \in [Rec -> 0..MaxCount]
      BY <1>11, <2>1, BumpType DEF SendMessage, TypeOK
    <2>4. QED
      BY <1>11, <2>1, <2>2, <2>3, ProceedType
      DEF SendMessage, TypeOK, LoopOK, Locations, schedule, outside
  <1>12. CASE ReadSerial \/ ReadGpib \/ ReadNidaq \/ ReadCommand
    <2>1. record \in Rec /\ Proceed({})
      BY <1>12 DEF ReadSerial, ReadGpib, ReadNidaq, ReadCommand, Reads, LoopOK
    <2>2. PICK from \in 0..NRecords, timedOut \in BOOLEAN : Account(from, timedOut)
      <3>1. 0 \in 0..NRecords /\ record \in 0..NRecords /\ rxFrom \in 0..NRecords
        BY <2>1 DEF Rec, TypeOK
      <3>2. QED
        BY <1>12, <3>1 DEF ReadSerial, ReadGpib, ReadNidaq, ReadCommand
    <2>3. UNCHANGED <<conf, schedule, sent, timeNow, cont, exitSig, outside>>
      BY <1>12 DEF ReadSerial, ReadGpib, ReadNidaq, ReadCommand, Reads
    <2>4. QED
      BY <2>1, <2>2, <2>3, AccountType, ProceedType
      DEF TypeOK, LoopOK, Locations, schedule, outside
  <1>13. CASE ReadIp
    BY <1>13 DEF ReadIp, Reads, TypeOK, LoopOK, Locations, schedule, outside
  <1>14. CASE ReceiveIp
    <2>1. record \in Rec /\ record \in 0..NRecords /\ rxFrom \in 0..NRecords
      BY <1>14 DEF ReceiveIp, LoopOK, TypeOK, Rec
    <2>2. wire' \in [Device -> {"quiet", "data", "closed"}]
      BY <1>14 DEF ReceiveIp, TypeOK
    <2>3. UNCHANGED <<conf, schedule, sent, timeNow, cont, exitSig, clock, rqs>>
      BY <1>14 DEF ReceiveIp
    <2>4. CASE \E from \in 0..NRecords, timedOut \in BOOLEAN :
                  Account(from, timedOut) /\ Proceed({})
      BY <2>1, <2>2, <2>3, <2>4, AccountType, ProceedType
      DEF TypeOK, LoopOK, Locations, schedule
    <2>5. CASE /\ rxFrom' = record
               /\ UNCHANGED <<received, timeouts, checked, sumErrors, pc,
                              record, recordAction>>
      BY <2>1, <2>2, <2>3, <2>5 DEF TypeOK, LoopOK, Locations, schedule
    <2>6. QED
      BY <1>14, <2>1, <2>4, <2>5 DEF ReceiveIp
  <1>15. CASE EndPass
    BY <1>15 DEF EndPass, TypeOK, LoopOK, Locations, schedule, stats, outside
  <1>16. CASE Quit
    BY <1>16 DEF Quit, TypeOK, LoopOK, Locations, schedule, stats, loop, outside
  <1>17. CASE CtrlHandler
    BY <1>17 DEF CtrlHandler, TypeOK, LoopOK, Locations, schedule, stats, loop, outside
  <1>18. CASE Tick
    BY <1>18 DEF Tick, TypeOK, LoopOK, schedule, stats, loop
  <1>19. CASE \E d \in Device : RaiseSrq(d) \/ Arrive(d)
    <2>1. PICK d \in Device : RaiseSrq(d) \/ Arrive(d)
      BY <1>19
    <2>2. CASE RaiseSrq(d)
      BY <2>2 DEF RaiseSrq, TypeOK, LoopOK, schedule, stats, loop
    <2>3. CASE Arrive(d)
      <3>1. wire' \in [Device -> {"quiet", "data", "closed"}]
        BY <2>3 DEF Arrive, TypeOK
      <3>2. QED
        BY <2>3, <3>1 DEF Arrive, TypeOK, LoopOK, schedule, stats, loop
    <2>4. QED
      BY <2>1, <2>2, <2>3
  <1>20. CASE UNCHANGED vars
    BY <1>20 DEF vars, TypeOK, LoopOK, schedule, stats, loop, outside
  <1>21. QED
    BY <1>1, <1>2, <1>3, <1>4, <1>5, <1>6, <1>7, <1>8, <1>9, <1>10, <1>11,
       <1>12, <1>13, <1>14, <1>15, <1>16, <1>17, <1>18, <1>19, <1>20
    DEF Next, Program, Environment, Read, Terminated

(* Every variable of the main loop keeps its type (TypeOK), in every       *)
(* behaviour, with every configuration.                                    *)
THEOREM TypeCorrect == Spec => [](TypeOK /\ LoopOK)
  BY InitType, StepType, PTL DEF Spec, TypeInv

-----------------------------------------------------------------------------
(***************************************************************************)
(* Four kinds of step change what a record may do or has done: its         *)
(* decision, the clearing of its device, the sending of its message and    *)
(* the end of its read.  All others are calm.                              *)
(***************************************************************************)
Calm == /\ UNCHANGED <<conf, nextRuntime, number, sent, recordAction>>
        /\ record' = record \/ recordAction = {}

ReadEnded == /\ recordAction = {"read"} /\ recordAction' = {}
             /\ UNCHANGED <<conf, nextRuntime, number, sent, timeNow, srqReq>>

(* Every step is calm or of one of the four kinds.                         *)
LEMMA StepKinds ==
    ASSUME TypeInv, [Next]_vars
    PROVE  Calm \/ Decide \/ ClearDevice \/ SendMessage \/ ReadEnded
  <1> USE DEF Calm, TypeInv, LoopOK
  <1>1. CASE StartLoop
    BY <1>1 DEF StartLoop, schedule, stats
  <1>2. CASE BeginPass
    BY <1>2 DEF BeginPass, stats
  <1>3. CASE LeaveLoop \/ Quit \/ ClearFails
    BY <1>3 DEF LeaveLoop, Quit, ClearFails, schedule, stats, loop
  <1>4. CASE SkipPoll \/ StampPass
    BY <1>4 DEF SkipPoll, StampPass, schedule, stats
  <1>5. CASE PollAnswered \/ PollFails
    BY <1>5, Zenon DEF PollAnswered, PollFails, stats
  <1>6. CASE ReadSerial \/ ReadGpib \/ ReadNidaq \/ ReadCommand
    BY <1>6 DEF ReadSerial, ReadGpib, ReadNidaq, ReadCommand, Reads, Proceed,
       ReadEnded, schedule
  <1>7. CASE ReadIp
    BY <1>7 DEF ReadIp, Reads, schedule
  <1>8. CASE ReceiveIp
    BY <1>8 DEF ReceiveIp, Proceed, ReadEnded, schedule
  <1>9. CASE EndPass
    BY <1>9 DEF EndPass, schedule, stats
  <1>10. CASE CtrlHandler \/ Tick \/ \E d \in Device : RaiseSrq(d) \/ Arrive(d)
    BY <1>10 DEF CtrlHandler, Tick, RaiseSrq, Arrive, schedule, stats, loop
  <1>11. CASE UNCHANGED vars
    BY <1>11 DEF vars, schedule, stats, loop
  <1>12. QED
    BY <1>1, <1>2, <1>3, <1>4, <1>5, <1>6, <1>7, <1>8, <1>9, <1>10, <1>11
    DEF Next, Program, Environment, Read, Terminated

(* A decision: what it stores for the record, and what it grants.          *)
Decision(c, r) ==
    /\ recordAction = {} /\ r = record /\ r \in Rec /\ c = conf[r]
    /\ UNCHANGED <<conf, sent, srqReq, timeNow>>
    /\ nextRuntime' = [nextRuntime EXCEPT ![r] =
           NextRuntimeAfter(c, nextRuntime[r], number[r], srqReq[r], timeNow)]
    /\ number' = [number EXCEPT ![r] =
           NumberAfter(c, nextRuntime[r], number[r], srqReq[r], timeNow)]
    /\ recordAction' # {} =>
           record' = r /\ Fires(c, nextRuntime[r], number[r], srqReq[r], timeNow)
    /\ c.send =>
           ("send" \in recordAction'
               <=> Fires(c, nextRuntime[r], number[r], srqReq[r], timeNow))

LEMMA DecideIsDecision ==
    ASSUME TypeInv, Decide
    PROVE  Decision(conf[record], record)
  <1> DEFINE c    == conf[record]
             runs == Fires(c, nextRuntime[record], number[record],
                           srqReq[record], timeNow)
  <1>1. recordAction = {} /\ record \in Rec
    BY DEF Decide, TypeInv, LoopOK
  <1>2. UNCHANGED <<conf, sent, srqReq, timeNow>>
    BY DEF Decide, stats
  <1>3. /\ nextRuntime' = [nextRuntime EXCEPT ![record] =
              NextRuntimeAfter(c, nextRuntime[record], number[record],
                               srqReq[record], timeNow)]
        /\ number' = [number EXCEPT ![record] =
              NumberAfter(c, nextRuntime[record], number[record],
                          srqReq[record], timeNow)]
    BY DEF Decide
  <1>4. \/ ~runs /\ Proceed({})
        \/ runs /\ \E avail \in BOOLEAN : Proceed(ActionsOf(c, avail))
    <2>1. DataAvailable(record) \subseteq BOOLEAN
      BY DEF DataAvailable
    <2>2. QED
      BY <2>1 DEF Decide
  <1>5. recordAction' # {} => record' = record /\ runs
    BY <1>4 DEF Proceed
  <1>6. \A avail \in BOOLEAN : c.send => "send" \in ActionsOf(c, avail)
    BY DEF ActionsOf
  <1>7. c.send => ("send" \in recordAction' <=> runs)
    BY <1>4, <1>6 DEF Proceed
  <1>8. QED
    BY <1>1, <1>2, <1>3, <1>5, <1>7 DEF Decision

-----------------------------------------------------------------------------
(***************************************************************************)
(* The message count.                                                      *)
(***************************************************************************)
BudgetOf(r) ==
    conf[r].send /\ conf[r].number \in 0..MaxCount =>
        number[r] >= 0 /\ Granted(r) + number[r] = conf[r].number

UnlimitedOf(r) == conf[r].number < 0 => number[r] = conf[r].number

BudgetInv == \A r \in Rec : BudgetOf(r) /\ UnlimitedOf(r)

LEMMA InitBudget == Init => BudgetInv
  <1> SUFFICES ASSUME Init, NEW r \in Rec PROVE BudgetOf(r) /\ UnlimitedOf(r)
    BY DEF BudgetInv
  <1>1. conf[r].number \in Int
    BY ConfType DEF Init, Settings
  <1>2. sent[r] = 0 /\ number[r] = conf[r].number /\ recordAction = {}
    BY DEF Init
  <1>3. QED
    BY <1>1, <1>2 DEF BudgetOf, UnlimitedOf, Granted

LEMMA StepBudget == TypeInv /\ BudgetInv /\ [Next]_vars => BudgetInv'
  <1> SUFFICES ASSUME TypeInv, BudgetInv, [Next]_vars, NEW r \in Rec
               PROVE  BudgetOf(r)' /\ UnlimitedOf(r)'
    BY DEF BudgetInv
  <1>1. BudgetOf(r) /\ UnlimitedOf(r)
    BY DEF BudgetInv
  <1>2. conf[r] \in Settings /\ number[r] \in Int /\ sent[r] \in 0..MaxCount
    BY ConfType DEF TypeInv, TypeOK
  <1> USE BoundsAssumption DEF BudgetOf, UnlimitedOf, Granted
  <1>3. CASE Calm
    BY <1>1, <1>3 DEF Calm
  <1>4. CASE Decide
    <2> DEFINE c == conf[record]
    <2>1. Decision(c, record)
      BY <1>4, DecideIsDecision
    <2>2. CASE r # record
      <3>1. number'[r] = number[r] /\ sent'[r] = sent[r] /\ conf' = conf
        BY <2>1, <2>2 DEF Decision, TypeInv, TypeOK
      <3>2. recordAction = {} /\ (recordAction' # {} => record' = record)
        BY <2>1 DEF Decision
      <3>3. QED
        BY <1>1, <2>2, <3>1, <3>2
    <2>3. CASE r = record
      <3> DEFINE runs == Fires(c, nextRuntime[r], number[r], srqReq[r], timeNow)
      <3>1. /\ number'[r] = NumberAfter(c, nextRuntime[r], number[r], srqReq[r], timeNow)
            /\ sent'[r] = sent[r] /\ conf' = conf /\ recordAction = {}
        BY <2>1, <2>3 DEF Decision, TypeInv, TypeOK
      <3>2. /\ recordAction' # {} => record' = r
            /\ c.send => ("send" \in recordAction' <=> runs)
        BY <2>1, <2>3 DEF Decision
      <3>3. number'[r] = IF runs /\ number[r] > 0 THEN number[r] - 1 ELSE number[r]
        BY <1>2, <3>1 DEF NumberAfter, Fires
      <3>4. runs => number[r] # 0
        BY DEF Fires
      <3>5. c.send => Granted(r)' = sent[r] + IF runs THEN 1 ELSE 0
        BY <3>1, <3>2
      <3>6. Granted(r) = sent[r]
        BY <1>2, <3>1
      <3> HIDE DEF runs, Granted
      <3>7. QED
        BY <1>1, <1>2, <2>3, <3>1, <3>3, <3>4, <3>5, <3>6
    <2>4. QED
      BY <2>2, <2>3
  <1>5. CASE ClearDevice
    <2>1. UNCHANGED <<conf, number, sent>> /\ "clear" \in recordAction
          /\ recordAction' = recordAction \ {"clear"}
          /\ (recordAction' # {} => record' = record)
      BY <1>5 DEF ClearDevice, Proceed, schedule, stats
    <2>2. QED
      BY <1>1, <1>2, <2>1
  <1>6. CASE SendMessage
    <2>1. /\ UNCHANGED <<conf, number>> /\ "send" \in recordAction /\ record \in Rec
          /\ recordAction' = recordAction \ {"send"} /\ sent' = Bump(sent, record)
      BY <1>6 DEF SendMessage, Proceed, schedule, TypeInv, LoopOK
    <2>2. CASE r # record
      <3>1. sent'[r] = sent[r]
        BY <2>1, <2>2 DEF Bump, TypeInv, TypeOK
      <3>2. QED
        BY <1>1, <1>2, <2>1, <2>2, <3>1
    <2>3. CASE r = record
      <3>1. sent'[r] = IF sent[r] < MaxCount THEN sent[r] + 1 ELSE sent[r]
        BY <2>1, <2>3 DEF Bump, TypeInv, TypeOK
      <3>2. QED
        BY <1>1, <1>2, <2>1, <2>3, <3>1 DEF Settings
    <2>4. QED
      BY <2>2, <2>3
  <1>7. CASE ReadEnded
    BY <1>1, <1>2, <1>7 DEF ReadEnded
  <1>8. QED
    BY <1>3, <1>4, <1>5, <1>6, <1>7, StepKinds

(* No record sends more messages than -n allows, and each message it sends *)
(* is taken off its count exactly once (BudgetKept), however requests,     *)
(* slots and the other records interleave.                                 *)
THEOREM BudgetIsKept == Spec => []BudgetKept
  <1>1. Init => TypeInv /\ BudgetInv
    BY InitType, InitBudget
  <1>2. TypeInv /\ BudgetInv /\ [Next]_vars => (TypeInv /\ BudgetInv)'
    BY StepType, StepBudget
  <1>3. BudgetInv => BudgetKept
    BY DEF BudgetInv, BudgetOf, BudgetKept
  <1>4. QED
    BY <1>1, <1>2, <1>3, PTL DEF Spec

-----------------------------------------------------------------------------
(***************************************************************************)
(* The schedule: the time stamp of a pass never goes back, a record that   *)
(* does not wait for requests is armed only after its first time, and a    *)
(* slot is taken only when it has passed.                                  *)
(***************************************************************************)
ArmedAfterFirst(r) ==
    ~conf[r].srq /\ nextRuntime[r] > 0 => conf[r].first < timeNow

EarlyOf(r) ==
    ~conf[r].srq =>
        nextRuntime[r] < timeNow + IF conf[r].period > 0 THEN conf[r].period ELSE 1

RequestOf(r) == srqReq[r] => conf[r].srq

ScheduleInv == /\ timeNow <= clock
               /\ InsideWindow
               /\ \A r \in Rec : ArmedAfterFirst(r) /\ EarlyOf(r) /\ RequestOf(r)

(* Time stamps do not go back, and do not run ahead of the clock.          *)
LEMMA TimeStep ==
    ASSUME TypeInv, timeNow <= clock, [Next]_vars
    PROVE  timeNow <= timeNow' /\ timeNow' <= clock'
  <1> USE DEF TypeInv, TypeOK
  <1>1. CASE StampPass
    BY <1>1 DEF StampPass, outside
  <1>2. CASE Tick
    BY <1>2 DEF Tick, loop
  <1>3. CASE UNCHANGED <<timeNow, clock>>
    BY <1>3
  <1>4. CASE PollAnswered \/ PollFails
    BY <1>4, Zenon, <1>3 DEF PollAnswered, PollFails, outside
  <1>5. CASE Read
    BY <1>3, <1>5 DEF Read, ReadSerial, ReadGpib, ReadNidaq, ReadCommand, ReadIp,
       ReceiveIp, Reads, outside
  <1>6. QED
    BY <1>1, <1>2, <1>3, <1>4, <1>5
    DEF Next, Program, Environment, Terminated, StartLoop, BeginPass, LeaveLoop,
        SkipPoll, Decide, ClearDevice, ClearFails, SendMessage, EndPass, Quit,
        CtrlHandler, RaiseSrq, Arrive, vars, loop, outside

(* Requests change only while no record is at work, and only those of -u   *)
(* records are set.                                                        *)
LEMMA RequestStep ==
    ASSUME TypeInv, [Next]_vars
    PROVE  \/ UNCHANGED srqReq
           \/ /\ recordAction = {} /\ recordAction' = {} /\ conf' = conf
              /\ \A r \in Rec : srqReq'[r] => srqReq[r] \/ conf[r].srq
  <1> USE DEF TypeInv, LoopOK
  <1>1. CASE BeginPass
    BY <1>1 DEF BeginPass
  <1>2. CASE PollAnswered \/ PollFails
    <2>1. srqReq' = srqReq \/ srqReq' = RequestAll(record)
      BY <1>2, Zenon DEF PollAnswered, PollFails
    <2>2. recordAction = {} /\ UNCHANGED <<recordAction, conf>>
      BY <1>2, Zenon DEF PollAnswered, PollFails
    <2>3. CASE srqReq' = RequestAll(record)
      <3>1. \A r \in Rec : srqReq'[r] => srqReq[r] \/ conf[r].srq
        BY <2>3, Zenon DEF RequestAll
      <3>2. QED
        BY <2>2, <3>1
    <2>4. QED
      BY <2>1, <2>3
  <1>3. CASE Read
    BY <1>3 DEF Read, ReadSerial, ReadGpib, ReadNidaq, ReadCommand, ReadIp,
       ReceiveIp, Reads, schedule
  <1>4. QED
    BY <1>1, <1>2, <1>3
    DEF Next, Program, Environment, Terminated, StartLoop, LeaveLoop, SkipPoll,
        StampPass, Decide, ClearDevice, ClearFails, SendMessage, EndPass, Quit,
        CtrlHandler, Tick, RaiseSrq, Arrive, vars, schedule

(* A pass is stamped only while no record is at work.                      *)
LEMMA StampIdle ==
    ASSUME TypeInv, [Next]_vars
    PROVE  timeNow' = timeNow \/ recordAction = {}
  <1> USE DEF TypeInv, LoopOK
  <1>1. CASE PollAnswered \/ PollFails
    BY <1>1, Zenon DEF PollAnswered, PollFails
  <1>2. CASE Read
    BY <1>2 DEF Read, ReadSerial, ReadGpib, ReadNidaq, ReadCommand, ReadIp,
       ReceiveIp, Reads
  <1>3. QED
    BY <1>1, <1>2
    DEF Next, Program, Environment, Terminated, StartLoop, BeginPass, LeaveLoop,
        SkipPoll, StampPass, Decide, ClearDevice, ClearFails, SendMessage, EndPass,
        Quit, CtrlHandler, Tick, RaiseSrq, Arrive, vars, loop

LEMMA InitSchedule == Init => ScheduleInv
  <1> SUFFICES ASSUME Init PROVE ScheduleInv
    OBVIOUS
  <1>1. \A r \in Rec : conf[r].period \in Nat
    BY ConfType DEF Init, Settings
  <1>2. \A r \in Rec : nextRuntime[r] = 0 /\ ~srqReq[r]
    BY DEF Init
  <1>3. timeNow = 1 /\ clock = 1 /\ recordAction = {}
    BY DEF Init
  <1>4. QED
    BY <1>1, <1>2, <1>3
    DEF ScheduleInv, InsideWindow, ArmedAfterFirst, EarlyOf, RequestOf

(* What a decision does to the schedule of its record.                     *)
LEMMA DecisionKeepsSchedule ==
    ASSUME NEW c \in Settings, NEW next \in Nat, NEW num \in Int,
           NEW now \in Nat \ {0}, ~c.srq,
           next > 0 => c.first < now,
           next < now + IF c.period > 0 THEN c.period ELSE 1,
           NEW after, after = NextRuntimeAfter(c, next, num, FALSE, now)
    PROVE  /\ after > 0 => c.first < now
           /\ after < now + IF c.period > 0 THEN c.period ELSE 1
           /\ Fires(c, next, num, FALSE, now) =>
                  c.first < now /\ (c.last = 0 \/ now <= c.last)
  <1> USE DEF Settings, NextRuntimeAfter, NextSlot, Fires, Wanted, SlotPassed,
              Armed, Arms
  <1>1. CASE Fires(c, next, num, FALSE, now)
    BY <1>1
  <1>2. CASE ~Fires(c, next, num, FALSE, now)
    BY <1>2
  <1>3. QED
    BY <1>1, <1>2

LEMMA StepSchedule == TypeInv /\ ScheduleInv /\ [Next]_vars => ScheduleInv'
  <1> SUFFICES ASSUME TypeInv, ScheduleInv, [Next]_vars PROVE ScheduleInv'
    OBVIOUS
  <1>1. /\ timeNow \in Nat \ {0} /\ timeNow' \in Nat \ {0} /\ clock' \in Nat
        /\ timeNow <= timeNow' /\ timeNow' <= clock'
    BY TimeStep, StepType DEF TypeInv, TypeOK, ScheduleInv
  <1>2. ASSUME NEW r \in Rec
        PROVE  /\ conf[r] \in Settings /\ nextRuntime[r] \in Nat
               /\ number[r] \in Int /\ srqReq[r] \in BOOLEAN
               /\ ArmedAfterFirst(r) /\ EarlyOf(r) /\ RequestOf(r)
    BY <1>2, ConfType DEF TypeInv, TypeOK, ScheduleInv
  <1>3. ASSUME NEW r \in Rec PROVE RequestOf(r)'
    <2>1. conf' = conf
      BY StepKinds DEF Calm, Decide, ClearDevice, SendMessage, ReadEnded
    <2>2. QED
      BY <1>2, <2>1, RequestStep DEF RequestOf
  <1>4. CASE UNCHANGED <<conf, nextRuntime, recordAction>>
             /\ (record' = record \/ recordAction = {})
    <2>1. ASSUME NEW r \in Rec PROVE ArmedAfterFirst(r)' /\ EarlyOf(r)'
      BY <1>1, <1>2, <1>4, <2>1 DEF ArmedAfterFirst, EarlyOf, Settings
    <2>2. InsideWindow'
      <3>1. CASE recordAction' = {}
        BY <3>1 DEF InsideWindow
      <3>2. CASE recordAction' # {}
        <4>1. record' = record /\ record \in Rec /\ srqReq' = srqReq
          BY <1>4, <3>2, RequestStep DEF TypeInv, LoopOK
        <4>2. timeNow' = timeNow
          BY <1>4, <3>2, StampIdle
        <4>3. QED
          BY <1>4, <3>2, <4>1, <4>2 DEF InsideWindow, ScheduleInv
      <3>3. QED
        BY <3>1, <3>2
    <2>3. QED
      BY <1>1, <1>3, <2>1, <2>2 DEF ScheduleInv
  <1>5. CASE Decide
    <2> DEFINE c == conf[record]
    <2>1. Decision(c, record)
      BY <1>5, DecideIsDecision
    <2>2. record \in Rec /\ UNCHANGED <<conf, srqReq, timeNow>>
      BY <2>1 DEF Decision
    <2>3. ASSUME NEW r \in Rec, ~conf[r].srq
          PROVE  /\ nextRuntime'[r] > 0 => conf[r].first < timeNow
                 /\ nextRuntime'[r] < timeNow + IF conf[r].period > 0
                                                THEN conf[r].period ELSE 1
      <3>1. CASE r # record
        <4>1. nextRuntime'[r] = nextRuntime[r]
          BY <2>1, <3>1 DEF Decision, TypeInv, TypeOK
        <4>2. QED
          BY <1>2, <2>3, <4>1 DEF ArmedAfterFirst, EarlyOf
      <3>2. CASE r = record
        <4>1. nextRuntime'[r] =
                NextRuntimeAfter(conf[r], nextRuntime[r], number[r], FALSE, timeNow)
          <5>1. srqReq[r] = FALSE
            BY <1>2, <2>3 DEF RequestOf
          <5>2. QED
            BY <2>1, <3>2, <5>1 DEF Decision, TypeInv, TypeOK
        <4>2. QED
          BY <1>1, <1>2, <2>3, <4>1, DecisionKeepsSchedule
          DEF ArmedAfterFirst, EarlyOf
      <3>3. QED
        BY <3>1, <3>2
    <2>4. \A r \in Rec : ArmedAfterFirst(r)' /\ EarlyOf(r)'
      BY <2>2, <2>3 DEF ArmedAfterFirst, EarlyOf
    <2>5. InsideWindow'
      <3> SUFFICES ASSUME recordAction' # {}, ~srqReq'[record']
                   PROVE  /\ conf'[record'].first < timeNow'
                          /\ \/ conf'[record'].last = 0
                             \/ timeNow' <= conf'[record'].last
        BY DEF InsideWindow
      <3>1. record' = record
            /\ Fires(c, nextRuntime[record], number[record], srqReq[record], timeNow)
        BY <2>1 DEF Decision
      <3>2. srqReq[record] = FALSE
        BY <1>2, <2>2, <3>1
      <3>3. /\ 0 < nextRuntime[record] /\ ~c.srq
            /\ c.last = 0 \/ timeNow <= c.last
        BY <3>1, <3>2 DEF Fires, Wanted, SlotPassed
      <3>4. c.first < timeNow
        BY <1>2, <2>2, <3>3 DEF ArmedAfterFirst
      <3>5. QED
        BY <2>2, <3>1, <3>3, <3>4
    <2>6. QED
      BY <1>1, <1>3, <2>4, <2>5 DEF ScheduleInv
  <1>6. CASE ClearDevice \/ SendMessage \/ ReadEnded
    <2>1. /\ UNCHANGED <<conf, nextRuntime, timeNow, srqReq>>
          /\ recordAction # {} /\ (recordAction' # {} => record' = record)
      BY <1>6 DEF ClearDevice, SendMessage, ReadEnded, Proceed, schedule
    <2>2. \A r \in Rec : ArmedAfterFirst(r)' /\ EarlyOf(r)'
      BY <1>2, <2>1 DEF ArmedAfterFirst, EarlyOf
    <2>3. InsideWindow'
      BY <2>1 DEF InsideWindow, ScheduleInv
    <2>4. QED
      BY <1>1, <1>3, <2>2, <2>3 DEF ScheduleInv
  <1>7. QED
    BY <1>4, <1>5, <1>6, StepKinds DEF Calm

LEMMA ScheduleInvariant == Spec => [](TypeInv /\ ScheduleInv)
  <1>1. Init => TypeInv /\ ScheduleInv
    BY InitType, InitSchedule
  <1>2. TypeInv /\ ScheduleInv /\ [Next]_vars => (TypeInv /\ ScheduleInv)'
    BY StepType, StepSchedule
  <1>3. QED
    BY <1>1, <1>2, PTL DEF Spec

(* A record runs without a service request only inside the window of its   *)
(* first and last times (InsideWindow), though it was armed in an earlier  *)
(* pass and acts after the pass's time stamp was taken.                    *)
THEOREM WindowIsKept == Spec => []InsideWindow
  <1>1. ScheduleInv => InsideWindow
    BY DEF ScheduleInv
  <1>2. QED
    BY <1>1, ScheduleInvariant, PTL

(* A record's next slot is never more than a period ahead of the pass      *)
(* (NeverEarly): what it runs for has passed, however late it catches up.  *)
THEOREM NothingEarly == Spec => []NeverEarly
  <1>1. ScheduleInv => NeverEarly
    BY DEF ScheduleInv, EarlyOf, NeverEarly
  <1>2. QED
    BY <1>1, ScheduleInvariant, PTL

-----------------------------------------------------------------------------
(***************************************************************************)
(* The grid of slots.                                                      *)
(***************************************************************************)
HasGrid(r) == /\ conf[r].send /\ ~conf[r].srq
              /\ conf[r].first > 0 /\ conf[r].period > 0

GridOf(r) ==
    HasGrid(r) /\ sent[r] < MaxCount =>
        \/ nextRuntime[r] = 0 /\ Granted(r) = 0
        \/ nextRuntime[r] = conf[r].first + Granted(r) * conf[r].period

GridInv == \A r \in Rec : GridOf(r)

LEMMA NextMultiple ==
    ASSUME NEW k \in Nat, NEW p \in Nat
    PROVE  (k + 1) * p = k * p + p
  OBVIOUS

LEMMA StepGrid ==
    TypeInv /\ ScheduleInv /\ GridInv /\ [Next]_vars => GridInv'
  <1> SUFFICES ASSUME TypeInv, ScheduleInv, GridInv, [Next]_vars,
                      NEW r \in Rec
               PROVE  GridOf(r)'
    BY DEF GridInv
  <1>1. GridOf(r)
    BY DEF GridInv
  <1>2. /\ conf[r] \in Settings /\ sent[r] \in 0..MaxCount /\ MaxCount \in Nat
        /\ number[r] \in Int /\ nextRuntime[r] \in Nat /\ timeNow \in Nat
    BY ConfType, BoundsAssumption DEF TypeInv, TypeOK
  <1>3. CASE Calm
    BY <1>1, <1>3 DEF Calm, GridOf, HasGrid, Granted
  <1>4. CASE Decide
    <2> DEFINE c == conf[record]
    <2>1. Decision(c, record)
      BY <1>4, DecideIsDecision
    <2>2. CASE r # record
      BY <1>1, <2>1, <2>2 DEF Decision, TypeInv, TypeOK, GridOf, HasGrid, Granted
    <2>3. CASE r = record /\ HasGrid(r)
      <3> DEFINE runs  == Fires(c, nextRuntime[r], number[r], FALSE, timeNow)
                 after == nextRuntime'[r]
      <3>1. srqReq[r] = FALSE
        BY <2>3 DEF ScheduleInv, RequestOf, HasGrid, TypeInv, TypeOK
      <3>2. /\ sent'[r] = sent[r] /\ conf' = conf /\ recordAction = {}
            /\ recordAction' # {} => record' = r
            /\ "send" \in recordAction' <=> runs
        BY <2>1, <2>3, <3>1 DEF Decision, TypeInv, TypeOK, HasGrid
      <3>3. /\ runs => nextRuntime[r] > 0 /\ after = nextRuntime[r] + c.period
            /\ ~runs => \/ after = nextRuntime[r]
                        \/ nextRuntime[r] = 0 /\ after = c.first
        <4>1. after = NextRuntimeAfter(c, nextRuntime[r], number[r], FALSE, timeNow)
          BY <2>1, <2>3, <3>1 DEF Decision, TypeInv, TypeOK
        <4>2. c \in Settings /\ ~c.srq /\ c.first > 0 /\ c.period > 0
          BY <1>2, <2>3 DEF HasGrid
        <4> HIDE DEF c, after
        <4>3. QED
          BY <1>2, <4>1, <4>2
          DEF Settings, NextRuntimeAfter, NextSlot, Fires, Wanted, SlotPassed,
              Armed, Arms
      <3>4. /\ Granted(r) = sent[r]
            /\ runs => Granted(r)' = sent[r] + 1
            /\ ~runs => Granted(r)' = sent[r]
        <4> HIDE DEF runs
        <4>1. CASE runs
          BY <1>2, <3>2, <4>1 DEF Granted
        <4>2. CASE ~runs
          BY <1>2, <3>2, <4>2 DEF Granted
        <4>3. Granted(r) = sent[r]
          BY <1>2, <3>2 DEF Granted
        <4>4. QED
          BY <4>1, <4>2, <4>3
      <3>5. HasGrid(r)' <=> HasGrid(r)
        BY <3>2 DEF HasGrid
      <3> HIDE DEF runs, after
      <3>6. CASE runs
        <4>1. (sent[r] + 1) * c.period = sent[r] * c.period + c.period
          BY <1>2, <2>3, NextMultiple DEF Settings
        <4>2. sent[r] * c.period \in Int
          BY <1>2, <2>3 DEF Settings
        <4>3. sent[r] < MaxCount => after = c.first + Granted(r)' * c.period
          BY <1>1, <1>2, <2>3, <3>3, <3>4, <3>6, <4>1, <4>2 DEF GridOf, Settings
        <4>4. QED
          BY <2>3, <3>2, <4>3 DEF GridOf, after
      <3>7. CASE ~runs
        <4>1. Granted(r)' = sent[r]
          BY <1>2, <3>4, <3>7
        <4>2. CASE after = nextRuntime[r]
          BY <1>1, <2>3, <3>2, <3>4, <4>1, <4>2 DEF GridOf, after, HasGrid
        <4>3. CASE nextRuntime[r] = 0 /\ after = c.first
          <5>1. sent[r] < MaxCount => sent[r] = 0
            <6>1. sent[r] * c.period >= 0 /\ c.first > 0
              BY <1>2, <2>3 DEF Settings, HasGrid
            <6>2. QED
              BY <1>1, <1>2, <2>3, <3>4, <4>3, <6>1 DEF GridOf, Settings
          <5>2. sent[r] < MaxCount => after = c.first + sent[r] * c.period
            BY <1>2, <2>3, <4>3, <5>1 DEF Settings
          <5>3. QED
            BY <2>3, <3>2, <4>1, <5>2 DEF GridOf, after
        <4>4. QED
          BY <3>3, <3>7, <4>2, <4>3
      <3>8. QED
        BY <3>6, <3>7
    <2>4. CASE ~HasGrid(r)
      BY <2>1, <2>4 DEF Decision, GridOf, HasGrid
    <2>5. QED
      BY <2>2, <2>3, <2>4
  <1>5. CASE ClearDevice
    <2>1. /\ UNCHANGED <<conf, nextRuntime, sent>> /\ "clear" \in recordAction
          /\ recordAction' = recordAction \ {"clear"}
          /\ (recordAction' # {} => record' = record)
      BY <1>5 DEF ClearDevice, Proceed, schedule, stats
    <2>2. Granted(r)' = Granted(r)
      BY <1>2, <2>1 DEF Granted
    <2>3. QED
      BY <1>1, <2>1, <2>2 DEF GridOf, HasGrid
  <1>6. CASE SendMessage
    <2>1. /\ UNCHANGED <<conf, nextRuntime>> /\ "send" \in recordAction
          /\ recordAction' = recordAction \ {"send"} /\ sent' = Bump(sent, record)
      BY <1>6 DEF SendMessage, Proceed, schedule
    <2>2. sent'[r] < MaxCount => Granted(r)' = Granted(r) /\ sent[r] < MaxCount
      <3>1. sent'[r] = IF r = record /\ sent[r] < MaxCount THEN sent[r] + 1 ELSE sent[r]
        BY <1>2, <2>1 DEF Bump, TypeInv, TypeOK
      <3>2. QED
        BY <1>2, <2>1, <3>1 DEF Granted
    <2>3. QED
      BY <1>1, <2>1, <2>2 DEF GridOf, HasGrid
  <1>7. CASE ReadEnded
    <2>1. Granted(r)' = Granted(r)
      BY <1>2, <1>7 DEF ReadEnded, Granted
    <2>2. QED
      BY <1>1, <1>7, <2>1 DEF ReadEnded, GridOf, HasGrid
  <1>8. QED
    BY <1>3, <1>4, <1>5, <1>6, <1>7, StepKinds

(* The k-th message of a record with a first time and a period belongs to  *)
(* slot first + (k-1)*period (OnGrid): no slot is skipped or served twice, *)
(* and late passes do not make the schedule drift.                         *)
THEOREM GridIsKept == Spec => []OnGrid
  <1>1. Init => TypeInv /\ ScheduleInv /\ GridInv
    <2>1. Init => GridInv
      BY DEF Init, GridInv, GridOf, Granted
    <2>2. QED
      BY <2>1, InitType, InitSchedule
  <1>2. TypeInv /\ ScheduleInv /\ GridInv /\ [Next]_vars
            => (TypeInv /\ ScheduleInv /\ GridInv)'
    BY StepType, StepSchedule, StepGrid
  <1>3. GridInv => OnGrid
    BY DEF GridInv, GridOf, HasGrid, OnGrid
  <1>4. QED
    BY <1>1, <1>2, <1>3, PTL DEF Spec

-----------------------------------------------------------------------------
(***************************************************************************)
(* The end of the program, and the service requests.                       *)
(***************************************************************************)
NothingLeft == \A r \in Rec : ~Active(conf[r], number[r], timeNow)

CompletionInv ==
    (pc = "while" /\ ~cont) \/ (pc = "quit" /\ exitSig = 0) => NothingLeft

LEMMA StepCompletion == TypeInv /\ CompletionInv /\ [Next]_vars => CompletionInv'
  <1> SUFFICES ASSUME TypeInv, CompletionInv, [Next]_vars,
                      (pc' = "while" /\ ~cont') \/ (pc' = "quit" /\ exitSig' = 0)
               PROVE  NothingLeft'
    BY DEF CompletionInv
  <1>1. CASE StartLoop \/ BeginPass
    BY <1>1 DEF StartLoop, BeginPass
  <1>2. CASE LeaveLoop
    <2>1. UNCHANGED <<conf, number, timeNow>> /\ NothingLeft
      BY <1>2 DEF LeaveLoop, KeepGoing, CompletionInv, schedule, loop
    <2>2. QED
      BY <2>1 DEF NothingLeft, Active
  <1>3. CASE PollAnswered \/ PollFails
    <2>1. pc' = "service"
      BY <1>3, Zenon DEF PollAnswered, PollFails
    <2>2. QED
      BY <2>1
  <1>4. CASE SkipPoll \/ StampPass \/ ClearFails \/ Quit
    BY <1>4 DEF SkipPoll, StampPass, ClearFails, Quit
  <1>5. CASE Decide \/ ClearDevice \/ SendMessage
    <2>1. pc' \in {"decide", "act"}
      BY <1>5 DEF Decide, ClearDevice, SendMessage, Proceed
    <2>2. QED
      BY <2>1
  <1>6. CASE Read
    <2>1. pc' \in {"decide", "act", "recv"}
      BY <1>6 DEF Read, ReadSerial, ReadGpib, ReadNidaq, ReadCommand, ReadIp,
         ReceiveIp, Reads, Proceed
    <2>2. QED
      BY <2>1
  <1>7. CASE EndPass
    <2>1. UNCHANGED <<conf, number, timeNow>> /\ ~cont'
      BY <1>7 DEF EndPass, schedule
    <2>2. NothingLeft
      BY <1>7, <2>1 DEF EndPass, NothingLeft
    <2>3. QED
      BY <2>1, <2>2 DEF NothingLeft, Active
  <1>8. CASE Environment \/ UNCHANGED vars
    <2>1. UNCHANGED <<conf, number, timeNow, cont>> /\ (pc' = pc \/ pc' = "killed")
          /\ (exitSig' = exitSig \/ exitSig' = -1)
      BY <1>8 DEF Environment, CtrlHandler, Tick, RaiseSrq, Arrive, vars, schedule, loop
    <2>2. NothingLeft
      BY <2>1 DEF CompletionInv
    <2>3. QED
      BY <2>1, <2>2 DEF NothingLeft, Active
  <1>9. QED
    BY <1>1, <1>2, <1>3, <1>4, <1>5, <1>6, <1>7, <1>8 DEF Next, Program, Terminated

(* A program that ends by itself has sent every counted message and let    *)
(* every last time go by (CompleteAtQuit).                                 *)
THEOREM EndIsComplete == Spec => []CompleteAtQuit
  <1>1. Init => TypeInv /\ BudgetInv /\ CompletionInv
    <2>1. Init => CompletionInv
      BY DEF Init, CompletionInv
    <2>2. QED
      BY <2>1, InitType, InitBudget
  <1>2. TypeInv /\ BudgetInv /\ CompletionInv /\ [Next]_vars
            => (TypeInv /\ BudgetInv /\ CompletionInv)'
    BY StepType, StepBudget, StepCompletion
  <1>3. TypeInv /\ BudgetInv /\ CompletionInv => CompleteAtQuit
    <2> SUFFICES ASSUME TypeInv, BudgetInv, CompletionInv, pc = "quit", exitSig = 0,
                        NEW r \in Rec
                 PROVE  IF conf[r].last # 0 THEN conf[r].last <= timeNow
                        ELSE conf[r].send /\ conf[r].number \in -1..MaxCount
                                 => sent[r] = conf[r].number
      BY DEF CompleteAtQuit
    <2>1. /\ conf[r] \in Settings /\ number[r] \in Int /\ sent[r] \in 0..MaxCount
          /\ timeNow \in Nat /\ MaxCount \in Nat
      BY ConfType, BoundsAssumption DEF TypeInv, TypeOK
    <2>2. ~Active(conf[r], number[r], timeNow)
      BY DEF CompletionInv, NothingLeft
    <2>3. Granted(r) = sent[r]
      BY <2>1 DEF TypeInv, LoopOK, Granted
    <2>4. BudgetOf(r) /\ UnlimitedOf(r)
      BY DEF BudgetInv
    <2>5. QED
      BY <2>1, <2>2, <2>3, <2>4 DEF Active, BudgetOf, UnlimitedOf, Settings
  <1>4. QED
    BY <1>1, <1>2, <1>3, PTL DEF Spec

(* All -u records of one device agree on its request (SrqAgree), whichever *)
(* of them was polled when the device asked.                               *)
THEOREM RequestsAgree == Spec => []SrqAgree
  <1>1. Init => TypeInv /\ SrqAgree
    BY InitType DEF Init, SrqAgree
  <1>2. TypeInv /\ SrqAgree /\ [Next]_vars => (TypeInv /\ SrqAgree)'
    <2> SUFFICES ASSUME TypeInv, SrqAgree, [Next]_vars,
                        NEW i \in Rec, NEW j \in Rec,
                        Dev(i)' = Dev(j)', conf'[i].srq, conf'[j].srq
                 PROVE  srqReq'[i] = srqReq'[j]
      BY StepType DEF SrqAgree
    <2>1. Dev(i) = Dev(j) /\ conf[i].srq /\ conf[j].srq
      <3>1. conf' = conf
        BY StepKinds DEF Calm, Decide, ClearDevice, SendMessage, ReadEnded
      <3>2. QED
        BY <3>1 DEF Dev
    <2>2. CASE UNCHANGED srqReq
      BY <2>1, <2>2 DEF SrqAgree
    <2>3. CASE BeginPass
      BY <2>3 DEF BeginPass
    <2>4. CASE PollAnswered \/ PollFails
      <3>1. srqReq' = srqReq \/ srqReq' = RequestAll(record)
        BY <2>4, Zenon DEF PollAnswered, PollFails
      <3>2. CASE srqReq' = RequestAll(record)
        BY <2>1, <3>2 DEF RequestAll, SrqAgree
      <3>3. QED
        BY <2>2, <3>1, <3>2
    <2>5. CASE Read
      BY <2>2, <2>5 DEF Read, ReadSerial, ReadGpib, ReadNidaq, ReadCommand, ReadIp,
         ReceiveIp, Reads, schedule
    <2>6. QED
      BY <2>2, <2>3, <2>4, <2>5
      DEF Next, Program, Environment, Terminated, StartLoop, LeaveLoop, SkipPoll,
          StampPass, Decide, ClearDevice, ClearFails, SendMessage, EndPass, Quit,
          CtrlHandler, Tick, RaiseSrq, Arrive, vars, schedule
  <1>3. QED
    BY <1>1, <1>2, PTL DEF Spec

-----------------------------------------------------------------------------
(***************************************************************************)
(* The statistics and the shared ReadBuffer.  Only the end of a read moves *)
(* a figure of the report, except the count of the messages sent.          *)
(***************************************************************************)
figures == <<received, timeouts, checked, sumErrors>>

Accounted == /\ pc \in {"act", "recv"} /\ recordAction = {"read"} /\ recordAction' = {}
             /\ UNCHANGED <<conf, sent>>
             /\ \E from \in 0..NRecords, timedOut \in BOOLEAN : Account(from, timedOut)

LEMMA FigureSteps ==
    ASSUME TypeInv, [Next]_vars
    PROVE  (UNCHANGED figures) \/ Accounted
  <1> USE DEF TypeInv, LoopOK, figures
  <1>1. CASE ReadSerial \/ ReadGpib \/ ReadNidaq \/ ReadCommand
    <2>1. record \in Rec /\ Proceed({}) /\ recordAction = {"read"} /\ pc = "act"
      BY <1>1 DEF ReadSerial, ReadGpib, ReadNidaq, ReadCommand, Reads
    <2>2. 0 \in 0..NRecords /\ record \in 0..NRecords /\ rxFrom \in 0..NRecords
      BY <2>1, NRecordsAssumption DEF Rec, TypeOK
    <2>3. \E from \in 0..NRecords, timedOut \in BOOLEAN : Account(from, timedOut)
      BY <1>1, <2>2 DEF ReadSerial, ReadGpib, ReadNidaq, ReadCommand
    <2>4. UNCHANGED <<conf, sent>>
      BY <1>1 DEF ReadSerial, ReadGpib, ReadNidaq, ReadCommand, Reads
    <2>5. QED
      BY <2>1, <2>3, <2>4 DEF Accounted, Proceed
  <1>2. CASE ReadIp
    BY <1>2 DEF ReadIp
  <1>3. CASE ReceiveIp
    <2>1. record \in 0..NRecords /\ rxFrom \in 0..NRecords /\ recordAction = {"read"}
      BY <1>3, NRecordsAssumption DEF ReceiveIp, TypeOK, Rec
    <2>2. UNCHANGED <<conf, sent>>
      BY <1>3 DEF ReceiveIp
    <2>3. \/ UNCHANGED figures
          \/ \E from \in 0..NRecords, timedOut \in BOOLEAN :
                Account(from, timedOut) /\ Proceed({})
      BY <1>3, <2>1 DEF ReceiveIp
    <2>4. QED
      BY <1>3, <2>1, <2>2, <2>3 DEF Accounted, Proceed, ReceiveIp
  <1>4. CASE PollAnswered \/ PollFails
    BY <1>4, Zenon DEF PollAnswered, PollFails, stats
  <1>5. QED
    BY <1>1, <1>2, <1>3, <1>4
    DEF Next, Program, Environment, Terminated, Read, StartLoop, BeginPass, LeaveLoop,
        SkipPoll, StampPass, Decide, ClearDevice, ClearFails, SendMessage, EndPass,
        Quit, CtrlHandler, Tick, RaiseSrq, Arrive, vars, stats

(* The end of a read: what happens to the figures of a record.             *)
LEMMA AccountFigures ==
    ASSUME TypeInv, Accounted, NEW r \in Rec
    PROVE  /\ record \in Rec
           /\ \/ received'[r] = received[r] /\ checked'[r] = checked[r]
                 /\ sumErrors'[r] = sumErrors[r]
              \/ /\ r = record /\ received'[r] = Bump(received, r)[r]
                 /\ checked'[r] = checked[r] \/ checked'[r] = Bump(checked, r)[r]
                 /\ \/ sumErrors'[r] = sumErrors[r]
                    \/ /\ sumErrors'[r] = Bump(sumErrors, r)[r]
                       /\ checked'[r] = Bump(checked, r)[r]
           /\ timeouts'[r] = timeouts[r] \/ (r = record /\ timeouts'[r] = Bump(timeouts, r)[r])
  <1>1. record \in Rec
    BY DEF Accounted, TypeInv, LoopOK
  <1>2. PICK from \in 0..NRecords, timedOut \in BOOLEAN : Account(from, timedOut)
    BY DEF Accounted
  <1>3. \A f \in {received, timeouts, checked, sumErrors} :
            r # record => Bump(f, record)[r] = f[r]
    BY <1>1 DEF TypeInv, TypeOK, Bump
  <1>4. received' = IF from # 0 THEN Bump(received, record) ELSE received
    BY <1>2 DEF Account
  <1>5. timeouts' = timeouts \/ timeouts' = Bump(timeouts, record)
    BY <1>2, Zenon DEF Account
  <1>6. \/ checked' = checked /\ sumErrors' = sumErrors
        \/ /\ from # 0
           /\ checked' = checked \/ checked' = Bump(checked, record)
           /\ \/ sumErrors' = sumErrors
              \/ sumErrors' = Bump(sumErrors, record) /\ checked' = Bump(checked, record)
    BY <1>2 DEF Account
  <1>7. QED
    BY <1>1, <1>3, <1>4, <1>5, <1>6

(* What is still open in a record's actions was granted to it: it reads    *)
(* when it is to wait for a reply, and from the command port, which never  *)
(* has data, only after a message.                                         *)
GrantInv ==
    "read" \in recordAction =>
        /\ conf[record].receiveWait
        /\ PortOf(record) = "command" => conf[record].send

LEMMA StepGrant == TypeInv /\ GrantInv /\ [Next]_vars => GrantInv'
  <1> SUFFICES ASSUME TypeInv, GrantInv, [Next]_vars, "read" \in recordAction'
               PROVE  (/\ conf[record].receiveWait
                       /\ PortOf(record) = "command" => conf[record].send)'
    BY DEF GrantInv
  <1>1. CASE Calm \/ ClearDevice \/ SendMessage \/ ReadEnded
    <2>1. "read" \in recordAction /\ record' = record /\ conf' = conf
      BY <1>1 DEF Calm, ClearDevice, SendMessage, ReadEnded, Proceed, schedule
    <2>2. QED
      BY <2>1 DEF GrantInv, PortOf, Dev
  <1>2. CASE Decide
    <2> DEFINE c == conf[record]
    <2>1. conf' = conf
      BY <1>2 DEF Decide
    <2>2. PICK avail \in DataAvailable(record) \cup {FALSE} :
               /\ recordAction' = ActionsOf(c, avail) /\ record' = record
               /\ avail => Probes(c)
      BY <1>2 DEF Decide, Proceed
    <2>3. c.receiveWait /\ (c.send \/ avail)
      BY <2>2 DEF ActionsOf
    <2>4. PortOf(record) = "command" => c.send
      BY <2>2, <2>3 DEF DataAvailable
    <2>5. QED
      BY <2>1, <2>2, <2>3, <2>4 DEF PortOf, Dev
  <1>3. QED
    BY <1>1, <1>2, StepKinds

(* The figures of a record add up, and while it waits for a reply its      *)
(* message is one more than the replies and than the timeouts so far.      *)
Waits(r) == record = r /\ "read" \in recordAction /\ "send" \notin recordAction

ReportOf(r) ==
    /\ sumErrors[r] <= checked[r] /\ checked[r] <= received[r]
    /\ conf[r].send =>
          /\ received[r] <= sent[r] /\ timeouts[r] <= sent[r]
          /\ Waits(r) => \/ sent[r] = MaxCount
                         \/ received[r] < sent[r] /\ timeouts[r] < sent[r]

ReportInv == \A r \in Rec : ReportOf(r)

LEMMA BumpValue ==
    ASSUME NEW f \in [Rec -> 0..MaxCount], NEW r \in Rec
    PROVE  Bump(f, r)[r] = IF f[r] < MaxCount THEN f[r] + 1 ELSE f[r]
  BY DEF Bump

(* With the figures unchanged it is the start of the wait that counts.     *)
LEMMA ReportKept ==
    ASSUME TypeInv, NEW r \in Rec, ReportOf(r), UNCHANGED figures, conf' = conf,
           sent'[r] \in 0..MaxCount, sent'[r] >= sent[r],
           conf[r].send /\ Waits(r)' =>
               Waits(r) \/ sent'[r] = MaxCount \/ sent'[r] = sent[r] + 1
    PROVE  ReportOf(r)'
  <1>1. /\ sent[r] \in 0..MaxCount /\ received[r] \in 0..MaxCount
        /\ timeouts[r] \in 0..MaxCount
    BY DEF TypeInv, TypeOK
  <1>2. /\ received'[r] = received[r] /\ timeouts'[r] = timeouts[r]
        /\ checked'[r] = checked[r] /\ sumErrors'[r] = sumErrors[r]
    BY DEF figures
  <1>3. CASE ~conf[r].send
    BY <1>2, <1>3 DEF ReportOf
  <1>4. CASE conf[r].send
    <2>1. received'[r] <= sent'[r] /\ timeouts'[r] <= sent'[r]
      BY <1>1, <1>2, <1>4, BoundsAssumption DEF ReportOf
    <2>2. Waits(r)' => \/ sent'[r] = MaxCount
                       \/ received'[r] < sent'[r] /\ timeouts'[r] < sent'[r]
      BY <1>1, <1>2, <1>4, BoundsAssumption DEF ReportOf
    <2>3. QED
      BY <1>2, <2>1, <2>2 DEF ReportOf
  <1>5. QED
    BY <1>3, <1>4

LEMMA StepReport == TypeInv /\ ReportInv /\ [Next]_vars => ReportInv'
  <1> SUFFICES ASSUME TypeInv, ReportInv, [Next]_vars, NEW r \in Rec
               PROVE  ReportOf(r)'
    BY DEF ReportInv
  <1>1. ReportOf(r)
    BY DEF ReportInv
  <1>2. /\ sent \in [Rec -> 0..MaxCount] /\ received \in [Rec -> 0..MaxCount]
        /\ timeouts \in [Rec -> 0..MaxCount] /\ checked \in [Rec -> 0..MaxCount]
        /\ sumErrors \in [Rec -> 0..MaxCount]
    BY DEF TypeInv, TypeOK
  <1>3. conf' = conf
    BY StepKinds DEF Calm, Decide, ClearDevice, SendMessage, ReadEnded
  <1>4. CASE UNCHANGED figures
    <2>1. CASE Calm \/ ClearDevice \/ ReadEnded
      <3>1. sent' = sent /\ (Waits(r)' => Waits(r))
        BY <2>1 DEF Calm, ClearDevice, ReadEnded, Proceed, stats, Waits
      <3>2. sent[r] \in 0..MaxCount
        BY <1>2
      <3>3. QED
        BY <1>1, <1>3, <1>4, <3>1, <3>2, ReportKept
    <2>2. CASE Decide
      <3>1. Decision(conf[record], record)
        BY <2>2, DecideIsDecision
      <3>2. sent' = sent /\ sent[r] \in 0..MaxCount
        BY <1>2, <3>1 DEF Decision
      <3>3. conf[r].send => ~Waits(r)'
        BY <3>1 DEF Decision, Waits
      <3>4. QED
        BY <1>1, <1>3, <1>4, <3>2, <3>3, ReportKept
    <2>3. CASE SendMessage
      <3>1. /\ record \in Rec /\ sent' = Bump(sent, record)
            /\ recordAction' # {} => record' = record
        BY <2>3 DEF SendMessage, Proceed, TypeInv, LoopOK
      <3>2. sent' \in [Rec -> 0..MaxCount]
        BY <1>2, <3>1, BumpType
      <3>3. CASE r = record
        <4>1. sent'[r] = IF sent[r] < MaxCount THEN sent[r] + 1 ELSE sent[r]
          BY <1>2, <3>1, <3>3, BumpValue
        <4>2. sent[r] \in 0..MaxCount /\ sent'[r] \in 0..MaxCount
          BY <1>2, <3>2
        <4>3. sent'[r] >= sent[r] /\ (sent'[r] = MaxCount \/ sent'[r] = sent[r] + 1)
          BY <4>1, <4>2, BoundsAssumption
        <4>4. QED
          BY <1>1, <1>3, <1>4, <4>2, <4>3, ReportKept
      <3>4. CASE r # record
        <4>1. sent'[r] = sent[r] /\ sent[r] \in 0..MaxCount
          BY <1>2, <3>1, <3>4 DEF Bump
        <4>2. ~Waits(r)'
          BY <3>1, <3>4 DEF Waits
        <4>3. QED
          BY <1>1, <1>3, <1>4, <4>1, <4>2, ReportKept
      <3>5. QED
        BY <3>3, <3>4
    <2>4. QED
      BY <2>1, <2>2, <2>3, StepKinds
  <1>5. CASE Accounted
    <2>1. /\ sent'[r] = sent[r] /\ ~Waits(r)'
          /\ r = record => Waits(r)
      BY <1>5 DEF Accounted, Waits
    <2>2. /\ Bump(received, r)[r] = IF received[r] < MaxCount THEN received[r] + 1 ELSE received[r]
          /\ Bump(checked, r)[r] = IF checked[r] < MaxCount THEN checked[r] + 1 ELSE checked[r]
          /\ Bump(sumErrors, r)[r] =
                IF sumErrors[r] < MaxCount THEN sumErrors[r] + 1 ELSE sumErrors[r]
          /\ Bump(timeouts, r)[r] = IF timeouts[r] < MaxCount THEN timeouts[r] + 1 ELSE timeouts[r]
      BY <1>2, BumpValue
    <2>3. /\ sent[r] \in 0..MaxCount /\ received[r] \in 0..MaxCount
          /\ timeouts[r] \in 0..MaxCount /\ checked[r] \in 0..MaxCount
          /\ sumErrors[r] \in 0..MaxCount
      BY <1>2
    <2>4. sumErrors'[r] <= checked'[r] /\ checked'[r] <= received'[r]
      BY <1>1, <1>5, <2>2, <2>3, BoundsAssumption, AccountFigures DEF ReportOf
    <2>5. conf[r].send => received'[r] <= sent[r] /\ timeouts'[r] <= sent[r]
      BY <1>1, <1>5, <2>1, <2>2, <2>3, BoundsAssumption, AccountFigures DEF ReportOf
    <2>6. QED
      BY <1>3, <2>1, <2>4, <2>5 DEF ReportOf
  <1>6. QED
    BY <1>4, <1>5, FigureSteps

(* The figures that quit() prints add up (ReportAddsUp), whatever the      *)
(* devices answer and however the records take turns: errors are counted   *)
(* for check sums only, check sums for replies only, and a polling record  *)
(* has at most one reply and one timeout for each message.                 *)
THEOREM ReportsAddUp == Spec => []ReportAddsUp
  <1>1. Init => TypeInv /\ ReportInv
    <2> SUFFICES ASSUME Init, NEW r \in Rec PROVE ReportOf(r)
      BY InitType DEF ReportInv
    <2>1. QED
      BY DEF Init, ReportOf, Waits
  <1>2. TypeInv /\ ReportInv /\ [Next]_vars => (TypeInv /\ ReportInv)'
    BY StepType, StepReport
  <1>3. ReportInv => ReportAddsUp
    BY DEF ReportInv, ReportOf, ReportAddsUp
  <1>4. QED
    BY <1>1, <1>2, <1>3, PTL DEF Spec

-----------------------------------------------------------------------------
(* While a socket's record receives, the text in ReadBuffer is its own.    *)
OwnerInv == pc = "recv" => rxFrom \in {0, record}

(* No record polls a program of the command port for an answer: it has     *)
(* none, and reads what is left in the shared buffer.                      *)
NoCommandReply ==
    \A c \in Confs : \A r \in Rec :
        Kind[c[r].device] = "command" /\ c[r].send => ~c[r].receiveWait

LEMMA StepOwner == TypeInv /\ OwnerInv /\ [Next]_vars => OwnerInv'
  <1> SUFFICES ASSUME TypeInv, OwnerInv, [Next]_vars, pc' = "recv"
               PROVE  rxFrom' \in {0, record'}
    BY DEF OwnerInv
  <1>1. CASE ReadIp \/ ReceiveIp
    BY <1>1 DEF ReadIp, ReceiveIp, OwnerInv, Account, Proceed
  <1>2. CASE PollAnswered \/ PollFails
    BY <1>2, Zenon DEF PollAnswered, PollFails
  <1>3. QED
    BY <1>1, <1>2
    DEF OwnerInv, Next, Program, Environment, Terminated, Read, StartLoop, BeginPass,
        LeaveLoop, SkipPoll, StampPass, Decide, ClearDevice, ClearFails, SendMessage,
        EndPass, Quit, CtrlHandler, Tick, RaiseSrq, Arrive, vars, loop, Proceed,
        ReadSerial, ReadGpib, ReadNidaq, ReadCommand

(* When a record's reply is counted, the text came from its device in this *)
(* very read, unless the record reads from the command port.               *)
LEMMA ReplyStep ==
    ASSUME TypeInv, GrantInv, OwnerInv, [Next]_vars, received' # received
    PROVE  \/ rxFrom' = record
           \/ PortOf(record) = "command" /\ conf[record].send /\ conf[record].receiveWait
  <1> USE DEF Account
  <1>1. CASE ReadSerial \/ ReadGpib \/ ReadNidaq
    BY <1>1 DEF ReadSerial, ReadGpib, ReadNidaq
  <1>2. CASE ReadCommand
    BY <1>2 DEF ReadCommand, Reads, GrantInv
  <1>3. CASE ReceiveIp
    BY <1>3 DEF ReceiveIp, OwnerInv
  <1>4. CASE PollAnswered \/ PollFails
    BY <1>4, Zenon DEF PollAnswered, PollFails, stats
  <1>5. QED
    BY <1>1, <1>2, <1>3, <1>4
    DEF Next, Program, Environment, Terminated, Read, StartLoop, BeginPass, LeaveLoop,
        SkipPoll, StampPass, Decide, ClearDevice, ClearFails, SendMessage, EndPass,
        Quit, CtrlHandler, Tick, RaiseSrq, Arrive, vars, stats, ReadIp

LEMMA OwnerInvariant == Spec => [](TypeInv /\ GrantInv /\ OwnerInv)
  <1>1. Init => TypeInv /\ GrantInv /\ OwnerInv
    BY InitType DEF Init, GrantInv, OwnerInv
  <1>2. TypeInv /\ GrantInv /\ OwnerInv /\ [Next]_vars
            => (TypeInv /\ GrantInv /\ OwnerInv)'
    BY StepType, StepGrant, StepOwner
  <1>3. QED
    BY <1>1, <1>2, PTL DEF Spec

(* Text logged as a record's reply was read from its device by that read   *)
(* (ReplyIsOwn), although all records share one ReadBuffer and a read may  *)
(* end with nothing: in every configuration without a poll of the command  *)
(* port, whose portRead() leaves the buffer as it was.                     *)
THEOREM RepliesAreOwn == NoCommandReply /\ Spec => ReplyIsOwn
  <1> SUFFICES ASSUME NoCommandReply PROVE Spec => ReplyIsOwn
    OBVIOUS
  <1>1. TypeInv /\ GrantInv /\ OwnerInv /\ [Next]_vars
            => [received' # received => rxFrom' = record]_vars
    <2> SUFFICES ASSUME TypeInv, GrantInv, OwnerInv, [Next]_vars, received' # received
                 PROVE  rxFrom' = record
      OBVIOUS
    <2>1. record \in Rec /\ conf \in Confs
      <3>1. Accounted
        BY FigureSteps DEF figures
      <3>2. QED
        BY <3>1 DEF Accounted, TypeInv, TypeOK, LoopOK
    <2>2. QED
      BY <2>1, ReplyStep DEF NoCommandReply, PortOf, Dev
  <1>2. QED
    BY <1>1, OwnerInvariant, PTL DEF Spec, ReplyIsOwn

-----------------------------------------------------------------------------
(* QueryLoop implements PollSchedule: each step of the loop either sends a *)
(* message PollSchedule allows, moves its time on, or leaves it unchanged. *)
LEMMA InitServes == Init => PS!Start
  BY DEF Init, PS!Start

(* The message main() is about to send is one PollSchedule allows.         *)
LEMMA SendIsAllowed ==
    ASSUME TypeInv, BudgetInv, ScheduleInv, GridInv,
           "send" \in recordAction, conf[record].send, sent[record] < MaxCount
    PROVE  /\ PS!InBudget(record)
           /\ conf[record].srq \/ PS!InTime(record)
  <1> DEFINE c == conf[record]
             k == sent[record]
  <1>1. record \in Rec
    BY DEF TypeInv, LoopOK
  <1>2. /\ c \in Settings /\ k \in Nat /\ MaxCount \in Nat
        /\ number[record] \in Int /\ nextRuntime[record] \in Nat /\ timeNow \in Nat
    BY <1>1, ConfType, BoundsAssumption DEF TypeInv, TypeOK
  <1>3. Granted(record) = k + 1
    BY <1>1 DEF Granted
  <1>4. PS!InBudget(record)
    <2>1. BudgetOf(record)
      BY <1>1 DEF BudgetInv
    <2>2. c.number >= 0 => k < c.number
      <3> HIDE DEF Granted
      <3>1. CASE c.number \in 0..MaxCount
        BY <1>2, <1>3, <2>1, <3>1 DEF BudgetOf
      <3>2. CASE c.number > MaxCount
        BY <1>2, <3>2 DEF Settings
      <3>3. QED
        BY <1>2, <3>1, <3>2 DEF Settings
    <2>3. QED
      BY <2>2 DEF PS!InBudget
  <1>5. ASSUME ~c.srq PROVE PS!InTime(record)
    <2>1. /\ ~srqReq[record] /\ EarlyOf(record) /\ GridOf(record)
      BY <1>1, <1>5 DEF ScheduleInv, RequestOf, GridInv
    <2>2. c.first < timeNow /\ (c.last = 0 \/ timeNow <= c.last)
      BY <2>1 DEF ScheduleInv, InsideWindow
    <2>3. c.first > 0 => c.first + k * c.period < timeNow
      <3>1. CASE c.period = 0
        BY <1>2, <2>2, <3>1 DEF Settings
      <3>2. CASE c.period > 0 /\ c.first > 0
        <4>1. nextRuntime[record] = c.first + (k + 1) * c.period
          BY <1>2, <1>3, <1>5, <2>1, <3>2 DEF GridOf, HasGrid
        <4>2. nextRuntime[record] < timeNow + c.period
          BY <1>5, <2>1, <3>2 DEF EarlyOf
        <4>3. (k + 1) * c.period = k * c.period + c.period
              /\ k * c.period \in Int
          BY <1>2, NextMultiple DEF Settings
        <4>4. QED
          BY <1>2, <4>1, <4>2, <4>3 DEF Settings
      <3>3. QED
        BY <1>2, <3>1, <3>2 DEF Settings
    <2>4. QED
      BY <2>2, <2>3 DEF PS!InTime, PS!Slot
  <1>6. QED
    BY <1>4, <1>5

(* main() sends for records with a message only.                           *)
SendInv == "send" \in recordAction => conf[record].send

LEMMA StepSend == TypeInv /\ SendInv /\ [Next]_vars => SendInv'
  <1> SUFFICES ASSUME TypeInv, SendInv, [Next]_vars PROVE SendInv'
    OBVIOUS
  <1>1. CASE Calm
    BY <1>1 DEF Calm, SendInv
  <1>2. CASE Decide
    <2>1. \A avail : "send" \in ActionsOf(conf[record], avail) => conf[record].send
      BY DEF ActionsOf
    <2>2. conf' = conf
      BY <1>2 DEF Decide
    <2>3. QED
      BY <1>2, <2>1, <2>2 DEF Decide, Proceed, SendInv
  <1>3. CASE ClearDevice \/ SendMessage \/ ReadEnded
    BY <1>3 DEF ClearDevice, SendMessage, ReadEnded, Proceed, SendInv
  <1>4. QED
    BY <1>1, <1>2, <1>3, StepKinds

LEMMA StepServes ==
    ASSUME TypeInv, BudgetInv, ScheduleInv, GridInv, SendInv, [Next]_vars
    PROVE  [PS!Next]_PS!vars
  <1>1. /\ timeNow \in Nat /\ timeNow' \in Nat /\ timeNow <= timeNow'
    BY TimeStep, StepType DEF TypeInv, TypeOK, ScheduleInv
  <1>2. CASE UNCHANGED <<conf, sent>>
    <2>1. CASE timeNow' = timeNow
      BY <1>2, <2>1 DEF PS!vars
    <2>2. CASE timeNow' > timeNow
      BY <1>2, <2>2 DEF PS!Next, PS!Advance
    <2>3. QED
      BY <1>1, <2>1, <2>2
  <1>3. CASE SendMessage
    <2>1. /\ record \in Rec /\ "send" \in recordAction /\ conf[record].send
          /\ UNCHANGED <<conf, timeNow>> /\ sent' = Bump(sent, record)
      BY <1>3 DEF SendMessage, TypeInv, LoopOK, SendInv
    <2>2. CASE sent[record] < MaxCount
      <3>1. sent' = [sent EXCEPT ![record] = @ + 1]
        BY <2>1, <2>2 DEF Bump
      <3>2. PS!InBudget(record) /\ (conf[record].srq \/ PS!InTime(record))
        BY <2>1, <2>2, SendIsAllowed
      <3>3. PS!Serve(record)
        BY <2>1, <2>2, <3>1, <3>2 DEF PS!Serve
      <3>4. QED
        BY <2>1, <3>3 DEF PS!Next
    <2>3. CASE ~(sent[record] < MaxCount)
      <3>1. sent' = sent
        BY <2>1, <2>3 DEF Bump, TypeInv, TypeOK
      <3>2. QED
        BY <1>2, <2>1, <3>1
    <2>4. QED
      BY <2>2, <2>3
  <1>4. CASE Calm \/ Decide \/ ClearDevice \/ ReadEnded
    <2>1. UNCHANGED <<conf, sent>>
      BY <1>4 DEF Calm, Decide, ClearDevice, ReadEnded, stats
    <2>2. QED
      BY <1>2, <2>1
  <1>5. QED
    BY <1>3, <1>4, StepKinds

(* The main loop implements PollSchedule (ImplementsSchedule): with any    *)
(* records, requests, delays and signals, every message it sends is within *)
(* its record's count and window, and after the slot it is for.            *)
THEOREM ScheduleImplemented == Spec => ImplementsSchedule
  <1> DEFINE Inv == TypeInv /\ BudgetInv /\ ScheduleInv /\ GridInv /\ SendInv
  <1>1. Init => Inv
    <2>1. Init => GridInv
      BY DEF Init, GridInv, GridOf, Granted
    <2>2. Init => SendInv
      BY DEF Init, SendInv
    <2>3. QED
      BY <2>1, <2>2, InitType, InitBudget, InitSchedule
  <1>2. Inv /\ [Next]_vars => Inv'
    BY StepType, StepBudget, StepSchedule, StepGrid, StepSend
  <1>3. Inv /\ [Next]_vars => [PS!Next]_PS!vars
    BY StepServes
  <1> HIDE DEF Inv
  <1>4. QED
    BY <1>1, <1>2, <1>3, InitServes, PTL DEF Spec, ImplementsSchedule, PS!Spec
=============================================================================
