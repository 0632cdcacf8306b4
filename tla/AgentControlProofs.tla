------------------------- MODULE AgentControlProofs -------------------------
(* Theorems about AgentControl for any operators, chats and tasks.         *)
EXTENDS AgentControl, TLAPS

(***************************************************************************)
(* Type correctness.                                                       *)
(***************************************************************************)

(* Every transaction on the control values leaves values the table can     *)
(* hold.                                                                   *)
LEMMA WritesTyped ==
    ASSUME NEW d \in Control
    PROVE  /\ Resumed(d) \in Control /\ Stopped(d) \in Control /\ Replanning(d) \in Control
           /\ \A r \in Reasons : Paused(d, r) \in Control
           /\ \A c \in Chats, b \in BOOLEAN : ChatBegun(b, c, d) \in Control
           /\ \A x \in ExitModes : ChatEnded(d, x) \in Control
           /\ \A t \in Tasks : HandedOff(d, t) \in Control
           /\ \A o \in BOOLEAN, b \in BOOLEAN : FocusReturned(o, b, d) \in Control
<1> USE DEF Control, Modes, Reasons, ExitModes, ExpertInteraction
<1>1. Resumed(d) \in Control /\ Stopped(d) \in Control /\ Replanning(d) \in Control
  BY DEF Resumed, Stopped, Replanning
<1>2. \A r \in Reasons : Paused(d, r) \in Control
  BY DEF Paused
<1>3. \A c \in Chats, b \in BOOLEAN : ChatBegun(b, c, d) \in Control
  BY DEF ChatBegun
<1>4. \A x \in ExitModes : ChatEnded(d, x) \in Control
  BY DEF ChatEnded
<1>5. \A t \in Tasks : HandedOff(d, t) \in Control
  BY DEF HandedOff
<1>6. \A o \in BOOLEAN, b \in BOOLEAN : FocusReturned(o, b, d) \in Control
  BY DEF FocusReturned
<1> QED BY <1>1, <1>2, <1>3, <1>4, <1>5, <1>6

(* A process carries the task and the exit mode its command needs.         *)
ProcShape ==
    \A p \in Processes :
        /\ proc[p].cmd \in {"handoff", "return"} => proc[p].task \in Tasks
        /\ proc[p].step \in {"finish", "reread", "restore"} => proc[p].cmd = "return"
        /\ proc[p].cmd = "return" => proc[p].outcome \in Outcomes
        /\ proc[p].cmd = "end" => proc[p].outcome \in ExitModes
        /\ proc[p].cmd = "begin" => p \in Chats
        /\ proc[p].cmd = "heartbeat" => p = Heartbeat

TypeInv == TypeOK /\ ProcShape

LEMMA TypeInit == Init => TypeInv
<1> SUFFICES ASSUME Init PROVE TypeInv
  OBVIOUS
<1>1. db \in Control
  BY DEF Init, Control, ControlDefaults, Modes, Reasons, ExitModes
<1>2. proc \in [Processes -> ProcState]
  BY DEF Init, ProcState
<1>3. ProcShape
  BY DEF Init, ProcShape, Idle
<1>4. crashes \in 0..MaxCrashes
  BY CrashesAssumption DEF Init
<1>5. /\ run \in [Tasks -> {"none", "in_progress"} \cup Outcomes]
      /\ session \in [Chats -> {"new", "open", "gone"}]
      /\ idleElapsed \in BOOLEAN /\ overlap \in BOOLEAN
  BY DEF Init
<1> QED BY <1>1, <1>2, <1>3, <1>4, <1>5 DEF TypeInv, TypeOK

LEMMA IdleFits == Idle \in ProcState
BY DEF ProcState

LEMMA LeaveTyped ==
    ASSUME TypeInv, NEW p \in Processes, Leave(p)
    PROVE  proc' \in [Processes -> ProcState] /\ ProcShape'
BY IdleFits DEF TypeInv, TypeOK, ProcShape, Leave, Idle

LEMMA ProceedTyped ==
    ASSUME TypeInv, NEW p \in Processes, Busy(p), NEW s \in Steps, Proceed(p, s),
           s \in {"reread", "restore"} => proc[p].cmd = "return", s # "finish"
    PROVE  proc' \in [Processes -> ProcState] /\ ProcShape'
<1>1. proc[p] \in [cmd : Commands, step : Steps, resume : BOOLEAN, chatOpen : BOOLEAN,
                   task : Tasks \cup {None}, outcome : Outcomes \cup ExitModes]
  BY DEF TypeInv, TypeOK, ProcState, Busy
<1>2. proc' \in [Processes -> ProcState]
  BY <1>1 DEF TypeInv, TypeOK, Proceed, ProcState
<1>3. ProcShape'
  BY <1>1 DEF TypeInv, TypeOK, ProcShape, Proceed, ProcState
<1> QED BY <1>2, <1>3

Begun == [cmd : Commands, step : Steps, resume : BOOLEAN, chatOpen : BOOLEAN,
          task : Tasks \cup {None}, outcome : Outcomes \cup ExitModes]

LEMMA TakeTyped ==
    ASSUME TypeInv, NEW p \in Processes, NEW v \in Begun, Take(p, v),
           v.cmd \in {"handoff", "return"} => v.task \in Tasks,
           v.step \in {"finish", "reread", "restore"} => v.cmd = "return",
           v.cmd = "return" => v.outcome \in Outcomes,
           v.cmd = "end" => v.outcome \in ExitModes,
           v.cmd = "begin" => p \in Chats,
           v.cmd = "heartbeat" => p = Heartbeat
    PROVE  proc' \in [Processes -> ProcState] /\ ProcShape'
<1>1. proc' \in [Processes -> ProcState]
  BY DEF TypeInv, TypeOK, ProcState, Take, Begun
<1>2. ProcShape'
  BY DEF TypeInv, TypeOK, ProcShape, Take
<1> QED BY <1>1, <1>2

(* A command that carries nothing but its name.                            *)
LEMMA CommandTyped ==
    ASSUME TypeInv, NEW p \in Processes, NEW s \in {"write", "resume"},
           NEW c \in {"start", "replan", "pause", "stop", "clarify", "heartbeat"},
           c = "heartbeat" => p = Heartbeat, Take(p, Command(c, s))
    PROVE  proc' \in [Processes -> ProcState] /\ ProcShape'
<1> DEFINE v == Command(c, s)
<1>1. v \in Begun /\ v.cmd = c /\ v.step = s
  BY DEF Command, Idle, Begun, ExitModes, Commands, Steps
<1>2. Take(p, v)
  OBVIOUS
<1> HIDE DEF v
<1> QED BY <1>1, <1>2, TakeTyped

LEMMA TypeStep == TypeInv /\ [Next]_vars => TypeInv'
<1> SUFFICES ASSUME TypeInv, [Next]_vars PROVE TypeInv'
  OBVIOUS
<1> USE DEF TypeInv
<1>ty. /\ \A p \in Processes : Busy(p) =>
            proc[p] \in Begun
       /\ db \in Control
  BY DEF TypeOK, ProcState, Busy, Begun
<1>busy. \A p \in Processes : proc[p].step # "none" \/ proc[p].cmd # "none" => Busy(p)
  BY DEF Busy, Idle
<1>1. ASSUME NEW p \in Operators, ReadCommand(p) PROVE TypeInv'
  <2>1. PICK c \in {"start", "replan", "pause", "stop", "clarify"}, s \in {"write", "resume"} :
            Take(p, Command(c, s))
    BY <1>1 DEF ReadCommand
  <2>2. proc' \in [Processes -> ProcState] /\ ProcShape'
    BY <2>1, CommandTyped DEF Processes
  <2> QED BY <1>1, <2>1, <2>2 DEF ReadCommand, TypeOK, Take
<1>2. ASSUME NEW p \in Operators, WriteCommand(p) PROVE TypeInv'
  <2>1. db' \in Control
    BY <1>2, <1>ty, WritesTyped DEF WriteCommand, Reasons
  <2>2. proc' \in [Processes -> ProcState] /\ ProcShape'
    BY <1>2, LeaveTyped DEF WriteCommand, Processes
  <2> QED BY <1>2, <2>1, <2>2 DEF WriteCommand, TypeOK
<1>3. ASSUME NEW p \in Processes, WriteResume(p) PROVE TypeInv'
  <2>1. db' \in Control
    BY <1>3, <1>ty, WritesTyped DEF WriteResume
  <2>2. proc' \in [Processes -> ProcState] /\ ProcShape'
    BY <1>3, LeaveTyped DEF WriteResume
  <2> QED BY <1>3, <2>1, <2>2 DEF WriteResume, TypeOK
<1>4. ASSUME NEW p \in Operators, NEW t \in Tasks, ReadHandoff(p, t) PROVE TypeInv'
  <2> DEFINE v == [Command("handoff", "write") EXCEPT !.task = t]
  <2>1. v \in Begun /\ v.cmd = "handoff" /\ v.step = "write" /\ v.task = t
    BY DEF Command, Idle, Begun, Steps, ExitModes, Commands
  <2>2. Take(p, v)
    BY <1>4 DEF ReadHandoff
  <2> HIDE DEF v
  <2>3. proc' \in [Processes -> ProcState] /\ ProcShape'
    BY <2>1, <2>2, TakeTyped DEF Processes
  <2> QED BY <1>4, <2>2, <2>3 DEF ReadHandoff, TypeOK, Take
<1>5. ASSUME NEW p \in Operators, NEW t \in Tasks, ReadReturn(p, t) PROVE TypeInv'
  <2>1. PICK o \in Outcomes :
            Take(p, [Command("return", "finish") EXCEPT !.task = t, !.outcome = o])
    BY <1>5 DEF ReadReturn
  <2> DEFINE v == [Command("return", "finish") EXCEPT !.task = t, !.outcome = o]
  <2>2. v \in Begun /\ v.cmd = "return" /\ v.task = t /\ v.outcome = o
    BY DEF Command, Idle, Begun, Steps, Commands
  <2>3. Take(p, v)
    BY <2>1
  <2> HIDE DEF v
  <2>4. proc' \in [Processes -> ProcState] /\ ProcShape'
    BY <2>2, <2>3, TakeTyped DEF Processes
  <2> QED BY <1>5, <2>3, <2>4 DEF ReadReturn, TypeOK, Take
<1>6. ASSUME NEW p \in Operators, WriteHandoff(p) PROVE TypeInv'
  <2>1. proc[p].task \in Tasks /\ p \in Processes
    BY <1>6 DEF WriteHandoff, ProcShape, Processes
  <2>2. db' \in Control
    BY <1>6, <1>ty, <2>1, WritesTyped DEF WriteHandoff
  <2>3. proc' \in [Processes -> ProcState] /\ ProcShape'
    BY <1>6, <2>1, LeaveTyped DEF WriteHandoff
  <2> QED BY <1>6, <2>1, <2>2, <2>3 DEF WriteHandoff, TypeOK
<1>7. ASSUME NEW p \in Operators, FinishRun(p) PROVE TypeInv'
  <2>1. /\ p \in Processes /\ Busy(p) /\ proc[p].cmd = "return"
        /\ proc[p].outcome \in Outcomes
    BY <1>7, <1>busy DEF FinishRun, ProcShape, Processes
  <2>2. proc' \in [Processes -> ProcState] /\ ProcShape'
    BY <1>7, <2>1, LeaveTyped, ProceedTyped DEF FinishRun, Steps
  <2>3. run' \in [Tasks -> {"none", "in_progress"} \cup Outcomes]
    BY <1>7, <2>1 DEF FinishRun, TypeOK
  <2> QED BY <1>7, <2>2, <2>3 DEF FinishRun, TypeOK
<1>8. ASSUME NEW p \in Operators, RereadFocus(p) PROVE TypeInv'
  <2>1. p \in Processes /\ Busy(p) /\ proc[p].cmd = "return"
    BY <1>8, <1>busy DEF RereadFocus, ProcShape, Processes
  <2>2. CASE db.bg = proc[p].task
    <3>1. proc' \in [Processes -> ProcState]
      BY <1>8, <1>ty, <2>1, <2>2 DEF RereadFocus, TypeOK, ProcState, Begun, Control, Steps
    <3>2. ProcShape'
      BY <1>8, <1>ty, <2>1, <2>2 DEF RereadFocus, TypeOK, ProcShape, Begun
    <3> QED BY <1>8, <3>1, <3>2 DEF RereadFocus, TypeOK
  <2>3. CASE db.bg # proc[p].task
    BY <1>8, <2>1, <2>3, LeaveTyped DEF RereadFocus, TypeOK
  <2> QED BY <2>2, <2>3
<1>9. ASSUME NEW p \in Operators, RestoreFocus(p) PROVE TypeInv'
  <2>1. p \in Processes /\ Busy(p) /\ proc[p].chatOpen \in BOOLEAN /\ proc[p].resume \in BOOLEAN
    BY <1>9, <1>busy, <1>ty DEF RestoreFocus, Processes, Begun
  <2>2. proc' \in [Processes -> ProcState] /\ ProcShape'
    BY <1>9, <2>1, LeaveTyped, ProceedTyped DEF RestoreFocus, Steps
  <2>3. db' \in Control
    BY <1>9, <1>ty, <2>1, WritesTyped DEF RestoreFocus
  <2> QED BY <1>9, <2>2, <2>3 DEF RestoreFocus, TypeOK
<1>10. ASSUME NEW c \in Chats, ReadBegin(c) PROVE TypeInv'
  <2> DEFINE v == [Command("begin", "write") EXCEPT !.resume = WasRunning(db)]
  <2>1. v \in Begun /\ v.cmd = "begin" /\ v.step = "write"
    BY <1>ty DEF Command, Idle, Begun, Steps, ExitModes, Commands, WasRunning, Control
  <2>2. Take(c, v)
    BY <1>10 DEF ReadBegin
  <2> HIDE DEF v
  <2>3. proc' \in [Processes -> ProcState] /\ ProcShape'
    BY <2>1, <2>2, TakeTyped DEF Processes
  <2> QED BY <1>10, <2>2, <2>3 DEF ReadBegin, TypeOK, Take
<1>11. ASSUME NEW c \in Chats, WriteBegin(c) PROVE TypeInv'
  <2>1. c \in Processes /\ Busy(c) /\ proc[c].resume \in BOOLEAN
    BY <1>11, <1>busy, <1>ty DEF WriteBegin, Processes, Begun
  <2>2. db' \in Control
    BY <1>11, <1>ty, <2>1, WritesTyped DEF WriteBegin
  <2>3. proc' \in [Processes -> ProcState] /\ ProcShape'
    BY <1>11, <2>1, LeaveTyped DEF WriteBegin
  <2> QED BY <1>11, <2>2, <2>3 DEF WriteBegin, TypeOK
<1>12. ASSUME NEW c \in Chats, ReadEnd(c) PROVE TypeInv'
  <2>1. CASE db.chat \in {None, c}
    <3>1. PICK x \in ExitModes :
              Take(c, [Command("end", "write") EXCEPT !.outcome = x,
                                                      !.resume = ResumesOnClose(db, x)])
      BY <1>12, <2>1 DEF ReadEnd
    <3> DEFINE v == [Command("end", "write") EXCEPT !.outcome = x,
                                                    !.resume = ResumesOnClose(db, x)]
    <3>2. ResumesOnClose(db, x) \in BOOLEAN
      BY <1>ty DEF ResumesOnClose, PausedForExpert, Control
    <3>3. v \in Begun /\ v.cmd = "end" /\ v.step = "write" /\ v.outcome = x
      BY <3>2 DEF Command, Idle, Begun, Steps, Commands
    <3>4. Take(c, v)
      BY <3>1
    <3> HIDE DEF v
    <3>5. proc' \in [Processes -> ProcState] /\ ProcShape'
      BY <3>3, <3>4, TakeTyped DEF Processes
    <3> QED BY <1>12, <3>4, <3>5 DEF ReadEnd, TypeOK, Take
  <2>2. CASE db.chat \notin {None, c}
    BY <1>12, <2>2 DEF ReadEnd, TypeOK, ProcShape
  <2> QED BY <2>1, <2>2
<1>13. ASSUME NEW c \in Chats, WriteEnd(c) PROVE TypeInv'
  <2>1. c \in Processes /\ Busy(c) /\ proc[c].outcome \in ExitModes
    BY <1>13, <1>busy DEF WriteEnd, Processes, ProcShape
  <2>2. db' \in Control
    BY <1>13, <1>ty, <2>1, WritesTyped DEF WriteEnd
  <2>3. proc' \in [Processes -> ProcState] /\ ProcShape'
    BY <1>13, <2>1, LeaveTyped, ProceedTyped DEF WriteEnd, Steps
  <2> QED BY <1>13, <2>2, <2>3 DEF WriteEnd, TypeOK
<1>14. ASSUME HeartbeatStep PROVE TypeInv'
  <2>1. CASE ReadIdleTimeout \/ ReadAutoPause
    <3>1. PICK s \in {"write", "resume"} : Take(Heartbeat, Command("heartbeat", s))
      BY <2>1 DEF ReadIdleTimeout, ReadAutoPause
    <3>2. proc' \in [Processes -> ProcState] /\ ProcShape'
      BY <3>1, CommandTyped DEF Processes
    <3> QED BY <2>1, <3>1, <3>2 DEF ReadIdleTimeout, ReadAutoPause, TypeOK, Take
  <2>2. CASE WriteAutoPause
    <3>1. db' \in Control
      BY <2>2, <1>ty, WritesTyped DEF WriteAutoPause, Reasons
    <3>2. proc' \in [Processes -> ProcState] /\ ProcShape'
      BY <2>2, LeaveTyped DEF WriteAutoPause, Processes
    <3> QED BY <2>2, <3>1, <3>2 DEF WriteAutoPause, TypeOK
  <2> QED BY <1>14, <2>1, <2>2 DEF HeartbeatStep
<1>15. ASSUME NEW p \in Processes, Kill(p) PROVE TypeInv'
  BY <1>15, LeaveTyped, CrashesAssumption DEF Kill, TypeOK
<1>16. CASE IdleWindowPasses
  BY <1>16 DEF IdleWindowPasses, TypeOK, ProcShape
<1>17. CASE UNCHANGED vars
  BY <1>17 DEF vars, TypeOK, ProcShape
<1> QED
  BY <1>1, <1>2, <1>3, <1>4, <1>5, <1>6, <1>7, <1>8, <1>9, <1>10, <1>11, <1>12,
     <1>13, <1>14, <1>15, <1>16, <1>17
  DEF Next, OperatorStep, ChatStep

(* The control values, runs, sessions and processes always hold values the *)
(* tables can hold.                                                        *)
THEOREM TypeCorrect == Spec => []TypeOK
<1>1. Spec => []TypeInv
  BY TypeInit, TypeStep, PTL DEF Spec
<1> QED BY <1>1, PTL DEF TypeInv

(***************************************************************************)
(* The control values fit together, however the commands interleave.       *)
(***************************************************************************)
CoherentInv == TypeInv /\ ControlRecordCoherent

(* A step that leaves the control values alone and lets no task's run      *)
(* become unknown keeps them coherent.                                     *)
LEMMA QuietCoherent ==
    ASSUME ControlRecordCoherent, db' = db,
           \A t \in Tasks : run[t] # "none" => run'[t] # "none"
    PROVE  ControlRecordCoherent'
BY DEF ControlRecordCoherent

LEMMA CoherentStep == CoherentInv /\ [Next]_vars => CoherentInv'
<1> SUFFICES ASSUME CoherentInv, [Next]_vars PROVE ControlRecordCoherent'
  BY TypeStep DEF CoherentInv
<1> USE DEF CoherentInv, TypeInv
<1>ty. db \in Control
  BY DEF TypeOK
<1>1. ASSUME NEW p \in Operators, WriteCommand(p) PROVE ControlRecordCoherent'
  <2>1. ASSUME NEW r \in {"operator", "guidance"}, db' = Paused(db, r)
        PROVE  ControlRecordCoherent'
    BY <1>1, <1>ty, <2>1, NamesAssumption DEF WriteCommand, ControlRecordCoherent, Paused, Control
  <2>2. ASSUME db' = Stopped(db) PROVE ControlRecordCoherent'
    BY <1>1, <1>ty, <2>2, NamesAssumption DEF WriteCommand, ControlRecordCoherent, Stopped, Control
  <2>3. ASSUME db' = Replanning(db) PROVE ControlRecordCoherent'
    BY <1>1, <1>ty, <2>3, NamesAssumption
    DEF WriteCommand, ControlRecordCoherent, Replanning, Control
  <2> QED BY <1>1, <2>1, <2>2, <2>3 DEF WriteCommand
<1>2. ASSUME NEW p \in Processes, WriteResume(p) PROVE ControlRecordCoherent'
  BY <1>2, <1>ty, NamesAssumption DEF WriteResume, ControlRecordCoherent, Resumed, Control
<1>3. ASSUME NEW p \in Operators, WriteHandoff(p) PROVE ControlRecordCoherent'
  <2>1. proc[p].task \in Tasks
    BY <1>3 DEF WriteHandoff, ProcShape, Processes
  <2> QED
    BY <1>3, <1>ty, <2>1, NamesAssumption
    DEF WriteHandoff, ControlRecordCoherent, HandedOff, Control, TypeOK
<1>4. ASSUME NEW p \in Operators, FinishRun(p) PROVE ControlRecordCoherent'
  <2>1. proc[p].outcome \in Outcomes
    BY <1>4 DEF FinishRun, ProcShape, Processes
  <2>2. \A t \in Tasks : run[t] # "none" => run'[t] # "none"
    BY <1>4, <2>1 DEF FinishRun, TypeOK, Outcomes
  <2> QED BY <1>4, <2>2, QuietCoherent DEF FinishRun
<1>5. ASSUME NEW p \in Operators, RestoreFocus(p) PROVE ControlRecordCoherent'
  BY <1>5, <1>ty, NamesAssumption
  DEF RestoreFocus, ControlRecordCoherent, FocusReturned, ExpertInteraction, Control
<1>6. ASSUME NEW c \in Chats, WriteBegin(c) PROVE ControlRecordCoherent'
  BY <1>6, <1>ty, NamesAssumption
  DEF WriteBegin, ControlRecordCoherent, ChatBegun, ExpertInteraction, Control
<1>7. ASSUME NEW c \in Chats, WriteEnd(c) PROVE ControlRecordCoherent'
  BY <1>7, <1>ty DEF WriteEnd, ControlRecordCoherent, ChatEnded, Control
<1>8. CASE WriteAutoPause
  BY <1>8, <1>ty, NamesAssumption DEF WriteAutoPause, ControlRecordCoherent, Paused, Control
<1>9. CASE UNCHANGED <<db, run>>
  BY <1>9, QuietCoherent
<1> QED
  BY <1>1, <1>2, <1>3, <1>4, <1>5, <1>6, <1>7, <1>8, <1>9
  DEF Next, OperatorStep, ChatStep, HeartbeatStep, vars, ReadCommand, ReadHandoff, ReadReturn,
      RereadFocus, ReadBegin, ReadEnd, ReadIdleTimeout, ReadAutoPause, Kill, IdleWindowPasses

(* Whatever the interleaving of partial writes, exactly a paused agent has *)
(* a pause reason, a running one is enabled, and a task with the focus has *)
(* a run and the order to resume.                                          *)
THEOREM RecordCoherence == Spec => []ControlRecordCoherent
<1>1. Init => CoherentInv
  BY TypeInit, NamesAssumption
  DEF Init, CoherentInv, ControlRecordCoherent, ControlDefaults
<1>2. Spec => []CoherentInv
  BY <1>1, CoherentStep, PTL DEF Spec
<1> QED BY <1>2, PTL DEF CoherentInv

(***************************************************************************)
(* Commands issued one at a time.  While no two commands have overlapped,  *)
(* only one process is busy, so what it read when it started still holds   *)
(* when it writes.  SerialInv says for each command what that is.          *)
(***************************************************************************)
OneBusy == \A p, q \in Processes : Busy(p) /\ Busy(q) => p = q

PremisesHold ==
    \A p \in Processes :
        /\ proc[p].step = "resume" \/ proc[p].cmd = "replan" => db.bg = None
        /\ proc[p].cmd = "begin" /\ proc[p].resume => WasRunning(db)
        /\ proc[p].cmd = "end" /\ proc[p].resume => db.bg = None
        /\ proc[p].step = "restore" /\ proc[p].chatOpen => db.chat # None

SerialSafe ==
    /\ db.enabled <=> db.mode # "stopped"
    /\ db.bg # None => db.mode \in {"paused", "stopped"} /\ db.reason # ExpertInteraction
    /\ db.chatResume => db.chat # None /\ db.bg = None

SerialInv == ~overlap => OneBusy /\ PremisesHold /\ SerialSafe

SerialFull == TypeInv /\ SerialInv

(* A process that leaves, or is killed, takes no premise with it.          *)
LEMMA LeaveSerial ==
    ASSUME TypeInv, SerialInv, ~overlap, NEW p \in Processes, Busy(p), Leave(p)
    PROVE  OneBusy' /\ PremisesHold'
<1>1. \A q \in Processes : proc'[q] = Idle
  BY DEF SerialInv, OneBusy, Busy, Leave, TypeInv, TypeOK
<1>2. OneBusy'
  BY <1>1 DEF OneBusy, Busy
<1>3. PremisesHold'
  BY <1>1 DEF PremisesHold, Idle
<1> QED BY <1>2, <1>3

(* A process that goes on to its next transaction stays the only busy one. *)
LEMMA ProceedSerial ==
    ASSUME TypeInv, SerialInv, ~overlap, NEW p \in Processes, Busy(p), NEW s \in Steps,
           Proceed(p, s)
    PROVE  /\ OneBusy'
           /\ \A q \in Processes : q # p => proc'[q] = Idle
           /\ proc'[p] = [proc[p] EXCEPT !.step = s]
<1>1. \A q \in Processes : q # p => proc'[q] = Idle
  BY DEF SerialInv, OneBusy, Busy, Proceed, TypeInv, TypeOK
<1>2. OneBusy'
  BY <1>1 DEF OneBusy, Busy
<1>3. proc'[p] = [proc[p] EXCEPT !.step = s]
  BY DEF Proceed, TypeInv, TypeOK
<1> QED BY <1>1, <1>2, <1>3

(* A process that starts while no other is busy is the only busy one; the  *)
(* premises it needs are those of the command it starts.                   *)
LEMMA TakeSerial ==
    ASSUME TypeInv, SerialInv, NEW p \in Processes, NEW v, Take(p, v), ~overlap',
           db' = db,
           v.step = "resume" \/ v.cmd = "replan" => db.bg = None,
           v.cmd = "begin" /\ v.resume => WasRunning(db),
           v.cmd = "end" /\ v.resume => db.bg = None,
           v.step # "restore"
    PROVE  SerialInv'
<1>1. ~overlap /\ \A q \in Processes : ~Busy(q)
  BY DEF Take, TypeInv, TypeOK
<1>2. \A q \in Processes : proc'[q] = IF q = p THEN v ELSE Idle
  BY <1>1 DEF Take, Busy, TypeInv, TypeOK
<1>3. OneBusy'
  BY <1>2 DEF OneBusy, Busy
<1>4. PremisesHold'
  BY <1>2 DEF PremisesHold, Idle, WasRunning
<1> QED BY <1>1, <1>3, <1>4 DEF SerialInv, SerialSafe

(* The history variable never forgets that two commands overlapped.        *)
LEMMA OverlapStays == [Next]_vars /\ overlap => overlap'
BY DEF Next, vars, OperatorStep, ChatStep, HeartbeatStep, Take, ReadCommand, WriteCommand,
       WriteResume, ReadHandoff, WriteHandoff, ReadReturn, FinishRun, RereadFocus,
       RestoreFocus, ReadBegin, WriteBegin, ReadEnd, WriteEnd, ReadIdleTimeout,
       ReadAutoPause, WriteAutoPause, IdleWindowPasses, Kill

LEMMA SerialStep == SerialFull /\ [Next]_vars => SerialFull'
<1> SUFFICES ASSUME SerialFull, [Next]_vars, ~overlap'
             PROVE  OneBusy' /\ PremisesHold' /\ SerialSafe'
  BY TypeStep DEF SerialFull, SerialInv
<1> USE DEF SerialFull
<1>ty. /\ db \in Control
       /\ \A p \in Processes : Busy(p) => proc[p] \in Begun
  BY DEF TypeInv, TypeOK, ProcState, Busy, Begun
<1>busy. \A p \in Processes : proc[p].step # "none" \/ proc[p].cmd # "none" => Busy(p)
  BY DEF Busy, Idle
<1>0. ~overlap /\ OneBusy /\ PremisesHold /\ SerialSafe
  BY OverlapStays DEF SerialInv
<1>1. ASSUME NEW p \in Operators, WriteCommand(p)
      PROVE  OneBusy' /\ PremisesHold' /\ SerialSafe'
  <2>1. p \in Processes /\ Busy(p)
    BY <1>1, <1>busy DEF WriteCommand, Processes
  <2>2. OneBusy' /\ PremisesHold'
    BY <1>0, <1>1, <2>1, LeaveSerial DEF WriteCommand
  <2>3. ASSUME NEW r \in {"operator", "guidance"}, db' = Paused(db, r) PROVE SerialSafe'
    BY <1>0, <2>3, <1>ty DEF SerialSafe, Paused, Control, ExpertInteraction
  <2>4. ASSUME db' = Stopped(db) PROVE SerialSafe'
    BY <1>0, <2>4, <1>ty, NamesAssumption DEF SerialSafe, Stopped, Control, ExpertInteraction
  <2>5. ASSUME db' = Replanning(db), db.bg = None PROVE SerialSafe'
    BY <1>0, <2>5, <1>ty DEF SerialSafe, Replanning, Control
  <2>6. proc[p].cmd = "replan" => db.bg = None
    BY <1>0, <2>1 DEF PremisesHold
  <2> QED BY <1>1, <2>2, <2>3, <2>4, <2>5, <2>6 DEF WriteCommand
<1>2. ASSUME NEW p \in Processes, WriteResume(p)
      PROVE  OneBusy' /\ PremisesHold' /\ SerialSafe'
  <2>1. Busy(p) /\ db.bg = None
    BY <1>0, <1>2, <1>busy DEF WriteResume, PremisesHold
  <2>2. OneBusy' /\ PremisesHold'
    BY <1>0, <1>2, <2>1, LeaveSerial DEF WriteResume
  <2>3. SerialSafe'
    BY <1>0, <1>2, <2>1, <1>ty DEF WriteResume, SerialSafe, Resumed, Control
  <2> QED BY <2>2, <2>3
<1>3. ASSUME NEW p \in Operators, WriteHandoff(p)
      PROVE  OneBusy' /\ PremisesHold' /\ SerialSafe'
  <2>1. p \in Processes /\ Busy(p) /\ proc[p].task \in Tasks
    BY <1>3, <1>busy DEF WriteHandoff, Processes, TypeInv, ProcShape
  <2>2. OneBusy' /\ PremisesHold'
    BY <1>0, <1>3, <2>1, LeaveSerial DEF WriteHandoff
  <2>3. SerialSafe'
    BY <1>0, <1>3, <2>1, <1>ty, NamesAssumption
    DEF WriteHandoff, SerialSafe, HandedOff, Control, ExpertInteraction
  <2> QED BY <2>2, <2>3
<1>4. ASSUME NEW p \in Operators, FinishRun(p)
      PROVE  OneBusy' /\ PremisesHold' /\ SerialSafe'
  <2>1. p \in Processes /\ Busy(p) /\ proc[p].cmd = "return"
    BY <1>4, <1>busy DEF FinishRun, Processes, TypeInv, ProcShape
  <2>2. CASE Leave(p)
    BY <1>0, <1>4, <2>1, <2>2, LeaveSerial DEF FinishRun, SerialSafe
  <2>3. CASE Proceed(p, "reread")
    <3>1. /\ OneBusy'
          /\ \A q \in Processes : q # p => proc'[q] = Idle
          /\ proc'[p] = [proc[p] EXCEPT !.step = "reread"]
      BY <1>0, <2>1, <2>3, ProceedSerial DEF Steps
    <3>2. PremisesHold'
      BY <2>1, <3>1, <1>ty DEF PremisesHold, Idle, Begun
    <3> QED BY <1>0, <1>4, <3>1, <3>2 DEF FinishRun, SerialSafe
  <2> QED BY <1>4, <2>2, <2>3 DEF FinishRun
<1>5. ASSUME NEW p \in Operators, RereadFocus(p)
      PROVE  OneBusy' /\ PremisesHold' /\ SerialSafe'
  <2>1. p \in Processes /\ Busy(p) /\ proc[p].cmd = "return"
    BY <1>5, <1>busy DEF RereadFocus, Processes, TypeInv, ProcShape
  <2>2. CASE Leave(p)
    BY <1>0, <1>5, <2>1, <2>2, LeaveSerial DEF RereadFocus, SerialSafe
  <2>3. CASE ~Leave(p)
    <3>1. \A q \in Processes : q # p => proc'[q] = Idle
      BY <1>0, <1>5, <2>1, <2>3 DEF RereadFocus, OneBusy, Busy, TypeInv, TypeOK
    <3>2. /\ proc'[p].cmd = "return" /\ proc'[p].step = "restore"
          /\ proc'[p].chatOpen => db'.chat # None
      BY <1>5, <2>1, <2>3, <1>ty DEF RereadFocus, TypeInv, TypeOK, Begun
    <3>3. OneBusy'
      BY <3>1 DEF OneBusy, Busy
    <3>4. PremisesHold'
      BY <3>1, <3>2 DEF PremisesHold, Idle
    <3> QED BY <1>0, <1>5, <3>3, <3>4 DEF RereadFocus, SerialSafe
  <2> QED BY <2>2, <2>3
<1>6. ASSUME NEW p \in Operators, RestoreFocus(p)
      PROVE  OneBusy' /\ PremisesHold' /\ SerialSafe'
  <2>1. p \in Processes /\ Busy(p) /\ proc[p].cmd = "return"
    BY <1>6, <1>busy DEF RestoreFocus, Processes, TypeInv, ProcShape
  <2>2. proc[p].chatOpen => db.chat # None
    BY <1>0, <1>6, <2>1 DEF RestoreFocus, PremisesHold
  <2>3. SerialSafe' /\ db'.bg = None
    BY <1>0, <1>6, <2>2, <1>ty DEF RestoreFocus, SerialSafe, FocusReturned, Control
  <2>4. CASE Leave(p)
    BY <1>0, <2>1, <2>3, <2>4, LeaveSerial
  <2>5. CASE Proceed(p, "resume")
    <3>1. /\ OneBusy'
          /\ \A q \in Processes : q # p => proc'[q] = Idle
          /\ proc'[p] = [proc[p] EXCEPT !.step = "resume"]
      BY <1>0, <2>1, <2>5, ProceedSerial DEF Steps
    <3>2. PremisesHold'
      BY <2>1, <2>3, <3>1, <1>ty DEF PremisesHold, Idle, Begun
    <3> QED BY <2>3, <3>1, <3>2
  <2> QED BY <1>6, <2>4, <2>5 DEF RestoreFocus
<1>7. ASSUME NEW c \in Chats, WriteBegin(c)
      PROVE  OneBusy' /\ PremisesHold' /\ SerialSafe'
  <2>1. c \in Processes /\ Busy(c)
    BY <1>7, <1>busy DEF WriteBegin, Processes
  <2>2. OneBusy' /\ PremisesHold'
    BY <1>0, <1>7, <2>1, LeaveSerial DEF WriteBegin
  <2>3. SerialSafe'
    <3>1. CASE proc[c].resume
      <4>1. WasRunning(db)
        BY <1>0, <1>7, <2>1, <3>1 DEF WriteBegin, PremisesHold
      <4> QED
        BY <1>0, <1>7, <3>1, <4>1, <1>ty, NamesAssumption
        DEF WriteBegin, SerialSafe, ChatBegun, WasRunning, Control
    <3>2. CASE ~proc[c].resume
      BY <1>0, <1>7, <3>2, <1>ty DEF WriteBegin, SerialSafe, ChatBegun, Control
    <3> QED BY <3>1, <3>2
  <2> QED BY <2>2, <2>3
<1>8. ASSUME NEW c \in Chats, WriteEnd(c)
      PROVE  OneBusy' /\ PremisesHold' /\ SerialSafe'
  <2>1. c \in Processes /\ Busy(c)
    BY <1>8, <1>busy DEF WriteEnd, Processes
  <2>2. SerialSafe' /\ db'.bg = db.bg
    BY <1>0, <1>8, <1>ty DEF WriteEnd, SerialSafe, ChatEnded, Control
  <2>3. CASE Leave(c)
    BY <1>0, <2>1, <2>2, <2>3, LeaveSerial
  <2>4. CASE proc[c].resume /\ Proceed(c, "resume")
    <3>1. /\ OneBusy'
          /\ \A q \in Processes : q # c => proc'[q] = Idle
          /\ proc'[c] = [proc[c] EXCEPT !.step = "resume"]
      BY <1>0, <2>1, <2>4, ProceedSerial DEF Steps
    <3>2. db.bg = None /\ proc[c].cmd = "end"
      BY <1>0, <1>8, <2>1, <2>4 DEF WriteEnd, PremisesHold
    <3>3. PremisesHold'
      BY <2>1, <2>2, <3>1, <3>2, <1>ty DEF PremisesHold, Idle, Begun
    <3> QED BY <2>2, <3>1, <3>3
  <2> QED BY <1>8, <2>3, <2>4 DEF WriteEnd
<1>9. CASE WriteAutoPause
  <2>1. Heartbeat \in Processes /\ Busy(Heartbeat)
    BY <1>9, <1>busy DEF WriteAutoPause, Processes
  <2>2. OneBusy' /\ PremisesHold'
    BY <1>0, <1>9, <2>1, LeaveSerial DEF WriteAutoPause
  <2>3. SerialSafe'
    BY <1>0, <1>9, <1>ty DEF WriteAutoPause, SerialSafe, Paused, Control, ExpertInteraction
  <2> QED BY <2>2, <2>3
<1>10. ASSUME NEW p \in Processes, Kill(p)
      PROVE  OneBusy' /\ PremisesHold' /\ SerialSafe'
  <2>1. CASE Busy(p)
    BY <1>0, <1>10, <2>1, LeaveSerial DEF Kill, SerialSafe
  <2>2. CASE ~Busy(p)
    <3>1. proc' = proc
      BY <1>10, <2>2 DEF Kill, Leave, Busy, TypeInv, TypeOK
    <3> QED BY <1>0, <1>10, <3>1 DEF Kill, SerialSafe, OneBusy, PremisesHold, Busy, WasRunning
  <2> QED BY <2>1, <2>2
<1>11. CASE UNCHANGED <<db, proc>>
  BY <1>0, <1>11 DEF SerialSafe, OneBusy, PremisesHold, Busy, WasRunning
<1>12. ASSUME NEW p \in Processes, NEW v, Take(p, v), UNCHANGED db,
              v.step = "resume" \/ v.cmd = "replan" => db.bg = None,
              v.cmd = "begin" /\ v.resume => WasRunning(db),
              v.cmd = "end" /\ v.resume => db.bg = None,
              v.step # "restore"
       PROVE  OneBusy' /\ PremisesHold' /\ SerialSafe'
  BY <1>12, TakeSerial DEF SerialInv
<1>13. ASSUME NEW p \in Operators, ReadCommand(p)
       PROVE  OneBusy' /\ PremisesHold' /\ SerialSafe'
  <2>1. PICK c \in {"start", "replan", "pause", "stop", "clarify"}, s \in {"write", "resume"} :
            Take(p, Command(c, s)) /\ (c \in {"start", "replan"} => db.bg = None)
                                  /\ (s = "resume" => c = "start")
    BY <1>13 DEF ReadCommand, NoFocus
  <2> DEFINE v == Command(c, s)
  <2>2. v.cmd = c /\ v.step = s /\ Take(p, v)
    BY <2>1 DEF Command, Idle
  <2> HIDE DEF v
  <2> QED BY <1>12, <1>13, <2>1, <2>2 DEF ReadCommand, Processes
<1>14. ASSUME NEW p \in Operators, NEW t \in Tasks, ReadHandoff(p, t)
       PROVE  OneBusy' /\ PremisesHold' /\ SerialSafe'
  <2> DEFINE v == [Command("handoff", "write") EXCEPT !.task = t]
  <2>1. v.cmd = "handoff" /\ v.step = "write" /\ Take(p, v)
    BY <1>14 DEF ReadHandoff, Command, Idle
  <2> HIDE DEF v
  <2> QED BY <1>12, <1>14, <2>1 DEF ReadHandoff, Processes
<1>15. ASSUME NEW p \in Operators, NEW t \in Tasks, ReadReturn(p, t)
       PROVE  OneBusy' /\ PremisesHold' /\ SerialSafe'
  <2>1. PICK o \in Outcomes :
            Take(p, [Command("return", "finish") EXCEPT !.task = t, !.outcome = o])
    BY <1>15 DEF ReadReturn
  <2> DEFINE v == [Command("return", "finish") EXCEPT !.task = t, !.outcome = o]
  <2>2. v.cmd = "return" /\ v.step = "finish" /\ Take(p, v)
    BY <2>1 DEF Command, Idle
  <2> HIDE DEF v
  <2> QED BY <1>12, <1>15, <2>2 DEF ReadReturn, Processes
<1>16. ASSUME NEW c \in Chats, ReadBegin(c)
       PROVE  OneBusy' /\ PremisesHold' /\ SerialSafe'
  <2> DEFINE v == [Command("begin", "write") EXCEPT !.resume = WasRunning(db)]
  <2>1. v.cmd = "begin" /\ v.step = "write" /\ v.resume = WasRunning(db) /\ Take(c, v)
    BY <1>16 DEF ReadBegin, Command, Idle
  <2> HIDE DEF v
  <2> QED BY <1>12, <1>16, <2>1 DEF ReadBegin, Processes
<1>17. ASSUME NEW c \in Chats, ReadEnd(c)
       PROVE  OneBusy' /\ PremisesHold' /\ SerialSafe'
  <2>1. CASE db.chat \in {None, c}
    <3>1. PICK x \in ExitModes :
              Take(c, [Command("end", "write") EXCEPT !.outcome = x,
                                                      !.resume = ResumesOnClose(db, x)])
      BY <1>17, <2>1 DEF ReadEnd
    <3> DEFINE v == [Command("end", "write") EXCEPT !.outcome = x,
                                                    !.resume = ResumesOnClose(db, x)]
    <3>2. v.cmd = "end" /\ v.step = "write" /\ v.resume = ResumesOnClose(db, x) /\ Take(c, v)
      BY <3>1 DEF Command, Idle
    <3> HIDE DEF v
    <3>3. v.resume => db.bg = None
      BY <1>0, <3>2 DEF ResumesOnClose, SerialSafe
    <3> QED BY <1>12, <1>17, <3>2, <3>3 DEF ReadEnd, Processes
  <2>2. CASE db.chat \notin {None, c}
    BY <1>11, <1>17, <2>2 DEF ReadEnd
  <2> QED BY <2>1, <2>2
<1>18. CASE ReadIdleTimeout \/ ReadAutoPause
  <2>1. PICK s \in {"write", "resume"} :
            Take(Heartbeat, Command("heartbeat", s)) /\ (s = "resume" => ChatIdledOut(db))
    BY <1>18 DEF ReadIdleTimeout, ReadAutoPause
  <2> DEFINE v == Command("heartbeat", s)
  <2>2. v.cmd = "heartbeat" /\ v.step = s /\ Take(Heartbeat, v)
    BY <2>1 DEF Command, Idle
  <2> HIDE DEF v
  <2>3. s = "resume" => db.bg = None
    BY <1>0, <2>1 DEF ChatIdledOut, PausedForExpert, SerialSafe
  <2> QED BY <1>12, <1>18, <2>2, <2>3 DEF ReadIdleTimeout, ReadAutoPause, Processes
<1> QED
  BY <1>1, <1>2, <1>3, <1>4, <1>5, <1>6, <1>7, <1>8, <1>9, <1>10, <1>11, <1>13, <1>14,
     <1>15, <1>16, <1>17, <1>18
  DEF Next, OperatorStep, ChatStep, HeartbeatStep, IdleWindowPasses, vars

LEMMA SerialInit == Init => SerialFull
<1> SUFFICES ASSUME Init PROVE OneBusy /\ PremisesHold /\ SerialSafe
  BY TypeInit DEF SerialFull, SerialInv
<1>1. OneBusy
  BY DEF Init, OneBusy, Busy
<1>2. PremisesHold
  BY DEF Init, PremisesHold, Idle
<1>3. SerialSafe
  BY DEF Init, SerialSafe, ControlDefaults
<1> QED BY <1>1, <1>2, <1>3

LEMMA SerialAlways == Spec => []SerialFull
BY SerialInit, SerialStep, PTL DEF Spec

(* As long as commands are issued one at a time, a background task that    *)
(* owns the focus keeps the agent from running, and no end of a chat or    *)
(* idle time-out could lift the pause.                                     *)
THEOREM FocusIsExclusive == Spec => []FocusExcludesRunning
<1>1. SerialFull => FocusExcludesRunning
  BY DEF SerialFull, SerialInv, SerialSafe, FocusExcludesRunning
<1> QED BY <1>1, SerialAlways, PTL

(* As long as commands are issued one at a time, agent_enabled is false    *)
(* exactly in stopped mode.                                                *)
THEOREM StoppedMeansDisabled == Spec => []StoppedIffDisabled
<1>1. SerialFull => StoppedIffDisabled
  BY DEF SerialFull, SerialInv, SerialSafe, StoppedIffDisabled
<1> QED BY <1>1, SerialAlways, PTL

(* As long as commands are issued one at a time, an order to resume when   *)
(* the chat closes exists only while a chat is open, never beside a task.  *)
THEOREM ResumeOrderNeedsChat == Spec => []ResumeOrderHasChat
<1>1. SerialFull => ResumeOrderHasChat
  BY DEF SerialFull, SerialInv, SerialSafe, ResumeOrderHasChat
<1> QED BY <1>1, SerialAlways, PTL

(***************************************************************************)
(* What chats, the heartbeat and background tasks may do to the control    *)
(* values.  HandoffFresh holds however commands overlap: a hand-off under  *)
(* way is the only one of its task, which has no run before it.  While no  *)
(* two commands overlapped a process finds what it derived its order from  *)
(* as it read it (Premise): the pause of a chat its end or time-out will   *)
(* lift, the focus free or owned by the task at hand, whose run has ended. *)
(***************************************************************************)
HandoffFresh ==
    \A p \in Processes :
        /\ proc[p].cmd = "handoff" => run[proc[p].task] = "none"
        /\ proc[p].cmd = "return" => run[proc[p].task] # "none"
        /\ \A q \in Processes :
               proc[p].cmd = "handoff" /\ proc[q].cmd = "handoff"
                   /\ proc[p].task = proc[q].task => p = q

Premise(p, v) ==
    /\ v.cmd = "handoff" => db.bg = None
    /\ v.step \in {"reread", "restore"} => run[v.task] \in Outcomes
    /\ v.step = "restore" => db.bg = v.task
    /\ v.cmd = "end" /\ v.resume => PausedForExpert(db)
    /\ p \in Chats \cup {Heartbeat} /\ v.step = "resume" => PausedForExpert(db)
    /\ p = Heartbeat /\ v.step = "write" => WasRunning(db)

PremisesKept == ~overlap => \A p \in Processes : Premise(p, proc[p])

FocusFull == SerialFull /\ HandoffFresh /\ PremisesKept

(* A hand-off is not disturbed by a step that changes no run and begins    *)
(* neither a hand-off nor the return of a task without run.                *)
LEMMA FreshQuiet ==
    ASSUME TypeInv, HandoffFresh, NEW p \in Processes, NEW v,
           proc' = [proc EXCEPT ![p] = v], run' = run,
           v.cmd # "handoff",
           v.cmd = "return" => run[v.task] # "none"
    PROVE  HandoffFresh'
<1>1. \A q \in Processes : proc'[q] = IF q = p THEN v ELSE proc[q]
  BY DEF TypeInv, TypeOK
<1> QED BY <1>1 DEF HandoffFresh

LEMMA FreshStep == TypeInv /\ HandoffFresh /\ [Next]_vars => HandoffFresh'
<1> SUFFICES ASSUME TypeInv, HandoffFresh, [Next]_vars PROVE HandoffFresh'
  OBVIOUS
<1>idle. Idle.cmd # "handoff" /\ Idle.cmd # "return"
  BY DEF Idle
<1>busy. \A p \in Processes : proc[p].step # "none" \/ proc[p].cmd # "none" =>
             proc[p] \in Begun /\ Busy(p)
  BY DEF TypeInv, TypeOK, ProcState, Begun, Busy, Idle
<1>ops. Operators \subseteq Processes /\ Chats \subseteq Processes /\ Heartbeat \in Processes
  BY DEF Processes
<1>1. ASSUME NEW p \in Processes, Leave(p), run' = run PROVE HandoffFresh'
  BY <1>1, <1>idle, FreshQuiet DEF Leave
<1>2. ASSUME NEW p \in Processes, NEW v, Take(p, v), run' = run, v.cmd # "handoff",
             v.cmd = "return" => run[v.task] # "none"
      PROVE  HandoffFresh'
  BY <1>2, FreshQuiet DEF Take
<1>3. ASSUME NEW p \in Processes, NEW s \in Steps, Proceed(p, s), run' = run,
             proc[p].cmd \in {"return", "end"}
      PROVE  HandoffFresh'
  <2>1. PICK v : v = [proc[p] EXCEPT !.step = s]
    OBVIOUS
  <2>2. v.cmd = proc[p].cmd /\ v.task = proc[p].task
    BY <1>3, <1>busy, <2>1 DEF Begun
  <2> QED BY <1>3, <2>1, <2>2, FreshQuiet DEF Proceed, HandoffFresh
<1>4. ASSUME NEW p \in Operators, WriteCommand(p) PROVE HandoffFresh'
  BY <1>1, <1>4, <1>ops DEF WriteCommand
<1>5. ASSUME NEW p \in Processes, WriteResume(p) \/ Kill(p) PROVE HandoffFresh'
  BY <1>1, <1>5 DEF WriteResume, Kill
<1>6. ASSUME NEW p \in Operators, ReadCommand(p) PROVE HandoffFresh'
  <2>1. PICK c \in {"start", "replan", "pause", "stop", "clarify"}, s \in {"write", "resume"} :
            Take(p, Command(c, s))
    BY <1>6 DEF ReadCommand
  <2>2. PICK v : v = Command(c, s)
    OBVIOUS
  <2>3. v.cmd = c
    BY <2>2 DEF Command, Idle
  <2> QED BY <1>2, <1>6, <1>ops, <2>1, <2>2, <2>3 DEF ReadCommand
<1>7. ASSUME NEW p \in Operators, NEW t \in Tasks, ReadHandoff(p, t) PROVE HandoffFresh'
  <2>1. PICK v : v = [Command("handoff", "write") EXCEPT !.task = t]
    OBVIOUS
  <2>2. v.cmd = "handoff" /\ v.task = t
    BY <2>1 DEF Command, Idle
  <2>3. \A q \in Processes : proc'[q] = IF q = p THEN v ELSE proc[q]
    BY <1>7, <2>1 DEF ReadHandoff, Take, TypeInv, TypeOK
  <2>4. run' = run /\ run[t] = "none" /\ \A q \in Processes : proc[q].task # t
    BY <1>7 DEF ReadHandoff
  <2> QED BY <2>2, <2>3, <2>4 DEF HandoffFresh
<1>8. ASSUME NEW p \in Operators, NEW t \in Tasks, ReadReturn(p, t) PROVE HandoffFresh'
  <2>1. PICK o \in Outcomes :
            Take(p, [Command("return", "finish") EXCEPT !.task = t, !.outcome = o])
    BY <1>8 DEF ReadReturn
  <2>2. PICK v : v = [Command("return", "finish") EXCEPT !.task = t, !.outcome = o]
    OBVIOUS
  <2>3. v.cmd = "return" /\ v.task = t /\ run[t] # "none" /\ run' = run
    BY <1>8, <2>2 DEF ReadReturn, Command, Idle
  <2> QED BY <1>2, <1>ops, <2>1, <2>2, <2>3
<1>9. ASSUME NEW p \in Operators, WriteHandoff(p) PROVE HandoffFresh'
  <2>1. /\ p \in Processes /\ proc[p].cmd = "handoff" /\ proc[p].task \in Tasks
        /\ \A q \in Processes : proc'[q] = IF q = p THEN Idle ELSE proc[q]
        /\ run' = [run EXCEPT ![proc[p].task] = "in_progress"]
    BY <1>9, <1>ops DEF WriteHandoff, Leave, TypeInv, TypeOK, ProcShape
  <2>2. \A t \in Tasks : run'[t] = IF t = proc[p].task THEN "in_progress" ELSE run[t]
    BY <2>1 DEF TypeInv, TypeOK
  <2>3. ASSUME NEW q \in Processes
        PROVE  /\ proc'[q].cmd = "handoff" => run'[proc'[q].task] = "none"
               /\ proc'[q].cmd = "return" => run'[proc'[q].task] # "none"
    <3>1. CASE q = p
      BY <1>idle, <2>1, <3>1
    <3>2. CASE q # p
      <4>1. proc[q].cmd \in {"handoff", "return"} => proc[q].task \in Tasks
        BY DEF TypeInv, ProcShape
      <4> QED BY <2>1, <2>2, <3>2, <4>1 DEF HandoffFresh
    <3> QED BY <3>1, <3>2
  <2>4. ASSUME NEW q \in Processes, NEW r \in Processes,
               proc'[q].cmd = "handoff", proc'[r].cmd = "handoff",
               proc'[q].task = proc'[r].task
        PROVE  q = r
    BY <1>idle, <2>1, <2>4 DEF HandoffFresh
  <2> QED BY <2>3, <2>4 DEF HandoffFresh
<1>10. ASSUME NEW p \in Operators, FinishRun(p) PROVE HandoffFresh'
  <2>1. p \in Processes /\ proc[p].cmd = "return" /\ proc[p].task \in Tasks
        /\ proc[p].outcome \in Outcomes
    BY <1>10, <1>ops DEF FinishRun, TypeInv, ProcShape
  <2>2. CASE run' = run
    BY <1>1, <1>3, <1>10, <2>1, <2>2 DEF FinishRun, Steps
  <2>3. CASE run' = [run EXCEPT ![proc[p].task] = proc[p].outcome] /\ Proceed(p, "reread")
    <3>1. PICK v : v = [proc[p] EXCEPT !.step = "reread"]
      OBVIOUS
    <3>2. v.cmd = "return" /\ v.task = proc[p].task
      BY <1>busy, <2>1, <3>1 DEF Begun
    <3>3. \A q \in Processes : proc'[q] = IF q = p THEN v ELSE proc[q]
      BY <2>3, <3>1 DEF Proceed, TypeInv, TypeOK
    <3>4. \A t \in Tasks : run'[t] = IF t = proc[p].task THEN proc[p].outcome ELSE run[t]
      BY <2>1, <2>3 DEF TypeInv, TypeOK
    <3>5. run[proc[p].task] # "none" /\ proc[p].outcome # "none"
      BY <2>1 DEF HandoffFresh, Outcomes
    <3>6. \A q \in Processes : proc[q].cmd \in {"handoff", "return"} => proc[q].task \in Tasks
      BY DEF TypeInv, ProcShape
    <3>7. ASSUME NEW q \in Processes
          PROVE  /\ proc'[q].cmd = "handoff" => run'[proc'[q].task] = "none"
                 /\ proc'[q].cmd = "return" => run'[proc'[q].task] # "none"
      BY <2>1, <3>2, <3>3, <3>4, <3>5, <3>6 DEF HandoffFresh
    <3>8. ASSUME NEW q \in Processes, NEW r \in Processes,
                 proc'[q].cmd = "handoff", proc'[r].cmd = "handoff",
                 proc'[q].task = proc'[r].task
          PROVE  q = r
      BY <3>2, <3>3, <3>8 DEF HandoffFresh
    <3> QED BY <3>7, <3>8 DEF HandoffFresh
  <2> QED BY <1>10, <2>2, <2>3 DEF FinishRun
<1>11. ASSUME NEW p \in Operators, RereadFocus(p) PROVE HandoffFresh'
  <2>1. p \in Processes /\ proc[p].cmd = "return" /\ run' = run
    BY <1>11, <1>ops DEF RereadFocus, TypeInv, ProcShape
  <2>2. CASE Leave(p)
    BY <1>1, <2>1, <2>2
  <2>3. CASE ~Leave(p)
    <3>1. PICK v : v = [proc[p] EXCEPT !.step = "restore", !.resume = db.bgResume,
                                       !.chatOpen = (db.chat # None)]
      OBVIOUS
    <3>2. proc' = [proc EXCEPT ![p] = v]
      BY <1>11, <2>1, <2>3, <3>1 DEF RereadFocus, TypeInv, TypeOK
    <3>3. v.cmd = "return" /\ v.task = proc[p].task
      BY <1>busy, <2>1, <3>1 DEF Begun
    <3> QED BY <2>1, <3>2, <3>3, FreshQuiet DEF HandoffFresh
  <2> QED BY <2>2, <2>3
<1>12. ASSUME NEW p \in Operators, RestoreFocus(p) PROVE HandoffFresh'
  <2>1. p \in Processes /\ proc[p].cmd = "return" /\ run' = run
    BY <1>12, <1>ops DEF RestoreFocus, TypeInv, ProcShape
  <2> QED BY <1>1, <1>3, <1>12, <2>1 DEF RestoreFocus, Steps
<1>13. ASSUME NEW c \in Chats, ReadBegin(c) PROVE HandoffFresh'
  <2>1. PICK v : v = [Command("begin", "write") EXCEPT !.resume = WasRunning(db)]
    OBVIOUS
  <2>2. v.cmd = "begin"
    BY <2>1 DEF Command, Idle
  <2> QED BY <1>2, <1>13, <1>ops, <2>1, <2>2 DEF ReadBegin
<1>14. ASSUME NEW c \in Chats, ReadEnd(c) PROVE HandoffFresh'
  <2>1. CASE db.chat \in {None, c}
    <3>1. PICK x \in ExitModes :
              Take(c, [Command("end", "write") EXCEPT !.outcome = x,
                                                      !.resume = ResumesOnClose(db, x)])
      BY <1>14, <2>1 DEF ReadEnd
    <3>2. PICK v : v = [Command("end", "write") EXCEPT !.outcome = x,
                                                       !.resume = ResumesOnClose(db, x)]
      OBVIOUS
    <3>3. v.cmd = "end"
      BY <3>2 DEF Command, Idle
    <3> QED BY <1>2, <1>14, <1>ops, <3>1, <3>2, <3>3 DEF ReadEnd
  <2>2. CASE db.chat \notin {None, c}
    BY <1>14, <2>2 DEF ReadEnd, HandoffFresh
  <2> QED BY <2>1, <2>2
<1>15. ASSUME NEW c \in Chats, WriteBegin(c) PROVE HandoffFresh'
  BY <1>1, <1>15, <1>ops DEF WriteBegin
<1>16. ASSUME NEW c \in Chats, WriteEnd(c) PROVE HandoffFresh'
  BY <1>1, <1>3, <1>16, <1>ops DEF WriteEnd, Steps
<1>17. CASE HeartbeatStep
  <2>1. CASE WriteAutoPause
    BY <1>1, <1>ops, <2>1 DEF WriteAutoPause
  <2>2. CASE ReadIdleTimeout \/ ReadAutoPause
    <3>1. PICK s \in {"write", "resume"} : Take(Heartbeat, Command("heartbeat", s))
      BY <2>2 DEF ReadIdleTimeout, ReadAutoPause
    <3>2. PICK v : v = Command("heartbeat", s)
      OBVIOUS
    <3>3. v.cmd = "heartbeat" /\ run' = run
      BY <2>2, <3>2 DEF Command, Idle, ReadIdleTimeout, ReadAutoPause
    <3> QED BY <1>2, <1>ops, <3>1, <3>2, <3>3
  <2> QED BY <1>17, <2>1, <2>2 DEF HeartbeatStep
<1>18. CASE IdleWindowPasses \/ UNCHANGED vars
  BY <1>18 DEF IdleWindowPasses, vars, HandoffFresh
<1> QED
  BY <1>4, <1>5, <1>6, <1>7, <1>8, <1>9, <1>10, <1>11, <1>12, <1>13, <1>14, <1>15, <1>16,
     <1>17, <1>18
  DEF Next, OperatorStep, ChatStep

(* When only p moves and every other process is idle, the premises of the  *)
(* state it leaves behind are those of p.                                  *)
LEMMA MoverPremise ==
    ASSUME TypeInv, NEW p \in Processes, NEW v, proc' = [proc EXCEPT ![p] = v],
           \A q \in Processes : q # p => proc[q] = Idle,
           Premise(p, v)'
    PROVE  PremisesKept'
<1>1. \A q \in Processes : proc'[q] = IF q = p THEN v ELSE Idle
  BY DEF TypeInv, TypeOK
<1>2. \A q \in Processes : Premise(q, Idle)'
  BY DEF Premise, Idle
<1>3. ASSUME NEW q \in Processes PROVE Premise(q, proc[q])'
  <2>1. CASE q = p
    BY <1>1, <2>1 DEF Premise
  <2>2. CASE q # p
    BY <1>1, <1>2, <2>2 DEF Premise
  <2> QED BY <2>1, <2>2
<1> QED BY <1>3 DEF PremisesKept

LEMMA PremisesStep == SerialFull /\ PremisesKept /\ [Next]_vars => PremisesKept'
<1> SUFFICES ASSUME SerialFull, PremisesKept, [Next]_vars, ~overlap' PROVE PremisesKept'
  BY DEF PremisesKept
<1> USE DEF SerialFull
<1>0. ~overlap /\ OneBusy /\ \A p \in Processes : Premise(p, proc[p])
  BY OverlapStays DEF SerialInv, PremisesKept
<1>ty. \A p \in Processes : Busy(p) => proc[p] \in Begun
  BY DEF TypeInv, TypeOK, ProcState, Busy, Begun
<1>busy. \A p \in Processes : proc[p].step # "none" \/ proc[p].cmd # "none" => Busy(p)
  BY DEF Busy, Idle
<1>ops. /\ Operators \subseteq Processes /\ Chats \subseteq Processes /\ Heartbeat \in Processes
        /\ \A p \in Operators : p \notin Chats \cup {Heartbeat}
  BY ProcessAssumption DEF Processes
<1>alone. ASSUME NEW p \in Processes, Busy(p)
          PROVE  \A q \in Processes : q # p => proc[q] = Idle
  BY <1>0, <1>alone DEF OneBusy, Busy
<1>1. ASSUME NEW p \in Processes, Busy(p), Leave(p) PROVE PremisesKept'
  <2>1. Premise(p, Idle)'
    BY DEF Premise, Idle
  <2>2. PICK v : v = Idle
    OBVIOUS
  <2> QED BY <1>1, <1>alone, <2>1, <2>2, MoverPremise DEF Leave
<1>2. ASSUME NEW p \in Processes, NEW v, Take(p, v), Premise(p, v)' PROVE PremisesKept'
  <2>1. \A q \in Processes : proc[q] = Idle
    BY <1>2 DEF Take, Busy
  <2> QED BY <1>2, <2>1, MoverPremise DEF Take
<1>3. ASSUME NEW p \in Processes, Busy(p), NEW v, proc' = [proc EXCEPT ![p] = v], Premise(p, v)'
      PROVE  PremisesKept'
  BY <1>3, <1>alone, MoverPremise
<1>4. ASSUME NEW p \in Operators, ReadCommand(p) PROVE PremisesKept'
  <2>1. PICK c \in {"start", "replan", "pause", "stop", "clarify"}, s \in {"write", "resume"} :
            Take(p, Command(c, s))
    BY <1>4 DEF ReadCommand
  <2>2. PICK v : v = Command(c, s)
    OBVIOUS
  <2>3. v.cmd = c /\ v.step = s
    BY <2>2 DEF Command, Idle
  <2>4. Premise(p, v)'
    BY <1>ops, <2>3 DEF Premise
  <2> QED BY <1>2, <1>ops, <2>1, <2>2, <2>4
<1>5. ASSUME NEW p \in Operators, NEW t \in Tasks, ReadHandoff(p, t) PROVE PremisesKept'
  <2>1. PICK v : v = [Command("handoff", "write") EXCEPT !.task = t]
    OBVIOUS
  <2>2. v.cmd = "handoff" /\ v.step = "write"
    BY <2>1 DEF Command, Idle
  <2>3. Premise(p, v)'
    BY <1>5, <1>ops, <2>2 DEF Premise, ReadHandoff, MayHandOff
  <2> QED BY <1>2, <1>5, <1>ops, <2>1, <2>3 DEF ReadHandoff
<1>6. ASSUME NEW p \in Operators, NEW t \in Tasks, ReadReturn(p, t) PROVE PremisesKept'
  <2>1. PICK o \in Outcomes :
            Take(p, [Command("return", "finish") EXCEPT !.task = t, !.outcome = o])
    BY <1>6 DEF ReadReturn
  <2>2. PICK v : v = [Command("return", "finish") EXCEPT !.task = t, !.outcome = o]
    OBVIOUS
  <2>3. v.cmd = "return" /\ v.step = "finish"
    BY <2>2 DEF Command, Idle
  <2>4. Premise(p, v)'
    BY <1>ops, <2>3 DEF Premise
  <2> QED BY <1>2, <1>ops, <2>1, <2>2, <2>4
<1>7. ASSUME NEW p \in Operators, FinishRun(p) PROVE PremisesKept'
  <2>1. /\ p \in Processes /\ Busy(p) /\ proc[p].cmd = "return" /\ proc[p].task \in Tasks
        /\ proc[p].outcome \in Outcomes
    BY <1>7, <1>busy, <1>ops DEF FinishRun, TypeInv, ProcShape
  <2>2. CASE Leave(p)
    BY <1>1, <2>1, <2>2
  <2>3. CASE run' = [run EXCEPT ![proc[p].task] = proc[p].outcome] /\ Proceed(p, "reread")
    <3>1. PICK v : v = [proc[p] EXCEPT !.step = "reread"]
      OBVIOUS
    <3>2. v.cmd = "return" /\ v.step = "reread" /\ v.task = proc[p].task
      BY <1>ty, <2>1, <3>1 DEF Begun
    <3>3. run'[v.task] \in Outcomes
      BY <2>1, <2>3, <3>2 DEF TypeInv, TypeOK
    <3>4. Premise(p, v)'
      BY <1>ops, <3>2, <3>3 DEF Premise
    <3> QED BY <1>3, <2>1, <2>3, <3>1, <3>4 DEF Proceed
  <2> QED BY <1>7, <2>2, <2>3 DEF FinishRun
<1>8. ASSUME NEW p \in Operators, RereadFocus(p) PROVE PremisesKept'
  <2>1. p \in Processes /\ Busy(p) /\ proc[p].cmd = "return" /\ run[proc[p].task] \in Outcomes
    BY <1>0, <1>8, <1>busy, <1>ops DEF RereadFocus, TypeInv, ProcShape, Premise
  <2>2. CASE Leave(p)
    BY <1>1, <2>1, <2>2
  <2>3. CASE ~Leave(p)
    <3>1. PICK v : v = [proc[p] EXCEPT !.step = "restore", !.resume = db.bgResume,
                                       !.chatOpen = (db.chat # None)]
      OBVIOUS
    <3>2. proc' = [proc EXCEPT ![p] = v] /\ db.bg = proc[p].task /\ UNCHANGED <<db, run>>
      BY <1>8, <2>1, <2>3, <3>1 DEF RereadFocus, TypeInv, TypeOK
    <3>3. v.cmd = "return" /\ v.step = "restore" /\ v.task = proc[p].task
      BY <1>ty, <2>1, <3>1 DEF Begun
    <3>4. Premise(p, v)'
      BY <1>ops, <2>1, <3>2, <3>3 DEF Premise
    <3> QED BY <1>3, <2>1, <3>2, <3>4
  <2> QED BY <2>2, <2>3
<1>9. ASSUME NEW p \in Operators, RestoreFocus(p) PROVE PremisesKept'
  <2>1. p \in Processes /\ Busy(p) /\ proc[p].cmd = "return"
    BY <1>9, <1>busy, <1>ops DEF RestoreFocus, TypeInv, ProcShape
  <2>2. CASE Leave(p)
    BY <1>1, <2>1, <2>2
  <2>3. CASE Proceed(p, "resume")
    <3>1. PICK v : v = [proc[p] EXCEPT !.step = "resume"]
      OBVIOUS
    <3>2. v.cmd = "return" /\ v.step = "resume"
      BY <1>ty, <2>1, <3>1 DEF Begun
    <3>3. Premise(p, v)'
      BY <1>ops, <3>2 DEF Premise
    <3> QED BY <1>3, <2>1, <2>3, <3>1, <3>3 DEF Proceed
  <2> QED BY <1>9, <2>2, <2>3 DEF RestoreFocus
<1>10. ASSUME NEW c \in Chats, ReadBegin(c) PROVE PremisesKept'
  <2>1. PICK v : v = [Command("begin", "write") EXCEPT !.resume = WasRunning(db)]
    OBVIOUS
  <2>2. v.cmd = "begin" /\ v.step = "write" /\ c # Heartbeat
    BY <2>1, ProcessAssumption DEF Command, Idle
  <2>3. Premise(c, v)'
    BY <2>2 DEF Premise
  <2> QED BY <1>2, <1>10, <1>ops, <2>1, <2>3 DEF ReadBegin
<1>11. ASSUME NEW c \in Chats, ReadEnd(c) PROVE PremisesKept'
  <2>1. CASE db.chat \in {None, c}
    <3>1. PICK x \in ExitModes :
              Take(c, [Command("end", "write") EXCEPT !.outcome = x,
                                                      !.resume = ResumesOnClose(db, x)])
      BY <1>11, <2>1 DEF ReadEnd
    <3>2. PICK v : v = [Command("end", "write") EXCEPT !.outcome = x,
                                                       !.resume = ResumesOnClose(db, x)]
      OBVIOUS
    <3>3. /\ v.cmd = "end" /\ v.step = "write" /\ v.resume = ResumesOnClose(db, x)
          /\ c # Heartbeat
      BY <3>2, ProcessAssumption DEF Command, Idle
    <3>4. v.resume => PausedForExpert(db')
      BY <1>11, <3>3 DEF ResumesOnClose, ReadEnd
    <3>5. Premise(c, v)'
      BY <3>3, <3>4 DEF Premise
    <3> QED BY <1>2, <1>11, <1>ops, <3>1, <3>2, <3>5 DEF ReadEnd
  <2>2. CASE db.chat \notin {None, c}
    BY <1>0, <1>11, <2>2 DEF ReadEnd, PremisesKept, Premise, WasRunning, PausedForExpert
  <2> QED BY <2>1, <2>2
<1>12. ASSUME NEW c \in Chats, WriteEnd(c) PROVE PremisesKept'
  <2>1. c \in Processes /\ Busy(c) /\ proc[c].cmd = "end" /\ c # Heartbeat
    BY <1>12, <1>busy, <1>ops, ProcessAssumption DEF WriteEnd
  <2>2. CASE Leave(c)
    BY <1>1, <2>1, <2>2
  <2>3. CASE proc[c].resume /\ Proceed(c, "resume")
    <3>1. PICK v : v = [proc[c] EXCEPT !.step = "resume"]
      OBVIOUS
    <3>2. v.cmd = "end" /\ v.step = "resume"
      BY <1>ty, <2>1, <3>1 DEF Begun
    <3>3. PausedForExpert(db)
      BY <1>0, <2>1, <2>3 DEF Premise
    <3>4. PausedForExpert(db')
      BY <1>12, <3>3 DEF WriteEnd, ChatEnded, PausedForExpert, TypeInv, TypeOK, Control
    <3>5. Premise(c, v)'
      BY <2>1, <3>2, <3>4 DEF Premise
    <3> QED BY <1>3, <2>1, <2>3, <3>1, <3>5 DEF Proceed
  <2> QED BY <1>12, <2>2, <2>3 DEF WriteEnd
<1>13. ASSUME NEW p \in Processes,
              \/ p \in Operators /\ (WriteCommand(p) \/ WriteHandoff(p))
              \/ p \in Chats /\ WriteBegin(p)
              \/ p = Heartbeat /\ WriteAutoPause
              \/ WriteResume(p)
       PROVE  PremisesKept'
  <2>1. Busy(p) /\ Leave(p)
    BY <1>13, <1>busy DEF WriteCommand, WriteHandoff, WriteBegin, WriteAutoPause, WriteResume
  <2> QED BY <1>1, <2>1
<1>14. CASE ReadIdleTimeout \/ ReadAutoPause
  <2>1. PICK s \in {"write", "resume"} :
            /\ Take(Heartbeat, Command("heartbeat", s)) /\ UNCHANGED <<db, run>>
            /\ s = "resume" => PausedForExpert(db)
            /\ s = "write" => WasRunning(db)
    BY <1>14 DEF ReadIdleTimeout, ReadAutoPause, ChatIdledOut
  <2>2. PICK v : v = Command("heartbeat", s)
    OBVIOUS
  <2>3. v.cmd = "heartbeat" /\ v.step = s
    BY <2>2 DEF Command, Idle
  <2>4. Premise(Heartbeat, v)'
    BY <2>1, <2>3 DEF Premise
  <2> QED BY <1>2, <1>ops, <2>1, <2>2, <2>4
<1>15. ASSUME NEW p \in Processes, Kill(p) PROVE PremisesKept'
  <2>1. CASE Busy(p)
    BY <1>1, <1>15, <2>1 DEF Kill
  <2>2. CASE ~Busy(p)
    <3>1. UNCHANGED <<db, run, proc>>
      BY <1>15, <2>2 DEF Kill, Leave, Busy, TypeInv, TypeOK
    <3> QED BY <1>0, <3>1 DEF PremisesKept, Premise, WasRunning, PausedForExpert
  <2> QED BY <2>1, <2>2
<1>16. CASE UNCHANGED <<db, run, proc>>
  BY <1>0, <1>16 DEF PremisesKept, Premise, WasRunning, PausedForExpert
<1> QED
  BY <1>4, <1>5, <1>6, <1>7, <1>8, <1>9, <1>10, <1>11, <1>12, <1>13, <1>14, <1>15, <1>16, <1>ops
  DEF Next, OperatorStep, ChatStep, HeartbeatStep, IdleWindowPasses, vars

LEMMA FocusAlways == Spec => []FocusFull
<1>1. Init => HandoffFresh /\ PremisesKept
  BY DEF Init, HandoffFresh, PremisesKept, Premise, Idle
<1>2. FocusFull /\ [Next]_vars => FocusFull'
  BY SerialStep, FreshStep, PremisesStep DEF FocusFull, SerialFull
<1> QED BY <1>1, <1>2, SerialInit, PTL DEF Spec, FocusFull

(* A run with its final result keeps it, however the commands overlap; and *)
(* while they are issued one at a time a task gives the focus up only      *)
(* after its run has a result, so that a return killed half-way can be     *)
(* repeated.                                                               *)
THEOREM FocusHeld == Spec => FocusHeldUntilReturned
<1> DEFINE Held ==
        \A t \in Tasks :
            /\ ~overlap /\ db.bg = t /\ db'.bg # t => run[t] \in Outcomes
            /\ run[t] \in {"completed", "failed"} => run'[t] = run[t]
<1>1. ASSUME FocusFull, [Next]_vars, NEW t \in Tasks, ~overlap, db.bg = t, db'.bg # t
      PROVE  run[t] \in Outcomes
  <2> USE DEF FocusFull, SerialFull
  <2>1. db \in Control /\ \A p \in Processes : Premise(p, proc[p])
    BY <1>1 DEF TypeInv, TypeOK, PremisesKept
  <2>2. ASSUME NEW p \in Operators, RestoreFocus(p) PROVE run[t] \in Outcomes
    BY <1>1, <2>1, <2>2 DEF RestoreFocus, Premise, Processes
  <2>3. ASSUME NEW p \in Operators, WriteHandoff(p) PROVE FALSE
    BY <1>1, <2>1, <2>3, NamesAssumption DEF WriteHandoff, Premise, Processes
  <2>4. ASSUME db' = db \/ \E p \in Processes : \/ WriteCommand(p) \/ WriteResume(p)
                                               \/ WriteBegin(p) \/ WriteEnd(p)
                      \/ WriteAutoPause
        PROVE  FALSE
    BY <1>1, <2>1, <2>4
    DEF WriteCommand, WriteResume, WriteBegin, WriteEnd, WriteAutoPause, Paused, Stopped,
        Replanning, Resumed, ChatBegun, ChatEnded, Control
  <2> QED
    BY <1>1, <2>2, <2>3, <2>4
    DEF Next, OperatorStep, ChatStep, HeartbeatStep, vars, ReadCommand, ReadHandoff, ReadReturn,
        FinishRun, RereadFocus, ReadBegin, ReadEnd, ReadIdleTimeout, ReadAutoPause, Kill,
        IdleWindowPasses, Processes
<1>2. ASSUME FocusFull, [Next]_vars, NEW t \in Tasks, run[t] \in {"completed", "failed"}
      PROVE  run'[t] = run[t]
  <2> USE DEF FocusFull, SerialFull
  <2>1. run \in [Tasks -> {"none", "in_progress"} \cup Outcomes]
    BY <1>2 DEF TypeInv, TypeOK
  <2>2. ASSUME NEW p \in Operators, FinishRun(p) PROVE run'[t] = run[t]
    BY <1>2, <2>1, <2>2 DEF FinishRun, RunMayBecome
  <2>3. ASSUME NEW p \in Operators, WriteHandoff(p) PROVE run'[t] = run[t]
    <3>1. p \in Processes /\ run[proc[p].task] = "none"
      BY <1>2, <2>3 DEF WriteHandoff, HandoffFresh, Processes
    <3> QED BY <1>2, <2>1, <2>3, <3>1 DEF WriteHandoff
  <2> QED
    BY <1>2, <2>2, <2>3
    DEF Next, OperatorStep, ChatStep, HeartbeatStep, vars, ReadCommand, ReadHandoff, ReadReturn,
        WriteCommand, WriteResume, RereadFocus, RestoreFocus, ReadBegin, WriteBegin, ReadEnd,
        WriteEnd, ReadIdleTimeout, ReadAutoPause, WriteAutoPause, Kill, IdleWindowPasses
<1>3. FocusFull /\ [Next]_vars => [Held]_vars
  BY <1>1, <1>2
<1> QED BY <1>3, FocusAlways, PTL DEF Spec, FocusHeldUntilReturned

(* Chats and the heartbeat, each the only command under way, leave a       *)
(* stopped agent stopped, and keep a pause of the operator, of a guidance  *)
(* conflict or of the supervisor: begin and auto-pause write over a        *)
(* running agent only, and a resume lifts the pause of a chat only.        *)
THEOREM AutomationYields == Spec => AutomationKeepsPause
<1> DEFINE Yields ==
        AutomationStep /\ ~overlap
            /\ (db.mode = "stopped" \/ db.reason \in {"operator", "guidance", "auto_pause"})
        => db'.mode = db.mode /\ db'.reason = db.reason
<1>1. ASSUME FocusFull, ControlRecordCoherent, AutomationStep, ~overlap,
             db.mode = "stopped" \/ db.reason \in {"operator", "guidance", "auto_pause"}
      PROVE  db'.mode = db.mode /\ db'.reason = db.reason
  <2> USE DEF FocusFull, SerialFull
  <2>1. /\ db \in Control
        /\ \A p \in Processes : Premise(p, proc[p])
        /\ PremisesHold
    BY <1>1 DEF TypeInv, TypeOK, PremisesKept, SerialInv
  <2>2. ~WasRunning(db) /\ ~PausedForExpert(db)
    BY <1>1, <2>1, NamesAssumption
    DEF WasRunning, PausedForExpert, ControlRecordCoherent, ExpertInteraction, Control
  <2>3. ASSUME NEW p \in Chats \cup {Heartbeat}, WriteResume(p) PROVE FALSE
    BY <2>1, <2>2, <2>3 DEF WriteResume, Premise, Processes
  <2>4. ASSUME WriteAutoPause PROVE FALSE
    BY <2>1, <2>2, <2>4 DEF WriteAutoPause, Premise, Processes
  <2>5. ASSUME NEW c \in Chats, WriteBegin(c)
        PROVE  db'.mode = db.mode /\ db'.reason = db.reason
    <3>1. ~proc[c].resume
      BY <2>1, <2>2, <2>5 DEF WriteBegin, PremisesHold, Processes
    <3> QED BY <2>1, <2>5, <3>1 DEF WriteBegin, ChatBegun, Control
  <2>6. ASSUME NEW c \in Chats, WriteEnd(c)
        PROVE  db'.mode = db.mode /\ db'.reason = db.reason
    BY <2>1, <2>6 DEF WriteEnd, ChatEnded, Control
  <2> QED
    BY <1>1, <2>3, <2>4, <2>5, <2>6
    DEF AutomationStep, ChatStep, HeartbeatStep, ReadBegin, ReadEnd, ReadIdleTimeout,
        ReadAutoPause
<1>2. FocusFull /\ ControlRecordCoherent /\ [Next]_vars => [Yields]_vars
  BY <1>1
<1> QED BY <1>2, FocusAlways, RecordCoherence, PTL DEF Spec, AutomationKeepsPause

=============================================================================
