---------------------------- MODULE AgentControl ----------------------------
(***************************************************************************)
(* The persisted control state of the supervisor agent                     *)
(* (table agent_control_state) and everything that writes it: the operator *)
(* commands of scripts/ops/control_agent.py, the begin and end of a        *)
(* jhc-chat session, the hand-off and return of an expert-requested        *)
(* background task, the guidance pauses and the supervisor heartbeat.      *)
(*                                                                         *)
(* Every writer is a short-lived process that first READS the control      *)
(* state outside any transaction and later WRITES a few keys of it in one  *)
(* transaction; some of them write twice.  Nothing orders the writers, so  *)
(* a command decides on what it has read.  The history variable        *)
(* overlap is TRUE from the moment two commands were under way at once:    *)
(* what the code promises of commands issued one at a time is stated for   *)
(* the behaviours in which it is still FALSE.                              *)
(***************************************************************************)
EXTENDS Naturals

CONSTANTS
    Operators,  \* processes of the operator's command line
    Chats,      \* jhc-chat sessions, each named by its session id
    Heartbeat,  \* the supervisor heartbeat started by launchd
    Tasks,      \* pipeline runs of expert-requested background tasks
    None,       \* an empty control value
    MaxCrashes  \* bound: how many processes may be killed

ASSUME CrashesAssumption == MaxCrashes \in Nat
ASSUME ProcessAssumption ==
    Operators \cap Chats = {} /\ Heartbeat \notin Operators \cup Chats
ASSUME NamesAssumption ==
    /\ None \notin Chats \cup Tasks
    /\ Tasks \cap {"expert_interaction", "operator", "guidance", "auto_pause"} = {}
    /\ None \notin {"expert_interaction", "operator", "guidance", "auto_pause"}

VARIABLES
    db,          \* the control values other processes see
    run,         \* run_status of each background task's pipeline run
    session,     \* how far the jhc-chat wrapper of a session has got
    proc,        \* the command a process executes, with what it has read
    idleElapsed, \* 15 minutes have passed since last_chat_ended_at
    overlap,     \* history: two commands were once under way together
    crashes      \* processes killed so far

vars == <<db, run, session, proc, idleElapsed, overlap, crashes>>

Processes == Operators \cup Chats \cup {Heartbeat}

(* pause_reason: the reason of a task is the run that owns the focus.      *)
ExpertInteraction == "expert_interaction"
Reasons == {None, ExpertInteraction, "operator", "guidance", "auto_pause"} \cup Tasks
Modes == {"running", "paused", "stopped", "replanning"}
ExitModes == {"none", "explicit_close", "unexpected_exit"}
Outcomes == {"completed", "failed", "paused"}

Control ==
    [enabled : BOOLEAN, mode : Modes, reason : Reasons,
     chat : Chats \cup {None}, chatResume : BOOLEAN, exitMode : ExitModes,
     bg : Tasks \cup {None}, bgResume : BOOLEAN]

ControlDefaults ==
    [enabled |-> FALSE, mode |-> "stopped", reason |-> None,
     chat |-> None, chatResume |-> FALSE, exitMode |-> "none",
     bg |-> None, bgResume |-> FALSE]

(***************************************************************************)
(* Faulty variants of the operators below, one for each property: what a   *)
(* plausible slip would make of them.  The specification never uses them;  *)
(* substituted for the operator they vary, they break the property.        *)
(***************************************************************************)
FaultyStopped(d) == [d EXCEPT !.enabled = FALSE, !.mode = "disabled", !.reason = None]
FaultyResumed(d) == [d EXCEPT !.enabled = TRUE, !.mode = "running"]
FaultyWasRunning(s) == s.mode # "paused"
FaultyNoFocus(s) == s.mode = "stopped" \/ s.bg = None
FaultyHandedOff(d, t) ==
    [d EXCEPT !.enabled = TRUE, !.mode = "paused", !.reason = t, !.bg = t, !.bgResume = TRUE]
FaultyPausedForExpert(s) == s.enabled /\ s.mode = "paused"
FaultyRunMayBecome(old, new) == old # "none"
FaultyChatIdledOut(s) == s.mode = "paused" /\ s.chat = None /\ s.chatResume

(***************************************************************************)
(* What each writer does to the control values (one transaction each).     *)
(***************************************************************************)
Resumed(d) == [d EXCEPT !.enabled = TRUE, !.mode = "running", !.reason = None]

Paused(d, r) == [d EXCEPT !.enabled = TRUE, !.mode = "paused", !.reason = r]

Stopped(d) == [d EXCEPT !.enabled = FALSE, !.mode = "stopped", !.reason = None]

Replanning(d) == [d EXCEPT !.enabled = TRUE, !.mode = "replanning", !.reason = None]

WasRunning(s) == s.enabled /\ s.mode = "running"

(* begin: pauses the agent only when it read that it was running, and then *)
(* leaves agent_enabled as it finds it.                                    *)
ChatBegun(resumeOnClose, c, d) ==
    IF resumeOnClose
    THEN [d EXCEPT !.chat = c, !.chatResume = TRUE,
                   !.mode = "paused", !.reason = ExpertInteraction]
    ELSE [d EXCEPT !.chat = c, !.chatResume = FALSE]

ChatEnded(d, exit) ==
    [d EXCEPT !.chat = None, !.chatResume = FALSE, !.exitMode = exit]

HandedOff(d, t) ==
    [d EXCEPT !.enabled = TRUE, !.mode = "paused", !.reason = t,
              !.chatResume = FALSE, !.bg = t, !.bgResume = TRUE]

(* return: with a chat open the focus goes back to that chat.              *)
FocusReturned(chatOpen, resume, d) ==
    IF chatOpen
    THEN [d EXCEPT !.bg = None, !.bgResume = FALSE, !.enabled = TRUE,
                   !.mode = "paused", !.reason = ExpertInteraction,
                   !.chatResume = resume]
    ELSE [d EXCEPT !.bg = None, !.bgResume = FALSE]

(***************************************************************************)
(* The conditions the commands test on the control values s they read.     *)
(***************************************************************************)
PausedForExpert(s) ==
    s.enabled /\ s.mode = "paused" /\ s.reason = ExpertInteraction

NoFocus(s) == s.bg = None

NotStopped(s) == s.enabled \/ s.mode # "stopped"

MayHandOff(s) == s.chat # None /\ PausedForExpert(s) /\ s.bg = None

ResumesOnClose(s, exit) ==
    exit = "explicit_close" /\ s.chatResume /\ PausedForExpert(s)

ChatIdledOut(s) ==
    PausedForExpert(s) /\ s.chat = None /\ s.exitMode = "unexpected_exit"

RunMayBecome(old, new) ==
    old = new \/ (old \in {"in_progress", "paused"} /\ new # "in_progress")

(***************************************************************************)
(* Processes.  A step name says what the process does next:                *)
(*   write    its transaction on the control values                        *)
(*   finish   return: set the status of the task's run                     *)
(*   reread   return: read the control values again                        *)
(*   restore  return: give the focus back                                  *)
(*   resume   its resume_agent transaction                                 *)
(* Of what it read a process keeps the order to resume it derived from it  *)
(* (resume_on_close, should_resume, background_task_resume_on_finish) and, *)
(* in a return, whether a chat was open.                                   *)
(***************************************************************************)
Commands == {"start", "pause", "stop", "replan", "clarify", "handoff", "return",
             "begin", "end", "heartbeat"}
Steps == {"write", "finish", "reread", "restore", "resume"}

Idle == [cmd |-> "none", step |-> "none", resume |-> FALSE, chatOpen |-> FALSE,
         task |-> None, outcome |-> "none"]

ProcState ==
    {Idle} \cup
    [cmd : Commands, step : Steps, resume : BOOLEAN, chatOpen : BOOLEAN,
     task : Tasks \cup {None}, outcome : Outcomes \cup ExitModes]

Busy(p) == proc[p] # Idle

Command(c, step) == [Idle EXCEPT !.cmd = c, !.step = step]

(* p reads the control values and starts a command.                        *)
Take(p, command) ==
    /\ ~Busy(p)
    /\ proc' = [proc EXCEPT ![p] = command]
    /\ overlap' = (overlap \/ \E q \in Processes : Busy(q))

Proceed(p, step) == proc' = [proc EXCEPT ![p].step = step]

Leave(p) == proc' = [proc EXCEPT ![p] = Idle]

Init ==
    /\ db = ControlDefaults
    /\ run = [t \in Tasks |-> "none"]
    /\ session = [c \in Chats |-> "new"]
    /\ proc = [p \in Processes |-> Idle]
    /\ idleElapsed = FALSE
    /\ overlap = FALSE
    /\ crashes = 0

(***************************************************************************)
(* Operator commands: a refused command changes nothing and is no step.    *)
(***************************************************************************)
ReadCommand(p) ==
    /\ \/ NoFocus(db) /\ Take(p, Command("start", "resume"))
       \/ NoFocus(db) /\ Take(p, Command("replan", "write"))
       \/ Take(p, Command("pause", "write"))
       \/ Take(p, Command("stop", "write"))
       \/ NotStopped(db) /\ Take(p, Command("clarify", "write"))
    /\ UNCHANGED <<db, run, session, idleElapsed, crashes>>

WriteCommand(p) ==
    /\ proc[p].step = "write"
    /\ \/ proc[p].cmd = "pause" /\ db' = Paused(db, "operator")
       \/ proc[p].cmd = "stop" /\ db' = Stopped(db)
       \/ proc[p].cmd = "replan" /\ db' = Replanning(db)
       \/ proc[p].cmd = "clarify" /\ db' = Paused(db, "guidance")
    /\ Leave(p)
    /\ UNCHANGED <<run, session, idleElapsed, overlap, crashes>>

(* resume_agent, for a start or resume command, the close of a chat, the   *)
(* return of a task and the idle time-out alike.                           *)
WriteResume(p) ==
    /\ proc[p].step = "resume"
    /\ db' = Resumed(db)
    /\ Leave(p)
    /\ UNCHANGED <<run, session, idleElapsed, overlap, crashes>>

(***************************************************************************)
(* Background tasks: handoff_background_task, return_background_task.      *)
(***************************************************************************)
ReadHandoff(p, t) ==
    /\ MayHandOff(db)
    /\ run[t] = "none"
    /\ \A q \in Processes : proc[q].task # t
    /\ Take(p, [Command("handoff", "write") EXCEPT !.task = t])
    /\ UNCHANGED <<db, run, session, idleElapsed, crashes>>

(* The run's row and the control values are committed together.            *)
WriteHandoff(p) ==
    /\ proc[p].cmd = "handoff"
    /\ db' = HandedOff(db, proc[p].task)
    /\ run' = [run EXCEPT ![proc[p].task] = "in_progress"]
    /\ Leave(p)
    /\ UNCHANGED <<session, idleElapsed, overlap, crashes>>

ReadReturn(p, t) ==
    /\ run[t] # "none"
    /\ db.bg = t
    /\ \E o \in Outcomes :
           Take(p, [Command("return", "finish") EXCEPT !.task = t, !.outcome = o])
    /\ UNCHANGED <<db, run, session, idleElapsed, crashes>>

(* The status change is validated against the run, and refused with an     *)
(* exception that ends the command.                                        *)
FinishRun(p) ==
    /\ proc[p].step = "finish"
    /\ LET t == proc[p].task
           o == proc[p].outcome
       IN IF RunMayBecome(run[t], o)
          THEN run' = [run EXCEPT ![t] = o] /\ Proceed(p, "reread")
          ELSE run' = run /\ Leave(p)
    /\ UNCHANGED <<db, session, idleElapsed, overlap, crashes>>

RereadFocus(p) ==
    /\ proc[p].step = "reread"
    /\ IF db.bg = proc[p].task
       THEN proc' = [proc EXCEPT ![p].step = "restore", ![p].resume = db.bgResume,
                               ![p].chatOpen = (db.chat # None)]
       ELSE Leave(p)
    /\ UNCHANGED <<db, run, session, idleElapsed, overlap, crashes>>

RestoreFocus(p) ==
    /\ proc[p].step = "restore"
    /\ db' = FocusReturned(proc[p].chatOpen, proc[p].resume, db)
    /\ IF ~proc[p].chatOpen /\ proc[p].resume /\ db'.enabled
       THEN Proceed(p, "resume")
       ELSE Leave(p)
    /\ UNCHANGED <<run, session, idleElapsed, overlap, crashes>>

(***************************************************************************)
(* jhc-chat sessions.                                                      *)
(***************************************************************************)
ReadBegin(c) ==
    /\ session[c] = "new"
    /\ db.chat = None
    /\ Take(c, [Command("begin", "write") EXCEPT !.resume = WasRunning(db)])
    /\ UNCHANGED <<db, run, session, idleElapsed, crashes>>

WriteBegin(c) ==
    /\ proc[c].cmd = "begin"
    /\ db' = ChatBegun(proc[c].resume, c, db)
    /\ session' = [session EXCEPT ![c] = "open"]
    /\ Leave(c)
    /\ UNCHANGED <<run, idleElapsed, overlap, crashes>>

(* The wrapper's EXIT trap; an end for a session that is not the active    *)
(* one is ignored.                                                         *)
ReadEnd(c) ==
    /\ session[c] = "open"
    /\ session' = [session EXCEPT ![c] = "gone"]
    /\ IF db.chat \in {None, c}
       THEN \E exit \in ExitModes \ {"none"} :
                Take(c, [Command("end", "write") EXCEPT !.outcome = exit,
                                                        !.resume = ResumesOnClose(db, exit)])
       ELSE UNCHANGED <<proc, overlap>>
    /\ UNCHANGED <<db, run, idleElapsed, crashes>>

WriteEnd(c) ==
    /\ proc[c].cmd = "end" /\ proc[c].step = "write"
    /\ db' = ChatEnded(db, proc[c].outcome)
    /\ idleElapsed' = FALSE
    /\ IF proc[c].resume THEN Proceed(c, "resume") ELSE Leave(c)
    /\ UNCHANGED <<run, session, overlap, crashes>>

(***************************************************************************)
(* The heartbeat: the idle time-out of a chat that went away, then the     *)
(* cycle's auto-pause of a running agent.                                  *)
(***************************************************************************)
ReadIdleTimeout ==
    /\ ChatIdledOut(db)
    /\ idleElapsed
    /\ Take(Heartbeat, Command("heartbeat", "resume"))
    /\ UNCHANGED <<db, run, session, idleElapsed, crashes>>

ReadAutoPause ==
    /\ WasRunning(db)
    /\ Take(Heartbeat, Command("heartbeat", "write"))
    /\ UNCHANGED <<db, run, session, idleElapsed, crashes>>

WriteAutoPause ==
    /\ proc[Heartbeat].step = "write"
    /\ db' = Paused(db, "auto_pause")
    /\ Leave(Heartbeat)
    /\ UNCHANGED <<run, session, idleElapsed, overlap, crashes>>

(***************************************************************************)
(* The environment: time passes, processes are killed between two          *)
(* transactions (jhc-agent-start kills a running heartbeat, too).          *)
(***************************************************************************)
IdleWindowPasses ==
    /\ ~idleElapsed
    /\ db.exitMode # "none"
    /\ idleElapsed' = TRUE
    /\ UNCHANGED <<db, run, session, proc, overlap, crashes>>

Kill(p) ==
    /\ crashes < MaxCrashes
    /\ Busy(p) \/ (p \in Chats /\ session[p] = "open")
    /\ Leave(p)
    /\ session' = [c \in Chats |-> IF c = p THEN "gone" ELSE session[c]]
    /\ crashes' = crashes + 1
    /\ UNCHANGED <<db, run, idleElapsed, overlap>>

OperatorStep(p) ==
    \/ ReadCommand(p) \/ WriteCommand(p)
    \/ \E t \in Tasks : ReadHandoff(p, t) \/ ReadReturn(p, t)
    \/ WriteHandoff(p) \/ FinishRun(p) \/ RereadFocus(p) \/ RestoreFocus(p)

ChatStep(c) == ReadBegin(c) \/ WriteBegin(c) \/ ReadEnd(c) \/ WriteEnd(c)

HeartbeatStep == ReadIdleTimeout \/ ReadAutoPause \/ WriteAutoPause

Next ==
    \/ \E p \in Operators : OperatorStep(p)
    \/ \E c \in Chats : ChatStep(c)
    \/ HeartbeatStep
    \/ \E p \in Processes : WriteResume(p) \/ Kill(p)
    \/ IdleWindowPasses

Spec == Init /\ [][Next]_vars

(***************************************************************************)
(* launchd starts the heartbeat every few seconds, so a time-out that is   *)
(* due is read and its resume is written; time passes.                     *)
(***************************************************************************)
Fairness ==
    /\ WF_vars(ReadIdleTimeout) /\ WF_vars(WriteAutoPause)
    /\ WF_vars(WriteResume(Heartbeat)) /\ WF_vars(IdleWindowPasses)

FairSpec == Spec /\ Fairness

(***************************************************************************)
(* Properties.                                                             *)
(***************************************************************************)

(* Every variable has the values the tables and processes can hold.        *)
TypeOK ==
    /\ db \in Control
    /\ run \in [Tasks -> {"none", "in_progress"} \cup Outcomes]
    /\ session \in [Chats -> {"new", "open", "gone"}]
    /\ proc \in [Processes -> ProcState]
    /\ idleElapsed \in BOOLEAN
    /\ overlap \in BOOLEAN
    /\ crashes \in 0..MaxCrashes

(* However the partial writes of overlapping commands interleave, the      *)
(* control values fit together: exactly a paused agent has a pause reason, *)
(* a running agent is enabled, a task that owns the focus has a run and    *)
(* carries the order to resume, and nobody else's reason names a task that *)
(* was never handed off.                                                   *)
ControlRecordCoherent ==
    /\ db.mode = "paused" <=> db.reason # None
    /\ db.mode = "running" => db.enabled
    /\ db.mode = "stopped" => ~db.enabled
    /\ db.bg # None <=> db.bgResume
    /\ \A t \in Tasks : db.bg = t \/ db.reason = t => run[t] # "none"

(* Commands issued one at a time: agent_enabled is false exactly in        *)
(* stopped mode.  The delayed workers (execute_delayed_feedback_sync,      *)
(* execute_followup_cycle) skip their cycle only when both say so.         *)
StoppedIffDisabled == ~overlap => (db.enabled <=> db.mode # "stopped")

(* Commands issued one at a time: while a background task owns the focus,  *)
(* the agent neither runs nor replans, and the pause is not one that the   *)
(* end of a chat or its idle time-out would lift.                          *)
FocusExcludesRunning ==
    ~overlap /\ db.bg # None =>
        db.mode \in {"paused", "stopped"} /\ db.reason # ExpertInteraction

(* Commands issued one at a time: an order to resume when the chat closes  *)
(* exists only while a chat is open that can carry it out, and never       *)
(* beside a background task.                                               *)
ResumeOrderHasChat ==
    ~overlap /\ db.chatResume => db.chat # None /\ db.bg = None

(* Commands issued one at a time: chats and the heartbeat leave a stopped  *)
(* agent stopped, and a pause of the operator, of a guidance conflict or   *)
(* of the supervisor in force.                                             *)
AutomationStep ==
    \/ \E c \in Chats : ChatStep(c) \/ WriteResume(c)
    \/ HeartbeatStep \/ WriteResume(Heartbeat)

AutomationKeepsPause ==
    [][AutomationStep /\ ~overlap
        /\ (db.mode = "stopped" \/ db.reason \in {"operator", "guidance", "auto_pause"})
       => db'.mode = db.mode /\ db'.reason = db.reason]_vars

(* A run that has its final result never loses it.  Commands issued one at *)
(* a time: a background task loses the focus only after its run has a      *)
(* result, so that a return that was killed half-way can be repeated.      *)
FocusHeldUntilReturned ==
    [][\A t \in Tasks :
        /\ ~overlap /\ db.bg = t /\ db'.bg # t => run[t] \in Outcomes
        /\ run[t] \in {"completed", "failed"} => run'[t] = run[t]]_vars

(* A pause for a chat that exited unexpectedly does not last for ever: the *)
(* heartbeat resumes the agent after the idle time-out unless a command or *)
(* a new chat changes the control state first.                             *)
ChatLeftPaused ==
    /\ db.enabled /\ db.mode = "paused" /\ db.reason = ExpertInteraction
    /\ db.chat = None /\ db.exitMode = "unexpected_exit"

IdleTimeoutResumes == ChatLeftPaused ~> ~ChatLeftPaused

(***************************************************************************)
(* What the requirements say and the code does not keep.                   *)
(***************************************************************************)

(* prd/spec.md FR-OPS-27U: once a task is returned, regular operations     *)
(* resume only if no other pause condition applies.  The return of a task  *)
(* (the only command under way) re-enables an agent that was stopped in    *)
(* the meantime, and resumes one that the operator or a guidance conflict  *)
(* paused.                                                                 *)
ReturnKeepsPause ==
    [][~overlap /\ (\E p \in Operators : proc[p].cmd = "return")
        /\ (db.mode = "stopped" \/ db.reason \in {"operator", "guidance"})
       => db'.mode = db.mode /\ db'.reason = db.reason]_vars

(* prd/spec.md FR-OPS-27S: autonomous work stays paused until the task     *)
(* with the focus has reached a terminal state.  The close of a chat that  *)
(* decided to resume just before the hand-off resumes the agent after it.  *)
FocusKeepsAgentFromRunning ==
    \A t \in Tasks : db.bg = t /\ run[t] = "in_progress" => db.mode # "running"

(* prd/spec.md FR-OPS-27M: an explicit close ends the expert-interaction   *)
(* pause.  A chat begun while the pause of an earlier, unexpectedly exited *)
(* chat still holds does not, and its close also disables the time-out.    *)
ExplicitCloseResumes ==
    ~overlap /\ crashes = 0 /\ PausedForExpert(db) /\ db.chat = None
        /\ db.exitMode = "explicit_close" => \E p \in Processes : Busy(p)
=============================================================================
