--------------------------- MODULE SignalPrograms ---------------------------
(***************************************************************************)
(* The programs with signals together: one of them is chosen and run.      *)
(***************************************************************************)
EXTENDS SignalSync, SignalLoops, ChildReaper, MqNotify, SelfPipe

vars == <<sigVars, syncVars, loopVars, reaperVars, mqVars, selfVars>>

Init == SignalsInit /\ SyncInit /\ LoopInit /\ ReaperInit /\ MqInit /\ SelfInit

SyncStep(step)   == prog \in Syncs /\ step /\ UNCHANGED <<loopVars, reaperVars, mqVars, selfVars>>
LoopStep(step)   == prog \in Loops /\ step /\ UNCHANGED <<syncVars, reaperVars, mqVars, selfVars>>
ReaperStep(step) == prog \in Reapers /\ step /\ UNCHANGED <<syncVars, loopVars, mqVars, selfVars>>
MqStep(step)     == prog \in Readers /\ step /\ UNCHANGED <<syncVars, loopVars, reaperVars, selfVars>>
SelfStep(step)   == prog \in Waiters /\ step /\ UNCHANGED <<syncVars, loopVars, reaperVars, mqVars>>

MainProcess == \/ SyncStep(SyncParent) \/ LoopStep(LoopMain)
               \/ ReaperStep(ReaperMain) \/ MqStep(MqMain)
               \/ SelfStep(SelfMain)

ChildProcess(c) == \/ c = Child /\ SyncStep(SyncChild)
                   \/ ReaperStep(ReaperChild(c))
                   \/ c = Sh /\ ReaperStep(ShSteps)

\* Signals that nobody has caught.
Kill(p) == \/ SyncStep(Killed(p) /\ UNCHANGED syncVars)
           \/ LoopStep(Killed(p) /\ UNCHANGED loopVars)
           \/ ReaperStep(ReaperKilled(p))
           \/ MqStep(Killed(p) /\ UNCHANGED mqVars)
           \/ SelfStep(Killed(p) /\ UNCHANGED selfVars)

Outside == \/ SyncStep(SyncSent) \/ LoopStep(LoopSent)
           \/ ReaperStep(ReaperSent) \/ MqStep(MqSent) \/ MqStep(MqSend)
           \/ SelfStep(SelfSent) \/ SelfStep(Typed)

Next == \/ MainProcess
        \/ \E c \in Children : ChildProcess(c)
        \/ \E p \in Procs : Kill(p)
        \/ Outside

\* The kernel runs every process and delivers every signal; nobody outside
\* has to send anything.
Fairness == /\ WF_vars(MainProcess)
            /\ \A c \in Children : WF_vars(ChildProcess(c))
            /\ \A p \in Procs : WF_vars(Kill(p))

Spec == Init /\ [][Next]_vars /\ Fairness

----------------------------------------------------------------------------
TypeOK == /\ SignalsTypeOK /\ SyncTypeOK /\ LoopTypeOK /\ ReaperTypeOK /\ MqTypeOK /\ SelfTypeOK
          /\ at \in [Procs -> Gone \cup
                {"start", "block", "install", "fork", "suspend", "wait", "signal", "restore",
                 "view", "kill", "work", "exiting", "test", "critical", "pausing", "pause",
                 "sleep", "waitany", "linger", "system", "ignore", "waitpid", "unmask",
                 "default", "command", "register", "again", "drain",
                 "select", "check", "setown", "cbreak", "read"}]

\* Nobody sleeps over news: SIGQUIT, SIGINT, a child's end, a message,
\* input.
NoMissedNotice == LoopNotMissed /\ NoForgottenChild /\ NoMissedMessage /\ SelfNotMissed

\* What every program is to come to, if those outside let it.
ProgramsEnd == SyncEnds /\ LoopEnds /\ ReaperEnds /\ MqEnds /\ SelfEnds
=============================================================================
