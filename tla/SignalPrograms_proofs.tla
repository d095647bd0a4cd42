----------------------- MODULE SignalPrograms_proofs -----------------------
(***************************************************************************)
(* Nobody goes on before the other has said so, no notice is missed, and   *)
(* system() returns its own child's status: for every number of children,  *)
(* signals, rounds and messages, in all fifteen programs.                  *)
(***************************************************************************)
EXTENDS SignalPrograms, FiniteSetTheorems, TLAPS

\* All that happens in the programs of each module.
SyncAny   == \/ SyncParent \/ SyncChild \/ SyncSent
             \/ \E p \in Procs : Killed(p) /\ UNCHANGED syncVars
LoopAny   == \/ LoopMain \/ LoopSent
             \/ \E p \in Procs : Killed(p) /\ UNCHANGED loopVars
ReaperAny == \/ ReaperMain \/ ShSteps \/ ReaperSent
             \/ \E c \in Children : ReaperChild(c)
             \/ \E p \in Procs : ReaperKilled(p)
MqAny     == \/ MqMain \/ MqSend \/ MqSent
             \/ \E p \in Procs : Killed(p) /\ UNCHANGED mqVars
SelfAny   == \/ SelfMain \/ SelfSent \/ Typed
             \/ \E p \in Procs : Killed(p) /\ UNCHANGED selfVars

\* A step is one of the program that runs.
LEMMA OneStep ==
  ASSUME Next
  PROVE  \/ SyncStep(SyncAny) \/ LoopStep(LoopAny) \/ ReaperStep(ReaperAny)
         \/ MqStep(MqAny) \/ SelfStep(SelfAny)
<1> USE DEF SyncStep, LoopStep, ReaperStep, MqStep, SelfStep
<1>1. CASE MainProcess
  BY <1>1 DEF MainProcess, SyncAny, LoopAny, ReaperAny, MqAny, SelfAny
<1>2. ASSUME NEW c \in Children, ChildProcess(c)
      PROVE  SyncStep(SyncAny) \/ ReaperStep(ReaperAny)
  BY <1>2 DEF ChildProcess, SyncAny, ReaperAny
<1>3. ASSUME NEW p \in Procs, Kill(p)
      PROVE  \/ SyncStep(SyncAny) \/ LoopStep(LoopAny) \/ ReaperStep(ReaperAny)
             \/ MqStep(MqAny) \/ SelfStep(SelfAny)
  BY <1>3 DEF Kill, SyncAny, LoopAny, ReaperAny, MqAny, SelfAny
<1>4. CASE Outside
  BY <1>4 DEF Outside, SyncAny, LoopAny, ReaperAny, MqAny, SelfAny
<1> QED BY <1>1, <1>2, <1>3, <1>4 DEF Next

LEMMA ProcsFacts == /\ Main \in Procs /\ Child \in Procs /\ Sh \in Procs /\ Children \subseteq Procs
                    /\ Main \notin Children /\ Child \in Children /\ Sh \in Children
BY SignalsAssumption DEF SignalsAssumption, Main, Child, Sh, Children, Procs

----------------------------------------------------------------------------
(* Types.                                                                  *)

Places == Gone \cup
            {"start", "block", "install", "fork", "suspend", "wait", "signal", "restore",
             "view", "kill", "work", "exiting", "test", "critical", "pausing", "pause",
             "sleep", "waitany", "linger", "system", "ignore", "waitpid", "unmask",
             "default", "command", "register", "again", "drain",
             "select", "check", "setown", "cbreak", "read"}

ProcsType == /\ at \in [Procs -> Places] /\ back \in Places
             /\ mask \in [Procs -> SUBSET Sigs] /\ pend \in [Procs -> SUBSET Sigs]
             /\ caught \in [Procs -> SUBSET Sigs] /\ ignored \in [Procs -> SUBSET Sigs]
             /\ sent \in Nat /\ kept \subseteq {"INT", "QUIT"}

USE DEF dispositions

LEMMA RaiseType ==
  ASSUME ProcsType, NEW P, NEW s \in Sigs, Raise(P, s)
  PROVE  pend' \in [Procs -> SUBSET Sigs]
BY DEF ProcsType, Raise

LEMMA HandledType ==
  ASSUME ProcsType, NEW p \in Procs, NEW S, NEW next \in Places, Handled(p, S, next),
         UNCHANGED <<back, kept>>
  PROVE  ProcsType' /\ prog' = prog
BY DEF ProcsType, Handled

LEMMA KilledType ==
  ASSUME ProcsType, NEW p \in Procs, Killed(p), UNCHANGED <<back, kept>>
  PROVE  ProcsType' /\ prog' = prog
<1>1. "CHLD" \in Sigs
  BY DEF Sigs
<1>2. pend' \in [Procs -> SUBSET Sigs]
  BY <1>1, RaiseType DEF Killed, ProcsType
<1> QED BY ZenonT(60), <1>2 DEF ProcsType, Killed, Places, Gone

LEMMA SentToType ==
  ASSUME ProcsType, NEW P, NEW S \in SUBSET Sigs, SentTo(P, S), UNCHANGED <<back, kept>>
  PROVE  ProcsType' /\ prog' = prog
<1>1. pend' \in [Procs -> SUBSET Sigs]
  BY RaiseType DEF SentTo
<1> QED BY <1>1 DEF ProcsType, SentTo

LEMMA ExitsType ==
  ASSUME ProcsType, NEW p \in Procs, NEW a, Exits(p, a), UNCHANGED <<back, kept>>
  PROVE  ProcsType' /\ prog' = prog
<1>1. "CHLD" \in Sigs
  BY DEF Sigs
<1>2. pend' \in [Procs -> SUBSET Sigs]
  BY <1>1, RaiseType DEF Exits, ProcsType
<1> QED BY <1>2 DEF ProcsType, Exits, Goto, Places, Gone

LEMMA SyncTypes == ASSUME ProcsType, SyncAny, UNCHANGED <<back, kept>> PROVE ProcsType' /\ prog' = prog
<1> USE ProcsFacts DEF Places, Gone, Goto, SetMask, Catch, Inherit, same, dispositions
<1>1. CASE SyncBlock \/ SyncInstall \/ SyncFork \/ SyncRestore \/ ParentView \/ ParentKill
  BY <1>1 DEF SyncBlock, SyncInstall, SyncFork, SyncRestore, ParentView, ParentKill, ProcsType, Sigs
<1>2. CASE SyncWork
  BY <1>2 DEF SyncWork, ProcsType
<1>3. CASE ChildSignal
  <2>1. pend' \in [Procs -> SUBSET Sigs]
    BY <1>3, RaiseType DEF ChildSignal, Sigs
  <2> QED BY <1>3, <2>1 DEF ChildSignal, ProcsType
<1>4. CASE ParentSignal
  <2>1. pend' \in [Procs -> SUBSET Sigs]
    BY <1>4, RaiseType DEF ParentSignal, Sigs
  <2> QED BY <1>4, <2>1 DEF ParentSignal, ProcsType
<1>5. ASSUME NEW p \in {Main, Child}, SyncWait(p) PROVE ProcsType' /\ prog' = prog
  BY <1>5 DEF SyncWait, ProcsType
<1>6. ASSUME NEW p \in {Main, Child}, SyncResume(p) PROVE ProcsType' /\ prog' = prog
  BY <1>6, HandledType DEF SyncResume
<1>7. CASE ChildExit
  BY <1>7, ExitsType DEF ChildExit
<1>8. CASE SyncSent
  BY <1>8, SentToType DEF SyncSent, Sigs
<1>9. ASSUME NEW p \in Procs, Killed(p) PROVE ProcsType' /\ prog' = prog
  BY <1>9, KilledType
<1> QED BY <1>1, <1>2, <1>3, <1>4, <1>5, <1>6, <1>7, <1>8, <1>9
        DEF SyncAny, SyncParent, SyncChild

LEMMA LoopTypes == ASSUME ProcsType, LoopAny, UNCHANGED <<back, kept>> PROVE ProcsType' /\ prog' = prog
<1> USE ProcsFacts DEF Places, Gone, Goto, LoopGoto, SetMask, Catch, dispositions
<1>1. CASE LoopBlock \/ LoopRestore
  BY <1>1 DEF LoopBlock, LoopRestore, ProcsType, BlockedNow, Sigs
<1>2. CASE LoopInstall
  BY <1>2 DEF LoopInstall, ProcsType, Installed, Sigs
<1>3. CASE LoopTest \/ LoopSleep
  BY <1>3 DEF LoopTest, LoopSleep, ProcsType
<1>4. CASE LoopFetch
  BY <1>4 DEF LoopFetch, ProcsType
<1>5. CASE LoopHandler
  BY <1>5, HandledType DEF LoopHandler
<1>6. CASE LoopSent
  BY <1>6, SentToType DEF LoopSent, Sigs
<1>7. ASSUME NEW p \in Procs, Killed(p) PROVE ProcsType' /\ prog' = prog
  BY <1>7, KilledType
<1> QED BY <1>1, <1>2, <1>3, <1>4, <1>5, <1>6, <1>7 DEF LoopAny, LoopMain

LEMMA ReaperTypes == ASSUME ProcsType, ReaperAny PROVE ProcsType' /\ prog' = prog
<1> USE ProcsFacts DEF Places, Gone, Goto, SetMask, Catch, Ignore, Inherit, procsSame, reaperVars
<1>0. kept' \subseteq {"INT", "QUIT"}
  BY Zenon DEF ReaperAny, ReaperMain, ShSteps, ReaperKilled, ReaperSent, ProcsType, ChldHandler, ReapOne,
        ReapedAll, HandlerReturn, ReaperInstall, ReaperBlock, ReaperFork, ReaperChild, ReaperTest,
        SystemCall, SystemIgnore, SystemFork, SystemWait, SystemUnmask, SystemRestore, ShDefault, ShUnmask,
        ShEnds
<1>1. CASE ChldHandler \/ ReapedAll \/ HandlerReturn
  <2>1. kept' = kept
    BY <1>1 DEF ChldHandler, ReapedAll, HandlerReturn
  <2> QED BY <1>0, <1>1, <2>1 DEF ChldHandler, ReapedAll, HandlerReturn, ProcsType
<1>2. CASE ReapOne
  BY <1>2 DEF ReapOne, Zombies, ProcsType
<1>3. CASE ReaperInstall \/ ReaperBlock \/ ReaperTest
  BY <1>0, <1>3 DEF ReaperInstall, ReaperBlock, ReaperTest, ProcsType, Sigs
<1>4. ASSUME NEW c \in Children, ReaperFork(c) PROVE ProcsType' /\ prog' = prog
  BY <1>4 DEF ReaperFork, ProcsType
<1>5. CASE SystemCall \/ SystemIgnore \/ SystemUnmask \/ SystemRestore
  <2>1. CASE SystemCall
    BY <1>0, <2>1 DEF SystemCall, ProcsType, Sigs
  <2>2. CASE SystemIgnore
    BY <1>0, <2>2 DEF SystemIgnore, ProcsType, Sigs
  <2>3. CASE SystemUnmask
    BY <1>0, <2>3 DEF SystemUnmask, ProcsType, Sigs
  <2>4. CASE SystemRestore
    BY <1>0, <2>4 DEF SystemRestore, ProcsType, Sigs
  <2> QED BY <1>5, <2>1, <2>2, <2>3, <2>4
<1>6. CASE SystemFork \/ SystemWait
  BY <1>0, <1>6 DEF SystemFork, SystemWait, ProcsType
<1>7. CASE ShDefault \/ ShUnmask
  <2>1. CASE ShDefault
    BY <1>0, <2>1 DEF ShDefault, ProcsType, Sigs
  <2>2. CASE ShUnmask
    BY <1>0, <2>2 DEF ShUnmask, ProcsType
  <2> QED BY <1>7, <2>1, <2>2
<1>8. CASE ShEnds
  BY <1>8, ExitsType DEF ShEnds
<1>9. ASSUME NEW c \in Children, ReaperChild(c) PROVE ProcsType' /\ prog' = prog
  BY <1>9, ExitsType DEF ReaperChild
<1>10. ASSUME NEW p \in Procs, ReaperKilled(p) PROVE ProcsType' /\ prog' = prog
  BY <1>10, KilledType DEF ReaperKilled
<1>11. CASE ReaperSent
  BY <1>11, SentToType DEF ReaperSent, Sigs
<1> QED BY <1>1, <1>2, <1>3, <1>4, <1>5, <1>6, <1>7, <1>8, <1>9, <1>10, <1>11
        DEF ReaperAny, ReaperMain, ShSteps

LEMMA MqTypes == ASSUME ProcsType, MqAny, UNCHANGED <<back, kept>> PROVE ProcsType' /\ prog' = prog
<1> USE ProcsFacts DEF Places, Gone, Goto, MqGoto, SetMask, Catch, mqVars
<1>1. CASE MqBlock \/ MqInstall
  BY <1>1 DEF MqBlock, MqInstall, ProcsType, Sigs
<1>2. CASE MqRegister \/ MqAgain \/ MqReceive
  BY <1>2 DEF MqRegister, MqAgain, MqReceive, ProcsType
<1>3. CASE MqFetch
  BY <1>3 DEF MqFetch, ProcsType
<1>4. CASE MqHandler
  BY <1>4, HandledType DEF MqHandler
<1>5. CASE MqSend
  <2>1. pend' \in [Procs -> SUBSET Sigs]
    BY <1>5, RaiseType DEF MqSend, Sigs, ProcsType
  <2> QED BY <1>5, <2>1 DEF MqSend, ProcsType
<1>6. CASE MqSent
  BY <1>6, SentToType DEF MqSent, Sigs
<1>7. ASSUME NEW p \in Procs, Killed(p) PROVE ProcsType' /\ prog' = prog
  BY <1>7, KilledType
<1> QED BY <1>1, <1>2, <1>3, <1>4, <1>5, <1>6, <1>7 DEF MqAny, MqMain

LEMMA SelfTypes == ASSUME ProcsType, SelfAny, UNCHANGED <<back, kept>> PROVE ProcsType' /\ prog' = prog
<1> USE ProcsFacts DEF Places, Gone, Goto, WGoto, Catch
<1>1. CASE PipeInstall \/ Select \/ PollNull \/ PipeOther \/ PipeCheck \/ PipeDrain
  BY <1>1 DEF PipeInstall, Select, PollNull, PipeOther, PipeCheck, PipeDrain, ProcsType, Sigs
<1>2. CASE SigioInstall \/ SigioTest \/ SigioRead
  BY <1>2 DEF SigioInstall, SigioTest, SigioRead, ProcsType, Sigs
<1>3. CASE PipeHandler \/ SigioHandler
  BY <1>3, HandledType DEF PipeHandler, SigioHandler
<1>4. CASE SelfSent
  BY <1>1, <1>4, SentToType DEF SelfSent, Sigs
<1>5. CASE Typed
  <2>1. pend' \in [Procs -> SUBSET Sigs]
    BY <1>5, RaiseType DEF Typed, Sigs, ProcsType
  <2> QED BY <1>5, <2>1 DEF Typed, ProcsType
<1>6. ASSUME NEW p \in Procs, Killed(p) PROVE ProcsType' /\ prog' = prog
  BY <1>6, KilledType
<1> QED BY <1>1, <1>2, <1>3, <1>4, <1>5, <1>6
        DEF SelfAny, SelfMain, SelfPipeMain, Main63_05, SigioMain

LEMMA TypesNext == ASSUME ProcsType, [Next]_vars PROVE ProcsType' /\ prog' = prog
<1>1. CASE UNCHANGED vars
  BY <1>1 DEF vars, sigVars, reaperVars, ProcsType
<1>2. CASE Next
  BY <1>2, OneStep, SyncTypes, LoopTypes, ReaperTypes, MqTypes, SelfTypes
     DEF SyncStep, LoopStep, ReaperStep, MqStep, SelfStep, reaperVars
<1> QED BY <1>1, <1>2

----------------------------------------------------------------------------
(* Signals that are raised.                                                *)

LEMMA RaiseFacts ==
  ASSUME ProcsType, NEW P, NEW s, Raise(P, s), NEW p \in Procs
  PROVE  /\ pend[p] \subseteq pend'[p] /\ pend'[p] \subseteq pend[p] \cup {s}
         /\ p \notin P \/ ~Minds(p, s) => pend'[p] = pend[p]
         /\ p \in P /\ Minds(p, s) => s \in pend'[p]
BY DEF ProcsType, Raise

LEMMA KilledFacts ==
  ASSUME ProcsType, NEW p \in Procs, Killed(p)
  PROVE  /\ Live(p) /\ at'[p] = (IF p = Main THEN "killed" ELSE "zombie")
         /\ \A q \in Procs \ {p} : at'[q] = at[q]
         /\ \A q \in Procs : /\ pend[q] \subseteq pend'[q]
                             /\ pend'[q] \subseteq pend[q] \cup {"CHLD"}
         /\ \A q \in Children : pend'[q] = pend[q]
         /\ ~Minds(Main, "CHLD") => pend' = pend
         /\ p # Main /\ Minds(Main, "CHLD") => "CHLD" \in pend'[Main]
         /\ UNCHANGED <<mask, caught, ignored, sent>>
<1>1. CASE p = Main
  BY <1>1, ProcsFacts DEF Killed, ProcsType
<1>2. CASE p # Main
  <2>1. Raise({Main}, "CHLD")
    BY <1>2 DEF Killed
  <2>2. \A q \in Procs : /\ pend[q] \subseteq pend'[q] /\ pend'[q] \subseteq pend[q] \cup {"CHLD"}
                         /\ q # Main => pend'[q] = pend[q]
    BY <2>1, RaiseFacts
  <2>3. "CHLD" \in Sigs
    BY DEF Sigs
  <2>4. ASSUME ~Minds(Main, "CHLD") PROVE pend' = pend
    BY <2>1, <2>2, <2>3, <2>4, RaiseFacts, RaiseType DEF ProcsType
  <2>5. Minds(Main, "CHLD") => "CHLD" \in pend'[Main]
    BY <2>1, RaiseFacts, ProcsFacts
  <2>6. /\ Live(p) /\ at'[p] = (IF p = Main THEN "killed" ELSE "zombie")
        /\ \A q \in Procs \ {p} : at'[q] = at[q]
        /\ UNCHANGED <<mask, caught, ignored, sent>>
    BY DEF Killed, ProcsType
  <2>7. \A q \in Children : pend'[q] = pend[q]
    BY <2>2, ProcsFacts
  <2> QED BY <1>2, <2>2, <2>4, <2>5, <2>6, <2>7
<1> QED BY <1>1, <1>2

LEMMA SentFacts ==
  ASSUME ProcsType, NEW P, NEW S, SentTo(P, S), NEW p \in Procs
  PROVE  /\ pend[p] \subseteq pend'[p] /\ pend'[p] \subseteq pend[p] \cup S
         /\ p \notin P \/ (\A s \in S : ~Minds(p, s)) => pend'[p] = pend[p]
         /\ UNCHANGED <<prog, at, mask, caught, ignored>> /\ sent' = sent + 1
<1>1. PICK s \in S : Raise(P, s)
  BY DEF SentTo
<1> QED BY <1>1, RaiseFacts DEF SentTo

LEMMA HandledFacts ==
  ASSUME ProcsType, NEW p \in Procs, NEW S, NEW next, Handled(p, S, next)
  PROVE  /\ Live(p) /\ S # {} /\ S \subseteq pend[p] \cap caught[p]
         /\ at[p] # "suspend" => S \cap mask[p] = {}
         /\ at'[p] = IF at[p] \in {"suspend", "pause"} THEN next ELSE at[p]
         /\ pend'[p] = pend[p] \ S
         /\ \A q \in Procs \ {p} : at'[q] = at[q] /\ pend'[q] = pend[q]
         /\ UNCHANGED <<prog, mask, caught, ignored, sent>>
BY DEF ProcsType, Handled, Deliverable

----------------------------------------------------------------------------
(* Parent and child that hand the turn to each other.                      *)

Before == {"start", "block", "install", "fork"}
Bit(b) == IF b THEN 1 ELSE 0

SyncPlaces ==
  IF prog = "pingpong"
  THEN /\ at[Main] \in {"start", "block", "fork", "wait", "signal", "exit", "killed"}
       /\ at[Child] \in {"none", "signal", "wait", "exiting", "failed", "zombie"}
  ELSE /\ at[Main] \in {"start", "install", "fork", "suspend", "signal", "restore", "view", "kill",
                        "exit", "killed"}
       /\ at[Main] = "signal" => prog = "both"
       /\ at[Child] \in {"none", "work", "signal", "suspend", "exiting", "failed", "zombie"}

\* A signal that is pending was sent by the other, who has done its part.
TurnsInv ==
  /\ at[Main] \in Before => at[Child] = "none"
  /\ at[Child] = "none" => pend[Child] = {}
  /\ "USR1" \in pend[Main] \/ at[Main] \in {"signal", "restore", "view", "kill"} =>
        at[Child] \notin {"none", "work"} /\ (prog # "pingpong" => at[Child] # "signal")
  /\ prog = "both" /\ ("USR1" \in pend[Child] \/ at[Child] = "exiting") =>
        at[Main] \in {"restore", "exit", "killed"}

\* In 22_03 the turn is in one place, and the two have the same rounds left,
\* but for the signal that ends the child's round.
RoundsInv ==
  prog = "pingpong" =>
    /\ numSigs \in Nat /\ left \in [{Main, Child} -> Nat]
    /\ ignored[Main] = {} /\ ignored[Child] = {}
    /\ at[Main] \in Before => left[Main] = left[Child]
    /\ at[Main] \notin {"start", "block", "killed"} => mask[Main] = {"USR1"}
    /\ at[Child] # "none" => mask[Child] = {"USR1"}
    /\ Live(Main) => left[Main] > 0
    /\ at[Child] \in {"none", "signal", "wait"} => left[Child] > 0
    /\ Live(Main) /\ Live(Child) =>
         /\ left[Child] = left[Main] + Bit("USR1" \in pend[Child])
         /\ Bit(at[Child] = "wait") = Bit(at[Main] = "signal") + Bit("USR1" \in pend[Main])
                                        + Bit("USR1" \in pend[Child])

SyncInv == prog \in Syncs => SyncPlaces /\ TurnsInv /\ RoundsInv

LEMMA SyncInvInit == Init => SyncInv
BY ProcsFacts, RoundsAssumption
   DEF Init, SignalsInit, SyncInit, SyncInv, SyncPlaces, TurnsInv, RoundsInv, Before, Live, Gone, Syncs,
       RoundsAssumption

LEMMA SyncInvStep ==
  ASSUME ProcsType, SyncInv, prog \in Syncs, prog' = prog, SyncAny
  PROVE  SyncInv'
<1> USE ProcsFacts DEF SyncInv, SyncPlaces, TurnsInv, RoundsInv, Before, Bit, Live, Gone, Goto,
                       SetMask, Catch, Inherit, same, ProcsType
<1>0. Main # Child
  OBVIOUS
<1>1. CASE SyncBlock
  BY <1>0, <1>1 DEF SyncBlock, syncVars
<1>2. CASE SyncInstall
  BY <1>0, <1>2 DEF SyncInstall, syncVars
<1>3. CASE SyncFork
  BY <1>0, <1>3 DEF SyncFork, syncVars
<1>4. CASE SyncWait(Main)
  BY <1>0, <1>4 DEF SyncWait
<1>5. CASE SyncWait(Child)
  BY <1>0, <1>5 DEF SyncWait
<1>6. CASE SyncResume(Main)
  BY <1>0, <1>6, HandledFacts DEF SyncResume, syncVars
<1>7. CASE SyncResume(Child)
  <2>1. Handled(Child, {"USR1"}, "exiting") /\ UNCHANGED syncVars
    BY <1>7 DEF SyncResume
  <2>2. /\ "USR1" \in pend[Child] /\ pend'[Child] = pend[Child] \ {"USR1"}
        /\ at'[Child] = IF at[Child] \in {"suspend", "pause"} THEN "exiting" ELSE at[Child]
        /\ at[Child] # "suspend" => "USR1" \notin mask[Child]
        /\ at'[Main] = at[Main] /\ pend'[Main] = pend[Main]
        /\ UNCHANGED <<prog, mask, caught, ignored, sent>>
    BY <1>0, <2>1 DEF Handled, Deliverable
  <2> QED BY <1>0, <2>1, <2>2 DEF syncVars
<1>8. CASE ParentSignal
  BY <1>0, <1>8 DEF ParentSignal, Raise, Minds
<1>9. CASE SyncRestore \/ ParentView \/ ParentKill
  BY <1>0, <1>9 DEF SyncRestore, ParentView, ParentKill, syncVars
<1>10. CASE SyncWork
  BY <1>0, <1>10 DEF SyncWork, syncVars
<1>11. CASE ChildSignal
  BY <1>0, <1>11 DEF ChildSignal, Raise, Minds, syncVars
<1>12. CASE ChildExit
  BY <1>0, <1>12, RaiseFacts DEF ChildExit, Exits, syncVars
<1>13. CASE SyncSent
  <2>1. /\ \A p \in {Main, Child} : ~Live(p) => pend'[p] = pend[p]
        /\ \A p \in {Main, Child} : "USR1" \in pend'[p] <=> "USR1" \in pend[p]
        /\ UNCHANGED <<prog, at, mask, caught, ignored, syncVars>>
    BY <1>13 DEF SyncSent, SentTo, Raise, Minds
  <2> QED BY <1>0, <2>1 DEF syncVars
<1>14. ASSUME NEW p \in Procs, Killed(p), UNCHANGED syncVars PROVE SyncInv'
  BY <1>0, <1>14, KilledFacts DEF syncVars
<1> QED BY <1>1, <1>2, <1>3, <1>4, <1>5, <1>6, <1>7, <1>8, <1>9, <1>10, <1>11, <1>12, <1>13, <1>14
        DEF SyncAny, SyncParent, SyncChild

LEMMA SyncInvHolds == SyncInv => NobodyGoesEarly
BY ProcsFacts DEF SyncInv, SyncPlaces, TurnsInv, RoundsInv, NobodyGoesEarly, ChildSent, ParentGot,
                  ParentSent, ChildGot, Bit

----------------------------------------------------------------------------
(* Programs that take signals in a loop.                                   *)

LoopPlaces ==
  /\ prog = "quit" => at[Main] \in {"start", "install", "test", "critical", "suspend", "restore",
                                    "exit", "killed"}
  /\ prog \in Pauses => at[Main] \in {"start", "block", "sleep", "test", "pausing", "pause",
                                      "exit", "killed"}
  /\ prog = "fetch" => at[Main] \in {"start", "wait", "exit", "killed"}

\* t_sigsuspend's handler runs in sigsuspend only; catch_rtsigs' flag is not
\* set when it decides to pause.
LoopInv ==
  /\ prog \notin Loops => ~flag
  /\ prog \in Loops => LoopPlaces
  /\ prog = "quit" => /\ at[Main] = "start" => caught[Main] = {}
                      /\ at[Main] \in {"install", "test", "critical", "suspend", "restore"} =>
                           mask[Main] = {"INT", "QUIT"} /\ caught[Main] \subseteq {"INT", "QUIT"}
                      /\ flag => at[Main] \notin {"start", "install", "critical", "suspend"}
  /\ prog = "rtsigs" /\ flag /\ at[Main] \in {"pausing", "pause"} => raced
  /\ prog = "rtdone" => flag /\ at[Main] \notin {"pausing", "pause"}
  /\ prog = "fetch" => caught[Main] = {}

LEMMA LoopInvInit == Init => LoopInv
BY ProcsFacts DEF Init, SignalsInit, LoopInit, LoopInv, LoopPlaces, Loops, Pauses

LEMMA LoopInvStep ==
  ASSUME ProcsType, LoopInv, prog \in Loops, prog' = prog, LoopAny
  PROVE  LoopInv'
<1> USE ProcsFacts DEF LoopInv, LoopPlaces, Loops, Pauses, Goto, LoopGoto, SetMask, Catch, ProcsType,
                       loopVars
<1>1. CASE LoopBlock
  BY <1>1 DEF LoopBlock, BlockedNow
<1>2. CASE LoopInstall
  BY <1>2 DEF LoopInstall, Installed
<1>3. CASE LoopTest
  BY <1>3 DEF LoopTest
<1>4. CASE LoopSleep
  BY <1>4 DEF LoopSleep
<1>5. CASE LoopRestore
  BY <1>5 DEF LoopRestore
<1>6. CASE LoopFetch
  BY <1>6 DEF LoopFetch
<1>7. CASE LoopHandler
  <2>1. PICK S \in SUBSET caught[Main] :
          /\ Handled(Main, S, "test")
          /\ flag' = (flag \/ S \cap Last # {})
          /\ raced' = (raced \/ (at[Main] = "pausing" /\ S \cap Last # {}))
    BY <1>7 DEF LoopHandler
  <2>2. /\ S # {} /\ S \subseteq caught[Main] /\ at[Main] \notin {"exit", "killed"}
        /\ at[Main] # "suspend" => S \cap mask[Main] = {}
        /\ at'[Main] = IF at[Main] \in {"suspend", "pause"} THEN "test" ELSE at[Main]
        /\ UNCHANGED <<mask, caught>>
    BY <2>1, HandledFacts DEF Live, Gone
  <2>3. CASE prog = "quit"
    BY <2>1, <2>2, <2>3
  <2>4. CASE prog \in Pauses
    BY <2>1, <2>2, <2>4
  <2>5. CASE prog = "fetch"
    BY <2>2, <2>5
  <2> QED BY <2>3, <2>4, <2>5
<1>8. CASE LoopSent
  BY <1>8 DEF LoopSent, SentTo
<1>9. ASSUME NEW p \in Procs, Killed(p), UNCHANGED loopVars PROVE LoopInv'
  BY <1>9, KilledFacts
<1> QED BY <1>1, <1>2, <1>3, <1>4, <1>5, <1>6, <1>7, <1>8, <1>9 DEF LoopAny, LoopMain

----------------------------------------------------------------------------
(* Readers of a message queue.                                             *)

MqPlaces ==
  IF prog = "notify" THEN at[Main] \in {"start", "install", "register", "suspend", "again", "drain",
                                        "failed", "killed"}
  ELSE at[Main] \in {"start", "block", "wait", "again", "drain", "exit", "failed", "killed"}

\* Once it has registered, the reader is registered or its signal is pending;
\* and without signals from elsewhere it is never both.
MqInv ==
  prog \in Readers =>
    /\ MqPlaces /\ queued \in Nat
    /\ ignored[Main] = {} /\ caught[Main] \subseteq {"USR1"}
    /\ at[Main] = "start" \/ (prog = "notify" /\ at[Main] \in {"install", "register"}) =>
         ~registered /\ (sent = 0 => pend[Main] = {})
    /\ at[Main] \in {"block", "drain", "suspend", "wait"} /\ "USR1" \notin pend[Main] => registered
    /\ at[Main] \in {"block", "suspend", "wait"} /\ "USR1" \notin pend[Main] /\ queued > 0 => old
    /\ sent = 0 /\ Live(Main) => /\ "USR1" \in pend[Main] => ~registered
                                 /\ at[Main] = "again" => "USR1" \notin pend[Main] /\ ~registered
                                 /\ pend[Main] \subseteq {"USR1"}
    /\ prog = "notify" /\ at[Main] \notin {"start", "killed"} => mask[Main] = {"USR1"}
    /\ prog = "notify" /\ at[Main] \notin {"start", "install", "killed"} => caught[Main] = {"USR1"}
    /\ at[Main] = "killed" /\ sent = 0 => prog = "sigwait"
    /\ at[Main] = "failed" => sent > 0

LEMMA MqInvInit == Init => MqInv
BY ProcsFacts DEF Init, SignalsInit, MqInit, MqInv, MqPlaces, Live, Gone

LEMMA MqInvStep ==
  ASSUME ProcsType, MqInv, prog \in Readers, prog' = prog, MqAny
  PROVE  MqInv'
<1> USE ProcsFacts DEF MqInv, MqPlaces, Readers, Goto, MqGoto, SetMask, Catch, ProcsType, Live, Gone,
                       mqVars
<1>1. CASE MqBlock
  BY <1>1 DEF MqBlock
<1>2. CASE MqInstall
  BY <1>2 DEF MqInstall
<1>3. CASE MqRegister
  BY <1>3 DEF MqRegister
<1>4. CASE MqHandler
  <2>1. /\ "USR1" \in pend[Main] /\ pend'[Main] = pend[Main] \ {"USR1"}
        /\ at'[Main] = IF at[Main] \in {"suspend", "pause"} THEN "again" ELSE at[Main]
        /\ at[Main] # "suspend" => "USR1" \notin mask[Main]
        /\ prog = "notify" /\ "USR1" \in caught[Main] /\ Live(Main)
        /\ UNCHANGED <<mask, caught, ignored, sent, mqVars>>
    BY <1>4 DEF MqHandler, Handled, Deliverable
  <2> QED BY <2>1
<1>5. CASE MqFetch
  BY <1>5 DEF MqFetch
<1>6. CASE MqAgain
  BY <1>6 DEF MqAgain
<1>7. CASE MqReceive
  BY <1>7 DEF MqReceive
<1>8. CASE MqSend
  <2>1. /\ registered' <=> registered /\ queued > 0
        /\ old' <=> old
    BY <1>8 DEF MqSend
  <2>2. /\ Live(Main) /\ queued' = queued + 1
        /\ UNCHANGED <<at, mask, caught, ignored, sent>>
    BY <1>8 DEF MqSend
  <2>3. IF registered /\ queued = 0 THEN pend'[Main] = pend[Main] \cup {"USR1"} ELSE pend' = pend
    BY <1>8, <2>2 DEF MqSend, Raise, Minds
  <2>4. CASE registered /\ queued = 0
    BY <2>1, <2>2, <2>3, <2>4
  <2>5. CASE ~(registered /\ queued = 0)
    BY <2>1, <2>2, <2>3, <2>5
  <2> QED BY <2>4, <2>5
<1>9. CASE MqSent
  <2>1. /\ sent' = sent + 1 /\ pend[Main] \subseteq pend'[Main]
        /\ UNCHANGED <<at, mask, caught, ignored, mqVars>>
    BY <1>9, SentFacts DEF MqSent
  <2> QED BY <2>1
<1>10. ASSUME NEW p \in Procs, Killed(p), UNCHANGED mqVars PROVE MqInv'
  <2>1. /\ UNCHANGED <<mask, caught, ignored, sent>>
        /\ IF p = Main THEN at'[Main] = "killed" ELSE at'[Main] = at[Main]
        /\ pend[Main] \subseteq pend'[Main] /\ pend'[Main] \subseteq pend[Main] \cup {"CHLD"}
        /\ ~Minds(Main, "CHLD") => pend' = pend
    BY <1>10, KilledFacts
  <2>2. ~Minds(Main, "CHLD")
    BY DEF Minds
  <2>3. CASE p = Main /\ prog = "notify" /\ sent = 0
    BY <1>10, <2>3 DEF Killed, Deliverable
  <2>4. CASE p = Main /\ (prog = "sigwait" \/ sent # 0)
    BY <1>10, <2>1, <2>2, <2>4
  <2>5. CASE p # Main
    <3>1. UNCHANGED <<queued, registered, old, sent, mask, caught, ignored>>
          /\ at'[Main] = at[Main] /\ pend'[Main] = pend[Main]
      BY <1>10, <2>1, <2>2, <2>5
    <3> QED BY <3>1
  <2> QED BY <2>3, <2>4, <2>5
<1> QED BY <1>1, <1>2, <1>3, <1>4, <1>5, <1>6, <1>7, <1>8, <1>9, <1>10 DEF MqAny, MqMain

----------------------------------------------------------------------------
(* Programs that wait for a signal and for input.                          *)

SelfInv ==
  /\ prog \in SelfPipes =>
       /\ at[Main] \in {"start", "select", "check", "drain", "exit", "killed"} /\ bytes \in Nat
       /\ at[Main] = "start" => ~early
       /\ at[Main] = "select" /\ early => bytes > 0
       /\ at[Main] = "check" /\ early => isset
       /\ at[Main] \in {"drain", "exit"} /\ early => told
  /\ prog = "sigio" =>
       /\ at[Main] \in {"start", "setown", "cbreak", "test", "read", "exit", "killed"}
       /\ ignored[Main] = {}
       /\ at[Main] = "test" /\ tty # <<>> /\ ~done => gotio \/ "IO" \in pend[Main]

LEMMA SelfInvInit == Init => SelfInv
BY ProcsFacts DEF Init, SignalsInit, SelfInit, SelfInv

LEMMA SelfInvStep ==
  ASSUME ProcsType, SelfInv, prog \in Waiters, prog' = prog, SelfAny
  PROVE  SelfInv'
<1> USE ProcsFacts, SelfPipeAssumption
    DEF SelfInv, Waiters, SelfPipes, Goto, WGoto, Catch, ProcsType, Live, Gone, selfVars, pipeVars, ttyVars,
        SelfPipeAssumption
<1>1. CASE prog \in SelfPipes /\ PipeInstall
  BY <1>1 DEF PipeInstall
<1>2. CASE prog \in SelfPipes /\ PipeHandler
  <2>1. /\ at'[Main] = at[Main] /\ prog' = prog
        /\ bytes' \in Nat /\ bytes' > 0
        /\ UNCHANGED <<isset, told>>
    BY <1>2 DEF PipeHandler, Handled
  <2>2. early' <=> early \/ at[Main] = "select"
    BY <1>2 DEF PipeHandler
  <2> QED BY <1>2, <2>1, <2>2
<1>3. CASE prog \in SelfPipes /\ Select
  BY <1>3 DEF Select
<1>4. CASE PollNull
  BY <1>4 DEF PollNull
<1>5. CASE PipeOther
  BY <1>5 DEF PipeOther
<1>6. CASE prog \in SelfPipes /\ PipeCheck
  BY <1>6 DEF PipeCheck
<1>7. CASE prog \in SelfPipes /\ PipeDrain
  BY <1>7 DEF PipeDrain
<1>8. CASE SigioInstall
  BY <1>8 DEF SigioInstall
<1>9. CASE SigioHandler
  BY <1>9 DEF SigioHandler, Handled
<1>10. CASE SigioTest
  BY <1>10 DEF SigioTest
<1>11. CASE SigioRead
  BY <1>11 DEF SigioRead
<1>12. CASE prog \in SelfPipes /\ SentTo({Main}, {"INT"}) /\ UNCHANGED selfVars
  BY <1>12 DEF SentTo
<1>13. CASE Typed
  BY <1>13 DEF Typed, Raise, Minds
<1>14. ASSUME NEW p \in Procs, Killed(p), UNCHANGED selfVars PROVE SelfInv'
  BY <1>14, KilledFacts
<1> QED BY <1>1, <1>2, <1>3, <1>4, <1>5, <1>6, <1>7, <1>8, <1>9, <1>10, <1>11, <1>12, <1>13, <1>14
        DEF SelfAny, SelfMain, SelfSent, SelfPipeMain, Main63_05, SigioMain

----------------------------------------------------------------------------
(* A handler that reaps all children.                                      *)

Reaped == {c \in Children : at[c] = "reaped"}

\* Whenever the handler does not run, a zombie has left its signal.
ReapInv ==
  prog = "reap" =>
    /\ at[Main] \in {"start", "block", "fork", "test", "suspend", "waitany", "linger", "exit", "killed"}
    /\ back \in {"none", "block", "fork", "test"}
    /\ at[Main] \in {"waitany", "linger"} => back # "none"
    /\ \A c \in Children : at[c] \in {"none", "sleep", "zombie", "reaped"}
    /\ at[Main] = "start" => caught[Main] = {} /\ \A c \in Children : at[c] = "none"
    /\ at[Main] \notin {"start", "killed"} => caught[Main] = {"CHLD"}
    /\ Live(Main) /\ at[Main] # "waitany" /\ Zombies # {} => "CHLD" \in pend[Main]
    /\ at[Main] \notin {"start", "killed"} => numLive = NChildren - Cardinality(Reaped)

LEMMA ReapInvInit == Init => ReapInv
BY ProcsFacts DEF Init, SignalsInit, ReaperInit, ReapInv, Zombies, Live, Gone

LEMMA ReapInvStep ==
  ASSUME ProcsType, ReapInv, prog = "reap", prog' = prog, ReaperAny
  PROVE  ReapInv'
<1> USE ProcsFacts DEF ReapInv, Goto, SetMask, Catch, Inherit, procsSame, ProcsType, Live, Gone, Zombies,
                       reaperVars
<1>0. IsFiniteSet(Children)
  BY FS_Interval, SignalsAssumption DEF Children, SignalsAssumption
<1>a. NChildren \in Nat /\ IsFiniteSet(Reaped) /\ Cardinality(Reaped) \in Nat
  BY <1>0, FS_Subset, FS_CardinalityType, SignalsAssumption DEF Reaped, SignalsAssumption
<1>1. CASE ChldHandler
  <2>1. Reaped' = Reaped
    BY <1>1 DEF ChldHandler, Reaped
  <2> QED BY <1>1, <2>1 DEF ChldHandler, Deliverable
<1>2. CASE ReapOne
  <2>1. PICK c \in Zombies : at' = [at EXCEPT ![c] = "reaped"]
    BY <1>2 DEF ReapOne
  <2>2. c \in Children /\ c \notin Reaped /\ c # Main /\ Reaped' = Reaped \cup {c}
    BY <2>1 DEF Reaped
  <2>3. Cardinality(Reaped') = Cardinality(Reaped) + 1
    BY <1>a, <2>2, FS_AddElement
  <2> QED BY <1>a, <1>2, <2>1, <2>2, <2>3 DEF ReapOne
<1>3. CASE ReapedAll
  <2>1. Reaped' = Reaped
    BY <1>3 DEF ReapedAll, Reaped
  <2> QED BY <1>3, <2>1 DEF ReapedAll
<1>4. CASE HandlerReturn
  <2>1. Reaped' = Reaped /\ Zombies' = Zombies
    BY <1>4 DEF HandlerReturn, Reaped
  <2> QED BY <1>4, <2>1 DEF HandlerReturn
<1>5. CASE ReaperInstall
  <2>1. Reaped' = {}
    BY <1>5 DEF ReaperInstall, Reaped
  <2>2. NChildren = NChildren - Cardinality(Reaped')
    BY <1>a, <2>1, FS_EmptySet
  <2> QED BY <1>5, <2>2 DEF ReaperInstall
<1>6. CASE ReaperBlock
  <2>1. Reaped' = Reaped
    BY <1>6 DEF ReaperBlock, Reaped
  <2> QED BY <1>6, <2>1 DEF ReaperBlock
<1>7. CASE ReaperTest
  <2>1. Reaped' = Reaped
    BY <1>7 DEF ReaperTest, Reaped
  <2> QED BY <1>7, <2>1 DEF ReaperTest
<1>8. ASSUME NEW c \in Children, ReaperFork(c) PROVE ReapInv'
  <2>1. Reaped' = Reaped
    BY <1>8 DEF ReaperFork, Reaped
  <2> QED BY <1>8, <2>1 DEF ReaperFork
<1>9. ASSUME NEW c \in Children, ReaperChild(c) PROVE ReapInv'
  <2>1. Reaped' = Reaped
    BY <1>9 DEF ReaperChild, Exits, Reaped
  <2> QED BY <1>9, <2>1 DEF ReaperChild, Exits, Raise, Minds
<1>10. ASSUME NEW p \in Procs, ReaperKilled(p) PROVE ReapInv'
  <2>1. /\ Live(p) /\ at'[p] = (IF p = Main THEN "killed" ELSE "zombie")
        /\ \A q \in Procs \ {p} : at'[q] = at[q]
        /\ pend[Main] \subseteq pend'[Main]
        /\ p # Main /\ Minds(Main, "CHLD") => "CHLD" \in pend'[Main]
        /\ UNCHANGED <<caught, numLive, back>>
    BY <1>10, KilledFacts DEF ReaperKilled
  <2>2. Reaped' = Reaped
    BY <2>1 DEF Reaped
  <2>3. CASE p = Main
    <3>1. at'[Main] = "killed" /\ \A c \in Children : at'[c] = at[c]
      BY <2>1, <2>3
    <3> QED BY <2>1, <3>1
  <2>4. CASE p # Main
    <3>1. Live(Main) => Minds(Main, "CHLD")
      BY <2>1, <2>4 DEF Minds, Procs
    <3> QED BY <2>1, <2>2, <2>4, <3>1
  <2> QED BY <2>3, <2>4
<1>11. CASE ReaperSent
  <2>1. /\ UNCHANGED <<at, mask, caught, ignored, numLive, back>>
        /\ pend[Main] \subseteq pend'[Main]
    BY <1>11, SentFacts DEF ReaperSent
  <2>2. Reaped' = Reaped
    BY <2>1 DEF Reaped
  <2> QED BY <2>1, <2>2
<1>12. CASE ShSteps \/ SystemIgnore \/ SystemWait \/ SystemUnmask \/ SystemRestore
  BY <1>12 DEF ShSteps, ShDefault, ShUnmask, ShEnds, Exits, SystemIgnore, SystemWait, SystemUnmask,
               SystemRestore
<1> QED BY <1>1, <1>2, <1>3, <1>4, <1>5, <1>6, <1>7, <1>8, <1>9, <1>10, <1>11, <1>12
        DEF ReaperAny, ReaperMain, SystemCall, SystemFork

LEMMA ReapInvHolds == ReapInv => NoForgottenChild
BY ProcsFacts DEF ReapInv, NoForgottenChild, Reaped, Live, Gone

----------------------------------------------------------------------------
(* system().                                                               *)

\* Where the caller has the child's status, and where it waits for it.
After == {"unmask", "restore", "exit", "waitany", "linger"}

\* SIGCHLD stays blocked from before the fork to after waitpid, so that the
\* caller's handler runs only when there is no child or it has been reaped;
\* SIGINT and SIGQUIT are ignored for as long as there is a child, and by the
\* child as by the caller.
SystemInv ==
  prog = "system" =>
    /\ at[Main] \in {"start", "system", "ignore", "fork", "waitpid", "killed"} \cup After
    /\ at[Sh] \in {"none", "default", "unmask", "command", "zombie", "reaped"}
    /\ \A c \in Children \ {Sh} : at[c] = "none"
    /\ back \in {"none", "restore"} /\ caught[Main] \subseteq {"CHLD"}
    /\ at[Main] \in {"waitany", "linger"} => back = "restore"
    /\ at[Main] \in {"start", "system", "ignore", "fork", "killed"} => at[Sh] = "none"
    /\ at[Main] \in {"start", "system", "ignore", "fork"} => how = "none"
    /\ at[Sh] = "none" => "CHLD" \notin pend[Main]
    /\ at[Main] \in {"start", "system", "ignore"} => pend[Main] \subseteq {"INT", "QUIT"}
    /\ at[Main] \in {"ignore", "fork", "waitpid", "unmask"} => mask[Main] = {"CHLD"}
    /\ at[Main] \in {"fork", "waitpid", "unmask", "restore", "waitany", "linger"} =>
         ignored[Main] = {"INT", "QUIT"} /\ pend[Main] \subseteq {"CHLD"} /\ pend[Main] \subseteq caught[Main]
    /\ at[Main] = "waitpid" => at[Sh] \notin {"none", "reaped"}
    /\ at[Main] \in After => at[Sh] \in {"none", "reaped"} /\ (at[Sh] = "none" => how = "nofork")
    /\ at[Sh] # "none" => how # "nofork"
    /\ at[Main] \in After => status = IF how = "nofork" THEN "failed" ELSE how
    /\ at[Sh] = "none" => pend[Sh] = {}
    /\ at[Sh] \in {"default", "unmask", "command"} =>
         /\ kept \subseteq ignored[Sh] /\ caught[Sh] \subseteq {"CHLD"}
         /\ pend[Sh] \subseteq {"INT", "QUIT"} \ kept
    /\ kept \subseteq {"INT", "QUIT"} /\ (how = "killed" => kept # {"INT", "QUIT"})

LEMMA SystemInvInit == Init => SystemInv
BY ProcsFacts DEF Init, SignalsInit, ReaperInit, SystemInv, After

LEMMA SystemInvStep ==
  ASSUME ProcsType, SystemInv, prog = "system", prog' = prog, ReaperAny
  PROVE  SystemInv'
<1> USE ProcsFacts DEF SystemInv, After, Goto, SetMask, Catch, Ignore, Inherit, procsSame, ProcsType, Live,
                       Gone, reaperVars
<1>1. CASE ChldHandler
  BY <1>1 DEF ChldHandler, Deliverable
<1>2. CASE ReapOne
  BY <1>2 DEF ReapOne, Zombies
<1>3. CASE ReapedAll
  BY <1>3 DEF ReapedAll
<1>4. CASE HandlerReturn
  BY <1>4 DEF HandlerReturn
<1>5. CASE ReaperBlock
  BY <1>5 DEF ReaperBlock
<1>6. CASE SystemCall
  BY <1>6 DEF SystemCall
<1>7. CASE SystemIgnore
  BY <1>7 DEF SystemIgnore
<1>8. CASE SystemFork
  BY <1>8 DEF SystemFork
<1>9. CASE ShDefault \/ ShUnmask
  <2>1. CASE ShDefault
    <3>1. /\ Main # Sh /\ at[Sh] = "default" /\ at'[Sh] = "unmask"
          /\ ignored'[Sh] = kept /\ pend'[Sh] = pend[Sh] \ kept
          /\ \A p \in Procs \ {Sh} : at'[p] = at[p] /\ pend'[p] = pend[p] /\ ignored'[p] = ignored[p]
          /\ UNCHANGED <<caught, mask, back, kept, how, status>>
      BY <2>1 DEF ShDefault
    <3>2. \A c \in Children \ {Sh} : at'[c] = at[c]
      BY <3>1, ProcsFacts
    <3> HIDE DEF Goto, Ignore, ProcsType
    <3> QED BY <3>1, <3>2
  <2>2. CASE ShUnmask
    BY <2>2 DEF ShUnmask
  <2> QED BY <1>9, <2>1, <2>2
<1>10. CASE ShEnds
  BY <1>10 DEF ShEnds, Exits, Raise, Minds
<1>11. CASE SystemWait
  BY <1>11 DEF SystemWait
<1>12. CASE SystemUnmask
  BY <1>12 DEF SystemUnmask
<1>13. CASE SystemRestore
  BY <1>13 DEF SystemRestore
<1>14. ASSUME NEW p \in Procs, ReaperKilled(p) PROVE SystemInv'
  <2>1. /\ Killed(p) /\ Live(p) /\ at'[p] = (IF p = Main THEN "killed" ELSE "zombie")
        /\ \A q \in Procs \ {p} : at'[q] = at[q]
        /\ pend'[Main] \subseteq pend[Main] \cup {"CHLD"}
        /\ ~Minds(Main, "CHLD") => pend' = pend
        /\ how' = IF p = Sh THEN "killed" ELSE how
        /\ pend'[Sh] = pend[Sh]
        /\ UNCHANGED <<mask, caught, ignored, back, kept, status>>
    BY <1>14, KilledFacts DEF ReaperKilled
  <2>2. CASE p = Main
    <3>1. Deliverable(Main) \ caught[Main] # {}
      BY <2>1, <2>2 DEF Killed
    <3>2. at[Main] \in {"start", "system", "ignore"}
      BY <2>1, <2>2, <3>1 DEF Deliverable
    <3>3. pend' = pend /\ \A c \in Children : at'[c] = at[c]
      BY <2>1, <2>2 DEF Killed
    <3> QED BY <2>1, <2>2, <3>2, <3>3
  <2>3. CASE p = Sh
    <3>1. Main # Sh /\ at'[Main] = at[Main] /\ \A c \in Children \ {Sh} : at'[c] = at[c]
      BY <2>1, <2>3
    <3>2. "CHLD" \in pend'[Main] \ pend[Main] => "CHLD" \in caught[Main]
      BY <2>1 DEF Minds
    <3>3. at[Main] = "waitpid"
      BY <2>1, <2>3
    <3>4. at[Sh] \in {"default", "unmask", "command"} /\ at'[Sh] = "zombie"
      BY <2>1, <2>3, <3>3
    <3>5. pend[Sh] # {}
      BY <2>1, <2>3 DEF Killed, Deliverable
    <3>6. kept # {"INT", "QUIT"}
      BY <3>4, <3>5
    <3> QED BY <2>1, <2>3, <3>1, <3>2, <3>3, <3>4, <3>6
  <2> QED BY <2>1, <2>2, <2>3 DEF Procs
<1>15. CASE ReaperSent
  <2>1. SentTo(Procs, {"INT", "QUIT"}) /\ UNCHANGED reaperVars
    BY <1>15 DEF ReaperSent
  <2>2. /\ UNCHANGED <<at, mask, caught, ignored, numLive, back, kept, how, status>>
        /\ pend'[Main] \subseteq pend[Main] \cup {"INT", "QUIT"}
    BY <2>1, SentFacts
  <2>3. ignored[Main] = {"INT", "QUIT"} /\ caught[Main] \subseteq {"CHLD"} => pend'[Main] = pend[Main]
    <3>1. ignored[Main] = {"INT", "QUIT"} /\ caught[Main] \subseteq {"CHLD"} =>
            \A s \in {"INT", "QUIT"} : ~Minds(Main, s)
      BY DEF Minds
    <3> QED BY <2>1, <3>1, SentFacts
  <2>4. PICK s \in {"INT", "QUIT"} : Raise(Procs, s)
    BY <2>1 DEF SentTo
  <2>5. /\ pend[Sh] \subseteq pend'[Sh] /\ pend'[Sh] \subseteq pend[Sh] \cup {s}
        /\ ~Minds(Sh, s) => pend'[Sh] = pend[Sh]
    BY <2>4, RaiseFacts
  <2>6. at[Sh] = "none" => pend'[Sh] = {}
    BY <2>5 DEF Minds
  <2>7. at[Sh] \in {"default", "unmask", "command"} => pend'[Sh] \subseteq {"INT", "QUIT"} \ kept
    <3>1. CASE s \in ignored[Sh] /\ s \notin caught[Sh]
      BY <2>5, <3>1 DEF Minds
    <3>2. CASE s \notin ignored[Sh]
      BY <2>5, <3>2
    <3>3. CASE s \in caught[Sh]
      BY <2>5, <3>3
    <3> QED BY <3>1, <3>2, <3>3
  <2> QED BY <2>2, <2>3, <2>6, <2>7
<1> QED BY <1>1, <1>2, <1>3, <1>4, <1>5, <1>6, <1>7, <1>8, <1>9, <1>10, <1>11, <1>12, <1>13, <1>14, <1>15
        DEF ReaperAny, ReaperMain, ShSteps, ReaperInstall, ReaperFork, ReaperChild, ReaperTest

LEMMA SystemInvHolds == SystemInv => SystemReturnsStatus
BY DEF SystemInv, SystemReturnsStatus, After

----------------------------------------------------------------------------
(* All programs.                                                           *)

Inv == ProcsType /\ SyncInv /\ LoopInv /\ MqInv /\ SelfInv /\ ReapInv /\ SystemInv

LEMMA InvUnchanged ==
  ASSUME Inv, UNCHANGED vars
  PROVE  Inv'
<1> USE DEF Inv, vars, sigVars, syncVars, loopVars, reaperVars, mqVars, selfVars, pipeVars, ttyVars
<1>1. ProcsType'
  BY DEF ProcsType
<1>2. SyncInv'
  BY DEF SyncInv, SyncPlaces, TurnsInv, RoundsInv, Before, Live, Gone
<1>3. LoopInv'
  BY DEF LoopInv, LoopPlaces
<1>4. MqInv'
  BY DEF MqInv, MqPlaces, Live, Gone
<1>5. SelfInv'
  BY DEF SelfInv
<1>6. ReapInv'
  BY DEF ReapInv, Reaped, Zombies, Live, Gone
<1>7. SystemInv'
  BY DEF SystemInv, After
<1> QED BY <1>1, <1>2, <1>3, <1>4, <1>5, <1>6, <1>7

LEMMA OtherLoops ==
  ASSUME LoopInv, prog' = prog, prog \notin Loops, UNCHANGED loopVars
  PROVE  LoopInv'
BY DEF LoopInv, loopVars, Loops, Pauses

LEMMA InvInit == Init => Inv
<1>1. Init => ProcsType
  BY DEF Init, SignalsInit, ReaperInit, ProcsType, Places, Gone
<1> QED BY <1>1, SyncInvInit, LoopInvInit, MqInvInit, SelfInvInit, ReapInvInit, SystemInvInit DEF Inv

LEMMA InvNext == Inv /\ [Next]_vars => Inv'
<1> SUFFICES ASSUME Inv, [Next]_vars PROVE Inv'
  OBVIOUS
<1> USE DEF Inv
<1>0. ProcsType' /\ prog' = prog
  BY TypesNext
<1>1. CASE UNCHANGED vars
  BY <1>1, InvUnchanged
<1>2. CASE SyncStep(SyncAny)
  <2>1. SyncInv' /\ LoopInv'
    BY <1>0, <1>2, SyncInvStep, OtherLoops DEF SyncStep, Syncs, Loops
  <2> QED BY <1>0, <1>2, <2>1 DEF SyncStep, Syncs, MqInv, SelfInv, ReapInv, SystemInv, Readers, SelfPipes
<1>3. CASE LoopStep(LoopAny)
  <2>1. LoopInv'
    BY <1>0, <1>3, LoopInvStep DEF LoopStep
  <2> QED BY <1>0, <1>3, <2>1 DEF LoopStep, Loops, SyncInv, MqInv, SelfInv, ReapInv, SystemInv, Syncs,
                                  Readers, SelfPipes
<1>4. CASE ReaperStep(ReaperAny)
  <2>1. ReapInv' /\ SystemInv'
    BY <1>0, <1>4, ReapInvStep, SystemInvStep DEF ReaperStep, Reapers, ReapInv, SystemInv
  <2>2. LoopInv'
    BY <1>0, <1>4, OtherLoops DEF ReaperStep, Reapers, Loops
  <2> QED BY <1>0, <1>4, <2>1, <2>2 DEF ReaperStep, Reapers, SyncInv, MqInv, SelfInv, Syncs, Readers,
                                        SelfPipes
<1>5. CASE MqStep(MqAny)
  <2>1. MqInv' /\ LoopInv'
    BY <1>0, <1>5, MqInvStep, OtherLoops DEF MqStep, Readers, Loops
  <2> QED BY <1>0, <1>5, <2>1 DEF MqStep, Readers, SyncInv, SelfInv, ReapInv, SystemInv, Syncs, SelfPipes
<1>6. CASE SelfStep(SelfAny)
  <2>1. SelfInv' /\ LoopInv'
    BY <1>0, <1>6, SelfInvStep, OtherLoops DEF SelfStep, Waiters, SelfPipes, Loops
  <2> QED BY <1>0, <1>6, <2>1 DEF SelfStep, Waiters, SelfPipes, SyncInv, MqInv, ReapInv, SystemInv, Syncs,
                                  Readers
<1> QED BY <1>1, <1>2, <1>3, <1>4, <1>5, <1>6, OneStep

LEMMA InvAlways == Spec => []Inv
<1>1. Init => Inv
  BY InvInit
<1>2. Inv /\ [Next]_vars => Inv'
  BY InvNext
<1> QED BY <1>1, <1>2, PTL DEF Spec

\* In fork_sig_sync, 24_05, 26_04 and 22_03 nobody goes on before the other has
\* done his part and said so, whatever else is sent to the two.
THEOREM NobodyEarlyCorrect == Spec => []NobodyGoesEarly
<1>1. Inv => NobodyGoesEarly
  BY SyncInvHolds DEF Inv
<1> QED BY <1>1, InvAlways, PTL

\* Nobody sleeps over what it was told: t_sigsuspend over a SIGQUIT (and
\* catch_rtsigs only if its handler ran between the test and pause),
\* multi_SIGCHLD over a child's end, mq_notify_sig and 52_06 over a message,
\* self_pipe and 63_05 over a signal, demo_sigio over input.
THEOREM NoticeCorrect == Spec => []NoMissedNotice
<1>1. LoopInv => LoopNotMissed
  BY DEF LoopInv, LoopNotMissed, LoopPlaces, Loops, Pauses
<1>2. ProcsType /\ MqInv => NoMissedMessage
  BY DEF MqInv, NoMissedMessage, ProcsType, Live, Gone
<1>3. SelfInv => SelfNotMissed
  BY DEF SelfInv, SelfNotMissed
<1>4. Inv => NoMissedNotice
  BY <1>1, <1>2, <1>3, ReapInvHolds DEF Inv, NoMissedNotice
<1> QED BY <1>4, InvAlways, PTL

\* system() returns its own child's status, even in a program whose handler
\* reaps all children, and a SIGINT from the terminal does not kill the caller
\* while there is a child, nor the command of a caller that ignores it and
\* SIGQUIT.
THEOREM StatusCorrect == Spec => []SystemReturnsStatus
<1>1. Inv => SystemReturnsStatus
  BY SystemInvHolds DEF Inv
<1> QED BY <1>1, InvAlways, PTL
=============================================================================
