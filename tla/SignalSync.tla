----------------------------- MODULE SignalSync -----------------------------
(***************************************************************************)
(* A parent and a child that hand the turn to each other by a signal:      *)
(*                                                                         *)
(*   sync      procexec/fork_sig_sync.c   the parent waits for the child   *)
(*   both      exercises/24_05.c          and then the child for it        *)
(*   zombie    exercises/26_04.c          the child signals as it exits    *)
(*   pingpong  exercises/22_03.c          num_sigs rounds of sigwaitinfo   *)
(***************************************************************************)
EXTENDS Signals

CONSTANT MaxRounds     \* bound: num_sigs of 22_03

ASSUME RoundsAssumption == MaxRounds \in Nat \ {0}

VARIABLES numSigs,     \* 22_03's argument
          left         \* rounds still to do

syncVars == <<numSigs, left>>

Syncs == {"sync", "both", "zombie", "pingpong"}
Child == 1

SyncInit == /\ numSigs \in IF prog = "pingpong" THEN 1 .. MaxRounds ELSE {1}
            /\ left = [p \in {Main, Child} |-> numSigs]

same == <<prog, sent, syncVars>>

\* Faulty: the signal is not blocked.
SyncBlockNot ==
  /\ IF prog = "pingpong" THEN Goto(Main, "block", "fork") ELSE Goto(Main, "start", "install")
  /\ UNCHANGED <<same, mask, pend, dispositions>>

SyncBlock ==
  /\ IF prog = "pingpong" THEN Goto(Main, "block", "fork") ELSE Goto(Main, "start", "install")
  /\ SetMask(Main, {"USR1"})
  /\ UNCHANGED <<same, pend, dispositions>>

SyncInstall ==
  /\ IF prog = "pingpong" THEN Goto(Main, "start", "block") ELSE Goto(Main, "install", "fork")
  /\ Catch(Main, {"USR1"})
  /\ UNCHANGED <<same, mask, pend>>

SyncFork ==
  /\ at[Main] = "fork"
  /\ at' = [at EXCEPT ![Main]  = IF prog = "pingpong" THEN "wait" ELSE "suspend",
                      ![Child] = IF prog = "pingpong" THEN "signal" ELSE "work"]
  /\ Inherit(Child)
  /\ UNCHANGED <<same, pend>>

\* "Child does some required action here."
SyncWork == /\ Goto(Child, "work", "signal")
            /\ UNCHANGED <<same, mask, pend, dispositions>>

\* kill(getppid(), ...): the parent of an orphan is not to be signalled.
ChildSignal ==
  /\ Goto(Child, "signal", IF ~Live(Main) THEN "failed"
                           ELSE CASE prog = "both"     -> "suspend"
                                  [] prog = "pingpong" -> "wait"
                                  [] OTHER             -> "exiting")
  /\ Raise({Main}, "USR1")
  /\ UNCHANGED <<same, mask, dispositions>>

\* The rest of exit: only now the child becomes a zombie.
ChildExit == Exits(Child, "exiting") /\ UNCHANGED syncVars

\* kill(child_pid, ...).
ParentSignal ==
  /\ at[Main] = "signal"
  /\ left' = [left EXCEPT ![Main] = @ - 1]
  /\ Goto(Main, "signal", IF prog = "both" THEN "restore"
                          ELSE IF left'[Main] = 0 THEN "exit" ELSE "wait")
  /\ Raise({Child}, "USR1")
  /\ UNCHANGED <<prog, sent, numSigs, mask, dispositions>>

\* sigwaitinfo takes a signal that is blocked; the child's round is over.
SyncWait(p) ==
  /\ at[p] = "wait" /\ "USR1" \in pend[p]
  /\ left' = [left EXCEPT ![p] = IF p = Child THEN @ - 1 ELSE @]
  /\ Goto(p, "wait", IF left'[p] = 0 THEN "exiting" ELSE "signal")
  /\ pend' = [pend EXCEPT ![p] = @ \ {"USR1"}]
  /\ UNCHANGED <<prog, sent, numSigs, mask, dispositions>>

SyncResume(p) ==
  /\ Handled(p, {"USR1"}, IF p = Child THEN "exiting"
                          ELSE CASE prog = "sync" -> "restore"
                                 [] prog = "both" -> "signal"
                                 [] OTHER         -> "view")
  /\ UNCHANGED syncVars

SyncRestore == /\ Goto(Main, "restore", "exit")
               /\ SetMask(Main, {})
               /\ UNCHANGED <<same, pend, dispositions>>

\* system("ps ..."), then SIGKILL for what is taken for a zombie.
ParentView == /\ Goto(Main, "view", "kill")
              /\ UNCHANGED <<same, mask, pend, dispositions>>

ParentKill ==
  /\ at[Main] = "kill"
  /\ at' = [at EXCEPT ![Main] = "exit", ![Child] = "zombie"]
  /\ UNCHANGED <<same, mask, pend, dispositions>>

SyncParent == \/ SyncBlock \/ SyncInstall \/ SyncFork \/ SyncWait(Main)
              \/ SyncResume(Main) \/ ParentSignal \/ SyncRestore
              \/ ParentView \/ ParentKill
SyncChild  == \/ SyncWork \/ ChildSignal \/ ChildExit
              \/ SyncWait(Child) \/ SyncResume(Child)

SyncSent == \E p \in {Main, Child} : SentTo({p}, {"INT"}) /\ UNCHANGED syncVars

SyncTypeOK == numSigs \in 1 .. MaxRounds /\ left \in [{Main, Child} -> 0 .. MaxRounds]

----------------------------------------------------------------------------
\* What each has sent and received.
ChildSent  == (numSigs - left[Child]) + IF at[Child] = "wait" THEN 1 ELSE 0
ParentGot  == (numSigs - left[Main]) + IF at[Main] = "signal" THEN 1 ELSE 0
ParentSent == numSigs - left[Main]
ChildGot   == numSigs - left[Child]

\* The parent goes on only after the child has done its work and said so, and
\* the child of 24_05 only after the parent's answer; in 22_03 no signal is
\* ever merged with an earlier one, or taken twice.
NobodyGoesEarly ==
  prog \in Syncs =>
    /\ at[Main] \in {"signal", "restore", "view", "kill"} =>
          at[Child] \notin {"none", "work"} /\ (prog # "pingpong" => at[Child] # "signal")
    /\ prog = "both" /\ at[Child] = "exiting" => at[Main] \in {"restore", "exit", "killed"}
    /\ prog = "pingpong" /\ Live(Main) /\ Live(Child) =>
          /\ ChildSent = ParentGot + IF "USR1" \in pend[Main] THEN 1 ELSE 0
          /\ ParentSent = ChildGot + IF "USR1" \in pend[Child] THEN 1 ELSE 0

\* "View zombie child", "Now send the sure kill signal to the zombie".
ZombieWhenViewed == at[Main] \in {"view", "kill"} => at[Child] = "zombie"

\* Both processes end if nobody else signals them.
SyncEnds == prog \in Syncs ~> sent > 0 \/ \A p \in {Main, Child} : ~Live(p)
=============================================================================
