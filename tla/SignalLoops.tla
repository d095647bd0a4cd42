----------------------------- MODULE SignalLoops -----------------------------
(***************************************************************************)
(* Programs that take signals in a loop until one tells them to end:       *)
(*                                                                         *)
(*   quit     signals/t_sigsuspend.c   critical sections, with the signals *)
(*                                     blocked, until SIGQUIT              *)
(*   rtsigs   signals/catch_rtsigs.c   test and pause, until SIGINT        *)
(*   rtdone   exercises/22_02.c        the same with all_done set from the *)
(*                                     start                               *)
(*   fetch    signals/t_sigwaitinfo.c  sigwaitinfo, until SIGINT           *)
(***************************************************************************)
EXTENDS Signals

VARIABLES flag,        \* got_sig_quit, all_done
          raced        \* all_done was set between the test and pause

loopVars == <<flag, raced>>

Loops  == {"quit", "rtsigs", "rtdone", "fetch"}
Pauses == {"rtsigs", "rtdone"}

LoopInit == flag = (prog = "rtdone") /\ raced = FALSE

LoopGoto(a, b) == Goto(Main, a, b) /\ UNCHANGED <<prog, sent, loopVars>>

\* What the handlers take for the end; SIGTSTP and SIGQUIT keep their default.
Last       == IF prog = "quit" THEN {"QUIT"} ELSE {"INT", "TERM"}
Installed  == IF prog = "quit" THEN {"INT", "QUIT"} ELSE Sigs \ {"QUIT"}
BlockedNow == CASE prog = "quit"  -> {"INT", "QUIT"}
                [] prog = "fetch" -> Sigs
                [] OTHER          -> Sigs \ {"INT", "TERM"}

\* Faulty: nothing is blocked during the critical section.
LoopBlockNot ==
  /\ \/ prog = "quit" /\ LoopGoto("start", "install")
     \/ prog = "fetch" /\ LoopGoto("start", "wait")
     \/ prog \in Pauses /\ LoopGoto("block", "sleep")
  /\ UNCHANGED <<mask, pend, dispositions>>

LoopBlock ==
  /\ \/ prog = "quit" /\ LoopGoto("start", "install")
     \/ prog = "fetch" /\ LoopGoto("start", "wait")
     \/ prog \in Pauses /\ LoopGoto("block", "sleep")
  /\ SetMask(Main, BlockedNow)
  /\ UNCHANGED <<pend, dispositions>>

\* catch_rtsigs blocks and sleeps if it has an argument.
LoopInstall ==
  /\ \/ prog = "quit" /\ LoopGoto("install", "test")
     \/ prog \in Pauses /\ LoopGoto("start", "block")
     \/ prog = "rtsigs" /\ LoopGoto("start", "test")
  /\ Catch(Main, Installed)
  /\ UNCHANGED <<mask, pend>>

LoopTest ==
  /\ prog \in {"quit"} \cup Pauses
  /\ LoopGoto("test", IF prog = "quit" THEN IF flag THEN "restore" ELSE "critical"
                      ELSE IF flag THEN "exit" ELSE "pausing")
  /\ UNCHANGED <<mask, pend, dispositions>>

\* The critical section ends in sigsuspend(&orig_mask); the call of pause.
LoopSleep == /\ \/ prog = "quit" /\ LoopGoto("critical", "suspend")
                \/ prog \in Pauses /\ LoopGoto("pausing", "pause")
             /\ UNCHANGED <<mask, pend, dispositions>>

LoopRestore ==
  /\ \/ prog = "quit" /\ LoopGoto("restore", "exit")
     \/ prog \in Pauses /\ LoopGoto("sleep", "test")
  /\ SetMask(Main, {})
  /\ UNCHANGED <<pend, dispositions>>

\* handler, siginfo_handler, for one signal or one after the other for several;
\* then sigsuspend and pause return.
LoopHandler ==
  \E S \in SUBSET caught[Main] :
    /\ Handled(Main, S, "test")
    /\ flag' = (flag \/ S \cap Last # {})
    /\ raced' = (raced \/ (at[Main] = "pausing" /\ S \cap Last # {}))

LoopFetch ==
  \E s \in pend[Main] :
    /\ prog = "fetch"
    /\ LoopGoto("wait", IF s \in Last THEN "exit" ELSE "wait")
    /\ pend' = [pend EXCEPT ![Main] = @ \ {s}]
    /\ UNCHANGED <<mask, dispositions>>

LoopMain == \/ LoopBlock \/ LoopInstall \/ LoopTest \/ LoopSleep
            \/ LoopRestore \/ LoopHandler \/ LoopFetch

LoopSent == SentTo({Main}, {"INT", "QUIT", "USR1"}) /\ UNCHANGED loopVars

LoopTypeOK == flag \in BOOLEAN /\ raced \in BOOLEAN

----------------------------------------------------------------------------
\* t_sigsuspend never sleeps after SIGQUIT has been noted; catch_rtsigs does
\* so only if its handler ran between the test and pause.
LoopNotMissed == flag /\ at[Main] \in {"suspend", "pause"} => prog = "rtsigs" /\ raced

\* Once told to end, the loops end, but for that race, and but for a SIGQUIT
\* that kills where it keeps its default.
LoopEnds == /\ flag ~> ~Live(Main) \/ raced
            /\ prog = "fetch" /\ at[Main] = "wait" /\ pend[Main] \cap Last # {} ~> ~Live(Main)
=============================================================================
