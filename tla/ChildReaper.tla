----------------------------- MODULE ChildReaper -----------------------------
(***************************************************************************)
(* Children and SIGCHLD.                                                   *)
(*                                                                         *)
(*   reap     procexec/multi_SIGCHLD.c   a handler that reaps all children *)
(*                                       there are, until none is left     *)
(*   system   procexec/system.c          system(), called by t_system.c or *)
(*                                       by a program with that handler    *)
(***************************************************************************)
EXTENDS Signals

VARIABLES numLive,     \* num_live_children
          back,        \* the place that the handler has interrupted
          kept,        \* signals of the terminal that system()'s caller ignores
          how,         \* how the child of system() has ended
          status       \* the status that system() will return

reaperVars == <<numLive, back, kept, how, status>>

Reapers == {"reap", "system"}

ReaperInit == /\ numLive = 0 /\ back = "none" /\ kept = {} /\ how = "none" /\ status = "none"

procsSame == <<prog, sent>>
Zombies   == {c \in Children : at[c] = "zombie"}

----------------------------------------------------------------------------
(* The handler.  SIGCHLD is blocked while it runs.                         *)

ChldHandler ==
  /\ Live(Main) /\ back = "none" /\ "CHLD" \in Deliverable(Main) \cap caught[Main]
  /\ pend' = [pend EXCEPT ![Main] = @ \ {"CHLD"}]
  /\ at' = [at EXCEPT ![Main] = "waitany"]
  /\ back' = IF at[Main] = "suspend" THEN "test" ELSE at[Main]
  /\ UNCHANGED <<procsSame, mask, dispositions, numLive, kept, how, status>>

\* Faulty: "if" instead of "while", one child is reaped for each signal.
ReapOneOnly ==
  /\ at[Main] = "waitany"
  /\ \E c \in Zombies : at' = [at EXCEPT ![c] = "reaped", ![Main] = "linger"]
  /\ numLive' = numLive - 1
  /\ UNCHANGED <<procsSame, mask, pend, dispositions, back, kept, how, status>>

\* waitpid(-1, &status, WNOHANG): a child, or none any more.
ReapOne ==
  /\ at[Main] = "waitany"
  /\ \E c \in Zombies : at' = [at EXCEPT ![c] = "reaped"]
  /\ numLive' = numLive - 1
  /\ UNCHANGED <<procsSame, mask, pend, dispositions, back, kept, how, status>>

ReapedAll == /\ Zombies = {} /\ Goto(Main, "waitany", "linger")
             /\ UNCHANGED <<procsSame, mask, pend, dispositions, reaperVars>>

\* sleep(5): children that end now are for the next signal.
HandlerReturn ==
  /\ Goto(Main, "linger", back)
  /\ back' = "none"
  /\ UNCHANGED <<procsSame, mask, pend, dispositions, numLive, kept, how, status>>

----------------------------------------------------------------------------
(* multi_SIGCHLD: install, block, fork, and wait until numLive is 0.       *)

ReaperInstall ==
  /\ prog = "reap" /\ Goto(Main, "start", "block")
  /\ numLive' = NChildren
  /\ Catch(Main, {"CHLD"})
  /\ UNCHANGED <<procsSame, mask, pend, back, kept, how, status>>

\* Faulty: SIGCHLD is not blocked.
ReaperBlockNot ==
  /\ \/ prog = "reap" /\ Goto(Main, "block", "fork")
     \/ prog = "system" /\ Goto(Main, "system", "ignore")
  /\ UNCHANGED <<procsSame, mask, pend, dispositions, reaperVars>>

ReaperBlock ==
  /\ \/ prog = "reap" /\ Goto(Main, "block", "fork")
     \/ prog = "system" /\ Goto(Main, "system", "ignore")
  /\ SetMask(Main, {"CHLD"})
  /\ UNCHANGED <<procsSame, pend, dispositions, reaperVars>>

ReaperFork(c) ==
  /\ prog = "reap" /\ at[Main] = "fork" /\ at[c] = "none"
  /\ \A d \in 1 .. c - 1 : at[d] # "none"
  /\ at' = [at EXCEPT ![Main] = IF c = NChildren THEN "test" ELSE "fork", ![c] = "sleep"]
  /\ Inherit(c)
  /\ UNCHANGED <<procsSame, pend, reaperVars>>

ReaperChild(c) == prog = "reap" /\ Exits(c, "sleep") /\ UNCHANGED reaperVars

ReaperTest == /\ prog = "reap" /\ Goto(Main, "test", IF numLive > 0 THEN "suspend" ELSE "exit")
              /\ UNCHANGED <<procsSame, mask, pend, dispositions, reaperVars>>

----------------------------------------------------------------------------
(* system().  The caller may have installed the handler, and it may ignore *)
(* SIGINT or SIGQUIT; it has no child.  system(NULL) is system(":").       *)

Sh == 1

SystemCall ==
  /\ prog = "system" /\ Goto(Main, "start", "system")
  /\ \E S \in {{}, {"CHLD"}} : caught' = [caught EXCEPT ![Main] = S]
  /\ kept' \in SUBSET {"INT", "QUIT"}
  /\ ignored' = [ignored EXCEPT ![Main] = kept'] /\ pend' = [pend EXCEPT ![Main] = @ \ kept']
  /\ UNCHANGED <<procsSame, mask, numLive, back, how, status>>

SystemIgnore == /\ Goto(Main, "ignore", "fork")
                /\ Ignore(Main, {"INT", "QUIT"})
                /\ UNCHANGED <<procsSame, mask, reaperVars>>

\* fork may fail; the signals are restored even then.
SystemFork ==
  /\ prog = "system" /\ at[Main] = "fork"
  /\ \/ /\ at' = [at EXCEPT ![Main] = "waitpid", ![Sh] = "default"]
        /\ Inherit(Sh)
        /\ UNCHANGED <<how, status>>
     \/ /\ at' = [at EXCEPT ![Main] = "unmask"]
        /\ how' = "nofork" /\ status' = "failed"
        /\ UNCHANGED <<mask, dispositions>>
  /\ UNCHANGED <<procsSame, pend, numLive, back, kept>>

\* The child: SIGINT and SIGQUIT as they were, the mask too, then execl.
ShDefault == /\ Goto(Sh, "default", "unmask")
             /\ Ignore(Sh, kept)
             /\ UNCHANGED <<procsSame, mask, reaperVars>>

ShUnmask == /\ Goto(Sh, "unmask", "command")
            /\ SetMask(Sh, {})
            /\ UNCHANGED <<procsSame, pend, dispositions, reaperVars>>

\* The shell ends, or there was none to execute and the status is 127.
ShEnds == /\ Exits(Sh, "command")
          /\ how' \in {"exited", "127"}
          /\ UNCHANGED <<numLive, back, kept, status>>

\* waitpid(child_pid): its status, or ECHILD if somebody else has taken it.
SystemWait ==
  /\ at[Sh] \in {"zombie", "reaped"}
  /\ at[Main] = "waitpid"
  /\ at' = [at EXCEPT ![Main] = "unmask", ![Sh] = "reaped"]
  /\ status' = IF at[Sh] = "zombie" THEN how ELSE "failed"
  /\ UNCHANGED <<procsSame, mask, pend, dispositions, numLive, back, kept, how>>

SystemUnmask == /\ Goto(Main, "unmask", "restore")
                /\ SetMask(Main, {})
                /\ UNCHANGED <<procsSame, pend, dispositions, reaperVars>>

SystemRestore == /\ Goto(Main, "restore", "exit")
                 /\ Ignore(Main, kept)
                 /\ UNCHANGED <<procsSame, mask, reaperVars>>

----------------------------------------------------------------------------
ReaperMain == \/ ChldHandler \/ ReapOne \/ ReapedAll \/ HandlerReturn
              \/ ReaperInstall \/ ReaperBlock \/ ReaperTest
              \/ \E c \in Children : ReaperFork(c)
              \/ SystemCall \/ SystemIgnore \/ SystemFork \/ SystemWait
              \/ SystemUnmask \/ SystemRestore
ShSteps == ShDefault \/ ShUnmask \/ ShEnds

ReaperKilled(p) ==
  /\ Killed(p)
  /\ how' = IF p = Sh /\ prog = "system" THEN "killed" ELSE how
  /\ UNCHANGED <<numLive, back, kept, status>>

\* The terminal's SIGINT and SIGQUIT for all; a kill(1) for a child.
ReaperSent ==
  /\ \/ prog = "system" /\ SentTo(Procs, {"INT", "QUIT"})
     \/ prog = "reap" /\ \E c \in Children : SentTo({c}, {"TERM"})
  /\ UNCHANGED reaperVars

ReaperTypeOK == /\ numLive \in -1 .. NChildren
                /\ kept \subseteq {"INT", "QUIT"}
                /\ how \in {"none", "nofork", "exited", "127", "killed"}
                /\ status \in {"none", "failed", "exited", "127", "killed"}

----------------------------------------------------------------------------
\* The parent never sleeps over a zombie that no signal will tell of, and
\* its count is that of the children it has not reaped.
NoForgottenChild ==
  /\ prog = "reap" /\ at[Main] = "suspend" /\ Zombies # {} => "CHLD" \in pend[Main]
  /\ prog = "reap" /\ at[Main] \notin {"start", "killed"} =>
       numLive = NChildren - Cardinality({c \in Children : at[c] = "reaped"})

\* system() returns what became of its own child, even if the caller reaps
\* all children in a handler; once there is a child, what is typed at the
\* terminal does not kill the caller; nor does it kill the command, when the
\* caller ignores both signals.
SystemReturnsStatus ==
  prog = "system" =>
    /\ at[Main] \in {"unmask", "restore", "exit"} =>
          status = IF how = "nofork" THEN "failed" ELSE how
    /\ at[Main] = "killed" => at[Sh] = "none"
    /\ how = "killed" => kept # {"INT", "QUIT"}

\* The end of all children ends the parent; a shell that ends ends system().
ReaperEnds == prog = "reap" \/ (prog = "system" /\ at[Main] = "waitpid") ~> ~Live(Main)
=============================================================================
