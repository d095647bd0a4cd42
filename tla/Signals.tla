------------------------------ MODULE Signals ------------------------------
(***************************************************************************)
(* What the programs with signals share: a main process and its children,  *)
(* each with a place in its code, a signal mask, pending signals and       *)
(* dispositions.  The kernel is external: a signal that is pending already *)
(* is not queued again; sigsuspend unblocks, waits and restores the mask   *)
(* in one step; a child inherits mask and dispositions and starts with     *)
(* nothing pending.  Handlers only mark what they have seen and are one    *)
(* step, unless a program says otherwise.                                  *)
(***************************************************************************)
EXTENDS Integers, FiniteSets

CONSTANTS Programs,    \* the programs to run
          NChildren,   \* children of the programs that may have several
          MaxSent      \* bound: signals sent from outside

ProgramNames == {"sync", "both", "zombie", "pingpong", "quit", "rtsigs", "rtdone",
                 "fetch", "reap", "system", "notify", "sigwait",
                 "selfpipe", "pollpipe", "sigio"}

ASSUME SignalsAssumption == /\ Programs \subseteq ProgramNames
                            /\ NChildren \in Nat \ {0}
                            /\ MaxSent \in Nat

VARIABLES prog,        \* the program being run
          at,          \* the places of its processes
          mask,        \* blocked signals
          pend,        \* pending signals
          caught,      \* signals with a handler
          ignored,     \* signals that are ignored
          sent         \* signals sent from outside

Main     == 0
Children == 1 .. NChildren
Procs    == Children \cup {Main}
Sigs     == {"USR1", "CHLD", "INT", "QUIT", "TERM", "IO"}

Gone    == {"none", "exit", "failed", "killed", "zombie", "reaped"}
Live(p) == at[p] \notin Gone

dispositions == <<caught, ignored>>
sigVars == <<prog, at, mask, pend, dispositions, sent>>

SignalsInit == /\ prog \in Programs
               /\ at = [p \in Procs |-> IF p = Main THEN "start" ELSE "none"]
               /\ mask = [p \in Procs |-> {}] /\ pend = [p \in Procs |-> {}]
               /\ caught = [p \in Procs |-> {}] /\ ignored = [p \in Procs |-> {}]
               /\ sent = 0

Goto(p, a, b) == at[p] = a /\ at' = [at EXCEPT ![p] = b]

\* sigprocmask, sigaction; a signal that is ignored is pending no more.
SetMask(p, S) == mask' = [mask EXCEPT ![p] = S]
Catch(p, S)   == caught' = [caught EXCEPT ![p] = S] /\ UNCHANGED ignored
Ignore(p, S)  == /\ ignored' = [ignored EXCEPT ![p] = S]
                 /\ pend' = [pend EXCEPT ![p] = @ \ S]
                 /\ UNCHANGED caught

\* Nothing becomes of an ignored signal, and of SIGCHLD without a handler.
Minds(p, s) == Live(p) /\ (s \in caught[p] \/ (s \notin ignored[p] /\ s # "CHLD"))
Raise(P, s) == pend' = [p \in Procs |-> IF p \in P /\ Minds(p, s) THEN pend[p] \cup {s}
                                        ELSE pend[p]]

Inherit(c) == /\ mask' = [mask EXCEPT ![c] = mask[Main]]
              /\ caught' = [caught EXCEPT ![c] = caught[Main]]
              /\ ignored' = [ignored EXCEPT ![c] = ignored[Main]]

\* What is not blocked; nothing is in sigsuspend, whose mask is always empty.
Deliverable(p) == pend[p] \ IF at[p] = "suspend" THEN {} ELSE mask[p]

\* Handlers of some of the signals run; those that interrupt sigsuspend or
\* pause send the process on to "next".
Handled(p, S, next) ==
  /\ Live(p) /\ S # {} /\ S \subseteq Deliverable(p) \cap caught[p]
  /\ pend' = [pend EXCEPT ![p] = @ \ S]
  /\ at' = [at EXCEPT ![p] = IF @ \in {"suspend", "pause"} THEN next ELSE @]
  /\ UNCHANGED <<prog, mask, dispositions, sent>>

\* A signal without a handler; the parent hears of a child's end.
Killed(p) ==
  /\ Live(p) /\ Deliverable(p) \ caught[p] # {}
  /\ at' = [at EXCEPT ![p] = IF p = Main THEN "killed" ELSE "zombie"]
  /\ IF p = Main THEN UNCHANGED pend ELSE Raise({Main}, "CHLD")
  /\ UNCHANGED <<prog, mask, dispositions, sent>>

\* kill(1) sends to one process, a terminal to all of them.
SentTo(P, S) == /\ sent < MaxSent
                /\ sent' = sent + 1
                /\ \E s \in S : Raise(P, s)
                /\ UNCHANGED <<prog, at, mask, dispositions>>

Exits(p, a) == /\ Goto(p, a, IF p = Main THEN "exit" ELSE "zombie")
               /\ IF p = Main THEN UNCHANGED pend ELSE Raise({Main}, "CHLD")
               /\ UNCHANGED <<prog, mask, dispositions, sent>>

SignalsTypeOK ==
  /\ prog \in Programs
  /\ mask \in [Procs -> SUBSET Sigs] /\ pend \in [Procs -> SUBSET Sigs]
  /\ caught \in [Procs -> SUBSET Sigs] /\ ignored \in [Procs -> SUBSET Sigs]
  /\ sent \in 0 .. MaxSent
=============================================================================
