------------------------------ MODULE PThreads ------------------------------
(***************************************************************************)
(* What the programs under threads/ (and exercises/31_01.c) share: main    *)
(* creates its threads and later may join them; one mutex, one condition   *)
(* variable; each thread has a place in its code, a local copy of a shared *)
(* variable and a loop counter.  main is thread 0.                         *)
(*                                                                         *)
(* The library is external: a mutex has one owner, pthread_cond_wait gives *)
(* the mutex up and blocks in one step, a signal wakes one blocked thread  *)
(* and is gone if there is none, and a wait may return without a signal.   *)
(***************************************************************************)
EXTENDS Integers, FiniteSets

CONSTANTS NThreads,    \* threads created, where the command line tells
          Programs,    \* the programs to run
          MaxSpurious  \* bound: waits that return without a signal

ProgramNames == {"condvar", "polling", "multijoin", "incr", "incr_mutex", "once",
                 "cleanup"}

ASSUME PThreadsAssumption == /\ NThreads \in Nat \ {0, 1}
                             /\ Programs \subseteq ProgramNames
                             /\ MaxSpurious \in Nat

VARIABLES prog,        \* the program being run
          owner,       \* who has locked the mutex
          waiting,     \* who is blocked in pthread_cond_wait
          mpc, tpc,    \* the places of main and of the threads
          loc,         \* local copies of a shared variable
          left,        \* rounds a thread has still to do
          spurious     \* waits that have returned without a signal

Main    == 0
Nobody  == -1
Threads == 1 .. NThreads

\* incr and once have two threads, cleanup one.
Created == CASE prog = "cleanup" -> {1}
             [] prog \in {"incr", "incr_mutex", "once"} -> {1, 2}
             [] OTHER -> Threads

syncVars  == <<owner, waiting>>
placeVars == <<mpc, tpc>>
localVars == <<loc, left>>
pthreadVars == <<prog, syncVars, placeVars, localVars, spurious>>

PThreadsInit == /\ prog \in Programs
                /\ owner = Nobody /\ waiting = {}
                /\ mpc = "create" /\ tpc = [t \in Threads |-> "new"]
                /\ loc = [p \in Threads \cup {Main} |-> 0]
                /\ left = [t \in Threads |-> 0]
                /\ spurious = 0

MainStep(a, b) == mpc = a /\ mpc' = b /\ UNCHANGED <<tpc, prog, spurious>>

ThreadStep(t, a, b) == /\ tpc[t] = a
                       /\ tpc' = [tpc EXCEPT ![t] = b]
                       /\ UNCHANGED <<mpc, prog, spurious>>

Lock(p)   == owner = Nobody /\ owner' = p /\ UNCHANGED waiting
Unlock(p) == owner' = Nobody /\ UNCHANGED waiting

CondWait(p) == owner' = Nobody /\ waiting' = waiting \cup {p}

CondSignal == /\ IF waiting = {} THEN UNCHANGED waiting
                 ELSE \E p \in waiting : waiting' = waiting \ {p}
              /\ UNCHANGED owner

\* The rest of pthread_cond_wait, once woken: the mutex is locked again.
Relock(p) == p \notin waiting /\ Lock(p)

Spurious == /\ spurious < MaxSpurious
            /\ \E p \in waiting : waiting' = waiting \ {p}
            /\ spurious' = spurious + 1
            /\ UNCHANGED <<prog, owner, placeVars, localVars>>

\* pthread_create of the next thread, which starts at "first" with n rounds;
\* after the last one main is at "after".
Create(t, first, n, after) ==
  /\ mpc = "create" /\ t \in Created /\ tpc[t] = "new"
  /\ \A u \in 1 .. t - 1 : tpc[u] # "new"
  /\ tpc' = [tpc EXCEPT ![t] = IF n = 0 THEN "ended" ELSE first]
  /\ left' = [left EXCEPT ![t] = n]
  /\ mpc' = IF t + 1 \in Created THEN "create" ELSE after
  /\ UNCHANGED <<prog, syncVars, loc, spurious>>

\* The end of a round of a thread's loop.
NextRound(t, first) == IF left[t] = 0 THEN "ended" ELSE first

PThreadsTypeOK ==
  /\ prog \in Programs
  /\ owner \in Threads \cup {Main, Nobody} /\ waiting \subseteq Threads \cup {Main}
  /\ loc \in [Threads \cup {Main} -> Nat] /\ left \in [Threads -> Nat]
  /\ spurious \in 0 .. MaxSpurious
=============================================================================
