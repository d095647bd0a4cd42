--------------------------- MODULE MutexPrograms ---------------------------
(***************************************************************************)
(* threads/thread_incr.c ("incr"), thread_incr_mutex.c ("incr_mutex"): two *)
(* threads count one variable up.  exercises/31_01.c ("once"): a function  *)
(* run once by whichever thread comes first.  thread_cleanup.c             *)
(* ("cleanup"): a thread waits on a condition and is cancelled or woken.   *)
(***************************************************************************)
EXTENDS PThreads

CONSTANT Loops         \* the argument of the counting programs

ASSUME LoopsAssumption == Loops \in Nat \ {0}

VARIABLES glob,        \* the counter; the predicate of "cleanup"
          called, inits,  \* once_t's flag; history: calls of init
          mode,        \* thread_cleanup's main: "cancel" or "signal"
          canceled,    \* a cancellation is pending
          heap,        \* the thread's block: "none", "held", "freed", "lost"
          raced        \* history: signalled between the test and the wait

demoVars == <<glob, called, inits, mode, canceled, heap, raced>>
Demos    == {"incr", "incr_mutex", "once", "cleanup"}

DemoInit == /\ glob = 0 /\ called = FALSE /\ inits = 0
            /\ mode \in IF prog = "cleanup" THEN {"cancel", "signal"} ELSE {"cancel"}
            /\ canceled = FALSE
            /\ heap = "none" /\ raced = FALSE

----------------------------------------------------------------------------
(* The counting threads; main joins them in turn.  (A compiler may keep    *)
(* glob of "incr" in a register for all rounds: results between.)          *)

Rounds == CASE prog = "once" -> 2 [] prog = "cleanup" -> 1 [] OTHER -> Loops

First == CASE prog = "incr" -> "load" [] prog = "cleanup" -> "alloc"
           [] OTHER -> "lock"

DemoCreate(t) == /\ Create(t, First, Rounds, IF prog = "cleanup" THEN "act" ELSE "join")
                 /\ UNCHANGED demoVars

\* Faulty: the mutex is not locked.
DemoLockNot(t) ==
  /\ prog # "incr"
  /\ ThreadStep(t, "lock", IF prog = "incr_mutex" THEN "load" ELSE "test")
  /\ UNCHANGED <<syncVars, localVars, demoVars>>

DemoLock(t) == /\ prog # "incr"
               /\ ThreadStep(t, "lock", IF prog = "incr_mutex" THEN "load" ELSE "test")
               /\ Lock(t)
               /\ UNCHANGED <<localVars, demoVars>>

\* loc = glob; loc++; glob = loc;
IncrLoad(t) == /\ ThreadStep(t, "load", "store")
               /\ loc' = [loc EXCEPT ![t] = glob]
               /\ UNCHANGED <<syncVars, left, demoVars>>

IncrStore(t) == /\ tpc[t] = "store"
                /\ glob' = loc[t] + 1
                /\ left' = [left EXCEPT ![t] = @ - 1]
                /\ ThreadStep(t, "store",
                              CASE prog = "incr_mutex" -> "unlock"
                                [] prog = "incr" /\ left[t] = 1 -> "ended"
                                [] OTHER -> "load")
                /\ UNCHANGED <<syncVars, loc, called, inits, mode, canceled, heap,
                               raced>>

\* The end of a round of incr_mutex and once.
DemoUnlock(t) == /\ prog # "cleanup"
                 /\ ThreadStep(t, "unlock", NextRound(t, "lock"))
                 /\ Unlock(t)
                 /\ UNCHANGED <<localVars, demoVars>>

DemoJoin == /\ \A t \in Created : tpc[t] = "ended"
            /\ MainStep("join", "exit")
            /\ UNCHANGED <<syncVars, localVars, demoVars>>

----------------------------------------------------------------------------
(* one_time_init.                                                          *)

\* Faulty: the flag is set and the mutex given up before init is run.
OnceTestEarly(t) == /\ prog = "once"
                    /\ ThreadStep(t, "test", IF called THEN "unlock" ELSE "init")
                    /\ called' = TRUE
                    /\ owner' = IF called THEN owner ELSE Nobody
                    /\ left' = [left EXCEPT ![t] = @ - 1]
                    /\ UNCHANGED <<waiting, loc, glob, inits, mode, canceled, heap,
                                   raced>>

OnceTest(t) == /\ prog = "once"
               /\ ThreadStep(t, "test", IF called THEN "unlock" ELSE "init")
               /\ left' = [left EXCEPT ![t] = @ - 1]
               /\ UNCHANGED <<syncVars, loc, demoVars>>

OnceInit(t) == /\ ThreadStep(t, "init", "called")
               /\ inits' = inits + 1
               /\ UNCHANGED <<syncVars, localVars, glob, called, mode, canceled, heap,
                              raced>>

OnceCalled(t) == /\ ThreadStep(t, "called", "unlock")
                 /\ called' = TRUE
                 /\ UNCHANGED <<syncVars, localVars, glob, inits, mode, canceled, heap,
                                raced>>

----------------------------------------------------------------------------
(* thread_cleanup.                                                         *)

WaiterAlloc(t) == /\ ThreadStep(t, "alloc", "print")
                  /\ heap' = "held"
                  /\ UNCHANGED <<syncVars, localVars, glob, called, inits, mode,
                                 canceled, raced>>

\* printf may be a cancellation point too, and no handler is pushed yet: a
\* thread slow to start can be cancelled here and lose the block.
WaiterPrint(t) ==
  \/ /\ ThreadStep(t, "print", "lock")
     /\ UNCHANGED <<syncVars, localVars, demoVars>>
  \/ /\ canceled
     /\ ThreadStep(t, "print", "ended")
     /\ heap' = "lost"
     /\ UNCHANGED <<syncVars, localVars, glob, called, inits, mode, canceled, raced>>

\* while (glob == 0); the handler has been pushed.
WaiterTest(t) == /\ prog = "cleanup"
                 /\ ThreadStep(t, "test", IF glob = 0 THEN "wait" ELSE "handler")
                 /\ UNCHANGED <<syncVars, localVars, demoVars>>

WaiterWait(t) == /\ ThreadStep(t, "wait", "relock")
                 /\ CondWait(t)
                 /\ UNCHANGED <<localVars, demoVars>>

WaiterRelock(t) == /\ ThreadStep(t, "relock", "test")
                   /\ Relock(t)
                   /\ UNCHANGED <<localVars, demoVars>>

\* A wait that is cancelled locks the mutex before the handlers are run.
WaiterCanceled(t) == /\ canceled /\ owner = Nobody
                     /\ ThreadStep(t, "relock", "handler")
                     /\ owner' = t /\ waiting' = waiting \ {t}
                     /\ UNCHANGED <<localVars, demoVars>>

\* cleanup_handler, run by the cancellation or by pthread_cleanup_pop(1).
HandlerFree(t) == /\ ThreadStep(t, "handler", "unlock")
                  /\ heap' = "freed"
                  /\ UNCHANGED <<syncVars, localVars, glob, called, inits, mode,
                                 canceled, raced>>

\* Faulty: the handler frees the block and no more.
HandlerUnlockNot(t) == /\ prog = "cleanup"
                       /\ ThreadStep(t, "unlock", "ended")
                       /\ UNCHANGED <<syncVars, localVars, demoVars>>

HandlerUnlock(t) == /\ prog = "cleanup"
                    /\ ThreadStep(t, "unlock", "ended")
                    /\ Unlock(t)
                    /\ UNCHANGED <<localVars, demoVars>>

\* main, after its sleep: pthread_cancel, or glob = 1 and then a signal,
\* without the mutex.
CancelThread == /\ mode = "cancel"
                /\ MainStep("act", "join")
                /\ canceled' = TRUE
                /\ UNCHANGED <<syncVars, localVars, glob, called, inits, mode, heap,
                               raced>>

SetGlob == /\ mode = "signal"
           /\ MainStep("act", "signal")
           /\ glob' = 1
           /\ UNCHANGED <<syncVars, localVars, called, inits, mode, canceled, heap,
                          raced>>

SignalThread == /\ MainStep("signal", "join")
                /\ CondSignal
                /\ raced' = (tpc[1] = "wait")
                /\ UNCHANGED <<localVars, glob, called, inits, mode, canceled, heap>>

DemoThread(t) ==
  \/ DemoLock(t) \/ IncrLoad(t) \/ IncrStore(t) \/ DemoUnlock(t)
  \/ OnceTest(t) \/ OnceInit(t) \/ OnceCalled(t)
  \/ WaiterAlloc(t) \/ WaiterPrint(t) \/ WaiterTest(t) \/ WaiterWait(t)
  \/ WaiterRelock(t)
  \/ WaiterCanceled(t) \/ HandlerFree(t) \/ HandlerUnlock(t)

DemoMain == DemoJoin \/ CancelThread \/ SetGlob \/ SignalThread

----------------------------------------------------------------------------
DemoTypeOK == /\ glob \in Nat /\ inits \in Nat /\ called \in BOOLEAN
              /\ mode \in {"cancel", "signal"} /\ canceled \in BOOLEAN
              /\ heap \in {"none", "held", "freed", "lost"} /\ raced \in BOOLEAN
=============================================================================
