--------------------------- MODULE ThreadPrograms ---------------------------
(***************************************************************************)
(* The thread programs together: one of them is chosen and run.  Threads   *)
(* are scheduled as long as the process runs; exit() in main ends them.    *)
(***************************************************************************)
EXTENDS ProducerConsumer, ThreadJoins, MutexPrograms

vars == <<pthreadVars, prodVars, joinVars, demoVars>>

Init == PThreadsInit /\ ProdInit /\ JoinInit /\ DemoInit

QueueStep(step) == prog \in Queues /\ step /\ UNCHANGED <<joinVars, demoVars>>
JoinStep(step)  == prog = "multijoin" /\ step /\ UNCHANGED <<prodVars, demoVars>>
DemoStep(step)  == prog \in Demos /\ step /\ UNCHANGED <<prodVars, joinVars>>

Thread(t) == /\ mpc # "exit"
             /\ \/ QueueStep(Producer(t)) \/ JoinStep(Dying(t))
                \/ DemoStep(DemoThread(t))

MainThread == \/ \E t \in Threads : \/ QueueStep(ProdCreate(t))
                                    \/ JoinStep(JoinCreate(t))
                                    \/ DemoStep(DemoCreate(t))
              \/ QueueStep(Consumer) \/ JoinStep(Joiner) \/ DemoStep(DemoMain)

Next == \/ \E t \in Threads : Thread(t)
        \/ MainThread
        \/ Spurious /\ UNCHANGED <<prodVars, joinVars, demoVars>>

\* Each thread runs whenever it can; nothing is assumed of a lock that others
\* take again and again, nor of waits that return without a signal.
Fairness == WF_vars(MainThread) /\ \A t \in Threads : WF_vars(Thread(t))

Spec == Init /\ [][Next]_vars /\ Fairness

----------------------------------------------------------------------------
ThreadPlaces ==
  CASE prog = "condvar"    -> {"new", "lock", "load", "store", "unlock", "signal", "ended"}
    [] prog = "polling"    -> {"new", "lock", "load", "store", "unlock", "ended"}
    [] prog = "multijoin"  -> {"new", "lock", "report", "unlock", "signal", "ended"}
    [] prog = "incr"       -> {"new", "load", "store", "ended"}
    [] prog = "incr_mutex" -> {"new", "lock", "load", "store", "unlock", "ended"}
    [] prog = "once"       -> {"new", "lock", "test", "init", "called", "unlock", "ended"}
    [] prog = "cleanup"    -> {"new", "alloc", "print", "lock", "test", "wait", "relock",
                               "handler", "unlock", "ended"}

MainPlaces ==
  CASE prog = "condvar"    -> {"create", "lock", "test", "wait", "relock", "consume", "put",
                               "exit"}
    [] prog = "polling"    -> {"create", "lock", "consume", "put", "exit"}
    [] prog = "multijoin"  -> {"create", "count", "while", "test", "wait", "relock", "scan",
                               "exit"}
    [] prog = "cleanup"    -> {"create", "act", "signal", "join", "exit"}
    [] OTHER               -> {"create", "join", "exit"}

TypeOK == /\ PThreadsTypeOK /\ ProdTypeOK /\ JoinTypeOK /\ DemoTypeOK
          /\ mpc \in MainPlaces /\ tpc \in [Threads -> ThreadPlaces]

\* The condition someone waits for has come true.
Awaited == CASE prog = "condvar"   -> avail > 0
             [] prog = "multijoin" -> numUnjoined > 0
             [] prog = "cleanup"   -> glob = 1
             [] OTHER              -> FALSE

\* Somebody is on the way to pthread_cond_signal.
SignalComing == \/ mpc = "signal"
                \/ \E t \in Threads : tpc[t] \in {"unlock", "signal"}

\* Nobody sleeps on a condition that is true with no signal to come, although
\* the producers and the dying threads signal after they have unlocked the
\* mutex; main of thread_cleanup, which takes no mutex, is safe unless it
\* signals between the thread's test and its wait.
NoLostWakeup == waiting # {} /\ Awaited => SignalComing \/ raced

\* When the counting programs print: exact with the mutex; without it updates
\* are lost, but never so many that fewer than 2 remain of two or more rounds.
CountedAtExit ==
  mpc = "exit" => /\ prog = "incr_mutex" => glob = 2 * Loops
                  /\ prog = "incr" => /\ glob <= 2 * Loops
                                      /\ Loops > 1 => glob >= 2

\* one_time_init runs init once, and no call of it returns before that run
\* of init is over, whichever thread does it.
InitOnce == prog = "once" =>
              /\ inits <= 1
              /\ \A t \in Threads : tpc[t] \in {"unlock", "ended"} => inits = 1

\* However the waiting thread ends, by a signal or by cancellation inside
\* pthread_cond_wait, the mutex it held again is free; the block is freed
\* unless it was lost before the handler was pushed.
CleanupLeavesFree == prog = "cleanup" /\ tpc[1] = "ended" =>
                        owner = Nobody /\ heap \in {"freed", "lost"}

----------------------------------------------------------------------------
(* The inductive invariant.                                                *)

\* The places between a lock and its unlock.
ThreadHolds(t) == prog # "incr" /\ tpc[t] \in {"load", "store", "report", "test", "init",
                                               "called", "wait", "handler", "unlock"}
MainHolds == mpc \in {"test", "wait", "consume", "put", "scan"}

OwnerInv == /\ \A t \in Threads : owner = t <=> ThreadHolds(t)
            /\ owner = Main <=> MainHolds
            /\ \A t \in Threads : t \notin Created => tpc[t] = "new"

\* A thread in its loop has a round to do.
RoundsInv == \A t \in Threads :
               tpc[t] \in {"alloc", "print", "lock", "load", "store", "test", "wait",
                          "relock"} => left[t] > 0

\* Who holds the mutex knows avail, and only the consumer's two steps are
\* seen halfway.
QueueInv ==
  /\ mpc = "put" => loc[Main] = avail /\ numConsumed + avail = produced + 1
  /\ mpc # "put" => numConsumed + avail = produced
  /\ prog \in Queues => /\ \A t \in Threads : tpc[t] = "store" => loc[t] = avail
                        /\ mpc = "put" => avail > 0
                        /\ mpc = "wait" => avail = 0

\* The counters of thread_multijoin count what the states say.
StatesInv ==
  /\ numUnjoined = Cardinality(InState("terminated"))
  /\ mpc \in {"create", "count"} => InState("joined") = {}
  /\ prog = "multijoin" =>
       /\ mpc \notin {"create", "count"} =>
             numLive = Cardinality(Threads \ InState("joined"))
       /\ mpc = "exit" => InState("joined") = Threads
       /\ mpc = "wait" => numUnjoined = 0
       /\ \A t \in Threads : /\ tpc[t] = "new" => state[t] = "none"
                             /\ tpc[t] \in {"lock", "report"} => state[t] = "alive"
                             /\ state[t] = "joined" => tpc[t] = "ended"

WaitInv == /\ waiting \subseteq IF prog = "cleanup" THEN {1} ELSE {Main}
           /\ Main \in waiting => mpc = "relock"
           /\ 1 \in waiting => tpc[1] = "relock"
           /\ NoLostWakeup
           /\ prog = "cleanup" /\ tpc[1] = "wait" /\ glob = 1 => mpc = "signal" \/ raced

OnceInv == prog = "once" =>
             /\ inits <= 1
             /\ called => inits = 1
             /\ \A t \in Threads :
                  /\ tpc[t] = "init" => inits = 0
                  /\ tpc[t] \in {"called", "unlock", "ended"} => inits = 1
                  /\ tpc[t] = "test" => (inits = 1 => called)
             /\ inits = 1 => called \/ \E t \in Threads : tpc[t] = "called"

HandlerInv == prog = "cleanup" =>
                /\ tpc[1] = "unlock" => heap = "freed"
                /\ tpc[1] = "ended" => heap \in {"freed", "lost"}

ThreadInv == /\ TypeOK /\ OwnerInv /\ RoundsInv /\ QueueInv /\ StatesInv /\ WaitInv
             /\ OnceInv /\ HandlerInv

----------------------------------------------------------------------------
\* Those that must come to their end: the consumer if there is a unit to come
\* (it waits for ever if all arguments are 0), the joining main, the counting
\* programs and the cancelled thread's main.
Finite == \/ prog = "condvar" /\ \E t \in Threads : units[t] > 0
          \/ prog \in {"multijoin", "incr", "incr_mutex", "once"}
          \/ prog = "cleanup" /\ mode = "cancel"

ProgramsFinish == Finite ~> mpc = "exit"
=============================================================================
