-------------------------- MODULE ProducerConsumer --------------------------
(***************************************************************************)
(* threads/prod_condvar.c and threads/prod_no_condvar.c: each thread       *)
(* produces as many units as its argument says; main consumes what is      *)
(* available, waiting on the condition variable or polling, and exits when *)
(* it has consumed as many as all arguments add up to.                     *)
(***************************************************************************)
EXTENDS PThreads

CONSTANT MaxUnits      \* bound: the largest argument

ASSUME UnitsAssumption == MaxUnits \in Nat

VARIABLES units,       \* the arguments
          avail, totRequired, numConsumed, done,
          produced     \* history: units produced

prodVars == <<units, avail, totRequired, numConsumed, done, produced>>
Queues   == {"condvar", "polling"}

ProdInit == /\ units \in [Threads -> IF prog \in Queues THEN 0 .. MaxUnits ELSE {0}]
            /\ avail = 0 /\ totRequired = 0 /\ numConsumed = 0 /\ done = FALSE
            /\ produced = 0

----------------------------------------------------------------------------
(* A producer.                                                             *)

ProdCreate(t) == /\ Create(t, "lock", units[t], "lock")
                 /\ totRequired' = totRequired + units[t]
                 /\ UNCHANGED <<units, avail, numConsumed, done, produced>>

\* Faulty: produces without the mutex.
ProdLockNot(t) == /\ ThreadStep(t, "lock", "load")
                  /\ UNCHANGED <<syncVars, localVars, prodVars>>

ProdLock(t) == /\ ThreadStep(t, "lock", "load")
               /\ Lock(t)
               /\ UNCHANGED <<localVars, prodVars>>

\* avail++ reads and writes avail.
ProdLoad(t) == /\ ThreadStep(t, "load", "store")
               /\ loc' = [loc EXCEPT ![t] = avail]
               /\ UNCHANGED <<syncVars, left, prodVars>>

ProdStore(t) == /\ ThreadStep(t, "store", "unlock")
                /\ avail' = loc[t] + 1
                /\ produced' = produced + 1
                /\ left' = [left EXCEPT ![t] = @ - 1]
                /\ UNCHANGED <<syncVars, loc, units, totRequired, numConsumed, done>>

ProdUnlock(t) == /\ ThreadStep(t, "unlock", IF prog = "condvar" THEN "signal"
                                            ELSE NextRound(t, "lock"))
                 /\ Unlock(t)
                 /\ UNCHANGED <<localVars, prodVars>>

\* Faulty: wakes the consumer only when this is the only unit.
ProdSignalFirst(t) ==
  /\ ThreadStep(t, "signal", NextRound(t, "lock"))
  /\ IF avail = 1 THEN CondSignal ELSE UNCHANGED syncVars
  /\ UNCHANGED <<localVars, prodVars>>

\* After the mutex has been unlocked.
ProdSignal(t) == /\ ThreadStep(t, "signal", NextRound(t, "lock"))
                 /\ CondSignal
                 /\ UNCHANGED <<localVars, prodVars>>

Producer(t) == \/ ProdLock(t) \/ ProdLoad(t) \/ ProdStore(t) \/ ProdUnlock(t)
               \/ ProdSignal(t)

----------------------------------------------------------------------------
(* The consumer, main.                                                     *)

ConsLock == /\ MainStep("lock", IF prog = "condvar" THEN "test" ELSE "consume")
            /\ Lock(Main)
            /\ UNCHANGED <<localVars, prodVars>>

\* while (avail == 0)
ConsTest == /\ MainStep("test", IF avail = 0 THEN "wait" ELSE "consume")
            /\ UNCHANGED <<syncVars, localVars, prodVars>>

ConsWait == /\ MainStep("wait", "relock")
            /\ CondWait(Main)
            /\ UNCHANGED <<localVars, prodVars>>

ConsRelock == /\ MainStep("relock", "test")
              /\ Relock(Main)
              /\ UNCHANGED <<localVars, prodVars>>

\* while (avail > 0): num_consumed++, avail--, the test of the total.
ConsTake == /\ avail > 0
            /\ MainStep("consume", "put")
            /\ numConsumed' = numConsumed + 1
            /\ loc' = [loc EXCEPT ![Main] = avail]
            /\ UNCHANGED <<syncVars, left, units, avail, totRequired, done, produced>>

\* Faulty: done one unit early.
ConsPutEarly == /\ MainStep("put", "consume")
                /\ avail' = loc[Main] - 1
                /\ done' = (numConsumed + 1 >= totRequired)
                /\ UNCHANGED <<syncVars, localVars, units, totRequired, numConsumed,
                               produced>>

ConsPut == /\ MainStep("put", "consume")
           /\ avail' = loc[Main] - 1
           /\ done' = (numConsumed >= totRequired)
           /\ UNCHANGED <<syncVars, localVars, units, totRequired, numConsumed,
                          produced>>

ConsUnlock == /\ avail = 0
              /\ MainStep("consume", IF done THEN "exit" ELSE "lock")
              /\ Unlock(Main)
              /\ UNCHANGED <<localVars, prodVars>>

Consumer == \/ ConsLock \/ ConsTest \/ ConsWait \/ ConsRelock \/ ConsTake
            \/ ConsPut \/ ConsUnlock

----------------------------------------------------------------------------
ProdTypeOK == /\ units \in [Threads -> 0 .. MaxUnits]
              /\ avail \in Nat /\ totRequired \in Nat /\ numConsumed \in Nat
              /\ produced \in Nat /\ done \in BOOLEAN

\* Whenever the mutex is free every unit produced is either available or has
\* been consumed, once: no increment or decrement of avail is lost.
UnitsConserved == owner = Nobody => numConsumed + avail = produced

\* The consumer exits when everything has been produced and consumed: it
\* neither leaves early with units still to come nor counts one twice.
ConsumedAtExit == prog \in Queues /\ mpc = "exit" =>
                     /\ avail = 0 /\ numConsumed = produced
                     /\ \A t \in Threads : left[t] = 0
=============================================================================
