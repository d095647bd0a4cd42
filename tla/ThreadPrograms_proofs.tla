----------------------- MODULE ThreadPrograms_proofs -----------------------
(***************************************************************************)
(* Proofs about ThreadPrograms, for any number of threads, units, rounds   *)
(* and spurious wakeups: ThreadInv is an inductive invariant.  A lemma for *)
(* the steps of each component, first those of its threads, then main's.   *)
(***************************************************************************)
EXTENDS ThreadPrograms, FiniteSetTheorems, TLAPS

\* The ids of main and of nobody are not threads, and there are two threads.
LEMMA Ids == /\ Main \notin Threads /\ Nobody \notin Threads /\ Main # Nobody
             /\ 1 \in Threads /\ 2 \in Threads
             /\ Created \subseteq Threads
  BY PThreadsAssumption DEF Main, Nobody, Threads, Created

\* The places of a producer.
LEMMA QueuePlaces ==
  ASSUME prog \in Queues, prog' = prog
  PROVE  /\ {"new", "lock", "load", "store", "unlock", "ended"} \subseteq ThreadPlaces
         /\ prog = "condvar" => "signal" \in ThreadPlaces
         /\ {"create", "lock"} \subseteq MainPlaces
         /\ ThreadPlaces' = ThreadPlaces /\ MainPlaces' = MainPlaces
  BY DEF Queues, ThreadPlaces, MainPlaces

\* What the steps of prod_condvar and prod_no_condvar leave alone.
LEMMA QueueKeeps ==
  ASSUME ThreadInv, prog \in Queues, UNCHANGED <<prog, joinVars, demoVars>>,
         mpc' \in {"create", "count"} => mpc \in {"create", "count"}
  PROVE  /\ StatesInv' /\ OnceInv' /\ HandlerInv' /\ JoinTypeOK' /\ DemoTypeOK'
<1>1. /\ prog # "multijoin" /\ prog # "once" /\ prog # "cleanup"
      /\ prog' = prog /\ UNCHANGED <<state, numLive, numUnjoined, idx>>
      /\ UNCHANGED <<glob, called, inits, mode, canceled, heap, raced>>
  BY DEF Queues, joinVars, demoVars
<1>2. StatesInv'
  BY <1>1 DEF ThreadInv, StatesInv, InState
<1>3. OnceInv' /\ HandlerInv'
  BY <1>1 DEF OnceInv, HandlerInv
<1>4. JoinTypeOK' /\ DemoTypeOK'
  BY <1>1 DEF ThreadInv, TypeOK, JoinTypeOK, DemoTypeOK
<1> QED BY <1>2, <1>3, <1>4

\* A producer is created or takes a step.
LEMMA ProducerInv ==
  ASSUME NEW t \in Threads, ThreadInv, QueueStep(ProdCreate(t)) \/ QueueStep(Producer(t))
  PROVE  ThreadInv'
<1> USE Ids, UnitsAssumption DEF ThreadStep, MainStep, Lock, Unlock, Relock, CondWait, CondSignal,
            syncVars, localVars, prodVars
<1>0. /\ prog \in Queues /\ UNCHANGED <<joinVars, demoVars>> /\ prog' = prog
      /\ mpc' \in {"create", "count"} => mpc \in {"create", "count"}
      /\ prog # "multijoin" /\ prog # "once" /\ prog # "cleanup" /\ prog # "incr"
      /\ glob' = glob /\ raced' = raced /\ numUnjoined' = numUnjoined
  BY DEF QueueStep, Queues, Producer, ProdCreate, ProdLock, ProdLoad, ProdStore, ProdUnlock, ProdSignal, Create, ThreadStep, MainStep,
         joinVars, demoVars
<1>1. StatesInv' /\ OnceInv' /\ HandlerInv' /\ JoinTypeOK' /\ DemoTypeOK'
  BY <1>0, QueueKeeps
<1>2. /\ PThreadsTypeOK /\ ProdTypeOK /\ mpc \in MainPlaces /\ tpc \in [Threads -> ThreadPlaces]
      /\ OwnerInv /\ RoundsInv /\ QueueInv /\ WaitInv
  BY DEF ThreadInv, TypeOK
<1> DEFINE Parts == /\ PThreadsTypeOK' /\ ProdTypeOK' /\ (mpc \in MainPlaces)'
                    /\ (tpc \in [Threads -> ThreadPlaces])'
                    /\ OwnerInv' /\ RoundsInv' /\ QueueInv' /\ WaitInv'
<1>3. ASSUME ProdCreate(t) PROVE Parts
  <2>1. (mpc \in MainPlaces)' /\ (tpc \in [Threads -> ThreadPlaces])'
    BY <1>0, <1>2, <1>3, QueuePlaces DEF ProdCreate, Create
  <2>2. PThreadsTypeOK'
    BY <1>0, <1>2, <1>3 DEF ProdCreate, Create, PThreadsTypeOK, ProdTypeOK,
           RoundsInv
  <2>3. ProdTypeOK'
    BY <1>0, <1>2, <1>3 DEF ProdCreate, Create, PThreadsTypeOK, ProdTypeOK,
           RoundsInv, QueueInv
  <2>4. RoundsInv'
    BY <1>0, <1>2, <1>3 DEF ProdCreate, Create, PThreadsTypeOK, ProdTypeOK,
           RoundsInv
  <2>5. OwnerInv'
    BY <1>0, <1>2, <1>3 DEF ProdCreate, Create, PThreadsTypeOK, MainPlaces,
           ThreadPlaces, OwnerInv, ThreadHolds, MainHolds, Created
  <2>6. QueueInv'
    BY <1>0, <1>2, <1>3 DEF ProdCreate, Create, PThreadsTypeOK, ProdTypeOK,
           MainPlaces, ThreadPlaces, OwnerInv, ThreadHolds, MainHolds, QueueInv
  <2>7. WaitInv'
    BY <1>0, <1>2, <1>3 DEF ProdCreate, Create, PThreadsTypeOK, ProdTypeOK,
           MainPlaces, ThreadPlaces, OwnerInv, ThreadHolds, MainHolds, QueueInv,
           WaitInv, NoLostWakeup, Awaited, SignalComing
  <2> QED BY <2>1, <2>2, <2>3, <2>4, <2>5, <2>6, <2>7
<1>4. ASSUME ProdLock(t) PROVE Parts
  <2>1. (mpc \in MainPlaces)' /\ (tpc \in [Threads -> ThreadPlaces])'
    BY <1>0, <1>2, <1>4, QueuePlaces DEF ProdLock
  <2>2. PThreadsTypeOK'
    BY <1>0, <1>2, <1>4 DEF ProdLock, PThreadsTypeOK, ProdTypeOK, RoundsInv
  <2>3. ProdTypeOK'
    BY <1>0, <1>2, <1>4 DEF ProdLock, PThreadsTypeOK, ProdTypeOK, RoundsInv,
           QueueInv
  <2>4. RoundsInv'
    BY <1>0, <1>2, <1>4 DEF ProdLock, PThreadsTypeOK, ProdTypeOK, RoundsInv
  <2>5. OwnerInv'
    BY <1>0, <1>2, <1>4 DEF ProdLock, PThreadsTypeOK, MainPlaces, ThreadPlaces,
           OwnerInv, ThreadHolds, MainHolds, Created
  <2>6. QueueInv'
    BY <1>0, <1>2, <1>4 DEF ProdLock, PThreadsTypeOK, ProdTypeOK, MainPlaces,
           ThreadPlaces, OwnerInv, ThreadHolds, MainHolds, QueueInv
  <2>7. WaitInv'
    BY <1>0, <1>2, <1>4 DEF ProdLock, PThreadsTypeOK, ProdTypeOK, MainPlaces,
           ThreadPlaces, OwnerInv, ThreadHolds, MainHolds, QueueInv, WaitInv,
           NoLostWakeup, Awaited, SignalComing
  <2> QED BY <2>1, <2>2, <2>3, <2>4, <2>5, <2>6, <2>7
<1>5. ASSUME ProdLoad(t) PROVE Parts
  <2>1. (mpc \in MainPlaces)' /\ (tpc \in [Threads -> ThreadPlaces])'
    BY <1>0, <1>2, <1>5, QueuePlaces DEF ProdLoad
  <2>2. PThreadsTypeOK'
    BY <1>0, <1>2, <1>5 DEF ProdLoad, PThreadsTypeOK, ProdTypeOK, RoundsInv
  <2>3. ProdTypeOK'
    BY <1>0, <1>2, <1>5 DEF ProdLoad, PThreadsTypeOK, ProdTypeOK, RoundsInv,
           QueueInv
  <2>4. RoundsInv'
    BY <1>0, <1>2, <1>5 DEF ProdLoad, PThreadsTypeOK, ProdTypeOK, RoundsInv
  <2>5. OwnerInv'
    BY <1>0, <1>2, <1>5 DEF ProdLoad, PThreadsTypeOK, MainPlaces, ThreadPlaces,
           OwnerInv, ThreadHolds, MainHolds, Created
  <2>6. QueueInv'
    BY <1>0, <1>2, <1>5 DEF ProdLoad, PThreadsTypeOK, ProdTypeOK, MainPlaces,
           ThreadPlaces, OwnerInv, ThreadHolds, MainHolds, QueueInv
  <2>7. WaitInv'
    BY <1>0, <1>2, <1>5 DEF ProdLoad, PThreadsTypeOK, ProdTypeOK, MainPlaces,
           ThreadPlaces, OwnerInv, ThreadHolds, MainHolds, QueueInv, WaitInv,
           NoLostWakeup, Awaited, SignalComing
  <2> QED BY <2>1, <2>2, <2>3, <2>4, <2>5, <2>6, <2>7
<1>6. ASSUME ProdStore(t) PROVE Parts
  <2>1. (mpc \in MainPlaces)' /\ (tpc \in [Threads -> ThreadPlaces])'
    BY <1>0, <1>2, <1>6, QueuePlaces DEF ProdStore
  <2>2. PThreadsTypeOK'
    BY <1>0, <1>2, <1>6 DEF ProdStore, PThreadsTypeOK, ProdTypeOK, RoundsInv
  <2>3. ProdTypeOK'
    BY <1>0, <1>2, <1>6 DEF ProdStore, PThreadsTypeOK, ProdTypeOK, RoundsInv,
           QueueInv
  <2>4. RoundsInv'
    BY <1>0, <1>2, <1>6 DEF ProdStore, PThreadsTypeOK, ProdTypeOK, RoundsInv
  <2>5. OwnerInv'
    BY <1>0, <1>2, <1>6 DEF ProdStore, PThreadsTypeOK, MainPlaces, ThreadPlaces,
           OwnerInv, ThreadHolds, MainHolds, Created
  <2>6. QueueInv'
    BY <1>0, <1>2, <1>6 DEF ProdStore, PThreadsTypeOK, ProdTypeOK, MainPlaces,
           ThreadPlaces, OwnerInv, ThreadHolds, MainHolds, QueueInv
  <2>7. WaitInv'
    BY <1>0, <1>2, <1>6 DEF ProdStore, PThreadsTypeOK, ProdTypeOK, MainPlaces,
           ThreadPlaces, OwnerInv, ThreadHolds, MainHolds, QueueInv, WaitInv,
           NoLostWakeup, Awaited, SignalComing
  <2> QED BY <2>1, <2>2, <2>3, <2>4, <2>5, <2>6, <2>7
<1>7. ASSUME ProdUnlock(t) PROVE Parts
  <2>1. (mpc \in MainPlaces)' /\ (tpc \in [Threads -> ThreadPlaces])'
    BY <1>0, <1>2, <1>7, QueuePlaces DEF ProdUnlock, NextRound
  <2>2. PThreadsTypeOK'
    BY <1>0, <1>2, <1>7 DEF ProdUnlock, NextRound, PThreadsTypeOK, ProdTypeOK,
           RoundsInv
  <2>3. ProdTypeOK'
    BY <1>0, <1>2, <1>7 DEF ProdUnlock, NextRound, PThreadsTypeOK, ProdTypeOK,
           RoundsInv, QueueInv
  <2>4. RoundsInv'
    BY <1>0, <1>2, <1>7 DEF ProdUnlock, NextRound, PThreadsTypeOK, ProdTypeOK,
           RoundsInv
  <2>5. OwnerInv'
    BY <1>0, <1>2, <1>7 DEF ProdUnlock, NextRound, PThreadsTypeOK, MainPlaces,
           ThreadPlaces, OwnerInv, ThreadHolds, MainHolds, Created
  <2>6. QueueInv'
    BY <1>0, <1>2, <1>7 DEF ProdUnlock, NextRound, PThreadsTypeOK, ProdTypeOK,
           MainPlaces, ThreadPlaces, OwnerInv, ThreadHolds, MainHolds, QueueInv
  <2>7. WaitInv'
    BY <1>0, <1>2, <1>7 DEF ProdUnlock, NextRound, PThreadsTypeOK, ProdTypeOK,
           MainPlaces, ThreadPlaces, OwnerInv, ThreadHolds, MainHolds, QueueInv,
           WaitInv, NoLostWakeup, Awaited, SignalComing
  <2> QED BY <2>1, <2>2, <2>3, <2>4, <2>5, <2>6, <2>7
<1>8. ASSUME ProdSignal(t) PROVE Parts
  <2>1. (mpc \in MainPlaces)' /\ (tpc \in [Threads -> ThreadPlaces])'
    BY <1>0, <1>2, <1>8, QueuePlaces DEF ProdSignal, NextRound
  <2>2. PThreadsTypeOK'
    BY <1>0, <1>2, <1>8 DEF ProdSignal, NextRound, PThreadsTypeOK, ProdTypeOK,
           RoundsInv
  <2>3. ProdTypeOK'
    BY <1>0, <1>2, <1>8 DEF ProdSignal, NextRound, PThreadsTypeOK, ProdTypeOK,
           RoundsInv, QueueInv
  <2>4. RoundsInv'
    BY <1>0, <1>2, <1>8 DEF ProdSignal, NextRound, PThreadsTypeOK, ProdTypeOK,
           RoundsInv
  <2>5. OwnerInv'
    BY <1>0, <1>2, <1>8 DEF ProdSignal, NextRound, PThreadsTypeOK, MainPlaces,
           ThreadPlaces, OwnerInv, ThreadHolds, MainHolds, Created
  <2>6. QueueInv'
    BY <1>0, <1>2, <1>8 DEF ProdSignal, NextRound, PThreadsTypeOK, ProdTypeOK,
           MainPlaces, ThreadPlaces, OwnerInv, ThreadHolds, MainHolds, QueueInv
  <2>7. WaitInv'
    BY <1>0, <1>2, <1>8 DEF ProdSignal, NextRound, PThreadsTypeOK, ProdTypeOK,
           MainPlaces, ThreadPlaces, OwnerInv, ThreadHolds, MainHolds, QueueInv,
           WaitInv, NoLostWakeup, Awaited, SignalComing
  <2> QED BY <2>1, <2>2, <2>3, <2>4, <2>5, <2>6, <2>7
<1>act. ProdCreate(t) \/ ProdLock(t) \/ ProdLoad(t) \/ ProdStore(t) \/ ProdUnlock(t) \/ ProdSignal(t)
  BY DEF QueueStep, Producer
<1> QED BY <1>0, <1>1, <1>act, <1>3, <1>4, <1>5, <1>6, <1>7, <1>8 DEF ThreadInv, TypeOK

\* The consumer takes a step.
LEMMA ConsumerInv ==
  ASSUME ThreadInv, QueueStep(Consumer)
  PROVE  ThreadInv'
<1> USE Ids, UnitsAssumption DEF ThreadStep, MainStep, Lock, Unlock, Relock, CondWait, CondSignal,
            syncVars, localVars, prodVars
<1>0. /\ prog \in Queues /\ UNCHANGED <<joinVars, demoVars>> /\ prog' = prog
      /\ mpc' \in {"create", "count"} => mpc \in {"create", "count"}
      /\ prog # "multijoin" /\ prog # "once" /\ prog # "cleanup" /\ prog # "incr"
      /\ glob' = glob /\ raced' = raced /\ numUnjoined' = numUnjoined
  BY DEF QueueStep, Queues, Consumer, ConsLock, ConsTest, ConsWait, ConsRelock, ConsTake, ConsPut, ConsUnlock, Create, ThreadStep, MainStep,
         joinVars, demoVars
<1>1. StatesInv' /\ OnceInv' /\ HandlerInv' /\ JoinTypeOK' /\ DemoTypeOK'
  BY <1>0, QueueKeeps
<1>2. /\ PThreadsTypeOK /\ ProdTypeOK /\ mpc \in MainPlaces /\ tpc \in [Threads -> ThreadPlaces]
      /\ OwnerInv /\ RoundsInv /\ QueueInv /\ WaitInv
  BY DEF ThreadInv, TypeOK
<1> DEFINE Parts == /\ PThreadsTypeOK' /\ ProdTypeOK' /\ (mpc \in MainPlaces)'
                    /\ (tpc \in [Threads -> ThreadPlaces])'
                    /\ OwnerInv' /\ RoundsInv' /\ QueueInv' /\ WaitInv'
<1>3. ASSUME ConsLock PROVE Parts
  <2>1. (mpc \in MainPlaces)' /\ (tpc \in [Threads -> ThreadPlaces])'
    BY <1>0, <1>2, <1>3 DEF ConsLock, MainPlaces, ThreadPlaces
  <2>2. PThreadsTypeOK'
    BY <1>0, <1>2, <1>3 DEF ConsLock, PThreadsTypeOK, ProdTypeOK, RoundsInv
  <2>3. ProdTypeOK'
    BY <1>0, <1>2, <1>3 DEF ConsLock, PThreadsTypeOK, ProdTypeOK, RoundsInv,
           QueueInv
  <2>4. RoundsInv'
    BY <1>0, <1>2, <1>3 DEF ConsLock, PThreadsTypeOK, ProdTypeOK, RoundsInv
  <2>5. OwnerInv'
    BY <1>0, <1>2, <1>3 DEF ConsLock, PThreadsTypeOK, MainPlaces, ThreadPlaces,
           OwnerInv, ThreadHolds, MainHolds, Created
  <2>6. QueueInv'
    BY <1>0, <1>2, <1>3 DEF ConsLock, PThreadsTypeOK, ProdTypeOK, MainPlaces,
           ThreadPlaces, OwnerInv, ThreadHolds, MainHolds, QueueInv
  <2>7. WaitInv'
    BY <1>0, <1>2, <1>3 DEF ConsLock, PThreadsTypeOK, ProdTypeOK, MainPlaces,
           ThreadPlaces, OwnerInv, ThreadHolds, MainHolds, QueueInv, WaitInv,
           NoLostWakeup, Awaited, SignalComing
  <2> QED BY <2>1, <2>2, <2>3, <2>4, <2>5, <2>6, <2>7
<1>4. ASSUME ConsTest PROVE Parts
  <2>1. (mpc \in MainPlaces)' /\ (tpc \in [Threads -> ThreadPlaces])'
    BY <1>0, <1>2, <1>4 DEF ConsTest, MainPlaces, ThreadPlaces
  <2>2. PThreadsTypeOK'
    BY <1>0, <1>2, <1>4 DEF ConsTest, PThreadsTypeOK, ProdTypeOK, RoundsInv
  <2>3. ProdTypeOK'
    BY <1>0, <1>2, <1>4 DEF ConsTest, PThreadsTypeOK, ProdTypeOK, RoundsInv,
           QueueInv
  <2>4. RoundsInv'
    BY <1>0, <1>2, <1>4 DEF ConsTest, PThreadsTypeOK, ProdTypeOK, RoundsInv
  <2>5. OwnerInv'
    BY <1>0, <1>2, <1>4 DEF ConsTest, PThreadsTypeOK, MainPlaces, ThreadPlaces,
           OwnerInv, ThreadHolds, MainHolds, Created
  <2>6. QueueInv'
    BY <1>0, <1>2, <1>4 DEF ConsTest, PThreadsTypeOK, ProdTypeOK, MainPlaces,
           ThreadPlaces, OwnerInv, ThreadHolds, MainHolds, QueueInv
  <2>7. WaitInv'
    BY <1>0, <1>2, <1>4 DEF ConsTest, PThreadsTypeOK, ProdTypeOK, MainPlaces,
           ThreadPlaces, OwnerInv, ThreadHolds, MainHolds, QueueInv, WaitInv,
           NoLostWakeup, Awaited, SignalComing
  <2> QED BY <2>1, <2>2, <2>3, <2>4, <2>5, <2>6, <2>7
<1>5. ASSUME ConsWait PROVE Parts
  <2>1. (mpc \in MainPlaces)' /\ (tpc \in [Threads -> ThreadPlaces])'
    BY <1>0, <1>2, <1>5 DEF ConsWait, MainPlaces, ThreadPlaces
  <2>2. PThreadsTypeOK'
    BY <1>0, <1>2, <1>5 DEF ConsWait, PThreadsTypeOK, ProdTypeOK, RoundsInv
  <2>3. ProdTypeOK'
    BY <1>0, <1>2, <1>5 DEF ConsWait, PThreadsTypeOK, ProdTypeOK, RoundsInv,
           QueueInv
  <2>4. RoundsInv'
    BY <1>0, <1>2, <1>5 DEF ConsWait, PThreadsTypeOK, ProdTypeOK, RoundsInv
  <2>5. OwnerInv'
    BY <1>0, <1>2, <1>5 DEF ConsWait, PThreadsTypeOK, MainPlaces, ThreadPlaces,
           OwnerInv, ThreadHolds, MainHolds, Created
  <2>6. QueueInv'
    BY <1>0, <1>2, <1>5 DEF ConsWait, PThreadsTypeOK, ProdTypeOK, MainPlaces,
           ThreadPlaces, OwnerInv, ThreadHolds, MainHolds, QueueInv
  <2>7. WaitInv'
    BY <1>0, <1>2, <1>5 DEF ConsWait, PThreadsTypeOK, ProdTypeOK, MainPlaces,
           ThreadPlaces, OwnerInv, ThreadHolds, MainHolds, QueueInv, WaitInv,
           NoLostWakeup, Awaited, SignalComing
  <2> QED BY <2>1, <2>2, <2>3, <2>4, <2>5, <2>6, <2>7
<1>6. ASSUME ConsRelock PROVE Parts
  <2>1. (mpc \in MainPlaces)' /\ (tpc \in [Threads -> ThreadPlaces])'
    BY <1>0, <1>2, <1>6 DEF ConsRelock, MainPlaces, ThreadPlaces
  <2>2. PThreadsTypeOK'
    BY <1>0, <1>2, <1>6 DEF ConsRelock, PThreadsTypeOK, ProdTypeOK, RoundsInv
  <2>3. ProdTypeOK'
    BY <1>0, <1>2, <1>6 DEF ConsRelock, PThreadsTypeOK, ProdTypeOK, RoundsInv,
           QueueInv
  <2>4. RoundsInv'
    BY <1>0, <1>2, <1>6 DEF ConsRelock, PThreadsTypeOK, ProdTypeOK, RoundsInv
  <2>5. OwnerInv'
    BY <1>0, <1>2, <1>6 DEF ConsRelock, PThreadsTypeOK, MainPlaces,
           ThreadPlaces, OwnerInv, ThreadHolds, MainHolds, Created
  <2>6. QueueInv'
    BY <1>0, <1>2, <1>6 DEF ConsRelock, PThreadsTypeOK, ProdTypeOK, MainPlaces,
           ThreadPlaces, OwnerInv, ThreadHolds, MainHolds, QueueInv
  <2>7. WaitInv'
    BY <1>0, <1>2, <1>6 DEF ConsRelock, PThreadsTypeOK, ProdTypeOK, MainPlaces,
           ThreadPlaces, OwnerInv, ThreadHolds, MainHolds, QueueInv, WaitInv,
           NoLostWakeup, Awaited, SignalComing
  <2> QED BY <2>1, <2>2, <2>3, <2>4, <2>5, <2>6, <2>7
<1>7. ASSUME ConsTake PROVE Parts
  <2>1. (mpc \in MainPlaces)' /\ (tpc \in [Threads -> ThreadPlaces])'
    BY <1>0, <1>2, <1>7 DEF ConsTake, MainPlaces, ThreadPlaces
  <2>2. PThreadsTypeOK'
    BY <1>0, <1>2, <1>7 DEF ConsTake, PThreadsTypeOK, ProdTypeOK, RoundsInv
  <2>3. ProdTypeOK'
    BY <1>0, <1>2, <1>7 DEF ConsTake, PThreadsTypeOK, ProdTypeOK, RoundsInv,
           QueueInv
  <2>4. RoundsInv'
    BY <1>0, <1>2, <1>7 DEF ConsTake, PThreadsTypeOK, ProdTypeOK, RoundsInv
  <2>5. OwnerInv'
    BY <1>0, <1>2, <1>7 DEF ConsTake, PThreadsTypeOK, MainPlaces, ThreadPlaces,
           OwnerInv, ThreadHolds, MainHolds, Created
  <2>6. QueueInv'
    BY <1>0, <1>2, <1>7 DEF ConsTake, PThreadsTypeOK, ProdTypeOK, MainPlaces,
           ThreadPlaces, OwnerInv, ThreadHolds, MainHolds, QueueInv
  <2>7. WaitInv'
    BY <1>0, <1>2, <1>7 DEF ConsTake, PThreadsTypeOK, ProdTypeOK, MainPlaces,
           ThreadPlaces, OwnerInv, ThreadHolds, MainHolds, QueueInv, WaitInv,
           NoLostWakeup, Awaited, SignalComing
  <2> QED BY <2>1, <2>2, <2>3, <2>4, <2>5, <2>6, <2>7
<1>8. ASSUME ConsPut PROVE Parts
  <2>1. (mpc \in MainPlaces)' /\ (tpc \in [Threads -> ThreadPlaces])'
    BY <1>0, <1>2, <1>8 DEF ConsPut, MainPlaces, ThreadPlaces
  <2>2. PThreadsTypeOK'
    BY <1>0, <1>2, <1>8 DEF ConsPut, PThreadsTypeOK, ProdTypeOK, RoundsInv
  <2>3. ProdTypeOK'
    BY <1>0, <1>2, <1>8 DEF ConsPut, PThreadsTypeOK, ProdTypeOK, RoundsInv,
           QueueInv
  <2>4. RoundsInv'
    BY <1>0, <1>2, <1>8 DEF ConsPut, PThreadsTypeOK, ProdTypeOK, RoundsInv
  <2>5. OwnerInv'
    BY <1>0, <1>2, <1>8 DEF ConsPut, PThreadsTypeOK, MainPlaces, ThreadPlaces,
           OwnerInv, ThreadHolds, MainHolds, Created
  <2>6. QueueInv'
    BY <1>0, <1>2, <1>8 DEF ConsPut, PThreadsTypeOK, ProdTypeOK, MainPlaces,
           ThreadPlaces, OwnerInv, ThreadHolds, MainHolds, QueueInv
  <2>7. WaitInv'
    BY <1>0, <1>2, <1>8 DEF ConsPut, PThreadsTypeOK, ProdTypeOK, MainPlaces,
           ThreadPlaces, OwnerInv, ThreadHolds, MainHolds, QueueInv, WaitInv,
           NoLostWakeup, Awaited, SignalComing
  <2> QED BY <2>1, <2>2, <2>3, <2>4, <2>5, <2>6, <2>7
<1>9. ASSUME ConsUnlock PROVE Parts
  <2>1. (mpc \in MainPlaces)' /\ (tpc \in [Threads -> ThreadPlaces])'
    BY <1>0, <1>2, <1>9 DEF ConsUnlock, MainPlaces, ThreadPlaces
  <2>2. PThreadsTypeOK'
    BY <1>0, <1>2, <1>9 DEF ConsUnlock, PThreadsTypeOK, ProdTypeOK, RoundsInv
  <2>3. ProdTypeOK'
    BY <1>0, <1>2, <1>9 DEF ConsUnlock, PThreadsTypeOK, ProdTypeOK, RoundsInv,
           QueueInv
  <2>4. RoundsInv'
    BY <1>0, <1>2, <1>9 DEF ConsUnlock, PThreadsTypeOK, ProdTypeOK, RoundsInv
  <2>5. OwnerInv'
    BY <1>0, <1>2, <1>9 DEF ConsUnlock, PThreadsTypeOK, MainPlaces,
           ThreadPlaces, OwnerInv, ThreadHolds, MainHolds, Created
  <2>6. QueueInv'
    BY <1>0, <1>2, <1>9 DEF ConsUnlock, PThreadsTypeOK, ProdTypeOK, MainPlaces,
           ThreadPlaces, OwnerInv, ThreadHolds, MainHolds, QueueInv
  <2>7. WaitInv'
    BY <1>0, <1>2, <1>9 DEF ConsUnlock, PThreadsTypeOK, ProdTypeOK, MainPlaces,
           ThreadPlaces, OwnerInv, ThreadHolds, MainHolds, QueueInv, WaitInv,
           NoLostWakeup, Awaited, SignalComing
  <2> QED BY <2>1, <2>2, <2>3, <2>4, <2>5, <2>6, <2>7
<1>act. ConsLock \/ ConsTest \/ ConsWait \/ ConsRelock \/ ConsTake \/ ConsPut \/ ConsUnlock
  BY DEF QueueStep, Consumer
<1> QED BY <1>0, <1>1, <1>act, <1>3, <1>4, <1>5, <1>6, <1>7, <1>8, <1>9 DEF ThreadInv, TypeOK

\* Counting sets of threads.
LEMMA Counted ==
  ASSUME NEW S \in SUBSET Threads
  PROVE  /\ Cardinality(S) \in 0 .. NThreads /\ Cardinality(Threads) = NThreads
         /\ Cardinality({}) = 0
         /\ Cardinality(S) = 0 => S = {}
         /\ \A t \in Threads \ S : Cardinality(S \cup {t}) = Cardinality(S) + 1
         /\ \A t \in S : Cardinality(S \ {t}) = Cardinality(S) - 1
<1>1. IsFiniteSet(Threads) /\ Cardinality(Threads) = NThreads
  BY FS_Interval, PThreadsAssumption DEF Threads
<1>2. IsFiniteSet(S) /\ Cardinality(S) <= NThreads
  BY <1>1, FS_Subset
<1>3. Cardinality(S) \in Nat /\ (Cardinality(S) = 0 => S = {}) /\ Cardinality({}) = 0
  BY <1>2, FS_CardinalityType, FS_EmptySet
<1>4. \A t \in Threads \ S : Cardinality(S \cup {t}) = Cardinality(S) + 1
  BY <1>2, FS_AddElement
<1>5. \A t \in S : Cardinality(S \ {t}) = Cardinality(S) - 1
  BY <1>2, FS_RemoveElement
<1> QED BY <1>1, <1>2, <1>3, <1>4, <1>5, PThreadsAssumption

\* The places of thread_multijoin.
LEMMA JoinPlaces ==
  ASSUME prog = "multijoin", prog' = prog
  PROVE  /\ ThreadPlaces = {"new", "lock", "report", "unlock", "signal", "ended"}
         /\ MainPlaces = {"create", "count", "while", "test", "wait", "relock", "scan",
                          "exit"}
         /\ ThreadPlaces' = ThreadPlaces /\ MainPlaces' = MainPlaces
  BY DEF ThreadPlaces, MainPlaces

\* What the steps of thread_multijoin leave alone.
LEMMA JoinKeeps ==
  ASSUME ThreadInv, prog = "multijoin", UNCHANGED <<prog, loc, prodVars, demoVars>>,
         mpc' # "put"
  PROVE  QueueInv' /\ OnceInv' /\ HandlerInv' /\ ProdTypeOK' /\ DemoTypeOK'
<1>1. /\ prog # "once" /\ prog # "cleanup" /\ prog \notin Queues /\ prog' = prog
      /\ UNCHANGED <<units, avail, totRequired, numConsumed, done, produced>>
      /\ UNCHANGED <<glob, called, inits, mode, canceled, heap, raced>>
  BY DEF Queues, prodVars, demoVars
<1>2. mpc # "put"
  BY JoinPlaces DEF ThreadInv, TypeOK
<1>3. QueueInv'
  BY <1>1, <1>2 DEF ThreadInv, QueueInv
<1>4. OnceInv' /\ HandlerInv'
  BY <1>1 DEF OnceInv, HandlerInv
<1>5. ProdTypeOK' /\ DemoTypeOK'
  BY <1>1 DEF ThreadInv, TypeOK, ProdTypeOK, DemoTypeOK
<1> QED BY <1>3, <1>4, <1>5

\* A thread of thread_multijoin is created or takes a step.
LEMMA DyingInv ==
  ASSUME NEW t \in Threads, ThreadInv, JoinStep(JoinCreate(t)) \/ JoinStep(Dying(t))
  PROVE  ThreadInv'
<1> USE Ids, PThreadsAssumption DEF ThreadStep, MainStep, Lock, Unlock, Relock, CondWait, CondSignal,
            syncVars, localVars, joinVars
<1>0. /\ prog = "multijoin" /\ UNCHANGED <<prodVars, demoVars>> /\ prog' = prog
      /\ glob' = glob /\ raced' = raced /\ avail' = avail /\ loc' = loc /\ mpc' # "put"
  BY DEF JoinStep, ThreadInv, TypeOK, MainPlaces, Create, ThreadStep,
         MainStep, demoVars, prodVars, localVars, Dying, JoinCreate, DyingLock,
         DyingReport, DyingUnlock, DyingSignal
<1>1. QueueInv' /\ OnceInv' /\ HandlerInv' /\ ProdTypeOK' /\ DemoTypeOK'
  BY <1>0, JoinKeeps
<1>2. /\ PThreadsTypeOK /\ JoinTypeOK /\ (mpc \in MainPlaces)
                    /\ (tpc \in [Threads -> ThreadPlaces]) /\ OwnerInv /\ RoundsInv
                    /\ StatesInv /\ WaitInv
  BY DEF ThreadInv, TypeOK
<1> DEFINE Parts == /\ PThreadsTypeOK' /\ JoinTypeOK' /\ (mpc \in MainPlaces)'
                    /\ (tpc \in [Threads -> ThreadPlaces])' /\ OwnerInv' /\ RoundsInv'
                    /\ StatesInv' /\ WaitInv'
<1>3. ASSUME JoinCreate(t) PROVE Parts
  <2>1. (mpc \in MainPlaces)' /\ (tpc \in [Threads -> ThreadPlaces])'
    BY <1>0, <1>2, <1>3, JoinPlaces DEF JoinCreate, Create
  <2>2. PThreadsTypeOK'
    BY <1>0, <1>2, <1>3 DEF JoinCreate, Create, PThreadsTypeOK
  <2>3. RoundsInv'
    BY <1>0, <1>2, <1>3 DEF JoinCreate, Create, PThreadsTypeOK, RoundsInv
  <2>4. OwnerInv'
    BY <1>0, <1>2, <1>3, JoinPlaces DEF JoinCreate, Create, PThreadsTypeOK,
           OwnerInv, ThreadHolds, MainHolds, Created
  <2>5. StatesInv'
    <3>1. /\ InState("terminated")' = InState("terminated")
          /\ InState("joined")' = InState("joined")
      BY <1>0, <1>2, <1>3 DEF JoinCreate, Create, StatesInv, JoinTypeOK, InState
    <3> QED BY <1>0, <1>2, <1>3, <3>1, JoinPlaces
            DEF JoinCreate, Create, PThreadsTypeOK, JoinTypeOK, StatesInv
  <2>6. JoinTypeOK'
    BY <1>0, <1>2, <1>3, <2>5, Counted DEF JoinCreate, Create, JoinTypeOK,
           StatesInv, InState
  <2>7. WaitInv'
    BY <1>0, <1>2, <1>3, JoinPlaces DEF JoinCreate, Create, PThreadsTypeOK,
           OwnerInv, ThreadHolds, MainHolds, JoinTypeOK, StatesInv, WaitInv,
           NoLostWakeup, Awaited, SignalComing
  <2> QED BY <2>1, <2>2, <2>3, <2>4, <2>5, <2>6, <2>7
<1>4. ASSUME DyingLock(t) PROVE Parts
  <2>1. (mpc \in MainPlaces)' /\ (tpc \in [Threads -> ThreadPlaces])'
    BY <1>0, <1>2, <1>4, JoinPlaces DEF DyingLock
  <2>2. PThreadsTypeOK'
    BY <1>0, <1>2, <1>4 DEF DyingLock, PThreadsTypeOK
  <2>3. RoundsInv'
    BY <1>0, <1>2, <1>4 DEF DyingLock, PThreadsTypeOK, RoundsInv
  <2>4. OwnerInv'
    BY <1>0, <1>2, <1>4, JoinPlaces DEF DyingLock, PThreadsTypeOK, OwnerInv,
           ThreadHolds, MainHolds, Created
  <2>5. StatesInv'
    BY <1>0, <1>2, <1>4, JoinPlaces DEF DyingLock, PThreadsTypeOK, JoinTypeOK,
           OwnerInv, ThreadHolds, MainHolds, StatesInv, InState
  <2>6. JoinTypeOK'
    BY <1>0, <1>2, <1>4, <2>5, Counted DEF DyingLock, JoinTypeOK, StatesInv,
           InState
  <2>7. WaitInv'
    BY <1>0, <1>2, <1>4, JoinPlaces DEF DyingLock, PThreadsTypeOK, OwnerInv,
           ThreadHolds, MainHolds, JoinTypeOK, StatesInv, WaitInv, NoLostWakeup,
           Awaited, SignalComing
  <2> QED BY <2>1, <2>2, <2>3, <2>4, <2>5, <2>6, <2>7
<1>5. ASSUME DyingReport(t) PROVE Parts
  <2>1. (mpc \in MainPlaces)' /\ (tpc \in [Threads -> ThreadPlaces])'
    BY <1>0, <1>2, <1>5, JoinPlaces DEF DyingReport
  <2>2. PThreadsTypeOK'
    BY <1>0, <1>2, <1>5 DEF DyingReport, PThreadsTypeOK
  <2>3. RoundsInv'
    BY <1>0, <1>2, <1>5 DEF DyingReport, PThreadsTypeOK, RoundsInv
  <2>4. OwnerInv'
    BY <1>0, <1>2, <1>5, JoinPlaces DEF DyingReport, PThreadsTypeOK, OwnerInv,
           ThreadHolds, MainHolds, Created
  <2>5. StatesInv'
    <3>1. /\ InState("terminated")' = InState("terminated") \cup {t}
          /\ InState("joined")' = InState("joined")
          /\ t \in Threads \ InState("terminated") /\ mpc # "wait" /\ mpc # "exit"
      BY <1>0, <1>2, <1>5 DEF DyingReport, StatesInv, JoinTypeOK, PThreadsTypeOK, InState,
                              OwnerInv, ThreadHolds, MainHolds
    <3>2. Cardinality(InState("terminated"))' = Cardinality(InState("terminated")) + 1
      BY <3>1, Counted DEF InState
    <3> QED BY <1>0, <1>2, <1>5, <3>1, <3>2, JoinPlaces
            DEF DyingReport, PThreadsTypeOK, JoinTypeOK, StatesInv
  <2>6. JoinTypeOK'
    <3>1. Cardinality(InState("terminated"))' \in 0 .. NThreads
      BY Counted DEF InState
    <3> QED BY <1>0, <1>2, <1>5, <2>5, <3>1 DEF DyingReport, JoinTypeOK, StatesInv
  <2>7. WaitInv'
    BY <1>0, <1>2, <1>5, JoinPlaces DEF DyingReport, PThreadsTypeOK, OwnerInv,
           ThreadHolds, MainHolds, JoinTypeOK, StatesInv, WaitInv, NoLostWakeup,
           Awaited, SignalComing
  <2> QED BY <2>1, <2>2, <2>3, <2>4, <2>5, <2>6, <2>7
<1>6. ASSUME DyingUnlock(t) PROVE Parts
  <2>1. (mpc \in MainPlaces)' /\ (tpc \in [Threads -> ThreadPlaces])'
    BY <1>0, <1>2, <1>6, JoinPlaces DEF DyingUnlock
  <2>2. PThreadsTypeOK'
    BY <1>0, <1>2, <1>6 DEF DyingUnlock, PThreadsTypeOK
  <2>3. RoundsInv'
    BY <1>0, <1>2, <1>6 DEF DyingUnlock, PThreadsTypeOK, RoundsInv
  <2>4. OwnerInv'
    BY <1>0, <1>2, <1>6, JoinPlaces DEF DyingUnlock, PThreadsTypeOK, OwnerInv,
           ThreadHolds, MainHolds, Created
  <2>5. StatesInv'
    BY <1>0, <1>2, <1>6, JoinPlaces DEF DyingUnlock, PThreadsTypeOK,
           JoinTypeOK, OwnerInv, ThreadHolds, MainHolds, StatesInv, InState
  <2>6. JoinTypeOK'
    BY <1>0, <1>2, <1>6, <2>5, Counted DEF DyingUnlock, JoinTypeOK, StatesInv,
           InState
  <2>7. WaitInv'
    BY <1>0, <1>2, <1>6, JoinPlaces DEF DyingUnlock, PThreadsTypeOK, OwnerInv,
           ThreadHolds, MainHolds, JoinTypeOK, StatesInv, WaitInv, NoLostWakeup,
           Awaited, SignalComing
  <2> QED BY <2>1, <2>2, <2>3, <2>4, <2>5, <2>6, <2>7
<1>7. ASSUME DyingSignal(t) PROVE Parts
  <2>1. (mpc \in MainPlaces)' /\ (tpc \in [Threads -> ThreadPlaces])'
    BY <1>0, <1>2, <1>7, JoinPlaces DEF DyingSignal
  <2>2. PThreadsTypeOK'
    BY <1>0, <1>2, <1>7 DEF DyingSignal, PThreadsTypeOK
  <2>3. RoundsInv'
    BY <1>0, <1>2, <1>7 DEF DyingSignal, PThreadsTypeOK, RoundsInv
  <2>4. OwnerInv'
    BY <1>0, <1>2, <1>7, JoinPlaces DEF DyingSignal, PThreadsTypeOK, OwnerInv,
           ThreadHolds, MainHolds, Created
  <2>5. StatesInv'
    BY <1>0, <1>2, <1>7, JoinPlaces DEF DyingSignal, PThreadsTypeOK,
           JoinTypeOK, OwnerInv, ThreadHolds, MainHolds, StatesInv, InState
  <2>6. JoinTypeOK'
    BY <1>0, <1>2, <1>7, <2>5, Counted DEF DyingSignal, JoinTypeOK, StatesInv,
           InState
  <2>7. WaitInv'
    BY <1>0, <1>2, <1>7, JoinPlaces DEF DyingSignal, PThreadsTypeOK, OwnerInv,
           ThreadHolds, MainHolds, JoinTypeOK, StatesInv, WaitInv, NoLostWakeup,
           Awaited, SignalComing
  <2> QED BY <2>1, <2>2, <2>3, <2>4, <2>5, <2>6, <2>7
<1>act. JoinCreate(t) \/ DyingLock(t) \/ DyingReport(t) \/ DyingUnlock(t) \/
       DyingSignal(t)
  BY DEF JoinStep, Dying
<1> QED BY <1>0, <1>1, <1>act, <1>3, <1>4, <1>5, <1>6, <1>7 DEF ThreadInv,
       TypeOK

\* main of thread_multijoin takes a step.
LEMMA JoinerInv ==
  ASSUME ThreadInv, JoinStep(Joiner)
  PROVE  ThreadInv'
<1> USE Ids, PThreadsAssumption DEF ThreadStep, MainStep, Lock, Unlock, Relock, CondWait, CondSignal,
            syncVars, localVars, joinVars
<1>0. /\ prog = "multijoin" /\ UNCHANGED <<prodVars, demoVars>> /\ prog' = prog
      /\ glob' = glob /\ raced' = raced /\ avail' = avail /\ loc' = loc /\ mpc' # "put"
  BY DEF JoinStep, ThreadInv, TypeOK, MainPlaces, Create, ThreadStep,
         MainStep, demoVars, prodVars, localVars, Joiner, CountThreads, WhileLive,
         JoinTest, JoinWait, JoinRelock, ScanSkip, ScanJoin, ScanEnd
<1>1. QueueInv' /\ OnceInv' /\ HandlerInv' /\ ProdTypeOK' /\ DemoTypeOK'
  BY <1>0, JoinKeeps
<1>2. /\ PThreadsTypeOK /\ JoinTypeOK /\ (mpc \in MainPlaces)
                    /\ (tpc \in [Threads -> ThreadPlaces]) /\ OwnerInv /\ RoundsInv
                    /\ StatesInv /\ WaitInv
  BY DEF ThreadInv, TypeOK
<1> DEFINE Parts == /\ PThreadsTypeOK' /\ JoinTypeOK' /\ (mpc \in MainPlaces)'
                    /\ (tpc \in [Threads -> ThreadPlaces])' /\ OwnerInv' /\ RoundsInv'
                    /\ StatesInv' /\ WaitInv'
<1>3. ASSUME CountThreads PROVE Parts
  <2>1. (mpc \in MainPlaces)' /\ (tpc \in [Threads -> ThreadPlaces])'
    BY <1>0, <1>2, <1>3, JoinPlaces DEF CountThreads
  <2>2. PThreadsTypeOK'
    BY <1>0, <1>2, <1>3 DEF CountThreads, PThreadsTypeOK
  <2>3. RoundsInv'
    BY <1>0, <1>2, <1>3 DEF CountThreads, PThreadsTypeOK, RoundsInv
  <2>4. OwnerInv'
    BY <1>0, <1>2, <1>3, JoinPlaces DEF CountThreads, PThreadsTypeOK,
           OwnerInv, ThreadHolds, MainHolds, Created
  <2>5. StatesInv'
    <3>1. InState("joined") = {} /\ Cardinality(Threads \ {}) = NThreads
      BY <1>0, <1>2, <1>3, Counted DEF CountThreads, StatesInv
    <3>2. /\ InState("terminated")' = InState("terminated")
          /\ InState("joined")' = InState("joined")
      BY <1>0, <1>3 DEF CountThreads, InState
    <3> QED BY <1>0, <1>2, <1>3, <3>1, <3>2, JoinPlaces
            DEF CountThreads, PThreadsTypeOK, JoinTypeOK, StatesInv
  <2>6. JoinTypeOK'
    BY <1>0, <1>2, <1>3, <2>5, Counted DEF CountThreads, JoinTypeOK,
           StatesInv, InState
  <2>7. WaitInv'
    BY <1>0, <1>2, <1>3, JoinPlaces DEF CountThreads, PThreadsTypeOK,
           OwnerInv, ThreadHolds, MainHolds, JoinTypeOK, StatesInv, WaitInv,
           NoLostWakeup, Awaited, SignalComing
  <2> QED BY <2>1, <2>2, <2>3, <2>4, <2>5, <2>6, <2>7
<1>4. ASSUME WhileLive PROVE Parts
  <2>1. (mpc \in MainPlaces)' /\ (tpc \in [Threads -> ThreadPlaces])'
    BY <1>0, <1>2, <1>4, JoinPlaces DEF WhileLive
  <2>2. PThreadsTypeOK'
    BY <1>0, <1>2, <1>4 DEF WhileLive, PThreadsTypeOK
  <2>3. RoundsInv'
    BY <1>0, <1>2, <1>4 DEF WhileLive, PThreadsTypeOK, RoundsInv
  <2>4. OwnerInv'
    BY <1>0, <1>2, <1>4, JoinPlaces DEF WhileLive, PThreadsTypeOK, OwnerInv,
           ThreadHolds, MainHolds, Created
  <2>5. StatesInv'
    <3>1. /\ InState("terminated")' = InState("terminated")
          /\ InState("joined")' = InState("joined") /\ InState("joined") \subseteq Threads
      BY <1>0, <1>4 DEF WhileLive, InState
    <3>2. numLive = 0 => InState("joined") = Threads
      <4>1. \A S \in SUBSET Threads : Cardinality(S) = 0 => S = {}
        BY Counted, Zenon
      <4>2. mpc = "while" /\ numLive = Cardinality(Threads \ InState("joined"))
        BY <1>0, <1>2, <1>4 DEF WhileLive, StatesInv
      <4> QED BY <3>1, <4>1, <4>2
    <3> QED BY <1>0, <1>2, <1>4, <3>1, <3>2, JoinPlaces
            DEF WhileLive, PThreadsTypeOK, JoinTypeOK, StatesInv
  <2>6. JoinTypeOK'
    BY <1>0, <1>2, <1>4, <2>5, Counted DEF WhileLive, JoinTypeOK, StatesInv,
           InState
  <2>7. WaitInv'
    BY <1>0, <1>2, <1>4, JoinPlaces DEF WhileLive, PThreadsTypeOK, OwnerInv,
           ThreadHolds, MainHolds, JoinTypeOK, StatesInv, WaitInv, NoLostWakeup,
           Awaited, SignalComing
  <2> QED BY <2>1, <2>2, <2>3, <2>4, <2>5, <2>6, <2>7
<1>5. ASSUME JoinTest PROVE Parts
  <2>1. (mpc \in MainPlaces)' /\ (tpc \in [Threads -> ThreadPlaces])'
    BY <1>0, <1>2, <1>5, JoinPlaces DEF JoinTest
  <2>2. PThreadsTypeOK'
    BY <1>0, <1>2, <1>5 DEF JoinTest, PThreadsTypeOK
  <2>3. RoundsInv'
    BY <1>0, <1>2, <1>5 DEF JoinTest, PThreadsTypeOK, RoundsInv
  <2>4. OwnerInv'
    BY <1>0, <1>2, <1>5, JoinPlaces DEF JoinTest, PThreadsTypeOK, OwnerInv,
           ThreadHolds, MainHolds, Created
  <2>5. StatesInv'
    BY <1>0, <1>2, <1>5, JoinPlaces DEF JoinTest, PThreadsTypeOK, JoinTypeOK,
           OwnerInv, ThreadHolds, MainHolds, StatesInv, InState
  <2>6. JoinTypeOK'
    BY <1>0, <1>2, <1>5, <2>5, Counted DEF JoinTest, JoinTypeOK, StatesInv,
           InState
  <2>7. WaitInv'
    BY <1>0, <1>2, <1>5, JoinPlaces DEF JoinTest, PThreadsTypeOK, OwnerInv,
           ThreadHolds, MainHolds, JoinTypeOK, StatesInv, WaitInv, NoLostWakeup,
           Awaited, SignalComing
  <2> QED BY <2>1, <2>2, <2>3, <2>4, <2>5, <2>6, <2>7
<1>6. ASSUME JoinWait PROVE Parts
  <2>1. (mpc \in MainPlaces)' /\ (tpc \in [Threads -> ThreadPlaces])'
    BY <1>0, <1>2, <1>6, JoinPlaces DEF JoinWait
  <2>2. PThreadsTypeOK'
    BY <1>0, <1>2, <1>6 DEF JoinWait, PThreadsTypeOK
  <2>3. RoundsInv'
    BY <1>0, <1>2, <1>6 DEF JoinWait, PThreadsTypeOK, RoundsInv
  <2>4. OwnerInv'
    BY <1>0, <1>2, <1>6, JoinPlaces DEF JoinWait, PThreadsTypeOK, OwnerInv,
           ThreadHolds, MainHolds, Created
  <2>5. StatesInv'
    BY <1>0, <1>2, <1>6, JoinPlaces DEF JoinWait, PThreadsTypeOK, JoinTypeOK,
           OwnerInv, ThreadHolds, MainHolds, StatesInv, InState
  <2>6. JoinTypeOK'
    BY <1>0, <1>2, <1>6, <2>5, Counted DEF JoinWait, JoinTypeOK, StatesInv,
           InState
  <2>7. WaitInv'
    BY <1>0, <1>2, <1>6, JoinPlaces DEF JoinWait, PThreadsTypeOK, OwnerInv,
           ThreadHolds, MainHolds, JoinTypeOK, StatesInv, WaitInv, NoLostWakeup,
           Awaited, SignalComing
  <2> QED BY <2>1, <2>2, <2>3, <2>4, <2>5, <2>6, <2>7
<1>7. ASSUME JoinRelock PROVE Parts
  <2>1. (mpc \in MainPlaces)' /\ (tpc \in [Threads -> ThreadPlaces])'
    BY <1>0, <1>2, <1>7, JoinPlaces DEF JoinRelock
  <2>2. PThreadsTypeOK'
    BY <1>0, <1>2, <1>7 DEF JoinRelock, PThreadsTypeOK
  <2>3. RoundsInv'
    BY <1>0, <1>2, <1>7 DEF JoinRelock, PThreadsTypeOK, RoundsInv
  <2>4. OwnerInv'
    BY <1>0, <1>2, <1>7, JoinPlaces DEF JoinRelock, PThreadsTypeOK, OwnerInv,
           ThreadHolds, MainHolds, Created
  <2>5. StatesInv'
    BY <1>0, <1>2, <1>7, JoinPlaces DEF JoinRelock, PThreadsTypeOK,
           JoinTypeOK, OwnerInv, ThreadHolds, MainHolds, StatesInv, InState
  <2>6. JoinTypeOK'
    BY <1>0, <1>2, <1>7, <2>5, Counted DEF JoinRelock, JoinTypeOK, StatesInv,
           InState
  <2>7. WaitInv'
    BY <1>0, <1>2, <1>7, JoinPlaces DEF JoinRelock, PThreadsTypeOK, OwnerInv,
           ThreadHolds, MainHolds, JoinTypeOK, StatesInv, WaitInv, NoLostWakeup,
           Awaited, SignalComing
  <2> QED BY <2>1, <2>2, <2>3, <2>4, <2>5, <2>6, <2>7
<1>8. ASSUME ScanSkip PROVE Parts
  <2>1. (mpc \in MainPlaces)' /\ (tpc \in [Threads -> ThreadPlaces])'
    BY <1>0, <1>2, <1>8, JoinPlaces DEF ScanSkip
  <2>2. PThreadsTypeOK'
    BY <1>0, <1>2, <1>8 DEF ScanSkip, PThreadsTypeOK
  <2>3. RoundsInv'
    BY <1>0, <1>2, <1>8 DEF ScanSkip, PThreadsTypeOK, RoundsInv
  <2>4. OwnerInv'
    BY <1>0, <1>2, <1>8, JoinPlaces DEF ScanSkip, PThreadsTypeOK, OwnerInv,
           ThreadHolds, MainHolds, Created
  <2>5. StatesInv'
    BY <1>0, <1>2, <1>8, JoinPlaces DEF ScanSkip, PThreadsTypeOK, JoinTypeOK,
           OwnerInv, ThreadHolds, MainHolds, StatesInv, InState
  <2>6. JoinTypeOK'
    BY <1>0, <1>2, <1>8 DEF ScanSkip, JoinTypeOK, Threads
  <2>7. WaitInv'
    BY <1>0, <1>2, <1>8, JoinPlaces DEF ScanSkip, PThreadsTypeOK, OwnerInv,
           ThreadHolds, MainHolds, JoinTypeOK, StatesInv, WaitInv, NoLostWakeup,
           Awaited, SignalComing
  <2> QED BY <2>1, <2>2, <2>3, <2>4, <2>5, <2>6, <2>7
<1>9. ASSUME ScanJoin PROVE Parts
  <2>1. (mpc \in MainPlaces)' /\ (tpc \in [Threads -> ThreadPlaces])'
    BY <1>0, <1>2, <1>9, JoinPlaces DEF ScanJoin
  <2>2. PThreadsTypeOK'
    BY <1>0, <1>2, <1>9 DEF ScanJoin, PThreadsTypeOK
  <2>3. RoundsInv'
    BY <1>0, <1>2, <1>9 DEF ScanJoin, PThreadsTypeOK, RoundsInv
  <2>4. OwnerInv'
    BY <1>0, <1>2, <1>9, JoinPlaces DEF ScanJoin, PThreadsTypeOK, OwnerInv,
           ThreadHolds, MainHolds, Created
  <2>5. StatesInv'
    <3>1. /\ InState("terminated")' = InState("terminated") \ {idx}
          /\ idx \in InState("terminated") /\ InState("terminated") \subseteq Threads
          /\ (Threads \ InState("joined"))' = (Threads \ InState("joined")) \ {idx}
          /\ idx \in Threads \ InState("joined")
      BY <1>0, <1>9, <1>2 DEF ScanJoin, JoinTypeOK, InState
    <3>2. Cardinality(InState("terminated"))' = Cardinality(InState("terminated")) - 1
      BY <3>1, Counted
    <3>3. Cardinality(Threads \ InState("joined"))'
            = Cardinality(Threads \ InState("joined")) - 1
      BY <3>1, Counted
    <3> QED BY <1>0, <1>2, <1>9, <3>2, <3>3, JoinPlaces
            DEF ScanJoin, PThreadsTypeOK, JoinTypeOK, StatesInv
  <2>6. JoinTypeOK'
    <3>1. /\ Cardinality(InState("terminated"))' \in 0 .. NThreads
          /\ Cardinality(Threads \ InState("joined"))' \in 0 .. NThreads
      BY Counted DEF InState
    <3> QED BY <1>0, <1>2, <1>9, <2>5, <3>1 DEF ScanJoin, JoinTypeOK, StatesInv, Threads
  <2>7. WaitInv'
    BY <1>0, <1>2, <1>9, JoinPlaces DEF ScanJoin, PThreadsTypeOK, OwnerInv,
           ThreadHolds, MainHolds, JoinTypeOK, StatesInv, WaitInv, NoLostWakeup,
           Awaited, SignalComing
  <2> QED BY <2>1, <2>2, <2>3, <2>4, <2>5, <2>6, <2>7
<1>10. ASSUME ScanEnd PROVE Parts
  <2>1. (mpc \in MainPlaces)' /\ (tpc \in [Threads -> ThreadPlaces])'
    BY <1>0, <1>2, <1>10, JoinPlaces DEF ScanEnd
  <2>2. PThreadsTypeOK'
    BY <1>0, <1>2, <1>10 DEF ScanEnd, PThreadsTypeOK
  <2>3. RoundsInv'
    BY <1>0, <1>2, <1>10 DEF ScanEnd, PThreadsTypeOK, RoundsInv
  <2>4. OwnerInv'
    BY <1>0, <1>2, <1>10, JoinPlaces DEF ScanEnd, PThreadsTypeOK, OwnerInv,
           ThreadHolds, MainHolds, Created
  <2>5. StatesInv'
    BY <1>0, <1>2, <1>10, JoinPlaces DEF ScanEnd, PThreadsTypeOK, JoinTypeOK,
           OwnerInv, ThreadHolds, MainHolds, StatesInv, InState
  <2>6. JoinTypeOK'
    BY <1>0, <1>2, <1>10, <2>5, Counted DEF ScanEnd, JoinTypeOK, StatesInv,
           InState
  <2>7. WaitInv'
    BY <1>0, <1>2, <1>10, JoinPlaces DEF ScanEnd, PThreadsTypeOK, OwnerInv,
           ThreadHolds, MainHolds, JoinTypeOK, StatesInv, WaitInv, NoLostWakeup,
           Awaited, SignalComing
  <2> QED BY <2>1, <2>2, <2>3, <2>4, <2>5, <2>6, <2>7
<1>act. CountThreads \/ WhileLive \/ JoinTest \/ JoinWait \/ JoinRelock \/
       ScanSkip \/ ScanJoin \/ ScanEnd
  BY DEF JoinStep, Joiner
<1> QED BY <1>0, <1>1, <1>act, <1>3, <1>4, <1>5, <1>6, <1>7, <1>8, <1>9, <1>10
       DEF ThreadInv, TypeOK

\* The places of thread_incr, thread_incr_mutex, 31_01 and thread_cleanup.
LEMMA DemoPlaces ==
  ASSUME prog \in Demos, prog' = prog
  PROVE  /\ ThreadPlaces' = ThreadPlaces /\ MainPlaces' = MainPlaces
         /\ prog = "incr" => ThreadPlaces = {"new", "load", "store", "ended"}
         /\ prog = "incr_mutex" =>
               ThreadPlaces = {"new", "lock", "load", "store", "unlock", "ended"}
         /\ prog = "once" =>
               ThreadPlaces = {"new", "lock", "test", "init", "called", "unlock", "ended"}
         /\ prog = "cleanup" =>
               /\ ThreadPlaces = {"new", "alloc", "print", "lock", "test", "wait", "relock",
                                  "handler", "unlock", "ended"}
               /\ MainPlaces = {"create", "act", "signal", "join", "exit"}
         /\ prog # "cleanup" => MainPlaces = {"create", "join", "exit"}
         /\ prog \in {"incr", "incr_mutex", "once", "cleanup"}
  BY DEF ThreadPlaces, MainPlaces, Demos

\* What the steps of these programs leave alone.
LEMMA DemoKeeps ==
  ASSUME ThreadInv, prog \in Demos, UNCHANGED <<prog, prodVars, joinVars>>, mpc' # "put",
         mpc' \in {"create", "count"} => mpc \in {"create", "count"}
  PROVE  QueueInv' /\ StatesInv' /\ ProdTypeOK' /\ JoinTypeOK'
<1>1. /\ prog # "multijoin" /\ prog \notin Queues /\ prog' = prog
      /\ UNCHANGED <<units, avail, totRequired, numConsumed, done, produced>>
      /\ UNCHANGED <<state, numLive, numUnjoined, idx>>
  BY DEF Demos, Queues, prodVars, joinVars
<1>2. mpc # "put"
  BY <1>1, DemoPlaces DEF ThreadInv, TypeOK
<1>3. QueueInv'
  BY <1>1, <1>2 DEF ThreadInv, QueueInv
<1>4. StatesInv'
  BY <1>1 DEF ThreadInv, StatesInv, InState
<1>5. ProdTypeOK' /\ JoinTypeOK'
  BY <1>1 DEF ThreadInv, TypeOK, ProdTypeOK, JoinTypeOK
<1> QED BY <1>3, <1>4, <1>5

\* A thread of these programs is created or takes a step.
LEMMA DemoThreadInv ==
  ASSUME NEW t \in Threads, ThreadInv, DemoStep(DemoCreate(t)) \/ DemoStep(DemoThread(t))
  PROVE  ThreadInv'
<1> USE Ids, LoopsAssumption DEF ThreadStep, MainStep, Lock, Unlock, Relock, CondWait, CondSignal,
            syncVars, localVars, demoVars
<1>0. /\ prog \in Demos /\ prog \notin Queues /\ prog # "multijoin" /\ prog' = prog
      /\ prog # "condvar" /\ UNCHANGED <<prodVars, joinVars>> /\ mpc' # "put"
      /\ (mpc' \in {"create", "count"} => mpc \in {"create", "count"})
  BY DEF DemoStep, ThreadInv, TypeOK, Demos, Queues, ThreadStep, MainStep,
         MainPlaces, Create, DemoThread, DemoCreate, DemoLock, IncrLoad, IncrStore,
         DemoUnlock, OnceTest, OnceInit, OnceCalled, WaiterAlloc, WaiterPrint,
         WaiterTest, WaiterWait, WaiterRelock, WaiterCanceled, HandlerFree,
         HandlerUnlock
<1>1. QueueInv' /\ StatesInv' /\ ProdTypeOK' /\ JoinTypeOK'
  BY <1>0, DemoKeeps
<1>2. /\ PThreadsTypeOK /\ DemoTypeOK /\ (mpc \in MainPlaces)
                    /\ (tpc \in [Threads -> ThreadPlaces]) /\ OwnerInv /\ RoundsInv
                    /\ WaitInv /\ OnceInv /\ HandlerInv
  BY DEF ThreadInv, TypeOK
<1> DEFINE Parts == /\ PThreadsTypeOK' /\ DemoTypeOK' /\ (mpc \in MainPlaces)'
                    /\ (tpc \in [Threads -> ThreadPlaces])' /\ OwnerInv' /\ RoundsInv'
                    /\ WaitInv' /\ OnceInv' /\ HandlerInv'
<1>3. ASSUME DemoCreate(t) PROVE Parts
  <2>1. (mpc \in MainPlaces)' /\ (tpc \in [Threads -> ThreadPlaces])'
    BY <1>0, <1>2, <1>3, DemoPlaces DEF DemoCreate, Create, First, Rounds
  <2>2. PThreadsTypeOK'
    BY <1>0, <1>2, <1>3 DEF DemoCreate, Create, First, Rounds, PThreadsTypeOK,
           DemoTypeOK, RoundsInv
  <2>3. DemoTypeOK'
    BY <1>0, <1>2, <1>3 DEF DemoCreate, Create, First, Rounds, PThreadsTypeOK,
           DemoTypeOK
  <2>4. RoundsInv'
    BY <1>0, <1>2, <1>3 DEF DemoCreate, Create, First, Rounds, PThreadsTypeOK,
           RoundsInv
  <2>5. OwnerInv'
    BY <1>0, <1>2, <1>3, DemoPlaces DEF DemoCreate, Create, First, Rounds,
           PThreadsTypeOK, OwnerInv, ThreadHolds, MainHolds, Created
  <2>6. WaitInv'
    BY <1>0, <1>2, <1>3, DemoPlaces DEF DemoCreate, Create, First, Rounds,
           PThreadsTypeOK, OwnerInv, ThreadHolds, MainHolds, Created, WaitInv,
           NoLostWakeup, Awaited, SignalComing
  <2>7. OnceInv'
    BY <1>0, <1>2, <1>3, DemoPlaces DEF DemoCreate, Create, First, Rounds,
           PThreadsTypeOK, OwnerInv, ThreadHolds, OnceInv
  <2>8. HandlerInv'
    BY <1>0, <1>2, <1>3, DemoPlaces DEF DemoCreate, Create, First, Rounds,
           PThreadsTypeOK, OwnerInv, Created, HandlerInv
  <2> QED BY <2>1, <2>2, <2>3, <2>4, <2>5, <2>6, <2>7, <2>8
<1>4. ASSUME DemoLock(t) PROVE Parts
  <2>1. (mpc \in MainPlaces)' /\ (tpc \in [Threads -> ThreadPlaces])'
    BY <1>0, <1>2, <1>4, DemoPlaces DEF DemoLock
  <2>2. PThreadsTypeOK'
    BY <1>0, <1>2, <1>4 DEF DemoLock, PThreadsTypeOK, DemoTypeOK, RoundsInv
  <2>3. DemoTypeOK'
    BY <1>0, <1>2, <1>4 DEF DemoLock, PThreadsTypeOK, DemoTypeOK
  <2>4. RoundsInv'
    BY <1>0, <1>2, <1>4 DEF DemoLock, PThreadsTypeOK, RoundsInv
  <2>5. OwnerInv'
    BY <1>0, <1>2, <1>4, DemoPlaces DEF DemoLock, PThreadsTypeOK, OwnerInv,
           ThreadHolds, MainHolds, Created
  <2>6. WaitInv'
    BY <1>0, <1>2, <1>4, DemoPlaces DEF DemoLock, PThreadsTypeOK, OwnerInv,
           ThreadHolds, MainHolds, Created, WaitInv, NoLostWakeup, Awaited,
           SignalComing
  <2>7. OnceInv'
    BY <1>0, <1>2, <1>4, DemoPlaces DEF DemoLock, PThreadsTypeOK, OwnerInv,
           ThreadHolds, OnceInv
  <2>8. HandlerInv'
    BY <1>0, <1>2, <1>4, DemoPlaces DEF DemoLock, PThreadsTypeOK, OwnerInv,
           Created, HandlerInv
  <2> QED BY <2>1, <2>2, <2>3, <2>4, <2>5, <2>6, <2>7, <2>8
<1>5. ASSUME IncrLoad(t) PROVE Parts
  <2>1. (mpc \in MainPlaces)' /\ (tpc \in [Threads -> ThreadPlaces])'
    BY <1>0, <1>2, <1>5, DemoPlaces DEF IncrLoad
  <2>2. PThreadsTypeOK'
    BY <1>0, <1>2, <1>5 DEF IncrLoad, PThreadsTypeOK, DemoTypeOK, RoundsInv
  <2>3. DemoTypeOK'
    BY <1>0, <1>2, <1>5 DEF IncrLoad, PThreadsTypeOK, DemoTypeOK
  <2>4. RoundsInv'
    BY <1>0, <1>2, <1>5 DEF IncrLoad, PThreadsTypeOK, RoundsInv
  <2>5. OwnerInv'
    BY <1>0, <1>2, <1>5, DemoPlaces DEF IncrLoad, PThreadsTypeOK, OwnerInv,
           ThreadHolds, MainHolds, Created
  <2>6. WaitInv'
    BY <1>0, <1>2, <1>5, DemoPlaces DEF IncrLoad, PThreadsTypeOK, OwnerInv,
           ThreadHolds, MainHolds, Created, WaitInv, NoLostWakeup, Awaited,
           SignalComing
  <2>7. OnceInv'
    BY <1>0, <1>2, <1>5, DemoPlaces DEF IncrLoad, PThreadsTypeOK, OwnerInv,
           ThreadHolds, OnceInv
  <2>8. HandlerInv'
    BY <1>0, <1>2, <1>5, DemoPlaces DEF IncrLoad, PThreadsTypeOK, OwnerInv,
           Created, HandlerInv
  <2> QED BY <2>1, <2>2, <2>3, <2>4, <2>5, <2>6, <2>7, <2>8
<1>6. ASSUME IncrStore(t) PROVE Parts
  <2>0. /\ prog = "incr" /\ left[t] = 1 => tpc'[t] = "ended"
        /\ prog = "incr" /\ left[t] # 1 => tpc'[t] = "load"
        /\ prog # "incr" => prog = "incr_mutex" /\ tpc'[t] = "unlock"
        /\ \A u \in Threads : u # t => tpc'[u] = tpc[u]
        /\ tpc[t] = "store" /\ owner' = owner /\ mpc' = mpc
    <3>1. prog \in {"incr", "incr_mutex"}
      BY <1>0, <1>2, <1>6, DemoPlaces DEF IncrStore
    <3>2. /\ tpc[t] = "store" /\ owner' = owner /\ mpc' = mpc
          /\ \A u \in Threads : u # t => tpc'[u] = tpc[u]
      BY <1>2, <1>6 DEF IncrStore
    <3>3. ASSUME prog = "incr", left[t] = 1 PROVE tpc'[t] = "ended"
      BY <1>2, <1>6, <3>3 DEF IncrStore
    <3>4. ASSUME prog = "incr", left[t] # 1 PROVE tpc'[t] = "load"
      BY <1>2, <1>6, <3>4 DEF IncrStore
    <3>5. ASSUME prog = "incr_mutex" PROVE tpc'[t] = "unlock"
      BY <1>2, <1>6, <3>5 DEF IncrStore
    <3> QED BY <3>1, <3>2, <3>3, <3>4, <3>5
  <2>1. (mpc \in MainPlaces)' /\ (tpc \in [Threads -> ThreadPlaces])'
    BY <1>0, <1>2, <1>6, DemoPlaces DEF IncrStore
  <2>2. PThreadsTypeOK'
    BY <1>0, <1>2, <1>6 DEF IncrStore, PThreadsTypeOK, DemoTypeOK, RoundsInv
  <2>3. DemoTypeOK'
    BY <1>0, <1>2, <1>6 DEF IncrStore, PThreadsTypeOK, DemoTypeOK
  <2>4. RoundsInv'
    <3>1. /\ left \in [Threads -> Nat] /\ left[t] > 0
          /\ left' = [left EXCEPT ![t] = @ - 1]
      BY <1>2, <1>6 DEF IncrStore, PThreadsTypeOK, RoundsInv
    <3> QED BY <1>2, <2>0, <3>1 DEF RoundsInv
  <2>5. OwnerInv'
    BY <1>0, <1>2, <1>6, <2>0 DEF OwnerInv, ThreadHolds, MainHolds, Created
  <2>6. WaitInv'
    BY <1>0, <1>2, <1>6, DemoPlaces DEF IncrStore, PThreadsTypeOK, OwnerInv,
           ThreadHolds, MainHolds, Created, WaitInv, NoLostWakeup, Awaited,
           SignalComing
  <2>7. OnceInv'
    BY <1>0, <1>2, <1>6, DemoPlaces DEF IncrStore, PThreadsTypeOK, OwnerInv,
           ThreadHolds, OnceInv
  <2>8. HandlerInv'
    BY <1>0, <1>2, <1>6, DemoPlaces DEF IncrStore, PThreadsTypeOK, OwnerInv,
           Created, HandlerInv
  <2> QED BY <2>1, <2>2, <2>3, <2>4, <2>5, <2>6, <2>7, <2>8
<1>7. ASSUME DemoUnlock(t) PROVE Parts
  <2>1. (mpc \in MainPlaces)' /\ (tpc \in [Threads -> ThreadPlaces])'
    BY <1>0, <1>2, <1>7, DemoPlaces DEF DemoUnlock, NextRound
  <2>2. PThreadsTypeOK'
    BY <1>0, <1>2, <1>7 DEF DemoUnlock, NextRound, PThreadsTypeOK, DemoTypeOK,
           RoundsInv
  <2>3. DemoTypeOK'
    BY <1>0, <1>2, <1>7 DEF DemoUnlock, NextRound, PThreadsTypeOK, DemoTypeOK
  <2>4. RoundsInv'
    BY <1>0, <1>2, <1>7 DEF DemoUnlock, NextRound, PThreadsTypeOK, RoundsInv
  <2>5. OwnerInv'
    BY <1>0, <1>2, <1>7, DemoPlaces DEF DemoUnlock, NextRound, PThreadsTypeOK,
           OwnerInv, ThreadHolds, MainHolds, Created
  <2>6. WaitInv'
    BY <1>0, <1>2, <1>7, DemoPlaces DEF DemoUnlock, NextRound, PThreadsTypeOK,
           OwnerInv, ThreadHolds, MainHolds, Created, WaitInv, NoLostWakeup, Awaited,
           SignalComing
  <2>7. OnceInv'
    BY <1>0, <1>2, <1>7, DemoPlaces DEF DemoUnlock, NextRound, PThreadsTypeOK,
           OwnerInv, ThreadHolds, OnceInv
  <2>8. HandlerInv'
    BY <1>0, <1>2, <1>7, DemoPlaces DEF DemoUnlock, NextRound, PThreadsTypeOK,
           OwnerInv, Created, HandlerInv
  <2> QED BY <2>1, <2>2, <2>3, <2>4, <2>5, <2>6, <2>7, <2>8
<1>8. ASSUME OnceTest(t) PROVE Parts
  <2>1. (mpc \in MainPlaces)' /\ (tpc \in [Threads -> ThreadPlaces])'
    BY <1>0, <1>2, <1>8, DemoPlaces DEF OnceTest
  <2>2. PThreadsTypeOK'
    BY <1>0, <1>2, <1>8 DEF OnceTest, PThreadsTypeOK, DemoTypeOK, RoundsInv
  <2>3. DemoTypeOK'
    BY <1>0, <1>2, <1>8 DEF OnceTest, PThreadsTypeOK, DemoTypeOK
  <2>4. RoundsInv'
    BY <1>0, <1>2, <1>8 DEF OnceTest, PThreadsTypeOK, RoundsInv
  <2>5. OwnerInv'
    BY <1>0, <1>2, <1>8, DemoPlaces DEF OnceTest, PThreadsTypeOK, OwnerInv,
           ThreadHolds, MainHolds, Created
  <2>6. WaitInv'
    BY <1>0, <1>2, <1>8, DemoPlaces DEF OnceTest, PThreadsTypeOK, OwnerInv,
           ThreadHolds, MainHolds, Created, WaitInv, NoLostWakeup, Awaited,
           SignalComing
  <2>7. OnceInv'
    <3>1. /\ tpc'[t] = IF called THEN "unlock" ELSE "init"
          /\ tpc[t] = "test" /\ prog = "once"
          /\ \A u \in Threads : u # t => tpc'[u] = tpc[u]
          /\ UNCHANGED <<inits, called>>
      BY <1>0, <1>2, <1>8 DEF OnceTest
    <3>2. (called => inits = 1) /\ (~called => inits = 0)
      BY <1>2, <3>1 DEF OnceInv, DemoTypeOK
    <3> QED BY <1>0, <1>2, <3>1, <3>2 DEF OnceInv
  <2>8. HandlerInv'
    BY <1>0, <1>2, <1>8, DemoPlaces DEF OnceTest, PThreadsTypeOK, OwnerInv,
           Created, HandlerInv
  <2> QED BY <2>1, <2>2, <2>3, <2>4, <2>5, <2>6, <2>7, <2>8
<1>9. ASSUME OnceInit(t) PROVE Parts
  <2>1. (mpc \in MainPlaces)' /\ (tpc \in [Threads -> ThreadPlaces])'
    BY <1>0, <1>2, <1>9, DemoPlaces DEF OnceInit
  <2>2. PThreadsTypeOK'
    BY <1>0, <1>2, <1>9 DEF OnceInit, PThreadsTypeOK, DemoTypeOK, RoundsInv
  <2>3. DemoTypeOK'
    BY <1>0, <1>2, <1>9 DEF OnceInit, PThreadsTypeOK, DemoTypeOK
  <2>4. RoundsInv'
    BY <1>0, <1>2, <1>9 DEF OnceInit, PThreadsTypeOK, RoundsInv
  <2>5. OwnerInv'
    BY <1>0, <1>2, <1>9, DemoPlaces DEF OnceInit, PThreadsTypeOK, OwnerInv,
           ThreadHolds, MainHolds, Created
  <2>6. WaitInv'
    BY <1>0, <1>2, <1>9, DemoPlaces DEF OnceInit, PThreadsTypeOK, OwnerInv,
           ThreadHolds, MainHolds, Created, WaitInv, NoLostWakeup, Awaited,
           SignalComing
  <2>7. OnceInv'
    BY <1>0, <1>2, <1>9, DemoPlaces DEF OnceInit, PThreadsTypeOK, OwnerInv,
           ThreadHolds, OnceInv
  <2>8. HandlerInv'
    BY <1>0, <1>2, <1>9, DemoPlaces DEF OnceInit, PThreadsTypeOK, OwnerInv,
           Created, HandlerInv
  <2> QED BY <2>1, <2>2, <2>3, <2>4, <2>5, <2>6, <2>7, <2>8
<1>10. ASSUME OnceCalled(t) PROVE Parts
  <2>1. (mpc \in MainPlaces)' /\ (tpc \in [Threads -> ThreadPlaces])'
    BY <1>0, <1>2, <1>10, DemoPlaces DEF OnceCalled
  <2>2. PThreadsTypeOK'
    BY <1>0, <1>2, <1>10 DEF OnceCalled, PThreadsTypeOK, DemoTypeOK, RoundsInv
  <2>3. DemoTypeOK'
    BY <1>0, <1>2, <1>10 DEF OnceCalled, PThreadsTypeOK, DemoTypeOK
  <2>4. RoundsInv'
    BY <1>0, <1>2, <1>10 DEF OnceCalled, PThreadsTypeOK, RoundsInv
  <2>5. OwnerInv'
    BY <1>0, <1>2, <1>10, DemoPlaces DEF OnceCalled, PThreadsTypeOK, OwnerInv,
           ThreadHolds, MainHolds, Created
  <2>6. WaitInv'
    BY <1>0, <1>2, <1>10, DemoPlaces DEF OnceCalled, PThreadsTypeOK, OwnerInv,
           ThreadHolds, MainHolds, Created, WaitInv, NoLostWakeup, Awaited,
           SignalComing
  <2>7. OnceInv'
    BY <1>0, <1>2, <1>10, DemoPlaces DEF OnceCalled, PThreadsTypeOK, OwnerInv,
           ThreadHolds, OnceInv
  <2>8. HandlerInv'
    BY <1>0, <1>2, <1>10, DemoPlaces DEF OnceCalled, PThreadsTypeOK, OwnerInv,
           Created, HandlerInv
  <2> QED BY <2>1, <2>2, <2>3, <2>4, <2>5, <2>6, <2>7, <2>8
<1>11. ASSUME WaiterAlloc(t) PROVE Parts
  <2>1. (mpc \in MainPlaces)' /\ (tpc \in [Threads -> ThreadPlaces])'
    BY <1>0, <1>2, <1>11, DemoPlaces DEF WaiterAlloc
  <2>2. PThreadsTypeOK'
    BY <1>0, <1>2, <1>11 DEF WaiterAlloc, PThreadsTypeOK, DemoTypeOK,
           RoundsInv
  <2>3. DemoTypeOK'
    BY <1>0, <1>2, <1>11 DEF WaiterAlloc, PThreadsTypeOK, DemoTypeOK
  <2>4. RoundsInv'
    BY <1>0, <1>2, <1>11 DEF WaiterAlloc, PThreadsTypeOK, RoundsInv
  <2>5. OwnerInv'
    BY <1>0, <1>2, <1>11, DemoPlaces DEF WaiterAlloc, PThreadsTypeOK,
           OwnerInv, ThreadHolds, MainHolds, Created
  <2>6. WaitInv'
    BY <1>0, <1>2, <1>11, DemoPlaces DEF WaiterAlloc, PThreadsTypeOK,
           OwnerInv, ThreadHolds, MainHolds, Created, WaitInv, NoLostWakeup, Awaited,
           SignalComing
  <2>7. OnceInv'
    BY <1>0, <1>2, <1>11, DemoPlaces DEF WaiterAlloc, PThreadsTypeOK,
           OwnerInv, ThreadHolds, OnceInv
  <2>8. HandlerInv'
    BY <1>0, <1>2, <1>11, DemoPlaces DEF WaiterAlloc, PThreadsTypeOK,
           OwnerInv, Created, HandlerInv
  <2> QED BY <2>1, <2>2, <2>3, <2>4, <2>5, <2>6, <2>7, <2>8
<1>12. ASSUME WaiterPrint(t) PROVE Parts
  <2>1. (mpc \in MainPlaces)' /\ (tpc \in [Threads -> ThreadPlaces])'
    BY <1>0, <1>2, <1>12, DemoPlaces DEF WaiterPrint
  <2>2. PThreadsTypeOK'
    BY <1>0, <1>2, <1>12 DEF WaiterPrint, PThreadsTypeOK, DemoTypeOK,
           RoundsInv
  <2>3. DemoTypeOK'
    BY <1>0, <1>2, <1>12 DEF WaiterPrint, PThreadsTypeOK, DemoTypeOK
  <2>4. RoundsInv'
    BY <1>0, <1>2, <1>12 DEF WaiterPrint, PThreadsTypeOK, RoundsInv
  <2>5. OwnerInv'
    BY <1>0, <1>2, <1>12, DemoPlaces DEF WaiterPrint, PThreadsTypeOK,
           OwnerInv, ThreadHolds, MainHolds, Created
  <2>6. WaitInv'
    BY <1>0, <1>2, <1>12, DemoPlaces DEF WaiterPrint, PThreadsTypeOK,
           OwnerInv, ThreadHolds, MainHolds, Created, WaitInv, NoLostWakeup, Awaited,
           SignalComing
  <2>7. OnceInv'
    BY <1>0, <1>2, <1>12, DemoPlaces DEF WaiterPrint, PThreadsTypeOK,
           OwnerInv, ThreadHolds, OnceInv
  <2>8. HandlerInv'
    BY <1>0, <1>2, <1>12, DemoPlaces DEF WaiterPrint, PThreadsTypeOK,
           OwnerInv, Created, HandlerInv
  <2> QED BY <2>1, <2>2, <2>3, <2>4, <2>5, <2>6, <2>7, <2>8
<1>13. ASSUME WaiterTest(t) PROVE Parts
  <2>1. (mpc \in MainPlaces)' /\ (tpc \in [Threads -> ThreadPlaces])'
    BY <1>0, <1>2, <1>13, DemoPlaces DEF WaiterTest
  <2>2. PThreadsTypeOK'
    BY <1>0, <1>2, <1>13 DEF WaiterTest, PThreadsTypeOK, DemoTypeOK, RoundsInv
  <2>3. DemoTypeOK'
    BY <1>0, <1>2, <1>13 DEF WaiterTest, PThreadsTypeOK, DemoTypeOK
  <2>4. RoundsInv'
    BY <1>0, <1>2, <1>13 DEF WaiterTest, PThreadsTypeOK, RoundsInv
  <2>5. OwnerInv'
    BY <1>0, <1>2, <1>13, DemoPlaces DEF WaiterTest, PThreadsTypeOK, OwnerInv,
           ThreadHolds, MainHolds, Created
  <2>6. WaitInv'
    BY <1>0, <1>2, <1>13, DemoPlaces DEF WaiterTest, PThreadsTypeOK, OwnerInv,
           ThreadHolds, MainHolds, Created, WaitInv, NoLostWakeup, Awaited,
           SignalComing
  <2>7. OnceInv'
    BY <1>0, <1>2, <1>13, DemoPlaces DEF WaiterTest, PThreadsTypeOK, OwnerInv,
           ThreadHolds, OnceInv
  <2>8. HandlerInv'
    BY <1>0, <1>2, <1>13, DemoPlaces DEF WaiterTest, PThreadsTypeOK, OwnerInv,
           Created, HandlerInv
  <2> QED BY <2>1, <2>2, <2>3, <2>4, <2>5, <2>6, <2>7, <2>8
<1>14. ASSUME WaiterWait(t) PROVE Parts
  <2>1. (mpc \in MainPlaces)' /\ (tpc \in [Threads -> ThreadPlaces])'
    BY <1>0, <1>2, <1>14, DemoPlaces DEF WaiterWait
  <2>2. PThreadsTypeOK'
    BY <1>0, <1>2, <1>14 DEF WaiterWait, PThreadsTypeOK, DemoTypeOK, RoundsInv
  <2>3. DemoTypeOK'
    BY <1>0, <1>2, <1>14 DEF WaiterWait, PThreadsTypeOK, DemoTypeOK
  <2>4. RoundsInv'
    BY <1>0, <1>2, <1>14 DEF WaiterWait, PThreadsTypeOK, RoundsInv
  <2>5. OwnerInv'
    BY <1>0, <1>2, <1>14, DemoPlaces DEF WaiterWait, PThreadsTypeOK, OwnerInv,
           ThreadHolds, MainHolds, Created
  <2>6. WaitInv'
    BY <1>0, <1>2, <1>14, DemoPlaces DEF WaiterWait, PThreadsTypeOK, OwnerInv,
           ThreadHolds, MainHolds, Created, WaitInv, NoLostWakeup, Awaited,
           SignalComing
  <2>7. OnceInv'
    BY <1>0, <1>2, <1>14, DemoPlaces DEF WaiterWait, PThreadsTypeOK, OwnerInv,
           ThreadHolds, OnceInv
  <2>8. HandlerInv'
    BY <1>0, <1>2, <1>14, DemoPlaces DEF WaiterWait, PThreadsTypeOK, OwnerInv,
           Created, HandlerInv
  <2> QED BY <2>1, <2>2, <2>3, <2>4, <2>5, <2>6, <2>7, <2>8
<1>15. ASSUME WaiterRelock(t) PROVE Parts
  <2>1. (mpc \in MainPlaces)' /\ (tpc \in [Threads -> ThreadPlaces])'
    BY <1>0, <1>2, <1>15, DemoPlaces DEF WaiterRelock
  <2>2. PThreadsTypeOK'
    BY <1>0, <1>2, <1>15 DEF WaiterRelock, PThreadsTypeOK, DemoTypeOK,
           RoundsInv
  <2>3. DemoTypeOK'
    BY <1>0, <1>2, <1>15 DEF WaiterRelock, PThreadsTypeOK, DemoTypeOK
  <2>4. RoundsInv'
    BY <1>0, <1>2, <1>15 DEF WaiterRelock, PThreadsTypeOK, RoundsInv
  <2>5. OwnerInv'
    BY <1>0, <1>2, <1>15, DemoPlaces DEF WaiterRelock, PThreadsTypeOK,
           OwnerInv, ThreadHolds, MainHolds, Created
  <2>6. WaitInv'
    BY <1>0, <1>2, <1>15, DemoPlaces DEF WaiterRelock, PThreadsTypeOK,
           OwnerInv, ThreadHolds, MainHolds, Created, WaitInv, NoLostWakeup, Awaited,
           SignalComing
  <2>7. OnceInv'
    BY <1>0, <1>2, <1>15, DemoPlaces DEF WaiterRelock, PThreadsTypeOK,
           OwnerInv, ThreadHolds, OnceInv
  <2>8. HandlerInv'
    BY <1>0, <1>2, <1>15, DemoPlaces DEF WaiterRelock, PThreadsTypeOK,
           OwnerInv, Created, HandlerInv
  <2> QED BY <2>1, <2>2, <2>3, <2>4, <2>5, <2>6, <2>7, <2>8
<1>16. ASSUME WaiterCanceled(t) PROVE Parts
  <2>1. (mpc \in MainPlaces)' /\ (tpc \in [Threads -> ThreadPlaces])'
    BY <1>0, <1>2, <1>16, DemoPlaces DEF WaiterCanceled
  <2>2. PThreadsTypeOK'
    BY <1>0, <1>2, <1>16 DEF WaiterCanceled, PThreadsTypeOK, DemoTypeOK,
           RoundsInv
  <2>3. DemoTypeOK'
    BY <1>0, <1>2, <1>16 DEF WaiterCanceled, PThreadsTypeOK, DemoTypeOK
  <2>4. RoundsInv'
    BY <1>0, <1>2, <1>16 DEF WaiterCanceled, PThreadsTypeOK, RoundsInv
  <2>5. OwnerInv'
    BY <1>0, <1>2, <1>16, DemoPlaces DEF WaiterCanceled, PThreadsTypeOK,
           OwnerInv, ThreadHolds, MainHolds, Created
  <2>6. WaitInv'
    BY <1>0, <1>2, <1>16, DemoPlaces DEF WaiterCanceled, PThreadsTypeOK,
           OwnerInv, ThreadHolds, MainHolds, Created, WaitInv, NoLostWakeup, Awaited,
           SignalComing
  <2>7. OnceInv'
    BY <1>0, <1>2, <1>16, DemoPlaces DEF WaiterCanceled, PThreadsTypeOK,
           OwnerInv, ThreadHolds, OnceInv
  <2>8. HandlerInv'
    BY <1>0, <1>2, <1>16, DemoPlaces DEF WaiterCanceled, PThreadsTypeOK,
           OwnerInv, Created, HandlerInv
  <2> QED BY <2>1, <2>2, <2>3, <2>4, <2>5, <2>6, <2>7, <2>8
<1>17. ASSUME HandlerFree(t) PROVE Parts
  <2>1. (mpc \in MainPlaces)' /\ (tpc \in [Threads -> ThreadPlaces])'
    BY <1>0, <1>2, <1>17, DemoPlaces DEF HandlerFree
  <2>2. PThreadsTypeOK'
    BY <1>0, <1>2, <1>17 DEF HandlerFree, PThreadsTypeOK, DemoTypeOK,
           RoundsInv
  <2>3. DemoTypeOK'
    BY <1>0, <1>2, <1>17 DEF HandlerFree, PThreadsTypeOK, DemoTypeOK
  <2>4. RoundsInv'
    BY <1>0, <1>2, <1>17 DEF HandlerFree, PThreadsTypeOK, RoundsInv
  <2>5. OwnerInv'
    BY <1>0, <1>2, <1>17, DemoPlaces DEF HandlerFree, PThreadsTypeOK,
           OwnerInv, ThreadHolds, MainHolds, Created
  <2>6. WaitInv'
    BY <1>0, <1>2, <1>17, DemoPlaces DEF HandlerFree, PThreadsTypeOK,
           OwnerInv, ThreadHolds, MainHolds, Created, WaitInv, NoLostWakeup, Awaited,
           SignalComing
  <2>7. OnceInv'
    BY <1>0, <1>2, <1>17, DemoPlaces DEF HandlerFree, PThreadsTypeOK,
           OwnerInv, ThreadHolds, OnceInv
  <2>8. HandlerInv'
    BY <1>0, <1>2, <1>17, DemoPlaces DEF HandlerFree, PThreadsTypeOK,
           OwnerInv, Created, HandlerInv
  <2> QED BY <2>1, <2>2, <2>3, <2>4, <2>5, <2>6, <2>7, <2>8
<1>18. ASSUME HandlerUnlock(t) PROVE Parts
  <2>1. (mpc \in MainPlaces)' /\ (tpc \in [Threads -> ThreadPlaces])'
    BY <1>0, <1>2, <1>18, DemoPlaces DEF HandlerUnlock
  <2>2. PThreadsTypeOK'
    BY <1>0, <1>2, <1>18 DEF HandlerUnlock, PThreadsTypeOK, DemoTypeOK,
           RoundsInv
  <2>3. DemoTypeOK'
    BY <1>0, <1>2, <1>18 DEF HandlerUnlock, PThreadsTypeOK, DemoTypeOK
  <2>4. RoundsInv'
    BY <1>0, <1>2, <1>18 DEF HandlerUnlock, PThreadsTypeOK, RoundsInv
  <2>5. OwnerInv'
    BY <1>0, <1>2, <1>18, DemoPlaces DEF HandlerUnlock, PThreadsTypeOK,
           OwnerInv, ThreadHolds, MainHolds, Created
  <2>6. WaitInv'
    BY <1>0, <1>2, <1>18, DemoPlaces DEF HandlerUnlock, PThreadsTypeOK,
           OwnerInv, ThreadHolds, MainHolds, Created, WaitInv, NoLostWakeup, Awaited,
           SignalComing
  <2>7. OnceInv'
    BY <1>0, <1>2, <1>18, DemoPlaces DEF HandlerUnlock, PThreadsTypeOK,
           OwnerInv, ThreadHolds, OnceInv
  <2>8. HandlerInv'
    BY <1>0, <1>2, <1>18, DemoPlaces DEF HandlerUnlock, PThreadsTypeOK,
           OwnerInv, Created, HandlerInv
  <2> QED BY <2>1, <2>2, <2>3, <2>4, <2>5, <2>6, <2>7, <2>8
<1>act. DemoCreate(t) \/ DemoLock(t) \/ IncrLoad(t) \/ IncrStore(t) \/
       DemoUnlock(t) \/ OnceTest(t) \/ OnceInit(t) \/ OnceCalled(t) \/ WaiterAlloc(t)
       \/ WaiterPrint(t) \/ WaiterTest(t) \/ WaiterWait(t) \/ WaiterRelock(t) \/
       WaiterCanceled(t) \/ HandlerFree(t) \/ HandlerUnlock(t)
  BY DEF DemoStep, DemoThread
<1> QED BY <1>0, <1>1, <1>act, <1>3, <1>4, <1>5, <1>6, <1>7, <1>8, <1>9,
       <1>10, <1>11, <1>12, <1>13, <1>14, <1>15, <1>16, <1>17, <1>18 DEF ThreadInv,
       TypeOK

\* main of these programs takes a step.
LEMMA DemoMainInv ==
  ASSUME ThreadInv, DemoStep(DemoMain)
  PROVE  ThreadInv'
<1> USE Ids, LoopsAssumption DEF ThreadStep, MainStep, Lock, Unlock, Relock, CondWait, CondSignal,
            syncVars, localVars, demoVars
<1>0. /\ prog \in Demos /\ prog \notin Queues /\ prog # "multijoin" /\ prog' = prog
      /\ prog # "condvar" /\ UNCHANGED <<prodVars, joinVars>> /\ mpc' # "put"
      /\ (mpc' \in {"create", "count"} => mpc \in {"create", "count"})
  BY DEF DemoStep, ThreadInv, TypeOK, Demos, Queues, ThreadStep, MainStep,
         MainPlaces, Create, DemoMain, DemoJoin, CancelThread, SetGlob, SignalThread
<1>1. QueueInv' /\ StatesInv' /\ ProdTypeOK' /\ JoinTypeOK'
  BY <1>0, DemoKeeps
<1>2. /\ PThreadsTypeOK /\ DemoTypeOK /\ (mpc \in MainPlaces)
                    /\ (tpc \in [Threads -> ThreadPlaces]) /\ OwnerInv /\ RoundsInv
                    /\ WaitInv /\ OnceInv /\ HandlerInv
  BY DEF ThreadInv, TypeOK
<1> DEFINE Parts == /\ PThreadsTypeOK' /\ DemoTypeOK' /\ (mpc \in MainPlaces)'
                    /\ (tpc \in [Threads -> ThreadPlaces])' /\ OwnerInv' /\ RoundsInv'
                    /\ WaitInv' /\ OnceInv' /\ HandlerInv'
<1>3. ASSUME DemoJoin PROVE Parts
  <2>1. (mpc \in MainPlaces)' /\ (tpc \in [Threads -> ThreadPlaces])'
    BY <1>0, <1>2, <1>3, DemoPlaces DEF DemoJoin
  <2>2. PThreadsTypeOK'
    BY <1>0, <1>2, <1>3 DEF DemoJoin, PThreadsTypeOK, DemoTypeOK, RoundsInv
  <2>3. DemoTypeOK'
    BY <1>0, <1>2, <1>3 DEF DemoJoin, PThreadsTypeOK, DemoTypeOK
  <2>4. RoundsInv'
    BY <1>0, <1>2, <1>3 DEF DemoJoin, PThreadsTypeOK, RoundsInv
  <2>5. OwnerInv'
    BY <1>0, <1>2, <1>3, DemoPlaces DEF DemoJoin, PThreadsTypeOK, OwnerInv,
           ThreadHolds, MainHolds, Created
  <2>6. WaitInv'
    BY <1>0, <1>2, <1>3, DemoPlaces DEF DemoJoin, PThreadsTypeOK, OwnerInv,
           ThreadHolds, MainHolds, Created, WaitInv, NoLostWakeup, Awaited,
           SignalComing
  <2>7. OnceInv'
    BY <1>0, <1>2, <1>3, DemoPlaces DEF DemoJoin, PThreadsTypeOK, OwnerInv,
           ThreadHolds, OnceInv
  <2>8. HandlerInv'
    BY <1>0, <1>2, <1>3, DemoPlaces DEF DemoJoin, PThreadsTypeOK, OwnerInv,
           Created, HandlerInv
  <2> QED BY <2>1, <2>2, <2>3, <2>4, <2>5, <2>6, <2>7, <2>8
<1>4. ASSUME CancelThread PROVE Parts
  <2>1. (mpc \in MainPlaces)' /\ (tpc \in [Threads -> ThreadPlaces])'
    BY <1>0, <1>2, <1>4, DemoPlaces DEF CancelThread
  <2>2. PThreadsTypeOK'
    BY <1>0, <1>2, <1>4 DEF CancelThread, PThreadsTypeOK, DemoTypeOK,
           RoundsInv
  <2>3. DemoTypeOK'
    BY <1>0, <1>2, <1>4 DEF CancelThread, PThreadsTypeOK, DemoTypeOK
  <2>4. RoundsInv'
    BY <1>0, <1>2, <1>4 DEF CancelThread, PThreadsTypeOK, RoundsInv
  <2>5. OwnerInv'
    BY <1>0, <1>2, <1>4, DemoPlaces DEF CancelThread, PThreadsTypeOK,
           OwnerInv, ThreadHolds, MainHolds, Created
  <2>6. WaitInv'
    BY <1>0, <1>2, <1>4, DemoPlaces DEF CancelThread, PThreadsTypeOK,
           OwnerInv, ThreadHolds, MainHolds, Created, WaitInv, NoLostWakeup, Awaited,
           SignalComing
  <2>7. OnceInv'
    BY <1>0, <1>2, <1>4, DemoPlaces DEF CancelThread, PThreadsTypeOK,
           OwnerInv, ThreadHolds, OnceInv
  <2>8. HandlerInv'
    BY <1>0, <1>2, <1>4, DemoPlaces DEF CancelThread, PThreadsTypeOK,
           OwnerInv, Created, HandlerInv
  <2> QED BY <2>1, <2>2, <2>3, <2>4, <2>5, <2>6, <2>7, <2>8
<1>5. ASSUME SetGlob PROVE Parts
  <2>1. (mpc \in MainPlaces)' /\ (tpc \in [Threads -> ThreadPlaces])'
    BY <1>0, <1>2, <1>5, DemoPlaces DEF SetGlob
  <2>2. PThreadsTypeOK'
    BY <1>0, <1>2, <1>5 DEF SetGlob, PThreadsTypeOK, DemoTypeOK, RoundsInv
  <2>3. DemoTypeOK'
    BY <1>0, <1>2, <1>5 DEF SetGlob, PThreadsTypeOK, DemoTypeOK
  <2>4. RoundsInv'
    BY <1>0, <1>2, <1>5 DEF SetGlob, PThreadsTypeOK, RoundsInv
  <2>5. OwnerInv'
    BY <1>0, <1>2, <1>5, DemoPlaces DEF SetGlob, PThreadsTypeOK, OwnerInv,
           ThreadHolds, MainHolds, Created
  <2>6. WaitInv'
    BY <1>0, <1>2, <1>5, DemoPlaces DEF SetGlob, PThreadsTypeOK, OwnerInv,
           ThreadHolds, MainHolds, Created, WaitInv, NoLostWakeup, Awaited,
           SignalComing
  <2>7. OnceInv'
    BY <1>0, <1>2, <1>5, DemoPlaces DEF SetGlob, PThreadsTypeOK, OwnerInv,
           ThreadHolds, OnceInv
  <2>8. HandlerInv'
    BY <1>0, <1>2, <1>5, DemoPlaces DEF SetGlob, PThreadsTypeOK, OwnerInv,
           Created, HandlerInv
  <2> QED BY <2>1, <2>2, <2>3, <2>4, <2>5, <2>6, <2>7, <2>8
<1>6. ASSUME SignalThread PROVE Parts
  <2>1. (mpc \in MainPlaces)' /\ (tpc \in [Threads -> ThreadPlaces])'
    BY <1>0, <1>2, <1>6, DemoPlaces DEF SignalThread
  <2>2. PThreadsTypeOK'
    BY <1>0, <1>2, <1>6 DEF SignalThread, PThreadsTypeOK, DemoTypeOK,
           RoundsInv
  <2>3. DemoTypeOK'
    BY <1>0, <1>2, <1>6 DEF SignalThread, PThreadsTypeOK, DemoTypeOK
  <2>4. RoundsInv'
    BY <1>0, <1>2, <1>6 DEF SignalThread, PThreadsTypeOK, RoundsInv
  <2>5. OwnerInv'
    BY <1>0, <1>2, <1>6, DemoPlaces DEF SignalThread, PThreadsTypeOK,
           OwnerInv, ThreadHolds, MainHolds, Created
  <2>6. WaitInv'
    <3>1. prog = "cleanup" /\ waiting' = {}
      BY <1>0, <1>2, <1>6, DemoPlaces DEF SignalThread, WaitInv
    <3>2. tpc' = tpc /\ (tpc[1] = "wait" => raced')
      BY <1>6 DEF SignalThread
    <3> QED BY <1>0, <3>1, <3>2 DEF WaitInv, NoLostWakeup
  <2>7. OnceInv'
    BY <1>0, <1>2, <1>6, DemoPlaces DEF SignalThread, PThreadsTypeOK,
           OwnerInv, ThreadHolds, OnceInv
  <2>8. HandlerInv'
    BY <1>0, <1>2, <1>6, DemoPlaces DEF SignalThread, PThreadsTypeOK,
           OwnerInv, Created, HandlerInv
  <2> QED BY <2>1, <2>2, <2>3, <2>4, <2>5, <2>6, <2>7, <2>8
<1>act. DemoJoin \/ CancelThread \/ SetGlob \/ SignalThread
  BY DEF DemoStep, DemoMain
<1> QED BY <1>0, <1>1, <1>act, <1>3, <1>4, <1>5, <1>6 DEF ThreadInv, TypeOK

\* Initially.
LEMMA InitInv == Init => ThreadInv
<1> SUFFICES ASSUME Init PROVE ThreadInv
  OBVIOUS
<1> USE Ids, PThreadsAssumption, UnitsAssumption
    DEF Init, PThreadsInit, ProdInit, JoinInit, DemoInit
<1>1. TypeOK
  <2>1. PThreadsTypeOK
    BY DEF PThreadsTypeOK
  <2>2. ProdTypeOK
    <3>1. (IF prog \in Queues THEN 0 .. MaxUnits ELSE {0}) \subseteq 0 .. MaxUnits
      OBVIOUS
    <3>2. units \in [Threads -> 0 .. MaxUnits]
      BY <3>1
    <3> QED BY <3>2 DEF ProdTypeOK
  <2>3. JoinTypeOK
    BY DEF JoinTypeOK
  <2>4. DemoTypeOK
    BY DEF DemoTypeOK
  <2>5. prog \in ProgramNames
    OBVIOUS
  <2>6. "create" \in MainPlaces /\ "new" \in ThreadPlaces
    BY <2>5 DEF MainPlaces, ThreadPlaces, ProgramNames
  <2> QED BY <2>1, <2>2, <2>3, <2>4, <2>6 DEF TypeOK
<1>2. OwnerInv /\ RoundsInv
  BY DEF OwnerInv, ThreadHolds, MainHolds, RoundsInv
<1>3. QueueInv /\ WaitInv /\ HandlerInv
  BY DEF QueueInv, WaitInv, NoLostWakeup, HandlerInv
<1>4. OnceInv
  BY DEF OnceInv
<1>5. StatesInv
  <2>1. InState("terminated") = {} /\ InState("joined") = {}
    BY DEF InState
  <2>2. Cardinality({}) = 0
    BY Counted, Zenon
  <2> QED BY <2>1, <2>2 DEF StatesInv
<1> QED BY <1>1, <1>2, <1>3, <1>4, <1>5 DEF ThreadInv

\* A wait returns without a signal: the waiter looks again.
LEMMA SpuriousInv ==
  ASSUME ThreadInv, Spurious, UNCHANGED <<prodVars, joinVars, demoVars>>
  PROVE  ThreadInv'
<1>1. /\ waiting' \subseteq waiting /\ spurious' \in 0 .. MaxSpurious
      /\ UNCHANGED <<prog, owner, mpc, tpc, loc, left>>
  BY PThreadsAssumption DEF Spurious, placeVars, localVars, ThreadInv, TypeOK, PThreadsTypeOK
<1>2. TypeOK'
  BY ZenonT(60), <1>1 DEF ThreadInv, TypeOK, PThreadsTypeOK, ProdTypeOK, JoinTypeOK, DemoTypeOK,
              MainPlaces, ThreadPlaces, prodVars, joinVars, demoVars
<1>3. OwnerInv' /\ RoundsInv'
  BY <1>1 DEF ThreadInv, OwnerInv, ThreadHolds, MainHolds, Created, RoundsInv
<1>4. QueueInv' /\ StatesInv'
  BY <1>1 DEF ThreadInv, QueueInv, StatesInv, InState, prodVars, joinVars
<1>5. OnceInv' /\ HandlerInv'
  BY <1>1 DEF ThreadInv, OnceInv, HandlerInv, demoVars
<1>6. WaitInv'
  BY <1>1 DEF ThreadInv, WaitInv, NoLostWakeup, Awaited, SignalComing, prodVars, joinVars,
              demoVars
<1> QED BY <1>2, <1>3, <1>4, <1>5, <1>6 DEF ThreadInv

\* The variables may all keep their values.
LEMMA UnchangedInv == ASSUME ThreadInv, UNCHANGED vars PROVE ThreadInv'
<1>1. /\ UNCHANGED <<prog, owner, waiting, mpc, tpc, loc, left, spurious>>
      /\ UNCHANGED <<prodVars, joinVars, demoVars>>
  BY DEF vars, pthreadVars, syncVars, placeVars, localVars
<1>2. TypeOK'
  BY ZenonT(60), <1>1 DEF ThreadInv, TypeOK, PThreadsTypeOK, ProdTypeOK, JoinTypeOK, DemoTypeOK,
              MainPlaces, ThreadPlaces, prodVars, joinVars, demoVars
<1>3. OwnerInv' /\ RoundsInv'
  BY <1>1 DEF ThreadInv, OwnerInv, ThreadHolds, MainHolds, Created, RoundsInv
<1>4. QueueInv' /\ StatesInv'
  BY <1>1 DEF ThreadInv, QueueInv, StatesInv, InState, prodVars, joinVars
<1>5. OnceInv' /\ HandlerInv'
  BY <1>1 DEF ThreadInv, OnceInv, HandlerInv, demoVars
<1>6. WaitInv'
  BY <1>1 DEF ThreadInv, WaitInv, NoLostWakeup, Awaited, SignalComing, prodVars, joinVars,
              demoVars
<1> QED BY <1>2, <1>3, <1>4, <1>5, <1>6 DEF ThreadInv

\* Every step of every program.
LEMMA NextInv == ASSUME ThreadInv, [Next]_vars PROVE ThreadInv'
<1>1. ASSUME NEW t \in Threads, Thread(t) PROVE ThreadInv'
  BY <1>1, ProducerInv, DyingInv, DemoThreadInv DEF Thread
<1>2. CASE MainThread
  BY <1>2, ProducerInv, DyingInv, DemoThreadInv, ConsumerInv, JoinerInv, DemoMainInv
     DEF MainThread
<1>3. CASE Spurious /\ UNCHANGED <<prodVars, joinVars, demoVars>>
  BY <1>3, SpuriousInv
<1>4. CASE UNCHANGED vars
  BY <1>4, UnchangedInv
<1> QED BY <1>1, <1>2, <1>3, <1>4 DEF Next

\* The invariant holds in every program, for any number of threads.
THEOREM ThreadInvAlways == Spec => []ThreadInv
<1>1. Init => ThreadInv
  BY InitInv
<1>2. ThreadInv /\ [Next]_vars => ThreadInv'
  BY NextInv
<1> QED BY <1>1, <1>2, PTL DEF Spec

\* Every variable keeps its type.
THEOREM TypeCorrect == Spec => []TypeOK
<1>1. ThreadInv => TypeOK
  BY DEF ThreadInv
<1> QED BY <1>1, ThreadInvAlways, PTL

\* No increment or decrement of avail is lost: producers and the consumer
\* change it only with the mutex.
THEOREM UnitsCorrect == Spec => []UnitsConserved
<1>1. ThreadInv => UnitsConserved
  BY Ids DEF ThreadInv, OwnerInv, MainHolds, QueueInv, UnitsConserved
<1> QED BY <1>1, ThreadInvAlways, PTL

\* Nobody sleeps on a true condition without a signal to come, whatever the
\* order of unlock, signal, test and wait (thread_cleanup apart, see raced).
THEOREM WakeupCorrect == Spec => []NoLostWakeup
<1>1. ThreadInv => NoLostWakeup
  BY DEF ThreadInv, WaitInv
<1> QED BY <1>1, ThreadInvAlways, PTL

\* thread_multijoin's counters agree with its states, and it has joined every
\* thread, each after its return, when it exits.
THEOREM JoinsCorrect == Spec => []JoinsCounted
<1>1. ASSUME ThreadInv, prog = "multijoin", mpc = "exit"
      PROVE  /\ InState("joined") = {t \in Threads : tpc[t] = "ended"}
             /\ InState("joined") = Threads
  <2>1. InState("joined") = Threads
    BY <1>1 DEF ThreadInv, StatesInv
  <2>2. \A t \in Threads : tpc[t] = "ended"
    BY <1>1, <2>1 DEF ThreadInv, StatesInv, InState
  <2> QED BY <2>1, <2>2
<1>2. ThreadInv => JoinsCounted
  BY <1>1 DEF ThreadInv, StatesInv, JoinsCounted
<1> QED BY <1>2, ThreadInvAlways, PTL

\* one_time_init runs init once and no call returns before it has run.
THEOREM OnceCorrect == Spec => []InitOnce
<1>1. ThreadInv => InitOnce
  BY DEF ThreadInv, OnceInv, InitOnce
<1> QED BY <1>1, ThreadInvAlways, PTL

\* The thread of thread_cleanup leaves the mutex free and its block freed, or
\* lost if it was cancelled before it had pushed its handler.
THEOREM CleanupCorrect == Spec => []CleanupLeavesFree
<1>1. ASSUME ThreadInv, prog = "cleanup", tpc[1] = "ended"
      PROVE  owner = Nobody
  <2>1. mpc \in {"create", "act", "signal", "join", "exit"}
    BY <1>1, DemoPlaces DEF ThreadInv, TypeOK, MainPlaces
  <2>2. owner # Main /\ \A t \in Threads : owner # t
    BY <1>1, <2>1 DEF ThreadInv, OwnerInv, ThreadHolds, MainHolds, Created
  <2> QED BY <1>1, <2>2 DEF ThreadInv, TypeOK, PThreadsTypeOK
<1>2. ThreadInv => CleanupLeavesFree
  BY <1>1 DEF ThreadInv, HandlerInv, CleanupLeavesFree
<1> QED BY <1>2, ThreadInvAlways, PTL

----------------------------------------------------------------------------
(* The totals: what the consumer of prod_condvar and prod_no_condvar has   *)
(* consumed when it exits.                                                 *)

\* The program stays the same.
LEMMA ProgFixed == ASSUME [Next]_vars PROVE prog' = prog
<1> USE DEF ThreadStep, MainStep, Create
<1>1. ASSUME NEW t \in Threads, Producer(t) \/ ProdCreate(t) PROVE prog' = prog
  BY <1>1 DEF Producer, ProdCreate, ProdLock, ProdLoad, ProdStore, ProdUnlock, ProdSignal
<1>2. ASSUME NEW t \in Threads, Dying(t) \/ JoinCreate(t) PROVE prog' = prog
  BY <1>2 DEF Dying, JoinCreate, DyingLock, DyingReport, DyingUnlock, DyingSignal
<1>3. ASSUME NEW t \in Threads, DemoThread(t) \/ DemoCreate(t) PROVE prog' = prog
  BY <1>3 DEF DemoThread, DemoCreate, DemoLock, IncrLoad, IncrStore, DemoUnlock, OnceTest,
              OnceInit, OnceCalled, WaiterAlloc, WaiterPrint, WaiterTest, WaiterWait,
              WaiterRelock, WaiterCanceled, HandlerFree, HandlerUnlock
<1>4. ASSUME Consumer \/ Joiner \/ DemoMain PROVE prog' = prog
  BY <1>4 DEF Consumer, ConsLock, ConsTest, ConsWait, ConsRelock, ConsTake, ConsPut, ConsUnlock,
              Joiner, CountThreads, WhileLive, JoinTest, JoinWait, JoinRelock, ScanSkip,
              ScanJoin, ScanEnd, DemoMain, DemoJoin, CancelThread, SetGlob, SignalThread
<1>5. ASSUME Spurious \/ UNCHANGED vars PROVE prog' = prog
  BY <1>5 DEF Spurious, vars, pthreadVars
<1> QED BY <1>1, <1>2, <1>3, <1>4, <1>5
        DEF Next, Thread, MainThread, QueueStep, JoinStep, DemoStep

\* The units still to be produced, unit k of thread t as <<t, k>>: as many as
\* the rounds left add up to.
ToProduce == {p \in Threads \X (1 .. MaxUnits) : p[2] <= left[p[1]]}

\* Main adds an argument to its total before that thread can produce, and it
\* is done only when the total, by then complete, has been consumed.
TotalsInv == prog \in Queues =>
               /\ \A t \in Threads : /\ left[t] <= MaxUnits
                                     /\ tpc[t] = "new" => left[t] = 0
               /\ Cardinality(ToProduce) + produced = totRequired
               /\ done => mpc # "create" /\ numConsumed >= totRequired
               /\ mpc = "exit" => done /\ avail = 0

\* The units of the threads other than t, and those of t.
LEMMA UnitsFinite == /\ IsFiniteSet(ToProduce) /\ Cardinality(ToProduce) \in Nat
                     /\ Cardinality(ToProduce) = 0 => ToProduce = {}
<1>1. IsFiniteSet(Threads) /\ IsFiniteSet(1 .. MaxUnits)
  BY FS_Interval, PThreadsAssumption, UnitsAssumption DEF Threads
<1>2. IsFiniteSet(Threads \X (1 .. MaxUnits))
  BY <1>1, FS_Product
<1>3. IsFiniteSet(ToProduce)
  BY <1>2, FS_Subset DEF ToProduce
<1> QED BY <1>3, FS_CardinalityType, FS_EmptySet

\* A thread starts with n units to produce.
LEMMA UnitsAdded ==
  ASSUME NEW t \in Threads, NEW n \in 0 .. MaxUnits, left \in [Threads -> Nat],
         left[t] = 0, left' = [left EXCEPT ![t] = n]
  PROVE  Cardinality(ToProduce)' = Cardinality(ToProduce) + n
<1> DEFINE new == {t} \X (1 .. n)
<1>1. ToProduce' = ToProduce \cup new
  <2>1. ASSUME NEW p PROVE p \in ToProduce' <=> p \in ToProduce \cup new
    <3>1. CASE p \in Threads \X (1 .. MaxUnits)
      <4>1. CASE p[1] = t
        BY <3>1, <4>1, UnitsAssumption DEF ToProduce
      <4>2. CASE p[1] # t
        BY <3>1, <4>2 DEF ToProduce
      <4> QED BY <4>1, <4>2
    <3>2. CASE p \notin Threads \X (1 .. MaxUnits)
      BY <3>2, UnitsAssumption DEF ToProduce
    <3> QED BY <3>1, <3>2
  <2> QED BY <2>1
<1>2. ToProduce \cap new = {}
  BY DEF ToProduce
<1>3. IsFiniteSet(new) /\ Cardinality(new) = n
  <2>1. IsFiniteSet({t}) /\ Cardinality({t}) = 1
    BY FS_Singleton
  <2>2. IsFiniteSet(1 .. n) /\ Cardinality(1 .. n) = n
    BY FS_Interval
  <2>3. IsFiniteSet(new) /\ Cardinality(new) = 1 * n
    BY <2>1, <2>2, FS_Product
  <2> QED BY <2>3
<1> HIDE DEF new
<1>4. Cardinality(ToProduce \cup new)
        = Cardinality(ToProduce) + Cardinality(new) - Cardinality(ToProduce \cap new)
  BY <1>3, UnitsFinite, FS_Union
<1> QED BY <1>1, <1>2, <1>3, <1>4, UnitsFinite, FS_EmptySet

\* A thread has produced a unit.
LEMMA UnitTaken ==
  ASSUME NEW t \in Threads, left \in [Threads -> Nat], left[t] \in 1 .. MaxUnits,
         left' = [left EXCEPT ![t] = @ - 1]
  PROVE  Cardinality(ToProduce)' = Cardinality(ToProduce) - 1
<1>1. ToProduce' = ToProduce \ {<<t, left[t]>>}
  <2>1. ASSUME NEW p PROVE p \in ToProduce' <=> p \in ToProduce \ {<<t, left[t]>>}
    <3>1. CASE p \in Threads \X (1 .. MaxUnits)
      <4>1. CASE p[1] = t
        BY <3>1, <4>1, UnitsAssumption DEF ToProduce
      <4>2. CASE p[1] # t
        BY <3>1, <4>2 DEF ToProduce
      <4> QED BY <4>1, <4>2
    <3>2. CASE p \notin Threads \X (1 .. MaxUnits)
      BY <3>2 DEF ToProduce
    <3> QED BY <3>1, <3>2
  <2> QED BY <2>1
<1>2. <<t, left[t]>> \in ToProduce
  BY DEF ToProduce
<1> QED BY <1>1, <1>2, UnitsFinite, FS_RemoveElement

\* The same units are to be produced as long as left is the same.
LEMMA UnitsSame == ASSUME left' = left PROVE Cardinality(ToProduce)' = Cardinality(ToProduce)
  BY DEF ToProduce

\* The steps of the queue programs.
LEMMA TotalsStep ==
  ASSUME ThreadInv, TotalsInv, prog \in Queues, [Next]_vars
  PROVE  TotalsInv'
<1>1. /\ PThreadsTypeOK /\ ProdTypeOK /\ QueueInv /\ OwnerInv /\ RoundsInv
      /\ tpc \in [Threads -> ThreadPlaces]
  BY DEF ThreadInv, TypeOK
<1>2. /\ left \in [Threads -> Nat] /\ units \in [Threads -> 0 .. MaxUnits]
      /\ avail \in Nat /\ totRequired \in Nat /\ numConsumed \in Nat /\ produced \in Nat
      /\ done \in BOOLEAN /\ MaxUnits \in Nat
  BY <1>1, UnitsAssumption DEF PThreadsTypeOK, ProdTypeOK
<1>3. /\ \A t \in Threads : left[t] <= MaxUnits /\ (tpc[t] = "new" => left[t] = 0)
      /\ Cardinality(ToProduce) + produced = totRequired
      /\ done => mpc # "create" /\ numConsumed >= totRequired
      /\ mpc = "exit" => done /\ avail = 0
  BY DEF TotalsInv
<1>4. ASSUME prog' = prog, UNCHANGED <<left, totRequired, produced>>,
             numConsumed' \in Nat /\ numConsumed' >= numConsumed,
             done' => done \/ numConsumed' >= totRequired,
             mpc = "create" => mpc' = "create" /\ done' = done,
             mpc # "create" => mpc' # "create",
             mpc' = "exit" => done' /\ avail' = 0,
             \A t \in Threads : tpc'[t] = "new" => tpc[t] = "new"
      PROVE  TotalsInv'
  <2>1. ASSUME done' PROVE mpc' # "create" /\ numConsumed' >= totRequired'
    <3>1. totRequired' = totRequired
      BY <1>4
    <3>2. CASE mpc = "create"
      BY <1>3, <1>4, <2>1, <3>2, Zenon
    <3>3. CASE mpc # "create" /\ done
      <4>1. numConsumed >= totRequired
        BY <1>3, <3>3
      <4>2. mpc' # "create" /\ numConsumed' \in Nat /\ numConsumed' >= numConsumed
        BY <1>4, <3>3
      <4> HIDE <1>4
      <4> QED BY <1>2, <3>1, <4>1, <4>2
    <3>4. CASE mpc # "create" /\ numConsumed' >= totRequired
      BY <1>4, <3>1, <3>4
    <3> QED BY <1>4, <2>1, <3>2, <3>3, <3>4, Zenon
  <2>2. \A t \in Threads : left'[t] <= MaxUnits /\ (tpc'[t] = "new" => left'[t] = 0)
    BY <1>3, <1>4
  <2> QED BY <1>3, <1>4, <2>1, <2>2, UnitsSame DEF TotalsInv
<1>5. ASSUME NEW t \in Threads, ProdCreate(t) PROVE TotalsInv'
  <2>1. /\ left[t] = 0 /\ left' = [left EXCEPT ![t] = units[t]]
        /\ totRequired' = totRequired + units[t] /\ units[t] \in 0 .. MaxUnits
        /\ UNCHANGED <<avail, numConsumed, done, produced>> /\ mpc = "create"
        /\ mpc' # "exit" /\ tpc'[t] # "new"
        /\ \A u \in Threads \ {t} : tpc'[u] = tpc[u]
    BY <1>1, <1>2, <1>3, <1>5 DEF ProdCreate, Create
  <2>2. Cardinality(ToProduce)' = Cardinality(ToProduce) + units[t]
    BY <1>2, <2>1, UnitsAdded
  <2> QED BY <1>2, <1>3, <2>1, <2>2, UnitsFinite DEF TotalsInv
<1>6. ASSUME NEW t \in Threads, ProdStore(t), mpc # "exit" PROVE TotalsInv'
  <2>1. /\ left' = [left EXCEPT ![t] = @ - 1] /\ produced' = produced + 1
        /\ UNCHANGED <<totRequired, numConsumed, done, mpc>>
        /\ left[t] \in 1 .. MaxUnits
    BY <1>1, <1>2, <1>3, <1>6 DEF ProdStore, ThreadStep, RoundsInv
  <2>2. Cardinality(ToProduce)' = Cardinality(ToProduce) - 1
    BY <1>2, <2>1, UnitTaken
  <2>3. \A u \in Threads : tpc'[u] = "new" => tpc[u] = "new" /\ u # t
    BY <1>1, <1>6 DEF ProdStore, ThreadStep
  <2> QED BY <1>2, <1>3, <1>6, <2>1, <2>2, <2>3, UnitsFinite DEF TotalsInv
<1>7. ASSUME NEW t \in Threads, ProdLock(t) \/ ProdLoad(t) \/ ProdUnlock(t) \/ ProdSignal(t),
             mpc # "exit"
      PROVE  TotalsInv'
  <2>1. prog' = prog /\ UNCHANGED <<mpc, left, totRequired, numConsumed, produced, done>>
    BY <1>7 DEF ProdLock, ProdLoad, ProdUnlock, ProdSignal, ThreadStep, localVars, prodVars
  <2>2. \E b : b # "new" /\ tpc' = [tpc EXCEPT ![t] = b]
    BY <1>7 DEF ProdLock, ProdLoad, ProdUnlock, ProdSignal, ThreadStep, NextRound
  <2>3. \A u \in Threads : tpc'[u] = "new" => tpc[u] = "new"
    BY <1>1, <2>2
  <2> QED BY <1>2, <1>4, <1>7, <2>1, <2>3
<1>8. ASSUME Consumer PROVE TotalsInv'
  <2>1. prog' = prog /\ UNCHANGED <<tpc, left, totRequired, produced>>
        /\ mpc # "create" /\ mpc' # "create"
    BY <1>8 DEF Consumer, ConsLock, ConsTest, ConsWait, ConsRelock, ConsTake, ConsPut,
                ConsUnlock, MainStep, localVars, prodVars
  <2>2. numConsumed' = numConsumed \/ numConsumed' = numConsumed + 1
    BY <1>8 DEF Consumer, ConsLock, ConsTest, ConsWait, ConsRelock, ConsTake, ConsPut,
                ConsUnlock, prodVars
  <2>3. done' = done \/ (done' = (numConsumed >= totRequired) /\ numConsumed' = numConsumed)
    BY <1>8 DEF Consumer, ConsLock, ConsTest, ConsWait, ConsRelock, ConsTake, ConsPut,
                ConsUnlock, prodVars
  <2>4. mpc' = "exit" => done' /\ avail' = 0
    BY <1>2, <1>8 DEF Consumer, ConsLock, ConsTest, ConsWait, ConsRelock, ConsTake, ConsPut,
                ConsUnlock, MainStep, prodVars
  <2>5. done' => done \/ numConsumed' >= totRequired
    BY <1>2, <2>3
  <2> QED BY <1>2, <1>4, <2>1, <2>2, <2>4, <2>5
<1>9. ASSUME (Spurious /\ UNCHANGED <<prodVars, joinVars, demoVars>>) \/ UNCHANGED vars
      PROVE  TotalsInv'
  <2>1. UNCHANGED <<prog, mpc, tpc, left, avail, totRequired, numConsumed, produced, done>>
    BY <1>9 DEF Spurious, vars, pthreadVars, placeVars, localVars, prodVars
  <2> QED BY <1>2, <1>3, <1>4, <2>1
<1>10. prog # "multijoin" /\ prog \notin Demos
  BY DEF Queues, Demos
<1> QED BY <1>5, <1>6, <1>7, <1>8, <1>9, <1>10
        DEF Next, Thread, MainThread, QueueStep, JoinStep, DemoStep, Producer

\* The steps of the other programs, in which there is nothing to show.
LEMMA TotalsInvNext == ASSUME ThreadInv, TotalsInv, [Next]_vars PROVE TotalsInv'
<1>1. CASE prog \in Queues
  BY <1>1, TotalsStep
<1>2. CASE prog \notin Queues
  BY <1>2, ProgFixed DEF TotalsInv
<1> QED BY <1>1, <1>2

\* ToProduce is empty in the beginning.
LEMMA TotalsInit == Init => TotalsInv
<1> SUFFICES ASSUME Init PROVE TotalsInv
  OBVIOUS
<1>1. ToProduce = {}
  BY DEF Init, PThreadsInit, ToProduce
<1>2. Cardinality({}) = 0
  BY FS_EmptySet
<1> QED BY <1>1, <1>2, UnitsAssumption DEF Init, PThreadsInit, ProdInit, TotalsInv

\* The consumer exits when all that will ever be produced has been produced
\* and consumed.
THEOREM ConsumedCorrect == Spec => []ConsumedAtExit
<1>1. Init => ThreadInv /\ TotalsInv
  BY InitInv, TotalsInit
<1>2. (ThreadInv /\ TotalsInv) /\ [Next]_vars => (ThreadInv /\ TotalsInv)'
  BY NextInv, TotalsInvNext
<1>3. ThreadInv /\ TotalsInv => ConsumedAtExit
  <2> SUFFICES ASSUME ThreadInv, TotalsInv, prog \in Queues, mpc = "exit"
               PROVE  /\ avail = 0 /\ numConsumed = produced
                      /\ \A t \in Threads : left[t] = 0
    BY DEF ConsumedAtExit
  <2>1. /\ avail = 0 /\ numConsumed >= totRequired
        /\ Cardinality(ToProduce) + produced = totRequired
        /\ \A t \in Threads : left[t] <= MaxUnits
    BY DEF TotalsInv
  <2>2. /\ avail \in Nat /\ totRequired \in Nat /\ numConsumed \in Nat /\ produced \in Nat
        /\ left \in [Threads -> Nat] /\ MaxUnits \in Nat
    BY UnitsAssumption DEF ThreadInv, TypeOK, PThreadsTypeOK, ProdTypeOK
  <2>3. numConsumed + avail = produced
    BY DEF ThreadInv, QueueInv
  <2>4. numConsumed = produced /\ Cardinality(ToProduce) = 0
    BY <2>1, <2>2, <2>3, UnitsFinite
  <2>5. ASSUME NEW t \in Threads, left[t] # 0 PROVE FALSE
    <3>1. left[t] \in 1 .. MaxUnits
      BY <2>1, <2>2, <2>5
    <3>2. <<t, left[t]>> \in ToProduce
      BY <3>1 DEF ToProduce
    <3> QED BY <2>4, <3>2, UnitsFinite
  <2> QED BY <2>1, <2>4, <2>5
<1> QED BY <1>1, <1>2, <1>3, PTL DEF Spec

----------------------------------------------------------------------------
(* The counting programs.                                                  *)

\* What thread t has still to add, also before it is created.
Due(t) == IF tpc[t] = "new" THEN Loops ELSE left[t]

\* With the mutex nothing is lost.  Without it glob, and a stale copy of it
\* too, is never ahead of what has been added; and what a thread reads after
\* its own first round is at least 1, so that the last store, which ends some
\* thread's last round, leaves at least 2 if there are two rounds or more.
CountOf(t, u) ==
  /\ tpc[t] # "new" => left[t] <= Loops
  /\ tpc[t] = "ended" => left[t] = 0
  /\ mpc = "exit" => tpc[t] = "ended"
  /\ prog = "incr_mutex" => /\ glob + Due(t) + Due(u) = 2 * Loops
                            /\ tpc[t] = "store" => loc[t] = glob
  /\ prog = "incr" =>
       /\ glob + Due(t) + Due(u) <= 2 * Loops
       /\ tpc[t] = "store" => loc[t] + Due(t) + Due(u) <= 2 * Loops
       /\ Due(t) < Loops => glob >= 1
       /\ tpc[t] = "store" /\ Due(t) < Loops => loc[t] >= 1
       /\ Loops > 1 /\ tpc[t] = "ended" /\ tpc[u] = "ended" => glob >= 2

Counting == {"incr", "incr_mutex"}
CountInv == prog \in Counting => CountOf(1, 2) /\ CountOf(2, 1)

\* The counting programs have two threads and these places.
LEMMA CountFacts ==
  ASSUME ThreadInv, prog \in Counting, NEW t \in {1, 2}
  PROVE  /\ Created = {1, 2} /\ Loops \in Nat \ {0} /\ glob \in Nat /\ t \in Threads
         /\ left[t] \in Nat /\ loc[t] \in Nat
         /\ left \in [Threads -> Nat] /\ loc \in [Threads \cup {Main} -> Nat]
         /\ tpc \in [Threads -> ThreadPlaces]
         /\ tpc[t] \in {"new", "lock", "load", "store", "unlock", "ended"}
         /\ prog = "incr" => tpc[t] \in {"new", "load", "store", "ended"}
         /\ mpc \in {"create", "join", "exit"}
<1>1. /\ tpc \in [Threads -> ThreadPlaces] /\ mpc \in MainPlaces
      /\ left \in [Threads -> Nat] /\ loc \in [Threads \cup {Main} -> Nat] /\ glob \in Nat
  BY DEF ThreadInv, TypeOK, PThreadsTypeOK, DemoTypeOK
<1>2. t \in Threads /\ Created = {1, 2}
  BY Ids DEF Created, Counting
<1>3. /\ ThreadPlaces \subseteq {"new", "lock", "load", "store", "unlock", "ended"}
      /\ prog = "incr" => ThreadPlaces = {"new", "load", "store", "ended"}
      /\ MainPlaces = {"create", "join", "exit"}
  BY DEF Counting, ThreadPlaces, MainPlaces
<1> QED BY <1>1, <1>2, <1>3, LoopsAssumption

\* A step of thread t, u being the other.
LEMMA CountStep ==
  ASSUME ThreadInv, CountInv, prog \in Counting, NEW t \in {1, 2}, NEW u \in {1, 2}, t # u,
         DemoCreate(t) \/ (DemoThread(t) /\ mpc # "exit"), prog' = prog
  PROVE  CountOf(t, u)' /\ CountOf(u, t)'
<1>1. /\ CountOf(t, u) /\ CountOf(u, t)
  BY DEF CountInv
<1>2. /\ Loops \in Nat \ {0} /\ glob \in Nat /\ t \in Threads /\ u \in Threads
      /\ left[t] \in Nat /\ loc[t] \in Nat /\ left[u] \in Nat /\ loc[u] \in Nat
      /\ left \in [Threads -> Nat] /\ loc \in [Threads \cup {Main} -> Nat]
      /\ tpc \in [Threads -> ThreadPlaces]
      /\ tpc[t] \in {"new", "lock", "load", "store", "unlock", "ended"}
      /\ tpc[u] \in {"new", "lock", "load", "store", "unlock", "ended"}
      /\ prog = "incr" => tpc[t] \in {"new", "load", "store", "ended"}
      /\ mpc \in {"create", "join", "exit"}
  BY CountFacts
<1>3. prog \in {"incr", "incr_mutex"}
  BY DEF Counting
<1>4. CASE DemoCreate(t)
  <2>1. /\ tpc[t] = "new" /\ tpc' = [tpc EXCEPT ![t] = First] /\ First \in {"load", "lock"}
        /\ left' = [left EXCEPT ![t] = Loops] /\ mpc' \in {"create", "join"}
        /\ loc' = loc /\ glob' = glob
    BY <1>2, <1>3, <1>4 DEF DemoCreate, Create, First, Rounds, demoVars
  <2>2. /\ tpc'[t] \in {"load", "lock"} /\ tpc'[u] = tpc[u] /\ left'[t] = Loops
        /\ left'[u] = left[u] /\ loc'[t] = loc[t] /\ loc'[u] = loc[u]
    BY <1>2, <2>1
  <2> QED BY <1>1, <1>2, <1>3, <2>1, <2>2 DEF CountOf, Due
<1>5. CASE DemoLock(t) /\ mpc # "exit"
  <2>1. /\ tpc[t] = "lock" /\ tpc' = [tpc EXCEPT ![t] = "load"]
        /\ UNCHANGED <<left, loc, mpc, glob>>
    BY <1>3, <1>5 DEF DemoLock, ThreadStep, localVars, demoVars
  <2>2. tpc'[t] = "load" /\ tpc'[u] = tpc[u]
    BY <1>2, <2>1
  <2> QED BY <1>1, <1>2, <1>5, <2>1, <2>2 DEF CountOf, Due
<1>6. CASE IncrLoad(t) /\ mpc # "exit"
  <2>1. /\ tpc[t] = "load" /\ tpc' = [tpc EXCEPT ![t] = "store"]
        /\ loc' = [loc EXCEPT ![t] = glob] /\ UNCHANGED <<left, mpc, glob>>
    BY <1>6 DEF IncrLoad, ThreadStep, demoVars
  <2>2. tpc'[t] = "store" /\ tpc'[u] = tpc[u] /\ loc'[t] = glob /\ loc'[u] = loc[u]
    BY <1>2, <2>1
  <2> QED BY <1>1, <1>2, <1>6, <2>1, <2>2 DEF CountOf, Due
<1>7. CASE IncrStore(t) /\ mpc # "exit"
  <2>1. /\ tpc[t] = "store" /\ glob' = loc[t] + 1 /\ left' = [left EXCEPT ![t] = @ - 1]
        /\ UNCHANGED <<loc, mpc>> /\ left[t] > 0
    BY <1>2, <1>7 DEF IncrStore, ThreadStep, ThreadInv, RoundsInv
  <2>2. /\ prog = "incr_mutex" => tpc' = [tpc EXCEPT ![t] = "unlock"]
        /\ prog = "incr" /\ left[t] = 1 => tpc' = [tpc EXCEPT ![t] = "ended"]
        /\ prog = "incr" /\ left[t] # 1 => tpc' = [tpc EXCEPT ![t] = "load"]
    BY <1>7 DEF IncrStore, ThreadStep
  <2>3. /\ prog = "incr_mutex" => tpc'[t] = "unlock"
        /\ prog = "incr" /\ left[t] = 1 => tpc'[t] = "ended"
        /\ prog = "incr" /\ left[t] # 1 => tpc'[t] = "load"
        /\ tpc'[u] = tpc[u] /\ left'[t] = left[t] - 1 /\ left'[u] = left[u]
    BY <1>2, <1>3, <2>1, <2>2
  <2>4. prog = "incr_mutex" => tpc[u] # "store"
    BY <1>2, <2>1 DEF ThreadInv, OwnerInv, ThreadHolds
  <2> QED BY <1>1, <1>2, <1>3, <1>7, <2>1, <2>3, <2>4 DEF CountOf, Due
<1>8. CASE DemoUnlock(t) /\ mpc # "exit"
  <2>1. /\ tpc[t] = "unlock" /\ tpc' = [tpc EXCEPT ![t] = NextRound(t, "lock")]
        /\ UNCHANGED <<left, loc, mpc, glob>>
    BY <1>8 DEF DemoUnlock, ThreadStep, localVars, demoVars
  <2>2. /\ left[t] = 0 => tpc'[t] = "ended"
        /\ left[t] # 0 => tpc'[t] = "lock"
        /\ tpc'[u] = tpc[u]
    BY <1>2, <2>1 DEF NextRound
  <2> QED BY <1>1, <1>2, <1>8, <2>1, <2>2 DEF CountOf, Due
<1>9. DemoThread(t) => DemoLock(t) \/ IncrLoad(t) \/ IncrStore(t) \/ DemoUnlock(t)
  BY <1>2, <1>3 DEF DemoThread, OnceTest, OnceInit, OnceCalled, WaiterAlloc, WaiterPrint,
       WaiterTest, WaiterWait, WaiterRelock, WaiterCanceled, HandlerFree, HandlerUnlock,
       ThreadStep
<1> QED BY <1>4, <1>5, <1>6, <1>7, <1>8, <1>9

\* The threads of the counting programs, and main's only other step, its end.
LEMMA CountInvNext == ASSUME ThreadInv, CountInv, [Next]_vars PROVE CountInv'
<1>0. prog' = prog
  BY ProgFixed
<1> SUFFICES ASSUME prog \in Counting PROVE CountOf(1, 2)' /\ CountOf(2, 1)'
  BY <1>0 DEF CountInv
<1>1. CountOf(1, 2) /\ CountOf(2, 1) /\ Created = {1, 2}
  BY CountFacts DEF CountInv
<1>2. ASSUME NEW t \in Threads, DemoCreate(t) \/ (DemoThread(t) /\ mpc # "exit")
      PROVE  CountOf(1, 2)' /\ CountOf(2, 1)'
  <2>1. t \in {1, 2}
    <3>1. t \notin Created => tpc[t] = "new"
      BY DEF ThreadInv, OwnerInv
    <3>2. DemoThread(t) => tpc[t] # "new"
      BY DEF DemoThread, DemoLock, IncrLoad, IncrStore, DemoUnlock, OnceTest, OnceInit,
             OnceCalled, WaiterAlloc, WaiterPrint, WaiterTest, WaiterWait, WaiterRelock,
             WaiterCanceled, HandlerFree, HandlerUnlock, ThreadStep
    <3>3. DemoCreate(t) => t \in Created
      BY DEF DemoCreate, Create
    <3> QED BY <1>1, <1>2, <3>1, <3>2, <3>3
  <2>2. CASE t = 1
    BY <1>0, <1>2, <2>2, CountStep
  <2>3. CASE t = 2
    BY <1>0, <1>2, <2>3, CountStep
  <2> QED BY <2>1, <2>2, <2>3
<1>3. CASE DemoMain
  <2>1. DemoJoin
    BY <1>3, CountFacts DEF DemoMain, CancelThread, SetGlob, SignalThread, MainStep
  <2>2. /\ UNCHANGED <<tpc, left, loc, glob>> /\ tpc[1] = "ended" /\ tpc[2] = "ended"
    BY <1>1, <2>1 DEF DemoJoin, MainStep, localVars, demoVars
  <2> QED BY <1>0, <1>1, <2>2 DEF CountOf, Due
<1>4. CASE (Spurious /\ UNCHANGED <<prodVars, joinVars, demoVars>>) \/ UNCHANGED vars
  <2>1. UNCHANGED <<mpc, tpc, left, loc, glob>>
    BY <1>4 DEF Spurious, vars, pthreadVars, placeVars, localVars, demoVars
  <2> QED BY <1>0, <1>1, <2>1 DEF CountOf, Due
<1>5. prog # "multijoin" /\ prog \notin Queues
  BY DEF Queues, Counting
<1> QED BY <1>2, <1>3, <1>4, <1>5
        DEF Next, Thread, MainThread, QueueStep, JoinStep, DemoStep

\* Initially all is still to be added.
LEMMA CountInit == Init => CountInv
  BY Ids, LoopsAssumption DEF Init, PThreadsInit, DemoInit, CountInv, CountOf, Due

\* The counting programs print twice the argument with the mutex; without it
\* no more than that and, for an argument above 1, no less than 2.
THEOREM CountedCorrect == Spec => []CountedAtExit
<1>1. Init => ThreadInv /\ CountInv
  BY InitInv, CountInit
<1>2. (ThreadInv /\ CountInv) /\ [Next]_vars => (ThreadInv /\ CountInv)'
  BY NextInv, CountInvNext
<1>3. ThreadInv /\ CountInv => CountedAtExit
  <2> SUFFICES ASSUME ThreadInv, CountInv, mpc = "exit", prog \in Counting
               PROVE  /\ prog = "incr_mutex" => glob = 2 * Loops
                      /\ prog = "incr" => /\ glob <= 2 * Loops
                                          /\ Loops > 1 => glob >= 2
    BY DEF CountedAtExit, Counting
  <2>1. /\ Loops \in Nat \ {0} /\ glob \in Nat
    BY CountFacts
  <2>2. /\ tpc[1] = "ended" /\ tpc[2] = "ended" /\ left[1] = 0 /\ left[2] = 0
    BY DEF CountInv, CountOf
  <2> QED BY <2>1, <2>2 DEF CountInv, CountOf, Due
<1> QED BY <1>1, <1>2, <1>3, PTL DEF Spec

=============================================================================
