---------------------------- MODULE ThreadJoins ----------------------------
(***************************************************************************)
(* threads/thread_multijoin.c: main joins its threads in the order in      *)
(* which they end.  A thread reports its end under the mutex, then signals *)
(* the condition variable and returns.                                     *)
(***************************************************************************)
EXTENDS PThreads

VARIABLES state,       \* "none", "alive", "terminated" or "joined"
          numLive, numUnjoined,
          idx          \* main's loop counter

joinVars == <<state, numLive, numUnjoined, idx>>

JoinInit == /\ state = [t \in Threads |-> "none"]
            /\ numLive = 0 /\ numUnjoined = 0 /\ idx = 1

InState(s) == {t \in Threads : state[t] = s}

----------------------------------------------------------------------------
(* A thread, after its sleep.                                              *)

JoinCreate(t) == /\ Create(t, "lock", 1, "count")
                 /\ state' = [state EXCEPT ![t] = "alive"]
                 /\ UNCHANGED <<numLive, numUnjoined, idx>>

DyingLock(t) == /\ ThreadStep(t, "lock", "report")
                /\ Lock(t)
                /\ UNCHANGED <<localVars, joinVars>>

DyingReport(t) == /\ ThreadStep(t, "report", "unlock")
                  /\ numUnjoined' = numUnjoined + 1
                  /\ state' = [state EXCEPT ![t] = "terminated"]
                  /\ UNCHANGED <<syncVars, localVars, numLive, idx>>

\* Faulty: the mutex is kept.
DyingUnlockNot(t) == /\ ThreadStep(t, "unlock", "signal")
                     /\ UNCHANGED <<syncVars, localVars, joinVars>>

DyingUnlock(t) == /\ ThreadStep(t, "unlock", "signal")
                  /\ Unlock(t)
                  /\ UNCHANGED <<localVars, joinVars>>

DyingSignal(t) == /\ ThreadStep(t, "signal", "ended")
                  /\ CondSignal
                  /\ UNCHANGED <<localVars, joinVars>>

Dying(t) == DyingLock(t) \/ DyingReport(t) \/ DyingUnlock(t) \/ DyingSignal(t)

----------------------------------------------------------------------------
(* main.                                                                   *)

\* Set after the threads were created, and used by main alone.
CountThreads == /\ MainStep("count", "while")
                /\ numLive' = NThreads
                /\ UNCHANGED <<syncVars, localVars, state, numUnjoined, idx>>

WhileLive == \/ /\ numLive > 0
                /\ MainStep("while", "test")
                /\ Lock(Main)
                /\ UNCHANGED <<localVars, joinVars>>
             \/ /\ numLive = 0
                /\ MainStep("while", "exit")
                /\ UNCHANGED <<syncVars, localVars, joinVars>>

\* while (num_unjoined == 0)
JoinTest == /\ MainStep("test", IF numUnjoined = 0 THEN "wait" ELSE "scan")
            /\ idx' = 1
            /\ UNCHANGED <<syncVars, localVars, state, numLive, numUnjoined>>

JoinWait == /\ MainStep("wait", "relock")
            /\ CondWait(Main)
            /\ UNCHANGED <<localVars, joinVars>>

JoinRelock == /\ MainStep("relock", "test")
              /\ Relock(Main)
              /\ UNCHANGED <<localVars, joinVars>>

ScanSkip == /\ idx \in Threads /\ state[idx] # "terminated"
            /\ MainStep("scan", "scan")
            /\ idx' = idx + 1
            /\ UNCHANGED <<syncVars, localVars, state, numLive, numUnjoined>>

\* Faulty: takes the thread off num_live only.
ScanJoinLiveOnly == /\ idx \in Threads /\ state[idx] = "terminated"
                    /\ tpc[idx] = "ended"
                    /\ MainStep("scan", "scan")
                    /\ state' = [state EXCEPT ![idx] = "joined"]
                    /\ numLive' = numLive - 1
                    /\ idx' = idx + 1
                    /\ UNCHANGED <<syncVars, localVars, numUnjoined>>

\* Faulty: the thread's state is left as it was.
ScanJoinForgets == /\ idx \in Threads /\ state[idx] = "terminated"
                   /\ tpc[idx] = "ended"
                   /\ MainStep("scan", "scan")
                   /\ numLive' = numLive - 1
                   /\ numUnjoined' = numUnjoined - 1
                   /\ idx' = idx + 1
                   /\ UNCHANGED <<syncVars, localVars, state>>

\* pthread_join, which waits until the thread has returned.
ScanJoin == /\ idx \in Threads /\ state[idx] = "terminated"
            /\ tpc[idx] = "ended"
            /\ MainStep("scan", "scan")
            /\ state' = [state EXCEPT ![idx] = "joined"]
            /\ numLive' = numLive - 1
            /\ numUnjoined' = numUnjoined - 1
            /\ idx' = idx + 1
            /\ UNCHANGED <<syncVars, localVars>>

ScanEnd == /\ idx \notin Threads
           /\ MainStep("scan", "while")
           /\ Unlock(Main)
           /\ UNCHANGED <<localVars, joinVars>>

Joiner == \/ CountThreads \/ WhileLive \/ JoinTest \/ JoinWait \/ JoinRelock
          \/ ScanSkip \/ ScanJoin \/ ScanEnd

----------------------------------------------------------------------------
JoinTypeOK == /\ state \in [Threads -> {"none", "alive", "terminated", "joined"}]
              /\ numLive \in 0 .. NThreads /\ numUnjoined \in 0 .. NThreads
              /\ idx \in 1 .. NThreads + 1

\* The two counters tell the truth about the states while main may act on
\* them, and at the exit every thread has returned and was joined.
JoinsCounted ==
  prog = "multijoin" =>
    /\ owner = Nobody => numUnjoined = Cardinality(InState("terminated"))
    /\ mpc \notin {"create", "count"} =>
          numLive = Cardinality(Threads \ InState("joined"))
    /\ mpc = "exit" => InState("joined") = {t \in Threads : tpc[t] = "ended"}
                       /\ InState("joined") = Threads
=============================================================================
