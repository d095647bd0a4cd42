------------------------- MODULE XferThreads_proofs -------------------------
(***************************************************************************)
(* Safety of the two-thread transfer of exercises/53_01.c, for every input *)
(* length and buffer size: IInv is inductive and implies what the TLC run  *)
(* checks.                                                                 *)
(***************************************************************************)
EXTENDS XferThreads, XferLoop_proofs

USE DEF WRITE_SEM, READ_SEM

LEMMA InitIInv == Init => IInv
<1> SUFFICES ASSUME Init PROVE IInv
  OBVIOUS
<1> USE XferAssumption, ThreadsAssumption DEF Init
<1>1. LoopTypeOK
  BY DEF LoopTypeOK, WriterPlaces, ReaderPlaces, Blank
<1>2. TurnInv /\ DataInv(FALSE) /\ CountInv
  BY DEF TurnInv, WriterHolds, ReaderHolds, DataInv, OutputIsPrefix, Delivered,
         CountInv
<1>3. MainInv
  BY DEF MainInv
<1> QED BY <1>1, <1>2, <1>3 DEF IInv, LoopInv, TypeOK

\* A thread's step keeps MainInv: only the reader writes and adds, and no
\* thread leaves "idle" or "eof" by itself.
LEMMA WriterMainInv == IInv /\ WriterThread => MainInv'
<1> SUFFICES ASSUME IInv, WriterThread PROVE MainInv'
  OBVIOUS
<1>1. /\ wpc \notin {"idle", "eof"} /\ wpc' # "idle"
      /\ UNCHANGED <<main, rpc, rbytes, out>>
  BY DEF WriterThread, SemWriter, WriterReserve, ReadShared, StoreCount, WriterRelease,
         CheckEof, AddCount, rVars
<1>2. cnt' = cnt \/ rpc[Reader] # "write"
  BY ThreadsAssumption
     DEF WriterThread, SemWriter, WriterReserve, ReadShared, StoreCount, WriterRelease,
         CheckEof, AddCount, segVars, IInv, LoopInv, TurnInv, WriterHolds, ReaderHolds
<1> QED BY <1>1, <1>2 DEF IInv, MainInv

LEMMA ReaderMainInv == IInv /\ ReaderThread => MainInv'
<1> SUFFICES ASSUME IInv, ReaderThread PROVE MainInv'
  OBVIOUS
<1> USE XferAssumption, ThreadsAssumption
    DEF ReaderThread, SemReader, ReaderAt, ReaderTo, wVars
<1>0. /\ rpc \in [Readers -> ReaderPlaces] /\ rbytes \in [Readers -> Nat]
      /\ Reader \in Readers /\ cnt \in 0 .. BufSize /\ out \in Seq(0 .. NBytes)
      /\ buf \in [1 .. BufSize -> 0 .. NBytes]
  BY DEF IInv, LoopInv, LoopTypeOK
<1>1. /\ rpc[Reader] \notin {"idle", "eof"} /\ rpc'[Reader] # "idle"
      /\ UNCHANGED <<main, wpc, wbytes, pos, cnt>>
      /\ main # "exit"
  BY <1>0 DEF ReaderReserve, ReaderTest, ReaderWrite, ReaderRelease, segVars
<1>2. rbytes'[Reader] = Len(out') + (IF rpc'[Reader] = "write" THEN cnt ELSE 0)
  <2>1. CASE ReaderWrite(Reader)
    <3>1. Len(out') = Len(out) + cnt
      BY <1>0, <2>1 DEF ReaderWrite
    <3> QED BY <1>0, <2>1, <3>1 DEF ReaderWrite, IInv, MainInv
  <2>2. CASE ReaderTest(Reader)
    BY <1>0, <2>2 DEF ReaderTest, IInv, MainInv
  <2> QED
    BY <1>0, <2>1, <2>2 DEF ReaderReserve, ReaderRelease, IInv, MainInv
<1> QED BY <1>1, <1>2 DEF IInv, MainInv

\* Every step of the program keeps the invariant.
LEMMA NextIInv == IInv /\ [Next]_vars => IInv'
<1> SUFFICES ASSUME IInv, [Next]_vars PROVE IInv'
  OBVIOUS
<1> USE XferAssumption, ThreadsAssumption
<1>1. CASE WriterThread
  BY <1>1, SemWriterInv, WriterMainInv DEF WriterThread, IInv, LoopInv, TypeOK
<1>2. CASE ReaderThread
  BY <1>2, SemReaderInv, ReaderMainInv DEF ReaderThread, IInv, LoopInv, TypeOK
<1>3. CASE SemInit1 \/ SemInit2
  <2>1. /\ main \in {"sem_init1", "sem_init2"} /\ main' \in {"sem_init2", "create1"}
        /\ UNCHANGED <<cnt, buf, pos, wcnt, wpc, wbytes, rpc, rbytes, out>>
    BY <1>3 DEF SemInit1, SemInit2, segVars, wVars, rVars
  <2>2. /\ wpc = "idle" /\ rpc[Reader] = "idle" /\ pos = 0 /\ out = <<>>
        /\ sem[READ_SEM] = 0
    BY <2>1 DEF IInv, MainInv
  <2>3. /\ sem' \in [{WRITE_SEM, READ_SEM} -> Nat]
        /\ sem'[WRITE_SEM] \in {0, 1} /\ sem'[READ_SEM] = 0
    BY <1>3, <2>2 DEF SemInit1, SemInit2, IInv, LoopInv, LoopTypeOK, TurnInv
  <2>4. TypeOK'
    BY <2>1, <2>3 DEF IInv, TypeOK, LoopTypeOK
  <2>5. TurnInv'
    BY <2>1, <2>2, <2>3 DEF TurnInv, WriterHolds, ReaderHolds
  <2>6. DataInv(FALSE)'
    BY <2>1, <2>2, <2>3 DEF DataInv, OutputIsPrefix, Delivered
  <2>7. CountInv'
    BY <2>1 DEF IInv, LoopInv, CountInv
  <2>8. MainInv'
    BY <2>1, <2>2, <2>3 DEF IInv, MainInv
  <2> QED BY <2>4, <2>5, <2>6, <2>7, <2>8 DEF IInv, LoopInv, TypeOK
<1>4. CASE CreateWriter
  <2> USE <1>4 DEF CreateWriter, segVars, rVars
  <2>1. wpc = "idle" /\ wbytes = 0 /\ pos = 0
    BY DEF IInv, MainInv
  <2>2. TypeOK'
    BY DEF IInv, TypeOK, LoopTypeOK, WriterPlaces
  <2>3. TurnInv'
    BY DEF IInv, LoopInv, TurnInv, WriterHolds, ReaderHolds
  <2>4. DataInv(FALSE)'
    BY DEF IInv, LoopInv, DataInv, OutputIsPrefix, Delivered, Pending, InBuf
  <2>5. CountInv' /\ MainInv'
    BY <2>1 DEF IInv, LoopInv, CountInv, MainInv
  <2> QED BY <2>2, <2>3, <2>4, <2>5 DEF IInv, LoopInv, TypeOK
<1>5. CASE CreateReader
  <2> USE <1>5 DEF CreateReader, ReaderTo, segVars, wVars
  <2>1. rpc' = [r \in Readers |-> "wait"]
    BY DEF IInv, LoopInv, LoopTypeOK
  <2>2. TypeOK'
    BY <2>1 DEF IInv, TypeOK, LoopTypeOK, ReaderPlaces
  <2>3. TurnInv'
    BY <2>1 DEF IInv, LoopInv, TurnInv, WriterHolds, ReaderHolds
  <2>4. DataInv(FALSE)'
    BY <2>1 DEF IInv, LoopInv, DataInv, OutputIsPrefix, Delivered, Pending, InBuf
  <2>5. CountInv'
    BY DEF IInv, LoopInv, CountInv
  <2>6. MainInv'
    BY <2>1 DEF IInv, MainInv
  <2> QED BY <2>2, <2>3, <2>4, <2>5, <2>6 DEF IInv, LoopInv, TypeOK
<1>6. CASE JoinWriter \/ JoinReader \/ UNCHANGED vars
  <2>1. UNCHANGED loopVars
    BY <1>6 DEF JoinWriter, JoinReader, vars
  <2>2. LoopInv(FALSE)'
    BY <2>1 DEF loopVars, segVars, wVars, rVars, IInv, LoopInv, LoopTypeOK, TurnInv,
       WriterHolds, ReaderHolds, DataInv, OutputIsPrefix, Delivered, Pending, InBuf,
       CountInv
  <2>3. MainInv' /\ TypeOK'
    BY <1>6, <2>1, <2>2 DEF JoinWriter, JoinReader, ReaderAt, vars, loopVars, wVars, rVars,
       segVars, IInv, MainInv, TypeOK, LoopInv
  <2> QED BY <2>2, <2>3 DEF IInv
<1> QED
  BY <1>1, <1>2, <1>3, <1>4, <1>5, <1>6 DEF Next, Main, Exited

THEOREM IInvAlways == Spec => []IInv
BY InitIInv, NextIInv, PTL DEF Spec

----------------------------------------------------------------------------
\* The variables stay in their types: the semaphores hold naturals, the
\* buffer and the output input offsets, the threads known places (the
\* globals, semaphores and threads of 53_01.c).
THEOREM TypeCorrect == Spec => []TypeOK
<1>1. IInv => TypeOK
  BY DEF IInv
<1> QED BY <1>1, IInvAlways, PTL

\* The file written is at every moment a prefix of the file read, whatever
\* the interleaving of thread_wr_proc and thread_rd_proc.
THEOREM OutputCorrect == Spec => []OutputIsPrefix
<1>1. IInv => OutputIsPrefix
  BY LoopInvImplies DEF IInv
<1> QED BY <1>1, IInvAlways, PTL

\* When main exits the whole file is out and both totals are its length.
THEOREM ExitCorrect == Spec => []ExitAfterAllWritten
<1>1. IInv => ExitAfterAllWritten
  BY ThreadsAssumption, XferAssumption
     DEF IInv, LoopInv, LoopTypeOK, MainInv, DataInv, Delivered, CountInv,
         ExitAfterAllWritten
<1> QED BY <1>1, IInvAlways, PTL

\* The two threads are a block copy: BlockCopy's steps, or stuttering.
THEOREM ThreadsCopy == Spec => ImplementsBlockCopy
<1> USE XferAssumption, ThreadsAssumption
<1>1. Init => Copy!Init
  BY DEF Init, Copy!Init, PastLoop
<1>2. IInv /\ [Next]_vars => [Copy!Next]_Copy!vars
  <2> SUFFICES ASSUME IInv, [Next]_vars PROVE [Copy!Next]_Copy!vars
    OBVIOUS
  <2>1. CASE WriterThread
    BY <2>1, WriterCopies DEF WriterThread, IInv
  <2>2. CASE ReaderThread
    BY <2>2, SemReaderCopies DEF ReaderThread, IInv
  <2>3. CASE CreateReader
    <3>1. /\ \A r \in Readers : rpc[r] = "idle" /\ rpc'[r] = "wait"
          /\ UNCHANGED <<pos, out>>
      BY <2>3 DEF CreateReader, ReaderTo, wVars, IInv, MainInv, LoopInv, LoopTypeOK
    <3> QED BY <3>1 DEF Copy!vars, PastLoop
  <2>4. CASE SemInit1 \/ SemInit2 \/ CreateWriter
    BY <2>4 DEF SemInit1, SemInit2, CreateWriter, Copy!vars, wVars, rVars
  <2>5. CASE JoinWriter \/ JoinReader \/ UNCHANGED vars
    BY <2>5 DEF JoinWriter, JoinReader, vars, loopVars, wVars, rVars, Copy!vars
  <2> QED
    BY <2>1, <2>2, <2>3, <2>4, <2>5 DEF Next, Main, Exited
<1> QED BY <1>1, <1>2, IInvAlways, PTL DEF Spec, ImplementsBlockCopy, Copy!Spec
=============================================================================
