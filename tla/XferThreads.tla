---------------------------- MODULE XferThreads ----------------------------
(***************************************************************************)
(* exercises/53_01.c: the transfer between two threads of one process.     *)
(* main initialises the two POSIX semaphores, creates the threads, joins   *)
(* them in turn and exits, which ends every thread still running.          *)
(***************************************************************************)
EXTENDS XferLoop

CONSTANT Reader        \* the one reader thread

ASSUME ThreadsAssumption == Readers = {Reader}

VARIABLE main          \* the place of the main thread

vars == <<loopVars, main>>

\* A thread's place is "idle" before pthread_create, "eof" once it returned.
Init == /\ sem = [s \in {WRITE_SEM, READ_SEM} |-> 0]
        /\ cnt = 0 /\ buf = Blank
        /\ pos = 0 /\ wcnt = 0 /\ wpc = "idle" /\ wbytes = 0
        /\ rpc = [r \in Readers |-> "idle"] /\ rbytes = [r \in Readers |-> 0]
        /\ out = <<>>
        /\ main = "sem_init1"

SemInit1 == /\ main = "sem_init1"
            /\ sem' = [sem EXCEPT ![WRITE_SEM] = 1]
            /\ main' = "sem_init2"
            /\ UNCHANGED <<segVars, wVars, rVars>>

SemInit2 == /\ main = "sem_init2"
            /\ sem' = [sem EXCEPT ![READ_SEM] = 0]
            /\ main' = "create1"
            /\ UNCHANGED <<segVars, wVars, rVars>>

CreateWriter == /\ main = "create1"
                /\ wpc' = "wait"
                /\ main' = "create2"
                /\ UNCHANGED <<sem, segVars, pos, wcnt, wbytes, rVars>>

CreateReader == /\ main = "create2"
                /\ ReaderTo(Reader, "wait")
                /\ main' = "join1"
                /\ UNCHANGED <<sem, segVars, wVars, rbytes, out>>

JoinWriter == /\ main = "join1"
              /\ wpc = "eof"
              /\ main' = "join2"
              /\ UNCHANGED loopVars

\* Faulty: the second pthread_join is left out.
JoinReaderForgotten == /\ main = "join2"
                       /\ main' = "exit"
                       /\ UNCHANGED loopVars

JoinReader == /\ main = "join2"
              /\ ReaderAt(Reader, "eof")
              /\ main' = "exit"
              /\ UNCHANGED loopVars

Main == \/ SemInit1 \/ SemInit2 \/ CreateWriter \/ CreateReader
        \/ JoinWriter \/ JoinReader

\* A thread runs only while the process does.
WriterThread == main # "exit" /\ SemWriter /\ UNCHANGED main
ReaderThread == main # "exit" /\ SemReader(Reader) /\ UNCHANGED main

\* The process is over.
Exited == main = "exit" /\ UNCHANGED vars

Next == Main \/ WriterThread \/ ReaderThread \/ Exited

\* Each thread is scheduled as long as it can run.
Fairness == WF_vars(Main) /\ WF_vars(WriterThread) /\ WF_vars(ReaderThread)

Spec == Init /\ [][Next]_vars /\ Fairness

TypeOK ==
  /\ LoopTypeOK
  /\ main \in {"sem_init1", "sem_init2", "create1", "create2", "join1",
               "join2", "exit"}

\* Where main is tells how far the threads can be.
MainInv ==
  /\ main \in {"sem_init1", "sem_init2", "create1"} =>
        wpc = "idle" /\ pos = 0 /\ out = <<>> /\ sem[READ_SEM] = 0
  /\ main = "sem_init1" => sem[WRITE_SEM] = 0
  /\ main \in {"sem_init1", "sem_init2", "create1", "create2"} =>
        rpc[Reader] = "idle"
  /\ wpc = "idle" => wbytes = 0
  /\ main \in {"join2", "exit"} => wpc = "eof"
  /\ main = "exit" => rpc[Reader] = "eof"
  /\ rbytes[Reader] = Len(out) + (IF rpc[Reader] = "write" THEN cnt ELSE 0)

\* The inductive invariant.
IInv == TypeOK /\ LoopInv(FALSE) /\ MainInv

\* When main exits the whole file is written, both totals are its length and
\* both threads have returned: exit() would cut off a thread that has yet to
\* write its block or print its total.
ExitAfterAllWritten == main = "exit" => /\ Len(out) = NBytes
                                        /\ wbytes = NBytes
                                        /\ rbytes[Reader] = NBytes
                                        /\ wpc = "eof" /\ rpc[Reader] = "eof"

\* The process always gets to its exit, whatever the sizes of the reads.
EventuallyExits == <>(main = "exit")
=============================================================================
