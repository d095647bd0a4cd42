------------------------------ MODULE XferLoop ------------------------------
(***************************************************************************)
(* The two loops shared by the five programs that copy stdin to stdout     *)
(* through one buffer (count + bytes) and a pair of semaphores, one for    *)
(* each side's turn:                                                       *)
(*                                                                         *)
(*   svshm    svshm/svshm_xfr_{writer,reader}.c   System V segment         *)
(*   flags    exercises/48_01_xfr_{writer,reader}.c   event flags          *)
(*   file     exercises/49_02_xfr_{writer,reader}.c   mapped file          *)
(*   posix    exercises/54_01_xfr_{writer,reader}.c   POSIX segment        *)
(*   threads  exercises/53_01.c          two threads, POSIX semaphores     *)
(*                                                                         *)
(* A byte of data is the offset it has in the input, 0 a byte never        *)
(* written.  Each access to the shared buffer is a step of its own: only   *)
(* the semaphores keep the two sides apart.  The retry of an interrupted   *)
(* semop changes no state and is a stuttering step.                        *)
(***************************************************************************)
EXTENDS Integers, Sequences

CONSTANTS Readers,     \* the reader processes (one in the intended use)
          NBytes,      \* length of the writer's input
          BufSize      \* BUF_SIZE

ASSUME XferAssumption == /\ NBytes \in Nat
                         /\ BufSize \in Nat \ {0}

WRITE_SEM == 0
READ_SEM  == 1

VARIABLES sem,         \* the values of the two semaphores
          cnt, buf,    \* the shared segment: struct shmseg
          pos,         \* bytes of the input read so far
          wcnt,        \* the result of the writer's last read()
          wpc, wbytes, \* the writer's place in its loop, its total
          rpc, rbytes, \* the readers' places, their totals
          out          \* what the readers have written to stdout

segVars  == <<cnt, buf>>
wVars    == <<pos, wcnt, wpc, wbytes>>
rVars    == <<rpc, rbytes, out>>
loopVars == <<sem, segVars, wVars, rVars>>

Blank == [i \in 1 .. BufSize |-> 0]

ReaderAt(r, l) == rpc[r] = l
ReaderTo(r, l) == rpc' = [rpc EXCEPT ![r] = l]

----------------------------------------------------------------------------
(* The semaphore operations, on the value of one semaphore.                *)

\* reserveSem and sem_wait wait for a positive value and subtract 1.
ReserveSem(s) == /\ sem[s] > 0
                 /\ sem' = [sem EXCEPT ![s] = @ - 1]

\* releaseSem and sem_post add 1, whatever the value is.
ReleaseSem(s) == sem' = [sem EXCEPT ![s] = @ + 1]

\* An event flag is set when its value is 0; waiting for it changes nothing.
FlagIsSet(s)         == sem[s] = 0
SetEventFlag(s)      == sem' = [sem EXCEPT ![s] = 0]
ClearEventFlag(s)    == sem' = [sem EXCEPT ![s] = 1]

----------------------------------------------------------------------------
(* The writer's loop.                                                      *)

\* Faulty: the writer does not wait for its turn.
WriterReserveFree == /\ wpc = "wait"
                     /\ sem' = [sem EXCEPT ![WRITE_SEM] = 0]
                     /\ wpc' = "read"
                     /\ UNCHANGED <<segVars, pos, wcnt, wbytes, rVars>>

WriterReserve == /\ wpc = "wait"
                 /\ ReserveSem(WRITE_SEM)
                 /\ wpc' = "read"
                 /\ UNCHANGED <<segVars, pos, wcnt, wbytes, rVars>>

WriterWaitFlag == /\ wpc = "wait"
                  /\ FlagIsSet(WRITE_SEM)
                  /\ wpc' = "clear"
                  /\ UNCHANGED <<sem, segVars, pos, wcnt, wbytes, rVars>>

\* Faulty: the flag is left set.
WriterClearFlagForgotten == /\ wpc = "clear"
                            /\ wpc' = "read"
                            /\ UNCHANGED <<sem, segVars, pos, wcnt, wbytes, rVars>>

WriterClearFlag == /\ wpc = "clear"
                   /\ ClearEventFlag(WRITE_SEM)
                   /\ wpc' = "read"
                   /\ UNCHANGED <<segVars, pos, wcnt, wbytes, rVars>>

\* Faulty: asks read() for the size of the whole struct.
ReadResultsOver == IF pos = NBytes THEN {0}
                   ELSE {n \in 1 .. BufSize + 1 : pos + n <= NBytes}

\* What read() may return: a block, possibly short, and 0 only at the end.
ReadResults == IF pos = NBytes THEN {0}
               ELSE {n \in 1 .. BufSize : pos + n <= NBytes}

\* The next n input bytes over the front of a buffer.
Filled(b, from, n) == [i \in 1 .. BufSize |->
                         IF i <= n THEN from + i ELSE b[i]]

\* read() puts the bytes straight into the segment; its result comes after.
ReadShared == /\ wpc = "read"
              /\ \E n \in ReadResults :
                    /\ wcnt' = n
                    /\ pos' = pos + n
                    /\ buf' = Filled(buf, pos, n)
              /\ wpc' = "store"
              /\ UNCHANGED <<sem, cnt, wbytes, rVars>>

StoreCount == /\ wpc = "store"
              /\ cnt' = wcnt
              /\ wpc' = "give"
              /\ UNCHANGED <<sem, buf, pos, wcnt, wbytes, rVars>>

\* The mapped-file writer reads into a zeroed struct of its own ...
ReadPrivate == /\ wpc = "read"
               /\ \E n \in ReadResults : wcnt' = n /\ pos' = pos + n
               /\ wpc' = "store"
               /\ UNCHANGED <<sem, segVars, wbytes, rVars>>

\* ... and copies all of it, the zero tail included, into the mapping.
CopyOut == /\ wpc = "store"
           /\ cnt' = wcnt
           /\ buf' = Filled(Blank, pos - wcnt, wcnt)
           /\ wpc' = "give"
           /\ UNCHANGED <<sem, pos, wcnt, wbytes, rVars>>

\* Faulty: the end of file is tested before the reader is given its turn.
WriterReleaseUnlessEof ==
  /\ wpc = "give"
  /\ IF cnt = 0 THEN UNCHANGED sem ELSE ReleaseSem(READ_SEM)
  /\ wpc' = "check"
  /\ UNCHANGED <<segVars, pos, wcnt, wbytes, rVars>>

WriterRelease == /\ wpc = "give"
                 /\ ReleaseSem(READ_SEM)
                 /\ wpc' = "check"
                 /\ UNCHANGED <<segVars, pos, wcnt, wbytes, rVars>>

WriterSetFlag == /\ wpc = "give"
                 /\ SetEventFlag(READ_SEM)
                 /\ wpc' = "check"
                 /\ UNCHANGED <<segVars, pos, wcnt, wbytes, rVars>>

\* The end test and the loop header's "bytes += cnt" use c: the shared count,
\* read again after the turn was given away, or the private copy.
CheckEof(c) == /\ wpc = "check"
               /\ wpc' = IF c = 0 THEN "eof" ELSE "count"
               /\ UNCHANGED <<sem, segVars, pos, wcnt, wbytes, rVars>>

AddCount(c) == /\ wpc = "count"
               /\ wbytes' = wbytes + c
               /\ wpc' = "wait"
               /\ UNCHANGED <<sem, segVars, pos, wcnt, rVars>>

----------------------------------------------------------------------------
(* A reader's loop.                                                        *)

ReaderReserve(r) == /\ ReaderAt(r, "wait")
                    /\ ReserveSem(READ_SEM)
                    /\ ReaderTo(r, "test")
                    /\ UNCHANGED <<segVars, wVars, rbytes, out>>

ReaderWaitFlag(r) == /\ ReaderAt(r, "wait")
                     /\ FlagIsSet(READ_SEM)
                     /\ ReaderTo(r, "clear")
                     /\ UNCHANGED <<sem, segVars, wVars, rbytes, out>>

ReaderClearFlag(r) == /\ ReaderAt(r, "clear")
                      /\ ClearEventFlag(READ_SEM)
                      /\ ReaderTo(r, "test")
                      /\ UNCHANGED <<segVars, wVars, rbytes, out>>

\* Faulty: a block that is not full is taken for the last one.
ReaderTestShort(r) ==
  /\ ReaderAt(r, "test")
  /\ ReaderTo(r, IF cnt < BufSize THEN "eof" ELSE "write")
  /\ rbytes' = [rbytes EXCEPT ![r] = @ + cnt]
  /\ UNCHANGED <<sem, segVars, wVars, out>>

\* A zero count is the writer's end of file and leaves the loop.
ReaderTest(r) == /\ ReaderAt(r, "test")
                 /\ ReaderTo(r, IF cnt = 0 THEN "eof" ELSE "write")
                 /\ rbytes' = [rbytes EXCEPT ![r] = @ + cnt]
                 /\ UNCHANGED <<sem, segVars, wVars, out>>

\* Faulty: the reader marks the segment as emptied.
ReaderWriteReset(r) == /\ ReaderAt(r, "write")
                       /\ out' = out \o SubSeq(buf, 1, cnt)
                       /\ cnt' = 0
                       /\ ReaderTo(r, "give")
                       /\ UNCHANGED <<sem, buf, wVars, rbytes>>

ReaderWrite(r) == /\ ReaderAt(r, "write")
                  /\ out' = out \o SubSeq(buf, 1, cnt)
                  /\ ReaderTo(r, "give")
                  /\ UNCHANGED <<sem, segVars, wVars, rbytes>>

ReaderRelease(r) == /\ ReaderAt(r, "give")
                    /\ ReleaseSem(WRITE_SEM)
                    /\ ReaderTo(r, "wait")
                    /\ UNCHANGED <<segVars, wVars, rbytes, out>>

ReaderSetFlag(r) == /\ ReaderAt(r, "give")
                    /\ SetEventFlag(WRITE_SEM)
                    /\ ReaderTo(r, "wait")
                    /\ UNCHANGED <<segVars, wVars, rbytes, out>>

----------------------------------------------------------------------------
(* The loop of each program, as its own sequence of these steps.           *)

SemWriter == \/ WriterReserve \/ ReadShared \/ StoreCount \/ WriterRelease
             \/ CheckEof(cnt) \/ AddCount(cnt)

FlagWriter == \/ WriterWaitFlag \/ WriterClearFlag \/ ReadShared \/ StoreCount
              \/ WriterSetFlag \/ CheckEof(cnt) \/ AddCount(cnt)

FileWriter == \/ WriterReserve \/ ReadPrivate \/ CopyOut \/ WriterRelease
              \/ CheckEof(wcnt) \/ AddCount(wcnt)

SemReader(r) == \/ ReaderReserve(r) \/ ReaderTest(r) \/ ReaderWrite(r)
                \/ ReaderRelease(r)

FlagReader(r) == \/ ReaderWaitFlag(r) \/ ReaderClearFlag(r) \/ ReaderTest(r)
                 \/ ReaderWrite(r) \/ ReaderSetFlag(r)

----------------------------------------------------------------------------
\* The places of the loops, and those XferThreads and XferSession add.
WriterPlaces == {"wait", "clear", "read", "store", "give", "check", "count", "eof"}
                \cup {"idle", "start", "init_write", "init_read", "segment",
                      "truncate", "remove_sem", "remove_seg", "done"}
ReaderPlaces == {"wait", "clear", "test", "write", "give", "eof"}
                \cup {"idle", "start", "segment", "detached", "done"}

LoopTypeOK ==
  /\ wpc \in WriterPlaces /\ rpc \in [Readers -> ReaderPlaces]
  /\ sem \in [{WRITE_SEM, READ_SEM} -> Nat]
  /\ cnt \in 0 .. BufSize /\ buf \in [1 .. BufSize -> 0 .. NBytes]
  /\ pos \in 0 .. NBytes /\ wcnt \in 0 .. BufSize /\ wcnt <= pos
  /\ wbytes \in Nat /\ rbytes \in [Readers -> Nat]
  /\ out \in Seq(0 .. NBytes)

\* The output is the input read so far, byte for byte from its start: no
\* block is lost, repeated, reordered or torn on its way through the segment
\* (the reason svshm_xfr.h has one semaphore for each side's turn).
OutputIsPrefix == /\ Len(out) <= pos
                  /\ \A i \in 1 .. Len(out) : out[i] = i

WriterInside    == wpc \in {"read", "store", "give"}
ReaderInside(r) == rpc[r] \in {"test", "write", "give"}

\* Never two processes between waiting for a turn and giving it away: the
\* segment has one user at a time, and never two readers the same block.
OneTurn == /\ WriterInside => \A r \in Readers : ~ReaderInside(r)
           /\ \A r, s \in Readers : ReaderInside(r) /\ ReaderInside(s) => r = s

----------------------------------------------------------------------------
(* The inductive invariant of the programs with semaphores.  A side holds  *)
(* the turn from its reserve to its release; the states of XferSession     *)
(* after the loops count as well.                                          *)

WriterHolds    == wpc \in {"read", "store", "give", "remove_sem", "remove_seg", "done"}
ReaderHolds(r) == rpc[r] \in {"test", "write", "give", "eof", "detached"}

\* The turn is in one place: a semaphore, the writer or one reader, or lost.
TurnInv ==
  /\ sem[WRITE_SEM] + sem[READ_SEM] <= 1
  /\ WriterHolds => /\ sem[WRITE_SEM] = 0 /\ sem[READ_SEM] = 0
                    /\ \A r \in Readers : ~ReaderHolds(r)
  /\ \A r \in Readers : ReaderHolds(r) =>
        /\ sem[WRITE_SEM] = 0 /\ sem[READ_SEM] = 0
        /\ \A s \in Readers : ReaderHolds(s) => s = r

\* All that was read is out; or the n bytes to be written next are in buf.
Delivered  == Len(out) = pos
InBuf(n)   == \A i \in 1 .. n : buf[i] = Len(out) + i
Pending(n) == Len(out) + n = pos /\ (n = 0 => pos = NBytes)

\* Where the turn is tells what the segment holds.  With a private copy the
\* block is in the segment only once it has been copied out.
DataInv(private) ==
  /\ OutputIsPrefix
  /\ sem[WRITE_SEM] = 1 => Delivered
  /\ wpc \in {"read", "remove_sem", "remove_seg", "done"} => Delivered
  /\ wpc = "store" => Pending(wcnt) /\ (private \/ InBuf(wcnt))
  /\ wpc = "give" => Pending(cnt) /\ InBuf(cnt)
  /\ sem[READ_SEM] = 1 => Pending(cnt) /\ InBuf(cnt)
  /\ \A r \in Readers :
       /\ rpc[r] \in {"test", "write"} => Pending(cnt) /\ InBuf(cnt)
       /\ rpc[r] = "give" => Delivered
       /\ rpc[r] \in {"eof", "detached"} => Delivered /\ pos = NBytes

\* The count the writer reads after its release is still the one it stored.
CountInv ==
  /\ wpc \in {"give", "check", "count"} => cnt = wcnt
  /\ wpc \in {"store", "give", "check", "count"} =>
        wbytes + wcnt = pos /\ (wcnt = 0 => pos = NBytes)
  /\ wpc \in {"wait", "read"} => wbytes = pos
  /\ wpc \in {"eof", "remove_sem", "remove_seg", "done"} =>
        wbytes = pos /\ pos = NBytes

LoopInv(private) == LoopTypeOK /\ TurnInv /\ DataInv(private) /\ CountInv

----------------------------------------------------------------------------
\* BlockCopy with the semaphores, the segment and the places forgotten.
\* The end of file has reached a reader once it is past its loop.
PastLoop == {"eof", "detached", "done"}
Copy == INSTANCE BlockCopy WITH taken <- pos, delivered <- out,
                                finished <- \E r \in Readers : rpc[r] \in PastLoop

\* The transfer is a block copy: one block at most in flight, and the reader
\* reports the end only after the last byte is out.
ImplementsBlockCopy == Copy!Spec
=============================================================================
