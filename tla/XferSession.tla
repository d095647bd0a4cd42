---------------------------- MODULE XferSession ----------------------------
(***************************************************************************)
(* Whole runs of the four two-process transfer programs: the creation and  *)
(* initialisation of the semaphores and the segment, the loops of          *)
(* XferLoop, the hand-over at the end and the removal of the objects, with *)
(* processes that are killed and started again on what they left behind.   *)
(* An error exit (a missing object, a set removed under a waiting process) *)
(* brings a process back to "start", from where it may be run again.       *)
(*                                                                         *)
(* How the programs are operated: one writer at a time, started only while *)
(* no reader is running; readers at any moment, several together only for  *)
(* the programs in SharedBy.                                               *)
(***************************************************************************)
EXTENDS XferLoop, FiniteSets

CONSTANTS Programs,     \* the programs to run, of those listed in XferLoop
          SharedBy,     \* those of them that are run with several readers
          MaxSessions,  \* bound: times the writer is started
          MaxKills      \* bound: processes killed

SysVPrograms == {"svshm", "flags"}

ASSUME SessionAssumption == /\ Programs \subseteq {"svshm", "flags", "file", "posix"}
                            /\ SharedBy \subseteq Programs
                            /\ MaxSessions \in Nat /\ MaxKills \in Nat

VARIABLES prog,         \* the program being run
          semExists,    \* the semaphore set exists
          seg,          \* the segment or file: "none", "empty" or "sized"
          sessions, kills,
          ready,        \* history: this session's writer has initialised the set
          early         \* history: a reader took a turn before that

objVars  == <<semExists, seg>>
histVars == <<prog, sessions, kills, ready, early>>
vars     == <<loopVars, objVars, histVars>>

Running(r) == rpc[r] \notin {"start", "done"}

Init == /\ prog \in Programs
        /\ sem = [s \in {WRITE_SEM, READ_SEM} |-> 0]
        /\ cnt = 0 /\ buf = Blank
        /\ pos = 0 /\ wcnt = 0 /\ wpc = "start" /\ wbytes = 0
        /\ rpc = [r \in Readers |-> "start"] /\ rbytes = [r \in Readers |-> 0]
        /\ out = <<>>
        /\ semExists = FALSE /\ seg = "none"
        /\ sessions = 0 /\ kills = 0
        /\ ready = FALSE /\ early = FALSE

----------------------------------------------------------------------------
(* Start of the writer.                                                    *)

\* semget with IPC_CREAT but not IPC_EXCL: a set left behind is taken over
\* with its values; a new one has zeros.  A new run has its own input and
\* output.
WriterSemget ==
  /\ wpc \in {"start", "done"} /\ sessions < MaxSessions
  /\ \A r \in Readers : ~Running(r)
  /\ semExists' = TRUE
  /\ sem' = IF semExists THEN sem ELSE [s \in {WRITE_SEM, READ_SEM} |-> 0]
  /\ wpc' = "init_write" /\ pos' = 0 /\ wcnt' = 0 /\ wbytes' = 0
  /\ rpc' = [r \in Readers |-> "start"] /\ rbytes' = [r \in Readers |-> 0]
  /\ out' = <<>>
  /\ sessions' = sessions + 1 /\ ready' = FALSE /\ early' = FALSE
  /\ UNCHANGED <<segVars, seg, prog, kills>>

\* Faulty: releases the writer's turn instead of setting its value.
WriterInitWriteAdds == /\ wpc = "init_write"
                       /\ IF prog = "flags" THEN SetEventFlag(WRITE_SEM)
                          ELSE ReleaseSem(WRITE_SEM)
                       /\ wpc' = "init_read"
                       /\ UNCHANGED <<segVars, pos, wcnt, wbytes, rVars, objVars,
                                      histVars>>

\* initSemAvailable or setEventFlag: the writer's turn.
WriterInitWrite == /\ wpc = "init_write"
                   /\ IF prog = "flags" THEN SetEventFlag(WRITE_SEM)
                      ELSE sem' = [sem EXCEPT ![WRITE_SEM] = 1]
                   /\ wpc' = "init_read"
                   /\ UNCHANGED <<segVars, pos, wcnt, wbytes, rVars, objVars,
                                  histVars>>

\* Faulty: trusts the zero of a new set.
WriterInitReadTrusts == /\ wpc = "init_read"
                        /\ wpc' = "segment"
                        /\ ready' = TRUE
                        /\ UNCHANGED <<sem, segVars, pos, wcnt, wbytes, rVars, objVars,
                                       prog, sessions, kills, early>>

\* initSemInUse or clearEventFlag: not the reader's.
WriterInitRead == /\ wpc = "init_read"
                  /\ IF prog = "flags" THEN ClearEventFlag(READ_SEM)
                     ELSE sem' = [sem EXCEPT ![READ_SEM] = 0]
                  /\ wpc' = "segment"
                  /\ ready' = TRUE
                  /\ UNCHANGED <<segVars, pos, wcnt, wbytes, rVars, objVars, prog,
                                 sessions, kills, early>>

\* shmget with IPC_CREAT, shmat: a segment left behind keeps its contents.
WriterShmget == /\ prog \in SysVPrograms
                /\ wpc = "segment"
                /\ seg' = "sized"
                /\ cnt' = IF seg = "none" THEN 0 ELSE cnt
                /\ buf' = IF seg = "none" THEN Blank ELSE buf
                /\ wpc' = "wait"
                /\ UNCHANGED <<sem, pos, wcnt, wbytes, rVars, semExists, histVars>>

\* open or shm_open with O_CREAT: a new object is empty until ftruncate.
WriterOpen == /\ prog \notin SysVPrograms
              /\ wpc = "segment"
              /\ seg' = IF seg = "none" THEN "empty" ELSE seg
              /\ wpc' = "truncate"
              /\ UNCHANGED <<sem, segVars, pos, wcnt, wbytes, rVars, semExists,
                             histVars>>

\* ftruncate, mmap: a new object gets zeros, an old one is left alone.
WriterTruncate == /\ wpc = "truncate"
                  /\ seg' = "sized"
                  /\ cnt' = IF seg = "empty" THEN 0 ELSE cnt
                  /\ buf' = IF seg = "empty" THEN Blank ELSE buf
                  /\ wpc' = "wait"
                  /\ UNCHANGED <<sem, pos, wcnt, wbytes, rVars, semExists,
                                 histVars>>

----------------------------------------------------------------------------
(* End of the writer: one more turn, then the objects are removed.         *)

\* Faulty: the objects are removed at end of file at once.
WriterLastTurnForgotten ==
  /\ wpc = "eof"
  /\ wpc' = "remove_sem"
  /\ UNCHANGED <<sem, segVars, pos, wcnt, wbytes, rVars, objVars, histVars>>

WriterLastTurn == /\ wpc = "eof"
                  /\ IF prog = "flags" THEN FlagIsSet(WRITE_SEM) /\ UNCHANGED sem
                     ELSE ReserveSem(WRITE_SEM)
                  /\ wpc' = "remove_sem"
                  /\ UNCHANGED <<segVars, pos, wcnt, wbytes, rVars, objVars,
                                 histVars>>

\* IPC_RMID on the set; the mapped file and the POSIX segment stay.
WriterRemoveSem == /\ wpc = "remove_sem"
                   /\ semExists' = FALSE
                   /\ wpc' = IF prog \in SysVPrograms THEN "remove_seg" ELSE "done"
                   /\ UNCHANGED <<sem, segVars, pos, wcnt, wbytes, rVars, seg,
                                  histVars>>

\* shmdt, then IPC_RMID on the segment.
WriterRemoveSeg == /\ wpc = "remove_seg"
                   /\ seg' = "none"
                   /\ wpc' = "done"
                   /\ UNCHANGED <<sem, segVars, pos, wcnt, wbytes, rVars,
                                  semExists, histVars>>

----------------------------------------------------------------------------
(* Start and end of a reader.                                              *)

\* semget without IPC_CREAT: the process exits when there is no set.
ReaderSemget(r) == /\ ReaderAt(r, "start") /\ semExists
                   /\ prog \in SharedBy \/ \A s \in Readers : ~Running(s)
                   /\ ReaderTo(r, "segment")
                   /\ rbytes' = [rbytes EXCEPT ![r] = 0]
                   /\ UNCHANGED <<sem, segVars, wVars, out, objVars, histVars>>

\* Faulty: the reader creates the segment when there is none.
ReaderShmgetCreates(r) == /\ ReaderAt(r, "segment")
                          /\ ReaderTo(r, "wait")
                          /\ seg' = "sized"
                          /\ UNCHANGED <<sem, segVars, wVars, rbytes, out, semExists,
                                         histVars>>

\* shmget without IPC_CREAT, shmat: an error exit when there is no segment.
ReaderShmget(r) == /\ ReaderAt(r, "segment")
                   /\ ReaderTo(r, IF seg = "sized" THEN "wait" ELSE "start")
                   /\ UNCHANGED <<sem, segVars, wVars, rbytes, out, objVars,
                                  histVars>>

\* open with O_CREAT, and a mapping of the full length even of an empty file.
ReaderOpen(r) == /\ ReaderAt(r, "segment")
                 /\ seg' = IF seg = "none" THEN "empty" ELSE seg
                 /\ ReaderTo(r, "wait")
                 /\ UNCHANGED <<sem, segVars, wVars, rbytes, out, semExists,
                                histVars>>

\* shm_open without O_CREAT, fstat: mmap of length 0 is an error exit as well.
ReaderShmOpen(r) == /\ ReaderAt(r, "segment")
                    /\ ReaderTo(r, IF seg = "sized" THEN "wait" ELSE "start")
                    /\ UNCHANGED <<sem, segVars, wVars, rbytes, out, objVars,
                                   histVars>>

ReaderDetach(r) == /\ ReaderAt(r, "eof")
                   /\ ReaderTo(r, "detached")
                   /\ UNCHANGED <<sem, segVars, wVars, rbytes, out, objVars,
                                  histVars>>

\* Faulty: the reader leaves without it.
ReaderLastReleaseForgotten(r, from) ==
  /\ ReaderAt(r, from) /\ semExists
  /\ ReaderTo(r, "done")
  /\ UNCHANGED <<sem, segVars, wVars, rbytes, out, objVars, histVars>>

\* "Give writer one more turn, so it can clean up".
ReaderLastRelease(r, from) ==
  /\ ReaderAt(r, from) /\ semExists
  /\ ReleaseSem(WRITE_SEM)
  /\ ReaderTo(r, "done")
  /\ UNCHANGED <<segVars, wVars, rbytes, out, objVars, histVars>>

ReaderLastSetFlag(r) ==
  /\ ReaderAt(r, "detached") /\ semExists
  /\ SetEventFlag(WRITE_SEM)
  /\ ReaderTo(r, "done")
  /\ UNCHANGED <<segVars, wVars, rbytes, out, objVars, histVars>>

\* A semaphore operation on a removed set fails: error exit.
ReaderSetGone(r) ==
  /\ ~semExists
  /\ \/ rpc[r] \in {"wait", "clear", "give", "detached"}
     \/ prog \notin SysVPrograms /\ rpc[r] = "eof"
  /\ ReaderTo(r, "start")
  /\ UNCHANGED <<sem, segVars, wVars, rbytes, out, objVars, histVars>>

----------------------------------------------------------------------------
(* The loops, inside a session.                                            *)

InLoop(step) == step /\ UNCHANGED <<objVars, histVars>>

\* A reader works on the segment alone, or on the semaphores of a live set.
ReaderInLoop(r, step) ==
  /\ semExists \/ rpc[r] \in {"test", "write"}
  /\ step
  /\ early' = (early \/ (ReaderAt(r, "wait") /\ ~ready))
  /\ UNCHANGED <<objVars, prog, sessions, kills, ready>>

WriterStart == \/ WriterSemget \/ WriterInitWrite \/ WriterInitRead
               \/ WriterShmget \/ WriterOpen \/ WriterTruncate
WriterEnd == WriterLastTurn \/ WriterRemoveSem \/ WriterRemoveSeg

\* svshm_xfr_writer, 48_01_xfr_writer, 49_02_xfr_writer, 54_01_xfr_writer.
SvshmWriter == prog = "svshm" /\ (WriterStart \/ InLoop(SemWriter) \/ WriterEnd)
EventWriter == prog = "flags" /\ (WriterStart \/ InLoop(FlagWriter) \/ WriterEnd)
MmapWriter  == prog = "file"  /\ (WriterStart \/ InLoop(FileWriter) \/ WriterEnd)
PosixWriter == prog = "posix" /\ (WriterStart \/ InLoop(SemWriter) \/ WriterEnd)

\* svshm_xfr_reader, 48_01_xfr_reader, 49_02_xfr_reader, 54_01_xfr_reader.
SvshmReader(r) ==
  /\ prog = "svshm"
  /\ \/ ReaderSemget(r) \/ ReaderShmget(r) \/ ReaderInLoop(r, SemReader(r))
     \/ ReaderDetach(r) \/ ReaderLastRelease(r, "detached") \/ ReaderSetGone(r)

EventReader(r) ==
  /\ prog = "flags"
  /\ \/ ReaderSemget(r) \/ ReaderShmget(r) \/ ReaderInLoop(r, FlagReader(r))
     \/ ReaderDetach(r) \/ ReaderLastSetFlag(r) \/ ReaderSetGone(r)

MmapReader(r) ==
  /\ prog = "file"
  /\ \/ ReaderSemget(r) \/ ReaderOpen(r) \/ ReaderInLoop(r, SemReader(r))
     \/ ReaderLastRelease(r, "eof") \/ ReaderSetGone(r)

PosixReader(r) ==
  /\ prog = "posix"
  /\ \/ ReaderSemget(r) \/ ReaderShmOpen(r) \/ ReaderInLoop(r, SemReader(r))
     \/ ReaderLastRelease(r, "eof") \/ ReaderSetGone(r)

----------------------------------------------------------------------------
(* Kills, and an error of read() or write(): the process is gone at once,  *)
(* the objects and the semaphore values stay (bsUseSemUndo is FALSE).      *)

KillWriter == /\ kills < MaxKills
              /\ wpc \notin {"start", "done"}
              /\ wpc' = "start"
              /\ kills' = kills + 1
              /\ UNCHANGED <<sem, segVars, pos, wcnt, wbytes, rVars, objVars,
                             prog, sessions, ready, early>>

\* Faulty: with SEM_UNDO the turn a dead reader reserved is given back.
KillReaderUndo(r) ==
  /\ kills < MaxKills
  /\ Running(r)
  /\ IF ReaderInside(r) THEN ReleaseSem(READ_SEM) ELSE UNCHANGED sem
  /\ ReaderTo(r, "start")
  /\ kills' = kills + 1
  /\ UNCHANGED <<segVars, wVars, rbytes, out, objVars, prog, sessions, ready, early>>

KillReader(r) == /\ kills < MaxKills
                 /\ Running(r)
                 /\ ReaderTo(r, "start")
                 /\ kills' = kills + 1
                 /\ UNCHANGED <<sem, segVars, wVars, rbytes, out, objVars, prog,
                                sessions, ready, early>>

\* Everyone has finished and no other session follows.
SessionOver == /\ wpc = "done" /\ sessions = MaxSessions
               /\ \A r \in Readers : ~Running(r)
               /\ UNCHANGED vars

Writer    == SvshmWriter \/ EventWriter \/ MmapWriter \/ PosixWriter
Reader(r) == SvshmReader(r) \/ EventReader(r) \/ MmapReader(r) \/ PosixReader(r)

Next == \/ Writer
        \/ \E r \in Readers : Reader(r)
        \/ KillWriter
        \/ \E r \in Readers : KillReader(r)
        \/ SessionOver

\* Both sides are run (a reader that came too early is run again), and each
\* is scheduled whenever it can take a step.
Fairness == WF_vars(Writer) /\ \A r \in Readers : WF_vars(Reader(r))

Spec == Init /\ [][Next]_vars /\ Fairness

----------------------------------------------------------------------------
TypeOK ==
  /\ LoopTypeOK
  /\ prog \in Programs
  /\ semExists \in BOOLEAN /\ ready \in BOOLEAN /\ early \in BOOLEAN
  /\ seg \in {"none", "empty", "sized"}
  /\ sessions \in 0 .. MaxSessions /\ kills \in 0 .. MaxKills

\* A reader takes its first turn only after the writer has set up both
\* semaphores.  The new set's zeros mean "set" to the event-flag programs, so
\* only the order of the writer's calls (semaphores first, segment last)
\* keeps a reader that starts at once from reading an unwritten segment.
TurnsFollowInit ==
  [][\A r \in Readers : ReaderAt(r, "wait") /\ rpc'[r] \in {"clear", "test"}
                          => ready]_vars

\* "We then know reader has finished, and so we can delete the IPC objects":
\* from the last turn on all the input is out, and no reader of that session
\* still touches the segment or has a semaphore operation to do before it is
\* done.
RemovalIsLast ==
  wpc \in {"remove_sem", "remove_seg", "done"} /\ ~early =>
     /\ Len(out) = NBytes
     /\ \A r \in Readers : ~ReaderInside(r) /\ rpc[r] \notin {"eof", "detached"}

\* The totals the two programs print are the same, and the input's length:
\* the writer adds the shared count after it has given its turn away.
TotalsAgree == wpc = "done" => /\ wbytes = NBytes
                               /\ \E r \in Readers : rbytes[r] = NBytes

\* No turn is given twice: reserveSem and releaseSem are not bounded, so a
\* second release would let both sides in at once.
TurnsAreSingle == ~early /\ ready => \A s \in {WRITE_SEM, READ_SEM} : sem[s] <= 1

\* Across kills and restarts what came out is a prefix of the input of the
\* writer last started, as long as no reader took a turn between that
\* writer's semget and the end of its initialisation: a reader killed with
\* the turn takes the turn with it, so nothing is skipped or written twice.
PrefixAcrossRestarts == ~early => OutputIsPrefix

OneTurnAcrossRestarts == ~early => OneTurn

----------------------------------------------------------------------------
(* The inductive invariant of the semaphore programs.                      *)

\* Until the set is initialised nobody has had a turn.
FreshInv == /\ wpc \in {"start", "init_write", "init_read"}
            /\ pos = 0 /\ out = <<>> /\ wbytes = 0
            /\ wpc = "init_read" => sem[WRITE_SEM] = 1
            /\ \A r \in Readers : ~ReaderHolds(r)

\* Between that and the loop the segment may change, and nobody looks at it.
SetupInv == /\ wpc \notin {"init_write", "init_read"}
            /\ wpc \in {"segment", "truncate"} =>
                 /\ pos = 0 /\ out = <<>> /\ wbytes = 0 /\ sem[READ_SEM] = 0
                 /\ \A r \in Readers : ~ReaderHolds(r)

SessionInv == /\ TypeOK
              /\ ~early /\ ~ready => FreshInv
              /\ ~early /\ ready => SetupInv /\ LoopInv(prog = "file")

----------------------------------------------------------------------------
\* A session in which nobody is killed comes to its end on both sides.
BothFinish == <>(wpc = "done" /\ \E r \in Readers : rpc[r] = "done")
=============================================================================
