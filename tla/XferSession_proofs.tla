------------------------- MODULE XferSession_proofs -------------------------
(***************************************************************************)
(* Safety of whole sessions of all four programs, with kills and restarts, *)
(* for every set of readers, input length, buffer size and number of       *)
(* sessions and kills; the event-flag programs with one reader at a time.  *)
(* Then what holds if nobody is killed: the totals, and the block copy.    *)
(***************************************************************************)
EXTENDS XferSession, XferLoop_proofs

USE DEF WRITE_SEM, READ_SEM

----------------------------------------------------------------------------
(* Types.                                                                  *)

LEMMA LoopStepsType ==
  ASSUME LoopTypeOK, NEW c, c = cnt \/ c = wcnt,
         \/ WriterReserve \/ WriterWaitFlag \/ WriterClearFlag \/ ReadShared
         \/ StoreCount \/ ReadPrivate \/ CopyOut \/ WriterRelease
         \/ WriterSetFlag \/ CheckEof(c) \/ AddCount(c)
  PROVE  LoopTypeOK'
<1> USE XferAssumption DEF LoopTypeOK, WriterPlaces, segVars, rVars
<1>1. CASE WriterReserve
  BY <1>1 DEF WriterReserve, ReserveSem
<1>2. CASE WriterRelease
  <2>1. sem' = [sem EXCEPT ![READ_SEM] = @ + 1] /\ wpc' = "check"
        /\ UNCHANGED <<cnt, buf, pos, wcnt, wbytes, rpc, rbytes, out>>
    BY <1>2 DEF WriterRelease, ReleaseSem
  <2> QED BY <2>1
<1>3. CASE WriterWaitFlag
  BY <1>3 DEF WriterWaitFlag
<1>4. CASE WriterClearFlag
  BY <1>4 DEF WriterClearFlag, ClearEventFlag
<1>5. CASE WriterSetFlag
  BY <1>5 DEF WriterSetFlag, SetEventFlag
<1>6. CASE ReadShared
  <2>1. PICK n \in ReadResults :
          wcnt' = n /\ pos' = pos + n /\ buf' = Filled(buf, pos, n)
    BY <1>6 DEF ReadShared
  <2>2. n \in 0 .. BufSize /\ pos + n \in 0 .. NBytes
    BY DEF ReadResults
  <2>3. buf' \in [1 .. BufSize -> 0 .. NBytes]
    BY <2>1, <2>2 DEF Filled
  <2> QED BY <1>6, <2>1, <2>2, <2>3 DEF ReadShared
<1>7. CASE ReadPrivate
  <2>1. PICK n \in ReadResults : wcnt' = n /\ pos' = pos + n
    BY <1>7 DEF ReadPrivate
  <2>2. n \in 0 .. BufSize /\ pos + n \in 0 .. NBytes
    BY DEF ReadResults
  <2> QED BY <1>7, <2>1, <2>2 DEF ReadPrivate
<1>8. CASE CopyOut
  <2>1. buf' = [i \in 1 .. BufSize |-> IF i <= wcnt THEN pos - wcnt + i ELSE 0]
    BY <1>8 DEF CopyOut, Filled, Blank
  <2>2. \A i \in 1 .. BufSize : (IF i <= wcnt THEN pos - wcnt + i ELSE 0) \in 0 .. NBytes
    OBVIOUS
  <2>3. buf' \in [1 .. BufSize -> 0 .. NBytes]
    BY <2>1, <2>2
  <2> QED BY <1>8, <2>3 DEF CopyOut
<1>9. CASE StoreCount
  BY <1>9 DEF StoreCount
<1>10. CASE CheckEof(c)
  BY <1>10 DEF CheckEof
<1>11. CASE AddCount(c)
  BY <1>11 DEF AddCount
<1> QED BY <1>1, <1>2, <1>3, <1>4, <1>5, <1>6, <1>7, <1>8, <1>9, <1>10, <1>11

LEMMA ReaderStepsType ==
  ASSUME LoopTypeOK, NEW r \in Readers,
         \/ ReaderReserve(r) \/ ReaderWaitFlag(r) \/ ReaderClearFlag(r)
         \/ ReaderTest(r) \/ ReaderWrite(r) \/ ReaderRelease(r) \/ ReaderSetFlag(r)
  PROVE  LoopTypeOK'
<1> USE XferAssumption DEF LoopTypeOK, ReaderPlaces, ReaderAt, ReaderTo, wVars, segVars
<1>1. CASE ReaderReserve(r)
  BY <1>1 DEF ReaderReserve, ReserveSem
<1>2. CASE ReaderWaitFlag(r)
  BY <1>2 DEF ReaderWaitFlag
<1>3. CASE ReaderClearFlag(r)
  BY <1>3 DEF ReaderClearFlag, ClearEventFlag
<1>4. CASE ReaderTest(r)
  BY <1>4 DEF ReaderTest
<1>5. CASE ReaderWrite(r)
  <2>1. out' \in Seq(0 .. NBytes)
    BY <1>5 DEF ReaderWrite
  <2> QED BY <1>5, <2>1 DEF ReaderWrite
<1>6. CASE ReaderRelease(r)
  BY <1>6 DEF ReaderRelease, ReleaseSem
<1>7. CASE ReaderSetFlag(r)
  BY <1>7 DEF ReaderSetFlag, SetEventFlag
<1> QED BY <1>1, <1>2, <1>3, <1>4, <1>5, <1>6, <1>7

LEMMA WriterStartType == TypeOK /\ WriterStart => TypeOK'
<1> SUFFICES ASSUME TypeOK, WriterStart PROVE TypeOK'
  OBVIOUS
<1> USE XferAssumption, SessionAssumption
    DEF TypeOK, LoopTypeOK, WriterPlaces, segVars, rVars, objVars, histVars
<1>1. CASE WriterSemget
  <2>1. wpc' = "init_write" /\ wcnt' = 0 /\ pos' = 0 /\ wbytes' = 0 /\ out' = <<>>
    BY <1>1 DEF WriterSemget
  <2>2. rpc' \in [Readers -> ReaderPlaces] /\ rbytes' \in [Readers -> Nat]
    BY <1>1 DEF WriterSemget, ReaderPlaces
  <2>3. sem' \in [{WRITE_SEM, READ_SEM} -> Nat]
    BY <1>1 DEF WriterSemget
  <2>4. /\ sessions' \in 0 .. MaxSessions /\ semExists' = TRUE
        /\ ready' = FALSE /\ early' = FALSE
        /\ UNCHANGED <<cnt, buf, seg, prog, kills>>
    BY <1>1 DEF WriterSemget
  <2>5. \A S : <<>> \in Seq(S)
    OBVIOUS
  <2>6. LoopTypeOK'
    BY <2>1, <2>2, <2>3, <2>4, <2>5
  <2> QED BY <2>4, <2>6
<1>2. CASE WriterInitWrite
  BY <1>2 DEF WriterInitWrite, SetEventFlag
<1>3. CASE WriterInitRead
  BY <1>3 DEF WriterInitRead, ClearEventFlag
<1>4. CASE WriterShmget
  BY <1>4 DEF WriterShmget, Blank
<1>5. CASE WriterOpen
  BY <1>5 DEF WriterOpen
<1>6. CASE WriterTruncate
  BY <1>6 DEF WriterTruncate, Blank
<1> QED BY <1>1, <1>2, <1>3, <1>4, <1>5, <1>6 DEF WriterStart

LEMMA WriterEndType == TypeOK /\ WriterEnd => TypeOK'
<1> SUFFICES ASSUME TypeOK, WriterEnd PROVE TypeOK'
  OBVIOUS
<1> USE DEF TypeOK, LoopTypeOK, WriterPlaces, segVars, rVars, objVars, histVars
<1>1. CASE WriterLastTurn
  BY <1>1 DEF WriterLastTurn, ReserveSem
<1>2. CASE WriterRemoveSem
  BY <1>2 DEF WriterRemoveSem
<1>3. CASE WriterRemoveSeg
  BY <1>3 DEF WriterRemoveSeg
<1> QED BY <1>1, <1>2, <1>3 DEF WriterEnd

LEMMA WriterType == TypeOK /\ Writer => TypeOK'
<1> SUFFICES ASSUME TypeOK, Writer PROVE TypeOK'
  OBVIOUS
<1>1. CASE InLoop(SemWriter) \/ InLoop(FlagWriter) \/ InLoop(FileWriter)
  <2>1. UNCHANGED <<objVars, histVars>>
    BY <1>1 DEF InLoop
  <2>2. LoopTypeOK'
    BY <1>1, LoopStepsType DEF InLoop, SemWriter, FlagWriter, FileWriter, TypeOK
  <2> QED BY <2>1, <2>2 DEF objVars, histVars, TypeOK
<1> QED
  BY <1>1, WriterStartType, WriterEndType
     DEF Writer, SvshmWriter, EventWriter, MmapWriter, PosixWriter

LEMMA ReaderType == TypeOK /\ (\E r \in Readers : Reader(r)) => TypeOK'
<1> SUFFICES ASSUME TypeOK, NEW r \in Readers, Reader(r) PROVE TypeOK'
  OBVIOUS
<1>0. \/ ReaderInLoop(r, SemReader(r)) \/ ReaderInLoop(r, FlagReader(r))
      \/ ReaderSemget(r) \/ ReaderShmget(r) \/ ReaderShmOpen(r) \/ ReaderOpen(r)
      \/ ReaderDetach(r) \/ ReaderSetGone(r) \/ ReaderLastRelease(r, "detached")
      \/ ReaderLastRelease(r, "eof") \/ ReaderLastSetFlag(r)
  BY DEF Reader, SvshmReader, EventReader, MmapReader, PosixReader
<1> USE DEF TypeOK
<1>1. CASE ReaderInLoop(r, SemReader(r)) \/ ReaderInLoop(r, FlagReader(r))
  <2>1. UNCHANGED <<objVars, prog, sessions, kills, ready>> /\ early' \in BOOLEAN
    BY <1>1 DEF ReaderInLoop, ReaderAt
  <2>2. LoopTypeOK'
    BY <1>1, ReaderStepsType DEF ReaderInLoop, SemReader, FlagReader
  <2> QED BY <2>1, <2>2 DEF objVars
<1> USE DEF LoopTypeOK, ReaderPlaces, ReaderAt, ReaderTo, wVars, segVars, objVars, histVars
<1>2. CASE ReaderSemget(r)
  BY <1>2 DEF ReaderSemget
<1>3. CASE ReaderShmget(r) \/ ReaderShmOpen(r)
  BY <1>3 DEF ReaderShmget, ReaderShmOpen
<1>4. CASE ReaderOpen(r)
  BY <1>4 DEF ReaderOpen
<1>5. CASE ReaderDetach(r) \/ ReaderSetGone(r)
  BY <1>5 DEF ReaderDetach, ReaderSetGone
<1>6. CASE ReaderLastRelease(r, "detached")
  BY <1>6 DEF ReaderLastRelease, ReleaseSem
<1>7. CASE ReaderLastRelease(r, "eof")
  BY <1>7 DEF ReaderLastRelease, ReleaseSem
<1>8. CASE ReaderLastSetFlag(r)
  BY <1>8 DEF ReaderLastSetFlag, SetEventFlag
<1> QED
  BY <1>0, <1>1, <1>2, <1>3, <1>4, <1>5, <1>6, <1>7, <1>8

LEMMA KillType ==
  TypeOK /\ (KillWriter \/ \E r \in Readers : KillReader(r)) => TypeOK'
<1> USE SessionAssumption
    DEF ReaderTo, TypeOK, LoopTypeOK, WriterPlaces, ReaderPlaces, wVars, rVars, segVars,
        objVars
<1>1. TypeOK /\ KillWriter => TypeOK'
  BY DEF KillWriter
<1>2. ASSUME TypeOK, NEW r \in Readers, KillReader(r) PROVE TypeOK'
  BY <1>2 DEF KillReader
<1> QED BY <1>1, <1>2

LEMMA InitType == Init => TypeOK
<1> SUFFICES ASSUME Init PROVE TypeOK
  OBVIOUS
<1> USE XferAssumption, SessionAssumption
<1>1. \A S : <<>> \in Seq(S)
  OBVIOUS
<1>2. LoopTypeOK
  BY <1>1 DEF Init, LoopTypeOK, WriterPlaces, ReaderPlaces, Blank
<1>3. /\ prog \in Programs /\ semExists = FALSE /\ ready = FALSE /\ early = FALSE
      /\ seg = "none" /\ sessions = 0 /\ kills = 0
  BY DEF Init
<1>4. 0 \in 0 .. MaxSessions /\ 0 \in 0 .. MaxKills
  BY DEF SessionAssumption
<1> QED BY <1>2, <1>3, <1>4 DEF TypeOK

LEMMA StutterType == TypeOK /\ UNCHANGED vars => TypeOK'
BY DEF TypeOK, LoopTypeOK, vars, loopVars, objVars, histVars, wVars, rVars, segVars

LEMMA NextType == TypeOK /\ [Next]_vars => TypeOK'
BY WriterType, ReaderType, KillType, StutterType DEF Next, SessionOver

\* Every variable keeps its type in all four programs, through kills and
\* restarts: no count exceeds the buffer, no read passes the end of input.
THEOREM TypeCorrect == Spec => []TypeOK
BY InitType, NextType, PTL DEF Spec

----------------------------------------------------------------------------
(* The invariant of the semaphore programs.                                *)

----------------------------------------------------------------------------
(* SessionInv is kept by each kind of step.  p stands for prog = "file".   *)

LEMMA SessionOf ==
  ASSUME NEW p \in BOOLEAN, p = (prog = "file"), SessionInv
  PROVE  /\ TypeOK
         /\ ~early /\ ~ready => FreshInv
         /\ ~early /\ ready => SetupInv /\ LoopInv(p)
BY DEF SessionInv, LoopInv, DataInv

LEMMA SessionFrom ==
  ASSUME NEW p \in BOOLEAN, p = (prog = "file"), prog' = prog, TypeOK',
         ~early' /\ ~ready' => FreshInv',
         ~early' /\ ready' => SetupInv' /\ LoopInv(p)'
  PROVE  SessionInv'
<1>1. CASE p
  <2>1. prog' = "file"
    BY <1>1
  <2>2. LoopInv(p)' => LoopInv(prog = "file")'
    BY <1>1, <2>1 DEF LoopInv, DataInv
  <2> QED BY <2>2 DEF SessionInv
<1>2. CASE ~p
  <2>1. prog' # "file"
    BY <1>2
  <2>2. LoopInv(p)' => LoopInv(prog = "file")'
    BY <1>2, <2>1 DEF LoopInv, DataInv
  <2> QED BY <2>2 DEF SessionInv
<1> QED BY <1>1, <1>2

LEMMA InitSession == Init => SessionInv
<1> SUFFICES ASSUME Init PROVE SessionInv
  OBVIOUS
<1>1. FreshInv
  BY DEF Init, FreshInv, ReaderHolds
<1> QED BY <1>1, InitType DEF Init, SessionInv

\* A reader comes or goes outside the loop, or is killed.
LEMMA ReaderOutsideSession ==
  ASSUME SessionInv, TypeOK', NEW r \in Readers,
         NEW l \in {"start", "segment", "wait", "detached"},
         ReaderTo(r, l), l = "detached" => rpc[r] = "eof",
         UNCHANGED <<sem, segVars, wVars, out, prog, ready, early>>
  PROVE  SessionInv'
<1>1. PICK p \in BOOLEAN : p = (prog = "file")
  OBVIOUS
<1>2. rpc' = [rpc EXCEPT ![r] = l] /\ rpc \in [Readers -> ReaderPlaces]
  BY DEF ReaderTo, SessionInv, TypeOK, LoopTypeOK
<1>3. \A s \in Readers : ReaderHolds(s)' => ReaderHolds(s)
  BY <1>2 DEF ReaderHolds
<1>4. FreshInv => FreshInv'
  BY <1>3 DEF FreshInv, wVars
<1>5. SetupInv => SetupInv'
  BY <1>3 DEF SetupInv, wVars
<1>6. LoopInv(p) => LoopInv(p)'
  BY ReaderOutsideInv DEF TypeOK, LoopTypeOK
<1> QED BY <1>1, <1>4, <1>5, <1>6, SessionOf, SessionFrom

LEMMA ReaderSession ==
  ASSUME SessionInv, prog # "flags", NEW r \in Readers, Reader(r)
  PROVE  SessionInv'
<1>0. TypeOK' /\ prog # "flags"
  BY ReaderType DEF SessionInv
<1>1. PICK p \in BOOLEAN : p = (prog = "file")
  OBVIOUS
<1>2. CASE ReaderInLoop(r, SemReader(r))
  <2>1. /\ SemReader(r) /\ UNCHANGED <<prog, ready>>
        /\ early' = (early \/ (rpc[r] = "wait" /\ ~ready))
    BY <1>2 DEF ReaderInLoop, ReaderAt
  <2>2. UNCHANGED wVars /\ rpc[r] \in {"wait", "test", "write", "give"}
    BY <2>1 DEF SemReader, ReaderReserve, ReaderTest, ReaderWrite, ReaderRelease, ReaderAt
  <2>3. FreshInv => rpc[r] = "wait"
    BY <2>2 DEF FreshInv, ReaderHolds
  <2>4. SetupInv => wpc \notin {"segment", "truncate"}
    <3> SUFFICES ASSUME SetupInv, wpc \in {"segment", "truncate"} PROVE FALSE
      OBVIOUS
    <3>1. rpc[r] = "wait" /\ sem[READ_SEM] = 0
      BY <2>2 DEF SetupInv, ReaderHolds
    <3> QED
      BY <3>1, <2>1 DEF SemReader, ReaderReserve, ReserveSem, ReaderTest, ReaderWrite,
                        ReaderRelease, ReaderAt
  <2>5. SetupInv => SetupInv'
    BY <2>2, <2>4 DEF SetupInv, wVars
  <2>6. LoopInv(p) => LoopInv(p)'
    BY <2>1, SemReaderInv
  <2> QED BY <1>0, <1>1, <2>1, <2>3, <2>5, <2>6, SessionOf, SessionFrom
<1>3. ASSUME NEW from \in {"eof", "detached"}, ReaderLastRelease(r, from)
      PROVE  SessionInv'
  <2>1. rpc[r] = from /\ UNCHANGED <<wpc, prog, ready, early>>
    BY <1>3 DEF ReaderLastRelease, ReaderAt, wVars, histVars
  <2>2. ~FreshInv /\ (SetupInv => wpc \notin {"segment", "truncate"})
    BY <2>1 DEF FreshInv, SetupInv, ReaderHolds
  <2>3. SetupInv => SetupInv'
    BY <2>1, <2>2 DEF SetupInv
  <2>4. LoopInv(p) => LoopInv(p)'
    BY <1>3, LastReleaseInv DEF ReaderLastRelease
  <2> QED BY <1>0, <1>1, <2>1, <2>2, <2>3, <2>4, SessionOf, SessionFrom
<1>4. CASE \/ ReaderSemget(r) \/ ReaderShmget(r) \/ ReaderShmOpen(r) \/ ReaderOpen(r)
           \/ ReaderDetach(r) \/ ReaderSetGone(r)
  <2>1. \E l \in {"start", "segment", "wait", "detached"} :
          ReaderTo(r, l) /\ (l = "detached" => rpc[r] = "eof")
    BY <1>4 DEF ReaderSemget, ReaderShmget, ReaderShmOpen, ReaderOpen, ReaderDetach,
                ReaderSetGone, ReaderAt
  <2>2. UNCHANGED <<sem, segVars, wVars, out, prog, ready, early>>
    BY <1>4 DEF ReaderSemget, ReaderShmget, ReaderShmOpen, ReaderOpen, ReaderDetach,
                ReaderSetGone, histVars
  <2> QED BY <1>0, <2>1, <2>2, ReaderOutsideSession
<1> QED
  BY <1>0, <1>2, <1>3, <1>4 DEF Reader, SvshmReader, EventReader, MmapReader, PosixReader

\* Setting up the segment, with the turn at the writer's semaphore.
LEMMA SetupSession ==
  ASSUME NEW p \in BOOLEAN, SetupInv, LoopInv(p), LoopTypeOK',
         wpc \in {"segment", "truncate"}, wpc' \in {"truncate", "wait"},
         UNCHANGED <<sem, pos, wcnt, wbytes, rVars>>
  PROVE  SetupInv' /\ LoopInv(p)'
<1> USE DEF rVars
<1>1. /\ pos = 0 /\ out = <<>> /\ wbytes = 0 /\ sem[READ_SEM] = 0
      /\ \A r \in Readers : ~ReaderHolds(r) /\ ~ReaderHolds(r)'
  BY DEF SetupInv, ReaderHolds
<1>2. SetupInv'
  BY <1>1 DEF SetupInv
<1>3. sem[WRITE_SEM] <= 1
  BY DEF LoopInv, LoopTypeOK, TurnInv
<1> QED BY <1>1, <1>2, <1>3, BeginInv

LEMMA WriterStartSession ==
  ASSUME SessionInv, prog # "flags", WriterStart
  PROVE  SessionInv'
<1>0. TypeOK'
  BY WriterStartType DEF SessionInv
<1>1. PICK p \in BOOLEAN : p = (prog = "file")
  OBVIOUS
<1>2. CASE WriterSemget
  <2>1. FreshInv' /\ ready' = FALSE /\ prog' = prog
    BY <1>2 DEF WriterSemget, FreshInv, ReaderHolds
  <2> QED BY <1>0, <1>1, <2>1, SessionFrom
<1>3. CASE WriterInitWrite
  <2>1. /\ wpc = "init_write" /\ wpc' = "init_read" /\ sem' = [sem EXCEPT ![WRITE_SEM] = 1]
        /\ UNCHANGED <<pos, out, wbytes, rpc, prog, ready, early>>
    BY <1>3 DEF WriterInitWrite, rVars, histVars
  <2>2. ~SetupInv /\ (FreshInv => FreshInv')
    BY <2>1 DEF SetupInv, FreshInv, ReaderHolds, SessionInv, TypeOK, LoopTypeOK
  <2> QED BY <1>0, <1>1, <2>1, <2>2, SessionOf, SessionFrom
<1>4. CASE WriterInitRead
  <2>1. /\ wpc = "init_read" /\ wpc' = "segment" /\ sem' = [sem EXCEPT ![READ_SEM] = 0]
        /\ UNCHANGED <<cnt, buf, pos, wcnt, wbytes, rpc, rbytes, out, prog, early>>
        /\ ready' = TRUE
    BY <1>4 DEF WriterInitRead, segVars, rVars
  <2>2. ~SetupInv
    BY <2>1 DEF SetupInv
  <2>3. ASSUME FreshInv PROVE SetupInv' /\ LoopInv(p)'
    <3>1. /\ pos = 0 /\ out = <<>> /\ wbytes = 0
          /\ sem'[WRITE_SEM] = 1 /\ sem'[READ_SEM] = 0
          /\ \A r \in Readers : ~ReaderHolds(r)'
      BY <2>1, <2>3 DEF FreshInv, ReaderHolds, SessionInv, TypeOK, LoopTypeOK
    <3>2. SetupInv'
      BY <2>1, <3>1 DEF SetupInv
    <3> QED BY <1>0, <2>1, <3>1, <3>2, BeginInv DEF TypeOK
  <2> QED BY <1>0, <1>1, <2>1, <2>2, <2>3, SessionOf, SessionFrom
<1>5. CASE WriterShmget \/ WriterOpen \/ WriterTruncate
  <2>1. /\ wpc \in {"segment", "truncate"} /\ wpc' \in {"truncate", "wait"}
        /\ UNCHANGED <<sem, pos, wcnt, wbytes, rVars, prog, ready, early>>
    BY <1>5 DEF WriterShmget, WriterOpen, WriterTruncate, histVars
  <2>2. ~FreshInv
    BY <2>1 DEF FreshInv
  <2>3. SetupInv /\ LoopInv(p) => SetupInv' /\ LoopInv(p)'
    BY <1>0, <2>1, SetupSession DEF TypeOK
  <2> QED BY <1>0, <1>1, <2>1, <2>2, <2>3, SessionOf, SessionFrom
<1> QED BY <1>2, <1>3, <1>4, <1>5 DEF WriterStart

\* A writer that is removing the objects, or killed at any place.
LEMMA WriterOutsideSession ==
  ASSUME SessionInv, TypeOK',
         \/ wpc' = "start"
         \/ wpc = "remove_sem" /\ wpc' \in {"remove_seg", "done"}
         \/ wpc = "remove_seg" /\ wpc' = "done",
         UNCHANGED <<sem, segVars, pos, wcnt, wbytes, rVars, prog, ready, early>>
  PROVE  SessionInv'
<1>1. PICK p \in BOOLEAN : p = (prog = "file")
  OBVIOUS
<1>2. FreshInv => FreshInv'
  BY DEF FreshInv, ReaderHolds, rVars
<1>3. SetupInv => SetupInv'
  BY DEF SetupInv
<1>4. LoopInv(p) => LoopInv(p)'
  BY WriterOutsideInv
<1> QED BY <1>1, <1>2, <1>3, <1>4, SessionOf, SessionFrom

LEMMA WriterSession ==
  ASSUME SessionInv, prog # "flags", Writer
  PROVE  SessionInv'
<1>0. TypeOK' /\ prog # "flags"
  BY WriterType DEF SessionInv
<1>1. PICK p \in BOOLEAN : p = (prog = "file")
  OBVIOUS
<1>2. ASSUME \/ prog = "file" /\ InLoop(FileWriter)
             \/ prog # "file" /\ InLoop(SemWriter)
      PROVE  SessionInv'
  <2>1. UNCHANGED <<prog, ready, early>>
    BY <1>2 DEF InLoop, histVars
  <2>2. LoopInv(p) => LoopInv(p)'
    BY <1>1, <1>2, SemWriterInv, FileWriterInv DEF InLoop
  <2>3. /\ wpc \in {"wait", "read", "store", "give", "check", "count"}
        /\ wpc' \in {"wait", "read", "store", "give", "check", "count", "eof"}
    BY <1>2 DEF InLoop, SemWriter, FileWriter, WriterReserve, ReadShared, StoreCount,
                ReadPrivate, CopyOut, WriterRelease, CheckEof, AddCount
  <2>4. ~FreshInv /\ SetupInv'
    BY <2>3 DEF FreshInv, SetupInv
  <2> QED BY <1>0, <1>1, <2>1, <2>2, <2>4, SessionOf, SessionFrom
<1>3. CASE WriterLastTurn
  <2>1. wpc = "eof" /\ wpc' = "remove_sem" /\ UNCHANGED <<prog, ready, early>>
    BY <1>3 DEF WriterLastTurn, histVars
  <2>2. ~FreshInv /\ SetupInv'
    BY <2>1 DEF FreshInv, SetupInv
  <2>3. LoopInv(p) => LoopInv(p)'
    BY <1>0, <1>3, LastTurnInv DEF WriterLastTurn
  <2> QED BY <1>0, <1>1, <2>1, <2>2, <2>3, SessionOf, SessionFrom
<1>4. CASE WriterRemoveSem \/ WriterRemoveSeg
  BY <1>0, <1>4, WriterOutsideSession DEF WriterRemoveSem, WriterRemoveSeg, histVars
<1> QED
  BY <1>0, <1>2, <1>3, <1>4, WriterStartSession
     DEF Writer, SvshmWriter, EventWriter, MmapWriter, PosixWriter, WriterEnd

LEMMA KillSession ==
  ASSUME SessionInv, KillWriter \/ \E r \in Readers : KillReader(r)
  PROVE  SessionInv'
<1>0. TypeOK'
  BY KillType DEF SessionInv
<1>1. CASE KillWriter
  BY <1>0, <1>1, WriterOutsideSession DEF KillWriter
<1>2. ASSUME NEW r \in Readers, KillReader(r) PROVE SessionInv'
  BY <1>0, <1>2, ReaderOutsideSession DEF KillReader
<1> QED BY <1>1, <1>2

LEMMA StutterSession == SessionInv /\ UNCHANGED vars => SessionInv'
<1> SUFFICES ASSUME SessionInv, UNCHANGED vars PROVE SessionInv'
  OBVIOUS
<1>1. PICK p \in BOOLEAN : p = (prog = "file")
  OBVIOUS
<1>2. UNCHANGED <<loopVars, prog, ready, early>>
  BY DEF vars, histVars
<1>3. TypeOK'
  BY StutterType DEF SessionInv
<1>4. LoopInv(p) => LoopInv(p)'
  BY <1>2, UnchangedLoopInv
<1>5. (FreshInv => FreshInv') /\ (SetupInv => SetupInv')
  BY <1>2 DEF loopVars, wVars, rVars, FreshInv, SetupInv, ReaderHolds
<1> QED BY <1>1, <1>2, <1>3, <1>4, <1>5, SessionOf, SessionFrom

----------------------------------------------------------------------------
(* The event-flag programs.  With one reader at a time the flags are       *)
(* semaphores: a flag that is set is a turn, waiting for it and clearing   *)
(* it are one reserve, made when the flag is cleared.                      *)

\* The turns that the flags stand for: the writer's last one is not taken
\* from its flag.
Turns == [s \in {WRITE_SEM, READ_SEM} |->
            IF s = WRITE_SEM /\ wpc \in Removing THEN 0 ELSE 1 - sem[s]]

\* Between its wait and its clear a process has not got the turn yet.
Waits(l) == IF l = "clear" THEN "wait" ELSE l
Place    == Waits(wpc)
Places   == [r \in Readers |-> Waits(rpc[r])]

F == INSTANCE XferLoop_proofs WITH sem <- Turns, wpc <- Place, rpc <- Places

\* No two readers run, unless the programs are to be shared.
OneReader == prog \notin SharedBy =>
               \A r, s \in Readers : Running(r) /\ Running(s) => r = s

NoTurns == /\ pos = 0 /\ out = <<>> /\ wbytes = 0
           /\ \A r \in Readers : ~ReaderHolds(r) /\ rpc[r] # "clear"

\* Until the flags are initialised nobody has had a turn, or is about to.
FlagFresh == /\ wpc \in {"start", "init_write", "init_read"}
             /\ wpc = "init_read" => sem[WRITE_SEM] = 0
             /\ NoTurns

\* Then the loops are those of the semaphore programs, and whoever is about
\* to clear a flag finds it set.
FlagLoop == /\ wpc \notin {"init_write", "init_read"}
            /\ wpc \in {"segment", "truncate"} => NoTurns /\ sem[READ_SEM] = 1
            /\ wpc = "clear" => sem[WRITE_SEM] = 0
            /\ \A r \in Readers : rpc[r] = "clear" => sem[READ_SEM] = 0
            /\ F!LoopInv(FALSE)

FlagInv == /\ TypeOK /\ OneReader
           /\ sem \in [{WRITE_SEM, READ_SEM} -> {0, 1}]
           /\ ~early /\ ~ready => FlagFresh
           /\ ~early /\ ready => FlagLoop

USE DEF F!WRITE_SEM, F!READ_SEM

LEMMA TurnsSame ==
  ASSUME UNCHANGED sem, (wpc' \in Removing) <=> (wpc \in Removing)
  PROVE  Turns' = Turns
BY DEF Turns

LEMMA TurnsDomain ==
  /\ Turns = [t \in {WRITE_SEM, READ_SEM} |-> Turns[t]]
  /\ Turns' = [t \in {WRITE_SEM, READ_SEM} |-> Turns'[t]]
BY DEF Turns

LEMMA TurnsAre ==
  ASSUME sem \in [{WRITE_SEM, READ_SEM} -> {0, 1}]
  PROVE  /\ Turns[READ_SEM] = 1 - sem[READ_SEM] /\ Turns[READ_SEM] \in {0, 1}
         /\ Turns[WRITE_SEM] = (IF wpc \in Removing THEN 0 ELSE 1 - sem[WRITE_SEM])
         /\ Turns[WRITE_SEM] \in {0, 1}
         /\ DOMAIN Turns = {WRITE_SEM, READ_SEM}
<1>1. sem[READ_SEM] \in {0, 1} /\ sem[WRITE_SEM] \in {0, 1}
  OBVIOUS
<1> QED BY <1>1 DEF Turns

\* Setting and clearing a flag, as adding and taking one turn.
LEMMA TurnsChange ==
  ASSUME sem \in [{WRITE_SEM, READ_SEM} -> {0, 1}], NEW s \in {WRITE_SEM, READ_SEM},
         wpc \notin Removing, wpc' \notin Removing
  PROVE  /\ sem[s] = 0 /\ ClearEventFlag(s) => Turns' = [Turns EXCEPT ![s] = @ - 1]
         /\ sem[s] = 1 /\ SetEventFlag(s) => Turns' = [Turns EXCEPT ![s] = @ + 1]
<1>1. \A t \in {WRITE_SEM, READ_SEM} : Turns[t] = 1 - sem[t] /\ Turns'[t] = 1 - sem'[t]
  BY DEF Turns
<1>3. Turns = [t \in {WRITE_SEM, READ_SEM} |-> Turns[t]]
      /\ Turns' = [t \in {WRITE_SEM, READ_SEM} |-> Turns'[t]]
  BY TurnsDomain
<1>4. ASSUME sem[s] = 0, ClearEventFlag(s) PROVE Turns' = [Turns EXCEPT ![s] = @ - 1]
  <2>1. sem'[s] = 1 /\ \A t \in {WRITE_SEM, READ_SEM} : t # s => sem'[t] = sem[t]
    BY <1>4 DEF ClearEventFlag
  <2> QED BY <1>1, <1>3, <1>4, <2>1
<1>5. ASSUME sem[s] = 1, SetEventFlag(s) PROVE Turns' = [Turns EXCEPT ![s] = @ + 1]
  <2>1. sem'[s] = 0 /\ \A t \in {WRITE_SEM, READ_SEM} : t # s => sem'[t] = sem[t]
    BY <1>5 DEF SetEventFlag
  <2> QED BY <1>1, <1>3, <1>5, <2>1
<1> QED BY <1>4, <1>5

\* The reader's flag does not depend on where the writer is.
LEMMA TurnsReadChange ==
  ASSUME sem \in [{WRITE_SEM, READ_SEM} -> {0, 1}], UNCHANGED wpc,
         sem[READ_SEM] = 0, ClearEventFlag(READ_SEM)
  PROVE  Turns' = [Turns EXCEPT ![READ_SEM] = @ - 1]
<1>1. sem'[READ_SEM] = 1 /\ sem'[WRITE_SEM] = sem[WRITE_SEM]
  BY DEF ClearEventFlag
<1>2. Turns'[READ_SEM] = Turns[READ_SEM] - 1 /\ Turns'[WRITE_SEM] = Turns[WRITE_SEM]
  BY <1>1 DEF Turns
<1> QED BY <1>2, TurnsDomain

LEMMA PlacesChange ==
  ASSUME rpc \in [Readers -> ReaderPlaces], NEW r \in Readers, NEW l, ReaderTo(r, l)
  PROVE  /\ Places[r] = Waits(rpc[r])
         /\ Places' = [Places EXCEPT ![r] = Waits(l)]
BY DEF Places, ReaderTo

LEMMA PlacesSame == UNCHANGED rpc => Places' = Places
BY DEF Places

\* A step of the flag writer is one of the semaphore writer, or none.
LEMMA FlagWriterMaps ==
  ASSUME sem \in [{WRITE_SEM, READ_SEM} -> {0, 1}], F!LoopInv(FALSE),
         wpc = "clear" => sem[WRITE_SEM] = 0, FlagWriter
  PROVE  F!SemWriter \/ UNCHANGED F!loopVars
<1> USE DEF Place, Waits, rVars, segVars, F!rVars, F!segVars, Removing
<1>1. CASE WriterWaitFlag
  <2>1. /\ wpc = "wait" /\ wpc' = "clear"
        /\ UNCHANGED <<sem, cnt, buf, pos, wcnt, wbytes, rpc, rbytes, out>>
    BY <1>1 DEF WriterWaitFlag
  <2>2. Turns' = Turns /\ Places' = Places /\ Place' = Place
    BY <2>1, TurnsSame, PlacesSame
  <2> QED BY <2>1, <2>2 DEF F!loopVars, F!wVars
<1>2. CASE WriterClearFlag
  <2>1. /\ wpc = "clear" /\ wpc' = "read" /\ ClearEventFlag(WRITE_SEM)
        /\ UNCHANGED <<cnt, buf, pos, wcnt, wbytes, rpc, rbytes, out>>
    BY <1>2 DEF WriterClearFlag
  <2>2. Turns' = [Turns EXCEPT ![WRITE_SEM] = @ - 1] /\ Turns[WRITE_SEM] = 1 /\ Places' = Places
    BY <2>1, TurnsAre, TurnsChange, PlacesSame
  <2>3. F!WriterReserve
    BY <2>1, <2>2 DEF F!WriterReserve, F!ReserveSem
  <2> QED BY <2>3 DEF F!SemWriter
<1>3. CASE WriterSetFlag
  <2>1. /\ wpc = "give" /\ wpc' = "check" /\ SetEventFlag(READ_SEM)
        /\ UNCHANGED <<cnt, buf, pos, wcnt, wbytes, rpc, rbytes, out>>
    BY <1>3 DEF WriterSetFlag
  <2>2. Turns[READ_SEM] = 0
    BY <2>1 DEF F!LoopInv, F!TurnInv, F!WriterHolds
  <2>3. Turns' = [Turns EXCEPT ![READ_SEM] = @ + 1] /\ Places' = Places
    BY <2>1, <2>2, TurnsAre, TurnsChange, PlacesSame
  <2>4. F!WriterRelease
    BY <2>1, <2>3 DEF F!WriterRelease, F!ReleaseSem
  <2> QED BY <2>4 DEF F!SemWriter
<1>4. CASE ReadShared \/ StoreCount \/ CheckEof(cnt) \/ AddCount(cnt)
  <2>1. wpc \notin Removing /\ wpc' \notin Removing /\ UNCHANGED <<sem, rpc>>
    BY <1>4 DEF ReadShared, StoreCount, CheckEof, AddCount
  <2>2. Turns' = Turns /\ Places' = Places
    BY <2>1, TurnsSame, PlacesSame
  <2>3. CASE ReadShared
    <3>1. F!ReadShared
      BY <2>2, <2>3 DEF ReadShared, F!ReadShared, ReadResults, F!ReadResults, Filled, F!Filled
    <3> QED BY <3>1 DEF F!SemWriter
  <2>4. CASE StoreCount
    <3>1. F!StoreCount
      BY <2>2, <2>4 DEF StoreCount, F!StoreCount
    <3> QED BY <3>1 DEF F!SemWriter
  <2>5. CASE CheckEof(cnt)
    <3>1. F!CheckEof(cnt)
      BY <2>2, <2>5 DEF CheckEof, F!CheckEof
    <3> QED BY <3>1 DEF F!SemWriter
  <2>6. CASE AddCount(cnt)
    <3>1. F!AddCount(cnt)
      BY <2>2, <2>6 DEF AddCount, F!AddCount
    <3> QED BY <3>1 DEF F!SemWriter
  <2> QED BY <1>4, <2>3, <2>4, <2>5, <2>6
<1> QED BY <1>1, <1>2, <1>3, <1>4 DEF FlagWriter

LEMMA FlagReaderMaps ==
  ASSUME sem \in [{WRITE_SEM, READ_SEM} -> {0, 1}], LoopTypeOK, F!LoopInv(FALSE),
         NEW r \in Readers, rpc[r] = "clear" => sem[READ_SEM] = 0, FlagReader(r)
  PROVE  F!SemReader(r) \/ UNCHANGED F!loopVars
<1> USE DEF ReaderAt, F!ReaderAt, F!ReaderTo, Waits, wVars, segVars, F!wVars, F!segVars
<1>0. /\ rpc \in [Readers -> ReaderPlaces] /\ Places[r] = Waits(rpc[r])
      /\ \A l : ReaderTo(r, l) => Places' = [Places EXCEPT ![r] = Waits(l)]
  BY PlacesChange DEF LoopTypeOK, Places
<1>1. UNCHANGED wpc /\ Place' = Place
  BY DEF FlagReader, ReaderWaitFlag, ReaderClearFlag, ReaderTest, ReaderWrite,
         ReaderSetFlag, Place
<1>2. CASE ReaderWaitFlag(r)
  <2>1. Places' = [Places EXCEPT ![r] = "wait"] /\ Places[r] = "wait" /\ UNCHANGED sem
    BY <1>0, <1>2 DEF ReaderWaitFlag
  <2>2. Places' = Places /\ Turns' = Turns
    BY <1>1, <2>1, TurnsSame DEF Places
  <2> QED BY <1>1, <1>2, <2>2 DEF ReaderWaitFlag, F!loopVars, F!rVars
<1>3. CASE ReaderClearFlag(r)
  <2>1. Places' = [Places EXCEPT ![r] = "test"] /\ Places[r] = "wait" /\ ClearEventFlag(READ_SEM)
        /\ sem[READ_SEM] = 0
    BY <1>0, <1>3 DEF ReaderClearFlag
  <2>2. Turns' = [Turns EXCEPT ![READ_SEM] = @ - 1]
    BY <1>1, <2>1, TurnsReadChange
  <2>3. Turns[READ_SEM] = 1
    BY <2>1, TurnsAre
  <2>4. F!ReaderReserve(r)
    BY <1>1, <1>3, <2>1, <2>2, <2>3 DEF ReaderClearFlag, F!ReaderReserve, F!ReserveSem
  <2> QED BY <2>4 DEF F!SemReader
<1>4. CASE ReaderSetFlag(r)
  <2>1. Places' = [Places EXCEPT ![r] = "wait"] /\ Places[r] = "give" /\ SetEventFlag(WRITE_SEM)
    BY <1>0, <1>4 DEF ReaderSetFlag
  <2>2. Turns[WRITE_SEM] = 0 /\ wpc \notin Removing
    BY <2>1 DEF F!LoopInv, F!TurnInv, F!WriterHolds, F!ReaderHolds, Place, Removing
  <2>3. Turns' = [Turns EXCEPT ![WRITE_SEM] = @ + 1]
    BY <1>1, <2>1, <2>2, TurnsAre, TurnsChange
  <2>4. F!ReaderRelease(r)
    BY <1>1, <1>4, <2>1, <2>3 DEF ReaderSetFlag, F!ReaderRelease, F!ReleaseSem
  <2> QED BY <2>4 DEF F!SemReader
<1>5. CASE ReaderTest(r)
  <2>1. Places' = [Places EXCEPT ![r] = IF cnt = 0 THEN "eof" ELSE "write"] /\ Places[r] = "test"
    BY <1>0, <1>5 DEF ReaderTest
  <2>2. Turns' = Turns
    BY <1>1, <1>5, TurnsSame DEF ReaderTest
  <2>3. F!ReaderTest(r)
    BY <1>1, <1>5, <2>1, <2>2 DEF ReaderTest, F!ReaderTest
  <2> QED BY <2>3 DEF F!SemReader
<1>6. CASE ReaderWrite(r)
  <2>1. Places' = [Places EXCEPT ![r] = "give"] /\ Places[r] = "write"
    BY <1>0, <1>6 DEF ReaderWrite
  <2>2. Turns' = Turns
    BY <1>1, <1>6, TurnsSame DEF ReaderWrite
  <2>3. F!ReaderWrite(r)
    BY <1>1, <1>6, <2>1, <2>2 DEF ReaderWrite, F!ReaderWrite
  <2> QED BY <2>3 DEF F!SemReader
<1> QED BY <1>2, <1>3, <1>4, <1>5, <1>6 DEF FlagReader

\* With a p of FALSE, LoopInv of the flags' view is the one of a shared buffer.
LEMMA Private ==
  ASSUME NEW p \in BOOLEAN, ~p
  PROVE  (F!LoopInv(p) <=> F!LoopInv(FALSE)) /\ (F!LoopInv(p)' <=> F!LoopInv(FALSE)')
BY DEF F!LoopInv, F!DataInv

LEMMA FlagTypes ==
  ASSUME LoopTypeOK', sem' \in [{WRITE_SEM, READ_SEM} -> {0, 1}]
  PROVE  F!LoopTypeOK'
<1>1. Turns' \in [{WRITE_SEM, READ_SEM} -> Nat]
  BY DEF Turns
<1>2. Place' \in WriterPlaces /\ Places' \in [Readers -> ReaderPlaces]
  BY DEF LoopTypeOK, Place, Places, Waits, WriterPlaces, ReaderPlaces
<1> QED BY <1>1, <1>2 DEF LoopTypeOK, F!LoopTypeOK, WriterPlaces, ReaderPlaces, F!WriterPlaces, F!ReaderPlaces

LEMMA HoldersAre ==
  ASSUME NEW r \in Readers
  PROVE  /\ F!ReaderHolds(r) <=> ReaderHolds(r)
         /\ F!ReaderHolds(r)' <=> ReaderHolds(r)'
BY DEF F!ReaderHolds, ReaderHolds, Places, Waits

LEMMA FlagInit == Init /\ prog = "flags" => FlagInv
<1> SUFFICES ASSUME Init, prog = "flags" PROVE FlagInv
  OBVIOUS
<1>1. TypeOK
  BY InitType
<1> QED BY <1>1 DEF Init, FlagInv, FlagFresh, NoTurns, OneReader, Running, ReaderHolds

\* No second reader starts, unless the programs are shared.
LEMMA OneReaderNext ==
  ASSUME TypeOK, OneReader, [Next]_vars
  PROVE  OneReader'
<1>1. ASSUME prog' = prog, \A r \in Readers : Running(r)' => Running(r)
      PROVE  OneReader'
  BY <1>1 DEF OneReader
<1>2. CASE Writer
  <2>1. prog' = prog /\ (rpc' = rpc \/ rpc' = [r \in Readers |-> "start"])
    BY <1>2 DEF Writer, SvshmWriter, EventWriter, MmapWriter, PosixWriter, WriterStart, WriterEnd,
         InLoop, SemWriter, FlagWriter, FileWriter, WriterSemget, WriterInitWrite, WriterInitRead,
         WriterShmget, WriterOpen, WriterTruncate, WriterLastTurn, WriterRemoveSem, WriterRemoveSeg,
         WriterReserve, WriterWaitFlag, WriterClearFlag, ReadShared, StoreCount, ReadPrivate, CopyOut,
         WriterRelease, WriterSetFlag, CheckEof, AddCount, rVars, histVars
  <2> QED BY <1>1, <2>1 DEF Running
<1>3. ASSUME NEW r \in Readers, Reader(r) PROVE OneReader'
  <2>0. rpc \in [Readers -> ReaderPlaces]
    BY DEF TypeOK, LoopTypeOK
  <2>1. CASE ReaderSemget(r)
    <3>1. /\ prog' = prog /\ rpc' = [rpc EXCEPT ![r] = "segment"]
          /\ prog \in SharedBy \/ \A s \in Readers : ~Running(s)
      BY <2>1 DEF ReaderSemget, ReaderTo, histVars
    <3> QED BY <2>0, <3>1 DEF OneReader, Running
  <2>2. CASE ~ReaderSemget(r)
    <3>1. /\ prog' = prog /\ Running(r) 
          /\ \E l : rpc' = [rpc EXCEPT ![r] = l]
      BY <1>3, <2>2 DEF Reader, SvshmReader, EventReader, MmapReader, PosixReader, ReaderShmget,
           ReaderOpen, ReaderShmOpen, ReaderDetach, ReaderLastRelease, ReaderLastSetFlag,
           ReaderSetGone, ReaderInLoop, SemReader, FlagReader, ReaderReserve, ReaderWaitFlag,
           ReaderClearFlag, ReaderTest, ReaderWrite, ReaderRelease, ReaderSetFlag, ReaderAt,
           ReaderTo, Running, histVars
    <3> QED BY <2>0, <1>1, <3>1 DEF Running
  <2> QED BY <2>1, <2>2
<1>4. CASE KillWriter \/ SessionOver \/ UNCHANGED vars
  BY <1>1, <1>4 DEF KillWriter, SessionOver, Running, vars, loopVars, rVars, histVars
<1>5. ASSUME NEW r \in Readers, KillReader(r) PROVE OneReader'
  <2>1. prog' = prog /\ rpc' = [rpc EXCEPT ![r] = "start"]
    BY <1>5 DEF KillReader, ReaderTo
  <2> QED BY <1>1, <2>1 DEF Running, TypeOK, LoopTypeOK
<1> QED BY <1>2, <1>3, <1>4, <1>5 DEF Next

\* Steps outside the loops, seen as those of the semaphore programs.
LEMMA FlagReaderOutside ==
  ASSUME TypeOK, TypeOK', OneReader', FlagInv, NEW r \in Readers,
         NEW l \in {"start", "segment", "wait", "detached"},
         ReaderTo(r, l), l = "detached" => rpc[r] = "eof",
         UNCHANGED <<sem, segVars, wVars, out, prog, ready, early>>
  PROVE  FlagInv'
<1>1. PICK p \in BOOLEAN : ~p
  OBVIOUS
<1>2. rpc' = [rpc EXCEPT ![r] = l] /\ rpc \in [Readers -> ReaderPlaces]
      /\ rbytes' \in [Readers -> Nat] /\ UNCHANGED <<wpc, cnt, buf, pos, wcnt, wbytes>>
  BY DEF ReaderTo, TypeOK, LoopTypeOK, wVars, segVars
<1>3. NoTurns => NoTurns'
  BY <1>2 DEF NoTurns, ReaderHolds
<1>4. F!LoopInv(FALSE) => F!LoopInv(FALSE)'
  <2>1. Places' = [Places EXCEPT ![r] = l] /\ Places[r] = Waits(rpc[r])
    BY <1>2, PlacesChange DEF Waits
  <2>2. Turns' = Turns /\ Place' = Place
    BY <1>2, TurnsSame DEF Place
  <2>3. l = "detached" => Places[r] = "eof"
    BY <2>1 DEF Waits
  <2>4. F!ReaderTo(r, l) /\ UNCHANGED <<Turns, F!segVars, F!wVars, out>>
    BY <1>2, <2>1, <2>2 DEF F!ReaderTo, F!segVars, F!wVars
  <2>5. F!LoopInv(p) => F!LoopInv(p)'
    BY <1>2, <2>3, <2>4, XferAssumption, F!ReaderOutsideInv
  <2> QED BY <1>1, <2>5, Private
<1>5. FlagLoop => FlagLoop'
  BY <1>2, <1>3, <1>4 DEF FlagLoop
<1> QED BY <1>2, <1>3, <1>5 DEF FlagInv, FlagFresh

LEMMA FlagLastReleaseMaps ==
  ASSUME TypeOK, sem \in [{WRITE_SEM, READ_SEM} -> {0, 1}], F!LoopInv(FALSE),
         NEW r \in Readers, ReaderLastSetFlag(r)
  PROVE  /\ Places[r] = "detached" /\ F!ReaderTo(r, "done") /\ F!ReleaseSem(WRITE_SEM)
         /\ UNCHANGED <<F!segVars, F!wVars, rbytes, out>>
<1>1. /\ rpc[r] = "detached" /\ SetEventFlag(WRITE_SEM) /\ ReaderTo(r, "done")
      /\ UNCHANGED <<cnt, buf, pos, wcnt, wpc, wbytes, rbytes, out>>
  BY DEF ReaderLastSetFlag, ReaderAt, segVars, wVars
<1>2. Places' = [Places EXCEPT ![r] = "done"] /\ Places[r] = "detached"
  BY <1>1, PlacesChange DEF Waits, TypeOK, LoopTypeOK
<1>3. Turns[WRITE_SEM] = 0 /\ wpc \notin Removing
  BY <1>2 DEF F!LoopInv, F!TurnInv, F!WriterHolds, F!ReaderHolds, Place, Removing, Waits
<1>4. Turns' = [Turns EXCEPT ![WRITE_SEM] = @ + 1]
  BY <1>1, <1>3, TurnsAre, TurnsChange
<1> QED BY <1>1, <1>2, <1>4 DEF F!ReaderTo, F!ReleaseSem, F!segVars, F!wVars, Place

LEMMA FlagReaderSession ==
  ASSUME FlagInv, prog = "flags", "flags" \notin SharedBy, TypeOK', OneReader',
         NEW r \in Readers, Reader(r)
  PROVE  FlagInv'
<1>0. TypeOK /\ rpc \in [Readers -> ReaderPlaces] /\ sem \in [{WRITE_SEM, READ_SEM} -> {0, 1}]
  BY DEF FlagInv, TypeOK, LoopTypeOK
<1>1. \/ ReaderInLoop(r, FlagReader(r)) \/ ReaderLastSetFlag(r)
      \/ ReaderSemget(r) \/ ReaderShmget(r) \/ ReaderDetach(r) \/ ReaderSetGone(r)
  BY DEF Reader, SvshmReader, EventReader, MmapReader, PosixReader
<1>2. CASE ReaderSemget(r) \/ ReaderShmget(r) \/ ReaderDetach(r) \/ ReaderSetGone(r)
  <2>1. \E l \in {"start", "segment", "wait", "detached"} :
          ReaderTo(r, l) /\ (l = "detached" => rpc[r] = "eof")
    BY <1>2 DEF ReaderSemget, ReaderShmget, ReaderDetach, ReaderSetGone, ReaderAt
  <2>2. UNCHANGED <<sem, segVars, wVars, out, prog, ready, early>>
    BY <1>2 DEF ReaderSemget, ReaderShmget, ReaderDetach, ReaderSetGone, histVars
  <2> QED BY <1>0, <2>1, <2>2, FlagReaderOutside
<1>3. CASE ReaderLastSetFlag(r)
  <2>1. PICK p \in BOOLEAN : ~p
    OBVIOUS
  <2>2. /\ rpc[r] = "detached" /\ rpc' = [rpc EXCEPT ![r] = "done"] /\ SetEventFlag(WRITE_SEM)
        /\ ReaderTo(r, "done")
        /\ UNCHANGED <<cnt, buf, pos, wcnt, wpc, wbytes, rbytes, out, prog, ready, early>>
    BY <1>3 DEF ReaderLastSetFlag, ReaderAt, ReaderTo, segVars, wVars, histVars
  <2>3. /\ sem' \in [{WRITE_SEM, READ_SEM} -> {0, 1}]
        /\ sem'[WRITE_SEM] = 0 /\ sem'[READ_SEM] = sem[READ_SEM]
    BY <1>0, <2>2 DEF SetEventFlag
  <2>4. ~NoTurns
    BY <2>2 DEF NoTurns, ReaderHolds
  <2>5. ASSUME FlagLoop PROVE FlagLoop'
    <3>4. /\ Places[r] = "detached" /\ F!ReaderTo(r, "done") /\ F!ReleaseSem(WRITE_SEM)
          /\ UNCHANGED <<F!segVars, F!wVars, rbytes, out>>
      BY <1>0, <1>3, <2>5, FlagLastReleaseMaps DEF FlagLoop
    <3>5. F!LoopInv(p) => F!LoopInv(p)'
      BY <3>4, XferAssumption, F!LastReleaseInv DEF F!ReaderAt
    <3>6. F!LoopInv(FALSE)'
      BY <2>1, <2>5, <3>5, Private DEF FlagLoop
    <3> QED BY <1>0, <2>2, <2>3, <2>4, <2>5, <3>6 DEF FlagLoop
  <2> QED BY <2>2, <2>3, <2>4, <2>5 DEF FlagInv, FlagFresh
<1>4. CASE ReaderInLoop(r, FlagReader(r))
  <2>1. PICK p \in BOOLEAN : ~p
    OBVIOUS
  <2>2. /\ FlagReader(r) /\ UNCHANGED <<prog, ready>>
        /\ early' = (early \/ (rpc[r] = "wait" /\ ~ready))
    BY <1>4 DEF ReaderInLoop, ReaderAt
  <2>3. /\ UNCHANGED <<wpc, pos, wcnt, wbytes>>
        /\ rpc[r] \in {"wait", "clear", "test", "write", "give"}
        /\ rpc[r] # "wait" \/ sem[READ_SEM] = 0
    BY <2>2 DEF FlagReader, ReaderWaitFlag, ReaderClearFlag, ReaderTest, ReaderWrite,
                ReaderSetFlag, ReaderAt, FlagIsSet, wVars
  <2>4. NoTurns => rpc[r] = "wait"
    BY <2>3 DEF NoTurns, ReaderHolds
  <2>5. /\ sem' \in [{WRITE_SEM, READ_SEM} -> {0, 1}]
        /\ sem[WRITE_SEM] = 0 => sem'[WRITE_SEM] = 0
        /\ \A s \in Readers : s # r => rpc'[s] = rpc[s]
        /\ sem'[READ_SEM] = sem[READ_SEM] \/ (rpc'[r] = "test" /\ rpc[r] = "clear")
        /\ rpc'[r] = "clear" => sem'[READ_SEM] = 0
    <3>1. CASE ReaderWaitFlag(r)
      BY <1>0, <3>1 DEF ReaderWaitFlag, FlagIsSet, ReaderTo
    <3>2. CASE ReaderClearFlag(r)
      BY <1>0, <3>2 DEF ReaderClearFlag, ClearEventFlag, ReaderAt, ReaderTo
    <3>3. CASE ReaderTest(r) \/ ReaderWrite(r)
      BY <1>0, <3>3 DEF ReaderTest, ReaderWrite, ReaderTo
    <3>4. CASE ReaderSetFlag(r)
      BY <1>0, <3>4 DEF ReaderSetFlag, SetEventFlag, ReaderTo
    <3> QED BY <2>2, <3>1, <3>2, <3>3, <3>4 DEF FlagReader
  <2>6. ASSUME FlagLoop, ~early PROVE FlagLoop'
    <3>1. F!SemReader(r) \/ UNCHANGED F!loopVars
      BY <1>0, <2>2, <2>6, FlagReaderMaps DEF FlagLoop, TypeOK
    <3>2. F!LoopInv(p) /\ F!SemReader(r) => F!LoopInv(p)'
      BY XferAssumption, F!SemReaderInv
    <3>3. F!LoopInv(p) /\ UNCHANGED F!loopVars => F!LoopInv(p)'
      BY XferAssumption, F!UnchangedLoopInv
    <3>6. F!LoopInv(FALSE)'
      BY <2>1, <2>6, <3>1, <3>2, <3>3, Private DEF FlagLoop
    <3>4. wpc \notin {"segment", "truncate"}
      BY <2>3, <2>4, <2>6 DEF FlagLoop
    <3>5. ASSUME NEW s \in Readers, rpc'[s] = "clear" PROVE sem'[READ_SEM] = 0
      <4>1. CASE s = r
        BY <2>5, <3>5, <4>1
      <4>2. CASE s # r
        <5>1. rpc[s] = "clear" /\ sem[READ_SEM] = 0
          BY <2>5, <2>6, <3>5, <4>2 DEF FlagLoop
        <5>2. rpc[r] # "clear"
          BY <4>2, <5>1 DEF FlagInv, OneReader, Running
        <5> QED BY <2>5, <5>1, <5>2
      <4> QED BY <4>1, <4>2
    <3> QED BY <2>3, <2>5, <2>6, <3>6, <3>4, <3>5 DEF FlagLoop
  <2> QED BY <2>2, <2>3, <2>4, <2>5, <2>6 DEF FlagInv, FlagFresh
<1> QED BY <1>1, <1>2, <1>3, <1>4

\* Both flags initialised, or the segment there: the loops begin.
LEMMA FlagBegin ==
  ASSUME LoopTypeOK', wpc' \in {"segment", "wait"}, NoTurns', pos' = 0,
         sem' \in [{WRITE_SEM, READ_SEM} -> {0, 1}], sem'[READ_SEM] = 1
  PROVE  FlagLoop'
<1>1. PICK p \in BOOLEAN : ~p
  OBVIOUS
<1>2. F!LoopTypeOK' /\ Place' = wpc'
  BY FlagTypes DEF Place, Waits
<1>3. Turns'[READ_SEM] = 0 /\ Turns'[WRITE_SEM] <= 1
  <2>1. sem'[WRITE_SEM] \in {0, 1}
    OBVIOUS
  <2> QED BY <2>1 DEF Turns
<1>4. \A r \in Readers : ~F!ReaderHolds(r)'
  BY HoldersAre DEF NoTurns
<1>5. F!LoopInv(p)'
  BY <1>2, <1>3, <1>4, XferAssumption, F!BeginInv DEF NoTurns
<1>6. F!LoopInv(FALSE)'
  BY <1>1, <1>5, Private
<1> QED BY <1>6 DEF FlagLoop, NoTurns

LEMMA FlagWriterStart ==
  ASSUME FlagInv, prog = "flags", TypeOK', OneReader', WriterStart
  PROVE  FlagInv'
<1>0. /\ sem \in [{WRITE_SEM, READ_SEM} -> {0, 1}] /\ rpc \in [Readers -> ReaderPlaces]
      /\ LoopTypeOK'
  BY DEF FlagInv, TypeOK, LoopTypeOK
<1>1. CASE WriterSemget
  <2>1. sem' \in [{WRITE_SEM, READ_SEM} -> {0, 1}]
    BY <1>0, <1>1 DEF WriterSemget
  <2>2. FlagFresh' /\ ready' = FALSE
    BY <1>1 DEF WriterSemget, FlagFresh, NoTurns, ReaderHolds
  <2> QED BY <2>1, <2>2 DEF FlagInv
<1>2. CASE WriterInitWrite
  <2>1. /\ wpc = "init_write" /\ wpc' = "init_read" /\ sem' = [sem EXCEPT ![WRITE_SEM] = 0]
        /\ UNCHANGED <<pos, out, wbytes, rpc, ready, early>>
    BY <1>2 DEF WriterInitWrite, SetEventFlag, rVars, histVars
  <2>2. sem' \in [{WRITE_SEM, READ_SEM} -> {0, 1}] /\ sem'[WRITE_SEM] = 0
    BY <1>0, <2>1
  <2>3. FlagFresh => FlagFresh'
    BY <2>1, <2>2 DEF FlagFresh, NoTurns, ReaderHolds
  <2> QED BY <2>1, <2>2, <2>3 DEF FlagInv, FlagLoop
<1>3. CASE WriterInitRead
  <2>1. /\ wpc = "init_read" /\ wpc' = "segment" /\ sem' = [sem EXCEPT ![READ_SEM] = 1]
        /\ UNCHANGED <<pos, out, wbytes, rpc, early>> /\ ready' = TRUE
    BY <1>3 DEF WriterInitRead, ClearEventFlag, rVars
  <2>2. sem' \in [{WRITE_SEM, READ_SEM} -> {0, 1}] /\ sem'[READ_SEM] = 1
    BY <1>0, <2>1
  <2>3. ASSUME FlagFresh PROVE FlagLoop'
    <3>1. NoTurns' /\ pos' = 0
      BY <2>1, <2>3 DEF FlagFresh, NoTurns, ReaderHolds
    <3> QED BY <1>0, <2>1, <2>2, <3>1, FlagBegin
  <2> QED BY <2>1, <2>2, <2>3 DEF FlagInv, FlagLoop
<1>4. CASE WriterShmget
  <2>1. /\ wpc = "segment" /\ wpc' = "wait" /\ UNCHANGED <<sem, pos, out, wbytes, rpc, ready, early>>
    BY <1>4 DEF WriterShmget, rVars, histVars
  <2>2. ASSUME FlagLoop PROVE FlagLoop'
    <3>1. NoTurns' /\ pos' = 0 /\ sem'[READ_SEM] = 1
      BY <2>1, <2>2 DEF FlagLoop, NoTurns, ReaderHolds
    <3> QED BY <1>0, <2>1, <3>1, FlagBegin
  <2> QED BY <1>0, <2>1, <2>2 DEF FlagInv, FlagFresh
<1>5. ~WriterOpen
  BY DEF WriterOpen, SysVPrograms
<1>6. CASE WriterTruncate
  <2>1. /\ wpc = "truncate" /\ wpc' = "wait" /\ UNCHANGED <<sem, pos, out, wbytes, rpc, ready, early>>
    BY <1>6 DEF WriterTruncate, rVars, histVars
  <2>2. ASSUME FlagLoop PROVE FlagLoop'
    <3>1. NoTurns' /\ pos' = 0 /\ sem'[READ_SEM] = 1
      BY <2>1, <2>2 DEF FlagLoop, NoTurns, ReaderHolds
    <3> QED BY <1>0, <2>1, <3>1, FlagBegin
  <2> QED BY <1>0, <2>1, <2>2 DEF FlagInv, FlagFresh
<1> QED BY <1>1, <1>2, <1>3, <1>4, <1>5, <1>6 DEF WriterStart

\* The writer leaves, at its end or killed; a turn it did not take from its
\* flag is still there.
LEMMA FlagWriterOutside ==
  ASSUME FlagInv, TypeOK', OneReader',
         \/ wpc' = "start"
         \/ wpc = "remove_sem" /\ wpc' \in {"remove_seg", "done"}
         \/ wpc = "remove_seg" /\ wpc' = "done",
         wpc # "done",
         UNCHANGED <<sem, segVars, pos, wcnt, wbytes, rVars, prog, ready, early>>
  PROVE  FlagInv'
<1>0. /\ UNCHANGED <<sem, cnt, buf, pos, wcnt, wbytes, rpc, rbytes, out, prog, ready, early>>
      /\ Places' = Places
      /\ UNCHANGED <<F!segVars, F!rVars>>
  BY PlacesSame DEF segVars, rVars, F!segVars, F!rVars
<1>1. PICK p \in BOOLEAN : ~p
  OBVIOUS
<1>2. NoTurns => NoTurns'
  BY <1>0 DEF NoTurns, ReaderHolds
<1>3. FlagFresh => FlagFresh'
  BY <1>2 DEF FlagFresh
<1>4. F!LoopInv(p) => F!LoopInv(p)'
  <2>1. CASE (wpc \in Removing) <=> (wpc' \in Removing)
    <3>1. Turns' = Turns
      BY <1>0, <2>1, TurnsSame
    <3>2. \/ Place' = "start"
          \/ Place = "remove_sem" /\ Place' \in {"remove_seg", "done"}
          \/ Place = "remove_seg" /\ Place' = "done"
      BY DEF Place, Waits
    <3> QED BY <1>0, <3>1, <3>2, XferAssumption, F!WriterOutsideInv
  <2>2. CASE ~((wpc \in Removing) <=> (wpc' \in Removing))
    <3>1. wpc \in {"remove_sem", "remove_seg"} /\ wpc' = "start"
      BY <2>2 DEF Removing
    <3>2. Place \in {"remove_sem", "remove_seg"} /\ Place' = "start"
      BY <3>1 DEF Place, Waits
    <3>3. sem[WRITE_SEM] = 0 \/ sem[WRITE_SEM] = 1
      BY DEF FlagInv
    <3>4. CASE sem[WRITE_SEM] = 1
      <4>1. Turns' = Turns
        <5>1. Turns'[WRITE_SEM] = Turns[WRITE_SEM] /\ Turns'[READ_SEM] = Turns[READ_SEM]
          BY <1>0, <3>1, <3>4 DEF Turns, Removing
        <5> QED BY <5>1, TurnsDomain
      <4> QED BY <1>0, <4>1, <3>2, XferAssumption, F!WriterOutsideInv
    <3>5. CASE sem[WRITE_SEM] = 0
      <4>1. Turns' = [Turns EXCEPT ![WRITE_SEM] = @ + 1]
        <5>1. /\ Turns'[WRITE_SEM] = Turns[WRITE_SEM] + 1
              /\ Turns'[READ_SEM] = Turns[READ_SEM]
          BY <1>0, <3>1, <3>5 DEF Turns, Removing
        <5> QED BY <5>1, TurnsDomain
      <4>2. F!ReleaseSem(WRITE_SEM)
        BY <4>1 DEF F!ReleaseSem
      <4> QED BY <1>0, <4>2, <3>2, XferAssumption, F!TurnLeftInv
    <3> QED BY <3>3, <3>4, <3>5
  <2> QED BY <2>1, <2>2
<1>5. FlagLoop => FlagLoop'
  BY <1>0, <1>1, <1>2, <1>4, Private DEF FlagLoop
<1> QED BY <1>0, <1>3, <1>5 DEF FlagInv

LEMMA FlagLastTurnMaps ==
  ASSUME sem \in [{WRITE_SEM, READ_SEM} -> {0, 1}], prog = "flags", WriterLastTurn
  PROVE  /\ Place = "eof" /\ Place' = "remove_sem" /\ F!ReserveSem(WRITE_SEM)
         /\ UNCHANGED <<F!segVars, pos, wcnt, wbytes, F!rVars>>
<1>1. /\ wpc = "eof" /\ wpc' = "remove_sem" /\ sem[WRITE_SEM] = 0
      /\ UNCHANGED <<sem, cnt, buf, pos, wcnt, wbytes, rpc, rbytes, out>>
  BY DEF WriterLastTurn, FlagIsSet, segVars, rVars
<1>2. Turns[WRITE_SEM] = 1 /\ Turns' = [Turns EXCEPT ![WRITE_SEM] = @ - 1]
  <2>1. /\ Turns[WRITE_SEM] = 1 /\ Turns'[WRITE_SEM] = Turns[WRITE_SEM] - 1
        /\ Turns'[READ_SEM] = Turns[READ_SEM]
    BY <1>1 DEF Turns, Removing
  <2> QED BY <2>1, TurnsDomain
<1>3. Place = "eof" /\ Place' = "remove_sem" /\ Places' = Places
  BY <1>1, PlacesSame DEF Place, Waits
<1>4. F!ReserveSem(WRITE_SEM)
  BY <1>2 DEF F!ReserveSem
<1> QED BY <1>1, <1>3, <1>4 DEF F!segVars, F!rVars

LEMMA FlagWriterSession ==
  ASSUME FlagInv, prog = "flags", TypeOK', OneReader', Writer
  PROVE  FlagInv'
<1>0. sem \in [{WRITE_SEM, READ_SEM} -> {0, 1}]
  BY DEF FlagInv
<1>1. PICK p \in BOOLEAN : ~p
  OBVIOUS
<1>2. CASE InLoop(FlagWriter)
  <2>1. FlagWriter /\ UNCHANGED <<prog, ready, early>>
    BY <1>2 DEF InLoop, histVars
  <2>2. /\ wpc \in {"wait", "clear", "read", "store", "give", "check", "count"}
        /\ wpc' \in {"wait", "clear", "read", "store", "give", "check", "count", "eof"}
        /\ UNCHANGED rpc
    BY <2>1 DEF FlagWriter, WriterWaitFlag, WriterClearFlag, ReadShared, StoreCount, WriterSetFlag,
                CheckEof, AddCount, rVars
  <2>3. /\ sem' \in [{WRITE_SEM, READ_SEM} -> {0, 1}]
        /\ sem[READ_SEM] = 0 => sem'[READ_SEM] = 0
        /\ wpc' = "clear" => sem'[WRITE_SEM] = 0
    <3>1. CASE WriterWaitFlag
      BY <1>0, <3>1 DEF WriterWaitFlag, FlagIsSet
    <3>2. CASE WriterClearFlag
      BY <1>0, <3>2 DEF WriterClearFlag, ClearEventFlag
    <3>3. CASE WriterSetFlag
      BY <1>0, <3>3 DEF WriterSetFlag, SetEventFlag
    <3>4. CASE ReadShared \/ StoreCount \/ CheckEof(cnt) \/ AddCount(cnt)
      BY <1>0, <3>4 DEF ReadShared, StoreCount, CheckEof, AddCount
    <3> QED BY <2>1, <3>1, <3>2, <3>3, <3>4 DEF FlagWriter
  <2>4. ASSUME FlagLoop PROVE FlagLoop'
    <3>1. F!SemWriter \/ UNCHANGED F!loopVars
      BY <1>0, <2>1, <2>4, FlagWriterMaps DEF FlagLoop
    <3>2. F!LoopInv(FALSE) /\ F!SemWriter => F!LoopInv(FALSE)'
      BY XferAssumption, F!SemWriterInv
    <3>3. F!LoopInv(p) /\ UNCHANGED F!loopVars => F!LoopInv(p)'
      BY XferAssumption, F!UnchangedLoopInv
    <3>4. F!LoopInv(FALSE)'
      BY <1>1, <2>4, <3>1, <3>2, <3>3, Private DEF FlagLoop
    <3> QED BY <2>2, <2>3, <2>4, <3>4 DEF FlagLoop
  <2> QED BY <2>1, <2>2, <2>3, <2>4 DEF FlagInv, FlagFresh
<1>3. CASE WriterLastTurn
  <2>1. /\ wpc = "eof" /\ wpc' = "remove_sem" /\ sem[WRITE_SEM] = 0
        /\ UNCHANGED <<sem, cnt, buf, pos, wcnt, wbytes, rpc, rbytes, out, prog, ready, early>>
    BY <1>3 DEF WriterLastTurn, FlagIsSet, segVars, rVars, histVars
  <2>2. ASSUME FlagLoop PROVE FlagLoop'
    <3>4. F!LoopInv(p) => F!LoopInv(p)'
      BY <1>0, <1>3, FlagLastTurnMaps, XferAssumption, F!LastTurnInv
    <3>5. F!LoopInv(FALSE)'
      BY <1>1, <2>2, <3>4, Private DEF FlagLoop
    <3> QED BY <2>1, <2>2, <3>5 DEF FlagLoop
  <2> QED BY <2>1, <2>2 DEF FlagInv, FlagFresh
<1>4. CASE WriterRemoveSem \/ WriterRemoveSeg
  BY <1>4, FlagWriterOutside DEF WriterRemoveSem, WriterRemoveSeg, histVars
<1> QED
  BY <1>2, <1>3, <1>4, FlagWriterStart
     DEF Writer, SvshmWriter, EventWriter, MmapWriter, PosixWriter, WriterEnd

LEMMA FlagKill ==
  ASSUME FlagInv, TypeOK', OneReader', KillWriter \/ \E r \in Readers : KillReader(r)
  PROVE  FlagInv'
<1>1. CASE KillWriter
  BY <1>1, FlagWriterOutside DEF KillWriter
<1>2. ASSUME NEW r \in Readers, KillReader(r) PROVE FlagInv'
  BY <1>2, FlagReaderOutside DEF KillReader, FlagInv
<1> QED BY <1>1, <1>2

LEMMA FlagStutter ==
  ASSUME FlagInv, TypeOK', OneReader', UNCHANGED vars
  PROVE  FlagInv'
<1>1. UNCHANGED <<sem, cnt, buf, pos, wcnt, wpc, wbytes, rpc, rbytes, out, prog, ready, early>>
  BY DEF vars, loopVars, segVars, wVars, rVars, histVars
<1>2. PICK p \in BOOLEAN : ~p
  OBVIOUS
<1>3. UNCHANGED F!loopVars
  BY <1>1, TurnsSame, PlacesSame DEF F!loopVars, F!segVars, F!wVars, F!rVars, Place
<1>4. F!LoopInv(p) => F!LoopInv(p)'
  BY <1>3, XferAssumption, F!UnchangedLoopInv
<1>5. NoTurns => NoTurns'
  BY <1>1 DEF NoTurns, ReaderHolds
<1>6. (FlagFresh => FlagFresh') /\ (FlagLoop => FlagLoop')
  BY <1>1, <1>2, <1>4, <1>5, Private DEF FlagFresh, FlagLoop
<1> QED BY <1>1, <1>6 DEF FlagInv

LEMMA FlagNext ==
  ASSUME FlagInv, prog = "flags", "flags" \notin SharedBy, [Next]_vars
  PROVE  FlagInv'
<1>1. TypeOK' /\ OneReader'
  BY NextType, OneReaderNext DEF FlagInv
<1> QED
  BY <1>1, FlagWriterSession, FlagReaderSession, FlagKill, FlagStutter DEF Next, SessionOver

----------------------------------------------------------------------------
(* The theorems.                                                           *)

LEMMA ProgSame == [Next]_vars => prog' = prog
<1>1. ASSUME Writer PROVE prog' = prog
  BY <1>1 DEF Writer, SvshmWriter, EventWriter, MmapWriter, PosixWriter, WriterStart, WriterEnd, InLoop,
       WriterSemget, WriterInitWrite, WriterInitRead, WriterShmget, WriterOpen, WriterTruncate,
       WriterLastTurn, WriterRemoveSem, WriterRemoveSeg, histVars
<1>2. ASSUME NEW r \in Readers, Reader(r) PROVE prog' = prog
  BY <1>2 DEF Reader, SvshmReader, EventReader, MmapReader, PosixReader, ReaderSemget, ReaderShmget,
       ReaderOpen, ReaderShmOpen, ReaderDetach, ReaderLastRelease, ReaderLastSetFlag, ReaderSetGone,
       ReaderInLoop, histVars
<1> QED BY <1>1, <1>2 DEF Next, KillWriter, KillReader, SessionOver, vars, histVars

IInv == OneReader /\ IF prog = "flags" THEN FlagInv ELSE SessionInv

LEMMA InitIInv == Init => IInv
BY InitSession, FlagInit DEF IInv, Init, OneReader, Running

LEMMA NextIInv ==
  ASSUME "flags" \notin SharedBy, IInv, [Next]_vars
  PROVE  IInv'
<1>1. prog' = prog /\ OneReader'
  BY ProgSame, OneReaderNext DEF IInv, FlagInv, SessionInv
<1>2. CASE prog = "flags"
  BY <1>1, <1>2, FlagNext DEF IInv
<1>3. CASE prog # "flags"
  BY <1>1, <1>3, WriterSession, ReaderSession, KillSession, StutterSession DEF IInv, Next, SessionOver
<1> QED BY <1>2, <1>3

\* The inductive invariant of all four programs, the event flags with one
\* reader at a time: types; nobody has a turn before the set is initialised;
\* then the invariant of the loops.
THEOREM Invariant ==
  ASSUME "flags" \notin SharedBy
  PROVE  Spec => []IInv
BY InitIInv, NextIInv, PTL DEF Spec

----------------------------------------------------------------------------
(* What it gives.                                                          *)

\* Whatever was killed and restarted, the output is a prefix of the input of
\* the writer last started (reserveSem and releaseSem without SEM_UNDO).
THEOREM PrefixCorrect ==
  ASSUME "flags" \notin SharedBy
  PROVE  Spec => []PrefixAcrossRestarts
<1>1. SessionInv => PrefixAcrossRestarts
  BY DEF SessionInv, FreshInv, LoopInv, DataInv, PrefixAcrossRestarts, OutputIsPrefix
<1>2. FlagInv => PrefixAcrossRestarts
  BY DEF FlagInv, TypeOK, LoopTypeOK, FlagFresh, NoTurns, FlagLoop, F!LoopInv, F!DataInv,
         PrefixAcrossRestarts, OutputIsPrefix, F!OutputIsPrefix
<1>3. IInv => PrefixAcrossRestarts
  BY <1>1, <1>2 DEF IInv
<1> QED BY <1>3, Invariant, PTL

\* Two processes are never inside their turns together, however many readers
\* of a program with semaphores are run.
THEOREM OneTurnCorrect ==
  ASSUME "flags" \notin SharedBy
  PROVE  Spec => []OneTurnAcrossRestarts
<1>1. SessionInv => OneTurnAcrossRestarts
  BY DEF SessionInv, FreshInv, LoopInv, TurnInv, OneTurnAcrossRestarts, OneTurn,
         WriterHolds, ReaderHolds, WriterInside, ReaderInside
<1>2. ASSUME FlagInv PROVE OneTurnAcrossRestarts
  <2>1. ASSUME FlagFresh PROVE OneTurn
    BY <2>1 DEF FlagFresh, NoTurns, OneTurn, WriterInside, ReaderInside, ReaderHolds
  <2>2. ASSUME FlagLoop PROVE OneTurn
    <3>1. F!WriterHolds => \A r \in Readers : ~F!ReaderHolds(r)
      BY <2>2 DEF FlagLoop, F!LoopInv, F!TurnInv
    <3>2. \A r, s \in Readers : F!ReaderHolds(r) /\ F!ReaderHolds(s) => r = s
      BY <2>2 DEF FlagLoop, F!LoopInv, F!TurnInv
    <3>3. \A r \in Readers : ReaderInside(r) => F!ReaderHolds(r)
      BY HoldersAre DEF ReaderInside, ReaderHolds
    <3>4. WriterInside => F!WriterHolds
      BY DEF WriterInside, F!WriterHolds, Place, Waits
    <3> QED BY <3>1, <3>2, <3>3, <3>4 DEF OneTurn
  <2> QED BY <1>2, <2>1, <2>2 DEF FlagInv, OneTurnAcrossRestarts
<1>3. IInv => OneTurnAcrossRestarts
  BY <1>1, <1>2 DEF IInv
<1> QED BY <1>3, Invariant, PTL

\* Neither semaphore exceeds 1 once initSemAvailable and initSemInUse, or
\* setEventFlag and clearEventFlag, have set them.
THEOREM TurnsCorrect ==
  ASSUME "flags" \notin SharedBy
  PROVE  Spec => []TurnsAreSingle
<1>1. SessionInv => TurnsAreSingle
  BY DEF SessionInv, TypeOK, LoopTypeOK, LoopInv, TurnInv, TurnsAreSingle
<1>2. FlagInv => TurnsAreSingle
  <2>1. ASSUME FlagInv, NEW s \in {WRITE_SEM, READ_SEM} PROVE sem[s] <= 1
    <3>1. sem[s] = 0 \/ sem[s] = 1
      BY <2>1 DEF FlagInv
    <3> QED BY <3>1
  <2> QED BY <2>1 DEF TurnsAreSingle
<1>3. IInv => TurnsAreSingle
  BY <1>1, <1>2 DEF IInv
<1> QED BY <1>3, Invariant, PTL

\* When the writer removes the objects everything is out, and the reader has
\* done its last semaphore operation.
THEOREM RemovalCorrect ==
  ASSUME "flags" \notin SharedBy
  PROVE  Spec => []RemovalIsLast
<1>1. SessionInv => RemovalIsLast
  BY DEF SessionInv, FreshInv, LoopInv, DataInv, Delivered, CountInv, TurnInv,
         RemovalIsLast, WriterHolds, ReaderHolds, ReaderInside
<1>2. ASSUME FlagInv, wpc \in {"remove_sem", "remove_seg", "done"}, ~early
      PROVE  /\ Len(out) = NBytes
             /\ \A r \in Readers : ~ReaderInside(r) /\ rpc[r] \notin {"eof", "detached"}
  <2>1. Place = wpc /\ F!WriterHolds /\ F!LoopInv(FALSE)
    BY <1>2 DEF FlagInv, FlagFresh, FlagLoop, Place, Waits, F!WriterHolds
  <2>2. Len(out) = NBytes
    BY <1>2, <2>1 DEF F!LoopInv, F!DataInv, F!Delivered, F!CountInv
  <2>3. \A r \in Readers : ~ReaderHolds(r)
    BY <2>1, HoldersAre DEF F!LoopInv, F!TurnInv
  <2> QED BY <2>2, <2>3 DEF ReaderHolds, ReaderInside
<1>3. IInv => RemovalIsLast
  BY <1>1, <1>2 DEF IInv, RemovalIsLast
<1> QED BY <1>3, Invariant, PTL

----------------------------------------------------------------------------
(* Sessions in which no process is killed.                                 *)

SettingUp == {"start", "init_write", "init_read", "segment", "truncate"}

\* The set exists from the writer's semget to its removal, and until the
\* segment is there no reader gets past its first wait.
QuietInv ==
  /\ kills = 0 /\ ~early
  /\ wpc = "start" <=> sessions = 0
  /\ sessions = 0 => \A r \in Readers : rpc[r] = "start"
  /\ semExists <=> wpc \notin {"start", "remove_seg", "done"}
  /\ ready <=> wpc \notin {"start", "init_write", "init_read"}
  /\ prog = "flags" /\ seg = "sized" => wpc \notin SettingUp \cup {"done"}
  /\ wpc \in SettingUp =>
        /\ pos = 0 /\ out = <<>>
        /\ \A r \in Readers : rpc[r] \in {"start", "segment", "wait"} /\ rbytes[r] = 0
        /\ prog # "flags" => sem[READ_SEM] = 0
        /\ prog = "flags" => \A r \in Readers : rpc[r] # "wait"

\* What holds at the end of file, in the flags' view for the event flags.
EndsInv == ready => IF prog = "flags" THEN F!EndInv /\ F!TallyInv
                                      ELSE EndInv /\ TallyInv

LEMMA QuietInit == Init => QuietInv
BY DEF Init, QuietInv, SettingUp

LEMMA QuietWriterStart ==
  ASSUME TypeOK, QuietInv, WriterStart, prog = "flags" => ~WriterOpen
  PROVE  QuietInv'
<1> USE DEF QuietInv, SettingUp, segVars, rVars, objVars, histVars
<1>0. sem \in [{WRITE_SEM, READ_SEM} -> Nat] /\ sessions \in Nat
  BY SessionAssumption DEF TypeOK, LoopTypeOK
<1>1. CASE WriterSemget
  <2>1. sem'[READ_SEM] = 0
    BY <1>1 DEF WriterSemget
  <2>2. sessions' # 0
    BY <1>0, <1>1 DEF WriterSemget
  <2>3. prog = "flags" => seg' # "sized"
    BY <1>1 DEF WriterSemget
  <2>4. \A r \in Readers : rpc'[r] = "start" /\ rbytes'[r] = 0
    BY <1>1 DEF WriterSemget
  <2>5. /\ wpc' = "init_write" /\ semExists' = TRUE /\ ready' = FALSE /\ early' = FALSE
        /\ pos' = 0 /\ out' = <<>> /\ UNCHANGED <<prog, kills>>
    BY <1>1 DEF WriterSemget
  <2> QED BY <2>1, <2>2, <2>3, <2>4, <2>5
<1>2. CASE WriterInitWrite
  <2>1. sem'[READ_SEM] = sem[READ_SEM]
    BY <1>0, <1>2 DEF WriterInitWrite, SetEventFlag
  <2> QED BY <1>2, <2>1 DEF WriterInitWrite
<1>3. CASE WriterInitRead
  <2>1. prog # "flags" => sem'[READ_SEM] = 0
    BY <1>0, <1>3 DEF WriterInitRead
  <2> QED BY <1>3, <2>1 DEF WriterInitRead
<1>4. CASE WriterShmget
  BY <1>4 DEF WriterShmget
<1>5. CASE WriterOpen
  BY <1>5 DEF WriterOpen
<1>6. CASE WriterTruncate
  BY <1>6 DEF WriterTruncate
<1> QED BY <1>1, <1>2, <1>3, <1>4, <1>5, <1>6 DEF WriterStart

LEMMA QuietWriter ==
  ASSUME TypeOK, QuietInv, Writer
  PROVE  QuietInv'
<1>1. CASE WriterStart
  <2>1. prog = "flags" => ~WriterOpen
    BY DEF WriterOpen, SysVPrograms
  <2> QED BY <1>1, <2>1, QuietWriterStart
<1>2. CASE InLoop(SemWriter) \/ InLoop(FlagWriter) \/ InLoop(FileWriter)
  <2>1. /\ wpc \in {"wait", "clear", "read", "store", "give", "check", "count"}
        /\ wpc' \in {"wait", "clear", "read", "store", "give", "check", "count", "eof"}
        /\ UNCHANGED <<rpc, semExists, seg, prog, sessions, kills, ready, early>>
    BY <1>2 DEF InLoop, SemWriter, FlagWriter, FileWriter, WriterReserve, WriterWaitFlag,
         WriterClearFlag, ReadShared, StoreCount, ReadPrivate, CopyOut, WriterRelease,
         WriterSetFlag, CheckEof, AddCount, rVars, objVars, histVars
  <2> QED BY <2>1 DEF QuietInv, SettingUp
<1>3. CASE WriterEnd
  BY <1>3 DEF WriterEnd, WriterLastTurn, WriterRemoveSem, WriterRemoveSeg, QuietInv,
       SettingUp, SysVPrograms, rVars, objVars, histVars
<1> QED BY <1>1, <1>2, <1>3 DEF Writer, SvshmWriter, EventWriter, MmapWriter, PosixWriter

LEMMA QuietLoop ==
  ASSUME QuietInv, NEW r \in Readers,
         (prog # "flags" /\ SemReader(r)) \/ (prog = "flags" /\ FlagReader(r))
  PROVE  wpc \notin SettingUp
<1> SUFFICES ASSUME wpc \in SettingUp PROVE FALSE
  OBVIOUS
<1>1. CASE prog = "flags"
  <2>1. rpc[r] \in {"start", "segment"}
    BY <1>1 DEF QuietInv
  <2> QED BY <1>1, <2>1 DEF FlagReader, ReaderWaitFlag, ReaderClearFlag, ReaderTest,
            ReaderWrite, ReaderSetFlag, ReaderAt
<1>2. CASE prog # "flags"
  <2>1. rpc[r] \in {"start", "segment", "wait"} /\ sem[READ_SEM] = 0
    BY <1>2 DEF QuietInv
  <2> QED BY <1>2, <2>1 DEF SemReader, ReaderReserve, ReserveSem, ReaderTest,
            ReaderWrite, ReaderRelease, ReaderAt
<1> QED BY <1>1, <1>2

\* Before the loops a reader may only arrive, and leave again.
LEMMA QuietReader ==
  ASSUME TypeOK, QuietInv, NEW r \in Readers, Reader(r)
  PROVE  QuietInv'
<1>0. /\ sem \in [{WRITE_SEM, READ_SEM} -> Nat] /\ rpc \in [Readers -> ReaderPlaces]
      /\ rbytes \in [Readers -> Nat]
  BY DEF TypeOK, LoopTypeOK
<1>1. ASSUME ReaderSemget(r) \/ ReaderShmget(r) \/ ReaderShmOpen(r) \/ ReaderSetGone(r)
             \/ (ReaderOpen(r) /\ prog # "flags")
      PROVE  QuietInv'
  <2>1. /\ UNCHANGED <<sem, wpc, pos, out, semExists, prog, sessions, kills, ready, early>>
        /\ \A q \in Readers : q # r => rpc'[q] = rpc[q] /\ rbytes'[q] = rbytes[q]
        /\ rpc'[r] \in {"start", "segment", "wait"}
        /\ rbytes'[r] = rbytes[r] \/ rbytes'[r] = 0
        /\ prog = "flags" => seg' = seg
        /\ sessions = 0 => semExists \/ rpc[r] # "start"
        /\ prog = "flags" /\ rpc'[r] = "wait" => seg = "sized"
    BY <1>0, <1>1 DEF ReaderSemget, ReaderShmget, ReaderShmOpen, ReaderSetGone, ReaderOpen,
         ReaderAt, ReaderTo, wVars, objVars, histVars
  <2> QED BY <1>0, <2>1 DEF QuietInv
<1>2. ASSUME wpc \notin SettingUp, UNCHANGED <<wpc, semExists, seg, prog, sessions, kills, ready>>,
             early' = early \/ early' = (early \/ (ReaderAt(r, "wait") /\ ~ready))
      PROVE  QuietInv'
  <2>1. ready /\ ~early /\ sessions # 0
    BY <1>2 DEF QuietInv, SettingUp
  <2>2. ~early'
    BY <1>2, <2>1
  <2> QED BY <1>2, <2>1, <2>2 DEF QuietInv
<1>3. CASE ReaderDetach(r) \/ ReaderLastRelease(r, "detached") \/ ReaderLastRelease(r, "eof")
           \/ ReaderLastSetFlag(r)
  <2>1. /\ rpc[r] \in {"eof", "detached"}
        /\ UNCHANGED <<wpc, semExists, seg, prog, sessions, kills, ready, early>>
    BY <1>3 DEF ReaderDetach, ReaderLastRelease, ReaderLastSetFlag, ReaderAt, wVars, objVars, histVars
  <2>2. wpc \notin SettingUp
    BY <2>1 DEF QuietInv
  <2> QED BY <1>2, <2>1, <2>2
<1>4. CASE \/ prog # "flags" /\ ReaderInLoop(r, SemReader(r))
           \/ prog = "flags" /\ ReaderInLoop(r, FlagReader(r))
  <2>0. (prog # "flags" /\ SemReader(r)) \/ (prog = "flags" /\ FlagReader(r))
    BY <1>4 DEF ReaderInLoop
  <2>1. /\ UNCHANGED <<semExists, seg, prog, sessions, kills, ready>>
        /\ early' = (early \/ (ReaderAt(r, "wait") /\ ~ready))
    BY <1>4 DEF ReaderInLoop, objVars
  <2>2. UNCHANGED wpc
    BY <2>0 DEF SemReader, FlagReader, ReaderReserve, ReaderWaitFlag, ReaderClearFlag, ReaderTest,
         ReaderWrite, ReaderRelease, ReaderSetFlag, wVars
  <2>3. wpc \notin SettingUp
    BY <2>0, QuietLoop
  <2> QED BY <1>2, <2>1, <2>2, <2>3
<1> QED
  BY <1>1, <1>3, <1>4 DEF Reader, SvshmReader, EventReader, MmapReader, PosixReader

LEMMA QuietNext ==
  ASSUME MaxKills = 0, TypeOK, QuietInv, [Next]_vars
  PROVE  QuietInv'
<1>1. ~KillWriter /\ \A r \in Readers : ~KillReader(r)
  BY DEF QuietInv, KillWriter, KillReader
<1>2. CASE UNCHANGED vars
  BY <1>2 DEF QuietInv, vars, loopVars, wVars, rVars, objVars, histVars
<1> QED BY <1>1, <1>2, QuietWriter, QuietReader DEF Next, SessionOver

\* Without kills no reader has a turn before the writer has initialised the
\* semaphores: a new set's zeros hold the readers of the semaphore programs,
\* those of the event flags, for whom zero means "set", wait for the segment.
THEOREM TurnsFollowInitCorrect ==
  ASSUME MaxKills = 0
  PROVE  Spec => TurnsFollowInit
<1>1. Init => TypeOK /\ QuietInv
  BY InitType, QuietInit
<1>2. TypeOK /\ QuietInv /\ [Next]_vars => (TypeOK /\ QuietInv)'
  BY NextType, QuietNext
<1>3. ASSUME QuietInv, QuietInv', TypeOK, [Next]_vars,
             NEW r \in Readers, ReaderAt(r, "wait"), rpc'[r] \in {"clear", "test"}
      PROVE  ready
  <2>1. SUFFICES ASSUME ~ready PROVE FALSE
    OBVIOUS
  <2>2. wpc \in SettingUp
    BY <1>3, <2>1 DEF QuietInv, SettingUp
  <2>3. wpc' \in SettingUp \/ rpc' = rpc
    <3>1. CASE Writer
      BY <2>2, <3>1 DEF Writer, SvshmWriter, EventWriter, MmapWriter, PosixWriter, WriterStart,
        WriterEnd, InLoop, SemWriter, FlagWriter, FileWriter, WriterSemget, WriterInitWrite,
        WriterInitRead, WriterShmget, WriterOpen, WriterTruncate, WriterLastTurn, WriterRemoveSem,
        WriterRemoveSeg, WriterReserve, WriterWaitFlag, WriterClearFlag, ReadShared, StoreCount,
        ReadPrivate, CopyOut, WriterRelease, WriterSetFlag, CheckEof, AddCount, rVars, SettingUp
    <3>2. CASE ~Writer
      <4>1. wpc' = wpc \/ wpc' = "start" \/ rpc' = rpc
        BY <1>3, <3>2 DEF Next, Reader, SvshmReader, EventReader, MmapReader, PosixReader,
          ReaderSemget, ReaderShmget, ReaderOpen, ReaderShmOpen, ReaderDetach, ReaderLastRelease,
          ReaderLastSetFlag, ReaderSetGone, ReaderInLoop, SemReader, FlagReader, ReaderReserve,
          ReaderWaitFlag, ReaderClearFlag, ReaderTest, ReaderWrite, ReaderRelease, ReaderSetFlag,
          KillWriter, KillReader, SessionOver, vars, loopVars, wVars, rVars
      <4> QED BY <2>2, <4>1 DEF SettingUp
    <3> QED BY <3>1, <3>2
  <2> QED BY <1>3, <2>2, <2>3 DEF QuietInv, ReaderAt
<1>4. QuietInv /\ QuietInv' /\ TypeOK /\ [Next]_vars =>
        [\A r \in Readers : ReaderAt(r, "wait") /\ rpc'[r] \in {"clear", "test"} => ready]_vars
  BY <1>3
<1> QED BY <1>1, <1>2, <1>4, PTL DEF Spec, TurnsFollowInit

----------------------------------------------------------------------------
(* The end of such a session, one reader at a time.                        *)

\* What is known of the loops once the set is initialised.
LEMMA LoopsOf ==
  ASSUME IInv, QuietInv, ready
  PROVE  /\ TypeOK /\ OneReader
         /\ prog # "flags" => SetupInv /\ LoopInv(prog = "file")
         /\ prog = "flags" => FlagLoop /\ sem \in [{WRITE_SEM, READ_SEM} -> {0, 1}]
BY DEF IInv, QuietInv, SessionInv, FlagInv

LEMMA EndsBegin ==
  ASSUME wpc' \in {"segment", "truncate", "wait"}, out' = <<>>,
         \A r \in Readers : rpc'[r] \in {"start", "segment", "wait"} /\ rbytes'[r] = 0,
         IF prog' = "flags" THEN sem'[READ_SEM] = 1 ELSE sem'[READ_SEM] = 0
  PROVE  EndsInv'
<1>1. CASE prog' = "flags"
  <2>1. Turns'[READ_SEM] = 0
    BY <1>1 DEF Turns
  <2>2. Place' = wpc' /\ \A r \in Readers : Places'[r] = rpc'[r]
    BY DEF Place, Places, Waits
  <2>3. F!EndInv' /\ F!TallyInv'
    BY <2>1, <2>2, XferAssumption, F!BeginEnd
  <2> QED BY <1>1, <2>3 DEF EndsInv
<1>2. CASE prog' # "flags"
  BY <1>2, BeginEnd DEF EndsInv
<1> QED BY <1>1, <1>2

LEMMA EndsWriterStart ==
  ASSUME IInv, QuietInv, WriterStart
  PROVE  EndsInv'
<1>1. CASE WriterSemget \/ WriterInitWrite
  BY <1>1 DEF WriterSemget, WriterInitWrite, histVars, QuietInv, EndsInv
<1>2. CASE WriterInitRead
  <2>1. /\ wpc \in SettingUp /\ wpc' = "segment"
        /\ UNCHANGED <<out, rpc, rbytes, prog>>
    BY <1>2 DEF WriterInitRead, SettingUp, rVars
  <2>2. IF prog' = "flags" THEN sem'[READ_SEM] = 1 ELSE sem'[READ_SEM] = 0
    BY <1>2 DEF WriterInitRead, ClearEventFlag, IInv, FlagInv, SessionInv, TypeOK, LoopTypeOK
  <2> QED BY <2>1, <2>2, EndsBegin DEF QuietInv
<1>3. CASE WriterShmget \/ WriterOpen \/ WriterTruncate
  <2>1. /\ wpc \in {"segment", "truncate"} /\ wpc' \in {"truncate", "wait"}
        /\ UNCHANGED <<out, rpc, rbytes, prog, sem>>
    BY <1>3 DEF WriterShmget, WriterOpen, WriterTruncate, rVars, histVars
  <2>2. ready
    BY <2>1 DEF QuietInv
  <2>3. IF prog' = "flags" THEN sem'[READ_SEM] = 1 ELSE sem'[READ_SEM] = 0
    BY <2>1, <2>2, LoopsOf DEF SetupInv, FlagLoop
  <2> QED BY <2>1, <2>3, EndsBegin DEF QuietInv, SettingUp
<1> QED BY <1>1, <1>2, <1>3 DEF WriterStart

LEMMA EndsWriterLoop ==
  ASSUME IInv, QuietInv, EndsInv,
         \/ prog # "flags" /\ (InLoop(SemWriter) \/ InLoop(FileWriter))
         \/ prog = "flags" /\ InLoop(FlagWriter)
  PROVE  EndsInv'
<1>0. ready' = ready /\ prog' = prog
  BY DEF InLoop, histVars
<1>1. PICK p \in BOOLEAN : p = (prog = "file")
  OBVIOUS
<1>2. CASE ready /\ prog # "flags"
  <2>1. LoopInv(p) /\ EndInv /\ TallyInv
    BY <1>1, <1>2, LoopsOf DEF EndsInv, LoopInv, DataInv
  <2> QED BY <1>0, <1>2, <2>1, WriterEndInv, WriterTallyInv DEF EndsInv, InLoop
<1>3. CASE ready /\ prog = "flags"
  <2>1. PICK q \in BOOLEAN : ~q
    OBVIOUS
  <2>2. F!LoopInv(FALSE) /\ F!EndInv /\ F!TallyInv /\ FlagLoop
    BY <1>3, LoopsOf DEF EndsInv, FlagLoop
  <2>3. F!SemWriter \/ UNCHANGED F!loopVars
    BY <1>3, <2>2, LoopsOf, FlagWriterMaps DEF InLoop, FlagLoop
  <2>4. F!LoopInv(q)
    BY <2>1, <2>2, Private
  <2>5. F!EndInv' /\ F!TallyInv'
    BY <2>2, <2>3, <2>4, XferAssumption, F!WriterEndInv, F!WriterTallyInv, F!UnchangedEnd
  <2> QED BY <1>0, <1>3, <2>5 DEF EndsInv
<1> QED BY <1>0, <1>2, <1>3 DEF EndsInv

LEMMA EndsWriterEnd ==
  ASSUME IInv, QuietInv, EndsInv, WriterEnd
  PROVE  EndsInv'
<1>0. /\ ready' = ready /\ prog' = prog /\ UNCHANGED <<segVars, pos, wcnt, wbytes, rVars>>
      /\ \/ WriterLastTurn
         \/ wpc \in Removing /\ wpc' \in Removing /\ UNCHANGED sem
  BY DEF WriterEnd, WriterLastTurn, WriterRemoveSem, WriterRemoveSeg, histVars, Removing
<1>1. PICK p \in BOOLEAN : p = (prog = "file")
  OBVIOUS
<1>2. CASE ready /\ prog # "flags"
  <2>1. LoopInv(p) /\ EndInv /\ TallyInv
    BY <1>1, <1>2, LoopsOf DEF EndsInv, LoopInv, DataInv
  <2>2. WriterLastTurn => wpc = "eof" /\ wpc' = "remove_sem" /\ ReserveSem(WRITE_SEM)
    BY <1>2 DEF WriterLastTurn
  <2> QED BY <1>0, <1>2, <2>1, <2>2, WriterOutsideEnd DEF EndsInv
<1>3. CASE ready /\ prog = "flags"
  <2>1. PICK q \in BOOLEAN : ~q
    OBVIOUS
  <2>2. F!LoopInv(q) /\ F!EndInv /\ F!TallyInv
    BY <1>3, <2>1, LoopsOf, Private DEF EndsInv, FlagLoop
  <2>3. CASE WriterLastTurn
    BY <1>0, <1>3, <2>2, <2>3, LoopsOf, FlagLastTurnMaps, XferAssumption, F!WriterOutsideEnd
       DEF EndsInv
  <2>4. CASE wpc \in Removing /\ wpc' \in Removing /\ UNCHANGED sem
    <3>1. Turns' = Turns /\ UNCHANGED <<F!segVars, F!rVars>>
      BY <1>0, <2>4, TurnsSame, PlacesSame DEF segVars, rVars, F!segVars, F!rVars
    <3>2. Place \in F!Removing /\ Place' \in F!Removing
      BY <2>4 DEF Place, Waits, Removing, F!Removing
    <3>3. F!EndInv' /\ F!TallyInv'
      BY <2>2, <3>1, <3>2, XferAssumption, F!WriterOutsideEnd
    <3> QED BY <1>0, <1>3, <3>3 DEF EndsInv
  <2> QED BY <1>0, <2>3, <2>4
<1> QED BY <1>0, <1>2, <1>3 DEF EndsInv

LEMMA EndsWriter ==
  ASSUME IInv, QuietInv, EndsInv, Writer
  PROVE  EndsInv'
BY EndsWriterStart, EndsWriterLoop, EndsWriterEnd
   DEF Writer, SvshmWriter, EventWriter, MmapWriter, PosixWriter

\* A reader that arrives, or finds the objects gone.
LEMMA EndsReaderOutside ==
  ASSUME IInv, QuietInv, EndsInv, NEW r \in Readers,
         NEW l \in {"start", "segment", "wait", "detached"}, ReaderTo(r, l),
         \/ rpc[r] = "start" /\ l = "segment"
         \/ rpc[r] = "segment" /\ l \in {"start", "wait"} /\ \A s \in Readers : Running(s) => s = r
         \/ rpc[r] \in {"wait", "clear"} /\ l = "start" /\ wpc \in Removing
         \/ rpc[r] = "eof" /\ l = "detached",
         rbytes' = (IF l = "segment" THEN [rbytes EXCEPT ![r] = 0] ELSE rbytes),
         UNCHANGED <<sem, segVars, wVars, out, prog, ready>>
  PROVE  EndsInv'
<1>1. PICK p \in BOOLEAN : p = (prog = "file")
  OBVIOUS
<1>2. CASE ready /\ prog # "flags"
  <2>1. LoopInv(p) /\ EndInv /\ TallyInv
    BY <1>1, <1>2, LoopsOf DEF EndsInv, LoopInv, DataInv
  <2>2. \/ rpc[r] = "start" /\ l = "segment"
        \/ rpc[r] = "segment" /\ l \in {"start", "wait"} /\ \A s \in Readers : ~Looping(s)
        \/ rpc[r] \in {"wait", "clear"} /\ l = "start" /\ Over
        \/ rpc[r] = "eof" /\ l = "detached"
    BY <2>1 DEF EndInv, Looping, Running
  <2>3. EndInv' /\ TallyInv'
    BY <2>1, <2>2, ReaderOutsideEnd
  <2> QED BY <1>2, <2>3 DEF EndsInv
<1>3. CASE ready /\ prog = "flags"
  <2>0. rpc \in [Readers -> ReaderPlaces] /\ Turns' = Turns /\ wpc' = wpc
    BY <1>3, LoopsOf, TurnsSame DEF TypeOK, LoopTypeOK, wVars
  <2>1. PICK q \in BOOLEAN : ~q
    OBVIOUS
  <2>2. F!LoopInv(q) /\ F!EndInv /\ F!TallyInv
    BY <1>3, <2>1, LoopsOf, Private DEF EndsInv, FlagLoop
  <2>3. /\ F!ReaderTo(r, l) /\ Places[r] = Waits(rpc[r])
        /\ UNCHANGED <<Turns, F!segVars, F!wVars, out>>
    BY <2>0, PlacesChange DEF F!ReaderTo, F!segVars, F!wVars, segVars, wVars, Waits, Place
  <2>4. wpc \in Removing => F!Over
    BY <2>2 DEF F!EndInv, F!Removing, Removing, Place, Waits
  <2>5. \/ Places[r] = "start" /\ l = "segment"
        \/ Places[r] = "segment" /\ l \in {"start", "wait"} /\ \A s \in Readers : ~F!Looping(s)
        \/ Places[r] \in {"wait", "clear"} /\ l = "start" /\ F!Over
        \/ Places[r] = "eof" /\ l = "detached"
    <3>1. \A s \in Readers : F!Looping(s) => Running(s) /\ rpc[s] # "segment"
      BY DEF F!Looping, Running, Places, Waits
    <3> QED BY <2>3, <2>4, <3>1 DEF Waits
  <2>6. F!EndInv' /\ F!TallyInv'
    BY <2>2, <2>3, <2>5, XferAssumption, F!ReaderOutsideEnd
  <2> QED BY <1>3, <2>6 DEF EndsInv
<1> QED BY <1>2, <1>3 DEF EndsInv

LEMMA EndsReaderLoop ==
  ASSUME IInv, QuietInv, EndsInv, NEW r \in Readers, \A s \in Readers : Running(s) => s = r,
         \/ prog # "flags" /\ SemReader(r)
         \/ prog = "flags" /\ FlagReader(r),
         UNCHANGED <<prog, ready>>
  PROVE  EndsInv'
<1>1. PICK p \in BOOLEAN : p = (prog = "file")
  OBVIOUS
<1>2. CASE ready /\ prog # "flags"
  <2>1. LoopInv(p) /\ EndInv /\ TallyInv
    BY <1>1, <1>2, LoopsOf DEF EndsInv, LoopInv, DataInv
  <2>2. \A s \in Readers : Looping(s) => s = r
    BY DEF Looping, Running
  <2>3. EndInv' /\ TallyInv'
    BY <1>2, <2>1, <2>2, ReaderEndInv, ReaderTallyInv
  <2> QED BY <1>2, <2>3 DEF EndsInv
<1>3. CASE ready /\ prog = "flags"
  <2>1. PICK q \in BOOLEAN : ~q
    OBVIOUS
  <2>2. F!LoopInv(q) /\ F!LoopInv(FALSE) /\ F!EndInv /\ F!TallyInv /\ FlagLoop
    BY <1>3, <2>1, LoopsOf, Private DEF EndsInv, FlagLoop
  <2>3. F!SemReader(r) \/ UNCHANGED F!loopVars
    BY <1>3, <2>2, LoopsOf, FlagReaderMaps DEF FlagLoop, TypeOK
  <2>4. \A s \in Readers : F!Looping(s) => s = r
    BY DEF F!Looping, Running, Places, Waits
  <2>5. F!EndInv' /\ F!TallyInv'
    BY <2>2, <2>3, <2>4, XferAssumption, F!ReaderEndInv, F!ReaderTallyInv, F!UnchangedEnd
  <2> QED BY <1>3, <2>5 DEF EndsInv
<1> QED BY <1>2, <1>3 DEF EndsInv

LEMMA EndsLastRelease ==
  ASSUME IInv, QuietInv, EndsInv, NEW r \in Readers,
         \/ prog # "flags" /\ (ReaderLastRelease(r, "eof") \/ ReaderLastRelease(r, "detached"))
         \/ prog = "flags" /\ ReaderLastSetFlag(r)
  PROVE  EndsInv'
<1>0. UNCHANGED <<prog, ready>>
  BY DEF ReaderLastRelease, ReaderLastSetFlag, histVars
<1>1. PICK p \in BOOLEAN : p = (prog = "file")
  OBVIOUS
<1>2. CASE ready /\ prog # "flags"
  <2>1. LoopInv(p) /\ EndInv /\ TallyInv
    BY <1>1, <1>2, LoopsOf DEF EndsInv, LoopInv, DataInv
  <2>2. /\ rpc[r] \in {"eof", "detached"} /\ ReaderTo(r, "done") /\ ReleaseSem(WRITE_SEM)
        /\ UNCHANGED <<segVars, wVars, rbytes, out>>
    BY <1>2 DEF ReaderLastRelease, ReaderAt
  <2>3. EndInv' /\ TallyInv'
    BY <2>1, <2>2, LastReleaseEnd
  <2> QED BY <1>0, <1>2, <2>3 DEF EndsInv
<1>3. CASE ready /\ prog = "flags"
  <2>1. PICK q \in BOOLEAN : ~q
    OBVIOUS
  <2>2. F!LoopInv(q) /\ F!LoopInv(FALSE) /\ F!EndInv /\ F!TallyInv
    BY <1>3, <2>1, LoopsOf, Private DEF EndsInv, FlagLoop
  <2>3. /\ Places[r] = "detached" /\ F!ReaderTo(r, "done") /\ F!ReleaseSem(WRITE_SEM)
        /\ UNCHANGED <<F!segVars, F!wVars, rbytes, out>>
    BY <1>3, <2>2, LoopsOf, FlagLastReleaseMaps
  <2>4. F!EndInv' /\ F!TallyInv'
    BY <2>2, <2>3, XferAssumption, F!LastReleaseEnd
  <2> QED BY <1>0, <1>3, <2>4 DEF EndsInv
<1> QED BY <1>0, <1>2, <1>3 DEF EndsInv

\* Once the set is gone no reader has a turn.
LEMMA GoneHolds ==
  ASSUME IInv, QuietInv, ready, ~semExists, NEW r \in Readers
  PROVE  ~ReaderHolds(r)
<1>1. wpc \in {"remove_seg", "done"}
  BY DEF QuietInv
<1>2. CASE prog = "flags"
  <2>1. F!LoopInv(FALSE) /\ F!WriterHolds
    BY <1>1, <1>2, LoopsOf DEF FlagLoop, F!WriterHolds, Place, Waits
  <2> QED BY <2>1, HoldersAre DEF F!LoopInv, F!TurnInv
<1>3. CASE prog # "flags"
  BY <1>1, <1>3, LoopsOf DEF LoopInv, TurnInv, WriterHolds
<1> QED BY <1>2, <1>3

LEMMA EndsReader ==
  ASSUME IInv, QuietInv, EndsInv, prog \notin SharedBy, NEW r \in Readers, Reader(r)
  PROVE  EndsInv'
<1>0. TypeOK /\ \A s \in Readers : Running(s) /\ Running(r) => s = r
  BY DEF IInv, SessionInv, FlagInv, OneReader
<1>1. CASE ReaderSemget(r)
  <2>1. /\ rpc[r] = "start" /\ ReaderTo(r, "segment") /\ rbytes' = [rbytes EXCEPT ![r] = 0]
        /\ UNCHANGED <<sem, segVars, wVars, out, prog, ready>>
    BY <1>1 DEF ReaderSemget, ReaderAt, histVars
  <2> QED BY <2>1, EndsReaderOutside
<1>2. CASE ReaderShmget(r) \/ ReaderOpen(r) \/ ReaderShmOpen(r)
  <2>1. /\ rpc[r] = "segment" /\ (ReaderTo(r, "start") \/ ReaderTo(r, "wait"))
        /\ UNCHANGED <<sem, segVars, wVars, rbytes, out, prog, ready>>
    BY <1>2 DEF ReaderShmget, ReaderOpen, ReaderShmOpen, ReaderAt, histVars
  <2>2. \A s \in Readers : Running(s) => s = r
    BY <1>0, <2>1 DEF Running
  <2> QED BY <2>1, <2>2, EndsReaderOutside
<1>3. CASE ReaderDetach(r)
  <2>1. /\ rpc[r] = "eof" /\ ReaderTo(r, "detached")
        /\ UNCHANGED <<sem, segVars, wVars, rbytes, out, prog, ready>>
    BY <1>3 DEF ReaderDetach, ReaderAt, histVars
  <2> QED BY <2>1, EndsReaderOutside
<1>4. CASE ReaderSetGone(r)
  <2>1. /\ ReaderTo(r, "start") /\ rpc[r] \in {"wait", "clear", "give", "eof", "detached"}
        /\ UNCHANGED <<sem, segVars, wVars, rbytes, out, prog, ready>> /\ ~semExists
    BY <1>4 DEF ReaderSetGone, histVars
  <2>2. CASE ready
    <3>1. wpc \in {"remove_seg", "done"}
      BY <2>1, <2>2 DEF QuietInv
    <3>2. ~ReaderHolds(r)
      BY <2>1, <2>2, GoneHolds
    <3>3. rpc[r] \in {"wait", "clear"} /\ wpc \in Removing
      BY <2>1, <3>1, <3>2 DEF ReaderHolds, Removing
    <3> QED BY <2>1, <3>3, EndsReaderOutside
  <2>3. CASE ~ready
    BY <2>1, <2>3 DEF EndsInv
  <2> QED BY <2>2, <2>3
<1>5. CASE \/ prog # "flags" /\ ReaderInLoop(r, SemReader(r))
           \/ prog = "flags" /\ ReaderInLoop(r, FlagReader(r))
  <2>1. /\ (prog # "flags" /\ SemReader(r)) \/ (prog = "flags" /\ FlagReader(r))
        /\ UNCHANGED <<prog, ready>>
    BY <1>5 DEF ReaderInLoop
  <2>2. Running(r)
    BY <2>1 DEF SemReader, FlagReader, ReaderReserve, ReaderWaitFlag, ReaderClearFlag,
         ReaderTest, ReaderWrite, ReaderRelease, ReaderSetFlag, ReaderAt, Running
  <2> QED BY <1>0, <2>1, <2>2, EndsReaderLoop
<1>6. CASE \/ prog # "flags" /\ (ReaderLastRelease(r, "eof") \/ ReaderLastRelease(r, "detached"))
           \/ prog = "flags" /\ ReaderLastSetFlag(r)
  BY <1>6, EndsLastRelease
<1> QED
  BY <1>1, <1>2, <1>3, <1>4, <1>5, <1>6
     DEF Reader, SvshmReader, EventReader, MmapReader, PosixReader

LEMMA EndsStutter ==
  ASSUME EndsInv, UNCHANGED vars
  PROVE  EndsInv'
<1>1. UNCHANGED <<sem, cnt, buf, pos, wcnt, wpc, wbytes, rpc, rbytes, out, prog, ready>>
  BY DEF vars, loopVars, segVars, wVars, rVars, histVars
<1>2. UNCHANGED F!loopVars
  BY <1>1, TurnsSame, PlacesSame DEF F!loopVars, F!segVars, F!wVars, F!rVars, Place
<1>3. UNCHANGED loopVars
  BY DEF vars
<1>4. F!EndInv /\ F!TallyInv => F!EndInv' /\ F!TallyInv'
  BY <1>2, XferAssumption, F!UnchangedEnd
<1> QED BY <1>1, <1>3, <1>4, UnchangedEnd DEF EndsInv

\* The totals that the two sides print are the length of the input, in all
\* four programs, when one reader at a time is run and nobody is killed.
THEOREM TotalsCorrect ==
  ASSUME MaxKills = 0, SharedBy = {}
  PROVE  Spec => []TotalsAgree
<1> DEFINE Inv == IInv /\ QuietInv /\ EndsInv
<1>1. Init => Inv
  BY InitIInv, QuietInit DEF EndsInv, Init
<1>2. Inv /\ [Next]_vars => Inv'
  <2> SUFFICES ASSUME Inv, [Next]_vars PROVE Inv'
    OBVIOUS
  <2>1. TypeOK /\ prog \notin SharedBy
    BY DEF IInv, SessionInv, FlagInv
  <2>2. IInv' /\ QuietInv'
    BY <2>1, NextIInv, QuietNext
  <2>3. ~KillWriter /\ \A r \in Readers : ~KillReader(r)
    BY DEF QuietInv, KillWriter, KillReader
  <2>4. EndsInv'
    BY <2>1, <2>3, EndsWriter, EndsReader, EndsStutter DEF Next, SessionOver
  <2> QED BY <2>2, <2>4
<1>3. Inv => TotalsAgree
  <2> SUFFICES ASSUME Inv, wpc = "done"
               PROVE  wbytes = NBytes /\ \E r \in Readers : rbytes[r] = NBytes
    BY DEF TotalsAgree
  <2>1. ready
    BY DEF QuietInv
  <2>2. CASE prog = "flags"
    <3>1. Place = "done" /\ F!LoopInv(FALSE) /\ F!EndInv /\ F!TallyInv
      BY <2>1, <2>2, LoopsOf DEF EndsInv, FlagLoop, Place, Waits
    <3>2. wbytes = NBytes
      BY <3>1 DEF F!LoopInv, F!CountInv
    <3>3. \E r \in Readers : rbytes[r] = NBytes
      BY <3>1 DEF F!EndInv, F!TallyInv, F!Over, F!Removing
    <3> QED BY <3>2, <3>3
  <2>3. CASE prog # "flags"
    <3>1. LoopInv(prog = "file") /\ EndInv /\ TallyInv
      BY <2>1, <2>3, LoopsOf DEF EndsInv
    <3>2. wbytes = NBytes
      BY <3>1 DEF LoopInv, CountInv
    <3>3. \E r \in Readers : rbytes[r] = NBytes
      BY <3>1 DEF EndInv, TallyInv, Over, Removing
    <3> QED BY <3>2, <3>3
  <2> QED BY <2>2, <2>3
<1> QED BY <1>1, <1>2, <1>3, PTL DEF Spec

----------------------------------------------------------------------------
(* A single session is a block copy, with any number of readers.           *)

\* The flags' view has the same output and the same end.
LEMMA FlagCopies == [F!Copy!Next]_F!Copy!vars => [Copy!Next]_Copy!vars
<1>1. /\ (\E r \in Readers : Places[r] \in F!PastLoop) <=> (\E r \in Readers : rpc[r] \in PastLoop)
      /\ (\E r \in Readers : Places'[r] \in F!PastLoop) <=> (\E r \in Readers : rpc'[r] \in PastLoop)
  BY DEF Places, Waits, PastLoop, F!PastLoop
<1> QED
  BY <1>1 DEF Copy!Next, Copy!vars, Copy!Take, Copy!Deliver, Copy!Finish, Copy!Idle,
       F!Copy!Next, F!Copy!vars, F!Copy!Take, F!Copy!Deliver, F!Copy!Finish, F!Copy!Idle

\* A step that moves no byte and brings no reader past its loop.
LEMMA CopyStutters ==
  ASSUME UNCHANGED <<pos, out>>,
         \A r \in Readers : rpc'[r] \in PastLoop <=> rpc[r] \in PastLoop
  PROVE  [Copy!Next]_Copy!vars
BY DEF Copy!vars

LEMMA CopyWriter ==
  ASSUME MaxSessions <= 1, IInv, QuietInv, Writer
  PROVE  [Copy!Next]_Copy!vars
<1>1. CASE WriterSemget
  <2>1. sessions = 0
    BY <1>1, SessionAssumption DEF WriterSemget, IInv, FlagInv, SessionInv, TypeOK
  <2>2. pos = 0 /\ out = <<>> /\ \A r \in Readers : rpc[r] = "start"
    BY <2>1 DEF QuietInv, SettingUp
  <2>3. pos' = 0 /\ out' = <<>> /\ \A r \in Readers : rpc'[r] = "start"
    BY <1>1 DEF WriterSemget
  <2> QED BY <2>2, <2>3, CopyStutters DEF PastLoop
<1>2. CASE \/ WriterInitWrite \/ WriterInitRead \/ WriterShmget \/ WriterOpen
           \/ WriterTruncate \/ WriterEnd
  <2>1. UNCHANGED <<pos, out, rpc>>
    BY <1>2 DEF WriterInitWrite, WriterInitRead, WriterShmget, WriterOpen, WriterTruncate,
         WriterEnd, WriterLastTurn, WriterRemoveSem, WriterRemoveSeg, rVars
  <2> QED BY <2>1, CopyStutters
<1>3. CASE \/ prog # "flags" /\ (InLoop(SemWriter) \/ InLoop(FileWriter))
           \/ prog = "flags" /\ InLoop(FlagWriter)
  <2>1. PICK p \in BOOLEAN : p = (prog = "file")
    OBVIOUS
  <2>2. ready
    BY <1>3 DEF QuietInv, InLoop, SemWriter, FlagWriter, FileWriter, WriterReserve,
         WriterWaitFlag, WriterClearFlag, ReadShared, StoreCount, ReadPrivate, CopyOut,
         WriterRelease, WriterSetFlag, CheckEof, AddCount
  <2>3. CASE prog # "flags"
    <3>1. LoopInv(p)
      BY <2>1, <2>2, <2>3, LoopsOf DEF LoopInv, DataInv
    <3> QED BY <1>3, <2>3, <3>1, WriterCopies DEF InLoop
  <2>4. CASE prog = "flags"
    <3>1. PICK q \in BOOLEAN : ~q
      OBVIOUS
    <3>2. F!LoopInv(q)
      BY <2>2, <2>4, <3>1, LoopsOf, Private DEF FlagLoop
    <3>3. F!SemWriter \/ UNCHANGED F!loopVars
      BY <1>3, <2>2, <2>4, LoopsOf, FlagWriterMaps DEF InLoop, FlagLoop
    <3>4. CASE F!SemWriter
      BY <3>2, <3>4, XferAssumption, F!WriterCopies, FlagCopies
    <3>5. CASE UNCHANGED F!loopVars
      BY <1>3, <2>4, <3>5, FlagCopies DEF F!loopVars, F!wVars, F!rVars, F!Copy!vars
    <3> QED BY <3>3, <3>4, <3>5
  <2> QED BY <2>3, <2>4
<1> QED
  BY <1>1, <1>2, <1>3 DEF Writer, SvshmWriter, EventWriter, MmapWriter, PosixWriter, WriterStart

LEMMA CopyReader ==
  ASSUME IInv, QuietInv, NEW r \in Readers, Reader(r)
  PROVE  [Copy!Next]_Copy!vars
<1>0. TypeOK /\ rpc \in [Readers -> ReaderPlaces]
  BY DEF IInv, FlagInv, SessionInv, TypeOK, LoopTypeOK
<1>1. ASSUME NEW l, ReaderTo(r, l), l \in PastLoop <=> rpc[r] \in PastLoop, UNCHANGED <<pos, out>>
      PROVE  [Copy!Next]_Copy!vars
  BY <1>0, <1>1, CopyStutters DEF ReaderTo
<1>2. CASE ReaderSemget(r) \/ ReaderShmget(r) \/ ReaderOpen(r) \/ ReaderShmOpen(r)
  <2>1. /\ rpc[r] \in {"start", "segment"} /\ UNCHANGED <<pos, out>>
        /\ ReaderTo(r, "start") \/ ReaderTo(r, "segment") \/ ReaderTo(r, "wait")
    BY <1>2 DEF ReaderSemget, ReaderShmget, ReaderOpen, ReaderShmOpen, ReaderAt, wVars
  <2> QED BY <1>1, <2>1 DEF PastLoop
<1>3. CASE ReaderDetach(r) \/ ReaderLastRelease(r, "eof") \/ ReaderLastRelease(r, "detached")
           \/ ReaderLastSetFlag(r)
  <2>1. /\ rpc[r] \in {"eof", "detached"} /\ UNCHANGED <<pos, out>>
        /\ ReaderTo(r, "detached") \/ ReaderTo(r, "done")
    BY <1>3 DEF ReaderDetach, ReaderLastRelease, ReaderLastSetFlag, ReaderAt, wVars
  <2> QED BY <1>1, <2>1 DEF PastLoop
<1>4. CASE ReaderSetGone(r)
  <2>1. /\ ReaderTo(r, "start") /\ rpc[r] \in {"wait", "clear", "give", "eof", "detached"}
        /\ UNCHANGED <<pos, out>> /\ ~semExists
    BY <1>4 DEF ReaderSetGone, wVars
  <2>2. rpc[r] \notin {"eof", "detached"}
    <3>1. CASE ready
      BY <2>1, <3>1, GoneHolds DEF ReaderHolds
    <3>2. CASE ~ready
      BY <3>2 DEF QuietInv, SettingUp
    <3> QED BY <3>1, <3>2
  <2> QED BY <1>1, <2>1, <2>2 DEF PastLoop
<1>5. CASE \/ prog # "flags" /\ ReaderInLoop(r, SemReader(r))
           \/ prog = "flags" /\ ReaderInLoop(r, FlagReader(r))
  <2>0. (prog # "flags" /\ SemReader(r)) \/ (prog = "flags" /\ FlagReader(r))
    BY <1>5 DEF ReaderInLoop
  <2>1. PICK p \in BOOLEAN : p = (prog = "file")
    OBVIOUS
  <2>2. ready
    BY <2>0, QuietLoop DEF QuietInv, SettingUp
  <2>3. CASE prog # "flags"
    <3>1. LoopInv(p)
      BY <2>1, <2>2, <2>3, LoopsOf DEF LoopInv, DataInv
    <3> QED BY <2>0, <2>3, <3>1, SemReaderCopies
  <2>4. CASE prog = "flags"
    <3>1. PICK q \in BOOLEAN : ~q
      OBVIOUS
    <3>2. F!LoopInv(q) /\ FlagLoop
      BY <2>2, <2>4, <3>1, LoopsOf, Private DEF FlagLoop
    <3>3. F!SemReader(r) \/ UNCHANGED F!loopVars
      BY <2>0, <2>2, <2>4, <3>2, LoopsOf, FlagReaderMaps DEF FlagLoop, TypeOK
    <3>4. CASE F!SemReader(r)
      BY <3>2, <3>4, XferAssumption, F!SemReaderCopies, FlagCopies
    <3>5. CASE UNCHANGED F!loopVars
      BY <3>5, FlagCopies DEF F!loopVars, F!wVars, F!rVars, F!Copy!vars
    <3> QED BY <3>3, <3>4, <3>5
  <2> QED BY <2>3, <2>4
<1> QED
  BY <1>2, <1>3, <1>4, <1>5 DEF Reader, SvshmReader, EventReader, MmapReader, PosixReader

\* One session of any of the four programs, undisturbed by kills, is a block
\* copy: one block at most on its way, the end reported after the last byte.
THEOREM SessionCopies ==
  ASSUME MaxKills = 0, MaxSessions <= 1, "flags" \notin SharedBy
  PROVE  Spec => ImplementsBlockCopy
<1>1. Init => IInv /\ QuietInv
  BY InitIInv, QuietInit
<1>2. IInv /\ QuietInv /\ [Next]_vars => (IInv /\ QuietInv)'
  BY NextIInv, QuietNext DEF IInv, FlagInv, SessionInv
<1>3. Init => Copy!Init
  BY DEF Init, Copy!Init, PastLoop
<1>4. IInv /\ QuietInv /\ [Next]_vars => [Copy!Next]_Copy!vars
  <2> SUFFICES ASSUME IInv, QuietInv, [Next]_vars PROVE [Copy!Next]_Copy!vars
    OBVIOUS
  <2>1. ~KillWriter /\ \A r \in Readers : ~KillReader(r)
    BY DEF QuietInv, KillWriter, KillReader
  <2>2. CASE UNCHANGED vars
    BY <2>2, CopyStutters DEF vars, loopVars, wVars, rVars
  <2> QED BY <2>1, <2>2, CopyWriter, CopyReader DEF Next, SessionOver
<1> QED BY <1>1, <1>2, <1>3, <1>4, PTL DEF Spec, ImplementsBlockCopy, Copy!Spec
=============================================================================
