--------------------------- MODULE XferLoop_proofs ---------------------------
(***************************************************************************)
(* The steps of the semaphore programs' loops preserve LoopInv, for every  *)
(* set of readers, input length and buffer size.  One lemma per step, for  *)
(* a private or a shared buffer where the step is common to both.  Then    *)
(* the steps outside the loops, the end of file and BlockCopy.             *)
(***************************************************************************)
EXTENDS XferLoop, SequenceTheorems, TLAPS

USE DEF WRITE_SEM, READ_SEM

\* The writer takes its turn: reserveSem, sem_wait.
LEMMA WriterReserveInv ==
  ASSUME NEW p \in BOOLEAN, LoopInv(p), WriterReserve
  PROVE  LoopInv(p)'
<1> USE XferAssumption DEF WriterReserve, ReserveSem, segVars, rVars
<1>1. LoopTypeOK'
  BY DEF LoopInv, LoopTypeOK, WriterPlaces, ReaderPlaces
<1>2. TurnInv'
  BY DEF LoopInv, LoopTypeOK, TurnInv, WriterHolds, ReaderHolds
<1>3. DataInv(p)'
  BY DEF LoopInv, LoopTypeOK, TurnInv, DataInv, OutputIsPrefix, Delivered, Pending,
         InBuf, WriterHolds, ReaderHolds
<1>4. CountInv'
  BY DEF LoopInv, LoopTypeOK, TurnInv, CountInv, WriterHolds, ReaderHolds
<1> QED BY <1>1, <1>2, <1>3, <1>4 DEF LoopInv

\* read() into the shared buffer, of any length it may return.
LEMMA ReadSharedInv ==
  ASSUME NEW p \in BOOLEAN, LoopInv(p), ReadShared, ~p
  PROVE  LoopInv(p)'
<1> USE XferAssumption
<1>1. PICK n \in ReadResults :
        wcnt' = n /\ pos' = pos + n /\ buf' = Filled(buf, pos, n)
  BY DEF ReadShared
<1>2. /\ n \in 0 .. BufSize /\ pos + n \in 0 .. NBytes
      /\ n = 0 => pos + n = NBytes
  BY DEF ReadResults, LoopInv, LoopTypeOK
<1>3. /\ wpc = "read" /\ wpc' = "store"
      /\ UNCHANGED <<sem, cnt, wbytes, rpc, rbytes, out>>
  BY DEF ReadShared, rVars
<1>4. LoopTypeOK'
  BY <1>1, <1>2, <1>3 DEF LoopInv, LoopTypeOK, WriterPlaces, Filled
<1>5. TurnInv'
  BY <1>3 DEF LoopInv, TurnInv, WriterHolds, ReaderHolds
<1>6. DataInv(p)'
  <2>1. Len(out) = pos /\ sem[WRITE_SEM] = 0 /\ sem[READ_SEM] = 0
    BY <1>3 DEF LoopInv, DataInv, Delivered, TurnInv, WriterHolds
  <2>2. \A r \in Readers : ~ReaderHolds(r)
    BY <1>3 DEF LoopInv, TurnInv, WriterHolds
  <2>3. InBuf(wcnt)'
    <3> SUFFICES ASSUME NEW i \in 1 .. n PROVE buf'[i] = Len(out) + i
      BY <1>1, <1>3 DEF InBuf
    <3> QED BY <1>1, <1>2, <2>1 DEF Filled
  <2>4. Pending(wcnt)'
    BY <1>1, <1>2, <1>3, <2>1 DEF Pending, LoopInv, LoopTypeOK
  <2>5. OutputIsPrefix'
    BY <1>1, <1>2, <1>3 DEF LoopInv, DataInv, OutputIsPrefix, LoopTypeOK
  <2> QED
    BY <1>3, <2>1, <2>2, <2>3, <2>4, <2>5 DEF DataInv, ReaderHolds
<1>7. CountInv'
  BY <1>1, <1>2, <1>3 DEF LoopInv, LoopTypeOK, CountInv
<1> QED BY <1>4, <1>5, <1>6, <1>7 DEF LoopInv

\* read() into the private struct of the mapped-file writer.
LEMMA ReadPrivateInv ==
  ASSUME NEW p \in BOOLEAN, LoopInv(p), ReadPrivate, p
  PROVE  LoopInv(p)'
<1> USE XferAssumption
<1>1. PICK n \in ReadResults : wcnt' = n /\ pos' = pos + n
  BY DEF ReadPrivate
<1>2. /\ n \in 0 .. BufSize /\ pos + n \in 0 .. NBytes
      /\ n = 0 => pos + n = NBytes
  BY DEF ReadResults, LoopInv, LoopTypeOK
<1>3. /\ wpc = "read" /\ wpc' = "store"
      /\ UNCHANGED <<sem, cnt, buf, wbytes, rpc, rbytes, out>>
  BY DEF ReadPrivate, segVars, rVars
<1>4. LoopTypeOK'
  BY <1>1, <1>2, <1>3 DEF LoopInv, LoopTypeOK, WriterPlaces
<1>5. TurnInv'
  BY <1>3 DEF LoopInv, TurnInv, WriterHolds, ReaderHolds
<1>6. DataInv(p)'
  <2>1. Len(out) = pos /\ sem[WRITE_SEM] = 0 /\ sem[READ_SEM] = 0
    BY <1>3 DEF LoopInv, DataInv, Delivered, TurnInv, WriterHolds
  <2>2. \A r \in Readers : ~ReaderHolds(r)
    BY <1>3 DEF LoopInv, TurnInv, WriterHolds
  <2>3. Pending(wcnt)'
    BY <1>1, <1>2, <1>3, <2>1 DEF Pending, LoopInv, LoopTypeOK
  <2>4. OutputIsPrefix'
    BY <1>1, <1>2, <1>3 DEF LoopInv, DataInv, OutputIsPrefix, LoopTypeOK
  <2> QED
    BY <1>3, <2>1, <2>2, <2>3, <2>4 DEF DataInv, ReaderHolds
<1>7. CountInv'
  BY <1>1, <1>2, <1>3 DEF LoopInv, LoopTypeOK, CountInv
<1> QED BY <1>4, <1>5, <1>6, <1>7 DEF LoopInv

\* The result of read() becomes the shared count.
LEMMA StoreCountInv ==
  ASSUME NEW p \in BOOLEAN, LoopInv(p), StoreCount, ~p
  PROVE  LoopInv(p)'
<1> USE XferAssumption DEF StoreCount, rVars
<1>1. LoopTypeOK'
  BY DEF LoopInv, LoopTypeOK, WriterPlaces, ReaderPlaces
<1>2. TurnInv'
  BY DEF LoopInv, LoopTypeOK, TurnInv, WriterHolds, ReaderHolds
<1>3. DataInv(p)'
  BY DEF LoopInv, LoopTypeOK, TurnInv, DataInv, OutputIsPrefix, Delivered, Pending,
         InBuf, WriterHolds, ReaderHolds
<1>4. CountInv'
  BY DEF LoopInv, LoopTypeOK, TurnInv, CountInv, WriterHolds, ReaderHolds
<1> QED BY <1>1, <1>2, <1>3, <1>4 DEF LoopInv

\* The private struct is copied over the segment.
LEMMA CopyOutInv ==
  ASSUME NEW p \in BOOLEAN, LoopInv(p), CopyOut
  PROVE  LoopInv(p)'
<1> USE XferAssumption
<1>1. /\ wpc = "store" /\ wpc' = "give"
      /\ cnt' = wcnt /\ buf' = Filled(Blank, pos - wcnt, wcnt)
      /\ UNCHANGED <<sem, pos, wcnt, wbytes, rpc, rbytes, out>>
  BY DEF CopyOut, rVars
<1>2. /\ Len(out) + wcnt = pos /\ Len(out) = pos - wcnt
      /\ wcnt = 0 => pos = NBytes
      /\ pos \in 0 .. NBytes /\ wcnt \in 0 .. BufSize /\ Len(out) \in Nat
  BY <1>1 DEF LoopInv, LoopTypeOK, DataInv, Pending
<1>3. \A i \in 1 .. BufSize :
        buf'[i] = IF i <= wcnt THEN Len(out) + i ELSE 0
  BY <1>1, <1>2 DEF Filled, Blank
<1>4. LoopTypeOK'
  <2>1. \A i \in 1 .. BufSize : buf'[i] \in 0 .. NBytes
    BY <1>2, <1>3
  <2>2. buf' \in [1 .. BufSize -> 0 .. NBytes]
    BY <1>1, <2>1 DEF Filled
  <2> QED
    BY <1>1, <2>2 DEF LoopInv, LoopTypeOK, WriterPlaces
<1>5. TurnInv'
  BY <1>1 DEF LoopInv, TurnInv, WriterHolds, ReaderHolds
<1>6. DataInv(p)'
  <2>1. sem[WRITE_SEM] = 0 /\ sem[READ_SEM] = 0 /\ \A r \in Readers : ~ReaderHolds(r)
    BY <1>1 DEF LoopInv, TurnInv, WriterHolds
  <2>2. InBuf(cnt)'
    BY <1>1, <1>2, <1>3 DEF InBuf
  <2>3. Pending(cnt)'
    BY <1>1, <1>2 DEF Pending
  <2>4. OutputIsPrefix'
    BY <1>1 DEF LoopInv, DataInv, OutputIsPrefix
  <2> QED
    BY <1>1, <2>1, <2>2, <2>3, <2>4 DEF DataInv, ReaderHolds
<1>7. CountInv'
  BY <1>1 DEF LoopInv, CountInv
<1> QED BY <1>4, <1>5, <1>6, <1>7 DEF LoopInv

\* The writer gives the turn to the reader: releaseSem, sem_post.
LEMMA WriterReleaseInv ==
  ASSUME NEW p \in BOOLEAN, LoopInv(p), WriterRelease
  PROVE  LoopInv(p)'
<1> USE XferAssumption
<1>1. /\ wpc = "give" /\ wpc' = "check"
      /\ sem' = [sem EXCEPT ![READ_SEM] = @ + 1]
      /\ UNCHANGED <<cnt, buf, pos, wcnt, wbytes, rpc, rbytes, out>>
  BY DEF WriterRelease, ReleaseSem, segVars, rVars
<1>2. /\ sem[WRITE_SEM] = 0 /\ sem[READ_SEM] = 0
      /\ \A r \in Readers : ~ReaderHolds(r)
  BY <1>1 DEF LoopInv, TurnInv, WriterHolds
<1>3. sem'[WRITE_SEM] = 0 /\ sem'[READ_SEM] = 1
  BY <1>1, <1>2 DEF LoopInv, LoopTypeOK
<1>4. LoopTypeOK'
  BY <1>1 DEF LoopInv, LoopTypeOK, WriterPlaces
<1>5. TurnInv'
  BY <1>1, <1>2, <1>3 DEF TurnInv, WriterHolds, ReaderHolds
<1>6. DataInv(p)'
  <2>1. Pending(cnt) /\ InBuf(cnt) /\ OutputIsPrefix
    BY <1>1 DEF LoopInv, DataInv
  <2>2. Pending(cnt)' /\ InBuf(cnt)' /\ OutputIsPrefix'
    BY <1>1, <2>1 DEF Pending, InBuf, OutputIsPrefix
  <2> QED
    BY <1>1, <1>2, <1>3, <2>2 DEF DataInv, ReaderHolds
<1>7. CountInv'
  BY <1>1 DEF LoopInv, CountInv
<1> QED BY <1>4, <1>5, <1>6, <1>7 DEF LoopInv

\* The end test, on the shared count or the private one: they are equal.
LEMMA CheckEofInv ==
  ASSUME NEW p \in BOOLEAN, NEW c, c = cnt \/ c = wcnt,
         LoopInv(p), CheckEof(c)
  PROVE  LoopInv(p)'
<1> USE XferAssumption DEF CheckEof, segVars, rVars
<1>1. LoopTypeOK'
  BY DEF LoopInv, LoopTypeOK, WriterPlaces, ReaderPlaces
<1>2. TurnInv'
  BY DEF LoopInv, LoopTypeOK, TurnInv, WriterHolds, ReaderHolds
<1>3. DataInv(p)'
  BY DEF LoopInv, LoopTypeOK, TurnInv, DataInv, OutputIsPrefix, Delivered, Pending,
         InBuf, WriterHolds, ReaderHolds
<1>4. CountInv'
  BY DEF LoopInv, LoopTypeOK, TurnInv, CountInv, WriterHolds, ReaderHolds
<1> QED BY <1>1, <1>2, <1>3, <1>4 DEF LoopInv

\* The writer's total, on either count.
LEMMA AddCountInv ==
  ASSUME NEW p \in BOOLEAN, NEW c, c = cnt \/ c = wcnt,
         LoopInv(p), AddCount(c)
  PROVE  LoopInv(p)'
<1> USE XferAssumption DEF AddCount, segVars, rVars
<1>1. LoopTypeOK'
  BY DEF LoopInv, LoopTypeOK, WriterPlaces, ReaderPlaces
<1>2. TurnInv'
  BY DEF LoopInv, LoopTypeOK, TurnInv, WriterHolds, ReaderHolds
<1>3. DataInv(p)'
  BY DEF LoopInv, LoopTypeOK, TurnInv, DataInv, OutputIsPrefix, Delivered, Pending,
         InBuf, WriterHolds, ReaderHolds
<1>4. CountInv'
  BY DEF LoopInv, LoopTypeOK, TurnInv, CountInv, WriterHolds, ReaderHolds
<1> QED BY <1>1, <1>2, <1>3, <1>4 DEF LoopInv

\* A reader takes the turn.
LEMMA ReaderReserveInv ==
  ASSUME NEW p \in BOOLEAN, NEW r \in Readers, LoopInv(p), ReaderReserve(r)
  PROVE  LoopInv(p)'
<1> USE XferAssumption DEF ReaderReserve, ReserveSem, ReaderAt, ReaderTo, segVars, wVars
<1>1. LoopTypeOK'
  BY DEF LoopInv, LoopTypeOK, WriterPlaces, ReaderPlaces
<1>2. TurnInv'
  BY DEF LoopInv, LoopTypeOK, TurnInv, WriterHolds, ReaderHolds
<1>3. DataInv(p)'
  BY DEF LoopInv, LoopTypeOK, TurnInv, DataInv, OutputIsPrefix, Delivered, Pending,
         InBuf, WriterHolds, ReaderHolds
<1>4. CountInv'
  BY DEF LoopInv, LoopTypeOK, TurnInv, CountInv, WriterHolds, ReaderHolds
<1> QED BY <1>1, <1>2, <1>3, <1>4 DEF LoopInv

\* A reader looks at the count: the end, or a block to write.
LEMMA ReaderTestInv ==
  ASSUME NEW p \in BOOLEAN, NEW r \in Readers, LoopInv(p), ReaderTest(r)
  PROVE  LoopInv(p)'
<1> USE XferAssumption
<1>1. /\ rpc[r] = "test" /\ rpc' = [rpc EXCEPT ![r] = IF cnt = 0 THEN "eof" ELSE "write"]
      /\ UNCHANGED <<sem, cnt, buf, pos, wcnt, wpc, wbytes, out>>
      /\ rbytes' = [rbytes EXCEPT ![r] = @ + cnt]
  BY DEF ReaderTest, ReaderAt, ReaderTo, segVars, wVars
<1>2. /\ sem[WRITE_SEM] = 0 /\ sem[READ_SEM] = 0 /\ ~WriterHolds
      /\ \A s \in Readers : ReaderHolds(s) => s = r
  BY <1>1 DEF LoopInv, TurnInv, ReaderHolds
<1>3. \A s \in Readers : /\ s # r => rpc'[s] = rpc[s]
                         /\ s = r => rpc'[s] = IF cnt = 0 THEN "eof" ELSE "write"
  BY <1>1 DEF LoopInv, LoopTypeOK
<1>4. LoopTypeOK'
  BY <1>1 DEF LoopInv, LoopTypeOK, ReaderPlaces
<1>5. TurnInv'
  BY <1>1, <1>2, <1>3 DEF TurnInv, WriterHolds, ReaderHolds
<1>6. DataInv(p)'
  <2>1. Pending(cnt) /\ InBuf(cnt) /\ OutputIsPrefix
    BY <1>1 DEF LoopInv, DataInv
  <2>2. Pending(cnt)' /\ InBuf(cnt)' /\ OutputIsPrefix'
    BY <1>1, <2>1 DEF Pending, InBuf, OutputIsPrefix
  <2>3. cnt = 0 => Delivered' /\ (pos = NBytes)'
    BY <1>1, <2>1 DEF Pending, Delivered, LoopInv, LoopTypeOK
  <2> QED
    BY <1>1, <1>2, <1>3, <2>2, <2>3 DEF DataInv, WriterHolds, ReaderHolds
<1>7. CountInv'
  BY <1>1 DEF LoopInv, CountInv
<1> QED BY <1>4, <1>5, <1>6, <1>7 DEF LoopInv

\* Appending the next block of the input to a prefix of it gives a longer
\* prefix: what the reader's write(STDOUT_FILENO, ...) does to the output.
LEMMA BlockAppended ==
  ASSUME NEW m \in Nat, NEW s \in Seq(0 .. m), NEW t \in Seq(0 .. m),
         \A i \in 1 .. Len(s) : s[i] = i,
         \A i \in 1 .. Len(t) : t[i] = Len(s) + i
  PROVE  /\ s \o t \in Seq(0 .. m) /\ Len(s \o t) = Len(s) + Len(t)
         /\ \A i \in 1 .. Len(s \o t) : (s \o t)[i] = i
<1>1. s \o t \in Seq(0 .. m) /\ Len(s \o t) = Len(s) + Len(t)
  OBVIOUS
<1>2. ASSUME NEW i \in 1 .. Len(s \o t) PROVE (s \o t)[i] = i
  <2>1. (s \o t)[i] = IF i <= Len(s) THEN s[i] ELSE t[i - Len(s)]
    OBVIOUS
  <2>2. CASE i <= Len(s)
    BY <2>1, <2>2
  <2>3. CASE i > Len(s)
    <3>1. i - Len(s) \in 1 .. Len(t) /\ Len(s) + (i - Len(s)) = i
      BY <1>1, <2>3
    <3>2. t[i - Len(s)] = Len(s) + (i - Len(s))
      BY <3>1, Zenon
    <3>3. ~(i <= Len(s))
      BY <1>1, <2>3
    <3> QED BY <2>1, <3>1, <3>2, <3>3, Zenon
  <2> QED BY <1>1, <2>2, <2>3
<1> QED BY <1>1, <1>2

\* A reader writes the block: the output grows by exactly what was pending.
LEMMA ReaderWriteInv ==
  ASSUME NEW p \in BOOLEAN, NEW r \in Readers, LoopInv(p), ReaderWrite(r)
  PROVE  LoopInv(p)'
<1> USE XferAssumption
<1>1. /\ rpc[r] = "write" /\ rpc' = [rpc EXCEPT ![r] = "give"]
      /\ out' = out \o SubSeq(buf, 1, cnt)
      /\ UNCHANGED <<sem, cnt, buf, pos, wcnt, wpc, wbytes, rbytes>>
  BY DEF ReaderWrite, ReaderAt, ReaderTo, segVars, wVars
<1>2. /\ sem[WRITE_SEM] = 0 /\ sem[READ_SEM] = 0 /\ ~WriterHolds
      /\ \A s \in Readers : ReaderHolds(s) => s = r
  BY <1>1 DEF LoopInv, TurnInv, ReaderHolds
<1>3. \A s \in Readers : /\ s # r => rpc'[s] = rpc[s]
                         /\ s = r => rpc'[s] = "give"
  BY <1>1 DEF LoopInv, LoopTypeOK
<1>4. /\ Len(out) + cnt = pos
      /\ \A i \in 1 .. cnt : buf[i] = Len(out) + i
      /\ \A i \in 1 .. Len(out) : out[i] = i
  BY <1>1 DEF LoopInv, DataInv, Pending, InBuf, OutputIsPrefix
<1>5. /\ out' \in Seq(0 .. NBytes) /\ Len(out') = Len(out) + cnt
      /\ \A i \in 1 .. Len(out') : out'[i] = i
  <2>1. /\ cnt \in 0 .. BufSize /\ buf \in [1 .. BufSize -> 0 .. NBytes]
        /\ out \in Seq(0 .. NBytes) /\ NBytes \in Nat /\ BufSize \in Nat
    BY DEF LoopInv, LoopTypeOK, XferAssumption
  <2> DEFINE block == SubSeq(buf, 1, cnt)
  <2>2. /\ block \in Seq(0 .. NBytes) /\ Len(block) = cnt
        /\ \A i \in 1 .. cnt : block[i] = buf[i]
    BY <2>1
  <2>3. out' = out \o block
    BY <1>1
  <2> HIDE DEF block
  <2>4. \A i \in 1 .. Len(block) : block[i] = Len(out) + i
    BY <1>4, <2>2
  <2> QED BY <1>4, <2>1, <2>2, <2>3, <2>4, BlockAppended
<1>6. LoopTypeOK'
  BY <1>1, <1>5 DEF LoopInv, LoopTypeOK, ReaderPlaces
<1>7. TurnInv'
  BY <1>1, <1>2, <1>3 DEF LoopInv, TurnInv, WriterHolds, ReaderHolds
<1>8. DataInv(p)'
  <2>1. Delivered' /\ OutputIsPrefix'
    <3>1. Len(out') = pos' /\ pos' = pos
      BY <1>1, <1>4, <1>5
    <3> QED BY <1>5, <3>1 DEF Delivered, OutputIsPrefix, LoopInv, LoopTypeOK
  <2> QED
    BY <1>1, <1>2, <1>3, <2>1 DEF DataInv, WriterHolds, ReaderHolds
<1>9. CountInv'
  BY <1>1 DEF LoopInv, CountInv
<1> QED BY <1>6, <1>7, <1>8, <1>9 DEF LoopInv

\* A reader gives the turn back.
LEMMA ReaderReleaseInv ==
  ASSUME NEW p \in BOOLEAN, NEW r \in Readers, LoopInv(p), ReaderRelease(r)
  PROVE  LoopInv(p)'
<1> USE XferAssumption
<1>1. /\ rpc[r] = "give" /\ rpc' = [rpc EXCEPT ![r] = "wait"]
      /\ sem' = [sem EXCEPT ![WRITE_SEM] = @ + 1]
      /\ UNCHANGED <<cnt, buf, pos, wcnt, wpc, wbytes, rbytes, out>>
  BY DEF ReaderRelease, ReleaseSem, ReaderAt, ReaderTo, segVars, wVars
<1>2. /\ sem[WRITE_SEM] = 0 /\ sem[READ_SEM] = 0 /\ ~WriterHolds
      /\ \A s \in Readers : ReaderHolds(s) => s = r
  BY <1>1 DEF LoopInv, TurnInv, ReaderHolds
<1>3. sem'[WRITE_SEM] = 1 /\ sem'[READ_SEM] = 0
  BY <1>1, <1>2 DEF LoopInv, LoopTypeOK
<1>4. \A s \in Readers : /\ s # r => rpc'[s] = rpc[s]
                         /\ s = r => rpc'[s] = "wait"
  BY <1>1 DEF LoopInv, LoopTypeOK
<1>5. LoopTypeOK'
  BY <1>1 DEF LoopInv, LoopTypeOK, ReaderPlaces
<1>6. TurnInv'
  BY <1>1, <1>2, <1>3, <1>4 DEF TurnInv, WriterHolds, ReaderHolds
<1>7. DataInv(p)'
  <2>1. Delivered' /\ OutputIsPrefix'
    BY <1>1 DEF Delivered, OutputIsPrefix, LoopInv, DataInv
  <2> QED
    BY <1>1, <1>2, <1>3, <1>4, <2>1 DEF DataInv, WriterHolds, ReaderHolds
<1>8. CountInv'
  BY <1>1 DEF LoopInv, CountInv
<1> QED BY <1>5, <1>6, <1>7, <1>8 DEF LoopInv

----------------------------------------------------------------------------
\* The whole loops.

LEMMA SemWriterInv == LoopInv(FALSE) /\ SemWriter => LoopInv(FALSE)'
BY WriterReserveInv, ReadSharedInv, StoreCountInv, WriterReleaseInv, CheckEofInv,
   AddCountInv DEF SemWriter

LEMMA FileWriterInv == LoopInv(TRUE) /\ FileWriter => LoopInv(TRUE)'
BY WriterReserveInv, ReadPrivateInv, CopyOutInv, WriterReleaseInv, CheckEofInv,
   AddCountInv DEF FileWriter

LEMMA SemReaderInv ==
  ASSUME NEW p \in BOOLEAN, NEW r \in Readers, LoopInv(p), SemReader(r)
  PROVE  LoopInv(p)'
BY ReaderReserveInv, ReaderTestInv, ReaderWriteInv, ReaderReleaseInv DEF SemReader

\* LoopInv contains what the runs check of the loops.
LEMMA LoopInvImplies ==
  ASSUME NEW p \in BOOLEAN, LoopInv(p)
  PROVE  OutputIsPrefix /\ OneTurn
BY DEF LoopInv, DataInv, TurnInv, OneTurn, WriterHolds, ReaderHolds, WriterInside,
       ReaderInside

----------------------------------------------------------------------------
(* Before, between and after the loops.                                    *)

\* The loops begin with the turn at the writer's semaphore, or nowhere.
LEMMA BeginInv ==
  ASSUME NEW p \in BOOLEAN, LoopTypeOK', wpc' \in {"segment", "truncate", "wait"},
         pos' = 0, out' = <<>>, wbytes' = 0, sem'[READ_SEM] = 0, sem'[WRITE_SEM] <= 1,
         \A r \in Readers : ~ReaderHolds(r)'
  PROVE  LoopInv(p)'
<1>1. TurnInv'
  BY DEF TurnInv, WriterHolds, LoopTypeOK
<1>2. DataInv(p)'
  BY DEF DataInv, OutputIsPrefix, Delivered, ReaderHolds, LoopTypeOK
<1>3. CountInv'
  BY DEF CountInv
<1> QED BY <1>1, <1>2, <1>3 DEF LoopInv

\* The steps that leave the loops' view alone.
LEMMA UnchangedLoopInv ==
  ASSUME NEW p \in BOOLEAN, LoopInv(p), UNCHANGED loopVars
  PROVE  LoopInv(p)'
BY DEF loopVars, segVars, wVars, rVars, LoopInv, LoopTypeOK, TurnInv, WriterHolds,
       ReaderHolds, DataInv, OutputIsPrefix, Delivered, Pending, InBuf, CountInv

\* A reader leaves or arrives outside the loop, the rest standing still.
LEMMA ReaderOutsideInv ==
  ASSUME NEW p \in BOOLEAN, LoopInv(p), NEW r \in Readers,
         NEW l \in {"start", "segment", "wait", "detached"},
         ReaderTo(r, l), l = "detached" => rpc[r] = "eof",
         rbytes' \in [Readers -> Nat],
         UNCHANGED <<sem, segVars, wVars, out>>
  PROVE  LoopInv(p)'
<1> USE DEF segVars, wVars
<1>1. /\ rpc' \in [Readers -> ReaderPlaces] /\ rpc'[r] = l
      /\ \A s \in Readers : s # r => rpc'[s] = rpc[s]
  BY DEF ReaderTo, LoopInv, LoopTypeOK, ReaderPlaces
<1>2. LoopTypeOK'
  BY <1>1 DEF LoopInv, LoopTypeOK
<1>3. TurnInv'
  BY <1>1 DEF LoopInv, TurnInv, WriterHolds, ReaderHolds
<1>4. DataInv(p)'
  <2>1. OutputIsPrefix' /\ (Delivered' <=> Delivered) /\ (Pending(cnt)' <=> Pending(cnt))
        /\ (InBuf(cnt)' <=> InBuf(cnt)) /\ (Pending(wcnt)' <=> Pending(wcnt))
        /\ (InBuf(wcnt)' <=> InBuf(wcnt))
    BY DEF OutputIsPrefix, Delivered, Pending, InBuf, LoopInv, DataInv
  <2> QED BY <1>1, <2>1 DEF LoopInv, DataInv
<1>5. CountInv'
  BY DEF LoopInv, CountInv
<1> QED BY <1>2, <1>3, <1>4, <1>5 DEF LoopInv

\* The writer leaves the loop or is gone, and takes what it held with it.
LEMMA WriterOutsideInv ==
  ASSUME NEW p \in BOOLEAN, LoopInv(p),
         \/ wpc' = "start"
         \/ wpc = "remove_sem" /\ wpc' \in {"remove_seg", "done"}
         \/ wpc = "remove_seg" /\ wpc' = "done",
         UNCHANGED <<sem, segVars, pos, wcnt, wbytes, rVars>>
  PROVE  LoopInv(p)'
<1> USE DEF segVars, rVars
<1>1. LoopTypeOK'
  BY DEF LoopInv, LoopTypeOK, WriterPlaces
<1>2. TurnInv'
  BY DEF LoopInv, TurnInv, WriterHolds, ReaderHolds
<1>3. DataInv(p)'
  BY DEF OutputIsPrefix, Delivered, Pending, InBuf, LoopInv, DataInv
<1>4. CountInv'
  BY DEF LoopInv, CountInv
<1> QED BY <1>1, <1>2, <1>3, <1>4 DEF LoopInv

\* "Give writer one more turn": like the release in the loop.
LEMMA LastReleaseInv ==
  ASSUME NEW p \in BOOLEAN, LoopInv(p), NEW r \in Readers,
         NEW from \in {"eof", "detached"}, ReaderAt(r, from), ReaderTo(r, "done"),
         ReleaseSem(WRITE_SEM), UNCHANGED <<segVars, wVars, rbytes, out>>
  PROVE  LoopInv(p)'
<1> USE XferAssumption
<1>1. /\ rpc[r] = from /\ rpc' = [rpc EXCEPT ![r] = "done"]
      /\ sem' = [sem EXCEPT ![WRITE_SEM] = @ + 1]
      /\ UNCHANGED <<cnt, buf, pos, wcnt, wpc, wbytes, rbytes, out>>
  BY DEF ReleaseSem, ReaderAt, ReaderTo, segVars, wVars
<1>2. /\ sem[WRITE_SEM] = 0 /\ sem[READ_SEM] = 0 /\ ~WriterHolds
      /\ \A s \in Readers : ReaderHolds(s) => s = r
  BY <1>1 DEF LoopInv, TurnInv, ReaderHolds
<1>3. sem'[WRITE_SEM] = 1 /\ sem'[READ_SEM] = 0
  BY <1>1, <1>2 DEF LoopInv, LoopTypeOK
<1>4. \A s \in Readers : /\ s # r => rpc'[s] = rpc[s]
                         /\ s = r => rpc'[s] = "done"
  BY <1>1 DEF LoopInv, LoopTypeOK
<1>5. LoopTypeOK'
  BY <1>1 DEF LoopInv, LoopTypeOK, ReaderPlaces
<1>6. TurnInv'
  BY <1>1, <1>2, <1>3, <1>4 DEF TurnInv, WriterHolds, ReaderHolds
<1>7. DataInv(p)'
  <2>1. Delivered' /\ OutputIsPrefix'
    BY <1>1 DEF Delivered, OutputIsPrefix, LoopInv, DataInv
  <2> QED
    BY <1>1, <1>2, <1>3, <1>4, <2>1 DEF DataInv, WriterHolds, ReaderHolds
<1>8. CountInv'
  BY <1>1 DEF LoopInv, CountInv
<1> QED BY <1>5, <1>6, <1>7, <1>8 DEF LoopInv

\* "Wait until reader has let us have one more turn": like the reserve.
LEMMA LastTurnInv ==
  ASSUME NEW p \in BOOLEAN, LoopInv(p), wpc = "eof", ReserveSem(WRITE_SEM),
         wpc' = "remove_sem", UNCHANGED <<segVars, pos, wcnt, wbytes, rVars>>
  PROVE  LoopInv(p)'
<1> USE XferAssumption DEF ReserveSem, segVars, rVars
<1>1. LoopTypeOK'
  BY DEF LoopInv, LoopTypeOK, WriterPlaces
<1>2. TurnInv'
  BY DEF LoopInv, LoopTypeOK, TurnInv, WriterHolds, ReaderHolds
<1>3. DataInv(p)'
  BY DEF LoopInv, LoopTypeOK, TurnInv, DataInv, OutputIsPrefix, Delivered, Pending,
         InBuf, WriterHolds, ReaderHolds
<1>4. CountInv'
  BY DEF LoopInv, LoopTypeOK, CountInv
<1> QED BY <1>1, <1>2, <1>3, <1>4 DEF LoopInv

\* A writer that was killed after it had its last turn leaves the turn behind.
LEMMA TurnLeftInv ==
  ASSUME NEW p \in BOOLEAN, LoopInv(p), wpc \in {"remove_sem", "remove_seg"},
         wpc' = "start", ReleaseSem(WRITE_SEM),
         UNCHANGED <<segVars, pos, wcnt, wbytes, rVars>>
  PROVE  LoopInv(p)'
<1> USE XferAssumption DEF ReleaseSem, segVars, rVars
<1>1. LoopTypeOK'
  BY DEF LoopInv, LoopTypeOK, WriterPlaces
<1>2. /\ sem[WRITE_SEM] = 0 /\ sem[READ_SEM] = 0 /\ \A r \in Readers : ~ReaderHolds(r)
      /\ Delivered /\ OutputIsPrefix
  BY DEF LoopInv, TurnInv, DataInv, WriterHolds
<1>3. sem'[WRITE_SEM] = 1 /\ sem'[READ_SEM] = 0
  BY <1>2 DEF LoopInv, LoopTypeOK
<1>4. TurnInv'
  BY <1>2, <1>3 DEF TurnInv, WriterHolds, ReaderHolds
<1>5. DataInv(p)'
  BY <1>2, <1>3 DEF DataInv, Delivered, OutputIsPrefix, ReaderHolds
<1>6. CountInv'
  BY DEF CountInv
<1> QED BY <1>1, <1>4, <1>5, <1>6 DEF LoopInv

----------------------------------------------------------------------------
(* The end of file, in a run in which no process is killed: the zero count *)
(* stays in the segment, and the writer's last turn comes from the reader  *)
(* that saw it.                                                            *)

Over == \E r \in Readers : rpc[r] \in PastLoop

Removing == {"remove_sem", "remove_seg", "done"}

EndInv ==
  /\ wpc \in {"eof"} \cup Removing => cnt = 0
  /\ \A r \in Readers : rpc[r] \in {"write", "give"} => cnt # 0
  /\ cnt = 0 /\ (sem[READ_SEM] = 1 \/ \E r \in Readers : rpc[r] = "test") =>
        wpc \in {"check", "eof"}
  /\ Over => /\ wpc \in {"check", "eof"} \cup Removing
             /\ cnt = 0 /\ sem[READ_SEM] = 0
             /\ \A r \in Readers : rpc[r] \notin {"test", "write", "give"}
  /\ wpc \in {"check", "eof"} /\ cnt = 0 /\ sem[WRITE_SEM] = 1 => Over
  /\ wpc \in Removing => Over

Looping(r) == rpc[r] \in {"wait", "test", "write", "give"}

\* One reader's total is what has come out, and at the end everything.
TallyInv ==
  /\ \A r \in Readers : /\ rpc[r] \in PastLoop => rbytes[r] = NBytes
                        /\ rpc[r] = "segment" => rbytes[r] = 0
  /\ Over \/ \A r \in Readers : Looping(r) =>
               rbytes[r] = Len(out) + (IF rpc[r] = "write" THEN cnt ELSE 0)
  /\ Over \/ out = <<>> \/ \E r \in Readers : Looping(r)

\* Nobody is past "wait": both hold whatever the segment has in it.
LEMMA BeginEnd ==
  ASSUME sem'[READ_SEM] = 0, out' = <<>>, wpc' \in {"segment", "truncate", "wait"},
         \A r \in Readers : rpc'[r] \in {"start", "segment", "wait"} /\ rbytes'[r] = 0
  PROVE  EndInv' /\ TallyInv'
BY DEF EndInv, TallyInv, Over, PastLoop, Removing, Looping

LEMMA WriterEndInv ==
  ASSUME NEW p \in BOOLEAN, LoopInv(p), EndInv, SemWriter \/ FileWriter
  PROVE  EndInv'
<1> USE XferAssumption DEF EndInv, Over, PastLoop, Removing, rVars, segVars
<1>0. /\ rpc' = rpc /\ sem \in [{WRITE_SEM, READ_SEM} -> Nat]
      /\ Over' = Over
  BY DEF SemWriter, FileWriter, WriterReserve, ReadShared, StoreCount, ReadPrivate, CopyOut,
         WriterRelease, CheckEof, AddCount, LoopInv, LoopTypeOK
<1>1. CASE WriterReserve
  <2>1. /\ wpc = "wait" /\ wpc' = "read" /\ cnt' = cnt /\ sem[WRITE_SEM] > 0
        /\ sem' = [sem EXCEPT ![WRITE_SEM] = @ - 1]
    BY <1>1 DEF WriterReserve, ReserveSem
  <2>2. sem'[READ_SEM] = 0 /\ \A r \in Readers : ~ReaderHolds(r)
    BY <1>0, <2>1 DEF LoopInv, TurnInv
  <2> QED BY <1>0, <2>1, <2>2 DEF ReaderHolds
<1>2. CASE ReadShared \/ ReadPrivate \/ StoreCount \/ CopyOut
  <2>1. wpc \in {"read", "store"} /\ wpc' \in {"store", "give"} /\ sem' = sem
    BY <1>2 DEF ReadShared, ReadPrivate, StoreCount, CopyOut
  <2>2. sem[READ_SEM] = 0 /\ \A r \in Readers : ~ReaderHolds(r)
    BY <2>1 DEF LoopInv, TurnInv, WriterHolds
  <2> QED BY <1>0, <2>1, <2>2 DEF ReaderHolds
<1>3. CASE WriterRelease
  <2>1. /\ wpc = "give" /\ wpc' = "check" /\ cnt' = cnt
        /\ sem' = [sem EXCEPT ![READ_SEM] = @ + 1]
    BY <1>3 DEF WriterRelease, ReleaseSem
  <2>2. sem'[WRITE_SEM] = 0 /\ \A r \in Readers : ~ReaderHolds(r)
    BY <1>0, <2>1 DEF LoopInv, TurnInv, WriterHolds
  <2> QED BY <1>0, <2>1, <2>2 DEF ReaderHolds
<1>4. CASE CheckEof(cnt) \/ CheckEof(wcnt)
  <2>1. /\ wpc = "check" /\ sem' = sem /\ cnt' = cnt
        /\ wpc' = IF cnt = 0 THEN "eof" ELSE "count"
    BY <1>4 DEF CheckEof, LoopInv, CountInv
  <2> QED BY <1>0, <2>1
<1>5. CASE AddCount(cnt) \/ AddCount(wcnt)
  <2>1. wpc = "count" /\ wpc' = "wait" /\ sem' = sem /\ cnt' = cnt
    BY <1>5 DEF AddCount
  <2> QED BY <1>0, <2>1
<1> QED BY <1>1, <1>2, <1>3, <1>4, <1>5 DEF SemWriter, FileWriter

LEMMA ReaderEndInv ==
  ASSUME NEW p \in BOOLEAN, LoopInv(p), EndInv, NEW r \in Readers, SemReader(r)
  PROVE  EndInv'
<1> USE XferAssumption DEF wVars, segVars
<1>0. /\ rpc \in [Readers -> ReaderPlaces] /\ sem \in [{WRITE_SEM, READ_SEM} -> Nat]
      /\ UNCHANGED <<cnt, wpc>>
      /\ rpc' = [rpc EXCEPT ![r] = rpc'[r]]
  BY DEF SemReader, ReaderReserve, ReaderTest, ReaderWrite, ReaderRelease, ReaderTo,
         LoopInv, LoopTypeOK
<1>1. CASE ReaderReserve(r)
  <2>1. /\ rpc[r] = "wait" /\ rpc'[r] = "test" /\ sem[READ_SEM] > 0
        /\ sem' = [sem EXCEPT ![READ_SEM] = @ - 1]
    BY <1>0, <1>1 DEF ReaderReserve, ReserveSem, ReaderAt, ReaderTo
  <2>2. sem[READ_SEM] = 1 /\ sem'[READ_SEM] = 0 /\ sem'[WRITE_SEM] = sem[WRITE_SEM]
    BY <1>0, <2>1 DEF LoopInv, TurnInv
  <2>3. ~Over /\ ~Over'
    BY <1>0, <2>1, <2>2 DEF EndInv, Over, PastLoop
  <2> QED BY <1>0, <2>1, <2>2, <2>3 DEF EndInv
<1>2. CASE ReaderTest(r)
  <2>1. /\ rpc[r] = "test" /\ rpc'[r] = (IF cnt = 0 THEN "eof" ELSE "write") /\ sem' = sem
    BY <1>0, <1>2 DEF ReaderTest, ReaderAt, ReaderTo
  <2>2. /\ sem[READ_SEM] = 0 /\ sem[WRITE_SEM] = 0
        /\ \A s \in Readers : s # r => ~ReaderHolds(s)
    BY <2>1 DEF LoopInv, TurnInv, ReaderHolds
  <2>3. ~Over /\ \A s \in Readers : s # r => rpc'[s] = rpc[s] /\ rpc[s] \notin {"test", "write", "give"}
    BY <1>0, <2>1, <2>2 DEF EndInv, ReaderHolds
  <2>4. Over' <=> cnt = 0
    BY <2>1, <2>3 DEF Over, PastLoop
  <2> QED BY <1>0, <2>1, <2>2, <2>3, <2>4 DEF EndInv, Removing
<1>3. CASE ReaderWrite(r)
  <2>1. rpc[r] = "write" /\ rpc'[r] = "give" /\ sem' = sem
    BY <1>0, <1>3 DEF ReaderWrite, ReaderAt, ReaderTo
  <2>2. Over' <=> Over
    BY <1>0, <2>1 DEF Over, PastLoop
  <2> QED BY <1>0, <2>1, <2>2 DEF EndInv
<1>4. CASE ReaderRelease(r)
  <2>1. /\ rpc[r] = "give" /\ rpc'[r] = "wait" /\ sem' = [sem EXCEPT ![WRITE_SEM] = @ + 1]
    BY <1>0, <1>4 DEF ReaderRelease, ReleaseSem, ReaderAt, ReaderTo
  <2>2. (Over' <=> Over) /\ sem'[READ_SEM] = sem[READ_SEM] /\ cnt # 0
    BY <1>0, <2>1 DEF Over, PastLoop, EndInv
  <2> QED BY <1>0, <2>1, <2>2 DEF EndInv
<1> QED BY <1>1, <1>2, <1>3, <1>4 DEF SemReader

LEMMA WriterTallyInv ==
  ASSUME NEW p \in BOOLEAN, LoopInv(p), TallyInv, SemWriter \/ FileWriter
  PROVE  TallyInv'
<1> USE DEF rVars
<1>1. UNCHANGED <<rpc, rbytes, out>>
  BY DEF SemWriter, FileWriter, WriterReserve, ReadShared, StoreCount, ReadPrivate, CopyOut,
         WriterRelease, CheckEof, AddCount
<1>2. cnt' = cnt \/ \A r \in Readers : rpc[r] # "write"
  <2>1. cnt' = cnt \/ wpc = "store"
    BY DEF SemWriter, FileWriter, WriterReserve, ReadShared, StoreCount, ReadPrivate, CopyOut,
           WriterRelease, CheckEof, AddCount, segVars
  <2> QED BY <2>1 DEF LoopInv, TurnInv, WriterHolds, ReaderHolds
<1> QED BY <1>1, <1>2 DEF TallyInv, Over, Looping

LEMMA AppendLength ==
  ASSUME NEW S, NEW a \in Seq(S), NEW b \in Seq(S)
  PROVE  Len(a \o b) = Len(a) + Len(b)
OBVIOUS

\* The only reader in its loop.
LEMMA ReaderTallyInv ==
  ASSUME NEW p \in BOOLEAN, LoopInv(p), EndInv, TallyInv, NEW r \in Readers, SemReader(r),
         \A s \in Readers : Looping(s) => s = r
  PROVE  TallyInv'
<1> USE XferAssumption DEF wVars, segVars
<1>0. /\ rpc \in [Readers -> ReaderPlaces] /\ rbytes \in [Readers -> Nat]
      /\ cnt' = cnt /\ cnt \in Nat /\ Len(out) \in Nat
      /\ rpc' = [rpc EXCEPT ![r] = rpc'[r]] /\ rpc[r] \in {"wait", "test", "write", "give"}
  BY DEF SemReader, ReaderReserve, ReaderTest, ReaderWrite, ReaderRelease, ReaderTo, ReaderAt,
         LoopInv, LoopTypeOK
<1>1. CASE ReaderReserve(r) \/ ReaderRelease(r)
  <2>1. /\ rpc[r] \in {"wait", "give"} /\ rpc'[r] \in {"test", "wait"} /\ UNCHANGED <<rbytes, out>>
    BY <1>0, <1>1 DEF ReaderReserve, ReaderRelease, ReaderAt, ReaderTo
  <2>2. Over' <=> Over
    BY <1>0, <2>1 DEF Over, PastLoop
  <2> QED BY <1>0, <2>1, <2>2 DEF TallyInv, Looping, PastLoop
<1>2. CASE ReaderTest(r)
  <2>1. /\ rpc[r] = "test" /\ rpc'[r] = (IF cnt = 0 THEN "eof" ELSE "write") /\ out' = out
        /\ rbytes' = [rbytes EXCEPT ![r] = @ + cnt]
    BY <1>0, <1>2 DEF ReaderTest, ReaderAt, ReaderTo
  <2>2. ~Over /\ rbytes[r] = Len(out)
    BY <2>1 DEF EndInv, TallyInv, Looping
  <2>3. \A s \in Readers : s # r => rpc'[s] = rpc[s] /\ rpc[s] \notin PastLoop /\ ~Looping(s)'
                                    /\ rbytes'[s] = rbytes[s]
    BY <1>0, <2>1, <2>2 DEF Over, Looping
  <2>4. rbytes'[r] = Len(out) + cnt
    BY <1>0, <2>1, <2>2
  <2>5. CASE cnt = 0
    <3>1. Len(out) = NBytes
      BY <1>0, <2>1, <2>5 DEF LoopInv, DataInv, Pending
    <3> QED BY <1>0, <2>1, <2>3, <2>4, <2>5, <3>1 DEF TallyInv, Over, PastLoop, Looping
  <2>6. CASE cnt # 0
    BY <1>0, <2>1, <2>3, <2>4, <2>6 DEF TallyInv, Over, PastLoop, Looping
  <2> QED BY <2>5, <2>6
<1>3. CASE ReaderWrite(r)
  <2>1. /\ rpc[r] = "write" /\ rpc'[r] = "give" /\ rbytes' = rbytes
        /\ out' = out \o SubSeq(buf, 1, cnt)
    BY <1>0, <1>3 DEF ReaderWrite, ReaderAt, ReaderTo
  <2>2. Len(out') = Len(out) + cnt
    <3>1. /\ cnt \in 0 .. BufSize /\ buf \in [1 .. BufSize -> 0 .. NBytes]
          /\ out \in Seq(0 .. NBytes)
      BY DEF LoopInv, LoopTypeOK
    <3> DEFINE block == SubSeq(buf, 1, cnt)
    <3>2. block \in Seq(0 .. NBytes) /\ Len(block) = cnt
      BY <3>1, XferAssumption
    <3>3. out' = out \o block
      BY <2>1
    <3> HIDE DEF block
    <3>4. Len(out \o block) = Len(out) + Len(block)
      BY <3>1, <3>2, AppendLength
    <3> QED BY <3>2, <3>3, <3>4
  <2>3. ~Over /\ rbytes[r] = Len(out) + cnt
    BY <2>1 DEF EndInv, TallyInv, Looping
  <2>4. \A s \in Readers : s # r => rpc'[s] = rpc[s] /\ rpc[s] \notin PastLoop /\ ~Looping(s)'
    BY <1>0, <2>1, <2>3 DEF Over, Looping
  <2>5. rpc'[r] = "give" /\ rbytes'[r] = Len(out')
    BY <1>0, <2>1, <2>2, <2>3
  <2>6. ASSUME NEW s \in Readers
        PROVE  /\ rpc'[s] \in PastLoop => rbytes'[s] = NBytes
               /\ rpc'[s] = "segment" => rbytes'[s] = 0
               /\ Looping(s)' => rbytes'[s] = Len(out') + (IF rpc'[s] = "write" THEN cnt' ELSE 0)
    <3>1. CASE s = r
      BY <1>0, <2>2, <2>5, <3>1 DEF PastLoop
    <3>2. CASE s # r
      BY <2>1, <2>4, <3>2 DEF TallyInv, PastLoop
    <3> QED BY <3>1, <3>2
  <2>7. Looping(r)'
    BY <2>5 DEF Looping
  <2> QED BY <2>6, <2>7 DEF TallyInv
<1> QED BY <1>1, <1>2, <1>3 DEF SemReader

\* A reader that arrives, or finds the objects gone.
LEMMA ReaderOutsideEnd ==
  ASSUME NEW p \in BOOLEAN, LoopInv(p), EndInv, TallyInv, NEW r \in Readers,
         NEW l \in {"start", "segment", "wait", "detached"}, ReaderTo(r, l),
         \/ rpc[r] = "start" /\ l = "segment"
         \/ rpc[r] = "segment" /\ l \in {"start", "wait"} /\ \A s \in Readers : ~Looping(s)
         \/ rpc[r] \in {"wait", "clear"} /\ l = "start" /\ Over
         \/ rpc[r] = "eof" /\ l = "detached",
         rbytes' = (IF l = "segment" THEN [rbytes EXCEPT ![r] = 0] ELSE rbytes),
         UNCHANGED <<sem, segVars, wVars, out>>
  PROVE  EndInv' /\ TallyInv'
<1>0. /\ rpc \in [Readers -> ReaderPlaces] /\ rbytes \in [Readers -> Nat]
      /\ rpc' = [rpc EXCEPT ![r] = l] /\ UNCHANGED <<sem, cnt, wpc, out>>
      /\ rpc[r] \in {"start", "segment", "wait", "clear", "eof"}
  BY DEF ReaderTo, segVars, wVars, LoopInv, LoopTypeOK
<1>1. Over' <=> Over
  BY <1>0 DEF Over, PastLoop
<1>2. EndInv'
  BY <1>0, <1>1 DEF EndInv
<1>3. \A s \in Readers : s # r => rpc'[s] = rpc[s] /\ rbytes'[s] = rbytes[s]
  BY <1>0
<1>4. CASE rpc[r] = "segment" /\ \A s \in Readers : ~Looping(s)
  <2>1. /\ rbytes'[r] = 0 /\ l \in {"start", "wait"} /\ rpc'[r] = l
        /\ Over \/ (out' = <<>> /\ Len(out') = 0)
    BY <1>0, <1>4 DEF TallyInv
  <2>2. ASSUME NEW s \in Readers
        PROVE  /\ rpc'[s] \in PastLoop => rbytes'[s] = NBytes
               /\ rpc'[s] = "segment" => rbytes'[s] = 0
               /\ Looping(s)' => s = r
    <3>1. CASE s = r
      BY <2>1, <3>1 DEF PastLoop
    <3>2. CASE s # r
      BY <1>3, <1>4, <3>2 DEF TallyInv, Looping
    <3> QED BY <3>1, <3>2
  <2> QED BY <1>1, <1>2, <2>1, <2>2 DEF TallyInv
<1>5. CASE rpc[r] \in {"wait", "clear", "eof"}
  <2>1. /\ Over /\ rpc'[r] = l /\ l \in {"start", "detached"} /\ rbytes' = rbytes
        /\ l = "detached" => rpc[r] = "eof"
    BY <1>0, <1>5 DEF Over, PastLoop
  <2>2. ASSUME NEW s \in Readers
        PROVE  /\ rpc'[s] \in PastLoop => rbytes'[s] = NBytes
               /\ rpc'[s] = "segment" => rbytes'[s] = 0
    <3>1. CASE s = r
      BY <2>1, <3>1 DEF TallyInv, PastLoop
    <3>2. CASE s # r
      BY <1>3, <3>2 DEF TallyInv
    <3> QED BY <3>1, <3>2
  <2> QED BY <1>1, <1>2, <2>1, <2>2 DEF TallyInv
<1>6. CASE rpc[r] = "start"
  <2>0. l = "segment" /\ rbytes' = [rbytes EXCEPT ![r] = 0]
    BY <1>6
  <2>1. rpc'[r] = "segment" /\ rbytes'[r] = 0
    BY <1>0, <2>0
  <2>2. \A s \in Readers : Looping(s)' <=> Looping(s)
    BY <1>3, <1>6, <2>1 DEF Looping
  <2>3. ASSUME NEW s \in Readers
        PROVE  /\ rpc'[s] \in PastLoop => rbytes'[s] = NBytes
               /\ rpc'[s] = "segment" => rbytes'[s] = 0
               /\ Looping(s)' => rpc'[s] = rpc[s] /\ rbytes'[s] = rbytes[s]
    <3>1. CASE s = r
      BY <2>1, <3>1 DEF PastLoop, Looping
    <3>2. CASE s # r
      BY <1>3, <3>2 DEF TallyInv
    <3> QED BY <3>1, <3>2
  <2> QED BY <1>0, <1>1, <1>2, <2>2, <2>3 DEF TallyInv
<1> QED BY <1>0, <1>4, <1>5, <1>6

LEMMA LastReleaseEnd ==
  ASSUME NEW p \in BOOLEAN, LoopInv(p), EndInv, TallyInv, NEW r \in Readers,
         rpc[r] \in {"eof", "detached"}, ReaderTo(r, "done"),
         ReleaseSem(WRITE_SEM), UNCHANGED <<segVars, wVars, rbytes, out>>
  PROVE  EndInv' /\ TallyInv'
<1>0. /\ rpc \in [Readers -> ReaderPlaces] /\ rpc' = [rpc EXCEPT ![r] = "done"]
      /\ UNCHANGED <<cnt, wpc, out, rbytes>>
  BY DEF ReaderTo, segVars, wVars, LoopInv, LoopTypeOK
<1>1. Over /\ Over' /\ sem'[READ_SEM] = sem[READ_SEM]
  BY <1>0 DEF Over, PastLoop, ReleaseSem, LoopInv, LoopTypeOK
<1> QED BY <1>0, <1>1 DEF EndInv, TallyInv, Looping, PastLoop

\* The writer's last turn, and the removal.
LEMMA WriterOutsideEnd ==
  ASSUME NEW p \in BOOLEAN, LoopInv(p), EndInv, TallyInv,
         \/ wpc = "eof" /\ wpc' = "remove_sem" /\ ReserveSem(WRITE_SEM)
         \/ wpc \in Removing /\ wpc' \in Removing /\ UNCHANGED sem,
         UNCHANGED <<segVars, rVars>>
  PROVE  EndInv' /\ TallyInv'
<1>0. UNCHANGED <<rpc, rbytes, out, cnt>> /\ sem \in [{WRITE_SEM, READ_SEM} -> Nat]
  BY DEF segVars, rVars, LoopInv, LoopTypeOK
<1>1. TallyInv'
  BY <1>0 DEF TallyInv, Over, Looping
<1>2. CASE wpc = "eof" /\ wpc' = "remove_sem" /\ ReserveSem(WRITE_SEM)
  <2>1. sem[WRITE_SEM] = 1 /\ sem'[READ_SEM] = sem[READ_SEM]
    BY <1>0, <1>2, XferAssumption DEF ReserveSem, LoopInv, TurnInv
  <2>2. Over
    BY <1>2, <2>1 DEF EndInv
  <2> QED BY <1>0, <1>1, <1>2, <2>1, <2>2 DEF EndInv, Over, Removing
<1>3. CASE wpc \in Removing /\ wpc' \in Removing /\ UNCHANGED sem
  BY <1>0, <1>1, <1>3 DEF EndInv, Over, Removing
<1> QED BY <1>2, <1>3

LEMMA UnchangedEnd ==
  ASSUME EndInv, TallyInv, UNCHANGED loopVars
  PROVE  EndInv' /\ TallyInv'
BY DEF EndInv, TallyInv, Over, Looping, loopVars, segVars, wVars, rVars

----------------------------------------------------------------------------
\* The loops implement BlockCopy: read() is Take (or, at the end, nothing),
\* the reader's write() is Deliver, its end test Finish; all else stutters.

LEMMA WriterCopies ==
  ASSUME NEW p \in BOOLEAN, LoopInv(p), SemWriter \/ FileWriter
  PROVE  [Copy!Next]_Copy!vars
<1> USE XferAssumption DEF Copy!vars, segVars, rVars, PastLoop
<1>1. CASE ReadShared \/ ReadPrivate
  <2>1. PICK n \in ReadResults : pos' = pos + n
    BY <1>1 DEF ReadShared, ReadPrivate
  <2>2. /\ n = 0 \/ (n \in 1 .. BufSize /\ pos + n <= NBytes)
        /\ pos \in Nat
    BY DEF ReadResults, LoopInv, LoopTypeOK
  <2>3. Len(out) = pos
    BY <1>1 DEF ReadShared, ReadPrivate, LoopInv, DataInv, Delivered
  <2>4. UNCHANGED <<rpc, out>>
    BY <1>1 DEF ReadShared, ReadPrivate
  <2> QED
    BY <2>1, <2>2, <2>3, <2>4 DEF Copy!Next, Copy!Take, Copy!Idle
<1> QED
  BY <1>1 DEF SemWriter, FileWriter, WriterReserve, StoreCount, CopyOut, WriterRelease,
              CheckEof, AddCount

LEMMA SemReaderCopies ==
  ASSUME NEW p \in BOOLEAN, NEW r \in Readers, LoopInv(p), SemReader(r)
  PROVE  [Copy!Next]_Copy!vars
<1> USE XferAssumption DEF wVars, ReaderAt, ReaderTo
<1>0. rpc \in [Readers -> ReaderPlaces]
  BY DEF LoopInv, LoopTypeOK
<1>1. CASE ReaderReserve(r)
  BY <1>0, <1>1 DEF ReaderReserve, Copy!vars, PastLoop
<1>2. CASE ReaderTest(r)
  <2>1. CASE cnt = 0
    <3>1. Len(out) = pos /\ pos = NBytes
      BY <1>2, <2>1 DEF ReaderTest, LoopInv, LoopTypeOK, DataInv, Pending
    <3>2. rpc'[r] = "eof" /\ UNCHANGED <<pos, out>>
      BY <1>0, <1>2, <2>1 DEF ReaderTest
    <3> QED
      BY <3>1, <3>2 DEF Copy!Next, Copy!Finish, Copy!Idle, PastLoop
  <2>2. CASE cnt # 0
    BY <1>0, <1>2, <2>2 DEF ReaderTest, Copy!vars, PastLoop
  <2> QED BY <2>1, <2>2
<1>3. CASE ReaderWrite(r)
  <2>1. /\ Len(out) + cnt = pos /\ InBuf(cnt)
        /\ cnt \in 0 .. BufSize /\ Len(out) \in Nat
        /\ buf \in [1 .. BufSize -> 0 .. NBytes]
    BY <1>3 DEF ReaderWrite, LoopInv, LoopTypeOK, DataInv, Pending
  <2>2. out' = out \o SubSeq(buf, 1, cnt) /\ UNCHANGED pos
    BY <1>3 DEF ReaderWrite
  <2>3. SubSeq(buf, 1, cnt) = [i \in 1 .. pos - Len(out) |-> Len(out) + i]
    BY <2>1 DEF InBuf
  <2>4. (\E s \in Readers : rpc'[s] \in PastLoop) <=> (\E s \in Readers : rpc[s] \in PastLoop)
    BY <1>0, <1>3 DEF ReaderWrite, PastLoop
  <2>5. CASE cnt = 0
    <3>1. out' = out
      BY <2>1, <2>2, <2>5 DEF LoopInv, LoopTypeOK
    <3> QED BY <2>2, <2>4, <3>1 DEF Copy!vars
  <2>6. CASE cnt # 0
    <3>1. pos # Len(out)
      BY <2>1, <2>6 DEF LoopInv, LoopTypeOK
    <3>2. out' = out \o [i \in 1 .. pos - Len(out) |-> Len(out) + i]
      BY <2>2, <2>3
    <3>3. Copy!Deliver
      BY <2>2, <2>4, <3>1, <3>2 DEF Copy!Deliver, Copy!Idle
    <3> QED BY <3>3 DEF Copy!Next
  <2> QED BY <2>5, <2>6
<1>4. CASE ReaderRelease(r)
  BY <1>0, <1>4 DEF ReaderRelease, Copy!vars, PastLoop
<1> QED BY <1>1, <1>2, <1>3, <1>4 DEF SemReader
=============================================================================
