----------------------------- MODULE LineReaders -----------------------------
(***************************************************************************)
(* readLine() and readLineBuf(), called until they return no byte.  What   *)
(* read() brings at once is up to the kernel; the input is chosen at the   *)
(* beginning.                                                              *)
(***************************************************************************)
EXTENDS IoBase

CONSTANTS InputMax,    \* length of the input
          SizeMax,     \* bound: the buffer size n of the calls
          LineBufMax   \* RL_MAX_BUF, for the 10 of read_line_buf.h

ASSUME LineAssumption == InputMax \in Nat /\ SizeMax \in Nat /\ LineBufMax \in Nat \ {0}

VARIABLES input,       \* what comes through the descriptor
          size,        \* n
          rpos,        \* bytes of it that read() has brought
          rlbuf,       \* rlbuf->buf, up to rlbuf->len
          rnext,       \* rlbuf->next
          acc,         \* the bytes kept of this line
          lines,       \* the lines returned
          rat          \* the caller's place: a call is going on, or the last has ended

lineVars == <<input, size, rpos, rlbuf, rnext, acc, lines, rat>>
Chars    == {"x", "newline"}

LineInit == /\ input \in UNION {[1 .. k -> Chars] : k \in 0 .. InputMax}
            /\ size \in 0 .. SizeMax
            /\ rpos = 0 /\ rlbuf = <<>> /\ rnext = 0 /\ acc = <<>> /\ lines = <<>>
            /\ rat = "read"
NoLines  == /\ input = <<>> /\ size = 0 /\ rpos = 0 /\ rlbuf = <<>> /\ rnext = 0 /\ acc = <<>>
            /\ lines = <<>> /\ rat = "read"
----------------------------------------------------------------------------
\* The call returns the bytes b; the caller stops when there are none.
Return(b) == /\ acc' = <<>>
             /\ lines' = IF b = <<>> THEN lines ELSE Append(lines, b)
             /\ rat' = IF b = <<>> THEN "done" ELSE "read"

\* It returns -1.
ReturnError == rat' = "done" /\ acc' = <<>> /\ UNCHANGED lines

Kept(c, keep) == IF Len(acc) < keep THEN Append(acc, c) ELSE acc

Consume(c, keep) ==
  IF c = "newline" THEN Return(Kept(c, keep))
  ELSE acc' = Kept(c, keep) /\ UNCHANGED <<lines, rat>>

\* Byte by byte; a signal only makes it read again.
ReadLine ==
  /\ prog = "line" /\ rat = "read" /\ UNCHANGED <<input, size, rlbuf, rnext>>
  /\ \/ size = 0 /\ ReturnError /\ UNCHANGED <<rpos, faults>>
     \/ size > 0 /\ Fault /\ UNCHANGED <<acc, lines, rat, rpos>>      \* EINTR
     \/ size > 0 /\ Fault /\ ReturnError /\ UNCHANGED rpos
     \/ /\ size > 0 /\ rpos < Len(input) /\ rpos' = rpos + 1
        /\ Consume(input[rpos + 1], size - 1) /\ UNCHANGED faults
     \/ /\ size > 0 /\ rpos = Len(input)
        /\ Return(acc) /\ UNCHANGED <<rpos, faults>>

\* From rlbuf, which is filled again when it is used up; a signal is an error.
ReadLineBuf ==
  /\ prog = "linebuf" /\ rat = "read" /\ UNCHANGED <<input, size>>
  /\ \/ size = 0 /\ ReturnError /\ UNCHANGED <<rpos, rlbuf, rnext, faults>>
     \/ /\ size > 0 /\ rnext >= Len(rlbuf) /\ rpos < Len(input)
        /\ \E k \in 1 .. LineBufMax :
             /\ rpos + k <= Len(input) /\ rpos' = rpos + k
             /\ rlbuf' = SubSeq(input, rpos + 1, rpos + k)
        /\ rnext' = 0 /\ UNCHANGED <<acc, lines, rat, faults>>
     \/ /\ size > 0 /\ rnext >= Len(rlbuf) /\ rpos = Len(input)
        /\ rlbuf' = <<>> /\ Return(acc) /\ UNCHANGED <<rpos, rnext, faults>>
     \/ /\ size > 0 /\ rnext >= Len(rlbuf) /\ Fault
        /\ rlbuf' = <<>> /\ ReturnError /\ UNCHANGED <<rpos, rnext>>
     \/ /\ size > 0 /\ rnext < Len(rlbuf) /\ rnext' = rnext + 1
        /\ Consume(rlbuf[rnext + 1], size) /\ UNCHANGED <<rpos, rlbuf, faults>>

LineStep == ReadLine \/ ReadLineBuf
----------------------------------------------------------------------------
(* The lines of the input, by its newlines.                                *)

LineEnds     == {i \in 1 .. Len(input) : input[i] = "newline" \/ i = Len(input)}
LineEnd(k)   == CHOOSE i \in LineEnds : Cardinality({j \in LineEnds : j <= i}) = k
LineStart(k) == IF k = 1 THEN 1 ELSE LineEnd(k - 1) + 1
Keeps        == IF prog = "line" THEN size - 1 ELSE size
Shorter(a, b) == IF a < b THEN a ELSE b

(* Each call returns the next line of the input, cut to what the buffer    *)
(* takes, its rest never in the next line, whatever the kernel brings at   *)
(* once and whatever was left in rlbuf; after the last one there was no    *)
(* line left, unless a read failed.  With no room for a byte readLine()    *)
(* returns 0, which its caller takes for the end of the file.              *)
LinesWhole ==
  prog \in Readers =>
    /\ \A k \in 1 .. Len(lines) :
         /\ k <= Cardinality(LineEnds)
         /\ lines[k] = SubSeq(input, LineStart(k), Shorter(LineEnd(k), LineStart(k) + Keeps - 1))
    /\ rat = "done" /\ faults = 0 => Keeps <= 0 \/ Len(lines) = Cardinality(LineEnds)

(* The calls come to an end.                                               *)
LinesEnd == prog \in Readers => rat = "done"
=============================================================================
