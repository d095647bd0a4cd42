----------------------------- MODULE BlockCopy -----------------------------
(***************************************************************************)
(* What every shared-memory transfer pair of the repository promises: the  *)
(* bytes of one input appear on one output, in order and exactly once,     *)
(* moved in blocks of at most BufSize bytes, with at most one block on its *)
(* way at any moment, and the end is reported only when all has arrived.   *)
(* A byte is identified by its offset in the input.                        *)
(***************************************************************************)
EXTENDS Naturals, Sequences

CONSTANTS NBytes,      \* length of the input
          BufSize      \* BUF_SIZE, the largest block

VARIABLES taken,       \* bytes taken from the input so far
          delivered,   \* the output: a sequence of input offsets
          finished     \* the receiving side has reported the end

vars == <<taken, delivered, finished>>

Init == taken = 0 /\ delivered = <<>> /\ finished = FALSE

Idle == taken = Len(delivered)

\* A block of 1..BufSize bytes leaves the input; the one before has arrived.
Take == /\ Idle
        /\ \E n \in 1 .. BufSize : taken + n <= NBytes /\ taken' = taken + n
        /\ UNCHANGED <<delivered, finished>>

\* The block under way arrives, whole, after everything that arrived before.
Deliver == /\ ~Idle
           /\ delivered' = delivered \o [i \in 1 .. taken - Len(delivered) |->
                                           Len(delivered) + i]
           /\ UNCHANGED <<taken, finished>>

Finish == /\ Idle /\ taken = NBytes
          /\ finished' = TRUE
          /\ UNCHANGED <<taken, delivered>>

Next == Take \/ Deliver \/ Finish

Spec == Init /\ [][Next]_vars
=============================================================================
