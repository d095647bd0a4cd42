----------------------------- MODULE SemPrograms -----------------------------
(***************************************************************************)
(* Two programs with one System V semaphore.  Each process of              *)
(* svsem_good_init creates it or waits until its creator has initialised   *)
(* it, and does one operation; 47_02's parent waits for its child.  The    *)
(* semaphore is external; POSIX leaves the value of a new one open.        *)
(***************************************************************************)
EXTENDS IoBase, FiniteSetsExt

CONSTANTS SemMax,      \* largest number that a process adds or takes away
          SemTries     \* MAX_TRIES, for svsem_good_init's 10

ASSUME SemAssumption == SemMax \in Nat /\ SemTries \in Nat \ {0}

VARIABLES made,        \* the semaphore exists
          semval,      \* its value
          otime,       \* sem_otime is not 0
          gat,         \* places of svsem_good_init's processes
          gop,         \* their arguments
          tries,       \* j in the loop that waits for the creator
          acted,       \* history: who has done its operation
          duo          \* places of 47_02's parent and child

semVars == <<made, semval, otime, gat, gop, tries, acted, duo>>
SemOps  == -SemMax .. SemMax
Ended   == {"exit", "fatal", "killed"}

SemInit == /\ made = FALSE /\ semval = 0 /\ otime = FALSE /\ acted = {}
           /\ gat = [c \in Runs |-> "semget"] /\ gop = [c \in Runs |-> 0]
           /\ tries = [c \in Runs |-> 0]
           /\ duo = [parent |-> "semget", child |-> "none"]

\* semop() with one operation: it waits until the value allows it.
Allowed(n) == IF n = 0 THEN semval = 0 ELSE semval + n >= 0
----------------------------------------------------------------------------
(* svsem_good_init.                                                        *)

GGoto(c, a, b) == gat[c] = a /\ gat' = [gat EXCEPT ![c] = b]

CreateExclusive(c) ==
  /\ GGoto(c, "semget", IF made THEN "poll" ELSE "setval")
  /\ \E n \in SemOps : gop' = [gop EXCEPT ![c] = n]
  /\ made' = TRUE /\ semval' \in (IF made THEN {semval} ELSE 0 .. SemMax)
  /\ UNCHANGED <<otime, tries, acted, duo, faults>>

CreatorInits(c) ==
  \/ /\ GGoto(c, "setval", "touch") /\ semval' = 0
     /\ UNCHANGED <<made, otime, gop, tries, acted, duo, faults>>
  \/ /\ GGoto(c, "touch", "op") /\ Allowed(0) /\ otime' = TRUE
     /\ UNCHANGED <<made, semval, gop, tries, acted, duo, faults>>

\* Faulty: the semaphore is used as soon as it exists.
OthersHurry(c) ==
  /\ GGoto(c, "poll", "op") /\ UNCHANGED <<made, semval, otime, gop, tries, acted, duo, faults>>

\* A try that sees no sem_otime sleeps; the last one ends in fatal().
OthersWait(c) ==
  /\ GGoto(c, "poll", IF otime THEN "op" ELSE IF tries[c] + 1 < SemTries THEN "poll" ELSE "fatal")
  /\ tries' = [tries EXCEPT ![c] = IF otime THEN @ ELSE @ + 1]
  /\ UNCHANGED <<made, semval, otime, gop, acted, duo, faults>>

Operate(c) ==
  /\ GGoto(c, "op", "exit") /\ Allowed(gop[c])
  /\ semval' = semval + gop[c] /\ otime' = TRUE /\ acted' = acted \cup {c}
  /\ UNCHANGED <<made, gop, tries, duo, faults>>

GoodInit(c) == /\ prog = "goodinit"
               /\ CreateExclusive(c) \/ CreatorInits(c) \/ OthersWait(c) \/ Operate(c)

KillGoodInit(c) ==
  /\ prog = "goodinit" /\ Fault /\ gat[c] \notin Ended
  /\ gat' = [gat EXCEPT ![c] = "killed"]
  /\ UNCHANGED <<made, semval, otime, gop, tries, acted, duo>>
----------------------------------------------------------------------------
(* 47_02: the value is 1 until the child has worked.                       *)

DuoGoto(p, a, b) == duo[p] = a /\ duo' = [duo EXCEPT ![p] = b]
DuoOnly          == UNCHANGED <<made, otime, gat, gop, tries, acted, faults>>

SemSetup == \/ /\ DuoGoto("parent", "semget", "setval")
               /\ semval' \in 0 .. SemMax /\ DuoOnly
            \/ DuoGoto("parent", "setval", "fork") /\ semval' = 1 /\ DuoOnly
            \/ /\ duo.parent = "fork" /\ duo' = [parent |-> "semop", child |-> "work"]
               /\ UNCHANGED semval /\ DuoOnly

SemParent == /\ DuoGoto("parent", "semop", "exit") /\ Allowed(0)
             /\ UNCHANGED semval /\ DuoOnly

SemChild == \/ DuoGoto("child", "work", "setval") /\ UNCHANGED semval /\ DuoOnly
            \/ DuoGoto("child", "setval", "exit") /\ semval' = 0 /\ DuoOnly

KillSemChild == /\ prog = "semwait" /\ Fault /\ duo.child \in {"work", "setval"}
                /\ duo' = [duo EXCEPT !.child = "killed"]
                /\ UNCHANGED <<made, semval, otime, gat, gop, tries, acted>>
----------------------------------------------------------------------------
SemDuo == prog = "semwait" /\ (SemSetup \/ SemParent \/ SemChild)

SemStep == SemDuo \/ KillSemChild \/ \E c \in Runs : GoodInit(c) \/ KillGoodInit(c)
----------------------------------------------------------------------------
(* While its creator initialises the semaphore, and before it has begun,   *)
(* nobody has operated on it, however the processes interleave and whoever *)
(* is killed; 47_02's parent goes on only after its child's work.          *)
SemsInOrder ==
  /\ acted # {} => made /\ \A c \in Runs : gat[c] \notin {"setval", "touch"}
  /\ prog = "semwait" /\ duo.parent = "exit" => duo.child = "exit"

(* Once it is initialised, its value is the sum of the operations done,    *)
(* whoever has created it.                                                 *)
SemSum == otime => semval = MapThenSumSet(LAMBDA c : gop[c], acted)

(* Every process ends, or waits in semop() for a value that the others     *)
(* have not left it.  47_02's parent waits for ever only if its child is   *)
(* killed.                                                                 *)
SemsEnd ==
  /\ prog = "goodinit" => \A c \in Runs : gat[c] \in Ended \/ (gat[c] = "op" /\ ~Allowed(gop[c]))
  /\ prog = "semwait" => duo.parent = "exit" \/ duo.child = "killed"
=============================================================================
