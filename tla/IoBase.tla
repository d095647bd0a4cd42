------------------------------- MODULE IoBase -------------------------------
(***************************************************************************)
(* The programs that talk through pipes, queues, sockets and semaphores    *)
(* are checked together: one of them is chosen and run.                    *)
(***************************************************************************)
EXTENDS Integers, Sequences, FiniteSets

CONSTANTS Programs,    \* the programs to run
          Runs,        \* runs of a client, or of a program run several times
          MaxFaults    \* bound: kills and failing calls

Queued  == {"msgq", "pmsg"}                        \* 46_02, 52_02
Stream  == {"unix", "inet", "inetbuf", "inetlib"}  \* 57_03, is_seqnum, 59_01, 59_02
Numbers == Queued \cup Stream
Echoes  == {"ucase", "i6ucase", "usxfr", "abstract"}  \* ud_ucase, i6d_ucase, us_xfr, 57_02
Piped   == {"simple", "sync", "lswc", "double", "test0", "test1", "glob", "popen"}
Sems    == {"goodinit", "semwait"}                 \* svsem_good_init, 47_02
Readers == {"line", "linebuf"}                     \* readLine, readLineBuf

ASSUME IoAssumption ==
  /\ Programs \subseteq Numbers \cup Echoes \cup Piped \cup Sems \cup Readers \cup {"epoll", "relay", "script"}
  /\ IsFiniteSet(Runs)
  /\ MaxFaults \in Nat

VARIABLES prog,        \* the program being run
          faults       \* kills and failing calls so far

Fault == faults < MaxFaults /\ faults' = faults + 1

IoInit == prog \in Programs /\ faults = 0
=============================================================================
