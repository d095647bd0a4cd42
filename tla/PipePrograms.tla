---------------------------- MODULE PipePrograms ----------------------------
(***************************************************************************)
(* Programs whose processes talk through pipes, and popen() and pclose()   *)
(* of 44_02 with the two programs that test them and with any other        *)
(* caller.  A fork gives the child every end its parent has open; a reader *)
(* sees end of file when no process has the write end open, and SIGPIPE    *)
(* ends a writer when none has the read end open.  A process may be killed *)
(* at any place; a call that fails ends it too, except in popen().  What   *)
(* goes through a pipe, which is external, is counted.                     *)
(***************************************************************************)
EXTENDS IoBase

CONSTANTS NKids,       \* children
          PipeItems,   \* items that a writer has
          PipeCap      \* items a pipe holds

ASSUME PipeAssumption ==
  NKids \in Nat \ {0, 1} /\ PipeItems \in Nat \ {0} /\ PipeCap \in Nat \ {0}

VARIABLES kat,         \* places of the processes; 0 is the parent
          ends,        \* who has which end of which pipe open
          wrote, took, \* items written to each pipe, and read from it
          kind,        \* type of the streams of popen, in the order of their opening
          waitee       \* the child that pclose() waits for

ptVars == <<kat, ends, wrote, took, kind, waitee>>

Kids    == 1 .. NKids
PProcs  == 0 .. NKids
Pipes   == Kids
Streams == Kids

Has(k, e) == \E p \in PProcs : <<p, k, e>> \in ends
Eof(k)    == took[k] = wrote[k] /\ ~Has(k, "w")
Of(p)     == {x \in ends : x[1] = p}
Both(p, k) == {<<p, k, "r">>, <<p, k, "w">>}

PipeInit == /\ kat = [p \in PProcs |-> IF p = 0 THEN "start" ELSE "none"]
            /\ ends = {} /\ wrote = [k \in Pipes |-> 0] /\ took = [k \in Pipes |-> 0]
            /\ kind = [s \in Streams |-> "none"] /\ waitee = 0
----------------------------------------------------------------------------
(* Steps of one process.                                                   *)

KGoto(p, a, b) == kat[p] = a /\ kat' = [kat EXCEPT ![p] = b]

Close(p, k, e, a, b) ==
  /\ KGoto(p, a, b) /\ ends' = ends \ {<<p, k, e>>}
  /\ UNCHANGED <<wrote, took, kind, waitee>>

\* The child p goes to "first"; it has all that its parent has open.
Fork(p, first, a, b) ==
  /\ kat[0] = a /\ kat[p] = "none" /\ kat' = [kat EXCEPT ![0] = b, ![p] = first]
  /\ ends' = ends \cup {<<p, x[2], x[3]>> : x \in Of(0)}
  /\ UNCHANGED <<wrote, took, kind, waitee>>

MakePipes(K, a, b) == /\ KGoto(0, a, b) /\ ends' = UNION {Both(0, k) : k \in K}
                      /\ UNCHANGED <<wrote, took, kind, waitee>>

Put1(p, k, a, b) == /\ KGoto(p, a, b) /\ Has(k, "r") /\ wrote[k] - took[k] < PipeCap
                    /\ wrote' = [wrote EXCEPT ![k] = @ + 1]
                    /\ UNCHANGED <<ends, took, kind, waitee>>

Get1(p, k, a, b) == /\ KGoto(p, a, b) /\ took[k] < wrote[k]
                    /\ took' = [took EXCEPT ![k] = @ + 1]
                    /\ UNCHANGED <<ends, wrote, kind, waitee>>

AtEof(p, k, a, b) == Eof(k) /\ KGoto(p, a, b) /\ UNCHANGED <<ends, wrote, took, kind, waitee>>

Does(p, a, b) == KGoto(p, a, b) /\ UNCHANGED <<ends, wrote, took, kind, waitee>>

\* However a process ends, all it has open is closed.
Leave(p, a, b) == /\ KGoto(p, a, b) /\ ends' = ends \ Of(p)
                  /\ UNCHANGED <<wrote, took, kind, waitee>>

Quit(p, a) == Leave(p, a, "exit")

\* SIGPIPE ends a process that writes to a pipe without readers.
Sigpipe(p, k, a) == ~Has(k, "r") /\ Leave(p, a, "killed")

\* A process is killed, or a call of it fails and it leaves by errExit().
KillPipe(p) == /\ Fault /\ kat[p] \notin {"none", "exit", "killed"}
               /\ Leave(p, kat[p], "killed")

Dead == {"exit", "killed"}

WaitFor(p, a, b) == kat[p] \in Dead /\ Does(0, a, b)
----------------------------------------------------------------------------
(* simple_pipe: the parent writes a string, the child echoes it.           *)

SimpleParent == \/ MakePipes({1}, "start", "fork")
                \/ Fork(1, "closeW", "fork", "closeR")
                \/ Close(0, 1, "r", "closeR", "write")
                \/ wrote[1] < PipeItems /\ (Put1(0, 1, "write", "write") \/ Sigpipe(0, 1, "write"))
                \/ wrote[1] = PipeItems /\ Close(0, 1, "w", "write", "wait")
                \/ WaitFor(1, "wait", "exit")

SimpleChild == \/ Close(1, 1, "w", "closeW", "read")
               \/ Get1(1, 1, "read", "read")
               \/ AtEof(1, 1, "read", "closeR")
               \/ Quit(1, "closeR")

(* pipe_sync: the children keep the write end open while they work.        *)

SyncWorker(p) == \/ Close(p, 1, "r", "closeR", "work")
                 \/ Does(p, "work", "closeW")
                 \/ Close(p, 1, "w", "closeW", "leave")
                 \/ Quit(p, "leave")

SyncMain == \/ MakePipes({1}, "start", "fork")
            \/ \E p \in Kids : (\A q \in 1 .. p - 1 : kat[q] # "none") /\ Fork(p, "closeR", "fork", "fork")
            \/ (\A p \in Kids : kat[p] # "none") /\ Close(0, 1, "w", "fork", "read")
            \/ AtEof(0, 1, "read", "ready")
            \/ Quit(0, "ready")

(* pipe_ls_wc: ls and wc, which are external, at the ends of a pipe.       *)

Ls == \/ Close(1, 1, "r", "closeR", "ls")
      \/ wrote[1] < PipeItems /\ (Put1(1, 1, "ls", "ls") \/ Sigpipe(1, 1, "ls"))
      \/ wrote[1] = PipeItems /\ Quit(1, "ls")

Wc == \/ Close(2, 1, "w", "closeW", "read")
      \/ Get1(2, 1, "read", "read")
      \/ AtEof(2, 1, "read", "print")
      \/ Quit(2, "print")

LsWcMain == \/ MakePipes({1}, "start", "fork")
            \/ Fork(1, "closeR", "fork", "fork2")
            \/ Fork(2, "closeW", "fork2", "closeR")
            \/ Close(0, 1, "r", "closeR", "closeW")
            \/ Close(0, 1, "w", "closeW", "wait")
            \/ WaitFor(1, "wait", "wait2")
            \/ WaitFor(2, "wait2", "exit")

(* 44_01: the parent sends each input to the child and reads it back.      *)

\* After the last input it writes nothing, and waits for an answer.  The end
\* of file of a child that was killed it takes for an empty answer.
DoubleParent ==
  \/ MakePipes({1, 2}, "start", "fork")
  \/ Fork(1, "closeW", "fork", "closeR")
  \/ Close(0, 1, "r", "closeR", "closeW")
  \/ Close(0, 2, "w", "closeW", "stdin")
  \/ wrote[1] < PipeItems /\ (Put1(0, 1, "stdin", "answer") \/ Sigpipe(0, 1, "stdin"))
  \/ wrote[1] = PipeItems /\ Does(0, "stdin", "answer")
  \/ Get1(0, 2, "answer", "stdin")
  \/ AtEof(0, 2, "answer", "stdin")

\* When the parent was killed, read() returns 0 again and again.
DoubleChild ==
  \/ Close(1, 1, "w", "closeW", "closeR")
  \/ Close(1, 2, "r", "closeR", "read")
  \/ Get1(1, 1, "read", "upper")
  \/ Put1(1, 2, "upper", "read")
  \/ Sigpipe(1, 2, "upper")
----------------------------------------------------------------------------
(* popen() and pclose() of 44_02.  Stream s has pipe s and child s.        *)

Opened(s) == kind[s] # "none"
InUse(s)  == \E e \in {"r", "w"} : <<0, s, e>> \in ends

\* fork() fails, and popen() returns NULL: test_1 and popen_glob take the next
\* pattern.
PopenFails == /\ Fault /\ prog \in {"test1", "glob", "popen"} /\ kat[0] = "start"
              /\ UNCHANGED ptVars

\* The child keeps its own end and whatever else its parent has open.
Popen(s, type, a, b) ==
  /\ kat[0] = a /\ ~Opened(s) /\ \A t \in 1 .. s - 1 : Opened(t)
  /\ kat' = [kat EXCEPT ![0] = b, ![s] = IF type = "r" THEN "output" ELSE "input"]
  /\ ends' = ends \cup {<<0, s, type>>, <<s, s, IF type = "r" THEN "w" ELSE "r">>}
                  \cup {<<s, x[2], x[3]>> : x \in Of(0)}
  /\ kind' = [kind EXCEPT ![s] = type]
  /\ UNCHANGED <<wrote, took, waitee>>


\* fclose(), and then waitpid() for this stream's child.
PcloseFclose(s, a) ==
  /\ InUse(s) /\ KGoto(0, a, "waitpid") /\ waitee' = s
  /\ ends' = ends \ Both(0, s) /\ UNCHANGED <<wrote, took, kind>>

PcloseWait(s, b) ==
  /\ KGoto(0, "waitpid", b) /\ waitee = s /\ kat[s] \in Dead
  /\ UNCHANGED <<ends, wrote, took, kind, waitee>>

\* The commands, which are external: one prints its items, unless SIGPIPE
\* ends it; the other reads to the end of file.
Command(s) ==
  \/ wrote[s] < PipeItems /\ Put1(s, s, "output", "output")
  \/ (wrote[s] = PipeItems \/ ~Has(s, "r")) /\ Quit(s, "output")
  \/ Get1(s, s, "input", "input")
  \/ Eof(s) /\ Quit(s, "input")

Listings == {"test0", "test1", "glob"}

\* A stream of popen() is read to its end.
Popens(n) ==
  \E s \in 1 .. n : \/ Popen(s, "r", "start", "fgets")
                    \/ InUse(s) /\ Get1(0, s, "fgets", "fgets")
                    \/ InUse(s) /\ AtEof(0, s, "fgets", "pclose")
                    \/ PcloseFclose(s, "pclose")

\* One of them, or one for each pattern.
Test0Main == \/ Popens(1)
             \/ PcloseWait(1, "print")
             \/ Quit(0, "print")

GlobMain == \/ Popens(NKids)
            \/ \E s \in Streams : PcloseWait(s, "start")
            \/ Quit(0, "start")

Test1Main == GlobMain

\* Any caller.
PopenMain ==
  \E s \in Streams : \/ \E type \in {"r", "w"} : Popen(s, type, "start", "start")
                     \/ kind[s] = "r" /\ InUse(s) /\ Get1(0, s, "start", "start")
                     \/ kind[s] = "w" /\ InUse(s) /\ wrote[s] < PipeItems
                        /\ (Put1(0, s, "start", "start") \/ Sigpipe(0, s, "start"))
                     \/ PcloseFclose(s, "start")
                     \/ PcloseWait(s, "start")
----------------------------------------------------------------------------
PipeMain == \/ prog = "simple" /\ SimpleParent
            \/ prog = "sync" /\ SyncMain
            \/ prog = "lswc" /\ LsWcMain
            \/ prog = "double" /\ DoubleParent
            \/ prog = "test0" /\ Test0Main
            \/ prog = "test1" /\ Test1Main
            \/ prog = "glob" /\ GlobMain
            \/ prog = "popen" /\ PopenMain

PipeChild(p) == \/ prog = "simple" /\ p = 1 /\ SimpleChild
                \/ prog = "sync" /\ SyncWorker(p)
                \/ prog = "lswc" /\ p = 1 /\ Ls
                \/ prog = "lswc" /\ p = 2 /\ Wc
                \/ prog = "double" /\ p = 1 /\ DoubleChild
                \/ prog \in Listings \cup {"popen"} /\ Command(p)

PipeStep == \/ (PipeMain \/ \E p \in Kids : PipeChild(p)) /\ UNCHANGED faults
            \/ \E p \in PProcs : KillPipe(p)
            \/ PopenFails
----------------------------------------------------------------------------
(* Who reads to the end of file has all that was written, by a writer that *)
(* had nothing left to write or was killed; what 44_01's parent prints is  *)
(* its input, each line before the next one is sent, while its child lives.*)
PipesWhole ==
  /\ prog = "simple" /\ kat[1] \in {"closeR", "exit"} =>
       took[1] = wrote[1] /\ (wrote[1] = PipeItems \/ kat[0] = "killed")
  /\ prog = "lswc" /\ kat[2] \in {"print", "exit"} =>
       took[1] = wrote[1] /\ (kat[1] = "killed" \/ (kat[1] = "exit" /\ wrote[1] = PipeItems))
  /\ prog = "double" /\ kat[0] = "stdin" => took[2] = wrote[1] \/ kat[1] = "killed"
  /\ prog \in Listings /\ kat[0] # "killed" =>
       \A s \in Streams : Opened(s) /\ ~InUse(s) =>
          took[s] = wrote[s] /\ (wrote[s] = PipeItems \/ kat[s] = "killed")
(* pipe_sync's parent is ready only when every child has done its work, or *)
(* was killed: the end of file, all the parent waits for, is the same.     *)
WorkersDone == prog = "sync" /\ kat[0] \in {"ready", "exit"} =>
                 \A p \in Kids : kat[p] \in {"leave"} \cup Dead

(* The programs end, but for 44_01, which prints all its input and then    *)
(* waits for ever; pclose() returns when the streams opened after this one *)
(* have been closed before it.                                             *)
Newest(s) == \A t \in Streams : t > s => ~InUse(t)
PipesEnd ==
  /\ prog \in {"simple", "sync", "lswc"} => \A p \in PProcs : kat[p] \in Dead \cup {"none"}
  /\ prog = "double" => took[2] = PipeItems \/ \E p \in PProcs : kat[p] = "killed"
  /\ prog \in Listings => kat[0] \in Dead
  /\ prog = "popen" => ~(kat[0] = "waitpid" /\ Newest(waitee))
=============================================================================
