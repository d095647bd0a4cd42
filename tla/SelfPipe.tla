------------------------------ MODULE SelfPipe ------------------------------
(***************************************************************************)
(* Programs that wait for a signal and for input at the same time:         *)
(*                                                                         *)
(*   selfpipe   altio/self_pipe.c   the handler writes into a pipe that    *)
(*                                  select() watches                       *)
(*   pollpipe   exercises/63_05.c   the same with poll()                   *)
(*   sigio      altio/demo_sigio.c  SIGIO tells of input at the terminal   *)
(***************************************************************************)
EXTENDS Signals, Sequences

CONSTANT PipeRoom      \* bytes the pipe holds

ASSUME SelfPipeAssumption == PipeRoom \in Nat \ {0}

VARIABLES bytes,       \* in the pipe
          isset,       \* the pipe is in the set that select() or poll() returned
          early,       \* history: the handler ran before that return
          told,        \* "A signal was caught" was printed
          async,       \* O_ASYNC
          gotio,       \* got_sigio
          tty,         \* input not read yet
          done         \* a hash was read

pipeVars == <<bytes, isset, early, told>>
ttyVars  == <<async, gotio, tty, done>>
selfVars == <<pipeVars, ttyVars>>

SelfPipes == {"selfpipe", "pollpipe"}
Waiters   == SelfPipes \cup {"sigio"}

SelfInit == /\ bytes = 0 /\ isset = FALSE /\ early = FALSE /\ told = FALSE
            /\ async = FALSE /\ gotio = FALSE /\ tty = <<>> /\ done = FALSE

WGoto(a, b) == Goto(Main, a, b) /\ UNCHANGED <<prog, mask, pend, sent>>
----------------------------------------------------------------------------
\* The pipe, both ends of it nonblocking, and then the handler.
PipeInstall == /\ WGoto("start", "select") /\ Catch(Main, {"INT"})
               /\ UNCHANGED selfVars

\* handler: a byte, unless the pipe is full.
PipeHandler == /\ Handled(Main, {"INT"}, "select")
               /\ bytes' = IF bytes < PipeRoom THEN bytes + 1 ELSE bytes
               /\ early' = (early \/ at[Main] = "select")
               /\ UNCHANGED <<isset, told, ttyVars>>

\* select(), poll(): interrupted by the handler, it is called again.
Select == /\ bytes > 0 /\ WGoto("select", "check") /\ isset' = TRUE
          /\ UNCHANGED <<dispositions, bytes, early, told, ttyVars>>

\* "-" leaves pto NULL, and pto->tv_sec is read.
PollNull == /\ prog = "pollpipe" /\ WGoto("select", "killed")
            /\ UNCHANGED <<dispositions, selfVars>>

\* The time is over, or another descriptor is ready, which is external.
PipeOther == /\ prog \in SelfPipes /\ WGoto("select", "check") /\ isset' = (bytes > 0)
             /\ UNCHANGED <<dispositions, bytes, early, told, ttyVars>>

PipeCheck == /\ WGoto("check", IF isset THEN "drain" ELSE "exit")
             /\ told' = isset /\ UNCHANGED <<dispositions, bytes, isset, early, ttyVars>>

PipeDrain == /\ WGoto("drain", IF bytes > 0 THEN "drain" ELSE "exit")
             /\ bytes' = IF bytes > 0 THEN bytes - 1 ELSE 0
             /\ UNCHANGED <<dispositions, isset, early, told, ttyVars>>
----------------------------------------------------------------------------
\* ttySetCbreak() throws away what has been typed so far.
SigioInstall ==
  /\ prog = "sigio"
  /\ \/ WGoto("start", "setown") /\ Catch(Main, {"IO"}) /\ UNCHANGED <<async, tty>>
     \/ WGoto("setown", "cbreak") /\ async' = TRUE /\ UNCHANGED <<dispositions, tty>>
     \/ WGoto("cbreak", "test") /\ tty' = <<>> /\ UNCHANGED <<dispositions, async>>
  /\ UNCHANGED <<pipeVars, gotio, done>>

\* sigio_handler
SigioHandler == /\ prog = "sigio" /\ Handled(Main, {"IO"}, "test") /\ gotio' = TRUE
                /\ UNCHANGED <<pipeVars, async, tty, done>>

SigioTest ==
  /\ prog = "sigio"
  /\ \/ ~done /\ gotio /\ WGoto("test", "read") /\ gotio' = FALSE
     \/ done /\ WGoto("test", "exit") /\ UNCHANGED gotio
  /\ UNCHANGED <<dispositions, pipeVars, async, tty, done>>

\* Until there is nothing, or one character past the hash, which is dropped.
SigioRead ==
  /\ prog = "sigio"
  /\ IF tty = <<>> THEN WGoto("read", "test") /\ UNCHANGED <<tty, done>>
     ELSE /\ WGoto("read", IF done THEN "test" ELSE "read") /\ tty' = Tail(tty)
          /\ done' = (done \/ Head(tty) = "hash")
  /\ UNCHANGED <<dispositions, pipeVars, async, gotio>>
----------------------------------------------------------------------------
SelfPipeMain == prog = "selfpipe" /\ (PipeInstall \/ PipeHandler \/ Select \/ PipeCheck \/ PipeDrain)
Main63_05    == prog = "pollpipe" /\ (PipeInstall \/ PipeHandler \/ Select \/ PipeCheck \/ PipeDrain)
SigioMain    == SigioInstall \/ SigioHandler \/ SigioTest \/ SigioRead

SelfMain == SelfPipeMain \/ Main63_05 \/ SigioMain

SelfSent == \/ prog \in SelfPipes /\ SentTo({Main}, {"INT"}) /\ UNCHANGED selfVars
            \/ PipeOther \/ PollNull

Typed == /\ prog = "sigio" /\ sent < MaxSent /\ Live(Main) /\ sent' = sent + 1
         /\ \E ch \in {"x", "hash"} : tty' = Append(tty, ch)
         /\ \/ async /\ Raise({Main}, "IO")
            \/ at[Main] \in {"start", "setown", "cbreak"} /\ UNCHANGED pend
         /\ UNCHANGED <<prog, at, mask, dispositions, pipeVars, async, gotio, done>>

SelfTypeOK == /\ bytes \in 0 .. PipeRoom /\ {isset, early, told} \subseteq BOOLEAN
              /\ {async, gotio, done} \subseteq BOOLEAN
              /\ tty \in Seq({"x", "hash"})
----------------------------------------------------------------------------
\* A signal that came before select() or poll() returned is reported; no
\* input waits at the terminal without SIGIO.
SelfNotMissed ==
  /\ prog \in SelfPipes /\ at[Main] \in {"drain", "exit"} /\ early => told
  /\ prog = "sigio" /\ at[Main] = "test" /\ tty # <<>> /\ ~done => gotio \/ "IO" \in pend[Main]

\* A signal ends the wait, but for the NULL pointer; a hash ends the loop.
SelfEnds == /\ prog \in SelfPipes /\ early ~> ~Live(Main)
            /\ prog = "sigio" /\ at[Main] \in {"test", "read"} /\ (\E i \in 1 .. Len(tty) : tty[i] = "hash")
                 ~> ~Live(Main)
=============================================================================
