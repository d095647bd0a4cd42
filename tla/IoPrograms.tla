----------------------------- MODULE IoPrograms -----------------------------
(***************************************************************************)
(* The programs that talk through pipes, queues, sockets and semaphores    *)
(* together: one of them is chosen and run.                                *)
(***************************************************************************)
EXTENDS SeqnumServers, EchoServers, EpollEcho, PipePrograms, QueueRelay, ScriptRelay,
        SemPrograms, LineReaders

notNum    == <<echoVars, epollVars, ptVars, relayVars, scriptVars, semVars, lineVars>>
notEcho   == <<numVars, epollVars, ptVars, relayVars, scriptVars, semVars, lineVars>>
notEpoll  == <<numVars, echoVars, ptVars, relayVars, scriptVars, semVars, lineVars>>
notPipe   == <<numVars, echoVars, epollVars, relayVars, scriptVars, semVars, lineVars>>
notRelay  == <<numVars, echoVars, epollVars, ptVars, scriptVars, semVars, lineVars>>
notScript == <<numVars, echoVars, epollVars, ptVars, relayVars, semVars, lineVars>>
notSem    == <<numVars, echoVars, epollVars, ptVars, relayVars, scriptVars, lineVars>>
notLine   == <<numVars, echoVars, epollVars, ptVars, relayVars, scriptVars, semVars>>

vars == <<prog, faults, numVars, notNum>>

Init == /\ IoInit /\ NumInit /\ EchoInit /\ EpollInit /\ PipeInit /\ RelayInit /\ ScriptInit /\ SemInit
        /\ IF prog \in Readers THEN LineInit ELSE NoLines

Of1(programs, others, step) == prog \in programs /\ UNCHANGED <<prog, others>> /\ step

NumDoes(step)    == Of1(Numbers, notNum, step)
EchoDoes(step)   == Of1(Echoes, notEcho, step)
EpollDoes(step)  == Of1({"epoll"}, notEpoll, step)
PipeDoes(step)   == Of1(Piped, notPipe, step)
RelayDoes(step)  == Of1({"relay"}, notRelay, step)
ScriptDoes(step) == Of1({"script"}, notScript, step)
SemDoes(step)    == Of1(Sems, notSem, step)
LineDoes(step)   == Of1(Readers, notLine, step)

Next == \/ NumDoes(NumStep) \/ EchoDoes(EchoStep) \/ EpollDoes(EpollStep)
        \/ PipeDoes(PipeStep) \/ RelayDoes(RelayStep) \/ ScriptDoes(ScriptStep)
        \/ SemDoes(SemStep) \/ LineDoes(LineStep)

Main == \/ NumDoes(NumServer) \/ EchoDoes(EchoServer) \/ EpollDoes(PollMain)
        \/ PipeDoes(PipeMain /\ UNCHANGED faults) \/ RelayDoes(RelayMain)
        \/ ScriptDoes(ScriptMain) \/ SemDoes(SemDuo) \/ LineDoes(LineStep)

Client(c) == NumDoes(NumClient(c)) \/ EchoDoes(EchoClient(c)) \/ SemDoes(GoodInit(c))

Worker(k) == \/ PipeDoes(PipeChild(k) /\ UNCHANGED faults)
             \/ k \in Queues /\ RelayDoes(HandleSvmsg(k))

\* The kernel runs every process, and every client goes on; nobody has to be
\* killed, and nothing has to fail.
Fairness ==
  /\ WF_vars(Main) /\ \A c \in Runs : WF_vars(Client(c))
  /\ \A k \in Kids \cup Queues : WF_vars(Worker(k))
  /\ WF_vars(ScriptDoes(Shell))
  /\ \A c \in Pollers : WF_vars(EpollDoes(PollClient(c))) /\ WF_vars(EpollDoes(HandleRequest(c)))

Spec == Init /\ [][Next]_vars /\ Fairness

----------------------------------------------------------------------------
TypeOK == NumTypeOK /\ EchoTypeOK /\ EpollTypeOK

\* What comes out is what went in: pipes, connections, datagrams, lines, and
\* the operations on a semaphore.  Left out are the end of a datagram that is
\* longer than the receiver's buffer, and what a killed writer of a pipe has
\* not written.
DataWhole == PipesWhole /\ RelayWhole /\ ScriptWhole /\ EchoOwn /\ EpollOwn /\ LinesWhole /\ SemSum

\* Nobody goes on before those it waits for have done their part; but a pipe's
\* end of file does not tell a worker that is done from one that was killed.
WaitedFor == WorkersDone /\ SemsInOrder

=============================================================================
