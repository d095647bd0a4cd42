------------------------- MODULE FileServer_proofs -------------------------
(***************************************************************************)
(* A client receives its own file's blocks in order, reports it only when  *)
(* whole or cut off by a read that failed, and loses its queue only to a   *)
(* timeout: for any number of clients, pids, sizes, queue limits, starts   *)
(* and faults, in all four pairs of programs.                              *)
(***************************************************************************)
EXTENDS FileServer, TLAPS

\* The k-th block of the file that client i asks for.
NthBlock(i, k) == [type |-> "data", of |-> i, from |-> (k - 1) * Chunk,
                   len |-> Block(cl[i].size, (k - 1) * Chunk)]

\* "sum" bytes are the first n blocks of a file of "size" bytes.
Blocks(n, size, sum) == /\ sum <= size
                        /\ sum < size => sum = n * Chunk
                        /\ sum = size => n * Chunk >= size

Clean(i) == ~Inherits(i)
Early    == {"none", "find", "make", "send"}
Serving  == {"refuse", "send", "stop", "end"}
HasQueue(i) == cl[i].at \in {"send", "first", "receive"}
Asked(i) == cl[i].at \notin Early \cup {"error"} /\ cl[i].q # NoQueue
Started(i) == cl[i].at # "none"

\* A request is in the server's queue, in its hands, or with a worker: each
\* client has one, made once its queue was, and so one worker at most.
RequestInv ==
  /\ \A i \in Runs : /\ wk[i].at = "none" => wk[i] = NewWorker
                     /\ wk[i].at # "none" => Asked(i)
  /\ \A a \in 1 .. Len(requests) :
       /\ Asked(requests[a]) /\ wk[requests[a]].at = "none"
       /\ \A b \in 1 .. Len(requests) : requests[b] = requests[a] => b = a
       /\ srv.at = "fork" => requests[a] # srv.cur
  /\ srv.at = "fork" => srv.cur \in Runs /\ Asked(srv.cur) /\ wk[srv.cur].at = "none"

\* Clients start in order; alarms and removed queues are System V's.
ClientInv ==
  \A i \in Runs :
    /\ cl[i].at \in {"none", "find", "make"} => cl[i].q = NoQueue
    /\ HasQueue(i) => cl[i].q # NoQueue
    /\ cl[i].at \in Early => cl[i].got = <<>> /\ cl[i].tot = 0
    /\ cl[i].at # "none" => \A j \in 1 .. i - 1 : cl[j].at # "none"
    /\ cl[i].alarm => HasQueue(i)
    /\ cl[i].at \in {"timeout", "denied"} \/ cl[i].alarm \/ cl[i].rung => SysV

\* A worker leaves its loop at the end of the file, after a timeout, when its
\* queue is gone, or when a read failed.
WorkerInv ==
  \A i \in Runs :
    /\ wk[i].at \in Serving => wk[i].q # NoQueue
    /\ wk[i].alarm \/ wk[i].timedOut => Daemon
    /\ wk[i].alarm => WorkerLive(i)
    /\ wk[i].at \in {"none", "open", "refuse"} => wk[i].from = 0
    /\ wk[i].at = "refuse" => cl[i].size = Missing
    /\ wk[i].at \in {"send", "stop", "end"} => cl[i].size # Missing /\ wk[i].from <= cl[i].size
    /\ wk[i].at \in {"none", "open", "refuse", "send"} => ~wk[i].timedOut
    /\ wk[i].at = "stop" => Gone(wk[i].q) \/ wk[i].timedOut \/ wk[i].broken
    /\ wk[i].at = "end" => Gone(wk[i].q) \/ wk[i].from = cl[i].size \/ wk[i].broken

\* A System V queue is its client's and its worker's alone; only the worker
\* removes it under the client.
SysVInv ==
  SysV => \A i \in Runs :
    /\ cl[i].q \in {NoQueue, i} /\ wk[i].q \in {NoQueue, i}
    /\ cl[i].q = NoQueue => i \notin exists /\ q[i] = <<>>
    /\ HasQueue(i) /\ i \notin exists => wk[i].timedOut \/ cl[i].size = 0
    /\ cl[i].at = "denied" => wk[i].timedOut \/ cl[i].size = 0

\* A POSIX queue serves the clients of one pid: the one that made it, and
\* those that found it under the pid's name.
OwnQueue(i) ==
  /\ cl[i].q # NoQueue => cl[cl[i].q].q = cl[i].q /\ cl[cl[i].q].pid = cl[i].pid
  /\ wk[i].q # NoQueue => cl[wk[i].q].q = wk[i].q /\ cl[wk[i].q].pid = cl[i].pid
  /\ cl[i].q # i => q[i] = <<>>
  /\ HasQueue(i) => names[cl[i].pid] = cl[i].q

\* Of the clients with a pid, only the last may be live.
OwnPid(i) == \A j \in Runs : Started(j) /\ i < j /\ cl[i].pid = cl[j].pid => ~Live(i)

\* Nobody with pid p was killed, or can still read the queue of that name.
Unused(p) == \A j \in Runs : Started(j) /\ cl[j].pid = p =>
               cl[j].at # "killed" /\ ~(HasQueue(j) /\ cl[j].q = names[p])

\* The queue a client that was refused leaves under its name is empty.
OwnName(p) == names[p] # NoQueue =>
                /\ cl[names[p]].q = names[p] /\ cl[names[p]].pid = p
                /\ Unused(p) => q[names[p]] = <<>>

PosixInv == ~SysV => /\ \A i \in Runs : OwnQueue(i) /\ OwnPid(i)
                     /\ \A p \in Pids \cup {0} : OwnName(p)

\* What a client has got: the first blocks of its file, counted, and all of
\* them once it has said so; its worker is through by then.
GotOwn(i) ==
  LET n == Len(cl[i].got)
  IN  /\ \A k \in 1 .. n : cl[i].got[k] = NthBlock(i, k)
      /\ n > 0 => cl[i].size # Missing
      /\ cl[i].at = "receive" => n > 0
      /\ SysV => IF cl[i].size = Missing THEN cl[i].tot = 0 ELSE Blocks(n, cl[i].size, cl[i].tot)
      /\ cl[i].at = "file" => cl[i].size # Missing /\ (wk[i].broken \/ n * Chunk >= cl[i].size)
      /\ cl[i].at \in {"file", "failure"} => wk[i].at = "dead"

\* Message m of client i's queue is its next block but m - 1, ...
IsBlock(i, m) == /\ q[cl[i].q][m] = NthBlock(i, Len(cl[i].got) + m)
                 /\ cl[i].size # Missing /\ (Len(cl[i].got) + m - 1) * Chunk < cl[i].size

\* ... or the last of all: there is no file, or all of it came before, or what
\* came before a read that failed.
IsLast(i, m) == /\ m = Len(q[cl[i].q]) /\ wk[i].at = "dead"
                /\ \/ q[cl[i].q][m].type = "failure" /\ cl[i].size = Missing
                   \/ /\ q[cl[i].q][m].type = "end" /\ cl[i].size # Missing
                      /\ wk[i].broken \/ (Len(cl[i].got) + m - 1) * Chunk >= cl[i].size
                      /\ SysV => q[cl[i].q][m].len = 0

\* What is in a client's queue, and how far its worker has come.
SentOwn(i) ==
  LET Q == q[cl[i].q]
      n == Len(cl[i].got)
  IN  /\ \A m \in 1 .. Len(Q) : IsBlock(i, m) \/ IsLast(i, m)
      /\ wk[i].at \in {"none", "open", "refuse"} => Q = <<>> /\ n = 0
      /\ wk[i].at \in Serving => wk[i].q = cl[i].q
      /\ wk[i].at \in {"send", "stop", "end"} => Blocks(n + Len(Q), cl[i].size, wk[i].from)

GotInv  == \A i \in Runs : Clean(i) => GotOwn(i)
SentInv == \A i \in Runs : Clean(i) /\ HasQueue(i) /\ ~Gone(cl[i].q) => SentOwn(i)

----------------------------------------------------------------------------
(* Sequences and constants.                                                *)

LEMMA ElementFacts ==
  ASSUME NEW S, NEW s \in Seq(S)
  PROVE  Len(s) \in Nat /\ \A i \in 1 .. Len(s) : s[i] \in S
OBVIOUS

LEMMA AppendFacts ==
  ASSUME NEW S, NEW s \in Seq(S), NEW e \in S
  PROVE  /\ Append(s, e) \in Seq(S) /\ Len(Append(s, e)) = Len(s) + 1
         /\ \A i \in 1 .. Len(s) : Append(s, e)[i] = s[i]
         /\ Append(s, e)[Len(s) + 1] = e
OBVIOUS

LEMMA TailFacts ==
  ASSUME NEW S, NEW s \in Seq(S), s # <<>>
  PROVE  /\ Len(s) \in Nat \ {0} /\ Head(s) = s[1] /\ Head(s) \in S
         /\ Tail(s) \in Seq(S) /\ Len(Tail(s)) = Len(s) - 1
         /\ \A i \in 1 .. Len(s) - 1 : Tail(s)[i] = s[i + 1]
OBVIOUS

LEMMA LastFacts == ASSUME NEW S, NEW s \in Seq(S), Len(s) = 1 PROVE Tail(s) = <<>>
<1>1. s # <<>>
  OBVIOUS
<1>2. Tail(s) \in Seq(S) /\ Len(Tail(s)) = 0
  BY <1>1, TailFacts
<1>3. \A t \in Seq(S) : Len(t) = 0 => t = <<>>
  OBVIOUS
<1> QED BY <1>2, <1>3

LEMMA EmptyFacts == \A S : <<>> \in Seq(S) /\ Len(<<>>) = 0
OBVIOUS

LEMMA UpdateType ==
  ASSUME NEW S, NEW T, NEW f \in [S -> T], NEW x \in S, NEW y \in T
  PROVE  [f EXCEPT ![x] = y] \in [S -> T]
OBVIOUS

LEMMA Constants ==
  /\ MaxRuns \in Nat /\ MaxStarts \in Nat /\ MaxFaults \in Nat /\ Chunk \in Nat \ {0} /\ Sizes \subseteq Nat
  /\ Runs \subseteq Nat \ {0} /\ Starts \subseteq Nat \ {0}
  /\ Missing = -1 /\ None = -1 /\ NoQueue = 0
BY FileAssumption DEF FileAssumption, Runs, Starts, Missing, None, NoQueue

----------------------------------------------------------------------------
(* Types.                                                                  *)

ServerType == [at : {"off", "publish", "receive", "fork", "unlink"},
               sid : Starts \cup {NoQueue}, cur : Runs \cup {0}, eintr : BOOLEAN]

LEMMA TypeInit == Init => TypeOK
<1> SUFFICES ASSUME Init PROVE TypeOK
  OBVIOUS
<1>1. NewClient \in ClientType /\ NewWorker \in WorkerType
  BY EmptyFacts DEF NewClient, NewWorker, ClientType, WorkerType
<1>2. cl \in [Runs -> ClientType] /\ wk \in [Runs -> WorkerType]
  BY <1>1 DEF Init
<1>3. requests \in Seq(Runs) /\ q \in [Runs -> Seq(Message)]
  BY EmptyFacts DEF Init
<1>4. srv \in ServerType
  BY DEF Init, ServerType
<1>5. /\ starts \in 0 .. MaxStarts /\ faults \in 0 .. MaxFaults /\ squeues \subseteq Starts
      /\ idFile \in Starts \cup {NoQueue, None} /\ exists \subseteq Runs
      /\ names \in [Pids \cup {0} -> Runs \cup {NoQueue}] /\ prog \in Programs
  BY Constants DEF Init
<1> QED BY <1>2, <1>3, <1>4, <1>5 DEF TypeOK, ServerType

LEMMA ClientToType ==
  ASSUME TypeOK, NEW i \in Runs, NEW place \in Ended, ClientTo(i, place)
  PROVE  cl' \in [Runs -> ClientType]
<1>1. cl[i] \in ClientType /\ cl \in [Runs -> ClientType]
  BY DEF TypeOK
<1>2. [cl[i] EXCEPT !.at = place, !.sid = NoQueue, !.alarm = FALSE, !.rung = FALSE] \in ClientType
  BY <1>1 DEF ClientType
<1> QED BY <1>1, <1>2 DEF ClientTo

LEMMA RemoveQueueType ==
  ASSUME TypeOK, NEW k, RemoveQueue(k)
  PROVE  /\ exists' \subseteq Runs /\ names' \in [Pids \cup {0} -> Runs \cup {NoQueue}]
         /\ q' \in [Runs -> Seq(Message)]
<1>1. <<>> \in Seq(Message)
  BY EmptyFacts
<1>2. q' \in [Runs -> Seq(Message)]
  BY <1>1 DEF TypeOK, RemoveQueue
<1> QED BY <1>2 DEF TypeOK, RemoveQueue

LEMMA WorkerExitsType ==
  ASSUME TypeOK, NEW i \in Runs, NEW place \in {"dead", "killed"}, WorkerExits(i, place)
  PROVE  /\ wk' \in [Runs -> WorkerType]
         /\ srv' \in [at : {"off", "publish", "receive", "fork", "unlink"},
                      sid : Starts \cup {NoQueue}, cur : Runs \cup {0}, eintr : BOOLEAN]
<1>1. wk' \in [Runs -> WorkerType]
  BY Constants DEF TypeOK, WorkerExits, NewWorker, WorkerType
<1>2. srv' = srv \/ srv' = [srv EXCEPT !.eintr = TRUE]
  BY DEF WorkerExits, Sigchld
<1> QED BY <1>1, <1>2 DEF TypeOK

\* What a step on a queue does.
LEMMA PutType ==
  ASSUME TypeOK, NEW i \in Runs, NEW m \in Message, Put(i, m)
  PROVE  q' \in [Runs -> Seq(Message)] /\ exists' = exists /\ names' = names
<1>1. \A s \in Seq(Message) : Append(s, m) \in Seq(Message)
  BY AppendFacts
<1>2. q \in [Runs -> Seq(Message)]
  BY DEF TypeOK
<1> QED BY <1>1, <1>2 DEF Put

LEMMA ServerTypes ==
  ASSUME TypeOK, Server \/ ServerForkFails \/ KillServer \/ TermServer
  PROVE  TypeOK'
<1> USE Constants DEF TypeOK, srvVars, queVars
<1>0. \A a \in {"off", "receive", "unlink"} : [srv EXCEPT !.at = a] \in ServerType
  BY DEF ServerType
<1>1. CASE ServerStart
  <2>1. PICK k \in IF prog = "posix" /\ squeues # {} THEN squeues ELSE {starts + 1} :
          /\ srv' = [at |-> IF Daemon THEN "publish" ELSE "receive", sid |-> k, cur |-> 0, eintr |-> FALSE]
          /\ squeues' = squeues \cup {k}
          /\ requests' = IF k \in squeues THEN requests ELSE <<>>
    BY <1>1 DEF ServerStart
  <2>2. k \in Starts /\ starts' \in 0 .. MaxStarts
    BY <1>1, <2>1 DEF ServerStart, Starts
  <2>3. srv' \in ServerType
    BY <2>1, <2>2 DEF ServerType
  <2>4. requests' \in Seq(Runs)
    BY <2>1, EmptyFacts
  <2> QED BY <1>1, <2>1, <2>2, <2>3, <2>4 DEF ServerStart, ServerType
<1>2. CASE ServerPublish
  BY <1>0, <1>2 DEF ServerPublish
<1>3. CASE ServerReceive
  BY <1>3, TailFacts DEF ServerReceive
<1>4. CASE ServerFork
  <2>1. ASSUME NEW i \in Runs
        PROVE  [wk[i] EXCEPT !.at = "open", !.sid = srv.sid, !.stale = srv.eintr] \in WorkerType
    <3>1. wk[i] \in WorkerType /\ srv.sid \in Starts \cup {NoQueue} /\ srv.eintr \in BOOLEAN
      OBVIOUS
    <3> QED BY <3>1 DEF WorkerType
  <2>2. wk' \in [Runs -> WorkerType]
    BY <1>4, <2>1 DEF ServerFork
  <2>3. srv' \in ServerType
    BY <1>4 DEF ServerFork, ServerType
  <2> QED BY <1>4, <2>2, <2>3 DEF ServerFork, ServerType
<1>5. CASE ServerUnlink \/ ServerQueueGone \/ KillServer
  <2>1. srv' \in ServerType
    BY <1>0, <1>5 DEF ServerUnlink, ServerQueueGone, KillServer
  <2>2. faults' \in 0 .. MaxFaults /\ idFile' \in Starts \cup {NoQueue, None}
    BY <1>5 DEF ServerUnlink, ServerQueueGone, KillServer
  <2> QED BY <1>5, <2>1, <2>2 DEF ServerUnlink, ServerQueueGone, KillServer, ServerType
<1>6. CASE ServerForkFails \/ TermServer
  <2>1. srv' \in ServerType
    BY <1>0, <1>6 DEF ServerForkFails, TermServer
  <2>2. faults' \in 0 .. MaxFaults /\ squeues' \subseteq Starts
    BY <1>6 DEF ServerForkFails, TermServer, RemoveServerQueue, HandlerRemoves
  <2>3. requests' \in Seq(Runs)
    <3>1. requests' = requests \/ requests' = <<>>
      BY <1>6 DEF ServerForkFails, TermServer, RemoveServerQueue, HandlerRemoves
    <3>2. requests \in Seq(Runs) /\ <<>> \in Seq(Runs)
      BY EmptyFacts
    <3> QED BY <3>1, <3>2
  <2> QED BY <1>6, <2>1, <2>2, <2>3 DEF ServerForkFails, TermServer, ServerType
<1> QED BY <1>1, <1>2, <1>3, <1>4, <1>5, <1>6 DEF Server

LEMMA ClientUpdate ==
  ASSUME NEW c \in ClientType, NEW k \in Runs, NEW b \in BOOLEAN
  PROVE  /\ [c EXCEPT !.at = "send", !.q = k, !.alarm = b] \in ClientType
         /\ [c EXCEPT !.at = "first", !.sid = NoQueue, !.alarm = b] \in ClientType
BY DEF ClientType

LEMMA ClientMakes ==
  ASSUME NEW c \in ClientType, NEW k \in Starts \cup {NoQueue}
  PROVE  [c EXCEPT !.at = "make", !.sid = k] \in ClientType
BY DEF ClientType

LEMMA ClientTakesIs ==
  ASSUME NEW i, NEW first, NEW place, ClientTakes(i, first, place)
  PROVE  LET m == Head(q[cl[i].q])
         IN  cl' = [cl EXCEPT ![i] = [cl[i] EXCEPT
                      !.at = place, !.alarm = FALSE, !.rung = FALSE,
                      !.tot = cl[i].tot + Counted(m, first),
                      !.got = IF m.type = "data" THEN Append(cl[i].got, m) ELSE cl[i].got]]
BY Zenon DEF ClientTakes

LEMMA ClientTypes ==
  ASSUME TypeOK, ClientInv, NEW i \in Runs,
         ClientStart(i) \/ Client(i) \/ ClientAlarm(i) \/ KillClient(i)
  PROVE  TypeOK'
<1> USE Constants DEF TypeOK, srvVars, queVars
<1>0. /\ cl[i] \in ClientType
      /\ \A a \in Ended : cl' = [cl EXCEPT ![i].at = a, ![i].sid = NoQueue, ![i].alarm = FALSE, ![i].rung = FALSE]
                          => cl' \in [Runs -> ClientType]
  BY ClientToType DEF ClientTo
<1>1. CASE ClientStart(i)
  <2>1. PICK p \in IF SysV THEN {0} ELSE Pids, n \in Sizes \cup {Missing} :
          cl' = [cl EXCEPT ![i].at = "find", ![i].pid = p, ![i].size = n]
    BY <1>1 DEF ClientStart
  <2>2. [cl[i] EXCEPT !.at = "find", !.pid = p, !.size = n] \in ClientType
    BY ZenonT(60), <1>0, <2>1 DEF ClientType
  <2>3. cl' \in [Runs -> ClientType]
    BY <2>1, <2>2
  <2> QED BY <1>1, <2>3 DEF ClientStart
<1>2. CASE ClientFind(i)
  <2>1. CASE squeues = {}
    BY <1>2, <2>1, ClientToType DEF ClientFind, Ended
  <2>2. CASE squeues # {}
    <3>1. PICK k \in squeues : cl' = [cl EXCEPT ![i].at = "make", ![i].sid = k]
      BY <1>2, <2>2 DEF ClientFind
    <3>2. [cl[i] EXCEPT !.at = "make", !.sid = k] \in ClientType
      BY <1>0, <3>1, ClientMakes
    <3>3. cl' \in [Runs -> ClientType]
      BY <3>1, <3>2
    <3> QED BY <1>2, <3>3 DEF ClientFind
  <2> QED BY <2>1, <2>2
<1>3. CASE ClientReadId(i)
  <2>1. PICK k \in {NoQueue} \cup ({idFile} \ {None}) : cl' = [cl EXCEPT ![i].at = "make", ![i].sid = k]
    BY <1>3 DEF ClientReadId
  <2>2. [cl[i] EXCEPT !.at = "make", !.sid = k] \in ClientType
    BY <1>0, <2>1, ClientMakes
  <2>3. cl' \in [Runs -> ClientType]
    BY <2>1, <2>2
  <2> QED BY <1>3, <2>3 DEF ClientReadId
<1>4. CASE ClientMake(i)
  <2>1. PICK k \in IF SysV \/ names[cl[i].pid] = NoQueue THEN {i} ELSE {names[cl[i].pid]} :
          /\ cl' = [cl EXCEPT ![i].at = "send", ![i].q = k, ![i].alarm = prog = "guarded"]
          /\ IF SysV THEN exists' = exists \cup {k} /\ UNCHANGED names
             ELSE names' = [names EXCEPT ![cl[i].pid] = k] /\ UNCHANGED exists
    BY <1>4 DEF ClientMake
  <2>2. cl[i].pid \in Pids \cup {0} /\ k \in Runs
    <3>1. cl[i].pid \in Pids \cup {0}
      BY <1>0 DEF ClientType
    <3>2. names[cl[i].pid] \in Runs \cup {NoQueue}
      BY <3>1
    <3>3. k = i \/ (names[cl[i].pid] # NoQueue /\ k = names[cl[i].pid])
      BY <2>1
    <3> QED BY <3>1, <3>2, <3>3
  <2>3. ASSUME NEW b \in BOOLEAN PROVE [cl[i] EXCEPT !.at = "send", !.q = k, !.alarm = b] \in ClientType
    BY <1>0, <2>2, ClientUpdate
  <2>4. cl' \in [Runs -> ClientType]
    <3>1. [cl[i] EXCEPT !.at = "send", !.q = k, !.alarm = prog = "guarded"] \in ClientType
      BY <2>3
    <3> QED BY <2>1, <3>1
  <2>5. /\ exists' = exists \cup {k} \/ exists' = exists
        /\ names' = names \/ names' = [names EXCEPT ![cl[i].pid] = k]
    BY <2>1
  <2>6. exists' \subseteq Runs /\ names' \in [Pids \cup {0} -> Runs \cup {NoQueue}]
    <3>1. exists \subseteq Runs /\ names \in [Pids \cup {0} -> Runs \cup {NoQueue}]
      OBVIOUS
    <3>2. exists' \subseteq Runs
      BY <2>2, <2>5, <3>1, Zenon
    <3>3. names' \in [Pids \cup {0} -> Runs \cup {NoQueue}]
      BY <2>2, <2>5, <3>1, UpdateType
    <3> QED BY <3>2, <3>3
  <2> QED BY <1>4, <2>4, <2>6 DEF ClientMake
<1>5. CASE ClientSend(i)
  <2>1. [cl[i] EXCEPT !.at = "first", !.sid = NoQueue, !.alarm = prog = "guarded"] \in ClientType
    <3>1. ASSUME NEW b \in BOOLEAN
          PROVE  [cl[i] EXCEPT !.at = "first", !.sid = NoQueue, !.alarm = b] \in ClientType
      BY <1>0, ClientUpdate
    <3> QED BY <3>1
  <2>2. cl' \in [Runs -> ClientType]
    BY <1>5, <2>1 DEF ClientSend
  <2>3. Append(requests, i) \in Seq(Runs)
    BY AppendFacts
  <2> QED BY <1>5, <2>2, <2>3 DEF ClientSend
<1>6. CASE ClientSendFails(i)
  <2>1. cl' \in [Runs -> ClientType]
    BY <1>6, ClientToType DEF ClientSendFails, Ended
  <2>2. RemoveQueue(cl[i].q)
    BY <1>6 DEF ClientSendFails, AtExit
  <2>3. /\ exists' \subseteq Runs /\ names' \in [Pids \cup {0} -> Runs \cup {NoQueue}]
        /\ q' \in [Runs -> Seq(Message)]
    BY <2>2, RemoveQueueType
  <2> QED BY <1>6, <2>1, <2>3 DEF ClientSendFails
<1>7. CASE ClientData(i) \/ ClientFinish(i)
  <2>1. cl[i].q \in Runs /\ q[cl[i].q] # <<>> /\ cl[i].at \in {"first", "receive"}
    <3>1. q[cl[i].q] # <<>> /\ cl[i].at \in {"first", "receive"}
      BY <1>7 DEF ClientData, ClientFinish
    <3> QED BY <1>0, <3>1 DEF ClientInv, HasQueue, ClientType
  <2>2. Head(q[cl[i].q]) \in Message /\ Tail(q[cl[i].q]) \in Seq(Message)
    BY <2>1, TailFacts
  <2>3. PICK place \in {"receive", "file"}, first \in BOOLEAN : ClientTakes(i, first, place)
    <3>1. (cl[i].at = "first") \in BOOLEAN
      OBVIOUS
    <3> QED BY <1>7, <3>1 DEF ClientData, ClientFinish
  <2>4. /\ Append(cl[i].got, Head(q[cl[i].q])) \in Seq(Message)
        /\ Counted(Head(q[cl[i].q]), first) \in Nat
    <3>1. cl[i].got \in Seq(Message)
      BY <1>0 DEF ClientType
    <3>2. Head(q[cl[i].q]).len \in Nat
      BY <2>2 DEF Message
    <3> QED BY <2>2, <3>1, <3>2, AppendFacts DEF Counted
  <2>5. ASSUME NEW g \in Seq(Message), NEW t \in Nat
        PROVE  [cl[i] EXCEPT !.at = place, !.alarm = FALSE, !.rung = FALSE, !.tot = t, !.got = g] \in ClientType
    BY ZenonT(60), <1>0, <2>3 DEF ClientType, Ended
  <2>6. cl' \in [Runs -> ClientType]
    <3> DEFINE m == Head(q[cl[i].q])
               g == IF m.type = "data" THEN Append(cl[i].got, m) ELSE cl[i].got
               t == cl[i].tot + Counted(m, first)
    <3>1. cl[i].got \in Seq(Message) /\ cl[i].tot \in Nat
      BY <1>0 DEF ClientType
    <3>2. g \in Seq(Message) /\ t \in Nat
      BY <2>4, <3>1
    <3>3. cl' = [cl EXCEPT ![i] = [cl[i] EXCEPT !.at = place, !.alarm = FALSE, !.rung = FALSE, !.tot = t, !.got = g]]
      BY <2>3, ClientTakesIs
    <3> HIDE DEF g, t
    <3> QED BY <2>5, <3>2, <3>3
  <2>7. q' \in [Runs -> Seq(Message)]
    <3>1. CASE q' = [q EXCEPT ![cl[i].q] = Tail(@)]
      BY <2>2, <3>1
    <3>2. CASE RemoveQueue(cl[i].q)
      BY <3>2, RemoveQueueType
    <3> QED BY <1>7, <3>1, <3>2 DEF ClientData, ClientFinish
  <2>8. exists' \subseteq Runs /\ names' \in [Pids \cup {0} -> Runs \cup {NoQueue}]
    BY <1>7 DEF ClientData, ClientFinish, RemoveQueue
  <2> QED BY <1>7, <2>6, <2>7, <2>8 DEF ClientData, ClientFinish
<1>8. CASE ClientRefused(i)
  <2>1. cl' \in [Runs -> ClientType]
    BY <1>8, ClientToType DEF ClientRefused, Ended
  <2>2. CASE SysV
    BY <1>8, <2>1, <2>2, RemoveQueueType DEF ClientRefused
  <2>3. CASE ~SysV
    <3>1. cl[i].q \in Runs /\ q[cl[i].q] # <<>>
      BY <1>0, <1>8 DEF ClientRefused, ClientInv, HasQueue, ClientType
    <3>2. Tail(q[cl[i].q]) \in Seq(Message)
      BY <3>1, TailFacts
    <3>3. q' \in [Runs -> Seq(Message)]
      BY <1>8, <2>3, <3>2 DEF ClientRefused
    <3> QED BY <1>8, <2>1, <2>3, <3>3 DEF ClientRefused
  <2> QED BY <2>2, <2>3
<1>9. CASE ClientDenied(i)
  BY <1>9, ClientToType DEF ClientDenied, Ended
<1>10. CASE ClientAlarm(i)
  <2>1. cl' \in [Runs -> ClientType]
    <3>1. CASE ClientTo(i, "timeout") \/ ClientTo(i, "killed")
      BY <3>1, ClientToType DEF Ended
    <3>2. CASE cl' = [cl EXCEPT ![i].alarm = FALSE, ![i].rung = TRUE]
      <4>1. [cl[i] EXCEPT !.alarm = FALSE, !.rung = TRUE] \in ClientType
        BY <1>0 DEF ClientType
      <4> QED BY <3>2, <4>1
    <3> QED BY <1>10, <3>1, <3>2 DEF ClientAlarm
  <2>2. CASE RemoveQueue(cl[i].q)
    BY <1>10, <2>1, <2>2, RemoveQueueType DEF ClientAlarm
  <2>3. CASE UNCHANGED queVars
    BY <1>10, <2>1, <2>3 DEF ClientAlarm
  <2> QED BY <1>10, <2>2, <2>3 DEF ClientAlarm, AtExit
<1>11. CASE KillClient(i)
  <2>1. cl' \in [Runs -> ClientType]
    BY <1>11, ClientToType DEF KillClient, Ended
  <2> QED BY <1>11, <2>1 DEF KillClient
<1> QED BY <1>1, <1>2, <1>3, <1>4, <1>5, <1>6, <1>7, <1>8, <1>9, <1>10, <1>11 DEF Client

\* Whatever a worker may do, or have done to it.
WorkerSide(i) == \/ Worker(i) \/ WorkerAlarm(i) \/ WorkerReadFails(i)
                 \/ KillWorker(i) \/ TermWorker(i)

LEMMA WorkerUpdate ==
  ASSUME NEW w \in WorkerType
  PROVE  /\ \A k \in Runs \cup {NoQueue} : \A a \in {"refuse", "send"} : \A b \in BOOLEAN :
                 [w EXCEPT !.q = k, !.at = a, !.alarm = b] \in WorkerType
         /\ \A n \in Nat : [w EXCEPT !.from = n] \in WorkerType
         /\ \A a \in {"stop", "end", "unlink"} : [w EXCEPT !.at = a] \in WorkerType
         /\ [w EXCEPT !.at = "stop", !.alarm = FALSE, !.timedOut = TRUE] \in WorkerType
         /\ [w EXCEPT !.at = "stop", !.stale = FALSE, !.broken = TRUE] \in WorkerType
         /\ [w EXCEPT !.alarm = FALSE] \in WorkerType
         /\ [w EXCEPT !.at = "end", !.alarm = FALSE] \in WorkerType
BY DEF WorkerType

LEMMA BlockFacts ==
  ASSUME NEW n \in Nat, NEW m \in Nat, m <= n
  PROVE  /\ Block(n, m) \in Nat /\ m + Block(n, m) <= n
         /\ m < n => Block(n, m) > 0
         /\ m + Block(n, m) < n => Block(n, m) = Chunk
         /\ Block(n, m) <= Chunk
BY Constants DEF Block

LEMMA WorkerTypes ==
  ASSUME TypeOK, WorkerInv, NEW i \in Runs,
         WorkerSide(i)
  PROVE  TypeOK'
<1> USE DEF otherVars, queVars
<1>0. /\ wk[i] \in WorkerType /\ wk \in [Runs -> WorkerType] /\ cl[i] \in ClientType
      /\ wk[i].from \in Nat /\ wk[i].q \in Runs \cup {NoQueue}
      /\ cl[i].q \in Runs \cup {NoQueue} /\ cl[i].pid \in Pids \cup {0}
      /\ cl[i].size \in Nat \cup {Missing}
  <2>1. wk[i] \in WorkerType /\ wk \in [Runs -> WorkerType] /\ cl[i] \in ClientType
    BY DEF TypeOK
  <2>2. wk[i].from \in Nat /\ wk[i].q \in Runs \cup {NoQueue}
    BY <2>1 DEF WorkerType
  <2>3. /\ cl[i].q \in Runs \cup {NoQueue} /\ cl[i].pid \in Pids \cup {0}
        /\ cl[i].size \in Sizes \cup {0, Missing}
    BY <2>1 DEF ClientType
  <2>4. Sizes \subseteq Nat /\ 0 \in Nat
    BY Constants
  <2>5. cl[i].size \in Nat \cup {Missing}
    BY <2>3, <2>4, Zenon
  <2> QED BY <2>1, <2>2, <2>3, <2>5
<1>1. CASE WorkerOpen(i)
  <2>1. CASE WorkerExits(i, "dead")
    BY <1>1, <2>1, WorkerExitsType DEF WorkerOpen, TypeOK
  <2>2. CASE ~WorkerExits(i, "dead")
    <3> DEFINE k == IF SysV THEN cl[i].q ELSE names[cl[i].pid]
               a == IF cl[i].size = Missing THEN "refuse" ELSE "send"
               b == Daemon /\ cl[i].size # Missing
    <3>1. k \in Runs \cup {NoQueue} /\ a \in {"refuse", "send"} /\ b \in BOOLEAN
      <4>1. names[cl[i].pid] \in Runs \cup {NoQueue}
        BY <1>0 DEF TypeOK
      <4> QED BY <1>0, <4>1
    <3>2. wk' = [wk EXCEPT ![i] = [wk[i] EXCEPT !.q = k, !.at = a, !.alarm = b]]
      BY <1>1, <2>2 DEF WorkerOpen
    <3> HIDE DEF k, a, b
    <3>3. wk' \in [Runs -> WorkerType]
      BY <1>0, <3>1, <3>2, WorkerUpdate
    <3> QED BY <1>1, <2>2, <3>3 DEF WorkerOpen, TypeOK
  <2> QED BY <2>1, <2>2
<1>2. CASE WorkerRefuse(i) \/ WorkerEnd(i)
  <2>1. \A n \in Nat, l \in Nat, a \in {"failure", "end"} : [type |-> a, of |-> i, from |-> n, len |-> l] \in Message
    BY DEF Message
  <2>2. q' \in [Runs -> Seq(Message)] /\ exists' = exists /\ names' = names
    <3>1. CASE UNCHANGED queVars
      BY <3>1 DEF TypeOK
    <3>2. CASE WorkerRefuse(i) /\ ~UNCHANGED queVars
      BY <2>1, <3>2, PutType DEF WorkerRefuse
    <3>3. CASE WorkerEnd(i) /\ ~UNCHANGED queVars
      <4>1. (IF SysV THEN 0 ELSE Chunk) \in Nat
        BY Constants
      <4> QED BY <1>0, <2>1, <3>3, <4>1, PutType DEF WorkerEnd
    <3> QED BY <1>2, <3>1, <3>2, <3>3
  <2> QED BY <1>2, <2>2, WorkerExitsType DEF WorkerRefuse, WorkerEnd, TypeOK
<1>3. CASE WorkerSend(i)
  <2>1. wk[i].from <= cl[i].size /\ cl[i].size \in Nat
    BY <1>0, <1>3, Constants DEF WorkerSend, WorkerInv
  <2>2. Block(cl[i].size, wk[i].from) \in Nat /\ wk[i].from + Block(cl[i].size, wk[i].from) \in Nat
    <3>1. \A n, m \in Nat : m <= n => Block(n, m) \in Nat
      BY BlockFacts
    <3> QED BY <1>0, <2>1, <3>1
  <2>3. wk' \in [Runs -> WorkerType]
    BY <1>0, <1>3, <2>2, WorkerUpdate DEF WorkerSend
  <2>4. [type |-> "data", of |-> i, from |-> wk[i].from, len |-> Block(cl[i].size, wk[i].from)] \in Message
    BY <1>0, <2>2 DEF Message
  <2> QED BY <1>3, <2>3, <2>4, PutType DEF WorkerSend, TypeOK
<1>4. CASE WorkerSendFails(i) \/ WorkerAlarm(i) \/ WorkerStop(i)
  <2>1. wk' \in [Runs -> WorkerType]
    <3>1. \/ wk' = [wk EXCEPT ![i] = [wk[i] EXCEPT !.at = "stop"]]
          \/ wk' = [wk EXCEPT ![i] = [wk[i] EXCEPT !.at = "stop", !.alarm = FALSE, !.timedOut = TRUE]]
          \/ wk' = [wk EXCEPT ![i] = [wk[i] EXCEPT !.alarm = FALSE]]
          \/ wk' = [wk EXCEPT ![i] = [wk[i] EXCEPT !.at = "end", !.alarm = FALSE]]
      BY <1>4 DEF WorkerSendFails, WorkerAlarm, WorkerStop
    <3> QED BY <1>0, <3>1, WorkerUpdate
  <2>2. CASE UNCHANGED queVars
    BY <1>4, <2>1, <2>2 DEF TypeOK, WorkerSendFails, WorkerAlarm, WorkerStop
  <2>3. CASE WorkerStop(i) /\ ~UNCHANGED queVars
    BY <2>1, <2>3, RemoveQueueType DEF WorkerStop, TypeOK
  <2> QED BY <1>4, <2>2, <2>3 DEF WorkerSendFails, WorkerAlarm, TypeOK
<1>5. CASE WorkerUnlink(i) \/ KillWorker(i)
  <2>1. faults' \in 0 .. MaxFaults /\ idFile' \in Starts \cup {NoQueue, None}
    BY <1>5, Constants DEF WorkerUnlink, KillWorker, TypeOK
  <2> QED BY <1>5, <2>1, WorkerExitsType DEF WorkerUnlink, KillWorker, TypeOK
<1>6. CASE TermWorker(i)
  <2>1. /\ faults' \in 0 .. MaxFaults /\ squeues' \subseteq Starts
        /\ requests' = requests \/ requests' = <<>>
    <3>1. faults \in 0 .. MaxFaults /\ squeues \subseteq Starts
      BY DEF TypeOK
    <3> QED BY <1>6, <3>1, Constants DEF TermWorker, HandlerRemoves
  <2>2. requests' \in Seq(Runs)
    <3>1. requests \in Seq(Runs) /\ <<>> \in Seq(Runs)
      BY EmptyFacts DEF TypeOK
    <3> QED BY <2>1, <3>1
  <2>3. CASE WorkerExits(i, "killed")
    BY <1>6, <2>1, <2>2, <2>3, WorkerExitsType DEF TermWorker, TypeOK
  <2>4. CASE wk' = [wk EXCEPT ![i].at = "unlink"] /\ srv' = srv
    <3>1. wk' \in [Runs -> WorkerType]
      BY <1>0, <2>4, WorkerUpdate
    <3> QED BY <1>6, <2>1, <2>2, <2>4, <3>1 DEF TermWorker, TypeOK
  <2> QED BY <1>6, <2>3, <2>4 DEF TermWorker, TypeOK
<1>7. CASE WorkerReadFails(i)
  <2>1. wk' = [wk EXCEPT ![i] = [wk[i] EXCEPT !.at = "stop", !.stale = FALSE, !.broken = TRUE]]
    BY <1>7 DEF WorkerReadFails
  <2>2. wk' \in [Runs -> WorkerType]
    BY <1>0, <2>1, WorkerUpdate
  <2>3. faults' \in 0 .. MaxFaults
    BY <1>7, Constants DEF WorkerReadFails, TypeOK
  <2> QED BY <1>7, <2>2, <2>3 DEF WorkerReadFails, srvVars, TypeOK
<1> QED BY <1>1, <1>2, <1>3, <1>4, <1>5, <1>6, <1>7 DEF WorkerSide, Worker

LEMMA TypeNext == TypeOK /\ ClientInv /\ WorkerInv /\ [Next]_vars => TypeOK'
<1> SUFFICES ASSUME TypeOK, ClientInv, WorkerInv, [Next]_vars PROVE TypeOK'
  OBVIOUS
<1>1. CASE UNCHANGED vars
  BY <1>1 DEF vars, srvVars, queVars, TypeOK
<1>2. CASE Next
  BY <1>2, ServerTypes, ClientTypes, WorkerTypes DEF Next, WorkerSide
<1> QED BY <1>1, <1>2

----------------------------------------------------------------------------
(* What the steps do to the clients, the workers and the queues.           *)

Others(i)  == wk' = wk /\ \A j \in Runs \ {i} : cl'[j] = cl[j]
Same(i)    == cl'[i].q = cl[i].q /\ cl'[i].pid = cl[i].pid /\ cl'[i].size = cl[i].size
Moves(i, place) == /\ Others(i) /\ Same(i) /\ cl'[i].at = place
                   /\ cl'[i].got = cl[i].got /\ cl'[i].tot = cl[i].tot

Begins(i) == /\ Others(i) /\ UNCHANGED queVars
             /\ cl[i].at = "none" /\ \A j \in 1 .. i - 1 : cl[j].at # "none"
             /\ cl'[i].at = "find" /\ cl'[i].q = cl[i].q
             /\ cl'[i].got = cl[i].got /\ cl'[i].tot = cl[i].tot
             /\ cl'[i].size \in Nat \cup {Missing}
             /\ SysV \/ \A j \in Runs : Live(j) => cl[j].pid # cl'[i].pid

QuietClient(i) ==
  /\ UNCHANGED queVars
  /\ \/ cl[i].at = "find" /\ \E a \in {"make", "error"} : Moves(i, a)
     \/ cl[i].at = "send" /\ Moves(i, "first")
     \/ Moves(i, cl[i].at)
     \/ Live(i) /\ Moves(i, "killed")
     \/ HasQueue(i) /\ Gone(cl[i].q) /\ Moves(i, "denied")

Makes(i) ==
  /\ Others(i) /\ UNCHANGED q
  /\ cl[i].at = "make" /\ cl'[i].at = "send"
  /\ cl'[i].pid = cl[i].pid /\ cl'[i].size = cl[i].size
  /\ cl'[i].got = cl[i].got /\ cl'[i].tot = cl[i].tot
  /\ \/ SysV /\ cl'[i].q = i /\ exists' = exists \cup {i} /\ UNCHANGED names
     \/ /\ ~SysV /\ UNCHANGED exists
        /\ names' = [names EXCEPT ![cl[i].pid] = cl'[i].q]
        /\ cl'[i].q = IF names[cl[i].pid] = NoQueue THEN i ELSE names[cl[i].pid]

Leaves(i) == /\ SysV /\ RemoveQueue(cl[i].q)
             /\ \/ cl[i].at = "send" /\ Moves(i, "error")
                \/ HasQueue(i) /\ Moves(i, "timeout")

\* The client takes a message, and is then at "place".
Reads(i) == /\ cl[i].at \in {"first", "receive"} /\ ~Gone(cl[i].q) /\ q[cl[i].q] # <<>>
            /\ Others(i) /\ Same(i)
ReadsOn(i) == q' = [q EXCEPT ![cl[i].q] = Tail(q[cl[i].q])] /\ UNCHANGED exists

TakesData(i) == /\ Reads(i) /\ ReadsOn(i) /\ UNCHANGED names
                /\ Head(q[cl[i].q]).type = "data"
                /\ cl'[i].at = "receive"
                /\ cl'[i].got = Append(cl[i].got, Head(q[cl[i].q]))
                /\ SysV => cl'[i].tot = cl[i].tot + Head(q[cl[i].q]).len

TakesFailure(i) == /\ Reads(i) /\ Head(q[cl[i].q]).type = "failure"
                   /\ Moves(i, "failure")
                   /\ \/ SysV /\ RemoveQueue(cl[i].q)
                      \/ ~SysV /\ ReadsOn(i) /\ UNCHANGED names

TakesEnd(i) == /\ Reads(i) /\ Head(q[cl[i].q]).type # "data"
               /\ Head(q[cl[i].q]).type = "end" \/ cl[i].at = "receive"
               /\ cl'[i].at = "file" /\ cl'[i].got = cl[i].got
               /\ SysV => cl'[i].tot = cl[i].tot + Head(q[cl[i].q]).len
               /\ \/ SysV /\ RemoveQueue(cl[i].q)
                  \/ ~SysV /\ ReadsOn(i) /\ names' = [names EXCEPT ![cl[i].pid] = NoQueue]

ClientSteps(i) == \/ Begins(i) \/ QuietClient(i) \/ Makes(i) \/ Leaves(i)
                  \/ TakesData(i) \/ TakesFailure(i) \/ TakesEnd(i)

LEMMA ClientToMoves ==
  ASSUME TypeOK, NEW i \in Runs, NEW place, ClientTo(i, place), wk' = wk
  PROVE  Moves(i, place) /\ cl'[i].alarm = FALSE /\ cl'[i].rung = FALSE
<1>1. cl[i] \in ClientType /\ cl \in [Runs -> ClientType]
  BY DEF TypeOK
<1>2. cl' = [cl EXCEPT ![i] = [cl[i] EXCEPT !.at = place, !.sid = NoQueue, !.alarm = FALSE, !.rung = FALSE]]
  BY <1>1 DEF ClientTo
<1> QED BY <1>1, <1>2 DEF Moves, Others, Same, ClientType

LEMMA ClientStepsCase ==
  ASSUME TypeOK, ClientInv, NEW i \in Runs,
         ClientStart(i) \/ Client(i) \/ ClientAlarm(i) \/ KillClient(i)
  PROVE  ClientSteps(i) /\ prog' = prog /\ srv' = srv
<1> USE DEF srvVars, ClientSteps
<1>0. cl[i] \in ClientType /\ cl \in [Runs -> ClientType]
  BY DEF TypeOK
<1>1. CASE ClientStart(i)
  <2>1. PICK p \in IF SysV THEN {0} ELSE Pids, n \in Sizes \cup {Missing} :
          /\ SysV \/ \A j \in Runs : Live(j) => cl[j].pid # p
          /\ cl' = [cl EXCEPT ![i].at = "find", ![i].pid = p, ![i].size = n]
    BY <1>1, Zenon DEF ClientStart
  <2>2. n \in Nat \cup {Missing}
    BY Constants
  <2>3. cl' = [cl EXCEPT ![i] = [cl[i] EXCEPT !.at = "find", !.pid = p, !.size = n]]
    BY <1>0, <2>1
  <2>4. /\ Others(i) /\ cl'[i].at = "find" /\ cl'[i].q = cl[i].q /\ cl'[i].pid = p /\ cl'[i].size = n
        /\ cl'[i].got = cl[i].got /\ cl'[i].tot = cl[i].tot
    BY <1>0, <1>1, <2>3 DEF ClientStart, Others, ClientType
  <2>5. SysV \/ \A j \in Runs : Live(j) => cl[j].pid # cl'[i].pid
    BY <2>1, <2>4
  <2>6. Begins(i)
    BY <1>1, <2>2, <2>4, <2>5 DEF ClientStart, Begins
  <2> QED BY <1>1, <2>6 DEF ClientStart
<1>2. CASE ClientFind(i) \/ ClientReadId(i)
  <2>1. CASE ClientTo(i, "error")
    BY <1>2, <2>1, ClientToMoves DEF ClientFind, ClientReadId, QuietClient
  <2>2. CASE ~ClientTo(i, "error")
    <3>1. PICK k \in Starts \cup {NoQueue} : cl' = [cl EXCEPT ![i] = [cl[i] EXCEPT !.at = "make", !.sid = k]]
      BY <1>2, <2>2 DEF ClientFind, ClientReadId, TypeOK
    <3>2. Moves(i, "make")
      BY <1>0, <1>2, <3>1 DEF ClientFind, ClientReadId, Moves, Others, Same, ClientType
    <3> QED BY <1>2, <3>2 DEF ClientFind, ClientReadId, QuietClient
  <2> QED BY <2>1, <2>2
<1>3. CASE ClientMake(i)
  <2>1. PICK k \in IF SysV \/ names[cl[i].pid] = NoQueue THEN {i} ELSE {names[cl[i].pid]} :
          /\ cl' = [cl EXCEPT ![i] = [cl[i] EXCEPT !.at = "send", !.q = k, !.alarm = prog = "guarded"]]
          /\ IF SysV THEN exists' = exists \cup {k} /\ UNCHANGED names
             ELSE names' = [names EXCEPT ![cl[i].pid] = k] /\ UNCHANGED exists
    BY ZenonT(60), <1>3 DEF ClientMake
  <2>2. k = IF SysV \/ names[cl[i].pid] = NoQueue THEN i ELSE names[cl[i].pid]
    BY <2>1
  <2>3. /\ Others(i) /\ cl'[i].at = "send" /\ cl'[i].q = k /\ cl'[i].pid = cl[i].pid
        /\ cl'[i].size = cl[i].size /\ cl'[i].got = cl[i].got /\ cl'[i].tot = cl[i].tot
    BY <1>0, <1>3, <2>1 DEF ClientMake, Others, ClientType
  <2>4. Makes(i)
    BY <1>3, <2>1, <2>2, <2>3 DEF ClientMake, Makes
  <2> QED BY <1>3, <2>4 DEF ClientMake
<1>4. CASE ClientSend(i)
  <2>1. cl' = [cl EXCEPT ![i] = [cl[i] EXCEPT !.at = "first", !.sid = NoQueue, !.alarm = prog = "guarded"]]
    BY <1>4 DEF ClientSend
  <2>2. Moves(i, "first")
    BY <1>0, <1>4, <2>1 DEF ClientSend, Moves, Others, Same, ClientType
  <2> QED BY <1>4, <2>2 DEF ClientSend, QuietClient
<1>5. CASE ClientSendFails(i)
  BY <1>5, ClientToMoves DEF ClientSendFails, AtExit, Leaves
<1>6. CASE ClientData(i)
  <2>1. /\ Others(i) /\ Same(i) /\ cl'[i].at = "receive"
        /\ cl'[i].tot = cl[i].tot + Counted(Head(q[cl[i].q]), cl[i].at = "first")
        /\ cl'[i].got = Append(cl[i].got, Head(q[cl[i].q]))
    <3> DEFINE m == Head(q[cl[i].q])
               g == IF m.type = "data" THEN Append(cl[i].got, m) ELSE cl[i].got
               t == cl[i].tot + Counted(m, cl[i].at = "first")
    <3>1. cl' = [cl EXCEPT ![i] = [cl[i] EXCEPT !.at = "receive", !.alarm = FALSE, !.rung = FALSE, !.tot = t, !.got = g]]
      BY <1>6, ZenonT(40) DEF ClientData, ClientTakes
    <3>2. m.type # "data" => g = cl[i].got
      OBVIOUS
    <3>3. m.type = "data" => g = Append(cl[i].got, m)
      OBVIOUS
    <3> HIDE DEF g, t
    <3>4. cl'[i].tot = t /\ cl'[i].got = g /\ cl'[i].at = "receive" /\ Others(i) /\ Same(i)
      BY <1>0, <1>6, <3>1 DEF ClientData, Others, Same, ClientType
    <3> QED BY <1>6, <3>2, <3>3, <3>4 DEF ClientData, t
  <2>2. TakesData(i)
    BY <1>6, <2>1 DEF ClientData, TakesData, Reads, ReadsOn, Counted
  <2> QED BY <1>6, <2>2 DEF ClientData
<1>7. CASE ClientRefused(i)
  <2>1. Moves(i, "failure")
    BY <1>7, ClientToMoves DEF ClientRefused
  <2>2. TakesFailure(i)
    BY <1>7, <2>1 DEF ClientRefused, TakesFailure, Reads, ReadsOn, Moves
  <2> QED BY <1>7, <2>2 DEF ClientRefused
<1>8. CASE ClientFinish(i)
  <2>1. /\ Others(i) /\ Same(i) /\ cl'[i].at = "file"
        /\ cl'[i].tot = cl[i].tot + Counted(Head(q[cl[i].q]), cl[i].at = "first")
        /\ cl'[i].got = cl[i].got
    <3> DEFINE m == Head(q[cl[i].q])
               g == IF m.type = "data" THEN Append(cl[i].got, m) ELSE cl[i].got
               t == cl[i].tot + Counted(m, cl[i].at = "first")
    <3>1. cl' = [cl EXCEPT ![i] = [cl[i] EXCEPT !.at = "file", !.alarm = FALSE, !.rung = FALSE, !.tot = t, !.got = g]]
      BY <1>8, ZenonT(40) DEF ClientFinish, ClientTakes
    <3>2. m.type # "data" => g = cl[i].got
      OBVIOUS
    <3>3. m.type = "data" => g = Append(cl[i].got, m)
      OBVIOUS
    <3> HIDE DEF g, t
    <3>4. cl'[i].tot = t /\ cl'[i].got = g /\ cl'[i].at = "file" /\ Others(i) /\ Same(i)
      BY <1>0, <1>8, <3>1 DEF ClientFinish, Others, Same, ClientType
    <3> QED BY <1>8, <3>2, <3>3, <3>4 DEF ClientFinish, t
  <2>2. TakesEnd(i)
    BY <1>8, <2>1 DEF ClientFinish, TakesEnd, Reads, ReadsOn, Counted
  <2> QED BY <1>8, <2>2 DEF ClientFinish
<1>9. CASE ClientDenied(i) \/ KillClient(i)
  BY <1>9, ClientToMoves DEF ClientDenied, KillClient, QuietClient, HasQueue
<1>10. CASE ClientAlarm(i)
  <2>1. HasQueue(i) /\ cl[i].at \in {"send", "first", "receive"} /\ Live(i) /\ SysV
    BY <1>0, <1>10 DEF ClientAlarm, ClientInv, HasQueue, Live, Ended
  <2>2. CASE ClientTo(i, "timeout") /\ AtExit(i)
    BY <1>10, <2>1, <2>2, ClientToMoves DEF ClientAlarm, AtExit, Leaves
  <2>3. CASE ClientTo(i, "killed") /\ UNCHANGED queVars
    BY <1>10, <2>1, <2>3, ClientToMoves DEF ClientAlarm, QuietClient
  <2>4. CASE cl' = [cl EXCEPT ![i].alarm = FALSE, ![i].rung = TRUE] /\ UNCHANGED queVars
    <3>1. cl' = [cl EXCEPT ![i] = [cl[i] EXCEPT !.alarm = FALSE, !.rung = TRUE]]
      BY <2>4
    <3>2. Moves(i, cl[i].at)
      BY <1>0, <1>10, <3>1 DEF ClientAlarm, Moves, Others, Same, ClientType
    <3> QED BY <1>10, <2>4, <3>2 DEF ClientAlarm, QuietClient
  <2> QED BY <1>10, <2>2, <2>3, <2>4 DEF ClientAlarm
<1> QED BY <1>1, <1>2, <1>3, <1>4, <1>5, <1>6, <1>7, <1>8, <1>9, <1>10 DEF Client

OtherWorkers(i) == cl' = cl /\ \A j \in Runs \ {i} : wk'[j] = wk[j]
Becomes(i, place) == /\ OtherWorkers(i) /\ wk'[i].at = place
                     /\ wk'[i].q = wk[i].q /\ wk'[i].from = wk[i].from
                     /\ wk'[i].alarm => wk[i].alarm
                     /\ wk[i].broken => wk'[i].broken
Keeps(i, place) == Becomes(i, place) /\ wk'[i].timedOut = wk[i].timedOut

QuietWorker(i) ==
  /\ UNCHANGED queVars
  /\ \/ wk[i].at = "none" /\ Asked(i) /\ Keeps(i, "open")
     \/ wk[i].at = "send" /\ Gone(wk[i].q) /\ Keeps(i, "stop")
     \/ wk[i].at = "send" /\ wk[i].alarm /\ Becomes(i, "stop") /\ wk'[i].timedOut = TRUE
     \/ wk[i].at = "send" /\ Keeps(i, "stop") /\ wk'[i].broken
     \/ wk[i].at # "none" /\ Keeps(i, wk[i].at)
     \/ LoopEnded(i) /\ wk[i].timedOut = FALSE /\ Keeps(i, "end")
     \/ WorkerLive(i) /\ Keeps(i, "unlink")

Removes(i) == /\ LoopEnded(i) /\ SysV /\ Keeps(i, "end") /\ RemoveQueue(wk[i].q)
              /\ wk[i].timedOut \/ cl[i].size = 0

Exited(i, place) == /\ OtherWorkers(i) /\ wk'[i].at = place
                    /\ wk'[i].q = NoQueue /\ wk'[i].from = 0 /\ wk'[i].alarm = FALSE
                    /\ wk'[i].timedOut = wk[i].timedOut
                    /\ wk[i].broken => wk'[i].broken

Exits(i) == UNCHANGED queVars /\ WorkerLive(i) /\ \E a \in {"dead", "killed"} : Exited(i, a)

Opens(i) ==
  /\ UNCHANGED queVars /\ OtherWorkers(i)
  /\ wk[i].at = "open" /\ wk'[i].at = IF cl[i].size = Missing THEN "refuse" ELSE "send"
  /\ SysV \/ names[cl[i].pid] # NoQueue
  /\ wk'[i].q = IF SysV THEN cl[i].q ELSE names[cl[i].pid]
  /\ wk'[i].from = wk[i].from /\ wk'[i].timedOut = wk[i].timedOut
  /\ wk'[i].alarm => Daemon
  /\ wk[i].broken => wk'[i].broken

Puts(i, m) == /\ UNCHANGED <<exists, names>> /\ ~Gone(wk[i].q)
              /\ q' = [q EXCEPT ![wk[i].q] = Append(q[wk[i].q], m)]

Sends(i) == /\ OtherWorkers(i) /\ wk[i].at = "send" /\ wk'[i].at = "send" /\ ~AtEof(i)
            /\ Puts(i, [type |-> "data", of |-> i, from |-> wk[i].from,
                        len |-> Block(cl[i].size, wk[i].from)])
            /\ wk'[i].from = wk[i].from + Block(cl[i].size, wk[i].from)
            /\ wk'[i].q = wk[i].q /\ wk'[i].timedOut = wk[i].timedOut
            /\ wk'[i].alarm => wk[i].alarm
            /\ wk[i].broken => wk'[i].broken

Refuses(i) == /\ wk[i].at = "refuse" /\ Exited(i, "dead")
              /\ Puts(i, [type |-> "failure", of |-> i, from |-> 0, len |-> 0])

Finishes(i) == /\ wk[i].at = "end" /\ Exited(i, "dead")
               /\ Puts(i, [type |-> "end", of |-> i, from |-> wk[i].from,
                           len |-> IF SysV THEN 0 ELSE Chunk])

WorkerSteps(i) == \/ QuietWorker(i) \/ Removes(i) \/ Exits(i) \/ Opens(i)
                  \/ Sends(i) \/ Refuses(i) \/ Finishes(i)

LEMMA WorkerExitsIs ==
  ASSUME TypeOK, NEW i \in Runs, NEW place, WorkerExits(i, place), cl' = cl
  PROVE  Exited(i, place)
<1>1. wk[i] \in WorkerType /\ wk \in [Runs -> WorkerType]
  BY DEF TypeOK
<1> QED BY <1>1 DEF WorkerExits, NewWorker, Exited, OtherWorkers, WorkerType

LEMMA WorkerStepsCase ==
  ASSUME TypeOK, WorkerInv, NEW i \in Runs,
         WorkerSide(i)
  PROVE  WorkerSteps(i) /\ prog' = prog
<1> USE DEF otherVars, WorkerSteps
<1>0. wk[i] \in WorkerType /\ wk \in [Runs -> WorkerType]
  BY DEF TypeOK
<1>1. CASE WorkerOpen(i)
  <2>1. CASE WorkerExits(i, "dead")
    BY <1>1, <2>1, WorkerExitsIs DEF WorkerOpen, Exits, WorkerLive
  <2>2. CASE ~WorkerExits(i, "dead")
    <3> DEFINE k == IF SysV THEN cl[i].q ELSE names[cl[i].pid]
               a == IF cl[i].size = Missing THEN "refuse" ELSE "send"
               b == Daemon /\ cl[i].size # Missing
    <3>1. wk' = [wk EXCEPT ![i] = [wk[i] EXCEPT !.q = k, !.at = a, !.alarm = b]]
      BY <1>1, <2>2 DEF WorkerOpen
    <3>2. b => Daemon
      OBVIOUS
    <3>3. /\ OtherWorkers(i) /\ wk'[i].at = a /\ wk'[i].q = k /\ wk'[i].from = wk[i].from
          /\ wk'[i].timedOut = wk[i].timedOut /\ wk'[i].alarm = b
          /\ wk'[i].broken = wk[i].broken
      <4> HIDE DEF k, a, b
      <4> QED BY <1>0, <1>1, <3>1 DEF WorkerOpen, OtherWorkers, WorkerType
    <3>4. Opens(i)
      BY <1>1, <2>2, <3>2, <3>3 DEF WorkerOpen, Opens
    <3> QED BY <1>1, <3>4 DEF WorkerOpen
  <2> QED BY <2>1, <2>2
<1>2. CASE WorkerRefuse(i)
  <2>1. Exited(i, "dead")
    BY <1>2, WorkerExitsIs DEF WorkerRefuse
  <2>2. Refuses(i) \/ Exits(i)
    BY <1>2, <2>1 DEF WorkerRefuse, Refuses, Exits, Put, Puts, WorkerLive
  <2> QED BY <1>2, <2>2 DEF WorkerRefuse
<1>3. CASE WorkerEnd(i)
  <2>1. Exited(i, "dead")
    BY <1>3, WorkerExitsIs DEF WorkerEnd
  <2>2. Finishes(i) \/ Exits(i)
    BY <1>3, <2>1 DEF WorkerEnd, Finishes, Exits, Put, Puts, WorkerLive
  <2> QED BY <1>3, <2>2 DEF WorkerEnd
<1>4. CASE WorkerSend(i)
  <2> DEFINE n == wk[i].from + Block(cl[i].size, wk[i].from)
  <2>1. wk' = [wk EXCEPT ![i] = [wk[i] EXCEPT !.from = n]]
    BY <1>4 DEF WorkerSend
  <2>2. /\ OtherWorkers(i) /\ wk'[i].from = n /\ wk'[i].at = wk[i].at /\ wk'[i].q = wk[i].q
        /\ wk'[i].timedOut = wk[i].timedOut /\ wk'[i].alarm = wk[i].alarm
        /\ wk'[i].broken = wk[i].broken
    <3> HIDE DEF n
    <3> QED BY <1>0, <1>4, <2>1 DEF WorkerSend, OtherWorkers, WorkerType
  <2>3. Sends(i)
    BY <1>4, <2>2 DEF WorkerSend, Sends, Put, Puts
  <2> QED BY <1>4, <2>3 DEF WorkerSend
<1>5. CASE WorkerSendFails(i)
  <2>1. wk' = [wk EXCEPT ![i] = [wk[i] EXCEPT !.at = "stop"]]
    BY <1>5 DEF WorkerSendFails
  <2>2. Keeps(i, "stop")
    BY <1>0, <1>5, <2>1 DEF WorkerSendFails, Keeps, Becomes, OtherWorkers, WorkerType
  <2> QED BY <1>5, <2>2 DEF WorkerSendFails, QuietWorker
<1>6. CASE WorkerAlarm(i)
  <2>1. CASE wk[i].at = "send" /\ wk' = [wk EXCEPT ![i].at = "stop", ![i].alarm = FALSE, ![i].timedOut = TRUE]
    <3>1. wk' = [wk EXCEPT ![i] = [wk[i] EXCEPT !.at = "stop", !.alarm = FALSE, !.timedOut = TRUE]]
      BY <2>1
    <3>2. Becomes(i, "stop") /\ wk'[i].timedOut = TRUE
      BY <1>0, <1>6, <3>1 DEF WorkerAlarm, Becomes, OtherWorkers, WorkerType
    <3> QED BY <1>6, <2>1, <3>2 DEF WorkerAlarm, QuietWorker
  <2>2. CASE wk' = [wk EXCEPT ![i].alarm = FALSE]
    <3>1. wk' = [wk EXCEPT ![i] = [wk[i] EXCEPT !.alarm = FALSE]]
      BY <2>2
    <3>2. Keeps(i, wk[i].at)
      BY <1>0, <1>6, <3>1 DEF WorkerAlarm, Keeps, Becomes, OtherWorkers, WorkerType
    <3>3. wk[i].at # "none"
      BY <1>6 DEF WorkerAlarm, WorkerInv, WorkerLive
    <3> QED BY <1>6, <3>2, <3>3 DEF WorkerAlarm, QuietWorker
  <2> QED BY <1>6, <2>1, <2>2 DEF WorkerAlarm
<1>7. CASE WorkerStop(i)
  <2>1. wk' = [wk EXCEPT ![i] = [wk[i] EXCEPT !.at = "end", !.alarm = FALSE]]
    BY <1>7 DEF WorkerStop
  <2>2. Keeps(i, "end") /\ wk[i].timedOut \in BOOLEAN
    BY <1>0, <1>7, <2>1 DEF WorkerStop, Keeps, Becomes, OtherWorkers, WorkerType
  <2>3. (Daemon => SysV) /\ (wk[i].timedOut => Daemon)
    BY DEF Daemon, SysV, WorkerInv
  <2> QED BY <1>7, <2>2, <2>3 DEF WorkerStop, QuietWorker, Removes
<1>8. CASE WorkerUnlink(i) \/ KillWorker(i)
  BY <1>8, WorkerExitsIs DEF WorkerUnlink, KillWorker, Exits, WorkerLive
<1>9. CASE TermWorker(i)
  <2>1. CASE WorkerExits(i, "killed")
    BY <1>9, <2>1, WorkerExitsIs DEF TermWorker, Exits
  <2>2. CASE wk' = [wk EXCEPT ![i].at = "unlink"]
    <3>1. wk' = [wk EXCEPT ![i] = [wk[i] EXCEPT !.at = "unlink"]]
      BY <2>2
    <3>2. Keeps(i, "unlink")
      BY <1>0, <1>9, <3>1 DEF TermWorker, Keeps, Becomes, OtherWorkers, WorkerType
    <3> QED BY <1>9, <3>2 DEF TermWorker, QuietWorker
  <2> QED BY <1>9, <2>1, <2>2 DEF TermWorker
<1>10. CASE WorkerReadFails(i)
  <2>1. wk' = [wk EXCEPT ![i] = [wk[i] EXCEPT !.at = "stop", !.stale = FALSE, !.broken = TRUE]]
    BY <1>10 DEF WorkerReadFails
  <2>2. Keeps(i, "stop") /\ wk'[i].broken
    BY <1>0, <1>10, <2>1 DEF WorkerReadFails, Keeps, Becomes, OtherWorkers, WorkerType
  <2> QED BY <1>10, <2>2 DEF WorkerReadFails, QuietWorker
<1> QED BY <1>1, <1>2, <1>3, <1>4, <1>5, <1>6, <1>7, <1>8, <1>9, <1>10 DEF WorkerSide, Worker

LEMMA StepsCase ==
  ASSUME TypeOK, RequestInv, ClientInv, WorkerInv, [Next]_vars
  PROVE  /\ prog' = prog
         /\ \/ UNCHANGED <<cl, wk, queVars>>
            \/ \E i \in Runs : ClientSteps(i) \/ WorkerSteps(i)
<1>1. CASE UNCHANGED vars
  BY <1>1 DEF vars, srvVars
<1>2. CASE ServerFork
  <2> DEFINE i == srv.cur
  <2>1. /\ i \in Runs /\ Asked(i) /\ wk[i].at = "none" /\ wk[i] \in WorkerType /\ wk \in [Runs -> WorkerType]
        /\ cl' = cl
    BY <1>2 DEF ServerFork, RequestInv, TypeOK
  <2>2. wk' = [wk EXCEPT ![i] = [wk[i] EXCEPT !.at = "open", !.sid = srv.sid, !.stale = srv.eintr]]
    BY <1>2 DEF ServerFork
  <2> HIDE DEF i
  <2>3. Keeps(i, "open")
    BY <2>1, <2>2 DEF Keeps, Becomes, OtherWorkers, WorkerType
  <2>4. QuietWorker(i)
    BY <1>2, <2>1, <2>3 DEF ServerFork, QuietWorker
  <2> QED BY <1>2, <2>1, <2>4 DEF ServerFork, WorkerSteps
<1>3. CASE (Server /\ ~ServerFork) \/ ServerForkFails \/ KillServer \/ TermServer
  BY <1>3 DEF Server, ServerStart, ServerPublish, ServerReceive, ServerUnlink, ServerQueueGone,
     ServerForkFails, KillServer, TermServer
<1>4. ASSUME NEW i \in Runs, ClientStart(i) \/ Client(i) \/ ClientAlarm(i) \/ KillClient(i)
      PROVE  ClientSteps(i) /\ prog' = prog
  BY <1>4, ClientStepsCase
<1>5. ASSUME NEW i \in Runs, WorkerSide(i)
      PROVE  WorkerSteps(i) /\ prog' = prog
  BY <1>5, WorkerStepsCase
<1> QED BY <1>1, <1>2, <1>3, <1>4, <1>5 DEF Next, WorkerSide

----------------------------------------------------------------------------
(* The requests under way.                                                 *)

LEMMA InitInv ==
  Init => RequestInv /\ ClientInv /\ WorkerInv /\ SysVInv /\ PosixInv /\ GotInv /\ SentInv
<1> SUFFICES ASSUME Init
             PROVE  RequestInv /\ ClientInv /\ WorkerInv /\ SysVInv /\ PosixInv /\ GotInv /\ SentInv
  OBVIOUS
<1>1. /\ \A i \in Runs : cl[i] = NewClient /\ wk[i] = NewWorker /\ q[i] = <<>>
      /\ requests = <<>> /\ Len(requests) = 0 /\ srv.at = "off" /\ exists = {}
      /\ \A p \in Pids \cup {0} : names[p] = NoQueue
  BY DEF Init
<1>2. /\ NewClient.at = "none" /\ NewClient.q = NoQueue /\ NewClient.got = <<>> /\ NewClient.tot = 0
      /\ NewClient.alarm = FALSE /\ NewClient.rung = FALSE /\ NewClient.size = 0 /\ NewClient.pid = 0
  BY DEF NewClient
<1>3. /\ NewWorker.at = "none" /\ NewWorker.q = NoQueue /\ NewWorker.from = 0
      /\ NewWorker.alarm = FALSE /\ NewWorker.timedOut = FALSE
  BY DEF NewWorker
<1>4. RequestInv
  BY <1>1, <1>3 DEF RequestInv
<1>5. ClientInv /\ WorkerInv
  BY <1>1, <1>2, <1>3 DEF ClientInv, WorkerInv, HasQueue, Early, Serving
<1>6. SysVInv
  BY <1>1, <1>2, <1>3 DEF SysVInv, HasQueue
<1>7. PosixInv
  BY <1>1, <1>2, <1>3 DEF PosixInv, OwnQueue, OwnPid, OwnName, HasQueue, Started
<1>8. GotInv /\ SentInv
  <2>1. 0 # Missing /\ Blocks(0, 0, 0)
    BY Constants DEF Blocks
  <2>2. \A i \in Runs : /\ cl[i].at = "none" /\ cl[i].got = <<>> /\ cl[i].tot = 0 /\ cl[i].size = 0
                        /\ Len(cl[i].got) = 0
    BY <1>1, <1>2, EmptyFacts
  <2>3. GotInv
    BY <2>1, <2>2 DEF GotInv, GotOwn
  <2>4. SentInv
    BY <2>2 DEF SentInv, HasQueue
  <2> QED BY <2>3, <2>4
<1> QED BY <1>4, <1>5, <1>6, <1>7, <1>8

LEMMA AskedStays ==
  ASSUME NEW i \in Runs, ClientSteps(i)
  PROVE  /\ \A j \in Runs : Asked(j) => Asked(j)'
         /\ wk' = wk
BY DEF ClientSteps, Begins, QuietClient, Makes, Leaves, TakesData, TakesFailure, TakesEnd, Reads,
   Moves, Others, Same, Asked, Early, HasQueue, Live, Ended

LEMMA WorkersStay ==
  ASSUME RequestInv, NEW i \in Runs, WorkerSteps(i), wk[i].at # "none"
  PROVE  /\ cl' = cl /\ wk'[i].at # "none"
         /\ \A j \in Runs \ {i} : wk'[j] = wk[j]
BY DEF WorkerSteps, QuietWorker, Removes, Exits, Opens, Sends, Refuses, Finishes, Exited,
   OtherWorkers, Becomes, Keeps, WorkerLive

LEMMA RequestNext ==
  ASSUME TypeOK, RequestInv, ClientInv, WorkerInv, [Next]_vars
  PROVE  RequestInv'
<1> DEFINE Workers(i) == /\ wk[i].at = "none" => wk[i] = NewWorker
                         /\ wk[i].at # "none" => Asked(i)
           Request(a) == /\ Asked(requests[a]) /\ wk[requests[a]].at = "none"
                         /\ \A b \in 1 .. Len(requests) : requests[b] = requests[a] => b = a
                         /\ srv.at = "fork" => requests[a] # srv.cur
           Current == srv.at = "fork" => srv.cur \in Runs /\ Asked(srv.cur) /\ wk[srv.cur].at = "none"
<1>0. /\ \A i \in Runs : Workers(i)
      /\ \A a \in 1 .. Len(requests) : Request(a)
      /\ Current
      /\ requests \in Seq(Runs) /\ Len(requests) \in Nat
      /\ \A a \in 1 .. Len(requests) : requests[a] \in Runs
  <2>1. requests \in Seq(Runs)
    BY DEF TypeOK
  <2> QED BY <2>1, ElementFacts DEF RequestInv
<1>1. SUFFICES /\ \A i \in Runs : Workers(i)'
               /\ \A a \in 1 .. Len(requests') : Request(a)'
               /\ Current'
  BY DEF RequestInv
<1>2. CASE UNCHANGED vars
  BY <1>0, <1>2 DEF vars, srvVars, queVars, Asked
<1>3. CASE ServerReceive
  <2>1. /\ cl' = cl /\ wk' = wk /\ srv'.at = "fork" /\ srv'.cur = Head(requests) /\ requests' = Tail(requests)
        /\ requests # <<>>
    BY <1>3 DEF ServerReceive, TypeOK
  <2>2. /\ Len(requests) \in Nat \ {0} /\ Head(requests) = requests[1] /\ requests[1] \in Runs
        /\ Len(requests') = Len(requests) - 1
        /\ \A a \in 1 .. Len(requests) - 1 : requests'[a] = requests[a + 1]
    BY <1>0, <2>1, TailFacts
  <2>3. \A i : Asked(i)' = Asked(i)
    BY <2>1 DEF Asked
  <2>4. ASSUME NEW a \in 1 .. Len(requests') PROVE Request(a)'
    <3>1. a + 1 \in 1 .. Len(requests) /\ requests'[a] = requests[a + 1] /\ a + 1 # 1 /\ 1 \in 1 .. Len(requests)
      BY <2>2
    <3>2. Request(a + 1) /\ requests[1] # requests[a + 1]
      BY <1>0, <3>1
    <3>3. \A b \in 1 .. Len(requests') : requests'[b] = requests'[a] => b = a
      <4>1. ASSUME NEW b \in 1 .. Len(requests'), requests'[b] = requests'[a] PROVE b = a
        <5>1. b + 1 \in 1 .. Len(requests) /\ requests'[b] = requests[b + 1]
          BY <2>2
        <5>2. b + 1 = a + 1
          BY <3>1, <3>2, <4>1, <5>1
        <5> QED BY <2>2, <5>2
      <4> QED BY <4>1
    <3> QED BY <2>1, <2>2, <2>3, <3>1, <3>2, <3>3
  <2>5. Current'
    <3>1. Request(1)
      BY <1>0, <2>2
    <3> QED BY <2>1, <2>2, <2>3, <3>1
  <2> QED BY <1>0, <2>1, <2>3, <2>4, <2>5
<1>4. CASE ServerFork
  <2>1. /\ cl' = cl /\ requests' = requests /\ srv'.at = "receive" /\ srv.at = "fork"
        /\ srv.cur \in Runs /\ wk'[srv.cur].at = "open"
        /\ \A j \in Runs \ {srv.cur} : wk'[j] = wk[j]
    BY <1>0, <1>4 DEF ServerFork, TypeOK, WorkerType
  <2>2. \A i : Asked(i)' = Asked(i)
    BY <2>1 DEF Asked
  <2> QED BY <1>0, <2>1, <2>2
<1>5. CASE ServerStart \/ ServerPublish \/ ServerUnlink \/ ServerQueueGone \/ ServerForkFails \/ KillServer \/ TermServer
  <2>1. cl' = cl /\ wk' = wk /\ (requests' = requests \/ requests' = <<>>)
    BY <1>5 DEF ServerStart, ServerPublish, ServerUnlink, ServerQueueGone, ServerForkFails,
       KillServer, TermServer, RemoveServerQueue, HandlerRemoves
  <2>2. srv'.at # "fork"
    <3>1. srv \in ServerType
      BY DEF TypeOK, ServerType
    <3> QED BY <1>5, <3>1 DEF ServerStart, ServerPublish, ServerUnlink, ServerQueueGone,
             ServerForkFails, KillServer, TermServer, ServerType
  <2>3. \A i : Asked(i)' = Asked(i)
    BY <2>1 DEF Asked
  <2>4. CASE requests' = requests
    BY <1>0, <2>1, <2>2, <2>3, <2>4
  <2>5. CASE requests' = <<>>
    BY <1>0, <2>1, <2>2, <2>3, <2>5, EmptyFacts
  <2> QED BY <2>1, <2>4, <2>5
<1>6. ASSUME NEW i \in Runs, ClientSend(i)
      PROVE  /\ \A j \in Runs : Workers(j)'
             /\ \A a \in 1 .. Len(requests') : Request(a)'
             /\ Current'
  <2>1. /\ wk' = wk /\ srv' = srv /\ \A j \in Runs : Asked(j) => Asked(j)'
    BY <1>6, ClientStepsCase, AskedStays DEF Client
  <2>2. ~Asked(i) /\ Asked(i)' /\ wk[i].at = "none"
    <3>1. cl[i].at = "send" /\ cl'[i].at = "first" /\ cl'[i].q = cl[i].q /\ cl[i].q # NoQueue
      BY <1>6 DEF ClientSend, TypeOK, ClientType, ClientInv, HasQueue
    <3> QED BY <1>0, <3>1 DEF Asked, Early
  <2>3. CASE requests' = requests
    BY <1>0, <2>1, <2>3
  <2>4. CASE requests' = Append(requests, i)
    <3>1. /\ Len(requests') = Len(requests) + 1 /\ requests'[Len(requests) + 1] = i
          /\ \A a \in 1 .. Len(requests) : requests'[a] = requests[a] /\ requests[a] # i
      BY <1>0, <2>2, <2>4, AppendFacts
    <3>2. \A a \in 1 .. Len(requests') : a \in 1 .. Len(requests) \/ a = Len(requests) + 1
      BY <1>0, <3>1
    <3>3. ASSUME NEW a \in 1 .. Len(requests) PROVE Request(a)'
      BY <1>0, <2>1, <3>1, <3>2
    <3>4. ASSUME NEW a \in 1 .. Len(requests'), a = Len(requests) + 1 PROVE Request(a)'
      <4>1. \A b \in 1 .. Len(requests') : requests'[b] = requests'[a] => b = a
        BY <3>1, <3>2, <3>4
      <4>2. srv'.at = "fork" => srv'.cur # i
        BY <1>0, <2>1, <2>2
      <4> QED BY <2>1, <2>2, <3>1, <3>4, <4>1, <4>2
    <3>5. \A a \in 1 .. Len(requests') : Request(a)'
      <4> HIDE DEF Request
      <4> QED BY <3>2, <3>3, <3>4
    <3>6. Current' /\ \A j \in Runs : Workers(j)'
      BY <1>0, <2>1
    <3> QED BY <3>5, <3>6
  <2> QED BY <1>6, <2>3, <2>4 DEF ClientSend
<1>7. ASSUME NEW i \in Runs, (ClientStart(i) \/ Client(i) \/ ClientAlarm(i) \/ KillClient(i)), ~ClientSend(i)
      PROVE  /\ \A j \in Runs : Workers(j)'
             /\ \A a \in 1 .. Len(requests') : Request(a)'
             /\ Current'
  <2>1. /\ wk' = wk /\ srv' = srv /\ \A j \in Runs : Asked(j) => Asked(j)'
    BY <1>7, ClientStepsCase, AskedStays
  <2>2. requests' = requests
    BY <1>7 DEF Client, ClientStart, ClientFind, ClientReadId, ClientMake, ClientSendFails, ClientData,
       ClientRefused, ClientFinish, ClientDenied, ClientAlarm, KillClient, srvVars
  <2> QED BY <1>0, <2>1, <2>2
<1>8. ASSUME NEW i \in Runs, WorkerSide(i)
      PROVE  /\ \A j \in Runs : Workers(j)'
             /\ \A a \in 1 .. Len(requests') : Request(a)'
             /\ Current'
  <2>1. wk[i].at # "none"
    BY <1>8 DEF WorkerSide, Worker, WorkerAlarm, WorkerReadFails, KillWorker, TermWorker, WorkerOpen, WorkerRefuse, WorkerSend,
       WorkerSendFails, WorkerStop, WorkerEnd, WorkerUnlink, LoopEnded, WorkerInv, WorkerLive
  <2>2. cl' = cl /\ wk'[i].at # "none" /\ \A j \in Runs \ {i} : wk'[j] = wk[j]
    BY <1>8, <2>1, WorkerStepsCase, WorkersStay
  <2>3. \A j : Asked(j)' = Asked(j)
    BY <2>2 DEF Asked
  <2>4. srv'.at = srv.at /\ srv'.cur = srv.cur
    <3>1. srv' = srv \/ srv' = [srv EXCEPT !.eintr = TRUE]
      BY <1>8 DEF WorkerSide, Worker, WorkerAlarm, WorkerReadFails, KillWorker, TermWorker, WorkerOpen, WorkerRefuse, WorkerSend,
         WorkerSendFails, WorkerStop, WorkerEnd, WorkerUnlink, WorkerExits, Sigchld, otherVars, srvVars
    <3> QED BY <3>1 DEF TypeOK
  <2>5. requests' = requests \/ requests' = <<>>
    BY <1>8 DEF WorkerSide, Worker, WorkerAlarm, WorkerReadFails, KillWorker, TermWorker, WorkerOpen, WorkerRefuse, WorkerSend,
       WorkerSendFails, WorkerStop, WorkerEnd, WorkerUnlink, HandlerRemoves, otherVars, srvVars
  <2>6. \A a \in 1 .. Len(requests) : requests[a] # i
    BY <1>0, <2>1
  <2>7. srv.at = "fork" => srv.cur # i
    BY <1>0, <2>1
  <2>8. \A j \in Runs : Workers(j)'
    BY <1>0, <2>1, <2>2, <2>3
  <2>9. Current'
    BY <1>0, <2>2, <2>3, <2>4, <2>7
  <2>10. ASSUME NEW a \in 1 .. Len(requests') PROVE Request(a)'
    <3>1. requests' = requests
      BY <2>5, <2>10, EmptyFacts
    <3>2. a \in 1 .. Len(requests) /\ Request(a) /\ requests[a] \in Runs \ {i}
      BY <1>0, <2>6, <3>1
    <3> QED BY <2>2, <2>3, <2>4, <3>1, <3>2
  <2> QED BY <2>8, <2>9, <2>10
<1> QED BY <1>2, <1>3, <1>4, <1>5, <1>6, <1>7, <1>8 DEF Next, Server, WorkerSide

----------------------------------------------------------------------------
(* The clients' and the workers' own invariants.                           *)

\* Only the guarded client sets alarms, and only around its calls.
LEMMA AlarmNext ==
  ASSUME TypeOK, ClientInv, NEW i \in Runs,
         ClientStart(i) \/ Client(i) \/ ClientAlarm(i) \/ KillClient(i)
  PROVE  /\ cl'[i].alarm => cl'[i].at \in {"send", "first", "receive"}
         /\ cl'[i].alarm \/ cl'[i].rung => SysV
<1>0. /\ cl[i] \in ClientType /\ cl \in [Runs -> ClientType]
      /\ cl[i].alarm => HasQueue(i)
      /\ cl[i].alarm \/ cl[i].rung => SysV
  BY DEF TypeOK, ClientInv
<1>1. CASE \E a : ClientTo(i, a)
  BY <1>0, <1>1 DEF ClientTo, ClientType
<1>2. CASE ClientStart(i)
  <2>1. PICK p, n : cl' = [cl EXCEPT ![i].at = "find", ![i].pid = p, ![i].size = n]
    BY <1>2 DEF ClientStart
  <2> QED BY <1>0, <1>2, <2>1 DEF ClientStart, ClientType, HasQueue
<1>3. CASE (ClientFind(i) \/ ClientReadId(i)) /\ ~\E a : ClientTo(i, a)
  <2>1. PICK k : cl' = [cl EXCEPT ![i].at = "make", ![i].sid = k]
    BY <1>3 DEF ClientFind, ClientReadId
  <2> QED BY <1>0, <1>3, <2>1 DEF ClientFind, ClientReadId, ClientType, HasQueue
<1>4. CASE ClientMake(i)
  <2>1. PICK k : cl' = [cl EXCEPT ![i] = [cl[i] EXCEPT !.at = "send", !.q = k, !.alarm = prog = "guarded"]]
    BY ZenonT(60), <1>4 DEF ClientMake
  <2>2. cl'[i].at = "send" /\ cl'[i].alarm = (prog = "guarded") /\ cl'[i].rung = cl[i].rung
    BY <1>0, <2>1 DEF ClientType
  <2> QED BY <1>0, <2>2 DEF SysV
<1>5. CASE ClientSend(i)
  <2>1. cl' = [cl EXCEPT ![i] = [cl[i] EXCEPT !.at = "first", !.sid = NoQueue, !.alarm = prog = "guarded"]]
    BY <1>5 DEF ClientSend
  <2>2. cl'[i].at = "first" /\ cl'[i].alarm = (prog = "guarded") /\ cl'[i].rung = cl[i].rung
    BY <1>0, <2>1 DEF ClientType
  <2> QED BY <1>0, <2>2 DEF SysV
<1>6. CASE ClientData(i) \/ ClientFinish(i)
  <2> DEFINE m == Head(q[cl[i].q])
             g == IF m.type = "data" THEN Append(cl[i].got, m) ELSE cl[i].got
             t == cl[i].tot + Counted(m, cl[i].at = "first")
  <2>1. \/ cl' = [cl EXCEPT ![i] = [cl[i] EXCEPT !.at = "receive", !.alarm = FALSE, !.rung = FALSE, !.tot = t, !.got = g]]
        \/ cl' = [cl EXCEPT ![i] = [cl[i] EXCEPT !.at = "file", !.alarm = FALSE, !.rung = FALSE, !.tot = t, !.got = g]]
    <3>1. ASSUME ClientData(i)
          PROVE  cl' = [cl EXCEPT ![i] = [cl[i] EXCEPT !.at = "receive", !.alarm = FALSE, !.rung = FALSE, !.tot = t, !.got = g]]
      BY <3>1, ZenonT(40) DEF ClientData, ClientTakes
    <3>2. ASSUME ClientFinish(i)
          PROVE  cl' = [cl EXCEPT ![i] = [cl[i] EXCEPT !.at = "file", !.alarm = FALSE, !.rung = FALSE, !.tot = t, !.got = g]]
      BY <3>2, ZenonT(40) DEF ClientFinish, ClientTakes
    <3> QED BY <1>6, <3>1, <3>2
  <2> HIDE DEF g, t
  <2> QED BY ZenonT(60), <1>0, <2>1 DEF ClientType
<1>7. CASE ClientAlarm(i) /\ ~\E a : ClientTo(i, a)
  <2>1. cl' = [cl EXCEPT ![i].alarm = FALSE, ![i].rung = TRUE] /\ cl[i].alarm
    BY <1>7 DEF ClientAlarm
  <2> QED BY <1>0, <2>1 DEF ClientType
<1> QED BY <1>1, <1>2, <1>3, <1>4, <1>5, <1>6, <1>7 DEF Client, ClientSendFails, ClientRefused,
        ClientDenied, KillClient

LEMMA ClientNext ==
  ASSUME TypeOK, RequestInv, ClientInv, WorkerInv, [Next]_vars
  PROVE  ClientInv'
<1>0. prog' = prog /\ (SysV' <=> SysV)
  BY StepsCase DEF SysV
<1>1. CASE cl' = cl
  BY <1>0, <1>1 DEF ClientInv, HasQueue
<1>2. ASSUME NEW i \in Runs, ClientStart(i) \/ Client(i) \/ ClientAlarm(i) \/ KillClient(i)
      PROVE  ClientInv'
  <2>1. ClientSteps(i)
    BY <1>2, ClientStepsCase
  <2>2. \A j \in Runs \ {i} : cl'[j] = cl[j]
    BY <2>1 DEF ClientSteps, Begins, QuietClient, Makes, Leaves, TakesData, TakesFailure, TakesEnd, Reads, Moves, Others
  <2>3. /\ cl[i].at # "none" => cl'[i].at # "none"
        /\ cl'[i].at # "none" => \A j \in 1 .. i - 1 : cl[j].at # "none"
    BY <2>1 DEF ClientSteps, Begins, QuietClient, Makes, Leaves, TakesData, TakesFailure, TakesEnd, Reads,
       Moves, ClientInv, Live, HasQueue
  <2>4. /\ cl'[i].at \in {"none", "find", "make"} => cl'[i].q = NoQueue
        /\ cl'[i].at \in Early => cl'[i].got = <<>> /\ cl'[i].tot = 0
    BY <2>1 DEF ClientSteps, Begins, QuietClient, Makes, Leaves, TakesData, TakesFailure, TakesEnd, Reads,
       Moves, Same, ClientInv, Early
  <2>5. cl'[i].at \in {"send", "first", "receive"} => cl'[i].q # NoQueue
    <3>1. CASE Makes(i)
      <4>1. i # NoQueue
        BY Constants
      <4> QED BY <3>1, <4>1 DEF Makes
    <3> QED BY <2>1, <3>1 DEF ClientSteps, Begins, QuietClient, Leaves, TakesData, TakesFailure, TakesEnd, Reads,
            Moves, Same, ClientInv, HasQueue
  <2>6. cl'[i].at \in {"timeout", "denied"} => SysV
    BY <2>1 DEF ClientSteps, Begins, QuietClient, Makes, Leaves, TakesData, TakesFailure, TakesEnd, Reads,
       Moves, ClientInv, Gone
  <2>7. /\ cl'[i].alarm => cl'[i].at \in {"send", "first", "receive"}
        /\ cl'[i].alarm \/ cl'[i].rung => SysV
    BY <1>2, AlarmNext
  <2>8. \A j \in Runs : \A w \in 1 .. j - 1 : cl[w].at # "none" => cl'[w].at # "none"
    <3>1. \A j \in Runs : 1 .. j - 1 \subseteq Runs
      BY Constants DEF Runs
    <3> QED BY <2>2, <2>3, <3>1
  <2> QED BY <1>0, <2>2, <2>3, <2>4, <2>5, <2>6, <2>7, <2>8 DEF ClientInv, HasQueue
<1>3. ASSUME NEW i \in Runs, WorkerSide(i)
      PROVE  cl' = cl
  BY <1>3 DEF WorkerSide, Worker, WorkerAlarm, WorkerReadFails, KillWorker, TermWorker, WorkerOpen, WorkerRefuse, WorkerSend,
         WorkerSendFails, WorkerStop, WorkerEnd, WorkerUnlink, otherVars
<1>4. CASE Server \/ ServerForkFails \/ KillServer \/ TermServer
  <2>1. cl' = cl
    BY <1>4 DEF Server, ServerStart, ServerPublish, ServerReceive, ServerUnlink, ServerFork, ServerQueueGone,
       ServerForkFails, KillServer, TermServer
  <2> QED BY <1>1, <2>1
<1> QED BY <1>1, <1>2, <1>3, <1>4 DEF Next, vars, WorkerSide

LEMMA SizeFacts ==
  ASSUME TypeOK, NEW i \in Runs
  PROVE  cl[i].size \in Nat \cup {Missing} /\ wk[i].from \in Nat
<1>1. cl[i].size \in Sizes \cup {0, Missing} /\ wk[i].from \in Nat
  BY DEF TypeOK, ClientType, WorkerType
<1>2. Sizes \subseteq Nat /\ 0 \in Nat
  BY Constants
<1> QED BY <1>1, <1>2, Zenon

LEMMA WorkerNext ==
  ASSUME TypeOK, RequestInv, ClientInv, WorkerInv, SysVInv, [Next]_vars
  PROVE  WorkerInv'
<1>0. prog' = prog /\ (SysV' <=> SysV) /\ (Daemon' <=> Daemon) /\ (Daemon => SysV)
  BY StepsCase DEF SysV, Daemon
<1>1. CASE UNCHANGED <<cl, wk, queVars>>
  BY <1>0, <1>1 DEF WorkerInv, Gone, queVars, WorkerLive
<1>2. ASSUME NEW i \in Runs, ClientSteps(i) PROVE WorkerInv'
  <2>1. wk' = wk /\ (wk[i].at # "none" => cl'[i].size = cl[i].size) /\ \A j \in Runs \ {i} : cl'[j] = cl[j]
    BY <1>2 DEF ClientSteps, Begins, QuietClient, Makes, Leaves, TakesData, TakesFailure, TakesEnd, Reads,
       Moves, Others, Same, RequestInv, Asked, Early
  <2>2. ASSUME NEW j \in Runs, wk[j].at \in Serving, Gone(wk[j].q) PROVE Gone(wk[j].q)'
    <3>1. CASE Makes(i) /\ SysV
      <4>1. wk[i].at = "none" /\ wk[j].q = j
        BY <2>2, <3>1 DEF Makes, RequestInv, Asked, Early, SysVInv, WorkerInv
      <4>2. wk[j].q # i
        BY <2>2, <4>1 DEF Serving
      <4> QED BY <1>0, <2>1, <2>2, <3>1, <4>2 DEF Makes, Gone
    <3>2. CASE ~(Makes(i) /\ SysV)
      <4>1. SysV => exists' \subseteq exists
        BY <1>2, <3>2 DEF ClientSteps, Begins, QuietClient, Makes, Leaves, TakesData, TakesFailure, TakesEnd,
           ReadsOn, RemoveQueue, queVars
      <4> QED BY <1>0, <2>1, <2>2, <4>1 DEF Gone
    <3> QED BY <3>1, <3>2
  <2>3. \A j \in Runs : wk'[j] = wk[j] /\ (wk[j].at # "none" => cl'[j].size = cl[j].size)
    BY <2>1
  <2> QED BY <1>0, <2>1, <2>2, <2>3 DEF WorkerInv, Serving, WorkerLive
<1>3. ASSUME NEW i \in Runs, WorkerSteps(i) PROVE WorkerInv'
  <2>1. cl' = cl /\ \A j \in Runs \ {i} : wk'[j] = wk[j]
    BY <1>3 DEF WorkerSteps, QuietWorker, Removes, Exits, Opens, Sends, Refuses, Finishes, Exited,
       OtherWorkers, Becomes, Keeps
  <2>2. \A k : Gone(k) => Gone(k)'
    BY <1>0, <1>3 DEF WorkerSteps, QuietWorker, Removes, Exits, Opens, Sends, Refuses, Finishes, RemoveQueue,
       Puts, queVars, Gone
  <2>3. \A j \in Runs : wk[j].timedOut \in BOOLEAN /\ wk[j].alarm \in BOOLEAN
    BY DEF TypeOK, WorkerType
  <2> DEFINE P == /\ wk[i].at \in Serving => wk[i].q # NoQueue
                  /\ wk[i].alarm \/ wk[i].timedOut => Daemon
                  /\ wk[i].alarm => WorkerLive(i)
                  /\ wk[i].at \in {"none", "open", "refuse"} => wk[i].from = 0
                  /\ wk[i].at = "refuse" => cl[i].size = Missing
                  /\ wk[i].at \in {"send", "stop", "end"} => cl[i].size # Missing /\ wk[i].from <= cl[i].size
                  /\ wk[i].at \in {"none", "open", "refuse", "send"} => ~wk[i].timedOut
                  /\ wk[i].at = "stop" => Gone(wk[i].q) \/ wk[i].timedOut \/ wk[i].broken
                  /\ wk[i].at = "end" => Gone(wk[i].q) \/ wk[i].from = cl[i].size \/ wk[i].broken
  <2>4. P /\ cl[i].size \in Nat \cup {Missing} /\ wk[i].from \in Nat
    BY SizeFacts DEF WorkerInv
  <2>5. ASSUME QuietWorker(i) PROVE P'
    BY <1>0, <2>1, <2>2, <2>4, <2>5 DEF QuietWorker, Keeps, Becomes, Serving, WorkerLive, LoopEnded, AtEof
  <2>6. ASSUME Removes(i) PROVE P'
    <3>1. Gone(wk[i].q)'
      BY <1>0, <2>6 DEF Removes, RemoveQueue, Gone, Keeps, Becomes
    <3> QED BY <1>0, <2>1, <2>4, <2>6, <3>1 DEF Removes, Keeps, Becomes, Serving, WorkerLive, LoopEnded, AtEof
  <2>7. ASSUME Exits(i) \/ Refuses(i) \/ Finishes(i) PROVE P'
    BY <1>0, <2>1, <2>4, <2>7 DEF Exits, Refuses, Finishes, Exited, Serving, WorkerLive
  <2>8. ASSUME Opens(i) PROVE P'
    BY <1>0, <2>1, <2>4, <2>8, Constants DEF Opens, Serving, WorkerLive, RequestInv, Asked
  <2>9. ASSUME Sends(i) PROVE P'
    <3>1. /\ cl[i].size \in Nat /\ wk[i].from <= cl[i].size
      BY <2>4, <2>9 DEF Sends
    <3>2. wk[i].from + Block(cl[i].size, wk[i].from) <= cl[i].size
      <4>1. \A n, m \in Nat : m <= n => m + Block(n, m) <= n
        BY BlockFacts
      <4> QED BY <2>4, <3>1, <4>1
    <3> QED BY <1>0, <2>1, <2>4, <2>9, <3>2 DEF Sends, Serving, WorkerLive
  <2>10. P'
    BY <1>3, <2>5, <2>6, <2>7, <2>8, <2>9 DEF WorkerSteps
  <2> QED BY <1>0, <2>1, <2>2, <2>10 DEF WorkerInv, WorkerLive
<1> QED BY <1>1, <1>2, <1>3, StepsCase

----------------------------------------------------------------------------
(* System V queues: each is its own client's.                              *)

LEMMA SysVNext ==
  ASSUME TypeOK, RequestInv, ClientInv, WorkerInv, SysVInv, [Next]_vars
  PROVE  SysVInv'
<1> DEFINE P(j) == /\ cl[j].q \in {NoQueue, j} /\ wk[j].q \in {NoQueue, j}
                   /\ cl[j].q = NoQueue => j \notin exists /\ q[j] = <<>>
                   /\ HasQueue(j) /\ j \notin exists => wk[j].timedOut \/ cl[j].size = 0
                   /\ cl[j].at = "denied" => wk[j].timedOut \/ cl[j].size = 0
<1>0. prog' = prog /\ (SysV' <=> SysV)
  BY StepsCase DEF SysV
<1>1. SUFFICES ASSUME SysV PROVE \A j \in Runs : P(j)'
  BY <1>0 DEF SysVInv
<1>2. /\ \A j \in Runs : P(j) /\ j # NoQueue
      /\ q \in [Runs -> Seq(Message)] /\ exists \subseteq Runs
  BY <1>1, Constants DEF SysVInv, TypeOK
<1>3. CASE UNCHANGED <<cl, wk, queVars>>
  BY <1>2, <1>3 DEF queVars, HasQueue
<1>4. ASSUME NEW i \in Runs, ClientSteps(i) PROVE \A j \in Runs : P(j)'
  <2>1. wk' = wk /\ \A j \in Runs \ {i} : cl'[j] = cl[j]
    BY <1>4 DEF ClientSteps, Begins, QuietClient, Makes, Leaves, TakesData, TakesFailure, TakesEnd, Reads, Moves, Others
  <2>2. \A j \in Runs \ {i} : q'[j] = q[j] /\ (j \in exists' <=> j \in exists)
    <3>1. CASE UNCHANGED queVars
      BY <3>1 DEF queVars
    <3>2. CASE Makes(i)
      BY <1>1, <3>2 DEF Makes
    <3>3. CASE ~UNCHANGED queVars /\ ~Makes(i)
      <4>1. HasQueue(i) /\ (RemoveQueue(cl[i].q) \/ ReadsOn(i))
        BY <1>4, <3>3 DEF ClientSteps, Begins, QuietClient, Leaves, TakesData, TakesFailure, TakesEnd, Reads, HasQueue
      <4>2. cl[i].q = i
        BY <1>2, <4>1 DEF ClientInv
      <4> QED BY <1>2, <4>1, <4>2 DEF RemoveQueue, ReadsOn
    <3> QED BY <3>1, <3>2, <3>3
  <2>3. ASSUME NEW j \in Runs \ {i} PROVE P(j)'
    BY <1>2, <2>1, <2>2 DEF HasQueue
  <2>4. CASE Begins(i) \/ QuietClient(i)
    <3>1. P(i)'
      <4>1. CASE Begins(i)
        BY <1>2, <2>1, <4>1 DEF Begins, HasQueue, queVars
      <4>2. CASE QuietClient(i)
        BY <1>2, <2>1, <4>2 DEF QuietClient, Moves, Same, HasQueue, queVars, Gone, ClientInv
      <4> QED BY <2>4, <4>1, <4>2
    <3> QED BY <2>3, <3>1
  <2>5. CASE Makes(i)
    <3>1. P(i)'
      BY <1>1, <1>2, <2>1, <2>5 DEF Makes
    <3> QED BY <2>3, <3>1
  <2>6. CASE Leaves(i) \/ TakesData(i) \/ TakesFailure(i) \/ TakesEnd(i)
    <3>1. HasQueue(i) /\ cl[i].q = i
      BY <1>2, <2>6 DEF Leaves, TakesData, TakesFailure, TakesEnd, Reads, HasQueue, ClientInv
    <3>2. cl'[i].q = i /\ cl'[i].size = cl[i].size
      BY <2>6, <3>1 DEF Leaves, TakesData, TakesFailure, TakesEnd, Reads, Moves, Same
    <3>3. CASE TakesData(i)
      <4>1. exists' = exists /\ cl'[i].at = "receive"
        BY <3>3 DEF TakesData, ReadsOn
      <4> QED BY <1>2, <2>1, <2>3, <3>1, <3>2, <4>1 DEF HasQueue
    <3>4. CASE ~TakesData(i)
      <4>1. cl'[i].at \in {"error", "timeout", "failure", "file"}
        BY <2>6, <3>4 DEF Leaves, TakesFailure, TakesEnd, Moves
      <4> QED BY <1>2, <2>1, <2>3, <3>1, <3>2, <4>1 DEF HasQueue
    <3> QED BY <3>3, <3>4
  <2> QED BY <1>4, <2>4, <2>5, <2>6 DEF ClientSteps
<1>5. ASSUME NEW i \in Runs, WorkerSteps(i) PROVE \A j \in Runs : P(j)'
  <2>1. cl' = cl /\ \A j \in Runs \ {i} : wk'[j] = wk[j]
    BY <1>5 DEF WorkerSteps, QuietWorker, Removes, Exits, Opens, Sends, Refuses, Finishes, Exited,
       OtherWorkers, Becomes, Keeps
  <2>2. wk'[i].q \in {NoQueue, i} /\ (wk[i].timedOut => wk'[i].timedOut)
    <3>1. wk'[i].q \in {wk[i].q, NoQueue, cl[i].q}
      BY <1>1, <1>5 DEF WorkerSteps, QuietWorker, Removes, Exits, Opens, Sends, Refuses, Finishes, Exited, Becomes, Keeps
    <3>2. wk[i].timedOut => wk'[i].timedOut
      BY <1>5 DEF WorkerSteps, QuietWorker, Removes, Exits, Opens, Sends, Refuses, Finishes, Exited, Becomes, Keeps
    <3> QED BY <1>2, <3>1, <3>2
  <2>3. \A j \in Runs : wk[j].timedOut => wk'[j].timedOut
    BY <2>1, <2>2
  <2>4. CASE UNCHANGED queVars
    BY <1>2, <2>1, <2>2, <2>3, <2>4 DEF queVars, HasQueue
  <2>5. CASE ~UNCHANGED queVars
    <3>1. wk[i].at \in Serving
      BY <1>5, <2>5 DEF WorkerSteps, QuietWorker, Removes, Exits, Opens, Sends, Refuses, Finishes, LoopEnded, Serving
    <3>2. wk[i].q = i /\ cl[i].q = i
      BY <1>2, <3>1 DEF WorkerInv, RequestInv, Serving, Asked
    <3>3. \/ RemoveQueue(i) /\ (wk[i].timedOut \/ cl[i].size = 0)
          \/ exists' = exists /\ \E m : q' = [q EXCEPT ![i] = Append(q[i], m)]
      BY <1>5, <2>5, <3>2 DEF WorkerSteps, QuietWorker, Removes, Exits, Opens, Sends, Refuses, Finishes, Puts
    <3>4. \A j \in Runs \ {i} : q'[j] = q[j] /\ (j \in exists' <=> j \in exists)
      BY <1>2, <3>3 DEF RemoveQueue
    <3>5. i \in exists /\ i \notin exists' => wk[i].timedOut \/ cl[i].size = 0
      BY <3>3 DEF RemoveQueue
    <3>6. P(i)'
      BY <1>2, <2>1, <2>2, <2>3, <3>2, <3>5 DEF HasQueue
    <3>7. ASSUME NEW j \in Runs \ {i} PROVE P(j)'
      BY <1>2, <2>1, <2>3, <3>4 DEF HasQueue
    <3> QED BY <3>6, <3>7
  <2> QED BY <2>4, <2>5
<1> QED BY <1>3, <1>4, <1>5, StepsCase

----------------------------------------------------------------------------
(* POSIX queues: each belongs to the clients of one pid, one at a time.    *)

\* A live client shares its pid with no other that is still live.
LEMMA PidFacts ==
  ASSUME TypeOK, PosixInv, ~SysV, NEW i \in Runs, NEW j \in Runs, i # j, Live(i), Started(j),
         cl[i].pid = cl[j].pid
  PROVE  j < i /\ ~Live(j)
<1>1. Started(i) /\ i \in Nat /\ j \in Nat
  BY Constants DEF Live, Started
<1>2. i < j \/ j < i
  BY <1>1
<1> QED BY <1>1, <1>2 DEF PosixInv, OwnPid

LEMMA HasQueueIsLive == \A i : HasQueue(i) => Live(i) /\ Started(i)
BY DEF HasQueue, Live, Started, Ended

LEMMA PosixTypes ==
  ASSUME TypeOK, NEW i \in Runs
  PROVE  /\ cl[i].pid \in Pids \cup {0} /\ cl[i].q \in Runs \cup {NoQueue} /\ wk[i].q \in Runs \cup {NoQueue}
         /\ \A p \in Pids \cup {0} : names[p] \in Runs \cup {NoQueue}
         /\ q \in [Runs -> Seq(Message)] /\ names \in [Pids \cup {0} -> Runs \cup {NoQueue}]
<1>1. cl[i] \in ClientType /\ wk[i] \in WorkerType
  BY DEF TypeOK
<1> QED BY <1>1 DEF TypeOK, ClientType, WorkerType

\* A message that a client of a clean pid reads as a refusal is the only one.
LEMMA RefusalIsLast ==
  ASSUME TypeOK, SentInv, NEW i \in Runs, Clean(i), HasQueue(i), ~Gone(cl[i].q), cl[i].q \in Runs,
         q[cl[i].q] # <<>>, Head(q[cl[i].q]).type # "data"
  PROVE  /\ Len(q[cl[i].q]) = 1 /\ wk[i].at = "dead" /\ Tail(q[cl[i].q]) = <<>>
         /\ \/ Head(q[cl[i].q]).type = "failure" /\ cl[i].size = Missing
            \/ /\ Head(q[cl[i].q]).type = "end" /\ cl[i].size # Missing
               /\ wk[i].broken \/ Len(cl[i].got) * Chunk >= cl[i].size
               /\ SysV => Head(q[cl[i].q]).len = 0
<1> DEFINE Q == q[cl[i].q]
<1>1. Q \in Seq(Message) /\ cl[i].got \in Seq(Message)
  BY DEF TypeOK, ClientType
<1>2. Len(Q) \in Nat \ {0} /\ Head(Q) = Q[1] /\ Tail(Q) \in Seq(Message) /\ Len(Tail(Q)) = Len(Q) - 1
  BY <1>1, TailFacts
<1>3. Len(cl[i].got) \in Nat /\ 1 \in 1 .. Len(Q) /\ Len(cl[i].got) + 1 - 1 = Len(cl[i].got)
  BY <1>1, <1>2
<1>4. Q[1].type # "data"
  BY <1>2
<1>5. /\ 1 = Len(Q) /\ wk[i].at = "dead"
      /\ \/ Q[1].type = "failure" /\ cl[i].size = Missing
         \/ /\ Q[1].type = "end" /\ cl[i].size # Missing
            /\ wk[i].broken \/ (Len(cl[i].got) + 1 - 1) * Chunk >= cl[i].size
            /\ SysV => Q[1].len = 0
  <2>1. Q[1] # NthBlock(i, Len(cl[i].got) + 1)
    BY <1>4 DEF NthBlock
  <2> QED BY <1>3, <2>1 DEF SentInv, SentOwn, IsBlock, IsLast
<1>6. Tail(Q) = <<>>
  BY <1>1, <1>5, LastFacts
<1> QED BY <1>2, <1>3, <1>5, <1>6

\* A step that moves no queue to another owner.
LEMMA OwnersStay ==
  ASSUME TypeOK, NEW j \in Runs, OwnQueue(j),
         \A w \in Runs : cl'[w].q = cl[w].q /\ cl'[w].pid = cl[w].pid,
         wk'[j].q \in {NoQueue, wk[j].q},
         cl[j].q # j => q'[j] = q[j],
         HasQueue(j)' => HasQueue(j) /\ names'[cl[j].pid] = names[cl[j].pid]
  PROVE  OwnQueue(j)'
<1>1. cl[j].q # NoQueue => cl[j].q \in Runs
  BY PosixTypes
<1>2. wk[j].q # NoQueue => wk[j].q \in Runs
  BY PosixTypes
<1>3. cl'[j].q # NoQueue => cl'[cl'[j].q].q = cl'[j].q /\ cl'[cl'[j].q].pid = cl'[j].pid
  BY <1>1 DEF OwnQueue
<1>4. wk'[j].q # NoQueue => cl'[wk'[j].q].q = wk'[j].q /\ cl'[wk'[j].q].pid = cl'[j].pid
  BY <1>2 DEF OwnQueue
<1> QED BY <1>3, <1>4 DEF OwnQueue

LEMMA PosixClient ==
  ASSUME TypeOK, RequestInv, ClientInv, WorkerInv, PosixInv, GotInv, SentInv, ~SysV, prog' = prog,
         NEW i \in Runs, ClientSteps(i)
  PROVE  PosixInv'
<1>0. ~SysV' /\ wk' = wk /\ (\A j \in Runs \ {i} : cl'[j] = cl[j]) /\ (\A k : ~Gone(k))
  BY DEF SysV, Gone, ClientSteps, Begins, QuietClient, Makes, Leaves, TakesData, TakesFailure, TakesEnd, Reads, Moves, Others
<1>1. /\ \A j \in Runs : OwnQueue(j) /\ OwnPid(j) /\ j \in Nat \ {0} /\ j # NoQueue
      /\ \A p \in Pids \cup {0} : OwnName(p)
  BY Constants DEF PosixInv
<1>2. SUFFICES /\ \A j \in Runs : OwnQueue(j)' /\ OwnPid(j)'
               /\ \A p \in Pids \cup {0} : OwnName(p)'
  BY DEF PosixInv
<1>3. CASE Begins(i)
  <2>1. cl[i].at = "none" /\ cl[i].q = NoQueue /\ cl'[i].q = NoQueue /\ cl'[i].at = "find"
    BY <1>3 DEF Begins, ClientInv
  <2>2. \A j \in Runs : cl[j].q # i /\ wk[j].q # i
    BY <1>1, <2>1 DEF OwnQueue
  <2>3. \A p \in Pids \cup {0} : names[p] # i
    BY <1>1, <2>1 DEF OwnName
  <2>4. q' = q /\ names' = names
    BY <1>3 DEF Begins, queVars
  <2>5. ASSUME NEW j \in Runs PROVE OwnQueue(j)'
    <3>1. wk[i].q = NoQueue
      BY <2>1 DEF RequestInv, Asked, NewWorker
    <3>2. CASE j = i
      BY <1>0, <1>1, <2>1, <2>4, <3>1, <3>2 DEF OwnQueue, HasQueue
    <3>3. CASE j # i
      <4>1. cl[j].q # NoQueue => cl[j].q \in Runs \ {i}
        BY <2>2, PosixTypes
      <4>2. wk[j].q # NoQueue => wk[j].q \in Runs \ {i}
        BY <2>2, PosixTypes
      <4> QED BY <1>0, <1>1, <2>4, <3>3, <4>1, <4>2 DEF OwnQueue, HasQueue
    <3> QED BY <3>2, <3>3
  <2>6. ASSUME NEW j \in Runs PROVE OwnPid(j)'
    <3>1. \A w \in Runs : i < w => ~Started(w)
      <4>1. \A w \in Runs : i < w => i \in 1 .. w - 1
        BY <1>1
      <4> QED BY <2>1, <4>1 DEF Started, ClientInv
    <3>2. CASE j = i
      BY <1>0, <1>1, <3>1, <3>2 DEF OwnPid, Started
    <3>3. CASE j # i
      BY <1>0, <1>1, <1>3, <3>1, <3>3 DEF OwnPid, Started, Begins, Live
    <3> QED BY <3>2, <3>3
  <2>7. ASSUME NEW p \in Pids \cup {0}, names[p] # NoQueue PROVE OwnName(p)'
    <3>1. names[p] \in Runs \ {i}
      BY <2>3, <2>7, PosixTypes
    <3>2. Unused(p)' => Unused(p)
      BY <1>0, <2>1, <2>4 DEF Unused, Started, HasQueue
    <3> QED BY <1>0, <1>1, <2>4, <2>7, <3>1, <3>2 DEF OwnName
  <2>8. \A p \in Pids \cup {0} : OwnName(p)'
    BY <2>4, <2>7 DEF OwnName
  <2> QED BY <2>5, <2>6, <2>8
<1>4. CASE ~Begins(i)
  <2>1. /\ cl'[i].pid = cl[i].pid
        /\ Live(i)' => Live(i)
        /\ Started(i)' => Started(i)
        /\ cl[i].at = "killed" => cl'[i].at = "killed"
    BY <1>4 DEF ClientSteps, QuietClient, Makes, Leaves, TakesData, TakesFailure, TakesEnd, Reads,
       Moves, Same, Live, Started, Ended, HasQueue
  <2>2. \A j \in Runs : OwnPid(j)'
    <3>1. \A j \in Runs : cl'[j].pid = cl[j].pid /\ (Live(j)' => Live(j)) /\ (Started(j)' => Started(j))
      BY <1>0, <2>1 DEF Live, Started
    <3> QED BY <1>1, <3>1 DEF OwnPid
  <2>3. cl[i].pid \in Pids \cup {0} /\ q \in [Runs -> Seq(Message)]
    BY PosixTypes
  <2>4. CASE QuietClient(i)
    <3>1. cl'[i].q = cl[i].q /\ q' = q /\ names' = names /\ (HasQueue(i)' => HasQueue(i))
      BY <1>0, <2>4 DEF QuietClient, Moves, Same, queVars, HasQueue
    <3>2. \A j \in Runs : cl'[j].q = cl[j].q /\ cl'[j].pid = cl[j].pid /\ (HasQueue(j)' => HasQueue(j))
      BY <1>0, <2>1, <3>1 DEF HasQueue
    <3>3. \A j \in Runs : OwnQueue(j)'
      BY <1>0, <1>1, <3>1, <3>2, OwnersStay
    <3>4. ASSUME NEW p \in Pids \cup {0} PROVE OwnName(p)'
      <4>1. Unused(p)' => Unused(p)
        <5>1. \/ cl'[i].at = "killed" /\ Started(i)'
              \/ HasQueue(i) => HasQueue(i)'
          BY <1>0, <2>4 DEF QuietClient, Moves, HasQueue, Started
        <5>2. \A j \in Runs \ {i} : (HasQueue(j)' <=> HasQueue(j)) /\ (Started(j)' <=> Started(j))
          BY <1>0 DEF HasQueue, Started
        <5>3. Started(i) => Started(i)'
          BY <2>4 DEF QuietClient, Moves, Started
        <5> QED BY <1>0, <2>1, <3>1, <5>1, <5>2, <5>3 DEF Unused
      <4> QED BY <1>1, <3>1, <3>2, <4>1, PosixTypes DEF OwnName
    <3> QED BY <2>2, <3>3, <3>4
  <2>5. CASE Makes(i)
    <3> DEFINE k == IF names[cl[i].pid] = NoQueue THEN i ELSE names[cl[i].pid]
               p0 == cl[i].pid
    <3>1. /\ cl'[i].q = k /\ cl[i].q = NoQueue /\ q' = q /\ cl'[i].at = "send" /\ cl[i].at = "make"
          /\ names' = [names EXCEPT ![p0] = k] /\ p0 \in Pids \cup {0} /\ Live(i)
      BY <2>3, <2>5 DEF Makes, ClientInv, Live, Ended
    <3>2. \A j \in Runs : cl[j].q # i /\ wk[j].q # i
      BY <1>1, <3>1 DEF OwnQueue
    <3>3. \A p \in Pids \cup {0} : names[p] # i
      BY <1>1, <3>1 DEF OwnName
    <3>4. k \in Runs /\ (k # i => cl[k].q = k /\ cl[k].pid = p0 /\ names[p0] = k)
      BY <1>1, <3>1, PosixTypes DEF OwnName
    <3>5. \A j \in Runs \ {i} : HasQueue(j) => cl[j].pid # p0
      BY <3>1, PidFacts, HasQueueIsLive
    <3>6. k = i => q[i] = <<>>
      BY <1>1, <3>1 DEF OwnQueue
    <3>7. /\ names'[p0] = k
          /\ \A p \in (Pids \cup {0}) \ {p0} : names'[p] = names[p]
      BY <3>1, PosixTypes
    <3> HIDE DEF k, p0
    <3>8. ASSUME NEW j \in Runs \ {i} PROVE OwnQueue(j)'
      <4>1. HasQueue(j)' => cl[j].pid \in (Pids \cup {0}) \ {p0} /\ HasQueue(j)
        BY <1>0, <3>5, PosixTypes DEF HasQueue
      <4>2. cl[j].q # NoQueue => cl[j].q \in Runs \ {i}
        BY <3>2, PosixTypes
      <4>3. wk[j].q # NoQueue => wk[j].q \in Runs \ {i}
        BY <3>2, PosixTypes
      <4> QED BY <1>0, <1>1, <3>1, <3>7, <4>1, <4>2, <4>3 DEF OwnQueue
    <3>9. OwnQueue(i)'
      <4>1. cl'[i].pid = p0
        BY <2>1 DEF p0
      <4>2. cl'[k].q = k /\ cl'[k].pid = p0
        BY <1>0, <3>1, <3>4, <4>1
      <4>3. cl[i].q # i => q[i] = <<>>
        BY <1>1 DEF OwnQueue
      <4>4. wk[i].q = NoQueue
        BY <3>1 DEF RequestInv, Asked, NewWorker, Early
      <4> QED BY <1>0, <1>1, <3>1, <3>7, <4>1, <4>2, <4>3, <4>4 DEF OwnQueue
    <3>10. ASSUME NEW p \in Pids \cup {0}, p # p0 PROVE OwnName(p)'
      <4>1. Unused(p)' => Unused(p)
        <5>1. cl[i].pid # p /\ cl'[i].pid # p
          BY <2>1, <3>10 DEF p0
        <5> QED BY <1>0, <3>7, <3>10, <5>1 DEF Unused, Started, HasQueue
      <4> QED BY <1>0, <1>1, <3>1, <3>3, <3>7, <3>10, <4>1, PosixTypes DEF OwnName
    <3>11. ASSUME NEW p \in Pids \cup {0}, p = p0 PROVE OwnName(p)'
      <4>1. cl'[i].pid = p /\ HasQueue(i)' /\ Started(i)' /\ cl'[i].q = k /\ names'[p] = k
        BY <2>1, <3>1, <3>7, <3>11 DEF p0, HasQueue, Started
      <4>2. ~Unused(p)'
        BY <4>1 DEF Unused
      <4>3. cl'[k].q = k /\ cl'[k].pid = p0
        BY <1>0, <3>4, <3>11, <4>1
      <4> QED BY <3>11, <4>1, <4>2, <4>3 DEF OwnName
    <3> QED BY <2>2, <3>8, <3>9, <3>10, <3>11
  <2>6. CASE TakesData(i) \/ TakesFailure(i) \/ TakesEnd(i)
    <3> DEFINE k == cl[i].q
               p0 == cl[i].pid
    <3>1. /\ HasQueue(i) /\ k \in Runs /\ k # NoQueue /\ q[k] # <<>>
          /\ cl'[i].q = k /\ cl'[i].pid = p0 /\ q' = [q EXCEPT ![k] = Tail(q[k])]
          /\ cl[i].at # "killed"
      BY <1>0, <2>6, PosixTypes DEF TakesData, TakesFailure, TakesEnd, Reads, ReadsOn, Same, HasQueue, ClientInv
    <3>2. /\ cl[k].q = k /\ cl[k].pid = p0 /\ names[p0] = k /\ p0 \in Pids \cup {0}
          /\ \A j \in Runs : cl[j].q # j => j # k
      BY <1>1, <2>3, <3>1 DEF OwnQueue
    <3>3. \A j \in Runs \ {i} : HasQueue(j) => cl[j].pid # p0
      BY <3>1, PidFacts, HasQueueIsLive
    <3>4. \A p \in (Pids \cup {0}) \ {p0} : names[p] # k
      BY <1>1, <3>1, <3>2 DEF OwnName
    <3>5. \A p \in (Pids \cup {0}) \ {p0} : names'[p] = names[p]
      BY <1>0, <2>6, PosixTypes DEF TakesData, TakesFailure, TakesEnd
    <3>6. \A j \in Runs : cl'[j].q = cl[j].q /\ cl'[j].pid = cl[j].pid
      BY <1>0, <3>1
    <3>7. HasQueue(i)' => TakesData(i) /\ names' = names
      BY <1>0, <2>6 DEF TakesData, TakesFailure, TakesEnd, Moves, HasQueue
    <3>8. \A j \in Runs \ {k} : q'[j] = q[j]
      BY <3>1, PosixTypes
    <3> HIDE DEF k, p0
    <3>9. ASSUME NEW j \in Runs PROVE OwnQueue(j)'
      <4>1. HasQueue(j)' => names'[cl'[j].pid] = cl'[j].q
        <5>1. CASE j = i
          BY <1>1, <3>1, <3>6, <3>7, <5>1 DEF OwnQueue
        <5>2. CASE j # i
          <6>1. HasQueue(j)' => HasQueue(j) /\ cl[j].pid \in (Pids \cup {0}) \ {p0}
            BY <1>0, <3>3, <5>2, PosixTypes DEF HasQueue
          <6> QED BY <1>1, <3>5, <3>6, <6>1 DEF OwnQueue
        <5> QED BY <5>1, <5>2
      <4>2. cl'[j].q # j => q'[j] = <<>>
        BY <1>1, <3>2, <3>6, <3>8 DEF OwnQueue
      <4>3. cl[j].q # NoQueue => cl[j].q \in Runs
        BY PosixTypes
      <4>4. wk[j].q # NoQueue => wk[j].q \in Runs
        BY PosixTypes
      <4> QED BY <1>0, <1>1, <3>6, <4>1, <4>2, <4>3, <4>4 DEF OwnQueue
    <3>10. ASSUME NEW p \in Pids \cup {0}, p # p0 PROVE OwnName(p)'
      <4>1. Unused(p)' => Unused(p)
        <5>1. cl[i].pid # p /\ cl'[i].pid # p
          BY <3>1, <3>10 DEF p0
        <5> QED BY <1>0, <3>5, <3>10, <5>1 DEF Unused, Started, HasQueue
      <4>2. p \in (Pids \cup {0}) \ {p0} /\ names'[p] = names[p] /\ names[p] # k /\ OwnName(p)
        BY <1>1, <3>4, <3>5, <3>10
      <4>3. names[p] # NoQueue => names[p] \in Runs \ {k}
        BY <4>2, PosixTypes
      <4> QED BY <3>6, <3>8, <4>1, <4>2, <4>3 DEF OwnName
    <3>11. ASSUME NEW p \in Pids \cup {0}, p = p0 PROVE OwnName(p)'
      <4>1. CASE TakesData(i)
        <5>1. names' = names /\ HasQueue(i)' /\ Started(i)'
          BY <4>1 DEF TakesData, HasQueue, Started
        <5>2. ~Unused(p)'
          BY <3>1, <3>2, <3>11, <5>1 DEF Unused
        <5> QED BY <1>1, <3>2, <3>6, <3>11, <5>1, <5>2, PosixTypes DEF OwnName
      <4>2. CASE TakesEnd(i)
        <5>1. names'[p] = NoQueue
          BY <1>0, <3>11, <4>2, PosixTypes DEF TakesEnd, p0
        <5> QED BY <5>1 DEF OwnName
      <4>3. CASE TakesFailure(i)
        <5>1. names' = names
          BY <1>0, <4>3 DEF TakesFailure
        <5>2. ASSUME Unused(p)' PROVE q'[k] = <<>>
          <6>1. \A j \in Runs : Started(j) /\ cl[j].pid = p => cl[j].at # "killed"
            BY <1>0, <3>1, <5>2 DEF Unused, Started
          <6>2. Clean(i)
            <7>1. \A j \in 1 .. i - 1 : j \in Runs
              BY Constants DEF Runs
            <7> QED BY <3>11, <6>1, <7>1 DEF Clean, Inherits, Started, p0
          <6>3. Head(q[k]).type # "data"
            BY <4>3 DEF TakesFailure, k
          <6>4. Tail(q[k]) = <<>>
            BY <1>0, <3>1, <6>2, <6>3, RefusalIsLast DEF k
          <6> QED BY <3>1, <6>4, PosixTypes
        <5> QED BY <1>1, <3>2, <3>6, <3>11, <5>1, <5>2, PosixTypes DEF OwnName
      <4> QED BY <2>6, <4>1, <4>2, <4>3
    <3> QED BY <2>2, <3>9, <3>10, <3>11
  <2> QED BY <1>4, <2>4, <2>5, <2>6 DEF ClientSteps, Leaves
<1> QED BY <1>3, <1>4

\* A worker that serves a POSIX client that was not killed has a live one.
LEMMA ServedIsLive ==
  ASSUME TypeOK, RequestInv, ClientInv, GotInv, ~SysV, NEW j \in Runs, Clean(j), wk[j].at \in Serving,
         cl[j].at # "killed"
  PROVE  HasQueue(j)
<1>1. cl[j].at \notin {"none", "find", "make", "error", "timeout", "denied"}
  BY DEF RequestInv, Asked, Early, Serving, ClientInv
<1>2. cl[j].at \notin {"file", "failure"}
  BY DEF GotInv, GotOwn, Serving
<1>3. cl[j].at \in Ended \cup {"none", "find", "make", "send", "first", "receive"}
  BY DEF TypeOK, ClientType
<1> QED BY <1>1, <1>2, <1>3 DEF HasQueue, Ended

LEMMA PosixWorker ==
  ASSUME TypeOK, RequestInv, ClientInv, WorkerInv, PosixInv, GotInv, SentInv, ~SysV, prog' = prog,
         NEW i \in Runs, WorkerSteps(i)
  PROVE  PosixInv'
<1>0. ~SysV' /\ cl' = cl /\ (\A j \in Runs \ {i} : wk'[j] = wk[j]) /\ names' = names /\ (\A k : ~Gone(k))
  BY DEF SysV, Gone, WorkerSteps, QuietWorker, Removes, Exits, Opens, Sends, Refuses, Finishes, Exited,
     OtherWorkers, Becomes, Keeps, queVars, Puts
<1>1. /\ \A j \in Runs : OwnQueue(j) /\ OwnPid(j)
      /\ \A p \in Pids \cup {0} : OwnName(p)
  BY DEF PosixInv
<1>2. \A j \in Runs : OwnPid(j)'
  BY <1>0, <1>1 DEF OwnPid, Started, Live
<1>3. \A p \in Pids \cup {0} : Unused(p)' => Unused(p)
  BY <1>0 DEF Unused, Started, HasQueue
<1>4. CASE UNCHANGED queVars
  <2>1. q' = q
    BY <1>4 DEF queVars
  <2>2. \A p \in Pids \cup {0} : OwnName(p)'
    BY <1>0, <1>1, <1>3, <2>1 DEF OwnName
  <2>3. \A j \in Runs \ {i} : OwnQueue(j)'
    BY <1>0, <1>1, <2>1 DEF OwnQueue, HasQueue
  <2>4. CASE Opens(i)
    <3>1. wk'[i].q = names[cl[i].pid] /\ names[cl[i].pid] # NoQueue /\ cl[i].pid \in Pids \cup {0}
      BY <2>4, PosixTypes DEF Opens
    <3>2. OwnQueue(i)'
      BY <1>0, <1>1, <2>1, <3>1 DEF OwnQueue, OwnName, HasQueue
    <3> QED BY <1>0, <1>2, <2>2, <2>3, <3>2 DEF PosixInv
  <2>5. CASE ~Opens(i)
    <3>1. wk'[i].q \in {NoQueue, wk[i].q}
      BY <1>4, <2>5 DEF WorkerSteps, QuietWorker, Removes, Exits, Sends, Refuses, Finishes, Exited, Keeps, Becomes
    <3>2. OwnQueue(i)'
      BY <1>0, <1>1, <2>1, <3>1 DEF OwnQueue, HasQueue
    <3> QED BY <1>0, <1>2, <2>2, <2>3, <3>2 DEF PosixInv
  <2> QED BY <2>4, <2>5
<1>5. CASE ~UNCHANGED queVars
  <2> DEFINE k == wk[i].q
  <2>1. /\ wk[i].at \in Serving /\ wk'[i].q \in {NoQueue, wk[i].q}
        /\ \E m : q' = [q EXCEPT ![k] = Append(q[k], m)]
    BY <1>5 DEF WorkerSteps, QuietWorker, Removes, Exits, Opens, Sends, Refuses, Finishes, Puts, Exited, Serving
  <2>2. k \in Runs /\ k # NoQueue /\ cl[k].q = k /\ cl[k].pid = cl[i].pid /\ \A j \in Runs \ {k} : q'[j] = q[j]
    BY <1>1, <2>1, PosixTypes DEF WorkerInv, OwnQueue
  <2> HIDE DEF k
  <2>3. ASSUME NEW j \in Runs PROVE OwnQueue(j)'
    BY <1>0, <1>1, <2>1, <2>2, OwnersStay DEF HasQueue
  <2>4. ASSUME NEW p \in Pids \cup {0}, names[p] = k, Unused(p) PROVE FALSE
    <3>1. p = cl[i].pid /\ Started(i)
      BY <1>1, <2>1, <2>2, <2>4 DEF OwnName, RequestInv, Asked, Early, Serving, Started
    <3>2. cl[i].at # "killed" /\ ~(HasQueue(i) /\ cl[i].q = k)
      BY <2>4, <3>1 DEF Unused
    <3>3. Clean(i)
      <4>1. \A j \in 1 .. i - 1 : j \in Runs
        BY Constants DEF Runs
      <4> QED BY <2>4, <3>1, <4>1 DEF Clean, Inherits, Unused, Started
    <3>4. HasQueue(i)
      BY <2>1, <3>2, <3>3, ServedIsLive
    <3>5. wk[i].q = cl[i].q
      BY <1>0, <2>1, <3>3, <3>4 DEF SentInv, SentOwn
    <3> QED BY <3>2, <3>4, <3>5 DEF k
  <2>5. ASSUME NEW p \in Pids \cup {0} PROVE OwnName(p)'
    <3>1. names[p] # NoQueue => names[p] \in Runs
      BY PosixTypes
    <3> QED BY <1>0, <1>1, <1>3, <2>2, <2>4, <3>1 DEF OwnName
  <2> QED BY <1>0, <1>2, <2>3, <2>5 DEF PosixInv
<1> QED BY <1>4, <1>5

LEMMA PosixNext ==
  ASSUME TypeOK, RequestInv, ClientInv, WorkerInv, PosixInv, GotInv, SentInv, [Next]_vars
  PROVE  PosixInv'
<1>1. prog' = prog
  BY StepsCase
<1>2. CASE SysV
  BY <1>1, <1>2 DEF SysV, PosixInv
<1>3. CASE UNCHANGED <<cl, wk, queVars>>
  BY <1>1, <1>3 DEF SysV, PosixInv, OwnQueue, OwnPid, OwnName, Unused, HasQueue, Started, Live, queVars
<1> QED BY <1>1, <1>2, <1>3, StepsCase, PosixClient, PosixWorker

----------------------------------------------------------------------------
(* What was received and what is on its way.                               *)

\* A queue that a clean client reads is written by its own worker alone.
LEMMA OnlyWriter ==
  ASSUME TypeOK, RequestInv, ClientInv, WorkerInv, SysVInv, PosixInv, GotInv,
         NEW i \in Runs, NEW j \in Runs, Clean(i), HasQueue(i), wk[j].at \in Serving, wk[j].q = cl[i].q
  PROVE  j = i
<1>1. cl[i].q # NoQueue /\ wk[j].q # NoQueue
  BY DEF ClientInv, WorkerInv
<1>2. CASE SysV
  BY <1>1, <1>2 DEF SysVInv
<1>3. CASE ~SysV
  <2> SUFFICES ASSUME j # i PROVE FALSE
    OBVIOUS
  <2>1. cl[j].pid = cl[i].pid
    BY <1>1, <1>3 DEF PosixInv, OwnQueue
  <2>2. Started(j) /\ Live(i)
    BY HasQueueIsLive DEF RequestInv, Asked, Early, Serving, Started
  <2>3. j < i /\ ~Live(j) /\ i \in Nat /\ j \in Nat \ {0}
    BY <1>3, <2>1, <2>2, PidFacts, Constants
  <2>4. j \in 1 .. i - 1 /\ 1 .. j - 1 \subseteq 1 .. i - 1
    BY <2>3
  <2>5. cl[j].at # "killed" /\ Clean(j)
    BY <1>3, <2>1, <2>4 DEF Clean, Inherits
  <2>6. HasQueue(j)
    BY <1>3, <2>5, ServedIsLive
  <2> QED BY <2>3, <2>6, HasQueueIsLive
<1> QED BY <1>2, <1>3

\* ... and read by nobody else.
LEMMA OnlyReader ==
  ASSUME TypeOK, ClientInv, SysVInv, PosixInv, NEW i \in Runs, NEW j \in Runs, HasQueue(i), HasQueue(j),
         cl[i].q = cl[j].q
  PROVE  j = i
<1>1. cl[i].q # NoQueue /\ cl[j].q # NoQueue
  BY DEF ClientInv
<1>2. CASE SysV
  BY <1>1, <1>2 DEF SysVInv
<1>3. CASE ~SysV
  <2>1. cl[j].pid = cl[i].pid
    BY <1>1, <1>3 DEF PosixInv, OwnQueue
  <2> QED BY <1>3, <2>1, PidFacts, HasQueueIsLive
<1> QED BY <1>2, <1>3

LEMMA BlocksStep ==
  ASSUME NEW n \in Nat, NEW size \in Nat, NEW sum \in Nat, Blocks(n, size, sum), sum # size
  PROVE  /\ sum = n * Chunk /\ n * Chunk < size
         /\ Blocks(n + 1, size, sum + Block(size, n * Chunk))
<1>1. sum < size /\ sum = n * Chunk
  BY DEF Blocks
<1>2. n * Chunk \in Nat /\ (n + 1) * Chunk = n * Chunk + Chunk
  BY Constants
<1> QED BY <1>1, <1>2, Constants DEF Blocks, Block

\* The next data that a clean client reads is its next block.
LEMMA DataIsNext ==
  ASSUME TypeOK, SentInv, NEW i \in Runs, Clean(i), HasQueue(i), ~Gone(cl[i].q), cl[i].q \in Runs,
         q[cl[i].q] # <<>>, Head(q[cl[i].q]).type = "data"
  PROVE  /\ Head(q[cl[i].q]) = NthBlock(i, Len(cl[i].got) + 1)
         /\ cl[i].size # Missing /\ Len(cl[i].got) * Chunk < cl[i].size
<1> DEFINE Q == q[cl[i].q]
<1>1. Q \in Seq(Message) /\ cl[i].got \in Seq(Message)
  BY DEF TypeOK, ClientType
<1>2. Len(Q) \in Nat \ {0} /\ Head(Q) = Q[1]
  BY <1>1, TailFacts
<1>3. Len(cl[i].got) \in Nat /\ 1 \in 1 .. Len(Q) /\ Len(cl[i].got) + 1 - 1 = Len(cl[i].got)
  BY <1>1, <1>2
<1>4. ~IsLast(i, 1)
  BY <1>2 DEF IsLast
<1>5. IsBlock(i, 1)
  BY <1>3, <1>4 DEF SentInv, SentOwn
<1> QED BY <1>2, <1>3, <1>5 DEF IsBlock

\* A client that inherited nothing did not before; only its start is its own.
LEMMA CleanStays ==
  ASSUME TypeOK, NEW i \in Runs, ClientSteps(i) \/ WorkerSteps(i), prog' = prog,
         NEW j \in Runs, Clean(j)', j # i \/ ~Begins(i)
  PROVE  Clean(j)
<1>1. CASE WorkerSteps(i)
  <2>1. cl' = cl
    BY <1>1 DEF WorkerSteps, QuietWorker, Removes, Exits, Opens, Sends, Refuses, Finishes, Exited,
       OtherWorkers, Becomes, Keeps
  <2> QED BY <2>1 DEF Clean, Inherits, SysV
<1>2. CASE ClientSteps(i)
  <2>1. \A w \in Runs \ {i} : cl'[w] = cl[w]
    BY <1>2 DEF ClientSteps, Begins, QuietClient, Makes, Leaves, TakesData, TakesFailure, TakesEnd, Reads, Moves, Others
  <2>2. cl[i].at = "killed" => cl'[i].at = "killed" /\ ~Begins(i)
    BY <1>2 DEF ClientSteps, Begins, QuietClient, Makes, Leaves, TakesData, TakesFailure, TakesEnd, Reads, Moves,
       HasQueue
  <2>3. ~Begins(i) => cl'[i].pid = cl[i].pid
    BY <1>2 DEF ClientSteps, QuietClient, Makes, Leaves, TakesData, TakesFailure, TakesEnd, Reads, Moves, Same
  <2>4. 1 .. j - 1 \subseteq Runs
    BY Constants DEF Runs
  <2> QED BY <2>1, <2>2, <2>3, <2>4 DEF Clean, Inherits, SysV
<1> QED BY <1>1, <1>2

LEMMA GotTypes ==
  ASSUME TypeOK, NEW i \in Runs
  PROVE  /\ cl[i].got \in Seq(Message) /\ Len(cl[i].got) \in Nat /\ cl[i].tot \in Nat
         /\ cl[i].size \in Nat \cup {Missing} /\ wk[i].from \in Nat
         /\ cl[i].q \in Runs \cup {NoQueue} /\ wk[i].q \in Runs \cup {NoQueue}
         /\ \A k \in Runs : q[k] \in Seq(Message) /\ Len(q[k]) \in Nat
<1>1. cl[i].got \in Seq(Message) /\ cl[i].tot \in Nat
  BY DEF TypeOK, ClientType
<1>2. \A k \in Runs : q[k] \in Seq(Message)
  BY DEF TypeOK
<1> QED BY <1>1, <1>2, SizeFacts, PosixTypes, ElementFacts

LEMMA GotNext ==
  ASSUME TypeOK, RequestInv, ClientInv, WorkerInv, GotInv, SentInv, [Next]_vars
  PROVE  GotInv'
<1>0. prog' = prog /\ (SysV' <=> SysV)
  BY StepsCase DEF SysV
<1>1. CASE UNCHANGED <<cl, wk, queVars>>
  BY <1>0, <1>1 DEF GotInv, GotOwn, Clean, Inherits, NthBlock
<1>2. ASSUME NEW i \in Runs, WorkerSteps(i), NEW j \in Runs, Clean(j)' PROVE GotOwn(j)'
  <2>1. cl' = cl /\ (wk[j].at = "dead" => wk'[j].at = "dead") /\ (wk[j].broken => wk'[j].broken)
    BY <1>2 DEF WorkerSteps, QuietWorker, Removes, Exits, Opens, Sends, Refuses, Finishes, Exited,
       OtherWorkers, Becomes, Keeps, LoopEnded, WorkerLive
  <2>2. GotOwn(j) /\ ~Begins(i)
    <3>1. ~Begins(i)
      BY <2>1 DEF Begins
    <3> QED BY <1>0, <1>2, <3>1, CleanStays DEF GotInv
  <2> QED BY <1>0, <2>1, <2>2 DEF GotOwn, NthBlock
<1>3. ASSUME NEW i \in Runs, ClientSteps(i), NEW j \in Runs \ {i}, Clean(j)' PROVE GotOwn(j)'
  <2>1. wk' = wk /\ cl'[j] = cl[j]
    BY <1>3 DEF ClientSteps, Begins, QuietClient, Makes, Leaves, TakesData, TakesFailure, TakesEnd, Reads, Moves, Others
  <2>2. GotOwn(j)
    BY <1>0, <1>3, CleanStays DEF GotInv
  <2> QED BY <1>0, <2>1, <2>2 DEF GotOwn, NthBlock
<1>4. ASSUME NEW i \in Runs, ClientSteps(i), Clean(i)' PROVE GotOwn(i)'
  <2>1. CASE Begins(i)
    <3>1. cl'[i].got = <<>> /\ cl'[i].tot = 0 /\ cl'[i].at = "find" /\ cl'[i].size \in Nat \cup {Missing}
      BY <2>1 DEF Begins, ClientInv, Early
    <3>2. Len(cl'[i].got) = 0
      BY <3>1, EmptyFacts
    <3>3. cl'[i].size # Missing => Blocks(0, cl'[i].size, 0)
      BY <3>1, Constants DEF Blocks
    <3> QED BY <3>1, <3>2, <3>3 DEF GotOwn
  <2>2. CASE ~Begins(i)
    <3>1. Clean(i) /\ GotOwn(i) /\ wk' = wk
      <4>1. wk' = wk
        BY <1>4 DEF ClientSteps, Begins, QuietClient, Makes, Leaves, TakesData, TakesFailure, TakesEnd, Reads, Moves, Others
      <4> QED BY <1>0, <1>4, <2>2, <4>1, CleanStays DEF GotInv
    <3>2. CASE QuietClient(i) \/ Makes(i) \/ Leaves(i)
      <4>1. /\ cl'[i].got = cl[i].got /\ cl'[i].tot = cl[i].tot /\ cl'[i].size = cl[i].size
            /\ cl'[i].at \in {"receive", "file", "failure"} => cl'[i].at = cl[i].at
        BY <3>2 DEF QuietClient, Makes, Leaves, Moves, Same
      <4> QED BY <1>0, <3>1, <4>1 DEF GotOwn, NthBlock
    <3>3. CASE TakesData(i) \/ TakesFailure(i) \/ TakesEnd(i)
      <4>1. /\ HasQueue(i) /\ ~Gone(cl[i].q) /\ q[cl[i].q] # <<>> /\ cl[i].q \in Runs
            /\ cl'[i].size = cl[i].size
        BY <3>3, PosixTypes DEF TakesData, TakesFailure, TakesEnd, Reads, HasQueue, ClientInv, Same
      <4> DEFINE m == Head(q[cl[i].q])
                 n == Len(cl[i].got)
      <4>2. /\ n \in Nat /\ cl[i].got \in Seq(Message) /\ cl[i].tot \in Nat /\ cl[i].size \in Nat \cup {Missing}
            /\ m \in Message
        BY <4>1, GotTypes, TailFacts
      <4>3. CASE TakesData(i)
        <5>1. m = NthBlock(i, n + 1) /\ cl[i].size # Missing /\ n * Chunk < cl[i].size
          BY <3>1, <4>1, <4>3, DataIsNext DEF TakesData
        <5>2. /\ cl'[i].got = Append(cl[i].got, m) /\ cl'[i].at = "receive"
              /\ SysV => cl'[i].tot = cl[i].tot + m.len
          BY <4>3 DEF TakesData
        <5>3. /\ Len(cl'[i].got) = n + 1 /\ cl'[i].got[n + 1] = m
              /\ \A k \in 1 .. n : cl'[i].got[k] = cl[i].got[k]
          BY <4>2, <5>2, AppendFacts
        <5>4. \A k \in 1 .. n + 1 : cl'[i].got[k] = NthBlock(i, k)
          <6>1. \A k \in 1 .. n + 1 : k \in 1 .. n \/ k = n + 1
            BY <4>2
          <6> QED BY <3>1, <5>1, <5>3, <6>1 DEF GotOwn
        <5>5. m.len = Block(cl[i].size, n * Chunk)
          <6>1. (n + 1 - 1) * Chunk = n * Chunk
            BY <4>2
          <6> QED BY <5>1, <6>1 DEF NthBlock
        <5>6. SysV => Blocks(n + 1, cl[i].size, cl'[i].tot)
          <6>1. SysV => Blocks(n, cl[i].size, cl[i].tot)
            BY <3>1, <5>1 DEF GotOwn
          <6>2. SysV => cl[i].tot # cl[i].size /\ cl[i].size \in Nat
            <7>1. n * Chunk \in Nat
              BY <4>2, Constants
            <7> QED BY <4>2, <5>1, <6>1, <7>1 DEF Blocks
          <6>3. SysV => cl[i].tot = n * Chunk /\ Blocks(n + 1, cl[i].size, cl[i].tot + Block(cl[i].size, n * Chunk))
            BY <4>2, <6>1, <6>2, BlocksStep
          <6> QED BY <5>2, <5>5, <6>3
        <5>7. \A k \in 1 .. n + 1 : NthBlock(i, k)' = NthBlock(i, k)
          BY <4>1 DEF NthBlock
        <5> HIDE DEF n, m
        <5> QED BY <1>0, <4>1, <4>2, <5>1, <5>2, <5>3, <5>4, <5>6, <5>7 DEF GotOwn
      <4>4. CASE TakesFailure(i)
        <5>1. wk[i].at = "dead"
          BY <3>1, <4>1, <4>4, RefusalIsLast DEF TakesFailure
        <5>2. cl'[i].got = cl[i].got /\ cl'[i].tot = cl[i].tot /\ cl'[i].at = "failure"
          BY <4>4 DEF TakesFailure, Moves
        <5> QED BY <1>0, <3>1, <4>1, <5>1, <5>2 DEF GotOwn, NthBlock
      <4>5. CASE TakesEnd(i)
        <5>1. /\ wk[i].at = "dead"
              /\ \/ m.type = "failure" /\ cl[i].size = Missing
                 \/ /\ m.type = "end" /\ cl[i].size # Missing
                    /\ wk[i].broken \/ n * Chunk >= cl[i].size
                    /\ SysV => m.len = 0
          BY <3>1, <4>1, <4>5, RefusalIsLast DEF TakesEnd
        <5>2. /\ cl'[i].got = cl[i].got /\ cl'[i].at = "file"
              /\ SysV => cl'[i].tot = cl[i].tot + m.len
              /\ m.type = "end" \/ cl[i].at = "receive"
          BY <4>5 DEF TakesEnd
        <5>3. m.type # "failure"
          BY <3>1, <5>1, <5>2 DEF GotOwn
        <5>4. SysV => cl'[i].tot = cl[i].tot
          BY <4>2, <5>1, <5>2, <5>3
        <5> QED BY <1>0, <3>1, <4>1, <5>1, <5>2, <5>3, <5>4 DEF GotOwn, NthBlock
      <4> QED BY <3>3, <4>3, <4>4, <4>5
    <3> QED BY <1>4, <2>2, <3>2, <3>3 DEF ClientSteps
  <2> QED BY <2>1, <2>2
<1>5. \A i \in Runs : ClientSteps(i) \/ WorkerSteps(i) => GotInv'
  BY <1>2, <1>3, <1>4 DEF GotInv
<1> QED BY <1>1, <1>5, StepsCase

\* SentOwn speaks of one client, its queue and its worker.
LEMMA SentKept ==
  ASSUME NEW j \in Runs, SentOwn(j), SysV' <=> SysV,
         cl'[j].q = cl[j].q, cl'[j].got = cl[j].got, cl'[j].size = cl[j].size,
         q'[cl[j].q] = q[cl[j].q], wk'[j] = wk[j]
  PROVE  SentOwn(j)'
<1>1. \A k : NthBlock(j, k)' = NthBlock(j, k)
  BY DEF NthBlock
<1>2. \A m : (IsBlock(j, m)' <=> IsBlock(j, m)) /\ (IsLast(j, m)' <=> IsLast(j, m))
  BY <1>1 DEF IsBlock, IsLast
<1> QED BY <1>2 DEF SentOwn

\* A new client's queue is empty, and so is one it takes over from a clean pid.
LEMMA MadeEmpty ==
  ASSUME TypeOK, RequestInv, ClientInv, SysVInv, PosixInv, NEW i \in Runs, Makes(i), Clean(i)
  PROVE  /\ cl'[i].q \in Runs /\ q[cl'[i].q] = <<>>
         /\ cl[i].got = <<>> /\ wk[i].at = "none"
<1>1. /\ cl[i].at = "make" /\ cl[i].q = NoQueue /\ cl[i].got = <<>> /\ wk[i].at = "none" /\ Live(i)
      /\ cl[i].pid \in Pids \cup {0} /\ i # NoQueue
  BY PosixTypes, Constants DEF Makes, ClientInv, RequestInv, Asked, Early, Live, Ended
<1>2. CASE SysV
  BY <1>1, <1>2 DEF SysVInv, Makes
<1>3. CASE ~SysV /\ names[cl[i].pid] = NoQueue
  BY <1>1, <1>3 DEF PosixInv, OwnQueue, Makes
<1>4. CASE ~SysV /\ names[cl[i].pid] # NoQueue
  <2> DEFINE p == cl[i].pid
  <2>1. OwnName(p) /\ cl'[i].q = names[p] /\ names[p] \in Runs
    BY <1>1, <1>4, PosixTypes DEF PosixInv, Makes
  <2>2. ASSUME NEW j \in Runs, Started(j), cl[j].pid = p
        PROVE  cl[j].at # "killed" /\ ~(HasQueue(j) /\ cl[j].q = names[p])
    <3>1. CASE j = i
      BY <1>1, <3>1 DEF HasQueue
    <3>2. CASE j # i
      <4>1. j < i /\ ~Live(j) /\ i \in Nat /\ j \in Nat \ {0}
        BY <1>1, <1>4, <2>2, <3>2, PidFacts, Constants
      <4>2. j \in 1 .. i - 1
        BY <4>1
      <4> QED BY <1>4, <2>2, <4>1, <4>2, HasQueueIsLive DEF Clean, Inherits
    <3> QED BY <3>1, <3>2
  <2>3. Unused(p)
    BY <2>2 DEF Unused
  <2> QED BY <1>1, <1>4, <2>1, <2>3 DEF OwnName
<1> QED BY <1>2, <1>3, <1>4

LEMMA SentClient ==
  ASSUME TypeOK, RequestInv, ClientInv, WorkerInv, SysVInv, PosixInv, GotInv, SentInv,
         prog' = prog, NEW i \in Runs, ClientSteps(i)
  PROVE  SentInv'
<1>0. /\ (SysV' <=> SysV) /\ wk' = wk /\ \A j \in Runs \ {i} : cl'[j] = cl[j]
  BY DEF SysV, ClientSteps, Begins, QuietClient, Makes, Leaves, TakesData, TakesFailure, TakesEnd, Reads, Moves, Others
<1>1. \/ q' = q
      \/ HasQueue(i) /\ cl[i].q \in Runs /\ \A k \in Runs \ {cl[i].q} : q'[k] = q[k]
  <2>1. \/ q' = q
        \/ HasQueue(i) /\ (RemoveQueue(cl[i].q) \/ ReadsOn(i))
    BY DEF ClientSteps, Begins, QuietClient, Makes, Leaves, TakesData, TakesFailure, TakesEnd, Reads, HasQueue, queVars
  <2>2. HasQueue(i) => cl[i].q \in Runs
    BY PosixTypes DEF ClientInv
  <2> QED BY <2>1, <2>2, PosixTypes DEF RemoveQueue, ReadsOn
<1>2. \A k \in Runs : (Gone(k) => Gone(k)') \/ (Makes(i) /\ SysV /\ k = i)
  BY <1>0 DEF ClientSteps, Begins, QuietClient, Makes, Leaves, TakesData, TakesFailure, TakesEnd, Gone, RemoveQueue,
     ReadsOn, queVars
<1>3. ASSUME NEW j \in Runs \ {i}, Clean(j)', HasQueue(j)', ~Gone(cl[j].q)' PROVE SentOwn(j)'
  <2>1. Clean(j) /\ HasQueue(j) /\ cl'[j] = cl[j] /\ cl[j].q \in Runs
    <3>1. Clean(j)
      BY <1>3, CleanStays
    <3> QED BY <1>0, <1>3, <3>1, PosixTypes DEF HasQueue, ClientInv
  <2>2. ~Gone(cl[j].q)
    <3>1. SysV => cl[j].q = j
      BY <2>1 DEF SysVInv, ClientInv
    <3> QED BY <1>0, <1>2, <1>3, <2>1, <3>1 DEF Gone
  <2>3. q'[cl[j].q] = q[cl[j].q]
    BY <1>1, <2>1, OnlyReader
  <2> QED BY <1>0, <2>1, <2>2, <2>3, SentKept DEF SentInv
<1>4. ASSUME Clean(i)', HasQueue(i)', ~Gone(cl[i].q)' PROVE SentOwn(i)'
  <2>1. ~Begins(i) /\ Clean(i)
    <3>1. ~Begins(i)
      BY <1>4 DEF Begins, HasQueue
    <3> QED BY <1>4, <3>1, CleanStays
  <2>2. QuietClient(i) \/ Makes(i) \/ TakesData(i)
    BY <1>4, <2>1 DEF ClientSteps, Leaves, TakesFailure, TakesEnd, Moves, HasQueue
  <2>3. CASE QuietClient(i)
    <3>1. HasQueue(i) /\ cl'[i].q = cl[i].q /\ cl'[i].got = cl[i].got /\ cl'[i].size = cl[i].size
          /\ q' = q /\ exists' = exists
      BY <1>4, <2>3 DEF QuietClient, Moves, Same, HasQueue, queVars
    <3>2. ~Gone(cl[i].q)
      BY <1>0, <1>4, <3>1 DEF Gone
    <3> QED BY <1>0, <2>1, <3>1, <3>2, SentKept DEF SentInv
  <2>4. CASE Makes(i)
    <3>1. /\ cl'[i].q \in Runs /\ q[cl'[i].q] = <<>> /\ cl[i].got = <<>> /\ wk[i].at = "none"
          /\ q' = q /\ cl'[i].got = cl[i].got
      BY <2>1, <2>4, MadeEmpty DEF Makes
    <3>2. q'[cl'[i].q] = <<>> /\ Len(q'[cl'[i].q]) = 0 /\ Len(cl'[i].got) = 0 /\ wk'[i].at = "none"
      BY <1>0, <3>1, EmptyFacts
    <3> QED BY <3>2 DEF SentOwn, Serving
  <2>5. CASE TakesData(i)
    <3> DEFINE Q == q[cl[i].q]
               n == Len(cl[i].got)
    <3>1. HasQueue(i) /\ ~Gone(cl[i].q) /\ Q # <<>> /\ cl[i].q \in Runs
      BY <2>5, PosixTypes DEF TakesData, Reads, HasQueue, ClientInv
    <3>2. /\ cl'[i].q = cl[i].q /\ cl'[i].size = cl[i].size /\ cl'[i].got = Append(cl[i].got, Head(Q))
          /\ q'[cl[i].q] = Tail(Q)
      BY <2>5, <3>1, PosixTypes DEF TakesData, Reads, ReadsOn, Same
    <3>3. /\ n \in Nat /\ Len(Q) \in Nat \ {0} /\ Len(Tail(Q)) = Len(Q) - 1
          /\ Len(cl'[i].got) = n + 1
          /\ \A m \in 1 .. Len(Q) - 1 : Tail(Q)[m] = Q[m + 1]
      BY <3>1, <3>2, GotTypes, TailFacts, AppendFacts
    <3>4. SentOwn(i)
      BY <2>1, <3>1 DEF SentInv
    <3>5. ASSUME NEW m \in 1 .. Len(Q) - 1 PROVE IsBlock(i, m)' \/ IsLast(i, m)'
      <4>1. m + 1 \in 1 .. Len(Q) /\ n + 1 + m = n + (m + 1) /\ m \in Nat
        <5> HIDE DEF n, Q
        <5> QED BY <3>3
      <4>2. IsBlock(i, m + 1) \/ IsLast(i, m + 1)
        BY <3>4, <4>1 DEF SentOwn
      <4>3. /\ \A x : NthBlock(i, x)' = NthBlock(i, x)
            /\ (n + 1 + m - 1) * Chunk = (n + (m + 1) - 1) * Chunk
        BY <3>2, <4>1 DEF NthBlock
      <4>4. IsBlock(i, m + 1) => IsBlock(i, m)'
        <5>1. q'[cl'[i].q][m] = Q[m + 1] /\ Len(cl'[i].got) = n + 1 /\ cl'[i].size = cl[i].size
          BY <3>2, <3>3
        <5>2. NthBlock(i, Len(cl[i].got) + m)' = NthBlock(i, n + (m + 1))
          <6>1. Len(cl'[i].got) + m = n + (m + 1)
            BY <4>1, <5>1
          <6> QED BY <4>3, <6>1
        <5> QED BY <4>3, <5>1, <5>2 DEF IsBlock
      <4>5. IsLast(i, m + 1) => IsLast(i, m)'
        BY <1>0, <3>2, <3>3, <4>1, <4>3 DEF IsLast
      <4> QED BY <4>2, <4>4, <4>5
    <3>6. wk[i].at \notin {"none", "open", "refuse"}
      BY <3>1, <3>4 DEF SentOwn
    <3>7. wk[i].at \in {"send", "stop", "end"} => Blocks(n + 1 + (Len(Q) - 1), cl[i].size, wk[i].from)
      <4>1. n + 1 + (Len(Q) - 1) = n + Len(Q)
        <5> HIDE DEF n, Q
        <5> QED BY <3>3
      <4> QED BY <3>4, <4>1 DEF SentOwn
    <3>8. wk[i].at \in Serving => wk[i].q = cl[i].q
      BY <3>4 DEF SentOwn
    <3> HIDE DEF Q, n
    <3> QED BY <1>0, <3>2, <3>3, <3>5, <3>6, <3>7, <3>8 DEF SentOwn
  <2> QED BY <2>2, <2>3, <2>4, <2>5
<1> QED BY <1>3, <1>4 DEF SentInv

LEMMA SentWorker ==
  ASSUME TypeOK, RequestInv, ClientInv, WorkerInv, SysVInv, PosixInv, GotInv, SentInv,
         prog' = prog, NEW i \in Runs, WorkerSteps(i)
  PROVE  SentInv'
<1>0. /\ (SysV' <=> SysV) /\ cl' = cl /\ \A j \in Runs \ {i} : wk'[j] = wk[j]
  BY DEF SysV, WorkerSteps, QuietWorker, Removes, Exits, Opens, Sends, Refuses, Finishes, Exited,
     OtherWorkers, Becomes, Keeps
<1>1. \/ q' = q
      \/ wk[i].at \in Serving /\ wk[i].q \in Runs /\ \A k \in Runs \ {wk[i].q} : q'[k] = q[k]
  <2>1. \/ q' = q
        \/ wk[i].at \in Serving /\ (RemoveQueue(wk[i].q) \/ \E m : Puts(i, m))
    BY DEF WorkerSteps, QuietWorker, Removes, Exits, Opens, Sends, Refuses, Finishes, Serving, LoopEnded, queVars
  <2>2. wk[i].at \in Serving => wk[i].q \in Runs
    BY PosixTypes DEF WorkerInv
  <2> QED BY <2>1, <2>2, PosixTypes DEF RemoveQueue, Puts
<1>2. ASSUME NEW j \in Runs, Clean(j)', HasQueue(j)', ~Gone(cl[j].q)'
      PROVE  Clean(j) /\ HasQueue(j) /\ ~Gone(cl[j].q) /\ cl[j].q \in Runs /\ SentOwn(j)
  <2>1. Clean(j) /\ HasQueue(j)
    <3>1. ~Begins(i)
      BY <1>0 DEF Begins
    <3> QED BY <1>0, <1>2, <3>1, CleanStays DEF HasQueue
  <2>2. ~Gone(cl[j].q)
    <3>1. exists' \subseteq exists
      BY DEF WorkerSteps, QuietWorker, Removes, Exits, Opens, Sends, Refuses, Finishes, Puts, RemoveQueue, queVars
    <3> QED BY <1>0, <1>2, <3>1 DEF Gone
  <2> QED BY <2>1, <2>2, PosixTypes DEF SentInv, ClientInv
<1>3. ASSUME NEW j \in Runs \ {i}, Clean(j)', HasQueue(j)', ~Gone(cl[j].q)' PROVE SentOwn(j)'
  <2>1. q'[cl[j].q] = q[cl[j].q]
    BY <1>1, <1>2, <1>3, OnlyWriter
  <2> QED BY <1>0, <1>2, <1>3, <2>1, SentKept
<1>4. ASSUME Clean(i)', HasQueue(i)', ~Gone(cl[i].q)' PROVE SentOwn(i)'
  <2> DEFINE k == cl[i].q
             Q == q[k]
             n == Len(cl[i].got)
  <2>1. /\ Clean(i) /\ HasQueue(i) /\ ~Gone(k) /\ k \in Runs /\ SentOwn(i)
        /\ n \in Nat /\ Q \in Seq(Message) /\ Len(Q) \in Nat /\ wk[i].from \in Nat
        /\ cl[i].size \in Nat \cup {Missing}
    BY <1>2, <1>4, GotTypes
  <2>2. \A m : NthBlock(i, m)' = NthBlock(i, m)
    BY <1>0 DEF NthBlock
  <2>3. ASSUME q'[k] = Q, (wk[i].at = "dead" => wk'[i].at = "dead"), (wk[i].broken => wk'[i].broken), NEW m \in 1 .. Len(q'[k])
        PROVE  IsBlock(i, m)' \/ IsLast(i, m)'
    <3>1. IsBlock(i, m) \/ IsLast(i, m)
      BY <2>1, <2>3 DEF SentOwn
    <3> QED BY <1>0, <2>2, <2>3, <3>1 DEF IsBlock, IsLast
  <2>4. CASE QuietWorker(i) \/ Exits(i)
    <3>1. q' = q /\ (wk[i].at = "dead" => wk'[i].at = "dead") /\ (wk[i].broken => wk'[i].broken)
      BY <2>4 DEF QuietWorker, Exits, Exited, LoopEnded, WorkerLive, Keeps, Becomes, queVars
    <3>2. /\ wk'[i].at \in {"none", "open", "refuse"} => wk[i].at \in {"none", "open", "refuse"}
          /\ wk'[i].at \in Serving => wk[i].at \in Serving /\ wk'[i].q = wk[i].q
          /\ wk'[i].at \in {"send", "stop", "end"} => wk[i].at \in {"send", "stop", "end"} /\ wk'[i].from = wk[i].from
      BY <2>4 DEF QuietWorker, Exits, LoopEnded, WorkerLive, Keeps, Becomes, Exited, Serving
    <3>3. \A m \in 1 .. Len(q'[k]) : IsBlock(i, m)' \/ IsLast(i, m)'
      BY <2>3, <3>1
    <3> QED BY <1>0, <2>1, <3>1, <3>2, <3>3 DEF SentOwn
  <2>5. CASE Opens(i)
    <3>1. q' = q /\ wk[i].at = "open" /\ wk'[i].from = 0 /\ Q = <<>> /\ n = 0
      BY <2>1, <2>5 DEF Opens, WorkerInv, SentOwn, queVars
    <3>2. wk'[i].q = k
      BY <2>1, <2>5 DEF Opens, PosixInv, OwnQueue
    <3>3. wk'[i].at = IF cl[i].size = Missing THEN "refuse" ELSE "send"
      BY <2>5 DEF Opens
    <3>4. cl[i].size # Missing => Blocks(0, cl[i].size, 0)
      BY <2>1, Constants DEF Blocks
    <3>5. Len(Q) = 0 /\ q'[k] = <<>>
      BY <3>1, EmptyFacts
    <3> HIDE DEF k, Q, n
    <3>6. cl'[i].q = k /\ Len(cl'[i].got) = 0 /\ Len(q'[k]) = 0 /\ cl'[i].size = cl[i].size
      BY <1>0, <3>1, <3>5, EmptyFacts DEF k, n
    <3> QED BY <3>1, <3>2, <3>3, <3>4, <3>5, <3>6 DEF SentOwn
  <2>6. CASE Removes(i)
    <3>1. wk[i].q = k /\ SysV
      BY <2>1, <2>6 DEF SentOwn, Removes, LoopEnded, Serving
    <3>2. Gone(k)'
      BY <1>0, <2>6, <3>1 DEF Removes, RemoveQueue, Gone
    <3> QED BY <1>0, <1>4, <3>2
  <2>7. ASSUME wk[i].at \in Serving
        PROVE  wk[i].q = k /\ \A m \in 1 .. Len(Q) : IsBlock(i, m)
    BY <2>1, <2>7 DEF SentOwn, Serving, IsLast
  <2>8. ASSUME wk[i].at \in Serving, NEW e \in Message, Puts(i, e)
        PROVE  /\ q'[k] = Append(Q, e) /\ Len(q'[k]) = Len(Q) + 1 /\ q'[k][Len(Q) + 1] = e
               /\ \A m \in 1 .. Len(Q) : IsBlock(i, m)'
               /\ 1 .. Len(q'[k]) = (1 .. Len(Q)) \cup {Len(Q) + 1}
    <3>1. q'[k] = Append(Q, e)
      BY <2>1, <2>7, <2>8, PosixTypes DEF Puts
    <3>2. Len(q'[k]) = Len(Q) + 1 /\ q'[k][Len(Q) + 1] = e /\ \A m \in 1 .. Len(Q) : q'[k][m] = Q[m]
      BY <2>1, <3>1, AppendFacts
    <3>3. \A m \in 1 .. Len(Q) : IsBlock(i, m)'
      BY <1>0, <2>2, <2>7, <2>8, <3>2 DEF IsBlock
    <3>4. 1 .. Len(q'[k]) = (1 .. Len(Q)) \cup {Len(Q) + 1}
      BY <2>1, <3>2
    <3> QED BY <3>1, <3>2, <3>3, <3>4
  <2>9. CASE Sends(i)
    <3> DEFINE e == [type |-> "data", of |-> i, from |-> wk[i].from, len |-> Block(cl[i].size, wk[i].from)]
    <3>1. /\ wk[i].at = "send" /\ wk'[i].at = "send" /\ wk[i].from # cl[i].size /\ Puts(i, e)
          /\ wk'[i].q = wk[i].q /\ wk'[i].from = wk[i].from + Block(cl[i].size, wk[i].from)
      BY <2>9 DEF Sends, AtEof
    <3>2. cl[i].size \in Nat /\ wk[i].from <= cl[i].size /\ Blocks(n + Len(Q), cl[i].size, wk[i].from)
      BY <2>1, <3>1 DEF WorkerInv, SentOwn
    <3>3. n + Len(Q) \in Nat /\ n + (Len(Q) + 1) - 1 = n + Len(Q) /\ n + (Len(Q) + 1) = n + Len(Q) + 1
      <4> HIDE DEF n, Q
      <4> QED BY <2>1
    <3>4. /\ wk[i].from = (n + Len(Q)) * Chunk /\ (n + Len(Q)) * Chunk < cl[i].size
          /\ Blocks(n + Len(Q) + 1, cl[i].size, wk[i].from + Block(cl[i].size, (n + Len(Q)) * Chunk))
      BY <2>1, <3>1, <3>2, <3>3, BlocksStep
    <3>5. e = NthBlock(i, n + (Len(Q) + 1)) /\ (n + (Len(Q) + 1) - 1) * Chunk < cl[i].size
      <4> HIDE DEF n, Q
      <4> QED BY <3>3, <3>4 DEF NthBlock
    <3>6. e \in Message
      <4>1. \A a, b \in Nat : b <= a => Block(a, b) \in Nat
        BY BlockFacts
      <4> QED BY <2>1, <3>2, <4>1 DEF Message
    <3> HIDE DEF e
    <3>7. /\ Len(q'[k]) = Len(Q) + 1 /\ q'[k][Len(Q) + 1] = e
          /\ \A m \in 1 .. Len(Q) : IsBlock(i, m)'
          /\ 1 .. Len(q'[k]) = (1 .. Len(Q)) \cup {Len(Q) + 1}
      BY <2>8, <3>1, <3>6 DEF Serving
    <3>8. \A m \in 1 .. Len(q'[k]) : IsBlock(i, m)'
      <4>1. ASSUME NEW m \in 1 .. Len(q'[k]), m = Len(Q) + 1 PROVE IsBlock(i, m)'
        <5>1. q'[k][m] = NthBlock(i, n + m) /\ cl[i].size # Missing /\ (n + m - 1) * Chunk < cl[i].size
          <6> HIDE DEF n, Q
          <6> QED BY <3>2, <3>5, <3>7, <4>1, Constants
        <5> QED BY <1>0, <2>2, <5>1 DEF IsBlock
      <4> QED BY <3>7, <4>1
    <3>9. Blocks(n + Len(q'[k]), cl[i].size, wk'[i].from)
      <4>1. n + Len(q'[k]) = n + Len(Q) + 1
        <5> HIDE DEF n, Q
        <5> QED BY <3>3, <3>7
      <4> QED BY <3>1, <3>4, <4>1
    <3>10. wk'[i].q = k
      BY <2>7, <3>1 DEF Serving
    <3> QED BY <1>0, <3>1, <3>8, <3>9, <3>10 DEF SentOwn, Serving
  <2>10. ASSUME NEW e \in Message, Puts(i, e), wk[i].at \in Serving, Exited(i, "dead"),
                \/ e.type = "failure" /\ cl[i].size = Missing
                \/ /\ e.type = "end" /\ cl[i].size # Missing
                   /\ wk[i].broken \/ (n + Len(Q)) * Chunk >= cl[i].size
                   /\ SysV => e.len = 0
         PROVE  SentOwn(i)'
    <3>1. /\ Len(q'[k]) = Len(Q) + 1 /\ q'[k][Len(Q) + 1] = e
          /\ \A m \in 1 .. Len(Q) : IsBlock(i, m)'
          /\ 1 .. Len(q'[k]) = (1 .. Len(Q)) \cup {Len(Q) + 1}
      BY <2>8, <2>10
    <3>2. wk'[i].at = "dead" /\ (wk[i].broken => wk'[i].broken)
      BY <2>10 DEF Exited
    <3>3. ASSUME NEW m \in 1 .. Len(q'[k]), m = Len(Q) + 1 PROVE IsLast(i, m)'
      <4>1. (n + m - 1) * Chunk = (n + Len(Q)) * Chunk
        <5>1. n + m - 1 = n + Len(Q)
          BY <2>1, <3>3
        <5> QED BY <5>1
      <4> QED BY <1>0, <2>10, <3>1, <3>2, <3>3, <4>1 DEF IsLast
    <3> QED BY <1>0, <3>1, <3>2, <3>3 DEF SentOwn, Serving
  <2>11. CASE Refuses(i)
    <3>1. [type |-> "failure", of |-> i, from |-> 0, len |-> 0] \in Message
      BY DEF Message
    <3>2. wk[i].at \in Serving /\ cl[i].size = Missing
      BY <2>11 DEF Refuses, Serving, WorkerInv
    <3> QED BY <2>10, <2>11, <3>1, <3>2 DEF Refuses
  <2>12. CASE Finishes(i)
    <3> DEFINE e == [type |-> "end", of |-> i, from |-> wk[i].from, len |-> IF SysV THEN 0 ELSE Chunk]
    <3>1. e \in Message /\ e.type = "end" /\ (SysV => e.len = 0)
      <4>1. (IF SysV THEN 0 ELSE Chunk) \in Nat
        BY Constants
      <4> QED BY <2>1, <4>1 DEF Message
    <3>2. wk[i].at = "end" /\ ~Gone(wk[i].q) /\ Puts(i, e) /\ Exited(i, "dead")
      BY <2>12 DEF Finishes, Puts
    <3>3. /\ cl[i].size # Missing /\ Blocks(n + Len(Q), cl[i].size, wk[i].from)
          /\ wk[i].from = cl[i].size \/ wk[i].broken
      BY <2>1, <3>2 DEF WorkerInv, SentOwn
    <3>4. wk[i].broken \/ (n + Len(Q)) * Chunk >= cl[i].size
      BY <3>3 DEF Blocks
    <3> HIDE DEF e
    <3> QED BY <2>10, <3>1, <3>2, <3>3, <3>4 DEF Serving
  <2> QED BY <2>4, <2>5, <2>6, <2>9, <2>11, <2>12 DEF WorkerSteps
<1> QED BY <1>3, <1>4 DEF SentInv

LEMMA SentNext ==
  ASSUME TypeOK, RequestInv, ClientInv, WorkerInv, SysVInv, PosixInv, GotInv, SentInv, [Next]_vars
  PROVE  SentInv'
<1>1. prog' = prog
  BY StepsCase
<1>2. CASE UNCHANGED <<cl, wk, queVars>>
  <2>1. \A i \in Runs : SentOwn(i) => SentOwn(i)'
    BY <1>1, <1>2, SentKept DEF SysV, queVars
  <2> QED BY <1>1, <1>2, <2>1 DEF SentInv, SysV, Clean, Inherits, HasQueue, Gone, queVars
<1> QED BY <1>1, <1>2, StepsCase, SentClient, SentWorker

----------------------------------------------------------------------------
(* The theorems.                                                           *)

IInv == /\ TypeOK /\ RequestInv /\ ClientInv /\ WorkerInv
        /\ SysVInv /\ PosixInv /\ GotInv /\ SentInv

\* In every reachable state of all four pairs of programs a client has the
\* first blocks of its file, and its queue the next ones and then the END, for
\* any numbers of clients, pids and faults: the inductive invariant.
THEOREM Invariant == Spec => []IInv
<1>1. Init => IInv
  BY TypeInit, InitInv DEF IInv
<1>2. IInv /\ [Next]_vars => IInv'
  BY TypeNext, RequestNext, ClientNext, WorkerNext, SysVNext, PosixNext, GotNext, SentNext DEF IInv
<1> QED BY <1>1, <1>2, PTL DEF Spec

\* Each variable of the servers, clients, workers and queues keeps its type.
THEOREM TypeCorrect == Spec => []TypeOK
<1>1. IInv => TypeOK
  BY DEF IInv
<1> QED BY <1>1, Invariant, PTL

\* A client that inherited no killed client's queue has received the blocks of
\* its own file, in order from the first (serve_request and the client's loop).
THEOREM OwnBlocksCorrect == Spec => []OwnBlocksInOrder
<1>1. IInv => OwnBlocksInOrder
  BY DEF IInv, GotInv, GotOwn, Clean, NthBlock, OwnBlocksInOrder
<1> QED BY <1>1, Invariant, PTL

\* A client that reports the number of bytes received has the whole file, or
\* what came before a read of its worker failed; on System V queues the number
\* is that of the bytes it has.
THEOREM WholeFileCorrect == Spec => []WholeFileReported
<1>1. IInv => WholeFileReported
  <2> SUFFICES ASSUME IInv, NEW i \in Runs, cl[i].at = "file", Clean(i)
               PROVE  /\ cl[i].size # Missing
                      /\ wk[i].broken \/ Len(cl[i].got) * Chunk >= cl[i].size
                      /\ SysV => cl[i].tot = BytesOf(Len(cl[i].got), cl[i].size)
    BY DEF WholeFileReported, Clean
  <2>1. GotOwn(i) /\ TypeOK
    BY DEF IInv, GotInv
  <2>2. cl[i].size # Missing /\ (wk[i].broken \/ Len(cl[i].got) * Chunk >= cl[i].size)
    BY <2>1 DEF GotOwn
  <2>3. SysV => Blocks(Len(cl[i].got), cl[i].size, cl[i].tot)
    BY <2>1, <2>2 DEF GotOwn
  <2>4. cl[i].tot \in Nat /\ cl[i].size \in Nat /\ Len(cl[i].got) * Chunk \in Nat
    BY SMTT(30), <2>1, <2>2, GotTypes, Constants
  <2>5. SysV => cl[i].tot = BytesOf(Len(cl[i].got), cl[i].size)
    BY <2>3, <2>4 DEF Blocks, BytesOf
  <2> QED BY <2>2, <2>5
<1> QED BY <1>1, Invariant, PTL

\* A client finds its queue gone only after its own worker timed out, or for
\* an empty file (46_04_server.c looks at a variable it never set).
THEOREM DeniedCorrect == Spec => []DeniedByTimeout
<1>1. IInv => DeniedByTimeout
  BY DEF IInv, ClientInv, SysVInv, DeniedByTimeout
<1> QED BY <1>1, Invariant, PTL

=============================================================================
