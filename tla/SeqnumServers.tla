---------------------------- MODULE SeqnumServers ----------------------------
(***************************************************************************)
(* The sequence-number service over a System V queue (46_02), over POSIX   *)
(* queues (52_02) and over stream sockets (57_03, is_seqnum, 59_01,        *)
(* 59_02).  Clients are killed at any point and pids are used again; the   *)
(* kernel's queues and connections are external.  A reply carries, beside  *)
(* its number, the run it was made for, which the programs do not see.     *)
(***************************************************************************)
EXTENDS IoBase, FiniteSetsExt

CONSTANTS Pids,        \* process ids of the clients
          Lengths,     \* requested lengths; 0 stands for what atoi() rejects
          QueueMax,    \* messages a queue holds, connections a backlog holds
          MaxFds,      \* descriptors left for connections
          NoOne

ASSUME SeqnumAssumption ==
  /\ Lengths \subseteq Nat /\ QueueMax \in Nat \ {0} /\ MaxFds \in Nat \ {0}
  /\ IsFiniteSet(Pids) /\ NoOne \notin Runs \cup Pids \cup Nat

VARIABLES sat,         \* the server's place
          seq,         \* seq_num
          cur,         \* the run whose request is served
          queue,       \* requests in the server's queue, or its backlog
          open,        \* connections the server has not closed
          workers,     \* 46_02: the runs whose children have not replied
          names,       \* 52_02: the clients' queues
          target,      \* 52_02: the queue the server has open, while it has a name
          box,         \* replies not yet received
          cat,         \* the clients' places
          pid, len,    \* their pids and arguments
          sent,        \* what they have written to their connection
          got,         \* the replies they have printed
          given        \* history: the number sent for each run

args     == <<pid, len>>
mailVars == <<names, target, box>>
numVars  == <<sat, seq, cur, queue, open, workers, mailVars, cat, args, sent, got, given>>

Idle   == {"new", "done", "refused", "failed", "killed"}
Up     == sat \notin {"off", "gone"}
Boxes  == Pids \cup Runs
Key(c) == IF prog \in Queued THEN pid[c] ELSE c

NumInit ==
  /\ sat = "off" /\ seq = (IF prog = "msgq" THEN 2 ELSE 0)
  /\ cur = NoOne /\ queue = <<>> /\ open = {} /\ workers = {}
  /\ names = {} /\ target = NoOne /\ box = [k \in Boxes |-> <<>>]
  /\ cat = [c \in Runs |-> "new"]
  /\ pid = [c \in Runs |-> NoOne] /\ len = [c \in Runs |-> 0]
  /\ sent = [c \in Runs |-> "nothing"]
  /\ got = [c \in Runs |-> NoOne] /\ given = [c \in Runs |-> NoOne]
----------------------------------------------------------------------------
(* What the clients have in common.                                        *)

CGoto(c, a, b) == cat[c] = a /\ cat' = [cat EXCEPT ![c] = b]
ClientOnly     == UNCHANGED <<sat, seq, cur, open, workers, given, faults>>

FreePids == Pids \ {pid[d] : d \in {e \in Runs : cat[e] \notin Idle}}

\* A run begins, with its pid and its argument.
Start(c, next, pids, lengths) ==
  /\ CGoto(c, "new", next)
  /\ \E p \in pids : pid' = [pid EXCEPT ![c] = p]
  /\ \E n \in lengths : len' = [len EXCEPT ![c] = n]
  /\ ClientOnly /\ UNCHANGED <<sent, got>>

\* msgget(), mq_open() or connect() when no server is there.
Refused(c, a) == /\ ~Up /\ CGoto(c, a, "refused")
                 /\ ClientOnly /\ UNCHANGED <<queue, args, sent, got>>

Enqueue(c) == /\ CGoto(c, "send", "wait") /\ queue' = Append(queue, c)
              /\ ClientOnly /\ UNCHANGED <<mailVars, args, sent, got>>

Receives(c) == /\ CGoto(c, "wait", "done") /\ box[Key(c)] # <<>>
               /\ got' = [got EXCEPT ![c] = Head(box[Key(c)])]
               /\ ClientOnly /\ UNCHANGED <<queue, args, sent>>

Takes(c) == /\ Receives(c) /\ box' = [box EXCEPT ![Key(c)] = Tail(@)]
            /\ UNCHANGED <<names, target>>

Fails(c) == /\ \E a \in {"send", "newline", "wait"} : CGoto(c, a, "failed")
            /\ ClientOnly /\ UNCHANGED <<queue, mailVars, args, sent, got>>

KillClient(c) ==
  /\ Fault /\ cat[c] \notin Idle
  /\ cat' = [cat EXCEPT ![c] = "killed"]
  /\ UNCHANGED <<sat, seq, cur, queue, open, workers, mailVars, args, sent, got, given>>
----------------------------------------------------------------------------
(* 46_02: one queue, with requests of type 1 and replies of type pid.      *)

Room == Len(queue) + MapThenSumSet(LAMBDA p : Len(box[p]), Pids) < QueueMax

Client46_02(c) ==
  /\ prog = "msgq"
  /\ \/ Up /\ Start(c, "send", FreePids, Lengths) /\ UNCHANGED <<queue, mailVars>>
     \/ Refused(c, "new") /\ UNCHANGED mailVars
     \/ Up /\ Room /\ Enqueue(c)
     \/ Takes(c)
     \/ ~Up /\ Fails(c)                  \* the queue was removed

\* serve_request in the child; its own seq_num is advanced and lost with it.
ServeRequest(c) ==
  /\ c \in workers /\ workers' = workers \ {c}
  /\ \/ /\ Up /\ Room
        /\ box' = [box EXCEPT ![Key(c)] = Append(@, [run |-> c, num |-> seq])]
        /\ given' = [given EXCEPT ![c] = seq]
     \/ ~Up /\ UNCHANGED <<box, given>>
  /\ UNCHANGED <<sat, seq, cur, queue, open, names, target, cat, args, sent, got, faults>>

Server46_02 ==
  /\ prog = "msgq"
  /\ \/ /\ sat = "off" /\ sat' = "accept" /\ UNCHANGED <<queue, workers, box, faults>>
     \/ /\ sat = "accept" /\ queue # <<>>
        /\ workers' = workers \cup {Head(queue)} /\ queue' = Tail(queue)
        /\ UNCHANGED <<sat, box, faults>>
     \/ /\ sat = "accept" /\ queue # <<>> /\ Fault      \* fork() fails
        /\ sat' = "gone" /\ queue' = <<>> /\ box' = [k \in Boxes |-> <<>>]
        /\ UNCHANGED workers
  /\ UNCHANGED <<seq, cur, open, names, target, cat, args, sent, got, given>>
----------------------------------------------------------------------------
(* 52_02: the server's queue, and one per client that it removes at exit.  *)

\* remove_mq
LeaveQueue(c) == /\ names' = names \ {pid[c]}
                 /\ target' = IF target = pid[c] THEN NoOne ELSE target
                 /\ box' = [box EXCEPT ![pid[c]] = <<>>]

\* The client's queue may be one that a killed run has left.
Client52_02(c) ==
  /\ prog = "pmsg"
  /\ \/ /\ Start(c, "open", FreePids, Lengths \ {0})
        /\ names' = names \cup {pid'[c]} /\ UNCHANGED <<queue, target, box>>
     \/ Refused(c, "open") /\ LeaveQueue(c)
     \/ /\ Up /\ CGoto(c, "open", "send")
        /\ ClientOnly /\ UNCHANGED <<queue, mailVars, args, sent, got>>
     \/ Len(queue) < QueueMax /\ Enqueue(c)
     \/ Receives(c) /\ LeaveQueue(c)

Server52_02 ==
  /\ prog = "pmsg"
  /\ \/ /\ sat = "off" /\ sat' = "accept" /\ UNCHANGED <<seq, cur, queue, target, box, given>>
     \/ /\ sat = "accept" /\ queue # <<>> /\ sat' = "open"
        /\ cur' = Head(queue) /\ queue' = Tail(queue)
        /\ UNCHANGED <<seq, target, box, given>>
     \/ /\ sat = "open" /\ pid[cur] \notin names /\ sat' = "accept"
        /\ UNCHANGED <<seq, cur, queue, target, box, given>>
     \/ /\ sat = "open" /\ pid[cur] \in names /\ sat' = "reply" /\ target' = pid[cur]
        /\ UNCHANGED <<seq, cur, queue, box, given>>
     \/ /\ sat = "reply" /\ sat' = "advance" /\ target' = NoOne
        /\ box' = IF target = NoOne THEN box
                  ELSE [box EXCEPT ![target] = Append(@, [run |-> cur, num |-> seq])]
        /\ given' = [given EXCEPT ![cur] = seq]
        /\ UNCHANGED <<seq, cur, queue>>
     \/ /\ sat = "advance" /\ sat' = "accept" /\ seq' = seq + len[cur]
        /\ UNCHANGED <<cur, queue, target, box, given>>
  /\ UNCHANGED <<open, workers, names, cat, args, sent, got, faults>>
----------------------------------------------------------------------------
(* Connections.  A client's end is closed when it ends or is killed.       *)

Connected(c) == c \in open \/ \E i \in 1 .. Len(queue) : queue[i] = c

Connect(c, lengths) == /\ Up /\ Len(queue) < QueueMax
                       /\ Start(c, "send", {NoOne}, lengths)
                       /\ queue' = Append(queue, c) /\ UNCHANGED mailVars

Write(c, a, b, what) ==
  /\ CGoto(c, a, b) /\ Connected(c) /\ sent' = [sent EXCEPT ![c] = what]
  /\ ClientOnly /\ UNCHANGED <<queue, mailVars, args, got>>

\* End of file, or an error: there is no connection and no reply.
Cut(c) == ~Connected(c) /\ box[c] = <<>> /\ Fails(c)

Client57_03(c) ==
  /\ prog = "unix"
  /\ \/ Connect(c, Lengths \ {0})
     \/ Refused(c, "new") /\ UNCHANGED mailVars
     \/ Write(c, "send", "wait", "all")
     \/ Takes(c)
     \/ Cut(c)

\* The length and the newline are written by two calls.
LineClient(c) ==
  \/ Connect(c, Lengths)
  \/ Refused(c, "new") /\ UNCHANGED mailVars
  \/ Write(c, "send", "newline", "number")
  \/ Write(c, "newline", "wait", "all")
  \/ Takes(c)
  \/ Cut(c)

ClientIs(c)    == prog = "inet" /\ LineClient(c)
Client59_01(c) == prog = "inetbuf" /\ LineClient(c)
Client59_02(c) == prog = "inetlib" /\ LineClient(c)

ServerOnly == UNCHANGED <<workers, names, target, cat, args, sent, got, faults>>

\* socket(), bind() and listen(), for the first address that has them all.
Listen == /\ sat = "off" /\ sat' \in {"accept", "gone"}
          /\ ServerOnly /\ UNCHANGED <<seq, cur, queue, open, box, given>>

Accept ==
  /\ sat = "accept" /\ queue # <<>> /\ Cardinality(open) < MaxFds /\ sat' = "read"
  /\ cur' = Head(queue) /\ queue' = Tail(queue) /\ open' = open \cup {Head(queue)}
  /\ ServerOnly /\ UNCHANGED <<seq, box, given>>

\* The process ends, and with it its connections.
Dies == /\ sat' = "gone" /\ open' = {} /\ queue' = <<>>
        /\ ServerOnly /\ UNCHANGED <<seq, cur, box, given>>

\* A whole request, or what there was of it before end of file.
ReadRequest(ok) ==
  /\ sat = "read" /\ sat' = IF ok THEN "reply" ELSE "bad"
  /\ ServerOnly /\ UNCHANGED <<seq, cur, queue, open, box, given>>

\* atoi().  59_01's readLineBuf() ends no string: a number that the end of the
\* file cuts off runs on into what the buffer held before.
LengthsRead == {len[cur]} \cup {10 * len[cur] + n :
                                  n \in IF prog = "inetbuf" /\ sent[cur] = "number" THEN Lengths ELSE {}}

\* readLine() or readLineBuf(), then atoi().
ReadLength ==
  \/ ReadRequest(len[cur] > 0) /\ sent[cur] = "all"
  \/ /\ sat = "read" /\ cat[cur] = "killed" /\ sent[cur] = "number"
     /\ \E n \in LengthsRead : ReadRequest(n > 0)
  \/ ReadRequest(FALSE) /\ cat[cur] = "killed" /\ sent[cur] = "nothing"

Discard(left) ==
  /\ sat = "bad" /\ sat' = "accept" /\ open' = left
  /\ ServerOnly /\ UNCHANGED <<seq, cur, queue, box, given>>

SendReply ==
  /\ sat = "reply" /\ sat' = "advance"
  /\ box' = [box EXCEPT ![cur] = Append(@, [run |-> cur, num |-> seq])]
  /\ given' = [given EXCEPT ![cur] = seq]
  /\ ServerOnly /\ UNCHANGED <<seq, cur, queue, open>>

\* Faulty: the number is advanced by one, whatever was asked for.
AdvanceByOne ==
  /\ sat = "advance" /\ sat' = "accept" /\ seq' = seq + 1 /\ open' = open \ {cur}
  /\ ServerOnly /\ UNCHANGED <<cur, queue, box, given>>

\* close() and seq_num += length, in either order.
Advance ==
  /\ sat = "advance" /\ sat' = "accept" /\ open' = open \ {cur}
  /\ \E n \in LengthsRead : n > 0 /\ seq' = seq + n
  /\ ServerOnly /\ UNCHANGED <<cur, queue, box, given>>

\* Without a descriptor it exits; a request that cannot be read is left open;
\* SIGPIPE, which it does not ignore, ends it when the client is dead.
Server57_03 ==
  /\ prog = "unix"
  /\ \/ Listen
     \/ Accept
     \/ sat = "accept" /\ queue # <<>> /\ Cardinality(open) >= MaxFds /\ Dies
     \/ ReadRequest(TRUE) /\ sent[cur] = "all"
     \/ ReadRequest(FALSE) /\ cat[cur] = "killed" /\ sent[cur] = "nothing"
     \/ Discard(open)
     \/ SendReply /\ cat[cur] # "killed"
     \/ sat = "reply" /\ cat[cur] = "killed" /\ Dies
     \/ Advance

\* With SIGPIPE ignored, a write to a dead client fails or is lost.
LineServer == Listen \/ Accept \/ ReadLength \/ Discard(open \ {cur}) \/ SendReply \/ Advance

ServerIs    == prog = "inet" /\ LineServer
Server59_01 == prog = "inetbuf" /\ LineServer
Server59_02 == prog = "inetlib" /\ LineServer
----------------------------------------------------------------------------
NumServer == \/ Server46_02 \/ Server52_02 \/ Server57_03
             \/ ServerIs \/ Server59_01 \/ Server59_02

NumClient(c) == \/ Client46_02(c) \/ ServeRequest(c) \/ Client52_02(c)
                \/ Client57_03(c) \/ ClientIs(c) \/ Client59_01(c) \/ Client59_02(c)

NumStep == NumServer \/ \E c \in Runs : NumClient(c) \/ KillClient(c)
----------------------------------------------------------------------------
NumTypeOK ==
  /\ sat \in {"off", "accept", "open", "read", "reply", "bad", "advance", "gone"}
  /\ seq \in Nat /\ cur \in Runs \cup {NoOne}
  /\ queue \in Seq(Runs) /\ open \subseteq Runs /\ workers \subseteq Runs
  /\ names \subseteq Pids /\ target \in Pids \cup {NoOne}
  /\ box \in [Boxes -> Seq([run : Runs, num : Nat])]
  /\ cat \in [Runs -> Idle \cup {"open", "send", "newline", "wait"}]
  /\ pid \in [Runs -> Pids \cup {NoOne}] /\ len \in [Runs -> Lengths \cup {0}]
  /\ sent \in [Runs -> {"nothing", "number", "all"}]
  /\ got \in [Runs -> [run : Runs, num : Nat] \cup {NoOne}]
  /\ given \in [Runs -> Nat \cup {NoOne}]

\* Nobody was told that an earlier run with its pid had been killed.
Alone(c) == \A d \in Runs \ {c} : prog \in Queued /\ cat[d] = "killed" => pid[d] # pid[c]

(* A client prints the number that was given for its own request, and no   *)
(* two ranges overlap, whatever clients are killed, as long as no pid of a *)
(* killed client is used again.  In 46_02 seq_num never moves, and the     *)
(* ranges are all the same.                                                *)
NumbersInOrder ==
  \A c \in Runs : cat[c] = "done" /\ Alone(c) =>
    /\ got[c].run = c
    /\ \A d \in Runs \ {c} : cat[d] = "done" /\ Alone(d) /\ prog # "msgq" =>
         got[c].num + len[c] <= got[d].num \/ got[d].num + len[d] <= got[c].num

(* Every client ends with its number, unless there was no server when it   *)
(* began, it asked for nonsense, or it was killed; only 46_02's and        *)
(* 57_03's server can be brought down, by a failed fork and by a client    *)
(* that is killed.                                                         *)
ClientsServed ==
  prog \in Numbers =>
    \A c \in Runs : \/ cat[c] \in {"done", "killed", "refused"}
                    \/ cat[c] = "failed" /\ (len[c] = 0 \/ (prog \in {"msgq", "unix"} /\ faults > 0))
=============================================================================
