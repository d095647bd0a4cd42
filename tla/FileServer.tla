----------------------------- MODULE FileServer -----------------------------
(***************************************************************************)
(* The file servers over message queues.  A server forks a worker for each *)
(* request, which sends the file block by block to the client's queue:     *)
(*                                                                         *)
(*   svmsg   svmsg/svmsg_file_{server,client}.c    System V queues         *)
(*   daemon  exercises/46_04_{server,client}.c     the server's id in a    *)
(*           file; an alarm guards the worker's msgsnd                     *)
(*   guarded exercises/46_05_client.c   with the daemon; alarms guard the  *)
(*           client's msgsnd and its first msgrcv too                      *)
(*   posix   exercises/52_03_file_{server,client}.c   POSIX queues         *)
(*                                                                         *)
(* Client i is the i-th one run; so is its worker.  The queue of client i  *)
(* is number i, unless a POSIX client finds that of an earlier one with    *)
(* its pid.  A server's queue is named by the start that made it.  All     *)
(* messages but the last of a file are full, so a System V queue is full   *)
(* at QueueMsgs of them, and an empty message always fits.                 *)
(***************************************************************************)
EXTENDS Integers, Sequences

CONSTANTS Programs,    \* the programs to run
          MaxRuns,     \* bound: clients run
          Pids,        \* the pids of POSIX clients
          Sizes,       \* sizes of the files asked for
          Chunk,       \* RESP_MSG_SIZE, DATA_SIZE
          QueueMsgs,   \* what a client's queue holds
          ServerMsgs,  \* what a server's queue holds
          MaxStarts,   \* bound: times the server is started
          MaxFaults    \* bound: SIGKILL, SIGINT, SIGTERM, forks and reads that fail

Missing == -1          \* there is no such file
None    == -1          \* the daemon's file does not exist
NoQueue == 0           \* an id or a name that stands for no queue

ASSUME FileAssumption ==
  /\ Programs \subseteq {"svmsg", "daemon", "guarded", "posix"}
  /\ Pids \subseteq Nat
  /\ Sizes \subseteq Nat /\ Chunk \in Nat \ {0}
  /\ {MaxRuns, QueueMsgs, ServerMsgs, MaxStarts, MaxFaults} \subseteq Nat

Runs   == 1 .. MaxRuns
Starts == 1 .. MaxStarts

VARIABLES prog,        \* the programs being run
          srv,         \* the server: place, server_id, request, errno is EINTR
          starts,      \* times it was started
          squeues,     \* the servers' queues that exist
          requests,    \* what is in the present one
          idFile,      \* what the daemon's file says
          cl,          \* the clients
          wk,          \* the workers
          exists,      \* the clients' System V queues that exist
          names,       \* the POSIX queue that a pid's name stands for
          q,           \* what is in the clients' queues
          faults       \* processes killed, signals sent, calls that failed

srvVars == <<srv, starts, squeues, requests, idFile>>
queVars == <<exists, names, q>>
vars    == <<prog, srvVars, cl, wk, queVars, faults>>

NewClient == [at |-> "none", pid |-> 0, size |-> 0, sid |-> NoQueue,
              q |-> NoQueue, alarm |-> FALSE, rung |-> FALSE,
              got |-> <<>>, tot |-> 0]
NewWorker == [at |-> "none", q |-> NoQueue, from |-> 0, sid |-> NoQueue,
              stale |-> FALSE, alarm |-> FALSE, timedOut |-> FALSE,
              broken |-> FALSE]

Init == /\ prog \in Programs
        /\ srv = [at |-> "off", sid |-> NoQueue, cur |-> 0, eintr |-> FALSE]
        /\ starts = 0 /\ squeues = {} /\ requests = <<>> /\ idFile = None
        /\ cl = [i \in Runs |-> NewClient] /\ wk = [i \in Runs |-> NewWorker]
        /\ exists = {} /\ names = [p \in Pids \cup {0} |-> NoQueue]
        /\ q = [i \in Runs |-> <<>>]
        /\ faults = 0

\* System V queues are gone for everyone when removed; a POSIX queue that is
\* unlinked can still be used by those who have it open.
SysV     == prog # "posix"
Daemon   == prog \in {"daemon", "guarded"}
Gone(k)  == SysV /\ k \notin exists
Full(k)  == Len(q[k]) >= QueueMsgs

Ended == {"file", "failure", "error", "denied", "timeout", "killed"}
Live(i) == cl[i].at \notin Ended \cup {"none"}

----------------------------------------------------------------------------
(* The server.                                                             *)

\* msgget with IPC_EXCL, or IPC_PRIVATE; mq_open takes over what is there.
ServerStart ==
  /\ srv.at = "off" /\ starts < MaxStarts
  /\ prog = "svmsg" => squeues = {}
  /\ starts' = starts + 1
  /\ \E k \in IF prog = "posix" /\ squeues # {} THEN squeues ELSE {starts + 1} :
        /\ srv' = [at |-> IF Daemon THEN "publish" ELSE "receive",
                   sid |-> k, cur |-> 0, eintr |-> FALSE]
        /\ squeues' = squeues \cup {k}
        /\ requests' = IF k \in squeues THEN requests ELSE <<>>
  /\ idFile' = IF Daemon /\ idFile = None THEN NoQueue ELSE idFile
  /\ UNCHANGED <<prog, cl, wk, queVars, faults>>

\* The id is written over what the file holds, which may be longer; then the
\* handlers are set.
ServerPublish ==
  /\ srv.at = "publish"
  /\ idFile' \in {srv.sid} \cup IF idFile \in Starts THEN {NoQueue} ELSE {}
  /\ srv' = [srv EXCEPT !.at = "receive"]
  /\ UNCHANGED <<prog, starts, squeues, requests, cl, wk, queVars, faults>>

ServerReceive ==
  /\ srv.at = "receive" /\ requests # <<>>
  /\ srv' = [srv EXCEPT !.at = "fork", !.cur = Head(requests)]
  /\ requests' = Tail(requests)
  /\ UNCHANGED <<prog, starts, squeues, idFile, cl, wk, queVars, faults>>

\* The child has the server's id, its handlers and its errno.
ServerFork ==
  /\ srv.at = "fork"
  /\ wk' = [wk EXCEPT ![srv.cur].at = "open", ![srv.cur].sid = srv.sid,
                      ![srv.cur].stale = srv.eintr]
  /\ srv' = [srv EXCEPT !.at = "receive", !.cur = 0]
  /\ UNCHANGED <<prog, starts, squeues, requests, idFile, cl, queVars, faults>>

\* The end of the handler.
ServerUnlink ==
  /\ srv.at = "unlink"
  /\ srv' = [srv EXCEPT !.at = "off"]
  /\ idFile' = None
  /\ UNCHANGED <<prog, starts, squeues, requests, cl, wk, queVars, faults>>

RemoveServerQueue == squeues' = squeues \ {srv.sid} /\ requests' = <<>>

\* A fork that fails ends the server, and loses the request; the daemon
\* leaves its queue behind.
ServerForkFails ==
  /\ srv.at = "fork" /\ faults < MaxFaults
  /\ faults' = faults + 1
  /\ srv' = [srv EXCEPT !.at = "off"]
  /\ IF Daemon THEN UNCHANGED <<squeues, requests>> ELSE RemoveServerQueue
  /\ UNCHANGED <<prog, starts, idFile, cl, wk, queVars>>

\* Faulty: every failure of msgrcv is taken for an interruption.
ServerQueueGoneRetries ==
  /\ srv.at = "receive" /\ srv.sid \notin squeues
  /\ UNCHANGED vars

\* EIDRM: a worker's handler has removed the queue.
ServerQueueGone ==
  /\ srv.at = "receive" /\ srv.sid \notin squeues
  /\ srv' = [srv EXCEPT !.at = "off"]
  /\ UNCHANGED <<prog, starts, squeues, requests, idFile, cl, wk, queVars, faults>>

Server == \/ ServerStart \/ ServerPublish \/ ServerReceive
          \/ ServerFork \/ ServerQueueGone \/ ServerUnlink

----------------------------------------------------------------------------
(* The clients.                                                            *)

\* alarm(0) if an alarm is set; what is not looked at again is reset.
ClientTo(i, place) == cl' = [cl EXCEPT ![i].at = place, ![i].sid = NoQueue,
                                       ![i].alarm = FALSE, ![i].rung = FALSE]

RemoveQueue(k) == /\ exists' = exists \ {k}
                  /\ q' = [q EXCEPT ![k] = <<>>]
                  /\ UNCHANGED names

\* Faulty: no function is registered with atexit.
AtExitLeavesQueue(i) == UNCHANGED queVars

\* exit, and what runs at exit: remove_queue of the System V clients.
AtExit(i) == IF SysV THEN RemoveQueue(cl[i].q) ELSE UNCHANGED queVars

\* A pid is free again when its process has ended.
ClientStart(i) ==
  /\ cl[i].at = "none" /\ \A j \in 1 .. i - 1 : cl[j].at # "none"
  /\ \E p \in IF SysV THEN {0} ELSE Pids, n \in Sizes \cup {Missing} :
        /\ SysV \/ \A j \in Runs : Live(j) => cl[j].pid # p
        /\ cl' = [cl EXCEPT ![i].at = "find", ![i].pid = p, ![i].size = n]
  /\ UNCHANGED <<prog, srvVars, wk, queVars, faults>>

\* msgget or mq_open of the server's queue: an error exit if there is none.
ClientFind(i) ==
  /\ ~Daemon /\ cl[i].at = "find"
  /\ IF squeues = {} THEN ClientTo(i, "error")
     ELSE \E k \in squeues : cl' = [cl EXCEPT ![i].at = "make", ![i].sid = k]
  /\ UNCHANGED <<prog, srvVars, wk, queVars, faults>>

\* The daemon's client reads the id, and creates the file if there is none.
\* The buffer handed to atoi has no terminator: the id may come out wrong.
ClientReadId(i) ==
  /\ Daemon /\ cl[i].at = "find"
  /\ \E k \in {NoQueue} \cup ({idFile} \ {None}) :
        cl' = [cl EXCEPT ![i].at = "make", ![i].sid = k]
  /\ idFile' = IF idFile = None THEN NoQueue ELSE idFile
  /\ UNCHANGED <<prog, srv, starts, squeues, requests, wk, queVars, faults>>

\* Faulty: msgget with a key, as for the server's queue.
ClientMakeByKey(i) ==
  /\ cl[i].at = "make"
  /\ cl' = [cl EXCEPT ![i].at = "send", ![i].q = 1, ![i].alarm = prog = "guarded"]
  /\ exists' = exists \cup {1}
  /\ UNCHANGED <<prog, srvVars, wk, names, q, faults>>

\* msgget with IPC_PRIVATE, or mq_open of the name made from the pid.
ClientMake(i) ==
  /\ cl[i].at = "make"
  /\ \E k \in IF SysV \/ names[cl[i].pid] = NoQueue THEN {i} ELSE {names[cl[i].pid]} :
        /\ cl' = [cl EXCEPT ![i].at = "send", ![i].q = k, ![i].alarm = prog = "guarded"]
        /\ IF SysV THEN exists' = exists \cup {k} /\ UNCHANGED names
           ELSE names' = [names EXCEPT ![cl[i].pid] = k] /\ UNCHANGED exists
  /\ UNCHANGED <<prog, srvVars, wk, q, faults>>

\* The server's queue has room, or nobody will read what is in it any more.
Room(k) == k # srv.sid \/ Len(requests) < ServerMsgs

\* The guarded client ends its alarm, waits in getchar() and sets a new one.
ClientSend(i) ==
  /\ cl[i].at = "send" /\ (~SysV \/ cl[i].sid \in squeues) /\ Room(cl[i].sid)
  /\ requests' = IF cl[i].sid = srv.sid /\ srv.sid \in squeues THEN Append(requests, i)
                 ELSE requests
  /\ cl' = [cl EXCEPT ![i].at = "first", ![i].sid = NoQueue,
                      ![i].alarm = prog = "guarded"]
  /\ UNCHANGED <<prog, srv, starts, squeues, idFile, wk, queVars, faults>>

\* The id was wrong, or the server is gone.
ClientSendFails(i) ==
  /\ cl[i].at = "send" /\ SysV /\ cl[i].sid \notin squeues
  /\ ClientTo(i, "error")
  /\ AtExit(i)
  /\ UNCHANGED <<prog, srvVars, wk, faults>>

\* The next message; only the first may say that there is no file.  A POSIX
\* client counts the type field, and not the first message.
Counted(m, first) == IF SysV THEN m.len ELSE IF first THEN 0 ELSE m.len

ClientTakes(i, first, place) ==
  \E m \in {Head(q[cl[i].q])} :
     cl' = [cl EXCEPT ![i].at = place, ![i].alarm = FALSE,
                      ![i].rung = FALSE, ![i].tot = @ + Counted(m, first),
                      ![i].got = IF m.type = "data" THEN Append(@, m) ELSE @]

\* RESP_MT_DATA: on to the next message.
ClientData(i) ==
  /\ cl[i].at \in {"first", "receive"} /\ ~Gone(cl[i].q) /\ q[cl[i].q] # <<>>
  /\ Head(q[cl[i].q]).type = "data"
  /\ ClientTakes(i, cl[i].at = "first", "receive")
  /\ q' = [q EXCEPT ![cl[i].q] = Tail(@)]
  /\ UNCHANGED <<prog, srvVars, wk, exists, names, faults>>

\* "Couldn't open".
ClientRefused(i) ==
  /\ cl[i].at = "first" /\ ~Gone(cl[i].q) /\ q[cl[i].q] # <<>>
  /\ Head(q[cl[i].q]).type = "failure"
  /\ ClientTo(i, "failure")
  /\ IF SysV THEN RemoveQueue(cl[i].q)
     ELSE q' = [q EXCEPT ![cl[i].q] = Tail(@)] /\ UNCHANGED <<exists, names>>
  /\ UNCHANGED <<prog, srvVars, wk, faults>>

\* The loop ends with any other type; a POSIX client unlinks its queue here
\* and only here.
ClientFinish(i) ==
  /\ \/ cl[i].at = "first" /\ q[cl[i].q] # <<>> /\ Head(q[cl[i].q]).type = "end"
     \/ cl[i].at = "receive" /\ q[cl[i].q] # <<>> /\ Head(q[cl[i].q]).type # "data"
  /\ ~Gone(cl[i].q)
  /\ ClientTakes(i, cl[i].at = "first", "file")
  /\ IF SysV THEN RemoveQueue(cl[i].q)
     ELSE /\ q' = [q EXCEPT ![cl[i].q] = Tail(@)]
          /\ names' = [names EXCEPT ![cl[i].pid] = NoQueue]
          /\ UNCHANGED exists
  /\ UNCHANGED <<prog, srvVars, wk, faults>>

\* EIDRM: the worker has removed the queue under its client.
ClientDenied(i) ==
  /\ cl[i].at \in {"first", "receive"} /\ Gone(cl[i].q)
  /\ ClientTo(i, "denied")
  /\ UNCHANGED <<prog, srvVars, wk, queVars, faults>>

\* SIGALRM ends a call that is blocked, with EINTR; before or after the call
\* it does nothing, and nothing guards the call then.  sa_flags is never set:
\* if it holds SA_RESETHAND the second SIGALRM kills.
ClientBlocked(i) ==
  \/ cl[i].at = "send" /\ cl[i].sid \in squeues /\ ~Room(cl[i].sid)
  \/ cl[i].at = "first" /\ ~Gone(cl[i].q) /\ q[cl[i].q] = <<>>

ClientAlarm(i) ==
  /\ cl[i].alarm
  /\ \/ /\ ClientBlocked(i)
        /\ ClientTo(i, "timeout")
        /\ AtExit(i)
     \/ /\ cl' = [cl EXCEPT ![i].alarm = FALSE, ![i].rung = TRUE]
        /\ UNCHANGED queVars
     \/ /\ cl[i].rung
        /\ ClientTo(i, "killed")
        /\ UNCHANGED queVars
  /\ UNCHANGED <<prog, srvVars, wk, faults>>

Client(i) == \/ ClientFind(i) \/ ClientReadId(i) \/ ClientMake(i) \/ ClientSend(i)
             \/ ClientSendFails(i) \/ ClientData(i)
             \/ ClientRefused(i) \/ ClientFinish(i) \/ ClientDenied(i)

----------------------------------------------------------------------------
(* The workers: serve_request.                                             *)

Block(n, from) == IF from + Chunk <= n THEN Chunk ELSE n - from

Put(i, m) == q' = [q EXCEPT ![wk[i].q] = Append(@, m)] /\ UNCHANGED <<exists, names>>

\* A child's end interrupts msgrcv if its parent is blocked in it: grim_reaper
\* puts errno back, and then msgrcv sets it to EINTR.
Sigchld(i) ==
  srv' \in {srv} \cup (IF /\ Daemon /\ srv.at = "receive" /\ requests = <<>>
                        /\ wk[i].sid = srv.sid /\ srv.sid \in squeues
                     THEN {[srv EXCEPT !.eintr = TRUE]} ELSE {})

WorkerExits(i, place) ==
  /\ wk' = [wk EXCEPT ![i] = [NewWorker EXCEPT !.at = place, !.broken = wk[i].broken,
                                               !.timedOut = wk[i].timedOut]]
  /\ Sigchld(i)

otherVars == <<prog, starts, squeues, requests, idFile, cl, faults>>

\* mq_open of the client's queue, and open of the file; alarm(5).
WorkerOpen(i) ==
  /\ wk[i].at = "open"
  /\ \/ /\ ~SysV /\ names[cl[i].pid] = NoQueue
        /\ WorkerExits(i, "dead")
     \/ /\ SysV \/ names[cl[i].pid] # NoQueue
        /\ wk' = [wk EXCEPT
                     ![i].q = IF SysV THEN cl[i].q ELSE names[cl[i].pid],
                     ![i].at = IF cl[i].size = Missing THEN "refuse" ELSE "send",
                     ![i].alarm = Daemon /\ cl[i].size # Missing]
        /\ UNCHANGED srv
  /\ UNCHANGED <<otherVars, queVars>>

\* The one message if the file cannot be opened.
WorkerRefuse(i) ==
  /\ wk[i].at = "refuse"
  /\ \/ /\ ~Gone(wk[i].q) /\ ~Full(wk[i].q)
        /\ Put(i, [type |-> "failure", of |-> i, from |-> 0, len |-> 0])
     \/ /\ Gone(wk[i].q)
        /\ UNCHANGED queVars
  /\ WorkerExits(i, "dead")
  /\ UNCHANGED otherVars

AtEof(i) == wk[i].from = cl[i].size

\* read fails, at the first block (EISDIR) or at any later one (EIO): the loop
\* ends as at the end of the file, and errno is no longer EINTR.
WorkerReadFails(i) ==
  /\ wk[i].at = "send" /\ faults < MaxFaults
  /\ wk' = [wk EXCEPT ![i].at = "stop", ![i].stale = FALSE, ![i].broken = TRUE]
  /\ faults' = faults + 1
  /\ UNCHANGED <<prog, srvVars, cl, queVars>>

\* read, and msgsnd or mq_send.
WorkerSend(i) ==
  /\ wk[i].at = "send" /\ ~AtEof(i) /\ ~Gone(wk[i].q) /\ ~Full(wk[i].q)
  /\ Put(i, [type |-> "data", of |-> i, from |-> wk[i].from,
             len |-> Block(cl[i].size, wk[i].from)])
  /\ wk' = [wk EXCEPT ![i].from = @ + Block(cl[i].size, wk[i].from)]
  /\ UNCHANGED <<otherVars, srv>>

\* The client has ended and removed its queue.
WorkerSendFails(i) ==
  /\ wk[i].at = "send" /\ ~AtEof(i) /\ Gone(wk[i].q)
  /\ wk' = [wk EXCEPT ![i].at = "stop"]
  /\ UNCHANGED <<otherVars, srv, queVars>>

\* SIGALRM ends a blocked msgsnd; anywhere else it is logged, and nothing
\* guards the calls to come.
WorkerAlarm(i) ==
  /\ wk[i].alarm
  /\ \/ /\ wk[i].at = "send" /\ ~AtEof(i) /\ ~Gone(wk[i].q) /\ Full(wk[i].q)
        /\ wk' = [wk EXCEPT ![i].at = "stop", ![i].alarm = FALSE, ![i].timedOut = TRUE]
     \/ wk' = [wk EXCEPT ![i].alarm = FALSE]
  /\ UNCHANGED <<otherVars, srv, queVars>>

LoopEnded(i) == wk[i].at = "stop" \/ (wk[i].at = "send" /\ AtEof(i))

\* Faulty (the notes' first version): errno is looked at, but not ret.
WorkerStopErrnoOnly(i) ==
  /\ LoopEnded(i)
  /\ wk' = [wk EXCEPT ![i].at = "end", ![i].alarm = FALSE]
  /\ IF wk[i].timedOut \/ wk[i].stale THEN RemoveQueue(wk[i].q) ELSE UNCHANGED queVars
  /\ UNCHANGED <<otherVars, srv>>

\* Faulty: the queue is left to a client that is believed dead.
WorkerStopKeepsQueue(i) ==
  /\ LoopEnded(i)
  /\ wk' = [wk EXCEPT ![i].at = "end", ![i].alarm = FALSE]
  /\ UNCHANGED <<otherVars, srv, queVars>>

\* alarm(0); a timeout removes the client's queue.  For an empty file ret was
\* never set, and errno may still be the parent's.
WorkerStop(i) ==
  /\ LoopEnded(i)
  /\ wk' = [wk EXCEPT ![i].at = "end", ![i].alarm = FALSE]
  /\ \/ ~wk[i].timedOut /\ UNCHANGED queVars
     \/ /\ wk[i].timedOut \/ (Daemon /\ cl[i].size = 0 /\ wk[i].stale)
        /\ RemoveQueue(wk[i].q)
  /\ UNCHANGED <<otherVars, srv>>

\* RESP_MT_END: empty on a System V queue; whole, and counted, on the other.
WorkerEnd(i) ==
  /\ wk[i].at = "end"
  /\ \/ /\ ~Gone(wk[i].q) /\ (SysV \/ ~Full(wk[i].q))
        /\ Put(i, [type |-> "end", of |-> i, from |-> wk[i].from,
                   len |-> IF SysV THEN 0 ELSE Chunk])
     \/ /\ Gone(wk[i].q)
        /\ UNCHANGED queVars
  /\ WorkerExits(i, "dead")
  /\ UNCHANGED otherVars

\* The end of the handler: by now another server may have written the file.
WorkerUnlink(i) ==
  /\ wk[i].at = "unlink"
  /\ WorkerExits(i, "killed")
  /\ idFile' = None
  /\ UNCHANGED <<prog, starts, squeues, requests, cl, queVars, faults>>

Worker(i) == \/ WorkerOpen(i) \/ WorkerRefuse(i) \/ WorkerSend(i)
             \/ WorkerSendFails(i) \/ WorkerStop(i) \/ WorkerEnd(i)
             \/ WorkerUnlink(i)

WorkerLive(i) == wk[i].at \notin {"none", "dead", "killed"}

----------------------------------------------------------------------------
(* Signals.                                                                *)

KillClient(i) == /\ Live(i) /\ faults < MaxFaults
                 /\ ClientTo(i, "killed")
                 /\ faults' = faults + 1
                 /\ UNCHANGED <<prog, srvVars, wk, queVars>>

KillWorker(i) == /\ WorkerLive(i) /\ faults < MaxFaults
                 /\ WorkerExits(i, "killed")
                 /\ faults' = faults + 1
                 /\ UNCHANGED <<prog, starts, squeues, requests, idFile, cl, queVars>>

KillServer == /\ srv.at # "off" /\ faults < MaxFaults
              /\ srv' = [srv EXCEPT !.at = "off"]
              /\ faults' = faults + 1
              /\ UNCHANGED <<prog, starts, squeues, requests, idFile, cl, wk, queVars>>

\* The daemon's handler: it removes the queue, then the file, and dies of the
\* signal; if there is no such queue it exits at once.
HandlerRemoves(k) == /\ squeues' = squeues \ {k}
                     /\ requests' = IF k = srv.sid THEN <<>> ELSE requests

TermServer ==
  /\ Daemon /\ srv.at # "off" /\ faults < MaxFaults
  /\ IF srv.at = "publish" \/ srv.sid \notin squeues
     THEN srv' = [srv EXCEPT !.at = "off"] /\ UNCHANGED <<squeues, requests>>
     ELSE srv' = [srv EXCEPT !.at = "unlink"] /\ HandlerRemoves(srv.sid)
  /\ faults' = faults + 1
  /\ UNCHANGED <<prog, starts, idFile, cl, wk, queVars>>

\* The workers have inherited the handler, and the id of the server's queue.
TermWorker(i) ==
  /\ Daemon /\ WorkerLive(i) /\ faults < MaxFaults
  /\ IF wk[i].sid \notin squeues
     THEN WorkerExits(i, "killed") /\ UNCHANGED <<squeues, requests>>
     ELSE /\ wk' = [wk EXCEPT ![i].at = "unlink"]
          /\ HandlerRemoves(wk[i].sid)
          /\ UNCHANGED srv
  /\ faults' = faults + 1
  /\ UNCHANGED <<prog, starts, idFile, cl, queVars>>

Next == \/ Server \/ ServerForkFails
        \/ \E i \in Runs : \/ ClientStart(i) \/ Client(i) \/ ClientAlarm(i)
                          \/ Worker(i) \/ WorkerAlarm(i) \/ WorkerReadFails(i)
                          \/ KillClient(i) \/ KillWorker(i) \/ TermWorker(i)
        \/ KillServer \/ TermServer

\* The server is started; it, the clients that were run and the workers are
\* scheduled.  Nothing is assumed of alarms and signals.
Fairness == /\ WF_vars(Server)
            /\ \A i \in Runs : WF_vars(Client(i)) /\ WF_vars(Worker(i))

Spec == Init /\ [][Next]_vars /\ Fairness

----------------------------------------------------------------------------
Message == [type : {"data", "failure", "end"}, of : Runs, from : Nat, len : Nat]

ClientType == [at : Ended \cup {"none", "find", "make", "send", "first", "receive"},
               pid : Pids \cup {0}, size : Sizes \cup {0, Missing},
               sid : Starts \cup {NoQueue}, q : Runs \cup {NoQueue}, alarm : BOOLEAN,
               rung : BOOLEAN, got : Seq(Message), tot : Nat]
WorkerType == [at : {"none", "open", "refuse", "send", "stop", "end", "unlink",
                     "dead", "killed"},
               q : Runs \cup {NoQueue}, from : Nat, sid : Starts \cup {NoQueue},
               stale : BOOLEAN, alarm : BOOLEAN, timedOut : BOOLEAN,
               broken : BOOLEAN]

TypeOK ==
  /\ prog \in Programs
  /\ srv \in [at : {"off", "publish", "receive", "fork", "unlink"},
              sid : Starts \cup {NoQueue}, cur : Runs \cup {0}, eintr : BOOLEAN]
  /\ starts \in 0 .. MaxStarts /\ squeues \subseteq Starts
  /\ requests \in Seq(Runs) /\ idFile \in Starts \cup {NoQueue, None}
  /\ cl \in [Runs -> ClientType] /\ wk \in [Runs -> WorkerType]
  /\ exists \subseteq Runs /\ names \in [Pids \cup {0} -> Runs \cup {NoQueue}]
  /\ q \in [Runs -> Seq(Message)]
  /\ faults \in 0 .. MaxFaults

\* An earlier POSIX client with that pid was killed and left its queue, which
\* mq_open with O_CREAT takes over with what is in it.
Inherits(i) == ~SysV /\ \E j \in 1 .. i - 1 : cl[j].pid = cl[i].pid /\ cl[j].at = "killed"

\* What a client has received are the blocks of the file it asked for, in
\* order from the first: never a block of another client's transfer, though
\* all workers run at once and pids, ids and queues are used again.
OwnBlocksInOrder ==
  \A i \in Runs : ~Inherits(i) =>
     \A k \in 1 .. Len(cl[i].got) :
        cl[i].got[k] = [type |-> "data", of |-> i, from |-> (k - 1) * Chunk,
                        len |-> Block(cl[i].size, (k - 1) * Chunk)]

\* Bytes in the first n blocks of a file of that size.
BytesOf(n, size) == IF n * Chunk <= size THEN n * Chunk ELSE size

\* A client that reports the number of bytes received has that many, and has
\* the whole file: a worker whose msgsnd fails sends its END to nobody.  Not so
\* if a read failed: as the servers' comment says, that is not diagnosed, and a
\* live client is told the end of the file after a part of it.
WholeFileReported ==
  \A i \in Runs : cl[i].at = "file" /\ ~Inherits(i) =>
     /\ cl[i].size # Missing
     /\ wk[i].broken \/ Len(cl[i].got) * Chunk >= cl[i].size
     /\ SysV => cl[i].tot = BytesOf(Len(cl[i].got), cl[i].size)

\* A client loses its queue only to its own worker's timeout, or for an empty
\* file, where 46_04's server tests a variable it never set.
DeniedByTimeout ==
  \A i \in Runs : cl[i].at = "denied" => wk[i].timedOut \/ cl[i].size = 0

\* A client comes to an end, whatever becomes of the others, unless its own
\* worker was killed or the server is gone.
ClientsEnd ==
  \A i \in Runs : cl[i].at = "find" ~>
     \/ cl[i].at \in Ended
     \/ wk[i].at = "killed"
     \/ starts > 0 /\ srv.at = "off"

\* A worker ends, whatever becomes of the server and of the others, unless its
\* own client was killed: a client that gives up has removed its queue.
WorkersEnd ==
  \A i \in Runs : wk[i].at = "open" ~>
     wk[i].at \in {"dead", "killed"} \/ cl[i].at = "killed" \/ Inherits(i)
=============================================================================
