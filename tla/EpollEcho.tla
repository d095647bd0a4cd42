------------------------------ MODULE EpollEcho ------------------------------
(***************************************************************************)
(* 63_02: one process waits with epoll for datagrams, connections and      *)
(* their first data, and leaves each connection to a child.  A child       *)
(* inherits every descriptor that is open at the fork; a connection stays  *)
(* registered while any process has it open, under the number it had in    *)
(* the main process, which may belong to another one by then.              *)
(***************************************************************************)
EXTENDS IoBase, FiniteSetsExt

CONSTANTS Pollers,     \* clients that connect
          PollMsgs,    \* messages each of them sends
          MaxEvents    \* MAX_EVENTS

Udp == "udp"           \* the sockets that are registered at the start
Tcp == "tcp"

ASSUME EpollAssumption ==
  /\ IsFiniteSet(Pollers) /\ {Udp, Tcp} \cap Pollers = {}
  /\ PollMsgs \in Nat \ {0} /\ MaxEvents \in Nat \ {0}

VARIABLES mat,         \* the main process's place
          batch,       \* what the events are about that epoll_wait has returned
          edge,        \* connections with an event to be returned
          back,        \* the backlog
          tab,         \* the main process's descriptors
          reg,         \* the number a connection is registered under, 0 if none
          kid,         \* the child of each connection: none, reading, ended
          holds,       \* the connections it has open
          pcat,        \* the clients' places
          req, rep,    \* messages on the way to the server and back
          echoed,      \* what the clients have read
          dgram        \* a datagram

epollVars == <<mat, batch, edge, back, tab, reg, kid, holds, pcat, req, rep, echoed, dgram>>

Fds  == 1 .. Cardinality(Pollers)              \* of connections
None == "none"                              \* a descriptor that is not open
Free == {f \in Fds : tab[f] = None}
\* Somebody has the connection open.
Open(c)    == (\E f \in Fds : tab[f] = c) \/ \E d \in Pollers : kid[d] = "read" /\ c \in holds[d]
Ready(c)   == c \in edge /\ Open(c)
Waiting(c) == \E i \in 1 .. Len(back) : back[i] = c

EpollInit ==
  /\ mat = "wait" /\ batch = {} /\ edge = {} /\ back = <<>>
  /\ tab = [f \in Fds |-> None] /\ reg = [c \in Pollers |-> 0]
  /\ kid = [c \in Pollers |-> "none"] /\ holds = [c \in Pollers |-> {}]
  /\ pcat = [c \in Pollers |-> "new"] /\ echoed = [c \in Pollers |-> <<>>]
  /\ req = [c \in Pollers |-> <<>>] /\ rep = [c \in Pollers |-> <<>>]
  /\ dgram = "sent"
----------------------------------------------------------------------------
(* Clients, which are external: some messages, then the end of the         *)
(* connection; all their echoes, and the end of file.                      *)

Arrives(c) == edge' = IF reg[c] # 0 THEN edge \cup {c} ELSE edge
PGoto(c, a, b) == pcat[c] = a /\ pcat' = [pcat EXCEPT ![c] = b]

PollConnect(c) ==
  /\ PGoto(c, "new", "send") /\ back' = Append(back, c)
  /\ UNCHANGED <<mat, batch, edge, tab, reg, kid, holds, req, rep, echoed, dgram, faults>>

\* Everything at once, or one after the other.
PollSend(c) ==
  /\ PGoto(c, "send", "send") /\ (Open(c) \/ Waiting(c))
  /\ LET n == Len(echoed[c]) + Len(rep[c]) + Len(req[c]) IN
       n < PollMsgs /\ req' = [req EXCEPT ![c] = Append(@, n + 1)]
  /\ Arrives(c)
  /\ UNCHANGED <<mat, batch, back, tab, reg, kid, holds, rep, echoed, dgram, faults>>

PollRead(c) ==
  /\ pcat[c] = "send" /\ rep[c] # <<>>
  /\ echoed' = [echoed EXCEPT ![c] = Append(@, Head(rep[c]))]
  /\ rep' = [rep EXCEPT ![c] = Tail(@)]
  /\ UNCHANGED <<mat, batch, edge, back, tab, reg, kid, holds, pcat, req, dgram, faults>>

PollShut(c) ==
  /\ Len(echoed[c]) = PollMsgs /\ PGoto(c, "send", "shut") /\ Arrives(c)
  /\ UNCHANGED <<mat, batch, back, tab, reg, kid, holds, req, rep, echoed, dgram, faults>>

\* End of file or a reset: nobody has the connection open any more.
PollEof(c) ==
  /\ ~Open(c) /\ ~Waiting(c) /\ rep[c] = <<>>
  /\ (PGoto(c, "shut", "done") \/ PGoto(c, "send", "cut"))
  /\ UNCHANGED <<mat, batch, edge, back, tab, reg, kid, holds, req, rep, echoed, dgram, faults>>

PollKill(c) ==
  /\ Fault /\ pcat[c] \in {"send", "shut"}
  /\ pcat' = [pcat EXCEPT ![c] = "killed"] /\ Arrives(c)
  /\ UNCHANGED <<mat, batch, back, tab, reg, kid, holds, req, rep, echoed, dgram>>

----------------------------------------------------------------------------
(* The server.                                                             *)

Closed(c) == pcat[c] \in {"shut", "killed"}

\* As many events as there are, or as the list holds.
EpollWait ==
  LET es == {c \in Pollers : Ready(c)}
              \cup (IF back # <<>> THEN {Tcp} ELSE {})
              \cup (IF dgram = "sent" THEN {Udp} ELSE {}) IN
  /\ mat = "wait" /\ es # {} /\ mat' = "deal"
  /\ batch' \in kSubset(Min({MaxEvents, Cardinality(es)}), es)
  /\ edge' = edge \ batch'
  /\ UNCHANGED <<back, tab, reg, kid, holds, pcat, req, rep, echoed, dgram, faults>>

Deal(e) == /\ mat = "deal" /\ e \in batch /\ batch' = batch \ {e}
           /\ mat' = IF batch = {e} THEN "wait" ELSE "deal"

EchoDatagram ==
  /\ Deal(Udp) /\ dgram' = "echoed"
  /\ UNCHANGED <<edge, back, tab, reg, kid, holds, pcat, req, rep, echoed, faults>>

\* accept() takes the lowest number; what is there already is an event.
AcceptRegister ==
  /\ Deal(Tcp)
  /\ LET c == Head(back)
         f == Min(Free) IN
       /\ tab' = [tab EXCEPT ![f] = c] /\ reg' = [reg EXCEPT ![c] = f]
       /\ edge' = IF req[c] # <<>> \/ Closed(c) THEN edge \cup {c} ELSE edge
  /\ back' = Tail(back)
  /\ UNCHANGED <<kid, holds, pcat, req, rep, echoed, dgram, faults>>

\* The child reads the connection that has c's number by now.  It has every
\* connection open that the main process has; that one closes the number.
ForkChild(c) ==
  /\ Deal(c) /\ tab[reg[c]] # None
  /\ kid' = [kid EXCEPT ![tab[reg[c]]] = "read"]
  /\ holds' = [holds EXCEPT ![tab[reg[c]]] = {tab[g] : g \in Fds} \ {None}]
  /\ tab' = [tab EXCEPT ![reg[c]] = None]
  /\ UNCHANGED <<edge, back, reg, pcat, req, rep, echoed, dgram, faults>>

\* The number is not open: the child's read() fails and it ends.
ForkStale(c) ==
  /\ Deal(c) /\ tab[reg[c]] = None
  /\ UNCHANGED <<edge, back, tab, reg, kid, holds, pcat, req, rep, echoed, dgram, faults>>

ForkFails(c) ==
  /\ Deal(c) /\ Fault /\ tab' = [tab EXCEPT ![reg[c]] = None]
  /\ UNCHANGED <<edge, back, reg, kid, holds, pcat, req, rep, echoed, dgram>>

PollMain == \/ EpollWait \/ EchoDatagram \/ AcceptRegister
            \/ \E c \in Pollers : ForkChild(c) \/ ForkStale(c)

\* handle_request: SIGPIPE or an error ends it like the end of file.
HandleRequest(c) ==
  /\ kid[c] = "read"
  /\ \/ /\ req[c] # <<>> /\ pcat[c] # "killed"
        /\ rep' = [rep EXCEPT ![c] = Append(@, Head(req[c]))]
        /\ req' = [req EXCEPT ![c] = Tail(@)]
        /\ UNCHANGED <<kid, holds>>
     \/ /\ Closed(c) /\ (req[c] = <<>> \/ pcat[c] = "killed")
        /\ kid' = [kid EXCEPT ![c] = "ended"] /\ holds' = [holds EXCEPT ![c] = {}]
        /\ UNCHANGED <<req, rep>>
  /\ UNCHANGED <<mat, batch, edge, back, tab, reg, pcat, echoed, dgram, faults>>
----------------------------------------------------------------------------
PollClient(c) == PollConnect(c) \/ PollSend(c) \/ PollRead(c) \/ PollShut(c) \/ PollEof(c)

EpollStep == \/ PollMain
             \/ \E c \in Pollers : \/ PollClient(c) \/ PollKill(c) \/ HandleRequest(c)
                                \/ ForkFails(c)
----------------------------------------------------------------------------
EpollTypeOK ==
  /\ mat \in {"wait", "deal"} /\ batch \subseteq Pollers \cup {Tcp, Udp}
  /\ edge \subseteq Pollers /\ back \in Seq(Pollers)
  /\ tab \in [Fds -> Pollers \cup {None}] /\ reg \in [Pollers -> Fds \cup {0}]
  /\ kid \in [Pollers -> {"none", "read", "ended"}] /\ holds \in [Pollers -> SUBSET Pollers]
  /\ pcat \in [Pollers -> {"new", "send", "shut", "done", "cut", "killed"}]
  /\ req \in [Pollers -> Seq(1 .. PollMsgs)] /\ rep \in [Pollers -> Seq(1 .. PollMsgs)]
  /\ echoed \in [Pollers -> Seq(1 .. PollMsgs)]
  /\ dgram \in {"sent", "echoed"}

(* Each client reads its own messages in order, though an event may be     *)
(* about a number that by now belongs to another connection.               *)
EpollOwn == \A c \in Pollers : echoed[c] = [i \in 1 .. Len(echoed[c]) |-> i]

(* Every client has all its messages echoed and then sees the end of its   *)
(* connection, unless it was killed or the fork for it failed.             *)
EpollEnds == prog = "epoll" =>
               /\ \A c \in Pollers : \/ pcat[c] \in {"done", "killed"}
                                     \/ pcat[c] = "cut" /\ faults > 0
               /\ dgram = "echoed"
=============================================================================
