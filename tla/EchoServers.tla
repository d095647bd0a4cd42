----------------------------- MODULE EchoServers -----------------------------
(***************************************************************************)
(* ud_ucase and i6d_ucase answer each datagram with its text in upper      *)
(* case, cut off where it is longer than the receiver's buffer.  us_xfr    *)
(* and 57_02, which only differ in the kind of address, copy what a        *)
(* connection brings to the server's standard output.  Datagrams of the    *)
(* UNIX domain are not lost; those of i6d_ucase may be, and it is not told *)
(* when nobody is there to take them.                                      *)
(***************************************************************************)
EXTENDS IoBase

CONSTANTS EchoMsgs,    \* messages a client sends
          EchoQueue,   \* messages or connections that wait in a socket
          LongMsgs     \* messages that are longer than BUF_SIZE

\* 0 is nobody's name.
ASSUME EchoAssumption ==
  /\ EchoMsgs \in Nat \ {0} /\ LongMsgs \subseteq 1 .. EchoMsgs
  /\ EchoQueue \in Nat \ {0} /\ 0 \notin Runs

VARIABLES eat,         \* the server's place
          ecur,        \* the datagram, or the connection, it deals with
          inbox,       \* its datagrams not yet received, or its backlog
          ecat,        \* the clients' places
          epos,        \* messages sent by them
          line,        \* replies on their way, or the bytes of a connection
          out          \* responses printed by each client; the server's output

echoVars == <<eat, ecur, inbox, ecat, epos, line, out>>
Copies   == {"usxfr", "abstract"}
Nothing  == [run |-> 0, num |-> 0, cut |-> FALSE]
EUp      == eat \notin {"off", "gone"}
EIdle    == {"new", "done", "refused", "killed"}
Over(c)  == ecat[c] \in EIdle \ {"new"}

EchoInit == /\ eat = "off" /\ ecur = Nothing /\ inbox = <<>>
            /\ ecat = [c \in Runs |-> "new"] /\ epos = [c \in Runs |-> 0]
            /\ line = [c \in Runs |-> <<>>] /\ out = [c \in Runs |-> <<>>]

EGoto(c, a, b) == ecat[c] = a /\ ecat' = [ecat EXCEPT ![c] = b]
Next1(c)       == [run |-> c, num |-> epos[c] + 1, cut |-> FALSE]
Put(c, m)      == line' = [line EXCEPT ![c] = Append(@, m)]
EClientOnly    == UNCHANGED <<eat, ecur>>

EKill(c) == /\ Fault /\ ecat[c] \notin EIdle /\ ecat' = [ecat EXCEPT ![c] = "killed"]
            /\ UNCHANGED <<eat, ecur, inbox, epos, line, out>>
----------------------------------------------------------------------------
(* Datagrams.                                                              *)

\* recvfrom() drops what does not fit into the buffer, and does not say so.
Received(m) == [m EXCEPT !.cut = @ \/ m.num \in LongMsgs]

EBind(c) == /\ EGoto(c, "new", "send")
            /\ EClientOnly /\ UNCHANGED <<inbox, epos, line, out, faults>>

ESent(c, next) == /\ EGoto(c, "send", next) /\ epos' = [epos EXCEPT ![c] = @ + 1]
                  /\ EClientOnly /\ UNCHANGED <<line, out>>

EReceive(c) ==
  /\ line[c] # <<>> /\ EGoto(c, "wait", IF epos[c] = EchoMsgs THEN "done" ELSE "send")
  /\ out' = [out EXCEPT ![c] = Append(@, Received(Head(line[c])))]
  /\ line' = [line EXCEPT ![c] = Tail(@)]
  /\ EClientOnly /\ UNCHANGED <<inbox, epos, faults>>

\* sendto() waits for room, and fails without a server.
UcaseClient(c) ==
  /\ prog = "ucase"
  /\ \/ EBind(c)
     \/ /\ EUp /\ Len(inbox) < EchoQueue /\ ESent(c, "wait")
        /\ inbox' = Append(inbox, Next1(c)) /\ UNCHANGED faults
     \/ /\ ~EUp /\ EGoto(c, "send", "refused")
        /\ EClientOnly /\ UNCHANGED <<inbox, epos, line, out, faults>>
     \/ EReceive(c)

\* A datagram is lost on its way, or because no socket is there; the client
\* waits for an answer all the same.
I6Client(c) ==
  /\ prog = "i6ucase"
  /\ \/ EBind(c)
     \/ /\ EUp /\ Len(inbox) < EchoQueue /\ ESent(c, "wait")
        /\ inbox' = Append(inbox, Next1(c)) /\ UNCHANGED faults
     \/ ESent(c, "unheard") /\ Fault /\ UNCHANGED inbox
     \/ ~EUp /\ ESent(c, "unheard") /\ UNCHANGED <<inbox, faults>>
     \/ EReceive(c)

EServerOnly == UNCHANGED <<ecat, epos>>

ETake(a, b, taken) == /\ eat = a /\ eat' = b /\ inbox # <<>>
                      /\ ecur' = taken /\ inbox' = Tail(inbox)
                      /\ EServerOnly /\ UNCHANGED <<line, out, faults>>

EStart(a) == /\ eat = "off" /\ eat' \in {a, "gone"}
             /\ EServerOnly /\ UNCHANGED <<ecur, inbox, line, out, faults>>

EAnswer == /\ eat = "send" /\ eat' = "recv" /\ Put(ecur.run, ecur)
           /\ EServerOnly /\ UNCHANGED <<ecur, inbox, out, faults>>

\* sendto() to a dead client fails, and fatal() ends the server.
UcaseServer ==
  /\ prog = "ucase"
  /\ \/ EStart("recv")
     \/ ETake("recv", "send", Received(Head(inbox)))
     \/ EAnswer /\ ~Over(ecur.run)
     \/ /\ eat = "send" /\ Over(ecur.run) /\ eat' = "gone"
        /\ EServerOnly /\ UNCHANGED <<ecur, inbox, line, out, faults>>

I6Server ==
  /\ prog = "i6ucase"
  /\ \/ EStart("recv")
     \/ ETake("recv", "send", Received(Head(inbox)))
     \/ EAnswer
     \/ /\ eat = "send" /\ eat' = "recv" /\ Fault
        /\ EServerOnly /\ UNCHANGED <<ecur, inbox, line, out>>
----------------------------------------------------------------------------
(* Connections.                                                            *)

CopyClient(c) ==
  \/ /\ EUp /\ Len(inbox) < EchoQueue /\ EGoto(c, "new", "send")
     /\ inbox' = Append(inbox, [run |-> c, num |-> 0, cut |-> FALSE])
     /\ EClientOnly /\ UNCHANGED <<epos, line, out, faults>>
  \/ /\ ~EUp /\ EGoto(c, "new", "refused")
     /\ EClientOnly /\ UNCHANGED <<inbox, epos, line, out, faults>>
  \/ /\ epos[c] < EchoMsgs /\ Len(line[c]) < EchoQueue /\ EGoto(c, "send", "send")
     /\ Put(c, Next1(c)) /\ epos' = [epos EXCEPT ![c] = @ + 1]
     /\ EClientOnly /\ UNCHANGED <<inbox, out, faults>>
  \/ /\ epos[c] = EchoMsgs /\ EGoto(c, "send", "done")
     /\ EClientOnly /\ UNCHANGED <<inbox, epos, line, out, faults>>

UsXfrClient(c)  == prog = "usxfr" /\ CopyClient(c)
Client57_02(c) == prog = "abstract" /\ CopyClient(c)

\* One read() and the write() of what it has brought.
CopyBlock == /\ eat = "copy" /\ eat' = "copy" /\ line[ecur.run] # <<>>
             /\ line' = [line EXCEPT ![ecur.run] = Tail(@)]
             /\ out' = [out EXCEPT ![ecur.run] = Append(@, Head(line[ecur.run]))]
             /\ EServerOnly /\ UNCHANGED <<ecur, inbox, faults>>

\* End of file, once the client has closed its end and all has been read.
CopyEof == /\ eat = "copy" /\ eat' = "accept"
           /\ line[ecur.run] = <<>> /\ Over(ecur.run)
           /\ EServerOnly /\ UNCHANGED <<ecur, inbox, line, out, faults>>

\* Faulty: the connection is closed when nothing is there to be read.
CopyServerHasty == \/ EStart("accept")
                   \/ ETake("accept", "copy", Head(inbox))
                   \/ CopyBlock
                   \/ /\ eat = "copy" /\ eat' = "accept" /\ line[ecur.run] = <<>>
                      /\ EServerOnly /\ UNCHANGED <<ecur, inbox, line, out, faults>>

CopyServer == EStart("accept") \/ ETake("accept", "copy", Head(inbox)) \/ CopyBlock \/ CopyEof

UsXfrServer  == prog = "usxfr" /\ CopyServer
Server57_02 == prog = "abstract" /\ CopyServer
----------------------------------------------------------------------------
EchoServer == UcaseServer \/ I6Server \/ UsXfrServer \/ Server57_02

EchoClient(c) == UcaseClient(c) \/ I6Client(c) \/ UsXfrClient(c) \/ Client57_02(c)

EchoStep == EchoServer \/ \E c \in Runs : EchoClient(c) \/ EKill(c)
----------------------------------------------------------------------------
EchoTypeOK ==
  LET Msg == [run : Runs, num : 0 .. EchoMsgs, cut : BOOLEAN] IN
  /\ eat \in {"off", "recv", "send", "accept", "copy", "gone"}
  /\ ecur \in Msg \cup {Nothing} /\ inbox \in Seq(Msg)
  /\ ecat \in [Runs -> EIdle \cup {"send", "wait", "unheard"}] /\ epos \in [Runs -> 0 .. EchoMsgs]
  /\ line \in [Runs -> Seq(Msg)] /\ out \in [Runs -> Seq(Msg)]

(* What comes back to a client, or out of a connection, is what that very  *)
(* client has sent, in its order, with nothing missing in between; and a   *)
(* connection is closed with all of it written.  A message comes back      *)
(* whole unless it is a datagram longer than BUF_SIZE: it is cut off, as   *)
(* ud_ucase_cl.c says ("May be longer than BUF_SIZE").                     *)
EchoOwn ==
  prog \in Echoes =>
    \A c \in Runs :
      /\ Len(out[c]) <= epos[c]
      /\ out[c] = [i \in 1 .. Len(out[c]) |->
                     [run |-> c, num |-> i, cut |-> prog \notin Copies /\ i \in LongMsgs]]
      /\ prog \in Copies /\ eat = "accept" /\ ecur.run = c => Len(out[c]) = epos[c]

(* Every client is answered, and all of a connection is written, unless    *)
(* there was no server, it was killed, a datagram of i6d_ucase was lost,   *)
(* or a killed client took ud_ucase's server down.                         *)
EchoesEnd ==
  prog \in Echoes =>
    \A c \in Runs : \/ ecat[c] = "done" /\ Len(out[c]) = EchoMsgs
                    \/ ecat[c] \in {"killed", "refused"}
                    \/ prog = "ucase" /\ eat = "gone" /\ faults > 0
                    \/ prog = "i6ucase" /\ (ecat[c] = "unheard" \/ faults > 0)
=============================================================================
