----------------------------- MODULE QueueRelay -----------------------------
(***************************************************************************)
(* 63_03: a child per queue hands the messages on through one pipe, so     *)
(* that select() can wait for them and for standard input together.  The   *)
(* queues and what sends to them are external.  A message is numbered and  *)
(* may be empty; a write to the pipe, no longer than PIPE_BUF, is whole.   *)
(***************************************************************************)
EXTENDS IoBase

CONSTANTS NQueues,     \* queues named in the command line
          RelayMsgs,   \* messages sent
          RelayCap     \* parts of messages that the pipe holds

ASSUME RelayAssumption ==
  NQueues \in Nat \ {0} /\ RelayMsgs \in Nat /\ RelayCap \in Nat \ {0, 1}

VARIABLES xat,         \* the parent's place
          xforked,     \* children, the i-th for the i-th queue
          xsent,       \* messages sent so far
          xempty,      \* those of them that are empty
          xqueue,      \* the queues
          xheld,       \* the message that each child has taken, 0 if none
          xpipe,       \* the pipe
          xhead,       \* the message whose head the parent has read
          xhanded,     \* history: the messages in the order of their writing
          xprinted     \* the messages reported

relayVars == <<xat, xforked, xsent, xempty, xqueue, xheld, xpipe, xhead, xhanded, xprinted>>
Queues    == 1 .. NQueues

RelayInit == /\ xat = "fork" /\ xforked = 0 /\ xsent = 0 /\ xempty = {}
             /\ xqueue = [q \in Queues |-> <<>>] /\ xheld = [q \in Queues |-> 0]
             /\ xpipe = <<>> /\ xhead = 0 /\ xhanded = <<>> /\ xprinted = <<>>

\* Of a message with a text there is a head and a body.
Parts(n) == IF n \in xempty THEN <<[part |-> "head", num |-> n]>>
            ELSE <<[part |-> "head", num |-> n], [part |-> "body", num |-> n]>>
----------------------------------------------------------------------------
RelaySent(q) ==
  /\ prog = "relay" /\ xsent < RelayMsgs /\ xsent' = xsent + 1
  /\ xqueue' = [xqueue EXCEPT ![q] = Append(@, xsent + 1)]
  /\ xempty' \in {xempty, xempty \cup {xsent + 1}}
  /\ UNCHANGED <<xat, xforked, xheld, xpipe, xhead, xhanded, xprinted, faults>>

\* Every child reads the queue of argv[1], not its own.
Source(q) == 1

\* handle_svmsg.  The children keep the pipe's read end, so that no SIGPIPE
\* ends them when the parent is gone.
HandleSvmsg(q) ==
  /\ prog = "relay" /\ q <= xforked
  /\ \/ /\ xheld[q] = 0 /\ xqueue[Source(q)] # <<>>
        /\ xheld' = [xheld EXCEPT ![q] = Head(xqueue[Source(q)])]
        /\ xqueue' = [xqueue EXCEPT ![Source(q)] = Tail(@)]
        /\ UNCHANGED <<xpipe, xhanded>>
     \/ /\ xheld[q] # 0 /\ Len(xpipe \o Parts(xheld[q])) <= RelayCap
        /\ xpipe' = xpipe \o Parts(xheld[q])
        /\ xhanded' = Append(xhanded, xheld[q]) /\ xheld' = [xheld EXCEPT ![q] = 0]
        /\ UNCHANGED xqueue
  /\ UNCHANGED <<xat, xforked, xsent, xempty, xhead, xprinted, faults>>

RelayFork == /\ xat = "fork" /\ xforked' = xforked + 1
             /\ xat' = IF xforked + 1 = NQueues THEN "select" ELSE "fork"
             /\ UNCHANGED <<xpipe, xhead, xprinted>>

\* select(), and read() of the head.
RelayHead == /\ xat = "select" /\ xpipe # <<>> /\ xat' = "body"
             /\ xhead' = Head(xpipe).num /\ xpipe' = Tail(xpipe)
             /\ UNCHANGED <<xforked, xprinted>>

\* read() of the body; that of nothing is taken for the end of the file.
RelayBody == /\ xat = "body"
             /\ IF xhead \in xempty THEN xat' = "gone" /\ UNCHANGED <<xpipe, xprinted>>
                ELSE /\ xat' = "select" /\ xpipe # <<>> /\ xpipe' = Tail(xpipe)
                     /\ xprinted' = Append(xprinted, Head(xpipe).num)
             /\ UNCHANGED <<xforked, xhead>>

RelayMain == /\ prog = "relay" /\ (RelayFork \/ RelayHead \/ RelayBody)
             /\ UNCHANGED <<xsent, xempty, xqueue, xheld, xhanded, faults>>

\* killpg() ends the children there are.
RelayForkFails == /\ prog = "relay" /\ xat = "fork" /\ Fault /\ xat' = "gone" /\ xforked' = 0
                  /\ UNCHANGED <<xsent, xempty, xqueue, xheld, xpipe, xhead, xhanded, xprinted>>

\* What comes from standard input is only reported; a read of it that fails
\* ends the parent.
RelayStdinFails == /\ prog = "relay" /\ xat = "select" /\ Fault /\ xat' = "gone"
                   /\ UNCHANGED <<xforked, xsent, xempty, xqueue, xheld, xpipe, xhead, xhanded, xprinted>>

RelayStep == \/ RelayMain \/ RelayForkFails \/ RelayStdinFails
             \/ \E q \in Queues : RelaySent(q) \/ HandleSvmsg(q)
----------------------------------------------------------------------------
(* What is reported is what the children wrote, in that order, and every   *)
(* body belongs to the head before it.                                     *)
RelayWhole ==
  /\ xprinted = SubSeq(xhanded, 1, Len(xprinted))
  /\ xat = "body" /\ xhead \notin xempty => xpipe # <<>> /\ Head(xpipe) = [part |-> "body", num |-> xhead]

(* All that is sent to the first queue is reported, in the end, unless an  *)
(* empty message or a failed call brings the parent down; what is sent to  *)
(* the others stays there.                                                 *)
RelayEnds ==
  prog = "relay" =>
    \/ xqueue[1] = <<>> /\ xprinted = xhanded /\ \A q \in Queues : xheld[q] = 0
    \/ xat = "gone" /\ (xempty # {} \/ faults > 0)
=============================================================================
