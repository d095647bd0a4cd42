------------------------------ MODULE MqNotify ------------------------------
(***************************************************************************)
(* Readers of a POSIX message queue that are told of messages by a signal: *)
(*                                                                         *)
(*   notify    pmsg/mq_notify_sig.c    sigsuspend                          *)
(*   sigwait   exercises/52_06.c       sigwaitinfo, with all blocked       *)
(*                                                                         *)
(* The queue is external: a message for an empty queue sends the signal    *)
(* and ends the registration; a second registration fails.                 *)
(***************************************************************************)
EXTENDS Signals

CONSTANT MaxMsgs       \* bound: messages sent

ASSUME MsgsAssumption == MaxMsgs \in Nat

VARIABLES queued,      \* messages in the queue
          registered,  \* mq_notify is in force
          old,         \* there were messages before it was, not yet read
          msgs         \* messages sent

mqVars == <<queued, registered, old, msgs>>

Readers == {"notify", "sigwait"}

MqInit == /\ queued = 0 /\ registered = FALSE /\ old = FALSE /\ msgs = 0

MqGoto(a, b) == prog \in Readers /\ Goto(Main, a, b) /\ UNCHANGED <<prog, sent>>

\* SIGUSR1 for one, all signals for the other, which has registered already.
MqBlock ==
  /\ IF prog = "notify" THEN MqGoto("start", "install") ELSE MqGoto("block", "wait")
  /\ SetMask(Main, IF prog = "notify" THEN {"USR1"} ELSE Sigs)
  /\ UNCHANGED <<pend, dispositions, mqVars>>

MqInstall == /\ MqGoto("install", "register")
             /\ Catch(Main, {"USR1"})
             /\ UNCHANGED <<mask, pend, mqVars>>

MqRegister ==
  /\ IF prog = "notify" THEN MqGoto("register", "suspend") ELSE MqGoto("start", "block")
  /\ registered' = TRUE /\ old' = (queued > 0)
  /\ UNCHANGED <<mask, pend, dispositions, queued, msgs>>

\* sigsuspend has returned: the handler does nothing.
MqHandler == prog = "notify" /\ Handled(Main, {"USR1"}, "again") /\ UNCHANGED mqVars

MqFetch ==
  \E s \in pend[Main] :
    /\ MqGoto("wait", CASE s \in {"INT", "TERM"} -> "exit"
                        [] s = "USR1"            -> "again"
                        [] OTHER                 -> "wait")
    /\ pend' = [pend EXCEPT ![Main] = @ \ {s}]
    /\ UNCHANGED <<mask, dispositions, mqVars>>

\* EBUSY if the signal was not the queue's.
MqAgain == /\ MqGoto("again", IF registered THEN "failed" ELSE "drain")
           /\ registered' = TRUE
           /\ UNCHANGED <<mask, pend, dispositions, queued, old, msgs>>

\* mq_receive until EAGAIN.
MqReceive ==
  /\ MqGoto("drain", IF queued > 0 THEN "drain"
                     ELSE IF prog = "notify" THEN "suspend" ELSE "wait")
  /\ queued' = IF queued > 0 THEN queued - 1 ELSE 0
  /\ old' = (old /\ queued > 0)
  /\ UNCHANGED <<mask, pend, dispositions, registered, msgs>>

MqMain == \/ MqBlock \/ MqInstall \/ MqRegister \/ MqHandler \/ MqFetch
          \/ MqAgain \/ MqReceive

\* Somebody else's mq_send.
MqSend ==
  /\ prog \in Readers /\ Live(Main) /\ msgs < MaxMsgs
  /\ msgs' = msgs + 1 /\ queued' = queued + 1
  /\ registered' = (registered /\ queued > 0)
  /\ IF registered /\ queued = 0 THEN Raise({Main}, "USR1") ELSE UNCHANGED pend
  /\ UNCHANGED <<prog, at, mask, dispositions, sent, old>>

MqSent == SentTo({Main}, {"USR1", "INT"}) /\ UNCHANGED mqVars

MqTypeOK == /\ queued \in 0 .. MaxMsgs /\ msgs \in 0 .. MaxMsgs
            /\ registered \in BOOLEAN /\ old \in BOOLEAN

----------------------------------------------------------------------------
\* The reader never sleeps over messages without a signal to come, unless they
\* were there before it registered; it is registered whenever it sleeps on an
\* empty queue.  Its own notification does not kill it, but for the message
\* that 52_06 gets before it has blocked the signal.
NoMissedMessage ==
  prog \in Readers =>
    /\ at[Main] \in {"suspend", "wait"} /\ "USR1" \notin pend[Main] =>
          registered /\ (queued > 0 => old)
    /\ at[Main] = "killed" /\ sent = 0 => prog = "sigwait"
    /\ at[Main] = "failed" => sent > 0

MqEnds == prog \in Readers /\ queued > 0 ~> queued = 0 \/ old \/ ~Live(Main)
=============================================================================
