---------------------------- MODULE NumberService ----------------------------
(***************************************************************************)
(* What a sequence-number service promises, whatever carries its messages: *)
(* a client that asks is answered once at most, in one step, with a range  *)
(* of numbers above all ranges given before it.  A service that keeps its  *)
(* number forgets none of them, unless it loses count.                     *)
(***************************************************************************)
EXTENDS Naturals

CONSTANTS Clients,     \* the names of the clients
          Lens,        \* the lengths they ask for
          None         \* no number

VARIABLES asked,       \* the length each client asks for, 0 when it does not run
          reply,       \* the first number of its range, when it has been answered
          given,       \* the ranges given, those forgotten left out
          keeps,       \* the service keeps its number when it ends
          lost,        \* it was ended before it could
          loose        \* clients that may get what an earlier one of their name asked for

vars == <<asked, reply, given, keeps, lost, loose>>

Init == /\ asked = [c \in Clients |-> 0] /\ reply = [c \in Clients |-> None]
        /\ given = {} /\ keeps \in BOOLEAN /\ lost = FALSE /\ loose = {}

Ask(c) == /\ asked[c] = 0
          /\ \E n \in Lens : asked' = [asked EXCEPT ![c] = n]
          /\ loose' \in {loose, loose \cup {c}}
          /\ UNCHANGED <<reply, given, keeps, lost>>

\* Above all that was given, unless the service has lost count.
Fresh(r) == lost \/ \A s \in given : s.from + s.len <= r.from

Ranges == [from : Nat, len : Lens]

Give(c) == /\ asked[c] # 0 /\ reply[c] = None
           /\ \E r \in given' :
                /\ r \in Ranges /\ Fresh(r)
                /\ r.len = asked[c] \/ c \in loose
                /\ reply' = [reply EXCEPT ![c] = r.from]
                /\ given' = given \cup {r}
           /\ UNCHANGED <<asked, keeps, lost, loose>>

\* A client ends, answered or not.
Leave(c) == /\ asked[c] # 0
            /\ asked' = [asked EXCEPT ![c] = 0] /\ reply' = [reply EXCEPT ![c] = None]
            /\ UNCHANGED <<given, keeps, lost, loose>>

\* A service that does not keep its number begins again.
Forget == ~keeps /\ given' = {} /\ UNCHANGED <<asked, reply, keeps, lost, loose>>

Lose == keeps /\ lost' = TRUE /\ UNCHANGED <<asked, reply, given, keeps, loose>>

Next == Forget \/ Lose \/ \E c \in Clients : Ask(c) \/ Give(c) \/ Leave(c)

Spec == Init /\ [][Next]_vars
=============================================================================
