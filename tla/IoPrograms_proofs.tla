------------------------- MODULE IoPrograms_proofs -------------------------
(***************************************************************************)
(* What comes out is what went in, nobody goes on before those it waits    *)
(* for have done their part or were killed, and a client prints the number *)
(* that was given for its own request, from a range of its own, as long as *)
(* no pid of a killed client is used again: whatever the constants are.    *)
(***************************************************************************)
EXTENDS IoPrograms, FiniteSetTheorems, SequenceTheorems, TLAPS

----------------------------------------------------------------------------
(* The six number services.                                                *)

InHand == sat \in {"open", "read", "reply", "bad"}

\* A request of c has been sent and not yet answered.
InQueue(c) == \E i \in 1 .. Len(queue) : queue[i] = c
Pending(c) == InQueue(c) \/ c \in workers \/ (InHand /\ c = cur)

\* c has not asked yet.
Early(c) == cat[c] \in {"new", "open"} \/ (prog \in Queued /\ cat[c] = "send")

\* A run with the pid k was killed.
Spoilt(k) == prog \in Queued /\ \E d \in Runs : cat[d] = "killed" /\ pid[d] = k

PlaceInv ==
  /\ prog = "msgq" => sat \in {"off", "accept", "gone"}
  /\ prog = "pmsg" => sat \in {"off", "accept", "open", "reply", "advance"}
  /\ workers # {} => prog = "msgq"
  /\ InHand \/ sat = "advance" => cur \in Runs
  /\ prog = "msgq" /\ sat = "off" => \A c \in Runs : cat[c] \notin {"send", "newline", "wait"}
  /\ prog = "msgq" /\ sat = "gone" => \A k \in Boxes : box[k] = <<>>
  /\ prog = "pmsg" /\ sat = "reply" => target \in {pid[cur], NoOne}

ActiveInv ==
  prog \in Queued => \A c \in Runs : cat[c] \notin Idle =>
    /\ pid[c] \in Pids
    /\ \A d \in Runs \ {c} : cat[d] \notin Idle => pid[d] # pid[c]

EarlyInv == \A c \in Runs : Early(c) => given[c] = NoOne /\ ~Pending(c)

PendInv == \A c \in Runs : Pending(c) =>
             /\ given[c] = NoOne
             /\ prog \in Queued => cat[c] = "wait" \/ Spoilt(pid[c]) \/ sat = "gone"

QueueInv == \A i \in 1 .. Len(queue) :
              /\ \A j \in 1 .. Len(queue) : queue[j] = queue[i] => j = i
              /\ queue[i] \notin workers
              /\ InHand => queue[i] # cur

MailInv == \A k \in Boxes : \A i \in 1 .. Len(box[k]) :
             LET m == box[k][i]
             IN  /\ given[m.run] = m.num /\ Key(m.run) = k
                 /\ prog \in Queued /\ ~Spoilt(k) => i = 1 /\ cat[m.run] = "wait"

GrantInv ==
  prog # "msgq" =>
    /\ sat = "advance" => given[cur] = seq
    /\ \A c \in Runs : given[c] # NoOne =>
         /\ (sat = "advance" /\ c = cur) \/ given[c] + len[c] <= seq
         /\ \A d \in Runs \ {c} : given[d] # NoOne =>
              given[c] + len[c] <= given[d] \/ given[d] + len[d] <= given[c]

GotInv == \A c \in Runs : cat[c] = "done" /\ ~Spoilt(pid[c]) =>
            given[c] \in Nat /\ got[c] = [run |-> c, num |-> given[c]]

NumInv == /\ NumTypeOK /\ PlaceInv /\ ActiveInv /\ EarlyInv /\ PendInv
          /\ QueueInv /\ MailInv /\ GrantInv /\ GotInv

----------------------------------------------------------------------------
(* Sequences.                                                              *)

LEMMA ElementFacts ==
  ASSUME NEW S, NEW s \in Seq(S)
  PROVE  Len(s) \in Nat /\ \A i \in 1 .. Len(s) : s[i] \in S
OBVIOUS

LEMMA AppendFacts ==
  ASSUME NEW S, NEW s \in Seq(S), NEW e \in S
  PROVE  /\ Append(s, e) \in Seq(S) /\ Len(Append(s, e)) = Len(s) + 1
         /\ \A i \in 1 .. Len(s) : Append(s, e)[i] = s[i]
         /\ Append(s, e)[Len(s) + 1] = e
OBVIOUS

LEMMA TailFacts ==
  ASSUME NEW S, NEW s \in Seq(S), s # <<>>
  PROVE  /\ Len(s) \in Nat \ {0} /\ Head(s) = s[1] /\ Head(s) \in S
         /\ Tail(s) \in Seq(S) /\ Len(Tail(s)) = Len(s) - 1
         /\ \A i \in 1 .. Len(s) - 1 : Tail(s)[i] = s[i + 1]
OBVIOUS

\* What a queue holds when one more is put into it.
LEMMA QueueGrows ==
  ASSUME NEW q \in Seq(Runs), NEW c \in Runs
  PROVE  /\ \A d : (\E i \in 1 .. Len(Append(q, c)) : Append(q, c)[i] = d)
                     <=> (d = c \/ \E i \in 1 .. Len(q) : q[i] = d)
         /\ (/\ \A i, j \in 1 .. Len(q) : q[i] = q[j] => i = j
             /\ \A i \in 1 .. Len(q) : q[i] # c)
            => \A i, j \in 1 .. Len(Append(q, c)) : Append(q, c)[i] = Append(q, c)[j] => i = j
<1> DEFINE r == Append(q, c)
<1>1. /\ Len(q) \in Nat /\ Len(r) = Len(q) + 1 /\ r[Len(q) + 1] = c
      /\ \A i \in 1 .. Len(q) : r[i] = q[i]
  BY AppendFacts, ElementFacts
<1> HIDE DEF r
<1>2. \A d : (\E i \in 1 .. Len(r) : r[i] = d) <=> (d = c \/ \E i \in 1 .. Len(q) : q[i] = d)
  BY <1>1
<1>3. ASSUME \A i, j \in 1 .. Len(q) : q[i] = q[j] => i = j, \A i \in 1 .. Len(q) : q[i] # c,
             NEW i \in 1 .. Len(r), NEW j \in 1 .. Len(r), r[i] = r[j]
      PROVE  i = j
  <2>1. i \in 1 .. Len(q) \/ i = Len(q) + 1
    BY <1>1
  <2>2. j \in 1 .. Len(q) \/ j = Len(q) + 1
    BY <1>1
  <2> QED BY <1>1, <1>3, <2>1, <2>2
<1> QED BY <1>2, <1>3 DEF r

LEMMA NoOneFacts == NoOne \notin Nat /\ NoOne \notin Runs /\ NoOne \notin Pids
BY SeqnumAssumption DEF SeqnumAssumption

LEMMA EmptyFacts == \A S : <<>> \in Seq(S) /\ Len(<<>>) = 0
OBVIOUS

LEMMA MessageType ==
  ASSUME NumTypeOK, NEW k \in Boxes
  PROVE  /\ box[k] \in Seq([run : Runs, num : Nat])
         /\ \A i \in 1 .. Len(box[k]) : box[k][i].run \in Runs /\ box[k][i].num \in Nat
<1>1. box[k] \in Seq([run : Runs, num : Nat])
  BY DEF NumTypeOK
<1>2. ASSUME NEW i \in 1 .. Len(box[k])
      PROVE  box[k][i].run \in Runs /\ box[k][i].num \in Nat
  <2>1. box[k][i] \in [run : Runs, num : Nat]
    BY <1>1, ElementFacts
  <2> QED BY <2>1
<1> QED BY <1>1, <1>2

LEMMA NumInvInit == NumInit => NumInv
<1> SUFFICES ASSUME NumInit PROVE NumInv
  OBVIOUS
<1> USE DEF NumInit
<1>1. NumTypeOK
  <2>1. queue \in Seq(Runs) /\ box \in [Boxes -> Seq([run : Runs, num : Nat])]
    BY EmptyFacts
  <2> QED BY <2>1 DEF NumTypeOK, Idle
<1>2. PlaceInv /\ ActiveInv
  BY DEF PlaceInv, ActiveInv, InHand, Idle, Queued
<1>3. EarlyInv /\ PendInv /\ QueueInv
  BY EmptyFacts DEF EarlyInv, PendInv, QueueInv, Pending, InQueue, InHand
<1>4. MailInv /\ GrantInv /\ GotInv
  BY EmptyFacts DEF MailInv, GrantInv, GotInv
<1> QED BY <1>1, <1>2, <1>3, <1>4 DEF NumInv

----------------------------------------------------------------------------
(* What each kind of step does to the invariant.                           *)

\* A client goes on or gives up; queues of replies may be removed.
LEMMA ClientMoves ==
  ASSUME NumInv, NumTypeOK', prog' = prog, NEW c \in Runs,
         cat[c] \in {"new", "open", "send", "newline", "wait"},
         \A d \in Runs \ {c} : cat'[d] = cat[d],
         cat'[c] \notin {"new", "open", "done"},
         cat[c] = "new" => cat'[c] \in Idle,
         cat'[c] \in {"send", "newline", "wait"} => prog # "msgq",
         cat'[c] = "send" => Early(c),
         cat[c] = "wait" /\ prog \in Queued => cat'[c] = "killed" \/ sat = "gone",
         UNCHANGED <<sat, seq, cur, queue, workers, given, pid, len, got>>,
         target' \in {target, NoOne},
         \A k \in Boxes : box'[k] \in {box[k], <<>>}
  PROVE  NumInv'
<1> USE DEF NumInv
<1>1. \A d \in Runs : /\ Pending(d)' <=> Pending(d)
                      /\ Early(d)' => Early(d)
  BY DEF Pending, InQueue, InHand, Early
<1>2. \A k : Spoilt(k) => Spoilt(k)'
  BY <1>1 DEF Spoilt
<1>3. cat[c] = "wait" /\ prog \in Queued => Spoilt(pid[c])' \/ (prog = "msgq" /\ sat = "gone")
  BY <1>1 DEF Spoilt, PlaceInv, Queued
<1>4. PlaceInv'
  BY <1>1, EmptyFacts DEF PlaceInv, InHand
<1>5. ActiveInv'
  BY <1>1 DEF ActiveInv, Idle
<1>6. EarlyInv'
  BY <1>1 DEF EarlyInv
<1>7. PendInv'
  BY <1>1, <1>2, <1>3 DEF PendInv
<1>8. QueueInv'
  BY DEF QueueInv, InHand
<1>9. MailInv'
  <2> SUFFICES ASSUME NEW k \in Boxes, NEW i \in 1 .. Len(box'[k])
               PROVE  LET m == box'[k][i]
                      IN  /\ given[m.run] = m.num /\ Key(m.run) = k
                          /\ prog \in Queued /\ ~Spoilt(k)' => i = 1 /\ cat'[m.run] = "wait"
    BY DEF MailInv, Key
  <2> DEFINE m == box[k][i]
  <2>1. box'[k] = box[k] /\ box[k] # <<>>
    BY EmptyFacts
  <2>2. m.run \in Runs
    BY <2>1, MessageType
  <2>3. /\ given[m.run] = m.num /\ Key(m.run) = k
        /\ prog \in Queued /\ ~Spoilt(k) => i = 1 /\ cat[m.run] = "wait"
    BY <2>1 DEF MailInv
  <2>4. prog \in Queued /\ m.run = c /\ cat[c] = "wait" => Spoilt(k)'
    BY <2>1, <2>3, <1>3 DEF PlaceInv, Key
  <2>5. prog \in Queued /\ ~Spoilt(k)' => i = 1 /\ cat'[m.run] = "wait"
    <3> HIDE DEF m
    <3> QED BY <2>2, <2>3, <2>4, <1>1, <1>2
  <2>6. box'[k][i] = m
    BY <2>1
  <2> HIDE DEF m
  <2> QED BY <2>3, <2>5, <2>6
<1>10. GrantInv'
  BY DEF GrantInv
<1>11. GotInv'
  BY <1>1, <1>2 DEF GotInv
<1> QED BY <1>4, <1>5, <1>6, <1>7, <1>8, <1>9, <1>10, <1>11

\* A run begins; a connection is queued at once.
LEMMA ClientBegins ==
  ASSUME NumInv, NumTypeOK', prog' = prog, prog \in Numbers, NEW c \in Runs, NEW b, NEW p, NEW n,
         cat[c] = "new", cat' = [cat EXCEPT ![c] = b], b = "send" \/ (b = "open" /\ prog = "pmsg"),
         pid' = [pid EXCEPT ![c] = p], len' = [len EXCEPT ![c] = n],
         prog \in Queued => p \in FreePids /\ queue' = queue,
         prog = "msgq" => Up,
         prog \notin Queued => queue' = Append(queue, c),
         UNCHANGED <<sat, seq, cur, workers, given, got, target, box>>
  PROVE  NumInv'
<1> USE DEF NumInv
<1>0. /\ cat \in [Runs -> Idle \cup {"open", "send", "newline", "wait"}]
      /\ pid \in [Runs -> Pids \cup {NoOne}] /\ len \in [Runs -> Lengths \cup {0}]
      /\ queue \in Seq(Runs) /\ Len(queue) \in Nat
  BY ElementFacts DEF NumTypeOK
<1>1. \A d \in Runs \ {c} : cat'[d] = cat[d] /\ pid'[d] = pid[d] /\ len'[d] = len[d]
  BY <1>0
<1>2. cat'[c] = b /\ pid'[c] = p
  BY <1>0
<1>3. given[c] = NoOne /\ ~Pending(c) /\ Early(c)
  BY DEF EarlyInv, Early
<1>4. \A d \in Runs \ {c} : Pending(d)' <=> Pending(d)
  <2>1. CASE prog \in Queued
    BY <2>1 DEF Pending, InQueue, InHand
  <2>2. CASE prog \notin Queued
    <3>0. \A d : (\E i \in 1 .. Len(Append(queue, c)) : Append(queue, c)[i] = d)
                  <=> (d = c \/ \E i \in 1 .. Len(queue) : queue[i] = d)
      BY <1>0, QueueGrows
    <3>1. \A d \in Runs \ {c} : InQueue(d)' <=> InQueue(d)
      BY <2>2, <3>0 DEF InQueue
    <3> QED BY <3>1 DEF Pending, InHand
  <2> QED BY <2>1, <2>2
<1>5. prog \in Queued => ~Pending(c)'
  BY <1>3 DEF Pending, InQueue, InHand
<1>6. \A k : Spoilt(k) <=> Spoilt(k)'
  <2>1. cat[c] # "killed" /\ cat'[c] # "killed"
    BY <1>2
  <2> QED BY <2>1, <1>1 DEF Spoilt
<1>7. PlaceInv'
  <2>1. prog = "pmsg" /\ sat = "reply" => target \in {pid'[cur], NoOne}
    <3>1. prog = "pmsg" /\ sat = "reply" => cur \in Runs \ {c}
      BY <1>3 DEF PlaceInv, Pending, InHand
    <3> QED BY <3>1, <1>1 DEF PlaceInv
  <2>2. prog = "msgq" /\ sat = "off" => \A d \in Runs : cat'[d] \notin {"send", "newline", "wait"}
    BY DEF Up
  <2> QED BY <2>1, <2>2 DEF PlaceInv, InHand
<1>8. ActiveInv'
  <2> SUFFICES ASSUME prog \in Queued PROVE ActiveInv'
    BY DEF ActiveInv
  <2>1. p \in Pids /\ \A d \in Runs : cat[d] \notin Idle => pid[d] # p
    BY DEF FreePids
  <2> QED BY <2>1, <1>1, <1>2 DEF ActiveInv
<1>9. EarlyInv'
  <2>1. \A d \in Runs \ {c} : Early(d)' <=> Early(d)
    BY <1>1 DEF Early
  <2>2. Early(c)' => prog \in Queued
    BY <1>2 DEF Early, Queued
  <2> QED BY <2>1, <2>2, <1>3, <1>4, <1>5 DEF EarlyInv
<1>10. PendInv'
  BY <1>1, <1>3, <1>4, <1>5, <1>6 DEF PendInv
<1>11. QueueInv'
  <2>1. CASE prog \in Queued
    BY <2>1 DEF QueueInv, InHand
  <2>2. CASE prog \notin Queued
    <3>1. c \notin workers /\ (InHand => c # cur) /\ \A i \in 1 .. Len(queue) : queue[i] # c
      BY <1>3 DEF Pending, InQueue
    <3>2. /\ \A i, j \in 1 .. Len(queue') : queue'[i] = queue'[j] => i = j
          /\ \A i \in 1 .. Len(queue') : queue'[i] = c \/ \E j \in 1 .. Len(queue) : queue[j] = queue'[i]
      <4>1. \A i, j \in 1 .. Len(queue) : queue[i] = queue[j] => i = j
        BY DEF QueueInv
      <4>2. /\ \A d : (\E i \in 1 .. Len(Append(queue, c)) : Append(queue, c)[i] = d)
                      <=> (d = c \/ \E i \in 1 .. Len(queue) : queue[i] = d)
            /\ \A i, j \in 1 .. Len(Append(queue, c)) :
                 Append(queue, c)[i] = Append(queue, c)[j] => i = j
        BY <4>1, <3>1, <1>0, QueueGrows
      <4>3. queue' = Append(queue, c)
        BY <2>2
      <4> QED BY <4>2, <4>3
    <3> QED BY <3>1, <3>2 DEF QueueInv, InHand
  <2> QED BY <2>1, <2>2
<1>12. MailInv'
  <2> SUFFICES ASSUME NEW k \in Boxes, NEW i \in 1 .. Len(box[k])
               PROVE  LET m == box[k][i]
                      IN  /\ given[m.run] = m.num
                          /\ (IF prog \in Queued THEN pid'[m.run] ELSE m.run) = k
                          /\ prog \in Queued /\ ~Spoilt(k)' => i = 1 /\ cat'[m.run] = "wait"
    BY DEF MailInv, Key
  <2> DEFINE m == box[k][i]
  <2>1. m.run \in Runs /\ m.num \in Nat
    BY MessageType
  <2>2. /\ given[m.run] = m.num /\ Key(m.run) = k
        /\ prog \in Queued /\ ~Spoilt(k) => i = 1 /\ cat[m.run] = "wait"
    BY DEF MailInv
  <2> HIDE DEF m
  <2>3. m.run # c
    BY <2>1, <2>2, <1>3, NoOneFacts
  <2>4. (IF prog \in Queued THEN pid'[m.run] ELSE m.run) = k /\ cat'[m.run] = cat[m.run]
    BY <2>1, <2>2, <2>3, <1>1 DEF Key
  <2> QED BY <2>2, <2>4, <1>6 DEF m
<1>13. GrantInv'
  BY <1>1, <1>3 DEF GrantInv
<1>14. GotInv'
  BY <1>1, <1>2, <1>6 DEF GotInv
<1> QED BY <1>7, <1>8, <1>9, <1>10, <1>11, <1>12, <1>13, <1>14

\* A request is queued.
LEMMA ClientEnqueues ==
  ASSUME NumInv, NumTypeOK', prog' = prog, NEW c \in Runs, prog \in Queued,
         Enqueue(c), prog = "msgq" => Up
  PROVE  NumInv'
<1> USE DEF NumInv, Enqueue, CGoto, ClientOnly, mailVars, args
<1>0. /\ cat \in [Runs -> Idle \cup {"open", "send", "newline", "wait"}]
      /\ queue \in Seq(Runs) /\ Len(queue) \in Nat
  BY ElementFacts DEF NumTypeOK
<1>1. given[c] = NoOne /\ ~Pending(c)
  BY DEF EarlyInv, Early
<1>2. \A d \in Runs \ {c} : cat'[d] = cat[d] /\ (Pending(d)' <=> Pending(d)) /\ (Early(d)' <=> Early(d))
  BY <1>0, AppendFacts DEF Pending, InQueue, InHand, Early
<1>3. cat'[c] = "wait" /\ ~Early(c)'
  BY <1>0 DEF Early
<1>4. \A k : Spoilt(k) <=> Spoilt(k)'
  BY <1>0 DEF Spoilt
<1>5. PlaceInv'
  BY DEF PlaceInv, InHand, Up
<1>6. ActiveInv'
  BY <1>2 DEF ActiveInv, Idle
<1>7. EarlyInv'
  BY <1>2, <1>3 DEF EarlyInv
<1>8. PendInv'
  BY <1>1, <1>2, <1>3, <1>4 DEF PendInv
<1>9. QueueInv'
  <2>1. c \notin workers /\ (InHand => c # cur) /\ \A i \in 1 .. Len(queue) : queue[i] # c
    BY <1>1 DEF Pending, InQueue
  <2> QED BY <2>1, <1>0, AppendFacts DEF QueueInv, InHand
<1>10. MailInv'
  BY <1>2, <1>3, <1>4, MessageType DEF MailInv, Key
<1>11. GrantInv'
  BY DEF GrantInv
<1>12. GotInv'
  BY <1>2, <1>3, <1>4 DEF GotInv
<1> QED BY <1>5, <1>6, <1>7, <1>8, <1>9, <1>10, <1>11, <1>12

\* A reply is taken from the client's own queue or connection.
LEMMA ClientReceives ==
  ASSUME NumInv, NumTypeOK', prog' = prog, NEW c \in Runs, Receives(c),
         target' \in {target, NoOne},
         \A k \in Boxes : \/ box'[k] = box[k] \/ box'[k] = <<>>
                          \/ k = Key(c) /\ box'[k] = Tail(box[k]),
         prog \in Queued => box'[pid[c]] \in {<<>>, Tail(box[pid[c]])}
  PROVE  NumInv'
<1> USE DEF NumInv
<1> DEFINE k == Key(c)
           m == box[k][1]
<1>0. /\ UNCHANGED <<sat, seq, cur, queue, open, workers, given, pid, len>>
      /\ cat[c] = "wait" /\ cat' = [cat EXCEPT ![c] = "done"]
      /\ box[k] # <<>> /\ got' = [got EXCEPT ![c] = Head(box[k])]
  BY DEF Receives, CGoto, ClientOnly, args
<1>1. cat \in [Runs -> Idle \cup {"open", "send", "newline", "wait"}]
      /\ got \in [Runs -> [run : Runs, num : Nat] \cup {NoOne}]
  BY DEF NumTypeOK
<1>2. k \in Boxes
  BY <1>0 DEF Key, Boxes, ActiveInv, Idle
<1>3. /\ 1 \in 1 .. Len(box[k]) /\ Head(box[k]) = m
      /\ m \in [run : Runs, num : Nat] /\ m.run \in Runs /\ m.num \in Nat
  <2>1. box[k] \in Seq([run : Runs, num : Nat])
    BY <1>2, MessageType
  <2>2. /\ Len(box[k]) \in Nat \ {0} /\ Head(box[k]) = box[k][1]
        /\ Head(box[k]) \in [run : Runs, num : Nat]
    BY <1>0, <2>1, TailFacts
  <2> HIDE DEF k
  <2> QED BY <2>2
<1>4. /\ given[m.run] = m.num /\ Key(m.run) = k
      /\ prog \in Queued /\ ~Spoilt(k) => cat[m.run] = "wait"
  BY <1>2, <1>3 DEF MailInv
<1>5. ~Spoilt(pid[c]) => m.run = c /\ given[c] \in Nat
  <2>1. CASE prog \in Queued
    <3>1. k = pid[c]
      BY <2>1 DEF Key
    <3>2. pid[m.run] = k
      BY <1>4, <2>1 DEF Key
    <3> HIDE DEF k, m
    <3> QED BY <1>0, <1>3, <1>4, <2>1, <3>1, <3>2 DEF ActiveInv, Idle
  <2>2. CASE prog \notin Queued
    BY <2>2, <1>3, <1>4 DEF Key
  <2> QED BY <2>1, <2>2
<1> HIDE DEF k, m
<1>6. \A d \in Runs \ {c} : cat'[d] = cat[d] /\ got'[d] = got[d]
  BY <1>0, <1>1
<1>7. cat'[c] = "done" /\ got'[c] = m
  BY <1>0, <1>1, <1>3
<1>8. \A j : Spoilt(j) <=> Spoilt(j)'
  BY <1>0, <1>6, <1>7 DEF Spoilt
<1>9. \A d \in Runs : (Pending(d)' <=> Pending(d)) /\ (Early(d)' => Early(d))
  BY <1>0, <1>6, <1>7 DEF Pending, InQueue, InHand, Early
<1>10. PlaceInv'
  <2>1. \A j \in Boxes : box[j] = <<>> => box'[j] = <<>>
    BY <1>0 DEF k
  <2> QED BY <2>1, <1>0, <1>6, <1>7 DEF PlaceInv, InHand
<1>11. ActiveInv'
  BY <1>0, <1>6, <1>7 DEF ActiveInv, Idle
<1>12. EarlyInv'
  BY <1>0, <1>9 DEF EarlyInv
<1>13. PendInv'
  <2>1. Pending(c) => given[c] = NoOne
    BY DEF PendInv
  <2>2. Pending(c) => Spoilt(pid[c])
    BY <2>1, <1>5, NoOneFacts
  <2> QED BY <2>2, <1>0, <1>6, <1>8, <1>9 DEF PendInv
<1>14. QueueInv'
  BY <1>0 DEF QueueInv, InHand
<1>15. GrantInv'
  BY <1>0 DEF GrantInv
<1>16. GotInv'
  <2>1. ~Spoilt(pid[c]) => given[c] \in Nat /\ got'[c] = [run |-> c, num |-> given[c]]
    <3>1. m = [run |-> m.run, num |-> m.num]
      BY <1>3
    <3> QED BY <3>1, <1>3, <1>4, <1>5, <1>7
  <2> QED BY <2>1, <1>0, <1>6, <1>7, <1>8 DEF GotInv
<1>17. MailInv'
  <2> SUFFICES ASSUME NEW j \in Boxes, NEW i \in 1 .. Len(box'[j])
               PROVE  LET n == box'[j][i]
                      IN  /\ given[n.run] = n.num /\ Key(n.run) = j
                          /\ prog \in Queued /\ ~Spoilt(j) => i = 1 /\ cat'[n.run] = "wait"
    BY <1>0, <1>8 DEF MailInv, Key
  <2>1. PICK h \in 1 .. Len(box[j]) :
          box'[j][i] = box[j][h] /\ ((box'[j] = box[j] /\ h = i) \/ (box'[j] = Tail(box[j]) /\ h = i + 1))
    <3>1. box[j] \in Seq([run : Runs, num : Nat])
      BY MessageType
    <3>2. CASE box'[j] = box[j]
      BY <3>2
    <3>3. CASE box'[j] # box[j] /\ box'[j] = Tail(box[j]) /\ box[j] # <<>>
      <4>1. i \in 1 .. Len(box[j]) - 1 /\ Len(box[j]) \in Nat
        BY <3>1, <3>3, TailFacts
      <4>2. i + 1 \in 1 .. Len(box[j]) /\ box'[j][i] = box[j][i + 1]
        BY <3>1, <3>3, <4>1, TailFacts
      <4> QED BY <3>3, <4>2
    <3>4. CASE box'[j] = <<>>
      BY <3>4, EmptyFacts
    <3>5. box[j] = <<>> => box'[j] = <<>>
      BY <1>0 DEF k
    <3> QED BY <3>2, <3>3, <3>4, <3>5
  <2> DEFINE n == box[j][h]
  <2>2. n.run \in Runs
    BY MessageType
  <2>3. /\ given[n.run] = n.num /\ Key(n.run) = j
        /\ prog \in Queued /\ ~Spoilt(j) => h = 1 /\ cat[n.run] = "wait"
    BY DEF MailInv
  <2> HIDE DEF n
  <2>4. ASSUME prog \in Queued, ~Spoilt(j) PROVE i = 1 /\ cat'[n.run] = "wait"
    <3>1. h = 1 /\ cat[n.run] = "wait" /\ pid[n.run] = j
      BY <2>3, <2>4 DEF Key
    <3>2. box'[j] = box[j] /\ i = 1
      <4>1. i # 0
        OBVIOUS
      <4> QED BY <2>1, <3>1, <4>1
    <3>3. n.run # c
      <4>1. CASE n.run = c
        <5>1. box[j] \in Seq([run : Runs, num : Nat]) /\ box[j] # <<>>
          <6>1. box[j] \in Seq([run : Runs, num : Nat])
            BY MessageType
          <6>2. box[j] = <<>> => 1 .. Len(box[j]) = {}
            BY EmptyFacts
          <6> QED BY <6>1, <6>2
        <5>2. Len(Tail(box[j])) # Len(box[j])
          BY <5>1, TailFacts
        <5>3. box'[j] \in {<<>>, Tail(box[j])}
          BY <4>1, <3>1, <2>4
        <5> QED BY <5>1, <5>2, <5>3, <3>2
      <4> QED BY <4>1
    <3> QED BY <3>1, <3>2, <3>3, <2>2, <1>6
  <2> QED BY <2>1, <2>3, <2>4 DEF n
<1> QED BY <1>10, <1>11, <1>12, <1>13, <1>14, <1>15, <1>16, <1>17

\* The answer to r's request is the first message in its queue, if no run with
\* its pid was killed.
LEMMA MailAnswered ==
  ASSUME NumInv, prog' = prog, NEW r \in Runs, Pending(r), sat # "gone",
         given' = [given EXCEPT ![r] = seq], UNCHANGED <<cat, pid>>,
         \/ box' = box
         \/ box' = [box EXCEPT ![Key(r)] = Append(@, [run |-> r, num |-> seq])]
  PROVE  MailInv'
<1> USE DEF NumInv
<1> DEFINE a == [run |-> r, num |-> seq]
<1>0. /\ box \in [Boxes -> Seq([run : Runs, num : Nat])] /\ given \in [Runs -> Nat \cup {NoOne}]
      /\ seq \in Nat
  BY DEF NumTypeOK
<1>1. given[r] = NoOne /\ (prog \in Queued /\ ~Spoilt(pid[r]) => cat[r] = "wait")
  BY DEF PendInv
<1>2. a \in [run : Runs, num : Nat] /\ a.run = r /\ a.num = seq
  BY <1>0
<1>3. \A k : Spoilt(k) <=> Spoilt(k)'
  BY DEF Spoilt
<1>4. given'[r] = seq /\ \A d \in Runs \ {r} : given'[d] = given[d]
  BY <1>0
<1> SUFFICES ASSUME NEW k \in Boxes, NEW i \in 1 .. Len(box'[k])
             PROVE  LET n == box'[k][i]
                    IN  /\ given'[n.run] = n.num /\ Key(n.run) = k
                        /\ prog \in Queued /\ ~Spoilt(k) => i = 1 /\ cat[n.run] = "wait"
  BY <1>3 DEF MailInv, Key
<1>5. box[k] \in Seq([run : Runs, num : Nat]) /\ Len(box[k]) \in Nat
  BY MessageType, ElementFacts
<1>6. ASSUME NEW h \in 1 .. Len(box[k])
      PROVE  /\ box[k][h].run \in Runs \ {r}
             /\ given'[box[k][h].run] = box[k][h].num /\ Key(box[k][h].run) = k
             /\ prog \in Queued /\ ~Spoilt(k) => h = 1 /\ cat[box[k][h].run] = "wait"
  <2> DEFINE m == box[k][h]
  <2>1. m.run \in Runs /\ m.num \in Nat
    BY MessageType
  <2>2. /\ given[m.run] = m.num /\ Key(m.run) = k
        /\ prog \in Queued /\ ~Spoilt(k) => h = 1 /\ cat[m.run] = "wait"
    BY DEF MailInv
  <2> HIDE DEF m
  <2>3. m.run # r
    BY <2>1, <2>2, <1>1, NoOneFacts
  <2> QED BY <2>1, <2>2, <2>3, <1>4 DEF m
<1> HIDE DEF a
<1>7. CASE box'[k] = box[k]
  BY <1>6, <1>7
<1>8. CASE k = Key(r) /\ box'[k] = Append(box[k], a)
  <2>1. /\ Len(box'[k]) = Len(box[k]) + 1 /\ box'[k][Len(box[k]) + 1] = a
        /\ \A h \in 1 .. Len(box[k]) : box'[k][h] = box[k][h]
    BY <1>2, <1>5, <1>8, AppendFacts
  <2>2. CASE i \in 1 .. Len(box[k])
    BY <2>1, <2>2, <1>6
  <2>3. CASE i \notin 1 .. Len(box[k])
    <3>1. i = Len(box[k]) + 1 /\ box'[k][i] = a
      BY <2>1, <2>3, <1>5
    <3>2. ASSUME prog \in Queued, ~Spoilt(k) PROVE i = 1 /\ cat[r] = "wait"
      <4>1. cat[r] = "wait" /\ pid[r] = k
        BY <1>1, <1>8, <3>2 DEF Key
      <4>2. ASSUME 1 \in 1 .. Len(box[k]) PROVE FALSE
        <5>1. /\ box[k][1].run \in Runs \ {r} /\ Key(box[k][1].run) = k
              /\ cat[box[k][1].run] = "wait"
          BY <1>6, <3>2, <4>2
        <5> QED BY <3>2, <4>1, <5>1 DEF ActiveInv, Idle, Key
      <4> QED BY <3>1, <4>1, <4>2, <1>5
    <3> QED BY <3>1, <3>2, <1>2, <1>4, <1>8
  <2> QED BY <2>2, <2>3
<1> QED BY <1>0, <1>7, <1>8 DEF a

\* 46_02's child answers, or finds that the queue was removed.
LEMMA ChildServes ==
  ASSUME NumInv, NumTypeOK', prog' = prog, NEW c \in Runs, ServeRequest(c)
  PROVE  NumInv'
<1> USE DEF NumInv, ServeRequest, args
<1>0. /\ prog = "msgq" /\ prog \in Queued /\ sat \in {"off", "accept", "gone"} /\ ~InHand
      /\ UNCHANGED <<sat, cat, pid, queue, cur>> /\ given \in [Runs -> Nat \cup {NoOne}]
      /\ workers' = workers \ {c} /\ c \in workers
  BY DEF PlaceInv, Queued, InHand, NumTypeOK
<1>1. Pending(c) /\ given[c] = NoOne /\ ~Early(c)
  BY DEF Pending, PendInv, EarlyInv
<1>2. ~Pending(c)'
  BY <1>0 DEF Pending, InQueue, InHand, QueueInv
<1>3. \A d \in Runs : Pending(d)' => Pending(d)
  BY <1>0 DEF Pending, InQueue, InHand
<1>4. \A d \in Runs \ {c} : given'[d] = given[d]
  BY <1>0
<1>5. \A k : Spoilt(k) <=> Spoilt(k)'
  BY DEF Spoilt
<1>6. PlaceInv' /\ ActiveInv' /\ QueueInv' /\ GrantInv'
  BY <1>0 DEF PlaceInv, ActiveInv, QueueInv, GrantInv, InHand, Up
<1>7. EarlyInv' /\ PendInv'
  BY <1>0, <1>1, <1>2, <1>3, <1>4, <1>5 DEF EarlyInv, PendInv, Early
<1>8. MailInv'
  <2>1. CASE Up
    BY <2>1, <1>1, MailAnswered DEF Up
  <2>2. CASE ~Up
    BY <2>2, <1>0, <1>5 DEF MailInv, Key
  <2> QED BY <2>1, <2>2
<1>9. GotInv'
  <2>1. ~(cat[c] = "done" /\ ~Spoilt(pid[c]))
    BY <1>1, NoOneFacts DEF GotInv
  <2> QED BY <2>1, <1>0, <1>4, <1>5 DEF GotInv
<1> QED BY <1>6, <1>7, <1>8, <1>9

\* The server answers the request it has in hand.
LEMMA ServerReplies ==
  ASSUME NumInv, NumTypeOK', prog' = prog, prog # "msgq", sat = "reply", sat' = "advance",
         given' = [given EXCEPT ![cur] = seq],
         \/ box' = box
         \/ box' = [box EXCEPT ![Key(cur)] = Append(@, [run |-> cur, num |-> seq])],
         UNCHANGED <<seq, cur, queue, workers, cat, pid, len, got>>
  PROVE  NumInv'
<1> USE DEF NumInv
<1>0. /\ cur \in Runs /\ given \in [Runs -> Nat \cup {NoOne}] /\ seq \in Nat /\ workers = {}
      /\ len \in [Runs -> Lengths \cup {0}]
  BY DEF PlaceInv, InHand, NumTypeOK
<1>1. Pending(cur) /\ given[cur] = NoOne /\ ~Early(cur)
  BY <1>0 DEF Pending, InHand, PendInv, EarlyInv
<1>2. ~Pending(cur)'
  BY <1>0 DEF Pending, InQueue, InHand, QueueInv
<1>3. \A d \in Runs : Pending(d)' => Pending(d)
  BY DEF Pending, InQueue, InHand
<1>4. given'[cur] = seq /\ \A d \in Runs \ {cur} : given'[d] = given[d]
  BY <1>0
<1>5. \A k : Spoilt(k) <=> Spoilt(k)'
  BY DEF Spoilt
<1>6. PlaceInv' /\ ActiveInv' /\ QueueInv'
  BY <1>0 DEF PlaceInv, ActiveInv, QueueInv, InHand
<1>7. EarlyInv' /\ PendInv'
  BY <1>0, <1>1, <1>2, <1>3, <1>4, <1>5 DEF EarlyInv, PendInv, Early
<1>8. MailInv'
  BY <1>0, <1>1, MailAnswered
<1>9. GotInv'
  <2>1. ~(cat[cur] = "done" /\ ~Spoilt(pid[cur]))
    BY <1>0, <1>1, NoOneFacts DEF GotInv
  <2> QED BY <2>1, <1>4, <1>5 DEF GotInv
<1>10. GrantInv'
  <2>1. \A d \in Runs \ {cur} : given[d] # NoOne => given[d] + len[d] <= seq
    BY DEF GrantInv
  <2>2. \A d \in Runs \ {cur} : given[d] # NoOne =>
          \A e \in Runs \ {d} : given[e] # NoOne =>
            given[d] + len[d] <= given[e] \/ given[e] + len[e] <= given[d]
    BY DEF GrantInv
  <2> QED BY <2>1, <2>2, <1>0, <1>4 DEF GrantInv
<1> QED BY <1>6, <1>7, <1>8, <1>9, <1>10

\* seq_num is advanced by what was asked for, or by more.
LEMMA ServerAdvances ==
  ASSUME NumInv, NumTypeOK', prog' = prog, prog # "msgq", sat = "advance", sat' = "accept",
         seq' >= seq + len[cur],
         UNCHANGED <<cur, queue, workers, box, cat, pid, len, got, given>>
  PROVE  NumInv'
<1> USE DEF NumInv
<1>0. /\ cur \in Runs /\ seq \in Nat /\ seq' \in Nat
      /\ given \in [Runs -> Nat \cup {NoOne}] /\ len \in [Runs -> Nat]
  <2>1. Lengths \cup {0} \subseteq Nat
    BY SeqnumAssumption DEF SeqnumAssumption
  <2>2. len \in [Runs -> Lengths \cup {0}]
    BY DEF NumTypeOK
  <2>3. len \in [Runs -> Nat]
    BY <2>1, <2>2
  <2> QED BY <2>3 DEF PlaceInv, InHand, NumTypeOK
<1>1. \A d \in Runs : Pending(d)' => Pending(d)
  BY DEF Pending, InQueue, InHand
<1>2. \A k : Spoilt(k) <=> Spoilt(k)'
  BY DEF Spoilt
<1>3. PlaceInv' /\ ActiveInv' /\ QueueInv'
  BY DEF PlaceInv, ActiveInv, QueueInv, InHand
<1>4. EarlyInv' /\ PendInv'
  BY <1>1, <1>2 DEF EarlyInv, PendInv, Early
<1>5. MailInv' /\ GotInv'
  BY <1>2 DEF MailInv, GotInv, Key
<1>6. GrantInv'
  <2>1. ASSUME NEW d \in Runs, given[d] # NoOne PROVE given[d] + len[d] <= seq'
    BY <2>1, <1>0 DEF GrantInv
  <2> QED BY <2>1 DEF GrantInv
<1> QED BY <1>3, <1>4, <1>5, <1>6

\* No number is given, and seq_num stays.
LEMMA ServerQuiet ==
  ASSUME NumInv, NumTypeOK', prog' = prog, sat # "advance", sat' # "advance",
         sat = "gone" => sat' = "gone",
         \A d \in Runs : Pending(d)' => Pending(d),
         PlaceInv', QueueInv',
         box' = box \/ box' = [k \in Boxes |-> <<>>],
         UNCHANGED <<seq, cat, pid, len, got, given>>
  PROVE  NumInv'
<1> USE DEF NumInv
<1>1. \A k : Spoilt(k) <=> Spoilt(k)'
  BY DEF Spoilt
<1>2. ActiveInv' /\ EarlyInv' /\ GrantInv' /\ GotInv'
  BY <1>1 DEF ActiveInv, EarlyInv, GrantInv, GotInv, Early
<1>3. PendInv'
  BY <1>1 DEF PendInv
<1>4. MailInv'
  <2>1. CASE box' = box
    BY <2>1, <1>1 DEF MailInv, Key
  <2>2. CASE box' = [k \in Boxes |-> <<>>]
    BY <2>2, EmptyFacts DEF MailInv
  <2> QED BY <2>1, <2>2
<1> QED BY <1>2, <1>3, <1>4

----------------------------------------------------------------------------
(* Types.                                                                  *)

Replies == Seq([run : Runs, num : Nat])

\* Queues of replies stay so when they grow, shrink or are removed.
LEMMA BoxFacts ==
  ASSUME NumTypeOK, NEW k
  PROVE  /\ \A m \in [run : Runs, num : Nat] : [box EXCEPT ![k] = Append(@, m)] \in [Boxes -> Replies]
         /\ [box EXCEPT ![k] = <<>>] \in [Boxes -> Replies]
         /\ box[k] # <<>> => [box EXCEPT ![k] = Tail(@)] \in [Boxes -> Replies]
         /\ [j \in Boxes |-> <<>>] \in [Boxes -> Replies]
<1>1. box \in [Boxes -> Replies]
  BY DEF NumTypeOK, Replies
<1>2. \A q \in Replies : /\ \A m \in [run : Runs, num : Nat] : Append(q, m) \in Replies
                         /\ q # <<>> => Tail(q) \in Replies
  BY DEF Replies
<1>3. <<>> \in Replies
  BY EmptyFacts DEF Replies
<1> QED BY <1>1, <1>2, <1>3

LEMMA HeadFacts ==
  ASSUME NumTypeOK, queue # <<>>
  PROVE  Head(queue) \in Runs /\ Tail(queue) \in Seq(Runs)
BY TailFacts DEF NumTypeOK

LEMMA ArgFacts ==
  ASSUME NumTypeOK, cur \in Runs
  PROVE  len[cur] \in Nat /\ LengthsRead \subseteq Nat /\ \A n \in LengthsRead : n >= len[cur]
<1>1. Lengths \subseteq Nat
  BY SeqnumAssumption DEF SeqnumAssumption
<1>2. len[cur] \in Lengths \cup {0}
  BY DEF NumTypeOK
<1>3. len[cur] \in Nat
  <2>1. Lengths \cup {0} \subseteq Nat
    BY <1>1
  <2> QED BY <1>2, <2>1
<1>4. ASSUME NEW n \in LengthsRead PROVE n \in Nat /\ n >= len[cur]
  <2>1. n = len[cur] \/ \E m \in Lengths : n = 10 * len[cur] + m
    BY DEF LengthsRead
  <2> QED BY <1>1, <1>3, <2>1
<1> QED BY <1>3, <1>4

\* What a client's step leaves as it was, and what it may change.
LEMMA ClientType ==
  ASSUME NumInv, prog' = prog, NEW c \in Runs, NumClient(c) \/ KillClient(c)
  PROVE  NumTypeOK'
<1> USE DEF NumInv, NumTypeOK, ClientOnly, mailVars, args, CGoto, Idle
<1>1. ASSUME NEW next \in {"send", "open"}, NEW pids \in SUBSET (Pids \cup {NoOne}),
             NEW lengths \in SUBSET Lengths, Start(c, next, pids, lengths)
      PROVE  /\ cat' \in [Runs -> Idle \cup {"open", "send", "newline", "wait"}]
             /\ pid' \in [Runs -> Pids \cup {NoOne}] /\ pid'[c] \in pids
             /\ len' \in [Runs -> Lengths \cup {0}]
             /\ UNCHANGED <<sat, seq, cur, open, workers, given, sent, got>>
  BY <1>1 DEF Start
<1>2. FreePids \in SUBSET (Pids \cup {NoOne}) /\ FreePids \subseteq Pids
      /\ {NoOne} \in SUBSET (Pids \cup {NoOne}) /\ Lengths \in SUBSET Lengths
      /\ Lengths \ {0} \in SUBSET Lengths
  BY DEF FreePids
<1>3. Append(queue, c) \in Seq(Runs)
  BY AppendFacts
<1>4. \A a : Refused(c, a) /\ (UNCHANGED mailVars \/ LeaveQueue(c)) => NumTypeOK'
  <2>1. [box EXCEPT ![pid[c]] = <<>>] \in [Boxes -> Seq([run : Runs, num : Nat])]
    BY BoxFacts DEF Replies
  <2> QED BY <2>1 DEF Refused, LeaveQueue
<1>5. Enqueue(c) => NumTypeOK'
  BY <1>3 DEF Enqueue
<1>6. Receives(c) => Head(box[Key(c)]) \in [run : Runs, num : Nat]
  <2>1. cat[c] = "wait" => Key(c) \in Boxes
    BY DEF ActiveInv, Key, Boxes
  <2> QED BY <2>1, TailFacts DEF Receives
<1>7. Takes(c) => NumTypeOK'
  <2> SUFFICES ASSUME Takes(c) PROVE NumTypeOK'
    OBVIOUS
  <2>1. box[Key(c)] # <<>> /\ [box EXCEPT ![Key(c)] = Tail(@)] \in [Boxes -> Replies]
    BY BoxFacts, <1>6 DEF Takes, Receives
  <2>2. box' \in [Boxes -> Seq([run : Runs, num : Nat])]
    BY <2>1 DEF Takes, Replies
  <2> QED BY <2>2, <1>6 DEF Takes, Receives
<1>8. Fails(c) => NumTypeOK'
  BY DEF Fails
<1>9. CASE Client46_02(c)
  <2>1. Start(c, "send", FreePids, Lengths) /\ UNCHANGED <<queue, mailVars>> => NumTypeOK'
    BY <1>1, <1>2
  <2> QED BY <2>1, <1>4, <1>5, <1>7, <1>8, <1>9 DEF Client46_02
<1>10. CASE ServeRequest(c)
  <2>1. [run |-> c, num |-> seq] \in [run : Runs, num : Nat]
    OBVIOUS
  <2>2. [box EXCEPT ![Key(c)] = Append(@, [run |-> c, num |-> seq])]
          \in [Boxes -> Seq([run : Runs, num : Nat])]
    BY <2>1, BoxFacts DEF Replies
  <2> QED BY ZenonT(60), <1>10, <2>2 DEF ServeRequest
<1>11. CASE Client52_02(c)
  <2>1. Start(c, "open", FreePids, Lengths \ {0}) /\ names' = names \cup {pid'[c]}
        /\ UNCHANGED <<queue, target, box>> => NumTypeOK'
    BY <1>1, <1>2
  <2>2. CGoto(c, "open", "send") /\ ClientOnly /\ UNCHANGED <<queue, mailVars, args, sent, got>>
        => NumTypeOK'
    OBVIOUS
  <2>3. Receives(c) /\ LeaveQueue(c) => NumTypeOK'
    <3> SUFFICES ASSUME Receives(c), LeaveQueue(c) PROVE NumTypeOK'
      OBVIOUS
    <3>1. box' \in [Boxes -> Seq([run : Runs, num : Nat])]
      BY <1>6, BoxFacts DEF LeaveQueue, Replies
    <3> QED BY <3>1, <1>6 DEF Receives, LeaveQueue
  <2> QED BY <2>1, <2>2, <2>3, <1>4, <1>5, <1>11 DEF Client52_02
<1>12. \A lengths \in SUBSET Lengths : Connect(c, lengths) => NumTypeOK'
  BY <1>1, <1>2, <1>3 DEF Connect
<1>13. \A a, b, what : Write(c, a, b, what) /\ b \in {"newline", "wait"} /\ what \in {"number", "all"}
                         => NumTypeOK'
  BY DEF Write
<1>14. CASE Client57_03(c)
  BY <1>2, <1>4, <1>7, <1>8, <1>12, <1>13, <1>14 DEF Client57_03, Cut
<1>15. CASE LineClient(c)
  BY <1>2, <1>4, <1>7, <1>8, <1>12, <1>13, <1>15 DEF LineClient, Cut
<1>16. CASE KillClient(c)
  BY <1>16 DEF KillClient
<1> QED BY <1>9, <1>10, <1>11, <1>14, <1>15, <1>16
        DEF NumClient, ClientIs, Client59_01, Client59_02

LEMMA ServerType ==
  ASSUME NumInv, prog' = prog, NumServer
  PROVE  NumTypeOK'
<1>0. /\ InHand \/ sat = "advance" => cur \in Runs
      /\ cur \in Runs => len[cur] \in Nat /\ LengthsRead \subseteq Nat
  BY ArgFacts DEF NumInv, PlaceInv
<1> USE DEF NumInv, NumTypeOK, ServerOnly, args, mailVars, InHand
<1>1. CASE Server46_02
  <2>1. /\ queue # <<>> => Head(queue) \in Runs /\ Tail(queue) \in Seq(Runs)
        /\ <<>> \in Seq(Runs) /\ [j \in Boxes |-> <<>>] \in [Boxes -> Seq([run : Runs, num : Nat])]
    BY HeadFacts, EmptyFacts
  <2> QED BY <1>1, <2>1 DEF Server46_02, Fault
<1>2. CASE Server52_02
  <2>1. queue # <<>> => Head(queue) \in Runs /\ Tail(queue) \in Seq(Runs)
    BY HeadFacts
  <2>2. sat \in {"open", "reply", "advance"} => cur \in Runs
    BY <1>0
  <2>3. sat = "advance" => seq + len[cur] \in Nat
    BY <1>0
  <2>4. sat = "reply" => [box EXCEPT ![target] = Append(@, [run |-> cur, num |-> seq])]
                           \in [Boxes -> Seq([run : Runs, num : Nat])]
    BY ZenonT(60), <2>2, BoxFacts DEF Replies
  <2> QED BY ZenonT(60), <1>2, <2>1, <2>2, <2>3, <2>4 DEF Server52_02
<1>3. CASE Listen
  BY <1>3 DEF Listen
<1>4. CASE Accept
  <2>1. Head(queue) \in Runs /\ Tail(queue) \in Seq(Runs)
    BY <1>4, HeadFacts DEF Accept
  <2> QED BY <1>4, <2>1 DEF Accept
<1>5. CASE Dies
  BY <1>5, EmptyFacts DEF Dies
<1>6. ASSUME NEW ok, ReadRequest(ok) PROVE NumTypeOK'
  BY <1>6 DEF ReadRequest
<1>7. CASE Discard(open) \/ Discard(open \ {cur})
  BY <1>7 DEF Discard
<1>8. CASE SendReply
  <2>1. cur \in Runs
    BY <1>0, <1>8 DEF SendReply
  <2>2. box' \in [Boxes -> Seq([run : Runs, num : Nat])]
    BY <1>8, <2>1, BoxFacts DEF SendReply, Replies
  <2> QED BY <1>8, <2>1, <2>2 DEF SendReply
<1>9. CASE Advance
  <2>1. cur \in Runs
    BY <1>0, <1>9 DEF Advance
  <2>2. seq' \in Nat
    BY <1>0, <1>9, <2>1 DEF Advance
  <2> QED BY <1>9, <2>2 DEF Advance
<1>10. ReadLength => \E ok : ReadRequest(ok)
  BY DEF ReadLength
<1>11. CASE Server57_03
  BY <1>3, <1>4, <1>5, <1>6, <1>7, <1>8, <1>9, <1>11 DEF Server57_03
<1>12. CASE LineServer
  BY <1>3, <1>4, <1>6, <1>7, <1>8, <1>9, <1>10, <1>12 DEF LineServer
<1> QED BY <1>1, <1>2, <1>11, <1>12 DEF NumServer, ServerIs, Server59_01, Server59_02

----------------------------------------------------------------------------
(* The invariant is kept.                                                  *)

LEMMA RefusedNext ==
  ASSUME NumInv, NumTypeOK', prog' = prog, NEW c \in Runs, NEW a \in {"new", "open"},
         Refused(c, a), UNCHANGED mailVars \/ LeaveQueue(c)
  PROVE  NumInv'
<1>1. target' \in {target, NoOne} /\ \A k \in Boxes : box'[k] \in {box[k], <<>>}
  <2>1. box \in [Boxes -> Seq([run : Runs, num : Nat])]
    BY DEF NumInv, NumTypeOK
  <2> QED BY <2>1 DEF LeaveQueue, mailVars
<1>2. /\ cat[c] = a /\ cat'[c] = "refused" /\ \A d \in Runs \ {c} : cat'[d] = cat[d]
      /\ UNCHANGED <<sat, seq, cur, queue, workers, given, pid, len, got>>
  BY DEF NumInv, NumTypeOK, Refused, CGoto, ClientOnly, args
<1>3. "refused" \in Idle
  BY DEF Idle
<1> QED BY <1>1, <1>2, <1>3, ClientMoves

LEMMA FailsNext ==
  ASSUME NumInv, NumTypeOK', prog' = prog, NEW c \in Runs, Fails(c),
         prog \in Queued => prog = "msgq" /\ ~Up
  PROVE  NumInv'
<1>1. prog \in Queued => sat = "gone"
  BY DEF Up, NumInv, PlaceInv, Fails, CGoto
<1>2. /\ cat[c] \in {"send", "newline", "wait"} /\ cat'[c] = "failed"
      /\ \A d \in Runs \ {c} : cat'[d] = cat[d]
      /\ UNCHANGED <<sat, seq, cur, queue, workers, given, pid, len, got, target, box>>
  BY DEF NumInv, NumTypeOK, Fails, CGoto, ClientOnly, args, mailVars
<1> QED BY <1>1, <1>2, ClientMoves

LEMMA WriteNext ==
  ASSUME NumInv, NumTypeOK', prog' = prog, prog \in Numbers \ Queued, NEW c \in Runs,
         NEW a \in {"send", "newline"}, NEW b \in {"newline", "wait"}, NEW what, Write(c, a, b, what)
  PROVE  NumInv'
<1>1. /\ cat[c] = a /\ cat'[c] = b /\ \A d \in Runs \ {c} : cat'[d] = cat[d]
      /\ UNCHANGED <<sat, seq, cur, queue, workers, given, pid, len, got, target, box>>
  BY DEF NumInv, NumTypeOK, Write, CGoto, ClientOnly, args, mailVars
<1>2. prog \notin Queued /\ prog # "msgq"
  BY DEF Queued
<1> QED BY <1>1, <1>2, ClientMoves

LEMMA TakesNext ==
  ASSUME NumInv, NumTypeOK', prog' = prog, NEW c \in Runs, Takes(c)
  PROVE  NumInv'
<1>1. box \in [Boxes -> Seq([run : Runs, num : Nat])]
  BY DEF NumInv, NumTypeOK
<1>2. Receives(c) /\ target' = target /\ box' = [box EXCEPT ![Key(c)] = Tail(@)]
  BY DEF Takes
<1>3. prog \in Queued => pid[c] \in Boxes /\ Key(c) = pid[c]
  BY <1>2 DEF NumInv, ActiveInv, Boxes, Key, Receives, CGoto, Idle
<1>4. \A k \in Boxes : \/ box'[k] = box[k] \/ box'[k] = <<>>
                       \/ k = Key(c) /\ box'[k] = Tail(box[k])
  BY <1>1, <1>2
<1>5. prog \in Queued => box'[pid[c]] \in {<<>>, Tail(box[pid[c]])}
  BY <1>1, <1>2, <1>3
<1> QED BY <1>2, <1>4, <1>5, ClientReceives

LEMMA ConnectNext ==
  ASSUME NumInv, NumTypeOK', prog' = prog, prog \in Numbers \ Queued, NEW c \in Runs,
         NEW lengths \in SUBSET Lengths, Connect(c, lengths)
  PROVE  NumInv'
<1>1. PICK p, n : pid' = [pid EXCEPT ![c] = p] /\ len' = [len EXCEPT ![c] = n]
  BY DEF Connect, Start
<1>2. prog # "msgq"
  BY DEF Queued
<1> QED BY <1>1, <1>2, ClientBegins DEF Connect, Start, CGoto, ClientOnly, mailVars

LEMMA StreamNext ==
  ASSUME NumInv, NumTypeOK', prog' = prog, prog \in Numbers \ Queued, NEW c \in Runs,
         \/ \E lengths \in SUBSET Lengths : Connect(c, lengths)
         \/ Refused(c, "new") /\ UNCHANGED mailVars
         \/ \E a \in {"send", "newline"} : \E b \in {"newline", "wait"} : \E what : Write(c, a, b, what)
         \/ Takes(c)
         \/ Cut(c)
  PROVE  NumInv'
BY ConnectNext, RefusedNext, WriteNext, TakesNext, FailsNext DEF Cut

LEMMA ClientNext ==
  ASSUME NumInv, prog' = prog, prog \in Numbers, NEW c \in Runs, NumClient(c) \/ KillClient(c)
  PROVE  NumInv'
<1>0. NumTypeOK'
  BY ClientType
<1>1. CASE Client46_02(c)
  <2>0. prog = "msgq" /\ prog \in Queued
    BY <1>1 DEF Client46_02, Queued
  <2>1. CASE Up /\ Start(c, "send", FreePids, Lengths) /\ UNCHANGED <<queue, mailVars>>
    <3>1. PICK p \in FreePids, n \in Lengths :
            pid' = [pid EXCEPT ![c] = p] /\ len' = [len EXCEPT ![c] = n]
      BY <2>1 DEF Start
    <3> QED BY <1>0, <2>0, <2>1, <3>1, ClientBegins DEF Start, CGoto, ClientOnly, mailVars
  <2> QED BY <1>0, <1>1, <2>0, <2>1, RefusedNext, ClientEnqueues, TakesNext, FailsNext
          DEF Client46_02
<1>2. CASE ServeRequest(c)
  BY <1>0, <1>2, ChildServes
<1>3. CASE Client52_02(c)
  <2>0. prog = "pmsg" /\ prog \in Queued /\ prog # "msgq"
    BY <1>3 DEF Client52_02, Queued
  <2>1. CASE Start(c, "open", FreePids, Lengths \ {0}) /\ UNCHANGED <<queue, target, box>>
    <3>1. PICK p \in FreePids, n \in Lengths :
            pid' = [pid EXCEPT ![c] = p] /\ len' = [len EXCEPT ![c] = n]
      BY <2>1 DEF Start
    <3> QED BY <1>0, <2>0, <2>1, <3>1, ClientBegins DEF Start, CGoto, ClientOnly
  <2>2. CASE /\ Up /\ CGoto(c, "open", "send")
             /\ ClientOnly /\ UNCHANGED <<queue, mailVars, args, sent, got>>
    <3>1. /\ cat[c] = "open" /\ cat'[c] = "send" /\ \A d \in Runs \ {c} : cat'[d] = cat[d]
          /\ UNCHANGED <<sat, seq, cur, queue, workers, given, pid, len, got, target, box>>
      BY <2>2 DEF NumInv, NumTypeOK, CGoto, ClientOnly, mailVars, args
    <3> QED BY <1>0, <2>0, <3>1, ClientMoves DEF Early
  <2>3. CASE Receives(c) /\ LeaveQueue(c)
    <3>1. box \in [Boxes -> Seq([run : Runs, num : Nat])]
      BY DEF NumInv, NumTypeOK
    <3>2. pid[c] \in Boxes
      BY <2>0, <2>3 DEF NumInv, ActiveInv, Boxes, Receives, CGoto, Idle
    <3>3. /\ \A k \in Boxes : box'[k] = box[k] \/ box'[k] = <<>>
          /\ box'[pid[c]] = <<>> /\ target' \in {target, NoOne}
      BY <2>3, <3>1, <3>2 DEF LeaveQueue
    <3> QED BY <1>0, <2>3, <3>3, ClientReceives
  <2> QED BY <1>0, <1>3, <2>0, <2>1, <2>2, <2>3, RefusedNext, ClientEnqueues DEF Client52_02
<1>4. CASE Client57_03(c)
  <2>1. prog \in Numbers \ Queued /\ Lengths \ {0} \in SUBSET Lengths
    BY <1>4 DEF Client57_03, Queued
  <2> QED BY <1>0, <1>4, <2>1, StreamNext DEF Client57_03
<1>5. CASE prog \in {"inet", "inetbuf", "inetlib"} /\ LineClient(c)
  <2>1. prog \in Numbers \ Queued /\ Lengths \in SUBSET Lengths
    BY <1>5 DEF Queued
  <2> QED BY <1>0, <1>5, <2>1, StreamNext DEF LineClient
<1>6. CASE KillClient(c)
  <2>1. cat \in [Runs -> Idle \cup {"open", "send", "newline", "wait"}]
    BY DEF NumInv, NumTypeOK
  <2>2. /\ cat[c] \in {"open", "send", "newline", "wait"} /\ cat'[c] = "killed"
        /\ \A d \in Runs \ {c} : cat'[d] = cat[d]
        /\ UNCHANGED <<sat, seq, cur, queue, workers, given, pid, len, got, target, box>>
    BY <1>6, <2>1 DEF KillClient, mailVars, args, Idle
  <2> QED BY <1>0, <2>2, ClientMoves
<1> QED BY <1>1, <1>2, <1>3, <1>4, <1>5, <1>6 DEF NumClient, ClientIs, Client59_01, Client59_02

LEMMA ServerNext ==
  ASSUME NumInv, prog' = prog, prog \in Numbers, NumServer
  PROVE  NumInv'
<1>0. NumTypeOK' /\ queue \in Seq(Runs) /\ Len(queue) \in Nat
  BY ServerType, ElementFacts DEF NumInv, NumTypeOK
<1>1. /\ PlaceInv /\ QueueInv /\ seq \in Nat
      /\ sat = "advance" => /\ cur \in Runs /\ len[cur] \in Nat
                            /\ \A n \in LengthsRead : n \in Nat /\ n >= len[cur]
  BY ArgFacts DEF NumInv, PlaceInv, NumTypeOK
\* The first request leaves the queue.
<1>2. ASSUME queue # <<>>, queue' = Tail(queue)
      PROVE  /\ Head(queue) \in Runs /\ InQueue(Head(queue)) /\ Head(queue) \notin workers
             /\ \A d \in Runs : InQueue(d)' => InQueue(d)
             /\ \A i \in 1 .. Len(queue') :
                  /\ queue'[i] # Head(queue) /\ queue'[i] \notin workers
                  /\ \A j \in 1 .. Len(queue') : queue'[j] = queue'[i] => j = i
  <2>1. /\ Len(queue) \in Nat \ {0} /\ Head(queue) = queue[1] /\ Head(queue) \in Runs
        /\ Len(queue') = Len(queue) - 1
        /\ \A i \in 1 .. Len(queue) - 1 : queue'[i] = queue[i + 1]
    BY <1>0, <1>2, TailFacts
  <2>2. \A i \in 1 .. Len(queue') : i + 1 \in 1 .. Len(queue) /\ queue'[i] = queue[i + 1]
    BY <2>1
  <2>3. 1 \in 1 .. Len(queue)
    BY <2>1
  <2> QED BY <2>1, <2>2, <2>3, <1>1 DEF QueueInv, InQueue
<1>3. ASSUME queue' = <<>> PROVE QueueInv' /\ \A d \in Runs : ~InQueue(d)'
  BY <1>3, EmptyFacts DEF QueueInv, InQueue
<1>4. CASE Server46_02
  <2>0. prog = "msgq" /\ sat \in {"off", "accept"} /\ sat' \in {"accept", "gone"}
        /\ UNCHANGED <<seq, cur, open, names, target, cat, pid, len, sent, got, given>>
    BY <1>4 DEF Server46_02, args
  <2>1. CASE sat = "off" /\ sat' = "accept" /\ UNCHANGED <<queue, workers, box, faults>>
    BY <1>0, <1>1, <2>0, <2>1, ServerQuiet DEF PlaceInv, QueueInv, InHand, Pending, InQueue
  <2>2. CASE /\ sat = "accept" /\ queue # <<>>
             /\ workers' = workers \cup {Head(queue)} /\ queue' = Tail(queue)
             /\ UNCHANGED <<sat, box, faults>>
    <3>1. \A d \in Runs : Pending(d)' => Pending(d)
      BY <1>2, <2>0, <2>2 DEF Pending, InHand
    <3>2. PlaceInv' /\ QueueInv'
      BY <1>1, <1>2, <2>0, <2>2 DEF PlaceInv, QueueInv, InHand
    <3> QED BY <1>0, <2>0, <2>2, <3>1, <3>2, ServerQuiet
  <2>3. CASE /\ sat = "accept" /\ sat' = "gone" /\ queue' = <<>> /\ box' = [k \in Boxes |-> <<>>]
             /\ UNCHANGED workers
    <3>1. \A d \in Runs : Pending(d)' => Pending(d)
      BY <1>3, <2>0, <2>3 DEF Pending, InHand
    <3>2. PlaceInv' /\ QueueInv'
      BY <1>1, <1>3, <2>0, <2>3 DEF PlaceInv, InHand
    <3> QED BY <1>0, <2>0, <2>3, <3>1, <3>2, ServerQuiet
  <2> QED BY <1>4, <2>1, <2>2, <2>3 DEF Server46_02
<1>5. CASE Server52_02
  <2>0. /\ prog = "pmsg" /\ prog # "msgq" /\ prog \in Queued
        /\ UNCHANGED <<open, workers, names, cat, pid, len, sent, got>>
    BY <1>5 DEF Server52_02, args, Queued
  <2>1. CASE sat = "off" /\ sat' = "accept" /\ UNCHANGED <<seq, cur, queue, target, box, given>>
    BY <1>0, <1>1, <2>0, <2>1, ServerQuiet DEF PlaceInv, QueueInv, InHand, Pending, InQueue
  <2>2. CASE /\ sat = "accept" /\ queue # <<>> /\ sat' = "open"
             /\ cur' = Head(queue) /\ queue' = Tail(queue)
             /\ UNCHANGED <<seq, target, box, given>>
    <3>1. \A d \in Runs : Pending(d)' => Pending(d)
      BY <1>2, <2>0, <2>2 DEF Pending, InHand
    <3>2. PlaceInv' /\ QueueInv'
      BY <1>1, <1>2, <2>0, <2>2 DEF PlaceInv, QueueInv, InHand
    <3> QED BY <1>0, <2>0, <2>2, <3>1, <3>2, ServerQuiet
  <2>3. CASE sat = "open" /\ sat' = "accept" /\ UNCHANGED <<seq, cur, queue, target, box, given>>
    BY <1>0, <1>1, <2>0, <2>3, ServerQuiet DEF PlaceInv, QueueInv, InHand, Pending, InQueue
  <2>4. CASE /\ sat = "open" /\ sat' = "reply" /\ target' = pid[cur]
             /\ UNCHANGED <<seq, cur, queue, box, given>>
    BY <1>0, <1>1, <2>0, <2>4, ServerQuiet DEF PlaceInv, QueueInv, InHand, Pending, InQueue
  <2>5. CASE /\ sat = "reply" /\ sat' = "advance"
             /\ box' = IF target = NoOne THEN box
                       ELSE [box EXCEPT ![target] = Append(@, [run |-> cur, num |-> seq])]
             /\ given' = [given EXCEPT ![cur] = seq]
             /\ UNCHANGED <<seq, cur, queue>>
    <3>1. target = NoOne \/ target = Key(cur)
      BY <1>1, <2>0, <2>5 DEF PlaceInv, Key
    <3>2. \/ box' = box
          \/ box' = [box EXCEPT ![Key(cur)] = Append(@, [run |-> cur, num |-> seq])]
      BY <2>5, <3>1
    <3> QED BY <1>0, <2>0, <2>5, <3>2, ServerReplies
  <2>6. CASE sat = "advance" /\ sat' = "accept" /\ seq' = seq + len[cur]
             /\ UNCHANGED <<cur, queue, target, box, given>>
    <3>1. seq' >= seq + len[cur]
      BY <1>1, <2>6
    <3> QED BY <1>0, <2>0, <2>6, <3>1, ServerAdvances
  <2> QED BY <1>5, <2>1, <2>2, <2>3, <2>4, <2>5, <2>6 DEF Server52_02
<1>6. CASE prog \in {"unix", "inet", "inetbuf", "inetlib"}
  <2> USE DEF ServerOnly, args
  <2>0. prog # "msgq" /\ prog # "pmsg" /\ prog \notin Queued
    BY <1>6 DEF Queued
  <2>1. CASE Listen
    BY <1>0, <1>1, <2>0, <2>1, ServerQuiet DEF Listen, PlaceInv, QueueInv, InHand, Pending, InQueue
  <2>2. CASE Accept
    <3>1. \A d \in Runs : Pending(d)' => Pending(d)
      BY <1>2, <2>0, <2>2 DEF Accept, Pending, InHand
    <3>2. PlaceInv' /\ QueueInv'
      BY <1>1, <1>2, <2>0, <2>2 DEF Accept, PlaceInv, QueueInv, InHand
    <3> QED BY <1>0, <2>0, <2>2, <3>1, <3>2, ServerQuiet DEF Accept
  <2>3. CASE Dies /\ sat # "advance"
    <3>1. \A d \in Runs : Pending(d)' => Pending(d)
      BY <1>3, <2>0, <2>3 DEF Dies, Pending, InHand
    <3>2. PlaceInv' /\ QueueInv'
      BY <1>1, <1>3, <2>0, <2>3 DEF Dies, PlaceInv, InHand
    <3> QED BY <1>0, <2>0, <2>3, <3>1, <3>2, ServerQuiet DEF Dies
  <2>4. CASE \E ok : ReadRequest(ok)
    BY <1>0, <1>1, <2>0, <2>4, ServerQuiet
       DEF ReadRequest, PlaceInv, QueueInv, InHand, Pending, InQueue
  <2>5. CASE \E left : Discard(left)
    BY <1>0, <1>1, <2>0, <2>5, ServerQuiet DEF Discard, PlaceInv, QueueInv, InHand, Pending, InQueue
  <2>6. CASE SendReply
    <3>1. Key(cur) = cur
      BY <2>0 DEF Key
    <3> QED BY <1>0, <2>0, <2>6, <3>1, ServerReplies DEF SendReply
  <2>7. CASE Advance
    <3>1. seq' >= seq + len[cur]
      BY <1>1, <2>7 DEF Advance
    <3> QED BY <1>0, <2>0, <2>7, <3>1, ServerAdvances DEF Advance
  <2>8. ReadLength => \E ok : ReadRequest(ok)
    BY DEF ReadLength
  <2>9. CASE Server57_03
    BY <2>1, <2>2, <2>3, <2>4, <2>5, <2>6, <2>7, <2>9 DEF Server57_03
  <2>10. CASE LineServer
    BY <2>1, <2>2, <2>4, <2>5, <2>6, <2>7, <2>8, <2>10 DEF LineServer
  <2>11. Server57_03 \/ LineServer
    BY <1>6 DEF NumServer, Server46_02, Server52_02, ServerIs, Server59_01, Server59_02
  <2> QED BY <2>9, <2>10, <2>11
<1>7. prog = "msgq" \/ prog = "pmsg" \/ prog \in {"unix", "inet", "inetbuf", "inetlib"}
  BY DEF Numbers, Queued, Stream
<1>8. prog \in {"msgq", "pmsg"} => Server46_02 \/ Server52_02
  BY DEF NumServer, Server57_03, ServerIs, Server59_01, Server59_02
<1> QED BY <1>4, <1>5, <1>6, <1>7, <1>8

LEMMA NumInvNext ==
  ASSUME NumInv, prog' = prog, prog \in Numbers, NumStep
  PROVE  NumInv'
BY ClientNext, ServerNext DEF NumStep

LEMMA NumInvStutters == NumInv /\ UNCHANGED <<prog, numVars>> => NumInv'
<1> SUFFICES ASSUME NumInv, UNCHANGED <<prog, numVars>> PROVE NumInv'
  OBVIOUS
<1> USE DEF NumInv, numVars, mailVars, args
<1>1. /\ InHand' <=> InHand
      /\ \A d : (Pending(d)' <=> Pending(d)) /\ (Early(d)' <=> Early(d)) /\ (Spoilt(d)' <=> Spoilt(d))
  BY DEF InHand, Pending, InQueue, Early, Spoilt
<1>2. NumTypeOK' /\ PlaceInv' /\ ActiveInv' /\ GrantInv'
  BY ZenonT(60), <1>1 DEF NumTypeOK, PlaceInv, ActiveInv, GrantInv
<1>3. EarlyInv' /\ PendInv' /\ QueueInv' /\ GotInv'
  BY <1>1 DEF EarlyInv, PendInv, QueueInv, GotInv
<1>4. MailInv'
  BY <1>1 DEF MailInv, Key
<1> QED BY <1>2, <1>3, <1>4

\* A client that is done and alone has its own number, whose range is its own.
LEMMA NumInvInOrder == NumInv => NumbersInOrder
<1> SUFFICES ASSUME NumInv, NEW c \in Runs, cat[c] = "done", Alone(c)
             PROVE  /\ got[c].run = c
                    /\ \A d \in Runs \ {c} : cat[d] = "done" /\ Alone(d) /\ prog # "msgq" =>
                         got[c].num + len[c] <= got[d].num \/ got[d].num + len[d] <= got[c].num
  BY DEF NumbersInOrder
<1>1. ASSUME NEW d \in Runs, cat[d] = "done", Alone(d)
      PROVE  given[d] \in Nat /\ given[d] # NoOne /\ got[d].run = d /\ got[d].num = given[d]
  <2>1. ~Spoilt(pid[d])
    BY <1>1 DEF Alone, Spoilt
  <2>2. given[d] \in Nat /\ got[d] = [run |-> d, num |-> given[d]]
    BY <1>1, <2>1 DEF NumInv, GotInv
  <2> QED BY <2>2, NoOneFacts
<1> QED BY <1>1 DEF NumInv, GrantInv
----------------------------------------------------------------------------
(* All programs.                                                           *)

\* Every program but pipe_sync leaves its pipes alone, and so on.
LEMMA OneProgram ==
  ASSUME [Next]_vars
  PROVE  /\ prog' = prog
         /\ UNCHANGED ptVars \/ (prog \in Piped /\ PipeStep)
         /\ UNCHANGED semVars \/ (prog \in Sems /\ SemStep)
         /\ UNCHANGED numVars \/ (prog \in Numbers /\ NumStep)
         /\ UNCHANGED echoVars \/ (prog \in Echoes /\ EchoStep)
         /\ UNCHANGED epollVars \/ EpollStep
         /\ UNCHANGED relayVars \/ RelayStep
         /\ UNCHANGED scriptVars \/ ScriptStep
<1> USE DEF notNum, vars
<1>1. CASE UNCHANGED vars
  BY <1>1
<1>2. CASE NumDoes(NumStep)
  BY <1>2 DEF NumDoes, Of1
<1>3. CASE EchoDoes(EchoStep)
  BY <1>3 DEF EchoDoes, Of1, notEcho
<1>4. CASE EpollDoes(EpollStep)
  BY <1>4 DEF EpollDoes, Of1, notEpoll
<1>5. CASE PipeDoes(PipeStep)
  BY <1>5 DEF PipeDoes, Of1, notPipe
<1>6. CASE RelayDoes(RelayStep)
  BY <1>6 DEF RelayDoes, Of1, notRelay
<1>7. CASE ScriptDoes(ScriptStep)
  BY <1>7 DEF ScriptDoes, Of1, notScript
<1>8. CASE SemDoes(SemStep)
  BY <1>8 DEF SemDoes, Of1, notSem
<1>9. CASE LineDoes(LineStep)
  BY <1>9 DEF LineDoes, Of1, notLine
<1> QED BY <1>1, <1>2, <1>3, <1>4, <1>5, <1>6, <1>7, <1>8, <1>9 DEF Next

LEMMA ReaderSteps ==
  ASSUME [Next]_vars, prog \in Readers
  PROVE  UNCHANGED <<lineVars, faults>> \/ LineStep
<1>1. /\ prog \notin Numbers /\ prog \notin Echoes /\ prog \notin Piped /\ prog \notin Sems
      /\ prog # "epoll" /\ prog # "relay" /\ prog # "script"
  BY DEF Readers, Numbers, Queued, Stream, Echoes, Piped, Sems
<1>2. UNCHANGED vars \/ LineDoes(LineStep)
  BY <1>1 DEF Next, Of1, NumDoes, EchoDoes, EpollDoes, PipeDoes, RelayDoes, ScriptDoes, SemDoes
<1>3. UNCHANGED vars => UNCHANGED <<lineVars, faults>>
  BY DEF vars, notNum
<1>4. LineDoes(LineStep) => LineStep
  BY DEF LineDoes, Of1
<1> QED BY <1>2, <1>3, <1>4

----------------------------------------------------------------------------
(* pipe_sync.                                                              *)

ParentPlaces == {"start", "fork", "read", "ready", "exit", "killed"}
WorkerPlaces == {"none", "closeR", "work", "closeW", "leave", "exit", "killed"}

\* A worker has the write end open until it has done its work or was killed,
\* and the parent has its own until every worker has been made.
SyncInv ==
  prog = "sync" =>
    /\ kat \in [PProcs -> ParentPlaces \cup WorkerPlaces]
    /\ kat[0] \in ParentPlaces /\ \A p \in Kids : kat[p] \in WorkerPlaces
    /\ kat[0] = "start" => \A p \in Kids : kat[p] = "none"
    /\ kat[0] = "fork" => <<0, 1, "w">> \in ends
    /\ kat[0] \in {"read", "ready", "exit"} => \A p \in Kids : kat[p] # "none"
    /\ \A p \in Kids : kat[p] \in {"closeR", "work", "closeW"} => <<p, 1, "w">> \in ends
    /\ kat[0] \in {"ready", "exit"} => \A p \in Kids : kat[p] \in {"leave"} \cup Dead

LEMMA KidsFact == /\ 0 \in PProcs /\ Kids \subseteq PProcs /\ 0 \notin Kids
BY PipeAssumption DEF PipeAssumption, Kids, PProcs

LEMMA SyncInit == Init => SyncInv
BY KidsFact DEF Init, PipeInit, SyncInv, ParentPlaces, WorkerPlaces

\* Who leaves keeps nobody else's ends from being open.
LEMMA LeaveKeeps ==
  ASSUME NEW p, NEW a, NEW b, Leave(p, a, b), NEW q, NEW k, NEW e, q # p, <<q, k, e>> \in ends
  PROVE  <<q, k, e>> \in ends'
<1> DEFINE w == <<q, k, e>>
<1>1. w[1] = q /\ w \in ends
  OBVIOUS
<1> HIDE DEF w
<1>2. w \in ends'
  BY <1>1 DEF Leave, Of
<1> QED BY <1>2 DEF w

LEMMA SyncNext ==
  ASSUME SyncInv, prog = "sync", prog' = prog, PipeStep
  PROVE  SyncInv'
<1> USE KidsFact DEF SyncInv, ParentPlaces, WorkerPlaces, KGoto, Dead
<1>1. ASSUME NEW p \in Kids, SyncWorker(p) PROVE SyncInv'
  <2>1. CASE Close(p, 1, "r", "closeR", "work")
    BY <2>1, <1>1 DEF Close
  <2>2. CASE Does(p, "work", "closeW")
    BY <2>2, <1>1 DEF Does
  <2>3. CASE Close(p, 1, "w", "closeW", "leave")
    BY <2>3, <1>1 DEF Close
  <2>4. CASE Quit(p, "leave")
    <3>1. Leave(p, "leave", "exit")
      BY <2>4 DEF Quit
    <3>2. /\ kat[0] = "fork" => <<0, 1, "w">> \in ends'
          /\ \A q \in Kids \ {p} : kat[q] \in {"closeR", "work", "closeW"} => <<q, 1, "w">> \in ends'
      BY <1>1, <3>1, LeaveKeeps
    <3>3. kat' = [kat EXCEPT ![p] = "exit"] /\ kat[p] = "leave"
      BY <3>1 DEF Leave
    <3> QED BY <1>1, <3>2, <3>3
  <2> QED BY <1>1, <2>1, <2>2, <2>3, <2>4 DEF SyncWorker
<1>2. CASE MakePipes({1}, "start", "fork")
  <2>1. <<0, 1, "w">> \in Both(0, 1)
    BY DEF Both
  <2>2. <<0, 1, "w">> \in ends'
    BY <1>2, <2>1 DEF MakePipes
  <2> QED BY <1>2, <2>2 DEF MakePipes
<1>3. ASSUME NEW p \in Kids, Fork(p, "closeR", "fork", "fork") PROVE SyncInv'
  <2>1. <<0, 1, "w">> \in Of(0)
    BY <1>3 DEF Fork, Of
  <2>2. <<p, 1, "w">> \in {<<p, x[2], x[3]>> : x \in Of(0)}
    <3> DEFINE w == <<0, 1, "w">>
    <3>1. <<p, 1, "w">> = <<p, w[2], w[3]>>
      OBVIOUS
    <3>2. w \in Of(0)
      BY <2>1
    <3> HIDE DEF w
    <3> QED BY <3>1, <3>2
  <2>3. <<p, 1, "w">> \in ends' /\ ends \subseteq ends'
    BY <1>3, <2>2 DEF Fork
  <2> QED BY <1>3, <2>3 DEF Fork
<1>4. CASE (\A p \in Kids : kat[p] # "none") /\ Close(0, 1, "w", "fork", "read")
  BY <1>4 DEF Close
<1>5. CASE AtEof(0, 1, "read", "ready")
  BY <1>5 DEF AtEof, Eof, Has
<1>6. CASE Quit(0, "ready")
  <2>1. Leave(0, "ready", "exit")
    BY <1>6 DEF Quit
  <2>2. kat' = [kat EXCEPT ![0] = "exit"] /\ kat[0] = "ready"
    BY <2>1 DEF Leave
  <2> QED BY <2>2
<1>7. CASE SyncMain
  BY <1>2, <1>3, <1>4, <1>5, <1>6, <1>7 DEF SyncMain
<1>8. ASSUME NEW p \in PProcs, KillPipe(p) PROVE SyncInv'
  <2>1. Leave(p, kat[p], "killed") /\ kat[p] \notin {"none", "exit", "killed"}
    BY <1>8 DEF KillPipe
  <2>2. kat' = [kat EXCEPT ![p] = "killed"]
    BY <2>1 DEF Leave
  <2>3. /\ p # 0 /\ kat[0] = "fork" => <<0, 1, "w">> \in ends'
        /\ \A q \in Kids \ {p} : kat[q] \in {"closeR", "work", "closeW"} => <<q, 1, "w">> \in ends'
    BY <2>1, LeaveKeeps
  <2>4. CASE p = 0
    BY <2>2, <2>3, <2>4
  <2>5. CASE p \in Kids
    BY <2>1, <2>2, <2>3, <2>5
  <2> QED BY <2>4, <2>5 DEF PProcs, Kids
<1> QED BY <1>1, <1>7, <1>8 DEF PipeStep, PipeMain, PipeChild, PopenFails, Listings

----------------------------------------------------------------------------
(* svsem_good_init and 47_02.                                              *)

\* While a process creates the semaphore, sem_otime is 0 and nobody else does.
GoodInv ==
  /\ prog # "goodinit" => acted = {}
  /\ prog = "goodinit" =>
       /\ gat \in [Runs -> {"semget", "poll", "setval", "touch", "op", "exit", "fatal", "killed"}]
       /\ \A c \in Runs : gat[c] \in {"setval", "touch"} =>
            /\ made /\ ~otime
            /\ \A d \in Runs \ {c} : gat[d] \notin {"setval", "touch"}
       /\ \A c \in Runs : gat[c] = "op" => otime
       /\ acted # {} => otime
       /\ otime => made

\* The semaphore is 1 until the child has set it to 0.
DuoInv ==
  prog = "semwait" =>
    /\ duo \in [parent : {"semget", "setval", "fork", "semop", "exit"},
                child : {"none", "work", "setval", "exit", "killed"}]
    /\ duo.child = "none" <=> duo.parent \in {"semget", "setval", "fork"}
    /\ duo.parent = "fork" \/ duo.child \in {"work", "setval", "killed"} => semval = 1
    /\ duo.parent = "exit" => duo.child = "exit"

LEMMA SemsInit == Init => GoodInv /\ DuoInv
BY DEF Init, SemInit, GoodInv, DuoInv

LEMMA GoodNext ==
  ASSUME GoodInv, prog \in Sems, prog' = prog, SemStep
  PROVE  GoodInv'
<1>1. CASE prog # "goodinit"
  <2>1. acted' = acted
    BY <1>1 DEF SemStep, SemDuo, SemSetup, SemParent, SemChild, DuoOnly, KillSemChild,
                GoodInit, KillGoodInit
  <2> QED BY <1>1, <2>1 DEF GoodInv
<1>2. CASE prog = "goodinit"
  <2> USE DEF GoodInv, GGoto
  <2>0. PICK c \in Runs : GoodInit(c) \/ KillGoodInit(c)
    BY <1>2 DEF SemStep, SemDuo, KillSemChild
  <2>1. CASE CreateExclusive(c)
    BY <1>2, <2>1 DEF CreateExclusive
  <2>2. CASE CreatorInits(c)
    BY <1>2, <2>2 DEF CreatorInits
  <2>3. CASE OthersWait(c)
    BY <1>2, <2>3 DEF OthersWait
  <2>4. CASE Operate(c)
    BY <1>2, <2>4 DEF Operate
  <2>5. CASE KillGoodInit(c)
    BY <1>2, <2>5 DEF KillGoodInit
  <2> QED BY <2>0, <2>1, <2>2, <2>3, <2>4, <2>5 DEF GoodInit
<1> QED BY <1>1, <1>2

LEMMA DuoNext ==
  ASSUME DuoInv, prog \in Sems, prog' = prog, SemStep
  PROVE  DuoInv'
<1> SUFFICES ASSUME prog = "semwait" PROVE DuoInv'
  BY DEF DuoInv
<1> USE DEF DuoInv, DuoGoto, DuoOnly
<1>1. CASE SemSetup
  BY <1>1 DEF SemSetup
<1>2. CASE SemParent
  BY <1>2 DEF SemParent, Allowed
<1>3. CASE SemChild
  BY <1>3 DEF SemChild
<1>4. CASE KillSemChild
  BY <1>4 DEF KillSemChild
<1> QED BY <1>1, <1>2, <1>3, <1>4 DEF SemStep, SemDuo, GoodInit, KillGoodInit

----------------------------------------------------------------------------
WaitInv == SyncInv /\ GoodInv /\ DuoInv

LEMMA WaitInvNext == WaitInv /\ [Next]_vars => WaitInv'
<1> SUFFICES ASSUME WaitInv, [Next]_vars PROVE WaitInv'
  OBVIOUS
<1>1. SyncInv'
  <2>1. CASE UNCHANGED ptVars
    BY <2>1, OneProgram DEF WaitInv, SyncInv, ptVars
  <2>2. CASE PipeStep
    BY <2>2, OneProgram, SyncNext DEF WaitInv, SyncInv
  <2> QED BY <2>1, <2>2, OneProgram
<1>2. GoodInv' /\ DuoInv'
  <2>1. CASE UNCHANGED semVars
    BY <2>1, OneProgram DEF WaitInv, GoodInv, DuoInv, semVars
  <2>2. CASE prog \in Sems /\ SemStep
    BY <2>2, OneProgram, GoodNext, DuoNext DEF WaitInv
  <2> QED BY <2>1, <2>2, OneProgram
<1> QED BY <1>1, <1>2 DEF WaitInv

\* The parent of pipe_sync is ready only when every child has done its work or
\* was killed, which it cannot tell apart; nobody operates on svsem_good_init's
\* semaphore while it is initialised; and 47_02's parent goes on only after its
\* child has worked.
THEOREM WaitedCorrect == Spec => []WaitedFor
<1>1. Init => WaitInv
  BY SyncInit, SemsInit DEF WaitInv
<1>2. WaitInv => WaitedFor
  BY DEF WaitInv, SyncInv, GoodInv, DuoInv, WaitedFor, WorkersDone, SemsInOrder
<1> QED BY <1>1, <1>2, WaitInvNext, PTL DEF Spec

----------------------------------------------------------------------------
(* The sequence-number services.                                           *)

LEMMA NumInvAlways == Spec => []NumInv
<1>1. Init => NumInv
  BY NumInvInit DEF Init
<1>2. NumInv /\ [Next]_vars => NumInv'
  <2> SUFFICES ASSUME NumInv, [Next]_vars PROVE NumInv'
    OBVIOUS
  <2>1. CASE UNCHANGED numVars
    BY <2>1, OneProgram, NumInvStutters
  <2>2. CASE prog \in Numbers /\ NumStep
    BY <2>2, OneProgram, NumInvNext
  <2> QED BY <2>1, <2>2, OneProgram
<1> QED BY <1>1, <1>2, PTL DEF Spec

\* The state of the sequence-number services keeps its types.
THEOREM NumTypeCorrect == Spec => []NumTypeOK
<1>1. NumInv => NumTypeOK
  BY DEF NumInv
<1> QED BY <1>1, NumInvAlways, PTL

\* A client prints the number that was given for its own request, and no two
\* ranges overlap, whatever clients are killed, as long as no pid of a killed
\* client is used again: in all six services.
THEOREM NumbersCorrect == Spec => []NumbersInOrder
BY NumInvAlways, NumInvInOrder, PTL

----------------------------------------------------------------------------
(* Sums.                                                                   *)

SumOf(f, S) == MapThenSumSet(LAMBDA c : f[c], S)

SumStep(g, f, s) == IF s = {} THEN 0
                    ELSE f[CHOOSE x \in s : TRUE] + g[s \ {CHOOSE x \in s : TRUE}]

\* F gives the sum of f over every subset of S.
Sums(F, f, S) ==
  /\ F \in [SUBSET S -> Int] /\ F[{}] = 0
  /\ \A T \in SUBSET S : \A c \in S \ T : F[T \cup {c}] = F[T] + f[c]

\* A set of finite sets has a smallest one: induction over finite sets, in a
\* form that names no predicate.
LEMMA SmallestSet ==
  ASSUME NEW S, IsFiniteSet(S), NEW B, B \subseteq SUBSET S, B # {}
  PROVE  \E T \in B : \A R \in B : ~(R \subseteq T /\ R # T)
<1>1. B \subseteq FiniteSubsetsOf(S)
  BY FS_Subset DEF FiniteSubsetsOf
<1>2. IsWellFoundedOn(StrictSubsetOrdering(S), FiniteSubsetsOf(S))
  BY FS_StrictSubsetOrderingWellFounded
<1>3. PICK T \in B : \A R \in B : ~ (<<R, T>> \in StrictSubsetOrdering(S))
  BY <1>1, <1>2, WFMin
<1> QED BY <1>3 DEF StrictSubsetOrdering

\* The fold of the library, by its definition.
LEMMA SumUnfolds ==
  ASSUME NEW f, NEW S
  PROVE  SumOf(f, S) = (CHOOSE g : g = [s \in SUBSET S |-> SumStep(g, f, s)])[S]
BY DEF SumOf, MapThenSumSet, MapThenFoldSet, MapThenSumSet, SumStep

\* Otherwise there is a smallest set without sums; they come from those of the
\* set with one element less.
LEMMA SumsExist ==
  ASSUME NEW U, NEW f \in [U -> Int], NEW S, S \subseteq U, IsFiniteSet(S)
  PROVE  \E F : Sums(F, f, S)
<1> DEFINE B == {T \in SUBSET S : ~ \E F : Sums(F, f, T)}
<1>1. SUFFICES ASSUME B # {} PROVE FALSE
  OBVIOUS
<1>2. PICK T \in B : \A R \in B : ~(R \subseteq T /\ R # T)
  <2> HIDE DEF B
  <2>1. B \subseteq SUBSET S
    BY DEF B
  <2> QED BY <1>1, <2>1, SmallestSet
<1>3. T # {}
  <2>1. Sums([s \in SUBSET {} |-> 0], f, {})
    BY DEF Sums
  <2> QED BY <1>2, <2>1
<1>4. PICK c \in T : TRUE
  BY <1>3
<1>5. T \ {c} \in SUBSET S /\ T \ {c} \notin B
  BY <1>2, <1>4
<1>6. PICK F : Sums(F, f, T \ {c})
  BY <1>5
<1> DEFINE G == [s \in SUBSET T |-> IF c \in s THEN F[s \ {c}] + f[c] ELSE F[s]]
<1>7. f[c] \in Int /\ \A d \in T : f[d] \in Int
  BY <1>2, <1>4
<1>8. F \in [SUBSET (T \ {c}) -> Int] /\ F[{}] = 0
      /\ \A R \in SUBSET (T \ {c}) : \A d \in (T \ {c}) \ R : F[R \cup {d}] = F[R] + f[d]
  BY <1>6 DEF Sums
<1>9. G \in [SUBSET T -> Int] /\ G[{}] = 0
  BY <1>7, <1>8
<1>10. ASSUME NEW R \in SUBSET T, NEW d \in T \ R
       PROVE  G[R \cup {d}] = G[R] + f[d]
  <2>1. CASE d = c
    <3>1. (R \cup {d}) \ {c} = R /\ c \in R \cup {d} /\ c \notin R
      BY <2>1
    <3> QED BY <3>1, <2>1, <1>10
  <2>2. CASE d # c /\ c \in R
    <3>1. (R \cup {d}) \ {c} = (R \ {c}) \cup {d} /\ c \in R \cup {d}
      BY <2>2
    <3>2. R \ {c} \in SUBSET (T \ {c}) /\ d \in (T \ {c}) \ (R \ {c})
      BY <2>2, <1>10
    <3>3. F[(R \ {c}) \cup {d}] = F[R \ {c}] + f[d] /\ F[R \ {c}] \in Int
      BY <3>2, <1>8
    <3>4. G[R \cup {d}] = F[(R \ {c}) \cup {d}] + f[c] /\ G[R] = F[R \ {c}] + f[c]
      BY <3>1, <2>2, <1>10
    <3> QED BY <3>3, <3>4, <1>7
  <2>3. CASE d # c /\ c \notin R
    <3>1. c \notin R \cup {d} /\ R \in SUBSET (T \ {c}) /\ d \in (T \ {c}) \ R
      BY <2>3
    <3>2. G[R \cup {d}] = F[R \cup {d}] /\ G[R] = F[R]
      BY <3>1, <1>10
    <3> QED BY <3>1, <3>2, <1>8
  <2> QED BY <2>1, <2>2, <2>3
<1>11. Sums(G, f, T)
  BY <1>9, <1>10 DEF Sums
<1> QED BY <1>2, <1>11

\* A function with these properties agrees with the fold, whatever elements
\* the fold chooses.
LEMMA SumIs ==
  ASSUME NEW U, NEW f \in [U -> Int], NEW S, S \subseteq U, IsFiniteSet(S),
         NEW F, Sums(F, f, S)
  PROVE  SumOf(f, S) = F[S]
<1> DEFINE P(g) == g = [s \in SUBSET S |-> SumStep(g, f, s)]
           G == CHOOSE g : P(g)
<1>0. F \in [SUBSET S -> Int] /\ F[{}] = 0
      /\ \A T \in SUBSET S : \A c \in S \ T : F[T \cup {c}] = F[T] + f[c]
  BY DEF Sums
<1>1. ASSUME NEW s \in SUBSET S, s # {}, NEW c \in s
      PROVE  F[s] = f[c] + F[s \ {c}]
  <2>1. s \ {c} \in SUBSET S /\ c \in S \ (s \ {c}) /\ (s \ {c}) \cup {c} = s
    BY <1>1
  <2>2. F[s] = F[s \ {c}] + f[c] /\ F[s \ {c}] \in Int /\ f[c] \in Int
    BY <2>1, <1>0
  <2> QED BY <2>2
<1>2. P(F)
  <2>1. ASSUME NEW s \in SUBSET S PROVE F[s] = SumStep(F, f, s)
    <3>1. s # {} => (CHOOSE x \in s : TRUE) \in s
      OBVIOUS
    <3> QED BY <1>0, <1>1, <3>1 DEF SumStep
  <2>2. F = [s \in SUBSET S |-> F[s]]
    BY <1>0
  <2> QED BY <2>1, <2>2
<1>3. P(G)
  BY <1>2
<1>4. SumOf(f, S) = G[S]
  BY SumUnfolds
<1> HIDE DEF G
<1>5. \A s \in SUBSET S : G[s] = SumStep(G, f, s)
  BY <1>3
<1> DEFINE B == {T \in SUBSET S : G[T] # F[T]}
<1>6. B = {}
  <2>1. SUFFICES ASSUME B # {} PROVE FALSE
    OBVIOUS
  <2>2. PICK T \in B : \A R \in B : ~(R \subseteq T /\ R # T)
    <3> HIDE DEF B
    <3>1. B \subseteq SUBSET S
      BY DEF B
    <3> QED BY <2>1, <3>1, SmallestSet
  <2>3. T # {}
    BY <2>2, <1>5, <1>0 DEF SumStep
  <2> DEFINE c == CHOOSE x \in T : TRUE
  <2>4. c \in T
    BY <2>3
  <2>5. G[T] = f[c] + G[T \ {c}]
    BY <2>2, <2>3, <1>5 DEF SumStep
  <2> HIDE DEF c
  <2>6. G[T \ {c}] = F[T \ {c}]
    BY <2>2, <2>4
  <2>7. F[T] = f[c] + F[T \ {c}]
    BY <1>1, <2>2, <2>3, <2>4
  <2> QED BY <2>2, <2>5, <2>6, <2>7
<1> QED BY <1>4, <1>6

LEMMA SumOfNone == ASSUME NEW U, NEW f \in [U -> Int] PROVE SumOf(f, {}) = 0
<1> DEFINE F == [s \in SUBSET {} |-> 0]
<1>1. Sums(F, f, {})
  BY DEF Sums
<1>2. F[{}] = 0
  OBVIOUS
<1> QED BY <1>1, <1>2, SumIs, FS_EmptySet

LEMMA SumOfOneMore ==
  ASSUME NEW U, NEW f \in [U -> Int], NEW S, S \subseteq U, IsFiniteSet(S), NEW c \in U, c \notin S
  PROVE  SumOf(f, S \cup {c}) = SumOf(f, S) + f[c]
<1>1. IsFiniteSet(S \cup {c}) /\ S \cup {c} \subseteq U
  BY FS_AddElement
<1>2. PICK F : Sums(F, f, S \cup {c})
  BY <1>1, SumsExist
<1> DEFINE G == [s \in SUBSET S |-> F[s]]
<1>3. Sums(G, f, S) /\ G[S] = F[S]
  BY <1>2 DEF Sums
<1>4. SumOf(f, S) = F[S] /\ SumOf(f, S \cup {c}) = F[S \cup {c}]
  BY <1>1, <1>2, <1>3, SumIs
<1> QED BY <1>2, <1>4 DEF Sums

LEMMA SameSum ==
  ASSUME NEW U, NEW f \in [U -> Int], NEW g \in [U -> Int], NEW S, S \subseteq U, IsFiniteSet(S),
         \A c \in S : f[c] = g[c]
  PROVE  SumOf(f, S) = SumOf(g, S)
<1>1. PICK F : Sums(F, f, S)
  BY SumsExist
<1>2. Sums(F, g, S)
  BY <1>1 DEF Sums
<1> QED BY <1>1, <1>2, SumIs

\* The value is the sum of the operations made, each by a process that has gone.
SumInv ==
  /\ gop \in [Runs -> Int] /\ acted \subseteq Runs /\ IsFiniteSet(acted)
  /\ \A c \in acted : gat[c] = "exit"
  /\ prog # "goodinit" => ~otime
  /\ otime => semval = SumOf(gop, acted)

LEMMA SumStarts == Init => SumInv
<1>1. IsFiniteSet({})
  BY FS_EmptySet
<1> QED BY <1>1 DEF Init, SemInit, SumInv

LEMMA SumNext ==
  ASSUME SumInv, GoodInv, prog \in Sems, prog' = prog, SemStep
  PROVE  SumInv'
<1>1. CASE prog # "goodinit"
  <2>1. UNCHANGED <<acted, otime, gop>>
    BY <1>1 DEF SemStep, SemDuo, SemSetup, SemParent, SemChild, DuoOnly, KillSemChild,
                GoodInit, KillGoodInit
  <2>2. acted = {}
    BY <1>1 DEF GoodInv
  <2> QED BY <1>1, <2>1, <2>2 DEF SumInv
<1>2. CASE prog = "goodinit"
  <2>0. PICK c \in Runs : GoodInit(c) \/ KillGoodInit(c)
    BY <1>2 DEF SemStep, SemDuo, KillSemChild
  <2> USE <1>2 DEF SumInv, GoodInv, GGoto
  <2>1. CASE CreateExclusive(c)
    <3>1. gop' \in [Runs -> Int] /\ gat[c] = "semget" /\ UNCHANGED <<otime, acted>>
      BY <2>1, SemAssumption DEF CreateExclusive, SemOps, SemAssumption
    <3>2. c \notin acted /\ \A d \in acted : gop'[d] = gop[d]
      BY <2>1, <3>1 DEF CreateExclusive
    <3>3. SumOf(gop', acted) = SumOf(gop, acted)
      BY <3>1, <3>2, SameSum
    <3>4. otime => semval' = semval
      BY <2>1 DEF CreateExclusive
    <3>5. \A d \in acted : gat'[d] = "exit"
      BY <2>1, <3>2 DEF CreateExclusive
    <3> QED BY <3>1, <3>3, <3>4, <3>5
  <2>2. CASE CreatorInits(c)
    <3>1. ~otime /\ acted = {} /\ UNCHANGED <<acted, gop>>
      BY <2>2 DEF CreatorInits
    <3>2. SumOf(gop, acted) = 0
      BY <3>1, SumOfNone
    <3>3. otime' => semval' = 0
      BY <2>2, <3>1 DEF CreatorInits, Allowed
    <3> QED BY <3>1, <3>2, <3>3
  <2>3. CASE OthersWait(c)
    BY <2>3 DEF OthersWait
  <2>4. CASE Operate(c)
    <3>1. gat[c] = "op" /\ UNCHANGED gop /\ otime /\ acted' = acted \cup {c}
          /\ semval' = semval + gop[c] /\ gat' = [gat EXCEPT ![c] = "exit"]
      BY <2>4 DEF Operate
    <3>2. c \notin acted /\ acted' \subseteq Runs
      BY <3>1
    <3>3. SumOf(gop, acted \cup {c}) = SumOf(gop, acted) + gop[c] /\ IsFiniteSet(acted')
      BY <3>1, <3>2, SumOfOneMore, FS_AddElement
    <3>4. \A d \in acted' : gat'[d] = "exit"
      BY <3>1
    <3> QED BY <3>1, <3>2, <3>3, <3>4
  <2>5. CASE KillGoodInit(c)
    BY <2>5 DEF KillGoodInit, Ended
  <2> QED BY <2>0, <2>1, <2>2, <2>3, <2>4, <2>5 DEF GoodInit
<1> QED BY <1>1, <1>2

LEMMA SumInvSum == SumInv => SemSum
BY DEF SumInv, SumOf, SemSum

----------------------------------------------------------------------------
(* script.                                                                 *)

\* What the shell has written is on the screen, in script's hands or on its
\* way, and what select() has reported is still there to be read.
ScriptInv ==
  /\ output \in Nat /\ ptyout \in Nat /\ block \in Nat /\ screen \in Nat /\ file \in Nat /\ keys \in Nat
  /\ output = screen + ptyout + (IF scat = "toScreen" THEN block ELSE 0)
  /\ file = IF scat = "toFile" THEN screen - block ELSE screen
  /\ scat = "toShell" => block > 0
  /\ scat = "stdin" /\ "stdin" \in inFds => keys > 0 \/ hungup
  /\ scat \in {"stdin", "toShell", "master"} /\ "master" \in inFds => ptyout > 0 \/ shell = "ended"
  /\ scat = "exit" => hungup \/ (ptyout = 0 /\ shell = "ended")
  /\ scat = "fork" => shell = "none"

LEMMA ScriptStarts == Init => ScriptInv
BY DEF Init, ScriptInit, ScriptInv

LEMMA ScriptNext ==
  ASSUME ScriptInv, ScriptStep
  PROVE  ScriptInv'
<1> USE DEF ScriptInv, ScGoto, ScOnly
<1>1. CASE PtyFork
  BY <1>1 DEF PtyFork
<1>2. CASE OpenTypescript
  BY <1>2 DEF OpenTypescript
<1>3. CASE Select2
  BY <1>3 DEF Select2, ReadyFds
<1>4. CASE FromKeyboard
  BY <1>4 DEF FromKeyboard
<1>5. CASE FromShell
  BY <1>5 DEF FromShell
<1>6. CASE StartFails
  BY <1>6 DEF StartFails
<1>7. CASE Shell
  BY <1>7 DEF Shell
<1>8. CASE Keyboard
  BY <1>8 DEF Keyboard
<1>9. CASE ShellEnds
  BY <1>9 DEF ShellEnds
<1> QED BY <1>1, <1>2, <1>3, <1>4, <1>5, <1>6, <1>7, <1>8, <1>9 DEF ScriptStep, ScriptMain

LEMMA ScriptInvWhole == ScriptInv => ScriptWhole
BY DEF ScriptInv, ScriptWhole

----------------------------------------------------------------------------
(* The epoll server.                                                       *)

Counts(s, k) == s \in Seq(Nat) /\ \A i \in 1 .. Len(s) : s[i] = k + i

LEMMA CountsAppend ==
  ASSUME NEW s, NEW k \in Nat, Counts(s, k), NEW e, e = k + Len(s) + 1
  PROVE  Counts(Append(s, e), k) /\ Len(Append(s, e)) = Len(s) + 1
<1>1. s \in Seq(Nat) /\ Len(s) \in Nat /\ k + Len(s) + 1 \in Nat
  BY ElementFacts DEF Counts
<1> DEFINE t == Append(s, e)
<1>2. /\ t \in Seq(Nat) /\ Len(t) = Len(s) + 1
      /\ \A i \in 1 .. Len(s) : t[i] = s[i]
      /\ t[Len(s) + 1] = e
  BY <1>1, AppendFacts
<1> HIDE DEF t
<1>3. ASSUME NEW i \in 1 .. Len(t) PROVE t[i] = k + i
  <2>1. CASE i \in 1 .. Len(s)
    BY <1>2, <2>1 DEF Counts
  <2>2. CASE i = Len(s) + 1
    BY <1>1, <1>2, <2>2
  <2> QED BY <1>1, <1>2, <2>1, <2>2
<1>4. Counts(t, k) /\ Len(t) = Len(s) + 1
  BY <1>2, <1>3 DEF Counts
<1> QED BY <1>4 DEF t

LEMMA CountsTail ==
  ASSUME NEW s, NEW k \in Nat, Counts(s, k), s # <<>>
  PROVE  /\ Head(s) = k + 1 /\ Counts(Tail(s), k + 1)
         /\ Len(s) \in Nat \ {0} /\ Len(Tail(s)) = Len(s) - 1
<1>1. /\ Len(s) \in Nat \ {0} /\ Head(s) = s[1]
      /\ Tail(s) \in Seq(Nat) /\ Len(Tail(s)) = Len(s) - 1
      /\ \A i \in 1 .. Len(s) - 1 : Tail(s)[i] = s[i + 1]
  BY TailFacts DEF Counts
<1> DEFINE t == Tail(s)
<1>2. ASSUME NEW i \in 1 .. Len(t) PROVE t[i] = k + 1 + i
  <2>1. t[i] = s[i + 1] /\ i + 1 \in 1 .. Len(s)
    BY <1>1
  <2> HIDE DEF t
  <2>2. s[i + 1] = k + (i + 1)
    BY <2>1 DEF Counts
  <2> QED BY <2>1, <2>2
<1> HIDE DEF t
<1>3. Counts(t, k + 1)
  BY <1>1, <1>2 DEF Counts, t
<1>4. s[1] = k + 1
  BY <1>1 DEF Counts
<1> QED BY <1>1, <1>3, <1>4 DEF t

\* A client's messages are numbered, the echoes that it has read before those
\* on their way back, and these before the messages that no child has read.
EpollInv ==
  /\ req \in [Pollers -> Seq(Nat)] /\ rep \in [Pollers -> Seq(Nat)] /\ echoed \in [Pollers -> Seq(Nat)]
  /\ \A c \in Pollers : /\ Counts(echoed[c], 0) /\ Counts(rep[c], Len(echoed[c]))
                        /\ Counts(req[c], Len(echoed[c]) + Len(rep[c]))

LEMMA EpollStarts == Init => EpollInv
BY EmptyFacts DEF Init, EpollInit, EpollInv, Counts

LEMMA EpollNext ==
  ASSUME EpollInv, EpollStep
  PROVE  EpollInv'
<1>0. \A c \in Pollers : Len(req[c]) \in Nat /\ Len(rep[c]) \in Nat /\ Len(echoed[c]) \in Nat
  BY ElementFacts DEF EpollInv
<1>1. ASSUME NEW c \in Pollers, PollSend(c) PROVE EpollInv'
  <2> DEFINE k == Len(echoed[c]) + Len(rep[c])
             r == Append(req[c], k + Len(req[c]) + 1)
  <2>1. req' = [req EXCEPT ![c] = r] /\ UNCHANGED <<rep, echoed>>
    BY <1>1 DEF PollSend
  <2>2. k \in Nat /\ Counts(req[c], k)
    BY <1>0 DEF EpollInv
  <2> HIDE DEF k
  <2>3. Counts(r, k)
    BY <2>2, CountsAppend
  <2>4. r \in Seq(Nat)
    BY <2>3 DEF Counts
  <2> HIDE DEF r
  <2> QED BY <2>1, <2>3, <2>4 DEF EpollInv, k
<1>2. ASSUME NEW c \in Pollers, PollRead(c) PROVE EpollInv'
  <2> DEFINE e == Append(echoed[c], Head(rep[c]))
             r == Tail(rep[c])
             n == Len(echoed[c])
  <2>1. rep[c] # <<>> /\ rep' = [rep EXCEPT ![c] = r] /\ echoed' = [echoed EXCEPT ![c] = e]
        /\ UNCHANGED req
    BY <1>2 DEF PollRead
  <2>2. n \in Nat /\ Counts(rep[c], n) /\ Counts(echoed[c], 0) /\ Counts(req[c], n + Len(rep[c]))
    BY <1>0 DEF EpollInv
  <2>3. Head(rep[c]) = n + 1 /\ Counts(r, n + 1) /\ Len(rep[c]) \in Nat \ {0} /\ Len(r) = Len(rep[c]) - 1
    BY <2>1, <2>2, CountsTail
  <2>4. Counts(e, 0) /\ Len(e) = n + 1
    <3>1. Head(rep[c]) = 0 + Len(echoed[c]) + 1
      BY <2>2, <2>3
    <3>2. Counts(e, 0) /\ Len(e) = Len(echoed[c]) + 1
      BY <2>2, <3>1, CountsAppend
    <3> QED BY <3>2
  <2>5. n + Len(rep[c]) = Len(e) + Len(r)
    <3> DEFINE a == Len(e)
               b == Len(r)
               d == Len(rep[c])
    <3>1. n \in Nat /\ d \in Nat /\ a = n + 1 /\ b = d - 1
      BY <2>2, <2>3, <2>4
    <3> HIDE DEF a, b, d, n
    <3>2. n + d = a + b
      BY <3>1
    <3> QED BY <3>2 DEF a, b, d
  <2>6. Counts(e, 0) /\ Counts(r, Len(e)) /\ Counts(req[c], Len(e) + Len(r))
    BY <2>2, <2>3, <2>4, <2>5
  <2>7. e \in Seq(Nat) /\ r \in Seq(Nat)
    BY <2>6 DEF Counts
  <2> HIDE DEF e, r
  <2> QED BY <2>1, <2>6, <2>7 DEF EpollInv
<1>3. ASSUME NEW c \in Pollers, HandleRequest(c), req[c] # <<>>,
             rep' = [rep EXCEPT ![c] = Append(@, Head(req[c]))], req' = [req EXCEPT ![c] = Tail(@)]
      PROVE  EpollInv'
  <2> DEFINE e == Append(rep[c], Head(req[c]))
             r == Tail(req[c])
             n == Len(echoed[c])
             k == n + Len(rep[c])
  <2>1. rep' = [rep EXCEPT ![c] = e] /\ req' = [req EXCEPT ![c] = r] /\ UNCHANGED echoed
    BY <1>3 DEF HandleRequest
  <2>2. n \in Nat /\ k \in Nat /\ Counts(rep[c], n) /\ Counts(echoed[c], 0) /\ Counts(req[c], k)
    BY <1>0 DEF EpollInv
  <2>3. Head(req[c]) = k + 1 /\ Counts(r, k + 1)
    <3> HIDE DEF k
    <3> QED BY <1>3, <2>2, CountsTail
  <2>4. Counts(e, n) /\ Len(e) = Len(rep[c]) + 1
    <3>1. Head(req[c]) = n + Len(rep[c]) + 1
      BY <2>3
    <3> HIDE DEF k, n
    <3> QED BY <2>2, <2>3, <3>1, CountsAppend
  <2>5. k + 1 = n + Len(e)
    <3>1. k = n + Len(rep[c]) /\ Len(rep[c]) \in Nat
      BY <1>0
    <3> HIDE DEF e, n, k
    <3> QED BY <2>2, <2>4, <3>1
  <2>6. Counts(e, n) /\ Counts(r, n + Len(e))
    BY <2>3, <2>4, <2>5
  <2>7. e \in Seq(Nat) /\ r \in Seq(Nat)
    BY <2>6 DEF Counts
  <2> HIDE DEF e, r
  <2> QED BY <2>1, <2>6, <2>7 DEF EpollInv
<1>4. \/ UNCHANGED <<req, rep, echoed>>
      \/ \E c \in Pollers :
           \/ PollSend(c) \/ PollRead(c)
           \/ /\ HandleRequest(c) /\ req[c] # <<>>
              /\ rep' = [rep EXCEPT ![c] = Append(@, Head(req[c]))]
              /\ req' = [req EXCEPT ![c] = Tail(@)]
  BY DEF EpollStep, PollMain, EpollWait, EchoDatagram, AcceptRegister, ForkChild, ForkStale, ForkFails,
         PollClient, PollConnect, PollShut, PollEof, PollKill, HandleRequest
<1>5. CASE UNCHANGED <<req, rep, echoed>>
  BY <1>5 DEF EpollInv
<1> QED BY <1>1, <1>2, <1>3, <1>4, <1>5

LEMMA EpollInvOwn == EpollInv => EpollOwn
<1> SUFFICES ASSUME EpollInv, NEW c \in Pollers
             PROVE  echoed[c] = [i \in 1 .. Len(echoed[c]) |-> i]
  BY DEF EpollOwn
<1>1. echoed[c] \in Seq(Nat) /\ \A i \in 1 .. Len(echoed[c]) : echoed[c][i] = i
  BY DEF EpollInv, Counts
<1> QED BY <1>1

----------------------------------------------------------------------------
(* The four echo services.                                                 *)

\* Only what is longer than the buffer is cut off.
Msgs     == {m \in [run : Runs, num : Nat, cut : BOOLEAN] : m.cut => m.num \in LongMsgs}

\* What a client has sent, and what comes back of it as a datagram.
Sent(c, n)   == [run |-> c, num |-> n, cut |-> FALSE]
Answer(c, n) == [run |-> c, num |-> n, cut |-> n \in LongMsgs]
Mine(c)      == [n \in Nat |-> Sent(c, n)]
Comes(c)     == [n \in Nat |-> Answer(c, n)]

\* The elements of s are those of f from the one after the k-th.
Follows(s, f, k) == \A i \in 1 .. Len(s) : s[i] = f[k + i]

LEMMA FollowsAppend ==
  ASSUME NEW S, NEW f \in [Nat -> S], NEW s \in Seq(S), NEW k \in Nat, Follows(s, f, k),
         NEW e, e = f[k + Len(s) + 1]
  PROVE  Follows(Append(s, e), f, k) /\ Append(s, e) \in Seq(S) /\ Len(Append(s, e)) = Len(s) + 1
<1>1. Len(s) \in Nat /\ k + Len(s) + 1 \in Nat /\ k + Len(s) + 1 = k + (Len(s) + 1)
  BY ElementFacts
<1> DEFINE t == Append(s, e)
<1>2. e \in S
  BY <1>1
<1>3. /\ t \in Seq(S) /\ Len(t) = Len(s) + 1
      /\ \A i \in 1 .. Len(s) : t[i] = s[i]
      /\ t[Len(s) + 1] = e
  BY <1>2, AppendFacts
<1> HIDE DEF t
<1>4. ASSUME NEW i \in 1 .. Len(t) PROVE t[i] = f[k + i]
  <2>1. CASE i \in 1 .. Len(s)
    BY <1>3, <2>1 DEF Follows
  <2>2. CASE i = Len(s) + 1
    BY <1>1, <1>3, <2>2
  <2> QED BY <1>1, <1>3, <2>1, <2>2
<1>5. Follows(t, f, k) /\ Len(t) = Len(s) + 1 /\ t \in Seq(S)
  BY <1>3, <1>4 DEF Follows
<1> QED BY <1>5 DEF t

LEMMA FollowsTail ==
  ASSUME NEW S, NEW f, NEW s \in Seq(S), NEW k \in Nat, Follows(s, f, k), s # <<>>
  PROVE  /\ Head(s) = f[k + 1] /\ Follows(Tail(s), f, k + 1)
         /\ Tail(s) \in Seq(S) /\ Len(s) \in Nat \ {0} /\ Len(Tail(s)) = Len(s) - 1
<1>1. /\ Len(s) \in Nat \ {0} /\ Head(s) = s[1]
      /\ Tail(s) \in Seq(S) /\ Len(Tail(s)) = Len(s) - 1
      /\ \A i \in 1 .. Len(s) - 1 : Tail(s)[i] = s[i + 1]
  BY TailFacts
<1> DEFINE t == Tail(s)
<1>2. ASSUME NEW i \in 1 .. Len(t) PROVE t[i] = f[k + 1 + i]
  <2>1. t[i] = s[i + 1] /\ i + 1 \in 1 .. Len(s) /\ k + (i + 1) = k + 1 + i
    BY <1>1
  <2> HIDE DEF t
  <2>2. s[i + 1] = f[k + (i + 1)]
    BY <2>1 DEF Follows
  <2> QED BY <2>1, <2>2
<1> HIDE DEF t
<1>3. Follows(t, f, k + 1)
  BY <1>1, <1>2 DEF Follows, t
<1>4. s[1] = f[k + 1]
  BY <1>1 DEF Follows
<1> QED BY <1>1, <1>3, <1>4 DEF t

LEMMA FollowsNothing == \A f, k : Follows(<<>>, f, k)
BY EmptyFacts DEF Follows

LEMMA MineFacts ==
  ASSUME NEW c \in Runs
  PROVE  /\ Mine(c) \in [Nat -> Msgs] /\ \A n \in Nat : Mine(c)[n] = Sent(c, n)
         /\ Comes(c) \in [Nat -> Msgs] /\ \A n \in Nat : Comes(c)[n] = Answer(c, n)
<1>1. \A n \in Nat : Sent(c, n) \in Msgs
  BY DEF Sent, Msgs
<1>2. ASSUME NEW n \in Nat PROVE Answer(c, n) \in Msgs
  <2>1. CASE n \in LongMsgs
    <3>1. Answer(c, n) = [run |-> c, num |-> n, cut |-> TRUE]
      BY <2>1 DEF Answer
    <3>2. Answer(c, n) \in [run : Runs, num : Nat, cut : BOOLEAN] /\ Answer(c, n).num = n
      BY <3>1
    <3> QED BY <2>1, <3>2 DEF Msgs
  <2>2. CASE n \notin LongMsgs
    <3>1. (n \in LongMsgs) = FALSE
      BY <2>2
    <3>2. Answer(c, n) = [run |-> c, num |-> n, cut |-> FALSE]
      BY <3>1 DEF Answer
    <3> QED BY <3>2 DEF Msgs
  <2> QED BY <2>1, <2>2
<1> QED BY <1>1, <1>2 DEF Mine, Comes

\* A datagram is received cut off, if it is long, and is the same once more.
LEMMA ReceivedFacts ==
  ASSUME NEW m \in Msgs
  PROVE  Received(m) = Answer(m.run, m.num) /\ Received(m) \in Msgs
<1>1. m.cut \in BOOLEAN /\ (m.cut => m.num \in LongMsgs) /\ m.run \in Runs /\ m.num \in Nat
      /\ m = [run |-> m.run, num |-> m.num, cut |-> m.cut]
  BY DEF Msgs
<1>2. (m.cut \/ m.num \in LongMsgs) = (m.num \in LongMsgs)
  BY <1>1
<1>3. Received(m) = [run |-> m.run, num |-> m.num, cut |-> (m.cut \/ m.num \in LongMsgs)]
  BY <1>1 DEF Received
<1>4. Received(m) = Answer(m.run, m.num)
  BY <1>2, <1>3 DEF Answer
<1>5. Answer(m.run, m.num) \in Msgs
  BY <1>1 DEF Answer, Msgs
<1> QED BY <1>4, <1>5

EchoTypes ==
  /\ ecat \in [Runs -> EIdle \cup {"send", "wait", "unheard"}] /\ epos \in [Runs -> Nat]
  /\ inbox \in Seq(Msgs) /\ ecur \in Msgs \cup {Nothing}
  /\ line \in [Runs -> Seq(Msgs)] /\ out \in [Runs -> Seq(Msgs)]

InBox(c)   == \E i \in 1 .. Len(inbox) : inbox[i].run = c
Carried(c) == eat = "send" /\ ecur.run = c

\* What a client has sent last, and not yet had an answer to, is in one place.
DatagramInv ==
  /\ eat = "send" => /\ ecur \in Msgs /\ ecur = Answer(ecur.run, epos[ecur.run])
                     /\ ~InBox(ecur.run) /\ line[ecur.run] = <<>>
  /\ \A i \in 1 .. Len(inbox) :
       /\ inbox[i].num = epos[inbox[i].run]
       /\ \A j \in 1 .. Len(inbox) : inbox[j].run = inbox[i].run => i = j
  /\ \A c \in Runs :
       /\ Follows(out[c], Comes(c), 0) /\ Len(out[c]) <= epos[c]
       /\ ecat[c] \in {"new", "send"} => ~InBox(c) /\ ~Carried(c) /\ line[c] = <<>> /\ epos[c] = Len(out[c])
       /\ ecat[c] = "wait" => epos[c] = Len(out[c]) + 1
       /\ line[c] # <<>> => line[c] = <<Answer(c, epos[c])>> /\ ~InBox(c) /\ ~Carried(c)

\* What has come out of a connection is followed by what is still in it.
CopyInv ==
  /\ eat = "off" => ecur = Nothing
  /\ eat = "copy" => ecur.run \in Runs
  /\ eat = "accept" /\ ecur.run \in Runs => Over(ecur.run) /\ line[ecur.run] = <<>>
  /\ \A c \in Runs : /\ Follows(out[c], Mine(c), 0) /\ Follows(line[c], Mine(c), Len(out[c]))
                     /\ Len(out[c]) + Len(line[c]) = epos[c]

EchoInv == prog \in Echoes => EchoTypes /\ IF prog \in Copies THEN CopyInv ELSE DatagramInv

LEMMA InboxGrows ==
  ASSUME NEW q \in Seq(Msgs), NEW m \in Msgs
  PROVE  /\ Append(q, m) \in Seq(Msgs) /\ Len(q) \in Nat /\ Len(Append(q, m)) = Len(q) + 1
         /\ \A i \in 1 .. Len(Append(q, m)) : /\ i \in 1 .. Len(q) => Append(q, m)[i] = q[i]
                                              /\ i \notin 1 .. Len(q) => i = Len(q) + 1 /\ Append(q, m)[i] = m
<1> DEFINE r == Append(q, m)
<1>1. /\ r \in Seq(Msgs) /\ Len(q) \in Nat /\ Len(r) = Len(q) + 1 /\ r[Len(q) + 1] = m
      /\ \A i \in 1 .. Len(q) : r[i] = q[i]
  BY AppendFacts, ElementFacts
<1> HIDE DEF r
<1>2. \A i \in 1 .. Len(r) : i \notin 1 .. Len(q) => i = Len(q) + 1
  BY <1>1
<1>3. \A i \in 1 .. Len(r) : /\ i \in 1 .. Len(q) => r[i] = q[i]
                             /\ i \notin 1 .. Len(q) => i = Len(q) + 1 /\ r[i] = m
  BY <1>1, <1>2
<1> QED BY <1>1, <1>3 DEF r

LEMMA EchoLengths ==
  ASSUME EchoTypes, NEW c \in Runs
  PROVE  Len(out[c]) \in Nat /\ Len(line[c]) \in Nat /\ epos[c] \in Nat /\ Len(inbox) \in Nat
BY ElementFacts DEF EchoTypes

LEMMA EchoStarts == Init => EchoInv
BY EmptyFacts, FollowsNothing, EchoAssumption
   DEF Init, EchoInit, EchoInv, EchoTypes, CopyInv, DatagramInv, EIdle, InBox, Carried, Nothing, EchoAssumption

LEMMA EchoInvOwn == EchoInv => EchoOwn
<1> DEFINE F(c, n) == [run |-> c, num |-> n, cut |-> prog \notin Copies /\ n \in LongMsgs]
<1> SUFFICES ASSUME EchoInv, prog \in Echoes, NEW c \in Runs
             PROVE  /\ Len(out[c]) <= epos[c]
                    /\ out[c] = [i \in 1 .. Len(out[c]) |-> F(c, i)]
                    /\ prog \in Copies /\ eat = "accept" /\ ecur.run = c => Len(out[c]) = epos[c]
  BY DEF EchoOwn
<1>0. out[c] \in Seq(Msgs)
  BY DEF EchoInv, EchoTypes
<1>1. Len(out[c]) \in Nat /\ Len(line[c]) \in Nat /\ epos[c] \in Nat
  BY EchoLengths DEF EchoInv
<1>2. \A n : F(c, n) = IF prog \in Copies THEN Sent(c, n) ELSE Answer(c, n)
  <2>1. CASE prog \in Copies
    <3>1. \A n : (prog \notin Copies /\ n \in LongMsgs) = FALSE
      BY <2>1
    <3> QED BY <2>1, <3>1 DEF Sent
  <2>2. CASE prog \notin Copies
    <3>1. \A n : (prog \notin Copies /\ n \in LongMsgs) = (n \in LongMsgs)
      BY <2>2
    <3> QED BY <2>2, <3>1 DEF Answer
  <2> QED BY <2>1, <2>2
<1> HIDE DEF F
<1>3. \A i \in 1 .. Len(out[c]) : out[c][i] = F(c, i)
  <2> SUFFICES ASSUME NEW i \in 1 .. Len(out[c]) PROVE out[c][i] = F(c, i)
    OBVIOUS
  <2>1. 0 + i = i /\ i \in Nat
    BY <1>1
  <2>2. CASE prog \in Copies
    <3>1. Follows(out[c], Mine(c), 0)
      BY <2>2 DEF EchoInv, CopyInv
    <3> QED BY <1>2, <2>1, <2>2, <3>1, MineFacts DEF Follows
  <2>3. CASE prog \notin Copies
    <3>1. Follows(out[c], Comes(c), 0)
      BY <2>3 DEF EchoInv, DatagramInv
    <3> QED BY <1>2, <2>1, <2>3, <3>1, MineFacts DEF Follows
  <2> QED BY <2>2, <2>3
<1>4. CASE prog \in Copies
  <2>1. eat = "accept" /\ ecur.run = c => Len(line[c]) = 0
    BY <1>4, EmptyFacts DEF EchoInv, CopyInv
  <2>2. Len(out[c]) + Len(line[c]) = epos[c]
    BY <1>4 DEF EchoInv, CopyInv
  <2>3. Len(out[c]) <= epos[c] /\ (Len(line[c]) = 0 => Len(out[c]) = epos[c])
    <3> DEFINE o == Len(out[c])
               l == Len(line[c])
    <3>1. o \in Nat /\ l \in Nat /\ epos[c] \in Nat /\ o + l = epos[c]
      BY <1>1, <2>2
    <3> HIDE DEF o, l
    <3>2. o <= epos[c] /\ (l = 0 => o = epos[c])
      BY <3>1
    <3> QED BY <3>2 DEF o, l
  <2>4. out[c] = [i \in 1 .. Len(out[c]) |-> F(c, i)]
    BY <1>0, <1>3
  <2> QED BY <2>1, <2>3, <2>4
<1>5. CASE prog \notin Copies
  <2>1. Len(out[c]) <= epos[c]
    BY <1>5 DEF EchoInv, DatagramInv
  <2> QED BY <1>0, <1>3, <1>5, <2>1
<1> QED BY <1>4, <1>5

(* Connections.                                                            *)

LEMMA CopyClientNext ==
  ASSUME EchoTypes, CopyInv, NEW c \in Runs, CopyClient(c)
  PROVE  EchoTypes' /\ CopyInv'
<1> DEFINE m == Next1(c)
           l == Append(line[c], m)
           k == Len(out[c])
           n == Len(line[c])
<1>0. k \in Nat /\ n \in Nat /\ epos[c] \in Nat /\ k + n = epos[c] /\ line[c] \in Seq(Msgs)
      /\ Follows(line[c], Mine(c), k)
  BY EchoLengths DEF EchoTypes, CopyInv
<1>1. CASE EUp /\ Len(inbox) < EchoQueue /\ EGoto(c, "new", "send")
           /\ inbox' = Append(inbox, Sent(c, 0)) /\ EClientOnly /\ UNCHANGED <<epos, line, out, faults>>
  <2>1. inbox' \in Seq(Msgs)
    <3>1. Sent(c, 0) \in Msgs
      BY DEF Sent, Msgs
    <3> QED BY <1>1, <3>1, AppendFacts DEF EchoTypes
  <2>2. ecat' = [ecat EXCEPT ![c] = "send"] /\ ecat[c] = "new"
    BY <1>1 DEF EGoto
  <2>3. \A d \in Runs : Over(d) => Over(d)'
    BY <2>2 DEF Over, EIdle, EchoTypes
  <2> QED BY <1>1, <2>1, <2>2, <2>3 DEF EchoTypes, CopyInv, EClientOnly
<1>2. CASE EGoto(c, "new", "refused") /\ EClientOnly /\ UNCHANGED <<inbox, epos, line, out, faults>>
  <2>2. ecat' = [ecat EXCEPT ![c] = "refused"] /\ ecat[c] = "new"
    BY <1>2 DEF EGoto
  <2>3. \A d \in Runs : Over(d) => Over(d)'
    BY <2>2 DEF Over, EIdle, EchoTypes
  <2>4. EchoTypes'
    BY <1>2, <2>2 DEF EchoTypes, EIdle, EClientOnly
  <2> QED BY <1>2, <2>3, <2>4 DEF CopyInv, EClientOnly
<1>3. CASE EGoto(c, "send", "send") /\ Put(c, Next1(c)) /\ epos' = [epos EXCEPT ![c] = @ + 1]
           /\ EClientOnly /\ UNCHANGED <<inbox, out, faults>>
  <2>1. ecat' = ecat /\ ecat[c] = "send" /\ line' = [line EXCEPT ![c] = l] /\ epos' = [epos EXCEPT ![c] = epos[c] + 1]
    BY <1>3 DEF EGoto, Put, EchoTypes
  <2>2. m = Mine(c)[k + n + 1] /\ Mine(c) \in [Nat -> Msgs]
    <3> HIDE DEF k, n
    <3>1. k + n + 1 = epos[c] + 1 /\ epos[c] + 1 \in Nat
      BY <1>0
    <3>2. m = Sent(c, epos[c] + 1)
      BY DEF Next1, Sent
    <3> QED BY <3>1, <3>2, MineFacts
  <2>3. Follows(l, Mine(c), k) /\ l \in Seq(Msgs) /\ Len(l) = n + 1
    <3> DEFINE f == Mine(c)
               s == line[c]
    <3>1. m = f[k + Len(s) + 1]
      BY <2>2
    <3>2. k \in Nat /\ f \in [Nat -> Msgs] /\ s \in Seq(Msgs) /\ Follows(s, f, k)
      BY <1>0, <2>2
    <3> HIDE DEF k, m, f, s
    <3>3. /\ Follows(Append(s, m), f, k) /\ Append(s, m) \in Seq(Msgs)
          /\ Len(Append(s, m)) = Len(s) + 1
      BY <3>1, <3>2, FollowsAppend
    <3> QED BY <3>3 DEF f, s
  <2>5. k + Len(l) = epos[c] + 1
    <3>1. Len(l) = n + 1
      BY <2>3
    <3> HIDE DEF k, n, l
    <3> QED BY <1>0, <3>1
  <2>6. ~Over(c)
    BY <2>1 DEF Over, EIdle
  <2> HIDE DEF l
  <2>7. EchoTypes'
    BY <1>3, <2>1, <2>3 DEF EchoTypes, EClientOnly
  <2>8. ASSUME NEW d \in Runs
        PROVE  /\ Follows(out'[d], Mine(d), 0) /\ Follows(line'[d], Mine(d), Len(out'[d]))
               /\ Len(out'[d]) + Len(line'[d]) = epos'[d]
    <3>1. CASE d = c
      BY <1>3, <2>1, <2>3, <2>5, <3>1 DEF CopyInv, EchoTypes
    <3>2. CASE d # c
      BY <1>3, <2>1, <3>2 DEF CopyInv, EchoTypes
    <3> QED BY <3>1, <3>2
  <2>9. (eat = "accept" /\ ecur.run \in Runs => Over(ecur.run) /\ line[ecur.run] = <<>>)'
    BY <1>3, <2>1, <2>6 DEF CopyInv, EClientOnly, Over, EchoTypes
  <2> QED BY <1>3, <2>7, <2>8, <2>9 DEF CopyInv, EClientOnly
<1>4. CASE EGoto(c, "send", "done") /\ EClientOnly /\ UNCHANGED <<inbox, epos, line, out, faults>>
  <2>2. ecat' = [ecat EXCEPT ![c] = "done"] /\ ecat[c] = "send"
    BY <1>4 DEF EGoto
  <2>3. \A d \in Runs : Over(d) => Over(d)'
    BY <2>2 DEF Over, EIdle, EchoTypes
  <2>4. EchoTypes'
    BY <1>4, <2>2 DEF EchoTypes, EIdle, EClientOnly
  <2> QED BY <1>4, <2>3, <2>4 DEF CopyInv, EClientOnly
<1> QED BY <1>1, <1>2, <1>3, <1>4 DEF CopyClient, Sent

LEMMA CopyServerNext ==
  ASSUME EchoTypes, CopyInv, CopyServer
  PROVE  EchoTypes' /\ CopyInv'
<1>1. CASE EStart("accept")
  <2>1. eat = "off" /\ eat' \in {"accept", "gone"} /\ UNCHANGED <<ecat, epos, ecur, inbox, line, out>>
    BY <1>1 DEF EStart, EServerOnly
  <2>2. ecur' = Nothing /\ Nothing.run \notin Runs
    BY <2>1, EchoAssumption DEF CopyInv, EchoAssumption, Nothing
  <2> QED BY <2>1, <2>2 DEF EchoTypes, CopyInv
<1>2. CASE ETake("accept", "copy", Head(inbox))
  <2>1. ecur' \in Msgs /\ inbox' \in Seq(Msgs) /\ eat' = "copy" /\ UNCHANGED <<ecat, epos, line, out>>
    BY <1>2, TailFacts DEF ETake, EchoTypes, EServerOnly
  <2>2. ecur'.run \in Runs
    BY <2>1 DEF Msgs
  <2> QED BY <2>1, <2>2 DEF EchoTypes, CopyInv
<1>3. CASE CopyBlock
  <2> DEFINE c == ecur.run
             o == Append(out[c], Head(line[c]))
             l == Tail(line[c])
  <2>1. c \in Runs /\ line[c] # <<>> /\ eat' = "copy" /\ UNCHANGED <<ecur, inbox, ecat, epos>>
        /\ line' = [line EXCEPT ![c] = l] /\ out' = [out EXCEPT ![c] = o]
    BY <1>3 DEF CopyBlock, CopyInv, EServerOnly
  <2> HIDE DEF c
  <2>0. Len(out[c]) \in Nat /\ Len(line[c]) \in Nat /\ epos[c] \in Nat
    BY <2>1, EchoLengths
  <2>10. line[c] \in Seq(Msgs) /\ out[c] \in Seq(Msgs)
    BY <2>1 DEF EchoTypes
  <2>2. Follows(line[c], Mine(c), Len(out[c])) /\ Follows(out[c], Mine(c), 0)
        /\ Len(out[c]) + Len(line[c]) = epos[c]
    BY <2>1 DEF CopyInv
  <2>3. /\ Head(line[c]) = Mine(c)[Len(out[c]) + 1] /\ Follows(l, Mine(c), Len(out[c]) + 1)
        /\ l \in Seq(Msgs) /\ Len(line[c]) \in Nat \ {0} /\ Len(l) = Len(line[c]) - 1
    BY <2>0, <2>10, <2>1, <2>2, FollowsTail
  <2>4. Follows(o, Mine(c), 0) /\ o \in Seq(Msgs) /\ Len(o) = Len(out[c]) + 1
    <3>1. 0 + Len(out[c]) + 1 = Len(out[c]) + 1
      BY <2>0
    <3>2. Mine(c) \in [Nat -> Msgs]
      BY <2>1, MineFacts
    <3>3. Head(line[c]) = Mine(c)[0 + Len(out[c]) + 1]
      BY <2>3, <3>1
    <3> QED BY <2>10, <2>2, <3>2, <3>3, FollowsAppend
  <2>5. Len(o) + Len(l) = epos[c]
    <3> DEFINE k == Len(out[c])
               n == Len(line[c])
               p == Len(o)
               r == Len(l)
    <3>1. k \in Nat /\ n \in Nat /\ k + n = epos[c] /\ p = k + 1 /\ r = n - 1
      BY <2>0, <2>2, <2>3, <2>4
    <3> HIDE DEF k, n, p, r
    <3>2. p + r = epos[c]
      BY <3>1
    <3> QED BY <3>2 DEF p, r
  <2>6. Follows(l, Mine(c), Len(o))
    BY <2>3, <2>4
  <2> HIDE DEF l, o
  <2>7. EchoTypes'
    BY <2>1, <2>3, <2>4 DEF EchoTypes
  <2>8. ASSUME NEW d \in Runs
        PROVE  /\ Follows(out'[d], Mine(d), 0) /\ Follows(line'[d], Mine(d), Len(out'[d]))
               /\ Len(out'[d]) + Len(line'[d]) = epos'[d]
    <3>1. CASE d = c
      BY <2>1, <2>4, <2>5, <2>6, <3>1 DEF CopyInv, EchoTypes
    <3>2. CASE d # c
      BY <2>1, <3>2 DEF CopyInv, EchoTypes
    <3> QED BY <3>1, <3>2
  <2>9. ecur'.run \in Runs
    BY <2>1 DEF c
  <2> QED BY <2>1, <2>7, <2>8, <2>9 DEF CopyInv
<1>4. CASE CopyEof
  BY <1>4 DEF CopyEof, EServerOnly, EchoTypes, CopyInv, Over
<1> QED BY <1>1, <1>2, <1>3, <1>4 DEF CopyServer

LEMMA KillNext ==
  ASSUME EchoTypes, NEW c \in Runs, EKill(c)
  PROVE  EchoTypes' /\ (CopyInv => CopyInv') /\ (DatagramInv => DatagramInv')
<1>1. ecat' = [ecat EXCEPT ![c] = "killed"] /\ UNCHANGED <<eat, ecur, inbox, epos, line, out>>
  BY DEF EKill
<1>2. EchoTypes'
  BY <1>1 DEF EchoTypes, EIdle
<1>3. \A d \in Runs : Over(d) => Over(d)'
  BY <1>1 DEF Over, EIdle, EchoTypes
<1>4. CopyInv => CopyInv'
  BY <1>1, <1>3 DEF CopyInv
<1>5. \A d \in Runs : ecat'[d] = ecat[d] \/ ecat'[d] = "killed"
  BY <1>1 DEF EchoTypes
<1>6. DatagramInv => DatagramInv'
  BY <1>1, <1>5 DEF DatagramInv, InBox, Carried
<1> QED BY <1>2, <1>4, <1>6

LEMMA InBoxGrows ==
  ASSUME EchoTypes, NEW m \in Msgs, inbox' = Append(inbox, m)
  PROVE  inbox' \in Seq(Msgs) /\ \A d : InBox(d)' <=> InBox(d) \/ d = m.run
<1>1. /\ inbox' \in Seq(Msgs) /\ Len(inbox) \in Nat /\ Len(inbox') = Len(inbox) + 1
      /\ inbox'[Len(inbox) + 1] = m /\ \A i \in 1 .. Len(inbox) : inbox'[i] = inbox[i]
  BY AppendFacts, ElementFacts DEF EchoTypes
<1>2. \A i : i \in 1 .. Len(inbox') <=> i \in 1 .. Len(inbox) \/ i = Len(inbox) + 1
  BY <1>1
<1> QED BY <1>1, <1>2 DEF InBox

LEMMA InBoxShrinks ==
  ASSUME EchoTypes, DatagramInv, inbox # <<>>, inbox' = Tail(inbox)
  PROVE  /\ inbox' \in Seq(Msgs) /\ Head(inbox) \in Msgs /\ Head(inbox).num = epos[Head(inbox).run]
         /\ InBox(Head(inbox).run)
         /\ \A d : InBox(d)' => InBox(d) /\ d # Head(inbox).run
         /\ \A i \in 1 .. Len(inbox') :
              /\ inbox'[i].num = epos[inbox'[i].run]
              /\ \A j \in 1 .. Len(inbox') : inbox'[j].run = inbox'[i].run => i = j
<1>1. /\ Len(inbox) \in Nat \ {0} /\ Head(inbox) = inbox[1] /\ Head(inbox) \in Msgs
      /\ inbox' \in Seq(Msgs) /\ Len(inbox') = Len(inbox) - 1
      /\ \A i \in 1 .. Len(inbox) - 1 : inbox'[i] = inbox[i + 1]
  BY TailFacts DEF EchoTypes
<1>2. 1 \in 1 .. Len(inbox)
  BY <1>1
<1>3. \A i \in 1 .. Len(inbox') : i \in Int /\ i + 1 \in 1 .. Len(inbox) /\ i + 1 # 1 /\ inbox'[i] = inbox[i + 1]
  BY <1>1
<1>4. \A i \in 1 .. Len(inbox) : /\ inbox[i].num = epos[inbox[i].run]
                                 /\ \A j \in 1 .. Len(inbox) : inbox[j].run = inbox[i].run => i = j
  BY DEF DatagramInv
<1>5. ASSUME NEW i \in 1 .. Len(inbox'), NEW j \in 1 .. Len(inbox'), inbox'[j].run = inbox'[i].run
      PROVE  i = j
  <2>1. i + 1 = j + 1 /\ i \in Int /\ j \in Int
    BY <1>3, <1>4, <1>5
  <2> QED BY <2>1
<1>6. \A d : InBox(d)' => InBox(d) /\ d # Head(inbox).run
  BY <1>1, <1>2, <1>3, <1>4 DEF InBox
<1>7. InBox(Head(inbox).run) /\ Head(inbox).num = epos[Head(inbox).run]
  BY <1>1, <1>2, <1>4 DEF InBox
<1> QED BY <1>1, <1>3, <1>4, <1>5, <1>6, <1>7

\* A client sends one more; nothing else of it was on its way.
LEMMA SendNext ==
  ASSUME EchoTypes, DatagramInv, NEW c \in Runs, NEW next \in {"wait", "unheard"}, ESent(c, next),
         \/ inbox' = Append(inbox, Next1(c))
         \/ next = "unheard" /\ UNCHANGED inbox
  PROVE  EchoTypes' /\ DatagramInv'
<1> DEFINE n == epos[c] + 1
<1>1. /\ ecat[c] = "send" /\ ecat' = [ecat EXCEPT ![c] = next] /\ epos' = [epos EXCEPT ![c] = n]
      /\ UNCHANGED <<eat, ecur, line, out>>
  BY DEF ESent, EGoto, EClientOnly
<1>2. /\ ~InBox(c) /\ ~Carried(c) /\ line[c] = <<>> /\ epos[c] = Len(out[c])
  BY <1>1 DEF DatagramInv
<1>3. n \in Nat /\ Len(out[c]) <= n /\ n = Len(out[c]) + 1
  BY <1>2, EchoLengths
<1>4. Next1(c) \in Msgs /\ Next1(c).run = c /\ Next1(c).num = n
  BY <1>3 DEF Next1, Msgs
<1> HIDE DEF n
<1>5. /\ inbox' \in Seq(Msgs)
      /\ \A d : InBox(d)' => InBox(d) \/ (d = c /\ next = next)
      /\ \A d \in Runs \ {c} : InBox(d)' => InBox(d)
  BY <1>4, InBoxGrows DEF EchoTypes, InBox
<1>6. EchoTypes'
  BY <1>1, <1>3, <1>5 DEF EchoTypes
<1>7. ASSUME NEW i \in 1 .. Len(inbox'), NEW j \in 1 .. Len(inbox')
      PROVE  /\ inbox'[i].num = epos'[inbox'[i].run]
             /\ inbox'[j].run = inbox'[i].run => i = j
  <2>1. \A k \in 1 .. Len(inbox) : /\ inbox[k].run \in Runs \ {c} /\ inbox[k].num = epos[inbox[k].run]
                                   /\ \A h \in 1 .. Len(inbox) : inbox[h].run = inbox[k].run => k = h
    <3>1. \A k \in 1 .. Len(inbox) : inbox[k] \in Msgs
      BY ElementFacts DEF EchoTypes
    <3> QED BY <1>2, <3>1 DEF DatagramInv, InBox, Msgs
  <2>2. epos'[c] = n /\ \A d \in Runs \ {c} : epos'[d] = epos[d]
    BY <1>1, <1>3 DEF EchoTypes
  <2>3. CASE inbox' = Append(inbox, Next1(c))
    <3>1. \A k \in 1 .. Len(inbox') :
            /\ k \in 1 .. Len(inbox) => inbox'[k] = inbox[k]
            /\ k \notin 1 .. Len(inbox) => k = Len(inbox) + 1 /\ inbox'[k] = Next1(c)
      BY <2>3, <1>4, InboxGrows DEF EchoTypes
    <3> QED BY <1>4, <2>1, <2>2, <3>1
  <2>4. CASE UNCHANGED inbox
    BY <2>1, <2>2, <2>4
  <2> QED BY <2>3, <2>4
<1>8. (eat = "send" => /\ ecur \in Msgs /\ ecur = Answer(ecur.run, epos[ecur.run])
                       /\ ~InBox(ecur.run) /\ line[ecur.run] = <<>>)'
  <2> SUFFICES ASSUME eat = "send"
               PROVE  /\ ecur \in Msgs /\ ecur = Answer(ecur.run, epos'[ecur.run])
                      /\ ~InBox(ecur.run)' /\ line[ecur.run] = <<>>
    BY <1>1
  <2>1. ecur \in Msgs /\ ecur = Answer(ecur.run, epos[ecur.run]) /\ ~InBox(ecur.run) /\ line[ecur.run] = <<>>
    BY DEF DatagramInv
  <2>2. ecur.run \in Runs \ {c}
    BY <1>2, <2>1 DEF Carried, Msgs
  <2> QED BY <1>1, <1>5, <2>1, <2>2 DEF EchoTypes
<1>9. ASSUME NEW d \in Runs
      PROVE  /\ Follows(out'[d], Comes(d), 0) /\ Len(out'[d]) <= epos'[d]
             /\ ecat'[d] \in {"new", "send"} =>
                  ~InBox(d)' /\ ~Carried(d)' /\ line'[d] = <<>> /\ epos'[d] = Len(out'[d])
             /\ ecat'[d] = "wait" => epos'[d] = Len(out'[d]) + 1
             /\ line'[d] # <<>> => line'[d] = <<Answer(d, epos'[d])>> /\ ~InBox(d)' /\ ~Carried(d)'
  <2>1. CASE d = c
    <3>1. epos'[c] = n /\ ecat'[c] = next
      BY <1>1, <1>3 DEF EchoTypes
    <3> QED BY <2>1, <3>1, <1>1, <1>2, <1>3 DEF DatagramInv
  <2>2. CASE d # c
    <3>1. epos'[d] = epos[d] /\ ecat'[d] = ecat[d]
      BY <2>2, <1>1 DEF EchoTypes
    <3> QED BY <2>2, <3>1, <1>1, <1>5 DEF DatagramInv, Carried
  <2> QED BY <2>1, <2>2
<1> QED BY <1>6, <1>7, <1>8, <1>9 DEF DatagramInv

LEMMA ReceiveNext ==
  ASSUME EchoTypes, DatagramInv, NEW c \in Runs, EReceive(c)
  PROVE  EchoTypes' /\ DatagramInv'
<1> DEFINE o == Append(out[c], Received(Head(line[c])))
           next == IF epos[c] = EchoMsgs THEN "done" ELSE "send"
<1>1. /\ ecat[c] = "wait" /\ ecat' = [ecat EXCEPT ![c] = next] /\ line[c] # <<>>
      /\ line' = [line EXCEPT ![c] = Tail(line[c])] /\ out' = [out EXCEPT ![c] = o]
      /\ UNCHANGED <<eat, ecur, inbox, epos>>
  BY DEF EReceive, EGoto, EClientOnly
<1>2. /\ line[c] = <<Answer(c, epos[c])>> /\ ~InBox(c) /\ ~Carried(c)
      /\ epos[c] = Len(out[c]) + 1 /\ Follows(out[c], Comes(c), 0)
  BY <1>1 DEF DatagramInv
<1>3. Received(Head(line[c])) = Answer(c, epos[c]) /\ Tail(line[c]) = <<>>
  <2>1. Head(line[c]) = Answer(c, epos[c]) /\ Tail(line[c]) = <<>>
    BY <1>2
  <2>2. epos[c] \in Nat /\ Answer(c, epos[c]).run = c /\ Answer(c, epos[c]).num = epos[c]
    BY EchoLengths DEF Answer
  <2>3. Answer(c, epos[c]) \in Msgs
    BY <2>2, MineFacts
  <2>4. Received(Answer(c, epos[c])) = Answer(c, epos[c])
    BY <2>2, <2>3, ReceivedFacts
  <2> QED BY <2>1, <2>4
<1>4. Received(Head(line[c])) = Comes(c)[0 + Len(out[c]) + 1] /\ out[c] \in Seq(Msgs)
  <2>1. 0 + Len(out[c]) + 1 = epos[c] /\ epos[c] \in Nat
    BY <1>2, EchoLengths
  <2> QED BY <1>3, <2>1, MineFacts DEF EchoTypes
<1>5. Follows(o, Comes(c), 0) /\ o \in Seq(Msgs) /\ Len(o) = epos[c]
  <2>1. Comes(c) \in [Nat -> Msgs] /\ 0 \in Nat /\ Len(out[c]) + 1 = epos[c]
    BY <1>2, MineFacts
  <2>2. Follows(o, Comes(c), 0) /\ o \in Seq(Msgs) /\ Len(o) = Len(out[c]) + 1
    <3> DEFINE h == Received(Head(line[c]))
    <3>1. h = Comes(c)[0 + Len(out[c]) + 1] /\ out[c] \in Seq(Msgs) /\ Follows(out[c], Comes(c), 0)
      BY <1>2, <1>4
    <3> HIDE DEF h
    <3>2. Follows(Append(out[c], h), Comes(c), 0) /\ Append(out[c], h) \in Seq(Msgs)
          /\ Len(Append(out[c], h)) = Len(out[c]) + 1
      BY <3>1, <2>1, FollowsAppend
    <3> QED BY <3>2 DEF h
  <2> QED BY <2>1, <2>2
<1>6. next \in {"done", "send"} /\ Len(o) <= epos[c]
  BY <1>5, EchoLengths
<1> HIDE DEF o, next
<1>7. EchoTypes'
  BY <1>1, <1>3, <1>5, <1>6, EmptyFacts DEF EchoTypes, EIdle
<1>8. ASSUME NEW d \in Runs
      PROVE  /\ Follows(out'[d], Comes(d), 0) /\ Len(out'[d]) <= epos'[d]
             /\ ecat'[d] \in {"new", "send"} =>
                  ~InBox(d)' /\ ~Carried(d)' /\ line'[d] = <<>> /\ epos'[d] = Len(out'[d])
             /\ ecat'[d] = "wait" => epos'[d] = Len(out'[d]) + 1
             /\ line'[d] # <<>> => line'[d] = <<Answer(d, epos'[d])>> /\ ~InBox(d)' /\ ~Carried(d)'
  <2>0. (InBox(d)' <=> InBox(d)) /\ (Carried(d)' <=> Carried(d))
    BY <1>1 DEF InBox, Carried
  <2>1. CASE d = c
    <3>1. out'[c] = o /\ ecat'[c] = next /\ line'[c] = <<>>
      BY <1>1, <1>3 DEF EchoTypes
    <3> QED BY <2>0, <2>1, <3>1, <1>1, <1>2, <1>5, <1>6
  <2>2. CASE d # c
    <3>1. out'[d] = out[d] /\ ecat'[d] = ecat[d] /\ line'[d] = line[d]
      BY <2>2, <1>1 DEF EchoTypes
    <3> QED BY <2>0, <2>2, <3>1, <1>1 DEF DatagramInv
  <2> QED BY <2>1, <2>2
<1>9. (eat = "send" => /\ ecur \in Msgs /\ ecur = Answer(ecur.run, epos[ecur.run])
                       /\ ~InBox(ecur.run) /\ line[ecur.run] = <<>>)'
  <2> SUFFICES ASSUME eat = "send"
               PROVE  /\ ecur \in Msgs /\ ecur = Answer(ecur.run, epos[ecur.run])
                      /\ ~InBox(ecur.run) /\ line'[ecur.run] = <<>>
    BY <1>1 DEF InBox
  <2>1. ecur \in Msgs /\ ecur = Answer(ecur.run, epos[ecur.run]) /\ ~InBox(ecur.run) /\ line[ecur.run] = <<>>
    BY DEF DatagramInv
  <2>2. ecur.run \in Runs \ {c}
    BY <1>2, <2>1 DEF Carried, Msgs
  <2> QED BY <1>1, <2>1, <2>2 DEF EchoTypes
<1>10. \A i \in 1 .. Len(inbox') :
         /\ inbox'[i].num = epos'[inbox'[i].run]
         /\ \A j \in 1 .. Len(inbox') : inbox'[j].run = inbox'[i].run => i = j
  BY <1>1 DEF DatagramInv
<1> QED BY <1>7, <1>8, <1>9, <1>10 DEF DatagramInv

LEMMA TakeNext ==
  ASSUME EchoTypes, DatagramInv, ETake("recv", "send", Received(Head(inbox)))
  PROVE  EchoTypes' /\ DatagramInv'
<1>1. /\ eat = "recv" /\ eat' = "send" /\ inbox # <<>> /\ ecur' = Received(Head(inbox)) /\ inbox' = Tail(inbox)
      /\ UNCHANGED <<ecat, epos, line, out>>
  BY DEF ETake, EServerOnly
<1>0. Head(inbox) \in Msgs /\ Head(inbox).num = epos[Head(inbox).run]
  BY <1>1, InBoxShrinks
<1>10. /\ ecur' \in Msgs /\ ecur' = Answer(Head(inbox).run, epos[Head(inbox).run])
       /\ ecur'.run = Head(inbox).run
  BY <1>0, <1>1, ReceivedFacts DEF Answer
<1>2. /\ inbox' \in Seq(Msgs) /\ InBox(Head(inbox).run)
      /\ \A d : InBox(d)' => InBox(d) /\ d # Head(inbox).run
      /\ \A i \in 1 .. Len(inbox') :
           /\ inbox'[i].num = epos[inbox'[i].run]
           /\ \A j \in 1 .. Len(inbox') : inbox'[j].run = inbox'[i].run => i = j
  BY <1>1, InBoxShrinks
<1>3. EchoTypes'
  BY <1>1, <1>2, <1>10 DEF EchoTypes
<1>4. Head(inbox).run \in Runs
  BY <1>0 DEF Msgs
<1>5. (eat = "send" => /\ ecur \in Msgs /\ ecur = Answer(ecur.run, epos[ecur.run])
                       /\ ~InBox(ecur.run) /\ line[ecur.run] = <<>>)'
  <2>1. line[Head(inbox).run] = <<>>
    BY <1>2, <1>4 DEF DatagramInv
  <2>2. \A d : d = Head(inbox).run => ~InBox(d)'
    BY <1>2
  <2>3. ~InBox(ecur.run)'
    BY <1>10, <2>2
  <2> QED BY <1>1, <1>10, <2>1, <2>3
<1>6. \A d \in Runs : Carried(d)' => InBox(d)
  BY <1>2, <1>10 DEF Carried
<1>7. ASSUME NEW d \in Runs
      PROVE  (/\ Follows(out[d], Comes(d), 0) /\ Len(out[d]) <= epos[d]
              /\ ecat[d] \in {"new", "send"} => ~InBox(d) /\ ~Carried(d) /\ line[d] = <<>> /\ epos[d] = Len(out[d])
              /\ ecat[d] = "wait" => epos[d] = Len(out[d]) + 1
              /\ line[d] # <<>> => line[d] = <<Answer(d, epos[d])>> /\ ~InBox(d) /\ ~Carried(d))'
  BY <1>1, <1>2, <1>6 DEF DatagramInv
<1> QED BY <1>1, <1>2, <1>3, <1>5, <1>7 DEF DatagramInv

LEMMA AnswerNext ==
  ASSUME EchoTypes, DatagramInv, EAnswer
  PROVE  EchoTypes' /\ DatagramInv'
<1> DEFINE c == ecur.run
<1>1. /\ eat = "send" /\ eat' = "recv" /\ line' = [line EXCEPT ![c] = Append(line[c], ecur)]
      /\ UNCHANGED <<ecur, inbox, ecat, epos, out>>
  BY DEF EAnswer, EServerOnly, Put
<1>2. ecur \in Msgs /\ ecur = Answer(c, epos[c]) /\ ~InBox(c) /\ line[c] = <<>> /\ Carried(c)
  BY <1>1 DEF DatagramInv, Carried
<1>3. c \in Runs
  BY <1>2 DEF Msgs
<1>4. Append(line[c], ecur) = <<Answer(c, epos[c])>> /\ Append(line[c], ecur) \in Seq(Msgs)
  <2>1. Append(<<>>, ecur) = <<ecur>> /\ Append(<<>>, ecur) \in Seq(Msgs)
    BY <1>2
  <2> QED BY <2>1, <1>2, <1>3
<1> HIDE DEF c
<1>5. line' \in [Runs -> Seq(Msgs)] /\ line'[c] = <<Answer(c, epos[c])>>
      /\ \A d \in Runs \ {c} : line'[d] = line[d]
  BY <1>1, <1>3, <1>4 DEF EchoTypes
<1>6. EchoTypes'
  BY <1>1, <1>5 DEF EchoTypes
<1>7. \A d : ~Carried(d)' /\ (InBox(d)' <=> InBox(d))
  BY <1>1 DEF Carried, InBox
<1>8. ASSUME NEW d \in Runs
      PROVE  (/\ Follows(out[d], Comes(d), 0) /\ Len(out[d]) <= epos[d]
              /\ ecat[d] \in {"new", "send"} => ~InBox(d) /\ ~Carried(d) /\ line[d] = <<>> /\ epos[d] = Len(out[d])
              /\ ecat[d] = "wait" => epos[d] = Len(out[d]) + 1
              /\ line[d] # <<>> => line[d] = <<Answer(d, epos[d])>> /\ ~InBox(d) /\ ~Carried(d))'
  <2>1. CASE d = c
    BY <2>1, <1>1, <1>2, <1>5, <1>7 DEF DatagramInv
  <2>2. CASE d # c
    BY <2>2, <1>1, <1>5, <1>7 DEF DatagramInv
  <2> QED BY <2>1, <2>2
<1>9. (\A i \in 1 .. Len(inbox) :
         /\ inbox[i].num = epos[inbox[i].run]
         /\ \A j \in 1 .. Len(inbox) : inbox[j].run = inbox[i].run => i = j)'
  BY <1>1 DEF DatagramInv
<1> QED BY <1>1, <1>6, <1>8, <1>9 DEF DatagramInv

\* The client and the server move on, and no message with them.
LEMMA QuietNext ==
  ASSUME EchoTypes, DatagramInv, UNCHANGED <<ecur, inbox, epos, line, out>>, eat' # "send" \/ UNCHANGED eat,
         \/ UNCHANGED ecat
         \/ \E c \in Runs : EGoto(c, "new", "send") \/ EGoto(c, "send", "refused")
  PROVE  EchoTypes' /\ DatagramInv'
<1>1. ecat' \in [Runs -> EIdle \cup {"send", "wait", "unheard"}]
      /\ \A d \in Runs : /\ ecat'[d] \in {"new", "send"} => ecat[d] \in {"new", "send"}
                         /\ ecat'[d] = "wait" => ecat[d] = "wait"
  BY DEF EchoTypes, EGoto, EIdle
<1>2. \A d : (Carried(d)' => Carried(d)) /\ (InBox(d)' <=> InBox(d))
  BY DEF Carried, InBox
<1>3. EchoTypes'
  BY <1>1 DEF EchoTypes
<1>4. ASSUME NEW d \in Runs
      PROVE  (/\ Follows(out[d], Comes(d), 0) /\ Len(out[d]) <= epos[d]
              /\ ecat[d] \in {"new", "send"} => ~InBox(d) /\ ~Carried(d) /\ line[d] = <<>> /\ epos[d] = Len(out[d])
              /\ ecat[d] = "wait" => epos[d] = Len(out[d]) + 1
              /\ line[d] # <<>> => line[d] = <<Answer(d, epos[d])>> /\ ~InBox(d) /\ ~Carried(d))'
  BY <1>1, <1>2 DEF DatagramInv
<1>5. (\A i \in 1 .. Len(inbox) :
         /\ inbox[i].num = epos[inbox[i].run]
         /\ \A j \in 1 .. Len(inbox) : inbox[j].run = inbox[i].run => i = j)'
  BY DEF DatagramInv
<1>6. (eat = "send" => /\ ecur \in Msgs /\ ecur = Answer(ecur.run, epos[ecur.run])
                       /\ ~InBox(ecur.run) /\ line[ecur.run] = <<>>)'
  BY DEF DatagramInv, InBox
<1> QED BY <1>3, <1>4, <1>5, <1>6 DEF DatagramInv

LEMMA DatagramClientNext ==
  ASSUME EchoTypes, DatagramInv, NEW c \in Runs, UcaseClient(c) \/ I6Client(c)
  PROVE  EchoTypes' /\ DatagramInv'
<1>1. CASE EBind(c)
  BY <1>1, QuietNext DEF EBind, EClientOnly
<1>2. CASE EGoto(c, "send", "refused") /\ EClientOnly /\ UNCHANGED <<inbox, epos, line, out>>
  BY <1>2, QuietNext DEF EClientOnly
<1>3. CASE EReceive(c)
  BY <1>3, ReceiveNext
<1>4. CASE ESent(c, "wait") /\ inbox' = Append(inbox, Next1(c))
  BY <1>4, SendNext
<1>5. CASE ESent(c, "unheard") /\ UNCHANGED inbox
  BY <1>5, SendNext
<1> QED BY <1>1, <1>2, <1>3, <1>4, <1>5 DEF UcaseClient, I6Client

LEMMA DatagramServerNext ==
  ASSUME EchoTypes, DatagramInv, UcaseServer \/ I6Server
  PROVE  EchoTypes' /\ DatagramInv'
<1>1. CASE EStart("recv")
  <2>1. eat' # "send"
    BY <1>1 DEF EStart
  <2> QED BY <1>1, <2>1, QuietNext DEF EStart, EServerOnly
<1>2. CASE ETake("recv", "send", Received(Head(inbox)))
  BY <1>2, TakeNext
<1>3. CASE EAnswer
  BY <1>3, AnswerNext
<1>4. CASE eat' \in {"gone", "recv"} /\ EServerOnly /\ UNCHANGED <<ecur, inbox, line, out>>
  <2>1. eat' # "send"
    BY <1>4
  <2> QED BY <1>4, <2>1, QuietNext DEF EServerOnly
<1> QED BY <1>1, <1>2, <1>3, <1>4 DEF UcaseServer, I6Server

LEMMA EchoNext ==
  ASSUME EchoInv, prog \in Echoes, prog' = prog, EchoStep
  PROVE  EchoInv'
<1>1. CASE prog \in Copies
  <2>1. EchoTypes /\ CopyInv
    BY <1>1 DEF EchoInv
  <2>2. CopyServer \/ \E c \in Runs : CopyClient(c) \/ EKill(c)
    BY <1>1 DEF EchoStep, EchoServer, EchoClient, UcaseServer, UcaseClient, I6Server, I6Client, Copies,
                UsXfrServer, Server57_02, UsXfrClient, Client57_02
  <2>3. EchoTypes' /\ CopyInv'
    BY <2>1, <2>2, CopyServerNext, CopyClientNext, KillNext
  <2> QED BY <1>1, <2>3 DEF EchoInv
<1>2. CASE prog \notin Copies
  <2>1. EchoTypes /\ DatagramInv
    BY <1>2 DEF EchoInv
  <2>2. UcaseServer \/ I6Server \/ \E c \in Runs : UcaseClient(c) \/ I6Client(c) \/ EKill(c)
    BY <1>2 DEF EchoStep, EchoServer, EchoClient, Copies, UsXfrServer, Server57_02, UsXfrClient, Client57_02
  <2>3. EchoTypes' /\ DatagramInv'
    BY <2>1, <2>2, DatagramServerNext, DatagramClientNext, KillNext
  <2> QED BY <1>2, <2>3 DEF EchoInv
<1> QED BY <1>1, <1>2

----------------------------------------------------------------------------
(* The relay of a message queue through a pipe.                            *)

Part == [part : {"head", "body"}, num : Nat]

RelayTypes ==
  /\ xat \in {"fork", "select", "body", "gone"} /\ xsent \in Nat /\ xempty \subseteq 1 .. xsent
  /\ xqueue \in [Queues -> Seq(Nat)] /\ xheld \in [Queues -> 0 .. xsent] /\ xhead \in 0 .. xsent
  /\ xpipe \in Seq(Part) /\ xhanded \in Seq(Nat) /\ xprinted \in Seq(Nat)
  /\ \A q \in Queues : \A i \in 1 .. Len(xqueue[q]) : xqueue[q][i] \in 1 .. xsent
  /\ \A i \in 1 .. Len(xhanded) : xhanded[i] \in 1 .. xsent

\* A head is followed by its own body, or, when the message is empty, like a
\* body by the next message's head.  The i-th part is of the pos[i]-th message.
Linked(pos) ==
  \A i \in 1 .. Len(xpipe) - 1 :
    IF xpipe[i].part = "head" /\ xpipe[i].num \notin xempty
    THEN xpipe[i + 1].part = "body" /\ pos[i + 1] = pos[i]
    ELSE xpipe[i + 1].part = "head" /\ pos[i + 1] = pos[i] + 1

\* The pipe holds what has been handed on and not yet reported.
Holds(pos) ==
  /\ \A i \in 1 .. Len(xpipe) : pos[i] \in 1 .. Len(xhanded) /\ xpipe[i].num = xhanded[pos[i]]
  /\ Linked(pos)
  /\ xpipe # <<>> => /\ pos[1] = Len(xprinted) + 1 /\ pos[Len(xpipe)] = Len(xhanded)
                     /\ xpipe[1].part = IF xat = "body" THEN "body" ELSE "head"
                     /\ xpipe[Len(xpipe)].part = "body" \/ xpipe[Len(xpipe)].num \in xempty
  /\ xpipe = <<>> => xat # "body" /\ Len(xprinted) = Len(xhanded)
  /\ xat = "body" => xhead = xhanded[Len(xprinted) + 1]

\* The parent has not come upon an empty message, and has not gone.
Relays == xat \in {"fork", "select"} \/ (xat = "body" /\ xhead \notin xempty)

RelayInv ==
  /\ RelayTypes
  /\ Len(xprinted) <= Len(xhanded) /\ \A i \in 1 .. Len(xprinted) : xprinted[i] = xhanded[i]
  /\ Relays => \E pos \in [1 .. Len(xpipe) -> Nat] : Holds(pos)

LEMMA RelayStarts == Init => RelayInv
<1> SUFFICES ASSUME RelayInit PROVE RelayInv
  BY DEF Init
<1>1. RelayTypes
  BY EmptyFacts DEF RelayInit, RelayTypes
<1>2. \E pos \in [1 .. Len(xpipe) -> Nat] : Holds(pos)
  <2> DEFINE pos == [i \in 1 .. Len(xpipe) |-> 0]
  <2>1. xpipe = <<>> /\ Len(xpipe) = 0 /\ Len(xprinted) = Len(xhanded) /\ xat = "fork"
    BY EmptyFacts DEF RelayInit
  <2>2. Holds(pos)
    BY <2>1 DEF Holds, Linked
  <2>3. pos \in [1 .. Len(xpipe) -> Nat]
    OBVIOUS
  <2> QED BY <2>2, <2>3
<1>3. Len(xprinted) = 0 /\ Len(xhanded) = 0
  BY EmptyFacts DEF RelayInit
<1> QED BY <1>1, <1>2, <1>3 DEF RelayInv

LEMMA RelayLengths ==
  ASSUME RelayTypes
  PROVE  Len(xpipe) \in Nat /\ Len(xhanded) \in Nat /\ Len(xprinted) \in Nat
         /\ (xpipe = <<>> <=> Len(xpipe) = 0)
BY ElementFacts, TailFacts, EmptyFacts DEF RelayTypes

LEMMA RelaySentNext ==
  ASSUME RelayInv, NEW q \in Queues, RelaySent(q)
  PROVE  RelayInv'
<1>1. /\ xsent' = xsent + 1 /\ xqueue' = [xqueue EXCEPT ![q] = Append(xqueue[q], xsent + 1)]
      /\ xempty' \in {xempty, xempty \cup {xsent + 1}}
      /\ UNCHANGED <<xat, xheld, xpipe, xhead, xhanded, xprinted>>
  BY DEF RelaySent
<1>2. /\ xsent \in Nat /\ xempty \subseteq 1 .. xsent /\ xhead \in 0 .. xsent
      /\ xqueue \in [Queues -> Seq(Nat)] /\ xqueue[q] \in Seq(Nat) /\ xpipe \in Seq(Part)
  BY DEF RelayInv, RelayTypes
<1>3. xempty' \subseteq 1 .. xsent' /\ \A n \in 0 .. xsent : n \in xempty' <=> n \in xempty
  BY <1>1, <1>2
<1>4. RelayTypes'
  <2> DEFINE s == Append(xqueue[q], xsent + 1)
  <2>1. /\ s \in Seq(Nat) /\ Len(s) = Len(xqueue[q]) + 1 /\ s[Len(xqueue[q]) + 1] = xsent + 1
        /\ \A i \in 1 .. Len(xqueue[q]) : s[i] = xqueue[q][i]
    BY <1>2, AppendFacts
  <2>2. Len(xqueue[q]) \in Nat
    BY <1>2, ElementFacts
  <2>3. \A i \in 1 .. Len(xqueue[q]) : xqueue[q][i] \in 1 .. xsent
    BY DEF RelayInv, RelayTypes
  <2> HIDE DEF s
  <2>4. \A i \in 1 .. Len(s) : s[i] \in 1 .. xsent'
    <3> SUFFICES ASSUME NEW i \in 1 .. Len(s) PROVE s[i] \in 1 .. xsent'
      OBVIOUS
    <3>1. i \in 1 .. Len(xqueue[q]) \/ i = Len(xqueue[q]) + 1
      BY <2>1, <2>2
    <3>2. xsent + 1 \in 1 .. xsent' /\ \A n \in 1 .. xsent : n \in 1 .. xsent'
      BY <1>1, <1>2
    <3> QED BY <3>1, <3>2, <2>1, <2>3
  <2>5. \A n : n \in 1 .. xsent => n \in 1 .. xsent'
    BY <1>1, <1>2
  <2>6. xqueue' = [xqueue EXCEPT ![q] = s]
    BY <1>1 DEF s
  <2>7. xqueue' \in [Queues -> Seq(Nat)]
    BY <1>2, <2>1, <2>6
  <2>8. \A r \in Queues : \A i \in 1 .. Len(xqueue'[r]) : xqueue'[r][i] \in 1 .. xsent'
    <3> SUFFICES ASSUME NEW r \in Queues PROVE \A i \in 1 .. Len(xqueue'[r]) : xqueue'[r][i] \in 1 .. xsent'
      OBVIOUS
    <3>1. CASE r = q
      BY <3>1, <1>2, <2>4, <2>6
    <3>2. CASE r # q
      BY <3>2, <1>2, <2>5, <2>6 DEF RelayInv, RelayTypes
    <3> QED BY <3>1, <3>2
  <2>9. xsent' \in Nat /\ xheld' \in [Queues -> 0 .. xsent'] /\ xhead' \in 0 .. xsent'
    BY <1>1, <1>2 DEF RelayInv, RelayTypes
  <2>10. \A i \in 1 .. Len(xhanded') : xhanded'[i] \in 1 .. xsent'
    BY <1>1, <2>5 DEF RelayInv, RelayTypes
  <2> QED BY <1>1, <1>3, <2>7, <2>8, <2>9, <2>10 DEF RelayInv, RelayTypes
<1>5. Relays' => Relays
  BY <1>1, <1>2, <1>3 DEF Relays
<1>6. ASSUME NEW pos \in [1 .. Len(xpipe) -> Nat], Holds(pos) PROVE Holds(pos)'
  <2>1. \A i \in 1 .. Len(xpipe) : xpipe[i].num \in 0 .. xsent
    <3>1. \A i \in 1 .. Len(xpipe) : pos[i] \in 1 .. Len(xhanded) /\ xpipe[i].num = xhanded[pos[i]]
      BY <1>6 DEF Holds
    <3>2. \A i \in 1 .. Len(xhanded) : xhanded[i] \in 1 .. xsent
      BY DEF RelayInv, RelayTypes
    <3>3. \A n \in 1 .. xsent : n \in 0 .. xsent
      BY <1>2
    <3> QED BY <3>1, <3>2, <3>3
  <2>2. \A i \in 1 .. Len(xpipe) : xpipe[i].num \in xempty' <=> xpipe[i].num \in xempty
    BY <2>1, <1>3
  <2>3. xpipe # <<>> => Len(xpipe) \in 1 .. Len(xpipe) /\ \A i \in 1 .. Len(xpipe) - 1 : i \in 1 .. Len(xpipe)
    BY RelayLengths DEF RelayInv
  <2>4. \A i \in 1 .. Len(xpipe) - 1 : i \in 1 .. Len(xpipe)
    BY RelayLengths DEF RelayInv
  <2>5. Linked(pos)'
    BY <1>1, <1>6, <2>2, <2>4 DEF Holds, Linked
  <2> QED BY <1>1, <1>6, <2>2, <2>3, <2>5 DEF Holds
<1> QED BY <1>1, <1>4, <1>5, <1>6 DEF RelayInv

LEMMA TakenNext ==
  ASSUME RelayInv, NEW q \in Queues, xqueue[1] # <<>>,
         xheld' = [xheld EXCEPT ![q] = Head(xqueue[1])], xqueue' = [xqueue EXCEPT ![1] = Tail(xqueue[1])],
         UNCHANGED <<xat, xsent, xempty, xpipe, xhead, xhanded, xprinted>>
  PROVE  RelayInv'
<1>1. 1 \in Queues
  BY RelayAssumption DEF RelayAssumption, Queues
<1>2. xqueue \in [Queues -> Seq(Nat)] /\ xqueue[1] \in Seq(Nat) /\ \A i \in 1 .. Len(xqueue[1]) : xqueue[1][i] \in 1 .. xsent
  BY <1>1 DEF RelayInv, RelayTypes
<1> DEFINE t == Tail(xqueue[1])
<1>3. /\ Len(xqueue[1]) \in Nat \ {0} /\ Head(xqueue[1]) = xqueue[1][1] /\ t \in Seq(Nat) /\ Len(t) = Len(xqueue[1]) - 1
      /\ \A i \in 1 .. Len(xqueue[1]) - 1 : t[i] = xqueue[1][i + 1]
  BY <1>2, TailFacts
<1> HIDE DEF t
<1>4. Head(xqueue[1]) \in 1 .. xsent
  BY <1>2, <1>3
<1>5. \A i \in 1 .. Len(t) : i + 1 \in 1 .. Len(xqueue[1]) /\ t[i] = xqueue[1][i + 1]
  BY <1>3
<1>6. xqueue' = [xqueue EXCEPT ![1] = t]
  BY DEF t
<1>7. xqueue' \in [Queues -> Seq(Nat)]
  BY <1>1, <1>2, <1>3, <1>6
<1>8. \A r \in Queues : \A i \in 1 .. Len(xqueue'[r]) : xqueue'[r][i] \in 1 .. xsent
  BY <1>1, <1>2, <1>5, <1>6 DEF RelayInv, RelayTypes
<1>9. xheld' \in [Queues -> 0 .. xsent]
  <2>1. Head(xqueue[1]) \in 0 .. xsent
    BY <1>4
  <2> QED BY <2>1 DEF RelayInv, RelayTypes
<1>10. RelayTypes'
  BY <1>7, <1>8, <1>9 DEF RelayInv, RelayTypes
<1> QED BY <1>10 DEF RelayInv, Relays, Holds, Linked

\* What a message adds to the pipe.
LEMMA PartsAdded ==
  ASSUME NEW s \in Seq(Part), NEW n \in Nat
  PROVE  /\ s \o Parts(n) \in Seq(Part) /\ Len(s) \in Nat
         /\ \A i \in 1 .. Len(s) : (s \o Parts(n))[i] = s[i]
         /\ (s \o Parts(n))[Len(s) + 1] = [part |-> "head", num |-> n]
         /\ n \in xempty => Len(s \o Parts(n)) = Len(s) + 1
         /\ n \notin xempty => /\ Len(s \o Parts(n)) = Len(s) + 2
                               /\ (s \o Parts(n))[Len(s) + 2] = [part |-> "body", num |-> n]
<1> DEFINE h == [part |-> "head", num |-> n]
           b == [part |-> "body", num |-> n]
<1>1. h \in Part /\ b \in Part
  BY DEF Part
<1>2. Parts(n) = IF n \in xempty THEN <<h>> ELSE <<h, b>>
  BY DEF Parts
<1> HIDE DEF h, b
<1>3. Len(s) \in Nat
  BY ElementFacts
<1>4. CASE n \in xempty
  <2>1. s \o <<h>> \in Seq(Part) /\ Len(s \o <<h>>) = Len(s) + 1 /\ (s \o <<h>>)[Len(s) + 1] = h
        /\ \A i \in 1 .. Len(s) : (s \o <<h>>)[i] = s[i]
    BY <1>1
  <2> QED BY <1>2, <1>3, <1>4, <2>1 DEF h
<1>5. CASE n \notin xempty
  <2>1. s \o <<h, b>> \in Seq(Part) /\ Len(s \o <<h, b>>) = Len(s) + 2 /\ (s \o <<h, b>>)[Len(s) + 1] = h
        /\ (s \o <<h, b>>)[Len(s) + 2] = b /\ \A i \in 1 .. Len(s) : (s \o <<h, b>>)[i] = s[i]
    BY <1>1
  <2> QED BY <1>2, <1>3, <1>5, <2>1 DEF h, b
<1> QED BY <1>4, <1>5

LEMMA PartFields ==
  \A r, p, n : r = [part |-> p, num |-> n] => r.part = p /\ r.num = n
OBVIOUS

LEMMA HandedNext ==
  ASSUME RelayInv, NEW q \in Queues, xheld[q] # 0, xpipe' = xpipe \o Parts(xheld[q]),
         xhanded' = Append(xhanded, xheld[q]), xheld' = [xheld EXCEPT ![q] = 0],
         UNCHANGED <<xat, xsent, xempty, xqueue, xhead, xprinted>>
  PROVE  RelayInv'
<1> DEFINE n == xheld[q]
           L == Len(xpipe)
           H == Len(xhanded)
           M == Len(xpipe')
<1>1. n \in 1 .. xsent /\ n \in Nat /\ L \in Nat /\ H \in Nat /\ xhanded \in Seq(Nat) /\ xpipe \in Seq(Part)
      /\ Len(xprinted) \in Nat /\ Len(xprinted) <= H /\ (xpipe = <<>> <=> L = 0)
  BY RelayLengths DEF RelayInv, RelayTypes
<1>2. /\ xpipe' \in Seq(Part) /\ \A i \in 1 .. L : xpipe'[i] = xpipe[i]
      /\ xpipe'[L + 1] = [part |-> "head", num |-> n]
      /\ n \in xempty => M = L + 1
      /\ n \notin xempty => M = L + 2 /\ xpipe'[L + 2] = [part |-> "body", num |-> n]
  BY <1>1, PartsAdded
<1>3. /\ xhanded' \in Seq(Nat) /\ Len(xhanded') = H + 1 /\ xhanded'[H + 1] = n
      /\ \A i \in 1 .. H : xhanded'[i] = xhanded[i]
  BY <1>1, AppendFacts
<1>0. UNCHANGED <<xat, xempty, xhead, xprinted>>
  OBVIOUS
<1> HIDE DEF n, L, H, M
<1>4. RelayTypes'
  <2>1. xheld' \in [Queues -> 0 .. xsent]
    BY DEF RelayInv, RelayTypes
  <2>2. \A i \in 1 .. Len(xhanded') : xhanded'[i] \in 1 .. xsent
    <3> SUFFICES ASSUME NEW i \in 1 .. Len(xhanded') PROVE xhanded'[i] \in 1 .. xsent
      OBVIOUS
    <3>1. i \in 1 .. H \/ i = H + 1
      BY <1>1, <1>3
    <3>2. i \in 1 .. H => xhanded[i] \in 1 .. xsent
      BY DEF RelayInv, RelayTypes, H
    <3> QED BY <3>1, <3>2, <1>1, <1>3
  <2> QED BY <1>2, <1>3, <2>1, <2>2 DEF RelayInv, RelayTypes
<1>5. Len(xprinted') <= Len(xhanded') /\ \A i \in 1 .. Len(xprinted') : xprinted'[i] = xhanded'[i]
  <2> DEFINE p == Len(xprinted)
  <2>0. p \in Nat /\ p <= H /\ H \in Nat
    BY <1>1
  <2> HIDE DEF p
  <2>1. p <= H + 1 /\ \A i \in 1 .. p : i \in 1 .. H
    BY <2>0
  <2>2. \A i \in 1 .. p : xprinted[i] = xhanded[i]
    BY DEF RelayInv, p
  <2>3. p <= Len(xhanded') /\ \A i \in 1 .. p : xprinted[i] = xhanded'[i]
    BY <2>1, <2>2, <1>3
  <2> QED BY <2>3, <1>0 DEF p
<1>6. ASSUME NEW pos \in [1 .. L -> Nat], Holds(pos)
      PROVE  \E p \in [1 .. M -> Nat] : Holds(p)'
  <2>1. M \in Nat /\ M > L /\ M <= L + 2 /\ \A i \in 1 .. M : i \in 1 .. L \/ i = L + 1 \/ (i = L + 2 /\ n \notin xempty)
    BY <1>1, <1>2
  <2>2. PICK p \in [1 .. M -> Nat] : p = [i \in 1 .. M |-> IF i \in 1 .. L THEN pos[i] ELSE H + 1]
    <3>1. [i \in 1 .. M |-> IF i \in 1 .. L THEN pos[i] ELSE H + 1] \in [1 .. M -> Nat]
      BY <1>1
    <3> QED BY <3>1
  <2>16. \A i \in 1 .. L : i \in 1 .. M
    BY <1>1, <2>1
  <2>3. \A i \in 1 .. L : i \in 1 .. M /\ p[i] = pos[i] /\ xpipe'[i] = xpipe[i]
    BY <1>2, <2>2, <2>16
  <2>17. /\ xpipe'[L + 1].part = "head" /\ xpipe'[L + 1].num = n
         /\ n \notin xempty => xpipe'[L + 2].part = "body" /\ xpipe'[L + 2].num = n
    <3>1. xpipe'[L + 1] = [part |-> "head", num |-> n]
      BY <1>2
    <3>2. n \notin xempty => xpipe'[L + 2] = [part |-> "body", num |-> n]
      BY <1>2
    <3>3. xpipe'[L + 1].part = "head" /\ xpipe'[L + 1].num = n
      BY <3>1, PartFields, Zenon
    <3>4. n \notin xempty => xpipe'[L + 2].part = "body" /\ xpipe'[L + 2].num = n
      BY <3>2, PartFields, Zenon
    <3> QED BY <3>3, <3>4
  <2>4. \A i \in 1 .. M : i \notin 1 .. L => p[i] = H + 1 /\ xpipe'[i].num = n
    BY <2>1, <2>2, <2>17
  <2>5. L + 1 \in 1 .. M /\ L + 1 \notin 1 .. L /\ L + 2 \notin 1 .. L /\ M \in 1 .. M /\ M \notin 1 .. L
    BY <1>1, <2>1
  <2>6. \A i \in 1 .. M : p[i] \in 1 .. Len(xhanded') /\ xpipe'[i].num = xhanded'[p[i]]
    <3> SUFFICES ASSUME NEW i \in 1 .. M
                 PROVE  p[i] \in 1 .. Len(xhanded') /\ xpipe'[i].num = xhanded'[p[i]]
      OBVIOUS
    <3>0. H + 1 \in 1 .. Len(xhanded') /\ \A j \in 1 .. H : j \in 1 .. Len(xhanded')
      BY <1>1, <1>3
    <3>1. CASE i \in 1 .. L
      <4>1. pos[i] \in 1 .. H /\ xpipe[i].num = xhanded[pos[i]]
        BY <1>6, <3>1 DEF Holds, L, H
      <4> QED BY <4>1, <3>0, <3>1, <2>3, <1>3
    <3>2. CASE i \notin 1 .. L
      BY <2>4, <3>0, <3>2, <1>3
    <3> QED BY <3>1, <3>2
  <2>7. L > 0 => /\ L \in 1 .. L /\ pos[L] = H /\ ~(xpipe[L].part = "head" /\ xpipe[L].num \notin xempty)
                 /\ pos[1] = Len(xprinted) + 1 /\ xpipe[1].part = IF xat = "body" THEN "body" ELSE "head"
    <3>1. L > 0 => xpipe # <<>> /\ L \in 1 .. L
      BY <1>1
    <3>2. xpipe # <<>> => xpipe[L].part = "body" \/ xpipe[L].num \in xempty
      BY <1>6 DEF Holds, L
    <3> QED BY <3>1, <3>2, <1>6 DEF Holds, L, H
  <2>8. L = 0 => xat # "body" /\ Len(xprinted) = H
    BY <1>1, <1>6 DEF Holds, H
  <2>9. ASSUME NEW i \in 1 .. M - 1
        PROVE  IF xpipe'[i].part = "head" /\ xpipe'[i].num \notin xempty
               THEN xpipe'[i + 1].part = "body" /\ p[i + 1] = p[i]
               ELSE xpipe'[i + 1].part = "head" /\ p[i + 1] = p[i] + 1
    <3>1. CASE i \in 1 .. L - 1
      <4>1. i \in 1 .. L /\ i + 1 \in 1 .. L
        BY <3>1, <1>1
      <4>2. IF xpipe[i].part = "head" /\ xpipe[i].num \notin xempty
            THEN xpipe[i + 1].part = "body" /\ pos[i + 1] = pos[i]
            ELSE xpipe[i + 1].part = "head" /\ pos[i + 1] = pos[i] + 1
        BY <3>1, <1>6 DEF Holds, Linked, L
      <4> QED BY <4>1, <4>2, <2>3
    <3>2. CASE i = L
      <4>1. L > 0 /\ i + 1 = L + 1
        BY <3>2
      <4>2. xpipe'[i] = xpipe[L] /\ p[i] = H /\ ~(xpipe[L].part = "head" /\ xpipe[L].num \notin xempty)
        BY <3>2, <4>1, <2>3, <2>7
      <4>3. xpipe'[i + 1].part = "head" /\ p[i + 1] = H + 1
        BY <4>1, <2>4, <2>5, <2>17
      <4> QED BY <4>2, <4>3
    <3>3. CASE i = L + 1
      <4>1. n \notin xempty /\ i + 1 = L + 2 /\ L + 2 \in 1 .. M
        BY <3>3, <1>1, <1>2
      <4>2. xpipe'[i].part = "head" /\ xpipe'[i].num = n /\ p[i] = H + 1
        BY <3>3, <2>17, <2>4, <2>5
      <4>3. xpipe'[i + 1].part = "body" /\ p[i + 1] = H + 1
        BY <4>1, <2>17, <2>4, <2>5
      <4> QED BY <4>1, <4>2, <4>3
    <3>4. i \in 1 .. L - 1 \/ i = L \/ i = L + 1
      BY <2>1, <1>1
    <3> QED BY <3>1, <3>2, <3>3, <3>4
  <2>10. p[1] = Len(xprinted) + 1 /\ xpipe'[1].part = IF xat = "body" THEN "body" ELSE "head"
    <3>1. CASE L > 0
      <4>1. 1 \in 1 .. L
        BY <3>1, <1>1
      <4> QED BY <4>1, <3>1, <2>3, <2>7
    <3>2. CASE L = 0
      <4>1. 1 = L + 1
        BY <3>2
      <4> QED BY <4>1, <3>2, <2>4, <2>5, <2>8, <2>17
    <3>3. L > 0 \/ L = 0
      BY <1>1
    <3> QED BY <3>1, <3>2, <3>3
  <2>11. p[M] = Len(xhanded') /\ (xpipe'[M].part = "body" \/ xpipe'[M].num \in xempty)
    <3>1. CASE n \in xempty
      BY <3>1, <2>4, <2>5, <1>3
    <3>2. CASE n \notin xempty
      <4>1. M = L + 2
        BY <3>2, <1>2
      <4> QED BY <4>1, <3>2, <2>17, <2>4, <2>5, <1>3
    <3> QED BY <3>1, <3>2
  <2>12. xpipe' # <<>>
    BY <2>1, <1>1, EmptyFacts DEF M
  <2>13. xat = "body" => xhead = xhanded'[Len(xprinted) + 1]
    <3>1. xat = "body" => xhead = xhanded[Len(xprinted) + 1] /\ L # 0
      BY <1>6, <2>8 DEF Holds
    <3>2. L # 0 => Len(xprinted) + 1 \in 1 .. H
      <4>1. L # 0 => pos[1] = Len(xprinted) + 1 /\ 1 \in 1 .. L
        BY <2>7, <1>1
      <4> QED BY <4>1, <1>6 DEF Holds, L, H
    <3> QED BY <3>1, <3>2, <1>3
  <2>14. Linked(p)'
    BY <2>9, <1>0 DEF Linked, M
  <2>15. Holds(p)'
    BY <2>6, <2>10, <2>11, <2>12, <2>13, <2>14, <1>0 DEF Holds, M
  <2> QED BY <2>2, <2>15
<1>7. Relays' => Relays
  BY <1>0 DEF Relays
<1> QED BY <1>4, <1>5, <1>6, <1>7 DEF RelayInv, L, M

\* A head whose body is still to come.
HasBody(r) == r.part = "head" /\ r.num \notin xempty

\* What is left when one part has been read.
LEMMA PartRead ==
  ASSUME RelayTypes, NEW pos \in [1 .. Len(xpipe) -> Nat], Holds(pos), xpipe # <<>>,
         xpipe' = Tail(xpipe), UNCHANGED <<xempty, xhanded>>
  PROVE  \E p \in [1 .. Len(xpipe') -> Nat] :
           /\ \A i \in 1 .. Len(xpipe') : p[i] \in 1 .. Len(xhanded) /\ xpipe'[i].num = xhanded[p[i]]
           /\ Linked(p)'
           /\ xpipe' # <<>> =>
                /\ p[Len(xpipe')] = Len(xhanded)
                /\ xpipe'[Len(xpipe')].part = "body" \/ xpipe'[Len(xpipe')].num \in xempty
                /\ HasBody(xpipe[1]) => p[1] = pos[1] /\ xpipe'[1].part = "body"
                /\ ~HasBody(xpipe[1]) => p[1] = pos[1] + 1 /\ xpipe'[1].part = "head"
           /\ xpipe' = <<>> => pos[1] = Len(xhanded) /\ ~HasBody(xpipe[1])
<1> DEFINE L == Len(xpipe)
           M == Len(xpipe')
<1>1. /\ L \in Nat \ {0} /\ M = L - 1 /\ xpipe' \in Seq(Part) /\ \A i \in 1 .. L - 1 : xpipe'[i] = xpipe[i + 1]
  BY TailFacts DEF RelayTypes
<1>2. xpipe' = <<>> <=> M = 0
  BY <1>1, TailFacts, EmptyFacts
<1>3. /\ \A i \in 1 .. L : pos[i] \in 1 .. Len(xhanded) /\ xpipe[i].num = xhanded[pos[i]]
      /\ \A i \in 1 .. L - 1 : IF HasBody(xpipe[i]) THEN xpipe[i + 1].part = "body" /\ pos[i + 1] = pos[i]
                               ELSE xpipe[i + 1].part = "head" /\ pos[i + 1] = pos[i] + 1
      /\ pos[L] = Len(xhanded) /\ (xpipe[L].part = "body" \/ xpipe[L].num \in xempty)
  BY DEF Holds, Linked, HasBody
<1>4. pos \in [1 .. L -> Nat] /\ UNCHANGED <<xempty, xhanded>>
  OBVIOUS
<1> HIDE DEF L, M
<1>5. \A i \in 1 .. M : i \in 1 .. L - 1 /\ i + 1 \in 1 .. L /\ xpipe'[i] = xpipe[i + 1]
  <2>1. \A i \in 1 .. M : i \in 1 .. L - 1 /\ i + 1 \in 1 .. L
    BY <1>1
  <2> QED BY <2>1, <1>1
<1>6. PICK p \in [1 .. M -> Nat] : p = [i \in 1 .. M |-> pos[i + 1]]
  <2>1. [i \in 1 .. M |-> pos[i + 1]] \in [1 .. M -> Nat]
    BY <1>4, <1>5
  <2> QED BY <2>1
<1>7. \A i \in 1 .. M : p[i] = pos[i + 1]
  BY <1>6
<1>8. \A i \in 1 .. M : p[i] \in 1 .. Len(xhanded) /\ xpipe'[i].num = xhanded[p[i]]
  BY <1>3, <1>5, <1>7
<1>9. ASSUME NEW i \in 1 .. M - 1
      PROVE  IF HasBody(xpipe'[i]) THEN xpipe'[i + 1].part = "body" /\ p[i + 1] = p[i]
             ELSE xpipe'[i + 1].part = "head" /\ p[i + 1] = p[i] + 1
  <2>1. i \in 1 .. M /\ i + 1 \in 1 .. M /\ i + 1 \in 1 .. L - 1
    BY <1>1
  <2>2. p[i] = pos[i + 1] /\ xpipe'[i] = xpipe[i + 1] /\ p[i + 1] = pos[i + 1 + 1] /\ xpipe'[i + 1] = xpipe[i + 1 + 1]
    BY <2>1, <1>5, <1>7
  <2>3. IF HasBody(xpipe[i + 1]) THEN xpipe[i + 1 + 1].part = "body" /\ pos[i + 1 + 1] = pos[i + 1]
        ELSE xpipe[i + 1 + 1].part = "head" /\ pos[i + 1 + 1] = pos[i + 1] + 1
    BY <2>1, <1>3
  <2> QED BY <2>2, <2>3
<1>10. Linked(p)'
  BY <1>4, <1>9 DEF Linked, HasBody, M
<1>11. M # 0 => /\ p[M] = Len(xhanded) /\ (xpipe'[M].part = "body" \/ xpipe'[M].num \in xempty)
                /\ HasBody(xpipe[1]) => p[1] = pos[1] /\ xpipe'[1].part = "body"
                /\ ~HasBody(xpipe[1]) => p[1] = pos[1] + 1 /\ xpipe'[1].part = "head"
  <2> SUFFICES ASSUME M # 0
               PROVE  /\ p[M] = Len(xhanded) /\ (xpipe'[M].part = "body" \/ xpipe'[M].num \in xempty)
                      /\ HasBody(xpipe[1]) => p[1] = pos[1] /\ xpipe'[1].part = "body"
                      /\ ~HasBody(xpipe[1]) => p[1] = pos[1] + 1 /\ xpipe'[1].part = "head"
    OBVIOUS
  <2>1. M \in 1 .. M /\ M + 1 = L /\ 1 \in 1 .. M /\ 1 \in 1 .. L - 1 /\ 1 + 1 = 2
    BY <1>1
  <2>2. p[M] = pos[L] /\ xpipe'[M] = xpipe[L]
    BY <2>1, <1>5, <1>7
  <2>3. p[1] = pos[2] /\ xpipe'[1] = xpipe[2]
    BY <2>1, <1>5, <1>7
  <2>4. IF HasBody(xpipe[1]) THEN xpipe[2].part = "body" /\ pos[2] = pos[1]
        ELSE xpipe[2].part = "head" /\ pos[2] = pos[1] + 1
    BY <2>1, <1>3
  <2> QED BY <2>2, <2>3, <2>4, <1>3
<1>12. M = 0 => pos[1] = Len(xhanded) /\ ~HasBody(xpipe[1])
  <2>1. M = 0 => L = 1
    BY <1>1
  <2> QED BY <2>1, <1>3 DEF HasBody
<1> QED BY <1>2, <1>8, <1>10, <1>11, <1>12 DEF M

LEMMA RelayHeadNext ==
  ASSUME RelayInv, RelayHead, UNCHANGED <<xsent, xempty, xqueue, xheld, xhanded>>
  PROVE  RelayInv'
<1>1. /\ xat = "select" /\ xat' = "body" /\ xpipe # <<>> /\ xhead' = Head(xpipe).num /\ xpipe' = Tail(xpipe)
      /\ UNCHANGED <<xprinted, xsent, xempty, xqueue, xheld, xhanded>>
  BY DEF RelayHead
<1>2. RelayTypes
  BY DEF RelayInv
<1>3. PICK pos \in [1 .. Len(xpipe) -> Nat] : Holds(pos)
  BY <1>1 DEF RelayInv, Relays
<1>4. Head(xpipe) = xpipe[1] /\ 1 \in 1 .. Len(xpipe) /\ xpipe' \in Seq(Part)
  BY <1>1, <1>2, TailFacts DEF RelayTypes
<1>5. /\ pos[1] \in 1 .. Len(xhanded) /\ xpipe[1].num = xhanded[pos[1]] /\ pos[1] = Len(xprinted) + 1
      /\ xpipe[1].part = "head"
  BY <1>1, <1>3, <1>4 DEF Holds
<1>6. xhead' = xhanded[Len(xprinted) + 1] /\ xhead' \in 0 .. xsent
  <2>1. xhead' \in 1 .. xsent
    BY <1>1, <1>2, <1>4, <1>5 DEF RelayTypes
  <2>2. xhead' \in 0 .. xsent
    BY <2>1, <1>2 DEF RelayTypes
  <2> QED BY <2>2, <1>1, <1>4, <1>5
<1>7. RelayTypes'
  BY <1>1, <1>2, <1>4, <1>6 DEF RelayTypes
<1>8. PICK p \in [1 .. Len(xpipe') -> Nat] :
           /\ \A i \in 1 .. Len(xpipe') : p[i] \in 1 .. Len(xhanded) /\ xpipe'[i].num = xhanded[p[i]]
           /\ Linked(p)'
           /\ xpipe' # <<>> =>
                /\ p[Len(xpipe')] = Len(xhanded)
                /\ xpipe'[Len(xpipe')].part = "body" \/ xpipe'[Len(xpipe')].num \in xempty
                /\ HasBody(xpipe[1]) => p[1] = pos[1] /\ xpipe'[1].part = "body"
                /\ ~HasBody(xpipe[1]) => p[1] = pos[1] + 1 /\ xpipe'[1].part = "head"
           /\ xpipe' = <<>> => pos[1] = Len(xhanded) /\ ~HasBody(xpipe[1])
  BY <1>1, <1>2, <1>3, PartRead
<1>9. ASSUME xhead' \notin xempty PROVE Holds(p)'
  <2>1. HasBody(xpipe[1])
    BY <1>1, <1>4, <1>5, <1>9 DEF HasBody
  <2> QED BY <2>1, <1>1, <1>5, <1>6, <1>8 DEF Holds
<1> QED BY <1>1, <1>7, <1>9 DEF RelayInv, Relays

LEMMA RelayBodyNext ==
  ASSUME RelayInv, RelayBody, UNCHANGED <<xsent, xempty, xqueue, xheld, xhanded>>
  PROVE  RelayInv'
<1>1. CASE xhead \in xempty
  <2>1. xat' = "gone" /\ UNCHANGED <<xpipe, xprinted, xhead, xsent, xempty, xqueue, xheld, xhanded>>
    BY <1>1 DEF RelayBody
  <2>2. RelayTypes'
    BY <2>1 DEF RelayInv, RelayTypes
  <2> QED BY <2>1, <2>2 DEF RelayInv, Relays
<1>2. CASE xhead \notin xempty
  <2>1. /\ xat = "body" /\ xat' = "select" /\ xpipe # <<>> /\ xpipe' = Tail(xpipe)
        /\ xprinted' = Append(xprinted, Head(xpipe).num)
        /\ UNCHANGED <<xhead, xsent, xempty, xqueue, xheld, xhanded>>
    BY <1>2 DEF RelayBody
  <2>2. RelayTypes
    BY DEF RelayInv
  <2>3. PICK pos \in [1 .. Len(xpipe) -> Nat] : Holds(pos)
    BY <1>2, <2>1 DEF RelayInv, Relays
  <2>4. Head(xpipe) = xpipe[1] /\ 1 \in 1 .. Len(xpipe) /\ xpipe' \in Seq(Part)
    BY <2>1, <2>2, TailFacts DEF RelayTypes
  <2>5. /\ pos[1] \in 1 .. Len(xhanded) /\ xpipe[1].num = xhanded[pos[1]] /\ pos[1] = Len(xprinted) + 1
        /\ xpipe[1].part = "body"
    BY <2>1, <2>3, <2>4 DEF Holds
  <2> DEFINE P == Len(xprinted)
             H == Len(xhanded)
             e == Head(xpipe).num
  <2>6. P \in Nat /\ H \in Nat /\ P + 1 \in 1 .. H /\ e = xhanded[P + 1] /\ e \in Nat /\ xprinted \in Seq(Nat)
    <3>1. P + 1 \in 1 .. H /\ e = xhanded[P + 1]
      BY <2>4, <2>5
    <3>2. xhanded \in Seq(Nat) /\ xprinted \in Seq(Nat)
      BY <2>2 DEF RelayTypes
    <3>3. xhanded[P + 1] \in Nat
      BY <3>1, <3>2, ElementFacts
    <3> QED BY <3>1, <3>2, <3>3, ElementFacts
  <2>7. /\ xprinted' \in Seq(Nat) /\ Len(xprinted') = P + 1 /\ xprinted'[P + 1] = e
        /\ \A i \in 1 .. P : xprinted'[i] = xprinted[i]
    <3> HIDE DEF e
    <3> QED BY <2>1, <2>6, AppendFacts DEF e
  <2>8. RelayTypes'
    BY <2>1, <2>2, <2>4, <2>7 DEF RelayTypes
  <2>9. PICK p \in [1 .. Len(xpipe') -> Nat] :
             /\ \A i \in 1 .. Len(xpipe') : p[i] \in 1 .. Len(xhanded) /\ xpipe'[i].num = xhanded[p[i]]
             /\ Linked(p)'
             /\ xpipe' # <<>> =>
                  /\ p[Len(xpipe')] = Len(xhanded)
                  /\ xpipe'[Len(xpipe')].part = "body" \/ xpipe'[Len(xpipe')].num \in xempty
                  /\ HasBody(xpipe[1]) => p[1] = pos[1] /\ xpipe'[1].part = "body"
                  /\ ~HasBody(xpipe[1]) => p[1] = pos[1] + 1 /\ xpipe'[1].part = "head"
             /\ xpipe' = <<>> => pos[1] = Len(xhanded) /\ ~HasBody(xpipe[1])
    BY <2>1, <2>2, <2>3, PartRead
  <2>10. ~HasBody(xpipe[1])
    BY <2>5 DEF HasBody
  <2>11. xpipe' # <<>> => p[1] = Len(xprinted') + 1 /\ xpipe'[1].part = "head"
    BY <2>5, <2>7, <2>9, <2>10
  <2>12. xpipe' = <<>> => Len(xprinted') = H
    BY <2>5, <2>7, <2>9
  <2>13. Holds(p)'
    BY <2>1, <2>9, <2>11, <2>12 DEF Holds
  <2>14. Len(xprinted') <= Len(xhanded') /\ \A i \in 1 .. Len(xprinted') : xprinted'[i] = xhanded'[i]
    <3> HIDE DEF P, H
    <3>1. ASSUME NEW i \in 1 .. P + 1 PROVE xprinted'[i] = xhanded[i]
      <4>1. i \in 1 .. P \/ i = P + 1
        BY <2>6
      <4>2. i \in 1 .. P => xprinted[i] = xhanded[i]
        BY DEF RelayInv, P
      <4> QED BY <4>1, <4>2, <2>6, <2>7
    <3>2. P + 1 <= H
      BY <2>6
    <3> QED BY <3>1, <3>2, <2>1, <2>7 DEF H
  <2> QED BY <2>8, <2>13, <2>14 DEF RelayInv
<1> QED BY <1>1, <1>2

LEMMA RelayNext ==
  ASSUME RelayInv, RelayStep
  PROVE  RelayInv'
<1>1. CASE RelayFork /\ UNCHANGED <<xsent, xempty, xqueue, xheld, xhanded, faults>>
  <2>1. /\ xat = "fork" /\ xat' \in {"fork", "select"}
        /\ UNCHANGED <<xpipe, xhead, xprinted, xsent, xempty, xqueue, xheld, xhanded>>
    BY <1>1 DEF RelayFork
  <2>2. RelayTypes'
    BY <2>1 DEF RelayInv, RelayTypes
  <2>3. ASSUME NEW pos \in [1 .. Len(xpipe) -> Nat], Holds(pos) PROVE Holds(pos)'
    BY <2>1, <2>3 DEF Holds, Linked
  <2> QED BY <2>1, <2>2, <2>3 DEF RelayInv, Relays
<1>2. CASE RelayForkFails
  <2>1. xat' = "gone" /\ UNCHANGED <<xpipe, xhead, xprinted, xsent, xempty, xqueue, xheld, xhanded>>
    BY <1>2 DEF RelayForkFails
  <2>2. RelayTypes'
    BY <2>1 DEF RelayInv, RelayTypes
  <2> QED BY <2>1, <2>2 DEF RelayInv, Relays
<1>4. CASE RelayStdinFails
  <2>1. xat' = "gone" /\ UNCHANGED <<xpipe, xhead, xprinted, xsent, xempty, xqueue, xheld, xhanded>>
    BY <1>4 DEF RelayStdinFails
  <2>2. RelayTypes'
    BY <2>1 DEF RelayInv, RelayTypes
  <2> QED BY <2>1, <2>2 DEF RelayInv, Relays
<1>3. ASSUME NEW q \in Queues, HandleSvmsg(q) PROVE RelayInv'
  <2>1. UNCHANGED <<xat, xsent, xempty, xhead, xprinted>>
    BY <1>3 DEF HandleSvmsg
  <2>2. CASE xheld[q] = 0
    BY <1>3, <2>1, <2>2, TakenNext DEF HandleSvmsg, Source
  <2>3. CASE xheld[q] # 0
    BY <1>3, <2>1, <2>3, HandedNext DEF HandleSvmsg
  <2> QED BY <2>2, <2>3
<1> QED BY <1>1, <1>2, <1>3, <1>4, RelayHeadNext, RelayBodyNext, RelaySentNext DEF RelayStep, RelayMain

LEMMA PrefixFacts ==
  ASSUME NEW S, NEW s \in Seq(S), NEW t \in Seq(S), Len(s) <= Len(t),
         \A i \in 1 .. Len(s) : s[i] = t[i]
  PROVE  s = SubSeq(t, 1, Len(s))
<1>1. Len(s) \in Nat /\ Len(t) \in Nat
  BY ElementFacts
<1> DEFINE r == SubSeq(t, 1, Len(s))
<1>2. r \in Seq(S) /\ Len(r) = Len(s) /\ \A i \in 1 .. Len(s) : r[i] = t[i]
  BY <1>1
<1> HIDE DEF r
<1>3. s = r
  BY <1>2
<1> QED BY <1>3 DEF r

LEMMA RelayInvWhole == RelayInv => RelayWhole
<1> SUFFICES ASSUME RelayInv PROVE RelayWhole
  OBVIOUS
<1>1. xprinted \in Seq(Nat) /\ xhanded \in Seq(Nat) /\ Len(xprinted) <= Len(xhanded)
      /\ \A i \in 1 .. Len(xprinted) : xprinted[i] = xhanded[i]
  BY DEF RelayInv, RelayTypes
<1>2. xprinted = SubSeq(xhanded, 1, Len(xprinted))
  BY <1>1, PrefixFacts
<1>3. ASSUME xat = "body", xhead \notin xempty
      PROVE  xpipe # <<>> /\ Head(xpipe) = [part |-> "body", num |-> xhead]
  <2>1. PICK pos \in [1 .. Len(xpipe) -> Nat] : Holds(pos)
    BY <1>3 DEF RelayInv, Relays
  <2>2. xpipe # <<>> /\ xpipe \in Seq(Part)
    BY <2>1, <1>3 DEF Holds, RelayInv, RelayTypes
  <2>3. Head(xpipe) = xpipe[1] /\ Head(xpipe) \in Part /\ 1 \in 1 .. Len(xpipe)
    BY <2>2, TailFacts
  <2>4. xpipe[1].part = "body" /\ xpipe[1].num = xhead
    BY <2>1, <2>2, <2>3, <1>3 DEF Holds
  <2> QED BY <2>2, <2>3, <2>4 DEF Part
<1> QED BY <1>2, <1>3 DEF RelayWhole

----------------------------------------------------------------------------
(* Pipes.                                                                  *)

Places == {"start", "none", "fork", "fork2", "closeR", "closeW", "write", "wait", "wait2", "read", "ready",
           "work", "leave", "ls", "print", "stdin", "answer", "upper", "fgets", "pclose",
           "waitpid", "output", "input", "exit", "killed"}

PipeTypes == /\ kat \in [PProcs -> Places]
             /\ wrote \in [Pipes -> Nat] /\ took \in [Pipes -> Nat]
             /\ kind \in [Streams -> {"none", "r", "w"}]

\* The parent has the write end open until it has written everything, or it
\* is killed.
SimpleInv ==
  prog = "simple" =>
    /\ kat[0] \in {"start", "fork", "closeR", "write", "wait"} \cup Dead
    /\ kat[1] \in {"none", "closeW", "read", "closeR"} \cup Dead
    /\ kat[0] \in {"fork", "closeR", "write"} => <<0, 1, "w">> \in ends
    /\ kat[0] \in {"start", "fork"} => kat[1] = "none"
    /\ kat[0] \in {"wait", "exit"} => wrote[1] = PipeItems
    /\ kat[1] \in {"closeR", "exit"} =>
         took[1] = wrote[1] /\ (wrote[1] = PipeItems \/ kat[0] = "killed")

\* And so does ls.
LsWcInv ==
  prog = "lswc" =>
    /\ kat[0] \in {"start", "fork", "fork2", "closeR", "closeW", "wait", "wait2"} \cup Dead
    /\ kat[1] \in {"none", "closeR", "ls"} \cup Dead
    /\ kat[2] \in {"none", "closeW", "read", "print"} \cup Dead
    /\ kat[0] = "fork" => <<0, 1, "w">> \in ends
    /\ kat[0] \in {"start", "fork"} => kat[1] = "none"
    /\ kat[0] = "fork2" \/ kat[2] # "none" => kat[1] # "none"
    /\ kat[1] \in {"closeR", "ls"} => <<1, 1, "w">> \in ends
    /\ kat[1] = "exit" => wrote[1] = PipeItems
    /\ kat[2] \in {"print", "exit"} =>
         took[1] = wrote[1] /\ (kat[1] = "killed" \/ (kat[1] = "exit" /\ wrote[1] = PipeItems))

\* While the child lives, it keeps the parent's answers open, and an input is
\* on its way to it, or with it, or on its way back, or there is none.
DoubleInv ==
  prog = "double" =>
    /\ kat[0] \in {"start", "fork", "closeR", "closeW", "stdin", "answer", "killed"}
    /\ kat[1] \in {"none", "closeW", "closeR", "read", "upper", "killed"}
    /\ kat[0] \in {"start", "fork"} => kat[1] = "none"
    /\ kat[0] = "fork" => <<0, 2, "w">> \in ends
    /\ kat[0] \in {"closeR", "closeW", "stdin", "answer"} => kat[1] # "none"
    /\ kat[1] \notin {"none", "killed"} => <<1, 2, "w">> \in ends
    /\ kat[1] = "upper" => took[1] = wrote[2] + 1
    /\ kat[1] \notin {"upper", "killed"} => took[1] = wrote[2]
    /\ kat[1] # "killed" /\ kat[0] \notin {"answer", "killed"} => wrote[1] = took[2]
    /\ kat[1] # "killed" /\ kat[0] = "answer" => wrote[1] = took[2] + 1 \/ wrote[1] = took[2]
    /\ took[2] <= wrote[2] /\ took[1] <= wrote[1]

\* The reader has all of a stream, and its command nothing left to write, or
\* was killed.
Whole(s) == took[s] = wrote[s] /\ (wrote[s] = PipeItems \/ kat[s] = "killed")

\* The stream that is in use is the newest; its command has the write end
\* open until it has written everything or is killed.
StreamInv ==
  /\ \A s \in Streams : InUse(s) =>
       /\ kat[0] \in {"fgets", "pclose"} /\ <<0, s, "r">> \in ends
       /\ \/ kat[s] = "output" /\ <<s, s, "w">> \in ends
          \/ kat[s] = "exit" /\ wrote[s] = PipeItems
          \/ kat[s] = "killed"
       /\ \A t \in Streams : InUse(t) => t = s
       /\ kat[0] = "pclose" => Whole(s)
  /\ \A s \in Streams : Opened(s) /\ ~InUse(s) => Whole(s)

ListingInv ==
  prog \in Listings =>
    /\ \A s \in Streams : kat[s] \in {"none", "output", "exit", "killed"}
    /\ kat[0] # "killed" => StreamInv

PipeInv == PipeTypes /\ SimpleInv /\ LsWcInv /\ DoubleInv /\ ListingInv

LEMMA KidNumbers ==
  /\ 0 \in PProcs /\ Kids \subseteq PProcs /\ 0 \notin Kids /\ 1 \in Kids /\ 2 \in Kids
  /\ Pipes = Kids /\ Streams = Kids /\ PipeItems \in Nat
BY PipeAssumption DEF PipeAssumption, Kids, PProcs, Pipes, Streams

LEMMA PipeStarts == PipeInit => PipeInv
BY KidNumbers DEF PipeInit, PipeInv, PipeTypes, Places, SimpleInv, LsWcInv, DoubleInv, ListingInv,
                  StreamInv, Opened, InUse, Listings, Dead

\* A child of fork() has the ends that its parent has.
LEMMA Inherited ==
  ASSUME NEW p, NEW k, NEW e, NEW f, NEW a, NEW b, Fork(p, f, a, b), <<0, k, e>> \in ends
  PROVE  <<p, k, e>> \in ends' /\ ends \subseteq ends'
<1> DEFINE w == <<0, k, e>>
<1>1. <<p, k, e>> = <<p, w[2], w[3]>> /\ w[1] = 0
  OBVIOUS
<1>2. w \in Of(0)
  BY <1>1 DEF Of
<1> HIDE DEF w
<1> QED BY <1>1, <1>2 DEF Fork

\* What a killed process leaves as it was.
LEMMA Killed ==
  ASSUME NEW p \in PProcs, Leave(p, kat[p], "killed") \/ KillPipe(p)
  PROVE  /\ kat' = [kat EXCEPT ![p] = "killed"] /\ wrote' = wrote /\ took' = took /\ kind' = kind
         /\ \A q, k, e : q # p /\ <<q, k, e>> \in ends => <<q, k, e>> \in ends'
         /\ ends' = ends \ Of(p)
<1>1. Leave(p, kat[p], "killed")
  BY DEF KillPipe
<1> QED BY <1>1, LeaveKeeps DEF Leave, KGoto

LEMMA SimpleNext ==
  ASSUME PipeTypes, SimpleInv, prog = "simple", prog' = prog, PipeStep
  PROVE  PipeTypes' /\ SimpleInv'
<1> USE KidNumbers DEF PipeTypes, Places, SimpleInv, KGoto, Dead
<1>1. CASE SimpleParent
  <2>1. CASE MakePipes({1}, "start", "fork")
    <3>1. <<0, 1, "w">> \in ends'
      BY <2>1 DEF MakePipes, Both
    <3> QED BY <2>1, <3>1 DEF MakePipes
  <2>2. CASE Fork(1, "closeW", "fork", "closeR")
    <3>1. <<0, 1, "w">> \in ends'
      BY <2>2, Inherited DEF Fork
    <3> QED BY <2>2, <3>1 DEF Fork
  <2>3. CASE Close(0, 1, "r", "closeR", "write")
    BY <2>3 DEF Close
  <2>4. CASE wrote[1] < PipeItems /\ Put1(0, 1, "write", "write")
    BY <2>4 DEF Put1
  <2>5. CASE wrote[1] = PipeItems /\ Close(0, 1, "w", "write", "wait")
    BY <2>5 DEF Close
  <2>6. CASE WaitFor(1, "wait", "exit")
    BY <2>6 DEF WaitFor, Does
  <2>7. CASE Sigpipe(0, 1, "write")
    BY <2>7 DEF Sigpipe, Leave
  <2> QED BY <1>1, <2>1, <2>2, <2>3, <2>4, <2>5, <2>6, <2>7 DEF SimpleParent
<1>2. CASE SimpleChild
  <2>1. CASE Close(1, 1, "w", "closeW", "read")
    BY <2>1 DEF Close
  <2>2. CASE Get1(1, 1, "read", "read")
    BY <2>2 DEF Get1
  <2>3. CASE AtEof(1, 1, "read", "closeR")
    <3>1. took[1] = wrote[1] /\ <<0, 1, "w">> \notin ends
      BY <2>3 DEF AtEof, Eof, Has
    <3> QED BY <2>3, <3>1 DEF AtEof
  <2>4. CASE Quit(1, "closeR")
    <3>1. Leave(1, "closeR", "exit")
      BY <2>4 DEF Quit
    <3>2. <<0, 1, "w">> \in ends => <<0, 1, "w">> \in ends'
      BY <3>1, LeaveKeeps
    <3> QED BY <3>1, <3>2 DEF Leave
  <2> QED BY <1>2, <2>1, <2>2, <2>3, <2>4 DEF SimpleChild
<1>3. ASSUME NEW p \in PProcs, KillPipe(p) PROVE PipeTypes' /\ SimpleInv'
  <2>1. kat[p] \notin {"none", "exit", "killed"}
    BY <1>3 DEF KillPipe
  <2>2. kat' = [kat EXCEPT ![p] = "killed"] /\ wrote' = wrote /\ took' = took /\ kind' = kind
    BY <1>3, Killed
  <2>3. p # 0 /\ <<0, 1, "w">> \in ends => <<0, 1, "w">> \in ends'
    BY <1>3, Killed
  <2>4. PipeTypes'
    BY <2>2
  <2>5. SimpleInv'
    BY <2>1, <2>2, <2>3
  <2> QED BY <2>4, <2>5
<1> QED BY <1>1, <1>2, <1>3 DEF PipeStep, PipeMain, PipeChild, PopenFails, Listings

LEMMA LsWcNext ==
  ASSUME PipeTypes, LsWcInv, prog = "lswc", prog' = prog, PipeStep
  PROVE  PipeTypes' /\ LsWcInv'
<1> USE KidNumbers DEF PipeTypes, Places, LsWcInv, KGoto, Dead
<1>1. CASE LsWcMain
  <2>1. CASE MakePipes({1}, "start", "fork")
    <3>1. <<0, 1, "w">> \in ends'
      BY <2>1 DEF MakePipes, Both
    <3> QED BY <2>1, <3>1 DEF MakePipes
  <2>2. CASE Fork(1, "closeR", "fork", "fork2")
    <3>1. <<1, 1, "w">> \in ends'
      BY <2>2, Inherited DEF Fork
    <3> QED BY <2>2, <3>1 DEF Fork
  <2>3. CASE Fork(2, "closeW", "fork2", "closeR")
    <3>1. ends \subseteq ends'
      BY <2>3 DEF Fork
    <3>2. PipeTypes'
      BY <2>3 DEF Fork
    <3>3. LsWcInv'
      BY <2>3, <3>1 DEF Fork
    <3> QED BY <3>2, <3>3
  <2>4. CASE Close(0, 1, "r", "closeR", "closeW")
    BY <2>4 DEF Close
  <2>5. CASE Close(0, 1, "w", "closeW", "wait")
    BY <2>5 DEF Close
  <2>6. CASE WaitFor(1, "wait", "wait2")
    BY <2>6 DEF WaitFor, Does
  <2>7. CASE WaitFor(2, "wait2", "exit")
    BY <2>7 DEF WaitFor, Does
  <2> QED BY <1>1, <2>1, <2>2, <2>3, <2>4, <2>5, <2>6, <2>7 DEF LsWcMain
<1>2. CASE Ls
  <2>1. CASE Close(1, 1, "r", "closeR", "ls")
    BY <2>1 DEF Close
  <2>2. CASE wrote[1] < PipeItems /\ Put1(1, 1, "ls", "ls")
    BY <2>2 DEF Put1
  <2>3. CASE wrote[1] = PipeItems /\ Quit(1, "ls")
    BY <2>3 DEF Quit, Leave
  <2>4. CASE Sigpipe(1, 1, "ls")
    BY <2>4 DEF Sigpipe, Leave
  <2> QED BY <1>2, <2>1, <2>2, <2>3, <2>4 DEF Ls
<1>3. CASE Wc
  <2>1. CASE Close(2, 1, "w", "closeW", "read")
    BY <2>1 DEF Close
  <2>2. CASE Get1(2, 1, "read", "read")
    BY <2>2 DEF Get1
  <2>3. CASE AtEof(2, 1, "read", "print")
    <3>1. took[1] = wrote[1] /\ <<1, 1, "w">> \notin ends
      BY <2>3 DEF AtEof, Eof, Has
    <3> QED BY <2>3, <3>1 DEF AtEof
  <2>4. CASE Quit(2, "print")
    <3>1. Leave(2, "print", "exit")
      BY <2>4 DEF Quit
    <3>2. \A q \in {0, 1} : <<q, 1, "w">> \in ends => <<q, 1, "w">> \in ends'
      BY <3>1, LeaveKeeps
    <3> QED BY <3>1, <3>2 DEF Leave
  <2> QED BY <1>3, <2>1, <2>2, <2>3, <2>4 DEF Wc
<1>4. ASSUME NEW p \in PProcs, KillPipe(p) PROVE PipeTypes' /\ LsWcInv'
  <2>1. kat[p] \notin {"none", "exit", "killed"}
    BY <1>4 DEF KillPipe
  <2>2. kat' = [kat EXCEPT ![p] = "killed"] /\ wrote' = wrote /\ took' = took /\ kind' = kind
    BY <1>4, Killed
  <2>3. \A q \in {0, 1} : q # p /\ <<q, 1, "w">> \in ends => <<q, 1, "w">> \in ends'
    BY <1>4, Killed
  <2>4. PipeTypes'
    BY <2>2
  <2>5. LsWcInv'
    BY <2>1, <2>2, <2>3
  <2> QED BY <2>4, <2>5
<1> QED BY <1>1, <1>2, <1>3, <1>4 DEF PipeStep, PipeMain, PipeChild, PopenFails, Listings

LEMMA DoubleNext ==
  ASSUME PipeTypes, DoubleInv, prog = "double", prog' = prog, PipeStep
  PROVE  PipeTypes' /\ DoubleInv'
<1> USE KidNumbers DEF PipeTypes, Places, DoubleInv, KGoto
<1>1. CASE DoubleParent
  <2>1. CASE MakePipes({1, 2}, "start", "fork")
    <3>1. <<0, 2, "w">> \in Both(0, 2)
      BY DEF Both
    <3>2. <<0, 2, "w">> \in ends'
      BY <2>1, <3>1 DEF MakePipes
    <3> QED BY <2>1, <3>2 DEF MakePipes
  <2>2. CASE Fork(1, "closeW", "fork", "closeR")
    <3>1. <<1, 2, "w">> \in ends'
      BY <2>2, Inherited DEF Fork
    <3> QED BY <2>2, <3>1 DEF Fork
  <2>3. CASE Close(0, 1, "r", "closeR", "closeW") \/ Close(0, 2, "w", "closeW", "stdin")
    <3>1. <<1, 2, "w">> \in ends => <<1, 2, "w">> \in ends'
      BY <2>3 DEF Close
    <3> QED BY <2>3, <3>1 DEF Close
  <2>4. CASE Put1(0, 1, "stdin", "answer")
    BY <2>4 DEF Put1
  <2>5. CASE Does(0, "stdin", "answer")
    BY <2>5 DEF Does
  <2>6. CASE Get1(0, 2, "answer", "stdin")
    BY <2>6 DEF Get1
  <2>7. CASE Sigpipe(0, 1, "stdin")
    <3>1. Leave(0, "stdin", "killed")
      BY <2>7 DEF Sigpipe
    <3>2. <<1, 2, "w">> \in ends => <<1, 2, "w">> \in ends'
      BY <3>1, LeaveKeeps
    <3> QED BY <3>1, <3>2 DEF Leave
  <2>8. CASE AtEof(0, 2, "answer", "stdin")
    <3>1. <<1, 2, "w">> \notin ends
      BY <2>8 DEF AtEof, Eof, Has
    <3>2. kat[1] = "killed"
      BY <2>8, <3>1 DEF AtEof
    <3> QED BY <2>8, <3>2 DEF AtEof
  <2> QED BY <1>1, <2>1, <2>2, <2>3, <2>4, <2>5, <2>6, <2>7, <2>8 DEF DoubleParent
<1>2. CASE DoubleChild
  <2>1. CASE Close(1, 1, "w", "closeW", "closeR") \/ Close(1, 2, "r", "closeR", "read")
    <3>1. <<1, 2, "w">> \in ends => <<1, 2, "w">> \in ends'
      BY <2>1 DEF Close
    <3> QED BY <2>1, <3>1 DEF Close
  <2>2. CASE Get1(1, 1, "read", "upper")
    BY <2>2 DEF Get1
  <2>3. CASE Put1(1, 2, "upper", "read")
    BY <2>3 DEF Put1
  <2>4. CASE Sigpipe(1, 2, "upper")
    BY <2>4 DEF Sigpipe, Leave
  <2> QED BY <1>2, <2>1, <2>2, <2>3, <2>4 DEF DoubleChild
<1>3. ASSUME NEW p \in PProcs, KillPipe(p) PROVE PipeTypes' /\ DoubleInv'
  <2>1. kat[p] \notin {"none", "exit", "killed"}
    BY <1>3 DEF KillPipe
  <2>2. kat' = [kat EXCEPT ![p] = "killed"] /\ wrote' = wrote /\ took' = took /\ kind' = kind
    BY <1>3, Killed
  <2>3. p # 1 /\ <<1, 2, "w">> \in ends => <<1, 2, "w">> \in ends'
    BY <1>3, Killed
  <2>4. PipeTypes'
    BY <2>2
  <2>5. CASE p = 1
    BY <2>1, <2>2, <2>5
  <2>6. CASE p = 0
    <3>1. kat'[0] = "killed" /\ kat'[1] = kat[1] /\ kat[0] \notin {"none", "killed"}
      BY <2>1, <2>2, <2>6
    <3> QED BY <2>2, <2>3, <2>6, <3>1
  <2>7. CASE p \notin {0, 1}
    <3>1. kat'[0] = kat[0] /\ kat'[1] = kat[1] /\ ends' = ends \ Of(p)
      BY <1>3, <2>2, <2>7, Killed
    <3>2. <<0, 2, "w">> \in ends => <<0, 2, "w">> \in ends'
      BY <1>3, <2>7, Killed
    <3> QED BY <2>2, <2>3, <2>7, <3>1, <3>2
  <2> QED BY <2>4, <2>5, <2>6, <2>7
<1> QED BY <1>1, <1>2, <1>3 DEF PipeStep, PipeMain, PipeChild, PopenFails, Listings

\* The ends that only other processes get or lose leave the streams alone.
LEMMA InUseSame ==
  ASSUME NEW s, \A e \in {"r", "w"} : <<0, s, e>> \in ends' <=> <<0, s, e>> \in ends
  PROVE  InUse(s)' <=> InUse(s)
BY DEF InUse

LEMMA PopenNext ==
  ASSUME PipeTypes, ListingInv, prog \in Listings, prog' = prog,
         NEW s \in Streams, Popen(s, "r", "start", "fgets")
  PROVE  PipeTypes' /\ ListingInv'
<1> USE KidNumbers DEF PipeTypes, Places, KGoto
<1>1. PipeTypes'
  BY DEF Popen
<1>2. /\ <<0, s, "r">> \in ends' /\ <<s, s, "w">> \in ends'
      /\ \A x \in ends' : x \in ends \/ x = <<0, s, "r">> \/ x[1] = s
  BY DEF Popen
<1>0. StreamInv
  BY DEF ListingInv, Popen
<1>3. \A t \in Streams : ~InUse(t)
  BY <1>0 DEF StreamInv, Popen
<1>4. \A t \in Streams : InUse(t)' => t = s
  <2>1. ASSUME NEW t \in Streams, NEW e \in {"r", "w"}, <<0, t, e>> \in ends' PROVE t = s
    <3> DEFINE x == <<0, t, e>>
    <3>1. x[1] = 0 /\ x[2] = t
      OBVIOUS
    <3>2. x \notin ends
      BY <1>3 DEF InUse
    <3>3. x = <<0, s, "r">> \/ x[1] = s
      BY <1>2, <2>1, <3>2
    <3> HIDE DEF x
    <3> QED BY <3>1, <3>3
  <2> QED BY <2>1 DEF InUse
<1>5. InUse(s)'
  BY <1>2 DEF InUse
<1>6. /\ kat' = [kat EXCEPT ![0] = "fgets", ![s] = "output"] /\ kind' = [kind EXCEPT ![s] = "r"]
      /\ took' = took /\ wrote' = wrote
  BY DEF Popen
<1>8. kat'[0] = "fgets" /\ kat'[s] = "output" /\ \A t \in Streams \ {s} : kat'[t] = kat[t]
  BY <1>6
<1>7. \A t \in Streams : Opened(t)' /\ ~InUse(t)' => Whole(t)'
  BY <1>0, <1>3, <1>5, <1>6, <1>8 DEF StreamInv, Opened, Whole
<1>9. StreamInv'
  BY <1>2, <1>4, <1>7, <1>8 DEF StreamInv
<1> QED BY <1>1, <1>8, <1>9 DEF ListingInv

\* What the caller does with the stream that is in use.
LEMMA FgetsNext ==
  ASSUME PipeTypes, ListingInv, prog \in Listings, prog' = prog, NEW s \in Streams,
         InUse(s) /\ Get1(0, s, "fgets", "fgets")
  PROVE  PipeTypes' /\ ListingInv'
<1> USE KidNumbers DEF PipeTypes, Places, KGoto
<1>1. PipeTypes'
  BY DEF Get1
<1>2. kat' = kat /\ ends' = ends /\ wrote' = wrote /\ kind' = kind /\ kat[0] = "fgets"
      /\ \A t \in Streams \ {s} : took'[t] = took[t]
  BY DEF Get1
<1>3. \A t \in Streams : InUse(t)' = InUse(t) /\ Opened(t)' = Opened(t)
  BY <1>2 DEF InUse, Opened
<1>4. \A t \in Streams : ~InUse(t) => Whole(t)' = Whole(t)
  BY <1>2 DEF Whole
<1>5. StreamInv'
  BY <1>2, <1>3, <1>4 DEF ListingInv, StreamInv
<1>6. ListingInv'
  BY <1>2, <1>5 DEF ListingInv
<1> QED BY <1>1, <1>6

LEMMA EndOfStream ==
  ASSUME PipeTypes, ListingInv, prog \in Listings, prog' = prog, NEW s \in Streams,
         InUse(s) /\ AtEof(0, s, "fgets", "pclose")
  PROVE  PipeTypes' /\ ListingInv'
<1> USE KidNumbers DEF PipeTypes, Places, KGoto
<1>1. PipeTypes'
  BY DEF AtEof
<1>2. /\ ends' = ends /\ wrote' = wrote /\ took' = took /\ kind' = kind
      /\ kat'[0] = "pclose" /\ \A t \in Streams : kat'[t] = kat[t]
  BY DEF AtEof
<1>3. \A t \in Streams : InUse(t)' = InUse(t) /\ Opened(t)' = Opened(t)
  BY <1>2 DEF InUse, Opened
<1>4. took[s] = wrote[s] /\ <<s, s, "w">> \notin ends
  BY DEF AtEof, Eof, Has
<1>5. StreamInv /\ \A t \in Streams : Whole(t)' = Whole(t)
  BY <1>2 DEF ListingInv, AtEof, Whole
<1>6. Whole(s)
  BY <1>4, <1>5 DEF StreamInv, Whole
<1>7. StreamInv'
  BY <1>2, <1>3, <1>5, <1>6 DEF StreamInv
<1>8. ListingInv'
  BY <1>2, <1>7 DEF ListingInv
<1> QED BY <1>1, <1>8

LEMMA FcloseNext ==
  ASSUME PipeTypes, ListingInv, prog \in Listings, prog' = prog, NEW s \in Streams,
         PcloseFclose(s, "pclose")
  PROVE  PipeTypes' /\ ListingInv'
<1> USE KidNumbers DEF PipeTypes, Places, KGoto
<1>1. PipeTypes'
  BY DEF PcloseFclose
<1>2. /\ wrote' = wrote /\ took' = took /\ kind' = kind
      /\ \A t \in Streams : kat'[t] = kat[t]
  BY DEF PcloseFclose
<1>0. StreamInv
  BY DEF ListingInv, PcloseFclose
<1>3. \A t \in Streams : ~InUse(t)'
  <2>1. \A t \in Streams : InUse(t)' => InUse(t)
    BY DEF PcloseFclose, InUse
  <2>2. ~InUse(s)'
    BY DEF PcloseFclose, InUse, Both
  <2> QED BY <1>0, <2>1, <2>2 DEF StreamInv, PcloseFclose
<1>4. \A t \in Streams : Opened(t)' = Opened(t) /\ Whole(t)' = Whole(t)
  BY <1>2 DEF Opened, Whole
<1>5. Whole(s) /\ \A t \in Streams : InUse(t) => t = s
  BY <1>0 DEF StreamInv, PcloseFclose
<1>6. StreamInv'
  BY <1>0, <1>3, <1>4, <1>5 DEF StreamInv
<1>7. ListingInv'
  BY <1>2, <1>6 DEF ListingInv
<1> QED BY <1>1, <1>7

\* With no stream in use.
LEMMA NoStreamNext ==
  ASSUME PipeTypes, ListingInv, prog \in Listings, prog' = prog,
         (\E s \in Streams, b \in {"print", "start"} : PcloseWait(s, b))
         \/ Quit(0, "print") \/ Quit(0, "start")
  PROVE  PipeTypes' /\ ListingInv'
<1> USE KidNumbers DEF PipeTypes, Places, KGoto
<1>1. PipeTypes'
  BY DEF PcloseWait, Quit, Leave
<1>2. /\ ends' \subseteq ends /\ wrote' = wrote /\ took' = took /\ kind' = kind
      /\ \A t \in Streams : kat'[t] = kat[t]
      /\ kat[0] \in {"waitpid", "print", "start"}
  BY DEF PcloseWait, Quit, Leave
<1>0. StreamInv
  BY <1>2 DEF ListingInv
<1>3. \A t \in Streams : ~InUse(t) /\ ~InUse(t)'
  BY <1>0, <1>2 DEF StreamInv, InUse
<1>4. \A t \in Streams : Opened(t)' = Opened(t) /\ Whole(t)' = Whole(t)
  BY <1>2 DEF Opened, Whole
<1>5. StreamInv'
  BY <1>0, <1>3, <1>4 DEF StreamInv
<1>6. ListingInv'
  BY <1>2, <1>5 DEF ListingInv
<1> QED BY <1>1, <1>6

\* A command ends: it has written everything, or is killed, or nobody reads.
LEMMA CommandLeaves ==
  ASSUME PipeTypes, ListingInv, prog \in Listings, prog' = prog, NEW s \in Kids,
         NEW b \in Dead, Leave(s, kat[s], b), kat[s] = "output",
         b = "exit" => wrote[s] = PipeItems \/ ~Has(s, "r")
  PROVE  PipeTypes' /\ ListingInv'
<1> USE KidNumbers DEF PipeTypes, Places, Dead
<1>0. s \in Streams /\ s # 0 /\ s \in PProcs
  OBVIOUS
<1>1. PipeTypes'
  BY <1>0 DEF Leave, KGoto
<1>2. /\ wrote' = wrote /\ took' = took /\ kind' = kind /\ kat' \in [PProcs -> Places]
      /\ kat'[s] = b /\ kat'[0] = kat[0] /\ \A t \in Streams \ {s} : kat'[t] = kat[t]
  BY <1>0 DEF Leave, KGoto
<1>3. \A p, t, e : p # s => (<<p, t, e>> \in ends' <=> <<p, t, e>> \in ends)
  BY LeaveKeeps DEF Leave
<1>4. \A t \in Streams : InUse(t)' = InUse(t) /\ Opened(t)' = Opened(t)
  BY <1>0, <1>2, <1>3 DEF InUse, Opened
<1>5. ASSUME StreamInv, NEW t \in Streams, InUse(t)
      PROVE  /\ <<0, t, "r">> \in ends'
             /\ \/ kat'[t] = "output" /\ <<t, t, "w">> \in ends'
                \/ kat'[t] = "exit" /\ wrote'[t] = PipeItems
                \/ kat'[t] = "killed"
  <2>1. <<0, t, "r">> \in ends /\ <<0, t, "r">> \in ends'
    BY <1>0, <1>3, <1>5 DEF StreamInv
  <2>2. CASE t = s
    <3>1. Has(s, "r")
      BY <2>1, <2>2 DEF Has
    <3> QED BY <1>2, <2>1, <2>2, <3>1
  <2>3. CASE t # s
    BY <1>2, <1>3, <1>5, <2>1, <2>3 DEF StreamInv
  <2> QED BY <2>2, <2>3
<1>6. \A t \in Streams : Whole(t) => Whole(t)'
  BY <1>2 DEF Whole
<1>7. StreamInv => StreamInv'
  BY <1>2, <1>4, <1>5, <1>6 DEF StreamInv
<1>8. ListingInv'
  BY <1>0, <1>2, <1>7 DEF ListingInv
<1> QED BY <1>1, <1>8

LEMMA CommandNext ==
  ASSUME PipeTypes, ListingInv, prog \in Listings, prog' = prog, NEW s \in Kids, Command(s)
  PROVE  PipeTypes' /\ ListingInv'
<1> USE KidNumbers DEF PipeTypes, Places, KGoto
<1>0. s \in Streams /\ kat[s] # "input" /\ s # 0
  BY DEF ListingInv
<1>1. CASE wrote[s] < PipeItems /\ Put1(s, s, "output", "output")
  <2>1. PipeTypes'
    BY <1>0, <1>1 DEF Put1
  <2>2. /\ ends' = ends /\ kat' = kat /\ took' = took /\ kind' = kind /\ kat[s] = "output"
        /\ \A t \in Streams \ {s} : wrote'[t] = wrote[t]
    BY <1>0, <1>1 DEF Put1
  <2>3. \A t \in Streams : InUse(t)' = InUse(t) /\ Opened(t)' = Opened(t)
    BY <2>2 DEF InUse, Opened
  <2>4. ~Whole(s) /\ \A t \in Streams : Whole(t) => Whole(t)'
    BY <1>0, <1>1, <2>2 DEF Whole
  <2>5. StreamInv => StreamInv'
    BY <2>2, <2>3, <2>4 DEF StreamInv
  <2>6. ListingInv'
    BY <2>2, <2>5 DEF ListingInv
  <2> QED BY <2>1, <2>6
<1>2. CASE (wrote[s] = PipeItems \/ ~Has(s, "r")) /\ Quit(s, "output")
  <2>1. Leave(s, kat[s], "exit") /\ kat[s] = "output"
    BY <1>2 DEF Quit, Leave
  <2> QED BY <1>2, <2>1, CommandLeaves DEF Dead
<1> QED BY <1>0, <1>1, <1>2 DEF Command, Get1, Quit, Leave

LEMMA ListingKill ==
  ASSUME PipeTypes, ListingInv, prog \in Listings, prog' = prog, NEW p \in PProcs, KillPipe(p)
  PROVE  PipeTypes' /\ ListingInv'
<1>1. CASE p = 0
  <2>1. kat' = [kat EXCEPT ![0] = "killed"] /\ wrote' = wrote /\ took' = took /\ kind' = kind
    BY <1>1, Killed
  <2>2. PipeTypes'
    BY <2>1 DEF PipeTypes, Places
  <2>3. kat'[0] = "killed" /\ \A s \in Streams : kat'[s] = kat[s]
    BY <2>1, KidNumbers DEF PipeTypes
  <2>4. ListingInv'
    BY <2>3 DEF ListingInv
  <2> QED BY <2>2, <2>4
<1>2. CASE p \in Kids
  <2>1. Leave(p, kat[p], "killed") /\ kat[p] = "output"
    BY <1>2, KidNumbers DEF KillPipe, ListingInv
  <2> QED BY <1>2, <2>1, CommandLeaves DEF Dead
<1> QED BY <1>1, <1>2 DEF PProcs, Kids

LEMMA PipeStutters ==
  ASSUME UNCHANGED ptVars, prog' = prog
  PROVE  (PipeTypes => PipeTypes') /\ (ListingInv => ListingInv')
BY DEF ptVars, PipeTypes, ListingInv, StreamInv, Whole, Opened, InUse

LEMMA ListingNext ==
  ASSUME PipeTypes, ListingInv, prog \in Listings, prog' = prog, PipeStep
  PROVE  PipeTypes' /\ ListingInv'
<1>1. ASSUME NEW n \in {1, NKids}, Popens(n) PROVE PipeTypes' /\ ListingInv'
  <2>1. 1 .. n \subseteq Streams
    BY PipeAssumption DEF Streams, Kids, PipeAssumption
  <2>2. PICK s \in 1 .. n : \/ Popen(s, "r", "start", "fgets")
                            \/ InUse(s) /\ Get1(0, s, "fgets", "fgets")
                            \/ InUse(s) /\ AtEof(0, s, "fgets", "pclose")
                            \/ PcloseFclose(s, "pclose")
    BY <1>1 DEF Popens
  <2> QED BY <2>1, <2>2, PopenNext, FgetsNext, EndOfStream, FcloseNext
<1>2. CASE Test0Main
  BY <1>1, <1>2, KidNumbers, NoStreamNext DEF Test0Main
<1>3. CASE GlobMain
  BY <1>1, <1>3, NoStreamNext DEF GlobMain
<1>4. CASE \E p \in Kids : Command(p)
  BY <1>4, CommandNext
<1>5. CASE \E p \in PProcs : KillPipe(p)
  BY <1>5, ListingKill
<1>6. CASE PopenFails
  BY <1>6, PipeStutters DEF PopenFails
<1> QED BY <1>2, <1>3, <1>4, <1>5, <1>6 DEF PipeStep, PipeMain, PipeChild, Listings, Test1Main

LEMMA PipeNext == ASSUME PipeInv, prog' = prog, PipeStep PROVE PipeInv'
<1>1. PipeTypes'
  <2> USE KidNumbers DEF PipeTypes, Places, KGoto
  <2>0. PipeTypes
    BY DEF PipeInv
  <2>1. CASE prog \notin {"simple", "lswc", "double"} \cup Listings
    <3>1. ASSUME NEW p \in Kids, Command(p) PROVE PipeTypes'
      BY <2>0, <3>1 DEF Command, Put1, Get1, Quit, Leave
    <3>2. ASSUME NEW p \in Kids, SyncWorker(p) PROVE PipeTypes'
      BY <2>0, <3>2 DEF SyncWorker, Close, Does, Quit, Leave
    <3>3. ASSUME SyncMain PROVE PipeTypes'
      BY <2>0, <3>3 DEF SyncMain, MakePipes, Fork, Close, AtEof, Quit, Leave
    <3>4. ASSUME PopenMain PROVE PipeTypes'
      BY <2>0, <3>4 DEF PopenMain, Popen, Get1, Put1, PcloseFclose, PcloseWait, Sigpipe, Leave
    <3>5. ASSUME NEW p \in PProcs, KillPipe(p) PROVE PipeTypes'
      BY <2>0, <3>5 DEF KillPipe, Leave
    <3>6. ASSUME PopenFails PROVE PipeTypes'
      BY <2>0, <3>6, PipeStutters DEF PopenFails
    <3>7. \/ SyncMain \/ PopenMain \/ \E p \in Kids : SyncWorker(p) \/ Command(p)
          \/ PopenFails \/ \E p \in PProcs : KillPipe(p)
      BY <2>1 DEF PipeStep, PipeMain, PipeChild, Listings
    <3> QED BY <3>1, <3>2, <3>3, <3>4, <3>5, <3>6, <3>7
  <2> QED BY <2>1, SimpleNext, LsWcNext, DoubleNext, ListingNext DEF PipeInv
<1>2. CASE prog = "simple"
  BY <1>1, <1>2, SimpleNext DEF PipeInv, SimpleInv, LsWcInv, DoubleInv, ListingInv, Listings
<1>3. CASE prog = "lswc"
  BY <1>1, <1>3, LsWcNext DEF PipeInv, SimpleInv, LsWcInv, DoubleInv, ListingInv, Listings
<1>4. CASE prog = "double"
  BY <1>1, <1>4, DoubleNext DEF PipeInv, SimpleInv, LsWcInv, DoubleInv, ListingInv, Listings
<1>5. CASE prog \in Listings
  BY <1>1, <1>5, ListingNext DEF PipeInv, SimpleInv, LsWcInv, DoubleInv, ListingInv, Listings
<1>6. CASE prog \notin {"simple", "lswc", "double"} \cup Listings
  BY <1>1, <1>6 DEF PipeInv, SimpleInv, LsWcInv, DoubleInv, ListingInv
<1> QED BY <1>2, <1>3, <1>4, <1>5, <1>6

LEMMA PipeInvWhole == PipeInv => PipesWhole
BY KidNumbers DEF PipeInv, PipeTypes, SimpleInv, LsWcInv, DoubleInv, ListingInv, StreamInv, Whole, Dead,
                  PipesWhole

----------------------------------------------------------------------------
(* Lines.                                                                  *)

\* The line ends up to i, and how many there are.
UpTo(i) == {j \in LineEnds : j <= i}
Rank(i) == Cardinality(UpTo(i))

Line(k) == SubSeq(input, LineStart(k), Shorter(LineEnd(k), LineStart(k) + Keeps - 1))

\* The bytes of the input that the calls have consumed.
Seen == IF prog = "linebuf" /\ rnext < Len(rlbuf) THEN rpos - Len(rlbuf) + rnext ELSE rpos

\* The last line returned ends at e, and acc has what is kept since.
Reading(e) ==
  /\ e = 0 \/ e \in LineEnds
  /\ Rank(e) = Len(lines)
  /\ \A i \in e + 1 .. Seen : input[i] # "newline"
  /\ Len(acc) = Shorter(Seen - e, Keeps)
  /\ \A i \in 1 .. Len(acc) : acc[i] = input[e + i]

BufferInv ==
  /\ input \in Seq(Chars) /\ size \in Nat /\ rpos \in 0 .. Len(input) /\ rnext \in Nat /\ faults \in Nat
  /\ rlbuf \in Seq(Chars) /\ Len(rlbuf) <= rpos /\ (prog = "line" => rlbuf = <<>>)
  /\ \A i \in 1 .. Len(rlbuf) : rlbuf[i] = input[rpos - Len(rlbuf) + i]

Progress ==
  /\ acc \in Seq(Chars) /\ lines \in Seq(Seq(Chars))
  /\ Keeps <= 0 => lines = <<>> /\ acc = <<>>
  /\ Keeps > 0 =>
       /\ \A k \in 1 .. Len(lines) : k <= Cardinality(LineEnds) /\ lines[k] = Line(k)
       /\ rat = "read" => \E e \in 0 .. Seen : Reading(e)
       /\ rat = "done" /\ faults = 0 => Len(lines) = Cardinality(LineEnds)

LineInv == prog \in Readers => BufferInv /\ Progress

LEMMA RankFacts ==
  ASSUME input \in Seq(Chars)
  PROVE  /\ LineEnds \subseteq 1 .. Len(input) /\ IsFiniteSet(LineEnds)
         /\ Cardinality(LineEnds) \in Nat
         /\ \A a \in Nat : Rank(a) \in Nat /\ Rank(a) <= Cardinality(LineEnds)
         /\ Rank(0) = 0
         /\ \A a \in Nat, b \in LineEnds : a < b => Rank(a) + 1 <= Rank(b)
         /\ Len(input) \in Nat
<1>1. Len(input) \in Nat /\ LineEnds \subseteq 1 .. Len(input)
  BY DEF LineEnds
<1>2. IsFiniteSet(LineEnds) /\ Cardinality(LineEnds) \in Nat
  <2>1. IsFiniteSet(1 .. Len(input))
    <3> DEFINE n == Len(input)
    <3>1. 1 \in Int /\ n \in Int
      BY <1>1
    <3> HIDE DEF n
    <3>2. IsFiniteSet(1 .. n)
      BY <3>1, FS_Interval
    <3> QED BY <3>2 DEF n
  <2>2. LineEnds \in SUBSET (1 .. Len(input))
    BY <1>1
  <2>3. IsFiniteSet(LineEnds)
    BY <2>1, <2>2, FS_Subset
  <2> QED BY <2>3, FS_CardinalityType
<1>3. \A a : IsFiniteSet(UpTo(a))
  BY <1>2, FS_Subset DEF UpTo
<1>4. \A a : Rank(a) \in Nat /\ Rank(a) <= Cardinality(LineEnds)
  BY <1>2, <1>3, FS_Subset, FS_CardinalityType DEF UpTo, Rank
<1>5. Rank(0) = 0
  <2>1. \A j \in LineEnds : j \in Nat /\ ~(j <= 0)
    BY <1>1
  <2>2. UpTo(0) = {}
    BY <2>1 DEF UpTo
  <2> QED BY <2>2, FS_EmptySet DEF Rank
<1>6. ASSUME NEW a \in Nat, NEW b \in LineEnds, a < b PROVE Rank(a) + 1 <= Rank(b)
  <2>1. b \in Nat
    BY <1>1
  <2>2. UpTo(a) \cup {b} \subseteq UpTo(b) /\ b \notin UpTo(a)
    <3>1. \A j \in LineEnds : j <= a => j <= b
      BY <1>1, <1>6, <2>1
    <3>2. b <= b /\ ~(b <= a)
      BY <1>6, <2>1
    <3> QED BY <3>1, <3>2 DEF UpTo
  <2>3. Cardinality(UpTo(a) \cup {b}) = Cardinality(UpTo(a)) + 1
    BY <1>3, <2>2, FS_AddElement
  <2>4. Cardinality(UpTo(a) \cup {b}) <= Cardinality(UpTo(b))
    BY <1>3, <2>2, FS_Subset
  <2> QED BY <2>3, <2>4 DEF Rank
<1> QED BY <1>1, <1>2, <1>4, <1>5, <1>6

LEMMA LineEndRank ==
  ASSUME input \in Seq(Chars), NEW f \in LineEnds
  PROVE  LineEnd(Rank(f)) = f
<1>1. \A i \in LineEnds : Rank(i) = Rank(f) => i = f
  <2>1. ASSUME NEW i \in LineEnds, Rank(i) = Rank(f) PROVE i = f
    <3>0. LineEnds \subseteq 1 .. Len(input)
      BY RankFacts
    <3>1. i \in Nat /\ f \in Nat /\ Rank(i) \in Nat /\ Rank(f) \in Nat
      BY <3>0, RankFacts
    <3>2. ~(i < f) /\ ~(f < i)
      <4>1. (i < f => Rank(i) + 1 <= Rank(f)) /\ (f < i => Rank(f) + 1 <= Rank(i))
        BY <3>1, RankFacts
      <4> QED BY <2>1, <3>1, <4>1
    <3> QED BY <3>1, <3>2
  <2> QED BY <2>1
<1>2. LineEnd(Rank(f)) = CHOOSE i \in LineEnds : Rank(i) = Rank(f)
  BY DEF LineEnd, Rank, UpTo
<1> QED BY <1>1, <1>2

\* f is the first line end after e.
LEMMA NextLine ==
  ASSUME input \in Seq(Chars), NEW e \in Nat, e = 0 \/ e \in LineEnds, NEW f \in LineEnds, e < f,
         \A i \in e + 1 .. f - 1 : input[i] # "newline"
  PROVE  /\ Rank(f) = Rank(e) + 1 /\ LineEnd(Rank(f)) = f /\ LineStart(Rank(f)) = e + 1
         /\ Rank(f) <= Cardinality(LineEnds)
<1>1. f \in 1 .. Len(input) /\ Len(input) \in Nat /\ Rank(e) \in Nat /\ Rank(f) \in Nat
      /\ Rank(f) <= Cardinality(LineEnds) /\ Rank(e) + 1 <= Rank(f)
  BY RankFacts
<1>2. UpTo(f) = UpTo(e) \cup {f}
  <2>1. \A i \in LineEnds : i <= f => i <= e \/ i = f
    BY <1>1 DEF LineEnds
  <2>2. \A i \in LineEnds : i <= e => i <= f
    BY <1>1, RankFacts
  <2>3. f <= f
    BY <1>1
  <2> QED BY <2>1, <2>2, <2>3 DEF UpTo
<1>3. Rank(f) = Rank(e) + 1
  <2>1. IsFiniteSet(UpTo(e)) /\ f \notin UpTo(e)
    BY <1>1, RankFacts, FS_Subset DEF UpTo
  <2> QED BY <1>2, <2>1, FS_AddElement DEF Rank
<1>4. LineEnd(Rank(f)) = f
  BY LineEndRank
<1>5. CASE e = 0
  <2>1. Rank(f) = 1
    BY <1>3, <1>5, RankFacts
  <2> QED BY <1>1, <1>3, <1>4, <1>5, <2>1 DEF LineStart
<1>6. CASE e # 0
  <2>1. e \in LineEnds /\ 0 < e
    BY <1>6
  <2>2. Rank(0) + 1 <= Rank(e) /\ Rank(0) = 0
    BY <2>1, RankFacts
  <2>3. Rank(f) # 1 /\ Rank(f) - 1 = Rank(e)
    BY <1>1, <1>3, <2>2
  <2>4. LineEnd(Rank(e)) = e
    BY <2>1, LineEndRank
  <2> QED BY <1>1, <1>3, <1>4, <2>3, <2>4 DEF LineStart
<1> QED BY <1>5, <1>6

\* What a sequence of the bytes from e on is.
LEMMA KeptIs ==
  ASSUME input \in Seq(Chars), NEW b \in Seq(Chars), NEW e \in Nat, NEW n \in Nat,
         e + n <= Len(input), Len(b) = n, \A i \in 1 .. Len(b) : b[i] = input[e + i]
  PROVE  b = SubSeq(input, e + 1, e + n)
<1> DEFINE s == SubSeq(input, e + 1, e + n)
<1>0. Len(input) \in Nat
  OBVIOUS
<1>1. \A i \in e + 1 .. e + n : input[i] \in Chars
  BY <1>0, ElementFacts
<1>2. e + 1 \in Int /\ e + n \in Int
  OBVIOUS
<1>3. /\ s \in Seq(Chars)
      /\ Len(s) = IF e + 1 <= e + n THEN (e + n) - (e + 1) + 1 ELSE 0
      /\ \A i \in 1 .. (e + n) - (e + 1) + 1 : s[i] = input[e + 1 + i - 1]
  BY <1>1, <1>2, SubSeqProperties
<1> HIDE DEF s
<1>4. Len(s) = n
  BY <1>3
<1>5. \A i \in 1 .. n : s[i] = input[e + i]
  <2>1. ASSUME NEW i \in 1 .. n PROVE s[i] = input[e + i]
    <3>1. i \in 1 .. (e + n) - (e + 1) + 1 /\ e + 1 + i - 1 = e + i
      OBVIOUS
    <3> QED BY <1>3, <3>1
  <2> QED BY <2>1
<1>6. b = s
  BY <1>3, <1>4, <1>5
<1> QED BY <1>6 DEF s

LEMMA SameInput ==
  ASSUME prog' = prog, input' = input, size' = size
  PROVE  /\ Keeps' = Keeps /\ LineEnds' = LineEnds
         /\ \A k : Rank(k)' = Rank(k) /\ Line(k)' = Line(k)
<1>1. Keeps' = Keeps /\ LineEnds' = LineEnds
  BY DEF Keeps, LineEnds
<1>2. \A k : Rank(k)' = Rank(k)
  BY <1>1 DEF Rank, UpTo
<1>3. \A k : LineEnd(k)' = LineEnd(k)
  BY <1>1 DEF LineEnd
<1>4. \A k : LineStart(k)' = LineStart(k)
  BY <1>3 DEF LineStart
<1>5. \A k : Line(k)' = Line(k)
  BY <1>1, <1>3, <1>4 DEF Line
<1> QED BY <1>1, <1>2, <1>5

\* The bytes b, kept of the input after e and up to the line end f, are
\* returned.
LEMMA LineAdded ==
  ASSUME input \in Seq(Chars), size \in Nat, Progress, Keeps > 0,
         prog' = prog, input' = input, size' = size,
         NEW e \in Nat, Reading(e), NEW f \in LineEnds, e < f,
         \A i \in e + 1 .. f - 1 : input[i] # "newline",
         NEW b \in Seq(Chars), Len(b) = Shorter(f - e, Keeps),
         \A i \in 1 .. Len(b) : b[i] = input[e + i],
         lines' = Append(lines, b)
  PROVE  /\ lines' \in Seq(Seq(Chars)) /\ Rank(f)' = Len(lines')
         /\ \A k \in 1 .. Len(lines') : k <= Cardinality(LineEnds)' /\ lines'[k] = Line(k)'
<1>1. /\ Rank(f) = Rank(e) + 1 /\ LineEnd(Rank(f)) = f /\ LineStart(Rank(f)) = e + 1
      /\ Rank(f) <= Cardinality(LineEnds)
  BY NextLine DEF Reading
<1>2. /\ lines \in Seq(Seq(Chars)) /\ Rank(e) = Len(lines)
      /\ \A k \in 1 .. Len(lines) : k <= Cardinality(LineEnds) /\ lines[k] = Line(k)
  BY DEF Progress, Reading
<1>3. f \in 1 .. Len(input) /\ Len(input) \in Nat /\ Keeps \in Int
  <2>1. Keeps \in Int
    BY DEF Keeps
  <2>2. LineEnds \subseteq 1 .. Len(input) /\ Len(input) \in Nat
    BY RankFacts
  <2> QED BY <2>1, <2>2
<1>4. b = Line(Rank(f))
  <2> DEFINE n == Shorter(f - e, Keeps)
  <2>1. n \in Nat /\ e + n <= Len(input) /\ e + n = Shorter(f, e + 1 + Keeps - 1)
    BY <1>3 DEF Shorter
  <2>2. Len(b) = n
    OBVIOUS
  <2> HIDE DEF n
  <2>3. b = SubSeq(input, e + 1, e + n)
    BY <2>1, <2>2, KeptIs
  <2> QED BY <1>1, <2>1, <2>3 DEF Line
<1>5. /\ lines' \in Seq(Seq(Chars)) /\ Len(lines') = Len(lines) + 1 /\ Len(lines) \in Nat
      /\ \A k \in 1 .. Len(lines) : lines'[k] = lines[k]
      /\ lines'[Len(lines) + 1] = b
  <2>1. Len(lines) \in Nat
    BY <1>2, ElementFacts
  <2> QED BY <1>2, <2>1, AppendFacts
<1>6. ASSUME NEW k \in 1 .. Len(lines')
      PROVE  k <= Cardinality(LineEnds) /\ lines'[k] = Line(k)
  <2>1. k \in 1 .. Len(lines) \/ k = Len(lines) + 1
    BY <1>5
  <2>2. CASE k = Len(lines) + 1
    BY <1>1, <1>2, <1>4, <1>5, <2>2
  <2> QED BY <1>2, <1>5, <2>1, <2>2
<1>7. Rank(f) = Len(lines')
  BY <1>1, <1>2, <1>5
<1> QED BY <1>5, <1>6, <1>7, SameInput

\* Nothing is consumed, and nothing returned.
LEMMA FillNext ==
  ASSUME Progress, prog' = prog, input' = input, size' = size, Seen' = Seen,
         acc' = acc, lines' = lines, rat' = rat, faults' = 0 => faults = 0
  PROVE  Progress'
<1>1. \A e : Reading(e) => Reading(e)'
  BY SameInput DEF Reading
<1>2. ASSUME NEW e \in 0 .. Seen, Reading(e) PROVE e \in 0 .. Seen' /\ Reading(e)'
  BY <1>1, <1>2
<1>3. (rat = "read" => \E e \in 0 .. Seen : Reading(e))
      => (rat = "read" => \E e \in 0 .. Seen : Reading(e))'
  BY <1>2
<1> QED BY <1>3, SameInput DEF Progress

LEMMA ErrorNext ==
  ASSUME Progress, prog' = prog, input' = input, size' = size, size \in Nat, ReturnError,
         faults' > 0 \/ size = 0
  PROVE  Progress'
<1>1. acc' = <<>> /\ lines' = lines /\ rat' = "done" /\ acc' \in Seq(Chars)
  BY DEF ReturnError
<1>2. size = 0 => Keeps <= 0
  BY DEF Keeps
<1>3. ~(Keeps > 0 /\ faults' = 0)
  <2>1. Keeps <= 0 => ~(Keeps > 0)
    BY DEF Keeps
  <2>2. faults' > 0 => faults' # 0
    OBVIOUS
  <2> QED BY <1>2, <2>1, <2>2
<1> QED BY <1>1, <1>3, SameInput DEF Progress

LEMMA OneMoreByte ==
  ASSUME NEW n \in Nat, NEW a \in Nat, NEW k \in Int, n = Shorter(a, k)
  PROVE  /\ n < k => n = a /\ Shorter(a + 1, k) = n + 1
         /\ ~(n < k) => Shorter(a + 1, k) = n
BY DEF Shorter

\* One more byte of the input is consumed.
LEMMA ConsumeNext ==
  ASSUME input \in Seq(Chars), size \in Nat, Progress, rat = "read",
         prog' = prog, input' = input, size' = size, faults' = faults,
         Seen \in Nat, Seen < Len(input), Seen' = Seen + 1,
         Consume(input[Seen + 1], Keeps)
  PROVE  Progress'
<1> DEFINE c == input[Seen + 1]
           b == Kept(c, Keeps)
<1>0. c = input[Seen + 1]
  OBVIOUS
<1> HIDE DEF c
<1>1. Len(input) \in Nat /\ Keeps \in Int /\ Len(acc) \in Nat /\ acc \in Seq(Chars)
      /\ lines \in Seq(Seq(Chars))
  BY ElementFacts DEF Keeps, Progress
<1>2. c \in Chars /\ Consume(c, Keeps)
  BY <1>0, <1>1, ElementFacts
<1>3. CASE Keeps <= 0
  <2>1. acc = <<>> /\ lines = <<>> /\ Len(acc) = 0
    BY <1>3, EmptyFacts DEF Progress
  <2>2. b = <<>>
    BY <1>1, <1>3, <2>1 DEF Kept
  <2>3. acc' = <<>> /\ lines' = <<>>
    BY <1>2, <2>1, <2>2 DEF Consume, Return
  <2>4. acc' \in Seq(Chars) /\ lines' \in Seq(Seq(Chars)) /\ Keeps' <= 0
    BY <1>3, <2>3, SameInput, EmptyFacts
  <2> QED BY <1>1, <2>3, <2>4, SameInput DEF Progress
<1>4. CASE Keeps > 0
  <2>1. PICK e \in 0 .. Seen : Reading(e)
    BY <1>4 DEF Progress
  <2>2. e \in Nat /\ e <= Seen /\ Len(acc) = Shorter(Seen - e, Keeps)
        /\ \A i \in 1 .. Len(acc) : acc[i] = input[e + i]
    BY <2>1 DEF Reading
  <2>3. /\ b \in Seq(Chars) /\ Len(b) = Shorter(Seen + 1 - e, Keeps)
        /\ \A i \in 1 .. Len(b) : b[i] = input[e + i]
    <3>0. /\ Len(acc) < Keeps => Len(acc) = Seen - e /\ Shorter(Seen + 1 - e, Keeps) = Len(acc) + 1
          /\ ~(Len(acc) < Keeps) => Shorter(Seen + 1 - e, Keeps) = Len(acc)
      <4>1. Seen - e \in Nat /\ Seen - e + 1 = Seen + 1 - e
        BY <2>2
      <4> QED BY <1>1, <2>2, <4>1, OneMoreByte
    <3>1. CASE Len(acc) < Keeps
      <4>1. b = Append(acc, c) /\ Len(acc) = Seen - e /\ c = input[e + (Len(acc) + 1)]
        <5>1. b = Append(acc, c)
          BY <3>1 DEF Kept
        <5>2. Len(acc) = Seen - e
          BY <1>1, <2>2, <3>0, <3>1
        <5>3. e + (Len(acc) + 1) = Seen + 1
          BY <2>2, <5>2
        <5> QED BY <1>0, <5>1, <5>2, <5>3
      <4>2. /\ b \in Seq(Chars) /\ Len(b) = Len(acc) + 1 /\ b[Len(acc) + 1] = c
            /\ \A i \in 1 .. Len(acc) : b[i] = acc[i]
        <5> DEFINE a == acc
        <5>1. a \in Seq(Chars)
          BY <1>1
        <5> HIDE DEF a
        <5>2. /\ Append(a, c) \in Seq(Chars) /\ Len(Append(a, c)) = Len(a) + 1
              /\ \A i \in 1 .. Len(a) : Append(a, c)[i] = a[i]
              /\ Append(a, c)[Len(a) + 1] = c
          BY <1>2, <5>1, AppendFacts
        <5> QED BY <4>1, <5>2 DEF a
      <4>3. Len(b) = Shorter(Seen + 1 - e, Keeps)
        BY <1>1, <2>2, <3>0, <3>1, <4>2
      <4>4. ASSUME NEW i \in 1 .. Len(b) PROVE b[i] = input[e + i]
        <5>1. i \in 1 .. Len(acc) \/ i = Len(acc) + 1
          BY <1>1, <4>2
        <5> QED BY <2>2, <4>1, <4>2, <5>1
      <4> QED BY <4>2, <4>3, <4>4
    <3>2. CASE ~(Len(acc) < Keeps)
      <4>1. b = acc
        BY <3>2 DEF Kept
      <4>2. Shorter(Seen + 1 - e, Keeps) = Len(acc)
        BY <1>1, <2>2, <3>0, <3>2
      <4> QED BY <1>1, <2>2, <4>1, <4>2
    <3> QED BY <3>1, <3>2
  <2>4. CASE c = "newline"
    <3>0. PICK f \in Nat : f = Seen + 1
      OBVIOUS
    <3>1. f \in LineEnds /\ e < f /\ f - 1 = Seen /\ f \in Nat
      <4>1. f \in 1 .. Len(input) /\ e < f /\ f - 1 = Seen
        BY <1>1, <2>2, <3>0
      <4>2. input[f] = "newline"
        BY <1>0, <2>4, <3>0
      <4> QED BY <4>1, <4>2 DEF LineEnds
    <3>2. \A i \in e + 1 .. f - 1 : input[i] # "newline"
      BY <2>1, <3>1 DEF Reading
    <3>3. Len(b) > 0 /\ b # <<>>
      <4>1. Shorter(Seen + 1 - e, Keeps) > 0
        BY <1>1, <1>4, <2>2 DEF Shorter
      <4> QED BY <2>3, <4>1, EmptyFacts
    <3>4. lines' = Append(lines, b) /\ acc' = <<>> /\ rat' = "read"
      BY <1>2, <2>4, <3>3 DEF Consume, Return
    <3>5. Len(b) = Shorter(f - e, Keeps)
      BY <2>3, <3>0
    <3> HIDE DEF b
    <3>6. /\ lines' \in Seq(Seq(Chars)) /\ Rank(f)' = Len(lines')
          /\ \A k \in 1 .. Len(lines') : k <= Cardinality(LineEnds)' /\ lines'[k] = Line(k)'
      BY <1>4, <2>1, <2>2, <2>3, <3>1, <3>2, <3>4, <3>5, LineAdded
    <3>7. Seen' = f
      BY <3>0
    <3>8. Reading(f)'
      <4>1. f \in LineEnds' /\ Keeps' = Keeps
        BY <3>1, SameInput
      <4>2. Len(acc') = 0 /\ Shorter(f - f, Keeps) = 0
        BY <1>1, <1>4, <3>1, <3>4, EmptyFacts DEF Shorter
      <4>3. \A i \in f + 1 .. f : FALSE
        BY <3>1
      <4>4. \A i \in 1 .. 0 : FALSE
        OBVIOUS
      <4> QED BY <3>6, <3>7, <4>1, <4>2, <4>3, <4>4 DEF Reading
    <3>9. f \in 0 .. Seen'
      BY <3>1, <3>7
    <3>10. acc' \in Seq(Chars) /\ Keeps' = Keeps /\ ~(Keeps <= 0) /\ rat' # "done"
      BY <1>1, <1>4, <3>4, SameInput, EmptyFacts
    <3>11. \E g \in 0 .. Seen' : Reading(g)'
      BY <3>8, <3>9
    <3> QED BY <3>6, <3>10, <3>11 DEF Progress
  <2>5. CASE c # "newline"
    <3>1. acc' = b /\ lines' = lines /\ rat' = rat
      BY <1>2, <2>5 DEF Consume
    <3>2. \A i \in e + 1 .. Seen + 1 : input[i] # "newline"
      <4>1. ASSUME NEW i \in e + 1 .. Seen + 1 PROVE input[i] # "newline"
        <5>1. i \in e + 1 .. Seen \/ i = Seen + 1
          BY <2>2
        <5> QED BY <1>0, <2>1, <2>5, <5>1 DEF Reading
      <4> QED BY <4>1
    <3> HIDE DEF b
    <3>3. Reading(e)'
      BY <2>1, <2>3, <3>1, <3>2, SameInput DEF Reading
    <3>4. e \in 0 .. Seen'
      BY <2>2
    <3> QED BY <1>1, <1>4, <2>3, <3>1, <3>3, <3>4, SameInput DEF Progress
  <2> QED BY <2>4, <2>5
<1> QED BY <1>1, <1>3, <1>4

\* The input has come to its end.
LEMMA EndNext ==
  ASSUME input \in Seq(Chars), size \in Nat, Progress, rat = "read",
         prog' = prog, input' = input, size' = size, faults' = faults,
         Seen = Len(input), Seen' = Seen, Return(acc)
  PROVE  Progress'
<1>1. Len(input) \in Nat /\ Keeps \in Int /\ Len(acc) \in Nat /\ acc \in Seq(Chars)
      /\ lines \in Seq(Seq(Chars))
  BY ElementFacts DEF Keeps, Progress
<1>2. acc' = <<>> /\ acc' \in Seq(Chars) /\ Len(acc') = 0
  BY EmptyFacts DEF Return
<1>3. CASE Keeps <= 0
  <2>1. acc = <<>> /\ lines = <<>>
    BY <1>3 DEF Progress
  <2>2. lines' = <<>> /\ lines' \in Seq(Seq(Chars))
    BY <2>1, EmptyFacts DEF Return
  <2>3. Keeps' = Keeps /\ ~(Keeps > 0)
    BY <1>1, <1>3, SameInput
  <2> QED BY <1>2, <2>2, <2>3 DEF Progress
<1>4. CASE Keeps > 0
  <2>1. PICK e \in 0 .. Seen : Reading(e)
    BY <1>4 DEF Progress
  <2>2. e \in Nat /\ e <= Len(input) /\ Len(acc) = Shorter(Len(input) - e, Keeps)
        /\ Rank(e) = Len(lines) /\ \A i \in 1 .. Len(acc) : acc[i] = input[e + i]
    BY <2>1, <1>1 DEF Reading
  <2>3. CASE e = Len(input)
    <3>1. Len(acc) = 0
      BY <1>1, <1>4, <2>2, <2>3 DEF Shorter
    <3>2. acc = <<>>
      BY <1>1, <3>1
    <3>3. lines' = lines /\ rat' = "done"
      BY <3>2 DEF Return
    <3>4. UpTo(e) = LineEnds
      BY <1>1, <2>3 DEF UpTo, LineEnds
    <3>5. Len(lines) = Cardinality(LineEnds)
      BY <2>2, <3>4 DEF Rank
    <3> QED BY <1>1, <1>2, <1>4, <3>3, <3>5, SameInput DEF Progress
  <2>4. CASE e # Len(input)
    <3>0. PICK f \in Nat : f = Len(input)
      BY <1>1
    <3>1. f \in LineEnds /\ e < f
      <4>1. f \in 1 .. Len(input) /\ e < f
        BY <1>1, <2>2, <2>4, <3>0
      <4> QED BY <3>0, <4>1 DEF LineEnds
    <3>2. \A i \in e + 1 .. f - 1 : input[i] # "newline"
      <4>1. \A i \in e + 1 .. f : input[i] # "newline"
        BY <2>1, <3>0 DEF Reading
      <4>2. ASSUME NEW i \in e + 1 .. f - 1 PROVE i \in e + 1 .. f
        BY <2>2
      <4> QED BY <4>1, <4>2
    <3>3. Len(acc) = Shorter(f - e, Keeps)
      BY <2>2, <3>0
    <3>4. acc # <<>>
      <4>1. Shorter(f - e, Keeps) > 0
        BY <1>1, <1>4, <2>2, <3>1 DEF Shorter
      <4> QED BY <3>3, <4>1, EmptyFacts
    <3>5. lines' = Append(lines, acc) /\ rat' = "read"
      BY <3>4 DEF Return
    <3>6. /\ lines' \in Seq(Seq(Chars)) /\ Rank(f)' = Len(lines')
          /\ \A k \in 1 .. Len(lines') : k <= Cardinality(LineEnds)' /\ lines'[k] = Line(k)'
      BY <1>1, <1>4, <2>1, <2>2, <3>1, <3>2, <3>3, <3>5, LineAdded
    <3>7. Seen' = f
      BY <3>0
    <3>8. Reading(f)'
      <4>1. f \in LineEnds' /\ Keeps' = Keeps
        BY <3>1, SameInput
      <4>2. Shorter(f - f, Keeps) = 0
        BY <1>1, <1>4, <3>0 DEF Shorter
      <4>3. \A i \in f + 1 .. f : FALSE
        OBVIOUS
      <4>4. \A i \in 1 .. 0 : FALSE
        OBVIOUS
      <4> QED BY <1>2, <3>6, <3>7, <4>1, <4>2, <4>3, <4>4 DEF Reading
    <3>9. \E g \in 0 .. Seen' : Reading(g)'
      BY <3>7, <3>8
    <3>10. Keeps' = Keeps /\ ~(Keeps <= 0) /\ rat' # "done"
      BY <1>1, <1>4, <3>5, SameInput
    <3> QED BY <1>2, <3>6, <3>9, <3>10 DEF Progress
  <2> QED BY <2>3, <2>4
<1> QED BY <1>1, <1>3, <1>4

LEMMA ReadLineNext == ASSUME BufferInv, Progress, prog' = prog, ReadLine PROVE BufferInv' /\ Progress'
<1>1. /\ prog = "line" /\ rat = "read" /\ input' = input /\ size' = size /\ rlbuf' = rlbuf
      /\ rnext' = rnext
  BY DEF ReadLine
<1>2. /\ input \in Seq(Chars) /\ size \in Nat /\ faults \in Nat /\ Len(input) \in Nat
      /\ rpos \in 0 .. Len(input)
  BY ElementFacts DEF BufferInv
<1>3. Seen = rpos /\ Seen' = rpos' /\ Keeps = size - 1
  BY <1>1 DEF Seen, Keeps
<1>4. CASE size = 0 /\ ReturnError /\ UNCHANGED <<rpos, faults>>
  BY <1>1, <1>2, <1>4, ErrorNext DEF BufferInv
<1>5. CASE Fault /\ UNCHANGED <<acc, lines, rat, rpos>>
  <2>1. faults' \in Nat /\ faults' # 0
    BY <1>2, <1>5 DEF Fault
  <2> QED BY <1>1, <1>3, <1>5, <2>1, FillNext DEF BufferInv
<1>6. CASE Fault /\ ReturnError /\ UNCHANGED rpos
  <2>1. faults' \in Nat /\ faults' > 0
    BY <1>2, <1>6 DEF Fault
  <2> QED BY <1>1, <1>2, <1>6, <2>1, ErrorNext DEF BufferInv
<1>7. CASE rpos < Len(input) /\ rpos' = rpos + 1 /\ Consume(input[rpos + 1], size - 1) /\ UNCHANGED faults
  <2>1. Consume(input[Seen + 1], Keeps) /\ Seen \in Nat /\ Seen < Len(input) /\ Seen' = Seen + 1
    BY <1>2, <1>3, <1>7
  <2>2. Progress'
    BY <1>1, <1>2, <1>7, <2>1, ConsumeNext
  <2>3. rpos' \in 0 .. Len(input) /\ rpos <= rpos'
    BY <1>2, <1>7
  <2>4. rlbuf = <<>> /\ Len(rlbuf) = 0 /\ rlbuf' = <<>> /\ rlbuf' \in Seq(Chars) /\ Len(rlbuf') = 0
    BY <1>1, EmptyFacts DEF BufferInv
  <2>5. Len(rlbuf') <= rpos' /\ \A i \in 1 .. Len(rlbuf') : FALSE
    BY <1>2, <2>3, <2>4
  <2>6. input' \in Seq(Chars) /\ size' \in Nat /\ faults' \in Nat /\ rnext' \in Nat
        /\ rpos' \in 0 .. Len(input')
    BY <1>1, <1>2, <1>7, <2>3 DEF BufferInv
  <2>7. BufferInv'
    BY <2>4, <2>5, <2>6 DEF BufferInv
  <2> QED BY <2>2, <2>7
<1>8. CASE rpos = Len(input) /\ Return(acc) /\ UNCHANGED <<rpos, faults>>
  BY <1>1, <1>2, <1>3, <1>8, EndNext DEF BufferInv
<1> QED BY <1>4, <1>5, <1>6, <1>7, <1>8 DEF ReadLine

LEMMA ReadLineBufNext ==
  ASSUME BufferInv, Progress, prog' = prog, ReadLineBuf
  PROVE  BufferInv' /\ Progress'
<1>1. prog = "linebuf" /\ rat = "read" /\ input' = input /\ size' = size
  BY DEF ReadLineBuf
<1>2. /\ input \in Seq(Chars) /\ size \in Nat /\ faults \in Nat /\ Len(input) \in Nat
      /\ rpos \in 0 .. Len(input) /\ rlbuf \in Seq(Chars) /\ Len(rlbuf) \in Nat /\ rnext \in Nat
      /\ Len(rlbuf) <= rpos
      /\ \A i \in 1 .. Len(rlbuf) : rlbuf[i] = input[rpos - Len(rlbuf) + i]
  BY ElementFacts DEF BufferInv
<1>3. Keeps = size
  BY <1>1 DEF Keeps
<1>4. /\ Seen = IF rnext < Len(rlbuf) THEN rpos - Len(rlbuf) + rnext ELSE rpos
      /\ Seen' = IF rnext' < Len(rlbuf') THEN rpos' - Len(rlbuf') + rnext' ELSE rpos'
  BY <1>1 DEF Seen
<1>5. CASE size = 0 /\ ReturnError /\ UNCHANGED <<rpos, rlbuf, rnext, faults>>
  BY <1>1, <1>2, <1>5, ErrorNext DEF BufferInv
\* rlbuf is empty.
<1>6. ASSUME rlbuf' = <<>>, rpos' = rpos, rnext' = rnext, faults' \in Nat PROVE BufferInv'
  <2>1. rlbuf' \in Seq(Chars) /\ Len(rlbuf') = 0 /\ Len(rlbuf') <= rpos'
        /\ \A i \in 1 .. Len(rlbuf') : FALSE
    BY <1>2, <1>6, EmptyFacts
  <2>2. input' \in Seq(Chars) /\ size' \in Nat /\ rpos' \in 0 .. Len(input') /\ rnext' \in Nat
    BY <1>1, <1>2, <1>6
  <2> QED BY <1>6, <2>1, <2>2 DEF BufferInv
<1>7. ASSUME rnext >= Len(rlbuf), rlbuf' = <<>>, rpos' = rpos, rnext' = rnext
      PROVE  Seen = rpos /\ Seen' = rpos
  <2>1. Len(rlbuf') = 0 /\ ~(rnext < Len(rlbuf)) /\ ~(rnext < 0)
    BY <1>2, <1>7, EmptyFacts
  <2> QED BY <1>4, <1>7, <2>1
<1>8. CASE /\ rnext >= Len(rlbuf) /\ rpos < Len(input)
           /\ \E k \in 1 .. LineBufMax :
                /\ rpos + k <= Len(input) /\ rpos' = rpos + k
                /\ rlbuf' = SubSeq(input, rpos + 1, rpos + k)
           /\ rnext' = 0 /\ UNCHANGED <<acc, lines, rat, faults>>
  <2>1. PICK k \in 1 .. LineBufMax : /\ rpos + k <= Len(input) /\ rpos' = rpos + k
                                     /\ rlbuf' = SubSeq(input, rpos + 1, rpos + k)
    BY <1>8
  <2>2. k \in Nat /\ k > 0 /\ rpos \in Nat
    BY <1>2, <2>1, LineAssumption DEF LineAssumption
  <2>3. /\ rlbuf' \in Seq(Chars) /\ Len(rlbuf') = k
        /\ \A i \in 1 .. k : rlbuf'[i] = input[rpos + i]
    <3> DEFINE s == SubSeq(input, rpos + 1, rpos + k)
    <3>1. \A i \in rpos + 1 .. rpos + k : input[i] \in Chars
      BY <1>2, <2>1, <2>2, ElementFacts
    <3>2. rpos + 1 \in Int /\ rpos + k \in Int /\ (rpos + k) - (rpos + 1) + 1 = k
          /\ rpos + 1 <= rpos + k
      BY <2>2
    <3>3. /\ s \in Seq(Chars)
          /\ Len(s) = IF rpos + 1 <= rpos + k THEN (rpos + k) - (rpos + 1) + 1 ELSE 0
          /\ \A i \in 1 .. (rpos + k) - (rpos + 1) + 1 : s[i] = input[rpos + 1 + i - 1]
      BY <3>1, <3>2, SubSeqProperties
    <3>4. rlbuf' = s
      BY <2>1
    <3> HIDE DEF s
    <3>5. \A i \in 1 .. k : rpos + 1 + i - 1 = rpos + i
      BY <2>2
    <3> QED BY <3>2, <3>3, <3>4, <3>5
  <2>4. Seen = rpos /\ Seen' = rpos
    <3>1. ~(rnext < Len(rlbuf)) /\ rnext' < Len(rlbuf') /\ rpos' - k + 0 = rpos
      BY <1>2, <1>8, <2>1, <2>2, <2>3
    <3> QED BY <1>4, <1>8, <2>3, <3>1
  <2>5. BufferInv'
    <3>1. rpos' \in 0 .. Len(input') /\ rpos' - k = rpos /\ k <= rpos'
      BY <1>1, <1>2, <2>1, <2>2
    <3>2. input' \in Seq(Chars) /\ size' \in Nat /\ faults' \in Nat /\ rnext' \in Nat
      BY <1>1, <1>2, <1>8
    <3>3. \A i \in 1 .. Len(rlbuf') : rlbuf'[i] = input'[rpos' - Len(rlbuf') + i]
      BY <1>1, <2>3, <3>1
    <3> QED BY <1>1, <2>3, <3>1, <3>2, <3>3 DEF BufferInv
  <2>6. Progress'
    BY <1>1, <1>8, <2>4, FillNext
  <2> QED BY <2>5, <2>6
<1>9. CASE /\ rnext >= Len(rlbuf) /\ rpos = Len(input)
           /\ rlbuf' = <<>> /\ Return(acc) /\ UNCHANGED <<rpos, rnext, faults>>
  <2>1. Seen = Len(input) /\ Seen' = Seen
    BY <1>7, <1>9
  <2> QED BY <1>1, <1>2, <1>6, <1>9, <2>1, EndNext
<1>10. CASE rnext >= Len(rlbuf) /\ Fault /\ rlbuf' = <<>> /\ ReturnError /\ UNCHANGED <<rpos, rnext>>
  <2>1. faults' \in Nat /\ faults' > 0
    BY <1>2, <1>10 DEF Fault
  <2> QED BY <1>1, <1>2, <1>6, <1>10, <2>1, ErrorNext
<1>11. CASE /\ rnext < Len(rlbuf) /\ rnext' = rnext + 1
            /\ Consume(rlbuf[rnext + 1], size) /\ UNCHANGED <<rpos, rlbuf, faults>>
  <2> DEFINE n == Len(rlbuf)
  <2>1. /\ n \in Nat /\ n <= rpos /\ rnext < n /\ rpos \in Nat /\ rpos <= Len(input)
        /\ \A i \in 1 .. n : rlbuf[i] = input[rpos - n + i]
    BY <1>2, <1>11
  <2>2. /\ Seen = rpos - n + rnext
        /\ Seen' = IF rnext + 1 < n THEN rpos - n + (rnext + 1) ELSE rpos
    BY <1>4, <1>11
  <2>3. /\ Seen \in Nat /\ Seen < Len(input) /\ Seen' = Seen + 1
        /\ rlbuf[rnext + 1] = input[Seen + 1]
    <3> HIDE DEF n
    <3>1. Seen \in Nat /\ Seen < Len(input) /\ Seen' = Seen + 1
      BY <1>2, <2>1, <2>2
    <3>2. rnext + 1 \in 1 .. n /\ rpos - n + (rnext + 1) = Seen + 1
      BY <1>2, <2>1, <2>2
    <3> QED BY <2>1, <3>1, <3>2
  <2>4. Consume(input[Seen + 1], Keeps)
    BY <1>3, <1>11, <2>3
  <2>5. Progress'
    BY <1>1, <1>2, <1>11, <2>3, <2>4, ConsumeNext
  <2>6. BufferInv'
    <3>1. rnext' \in Nat
      BY <1>2, <1>11
    <3> QED BY <1>1, <1>11, <3>1 DEF BufferInv
  <2> QED BY <2>5, <2>6
<1> QED BY <1>5, <1>8, <1>9, <1>10, <1>11 DEF ReadLineBuf

LEMMA LineNext == ASSUME LineInv, prog \in Readers, prog' = prog, LineStep PROVE LineInv'
BY ReadLineNext, ReadLineBufNext DEF LineInv, LineStep

LEMMA LineStarts == Init => LineInv
<1> SUFFICES ASSUME Init, prog \in Readers PROVE BufferInv /\ Progress
  BY DEF LineInv
<1>1. LineInit /\ faults = 0
  BY DEF Init, IoInit
<1>2. PICK k \in 0 .. InputMax : input \in [1 .. k -> Chars]
  BY <1>1 DEF LineInit
<1>3. input \in Seq(Chars) /\ k \in Nat /\ Len(input) = k
  BY <1>2, LineAssumption DEF LineAssumption
<1>4. /\ size \in Nat /\ rpos = 0 /\ rlbuf = <<>> /\ rnext = 0 /\ acc = <<>> /\ lines = <<>>
      /\ rat = "read" /\ Len(acc) = 0 /\ Len(lines) = 0 /\ Len(rlbuf) = 0
      /\ \A i \in 1 .. 0 : FALSE
  BY <1>1, EmptyFacts, LineAssumption DEF LineInit, LineAssumption
<1>5. BufferInv
  BY <1>1, <1>3, <1>4, EmptyFacts DEF BufferInv
<1>6. Seen = 0
  BY <1>4 DEF Seen
<1>7. ASSUME Keeps > 0 PROVE Reading(0)
  <2>1. Keeps \in Int
    BY <1>4 DEF Keeps
  <2>2. Shorter(0 - 0, Keeps) = 0
    BY <1>7, <2>1 DEF Shorter
  <2>3. Rank(0) = 0
    BY <1>3, RankFacts
  <2>4. \A i \in 0 + 1 .. 0 : FALSE
    OBVIOUS
  <2> QED BY <1>4, <1>6, <2>2, <2>3, <2>4 DEF Reading
<1>8. acc \in Seq(Chars) /\ lines \in Seq(Seq(Chars)) /\ 0 \in 0 .. Seen
  BY <1>4, <1>6, EmptyFacts
<1>9. Progress
  BY <1>4, <1>7, <1>8 DEF Progress
<1> QED BY <1>5, <1>9

LEMMA LineInvWhole == LineInv => LinesWhole
<1> SUFFICES ASSUME prog \in Readers, BufferInv, Progress PROVE LinesWhole
  BY DEF LineInv, LinesWhole
<1>1. Keeps \in Int
  BY DEF BufferInv, Keeps
<1>2. CASE Keeps <= 0
  <2>1. Len(lines) = 0 /\ \A k \in 1 .. Len(lines) : FALSE
    BY <1>2, EmptyFacts DEF Progress
  <2> QED BY <1>2, <2>1 DEF LinesWhole
<1>3. CASE Keeps > 0
  BY <1>3 DEF Progress, Line, LinesWhole
<1> QED BY <1>1, <1>2, <1>3

----------------------------------------------------------------------------
(* All data.                                                               *)

DataInv == /\ PipeInv /\ RelayInv /\ ScriptInv /\ EchoInv /\ EpollInv /\ LineInv
           /\ SumInv /\ GoodInv

LEMMA DataInvInit == Init => DataInv
<1>1. Init => PipeInit
  BY DEF Init
<1> QED BY <1>1, PipeStarts, RelayStarts, ScriptStarts, EchoStarts, EpollStarts, LineStarts, SumStarts,
           SemsInit DEF DataInv

LEMMA PipeInvStutters == PipeInv /\ prog' = prog /\ UNCHANGED ptVars => PipeInv'
<1> SUFFICES ASSUME PipeInv, prog' = prog, UNCHANGED ptVars PROVE PipeInv'
  OBVIOUS
<1>1. PipeTypes' /\ ListingInv'
  BY PipeStutters DEF PipeInv
<1>2. SimpleInv' /\ LsWcInv' /\ DoubleInv'
  BY DEF PipeInv, SimpleInv, LsWcInv, DoubleInv, ptVars
<1> QED BY <1>1, <1>2 DEF PipeInv

LEMMA RelayInvStutters == RelayInv /\ UNCHANGED relayVars => RelayInv'
<1> SUFFICES ASSUME RelayInv, UNCHANGED relayVars PROVE RelayInv'
  OBVIOUS
<1>1. RelayTypes' /\ (Relays' <=> Relays)
  BY DEF RelayInv, RelayTypes, Relays, relayVars
<1>2. \A pos : Holds(pos)' <=> Holds(pos)
  BY DEF Holds, Linked, relayVars
<1>3. UNCHANGED <<xpipe, xprinted, xhanded>>
  BY DEF relayVars
<1> QED BY <1>1, <1>2, <1>3 DEF RelayInv

LEMMA EchoInvStutters == EchoInv /\ prog' = prog /\ UNCHANGED echoVars => EchoInv'
BY DEF EchoInv, EchoTypes, CopyInv, DatagramInv, InBox, Carried, EIdle, Over, echoVars

LEMMA LineInvStutters == LineInv /\ prog' = prog /\ UNCHANGED <<lineVars, faults>> => LineInv'
<1> SUFFICES ASSUME LineInv, prog' = prog, UNCHANGED <<lineVars, faults>>, prog \in Readers
             PROVE  BufferInv' /\ Progress'
  BY DEF LineInv
<1>1. Seen' = Seen /\ BufferInv' /\ Progress
  BY DEF LineInv, BufferInv, Seen, lineVars
<1> QED BY <1>1, FillNext DEF lineVars

LEMMA DataInvNext == DataInv /\ [Next]_vars => DataInv'
<1> SUFFICES ASSUME DataInv, [Next]_vars PROVE DataInv'
  OBVIOUS
<1> USE OneProgram DEF DataInv
<1>1. PipeInv'
  BY PipeInvStutters, PipeNext
<1>2. RelayInv'
  BY RelayInvStutters, RelayNext
<1>3. ScriptInv'
  <2>1. UNCHANGED scriptVars => ScriptInv'
    BY DEF ScriptInv, scriptVars
  <2> QED BY <2>1, ScriptNext
<1>4. EchoInv'
  BY EchoInvStutters, EchoNext
<1>5. EpollInv'
  <2>1. UNCHANGED epollVars => EpollInv'
    BY DEF EpollInv, epollVars
  <2> QED BY <2>1, EpollNext
<1>6. LineInv'
  <2>1. CASE prog \in Readers
    BY <2>1, ReaderSteps, LineInvStutters, LineNext
  <2>2. CASE prog \notin Readers
    BY <2>2 DEF LineInv
  <2> QED BY <2>1, <2>2
<1>7. SumInv' /\ GoodInv'
  <2>1. UNCHANGED semVars => SumInv' /\ GoodInv'
    BY DEF SumInv, GoodInv, semVars
  <2> QED BY <2>1, SumNext, GoodNext
<1> QED BY <1>1, <1>2, <1>3, <1>4, <1>5, <1>6, <1>7

\* What lies in the pipes, queues, connections and buffers at each place of the
\* programs that move data.
THEOREM DataInvInvariant == Spec => []DataInv
BY DataInvInit, DataInvNext, PTL DEF Spec

\* What comes out is what went in.  Who reads a pipe to its end has all that
\* was written, by a writer that had no more to write or was killed; a message
\* that a child of 63_03 hands on is reported once, whole and in order; script's
\* screen and typescript have what the shell wrote; a client of an echo service
\* gets its own messages back, in order and none twice, cut off only where they are
\* datagrams longer than the buffer; each call of readLine() and readLineBuf()
\* returns the next line of the input; and svsem_good_init's semaphore is the
\* sum of the operations made on it.
THEOREM DataCorrect == Spec => []DataWhole
<1>1. DataInv => DataWhole
  BY PipeInvWhole, RelayInvWhole, ScriptInvWhole, EchoInvOwn, EpollInvOwn, LineInvWhole, SumInvSum
     DEF DataInv, DataWhole
<1> QED BY <1>1, DataInvInvariant, PTL
=============================================================================
