------------------------- MODULE SeqnumFifo_proofs -------------------------
(***************************************************************************)
(* No sequence number is given twice, and a client gets those reserved for *)
(* its own request, for every set of clients, lengths and bounds, and all  *)
(* three servers.                                                          *)
(***************************************************************************)
EXTENDS SeqnumFifo, TLAPS

LEMMA InitGrant == Init => GrantInv
<1> SUFFICES ASSUME Init PROVE GrantInv
  OBVIOUS
<1> USE DEF Init
<1>1. \A S : <<>> \in Seq(S)
  OBVIOUS
<1>2. TypeOK
  <2>1. {runs, starts, kills, signals} = {0} /\ 0 \in 0 .. MaxRuns
        /\ 0 \in 0 .. MaxStarts /\ 0 \in 0 .. MaxKills /\ 0 \in 0 .. MaxSignals
    BY SeqnumAssumption DEF SeqnumAssumption
  <2>2. queue \in Seq(Request)
        /\ granted \in Seq([pid : Clients, from : Nat, len : Lens, life : 0 .. MaxStarts])
    BY <1>1
  <2> QED BY <2>1, <2>2 DEF TypeOK, None
<1>3. PlacesInv /\ NextInv /\ NumbersAreUnique
  BY DEF PlacesInv, NextInv, NumbersAreUnique, Below
<1> QED BY <1>2, <1>3 DEF GrantInv

----------------------------------------------------------------------------
(* Types.                                                                  *)

LEMMA ServerType == TypeOK /\ PlacesInv /\ Server => TypeOK'
<1> SUFFICES ASSUME TypeOK, PlacesInv, Server PROVE TypeOK'
  OBVIOUS
<1> USE DEF TypeOK, fifoVars, cliVars, bounds
<1>1. LoopTop \in {"read", "load", "test"}
  BY SeqnumAssumption DEF LoopTop, SeqnumAssumption
<1>2. CASE ServerStart
  <2>1. queue' \in Seq(Request) /\ attached' \subseteq Clients
    BY <1>2 DEF ServerStart
  <2>2. starts' \in 0 .. MaxStarts /\ granted' = granted
    BY <1>2, SeqnumAssumption DEF ServerStart, SeqnumAssumption
  <2> QED BY <1>2, <2>1, <2>2 DEF ServerStart
<1>3. CASE ServerOpen \/ ServerArm \/ ServerGiveUp
  BY <1>1, <1>3 DEF ServerOpen, ServerArm, ServerGiveUp
<1>4. CASE ServerTest
  <2>1. queue' \in Seq(Request) /\ attached' = attached
    BY <1>4 DEF ServerTest, CloseFifo
  <2> QED BY <1>4, <2>1 DEF ServerTest
<1>5. CASE ServerLoad
  <2>1. seqNum' \in Nat /\ saved' \in Nat
    BY <1>5 DEF ServerLoad, Atoi, None
  <2> QED BY <1>5, <2>1 DEF ServerLoad
<1>6. CASE ServerRead
  <2>1. Head(queue) \in Request /\ Tail(queue) \in Seq(Request)
    BY <1>6 DEF ServerRead
  <2> QED BY <1>6, <2>1 DEF ServerRead
<1>7. CASE ServerOpenClient
  BY <1>7 DEF ServerOpenClient
<1>8. CASE ServerReply
  <2> DEFINE new == [pid |-> req.pid, from |-> seqNum, len |-> req.len, life |-> Life]
  <2>1. /\ spc = "reply" /\ spc' = "close"
        /\ UNCHANGED <<server, seqNum, req, termed, saved, fifoVars, cpc, clen, cfifo,
                       bare, unsaved, bounds>>
    BY <1>8 DEF ServerReply
  <2>2. CASE cpc[req.pid] = "read"
    <3>0. req \in Request
      BY <2>1 DEF PlacesInv
    <3>1. Life \in 0 .. MaxStarts
      BY SeqnumAssumption DEF Life, SeqnumAssumption
    <3>2. new \in [pid : Clients, from : Nat, len : Lens, life : 0 .. MaxStarts]
      BY <3>0, <3>1 DEF Request
    <3>3. granted' = Append(granted, new) /\ chan' = [chan EXCEPT ![req.pid] = seqNum]
      BY <1>8, <2>2 DEF ServerReply
    <3>4. granted' \in Seq([pid : Clients, from : Nat, len : Lens, life : 0 .. MaxStarts])
      BY <3>2, <3>3
    <3>5. chan' \in [Clients -> Nat \cup {None}]
      BY <3>3
    <3> QED BY <2>1, <3>4, <3>5
  <2>3. CASE cpc[req.pid] # "read"
    <3>1. UNCHANGED <<chan, granted>>
      BY <1>8, <2>3 DEF ServerReply
    <3> QED BY <2>1, <3>1
  <2> QED BY <2>2, <2>3
<1>9. CASE ServerAdd
  <2>1. seqNum' \in Nat
    <3>1. req \in Request
      BY <1>9 DEF ServerAdd, PlacesInv
    <3>2. req.len \in Nat
      BY <3>1, SeqnumAssumption DEF Request, SeqnumAssumption
    <3>3. seqNum' = seqNum + req.len
      BY <1>9 DEF ServerAdd
    <3> QED BY <3>2, <3>3
  <2> QED BY <1>1, <1>9, <2>1 DEF ServerAdd
<1>10. CASE ServerSave
  BY <1>1, <1>10 DEF ServerSave
<1> QED
  BY <1>2, <1>3, <1>4, <1>5, <1>6, <1>7, <1>8, <1>9, <1>10 DEF Server

LEMMA ClientEndsType ==
  ASSUME TypeOK, NEW c \in Clients, NEW f \in SUBSET Clients, ClientEnds(c, f),
         UNCHANGED <<runs, starts, signals>>, kills' \in 0 .. MaxKills
  PROVE  TypeOK'
<1>1. queue' \in Seq(Request) /\ attached' \subseteq Clients
  BY DEF ClientEnds, CloseFifo, TypeOK
<1> QED BY <1>1 DEF ClientEnds, TypeOK, srvVars

LEMMA ClientType ==
  ASSUME TypeOK, PlacesInv, NEW c \in Clients,
         ClientStart(c) \/ Client(c) \/ KillClient(c)
  PROVE  TypeOK'
<1> USE DEF fifoVars, srvVars, bounds
<1>1. CASE ClientStart(c)
  <2>1. runs' \in 0 .. MaxRuns
    BY <1>1, SeqnumAssumption DEF ClientStart, TypeOK, SeqnumAssumption
  <2> QED BY <1>1, <2>1 DEF ClientStart, TypeOK
<1>2. CASE ClientOpenServer(c)
  <2>1. CASE ClientEnds(c, cfifo \ {c}) /\ UNCHANGED bounds
    BY <2>1, ClientEndsType DEF TypeOK
  <2>2. CASE ~ClientEnds(c, cfifo \ {c})
    BY <1>2, <2>2 DEF ClientOpenServer, TypeOK
  <2> QED BY <1>2, <2>1, <2>2 DEF ClientOpenServer
<1>3. CASE ClientWrite(c)
  <2>1. CASE ClientEnds(c, cfifo) /\ UNCHANGED bounds
    BY <2>1, ClientEndsType DEF TypeOK
  <2>2. CASE Reading /\ c \in attached
    <3>1. clen[c] \in Lens
      BY <1>3 DEF ClientWrite, PlacesInv
    <3>2. [pid |-> c, len |-> clen[c]] \in Request
      BY <3>1 DEF Request
    <3>3. queue' = Append(queue, [pid |-> c, len |-> clen[c]])
          /\ cpc' = [cpc EXCEPT ![c] = "open_reply"]
          /\ UNCHANGED <<server, srvVars, named, attached, clen, cfifo, chan, bare,
                         granted, unsaved, bounds>>
      BY <1>3, <2>2 DEF ClientWrite
    <3>4. queue' \in Seq(Request)
      BY <3>2, <3>3 DEF TypeOK
    <3> QED BY <3>3, <3>4 DEF TypeOK
  <2> QED BY <1>3, <2>1, <2>2 DEF ClientWrite
<1>4. CASE ClientOpenReply(c) \/ ClientRead(c)
  BY <1>4, ClientEndsType DEF ClientOpenReply, ClientRead, TypeOK
<1>5. CASE KillClient(c)
  <2>1. kills' \in 0 .. MaxKills
    BY <1>5, SeqnumAssumption DEF KillClient, TypeOK, SeqnumAssumption
  <2> QED BY <1>5, <2>1, ClientEndsType DEF KillClient, TypeOK
<1> QED BY <1>1, <1>2, <1>3, <1>4, <1>5 DEF Client

LEMMA SignalType == TypeOK /\ (KillServer \/ Terminate) => TypeOK'
<1> USE DEF TypeOK, cliVars
<1>1. ASSUME TypeOK, KillServer PROVE TypeOK'
  <2>1. queue' \in Seq(Request) /\ attached' = attached
    BY <1>1 DEF KillServer, CloseFifo
  <2>2. kills' \in 0 .. MaxKills
    BY <1>1, SeqnumAssumption DEF KillServer, SeqnumAssumption
  <2> QED BY <1>1, <2>1, <2>2 DEF KillServer
<1>2. ASSUME TypeOK, Terminate PROVE TypeOK'
  <2>1. queue' \in Seq(Request) /\ attached' = attached
    <3>0. <<>> \in Seq(Request)
      OBVIOUS
    <3>1. CASE CloseFifo(FALSE, attached)
      BY <1>2, <3>0, <3>1 DEF CloseFifo
    <3>2. CASE ~CloseFifo(FALSE, attached)
      BY <1>2, <3>2 DEF Terminate
    <3> QED BY <3>1, <3>2
  <2>2. signals' \in 0 .. MaxSignals
    BY <1>2, SeqnumAssumption DEF Terminate, SeqnumAssumption
  <2>3. spc' \in {"off", "test", spc} /\ termed' \in BOOLEAN /\ named' \in BOOLEAN
    BY <1>2 DEF Terminate
  <2> QED BY <1>2, <2>1, <2>2, <2>3 DEF Terminate
<1> QED BY <1>1, <1>2

LEMMA StutterType == TypeOK /\ UNCHANGED vars => TypeOK'
BY DEF TypeOK, vars, srvVars, fifoVars, cliVars, bounds

----------------------------------------------------------------------------
(* Places.                                                                 *)

LEMMA NextPlaces == TypeOK /\ PlacesInv /\ [Next]_vars => PlacesInv'
<1> SUFFICES ASSUME TypeOK, PlacesInv, [Next]_vars PROVE PlacesInv'
  OBVIOUS
<1> USE DEF PlacesInv
<1>1. LoopTop \in {"read", "load", "test"} /\ (LoopTop = "load" <=> server = "saved")
      /\ (LoopTop = "test" <=> server = "term")
  BY SeqnumAssumption DEF LoopTop, SeqnumAssumption, TypeOK
<1>2. CASE Server
  <2>1. UNCHANGED <<server, clen>>
    BY <1>2 DEF Server, ServerStart, ServerOpen, ServerArm, ServerTest, ServerLoad,
                ServerRead, ServerGiveUp, ServerOpenClient, ServerReply, ServerAdd,
                ServerSave, cliVars
  <2>2. \A c \in Clients : cpc'[c] # "off" => cpc[c] # "off"
    BY <1>2 DEF Server, ServerStart, ServerOpen, ServerArm, ServerTest, ServerLoad,
                ServerRead, ServerGiveUp, ServerOpenClient, ServerReply, ServerAdd,
                ServerSave, cliVars, TypeOK
  <2>3. /\ server = "saved" => spc' \notin {"arm", "test"}
        /\ server # "saved" => spc' \notin {"load", "save"}
    BY <1>1, <1>2 DEF Server, ServerStart, ServerOpen, ServerArm, ServerTest, ServerLoad,
                      ServerRead, ServerGiveUp, ServerOpenClient, ServerReply, ServerAdd,
                      ServerSave
  <2>4. spc' \in {"open_client", "reply", "close"} => req' \in Request
    <3>1. CASE ServerRead
      BY <3>1 DEF ServerRead, TypeOK
    <3>2. CASE ~ServerRead
      BY <1>1, <1>2, <3>2
         DEF Server, ServerStart, ServerOpen, ServerArm, ServerTest, ServerLoad,
             ServerGiveUp, ServerOpenClient, ServerReply, ServerAdd, ServerSave
    <3> QED BY <3>1, <3>2
  <2> QED BY <2>1, <2>2, <2>3, <2>4
<1>3. ASSUME NEW c \in Clients, ClientStart(c) \/ Client(c) \/ KillClient(c)
      PROVE  PlacesInv'
  <2>1. UNCHANGED <<server, spc, req>>
    BY <1>3 DEF ClientStart, Client, ClientOpenServer, ClientWrite, ClientOpenReply,
                ClientRead, KillClient, ClientEnds, srvVars
  <2>2. \A d \in Clients : cpc'[d] # "off" => clen'[d] \in Lens
    <3>1. CASE ClientStart(c)
      BY <3>1 DEF ClientStart, TypeOK
    <3>2. CASE Client(c) \/ KillClient(c)
      <4>1. /\ cpc[c] # "off"
            /\ \/ cpc' = [cpc EXCEPT ![c] = "off"] /\ clen' = [clen EXCEPT ![c] = 0]
               \/ clen' = clen /\ \E l : cpc' = [cpc EXCEPT ![c] = l]
        BY <3>2 DEF Client, ClientOpenServer, ClientWrite, ClientOpenReply, ClientRead,
                    KillClient, ClientEnds
      <4> QED BY <4>1 DEF TypeOK
    <3> QED BY <1>3, <3>1, <3>2
  <2> QED BY <2>1, <2>2
<1>4. CASE KillServer
  BY <1>4 DEF KillServer, cliVars
<1>5. CASE Terminate
  BY <1>5 DEF Terminate, cliVars
<1>6. CASE UNCHANGED vars
  BY <1>6 DEF vars, srvVars, cliVars
<1> QED BY <1>2, <1>3, <1>4, <1>5, <1>6 DEF Next

----------------------------------------------------------------------------
(* The numbers.                                                            *)

\* A step that sends nothing, and leaves the place of the next number above
\* all that were sent.
LEMMA ServerNumbers == GrantInv /\ Server => NextInv' /\ NumbersAreUnique'
<1> SUFFICES ASSUME GrantInv, Server PROVE NextInv' /\ NumbersAreUnique'
  OBVIOUS
<1>0. TypeOK /\ PlacesInv /\ NextInv /\ NumbersAreUnique
  BY DEF GrantInv
<1>1. /\ LoopTop \in {"read", "load", "test"} /\ (LoopTop = "load" <=> server = "saved")
      /\ (LoopTop = "test" <=> server = "term")
  BY <1>0, SeqnumAssumption DEF LoopTop, SeqnumAssumption, TypeOK
<1>2. seqNum \in Nat /\ Stored \in Nat /\ Len(granted) \in Nat /\ starts \in Nat
  BY <1>0 DEF TypeOK, Stored
<1>3. \A i \in 1 .. Len(granted) :
        granted[i].from \in Nat /\ granted[i].len \in Nat /\ granted[i].life \in Nat
  <2>1. \A i \in 1 .. Len(granted) :
          granted[i] \in [pid : Clients, from : Nat, len : Lens, life : 0 .. MaxStarts]
    <3> DEFINE Sent == [pid : Clients, from : Nat, len : Lens, life : 0 .. MaxStarts]
    <3>1. granted \in Seq(Sent)
      BY <1>0 DEF TypeOK
    <3> HIDE DEF Sent
    <3>2. \A i \in 1 .. Len(granted) : granted[i] \in Sent
      BY <3>1
    <3> QED BY <3>2 DEF Sent
  <2>2. Lens \subseteq Nat /\ 0 .. MaxStarts \subseteq Nat
    BY SeqnumAssumption DEF SeqnumAssumption
  <2>3. \A x \in [pid : Clients, from : Nat, len : Lens, life : 0 .. MaxStarts] :
          x.from \in Nat /\ x.len \in Nat /\ x.life \in Nat
    BY <2>2
  <2> QED BY <2>1, <2>3
<1>4. spc \in {"reply", "close"} => req.pid \in Clients /\ req.len \in Nat /\ req.len > 0
  <2>1. spc \in {"reply", "close"} => req.pid \in Clients /\ req.len \in Lens
    BY <1>0 DEF PlacesInv, Request
  <2>2. \A n \in Lens : n \in Nat /\ n > 0
    BY SeqnumAssumption DEF SeqnumAssumption
  <2> QED BY <2>1, <2>2
<1>5. CASE ServerStart
  <2>1. /\ spc = "off" /\ spc' = "open" /\ starts' = starts + 1 /\ seqNum' = 0
        /\ UNCHANGED <<server, saved, granted, unsaved>>
    BY <1>5 DEF ServerStart
  <2>2. \A i \in 1 .. Len(granted) : granted[i].life <= starts
    BY <1>0 DEF NextInv
  <2>3. server # "saved" => Below(seqNum)'
    BY <1>2, <1>3, <2>1, <2>2 DEF Below, Life
  <2>4. server = "saved" /\ ~unsaved => Below(Stored)'
    BY <1>0, <2>1 DEF NextInv, Below, Life, Stored
  <2>5. \A i \in 1 .. Len(granted) : granted[i].life <= starts + 1
    BY <1>2, <1>3, <2>2
  <2> QED BY <1>0, <2>1, <2>3, <2>4, <2>5 DEF NextInv, NumbersAreUnique
<1>6. CASE ServerOpen \/ ServerArm \/ ServerTest \/ ServerGiveUp
  <2>1. UNCHANGED <<server, seqNum, req, saved, granted, unsaved, starts>>
    BY <1>6 DEF ServerOpen, ServerArm, ServerTest, ServerGiveUp, bounds
  <2>2. \/ spc = "open" /\ spc' \in {"arm", LoopTop}
        \/ spc = "arm" /\ spc' = "test"
        \/ spc = "test" /\ spc' \in {"off", "read"}
        \/ spc = "open_client" /\ spc' = LoopTop
    BY <1>6 DEF ServerOpen, ServerArm, ServerTest, ServerGiveUp
  <2>3. (Below(seqNum) => Below(seqNum)') /\ (Below(Stored) => Below(Stored)')
    BY <2>1 DEF Below, Life, Stored
  <2>4. spc = "arm" => server # "saved"
    BY <1>0 DEF PlacesInv
  <2>5. spc = "test" => server # "saved"
    BY <1>0 DEF PlacesInv
  <2>6. spc = "open" /\ spc' = "arm" => server # "saved"
    BY <1>1, <1>6 DEF ServerOpen, ServerArm, ServerTest, ServerGiveUp
  <2>7. NextInv'
    BY <1>0, <1>1, <2>1, <2>2, <2>3, <2>4, <2>5, <2>6 DEF NextInv
  <2> QED BY <1>0, <2>1, <2>7 DEF NumbersAreUnique
<1>7. CASE ServerLoad
  <2>1. /\ spc = "load" /\ spc' = "read" /\ Stored' = Stored /\ Stored <= seqNum'
        /\ UNCHANGED <<server, granted, unsaved, starts>> /\ seqNum' \in Nat
    <3>1. spc = "load" /\ spc' = "read" /\ UNCHANGED <<server, granted, unsaved, starts>>
      BY <1>7 DEF ServerLoad, bounds
    <3>2. saved' = Stored /\ Stored' = Stored
      BY <1>2, <1>7 DEF ServerLoad, Stored, None
    <3>3. CASE saved = None
      BY <1>7, <3>1, <3>2, <3>3 DEF ServerLoad, Stored
    <3>4. CASE saved # None
      <4>1. Stored = saved /\ seqNum' \in Atoi(Stored)
        BY <1>7, <3>4 DEF ServerLoad, Stored
      <4>2. Stored <= seqNum' /\ seqNum' \in Nat
        BY <1>2, <4>1 DEF Atoi
      <4> QED BY <3>1, <3>2, <4>2
    <3> QED BY <3>3, <3>4
  <2>2. server = "saved"
    BY <1>0, <2>1 DEF PlacesInv
  <2>3. ~unsaved => Below(Stored)
    BY <1>0, <2>1, <2>2 DEF NextInv
  <2>4. ~unsaved => Below(Stored)' /\ Below(seqNum)'
    BY <1>2, <1>3, <2>1, <2>2, <2>3 DEF Below, Life
  <2> QED BY <1>0, <2>1, <2>2, <2>4 DEF NextInv, NumbersAreUnique
<1>8. CASE ServerRead \/ ServerOpenClient
  <2>1. /\ \/ spc = "read" /\ spc' = "open_client"
           \/ spc = "open_client" /\ spc' = "reply"
        /\ UNCHANGED <<server, seqNum, saved, granted, unsaved, starts>>
    BY <1>8 DEF ServerRead, ServerOpenClient, bounds
  <2>2. (Below(seqNum) => Below(seqNum)') /\ (Below(Stored) => Below(Stored)')
    BY <2>1 DEF Below, Life, Stored
  <2>3. Stored' = Stored
    BY <2>1 DEF Stored
  <2> QED BY <1>0, <2>1, <2>2, <2>3 DEF NextInv, NumbersAreUnique
<1>9. CASE ServerReply
  <2> DEFINE new == [pid |-> req.pid, from |-> seqNum, len |-> req.len, life |-> Life]
  <2>1. /\ spc = "reply" /\ spc' = "close"
        /\ UNCHANGED <<server, seqNum, req, saved, unsaved, starts>>
    BY <1>9 DEF ServerReply, bounds
  <2>2. ~unsaved => Below(seqNum)
    BY <1>0, <2>1 DEF NextInv
  <2>3. CASE cpc[req.pid] # "read"
    <3>1. granted' = granted
      BY <1>9, <2>3 DEF ServerReply
    <3>2. ~unsaved => Below(seqNum + req.len)'
      <4> SUFFICES ASSUME ~unsaved, NEW i \in 1 .. Len(granted), granted[i].life = Life
                   PROVE  granted[i].from + granted[i].len <= seqNum + req.len
        BY <2>1, <3>1 DEF Below, Life
      <4>1. granted[i].from + granted[i].len <= seqNum
        BY <2>2 DEF Below
      <4> QED BY <1>2, <1>3, <1>4, <2>1, <4>1
    <3> QED BY <1>0, <2>1, <3>1, <3>2 DEF NextInv, NumbersAreUnique
  <2>4. CASE cpc[req.pid] = "read"
    <3>1. /\ Len(granted') = Len(granted) + 1
          /\ \A i \in 1 .. Len(granted) : granted'[i] = granted[i]
          /\ granted'[Len(granted) + 1] = new
      <4>1. granted' = Append(granted, new)
        BY <1>9, <2>4 DEF ServerReply
      <4>2. granted \in Seq([pid : Clients, from : Nat, len : Lens, life : 0 .. MaxStarts])
        BY <1>0 DEF TypeOK
      <4> HIDE DEF new
      <4> QED BY <4>1, <4>2
    <3>2. Life' = Life /\ Life \in Nat /\ Life <= starts
      BY <1>2, <2>1 DEF Life
    <3>3. ~unsaved => Below(seqNum + req.len)'
      <4> SUFFICES ASSUME ~unsaved, NEW i \in 1 .. Len(granted'), granted'[i].life = Life'
                   PROVE  granted'[i].from + granted'[i].len <= seqNum' + req'.len
        BY DEF Below
      <4>1. CASE i = Len(granted) + 1
        BY <1>2, <1>4, <2>1, <3>1, <4>1
      <4>2. CASE i \in 1 .. Len(granted)
        <5>1. granted[i].from + granted[i].len <= seqNum
          BY <2>2, <3>1, <3>2, <4>2 DEF Below
        <5> QED BY <1>2, <1>3, <1>4, <2>1, <3>1, <4>2, <5>1
      <4> QED BY <1>2, <3>1, <4>1, <4>2
    <3>4. \A i \in 1 .. Len(granted') : granted'[i].life <= starts
      BY <1>0, <1>2, <3>1, <3>2 DEF NextInv
    <3>5. NextInv'
      BY <2>1, <3>3, <3>4 DEF NextInv
    <3>6. ASSUME ~unsaved, NEW i \in 1 .. Len(granted'), NEW j \in 1 .. Len(granted'),
                 i < j, granted'[i].life = granted'[j].life
          PROVE  granted'[i].from + granted'[i].len <= granted'[j].from
      <4>1. CASE j = Len(granted) + 1
        <5>1. i \in 1 .. Len(granted) /\ granted[i].life = Life
          BY <1>2, <3>1, <3>6, <4>1
        <5> QED BY <2>2, <3>1, <3>6, <4>1, <5>1 DEF Below
      <4>2. CASE j # Len(granted) + 1
        <5>1. i \in 1 .. Len(granted) /\ j \in 1 .. Len(granted)
          BY <1>2, <3>1, <3>6, <4>2
        <5> QED BY <1>0, <3>1, <3>6, <5>1 DEF NumbersAreUnique
      <4> QED BY <4>1, <4>2
    <3> QED BY <2>1, <3>5, <3>6 DEF NumbersAreUnique
  <2> QED BY <2>3, <2>4
<1>10. CASE ServerAdd
  <2>1. /\ spc = "close" /\ seqNum' = seqNum + req.len
        /\ spc' = IF server = "saved" THEN "save" ELSE LoopTop
        /\ UNCHANGED <<server, saved, granted, unsaved, starts>>
    BY <1>10 DEF ServerAdd, bounds
  <2>2. ~unsaved => Below(seqNum)'
    BY <1>0, <2>1 DEF NextInv, Below, Life
  <2> QED BY <1>0, <1>1, <2>1, <2>2 DEF NextInv, NumbersAreUnique
<1>11. CASE ServerSave
  <2>1. /\ spc = "save" /\ saved' = seqNum /\ spc' = LoopTop
        /\ UNCHANGED <<server, seqNum, granted, unsaved, starts>>
    BY <1>11 DEF ServerSave, bounds
  <2>2. server = "saved" /\ Stored' = seqNum
    BY <1>0, <1>2, <2>1 DEF PlacesInv, Stored, None
  <2>3. ~unsaved => Below(Stored)'
    BY <1>0, <2>1, <2>2 DEF NextInv, Below, Life
  <2> QED BY <1>0, <1>1, <2>1, <2>2, <2>3 DEF NextInv, NumbersAreUnique
<1> QED
  BY <1>5, <1>6, <1>7, <1>8, <1>9, <1>10, <1>11 DEF Server

LEMMA OtherNumbers ==
  ASSUME GrantInv, UNCHANGED <<server, seqNum, req, saved, granted, starts>>,
         \/ spc' = spc /\ unsaved' = unsaved
         \/ Terminate
         \/ KillServer
  PROVE  NextInv' /\ NumbersAreUnique'
<1>0. TypeOK /\ PlacesInv /\ NextInv /\ NumbersAreUnique
  BY DEF GrantInv
<1>1. /\ Below(seqNum) => Below(seqNum)'
      /\ Below(seqNum + req.len) => Below(seqNum + req.len)'
      /\ Below(Stored) => Below(Stored)'
      /\ Stored' = Stored
  BY DEF Below, Life, Stored
<1>2. unsaved' = FALSE => unsaved = FALSE
  BY <1>0 DEF Terminate, KillServer, TypeOK
<1>3. unsaved' \in BOOLEAN
  BY <1>0 DEF Terminate, KillServer, TypeOK
<1>4. NumbersAreUnique'
  BY <1>0, <1>2, <1>3 DEF NumbersAreUnique
<1>5. CASE spc' = spc /\ unsaved' = unsaved
  BY <1>0, <1>1, <1>4, <1>5 DEF NextInv
<1>6. CASE Terminate
  <2>1. server = "term" /\ unsaved' = unsaved
        /\ \/ spc' \in {"off", spc}
           \/ spc \in {"read", "open_client"} /\ spc' = "test"
    BY <1>6 DEF Terminate
  <2> QED BY <1>0, <1>1, <1>4, <2>1 DEF NextInv
<1>7. CASE KillServer
  <2>1. /\ spc' = "off"
        /\ ~unsaved' => ~unsaved /\ ~(server = "saved" /\ spc \in {"close", "save"})
    BY <1>0, <1>7 DEF KillServer, TypeOK
  <2>2. server = "saved" => spc \in {"open", "load", "read", "open_client", "reply",
                                     "close", "save"}
    BY <1>0, <1>7 DEF KillServer, PlacesInv, TypeOK
  <2> QED BY <1>0, <1>1, <1>4, <2>1, <2>2 DEF NextInv
<1> QED BY <1>5, <1>6, <1>7

LEMMA NextGrant == GrantInv /\ [Next]_vars => GrantInv'
<1> SUFFICES ASSUME GrantInv, [Next]_vars PROVE GrantInv'
  OBVIOUS
<1>1. TypeOK'
  BY ServerType, ClientType, SignalType, StutterType DEF GrantInv, Next
<1>2. PlacesInv'
  BY NextPlaces DEF GrantInv
<1>3. CASE Server
  BY <1>1, <1>2, <1>3, ServerNumbers DEF GrantInv
<1>4. ASSUME NEW c \in Clients, ClientStart(c) \/ Client(c) \/ KillClient(c)
      PROVE  GrantInv'
  <2>1. UNCHANGED <<server, seqNum, req, saved, granted, starts, spc, unsaved>>
    BY <1>4 DEF ClientStart, Client, ClientOpenServer, ClientWrite, ClientOpenReply,
                ClientRead, KillClient, ClientEnds, srvVars, bounds
  <2> QED BY <1>1, <1>2, <2>1, OtherNumbers DEF GrantInv
<1>5. CASE KillServer \/ Terminate
  <2>1. UNCHANGED <<server, seqNum, req, saved, granted, starts>>
    BY <1>5 DEF KillServer, Terminate
  <2> QED BY <1>1, <1>2, <1>5, <2>1, OtherNumbers DEF GrantInv
<1>6. CASE UNCHANGED vars
  <2>1. UNCHANGED <<server, seqNum, req, saved, granted, starts, spc, unsaved>>
    BY <1>6 DEF vars, srvVars, bounds
  <2> QED BY <1>1, <1>2, <2>1, OtherNumbers DEF GrantInv
<1> QED BY <1>3, <1>4, <1>5, <1>6 DEF Next

\* The server's number, in memory or in the file, is above all it has sent.
THEOREM GrantInvAlways == Spec => []GrantInv
BY InitGrant, NextGrant, PTL DEF Spec

\* Every variable keeps its type, through kills and reused pids.
THEOREM TypeCorrect == Spec => []TypeOK
<1>1. GrantInv => TypeOK
  BY DEF GrantInv
<1> QED BY <1>1, GrantInvAlways, PTL

\* No number is sent twice in one life of a server; the server with a backup
\* file keeps that over all its lives, unless it was killed between the
\* reply and set_seq_num.
THEOREM NumbersCorrect == Spec => []NumbersAreUnique
<1>1. GrantInv => NumbersAreUnique
  BY DEF GrantInv
<1> QED BY <1>1, GrantInvAlways, PTL

----------------------------------------------------------------------------
(* The answers: a client gets the numbers reserved for what it asked for.  *)

\* Of a client that has not run without a FIFO of its own: its FIFO is there
\* while it runs, and stays when it is killed, which keeps others from using
\* its pid; so of all its requests at most one is in the queue or served,
\* while it is blocked or has been killed, and that one is its last.
FitsOf(c) ==
  /\ cpc[c] # "off" => c \in cfifo
  /\ cpc[c] # "read" => chan[c] = None
  /\ \A i \in 1 .. Len(queue) : queue[i].pid = c =>
       /\ c \in cfifo /\ cpc[c] \in {"off", "open_reply"}
       /\ cpc[c] = "open_reply" => queue[i].len = clen[c]
       /\ \A j \in 1 .. Len(queue) : queue[j].pid = c => j = i
       /\ ~(spc \in {"open_client", "reply"} /\ req.pid = c)
  /\ spc = "open_client" /\ req.pid = c =>
       /\ c \in cfifo /\ cpc[c] \in {"off", "open_reply"}
       /\ cpc[c] = "open_reply" => req.len = clen[c]
  /\ spc = "reply" /\ req.pid = c =>
       /\ c \in cfifo /\ cpc[c] \in {"off", "read"} /\ chan[c] = None
       /\ cpc[c] = "read" => req.len = clen[c]
  /\ chan[c] # None =>
       \E i \in 1 .. Len(granted) :
         granted[i].pid = c /\ granted[i].from = chan[c] /\ granted[i].len = clen[c]

FitInv == \A c \in Clients \ bare : FitsOf(c)

\* What the steps below know of the queue and of the clients.
LEMMA QueueFacts ==
  ASSUME TypeOK
  PROVE  /\ Len(queue) \in Nat /\ Len(granted) \in Nat
         /\ Len(<<>>) = 0
         /\ cpc \in [Clients -> {"off", "open_server", "write", "open_reply", "read"}]
         /\ clen \in [Clients -> Lens \cup {0}] /\ chan \in [Clients -> Nat \cup {None}]
  BY DEF TypeOK

\* What the queue holds after a step that may have closed it.
LEMMA QueueLost ==
  ASSUME TypeOK, queue' = queue \/ queue' = <<>>
  PROVE  /\ \A i \in 1 .. Len(queue') : i \in 1 .. Len(queue) /\ queue'[i] = queue[i]
  <1>1. CASE queue' = queue
    BY <1>1
  <1>2. CASE queue' = <<>>
    <2>1. Len(queue') = 0
      BY <1>2
    <2> QED BY <2>1
  <1> QED BY <1>1, <1>2

\* A step of somebody else that leaves c alone and takes no request.
LEMMA FitsQuiet ==
  ASSUME TypeOK, NEW c \in Clients, FitsOf(c),
         cpc'[c] = cpc[c], clen'[c] = clen[c], chan'[c] = chan[c],
         c \in cfifo => c \in cfifo',
         \A i \in 1 .. Len(queue') : queue'[i].pid = c =>
            i \in 1 .. Len(queue) /\ queue'[i] = queue[i],
         spc' = spc \/ spc' \notin {"open_client", "reply"},
         req' = req, granted' = granted
  PROVE  FitsOf(c)'
<1>1. CASE spc' = spc
  BY <1>1 DEF FitsOf
<1>2. CASE spc' \notin {"open_client", "reply"}
  BY <1>2 DEF FitsOf
<1> QED BY <1>1, <1>2

\* The server reads a request.
LEMMA FitsRead ==
  ASSUME TypeOK, NEW c \in Clients, FitsOf(c), ServerRead
  PROVE  FitsOf(c)'
<1>1. /\ spc' = "open_client" /\ req' = Head(queue) /\ queue' = Tail(queue) /\ queue # <<>>
      /\ UNCHANGED <<cpc, clen, cfifo, chan, granted>>
  BY DEF ServerRead, cliVars
<1>2. /\ req' = queue[1] /\ 1 \in 1 .. Len(queue) /\ Len(queue') = Len(queue) - 1
      /\ \A i \in 1 .. Len(queue') : i + 1 \in 1 .. Len(queue) /\ queue'[i] = queue[i + 1]
  BY <1>1 DEF TypeOK
<1>3. \A i, j \in 1 .. Len(queue) : queue[i].pid = c /\ queue[j].pid = c => i = j
  BY DEF FitsOf
<1>4. \A i \in 1 .. Len(queue) : queue[i].pid = c =>
        /\ c \in cfifo /\ cpc[c] \in {"off", "open_reply"}
        /\ cpc[c] = "open_reply" => queue[i].len = clen[c]
  BY DEF FitsOf
<1>5. \A i \in 1 .. Len(queue') : queue'[i].pid = c =>
        /\ c \in cfifo' /\ cpc'[c] \in {"off", "open_reply"}
        /\ cpc'[c] = "open_reply" => queue'[i].len = clen'[c]
        /\ \A j \in 1 .. Len(queue') : queue'[j].pid = c => j = i
        /\ req'.pid # c
  <2> SUFFICES ASSUME NEW i \in 1 .. Len(queue'), queue'[i].pid = c
               PROVE  /\ c \in cfifo' /\ cpc'[c] \in {"off", "open_reply"}
                      /\ cpc'[c] = "open_reply" => queue'[i].len = clen'[c]
                      /\ \A j \in 1 .. Len(queue') : queue'[j].pid = c => j = i
                      /\ req'.pid # c
    OBVIOUS
  <2>1. i + 1 \in 1 .. Len(queue) /\ queue'[i] = queue[i + 1] /\ i \in Nat
    BY <1>2, QueueFacts
  <2>2. ASSUME NEW j \in 1 .. Len(queue'), queue'[j].pid = c PROVE j = i
    <3>1. j + 1 \in 1 .. Len(queue) /\ queue'[j] = queue[j + 1] /\ j \in Nat
      BY <1>2, QueueFacts
    <3>2. i + 1 = j + 1
      BY <1>3, <2>1, <2>2, <3>1
    <3> QED BY <2>1, <3>1, <3>2
  <2>3. req'.pid # c
    <3>1. i + 1 # 1
      BY <2>1
    <3> QED BY <1>2, <1>3, <2>1, <3>1
  <2> QED BY <1>1, <1>4, <2>1, <2>2, <2>3
<1>6. req'.pid = c => /\ c \in cfifo /\ cpc[c] \in {"off", "open_reply"}
                      /\ cpc[c] = "open_reply" => req'.len = clen[c]
  BY <1>2, <1>4
<1> QED BY <1>1, <1>5, <1>6 DEF FitsOf

\* The server and the client it answers meet.
LEMMA FitsMeet ==
  ASSUME TypeOK, NEW c \in Clients, FitsOf(c), ServerOpenClient
  PROVE  FitsOf(c)'
<1>1. /\ spc = "open_client" /\ spc' = "reply" /\ cpc[req.pid] = "open_reply"
      /\ cpc' = [cpc EXCEPT ![req.pid] = "read"]
      /\ UNCHANGED <<req, queue, clen, cfifo, chan, granted>>
  BY DEF ServerOpenClient, fifoVars
<1>2. CASE req.pid = c
  <2>1. cpc'[c] = "read" /\ cpc[c] = "open_reply"
    BY <1>1, <1>2, QueueFacts
  <2>2. \A i \in 1 .. Len(queue) : queue[i].pid # c
    BY <1>1, <1>2 DEF FitsOf
  <2> QED BY <1>1, <1>2, <2>1, <2>2 DEF FitsOf
<1>3. CASE req.pid # c
  <2>1. cpc'[c] = cpc[c]
    BY <1>1, <1>3, QueueFacts
  <2> QED BY <1>1, <1>3, <2>1 DEF FitsOf
<1> QED BY <1>2, <1>3

\* The reply.
LEMMA FitsReply ==
  ASSUME TypeOK, PlacesInv, NEW c \in Clients, FitsOf(c), ServerReply
  PROVE  FitsOf(c)'
<1> DEFINE new == [pid |-> req.pid, from |-> seqNum, len |-> req.len, life |-> Life]
<1>1. /\ spc = "reply" /\ spc' = "close"
      /\ UNCHANGED <<req, queue, cpc, clen, cfifo>>
  BY DEF ServerReply, fifoVars
<1>2. CASE cpc[req.pid] # "read"
  <2>1. UNCHANGED <<chan, granted>>
    BY <1>2 DEF ServerReply
  <2> QED BY <1>1, <2>1 DEF FitsOf
<1>3. CASE cpc[req.pid] = "read"
  <2>1. chan' = [chan EXCEPT ![req.pid] = seqNum] /\ granted' = Append(granted, new)
    BY <1>3 DEF ServerReply
  <2>2. /\ Len(granted') = Len(granted) + 1
        /\ \A i \in 1 .. Len(granted) : granted'[i] = granted[i]
        /\ granted'[Len(granted) + 1] = new
    <3>1. granted \in Seq([pid : Clients, from : Nat, len : Lens, life : 0 .. MaxStarts])
      BY DEF TypeOK
    <3> HIDE DEF new
    <3> QED BY <2>1, <3>1
  <2>3. CASE req.pid = c
    <3>1. chan'[c] = seqNum /\ cpc[c] = "read" /\ req.len = clen[c]
      BY <1>1, <1>3, <2>1, <2>3, QueueFacts DEF FitsOf
    <3>2. Len(granted) + 1 \in 1 .. Len(granted')
      BY <2>2, QueueFacts
    <3>3. /\ granted'[Len(granted) + 1].pid = c /\ granted'[Len(granted) + 1].from = chan'[c]
          /\ granted'[Len(granted) + 1].len = clen'[c]
      BY <1>1, <2>2, <2>3, <3>1
    <3>4. \E i \in 1 .. Len(granted') : /\ granted'[i].pid = c /\ granted'[i].from = chan'[c]
                                        /\ granted'[i].len = clen'[c]
      BY <3>2, <3>3
    <3>5. \A i \in 1 .. Len(queue) : queue[i].pid # c
      BY <1>1, <2>3 DEF FitsOf
    <3> QED BY <1>1, <3>1, <3>4, <3>5 DEF FitsOf
  <2>4. CASE req.pid # c
    <3>1. chan'[c] = chan[c]
      BY <2>1, <2>4, QueueFacts
    <3>2. chan[c] # None =>
            \E i \in 1 .. Len(granted') : /\ granted'[i].pid = c /\ granted'[i].from = chan[c]
                                          /\ granted'[i].len = clen[c]
      <4> SUFFICES ASSUME chan[c] # None
                   PROVE  \E i \in 1 .. Len(granted') :
                             /\ granted'[i].pid = c /\ granted'[i].from = chan[c]
                             /\ granted'[i].len = clen[c]
        OBVIOUS
      <4>1. PICK i \in 1 .. Len(granted) : /\ granted[i].pid = c /\ granted[i].from = chan[c]
                                           /\ granted[i].len = clen[c]
        BY DEF FitsOf
      <4>2. i \in 1 .. Len(granted') /\ granted'[i] = granted[i]
        BY <2>2, QueueFacts
      <4> QED BY <4>1, <4>2
    <3> QED BY <1>1, <3>1, <3>2 DEF FitsOf
  <2> QED BY <2>3, <2>4
<1> QED BY <1>2, <1>3

\* The server's steps.
LEMMA FitsServer ==
  ASSUME TypeOK, PlacesInv, NEW c \in Clients, FitsOf(c),
         Server \/ KillServer \/ Terminate
  PROVE  FitsOf(c)'
<1>0. LoopTop \in {"read", "load", "test"}
  BY SeqnumAssumption DEF LoopTop, SeqnumAssumption, TypeOK
<1>1. CASE ServerRead
  BY <1>1, FitsRead
<1>2. CASE ServerOpenClient
  BY <1>2, FitsMeet
<1>3. CASE ServerReply
  BY <1>3, FitsReply
<1>4. CASE \/ ServerStart \/ ServerOpen \/ ServerArm \/ ServerTest \/ ServerLoad
           \/ ServerGiveUp \/ ServerAdd \/ ServerSave \/ KillServer \/ Terminate
  <2>1. UNCHANGED <<cpc, clen, cfifo, chan, granted, req>>
    BY <1>4 DEF ServerStart, ServerOpen, ServerArm, ServerTest, ServerLoad, ServerGiveUp,
                ServerAdd, ServerSave, KillServer, Terminate, cliVars
  <2>2. queue' = queue \/ queue' = <<>>
    BY <1>4 DEF ServerStart, ServerOpen, ServerArm, ServerTest, ServerLoad, ServerGiveUp,
                ServerAdd, ServerSave, KillServer, Terminate, fifoVars, CloseFifo
  <2>3. spc' = spc \/ spc' \notin {"open_client", "reply"}
    BY <1>0, <1>4 DEF ServerStart, ServerOpen, ServerArm, ServerTest, ServerLoad,
                ServerGiveUp, ServerAdd, ServerSave, KillServer, Terminate
  <2> QED BY <2>1, <2>2, <2>3, QueueLost, FitsQuiet
<1> QED BY <1>1, <1>2, <1>3, <1>4 DEF Server

\* Client c ends, or is killed.
LEMMA FitsEnds ==
  ASSUME TypeOK, NEW c \in Clients, FitsOf(c), NEW f, ClientEnds(c, f),
         c \in f \/ cpc[c] = "open_server"
                 \/ (cpc[c] = "read" /\ (chan[c] # None \/ ~(spc = "reply" /\ req.pid = c)))
  PROVE  FitsOf(c)'
<1>1. /\ cpc'[c] = "off" /\ chan'[c] = None /\ cfifo' = f
      /\ UNCHANGED <<spc, req, granted>>
      /\ queue' = queue \/ queue' = <<>>
  BY QueueFacts DEF ClientEnds, CloseFifo, srvVars
<1>2. \A i \in 1 .. Len(queue') : i \in 1 .. Len(queue) /\ queue'[i] = queue[i]
  BY <1>1, QueueLost
<1>3. CASE c \in f
  BY <1>1, <1>2, <1>3 DEF FitsOf
<1>4. CASE cpc[c] = "open_server"
  BY <1>1, <1>2, <1>4 DEF FitsOf
<1>5. CASE cpc[c] = "read" /\ (chan[c] # None \/ ~(spc = "reply" /\ req.pid = c))
  BY <1>1, <1>2, <1>5 DEF FitsOf
<1> QED BY <1>3, <1>4, <1>5

\* Another client ends, or is killed.
LEMMA FitsOtherEnds ==
  ASSUME TypeOK, NEW c \in Clients, FitsOf(c), NEW d \in Clients, c # d, NEW f,
         f = cfifo \/ f = cfifo \ {d}, ClientEnds(d, f)
  PROVE  FitsOf(c)'
<1>1. /\ cpc'[c] = cpc[c] /\ chan'[c] = chan[c] /\ clen'[c] = clen[c] /\ cfifo' = f
      /\ UNCHANGED <<spc, req, granted>>
      /\ queue' = queue \/ queue' = <<>>
  BY QueueFacts DEF ClientEnds, CloseFifo, srvVars
<1> QED BY <1>1, QueueLost, FitsQuiet

\* Client c's steps.
LEMMA FitsClient ==
  ASSUME TypeOK, NEW c \in Clients, FitsOf(c), c \notin bare',
         ClientStart(c) \/ Client(c) \/ KillClient(c)
  PROVE  FitsOf(c)'
<1>1. CASE ClientStart(c)
  <2>1. /\ cpc[c] = "off" /\ c \notin cfifo
        /\ cpc'[c] = "open_server"
        /\ UNCHANGED <<spc, req, queue, chan, granted>>
    BY <1>1, QueueFacts DEF ClientStart, srvVars, fifoVars
  <2>2. c \in cfifo'
    BY <1>1 DEF ClientStart
  <2>3. chan[c] = None /\ \A i \in 1 .. Len(queue) : queue[i].pid # c
    BY <2>1 DEF FitsOf
  <2>4. ~(spc \in {"open_client", "reply"} /\ req.pid = c)
    BY <2>1 DEF FitsOf
  <2> QED BY <2>1, <2>2, <2>3, <2>4 DEF FitsOf
<1>2. CASE ClientOpenServer(c)
  <2>1. CASE ClientEnds(c, cfifo \ {c})
    BY <1>2, <2>1, FitsEnds DEF ClientOpenServer
  <2>2. CASE ~ClientEnds(c, cfifo \ {c})
    <3>1. /\ cpc[c] = "open_server" /\ cpc'[c] = "write"
          /\ UNCHANGED <<spc, req, queue, clen, cfifo, chan, granted>>
      BY <1>2, <2>2, QueueFacts DEF ClientOpenServer, srvVars
    <3> QED BY <3>1 DEF FitsOf
  <2> QED BY <2>1, <2>2
<1>3. CASE ClientWrite(c)
  <2>0. cpc[c] = "write" /\ c \in cfifo /\ chan[c] = None
    BY <1>3 DEF ClientWrite, FitsOf
  <2>1. CASE ClientEnds(c, cfifo)
    BY <2>0, <2>1, FitsEnds
  <2>2. CASE ~ClientEnds(c, cfifo)
    <3> DEFINE r == [pid |-> c, len |-> clen[c]]
    <3>1. /\ cpc'[c] = "open_reply" /\ queue' = Append(queue, r)
          /\ UNCHANGED <<spc, req, clen, cfifo, chan, granted>>
      BY <1>3, <2>2, QueueFacts DEF ClientWrite, srvVars
    <3>2. r.pid = c /\ r.len = clen[c]
      OBVIOUS
    <3>3. /\ Len(queue') = Len(queue) + 1 /\ Len(queue) \in Nat
          /\ \A i \in 1 .. Len(queue) : queue'[i] = queue[i]
          /\ queue'[Len(queue) + 1] = r
      <4> HIDE DEF r
      <4> QED BY <3>1 DEF TypeOK
    <3> HIDE DEF r
    <3>4. \A i \in 1 .. Len(queue) : queue[i].pid # c
      BY <2>0 DEF FitsOf
    <3>5. \A i \in 1 .. Len(queue') : queue'[i].pid = c => i = Len(queue) + 1
      BY <3>3, <3>4
    <3>6. ~(spc \in {"open_client", "reply"} /\ req.pid = c)
      BY <2>0 DEF FitsOf
    <3> QED BY <2>0, <3>1, <3>2, <3>3, <3>5, <3>6 DEF FitsOf
  <2> QED BY <2>1, <2>2
<1>4. CASE ClientOpenReply(c)
  BY <1>4 DEF ClientOpenReply, FitsOf
<1>5. CASE ClientRead(c)
  BY <1>5, FitsEnds DEF ClientRead
<1>6. CASE KillClient(c)
  BY <1>6, FitsEnds DEF KillClient, FitsOf
<1> QED BY <1>1, <1>2, <1>3, <1>4, <1>5, <1>6 DEF Client

\* Another client's steps.
LEMMA FitsOther ==
  ASSUME TypeOK, NEW c \in Clients, FitsOf(c), NEW d \in Clients, c # d,
         ClientStart(d) \/ Client(d) \/ KillClient(d)
  PROVE  FitsOf(c)'
<1>1. CASE ClientStart(d)
  <2>1. /\ cpc'[c] = cpc[c] /\ clen'[c] = clen[c]
        /\ c \in cfifo => c \in cfifo'
        /\ UNCHANGED <<spc, req, queue, chan, granted>>
    BY <1>1, QueueFacts DEF ClientStart, srvVars, fifoVars
  <2> QED BY <2>1, FitsQuiet
<1>2. CASE ClientEnds(d, cfifo) \/ ClientEnds(d, cfifo \ {d})
  BY <1>2, FitsOtherEnds
<1>3. CASE /\ ClientOpenServer(d)
           /\ ~(ClientEnds(d, cfifo) \/ ClientEnds(d, cfifo \ {d}))
  <2>1. /\ cpc'[c] = cpc[c] /\ UNCHANGED <<spc, req, queue, clen, cfifo, chan, granted>>
    BY <1>3, QueueFacts DEF ClientOpenServer, srvVars
  <2> QED BY <2>1, FitsQuiet
<1>4. CASE /\ ClientWrite(d)
           /\ ~(ClientEnds(d, cfifo) \/ ClientEnds(d, cfifo \ {d}))
  <2> DEFINE r == [pid |-> d, len |-> clen[d]]
  <2>1. /\ cpc'[c] = cpc[c] /\ queue' = Append(queue, r)
        /\ UNCHANGED <<spc, req, clen, cfifo, chan, granted>>
    BY <1>4, QueueFacts DEF ClientWrite, srvVars
  <2>2. r.pid # c
    OBVIOUS
  <2>3. /\ Len(queue') = Len(queue) + 1 /\ Len(queue) \in Nat
        /\ \A i \in 1 .. Len(queue) : queue'[i] = queue[i]
        /\ queue'[Len(queue) + 1] = r
    <3> HIDE DEF r
    <3> QED BY <2>1 DEF TypeOK
  <2> HIDE DEF r
  <2>4. \A i \in 1 .. Len(queue') : queue'[i].pid = c =>
           i \in 1 .. Len(queue) /\ queue'[i] = queue[i]
    BY <2>2, <2>3
  <2> QED BY <2>1, <2>4, FitsQuiet
<1> QED BY <1>1, <1>2, <1>3, <1>4
        DEF Client, ClientOpenServer, ClientWrite, ClientOpenReply, ClientRead, KillClient

\* Every step.
LEMMA NextFit == ASSUME TypeOK, PlacesInv, FitInv, [Next]_vars PROVE FitInv'
<1> SUFFICES ASSUME NEW c \in Clients, c \notin bare' PROVE FitsOf(c)'
  BY DEF FitInv
<1>1. bare \subseteq bare'
  BY DEF Next, Server, ServerStart, ServerOpen, ServerArm, ServerTest, ServerLoad,
         ServerRead, ServerGiveUp, ServerOpenClient, ServerReply, ServerAdd, ServerSave,
         KillServer, Terminate, ClientStart, Client, ClientOpenServer, ClientWrite,
         ClientOpenReply, ClientRead, KillClient, ClientEnds, cliVars, vars
<1>2. FitsOf(c)
  BY <1>1 DEF FitInv
<1>3. CASE Server \/ KillServer \/ Terminate
  BY <1>2, <1>3, FitsServer
<1>4. ASSUME NEW d \in Clients, ClientStart(d) \/ Client(d) \/ KillClient(d)
      PROVE  FitsOf(c)'
  <2>1. CASE d = c
    BY <1>2, <1>4, <2>1, FitsClient
  <2>2. CASE d # c
    BY <1>2, <1>4, <2>2, FitsOther
  <2> QED BY <2>1, <2>2
<1>5. CASE UNCHANGED vars
  <2>1. UNCHANGED <<cpc, clen, cfifo, chan, queue, spc, req, granted>>
    BY <1>5 DEF vars, srvVars, fifoVars, cliVars
  <2> QED BY <1>2, <2>1, FitsQuiet
<1> QED BY <1>3, <1>4, <1>5 DEF Next

LEMMA InitFit == Init => FitInv
<1> SUFFICES ASSUME Init, NEW c \in Clients PROVE FitsOf(c)
  BY DEF FitInv
<1>1. Len(queue) = 0 /\ queue = <<>>
  BY DEF Init
<1> QED BY <1>1 DEF Init, FitsOf

\* A client that has a FIFO of its own gets the range reserved for what it
\* asked for, whatever was killed and whichever pids were used again: a killed
\* client's FIFO is left behind and its pid cannot run again.
THEOREM RepliesCorrect == Spec => []ReplyFitsRequest
<1>1. Init => GrantInv /\ FitInv
  BY InitGrant, InitFit
<1>2. (GrantInv /\ FitInv) /\ [Next]_vars => (GrantInv /\ FitInv)'
  BY NextGrant, NextFit DEF GrantInv
<1>3. FitInv => ReplyFitsRequest
  BY DEF FitInv, FitsOf, ReplyFitsRequest
<1> QED BY <1>1, <1>2, <1>3, PTL DEF Spec
----------------------------------------------------------------------------
(* The abstract service.                                                   *)

\* A client that is not running asks for nothing; no client that waits for
\* its reply, or is about to get it, has one already.
AskInv == \A c \in Clients :
            /\ cpc[c] = "off" => clen[c] = 0
            /\ cpc[c] # "read" => chan[c] = None
            /\ spc = "reply" /\ req.pid = c => chan[c] = None

LEMMA InitAsk == Init => AskInv
BY DEF Init, AskInv

LEMMA NextAsk == ASSUME TypeOK, PlacesInv, AskInv, [Next]_vars PROVE AskInv'
<1> SUFFICES ASSUME NEW c \in Clients
             PROVE  /\ cpc'[c] = "off" => clen'[c] = 0
                    /\ cpc'[c] # "read" => chan'[c] = None
                    /\ spc' = "reply" /\ req'.pid = c => chan'[c] = None
  BY DEF AskInv
<1>0. /\ cpc[c] = "off" => clen[c] = 0
      /\ cpc[c] # "read" => chan[c] = None
      /\ spc = "reply" /\ req.pid = c => chan[c] = None
  BY DEF AskInv
<1>1. LoopTop \in {"read", "load", "test"}
  BY SeqnumAssumption DEF LoopTop, SeqnumAssumption, TypeOK
<1>2. CASE ServerOpenClient
  <2>1. /\ cpc[req.pid] = "open_reply" /\ cpc' = [cpc EXCEPT ![req.pid] = "read"]
        /\ UNCHANGED <<req, clen, chan>>
    BY <1>2 DEF ServerOpenClient
  <2>2. CASE req.pid = c
    BY <1>0, <2>1, <2>2, QueueFacts
  <2>3. CASE req.pid # c
    <3>1. cpc'[c] = cpc[c]
      BY <2>1, <2>3, QueueFacts
    <3> QED BY <1>0, <2>1, <2>3, <3>1
  <2> QED BY <2>2, <2>3
<1>3. CASE ServerReply
  <2>1. spc' = "close" /\ UNCHANGED <<cpc, clen>>
    BY <1>3 DEF ServerReply
  <2>2. cpc[c] # "read" => chan'[c] = chan[c]
    BY <1>3, QueueFacts DEF ServerReply
  <2> QED BY <1>0, <2>1, <2>2
<1>4. CASE \/ ServerStart \/ ServerOpen \/ ServerArm \/ ServerTest \/ ServerLoad
           \/ ServerRead \/ ServerGiveUp \/ ServerAdd \/ ServerSave
           \/ KillServer \/ Terminate
  <2>1. UNCHANGED <<cpc, clen, chan>>
    BY <1>4 DEF ServerStart, ServerOpen, ServerArm, ServerTest, ServerLoad, ServerRead,
                ServerGiveUp, ServerAdd, ServerSave, KillServer, Terminate, cliVars
  <2>2. spc' = "reply" => spc = "reply" /\ req' = req
    BY <1>1, <1>4
       DEF ServerStart, ServerOpen, ServerArm, ServerTest, ServerLoad, ServerRead,
           ServerGiveUp, ServerAdd, ServerSave, KillServer, Terminate
  <2> QED BY <1>0, <2>1, <2>2
<1>5. ASSUME NEW d \in Clients, ClientStart(d) \/ Client(d) \/ KillClient(d)
      PROVE  /\ cpc'[c] = "off" => clen'[c] = 0
             /\ cpc'[c] # "read" => chan'[c] = None
             /\ spc' = "reply" /\ req'.pid = c => chan'[c] = None
  <2>1. UNCHANGED <<spc, req>>
    BY <1>5 DEF ClientStart, Client, ClientOpenServer, ClientWrite, ClientOpenReply,
                ClientRead, KillClient, ClientEnds, srvVars
  <2>2. \/ /\ cpc' = [cpc EXCEPT ![d] = "off"] /\ clen' = [clen EXCEPT ![d] = 0]
           /\ chan' = [chan EXCEPT ![d] = None]
        \/ /\ cpc[d] # "read" /\ chan' = chan
           /\ \E p \in {"open_server", "write", "open_reply"} :
                cpc' = [cpc EXCEPT ![d] = p]
           /\ clen' = clen \/ \E n \in Lens : clen' = [clen EXCEPT ![d] = n]
    BY <1>5 DEF ClientStart, Client, ClientOpenServer, ClientWrite, ClientOpenReply,
                ClientRead, KillClient, ClientEnds
  <2>3. CASE d = c
    BY <1>0, <2>1, <2>2, <2>3, QueueFacts
  <2>4. CASE d # c
    <3>1. \/ cpc'[c] = cpc[c] /\ clen'[c] = clen[c] /\ chan'[c] = chan[c]
      BY <2>2, <2>4, QueueFacts
    <3> QED BY <1>0, <2>1, <3>1
  <2> QED BY <2>3, <2>4
<1>6. CASE UNCHANGED vars
  BY <1>0, <1>6 DEF vars, srvVars, cliVars
<1> QED BY <1>2, <1>3, <1>4, <1>5, <1>6 DEF Next, Server

\* What the service sees of a step.
ServiceView == <<clen, chan, granted, server, starts, unsaved, bare>>

LEMMA ServiceStutter == UNCHANGED ServiceView => UNCHANGED Service!vars
BY DEF ServiceView, Service!vars, InLife, Life

\* All that was sent in this life is typed.
LEMMA SentFacts ==
  ASSUME TypeOK
  PROVE  \A i \in 1 .. Len(granted) :
           granted[i] \in [pid : Clients, from : Nat, len : Lens, life : 0 .. MaxStarts]
<1> DEFINE Sent == [pid : Clients, from : Nat, len : Lens, life : 0 .. MaxStarts]
<1>1. granted \in Seq(Sent)
  BY DEF TypeOK
<1> HIDE DEF Sent
<1>2. \A i \in 1 .. Len(granted) : granted[i] \in Sent
  BY <1>1
<1> QED BY <1>2 DEF Sent

\* The reply gives the client a range above all that were given.
LEMMA ReplyGives ==
  ASSUME GrantInv, FitInv, AskInv, ServerReply
  PROVE  UNCHANGED Service!vars \/ \E c \in Clients : Service!Give(c)
<1>1. /\ spc = "reply" /\ TypeOK /\ PlacesInv /\ NextInv
      /\ UNCHANGED <<server, req, cpc, clen, bare, unsaved, starts>>
  BY DEF ServerReply, GrantInv, bounds
<1>2. CASE cpc[req.pid] # "read"
  <2>1. UNCHANGED ServiceView
    BY <1>1, <1>2 DEF ServerReply, ServiceView
  <2> QED BY <2>1, ServiceStutter
<1>3. CASE cpc[req.pid] = "read"
  <2> DEFINE c == req.pid
             new == [pid |-> req.pid, from |-> seqNum, len |-> req.len, life |-> Life]
             r == [from |-> seqNum, len |-> req.len]
  <2>1. c \in Clients /\ req.len \in Lens /\ seqNum \in Nat
    BY <1>1 DEF PlacesInv, Request, TypeOK
  <2>2. clen[c] # 0 /\ chan[c] = None
    <3>1. clen[c] \in Lens /\ chan[c] = None
      BY <1>1, <1>3, <2>1 DEF PlacesInv, AskInv
    <3> QED BY <3>1, SeqnumAssumption DEF SeqnumAssumption
  <2>3. c \in bare \/ r.len = clen[c]
    BY <1>1, <1>3, <2>1 DEF FitInv, FitsOf
  <2>4. r \in Service!Ranges
    BY <2>1 DEF Service!Ranges
  <2>5. chan' = [chan EXCEPT ![c] = r.from] /\ granted' = Append(granted, new)
    BY <1>3 DEF ServerReply
  <2>6. /\ Len(granted) \in Nat /\ Len(granted') = Len(granted) + 1
        /\ \A i \in 1 .. Len(granted) : granted'[i] = granted[i]
        /\ granted'[Len(granted) + 1] = new
    <3>1. granted \in Seq([pid : Clients, from : Nat, len : Lens, life : 0 .. MaxStarts])
      BY <1>1 DEF TypeOK
    <3> HIDE DEF new
    <3> QED BY <2>5, <3>1
  <2>7. InLife' = InLife \cup {r}
    <3>1. Life' = Life
      BY <1>1 DEF Life
    <3>2. ASSUME NEW s \in InLife' PROVE s \in InLife \cup {r}
      <4>1. PICK i \in 1 .. Len(granted') :
              granted'[i].life = Life /\ s = [from |-> granted'[i].from,
                                              len |-> granted'[i].len]
        BY <3>1, <3>2 DEF InLife
      <4>2. CASE i = Len(granted) + 1
        BY <2>6, <4>1, <4>2
      <4>3. CASE i # Len(granted) + 1
        <5>1. i \in 1 .. Len(granted)
          BY <2>6, <4>3
        <5> QED BY <2>6, <4>1, <5>1 DEF InLife
      <4> QED BY <4>2, <4>3
    <3>3. ASSUME NEW s \in InLife PROVE s \in InLife'
      <4>1. PICK i \in 1 .. Len(granted) :
              granted[i].life = Life /\ s = [from |-> granted[i].from,
                                             len |-> granted[i].len]
        BY DEF InLife
      <4>2. i \in 1 .. Len(granted') /\ granted'[i] = granted[i]
        BY <2>6
      <4> QED BY <3>1, <4>1, <4>2 DEF InLife
    <3>4. r \in InLife'
      <4>1. Len(granted) + 1 \in 1 .. Len(granted')
        BY <2>6
      <4>2. /\ granted'[Len(granted) + 1].life = Life
            /\ r = [from |-> granted'[Len(granted) + 1].from,
                    len |-> granted'[Len(granted) + 1].len]
        BY <2>6
      <4> HIDE DEF r, new
      <4> QED BY <3>1, <4>1, <4>2 DEF InLife
    <3> HIDE DEF r
    <3> QED BY <3>2, <3>3, <3>4
  <2>8. Service!Fresh(r)
    <3> SUFFICES ASSUME ~unsaved, NEW s \in InLife PROVE s.from + s.len <= r.from
      BY DEF Service!Fresh
    <3>1. PICK i \in 1 .. Len(granted) :
            granted[i].life = Life /\ s = [from |-> granted[i].from,
                                           len |-> granted[i].len]
      BY DEF InLife
    <3>2. Below(seqNum)
      BY <1>1 DEF NextInv
    <3> QED BY <3>1, <3>2 DEF Below
  <2>9. r \in InLife' /\ UNCHANGED <<clen, server = "saved", unsaved, bare>>
    BY <1>1, <2>7
  <2>10. Service!Give(c)
    <3> HIDE DEF r, c
    <3> QED BY <2>2, <2>3, <2>4, <2>5, <2>7, <2>8, <2>9 DEF Service!Give
  <2> QED BY <2>1, <2>10
<1> QED BY <1>2, <1>3

\* A server that starts anew has sent nothing in its life.
LEMMA StartForgets ==
  ASSUME GrantInv, ServerStart
  PROVE  UNCHANGED Service!vars \/ Service!Forget
<1>1. /\ starts' = starts + 1 /\ starts \in Nat /\ NextInv
      /\ UNCHANGED <<server, clen, chan, granted, unsaved, bare>>
  BY DEF ServerStart, GrantInv, TypeOK, cliVars
<1>2. CASE server = "saved"
  BY <1>1, <1>2 DEF Service!vars, InLife, Life
<1>3. CASE server # "saved"
  <2>1. \A i \in 1 .. Len(granted) : granted[i].life # starts + 1
    <3> SUFFICES ASSUME NEW i \in 1 .. Len(granted) PROVE granted[i].life # starts + 1
      OBVIOUS
    <3>1. granted[i].life <= starts
      BY <1>1 DEF NextInv
    <3> QED BY <1>1, <3>1
  <2>2. InLife' = {}
    BY <1>1, <1>3, <2>1 DEF InLife, Life
  <2> QED BY <1>1, <1>3, <2>2 DEF Service!Forget
<1> QED BY <1>2, <1>3

\* A client asks when it starts and leaves when it ends.
LEMMA ClientAsks ==
  ASSUME TypeOK, PlacesInv, AskInv, NEW c \in Clients,
         ClientStart(c) \/ Client(c) \/ KillClient(c)
  PROVE  UNCHANGED Service!vars \/ Service!Ask(c) \/ Service!Leave(c)
<1>1. UNCHANGED <<server, granted, unsaved, starts>>
  BY DEF ClientStart, Client, ClientOpenServer, ClientWrite, ClientOpenReply,
         ClientRead, KillClient, ClientEnds, srvVars, bounds
<1>2. InLife' = InLife
  BY <1>1 DEF InLife, Life
<1>3. CASE ClientStart(c)
  <2>1. /\ clen[c] = 0 /\ chan' = chan
        /\ \E n \in Lens : clen' = [clen EXCEPT ![c] = n]
        /\ bare' \in {bare, bare \cup {c}}
    BY <1>3 DEF ClientStart, AskInv
  <2> QED BY <1>1, <1>2, <2>1 DEF Service!Ask
<1>4. CASE Client(c) \/ KillClient(c)
  <2>1. /\ cpc[c] # "off"
        /\ \/ UNCHANGED <<clen, chan, bare>>
           \/ /\ clen' = [clen EXCEPT ![c] = 0] /\ chan' = [chan EXCEPT ![c] = None]
              /\ bare' = bare
    BY <1>4 DEF Client, ClientOpenServer, ClientWrite, ClientOpenReply, ClientRead,
                KillClient, ClientEnds
  <2>2. clen[c] # 0
    BY <2>1, SeqnumAssumption DEF PlacesInv, SeqnumAssumption
  <2> QED BY <1>1, <1>2, <2>1, <2>2 DEF Service!Leave, Service!vars
<1> QED BY <1>3, <1>4

\* A server killed before set_seq_num loses count.
LEMMA KillLoses ==
  ASSUME TypeOK, KillServer
  PROVE  UNCHANGED Service!vars \/ Service!Lose
<1>1. /\ UNCHANGED <<clen, chan, granted, server, starts, bare>>
      /\ unsaved' = (unsaved \/ (server = "saved" /\ spc \in {"close", "save"}))
      /\ unsaved \in BOOLEAN
  BY DEF KillServer, cliVars, TypeOK
<1>2. InLife' = InLife
  BY <1>1 DEF InLife, Life
<1>3. unsaved' = unsaved \/ (server = "saved" /\ unsaved' = TRUE)
  BY <1>1
<1> QED BY <1>1, <1>2, <1>3 DEF Service!Lose, Service!vars

\* Every step is a step of the service or none.
LEMMA ServiceStep ==
  ASSUME GrantInv, FitInv, AskInv, [Next]_vars
  PROVE  [Service!Next]_(Service!vars)
<1>0. TypeOK /\ PlacesInv
  BY DEF GrantInv
<1>1. CASE ServerReply
  BY <1>1, ReplyGives DEF Service!Next
<1>2. CASE ServerStart
  BY <1>2, StartForgets DEF Service!Next
<1>3. CASE \/ ServerOpen \/ ServerArm \/ ServerTest \/ ServerLoad \/ ServerRead
           \/ ServerGiveUp \/ ServerOpenClient \/ ServerAdd \/ ServerSave \/ Terminate
  <2>1. UNCHANGED ServiceView
    BY <1>3 DEF ServerOpen, ServerArm, ServerTest, ServerLoad, ServerRead, ServerGiveUp,
                ServerOpenClient, ServerAdd, ServerSave, Terminate, cliVars, bounds,
                ServiceView
  <2> QED BY <2>1, ServiceStutter
<1>4. CASE KillServer
  BY <1>0, <1>4, KillLoses DEF Service!Next
<1>5. ASSUME NEW c \in Clients, ClientStart(c) \/ Client(c) \/ KillClient(c)
      PROVE  [Service!Next]_(Service!vars)
  BY <1>0, <1>5, ClientAsks DEF Service!Next
<1>6. CASE UNCHANGED vars
  <2>1. UNCHANGED ServiceView
    BY <1>6 DEF vars, srvVars, cliVars, bounds, ServiceView
  <2> QED BY <2>1, ServiceStutter
<1> QED BY <1>1, <1>2, <1>3, <1>4, <1>5, <1>6 DEF Next, Server

LEMMA ServiceInit == Init => Service!Init
<1> SUFFICES ASSUME Init PROVE Service!Init
  OBVIOUS
<1>1. InLife = {}
  <2>1. 1 .. Len(granted) = {}
    BY DEF Init
  <2> QED BY <2>1 DEF InLife
<1> QED BY <1>1 DEF Init, Service!Init

\* The three servers implement the abstract service: each client is answered
\* at most once, with a range of the length it asked for that lies above all
\* ranges sent before; a server with a backup file never begins again.
THEOREM ServiceCorrect == Spec => ImplementsNumberService
<1> DEFINE Inv == GrantInv /\ FitInv /\ AskInv
<1>1. Init => Inv
  BY InitGrant, InitFit, InitAsk
<1>2. Inv /\ [Next]_vars => Inv'
  BY NextGrant, NextFit, NextAsk DEF GrantInv
<1>3. Inv /\ [Next]_vars => [Service!Next]_(Service!vars)
  BY ServiceStep
<1> HIDE DEF Inv
<1> QED BY <1>1, <1>2, <1>3, ServiceInit, PTL DEF Spec, ImplementsNumberService, Service!Spec
=============================================================================
