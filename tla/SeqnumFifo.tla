----------------------------- MODULE SeqnumFifo -----------------------------
(***************************************************************************)
(* The sequence-number service over FIFOs: pipes/fifo_seqnum_client.c and  *)
(* its three servers,                                                      *)
(*                                                                         *)
(*   plain   pipes/fifo_seqnum_server.c   numbers from 0 in every life     *)
(*   saved   exercises/44_03.c            the number is kept in a file     *)
(*   term    exercises/44_04.c            ends on SIGINT or SIGTERM        *)
(*                                                                         *)
(* A client is named by its pid; a pid can be used again.  The names of    *)
(* the FIFOs stay in the file system when a process is killed.  One server *)
(* runs at a time; PIPE_BUF keeps requests whole and the pipes are never   *)
(* full.                                                                   *)
(***************************************************************************)
EXTENDS Integers, Sequences, FiniteSets

CONSTANTS Clients,     \* pids
          Lens,        \* the lengths clients ask for
          Servers,     \* the servers to run, of "plain", "saved", "term"
          MaxRuns,     \* bound: clients run
          MaxStarts,   \* bound: times the server is started
          MaxKills,    \* bound: processes killed
          MaxSignals,  \* bound: SIGINTs and SIGTERMs sent to the server
          MaxBare      \* bound: pids run without a FIFO of their own

ASSUME SeqnumAssumption == /\ Servers \subseteq {"plain", "saved", "term"}
                           /\ Lens \subseteq Nat \ {0}
                           /\ {MaxRuns, MaxStarts, MaxKills, MaxSignals, MaxBare} \subseteq Nat

None == -1             \* no backup file, no reply

VARIABLES server,      \* the server program
          spc,         \* its place
          seqNum, req, \* its seq_num, the request being served
          termed,      \* got_sig_term
          saved,       \* the number in SEQNUM_NO_FILE
          named,       \* the name SERVER_FIFO exists
          queue,       \* the requests in that FIFO
          attached,    \* the clients that have it open for writing
          cpc, clen,   \* the clients' places and seq_len
          cfifo,       \* the clients whose FIFO exists
          chan,        \* the reply in each client's FIFO
          bare,        \* history: pids that ran without a FIFO of their own
          granted,     \* history: the ranges sent
          unsaved,     \* history: a server was killed before it saved
          runs, starts, kills, signals

srvVars  == <<spc, seqNum, req, termed, saved>>
fifoVars == <<named, queue, attached>>
cliVars  == <<cpc, clen, cfifo, chan, bare>>
bounds   == <<runs, starts, kills, signals>>
vars     == <<server, srvVars, fifoVars, cliVars, granted, unsaved, bounds>>

Init == /\ server \in Servers
        /\ spc = "off" /\ seqNum = 0 /\ req = [pid |-> None, len |-> 0]
        /\ termed = FALSE /\ saved = None
        /\ named = FALSE /\ queue = <<>> /\ attached = {}
        /\ cpc = [c \in Clients |-> "off"] /\ clen = [c \in Clients |-> 0]
        /\ cfifo = {} /\ chan = [c \in Clients |-> None] /\ bare = {}
        /\ granted = <<>> /\ unsaved = FALSE
        /\ runs = 0 /\ starts = 0 /\ kills = 0 /\ signals = 0

\* The server has its FIFO open, for reading and (dummy_fd) for writing.
Reading == spc \notin {"off", "open"}

\* What a pipe holds is gone when the last descriptor on it is closed.
CloseFifo(reading, open) == /\ attached' = open
                            /\ queue' = IF reading \/ open # {} THEN queue ELSE <<>>

----------------------------------------------------------------------------
(* The server.                                                             *)

\* mkfifo takes over a FIFO left behind; after an unlink it is a new one,
\* and clients still holding the old one are cut off.
ServerStart == /\ spc = "off" /\ starts < MaxStarts
               /\ spc' = "open"
               /\ seqNum' = 0 /\ termed' = FALSE
               /\ named' = TRUE
               /\ attached' = IF named THEN attached ELSE {}
               /\ queue' = IF named THEN queue ELSE <<>>
               /\ starts' = starts + 1
               /\ UNCHANGED <<server, req, saved, cliVars, granted, unsaved, runs, kills,
                              signals>>

\* What the numbers are counted in: a life of the server, or the file.
Life == IF server = "saved" THEN 0 ELSE starts

LoopTop == CASE server = "plain" -> "read"
             [] server = "saved" -> "load"
             [] server = "term"  -> "test"

\* The open for reading returns once some client has the other end.
ServerOpen == /\ spc = "open"
              /\ attached # {} \/ \E c \in Clients : cpc[c] = "open_server"
              /\ spc' = IF server = "term" THEN "arm" ELSE LoopTop
              /\ UNCHANGED <<server, seqNum, req, termed, saved, fifoVars, cliVars,
                             granted, unsaved, bounds>>

\* sigaction for SIGINT and SIGTERM.
ServerArm == /\ spc = "arm"
             /\ spc' = "test"
             /\ UNCHANGED <<server, seqNum, req, termed, saved, fifoVars, cliVars,
                            granted, unsaved, bounds>>

\* Faulty: the condition of the loop is the wrong way round.
ServerTestInverted ==
  /\ spc = "test"
  /\ spc' = IF termed THEN "read" ELSE "off"
  /\ IF termed THEN UNCHANGED <<attached, queue>> ELSE CloseFifo(FALSE, attached)
  /\ UNCHANGED <<server, seqNum, req, termed, saved, named, cliVars, granted, unsaved,
                 bounds>>

\* for (; !got_sig_term; )
ServerTest == /\ spc = "test"
              /\ spc' = IF termed THEN "off" ELSE "read"
              /\ CloseFifo(~termed, attached)
              /\ UNCHANGED <<server, seqNum, req, termed, saved, named, cliVars,
                             granted, unsaved, bounds>>

\* get_seq_num hands atoi a buffer with no terminator: four bytes written for
\* a new file supply one until the number has four digits; after that atoi
\* may find more digits behind it.
Atoi(n) == IF n < 1000 THEN {n} ELSE {n} \cup {10 * n + d : d \in {0, 9}}

\* Faulty: a missing file is not taken for zero.
ServerLoadUnset == /\ spc = "load"
                   /\ seqNum' = saved
                   /\ spc' = "read"
                   /\ UNCHANGED <<server, req, termed, saved, fifoVars, cliVars,
                                  granted, unsaved, bounds>>

ServerLoad == /\ spc = "load"
              /\ seqNum' \in IF saved = None THEN {0} ELSE Atoi(saved)
              /\ saved' = IF saved = None THEN 0 ELSE saved
              /\ spc' = "read"
              /\ UNCHANGED <<server, req, termed, fifoVars, cliVars, granted, unsaved,
                             bounds>>

\* With the dummy descriptor open an empty FIFO blocks, it is never at EOF.
ServerRead == /\ spc = "read" /\ queue # <<>>
              /\ req' = Head(queue)
              /\ queue' = Tail(queue)
              /\ spc' = "open_client"
              /\ UNCHANGED <<server, seqNum, termed, saved, named, attached, cliVars,
                             granted, unsaved, bounds>>

\* "Open failed, give up on client".
ServerGiveUp == /\ spc = "open_client" /\ req.pid \notin cfifo
                /\ spc' = LoopTop
                /\ UNCHANGED <<server, seqNum, req, termed, saved, fifoVars, cliVars,
                               granted, unsaved, bounds>>

\* The server's open for writing and the client's for reading meet.
ServerOpenClient ==
  /\ spc = "open_client" /\ req.pid \in cfifo
  /\ cpc[req.pid] = "open_reply"
  /\ spc' = "reply"
  /\ cpc' = [cpc EXCEPT ![req.pid] = "read"]
  /\ UNCHANGED <<server, seqNum, req, termed, saved, fifoVars, clen, cfifo, chan, bare,
                 granted, unsaved, bounds>>

\* The write; it fails (SIGPIPE is ignored) when the client is gone.
ServerReply ==
  /\ spc = "reply"
  /\ spc' = "close"
  /\ IF cpc[req.pid] = "read"
     THEN /\ chan' = [chan EXCEPT ![req.pid] = seqNum]
          /\ granted' = Append(granted, [pid |-> req.pid, from |-> seqNum,
                                         len |-> req.len, life |-> Life])
     ELSE UNCHANGED <<chan, granted>>
  /\ UNCHANGED <<server, seqNum, req, termed, saved, fifoVars, cpc, clen, cfifo,
                 bare, unsaved, bounds>>

\* Faulty: counts requests instead of numbers.
ServerAddOne == /\ spc = "close"
                /\ seqNum' = seqNum + 1
                /\ spc' = IF server = "saved" THEN "save" ELSE LoopTop
                /\ UNCHANGED <<server, req, termed, saved, fifoVars, cliVars, granted,
                               unsaved, bounds>>

\* close, seq_num += req.seq_len: also when the write failed.
ServerAdd == /\ spc = "close"
             /\ seqNum' = seqNum + req.len
             /\ spc' = IF server = "saved" THEN "save" ELSE LoopTop
             /\ UNCHANGED <<server, req, termed, saved, fifoVars, cliVars, granted,
                            unsaved, bounds>>

\* set_seq_num.
ServerSave == /\ spc = "save"
              /\ saved' = seqNum
              /\ spc' = LoopTop
              /\ UNCHANGED <<server, seqNum, req, termed, fifoVars, cliVars, granted,
                             unsaved, bounds>>

Server == \/ ServerStart \/ ServerOpen \/ ServerArm \/ ServerTest \/ ServerLoad
          \/ ServerRead \/ ServerGiveUp \/ ServerOpenClient \/ ServerReply
          \/ ServerAdd \/ ServerSave

----------------------------------------------------------------------------
(* The clients.                                                            *)

\* Faulty: a FIFO of that name is used, whoever made it.
ClientStartReuses(c) ==
  /\ cpc[c] = "off" /\ runs < MaxRuns
  /\ cpc' = [cpc EXCEPT ![c] = "open_server"]
  /\ \E n \in Lens : clen' = [clen EXCEPT ![c] = n]
  /\ cfifo' = cfifo \cup {c}
  /\ runs' = runs + 1
  /\ UNCHANGED <<server, srvVars, fifoVars, chan, bare, granted, unsaved, starts, kills,
                 signals>>

\* mkfifo, "before sending request, to avoid a race": a FIFO left behind
\* under this pid is an error exit, before atexit would remove it.  After any
\* other error of mkfifo the client runs on without a FIFO.
ClientStart(c) ==
  /\ cpc[c] = "off" /\ runs < MaxRuns
  /\ c \notin cfifo
  /\ cpc' = [cpc EXCEPT ![c] = "open_server"]
  /\ \E n \in Lens : clen' = [clen EXCEPT ![c] = n]
  /\ \/ cfifo' = cfifo \cup {c} /\ UNCHANGED bare
     \/ /\ Cardinality(bare) < MaxBare
        /\ bare' = bare \cup {c} /\ UNCHANGED cfifo
  /\ runs' = runs + 1
  /\ UNCHANGED <<server, srvVars, fifoVars, chan, granted, unsaved, starts, kills,
                 signals>>

\* A process ends: by exit, which runs remove_fifo, or by a signal.
ClientEnds(c, fifos) == /\ cpc' = [cpc EXCEPT ![c] = "off"]
                        /\ clen' = [clen EXCEPT ![c] = 0]
                        /\ chan' = [chan EXCEPT ![c] = None]
                        /\ cfifo' = fifos
                        /\ CloseFifo(Reading, attached \ {c})
                        /\ UNCHANGED <<server, srvVars, named, bare, granted, unsaved>>

\* Without the name it is an error exit; without a reader the open blocks.
ClientOpenServer(c) ==
  /\ cpc[c] = "open_server"
  /\ \/ /\ ~named
        /\ ClientEnds(c, cfifo \ {c})
     \/ /\ named /\ Reading
        /\ cpc' = [cpc EXCEPT ![c] = "write"]
        /\ attached' = attached \cup {c}
        /\ UNCHANGED <<server, srvVars, named, queue, clen, cfifo, chan, bare,
                       granted, unsaved>>
  /\ UNCHANGED bounds

\* The server may have died since: SIGPIPE.
ClientWrite(c) ==
  /\ cpc[c] = "write"
  /\ \/ /\ Reading /\ c \in attached
        /\ queue' = Append(queue, [pid |-> c, len |-> clen[c]])
        /\ cpc' = [cpc EXCEPT ![c] = "open_reply"]
        /\ UNCHANGED <<server, srvVars, named, attached, clen, cfifo, chan, bare,
                       granted, unsaved>>
     \/ /\ ~Reading \/ c \notin attached
        /\ ClientEnds(c, cfifo)
  /\ UNCHANGED bounds

\* Opening its FIFO is part of ServerOpenClient; without one, error exit.
ClientOpenReply(c) ==
  /\ cpc[c] = "open_reply" /\ c \notin cfifo
  /\ ClientEnds(c, cfifo)
  /\ UNCHANGED bounds

\* The reply, or end of file when the server has closed without one.
ClientRead(c) ==
  /\ cpc[c] = "read"
  /\ chan[c] # None \/ ~(spc \in {"reply", "close"} /\ req.pid = c)
  /\ ClientEnds(c, cfifo \ {c})
  /\ UNCHANGED bounds

Client(c) == \/ ClientOpenServer(c) \/ ClientWrite(c) \/ ClientOpenReply(c)
             \/ ClientRead(c)

----------------------------------------------------------------------------
(* Signals.                                                                *)

KillServer == /\ spc # "off" /\ kills < MaxKills
              /\ spc' = "off"
              /\ unsaved' = (unsaved \/ (server = "saved" /\ spc \in {"close", "save"}))
              /\ CloseFifo(FALSE, attached)
              /\ kills' = kills + 1
              /\ UNCHANGED <<server, seqNum, req, termed, saved, named, cliVars, granted,
                             runs, starts, signals>>

KillClient(c) == /\ cpc[c] # "off" /\ kills < MaxKills
                 /\ ClientEnds(c, cfifo)
                 /\ kills' = kills + 1
                 /\ UNCHANGED <<runs, starts, signals>>

\* SIGINT or SIGTERM to 44_04.  Before sigaction it kills; later the handler
\* sets the flag and unlinks the name, and a blocked read() or open() returns
\* with EINTR to the loop's test, if the process was already blocked in it.
Terminate ==
  /\ server = "term" /\ spc # "off" /\ signals < MaxSignals
  /\ signals' = signals + 1
  /\ \/ /\ spc \in {"open", "arm"}
        /\ spc' = "off"
        /\ CloseFifo(FALSE, attached)
        /\ UNCHANGED <<termed, named>>
     \/ /\ spc \notin {"open", "arm"}
        /\ termed' = TRUE /\ named' = FALSE
        /\ \/ spc' = spc
           \/ /\ \/ spc = "read" /\ queue = <<>>
                 \/ spc = "open_client" /\ req.pid \in cfifo
              /\ spc' = "test"
        /\ UNCHANGED <<attached, queue>>
  /\ UNCHANGED <<server, seqNum, req, saved, cliVars, granted, unsaved, runs, starts,
                 kills>>

Next == \/ Server
        \/ \E c \in Clients : ClientStart(c) \/ Client(c) \/ KillClient(c)
        \/ KillServer
        \/ Terminate

\* The server is started and scheduled, and so is each client that was run.
Fairness == WF_vars(Server) /\ \A c \in Clients : WF_vars(Client(c))

Spec == Init /\ [][Next]_vars /\ Fairness

----------------------------------------------------------------------------
Request == [pid : Clients, len : Lens]

TypeOK ==
  /\ server \in Servers
  /\ spc \in {"off", "open", "arm", "test", "load", "read", "open_client", "reply",
              "close", "save"}
  /\ seqNum \in Nat /\ termed \in BOOLEAN /\ saved \in Nat \cup {None}
  /\ req \in Request \cup {[pid |-> None, len |-> 0]}
  /\ named \in BOOLEAN /\ queue \in Seq(Request) /\ attached \subseteq Clients
  /\ cpc \in [Clients -> {"off", "open_server", "write", "open_reply", "read"}]
  /\ clen \in [Clients -> Lens \cup {0}] /\ cfifo \subseteq Clients
  /\ chan \in [Clients -> Nat \cup {None}] /\ bare \subseteq Clients
  /\ granted \in Seq([pid : Clients, from : Nat, len : Lens, life : 0 .. MaxStarts])
  /\ unsaved \in BOOLEAN
  /\ runs \in 0 .. MaxRuns /\ starts \in 0 .. MaxStarts
  /\ kills \in 0 .. MaxKills /\ signals \in 0 .. MaxSignals

\* No number is given to two clients: the ranges sent do not overlap, in one
\* life of the server, or with a backup file in all of them, unless a server
\* was killed between its reply and set_seq_num.
NumbersAreUnique ==
  ~unsaved => \A i, j \in 1 .. Len(granted) :
                 i < j /\ granted[i].life = granted[j].life =>
                    granted[i].from + granted[i].len <= granted[j].from

\* Where the next number is kept between two requests, and that all numbers
\* sent are below it.
Stored == IF saved = None THEN 0 ELSE saved
Below(n) == \A i \in 1 .. Len(granted) :
              granted[i].life = Life => granted[i].from + granted[i].len <= n

PlacesInv == /\ server = "saved" => spc \notin {"arm", "test"}
             /\ server # "saved" => spc \notin {"load", "save"}
             /\ spc \in {"open_client", "reply", "close"} => req \in Request
             /\ \A c \in Clients : cpc[c] # "off" => clen[c] \in Lens

NextInv == /\ \A i \in 1 .. Len(granted) : granted[i].life <= starts
           /\ ~unsaved =>
                /\ spc \in {"read", "open_client", "reply", "save"} => Below(seqNum)
                /\ spc = "close" => Below(seqNum + req.len)
                /\ server = "saved" =>
                     /\ spc \in {"off", "open", "load"} => Below(Stored)
                     /\ spc \in {"read", "open_client", "reply"} =>
                          Below(Stored) /\ Stored <= seqNum
                /\ server # "saved" /\ spc \in {"open", "arm", "test"} => Below(seqNum)

\* The inductive invariant: why no number is given twice.
GrantInv == TypeOK /\ PlacesInv /\ NextInv /\ NumbersAreUnique

\* A client gets the range reserved for what it asked for: a request left
\* behind by a killed client is never answered to a later one with its pid.
\* (It may be when the earlier one ran on without a FIFO.)
ReplyFitsRequest ==
  \A c \in Clients \ bare : chan[c] # None =>
     \E i \in 1 .. Len(granted) :
        granted[i].pid = c /\ granted[i].from = chan[c] /\ granted[i].len = clen[c]

\* The ranges sent in this life.
InLife == {[from |-> granted[i].from, len |-> granted[i].len] :
             i \in {j \in 1 .. Len(granted) : granted[j].life = Life}}

Service == INSTANCE NumberService
             WITH asked <- clen, reply <- chan, given <- InLife,
                  keeps <- (server = "saved"), lost <- unsaved, loose <- bare

\* The three servers implement the abstract service: a client is answered
\* once, with numbers above all that were sent in this life or, with the file,
\* in any.
ImplementsNumberService == Service!Spec

Undisturbed == kills = 0 /\ signals = 0

\* Without kills and signals every client is served, or turned away if it has
\* no FIFO: no request is lost, and the two FIFOs are never opened by each
\* side waiting for the other.
ClientsServed ==
  \A c \in Clients :
     cpc[c] = "open_server" /\ Undisturbed ~> cpc[c] = "off" \/ ~Undisturbed

\* "If the program receives the SIGINT or SIGTERM signals, it removes the
\* server FIFO and terminates."
TermStops == termed ~> spc = "off"
=============================================================================
