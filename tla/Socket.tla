-------------------------------- MODULE Socket --------------------------------
(***************************************************************************)
(* The command socket (crates/daemon/src/server.rs, run in main.rs, and    *)
(* send of crates/client/src/main.rs): daemon instances that come and go   *)
(* around one socket file, and clients that are served one at a time.      *)
(*                                                                         *)
(* An instance looks for a live daemon before it starts its STT server,    *)
(* which may take a minute, and again before it binds.  A killed instance  *)
(* leaves its file behind.  A client gives up after TIMEOUT; some other    *)
(* peer that connects is dropped once it has sent nothing for              *)
(* CONN_TIMEOUT, and served for as long as it does not stop sending.       *)
(*                                                                         *)
(* Time is counted in seconds, and stands still while the accept loop has  *)
(* something to do: polling and App::handle take far less than a second.   *)
(***************************************************************************)
EXTENDS Naturals, FiniteSets, Sequences

CONSTANTS
  Daemons,         \* the daemon instances, each started at most once
  Clients,         \* the client processes, each connecting at most once
  Peers,           \* those that are not whispy-client: they connect, and stay
  Talkers,         \* those of them that may send lines; the others are mute
  NoDaemon, NoClient

ASSUME PeersAssumption == Talkers \subseteq Peers /\ Peers \subseteq Clients
ASSUME ClientsAssumption == IsFiniteSet(Clients)
ASSUME NoneAssumption == NoDaemon \notin Daemons /\ NoClient \notin Clients

VARIABLES
  phase,           \* how far run and serve of each instance have come
  shutdown,        \* the instances that have been sent SIGTERM
  path,            \* whose socket file is at socket_path, live or stale
  backlog,         \* the connections each listener has not accepted yet
  conn,            \* the connection handle_conn is serving
  idle,            \* for how long that connection has sent nothing
  at,              \* how each client is doing
  wait,            \* how long each client has waited for its answer
  peersAhead,      \* history: the peers' connections each client found before its own
  talkedOver,      \* history: the clients that waited while a line of a peer was served
  overlapped       \* history: two instances were between looking and binding at once

daemon == << phase, shutdown, path, overlapped >>
server == << backlog, conn, idle >>
client == << at, wait, peersAhead, talkedOver >>
vars == << daemon, server, client >>

-----------------------------------------------------------------------------
TIMEOUT == 10

\* Mutant: the daemon is as patient as the client.
CONN_TIMEOUT_Long == 10

CONN_TIMEOUT == 5

Phases == {"off", "loading", "serve", "clear", "bind", "serving", "gone"}
Outcomes == {"new", "waiting", "closed", "answered", "timed_out", "failed"}

Listening(d) == phase[d] = "serving"

\* Whether a connect to socket_path succeeds.
Live == path # NoDaemon /\ Listening(path)

\* The clients with a connection to d, accepted or not.
Connected(d) == {conn[d]} \cup {backlog[d][i] : i \in DOMAIN backlog[d]}

Init ==
  /\ phase = [d \in Daemons |-> "off"]
  /\ shutdown = {}
  /\ path = NoDaemon
  /\ backlog = [d \in Daemons |-> << >>]
  /\ conn = [d \in Daemons |-> NoClient]
  /\ idle = [d \in Daemons |-> 0]
  /\ at = [c \in Clients |-> "new"]
  /\ wait = [c \in Clients |-> 0]
  /\ peersAhead = [c \in Clients |-> 0]
  /\ talkedOver = {}
  /\ overlapped = FALSE

-----------------------------------------------------------------------------
(* An instance.                                                            *)

Goto(d, p) == phase' = [phase EXCEPT ![d] = p]

\* The instance ends: its connections break, and nothing of it listens.
Ends(d) ==
  /\ Goto(d, "gone")
  /\ at' = [c \in Clients |->
              IF c \in Connected(d) /\ at[c] = "waiting" THEN "failed" ELSE at[c]]
  /\ backlog' = [backlog EXCEPT ![d] = << >>]
  /\ conn' = [conn EXCEPT ![d] = NoClient]
  /\ idle' = [idle EXCEPT ![d] = 0]

\* run: ensure_not_running refuses to start next to a live daemon.
Launch(d) ==
  /\ phase[d] = "off"
  /\ Goto(d, IF Live THEN "gone" ELSE "loading")
  /\ UNCHANGED << shutdown, path, overlapped, server, client >>

\* SttSupervisor::start returns, or fails (also because of a SIGTERM).
Loaded(d) ==
  /\ phase[d] = "loading"
  /\ \E p \in {"serve", "gone"} : Goto(d, p)
  /\ UNCHANGED << shutdown, path, overlapped, server, client >>

\* Mutant: serve trusts the check run made before the model was loaded.
EnsureNothing(d) ==
  /\ phase[d] = "serve"
  /\ Goto(d, "clear")
  /\ overlapped' = (overlapped \/ \E e \in Daemons : phase[e] \in {"clear", "bind"})
  /\ UNCHANGED << shutdown, path, server, client >>

\* serve: ensure_not_running once more.
Ensure(d) ==
  /\ phase[d] = "serve"
  /\ IF Live
     THEN Goto(d, "gone") /\ UNCHANGED overlapped
     ELSE /\ Goto(d, "clear")
          /\ overlapped' = (overlapped \/ \E e \in Daemons : phase[e] \in {"clear", "bind"})
  /\ UNCHANGED << shutdown, path, server, client >>

\* Whatever file is there now is removed.
Clear(d) ==
  /\ phase[d] = "clear"
  /\ Goto(d, "bind")
  /\ path' = NoDaemon
  /\ UNCHANGED << shutdown, overlapped, server, client >>

\* bind fails on a file that is there, and the instance with it.
Bind(d) ==
  /\ phase[d] = "bind"
  /\ IF path = NoDaemon
     THEN Goto(d, "serving") /\ path' = d
     ELSE Goto(d, "gone") /\ UNCHANGED path
  /\ UNCHANGED << shutdown, overlapped, server, client >>

\* The flag is looked at between connections; the file is removed on exit.
Leave(d) ==
  /\ Listening(d) /\ d \in shutdown /\ conn[d] = NoClient
  /\ path' = NoDaemon
  /\ Ends(d)
  /\ UNCHANGED << shutdown, overlapped, wait, peersAhead, talkedOver >>

Sigterm(d) ==
  /\ phase[d] \notin {"off", "gone"} /\ d \notin shutdown
  /\ shutdown' = shutdown \cup {d}
  /\ UNCHANGED << phase, path, overlapped, server, client >>

\* SIGKILL, or a crash: the file stays.
Kill(d) ==
  /\ phase[d] \notin {"off", "gone"}
  /\ Ends(d)
  /\ UNCHANGED << shutdown, path, overlapped, wait, peersAhead, talkedOver >>

-----------------------------------------------------------------------------
(* The accept loop.                                                        *)

Accept(d) ==
  /\ Listening(d) /\ d \notin shutdown
  /\ conn[d] = NoClient /\ backlog[d] # << >>
  /\ conn' = [conn EXCEPT ![d] = Head(backlog[d])]
  /\ backlog' = [backlog EXCEPT ![d] = Tail(backlog[d])]
  /\ idle' = [idle EXCEPT ![d] = 0]
  /\ UNCHANGED << daemon, client >>

Hangup(d) ==
  /\ conn' = [conn EXCEPT ![d] = NoClient]
  /\ idle' = [idle EXCEPT ![d] = 0]
  /\ UNCHANGED << daemon, backlog >>

\* handle_conn, for whispy-client, which closes its connection after one command. The
\* command is carried out even if the client has given up meanwhile; writing the answer
\* to it fails.
Handle(d) ==
  /\ conn[d] \in Clients \ Peers
  /\ at' = [at EXCEPT ![conn[d]] = IF @ = "waiting" THEN "answered" ELSE @]
  /\ Hangup(d)
  /\ UNCHANGED << wait, peersAhead, talkedOver >>

\* handle_conn, for a line of any other peer: an empty one is skipped, a command is
\* carried out and answered. Then it reads on, with the whole timeout again, while
\* whoever has connected since waits. Lines within the same second are as good as one.
ReadLine(d) ==
  /\ conn[d] \in Talkers /\ at[conn[d]] = "waiting" /\ idle[d] > 0
  /\ talkedOver' = talkedOver \cup ({backlog[d][i] : i \in DOMAIN backlog[d]} \ Peers)
  /\ idle' = [idle EXCEPT ![d] = 0]
  /\ UNCHANGED << daemon, backlog, conn, at, wait, peersAhead >>

\* The peer has closed its connection.
ReadsEof(d) ==
  /\ conn[d] \in Peers /\ at[conn[d]] = "closed"
  /\ Hangup(d)
  /\ UNCHANGED client

\* Mutant: reads have no timeout.
NeverDrops(d) ==
  /\ conn[d] \in Peers /\ idle[d] > CONN_TIMEOUT
  /\ at' = [at EXCEPT ![conn[d]] = IF @ = "waiting" THEN "failed" ELSE @]
  /\ Hangup(d)
  /\ UNCHANGED << wait, peersAhead, talkedOver >>

Drop(d) ==
  /\ conn[d] \in Peers /\ idle[d] = CONN_TIMEOUT
  /\ at' = [at EXCEPT ![conn[d]] = IF @ = "waiting" THEN "failed" ELSE @]
  /\ Hangup(d)
  /\ UNCHANGED << wait, peersAhead, talkedOver >>

-----------------------------------------------------------------------------
(* The clients.                                                            *)

\* send: connect, and write the command.
Connect(c) ==
  /\ at[c] = "new" /\ Live
  /\ at' = [at EXCEPT ![c] = "waiting"]
  /\ backlog' = [backlog EXCEPT ![path] = Append(@, c)]
  /\ peersAhead' = IF c \in Peers THEN peersAhead ELSE
       [peersAhead EXCEPT ![c] = Cardinality({m \in Connected(path) \cap Peers : at[m] = "waiting"})]
  /\ UNCHANGED << daemon, conn, idle, wait, talkedOver >>

\* No answer within TIMEOUT. What was written stays in the connection.
GiveUp(c) ==
  /\ at[c] = "waiting" /\ c \notin Peers /\ wait[c] = TIMEOUT
  /\ at' = [at EXCEPT ![c] = "timed_out"]
  /\ UNCHANGED << daemon, server, wait, peersAhead, talkedOver >>

PeerCloses(c) ==
  /\ c \in Peers /\ at[c] = "waiting"
  /\ at' = [at EXCEPT ![c] = "closed"]
  /\ UNCHANGED << daemon, server, wait, peersAhead, talkedOver >>

-----------------------------------------------------------------------------
(* Time.                                                                   *)

Waiting == {c \in Clients \ Peers : at[c] = "waiting"}
Serving == {d \in Daemons : conn[d] # NoClient}

\* The accept loop of d has something to do.
Busy(d) ==
  \/ conn[d] \in Clients \ Peers
  \/ conn[d] \in Peers /\ (at[conn[d]] = "closed" \/ idle[d] = CONN_TIMEOUT)
  \/ Listening(d) /\ conn[d] = NoClient /\ (d \in shutdown \/ backlog[d] # << >>)

Tick ==
  /\ Waiting # {} \/ Serving # {}
  /\ \A d \in Daemons : ~Busy(d)
  /\ \A c \in Waiting : wait[c] < TIMEOUT
  /\ wait' = [c \in Clients |-> IF c \in Waiting THEN wait[c] + 1 ELSE wait[c]]
  /\ idle' = [d \in Daemons |-> IF d \in Serving THEN idle[d] + 1 ELSE idle[d]]
  /\ UNCHANGED << daemon, backlog, conn, at, peersAhead, talkedOver >>

-----------------------------------------------------------------------------
Boot(d) == Launch(d) \/ Loaded(d) \/ Ensure(d) \/ Clear(d) \/ Bind(d)
Serve(d) == Accept(d) \/ Handle(d) \/ ReadsEof(d) \/ Drop(d) \/ Leave(d)

\* Every instance is gone, and nobody starts another.
Finished ==
  /\ \A d \in Daemons : phase[d] = "gone"
  /\ UNCHANGED vars

Next ==
  \/ Tick \/ Finished
  \/ \E d \in Daemons : Boot(d) \/ Serve(d) \/ ReadLine(d) \/ Sigterm(d) \/ Kill(d)
  \/ \E c \in Clients : Connect(c) \/ GiveUp(c) \/ PeerCloses(c)

Spec == Init /\ [][Next]_vars

\* The instances run and time passes; nobody has to connect, to send, to close or to kill.
FairSpec ==
  /\ Spec
  /\ WF_vars(Tick)
  /\ \A d \in Daemons : WF_vars(phase[d] # "off" /\ Boot(d)) /\ WF_vars(Serve(d))
  /\ \A c \in Clients : WF_vars(GiveUp(c))

-----------------------------------------------------------------------------
TypeOK ==
  /\ phase \in [Daemons -> Phases]
  /\ shutdown \in SUBSET Daemons
  /\ path \in Daemons \cup {NoDaemon}
  /\ backlog \in [Daemons -> Seq(Clients)]
  /\ conn \in [Daemons -> Clients \cup {NoClient}]
  /\ idle \in [Daemons -> Nat]
  /\ at \in [Clients -> Outcomes]
  /\ wait \in [Clients -> Nat]
  /\ peersAhead \in [Clients -> Nat]
  /\ talkedOver \subseteq Clients
  /\ overlapped \in BOOLEAN

\* Unless two instances look for a live daemon within the same instant, a daemon
\* that serves is the one clients reach, and stays it: no other instance removes
\* or replaces its file (server.rs:27-33).
LiveDaemonReachable == ~overlapped => \A d \in Daemons : Listening(d) => path = d

\* Only one instance at a time is between looking and binding, and none listens
\* then.
BindAlone ==
  ~overlapped => \A d, e \in Daemons :
    phase[d] \in {"clear", "bind"} =>
      ~Listening(e) /\ (phase[e] \in {"clear", "bind"} => e = d)

\* What is queued at an instance that does not listen is nothing.
QueueInv ==
  \A d \in Daemons : ~Listening(d) =>
    backlog[d] = << >> /\ conn[d] = NoClient /\ idle[d] = 0

\* The places of an instance's connections, in the order they are served: the one
\* being served is at place 0.
Places(d) == {i \in {0} : conn[d] # NoClient} \cup DOMAIN backlog[d]
Who(d, i) == IF i = 0 THEN conn[d] ELSE backlog[d][i]

\* No client has two connections.
OnePlace ==
  \A d, e \in Daemons : \A i \in Places(d) : \A j \in Places(e) :
    Who(d, i) = Who(e, j) => d = e /\ i = j

\* A client has its connection as long as it waits; a peer that has not been dropped
\* either waits or has closed it.
PlaceInv ==
  /\ OnePlace
  /\ \A d \in Daemons : \A i \in Places(d) :
       /\ at[Who(d, i)] # "new"
       /\ Who(d, i) \in Peers => at[Who(d, i)] \in {"waiting", "closed"}
  /\ \A c \in Clients : at[c] = "waiting" =>
       \E d \in Daemons : \E i \in Places(d) : Who(d, i) = c
  /\ \A c \in Clients : at[c] = "new" => wait[c] = 0

\* The places of the peers' connections that hold up the one at place k.
Ahead(d, k) == {i \in Places(d) : i < k /\ Who(d, i) \in Peers /\ at[Who(d, i)] = "waiting"}

\* The clients that only waited for one peer, and never while that one was sending.
Patient == {c \in Clients : peersAhead[c] <= 1 /\ c \notin talkedOver}

\* With one peer ahead, the client at place k loses time to that one alone: what it
\* has waited, it waited while that peer was being served.
HeldByOne(d, k) ==
  /\ \A i, j \in Ahead(d, k) : i = j
  /\ wait[Who(d, k)] > 0 => Ahead(d, k) \subseteq {0}
  /\ 0 \in Ahead(d, k) => wait[Who(d, k)] <= idle[d]

\* Nobody waits longer for one silent peer than the daemon does.
PatienceInv ==
  /\ \A d \in Daemons : idle[d] <= CONN_TIMEOUT
  /\ \A c \in Waiting \cap Patient : wait[c] <= CONN_TIMEOUT
  /\ \A d \in Daemons : \A k \in Places(d) :
       Who(d, k) \in Waiting \cap Patient => HeldByOne(d, k)

IInv == TypeOK /\ BindAlone /\ QueueInv /\ LiveDaemonReachable

\* A client does not give up because of one peer that connects and is silent: the
\* daemon's patience ends before the client's, whenever the two began. Only another such
\* peer, or one that was sending while the client waited, can make it (client
\* main.rs:15-18, server.rs:22-25).
AnsweredInTime == \A c \in Clients : at[c] = "timed_out" => peersAhead[c] >= 2 \/ c \in talkedOver

\* The two together, with what they support.
WaitInv == PlaceInv /\ PatienceInv /\ AnsweredInTime

\* SIGTERM ends the daemon, even while a client says nothing (server.rs:22-25): unless
\* one goes on sending before its five seconds are over, for ever, since the flag is only
\* looked at between connections (server.rs:64-78, 93-116).
ShutdownEnds ==
  \A d \in Daemons : []<><<ReadLine(d)>>_vars \/ (d \in shutdown ~> phase[d] = "gone")
=============================================================================
