------------------------------ MODULE SocketProofs ------------------------------
(***************************************************************************)
(* A daemon that serves stays reachable, and a client is not given up on   *)
(* because of one silent peer, for any number of instances and of         *)
(* clients: unless two instances look for a live daemon within the same    *)
(* instant, no instance takes the socket file of another one; and what a   *)
(* client waits behind one peer, it waits while the daemon's own patience  *)
(* with that peer runs out.                                                *)
(***************************************************************************)
EXTENDS Socket, FiniteSetTheorems, TLAPS

USE NoneAssumption, PeersAssumption

(* The initial state satisfies the invariant. *)
LEMMA InitInv == Init => IInv
<1> SUFFICES ASSUME Init PROVE IInv
  OBVIOUS
<1>1. TypeOK
  <2>1. backlog \in [Daemons -> Seq(Clients)]
    BY DEF Init
  <2> QED BY <2>1 DEF Init, TypeOK, Phases, Outcomes
<1>2. BindAlone /\ QueueInv /\ LiveDaemonReachable
  BY DEF Init, BindAlone, QueueInv, LiveDaemonReachable, Listening
<1> QED
  BY <1>1, <1>2 DEF IInv

(* How many peers' connections a client finds is a number. *)
LEMMA PeersCounted ==
  ASSUME NEW S PROVE Cardinality({m \in S \cap Peers : at[m] = "waiting"}) \in Nat
<1> DEFINE M == {m \in S \cap Peers : at[m] = "waiting"}
<1>1. M \subseteq Clients
  OBVIOUS
<1>2. IsFiniteSet(M)
  BY <1>1, ClientsAssumption, FS_Subset
<1> QED
  BY <1>2, FS_CardinalityType

(* An instance that ends leaves well-typed connections. *)
LEMMA EndsType ==
  ASSUME TypeOK, NEW d \in Daemons, Ends(d)
  PROVE  /\ phase' \in [Daemons -> Phases] /\ at' \in [Clients -> Outcomes]
         /\ backlog' \in [Daemons -> Seq(Clients)]
         /\ conn' \in [Daemons -> Clients \cup {NoClient}]
         /\ idle' \in [Daemons -> Nat]
<1> USE DEF TypeOK, Ends, Goto, Phases, Outcomes
<1>1. << >> \in Seq(Clients)
  OBVIOUS
<1>2. at' \in [Clients -> Outcomes]
  OBVIOUS
<1>3. backlog' \in [Daemons -> Seq(Clients)]
  BY <1>1
<1> QED
  BY <1>2, <1>3

(* No step breaks the types. *)
LEMMA NextType == TypeOK /\ [Next]_vars => TypeOK'
<1> SUFFICES ASSUME TypeOK, [Next]_vars PROVE TypeOK'
  OBVIOUS
<1> USE DEF TypeOK, daemon, server, client
<1>1. ASSUME NEW d \in Daemons, Boot(d) PROVE TypeOK'
  BY <1>1 DEF Boot, Launch, Loaded, Ensure, Clear, Bind, Goto, Phases, Live
<1>2. ASSUME NEW d \in Daemons, Serve(d) PROVE TypeOK'
  <2>1. CASE Accept(d)
    <3>1. Head(backlog[d]) \in Clients /\ Tail(backlog[d]) \in Seq(Clients)
      BY <2>1 DEF Accept
    <3> QED BY <2>1, <3>1 DEF Accept
  <2>2. CASE Handle(d)
    BY <2>2 DEF Handle, Hangup, Outcomes
  <2>3. CASE ReadsEof(d)
    BY <2>3 DEF ReadsEof, Hangup
  <2>4. CASE Drop(d)
    BY <2>4 DEF Drop, Hangup, Outcomes
  <2>5. CASE Leave(d)
    BY <2>5, EndsType DEF Leave
  <2> QED BY <1>2, <2>1, <2>2, <2>3, <2>4, <2>5 DEF Serve
<1>3. ASSUME NEW d \in Daemons, ReadLine(d) \/ Sigterm(d) \/ Kill(d) PROVE TypeOK'
  <2>1. CASE ReadLine(d)
    <3>1. {backlog[d][i] : i \in DOMAIN backlog[d]} \subseteq Clients
      OBVIOUS
    <3> QED BY <2>1, <3>1 DEF ReadLine
  <2> QED BY <1>3, <2>1, EndsType DEF Sigterm, Kill
<1>4. ASSUME NEW c \in Clients, Connect(c) PROVE TypeOK'
  <2>1. path \in Daemons /\ Append(backlog[path], c) \in Seq(Clients)
    BY <1>4 DEF Connect, Live
  <2>2. Cardinality({m \in Connected(path) \cap Peers : at[m] = "waiting"}) \in Nat
    BY PeersCounted
  <2> QED BY <1>4, <2>1, <2>2 DEF Connect, Outcomes
<1>5. ASSUME NEW c \in Clients, GiveUp(c) \/ PeerCloses(c) PROVE TypeOK'
  <2>1. at' = [at EXCEPT ![c] = "timed_out"] \/ at' = [at EXCEPT ![c] = "closed"]
    BY <1>5 DEF GiveUp, PeerCloses
  <2>2. UNCHANGED << daemon, server, wait, peersAhead, talkedOver >>
    BY <1>5 DEF GiveUp, PeerCloses
  <2> QED BY <2>1, <2>2 DEF Outcomes
<1>6. CASE Tick
  BY <1>6 DEF Tick
<1>7. CASE Finished \/ UNCHANGED vars
  BY <1>7 DEF Finished, vars
<1> QED
  BY <1>1, <1>2, <1>3, <1>4, <1>5, <1>6, <1>7 DEF Next

(* No step lets two instances share the way to the socket file. *)
LEMMA NextReachable ==
  IInv /\ [Next]_vars => BindAlone' /\ QueueInv' /\ LiveDaemonReachable'
<1> SUFFICES ASSUME IInv, [Next]_vars
             PROVE BindAlone' /\ QueueInv' /\ LiveDaemonReachable'
  OBVIOUS
<1> DEFINE Goal == BindAlone /\ QueueInv /\ LiveDaemonReachable
<1> USE DEF IInv, TypeOK, BindAlone, QueueInv, LiveDaemonReachable, Listening,
            daemon, server, client
<1>1. ASSUME NEW d \in Daemons, Boot(d) PROVE Goal'
  <2>1. CASE Launch(d)
    BY <2>1 DEF Launch, Goto
  <2>2. CASE Loaded(d)
    BY <2>2 DEF Loaded, Goto
  <2>3. CASE Ensure(d)
    <3>1. CASE Live
      <4>1. /\ phase' = [phase EXCEPT ![d] = "gone"]
            /\ UNCHANGED << path, overlapped, server, client >>
        BY <2>3, <3>1, Zenon DEF Ensure, Goto
      <4> QED BY <4>1, <2>3 DEF Ensure
    <3>2. CASE ~Live
      <4>1. ~overlapped => \A e \in Daemons : ~Listening(e)
        BY <3>2 DEF Live
      <4>2. ~overlapped' => ~overlapped /\ \A e \in Daemons : phase[e] \notin {"clear", "bind"}
        BY <2>3, <3>2 DEF Ensure
      <4> QED BY <2>3, <3>2, <4>1, <4>2 DEF Ensure, Goto
    <3> QED BY <3>1, <3>2
  <2>4. CASE Clear(d)
    BY <2>4 DEF Clear, Goto
  <2>5. CASE Bind(d)
    <3>1. phase[d] = "bind" /\ UNCHANGED << overlapped, backlog, conn, idle >>
      BY <2>5 DEF Bind
    <3>2. ~overlapped => \A e \in Daemons : ~Listening(e) /\ (phase[e] \in {"clear", "bind"} => e = d)
      BY <2>5 DEF Bind
    <3>3. CASE path = NoDaemon
      <4>1. phase' = [phase EXCEPT ![d] = "serving"] /\ path' = d
        BY <2>5, <3>3 DEF Bind, Goto
      <4> QED BY <3>1, <3>2, <4>1
    <3>4. CASE path # NoDaemon
      <4>1. phase' = [phase EXCEPT ![d] = "gone"] /\ path' = path
        BY <2>5, <3>4 DEF Bind, Goto
      <4>2. \A e \in Daemons : phase'[e] = phase[e] \/ (e = d /\ phase'[e] = "gone")
        BY <4>1
      <4> QED BY <3>1, <4>1, <4>2
    <3> QED BY <3>3, <3>4
  <2> QED BY <1>1, <2>1, <2>2, <2>3, <2>4, <2>5 DEF Boot
<1>2. ASSUME NEW d \in Daemons, Serve(d) PROVE Goal'
  <2>1. CASE Leave(d)
    BY <2>1 DEF Leave, Ends, Goto
  <2>2. CASE Accept(d)
    BY <2>2 DEF Accept
  <2>3. CASE Handle(d)
    BY <2>3 DEF Handle, Hangup
  <2>4. CASE ReadsEof(d)
    BY <2>4 DEF ReadsEof, Hangup
  <2>5. CASE Drop(d)
    BY <2>5 DEF Drop, Hangup
  <2> QED BY <1>2, <2>1, <2>2, <2>3, <2>4, <2>5 DEF Serve
<1>3. ASSUME NEW d \in Daemons, ReadLine(d) \/ Sigterm(d) \/ Kill(d) PROVE Goal'
  <2>1. CASE ReadLine(d) \/ Sigterm(d)
    BY <2>1 DEF ReadLine, Sigterm
  <2>2. CASE Kill(d)
    BY <2>2 DEF Kill, Ends, Goto
  <2> QED BY <1>3, <2>1, <2>2
<1>4. ASSUME NEW c \in Clients, Connect(c) PROVE Goal'
  BY <1>4 DEF Connect, Live
<1>5. ASSUME NEW c \in Clients, GiveUp(c) \/ PeerCloses(c) PROVE Goal'
  BY <1>5 DEF GiveUp, PeerCloses
<1>6. CASE Tick
  BY <1>6 DEF Tick, Serving
<1>7. CASE Finished \/ UNCHANGED vars
  BY <1>7 DEF Finished, vars
<1> QED
  BY <1>1, <1>2, <1>3, <1>4, <1>5, <1>6, <1>7 DEF Next

(* The invariant of the command socket holds in every reachable state          *)
(* (server.rs serve, main.rs run): in particular a daemon that serves is the   *)
(* one clients reach.                                                          *)
THEOREM Inductive == Spec => []IInv
<1>1. IInv /\ [Next]_vars => IInv'
  BY NextType, NextReachable DEF IInv
<1> QED
  BY InitInv, <1>1, PTL DEF Spec

(* LiveDaemonReachable: what ensure_not_running is for (server.rs:27-33). *)
THEOREM ServingDaemonIsReachable == Spec => []LiveDaemonReachable
<1>1. IInv => LiveDaemonReachable
  BY DEF IInv
<1> QED
  BY <1>1, Inductive, PTL

-----------------------------------------------------------------------------
(* Who waits for whom.  Every step but Connect leaves each connection where it *)
(* is, moves those of one listener up by one place, or ends them.              *)

(* The places of a listener's connections, told apart. *)
LEMMA PlaceFacts ==
  ASSUME TypeOK, NEW d \in Daemons
  PROVE  /\ 0 \in Places(d) <=> conn[d] # NoClient
         /\ \A i : i # 0 => (i \in Places(d) <=> i \in 1..Len(backlog[d]))
         /\ \A i \in Places(d) : i \in Nat /\ Who(d, i) \in Clients
<1> USE DEF TypeOK, Places, Who
<1>1. DOMAIN backlog[d] = 1..Len(backlog[d]) /\ Len(backlog[d]) \in Nat
  OBVIOUS
<1>2. \A i \in 1..Len(backlog[d]) : backlog[d][i] \in Clients
  OBVIOUS
<1> QED
  BY <1>1, <1>2

(* A connection that stays where it is. *)
LEMMA Unmoved ==
  ASSUME NEW d \in Daemons, conn'[d] = conn[d], backlog'[d] = backlog[d]
  PROVE  Places(d)' = Places(d) /\ \A i : Who(d, i)' = Who(d, i)
BY DEF Places, Who

(* A connection served to its end leaves its place. *)
LEMMA ServedLeaves ==
  ASSUME TypeOK, NEW d \in Daemons, Hangup(d), NEW e \in Daemons
  PROVE  /\ Places(e)' = IF e = d THEN Places(e) \ {0} ELSE Places(e)
         /\ \A i \in Places(e)' : Who(e, i)' = Who(e, i)
<1> USE DEF TypeOK, Hangup, Places, Who
<1>1. backlog'[e] = backlog[e] /\ 0 \notin DOMAIN backlog[e]
  OBVIOUS
<1>2. conn'[e] = IF e = d THEN NoClient ELSE conn[e]
  OBVIOUS
<1> QED
  BY <1>1, <1>2

(* An accepted connection moves to the place being served, and those behind it *)
(* move up.                                                                    *)
LEMMA AcceptedMovesUp ==
  ASSUME TypeOK, NEW d \in Daemons, Accept(d)
  PROVE  /\ 0 \notin Places(d)
         /\ \A i \in Places(d)' : i \in Nat /\ i + 1 \in Places(d) /\ Who(d, i)' = Who(d, i + 1)
         /\ \A i \in Places(d) : i - 1 \in Places(d)' /\ Who(d, i - 1)' = Who(d, i)
<1> DEFINE q == backlog[d]
           n == Len(q)
<1>1. /\ q \in Seq(Clients) /\ q # << >>
      /\ conn'[d] = Head(q) /\ backlog'[d] = Tail(q) /\ conn[d] = NoClient
  BY DEF Accept, TypeOK
<1>2. /\ n \in Nat \ {0} /\ DOMAIN q = 1..n
      /\ Head(q) = q[1] /\ Head(q) \in Clients
      /\ DOMAIN Tail(q) = 1..(n - 1)
      /\ \A i \in 1..(n - 1) : Tail(q)[i] = q[i + 1]
  BY <1>1
<1>3. Places(d) = 1..n
  BY <1>1, <1>2 DEF Places
<1>4. Places(d)' = {0} \cup 1..(n - 1)
  BY <1>1, <1>2 DEF Places
<1>5. \A i \in Places(d)' : Who(d, i)' = q[i + 1]
  BY <1>1, <1>2, <1>4 DEF Who
<1>6. \A i \in Places(d) : Who(d, i) = q[i]
  BY <1>2, <1>3 DEF Who
<1> HIDE DEF q, n
<1>7. \A i \in Places(d)' : i \in Nat /\ i + 1 \in Places(d)
  BY <1>2, <1>3, <1>4
<1>8. \A i \in Places(d) : i - 1 \in Places(d)' /\ (i - 1) + 1 = i
  BY <1>2, <1>3, <1>4
<1>9. 0 \notin Places(d)
  BY <1>2, <1>3
<1>10. \A i \in Places(d)' : Who(d, i)' = Who(d, i + 1)
  BY <1>5, <1>6, <1>7
<1>11. \A i \in Places(d) : Who(d, i - 1)' = Who(d, i)
  BY <1>5, <1>6, <1>8
<1> QED
  BY <1>7, <1>8, <1>9, <1>10, <1>11

(* A client that connects takes the last place of the listener it reaches. *)
LEMMA NewcomerIsLast ==
  ASSUME TypeOK, NEW c \in Clients, Connect(c), NEW d \in Daemons, d = path
  PROVE  /\ \A e \in Daemons \ {d} : backlog'[e] = backlog[e] /\ conn'[e] = conn[e]
         /\ \E n \in Nat \ {0} :
              /\ Places(d)' = Places(d) \cup {n}
              /\ \A i \in Places(d) : i < n /\ Who(d, i)' = Who(d, i)
              /\ Who(d, n)' = c
<1> DEFINE q == backlog[d]
<1>1. PICK n \in Nat \ {0} : n = Len(q) + 1
  BY DEF TypeOK
<1>2. /\ q \in Seq(Clients) /\ conn' = conn
      /\ backlog' = [backlog EXCEPT ![d] = Append(q, c)]
  BY DEF Connect, TypeOK
<1>3. backlog'[d] = Append(q, c)
  BY <1>2 DEF TypeOK
<1>4. \A e \in Daemons \ {d} : backlog'[e] = backlog[e]
  BY <1>2 DEF TypeOK
<1>5. /\ DOMAIN q = 1..(n - 1) /\ DOMAIN Append(q, c) = 1..n
      /\ Append(q, c)[n] = c
      /\ \A i \in 1..(n - 1) : Append(q, c)[i] = q[i]
  BY <1>1, <1>2
<1>6. Places(d)' = Places(d) \cup {n}
  BY <1>2, <1>3, <1>5 DEF Places
<1>7. \A i \in Places(d) : i < n /\ Who(d, i)' = Who(d, i)
  BY <1>2, <1>3, <1>5 DEF Places, Who
<1>8. Who(d, n)' = c
  BY <1>3, <1>5 DEF Who
<1> QED
  BY <1>2, <1>4, <1>6, <1>7, <1>8

(* The client being served is done with, and no other is affected. *)
LEMMA ServedPlace ==
  ASSUME TypeOK, PlaceInv, NEW d \in Daemons, conn[d] \in Clients, Hangup(d),
         wait' = wait, NEW o \in Outcomes \ {"new", "waiting"},
         at' = [at EXCEPT ![conn[d]] = o]
  PROVE  PlaceInv'
<1> DEFINE s == conn[d]
<1>1. 0 \in Places(d) /\ Who(d, 0) = s /\ s # NoClient
  BY PlaceFacts DEF Who
<1>2. \A e \in Daemons : \A i \in Places(e)' : i \in Places(e) /\ Who(e, i)' = Who(e, i)
  BY ServedLeaves
<1>3. \A e \in Daemons : \A i \in Places(e)' : Who(e, i) # s
  BY <1>1, <1>2, ServedLeaves DEF PlaceInv, OnePlace
<1>4. at'[s] = o /\ \A c \in Clients : c # s => at'[c] = at[c]
  BY DEF TypeOK
<1>5. \A e \in Daemons : \A i \in Places(e)' : Who(e, i) \in Clients
  BY <1>2, PlaceFacts
<1>6. OnePlace'
  BY <1>2 DEF PlaceInv, OnePlace
<1>7. \A e \in Daemons : \A i \in Places(e)' :
        /\ at'[Who(e, i)'] # "new"
        /\ Who(e, i)' \in Peers => at'[Who(e, i)'] \in {"waiting", "closed"}
  BY <1>2, <1>3, <1>4, <1>5 DEF PlaceInv
<1>8. ASSUME NEW c \in Clients, at'[c] = "waiting"
      PROVE  \E e \in Daemons : \E i \in Places(e)' : Who(e, i)' = c
  <2>1. c # s /\ at[c] = "waiting"
    BY <1>4, <1>8
  <2>2. PICK e \in Daemons : \E i \in Places(e) : Who(e, i) = c
    BY <2>1 DEF PlaceInv
  <2>3. PICK i \in Places(e) : Who(e, i) = c
    BY <2>2
  <2>4. i \in Places(e)'
    BY <1>1, <2>1, <2>3, ServedLeaves
  <2> QED BY <1>2, <2>3, <2>4
<1>9. \A c \in Clients : at'[c] = "new" => wait'[c] = 0
  BY <1>4 DEF PlaceInv
<1> QED
  BY <1>6, <1>7, <1>8, <1>9 DEF PlaceInv

(* An instance that ends breaks its connections, and no others. *)
LEMMA EndedPlaces ==
  ASSUME TypeOK, NEW d \in Daemons, Ends(d)
  PROVE  /\ Places(d)' = {}
         /\ \A e \in Daemons \ {d} : Places(e)' = Places(e) /\ \A i : Who(e, i)' = Who(e, i)
         /\ \A c \in Clients : at'[c] = IF at[c] = "waiting" /\ \E i \in Places(d) : Who(d, i) = c
                                        THEN "failed" ELSE at[c]
<1>1. backlog'[d] = << >> /\ conn'[d] = NoClient
  BY DEF Ends, TypeOK
<1>2. \A e \in Daemons \ {d} : backlog'[e] = backlog[e] /\ conn'[e] = conn[e]
  BY DEF Ends, TypeOK
<1>3. \A c \in Clients : c \in Connected(d) <=> \E i \in Places(d) : Who(d, i) = c
  <2>1. 0 \notin DOMAIN backlog[d]
    BY DEF TypeOK
  <2>2. \A c \in Clients : conn[d] = c <=> 0 \in Places(d) /\ Who(d, 0) = c
    BY <2>1 DEF Places, Who
  <2>3. \A i : i # 0 => (i \in Places(d) <=> i \in DOMAIN backlog[d]) /\ Who(d, i) = backlog[d][i]
    BY DEF Places, Who
  <2> QED BY <2>1, <2>2, <2>3 DEF Connected
<1> QED
  BY <1>1, <1>2, <1>3, Unmoved DEF Ends, Places

LEMMA EndedPlace ==
  ASSUME TypeOK, PlaceInv, NEW d \in Daemons, Ends(d), wait' = wait
  PROVE  PlaceInv'
<1>1. \A e \in Daemons : \A i \in Places(e)' :
        e # d /\ i \in Places(e) /\ Who(e, i)' = Who(e, i) /\ Who(e, i) \in Clients
  BY EndedPlaces, PlaceFacts
<1>2. OnePlace'
  BY <1>1 DEF PlaceInv, OnePlace
<1>3. \A e \in Daemons : \A i \in Places(e)' : at'[Who(e, i)] = at[Who(e, i)]
  BY <1>1, EndedPlaces DEF PlaceInv, OnePlace
<1>4. \A e \in Daemons : \A i \in Places(e)' :
        /\ at'[Who(e, i)'] # "new"
        /\ Who(e, i)' \in Peers => at'[Who(e, i)'] \in {"waiting", "closed"}
  BY <1>1, <1>3 DEF PlaceInv
<1>5. ASSUME NEW c \in Clients, at'[c] = "waiting"
      PROVE  \E e \in Daemons : \E i \in Places(e)' : Who(e, i)' = c
  <2>1. at[c] = "waiting" /\ ~\E i \in Places(d) : Who(d, i) = c
    BY <1>5, EndedPlaces
  <2>2. PICK e \in Daemons : \E i \in Places(e) : Who(e, i) = c
    BY <2>1 DEF PlaceInv
  <2> QED BY <2>1, <2>2, EndedPlaces
<1>6. \A c \in Clients : at'[c] = "new" => wait'[c] = 0
  BY EndedPlaces DEF PlaceInv
<1> QED
  BY <1>2, <1>4, <1>5, <1>6 DEF PlaceInv

LEMMA AcceptedPlace ==
  ASSUME TypeOK, PlaceInv, NEW d \in Daemons, Accept(d)
  PROVE  PlaceInv'
<1>1. at' = at /\ wait' = wait
  BY DEF Accept, client
<1>2. \A e \in Daemons \ {d} : Places(e)' = Places(e) /\ \A i : Who(e, i)' = Who(e, i)
  BY Unmoved DEF Accept, TypeOK
<1>3. \A i \in Places(d)' : i \in Nat /\ i + 1 \in Places(d) /\ Who(d, i)' = Who(d, i + 1)
  BY AcceptedMovesUp
<1>4. \A i, j \in Nat : i + 1 = j + 1 => i = j
  OBVIOUS
<1>5. OnePlace'
  BY <1>2, <1>3, <1>4 DEF PlaceInv, OnePlace
<1>6. \A e \in Daemons : \A i \in Places(e)' : \E j \in Places(e) : Who(e, i)' = Who(e, j)
  BY <1>2, <1>3
<1>7. \A e \in Daemons : \A i \in Places(e)' :
        /\ at'[Who(e, i)'] # "new"
        /\ Who(e, i)' \in Peers => at'[Who(e, i)'] \in {"waiting", "closed"}
  BY <1>1, <1>6 DEF PlaceInv
<1>8. \A e \in Daemons : \A i \in Places(e) : \E j \in Places(e)' : Who(e, j)' = Who(e, i)
  BY <1>2, AcceptedMovesUp
<1>9. \A c \in Clients : at'[c] = "waiting" =>
        \E e \in Daemons : \E i \in Places(e)' : Who(e, i)' = c
  BY <1>1, <1>8 DEF PlaceInv
<1> QED
  BY <1>1, <1>5, <1>7, <1>9 DEF PlaceInv

LEMMA NewcomerPlace ==
  ASSUME TypeOK, PlaceInv, NEW c \in Clients, Connect(c)
  PROVE  PlaceInv'
<1>1. PICK d \in Daemons : d = path
  BY DEF Connect, Live, TypeOK
<1>2. /\ \A e \in Daemons \ {d} : backlog'[e] = backlog[e] /\ conn'[e] = conn[e]
      /\ \E n \in Nat \ {0} :
           /\ Places(d)' = Places(d) \cup {n}
           /\ \A i \in Places(d) : i < n /\ Who(d, i)' = Who(d, i)
           /\ Who(d, n)' = c
  BY <1>1, NewcomerIsLast
<1>3. \A e \in Daemons \ {d} : Places(e)' = Places(e) /\ \A i : Who(e, i)' = Who(e, i)
  BY <1>2, Unmoved
<1>4. PICK n : /\ Places(d)' = Places(d) \cup {n}
               /\ \A i \in Places(d) : Who(d, i)' = Who(d, i)
               /\ Who(d, n)' = c
  BY <1>2
<1>5. /\ at[c] = "new" /\ wait' = wait /\ at'[c] = "waiting"
      /\ \A b \in Clients : b # c => at'[b] = at[b]
  BY DEF Connect, TypeOK
<1>6. \A e \in Daemons : \A i \in Places(e) : Who(e, i) # c /\ Who(e, i) \in Clients
  BY <1>5, PlaceFacts DEF PlaceInv
<1>7. \A e \in Daemons : \A i \in Places(e)' :
        \/ e = d /\ i = n
        \/ i \in Places(e) /\ Who(e, i)' = Who(e, i)
  BY <1>3, <1>4
<1>8. OnePlace'
  BY <1>4, <1>6, <1>7 DEF PlaceInv, OnePlace
<1>9. \A e \in Daemons : \A i \in Places(e)' :
        /\ at'[Who(e, i)'] # "new"
        /\ Who(e, i)' \in Peers => at'[Who(e, i)'] \in {"waiting", "closed"}
  BY <1>4, <1>5, <1>6, <1>7 DEF PlaceInv
<1>10. \A b \in Clients : at'[b] = "waiting" =>
         \E e \in Daemons : \E i \in Places(e)' : Who(e, i)' = b
  <2>1. \A e \in Daemons : \A i \in Places(e) : i \in Places(e)' /\ Who(e, i)' = Who(e, i)
    BY <1>3, <1>4
  <2> QED BY <1>4, <1>5, <2>1 DEF PlaceInv
<1>11. \A b \in Clients : at'[b] = "new" => wait'[b] = 0
  BY <1>5 DEF PlaceInv
<1> QED
  BY <1>8, <1>9, <1>10, <1>11 DEF PlaceInv

(* No step gives a client two connections, or leaves one that waits without. *)
LEMMA NextPlace == IInv /\ PlaceInv /\ [Next]_vars => PlaceInv'
<1> SUFFICES ASSUME IInv, PlaceInv, [Next]_vars PROVE PlaceInv'
  OBVIOUS
<1>0. TypeOK
  BY DEF IInv
<1>1. ASSUME NEW d \in Daemons, Boot(d) \/ ReadLine(d) \/ Sigterm(d) PROVE PlaceInv'
  <2>1. UNCHANGED << backlog, conn, at, wait >>
    BY <1>1 DEF Boot, Launch, Loaded, Ensure, Clear, Bind, ReadLine, Sigterm, server, client
  <2> QED BY <2>1 DEF PlaceInv, OnePlace, Places, Who, server, client
<1>2. ASSUME NEW d \in Daemons, Serve(d) PROVE PlaceInv'
  <2>1. CASE Accept(d)
    BY <1>0, <2>1, AcceptedPlace
  <2>2. CASE Handle(d)
    <3>1. PICK o \in Outcomes \ {"new", "waiting"} : at' = [at EXCEPT ![conn[d]] = o]
      <4>1. at[conn[d]] \in Outcomes \ {"new"}
        BY <1>0, <2>2, PlaceFacts DEF Handle, PlaceInv, TypeOK, Who
      <4> QED BY <4>1, <2>2 DEF Handle, Outcomes
    <3> QED BY <1>0, <2>2, <3>1, ServedPlace DEF Handle
  <2>3. CASE ReadsEof(d)
    <3>1. at' = [at EXCEPT ![conn[d]] = "closed"]
      BY <1>0, <2>3 DEF ReadsEof, TypeOK, client
    <3>2. Hangup(d) /\ conn[d] \in Clients /\ wait' = wait
      BY <2>3 DEF ReadsEof, client
    <3> QED BY <1>0, <3>1, <3>2, ServedPlace DEF Outcomes
  <2>4. CASE Drop(d)
    <3>1. PICK o \in Outcomes \ {"new", "waiting"} : at' = [at EXCEPT ![conn[d]] = o]
      <4>1. at[conn[d]] \in Outcomes \ {"new"}
        BY <1>0, <2>4, PlaceFacts DEF Drop, PlaceInv, TypeOK, Who
      <4> QED BY <4>1, <2>4 DEF Drop, Outcomes
    <3> QED BY <1>0, <2>4, <3>1, ServedPlace DEF Drop
  <2>5. CASE Leave(d)
    BY <1>0, <2>5, EndedPlace DEF Leave
  <2> QED BY <1>2, <2>1, <2>2, <2>3, <2>4, <2>5 DEF Serve
<1>3. ASSUME NEW d \in Daemons, Kill(d) PROVE PlaceInv'
  BY <1>0, <1>3, EndedPlace DEF Kill
<1>4. ASSUME NEW c \in Clients, Connect(c) PROVE PlaceInv'
  BY <1>0, <1>4, NewcomerPlace
<1>5. ASSUME NEW c \in Clients, GiveUp(c) \/ PeerCloses(c) PROVE PlaceInv'
  <2>1. /\ UNCHANGED << server, wait >>
        /\ \/ at' = [at EXCEPT ![c] = "timed_out"] /\ c \notin Peers
           \/ at' = [at EXCEPT ![c] = "closed"]
    BY <1>5 DEF GiveUp, PeerCloses
  <2>2. \A e \in Daemons : Places(e)' = Places(e) /\ \A i : Who(e, i)' = Who(e, i)
    BY <2>1 DEF server, Places, Who
  <2>3. \A b \in Clients : b # c => at'[b] = at[b]
    BY <1>0, <2>1 DEF TypeOK
  <2>4. at'[c] \in {"timed_out", "closed"} /\ (c \in Peers => at'[c] = "closed")
    BY <1>0, <2>1 DEF TypeOK
  <2>5. \A e \in Daemons : \A i \in Places(e) : Who(e, i) \in Clients
    BY <1>0, PlaceFacts
  <2>6. OnePlace'
    BY <2>2 DEF PlaceInv, OnePlace
  <2>7. \A e \in Daemons : \A i \in Places(e)' :
          /\ at'[Who(e, i)'] # "new"
          /\ Who(e, i)' \in Peers => at'[Who(e, i)'] \in {"waiting", "closed"}
    BY <2>2, <2>3, <2>4, <2>5 DEF PlaceInv
  <2>8. \A b \in Clients : at'[b] = "waiting" =>
          \E e \in Daemons : \E i \in Places(e)' : Who(e, i)' = b
    BY <2>2, <2>3, <2>4 DEF PlaceInv
  <2>9. \A b \in Clients : at'[b] = "new" => wait'[b] = 0
    BY <2>1, <2>3, <2>4 DEF PlaceInv
  <2> QED BY <2>6, <2>7, <2>8, <2>9 DEF PlaceInv
<1>6. CASE Tick
  <2>1. UNCHANGED << backlog, conn, at >>
    BY <1>6 DEF Tick
  <2>2. \A c \in Clients : at[c] = "new" => wait'[c] = wait[c]
    BY <1>6 DEF Tick, Waiting
  <2> QED BY <2>1, <2>2 DEF PlaceInv, OnePlace, Places, Who
<1>7. CASE Finished \/ UNCHANGED vars
  BY <1>7 DEF Finished, vars, server, client, PlaceInv, OnePlace, Places, Who
<1> QED
  BY <1>1, <1>2, <1>3, <1>4, <1>5, <1>6, <1>7 DEF Next

(* With fewer ahead of it, and no less time served, a client is held up no more. *)
LEMMA HeldStill ==
  ASSUME NEW d \in Daemons, NEW k, NEW l, HeldByOne(d, k), Who(d, l)' = Who(d, k), wait' = wait,
         \/ l = k /\ Ahead(d, l)' \subseteq Ahead(d, k) /\ (0 \in Ahead(d, l)' => idle'[d] = idle[d])
         \/ Ahead(d, l)' = {}
  PROVE  HeldByOne(d, l)'
BY DEF HeldByOne

LEMMA ServedPatience ==
  ASSUME TypeOK, PlaceInv, PatienceInv, NEW d \in Daemons, conn[d] \in Clients, Hangup(d),
         wait' = wait, Patient' = Patient, NEW o \in Outcomes \ {"new", "waiting"},
         at' = [at EXCEPT ![conn[d]] = o]
  PROVE  PatienceInv'
<1>1. at'[conn[d]] = o /\ \A c \in Clients : c # conn[d] => at'[c] = at[c]
  BY DEF TypeOK
<1>2. Waiting' \subseteq Waiting
  BY <1>1 DEF Waiting
<1>3. \A e \in Daemons : idle'[e] = IF e = d THEN 0 ELSE idle[e]
  BY DEF Hangup, TypeOK
<1>4. \A e \in Daemons : \A i \in Places(e)' :
        i \in Places(e) /\ (e = d => i # 0) /\ Who(e, i)' = Who(e, i) /\ Who(e, i) \in Clients
  BY ServedLeaves, PlaceFacts
<1>5. \A e \in Daemons : \A k :
        Ahead(e, k)' \subseteq Ahead(e, k) /\ (e = d => 0 \notin Ahead(e, k)')
  <2> SUFFICES ASSUME NEW e \in Daemons, NEW k, NEW i \in Ahead(e, k)'
               PROVE  i \in Ahead(e, k) /\ (e = d => i # 0)
    OBVIOUS
  <2>1. /\ i \in Places(e)' /\ i < k /\ Who(e, i)' \in Peers
        /\ at'[Who(e, i)'] = "waiting"
    BY DEF Ahead
  <2>2. at[Who(e, i)] = "waiting"
    BY <1>1, <1>4, <2>1
  <2> QED BY <1>4, <2>1, <2>2 DEF Ahead
<1>6. ASSUME NEW e \in Daemons, NEW k \in Places(e)',
             Who(e, k)' \in (Waiting \cap Patient)'
      PROVE  HeldByOne(e, k)'
  <2>1. HeldByOne(e, k)
    BY <1>2, <1>4, <1>6 DEF PatienceInv
  <2> QED BY <1>3, <1>4, <1>5, <2>1, HeldStill
<1>7. \A e \in Daemons : idle'[e] <= CONN_TIMEOUT
  BY <1>3 DEF PatienceInv, CONN_TIMEOUT
<1> QED
  BY <1>2, <1>6, <1>7 DEF PatienceInv, CONN_TIMEOUT

LEMMA EndedPatience ==
  ASSUME TypeOK, PlaceInv, PatienceInv, NEW d \in Daemons, Ends(d),
         wait' = wait, Patient' = Patient
  PROVE  PatienceInv'
<1>1. \A e \in Daemons : \A i \in Places(e)' :
        e # d /\ i \in Places(e) /\ Who(e, i)' = Who(e, i) /\ Who(e, i) \in Clients
  BY EndedPlaces, PlaceFacts
<1>2. \A e \in Daemons : \A i \in Places(e)' : at'[Who(e, i)] = at[Who(e, i)]
  BY <1>1, EndedPlaces DEF PlaceInv, OnePlace
<1>3. Waiting' \subseteq Waiting
  BY EndedPlaces DEF Waiting
<1>4. \A e \in Daemons : \A k : Ahead(e, k)' \subseteq Ahead(e, k)
  BY <1>1, <1>2 DEF Ahead
<1>5. \A e \in Daemons : idle'[e] = IF e = d THEN 0 ELSE idle[e]
  BY DEF Ends, TypeOK
<1>6. ASSUME NEW e \in Daemons, NEW k \in Places(e)',
             Who(e, k)' \in (Waiting \cap Patient)'
      PROVE  HeldByOne(e, k)'
  <2>1. HeldByOne(e, k) /\ e # d
    BY <1>1, <1>3, <1>6 DEF PatienceInv
  <2> QED BY <1>1, <1>4, <1>5, <2>1, HeldStill
<1>7. \A e \in Daemons : idle'[e] <= CONN_TIMEOUT
  BY <1>5 DEF PatienceInv, CONN_TIMEOUT
<1> QED
  BY <1>3, <1>6, <1>7 DEF PatienceInv

LEMMA AcceptedPatience ==
  ASSUME TypeOK, PlaceInv, PatienceInv, NEW d \in Daemons, Accept(d)
  PROVE  PatienceInv'
<1>1. at' = at /\ wait' = wait /\ Patient' = Patient /\ Waiting' = Waiting
  BY DEF Accept, client, Waiting, Patient
<1>2. \A e \in Daemons : idle'[e] = IF e = d THEN 0 ELSE idle[e]
  BY DEF Accept, TypeOK
<1>3. \A e \in Daemons \ {d} :
        Places(e)' = Places(e) /\ (\A i : Who(e, i)' = Who(e, i)) /\ \A k : Ahead(e, k)' = Ahead(e, k)
  BY <1>1, Unmoved DEF Accept, TypeOK, Ahead
<1>4. \A i \in Places(d)' : i \in Nat /\ i + 1 \in Places(d) /\ Who(d, i)' = Who(d, i + 1)
  BY AcceptedMovesUp
<1>5. \A k \in Places(d)' : \A i \in Ahead(d, k)' : i \in Nat /\ i + 1 \in Ahead(d, k + 1)
  BY <1>1, <1>4 DEF Ahead
<1>6. ASSUME NEW k \in Places(d)', Who(d, k)' \in (Waiting \cap Patient)'
      PROVE  HeldByOne(d, k)'
  <2>1. HeldByOne(d, k + 1) /\ wait'[Who(d, k)'] = wait[Who(d, k + 1)]
    BY <1>1, <1>4, <1>6 DEF PatienceInv
  <2>2. \A i, j \in Ahead(d, k)' : i = j
    BY <1>5, <2>1 DEF HeldByOne
  <2>3. wait'[Who(d, k)'] > 0 => Ahead(d, k)' = {}
    <3>1. \A i \in Nat : i + 1 # 0
      OBVIOUS
    <3> QED BY <1>5, <2>1, <3>1 DEF HeldByOne
  <2>4. wait'[Who(d, k)'] \in Nat /\ idle'[d] = 0
    BY <1>1, <1>2, <1>4, PlaceFacts DEF TypeOK
  <2> QED BY <2>2, <2>3, <2>4 DEF HeldByOne
<1>7. ASSUME NEW e \in Daemons \ {d}, NEW k \in Places(e)',
             Who(e, k)' \in (Waiting \cap Patient)'
      PROVE  HeldByOne(e, k)'
  <2>1. HeldByOne(e, k)
    BY <1>1, <1>3, <1>7 DEF PatienceInv
  <2> QED BY <1>1, <1>2, <1>3, <2>1, HeldStill
<1>8. \A e \in Daemons : idle'[e] <= CONN_TIMEOUT
  BY <1>2 DEF PatienceInv, CONN_TIMEOUT
<1> QED
  BY <1>1, <1>6, <1>7, <1>8 DEF PatienceInv

(* A set that counts at most one has no two members. *)
LEMMA AtMostOne ==
  ASSUME NEW S, IsFiniteSet(S), Cardinality(S) <= 1
  PROVE  \A x, y \in S : x = y
<1> SUFFICES ASSUME NEW x \in S, NEW y \in S, x # y PROVE FALSE
  OBVIOUS
<1>1. {x, y} \subseteq S
  OBVIOUS
<1>2. Cardinality({x, y}) = 2
  <2>1. IsFiniteSet({x}) /\ Cardinality({x}) = 1
    BY FS_Singleton
  <2>2. {x, y} = {x} \cup {y} /\ y \notin {x}
    OBVIOUS
  <2>3. Cardinality({x} \cup {y}) = Cardinality({x}) + 1
    BY <2>1, <2>2, FS_AddElement
  <2> QED BY <2>1, <2>2, <2>3
<1>3. Cardinality({x, y}) <= Cardinality(S) /\ Cardinality(S) \in Nat
  BY <1>1, FS_Subset, FS_CardinalityType
<1> QED
  BY <1>2, <1>3

LEMMA NewcomerPatience ==
  ASSUME TypeOK, PlaceInv, PatienceInv, NEW c \in Clients, Connect(c)
  PROVE  PatienceInv'
<1>1. PICK d \in Daemons : d = path
  BY DEF Connect, Live, TypeOK
<1>2. /\ \A e \in Daemons \ {d} : backlog'[e] = backlog[e] /\ conn'[e] = conn[e]
      /\ \E n \in Nat \ {0} :
           /\ Places(d)' = Places(d) \cup {n}
           /\ \A i \in Places(d) : i < n /\ Who(d, i)' = Who(d, i)
           /\ Who(d, n)' = c
  BY <1>1, NewcomerIsLast
<1>3. \A e \in Daemons \ {d} : Places(e)' = Places(e) /\ \A i : Who(e, i)' = Who(e, i)
  BY <1>2, Unmoved
<1>4. PICK n \in Nat \ {0} :
        /\ Places(d)' = Places(d) \cup {n}
        /\ \A i \in Places(d) : i < n /\ Who(d, i)' = Who(d, i)
        /\ Who(d, n)' = c
  BY <1>2
<1>5. /\ at[c] = "new" /\ wait[c] = 0 /\ wait' = wait /\ idle' = idle
      /\ \A b \in Clients : b # c => at'[b] = at[b] /\ (b \in Patient' <=> b \in Patient)
  BY DEF Connect, TypeOK, PlaceInv, Patient
<1>6. \A e \in Daemons : \A i \in Places(e) : i \in Nat /\ Who(e, i) # c /\ Who(e, i) \in Clients
  BY <1>5, PlaceFacts DEF PlaceInv
<1>7. \A e \in Daemons : \A i \in Places(e) : at'[Who(e, i)] = at[Who(e, i)]
  BY <1>5, <1>6
<1>8. \A e \in Daemons : \A k \in Places(e) :
        k \in Places(e)' /\ Who(e, k)' = Who(e, k) /\ Ahead(e, k)' = Ahead(e, k)
  <2>1. \A k \in Places(d) : ~(n < k)
    BY <1>4, <1>6
  <2>2. \A k \in Places(d) : Ahead(d, k)' = Ahead(d, k)
    BY <1>4, <1>7, <2>1 DEF Ahead
  <2>3. \A e \in Daemons \ {d} : \A k : Ahead(e, k)' = Ahead(e, k)
    BY <1>3, <1>7 DEF Ahead
  <2> QED BY <1>3, <1>4, <2>2, <2>3
<1>9. ASSUME NEW e \in Daemons, NEW k \in Places(e),
             Who(e, k)' \in (Waiting \cap Patient)'
      PROVE  HeldByOne(e, k)'
  <2>1. Who(e, k)' = Who(e, k) /\ Who(e, k) \in Waiting \cap Patient
    BY <1>5, <1>6, <1>7, <1>8, <1>9 DEF Waiting
  <2>2. HeldByOne(e, k)
    BY <2>1 DEF PatienceInv
  <2> QED BY <1>5, <1>8, <2>2, HeldStill
<1>10. ASSUME c \in (Waiting \cap Patient)' PROVE HeldByOne(d, n)'
  <2> DEFINE M == {m \in Connected(d) \cap Peers : at[m] = "waiting"}
  <2>1. Cardinality(M) <= 1
    BY <1>1, <1>10 DEF Connect, TypeOK, Waiting, Patient
  <2>2. M \subseteq Clients
    OBVIOUS
  <2>3. IsFiniteSet(M)
    BY <2>2, ClientsAssumption, FS_Subset
  <2>4. \A x, y \in M : x = y
    BY <1>10, <2>1, <2>3, AtMostOne
  <2>5. \A i \in Ahead(d, n)' : i \in Places(d) /\ Who(d, i) \in M
    <3> SUFFICES ASSUME NEW i \in Ahead(d, n)' PROVE i \in Places(d) /\ Who(d, i) \in M
      OBVIOUS
    <3>1. i \in Places(d)' /\ i < n /\ Who(d, i)' \in Peers /\ at'[Who(d, i)'] = "waiting"
      BY DEF Ahead
    <3>2. i \in Places(d)
      BY <1>4, <3>1
    <3>3. Who(d, i) \in Peers /\ at[Who(d, i)] = "waiting"
      BY <1>4, <1>7, <3>1, <3>2
    <3>4. Who(d, i) \in Connected(d)
      BY <3>2 DEF Connected, Places, Who
    <3> QED BY <3>2, <3>3, <3>4
  <2>6. \A i, j \in Ahead(d, n)' : i = j
    BY <2>4, <2>5 DEF PlaceInv, OnePlace
  <2>7. wait'[Who(d, n)'] = 0 /\ idle'[d] \in Nat
    BY <1>4, <1>5 DEF TypeOK
  <2> QED BY <2>6, <2>7 DEF HeldByOne
<1>11. \A b \in (Waiting \cap Patient)' : wait'[b] <= CONN_TIMEOUT
  BY <1>5 DEF PatienceInv, Waiting, Patient, CONN_TIMEOUT
<1>12. \A e \in Daemons : \A k \in Places(e)' :
         Who(e, k)' \in (Waiting \cap Patient)' => HeldByOne(e, k)'
  <2>1. \A e \in Daemons : \A k \in Places(e)' : k \in Places(e) \/ (e = d /\ k = n)
    BY <1>3, <1>4
  <2> QED BY <1>4, <1>9, <1>10, <2>1
<1> QED
  BY <1>5, <1>11, <1>12 DEF PatienceInv

(* Time passes for a client with one peer ahead only while that one is served. *)
LEMMA TickPatience ==
  ASSUME TypeOK, QueueInv, PlaceInv, PatienceInv, Tick
  PROVE  PatienceInv'
<1>1. /\ UNCHANGED << backlog, conn, at, peersAhead, talkedOver >>
      /\ \A d \in Daemons : ~Busy(d)
      /\ wait' = [c \in Clients |-> IF c \in Waiting THEN wait[c] + 1 ELSE wait[c]]
      /\ idle' = [d \in Daemons |-> IF d \in Serving THEN idle[d] + 1 ELSE idle[d]]
  BY DEF Tick
<1>2. \A d \in Daemons : Places(d)' = Places(d) /\ \A i : Who(d, i)' = Who(d, i) /\ Ahead(d, i)' = Ahead(d, i)
  BY <1>1 DEF Places, Who, Ahead
<1>3. Waiting' = Waiting /\ Patient' = Patient
  BY <1>1 DEF Waiting, Patient
<1>4. \A d \in Daemons : idle'[d] <= CONN_TIMEOUT
  <2> SUFFICES ASSUME NEW d \in Daemons PROVE idle'[d] <= CONN_TIMEOUT
    OBVIOUS
  <2>1. idle[d] \in Nat /\ idle[d] <= 5
    BY DEF TypeOK, PatienceInv, CONN_TIMEOUT
  <2>2. CASE d \in Serving
    <3>1. conn[d] \in Peers /\ idle[d] # 5
      BY <1>1, <2>2 DEF Busy, Serving, TypeOK, CONN_TIMEOUT
    <3> QED BY <1>1, <2>1, <2>2, <3>1 DEF CONN_TIMEOUT
  <2>3. CASE d \notin Serving
    BY <1>1, <2>1, <2>3 DEF CONN_TIMEOUT
  <2> QED BY <2>2, <2>3
<1>5. ASSUME NEW d \in Daemons, NEW k \in Places(d), Who(d, k) \in Waiting \cap Patient
      PROVE  /\ HeldByOne(d, k)'
             /\ wait'[Who(d, k)] <= CONN_TIMEOUT
  <2> DEFINE c == Who(d, k)
  <2>1. HeldByOne(d, k) /\ c \in Clients \ Peers /\ k \in Nat
    BY <1>5, PlaceFacts DEF PatienceInv, Waiting
  <2>2. k # 0
    BY <1>1, <2>1 DEF Busy, Who
  <2>3. Listening(d) /\ backlog[d] # << >>
    <3>1. k \in 1..Len(backlog[d])
      BY <1>5, <2>2, PlaceFacts
    <3>2. Len(<< >>) = 0 /\ ~(1 <= k /\ k <= 0)
      BY <2>1
    <3>3. backlog[d] # << >>
      BY <3>1, <3>2
    <3> QED BY <3>3 DEF QueueInv
  <2>4. conn[d] \in Peers /\ at[conn[d]] # "closed"
    BY <1>1, <2>3 DEF Busy, TypeOK
  <2>5. 0 \in Places(d) /\ Who(d, 0) = conn[d] /\ d \in Serving
    BY <2>4, PlaceFacts DEF Who, Serving
  <2>6. 0 \in Ahead(d, k)
    BY <2>1, <2>2, <2>4, <2>5 DEF Ahead, PlaceInv
  <2>7. wait'[c] = wait[c] + 1 /\ idle'[d] = idle[d] + 1 /\ wait[c] \in Nat /\ idle[d] \in Nat
    BY <1>1, <1>5, <2>1, <2>5 DEF TypeOK
  <2>8. wait[c] <= idle[d]
    BY <2>1, <2>6 DEF HeldByOne
  <2> HIDE DEF c
  <2>9. wait'[c] <= idle'[d]
    BY <2>7, <2>8
  <2>10. Ahead(d, k) \subseteq {0} /\ \A i, j \in Ahead(d, k) : i = j
    BY <2>1, <2>6 DEF HeldByOne
  <2>11. HeldByOne(d, k)'
    BY <1>2, <2>9, <2>10 DEF HeldByOne, c
  <2>12. wait'[c] <= CONN_TIMEOUT
    <3>1. idle'[d] <= 5 /\ idle'[d] \in Nat /\ wait'[c] \in Nat
      BY <1>4, <2>7 DEF CONN_TIMEOUT
    <3> QED BY <2>9, <3>1 DEF CONN_TIMEOUT
  <2> QED BY <2>11, <2>12 DEF c
<1>6. \A c \in Waiting \cap Patient : wait'[c] <= CONN_TIMEOUT
  <2> SUFFICES ASSUME NEW c \in Waiting \cap Patient PROVE wait'[c] <= CONN_TIMEOUT
    OBVIOUS
  <2>1. \E d \in Daemons : \E k \in Places(d) : Who(d, k) = c
    BY DEF PlaceInv, Waiting
  <2> QED BY <1>5, <2>1
<1> QED
  BY <1>1, <1>2, <1>3, <1>4, <1>5, <1>6 DEF PatienceInv

(* A line is read: those behind the peer that has sent it are patient no more. *)
LEMMA ReadPatience ==
  ASSUME TypeOK, QueueInv, PlaceInv, PatienceInv, NEW d \in Daemons, ReadLine(d)
  PROVE  PatienceInv'
<1>1. UNCHANGED << backlog, conn, at, wait, peersAhead >> /\ Waiting' = Waiting
  BY DEF ReadLine, Waiting
<1>2. \A e \in Daemons : idle'[e] = IF e = d THEN 0 ELSE idle[e]
  BY DEF ReadLine, TypeOK
<1>3. \A e \in Daemons : Places(e)' = Places(e) /\ \A i : Who(e, i)' = Who(e, i) /\ Ahead(e, i)' = Ahead(e, i)
  BY <1>1 DEF Places, Who, Ahead
<1>4. Patient' \subseteq Patient
  BY <1>1 DEF ReadLine, Patient
<1>5. \A k \in Places(d) : Who(d, k) \notin (Waiting \cap Patient)'
  <2> SUFFICES ASSUME NEW k \in Places(d), Who(d, k) \in Clients \ Peers PROVE Who(d, k) \in talkedOver'
    BY <1>1 DEF Waiting, Patient
  <2>1. k \in DOMAIN backlog[d] /\ Who(d, k) = backlog[d][k]
    BY PeersAssumption DEF ReadLine, Places, Who, TypeOK
  <2> QED BY <2>1 DEF ReadLine
<1>6. ASSUME NEW e \in Daemons, NEW k \in Places(e)', Who(e, k)' \in (Waiting \cap Patient)'
      PROVE  HeldByOne(e, k)'
  <2>1. e # d /\ HeldByOne(e, k)
    BY <1>1, <1>3, <1>4, <1>5, <1>6 DEF PatienceInv
  <2> QED BY <1>1, <1>2, <1>3, <2>1, HeldStill
<1>7. \A e \in Daemons : idle'[e] <= CONN_TIMEOUT
  BY <1>2 DEF PatienceInv, CONN_TIMEOUT
<1> QED
  BY <1>1, <1>4, <1>6, <1>7 DEF PatienceInv

LEMMA NextPatience == IInv /\ PlaceInv /\ PatienceInv /\ [Next]_vars => PatienceInv'
<1> SUFFICES ASSUME IInv, PlaceInv, PatienceInv, [Next]_vars PROVE PatienceInv'
  OBVIOUS
<1>0. TypeOK /\ QueueInv
  BY DEF IInv
<1>1. ASSUME NEW d \in Daemons, Boot(d) \/ Sigterm(d) PROVE PatienceInv'
  <2>1. UNCHANGED << server, client >>
    BY <1>1 DEF Boot, Launch, Loaded, Ensure, Clear, Bind, Sigterm
  <2> QED BY <2>1 DEF PatienceInv, HeldByOne, Ahead, Places, Who, Waiting, Patient, server, client
<1>2. ASSUME NEW d \in Daemons, Serve(d) PROVE PatienceInv'
  <2>1. CASE Accept(d)
    BY <1>0, <2>1, AcceptedPatience
  <2>2. CASE Handle(d)
    <3>1. PICK o \in Outcomes \ {"new", "waiting"} : at' = [at EXCEPT ![conn[d]] = o]
      <4>1. at[conn[d]] \in Outcomes \ {"new"}
        BY <1>0, <2>2, PlaceFacts DEF Handle, PlaceInv, TypeOK, Who
      <4> QED BY <4>1, <2>2 DEF Handle, Outcomes
    <3> QED BY <1>0, <2>2, <3>1, ServedPatience DEF Handle, Patient
  <2>3. CASE ReadsEof(d)
    <3>1. at' = [at EXCEPT ![conn[d]] = "closed"]
      BY <1>0, <2>3 DEF ReadsEof, TypeOK, client
    <3>2. Hangup(d) /\ conn[d] \in Clients /\ wait' = wait /\ Patient' = Patient
      BY <2>3 DEF ReadsEof, client, Patient
    <3> QED BY <1>0, <3>1, <3>2, ServedPatience DEF Outcomes
  <2>4. CASE Drop(d)
    <3>1. PICK o \in Outcomes \ {"new", "waiting"} : at' = [at EXCEPT ![conn[d]] = o]
      <4>1. at[conn[d]] \in Outcomes \ {"new"}
        BY <1>0, <2>4, PlaceFacts DEF Drop, PlaceInv, TypeOK, Who
      <4> QED BY <4>1, <2>4 DEF Drop, Outcomes
    <3> QED BY <1>0, <2>4, <3>1, ServedPatience DEF Drop, Patient
  <2>5. CASE Leave(d)
    BY <1>0, <2>5, EndedPatience DEF Leave, Patient
  <2> QED BY <1>2, <2>1, <2>2, <2>3, <2>4, <2>5 DEF Serve
<1>3. ASSUME NEW d \in Daemons, ReadLine(d) \/ Kill(d) PROVE PatienceInv'
  <2>1. CASE ReadLine(d)
    BY <1>0, <2>1, ReadPatience
  <2>2. CASE Kill(d)
    BY <1>0, <2>2, EndedPatience DEF Kill, Patient
  <2> QED BY <1>3, <2>1, <2>2
<1>4. ASSUME NEW c \in Clients, Connect(c) PROVE PatienceInv'
  BY <1>0, <1>4, NewcomerPatience
<1>5. ASSUME NEW c \in Clients, GiveUp(c) \/ PeerCloses(c) PROVE PatienceInv'
  <2>1. /\ UNCHANGED << server, wait, peersAhead, talkedOver >>
        /\ at' = [at EXCEPT ![c] = "timed_out"] \/ at' = [at EXCEPT ![c] = "closed"]
    BY <1>5 DEF GiveUp, PeerCloses
  <2>2. \A e \in Daemons : Places(e)' = Places(e) /\ \A i : Who(e, i)' = Who(e, i)
    BY <2>1 DEF server, Places, Who
  <2>3. \A b \in Clients : at'[b] = "waiting" => at[b] = "waiting"
    BY <1>0, <2>1 DEF TypeOK
  <2>4. Waiting' \subseteq Waiting /\ Patient' = Patient
    BY <2>1, <2>3 DEF Waiting, Patient
  <2>5. \A e \in Daemons : \A i \in Places(e) : Who(e, i) \in Clients
    BY <1>0, PlaceFacts
  <2>6. \A e \in Daemons : \A k : Ahead(e, k)' \subseteq Ahead(e, k)
    BY <2>2, <2>3, <2>5 DEF Ahead
  <2>7. \A e \in Daemons : \A k : HeldByOne(e, k) => HeldByOne(e, k)'
    BY <2>1, <2>2, <2>6, HeldStill DEF server
  <2> QED BY <2>1, <2>2, <2>4, <2>7 DEF PatienceInv, server
<1>6. CASE Tick
  BY <1>0, <1>6, TickPatience
<1>7. CASE Finished \/ UNCHANGED vars
  BY <1>7 DEF Finished, vars, server, client, PatienceInv, HeldByOne, Ahead, Places, Who, Waiting, Patient
<1> QED
  BY <1>1, <1>2, <1>3, <1>4, <1>5, <1>6, <1>7 DEF Next

(* Only GiveUp runs out of patience, and by then two peers were ahead, or one had talked. *)
LEMMA NextAnswered ==
  IInv /\ PlaceInv /\ PatienceInv /\ AnsweredInTime /\ [Next]_vars => AnsweredInTime'
<1> SUFFICES ASSUME IInv, PlaceInv, PatienceInv, AnsweredInTime, [Next]_vars,
                    NEW c \in Clients, at'[c] = "timed_out"
             PROVE peersAhead'[c] >= 2 \/ c \in talkedOver'
  BY DEF AnsweredInTime
<1>0. TypeOK
  BY DEF IInv
<1>1. CASE GiveUp(c)
  <2>1. c \in Waiting /\ wait[c] = 10 /\ UNCHANGED << peersAhead, talkedOver >> /\ peersAhead[c] \in Nat
    BY <1>0, <1>1 DEF GiveUp, Waiting, TIMEOUT, TypeOK
  <2>2. ~(peersAhead[c] <= 1 /\ c \notin talkedOver)
    BY <2>1 DEF PatienceInv, CONN_TIMEOUT, Patient
  <2> QED BY <2>1, <2>2
<1>2. CASE ~GiveUp(c)
  <2>1. at[c] = "timed_out" /\ peersAhead'[c] = peersAhead[c] /\ talkedOver \subseteq talkedOver'
    <3>1. ASSUME NEW d \in Daemons, Boot(d) \/ Sigterm(d) PROVE UNCHANGED client
      BY <3>1 DEF Boot, Launch, Loaded, Ensure, Clear, Bind, Sigterm
    <3>2. ASSUME NEW d \in Daemons, Serve(d)
          PROVE  (at'[c] = "timed_out" => at[c] = "timed_out") /\ UNCHANGED << peersAhead, talkedOver >>
      BY <1>0, <3>2 DEF Serve, Accept, Handle, ReadsEof, Drop, Leave, Ends, TypeOK, client
    <3>3. ASSUME NEW d \in Daemons, Kill(d) \/ ReadLine(d)
          PROVE  (at'[c] = "timed_out" => at[c] = "timed_out") /\ peersAhead' = peersAhead /\ talkedOver \subseteq talkedOver'
      BY <1>0, <3>3 DEF Kill, Ends, ReadLine, TypeOK
    <3>4. ASSUME NEW b \in Clients, Connect(b)
          PROVE  at'[c] = "timed_out" => at[c] = "timed_out" /\ peersAhead'[c] = peersAhead[c] /\ UNCHANGED talkedOver
      BY <1>0, <3>4 DEF Connect, TypeOK
    <3>5. ASSUME NEW b \in Clients, GiveUp(b) \/ PeerCloses(b)
          PROVE  (at'[c] = "timed_out" => at[c] = "timed_out") /\ UNCHANGED << peersAhead, talkedOver >>
      <4>1. b # c \/ PeerCloses(c)
        BY <1>2, <3>5
      <4> QED BY <1>0, <3>5, <4>1 DEF GiveUp, PeerCloses, TypeOK
    <3>6. Tick \/ Finished \/ UNCHANGED vars => UNCHANGED << at, peersAhead, talkedOver >>
      BY DEF Tick, Finished, vars, client
    <3> QED BY <1>2, <3>1, <3>2, <3>3, <3>4, <3>5, <3>6 DEF Next, client
  <2> QED BY <2>1 DEF AnsweredInTime
<1> QED
  BY <1>1, <1>2

(* Every client has one place, and one silent peer ahead of it costs it no       *)
(* more than the daemon's patience (server.rs serve, handle_conn).                *)
THEOREM WaitInductive == Spec => []WaitInv
<1>1. Init => WaitInv
  <2> SUFFICES ASSUME Init PROVE WaitInv
    OBVIOUS
  <2>1. \A d \in Daemons : Places(d) = {}
    BY DEF Init, Places
  <2>2. Waiting = {}
    BY DEF Init, Waiting
  <2> QED
    BY <2>1, <2>2 DEF Init, WaitInv, PlaceInv, OnePlace, PatienceInv, AnsweredInTime, CONN_TIMEOUT
<1>2. IInv /\ WaitInv /\ [Next]_vars => WaitInv'
  BY NextPlace, NextPatience, NextAnswered DEF WaitInv
<1> QED
  BY <1>1, <1>2, Inductive, PTL DEF Spec

(* AnsweredInTime: the client's patience outlasts the daemon's, whatever the       *)
(* number of clients and whenever they connect (client main.rs:15-18).             *)
THEOREM OnePeerIsOutwaited == Spec => []AnsweredInTime
<1>1. WaitInv => AnsweredInTime
  BY DEF WaitInv
<1> QED
  BY <1>1, WaitInductive, PTL
=============================================================================
