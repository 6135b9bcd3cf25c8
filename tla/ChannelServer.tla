---------------------------- MODULE ChannelServer ----------------------------
(* The channel server and the processes connected to it: channel.py         *)
(* clients, each for some chats or for all of them (developers, who observe)*)
(* and the web application, whose bridge carries all browser sessions over  *)
(* one connection. A message from Feishu or from a browser is routed to one *)
(* instance, or to the pool, and copied to the observers.                   *)
(* Both ends of a connection notice its loss at their own time: the server  *)
(* when it has read what was sent before, the client when it reads.         *)
EXTENDS Integers, Sequences, FiniteSets, SequencesExt

CONSTANTS Clients,      \* processes running channel.py
          ChatsOf,      \* the chats each client registers by name
          Observers,    \* the clients that register "*"
          Tabs,         \* browser sessions
          TabChat,      \* the chat of each
          FeishuChats,  \* chats of Feishu
          AdminChat,    \* the administrator's chat, not given to the pool
          PoolMode,     \* BOOLEAN: instances are assigned from the pool
          Conns,        \* connections, enough for each process to open the next
          Owner,        \* the process that opens each
          MaxRouted,    \* bound on the messages routed
          MaxDrops      \* bound on the connections lost

VARIABLES
  link,         \* per connection: "open", "lost" to the server yet, "ended"
  toServer,     \* per connection: frames the server has not read
  ack,          \* per connection: the answer to register: "none", "registered", "error"
  registered,   \* the connections of _ws_to_instance
  exact,        \* exact_routes: chat -> connection, or None
  prefix,       \* prefix_routes["web_"]: a connection, or None
  wild,         \* wildcard_instances
  pooled,       \* pool_routes: chats bound to a pool instance
  route,        \* per source of messages: the call of route_message in progress
  routed,       \* messages routed so far
  copies,       \* history, per connection: how often it was sent each message
  client,       \* per client: [phase, conn]
  bridge,       \* the web application's bridge: [ws, connected]
  loops,        \* the connections its receive loops read
  tab,          \* per browser session: [phase, conn]
  shown,        \* the sessions that were shown a reply
  drops

server == <<registered, exact, prefix, wild, pooled>>
web    == <<bridge, loops, tab, shown>>
vars   == <<link, toServer, ack, server, route, routed, copies, client, web, drops>>

WebApp   == "web-app"
WebChats == {TabChat[t] : t \in Tabs}
AllChats == FeishuChats \cup WebChats
None     == "none"
Pool     == "pool"
Feishu   == "feishu"                       \* the source that is not a connection
Idle     == [m |-> 0, chat |-> None, at |-> 0, by |-> None]

ASSUME ChannelAssumption ==
  /\ IsFiniteSet(Conns) /\ Conns \cap {None, Pool, Feishu} = {}
  /\ \A k \in Conns : Owner[k] \in Clients \cup {WebApp}
  /\ WebApp \notin Clients
  /\ \A p \in Clients : ChatsOf[p] \subseteq AllChats
  /\ "register" \notin WebChats
  /\ MaxRouted \in Nat /\ MaxDrops \in Nat

Init ==
  /\ link = [k \in Conns |-> "ended"]
  /\ toServer = [k \in Conns |-> <<>>] /\ ack = [k \in Conns |-> "none"]
  /\ registered = {} /\ exact = [c \in AllChats |-> None] /\ prefix = None /\ wild = <<>>
  /\ pooled = {} /\ routed = 0
  /\ route = [s \in {Feishu} \cup Conns |-> Idle]
  /\ copies = [k \in Conns |-> [m \in 1..MaxRouted |-> 0]]
  /\ client = [p \in Clients |-> [phase |-> "down", conn |-> None]]
  /\ bridge = [ws |-> None, connected |-> FALSE] /\ loops = {}
  /\ tab = [t \in Tabs |-> [phase |-> "closed", conn |-> None]]
  /\ shown = {} /\ drops = 0

-------------------------------------------------------------------------------
(* Connections                                                              *)

InUse(k) == \/ link[k] # "ended"
            \/ k \in {client[p].conn : p \in Clients} \cup {tab[t].conn : t \in Tabs}
            \/ k = bridge.ws \/ k \in loops \/ k \in {route[s].by : s \in {Feishu} \cup Conns}

(* A process connects and sends its register frame.                         *)
FreeConns(p) == {k \in Conns : Owner[k] = p /\ ~InUse(k)}
Opens(p, k) ==
  /\ FreeConns(p) # {} /\ k = CHOOSE j \in FreeConns(p) : TRUE
  /\ link' = [link EXCEPT ![k] = "open"]
  /\ toServer' = [toServer EXCEPT ![k] = <<"register">>]

Drops(k) ==
  /\ link[k] = "open"
  /\ drops < MaxDrops
  /\ drops' = drops + 1
  /\ link' = [link EXCEPT ![k] = "lost"]
  /\ UNCHANGED <<toServer, ack, server, route, routed, copies, client, web>>

-------------------------------------------------------------------------------
(* ChannelClient.connect: connects, registers, reads; whatever ends that,   *)
(* it starts again.                                                         *)

ClientConnects(p) == \E k \in Conns :
  /\ client[p].phase = "down"
  /\ Opens(p, k)
  /\ client' = [client EXCEPT ![p] = [phase |-> "registering", conn |-> k]]
  /\ UNCHANGED <<ack, server, route, routed, copies, web, drops>>

ClientRegistered(p) ==
  /\ client[p].phase = "registering"
  /\ ack[client[p].conn] = "registered"
  /\ client' = [client EXCEPT ![p].phase = "up"]
  /\ UNCHANGED <<link, toServer, ack, server, route, routed, copies, web, drops>>

(* An error is raised, which closes the connection.                         *)
ClientRefused(p) ==
  /\ client[p].phase = "registering"
  /\ ack[client[p].conn] = "error"
  /\ client' = [client EXCEPT ![p] = [phase |-> "down", conn |-> None]]
  /\ link' = [link EXCEPT ![client[p].conn] = IF @ = "open" THEN "lost" ELSE @]
  /\ UNCHANGED <<toServer, ack, server, route, routed, copies, web, drops>>

ClientLoses(p) ==
  /\ client[p].phase \in {"registering", "up"}
  /\ link[client[p].conn] # "open"
  /\ client' = [client EXCEPT ![p] = [phase |-> "down", conn |-> None]]
  /\ UNCHANGED <<link, toServer, ack, server, route, routed, copies, web, drops>>

(* A tool call of the instance: a reply, or a UX event, for a browser.      *)
ClientReplies(p) == \E c \in WebChats :
  /\ client[p].phase = "up"
  /\ link[client[p].conn] = "open"
  /\ toServer[client[p].conn] = <<>>
  /\ ~ \E t \in shown : TabChat[t] = c
  /\ toServer' = [toServer EXCEPT ![client[p].conn] = <<c>>]
  /\ UNCHANGED <<link, ack, server, route, routed, copies, client, web, drops>>

-------------------------------------------------------------------------------
(* Registration                                                             *)

NamesOf(k) == IF Owner[k] = WebApp THEN {} ELSE ChatsOf[Owner[k]]
Frame(k) == Head(toServer[k])
Reads(k) == /\ link[k] # "ended"
            /\ route[k] = Idle
            /\ toServer[k] # <<>>
            /\ toServer' = [toServer EXCEPT ![k] = Tail(@)]

(* A defect: names that are taken are not looked for.                       *)
NoConflict(k) == FALSE

Conflict(k) == \E c \in NamesOf(k) : exact[c] # None

(* _handle_register: refused if a name is taken; nothing is awaited between *)
(* the check and the routes.                                                *)
HandleRegister(k) ==
  /\ Reads(k)
  /\ Frame(k) = "register"
  /\ IF Conflict(k)
     THEN ack' = [ack EXCEPT ![k] = "error"] /\ UNCHANGED server
     ELSE /\ ack' = [ack EXCEPT ![k] = "registered"]
          /\ registered' = registered \cup {k}
          /\ exact' = [c \in AllChats |-> IF c \in NamesOf(k) THEN k ELSE exact[c]]
          /\ prefix' = IF Owner[k] = WebApp THEN k ELSE prefix
          /\ wild' = IF Owner[k] \in Observers THEN Append(wild, k) ELSE wild
          /\ UNCHANGED pooled
  /\ UNCHANGED <<link, route, routed, copies, client, web, drops>>

(* A defect: the names of a lost connection stay taken.                     *)
UnregistersKeepsNames(k) ==
  IF k \notin registered THEN UNCHANGED server
  ELSE /\ registered' = registered \ {k}
       /\ prefix' = IF Owner[k] = WebApp THEN None ELSE prefix
       /\ wild' = RemoveFirst(wild, k)
       /\ UNCHANGED <<exact, pooled>>

(* _unregister: the routes go by name, the prefix whoever holds it now.     *)
Unregisters(k) ==
  IF k \notin registered THEN UNCHANGED server
  ELSE /\ registered' = registered \ {k}
       /\ exact' = [c \in AllChats |-> IF c \in NamesOf(k) THEN None ELSE exact[c]]
       /\ prefix' = IF Owner[k] = WebApp THEN None ELSE prefix
       /\ wild' = RemoveFirst(wild, k)
       /\ UNCHANGED pooled

(* The handler of a lost connection ends once it has read what had come.    *)
ServerEnds(k) ==
  /\ link[k] = "lost"
  /\ route[k] = Idle
  /\ toServer[k] = <<>>
  /\ link' = [link EXCEPT ![k] = "ended"]
  /\ ack' = [ack EXCEPT ![k] = "none"]
  /\ copies' = [copies EXCEPT ![k] = [m \in 1..MaxRouted |-> 0]]
  /\ Unregisters(k)
  /\ UNCHANGED <<toServer, route, routed, client, web, drops>>

-------------------------------------------------------------------------------
(* route_message                                                            *)

(* A frame to a connection that is gone is dropped with a warning.          *)
Send(k, m) == copies' = [copies EXCEPT ![k][m] = @ + (IF link[k] = "open" THEN 1 ELSE 0)]

Dedicated(c) == IF exact[c] # None THEN exact[c] ELSE IF c \in WebChats THEN prefix ELSE None

Acquires(c) == PoolMode /\ c # AdminChat

(* exact > prefix > pool route > assignment from the pool. Acquiring awaits *)
(* the pool (at = 0); after that the observers are sent their copies.       *)
Begin(s, c) ==
  LET m == routed + 1
      k == Dedicated(c)
      Goes(by, at) == route' = [route EXCEPT ![s] = [m |-> m, chat |-> c, at |-> at, by |-> by]]
  IN /\ routed < MaxRouted
     /\ routed' = m
     /\ \/ k # None /\ Send(k, m) /\ Goes(k, 1)
        \/ k = None /\ c \in pooled /\ Goes(Pool, 1) /\ UNCHANGED copies
        \/ k = None /\ c \notin pooled /\ Goes(None, IF Acquires(c) THEN 0 ELSE 1) /\ UNCHANGED copies

(* The consumer of the Feishu queue routes one message after the other.     *)
FeishuMessage(c) ==
  /\ route[Feishu] = Idle
  /\ Begin(Feishu, c)
  /\ UNCHANGED <<link, toServer, ack, server, client, web, drops>>

HandleInbound(k) ==
  /\ Reads(k)
  /\ Owner[k] = WebApp
  /\ Frame(k) \in WebChats
  /\ Begin(k, Frame(k))
  /\ UNCHANGED <<link, ack, server, client, web, drops>>

(* acquire_sticky came back, with an instance or an error; the route is    *)
(* kept under the chat.                                                     *)
Acquired(s) ==
  /\ route[s].m # 0 /\ route[s].at = 0
  /\ \/ /\ pooled' = pooled \cup {route[s].chat}
        /\ route' = [route EXCEPT ![s].by = Pool, ![s].at = 1]
     \/ /\ route' = [route EXCEPT ![s].at = 1]
        /\ UNCHANGED pooled
  /\ UNCHANGED <<link, toServer, ack, registered, exact, prefix, wild, routed, copies,
                 client, web, drops>>

(* A defect: who handles the message is sent a copy as well.                *)
SameInstanceNever(k, by) == FALSE

SameInstance(k, by) == by \in Conns /\ Owner[k] = Owner[by]

(* The loop over the live list, an await in each round.                     *)
Observe(s) ==
  /\ route[s].at \in 1..Len(wild)
  /\ LET k == wild[route[s].at] IN
     IF SameInstance(k, route[s].by) THEN UNCHANGED copies ELSE Send(k, route[s].m)
  /\ route' = [route EXCEPT ![s].at = @ + 1]
  /\ UNCHANGED <<link, toServer, ack, server, routed, client, web, drops>>

RouteEnds(s) ==
  /\ route[s].at > Len(wild)
  /\ route' = [route EXCEPT ![s] = Idle]
  /\ UNCHANGED <<link, toServer, ack, server, routed, copies, client, web, drops>>

(* _handle_reply, _handle_ux_event: to the instance of the browser's chat,  *)
(* whose receive loop hands it to the session.                              *)
HandleReply(k) ==
  /\ Reads(k)
  /\ Owner[k] # WebApp
  /\ Frame(k) \in WebChats
  /\ LET d == Dedicated(Frame(k)) IN
     shown' = shown \cup {t \in Tabs : /\ TabChat[t] = Frame(k)
                                       /\ tab[t].phase = "served"
                                       /\ d # None /\ d \in loops /\ link[d] = "open"}
  /\ UNCHANGED <<link, ack, server, route, routed, copies, client, bridge, loops, tab, drops>>

-------------------------------------------------------------------------------
(* The web application: ws_chat and WebChannelBridge                        *)

TabIs(t, phase, k) == tab' = [tab EXCEPT ![t] = [phase |-> phase, conn |-> k]]

(* ensure_connected: nothing to do, or a connection to open, whoever else   *)
(* is opening one.                                                          *)
TabOpens(t) ==
  /\ tab[t].phase = "closed"
  /\ TabIs(t, IF bridge.ws # None /\ bridge.connected THEN "served" ELSE "connecting", None)
  /\ UNCHANGED <<link, toServer, ack, server, route, routed, copies, client,
                 bridge, loops, shown, drops>>

TabConnects(t) == \E k \in Conns :
  /\ tab[t].phase = "connecting"
  /\ Opens(WebApp, k)
  /\ bridge' = [bridge EXCEPT !.ws = k]
  /\ TabIs(t, "registering", k)
  /\ UNCHANGED <<ack, server, route, routed, copies, client, loops, shown, drops>>

(* The loop reads self._ws, which another caller may have replaced: two     *)
(* readers of one connection are an error, which ends the loop.             *)
TabRegistered(t) ==
  LET w == bridge.ws
      Busy == w \in loops \/ \E u \in Tabs \ {t} : tab[u] = [phase |-> "registering", conn |-> w]
  IN /\ tab[t].phase = "registering"
     /\ ack[tab[t].conn] # "none"
     /\ TabIs(t, "served", None)
     /\ bridge' = [bridge EXCEPT !.connected = ~Busy]
     /\ loops' = IF Busy THEN loops ELSE loops \cup {w}
     /\ UNCHANGED <<link, toServer, ack, server, route, routed, copies, client, shown, drops>>

(* The socket was lost before the answer: the browser is told and closed.   *)
TabFails(t) ==
  /\ tab[t].phase = "registering"
  /\ link[tab[t].conn] # "open"
  /\ TabIs(t, "closed", None)
  /\ UNCHANGED <<link, toServer, ack, server, route, routed, copies, client,
                 bridge, loops, shown, drops>>

LoopEnds(k) ==
  /\ k \in loops
  /\ link[k] # "open"
  /\ loops' = loops \ {k}
  /\ bridge' = [bridge EXCEPT !.connected = FALSE]
  /\ UNCHANGED <<link, toServer, ack, server, route, routed, copies, client, tab, shown, drops>>

(* A message of the browser; with the socket gone the session ends.         *)
TabSends(t) ==
  /\ tab[t].phase = "served"
  /\ LET w == bridge.ws IN
     IF link[w] = "open"
     THEN /\ toServer[w] = <<>>
          /\ routed < MaxRouted
          /\ toServer' = [toServer EXCEPT ![w] = <<TabChat[t]>>]
          /\ UNCHANGED tab
     ELSE TabIs(t, "closed", None) /\ UNCHANGED toServer
  /\ UNCHANGED <<link, ack, server, route, routed, copies, client, bridge, loops, shown, drops>>

TabCloses(t) ==
  /\ tab[t].phase = "served"
  /\ TabIs(t, "closed", None)
  /\ UNCHANGED <<link, toServer, ack, server, route, routed, copies, client,
                 bridge, loops, shown, drops>>

-------------------------------------------------------------------------------
Sources == {Feishu} \cup Conns

Next == \/ \E p \in Clients : \/ ClientConnects(p) \/ ClientRegistered(p) \/ ClientRefused(p)
                              \/ ClientLoses(p) \/ ClientReplies(p)
        \/ \E k \in Conns : \/ Drops(k) \/ HandleRegister(k) \/ ServerEnds(k)
                            \/ HandleInbound(k) \/ HandleReply(k) \/ LoopEnds(k)
        \/ \E c \in FeishuChats : FeishuMessage(c)
        \/ \E s \in Sources : Acquired(s) \/ Observe(s) \/ RouteEnds(s)
        \/ \E t \in Tabs : \/ TabOpens(t) \/ TabConnects(t) \/ TabRegistered(t) \/ TabFails(t)
                           \/ TabSends(t) \/ TabCloses(t)

(* A process that is down tries again, each handler goes on, and the pool   *)
(* answers: it waits for an instance with a timeout.                        *)
Fairness ==
  /\ \A p \in Clients : WF_vars(ClientConnects(p) \/ ClientRegistered(p) \/ ClientRefused(p)
                                 \/ ClientLoses(p))
  /\ \A k \in Conns : WF_vars(HandleRegister(k) \/ HandleInbound(k) \/ HandleReply(k)
                               \/ ServerEnds(k) \/ LoopEnds(k))
  /\ \A s \in Sources : WF_vars(Acquired(s) \/ Observe(s) \/ RouteEnds(s))
  /\ \A t \in Tabs : WF_vars(TabConnects(t) \/ TabRegistered(t) \/ TabFails(t))

Spec == Init /\ [][Next]_vars /\ Fairness

-------------------------------------------------------------------------------
(* Properties                                                               *)

(* Every variable has its type.                                             *)
TypeOK ==
  /\ link \in [Conns -> {"open", "lost", "ended"}]
  /\ toServer \in [Conns -> Seq({"register"} \cup WebChats)]
  /\ ack \in [Conns -> {"none", "registered", "error"}]
  /\ registered \subseteq Conns
  /\ exact \in [AllChats -> Conns \cup {None}] /\ prefix \in Conns \cup {None}
  /\ wild \in Seq(Conns) /\ pooled \subseteq AllChats
  /\ routed \in 0..MaxRouted /\ drops \in 0..MaxDrops
  /\ route \in [Sources -> [m : 0..MaxRouted, chat : AllChats \cup {None}, at : 0..(Cardinality(Conns) + 1),
                            by : Conns \cup {None, Pool}]]
  /\ copies \in [Conns -> [1..MaxRouted -> {0, 1, 2}]]
  /\ client \in [Clients -> [phase : {"down", "registering", "up"}, conn : Conns \cup {None}]]
  /\ bridge \in [ws : Conns \cup {None}, connected : BOOLEAN] /\ loops \subseteq Conns
  /\ tab \in [Tabs -> [phase : {"closed", "connecting", "registering", "served"},
                       conn : Conns \cup {None}]]
  /\ shown \subseteq Tabs

(* The route tables and the registrations tell the same story: each chat    *)
(* registered by name leads to the connection that registered it, for as    *)
(* long as that is registered, and an observer is in the list once          *)
(* (_handle_register, _unregister: routes are set and removed by name).     *)
RoutesAreOwned ==
  /\ TypeOK
  /\ \A c \in AllChats : exact[c] # None => exact[c] \in registered /\ c \in NamesOf(exact[c])
  /\ \A k \in registered : link[k] # "ended" /\ \A c \in NamesOf(k) : exact[c] = k
  /\ prefix # None => prefix \in registered /\ Owner[prefix] = WebApp
  /\ Cardinality(ToSet(wild)) = Len(wild)
  /\ ToSet(wild) = {k \in registered : Owner[k] \in Observers}

(* No connection is sent a message twice, although instances come and go    *)
(* while the loop over the observers waits, and an instance may be both the *)
(* handler and an observer (route_message).                                 *)
CopiedOnce == \A k \in Conns, m \in 1..MaxRouted : copies[k][m] <= 1

(* A client that lost its connection is registered again, although its new  *)
(* registration may meet the routes of the old one and be refused.          *)
ClientsReturn == \A p \in Clients : []<>(client[p].phase = "up")
=============================================================================
