------------------------ MODULE InspectorServerProofs ------------------------
(***************************************************************************)
(* The remote inspector's two maps, connections, views and timers agree,   *)
(* for any views, connections and bounds.                                  *)
(***************************************************************************)
EXTENDS InspectorServer, TLAPS

\* A page belongs to a WebSocket connection, and only to a listed one.
ConnInv ==
    \A c \in Conns : conns[c].id # NoPage =>
        conns[c].place = "listed" /\ conns[c].mode = "WebSocket"

\* The connection that is being read is not deleted meanwhile.
LoopInv == loop.conn \in Conns => conns[loop.conn].place = "listed"

\* Without a server nothing is registered or connected.
ServerInv ==
    ~server.alive => \A p \in Pages : clientMap[p] = NoView /\ connMap[p] = NoConn

ServerListens == server.alive = server.listening

\* A client is that of an existing view.
ViewInv == \A v \in Views : views[v].client => views[v].exists

IInv ==
    /\ TypeOK /\ ConnInv /\ LoopInv /\ ServerInv /\ ServerListens /\ ViewInv
    /\ MapsMatch /\ RegisteredIsKnown /\ ConnectedIsTold /\ HandleTimerArmed

Loops == [conn : Conns, at : {"select", "frames", "dispatch", "write"}] \cup {NotReading}
Crashes == {"no", "noServer", "noClient"}

\* Identifiers of pages are positive.
LEMMA PagesFacts == NoPage \notin Pages /\ 1 \in 1..(MaxPage + 1)
BY ConstAssumption DEF Pages, NoPage

\* A connection before it is accepted and after it is deleted, and a view
\* before it is created.
LEMMA NewFacts ==
    /\ NewConn \in Conn /\ NewConn.place = "none" /\ NewConn.id = NoPage
    /\ [NewConn EXCEPT !.place = "gone"] \in Conn
    /\ [NewConn EXCEPT !.place = "gone"].place = "gone"
    /\ [NewConn EXCEPT !.place = "gone"].id = NoPage
    /\ NewView \in View /\ ~NewView.client /\ ~NewView.exists /\ NewView.page = NoPage
<1>1. 0 \in 0..MaxRequests BY ConstAssumption
<1>2. NewConn \in Conn BY <1>1 DEF NewConn, Conn
<1>3. [NewConn EXCEPT !.place = "gone"] \in Conn BY <1>2 DEF Conn
<1>4. [NewConn EXCEPT !.place = "gone"].place = "gone" BY <1>2 DEF Conn
<1>5. [NewConn EXCEPT !.place = "gone"].id = NoPage BY DEF NewConn
<1>6. NewView \in View BY DEF NewView, View
<1> QED BY <1>2, <1>3, <1>4, <1>5, <1>6 DEF NewConn, NewView

----------------------------------------------------------------------------
(* What the handle's operations leave alone.                                *)

\* close() of a handle.
LEMMA ShutdownFields ==
    ASSUME NEW k \in Conn
    PROVE  /\ Shutdown(k) \in Conn
           /\ Shutdown(k).place = k.place /\ Shutdown(k).id = k.id /\ Shutdown(k).mode = k.mode
           /\ (Shutdown(k).timer = k.timer /\ Shutdown(k).progress = k.progress) \/ Shutdown(k).timer
<1>1. CASE k.state = "Closed" BY <1>1 DEF Shutdown, Conn
<1>2. CASE k.state # "Closed" /\ k.buf BY <1>2 DEF Shutdown, Conn
<1>3. CASE k.state # "Closed" /\ ~k.buf BY <1>3 DEF Shutdown, Conn
<1> QED BY <1>1, <1>2, <1>3

\* send() of a handle.
LEMMA SendsFields ==
    ASSUME NEW k \in Conn, NEW m \in Sends(k)
    PROVE  /\ m \in Conn
           /\ m.place = k.place /\ m.id = k.id /\ m.mode = k.mode
           /\ m.timer = k.timer /\ m.progress = k.progress
<1>1. m = k \/ m = [k EXCEPT !.buf = TRUE] BY DEF Sends
<1> QED BY <1>1 DEF Conn

\* A step that changes one connection's record and leaves page and place alone.
LEMMA ConnStep ==
    ASSUME IInv, NEW c \in Conns, NEW m \in Conn, conns' = [conns EXCEPT ![c] = m],
           m.place = conns[c].place, m.id = conns[c].id, m.id # NoPage => m.mode = "WebSocket",
           m.place = "listed" => m.timer \/ loop'.conn = c \/ m.progress = "EError",
           loop' \in Loops, loop.conn \in {c, loop'.conn},
           loop'.conn \in Conns => conns[loop'.conn].place = "listed",
           crashed' \in Crashes,
           UNCHANGED <<server, nextPage, clientMap, connMap, views>>
    PROVE  IInv'
<1>1. TypeOK' BY DEF IInv, TypeOK, Loops, Crashes
<1>2. \A d \in Conns : /\ conns'[d].place = conns[d].place /\ conns'[d].id = conns[d].id
                       /\ conns'[d].id # NoPage => conns'[d].mode = "WebSocket"
  BY DEF IInv, TypeOK, ConnInv
<1>3. ConnInv' BY <1>2 DEF IInv, ConnInv
<1>4. LoopInv' BY <1>2 DEF LoopInv
<1>5. MapsMatch' BY <1>2 DEF IInv, MapsMatch
<1>6. HandleTimerArmed'
  <2> SUFFICES ASSUME NEW d \in Conns, conns'[d].place = "listed"
               PROVE  conns'[d].timer \/ loop'.conn = d \/ conns'[d].progress = "EError"
    BY DEF HandleTimerArmed
  <2>1. CASE d = c BY <2>1 DEF IInv, TypeOK
  <2>2. CASE d # c
    <3>1. conns'[d] = conns[d] BY <2>2 DEF IInv, TypeOK
    <3> QED BY <2>2, <3>1 DEF IInv, HandleTimerArmed
  <2> QED BY <2>1, <2>2
<1>7. ServerInv' /\ ServerListens' /\ ViewInv' /\ RegisteredIsKnown' /\ ConnectedIsTold'
  BY DEF IInv, ServerInv, ServerListens, ViewInv, RegisteredIsKnown, ConnectedIsTold
<1> QED BY <1>1, <1>3, <1>4, <1>5, <1>6, <1>7 DEF IInv

\* A step of the reading connection that changes no record.
LEMMA ReadStep ==
    ASSUME IInv, NEW c \in Conns, loop.conn = c, loop' \in Loops, loop'.conn = c, crashed' \in Crashes,
           UNCHANGED <<server, nextPage, clientMap, connMap, conns, views>>
    PROVE  IInv'
<1>1. conns[c] \in Conn /\ conns' = [conns EXCEPT ![c] = conns[c]] BY DEF IInv, TypeOK
<1>2. conns[c].id # NoPage => conns[c].mode = "WebSocket" BY DEF IInv, ConnInv
<1>3. conns[c].place = "listed" BY DEF IInv, LoopInv
<1> QED BY <1>1, <1>2, <1>3, ConnStep

----------------------------------------------------------------------------
(* Steps that change the maps.                                              *)

\* The server is deleted while no connection is being read.
LEMMA DeleteServerKeeps ==
    ASSUME IInv, DeleteServer, Idle, UNCHANGED <<loop, crashed>>
    PROVE  IInv'
<1>1. loop = NotReading BY DEF IInv, TypeOK, Idle, NotReading
<1>2. /\ \A c \in Conns : /\ conns'[c] \in Conn
                          /\ conns'[c].place # "listed" /\ conns'[c].id = NoPage
  <2> SUFFICES ASSUME NEW c \in Conns
               PROVE  conns'[c] \in Conn /\ conns'[c].place # "listed" /\ conns'[c].id = NoPage
    OBVIOUS
  <2>1. conns[c] \in Conn BY DEF IInv, TypeOK
  <2>3. CASE conns[c].place = "listed" BY <2>3, NewFacts DEF DeleteServer
  <2>4. CASE conns[c].place # "listed" BY <2>1, <2>4 DEF DeleteServer, IInv, ConnInv
  <2> QED BY <2>3, <2>4
<1>3. \A v \in Views : /\ views'[v] \in View /\ views'[v].client = views[v].client
                       /\ views'[v].exists = views[v].exists
  <2> SUFFICES ASSUME NEW v \in Views
               PROVE  /\ views'[v] \in View /\ views'[v].client = views[v].client
                      /\ views'[v].exists = views[v].exists
    OBVIOUS
  <2>1. views[v] \in View BY DEF IInv, TypeOK
  <2>2. views'[v] = views[v] \/ views'[v] = [views[v] EXCEPT !.front = FALSE] BY DEF DeleteServer
  <2> QED BY <2>1, <2>2 DEF View
<1>4. conns' \in [Conns -> Conn] /\ views' \in [Views -> View]
  BY <1>2, <1>3 DEF DeleteServer
<1>5. server' \in Server /\ server'.alive = FALSE /\ server'.listening = FALSE
  BY DEF DeleteServer, NoServer, Server
<1>6. TypeOK' BY <1>4, <1>5, PagesFacts DEF IInv, TypeOK, DeleteServer
<1>7. NoConn \notin Conns /\ \A p \in Pages : clientMap'[p] = NoView /\ connMap'[p] = NoConn
  BY ConstAssumption DEF DeleteServer
<1>8. loop'.conn = NoConn BY <1>1 DEF NotReading
<1>9. ConnInv' /\ LoopInv' /\ HandleTimerArmed' /\ MapsMatch'
  BY <1>2, <1>7, <1>8, PagesFacts DEF ConnInv, LoopInv, HandleTimerArmed, MapsMatch
<1>10. ServerInv' /\ ServerListens' /\ RegisteredIsKnown' /\ ConnectedIsTold'
  BY <1>5, <1>7 DEF ServerInv, ServerListens, RegisteredIsKnown, ConnectedIsTold
<1>11. ViewInv' BY <1>3 DEF ViewInv, IInv
<1> QED BY <1>6, <1>9, <1>10, <1>11 DEF IInv

\* The connection table after closeConnection() of a page's connection.
LEMMA WithoutFields ==
    ASSUME IInv, NEW p \in Pages, NEW c \in Conns
    PROVE  /\ ConnsWithout(p)[c] \in Conn
           /\ ConnsWithout(p)[c].place = conns[c].place
           /\ ConnsWithout(p)[c].id = IF c = connMap[p] THEN NoPage ELSE conns[c].id
           /\ ConnsWithout(p)[c].mode = conns[c].mode
           /\ \/ /\ ConnsWithout(p)[c].timer = conns[c].timer
                 /\ ConnsWithout(p)[c].progress = conns[c].progress
              \/ ConnsWithout(p)[c].timer
<1>1. conns[c] \in Conn BY DEF IInv, TypeOK
<1>2. CASE c = connMap[p]
  <2> DEFINE k == [conns[c] EXCEPT !.id = NoPage]
  <2>1. /\ k \in Conn /\ k.place = conns[c].place /\ k.id = NoPage /\ k.mode = conns[c].mode
        /\ k.timer = conns[c].timer /\ k.progress = conns[c].progress
    BY <1>1 DEF Conn
  <2>2. ConnsWithout(p)[c] = Shutdown(k) BY <1>2 DEF ConnsWithout
  <2> HIDE DEF k
  <2> QED BY <1>2, <2>1, <2>2, ShutdownFields
<1>3. CASE c # connMap[p]
  <2>1. ConnsWithout(p)[c] = conns[c] BY <1>3 DEF ConnsWithout
  <2> QED BY <1>1, <1>3, <2>1
<1> QED BY <1>2, <1>3

\* A view gives up its page.
LEMMA UnregisterKeeps ==
    ASSUME IInv, NEW v \in Views, NEW w \in View, w.client => w.exists, w.page = NoPage,
           views' = [views EXCEPT ![v] = w], views[v].page # NoPage, UnregisterPage(views[v].page),
           crashed' \in Crashes, UNCHANGED <<server, nextPage, loop>>
    PROVE  IInv'
<1> DEFINE p == views[v].page
<1>1. p \in Pages BY DEF IInv, TypeOK, View
<1>2. /\ clientMap' \in [Pages -> Views \cup {NoView}] /\ clientMap'[p] = NoView
      /\ \A q \in Pages : q # p => clientMap'[q] = clientMap[q]
  BY <1>1 DEF UnregisterPage, IInv, TypeOK
<1>3. /\ connMap' \in [Pages -> Conns \cup {NoConn}] /\ connMap'[p] = NoConn
      /\ \A q \in Pages : q # p => connMap'[q] = connMap[q]
  BY <1>1 DEF UnregisterPage, IInv, TypeOK
<1>4. conns' = IF connMap[p] # NoConn THEN ConnsWithout(p) ELSE conns
  BY <1>1 DEF UnregisterPage
<1>5. \A c \in Conns : connMap[p] = c => conns[c].place = "listed" /\ conns[c].id = p
  BY <1>1 DEF IInv, MapsMatch
<1>6. ASSUME NEW c \in Conns
      PROVE  /\ conns'[c] \in Conn /\ conns'[c].place = conns[c].place
             /\ conns'[c].id = IF c = connMap[p] THEN NoPage ELSE conns[c].id
             /\ conns'[c].mode = conns[c].mode
             /\ (conns'[c].timer = conns[c].timer /\ conns'[c].progress = conns[c].progress)
                  \/ conns'[c].timer
  <2>1. CASE connMap[p] = NoConn
    <3>1. conns'[c] = conns[c] /\ c # connMap[p] /\ conns[c] \in Conn
      BY <1>4, <2>1, ConstAssumption DEF IInv, TypeOK
    <3> QED BY <3>1
  <2>2. CASE connMap[p] # NoConn
    <3>1. conns'[c] = ConnsWithout(p)[c] BY <1>4, <2>2
    <3> QED BY <1>1, <3>1, WithoutFields
  <2> QED BY <2>1, <2>2
<1>7. conns' \in [Conns -> Conn] BY <1>4, <1>6 DEF ConnsWithout, IInv, TypeOK
<1>8. views' \in [Views -> View] BY DEF IInv, TypeOK
<1>9. TypeOK' BY <1>2, <1>3, <1>7, <1>8 DEF IInv, TypeOK, Crashes
<1> HIDE DEF p
<1>10. ConnInv' /\ LoopInv' /\ HandleTimerArmed'
  BY <1>6 DEF IInv, ConnInv, LoopInv, HandleTimerArmed
<1>11. MapsMatch'
  <2> SUFFICES ASSUME NEW c \in Conns, NEW q \in Pages
               PROVE  connMap'[q] = c <=> conns'[c].place = "listed" /\ conns'[c].id = q
    BY DEF MapsMatch
  <2>1. connMap[q] = c <=> conns[c].place = "listed" /\ conns[c].id = q BY DEF IInv, MapsMatch
  <2>2. CASE c = connMap[p]
    <3>1. conns'[c].id = NoPage BY <1>6, <2>2
    <3>2. conns[c].id = p BY <1>5, <2>2
    <3>3. connMap'[q] # c
      BY <1>3, <2>1, <3>2, ConstAssumption
    <3> QED BY <3>1, <3>3, PagesFacts
  <2>3. CASE c # connMap[p]
    <3>1. conns'[c].id = conns[c].id /\ conns'[c].place = conns[c].place BY <1>6, <2>3
    <3>2. connMap'[q] = c <=> connMap[q] = c BY <1>3, <2>3, ConstAssumption
    <3> QED BY <2>1, <3>1, <3>2
  <2> QED BY <2>2, <2>3
<1>12. \A u \in Views : u # v => views'[u] = views[u] BY DEF IInv, TypeOK
<1>13. views'[v] = w BY DEF IInv, TypeOK
<1>14. ServerInv' /\ ServerListens' BY <1>2, <1>3 DEF IInv, ServerInv, ServerListens
<1>15. ViewInv' BY <1>12, <1>13 DEF IInv, ViewInv
<1>16. \A q \in Pages : q # p /\ clientMap[q] # NoView => clientMap[q] \in Views /\ clientMap[q] # v
  BY <1>1 DEF IInv, TypeOK, RegisteredIsKnown, p
<1>17. RegisteredIsKnown'
  BY <1>2, <1>12, <1>16 DEF IInv, RegisteredIsKnown
<1>18. ConnectedIsTold'
  BY <1>2, <1>3, <1>12, <1>16 DEF IInv, ConnectedIsTold
<1> QED BY <1>9, <1>10, <1>11, <1>14, <1>15, <1>17, <1>18 DEF IInv

----------------------------------------------------------------------------
(* The embedder's actions.                                                  *)

\* Starting a server without pages or connections.
LEMMA StartServerKeeps == ASSUME IInv, StartServer PROVE IInv'
<1>1. CASE DeleteServer BY <1>1, DeleteServerKeeps DEF StartServer
<1>2. CASE /\ server' = [alive |-> TRUE, listening |-> TRUE, socket |-> TRUE, poll |-> TRUE]
           /\ UNCHANGED <<nextPage, clientMap, connMap, conns, views, loop, crashed>>
  <2>1. server' \in Server /\ server'.alive = server'.listening /\ server'.alive
    BY <1>2 DEF Server
  <2>2. TypeOK' /\ ServerInv' /\ ServerListens'
    BY <1>2, <2>1 DEF IInv, TypeOK, ServerInv, ServerListens
  <2>3. /\ ConnInv' /\ LoopInv' /\ ViewInv' /\ MapsMatch' /\ RegisteredIsKnown'
        /\ ConnectedIsTold' /\ HandleTimerArmed'
    BY <1>2 DEF IInv, ConnInv, LoopInv, ViewInv, MapsMatch, RegisteredIsKnown,
                ConnectedIsTold, HandleTimerArmed
  <2> QED BY <2>2, <2>3 DEF IInv
<1> QED BY <1>1, <1>2 DEF StartServer

\* Stopping the server.
LEMMA StopServerKeeps == ASSUME IInv, StopServer PROVE IInv'
BY DeleteServerKeeps DEF StopServer

\* The listening socket is closed; the server stays.
LEMMA PollFailsKeeps == ASSUME IInv, PollFails PROVE IInv'
<1>1. /\ server' \in Server /\ server'.alive = server.alive
      /\ server'.listening = server.listening
  BY DEF PollFails, IInv, TypeOK, Server
<1>2. TypeOK' /\ ServerInv' /\ ServerListens'
  BY <1>1 DEF PollFails, IInv, TypeOK, ServerInv, ServerListens
<1>3. /\ ConnInv' /\ LoopInv' /\ ViewInv' /\ MapsMatch' /\ RegisteredIsKnown'
      /\ ConnectedIsTold' /\ HandleTimerArmed'
  BY DEF PollFails, IInv, ConnInv, LoopInv, ViewInv, MapsMatch, RegisteredIsKnown,
         ConnectedIsTold, HandleTimerArmed
<1> QED BY <1>2, <1>3 DEF IInv

\* A connection is accepted: it has no page yet, and its timer runs.
LEMMA AcceptKeeps == ASSUME IInv, NEW c \in Conns, Accept(c) PROVE IInv'
<1> DEFINE m == [conns[c] EXCEPT !.place = "listed", !.timer = TRUE]
<1>1. conns[c] \in Conn /\ conns[c].id = NoPage BY DEF Accept, IInv, TypeOK, ConnInv
<1>2. m \in Conn /\ m.place = "listed" /\ m.timer /\ m.id = NoPage BY <1>1 DEF Conn
<1>3. conns' = [conns EXCEPT ![c] = m] BY DEF Accept, IInv, TypeOK
<1>4. conns'[c] = m /\ \A d \in Conns : d # c => conns'[d] = conns[d]
  BY <1>3 DEF IInv, TypeOK
<1>5. conns' \in [Conns -> Conn] BY <1>2, <1>3 DEF IInv, TypeOK
<1> HIDE DEF m
<1>6. TypeOK' BY <1>5 DEF Accept, IInv, TypeOK
<1>7. loop' = loop /\ connMap' = connMap BY DEF Accept
<1>8. ConnInv' BY <1>2, <1>4 DEF IInv, ConnInv
<1>9. LoopInv' BY <1>2, <1>4, <1>7 DEF IInv, LoopInv
<1>10. HandleTimerArmed' BY <1>2, <1>4, <1>7 DEF IInv, HandleTimerArmed
<1>11. MapsMatch'
  <2> SUFFICES ASSUME NEW d \in Conns, NEW p \in Pages
               PROVE  connMap'[p] = d <=> conns'[d].place = "listed" /\ conns'[d].id = p
    BY DEF MapsMatch
  <2>1. connMap[p] = d <=> conns[d].place = "listed" /\ conns[d].id = p BY DEF IInv, MapsMatch
  <2>2. CASE d = c BY <1>1, <1>2, <1>4, <1>7, <2>1, <2>2, PagesFacts
  <2>3. CASE d # c BY <1>4, <1>7, <2>1, <2>3
  <2> QED BY <2>2, <2>3
<1>12. ServerInv' /\ ServerListens' /\ ViewInv' /\ RegisteredIsKnown' /\ ConnectedIsTold'
  BY DEF Accept, IInv, ServerInv, ServerListens, ViewInv, RegisteredIsKnown, ConnectedIsTold
<1> QED BY <1>6, <1>8, <1>9, <1>10, <1>11, <1>12 DEF IInv

\* A step that changes the record of one view, of no page or of its old page.
LEMMA ViewStep ==
    ASSUME IInv, NEW v \in Views, NEW w \in View, w.client => w.exists,
           \A p \in Pages : clientMap[p] = v =>
               w.client /\ w.page = views[v].page /\ w.front = views[v].front,
           views' = [views EXCEPT ![v] = w], crashed' \in Crashes,
           UNCHANGED <<server, nextPage, clientMap, connMap, conns, loop>>
    PROVE  IInv'
<1>1. views'[v] = w /\ \A u \in Views : u # v => views'[u] = views[u] BY DEF IInv, TypeOK
<1>2. TypeOK' BY DEF IInv, TypeOK, Crashes
<1>3. ViewInv' BY <1>1 DEF IInv, ViewInv
<1>4. \A p \in Pages : clientMap[p] # NoView => clientMap[p] \in Views BY DEF IInv, TypeOK
<1>5. RegisteredIsKnown' BY <1>1, <1>4 DEF IInv, RegisteredIsKnown
<1>6. ConnectedIsTold' BY <1>1, <1>4 DEF IInv, ConnectedIsTold
<1>7. /\ ConnInv' /\ LoopInv' /\ MapsMatch' /\ ServerInv' /\ ServerListens' /\ HandleTimerArmed'
  BY DEF IInv, ConnInv, LoopInv, MapsMatch, ServerInv, ServerListens, HandleTimerArmed
<1> QED BY <1>2, <1>3, <1>5, <1>6, <1>7 DEF IInv

\* A registered view has a client and a page.
LEMMA RegisteredFacts ==
    ASSUME IInv, NEW p \in Pages, clientMap[p] # NoView
    PROVE  /\ clientMap[p] \in Views /\ p < nextPage
           /\ views[clientMap[p]].client /\ views[clientMap[p]].exists
           /\ views[clientMap[p]].page = p /\ p # NoPage
BY PagesFacts DEF IInv, TypeOK, RegisteredIsKnown, ViewInv

\* A view is created: it was registered nowhere.
LEMMA CreateViewKeeps == ASSUME IInv, NEW v \in Views, CreateView(v) PROVE IInv'
<1> DEFINE w == [NewView EXCEPT !.exists = TRUE, !.client = server.alive]
<1>1. server.alive \in BOOLEAN BY DEF IInv, TypeOK, Server
<1>2. w \in View /\ w.exists BY <1>1 DEF NewView, View
<1>3. \A p \in Pages : clientMap[p] # v BY RegisteredFacts, ConstAssumption DEF CreateView
<1>4. views' = [views EXCEPT ![v] = w] /\ crashed' \in Crashes
  BY DEF CreateView, IInv, TypeOK, Crashes
<1>5. UNCHANGED <<server, nextPage, clientMap, connMap, conns, loop>> BY DEF CreateView
<1> HIDE DEF w
<1> QED BY <1>2, <1>3, <1>4, <1>5, ViewStep

\* A view is deleted; after a use of a null server nothing is registered.
LEMMA DeleteViewKeeps == ASSUME IInv, NEW v \in Views, DeleteView(v) PROVE IInv'
<1>1. views' = [views EXCEPT ![v] = NewView] BY DEF DeleteView
<1> DEFINE w == NewView
<1>5. w \in View /\ (w.client => w.exists) BY NewFacts
<1>6. views' = [views EXCEPT ![v] = w] BY <1>1
<1> HIDE DEF w
<1>2. CASE views[v].page = NoPage
  <2>1. \A p \in Pages : clientMap[p] # v BY <1>2, RegisteredFacts, ConstAssumption
  <2>2. crashed' \in Crashes BY <1>2 DEF DeleteView, IInv, TypeOK, Crashes
  <2>3. UNCHANGED <<server, nextPage, clientMap, connMap, conns, loop>> BY <1>2 DEF DeleteView
  <2> QED BY <1>5, <1>6, <2>1, <2>2, <2>3, ViewStep
<1>3. CASE views[v].page # NoPage /\ server.alive
  <2>1. crashed' \in Crashes BY <1>3 DEF DeleteView, IInv, TypeOK, Crashes
  <2> QED BY <1>1, <1>3, <2>1, NewFacts, UnregisterKeeps DEF DeleteView
<1>4. CASE views[v].page # NoPage /\ ~server.alive
  <2>1. \A p \in Pages : clientMap[p] # v BY <1>4, ConstAssumption DEF IInv, ServerInv
  <2>2. crashed' \in Crashes BY <1>4 DEF DeleteView, Crashes
  <2>3. UNCHANGED <<server, nextPage, clientMap, connMap, conns, loop>> BY <1>4 DEF DeleteView
  <2> QED BY <1>5, <1>6, <2>1, <2>2, <2>3, ViewStep
<1> QED BY <1>2, <1>3, <1>4

\* A view enables its inspector: the page it registers is new.
LEMMA EnableKeeps == ASSUME IInv, NEW v \in Views, EnableInspector(v) PROVE IInv'
<1>1. views[v] \in View /\ views[v].client /\ views[v].exists
  BY DEF EnableInspector, IInv, TypeOK, ViewInv
<1>2. CASE views[v].page # NoPage
  <2> DEFINE w == [views[v] EXCEPT !.enabled = TRUE]
  <2>1. w \in View /\ w.client /\ w.exists /\ w.page = views[v].page /\ w.front = views[v].front
    BY <1>1 DEF View
  <2>2. views' = [views EXCEPT ![v] = w] /\ crashed' \in Crashes
    BY <1>2 DEF EnableInspector, IInv, TypeOK, Crashes
  <2> HIDE DEF w
  <2> QED BY <1>2, <2>1, <2>2, ViewStep DEF EnableInspector
<1>3. CASE views[v].page = NoPage
  <2> DEFINE w == [views[v] EXCEPT !.page = nextPage, !.enabled = TRUE]
  <2>1. nextPage \in Pages /\ nextPage + 1 \in 1..(MaxPage + 1)
    BY <1>3, ConstAssumption DEF EnableInspector, IInv, TypeOK, Pages
  <2>2. w \in View /\ w.client /\ w.exists /\ w.page = nextPage BY <1>1, <2>1 DEF View
  <2>3. views' = [views EXCEPT ![v] = w] /\ nextPage' = nextPage + 1
        /\ clientMap' = [clientMap EXCEPT ![nextPage] = v]
    BY <1>3 DEF EnableInspector, IInv, TypeOK
  <2>4. views'[v] = w /\ \A u \in Views : u # v => views'[u] = views[u]
    BY <2>3 DEF IInv, TypeOK
  <2>5. clientMap'[nextPage] = v /\ \A p \in Pages : p # nextPage => clientMap'[p] = clientMap[p]
    BY <2>1, <2>3 DEF IInv, TypeOK
  <2>6. UNCHANGED <<server, connMap, conns, loop, crashed>> BY DEF EnableInspector
  <2>7. views' \in [Views -> View] /\ clientMap' \in [Pages -> Views \cup {NoView}]
    BY <2>1, <2>2, <2>3 DEF IInv, TypeOK
  <2> HIDE DEF w
  <2>8. TypeOK' BY <2>1, <2>3, <2>6, <2>7 DEF IInv, TypeOK
  <2>9. clientMap[nextPage] = NoView
    <3>1. nextPage \in Nat BY <2>1 DEF Pages
    <3> QED BY <2>1, <3>1, RegisteredFacts
  <2>10. connMap[nextPage] = NoConn BY <2>1, <2>9 DEF IInv, ConnectedIsTold
  <2>11. \A p \in Pages : p # nextPage /\ clientMap[p] # NoView => clientMap[p] \in Views \ {v}
    BY <1>3, RegisteredFacts
  <2>12. \A p \in Pages : p < nextPage => p < nextPage + 1 BY <2>1 DEF Pages
  <2>13. nextPage < nextPage + 1 BY <2>1 DEF Pages
  <2>14. RegisteredIsKnown'
    <3> SUFFICES ASSUME NEW p \in Pages, clientMap'[p] # NoView
                 PROVE  /\ p < nextPage' /\ views'[clientMap'[p]].client
                        /\ views'[clientMap'[p]].page = p
      BY DEF RegisteredIsKnown
    <3>1. CASE p = nextPage BY <2>2, <2>3, <2>4, <2>5, <2>13, <3>1
    <3>2. CASE p # nextPage
      BY <2>3, <2>4, <2>5, <2>11, <2>12, <3>2, RegisteredFacts
    <3> QED BY <3>1, <3>2
  <2>15. ConnectedIsTold' BY <2>4, <2>5, <2>6, <2>10, <2>11 DEF IInv, ConnectedIsTold
  <2>16. ViewInv' BY <2>2, <2>4 DEF IInv, ViewInv
  <2>17. ServerInv' BY <2>6 DEF EnableInspector, ServerInv
  <2>18. ConnInv' /\ LoopInv' /\ MapsMatch' /\ ServerListens' /\ HandleTimerArmed'
    BY <2>6 DEF IInv, ConnInv, LoopInv, MapsMatch, ServerListens, HandleTimerArmed
  <2> QED BY <2>8, <2>14, <2>15, <2>16, <2>17, <2>18 DEF IInv
<1> QED BY <1>2, <1>3

\* A view disables its inspector and gives up its page.
LEMMA DisableKeeps == ASSUME IInv, NEW v \in Views, DisableInspector(v) PROVE IInv'
<1> DEFINE w == [views[v] EXCEPT !.page = NoPage, !.enabled = FALSE]
<1>1. views[v] \in View /\ views[v].client /\ views[v].exists
  BY DEF DisableInspector, IInv, TypeOK, ViewInv
<1>2. w \in View /\ w.client /\ w.exists /\ w.page = NoPage BY <1>1 DEF View
<1>3. views' = [views EXCEPT ![v] = w] /\ crashed' \in Crashes
  BY DEF DisableInspector, IInv, TypeOK, Crashes
<1> HIDE DEF w
<1>4. CASE views[v].page = NoPage
  <2>1. \A p \in Pages : clientMap[p] # v BY <1>4, RegisteredFacts, ConstAssumption
  <2> QED BY <1>2, <1>3, <1>4, <2>1, ViewStep DEF DisableInspector
<1>5. CASE views[v].page # NoPage
  BY <1>2, <1>3, <1>5, UnregisterKeeps DEF DisableInspector
<1> QED BY <1>4, <1>5

\* A page reports to its frontend, over a connection that is listed, or uses a
\* server that is gone.
LEMMA SendMessageKeeps == ASSUME IInv, NEW v \in Views, SendMessage(v) PROVE IInv'
<1>1. CASE server.alive
  <2> DEFINE p == views[v].page
             c == connMap[p]
  <2>1. p \in Pages /\ c \in Conns BY <1>1 DEF SendMessage, IInv, TypeOK, View
  <2>2. PICK m \in Sends(conns[c]) : conns' = [conns EXCEPT ![c] = m] BY <1>1 DEF SendMessage
  <2>3. conns[c] \in Conn /\ conns[c].place = "listed" /\ conns[c].id = p
    BY <2>1 DEF IInv, TypeOK, MapsMatch
  <2>4. conns[c].mode = "WebSocket" BY <2>1, <2>3, PagesFacts DEF IInv, ConnInv
  <2>5. conns[c].timer \/ loop.conn = c \/ conns[c].progress = "EError"
    BY <2>1, <2>3 DEF IInv, HandleTimerArmed
  <2>6. /\ loop' = loop /\ loop' \in Loops /\ crashed' \in Crashes
        /\ UNCHANGED <<server, nextPage, clientMap, connMap, views>>
    BY <1>1 DEF SendMessage, IInv, TypeOK, Loops, Crashes
  <2>7. loop.conn \in Conns => conns[loop.conn].place = "listed" BY DEF IInv, LoopInv
  <2> HIDE DEF c, p
  <2>8. /\ m \in Conn /\ m.place = conns[c].place /\ m.id = conns[c].id /\ m.mode = conns[c].mode
        /\ m.timer = conns[c].timer /\ m.progress = conns[c].progress
    BY <2>3, SendsFields
  <2> QED BY <2>1, <2>2, <2>3, <2>4, <2>5, <2>6, <2>7, <2>8, ConnStep
<1>2. CASE ~server.alive
  <2>1. /\ crashed' \in Crashes
        /\ UNCHANGED <<server, nextPage, clientMap, connMap, conns, views, loop>>
    BY <1>2 DEF SendMessage, Crashes
  <2>2. TypeOK' BY <2>1 DEF IInv, TypeOK, Crashes
  <2>3. ConnInv' /\ LoopInv' /\ ServerInv' /\ ServerListens' /\ ViewInv'
    BY <2>1 DEF IInv, ConnInv, LoopInv, ServerInv, ServerListens, ViewInv
  <2>4. MapsMatch' /\ RegisteredIsKnown' /\ ConnectedIsTold' /\ HandleTimerArmed'
    BY <2>1 DEF IInv, MapsMatch, RegisteredIsKnown, ConnectedIsTold, HandleTimerArmed
  <2> QED BY <2>2, <2>3, <2>4 DEF IInv
<1> QED BY <1>1, <1>2

----------------------------------------------------------------------------
(* The timer of a connection's handle.                                      *)

\* A step outside the loop that changes fields of one listed connection.
LEMMA QuietStep ==
    ASSUME IInv, NEW c \in Conns, NEW m \in Conn, conns' = [conns EXCEPT ![c] = m],
           m.place = conns[c].place, m.id = conns[c].id, m.mode = conns[c].mode,
           m.timer \/ loop.conn = c \/ m.progress = "EError",
           UNCHANGED <<server, nextPage, clientMap, connMap, views, loop, crashed>>
    PROVE  IInv'
<1>1. conns[c].id # NoPage => conns[c].mode = "WebSocket" BY DEF IInv, ConnInv
<1>2. loop' \in Loops /\ crashed' \in Crashes BY DEF IInv, TypeOK, Loops, Crashes
<1>3. loop.conn \in Conns => conns[loop.conn].place = "listed" BY DEF IInv, LoopInv
<1> QED BY <1>1, <1>2, <1>3, ConnStep

\* The peer closes.
LEMMA PeerClosesKeeps == ASSUME IInv, NEW c \in Conns, PeerCloses(c) PROVE IInv'
<1> DEFINE m == [conns[c] EXCEPT !.peer = FALSE]
<1>1. conns[c] \in Conn BY DEF IInv, TypeOK
<1>2. /\ m \in Conn /\ m.place = conns[c].place /\ m.id = conns[c].id /\ m.mode = conns[c].mode
      /\ m.timer = conns[c].timer /\ m.progress = conns[c].progress
  BY <1>1 DEF Conn
<1>3. conns[c].timer \/ loop.conn = c \/ conns[c].progress = "EError"
  BY DEF PeerCloses, IInv, HandleTimerArmed
<1>4. conns' = [conns EXCEPT ![c] = m] BY DEF PeerCloses
<1> HIDE DEF m
<1>5. m.timer \/ loop.conn = c \/ m.progress = "EError" BY <1>2, <1>3
<1>6. UNCHANGED <<server, nextPage, clientMap, connMap, views, loop, crashed>> BY DEF PeerCloses
<1> QED BY <1>2, <1>4, <1>5, <1>6, QuietStep

\* The handle opens, and keeps its timer.
LEMMA FiresConnectedKeeps == ASSUME IInv, NEW c \in Conns, FiresConnected(c) PROVE IInv'
<1> DEFINE m == [conns[c] EXCEPT !.state = "Open", !.progress = "EReady"]
<1>1. conns[c] \in Conn BY DEF IInv, TypeOK
<1>2. /\ m \in Conn /\ m.place = conns[c].place /\ m.id = conns[c].id /\ m.mode = conns[c].mode
      /\ m.timer = conns[c].timer
  BY <1>1 DEF Conn
<1>3. conns[c].timer BY DEF FiresConnected, Fires
<1>4. conns' = [conns EXCEPT ![c] = m] BY DEF FiresConnected, IInv, TypeOK
<1> HIDE DEF m
<1>5. m.timer \/ loop.conn = c \/ m.progress = "EError" BY <1>2, <1>3
<1>6. UNCHANGED <<server, nextPage, clientMap, connMap, views, loop, crashed>> BY DEF FiresConnected
<1> QED BY <1>2, <1>4, <1>5, <1>6, QuietStep

\* The handle has failed and does not start its timer.
LEMMA FiresErrorKeeps == ASSUME IInv, NEW c \in Conns, FiresError(c) PROVE IInv'
<1> DEFINE m == [conns[c] EXCEPT !.timer = FALSE]
<1>1. conns[c] \in Conn BY DEF IInv, TypeOK
<1>2. /\ m \in Conn /\ m.place = conns[c].place /\ m.id = conns[c].id /\ m.mode = conns[c].mode
      /\ m.progress = conns[c].progress
  BY <1>1 DEF Conn
<1>3. conns[c].progress = "EError" BY DEF FiresError
<1>4. conns' = [conns EXCEPT ![c] = m] BY DEF FiresError
<1> HIDE DEF m
<1>5. m.timer \/ loop.conn = c \/ m.progress = "EError" BY <1>2, <1>3
<1>6. UNCHANGED <<server, nextPage, clientMap, connMap, views, loop, crashed>> BY DEF FiresError
<1> QED BY <1>2, <1>4, <1>5, <1>6, QuietStep

\* The handle is served, without its timer.
LEMMA FiresReadyKeeps == ASSUME IInv, NEW c \in Conns, FiresReady(c) PROVE IInv'
<1> DEFINE m == [conns[c] EXCEPT !.timer = FALSE]
<1>1. conns[c] \in Conn BY DEF IInv, TypeOK
<1>2. /\ m \in Conn /\ m.place = conns[c].place /\ m.id = conns[c].id /\ m.mode = conns[c].mode
  BY <1>1 DEF Conn
<1>3. conns[c].place = "listed" BY DEF FiresReady, Fires
<1>4. conns' = [conns EXCEPT ![c] = m] BY DEF FiresReady
<1>5. conns[c].id # NoPage => conns[c].mode = "WebSocket" BY DEF IInv, ConnInv
<1>6. loop' \in Loops /\ loop'.conn = c /\ crashed' \in Crashes
  BY DEF FiresReady, IInv, TypeOK, Loops, Crashes
<1>7. loop = NotReading BY DEF FiresReady, Fires, Idle, IInv, TypeOK, NotReading
<1>8. \A d \in Conns : loop.conn = d => FALSE BY <1>7, ConstAssumption DEF NotReading
<1> HIDE DEF m
<1> QED
  <2>1. UNCHANGED <<server, nextPage, clientMap, connMap, views>> BY DEF FiresReady
  <2>2. TypeOK' BY <1>2, <1>4, <1>6, <2>1 DEF IInv, TypeOK, Loops, Crashes
  <2>3. conns'[c] = m /\ \A d \in Conns : d # c => conns'[d] = conns[d]
    BY <1>4 DEF IInv, TypeOK
  <2>4. \A d \in Conns : /\ conns'[d].place = conns[d].place /\ conns'[d].id = conns[d].id
                         /\ conns'[d].mode = conns[d].mode
    BY <1>2, <2>3
  <2>5. ConnInv' /\ MapsMatch' BY <2>1, <2>4 DEF IInv, ConnInv, MapsMatch
  <2>6. LoopInv' BY <1>3, <1>6, <2>4 DEF LoopInv
  <2>7. HandleTimerArmed' BY <1>6, <1>8, <2>3 DEF IInv, HandleTimerArmed
  <2>8. ServerInv' /\ ServerListens' /\ ViewInv' /\ RegisteredIsKnown' /\ ConnectedIsTold'
    BY <2>1 DEF IInv, ServerInv, ServerListens, ViewInv, RegisteredIsKnown, ConnectedIsTold
  <2> QED BY <2>2, <2>5, <2>6, <2>7, <2>8 DEF IInv

\* The connection is deleted: its page's client is told and its page is free.
LEMMA FiresRequestCloseKeeps == ASSUME IInv, NEW c \in Conns, FiresRequestClose(c) PROVE IInv'
<1> DEFINE m == [NewConn EXCEPT !.place = "gone"]
           p == conns[c].id
<1>1. /\ conns' = [conns EXCEPT ![c] = m]
      /\ UNCHANGED <<server, nextPage, clientMap, loop, crashed>>
  BY DEF FiresRequestClose
<1>2. m \in Conn /\ m.place = "gone" /\ m.id = NoPage BY NewFacts
<1> HIDE DEF m
<1>3. conns'[c] = m /\ \A d \in Conns : d # c => conns'[d] = conns[d]
  BY <1>1 DEF IInv, TypeOK
<1>4. loop.conn \notin Conns
  <2>1. loop = NotReading BY DEF FiresRequestClose, Fires, Idle, IInv, TypeOK, NotReading
  <2> QED BY <2>1, ConstAssumption DEF NotReading
<1>5. conns[c].place = "listed" BY DEF FiresRequestClose, Fires
<1>6. ConnInv' /\ LoopInv' BY <1>1, <1>2, <1>3, <1>4 DEF IInv, ConnInv, LoopInv
<1>7. HandleTimerArmed' BY <1>1, <1>2, <1>3 DEF IInv, HandleTimerArmed
<1>8. ServerListens' BY <1>1 DEF IInv, ServerListens
<1>9. conns' \in [Conns -> Conn] BY <1>1, <1>2 DEF IInv, TypeOK
<1>10. CASE p = NoPage
  <2>1. UNCHANGED <<connMap, views>> BY <1>10 DEF FiresRequestClose
  <2>2. TypeOK' BY <1>1, <1>9, <2>1 DEF IInv, TypeOK
  <2>3. MapsMatch'
    <3> SUFFICES ASSUME NEW d \in Conns, NEW q \in Pages
                 PROVE  connMap'[q] = d <=> conns'[d].place = "listed" /\ conns'[d].id = q
      BY DEF MapsMatch
    <3>1. connMap[q] = d <=> conns[d].place = "listed" /\ conns[d].id = q BY DEF IInv, MapsMatch
    <3> QED BY <1>2, <1>3, <1>10, <2>1, <3>1, PagesFacts
  <2>4. ServerInv' /\ ViewInv' /\ RegisteredIsKnown' /\ ConnectedIsTold'
    BY <1>1, <2>1 DEF IInv, ServerInv, ViewInv, RegisteredIsKnown, ConnectedIsTold
  <2> QED BY <1>6, <1>7, <1>8, <2>2, <2>3, <2>4 DEF IInv
<1>11. CASE p # NoPage
  <2>1. p \in Pages /\ conns[c].mode = "WebSocket" BY <1>11 DEF IInv, TypeOK, Conn, ConnInv
  <2>2. /\ connMap' = [connMap EXCEPT ![p] = NoConn]
        /\ views' = [v \in Views |-> IF v = clientMap[p]
                       THEN [views[v] EXCEPT !.front = FALSE] ELSE views[v]]
    BY <1>11, <2>1 DEF FiresRequestClose
  <2>3. connMap'[p] = NoConn /\ \A q \in Pages : q # p => connMap'[q] = connMap[q]
    BY <2>1, <2>2 DEF IInv, TypeOK
  <2>4. ASSUME NEW v \in Views
        PROVE  /\ views'[v] \in View /\ views'[v].client = views[v].client
               /\ views'[v].exists = views[v].exists /\ views'[v].page = views[v].page
               /\ v # clientMap[p] => views'[v] = views[v]
    <3>1. views[v] \in View BY DEF IInv, TypeOK
    <3>2. views'[v] = IF v = clientMap[p] THEN [views[v] EXCEPT !.front = FALSE] ELSE views[v]
      BY <2>2
    <3> QED BY <3>1, <3>2 DEF View
  <2>5. views' \in [Views -> View] /\ connMap' \in [Pages -> Conns \cup {NoConn}]
    BY <2>1, <2>2, <2>4 DEF IInv, TypeOK
  <2>6. TypeOK' BY <1>1, <1>9, <2>5 DEF IInv, TypeOK
  <2>7. MapsMatch'
    <3> SUFFICES ASSUME NEW d \in Conns, NEW q \in Pages
                 PROVE  connMap'[q] = d <=> conns'[d].place = "listed" /\ conns'[d].id = q
      BY DEF MapsMatch
    <3>1. connMap[q] = d <=> conns[d].place = "listed" /\ conns[d].id = q BY DEF IInv, MapsMatch
    <3>2. connMap[p] = c BY <1>5, <2>1 DEF IInv, MapsMatch
    <3>3. CASE d = c BY <1>2, <1>3, <2>3, <3>1, <3>3, ConstAssumption
    <3>4. CASE d # c BY <1>3, <2>3, <3>1, <3>2, <3>4, ConstAssumption
    <3> QED BY <3>3, <3>4
  <2>8. ServerInv' BY <1>1, <2>3 DEF IInv, ServerInv
  <2>9. ViewInv' BY <2>4 DEF IInv, ViewInv
  <2>10. RegisteredIsKnown'
    <3> SUFFICES ASSUME NEW q \in Pages, clientMap[q] # NoView
                 PROVE  /\ q < nextPage /\ views'[clientMap[q]].client
                        /\ views'[clientMap[q]].page = q
      BY <1>1 DEF RegisteredIsKnown
    <3> QED BY <2>4, RegisteredFacts
  <2>11. ConnectedIsTold'
    <3> SUFFICES ASSUME NEW q \in Pages, connMap'[q] # NoConn
                 PROVE  clientMap[q] # NoView /\ views'[clientMap[q]].front
      BY <1>1 DEF ConnectedIsTold
    <3>1. q # p /\ connMap[q] # NoConn BY <2>3
    <3>2. clientMap[q] # NoView /\ views[clientMap[q]].front BY <3>1 DEF IInv, ConnectedIsTold
    <3>3. clientMap[q] \in Views /\ clientMap[q] # clientMap[p]
      BY <2>1, <3>1, <3>2, RegisteredFacts
    <3> QED BY <2>4, <3>2, <3>3
  <2> QED BY <1>6, <1>7, <1>8, <2>6, <2>7, <2>8, <2>9, <2>10, <2>11 DEF IInv
<1> QED BY <1>10, <1>11

----------------------------------------------------------------------------
(* The loop.                                                                *)

\* The connection that is read is listed, and is the one in the loop.
LEMMA AtFacts ==
    ASSUME IInv, NEW c \in Conns, NEW at, At(c, at)
    PROVE  loop.conn = c /\ conns[c] \in Conn /\ conns[c].place = "listed"
<1>1. loop.conn = c BY DEF At
<1> QED BY <1>1 DEF IInv, TypeOK, LoopInv

\* Where the loop may go.
LEMMA GotoFacts ==
    ASSUME NEW c \in Conns,
           \/ Goto(c, "select") \/ Goto(c, "frames") \/ Goto(c, "dispatch") \/ Goto(c, "write")
    PROVE  loop' \in Loops /\ loop'.conn = c
BY DEF Goto, Loops

\* The loop goes on with a record that kept page and place.
LEMMA GoOnStep ==
    ASSUME IInv, NEW c \in Conns, NEW m \in Conn, conns' = [conns EXCEPT ![c] = m],
           m.place = conns[c].place, m.id = conns[c].id,
           m.mode = conns[c].mode \/ m.mode = "WebSocket",
           loop.conn = c, loop' \in Loops, loop'.conn = c,
           UNCHANGED <<server, nextPage, clientMap, connMap, views, crashed>>
    PROVE  IInv'
<1>1. conns[c].id # NoPage => conns[c].mode = "WebSocket" BY DEF IInv, ConnInv
<1>2. conns[c].place = "listed" BY DEF IInv, LoopInv
<1>3. crashed' \in Crashes BY DEF IInv, TypeOK, Crashes
<1> QED BY <1>1, <1>2, <1>3, ConnStep

\* The loop ends, and the handle's timer is started.
LEMMA EndStep ==
    ASSUME IInv, NEW c \in Conns, NEW m \in Conn, conns' = [conns EXCEPT ![c] = m],
           m.place = conns[c].place, m.id = conns[c].id, m.mode = conns[c].mode, m.timer,
           loop.conn = c, loop' = NotReading,
           UNCHANGED <<server, nextPage, clientMap, connMap, views, crashed>>
    PROVE  IInv'
<1>1. conns[c].id # NoPage => conns[c].mode = "WebSocket" BY DEF IInv, ConnInv
<1>2. crashed' \in Crashes BY DEF IInv, TypeOK, Crashes
<1>3. loop' \in Loops /\ loop'.conn \notin Conns BY ConstAssumption DEF NotReading, Loops
<1> QED BY <1>1, <1>2, <1>3, ConnStep

\* Steps that only move the loop.
LEMMA MovesKeep ==
    ASSUME IInv, NEW c \in Conns,
           \/ LoopSkipsRead(c) \/ ReadNothing(c) \/ ReadFrames(c) \/ FrameSkipped(c)
           \/ DispatchReturns(c) \/ LoopSkipsWrite(c)
    PROVE  IInv'
<1>1. loop.conn = c
  BY AtFacts DEF LoopSkipsRead, ReadNothing, ReadFrames, FrameSkipped, DispatchReturns, LoopSkipsWrite
<1>2. loop' \in Loops /\ loop'.conn = c
  BY GotoFacts DEF LoopSkipsRead, ReadNothing, ReadFrames, FrameSkipped, DispatchReturns,
                   LoopSkipsWrite, NextFrame
<1>3. UNCHANGED <<server, nextPage, clientMap, connMap, conns, views, crashed>>
  BY DEF LoopSkipsRead, ReadNothing, ReadFrames, FrameSkipped, DispatchReturns, LoopSkipsWrite
<1>4. crashed' \in Crashes BY <1>3 DEF IInv, TypeOK, Crashes
<1> QED BY <1>1, <1>2, <1>3, <1>4, ReadStep

\* A text frame is dispatched, or meets no page.
LEMMA FrameTextKeeps == ASSUME IInv, NEW c \in Conns, FrameText(c) PROVE IInv'
<1>1. loop.conn = c BY AtFacts DEF FrameText
<1>2. loop' \in Loops /\ loop'.conn = c
  <2>1. CASE UNCHANGED loop BY <1>1, <2>1 DEF IInv, TypeOK, Loops
  <2>2. CASE Goto(c, "dispatch") BY <2>2, GotoFacts
  <2> QED BY <2>1, <2>2 DEF FrameText
<1>3. crashed' \in Crashes BY DEF FrameText, IInv, TypeOK, Crashes
<1>4. UNCHANGED <<server, nextPage, clientMap, connMap, conns, views>> BY DEF FrameText
<1> QED BY <1>1, <1>2, <1>3, <1>4, ReadStep

\* A malformed frame closes the handle.
LEMMA FrameErrorKeeps == ASSUME IInv, NEW c \in Conns, FrameError(c) PROVE IInv'
<1>1. loop.conn = c /\ conns[c] \in Conn BY AtFacts DEF FrameError
<1>2. loop' \in Loops /\ loop'.conn = c BY GotoFacts DEF FrameError, NextFrame
<1>3. conns' = [conns EXCEPT ![c] = Shutdown(conns[c])] BY DEF FrameError
<1>4. UNCHANGED <<server, nextPage, clientMap, connMap, views, crashed>> BY DEF FrameError
<1> DEFINE m == Shutdown(conns[c])
<1>5. m \in Conn /\ m.place = conns[c].place /\ m.id = conns[c].id /\ m.mode = conns[c].mode
  BY <1>1, ShutdownFields
<1> HIDE DEF m
<1>6. conns' = [conns EXCEPT ![c] = m] BY <1>3 DEF m
<1> QED BY <1>1, <1>2, <1>4, <1>5, <1>6, GoOnStep

\* An upgrade is refused: the mode has changed, no page is set.
LEMMA UpgradeRefusedKeeps == ASSUME IInv, NEW c \in Conns, UpgradeRefused(c) PROVE IInv'
<1> DEFINE k == [conns[c] EXCEPT !.mode = "WebSocket"]
           m == Shutdown(k)
<1>1. loop.conn = c /\ conns[c] \in Conn BY AtFacts DEF UpgradeRefused
<1>2. loop' \in Loops /\ loop'.conn = c BY GotoFacts DEF UpgradeRefused
<1>3. conns' = [conns EXCEPT ![c] = m] BY DEF UpgradeRefused
<1>4. UNCHANGED <<server, nextPage, clientMap, connMap, views, crashed>> BY DEF UpgradeRefused
<1>5. k \in Conn /\ k.place = conns[c].place /\ k.id = conns[c].id /\ k.mode = "WebSocket"
  BY <1>1 DEF Conn
<1> HIDE DEF k
<1>6. m \in Conn /\ m.place = conns[c].place /\ m.id = conns[c].id /\ m.mode = "WebSocket"
  BY <1>5, ShutdownFields
<1> HIDE DEF m
<1> QED BY <1>1, <1>2, <1>3, <1>4, <1>6, GoOnStep

\* A request is answered and the handle closed, now or after the buffer.
LEMMA ReadRequestKeeps == ASSUME IInv, NEW c \in Conns, ReadRequest(c) PROVE IInv'
<1> DEFINE j == [conns[c] EXCEPT !.requests = @ + 1]
<1>1. loop.conn = c /\ conns[c] \in Conn BY AtFacts DEF ReadRequest
<1>2. loop' \in Loops /\ loop'.conn = c BY GotoFacts DEF ReadRequest
<1>3. UNCHANGED <<server, nextPage, clientMap, connMap, views, crashed>> BY DEF ReadRequest
<1>4. PICK k \in Sends(j) : \E l \in Sends(k) :
          conns' = [conns EXCEPT ![c] = IF l.buf THEN [l EXCEPT !.shut = TRUE] ELSE Shutdown(l)]
  BY DEF ReadRequest
<1>11. PICK l \in Sends(k) :
          conns' = [conns EXCEPT ![c] = IF l.buf THEN [l EXCEPT !.shut = TRUE] ELSE Shutdown(l)]
  BY <1>4
<1> DEFINE m == IF l.buf THEN [l EXCEPT !.shut = TRUE] ELSE Shutdown(l)
<1>5. conns[c].requests + 1 \in 0..MaxRequests
  <2>1. conns[c].requests \in 0..MaxRequests BY <1>1 DEF Conn
  <2> QED BY <2>1, ConstAssumption DEF ReadRequest
<1>6. j \in Conn /\ j.place = conns[c].place /\ j.id = conns[c].id /\ j.mode = conns[c].mode
  BY <1>1, <1>5 DEF Conn
<1>7. conns' = [conns EXCEPT ![c] = m] BY <1>11
<1> HIDE DEF j
<1>8. k \in Conn /\ k.place = conns[c].place /\ k.id = conns[c].id /\ k.mode = conns[c].mode
  BY <1>6, SendsFields
<1>9. l \in Conn /\ l.place = conns[c].place /\ l.id = conns[c].id /\ l.mode = conns[c].mode
  BY <1>8, SendsFields
<1>10. m \in Conn /\ m.place = conns[c].place /\ m.id = conns[c].id /\ m.mode = conns[c].mode
  <2>1. CASE l.buf
    <3>1. m = [l EXCEPT !.shut = TRUE] BY <2>1
    <3> HIDE DEF m
    <3> QED BY <1>9, <3>1 DEF Conn
  <2>2. CASE ~l.buf
    <3>1. m = Shutdown(l) BY <2>2
    <3> HIDE DEF m
    <3> QED BY <1>9, <3>1, ShutdownFields
  <2> QED BY <2>1, <2>2
<1> HIDE DEF m
<1> QED BY <1>1, <1>2, <1>3, <1>7, <1>10, GoOnStep

\* Data is written; after the last of it the handle may be closed.
LEMMA LoopWritesKeeps == ASSUME IInv, NEW c \in Conns, LoopWrites(c) PROVE IInv'
<1> DEFINE k == [conns[c] EXCEPT !.buf = FALSE]
           m == IF k.shut THEN Shutdown(k) ELSE k
<1>1. loop.conn = c /\ conns[c] \in Conn BY AtFacts DEF LoopWrites
<1>2. loop' \in Loops /\ loop'.conn = c BY GotoFacts DEF LoopWrites
<1>3. UNCHANGED <<server, nextPage, clientMap, connMap, views, crashed>> BY DEF LoopWrites
<1>4. crashed' \in Crashes BY <1>3 DEF IInv, TypeOK, Crashes
<1>5. CASE UNCHANGED conns BY <1>1, <1>2, <1>3, <1>4, <1>5, ReadStep
<1>6. CASE conns' = [conns EXCEPT ![c] = m]
  <2>1. k \in Conn /\ k.place = conns[c].place /\ k.id = conns[c].id /\ k.mode = conns[c].mode
    BY <1>1 DEF Conn
  <2> HIDE DEF k
  <2>2. m \in Conn /\ m.place = conns[c].place /\ m.id = conns[c].id /\ m.mode = conns[c].mode
    BY <2>1, ShutdownFields
  <2> HIDE DEF m
  <2> QED BY <1>1, <1>2, <1>3, <1>6, <2>2, GoOnStep
<1>7. UNCHANGED conns \/ conns' = [conns EXCEPT ![c] = m] BY DEF LoopWrites
<1> QED BY <1>5, <1>6, <1>7

\* The loop ends and the timer is started, also when a write has failed.
LEMMA LoopEndsKeeps ==
    ASSUME IInv, NEW c \in Conns, LoopEnds(c) \/ LoopWriteFails(c) PROVE IInv'
<1>1. loop.conn = c /\ conns[c] \in Conn BY AtFacts DEF LoopEnds, LoopWriteFails
<1>2. loop' = NotReading /\ UNCHANGED <<server, nextPage, clientMap, connMap, views, crashed>>
  BY DEF LoopEnds, LoopWriteFails
<1>3. CASE LoopEnds(c)
  <2> DEFINE m == [conns[c] EXCEPT !.timer = TRUE]
  <2>1. /\ m \in Conn /\ m.place = conns[c].place /\ m.id = conns[c].id
        /\ m.mode = conns[c].mode /\ m.timer
    BY <1>1 DEF Conn
  <2>2. conns' = [conns EXCEPT ![c] = m] BY <1>3 DEF LoopEnds
  <2> HIDE DEF m
  <2> QED BY <1>1, <1>2, <2>1, <2>2, EndStep
<1>4. CASE LoopWriteFails(c)
  <2> DEFINE m == [conns[c] EXCEPT !.progress = "EError", !.timer = TRUE]
  <2>1. /\ m \in Conn /\ m.place = conns[c].place /\ m.id = conns[c].id
        /\ m.mode = conns[c].mode /\ m.timer
    BY <1>1 DEF Conn
  <2>2. conns' = [conns EXCEPT ![c] = m] BY <1>4 DEF LoopWriteFails, IInv, TypeOK
  <2> HIDE DEF m
  <2> QED BY <1>1, <1>2, <2>1, <2>2, EndStep
<1> QED BY <1>3, <1>4

\* A connection takes a page over: the earlier connection of the page, if there
\* is one, loses it in the same step, and the client stays connected.
LEMMA UpgradeAcceptedKeeps ==
    ASSUME IInv, NEW c \in Conns, NEW p \in Pages, UpgradeAccepted(c, p) PROVE IInv'
<1> DEFINE j == [conns[c] EXCEPT !.mode = "WebSocket"]
<1>1. loop.conn = c /\ conns[c] \in Conn /\ conns[c].place = "listed"
  BY AtFacts DEF UpgradeAccepted
<1>2. loop' \in Loops /\ loop'.conn = c BY GotoFacts DEF UpgradeAccepted
<1>3. UNCHANGED <<server, nextPage, clientMap, crashed>> BY DEF UpgradeAccepted
<1>4. PICK k \in Sends(j) : conns' = [ConnsWithout(p) EXCEPT ![c] = [k EXCEPT !.id = p]]
  BY DEF UpgradeAccepted
<1>5. j \in Conn /\ j.place = "listed" /\ j.mode = "WebSocket" BY <1>1 DEF Conn
<1> HIDE DEF j
<1>6. k \in Conn /\ k.place = "listed" /\ k.mode = "WebSocket" BY <1>5, SendsFields
<1> DEFINE m == [k EXCEPT !.id = p]
<1>7. m \in Conn /\ m.place = "listed" /\ m.mode = "WebSocket" /\ m.id = p BY <1>6 DEF Conn
<1>8. conns' = [ConnsWithout(p) EXCEPT ![c] = m] BY <1>4
<1> HIDE DEF m
<1>9. conns[c].id = NoPage BY DEF UpgradeAccepted, IInv, ConnInv
<1>10. \A q \in Pages : connMap[q] # c BY <1>9, PagesFacts DEF IInv, MapsMatch
<1>11. ConnsWithout(p) \in [Conns -> Conn]
  <2>1. \A d \in Conns : ConnsWithout(p)[d] \in Conn BY WithoutFields
  <2>2. ConnsWithout(p) = [d \in Conns |-> ConnsWithout(p)[d]] BY DEF ConnsWithout
  <2> QED BY <2>1, <2>2
<1>12. conns' \in [Conns -> Conn] BY <1>7, <1>8, <1>11
<1>13. conns'[c] = m /\ \A d \in Conns : d # c => conns'[d] = ConnsWithout(p)[d]
  BY <1>8, <1>11
<1>14. ASSUME NEW d \in Conns, d # c
       PROVE  /\ conns'[d].place = conns[d].place
              /\ conns'[d].id = IF d = connMap[p] THEN NoPage ELSE conns[d].id
              /\ conns'[d].mode = conns[d].mode
              /\ (conns'[d].timer = conns[d].timer /\ conns'[d].progress = conns[d].progress)
                   \/ conns'[d].timer
  BY <1>13, <1>14, WithoutFields
<1>15. connMap' = [connMap EXCEPT ![p] = c] BY DEF UpgradeAccepted
<1>16. /\ connMap' \in [Pages -> Conns \cup {NoConn}] /\ connMap'[p] = c
       /\ \A q \in Pages : q # p => connMap'[q] = connMap[q]
  BY <1>15 DEF IInv, TypeOK
<1>17. clientMap[p] # NoView /\ clientMap[p] \in Views BY RegisteredFacts DEF UpgradeAccepted
<1>18. /\ views' \in [Views -> View]
       /\ \A v \in Views : /\ views'[v].client = views[v].client
                           /\ views'[v].exists = views[v].exists /\ views'[v].page = views[v].page
                           /\ views[v].front => views'[v].front
       /\ connMap[p] = NoConn => views'[clientMap[p]].front
  <2>1. CASE connMap[p] # NoConn BY <2>1 DEF UpgradeAccepted, IInv, TypeOK
  <2>2. CASE connMap[p] = NoConn
    <3> DEFINE u == clientMap[p]
               w == [views[u] EXCEPT !.front = TRUE]
    <3>1. views' = [views EXCEPT ![u] = w] BY <2>2 DEF UpgradeAccepted
    <3>2. views[u] \in View BY <1>17 DEF IInv, TypeOK
    <3>3. /\ w \in View /\ w.client = views[u].client /\ w.exists = views[u].exists
          /\ w.page = views[u].page /\ w.front
      BY <3>2 DEF View
    <3>4. u \in Views BY <1>17
    <3> HIDE DEF w, u
    <3>5. views'[u] = w /\ \A v \in Views : v # u => views'[v] = views[v]
      BY <3>1, <3>4 DEF IInv, TypeOK
    <3>6. views' \in [Views -> View] BY <3>1, <3>3 DEF IInv, TypeOK
    <3> QED BY <3>3, <3>5, <3>6 DEF u
  <2> QED BY <2>1, <2>2
<1>19. TypeOK' BY <1>2, <1>3, <1>12, <1>16, <1>18 DEF IInv, TypeOK, Loops
<1>20. ConnInv' BY <1>7, <1>13, <1>14 DEF IInv, ConnInv
<1>21. LoopInv' BY <1>2, <1>7, <1>13 DEF LoopInv
<1>22. HandleTimerArmed'
  <2> SUFFICES ASSUME NEW d \in Conns, conns'[d].place = "listed", d # c
               PROVE  conns'[d].timer \/ conns'[d].progress = "EError"
    BY <1>2 DEF HandleTimerArmed
  <2>1. conns[d].timer \/ conns[d].progress = "EError"
    BY <1>1, <1>14 DEF IInv, HandleTimerArmed
  <2> QED BY <1>14, <2>1
<1>23. MapsMatch'
  <2> SUFFICES ASSUME NEW d \in Conns, NEW q \in Pages
               PROVE  connMap'[q] = d <=> conns'[d].place = "listed" /\ conns'[d].id = q
    BY DEF MapsMatch
  <2>1. connMap[q] = d <=> conns[d].place = "listed" /\ conns[d].id = q BY DEF IInv, MapsMatch
  <2>2. CASE d = c BY <1>7, <1>10, <1>13, <1>16, <2>2
  <2>3. CASE d # c /\ d = connMap[p]
    <3>1. conns'[d].id = NoPage BY <1>14, <2>3
    <3>2. conns[d].id = p BY <2>3 DEF IInv, MapsMatch
    <3> QED BY <1>16, <2>1, <2>3, <3>1, <3>2, PagesFacts
  <2>4. CASE d # c /\ d # connMap[p]
    <3>1. conns'[d].id = conns[d].id /\ conns'[d].place = conns[d].place BY <1>14, <2>4
    <3>2. connMap'[q] = d <=> connMap[q] = d BY <1>16, <2>4
    <3> QED BY <2>1, <3>1, <3>2
  <2> QED BY <2>2, <2>3, <2>4
<1>24. ServerInv' BY <1>3, <1>17 DEF IInv, ServerInv
<1>25. ServerListens' BY <1>3 DEF IInv, ServerListens
<1>26. ViewInv' BY <1>18 DEF IInv, ViewInv
<1>27. RegisteredIsKnown'
  <2> SUFFICES ASSUME NEW q \in Pages, clientMap[q] # NoView
               PROVE  /\ q < nextPage /\ views'[clientMap[q]].client
                      /\ views'[clientMap[q]].page = q
    BY <1>3 DEF RegisteredIsKnown
  <2> QED BY <1>18, RegisteredFacts
<1>28. ConnectedIsTold'
  <2> SUFFICES ASSUME NEW q \in Pages, connMap'[q] # NoConn
               PROVE  clientMap[q] # NoView /\ views'[clientMap[q]].front
    BY <1>3 DEF ConnectedIsTold
  <2>1. CASE q = p /\ connMap[p] = NoConn BY <1>17, <1>18, <2>1
  <2>2. CASE connMap[q] # NoConn
    <3>1. clientMap[q] # NoView /\ views[clientMap[q]].front BY <2>2 DEF IInv, ConnectedIsTold
    <3>2. clientMap[q] \in Views BY <3>1, RegisteredFacts
    <3> QED BY <1>18, <3>1, <3>2
  <2> QED BY <1>16, <2>1, <2>2
<1> QED BY <1>19, <1>20, <1>21, <1>22, <1>23, <1>24, <1>25, <1>26, <1>27, <1>28 DEF IInv

----------------------------------------------------------------------------
(* Every reachable state.                                                   *)

\* The program starts without a server.
LEMMA InitHolds == ASSUME Init PROVE IInv
<1>1. TypeOK BY NewFacts, PagesFacts DEF Init, TypeOK, NoServer, Server
<1>2. \A c \in Conns : conns[c].place # "listed" /\ conns[c].id = NoPage
  BY NewFacts DEF Init
<1>3. NoConn \notin Conns /\ \A p \in Pages : clientMap[p] = NoView /\ connMap[p] = NoConn
  BY ConstAssumption DEF Init
<1>4. loop.conn = NoConn BY DEF Init, NotReading
<1>5. ConnInv /\ LoopInv /\ HandleTimerArmed /\ MapsMatch
  BY <1>2, <1>3, <1>4, PagesFacts DEF ConnInv, LoopInv, HandleTimerArmed, MapsMatch
<1>6. ServerInv /\ ServerListens /\ RegisteredIsKnown /\ ConnectedIsTold
  BY <1>3 DEF Init, NoServer, ServerInv, ServerListens, RegisteredIsKnown, ConnectedIsTold
<1>7. ViewInv BY NewFacts DEF Init, ViewInv
<1> QED BY <1>1, <1>5, <1>6, <1>7 DEF IInv

\* A step that changes nothing.
LEMMA StutterKeeps == ASSUME IInv, UNCHANGED vars PROVE IInv'
<1>1. TypeOK' BY DEF vars, IInv, TypeOK
<1>2. ConnInv' /\ LoopInv' /\ ServerInv' /\ ServerListens' /\ ViewInv'
  BY DEF vars, IInv, ConnInv, LoopInv, ServerInv, ServerListens, ViewInv
<1>3. MapsMatch' /\ RegisteredIsKnown' /\ ConnectedIsTold' /\ HandleTimerArmed'
  BY DEF vars, IInv, MapsMatch, RegisteredIsKnown, ConnectedIsTold, HandleTimerArmed
<1> QED BY <1>1, <1>2, <1>3 DEF IInv

\* Every action keeps the inductive invariant.
LEMMA NextKeeps == ASSUME IInv, [Next]_vars PROVE IInv'
<1>1. CASE StartServer \/ StopServer \/ PollFails
  BY <1>1, StartServerKeeps, StopServerKeeps, PollFailsKeeps
<1>2. ASSUME NEW c \in Conns, Accept(c) \/ PeerCloses(c) PROVE IInv'
  BY <1>2, AcceptKeeps, PeerClosesKeeps
<1>3. ASSUME NEW c \in Conns, TimerStep(c) PROVE IInv'
  BY <1>3, FiresConnectedKeeps, FiresErrorKeeps, FiresRequestCloseKeeps, FiresReadyKeeps
     DEF TimerStep
<1>4. ASSUME NEW c \in Conns, LoopStep(c) PROVE IInv'
  <2>1. CASE LoopEnds(c) \/ LoopWriteFails(c) BY <2>1, LoopEndsKeeps
  <2>2. CASE \/ LoopSkipsRead(c) \/ ReadNothing(c) \/ ReadFrames(c) \/ FrameSkipped(c)
             \/ DispatchReturns(c) \/ LoopSkipsWrite(c)
    BY <2>2, MovesKeep
  <2>3. CASE ReadRequest(c) \/ UpgradeRefused(c) \/ \E p \in Pages : UpgradeAccepted(c, p)
    BY <2>3, ReadRequestKeeps, UpgradeRefusedKeeps, UpgradeAcceptedKeeps
  <2>4. CASE FrameError(c) \/ FrameText(c) \/ LoopWrites(c)
    BY <2>4, FrameErrorKeeps, FrameTextKeeps, LoopWritesKeeps
  <2> QED BY <1>4, <2>1, <2>2, <2>3, <2>4 DEF LoopStep
<1>5. ASSUME NEW v \in Views,
             \/ CreateView(v) \/ DeleteView(v) \/ EnableInspector(v)
             \/ DisableInspector(v) \/ SendMessage(v)
      PROVE  IInv'
  BY <1>5, CreateViewKeeps, DeleteViewKeeps, EnableKeeps, DisableKeeps, SendMessageKeeps
<1>6. CASE Crashed \/ UNCHANGED vars BY <1>6, StutterKeeps DEF Crashed
<1> QED BY <1>1, <1>2, <1>3, <1>4, <1>5, <1>6 DEF Next

\* The inductive invariant holds throughout, whatever the embedder, the views
\* and the remote peers do.
THEOREM Invariance == Spec => []IInv
BY InitHolds, NextKeeps, PTL DEF Spec

\* m_connectionMap and the connections' identifiers agree, for any number of
\* connections that take a page over, are closed or are deleted with the server.
THEOREM MapsAgree == Spec => []MapsMatch
<1>1. IInv => MapsMatch BY DEF IInv
<1> QED BY <1>1, Invariance, PTL

\* A view is registered at most once, under the page it remembers, across any
\* sequence of stops and starts of the server.
THEOREM RegistryIsKnown == Spec => []RegisteredIsKnown
<1>1. IInv => RegisteredIsKnown BY DEF IInv
<1> QED BY <1>1, Invariance, PTL

\* The client of a page with a connection exists and knows of its frontend.
THEOREM ClientsAreTold == Spec => []ConnectedIsTold
<1>1. IInv => ConnectedIsTold BY DEF IInv
<1> QED BY <1>1, Invariance, PTL

\* No connection is left without its one-shot timer unless it failed.
THEOREM TimersAreArmed == Spec => []HandleTimerArmed
<1>1. IInv => HandleTimerArmed BY DEF IInv
<1> QED BY <1>1, Invariance, PTL

=============================================================================
