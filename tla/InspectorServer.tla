--------------------------- MODULE InspectorServer ---------------------------
(***************************************************************************)
(* The remote inspector: WebInspectorServer with its page registry, the    *)
(* WebSocketServer that accepts connections, WebSocketServerConnection and *)
(* the SocketStreamHandleServer under each of them, and the view's side,   *)
(* InspectorServerClientWKC.  Everything runs on the main thread from      *)
(* one-shot timers.  A connection and its handle are one record: the       *)
(* connection holds the only reference to its handle.                      *)
(***************************************************************************)
EXTENDS Naturals

CONSTANTS
    Views,        \* web views
    NoView,       \* no client in m_clientMap
    Conns,        \* connections that remote peers may make, each once
    NoConn,       \* no connection in m_connectionMap
    MaxPage,      \* bound: page identifiers handed out by one server
    MaxRequests   \* bound: plain HTTP requests a peer makes on a connection

ASSUME ConstAssumption ==
    /\ NoView \notin Views
    /\ NoConn \notin Conns
    /\ MaxPage \in Nat \ {0}
    /\ MaxRequests \in Nat

VARIABLES
    server,     \* the shared instance: alive, m_state, listening socket, poll timer
    nextPage,   \* m_nextAvailablePageId
    clientMap,  \* m_clientMap: page -> view
    connMap,    \* m_connectionMap: page -> connection
    conns,      \* WebSocketServerConnection with its SocketStreamHandleServer
    views,      \* InspectorServerClientWKC of each view
    loop,       \* the connection inside progressTimerFired()'s EReady loop, and where
    crashed     \* "no", or which null object was used

vars == <<server, nextPage, clientMap, connMap, conns, views, loop, crashed>>

Pages == 1..MaxPage
NoPage == 0

Server == [alive : BOOLEAN, listening : BOOLEAN, socket : BOOLEAN, poll : BOOLEAN]

Conn == [place    : {"none", "listed", "gone"},       \* m_connections
         id       : Pages \cup {NoPage},              \* m_identifier
         mode     : {"HTTP", "WebSocket"},            \* m_mode
         shut     : BOOLEAN,                          \* m_shutdownAfterSend
         state    : {"Connecting", "Open", "Closing", "Closed"},
         progress : {"EConnected", "EReady", "EError", "ERequestClose"},
         timer    : BOOLEAN,                          \* m_progressTimer is active
         buf      : BOOLEAN,                          \* m_buffer holds data
         peer     : BOOLEAN,                          \* the peer has not closed
         requests : 0..MaxRequests]

View == [exists  : BOOLEAN,                           \* the view
         client  : BOOLEAN,                           \* m_inspectorServerClient
         page    : Pages \cup {NoPage},               \* m_remoteInspectionPageId
         front   : BOOLEAN,                           \* m_remoteFrontendConnected
         enabled : BOOLEAN]                           \* m_inspectorIsEnabled

NoServer == [alive |-> FALSE, listening |-> FALSE, socket |-> FALSE, poll |-> FALSE]

NewConn == [place |-> "none", id |-> NoPage, mode |-> "HTTP", shut |-> FALSE,
            state |-> "Connecting", progress |-> "EConnected", timer |-> FALSE,
            buf |-> FALSE, peer |-> TRUE, requests |-> 0]

NewView == [exists |-> FALSE, client |-> FALSE, page |-> NoPage, front |-> FALSE,
            enabled |-> FALSE]

NotReading == [conn |-> NoConn, at |-> "idle"]

Init ==
    /\ server = NoServer
    /\ nextPage = 1
    /\ clientMap = [p \in Pages |-> NoView]
    /\ connMap = [p \in Pages |-> NoConn]
    /\ conns = [c \in Conns |-> NewConn]
    /\ views = [v \in Views |-> NewView]
    /\ loop = NotReading
    /\ crashed = "no"

Idle == loop.at = "idle" /\ crashed = "no"

(***************************************************************************)
(* SocketStreamHandleBase on one connection's record.                      *)
(***************************************************************************)

\* shutdownNow(): close() of the handle.  With data in the buffer the handle
\* is only marked, otherwise platformClose() asks the timer for the rest.
Shutdown(k) ==
    IF k.state = "Closed" THEN [k EXCEPT !.shut = FALSE]
    ELSE IF k.buf THEN [k EXCEPT !.state = "Closing", !.shut = FALSE]
    ELSE [k EXCEPT !.state = "Closed", !.progress = "ERequestClose",
                   !.timer = TRUE, !.shut = FALSE]

\* The outcomes of send(): refused, added to a buffer that holds data already,
\* kept whole in the buffer (not Open, or not EReady), or given to the socket,
\* which takes all of it, a part of it, or fails.
Sends(k) ==
    IF k.state \in {"Connecting", "Closing"} \/ k.buf THEN {k}
    ELSE IF k.state = "Open" /\ k.progress = "EReady" THEN {k, [k EXCEPT !.buf = TRUE]}
    ELSE {[k EXCEPT !.buf = TRUE]}

(***************************************************************************)
(* closeConnection() and its callers.                                      *)
(***************************************************************************)

\* The connection table after closeConnection() of the connection of page p.
ConnsWithout(p) ==
    [c \in Conns |-> IF c = connMap[p]
                     THEN Shutdown([conns[c] EXCEPT !.id = NoPage]) ELSE conns[c]]

\* As it would be if the connection were left to its peer.
UnregisterPageKeepsConnection(p) ==
    /\ clientMap' = [q \in Pages |-> IF q = p THEN NoView ELSE clientMap[q]]
    /\ UNCHANGED <<connMap, conns>>

\* unregisterPage(): the client goes first, so it is not told of the disconnection.
UnregisterPage(p) ==
    /\ clientMap' = [q \in Pages |-> IF q = p THEN NoView ELSE clientMap[q]]
    /\ IF p \in Pages /\ connMap[p] # NoConn
       THEN /\ connMap' = [connMap EXCEPT ![p] = NoConn]
            /\ conns' = ConnsWithout(p)
       ELSE UNCHANGED <<connMap, conns>>

(***************************************************************************)
(* The embedder: WKCWebKitStartWebInspector(), WKCWebKitStopWebInspector().*)
(***************************************************************************)

\* ~WebInspectorServer: the clients of open connections are told, the
\* connections and their handles are deleted with the server.
DeleteServer ==
    /\ server' = NoServer
    /\ nextPage' = 1
    /\ clientMap' = [p \in Pages |-> NoView]
    /\ connMap' = [p \in Pages |-> NoConn]
    /\ conns' = [c \in Conns |-> IF conns[c].place = "listed"
                                 THEN [NewConn EXCEPT !.place = "gone"] ELSE conns[c]]
    /\ views' = [v \in Views |->
                   IF \E p \in Pages : connMap[p] # NoConn /\ clientMap[p] = v
                   THEN [views[v] EXCEPT !.front = FALSE] ELSE views[v]]

\* A server that already listens refuses, and the refusal deletes it.
StartServer ==
    /\ Idle
    /\ IF server.listening THEN DeleteServer
       ELSE \/ /\ server' = [alive |-> TRUE, listening |-> TRUE, socket |-> TRUE, poll |-> TRUE]
               /\ UNCHANGED <<nextPage, clientMap, connMap, conns, views>>
            \/ DeleteServer
    /\ UNCHANGED <<loop, crashed>>

StopServer ==
    /\ Idle
    /\ server.alive
    /\ DeleteServer
    /\ UNCHANGED <<loop, crashed>>

(***************************************************************************)
(* pollTimerCallback().  Nothing to accept, and no descriptor left         *)
(* (EMFILE), start the timer again and change nothing.                     *)
(***************************************************************************)

Accept(c) ==
    /\ Idle
    /\ server.poll
    /\ server.socket
    /\ conns[c].place = "none"
    /\ conns' = [conns EXCEPT ![c].place = "listed", ![c].timer = TRUE]
    /\ UNCHANGED <<server, nextPage, clientMap, connMap, views, loop, crashed>>

\* select() or accept() fails: the socket is closed, m_state stays Listening.
PollFails ==
    /\ Idle
    /\ server.poll
    /\ server' = [server EXCEPT !.socket = FALSE, !.poll = FALSE]
    /\ UNCHANGED <<nextPage, clientMap, connMap, conns, views, loop, crashed>>

(***************************************************************************)
(* Views.  enableWebInspector() may also be called while a message from    *)
(* the remote frontend is being dispatched to a page.                      *)
(***************************************************************************)

Outside == loop.at \in {"idle", "dispatch"} /\ crashed = "no"

CreateView(v) ==
    /\ Idle
    /\ ~views[v].exists
    /\ views' = [views EXCEPT ![v] = [NewView EXCEPT !.exists = TRUE, !.client = server.alive]]
    /\ UNCHANGED <<server, nextPage, clientMap, connMap, conns, loop, crashed>>

\* ~InspectorServerClientWKC() uses the shared instance without looking
\* whether there is one.
DeleteView(v) ==
    /\ Idle
    /\ views[v].exists
    /\ views' = [views EXCEPT ![v] = NewView]
    /\ IF views[v].page = NoPage
       THEN UNCHANGED <<clientMap, connMap, conns, crashed>>
       ELSE IF server.alive
       THEN UnregisterPage(views[v].page) /\ UNCHANGED crashed
       ELSE crashed' = "noServer" /\ UNCHANGED <<clientMap, connMap, conns>>
    /\ UNCHANGED <<server, nextPage, loop>>

\* As it would be if a page that is enabled again were always registered.
EnableInspectorAgain(v) ==
    /\ Outside
    /\ server.alive
    /\ views[v].client
    /\ nextPage <= MaxPage
    /\ clientMap' = [clientMap EXCEPT ![nextPage] = v]
    /\ nextPage' = nextPage + 1
    /\ views' = [views EXCEPT ![v].page = nextPage, ![v].enabled = TRUE]
    /\ UNCHANGED <<server, connMap, conns, loop, crashed>>

EnableInspector(v) ==
    /\ Outside
    /\ server.alive
    /\ views[v].client
    /\ IF views[v].page = NoPage
       THEN /\ nextPage <= MaxPage
            /\ clientMap' = [clientMap EXCEPT ![nextPage] = v]
            /\ nextPage' = nextPage + 1
            /\ views' = [views EXCEPT ![v].page = nextPage, ![v].enabled = TRUE]
       ELSE /\ views' = [views EXCEPT ![v].enabled = TRUE]
            /\ UNCHANGED <<clientMap, nextPage>>
    /\ UNCHANGED <<server, connMap, conns, loop, crashed>>

DisableInspector(v) ==
    /\ Outside
    /\ server.alive
    /\ views[v].client
    /\ views' = [views EXCEPT ![v].page = NoPage, ![v].enabled = FALSE]
    /\ IF views[v].page = NoPage THEN UNCHANGED <<clientMap, connMap, conns>>
       ELSE UnregisterPage(views[v].page)
    /\ UNCHANGED <<server, nextPage, loop, crashed>>

\* sendMessageToRemoteFrontend(): a page that thinks it has a remote frontend
\* reports to it.  Like the deletion of a view this does not look whether there
\* is a shared instance.
SendMessage(v) ==
    /\ Outside
    /\ views[v].front
    /\ views[v].page # NoPage
    /\ IF server.alive
       THEN /\ connMap[views[v].page] # NoConn
            /\ LET c == connMap[views[v].page] IN
                 \E k \in Sends(conns[c]) : conns' = [conns EXCEPT ![c] = k]
            /\ UNCHANGED crashed
       ELSE crashed' = "noServer" /\ UNCHANGED conns
    /\ UNCHANGED <<server, nextPage, clientMap, connMap, views, loop>>

PeerCloses(c) ==
    /\ crashed = "no"
    /\ conns[c].place = "listed"
    /\ conns[c].peer
    /\ conns' = [conns EXCEPT ![c].peer = FALSE]
    /\ UNCHANGED <<server, nextPage, clientMap, connMap, views, loop, crashed>>

(***************************************************************************)
(* progressTimerFired() of a connection's handle.                          *)
(***************************************************************************)

Fires(c) ==
    /\ Idle
    /\ conns[c].place = "listed"
    /\ conns[c].timer

FiresConnected(c) ==
    /\ Fires(c)
    /\ conns[c].progress = "EConnected"
    /\ conns' = [conns EXCEPT ![c].state = "Open", ![c].progress = "EReady"]
    /\ UNCHANGED <<server, nextPage, clientMap, connMap, views, loop, crashed>>

\* didFailSocketStream() has an empty body and the timer is not started again.
FiresError(c) ==
    /\ Fires(c)
    /\ conns[c].progress = "EError"
    /\ conns' = [conns EXCEPT ![c].timer = FALSE]
    /\ UNCHANGED <<server, nextPage, clientMap, connMap, views, loop, crashed>>

\* didCloseSocketStream(): a page's connection tells the page's client, then
\* the server deletes the connection.
FiresRequestClose(c) ==
    /\ Fires(c)
    /\ conns[c].progress = "ERequestClose"
    /\ LET p == IF conns[c].mode = "WebSocket" THEN conns[c].id ELSE NoPage IN
         IF p = NoPage THEN UNCHANGED <<connMap, views>>
         ELSE /\ connMap' = [connMap EXCEPT ![p] = NoConn]
              /\ views' = [v \in Views |-> IF v = clientMap[p]
                             THEN [views[v] EXCEPT !.front = FALSE] ELSE views[v]]
    /\ conns' = [conns EXCEPT ![c] = [NewConn EXCEPT !.place = "gone"]]
    /\ UNCHANGED <<server, nextPage, clientMap, loop, crashed>>

FiresReady(c) ==
    /\ Fires(c)
    /\ conns[c].progress = "EReady"
    /\ conns' = [conns EXCEPT ![c].timer = FALSE]
    /\ loop' = [conn |-> c, at |-> "select"]
    /\ UNCHANGED <<server, nextPage, clientMap, connMap, views, crashed>>

(***************************************************************************)
(* The EReady loop: select, read, write, until there is nothing to do or   *)
(* recv() returns no data, which it also does when the peer has closed.    *)
(***************************************************************************)

At(c, at) == loop = [conn |-> c, at |-> at] /\ crashed = "no"
Goto(c, at) == loop' = [conn |-> c, at |-> at]

\* As it would be if the timer were started only while the handle is Open.
LoopEndsOpenOnly(c) ==
    /\ At(c, "select")
    /\ conns' = [conns EXCEPT ![c].timer = @ \/ conns[c].state = "Open"]
    /\ loop' = NotReading
    /\ UNCHANGED <<server, nextPage, clientMap, connMap, views, crashed>>

LoopEnds(c) ==
    /\ At(c, "select")
    /\ conns' = [conns EXCEPT ![c].timer = TRUE]
    /\ loop' = NotReading
    /\ UNCHANGED <<server, nextPage, clientMap, connMap, views, crashed>>

\* Nothing to read, but data to write.
LoopSkipsRead(c) ==
    /\ At(c, "select")
    /\ conns[c].buf
    /\ Goto(c, "write")
    /\ UNCHANGED <<server, nextPage, clientMap, connMap, conns, views, crashed>>

\* A request that is not complete yet, or an upgrade of the old kind, which is
\* only logged.
ReadNothing(c) ==
    /\ At(c, "select")
    /\ conns[c].peer
    /\ conns[c].mode = "HTTP"
    /\ Goto(c, "write")
    /\ UNCHANGED <<server, nextPage, clientMap, connMap, conns, views, crashed>>

\* didReceiveUnrecognizedHTTPRequest(): header, body, shutdownAfterSendOrNow().
ReadRequest(c) ==
    /\ At(c, "select")
    /\ conns[c].peer
    /\ conns[c].mode = "HTTP"
    /\ conns[c].requests < MaxRequests
    /\ \E k \in Sends([conns[c] EXCEPT !.requests = @ + 1]) :
         \E l \in Sends(k) :
           conns' = [conns EXCEPT ![c] = IF l.buf THEN [l EXCEPT !.shut = TRUE]
                                                  ELSE Shutdown(l)]
    /\ Goto(c, "write")
    /\ UNCHANGED <<server, nextPage, clientMap, connMap, views, crashed>>

\* An upgrade to a path that names no registered page.  The mode has changed
\* by the time the client refuses.
UpgradeRefused(c) ==
    /\ At(c, "select")
    /\ conns[c].peer
    /\ conns[c].mode = "HTTP"
    /\ conns' = [conns EXCEPT ![c] = Shutdown([@ EXCEPT !.mode = "WebSocket"])]
    /\ Goto(c, "write")
    /\ UNCHANGED <<server, nextPage, clientMap, connMap, views, crashed>>

\* As it would be if the page's earlier connection were only replaced.
UpgradeAcceptedBesides(c, p) ==
    /\ At(c, "select")
    /\ conns[c].peer
    /\ conns[c].mode = "HTTP"
    /\ clientMap[p] # NoView
    /\ \E k \in Sends([conns[c] EXCEPT !.mode = "WebSocket"]) :
         conns' = [conns EXCEPT ![c] = [k EXCEPT !.id = p]]
    /\ connMap' = [connMap EXCEPT ![p] = c]
    /\ views' = [views EXCEPT ![clientMap[p]].front = TRUE]
    /\ Goto(c, "write")
    /\ UNCHANGED <<server, nextPage, clientMap, crashed>>

\* didEstablishWebSocketConnection(): a connection the page already has is
\* closed without a word to the client, which stays connected.
UpgradeAccepted(c, p) ==
    /\ At(c, "select")
    /\ conns[c].peer
    /\ conns[c].mode = "HTTP"
    /\ clientMap[p] # NoView
    /\ \E k \in Sends([conns[c] EXCEPT !.mode = "WebSocket"]) :
         conns' = [ConnsWithout(p) EXCEPT ![c] = [k EXCEPT !.id = p]]
    /\ connMap' = [connMap EXCEPT ![p] = c]
    /\ views' = IF connMap[p] # NoConn THEN views
                ELSE [views EXCEPT ![clientMap[p]].front = TRUE]
    /\ Goto(c, "write")
    /\ UNCHANGED <<server, nextPage, clientMap, crashed>>

ReadFrames(c) ==
    /\ At(c, "select")
    /\ conns[c].peer
    /\ conns[c].mode = "WebSocket"
    /\ Goto(c, "frames")
    /\ UNCHANGED <<server, nextPage, clientMap, connMap, conns, views, crashed>>

\* readWebSocketFrames() goes on while its buffer holds data.
NextFrame(c) == Goto(c, "frames") \/ Goto(c, "write")

\* An incomplete frame, or one of a kind that is not implemented.
FrameSkipped(c) ==
    /\ At(c, "frames")
    /\ NextFrame(c)
    /\ UNCHANGED <<server, nextPage, clientMap, connMap, conns, views, crashed>>

\* What is left in the buffer depends on a frameEnd that was never set.
FrameError(c) ==
    /\ At(c, "frames")
    /\ conns' = [conns EXCEPT ![c] = Shutdown(@)]
    /\ NextFrame(c)
    /\ UNCHANGED <<server, nextPage, clientMap, connMap, views, crashed>>

\* didReceiveWebSocketMessage(): without a page there is no client to call.
FrameText(c) ==
    /\ At(c, "frames")
    /\ IF conns[c].id = NoPage THEN crashed' = "noClient" /\ UNCHANGED loop
       ELSE Goto(c, "dispatch") /\ UNCHANGED crashed
    /\ UNCHANGED <<server, nextPage, clientMap, connMap, conns, views>>

DispatchReturns(c) ==
    /\ At(c, "dispatch")
    /\ NextFrame(c)
    /\ UNCHANGED <<server, nextPage, clientMap, connMap, conns, views, crashed>>

\* Nothing to write, or the socket takes nothing now.
LoopSkipsWrite(c) ==
    /\ At(c, "write")
    /\ Goto(c, "select")
    /\ UNCHANGED <<server, nextPage, clientMap, connMap, conns, views, crashed>>

\* sendPendingData() and didUpdateBufferedAmount().
LoopWrites(c) ==
    /\ At(c, "write")
    /\ conns[c].buf
    /\ conns[c].state \in {"Open", "Closing"}
    /\ conns[c].progress = "EReady"
    /\ \/ UNCHANGED conns
       \/ LET k == [conns[c] EXCEPT !.buf = FALSE] IN
            conns' = [conns EXCEPT ![c] = IF k.shut THEN Shutdown(k) ELSE k]
    /\ Goto(c, "select")
    /\ UNCHANGED <<server, nextPage, clientMap, connMap, views, crashed>>

\* sendPendingData() returns false: the handle is not in a state to send, or
\* the socket failed.
LoopWriteFails(c) ==
    /\ At(c, "write")
    /\ conns[c].buf
    /\ conns' = [conns EXCEPT ![c].progress = "EError", ![c].timer = TRUE]
    /\ loop' = NotReading
    /\ UNCHANGED <<server, nextPage, clientMap, connMap, views, crashed>>

LoopStep(c) ==
    \/ LoopEnds(c) \/ LoopSkipsRead(c) \/ ReadNothing(c) \/ ReadRequest(c)
    \/ UpgradeRefused(c) \/ (\E p \in Pages : UpgradeAccepted(c, p))
    \/ ReadFrames(c) \/ FrameSkipped(c) \/ FrameError(c) \/ FrameText(c)
    \/ DispatchReturns(c) \/ LoopSkipsWrite(c) \/ LoopWrites(c) \/ LoopWriteFails(c)

TimerStep(c) ==
    FiresConnected(c) \/ FiresError(c) \/ FiresRequestClose(c) \/ FiresReady(c)

\* Nothing is claimed about what a program does after using a null object.
Crashed == crashed # "no" /\ UNCHANGED vars

Next ==
    \/ StartServer \/ StopServer \/ PollFails
    \/ \E c \in Conns : Accept(c) \/ PeerCloses(c) \/ TimerStep(c) \/ LoopStep(c)
    \/ \E v \in Views : \/ CreateView(v) \/ DeleteView(v) \/ EnableInspector(v)
                        \/ DisableInspector(v) \/ SendMessage(v)
    \/ Crashed

Spec == Init /\ [][Next]_vars

(***************************************************************************)
(* Properties.                                                             *)
(***************************************************************************)

\* Every variable has its type.
TypeOK ==
    /\ server \in Server
    /\ nextPage \in 1..(MaxPage + 1)
    /\ clientMap \in [Pages -> Views \cup {NoView}]
    /\ connMap \in [Pages -> Conns \cup {NoConn}]
    /\ conns \in [Conns -> Conn]
    /\ views \in [Views -> View]
    /\ loop \in [conn : Conns, at : {"select", "frames", "dispatch", "write"}]
               \cup {NotReading}
    /\ crashed \in {"no", "noServer", "noClient"}

\* m_connectionMap and the identifiers of the connections agree, and only a
\* connection that is still in m_connections is in the map: what
\* sendMessageOverConnection() finds is alive and belongs to the page, and two
\* connections never claim one page.
MapsMatch ==
    \A c \in Conns, p \in Pages :
        connMap[p] = c <=> (conns[c].place = "listed" /\ conns[c].id = p)

\* A page in the registry is the page its view remembers, so a view is
\* registered at most once (the assertion of registerPage()) and unregisters
\* itself before it is deleted, across stops and starts of the server.
RegisteredIsKnown ==
    \A p \in Pages : clientMap[p] # NoView =>
        /\ p < nextPage
        /\ views[clientMap[p]].client
        /\ views[clientMap[p]].page = p

\* A page with a connection is registered and its client has been told that a
\* frontend is connected: the client didReceiveWebSocketMessage() and
\* closeConnection() look up is there, also when one frontend replaced another.
ConnectedIsTold ==
    \A p \in Pages : connMap[p] # NoConn =>
        /\ clientMap[p] # NoView
        /\ views[clientMap[p]].front

\* A connection that has not failed is either being served or has its timer:
\* the one-shot timer is started again on every way through the loop, and by
\* whoever closes the connection in between.
HandleTimerArmed ==
    \A c \in Conns : conns[c].place = "listed" =>
        conns[c].timer \/ loop.conn = c \/ conns[c].progress = "EError"
==============================================================================
