------------------------ MODULE WebSocketConnections ------------------------
(***************************************************************************)
(* The WebSocket transport of the network layer: every SocketStreamHandle  *)
(* and the slots that ResourceHandleManager keeps for them in              *)
(* m_socketStreamHandleList.                                               *)
(*                                                                         *)
(* All of this code runs on the main thread.  A call that re-enters it is  *)
(* one made from inside a client callback, so the calls in progress form a *)
(* stack: a constructor that is still reserving its slot, or a handle in   *)
(* platformClose() whose client is being told didCloseSocketStream().      *)
(*                                                                         *)
(* The client is a WebSocketChannel: it holds the only reference to its    *)
(* handle and drops it once it was told that the stream is closed; the     *)
(* calls in progress on a handle hold references of their own.             *)
(***************************************************************************)
EXTENDS Naturals, Sequences, FiniteSets

CONSTANTS
    Handles,    \* the SocketStreamHandle objects, each constructed once
    Hosts,      \* host:port pairs
    HostOf,     \* the host:port of each handle's URL
    Limits      \* the values m_maxWebSocketConnections is set to

ASSUME HandlesAssumption == IsFiniteSet(Handles)
ASSUME HostOfAssumption  == HostOf \in [Handles -> Hosts]
ASSUME LimitsAssumption  == Limits \subseteq Nat /\ Limits # {}

VARIABLES
    hs,     \* the fields of each handle
    slots,  \* the handles in m_socketStreamHandleList
    max,    \* m_maxWebSocketConnections
    stack   \* the handles whose calls are in progress, innermost first

vars == <<hs, slots, max, stack>>

\* state and sock are m_state and m_socketState; curl is "m_handle and
\* m_multiHandle are set"; fd is m_socket >= 0; timer is
\* m_progressTimer.isActive(); buf is "m_buffer holds data"; fin is "a write
\* met the peer's FIN and nextProgress() was not called since".
\* closing is the channel's m_closing, told is its m_closed.
\* call and todo are the frame of a call in progress on the handle.
Handle == [ state   : {"Unborn", "Connecting", "Open", "Closing", "Closed", "Deleted"},
            sock    : {"None", "Initialized", "Connected", "Active"},
            curl    : BOOLEAN,
            fd      : BOOLEAN,
            timer   : BOOLEAN,
            buf     : BOOLEAN,
            fin     : BOOLEAN,
            closing : BOOLEAN,
            told    : BOOLEAN,
            call    : {"none", "reserve", "close"},
            todo    : SUBSET Handles ]

Unborn == [ state |-> "Unborn", sock |-> "None", curl |-> FALSE, fd |-> FALSE,
            timer |-> FALSE, buf |-> FALSE, fin |-> FALSE, closing |-> FALSE,
            told |-> FALSE, call |-> "none", todo |-> {} ]

Init == /\ hs = [h \in Handles |-> Unborn]
        /\ slots = {}
        /\ max \in Limits
        /\ stack = <<>>

Alive(h)   == hs[h].state \notin {"Unborn", "Deleted"}
MainLoop   == stack = <<>>
Running(h) == stack # <<>> /\ Head(stack) = h

\* Scripts run from the main loop, and in the close event that a handle's
\* didCloseSocketStream() dispatches.
ScriptRuns == MainLoop \/ \E g \in Handles : Running(g) /\ hs[g].call = "close"

----------------------------------------------------------------------------
(* The constructor: construct() and reserveWebSocketConnection().          *)

\* Handles whose channel waits for the peer's Close message.
UnderClosing == {g \in slots : hs[g].closing}

\* A script opens a WebSocket.
Construct(h) ==
    /\ ScriptRuns
    /\ hs[h].state = "Unborn" /\ hs[h].call = "none"
    /\ hs' = [hs EXCEPT ![h] = [@ EXCEPT !.call = "reserve",
                  !.todo = IF Cardinality(slots) >= max THEN UnderClosing ELSE {}]]
    /\ stack' = <<h>> \o stack
    /\ UNCHANGED <<slots, max>>

\* platformClose() up to the client callback.  Without a cURL handle it only
\* stops the timer and returns, and disconnect() sets m_state.  A call on the
\* freed storage of a deleted handle is undefined; it is taken to stop there.
Disconnected(r) ==
    IF r.curl
    THEN [r EXCEPT !.curl = FALSE, !.fd = FALSE, !.timer = FALSE,
                   !.told = TRUE,  !.call = "close"]
    ELSE [r EXCEPT !.timer = FALSE, !.state = IF @ = "Deleted" THEN @ ELSE "Closed"]

EnterClose(g) == IF hs[g].curl THEN <<g>> \o stack ELSE stack

\* reserveWebSocketConnection() disconnects the next of the closing handles.
\* underClosing holds plain pointers: a script or a reservation inside an
\* earlier handle's close callback may have had this one deleted.
Reclaim(h, g) ==
    /\ Running(h) /\ hs[h].call = "reserve" /\ g \in hs[h].todo
    /\ LET waiting == [hs EXCEPT ![h] = [hs[h] EXCEPT !.todo = hs[h].todo \ {g}]]
       IN  hs' = [waiting EXCEPT ![g] = Disconnected(waiting[g])]
    /\ stack' = EnterClose(g)
    /\ UNCHANGED <<slots, max>>

Reserved(h) == Running(h) /\ hs[h].call = "reserve" /\ hs[h].todo = {}

\* No slot is free, or one is but an allocation failed and the slot was given
\* back: m_socketState stays None.
ConstructFails(h) ==
    /\ Reserved(h)
    /\ hs' = [hs EXCEPT ![h] = [@ EXCEPT !.state = "Connecting", !.timer = TRUE, !.call = "none"]]
    /\ stack' = Tail(stack)
    /\ UNCHANGED <<slots, max>>

\* The list has room after all: the handle is appended and its cURL handles
\* are set up.
ConstructSucceeds(h) ==
    /\ Reserved(h)
    /\ Cardinality(slots) < max
    /\ slots' = slots \cup {h}
    /\ hs' = [hs EXCEPT ![h] = [@ EXCEPT !.state = "Connecting", !.sock = "Initialized",
                                         !.curl = TRUE, !.timer = TRUE, !.call = "none"]]
    /\ stack' = Tail(stack)
    /\ UNCHANGED max

----------------------------------------------------------------------------
(* Closing: the end of platformClose(), and the destructor.                *)

\* The client callback returns: releaseWebSocketConnection(), and then
\* disconnect() sets m_state.
Release(h) ==
    /\ Running(h) /\ hs[h].call = "close"
    /\ slots' = slots \ {h}
    /\ hs' = [hs EXCEPT ![h] = [@ EXCEPT !.state = "Closed", !.call = "none"]]
    /\ stack' = Tail(stack)
    /\ UNCHANGED max

\* Mutant: a handle whose connection failed is deleted without giving back its
\* slot.
DeleteKeepsSlot(h) ==
    /\ Alive(h) /\ hs[h].told /\ hs[h].call = "none"
    /\ hs' = [hs EXCEPT ![h] = [@ EXCEPT !.state = "Deleted", !.curl = FALSE,
                                         !.fd = FALSE, !.timer = FALSE]]
    /\ UNCHANGED <<slots, max, stack>>

\* The channel, told that the stream is closed, drops its reference (later if
\* it is suspended), and no call on the handle is in progress; calls on other
\* handles may be.  The destructor detaches the client and closes.
Delete(h) ==
    /\ Alive(h) /\ hs[h].told /\ hs[h].call = "none"
    /\ slots' = slots \ (IF hs[h].curl THEN {h} ELSE {})
    /\ hs' = [hs EXCEPT ![h] = [@ EXCEPT !.state = "Deleted", !.curl = FALSE,
                                         !.fd = FALSE, !.timer = FALSE]]
    /\ UNCHANGED <<max, stack>>

\* disconnect() on a handle whose fields are r.
Disconnect(h, r) ==
    /\ hs' = [hs EXCEPT ![h] = Disconnected(r)]
    /\ stack' = EnterClose(h)
    /\ UNCHANGED <<slots, max>>

Update(h, r) == hs' = [hs EXCEPT ![h] = r] /\ UNCHANGED <<slots, max, stack>>

----------------------------------------------------------------------------
(* progressTimerFired(), one action for each way through it.               *)

\* The one-shot timer fires; nextProgress() starts it again.
Fired(h) == MainLoop /\ hs[h].timer
Stopped(h) == [hs[h] EXCEPT !.timer = FALSE]
NextProgress(r) == IF r.curl THEN [r EXCEPT !.timer = TRUE, !.fin = FALSE] ELSE r

\* The handle never got a slot: the channel's handshake cannot be sent and it
\* disconnects a handle that has nothing to close.
ProgressNone(h) ==
    /\ Fired(h) /\ hs[h].sock = "None"
    /\ Update(h, [Stopped(h) EXCEPT !.state = "Closed"])

\* Mutants: a handle in its handshake, or one past it, is told apart wrongly.
CanStartBesideHandshake(h) ==
    /\ h \in slots
    /\ \A g \in slots \ {h} : HostOf[g] = HostOf[h] => hs[g].sock # "None"

CanStartOnlyAlone(h) ==
    /\ h \in slots
    /\ \A g \in slots \ {h} : HostOf[g] = HostOf[h] => hs[g].sock = "Initialized"

\* canStartWebSocketConnecting(): the other handles to this host and port have
\* not started yet or are past their handshake.
CanStart(h) ==
    /\ h \in slots
    /\ \A g \in slots \ {h} :
          HostOf[g] = HostOf[h] => hs[g].sock \in {"Initialized", "Active"}

Connecting(h) == Fired(h) /\ hs[h].state = "Connecting" /\ hs[h].curl

\* Another handle is in its handshake with this host, or cURL has no message
\* yet (it may have opened the socket).
ProgressWait(h) ==
    /\ Connecting(h)
    /\ \/ ~CanStart(h) /\ Update(h, NextProgress(Stopped(h)))
       \/ CanStart(h) /\ \E fd \in {hs[h].fd, TRUE} :
                              Update(h, NextProgress([Stopped(h) EXCEPT !.fd = fd]))

\* Mutant: the channel is not told of the failure.
ProgressFailSilently(h) ==
    /\ Connecting(h) /\ CanStart(h) /\ ~hs[h].fd
    /\ Update(h, [Stopped(h) EXCEPT !.state = "Closed"])

\* cURL reports the end of a transfer that never opened a socket.
ProgressFail(h) ==
    /\ Connecting(h) /\ CanStart(h) /\ ~hs[h].fd
    /\ Update(h, [Stopped(h) EXCEPT !.state = "Closed", !.told = TRUE])

\* Mutant: platformSend() does not restart the timer.
SentWithoutProgress(r) == {[r EXCEPT !.buf = rest] : rest \in BOOLEAN}

\* What platformSend() may leave of a handle.  It sent all or a part of the
\* data, the rest stays buffered; or it met the peer's FIN, counts everything
\* as sent and returns before nextProgress().
Sent(r) == {NextProgress([r EXCEPT !.buf = rest]) : rest \in BOOLEAN}
           \cup {[r EXCEPT !.buf = FALSE, !.fin = TRUE]}

\* The socket is open; the client sends its handshake request and
\* disconnects if that fails.
ProgressOpen(h) ==
    /\ Connecting(h) /\ CanStart(h) /\ hs[h].fd
    /\ LET opened == [Stopped(h) EXCEPT !.state = "Open", !.sock = "Connected"]
       IN  \/ \E r \in Sent(opened) : Update(h, NextProgress(r))
           \/ Disconnect(h, opened)

Open(h) == Fired(h) /\ hs[h].state = "Open" /\ hs[h].curl

\* select() reports nothing or an error.
ProgressIdle(h) == Open(h) /\ Update(h, NextProgress(Stopped(h)))

\* The socket is writable: sendPendingData(), whose failure makes the client
\* disconnect.
ProgressWrite(h) ==
    /\ Open(h) /\ hs[h].buf
    /\ LET active == [Stopped(h) EXCEPT !.sock = "Active"]
       IN  \/ \E r \in Sent(active) : Update(h, r)
           \/ Disconnect(h, active)

\* The socket is readable: data is delivered, or the stream ended or failed
\* and the client disconnects.
ProgressRead(h) ==
    /\ Open(h)
    /\ LET active == [Stopped(h) EXCEPT !.sock = "Active"]
       IN  \/ Update(h, NextProgress(active))
           \/ Disconnect(h, active)

\* Closing or Closed: the timer is not restarted.
ProgressNothing(h) ==
    /\ Fired(h) /\ hs[h].curl /\ hs[h].state \in {"Closing", "Closed"}
    /\ Update(h, Stopped(h))

----------------------------------------------------------------------------
(* What the channel asks of its handle, and the setting.                   *)

\* The channel sends a frame; the Close frame sets m_closing.
Send(h, close) ==
    /\ ScriptRuns /\ hs[h].state = "Open" /\ ~hs[h].told
    /\ close => ~hs[h].closing
    /\ LET framed == [hs[h] EXCEPT !.closing = @ \/ close]
       IN  \/ hs[h].buf /\ Update(h, framed)
           \/ ~hs[h].buf /\ \E r \in Sent(framed) : Update(h, r)
           \/ ~hs[h].buf /\ Disconnect(h, hs[h])

\* SocketStreamHandleBase::close(), when the peer's Close message was read and
\* the channel has sent its own.
Close(h) ==
    /\ MainLoop /\ hs[h].state = "Open" /\ hs[h].closing /\ ~hs[h].told
    /\ hs[h].sock = "Active"
    /\ IF hs[h].buf
       THEN Update(h, [hs[h] EXCEPT !.state = "Closing"])
       ELSE Disconnect(h, hs[h])

\* The channel fails, is abandoned by its document, or its closing timer
\* fires: SocketStreamHandleBase::disconnect().
ChannelDisconnect(h) ==
    /\ ScriptRuns /\ Alive(h) /\ (~hs[h].told \/ hs[h].curl)
    /\ Disconnect(h, hs[h])

\* setMaxWebSocketConnections() with an accepted number.
SetMax(n) == /\ MainLoop /\ max' = n
             /\ UNCHANGED <<hs, slots, stack>>

Next ==
    \/ \E h \in Handles :
          \/ Construct(h) \/ ConstructFails(h) \/ ConstructSucceeds(h)
          \/ \E g \in Handles : Reclaim(h, g)
          \/ Release(h) \/ Delete(h)
          \/ ProgressNone(h) \/ ProgressWait(h) \/ ProgressFail(h) \/ ProgressOpen(h)
          \/ ProgressIdle(h) \/ ProgressWrite(h) \/ ProgressRead(h) \/ ProgressNothing(h)
          \/ \E close \in BOOLEAN : Send(h, close)
          \/ Close(h) \/ ChannelDisconnect(h)
    \/ \E n \in Limits : SetMax(n)

Spec == Init /\ [][Next]_vars

----------------------------------------------------------------------------
(* Fairness.  The run loop fires every started timer and runs calls to     *)
(* their end.  Outside the code: cURL, which has a time limit of its own   *)
(* for a connection attempt, reports its end.  Nothing is assumed of the   *)
(* peer: construct() sets no time limit for the answer to a handshake.     *)
Fairness ==
    \A h \in Handles :
        /\ WF_vars(Release(h)) /\ WF_vars(ConstructFails(h) \/ ConstructSucceeds(h))
        /\ \A g \in Handles : WF_vars(Reclaim(h, g))
        /\ WF_vars(ProgressNone(h))
        /\ WF_vars(ProgressFail(h) \/ ProgressOpen(h))

FairSpec == Spec /\ Fairness

----------------------------------------------------------------------------
(* Properties.                                                             *)

TypeOK == /\ hs \in [Handles -> Handle]
          /\ slots \subseteq Handles
          /\ max \in Limits
          /\ stack \in Seq(Handles)

\* Slots and connections correspond: a handle is in m_socketStreamHandleList
\* exactly while it owns its cURL handles or is about to release them, so no
\* way out of construct(), progressTimerFired() or platformClose() leaks a
\* slot or gives one back early.
SlotsBacked == slots = {h \in Handles : hs[h].curl \/ hs[h].call = "close"}

\* canStartWebSocketConnecting() serialises the opening handshakes: of the
\* handles to one host and port, at most one is connected and has not yet
\* seen any traffic.
OneHandshakePerHost ==
    \A g, h \in slots :
        g # h /\ HostOf[g] = HostOf[h]
            => ~(hs[g].sock = "Connected" /\ hs[h].sock = "Connected")

\* No lost wake-up but one: a connecting or open handle has its progress timer
\* running after every callback, unless its last write from the timer met the
\* peer's FIN, where platformSend() returns before nextProgress().  Such a
\* handle sits until its channel disconnects it; it has nothing left to send,
\* and is past its handshake, so that no handle to its host waits for it.
TimerArmed ==
    \A h \in Handles :
        hs[h].curl /\ hs[h].state \in {"Connecting", "Open"} /\ ~hs[h].timer
            => hs[h].state = "Open" /\ hs[h].fin /\ ~hs[h].buf /\ hs[h].sock = "Active"

\* The handle sent its handshake request and has seen no traffic since.
Handshaking(g) == g \in slots /\ hs[g].state = "Open" /\ hs[g].sock = "Connected"

\* A handle that waits for its turn to connect gets it, though other handles to
\* the same host are ahead of it: it ends up open or closed, or one of the
\* others is in its handshake for ever, with a peer that neither answers nor
\* closes.  Nothing else that goes on with the other handles holds it up.
ConnectingEnds ==
    \A h \in Handles :
        \/ hs[h].state = "Connecting" ~> hs[h].state # "Connecting"
        \/ \E g \in Handles \ {h} : HostOf[g] = HostOf[h] /\ <>[]Handshaking(g)

\* WebSocketChannel::fail() relies on disconnect() calling didClose(): a
\* closed handle that ever had a slot has told its channel, whichever of the
\* timer, the channel and another handle's reservation closed it.
ClosedIsTold ==
    \A h \in Handles : hs[h].state = "Closed" /\ hs[h].sock # "None" => hs[h].told
=============================================================================
