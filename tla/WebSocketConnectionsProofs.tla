--------------------- MODULE WebSocketConnectionsProofs ---------------------
(* Proofs about WebSocketConnections, for any handles, hosts and limits.   *)
EXTENDS WebSocketConnections, TLAPS

\* A handle inside platformClose() no longer owns its cURL handles.
ClosingReleased == \A h \in Handles : hs[h].call = "close" => ~hs[h].curl

\* What TimerArmed says of one handle.
Attended(r) == r.curl /\ r.state \in {"Connecting", "Open"} /\ ~r.timer
                   => r.state = "Open" /\ r.fin /\ ~r.buf /\ r.sock = "Active"

IInv == TypeOK /\ ClosingReleased /\ SlotsBacked /\ OneHandshakePerHost /\ TimerArmed

----------------------------------------------------------------------------
\* disconnect() leaves a handle without cURL handles; it is inside
\* platformClose() exactly if it had them.
LEMMA DisconnectedFields ==
    ASSUME NEW r \in Handle
    PROVE  /\ Disconnected(r) \in Handle
           /\ Disconnected(r).sock = r.sock
           /\ ~Disconnected(r).curl
           /\ Disconnected(r).call = IF r.curl THEN "close" ELSE r.call
BY DEF Disconnected, Handle

\* Entering and leaving calls keeps the stack a sequence of handles.
LEMMA StackType ==
    ASSUME NEW s \in Seq(Handles), NEW h \in Handles
    PROVE  /\ <<h>> \o s \in Seq(Handles)
           /\ s # <<>> => Tail(s) \in Seq(Handles)
OBVIOUS

\* A step that replaces the fields of one handle by r and leaves the slots
\* alone keeps the invariant if r suits the handle's slot and does not start
\* a second handshake.
LEMMA UpdateKeeps ==
    ASSUME IInv, NEW h \in Handles, NEW r \in Handle,
           hs' = [hs EXCEPT ![h] = r], slots' = slots, max' \in Limits,
           stack' \in Seq(Handles),
           r.call = "close" => ~r.curl,
           h \in slots <=> r.curl \/ r.call = "close",
           Attended(r),
           r.sock = "Connected" /\ h \in slots =>
               \/ hs[h].sock = "Connected"
               \/ \A g \in slots \ {h} : HostOf[g] = HostOf[h] => hs[g].sock # "Connected"
    PROVE  IInv'
<1> USE DEF IInv
<1>1. TypeOK'
  BY DEF TypeOK
<1>2. \A k \in Handles : hs'[k] = IF k = h THEN r ELSE hs[k]
  BY DEF TypeOK
<1>3. ClosingReleased'
  BY <1>2 DEF ClosingReleased
<1>4. SlotsBacked'
  BY <1>2 DEF SlotsBacked
<1>5. OneHandshakePerHost'
  BY <1>2 DEF OneHandshakePerHost, TypeOK
<1>6. TimerArmed'
  BY <1>2 DEF TimerArmed, Attended
<1> QED BY <1>1, <1>3, <1>4, <1>5, <1>6

\* disconnect() on a handle, at the place that wrote the fields r into it.
LEMMA DisconnectKeeps ==
    ASSUME IInv, NEW h \in Handles, NEW r \in Handle, Disconnect(h, r),
           r.curl = hs[h].curl, r.call = hs[h].call,
           r.sock = "Connected" /\ h \in slots =>
               \/ hs[h].sock = "Connected"
               \/ \A g \in slots \ {h} : HostOf[g] = HostOf[h] => hs[g].sock # "Connected"
    PROVE  IInv'
<1> DEFINE d == Disconnected(r)
<1>1. d \in Handle /\ d.sock = r.sock /\ ~d.curl /\ d.call = IF r.curl THEN "close" ELSE r.call
  BY DisconnectedFields
<1>2. stack' \in Seq(Handles) /\ max' \in Limits
  BY StackType DEF Disconnect, EnterClose, IInv, TypeOK
<1>3. h \in slots <=> d.curl \/ d.call = "close"
  BY <1>1 DEF IInv, SlotsBacked
<1> QED BY <1>1, <1>2, <1>3, UpdateKeeps DEF Disconnect, Attended

\* A step that leaves cURL handles, calls and the slots alone.
LEMMA QuietUpdateKeeps ==
    ASSUME IInv, NEW h \in Handles, NEW r \in Handle, Update(h, r),
           r.curl = hs[h].curl, r.call = hs[h].call, Attended(r),
           r.sock = "Connected" /\ h \in slots =>
               \/ hs[h].sock = "Connected"
               \/ \A g \in slots \ {h} : HostOf[g] = HostOf[h] => hs[g].sock # "Connected"
    PROVE  IInv'
<1>1. r.call = "close" => ~r.curl
  BY DEF IInv, ClosingReleased
<1>2. h \in slots <=> r.curl \/ r.call = "close"
  BY DEF IInv, SlotsBacked
<1> QED BY <1>1, <1>2, UpdateKeeps DEF Update, IInv, TypeOK

----------------------------------------------------------------------------
\* The steps of a constructor.
LEMMA ConstructKeeps ==
    ASSUME IInv, NEW h \in Handles,
           Construct(h) \/ ConstructFails(h) \/ ConstructSucceeds(h)
    PROVE  IInv'
<1> USE DEF IInv
<1>1. hs[h] \in Handle /\ slots \subseteq Handles /\ stack \in Seq(Handles) /\ max \in Limits
  BY DEF TypeOK
<1>2. CASE Construct(h)
  <2> DEFINE r == [hs[h] EXCEPT !.call = "reserve",
                      !.todo = IF Cardinality(slots) >= max THEN UnderClosing ELSE {}]
  <2>1. r \in Handle /\ r.curl = hs[h].curl /\ r.call = "reserve" /\ r.sock = hs[h].sock
        /\ r.state = "Unborn"
    BY <1>1, <1>2 DEF Construct, Handle, UnderClosing
  <2>2. stack' \in Seq(Handles)
    BY <1>1, <1>2, StackType DEF Construct
  <2>3. h \in slots <=> r.curl \/ r.call = "close"
    BY <1>2, <2>1 DEF SlotsBacked, Construct
  <2>4. hs' = [hs EXCEPT ![h] = r] /\ slots' = slots /\ max' = max
    BY <1>2 DEF Construct
  <2> QED BY <1>1, <2>1, <2>2, <2>3, <2>4, UpdateKeeps DEF Attended
<1>3. CASE ConstructFails(h)
  <2> DEFINE r == [hs[h] EXCEPT !.state = "Connecting", !.timer = TRUE, !.call = "none"]
  <2>1. r \in Handle /\ r.curl = hs[h].curl /\ r.call = "none" /\ r.sock = hs[h].sock /\ r.timer
    BY <1>1 DEF Handle
  <2>2. stack' \in Seq(Handles)
    BY <1>1, <1>3, StackType DEF ConstructFails, Reserved, Running
  <2>3. h \in slots <=> r.curl \/ r.call = "close"
    BY <1>3, <2>1 DEF SlotsBacked, ConstructFails, Reserved
  <2>4. hs' = [hs EXCEPT ![h] = r] /\ slots' = slots /\ max' = max
    BY <1>3 DEF ConstructFails
  <2> QED BY <1>1, <2>1, <2>2, <2>3, <2>4, UpdateKeeps DEF Attended
<1>4. CASE ConstructSucceeds(h)
  <2> DEFINE r == [hs[h] EXCEPT !.state = "Connecting", !.sock = "Initialized",
                                !.curl = TRUE, !.timer = TRUE, !.call = "none"]
  <2>1. r \in Handle /\ r.curl /\ r.call = "none" /\ r.sock = "Initialized" /\ r.timer
    BY <1>1 DEF Handle
  <2>2. \A k \in Handles : hs'[k] = IF k = h THEN r ELSE hs[k]
    BY <1>4 DEF ConstructSucceeds, TypeOK
  <2>3. slots' = slots \cup {h}
    BY <1>4 DEF ConstructSucceeds
  <2>4. TypeOK'
    BY <1>1, <1>4, <2>1, StackType DEF ConstructSucceeds, Reserved, Running, TypeOK
  <2>5. ClosingReleased'
    BY <2>1, <2>2 DEF ClosingReleased
  <2>6. SlotsBacked'
    BY <2>1, <2>2, <2>3 DEF SlotsBacked
  <2> HIDE DEF r
  <2>7. OneHandshakePerHost'
    BY <1>1, <2>1, <2>2, <2>3 DEF OneHandshakePerHost
  <2>8. TimerArmed'
    BY <2>1, <2>2 DEF TimerArmed
  <2> QED BY <2>4, <2>5, <2>6, <2>7, <2>8
<1> QED BY <1>2, <1>3, <1>4

\* The reclaiming of a slot: two handles change, the one that reserves and the
\* one that is disconnected for it.
LEMMA ReclaimKeeps ==
    ASSUME IInv, NEW h \in Handles, NEW g \in Handles, Reclaim(h, g)
    PROVE  IInv'
<1> USE DEF IInv
<1> DEFINE r == [hs[h] EXCEPT !.todo = hs[h].todo \ {g}]
           k == [hs EXCEPT ![h] = r][g]
           d == Disconnected(k)
<1>1. hs \in [Handles -> Handle] /\ slots \subseteq Handles /\ stack \in Seq(Handles)
  BY DEF TypeOK
<1>2. /\ r \in Handle /\ r.curl = hs[h].curl /\ r.call = hs[h].call /\ r.sock = hs[h].sock
      /\ r.timer = hs[h].timer /\ r.state = hs[h].state /\ r.fin = hs[h].fin /\ r.buf = hs[h].buf
  BY <1>1 DEF Handle
<1>3. hs' = [[hs EXCEPT ![h] = r] EXCEPT ![g] = d]
  BY <1>1 DEF Reclaim
<1>4. /\ d \in Handle /\ ~d.curl /\ d.sock = hs[g].sock
      /\ d.call = IF hs[g].curl THEN "close" ELSE hs[g].call
  <2>1. k \in Handle /\ k.curl = hs[g].curl /\ k.call = hs[g].call /\ k.sock = hs[g].sock
    BY <1>1, <1>2
  <2> QED BY <2>1, DisconnectedFields
<1> HIDE DEF r, d
<1>5. \A j \in Handles : hs'[j] = IF j = g THEN d ELSE IF j = h THEN r ELSE hs[j]
  BY <1>1, <1>3
<1>6. TypeOK'
  <2>1. hs' \in [Handles -> Handle]
    BY <1>1, <1>2, <1>3, <1>4
  <2> QED BY <2>1, StackType DEF Reclaim, EnterClose, TypeOK
<1>7. slots' = slots
  BY DEF Reclaim
<1>8. ClosingReleased'
  BY <1>2, <1>4, <1>5 DEF ClosingReleased
<1>9. SlotsBacked'
  BY <1>2, <1>4, <1>5, <1>7 DEF SlotsBacked
<1>10. OneHandshakePerHost'
  <2>1. \A j \in Handles : hs'[j].sock = hs[j].sock
    BY <1>2, <1>4, <1>5
  <2> QED BY <1>1, <1>7, <2>1 DEF OneHandshakePerHost
<1>11. TimerArmed'
  BY <1>2, <1>4, <1>5 DEF TimerArmed
<1> QED BY <1>6, <1>8, <1>9, <1>10, <1>11

\* Giving back a slot, at the end of platformClose() or in the destructor.
LEMMA ReleaseKeeps ==
    ASSUME IInv, NEW h \in Handles, Release(h) \/ Delete(h)
    PROVE  IInv'
<1> USE DEF IInv
<1>1. hs \in [Handles -> Handle] /\ hs[h] \in Handle /\ slots \subseteq Handles
      /\ stack \in Seq(Handles)
  BY DEF TypeOK
<1>2. PICK r \in Handle :
        /\ hs' = [hs EXCEPT ![h] = r]
        /\ ~r.curl
        /\ r.sock = hs[h].sock
        /\ r.call = "none"
        /\ slots' = slots \ {h}
  <2>1. CASE Release(h)
    <3> DEFINE q == [hs[h] EXCEPT !.state = "Closed", !.call = "none"]
    <3>1. q \in Handle /\ q.curl = hs[h].curl /\ q.call = "none" /\ q.sock = hs[h].sock
      BY <1>1 DEF Handle
    <3>2. ~hs[h].curl
      BY <2>1 DEF Release, ClosingReleased
    <3>3. hs' = [hs EXCEPT ![h] = q] /\ slots' = slots \ {h}
      BY <2>1 DEF Release
    <3> HIDE DEF q
    <3> QED BY <3>1, <3>2, <3>3
  <2>2. CASE Delete(h)
    <3> DEFINE q == [hs[h] EXCEPT !.state = "Deleted", !.curl = FALSE,
                                  !.fd = FALSE, !.timer = FALSE]
    <3>1. q \in Handle /\ ~q.curl /\ q.call = hs[h].call /\ q.sock = hs[h].sock
      BY <1>1 DEF Handle
    <3>2. hs' = [hs EXCEPT ![h] = q] /\ hs[h].call = "none"
      BY <2>2 DEF Delete
    <3>3. h \in slots <=> hs[h].curl
      BY <3>2 DEF SlotsBacked
    <3>4. slots' = slots \ {h}
      BY <2>2, <3>3 DEF Delete
    <3> HIDE DEF q
    <3> QED BY <3>1, <3>2, <3>4
  <2> QED BY <2>1, <2>2
<1>3. \A j \in Handles : hs'[j] = IF j = h THEN r ELSE hs[j]
  BY <1>1, <1>2
<1>4. slots' \subseteq slots
  BY <1>2
<1>5. TypeOK'
  <2>1. hs' \in [Handles -> Handle]
    BY <1>1, <1>2
  <2> QED BY <1>1, <1>4, <2>1, StackType DEF Release, Delete, Running, TypeOK
<1>6. ClosingReleased'
  BY <1>2, <1>3 DEF ClosingReleased
<1>7. SlotsBacked'
  BY <1>2, <1>3 DEF SlotsBacked, ClosingReleased
<1>8. OneHandshakePerHost'
  <2>1. \A j \in Handles : hs'[j].sock = hs[j].sock
    BY <1>2, <1>3
  <2> QED BY <1>1, <1>3, <1>4, <2>1 DEF OneHandshakePerHost
<1>9. TimerArmed'
  BY <1>2, <1>3 DEF TimerArmed
<1> QED BY <1>5, <1>6, <1>7, <1>8, <1>9

----------------------------------------------------------------------------
\* nextProgress() leaves the handle attended.
LEMMA NextProgressFields ==
    ASSUME NEW r \in Handle
    PROVE  /\ NextProgress(r) \in Handle /\ Attended(NextProgress(r))
           /\ NextProgress(r).curl = r.curl /\ NextProgress(r).call = r.call
           /\ NextProgress(r).sock = r.sock
<1> DEFINE q == [r EXCEPT !.timer = TRUE, !.fin = FALSE]
<1>1. q \in Handle /\ q.timer /\ q.curl = r.curl /\ q.call = r.call /\ q.sock = r.sock
  BY DEF Handle
<1> HIDE DEF q
<1>2. CASE r.curl
  <2>1. NextProgress(r) = q BY <1>2 DEF NextProgress, q
  <2> QED BY <1>1, <2>1 DEF Attended
<1>3. CASE ~r.curl
  BY <1>3 DEF NextProgress, Attended
<1> QED BY <1>2, <1>3

\* So does platformSend(), if the handle was attended or is open and active.
LEMMA SentFields ==
    ASSUME NEW r \in Handle, NEW q \in Sent(r)
    PROVE  /\ q \in Handle /\ q.curl = r.curl /\ q.call = r.call /\ q.sock = r.sock
           /\ Attended(r) \/ (r.state = "Open" /\ r.sock = "Active") => Attended(q)
<1>1. CASE \E rest \in BOOLEAN : q = NextProgress([r EXCEPT !.buf = rest])
  <2>1. PICK rest \in BOOLEAN : q = NextProgress([r EXCEPT !.buf = rest])
    BY <1>1
  <2> DEFINE b == [r EXCEPT !.buf = rest]
  <2>2. b \in Handle /\ b.curl = r.curl /\ b.call = r.call /\ b.sock = r.sock
    BY DEF Handle
  <2> HIDE DEF b
  <2> QED BY <2>1, <2>2, NextProgressFields DEF b
<1>2. CASE q = [r EXCEPT !.buf = FALSE, !.fin = TRUE]
  <2>1. /\ q \in Handle /\ q.curl = r.curl /\ q.call = r.call /\ q.sock = r.sock
        /\ q.timer = r.timer /\ q.state = r.state /\ q.fin /\ ~q.buf
    BY <1>2 DEF Handle
  <2> QED BY <2>1 DEF Attended
<1> QED BY <1>1, <1>2 DEF Sent

\* The ways through progressTimerFired().
LEMMA ProgressKeeps ==
    ASSUME IInv, NEW h \in Handles,
           \/ ProgressNone(h) \/ ProgressWait(h) \/ ProgressFail(h) \/ ProgressOpen(h)
           \/ ProgressIdle(h) \/ ProgressWrite(h) \/ ProgressRead(h) \/ ProgressNothing(h)
    PROVE  IInv'
<1>1. hs[h] \in Handle
  BY DEF IInv, TypeOK
<1> DEFINE q == Stopped(h)
<1>2. /\ q \in Handle /\ q.curl = hs[h].curl /\ q.call = hs[h].call /\ q.sock = hs[h].sock
      /\ q.state = hs[h].state
  BY <1>1 DEF Stopped, Handle
<1>5. CanStart(h) => \A g \in slots \ {h} : HostOf[g] = HostOf[h] => hs[g].sock # "Connected"
  BY DEF CanStart
<1> DEFINE active == [q EXCEPT !.sock = "Active"]
           opened == [q EXCEPT !.state = "Open", !.sock = "Connected"]
<1>6. active \in Handle /\ active.curl = hs[h].curl /\ active.call = hs[h].call
      /\ active.sock = "Active" /\ active.state = hs[h].state
  BY <1>2 DEF Handle
<1>7. opened \in Handle /\ opened.curl = hs[h].curl /\ opened.call = hs[h].call
  BY <1>2 DEF Handle
<1>8. CASE ProgressNone(h)
  <2> DEFINE r == [q EXCEPT !.state = "Closed"]
  <2>1. r \in Handle /\ r.curl = q.curl /\ r.call = q.call /\ r.sock = q.sock /\ r.state = "Closed"
    BY <1>2 DEF Handle
  <2>2. Update(h, r)
    BY <1>8 DEF ProgressNone
  <2> HIDE DEF r
  <2> QED BY <1>2, <2>1, <2>2, QuietUpdateKeeps DEF Attended
<1>9. CASE ProgressWait(h)
  <2>1. PICK fd \in BOOLEAN : Update(h, NextProgress(q)) \/ Update(h, NextProgress([q EXCEPT !.fd = fd]))
    BY <1>1, <1>9 DEF ProgressWait, Handle
  <2> DEFINE r == [q EXCEPT !.fd = fd]
  <2>2. r \in Handle /\ r.curl = q.curl /\ r.call = q.call /\ r.sock = q.sock
    BY <1>2 DEF Handle
  <2> HIDE DEF r
  <2>3. CASE Update(h, NextProgress(q))
    <3> HIDE DEF q
    <3> QED BY <1>2, NextProgressFields, <2>3, QuietUpdateKeeps
  <2>4. CASE Update(h, NextProgress(r))
    <3> HIDE DEF q
    <3> QED BY <1>2, NextProgressFields, <2>2, <2>4, QuietUpdateKeeps
  <2> QED BY <2>1, <2>3, <2>4 DEF r
<1>10. CASE ProgressFail(h)
  <2> DEFINE r == [q EXCEPT !.state = "Closed", !.told = TRUE]
  <2>1. r \in Handle /\ r.curl = q.curl /\ r.call = q.call /\ r.sock = q.sock /\ r.state = "Closed"
    BY <1>2 DEF Handle
  <2>2. Update(h, r)
    BY <1>10 DEF ProgressFail
  <2> HIDE DEF r
  <2> QED BY <1>2, <2>1, <2>2, QuietUpdateKeeps DEF Attended
<1>11. CASE ProgressOpen(h)
  <2>1. CanStart(h) /\ \/ \E r \in Sent(opened) : Update(h, NextProgress(r))
                       \/ Disconnect(h, opened)
    BY <1>11 DEF ProgressOpen
  <2> HIDE DEF opened
  <2>2. CASE Disconnect(h, opened)
    BY <1>5, <1>7, <2>1, <2>2, DisconnectKeeps
  <2>3. CASE \E r \in Sent(opened) : Update(h, NextProgress(r))
    <3>1. PICK r \in Sent(opened) : Update(h, NextProgress(r))
      BY <2>3
    <3> QED BY NextProgressFields, SentFields, <1>5, <1>7, <2>1, <3>1, QuietUpdateKeeps
  <2> QED BY <2>1, <2>2, <2>3
<1>12. CASE ProgressIdle(h)
  <2>1. Update(h, NextProgress(q))
    BY <1>12 DEF ProgressIdle
  <2> HIDE DEF q
  <2> QED BY <1>2, NextProgressFields, <2>1, QuietUpdateKeeps
<1>13. CASE ProgressWrite(h) \/ ProgressRead(h)
  <2>1. \/ \E r \in Sent(active) : Update(h, r)
        \/ Update(h, NextProgress(active))
        \/ Disconnect(h, active)
    BY <1>13 DEF ProgressWrite, ProgressRead
  <2>5. active.state = "Open"
    BY <1>6, <1>13 DEF ProgressWrite, ProgressRead, Open
  <2> HIDE DEF active
  <2>2. CASE Disconnect(h, active)
    BY <1>6, <2>2, DisconnectKeeps
  <2>3. CASE Update(h, NextProgress(active))
    BY NextProgressFields, <1>6, <2>3, QuietUpdateKeeps
  <2>4. CASE \E r \in Sent(active) : Update(h, r)
    <3>1. PICK r \in Sent(active) : Update(h, r)
      BY <2>4
    <3> QED BY SentFields, <1>6, <2>5, <3>1, QuietUpdateKeeps
  <2> QED BY <2>1, <2>2, <2>3, <2>4
<1>14. CASE ProgressNothing(h)
  <2>1. Update(h, q) /\ q.state \in {"Closing", "Closed"}
    BY <1>2, <1>14 DEF ProgressNothing
  <2> HIDE DEF q
  <2> QED BY <1>2, <2>1, QuietUpdateKeeps DEF Attended
<1> QED BY <1>8, <1>9, <1>10, <1>11, <1>12, <1>13, <1>14

\* The calls of the channel.
LEMMA ChannelKeeps ==
    ASSUME IInv, NEW h \in Handles,
           Close(h) \/ ChannelDisconnect(h) \/ \E close \in BOOLEAN : Send(h, close)
    PROVE  IInv'
<1>1. hs[h] \in Handle /\ Attended(hs[h])
  BY DEF IInv, TypeOK, TimerArmed, Attended
<1>2. CASE Disconnect(h, hs[h])
  BY <1>1, <1>2, DisconnectKeeps
<1>3. CASE Close(h)
  <2> DEFINE r == [hs[h] EXCEPT !.state = "Closing"]
  <2>1. r \in Handle /\ r.curl = hs[h].curl /\ r.call = hs[h].call /\ r.sock = hs[h].sock
        /\ r.state = "Closing"
    BY <1>1 DEF Handle
  <2>2. Update(h, r) \/ Disconnect(h, hs[h])
    BY <1>3 DEF Close
  <2> HIDE DEF r
  <2> QED BY <1>2, <2>1, <2>2, QuietUpdateKeeps DEF Attended
<1>4. CASE ChannelDisconnect(h)
  BY <1>2, <1>4 DEF ChannelDisconnect
<1>5. CASE \E close \in BOOLEAN : Send(h, close)
  <2>1. PICK close \in BOOLEAN : Send(h, close)
    BY <1>5
  <2> DEFINE r == [hs[h] EXCEPT !.closing = hs[h].closing \/ close]
  <2>2. r \in Handle /\ r.curl = hs[h].curl /\ r.call = hs[h].call /\ r.sock = hs[h].sock
        /\ r.timer = hs[h].timer /\ r.state = hs[h].state /\ r.fin = hs[h].fin
        /\ r.buf = hs[h].buf
    BY <1>1 DEF Handle
  <2>3. \/ Update(h, r)
        \/ \E q \in Sent(r) : Update(h, q)
        \/ Disconnect(h, hs[h])
    BY <2>1 DEF Send
  <2> HIDE DEF r
  <2>4. CASE Update(h, r)
    BY <1>1, <2>2, <2>4, QuietUpdateKeeps DEF Attended
  <2>5. CASE \E q \in Sent(r) : Update(h, q)
    <3>1. PICK q \in Sent(r) : Update(h, q)
      BY <2>5
    <3>2. Attended(r)
      BY <1>1, <2>2 DEF Attended
    <3> QED BY <2>2, <3>1, <3>2, SentFields, QuietUpdateKeeps
  <2> QED BY <1>2, <2>3, <2>4, <2>5
<1> QED BY <1>3, <1>4, <1>5

\* Every step of the transport keeps the invariant.
LEMMA Inductive == IInv /\ [Next]_vars => IInv'
<1> SUFFICES ASSUME IInv, [Next]_vars PROVE IInv'
  OBVIOUS
<1>1. CASE UNCHANGED vars
  BY <1>1 DEF vars, IInv, TypeOK, ClosingReleased, SlotsBacked, OneHandshakePerHost, TimerArmed
<1>2. ASSUME NEW n \in Limits, SetMax(n) PROVE IInv'
  BY <1>2 DEF SetMax, IInv, TypeOK, ClosingReleased, SlotsBacked, OneHandshakePerHost, TimerArmed
<1> QED BY <1>1, <1>2, ConstructKeeps, ReclaimKeeps, ReleaseKeeps, ProgressKeeps, ChannelKeeps
     DEF Next

\* No handle exists at first, and no slot is taken.
LEMMA Initially == Init => IInv
<1> SUFFICES ASSUME Init PROVE IInv
  OBVIOUS
<1>1. Unborn \in Handle
  BY DEF Unborn, Handle
<1>2. TypeOK
  BY <1>1 DEF Init, TypeOK
<1> QED BY <1>2 DEF Init, IInv, Unborn, ClosingReleased, SlotsBacked, OneHandshakePerHost, TimerArmed

\* The inductive invariant holds in every reachable state.
THEOREM Invariance == Spec => []IInv
BY Initially, Inductive, PTL DEF Spec

\* Slots are leaked by no sequence of connections, failures, re-entrant
\* constructions and disconnections.
THEOREM SlotsAreBacked == Spec => []SlotsBacked
<1>1. IInv => SlotsBacked
  BY DEF IInv
<1> QED BY Invariance, <1>1, PTL

\* Opening handshakes to one host and port are serialised, for any number of
\* handles.
THEOREM HandshakesSerialised == Spec => []OneHandshakePerHost
<1>1. IInv => OneHandshakePerHost
  BY DEF IInv
<1> QED BY Invariance, <1>1, PTL

\* A connecting or open handle is without its progress timer only after a write
\* that met the peer's FIN, with nothing to send and past its handshake.
THEOREM NoLostWakeup == Spec => []TimerArmed
<1>1. IInv => TimerArmed
  BY DEF IInv
<1> QED BY Invariance, <1>1, PTL

----------------------------------------------------------------------------
\* What told says of a handle that had a slot.
Heard(r) == /\ r.sock # "None" => r.curl \/ r.told
            /\ r.call = "close" => r.told
            /\ r.state = "Closed" /\ r.sock # "None" => r.told

HeardInv == \A h \in Handles : Heard(hs[h])

\* disconnect() tells the channel or finds it told.
LEMMA DisconnectedHeard ==
    ASSUME NEW r \in Handle, Heard(r)
    PROVE  Heard(Disconnected(r))
BY DEF Heard, Disconnected, Handle

\* A step that replaces the fields of one handle.
LEMMA HeardUpdate ==
    ASSUME TypeOK, HeardInv, NEW h \in Handles, NEW r, hs' = [hs EXCEPT ![h] = r], Heard(r)
    PROVE  HeardInv'
BY DEF HeardInv, TypeOK

\* nextProgress() leaves it alone.
LEMMA HeardProgress ==
    ASSUME NEW r \in Handle, Heard(r)
    PROVE  Heard(NextProgress(r))
BY DEF Heard, NextProgress, Handle

\* So does platformSend().
LEMMA HeardSent ==
    ASSUME NEW r \in Handle, Heard(r), NEW q \in Sent(r)
    PROVE  q \in Handle /\ Heard(q)
<1>1. q \in Handle
  BY SentFields
<1>2. CASE \E rest \in BOOLEAN : q = NextProgress([r EXCEPT !.buf = rest])
  <2>1. PICK rest \in BOOLEAN : q = NextProgress([r EXCEPT !.buf = rest])
    BY <1>2
  <2>2. [r EXCEPT !.buf = rest] \in Handle /\ Heard([r EXCEPT !.buf = rest])
    BY DEF Heard, Handle
  <2> QED BY <1>1, <2>1, <2>2, HeardProgress
<1>3. CASE q = [r EXCEPT !.buf = FALSE, !.fin = TRUE]
  BY <1>1, <1>3 DEF Heard, Handle
<1> QED BY <1>2, <1>3 DEF Sent

\* Every step keeps it.
LEMMA HeardStep == IInv /\ HeardInv /\ [Next]_vars => HeardInv'
<1> SUFFICES ASSUME IInv, HeardInv, [Next]_vars PROVE HeardInv' OBVIOUS
<1>t. TypeOK BY DEF IInv
<1>1. CASE UNCHANGED vars BY <1>1 DEF vars, HeardInv
<1>2. ASSUME NEW n \in Limits, SetMax(n) PROVE HeardInv' BY <1>2 DEF SetMax, HeardInv
<1>3. ASSUME NEW h \in Handles, NEW g \in Handles, Reclaim(h, g) PROVE HeardInv'
  <2> DEFINE w == [hs EXCEPT ![h] = [hs[h] EXCEPT !.todo = hs[h].todo \ {g}]]
  <2>1. hs[h] \in Handle /\ Heard(hs[h]) /\ Heard(hs[g]) BY <1>t DEF TypeOK, HeardInv
  <2>2. [hs[h] EXCEPT !.todo = hs[h].todo \ {g}] \in Handle /\ Heard([hs[h] EXCEPT !.todo = hs[h].todo \ {g}])
    BY <2>1 DEF Handle, Heard
  <2>3. w \in [Handles -> Handle] /\ \A k \in Handles : Heard(w[k])
    BY <1>t, <2>2 DEF TypeOK, HeardInv
  <2>4. hs' = [w EXCEPT ![g] = Disconnected(w[g])] BY <1>3 DEF Reclaim
  <2> HIDE DEF w
  <2>5. Heard(Disconnected(w[g])) BY <2>3, DisconnectedHeard
  <2> QED BY <2>3, <2>4, <2>5 DEF HeardInv
<1>4. ASSUME NEW h \in Handles,
             \/ Construct(h) \/ ConstructFails(h) \/ ConstructSucceeds(h) \/ Release(h) \/ Delete(h)
      PROVE  HeardInv'
  <2>1. hs[h] \in Handle /\ Heard(hs[h]) BY <1>t DEF TypeOK, HeardInv
  <2> DEFINE c == [hs[h] EXCEPT !.call = "reserve",
                      !.todo = IF Cardinality(slots) >= max THEN UnderClosing ELSE {}]
             f == [hs[h] EXCEPT !.state = "Connecting", !.timer = TRUE, !.call = "none"]
             s == [hs[h] EXCEPT !.state = "Connecting", !.sock = "Initialized",
                                !.curl = TRUE, !.timer = TRUE, !.call = "none"]
             l == [hs[h] EXCEPT !.state = "Closed", !.call = "none"]
             d == [hs[h] EXCEPT !.state = "Deleted", !.curl = FALSE, !.fd = FALSE, !.timer = FALSE]
  <2>2. Heard(c) /\ Heard(f) /\ Heard(s) BY <2>1 DEF Heard, Handle
  <2>3. hs[h].call = "close" => Heard(l) BY <2>1 DEF Heard, Handle
  <2>4. hs[h].told => Heard(d) BY <2>1 DEF Heard, Handle
  <2>5. \/ hs' = [hs EXCEPT ![h] = c] \/ hs' = [hs EXCEPT ![h] = f] \/ hs' = [hs EXCEPT ![h] = s]
        \/ hs[h].call = "close" /\ hs' = [hs EXCEPT ![h] = l]
        \/ hs[h].told /\ hs' = [hs EXCEPT ![h] = d]
    BY <1>4 DEF Construct, ConstructFails, ConstructSucceeds, Release, Delete
  <2> HIDE DEF c, f, s, l, d
  <2> QED BY <1>t, <2>2, <2>3, <2>4, <2>5, HeardUpdate
<1>5. ASSUME NEW h \in Handles,
             \/ ProgressNone(h) \/ ProgressWait(h) \/ ProgressFail(h) \/ ProgressOpen(h)
             \/ ProgressIdle(h) \/ ProgressWrite(h) \/ ProgressRead(h) \/ ProgressNothing(h)
      PROVE  HeardInv'
  <2>1. hs[h] \in Handle /\ Heard(hs[h]) BY <1>t DEF TypeOK, HeardInv
  <2>2. Stopped(h) \in Handle /\ Heard(Stopped(h)) BY <2>1 DEF Stopped, Handle, Heard
  <2> DEFINE o == [Stopped(h) EXCEPT !.state = "Open", !.sock = "Connected"]
             a == [Stopped(h) EXCEPT !.sock = "Active"]
             n == [Stopped(h) EXCEPT !.state = "Closed"]
             t == [Stopped(h) EXCEPT !.state = "Closed", !.told = TRUE]
             w(fd) == [Stopped(h) EXCEPT !.fd = fd]
  <2>3. /\ hs[h].curl => o \in Handle /\ Heard(o)
        /\ hs[h].curl /\ hs[h].state = "Open" => a \in Handle /\ Heard(a)
    <3>1. o \in Handle /\ a \in Handle BY <2>2 DEF Handle
    <3>2. /\ o.curl = hs[h].curl /\ o.call = hs[h].call /\ o.told = hs[h].told /\ o.state = "Open"
          /\ a.curl = hs[h].curl /\ a.call = hs[h].call /\ a.told = hs[h].told
          /\ a.state = hs[h].state
      BY <2>1 DEF Stopped, Handle
    <3> HIDE DEF o, a
    <3> QED BY <2>1, <3>1, <3>2 DEF Heard
  <2>4. (hs[h].sock = "None" => Heard(n)) /\ Heard(t) BY <2>1, <2>2 DEF Stopped, Handle, Heard
  <2>5. \A fd \in BOOLEAN : w(fd) \in Handle /\ Heard(w(fd)) BY <2>2 DEF Handle, Heard
  <2>6. \/ hs[h].sock = "None" /\ hs' = [hs EXCEPT ![h] = n]
        \/ hs' = [hs EXCEPT ![h] = t]
        \/ hs' = [hs EXCEPT ![h] = Stopped(h)]
        \/ hs' = [hs EXCEPT ![h] = NextProgress(Stopped(h))]
        \/ \E fd \in BOOLEAN : hs' = [hs EXCEPT ![h] = NextProgress(w(fd))]
        \/ /\ hs[h].curl
           /\ \/ \E q \in Sent(o) : hs' = [hs EXCEPT ![h] = NextProgress(q)]
              \/ hs' = [hs EXCEPT ![h] = Disconnected(o)]
        \/ /\ hs[h].curl /\ hs[h].state = "Open"
           /\ \/ \E q \in Sent(a) : hs' = [hs EXCEPT ![h] = q]
              \/ hs' = [hs EXCEPT ![h] = NextProgress(a)]
              \/ hs' = [hs EXCEPT ![h] = Disconnected(a)]
    <3>1. hs[h].fd \in BOOLEAN BY <2>1 DEF Handle
    <3> QED BY <1>5, <3>1 DEF ProgressNone, ProgressWait, ProgressFail, ProgressOpen, ProgressIdle,
              ProgressWrite, ProgressRead, ProgressNothing, Update, Disconnect, Connecting, Open
  <2> HIDE DEF o, a, n, t, w
  <2> QED BY <1>t, <2>2, <2>3, <2>4, <2>5, <2>6, HeardUpdate, HeardProgress, HeardSent, DisconnectedHeard
<1>6. ASSUME NEW h \in Handles,
             (\E close \in BOOLEAN : Send(h, close)) \/ Close(h) \/ ChannelDisconnect(h)
      PROVE  HeardInv'
  <2>1. hs[h] \in Handle /\ Heard(hs[h]) BY <1>t DEF TypeOK, HeardInv
  <2> DEFINE r(close) == [hs[h] EXCEPT !.closing = hs[h].closing \/ close]
             k == [hs[h] EXCEPT !.state = "Closing"]
  <2>2. \A close \in BOOLEAN : r(close) \in Handle /\ Heard(r(close)) BY <2>1 DEF Handle, Heard
  <2>3. Heard(k) BY <2>1 DEF Handle, Heard
  <2>4. \/ \E close \in BOOLEAN : \/ hs' = [hs EXCEPT ![h] = r(close)]
                                  \/ \E q \in Sent(r(close)) : hs' = [hs EXCEPT ![h] = q]
        \/ hs' = [hs EXCEPT ![h] = k]
        \/ hs' = [hs EXCEPT ![h] = Disconnected(hs[h])]
    <3>1. CASE Close(h) \/ ChannelDisconnect(h) BY <3>1 DEF Close, ChannelDisconnect, Update, Disconnect
    <3>2. ASSUME NEW close \in BOOLEAN, Send(h, close)
          PROVE  \/ hs' = [hs EXCEPT ![h] = r(close)]
                 \/ \E q \in Sent(r(close)) : hs' = [hs EXCEPT ![h] = q]
                 \/ hs' = [hs EXCEPT ![h] = Disconnected(hs[h])]
      <4>1. [hs[h] EXCEPT !.closing = @ \/ close] = r(close) OBVIOUS
      <4> HIDE DEF r
      <4> QED BY <3>2, <4>1 DEF Send, Update, Disconnect
    <3> HIDE DEF r, k
    <3> QED BY <1>6, <3>1, <3>2
  <2> HIDE DEF r, k
  <2> QED BY <1>t, <2>1, <2>2, <2>3, <2>4, HeardUpdate, HeardSent, DisconnectedHeard
<1> QED BY <1>1, <1>2, <1>3, <1>4, <1>5, <1>6 DEF Next

\* A closed handle that ever had a slot has told its channel.
THEOREM ClosersTell == Spec => []ClosedIsTold
<1>1. Init => HeardInv BY DEF Init, HeardInv, Heard, Unborn
<1>2. HeardInv => ClosedIsTold BY DEF HeardInv, Heard, ClosedIsTold
<1> QED BY <1>1, <1>2, HeardStep, Invariance, PTL DEF Spec

\* Every variable keeps its type.
THEOREM TypeCorrect == Spec => []TypeOK
<1>1. IInv => TypeOK BY DEF IInv
<1> QED BY <1>1, Invariance, PTL
=============================================================================
