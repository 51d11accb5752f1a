# TLA+ models of the browser's own concurrency and bookkeeping

The repository is the WKC port of WebKit for a handheld console. This directory models
what the port itself decides: the network layer in
`src/WKC/WebCore/platform/network/WKC` (jobs, WebSockets, credentials), the remote
inspector, the threads and timers the port puts under WebKit, its changes to script
timers, and the local storage that has to survive the console being switched off.
Almost everything runs on the main thread; what makes it hard is re-entrancy (a client
that is told something may cancel, add or close before the call returns), one-shot
timers that must be restarted by hand on every path, a few real threads that share
queues and tables with it, and a process that may end at any moment.

The modules are checked with TLC on small instances, and all but one of them proved with TLAPS
for every value of their constants. `PROJECT.json` lists the runs, the lines of code that
each definition models, the mutants, the hazards, the finding and the theorems.

## 1. Inventory

| Component | State | Operations | Talks to | What is hard | What makes it correct |
|---|---|---|---|---|---|
| WebSocket connections (`SocketStreamHandleWKC.cpp`, slots in `ResourceHandleManagerWKC.cpp:4240-4306`) | per handle: `m_state`, `m_socketState`, cURL handles, socket, timer, buffer; the list of slots and its limit | construct, progress timer, send, close, disconnect, destructor, change of the limit | its `WebSocketChannel` by callbacks, cURL, the other handles through the list | a close callback runs scripts that open sockets; reservations nest; handshakes to one host are serialised by polling | slots and connections correspond; one handshake per host; no lost wake-up; closes are told; waiting ends |
| Resource jobs (`ResourceHandleManagerWKC.cpp`, `ResourceHandleInternalWKC.h`, `ResourceHandleWKC.cpp`) | per job: references, client, easy handle, cancelled, permission, redirect and retry flags; two lists, the multi handle, timer, settings | add, cancel, cancel by frame, permit, start, receive, redirect, messages, sweep, clear cookies, set proxy | the `ResourceLoader` as client, the embedder, cURL | clients may call back at a dozen places; redirects; retries; the proxy changes in between | lists and cURL agree; references; no lost wake-up; cancelled is not sent; jobs end |
| Authentication jar (`AuthenticationJarWKC.cpp`, challenges in `ResourceHandleManagerWKC.cpp`) | entries of servers and proxies; per job what it sent and who entered it | lookup, update, widening, deletion; start, 401, 407, redirect, success, dialog | jobs, the user | jobs share entries that others widen, confirm and delete | no entry stored twice; credentials reach another host only with a redirection; no endless retries |
| Inspector server (`InspectorServer/`, `SocketStreamHandleServerWKC.cpp`, `InspectorServerClientWKC.cpp`) | page registry, page connections, connections with socket handle and timer, views | start, stop, accept, register, upgrade, frames, send, close | remote frontends, views | callbacks from inside a read loop change the registry and close the connection being read | both maps agree with connections and views; no lost timer |
| Main-thread calls (`MainThread.cpp`, `MainThreadWKC.cpp`) | queue, pause flag, scheduled timer, conditions of waiting callers | call, call and wait, cancel, pause, dispatch | all threads | scheduling after the unlock, nested dispatches, a condition on another thread's stack | no lost wake-up; order; a waiting caller is woken, once, after its function |
| Thread table (`ThreadingWKC.cpp`) | `gThreads`, a vector without a lock | create, look up, join, detach | all threads | reads and writes of the vector interleave | `isMainThread()` is right; a running thread has its entry |
| Timers (`ThreadTimers.cpp`, `Timer.cpp`, `SharedTimerWKC.cpp`) | heap, times, insertion order, one platform timer, re-entrancy flag | start, stop, change, fire, nested loops | everything | keys change under the loop; nested loops; a wrapping counter; a coarser clock | the heap is valid; the first timer is scheduled; order; timers fire |
| Script timers (`SuspendableTimer.cpp`, `DOMTimer.cpp`, `PageGroupLoadDeferrer.cpp`, `WKCWebView::notifyChromeVisible()`) | per timer two reasons for being suspended; documents, windows, dialogs, pauses | install, fire, suspend, resume, hide, show, navigate | dialogs, debugger, page cache, embedder | the reasons come and go in any order | no timer lost or started twice; quiet beneath dialogs; held only while hidden |
| Local storage (`WebCore/storage/`) | the map, changed and pending items, flags under a lock, the thread's queue and task, the file | set, remove, clear, sync, import, delete, close; crash, restart | scripts, the storage and tracker threads, SQLite | a change passes three maps and three flags; two transactions; closing during a sync | nothing is lost; a crash leaves items that were, and after full syncs a content that was; closing saves all and ends |
| Synchronous jobs (`dispatchSynchronousJob`) | a cURL handle of its own | one blocking call | jar, cookies | a nested loop while other jobs stand still | ends; leaves the lists alone |
| Proxy filter | list of patterns | set, match | startJob | address masks and suffixes | agrees with a reference matcher |
| Cookies, SSL and certificates, form data, DNS prefetch | cURL's share handle, OpenSSL's stores, a read position | get, set, answer, read | jobs | (clearing and retries: in resource jobs) | - |
| HTTP cache | table of entries and files | read, write, remove | jobs | compiled out in this build | - |
| Web view, frames, preferences, client adapters, helpers, downloads, feeds | wrappers and buffers | forward calls | embedder, WebCore | - | - |
| Graphics, media, platform services, test shell | pixels, files, formats | - | platform | - | - |
| Vendored WebKit, JavaScriptCore, libraries | - | - | - | upstream code | - |

## 2. Plan

Done, each with its run: `WebSocketConnections`, `ResourceJobs`, `AuthenticationJar`,
`InspectorServer`, `MainThreadCalls` with `CallOrder`, `ThreadTable`, `ThreadTimers`,
`DOMTimers`, `LocalStorage`. Proved: every safety property that a run checks
(section 5); liveness is left to TLC.

Left, in this order:

1. An abstract specification of a load (added, in progress, over; its client told at
   most once) that `ResourceJobs` implements; the synchronous job beside it.
2. The proxy filter as operators against a reference matcher.

## 3. The modules

| Module | Contents |
|---|---|
| `WebSocketConnections`, `MC...`, `...Proofs` | handles, slots, channels as clients |
| `ResourceJobs`, `MC...`, `...Proofs` | jobs, lists, multi handle, timer, proxy change |
| `AuthenticationJar`, `MC...`, `...Proofs` | the jar and the challenges of the jobs that use it |
| `InspectorServer`, `MC...`, `...Proofs` | server, registry, connections, views |
| `MainThreadCalls`, `MC...`, `...Proofs` | the queue of functions for the main thread |
| `CallOrder` | what calls on the main thread promise; `MainThreadCalls` implements it |
| `ThreadTable`, `MC...`, `...Proofs` | the table of threads, access by access |
| `ThreadTimers`, `MC...` | all timers of the main thread over one platform timer |
| `DOMTimers`, `MC...` | suspension of script timers; its names differ from those of `ThreadTimers` so that one module can extend both |
| `TimersProofs` | the proofs about `ThreadTimers` and `DOMTimers` |
| `LocalStorage`, `MC...`, `...Proofs` | one origin's persistent storage |

How they fit together: `ThreadTimers` shows that a started timer fires, which the others
assume as fairness of their timers; `MainThreadCalls` assumes it of the platform's timer
directly, as its code does. `ResourceJobs` treats the jar's answer as a choice, and
`AuthenticationJar` models the jar with the jobs reduced to what they send.
`WebSocketConnections` and `InspectorServer` share the base class of their handles
(`SocketStreamHandleBase`), each with its own platform half.

### WebSocketConnections

`hs[h]` holds the fields of a `SocketStreamHandle`; `slots` is
`m_socketStreamHandleList`, as a set: the code only searches it, measures it and walks
over all of it. `max` is `m_maxWebSocketConnections`. The code runs on one thread, so
calls in progress form `stack`: a constructor in `reserveWebSocketConnection()`, or a
handle in `platformClose()` whose channel is being told. Nothing but the innermost call
moves, except that in a close callback a script (`ScriptRuns`) may construct another
handle, send on one, close it or disconnect it, and that handles whose channel was told may
be deleted while calls on others are in progress. `fin` records that the last write met the
peer's FIN: `platformSend()` then reports everything as sent and returns before it restarts
the timer.

| Action | Code |
|---|---|
| `Construct`, `Reclaim`, `ConstructFails`, `ConstructSucceeds` | `construct()` with `reserveWebSocketConnection()`: collect the closing handles if the list is full, disconnect them one by one, measure again |
| `ProgressNone`, `-Wait`, `-Fail`, `-Open`, `-Idle`, `-Write`, `-Read`, `-Nothing` | the ways through `progressTimerFired()` |
| `Send`, `Close`, `ChannelDisconnect` | `SocketStreamHandleBase::send()`, `close()`, `disconnect()` as the channel calls them |
| `Release` | the end of `platformClose()` after the callback |
| `Delete` | the destructor, when the channel drops its reference, from the main loop or inside another handle's close callback |
| `SetMax` | `setMaxWebSocketConnections()`; `Limits` are values after its own arithmetic |

The channel is external: it sends its handshake in `didOpenSocketStream()`, disconnects
on errors, sets its `m_closing` with the Close frame and drops its reference after it was
told. Data is abstracted to whether `m_buffer` holds any. `underClosing` of a reservation is
`todo`; a handle in it that was deleted meanwhile is still disconnected, which is undefined
in the code and has no effect in the model (section 7).

### ResourceJobs

`jobs[j]` holds the fields of a `ResourceHandle` and its `ResourceHandleInternal`;
`scheduled` and `running` are the two lists, in order; `multi` the jobs whose easy handle
is in the multi handle and `done` those with an unread message. `pc` is the phase of
`downloadTimerCallback()` or `setProxyInfo()`; `call` is the client call in progress and
where it was made. While a call is `entered`, every operation a client or the embedder
has may happen, any number of times; then the code after the call goes on as a `...Returns`
action, with whatever state it finds. A call that the code skips because the job has no
client has `entered = FALSE`.

| Phase | Actions | Code |
|---|---|---|
| clients | `Add`, `Cancel`, `CancelByFrame`, `PermitRequest`, `ReceivedCredential`, `ClearCookies`, `SetMaxHTTPConnections` | the functions of those names; `Cancel` includes the loader's dropping of client and reference, `ReceivedCredential` is `didAuthChallenge()`; `cancelAuthChallenge()` leaves the flag as it is before an answer |
| start (twice) | `TimerFires`, `Start...`, `StartsEnd` | `startScheduledJobs()`, `shiftScheduledJob()`, `startJob()`, `initializeHandle()` |
| perform | `Receive`, `ReceiveRedirect`, `RedirectReturns`, `Complete`, `PerformEnds` | `curl_multi_perform()` with `headerCallback()`, `writeCallback()`, `didReceiveRedirect()` |
| messages | `Message...`, `...Returns`, `MessagesEnd` | `_downloadTimerCallback()`, `removeFromCurl()`, `setAuthChallenge()`, `doRedirect()` |
| sweep, re-arm | `Sweep`, `SweepEnds`, `TimerRearms` | `cancelScheduledJobs()`, end of `downloadTimerCallback()` |
| abort | `SetProxyInfo`, `Abort...`, `RenewMulti` | `setProxyInfo()`, `removeAllScheduledJobs()`, `removeAllRunningJobs()` |

Choices that stand for code or data outside the model: the embedder's answer to the
permission question, whether the jar knows a credential, whether the embedder wants to go
on after a failed SSL handshake, cURL's result, which transfer ends first, whether
allocations fail, whether the proxy is set or unset. A retry takes the easy handle out of
the multi handle and puts it back within one step (`AddAgain`), which may fail without the
code noticing: the job is then `stray`, in the running list and not in cURL. The share
handle refuses to give up the cookies while an easy handle is attached to it (`ShareInUse`;
external: cURL): that of a job in a redirect, of one being told of its failure, or of a
WebSocket. WebSockets come and go as `WebSocketShares`, if the constant `WebSockets` says
so, and `shared` is whether one is attached.
`cancelByFrame()` is one step per list entry, since it calls nobody in between.
`setProxyInfo()` is called from the main loop only, as the preferences do.
After a read beyond the list (section 7) the state is `"wild"`: it stutters and
nothing is claimed about it; the invariants hold in it as they held before.


### AuthenticationJar

`web` and `proxies` are the two lists of the jar, in order, since lookups take the first
of equally good entries; `job[j]` holds the members of `ResourceHandleInternal` about
authentication and, as `web` and `pweb`, what is set on its cURL handle and so carried by
all its requests until it is set again. A path is the sequence of its components, so that
"is below" is `IsPrefix`. `origins` is history: for each host, the hosts that redirections
to it came from, in turn. Redirections are those that the manager follows itself
(`m_redirectInWKC`).

| Action or operator | Code |
|---|---|
| `Found`, `Returned`, `AfterGet` | `getWebUserPassword()`: the entry found (exact, then longest full path, then longest base path), what is returned and what the lookup writes into the entry |
| `Set`, `Doomed`, `SetProxy` | `setWebUserPassword()`, `deleteWebUserPassword()`, `setProxyUserPassword()` |
| `SetProxyInfo` | `ResourceHandleManager::setProxyInfo()` as far as credentials go: all jobs end |
| `Start`, `StartAgain` with `InitializeHandle` | the first start of a job and the one after a redirection, both through `initializeHandle()`: the job's own user (of the URL, or entered before), or the jar's, or what the handle has; and the proxy's |
| `Succeeds`, `Redirects`, `Fails`, with `Confirmed` | the header and message callbacks for final answers, redirections and failures; below 300, and for redirections below 304, the jar is told that the credentials were right. `Redirects` keeps the members of the job, as `doRedirect()` does |
| `Refused`, `ProxyRefused` with `Repeats` | `didReceiveAuthenticationChallenge()`, the dialog and `setAuthChallenge()` for 401 and 407 |

The dialog is one step with its answer: the embedder's call returns with it. Which path is
requested, what the server protects and which scheme it names are data of `Urls`.

### InspectorServer

`clientMap` and `connMap` are the two maps of `WebInspectorServer`. `conns[c]` is a
`WebSocketServerConnection` together with its `SocketStreamHandleServer`, of which it has
the only reference. `loop` says which handle is inside the loop of
`progressTimerFired()` and where; while it is in `dispatch`, a message is with its view,
which may do whatever a view can (`Outside`). `crashed` is set where the code would use
an object that is not there, among them a view that reports to its frontend when the
server is gone; the model then stutters.

| Action | Code |
|---|---|
| `StartServer`, `StopServer`, `Accept`, `PollFails` | `WKCWebKitStartWebInspector()`, `WKCWebKitStopWebInspector()`, the poll timer of `WebSocketServerWKC.cpp` |
| `CreateView`, `DeleteView`, `EnableInspector`, `DisableInspector`, `SendMessage` | `InspectorServerClientWKC.cpp` with `registerPage()`, `unregisterPage()` and `sendMessageOverConnection()` |
| `FiresConnected`, `-Error`, `-RequestClose`, `-Ready` | the cases of `progressTimerFired()` |
| `LoopSkipsRead`, `ReadNothing`, `ReadRequest`, `UpgradeRefused`, `UpgradeAccepted`, `ReadFrames`, `Frame...`, `DispatchReturns`, `Loop...Write...`, `LoopEnds` | one pass of its loop: read, requests, upgrade to a WebSocket, frames, messages, write |
| `PeerCloses` | the remote frontend |

### MainThreadCalls and CallOrder

`queue`, `paused` and `timer` are the code's; `calls` records every call with its state so
that the abstract specification can be stated. What is done while the mutex is held is one
step; scheduling after the unlock is a step of its own (`Schedule`). `stack` holds the
calls of `dispatchFunctionsFromMainThread()` in progress.

| Action | Code |
|---|---|
| `CallOnMainThread`, `CallOnMainThreadAndWait`, `Schedule`, `WaitReturns` | the functions of `MainThread.cpp`; a waiting caller is released by `Signal` and goes on with `WaitReturns` |
| `CancelCallOnMainThread` | the removal of equal entries, as the main thread uses it |
| `SetMainThreadCallbacksPaused` | the debugger's pause; its end schedules |
| `TimerFires`, `Take`, `TakesNothing`, `FunctionReturns`, `Signal`, `Continues`, `Yields` | the loop of the dispatch, with its limit on time as a choice after each function |

`CallOrder` knows neither queue nor timer nor conditions: the earliest call that has not
started starts, the innermost function returns, a caller goes on after its own function.
The refinement mapping keeps `calls` and maps `waiting` to the call a thread in `wait` or
`woken` has made.

### ThreadTable

One step is one access to `gThreads`: reading an element or the size, shifting in
`remove()`, writing the size. `Joinings` says which workers are joined by the main thread;
the others detach themselves, which makes them writers of the table.

| Action | Code |
|---|---|
| `Create`, `Grow` | `createThread()` and `createThreadInternal()`: the entry is appended under the creation mutex, the new thread runs after that |
| `CurrentThread`, `Scan...` | `currentThread()` and `isMainThread()` |
| `Detach`, `Finish`, `WaitForThreadCompletion`, `JoinReturns` | the ends of a thread |
| `Erase...`, `Shift`, `Shrink...` | the removal of its entry |

### ThreadTimers

`heap`, `time`, `repeat` and `order` are `TimerBase`'s; `shared` is when the platform's
timer is due and `firing` the re-entrancy flag. `order` is kept as a natural number and
compared modulo `2^Width`, as the unsigned counter is. `stack` holds the firing loops in
progress. `PushHeap` is the sift-up: the hole rises along `Path`, the least set of positions
that holds the element's own and, from a position whose parent is later, the parent.
`PopHeap` is every result that the contract of
`pop_heap()` allows, so that the model does not depend on a library.

| Action | Code |
|---|---|
| `Start`, `Stop`, `AugmentRepeatInterval` with `SetNextFireTime` | `TimerBase::start()`, `stop()`, `augmentRepeatInterval()`, `setNextFireTime()` and the heap functions it chooses from |
| `SharedTimerFires`, `FireFirst`, `NothingDue`, `CallbackReturnsLast`, `CallbackReturns` | `sharedTimerFiredInternal()` |
| `FireTimersInNestedEventLoop` | the function of that name |
| `Tick` | the clock |

### DOMTimers

`timer[t]` holds what `SuspendableTimer` remembers: active, kept (`m_active` of the
suspended timer), and the two reasons. `dialogs` holds the dialogs, each with the pages its
`PageGroupLoadDeferrer` has deferred, and the pauses of the debugger.

| Action | Code |
|---|---|
| `Install`, `RemoveById`, `FireVisible`, `FireHidden` | `DOMTimer`: a timer of a hidden window puts itself back and is held |
| `RunJavaScriptDialog`, `RunModal`, `DialogEnds` | `Chrome.cpp` with `PageGroupLoadDeferrer`, which for a modal window leaves the new page out |
| `DebuggerPauses`, `DebuggerContinues` | `PageScriptDebugServer` |
| `NotifyChromeVisible` | `WKCWebView::notifyChromeVisible()` |
| `Navigate`, `Evict` | leaving a document, with or without keeping it in the page cache |

### LocalStorage

A content is a function from keys to values or `Null`; changes may also be `Same`. `db` is
the file's content after the last transaction. `upset` notes which events have happened
that the properties make exceptions for, and `seen` the contents that the map has had since
the file was read; nothing in the model's control depends on them. A failed import leaves
the map empty and the file as it is: both contents count as had.

| Action | Code |
|---|---|
| `SetItem`, `RemoveItem`, `Clear`, `ClearForOriginDeletion` | `StorageAreaImpl` with `scheduleItemForSync()` and `scheduleClear()` |
| `SyncTimerFires`, `SyncTimerFiresPartly` | `syncTimerFired()`, with all items or with as many as one sync may take |
| `Close` | `StorageNamespaceImpl::close()`: `scheduleFinalSync()`, the deletion of an empty database and the wait for the thread |
| `Thread` | the storage thread: import, `performSync()` in its steps (take, open, close, clear, write), deletion of an empty database, the end |
| `SyncDeleteOrigin` | the tracker's thread |
| `Crash`, `Create` | the process ends at any point; a new one imports the file |

## 4. The runs

| Run | Instance | Shows |
|---|---|---|
| `websockets` | 3 handles, 2 of them to one host, limits 1 and 2, fair | `SlotsBacked`, `OneHandshakePerHost`, `TimerArmed`, `ClosedIsTold` with nested reservations, scripts in close callbacks and deletions in between; `ConnectingEnds`: a handle that waits for another's handshake gets its turn, unless that handshake goes on for ever |
| `jobs` | 2 network jobs and a `data:` job, limits 0 and 1, 1 redirect each, permission question, proxy changes | `TypeOK` (reference counts), `OneList`, `MultiMatchesList`, `ReachableIsHeld`, `TimerArmed`, `SingleConnection`, `CancelledNeverSent` |
| `jobs_ending` | 2 jobs, 1 redirect and 1 retry each, fair | `JobsEnd` |
| `jobs_cookies` | the same, with WebSockets on the share handle | `CookiesCleared` |
| `auth` | 2 jobs, 1 redirect each, 2 nested URLs and an NTLM host, 1 proxy; 946,310 states | `EntriesDistinct`, `CredentialOfHost`, `RepeatsByItselfOnce` |
| `inspector_pages` | 2 views, 2 frontends, 3 page identifiers | `MapsMatch`, `RegisteredIsKnown`, `ConnectedIsTold`, `HandleTimerArmed` |
| `mainthread` | 2 threads and the main thread, 3 calls, dispatches nested twice, fair | `NoLostDispatch`, `CallsEnd`, `ImplementsCallOrder` |
| `thread_table` | 3 workers, any of them joined or detached | `IsMainThreadRight`, `EstablishedFirst` |
| `timers` | 3 timers, one-shot and repeating, a counter that wraps after 2 insertions, 3 starts, nested loops, fair | `HeapIsValid`, `FirstIsScheduled`, `FiresInOrder`, `TimersFire` |
| `domtimers` | 2 timers, 3 documents of 2 pages, 2 nested dialogs or pauses, with and without cache and debugger, fair | `NeverLost`, `QuietBeneathDialog`, `HiddenWhileHidden`, `ReadyTimersFire` |
| `local_storage` | 2 keys, 1 value, 4 changes, 1 item per sync, 1 crash, fair | `Accounted`, `ClosedIsSaved`, `Recoverable`, `ChangesAreTaken`, `CloseEnds` |
| `storage_partial` | 2 keys, 2 values, 3 changes, 1 item per sync | violated: section 7 |

**Bounds.** Handles, jobs, connections and threads are made once each. Three handles
suffice for a full list, one that waits and one opened from a callback. Three jobs let two
run while one waits, and let a client cancel a job other than its own. `MaxRedirects` is
`m_redirectMaxCount` (20 in the code) lowered to 1: the first redirect is followed and the
second is one too many. `MaxTries` bounds the credential and SSL retries of a job, which
the code bounds only by what servers and embedder answer. `Jobs.cfg` has none, to stay short;
with `MaxTries = 1` it passes as well, with 11.7 million states in four and a half minutes,
and the theorems of section 5 cover any number. Three page identifiers are one more than the
views, so that one re-registers under a new page. Three calls are the least with one in
front, one cancelled and one waited for. `FirstOrder` starts the counter of insertions two
before it wraps, and its width leaves room for three timers, as 32 bits do for any real
number. `Unit = 2` makes the platform's clock coarser than the timers', `Limit = 0` makes
the time limit of a firing loop bind. `MaxItems = 1` stands for the limit of items per
sync: two changed keys are more than it takes. Four changes fill all three places a change
can be in and change one again. Interchangeable elements are declared symmetric in the
runs that check only safety.

**Fairness.** The run loop fires started timers and code returns from its calls.

- `ThreadTimers`: the clock advances and a loop goes on (weak); a due platform timer is
  called and callbacks return although other callbacks start and stop timers meanwhile
  (strong: they may be interrupted by nested loops). Its result, `TimersFire`, is what the
  weak fairness of timers elsewhere rests on.
- `WebSocketConnections`: weak fairness of constructors, of the code after close callbacks
  and of the timer of a handle that may connect: its attempt fails or succeeds. Nothing is
  assumed of the peer: `construct()` sets no timeout for the handshake, so that
  `ConnectingEnds` has the exception of a peer that stays silent.
- `ResourceJobs`: the main thread goes on by itself, from the firing of the timer through
  the phases and after calls (weak, of `Continues` as a whole);
  `curl_multi_perform()` returns and transfers end (strong, since the timer polls). For the
  connection and the beginning of the response `CURLOPT_CONNECTTIMEOUT` and
  `CURLOPT_SERVER_RESPONSE_TIMEOUT`, set on the handles of jobs, see to that
  (`ResourceHandleManagerWKC.cpp:2480-2481`); that a body ends is an assumption on servers.
  The two runs leave proxy changes out: a job caught in its redirect by one never ends
  (section 7). A job that is stuck because `curl_multi_add_handle()` failed is an exception
  of both properties. `CookiesCleared` is about requests that find a job running or the
  timer armed, for finitely many jobs, and ends where a WebSocket takes the share handle.
- `MainThreadCalls`: threads are scheduled and the dispatch goes on (weak); functions
  return, the timer fires at a time without pause, and a pause ends (strong: all three can
  be disabled again by nested loops and the debugger).
- `DOMTimers`: an active timer fires (weak).
- `LocalStorage`: the sync timer and the storage thread (weak). The process may still end
  at any point.

Clients, the embedder, users, remote peers and the writability of sockets are not assumed
fair.

Deadlock is checked everywhere except in `auth`, where all jobs may have ended.

## 5. What is proved

All theorems are for arbitrary sets and bounds, from the named assumptions of the
specifications (settings are Boolean, bounds natural numbers, `No...` values are not
elements, handles are finitely many, the paths of URLs have lengths).

**WebSocketConnectionsProofs.** `IInv` is the conjunction of the type invariant,
`SlotsBacked`, `OneHandshakePerHost`, `TimerArmed` (with its exception for a write that met
the FIN) and `ClosingReleased`: a handle inside
`platformClose()` has given up its cURL handles. The last is what makes `SlotsBacked`
inductive, because the slot outlives the connection by a callback. `ClosedIsTold` needs
`HeardInv` besides: what the call in progress will still tell. Results: `TypeCorrect`,
`SlotsAreBacked`, `HandshakesSerialised`, `NoLostWakeup`, `ClosersTell`.

**ResourceJobsProofs.** `CoreInv` says for every job where it may be (`Placed`), when the
manager's reference is held (`Held`), what a client call in progress implies (`Called`)
and that a job which can still be sent has a loader that wants it (`Wanted`); and, of the
manager, that a call belongs to its phase, that messages are read before the sweep and
that the lists have no duplicates. None of the properties is inductive alone: that
`removeFromCurl()` may drop a reference needs that the job is not scheduled, which needs
`Called`, which needs the phase. `JobStep` reduces a step that concerns one job to what it
makes of that job.
`TimerArmed` is about the main loop only, and says nothing of the phases in between;
`TimerInv` says for each phase who will restart the timer. At rest the timer is armed for
what waits; while messages are read, `rearm` or the timer covers every transfer but those
that ended; a job cancelled by its client while a message of it is handled has armed the
timer itself, because the sweep of this firing may be past it; after the messages,
everything left in the multi handle is counted, and a job stays scheduled only beside
running ones, of which one is in the multi handle unless some are stuck. Results:
`Invariance`, `ReferencesCounted`, `JobsInOneList`, `ListMatchesMulti`, `NothingReleasedEarly`, `OneConnectionToNewProxy`,
`CancelledStaysUnsent`, `NoLostWakeUp`.

**MainThreadCallsProofs.** `IInv` joins the type invariant, `QueueInv` (the queue holds
exactly the calls in state queued, in ascending order), `StackInv` (the dispatches hold
the running calls, ascending), `StartsInOrder` and `PcInv` (a thread in `schedule` or
`wait` has a call that fits). `WaitInv` relates a waiting thread to its call. From them
`TypeCorrect`, `Ordered`, `NobodyForgotten`, `DispatchScheduled`, `SignalSafe` and
`Refinement`: the initial state and each step map to `CallOrder`'s. Order across nested
dispatches is the point: that the innermost function is the latest started is `StackInv`,
which needs `StartsInOrder`.

**TimersProofs, ThreadTimers.** The heap first. `Path` is a least set, so what it contains is
shown by giving sets that are closed (`PathSteps`, `PathChain`, `PathTop`): the path is a
chain of ancestors, no two of its positions have the same parent, and its top is where the
sift-up stops. `PushLists` and `PushOrders` follow for vectors of any length; that the
first element of a heap is least is a least-counterexample argument (`FirstOfHeap`),
and `ListLength` counts by a bijection. The lemmas take an order `R` as a parameter, of
which they need that it is transitive and that `operator<` decides between any two timers
of the heap (`Transitive`, `Decides`); they are used for two orders. For the times alone
`operator<` always decides (`TimeDecides`). For times and insertions it does so as long as
the insertions of active timers lie less than `(2^Width - 1) \div 2` apart (`Near`,
`OrderDecides`): beyond that the comparison modulo `2^Width` is no order.

`TimersInv` joins the type invariant, `HeapInv` (the vector lists the active timers once
each and is a heap of their times), `OrderInv` (the insertions of active timers are in the
past and differ), `ClockInv` (the platform's timer is stopped while a loop fires and
otherwise covers the first timer) and `LoopInv` (only the innermost loop is between two
timers, and it fires). `FirstIsScheduled` alone is not inductive: when a timer that was not
first changes and is not first afterwards, `setNextFireTime()` leaves the platform's timer
alone, and that this is right needs that the new first timer is not due before the old one,
which is `HeapInv`; and that the first timer's callback finds the platform's timer stopped
needs `LoopInv`. TLC finds `TimersInv` true in every state of the instance of `timers`. Results,
without condition: `TimersInvariant`, `TimersScheduled`, `TimersHeld` (each active timer is
in the vector exactly once, and none is due before the first) and `TimersFireByTime`. With
`[]Near`: `TimersHeapValid` and `TimersFireInOrder`, that is, `HeapIsValid` and
`FiresInOrder`. The condition is not empty: `FewAreNear` shows that it holds as long as at
most half the range of the counter has been used, 2^31 - 1 insertions for the code's 32 bits,
wherever the counter started and so also across its wrap; the instance of `timers` meets it
in every state and starts 2 insertions before the wrap. `PowerAssumption`, that `2^Width` is
a positive number, is arithmetic that the provers do not have.

**TimersProofs, DOMTimers.** `DOMInv` says that the two reasons, the kept state and the
document's flag agree (`Sound`, `Agrees`); it gives `NoneLost` and `WithDocument`. `Quiet`
needs where each dialog's pages stand in the stack (`Places`, `DialogInv`), and
`HeldWhileHidden` what the window knows of its document's timers (`HiddenInv`).

**LocalStorageProofs.** `IInv` has the types, what the queue may hold in each phase of the
process (`QueueInv`), where a change may be (`PlaceInv`) and what the thread's steps know
of the file (`FileInv`). `SavedInv` adds that the map is what remains after all that is on
its way (`Kept`), that the file and each stage are contents the map has had (`Past`), and
that a clear is not overtaken (`Clears`). These hold up to the first partial sync, fault or
deletion. `ItemsInv` holds beyond them: each item of the file, of the maps under the lock
and of the task is one the map has had for its key (`Had`), and so is the empty content if a
clear or a deletion is on its way (`Empties`). Results: `TypesAndQueue`, `TypeCorrect`,
`NothingLost`, `AlwaysRecoverable`, `AllSaved`.

**InspectorServerProofs.** `IInv` joins the type invariant and the four properties with
what they need of each other: a page belongs to a connection that is listed and has become
a WebSocket (`ConnInv`), the connection being read is listed (`LoopInv`), without a server
the maps are empty and with one it listens (`ServerInv`, `ServerListens`), and what a view
remembers of its registration (`ViewInv`). The parts lean on each other: a close finds the
page's client by `ConnectedIsTold`, whose view is the right one by `RegisteredIsKnown`, and
gives back the page that is its own by `ConnInv` and `MapsMatch`. Results: `Invariance`,
`MapsAgree`, `RegistryIsKnown`, `ClientsAreTold`, `TimersAreArmed`.

**AuthenticationJarProofs.** `IInv` says that every entry of the jar holds what was entered
for its proxy, its own host or one that redirected to it (`Honest`), that no two entries
are for the same place (`Apart`), that a request under way or waiting after a redirection,
and what its job will still write back into the jar, was entered for the request's host or
its origins and for the present proxy (`Sent`), and that a job repeats by itself only
before its first counted challenge (`Patient`). `origins` only grows, so that what was right
for a host stays right when others are redirected to it. `CredentialOfHost` needs the jar's part
because jobs take from it what others put there, and the jobs' part because they confirm
later what they took. The lemmas below it say what lookup, update, append and removal do to
a list, of any length: that there is an entry with the longest path, and a first one that
matches. They are proved by least counterexample (`LeastOf`, from the well-foundedness of
the natural numbers), which needs no induction schema. Results: `Invariance`,
`NoTwoEntries`, `NoCredentialLeaks`, `NoEndlessRepeats`.

**ThreadTableProofs.** `IInv` has the roles of the threads (`Shape`: who creates, who
removes whose entry, that no index leaves the buffer) and two conditional parts. If the
main thread waits for all workers it is the only writer (`SoleWriter`): its entry stays the
first and only one of it, the size it has read is the size, and a worker that has matched
an element is past the first, so that whatever is shifted there is not the main thread. As
long as no entry was removed (`Established`) the table only grows, and a worker that walks
it has its entry ahead. That this condition is never regained is part of the induction.
For the entries of running workers through removals `Kept` says, with the main thread as
sole writer, that every running worker is among the elements that stay (`Settled`: all but
the last while a removal has closed its gap and not yet written the size), that a new entry
is written behind all others, and that what is removed is the entry of a thread that ended.
`EntriesAreKept` shows it in every state, for threads created before and after removals
alike.
Results: `Invariance`, `MainThreadIsKnown`, `ThreadFindsItself`.

**Checked by TLC only.** The liveness properties: reasoning with fairness and ENABLED is
beyond this version of the proof system. `CallOrder` has no properties of its own.

## 6. Mutants

Every property of a passing run has a mutant, an operator named for the mistake and kept
next to the definition it replaces: a destructor that keeps its slot, a redirect that
leaves the job in the running list, a count of the wrong transfers, a second entry for a
page beside the first frontend's, a cancel that takes only the first equal entry, orders
compared outright, a thread that runs before its entry is made, a clear that keeps the
changed items, a transaction per item. TLC finds the property violated with each.

## 7. Findings

`storage_partial` (`StorageAreaSync.cpp:208`): a sync that takes only some of the changed
items removes every pending key from `m_changedItems`, also keys an earlier sync has left
pending. A newer change of such a key that was not copied is then in neither map, although
the comment at :223 says "If we didn't finish syncing, then we need to finish the job later."
`PROJECT.json` quotes the lines.

Met while modelling, at the lines given, where code, comments and documentation do not
agree or a property holds only with an exception. The properties state the exception, and
the models contain the behaviour unless said otherwise.

Network (`RHM` is `ResourceHandleManagerWKC.cpp`, `SSH` is `SocketStreamHandleWKC.cpp`):

- SSH:515: a handle that got no slot is disconnected without `didCloseSocketStream()`,
  though the comment at `WebSocketChannel.cpp:244` relies on it. `ClosedIsTold` is about
  handles that had a slot.
- SSH:445: a handle closed while a frame is partly sent stays in `Closing`; the progress
  timer has an empty case for that state, and `WebSocketChannel.cpp:805` waits.
- SSH:485-488: `platformSend()` that meets the peer's FIN when the timer calls it returns
  without restarting the timer; the open handle is not read again until its channel
  disconnects it. `TimerArmed` has this one exception.
- SSH:132-290, RHM:4296: no timeout is set for the opening handshake. A server that accepts
  and stays silent keeps all other handles to its host in `Connecting`.
- RHM:4247-4257: `reserveWebSocketConnection()` keeps plain pointers to the closing handles
  while it disconnects them one by one. The close callbacks run scripts and may drop the
  last reference to another of them (`WebSocketChannel.cpp:307-318`), which is then
  disconnected after it was freed.
- SSH:193, RHM:1572-1598: a WebSocket's easy handle is attached to the same share handle as
  the jobs'. `clearCookies()` is refused while it is, even if no job runs, and nothing tries
  again before the next job ends. `startScheduledJobs()` does not wait for the cookies to be
  cleared either.
- RHM:1641, 1656: the result of `curl_multi_add_handle()` is ignored when a request is
  repeated, unlike at 2377. After a failure the job stays in the running list without a
  transfer, and may keep others from starting.
- RHM:2600-2607, 3324-3345: a job keeps `m_webAuthUser` and `m_webAuthPass` through a
  redirection, so that what was entered for one host is sent to the next; RHM:997-998 may
  then store it for that host. What the jar had returned stays set on the re-used cURL
  handle as well. `CredentialOfHost` says that there is no other way.
- RHM:3009: a request whose permission was put off is sent when the timer fires, unlike
  `FrameLoaderClientIf.h:1180-1183` says.
- RHM:1608: `setProxyInfo()` removes all jobs but one between a redirect's header and
  cURL's message, which then has no transfer and no end.
- RHM:2911: `removeAllScheduledJobs()` indexes with a length it read before it called
  clients; `Vector.h:531` asserts the index.
- A failed `curl_easy_init()` keeps the job's reference; the easy handle of a redirected
  job that is then refused is not released; a 407 without a proxy ends the job without
  telling its client.
- `AuthenticationJarWKC.cpp:153`: whether temporary or confirmed credentials are returned
  is decided by the flag of the list's last entry, so that what the user has just entered
  may not be used. `CredentialOfHost` is about the host only. :124-128: a lookup ignores the
  scheme, and the realm if it has none, so several entries may match it; `EntriesDistinct`
  is about what `setWebUserPassword()` tells apart.
- RHM:1965: a job refused with old proxy credentials deletes newer ones.

Inspector:

- `WebInspectorServer.cpp:213`: a message read after its page was closed finds no client
  (the model's `Crashed`).
- `SocketStreamHandleServerWKC.cpp:249`: a requested close is overwritten by a failing
  write; :240 and `WebInspectorServer.cpp:225`: a peer that closes is not noticed.
- `InspectorServerClientWKC.cpp:80-81`: a view that reports to its frontend after the server
  was stopped uses the shared instance that is gone (`Crashed` as well).
- `InspectorServerClientWKC.cpp:87`: after a restart of the server a view says it is
  enabled (`WKCWebView.h:1962`) and is not registered.

Threads, timers, storage:

- `MainThread.cpp:211`: the wait is not in a loop, and `wkcpeer.h:667` does not exclude
  returns without a signal; the model assumes there are none.
- `ThreadingWKC.cpp:178`: a lookup during a removal may find nothing and return 0; :121: a
  thread that detaches itself may undo an update of the size. `EstablishedFirst` says what
  holds nevertheless.
- `PageScriptDebugServer.cpp:205`: a pause in a dialog's script resumes the pages beneath
  the dialog. `QuietBeneathDialog` is about sessions without a debugger.
- `WKCWebView.cpp:1938`: documents in the page cache keep timers that were held while the
  window was hidden. `HiddenWhileHidden` is about sessions without the cache.
- `StorageAreaSync.cpp:193-209`: a sync takes only some of the items if there are many. A
  process that ends before the next one leaves a mixture of two contents in the file;
  `Recoverable` then promises only that each item is one the map had for its key.
- `StorageAreaSync.cpp`: a sync that closes the database drops the new items of its batch;
  failed writes are not retried; the assertions of `deleteEmptyDatabase()` and
  `deleteOrigin()` expect different threads. `clearLocalStorage()` without a tracker
  (`WKCWebView.cpp:4812`) lets deleted items return.

## 8. Not modelled

Inside the modelled components: forced termination (`forceTerminate()`); credentials in
redirections that are left to cURL (the setting `m_redirectInWKC` off);
`StorageAreaSync::scheduleSync()` and `setMinimumTimerInterval()` of a page that
has timers, which the port does not call;
`setDefersLoading()`, statistics and logging; SSL notifications; ports and the kind of
server in the jar; event loops nested in a view's handling of an inspector message, and
the server's destructor closing connections while it walks its map; `append()` moving the
buffer of the thread table; shared timers of worker threads and a failing
`wkcTimerStartOneShotPeer()`; returns of a condition wait without a signal; parsers, tasks,
scripts and animations of suspended documents, documents with several frames, and closing
a page; storage events, quota and private browsing, several origins and session storage.
`WKC_ENABLE_SINGLE_THREADED` is defined nowhere, so the threaded build is modelled.

Whole components: synchronous jobs and the proxy filter (planned); cookies, SSL and
certificates, form data, DNS prefetch (calls into cURL and OpenSSL); the HTTP cache, whose
definition is commented out (`src/WKC/include/wkcplatform.h:702`); web view, frames,
preferences, client adapters, helpers, downloads, feeds (forwarding calls and data);
graphics, media, platform services, test shell (pixels, formats, files).

Nearly all of the repository's 2.3 million lines are vendored: WebKit with its ports to
other platforms, JavaScriptCore, cairo, ANGLE, OpenSSL, cURL and other libraries. Layout,
parsing, rendering and interpretation are computations over unbounded data with no
protocol to check, and belong to their own projects. The port's own logic with state over
time is what sections 1 to 7 cover; the share of all lines stays small for that reason.
What clients do is modelled from how WebCore's loaders and channel use this code, not from
their own source in full.
