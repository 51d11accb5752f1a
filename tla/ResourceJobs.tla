---------------------------- MODULE ResourceJobs ----------------------------
(***************************************************************************)
(* The job scheduler of the network layer: the ResourceHandles ("jobs")    *)
(* that ResourceHandleManager keeps in m_scheduledJobList and              *)
(* m_runningJobList, its download timer and its cURL multi handle.         *)
(*                                                                         *)
(* Everything runs on the main thread.  One firing of the download timer   *)
(* goes through the phases of downloadTimerCallback(): start scheduled     *)
(* jobs, let cURL perform, read cURL's messages, sweep the cancelled jobs, *)
(* start jobs again, re-arm the timer.  Whenever a phase calls a job's     *)
(* client, the client may call back into the manager before it returns;    *)
(* call records which job's client is being called, and from where.        *)
(*                                                                         *)
(* The build has no HTTP cache (ENABLE_WKC_HTTPCACHE is off), so no job is *)
(* served from one.                                                        *)
(***************************************************************************)
EXTENDS Naturals, Sequences, SequencesExt

CONSTANTS
    Jobs,              \* the ResourceHandles, each started once
    NoJob,             \* no job
    DataJobs,          \* the jobs whose URL is a data: URL
    Limits,            \* the values m_httpConnections is set to
    MaxRedirects,      \* m_redirectMaxCount
    MaxTries,          \* bound on credential and SSL retries of one job
    HarmfulSiteFilter, \* m_harmfulSiteFilter
    RedirectInWKC,     \* m_redirectInWKC
    ProxyChanges,      \* whether the embedder sets the proxy while jobs are loading
    WebSockets         \* whether WebSockets are opened and closed beside the jobs

ASSUME NoJobAssumption    == NoJob \notin Jobs
ASSUME DataJobsAssumption == DataJobs \subseteq Jobs
ASSUME LimitsAssumption   == Limits \subseteq Nat /\ Limits # {}
ASSUME BoundsAssumption   == MaxRedirects \in Nat /\ MaxTries \in Nat
ASSUME SettingsAssumption == HarmfulSiteFilter \in BOOLEAN /\ RedirectInWKC \in BOOLEAN
                             /\ ProxyChanges \in BOOLEAN /\ WebSockets \in BOOLEAN

VARIABLES
    jobs,       \* the fields of each job
    scheduled,  \* m_scheduledJobList
    running,    \* m_runningJobList
    multi,      \* the jobs whose easy handle is in m_curlMultiHandle
    done,       \* those of them whose CURLMSG_DONE message is unread
    max,        \* m_httpConnections
    single,     \* m_tryProxySingleConnect
    cookies,    \* m_cookiesDeleting
    shared,     \* m_curlShareHandle is attached to a WebSocket's easy handle
    timer,      \* m_downloadTimer.isActive()
    rearm,      \* started || runningHandles > 0 of downloadTimerCallback()
    num,        \* num of removeAllScheduledJobs()
    pc,         \* the phase the main thread is in
    call        \* the client call in progress: its job and where it came from

vars == <<jobs, scheduled, running, multi, done, max, single, cookies, shared,
          timer, rearm, num, pc, call>>

Permits == {"SUSPEND", "ASKING", "PERMIT", "CANCEL"}

\* loader is the reference that the ResourceLoader holds; refs counts the ones
\* the manager holds.  client is d->client() # 0, handle is d->m_handle # 0,
\* redirecting is m_doRedirectChallenge, auth is m_didAuthChallenge, ssl is
\* m_sslReconnect.  told: didFinishLoading() or didFail() was called.  stray:
\* the job was to be sent again and curl_multi_add_handle() failed.
Job == [ loader      : {"none", "holding", "gone"},
         refs        : {0, 1},
         client      : BOOLEAN,
         handle      : BOOLEAN,
         cancelled   : BOOLEAN,
         permit      : Permits,
         redirects   : 0..(MaxRedirects + 1),
         redirecting : BOOLEAN,
         auth        : BOOLEAN,
         ssl         : BOOLEAN,
         tries       : 0..MaxTries,
         told        : BOOLEAN,
         stray       : BOOLEAN ]

NewJob == [ loader |-> "none", refs |-> 0, client |-> FALSE, handle |-> FALSE,
            cancelled |-> FALSE, permit |-> "SUSPEND", redirects |-> 0,
            redirecting |-> FALSE, auth |-> FALSE, ssl |-> FALSE, tries |-> 0,
            told |-> FALSE, stray |-> FALSE ]

Phases == {"idle", "start1", "perform", "messages", "sweep", "start2", "rearm",
           "abortScheduled", "abortRunning", "wild"}

Places == {"none", "prohibited", "data", "nomemory", "refused", "redirect",
           "receive", "challenge", "page", "local", "result",
           "abortScheduled", "abortRunning"}

\* A call of job's client made at a place of the code; entered is false where
\* the code finds that the job has no client any more and skips the call.
NoCall        == [job |-> NoJob, at |-> "none", entered |-> FALSE]
Call(j, p, b) == [job |-> j, at |-> p, entered |-> b]
Quiet         == call.at = "none"

Init == /\ jobs = [j \in Jobs |-> NewJob]
        /\ scheduled = <<>> /\ running = <<>>
        /\ multi = {} /\ done = {}
        /\ max \in Limits
        /\ single = FALSE /\ cookies = FALSE /\ shared = FALSE
        /\ timer = FALSE /\ rearm = FALSE
        /\ num = 0
        /\ pc = "idle"
        /\ call = NoCall

Scheduled(j) == j \in ToSet(scheduled)
Running(j)   == j \in ToSet(running)
SetJob(j, r) == jobs' = [jobs EXCEPT ![j] = r]

\* The list s without its entry j.
Without(s, j) == IF j \in ToSet(s)
                 THEN RemoveAt(s, CHOOSE i \in DOMAIN s : s[i] = j)
                 ELSE s

\* A job's client is told the end of the load.  The ResourceLoader then
\* releases its resources: it clears the client and drops its reference.
Told(r) == [r EXCEPT !.told = TRUE, !.client = FALSE, !.loader = "gone"]

\* The client of job j, if there is one, is told the end of the load; r is
\* the job's record, p the place of the call.
TellEnd(j, r, p) ==
    /\ SetJob(j, IF r.client THEN Told(r) ELSE r)
    /\ call' = Call(j, p, r.client)

\* The code's deref() of a reference the manager holds.
Deref(r) == [r EXCEPT !.refs = @ - 1]

----------------------------------------------------------------------------
(* What clients and the embedder call, from the main loop or from inside a *)
(* client callback.                                                        *)

ClientTurn == pc = "idle" \/ call.entered

\* canPermitRequest().  The answer is that of dispatchWillPermitSendRequest():
\* 1, 0 (decide later) or -1; -1 also stands for a job whose frame is gone.
CanPermitRequest(r, answer) ==
    IF r.cancelled
    THEN r
    ELSE IF ~HarmfulSiteFilter
    THEN [r EXCEPT !.permit = "PERMIT"]
    ELSE IF r.permit # "SUSPEND"
    THEN r
    ELSE CASE answer = "allow" -> [r EXCEPT !.permit = "PERMIT"]
           [] answer = "later" -> [r EXCEPT !.permit = "ASKING"]
           [] answer = "deny"  -> [r EXCEPT !.permit = "CANCEL", !.cancelled = TRUE]

Answers == {"allow", "later", "deny"}

\* appendScheduledJob(): a data: URL needs no permission.
AppendScheduledJob(j, r, answer) ==
    /\ scheduled' = Append(scheduled, j)
    /\ SetJob(j, CanPermitRequest(IF j \in DataJobs THEN [r EXCEPT !.permit = "PERMIT"] ELSE r,
                                  answer))

\* Mutant: add() does not start the download timer.
AddWithoutTimer(j) ==
    /\ ClientTurn /\ jobs[j].loader = "none"
    /\ \E answer \in Answers :
         AppendScheduledJob(j, [jobs[j] EXCEPT !.loader = "holding", !.client = TRUE,
                                               !.refs = @ + 1], answer)
    /\ UNCHANGED <<shared, running, multi, done, max, single, cookies, timer, rearm, num, pc, call>>

\* A loader starts its ResourceHandle.
Add(j) ==
    /\ ClientTurn /\ jobs[j].loader = "none"
    /\ \E answer \in Answers :
         AppendScheduledJob(j, [jobs[j] EXCEPT !.loader = "holding", !.client = TRUE,
                                               !.refs = @ + 1], answer)
    /\ timer' = TRUE
    /\ UNCHANGED <<shared, running, multi, done, max, single, cookies, rearm, num, pc, call>>

\* A loader cancels its load: ResourceHandle::cancel(), after which the loader
\* clears the client and drops its reference.  A scheduled job is taken off
\* its list; the manager's reference goes with it, and the destructor calls
\* cancel() once more.  Any other job is left for the sweep.
Cancel(j) ==
    /\ ClientTurn /\ jobs[j].loader = "holding"
    /\ scheduled' = Without(scheduled, j)
    /\ SetJob(j, [jobs[j] EXCEPT !.refs = IF Scheduled(j) THEN 0 ELSE jobs[j].refs,
                                 !.cancelled = TRUE, !.client = FALSE, !.loader = "gone"])
    /\ timer' = (timer \/ jobs[j].handle)
    /\ UNCHANGED <<shared, running, multi, done, max, single, cookies, rearm, num, pc, call>>

\* Mutant: cancelByFrame() drops the reference of a running job at once.
CancelByFrameDerefsRunning(j) ==
    /\ ClientTurn
    /\ Scheduled(j) \/ (Running(j) /\ ~jobs[j].cancelled)
    /\ scheduled' = Without(scheduled, j)
    /\ SetJob(j, [Deref(jobs[j]) EXCEPT !.cancelled = ~Scheduled(j)])
    /\ timer' = (timer \/ (~Scheduled(j) /\ jobs[j].handle))
    /\ UNCHANGED <<shared, running, multi, done, max, single, cookies, rearm, num, pc, call>>

\* cancelByFrame(), one iteration of its loops: each looks at one entry of a
\* list and calls nobody.  The loader is not involved.
CancelByFrame(j) ==
    /\ ClientTurn
    /\ Scheduled(j) \/ Running(j)
    /\ scheduled' = Without(scheduled, j)
    /\ SetJob(j, IF Scheduled(j) THEN Deref(jobs[j]) ELSE [jobs[j] EXCEPT !.cancelled = TRUE])
    /\ timer' = (timer \/ (~Scheduled(j) /\ jobs[j].handle))
    /\ UNCHANGED <<shared, running, multi, done, max, single, cookies, rearm, num, pc, call>>

\* The embedder answers a permission question that it had put off.
PermitRequest(j) ==
    /\ ClientTurn
    /\ Scheduled(j) /\ ~jobs[j].cancelled /\ jobs[j].permit = "ASKING"
    /\ \/ SetJob(j, [jobs[j] EXCEPT !.permit = "PERMIT"])
       \/ SetJob(j, [jobs[j] EXCEPT !.permit = "CANCEL", !.cancelled = TRUE])
    /\ timer' = TRUE
    /\ UNCHANGED <<shared, scheduled, running, multi, done, max, single, cookies, rearm, num, pc, call>>

\* A client answers the challenge it is being shown with a credential.
ReceivedCredential(j) ==
    /\ call = Call(j, "challenge", TRUE) /\ jobs[j].client
    /\ SetJob(j, [jobs[j] EXCEPT !.auth = TRUE])
    /\ UNCHANGED <<shared, scheduled, running, multi, done, max, single, cookies, timer, rearm, num, pc, call>>

\* Mutant: every job with an easy handle is taken to be using the cookies.
InRedirectByHandle(r) == r.handle

\* Between the header of a redirect and cURL's message the job is in no list.
InRedirect(r) == r.redirecting /\ r.handle

\* curl_share_setopt() refuses while an easy handle is attached to the share
\* handle, once the jobs are js: that of a WebSocket, of a job in a redirect,
\* or of one that is being told of its failure and not cleaned up yet.
ShareInUse(js) ==
    \/ shared
    \/ \E j \in Jobs : InRedirect(js[j])
    \/ call.at \in {"refused", "abortRunning"}

\* doClearCookies(), which does nothing unless a request is pending, once the
\* jobs are js and the running list is list.
DoClearCookies(pending, js, list) ==
    cookies' = (pending /\ (list # <<>> \/ ShareInUse(js)))

ClearCookies ==
    /\ ClientTurn
    /\ DoClearCookies(TRUE, jobs, running)
    /\ UNCHANGED <<shared, jobs, scheduled, running, multi, done, max, single, timer, rearm, num, pc, call>>

\* SocketStreamHandle's construct() and platformClose(), which attach an easy
\* handle to the share handle and clean it up, and tell nobody here.
WebSocketShares ==
    /\ WebSockets /\ ClientTurn
    /\ shared' = ~shared
    /\ UNCHANGED <<jobs, scheduled, running, multi, done, max, single, cookies, timer, rearm, num, pc, call>>

SetMaxHTTPConnections(n) ==
    /\ ClientTurn
    /\ max' = n
    /\ UNCHANGED <<shared, jobs, scheduled, running, multi, done, single, cookies, timer, rearm, num, pc, call>>

----------------------------------------------------------------------------
(* The download timer fires: startScheduledJobs(), twice per firing.       *)

Starting == pc \in {"start1", "start2"} /\ Quiet

\* startScheduledJobs() returns at once if nothing is scheduled.
TimerFires ==
    /\ pc = "idle" /\ timer
    /\ timer' = FALSE
    /\ pc' = IF scheduled = <<>> THEN "perform" ELSE "start1"
    /\ UNCHANGED <<shared, jobs, scheduled, running, multi, done, max, single, cookies, rearm, num, call>>

\* Mutant: the first connection through a proxy is not waited for.
HasRoomBesideFirst == max = 0 \/ Len(running) < 2 * max

HasRoom == /\ max = 0 \/ Len(running) < 2 * max
           /\ ~(single /\ running # <<>>)

\* The loop ends: the lists are full, which returns started, or nothing is
\* left in the list, which returns true.
StartsEnd ==
    /\ Starting /\ (~HasRoom \/ scheduled = <<>>)
    /\ rearm' = (rearm \/ HasRoom)
    /\ pc' = IF pc = "start1" THEN "perform" ELSE "rearm"
    /\ UNCHANGED <<shared, jobs, scheduled, running, multi, done, max, single, cookies, timer, num, call>>

\* shiftScheduledJob() takes the first entry: the condition under which it
\* would skip one has already ended the loop.
Shifts(j) == Starting /\ HasRoom /\ scheduled # <<>> /\ j = Head(scheduled)

\* The job was cancelled, by a refused permission.
StartProhibited(j) ==
    /\ Shifts(j) /\ jobs[j].cancelled
    /\ scheduled' = Tail(scheduled)
    /\ IF jobs[j].permit = "CANCEL"
       THEN TellEnd(j, jobs[j], "prohibited")
       ELSE /\ call' = Call(j, "prohibited", FALSE)
            /\ UNCHANGED jobs
    /\ UNCHANGED <<shared, running, multi, done, max, single, cookies, timer, rearm, num, pc>>

\* startJob() for a data: URL: handleDataURL() delivers it to the client.
StartData(j) ==
    /\ Shifts(j) /\ ~jobs[j].cancelled /\ j \in DataJobs
    /\ scheduled' = Tail(scheduled)
    /\ TellEnd(j, jobs[j], "data")
    /\ rearm' = TRUE
    /\ UNCHANGED <<shared, running, multi, done, max, single, cookies, timer, num, pc>>

\* curl_easy_init() fails; a redirected job keeps the handle it has.
StartNoMemory(j) ==
    /\ Shifts(j) /\ ~jobs[j].cancelled /\ j \notin DataJobs
    /\ jobs[j].redirects = 0
    /\ scheduled' = Tail(scheduled)
    /\ TellEnd(j, jobs[j], "nomemory")
    /\ rearm' = TRUE
    /\ UNCHANGED <<shared, running, multi, done, max, single, cookies, timer, num, pc>>

\* curl_multi_add_handle() fails: the job is cancelled, which arms the timer,
\* and its client told.
StartRefused(j) ==
    /\ Shifts(j) /\ ~jobs[j].cancelled /\ j \notin DataJobs
    /\ scheduled' = Tail(scheduled)
    /\ TellEnd(j, [jobs[j] EXCEPT !.handle = TRUE, !.cancelled = TRUE], "refused")
    /\ timer' = TRUE
    /\ rearm' = TRUE
    /\ UNCHANGED <<shared, running, multi, done, max, single, cookies, num, pc>>

\* Mutant: the job is started without looking at m_cancelled.
StartRunsCancelled(j) ==
    /\ Shifts(j) /\ j \notin DataJobs
    /\ scheduled' = Tail(scheduled)
    /\ running' = Append(running, j)
    /\ multi' = multi \cup {j}
    /\ SetJob(j, [jobs[j] EXCEPT !.handle = TRUE, !.cancelled = FALSE])
    /\ rearm' = TRUE
    /\ UNCHANGED <<shared, done, max, single, cookies, timer, num, pc, call>>

\* The job is handed to cURL; initializeHandle() resets m_cancelled.
StartRuns(j) ==
    /\ Shifts(j) /\ ~jobs[j].cancelled /\ j \notin DataJobs
    /\ scheduled' = Tail(scheduled)
    /\ running' = Append(running, j)
    /\ multi' = multi \cup {j}
    /\ SetJob(j, [jobs[j] EXCEPT !.handle = TRUE, !.cancelled = FALSE])
    /\ rearm' = TRUE
    /\ UNCHANGED <<shared, done, max, single, cookies, timer, num, pc, call>>

Returns(j, p) == call.job = j /\ call.at = p

\* The client's didFail() returns: a job that is not started is released.  For
\* a data: URL, startJob() cancels the job first.
StartReturns(j) ==
    /\ \E p \in {"prohibited", "data", "refused"} : Returns(j, p)
    /\ SetJob(j, [Deref(jobs[j]) EXCEPT !.handle = FALSE,
                                        !.cancelled = @ \/ call.at = "data"])
    /\ call' = NoCall
    /\ UNCHANGED <<shared, scheduled, running, multi, done, max, single, cookies, timer, rearm, num, pc>>

\* After a failed curl_easy_init() startJob() just returns: the job is in no
\* list, and the manager's reference is never dropped.
NoMemoryReturns(j) ==
    /\ Returns(j, "nomemory")
    /\ call' = NoCall
    /\ UNCHANGED <<shared, jobs, scheduled, running, multi, done, max, single, cookies, timer, rearm, num, pc>>

----------------------------------------------------------------------------
(* curl_multi_perform() and the callbacks it makes.                        *)

Performing(j) == pc = "perform" /\ Quiet /\ j \in multi \ done

\* headerCallback() or writeCallback() passes a part of the response on.
Receive(j) ==
    /\ Performing(j) /\ ~jobs[j].cancelled /\ ~jobs[j].redirecting
    /\ call' = Call(j, "receive", jobs[j].client)
    /\ UNCHANGED <<shared, jobs, scheduled, running, multi, done, max, single, cookies, timer, rearm, num, pc>>

\* A callback that finds its job cancelled returns 0, which ends the transfer.
ReceiveReturns(j) ==
    /\ Returns(j, "receive")
    /\ done' = IF jobs[j].cancelled THEN done \cup {j} ELSE done
    /\ call' = NoCall
    /\ UNCHANGED <<shared, jobs, scheduled, running, multi, max, single, cookies, timer, rearm, num, pc>>

\* headerCallback() meets a redirect and asks the client: willSendRequest().
ReceiveRedirect(j) ==
    /\ RedirectInWKC
    /\ Performing(j) /\ ~jobs[j].cancelled /\ ~jobs[j].redirecting
    /\ jobs[j].redirects =< MaxRedirects
    /\ call' = Call(j, "redirect", jobs[j].client)
    /\ UNCHANGED <<shared, jobs, scheduled, running, multi, done, max, single, cookies, timer, rearm, num, pc>>

\* Mutant: didReceiveRedirect() leaves the job in the running list.
RedirectKeepsRunning(j) ==
    /\ Returns(j, "redirect")
    /\ IF jobs[j].cancelled
       THEN done' = done \cup {j} /\ UNCHANGED jobs
       ELSE LET r == [jobs[j] EXCEPT !.redirects = @ + 1]
            IN  /\ SetJob(j, [r EXCEPT !.redirecting = (r.redirects =< MaxRedirects)])
                /\ UNCHANGED done
    /\ call' = NoCall
    /\ UNCHANGED <<shared, scheduled, running, multi, max, single, cookies, timer, rearm, num, pc>>

\* didReceiveRedirect(): unless there were too many, the job leaves the running
\* list now and cURL's multi handle only when its message is read.
RedirectReturns(j) ==
    /\ Returns(j, "redirect")
    /\ IF jobs[j].cancelled
       THEN /\ done' = done \cup {j}
            /\ UNCHANGED <<jobs, running>>
       ELSE LET r == [jobs[j] EXCEPT !.redirects = @ + 1]
            IN  /\ IF r.redirects > MaxRedirects
                   THEN SetJob(j, r) /\ UNCHANGED running
                   ELSE SetJob(j, [r EXCEPT !.redirecting = TRUE]) /\ running' = Without(running, j)
                /\ UNCHANGED done
    /\ call' = NoCall
    /\ UNCHANGED <<shared, scheduled, multi, max, single, cookies, timer, rearm, num, pc>>

\* cURL ends a transfer, with whatever result.
Complete(j) ==
    /\ Performing(j)
    /\ done' = done \cup {j}
    /\ UNCHANGED <<shared, jobs, scheduled, running, multi, max, single, cookies, timer, rearm, num, pc, call>>

\* Mutant: the transfers that ended are counted, not those that go on.
PerformEndsMiscounted ==
    /\ pc = "perform" /\ Quiet
    /\ rearm' = (done # {})
    /\ pc' = "messages"
    /\ UNCHANGED <<shared, jobs, scheduled, running, multi, done, max, single, cookies, timer, num, call>>

\* curl_multi_perform() returns the number of transfers that go on.
PerformEnds ==
    /\ pc = "perform" /\ Quiet
    /\ rearm' = (multi \ done # {})
    /\ pc' = "messages"
    /\ UNCHANGED <<shared, jobs, scheduled, running, multi, done, max, single, cookies, timer, num, call>>

----------------------------------------------------------------------------
(* _downloadTimerCallback() reads the messages of ended transfers.         *)

\* A job r is put back into the multi handle after it was taken out; a failure
\* of curl_multi_add_handle() goes unnoticed.
AddAgain(j, r) ==
    /\ \/ SetJob(j, r) /\ UNCHANGED multi
       \/ SetJob(j, [r EXCEPT !.stray = TRUE]) /\ multi' = multi \ {j}
    /\ timer' = TRUE
    /\ UNCHANGED <<scheduled, running, cookies>>

\* removeFromCurl() of job j, whose record is r.  Its four exits: the request
\* is sent again with a credential, if the jar still has one for it (found);
\* it is sent again without verifying the peer; the job is scheduled again for
\* a redirect; or the job is over.
RemoveFromCurl(j, r) ==
    \/ /\ ~r.cancelled /\ r.auth
       /\ AddAgain(j, [r EXCEPT !.auth = FALSE])
    \/ /\ ~r.cancelled /\ r.ssl
       /\ AddAgain(j, [r EXCEPT !.auth = FALSE, !.ssl = FALSE, !.permit = "PERMIT"])
    \/ /\ ~r.cancelled /\ ~r.ssl /\ r.redirecting
       /\ \E answer \in Answers :
            AppendScheduledJob(j, [r EXCEPT !.auth = FALSE, !.redirecting = FALSE,
                                            !.permit = "SUSPEND"], answer)
       /\ multi' = multi \ {j}
       /\ timer' = TRUE
       /\ UNCHANGED <<running, cookies>>
    \/ /\ r.cancelled \/ (~r.ssl /\ ~r.redirecting)
       /\ LET ended == [Deref(r) EXCEPT !.handle = FALSE,
                                        !.auth = @ /\ r.cancelled]
          IN  /\ SetJob(j, ended)
              /\ running' = Without(running, j)
              /\ multi' = multi \ {j}
              /\ DoClearCookies(cookies, [jobs EXCEPT ![j] = ended], running')
       /\ UNCHANGED <<scheduled, timer>>

Reading(j) == pc = "messages" /\ Quiet /\ j \in done

\* A cancelled job, or one whose redirect is to be followed.
MessageStale(j) ==
    /\ Reading(j) /\ (jobs[j].cancelled \/ jobs[j].redirecting)
    /\ done' = done \ {j}
    /\ RemoveFromCurl(j, jobs[j])
    /\ UNCHANGED <<shared, max, single, rearm, num, pc, call>>

Fresh(j) == Reading(j) /\ ~jobs[j].cancelled /\ ~jobs[j].redirecting

\* 401 or 407, and the jar has an untried credential.
MessageKnownCredential(j) ==
    /\ Fresh(j) /\ jobs[j].tries < MaxTries
    /\ done' = done \ {j}
    /\ RemoveFromCurl(j, [jobs[j] EXCEPT !.auth = TRUE, !.tries = @ + 1])
    /\ UNCHANGED <<shared, max, single, rearm, num, pc, call>>

\* 401 or 407, and the client is asked.
MessageChallenge(j) ==
    /\ Fresh(j) /\ jobs[j].tries < MaxTries
    /\ done' = done \ {j}
    /\ SetJob(j, [jobs[j] EXCEPT !.tries = @ + 1])
    /\ call' = Call(j, "challenge", jobs[j].client)
    /\ UNCHANGED <<shared, scheduled, running, multi, max, single, cookies, timer, rearm, num, pc>>

\* The job is cancelled or its request is sent again with a credential, or
\* else the body of the 401 or 407 is shown as a page: didReceiveResponse().
ChallengeReturns(j) ==
    /\ Returns(j, "challenge")
    /\ IF jobs[j].cancelled \/ jobs[j].auth
       THEN /\ RemoveFromCurl(j, jobs[j])
            /\ call' = NoCall
       ELSE /\ call' = Call(j, "page", jobs[j].client)
            /\ UNCHANGED <<jobs, scheduled, running, multi, cookies, timer>>
    /\ UNCHANGED <<shared, done, max, single, rearm, num, pc>>

\* CURLE_OK for a job whose client has not seen the response yet:
\* handleLocalReceiveResponse().
MessageLocal(j) ==
    /\ Fresh(j) /\ jobs[j].redirects =< MaxRedirects
    /\ done' = done \ {j}
    /\ call' = Call(j, "local", jobs[j].client)
    /\ UNCHANGED <<shared, jobs, scheduled, running, multi, max, single, cookies, timer, rearm, num, pc>>

\* The client is told the result: didFinishLoading() or didFail().  Success
\* through a proxy whose credential was known ends the single connection.
TellResult(j) ==
    /\ TellEnd(j, jobs[j], "result")
    /\ single' \in {single} \cup {b \in {FALSE} : jobs[j].redirects =< MaxRedirects}
    /\ UNCHANGED <<scheduled, running, multi, cookies, timer>>

MessageResult(j) ==
    /\ Fresh(j)
    /\ done' = done \ {j}
    /\ TellResult(j)
    /\ UNCHANGED <<shared, max, rearm, num, pc>>

\* The SSL handshake failed and the embedder wants to connect all the same.
MessageSSLReconnect(j) ==
    /\ Fresh(j) /\ jobs[j].tries < MaxTries
    /\ jobs[j].redirects =< MaxRedirects
    /\ done' = done \ {j}
    /\ RemoveFromCurl(j, [jobs[j] EXCEPT !.ssl = TRUE, !.tries = @ + 1])
    /\ UNCHANGED <<shared, max, single, rearm, num, pc, call>>

\* didReceiveResponse() returns.  The page of a challenge is dropped without a
\* word if the job's frame is gone; a local response if the job was cancelled.
ResponseReturns(j) ==
    \/ /\ \/ Returns(j, "page") /\ call.entered
          \/ Returns(j, "local") /\ jobs[j].cancelled
       /\ RemoveFromCurl(j, jobs[j])
       /\ call' = NoCall
       /\ UNCHANGED <<shared, done, max, single, rearm, num, pc>>
    \/ /\ Returns(j, "page") \/ (Returns(j, "local") /\ ~jobs[j].cancelled)
       /\ TellResult(j)
       /\ UNCHANGED <<shared, done, max, rearm, num, pc>>

\* A job that was cancelled meanwhile, or left the running list, is not
\* touched any more.
ResultReturns(j) ==
    /\ Returns(j, "result")
    /\ IF ~jobs[j].cancelled /\ jobs[j].handle /\ Running(j)
       THEN RemoveFromCurl(j, jobs[j])
       ELSE UNCHANGED <<jobs, scheduled, running, multi, cookies, timer>>
    /\ call' = NoCall
    /\ UNCHANGED <<shared, done, max, single, rearm, num, pc>>

MessagesEnd ==
    /\ pc = "messages" /\ Quiet /\ done = {}
    /\ pc' = "sweep"
    /\ UNCHANGED <<shared, jobs, scheduled, running, multi, done, max, single, cookies, timer, rearm, num, call>>

----------------------------------------------------------------------------
(* cancelScheduledJobs(), despite its name a sweep of the running list,    *)
(* and the end of downloadTimerCallback().                                 *)

\* Mutant: the sweep does not take the easy handle out of the multi handle.
SweepKeepsHandle(j) ==
    /\ pc = "sweep" /\ Running(j) /\ jobs[j].cancelled
    /\ running' = Without(running, j)
    /\ SetJob(j, [Deref(jobs[j]) EXCEPT !.handle = FALSE])
    /\ UNCHANGED <<shared, scheduled, multi, done, max, single, cookies, timer, rearm, num, pc, call>>

\* Mutant: the sweep drops the manager's reference twice.
SweepDerefsTwice(j) ==
    /\ pc = "sweep" /\ Running(j) /\ jobs[j].cancelled
    /\ running' = Without(running, j)
    /\ multi' = multi \ {j}
    /\ SetJob(j, [Deref(Deref(jobs[j])) EXCEPT !.handle = FALSE])
    /\ UNCHANGED <<shared, scheduled, done, max, single, cookies, timer, rearm, num, pc, call>>

\* One iteration: a cancelled job is taken off, wherever it stands.
Sweep(j) ==
    /\ pc = "sweep" /\ Running(j) /\ jobs[j].cancelled
    /\ running' = Without(running, j)
    /\ multi' = multi \ {j}
    /\ SetJob(j, [Deref(jobs[j]) EXCEPT !.handle = FALSE])
    /\ UNCHANGED <<shared, scheduled, done, max, single, cookies, timer, rearm, num, pc, call>>

SweepEnds ==
    /\ pc = "sweep" /\ \A j \in Jobs : Running(j) => ~jobs[j].cancelled
    /\ DoClearCookies(cookies, jobs, running)
    /\ pc' = IF scheduled = <<>> THEN "rearm" ELSE "start2"
    /\ UNCHANGED <<shared, jobs, scheduled, running, multi, done, max, single, timer, rearm, num, call>>

\* The timer is started again if transfers go on or a job was started.
TimerRearms ==
    /\ pc = "rearm"
    /\ timer' = (timer \/ rearm)
    /\ rearm' = FALSE
    /\ pc' = "idle"
    /\ UNCHANGED <<shared, jobs, scheduled, running, multi, done, max, single, cookies, num, call>>

----------------------------------------------------------------------------
(* setProxyInfo(): removeAllScheduledJobs(), removeAllRunningJobs() and a  *)
(* new multi handle.                                                       *)

SetProxyInfo ==
    /\ ProxyChanges /\ pc = "idle"
    /\ num' = Len(scheduled)
    /\ pc' = "abortScheduled"
    /\ UNCHANGED <<shared, jobs, scheduled, running, multi, done, max, single, cookies, timer, rearm, call>>

AbortingScheduled == pc = "abortScheduled" /\ Quiet

\* The loop counts down from the length the list had at first; it reads beyond
\* the list if clients took jobs off meanwhile.
AbortScheduled(j) ==
    /\ AbortingScheduled /\ num \in 1..Len(scheduled) /\ j = scheduled[num]
    /\ scheduled' = RemoveAt(scheduled, num)
    /\ num' = num - 1
    /\ IF jobs[j].cancelled
       THEN call' = Call(j, "abortScheduled", FALSE) /\ UNCHANGED jobs
       ELSE TellEnd(j, jobs[j], "abortScheduled")
    /\ UNCHANGED <<shared, running, multi, done, max, single, cookies, timer, rearm, pc>>

\* If it was the last reference, the destructor's cancel() arms the timer for
\* a job that still has its handle.
AbortScheduledReturns(j) ==
    /\ Returns(j, "abortScheduled")
    /\ SetJob(j, [Deref(jobs[j]) EXCEPT !.cancelled = @ \/ call.entered])
    /\ timer' = (timer \/ (jobs[j].loader = "gone" /\ jobs[j].handle))
    /\ call' = NoCall
    /\ UNCHANGED <<shared, scheduled, running, multi, done, max, single, cookies, rearm, num, pc>>

AbortBeyondList ==
    /\ AbortingScheduled /\ num > Len(scheduled)
    /\ pc' = "wild"
    /\ UNCHANGED <<shared, jobs, scheduled, running, multi, done, max, single, cookies, timer, rearm, num, call>>

AbortScheduledEnds ==
    /\ AbortingScheduled /\ num = 0
    /\ pc' = "abortRunning"
    /\ UNCHANGED <<shared, jobs, scheduled, running, multi, done, max, single, cookies, timer, rearm, num, call>>

AbortRunning(j) ==
    /\ pc = "abortRunning" /\ Quiet /\ running # <<>> /\ j = Head(running)
    /\ running' = Tail(running)
    /\ IF jobs[j].cancelled
       THEN call' = Call(j, "abortRunning", FALSE) /\ UNCHANGED jobs
       ELSE TellEnd(j, jobs[j], "abortRunning")
    /\ UNCHANGED <<shared, scheduled, multi, done, max, single, cookies, timer, rearm, num, pc>>

AbortRunningReturns(j) ==
    /\ Returns(j, "abortRunning")
    /\ SetJob(j, [Deref(jobs[j]) EXCEPT !.cancelled = @ \/ call.entered, !.handle = FALSE])
    /\ multi' = multi \ {j}
    /\ call' = NoCall
    /\ UNCHANGED <<shared, scheduled, running, done, max, single, cookies, timer, rearm, num, pc>>

\* The old multi handle is cleaned up, whatever it still holds.  One
\* connection at a time until the proxy, if there is one, has let one through.
RenewMulti ==
    /\ pc = "abortRunning" /\ Quiet /\ running = <<>>
    /\ multi' = {}
    /\ single' \in BOOLEAN
    /\ pc' = "idle"
    /\ UNCHANGED <<shared, jobs, scheduled, running, done, max, cookies, timer, rearm, num, call>>

\* After a read beyond the list anything may happen; nothing is said of it.
Wild == pc = "wild" /\ UNCHANGED vars

----------------------------------------------------------------------------
ClientActs(j) == Add(j) \/ Cancel(j) \/ CancelByFrame(j) \/ PermitRequest(j) \/ ReceivedCredential(j)

Starts(j) == \/ StartProhibited(j) \/ StartData(j) \/ StartNoMemory(j)
             \/ StartRefused(j) \/ StartRuns(j)
             \/ StartReturns(j) \/ NoMemoryReturns(j)

Transfers(j) == \/ Receive(j) \/ ReceiveReturns(j)
                \/ ReceiveRedirect(j) \/ RedirectReturns(j)
                \/ Complete(j)

Messages(j) == \/ MessageStale(j) \/ MessageKnownCredential(j) \/ MessageChallenge(j)
               \/ MessageLocal(j) \/ MessageResult(j) \/ MessageSSLReconnect(j)
               \/ ChallengeReturns(j) \/ ResponseReturns(j) \/ ResultReturns(j)

Aborts(j) == \/ AbortScheduled(j) \/ AbortScheduledReturns(j)
             \/ AbortRunning(j) \/ AbortRunningReturns(j)

Phase == \/ TimerFires \/ StartsEnd \/ PerformEnds \/ MessagesEnd \/ SweepEnds \/ TimerRearms
         \/ AbortBeyondList \/ AbortScheduledEnds \/ RenewMulti

Next == \/ \E j \in Jobs : \/ ClientActs(j) \/ Starts(j) \/ Transfers(j)
                           \/ Messages(j) \/ Sweep(j) \/ Aborts(j)
        \/ Phase
        \/ ClearCookies
        \/ WebSocketShares
        \/ \E n \in Limits : SetMaxHTTPConnections(n)
        \/ SetProxyInfo
        \/ Wild

Spec == Init /\ [][Next]_vars

----------------------------------------------------------------------------
(* Properties.                                                             *)

\* Every variable keeps its type; in particular the manager's reference count
\* of a job, which add() raises and four different exits drop, is 0 or 1.
TypeOK ==
    /\ jobs \in [Jobs -> Job]
    /\ scheduled \in Seq(Jobs) /\ running \in Seq(Jobs)
    /\ multi \subseteq Jobs /\ done \subseteq Jobs
    /\ max \in Limits
    /\ single \in BOOLEAN /\ cookies \in BOOLEAN /\ shared \in BOOLEAN
    /\ timer \in BOOLEAN /\ rearm \in BOOLEAN
    /\ num \in Nat
    /\ pc \in Phases
    /\ call \in [job : Jobs \cup {NoJob}, at : Places, entered : BOOLEAN]

Injective(s) == \A i, k \in DOMAIN s : s[i] = s[k] => i = k

\* A job is in one place at a time: once in one of the two lists, or in none
\* while its redirect waits for cURL's message or its client is called by
\* code that took it off its list.
OneList ==
    /\ Injective(scheduled) /\ Injective(running)
    /\ \A j \in Jobs : ~(Scheduled(j) /\ Running(j))
    /\ \A j \in Jobs : jobs[j].redirecting => ~Scheduled(j) /\ ~Running(j)

TakenOff == {"prohibited", "data", "nomemory", "refused", "abortScheduled", "abortRunning"}

\* The running list and cURL agree: a running job has its handle in the multi
\* handle, unless it could not be put back for another try, and a handle in the
\* multi handle belongs to a running job, to one in a redirect or to one that
\* removeAllRunningJobs() is telling about.  So removeFromCurl() never meets a
\* job without a handle.
MultiMatchesList ==
    /\ \A j \in Jobs : Running(j) => j \in multi \/ jobs[j].stray
    /\ \A j \in multi : jobs[j].handle /\
         (Running(j) \/ jobs[j].redirecting \/ Returns(j, "abortRunning"))
    /\ done \subseteq multi

\* A job that the manager or cURL can still reach, in a list, in the multi
\* handle or on the stack of a client call, is kept alive by the manager's
\* reference, however the client reacts.
ReachableIsHeld ==
    \A j \in Jobs : Scheduled(j) \/ Running(j) \/ j \in multi \/ call.job = j
                    => jobs[j].refs = 1

\* A job that runs for cURL no more: neither does it end nor does it make room.
Stuck == \E j \in Jobs : Running(j) /\ jobs[j].stray

\* No lost wake-up: when the main loop runs, the download timer is armed if
\* cURL has a transfer, and if a job is scheduled that no stuck job may hold
\* back, whichever of the many exits of downloadTimerCallback() led here.
TimerArmed ==
    pc = "idle" => /\ multi # {} => timer
                   /\ scheduled # <<>> => timer \/ Stuck

\* After a proxy was set there is one running job at a time until a job got
\* through: whatever ran before was removed, and no path starts a second.
SingleConnection == single => Len(running) =< 1

\* A load that was cancelled, by its loader, its frame or a refused permission,
\* is never handed to cURL afterwards, though initializeHandle() resets
\* m_cancelled and a redirect schedules the job once more.
CancelledNeverSent ==
    [][\A j \in Jobs : j \in multi' \ multi =>
         jobs[j].loader = "holding" /\ ~jobs[j].cancelled]_vars

\* What the main thread does next by itself: the timer fires, or the code in
\* progress goes on.
Continues ==
    \/ Phase
    \/ \E j \in Jobs : \/ Starts(j) \/ Sweep(j) \/ Aborts(j) \/ Messages(j)
                       \/ ReceiveReturns(j) \/ RedirectReturns(j)

\* The main thread goes on, cURL ends every transfer, and curl_multi_perform()
\* returns.
Fairness ==
    /\ WF_vars(Continues)
    /\ \A j \in Jobs : SF_vars(Complete(j))
    /\ SF_vars(PerformEnds)

FairSpec == Spec /\ Fairness

\* Every job that was added is over some day: the manager lets go of it, or
\* has at least told its client (after a failed curl_easy_init(), when it
\* keeps its reference).  The exception is a stuck job, which may keep its
\* place in the running list, and the jobs behind it waiting, for ever.
JobsEnd ==
    \A j \in Jobs : \/ jobs[j].refs = 1 ~> (jobs[j].refs = 0 \/ jobs[j].told)
                    \/ <>[]Stuck

\* A request for clearing the cookies that meets a running job or an armed
\* timer is carried out when the jobs that run have ended, although
\* startScheduledJobs() does not wait for it (the jobs are finitely many, and
\* none of them stuck) - unless a WebSocket uses the share handle meanwhile:
\* its end makes nobody try again.
CookiesCleared ==
    \/ cookies /\ (timer \/ running # <<>>) ~> ~cookies \/ shared
    \/ <>[]Stuck

=============================================================================
