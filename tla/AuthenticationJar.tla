-------------------------- MODULE AuthenticationJar --------------------------
(***************************************************************************)
(* The jar of user names and passwords that all jobs share, and what the   *)
(* resource handle manager does with it: the credentials a job starts      *)
(* with, the 401 and 407 answers of servers and proxies, the user's        *)
(* dialog, the repeated request and the confirmation by an answer below    *)
(* 400.  The dialog is a call of the application that returns with the     *)
(* user's answer, so a challenge up to the repeated request is one step;   *)
(* jobs interleave between their requests and the answers to them.         *)
(* Redirections are those that the manager follows itself                  *)
(* (m_redirectInWKC), not those it leaves to cURL.                         *)
(***************************************************************************)
EXTENDS Naturals, Sequences, SequencesExt, FiniteSetsExt

CONSTANTS
    Jobs,
    Urls,      \* [host, full, base, realm, scheme]: host and path of a request,
               \* and the protection space the server has for it
    Proxies,
    Answers,   \* what users enter, told apart for each host or proxy
    MaxRedirects,                    \* m_redirectMaxCount
    NTLM, Digest, Basic, Default,    \* schemes
    None       \* the empty string: no realm, no credential, no proxy

\* Paths are sequences.
ASSUME PathAssumption == \A u \in Urls : Len(u.full) \in Nat /\ Len(u.base) \in Nat
ASSUME RedirectsAssumption == MaxRedirects \in Nat

VARIABLES
    web,       \* m_WebAuthInfoList
    proxies,   \* m_ProxyAuthInfoList
    proxy,     \* m_proxy
    single,    \* m_tryProxySingleConnect
    job,       \* per job: the members about authentication, and what was sent
    origins    \* history: per host, the hosts that redirections to it come from

vars == <<web, proxies, proxy, single, job, origins>>

\* A path is the sequence of its components: "/a/b" has the full path <<a, b>>
\* and the base path <<a>>, "/a/b/" has <<a, b>> for both.
Hosts == {u.host : u \in Urls}
Credential(h) == {h} \X Answers

\* cookies: the request allows cookies.  entered and pentered: m_webAuthURL and m_proxyAuthURL are not empty.  own and
\* pown: m_webAuthUser and m_proxyAuthUser.  web and pweb: the credentials set on
\* the cURL handle, which the job keeps for all its requests.  silent and psilent count the
\* requests repeated without asking the user.
NewJob ==
    [at |-> "new", url |-> None, redirects |-> 0, cookies |-> FALSE,
     web |-> None, own |-> None, realm |-> None, scheme |-> Default,
     entered |-> FALSE, known |-> FALSE, times |-> FALSE, silent |-> 0,
     proxied |-> FALSE, pweb |-> None, pown |-> None, pentered |-> FALSE, pknown |-> FALSE,
     ptimes |-> FALSE, psilent |-> 0]

Over == [NewJob EXCEPT !.at = "over"]

Init ==
    /\ web = <<>>
    /\ proxies = <<>>
    /\ proxy = None
    /\ single = FALSE
    /\ job = [j \in Jobs |-> NewJob]
    /\ origins = [h \in Hosts |-> {h}]

(***************************************************************************)
(* AuthenticationJar: the entries of servers.                              *)
(***************************************************************************)

Used(e, confirmed) == IF confirmed THEN e.cred ELSE e.tmp

\* longer(): of the entries with the longest path, the first.
Longest(S, length) == Min({i \in S : \A k \in S : length[k] <= length[i]})

Concerns(e, u, realm) == e.host = u.host /\ (realm # None => e.realm = realm)

\* getWebUserPassword() of list l for a request and a realm: the entry found,
\* the credentials returned and the list it leaves behind.  The flag that
\* chooses between confirmed and temporary credentials is that of the entry for
\* an exact match, and that of the list's last entry otherwise.
Found(l, u, realm) ==
    LET Here == {i \in DOMAIN l : Concerns(l[i], u, realm)}
        Exact == {i \in Here : l[i].full = u.full}
        Fulls == {i \in Here : IsPrefix(l[i].full, u.full)}
        Bases == {i \in Here \ Fulls : IsPrefix(l[i].base, u.full)}
    IN  CASE Exact # {} -> Min(Exact)
          [] Exact = {} /\ Fulls # {} -> Longest(Fulls, [i \in Fulls |-> Len(l[i].full)])
          [] Fulls = {} /\ Bases # {} -> Longest(Bases, [i \in Bases |-> Len(l[i].base)])
          [] OTHER -> 0

\* As it would be if hosts were not compared.
ReturnedAnyHost(l, u, realm) ==
    IF l = <<>> THEN None ELSE Used(Last(l), Last(l).confirmed)

Returned(l, u, realm) ==
    LET e == l[Found(l, u, realm)]
    IN  IF Found(l, u, realm) = 0 THEN None
        ELSE Used(e, IF e.full = u.full THEN e.confirmed ELSE Last(l).confirmed)

\* What includes the full path of an entry shows it to be a folder.
AfterGet(l, u, realm) ==
    LET i == Found(l, u, realm)
    IN  IF i # 0 /\ IsPrefix(l[i].full, u.full) /\ l[i].full # u.full
        THEN [l EXCEPT ![i].base = l[i].full] ELSE l

Stored(e, c, confirmed) ==
    IF confirmed THEN [e EXCEPT !.confirmed = TRUE, !.cred = c, !.tmp = None]
    ELSE [e EXCEPT !.confirmed = FALSE, !.tmp = c]

NewEntry(u, realm, scheme) ==
    [scheme |-> scheme, host |-> u.host, realm |-> realm,
     base |-> IF scheme = NTLM THEN <<>> ELSE u.base,
     full |-> IF scheme = NTLM THEN <<>> ELSE u.full,
     confirmed |-> FALSE, cred |-> None, tmp |-> None]

\* As it would be if an entry were only known by its base path.
UpdatesByBase(e, u, realm, scheme) ==
    /\ e.scheme = scheme
    /\ e.host = u.host
    /\ e.realm = realm
    /\ e.base = u.base

\* Whether setWebUserPassword() updates entry e.
Updates(e, u, realm, scheme) ==
    /\ e.scheme = scheme
    /\ e.host = u.host
    /\ scheme # NTLM => e.realm = realm /\ (e.full = u.full \/ e.base = u.base)

\* setWebUserPassword().  A location comes with a redirection, adds no entry and
\* may show the path to be a folder.
Set(l, u, realm, scheme, c, confirmed, redirected, folder) ==
    LET i == SelectInSeq(l, LAMBDA e : Updates(e, u, realm, scheme))
        IsFolder == folder /\ scheme # NTLM /\ l[i].full = u.full
        Widened == IF IsFolder THEN [l EXCEPT ![i].base = l[i].full] ELSE l
    IN  CASE i # 0 -> [Widened EXCEPT ![i] = Stored(@, c, confirmed)]
          [] i = 0 /\ redirected -> l
          [] OTHER -> Append(l, Stored(NewEntry(u, realm, scheme), c, confirmed))

\* deleteWebUserPassword(): the entry with this full and base path.
Doomed(l, u, realm) ==
    SelectInSeq(l, LAMBDA e : Concerns(e, u, realm) /\ e.full = u.full /\ e.base = u.base)

Without(l, i) == IF i = 0 THEN l ELSE RemoveAt(l, i)

(***************************************************************************)
(* AuthenticationJar: the entries of proxies.                              *)
(***************************************************************************)

ProxyFound(l, p) == SelectInSeq(l, LAMBDA e : e.proxy = p)

SetProxy(l, p, scheme, c) ==
    LET e == [proxy |-> p, scheme |-> scheme, cred |-> c]
        i == ProxyFound(l, p)
    IN  IF i = 0 THEN Append(l, e) ELSE [l EXCEPT ![i] = e]

(***************************************************************************)
(* The resource handle manager.                                            *)
(***************************************************************************)

\* setProxyInfo() ends all jobs.
SetProxyInfo(p, c) ==
    /\ p # proxy
    /\ proxy' = p
    /\ single' = (p # None)
    /\ proxies' = IF p = None THEN proxies ELSE SetProxy(proxies, p, Default, c)
    /\ job' = [j \in Jobs |-> IF job[j].at = "new" THEN NewJob ELSE Over]
    /\ UNCHANGED <<web, origins>>

\* initializeHandle(), for a job r with no handle yet or with the one of the
\* request before.  A user of its own, of the URL or entered before, is sent to
\* the host of the request; a job that does not allow cookies takes none from the
\* jar, and if nothing is found the handle keeps what it has.
InitializeHandle(j, r) ==
    LET i == ProxyFound(proxies, proxy)
        p == IF r.proxied /\ i # 0
             THEN [r EXCEPT !.pweb = proxies[i].cred, !.pown = proxies[i].cred,
                            !.pentered = TRUE, !.pknown = TRUE]
             ELSE r
        fromJar == r.own = None /\ r.cookies /\ Found(web, r.url, None) # 0
    IN  /\ single => \A k \in Jobs : job[k].at # "sent"
        /\ web' = IF fromJar THEN AfterGet(web, r.url, None) ELSE web
        /\ job' = [job EXCEPT ![j] =
                     CASE r.own # None -> [p EXCEPT !.at = "sent", !.web = r.own, !.entered = TRUE,
                                                    !.scheme = Basic, !.realm = None]
                       [] fromJar      -> [p EXCEPT !.at = "sent", !.known = TRUE,
                                                    !.web = Returned(web, r.url, None)]
                       [] OTHER        -> [p EXCEPT !.at = "sent"]]
        /\ UNCHANGED <<proxies, proxy, single, origins>>

\* A job starts; own is the user of its URL.  A filter may exempt it from the proxy.
Start(j, u, own, cookies, filtered) ==
    /\ job[j].at = "new"
    /\ filtered => proxy # None
    /\ InitializeHandle(j, [NewJob EXCEPT !.url = u, !.own = own, !.cookies = cookies,
                                          !.proxied = (proxy # None /\ ~filtered)])

\* A job that was redirected starts again.
StartAgain(j) ==
    /\ job[j].at = "again"
    /\ InitializeHandle(j, job[j])

\* updateProxyAuthenticate(), for a job that ends with an answer of the proxy.
UpdateProxy(l, r, scheme) ==
    IF r.pknown /\ single /\ scheme # Default THEN SetProxy(l, proxy, scheme, r.pown) ELSE l

\* The job ends.
Ends(j, r, l, scheme) ==
    /\ proxies' = UpdateProxy(l, r, scheme)
    /\ single' = (single /\ ~r.pknown)
    /\ job' = [job EXCEPT ![j] = Over]

\* setWebUserPassword() with the credentials of job r, confirmed by an answer.
Confirmed(r, redirected, folder) ==
    IF r.entered THEN Set(web, r.url, r.realm, r.scheme, r.own, TRUE, redirected, folder) ELSE web

\* An answer that is no redirection and no refusal the manager deals with (not an
\* unknown scheme, or a job that does not allow cookies), and the end of the
\* load.  One below 300 confirms the credentials.
Succeeds(j, scheme) ==
    /\ job[j].at = "sent"
    /\ scheme = Default \/ job[j].pknown
    /\ web' \in {web, Confirmed(job[j], FALSE, FALSE)}
    /\ Ends(j, job[j], proxies, scheme)
    /\ UNCHANGED <<proxy, origins>>

\* A redirection to u, which is scheduled as the job's next request unless there
\* were too many; below 304 it confirms the credentials, and its location may show
\* the path to be a folder.
Redirects(j, u) ==
    /\ job[j].at = "sent"
    /\ web' \in {web} \cup {Confirmed(job[j], TRUE, folder) : folder \in BOOLEAN}
    /\ IF job[j].redirects < MaxRedirects
       THEN /\ job' = [job EXCEPT ![j] = [job[j] EXCEPT !.at = "again", !.url = u,
                                                       !.redirects = @ + 1]]
            /\ origins' = [origins EXCEPT ![u.host] = @ \cup origins[job[j].url.host]]
       ELSE /\ job' = [job EXCEPT ![j] = Over]
            /\ UNCHANGED origins
    /\ UNCHANGED <<proxies, proxy, single>>

\* The request fails or is cancelled.
Fails(j) ==
    /\ job[j].at \in {"sent", "again"}
    /\ job' = [job EXCEPT ![j] = Over]
    /\ UNCHANGED <<web, proxies, proxy, single, origins>>

\* As it would be if challenges were not counted.
RepeatsUncounted(j, r, l) ==
    IF Found(l, r.url, r.realm) # 0
    THEN /\ web' = AfterGet(l, r.url, r.realm)
         /\ job' = [job EXCEPT ![j] = [r EXCEPT !.web = Returned(l, r.url, r.realm)]]
         /\ UNCHANGED <<proxies, single>>
    ELSE /\ web' = l
         /\ Ends(j, r, proxies, Default)

\* setAuthChallenge() with the list l: the request is repeated with what the jar
\* returns, or the job ends.
Repeats(j, r, l) ==
    IF Found(l, r.url, r.realm) # 0
    THEN /\ web' = AfterGet(l, r.url, r.realm)
         /\ job' = [job EXCEPT ![j] = [r EXCEPT !.web = Returned(l, r.url, r.realm), !.times = TRUE]]
         /\ UNCHANGED <<proxies, single>>
    ELSE /\ web' = l
         /\ Ends(j, r, proxies, Default)

\* didReceiveAuthenticationChallenge() for a 401: headerRealm() has noted the
\* realm.  answer is what the user enters, if asked; None is a cancelled dialog.
Refused(j, answer) ==
    LET u == job[j].url
        r == [job[j] EXCEPT !.realm = u.realm]
        l == IF r.entered THEN Without(web, Doomed(web, u, u.realm)) ELSE web
        asks == r.entered \/ r.times \/ Found(web, u, u.realm) = 0
        given == [r EXCEPT !.own = answer, !.scheme = u.scheme, !.entered = TRUE]
    IN  /\ job[j].at = "sent" /\ job[j].cookies
        /\ ~asks => answer = None
        /\ \/ /\ asks /\ answer # None
              /\ Repeats(j, given, Set(l, u, u.realm, u.scheme, answer, FALSE, FALSE, FALSE))
           \/ /\ asks /\ answer = None
              /\ web' = l
              /\ Ends(j, r, proxies, Default)
           \/ /\ ~asks /\ ~(u.scheme = Digest /\ r.known)
              /\ Repeats(j, [r EXCEPT !.silent = @ + 1], AfterGet(l, u, u.realm))
           \/ /\ ~asks /\ u.scheme = Digest /\ r.known
              /\ web' = AfterGet(l, u, u.realm)
              /\ Ends(j, r, proxies, Default)
        /\ UNCHANGED <<proxy, origins>>

\* The same for a 407.
ProxyRefused(j, scheme, answer) ==
    LET r == job[j]
        l == IF r.pentered THEN Without(proxies, ProxyFound(proxies, proxy)) ELSE proxies
        i == ProxyFound(l, proxy)
        usable == i # 0 /\ l[i].scheme # Default /\ l[i].cred # None
        asks == ~usable \/ r.pentered \/ r.ptimes
        after == IF asks THEN SetProxy(l, proxy, scheme, answer) ELSE l
        repeated == IF asks THEN [r EXCEPT !.pown = answer, !.pentered = TRUE]
                    ELSE [r EXCEPT !.psilent = @ + 1]
        ends == IF asks THEN answer = None ELSE scheme = Digest /\ r.pknown
    IN  /\ r.at = "sent" /\ r.proxied
        /\ ~asks => answer = None
        /\ IF ~ends
           THEN /\ proxies' = after
                /\ job' = [job EXCEPT ![j] =
                             [repeated EXCEPT !.pweb = after[ProxyFound(after, proxy)].cred,
                                              !.ptimes = TRUE]]
                /\ UNCHANGED single
           ELSE Ends(j, [r EXCEPT !.pentered = FALSE, !.pown = IF asks THEN None ELSE @], l, scheme)
        /\ UNCHANGED <<web, proxy, origins>>

Schemes == {NTLM, Digest, Basic}

Next ==
    \/ \E p \in Proxies : \E c \in Credential(p) \cup {None} : SetProxyInfo(p, c)
    \/ SetProxyInfo(None, None)
    \/ \E j \in Jobs :
         \/ \E u \in Urls, cookies, filtered \in BOOLEAN :
              \E own \in Credential(u.host) \cup {None} : Start(j, u, own, cookies, filtered)
         \/ StartAgain(j)
         \/ \E s \in Schemes \cup {Default} : Succeeds(j, s)
         \/ \E u \in Urls : Redirects(j, u)
         \/ Fails(j)
         \/ job[j].at = "sent" /\ \E c \in Credential(job[j].url.host) \cup {None} : Refused(j, c)
         \/ \E s \in Schemes : \E c \in Credential(proxy) \cup {None} : ProxyRefused(j, s, c)

Spec == Init /\ [][Next]_vars

(***************************************************************************)
(* Properties.                                                             *)
(***************************************************************************)

\* setWebUserPassword() never stores a second entry for the host, scheme, realm and
\* full path of another one, whatever lookups widened meanwhile, and an NTLM host
\* and a proxy have one entry.  (A lookup ignores the scheme, and the realm if it
\* has none: among several entries it takes the one with the longest path.)
EntriesDistinct ==
    /\ \A i, k \in DOMAIN web : i # k =>
         \/ web[i].host # web[k].host
         \/ web[i].scheme # web[k].scheme
         \/ web[i].scheme # NTLM /\ (web[i].realm # web[k].realm \/ web[i].full # web[k].full)
    /\ \A i, k \in DOMAIN proxies : i # k => proxies[i].proxy # proxies[k].proxy

\* What users entered for the hosts that requests to host h come from, h included.
CredentialsFor(h) == {None} \cup UNION {Credential(o) : o \in origins[h]}

\* Credentials cross from host to host only with a redirection: whatever entries
\* are shared, widened and updated by several jobs, what a request carries and
\* what the jar keeps for a host was entered for it or for a host that redirected
\* to it, and what goes to a proxy was entered for the proxy.
CredentialOfHost ==
    /\ \A i \in DOMAIN web : {web[i].cred, web[i].tmp} \subseteq CredentialsFor(web[i].host)
    /\ \A j \in Jobs : job[j].at = "sent" =>
        /\ job[j].web \in CredentialsFor(job[j].url.host)
        /\ job[j].pweb \in Credential(proxy) \cup {None}

\* A job does not go on being refused by itself: at most one request for each of
\* server and proxy is repeated with credentials of the jar and no question.
RepeatsByItselfOnce == \A j \in Jobs : job[j].silent <= 1 /\ job[j].psilent <= 1
==============================================================================
