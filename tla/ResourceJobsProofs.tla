------------------------- MODULE ResourceJobsProofs -------------------------
(* Proofs about ResourceJobs, for any set of jobs, limits and settings.    *)
EXTENDS ResourceJobs, SequenceTheorems, TLAPS

(* Lists without duplicates. *)
List(s) == s \in Seq(Jobs) /\ Injective(s)

\* An empty list has no entries, and only that one.
LEMMA EmptyList ==
    /\ List(<<>>) /\ ToSet(<<>>) = {} /\ Len(<<>>) = 0
    /\ \A s \in Seq(Jobs) : Len(s) \in Nat /\ (s # <<>> <=> ToSet(s) # {})
                            /\ (s = <<>> <=> Len(s) = 0) /\ ToSet(s) \subseteq Jobs
BY DEF List, ToSet, Injective

\* Vector::append().
LEMMA AppendList ==
    ASSUME NEW s, List(s), NEW j \in Jobs, j \notin ToSet(s)
    PROVE  /\ List(Append(s, j)) /\ ToSet(Append(s, j)) = ToSet(s) \cup {j}
           /\ Len(Append(s, j)) = Len(s) + 1
<1> DEFINE t == Append(s, j)
<1>1. t \in Seq(Jobs) /\ Len(t) = Len(s) + 1 /\ DOMAIN t = 1..(Len(s) + 1) /\ Len(s) \in Nat
      /\ DOMAIN s = 1..Len(s)
  BY DEF List
<1>2. \A i \in 1..Len(s) : t[i] = s[i]
  BY DEF List
<1>3. t[Len(s) + 1] = j
  BY DEF List
<1> HIDE DEF t
<1>4. Injective(t)
  BY <1>1, <1>2, <1>3 DEF List, Injective, ToSet
<1>5. ToSet(t) = ToSet(s) \cup {j}
  BY <1>1, <1>2, <1>3 DEF ToSet
<1> QED BY <1>1, <1>4, <1>5 DEF List, t

\* Vector::remove(i).
LEMMA RemoveAtList ==
    ASSUME NEW s, List(s), NEW i \in 1..Len(s)
    PROVE  /\ List(RemoveAt(s, i)) /\ ToSet(RemoveAt(s, i)) = ToSet(s) \ {s[i]}
           /\ Len(RemoveAt(s, i)) = Len(s) - 1
           /\ s[i] \in Jobs /\ s[i] \in ToSet(s)
<1> DEFINE t == RemoveAt(s, i)
<1>1. s \in Seq(Jobs) /\ Len(s) \in Nat /\ DOMAIN s = 1..Len(s)
  BY DEF List
<1>2. /\ SubSeq(s, 1, i-1) \in Seq(Jobs) /\ Len(SubSeq(s, 1, i-1)) = i - 1
      /\ \A k \in 1..(i-1) : SubSeq(s, 1, i-1)[k] = s[k]
  BY <1>1
<1>3. /\ SubSeq(s, i+1, Len(s)) \in Seq(Jobs) /\ Len(SubSeq(s, i+1, Len(s))) = Len(s) - i
      /\ \A k \in 1..(Len(s) - i) : SubSeq(s, i+1, Len(s))[k] = s[i + k]
  <2>1. \A k \in (i+1)..Len(s) : s[k] \in Jobs
    BY <1>1
  <2>2. i + 1 \in Int /\ Len(s) \in Int /\ Len(s) - (i + 1) + 1 = Len(s) - i
        /\ \A k \in 1..(Len(s) - i) : i + 1 + k - 1 = i + k
    BY <1>1
  <2> DEFINE m == i + 1
             n == Len(s)
             b == SubSeq(s, m, n)
  <2>3. /\ b \in Seq(Jobs)
        /\ Len(b) = IF m <= n THEN n - m + 1 ELSE 0
        /\ \A k \in 1..(n - m + 1) : b[k] = s[m + k - 1]
    <3> HIDE DEF m, n
    <3> QED BY <2>1, <2>2, SubSeqProperties DEF m, n
  <2> HIDE DEF b
  <2>4. Len(b) = Len(s) - i
    <3> HIDE DEF n
    <3>1. n \in Nat /\ i \in Nat /\ i =< n
      BY <1>1 DEF n
    <3>2. Len(b) = n - i
      BY <2>3, <3>1
    <3> QED BY <3>2 DEF n
  <2>5. ASSUME NEW k \in 1..(Len(s) - i)
        PROVE  b[k] = s[i + k]
    <3>1. b[k] = s[m + k - 1]
      BY <2>2, <2>3
    <3> QED BY <2>2, <3>1
  <2> QED BY <2>3, <2>4, <2>5 DEF b
<1>4. /\ t \in Seq(Jobs) /\ Len(t) = Len(s) - 1 /\ DOMAIN t = 1..(Len(s) - 1)
      /\ \A k \in 1..(Len(s) - 1) : t[k] = IF k < i THEN s[k] ELSE s[k + 1]
  <2> DEFINE a == SubSeq(s, 1, i-1)
             b == SubSeq(s, i+1, Len(s))
  <2>1. t = a \o b
    BY DEF RemoveAt
  <2>2. a \in Seq(Jobs) /\ b \in Seq(Jobs) /\ Len(a) = i - 1 /\ Len(b) = Len(s) - i
    BY <1>2, <1>3
  <2>3. \A k \in 1..(i-1) : a[k] = s[k]
    BY <1>2
  <2>4. \A k \in 1..(Len(s) - i) : b[k] = s[i + k]
    BY <1>3
  <2> HIDE DEF a, b, t
  <2>5. /\ t \in Seq(Jobs) /\ Len(t) = Len(a) + Len(b)
        /\ \A k \in 1..(Len(a) + Len(b)) : t[k] = IF k <= Len(a) THEN a[k] ELSE b[k - Len(a)]
    BY <2>1, <2>2, ConcatProperties
  <2>6. ASSUME NEW k \in 1..(Len(s) - 1)
        PROVE  t[k] = IF k < i THEN s[k] ELSE s[k + 1]
    <3>1. CASE k < i
      BY <1>1, <2>2, <2>3, <2>5, <3>1
    <3>2. CASE k >= i
      <4>1. k - (i - 1) \in 1..(Len(s) - i) /\ i + (k - (i - 1)) = k + 1
        BY <1>1, <3>2
      <4>2. t[k] = b[k - (i - 1)]
        <5>1. k \in 1..(Len(a) + Len(b)) /\ ~(k <= Len(a)) BY <1>1, <2>2, <3>2
        <5>2. t[k] = b[k - Len(a)] BY <2>5, <5>1
        <5> QED BY <2>2, <5>2
      <4> QED BY <1>1, <2>4, <3>2, <4>1, <4>2
    <3> QED BY <1>1, <3>1, <3>2
  <2> QED BY <1>1, <2>2, <2>5, <2>6
<1> HIDE DEF t
<1>5. Injective(t)
  <2> SUFFICES ASSUME NEW a \in 1..(Len(s) - 1), NEW b \in 1..(Len(s) - 1), t[a] = t[b]
               PROVE  a = b
    BY <1>4 DEF Injective
  <2>1. \A p, q \in 1..Len(s) : s[p] = s[q] => p = q
    BY <1>1 DEF List, Injective
  <2> QED BY <1>1, <1>4, <2>1
<1>6. ToSet(t) = ToSet(s) \ {s[i]}
  <2>1. \A p, q \in 1..Len(s) : s[p] = s[q] => p = q
    BY <1>1 DEF List, Injective
  <2>2. ASSUME NEW k \in 1..(Len(s) - 1)
        PROVE  t[k] \in ToSet(s) \ {s[i]}
    <3>1. PICK m \in 1..Len(s) : m # i /\ t[k] = s[m]
      <4>1. CASE k < i
        BY <1>1, <1>4, <4>1
      <4>2. CASE k >= i
        BY <1>1, <1>4, <4>2
      <4> QED BY <1>1, <4>1, <4>2
    <3> QED BY <1>1, <2>1, <3>1 DEF ToSet
  <2>3. ASSUME NEW k \in 1..Len(s), k # i
        PROVE  s[k] \in ToSet(t)
    <3>1. CASE k < i
      <4>1. k \in 1..(Len(s) - 1) /\ t[k] = s[k]
        BY <1>1, <1>4, <3>1
      <4> QED BY <1>4, <4>1 DEF ToSet
    <3>2. CASE k > i
      <4>1. k - 1 \in 1..(Len(s) - 1) /\ t[k - 1] = s[k]
        BY <1>1, <1>4, <3>2
      <4> QED BY <1>4, <4>1 DEF ToSet
    <3> QED BY <1>1, <2>3, <3>1, <3>2
  <2> QED BY <1>1, <1>4, <2>2, <2>3 DEF ToSet
<1>7. s[i] \in Jobs /\ s[i] \in ToSet(s)
  BY <1>1 DEF ToSet
<1> QED BY <1>4, <1>5, <1>6, <1>7 DEF List, t

\* The loops that look for a job and remove it.
LEMMA WithoutList ==
    ASSUME NEW s, List(s), NEW j \in Jobs
    PROVE  /\ List(Without(s, j)) /\ ToSet(Without(s, j)) = ToSet(s) \ {j}
           /\ Len(Without(s, j)) =< Len(s) /\ Len(Without(s, j)) \in Nat
           /\ j \notin ToSet(s) => Without(s, j) = s
<1>1. Len(s) \in Nat /\ DOMAIN s = 1..Len(s)
  BY DEF List
<1>2. CASE j \in ToSet(s)
  <2> DEFINE i == CHOOSE k \in DOMAIN s : s[k] = j
  <2>1. i \in 1..Len(s) /\ s[i] = j
    BY <1>1, <1>2 DEF ToSet
  <2>2. Without(s, j) = RemoveAt(s, i)
    BY <1>2 DEF Without
  <2> HIDE DEF i
  <2>3. /\ List(RemoveAt(s, i)) /\ ToSet(RemoveAt(s, i)) = ToSet(s) \ {s[i]}
        /\ Len(RemoveAt(s, i)) = Len(s) - 1
    BY <2>1, RemoveAtList
  <2> QED BY <1>1, <1>2, <2>1, <2>2, <2>3
<1>3. CASE j \notin ToSet(s)
  BY <1>1, <1>3 DEF Without
<1> QED BY <1>2, <1>3

\* Taking the first entry.
LEMMA TailList ==
    ASSUME NEW s, List(s), s # <<>>
    PROVE  /\ List(Tail(s)) /\ ToSet(Tail(s)) = ToSet(s) \ {Head(s)}
           /\ Len(Tail(s)) =< Len(s) /\ Len(Tail(s)) \in Nat
           /\ Head(s) \in Jobs /\ Head(s) \in ToSet(s)
<1>1. s \in Seq(Jobs) /\ Len(s) \in Nat /\ DOMAIN s = 1..Len(s) /\ Len(s) > 0
  BY DEF List
<1>2. Head(s) = s[1] /\ 1 \in 1..Len(s)
  BY <1>1
<1> DEFINE t == Tail(s)
<1>3. /\ t \in Seq(Jobs) /\ Len(t) = Len(s) - 1 /\ DOMAIN t = 1..(Len(s) - 1)
      /\ \A k \in 1..(Len(s) - 1) : t[k] = s[k + 1]
  BY <1>1
<1> HIDE DEF t
<1>4. \A p, q \in 1..Len(s) : s[p] = s[q] => p = q
  BY <1>1 DEF List, Injective
<1>5. Injective(t)
  BY <1>1, <1>3, <1>4 DEF Injective
<1>6. ASSUME NEW k \in 1..Len(s), k # 1
      PROVE  s[k] \in ToSet(t)
  <2>1. k - 1 \in 1..(Len(s) - 1) /\ t[k - 1] = s[k]
    BY <1>1, <1>3, <1>6
  <2> QED BY <1>3, <2>1 DEF ToSet
<1>7. ASSUME NEW k \in 1..(Len(s) - 1)
      PROVE  t[k] \in ToSet(s) \ {s[1]}
  BY <1>1, <1>3, <1>4 DEF ToSet
<1>8. ToSet(t) = ToSet(s) \ {s[1]}
  BY <1>1, <1>3, <1>6, <1>7 DEF ToSet
<1>9. Head(s) \in Jobs /\ Head(s) \in ToSet(s)
  BY <1>1, <1>2 DEF ToSet
<1>10. List(t) /\ Len(t) =< Len(s) /\ Len(t) \in Nat
  BY <1>1, <1>3, <1>5 DEF List
<1> QED BY <1>2, <1>8, <1>9, <1>10 DEF t

----------------------------------------------------------------------------
(* The inductive invariant: what holds of each job, and of the phases.     *)

\* The lists, cURL and a redirect in progress agree on where the job is.
Placed(j) ==
    /\ ~(Scheduled(j) /\ Running(j))
    /\ jobs[j].redirecting => ~Scheduled(j) /\ ~Running(j)
    /\ Running(j) => jobs[j].handle /\ (j \in multi \/ jobs[j].stray)
    /\ j \in multi => jobs[j].handle /\
         (Running(j) \/ jobs[j].redirecting \/ Returns(j, "abortRunning"))
    /\ j \in done => j \in multi

\* The manager's reference.
Held(j) == Scheduled(j) \/ Running(j) \/ j \in multi \/ call.job = j => jobs[j].refs = 1

\* The job whose client is called: taken off its list, or still running.
Called(j) ==
    call.job = j =>
      /\ ~Scheduled(j) /\ ~jobs[j].redirecting
      /\ call.at \in TakenOff => ~Running(j)
      /\ call.at \in TakenOff \ {"abortRunning"} => j \notin multi
      /\ call.at \notin TakenOff => Running(j) /\ j \in multi \ done
      /\ call.at = "redirect" => jobs[j].redirects =< MaxRedirects

\* A job that may still be sent has a loader that wants it, and a credential
\* is pending only while the client answers a challenge.
Wanted(j) ==
    /\ jobs[j].loader = "none" => jobs[j].refs = 0 /\ ~jobs[j].redirecting
    /\ Scheduled(j) => jobs[j].loader = "holding"
    /\ (Running(j) \/ jobs[j].redirecting) /\ ~jobs[j].cancelled
         => jobs[j].loader = "holding" \/ Returns(j, "result")
    /\ ~jobs[j].ssl
    /\ jobs[j].auth => jobs[j].cancelled \/ Returns(j, "challenge")

JobOK(j) == Placed(j) /\ Held(j) /\ Called(j) /\ Wanted(j)

StartPlaces   == {"prohibited", "data", "nomemory", "refused"}
MessagePlaces == {"challenge", "page", "local", "result"}

\* A client is called from the phase its place belongs to.
CallMatchesPhase ==
    /\ call.at = "none" <=> call.job = NoJob
    /\ call.entered => call.at # "none"
    /\ call.at \in StartPlaces => pc \in {"start1", "start2"}
    /\ call.at \in {"receive", "redirect"} => pc = "perform"
    /\ call.at \in MessagePlaces => pc = "messages"
    /\ call.at \in {"abortScheduled", "abortRunning"} => pc = call.at

\* Every message is read before _downloadTimerCallback() returns.
DoneIsRead == pc \notin {"perform", "messages"} => done = {}

CoreInv == /\ TypeOK
           /\ Injective(scheduled) /\ Injective(running)
           /\ CallMatchesPhase /\ DoneIsRead /\ SingleConnection
           /\ \A j \in Jobs : JobOK(j)

Calls == [job : Jobs \cup {NoJob}, at : Places, entered : BOOLEAN]

\* The parts of TypeOK that no proof about lists or jobs looks into.
Scalars == /\ max \in Limits
           /\ single \in BOOLEAN /\ cookies \in BOOLEAN /\ shared \in BOOLEAN
           /\ timer \in BOOLEAN /\ rearm \in BOOLEAN
           /\ num \in Nat /\ pc \in Phases /\ call \in Calls

\* A step that concerns job j alone keeps the invariant if what it makes of
\* that job is right.
LEMMA JobStep ==
    ASSUME CoreInv, NEW j \in Jobs, NEW r \in Job, jobs' = [jobs EXCEPT ![j] = r],
           List(scheduled'), ToSet(scheduled') \ {j} = ToSet(scheduled) \ {j},
           List(running'), ToSet(running') \ {j} = ToSet(running) \ {j},
           multi' \subseteq Jobs, multi' \ {j} = multi \ {j},
           done' \subseteq Jobs, done' \ {j} = done \ {j},
           call' = call \/ (call.job \in {j, NoJob} /\ call'.job \in {j, NoJob}),
           Scalars', CallMatchesPhase', DoneIsRead', SingleConnection', JobOK(j)'
    PROVE  CoreInv'
<1>1. TypeOK'
  BY DEF CoreInv, TypeOK, Scalars, Calls, List
<1>2. Injective(scheduled)' /\ Injective(running)'
  BY DEF List
<1>3. ASSUME NEW k \in Jobs, k # j
      PROVE  JobOK(k)'
  <2>1. jobs'[k] = jobs[k]
    BY <1>3 DEF CoreInv, TypeOK
  <2>2. (Scheduled(k)' <=> Scheduled(k)) /\ (Running(k)' <=> Running(k))
        /\ (k \in multi' <=> k \in multi) /\ (k \in done' <=> k \in done)
    BY <1>3 DEF Scheduled, Running
  <2>3. call' = call \/ (call.job # k /\ call'.job # k)
    BY <1>3, NoJobAssumption
  <2>4. JobOK(k)
    BY DEF CoreInv
  <2>5. (Returns(k, "abortRunning")' <=> Returns(k, "abortRunning"))
        /\ (Returns(k, "result")' <=> Returns(k, "result"))
        /\ (Returns(k, "challenge")' <=> Returns(k, "challenge"))
    BY <2>3 DEF Returns
  <2>6. Placed(k)'
    BY <2>1, <2>2, <2>4, <2>5 DEF JobOK, Placed
  <2>7. Held(k)'
    BY <2>1, <2>2, <2>3, <2>4 DEF JobOK, Held
  <2>8. Called(k)'
    BY <2>1, <2>2, <2>3, <2>4 DEF JobOK, Called
  <2>9. Wanted(k)'
    BY <2>1, <2>2, <2>4, <2>5 DEF JobOK, Wanted
  <2> QED BY <2>6, <2>7, <2>8, <2>9 DEF JobOK
<1> QED BY <1>1, <1>2, <1>3 DEF CoreInv

\* The invariant names the parts of the state by what proofs need of them.
LEMMA CoreFacts ==
    ASSUME CoreInv
    PROVE  /\ List(scheduled) /\ List(running) /\ Scalars
           /\ multi \subseteq Jobs /\ done \subseteq Jobs
           /\ \A j \in Jobs : jobs[j] \in Job /\ JobOK(j)
           /\ CallMatchesPhase /\ DoneIsRead /\ SingleConnection
BY DEF CoreInv, TypeOK, List, Scalars, Calls

\* The record of job j after a step that writes it.
LEMMA Written ==
    ASSUME CoreInv, NEW j \in Jobs, NEW r, jobs' = [jobs EXCEPT ![j] = r]
    PROVE  jobs'[j] = r
BY DEF CoreInv, TypeOK

----------------------------------------------------------------------------
(* The calls of clients and of the embedder. *)

\* A permission answer changes at most the permission and the cancel mark.
LEMMA PermittedFields ==
    ASSUME NEW r \in Job, NEW a \in Answers
    PROVE  LET q == CanPermitRequest(r, a)
           IN  /\ q \in Job
               /\ q.loader = r.loader /\ q.refs = r.refs /\ q.handle = r.handle
               /\ q.redirecting = r.redirecting /\ q.auth = r.auth /\ q.ssl = r.ssl
               /\ r.cancelled => q.cancelled
<1> DEFINE allow == [r EXCEPT !.permit = "PERMIT"]
           later == [r EXCEPT !.permit = "ASKING"]
           deny  == [r EXCEPT !.permit = "CANCEL", !.cancelled = TRUE]
           Like(q) == /\ q \in Job
                      /\ q.loader = r.loader /\ q.refs = r.refs /\ q.handle = r.handle
                      /\ q.redirecting = r.redirecting /\ q.auth = r.auth /\ q.ssl = r.ssl
                      /\ r.cancelled => q.cancelled
<1>1. Like(r)
  OBVIOUS
<1>2. Like(allow)
  BY DEF Job, Permits
<1>3. Like(later)
  BY DEF Job, Permits
<1>4. Like(deny)
  BY DEF Job, Permits
<1>5. CanPermitRequest(r, a) \in {r, allow, later, deny}
  <2> HIDE DEF allow, later, deny
  <2> QED BY DEF CanPermitRequest, Answers, allow, later, deny
<1> HIDE DEF allow, later, deny
<1> QED BY <1>1, <1>2, <1>3, <1>4, <1>5

\* add() schedules a job that no one else knows of yet.
LEMMA AddKeeps ==
    ASSUME CoreInv, NEW j \in Jobs, Add(j)
    PROVE  CoreInv'
<1>1. jobs[j] \in Job /\ jobs[j].loader = "none" /\ JobOK(j)
  BY CoreFacts DEF Add
<1>2. jobs[j].refs = 0 /\ ~jobs[j].redirecting
  BY <1>1 DEF JobOK, Wanted
<1>3. ~Scheduled(j) /\ ~Running(j) /\ j \notin multi /\ j \notin done /\ call.job # j
  BY <1>1, <1>2 DEF JobOK, Held, Placed
<1> DEFINE n == [jobs[j] EXCEPT !.loader = "holding", !.client = TRUE, !.refs = @ + 1]
           p == IF j \in DataJobs THEN [n EXCEPT !.permit = "PERMIT"] ELSE n
<1>4. /\ p \in Job /\ p.loader = "holding" /\ p.refs = 1 /\ ~p.redirecting
      /\ p.auth = jobs[j].auth /\ p.ssl = jobs[j].ssl /\ p.cancelled = jobs[j].cancelled
  <2>1. /\ n \in Job /\ n.loader = "holding" /\ n.refs = 1 /\ ~n.redirecting
        /\ n.auth = jobs[j].auth /\ n.ssl = jobs[j].ssl /\ n.cancelled = jobs[j].cancelled
    <3>1. jobs[j].refs + 1 = 1
      BY <1>2
    <3> QED BY <1>1, <1>2, <3>1 DEF Job
  <2> HIDE DEF n
  <2>2. CASE j \in DataJobs
    BY <2>1, <2>2 DEF Job, Permits
  <2>3. CASE j \notin DataJobs
    BY <2>1, <2>3
  <2> QED BY <2>2, <2>3
<1>5. PICK a \in Answers : AppendScheduledJob(j, n, a)
  BY DEF Add
<1> DEFINE r == CanPermitRequest(p, a)
<1>6. jobs' = [jobs EXCEPT ![j] = r] /\ scheduled' = Append(scheduled, j)
  BY <1>5 DEF AppendScheduledJob, SetJob
<1> HIDE DEF p, n
<1>7. r \in Job /\ r.loader = "holding" /\ r.refs = 1 /\ ~r.redirecting /\ r.auth = jobs[j].auth
      /\ r.ssl = jobs[j].ssl /\ (jobs[j].cancelled => r.cancelled)
  BY <1>4, PermittedFields
<1> HIDE DEF r
<1>8. List(scheduled') /\ ToSet(scheduled') = ToSet(scheduled) \cup {j}
  BY <1>3, <1>6, AppendList, CoreFacts DEF Scheduled
<1>9. /\ UNCHANGED <<shared, running, multi, done, max, single, cookies, rearm, num, pc, call>>
      /\ timer' = TRUE
  BY DEF Add
<1>10. jobs'[j] = r
  BY <1>6, Written
<1>11. JobOK(j)'
  BY <1>1, <1>3, <1>7, <1>8, <1>9, <1>10
  DEF JobOK, Placed, Held, Called, Wanted, Scheduled, Running, Returns
<1>12. Scalars' /\ CallMatchesPhase' /\ DoneIsRead' /\ SingleConnection'
  BY <1>9, CoreFacts DEF Scalars, CallMatchesPhase, DoneIsRead, SingleConnection
<1> QED BY <1>6, <1>7, <1>8, <1>9, <1>11, <1>12, JobStep, CoreFacts

\* A loader's cancel() drops the reference exactly if the job was scheduled.
LEMMA CancelKeeps ==
    ASSUME CoreInv, NEW j \in Jobs, Cancel(j)
    PROVE  CoreInv'
<1>1. /\ jobs[j] \in Job /\ JobOK(j) /\ Scalars /\ CallMatchesPhase
      /\ jobs[j].loader = "holding"
  BY CoreFacts DEF Cancel
<1> DEFINE r == [jobs[j] EXCEPT !.refs = IF Scheduled(j) THEN 0 ELSE jobs[j].refs, !.cancelled = TRUE, !.client = FALSE, !.loader = "gone"]
<1>2. jobs' = [jobs EXCEPT ![j] = r]
  BY DEF Cancel, SetJob
<1>3. r \in Job /\ r.redirects = jobs[j].redirects
      /\ r.refs = (IF Scheduled(j) THEN 0 ELSE jobs[j].refs) /\ r.handle = jobs[j].handle
      /\ r.redirecting = jobs[j].redirecting /\ r.auth = jobs[j].auth /\ r.ssl = jobs[j].ssl
      /\ r.cancelled /\ r.loader = "gone" /\ r.stray = jobs[j].stray
  BY <1>1 DEF Job
<1> HIDE DEF r
<1>4. /\ List(scheduled') /\ ToSet(scheduled') = ToSet(scheduled) \ {j}
      /\ Len(scheduled') =< Len(scheduled) /\ Len(scheduled') \in Nat
  BY <1>1, WithoutList, CoreFacts DEF Cancel
<1>5. /\ List(running') /\ running' = running
  BY <1>1, CoreFacts DEF Cancel, JobOK, Placed, Called, Scheduled, Running
<1>6. /\ UNCHANGED <<multi, done, call>>
      /\ UNCHANGED <<shared, max, single, cookies, rearm, num, pc>>
      /\ timer' \in BOOLEAN
  BY <1>1 DEF Cancel, Scalars, Job
<1>7. jobs'[j] = r
  BY <1>2, Written
<1>8. JobOK(j)'
  BY <1>1, <1>3, <1>4, <1>5, <1>6, <1>7, NoJobAssumption
  DEF JobOK, Placed, Held, Called, Wanted, Scheduled, Running, Returns, TakenOff, CallMatchesPhase
<1>9. Scalars' /\ CallMatchesPhase' /\ DoneIsRead'
  BY <1>1, <1>6, CoreFacts, NoJobAssumption
  DEF Scalars, Calls, Places, Phases, CallMatchesPhase, StartPlaces, MessagePlaces, DoneIsRead
<1>10. SingleConnection'
  BY <1>1, <1>5, <1>6, CoreFacts, EmptyList DEF SingleConnection, HasRoom, List
<1>11. /\ multi' \subseteq Jobs /\ multi' \ {j} = multi \ {j}
       /\ done' \subseteq Jobs /\ done' \ {j} = done \ {j}
       /\ call' = call \/ (call.job \in {j, NoJob} /\ call'.job \in {j, NoJob})
  BY <1>1, <1>6, CoreFacts DEF Returns, CallMatchesPhase
<1>12. /\ ToSet(scheduled') \ {j} = ToSet(scheduled) \ {j}
       /\ ToSet(running') \ {j} = ToSet(running) \ {j}
  BY <1>4, <1>5
<1> QED BY <1>2, <1>3, <1>4, <1>5, <1>8, <1>9, <1>10, <1>11, <1>12, JobStep

\* cancelByFrame() drops the reference of a scheduled job and marks a running one.
LEMMA CancelByFrameKeeps ==
    ASSUME CoreInv, NEW j \in Jobs, CancelByFrame(j)
    PROVE  CoreInv'
<1>1. /\ jobs[j] \in Job /\ JobOK(j) /\ Scalars /\ CallMatchesPhase
      /\ (Scheduled(j) \/ Running(j)) /\ jobs[j].refs = 1
  BY CoreFacts DEF CancelByFrame, JobOK, Held
<1> DEFINE r == IF Scheduled(j) THEN Deref(jobs[j]) ELSE [jobs[j] EXCEPT !.cancelled = TRUE]
<1>2. jobs' = [jobs EXCEPT ![j] = r]
  BY DEF CancelByFrame, SetJob
<1>3. r \in Job /\ r.redirects = jobs[j].redirects
      /\ r.refs = (IF Scheduled(j) THEN 0 ELSE 1) /\ r.handle = jobs[j].handle
      /\ r.redirecting = jobs[j].redirecting /\ r.auth = jobs[j].auth /\ r.ssl = jobs[j].ssl
      /\ r.cancelled = (~Scheduled(j) \/ jobs[j].cancelled) /\ r.loader = jobs[j].loader
      /\ r.stray = jobs[j].stray
  <2>1. CASE Scheduled(j)
    BY <1>1, <2>1 DEF Job, Deref
  <2>2. CASE ~Scheduled(j)
    BY <1>1, <2>2 DEF Job
  <2> QED BY <2>1, <2>2
<1> HIDE DEF r
<1>4. /\ List(scheduled') /\ ToSet(scheduled') = ToSet(scheduled) \ {j}
      /\ Len(scheduled') =< Len(scheduled) /\ Len(scheduled') \in Nat
  BY <1>1, WithoutList, CoreFacts DEF CancelByFrame, JobOK, Held
<1>5. /\ List(running') /\ running' = running
  BY <1>1, CoreFacts DEF CancelByFrame, JobOK, Placed, Called, Scheduled, Running
<1>6. /\ UNCHANGED <<multi, done, call>>
      /\ UNCHANGED <<shared, max, single, cookies, rearm, num, pc>>
      /\ timer' \in BOOLEAN
  BY <1>1 DEF CancelByFrame, Scalars, Job
<1>7. jobs'[j] = r
  BY <1>2, Written
<1>8. JobOK(j)'
  BY <1>1, <1>3, <1>4, <1>5, <1>6, <1>7, NoJobAssumption
  DEF JobOK, Placed, Held, Called, Wanted, Scheduled, Running, Returns, TakenOff, CallMatchesPhase
<1>9. Scalars' /\ CallMatchesPhase' /\ DoneIsRead'
  BY <1>1, <1>6, CoreFacts, NoJobAssumption
  DEF Scalars, Calls, Places, Phases, CallMatchesPhase, StartPlaces, MessagePlaces, DoneIsRead
<1>10. SingleConnection'
  BY <1>1, <1>5, <1>6, CoreFacts, EmptyList DEF SingleConnection, HasRoom, List
<1>11. /\ multi' \subseteq Jobs /\ multi' \ {j} = multi \ {j}
       /\ done' \subseteq Jobs /\ done' \ {j} = done \ {j}
       /\ call' = call \/ (call.job \in {j, NoJob} /\ call'.job \in {j, NoJob})
  BY <1>1, <1>6, CoreFacts DEF Returns, CallMatchesPhase
<1>12. /\ ToSet(scheduled') \ {j} = ToSet(scheduled) \ {j}
       /\ ToSet(running') \ {j} = ToSet(running) \ {j}
  BY <1>4, <1>5
<1> QED BY <1>2, <1>3, <1>4, <1>5, <1>8, <1>9, <1>10, <1>11, <1>12, JobStep

\* A credential is taken only while the client answers the challenge.
LEMMA ReceivedCredentialKeeps ==
    ASSUME CoreInv, NEW j \in Jobs, ReceivedCredential(j)
    PROVE  CoreInv'
<1>1. /\ jobs[j] \in Job /\ JobOK(j) /\ Scalars /\ CallMatchesPhase
      /\ call = Call(j, "challenge", TRUE) /\ call.job = j /\ call.at = "challenge"
  BY CoreFacts DEF ReceivedCredential, Call
<1> DEFINE r == [jobs[j] EXCEPT !.auth = TRUE]
<1>2. jobs' = [jobs EXCEPT ![j] = r]
  BY DEF ReceivedCredential, SetJob
<1>3. r \in Job /\ r.refs = jobs[j].refs /\ r.handle = jobs[j].handle /\ r.redirecting = jobs[j].redirecting
      /\ r.ssl = jobs[j].ssl /\ r.cancelled = jobs[j].cancelled /\ r.loader = jobs[j].loader
  BY <1>1 DEF Job
<1> HIDE DEF r
<1>4. /\ List(scheduled') /\ scheduled' = scheduled
  BY <1>1, CoreFacts DEF ReceivedCredential
<1>5. /\ List(running') /\ running' = running
  BY <1>1, CoreFacts DEF ReceivedCredential, JobOK, Placed, Called, Scheduled, Running
<1>6. /\ UNCHANGED <<multi, done, call, timer>>
      /\ UNCHANGED <<shared, max, single, cookies, rearm, num, pc>>
  BY <1>1 DEF ReceivedCredential
<1>7. jobs'[j] = r
  BY <1>2, Written
<1>8. JobOK(j)'
  BY <1>1, <1>3, <1>4, <1>5, <1>6, <1>7, NoJobAssumption
  DEF JobOK, Placed, Held, Called, Wanted, Scheduled, Running, Returns, TakenOff, CallMatchesPhase
<1>9. Scalars' /\ CallMatchesPhase' /\ DoneIsRead'
  BY <1>1, <1>6, CoreFacts, NoJobAssumption
  DEF Scalars, Calls, Places, Phases, CallMatchesPhase, StartPlaces, MessagePlaces, DoneIsRead
<1>10. SingleConnection'
  BY <1>1, <1>5, <1>6, CoreFacts, EmptyList DEF SingleConnection, HasRoom, List
<1>11. /\ multi' \subseteq Jobs /\ multi' \ {j} = multi \ {j}
       /\ done' \subseteq Jobs /\ done' \ {j} = done \ {j}
       /\ call' = call \/ (call.job \in {j, NoJob} /\ call'.job \in {j, NoJob})
  BY <1>1, <1>6, CoreFacts DEF Returns, CallMatchesPhase
<1>12. /\ ToSet(scheduled') \ {j} = ToSet(scheduled) \ {j}
       /\ ToSet(running') \ {j} = ToSet(running) \ {j}
  BY <1>4, <1>5
<1> QED BY <1>2, <1>3, <1>4, <1>5, <1>8, <1>9, <1>10, <1>11, <1>12, JobStep

\* A late permission answer changes only the permission and the cancel mark.
LEMMA PermitRequestKeeps ==
    ASSUME CoreInv, NEW j \in Jobs, PermitRequest(j)
    PROVE  CoreInv'
<1>1. jobs[j] \in Job /\ JobOK(j) /\ Scalars /\ Scheduled(j) /\ ~jobs[j].cancelled
  BY CoreFacts DEF PermitRequest
<1> DEFINE p == [jobs[j] EXCEPT !.permit = "PERMIT"]
           c == [jobs[j] EXCEPT !.permit = "CANCEL", !.cancelled = TRUE]
           Like(q) == /\ q \in Job
                      /\ q.refs = jobs[j].refs /\ q.handle = jobs[j].handle
                      /\ q.redirecting = jobs[j].redirecting /\ q.loader = jobs[j].loader
                      /\ q.auth = jobs[j].auth /\ q.ssl = jobs[j].ssl
<1>2. Like(p)
  BY <1>1 DEF Job, Permits
<1>3. Like(c)
  BY <1>1 DEF Job, Permits
<1>4. jobs' = [jobs EXCEPT ![j] = p] \/ jobs' = [jobs EXCEPT ![j] = c]
  BY DEF PermitRequest, SetJob
<1> HIDE DEF p, c
<1>5. PICK r : Like(r) /\ jobs' = [jobs EXCEPT ![j] = r]
  BY <1>2, <1>3, <1>4
<1>6. UNCHANGED <<shared, scheduled, running, multi, done, max, single, cookies, rearm, num, pc, call>>
      /\ timer' = TRUE
  BY DEF PermitRequest
<1>7. jobs'[j] = r
  BY <1>5, Written
<1>8. JobOK(j)'
  BY <1>1, <1>5, <1>6, <1>7
  DEF JobOK, Placed, Held, Called, Wanted, Scheduled, Running, Returns
<1>9. Scalars' /\ CallMatchesPhase' /\ DoneIsRead' /\ SingleConnection'
  BY <1>6, CoreFacts DEF Scalars, CallMatchesPhase, DoneIsRead, SingleConnection
<1> QED BY <1>5, <1>6, <1>8, <1>9, JobStep, CoreFacts

----------------------------------------------------------------------------
(* startScheduledJobs() and startJob(). *)

\* Telling a client the end changes nothing that the manager looks at.
LEMMA ToldFields ==
    ASSUME NEW q \in Job
    PROVE  LET r == IF q.client THEN Told(q) ELSE q
           IN  /\ r \in Job /\ r.refs = q.refs /\ r.handle = q.handle
               /\ r.redirecting = q.redirecting /\ r.auth = q.auth /\ r.ssl = q.ssl
               /\ r.cancelled = q.cancelled /\ r.loader \in {q.loader, "gone"}
<1>1. /\ Told(q) \in Job /\ Told(q).refs = q.refs /\ Told(q).handle = q.handle
      /\ Told(q).redirecting = q.redirecting /\ Told(q).auth = q.auth /\ Told(q).ssl = q.ssl
      /\ Told(q).cancelled = q.cancelled /\ Told(q).loader = "gone"
  BY DEF Told, Job
<1>2. CASE q.client
  BY <1>1, <1>2
<1>3. CASE ~q.client
  BY <1>3
<1> QED BY <1>2, <1>3

\* shiftScheduledJob(): the first job leaves its list and its client is called.
LEMMA ShiftKeeps ==
    ASSUME CoreInv, NEW j \in Jobs, Shifts(j), scheduled' = Tail(scheduled),
           NEW r \in Job, jobs' = [jobs EXCEPT ![j] = r],
           r.refs = jobs[j].refs, r.redirecting = jobs[j].redirecting,
           r.auth = jobs[j].auth, r.ssl = jobs[j].ssl, jobs[j].cancelled => r.cancelled,
           r.loader \in {jobs[j].loader, "gone"},
           NEW p \in StartPlaces, NEW b \in BOOLEAN, call' = Call(j, p, b),
           UNCHANGED <<shared, running, multi, done, max, single, cookies, num, pc>>,
           timer' \in BOOLEAN, rearm' \in BOOLEAN
    PROVE  CoreInv'
<1>1. /\ jobs[j] \in Job /\ JobOK(j) /\ Scalars /\ CallMatchesPhase
      /\ scheduled # <<>> /\ j = Head(scheduled) /\ call.at = "none" /\ call.job = NoJob
      /\ pc \in {"start1", "start2"}
  BY CoreFacts DEF Shifts, Starting, Quiet, CallMatchesPhase
<1>2. Scheduled(j)
  BY <1>1, TailList, CoreFacts DEF Scheduled
<1>3. List(scheduled') /\ ToSet(scheduled') = ToSet(scheduled) \ {j}
  BY <1>1, TailList, CoreFacts
<1>4. call' \in Calls /\ call'.job = j /\ call'.at = p
  BY DEF Calls, Call, StartPlaces, Places
<1>5. jobs'[j] = r
  BY Written
<1>6. JobOK(j)'
  BY <1>1, <1>2, <1>3, <1>4, <1>5, NoJobAssumption
  DEF JobOK, Placed, Held, Called, Wanted, Scheduled, Running, Returns, TakenOff, StartPlaces
<1>7. Scalars' /\ CallMatchesPhase' /\ DoneIsRead' /\ SingleConnection'
  BY <1>1, <1>4, CoreFacts, NoJobAssumption
  DEF Scalars, CallMatchesPhase, StartPlaces, MessagePlaces, DoneIsRead, SingleConnection
<1> QED BY <1>1, <1>3, <1>4, <1>6, <1>7, CoreFacts, JobStep

\* A job that was cancelled or refused is taken off its list.
LEMMA StartProhibitedKeeps ==
    ASSUME CoreInv, NEW j \in Jobs, StartProhibited(j)
    PROVE  CoreInv'
<1>1. /\ Shifts(j) /\ scheduled' = Tail(scheduled) /\ jobs[j] \in Job /\ Scalars
      /\ UNCHANGED <<shared, running, multi, done, max, single, cookies, timer, rearm, num, pc>>
  BY CoreFacts DEF StartProhibited
<1>2. "prohibited" \in StartPlaces /\ timer' \in BOOLEAN /\ rearm' \in BOOLEAN
      /\ jobs[j].client \in BOOLEAN
  BY <1>1 DEF StartPlaces, Scalars, Job
<1>3. CASE jobs[j].permit = "CANCEL"
  <2> DEFINE r == IF jobs[j].client THEN Told(jobs[j]) ELSE jobs[j]
  <2>1. jobs' = [jobs EXCEPT ![j] = r] /\ call' = Call(j, "prohibited", jobs[j].client)
    BY <1>3 DEF StartProhibited, TellEnd, SetJob
  <2>2. /\ r \in Job /\ r.refs = jobs[j].refs /\ r.redirecting = jobs[j].redirecting
        /\ r.auth = jobs[j].auth /\ r.ssl = jobs[j].ssl /\ r.cancelled = jobs[j].cancelled
        /\ r.loader \in {jobs[j].loader, "gone"}
    BY <1>1, ToldFields
  <2> HIDE DEF r
  <2> QED BY <1>1, <1>2, <2>1, <2>2, ShiftKeeps
<1>4. CASE jobs[j].permit # "CANCEL"
  <2>1. jobs' = [jobs EXCEPT ![j] = jobs[j]] /\ call' = Call(j, "prohibited", FALSE)
    BY <1>4 DEF StartProhibited, CoreInv, TypeOK
  <2> QED BY <1>1, <1>2, <2>1, ShiftKeeps
<1> QED BY <1>3, <1>4

\* A data: URL is delivered by code that has taken the job off its list.
LEMMA StartDataKeeps ==
    ASSUME CoreInv, NEW j \in Jobs, StartData(j)
    PROVE  CoreInv'
<1> DEFINE r == IF jobs[j].client THEN Told(jobs[j]) ELSE jobs[j]
<1>1. /\ Shifts(j) /\ scheduled' = Tail(scheduled) /\ jobs[j] \in Job /\ Scalars
      /\ UNCHANGED <<shared, running, multi, done, max, single, cookies, timer, num, pc>> /\ rearm' = TRUE
      /\ jobs' = [jobs EXCEPT ![j] = r] /\ call' = Call(j, "data", jobs[j].client)
  BY CoreFacts DEF StartData, TellEnd, SetJob
<1>2. "data" \in StartPlaces /\ timer' \in BOOLEAN /\ jobs[j].client \in BOOLEAN
  BY <1>1 DEF StartPlaces, Scalars, Job
<1>3. /\ r \in Job /\ r.refs = jobs[j].refs /\ r.redirecting = jobs[j].redirecting
      /\ r.auth = jobs[j].auth /\ r.ssl = jobs[j].ssl /\ r.cancelled = jobs[j].cancelled
      /\ r.loader \in {jobs[j].loader, "gone"}
  BY <1>1, ToldFields
<1> HIDE DEF r
<1> QED BY <1>1, <1>2, <1>3, ShiftKeeps

\* The same for a job that gets no easy handle.
LEMMA StartNoMemoryKeeps ==
    ASSUME CoreInv, NEW j \in Jobs, StartNoMemory(j)
    PROVE  CoreInv'
<1> DEFINE r == IF jobs[j].client THEN Told(jobs[j]) ELSE jobs[j]
<1>1. /\ Shifts(j) /\ scheduled' = Tail(scheduled) /\ jobs[j] \in Job /\ Scalars
      /\ UNCHANGED <<shared, running, multi, done, max, single, cookies, timer, num, pc>> /\ rearm' = TRUE
      /\ jobs' = [jobs EXCEPT ![j] = r] /\ call' = Call(j, "nomemory", jobs[j].client)
  BY CoreFacts DEF StartNoMemory, TellEnd, SetJob
<1>2. "nomemory" \in StartPlaces /\ timer' \in BOOLEAN /\ jobs[j].client \in BOOLEAN
  BY <1>1 DEF StartPlaces, Scalars, Job
<1>3. /\ r \in Job /\ r.refs = jobs[j].refs /\ r.redirecting = jobs[j].redirecting
      /\ r.auth = jobs[j].auth /\ r.ssl = jobs[j].ssl /\ r.cancelled = jobs[j].cancelled
      /\ r.loader \in {jobs[j].loader, "gone"}
  BY <1>1, ToldFields
<1> HIDE DEF r
<1> QED BY <1>1, <1>2, <1>3, ShiftKeeps

\* The same for a job whose handle cURL does not take.
LEMMA StartRefusedKeeps ==
    ASSUME CoreInv, NEW j \in Jobs, StartRefused(j)
    PROVE  CoreInv'
<1> DEFINE q == [jobs[j] EXCEPT !.handle = TRUE, !.cancelled = TRUE]
           r == IF q.client THEN Told(q) ELSE q
<1>1. /\ Shifts(j) /\ scheduled' = Tail(scheduled) /\ jobs[j] \in Job /\ Scalars
      /\ UNCHANGED <<shared, running, multi, done, max, single, cookies, num, pc>>
      /\ rearm' = TRUE /\ timer' = TRUE
      /\ jobs' = [jobs EXCEPT ![j] = r] /\ call' = Call(j, "refused", q.client)
  BY CoreFacts DEF StartRefused, TellEnd, SetJob
<1>2. /\ q \in Job /\ q.refs = jobs[j].refs /\ q.redirecting = jobs[j].redirecting
      /\ q.auth = jobs[j].auth /\ q.ssl = jobs[j].ssl /\ q.cancelled
      /\ q.loader = jobs[j].loader /\ q.client \in BOOLEAN
  BY <1>1 DEF Job
<1> HIDE DEF q
<1>3. /\ r \in Job /\ r.refs = q.refs /\ r.redirecting = q.redirecting
      /\ r.auth = q.auth /\ r.ssl = q.ssl /\ r.cancelled = q.cancelled
      /\ r.loader \in {q.loader, "gone"}
  BY <1>2, ToldFields
<1>4. "refused" \in StartPlaces
  BY DEF StartPlaces
<1> HIDE DEF r
<1> QED BY <1>1, <1>2, <1>3, <1>4, ShiftKeeps

\* startJob() hands a job to cURL only where the lists have room.
LEMMA StartRunsKeeps ==
    ASSUME CoreInv, NEW j \in Jobs, StartRuns(j)
    PROVE  CoreInv'
<1> DEFINE r == [jobs[j] EXCEPT !.handle = TRUE, !.cancelled = FALSE]
<1>1. /\ scheduled # <<>> /\ j = Head(scheduled) /\ jobs[j] \in Job /\ JobOK(j) /\ HasRoom
      /\ call.at = "none" /\ call.job = NoJob /\ pc \in {"start1", "start2"} /\ ~jobs[j].cancelled
      /\ scheduled' = Tail(scheduled) /\ running' = Append(running, j) /\ multi' = multi \cup {j}
      /\ UNCHANGED <<shared, done, max, single, cookies, timer, num, pc, call>> /\ rearm' = TRUE
      /\ jobs' = [jobs EXCEPT ![j] = r]
  BY CoreFacts DEF StartRuns, Shifts, Starting, Quiet, CallMatchesPhase, SetJob
<1>2. /\ r \in Job /\ r.refs = jobs[j].refs /\ r.handle /\ r.redirecting = jobs[j].redirecting
      /\ r.auth = jobs[j].auth /\ r.ssl = jobs[j].ssl /\ ~r.cancelled /\ r.loader = jobs[j].loader
  BY <1>1 DEF Job
<1> HIDE DEF r
<1>3. Scheduled(j) /\ List(scheduled') /\ ToSet(scheduled') = ToSet(scheduled) \ {j}
  BY <1>1, TailList, CoreFacts DEF Scheduled
<1>4. /\ List(running') /\ ToSet(running') = ToSet(running) \cup {j}
      /\ Len(running') = Len(running) + 1
  BY <1>1, <1>3, AppendList, CoreFacts DEF JobOK, Placed, Running
<1>5. jobs'[j] = r
  BY <1>1, Written
<1>6. JobOK(j)'
  BY <1>1, <1>2, <1>3, <1>4, <1>5, NoJobAssumption
  DEF JobOK, Placed, Held, Called, Wanted, Scheduled, Running, Returns
<1>7. Scalars' /\ CallMatchesPhase' /\ DoneIsRead'
  BY <1>1, CoreFacts DEF Scalars, CallMatchesPhase, DoneIsRead
<1>8. SingleConnection'
  <2>1. single => Len(running) = 0
    BY <1>1, CoreFacts, EmptyList DEF HasRoom, List
  <2> QED BY <1>1, <1>4, <2>1 DEF SingleConnection
<1>9. multi' \subseteq Jobs /\ multi' \ {j} = multi \ {j}
      /\ ToSet(scheduled') \ {j} = ToSet(scheduled) \ {j}
      /\ ToSet(running') \ {j} = ToSet(running) \ {j}
  BY <1>1, <1>3, <1>4, CoreFacts
<1> QED BY <1>1, <1>2, <1>3, <1>4, <1>6, <1>7, <1>8, <1>9, CoreFacts, JobStep

\* A client call on behalf of a job that was taken off its list returns: the
\* job is then in no list and not in the multi handle.
LEMMA TakenOffReturns ==
    ASSUME CoreInv, NEW j \in Jobs, call.job = j, call.at \in TakenOff,
           NEW r \in Job, jobs' = [jobs EXCEPT ![j] = r],
           r.redirecting = jobs[j].redirecting, r.auth = jobs[j].auth, r.ssl = jobs[j].ssl,
           jobs[j].cancelled => r.cancelled, r.loader = jobs[j].loader,
           call' = NoCall, multi' = multi \ {j}, timer' \in BOOLEAN,
           UNCHANGED <<shared, scheduled, running, done, max, single, cookies, rearm, num, pc>>
    PROVE  CoreInv'
<1>1. jobs[j] \in Job /\ JobOK(j) /\ Scalars
  BY CoreFacts
<1>2. call' \in Calls /\ call'.job = NoJob /\ call'.at = "none" /\ ~call'.entered
  BY DEF Calls, NoCall, Places
<1>3. jobs'[j] = r
  BY Written
<1>4. j \notin done
  <2>1. CASE call.at = "abortRunning"
    BY <2>1, CoreFacts DEF CallMatchesPhase, DoneIsRead
  <2>2. CASE call.at # "abortRunning"
    BY <1>1, <2>2 DEF JobOK, Placed, Called
  <2> QED BY <2>1, <2>2
<1>5. JobOK(j)'
  BY <1>1, <1>2, <1>3, <1>4, NoJobAssumption
  DEF JobOK, Placed, Held, Called, Wanted, Scheduled, Running, Returns, TakenOff
<1>6. Scalars' /\ CallMatchesPhase' /\ DoneIsRead' /\ SingleConnection'
  BY <1>1, <1>2, CoreFacts, NoJobAssumption
  DEF Scalars, CallMatchesPhase, StartPlaces, MessagePlaces, DoneIsRead, SingleConnection
<1> QED BY <1>1, <1>2, <1>5, <1>6, CoreFacts, JobStep

\* The manager's reference, which there is, is dropped.
LEMMA DerefFields ==
    ASSUME NEW q \in Job, q.refs = 1
    PROVE  /\ Deref(q) \in Job /\ Deref(q).refs = 0 /\ Deref(q).handle = q.handle
           /\ Deref(q).redirecting = q.redirecting /\ Deref(q).auth = q.auth
           /\ Deref(q).ssl = q.ssl /\ Deref(q).cancelled = q.cancelled
           /\ Deref(q).loader = q.loader
<1>1. q.refs - 1 = 0
  OBVIOUS
<1> QED BY <1>1 DEF Deref, Job

\* A job that was not started is released.
LEMMA StartReturnsKeeps ==
    ASSUME CoreInv, NEW j \in Jobs, StartReturns(j)
    PROVE  CoreInv'
<1> DEFINE d == Deref(jobs[j])
           r == [d EXCEPT !.handle = FALSE, !.cancelled = @ \/ call.at = "data"]
<1>1. /\ call.job = j /\ call.at \in TakenOff \ {"abortRunning"} /\ call' = NoCall
      /\ UNCHANGED <<shared, scheduled, running, multi, done, max, single, cookies, timer, rearm, num, pc>>
      /\ jobs' = [jobs EXCEPT ![j] = r]
  BY DEF StartReturns, Returns, TakenOff, SetJob
<1>2. jobs[j] \in Job /\ jobs[j].refs = 1 /\ multi = multi \ {j} /\ Scalars
  BY <1>1, CoreFacts DEF JobOK, Held, Called
<1>3. /\ d \in Job /\ d.redirecting = jobs[j].redirecting /\ d.auth = jobs[j].auth
      /\ d.ssl = jobs[j].ssl /\ d.cancelled = jobs[j].cancelled /\ d.loader = jobs[j].loader
  BY <1>2, DerefFields
<1> HIDE DEF d
<1>4. /\ r \in Job /\ r.redirecting = d.redirecting /\ r.auth = d.auth /\ r.ssl = d.ssl
      /\ (d.cancelled => r.cancelled) /\ r.loader = d.loader
  BY <1>3 DEF Job
<1> HIDE DEF r
<1> QED BY <1>1, <1>2, <1>3, <1>4, TakenOffReturns DEF Scalars

\* A job without an easy handle keeps its reference, in no list.
LEMMA NoMemoryReturnsKeeps ==
    ASSUME CoreInv, NEW j \in Jobs, NoMemoryReturns(j)
    PROVE  CoreInv'
<1>1. /\ call.job = j /\ call.at \in TakenOff \ {"abortRunning"} /\ call' = NoCall
      /\ UNCHANGED <<shared, scheduled, running, multi, done, max, single, cookies, timer, rearm, num, pc>>
      /\ jobs' = [jobs EXCEPT ![j] = jobs[j]]
  BY DEF NoMemoryReturns, Returns, TakenOff, CoreInv, TypeOK
<1>2. jobs[j] \in Job /\ multi = multi \ {j} /\ Scalars
  BY <1>1, CoreFacts DEF JobOK, Called
<1> QED BY <1>1, <1>2, TakenOffReturns DEF Scalars

----------------------------------------------------------------------------
(* curl_multi_perform() and the reading of its messages. *)

\* The client of a running job is called; the job stays where it is.
LEMMA RunningCalled ==
    ASSUME CoreInv, NEW j \in Jobs, Running(j), j \in multi,
           call.job \in {j, NoJob}, ~Returns(j, "result"),
           call' \in Calls, call'.job = j,
           \/ call'.at \in {"receive", "redirect"} /\ pc = "perform"
           \/ call'.at \in MessagePlaces /\ pc = "messages",
           NEW r \in Job, jobs' = [jobs EXCEPT ![j] = r],
           r.refs = jobs[j].refs, r.handle = jobs[j].handle,
           r.redirecting = jobs[j].redirecting, r.ssl = jobs[j].ssl,
           r.cancelled = jobs[j].cancelled, r.auth => r.cancelled,
           r.loader = jobs[j].loader \/ call'.at = "result",
           r.loader # "none" \/ r.loader = jobs[j].loader,
           call'.at = "redirect" => r.redirects =< MaxRedirects,
           done' = done \ {j}, single' = single \/ single' = FALSE,
           UNCHANGED <<shared, scheduled, running, multi, max, cookies, timer, rearm, num, pc>>
    PROVE  CoreInv'
<1>1. jobs[j] \in Job /\ JobOK(j) /\ Scalars
  BY CoreFacts
<1>2. call'.at \notin TakenOff
  BY DEF MessagePlaces, TakenOff
<1>3. jobs'[j] = r
  BY Written
<1>4. JobOK(j)'
  BY <1>1, <1>2, <1>3, NoJobAssumption
  DEF JobOK, Placed, Held, Called, Wanted, Scheduled, Running, Returns, TakenOff
<1>5. CallMatchesPhase' /\ DoneIsRead'
  BY <1>1, <1>2, CoreFacts, NoJobAssumption
  DEF CallMatchesPhase, StartPlaces, MessagePlaces, DoneIsRead
<1>6. Scalars'
  BY <1>1, <1>2 DEF Scalars
<1>7. SingleConnection'
  <2>1. CASE single' = single
    BY <2>1, CoreFacts DEF SingleConnection
  <2>2. CASE single' = FALSE
    BY <2>2 DEF SingleConnection
  <2> QED BY <2>1, <2>2
<1> QED BY <1>1, <1>2, <1>4, <1>5, <1>6, <1>7, CoreFacts, JobStep

\* A job in the multi handle that is not in a redirect runs, unless its client
\* is being told.
LEMMA TransferRuns ==
    ASSUME CoreInv, NEW j \in Jobs, j \in multi, Quiet
    PROVE  /\ ~jobs[j].redirecting => Running(j)
           /\ call.job = NoJob /\ ~Scheduled(j) /\ jobs[j] \in Job /\ jobs[j].refs = 1
           /\ jobs[j].handle /\ ~jobs[j].ssl /\ (jobs[j].auth => jobs[j].cancelled)
           /\ ~jobs[j].cancelled => jobs[j].loader = "holding"
<1>1. jobs[j] \in Job /\ JobOK(j) /\ CallMatchesPhase
  BY CoreFacts
<1> QED BY <1>1, NoJobAssumption
  DEF JobOK, Placed, Held, Called, Wanted, Quiet, Returns, CallMatchesPhase

\* writeCallback() and headerCallback() call the client of a running job.
LEMMA ReceiveKeeps ==
    ASSUME CoreInv, NEW j \in Jobs, Receive(j) \/ ReceiveRedirect(j)
    PROVE  CoreInv'
<1>1. /\ pc = "perform" /\ Quiet /\ j \in multi \ done /\ ~jobs[j].cancelled /\ ~jobs[j].redirecting
      /\ UNCHANGED <<shared, scheduled, running, multi, max, cookies, timer, rearm, num, pc>>
      /\ UNCHANGED <<done, single>> /\ jobs' = [jobs EXCEPT ![j] = jobs[j]]
  BY DEF Receive, ReceiveRedirect, Performing, CoreInv, TypeOK
<1>2. Running(j) /\ call.job = NoJob /\ jobs[j] \in Job /\ (jobs[j].auth => jobs[j].cancelled)
  BY <1>1, TransferRuns
<1>3. /\ call'.job = j /\ call'.at \in {"receive", "redirect"} /\ call' \in Calls
      /\ call'.at = "redirect" => jobs[j].redirects =< MaxRedirects
  BY <1>2 DEF Receive, ReceiveRedirect, Call, Calls, Places, Job
<1>4. ~Returns(j, "result") /\ done' = done \ {j}
  BY <1>1 DEF Quiet, Returns
<1> QED BY <1>1, <1>2, <1>3, <1>4, RunningCalled

\* writeCallback() or headerCallback() returns to cURL: the job goes on, is
\* ended, or is taken off the running list for a redirect.
LEMMA PerformReturns ==
    ASSUME CoreInv, NEW j \in Jobs, call.job = j, call.at \in {"receive", "redirect"},
           NEW r \in Job, jobs' = [jobs EXCEPT ![j] = r],
           r.refs = jobs[j].refs, r.handle = jobs[j].handle, r.loader = jobs[j].loader,
           r.auth = jobs[j].auth, r.ssl = jobs[j].ssl, r.cancelled = jobs[j].cancelled,
           \/ r.redirecting = jobs[j].redirecting /\ running' = running
           \/ r.redirecting /\ running' = Without(running, j),
           done \subseteq done', done' \subseteq done \cup {j}, call' = NoCall,
           UNCHANGED <<shared, scheduled, multi, max, single, cookies, timer, rearm, num, pc>>
    PROVE  CoreInv'
<1>1. jobs[j] \in Job /\ JobOK(j) /\ Scalars /\ pc = "perform" /\ Running(j)
  BY CoreFacts DEF CallMatchesPhase, JobOK, Called, TakenOff
<1>2. call' \in Calls /\ call'.job = NoJob /\ call'.at = "none" /\ ~call'.entered
  BY DEF Calls, NoCall, Places
<1>3. /\ List(Without(running, j)) /\ ToSet(Without(running, j)) = ToSet(running) \ {j}
      /\ Len(Without(running, j)) =< Len(running) /\ Len(Without(running, j)) \in Nat
      /\ List(running) /\ Len(running) \in Nat
  BY CoreFacts, WithoutList, EmptyList DEF List
<1>4. /\ List(running') /\ ToSet(running') \ {j} = ToSet(running) \ {j}
      /\ Len(running') =< Len(running) /\ Len(running') \in Nat /\ Len(running) \in Nat
      /\ \/ r.redirecting = jobs[j].redirecting /\ running' = running
         \/ r.redirecting /\ j \notin ToSet(running')
  BY <1>3
<1>5. jobs'[j] = r
  BY Written
<1>6. JobOK(j)'
  BY <1>1, <1>2, <1>4, <1>5, NoJobAssumption
  DEF JobOK, Placed, Held, Called, Wanted, Scheduled, Running, Returns, TakenOff
<1>7. Scalars' /\ CallMatchesPhase' /\ DoneIsRead' /\ SingleConnection'
  BY <1>1, <1>2, <1>4, CoreFacts, NoJobAssumption
  DEF Scalars, CallMatchesPhase, StartPlaces, MessagePlaces, DoneIsRead, SingleConnection
<1> QED BY <1>1, <1>2, <1>4, <1>6, <1>7, CoreFacts, JobStep

\* A cancelled job is ended when its callback returns; another goes on.
LEMMA ReceiveReturnsKeeps ==
    ASSUME CoreInv, NEW j \in Jobs, ReceiveReturns(j)
    PROVE  CoreInv'
<1>1. /\ call.job = j /\ call.at = "receive" /\ jobs[j] \in Job
      /\ jobs' = [jobs EXCEPT ![j] = jobs[j]] /\ running' = running
      /\ UNCHANGED <<shared, scheduled, multi, max, single, cookies, timer, rearm, num, pc>>
      /\ done \subseteq done' /\ done' \subseteq done \cup {j} /\ call' = NoCall
  BY DEF ReceiveReturns, Returns, CoreInv, TypeOK
<1> QED BY <1>1, PerformReturns

\* didReceiveRedirect() counts the redirect, and unless there were too many
\* takes the job off the running list.
LEMMA RedirectReturnsKeeps ==
    ASSUME CoreInv, NEW j \in Jobs, RedirectReturns(j)
    PROVE  CoreInv'
<1>1. /\ call.job = j /\ call.at = "redirect" /\ jobs[j] \in Job
      /\ UNCHANGED <<shared, scheduled, multi, max, single, cookies, timer, rearm, num, pc>>
      /\ done \subseteq done' /\ done' \subseteq done \cup {j} /\ call' = NoCall
  BY CoreFacts DEF RedirectReturns, Returns
<1>2. jobs[j].redirects + 1 \in 0..(MaxRedirects + 1)
  <2>1. jobs[j].redirects \in Nat /\ jobs[j].redirects =< MaxRedirects
    BY <1>1, CoreFacts, BoundsAssumption DEF JobOK, Called, Job
  <2> QED BY <2>1, BoundsAssumption
<1> DEFINE q == [jobs[j] EXCEPT !.redirects = @ + 1]
           s == [q EXCEPT !.redirecting = TRUE]
<1>3. CASE jobs[j].cancelled
  <2>1. jobs' = [jobs EXCEPT ![j] = jobs[j]] /\ running' = running
    BY <1>3 DEF RedirectReturns, CoreInv, TypeOK
  <2> QED BY <1>1, <2>1, PerformReturns
<1>4. /\ q \in Job /\ q.refs = jobs[j].refs /\ q.handle = jobs[j].handle /\ q.loader = jobs[j].loader
      /\ q.auth = jobs[j].auth /\ q.ssl = jobs[j].ssl /\ q.cancelled = jobs[j].cancelled
      /\ q.redirecting = jobs[j].redirecting
  BY <1>1, <1>2 DEF Job
<1>5. CASE ~jobs[j].cancelled /\ q.redirects > MaxRedirects
  <2>1. jobs' = [jobs EXCEPT ![j] = q] /\ running' = running
    BY <1>5 DEF RedirectReturns, SetJob
  <2> HIDE DEF q
  <2> QED BY <1>1, <1>4, <2>1, PerformReturns
<1>6. CASE ~jobs[j].cancelled /\ ~(q.redirects > MaxRedirects)
  <2>1. jobs' = [jobs EXCEPT ![j] = s] /\ running' = Without(running, j)
    BY <1>6 DEF RedirectReturns, SetJob
  <2> HIDE DEF q
  <2>2. /\ s \in Job /\ s.refs = q.refs /\ s.handle = q.handle /\ s.loader = q.loader
        /\ s.auth = q.auth /\ s.ssl = q.ssl /\ s.cancelled = q.cancelled /\ s.redirecting
    BY <1>4 DEF Job
  <2> HIDE DEF s
  <2> QED BY <1>1, <1>4, <2>1, <2>2, PerformReturns
<1> QED BY <1>3, <1>5, <1>6

\* cURL ends a transfer of its own.
LEMMA CompleteKeeps ==
    ASSUME CoreInv, NEW j \in Jobs, Complete(j)
    PROVE  CoreInv'
<1>1. /\ jobs[j] \in Job /\ JobOK(j) /\ pc = "perform" /\ j \in multi /\ call.job = NoJob
      /\ done' = done \cup {j} /\ jobs' = [jobs EXCEPT ![j] = jobs[j]]
      /\ UNCHANGED <<shared, jobs, scheduled, running, multi, max, single, cookies, timer, rearm, num, pc, call>>
  BY CoreFacts DEF Complete, Performing, Quiet, CallMatchesPhase, CoreInv, TypeOK
<1>2. JobOK(j)'
  BY <1>1, NoJobAssumption DEF JobOK, Placed, Held, Called, Wanted, Scheduled, Running, Returns
<1>3. Scalars' /\ CallMatchesPhase' /\ DoneIsRead' /\ SingleConnection'
  BY <1>1, CoreFacts DEF Scalars, CallMatchesPhase, DoneIsRead, SingleConnection
<1>4. done' \subseteq Jobs /\ done' \ {j} = done \ {j}
  BY <1>1, CoreFacts
<1> QED BY <1>1, <1>2, <1>3, <1>4, CoreFacts, JobStep

\* doClearCookies() leaves the request pending or not.
LEMMA CookiesTyped ==
    ASSUME NEW b \in BOOLEAN, NEW js, NEW list, DoClearCookies(b, js, list)
    PROVE  cookies' \in BOOLEAN
<1>1. (b /\ (list # <<>> \/ ShareInUse(js))) \in BOOLEAN OBVIOUS
<1> QED BY <1>1 DEF DoClearCookies

\* removeFromCurl(), which no client call interrupts, moves a job whose message
\* was read from one proper place to another: it goes on running, is scheduled
\* again, or leaves the lists and the multi handle and loses its reference.
LEMMA RemoveFromCurlKeeps ==
    ASSUME CoreInv, NEW j \in Jobs, NEW q \in Job, RemoveFromCurl(j, q),
           pc = "messages", j \in multi, Running(j) \/ jobs[j].redirecting, j \in done \/ call.job = j,
           call.job \in {j, NoJob}, call' \in Calls, call'.job = NoJob, call'.at = "none", ~call'.entered,
           q.handle, q.redirecting = jobs[j].redirecting, q.cancelled = jobs[j].cancelled,
           q.loader = jobs[j].loader, q.refs = jobs[j].refs,
           q.ssl => ~q.auth /\ ~q.cancelled, q.auth /\ ~q.cancelled => ~q.redirecting,
           q.ssl => ~q.redirecting,
           ~q.cancelled /\ (q.auth \/ q.ssl \/ q.redirecting) => q.loader = "holding",
           done' = done \ {j}, UNCHANGED <<shared, max, single, rearm, num, pc>>
    PROVE  CoreInv'
<1>1. jobs[j] \in Job /\ JobOK(j) /\ Scalars /\ List(scheduled) /\ List(running)
      /\ Len(running) \in Nat
  BY CoreFacts, EmptyList DEF List
<1>2. ~Scheduled(j) /\ q.refs = 1 /\ (call.job = j => Running(j))
  <2>1. call.job = j => call.at \notin TakenOff
    BY CoreFacts, NoJobAssumption DEF CallMatchesPhase, TakenOff, StartPlaces, MessagePlaces
  <2> QED BY <1>1, <2>1 DEF JobOK, Placed, Held, Called
<1>3. CallMatchesPhase' /\ DoneIsRead'
  BY CoreFacts, NoJobAssumption
  DEF CallMatchesPhase, StartPlaces, MessagePlaces, DoneIsRead
<1>4. done' \subseteq Jobs /\ done' \ {j} = done \ {j} /\ multi \ {j} \subseteq Jobs
  BY CoreFacts
<1>5. ASSUME NEW a \in Job, AddAgain(j, a),
             a.refs = q.refs, a.handle, a.redirecting = q.redirecting, a.loader = q.loader,
             q.loader = "holding", ~q.redirecting, ~a.auth, ~a.ssl
      PROVE  CoreInv'
  <2>1. PICK r \in Job :
          /\ jobs' = [jobs EXCEPT ![j] = r]
          /\ r.refs = q.refs /\ r.handle /\ r.redirecting = q.redirecting /\ r.loader = q.loader
          /\ ~r.auth /\ ~r.ssl
          /\ multi' = multi \/ (multi' = multi \ {j} /\ r.stray)
    <3>1. CASE SetJob(j, a) /\ UNCHANGED multi
      BY <1>5, <3>1 DEF SetJob
    <3>2. CASE SetJob(j, [a EXCEPT !.stray = TRUE]) /\ multi' = multi \ {j}
      <4> DEFINE r == [a EXCEPT !.stray = TRUE]
      <4>1. /\ r \in Job /\ r.refs = a.refs /\ r.handle = a.handle /\ r.redirecting = a.redirecting
            /\ r.loader = a.loader /\ r.auth = a.auth /\ r.ssl = a.ssl /\ r.stray
        BY DEF Job
      <4>2. jobs' = [jobs EXCEPT ![j] = r]
        BY <3>2 DEF SetJob
      <4> HIDE DEF r
      <4> QED BY <1>5, <3>2, <4>1, <4>2
    <3> QED BY <1>5, <3>1, <3>2 DEF AddAgain
  <2>2. UNCHANGED <<scheduled, running, cookies>> /\ timer' = TRUE
    BY <1>5 DEF AddAgain
  <2>3. jobs'[j] = r
    BY <2>1, Written
  <2>4. Running(j) /\ multi' \subseteq Jobs /\ multi' \ {j} = multi \ {j}
    BY <1>4, <1>5, <2>1, CoreFacts
  <2>5. JobOK(j)'
    BY <1>1, <1>2, <1>5, <2>1, <2>2, <2>3, <2>4, NoJobAssumption
    DEF JobOK, Placed, Held, Called, Wanted, Scheduled, Running, Returns
  <2>6. Scalars' /\ SingleConnection'
    BY <1>1, <2>2, CoreFacts DEF Scalars, SingleConnection
  <2> QED BY <1>1, <1>3, <1>4, <2>1, <2>2, <2>4, <2>5, <2>6, CoreFacts, JobStep
<1>6. CASE ~q.cancelled /\ q.auth /\ AddAgain(j, [q EXCEPT !.auth = FALSE])
  <2> DEFINE r == [q EXCEPT !.auth = FALSE]
  <2>1. /\ r \in Job /\ r.refs = q.refs /\ r.handle = q.handle /\ r.redirecting = q.redirecting
        /\ r.loader = q.loader /\ ~r.auth /\ r.ssl = q.ssl
    BY DEF Job
  <2>2. AddAgain(j, r) /\ ~q.ssl
    BY <1>6
  <2> HIDE DEF r
  <2> QED BY <1>5, <1>6, <2>1, <2>2
<1>7. CASE /\ ~q.cancelled /\ q.ssl
           /\ AddAgain(j, [q EXCEPT !.auth = FALSE, !.ssl = FALSE, !.permit = "PERMIT"])
  <2> DEFINE r == [q EXCEPT !.auth = FALSE, !.ssl = FALSE, !.permit = "PERMIT"]
  <2>1. /\ r \in Job /\ r.refs = q.refs /\ r.handle = q.handle /\ r.redirecting = q.redirecting
        /\ r.loader = q.loader /\ ~r.auth /\ ~r.ssl
    BY DEF Job, Permits
  <2>2. AddAgain(j, r)
    BY <1>7
  <2> HIDE DEF r
  <2> QED BY <1>5, <1>7, <2>1, <2>2
<1>8. CASE /\ ~q.cancelled /\ ~q.ssl /\ q.redirecting
           /\ \E answer \in Answers :
                AppendScheduledJob(j, [q EXCEPT !.auth = FALSE, !.redirecting = FALSE,
                                                !.permit = "SUSPEND"], answer)
           /\ multi' = multi \ {j} /\ timer' = TRUE /\ UNCHANGED <<running, cookies>>
  <2> DEFINE n == [q EXCEPT !.auth = FALSE, !.redirecting = FALSE, !.permit = "SUSPEND"]
             p == IF j \in DataJobs THEN [n EXCEPT !.permit = "PERMIT"] ELSE n
  <2>1. /\ p \in Job /\ p.refs = q.refs /\ ~p.redirecting /\ p.loader = q.loader
        /\ ~p.auth /\ p.ssl = q.ssl
    <3>1. /\ n \in Job /\ n.refs = q.refs /\ ~n.redirecting /\ n.loader = q.loader
          /\ ~n.auth /\ n.ssl = q.ssl
      BY DEF Job, Permits
    <3> HIDE DEF n
    <3>2. CASE j \in DataJobs
      BY <3>1, <3>2 DEF Job, Permits
    <3>3. CASE j \notin DataJobs
      BY <3>1, <3>3
    <3> QED BY <3>2, <3>3
  <2>2. PICK a \in Answers : AppendScheduledJob(j, n, a)
    BY <1>8
  <2> DEFINE r == CanPermitRequest(p, a)
  <2>3. jobs' = [jobs EXCEPT ![j] = r] /\ scheduled' = Append(scheduled, j)
    BY <2>2 DEF AppendScheduledJob, SetJob
  <2> HIDE DEF p, n
  <2>4. /\ r \in Job /\ r.refs = p.refs /\ r.redirecting = p.redirecting /\ r.loader = p.loader
        /\ r.auth = p.auth /\ r.ssl = p.ssl
    BY <2>1, PermittedFields
  <2> HIDE DEF r
  <2>5. List(scheduled') /\ ToSet(scheduled') = ToSet(scheduled) \cup {j}
    BY <1>1, <1>2, <2>3, AppendList DEF Scheduled
  <2>6. jobs'[j] = r
    BY <2>3, Written
  <2>7. ~Running(j)
    BY <1>1, <1>8 DEF JobOK, Placed
  <2>8. JobOK(j)'
    BY <1>1, <1>2, <1>4, <1>8, <2>1, <2>4, <2>5, <2>6, <2>7, NoJobAssumption
    DEF JobOK, Placed, Held, Called, Wanted, Scheduled, Running, Returns
  <2>9. Scalars' /\ SingleConnection'
    BY <1>1, <1>8, CoreFacts DEF Scalars, SingleConnection
  <2> QED BY <1>1, <1>3, <1>4, <1>8, <2>3, <2>4, <2>5, <2>8, <2>9, CoreFacts, JobStep
<1>9. CASE /\ q.cancelled \/ (~q.ssl /\ ~q.redirecting)
           /\ LET ended == [Deref(q) EXCEPT !.handle = FALSE, !.auth = @ /\ q.cancelled]
              IN  /\ SetJob(j, ended)
                  /\ running' = Without(running, j)
                  /\ multi' = multi \ {j}
                  /\ DoClearCookies(cookies, [jobs EXCEPT ![j] = ended], running')
           /\ UNCHANGED <<scheduled, timer>>
  <2> DEFINE d == Deref(q)
             c == d.auth /\ q.cancelled
             r == [d EXCEPT !.handle = FALSE, !.auth = c]
  <2>1. /\ d \in Job /\ d.refs = 0 /\ d.redirecting = q.redirecting /\ d.auth = q.auth
        /\ d.ssl = q.ssl /\ d.cancelled = q.cancelled /\ d.loader = q.loader
    BY <1>2, DerefFields
  <2>2. /\ jobs' = [jobs EXCEPT ![j] = r] /\ running' = Without(running, j)
        /\ multi' = multi \ {j} /\ DoClearCookies(cookies, [jobs EXCEPT ![j] = r], running')
    BY <1>9 DEF SetJob
  <2> HIDE DEF d
  <2>3. /\ r \in Job /\ r.refs = 0 /\ r.redirecting = d.redirecting /\ r.auth = c
        /\ r.ssl = d.ssl /\ r.cancelled = d.cancelled /\ r.loader = d.loader
    <3>1. c \in BOOLEAN
      OBVIOUS
    <3> HIDE DEF c
    <3>5. d \in Job BY <2>1
    <3>2. r \in Job BY <3>1, <3>5 DEF Job
    <3>3. r.refs = d.refs /\ r.redirecting = d.redirecting /\ r.auth = c BY <2>1 DEF Job
    <3>4. r.ssl = d.ssl /\ r.cancelled = d.cancelled /\ r.loader = d.loader BY <2>1 DEF Job
    <3> QED BY <2>1, <3>2, <3>3, <3>4
  <2> HIDE DEF r
  <2>4. /\ List(running') /\ ToSet(running') = ToSet(running) \ {j}
        /\ Len(running') =< Len(running) /\ Len(running') \in Nat
    BY <1>1, <2>2, WithoutList
  <2>5. cookies' \in BOOLEAN
    BY <1>1, <2>2, CookiesTyped DEF Scalars
  <2>6. jobs'[j] = r
    BY <2>2, Written
  <2>7. ~r.ssl /\ (r.auth => r.cancelled)
    BY <1>9, <2>1, <2>3
  <2>8. JobOK(j)'
    BY <1>1, <1>2, <1>4, <1>9, <2>1, <2>2, <2>3, <2>4, <2>6, <2>7, NoJobAssumption
    DEF JobOK, Placed, Held, Called, Wanted, Scheduled, Running, Returns
  <2>9. Scalars' /\ SingleConnection'
    BY <1>1, <1>9, <2>4, <2>5, CoreFacts DEF Scalars, SingleConnection
  <2> QED BY <1>1, <1>3, <1>4, <1>9, <2>2, <2>3, <2>4, <2>8, <2>9, CoreFacts, JobStep
<1> QED BY <1>6, <1>7, <1>8, <1>9 DEF RemoveFromCurl

\* A message is read between calls, of a job in the multi handle.
LEMMA ReadingFacts ==
    ASSUME CoreInv, NEW j \in Jobs, Reading(j)
    PROVE  /\ pc = "messages" /\ j \in done /\ j \in multi /\ call \in Calls
           /\ call.job = NoJob /\ call.at = "none" /\ ~call.entered
           /\ Running(j) \/ jobs[j].redirecting
           /\ jobs[j] \in Job /\ jobs[j].refs = 1 /\ jobs[j].handle /\ ~jobs[j].ssl
           /\ (jobs[j].auth => jobs[j].cancelled)
           /\ ~jobs[j].cancelled => jobs[j].loader = "holding"
<1>1. pc = "messages" /\ Quiet /\ j \in done
  BY DEF Reading
<1>2. j \in multi
  BY <1>1, CoreFacts DEF JobOK, Placed
<1>3. call \in Calls /\ ~call.entered
  BY <1>1, CoreFacts DEF Scalars, CallMatchesPhase, Quiet
<1> QED BY <1>1, <1>2, <1>3, TransferRuns DEF Quiet

\* The messages of cancelled jobs and of jobs in a redirect.
LEMMA MessageStaleKeeps ==
    ASSUME CoreInv, NEW j \in Jobs, MessageStale(j)
    PROVE  CoreInv'
<1>1. Reading(j) /\ done' = done \ {j} /\ RemoveFromCurl(j, jobs[j])
      /\ UNCHANGED <<shared, max, single, rearm, num, pc, call>>
  BY DEF MessageStale
<1> QED BY <1>1, ReadingFacts, RemoveFromCurlKeeps

\* The request is sent again with a credential of the jar.
LEMMA MessageKnownCredentialKeeps ==
    ASSUME CoreInv, NEW j \in Jobs, MessageKnownCredential(j)
    PROVE  CoreInv'
<1> DEFINE q == [jobs[j] EXCEPT !.auth = TRUE, !.tries = @ + 1]
<1>1. Reading(j) /\ done' = done \ {j} /\ RemoveFromCurl(j, q)
      /\ ~jobs[j].cancelled /\ ~jobs[j].redirecting /\ jobs[j].tries < MaxTries
      /\ UNCHANGED <<shared, max, single, rearm, num, pc, call>>
  BY DEF MessageKnownCredential, Fresh
<1>2. jobs[j] \in Job /\ jobs[j].tries + 1 \in 0..MaxTries
  BY <1>1, ReadingFacts, BoundsAssumption DEF Job
<1>3. /\ q \in Job /\ q.refs = jobs[j].refs /\ q.handle = jobs[j].handle /\ q.loader = jobs[j].loader
      /\ q.redirecting = jobs[j].redirecting /\ q.cancelled = jobs[j].cancelled /\ q.ssl = jobs[j].ssl
  BY <1>2 DEF Job
<1> HIDE DEF q
<1> QED BY <1>1, <1>3, ReadingFacts, RemoveFromCurlKeeps

\* The request is sent again after a refused certificate.
LEMMA MessageSSLReconnectKeeps ==
    ASSUME CoreInv, NEW j \in Jobs, MessageSSLReconnect(j)
    PROVE  CoreInv'
<1> DEFINE q == [jobs[j] EXCEPT !.ssl = TRUE, !.tries = @ + 1]
<1>1. Reading(j) /\ done' = done \ {j} /\ RemoveFromCurl(j, q)
      /\ ~jobs[j].cancelled /\ ~jobs[j].redirecting /\ jobs[j].tries < MaxTries
      /\ UNCHANGED <<shared, max, single, rearm, num, pc, call>>
  BY DEF MessageSSLReconnect, Fresh
<1>2. jobs[j] \in Job /\ jobs[j].tries + 1 \in 0..MaxTries
  BY <1>1, ReadingFacts, BoundsAssumption DEF Job
<1>3. /\ q \in Job /\ q.refs = jobs[j].refs /\ q.handle = jobs[j].handle /\ q.loader = jobs[j].loader
      /\ q.redirecting = jobs[j].redirecting /\ q.cancelled = jobs[j].cancelled /\ q.auth = jobs[j].auth
  BY <1>2 DEF Job
<1> HIDE DEF q
<1> QED BY <1>1, <1>3, ReadingFacts, RemoveFromCurlKeeps

\* didReceiveAuthenticationChallenge() calls the client of a running job.
LEMMA MessageChallengeKeeps ==
    ASSUME CoreInv, NEW j \in Jobs, MessageChallenge(j)
    PROVE  CoreInv'
<1> DEFINE r == [jobs[j] EXCEPT !.tries = @ + 1]
<1>1. Reading(j) /\ done' = done \ {j} /\ jobs' = [jobs EXCEPT ![j] = r]
      /\ ~jobs[j].cancelled /\ ~jobs[j].redirecting /\ jobs[j].tries < MaxTries
      /\ call' = Call(j, "challenge", jobs[j].client)
      /\ UNCHANGED <<shared, scheduled, running, multi, max, single, cookies, timer, rearm, num, pc>>
  BY DEF MessageChallenge, Fresh, SetJob
<1>2. jobs[j] \in Job /\ jobs[j].tries + 1 \in 0..MaxTries
  BY <1>1, ReadingFacts, BoundsAssumption DEF Job
<1>3. /\ r \in Job /\ r.refs = jobs[j].refs /\ r.handle = jobs[j].handle /\ r.loader = jobs[j].loader
      /\ r.redirecting = jobs[j].redirecting /\ r.cancelled = jobs[j].cancelled
      /\ r.ssl = jobs[j].ssl /\ r.auth = jobs[j].auth
  BY <1>2 DEF Job
<1>4. call' \in Calls /\ call'.job = j /\ call'.at = "challenge" /\ "challenge" \in MessagePlaces
  BY <1>1, <1>2 DEF Call, Calls, Places, MessagePlaces, Job
<1> HIDE DEF r
<1>5. ~Returns(j, "result") /\ Running(j)
  BY <1>1, ReadingFacts DEF Returns
<1> QED BY <1>1, <1>3, <1>4, <1>5, ReadingFacts, RunningCalled

\* handleLocalReceiveResponse() calls the client of a running job.
LEMMA MessageLocalKeeps ==
    ASSUME CoreInv, NEW j \in Jobs, MessageLocal(j)
    PROVE  CoreInv'
<1>1. Reading(j) /\ done' = done \ {j} /\ jobs' = [jobs EXCEPT ![j] = jobs[j]]
      /\ ~jobs[j].cancelled /\ ~jobs[j].redirecting
      /\ call' = Call(j, "local", jobs[j].client)
      /\ UNCHANGED <<shared, scheduled, running, multi, max, single, cookies, timer, rearm, num, pc>>
  BY DEF MessageLocal, Fresh, CoreInv, TypeOK
<1>2. call' \in Calls /\ call'.job = j /\ call'.at = "local" /\ "local" \in MessagePlaces
  BY <1>1, ReadingFacts DEF Call, Calls, Places, MessagePlaces, Job
<1>3. ~Returns(j, "result") /\ Running(j)
  BY <1>1, ReadingFacts DEF Returns
<1> QED BY <1>1, <1>2, <1>3, ReadingFacts, RunningCalled

\* The client of a running job is told the result.
LEMMA TellResultKeeps ==
    ASSUME CoreInv, NEW j \in Jobs, TellResult(j), pc = "messages",
           Running(j), j \in multi, call.job \in {j, NoJob}, ~Returns(j, "result"),
           jobs[j].auth => jobs[j].cancelled,
           done' = done \ {j}, UNCHANGED <<shared, max, rearm, num, pc>>
    PROVE  CoreInv'
<1> DEFINE r == IF jobs[j].client THEN Told(jobs[j]) ELSE jobs[j]
<1>1. /\ jobs' = [jobs EXCEPT ![j] = r] /\ call' = Call(j, "result", jobs[j].client)
      /\ UNCHANGED <<scheduled, running, multi, cookies, timer>> /\ jobs[j] \in Job
      /\ single' = single \/ single' = FALSE
  BY CoreFacts DEF TellResult, TellEnd, SetJob
<1>2. /\ r \in Job /\ r.refs = jobs[j].refs /\ r.handle = jobs[j].handle
      /\ r.redirecting = jobs[j].redirecting /\ r.auth = jobs[j].auth /\ r.ssl = jobs[j].ssl
      /\ r.cancelled = jobs[j].cancelled /\ r.loader \in {jobs[j].loader, "gone"}
  BY <1>1, ToldFields
<1>3. call' \in Calls /\ call'.job = j /\ call'.at = "result" /\ "result" \in MessagePlaces
  BY <1>1 DEF Call, Calls, Places, MessagePlaces, Job
<1> HIDE DEF r
<1> QED BY <1>1, <1>2, <1>3, RunningCalled

\* The end of a transfer that needs no further attempt.
LEMMA MessageResultKeeps ==
    ASSUME CoreInv, NEW j \in Jobs, MessageResult(j)
    PROVE  CoreInv'
<1>1. Reading(j) /\ ~jobs[j].cancelled /\ ~jobs[j].redirecting
      /\ done' = done \ {j} /\ TellResult(j) /\ UNCHANGED <<shared, max, rearm, num, pc>>
  BY DEF MessageResult, Fresh
<1>2. ~Returns(j, "result") /\ Running(j)
  BY <1>1, ReadingFacts DEF Returns
<1> QED BY <1>1, <1>2, ReadingFacts, TellResultKeeps

\* While a client is called from the message loop, its job keeps running and
\* its message stays read.
LEMMA MessageCallFacts ==
    ASSUME CoreInv, NEW j \in Jobs, NEW p \in MessagePlaces, Returns(j, p)
    PROVE  /\ pc = "messages" /\ call.job = j /\ call.at = p /\ j \notin done /\ done = done \ {j}
           /\ j \in multi /\ Running(j) /\ ~Scheduled(j) /\ ~jobs[j].redirecting
           /\ jobs[j] \in Job /\ jobs[j].refs = 1 /\ jobs[j].handle /\ ~jobs[j].ssl
           /\ p # "result" /\ ~jobs[j].cancelled => jobs[j].loader = "holding"
           /\ p # "challenge" => (jobs[j].auth => jobs[j].cancelled)
<1>1. jobs[j] \in Job /\ JobOK(j) /\ CallMatchesPhase
  BY CoreFacts
<1>2. call.job = j /\ call.at = p /\ p \notin TakenOff /\ pc = "messages"
  BY <1>1 DEF Returns, CallMatchesPhase, MessagePlaces, TakenOff
<1> QED BY <1>1, <1>2 DEF JobOK, Placed, Held, Called, Wanted, Returns

\* No call is in progress once the call has returned.
LEMMA NoCallFields ==
    NoCall \in Calls /\ NoCall.job = NoJob /\ NoCall.at = "none" /\ ~NoCall.entered
BY DEF NoCall, Calls, Places

\* The client has answered a challenge, or not.
LEMMA ChallengeReturnsKeeps ==
    ASSUME CoreInv, NEW j \in Jobs, ChallengeReturns(j)
    PROVE  CoreInv'
<1>1. "challenge" \in MessagePlaces /\ "page" \in MessagePlaces
  BY DEF MessagePlaces
<1>2. Returns(j, "challenge") /\ UNCHANGED <<shared, done, max, single, rearm, num, pc>>
  BY DEF ChallengeReturns
<1>3. CASE jobs[j].cancelled \/ jobs[j].auth
  <2>1. RemoveFromCurl(j, jobs[j]) /\ call' = NoCall
    BY <1>3 DEF ChallengeReturns
  <2> QED BY <1>1, <1>2, <2>1, MessageCallFacts, NoCallFields, RemoveFromCurlKeeps
<1>4. CASE ~jobs[j].cancelled /\ ~jobs[j].auth
  <2>1. /\ call' = Call(j, "page", jobs[j].client) /\ jobs' = [jobs EXCEPT ![j] = jobs[j]]
        /\ UNCHANGED <<scheduled, running, multi, cookies, timer>>
    BY <1>4 DEF ChallengeReturns, CoreInv, TypeOK
  <2>2. call' \in Calls /\ call'.job = j /\ call'.at = "page"
    BY <1>1, <1>2, <2>1, MessageCallFacts DEF Call, Calls, Places, Job
  <2>3. ~Returns(j, "result")
    BY <1>2 DEF Returns
  <2> QED BY <1>1, <1>2, <1>4, <2>1, <2>2, <2>3, MessageCallFacts, RunningCalled
<1> QED BY <1>3, <1>4

\* didReceiveResponse() returns to the message loop.
LEMMA ResponseReturnsKeeps ==
    ASSUME CoreInv, NEW j \in Jobs, ResponseReturns(j)
    PROVE  CoreInv'
<1>1. PICK p \in {"page", "local"} : Returns(j, p)
  BY DEF ResponseReturns
<1>2. p \in MessagePlaces /\ p # "challenge" /\ p # "result" /\ ~Returns(j, "result")
  BY <1>1 DEF MessagePlaces, Returns
<1>3. UNCHANGED <<shared, done, max, rearm, num, pc>>
  BY DEF ResponseReturns
<1>4. CASE RemoveFromCurl(j, jobs[j]) /\ call' = NoCall /\ UNCHANGED single
  BY <1>1, <1>2, <1>3, <1>4, MessageCallFacts, NoCallFields, RemoveFromCurlKeeps
<1>5. CASE TellResult(j)
  BY <1>1, <1>2, <1>3, <1>5, MessageCallFacts, TellResultKeeps
<1> QED BY <1>4, <1>5 DEF ResponseReturns

\* didFinishLoading() or didFail() returns to the message loop.
LEMMA ResultReturnsKeeps ==
    ASSUME CoreInv, NEW j \in Jobs, ResultReturns(j)
    PROVE  CoreInv'
<1>1. "result" \in MessagePlaces /\ Returns(j, "result") /\ call' = NoCall
      /\ UNCHANGED <<shared, done, max, single, rearm, num, pc>>
  BY DEF ResultReturns, MessagePlaces
<1>2. CASE ~jobs[j].cancelled /\ jobs[j].handle /\ Running(j)
  <2>1. RemoveFromCurl(j, jobs[j])
    BY <1>2 DEF ResultReturns
  <2> QED BY <1>1, <1>2, <2>1, MessageCallFacts, NoCallFields, RemoveFromCurlKeeps
<1>3. CASE ~(~jobs[j].cancelled /\ jobs[j].handle /\ Running(j))
  <2>1. UNCHANGED <<jobs, scheduled, running, multi, cookies, timer>>
        /\ jobs' = [jobs EXCEPT ![j] = jobs[j]]
    BY <1>3 DEF ResultReturns, CoreInv, TypeOK
  <2>2. jobs[j].cancelled
    BY <1>1, <1>3, MessageCallFacts
  <2>3. call'.job = NoJob /\ call'.at = "none" /\ ~call'.entered /\ call' \in Calls
    BY <1>1, NoCallFields
  <2>4. JobOK(j)'
    BY <1>1, <2>1, <2>2, <2>3, MessageCallFacts, CoreFacts, NoJobAssumption
    DEF JobOK, Placed, Held, Called, Wanted, Scheduled, Running, Returns
  <2>5. Scalars' /\ CallMatchesPhase' /\ DoneIsRead' /\ SingleConnection'
    BY <1>1, <2>1, <2>3, CoreFacts, NoJobAssumption
    DEF Scalars, CallMatchesPhase, StartPlaces, MessagePlaces, DoneIsRead, SingleConnection
  <2> QED BY <1>1, <2>1, <2>3, <2>4, <2>5, MessageCallFacts, CoreFacts, JobStep
<1> QED BY <1>2, <1>3

----------------------------------------------------------------------------
(* cancelScheduledJobs() and setProxyInfo(). *)

\* The sweep ends a cancelled running job.
LEMMA SweepKeeps ==
    ASSUME CoreInv, NEW j \in Jobs, Sweep(j)
    PROVE  CoreInv'
<1> DEFINE d == Deref(jobs[j])
           r == [d EXCEPT !.handle = FALSE]
<1>1. /\ pc = "sweep" /\ Running(j) /\ jobs[j].cancelled /\ running' = Without(running, j)
      /\ multi' = multi \ {j} /\ jobs' = [jobs EXCEPT ![j] = r]
      /\ UNCHANGED <<shared, scheduled, done, max, single, cookies, timer, rearm, num, pc, call>>
  BY DEF Sweep, SetJob
<1>2. /\ jobs[j] \in Job /\ JobOK(j) /\ Scalars /\ done = {} /\ List(running)
      /\ Len(running) \in Nat
  BY <1>1, CoreFacts, EmptyList DEF DoneIsRead, List
<1>3. call.job # j
  <2>1. call.at = "none"
    BY <1>1, <1>2, CoreFacts
    DEF CallMatchesPhase, Scalars, Calls, Places, StartPlaces, MessagePlaces
  <2> QED BY <2>1, CoreFacts, NoJobAssumption DEF CallMatchesPhase
<1>4. /\ d \in Job /\ d.refs = 0 /\ d.redirecting = jobs[j].redirecting /\ d.auth = jobs[j].auth
      /\ d.ssl = jobs[j].ssl /\ d.cancelled = jobs[j].cancelled /\ d.loader = jobs[j].loader
  BY <1>1, <1>2, DerefFields DEF JobOK, Held
<1> HIDE DEF d
<1>5. /\ r \in Job /\ r.refs = d.refs /\ r.redirecting = d.redirecting /\ r.auth = d.auth
      /\ r.ssl = d.ssl /\ r.cancelled = d.cancelled /\ r.loader = d.loader
  BY <1>4 DEF Job
<1> HIDE DEF r
<1>6. /\ List(running') /\ ToSet(running') = ToSet(running) \ {j}
      /\ Len(running') =< Len(running) /\ Len(running') \in Nat
  BY <1>1, <1>2, WithoutList
<1>7. jobs'[j] = r
  BY <1>1, Written
<1>8. JobOK(j)'
  BY <1>1, <1>2, <1>3, <1>4, <1>5, <1>6, <1>7
  DEF JobOK, Placed, Held, Called, Wanted, Scheduled, Running, Returns
<1>9. Scalars' /\ CallMatchesPhase' /\ DoneIsRead' /\ SingleConnection'
  BY <1>1, <1>2, <1>6, CoreFacts DEF Scalars, CallMatchesPhase, DoneIsRead, SingleConnection
<1> QED BY <1>1, <1>2, <1>5, <1>6, <1>8, <1>9, CoreFacts, JobStep

\* removeAllScheduledJobs() takes a job off and may call its client.
LEMMA AbortScheduledKeeps ==
    ASSUME CoreInv, NEW j \in Jobs, AbortScheduled(j)
    PROVE  CoreInv'
<1>1. /\ pc = "abortScheduled" /\ call.at = "none" /\ call.job = NoJob
      /\ num \in 1..Len(scheduled) /\ j = scheduled[num] /\ scheduled' = RemoveAt(scheduled, num)
      /\ num' = num - 1 /\ jobs[j] \in Job /\ JobOK(j) /\ Scalars
      /\ UNCHANGED <<shared, running, multi, done, max, single, cookies, timer, rearm, pc>>
  BY CoreFacts DEF AbortScheduled, AbortingScheduled, Quiet, CallMatchesPhase
<1> DEFINE t == IF jobs[j].client THEN Told(jobs[j]) ELSE jobs[j]
<1>2. /\ t \in Job /\ t.refs = jobs[j].refs /\ t.handle = jobs[j].handle
      /\ t.redirecting = jobs[j].redirecting /\ t.auth = jobs[j].auth /\ t.ssl = jobs[j].ssl
      /\ t.cancelled = jobs[j].cancelled /\ t.loader \in {jobs[j].loader, "gone"}
  BY <1>1, ToldFields
<1>3. PICK r \in {t, jobs[j]}, b \in BOOLEAN :
         jobs' = [jobs EXCEPT ![j] = r] /\ call' = Call(j, "abortScheduled", b)
  <2>1. CASE jobs[j].cancelled
    <3>1. jobs' = [jobs EXCEPT ![j] = jobs[j]] /\ call' = Call(j, "abortScheduled", FALSE)
      BY <2>1 DEF AbortScheduled, CoreInv, TypeOK
    <3> QED BY <3>1
  <2>2. CASE ~jobs[j].cancelled
    <3>1. jobs' = [jobs EXCEPT ![j] = t] /\ call' = Call(j, "abortScheduled", jobs[j].client)
          /\ jobs[j].client \in BOOLEAN
      BY <1>1, <2>2 DEF AbortScheduled, TellEnd, SetJob, Job
    <3> HIDE DEF t
    <3> QED BY <3>1
  <2> QED BY <2>1, <2>2
<1> HIDE DEF t
<1>4. /\ r \in Job /\ r.refs = jobs[j].refs /\ r.handle = jobs[j].handle
      /\ r.redirecting = jobs[j].redirecting /\ r.auth = jobs[j].auth /\ r.ssl = jobs[j].ssl
      /\ r.cancelled = jobs[j].cancelled /\ r.loader \in {jobs[j].loader, "gone"}
  BY <1>1, <1>2, <1>3
<1>5. /\ List(scheduled') /\ ToSet(scheduled') = ToSet(scheduled) \ {j} /\ Scheduled(j)
      /\ num' \in Nat
  BY <1>1, RemoveAtList, CoreFacts DEF Scheduled, List
<1>6. call' \in Calls /\ call'.job = j /\ call'.at = "abortScheduled"
  BY <1>3 DEF Calls, Call, Places
<1>7. jobs'[j] = r
  BY <1>3, Written
<1>8. JobOK(j)'
  BY <1>1, <1>4, <1>5, <1>6, <1>7, NoJobAssumption
  DEF JobOK, Placed, Held, Called, Wanted, Scheduled, Running, Returns, TakenOff
<1>9. Scalars' /\ CallMatchesPhase' /\ DoneIsRead' /\ SingleConnection'
  BY <1>1, <1>5, <1>6, CoreFacts, NoJobAssumption
  DEF Scalars, CallMatchesPhase, StartPlaces, MessagePlaces, DoneIsRead, SingleConnection
<1> QED BY <1>1, <1>3, <1>4, <1>5, <1>6, <1>8, <1>9, CoreFacts, JobStep

\* removeAllRunningJobs() takes a job off and may call its client, while cURL
\* still has the job's handle.
LEMMA AbortRunningKeeps ==
    ASSUME CoreInv, NEW j \in Jobs, AbortRunning(j)
    PROVE  CoreInv'
<1>1. /\ pc = "abortRunning" /\ call.at = "none" /\ call.job = NoJob
      /\ running # <<>> /\ j = Head(running) /\ running' = Tail(running)
      /\ jobs[j] \in Job /\ JobOK(j) /\ Scalars
      /\ UNCHANGED <<shared, scheduled, multi, done, max, single, cookies, timer, rearm, num, pc>>
  BY CoreFacts DEF AbortRunning, Quiet, CallMatchesPhase
<1> DEFINE t == IF jobs[j].client THEN Told(jobs[j]) ELSE jobs[j]
<1>2. /\ t \in Job /\ t.refs = jobs[j].refs /\ t.handle = jobs[j].handle
      /\ t.redirecting = jobs[j].redirecting /\ t.auth = jobs[j].auth /\ t.ssl = jobs[j].ssl
      /\ t.cancelled = jobs[j].cancelled /\ t.loader \in {jobs[j].loader, "gone"}
  BY <1>1, ToldFields
<1>3. PICK r \in {t, jobs[j]}, b \in BOOLEAN :
         jobs' = [jobs EXCEPT ![j] = r] /\ call' = Call(j, "abortRunning", b)
  <2>1. CASE jobs[j].cancelled
    <3>1. jobs' = [jobs EXCEPT ![j] = jobs[j]] /\ call' = Call(j, "abortRunning", FALSE)
      BY <2>1 DEF AbortRunning, CoreInv, TypeOK
    <3> QED BY <3>1
  <2>2. CASE ~jobs[j].cancelled
    <3>1. jobs' = [jobs EXCEPT ![j] = t] /\ call' = Call(j, "abortRunning", jobs[j].client)
          /\ jobs[j].client \in BOOLEAN
      BY <1>1, <2>2 DEF AbortRunning, TellEnd, SetJob, Job
    <3> HIDE DEF t
    <3> QED BY <3>1
  <2> QED BY <2>1, <2>2
<1> HIDE DEF t
<1>4. /\ r \in Job /\ r.refs = jobs[j].refs /\ r.handle = jobs[j].handle
      /\ r.redirecting = jobs[j].redirecting /\ r.auth = jobs[j].auth /\ r.ssl = jobs[j].ssl
      /\ r.cancelled = jobs[j].cancelled /\ r.loader \in {jobs[j].loader, "gone"}
  BY <1>1, <1>2, <1>3
<1>5. /\ List(running') /\ ToSet(running') = ToSet(running) \ {j} /\ Running(j)
      /\ Len(running') =< Len(running) /\ Len(running') \in Nat /\ Len(running) \in Nat
  BY <1>1, TailList, CoreFacts, EmptyList DEF Running, List
<1>6. call' \in Calls /\ call'.job = j /\ call'.at = "abortRunning"
  BY <1>3 DEF Calls, Call, Places
<1>7. jobs'[j] = r
  BY <1>3, Written
<1>8. JobOK(j)'
  BY <1>1, <1>4, <1>5, <1>6, <1>7, NoJobAssumption
  DEF JobOK, Placed, Held, Called, Wanted, Scheduled, Running, Returns, TakenOff
<1>9. Scalars' /\ CallMatchesPhase' /\ DoneIsRead' /\ SingleConnection'
  BY <1>1, <1>5, <1>6, CoreFacts, NoJobAssumption
  DEF Scalars, CallMatchesPhase, StartPlaces, MessagePlaces, DoneIsRead, SingleConnection
<1> QED BY <1>1, <1>3, <1>4, <1>5, <1>6, <1>8, <1>9, CoreFacts, JobStep

\* didFail() returns to removeAllScheduledJobs() or removeAllRunningJobs().
LEMMA AbortReturnsKeeps ==
    ASSUME CoreInv, NEW j \in Jobs, AbortScheduledReturns(j) \/ AbortRunningReturns(j)
    PROVE  CoreInv'
<1> DEFINE d == Deref(jobs[j])
           c == d.cancelled \/ call.entered
           r == [d EXCEPT !.cancelled = c]
           s == [d EXCEPT !.cancelled = c, !.handle = FALSE]
<1>1. /\ call.job = j /\ call.at \in {"abortScheduled", "abortRunning"} /\ call' = NoCall
      /\ UNCHANGED <<shared, scheduled, running, done, max, single, cookies, rearm, num, pc>>
  BY DEF AbortScheduledReturns, AbortRunningReturns, Returns
<1>2. call.at \in TakenOff /\ jobs[j] \in Job /\ jobs[j].refs = 1 /\ Scalars
      /\ jobs[j].handle \in BOOLEAN
  BY <1>1, CoreFacts DEF TakenOff, JobOK, Held, Job
<1>3. /\ d \in Job /\ d.redirecting = jobs[j].redirecting /\ d.auth = jobs[j].auth
      /\ d.ssl = jobs[j].ssl /\ d.cancelled = jobs[j].cancelled /\ d.loader = jobs[j].loader
  BY <1>2, DerefFields
<1>4. c \in BOOLEAN /\ (d.cancelled => c)
  OBVIOUS
<1>5. timer' \in BOOLEAN
  BY <1>2 DEF AbortScheduledReturns, AbortRunningReturns, Scalars
<1>6. CASE AbortScheduledReturns(j)
  <2>1. jobs' = [jobs EXCEPT ![j] = r] /\ call.at = "abortScheduled" /\ multi' = multi
    BY <1>6 DEF AbortScheduledReturns, SetJob, Returns
  <2>2. multi' = multi \ {j}
    BY <1>1, <2>1, CoreFacts DEF JobOK, Called, TakenOff
  <2> HIDE DEF d, c
  <2>3. /\ r \in Job /\ r.redirecting = d.redirecting /\ r.auth = d.auth /\ r.ssl = d.ssl
        /\ (d.cancelled => r.cancelled) /\ r.loader = d.loader
    BY <1>3, <1>4 DEF Job
  <2> HIDE DEF r
  <2> QED BY <1>1, <1>2, <1>3, <1>5, <2>1, <2>2, <2>3, TakenOffReturns
<1>7. CASE AbortRunningReturns(j)
  <2>1. jobs' = [jobs EXCEPT ![j] = s] /\ multi' = multi \ {j}
    BY <1>7 DEF AbortRunningReturns, SetJob
  <2> HIDE DEF d, c
  <2>2. /\ s \in Job /\ s.redirecting = d.redirecting /\ s.auth = d.auth /\ s.ssl = d.ssl
        /\ (d.cancelled => s.cancelled) /\ s.loader = d.loader
    BY <1>3, <1>4 DEF Job
  <2> HIDE DEF s
  <2> QED BY <1>1, <1>2, <1>3, <1>5, <2>1, <2>2, TakenOffReturns
<1> QED BY <1>6, <1>7

----------------------------------------------------------------------------
(* The steps from phase to phase, and the theorems. *)

\* A step that touches no job keeps the invariant.
LEMMA PhaseStep ==
    ASSUME CoreInv, UNCHANGED <<jobs, scheduled, running, multi, done, call>>,
           Scalars', CallMatchesPhase', DoneIsRead', single' => single
    PROVE  CoreInv'
<1>1. TypeOK'
  BY DEF CoreInv, TypeOK, Scalars, Calls
<1>2. Injective(scheduled)' /\ Injective(running)' /\ SingleConnection'
  BY DEF CoreInv, SingleConnection
<1>3. ASSUME NEW j \in Jobs
      PROVE  JobOK(j)'
  BY CoreFacts DEF JobOK, Placed, Held, Called, Wanted, Scheduled, Running, Returns
<1> QED BY <1>1, <1>2, <1>3 DEF CoreInv

\* Between calls the client's place allows any phase.
LEMMA QuietPhase ==
    ASSUME CoreInv, Quiet \/ pc \in {"idle", "sweep", "rearm"}
    PROVE  call.at = "none" /\ call.job = NoJob /\ ~call.entered
<1>1. CallMatchesPhase /\ call \in Calls
  BY CoreFacts DEF Scalars
<1> QED BY <1>1 DEF CallMatchesPhase, Calls, Places, StartPlaces, MessagePlaces, Quiet

\* The timer's phases.
LEMMA PhaseKeeps ==
    ASSUME CoreInv, Phase
    PROVE  CoreInv'
<1>1. Scalars /\ CallMatchesPhase /\ DoneIsRead
  BY CoreFacts
<1> USE DEF StartPlaces, MessagePlaces
<1>2. CASE TimerFires
  <2>1. call.at = "none" /\ call.job = NoJob /\ ~call.entered
    BY <1>2, QuietPhase DEF TimerFires
  <2>2. UNCHANGED <<shared, jobs, scheduled, running, multi, done, call, max, single, cookies, rearm, num>>
        /\ pc = "idle" /\ pc' \in {"perform", "start1"} /\ timer' = FALSE
    BY <1>2 DEF TimerFires
  <2>3. Scalars' /\ CallMatchesPhase' /\ DoneIsRead'
    BY <1>1, <2>1, <2>2 DEF Scalars, Phases, CallMatchesPhase, DoneIsRead
  <2> QED BY <2>2, <2>3, PhaseStep
<1>3. CASE StartsEnd
  <2>1. call.at = "none" /\ call.job = NoJob /\ ~call.entered
    BY <1>3, QuietPhase DEF StartsEnd, Starting
  <2>2. UNCHANGED <<shared, jobs, scheduled, running, multi, done, call, max, single, cookies, timer, num>>
        /\ pc \in {"start1", "start2"} /\ pc' \in {"perform", "rearm"} /\ rearm' \in BOOLEAN
    BY <1>1, <1>3 DEF StartsEnd, Starting, Scalars
  <2>3. Scalars' /\ CallMatchesPhase' /\ DoneIsRead'
    BY <1>1, <2>1, <2>2 DEF Scalars, Phases, CallMatchesPhase, DoneIsRead
  <2> QED BY <2>2, <2>3, PhaseStep
<1>4. CASE PerformEnds
  <2>1. call.at = "none" /\ call.job = NoJob /\ ~call.entered
    BY <1>4, QuietPhase DEF PerformEnds
  <2>2. UNCHANGED <<shared, jobs, scheduled, running, multi, done, call, max, single, cookies, timer, num>>
        /\ pc = "perform" /\ pc' = "messages" /\ rearm' \in BOOLEAN
    BY <1>1, <1>4 DEF PerformEnds
  <2>3. Scalars' /\ CallMatchesPhase' /\ DoneIsRead'
    BY <1>1, <2>1, <2>2 DEF Scalars, Phases, CallMatchesPhase, DoneIsRead
  <2> QED BY <2>2, <2>3, PhaseStep
<1>5. CASE MessagesEnd
  <2>1. call.at = "none" /\ call.job = NoJob /\ ~call.entered
    BY <1>5, QuietPhase DEF MessagesEnd
  <2>2. UNCHANGED <<shared, jobs, scheduled, running, multi, done, call, max, single, cookies, timer, rearm, num>>
        /\ pc' = "sweep" /\ done = {}
    BY <1>5 DEF MessagesEnd
  <2>3. Scalars' /\ CallMatchesPhase' /\ DoneIsRead'
    BY <1>1, <2>1, <2>2 DEF Scalars, Phases, CallMatchesPhase, DoneIsRead
  <2> QED BY <2>2, <2>3, PhaseStep
<1>6. CASE SweepEnds
  <2>1. call.at = "none" /\ call.job = NoJob /\ ~call.entered
    BY <1>6, QuietPhase DEF SweepEnds
  <2>2. UNCHANGED <<shared, jobs, scheduled, running, multi, done, call, max, single, timer, rearm, num>>
        /\ pc = "sweep" /\ pc' \in {"start2", "rearm"}
    BY <1>6 DEF SweepEnds
  <2>3. cookies' \in BOOLEAN
    BY <1>1, <1>6, CookiesTyped DEF SweepEnds, Scalars
  <2>4. Scalars' /\ CallMatchesPhase' /\ DoneIsRead'
    BY <1>1, <2>1, <2>2, <2>3 DEF Scalars, Phases, CallMatchesPhase, DoneIsRead
  <2> QED BY <2>2, <2>4, PhaseStep
<1>7. CASE TimerRearms
  <2>1. call.at = "none" /\ call.job = NoJob /\ ~call.entered
    BY <1>7, QuietPhase DEF TimerRearms
  <2>2. UNCHANGED <<shared, jobs, scheduled, running, multi, done, call, max, single, cookies, num>>
        /\ pc = "rearm" /\ pc' = "idle" /\ rearm' = FALSE /\ timer' \in BOOLEAN
    BY <1>7 DEF TimerRearms
  <2>3. Scalars' /\ CallMatchesPhase' /\ DoneIsRead'
    BY <1>1, <2>1, <2>2 DEF Scalars, Phases, CallMatchesPhase, DoneIsRead
  <2> QED BY <2>2, <2>3, PhaseStep
<1>8. CASE AbortBeyondList \/ AbortScheduledEnds
  <2>1. call.at = "none" /\ call.job = NoJob /\ ~call.entered
    BY <1>8, QuietPhase DEF AbortBeyondList, AbortScheduledEnds, AbortingScheduled
  <2>2. UNCHANGED <<shared, jobs, scheduled, running, multi, done, call, max, single, cookies, timer, rearm, num>>
        /\ pc = "abortScheduled" /\ pc' \in {"wild", "abortRunning"}
    BY <1>8 DEF AbortBeyondList, AbortScheduledEnds, AbortingScheduled
  <2>3. Scalars' /\ CallMatchesPhase' /\ DoneIsRead'
    BY <1>1, <2>1, <2>2 DEF Scalars, Phases, CallMatchesPhase, DoneIsRead
  <2> QED BY <2>2, <2>3, PhaseStep
<1>9. CASE RenewMulti
  <2>1. call.at = "none" /\ call.job = NoJob /\ ~call.entered
    BY <1>9, QuietPhase DEF RenewMulti
  <2>2. UNCHANGED <<shared, jobs, scheduled, running, done, call, max, cookies, timer, rearm, num>>
        /\ pc = "abortRunning" /\ pc' = "idle" /\ multi' = {} /\ single' \in BOOLEAN
        /\ running = <<>>
    BY <1>9 DEF RenewMulti
  <2>3. Scalars' /\ CallMatchesPhase' /\ DoneIsRead' /\ done = {}
    BY <1>1, <2>1, <2>2 DEF Scalars, Phases, CallMatchesPhase, DoneIsRead
  <2>4. SingleConnection'
    BY <2>2, EmptyList DEF SingleConnection
  <2>5. ASSUME NEW j \in Jobs
        PROVE  JobOK(j)'
    <3>1. ~Running(j) /\ ~Running(j)'
      BY <2>2, EmptyList DEF Running
    <3> QED BY <2>1, <2>2, <2>3, <3>1, CoreFacts, NoJobAssumption
      DEF JobOK, Placed, Held, Called, Wanted, Scheduled, Returns
  <2>6. TypeOK'
    BY <2>2, <2>3 DEF CoreInv, TypeOK, Scalars, Calls
  <2> QED BY <2>2, <2>3, <2>4, <2>5, <2>6 DEF CoreInv
<1> QED BY <1>2, <1>3, <1>4, <1>5, <1>6, <1>7, <1>8, <1>9 DEF Phase

\* The calls of the embedder that concern no job.
LEMMA EmbedderKeeps ==
    ASSUME CoreInv,
           \/ ClearCookies \/ WebSocketShares
           \/ (\E n \in Limits : SetMaxHTTPConnections(n)) \/ SetProxyInfo
    PROVE  CoreInv'
<1>1. Scalars /\ CallMatchesPhase /\ DoneIsRead /\ Len(scheduled) \in Nat
  BY CoreFacts, EmptyList DEF List
<1>2. CASE ClearCookies
  <2>1. cookies' \in BOOLEAN
    BY <1>2, CookiesTyped DEF ClearCookies
  <2>2. Scalars' /\ CallMatchesPhase' /\ DoneIsRead'
    BY <1>1, <1>2, <2>1 DEF ClearCookies, Scalars, CallMatchesPhase, DoneIsRead
  <2> QED BY <1>2, <2>2, PhaseStep DEF ClearCookies
<1>3. CASE \E n \in Limits : SetMaxHTTPConnections(n)
  <2>1. Scalars' /\ CallMatchesPhase' /\ DoneIsRead'
    BY <1>1, <1>3 DEF SetMaxHTTPConnections, Scalars, CallMatchesPhase, DoneIsRead
  <2> QED BY <1>3, <2>1, PhaseStep DEF SetMaxHTTPConnections
<1>4. CASE SetProxyInfo
  <2>1. call.at = "none" /\ call.job = NoJob /\ ~call.entered
    BY <1>4, QuietPhase DEF SetProxyInfo
  <2>2. UNCHANGED <<jobs, scheduled, running, multi, done, call, max, single, cookies, shared, timer, rearm>>
        /\ num' \in Nat /\ pc = "idle" /\ pc' = "abortScheduled"
    BY <1>1, <1>4 DEF SetProxyInfo
  <2>3. Scalars' /\ CallMatchesPhase' /\ DoneIsRead'
    BY <1>1, <2>1, <2>2
    DEF Scalars, Phases, CallMatchesPhase, StartPlaces, MessagePlaces, DoneIsRead
  <2> QED BY <2>2, <2>3, PhaseStep
<1>5. CASE WebSocketShares
  <2>1. Scalars' /\ CallMatchesPhase' /\ DoneIsRead'
    <3>1. shared' \in BOOLEAN
      BY <1>1, <1>5 DEF WebSocketShares, Scalars
    <3> QED BY <1>1, <1>5, <3>1 DEF WebSocketShares, Scalars, CallMatchesPhase, DoneIsRead
  <2> QED BY <1>5, <2>1, PhaseStep DEF WebSocketShares
<1> QED BY <1>2, <1>3, <1>4, <1>5

\* The manager starts with no job in either list.
LEMMA InitCore == Init => CoreInv
<1> SUFFICES ASSUME Init PROVE CoreInv
  OBVIOUS
<1>1. NewJob \in Job
  BY BoundsAssumption DEF NewJob, Job, Permits
<1>2. TypeOK
  <2>1. jobs \in [Jobs -> Job]
    BY <1>1 DEF Init
  <2>2. call \in Calls /\ scheduled \in Seq(Jobs) /\ running \in Seq(Jobs)
    BY NoCallFields, EmptyList DEF Init, List
  <2> QED BY <2>1, <2>2 DEF Init, TypeOK, Calls, Phases
<1>3. ToSet(scheduled) = {} /\ ToSet(running) = {} /\ Injective(scheduled) /\ Injective(running)
  BY EmptyList DEF Init, List
<1>4. CallMatchesPhase /\ DoneIsRead /\ SingleConnection
  BY DEF Init, NoCall, CallMatchesPhase, StartPlaces, MessagePlaces, DoneIsRead, SingleConnection
<1>5. ASSUME NEW j \in Jobs
      PROVE  JobOK(j)
  <2>1. /\ jobs[j].loader = "none" /\ jobs[j].refs = 0 /\ ~jobs[j].redirecting
        /\ ~jobs[j].auth /\ ~jobs[j].ssl /\ call.job # j /\ multi = {} /\ done = {}
    BY NoJobAssumption DEF Init, NewJob, NoCall
  <2> QED BY <1>3, <2>1 DEF JobOK, Placed, Held, Called, Wanted, Scheduled, Running, Returns
<1> QED BY <1>2, <1>3, <1>4, <1>5 DEF CoreInv

\* Every step of the main thread keeps the invariant.
LEMMA StepCore == CoreInv /\ [Next]_vars => CoreInv'
<1> SUFFICES ASSUME CoreInv, [Next]_vars PROVE CoreInv'
  OBVIOUS
<1>1. ASSUME NEW j \in Jobs, ClientActs(j)
      PROVE  CoreInv'
  BY <1>1, AddKeeps, CancelKeeps, CancelByFrameKeeps, PermitRequestKeeps, ReceivedCredentialKeeps
  DEF ClientActs
<1>2. ASSUME NEW j \in Jobs, Starts(j)
      PROVE  CoreInv'
  BY <1>2, StartProhibitedKeeps, StartDataKeeps, StartNoMemoryKeeps, StartRefusedKeeps,
     StartRunsKeeps, StartReturnsKeeps, NoMemoryReturnsKeeps DEF Starts
<1>3. ASSUME NEW j \in Jobs, Transfers(j)
      PROVE  CoreInv'
  BY <1>3, ReceiveKeeps, ReceiveReturnsKeeps, RedirectReturnsKeeps, CompleteKeeps DEF Transfers
<1>4. ASSUME NEW j \in Jobs, Messages(j)
      PROVE  CoreInv'
  BY <1>4, MessageStaleKeeps, MessageKnownCredentialKeeps, MessageChallengeKeeps,
     MessageLocalKeeps, MessageResultKeeps, MessageSSLReconnectKeeps, ChallengeReturnsKeeps,
     ResponseReturnsKeeps, ResultReturnsKeeps DEF Messages
<1>5. ASSUME NEW j \in Jobs, Aborts(j)
      PROVE  CoreInv'
  BY <1>5, AbortScheduledKeeps, AbortRunningKeeps, AbortReturnsKeeps DEF Aborts
<1>6. CASE UNCHANGED vars
  BY <1>6, CoreFacts, PhaseStep DEF vars, Scalars, CallMatchesPhase, DoneIsRead
<1>7. CASE Next
  BY <1>1, <1>2, <1>3, <1>4, <1>5, <1>6, <1>7, SweepKeeps, PhaseKeeps, EmbedderKeeps
  DEF Next, Wild
<1> QED BY <1>6, <1>7

\* The inductive invariant holds in every reachable state.
THEOREM Invariance == Spec => []CoreInv
<1> QED BY InitCore, StepCore, PTL DEF Spec

\* The reference count of every job stays 0 or 1 through add(), cancel(),
\* cancelByFrame(), removeFromCurl() and the aborts of setProxyInfo().
THEOREM ReferencesCounted == Spec => []TypeOK
<1>1. CoreInv => TypeOK
  BY DEF CoreInv
<1> QED BY <1>1, Invariance, PTL

\* No job is in two places, or twice in one.
THEOREM JobsInOneList == Spec => []OneList
<1>1. CoreInv => OneList
  BY DEF CoreInv, OneList, JobOK, Placed
<1> QED BY <1>1, Invariance, PTL

\* The running list and the multi handle agree, between any two steps.
THEOREM ListMatchesMulti == Spec => []MultiMatchesList
<1>1. CoreInv => MultiMatchesList
  BY DEF CoreInv, TypeOK, MultiMatchesList, JobOK, Placed
<1> QED BY <1>1, Invariance, PTL

\* No job that the manager, cURL or a client call can still reach was released.
THEOREM NothingReleasedEarly == Spec => []ReachableIsHeld
<1>1. CoreInv => ReachableIsHeld
  BY DEF CoreInv, ReachableIsHeld, JobOK, Held
<1> QED BY <1>1, Invariance, PTL

\* At most one connection is open until the new proxy has let one through.
THEOREM OneConnectionToNewProxy == Spec => []SingleConnection
<1>1. CoreInv => SingleConnection
  BY DEF CoreInv
<1> QED BY <1>1, Invariance, PTL

\* Only startJob() hands a job to cURL, and only one it has just taken off the
\* scheduled list.
LEMMA OnlyStartRunsAdds ==
    ASSUME CoreInv, Next, NEW k \in Jobs, k \in multi' \ multi
    PROVE  StartRuns(k)
<1>1. ASSUME NEW j \in Jobs, ClientActs(j) \/ Transfers(j) \/ Sweep(j) \/ Aborts(j)
      PROVE  FALSE
  BY <1>1 DEF ClientActs, Add, Cancel, CancelByFrame, PermitRequest, ReceivedCredential,
    Transfers, Receive, ReceiveReturns, ReceiveRedirect, RedirectReturns, Complete, Sweep,
    Aborts, AbortScheduled, AbortScheduledReturns, AbortRunning, AbortRunningReturns
<1>2. ASSUME NEW j \in Jobs, Messages(j)
      PROVE  FALSE
  <2>1. multi' = multi \/ \E r : RemoveFromCurl(j, r)
    BY <1>2 DEF Messages, MessageStale, MessageKnownCredential, MessageChallenge, MessageLocal,
      MessageResult, MessageSSLReconnect, ChallengeReturns, ResponseReturns, ResultReturns, TellResult
  <2>2. multi' \subseteq multi
    BY <2>1 DEF RemoveFromCurl, AddAgain
  <2> QED BY <2>2
<1>3. ASSUME NEW j \in Jobs, Starts(j)
      PROVE  StartRuns(k)
  BY <1>3 DEF Starts, StartProhibited, StartData, StartNoMemory, StartRefused, StartRuns,
    StartReturns, NoMemoryReturns
<1>4. CASE Phase
  BY <1>4 DEF Phase, TimerFires, StartsEnd, PerformEnds, MessagesEnd, SweepEnds, TimerRearms,
    AbortBeyondList, AbortScheduledEnds, RenewMulti
<1>5. CASE \/ ClearCookies \/ WebSocketShares
           \/ (\E n \in Limits : SetMaxHTTPConnections(n)) \/ SetProxyInfo \/ Wild
  BY <1>5 DEF ClearCookies, WebSocketShares, SetMaxHTTPConnections, SetProxyInfo, Wild, vars
<1> QED BY <1>1, <1>2, <1>3, <1>4, <1>5 DEF Next

\* A cancelled load is never handed to cURL, whatever path led it back to the
\* scheduled list.
THEOREM CancelledStaysUnsent == Spec => CancelledNeverSent
<1>1. ASSUME CoreInv, [Next]_vars
      PROVE  [\A j \in Jobs : j \in multi' \ multi =>
                jobs[j].loader = "holding" /\ ~jobs[j].cancelled]_vars
  <2>1. ASSUME Next, NEW j \in Jobs, j \in multi' \ multi
        PROVE  jobs[j].loader = "holding" /\ ~jobs[j].cancelled
    <3>1. Shifts(j) /\ ~jobs[j].cancelled
      BY <1>1, <2>1, OnlyStartRunsAdds DEF StartRuns
    <3>2. Scheduled(j)
      BY <1>1, <3>1, TailList, CoreFacts DEF Shifts, Scheduled
    <3> QED BY <1>1, <3>1, <3>2, CoreFacts DEF JobOK, Wanted
  <2> QED BY <1>1, <2>1
<1> QED BY <1>1, Invariance, PTL DEF Spec, CancelledNeverSent

----------------------------------------------------------------------------
(* The download timer: why it is armed whenever the main loop runs.         *)

\* The phases in which only the timer can bring work to go on.
Resting == {"idle", "abortScheduled", "abortRunning"}

\* Outside downloadTimerCallback() the timer is armed for what waits.  The jobs
\* that removeAllScheduledJobs() has yet to take off do not count.
RestArmed ==
    /\ pc \in Resting /\ multi # {} => timer
    /\ pc = "idle" /\ scheduled # <<>> => timer \/ Stuck
    /\ pc = "abortScheduled" /\ Len(scheduled) > num => timer
    /\ pc = "abortRunning" /\ scheduled # <<>> => timer

\* While messages are read, only the transfers that ended may be uncovered.
ReadArmed == pc = "messages" => rearm \/ timer \/ multi \subseteq done \cup {call.job}

\* A job that its client cancels while a message of it is handled is left for
\* the sweep of the next firing: cancel() has armed the timer.
CancelArmed == call.at \in MessagePlaces /\ jobs[call.job].cancelled => timer

\* Once the messages are read the transfers that go on are counted.
SweptArmed == pc \in {"sweep", "start2", "rearm"} /\ multi # {} => rearm \/ timer

\* A job is left scheduled only beside running ones, of which cURL has one
\* unless they are stuck.
LeftArmed == pc = "rearm" /\ scheduled # <<>> => rearm \/ timer \/ Stuck

TimerInv == RestArmed /\ ReadArmed /\ CancelArmed /\ SweptArmed /\ LeftArmed

\* With the timer armed there is nothing to show.
LEMMA ArmedNow == ASSUME timer' PROVE TimerInv'
BY DEF TimerInv, RestArmed, ReadArmed, CancelArmed, SweptArmed, LeftArmed

\* A client is called about a message only while messages are read.
LEMMA OutsideMessages ==
    ASSUME CoreInv', pc' # "messages"
    PROVE  CancelArmed' /\ ReadArmed'
BY DEF CoreInv, CallMatchesPhase, CancelArmed, ReadArmed

\* In these phases it is enough that the timer will be armed.
LEMMA RearmingNow ==
    ASSUME CoreInv', pc' \notin Resting, pc' # "messages", rearm'
    PROVE  TimerInv'
BY OutsideMessages DEF TimerInv, Resting, RestArmed, SweptArmed, LeftArmed

\* While jobs are first started and cURL performs nothing is claimed.
LEMMA PerformingNow ==
    ASSUME CoreInv', pc' \in {"start1", "perform", "wild"}
    PROVE  TimerInv'
BY OutsideMessages DEF TimerInv, Resting, RestArmed, SweptArmed, LeftArmed

\* A step within a phase other than "messages" that adds no work.
LEMMA SamePhase ==
    ASSUME TimerInv, CoreInv', pc' = pc, pc # "messages", timer => timer', rearm => rearm',
           multi' \subseteq multi, scheduled' # <<>> => scheduled # <<>> \/ timer',
           pc = "abortScheduled" /\ Len(scheduled') > num' => Len(scheduled) > num \/ timer',
           pc \in {"idle", "rearm"} /\ Stuck => Stuck'
    PROVE  TimerInv'
<1>1. CancelArmed' /\ ReadArmed' BY OutsideMessages
<1>2. multi' # {} => multi # {} OBVIOUS
<1>3. RestArmed' BY <1>2 DEF TimerInv, RestArmed
<1>4. SweptArmed' BY <1>2 DEF TimerInv, SweptArmed
<1>5. LeftArmed' BY DEF TimerInv, LeftArmed
<1> QED BY <1>1, <1>3, <1>4, <1>5 DEF TimerInv

\* A step within "messages".
LEMMA ReadingPhase ==
    ASSUME pc' = "messages", ReadArmed', CancelArmed'
    PROVE  TimerInv'
BY DEF TimerInv, Resting, RestArmed, SweptArmed, LeftArmed

\* A stuck job stays so as long as it runs.
LEMMA StuckKept ==
    ASSUME CoreInv, NEW j \in Jobs, NEW r, jobs' = [jobs EXCEPT ![j] = r],
           r.stray = jobs[j].stray, running' = running
    PROVE  Stuck => Stuck'
<1> SUFFICES ASSUME NEW k \in Jobs, Running(k), jobs[k].stray PROVE jobs'[k].stray /\ Running(k)'
  BY DEF Stuck
<1>1. jobs'[k] = IF k = j THEN r ELSE jobs[k] BY DEF CoreInv, TypeOK
<1> QED BY <1>1 DEF Running

\* Telling a client the end of its load does not cancel the job.
LEMMA TellEndFields ==
    ASSUME CoreInv, NEW j \in Jobs, NEW p, TellEnd(j, jobs[j], p)
    PROVE  /\ jobs'[j].cancelled = jobs[j].cancelled
           /\ call'.job = j /\ call'.at = p
<1> DEFINE r == IF jobs[j].client THEN Told(jobs[j]) ELSE jobs[j]
<1>1. jobs[j] \in Job BY CoreFacts
<1>2. r.cancelled = jobs[j].cancelled
  BY <1>1 DEF Told, Job
<1>3. jobs' = [jobs EXCEPT ![j] = r] BY DEF TellEnd, SetJob
<1> HIDE DEF r
<1>4. jobs'[j] = r BY <1>3, Written
<1>5. call'.job = j /\ call'.at = p BY DEF TellEnd, Call
<1> QED BY <1>2, <1>4, <1>5

\* A client that cancels a transfer arms the timer.
LEMMA ClientActsArmed ==
    ASSUME CoreInv, TimerInv, CoreInv', NEW j \in Jobs, ClientActs(j)
    PROVE  TimerInv'
<1>1. CASE timer' BY <1>1, ArmedNow
<1>2. CASE ~timer'
  <2>1. Cancel(j) \/ CancelByFrame(j) \/ ReceivedCredential(j)
    BY <1>2 DEF ClientActs, Add, PermitRequest
  <2>2. UNCHANGED <<running, multi, done, num, rearm, pc, call>> /\ ~timer
    <3>1. timer => timer' BY <2>1 DEF Cancel, CancelByFrame, ReceivedCredential
    <3>2. UNCHANGED <<running, multi, done, num, rearm, pc, call>>
      BY <2>1 DEF Cancel, CancelByFrame, ReceivedCredential
    <3> QED BY <1>2, <3>1, <3>2
  <2>3. /\ scheduled' # <<>> => scheduled # <<>>
        /\ Len(scheduled') > num => Len(scheduled) > num
    <3>1. List(scheduled) /\ num \in Nat BY CoreFacts DEF Scalars
    <3>2. CASE scheduled' = scheduled BY <3>2
    <3>3. CASE scheduled' = Without(scheduled, j)
      <4>1. Len(scheduled') \in Nat /\ Len(scheduled) \in Nat /\ Len(scheduled') =< Len(scheduled)
        BY <3>1, <3>3, WithoutList, EmptyList DEF List
      <4>2. scheduled' # <<>> => scheduled # <<>>
        BY <3>1, <3>3, WithoutList, EmptyList DEF List
      <4> QED BY <3>1, <4>1, <4>2
    <3> QED BY <2>1, <3>2, <3>3 DEF Cancel, CancelByFrame, ReceivedCredential
  <2>4. jobs[j] \in Job /\ JobOK(j) BY CoreFacts
  <2>5. PICK r : /\ jobs' = [jobs EXCEPT ![j] = r]
                 /\ r.stray = jobs[j].stray /\ r.handle = jobs[j].handle
                 /\ Scheduled(j) \/ ~jobs[j].handle \/ r.cancelled = jobs[j].cancelled
    <3>1. CASE Cancel(j) BY <1>2, <2>4, <3>1 DEF Cancel, SetJob, Job
    <3>2. CASE CancelByFrame(j)
      <4>1. CASE Scheduled(j) BY <2>4, <3>2, <4>1 DEF CancelByFrame, SetJob, Deref, Job
      <4>2. CASE ~Scheduled(j) BY <1>2, <2>4, <3>2, <4>2 DEF CancelByFrame, SetJob, Job
      <4> QED BY <4>1, <4>2
    <3>3. CASE ReceivedCredential(j)
      <4> DEFINE q == [jobs[j] EXCEPT !.auth = TRUE]
      <4>1. /\ q.stray = jobs[j].stray /\ q.handle = jobs[j].handle
            /\ q.cancelled = jobs[j].cancelled
        BY <2>4 DEF Job
      <4>2. jobs' = [jobs EXCEPT ![j] = q] BY <3>3 DEF ReceivedCredential, SetJob
      <4> HIDE DEF q
      <4> QED BY <4>1, <4>2
    <3> QED BY <2>1, <3>1, <3>2, <3>3
  <2>6. Stuck => Stuck' BY <2>2, <2>5, StuckKept
  <2>7. CASE pc # "messages" BY <2>2, <2>3, <2>6, <2>7, SamePhase
  <2>8. CASE pc = "messages"
    <3>1. ReadArmed' BY <2>2, <2>8 DEF TimerInv, ReadArmed
    <3>2. CancelArmed'
      <4> SUFFICES ASSUME call.at \in MessagePlaces, jobs'[call.job].cancelled PROVE FALSE
        BY <2>2 DEF CancelArmed
      <4>1. ~jobs[call.job].cancelled BY <2>2 DEF TimerInv, CancelArmed
      <4>2. call.job = j /\ ~(r.cancelled = jobs[j].cancelled)
        BY <2>5, <4>1 DEF CoreInv, TypeOK
      <4>3. ~Scheduled(j) /\ Running(j)
        BY <2>4, <4>2 DEF JobOK, Called, MessagePlaces, TakenOff
      <4>4. jobs[j].handle BY <2>4, <4>3 DEF JobOK, Placed
      <4> QED BY <2>5, <4>2, <4>3, <4>4
    <3> QED BY <2>2, <2>8, <3>1, <3>2, ReadingPhase
  <2> QED BY <2>7, <2>8
<1> QED BY <1>1, <1>2

\* Starting jobs: whatever is started is counted.
LEMMA StartsArmed ==
    ASSUME CoreInv, TimerInv, CoreInv', NEW j \in Jobs, Starts(j)
    PROVE  TimerInv'
<1>1. pc' = pc /\ pc \in {"start1", "start2"}
  <2>1. CASE Shifts(j)
    <3>1. pc' = pc
      BY <2>1 DEF Starts, StartProhibited, StartData, StartNoMemory, StartRefused, StartRuns,
                  StartReturns, NoMemoryReturns
    <3> QED BY <2>1, <3>1 DEF Shifts, Starting
  <2>2. CASE ~Shifts(j)
    <3>1. StartReturns(j) \/ NoMemoryReturns(j)
      BY <2>2 DEF Starts, StartProhibited, StartData, StartNoMemory, StartRefused, StartRuns
    <3>2. pc' = pc /\ call.at \in StartPlaces
      BY <3>1 DEF StartReturns, NoMemoryReturns, Returns, StartPlaces
    <3> QED BY <3>2, CoreFacts DEF CallMatchesPhase
  <2> QED BY <2>1, <2>2
<1>2. CASE rearm' BY <1>1, <1>2, RearmingNow DEF Resting
<1>3. CASE ~rearm'
  <2>1. StartProhibited(j) \/ StartReturns(j) \/ NoMemoryReturns(j)
    BY <1>3 DEF Starts, StartData, StartNoMemory, StartRefused, StartRuns
  <2>2. UNCHANGED <<multi, timer, rearm>>
    BY <2>1 DEF StartProhibited, StartReturns, NoMemoryReturns
  <2>3. scheduled' # <<>> => scheduled # <<>>
    BY <2>1 DEF StartProhibited, StartReturns, NoMemoryReturns, Shifts
  <2> QED BY <1>1, <2>2, <2>3, SamePhase
<1> QED BY <1>2, <1>3

\* removeFromCurl() arms the timer or takes the job out of the multi handle.
LEMMA RemoveFromCurlArmed ==
    ASSUME CoreInv, TimerInv, NEW j \in Jobs, NEW r, RemoveFromCurl(j, r), pc = "messages", pc' = pc,
           rearm' = rearm, done' \in {done, done \ {j}}, call.job \in {j, NoJob}, call'.job = NoJob,
           call'.at = "none"
    PROVE  TimerInv'
<1>1. CASE timer' BY <1>1, ArmedNow
<1>2. CASE ~timer'
  <2>1. multi' = multi \ {j} /\ timer' = timer BY <1>2 DEF RemoveFromCurl, AddAgain
  <2>2. rearm \/ multi \subseteq done \cup {call.job} BY <1>2, <2>1 DEF TimerInv, ReadArmed
  <2>3. NoJob \notin multi BY CoreFacts, NoJobAssumption
  <2>4. rearm' \/ multi' \subseteq done' \cup {call'.job} BY <2>1, <2>2, <2>3
  <2>5. ReadArmed' BY <2>4 DEF ReadArmed
  <2>6. CancelArmed' BY DEF CancelArmed, MessagePlaces
  <2> QED BY <2>5, <2>6, ReadingPhase
<1> QED BY <1>1, <1>2

\* A message makes the manager call the job's client: the job stays covered by
\* the call.
LEMMA MessageCallArmed ==
    ASSUME CoreInv, TimerInv, NEW j \in Jobs, pc = "messages", pc' = pc, rearm' = rearm,
           timer' = timer, multi' = multi, done' \in {done, done \ {j}},
           call.job \in {j, NoJob}, call'.job = j,
           ~jobs[j].cancelled \/ timer, jobs'[j].cancelled = jobs[j].cancelled
    PROVE  TimerInv'
<1>1. NoJob \notin multi BY CoreFacts, NoJobAssumption
<1>2. rearm \/ timer \/ multi \subseteq done \cup {call.job} BY DEF TimerInv, ReadArmed
<1>3. ReadArmed' BY <1>1, <1>2 DEF ReadArmed
<1>4. CancelArmed' BY DEF CancelArmed
<1> QED BY <1>3, <1>4, ReadingPhase

\* Reading a message.
LEMMA MessageReadArmed ==
    ASSUME CoreInv, TimerInv, CoreInv', NEW j \in Jobs,
           \/ MessageStale(j) \/ MessageKnownCredential(j) \/ MessageChallenge(j)
           \/ MessageLocal(j) \/ MessageResult(j) \/ MessageSSLReconnect(j)
    PROVE  TimerInv'
<1>1. Reading(j)
  BY DEF MessageStale, MessageKnownCredential, MessageChallenge, MessageLocal, MessageResult,
         MessageSSLReconnect, Fresh
<1>2. pc = "messages" /\ call.job = NoJob /\ call.at = "none"
  BY <1>1, QuietPhase DEF Reading
<1>3. pc' = pc /\ rearm' = rearm /\ done' = done \ {j}
  BY DEF MessageStale, MessageKnownCredential, MessageChallenge, MessageLocal, MessageResult,
         MessageSSLReconnect
<1>4. CASE MessageStale(j) \/ MessageKnownCredential(j) \/ MessageSSLReconnect(j)
  <2>1. PICK r : RemoveFromCurl(j, r)
    BY <1>4 DEF MessageStale, MessageKnownCredential, MessageSSLReconnect
  <2>2. call' = call BY <1>4 DEF MessageStale, MessageKnownCredential, MessageSSLReconnect
  <2> QED BY <1>2, <1>3, <2>1, <2>2, RemoveFromCurlArmed
<1>5. CASE MessageChallenge(j)
  <2>1. ~jobs[j].cancelled /\ call'.job = j /\ timer' = timer /\ multi' = multi
    BY <1>5 DEF MessageChallenge, Fresh, Call
  <2>2. jobs[j] \in Job BY CoreFacts
  <2> DEFINE q == [jobs[j] EXCEPT !.tries = @ + 1]
  <2>3. q.cancelled = jobs[j].cancelled BY <2>2 DEF Job
  <2>4. jobs' = [jobs EXCEPT ![j] = q] BY <1>5 DEF MessageChallenge, SetJob
  <2> HIDE DEF q
  <2>5. jobs'[j].cancelled = jobs[j].cancelled BY <2>3, <2>4, Written
  <2> QED BY <1>2, <1>3, <2>1, <2>5, MessageCallArmed
<1>6. CASE MessageLocal(j)
  <2>1. ~jobs[j].cancelled /\ call'.job = j /\ timer' = timer /\ multi' = multi /\ jobs' = jobs
    BY <1>6 DEF MessageLocal, Fresh, Call
  <2> QED BY <1>2, <1>3, <2>1, MessageCallArmed
<1>7. CASE MessageResult(j)
  <2>1. ~jobs[j].cancelled /\ timer' = timer /\ multi' = multi /\ TellEnd(j, jobs[j], "result")
    BY <1>7 DEF MessageResult, Fresh, TellResult
  <2>2. call'.job = j /\ jobs'[j].cancelled = jobs[j].cancelled BY <2>1, TellEndFields
  <2> QED BY <1>2, <1>3, <2>1, <2>2, MessageCallArmed
<1> QED BY <1>4, <1>5, <1>6, <1>7

\* A client that was called about a message returns.
LEMMA MessageReturnArmed ==
    ASSUME CoreInv, TimerInv, CoreInv', NEW j \in Jobs,
           ChallengeReturns(j) \/ ResponseReturns(j) \/ ResultReturns(j)
    PROVE  TimerInv'
<1>1. call.job = j /\ call.at \in MessagePlaces
  BY DEF ChallengeReturns, ResponseReturns, ResultReturns, Returns, MessagePlaces
<1>2. pc = "messages" BY <1>1, CoreFacts DEF CallMatchesPhase
<1>3. pc' = pc /\ rearm' = rearm /\ done' = done
  BY DEF ChallengeReturns, ResponseReturns, ResultReturns
<1>4. ~jobs[j].cancelled \/ timer BY <1>1 DEF TimerInv, CancelArmed
<1>5. JobOK(j) BY CoreFacts
<1>6. Running(j) BY <1>1, <1>5 DEF JobOK, Called, MessagePlaces, TakenOff
<1>7. jobs[j].handle BY <1>5, <1>6 DEF JobOK, Placed
<1>8. CASE RemoveFromCurl(j, jobs[j]) /\ call' = NoCall
  <2>1. call'.job = NoJob /\ call'.at = "none" BY <1>8 DEF NoCall
  <2> QED BY <1>1, <1>2, <1>3, <1>8, <2>1, RemoveFromCurlArmed
<1>9. CASE TellResult(j)
  <2>1. timer' = timer /\ multi' = multi /\ TellEnd(j, jobs[j], "result") BY <1>9 DEF TellResult
  <2>2. call'.job = j /\ jobs'[j].cancelled = jobs[j].cancelled BY <2>1, TellEndFields
  <2> QED BY <1>1, <1>2, <1>3, <1>4, <2>1, <2>2, MessageCallArmed
<1>10. CASE ChallengeReturns(j)
  <2>1. CASE jobs[j].cancelled \/ jobs[j].auth BY <1>8, <1>10, <2>1 DEF ChallengeReturns
  <2>2. CASE ~(jobs[j].cancelled \/ jobs[j].auth)
    <3>1. call'.job = j /\ timer' = timer /\ multi' = multi /\ jobs' = jobs
      BY <1>10, <2>2 DEF ChallengeReturns, Call
    <3> QED BY <1>1, <1>2, <1>3, <1>4, <3>1, MessageCallArmed
  <2> QED BY <2>1, <2>2
<1>11. CASE ResponseReturns(j) BY <1>8, <1>9, <1>11 DEF ResponseReturns
<1>12. CASE ResultReturns(j)
  <2>1. CASE ~jobs[j].cancelled BY <1>6, <1>7, <1>8, <1>12, <2>1 DEF ResultReturns
  <2>2. CASE jobs[j].cancelled
    <3>1. timer' = timer BY <1>12, <2>2 DEF ResultReturns
    <3> QED BY <1>4, <2>2, <3>1, ArmedNow
  <2> QED BY <2>1, <2>2
<1> QED BY <1>10, <1>11, <1>12

\* The sweep takes transfers out of the multi handle.
LEMMA SweepArmed ==
    ASSUME CoreInv, TimerInv, CoreInv', NEW j \in Jobs, Sweep(j)
    PROVE  TimerInv'
<1>1. /\ pc = "sweep" /\ pc' = "sweep" /\ UNCHANGED <<timer, rearm>> /\ multi' = multi \ {j}
  BY DEF Sweep
<1>2. SweptArmed' BY <1>1 DEF TimerInv, SweptArmed
<1>3. RestArmed' /\ LeftArmed' BY <1>1 DEF Resting, RestArmed, LeftArmed
<1> QED BY <1>1, <1>2, <1>3, OutsideMessages DEF TimerInv

\* setProxyInfo() ends the loads: work only gets less.
LEMMA AbortsArmed ==
    ASSUME CoreInv, TimerInv, CoreInv', NEW j \in Jobs, Aborts(j)
    PROVE  TimerInv'
<1>1. pc' = pc /\ rearm' = rearm /\ multi' \subseteq multi /\ (timer => timer')
  <2>1. CASE AbortScheduled(j) \/ AbortRunning(j)
    <3>1. UNCHANGED <<pc, rearm, multi, timer>>
      BY <2>1 DEF AbortScheduled, AbortRunning
    <3> QED BY <3>1
  <2>2. CASE AbortScheduledReturns(j) BY <2>2 DEF AbortScheduledReturns
  <2>3. CASE AbortRunningReturns(j) BY <2>3 DEF AbortRunningReturns
  <2> QED BY <2>1, <2>2, <2>3 DEF Aborts
<1>2. pc \in {"abortScheduled", "abortRunning"}
  <2>1. CASE call.at \in {"abortScheduled", "abortRunning"} BY <2>1, CoreFacts DEF CallMatchesPhase
  <2>2. CASE call.at \notin {"abortScheduled", "abortRunning"}
    BY <2>2 DEF Aborts, AbortScheduled, AbortScheduledReturns, AbortRunning, AbortRunningReturns,
                AbortingScheduled, Returns
  <2> QED BY <2>1, <2>2
<1>3. /\ scheduled' # <<>> => scheduled # <<>>
      /\ Len(scheduled') > num' => Len(scheduled) > num
  <2>1. CASE AbortScheduled(j)
    <3>1. List(scheduled) /\ num \in 1..Len(scheduled) /\ num \in Nat /\ num' = num - 1
          /\ scheduled' = RemoveAt(scheduled, num)
      BY <2>1, CoreFacts DEF AbortScheduled, Scalars
    <3>2. Len(scheduled') = Len(scheduled) - 1 /\ Len(scheduled) \in Nat
      BY <3>1, RemoveAtList, EmptyList DEF List
    <3>3. scheduled # <<>> BY <3>1, EmptyList DEF List
    <3> QED BY <3>1, <3>2, <3>3
  <2>2. CASE ~AbortScheduled(j)
    BY <2>2 DEF Aborts, AbortScheduledReturns, AbortRunning, AbortRunningReturns
  <2> QED BY <2>1, <2>2
<1> QED BY <1>1, <1>2, <1>3, SamePhase

\* Jobs are left scheduled only when there are running ones.
LEMMA NoRoomRuns == ASSUME CoreInv, ~HasRoom PROVE multi # {} \/ Stuck
<1>1. List(running) /\ max \in Nat BY CoreFacts, LimitsAssumption DEF Scalars
<1>2. running # <<>>
  <2>1. SUFFICES ASSUME running = <<>> PROVE FALSE OBVIOUS
  <2>2. Len(running) = 0 BY <2>1
  <2>3. max # 0 /\ ~(0 < 2 * max) BY <2>1, <2>2 DEF HasRoom
  <2> QED BY <1>1, <2>3
<1>3. PICK j \in Jobs : Running(j) BY <1>1, <1>2, EmptyList DEF List, Running
<1> QED BY <1>3, CoreFacts DEF JobOK, Placed, Stuck

\* From phase to phase, cover is handed on, up to the timer itself.
LEMMA PhaseArmed ==
    ASSUME CoreInv, TimerInv, CoreInv', Phase
    PROVE  TimerInv'
<1>1. CASE TimerFires BY <1>1, PerformingNow DEF TimerFires
<1>2. CASE StartsEnd
  <2>1. CASE pc = "start1" BY <1>2, <2>1, PerformingNow DEF StartsEnd
  <2>2. CASE pc # "start1"
    <3>1. /\ pc = "start2" /\ pc' = "rearm" /\ rearm' = (rearm \/ HasRoom)
          /\ UNCHANGED <<jobs, scheduled, running, multi, timer>> /\ (~HasRoom \/ scheduled = <<>>)
      BY <1>2, <2>2 DEF StartsEnd, Starting
    <3>2. CASE HasRoom BY <3>1, <3>2, RearmingNow DEF Resting
    <3>3. CASE ~HasRoom
      <4>1. multi # {} => rearm \/ timer BY <3>1 DEF TimerInv, SweptArmed
      <4>2. SweptArmed' BY <3>1, <4>1 DEF SweptArmed
      <4>3. Stuck => Stuck' BY <3>1 DEF Stuck, Running
      <4>4. LeftArmed' BY <3>1, <3>3, <4>1, <4>3, NoRoomRuns DEF LeftArmed
      <4>5. RestArmed' BY <3>1 DEF Resting, RestArmed
      <4>6. CancelArmed' /\ ReadArmed' BY <3>1, OutsideMessages
      <4> QED BY <4>2, <4>4, <4>5, <4>6 DEF TimerInv
    <3> QED BY <3>2, <3>3
  <2> QED BY <2>1, <2>2
<1>3. CASE PerformEnds
  <2>1. /\ pc' = "messages" /\ rearm' = (multi \ done # {}) /\ UNCHANGED <<multi, done, call>>
        /\ call.at = "none"
    BY <1>3 DEF PerformEnds, Quiet
  <2>2. ReadArmed' BY <2>1 DEF ReadArmed
  <2>3. CancelArmed' BY <2>1 DEF CancelArmed, MessagePlaces
  <2> QED BY <2>1, <2>2, <2>3, ReadingPhase
<1>4. CASE MessagesEnd
  <2>1. /\ pc = "messages" /\ pc' = "sweep" /\ done = {} /\ UNCHANGED <<multi, timer, rearm>>
    BY <1>4 DEF MessagesEnd
  <2>2. call.job = NoJob BY <1>4, QuietPhase DEF MessagesEnd
  <2>3. NoJob \notin multi BY CoreFacts, NoJobAssumption
  <2>4. multi # {} => rearm \/ timer BY <2>1, <2>2, <2>3 DEF TimerInv, ReadArmed
  <2>5. SweptArmed' BY <2>1, <2>4 DEF SweptArmed
  <2>6. RestArmed' /\ LeftArmed'
    BY <2>1 DEF Resting, RestArmed, LeftArmed
  <2> QED BY <2>1, <2>5, <2>6, OutsideMessages DEF TimerInv
<1>5. CASE SweepEnds
  <2>1. /\ pc = "sweep" /\ pc' \in {"start2", "rearm"} /\ (pc' = "rearm" => scheduled = <<>>)
        /\ UNCHANGED <<scheduled, multi, timer, rearm>>
    BY <1>5 DEF SweepEnds
  <2>2. multi # {} => rearm \/ timer BY <2>1 DEF TimerInv, SweptArmed
  <2>3. SweptArmed' BY <2>1, <2>2 DEF SweptArmed
  <2>4. RestArmed' /\ LeftArmed' BY <2>1 DEF Resting, RestArmed, LeftArmed
  <2>5. CancelArmed' /\ ReadArmed' BY <2>1, OutsideMessages
  <2> QED BY <2>3, <2>4, <2>5 DEF TimerInv
<1>6. CASE TimerRearms
  <2>1. /\ pc = "rearm" /\ pc' = "idle" /\ timer' = (timer \/ rearm)
        /\ UNCHANGED <<jobs, scheduled, running, multi>>
    BY <1>6 DEF TimerRearms
  <2>2. multi # {} => timer' BY <2>1 DEF TimerInv, SweptArmed
  <2>3. scheduled # <<>> => timer' \/ Stuck' BY <2>1 DEF TimerInv, LeftArmed, Stuck, Running
  <2>4. RestArmed' BY <2>1, <2>2, <2>3 DEF RestArmed
  <2>5. SweptArmed' /\ LeftArmed' BY <2>1 DEF SweptArmed, LeftArmed
  <2>6. CancelArmed' /\ ReadArmed' BY <2>1, OutsideMessages
  <2> QED BY <2>4, <2>5, <2>6 DEF TimerInv
<1>7. CASE AbortBeyondList BY <1>7, PerformingNow DEF AbortBeyondList
<1>8. CASE AbortScheduledEnds
  <2>1. /\ pc = "abortScheduled" /\ pc' = "abortRunning" /\ num = 0
        /\ UNCHANGED <<scheduled, multi, timer>>
    BY <1>8 DEF AbortScheduledEnds, AbortingScheduled
  <2>2. scheduled # <<>> => Len(scheduled) > num
    <3>1. List(scheduled) BY CoreFacts
    <3> QED BY <2>1, <3>1, EmptyList DEF List
  <2>3. RestArmed' BY <2>1, <2>2 DEF TimerInv, RestArmed, Resting
  <2>4. SweptArmed' /\ LeftArmed' BY <2>1 DEF SweptArmed, LeftArmed
  <2>5. CancelArmed' /\ ReadArmed' BY <2>1, OutsideMessages
  <2> QED BY <2>3, <2>4, <2>5 DEF TimerInv
<1>9. CASE RenewMulti
  <2>1. /\ pc = "abortRunning" /\ pc' = "idle" /\ multi' = {} /\ UNCHANGED <<scheduled, timer>>
    BY <1>9 DEF RenewMulti
  <2>2. RestArmed' BY <2>1 DEF TimerInv, RestArmed, Resting
  <2>3. SweptArmed' /\ LeftArmed' BY <2>1 DEF SweptArmed, LeftArmed
  <2>4. CancelArmed' /\ ReadArmed' BY <2>1, OutsideMessages
  <2> QED BY <2>2, <2>3, <2>4 DEF TimerInv
<1> QED BY <1>1, <1>2, <1>3, <1>4, <1>5, <1>6, <1>7, <1>8, <1>9 DEF Phase

\* The embedder's calls that concern no job.
LEMMA EmbedderArmed ==
    ASSUME CoreInv, TimerInv, CoreInv',
           \/ ClearCookies \/ WebSocketShares
           \/ (\E n \in Limits : SetMaxHTTPConnections(n)) \/ SetProxyInfo \/ UNCHANGED vars
    PROVE  TimerInv'
<1>1. UNCHANGED <<jobs, scheduled, running, multi, done, timer, rearm, call>>
  BY DEF ClearCookies, WebSocketShares, SetMaxHTTPConnections, SetProxyInfo, vars
<1>2. Stuck => Stuck' BY <1>1 DEF Stuck, Running
<1>3. CASE SetProxyInfo
  <2>1. pc = "idle" /\ pc' = "abortScheduled" /\ num' = Len(scheduled) BY <1>3 DEF SetProxyInfo
  <2>2. ~(Len(scheduled') > num')
    <3>1. List(scheduled) BY CoreFacts
    <3> QED BY <1>1, <2>1, <3>1, EmptyList DEF List
  <2>3. RestArmed' BY <1>1, <2>1, <2>2 DEF TimerInv, RestArmed, Resting
  <2>4. SweptArmed' /\ LeftArmed' BY <2>1 DEF SweptArmed, LeftArmed
  <2>5. CancelArmed' /\ ReadArmed' BY <2>1, OutsideMessages
  <2> QED BY <2>3, <2>4, <2>5 DEF TimerInv
<1>4. CASE ~SetProxyInfo
  <2>1. pc' = pc /\ num' = num BY <1>4 DEF ClearCookies, WebSocketShares, SetMaxHTTPConnections, vars
  <2>2. CASE pc # "messages" BY <1>1, <1>2, <2>1, <2>2, SamePhase
  <2>3. CASE pc = "messages"
    <3>1. ReadArmed' /\ CancelArmed' BY <1>1, <2>1 DEF TimerInv, ReadArmed, CancelArmed
    <3> QED BY <2>1, <2>3, <3>1, ReadingPhase
  <2> QED BY <2>2, <2>3
<1> QED BY <1>3, <1>4

\* Every step of the main thread keeps the timer's invariant.
LEMMA StepArmed == CoreInv /\ TimerInv /\ CoreInv' /\ [Next]_vars => TimerInv'
<1> SUFFICES ASSUME CoreInv, TimerInv, CoreInv', [Next]_vars PROVE TimerInv'
  OBVIOUS
<1>1. ASSUME NEW j \in Jobs, ClientActs(j) \/ Starts(j) \/ Sweep(j) \/ Aborts(j)
      PROVE  TimerInv'
  BY <1>1, ClientActsArmed, StartsArmed, SweepArmed, AbortsArmed
<1>2. ASSUME NEW j \in Jobs, Transfers(j)
      PROVE  TimerInv'
  <2>1. pc' = pc
    BY <1>2 DEF Transfers, Receive, ReceiveReturns, ReceiveRedirect, RedirectReturns, Complete
  <2>2. pc = "perform"
    <3>1. CASE call.at \in {"receive", "redirect"} BY <3>1, CoreFacts DEF CallMatchesPhase
    <3>2. CASE call.at \notin {"receive", "redirect"}
      BY <1>2, <3>2 DEF Transfers, Receive, ReceiveReturns, ReceiveRedirect, RedirectReturns,
                        Complete, Performing, Returns
    <3> QED BY <3>1, <3>2
  <2> QED BY <2>1, <2>2, PerformingNow
<1>3. ASSUME NEW j \in Jobs, Messages(j)
      PROVE  TimerInv'
  BY <1>3, MessageReadArmed, MessageReturnArmed DEF Messages
<1>4. CASE Wild \/ UNCHANGED vars BY <1>4, EmbedderArmed DEF Wild
<1> QED BY <1>1, <1>2, <1>3, <1>4, PhaseArmed, EmbedderArmed DEF Next

\* No wake-up is lost: whichever exits of downloadTimerCallback(), of the clients
\* it called and of setProxyInfo() led back to the main loop, the download timer
\* is armed for cURL's transfers and, unless a job is stuck in the running list,
\* for the jobs that wait.
THEOREM NoLostWakeUp == Spec => []TimerArmed
<1>1. Init => TimerInv
  BY DEF Init, NoCall, MessagePlaces, TimerInv, Resting, RestArmed, ReadArmed, CancelArmed,
         SweptArmed, LeftArmed
<1>2. ASSUME TimerInv PROVE TimerArmed
  BY <1>2 DEF TimerInv, RestArmed, Resting, TimerArmed
<1> QED BY <1>1, <1>2, Invariance, StepArmed, PTL DEF Spec

=============================================================================
