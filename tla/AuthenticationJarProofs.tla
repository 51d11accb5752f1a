----------------------- MODULE AuthenticationJarProofs -----------------------
(***************************************************************************)
(* Credentials go to the host and the proxy they were entered for, or with *)
(* a redirection, and no entry of the jar is stored twice, for any jobs,   *)
(* requests, proxies and answers.                                          *)
(***************************************************************************)
EXTENDS AuthenticationJar, SequenceTheorems, WellFoundedInduction, TLAPS

----------------------------------------------------------------------------
(* Least and longest.                                                       *)

\* A set of naturals has a least element, which Min chooses.
LEMMA LeastOf ==
    ASSUME NEW S \in SUBSET Nat, S # {}
    PROVE  Min(S) \in S /\ \A y \in S : Min(S) <= y
<1> DEFINE R == OpToRel(<, Nat)
<1>1. \E x \in S : \A y \in S : <<y, x>> \notin R BY NatLessThanWellFounded, WFMin
<1>2. \A x \in S, y \in S : y < x => <<y, x>> \in R BY DEF OpToRel
<1> HIDE DEF R
<1>3. \E x \in S : \A y \in S : ~(y < x) BY <1>1, <1>2
<1>4. \A x, y \in S : ~(y < x) => x <= y OBVIOUS
<1>5. \E x \in S : \A y \in S : x <= y BY <1>3, <1>4
<1> QED BY <1>5 DEF Min

\* Of finitely many entries one has the longest path, and longer() finds it.
LEMMA LongestOf ==
    ASSUME NEW n \in Nat, NEW S \in SUBSET (1..n), S # {}, NEW f, \A i \in S : f[i] \in Nat
    PROVE  Longest(S, f) \in S
<1> DEFINE G(m) == \E i \in S : i <= m /\ \A k \in S : k <= m => f[k] <= f[i]
           T == {m \in 1..n : (\E i \in S : i <= m) /\ ~G(m)}
<1>1. T = {}
  <2> SUFFICES ASSUME T # {} PROVE FALSE OBVIOUS
  <2> DEFINE m == Min(T)
  <2>0. T \in SUBSET Nat
    <3>1. T \in SUBSET (1..n) OBVIOUS
    <3>2. 1..n \subseteq Nat OBVIOUS
    <3> HIDE DEF T
    <3> QED BY <3>1, <3>2
  <2>1. m \in T /\ \A y \in T : m <= y BY <2>0, LeastOf
  <2> HIDE DEF m
  <2>2. m \in 1..n /\ ~G(m) /\ \E i \in S : i <= m BY <2>1
  <2>3. CASE \E i \in S : i <= m - 1
    <3>1. m - 1 \in 1..n
      <4>1. PICK i \in S : i <= m - 1 BY <2>3
      <4>2. i \in 1..n /\ m \in 1..n BY <2>2
      <4> HIDE DEF G
      <4> QED BY <4>1, <4>2
    <3>2. G(m - 1)
      <4>1. ~(m <= m - 1) BY <2>2
      <4>2. m - 1 \notin T BY <2>1, <4>1
      <4> QED BY <2>3, <3>1, <4>2
    <3>3. PICK i \in S : i <= m - 1 /\ \A k \in S : k <= m - 1 => f[k] <= f[i] BY <3>2
    <3>4. \A k \in S : k <= m => k = m \/ k <= m - 1 BY <2>2
    <3>5. CASE m \notin S BY <2>2, <3>3, <3>4, <3>5
    <3>6. CASE m \in S /\ f[m] <= f[i]
      <4>1. i <= m BY <2>2, <3>3
      <4> QED BY <2>2, <3>3, <3>4, <3>6, <4>1
    <3>7. CASE m \in S /\ ~(f[m] <= f[i])
      <4>1. \A k \in S : k <= m - 1 => f[k] <= f[m] BY <3>3, <3>7
      <4>2. f[m] <= f[m] /\ m <= m BY <3>7
      <4> QED BY <2>2, <3>4, <3>7, <4>1, <4>2
    <3> QED BY <3>5, <3>6, <3>7
  <2>4. CASE ~ \E i \in S : i <= m - 1
    <3>1. \A i \in S : i <= m => i = m BY <2>2, <2>4
    <3>2. m \in S /\ f[m] <= f[m] /\ m <= m BY <2>2, <3>1
    <3> QED BY <2>2, <3>1, <3>2
  <2> QED BY <2>3, <2>4
<1>2. G(n)
  <2>1. PICK i \in S : TRUE OBVIOUS
  <2>2. n \in 1..n /\ i <= n BY <2>1
  <2> QED BY <1>1, <2>2
<1> DEFINE L == {i \in S : \A k \in S : f[k] <= f[i]}
<1>3. L # {} BY <1>2
<1>4. L \in SUBSET Nat
  <2>1. L \in SUBSET S OBVIOUS
  <2>2. S \in SUBSET Nat OBVIOUS
  <2> HIDE DEF L
  <2> QED BY <2>1, <2>2
<1>5. Longest(S, f) = Min(L) BY DEF Longest
<1> HIDE DEF L
<1>6. Min(L) \in L BY <1>3, <1>4, LeastOf
<1> QED BY <1>5, <1>6 DEF L

----------------------------------------------------------------------------
(* The entries of servers.                                                  *)

AllSchemes == {NTLM, Digest, Basic, Default} \cup {u.scheme : u \in Urls}
Realms     == {u.realm : u \in Urls} \cup {None}
Paths      == {u.full : u \in Urls} \cup {u.base : u \in Urls} \cup {<<>>}
Creds      == {None} \cup UNION {Credential(h) : h \in Hosts \cup Proxies \cup {None}}

Entry == [scheme : AllSchemes, host : Hosts, realm : Realms, base : Paths, full : Paths,
          confirmed : BOOLEAN, cred : Creds, tmp : Creds]

\* What users entered for the hosts that requests to h come from, by history o.
From(o, h) == {None} \cup UNION {Credential(g) : g \in o[h]}

OriginsOK(o) == o \in [Hosts -> SUBSET Hosts] /\ \A h \in Hosts : h \in o[h]

\* What an entry holds was entered for its host, or for one that redirected to it.
Honest(e, o) == e.cred \in From(o, e.host) /\ e.tmp \in From(o, e.host)

\* Two entries that setWebUserPassword() tells apart.
Apart(e, f) == \/ e.host # f.host
               \/ e.scheme # f.scheme
               \/ e.scheme # NTLM /\ (e.realm # f.realm \/ e.full # f.full)

WebOK(l, o) ==
    /\ l \in Seq(Entry)
    /\ \A i \in 1..Len(l) : Honest(l[i], o)
    /\ \A i, k \in 1..Len(l) : i # k => Apart(l[i], l[k])

\* Paths have lengths.
LEMMA PathLengths == \A p \in Paths : Len(p) \in Nat
BY PathAssumption DEF Paths

\* What may be kept for a host is a credential, what was entered for it may be kept.
LEMMA FromFacts ==
    ASSUME NEW o, OriginsOK(o), NEW h \in Hosts
    PROVE  From(o, h) \subseteq Creds /\ Credential(h) \subseteq From(o, h) /\ None \in From(o, h)
<1>1. o[h] \subseteq Hosts /\ h \in o[h] BY DEF OriginsOK
<1>2. None \in From(o, h) BY DEF From
<1>3. \A g \in o[h] : Credential(g) \subseteq From(o, h) BY DEF From
<1>4. ASSUME NEW c \in From(o, h) PROVE c \in Creds
  <2>1. CASE c = None BY <2>1 DEF Creds
  <2>2. CASE c # None
    <3>1. PICK g \in o[h] : c \in Credential(g) BY <2>2, Zenon DEF From
    <3>2. g \in Hosts \cup Proxies \cup {None} BY <1>1, <3>1
    <3> QED BY <3>1, <3>2, Zenon DEF Creds
  <2> QED BY <2>1, <2>2
<1> QED BY <1>1, <1>2, <1>3, <1>4

\* What is found concerns the host of the request.
LEMMA FoundFacts ==
    ASSUME NEW o, NEW l, WebOK(l, o), NEW u \in Urls, NEW realm
    PROVE  \/ Found(l, u, realm) = 0
           \/ Found(l, u, realm) \in 1..Len(l) /\ l[Found(l, u, realm)].host = u.host
<1> DEFINE n == Len(l)
           H == {i \in DOMAIN l : Concerns(l[i], u, realm)}
           E == {i \in H : l[i].full = u.full}
           F == {i \in H : IsPrefix(l[i].full, u.full)}
           B == {i \in H \ F : IsPrefix(l[i].base, u.full)}
           ff == [i \in F |-> Len(l[i].full)]
           fb == [i \in B |-> Len(l[i].base)]
<1>1. n \in Nat /\ DOMAIN l = 1..n /\ \A i \in 1..n : l[i] \in Entry BY DEF WebOK
<1>2. \A i \in 1..n : l[i].full \in Paths /\ l[i].base \in Paths BY <1>1 DEF Entry
<1>3. /\ H \in SUBSET (1..n) /\ E \in SUBSET H /\ F \in SUBSET H /\ B \in SUBSET H
      /\ \A i \in H : l[i].host = u.host
  BY <1>1 DEF Concerns
<1>4. (\A i \in F : ff[i] \in Nat) /\ (\A i \in B : fb[i] \in Nat)
  BY <1>1, <1>2, PathLengths
<1>5. Found(l, u, realm) = CASE E # {} -> Min(E)
                             [] E = {} /\ F # {} -> Longest(F, ff)
                             [] F = {} /\ B # {} -> Longest(B, fb)
                             [] OTHER -> 0
  BY DEF Found
<1> HIDE DEF n, H, E, F, B, ff, fb
<1>6. E # {} => Min(E) \in H
  <2>1. 1..n \subseteq Nat BY <1>1
  <2>2. E \in SUBSET Nat BY <1>3, <2>1
  <2> QED BY <1>3, <2>2, LeastOf
<1>7. F # {} => Longest(F, ff) \in H BY <1>1, <1>3, <1>4, LongestOf
<1>8. B # {} => Longest(B, fb) \in H BY <1>1, <1>3, <1>4, LongestOf
<1>9. Found(l, u, realm) \in H \/ Found(l, u, realm) = 0
  BY <1>5, <1>6, <1>7, <1>8
<1> QED BY <1>3, <1>9 DEF n

\* The credentials returned may go to the host of the request.
LEMMA ReturnedFacts ==
    ASSUME NEW o, NEW l, WebOK(l, o), NEW u \in Urls, NEW realm
    PROVE  Returned(l, u, realm) \in From(o, u.host)
<1> DEFINE i == Found(l, u, realm)
<1>1. CASE i = 0
  <2>1. Returned(l, u, realm) = None BY <1>1 DEF Returned
  <2>2. None \in From(o, u.host) BY Zenon DEF From
  <2> QED BY <2>1, <2>2
<1>2. CASE i # 0
  <2>1. i \in 1..Len(l) /\ l[i].host = u.host BY <1>2, FoundFacts
  <2>2. l[i].cred \in From(o, u.host) /\ l[i].tmp \in From(o, u.host)
    BY <2>1 DEF WebOK, Honest
  <2>3. Returned(l, u, realm) = Used(l[i], IF l[i].full = u.full THEN l[i].confirmed ELSE Last(l).confirmed)
    BY <1>2 DEF Returned
  <2> HIDE DEF i
  <2> QED BY <2>2, <2>3 DEF Used
<1> QED BY <1>1, <1>2

\* A list with one entry replaced by one of the same key.
LEMMA ReplaceOK ==
    ASSUME NEW o, NEW l, WebOK(l, o), NEW i \in 1..Len(l), NEW e \in Entry, Honest(e, o),
           e.host = l[i].host, e.scheme = l[i].scheme, e.realm = l[i].realm, e.full = l[i].full
    PROVE  WebOK([l EXCEPT ![i] = e], o)
<1> DEFINE m == [l EXCEPT ![i] = e]
<1>1. m \in Seq(Entry) /\ Len(m) = Len(l) BY DEF WebOK
<1>2. \A k \in 1..Len(l) : m[k] = IF k = i THEN e ELSE l[k] BY DEF WebOK
<1> HIDE DEF m
<1>3. \A k \in 1..Len(m) : Honest(m[k], o) BY <1>1, <1>2 DEF WebOK
<1>4. \A k \in 1..Len(m) : /\ m[k].host = l[k].host /\ m[k].scheme = l[k].scheme
                           /\ m[k].realm = l[k].realm /\ m[k].full = l[k].full
  BY <1>1, <1>2
<1>5. \A k, q \in 1..Len(m) : k # q => Apart(m[k], m[q]) BY <1>1, <1>4 DEF WebOK, Apart
<1>6. WebOK(m, o) BY <1>1, <1>3, <1>5 DEF WebOK
<1> QED BY <1>6 DEF m

----------------------------------------------------------------------------
(* Searching, appending and removing.                                       *)

\* What SelectInSeq computes from the positions that match.
LEMMA FirstOf ==
    ASSUME NEW n \in Nat, NEW I \in SUBSET (1..n), NEW i, i = IF I # {} THEN Min(I) ELSE 0
    PROVE  (I = {} /\ i = 0) \/ (i \in I /\ i # 0)
<1>1. I \in SUBSET Nat
  <2>1. 1..n \subseteq Nat OBVIOUS
  <2> QED BY <2>1
<1>2. CASE I = {} BY <1>2
<1>3. CASE I # {}
  <2>1. Min(I) \in I BY <1>1, <1>3, LeastOf
  <2>2. i \in 1..n BY <1>3, <2>1
  <2> QED BY <1>3, <2>1, <2>2
<1> QED BY <1>2, <1>3

\* The entry that setWebUserPassword() updates.
Updated(l, u, realm, scheme) == SelectInSeq(l, LAMBDA e : Updates(e, u, realm, scheme))

\* It is one that matches, and there is none only if no entry does.
LEMMA UpdatedFacts ==
    ASSUME NEW l, Len(l) \in Nat, NEW u, NEW realm, NEW scheme
    PROVE  LET i == Updated(l, u, realm, scheme)
           IN  \/ i = 0 /\ \A k \in 1..Len(l) : ~Updates(l[k], u, realm, scheme)
               \/ i \in 1..Len(l) /\ i # 0 /\ Updates(l[i], u, realm, scheme)
<1> DEFINE i == Updated(l, u, realm, scheme)
           I == {k \in 1..Len(l) : Updates(l[k], u, realm, scheme)}
<1>1. i = IF I # {} THEN Min(I) ELSE 0 BY DEF Updated, SelectInSeq
<1>2. I \in SUBSET (1..Len(l)) OBVIOUS
<1>3. \A k \in 1..Len(l) : k \in I <=> Updates(l[k], u, realm, scheme) OBVIOUS
<1> HIDE DEF i, I
<1>4. (I = {} /\ i = 0) \/ (i \in I /\ i # 0) BY <1>1, <1>2, FirstOf
<1>5. \/ i = 0 /\ \A k \in 1..Len(l) : ~Updates(l[k], u, realm, scheme)
      \/ i \in 1..Len(l) /\ i # 0 /\ Updates(l[i], u, realm, scheme)
  BY <1>2, <1>3, <1>4
<1> QED BY <1>5 DEF i

\* The entry that deleteWebUserPassword() removes is one of the list.
LEMMA DoomedFacts ==
    ASSUME NEW l, Len(l) \in Nat, NEW u, NEW realm
    PROVE  Doomed(l, u, realm) = 0 \/ Doomed(l, u, realm) \in 1..Len(l)
<1> DEFINE i == Doomed(l, u, realm)
           I == {k \in 1..Len(l) : /\ Concerns(l[k], u, realm)
                                   /\ l[k].full = u.full /\ l[k].base = u.base}
<1>1. i = IF I # {} THEN Min(I) ELSE 0 BY DEF Doomed, SelectInSeq
<1>2. I \in SUBSET (1..Len(l)) OBVIOUS
<1> HIDE DEF i, I
<1>3. (I = {} /\ i = 0) \/ (i \in I /\ i # 0) BY <1>1, <1>2, FirstOf
<1>4. i = 0 \/ i \in 1..Len(l) BY <1>2, <1>3
<1> QED BY <1>4 DEF i

\* The entry of a proxy.
LEMMA ProxyFoundFacts ==
    ASSUME NEW l, Len(l) \in Nat, NEW p
    PROVE  LET i == ProxyFound(l, p)
           IN  \/ i = 0 /\ \A k \in 1..Len(l) : l[k].proxy # p
               \/ i \in 1..Len(l) /\ i # 0 /\ l[i].proxy = p
<1> DEFINE i == ProxyFound(l, p)
           I == {k \in 1..Len(l) : l[k].proxy = p}
<1>1. i = IF I # {} THEN Min(I) ELSE 0 BY DEF ProxyFound, SelectInSeq
<1>2. I \in SUBSET (1..Len(l)) OBVIOUS
<1>3. \A k \in 1..Len(l) : k \in I <=> l[k].proxy = p OBVIOUS
<1> HIDE DEF i, I
<1>4. (I = {} /\ i = 0) \/ (i \in I /\ i # 0) BY <1>1, <1>2, FirstOf
<1>5. \/ i = 0 /\ \A k \in 1..Len(l) : l[k].proxy # p
      \/ i \in 1..Len(l) /\ i # 0 /\ l[i].proxy = p
  BY <1>2, <1>3, <1>4
<1> QED BY <1>5 DEF i

\* Vector::remove(i).
LEMMA Removed ==
    ASSUME NEW A, NEW s \in Seq(A), NEW i \in 1..Len(s)
    PROVE  /\ RemoveAt(s, i) \in Seq(A) /\ Len(RemoveAt(s, i)) = Len(s) - 1
           /\ \A k \in 1..(Len(s) - 1) : RemoveAt(s, i)[k] = IF k < i THEN s[k] ELSE s[k + 1]
<1> DEFINE n == Len(s)
           t == RemoveAt(s, i)
           a == SubSeq(s, 1, i - 1)
           m == i + 1
           b == SubSeq(s, m, n)
<1>1. n \in Nat /\ \A k \in 1..n : s[k] \in A OBVIOUS
<1>2. a \in Seq(A) /\ Len(a) = i - 1 /\ \A k \in 1..(i - 1) : a[k] = s[k] OBVIOUS
<1>3. m \in Int /\ n \in Int /\ \A k \in m..n : s[k] \in A BY <1>1
<1>4. t = a \o b BY DEF RemoveAt
<1>5. m = i + 1 /\ i \in 1..n OBVIOUS
<1> HIDE DEF n, t, a, m
<1>6. /\ b \in Seq(A)
      /\ Len(b) = IF m <= n THEN n - m + 1 ELSE 0
      /\ \A k \in 1..(n - m + 1) : b[k] = s[m + k - 1]
  BY <1>3, SubSeqProperties
<1> HIDE DEF b
<1>7. Len(b) = n - i BY <1>1, <1>5, <1>6
<1>8. ASSUME NEW k \in 1..(n - i) PROVE b[k] = s[i + k]
  <2>1. k \in 1..(n - m + 1) /\ m + k - 1 = i + k BY <1>1, <1>5
  <2> QED BY <1>6, <2>1
<1>9. /\ t \in Seq(A) /\ Len(t) = Len(a) + Len(b)
      /\ \A k \in 1..(Len(a) + Len(b)) : t[k] = IF k <= Len(a) THEN a[k] ELSE b[k - Len(a)]
  BY <1>2, <1>4, <1>6, ConcatProperties
<1>10. Len(a) + Len(b) = n - 1 BY <1>1, <1>2, <1>5, <1>7
<1>11. ASSUME NEW k \in 1..(n - 1) PROVE t[k] = IF k < i THEN s[k] ELSE s[k + 1]
  <2>1. t[k] = IF k <= i - 1 THEN a[k] ELSE b[k - (i - 1)] BY <1>2, <1>9, <1>10
  <2>2. CASE k < i
    <3>1. k <= i - 1 /\ k \in 1..(i - 1) BY <1>1, <1>5, <2>2
    <3> QED BY <1>2, <2>1, <2>2, <3>1
  <2>3. CASE ~(k < i)
    <3>1. ~(k <= i - 1) /\ k - (i - 1) \in 1..(n - i) /\ i + (k - (i - 1)) = k + 1
      BY <1>1, <1>5, <2>3
    <3>2. b[k - (i - 1)] = s[i + (k - (i - 1))] BY <1>8, <3>1
    <3> QED BY <2>1, <2>3, <3>1, <3>2
  <2> QED BY <2>2, <2>3
<1>12. t \in Seq(A) /\ Len(t) = n - 1 BY <1>9, <1>10
<1> QED BY <1>11, <1>12 DEF t, n

\* Two positions of a shortened list stand for two positions of the list.
LEMMA Positions ==
    ASSUME NEW n \in Nat, NEW i \in 1..n, NEW k \in 1..(n - 1), NEW q \in 1..(n - 1), k # q
    PROVE  LET old(x) == IF x < i THEN x ELSE x + 1
           IN  old(k) \in 1..n /\ old(q) \in 1..n /\ old(k) # old(q)
OBVIOUS

\* deleteWebUserPassword() leaves a good list.
LEMMA WithoutOK ==
    ASSUME NEW o, NEW l, WebOK(l, o), NEW i, i = 0 \/ i \in 1..Len(l)
    PROVE  WebOK(Without(l, i), o)
<1>1. CASE i = 0 BY <1>1 DEF Without
<1>2. CASE i # 0
  <2> DEFINE t == RemoveAt(l, i)
             n == Len(l)
             old(x) == IF x < i THEN x ELSE x + 1
  <2>1. l \in Seq(Entry) /\ n \in Nat /\ i \in 1..n BY <1>2 DEF WebOK
  <2>2. t \in Seq(Entry) /\ Len(t) = n - 1 /\ \A k \in 1..(n - 1) : t[k] = IF k < i THEN l[k] ELSE l[k + 1]
    BY <2>1, Removed
  <2>3. Without(l, i) = t BY <1>2 DEF Without
  <2>4. /\ \A k \in 1..n : Honest(l[k], o)
        /\ \A k, q \in 1..n : k # q => Apart(l[k], l[q])
    BY DEF WebOK
  <2> HIDE DEF t, n
  <2>5. \A k \in 1..(n - 1) : t[k] = l[old(k)] /\ old(k) \in 1..n BY <2>1, <2>2
  <2>6. \A k, q \in 1..(n - 1) : k # q => old(k) # old(q) BY <2>1, Positions
  <2> HIDE DEF old
  <2>7. \A k \in 1..(n - 1) : Honest(t[k], o) BY <2>4, <2>5
  <2>8. \A k, q \in 1..(n - 1) : k # q => Apart(t[k], t[q]) BY <2>4, <2>5, <2>6
  <2> QED BY <2>2, <2>3, <2>7, <2>8 DEF WebOK
<1> QED BY <1>1, <1>2

\* What is entered for a host is a credential.
LEMMA CredTypes ==
    /\ \A h \in Hosts \cup Proxies \cup {None} : \A c \in Credential(h) \cup {None} : c \in Creds
    /\ \A u \in Urls : u.host \in Hosts /\ u.realm \in Realms /\ u.scheme \in AllSchemes
                       /\ u.full \in Paths /\ u.base \in Paths
    /\ None \in Creds /\ None \in Realms /\ <<>> \in Paths
    /\ {NTLM, Digest, Basic, Default} \subseteq AllSchemes
BY DEF Creds, Hosts, Realms, AllSchemes, Paths

\* Credentials written to an entry of their host keep its key and its honesty.
LEMMA StoredOK ==
    ASSUME NEW o, OriginsOK(o), NEW e \in Entry, Honest(e, o), NEW c \in From(o, e.host), NEW confirmed \in BOOLEAN
    PROVE  /\ Stored(e, c, confirmed) \in Entry /\ Honest(Stored(e, c, confirmed), o)
           /\ Stored(e, c, confirmed).host = e.host /\ Stored(e, c, confirmed).scheme = e.scheme
           /\ Stored(e, c, confirmed).realm = e.realm /\ Stored(e, c, confirmed).full = e.full
<1> DEFINE p == [e EXCEPT !.confirmed = TRUE, !.cred = c, !.tmp = None]
           q == [e EXCEPT !.confirmed = FALSE, !.tmp = c]
<1>1. e.host \in Hosts BY DEF Entry
<1>2. c \in Creds /\ None \in Creds BY <1>1, FromFacts
<1>3. /\ p \in Entry /\ p.host = e.host /\ p.scheme = e.scheme /\ p.realm = e.realm
      /\ p.full = e.full /\ p.cred = c /\ p.tmp = None
  BY <1>2 DEF Entry
<1>4. /\ q \in Entry /\ q.host = e.host /\ q.scheme = e.scheme /\ q.realm = e.realm
      /\ q.full = e.full /\ q.cred = e.cred /\ q.tmp = c
  BY <1>2 DEF Entry
<1>5. Stored(e, c, confirmed) = IF confirmed THEN p ELSE q BY DEF Stored
<1> HIDE DEF p, q
<1>6. Honest(p, o) /\ Honest(q, o) BY <1>1, <1>3, <1>4, FromFacts DEF Honest
<1>7. CASE confirmed BY <1>3, <1>5, <1>6, <1>7
<1>8. CASE ~confirmed BY <1>4, <1>5, <1>6, <1>8
<1> QED BY <1>7, <1>8

\* A widened entry keeps its key.
LEMMA WidenedOK ==
    ASSUME NEW o, NEW e \in Entry, Honest(e, o)
    PROVE  LET w == [e EXCEPT !.base = e.full]
           IN  /\ w \in Entry /\ Honest(w, o) /\ w.host = e.host /\ w.scheme = e.scheme
               /\ w.realm = e.realm /\ w.full = e.full
<1> DEFINE w == [e EXCEPT !.base = e.full]
<1>1. /\ w \in Entry /\ w.host = e.host /\ w.scheme = e.scheme /\ w.realm = e.realm
      /\ w.full = e.full /\ w.cred = e.cred /\ w.tmp = e.tmp
  BY DEF Entry
<1> HIDE DEF w
<1>2. Honest(w, o) BY <1>1 DEF Honest
<1>3. /\ w \in Entry /\ Honest(w, o) /\ w.host = e.host /\ w.scheme = e.scheme
      /\ w.realm = e.realm /\ w.full = e.full
  BY <1>1, <1>2
<1> QED BY <1>3 DEF w

\* getWebUserPassword() leaves a good list.
LEMMA AfterGetOK ==
    ASSUME NEW o, NEW l, WebOK(l, o), NEW u \in Urls, NEW realm
    PROVE  WebOK(AfterGet(l, u, realm), o)
<1> DEFINE i == Found(l, u, realm)
           w == [l[i] EXCEPT !.base = l[i].full]
<1>1. CASE i = 0 BY <1>1 DEF AfterGet
<1>2. CASE i # 0
  <2>1. i \in 1..Len(l) BY <1>2, FoundFacts
  <2>2. l[i] \in Entry /\ Honest(l[i], o) BY <2>1 DEF WebOK
  <2>3. /\ w \in Entry /\ Honest(w, o) /\ w.host = l[i].host /\ w.scheme = l[i].scheme
        /\ w.realm = l[i].realm /\ w.full = l[i].full
    BY <2>2, WidenedOK
  <2>4. AfterGet(l, u, realm) = l \/ AfterGet(l, u, realm) = [l EXCEPT ![i] = w]
    BY DEF AfterGet
  <2> HIDE DEF i, w
  <2>5. WebOK([l EXCEPT ![i] = w], o) BY <2>1, <2>3, ReplaceOK
  <2> QED BY <2>4, <2>5
<1> QED BY <1>1, <1>2

\* A new entry that no entry of the list stands for.
LEMMA AppendOK ==
    ASSUME NEW o, NEW l, WebOK(l, o), NEW e \in Entry, Honest(e, o),
           \A k \in 1..Len(l) : Apart(e, l[k]) /\ Apart(l[k], e)
    PROVE  WebOK(Append(l, e), o)
<1> DEFINE t == Append(l, e)
           n == Len(l)
<1>1. l \in Seq(Entry) /\ n \in Nat BY DEF WebOK
<1>2. t \in Seq(Entry) /\ Len(t) = n + 1 /\ t[n + 1] = e /\ \A k \in 1..n : t[k] = l[k] BY <1>1
<1>3. /\ \A k \in 1..n : Honest(l[k], o) /\ Apart(e, l[k]) /\ Apart(l[k], e)
      /\ \A k, q \in 1..n : k # q => Apart(l[k], l[q])
  BY DEF WebOK
<1> HIDE DEF t, n
<1>4. \A k \in 1..(n + 1) : k \in 1..n \/ k = n + 1 BY <1>1
<1>5. \A k \in 1..(n + 1) : Honest(t[k], o) BY <1>2, <1>3, <1>4
<1>6. \A k, q \in 1..(n + 1) : k # q => Apart(t[k], t[q]) BY <1>2, <1>3, <1>4
<1>7. WebOK(t, o) BY <1>2, <1>5, <1>6 DEF WebOK
<1> QED BY <1>7 DEF t

\* setWebUserPassword() leaves a good list when the credentials are for the host.
LEMMA SetOK ==
    ASSUME NEW o, OriginsOK(o), NEW l, WebOK(l, o), NEW u \in Urls, NEW realm \in Realms, NEW scheme \in AllSchemes,
           NEW c \in From(o, u.host), NEW confirmed \in BOOLEAN,
           NEW redirected \in BOOLEAN, NEW folder \in BOOLEAN
    PROVE  WebOK(Set(l, u, realm, scheme, c, confirmed, redirected, folder), o)
<1> DEFINE i == Updated(l, u, realm, scheme)
           w == [l[i] EXCEPT !.base = l[i].full]
           result == Set(l, u, realm, scheme, c, confirmed, redirected, folder)
           new == NewEntry(u, realm, scheme)
<1>1. l \in Seq(Entry) /\ Len(l) \in Nat BY DEF WebOK
<1>2. \/ i = 0 /\ \A k \in 1..Len(l) : ~Updates(l[k], u, realm, scheme)
      \/ i \in 1..Len(l) /\ i # 0 /\ Updates(l[i], u, realm, scheme)
  BY <1>1, UpdatedFacts
<1>3. CASE i # 0
  <2>1. i \in 1..Len(l) /\ l[i].host = u.host BY <1>2, <1>3 DEF Updates
  <2>2. l[i] \in Entry /\ Honest(l[i], o) BY <2>1 DEF WebOK
  <2>3. /\ w \in Entry /\ Honest(w, o) /\ w.host = l[i].host /\ w.scheme = l[i].scheme
        /\ w.realm = l[i].realm /\ w.full = l[i].full
    BY <2>2, WidenedOK
  <2>4. \/ result = [l EXCEPT ![i] = Stored(l[i], c, confirmed)]
        \/ result = [l EXCEPT ![i] = Stored(w, c, confirmed)]
    <3> DEFINE IsFolder == folder /\ scheme # NTLM /\ l[i].full = u.full
               v == IF IsFolder THEN [l EXCEPT ![i] = w] ELSE l
    <3>1. result = [v EXCEPT ![i] = Stored(v[i], c, confirmed)] BY <1>3 DEF Set, Updated
    <3> HIDE DEF w, i, result
    <3>2. CASE IsFolder
      <4>1. v = [l EXCEPT ![i] = w] /\ v[i] = w BY <1>1, <2>1, <3>2
      <4>2. [v EXCEPT ![i] = Stored(w, c, confirmed)] = [l EXCEPT ![i] = Stored(w, c, confirmed)]
        BY <1>1, <2>1, <4>1
      <4> QED BY <3>1, <4>1, <4>2
    <3>3. CASE ~IsFolder BY <3>1, <3>3
    <3> QED BY <3>2, <3>3
  <2> HIDE DEF w, i, result
  <2>5. /\ WebOK([l EXCEPT ![i] = Stored(l[i], c, confirmed)], o)
        /\ WebOK([l EXCEPT ![i] = Stored(w, c, confirmed)], o)
    <3> DEFINE e == Stored(l[i], c, confirmed)
               f == Stored(w, c, confirmed)
    <3>1. /\ e \in Entry /\ Honest(e, o) /\ e.host = l[i].host /\ e.scheme = l[i].scheme
          /\ e.realm = l[i].realm /\ e.full = l[i].full
      BY <2>1, <2>2, StoredOK
    <3>2. /\ f \in Entry /\ Honest(f, o) /\ f.host = l[i].host /\ f.scheme = l[i].scheme
          /\ f.realm = l[i].realm /\ f.full = l[i].full
      BY <2>1, <2>3, StoredOK
    <3> HIDE DEF e, f
    <3>3. WebOK([l EXCEPT ![i] = e], o) BY <2>1, <3>1, ReplaceOK
    <3>4. WebOK([l EXCEPT ![i] = f], o) BY <2>1, <3>2, ReplaceOK
    <3> QED BY <3>3, <3>4 DEF e, f
  <2> QED BY <2>4, <2>5 DEF result
<1>4. CASE i = 0 /\ redirected
  <2>1. result = l BY <1>4 DEF Set, Updated
  <2> QED BY <2>1
<1>5. CASE i = 0 /\ ~redirected
  <2> DEFINE e == Stored(new, c, confirmed)
  <2>1. result = Append(l, e) BY <1>5 DEF Set, Updated
  <2>2. /\ new \in Entry /\ Honest(new, o) /\ new.host = u.host /\ new.scheme = scheme
        /\ new.realm = realm /\ (scheme # NTLM => new.full = u.full)
    BY CredTypes, FromFacts DEF NewEntry, Entry, Honest
  <2> HIDE DEF new
  <2>3. /\ e \in Entry /\ Honest(e, o) /\ e.host = u.host /\ e.scheme = scheme
        /\ e.realm = realm /\ (scheme # NTLM => e.full = u.full)
    BY <2>2, StoredOK
  <2> HIDE DEF e, result
  <2>4. \A k \in 1..Len(l) : Apart(e, l[k]) /\ Apart(l[k], e)
    BY <1>2, <1>5, <2>3 DEF Apart, Updates
  <2>5. WebOK(Append(l, e), o) BY <2>3, <2>4, AppendOK
  <2> QED BY <2>1, <2>5 DEF result
<1> QED BY <1>3, <1>4, <1>5

----------------------------------------------------------------------------
(* The entries of proxies.                                                  *)

ProxyEntry == [proxy : Proxies, scheme : AllSchemes, cred : Creds]

ProxyOK(l) ==
    /\ l \in Seq(ProxyEntry)
    /\ \A i \in 1..Len(l) : l[i].cred \in Credential(l[i].proxy) \cup {None}
    /\ \A i, k \in 1..Len(l) : i # k => l[i].proxy # l[k].proxy

\* Removing an entry leaves a good list.
LEMMA WithoutProxyOK ==
    ASSUME NEW l, ProxyOK(l), NEW i, i = 0 \/ i \in 1..Len(l)
    PROVE  ProxyOK(Without(l, i))
<1>1. CASE i = 0 BY <1>1 DEF Without
<1>2. CASE i # 0
  <2> DEFINE t == RemoveAt(l, i)
             n == Len(l)
             old(x) == IF x < i THEN x ELSE x + 1
  <2>1. l \in Seq(ProxyEntry) /\ n \in Nat /\ i \in 1..n BY <1>2 DEF ProxyOK
  <2>2. t \in Seq(ProxyEntry) /\ Len(t) = n - 1
        /\ \A k \in 1..(n - 1) : t[k] = IF k < i THEN l[k] ELSE l[k + 1]
    BY <2>1, Removed
  <2>3. Without(l, i) = t BY <1>2 DEF Without
  <2>4. /\ \A k \in 1..n : l[k].cred \in Credential(l[k].proxy) \cup {None}
        /\ \A k, q \in 1..n : k # q => l[k].proxy # l[q].proxy
    BY DEF ProxyOK
  <2> HIDE DEF t, n
  <2>5. \A k \in 1..(n - 1) : t[k] = l[old(k)] /\ old(k) \in 1..n BY <2>1, <2>2
  <2>6. \A k, q \in 1..(n - 1) : k # q => old(k) # old(q) BY <2>1, Positions
  <2> HIDE DEF old
  <2>7. \A k \in 1..(n - 1) : t[k].cred \in Credential(t[k].proxy) \cup {None} BY <2>4, <2>5
  <2>8. \A k, q \in 1..(n - 1) : k # q => t[k].proxy # t[q].proxy BY <2>4, <2>5, <2>6
  <2> QED BY <2>2, <2>3, <2>7, <2>8 DEF ProxyOK
<1> QED BY <1>1, <1>2

\* setProxyUserPassword() leaves a good list with an entry of the proxy.
LEMMA SetProxyOK ==
    ASSUME NEW l, ProxyOK(l), NEW p \in Proxies, NEW scheme \in AllSchemes,
           NEW c \in Credential(p) \cup {None}
    PROVE  /\ ProxyOK(SetProxy(l, p, scheme, c))
           /\ \E k \in 1..Len(SetProxy(l, p, scheme, c)) : SetProxy(l, p, scheme, c)[k].proxy = p
<1> DEFINE e == [proxy |-> p, scheme |-> scheme, cred |-> c]
           i == ProxyFound(l, p)
           n == Len(l)
           s == SetProxy(l, p, scheme, c)
<1>1. l \in Seq(ProxyEntry) /\ n \in Nat BY DEF ProxyOK
<1>2. \/ i = 0 /\ \A k \in 1..n : l[k].proxy # p
      \/ i \in 1..n /\ i # 0 /\ l[i].proxy = p
  BY <1>1, ProxyFoundFacts
<1>3. e \in ProxyEntry /\ e.proxy = p /\ e.cred = c BY CredTypes DEF ProxyEntry
<1>4. s = IF i = 0 THEN Append(l, e) ELSE [l EXCEPT ![i] = e] BY DEF SetProxy
<1>5. /\ \A k \in 1..n : l[k].cred \in Credential(l[k].proxy) \cup {None}
      /\ \A k, q \in 1..n : k # q => l[k].proxy # l[q].proxy
  BY DEF ProxyOK
<1> HIDE DEF e, i, s
<1>6. CASE i = 0
  <2>1. s \in Seq(ProxyEntry) /\ Len(s) = n + 1 /\ s[n + 1] = e /\ \A k \in 1..n : s[k] = l[k]
    BY <1>1, <1>3, <1>4, <1>6
  <2> HIDE DEF n
  <2>2. n + 1 \in 1..(n + 1) /\ \A k \in 1..(n + 1) : k \in 1..n \/ k = n + 1 BY <1>1
  <2>3. \A k \in 1..(n + 1) : s[k].cred \in Credential(s[k].proxy) \cup {None}
    BY <1>3, <1>5, <2>1, <2>2
  <2>4. \A k, q \in 1..(n + 1) : k # q => s[k].proxy # s[q].proxy
    <3>1. \A k \in 1..n : l[k].proxy # p BY <1>2, <1>6
    <3> QED BY <1>3, <1>5, <2>1, <2>2, <3>1
  <2>5. ProxyOK(s) /\ \E k \in 1..Len(s) : s[k].proxy = p
    BY <1>3, <2>1, <2>2, <2>3, <2>4 DEF ProxyOK
  <2> QED BY <2>5 DEF s
<1>7. CASE i # 0
  <2>1. i \in 1..n /\ l[i].proxy = p BY <1>2, <1>7
  <2>2. s \in Seq(ProxyEntry) /\ Len(s) = n /\ \A k \in 1..n : s[k] = IF k = i THEN e ELSE l[k]
    BY <1>1, <1>3, <1>4, <1>7, <2>1
  <2> HIDE DEF n
  <2>3. \A k \in 1..n : s[k].proxy = l[k].proxy BY <1>3, <2>1, <2>2
  <2>4. \A k \in 1..n : s[k].cred \in Credential(s[k].proxy) \cup {None}
    BY <1>3, <1>5, <2>1, <2>2
  <2>5. \A k, q \in 1..n : k # q => s[k].proxy # s[q].proxy BY <1>5, <2>3
  <2>6. ProxyOK(s) /\ \E k \in 1..Len(s) : s[k].proxy = p
    BY <2>1, <2>2, <2>3, <2>4, <2>5 DEF ProxyOK
  <2> QED BY <2>6 DEF s
<1> QED BY <1>6, <1>7

\* What is found for a proxy was entered for it.
LEMMA ProxyCred ==
    ASSUME NEW l, ProxyOK(l), NEW p
    PROVE  /\ ProxyFound(l, p) # 0 => l[ProxyFound(l, p)].cred \in Credential(p) \cup {None}
           /\ (\E k \in 1..Len(l) : l[k].proxy = p) => ProxyFound(l, p) # 0
           /\ ProxyFound(l, p) = 0 \/ ProxyFound(l, p) \in 1..Len(l)
<1> DEFINE i == ProxyFound(l, p)
<1>1. \/ i = 0 /\ \A k \in 1..Len(l) : l[k].proxy # p
      \/ i \in 1..Len(l) /\ i # 0 /\ l[i].proxy = p
  <2>1. Len(l) \in Nat BY DEF ProxyOK
  <2> QED BY <2>1, ProxyFoundFacts
<1> HIDE DEF i
<1>2. i # 0 => l[i].cred \in Credential(p) \cup {None} BY <1>1 DEF ProxyOK
<1> QED BY <1>1, <1>2 DEF i

----------------------------------------------------------------------------
(* Jobs.                                                                    *)

JobRec == [at : {"new", "sent", "again", "over"}, url : Urls \cup {None}, redirects : Nat,
           cookies : BOOLEAN, web : Creds, own : Creds,
           realm : Realms, scheme : AllSchemes, entered : BOOLEAN, known : BOOLEAN,
           times : BOOLEAN, silent : Nat, proxied : BOOLEAN, pweb : Creds, pown : Creds,
           pentered : BOOLEAN, pknown : BOOLEAN, ptimes : BOOLEAN, psilent : Nat]

\* A request under way through proxy p, or due again, holds what may go to its
\* host and to p, and the job that reports on a proxy has one.
Sent(r, p, o) ==
    /\ r.url \in Urls
    /\ r.web \in From(o, r.url.host)
    /\ r.own \in From(o, r.url.host)
    /\ r.pweb \in Credential(p) \cup {None}
    /\ r.pown \in Credential(p) \cup {None}
    /\ r.proxied \/ r.pknown => p \in Proxies

\* A request repeated without a question is one that was refused before.
Patient(r) == /\ r.silent = 0 \/ (r.silent = 1 /\ r.times)
              /\ r.psilent = 0 \/ (r.psilent = 1 /\ r.ptimes)

JobOK(r, p, o) == r \in JobRec /\ Patient(r) /\ (r.at \in {"sent", "again"} => Sent(r, p, o))

JobsOK == job \in [Jobs -> JobRec] /\ \A j \in Jobs : JobOK(job[j], proxy, origins)

IInv ==
    /\ OriginsOK(origins)
    /\ WebOK(web, origins)
    /\ ProxyOK(proxies)
    /\ proxy \in Proxies \cup {None}
    /\ single \in BOOLEAN
    /\ JobsOK

\* A job that has not started, or has ended, holds nothing.
LEMMA EmptyJobs ==
    ASSUME NEW p, NEW o PROVE JobOK(NewJob, p, o) /\ JobOK(Over, p, o)
<1>1. NewJob \in JobRec BY CredTypes DEF NewJob, JobRec
<1>2. NewJob.at = "new" /\ NewJob.silent = 0 /\ NewJob.psilent = 0 BY DEF NewJob
<1>3. Over \in JobRec /\ Over.at = "over" /\ Over.silent = 0 /\ Over.psilent = 0
  BY <1>1, <1>2 DEF Over, JobRec
<1> QED BY <1>1, <1>2, <1>3 DEF JobOK, Patient

\* One job changes.
LEMMA JobStep ==
    ASSUME JobsOK, NEW j \in Jobs, NEW m, JobOK(m, proxy, origins), job' = [job EXCEPT ![j] = m],
           UNCHANGED <<proxy, origins>>
    PROVE  JobsOK'
BY DEF JobsOK, JobOK

\* What a job that ends tells the jar about the proxy was entered for the proxy.
LEMMA EndsOK ==
    ASSUME IInv, NEW j \in Jobs, NEW r, r.pknown \in BOOLEAN, r.pknown => proxy \in Proxies,
           r.pown \in Credential(proxy) \cup {None}, NEW l, ProxyOK(l), NEW scheme \in AllSchemes,
           Ends(j, r, l, scheme), UNCHANGED <<proxy, origins>>
    PROVE  ProxyOK(proxies') /\ single' \in BOOLEAN /\ JobsOK' /\ proxy' \in Proxies \cup {None}
<1>1. ProxyOK(UpdateProxy(l, r, scheme))
  <2>1. CASE r.pknown /\ single /\ scheme # Default
    <3>1. ProxyOK(SetProxy(l, proxy, scheme, r.pown)) BY <2>1, SetProxyOK
    <3> QED BY <2>1, <3>1 DEF UpdateProxy
  <2>2. CASE ~(r.pknown /\ single /\ scheme # Default) BY <2>2 DEF UpdateProxy
  <2> QED BY <2>1, <2>2
<1>2. JobOK(Over, proxy, origins) BY EmptyJobs
<1>3. proxies' = UpdateProxy(l, r, scheme) /\ single' = (single /\ ~r.pknown)
      /\ job' = [job EXCEPT ![j] = Over]
  BY DEF Ends
<1>4. JobsOK'
  <2>1. JobsOK BY DEF IInv
  <2> QED BY <1>2, <1>3, <2>1, JobStep
<1> QED BY <1>1, <1>3, <1>4 DEF IInv

\* setAuthChallenge().
LEMMA RepeatsOK ==
    ASSUME IInv, NEW j \in Jobs, NEW r \in JobRec, r.at = "sent", Sent(r, proxy, origins),
           r.silent \in {0, 1}, r.psilent = 0 \/ (r.psilent = 1 /\ r.ptimes),
           NEW l, WebOK(l, origins), Repeats(j, r, l), UNCHANGED <<proxy, origins>>
    PROVE  IInv'
<1> DEFINE u == r.url
           i == Found(l, u, r.realm)
           c == Returned(l, u, r.realm)
           m == [r EXCEPT !.web = c, !.times = TRUE]
<1>1. u \in Urls /\ u.host \in Hosts /\ JobsOK /\ OriginsOK(origins) BY CredTypes DEF Sent, IInv
<1>2. CASE i # 0
  <2>1. web' = AfterGet(l, u, r.realm) /\ job' = [job EXCEPT ![j] = m] /\ UNCHANGED <<proxies, single>>
    BY <1>2 DEF Repeats
  <2>2. c \in From(origins, u.host) BY <1>1, ReturnedFacts
  <2>3. c \in Creds BY <1>1, <2>2, FromFacts
  <2>4. WebOK(web', origins) BY <1>1, <2>1, AfterGetOK
  <2> HIDE DEF c
  <2>5. /\ m \in JobRec /\ m.at = "sent" /\ m.url = u /\ m.web = c /\ m.own = r.own
        /\ m.pweb = r.pweb /\ m.pown = r.pown /\ m.proxied = r.proxied /\ m.pknown = r.pknown
        /\ m.times = TRUE /\ m.silent = r.silent /\ m.psilent = r.psilent /\ m.ptimes = r.ptimes
    BY <2>3 DEF JobRec
  <2> HIDE DEF m
  <2>6. Sent(m, proxy, origins) BY <2>2, <2>5 DEF Sent
  <2>7. Patient(m) BY <2>5 DEF Patient
  <2>8. JobsOK' BY <1>1, <2>1, <2>5, <2>6, <2>7, JobStep DEF JobOK
  <2> QED BY <2>1, <2>4, <2>8 DEF IInv
<1>3. CASE i = 0
  <2>1. web' = l /\ Ends(j, r, proxies, Default) BY <1>3 DEF Repeats
  <2>2. r.pknown \in BOOLEAN BY DEF JobRec
  <2>3. (r.pknown => proxy \in Proxies) /\ r.pown \in Credential(proxy) \cup {None} BY DEF Sent
  <2>4. ProxyOK(proxies) /\ Default \in AllSchemes BY CredTypes DEF IInv
  <2>5. ProxyOK(proxies') /\ single' \in BOOLEAN /\ JobsOK' /\ proxy' \in Proxies \cup {None}
    BY <2>1, <2>2, <2>3, <2>4, EndsOK
  <2> QED BY <2>1, <2>5 DEF IInv
<1> QED BY <1>2, <1>3

----------------------------------------------------------------------------
(* The actions.                                                             *)

\* setProxyInfo(): all jobs have ended when the proxy changes.
LEMMA SetProxyInfoOK ==
    ASSUME IInv, NEW p \in Proxies \cup {None}, NEW c \in Credential(p) \cup {None},
           SetProxyInfo(p, c)
    PROVE  IInv'
<1>1. /\ proxy' = p /\ single' = (p # None) /\ web' = web
      /\ origins' = origins
      /\ proxies' = (IF p = None THEN proxies ELSE SetProxy(proxies, p, Default, c))
      /\ job' = [j \in Jobs |-> IF job[j].at = "new" THEN NewJob ELSE Over]
  BY DEF SetProxyInfo
<1>2. ProxyOK(proxies')
  <2>1. CASE p = None BY <1>1, <2>1 DEF IInv
  <2>2. CASE p # None
    <3>1. p \in Proxies /\ Default \in AllSchemes /\ ProxyOK(proxies) BY <2>2, CredTypes DEF IInv
    <3>2. ProxyOK(SetProxy(proxies, p, Default, c)) BY <3>1, SetProxyOK
    <3> QED BY <1>1, <2>2, <3>2
  <2> QED BY <2>1, <2>2
<1>3. \A q : JobOK(NewJob, q, origins) /\ JobOK(Over, q, origins) BY EmptyJobs
<1>4. job' \in [Jobs -> JobRec] BY <1>1, <1>3 DEF JobOK
<1>5. \A j \in Jobs : JobOK(job'[j], p, origins) BY <1>1, <1>3
<1>6. JobsOK' BY <1>1, <1>4, <1>5 DEF JobsOK
<1> QED BY <1>1, <1>2, <1>6 DEF IInv

\* initializeHandle(), of a job that holds what may go to the host of its URL.
LEMMA InitializeOK ==
    ASSUME IInv, NEW j \in Jobs, NEW r \in JobRec, Patient(r), Sent(r, proxy, origins),
           InitializeHandle(j, r)
    PROVE  IInv'
<1> DEFINE i == ProxyFound(proxies, proxy)
           pc == proxies[i].cred
           t == [r EXCEPT !.pweb = pc, !.pown = pc, !.pentered = TRUE, !.pknown = TRUE]
           p == IF r.proxied /\ i # 0 THEN t ELSE r
           u == r.url
           fromJar == r.own = None /\ r.cookies /\ Found(web, u, None) # 0
           c == Returned(web, u, None)
           m1 == [p EXCEPT !.at = "sent", !.web = r.own, !.entered = TRUE,
                           !.scheme = Basic, !.realm = None]
           m2 == [p EXCEPT !.at = "sent", !.known = TRUE, !.web = c]
           m3 == [p EXCEPT !.at = "sent"]
           m == CASE r.own # None -> m1 [] fromJar -> m2 [] OTHER -> m3
<1>1. /\ web' = (IF fromJar THEN AfterGet(web, u, None) ELSE web)
      /\ job' = [job EXCEPT ![j] = m]
      /\ UNCHANGED <<proxies, proxy, single, origins>>
  BY DEF InitializeHandle
<1>2. WebOK(web, origins) /\ ProxyOK(proxies) /\ JobsOK /\ OriginsOK(origins)
      /\ proxy \in Proxies \cup {None}
  BY DEF IInv
<1>3. u \in Urls /\ u.host \in Hosts BY CredTypes DEF Sent
<1>4. WebOK(web', origins) BY <1>1, <1>2, <1>3, AfterGetOK
<1>5. c \in From(origins, u.host) BY <1>2, <1>3, ReturnedFacts
<1>6. c \in Creds BY <1>2, <1>3, <1>5, FromFacts
<1>7. i # 0 => pc \in Credential(proxy) \cup {None} BY <1>2, ProxyCred
<1>8. i # 0 => pc \in Creds BY <1>2, <1>7, CredTypes
<1>9. Basic \in AllSchemes /\ None \in Realms BY CredTypes
<1> HIDE DEF c, pc, i, fromJar
<1>10. /\ p \in JobRec /\ p.url = u /\ p.own = r.own /\ p.web = r.web /\ p.proxied = r.proxied
       /\ p.silent = r.silent /\ p.times = r.times /\ p.psilent = r.psilent /\ p.ptimes = r.ptimes
       /\ p.pweb \in Credential(proxy) \cup {None} /\ p.pown \in Credential(proxy) \cup {None}
       /\ p.proxied \/ p.pknown => proxy \in Proxies
  <2>1. CASE r.proxied /\ i # 0
    <3>1. /\ t \in JobRec /\ t.url = u /\ t.own = r.own /\ t.web = r.web /\ t.proxied = r.proxied
          /\ t.silent = r.silent /\ t.times = r.times /\ t.psilent = r.psilent
          /\ t.ptimes = r.ptimes /\ t.pweb = pc /\ t.pown = pc
      BY <1>8, <2>1 DEF JobRec
    <3>2. p = t BY <2>1
    <3> HIDE DEF p, t
    <3> QED BY <1>7, <2>1, <3>1, <3>2 DEF Sent
  <2>2. CASE ~(r.proxied /\ i # 0) BY <2>2 DEF Sent
  <2> QED BY <2>1, <2>2
<1> HIDE DEF p
<1>11. /\ m1 \in JobRec /\ m1.url = u /\ m1.own = r.own /\ m1.web = r.own /\ m1.at = "sent"
       /\ m1.proxied = p.proxied /\ m1.pknown = p.pknown /\ m1.pweb = p.pweb /\ m1.pown = p.pown
       /\ m1.silent = r.silent /\ m1.times = r.times /\ m1.psilent = r.psilent /\ m1.ptimes = r.ptimes
  BY <1>9, <1>10 DEF JobRec
<1>12. /\ m2 \in JobRec /\ m2.url = u /\ m2.own = r.own /\ m2.web = c /\ m2.at = "sent"
       /\ m2.proxied = p.proxied /\ m2.pknown = p.pknown /\ m2.pweb = p.pweb /\ m2.pown = p.pown
       /\ m2.silent = r.silent /\ m2.times = r.times /\ m2.psilent = r.psilent /\ m2.ptimes = r.ptimes
  BY <1>6, <1>10 DEF JobRec
<1>13. /\ m3 \in JobRec /\ m3.url = u /\ m3.own = r.own /\ m3.web = r.web /\ m3.at = "sent"
       /\ m3.proxied = p.proxied /\ m3.pknown = p.pknown /\ m3.pweb = p.pweb /\ m3.pown = p.pown
       /\ m3.silent = r.silent /\ m3.times = r.times /\ m3.psilent = r.psilent /\ m3.ptimes = r.ptimes
  BY <1>10 DEF JobRec
<1>14. m = m1 \/ m = m2 \/ m = m3 OBVIOUS
<1> HIDE DEF m, m1, m2, m3, u
<1>15. /\ m \in JobRec /\ m.url = u /\ m.own = r.own /\ m.web \in {r.own, c, r.web} /\ m.at = "sent"
       /\ m.proxied = p.proxied /\ m.pknown = p.pknown /\ m.pweb = p.pweb /\ m.pown = p.pown
       /\ m.silent = r.silent /\ m.times = r.times /\ m.psilent = r.psilent /\ m.ptimes = r.ptimes
  BY <1>11, <1>12, <1>13, <1>14
<1>16. r.own \in From(origins, u.host) /\ r.web \in From(origins, u.host) BY DEF Sent, u
<1>17. Sent(m, proxy, origins) BY <1>3, <1>5, <1>10, <1>15, <1>16 DEF Sent
<1>18. Patient(m) BY <1>15 DEF Patient
<1>19. JobsOK' BY <1>1, <1>2, <1>15, <1>17, <1>18, JobStep DEF JobOK
<1> QED BY <1>1, <1>2, <1>4, <1>19 DEF IInv

\* A job starts with the user of its URL, if there is one.
LEMMA StartOK ==
    ASSUME IInv, NEW j \in Jobs, NEW u \in Urls, NEW own \in Credential(u.host) \cup {None},
           NEW cookies \in BOOLEAN, NEW filtered \in BOOLEAN, Start(j, u, own, cookies, filtered)
    PROVE  IInv'
<1> DEFINE through == proxy # None /\ ~filtered
           r == [NewJob EXCEPT !.url = u, !.own = own, !.cookies = cookies, !.proxied = through]
<1>1. InitializeHandle(j, r) BY DEF Start
<1>2. u.host \in Hosts /\ OriginsOK(origins) /\ proxy \in Proxies \cup {None} BY CredTypes DEF IInv
<1>3. own \in From(origins, u.host) /\ own \in Creds /\ None \in From(origins, u.host)
  BY <1>2, FromFacts
<1>4. through \in BOOLEAN /\ (through => proxy \in Proxies) BY <1>2
<1> HIDE DEF through
<1>5. NewJob \in JobRec BY EmptyJobs DEF JobOK
<1>6. /\ NewJob.web = None /\ NewJob.pweb = None /\ NewJob.pown = None /\ ~NewJob.pknown
      /\ NewJob.silent = 0 /\ NewJob.psilent = 0
  BY DEF NewJob
<1>7. /\ r \in JobRec /\ r.url = u /\ r.own = own /\ r.web = None /\ r.proxied = through
      /\ r.pweb = None /\ r.pown = None /\ ~r.pknown /\ r.silent = 0 /\ r.psilent = 0
  BY <1>3, <1>4, <1>5, <1>6 DEF JobRec
<1> HIDE DEF r
<1>8. Sent(r, proxy, origins) /\ Patient(r) BY <1>3, <1>4, <1>7 DEF Sent, Patient
<1> QED BY <1>1, <1>7, <1>8, InitializeOK

\* What a job under way holds.
LEMMA SentJob ==
    ASSUME IInv, NEW j \in Jobs, job[j].at \in {"sent", "again"}
    PROVE  job[j] \in JobRec /\ Patient(job[j]) /\ Sent(job[j], proxy, origins)
BY DEF IInv, JobsOK, JobOK

\* A job that was redirected starts again with what it holds.
LEMMA StartAgainOK ==
    ASSUME IInv, NEW j \in Jobs, StartAgain(j)
    PROVE  IInv'
<1>1. job[j] \in JobRec /\ Patient(job[j]) /\ Sent(job[j], proxy, origins) BY SentJob DEF StartAgain
<1> QED BY <1>1, InitializeOK DEF StartAgain

\* An answer below 300, or a redirection: the credentials are confirmed.
LEMMA ConfirmedOK ==
    ASSUME IInv, NEW j \in Jobs, job[j].at = "sent", NEW redirected \in BOOLEAN, NEW folder \in BOOLEAN
    PROVE  WebOK(Confirmed(job[j], redirected, folder), origins)
<1> DEFINE r == job[j]
<1>1. r \in JobRec /\ Sent(r, proxy, origins) BY SentJob
<1>2. WebOK(web, origins) /\ OriginsOK(origins) BY DEF IInv
<1>3. r.url \in Urls /\ r.own \in From(origins, r.url.host) BY <1>1 DEF Sent
<1>4. r.realm \in Realms /\ r.scheme \in AllSchemes BY <1>1 DEF JobRec
<1> HIDE DEF r
<1>5. WebOK(Set(web, r.url, r.realm, r.scheme, r.own, TRUE, redirected, folder), origins)
  BY <1>2, <1>3, <1>4, SetOK
<1>6. WebOK(Confirmed(r, redirected, folder), origins) BY <1>2, <1>5 DEF Confirmed
<1> QED BY <1>6 DEF r

\* The end of a load.
LEMMA SucceedsOK ==
    ASSUME IInv, NEW j \in Jobs, NEW scheme \in AllSchemes, Succeeds(j, scheme)
    PROVE  IInv'
<1> DEFINE r == job[j]
<1>1. /\ r.at = "sent" /\ web' \in {web, Confirmed(r, FALSE, FALSE)}
      /\ Ends(j, r, proxies, scheme) /\ UNCHANGED <<proxy, origins>>
  BY DEF Succeeds
<1>2. r \in JobRec /\ Sent(r, proxy, origins) BY <1>1, SentJob
<1>3. WebOK(web, origins) /\ ProxyOK(proxies) /\ OriginsOK(origins) BY DEF IInv
<1>4. r.pknown \in BOOLEAN BY <1>2 DEF JobRec
<1>5. (r.pknown => proxy \in Proxies) /\ r.pown \in Credential(proxy) \cup {None} BY <1>2 DEF Sent
<1>6. WebOK(Confirmed(r, FALSE, FALSE), origins) BY <1>1, ConfirmedOK
<1> HIDE DEF r
<1>7. WebOK(web', origins) BY <1>1, <1>3, <1>6
<1>8. ProxyOK(proxies') /\ single' \in BOOLEAN /\ JobsOK' /\ proxy' \in Proxies \cup {None}
  BY <1>1, <1>3, <1>4, <1>5, EndsOK
<1> QED BY <1>1, <1>3, <1>7, <1>8 DEF IInv

\* A history that grows admits what it admitted.
LEMMA HistoryGrows ==
    ASSUME NEW o, NEW n, OriginsOK(o), OriginsOK(n), \A h \in Hosts : o[h] \subseteq n[h]
    PROVE  /\ \A h \in Hosts : From(o, h) \subseteq From(n, h)
           /\ \A l : WebOK(l, o) => WebOK(l, n)
           /\ \A r, p : JobOK(r, p, o) => JobOK(r, p, n)
<1>1. \A h \in Hosts : From(o, h) \subseteq From(n, h) BY DEF From
<1>2. ASSUME NEW l, WebOK(l, o) PROVE WebOK(l, n)
  <2>1. \A i \in 1..Len(l) : l[i] \in Entry /\ Honest(l[i], o) BY <1>2 DEF WebOK
  <2>2. \A i \in 1..Len(l) : l[i].host \in Hosts BY <2>1 DEF Entry
  <2>3. \A i \in 1..Len(l) : Honest(l[i], n) BY <1>1, <2>1, <2>2 DEF Honest
  <2> QED BY <1>2, <2>3 DEF WebOK
<1>3. ASSUME NEW r, NEW p, JobOK(r, p, o) PROVE JobOK(r, p, n)
  <2>1. CASE r.at \in {"sent", "again"}
    <3>1. Sent(r, p, o) BY <1>3, <2>1 DEF JobOK
    <3>2. r.url \in Urls /\ r.url.host \in Hosts BY <3>1, CredTypes DEF Sent
    <3>3. Sent(r, p, n) BY <1>1, <3>1, <3>2 DEF Sent
    <3> QED BY <1>3, <3>3 DEF JobOK
  <2>2. CASE r.at \notin {"sent", "again"} BY <1>3, <2>2 DEF JobOK
  <2> QED BY <2>1, <2>2
<1> QED BY <1>1, <1>2, <1>3

\* A redirection: what the job holds may go to the next host.
LEMMA RedirectsOK ==
    ASSUME IInv, NEW j \in Jobs, NEW u \in Urls, Redirects(j, u)
    PROVE  IInv'
<1> DEFINE r == job[j]
           m == [r EXCEPT !.at = "again", !.url = u, !.redirects = @ + 1]
           from == origins[r.url.host]
           n == [origins EXCEPT ![u.host] = @ \cup from]
<1>1. /\ r.at = "sent"
      /\ web' \in {web} \cup {Confirmed(r, TRUE, folder) : folder \in BOOLEAN}
      /\ \/ job' = [job EXCEPT ![j] = m] /\ origins' = n
         \/ job' = [job EXCEPT ![j] = Over] /\ origins' = origins
      /\ UNCHANGED <<proxies, proxy, single>>
  BY DEF Redirects
<1>2. r \in JobRec /\ Patient(r) /\ Sent(r, proxy, origins) BY <1>1, SentJob
<1>3. /\ WebOK(web, origins) /\ ProxyOK(proxies) /\ OriginsOK(origins) /\ JobsOK
      /\ proxy \in Proxies \cup {None} /\ single \in BOOLEAN
  BY DEF IInv
<1>4. r.url \in Urls /\ r.url.host \in Hosts /\ u.host \in Hosts BY <1>2, CredTypes DEF Sent
<1>5. \A folder \in BOOLEAN : WebOK(Confirmed(r, TRUE, folder), origins) BY <1>1, ConfirmedOK
<1>6. WebOK(web', origins) BY <1>1, <1>3, <1>5
<1>7. CASE job' = [job EXCEPT ![j] = Over] /\ origins' = origins
  <2>1. JobOK(Over, proxy, origins) BY EmptyJobs
  <2>2. JobsOK' BY <1>1, <1>3, <1>7, <2>1, JobStep
  <2> QED BY <1>1, <1>3, <1>6, <1>7, <2>2 DEF IInv
<1>8. CASE job' = [job EXCEPT ![j] = m] /\ origins' = n
  <2>1. from \subseteq Hosts BY <1>3, <1>4 DEF OriginsOK
  <2>2. /\ OriginsOK(n) /\ (\A h \in Hosts : origins[h] \subseteq n[h]) /\ from \subseteq n[u.host]
    BY <1>3, <1>4, <2>1 DEF OriginsOK
  <2>3. From(origins, r.url.host) \subseteq From(n, u.host) BY <2>2 DEF From
  <2> HIDE DEF r
  <2>4. /\ m \in JobRec /\ m.at = "again" /\ m.url = u /\ m.web = r.web /\ m.own = r.own
        /\ m.pweb = r.pweb /\ m.pown = r.pown /\ m.proxied = r.proxied /\ m.pknown = r.pknown
        /\ m.silent = r.silent /\ m.times = r.times /\ m.psilent = r.psilent /\ m.ptimes = r.ptimes
    <3> HIDE DEF n, from
    <3>1. r \in JobRec /\ r.redirects \in Nat BY <1>2 DEF JobRec
    <3>2. r.redirects + 1 \in Nat BY <3>1
    <3>3. m = [[[r EXCEPT !.at = "again"] EXCEPT !.url = u] EXCEPT !.redirects = r.redirects + 1]
      BY <3>1 DEF JobRec
    <3> DEFINE q == r.redirects + 1
               m1 == [r EXCEPT !.at = "again"]
               m2 == [m1 EXCEPT !.url = u]
    <3> HIDE DEF m, q
    <3>4. /\ m1 \in JobRec /\ m1.at = "again" /\ m1.web = r.web /\ m1.own = r.own
          /\ m1.pweb = r.pweb /\ m1.pown = r.pown /\ m1.proxied = r.proxied /\ m1.pknown = r.pknown
          /\ m1.silent = r.silent /\ m1.times = r.times /\ m1.psilent = r.psilent
          /\ m1.ptimes = r.ptimes
      BY <3>1 DEF JobRec
    <3>5. m = [m2 EXCEPT !.redirects = q] BY <3>3 DEF q
    <3> HIDE DEF m1
    <3>6. /\ m2 \in JobRec /\ m2.at = m1.at /\ m2.url = u /\ m2.web = m1.web /\ m2.own = m1.own
          /\ m2.pweb = m1.pweb /\ m2.pown = m1.pown /\ m2.proxied = m1.proxied
          /\ m2.pknown = m1.pknown /\ m2.silent = m1.silent /\ m2.times = m1.times
          /\ m2.psilent = m1.psilent /\ m2.ptimes = m1.ptimes
      BY <3>4 DEF JobRec
    <3> HIDE DEF m2
    <3>7. /\ m \in JobRec /\ m.at = m2.at /\ m.url = m2.url /\ m.web = m2.web /\ m.own = m2.own
          /\ m.pweb = m2.pweb /\ m.pown = m2.pown /\ m.proxied = m2.proxied
          /\ m.pknown = m2.pknown /\ m.silent = m2.silent /\ m.times = m2.times
          /\ m.psilent = m2.psilent /\ m.ptimes = m2.ptimes
      BY <3>2, <3>5, <3>6 DEF JobRec, q
    <3> QED BY <3>4, <3>6, <3>7
  <2> HIDE DEF m, n
  <2>5. Sent(m, proxy, n) /\ Patient(m) BY <1>2, <2>3, <2>4 DEF Sent, Patient
  <2>6. JobOK(m, proxy, n) BY <2>4, <2>5 DEF JobOK
  <2>7. \A k \in Jobs : JobOK(job[k], proxy, n) BY <1>3, <2>2, HistoryGrows DEF JobsOK
  <2>8. JobsOK' BY <1>1, <1>3, <1>8, <2>4, <2>6, <2>7 DEF JobsOK
  <2>9. WebOK(web', n) BY <1>3, <1>6, <2>2, HistoryGrows
  <2> QED BY <1>1, <1>3, <1>8, <2>2, <2>8, <2>9 DEF IInv
<1> QED BY <1>1, <1>7, <1>8

\* The request fails.
LEMMA FailsOK ==
    ASSUME IInv, NEW j \in Jobs, Fails(j)
    PROVE  IInv'
<1>1. job' = [job EXCEPT ![j] = Over] /\ UNCHANGED <<web, proxies, proxy, single, origins>>
  BY DEF Fails
<1>2. JobOK(Over, proxy, origins) /\ JobsOK BY EmptyJobs DEF IInv
<1>3. JobsOK' BY <1>1, <1>2, JobStep
<1> QED BY <1>1, <1>3 DEF IInv

\* A 401: the entry refused is dropped, the user is asked or the jar, and the
\* request is repeated or the job ends.
LEMMA RefusedOK ==
    ASSUME IInv, NEW j \in Jobs, job[j].at = "sent",
           NEW answer \in Credential(job[j].url.host) \cup {None}, Refused(j, answer)
    PROVE  IInv'
<1> DEFINE q == job[j]
           u == q.url
           r == [q EXCEPT !.realm = u.realm]
           l == IF r.entered THEN Without(web, Doomed(web, u, u.realm)) ELSE web
           asks == r.entered \/ r.times \/ Found(web, u, u.realm) = 0
           given == [r EXCEPT !.own = answer, !.scheme = u.scheme, !.entered = TRUE]
           quiet == [r EXCEPT !.silent = @ + 1]
           stored == Set(l, u, u.realm, u.scheme, answer, FALSE, FALSE, FALSE)
           got == AfterGet(l, u, u.realm)
<1>1. q \in JobRec /\ Patient(q) /\ Sent(q, proxy, origins) /\ WebOK(web, origins) /\ ProxyOK(proxies)
      /\ OriginsOK(origins)
  BY SentJob DEF IInv
<1>2. u \in Urls BY <1>1 DEF Sent
<1>3. u.realm \in Realms /\ u.scheme \in AllSchemes /\ u.host \in Hosts BY <1>2, CredTypes
<1>4. answer \in From(origins, u.host) BY <1>1, <1>3, FromFacts
<1>5. answer \in Creds BY <1>1, <1>3, <1>4, FromFacts
<1>6. /\ \/ /\ asks /\ answer # None
            /\ Repeats(j, given, stored)
         \/ /\ asks /\ answer = None
            /\ web' = l
            /\ Ends(j, r, proxies, Default)
         \/ /\ ~asks
            /\ Repeats(j, quiet, got)
         \/ /\ ~asks
            /\ web' = got
            /\ Ends(j, r, proxies, Default)
      /\ UNCHANGED <<proxy, origins>>
  BY DEF Refused
<1>7. WebOK(l, origins)
  <2>1. Len(web) \in Nat BY <1>1 DEF WebOK
  <2>2. Doomed(web, u, u.realm) = 0 \/ Doomed(web, u, u.realm) \in 1..Len(web) BY <2>1, DoomedFacts
  <2>3. WebOK(Without(web, Doomed(web, u, u.realm)), origins) BY <1>1, <2>2, WithoutOK
  <2> QED BY <1>1, <2>3
<1> HIDE DEF l
<1>8. WebOK(got, origins) BY <1>2, <1>7, AfterGetOK
<1>9. WebOK(stored, origins) BY <1>1, <1>2, <1>3, <1>4, <1>7, SetOK
<1> HIDE DEF stored, got
<1>10. asks \/ ~q.times BY <1>1 DEF JobRec
<1> HIDE DEF asks, q, u
<1>11. /\ r \in JobRec /\ r.at = q.at /\ r.url = q.url /\ r.web = q.web /\ r.own = q.own
       /\ r.pweb = q.pweb /\ r.pown = q.pown /\ r.proxied = q.proxied /\ r.pknown = q.pknown
       /\ r.silent = q.silent /\ r.times = q.times /\ r.psilent = q.psilent /\ r.ptimes = q.ptimes
  BY <1>1, <1>3 DEF JobRec
<1>12. q.at = "sent" /\ q.url = u BY DEF q, u
<1> HIDE DEF r
<1>13. Sent(r, proxy, origins) /\ Patient(r) /\ r.at = "sent" BY <1>1, <1>11, <1>12 DEF Sent, Patient
<1>14. CASE asks /\ answer # None /\ Repeats(j, given, stored)
  <2>1. /\ given \in JobRec /\ given.at = r.at /\ given.url = r.url /\ given.web = r.web
        /\ given.own = answer /\ given.pweb = r.pweb /\ given.pown = r.pown
        /\ given.proxied = r.proxied /\ given.pknown = r.pknown /\ given.silent = r.silent
        /\ given.psilent = r.psilent /\ given.ptimes = r.ptimes
    BY <1>3, <1>5, <1>11 DEF JobRec
  <2> HIDE DEF given
  <2>2. Sent(given, proxy, origins) BY <1>4, <1>11, <1>12, <1>13, <2>1 DEF Sent
  <2>3. given.silent \in {0, 1} /\ (given.psilent = 0 \/ (given.psilent = 1 /\ given.ptimes))
    BY <1>13, <2>1 DEF Patient
  <2>4. given.at = "sent" BY <1>13, <2>1
  <2>5. Repeats(j, given, stored) /\ UNCHANGED <<proxy, origins>> BY <1>6, <1>14
  <2> QED BY <1>9, <2>1, <2>2, <2>3, <2>4, <2>5, RepeatsOK
<1>15. CASE ~asks /\ Repeats(j, quiet, got)
  <2>1. q.times \in BOOLEAN /\ ~q.times BY <1>1, <1>10, <1>15 DEF JobRec
  <2>2. r.silent = 0 BY <1>11, <1>13, <2>1 DEF Patient
  <2>3. /\ quiet \in JobRec /\ quiet.at = r.at /\ quiet.url = r.url /\ quiet.web = r.web
        /\ quiet.own = r.own /\ quiet.pweb = r.pweb /\ quiet.pown = r.pown
        /\ quiet.proxied = r.proxied /\ quiet.pknown = r.pknown /\ quiet.silent = 1
        /\ quiet.psilent = r.psilent /\ quiet.ptimes = r.ptimes
    BY <1>11, <2>2 DEF JobRec
  <2> HIDE DEF quiet
  <2>4. Sent(quiet, proxy, origins) BY <1>13, <2>3 DEF Sent
  <2>5. quiet.silent \in {0, 1} /\ (quiet.psilent = 0 \/ (quiet.psilent = 1 /\ quiet.ptimes))
    BY <1>13, <2>3 DEF Patient
  <2>6. quiet.at = "sent" BY <1>13, <2>3
  <2>7. Repeats(j, quiet, got) /\ UNCHANGED <<proxy, origins>> BY <1>6, <1>15
  <2> QED BY <1>8, <2>3, <2>4, <2>5, <2>6, <2>7, RepeatsOK
<1>16. CASE (web' = l \/ web' = got) /\ Ends(j, r, proxies, Default)
  <2>1. r.pknown \in BOOLEAN /\ Default \in AllSchemes BY <1>11, CredTypes DEF JobRec
  <2>2. (r.pknown => proxy \in Proxies) /\ r.pown \in Credential(proxy) \cup {None} BY <1>13 DEF Sent
  <2>3. Ends(j, r, proxies, Default) /\ UNCHANGED <<proxy, origins>> BY <1>6, <1>16
  <2>4. ProxyOK(proxies') /\ single' \in BOOLEAN /\ JobsOK' /\ proxy' \in Proxies \cup {None}
    BY <1>1, <2>1, <2>2, <2>3, EndsOK
  <2>5. WebOK(web', origins) BY <1>7, <1>8, <1>16
  <2> QED BY <1>1, <2>3, <2>4, <2>5 DEF IInv
<1> QED BY <1>6, <1>14, <1>15, <1>16

\* The same for a 407.
LEMMA ProxyRefusedOK ==
    ASSUME IInv, NEW j \in Jobs, NEW scheme \in Schemes,
           NEW answer \in Credential(proxy) \cup {None}, ProxyRefused(j, scheme, answer)
    PROVE  IInv'
<1> DEFINE r == job[j]
           l == IF r.pentered THEN Without(proxies, ProxyFound(proxies, proxy)) ELSE proxies
           i == ProxyFound(l, proxy)
           usable == i # 0 /\ l[i].scheme # Default /\ l[i].cred # None
           asks == ~usable \/ r.pentered \/ r.ptimes
           after == IF asks THEN SetProxy(l, proxy, scheme, answer) ELSE l
           given == [r EXCEPT !.pown = answer, !.pentered = TRUE]
           quiet == [r EXCEPT !.psilent = @ + 1]
           repeated == IF asks THEN given ELSE quiet
           ends == IF asks THEN answer = None ELSE scheme = Digest /\ r.pknown
           c == after[ProxyFound(after, proxy)].cred
           m == [repeated EXCEPT !.pweb = c, !.ptimes = TRUE]
           e == [r EXCEPT !.pentered = FALSE, !.pown = IF asks THEN None ELSE @]
<1>1. /\ r.at = "sent" /\ r.proxied /\ UNCHANGED <<web, proxy, origins>>
      /\ ~ends => /\ proxies' = after
                  /\ job' = [job EXCEPT ![j] = m]
                  /\ UNCHANGED single
      /\ ends => Ends(j, e, l, scheme)
  BY DEF ProxyRefused
<1>2. r \in JobRec /\ Patient(r) /\ Sent(r, proxy, origins) /\ WebOK(web, origins)
      /\ ProxyOK(proxies) /\ JobsOK /\ OriginsOK(origins)
  BY <1>1, SentJob DEF IInv
<1>3. proxy \in Proxies /\ scheme \in AllSchemes /\ Default \in AllSchemes /\ None \in Creds
  BY <1>1, <1>2, CredTypes DEF Sent, Schemes
<1>4. answer \in Creds BY <1>3, CredTypes
<1>5. ProxyOK(l)
  <2>1. ProxyFound(proxies, proxy) = 0 \/ ProxyFound(proxies, proxy) \in 1..Len(proxies)
    BY <1>2, ProxyCred
  <2>2. ProxyOK(Without(proxies, ProxyFound(proxies, proxy))) BY <1>2, <2>1, WithoutProxyOK
  <2> QED BY <1>2, <2>2
<1>6. asks \in BOOLEAN /\ (~asks => i # 0) /\ (~asks => ~r.ptimes) OBVIOUS
<1> HIDE DEF l
<1>7. ProxyOK(after) /\ ProxyFound(after, proxy) # 0
  <2>1. CASE asks
    <3>1. /\ ProxyOK(SetProxy(l, proxy, scheme, answer))
          /\ \E k \in 1..Len(SetProxy(l, proxy, scheme, answer)) :
               SetProxy(l, proxy, scheme, answer)[k].proxy = proxy
      BY <1>3, <1>5, SetProxyOK
    <3>2. after = SetProxy(l, proxy, scheme, answer) BY <2>1
    <3> HIDE DEF after
    <3> QED BY <3>1, <3>2, ProxyCred
  <2>2. CASE ~asks BY <1>5, <1>6, <2>2
  <2> QED BY <2>1, <2>2
<1> HIDE DEF after, asks
<1>8. c \in Credential(proxy) \cup {None} BY <1>7, ProxyCred
<1>9. c \in Creds BY <1>3, <1>8, CredTypes
<1> HIDE DEF c, r
<1>10. /\ given \in JobRec /\ given.at = r.at /\ given.url = r.url /\ given.web = r.web
       /\ given.own = r.own /\ given.pown = answer /\ given.proxied = r.proxied
       /\ given.pknown = r.pknown /\ given.silent = r.silent /\ given.times = r.times
       /\ given.psilent = r.psilent
  BY <1>2, <1>4 DEF JobRec
<1>11. /\ quiet \in JobRec /\ quiet.at = r.at /\ quiet.url = r.url /\ quiet.web = r.web
       /\ quiet.own = r.own /\ quiet.pown = r.pown /\ quiet.proxied = r.proxied
       /\ quiet.pknown = r.pknown /\ quiet.silent = r.silent /\ quiet.times = r.times
       /\ quiet.psilent = r.psilent + 1
  BY <1>2 DEF JobRec
<1> HIDE DEF given, quiet
<1>12. /\ repeated \in JobRec /\ repeated.at = r.at /\ repeated.url = r.url
       /\ repeated.web = r.web /\ repeated.own = r.own
       /\ repeated.pown \in Credential(proxy) \cup {None} /\ repeated.proxied = r.proxied
       /\ repeated.pknown = r.pknown /\ repeated.silent = r.silent /\ repeated.times = r.times
       /\ repeated.psilent \in {0, 1}
  <2>1. r.pown \in Credential(proxy) \cup {None} BY <1>2 DEF Sent
  <2>2. r.psilent \in {0, 1} BY <1>2 DEF Patient
  <2>3. ~asks => r.psilent = 0 BY <1>2, <1>6 DEF Patient
  <2>4. CASE asks BY <1>10, <2>2, <2>4
  <2>5. CASE ~asks BY <1>11, <2>1, <2>3, <2>5
  <2> QED BY <2>4, <2>5
<1> HIDE DEF repeated
<1>13. /\ m \in JobRec /\ m.at = repeated.at /\ m.url = repeated.url /\ m.web = repeated.web
       /\ m.own = repeated.own /\ m.pown = repeated.pown /\ m.proxied = repeated.proxied
       /\ m.pknown = repeated.pknown /\ m.silent = repeated.silent /\ m.times = repeated.times
       /\ m.psilent = repeated.psilent /\ m.pweb = c /\ m.ptimes = TRUE
  BY <1>9, <1>12 DEF JobRec
<1> HIDE DEF m
<1>14. CASE ~ends
  <2>1. Sent(m, proxy, origins) /\ Patient(m) BY <1>2, <1>8, <1>12, <1>13 DEF Sent, Patient
  <2>2. job' = [job EXCEPT ![j] = m] /\ UNCHANGED <<proxy, origins>> BY <1>1, <1>14
  <2>3. JobsOK' BY <1>2, <1>13, <2>1, <2>2, JobStep DEF JobOK
  <2>4. proxies' = after /\ UNCHANGED <<web, proxy, single, origins>> BY <1>1, <1>14
  <2> QED BY <1>2, <1>7, <2>3, <2>4 DEF IInv
<1>15. CASE ends
  <2>1. e.pknown = r.pknown /\ e.pown = IF asks THEN None ELSE r.pown BY <1>2 DEF JobRec
  <2>2. Ends(j, e, l, scheme) /\ UNCHANGED <<proxy, origins>> BY <1>1, <1>15
  <2> HIDE DEF e
  <2>3. e.pown \in Credential(proxy) \cup {None} BY <1>2, <2>1 DEF Sent
  <2>4. e.pknown \in BOOLEAN BY <1>2, <2>1 DEF JobRec
  <2>5. ProxyOK(proxies') /\ single' \in BOOLEAN /\ JobsOK' /\ proxy' \in Proxies \cup {None}
    BY <1>3, <1>5, <2>2, <2>3, <2>4, EndsOK
  <2>6. web' = web /\ origins' = origins BY <1>1
  <2> QED BY <1>2, <2>5, <2>6 DEF IInv
<1> QED BY <1>14, <1>15

----------------------------------------------------------------------------
(* The theorems.                                                            *)

\* The jar starts empty and the jobs have not started.
LEMMA InitOK == Init => IInv
<1> SUFFICES ASSUME Init PROVE IInv OBVIOUS
<1>1. /\ web = <<>> /\ proxies = <<>> /\ proxy = None /\ single = FALSE
      /\ job = [j \in Jobs |-> NewJob] /\ origins = [h \in Hosts |-> {h}]
  BY DEF Init
<1>2. WebOK(web, origins)
  <2>1. web \in Seq(Entry) /\ Len(web) = 0 BY <1>1
  <2> QED BY <2>1 DEF WebOK
<1>3. ProxyOK(proxies)
  <2>1. proxies \in Seq(ProxyEntry) /\ Len(proxies) = 0 BY <1>1
  <2> QED BY <2>1 DEF ProxyOK
<1>4. JobOK(NewJob, proxy, origins) BY EmptyJobs
<1>5. JobsOK BY <1>1, <1>4 DEF JobsOK, JobOK
<1>6. OriginsOK(origins) BY <1>1 DEF OriginsOK
<1> QED BY <1>1, <1>2, <1>3, <1>5, <1>6 DEF IInv

\* Every step of a job and of the application keeps the invariant.
LEMMA NextOK == IInv /\ [Next]_vars => IInv'
<1> SUFFICES ASSUME IInv, [Next]_vars PROVE IInv' OBVIOUS
<1>1. CASE UNCHANGED vars
  <2>1. UNCHANGED <<web, proxies, proxy, single, job, origins>> BY <1>1 DEF vars
  <2> QED BY <2>1 DEF IInv, JobsOK
<1>2. ASSUME NEW p \in Proxies, NEW c \in Credential(p) \cup {None}, SetProxyInfo(p, c)
      PROVE  IInv'
  BY <1>2, SetProxyInfoOK
<1>3. CASE SetProxyInfo(None, None) BY <1>3, SetProxyInfoOK
<1>4. ASSUME NEW j \in Jobs, NEW u \in Urls, NEW cookies \in BOOLEAN, NEW filtered \in BOOLEAN,
             NEW own \in Credential(u.host) \cup {None}, Start(j, u, own, cookies, filtered)
      PROVE  IInv'
  BY <1>4, StartOK
<1>5. ASSUME NEW j \in Jobs, NEW s \in Schemes \cup {Default}, Succeeds(j, s) PROVE IInv'
  <2>1. s \in AllSchemes BY CredTypes DEF Schemes
  <2> QED BY <1>5, <2>1, SucceedsOK
<1>6. ASSUME NEW j \in Jobs, NEW u \in Urls, Redirects(j, u) PROVE IInv' BY <1>6, RedirectsOK
<1>7. ASSUME NEW j \in Jobs, Fails(j) PROVE IInv' BY <1>7, FailsOK
<1>8. ASSUME NEW j \in Jobs, job[j].at = "sent", NEW c \in Credential(job[j].url.host) \cup {None},
             Refused(j, c)
      PROVE  IInv'
  BY <1>8, RefusedOK
<1>9. ASSUME NEW j \in Jobs, NEW s \in Schemes, NEW c \in Credential(proxy) \cup {None},
             ProxyRefused(j, s, c)
      PROVE  IInv'
  BY <1>9, ProxyRefusedOK
<1>10. ASSUME NEW j \in Jobs, StartAgain(j) PROVE IInv' BY <1>10, StartAgainOK
<1> QED BY <1>1, <1>2, <1>3, <1>4, <1>5, <1>6, <1>7, <1>8, <1>9, <1>10 DEF Next

\* In every reachable state the jar's lists are well-formed, and the entries and the
\* jobs under way hold what was entered for their host, for a host that redirected
\* to it, or for the proxy.
THEOREM Invariance == Spec => []IInv
<1>1. Init => IInv BY InitOK
<1>2. IInv /\ [Next]_vars => IInv' BY NextOK
<1> QED BY <1>1, <1>2, PTL DEF Spec

\* EntriesDistinct: setWebUserPassword() and setProxyUserPassword() look for an
\* entry before they append one, and nothing else writes the key of an entry.
THEOREM NoTwoEntries == Spec => []EntriesDistinct
<1>1. IInv => EntriesDistinct
  <2> SUFFICES ASSUME IInv PROVE EntriesDistinct OBVIOUS
  <2>1. DOMAIN web = 1..Len(web) /\ DOMAIN proxies = 1..Len(proxies)
    BY DEF IInv, WebOK, ProxyOK
  <2>2. \A i, k \in DOMAIN web : i # k => Apart(web[i], web[k]) BY <2>1 DEF IInv, WebOK
  <2>3. \A i, k \in DOMAIN proxies : i # k => proxies[i].proxy # proxies[k].proxy
    BY <2>1 DEF IInv, ProxyOK
  <2> QED BY <2>2, <2>3 DEF EntriesDistinct, Apart
<1> QED BY <1>1, Invariance, PTL

\* CredentialOfHost: what a request carries and what the jar keeps for a host was
\* entered for that host or for one that redirected to it, whichever of the jobs
\* entered, widened or confirmed it; initializeHandle() takes a job's credentials
\* along when it follows a redirection.
THEOREM NoCredentialLeaks == Spec => []CredentialOfHost
<1>1. IInv => CredentialOfHost
  <2> SUFFICES ASSUME IInv PROVE CredentialOfHost OBVIOUS
  <2>1. \A h : CredentialsFor(h) = From(origins, h) BY DEF CredentialsFor, From
  <2>2. DOMAIN web = 1..Len(web) /\ \A i \in 1..Len(web) : Honest(web[i], origins)
    BY DEF IInv, WebOK
  <2>3. \A i \in DOMAIN web : {web[i].cred, web[i].tmp} \subseteq CredentialsFor(web[i].host)
    BY <2>1, <2>2 DEF Honest
  <2>4. \A j \in Jobs : job[j].at = "sent" => Sent(job[j], proxy, origins) BY SentJob
  <2> QED BY <2>1, <2>3, <2>4 DEF CredentialOfHost, Sent
<1> QED BY <1>1, Invariance, PTL

\* RepeatsByItselfOnce: the counters of challenges end the jobs that the jar
\* cannot help.
THEOREM NoEndlessRepeats == Spec => []RepeatsByItselfOnce
<1>1. IInv => RepeatsByItselfOnce
  <2> SUFFICES ASSUME IInv, NEW j \in Jobs PROVE job[j].silent <= 1 /\ job[j].psilent <= 1
    BY DEF RepeatsByItselfOnce
  <2>1. Patient(job[j]) BY DEF IInv, JobsOK, JobOK
  <2> QED BY <2>1 DEF Patient
<1> QED BY <1>1, Invariance, PTL

=============================================================================
