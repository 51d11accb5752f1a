---------------------------- MODULE TimersProofs ----------------------------
(***************************************************************************)
(* Proofs about ThreadTimers and about DOMTimers, for any timers, delays,  *)
(* documents and pages and for any bounds.                                 *)
(*                                                                         *)
(* The heap of ThreadTimers: which positions a sift-up visits, what it     *)
(* leaves behind, then the functions of TimerBase, then the loop.  A heap  *)
(* is related to an order R of timers, R[a] being what may be below a;     *)
(* every lemma holds for the order of times, which operator< respects      *)
(* always, and for the order of times and insertions, which it respects    *)
(* while the insertions are near enough to be compared modulo 2^Width.     *)
(***************************************************************************)
EXTENDS ThreadTimers, DOMTimers, SequenceTheorems, FiniteSetTheorems, NaturalsInduction,
        WellFoundedInduction, TLAPS

(***************************************************************************)
(* The path of a sift-up.                                                  *)
(***************************************************************************)

\* A set of natural numbers has a least element.
LEMMA Least ==
    ASSUME NEW S \in SUBSET Nat, S # {}
    PROVE  \E x \in S : \A y \in S : x <= y
<1> DEFINE R == OpToRel(<, Nat)
<1>1. \E x \in S : \A y \in S : <<y, x>> \notin R BY NatLessThanWellFounded, WFMin
<1>2. \A x \in S, y \in S : y < x => <<y, x>> \in R BY DEF OpToRel
<1> HIDE DEF R
<1>3. \E x \in S : \A y \in S : ~(y < x) BY <1>1, <1>2
<1>4. \A x, y \in S : ~(y < x) => x <= y OBVIOUS
<1> QED BY <1>3, <1>4

\* The parent of an element comes before it, and parents keep the order.
LEMMA Parents ==
    /\ \A p \in Nat : Parent(p) \in Nat /\ (p > 0 => Parent(p) < p) /\ (p > 1 => Parent(p) >= 1)
    /\ \A p, q \in Nat : p <= q => Parent(p) <= Parent(q)
BY DEF Parent

\* What is closed under the moves of the hole has the whole path.
LEMMA PathWithin ==
    ASSUME NEW i \in Nat \ {0}, NEW up \in SUBSET (2..i), NEW S \in SUBSET (1..i),
           i \in S, \A q \in S \cap up : Parent(q) \in S
    PROVE  Path(i, up) \subseteq S
BY DEF Path

\* The path starts at i and goes on to parents; all of it is reached that way.
LEMMA PathSteps ==
    ASSUME NEW i \in Nat \ {0}, NEW up \in SUBSET (2..i)
    PROVE  LET P == Path(i, up) IN
             /\ P \in SUBSET (1..i) /\ i \in P
             /\ \A p \in P \cap up : Parent(p) \in P
             /\ \A q \in P : q # i => \E p \in P \cap up : Parent(p) = q
<1> DEFINE P == Path(i, up)
<1>1. P \in SUBSET (1..i) BY DEF Path
<1>2. i \in P BY DEF Path
<1>3. ASSUME NEW p \in P \cap up PROVE Parent(p) \in P
  <2>1. p \in 2..i BY <1>3
  <2>2. Parent(p) \in 1..i BY <2>1, Parents
  <2>. QED BY <1>3, <2>2 DEF Path
<1>4. ASSUME NEW q \in P, q # i, \A p \in P \cap up : Parent(p) # q PROVE FALSE
  <2> DEFINE S == P \ {q}
  <2>1. S \in SUBSET (1..i) /\ i \in S BY <1>1, <1>2, <1>4
  <2>2. \A p \in S \cap up : Parent(p) \in S BY <1>3, <1>4
  <2>3. q \notin S OBVIOUS
  <2> HIDE DEF P, S
  <2>4. Path(i, up) \subseteq S BY <2>1, <2>2, PathWithin
  <2>. QED BY <1>4, <2>3, <2>4 DEF P
<1>. QED BY <1>1, <1>2, <1>3, <1>4

\* The path is a chain: it has nothing between an element and its parent.
LEMMA PathChain ==
    ASSUME NEW i \in Nat \ {0}, NEW up \in SUBSET (2..i)
    PROVE  \A q, r \in Path(i, up) : r < q => r <= Parent(q)
<1> DEFINE P == Path(i, up)
           S == {q \in P : \A r \in P : /\ r < q => r <= Parent(q)
                                        /\ q < r => q <= Parent(r)}
<1>0. /\ P \in SUBSET (1..i) /\ i \in P
      /\ \A p \in P \cap up : Parent(p) \in P
  BY PathSteps
<1>a. \A p \in P : p \in Nat \ {0} /\ p <= i BY <1>0
<1>b. \A p \in P \cap up : p \in Nat \ {0, 1} /\ p <= i BY <1>0
<1>w. \A T \in SUBSET (1..i) : (i \in T /\ \A q \in T \cap up : Parent(q) \in T) => P \subseteq T
  BY PathWithin
<1> HIDE DEF P
<1>1. i \in S
  <2> DEFINE T == {r \in P : r = i \/ r <= Parent(i)}
  <2>1. T \in SUBSET (1..i) /\ i \in T BY <1>0
  <2>2. ASSUME NEW q \in T \cap up PROVE Parent(q) \in T
    <3>1. Parent(q) \in P BY <1>0
    <3>2. Parent(q) <= Parent(i) BY <1>a, Parents
    <3>. QED BY <3>1, <3>2
  <2>3. P \subseteq T BY <2>1, <2>2, <1>w
  <2>4. \A r \in P : r < i => r <= Parent(i) BY <2>3
  <2>5. \A r \in P : ~(i < r) BY <1>a
  <2>. QED BY <1>0, <2>4, <2>5
<1>2. ASSUME NEW q \in S \cap up PROVE Parent(q) \in S
  <2> DEFINE p == Parent(q)
             T == {r \in P : r >= p \/ r <= Parent(p)}
  <2>0. q \in P /\ q \in Nat \ {0, 1} /\ q <= i BY <1>b, <1>2
  <2>1. p \in P /\ p \in Nat \ {0} /\ p < q BY <1>0, <1>a, <1>2, <2>0, Parents
  <2>2. \A r \in P : (r < q => r <= p) /\ (q < r => q <= Parent(r)) BY <1>2
  <2> HIDE DEF p
  <2>3. ASSUME NEW r \in P, p < r PROVE p <= Parent(r)
    <3>1. r \in Nat /\ ~(r < q) BY <1>a, <2>1, <2>2, <2>3
    <3>2. CASE r = q BY <2>1, <3>2 DEF p
    <3>3. CASE q < r
      <4>1. q <= Parent(r) /\ Parent(r) \in Nat BY <2>2, <3>1, <3>3, Parents
      <4>. QED BY <2>0, <2>1, <4>1
    <3>. QED BY <2>0, <3>1, <3>2, <3>3
  <2>4. T \in SUBSET (1..i) /\ i \in T BY <1>0, <1>a, <2>0, <2>1
  <2>5. ASSUME NEW r \in T \cap up PROVE Parent(r) \in T
    <3>0. r \in Nat \ {0, 1} /\ Parent(r) \in P /\ Parent(r) \in Nat BY <1>0, <1>b, Parents
    <3>1. CASE p < r BY <2>3, <3>0, <3>1
    <3>2. CASE r = p BY <3>0, <3>2, Parents
    <3>3. CASE r <= Parent(p)
      <4>1. Parent(r) <= r BY <3>0, Parents
      <4>2. Parent(p) \in Nat BY <2>1, Parents
      <4>. QED BY <3>0, <3>3, <4>1, <4>2
    <3>. QED BY <2>1, <3>0, <3>1, <3>2, <3>3
  <2>6. P \subseteq T BY <2>4, <2>5, <1>w
  <2>7. \A r \in P : r < p => r <= Parent(p) BY <2>1, <2>6, <1>a
  <2>8. p \in S BY <2>1, <2>3, <2>7
  <2>. QED BY <2>8 DEF p
<1>3. P \subseteq S BY <1>0, <1>1, <1>2, <1>w
<1>. QED BY <1>3 DEF P

\* The hole comes to rest at the top of the path; from all others it has moved.
LEMMA PathTop ==
    ASSUME NEW i \in Nat \ {0}, NEW up \in SUBSET (2..i)
    PROVE  LET P == Path(i, up) IN
           \E top \in P :
             /\ top \notin up /\ Parent(top) \notin P
             /\ \A p \in P : top <= p /\ (p # top => p \in up /\ Parent(p) \in P)
<1> DEFINE P == Path(i, up)
<1>0. /\ P \in SUBSET (1..i) /\ i \in P
      /\ \A p \in P \cap up : Parent(p) \in P
  BY PathSteps
<1>a. \A p \in P : p \in Nat \ {0} /\ p <= i BY <1>0
<1>w. \A T \in SUBSET (1..i) : (i \in T /\ \A q \in T \cap up : Parent(q) \in T) => P \subseteq T
  BY PathWithin
<1>c. \A q, r \in P : r < q => r <= Parent(q) BY PathChain
<1> HIDE DEF P
<1>1. P \in SUBSET Nat /\ P # {} BY <1>0, <1>a
<1>2. PICK top \in P : \A y \in P : top <= y BY <1>1, Least
<1>3. Parent(top) \notin P BY <1>2, <1>a, Parents
<1>4. ASSUME NEW p \in P, p # top PROVE p \in up
  <2> SUFFICES ASSUME p \notin up PROVE FALSE OBVIOUS
  <2> DEFINE T == {r \in P : r >= p}
  <2>1. T \in SUBSET (1..i) /\ i \in T BY <1>0, <1>a
  <2>2. ASSUME NEW r \in T \cap up PROVE Parent(r) \in T
    <3>1. p < r BY <1>a
    <3>2. p <= Parent(r) BY <3>1, <1>c
    <3>. QED BY <1>0, <1>a, <3>2
  <2>3. P \subseteq T BY <2>1, <2>2, <1>w
  <2>. QED BY <1>2, <1>4, <1>a, <2>3
<1>5. top \notin up BY <1>0, <1>3
<1>. QED BY <1>0, <1>2, <1>3, <1>4, <1>5 DEF P

(***************************************************************************)
(* push_heap() and pop_heap().                                             *)
(***************************************************************************)

\* The sequence h has each timer of A once and no others.
Lists(h, A) ==
    /\ h \in Seq(Timers)
    /\ \A i, j \in 1..Len(h) : h[i] = h[j] => i = j
    /\ \A i \in 1..Len(h) : h[i] \in A
    /\ \A a \in A : \E i \in 1..Len(h) : h[i] = a

\* R[a] is what may be below a.
HeapBy(h, R) == \A i \in 2..Len(h) : h[i] \in R[h[Parent(i)]]

Transitive(R) == \A a, b, c \in Timers : (b \in R[a] /\ c \in R[b]) => c \in R[a]

\* On the timers of A, Later decides which of two may be above the other.
Decides(R, A, tm, od) ==
    \A a, b \in A : a # b => /\ Later(a, b, tm, od) => a \in R[b]
                             /\ ~Later(a, b, tm, od) => b \in R[a]

\* The sift-up of the i-th element to top: those on the path P move down one step.
Sifts(h, i, g, P, top, tm, od) ==
    /\ i \in P
    /\ \A p \in 1..Len(h) :
         g[p] = IF p \notin P THEN h[p] ELSE IF p = top THEN h[i] ELSE h[Parent(p)]
    /\ \A p \in P : top <= p
    /\ \A p \in P : p # top => p >= 2 /\ Parent(p) \in P /\ Later(h[Parent(p)], h[i], tm, od)
    /\ Parent(top) \notin P
    /\ top >= 2 => ~Later(h[Parent(top)], h[i], tm, od)
    /\ \A q \in P : q # i => \E p \in P : p # top /\ Parent(p) = q
    /\ \A p, q \in P : Parent(p) = Parent(q) => p = q

\* push_heap() is such a sift-up.
LEMMA Sift ==
    ASSUME NEW h \in Seq(Timers), NEW i \in 1..Len(h), NEW tm, NEW od
    PROVE  LET g == PushHeap(h, i, tm, od) IN
           /\ g \in Seq(Timers) /\ Len(g) = Len(h)
           /\ \E P \in SUBSET (1..i) : \E top \in P : Sifts(h, i, g, P, top, tm, od)
<1> DEFINE up == {p \in 2..i : Later(h[Parent(p)], h[i], tm, od)}
           P == Path(i, up)
           g == PushHeap(h, i, tm, od)
<1>0. i \in Nat \ {0} /\ Len(h) \in Nat /\ i <= Len(h) OBVIOUS
<1>1. up \in SUBSET (2..i) OBVIOUS
<1>2. g = [p \in 1..Len(h) |-> IF p \notin P THEN h[p]
                               ELSE IF Parent(p) \in P THEN h[Parent(p)] ELSE h[i]]
  BY DEF PushHeap
<1>a. \A p \in up : p \in 2..i /\ Later(h[Parent(p)], h[i], tm, od) OBVIOUS
<1>b. \A p \in 2..i : p \notin up => ~Later(h[Parent(p)], h[i], tm, od) OBVIOUS
<1> HIDE DEF up, g
<1>3. /\ P \in SUBSET (1..i) /\ i \in P
      /\ \A p \in P \cap up : Parent(p) \in P
      /\ \A q \in P : q # i => \E p \in P \cap up : Parent(p) = q
  BY <1>0, <1>1, PathSteps
<1>4. \A q, r \in P : r < q => r <= Parent(q) BY <1>0, <1>1, PathChain
<1>5. PICK top \in P :
        /\ top \notin up /\ Parent(top) \notin P
        /\ \A p \in P : top <= p /\ (p # top => p \in up /\ Parent(p) \in P)
  BY <1>0, <1>1, PathTop
<1> HIDE DEF P
<1>c. \A p \in P : p \in Nat \ {0} /\ p <= i BY <1>0, <1>3
<1>6. \A p \in 1..Len(h) :
        g[p] = IF p \notin P THEN h[p] ELSE IF p = top THEN h[i] ELSE h[Parent(p)]
  BY <1>2, <1>5
<1>7. \A p \in P : p # top => p >= 2 /\ Parent(p) \in P /\ Later(h[Parent(p)], h[i], tm, od)
  BY <1>5, <1>a
<1>8. top >= 2 => ~Later(h[Parent(top)], h[i], tm, od) BY <1>0, <1>5, <1>b, <1>c
<1>9. \A q \in P : q # i => \E p \in P : p # top /\ Parent(p) = q BY <1>3, <1>5
<1>10. ASSUME NEW p \in P, NEW q \in P, Parent(p) = Parent(q) PROVE p = q
  <2>1. p \in Nat \ {0} /\ q \in Nat \ {0} BY <1>c
  <2>2. Parent(p) < p /\ Parent(q) < q /\ Parent(p) \in Nat BY <2>1, Parents
  <2>. QED BY <1>4, <1>10, <2>1, <2>2
<1>11. \A p \in 1..Len(h) : (p \in P /\ p # top) => Parent(p) \in 1..Len(h)
  <2>1. \A q \in P : q \in 1..Len(h) BY <1>0, <1>c
  <2>. QED BY <1>7, <2>1
<1>12. \A p \in 1..Len(h) : g[p] \in Timers
  <2>1. \A p \in 1..Len(h) : h[p] \in Timers OBVIOUS
  <2>. QED BY <1>6, <1>11, <2>1
<1>13. g \in Seq(Timers) /\ Len(g) = Len(h)
  <2>1. g \in [1..Len(h) -> Timers]
    BY <1>2, <1>12
  <2>. QED BY <1>0, <2>1, SeqDef, LenProperties
<1>14. P \in SUBSET (1..i) /\ i \in P BY <1>3
<1>15. \A p \in P : top <= p BY <1>5
<1>16. Sifts(h, i, g, P, top, tm, od)
  BY <1>5, <1>6, <1>7, <1>8, <1>9, <1>10, <1>14, <1>15 DEF Sifts
<1>. QED BY <1>13, <1>14, <1>16 DEF g

\* push_heap() permutes.
LEMMA PushLists ==
    ASSUME NEW h, NEW A, Lists(h, A), NEW i \in 1..Len(h), NEW tm, NEW od
    PROVE  Lists(PushHeap(h, i, tm, od), A) /\ Len(PushHeap(h, i, tm, od)) = Len(h)
<1> DEFINE g == PushHeap(h, i, tm, od)
           n == Len(h)
<1>0. h \in Seq(Timers) BY DEF Lists
<1>1. g \in Seq(Timers) /\ Len(g) = n BY <1>0, Sift
<1>p. PICK P \in SUBSET (1..i) : \E top \in P : Sifts(h, i, g, P, top, tm, od) BY <1>0, Sift
<1>2. PICK top \in P : Sifts(h, i, g, P, top, tm, od) BY <1>p
<1>3. /\ i \in P
      /\ \A p \in 1..n : g[p] = IF p \notin P THEN h[p] ELSE IF p = top THEN h[i] ELSE h[Parent(p)]
      /\ \A p \in P : p # top => Parent(p) \in P
      /\ \A q \in P : q # i => \E p \in P : p # top /\ Parent(p) = q
      /\ \A p, q \in P : Parent(p) = Parent(q) => p = q
  BY <1>2 DEF Sifts
<1>4. n \in Nat /\ i \in Nat /\ i <= n BY <1>0
<1>5. P \in SUBSET (1..n) BY <1>4
<1>6. ASSUME NEW p \in P PROVE Parent(p) < i
  <2>1. p \in Nat \ {0} /\ p <= i BY <1>4
  <2>2. Parent(p) < p /\ Parent(p) \in Nat BY <2>1, Parents
  <2>. QED BY <1>4, <2>1, <2>2
<1> HIDE DEF g, n
<1>7. ASSUME NEW p \in 1..n, NEW q \in 1..n, g[p] = g[q] PROVE p = q
  <2>0. \A j, k \in 1..n : h[j] = h[k] => j = k BY DEF Lists, n
  <2>1. CASE p \notin P /\ q \notin P BY <1>3, <1>7, <2>0, <2>1
  <2>2. CASE p \in P /\ q \notin P
    <3>1. CASE p = top BY <1>3, <1>5, <1>7, <2>0, <2>2, <3>1
    <3>2. CASE p # top
      <4>1. h[Parent(p)] = h[q] /\ Parent(p) \in P BY <1>3, <1>7, <2>2, <3>2
      <4>. QED BY <1>5, <2>0, <2>2, <4>1
    <3>. QED BY <3>1, <3>2
  <2>3. CASE p \notin P /\ q \in P
    <3>1. CASE q = top BY <1>3, <1>5, <1>7, <2>0, <2>3, <3>1
    <3>2. CASE q # top
      <4>1. h[Parent(q)] = h[p] /\ Parent(q) \in P BY <1>3, <1>7, <2>3, <3>2
      <4>. QED BY <1>5, <2>0, <2>3, <4>1
    <3>. QED BY <3>1, <3>2
  <2>4. CASE p \in P /\ q \in P
    <3>1. CASE p = top /\ q # top
      <4>1. h[i] = h[Parent(q)] BY <1>3, <1>7, <2>4, <3>1
      <4>2. i = Parent(q) BY <1>3, <1>5, <2>0, <2>4, <3>1, <4>1
      <4>. QED BY <1>4, <1>6, <2>4, <3>1, <4>2
    <3>2. CASE p # top /\ q = top
      <4>1. h[i] = h[Parent(p)] BY <1>3, <1>7, <2>4, <3>2
      <4>2. i = Parent(p) BY <1>3, <1>5, <2>0, <2>4, <3>2, <4>1
      <4>. QED BY <1>4, <1>6, <2>4, <3>2, <4>2
    <3>3. CASE p # top /\ q # top
      <4>1. h[Parent(p)] = h[Parent(q)] BY <1>3, <1>7, <2>4, <3>3
      <4>2. Parent(p) = Parent(q) BY <1>3, <1>5, <2>0, <2>4, <3>3, <4>1
      <4>. QED BY <1>3, <2>4, <4>2
    <3>. QED BY <3>1, <3>2, <3>3
  <2>. QED BY <2>1, <2>2, <2>3, <2>4
<1>8. \A p \in 1..n : g[p] \in A
  <2>1. \A j \in 1..n : h[j] \in A BY DEF Lists, n
  <2>. QED BY <1>3, <1>5, <2>1
<1>9. ASSUME NEW a \in A PROVE \E p \in 1..n : g[p] = a
  <2>1. PICK j \in 1..n : h[j] = a BY DEF Lists, n
  <2>2. CASE j \notin P BY <1>3, <2>1, <2>2
  <2>3. CASE j = i BY <1>3, <1>5, <2>1, <2>3
  <2>4. CASE j \in P /\ j # i
    <3>1. PICK p \in P : p # top /\ Parent(p) = j BY <1>3, <2>4
    <3>. QED BY <1>3, <1>5, <2>1, <3>1
  <2>. QED BY <2>2, <2>3, <2>4
<1>10. Lists(g, A) BY <1>1, <1>7, <1>8, <1>9 DEF Lists
<1>. QED BY <1>1, <1>10 DEF g, n

\* push_heap() restores the order R if only the i-th element is too far down.
LEMMA PushOrders ==
    ASSUME NEW h \in Seq(Timers), NEW i \in 1..Len(h), NEW tm, NEW od, NEW R, Transitive(R),
           \A p \in 2..Len(h) : (p # i /\ Parent(p) # i) => h[p] \in R[h[Parent(p)]],
           \A p \in 2..Len(h) : Parent(p) = i => /\ h[p] \in R[h[i]]
                                                 /\ i > 1 => h[p] \in R[h[Parent(i)]],
           \A p \in 1..Len(h) : p # i => /\ Later(h[p], h[i], tm, od) => h[p] \in R[h[i]]
                                         /\ ~Later(h[p], h[i], tm, od) => h[i] \in R[h[p]]
    PROVE  HeapBy(PushHeap(h, i, tm, od), R)
<1> DEFINE g == PushHeap(h, i, tm, od)
           n == Len(h)
<1>1. Len(g) = n BY Sift
<1>p. PICK P \in SUBSET (1..i) : \E top \in P : Sifts(h, i, g, P, top, tm, od) BY Sift
<1>2. PICK top \in P : Sifts(h, i, g, P, top, tm, od) BY <1>p
<1>3. /\ i \in P
      /\ \A p \in 1..n : g[p] = IF p \notin P THEN h[p] ELSE IF p = top THEN h[i] ELSE h[Parent(p)]
      /\ \A p \in P : top <= p
      /\ \A p \in P : p # top => p >= 2 /\ Parent(p) \in P /\ Later(h[Parent(p)], h[i], tm, od)
      /\ Parent(top) \notin P
      /\ top >= 2 => ~Later(h[Parent(top)], h[i], tm, od)
      /\ \A q \in P : q # i => \E p \in P : p # top /\ Parent(p) = q
  BY <1>2 DEF Sifts
<1>4. n \in Nat /\ i \in Nat \ {0} /\ i <= n OBVIOUS
<1>5. \A p \in P : p \in Nat \ {0} /\ p <= i /\ p \in 1..n BY <1>4
<1>6. \A p \in 1..n : h[p] \in Timers OBVIOUS
<1>7. \A p \in 2..n : (p # i /\ Parent(p) # i) => h[p] \in R[h[Parent(p)]] OBVIOUS
<1>8. \A p \in 2..n : Parent(p) = i => h[p] \in R[h[i]] /\ (i > 1 => h[p] \in R[h[Parent(i)]]) OBVIOUS
<1>9. \A p \in 1..n : p # i => /\ Later(h[p], h[i], tm, od) => h[p] \in R[h[i]]
                               /\ ~Later(h[p], h[i], tm, od) => h[i] \in R[h[p]]
  OBVIOUS
<1> HIDE DEF g, n
<1>10. ASSUME NEW p \in 2..n PROVE g[p] \in R[g[Parent(p)]]
  <2> DEFINE q == Parent(p)
             u == Parent(q)
  <2>0. p \in Nat /\ p >= 2 /\ p <= n /\ p \in 1..n BY <1>4
  <2>1. q \in Nat \ {0} /\ q < p /\ q \in 1..n
    <3>1. q \in Nat /\ q >= 1 /\ q < p BY <2>0, Parents
    <3>. QED BY <1>4, <2>0, <3>1
  <2>2. u \in Nat /\ u < q /\ (q > 1 => u >= 1) BY <2>1, Parents
  <2>q. Parent(p) = q /\ Parent(q) = u OBVIOUS
  <2> HIDE DEF q, u
  <2>3. q > 1 => u \in 1..n /\ q \in 2..n BY <1>4, <2>1, <2>2
  <2>4. CASE p \in P /\ p # top
    <3>1. q \in P /\ q # i /\ g[p] = h[q] /\ Later(h[q], h[i], tm, od)
      BY <1>3, <1>5, <2>0, <2>1, <2>4, <2>q
    <3>2. CASE q = top
      <4>1. g[q] = h[i] BY <1>3, <2>1, <3>1, <3>2
      <4>. QED BY <1>9, <2>1, <2>q, <3>1, <4>1
    <3>3. CASE q # top
      <4>1. q > 1 /\ g[q] = h[u] BY <1>3, <2>1, <2>q, <3>1, <3>3
      <4>2. u # i BY <1>5, <2>0, <2>1, <2>2, <3>1
      <4>. QED BY <1>7, <2>3, <2>q, <3>1, <4>1, <4>2
    <3>. QED BY <3>2, <3>3
  <2>5. CASE p = top
    <3>1. q \notin P /\ g[q] = h[q] /\ g[p] = h[i] /\ q # i BY <1>3, <2>0, <2>1, <2>5, <2>q
    <3>2. ~Later(h[q], h[i], tm, od) BY <1>3, <2>0, <2>5, <2>q
    <3>. QED BY <1>9, <2>1, <2>q, <3>1, <3>2
  <2>6. CASE p \notin P /\ q \notin P
    <3>1. g[p] = h[p] /\ g[q] = h[q] /\ p # i /\ q # i BY <1>3, <2>0, <2>1, <2>6
    <3>. QED BY <1>7, <2>q, <3>1
  <2>7. CASE p \notin P /\ q = i
    <3>1. g[p] = h[p] BY <1>3, <2>0, <2>7
    <3>2. CASE q = top
      <4>1. g[q] = h[i] BY <1>3, <2>1, <2>7, <3>2
      <4>. QED BY <1>8, <2>7, <2>q, <3>1, <4>1
    <3>3. CASE q # top
      <4>1. q > 1 /\ g[q] = h[u] BY <1>3, <2>1, <2>7, <2>q, <3>3
      <4>. QED BY <1>8, <2>7, <2>q, <3>1, <4>1
    <3>. QED BY <3>2, <3>3
  <2>8. CASE p \notin P /\ q \in P /\ q # i
    <3>1. g[p] = h[p] /\ p # i BY <1>3, <2>0, <2>8
    <3>2. h[p] \in R[h[q]] BY <1>7, <2>8, <2>q, <3>1
    <3>3. CASE q = top
      <4>1. g[q] = h[i] BY <1>3, <2>1, <2>8, <3>3
      <4>2. PICK c \in P : c # top /\ Parent(c) = q BY <1>3, <2>8
      <4>3. Later(h[q], h[i], tm, od) BY <1>3, <4>2
      <4>4. h[q] \in R[h[i]] BY <1>9, <2>1, <2>8, <4>3
      <4>5. i \in 1..n BY <1>4
      <4>6. h[p] \in R[h[i]] BY <1>6, <2>0, <2>1, <3>2, <4>4, <4>5 DEF Transitive
      <4>. QED BY <2>q, <3>1, <4>1, <4>6
    <3>4. CASE q # top
      <4>1. q > 1 /\ g[q] = h[u] BY <1>3, <2>1, <2>8, <2>q, <3>4
      <4>2. u # i BY <1>5, <2>1, <2>2, <2>8
      <4>3. h[q] \in R[h[u]] BY <1>7, <2>3, <2>8, <2>q, <4>1, <4>2
      <4>4. h[p] \in R[h[u]] BY <1>6, <2>0, <2>1, <2>3, <3>2, <4>1, <4>3 DEF Transitive
      <4>. QED BY <2>q, <3>1, <4>1, <4>4
    <3>. QED BY <3>3, <3>4
  <2>. QED BY <2>4, <2>5, <2>6, <2>7, <2>8
<1>. QED BY <1>1, <1>10 DEF HeapBy, g

\* A timer that all others are later than comes to the front.
LEMMA PushFirst ==
    ASSUME NEW h \in Seq(Timers), NEW i \in 1..Len(h), NEW tm, NEW od,
           \A p \in 1..Len(h) : p # i => Later(h[p], h[i], tm, od)
    PROVE  PushHeap(h, i, tm, od)[1] = h[i]
<1> DEFINE g == PushHeap(h, i, tm, od)
<1>p. PICK P \in SUBSET (1..i) : \E top \in P : Sifts(h, i, g, P, top, tm, od) BY Sift
<1>2. PICK top \in P : Sifts(h, i, g, P, top, tm, od) BY <1>p
<1>3. /\ \A p \in 1..Len(h) : g[p] = IF p \notin P THEN h[p] ELSE IF p = top THEN h[i] ELSE h[Parent(p)]
      /\ top >= 2 => ~Later(h[Parent(top)], h[i], tm, od)
  BY <1>2 DEF Sifts
<1>4. Len(h) \in Nat /\ i \in Nat \ {0} /\ i <= Len(h) /\ top \in Nat \ {0} /\ top <= i OBVIOUS
<1> HIDE DEF g
<1>5. top = 1
  <2> SUFFICES ASSUME top >= 2 PROVE FALSE BY <1>4
  <2>1. Parent(top) \in Nat /\ Parent(top) >= 1 /\ Parent(top) < top BY <1>4, Parents
  <2>2. Parent(top) \in 1..Len(h) /\ Parent(top) # i BY <1>4, <2>1
  <2>. QED BY <1>3, <2>2
<1>. QED BY <1>3, <1>4, <1>5 DEF g

\* In a heap all others are below the first.
LEMMA FirstOfHeap ==
    ASSUME NEW h \in Seq(Timers), NEW R, Transitive(R), HeapBy(h, R)
    PROVE  \A p \in 2..Len(h) : h[p] \in R[h[1]]
<1> DEFINE n == Len(h)
           T == {p \in 2..n : h[p] \notin R[h[1]]}
<1>0. n \in Nat /\ \A p \in 1..n : h[p] \in Timers OBVIOUS
<1>1. \A p \in 2..n : h[p] \in R[h[Parent(p)]] BY DEF HeapBy
<1> HIDE DEF n
<1>2. SUFFICES ASSUME T # {} PROVE FALSE BY DEF n
<1>3. T \in SUBSET Nat BY <1>0
<1>4. PICK p \in T : \A y \in T : p <= y BY <1>2, <1>3, Least
<1>5. p \in Nat /\ p >= 2 /\ p <= n /\ h[p] \notin R[h[1]] BY <1>0
<1> HIDE DEF T
<1>6. Parent(p) \in Nat /\ Parent(p) >= 1 /\ Parent(p) < p BY <1>5, Parents
<1>7. h[p] \in R[h[Parent(p)]] BY <1>0, <1>1, <1>5
<1>8. Parent(p) # 1 BY <1>5, <1>7
<1>9. Parent(p) \in 2..n BY <1>0, <1>5, <1>6, <1>8
<1>10. h[Parent(p)] \in R[h[1]] BY <1>4, <1>5, <1>6, <1>9 DEF T
<1>11. 1 \in 1..n /\ p \in 1..n /\ Parent(p) \in 1..n BY <1>0, <1>5, <1>6
<1>. QED BY <1>0, <1>5, <1>7, <1>10, <1>11 DEF Transitive

\* A list without repetitions is as long as its set is large.
LEMMA ListLength ==
    ASSUME NEW h, NEW A, Lists(h, A)
    PROVE  IsFiniteSet(A) /\ Len(h) = Cardinality(A)
<1>0. h \in Seq(Timers) /\ Len(h) \in Nat BY DEF Lists
<1>1. h \in [1..Len(h) -> A]
  <2>1. h \in [1..Len(h) -> Timers] BY <1>0
  <2>. QED BY <2>1 DEF Lists
<1>2. h \in Bijection(1..Len(h), A)
  BY <1>1 DEF Lists, Bijection, Injection, Surjection, IsInjective
<1>3. IsFiniteSet(1..Len(h)) /\ Cardinality(1..Len(h)) = Len(h) BY <1>0, FS_Interval
<1>4. ExistsBijection(1..Len(h), A) BY <1>2 DEF ExistsBijection
<1>. QED BY <1>3, <1>4, FS_Bijection

\* The element that pop_heap() takes away is the first, and what it leaves is a
\* heap of the others.
LEMMA PopParts ==
    ASSUME NEW h, NEW A, Lists(h, A), h # <<>>, NEW tm, NEW od, NEW g \in PopHeap(h, tm, od)
    PROVE  LET f == RemoveLast(g) IN
           /\ g = Append(f, h[1])
           /\ Lists(f, A \ {h[1]}) /\ Len(f) = Len(h) - 1
           /\ IsHeap(f, tm, od)
<1> DEFINE n == Len(h)
           S == 1..(n - 1)
           others == {h[i] : i \in 2..n}
<1>0. h \in Seq(Timers) /\ n \in Nat \ {0} BY EmptySeq DEF Lists
<1>l. /\ \A i, j \in 1..n : h[i] = h[j] => i = j
      /\ \A i \in 1..n : h[i] \in A
      /\ \A a \in A : \E i \in 1..n : h[i] = a
  BY DEF Lists
<1>1. PICK f \in [S -> others] :
        /\ g = Append(f, h[1])
        /\ \A t \in others : \E i \in S : f[i] = t
        /\ IsHeap(f, tm, od)
  BY DEF PopHeap
<1>2. \A i \in 2..n : h[i] \in Timers BY <1>0
<1>3. others \in SUBSET Timers /\ \A i \in 2..n : h[i] \in others BY <1>2
<1>4. others = A \ {h[1]}
  <2>1. \A i \in 2..n : h[i] \in A \ {h[1]}
    <3>1. \A i \in 2..n : i \in 1..n /\ 1 \in 1..n /\ i # 1 BY <1>0
    <3>. QED BY <1>l, <3>1
  <2>2. \A a \in A \ {h[1]} : \E i \in 2..n : h[i] = a
    <3>1. \A i \in 1..n : i = 1 \/ i \in 2..n BY <1>0
    <3>. QED BY <1>l, <3>1
  <2>. QED BY <2>1, <2>2
<1>o. \A t \in others : \E i \in 2..n : h[i] = t OBVIOUS
<1> HIDE DEF others, n
<1>5. Cardinality(others) = n - 1
  <2> DEFINE k == [j \in S |-> h[j + 1]]
  <2>1. \A j \in S : j + 1 \in 2..n /\ j + 1 \in 1..n /\ j \in Nat BY <1>0
  <2>2. k \in [S -> others] BY <1>3, <2>1
  <2>3. \A a, b \in S : k[a] = k[b] => a = b
    <3>1. ASSUME NEW a \in S, NEW b \in S, k[a] = k[b] PROVE a = b
      <4>1. h[a + 1] = h[b + 1] BY <3>1
      <4>2. a + 1 = b + 1 BY <1>l, <2>1, <4>1
      <4>. QED BY <2>1, <4>2
    <3>. QED BY <3>1
  <2>4. \A t \in others : \E s \in S : k[s] = t
    <3>1. ASSUME NEW t \in others PROVE \E s \in S : k[s] = t
      <4>1. PICK i \in 2..n : h[i] = t BY <1>o
      <4>2. i - 1 \in S /\ (i - 1) + 1 = i BY <1>0
      <4>. QED BY <4>1, <4>2
    <3>. QED BY <3>1
  <2> HIDE DEF k
  <2>5. DOMAIN k = S BY <2>2
  <2>6. k \in Bijection(S, others)
    BY <2>2, <2>3, <2>4, <2>5 DEF Bijection, Injection, Surjection, IsInjective
  <2>7. IsFiniteSet(S) /\ Cardinality(S) = n - 1
    <3>1. 1 \in Int /\ n - 1 \in Int BY <1>0
    <3>2. IsFiniteSet(1..(n - 1)) /\ Cardinality(1..(n - 1)) = IF 1 > n - 1 THEN 0 ELSE (n - 1) - 1 + 1
      BY <3>1, FS_Interval
    <3>. QED BY <1>0, <3>2
  <2>8. ExistsBijection(S, others) BY <2>6 DEF ExistsBijection
  <2> HIDE DEF S
  <2>. QED BY <2>7, <2>8, FS_Bijection
<1>6. IsFiniteSet(S) /\ Cardinality(S) = n - 1
  <2>1. 1 \in Int /\ n - 1 \in Int BY <1>0
  <2>2. IsFiniteSet(1..(n - 1)) /\ Cardinality(1..(n - 1)) = IF 1 > n - 1 THEN 0 ELSE (n - 1) - 1 + 1
    BY <2>1, FS_Interval
  <2>. QED BY <1>0, <2>2
<1>7. f \in Surjection(S, others) BY <1>1 DEF Surjection
<1>8. f \in Injection(S, others)
  <2> HIDE DEF S
  <2>. QED BY <1>5, <1>6, <1>7, FS_Surjection
<1>9. \A a, b \in S : f[a] = f[b] => a = b BY <1>8 DEF Injection, IsInjective
<1>10. f \in Seq(Timers) /\ Len(f) = n - 1
  <2>1. n - 1 \in Nat BY <1>0
  <2>2. f \in [1..(n - 1) -> Timers] BY <1>1, <1>3
  <2> DEFINE m == n - 1
  <2>3. m \in Nat /\ f \in [1..m -> Timers] BY <2>1, <2>2
  <2> HIDE DEF m
  <2>4. f \in Seq(Timers) BY <2>3, SeqDef
  <2>5. Len(f) = m BY <2>3, <2>4, LenProperties
  <2>. QED BY <2>4, <2>5 DEF m
<1>11. h[1] \in Timers BY <1>0 DEF n
<1>12. RemoveLast(g) = f
  <2>1. /\ g \in Seq(Timers) /\ Len(g) = Len(f) + 1
        /\ \A j \in 1..Len(f) : g[j] = f[j]
    BY <1>1, <1>10, <1>11
  <2>2. Len(f) \in Nat /\ Len(g) - 1 = Len(f) BY <1>10, <2>1
  <2>3. \A j \in 1..(Len(g) - 1) : g[j] \in Timers BY <2>1, <2>2
  <2>4. /\ RemoveLast(g) \in Seq(Timers) /\ Len(RemoveLast(g)) = Len(f)
        /\ \A j \in 1..Len(f) : RemoveLast(g)[j] = g[j]
    BY <2>1, <2>2, <2>3 DEF RemoveLast
  <2>. QED BY <1>10, <2>1, <2>4, SeqEqual
<1>13. Lists(f, A \ {h[1]})
  <2>1. Len(f) = n - 1 /\ 1..Len(f) = S BY <1>10
  <2>2. \A i \in S : f[i] \in others BY <1>1
  <2>. QED BY <1>1, <1>4, <1>9, <1>10, <2>1, <2>2 DEF Lists
<1>. QED BY <1>1, <1>10, <1>12, <1>13 DEF n

(***************************************************************************)
(* The heap functions of TimerBase.                                        *)
(***************************************************************************)

\* What pop_heap() leaves is ordered by R.
LEMMA HeapIsBy ==
    ASSUME NEW h, NEW A, Lists(h, A), NEW tm, NEW od, NEW R, Decides(R, A, tm, od),
           IsHeap(h, tm, od)
    PROVE  HeapBy(h, R)
<1>0. Len(h) \in Nat BY DEF Lists
<1>1. ASSUME NEW i \in 2..Len(h) PROVE h[i] \in R[h[Parent(i)]]
  <2>1. i \in Nat /\ i >= 2 /\ i <= Len(h) /\ i \in 1..Len(h) BY <1>0
  <2>2. Parent(i) \in 1..Len(h) /\ Parent(i) # i BY <1>0, <2>1, Parents
  <2>3. h[i] \in A /\ h[Parent(i)] \in A /\ h[i] # h[Parent(i)] BY <2>1, <2>2 DEF Lists
  <2>4. ~Later(h[Parent(i)], h[i], tm, od) BY DEF IsHeap
  <2>. QED BY <2>3, <2>4 DEF Decides
<1>. QED BY <1>1 DEF HeapBy

\* heapInsert().
LEMMA InsertOK ==
    ASSUME NEW h, NEW A, Lists(h, A), NEW t \in Timers, t \notin A, NEW tm, NEW od,
           NEW R, Transitive(R), HeapBy(h, R), Decides(R, A \cup {t}, tm, od)
    PROVE  LET g == HeapInsert(h, t, tm, od) IN Lists(g, A \cup {t}) /\ HeapBy(g, R)
<1> DEFINE k == Append(h, t)
           n == Len(h)
<1>0. h \in Seq(Timers) /\ n \in Nat BY DEF Lists
<1>1. k \in Seq(Timers) /\ Len(k) = n + 1 /\ k[n + 1] = t /\ \A i \in 1..n : k[i] = h[i] BY <1>0
<1>l. /\ \A i, j \in 1..n : h[i] = h[j] => i = j
      /\ \A i \in 1..n : h[i] \in A
      /\ \A a \in A : \E i \in 1..n : h[i] = a
  BY DEF Lists
<1>b. \A i \in 2..n : h[i] \in R[h[Parent(i)]] BY DEF HeapBy
<1>g. HeapInsert(h, t, tm, od) = PushHeap(k, n + 1, tm, od) BY DEF HeapInsert
<1> HIDE DEF k, n
<1>2. \A i \in 1..(n + 1) : i \in 1..n \/ i = n + 1 BY <1>0
<1>3. \A i \in 1..n : i \in 1..(n + 1) BY <1>0
<1>4. n + 1 \in 1..(n + 1) BY <1>0
<1>5. Lists(k, A \cup {t})
  <2>1. \A i, j \in 1..(n + 1) : k[i] = k[j] => i = j BY <1>1, <1>2, <1>l
  <2>2. \A i \in 1..(n + 1) : k[i] \in A \cup {t} BY <1>1, <1>2, <1>l
  <2>3. \A a \in A \cup {t} : \E i \in 1..(n + 1) : k[i] = a BY <1>1, <1>3, <1>4, <1>l
  <2>. QED BY <1>1, <2>1, <2>2, <2>3 DEF Lists
<1>6. n + 1 \in 1..Len(k) BY <1>1, <1>4
<1>7. Lists(PushHeap(k, n + 1, tm, od), A \cup {t}) BY <1>5, <1>6, PushLists
<1>8. \A p \in 2..Len(k) : p \in Nat /\ p >= 2 /\ p <= n + 1 /\ Parent(p) \in 1..n /\ Parent(p) # n + 1
  <2>1. ASSUME NEW p \in 2..Len(k)
        PROVE  p \in Nat /\ p >= 2 /\ p <= n + 1 /\ Parent(p) \in 1..n /\ Parent(p) # n + 1
    <3>1. p \in Nat /\ p >= 2 /\ p <= n + 1 BY <1>0, <1>1
    <3>2. Parent(p) \in Nat /\ Parent(p) >= 1 /\ Parent(p) < p BY <3>1, Parents
    <3>. QED BY <1>0, <3>1, <3>2
  <2>. QED BY <2>1
<1>9. ASSUME NEW p \in 2..Len(k), p # n + 1 PROVE k[p] \in R[k[Parent(p)]]
  <2>1. p \in 2..n /\ p \in 1..n BY <1>0, <1>8, <1>9
  <2>. QED BY <1>1, <1>8, <1>b, <2>1
<1>10. ASSUME NEW p \in 1..Len(k), p # n + 1
       PROVE  /\ Later(k[p], k[n + 1], tm, od) => k[p] \in R[k[n + 1]]
              /\ ~Later(k[p], k[n + 1], tm, od) => k[n + 1] \in R[k[p]]
  <2>1. p \in 1..n BY <1>1, <1>2, <1>10
  <2>2. k[p] \in A /\ k[p] # t BY <1>1, <1>l, <2>1
  <2>. QED BY <1>1, <2>2 DEF Decides
<1>11. HeapBy(PushHeap(k, n + 1, tm, od), R)
  <2> DEFINE i == n + 1
  <2>1. i \in 1..Len(k) BY <1>6
  <2>2. \A p \in 2..Len(k) : (p # i /\ Parent(p) # i) => k[p] \in R[k[Parent(p)]] BY <1>9
  <2>3. \A p \in 2..Len(k) : Parent(p) # i BY <1>8
  <2>4. \A p \in 1..Len(k) : p # i => /\ Later(k[p], k[i], tm, od) => k[p] \in R[k[i]]
                                      /\ ~Later(k[p], k[i], tm, od) => k[i] \in R[k[p]]
    BY <1>10
  <2> HIDE DEF i
  <2>5. HeapBy(PushHeap(k, i, tm, od), R) BY <1>1, <2>1, <2>2, <2>3, <2>4, PushOrders
  <2>. QED BY <2>5 DEF i
<1>. QED BY <1>7, <1>11, <1>g

\* A timer is where Index() finds it.
LEMMA IndexOf ==
    ASSUME NEW h, NEW A, Lists(h, A), NEW t \in A
    PROVE  Index(h, t) \in 1..Len(h) /\ h[Index(h, t)] = t
<1>1. \E i \in 1..Len(h) : h[i] = t BY DEF Lists
<1>. QED BY <1>1 DEF Index

\* heapDecreaseKey(): O is the order before the timer's time was lowered.
LEMMA DecreaseOK ==
    ASSUME NEW h, NEW A, Lists(h, A), NEW t \in A, NEW tm, NEW od,
           NEW O, Transitive(O), HeapBy(h, O),
           NEW R, Transitive(R), Decides(R, A, tm, od),
           \A a, b \in A : (a # t /\ b # t /\ b \in O[a]) => b \in R[a],
           \A b \in A : (b # t /\ b \in O[t]) => b \in R[t]
    PROVE  LET g == HeapDecreaseKey(h, t, tm, od) IN Lists(g, A) /\ HeapBy(g, R)
<1> DEFINE i == Index(h, t)
           n == Len(h)
<1>0. h \in Seq(Timers) /\ n \in Nat BY DEF Lists
<1>1. i \in 1..n /\ h[i] = t BY IndexOf
<1>g. HeapDecreaseKey(h, t, tm, od) = PushHeap(h, i, tm, od) BY DEF HeapDecreaseKey
<1>l. /\ \A p, j \in 1..n : h[p] = h[j] => p = j
      /\ \A p \in 1..n : h[p] \in A /\ h[p] \in Timers
  BY <1>0 DEF Lists
<1>b. \A p \in 2..n : h[p] \in O[h[Parent(p)]] BY DEF HeapBy
<1> HIDE DEF i, n
<1>2. Lists(PushHeap(h, i, tm, od), A) BY <1>1, PushLists DEF n
<1>3. \A p \in 2..n : p \in 1..n /\ Parent(p) \in 1..n /\ Parent(p) # p
  <2>1. ASSUME NEW p \in 2..n PROVE p \in 1..n /\ Parent(p) \in 1..n /\ Parent(p) # p
    <3>1. p \in Nat /\ p >= 2 /\ p <= n BY <1>0
    <3>2. Parent(p) \in Nat /\ Parent(p) >= 1 /\ Parent(p) < p BY <3>1, Parents
    <3>. QED BY <1>0, <3>1, <3>2
  <2>. QED BY <2>1
<1>4. \A p \in 1..n : p # i => h[p] # t BY <1>1, <1>l
<1>5. ASSUME NEW p \in 2..n, p # i, Parent(p) # i PROVE h[p] \in R[h[Parent(p)]]
  BY <1>3, <1>4, <1>5, <1>b, <1>l
<1>6. ASSUME NEW p \in 2..n, Parent(p) = i
      PROVE  h[p] \in R[h[i]] /\ (i > 1 => h[p] \in R[h[Parent(i)]])
  <2>1. p # i /\ p \in 1..n /\ h[p] # t BY <1>3, <1>4, <1>6
  <2>2. h[p] \in O[t] BY <1>1, <1>6, <1>b
  <2>3. h[p] \in R[t] BY <1>l, <2>1, <2>2
  <2>4. ASSUME i > 1 PROVE h[p] \in R[h[Parent(i)]]
    <3>1. i \in 2..n BY <1>0, <1>1, <2>4
    <3>2. Parent(i) \in 1..n /\ h[Parent(i)] # t BY <1>3, <1>4, <3>1
    <3>3. t \in O[h[Parent(i)]] BY <1>1, <1>b, <3>1
    <3>4. h[p] \in O[h[Parent(i)]] BY <1>1, <1>l, <2>1, <2>2, <3>2, <3>3 DEF Transitive
    <3>. QED BY <1>l, <2>1, <3>2, <3>4
  <2>. QED BY <1>1, <2>3, <2>4
<1>7. ASSUME NEW p \in 1..n, p # i
      PROVE  /\ Later(h[p], h[i], tm, od) => h[p] \in R[h[i]]
             /\ ~Later(h[p], h[i], tm, od) => h[i] \in R[h[p]]
  <2>1. h[p] \in A /\ h[i] \in A /\ h[p] # h[i] BY <1>1, <1>4, <1>7, <1>l
  <2>. QED BY <2>1 DEF Decides
<1>8. HeapBy(PushHeap(h, i, tm, od), R) BY <1>0, <1>1, <1>5, <1>6, <1>7, PushOrders DEF n
<1>. QED BY <1>2, <1>8, <1>g

\* k is f with timer t put last.
Extends(k, f, t) == k = Append(f, t)

\* heapPop(): the timer is taken out, whatever its time was.
LEMMA PopTimer ==
    ASSUME NEW h, NEW A, Lists(h, A), NEW t \in A, NEW tm \in [Timers -> Nat], NEW od,
           NEW g \in HeapPop(h, t, tm, od)
    PROVE  LET f == RemoveLast(g) IN
             /\ Extends(g, f, t)
             /\ Lists(f, A \ {t}) /\ Len(f) = Len(h) - 1
             /\ IsHeap(f, tm, od)
<1> DEFINE least == [tm EXCEPT ![t] = -1]
           i == Index(h, t)
           k == PushHeap(h, i, least, od)
           f == RemoveLast(g)
<1>0. h \in Seq(Timers) /\ Len(h) \in Nat BY DEF Lists
<1>1. i \in 1..Len(h) /\ h[i] = t BY IndexOf
<1>2. g \in PopHeap(k, least, od) BY DEF HeapPop, HeapDecreaseKey
<1>3. t \in Timers /\ \A a \in A : a \in Timers BY <1>0, <1>1 DEF Lists
<1>4. least[t] = -1 /\ \A a \in Timers : a # t => least[a] = tm[a] /\ least[a] \in Nat BY <1>3
<1> HIDE DEF least, i, k, f
<1>5. Lists(k, A) /\ Len(k) = Len(h) BY <1>1, PushLists DEF k
<1>6. ASSUME NEW p \in 1..Len(h), p # i PROVE Later(h[p], h[i], least, od)
  <2>1. h[p] # t /\ h[p] \in Timers BY <1>0, <1>1, <1>6 DEF Lists
  <2>2. least[h[p]] # least[t] /\ least[t] < least[h[p]] BY <1>4, <2>1
  <2>. QED BY <1>1, <2>2 DEF Later
<1>7. k[1] = t BY <1>0, <1>1, <1>6, PushFirst DEF k
<1>8. k # <<>> BY <1>0, <1>1, <1>5
<1>9. /\ g = Append(f, t) /\ Lists(f, A \ {t}) /\ Len(f) = Len(h) - 1
      /\ IsHeap(f, least, od)
  BY <1>2, <1>5, <1>7, <1>8, PopParts DEF f
<1>10. ASSUME NEW j \in 2..Len(f) PROVE ~Later(f[Parent(j)], f[j], tm, od)
  <2>0. Len(f) \in Nat BY <1>9 DEF Lists
  <2>1. j \in Nat /\ j >= 2 /\ j <= Len(f) /\ j \in 1..Len(f) BY <2>0
  <2>2. Parent(j) \in 1..Len(f) BY <2>0, <2>1, Parents
  <2>3. f[j] \in A \ {t} /\ f[Parent(j)] \in A \ {t} BY <1>9, <2>1, <2>2 DEF Lists
  <2>4. least[f[j]] = tm[f[j]] /\ least[f[Parent(j)]] = tm[f[Parent(j)]] BY <1>3, <1>4, <2>3
  <2>5. ~Later(f[Parent(j)], f[j], least, od) BY <1>9 DEF IsHeap
  <2>. QED BY <2>4, <2>5 DEF Later
<1>11. IsHeap(f, tm, od) BY <1>10 DEF IsHeap
<1>12. Extends(g, f, t) BY <1>9 DEF Extends
<1>. QED BY <1>9, <1>11, <1>12 DEF f

\* updateHeapIfNeeded(): whichever function is called, the heap is one of the
\* timers that are active afterwards.
LEMMA AfterOK ==
    ASSUME NEW h, NEW A, Lists(h, A), NEW t \in Timers, NEW tm \in [Timers -> Nat], NEW od,
           NEW old \in Nat, old = 0 <=> t \notin A, old # tm[t],
           NEW B, B = IF tm[t] = 0 THEN A \ {t} ELSE A \cup {t},
           NEW O, Transitive(O), HeapBy(h, O),
           NEW R, Transitive(R), Decides(R, B, tm, od),
           \A a, b \in A : (a # t /\ b # t /\ b \in O[a]) => b \in R[a],
           tm[t] < old => \A b \in A : (b # t /\ b \in O[t]) => b \in R[t],
           NEW g \in HeapAfter(h, t, old, tm, od)
    PROVE  Lists(g, B) /\ HeapBy(g, R)
<1>0. h \in Seq(Timers) /\ Len(h) \in Nat BY DEF Lists
<1>1. CASE old = 0
  <2>1. t \notin A /\ tm[t] # 0 /\ B = A \cup {t} BY <1>1
  <2>2. HeapBy(h, R)
    <3>1. ASSUME NEW i \in 2..Len(h) PROVE h[i] \in R[h[Parent(i)]]
      <4>1. i \in Nat /\ i >= 2 /\ i <= Len(h) /\ i \in 1..Len(h) BY <1>0
      <4>p. Parent(i) \in Nat /\ Parent(i) >= 1 /\ Parent(i) < i BY <4>1, Parents
      <4>2. Parent(i) \in 1..Len(h) BY <1>0, <4>1, <4>p
      <4>3. h[i] \in A /\ h[Parent(i)] \in A BY <4>1, <4>2 DEF Lists
      <4>4. h[i] \in O[h[Parent(i)]] BY DEF HeapBy
      <4>. QED BY <2>1, <4>3, <4>4
    <3>. QED BY <3>1 DEF HeapBy
  <2>3. g = HeapInsert(h, t, tm, od) BY <1>1 DEF HeapAfter
  <2>. QED BY <2>1, <2>2, <2>3, InsertOK
<1>2. CASE old # 0 /\ tm[t] < old /\ tm[t] # 0
  <2>1. t \in A /\ B = A BY <1>2
  <2>2. g = HeapDecreaseKey(h, t, tm, od) BY <1>2 DEF HeapAfter
  <2>. QED BY <1>2, <2>1, <2>2, DecreaseOK
<1>3. CASE old # 0 /\ tm[t] = 0
  <2>1. t \in A /\ B = A \ {t} BY <1>3
  <2>2. g \in HeapDelete(h, t, tm, od) BY <1>3 DEF HeapAfter
  <2>3. PICK k \in HeapPop(h, t, tm, od) : g = RemoveLast(k) BY <2>2 DEF HeapDelete
  <2>4. Lists(g, A \ {t}) /\ IsHeap(g, tm, od) BY <2>1, <2>3, PopTimer
  <2>. QED BY <2>1, <2>4, HeapIsBy
<1>4. CASE old # 0 /\ tm[t] # 0 /\ ~(tm[t] < old)
  <2>1. t \in A /\ B = A /\ B = (A \ {t}) \cup {t} BY <1>4
  <2>2. g \in HeapIncreaseKey(h, t, tm, od) BY <1>4 DEF HeapAfter
  <2>3. PICK k \in HeapPop(h, t, tm, od) : g = PushHeap(k, Len(k), tm, od)
    BY <2>2 DEF HeapIncreaseKey
  <2>a. t \in A BY <2>1
  <2> DEFINE f == RemoveLast(k)
  <2>4. Extends(k, f, t) /\ Lists(f, A \ {t}) /\ IsHeap(f, tm, od) BY <2>a, PopTimer
  <2> HIDE DEF f
  <2>5. f \in Seq(Timers) /\ Len(k) = Len(f) + 1 BY <2>4 DEF Lists, Extends
  <2>6. g = HeapInsert(f, t, tm, od) BY <2>3, <2>4, <2>5 DEF HeapInsert, Extends
  <2>7. Decides(R, A \ {t}, tm, od) BY <2>1 DEF Decides
  <2>8. HeapBy(f, R) BY <2>4, <2>7, HeapIsBy
  <2>9. t \notin A \ {t} OBVIOUS
  <2>10. Decides(R, (A \ {t}) \cup {t}, tm, od) BY <2>1
  <2>11. Lists(g, (A \ {t}) \cup {t}) /\ HeapBy(g, R) BY <2>4, <2>6, <2>8, <2>9, <2>10, InsertOK
  <2>. QED BY <2>1, <2>11
<1>. QED BY <1>1, <1>2, <1>3, <1>4

(***************************************************************************)
(* The two orders: by time, which operator< always respects, and by time   *)
(* and insertion, which it respects while insertions are near each other.  *)
(***************************************************************************)

ByTime(tm) == [a \in Timers |-> {b \in Timers : tm[a] <= tm[b]}]

Before(a, b, tm, od) == tm[a] < tm[b] \/ (tm[a] = tm[b] /\ od[a] < od[b])

ByOrder(tm, od) == [a \in Timers |-> {b \in Timers : Before(a, b, tm, od)}]

\* The insertions of the timers of A differ, by less than half of the range.
NearBy(A, od) ==
    \A a, b \in A : a # b => od[a] # od[b] /\ od[a] - od[b] < (2^Width - 1) \div 2

\* Both are transitive.
LEMMA OrdersTransitive ==
    ASSUME NEW tm \in [Timers -> Nat], NEW od \in [Timers -> Nat]
    PROVE  Transitive(ByTime(tm)) /\ Transitive(ByOrder(tm, od))
<1>1. Transitive(ByTime(tm)) BY DEF Transitive, ByTime
<1>2. Transitive(ByOrder(tm, od)) BY DEF Transitive, ByOrder, Before
<1>. QED BY <1>1, <1>2

\* operator< respects the times, whatever the insertions.
LEMMA TimeDecides ==
    ASSUME NEW tm \in [Timers -> Nat], NEW od, NEW A \in SUBSET Timers
    PROVE  Decides(ByTime(tm), A, tm, od)
<1>1. ASSUME NEW a \in A, NEW b \in A
      PROVE  /\ Later(a, b, tm, od) => tm[b] <= tm[a]
             /\ ~Later(a, b, tm, od) => tm[a] <= tm[b]
  <2>0. tm[a] \in Nat /\ tm[b] \in Nat OBVIOUS
  <2>1. CASE tm[a] = tm[b] BY <2>0, <2>1
  <2>2. CASE tm[a] # tm[b]
    <3>1. Later(a, b, tm, od) <=> tm[b] < tm[a] BY <2>2 DEF Later
    <3>. QED BY <2>0, <2>2, <3>1
  <2>. QED BY <2>1, <2>2
<1>. QED BY <1>1 DEF Decides, ByTime

\* The remainder of a number that is less than the modulus.
LEMMA Remainder ==
    ASSUME NEW M \in Nat \ {0}, NEW x \in Int, -M < x, x < M
    PROVE  x % M = IF x >= 0 THEN x ELSE x + M
OBVIOUS

\* operator< is the order of times and insertions while these are near.
LEMMA OrderDecides ==
    ASSUME NEW tm \in [Timers -> Nat], NEW od \in [Timers -> Nat], NEW A \in SUBSET Timers,
           NearBy(A, od)
    PROVE  Decides(ByOrder(tm, od), A, tm, od)
<1> DEFINE M == 2^Width
           half == (M - 1) \div 2
<1>1. M \in Nat \ {0} BY PowerAssumption
<1> HIDE DEF M
<1>2. half \in Nat /\ 2 * half <= M - 1 BY <1>1
<1>3. ASSUME NEW a \in A, NEW b \in A, a # b
      PROVE  /\ Later(a, b, tm, od) => Before(b, a, tm, od)
             /\ ~Later(a, b, tm, od) => Before(a, b, tm, od)
  <2>0. tm[a] \in Nat /\ tm[b] \in Nat /\ od[a] \in Nat /\ od[b] \in Nat OBVIOUS
  <2>1. CASE tm[a] # tm[b] BY <2>0, <2>1 DEF Later, Before
  <2>2. CASE tm[a] = tm[b]
    <3> DEFINE x == od[a] - od[b]
    <3>1. x \in Int /\ x # 0 /\ x < half /\ -x < half
      <4>1. od[a] # od[b] /\ od[a] - od[b] < half /\ od[b] - od[a] < half
        BY <1>3 DEF NearBy, M
      <4>. QED BY <1>2, <2>0, <4>1
    <3>2. Later(a, b, tm, od) <=> x % M < half
      <4>1. Later(a, b, tm, od) <=> (od[a] - od[b]) % 2^Width < (2^Width - 1) \div 2
        BY <2>2 DEF Later
      <4>. QED BY <4>1, Zenon DEF M
    <3>3. x > 0 <=> od[b] < od[a] BY <2>0
    <3>4. x < 0 <=> od[a] < od[b] BY <2>0
    <3> HIDE DEF x, half
    <3>5. -M < x /\ x < M BY <1>1, <1>2, <3>1
    <3>6. x % M = IF x >= 0 THEN x ELSE x + M BY <1>1, <3>1, <3>5, Remainder
    <3>7. x % M < half <=> x > 0 BY <1>1, <1>2, <3>1, <3>6
    <3>. QED BY <2>2, <3>1, <3>2, <3>3, <3>4, <3>7 DEF Before
  <2>. QED BY <2>1, <2>2
<1>. QED BY <1>3 DEF Decides, ByOrder

(***************************************************************************)
(* The inductive invariant.                                                *)
(***************************************************************************)

HeapInv == Lists(heap, Active) /\ HeapBy(heap, ByTime(time))

\* The insertions of active timers are in the past and differ.
OrderInv == \A a, b \in Active : order[a] < nextOrder /\ (order[a] = order[b] => a = b)

\* The platform's timer is stopped in the loop and set for the first outside.
ClockInv ==
    /\ firing => stack # <<>> /\ shared = 0
    /\ (~firing /\ heap # <<>>) =>
         shared # 0 /\ (shared <= now \/ shared <= time[heap[1]])

\* Only the innermost loop looks at the heap; the others wait for a callback.
LoopInv ==
    /\ \A i \in 1..(Len(stack) - 1) : stack[i].at = "fired"
    /\ AtTop("loop") => firing

TimersInv == TypeOK /\ HeapInv /\ OrderInv /\ ClockInv /\ LoopInv

\* An order that agrees with another on the timers of a heap keeps the heap.
LEMMA HeapByBoth ==
    ASSUME NEW h, NEW A, Lists(h, A), NEW O, NEW R, HeapBy(h, O),
           \A a, b \in A : b \in O[a] => b \in R[a]
    PROVE  HeapBy(h, R)
<1>0. Len(h) \in Nat BY DEF Lists
<1>1. ASSUME NEW i \in 2..Len(h) PROVE h[i] \in R[h[Parent(i)]]
  <2>1. i \in Nat /\ i >= 2 /\ i <= Len(h) /\ i \in 1..Len(h) BY <1>0
  <2>2. Parent(i) \in Nat /\ Parent(i) >= 1 /\ Parent(i) < i BY <2>1, Parents
  <2>3. Parent(i) \in 1..Len(h) BY <1>0, <2>1, <2>2
  <2>4. h[i] \in A /\ h[Parent(i)] \in A BY <2>1, <2>3 DEF Lists
  <2>5. h[i] \in O[h[Parent(i)]] BY DEF HeapBy
  <2>. QED BY <2>4, <2>5
<1>. QED BY <1>1 DEF HeapBy

\* Functions and orders before and after a change of timer t.
SameBut(f, g, t) == \A a \in Timers : a # t => g[a] = f[a]
KeepsOthers(O, R, t) == \A a, b \in Timers : (a # t /\ b # t /\ b \in O[a]) => b \in R[a]
KeepsBelow(O, R, t) == \A b \in Timers : (b # t /\ b \in O[t]) => b \in R[t]

\* Changing the time and insertion of one timer keeps the order of the others; a
\* lower time keeps what was below it below.
LEMMA ChangeOne ==
    ASSUME NEW tm \in [Timers -> Nat], NEW od \in [Timers -> Nat],
           NEW tn \in [Timers -> Nat], NEW on \in [Timers -> Nat], NEW t \in Timers,
           SameBut(tm, tn, t), SameBut(od, on, t)
    PROVE  /\ KeepsOthers(ByTime(tm), ByTime(tn), t)
           /\ KeepsOthers(ByOrder(tm, od), ByOrder(tn, on), t)
           /\ tn[t] < tm[t] => /\ KeepsBelow(ByTime(tm), ByTime(tn), t)
                               /\ KeepsBelow(ByOrder(tm, od), ByOrder(tn, on), t)
<1>0. \A a \in Timers : a # t => tn[a] = tm[a] /\ on[a] = od[a] BY DEF SameBut
<1>1. ASSUME NEW a \in Timers, NEW b \in Timers, a # t, b # t
      PROVE  /\ b \in ByTime(tm)[a] => b \in ByTime(tn)[a]
             /\ b \in ByOrder(tm, od)[a] => b \in ByOrder(tn, on)[a]
  BY <1>0, <1>1 DEF ByTime, ByOrder, Before
<1>2. ASSUME tn[t] < tm[t], NEW b \in Timers, b # t
      PROVE  /\ b \in ByTime(tm)[t] => b \in ByTime(tn)[t]
             /\ b \in ByOrder(tm, od)[t] => b \in ByOrder(tn, on)[t]
  <2>1. tm[t] \in Nat /\ tn[t] \in Nat /\ tm[b] \in Nat /\ tn[b] = tm[b] BY <1>0, <1>2
  <2>. QED BY <1>2, <2>1 DEF ByTime, ByOrder, Before
<1>. QED BY <1>1, <1>2 DEF KeepsOthers, KeepsBelow

\* setNextFireTime() on a heap h of the timers A, all active ones but perhaps t.
LEMMA SetNextOK ==
    ASSUME TypeOK, OrderInv, NEW h, NEW A \in SUBSET Active, Lists(h, A), NEW t \in Timers,
           Active \ {t} \subseteq A, HeapBy(h, ByTime(time)),
           NEW old \in Nat, NEW new \in Nat, old = 0 <=> t \notin A, t \in A => time[t] = old,
           SetNextFireTime(h, t, old, new)
    PROVE  /\ time' = [time EXCEPT ![t] = new] /\ time' \in [Timers -> Nat]
           /\ order' \in [Timers -> Nat] /\ nextOrder' \in Nat
           /\ HeapInv' /\ OrderInv'
           /\ (HeapBy(h, ByOrder(time, order)) /\ NearBy(Active', order'))
                => HeapBy(heap', ByOrder(time', order'))
<1> DEFINE B == IF new = 0 THEN A \ {t} ELSE A \cup {t}
<1>0. /\ time \in [Timers -> Nat] /\ order \in [Timers -> Nat] /\ nextOrder \in Nat
      /\ Active \in SUBSET Timers
  BY DEF TypeOK, Active
<1>1. time' = [time EXCEPT ![t] = new] BY DEF SetNextFireTime
<1>2. time' \in [Timers -> Nat] /\ time'[t] = new /\ \A a \in Timers : a # t => time'[a] = time[a]
  BY <1>0, <1>1
<1>3. Active' = B
  <2>1. \A a \in Timers : a \in Active' <=> time'[a] # 0 BY DEF Active
  <2>2. \A a \in Timers : a \in Active <=> time[a] # 0 BY DEF Active
  <2>3. \A a \in Timers : a # t => (a \in Active <=> a \in A) OBVIOUS
  <2>4. \A a \in Timers : a \in Active' <=> a \in B BY <1>2, <2>1, <2>2, <2>3
  <2>5. Active' \subseteq Timers /\ B \subseteq Timers BY <1>0 DEF Active
  <2> HIDE DEF B
  <2>. QED BY <2>4, <2>5
<1>4. CASE old = new
  <2>1. heap' = h /\ order' = order /\ nextOrder' = nextOrder BY <1>4 DEF SetNextFireTime
  <2>2. Active' = A /\ \A a \in A : time'[a] = time[a]
    <3>1. CASE old = 0 BY <1>0, <1>2, <1>3, <1>4, <3>1
    <3>2. CASE old # 0 BY <1>0, <1>2, <1>3, <1>4, <3>2
    <3>. QED BY <3>1, <3>2
  <2>3. A \in SUBSET Timers BY <1>0
  <2>4. \A a, b \in A : /\ b \in ByTime(time)[a] => b \in ByTime(time')[a]
                        /\ b \in ByOrder(time, order)[a] => b \in ByOrder(time', order)[a]
    BY <2>2, <2>3 DEF ByTime, ByOrder, Before
  <2>5. HeapInv'
    <3>1. HeapBy(h, ByTime(time')) BY <2>4, HeapByBoth
    <3>. QED BY <2>1, <2>2, <3>1 DEF HeapInv
  <2>6. OrderInv' BY <2>1, <2>2 DEF OrderInv
  <2>7. HeapBy(h, ByOrder(time, order)) => HeapBy(heap', ByOrder(time', order'))
    BY <2>1, <2>4, HeapByBoth
  <2>. QED BY <1>0, <1>1, <1>2, <2>1, <2>5, <2>6, <2>7
<1>5. CASE old # new
  <2>1. order' = [order EXCEPT ![t] = nextOrder] /\ nextOrder' = nextOrder + 1
        /\ heap' \in HeapAfter(h, t, old, time', order')
    BY <1>5 DEF SetNextFireTime
  <2>2. /\ order' \in [Timers -> Nat] /\ order'[t] = nextOrder /\ nextOrder' \in Nat
        /\ \A a \in Timers : a # t => order'[a] = order[a]
    BY <1>0, <2>1
  <2>3. B = IF time'[t] = 0 THEN A \ {t} ELSE A \cup {t} BY <1>2
  <2>4. B \in SUBSET Timers /\ A \in SUBSET Timers BY <1>0
  <2>5. /\ Transitive(ByTime(time)) /\ Transitive(ByTime(time'))
        /\ Transitive(ByOrder(time, order)) /\ Transitive(ByOrder(time', order'))
    BY <1>0, <1>2, <2>2, OrdersTransitive
  <2> HIDE DEF B
  <2>6. /\ KeepsOthers(ByTime(time), ByTime(time'), t)
        /\ KeepsOthers(ByOrder(time, order), ByOrder(time', order'), t)
        /\ time'[t] < time[t] => /\ KeepsBelow(ByTime(time), ByTime(time'), t)
                                 /\ KeepsBelow(ByOrder(time, order), ByOrder(time', order'), t)
    <3>1. SameBut(time, time', t) /\ SameBut(order, order', t) BY <1>2, <2>2 DEF SameBut
    <3>. QED BY <1>0, <1>2, <2>2, <3>1, ChangeOne
  <2>7. time'[t] < old => time'[t] < time[t]
    <3>1. ASSUME time'[t] < old PROVE old # 0 BY <1>2, <3>1
    <3>2. old # 0 => time[t] = old OBVIOUS
    <3>. QED BY <3>1, <3>2
  <2>8. old # time'[t] BY <1>2, <1>5
  <2>9. Lists(heap', B) /\ HeapBy(heap', ByTime(time'))
    <3> DEFINE O == ByTime(time)
               R == ByTime(time')
    <3>1. Decides(R, B, time', order') BY <1>2, <2>4, TimeDecides
    <3>2. \A a, b \in A : (a # t /\ b # t /\ b \in O[a]) => b \in R[a]
      BY <2>4, <2>6 DEF KeepsOthers
    <3>3. time'[t] < old => \A b \in A : (b # t /\ b \in O[t]) => b \in R[t]
      BY <2>4, <2>6, <2>7 DEF KeepsBelow
    <3>4. Transitive(O) /\ Transitive(R) /\ HeapBy(h, O) BY <2>5
    <3> HIDE DEF O, R
    <3>5. Lists(heap', B) /\ HeapBy(heap', R)
      BY <1>2, <2>1, <2>3, <2>8, <3>1, <3>2, <3>3, <3>4, AfterOK
    <3>. QED BY <3>5 DEF R
  <2>10. ASSUME HeapBy(h, ByOrder(time, order)), NearBy(Active', order')
         PROVE  HeapBy(heap', ByOrder(time', order'))
    <3> DEFINE O == ByOrder(time, order)
               R == ByOrder(time', order')
    <3>1. Decides(R, B, time', order') BY <1>2, <1>3, <2>2, <2>4, <2>10, OrderDecides
    <3>2. \A a, b \in A : (a # t /\ b # t /\ b \in O[a]) => b \in R[a]
      BY <2>4, <2>6 DEF KeepsOthers
    <3>3. time'[t] < old => \A b \in A : (b # t /\ b \in O[t]) => b \in R[t]
      BY <2>4, <2>6, <2>7 DEF KeepsBelow
    <3>4. Transitive(O) /\ Transitive(R) /\ HeapBy(h, O) BY <2>5, <2>10
    <3> HIDE DEF O, R
    <3>5. Lists(heap', B) /\ HeapBy(heap', R)
      BY <1>2, <2>1, <2>3, <2>8, <3>1, <3>2, <3>3, <3>4, AfterOK
    <3>. QED BY <3>5 DEF R
  <2>11. HeapInv' BY <1>3, <2>9 DEF HeapInv
  <2>12. OrderInv'
    <3>1. ASSUME NEW a \in B, NEW b \in B
          PROVE  order'[a] < nextOrder' /\ (order'[a] = order'[b] => a = b)
      <4>1. a \in Timers /\ b \in Timers BY <2>4
      <4>2. \A c \in B : c # t => c \in Active BY DEF B
      <4>3. \A c \in B : c # t => order'[c] = order[c] /\ order[c] < nextOrder
        BY <2>2, <2>4, <4>2 DEF OrderInv
      <4>4. order[a] \in Nat /\ order[b] \in Nat BY <1>0, <4>1
      <4>5. CASE a = t BY <1>0, <2>1, <2>2, <4>3, <4>4, <4>5
      <4>6. CASE a # t
        <5>1. order'[a] < nextOrder' BY <1>0, <2>1, <4>3, <4>4, <4>6
        <5>2. CASE b = t BY <1>0, <2>2, <4>3, <4>4, <4>6, <5>1, <5>2
        <5>3. CASE b # t BY <4>2, <4>3, <4>6, <5>1, <5>3 DEF OrderInv
        <5>. QED BY <5>2, <5>3
      <4>. QED BY <4>5, <4>6
    <3>. QED BY <1>3, <3>1 DEF OrderInv
  <2>. QED BY <1>1, <1>2, <2>2, <2>10, <2>11, <2>12
<1>. QED BY <1>4, <1>5

\* What the theorems about insertions suppose of the active timers.
Near == \A a, b \in Active : order[a] - order[b] < (2^Width - 1) \div 2

Ordered == HeapBy(heap, ByOrder(time, order))

\* What every step is shown to keep.
Keeps == TimersInv' /\ ((Ordered /\ Near /\ Near') => Ordered')

\* Active timers differ in their insertions.
LEMMA NearActive ==
    ASSUME OrderInv, Near
    PROVE  NearBy(Active, order)
BY DEF OrderInv, Near, NearBy

\* The first timer of a list, and that no other is due before it.
LEMMA FirstTimer ==
    ASSUME NEW h, NEW A, Lists(h, A), h # <<>>
    PROVE  /\ h[1] \in A /\ h[1] \in Timers
           /\ \A R : (Transitive(R) /\ HeapBy(h, R)) => \A a \in A \ {h[1]} : a \in R[h[1]]
<1>0. h \in Seq(Timers) /\ Len(h) \in Nat /\ Len(h) >= 1 BY EmptySeq DEF Lists
<1>1. 1 \in 1..Len(h) BY <1>0
<1>2. h[1] \in A /\ h[1] \in Timers BY <1>0, <1>1 DEF Lists
<1>3. ASSUME NEW R, Transitive(R), HeapBy(h, R), NEW a \in A, a # h[1] PROVE a \in R[h[1]]
  <2>1. PICK p \in 1..Len(h) : h[p] = a BY DEF Lists
  <2>2. p \in 2..Len(h) BY <1>0, <1>3, <2>1
  <2>3. \A q \in 2..Len(h) : h[q] \in R[h[1]] BY <1>0, <1>3, FirstOfHeap
  <2>. QED BY <2>1, <2>2, <2>3
<1>. QED BY <1>2, <1>3

\* updateSharedTimer(): the platform's timer is not set for later than the first.
LEMMA UpdateOK ==
    ASSUME TypeOK, NEW h, NEW tm \in [Timers -> Nat], h # <<>> => h[1] \in Timers,
           NEW f \in BOOLEAN, UpdateSharedTimer(f, h, tm)
    PROVE  /\ shared' \in Nat
           /\ f => shared' = 0
           /\ (~f /\ h # <<>>) => shared' # 0 /\ (shared' <= now \/ shared' <= tm[h[1]])
<1>1. now \in Nat /\ now >= 1 BY ConstAssumption DEF TypeOK
<1>2. CASE f \/ h = <<>>
  <2>1. shared' = 0 BY <1>2 DEF UpdateSharedTimer
  <2>2. shared' \in Nat BY <2>1
  <2>. QED BY <1>2, <2>1, <2>2
<1>3. CASE ~(f \/ h = <<>>)
  <2> DEFINE d == tm[h[1]] - now
  <2>1. shared' = now + Interval(d) BY <1>3 DEF UpdateSharedTimer
  <2>2. tm[h[1]] \in Nat BY <1>3
  <2>3. d \in Int /\ now + d = tm[h[1]] BY <1>1, <2>2
  <2> HIDE DEF d
  <2>4. Unit \in Nat \ {0} BY ConstAssumption
  <2>5. Interval(d) \in Nat /\ (Interval(d) = 0 \/ Interval(d) <= d)
    <3>1. CASE d < 0 BY <3>1 DEF Interval
    <3>2. CASE d >= 0
      <4>1. Interval(d) = (d \div Unit) * Unit BY <2>3, <3>2 DEF Interval
      <4>2. d \div Unit \in Nat /\ (d \div Unit) * Unit <= d /\ (d \div Unit) * Unit \in Nat
        BY <2>3, <2>4, <3>2
      <4>. QED BY <4>1, <4>2
    <3>. QED BY <2>3, <3>1, <3>2
  <2>6. shared' \in Nat /\ shared' # 0 /\ (shared' <= now \/ shared' <= tm[h[1]])
    BY <1>1, <2>1, <2>2, <2>3, <2>5
  <2>. QED BY <1>3, <2>6
<1>. QED BY <1>2, <1>3

\* setNextFireTime() outside the loop: the platform's timer need not be set anew
\* unless the timer was first or is first.
LEMMA ClockKept ==
    ASSUME TypeOK, HeapInv, ClockInv, NEW t \in Timers, NEW new \in Nat,
           SetNextFireTime(heap, t, time[t], new), UNCHANGED <<now, firing, stack>>,
           HeapInv', time' \in [Timers -> Nat]
    PROVE  shared' \in Nat /\ ClockInv'
<1>0. /\ time \in [Timers -> Nat] /\ now \in Nat /\ shared \in Nat /\ firing \in BOOLEAN
      /\ firing' = firing /\ now' = now /\ stack' = stack
  BY ConstAssumption DEF TypeOK
<1>1. \A a \in Timers : a # t => time'[a] = time[a] BY <1>0 DEF SetNextFireTime
<1>2. /\ heap' # <<>> => heap'[1] \in Active' /\ heap'[1] \in Timers
      /\ heap # <<>> => heap[1] \in Active /\ heap[1] \in Timers
  BY FirstTimer DEF HeapInv
<1>3. CASE time[t] = new
  <2>1. heap' = heap /\ shared' = shared /\ time' = [time EXCEPT ![t] = new]
    BY <1>3 DEF SetNextFireTime
  <2>2. time' = time BY <1>0, <1>3, <2>1
  <2>. QED BY <1>0, <2>1, <2>2 DEF ClockInv
<1>4. CASE time[t] # new /\ (IsFirst(heap, t) \/ IsFirst(heap', t))
  <2>1. UpdateSharedTimer(firing, heap', time') BY <1>4 DEF SetNextFireTime
  <2>2. /\ shared' \in Nat
        /\ firing => shared' = 0
        /\ (~firing /\ heap' # <<>>) => shared' # 0 /\ (shared' <= now \/ shared' <= time'[heap'[1]])
    BY <1>0, <1>2, <2>1, UpdateOK
  <2>. QED BY <1>0, <2>2 DEF ClockInv
<1>5. CASE time[t] # new /\ ~IsFirst(heap, t) /\ ~IsFirst(heap', t)
  <2>1. shared' = shared BY <1>5 DEF SetNextFireTime
  <2>2. ASSUME ~firing, heap' # <<>>
        PROVE  shared' # 0 /\ (shared' <= now' \/ shared' <= time'[heap'[1]])
    <3> DEFINE b == heap'[1]
               c == heap[1]
    <3>1. b # t /\ b \in Timers /\ b \in Active' BY <1>2, <1>5, <2>2 DEF IsFirst
    <3>2. time'[b] = time[b] /\ time'[b] # 0 BY <1>1, <3>1 DEF Active
    <3>3. b \in Active BY <3>1, <3>2 DEF Active
    <3>4. heap # <<>>
      <4>1. \E i \in 1..Len(heap) : heap[i] = b BY <3>3 DEF HeapInv, Lists
      <4>. QED BY <4>1
    <3>5. c \in Timers BY <1>2, <3>4
    <3>6. time[c] <= time[b]
      <4>1. CASE b = c BY <1>0, <3>5, <4>1
      <4>2. CASE b # c
        <5>1. Lists(heap, Active) /\ HeapBy(heap, ByTime(time)) BY DEF HeapInv
        <5>2. Transitive(ByTime(time)) BY <1>0, OrdersTransitive DEF TypeOK
        <5>3. b \in ByTime(time)[c] BY <3>3, <3>4, <4>2, <5>1, <5>2, FirstTimer
        <5>. QED BY <3>5, <5>3 DEF ByTime
      <4>. QED BY <4>1, <4>2
    <3>7. shared # 0 /\ (shared <= now \/ shared <= time[c]) BY <2>2, <3>4 DEF ClockInv
    <3>8. time[b] \in Nat /\ time[c] \in Nat BY <1>0, <3>1, <3>5
    <3> HIDE DEF b, c
    <3>9. shared' # 0 /\ (shared' <= now' \/ shared' <= time'[b])
      BY <1>0, <2>1, <3>2, <3>6, <3>7, <3>8
    <3>. QED BY <3>9 DEF b
  <2>3. firing => stack # <<>> /\ shared = 0 BY DEF ClockInv
  <2>. QED BY <1>0, <2>1, <2>2, <2>3 DEF ClockInv
<1>. QED BY <1>3, <1>4, <1>5

\* The innermost loop, and the others.
LEMMA StackParts ==
    ASSUME NEW s \in Seq(Frame), s # <<>>
    PROVE  /\ Len(s) \in Nat /\ Len(s) >= 1 /\ s[Len(s)] \in Frame
           /\ SubSeq(s, 1, Len(s) - 1) \in Seq(Frame)
           /\ Len(SubSeq(s, 1, Len(s) - 1)) = Len(s) - 1
           /\ \A i \in 1..(Len(s) - 1) : SubSeq(s, 1, Len(s) - 1)[i] = s[i]
<1> DEFINE n == Len(s) - 1
           f == SubSeq(s, 1, n)
<1>1. Len(s) \in Nat /\ Len(s) >= 1 /\ n \in Nat BY EmptySeq
<1>2. \A i \in 1..Len(s) : s[i] \in Frame OBVIOUS
<1>3. s[Len(s)] \in Frame BY <1>1, <1>2
<1>4. \A i \in 1..n : s[i] \in Frame BY <1>1, <1>2
<1>5. f \in Seq(Frame) BY <1>1, <1>4, SubSeqProperties
<1> HIDE DEF n
<1>6. Len(f) = IF 1 <= n THEN n - 1 + 1 ELSE 0 BY <1>1, <1>4, SubSeqProperties
<1>7. \A i \in 1..(n - 1 + 1) : f[i] = s[1 + i - 1] BY <1>1, <1>4, SubSeqProperties
<1> HIDE DEF f
<1>8. Len(f) = n BY <1>1, <1>6
<1>9. \A i \in 1..n : f[i] = s[i] BY <1>1, <1>7
<1>. QED BY <1>1, <1>3, <1>5, <1>8, <1>9 DEF f, n

Replaces(k, s, x) == k = Append(SubSeq(s, 1, Len(s) - 1), x)

\* The innermost loop goes on to its next place.
LEMMA StackReplace ==
    ASSUME NEW s \in Seq(Frame), s # <<>>, NEW x \in Frame, NEW k, Replaces(k, s, x)
    PROVE  /\ k \in Seq(Frame) /\ k # <<>> /\ Len(k) = Len(s) /\ k[Len(k)] = x
           /\ \A i \in 1..(Len(s) - 1) : k[i] = s[i]
<1> DEFINE f == SubSeq(s, 1, Len(s) - 1)
<1>1. Len(s) \in Nat /\ Len(s) >= 1 /\ f \in Seq(Frame) /\ Len(f) = Len(s) - 1 BY StackParts
<1>2. \A i \in 1..(Len(s) - 1) : f[i] = s[i] BY StackParts
<1>3. k = Append(f, x) BY DEF Replaces
<1> HIDE DEF f
<1>4. k \in Seq(Frame) BY <1>1, <1>3
<1>5. Len(k) = Len(f) + 1 BY <1>1, <1>3
<1>6. k[Len(f) + 1] = x BY <1>1, <1>3
<1>7. \A i \in 1..Len(f) : k[i] = f[i] BY <1>1, <1>3
<1>8. Len(k) = Len(s) /\ k[Len(k)] = x BY <1>1, <1>5, <1>6
<1>9. \A i \in 1..(Len(s) - 1) : k[i] = s[i] BY <1>1, <1>2, <1>7
<1>10. k # <<>> BY <1>1, <1>4, <1>8
<1>. QED BY <1>4, <1>8, <1>9, <1>10

\* A loop is entered.
LEMMA StackPush ==
    ASSUME NEW s \in Seq(Frame), NEW x \in Frame, NEW k, k = Append(s, x)
    PROVE  /\ k \in Seq(Frame) /\ k # <<>> /\ Len(k) = Len(s) + 1 /\ k[Len(k)] = x
           /\ \A i \in 1..Len(s) : k[i] = s[i]
<1>1. Len(s) \in Nat OBVIOUS
<1>2. k \in Seq(Frame) OBVIOUS
<1>3. Len(k) = Len(s) + 1 /\ k[Len(s) + 1] = x /\ \A i \in 1..Len(s) : k[i] = s[i]
  BY AppendProperties
<1>4. k # <<>> BY <1>1, <1>3, EmptySeq
<1>. QED BY <1>1, <1>2, <1>3, <1>4

\* start(), stop() and augmentRepeatInterval() have setNextFireTime() in common.
LEMMA SetKeeps ==
    ASSUME TimersInv, NEW t \in Timers, NEW new \in Nat,
           SetNextFireTime(heap, t, time[t], new), UNCHANGED <<now, firing, stack>>,
           repeat' \in [Timers -> Nat], sets' \in 0..MaxSets
    PROVE  Keeps
<1>0. TypeOK /\ HeapInv /\ OrderInv /\ ClockInv /\ LoopInv BY DEF TimersInv
<1>1. Lists(heap, Active) /\ HeapBy(heap, ByTime(time)) BY <1>0 DEF HeapInv
<1>2. time[t] \in Nat /\ (time[t] = 0 <=> t \notin Active) BY <1>0 DEF TypeOK, Active
<1>3. /\ time' \in [Timers -> Nat] /\ order' \in [Timers -> Nat] /\ nextOrder' \in Nat
      /\ HeapInv' /\ OrderInv'
      /\ (HeapBy(heap, ByOrder(time, order)) /\ NearBy(Active', order'))
           => HeapBy(heap', ByOrder(time', order'))
  BY <1>0, <1>1, <1>2, SetNextOK
<1>4. shared' \in Nat /\ ClockInv' BY <1>0, <1>3, ClockKept
<1>5. heap' \in Seq(Timers) BY <1>3 DEF HeapInv, Lists
<1>6. now' = now /\ firing' = firing /\ stack' = stack OBVIOUS
<1>7. TypeOK' BY <1>0, <1>3, <1>4, <1>5, <1>6 DEF TypeOK
<1>8. LoopInv' BY <1>0, <1>6 DEF LoopInv, AtTop, Top
<1>9. Near' => NearBy(Active', order') BY <1>3 DEF OrderInv, Near, NearBy
<1>. QED BY <1>3, <1>4, <1>7, <1>8, <1>9 DEF Keeps, TimersInv, Ordered

\* A step that leaves the heap, the times and the insertions alone.
LEMMA RestKeeps ==
    ASSUME TimersInv, UNCHANGED <<heap, time, repeat, order, nextOrder, sets>>,
           now' \in 1..MaxNow, shared' \in Nat, firing' \in BOOLEAN, stack' \in Seq(Frame),
           ClockInv', LoopInv'
    PROVE  Keeps
<1>0. TypeOK /\ HeapInv /\ OrderInv BY DEF TimersInv
<1>1. /\ heap' = heap /\ time' = time /\ repeat' = repeat /\ order' = order
      /\ nextOrder' = nextOrder /\ sets' = sets
  OBVIOUS
<1>2. Active' = Active BY <1>1 DEF Active
<1>3. HeapInv' BY <1>0, <1>1, <1>2 DEF HeapInv
<1>4. OrderInv' BY <1>0, <1>1, <1>2 DEF OrderInv
<1>5. TypeOK' BY <1>0, <1>1 DEF TypeOK
<1>6. Ordered => Ordered' BY <1>1 DEF Ordered
<1>. QED BY <1>3, <1>4, <1>5, <1>6 DEF Keeps, TimersInv

\* updateSharedTimer() outside the loop.
LEMMA UpdateKeeps ==
    ASSUME TimersInv, UpdateSharedTimer(FALSE, heap, time), firing' = FALSE,
           UNCHANGED <<heap, time, now>>
    PROVE  shared' \in Nat /\ ClockInv'
<1>0. TypeOK /\ HeapInv /\ time \in [Timers -> Nat] BY DEF TimersInv, TypeOK
<1>1. heap # <<>> => heap[1] \in Timers BY <1>0, FirstTimer DEF HeapInv
<1>2. /\ shared' \in Nat
      /\ heap # <<>> => shared' # 0 /\ (shared' <= now \/ shared' <= time[heap[1]])
  BY <1>0, <1>1, UpdateOK
<1>3. heap' = heap /\ time' = time /\ now' = now OBVIOUS
<1>. QED BY <1>2, <1>3 DEF ClockInv

\* The loop ends: the outer loops go on waiting for their callbacks.
LEMMA LeaveKeeps ==
    ASSUME TimersInv, stack # <<>>, Leave
    PROVE  Keeps
<1>0. TypeOK /\ LoopInv BY DEF TimersInv
<1>1. stack \in Seq(Frame) /\ now \in 1..MaxNow BY <1>0 DEF TypeOK
<1>2. /\ firing' = FALSE /\ stack' = SubSeq(stack, 1, Len(stack) - 1)
      /\ UpdateSharedTimer(FALSE, heap, time)
      /\ UNCHANGED <<heap, time, repeat, order, nextOrder, sets, now>>
  BY DEF Leave, Pop
<1>3. shared' \in Nat /\ ClockInv' BY <1>2, UpdateKeeps
<1>4. /\ Len(stack) \in Nat /\ Len(stack) >= 1 /\ stack' \in Seq(Frame)
      /\ Len(stack') = Len(stack) - 1
      /\ \A i \in 1..(Len(stack) - 1) : stack'[i] = stack[i]
  BY <1>1, <1>2, StackParts
<1>5. \A i \in 1..(Len(stack) - 1) : stack[i].at = "fired" BY <1>0 DEF LoopInv
<1>6. \A i \in 1..Len(stack') : stack'[i].at = "fired" BY <1>4, <1>5
<1>7. LoopInv'
  <2>1. \A i \in 1..(Len(stack') - 1) : stack'[i].at = "fired" BY <1>4, <1>6
  <2>2. stack' # <<>> => stack'[Len(stack')].at = "fired"
    <3>1. stack' # <<>> => Len(stack') \in 1..Len(stack') BY <1>4, EmptySeq
    <3>. QED BY <1>6, <3>1
  <2>. QED BY <2>1, <2>2 DEF LoopInv, AtTop, Top
<1>. QED BY <1>1, <1>2, <1>3, <1>4, <1>7, RestKeeps

\* The first timer leaves the heap, whose order does not depend on its time.
LEMMA DeleteMinOK ==
    ASSUME TypeOK, HeapInv, heap # <<>>, NEW h \in HeapDeleteMin
    PROVE  /\ Lists(h, Active \ {heap[1]})
           /\ HeapBy(h, ByTime(time))
           /\ (OrderInv /\ Near) => HeapBy(h, ByOrder(time, order))
<1> DEFINE t == heap[1]
           tm == [time EXCEPT ![t] = 0]
           A == Active \ {t}
<1>0. time \in [Timers -> Nat] /\ order \in [Timers -> Nat] /\ Active \in SUBSET Timers
  BY DEF TypeOK, Active
<1>1. Lists(heap, Active) BY DEF HeapInv
<1>2. t \in Active BY <1>1, FirstTimer
<1>3. PICK g \in PopHeap(heap, tm, order) : h = RemoveLast(g) BY DEF HeapDeleteMin
<1>4. \A a \in Timers : a # t => tm[a] = time[a] BY <1>0
<1>5. A \in SUBSET Timers BY <1>0
<1> HIDE DEF tm
<1>6. Lists(h, A) /\ IsHeap(h, tm, order) BY <1>1, <1>3, PopParts
<1> HIDE DEF t
<1>7. IsHeap(h, time, order)
  <2>0. Len(h) \in Nat BY <1>6 DEF Lists
  <2>1. ASSUME NEW j \in 2..Len(h) PROVE ~Later(h[Parent(j)], h[j], time, order)
    <3>1. j \in Nat /\ j >= 2 /\ j <= Len(h) /\ j \in 1..Len(h) BY <2>0
    <3>2. Parent(j) \in 1..Len(h) BY <2>0, <3>1, Parents
    <3>3. h[j] \in A /\ h[Parent(j)] \in A BY <1>6, <3>1, <3>2 DEF Lists
    <3>4. tm[h[j]] = time[h[j]] /\ tm[h[Parent(j)]] = time[h[Parent(j)]] BY <1>4, <1>5, <3>3
    <3>5. ~Later(h[Parent(j)], h[j], tm, order) BY <1>6 DEF IsHeap
    <3>. QED BY <3>4, <3>5 DEF Later
  <2>. QED BY <2>1 DEF IsHeap
<1>8. HeapBy(h, ByTime(time))
  <2>1. Decides(ByTime(time), A, time, order) BY <1>0, <1>5, TimeDecides
  <2> HIDE DEF A
  <2>. QED BY <1>6, <1>7, <2>1, HeapIsBy
<1>9. ASSUME OrderInv, Near PROVE HeapBy(h, ByOrder(time, order))
  <2>1. NearBy(Active, order) BY <1>9, NearActive
  <2>2. NearBy(A, order) BY <2>1 DEF NearBy
  <2>3. Decides(ByOrder(time, order), A, time, order) BY <1>0, <1>5, <2>2, OrderDecides
  <2> HIDE DEF A
  <2>. QED BY <1>6, <1>7, <2>3, HeapIsBy
<1>. QED BY <1>6, <1>8, <1>9 DEF t

\* A timer fires: it is out of the heap, and back in it if it repeats.
LEMMA FireFirstKeeps ==
    ASSUME TimersInv, FireFirst
    PROVE  Keeps
<1>0. TypeOK /\ HeapInv /\ OrderInv /\ ClockInv /\ LoopInv BY DEF TimersInv
<1>1. stack # <<>> /\ heap # <<>> /\ AtTop("loop") BY DEF FireFirst, AtTop
<1> DEFINE t == heap[1]
           A == Active \ {t}
           new == IF repeat[t] # 0 THEN Top.fireTime + repeat[t] ELSE 0
           x == [Top EXCEPT !.at = "fired", !.timer = t]
<1>2. PICK h \in HeapDeleteMin : SetNextFireTime(h, t, 0, new) BY DEF FireFirst
<1>3. Replaces(stack', stack, x) BY DEF FireFirst, Pop, Replaces
<1>4. repeat' = repeat /\ sets' = sets /\ now' = now /\ firing' = firing BY DEF FireFirst
<1>5. /\ time \in [Timers -> Nat] /\ repeat \in [Timers -> Nat] /\ stack \in Seq(Frame)
      /\ shared \in Nat /\ firing \in BOOLEAN
  BY <1>0 DEF TypeOK
<1>6. t \in Timers /\ t \in Active BY <1>0, <1>1, FirstTimer DEF HeapInv
<1>7. Top \in Frame BY <1>1, <1>5, StackParts DEF Top
<1>8. new \in Nat /\ x \in Frame /\ x.at = "fired"
  <2>1. Top.fireTime \in Nat BY <1>7 DEF Frame
  <2>2. new \in Nat BY <1>5, <1>6, <2>1
  <2>3. x \in Frame /\ x.at = "fired" BY <1>6, <1>7 DEF Frame
  <2>. QED BY <2>2, <2>3
<1> HIDE DEF new, x
<1>9. /\ Lists(h, A) /\ HeapBy(h, ByTime(time))
      /\ Near => HeapBy(h, ByOrder(time, order))
  BY <1>0, <1>1, <1>2, DeleteMinOK
<1>10. A \in SUBSET Active /\ Active \ {t} \subseteq A /\ t \notin A OBVIOUS
<1> HIDE DEF A, t
<1>11. /\ time' \in [Timers -> Nat] /\ order' \in [Timers -> Nat] /\ nextOrder' \in Nat
       /\ HeapInv' /\ OrderInv'
       /\ (HeapBy(h, ByOrder(time, order)) /\ NearBy(Active', order'))
            => HeapBy(heap', ByOrder(time', order'))
  BY <1>0, <1>2, <1>6, <1>8, <1>9, <1>10, SetNextOK
<1>12. firing /\ shared = 0 BY <1>0, <1>1 DEF LoopInv, ClockInv
<1>13. shared' = 0
  <2>1. shared' = shared \/ UpdateSharedTimer(firing, heap', time') BY <1>2 DEF SetNextFireTime
  <2>. QED BY <1>12, <2>1 DEF UpdateSharedTimer
<1>14. /\ stack' \in Seq(Frame) /\ stack' # <<>> /\ Len(stack') = Len(stack)
       /\ stack'[Len(stack')] = x
       /\ \A i \in 1..(Len(stack) - 1) : stack'[i] = stack[i]
  BY <1>1, <1>3, <1>5, <1>8, StackReplace
<1>15. ClockInv' BY <1>4, <1>12, <1>13, <1>14 DEF ClockInv
<1>16. LoopInv' BY <1>0, <1>4, <1>12, <1>14 DEF LoopInv
<1>17. heap' \in Seq(Timers) BY <1>11 DEF HeapInv, Lists
<1>18. TypeOK' BY <1>0, <1>4, <1>11, <1>13, <1>14, <1>17 DEF TypeOK
<1>19. Near' => NearBy(Active', order') BY <1>11 DEF OrderInv, Near, NearBy
<1>. QED BY <1>9, <1>11, <1>15, <1>16, <1>18, <1>19 DEF Keeps, TimersInv, Ordered

\* start() and startOneShot().
LEMMA StartKeeps ==
    ASSUME TimersInv, NEW t \in Timers, NEW d \in Delays, NEW r \in Repeats, Start(t, d, r)
    PROVE  Keeps
<1>1. TypeOK BY DEF TimersInv
<1>2. d \in Nat /\ r \in Nat BY ConstAssumption
<1>3. now + d \in Nat BY <1>1, <1>2, ConstAssumption DEF TypeOK
<1>4. repeat' \in [Timers -> Nat] BY <1>1, <1>2 DEF Start, TypeOK
<1>5. sets' \in 0..MaxSets BY <1>1, ConstAssumption DEF Start, Sets, TypeOK
<1>6. SetNextFireTime(heap, t, time[t], now + d) /\ UNCHANGED <<now, firing, stack>> BY DEF Start
<1>. QED BY <1>3, <1>4, <1>5, <1>6, SetKeeps

\* stop() and the destructor.
LEMMA StopKeeps ==
    ASSUME TimersInv, NEW t \in Timers, Stop(t)
    PROVE  Keeps
<1>1. TypeOK BY DEF TimersInv
<1>4. repeat' \in [Timers -> Nat] BY <1>1 DEF Stop, TypeOK
<1>5. sets' \in 0..MaxSets BY <1>1, ConstAssumption DEF Stop, Sets, TypeOK
<1>6. SetNextFireTime(heap, t, time[t], 0) /\ UNCHANGED <<now, firing, stack>> BY DEF Stop
<1>. QED BY <1>4, <1>5, <1>6, SetKeeps

\* augmentRepeatInterval().
LEMMA AugmentKeeps ==
    ASSUME TimersInv, NEW t \in Timers, NEW d \in Delays \ {0}, AugmentRepeatInterval(t, d)
    PROVE  Keeps
<1>1. TypeOK BY DEF TimersInv
<1>2. d \in Nat BY ConstAssumption
<1>3. time[t] + d \in Nat BY <1>1, <1>2 DEF TypeOK
<1>4. repeat' \in [Timers -> Nat] BY <1>1, <1>2 DEF AugmentRepeatInterval, TypeOK
<1>5. sets' \in 0..MaxSets BY <1>1, ConstAssumption DEF AugmentRepeatInterval, Sets, TypeOK
<1>6. SetNextFireTime(heap, t, time[t], time[t] + d) /\ UNCHANGED <<now, firing, stack>>
  BY DEF AugmentRepeatInterval
<1>. QED BY <1>3, <1>4, <1>5, <1>6, SetKeeps

\* fireTimersInNestedEventLoop(): the loop is no longer firing and the platform
\* timer runs again.
LEMMA NestedLoopKeeps ==
    ASSUME TimersInv, FireTimersInNestedEventLoop
    PROVE  Keeps
<1>0. TypeOK /\ LoopInv BY DEF TimersInv
<1>1. /\ firing' = FALSE /\ UpdateSharedTimer(FALSE, heap, time) /\ ~AtTop("loop")
      /\ UNCHANGED <<heap, time, repeat, order, nextOrder, sets, now, stack>>
  BY DEF FireTimersInNestedEventLoop, CodeRuns
<1>2. shared' \in Nat /\ ClockInv' BY <1>1, UpdateKeeps
<1>3. stack' = stack /\ now' = now BY <1>1
<1>4. LoopInv' BY <1>0, <1>1, <1>3 DEF LoopInv, AtTop, Top
<1>5. stack' \in Seq(Frame) /\ now' \in 1..MaxNow BY <1>0, <1>3 DEF TypeOK
<1>. QED BY <1>1, <1>2, <1>4, <1>5, RestKeeps

\* Time that passes can only make the platform timer due.
LEMMA TickKeeps ==
    ASSUME TimersInv, Tick
    PROVE  Keeps
<1>0. TypeOK /\ ClockInv /\ LoopInv /\ HeapInv BY DEF TimersInv
<1>1. /\ now < MaxNow /\ now' = now + 1
      /\ UNCHANGED <<heap, time, repeat, order, nextOrder, sets, shared, firing, stack>>
  BY DEF Tick
<1>2. /\ heap' = heap /\ time' = time /\ shared' = shared /\ firing' = firing /\ stack' = stack
  BY <1>1
<1>3. LoopInv' BY <1>0, <1>2 DEF LoopInv, AtTop, Top
<1>4. now \in Nat /\ now' \in 1..MaxNow BY <1>0, <1>1, ConstAssumption DEF TypeOK
<1>5. ClockInv'
  <2>1. shared \in Nat BY <1>0 DEF TypeOK
  <2>2. shared <= now => shared <= now' BY <1>1, <1>4, <2>1
  <2>. QED BY <1>0, <1>2, <2>2 DEF ClockInv
<1>6. shared' \in Nat /\ firing' \in BOOLEAN /\ stack' \in Seq(Frame) BY <1>0, <1>2 DEF TypeOK
<1>. QED BY <1>1, <1>3, <1>4, <1>5, <1>6, RestKeeps

\* The platform timer is never due while a loop is firing, so that the
\* re-entrancy check of sharedTimerFiredInternal() is always passed.
LEMMA SharedTimerFiresKeeps ==
    ASSUME TimersInv, SharedTimerFires
    PROVE  Keeps
<1>0. TypeOK /\ ClockInv /\ LoopInv BY DEF TimersInv
<1> DEFINE x == [fireTime |-> now, at |-> "loop", timer |-> NoTimer]
<1>1. /\ ~AtTop("loop") /\ shared # 0 /\ shared' = 0
      /\ UNCHANGED <<heap, time, repeat, order, nextOrder, sets, now>>
  BY DEF SharedTimerFires, CodeRuns
<1>2. ~firing BY <1>0, <1>1 DEF ClockInv
<1>3. firing' = TRUE /\ stack' = Append(stack, x) BY <1>2 DEF SharedTimerFires
<1>4. stack \in Seq(Frame) /\ now \in 1..MaxNow BY <1>0 DEF TypeOK
<1>5. x \in Frame BY <1>4, ConstAssumption DEF Frame
<1> HIDE DEF x
<1>6. /\ stack' \in Seq(Frame) /\ stack' # <<>> /\ Len(stack') = Len(stack) + 1
      /\ \A i \in 1..Len(stack) : stack'[i] = stack[i]
  BY <1>3, <1>4, <1>5, StackPush
<1>7. \A i \in 1..Len(stack) : stack[i].at = "fired"
  <2>1. CASE stack = <<>> BY <2>1
  <2>2. CASE stack # <<>>
    <3>1. Len(stack) \in Nat /\ Len(stack) >= 1 /\ stack[Len(stack)] \in Frame
      BY <1>4, <2>2, StackParts
    <3>2. stack[Len(stack)].at = "fired" BY <1>1, <2>2, <3>1 DEF AtTop, Top, Frame
    <3>3. \A i \in 1..(Len(stack) - 1) : stack[i].at = "fired" BY <1>0 DEF LoopInv
    <3>4. \A i \in 1..Len(stack) : i = Len(stack) \/ i \in 1..(Len(stack) - 1) BY <3>1
    <3>. QED BY <3>2, <3>3, <3>4
  <2>. QED BY <2>1, <2>2
<1>8. LoopInv'
  <2>1. Len(stack') - 1 = Len(stack) BY <1>4, <1>6
  <2>. QED BY <1>3, <1>6, <1>7, <2>1 DEF LoopInv
<1>9. ClockInv' BY <1>1, <1>3, <1>6 DEF ClockInv
<1>10. now' \in 1..MaxNow /\ shared' \in Nat /\ firing' \in BOOLEAN BY <1>1, <1>3, <1>4
<1>. QED BY <1>1, <1>6, <1>8, <1>9, <1>10, RestKeeps

\* A callback returns to its loop.
LEMMA CallbackReturnsKeeps ==
    ASSUME TimersInv, CallbackReturns
    PROVE  Keeps
<1>0. TypeOK /\ ClockInv /\ LoopInv BY DEF TimersInv
<1> DEFINE x == [Top EXCEPT !.at = "loop"]
<1>1. /\ stack # <<>> /\ firing /\ Replaces(stack', stack, x)
      /\ UNCHANGED <<heap, time, repeat, order, nextOrder, sets, now, shared, firing>>
  BY DEF CallbackReturns, AtTop, Pop, Replaces
<1>2. /\ heap' = heap /\ time' = time /\ now' = now /\ shared' = shared /\ firing' = firing
  BY <1>1
<1>3. /\ stack \in Seq(Frame) /\ now' \in 1..MaxNow /\ shared' \in Nat /\ firing' \in BOOLEAN
  BY <1>0, <1>2 DEF TypeOK
<1>4. Top \in Frame BY <1>1, <1>3, StackParts DEF Top
<1>5. x \in Frame BY <1>4 DEF Frame
<1> HIDE DEF x
<1>6. /\ stack' \in Seq(Frame) /\ stack' # <<>> /\ Len(stack') = Len(stack)
      /\ \A i \in 1..(Len(stack) - 1) : stack'[i] = stack[i]
  BY <1>1, <1>3, <1>5, StackReplace
<1>7. LoopInv' BY <1>0, <1>1, <1>2, <1>6 DEF LoopInv
<1>8. ClockInv' BY <1>0, <1>1, <1>2, <1>6 DEF ClockInv
<1>. QED BY <1>1, <1>3, <1>6, <1>7, <1>8, RestKeeps

(***************************************************************************)
(* The theorems.                                                           *)
(***************************************************************************)

\* The invariant holds at the start.
LEMMA TimersInit == Init => TimersInv /\ Ordered
<1> SUFFICES ASSUME Init PROVE TimersInv /\ Ordered OBVIOUS
<1>1. /\ heap = <<>> /\ time = [t \in Timers |-> 0] /\ stack = <<>> /\ firing = FALSE
      /\ repeat = [t \in Timers |-> 0] /\ order = [t \in Timers |-> FirstOrder]
      /\ nextOrder = FirstOrder /\ sets = 0 /\ now = 1 /\ shared = 0
  BY DEF Init
<1>2. Active = {} BY <1>1 DEF Active
<1>3. TypeOK
  <2>1. time \in [Timers -> Nat] /\ repeat \in [Timers -> Nat] BY <1>1
  <2>2. order \in [Timers -> Nat] /\ nextOrder \in Nat BY <1>1, ConstAssumption
  <2>3. sets \in 0..MaxSets /\ now \in 1..MaxNow /\ shared \in Nat BY <1>1, ConstAssumption
  <2>4. heap \in Seq(Timers) BY <1>1
  <2>5. stack \in Seq(Frame) BY <1>1, EmptySeq
  <2>6. firing \in BOOLEAN BY <1>1
  <2>. QED BY <2>1, <2>2, <2>3, <2>4, <2>5, <2>6 DEF TypeOK
<1>4. HeapInv /\ Ordered
  <2>1. heap \in Seq(Timers) /\ Len(heap) = 0 BY <1>1
  <2>. QED BY <1>2, <2>1 DEF HeapInv, Ordered, Lists, HeapBy
<1>5. OrderInv BY <1>2 DEF OrderInv
<1>6. ClockInv BY <1>1 DEF ClockInv
<1>7. LoopInv BY <1>1 DEF LoopInv, AtTop
<1>. QED BY <1>3, <1>4, <1>5, <1>6, <1>7 DEF TimersInv

\* Every step keeps it.
LEMMA TimersNext == TimersInv /\ [Next]_vars => Keeps
<1> SUFFICES ASSUME TimersInv, [Next]_vars PROVE Keeps OBVIOUS
<1>1. ASSUME NEW t \in Timers, NEW d \in Delays, NEW r \in Repeats, Start(t, d, r) PROVE Keeps
  BY <1>1, StartKeeps
<1>2. ASSUME NEW t \in Timers, Stop(t) PROVE Keeps BY <1>2, StopKeeps
<1>3. ASSUME NEW t \in Timers, NEW d \in Delays \ {0}, AugmentRepeatInterval(t, d) PROVE Keeps
  BY <1>3, AugmentKeeps
<1>4. CASE FireTimersInNestedEventLoop BY <1>4, NestedLoopKeeps
<1>5. CASE Tick BY <1>5, TickKeeps
<1>6. CASE SharedTimerFires BY <1>6, SharedTimerFiresKeeps
<1>7. CASE FireFirst BY <1>7, FireFirstKeeps
<1>8. CASE NothingDue BY <1>8, LeaveKeeps DEF NothingDue, AtTop
<1>9. CASE CallbackReturnsLast BY <1>9, LeaveKeeps DEF CallbackReturnsLast, AtTop
<1>10. CASE CallbackReturns BY <1>10, CallbackReturnsKeeps
<1>11. CASE UNCHANGED vars
  <2>0. TypeOK /\ ClockInv /\ LoopInv BY DEF TimersInv
  <2>1. /\ UNCHANGED <<heap, time, repeat, order, nextOrder, sets>>
        /\ heap' = heap /\ time' = time
        /\ now' = now /\ shared' = shared /\ firing' = firing /\ stack' = stack
    BY <1>11 DEF vars
  <2>2. ClockInv' BY <2>0, <2>1 DEF ClockInv
  <2>3. LoopInv' BY <2>0, <2>1 DEF LoopInv, AtTop, Top
  <2>4. /\ now' \in 1..MaxNow /\ shared' \in Nat /\ firing' \in BOOLEAN /\ stack' \in Seq(Frame)
    BY <2>0, <2>1 DEF TypeOK
  <2>. QED BY <2>1, <2>2, <2>3, <2>4, RestKeeps
<1>. QED BY <1>1, <1>2, <1>3, <1>4, <1>5, <1>6, <1>7, <1>8, <1>9, <1>10, <1>11
        DEF Next, Loop, Returns

\* The inductive invariant of ThreadTimers.cpp and Timer.cpp.
THEOREM TimersInvariant == Spec => []TimersInv
<1>1. Init => TimersInv BY TimersInit
<1>2. TimersInv /\ [Next]_vars => TimersInv' BY TimersNext DEF Keeps
<1>. QED BY <1>1, <1>2, PTL DEF Spec

\* No timer is forgotten: outside the loop the platform's timer is due no later
\* than the first timer, whatever starts, stops, fires or runs a nested loop.
THEOREM TimersScheduled == Spec => []FirstIsScheduled
<1>1. TimersInv => FirstIsScheduled
  <2> SUFFICES ASSUME TimersInv, heap # <<>>
               PROVE  \/ ~firing /\ shared # 0 /\ (shared <= now \/ shared <= time[heap[1]])
                      \/ firing /\ stack # <<>> /\ shared = 0
    BY DEF FirstIsScheduled
  <2>1. ClockInv BY DEF TimersInv
  <2>. QED BY <2>1 DEF ClockInv
<1>. QED BY <1>1, TimersInvariant, PTL

\* Whatever the insertions, so also when their counter has wrapped: the vector
\* holds each active timer once and no timer is due before the first.
HeapHoldsActive ==
    /\ Len(heap) = Cardinality(Active)
    /\ \A t \in Active : \E i \in 1..Len(heap) : heap[i] = t
    /\ heap # <<>> => heap[1] \in Active /\ \A u \in Active : time[heap[1]] <= time[u]

\* The inductive invariant says so.
LEMMA HeapFirst ==
    ASSUME TimersInv
    PROVE  HeapHoldsActive
<1>1. Lists(heap, Active) /\ HeapBy(heap, ByTime(time)) BY DEF TimersInv, HeapInv
<1>2. time \in [Timers -> Nat] /\ order \in [Timers -> Nat] BY DEF TimersInv, TypeOK
<1>3. Len(heap) = Cardinality(Active) BY <1>1, ListLength
<1>4. \A t \in Active : \E i \in 1..Len(heap) : heap[i] = t BY <1>1 DEF Lists
<1>5. ASSUME heap # <<>>
      PROVE  heap[1] \in Active /\ \A u \in Active : time[heap[1]] <= time[u]
  <2>1. heap[1] \in Active /\ heap[1] \in Timers BY <1>1, <1>5, FirstTimer
  <2>2. Transitive(ByTime(time)) BY <1>2, OrdersTransitive
  <2>3. ASSUME NEW u \in Active PROVE time[heap[1]] <= time[u]
    <3>1. CASE u = heap[1] BY <1>2, <2>1, <3>1
    <3>2. CASE u # heap[1]
      <4>1. u \in ByTime(time)[heap[1]] BY <1>1, <1>5, <2>2, <3>2, FirstTimer
      <4>. QED BY <2>1, <4>1 DEF ByTime
    <3>. QED BY <3>1, <3>2
  <2>. QED BY <2>1, <2>3
<1>. QED BY <1>3, <1>4, <1>5 DEF HeapHoldsActive

\* Timer.cpp loses no active timer and keeps none that is inactive.
THEOREM TimersHeld == Spec => []HeapHoldsActive
<1>1. TimersInv => HeapHoldsActive BY HeapFirst
<1>. QED BY <1>1, TimersInvariant, PTL

\* While the insertions of the active timers are near, the vector is a heap in
\* their order too.
LEMMA TimersOrdered == Spec /\ []Near => []Ordered
<1>1. Init => Ordered BY TimersInit
<1>2. TimersInv /\ Ordered /\ Near /\ Near' /\ [Next]_vars => Ordered' BY TimersNext DEF Keeps
<1>. QED BY <1>1, <1>2, TimersInvariant, PTL DEF Spec

\* checkConsistency() and checkHeapIndex() would not fail, provided that no two
\* active timers were started half the range of the counter apart.
THEOREM TimersHeapValid == Spec /\ []Near => []HeapIsValid
<1>1. TimersInv /\ Ordered /\ Near => HeapIsValid
  <2> SUFFICES ASSUME TimersInv, Ordered, Near PROVE HeapIsValid OBVIOUS
  <2>1. HeapHoldsActive BY HeapFirst
  <2>2. Lists(heap, Active) /\ OrderInv BY DEF TimersInv, HeapInv
  <2>3. /\ time \in [Timers -> Nat] /\ order \in [Timers -> Nat] /\ Active \in SUBSET Timers
        /\ Len(heap) \in Nat
    BY <2>2 DEF TimersInv, TypeOK, Active, Lists
  <2>4. Decides(ByOrder(time, order), Active, time, order)
    BY <2>2, <2>3, NearActive, OrderDecides
  <2>5. ASSUME NEW i \in 2..Len(heap) PROVE ~Later(heap[Parent(i)], heap[i], time, order)
    <3> DEFINE a == heap[Parent(i)]
               b == heap[i]
    <3>1. i \in Nat /\ i >= 2 /\ i <= Len(heap) /\ i \in 1..Len(heap) BY <2>3
    <3>2. Parent(i) \in 1..Len(heap) /\ Parent(i) # i BY <2>3, <3>1, Parents
    <3>3. a \in Active /\ b \in Active /\ a # b BY <2>2, <3>1, <3>2 DEF Lists
    <3>4. b \in ByOrder(time, order)[a] BY DEF Ordered, HeapBy
    <3> HIDE DEF a, b
    <3>5. a \in Timers /\ b \in Timers BY <2>3, <3>3
    <3>6. time[a] \in Nat /\ time[b] \in Nat /\ order[a] \in Nat /\ order[b] \in Nat BY <2>3, <3>5
    <3>7. Before(a, b, time, order) BY <3>4, <3>5 DEF ByOrder
    <3>8. Later(a, b, time, order) => Before(b, a, time, order)
      <4>1. Later(a, b, time, order) => a \in ByOrder(time, order)[b] BY <2>4, <3>3 DEF Decides
      <4>. QED BY <3>5, <4>1 DEF ByOrder
    <3>9. ~Before(b, a, time, order) BY <3>6, <3>7 DEF Before
    <3>. QED BY <3>8, <3>9 DEF a, b
  <2>. QED BY <2>1, <2>5 DEF HeapIsValid, HeapHoldsActive, IsHeap
<1>. QED BY <1>1, TimersInvariant, TimersOrdered, PTL

\* What is supposed of the insertions holds for half the range of the counter.
OrdersFrom == nextOrder >= FirstOrder /\ \A t \in Timers : order[t] >= FirstOrder

\* Every step that gives a timer an insertion takes it from the counter.
LEMMA OrdersFromKept == TimersInv /\ OrdersFrom /\ [Next]_vars => OrdersFrom'
<1> SUFFICES ASSUME TimersInv, OrdersFrom, [Next]_vars PROVE OrdersFrom' OBVIOUS
<1>0. /\ order \in [Timers -> Nat] /\ nextOrder \in Nat /\ FirstOrder \in Nat
  BY ConstAssumption DEF TimersInv, TypeOK
<1>1. CASE UNCHANGED <<order, nextOrder>> BY <1>1 DEF OrdersFrom
<1>2. ASSUME NEW h, NEW t, NEW old, NEW new, SetNextFireTime(h, t, old, new) PROVE OrdersFrom'
  <2>1. CASE UNCHANGED <<order, nextOrder>> BY <1>1, <2>1
  <2>2. CASE order' = [order EXCEPT ![t] = nextOrder] /\ nextOrder' = nextOrder + 1
    <3>1. nextOrder' >= FirstOrder BY <1>0, <2>2 DEF OrdersFrom
    <3>2. ASSUME NEW u \in Timers PROVE order'[u] >= FirstOrder
      <4>1. order'[u] = nextOrder \/ order'[u] = order[u] BY <1>0, <2>2
      <4>. QED BY <4>1 DEF OrdersFrom
    <3>. QED BY <3>1, <3>2 DEF OrdersFrom
  <2>. QED BY <1>2, <2>1, <2>2 DEF SetNextFireTime
<1>3. CASE FireFirst BY <1>2, <1>3 DEF FireFirst
<1>4. ASSUME NEW t \in Timers, NEW d, NEW r,
             Start(t, d, r) \/ Stop(t) \/ AugmentRepeatInterval(t, d)
      PROVE  OrdersFrom'
  BY <1>2, <1>4 DEF Start, Stop, AugmentRepeatInterval
<1>. QED BY <1>1, <1>3, <1>4 DEF Next, vars, FireTimersInNestedEventLoop, Tick, SharedTimerFires,
        Loop, NothingDue, Returns, CallbackReturnsLast, CallbackReturns, Leave

\* The hypothesis of the theorems on insertions is met as long as timers have been
\* inserted at most (2^Width - 1) \div 2 times, wherever the counter started.
THEOREM FewAreNear == Spec /\ [](nextOrder - FirstOrder <= (2^Width - 1) \div 2) => []Near
<1> DEFINE Few == nextOrder - FirstOrder <= (2^Width - 1) \div 2
<1>1. Init => OrdersFrom
  BY ConstAssumption DEF Init, OrdersFrom
<1>2. TimersInv /\ OrdersFrom /\ Few => Near
  <2> SUFFICES ASSUME TimersInv, OrdersFrom, Few, NEW a \in Active, NEW b \in Active
               PROVE  order[a] - order[b] < (2^Width - 1) \div 2
    BY DEF Near
  <2> DEFINE M == 2^Width
             half == (M - 1) \div 2
  <2>1. M \in Nat \ {0} BY PowerAssumption
  <2>2. nextOrder - FirstOrder <= half OBVIOUS
  <2> HIDE DEF M
  <2>3. half \in Nat BY <2>1
  <2>4. a \in Timers /\ b \in Timers BY DEF Active
  <2>5. /\ order[a] \in Nat /\ order[b] \in Nat /\ nextOrder \in Nat /\ FirstOrder \in Nat
    BY <2>4, ConstAssumption DEF TimersInv, TypeOK
  <2>6. order[a] < nextOrder /\ order[b] >= FirstOrder BY <2>4 DEF TimersInv, OrderInv, OrdersFrom
  <2> HIDE DEF half
  <2>7. order[a] - order[b] < half BY <2>2, <2>3, <2>5, <2>6
  <2>. QED BY <2>7 DEF half, M
<1> HIDE DEF Few
<1>3. Spec /\ []Few => []Near BY <1>1, <1>2, TimersInvariant, OrdersFromKept, PTL DEF Spec
<1>. QED BY <1>3 DEF Few

\* The timer that a step calls back, if it calls one back.
Fires(t) ==
    /\ AtTop("loop") /\ stack' # <<>> /\ Len(stack') = Len(stack)
    /\ stack'[Len(stack)].at = "fired" /\ stack'[Len(stack)].timer = t

\* Only the first timer of the heap is called back.
LEMMA FiresFirst ==
    ASSUME TimersInv, [Next]_vars, NEW t \in Timers, Fires(t)
    PROVE  heap # <<>> /\ t = heap[1]
<1>0. TypeOK BY DEF TimersInv
<1>1. /\ stack # <<>> /\ Top.at = "loop" /\ Len(stack') = Len(stack)
      /\ stack'[Len(stack)].at = "fired" /\ stack'[Len(stack)].timer = t
  BY DEF Fires, AtTop
<1>2. stack \in Seq(Frame) BY <1>0 DEF TypeOK
<1>3. Len(stack) \in Nat /\ Len(stack) >= 1 /\ Top \in Frame BY <1>1, <1>2, StackParts DEF Top
<1>4. ~CodeRuns /\ ~AtTop("fired") BY <1>1 DEF CodeRuns, AtTop
<1>5. stack' # stack BY <1>1 DEF Top
<1>6. CASE FireFirst
  <2> DEFINE x == [Top EXCEPT !.at = "fired", !.timer = heap[1]]
  <2>1. heap # <<>> /\ Replaces(stack', stack, x) BY <1>6 DEF FireFirst, Pop, Replaces
  <2>2. heap[1] \in Timers BY <2>1, FirstTimer DEF TimersInv, HeapInv
  <2>3. x \in Frame /\ x.timer = heap[1] BY <1>3, <2>2 DEF Frame
  <2> HIDE DEF x
  <2>4. stack'[Len(stack)] = x BY <1>1, <1>2, <2>1, <2>3, StackReplace
  <2>. QED BY <1>1, <2>1, <2>3, <2>4
<1>7. CASE Leave
  <2>1. Len(stack') = Len(stack) - 1 BY <1>1, <1>2, <1>7, StackParts DEF Leave, Pop
  <2>. QED BY <1>1, <1>3, <2>1
<1>8. ~UNCHANGED vars /\ ~Tick BY <1>5 DEF vars, Tick
<1>9. FireFirst \/ Leave
  <2>1. Next BY <1>8
  <2>2. ~FireTimersInNestedEventLoop /\ ~SharedTimerFires /\ ~Returns
    BY <1>4 DEF FireTimersInNestedEventLoop, SharedTimerFires, Returns, CallbackReturnsLast,
                CallbackReturns
  <2>3. \A u \in Timers : \A d, r : ~Start(u, d, r) /\ ~Stop(u) /\ ~AugmentRepeatInterval(u, d)
    BY <1>4 DEF Start, Stop, AugmentRepeatInterval
  <2>4. Loop BY <1>8, <2>1, <2>2, <2>3 DEF Next
  <2>. QED BY <2>4 DEF Loop, NothingDue
<1>. QED BY <1>6, <1>7, <1>9

\* Whatever the insertions, timers fire in the order of their times.
FiresByTime ==
    [][\A t \in Timers : Fires(t) => t \in Active /\ \A u \in Active : time[t] <= time[u]]_vars

\* sharedTimerFiredInternal() calls back the timer that is due first.
THEOREM TimersFireByTime == Spec => FiresByTime
<1>1. TimersInv /\ [Next]_vars =>
        [\A t \in Timers : Fires(t) => t \in Active /\ \A u \in Active : time[t] <= time[u]]_vars
  <2> SUFFICES ASSUME TimersInv, [Next]_vars, NEW t \in Timers, Fires(t)
               PROVE  t \in Active /\ \A u \in Active : time[t] <= time[u]
    OBVIOUS
  <2>1. heap # <<>> /\ t = heap[1] BY FiresFirst
  <2>2. HeapHoldsActive BY HeapFirst
  <2>. QED BY <2>1, <2>2 DEF HeapHoldsActive
<1>. QED BY <1>1, TimersInvariant, PTL DEF Spec, FiresByTime

\* Timers that are due at the same time fire in the order in which they were
\* started, while no two active ones were started half the range apart.
THEOREM TimersFireInOrder == Spec /\ []Near => FiresInOrder
<1> DEFINE A(t) ==
      (AtTop("loop") /\ stack' # <<>> /\ Len(stack') = Len(stack)
            /\ stack'[Len(stack)].at = "fired" /\ stack'[Len(stack)].timer = t) =>
        \A u \in Active \ {t} : time[t] < time[u] \/ (time[t] = time[u] /\ order[t] < order[u])
<1>1. TimersInv /\ Ordered /\ [Next]_vars => [\A t \in Timers : A(t)]_vars
  <2> SUFFICES ASSUME TimersInv, Ordered, [Next]_vars, NEW t \in Timers, Fires(t)
               PROVE  \A u \in Active \ {t} :
                        time[t] < time[u] \/ (time[t] = time[u] /\ order[t] < order[u])
    BY DEF Fires
  <2>1. heap # <<>> /\ t = heap[1] BY FiresFirst
  <2>2. Lists(heap, Active) /\ HeapBy(heap, ByOrder(time, order))
    BY DEF TimersInv, HeapInv, Ordered
  <2>3. time \in [Timers -> Nat] /\ order \in [Timers -> Nat] BY DEF TimersInv, TypeOK
  <2>4. Transitive(ByOrder(time, order)) BY <2>3, OrdersTransitive
  <2>5. ASSUME NEW u \in Active, u # t PROVE Before(t, u, time, order)
    <3>1. u \in ByOrder(time, order)[t] BY <2>1, <2>2, <2>4, <2>5, FirstTimer
    <3>. QED BY <3>1 DEF ByOrder
  <2>. QED BY <2>5 DEF Before
<1>. QED BY <1>1, TimersInvariant, TimersOrdered, PTL DEF Spec, FiresInOrder

(***************************************************************************)
(* DOMTimers.  What a timer must satisfy is a predicate of its record and  *)
(* of its document's flag; the lemmas show that the operations of          *)
(* SuspendableTimer keep it, whatever the record.                          *)
(***************************************************************************)

Sound(r) ==
    r.doc # NoDoc => /\ IsSuspended(r) => r.kept /\ ~r.active
                     /\ ~IsSuspended(r) => r.active

Agrees(r, flag) == r.doc # NoDoc => r.general = flag[r.doc]

DOMInv ==
    /\ DOMTypeOK
    /\ \A t \in ScriptTimers : Sound(timer[t])
    /\ \A t \in ScriptTimers : Agrees(timer[t], suspended)

(***************************************************************************)
(* The operations of a timer.                                              *)
(***************************************************************************)

\* Suspending for the general reason keeps a timer sound and sets the reason.
LEMMA SuspendGeneral ==
    ASSUME NEW r \in Timer, Sound(r)
    PROVE  LET s == Suspend(r, "general") IN
             /\ s \in Timer /\ Sound(s)
             /\ s.doc = r.doc /\ s.general = TRUE /\ s.hidden = r.hidden
             /\ (r.doc # NoDoc => ~s.active)
BY DEF Suspend, Sound, IsSuspended, Timer

\* Suspending a running timer for a hidden window keeps it sound.
LEMMA SuspendHidden ==
    ASSUME NEW r \in Timer, Sound(r)
    PROVE  LET s == Suspend(r, "hidden") IN
             /\ s \in Timer /\ Sound(s)
             /\ s.doc = r.doc /\ s.general = r.general
             /\ (r.doc # NoDoc => ~s.active)
BY DEF Suspend, Sound, IsSuspended, Timer

\* resume() keeps a timer sound and clears the general reason.
LEMMA ResumeClears ==
    ASSUME NEW r \in Timer, Sound(r)
    PROVE  LET s == Resume(r) IN
             /\ s \in Timer /\ Sound(s)
             /\ s.doc = r.doc /\ s.general = FALSE /\ s.hidden = r.hidden
BY DEF Resume, Restart, Sound, IsSuspended, Timer

\* resumeOnInvisibleChrome() keeps a timer sound and clears the other reason.
LEMMA ResumeOnInvisible ==
    ASSUME NEW r \in Timer, Sound(r)
    PROVE  LET s == ResumeOnInvisibleChrome(r) IN
             /\ s \in Timer /\ Sound(s)
             /\ s.doc = r.doc /\ s.general = r.general /\ s.hidden = FALSE
             /\ (r.general /\ r.doc # NoDoc => ~s.active)
BY DEF ResumeOnInvisibleChrome, Restart, Sound, IsSuspended, Timer

\* A deleted timer and a new one are sound.
LEMMA NewAndDeleted ==
    /\ Deleted \in Timer /\ Sound(Deleted) /\ Deleted.doc = NoDoc /\ Deleted.hidden = FALSE
    /\ \A d \in Docs, b \in BOOLEAN :
         LET s == NewTimer(d, b) IN
           /\ s \in Timer /\ Sound(s) /\ s.doc = d
           /\ s.general = FALSE /\ s.hidden = FALSE
BY DEF Deleted, NewTimer, Sound, IsSuspended, Timer

(***************************************************************************)
(* The operations of a document.                                           *)
(***************************************************************************)

\* Suspending documents keeps the invariant of all timers.
LEMMA SuspendDocs ==
    ASSUME DOMInv, NEW ds \in SUBSET Docs, SuspendActiveDOMObjects(ds)
    PROVE  /\ timer' \in [ScriptTimers -> Timer] /\ suspended' \in [Docs -> BOOLEAN]
           /\ \A t \in ScriptTimers : Sound(timer'[t]) /\ Agrees(timer'[t], suspended')
           /\ \A t \in ScriptTimers : timer'[t].doc = timer[t].doc /\ timer'[t].hidden = timer[t].hidden
<1>1. suspended' \in [Docs -> BOOLEAN]
  BY DEF SuspendActiveDOMObjects, DOMInv, DOMTypeOK
<1>2. ASSUME NEW t \in ScriptTimers
      PROVE  /\ timer'[t] \in Timer /\ Sound(timer'[t]) /\ Agrees(timer'[t], suspended')
             /\ timer'[t].doc = timer[t].doc /\ timer'[t].hidden = timer[t].hidden
  <2>1. timer[t] \in Timer /\ Sound(timer[t]) /\ Agrees(timer[t], suspended)
    BY DEF DOMInv, DOMTypeOK
  <2>2. CASE timer[t].doc \in ds
    <3>1. timer'[t] = Suspend(timer[t], "general")
      BY <2>2 DEF SuspendActiveDOMObjects, Change
    <3>2. suspended'[timer[t].doc] = TRUE
      BY <2>2 DEF SuspendActiveDOMObjects
    <3>. QED BY <2>1, <3>1, <3>2, SuspendGeneral DEF Agrees
  <2>3. CASE timer[t].doc \notin ds
    <3>1. timer'[t] = timer[t]
      BY <2>3 DEF SuspendActiveDOMObjects, Change
    <3>2. timer[t].doc \in Docs => suspended'[timer[t].doc] = suspended[timer[t].doc]
      BY <2>3 DEF SuspendActiveDOMObjects, DOMInv, DOMTypeOK
    <3>. QED BY <2>1, <3>1, <3>2 DEF Agrees, Timer
  <2>. QED BY <2>2, <2>3
<1>3. timer' = [t \in ScriptTimers |-> timer'[t]]
  BY DEF SuspendActiveDOMObjects, Change
<1>. QED BY <1>1, <1>2, <1>3

\* Resuming documents keeps the invariant of all timers.
LEMMA ResumeDocs ==
    ASSUME DOMInv, NEW ds \in SUBSET Docs, ResumeActiveDOMObjects(ds)
    PROVE  /\ timer' \in [ScriptTimers -> Timer] /\ suspended' \in [Docs -> BOOLEAN]
           /\ \A t \in ScriptTimers : Sound(timer'[t]) /\ Agrees(timer'[t], suspended')
           /\ \A t \in ScriptTimers : timer'[t].doc = timer[t].doc /\ timer'[t].hidden = timer[t].hidden
<1>1. suspended' \in [Docs -> BOOLEAN]
  BY DEF ResumeActiveDOMObjects, DOMInv, DOMTypeOK
<1>2. ASSUME NEW t \in ScriptTimers
      PROVE  /\ timer'[t] \in Timer /\ Sound(timer'[t]) /\ Agrees(timer'[t], suspended')
             /\ timer'[t].doc = timer[t].doc /\ timer'[t].hidden = timer[t].hidden
  <2>1. timer[t] \in Timer /\ Sound(timer[t]) /\ Agrees(timer[t], suspended)
    BY DEF DOMInv, DOMTypeOK
  <2>2. CASE timer[t].doc \in ds
    <3>1. timer'[t] = Resume(timer[t])
      BY <2>2 DEF ResumeActiveDOMObjects, Change
    <3>2. suspended'[timer[t].doc] = FALSE
      BY <2>2 DEF ResumeActiveDOMObjects
    <3>. QED BY <2>1, <3>1, <3>2, ResumeClears DEF Agrees
  <2>3. CASE timer[t].doc \notin ds
    <3>1. timer'[t] = timer[t]
      BY <2>3 DEF ResumeActiveDOMObjects, Change
    <3>2. timer[t].doc \in Docs => suspended'[timer[t].doc] = suspended[timer[t].doc]
      BY <2>3 DEF ResumeActiveDOMObjects, DOMInv, DOMTypeOK
    <3>. QED BY <2>1, <3>1, <3>2 DEF Agrees, Timer
  <2>. QED BY <2>2, <2>3
<1>3. timer' = [t \in ScriptTimers |-> timer'[t]]
  BY DEF ResumeActiveDOMObjects, Change
<1>. QED BY <1>1, <1>2, <1>3

\* An action that replaces one timer by a sound one keeps the invariant.
LEMMA OneTimer ==
    ASSUME DOMInv, NEW t \in ScriptTimers, NEW r \in Timer, Sound(r), Agrees(r, suspended),
           timer' = [timer EXCEPT ![t] = r],
           UNCHANGED <<shown, cached, suspended, visible, deferred, dialogs, cache, debugger>>
    PROVE  DOMInv'
<1>1. DOMTypeOK' BY DEF DOMInv, DOMTypeOK
<1>2. \A u \in ScriptTimers : timer'[u] = IF u = t THEN r ELSE timer[u]
  BY DEF DOMInv, DOMTypeOK
<1>3. \A u \in ScriptTimers : Sound(timer'[u]) /\ Agrees(timer'[u], suspended)
  BY <1>2 DEF DOMInv
<1>4. suspended' = suspended OBVIOUS
<1>5. \A u \in ScriptTimers : Agrees(timer'[u], suspended') BY <1>3, <1>4
<1>. QED BY <1>1, <1>3, <1>5 DEF DOMInv

(***************************************************************************)
(* The inductive invariant.                                                *)
(***************************************************************************)

\* It holds at the start.
LEMMA InitDOMInv == DOMInit => DOMInv
<1>. SUFFICES ASSUME DOMInit PROVE DOMInv OBVIOUS
<1>1. DOMTypeOK
  <2>1. timer \in [ScriptTimers -> Timer] BY NewAndDeleted DEF DOMInit
  <2>2. dialogs \in Seq(Entry) BY DEF DOMInit
  <2>. QED BY <2>1, <2>2 DEF DOMInit, DOMTypeOK
<1>2. \A t \in ScriptTimers : timer[t] = Deleted BY DEF DOMInit
<1>3. \A t \in ScriptTimers : Sound(timer[t]) BY <1>2, NewAndDeleted
<1>4. \A t \in ScriptTimers : Agrees(timer[t], suspended) BY <1>2, NewAndDeleted DEF Agrees
<1>. QED BY <1>1, <1>3, <1>4 DEF DOMInv

\* A new timer keeps it.
LEMMA InstallDOMInv ==
    ASSUME DOMInv, NEW t \in ScriptTimers, NEW d \in Docs, NEW b \in BOOLEAN
    PROVE  Install(t, d, b) => DOMInv'
<1>1. ASSUME Install(t, d, b) PROVE DOMInv'
  <2>. DEFINE n == NewTimer(d, b)
              r == IF suspended[d] THEN Suspend(n, "general") ELSE n
  <2>1. n \in Timer /\ Sound(n) /\ n.doc = d /\ n.general = FALSE BY NewAndDeleted
  <2>2. suspended[d] \in BOOLEAN BY DEF DOMInv, DOMTypeOK
  <2>3. r \in Timer /\ Sound(r) /\ Agrees(r, suspended)
    <3>. HIDE DEF n
    <3>1. CASE suspended[d] = TRUE BY <2>1, <3>1, SuspendGeneral DEF Agrees
    <3>2. CASE suspended[d] = FALSE BY <2>1, <3>2 DEF Agrees
    <3>. QED BY <2>2, <3>1, <3>2
  <2>4. timer' = [timer EXCEPT ![t] = r] BY <1>1 DEF Install
  <2>5. UNCHANGED <<shown, cached, suspended, visible, deferred, dialogs, cache, debugger>>
    BY <1>1 DEF Install
  <2>. HIDE DEF r
  <2>. QED BY <2>3, <2>4, <2>5, OneTimer
<1>. QED BY <1>1

\* Timers that fire or are removed keep it.
LEMMA TimerDOMInv ==
    ASSUME DOMInv, NEW t \in ScriptTimers
    PROVE  (RemoveById(t) \/ FireHidden(t) \/ FireVisible(t)) => DOMInv'
<1>0. timer[t] \in Timer /\ Sound(timer[t]) /\ Agrees(timer[t], suspended)
  BY DEF DOMInv, DOMTypeOK
<1>d. Agrees(Deleted, suspended) BY NewAndDeleted DEF Agrees
<1>2. ASSUME RemoveById(t) PROVE DOMInv'
  BY <1>2, <1>d, NewAndDeleted, OneTimer DEF RemoveById
<1>3. ASSUME FireHidden(t) PROVE DOMInv'
  <2>. DEFINE r == Suspend(timer[t], "hidden")
  <2>1. r \in Timer /\ Sound(r) /\ Agrees(r, suspended)
    BY <1>0, SuspendHidden DEF Agrees
  <2>2. timer' = [timer EXCEPT ![t] = r] BY <1>3 DEF FireHidden
  <2>3. UNCHANGED <<shown, cached, suspended, visible, deferred, dialogs, cache, debugger>>
    BY <1>3 DEF FireHidden
  <2>. HIDE DEF r
  <2>. QED BY <2>1, <2>2, <2>3, OneTimer
<1>4. ASSUME FireVisible(t) PROVE DOMInv'
  <2>. DEFINE r == IF timer[t].repeats THEN timer[t] ELSE Deleted
  <2>1. r \in Timer /\ Sound(r) /\ Agrees(r, suspended)
    BY <1>0, <1>d, NewAndDeleted
  <2>2. timer' = [timer EXCEPT ![t] = r] BY <1>4 DEF FireVisible
  <2>3. UNCHANGED <<shown, cached, suspended, visible, deferred, dialogs, cache, debugger>>
    BY <1>4 DEF FireVisible
  <2>. HIDE DEF r
  <2>. QED BY <2>1, <2>2, <2>3, OneTimer
<1>. QED BY <1>2, <1>3, <1>4

\* Dialogs keep it.
LEMMA DeferDOMInv ==
    ASSUME DOMInv, NEW ps \in SUBSET Pages
    PROVE  Defer(ps) => DOMInv'
<1>. SUFFICES ASSUME Defer(ps) PROVE DOMInv' OBVIOUS
<1>. DEFINE ds == {p \in ps : ~deferred[p]}
<1>1. DocsOf(ds) \in SUBSET Docs BY DEF DocsOf, DOMInv, DOMTypeOK
<1>2. SuspendActiveDOMObjects(DocsOf(ds)) BY DEF Defer
<1>3. dialogs' \in Seq(Entry)
  BY DEF Defer, Entry, DOMInv, DOMTypeOK
<1>4. deferred' \in [Pages -> BOOLEAN] BY DEF Defer, DOMInv, DOMTypeOK
<1>5. shown' \in [Pages -> Docs] /\ cached' \subseteq Docs /\ visible' \in [Pages -> BOOLEAN]
     /\ cache' \in BOOLEAN /\ debugger' \in BOOLEAN
  BY DEF Defer, DOMInv, DOMTypeOK
<1>. QED BY <1>1, <1>2, <1>3, <1>4, <1>5, SuspendDocs DEF DOMInv, DOMTypeOK

\* The debugger keeps it.
LEMMA PauseDOMInv ==
    ASSUME DOMInv, NEW p \in Pages
    PROVE  DebuggerPauses(p) => DOMInv'
<1>. SUFFICES ASSUME DebuggerPauses(p) PROVE DOMInv' OBVIOUS
<1>1. DocsOf(Pages) \in SUBSET Docs BY DEF DocsOf, DOMInv, DOMTypeOK
<1>2. SuspendActiveDOMObjects(DocsOf(Pages)) BY DEF DebuggerPauses
<1>3. dialogs' \in Seq(Entry) BY DEF DebuggerPauses, Entry, DOMInv, DOMTypeOK
<1>4. deferred' \in [Pages -> BOOLEAN] BY DEF DebuggerPauses, DOMInv, DOMTypeOK
<1>5. shown' \in [Pages -> Docs] /\ cached' \subseteq Docs /\ visible' \in [Pages -> BOOLEAN]
     /\ cache' \in BOOLEAN /\ debugger' \in BOOLEAN
  BY DEF DebuggerPauses, DOMInv, DOMTypeOK
<1>. QED BY <1>1, <1>2, <1>3, <1>4, <1>5, SuspendDocs DEF DOMInv, DOMTypeOK

\* The end of a dialog or a pause keeps it.
LEMMA EndsDOMInv ==
    ASSUME DOMInv, NEW k
    PROVE  Ends(k) => DOMInv'
<1>. SUFFICES ASSUME Ends(k) PROVE DOMInv' OBVIOUS
<1>. DEFINE ps == dialogs[Len(dialogs)].pages
<1>0. dialogs \in Seq(Entry) /\ Len(dialogs) \in 1..Len(dialogs) /\ dialogs[Len(dialogs)] \in Entry
  BY DEF Ends, DOMInv, DOMTypeOK
<1>1. ps \in SUBSET Pages BY <1>0 DEF Entry
<1>2. DocsOf(ps) \in SUBSET Docs BY <1>1 DEF DocsOf, DOMInv, DOMTypeOK
<1>3. ResumeActiveDOMObjects(DocsOf(ps)) BY DEF Ends
<1>4. dialogs' \in Seq(Entry) BY <1>0 DEF Ends
<1>5. deferred' \in [Pages -> BOOLEAN] BY DEF Ends, DOMInv, DOMTypeOK
<1>6. shown' \in [Pages -> Docs] /\ cached' \subseteq Docs /\ visible' \in [Pages -> BOOLEAN]
     /\ cache' \in BOOLEAN /\ debugger' \in BOOLEAN
  BY DEF Ends, DOMInv, DOMTypeOK
<1>. HIDE DEF ps
<1>. QED BY <1>2, <1>3, <1>4, <1>5, <1>6, ResumeDocs DEF DOMInv, DOMTypeOK

\* Windows that come and go keep it.
LEMMA VisibleDOMInv ==
    ASSUME DOMInv, NEW p \in Pages, NEW b \in BOOLEAN
    PROVE  NotifyChromeVisible(p, b) => DOMInv'
<1>. SUFFICES ASSUME NotifyChromeVisible(p, b) PROVE DOMInv' OBVIOUS
<1>1. ASSUME NEW t \in ScriptTimers
      PROVE  timer'[t] \in Timer /\ Sound(timer'[t]) /\ Agrees(timer'[t], suspended)
  <2>1. timer[t] \in Timer /\ Sound(timer[t]) /\ Agrees(timer[t], suspended)
    BY DEF DOMInv, DOMTypeOK
  <2>2. timer'[t] = timer[t] \/ timer'[t] = ResumeOnInvisibleChrome(timer[t])
    BY DEF NotifyChromeVisible, Change, DOMInv, DOMTypeOK
  <2>. QED BY <2>1, <2>2, ResumeOnInvisible DEF Agrees
<1>2. timer' = [t \in ScriptTimers |-> timer'[t]]
  BY DEF NotifyChromeVisible, Change, DOMInv, DOMTypeOK
<1>3. suspended' = suspended /\ DOMTypeOK'
  BY <1>1, <1>2 DEF NotifyChromeVisible, DOMInv, DOMTypeOK
<1>4. \A t \in ScriptTimers : Agrees(timer'[t], suspended') BY <1>1, <1>3
<1>. QED BY <1>1, <1>3, <1>4 DEF DOMInv

\* Navigation keeps it.
LEMMA NavigateDOMInv ==
    ASSUME DOMInv, NEW p \in Pages, NEW d \in Docs, NEW keep \in BOOLEAN
    PROVE  Navigate(p, d, keep) => DOMInv'
<1>. SUFFICES ASSUME Navigate(p, d, keep) PROVE DOMInv' OBVIOUS
<1>0. shown[p] \in Docs /\ d # shown[p] BY DEF DOMInv, DOMTypeOK, Navigate
<1>1. suspended' \in [Docs -> BOOLEAN] BY DEF Navigate, DOMInv, DOMTypeOK
<1>2. \A e \in Docs : suspended'[e] = IF e = d THEN FALSE ELSE IF e = shown[p] THEN keep ELSE suspended[e]
  BY <1>0 DEF Navigate, DOMInv, DOMTypeOK
<1>3. ASSUME NEW t \in ScriptTimers
      PROVE  timer'[t] \in Timer /\ Sound(timer'[t]) /\ Agrees(timer'[t], suspended')
  <2>1. timer[t] \in Timer /\ Sound(timer[t]) /\ Agrees(timer[t], suspended)
    BY DEF DOMInv, DOMTypeOK
  <2>2. CASE timer[t].doc = shown[p]
    <3>1. timer'[t] = Left(timer[t], keep) BY <2>2 DEF Navigate
    <3>2. CASE keep = TRUE
      <4>1. timer'[t] = Suspend(timer[t], "general") BY <3>1, <3>2 DEF Left
      <4>2. suspended'[timer[t].doc] = TRUE BY <1>0, <1>2, <2>2, <3>2
      <4>. QED BY <2>1, <4>1, <4>2, SuspendGeneral DEF Agrees
    <3>3. CASE keep = FALSE
      BY <3>1, <3>3, NewAndDeleted DEF Left, Agrees
    <3>. QED BY <3>2, <3>3
  <2>3. CASE timer[t].doc = d
    <3>1. timer'[t] = Resume(timer[t]) BY <1>0, <2>3 DEF Navigate
    <3>2. suspended'[timer[t].doc] = FALSE BY <1>2, <2>3
    <3>. QED BY <2>1, <3>1, <3>2, ResumeClears DEF Agrees
  <2>4. CASE timer[t].doc # d /\ timer[t].doc # shown[p]
    <3>1. timer'[t] = timer[t] BY <2>4 DEF Navigate
    <3>2. timer[t].doc \in Docs => suspended'[timer[t].doc] = suspended[timer[t].doc]
      BY <1>2, <2>4
    <3>. QED BY <2>1, <3>1, <3>2 DEF Agrees, Timer
  <2>. QED BY <2>2, <2>3, <2>4
<1>4. timer' = [t \in ScriptTimers |-> timer'[t]] BY DEF Navigate
<1>5. DOMTypeOK' BY <1>0, <1>1, <1>3, <1>4 DEF Navigate, DOMInv, DOMTypeOK
<1>. QED BY <1>3, <1>5 DEF DOMInv

\* The cache keeps it.
LEMMA EvictDOMInv ==
    ASSUME DOMInv, NEW d \in Docs
    PROVE  Evict(d) => DOMInv'
<1>. SUFFICES ASSUME Evict(d) PROVE DOMInv' OBVIOUS
<1>1. \A e \in Docs : suspended'[e] = IF e = d THEN FALSE ELSE suspended[e]
  BY DEF Evict, DOMInv, DOMTypeOK
<1>2. ASSUME NEW t \in ScriptTimers
      PROVE  timer'[t] \in Timer /\ Sound(timer'[t]) /\ Agrees(timer'[t], suspended')
  <2>1. timer[t] \in Timer /\ Sound(timer[t]) /\ Agrees(timer[t], suspended)
    BY DEF DOMInv, DOMTypeOK
  <2>2. CASE timer[t].doc = d
    BY <2>2, NewAndDeleted DEF Evict, Change, Agrees
  <2>3. CASE timer[t].doc # d
    <3>1. timer'[t] = timer[t] BY <2>3 DEF Evict, Change
    <3>. QED BY <2>1, <2>3, <3>1, <1>1 DEF Agrees, Timer
  <2>. QED BY <2>2, <2>3
<1>3. timer' = [t \in ScriptTimers |-> timer'[t]] BY DEF Evict, Change
<1>4. DOMTypeOK' BY <1>2, <1>3 DEF Evict, DOMInv, DOMTypeOK
<1>. QED BY <1>2, <1>4 DEF DOMInv

\* Every step keeps it.
LEMMA NextDOMInv == DOMInv /\ [DOMNext]_domVars => DOMInv'
<1>. SUFFICES ASSUME DOMInv, [DOMNext]_domVars PROVE DOMInv' OBVIOUS
<1>1. CASE UNCHANGED domVars
  BY <1>1 DEF domVars, DOMInv, DOMTypeOK, Sound, Agrees, IsSuspended
<1>2. ASSUME NEW t \in ScriptTimers, NEW d \in Docs, NEW b \in BOOLEAN, Install(t, d, b) PROVE DOMInv'
  BY <1>2, InstallDOMInv
<1>3. ASSUME NEW t \in ScriptTimers, RemoveById(t) \/ FireHidden(t) \/ FireVisible(t) PROVE DOMInv'
  BY <1>3, TimerDOMInv
<1>4. ASSUME NEW p \in Pages, RunJavaScriptDialog(p) \/ RunModal(p) PROVE DOMInv'
  BY <1>4, DeferDOMInv DEF RunJavaScriptDialog, RunModal
<1>5. ASSUME NEW p \in Pages, DebuggerPauses(p) PROVE DOMInv' BY <1>5, PauseDOMInv
<1>6. ASSUME NEW p \in Pages, NEW b \in BOOLEAN, NotifyChromeVisible(p, b) PROVE DOMInv'
  BY <1>6, VisibleDOMInv
<1>7. ASSUME NEW p \in Pages, NEW d \in Docs, NEW keep \in BOOLEAN, Navigate(p, d, keep) PROVE DOMInv'
  BY <1>7, NavigateDOMInv
<1>8. ASSUME DialogEnds \/ DebuggerContinues PROVE DOMInv'
  BY <1>8, EndsDOMInv DEF DialogEnds, DebuggerContinues
<1>9. ASSUME NEW d \in Docs, Evict(d) PROVE DOMInv' BY <1>9, EvictDOMInv
<1>. QED BY <1>1, <1>2, <1>3, <1>4, <1>5, <1>6, <1>7, <1>8, <1>9 DEF DOMNext

\* The state that SuspendableTimer, ScriptExecutionContext and the page keep
\* agrees: the inductive invariant.
THEOREM DOMInvariant == DOMSpec => []DOMInv
<1>. QED BY InitDOMInv, NextDOMInv, PTL DEF DOMSpec

\* Every variable keeps its type.
THEOREM DOMTypeCorrect == DOMSpec => []DOMTypeOK
<1>1. DOMInv => DOMTypeOK BY DEF DOMInv
<1>. QED BY <1>1, DOMInvariant, PTL

\* suspend() and resume() lose no timer and start none twice, in any order of
\* dialogs, pauses, hidden windows and navigations.
THEOREM NoneLost == DOMSpec => []NeverLost
<1>1. DOMInv => NeverLost BY DEF DOMInv, NeverLost, Sound, Set
<1>. QED BY <1>1, DOMInvariant, PTL

\* A timer's general reason is its document's flag.
THEOREM WithDocument == DOMSpec => []SuspendedWithDocument
<1>1. DOMInv => SuspendedWithDocument BY DEF DOMInv, SuspendedWithDocument, Agrees, Set
<1>. QED BY <1>1, DOMInvariant, PTL

(***************************************************************************)
(* Without a debugger no timer runs beneath a dialog: the dialogs in       *)
(* progress defer disjoint sets of pages, and a page that defers shows a   *)
(* suspended document.                                                     *)
(***************************************************************************)

Places == \A p \in Pages : PageOf[shown[p]] = p /\ shown[p] \notin cached

DialogInv ==
    /\ \A i \in 1..Len(dialogs) : dialogs[i].kind = "dialog"
    /\ \A i \in 1..Len(dialogs) : \A p \in dialogs[i].pages : deferred[p]
    /\ \A i, j \in 1..Len(dialogs) : i # j => dialogs[i].pages \cap dialogs[j].pages = {}
    /\ \A p \in Pages : deferred[p] => suspended[shown[p]]

\* What an entry of the stack is.
LEMMA EntryFacts ==
    ASSUME NEW s \in Seq(Entry), NEW i \in 1..Len(s)
    PROVE  s[i] \in Entry /\ s[i].pages \subseteq Pages
<1>1. s[i] \in Entry OBVIOUS
<1>2. \A r \in Entry : r.pages \subseteq Pages BY DEF Entry
<1>. QED BY <1>1, <1>2

\* What is left of a stack without its top.
LEMMA Popped ==
    ASSUME NEW s \in Seq(Entry), s # <<>>
    PROVE  /\ Len(s) \in 1..Len(s) /\ Len(s) \in Nat
           /\ SubSeq(s, 1, Len(s) - 1) \in Seq(Entry)
           /\ Len(SubSeq(s, 1, Len(s) - 1)) = Len(s) - 1
           /\ \A i \in 1..(Len(s) - 1) : SubSeq(s, 1, Len(s) - 1)[i] = s[i]
<1>. DEFINE m == Len(s) - 1
            t == SubSeq(s, 1, m)
<1>1. Len(s) \in Nat /\ m \in Nat /\ 1 \in 1..(m + 1) /\ m \in 0..Len(s) OBVIOUS
<1>2. /\ t \in Seq(Entry)
      /\ Len(t) = IF 1 <= m THEN m - 1 + 1 ELSE 0
      /\ \A i \in 1..(m - 1 + 1) : t[i] = s[1 + i - 1]
  BY <1>1, SubSeqProperties
<1>. HIDE DEF t, m
<1>3. Len(t) = m BY <1>1, <1>2
<1>4. ASSUME NEW i \in 1..m PROVE t[i] = s[i]
  <2>1. 1 + i - 1 = i /\ m - 1 + 1 = m BY <1>1
  <2>. QED BY <1>2, <2>1
<1>5. Len(s) \in 1..Len(s) BY <1>1 DEF m
<1>. QED BY <1>1, <1>2, <1>3, <1>4, <1>5 DEF t, m

\* No step changes the settings.
LEMMA SettingsKept == [DOMNext]_domVars => cache' = cache /\ debugger' = debugger
BY DEF DOMNext, domVars, Install, RemoveById, FireHidden, FireVisible,
   RunJavaScriptDialog, RunModal, Defer, DebuggerPauses, DialogEnds,
   DebuggerContinues, Ends, NotifyChromeVisible, Navigate, Evict

\* Pages show documents of their own, which are not in the cache.
LEMMA PlacesKept == DOMInv /\ Places /\ [DOMNext]_domVars => Places'
<1>. SUFFICES ASSUME DOMInv, Places, [DOMNext]_domVars PROVE Places' OBVIOUS
<1>. USE DEF Places
<1>1. CASE UNCHANGED <<shown, cached>> BY <1>1
<1>2. ASSUME NEW p \in Pages, NEW d \in Docs, NEW keep \in BOOLEAN, Navigate(p, d, keep)
      PROVE  Places'
  <2>1. \A q \in Pages : shown'[q] = IF q = p THEN d ELSE shown[q]
    BY <1>2 DEF Navigate, DOMInv, DOMTypeOK
  <2>2. \A e \in cached' : e = shown[p] \/ (e \in cached /\ e # d)
    BY <1>2 DEF Navigate
  <2>3. PageOf[d] = p /\ d # shown[p] BY <1>2 DEF Navigate
  <2>. QED BY <2>1, <2>2, <2>3
<1>3. ASSUME NEW d \in Docs, Evict(d) PROVE Places' BY <1>3 DEF Evict
<1>. QED
  BY <1>1, <1>2, <1>3 DEF DOMNext, domVars, Install, RemoveById, FireHidden, FireVisible,
     RunJavaScriptDialog, RunModal, Defer, DebuggerPauses, DialogEnds, DebuggerContinues, Ends,
     NotifyChromeVisible

\* A new dialog keeps the pages of the dialogs apart.
LEMMA DeferDialogInv ==
    ASSUME DOMInv, Places, DialogInv, NEW ps \in SUBSET Pages, Defer(ps)
    PROVE  DialogInv'
<1>. DEFINE ds == {p \in ps : ~deferred[p]}
            top == [kind |-> "dialog", pages |-> ds]
<1>1. dialogs \in Seq(Entry) /\ top \in Entry BY DEF DOMInv, DOMTypeOK, Entry
<1>2. dialogs' = Append(dialogs, top) BY DEF Defer
<1>3. Len(dialogs') = Len(dialogs) + 1 /\ dialogs'[Len(dialogs) + 1] = top
      /\ \A i \in 1..Len(dialogs) : dialogs'[i] = dialogs[i]
  BY <1>1, <1>2
<1>4. \A p \in Pages : deferred'[p] = (p \in ds \/ deferred[p]) BY DEF Defer
<1>5. \A d \in Docs : suspended'[d] = (d \in DocsOf(ds) \/ suspended[d])
  BY DEF Defer, SuspendActiveDOMObjects
<1>6. shown' = shown /\ shown \in [Pages -> Docs] BY DEF Defer, DOMInv, DOMTypeOK
<1>7. \A i \in 1..Len(dialogs) : dialogs[i].pages \subseteq Pages
  BY <1>1, EntryFacts
<1>8. \A i \in 1..Len(dialogs') : dialogs'[i].kind = "dialog"
  BY <1>1, <1>3 DEF DialogInv
<1>9. \A i \in 1..Len(dialogs') : \A p \in dialogs'[i].pages : deferred'[p]
  <2>1. \A i \in 1..Len(dialogs) : \A p \in dialogs'[i].pages : deferred'[p]
    BY <1>3, <1>4, <1>7 DEF DialogInv
  <2>2. \A p \in dialogs'[Len(dialogs) + 1].pages : deferred'[p]
    <3>1. dialogs'[Len(dialogs) + 1].pages = ds /\ ds \subseteq Pages BY <1>3
    <3>. QED BY <1>4, <3>1
  <2>3. Len(dialogs) \in Nat BY <1>1
  <2>. QED BY <1>3, <2>1, <2>2, <2>3
<1>10. \A i \in 1..Len(dialogs) : dialogs[i].pages \cap ds = {}
  BY DEF DialogInv
<1>11. \A i, j \in 1..Len(dialogs') : i # j => dialogs'[i].pages \cap dialogs'[j].pages = {}
  BY <1>1, <1>3, <1>10 DEF DialogInv
<1>12. \A p \in Pages : deferred'[p] => suspended'[shown'[p]]
  <2>. SUFFICES ASSUME NEW p \in Pages, deferred'[p] PROVE suspended'[shown[p]]
    BY <1>6
  <2>1. shown[p] \in Docs BY <1>6
  <2>2. CASE p \in ds BY <1>5, <2>1, <2>2 DEF DocsOf
  <2>3. CASE deferred[p] BY <1>5, <2>1, <2>3 DEF DialogInv
  <2>. QED BY <1>4, <2>2, <2>3
<1>. QED BY <1>8, <1>9, <1>11, <1>12 DEF DialogInv

\* The end of a dialog resumes none of the pages beneath the others.
LEMMA EndsDialogInv ==
    ASSUME DOMInv, Places, DialogInv, NEW k, Ends(k)
    PROVE  DialogInv'
<1>. DEFINE n == Len(dialogs)
            ps == dialogs[n].pages
<1>0. dialogs \in Seq(Entry) /\ dialogs # <<>> BY DEF Ends, DOMInv, DOMTypeOK
<1>1. n \in 1..n /\ n \in Nat BY <1>0, Popped
<1>2. dialogs' = SubSeq(dialogs, 1, n - 1) BY DEF Ends
<1>3. Len(dialogs') = n - 1 /\ \A i \in 1..(n - 1) : dialogs'[i] = dialogs[i]
  BY <1>0, <1>2, Popped
<1>4. ps \subseteq Pages /\ \A i \in 1..n : dialogs[i].pages \subseteq Pages
  BY <1>0, <1>1, EntryFacts
<1>5. \A p \in Pages : deferred'[p] = (p \notin ps /\ deferred[p]) BY DEF Ends
<1>6. \A d \in Docs : suspended'[d] = (d \notin DocsOf(ps) /\ suspended[d])
  BY DEF Ends, ResumeActiveDOMObjects
<1>7. shown' = shown /\ shown \in [Pages -> Docs] BY DEF Ends, DOMInv, DOMTypeOK
<1>8. \A p \in Pages \ ps : shown[p] \notin DocsOf(ps)
  BY <1>4 DEF DocsOf, Places
<1>9. \A i \in 1..(n - 1) : i \in 1..n /\ i # n BY <1>1
<1>10. \A i \in 1..(n - 1) : dialogs[i].pages \cap ps = {}
  BY <1>1, <1>9 DEF DialogInv
<1>11. \A i \in 1..(n - 1) : \A p \in dialogs[i].pages : deferred'[p]
  BY <1>4, <1>5, <1>9, <1>10 DEF DialogInv
<1>12. \A p \in Pages : deferred'[p] => suspended'[shown'[p]]
  BY <1>5, <1>6, <1>7, <1>8 DEF DialogInv
<1>13. \A i \in 1..Len(dialogs') : i \in 1..(n - 1) /\ i \in 1..n /\ dialogs'[i] = dialogs[i]
  BY <1>3, <1>9
<1>14. \A i \in 1..Len(dialogs') : dialogs'[i].kind = "dialog" BY <1>13 DEF DialogInv
<1>15. \A i, j \in 1..Len(dialogs') : i # j => dialogs'[i].pages \cap dialogs'[j].pages = {}
  BY <1>13 DEF DialogInv
<1>16. \A i \in 1..Len(dialogs') : \A p \in dialogs'[i].pages : deferred'[p] BY <1>11, <1>13
<1>. QED BY <1>12, <1>14, <1>15, <1>16 DEF DialogInv

\* Every step keeps what is known of the dialogs.
LEMMA DialogInvKept ==
    ASSUME ~debugger, DOMInv, Places, DialogInv, [DOMNext]_domVars
    PROVE  DialogInv'
<1>1. CASE UNCHANGED <<shown, suspended, deferred, dialogs>> BY <1>1 DEF DialogInv
<1>2. ASSUME NEW p \in Pages, RunJavaScriptDialog(p) \/ RunModal(p) PROVE DialogInv'
  BY <1>2, DeferDialogInv DEF RunJavaScriptDialog, RunModal
<1>3. ASSUME NEW p \in Pages, DebuggerPauses(p) PROVE DialogInv' BY <1>3 DEF DebuggerPauses
<1>4. ASSUME NEW p \in Pages, NEW d \in Docs, NEW keep \in BOOLEAN, Navigate(p, d, keep)
      PROVE  DialogInv'
  <2>1. ~deferred[p] /\ PageOf[d] = p /\ d # shown[p] BY <1>4 DEF Navigate
  <2>2. \A q \in Pages : shown'[q] = IF q = p THEN d ELSE shown[q]
    BY <1>4 DEF Navigate, DOMInv, DOMTypeOK
  <2>3. \A e \in Docs : e # d /\ e # shown[p] => suspended'[e] = suspended[e]
    BY <1>4 DEF Navigate, DOMInv, DOMTypeOK
  <2>4. \A q \in Pages : shown[q] \in Docs /\ PageOf[shown[q]] = q
    BY DEF Places, DOMInv, DOMTypeOK
  <2>5. deferred' = deferred /\ dialogs' = dialogs BY <1>4 DEF Navigate
  <2>6. \A q \in Pages : deferred'[q] => suspended'[shown'[q]]
    BY <2>1, <2>2, <2>3, <2>4, <2>5 DEF DialogInv
  <2>. QED BY <2>5, <2>6 DEF DialogInv
<1>5. ASSUME NEW d \in Docs, Evict(d) PROVE DialogInv'
  <2>1. d \in cached BY <1>5 DEF Evict
  <2>2. \A e \in Docs : e # d => suspended'[e] = suspended[e] BY <1>5 DEF Evict, DOMInv, DOMTypeOK
  <2>3. \A q \in Pages : shown[q] \in Docs /\ shown[q] # d BY <2>1 DEF Places, DOMInv, DOMTypeOK
  <2>4. deferred' = deferred /\ dialogs' = dialogs /\ shown' = shown BY <1>5 DEF Evict
  <2>5. \A q \in Pages : deferred'[q] => suspended'[shown'[q]]
    BY <2>2, <2>3, <2>4 DEF DialogInv
  <2>. QED BY <2>4, <2>5 DEF DialogInv
<1>6. ASSUME DialogEnds \/ DebuggerContinues PROVE DialogInv'
  BY <1>6, EndsDialogInv DEF DialogEnds, DebuggerContinues
<1>. QED
  BY <1>1, <1>2, <1>3, <1>4, <1>5, <1>6 DEF DOMNext, domVars, Install, RemoveById, FireHidden,
     FireVisible, NotifyChromeVisible

\* Without a debugger no timer of a page beneath a dialog is active, however
\* dialogs are nested and whatever happens to the other pages.
THEOREM Quiet == DOMSpec => []QuietBeneathDialog
<1>1. DOMInit => Places /\ DialogInv BY DEF DOMInit, Places, DialogInv
<1>2. DOMInv /\ Places /\ (~debugger => DialogInv) => QuietBeneathDialog
  <2>. SUFFICES ASSUME DOMInv, DialogInv, NEW i \in 1..Len(dialogs), NEW t \in Set,
                       NEW p \in dialogs[i].pages, timer[t].doc = shown[p]
                PROVE  ~timer[t].active
    BY DEF QuietBeneathDialog, DocsOf
  <2>1. dialogs[i].pages \subseteq Pages BY EntryFacts DEF DOMInv, DOMTypeOK
  <2>2. suspended[timer[t].doc] = TRUE
    <3>1. deferred[p] BY DEF DialogInv
    <3>2. suspended[shown[p]] /\ suspended[shown[p]] \in BOOLEAN
      BY <2>1, <3>1 DEF DialogInv, DOMInv, DOMTypeOK
    <3>. QED BY <3>2
  <2>3. timer[t] \in Timer /\ Sound(timer[t]) /\ Agrees(timer[t], suspended) /\ timer[t].doc # NoDoc
    BY DEF DOMInv, DOMTypeOK, Set
  <2>. QED BY <2>2, <2>3 DEF Sound, Agrees, IsSuspended
<1>3. DOMInv /\ Places /\ (~debugger => DialogInv) /\ [DOMNext]_domVars
        => Places' /\ (~debugger => DialogInv)'
  BY PlacesKept, DialogInvKept, SettingsKept
<1>. QED BY <1>1, <1>2, <1>3, DOMInvariant, PTL DEF DOMSpec

(***************************************************************************)
(* Without the page cache a timer is held back for a hidden window only    *)
(* while the window is hidden: all timers belong to documents shown.       *)
(***************************************************************************)

HiddenInv ==
    /\ cached = {}
    /\ \A t \in ScriptTimers : timer[t].doc # NoDoc =>
         \E p \in Pages : timer[t].doc = shown[p] /\ (timer[t].hidden => ~visible[p])

\* Every step keeps it.
LEMMA HiddenInvKept ==
    ASSUME ~cache, DOMInv, Places, HiddenInv, [DOMNext]_domVars
    PROVE  HiddenInv'
<1>0. \A t \in ScriptTimers : timer[t] \in Timer /\ Sound(timer[t]) BY DEF DOMInv, DOMTypeOK
<1>1. CASE UNCHANGED domVars BY <1>1 DEF domVars, HiddenInv
<1>2. ASSUME NEW t \in ScriptTimers, NEW d \in Docs, NEW b \in BOOLEAN, Install(t, d, b) PROVE HiddenInv'
  <2>1. PICK p \in Pages : d = shown[p] BY <1>2 DEF Install, DocsOf
  <2>2. timer'[t].doc = d /\ timer'[t].hidden = FALSE
    <3>1. NewTimer(d, b) \in Timer /\ Sound(NewTimer(d, b)) /\ NewTimer(d, b).doc = d
          /\ NewTimer(d, b).hidden = FALSE
      BY NewAndDeleted
    <3>2. timer'[t] = NewTimer(d, b) \/ timer'[t] = Suspend(NewTimer(d, b), "general")
      BY <1>2 DEF Install, DOMInv, DOMTypeOK
    <3>. QED BY <3>1, <3>2, SuspendGeneral
  <2>3. \A u \in ScriptTimers : u # t => timer'[u] = timer[u] BY <1>2 DEF Install, DOMInv, DOMTypeOK
  <2>4. cached' = cached /\ shown' = shown /\ visible' = visible BY <1>2 DEF Install
  <2>. QED BY <2>1, <2>2, <2>3, <2>4 DEF HiddenInv
<1>3. ASSUME NEW t \in ScriptTimers, RemoveById(t) \/ FireHidden(t) \/ FireVisible(t) PROVE HiddenInv'
  <2>1. cached' = cached /\ shown' = shown /\ visible' = visible
    BY <1>3 DEF RemoveById, FireHidden, FireVisible
  <2>2. \A u \in ScriptTimers : u # t => timer'[u] = timer[u]
    BY <1>3 DEF RemoveById, FireHidden, FireVisible, DOMInv, DOMTypeOK
  <2>3. CASE timer'[t] = Deleted BY <2>1, <2>2, <2>3, NewAndDeleted DEF HiddenInv
  <2>4. CASE timer'[t] = timer[t] BY <2>1, <2>2, <2>4 DEF HiddenInv
  <2>5. CASE FireHidden(t)
    <3>1. timer'[t] = Suspend(timer[t], "hidden") BY <2>5 DEF FireHidden, DOMInv, DOMTypeOK
    <3>2. timer'[t].doc = timer[t].doc BY <1>0, <3>1, SuspendHidden
    <3>3. ~visible[PageOf[timer[t].doc]] BY <2>5 DEF FireHidden
    <3>4. \A p \in Pages : timer[t].doc = shown[p] => ~visible[p] BY <3>3 DEF Places
    <3>. QED BY <2>1, <2>2, <3>2, <3>4 DEF HiddenInv
  <2>. QED BY <1>3, <2>3, <2>4, <2>5 DEF RemoveById, FireVisible, DOMInv, DOMTypeOK
<1>4. ASSUME UNCHANGED <<cached, shown, visible>>,
             \A t \in ScriptTimers : timer'[t].doc = timer[t].doc /\ timer'[t].hidden = timer[t].hidden
      PROVE  HiddenInv'
  BY <1>4 DEF HiddenInv
<1>5. ASSUME NEW p \in Pages, RunJavaScriptDialog(p) \/ RunModal(p) \/ DebuggerPauses(p)
      PROVE  HiddenInv'
  <2>1. PICK ps \in SUBSET Pages : SuspendActiveDOMObjects(DocsOf(ps))
    BY <1>5 DEF RunJavaScriptDialog, RunModal, Defer, DebuggerPauses
  <2>2. DocsOf(ps) \in SUBSET Docs BY DEF DocsOf, DOMInv, DOMTypeOK
  <2>3. UNCHANGED <<cached, shown, visible>>
    BY <1>5 DEF RunJavaScriptDialog, RunModal, Defer, DebuggerPauses
  <2>. QED BY <1>4, <2>1, <2>2, <2>3, SuspendDocs
<1>6. ASSUME DialogEnds \/ DebuggerContinues PROVE HiddenInv'
  <2>1. PICK k : Ends(k) BY <1>6 DEF DialogEnds, DebuggerContinues
  <2>2. dialogs[Len(dialogs)].pages \in SUBSET Pages
    BY <2>1, EntryFacts, Popped DEF Ends, DOMInv, DOMTypeOK
  <2>3. DocsOf(dialogs[Len(dialogs)].pages) \in SUBSET Docs BY <2>2 DEF DocsOf, DOMInv, DOMTypeOK
  <2>4. ResumeActiveDOMObjects(DocsOf(dialogs[Len(dialogs)].pages)) /\ UNCHANGED <<cached, shown, visible>>
    BY <2>1 DEF Ends
  <2>. QED BY <1>4, <2>3, <2>4, ResumeDocs
<1>7. ASSUME NEW p \in Pages, NEW b \in BOOLEAN, NotifyChromeVisible(p, b) PROVE HiddenInv'
  <2>1. cached' = cached /\ shown' = shown /\ \A q \in Pages : visible'[q] = IF q = p THEN b ELSE visible[q]
    BY <1>7 DEF NotifyChromeVisible, DOMInv, DOMTypeOK
  <2>2. SUFFICES ASSUME NEW t \in ScriptTimers, timer'[t].doc # NoDoc
                 PROVE  \E q \in Pages : timer'[t].doc = shown'[q] /\ (timer'[t].hidden => ~visible'[q])
    BY <2>1 DEF HiddenInv
  <2>3. timer'[t] = IF b /\ timer[t].doc = shown[p] THEN ResumeOnInvisibleChrome(timer[t]) ELSE timer[t]
    BY <1>7 DEF NotifyChromeVisible, Change
  <2>4. timer'[t].doc = timer[t].doc /\ (timer'[t] = ResumeOnInvisibleChrome(timer[t]) => timer'[t].hidden = FALSE)
    <3>1. timer[t] \in Timer /\ Sound(timer[t]) BY <1>0
    <3>2. ResumeOnInvisibleChrome(timer[t]).doc = timer[t].doc
          /\ ResumeOnInvisibleChrome(timer[t]).hidden = FALSE
      BY <3>1, ResumeOnInvisible
    <3>. QED BY <2>3, <3>2
  <2>5. PICK q \in Pages : timer[t].doc = shown[q] /\ (timer[t].hidden => ~visible[q])
    BY <2>2, <2>4 DEF HiddenInv
  <2>6. CASE q = p
    <3>1. CASE b = TRUE
      <4>1. timer'[t] = ResumeOnInvisibleChrome(timer[t]) BY <2>3, <2>5, <2>6, <3>1
      <4>2. timer'[t].hidden = FALSE BY <2>4, <4>1
      <4>. QED BY <2>1, <2>4, <2>5, <4>2
    <3>2. CASE b = FALSE BY <2>1, <2>4, <2>5, <2>6, <3>2
    <3>. QED BY <3>1, <3>2
  <2>7. CASE q # p
    <3>1. timer[t].doc # shown[p] BY <2>5, <2>7 DEF Places
    <3>. QED BY <2>1, <2>3, <2>5, <2>7, <3>1
  <2>. QED BY <2>6, <2>7
<1>8. ASSUME NEW p \in Pages, NEW d \in Docs, NEW keep \in BOOLEAN, Navigate(p, d, keep)
      PROVE  HiddenInv'
  <2>1. keep = FALSE /\ PageOf[d] = p /\ d # shown[p] /\ visible' = visible BY <1>8 DEF Navigate
  <2>2. \A q \in Pages : shown'[q] = IF q = p THEN d ELSE shown[q]
    BY <1>8 DEF Navigate, DOMInv, DOMTypeOK
  <2>3. cached' = {} BY <1>8, <2>1 DEF Navigate, HiddenInv
  <2>4. ASSUME NEW t \in ScriptTimers, timer'[t].doc # NoDoc
        PROVE  \E q \in Pages : timer'[t].doc = shown'[q] /\ (timer'[t].hidden => ~visible'[q])
    <3>1. timer[t].doc # shown[p]
      <4>1. timer[t].doc = shown[p] => timer'[t] = Deleted BY <1>8, <2>1 DEF Navigate, Left
      <4>. QED BY <2>4, <4>1, NewAndDeleted
    <3>2. timer[t].doc # d
      <4>1. SUFFICES ASSUME timer[t].doc = d PROVE FALSE OBVIOUS
      <4>2. d # NoDoc BY DOMAssumption
      <4>3. PICK q \in Pages : d = shown[q] BY <4>1, <4>2 DEF HiddenInv
      <4>. QED BY <2>1, <4>3 DEF Places
    <3>3. timer'[t] = timer[t] BY <1>8, <3>1, <3>2 DEF Navigate
    <3>4. PICK q \in Pages : timer[t].doc = shown[q] /\ (timer[t].hidden => ~visible[q])
      BY <2>4, <3>3 DEF HiddenInv
    <3>. QED BY <2>1, <2>2, <3>1, <3>3, <3>4
  <2>. QED BY <2>3, <2>4 DEF HiddenInv
<1>9. ASSUME NEW d \in Docs, Evict(d) PROVE HiddenInv' BY <1>9 DEF Evict, HiddenInv
<1>. QED BY <1>1, <1>2, <1>3, <1>5, <1>6, <1>7, <1>8, <1>9 DEF DOMNext

\* Without the page cache a timer suppressed for a hidden window is resumed when
\* the window becomes visible, whatever suspends it besides.
THEOREM HeldWhileHidden == DOMSpec => []HiddenWhileHidden
<1>1. DOMInit => Places /\ HiddenInv BY NewAndDeleted DEF DOMInit, Places, HiddenInv
<1>2. Places /\ (~cache => HiddenInv) => HiddenWhileHidden
  BY DEF Places, HiddenInv, HiddenWhileHidden, DocsOf, Set
<1>3. DOMInv /\ Places /\ (~cache => HiddenInv) /\ [DOMNext]_domVars
        => Places' /\ (~cache => HiddenInv)'
  BY PlacesKept, HiddenInvKept, SettingsKept
<1>. QED BY <1>1, <1>2, <1>3, DOMInvariant, PTL DEF DOMSpec
=============================================================================
