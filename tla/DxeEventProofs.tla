--------------------------- MODULE DxeEventProofs ---------------------------
(***************************************************************************)
(* Proofs about DxeEvent, for any events, any calls and any number of      *)
(* nested interrupts: how the frames of the stack may lie on each other,   *)
(* who holds the lock of the timer list, where a signalled event is, and   *)
(* who may still know of one that is closed.                               *)
(***************************************************************************)
EXTENDS DxeEvent, FiniteSetTheorems, SequenceTheorems, WellFoundedInduction, TLAPS

------------------------------------------------------------------------------
(***************************************************************************)
(* Lists of events                                                         *)
(***************************************************************************)
\* A set of natural numbers has a least element.
LEMMA LeastElement ==
  ASSUME NEW T \in SUBSET Nat, T # {}
  PROVE  \E x \in T : \A y \in T : x <= y
<1> DEFINE R == {ss \in Nat \X Nat : ss[1] < ss[2]}
<1>1. IsWellFoundedOn(R, Nat)
  BY NatLessThanWellFounded DEF OpToRel
<1>2. PICK x \in T : \A y \in T : <<y, x>> \notin R
  <2> HIDE DEF R
  <2> QED BY <1>1, WFMin
<1>3. ASSUME NEW y \in T PROVE x <= y
  <2>1. <<y, x>> \in Nat \X Nat /\ <<y, x>>[1] = y /\ <<y, x>>[2] = x
    OBVIOUS
  <2>2. ~(y < x)
    BY <1>2, <2>1
  <2> QED BY <2>2
<1> QED BY <1>3

\* Induction up to N, for a set of numbers.
LEMMA UpTo ==
  ASSUME NEW N \in Nat, NEW G, 0 \in G,
         \A n \in 0 .. N : n \in G /\ n < N => n + 1 \in G
  PROVE  \A n \in 0 .. N : n \in G
<1>1. SUFFICES ASSUME NEW k \in 0 .. N, k \notin G PROVE FALSE
  OBVIOUS
<1> DEFINE T == {n \in 0 .. N : n \notin G}
<1>2. PICK m \in T : \A y \in T : m <= y
  <2>1. T \in SUBSET Nat /\ T # {}
    BY <1>1
  <2> QED BY <2>1, LeastElement
<1>3. m - 1 \in 0 .. N /\ m - 1 \notin T
  BY <1>2
<1> QED BY <1>2, <1>3

\* One step of the recursion of Keep, from the results g before it.
KeepStep(s, S, g, m) ==
  IF m = 0 THEN <<>> ELSE IF s[m] \in S THEN Append(g[m - 1], s[m]) ELSE g[m - 1]

\* The function that Keep defines exists.
LEMMA KeepExists ==
  ASSUME NEW s, NEW S, Len(s) \in Nat
  PROVE  \E g : g = [m \in 0 .. Len(s) |-> KeepStep(s, S, g, m)]
<1> DEFINE G == {n \in 0 .. Len(s) : \E g : g = [m \in 0 .. n |-> KeepStep(s, S, g, m)]}
<1>1. 0 \in G
  <2>1. [m \in 0 .. 0 |-> KeepStep(s, S, [k \in 0 .. 0 |-> <<>>], m)] = [k \in 0 .. 0 |-> <<>>]
    BY DEF KeepStep
  <2> QED BY <2>1
<1>2. ASSUME NEW n \in 0 .. Len(s), n \in G, n < Len(s) PROVE n + 1 \in G
  <2>1. PICK g : g = [m \in 0 .. n |-> KeepStep(s, S, g, m)]
    BY <1>2
  <2> DEFINE h == [m \in 0 .. (n + 1) |-> IF m <= n THEN g[m] ELSE KeepStep(s, S, g, m)]
  <2>2. \A m \in 0 .. (n + 1) : h[m] = KeepStep(s, S, h, m)
    <3> TAKE m \in 0 .. (n + 1)
    <3>1. m # 0 => h[m - 1] = g[m - 1]
      OBVIOUS
    <3>2. KeepStep(s, S, h, m) = KeepStep(s, S, g, m)
      <4> HIDE DEF h
      <4> QED BY <3>1 DEF KeepStep
    <3>3. m <= n => g[m] = KeepStep(s, S, g, m)
      BY <2>1
    <3> QED BY <3>2, <3>3
  <2>3. h = [m \in 0 .. (n + 1) |-> KeepStep(s, S, h, m)]
    <3>1. h = [m \in 0 .. (n + 1) |-> h[m]]
      OBVIOUS
    <3> HIDE DEF h
    <3> QED BY <2>2, <3>1
  <2>4. n + 1 \in 0 .. Len(s)
    BY <1>2
  <2> HIDE DEF h
  <2> QED BY <2>3, <2>4
<1> HIDE DEF G
<1>3. \A n \in 0 .. Len(s) : n \in G
  <2>1. \A n \in 0 .. Len(s) : n \in G /\ n < Len(s) => n + 1 \in G
    BY <1>2
  <2> QED BY <1>1, <2>1, UpTo
<1>4. Len(s) \in G
  BY <1>3
<1> QED BY <1>4 DEF G

\* Neighbours or not, two elements of a list in their order are related by R.
Ordered(s, R) == \A i, j \in 1 .. Len(s) : i < j => <<s[i], s[j]>> \in R

\* Keep keeps exactly the elements that are in the set, and their order.
LEMMA KeepFacts ==
  ASSUME NEW T, NEW s \in Seq(T), NEW S
  PROVE  /\ Keep(s, S) \in Seq(T)
         /\ Range(Keep(s, S)) = Range(s) \cap S
         /\ \A R : Ordered(s, R) => Ordered(Keep(s, S), R)
<1> DEFINE f == CHOOSE g : g = [m \in 0 .. Len(s) |-> KeepStep(s, S, g, m)]
<1>1. Keep(s, S) = f[Len(s)]
  BY DEF Keep, KeepStep
<1>2. Len(s) \in Nat /\ DOMAIN s = 1 .. Len(s)
  OBVIOUS
<1>3. f = [m \in 0 .. Len(s) |-> KeepStep(s, S, f, m)]
  BY <1>2, KeepExists
<1> HIDE DEF f
<1>4. \A m \in 0 .. Len(s) : f[m] = KeepStep(s, S, f, m)
  BY <1>3
<1> DEFINE First(n) == {s[k] : k \in 1 .. n}
           Good(n) == /\ f[n] \in Seq(T)
                      /\ Range(f[n]) = First(n) \cap S
                      /\ \A R : Ordered(s, R) => Ordered(f[n], R)
           G == {n \in 0 .. Len(s) : Good(n)}
<1>5. 0 \in G
  <2>1. f[0] = <<>>
    BY <1>4, <1>2 DEF KeepStep
  <2>2. First(0) = {} /\ Range(f[0]) = {}
    BY <2>1 DEF Range
  <2>3. f[0] \in Seq(T) /\ \A R : Ordered(f[0], R)
    BY <2>1 DEF Ordered
  <2> QED BY <1>2, <2>2, <2>3
<1>6. ASSUME NEW n \in 0 .. Len(s), n \in G, n < Len(s) PROVE n + 1 \in G
  <2>1. n + 1 \in 1 .. Len(s) /\ n + 1 \in 0 .. Len(s) /\ n \in Nat
    BY <1>2, <1>6
  <2>2. f[n + 1] = IF s[n + 1] \in S THEN Append(f[n], s[n + 1]) ELSE f[n]
    <3>1. f[n + 1] = KeepStep(s, S, f, n + 1)
      BY <1>4, <2>1
    <3>2. n + 1 # 0 /\ (n + 1) - 1 = n
      BY <2>1
    <3> QED BY <3>1, <3>2 DEF KeepStep
  <2>3. First(n + 1) = First(n) \cup {s[n + 1]}
    BY <2>1
  <2>4. Good(n)
    BY <1>6
  <2>5. s[n + 1] \in T
    BY <2>1
  <2>6. CASE s[n + 1] \in S
    <3> DEFINE g == f[n]
               x == s[n + 1]
    <3>1. f[n + 1] = Append(g, x) /\ g \in Seq(T) /\ x \in T
      BY <2>2, <2>4, <2>5, <2>6
    <3>2. /\ Append(g, x) \in Seq(T)
          /\ Len(Append(g, x)) = Len(g) + 1
          /\ \A k \in 1 .. Len(g) : Append(g, x)[k] = g[k]
          /\ Append(g, x)[Len(g) + 1] = x
          /\ DOMAIN Append(g, x) = 1 .. (Len(g) + 1)
          /\ DOMAIN g = 1 .. Len(g)
          /\ Len(g) \in Nat
      <4> HIDE DEF g, x
      <4> QED BY <3>1, AppendProperties, LenProperties
    <3>3. Range(Append(g, x)) = Range(g) \cup {x}
      <4> HIDE DEF g, x
      <4> QED BY <3>2 DEF Range
    <3>4. ASSUME NEW R, Ordered(s, R) PROVE Ordered(Append(g, x), R)
      <4>1. Ordered(g, R)
        BY <2>4, <3>4
      <4>2. ASSUME NEW i \in 1 .. Len(g) PROVE <<g[i], x>> \in R
        <5>1. g[i] \in First(n)
          BY <2>4, <3>2 DEF Range
        <5>2. PICK k \in 1 .. n : g[i] = s[k]
          BY <5>1
        <5>3. k \in 1 .. Len(s) /\ k < n + 1
          BY <2>1
        <5> QED BY <5>2, <5>3, <3>4, <2>1 DEF Ordered
      <4> HIDE DEF g, x
      <4> QED BY <3>2, <4>1, <4>2 DEF Ordered
    <3>5. Range(f[n + 1]) = First(n + 1) \cap S
      BY <3>1, <3>3, <2>3, <2>4, <2>6
    <3> QED BY <3>1, <3>2, <3>4, <3>5, <2>1
  <2>7. CASE s[n + 1] \notin S
    <3>1. f[n + 1] = f[n]
      BY <2>2, <2>7
    <3>2. First(n + 1) \cap S = First(n) \cap S
      BY <2>3, <2>7
    <3>3. Range(f[n + 1]) = First(n + 1) \cap S
      BY <3>1, <3>2, <2>4
    <3>4. f[n + 1] \in Seq(T) /\ \A R : Ordered(s, R) => Ordered(f[n + 1], R)
      BY <3>1, <2>4
    <3>5. Good(n + 1)
      BY <3>3, <3>4 DEF Good
    <3> HIDE DEF Good
    <3> QED BY <3>5, <2>1
  <2> QED BY <2>6, <2>7
<1>7. \A n \in 0 .. Len(s) : n \in G
  <2> HIDE DEF G
  <2>1. \A n \in 0 .. Len(s) : n \in G /\ n < Len(s) => n + 1 \in G
    BY <1>6
  <2> QED BY <1>2, <1>5, <2>1, UpTo
<1>8. Good(Len(s))
  <2>1. Len(s) \in G
    <3> HIDE DEF G
    <3> QED BY <1>2, <1>7
  <2> HIDE DEF Good
  <2> QED BY <2>1
<1>9. First(Len(s)) = Range(s)
  BY <1>2 DEF Range
<1> QED BY <1>1, <1>8, <1>9

\* The sequence u is s with e put before the n-th element.
Inserted(u, s, n, e) ==
  /\ Len(u) = Len(s) + 1
  /\ \A k \in 1 .. (n - 1) : u[k] = s[k]
  /\ u[n] = e
  /\ \A k \in (n + 1) .. (Len(s) + 1) : u[k] = s[k - 1]

LEMMA InsertAtFacts ==
  ASSUME NEW T, NEW s \in Seq(T), NEW e \in T, NEW n \in 1 .. Len(s)
  PROVE  InsertAt(s, n, e) \in Seq(T) /\ Inserted(InsertAt(s, n, e), s, n, e)
<1> DEFINE a == SubSeq(s, 1, n - 1)
           c == SubSeq(s, n, Len(s))
           b == <<e>>
           ab == a \o b
<1>0. Len(s) \in Nat /\ n \in Nat /\ 1 <= n /\ n <= Len(s)
  OBVIOUS
<1>1. /\ a \in Seq(T) /\ Len(a) = n - 1
      /\ \A k \in 1 .. (n - 1) : a[k] = s[k]
  BY <1>0
<1>2. /\ c \in Seq(T) /\ Len(c) = Len(s) - n + 1
      /\ \A k \in 1 .. (Len(s) - n + 1) : c[k] = s[n + k - 1]
  BY <1>0
<1>3. b \in Seq(T) /\ Len(b) = 1 /\ b[1] = e
  OBVIOUS
<1>4. InsertAt(s, n, e) = ab \o c
  BY DEF InsertAt
<1> HIDE DEF a, b, c
<1>5. /\ ab \in Seq(T) /\ Len(ab) = n
      /\ \A k \in 1 .. (n - 1) : ab[k] = s[k]
      /\ ab[n] = e
  <2>1. ab \in Seq(T) /\ Len(ab) = Len(a) + Len(b)
        /\ \A k \in 1 .. (Len(a) + Len(b)) : ab[k] = IF k <= Len(a) THEN a[k] ELSE b[k - Len(a)]
    BY <1>1, <1>3, ConcatProperties
  <2> HIDE DEF ab
  <2>2. Len(ab) = n
    BY <2>1, <1>0, <1>1, <1>3
  <2>3. ab[n] = b[1]
    <3>1. n \in 1 .. (Len(a) + Len(b)) /\ ~(n <= Len(a)) /\ n - Len(a) = 1
      BY <1>0, <1>1, <1>3
    <3> QED BY <2>1, <3>1
  <2>4. \A k \in 1 .. (n - 1) : ab[k] = s[k]
    BY <2>1, <1>0, <1>1, <1>3
  <2> QED BY <2>1, <2>2, <2>3, <2>4, <1>3
<1> HIDE DEF ab
<1>6. /\ ab \o c \in Seq(T) /\ Len(ab \o c) = Len(ab) + Len(c)
      /\ \A k \in 1 .. (Len(ab) + Len(c)) : (ab \o c)[k] = IF k <= Len(ab) THEN ab[k] ELSE c[k - Len(ab)]
  BY <1>2, <1>5, ConcatProperties
<1>7. Len(ab) + Len(c) = Len(s) + 1
  BY <1>0, <1>2, <1>5
<1>8. \A k \in 1 .. n : (ab \o c)[k] = ab[k]
  BY <1>0, <1>5, <1>6, <1>7
<1>9. ASSUME NEW k \in (n + 1) .. (Len(s) + 1) PROVE (ab \o c)[k] = s[k - 1]
  <2>1. k \in 1 .. (Len(ab) + Len(c)) /\ ~(k <= Len(ab))
    BY <1>0, <1>5, <1>7
  <2>2. (ab \o c)[k] = c[k - n]
    BY <1>5, <1>6, <2>1
  <2>3. k - n \in 1 .. (Len(s) - n + 1) /\ n + (k - n) - 1 = k - 1
    BY <1>0
  <2> QED BY <1>2, <2>2, <2>3
<1>10. n \in 1 .. n /\ \A k \in 1 .. (n - 1) : k \in 1 .. n
  BY <1>0
<1>11. Inserted(ab \o c, s, n, e)
  BY <1>5, <1>6, <1>7, <1>8, <1>9, <1>10 DEF Inserted
<1> QED BY <1>4, <1>6, <1>11

\* A list of timers without repetitions and in the order of the times tr.
Sound(list, tr) ==
  \A i, j \in DOMAIN list : i < j => list[i] # list[j] /\ tr[list[i]] <= tr[list[j]]

LEMMA UnlinkFacts ==
  ASSUME NEW T \in SUBSET AllEvents, NEW list \in Seq(T), NEW e
  PROVE  /\ Unlink(list, e) \in Seq(T)
         /\ Range(Unlink(list, e)) = Range(list) \ {e}
         /\ \A tr : Sound(list, tr) => Sound(Unlink(list, e), tr)
<1> DEFINE u == Keep(list, AllEvents \ {e})
<1>1. /\ u \in Seq(T) /\ Range(u) = Range(list) \cap (AllEvents \ {e})
      /\ \A R : Ordered(list, R) => Ordered(u, R)
  BY KeepFacts
<1>2. Range(list) \subseteq T
  BY RangeOfSeq DEF Range
<1>3. Range(u) = Range(list) \ {e}
  BY <1>1, <1>2
<1> HIDE DEF u
<1>4. ASSUME NEW tr, Sound(list, tr) PROVE Sound(u, tr)
  <2> DEFINE R == {xy \in T \X T : xy[1] # xy[2] /\ tr[xy[1]] <= tr[xy[2]]}
  <2>1. Ordered(list, R)
    <3> SUFFICES ASSUME NEW i \in 1 .. Len(list), NEW j \in 1 .. Len(list), i < j
                 PROVE  <<list[i], list[j]>> \in R
      BY DEF Ordered
    <3>1. list[i] \in T /\ list[j] \in T
      OBVIOUS
    <3>2. list[i] # list[j] /\ tr[list[i]] <= tr[list[j]]
      BY <1>4 DEF Sound
    <3> QED BY <3>1, <3>2
  <2>2. Ordered(u, R)
    BY <1>1, <2>1
  <2>3. ASSUME NEW i \in DOMAIN u, NEW j \in DOMAIN u, i < j
        PROVE  u[i] # u[j] /\ tr[u[i]] <= tr[u[j]]
    <3>1. <<u[i], u[j]>> \in R
      BY <1>1, <2>2, <2>3 DEF Ordered
    <3> QED BY <3>1
  <2> QED BY <2>3 DEF Sound
<1> QED BY <1>1, <1>3, <1>4 DEF u, Unlink

LEMMA TailFacts ==
  ASSUME NEW T, NEW list \in Seq(T), list # <<>>
  PROVE  /\ Tail(list) \in Seq(T) /\ Head(list) \in T
         /\ Range(list) = Range(Tail(list)) \cup {Head(list)}
         /\ \A tr : Sound(list, tr) => Sound(Tail(list), tr) /\ Head(list) \notin Range(Tail(list))
<1> DEFINE u == Tail(list)
<1>1. /\ u \in Seq(T) /\ Len(list) \in Nat \ {0} /\ Len(u) = Len(list) - 1
      /\ DOMAIN list = 1 .. Len(list) /\ DOMAIN u = 1 .. Len(u)
      /\ \A k \in 1 .. Len(u) : u[k] = list[k + 1]
      /\ Head(list) = list[1] /\ list[1] \in T
  BY HeadTailProperties, LenProperties, EmptySeq
<1> HIDE DEF u
<1>2. Range(list) = Range(u) \cup {Head(list)}
  <2>1. ASSUME NEW k \in DOMAIN list PROVE list[k] \in Range(u) \cup {Head(list)}
    <3>1. CASE k = 1
      BY <1>1, <3>1
    <3>2. CASE k # 1
      <4>1. k - 1 \in DOMAIN u /\ u[k - 1] = list[k]
        BY <1>1, <3>2
      <4> QED BY <4>1 DEF Range
    <3> QED BY <3>1, <3>2
  <2>2. ASSUME NEW k \in DOMAIN u PROVE u[k] \in Range(list)
    <3>1. k + 1 \in DOMAIN list /\ u[k] = list[k + 1]
      BY <1>1
    <3> QED BY <3>1 DEF Range
  <2>3. 1 \in DOMAIN list
    BY <1>1
  <2> QED BY <1>1, <2>1, <2>2, <2>3 DEF Range
<1>3. ASSUME NEW tr, Sound(list, tr) PROVE Sound(u, tr) /\ Head(list) \notin Range(u)
  <2>1. ASSUME NEW i \in DOMAIN u, NEW j \in DOMAIN u, i < j
        PROVE  u[i] # u[j] /\ tr[u[i]] <= tr[u[j]]
    <3>1. i + 1 \in DOMAIN list /\ j + 1 \in DOMAIN list /\ i + 1 < j + 1
      BY <1>1, <2>1
    <3>2. u[i] = list[i + 1] /\ u[j] = list[j + 1]
      BY <1>1
    <3> QED BY <1>3, <3>1, <3>2 DEF Sound
  <2>2. ASSUME NEW i \in DOMAIN u PROVE u[i] # Head(list)
    <3>1. i + 1 \in DOMAIN list /\ 1 \in DOMAIN list /\ 1 < i + 1
      BY <1>1
    <3>2. u[i] = list[i + 1]
      BY <1>1
    <3> QED BY <1>1, <1>3, <3>1, <3>2 DEF Sound
  <2> QED BY <2>1, <2>2 DEF Sound, Range
<1> QED BY <1>1, <1>2, <1>3 DEF u

\* CoreInsertEventTimer keeps the order.
LEMMA InsertFacts ==
  ASSUME trigger \in [Events -> Nat], TimerEvents \subseteq Events,
         NEW list \in Seq(TimerEvents), NEW e \in TimerEvents, NEW t \in Nat
  PROVE  /\ InsertEventTimer(list, e, t) \in Seq(TimerEvents)
         /\ Range(InsertEventTimer(list, e, t)) = Range(list) \cup {e}
         /\ Sound(list, trigger) /\ e \notin Range(list) =>
              Sound(InsertEventTimer(list, e, t), [trigger EXCEPT ![e] = t])
<1> DEFINE I == {i \in 1 .. Len(list) : trigger[list[i]] > t}
           n == IF I # {} THEN Min(I) ELSE 0
           u == InsertEventTimer(list, e, t)
           m == IF I # {} THEN Min(I) ELSE Len(list) + 1
           tr == [trigger EXCEPT ![e] = t]
<1>0. Len(list) \in Nat /\ DOMAIN list = 1 .. Len(list)
  OBVIOUS
<1>1. u = IF n = 0 THEN Append(list, e) ELSE InsertAt(list, n, e)
  BY DEF InsertEventTimer, SelectInSeq
<1>2. I # {} => Min(I) \in I /\ \A i \in I : Min(I) <= i
  <2>1. I \in SUBSET Nat
    BY <1>0
  <2>2. I # {} => \E x \in I : \A y \in I : x <= y
    BY <2>1, LeastElement
  <2> HIDE DEF I
  <2> QED BY <2>2 DEF Min
<1>3. /\ m \in 1 .. (Len(list) + 1)
      /\ \A i \in 1 .. (m - 1) : i \in 1 .. Len(list) /\ trigger[list[i]] <= t
      /\ m <= Len(list) => trigger[list[m]] > t
  <2>1. CASE I = {}
    <3>1. m = Len(list) + 1
      BY <2>1
    <3> HIDE DEF m
    <3>2. \A i \in 1 .. Len(list) : trigger[list[i]] \in Nat /\ ~(trigger[list[i]] > t)
      BY <2>1
    <3> QED BY <1>0, <3>1, <3>2
  <2>2. CASE I # {}
    <3>1. m = Min(I) /\ m \in 1 .. Len(list) /\ trigger[list[m]] > t
      BY <1>2, <2>2
    <3> HIDE DEF m
    <3>2. ASSUME NEW i \in 1 .. (m - 1) PROVE i \in 1 .. Len(list) /\ trigger[list[i]] <= t
      <4>1. i \in 1 .. Len(list) /\ ~(m <= i)
        BY <1>0, <3>1
      <4>2. i \notin I
        <5> HIDE DEF I
        <5> QED BY <1>2, <2>2, <3>1, <4>1
      <4>3. trigger[list[i]] \in Nat
        BY <4>1
      <4> QED BY <4>1, <4>2, <4>3
    <3> QED BY <1>0, <3>1, <3>2
  <2> QED BY <2>1, <2>2
<1>4. /\ u \in Seq(TimerEvents) /\ Len(u) = Len(list) + 1
      /\ \A k \in 1 .. (m - 1) : u[k] = list[k]
      /\ u[m] = e
      /\ \A k \in (m + 1) .. (Len(list) + 1) : u[k] = list[k - 1]
  <2>1. CASE I = {}
    <3>1. m = Len(list) + 1 /\ u = Append(list, e)
      BY <1>1, <2>1
    <3>2. /\ Append(list, e) \in Seq(TimerEvents) /\ Len(Append(list, e)) = Len(list) + 1
          /\ \A k \in 1 .. Len(list) : Append(list, e)[k] = list[k]
          /\ Append(list, e)[Len(list) + 1] = e
      BY AppendProperties
    <3> HIDE DEF m, u
    <3>3. (m + 1) .. (Len(list) + 1) = {} /\ m - 1 = Len(list)
      BY <1>0, <3>1
    <3> QED BY <3>1, <3>2, <3>3
  <2>2. CASE I # {}
    <3>1. n = Min(I) /\ m = Min(I) /\ Min(I) \in 1 .. Len(list)
      BY <1>2, <2>2
    <3> HIDE DEF m, u, n, I
    <3>2. u = InsertAt(list, m, e) /\ m \in 1 .. Len(list)
      BY <1>0, <1>1, <3>1
    <3>3. u \in Seq(TimerEvents) /\ Inserted(u, list, m, e)
      BY <3>2, InsertAtFacts
    <3> QED BY <3>3 DEF Inserted
  <2> QED BY <2>1, <2>2
<1> HIDE DEF u, m, n, I
<1>5. DOMAIN u = 1 .. (Len(list) + 1) /\ m \in Nat
  BY <1>0, <1>3, <1>4
<1>6. Range(u) = Range(list) \cup {e}
  <2>1. ASSUME NEW k \in DOMAIN u PROVE u[k] \in Range(list) \cup {e}
    <3>1. CASE k < m
      <4>1. k \in 1 .. (m - 1) /\ k \in 1 .. Len(list)
        BY <1>0, <1>3, <1>5, <3>1
      <4> QED BY <1>0, <1>4, <4>1 DEF Range
    <3>2. CASE k = m
      BY <1>4, <3>2
    <3>3. CASE k > m
      <4>1. k \in (m + 1) .. (Len(list) + 1) /\ k - 1 \in 1 .. Len(list)
        BY <1>0, <1>3, <1>5, <3>3
      <4> QED BY <1>0, <1>4, <4>1 DEF Range
    <3> QED BY <1>5, <3>1, <3>2, <3>3
  <2>2. ASSUME NEW k \in DOMAIN list PROVE list[k] \in Range(u)
    <3>1. CASE k < m
      <4>1. k \in 1 .. (m - 1) /\ k \in DOMAIN u
        BY <1>0, <1>5, <3>1
      <4>2. u[k] = list[k]
        BY <1>4, <4>1
      <4> QED BY <4>1, <4>2 DEF Range
    <3>2. CASE ~(k < m)
      <4>1. k + 1 \in (m + 1) .. (Len(list) + 1) /\ k + 1 \in DOMAIN u /\ (k + 1) - 1 = k
        BY <1>0, <1>3, <1>5, <3>2
      <4>2. u[k + 1] = list[k]
        BY <1>4, <4>1
      <4> QED BY <4>1, <4>2 DEF Range
    <3> QED BY <3>1, <3>2
  <2>3. m \in DOMAIN u
    BY <1>3, <1>5
  <2> QED BY <1>4, <2>1, <2>2, <2>3 DEF Range
<1>7. ASSUME Sound(list, trigger), e \notin Range(list) PROVE Sound(u, tr)
  <2>1. /\ tr[e] = t
        /\ \A k \in DOMAIN list : /\ list[k] # e /\ tr[list[k]] = trigger[list[k]]
                                  /\ trigger[list[k]] \in Nat
    BY <1>0, <1>7 DEF Range
  <2> HIDE DEF tr
  <2>2. ASSUME NEW i \in DOMAIN u, NEW j \in DOMAIN u, i < j
        PROVE  u[i] # u[j] /\ tr[u[i]] <= tr[u[j]]
    <3>0. i \in Nat /\ j \in Nat
      BY <1>5
    <3>1. CASE j < m
      <4>1. i \in 1 .. (m - 1) /\ j \in 1 .. (m - 1)
        BY <1>5, <2>2, <3>1
      <4>2. i \in DOMAIN list /\ j \in DOMAIN list /\ u[i] = list[i] /\ u[j] = list[j]
        BY <1>0, <1>3, <1>4, <4>1
      <4> QED BY <1>7, <2>1, <2>2, <4>2 DEF Sound
    <3>2. CASE j = m
      <4>1. i \in 1 .. (m - 1)
        BY <1>5, <2>2, <3>2
      <4>2. i \in DOMAIN list /\ u[i] = list[i] /\ u[j] = e /\ trigger[list[i]] <= t
        BY <1>0, <1>3, <1>4, <3>2, <4>1
      <4> QED BY <2>1, <4>2
    <3>3. CASE j > m
      <4>1. j \in (m + 1) .. (Len(list) + 1) /\ j - 1 \in DOMAIN list
        BY <1>0, <1>3, <1>5, <3>3
      <4>2. u[j] = list[j - 1]
        BY <1>4, <4>1
      <4>3. m \in DOMAIN list /\ trigger[list[m]] > t /\ m <= j - 1
        BY <1>0, <1>3, <1>5, <3>3, <4>1
      <4>4. CASE i < m
        <5>1. i \in 1 .. (m - 1) /\ i \in DOMAIN list
          BY <1>0, <1>3, <1>5, <4>4
        <5>2. u[i] = list[i] /\ i < j - 1
          BY <1>4, <1>5, <4>3, <4>4, <5>1
        <5> QED BY <1>7, <2>1, <4>1, <4>2, <5>1, <5>2 DEF Sound
      <4>5. CASE i = m
        <5>1. u[i] = e
          BY <1>4, <4>5
        <5>2. trigger[list[m]] <= trigger[list[j - 1]]
          <6>1. CASE m = j - 1
            BY <2>1, <4>3, <6>1
          <6>2. CASE m # j - 1
            <7>1. m < j - 1
              BY <1>5, <3>0, <4>3, <6>2
            <7> QED BY <1>7, <4>1, <4>3, <7>1 DEF Sound
          <6> QED BY <6>1, <6>2
        <5>3. t <= trigger[list[j - 1]]
          BY <2>1, <4>1, <4>3, <5>2
        <5> QED BY <2>1, <4>1, <4>2, <5>1, <5>3
      <4>6. CASE i > m
        <5>1. i \in (m + 1) .. (Len(list) + 1) /\ i - 1 \in DOMAIN list /\ i - 1 < j - 1
          BY <1>0, <1>3, <1>5, <2>2, <4>6
        <5>2. u[i] = list[i - 1]
          BY <1>4, <5>1
        <5> QED BY <1>7, <2>1, <4>1, <4>2, <5>1, <5>2 DEF Sound
      <4> QED BY <1>5, <3>0, <4>4, <4>5, <4>6
    <3> QED BY <1>5, <3>0, <3>1, <3>2, <3>3
  <2> QED BY <2>2 DEF Sound
<1> QED BY <1>4, <1>6, <1>7 DEF u
------------------------------------------------------------------------------
(***************************************************************************)
(* The inductive invariant                                                 *)
(***************************************************************************)
CodePcs   == {"app", "notify", "raised"}
CallPcs   == {"signalGroup", "unlink", "free", "poll", "polled"}
LockPcs   == {"checkTimers", "rearm", "arm"}
Restoring == {"restore", "lower"}
Tpls      == {Application, HighLevel} \cup NotifyTpls

\* What a frame holds.
FrameOK(f) ==
  /\ f.at \in Pcs
  /\ f.at \in CodePcs => f.level \in Tpls /\ f.ev \in AllEvents \cup {App}
  /\ f.at = "app" => f.level = Application
  /\ f.at = "notify" => f.ev \in AllEvents /\ f.level = NotifyTpl(f.ev)
  /\ f.at \in Restoring \cup {"raised", "arm"} => f.tpl \in Tpls
  /\ f.at = "dispatch" => f.tpl \in NotifyTpls
  /\ f.at = "checkTimers" => f.time \in Nat
  /\ f.at \in {"signalGroup", "unlink", "free"} => f.ev \in Events
  /\ f.at \in {"arm", "rearm"} => f.ev \in TimerEvents
  /\ f.at = "arm" => f.time \in Nat /\ f.delay \in Nat
  /\ f.at \in {"poll", "polled"} => f.evs \in Seq(Events) /\ f.i \in 1 .. Len(f.evs)

\* The TPL of a frame: what runs above it runs at this TPL or a higher one.
\* A service runs at the TPL of its caller.
Floor(s, j) ==
  IF s[j].at \in CodePcs THEN s[j].level
  ELSE IF s[j].at \in CallPcs THEN s[j - 1].level
  ELSE IF s[j].at \in LockPcs THEN TimerTpl
  ELSE s[j].tpl

\* A frame that lies on frame p with TPL t.
Fits(f, p, t) ==
  /\ f.at = "notify" => p.at = "dispatch" /\ f.level = t
  /\ f.at = "raised" => p.at \in CodePcs /\ f.tpl = t /\ t < f.level
  /\ f.at \in Restoring => IF p.at \in Restoring THEN t <= f.tpl ELSE f.tpl = t
  /\ f.at = "dispatch" => p.at = "restore" /\ t < f.tpl
  /\ f.at = "checkTimers" => p.at = "dispatch" /\ t = TimerTpl
  /\ f.at = "rearm" => p.at = "checkTimers"
  /\ f.at = "arm" => p.at \in CodePcs /\ f.tpl = t /\ t <= Notify
  /\ f.at \in CallPcs => p.at \in CodePcs

StackOK(s) ==
  /\ s \in Seq(Range(s)) /\ s # <<>>
  /\ \A j \in 1 .. Len(s) : FrameOK(s[j]) /\ (s[j].at = "app" <=> j = 1)
  /\ \A j \in 2 .. Len(s) : Fits(s[j], s[j - 1], Floor(s, j - 1))
  /\ \A i, j \in 1 .. Len(s) :
       i < j => /\ Floor(s, i) <= Floor(s, j)
                /\ s[j].at = "dispatch" => Floor(s, i) < Floor(s, j)

\* The TPL t is the one of the last frame; RestoreTpl is yet to lower it.
RunsAt(s, t) ==
  IF s[Len(s)].at \in Restoring THEN s[Len(s)].tpl <= t ELSE t = Floor(s, Len(s))

CpuInv ==
  /\ tpl \in Tpls /\ intr \in BOOLEAN
  /\ intr => tpl <= TimerTpl
  /\ StackOK(stack) /\ RunsAt(stack, tpl)

NoticesInv ==
  /\ queue \in [NotifyTpls -> Seq(AllEvents)]
  /\ \A p \in NotifyTpls : Range(queue[p]) \subseteq {e \in AllEvents : NotifyTpl(e) = p}
  /\ pending \subseteq NotifyTpls
  /\ sig \in [AllEvents -> {0, 1}]

ClockInv ==
  /\ timers \in Seq(TimerEvents)
  /\ trigger \in [Events -> Nat] /\ period \in [Events -> Nat]
  /\ now \in 0 .. MaxTime

ObjectsInv ==
  /\ sigList \in Seq(Events)
  /\ live \subseteq Events /\ closed \subseteq Events
  /\ calls \in 0 .. MaxCalls

DataInv == NoticesInv /\ ClockInv /\ ObjectsInv

\* The events of the frames at pcs.
Users(s, pcs) == {s[j].ev : j \in {k \in DOMAIN s : s[k].at \in pcs}}

\* A timer that is about to be inserted is not on the list.
ArmInv ==
  /\ Users(stack, {"arm", "rearm"}) \cap Range(timers) = {}
  /\ Sound(timers, trigger)

\* Only events that were created have a timer or a signal.
CreatedInv ==
  /\ Range(timers) \cup Users(stack, {"arm", "rearm"}) \subseteq live \cup closed
  /\ \A e \in Events \ (live \cup closed) : sig[e] = 0

\* CoreNotifySignalList finds every event that is not being closed, and a
\* signalled event is queued or has a caller that deals with it.
SignalInv ==
  /\ \A e \in live : Kind[e] = "signal" => e \in Range(sigList) \cup Users(stack, {"free"})
  /\ \A e \in live \cup {CheckTimerEvent} :
       KindOf(e) = "signal" /\ sig[e] = 1 =>
         Queued(e) \/ e \in Users(stack, {"signalGroup", "free"})

IInv == CpuInv /\ DataInv /\ ArmInv /\ CreatedInv /\ SignalInv
------------------------------------------------------------------------------
(***************************************************************************)
(* Frames and stacks                                                       *)
(***************************************************************************)
\* A sequence with one more element.
LEMMA AppendFacts ==
  ASSUME NEW s, s \in Seq(Range(s)), NEW x
  PROVE  /\ Append(s, x) \in Seq(Range(Append(s, x)))
         /\ Len(s) \in Nat /\ Len(Append(s, x)) = Len(s) + 1
         /\ DOMAIN s = 1 .. Len(s) /\ DOMAIN Append(s, x) = 1 .. (Len(s) + 1)
         /\ \A j \in 1 .. Len(s) : Append(s, x)[j] = s[j]
         /\ Append(s, x)[Len(s) + 1] = x
         /\ Append(s, x) # <<>>
<1> DEFINE S == Range(s) \cup {x}
<1>1. s \in Seq(S) /\ x \in S
  BY SeqMonotonic
<1> HIDE DEF S
<1>2. /\ Append(s, x) \in Seq(S)
      /\ Append(s, x) # <<>>
      /\ Len(s) \in Nat /\ Len(Append(s, x)) = Len(s) + 1
      /\ \A j \in 1 .. Len(s) : Append(s, x)[j] = s[j]
      /\ Append(s, x)[Len(s) + 1] = x
      /\ DOMAIN s = 1 .. Len(s) /\ DOMAIN Append(s, x) = 1 .. (Len(s) + 1)
  BY <1>1, AppendProperties, LenProperties
<1>3. Append(s, x) \in Seq(Range(Append(s, x)))
  BY <1>2, SeqOfRange DEF Range
<1> QED BY <1>2, <1>3

\* A sequence without its last element.
LEMMA FrontFacts ==
  ASSUME NEW s, s \in Seq(Range(s)), s # <<>>
  PROVE  /\ Front(s) \in Seq(Range(Front(s)))
         /\ Len(s) \in Nat \ {0} /\ Len(Front(s)) = Len(s) - 1
         /\ DOMAIN s = 1 .. Len(s) /\ DOMAIN Front(s) = 1 .. (Len(s) - 1)
         /\ \A j \in 1 .. (Len(s) - 1) : Front(s)[j] = s[j]
<1> DEFINE S == Range(s)
<1>1. s \in Seq(S) /\ Len(s) \in Nat \ {0} /\ DOMAIN s = 1 .. Len(s)
  <2> HIDE DEF S
  <2> s \in Seq(S) BY DEF S
  <2> QED BY LenProperties, EmptySeq
<1> HIDE DEF S
<1>2. /\ SubSeq(s, 1, Len(s) - 1) \in Seq(S)
      /\ Len(SubSeq(s, 1, Len(s) - 1)) = Len(s) - 1
      /\ \A j \in 1 .. (Len(s) - 1) : SubSeq(s, 1, Len(s) - 1)[j] = s[j]
  BY <1>1
<1>3. Front(s) \in Seq(S) /\ Len(Front(s)) = Len(s) - 1 /\ DOMAIN Front(s) = 1 .. (Len(s) - 1)
  BY <1>2, LenProperties DEF Front
<1>4. Front(s) \in Seq(Range(Front(s)))
  BY <1>3, SeqOfRange DEF Range
<1> QED BY <1>1, <1>2, <1>3, <1>4 DEF Front

LEMMA UsersAppend ==
  ASSUME NEW s, s \in Seq(Range(s)), NEW x, NEW pcs
  PROVE  Users(Append(s, x), pcs) = Users(s, pcs) \cup (IF x.at \in pcs THEN {x.ev} ELSE {})
<1> DEFINE t == Append(s, x)
<1>1. /\ Len(s) \in Nat
      /\ DOMAIN s = 1 .. Len(s) /\ DOMAIN t = 1 .. (Len(s) + 1)
      /\ \A j \in 1 .. Len(s) : t[j] = s[j]
      /\ t[Len(s) + 1] = x
  BY AppendFacts
<1> HIDE DEF t
<1>2. Users(t, pcs) = Users(s, pcs) \cup (IF x.at \in pcs THEN {x.ev} ELSE {})
  <2>1. ASSUME NEW e \in Users(t, pcs)
        PROVE  e \in Users(s, pcs) \cup (IF x.at \in pcs THEN {x.ev} ELSE {})
    <3>1. PICK j \in DOMAIN t : t[j].at \in pcs /\ e = t[j].ev
      BY <2>1 DEF Users
    <3>2. CASE j = Len(s) + 1
      BY <3>1, <3>2, <1>1
    <3>3. CASE j # Len(s) + 1
      <4>1. j \in DOMAIN s /\ t[j] = s[j]
        BY <3>3, <1>1
      <4> QED BY <3>1, <4>1 DEF Users
    <3> QED BY <3>2, <3>3
  <2>2. ASSUME NEW e \in Users(s, pcs) PROVE e \in Users(t, pcs)
    <3>1. PICK j \in DOMAIN s : s[j].at \in pcs /\ e = s[j].ev
      BY <2>2 DEF Users
    <3>2. j \in DOMAIN t /\ t[j] = s[j]
      BY <1>1
    <3> QED BY <3>1, <3>2 DEF Users
  <2>3. ASSUME x.at \in pcs PROVE x.ev \in Users(t, pcs)
    <3>1. Len(s) + 1 \in DOMAIN t
      BY <1>1
    <3> QED BY <2>3, <3>1, <1>1 DEF Users
  <2> QED BY <2>1, <2>2, <2>3
<1> QED BY <1>2 DEF t

LEMMA UsersFront ==
  ASSUME NEW s, s \in Seq(Range(s)), s # <<>>, NEW pcs
  PROVE  Users(s, pcs) = Users(Front(s), pcs)
                         \cup (IF s[Len(s)].at \in pcs THEN {s[Len(s)].ev} ELSE {})
<1> DEFINE t == Front(s)
<1>1. /\ Len(s) \in Nat \ {0}
      /\ DOMAIN s = 1 .. Len(s) /\ DOMAIN t = 1 .. (Len(s) - 1)
      /\ \A j \in 1 .. (Len(s) - 1) : t[j] = s[j]
  BY FrontFacts
<1> HIDE DEF t
<1>2. Users(s, pcs) = Users(t, pcs) \cup (IF s[Len(s)].at \in pcs THEN {s[Len(s)].ev} ELSE {})
  <2>1. ASSUME NEW e \in Users(s, pcs)
        PROVE  e \in Users(t, pcs) \cup (IF s[Len(s)].at \in pcs THEN {s[Len(s)].ev} ELSE {})
    <3>1. PICK j \in DOMAIN s : s[j].at \in pcs /\ e = s[j].ev
      BY <2>1 DEF Users
    <3>2. CASE j = Len(s)
      BY <3>1, <3>2, <1>1
    <3>3. CASE j # Len(s)
      <4>1. j \in DOMAIN t /\ t[j] = s[j]
        BY <3>3, <1>1
      <4> QED BY <3>1, <4>1 DEF Users
    <3> QED BY <3>2, <3>3
  <2>2. ASSUME NEW e \in Users(t, pcs) PROVE e \in Users(s, pcs)
    <3>1. PICK j \in DOMAIN t : t[j].at \in pcs /\ e = t[j].ev
      BY <2>2 DEF Users
    <3>2. j \in DOMAIN s /\ t[j] = s[j]
      BY <1>1
    <3> QED BY <3>1, <3>2 DEF Users
  <2>3. ASSUME s[Len(s)].at \in pcs PROVE s[Len(s)].ev \in Users(s, pcs)
    <3>1. Len(s) \in DOMAIN s
      BY <1>1
    <3> QED BY <2>3, <3>1 DEF Users
  <2> QED BY <2>1, <2>2, <2>3
<1> QED BY <1>2 DEF t

\* The TPL of a frame is a TPL.
LEMMA FloorType ==
  ASSUME NEW s, StackOK(s), NEW j \in 1 .. Len(s)
  PROVE  Floor(s, j) \in Tpls
<1>1. FrameOK(s[j]) /\ Len(s) \in Nat /\ (s[j].at = "app" <=> j = 1)
  BY DEF StackOK
<1>2. CASE s[j].at \in CallPcs
  <2>1. j \in 2 .. Len(s)
    BY <1>1, <1>2 DEF CallPcs
  <2>2. s[j - 1].at \in CodePcs
    BY <1>2, <2>1 DEF StackOK, Fits
  <2>3. FrameOK(s[j - 1])
    BY <2>1 DEF StackOK
  <2> QED BY <1>2, <2>2, <2>3 DEF Floor, FrameOK, CallPcs, CodePcs
<1>3. CASE s[j].at \notin CallPcs
  BY <1>1, <1>3 DEF Floor, FrameOK, CodePcs, CallPcs, LockPcs, Restoring, Pcs, Tpls, NotifyTpls
<1> QED BY <1>2, <1>3

\* A frame that fits is pushed.
LEMMA PushOK ==
  ASSUME NEW s, StackOK(s), NEW x, FrameOK(x), x.at # "app",
         Fits(x, s[Len(s)], Floor(s, Len(s)))
  PROVE  /\ StackOK(Append(s, x))
         /\ \A j \in 1 .. Len(s) : Floor(Append(s, x), j) = Floor(s, j)
         /\ Append(s, x)[Len(Append(s, x))] = x
         /\ x.at \in CallPcs => Floor(Append(s, x), Len(Append(s, x))) = Floor(s, Len(s))
<1> DEFINE t == Append(s, x)
           n == Len(s)
<1>1. /\ t \in Seq(Range(t)) /\ t # <<>>
      /\ n \in Nat /\ n # 0 /\ Len(t) = n + 1
      /\ \A j \in 1 .. n : t[j] = s[j]
      /\ t[n + 1] = x
  <2>1. s \in Seq(Range(s)) /\ s # <<>>
    BY DEF StackOK
  <2>2. n # 0
    BY <2>1, EmptySeq
  <2> QED BY <2>1, <2>2, AppendFacts
<1>2. s[1].at = "app" /\ n \in 1 .. n
  BY <1>1 DEF StackOK
<1> HIDE DEF t
<1>3. ASSUME NEW j \in 1 .. n PROVE Floor(t, j) = Floor(s, j)
  <2>1. t[j] = s[j]
    BY <1>1
  <2>2. CASE j = 1
    BY <1>2, <2>1, <2>2 DEF Floor, CodePcs
  <2>3. CASE j # 1
    <3>1. j - 1 \in 1 .. n
      BY <1>1, <2>3
    <3>2. t[j - 1] = s[j - 1]
      BY <1>1, <3>1
    <3> QED BY <2>1, <3>2 DEF Floor
  <2> QED BY <2>2, <2>3
<1>4. \A j \in 1 .. (n + 1) : FrameOK(t[j]) /\ (t[j].at = "app" <=> j = 1)
  <2> TAKE j \in 1 .. (n + 1)
  <2>1. CASE j = n + 1
    BY <1>1, <2>1
  <2>2. CASE j # n + 1
    <3>1. j \in 1 .. n
      BY <1>1, <2>2
    <3> QED BY <1>1, <3>1 DEF StackOK
  <2> QED BY <2>1, <2>2
<1>5. \A j \in 2 .. (n + 1) : Fits(t[j], t[j - 1], Floor(t, j - 1))
  <2> TAKE j \in 2 .. (n + 1)
  <2>0. j - 1 \in 1 .. n
    BY <1>1
  <2>1. t[j - 1] = s[j - 1] /\ Floor(t, j - 1) = Floor(s, j - 1)
    BY <1>1, <1>3, <2>0
  <2>2. CASE j = n + 1
    <3>1. j - 1 = n
      BY <1>1, <2>2
    <3> QED BY <1>1, <2>1, <2>2, <3>1
  <2>3. CASE j # n + 1
    <3>1. j \in 2 .. n /\ j \in 1 .. n
      BY <1>1, <2>3
    <3> QED BY <1>1, <2>1, <3>1 DEF StackOK
  <2> QED BY <2>2, <2>3
<1>6. Floor(s, n) \in Tpls
  BY <1>2, FloorType
<1>7. /\ Floor(s, n) <= Floor(t, n + 1)
      /\ x.at = "dispatch" => Floor(s, n) < Floor(t, n + 1)
      /\ x.at \in CallPcs => Floor(t, n + 1) = Floor(s, n)
  <2>1. t[n + 1] = x /\ t[(n + 1) - 1] = s[n]
    BY <1>1, <1>2
  <2>2. Floor(s, n) \in Nat
    BY <1>6 DEF Tpls, NotifyTpls, Application, HighLevel, Callback, Notify, TimerTpl
  <2>3. CASE x.at \in CallPcs
    <3>1. s[n].at \in CodePcs
      BY <2>3 DEF Fits
    <3>2. Floor(s, n) = s[n].level
      BY <3>1 DEF Floor
    <3>3. Floor(t, n + 1) = s[n].level
      BY <2>1, <2>3 DEF Floor, CallPcs, CodePcs
    <3> QED BY <2>2, <2>3, <3>2, <3>3 DEF CallPcs
  <2>4. CASE x.at \in LockPcs
    <3>1. Floor(t, n + 1) = TimerTpl
      BY <2>1, <2>4 DEF Floor, CallPcs, CodePcs, LockPcs
    <3>2. Floor(s, n) <= TimerTpl
      <4>1. CASE x.at = "rearm"
        <5>1. s[n].at = "checkTimers"
          BY <4>1 DEF Fits
        <5> QED BY <5>1 DEF Floor, CallPcs, CodePcs, LockPcs, TimerTpl, HighLevel
      <4>2. CASE x.at = "checkTimers"
        BY <4>2 DEF Fits, TimerTpl, HighLevel
      <4>3. CASE x.at = "arm"
        BY <2>2, <4>3 DEF Fits, TimerTpl, HighLevel, Notify
      <4> QED BY <2>4, <4>1, <4>2, <4>3 DEF LockPcs
    <3> QED BY <2>4, <3>1, <3>2 DEF LockPcs, CallPcs
  <2>5. CASE x.at \in {"notify", "raised"}
    <3>1. Floor(t, n + 1) = x.level
      BY <2>1, <2>5 DEF Floor, CodePcs
    <3>2. x.level \in Nat
      BY <2>5 DEF FrameOK, CodePcs, Tpls, NotifyTpls, Application, HighLevel, Callback, Notify, TimerTpl
    <3>3. Floor(s, n) <= x.level
      BY <2>2, <2>5, <3>2 DEF Fits
    <3> QED BY <2>5, <3>1, <3>3 DEF CallPcs
  <2>6. CASE x.at \in {"restore", "lower", "dispatch"}
    <3>1. Floor(t, n + 1) = x.tpl
      BY <2>1, <2>6 DEF Floor, CodePcs, CallPcs, LockPcs
    <3>2. x.tpl \in Nat
      BY <2>6 DEF FrameOK, Restoring, Tpls, NotifyTpls, Application, HighLevel, Callback, Notify, TimerTpl
    <3>3. x.at = "dispatch" => Floor(s, n) < x.tpl
      BY DEF Fits
    <3>4. x.at \in Restoring => Floor(s, n) <= x.tpl
      BY <2>2 DEF Fits
    <3> QED BY <2>2, <2>6, <3>1, <3>2, <3>3, <3>4 DEF CallPcs, Restoring
  <2> QED BY <2>3, <2>4, <2>5, <2>6 DEF FrameOK, Pcs, CallPcs, LockPcs
<1>8. ASSUME NEW i \in 1 .. (n + 1), NEW j \in 1 .. (n + 1), i < j
      PROVE  /\ Floor(t, i) <= Floor(t, j)
             /\ t[j].at = "dispatch" => Floor(t, i) < Floor(t, j)
  <2>0. i \in 1 .. n
    BY <1>1, <1>8
  <2>1. CASE j # n + 1
    <3>1. j \in 1 .. n
      BY <1>1, <2>1
    <3>2. Floor(t, i) = Floor(s, i) /\ Floor(t, j) = Floor(s, j) /\ t[j] = s[j]
      BY <1>1, <1>3, <2>0, <3>1
    <3> QED BY <1>8, <2>0, <3>1, <3>2 DEF StackOK
  <2>2. CASE j = n + 1
    <3>1. Floor(t, i) = Floor(s, i) /\ t[j] = x
      BY <1>1, <1>3, <2>0, <2>2
    <3>2. Floor(s, i) <= Floor(s, n)
      <4>1. CASE i = n
        BY <4>1, <1>6 DEF Tpls, NotifyTpls, Application, HighLevel, Callback, Notify, TimerTpl
      <4>2. CASE i # n
        <5>1. i < n
          BY <1>1, <2>0, <4>2
        <5> QED BY <1>2, <2>0, <5>1 DEF StackOK
      <4> QED BY <4>1, <4>2
    <3>3. Floor(s, i) \in Tpls
      BY <2>0, FloorType
    <3>4. Floor(s, i) \in Nat /\ Floor(s, n) \in Nat
      BY <1>6, <3>3 DEF Tpls, NotifyTpls, Application, HighLevel, Callback, Notify, TimerTpl
    <3>5. Floor(t, n + 1) \in Int
      <4>1. t[n + 1] = x /\ (x.at \in CallPcs => Floor(t, n + 1) = Floor(s, n))
        BY <1>1, <1>7
      <4>2. x.at \notin CallPcs => Floor(t, n + 1) \in Tpls
        BY <4>1 DEF Floor, FrameOK, CodePcs, CallPcs, LockPcs, Restoring, Pcs, Tpls, NotifyTpls
      <4> QED BY <3>4, <4>1, <4>2 DEF Tpls, NotifyTpls, Application, HighLevel, Callback, Notify, TimerTpl
    <3> QED BY <1>7, <2>2, <3>1, <3>2, <3>4, <3>5
  <2> QED BY <2>1, <2>2
<1>9. StackOK(t)
  <2>1. \A i, j \in 1 .. (n + 1) : i < j =>
          /\ Floor(t, i) <= Floor(t, j)
          /\ t[j].at = "dispatch" => Floor(t, i) < Floor(t, j)
    BY <1>8
  <2> QED BY <1>1, <1>4, <1>5, <2>1 DEF StackOK
<1> QED BY <1>1, <1>3, <1>7, <1>9 DEF t

\* The last frame is popped.
LEMMA PopOK ==
  ASSUME NEW s, StackOK(s), s[Len(s)].at # "app"
  PROVE  /\ StackOK(Front(s)) /\ Len(Front(s)) = Len(s) - 1 /\ Len(s) - 1 \in 1 .. Len(s)
         /\ \A j \in 1 .. (Len(s) - 1) : Front(s)[j] = s[j] /\ Floor(Front(s), j) = Floor(s, j)
         /\ Fits(s[Len(s)], Front(s)[Len(Front(s))], Floor(Front(s), Len(Front(s))))
<1> DEFINE t == Front(s)
           n == Len(s)
<1>1. /\ t \in Seq(Range(t))
      /\ n \in Nat \ {0} /\ Len(t) = n - 1
      /\ DOMAIN t = 1 .. (n - 1)
      /\ \A j \in 1 .. (n - 1) : t[j] = s[j]
  BY FrontFacts DEF StackOK
<1>2. s[1].at = "app" /\ n # 1
  BY <1>1 DEF StackOK
<1>3. n - 1 \in 1 .. n /\ n - 1 \in 1 .. (n - 1) /\ n \in 2 .. n
  BY <1>1, <1>2
<1> HIDE DEF t
<1>4. ASSUME NEW j \in 1 .. (n - 1) PROVE Floor(t, j) = Floor(s, j)
  <2>1. t[j] = s[j]
    BY <1>1
  <2>2. CASE j = 1
    BY <1>2, <2>1, <2>2 DEF Floor, CodePcs
  <2>3. CASE j # 1
    <3>1. j - 1 \in 1 .. (n - 1)
      BY <1>1, <2>3
    <3>2. t[j - 1] = s[j - 1]
      BY <1>1, <3>1
    <3> QED BY <2>1, <3>2 DEF Floor
  <2> QED BY <2>2, <2>3
<1>5. t # <<>>
  BY <1>1, <1>3
<1>6. \A j \in 1 .. (n - 1) : j \in 1 .. n
  BY <1>1
<1>7. \A j \in 1 .. (n - 1) : FrameOK(t[j]) /\ (t[j].at = "app" <=> j = 1)
  BY <1>1, <1>6 DEF StackOK
<1>8. \A j \in 2 .. (n - 1) : Fits(t[j], t[j - 1], Floor(t, j - 1))
  <2> TAKE j \in 2 .. (n - 1)
  <2>1. j \in 2 .. n /\ j \in 1 .. (n - 1) /\ j - 1 \in 1 .. (n - 1)
    BY <1>1
  <2> QED BY <1>1, <1>4, <2>1 DEF StackOK
<1>9. \A i, j \in 1 .. (n - 1) : i < j =>
        /\ Floor(t, i) <= Floor(t, j)
        /\ t[j].at = "dispatch" => Floor(t, i) < Floor(t, j)
  BY <1>1, <1>4, <1>6 DEF StackOK
<1>10. StackOK(t)
  BY <1>1, <1>5, <1>7, <1>8, <1>9 DEF StackOK
<1>11. Fits(s[n], t[n - 1], Floor(t, n - 1))
  BY <1>1, <1>3, <1>4 DEF StackOK
<1> QED BY <1>1, <1>3, <1>4, <1>10, <1>11 DEF t

\* The RestoreTpl at the end of a section under a lock is pushed.
LEMMA RestoreOK ==
  ASSUME NEW s, StackOK(s), NEW t \in Tpls, RunsAt(s, t), NEW u \in Tpls, t <= u
  PROVE  StackOK(Append(s, Restore(t))) /\ RunsAt(Append(s, Restore(t)), u)
<1> DEFINE x == Restore(t)
<1>1. x.at = "restore" /\ x.tpl = t
  BY DEF Restore
<1> HIDE DEF x
<1>2. FrameOK(x)
  BY <1>1 DEF FrameOK, Pcs, CodePcs, Restoring
<1>3. Fits(x, s[Len(s)], Floor(s, Len(s)))
  <2>1. s[Len(s)].at \in Restoring => Floor(s, Len(s)) = s[Len(s)].tpl
    BY DEF Floor, Restoring, CodePcs, CallPcs, LockPcs
  <2>2. IF s[Len(s)].at \in Restoring THEN Floor(s, Len(s)) <= t ELSE t = Floor(s, Len(s))
    BY <2>1 DEF RunsAt
  <2> QED BY <1>1, <2>2 DEF Fits, Restoring, CallPcs
<1>4. StackOK(Append(s, x)) /\ Append(s, x)[Len(Append(s, x))] = x
  BY <1>1, <1>2, <1>3, PushOK
<1>5. RunsAt(Append(s, x), u)
  BY <1>1, <1>4 DEF RunsAt, Restoring
<1> QED BY <1>4, <1>5 DEF x

\* The TPLs are small numbers.
LEMMA TplFacts ==
  /\ Tpls = {4, 8, 16, 30, 31} /\ NotifyTpls = {8, 16, 30}
  /\ Application = 4 /\ Callback = 8 /\ Notify = 16 /\ TimerTpl = 30 /\ HighLevel = 31
BY DEF Tpls, NotifyTpls, Application, HighLevel, Callback, Notify, TimerTpl

\* The highest pending level.
LEMMA MaxPending ==
  ASSUME NEW P \in SUBSET NotifyTpls, P # {}
  PROVE  Max(P) \in P /\ \A p \in P : p <= Max(P)
<1>1. P \subseteq {8, 16, 30}
  BY TplFacts
<1>2. \E x \in P : \A y \in P : x >= y
  <2>1. CASE 30 \in P
    BY <1>1, <2>1
  <2>2. CASE 30 \notin P /\ 16 \in P
    BY <1>1, <2>2
  <2>3. CASE 30 \notin P /\ 16 \notin P
    <3>1. 8 \in P /\ \A y \in P : y = 8
      BY <1>1, <2>3
    <3> QED BY <3>1
  <2> QED BY <2>1, <2>2, <2>3
<1>3. Max(P) \in P /\ \A y \in P : Max(P) >= y
  BY <1>2 DEF Max
<1> QED BY <1>1, <1>3

\* What is under the frame of a call, of a notification or of the dispatch loop
\* goes on at the same TPL.
LEMMA PopRuns ==
  ASSUME NEW s, StackOK(s), NEW t \in Tpls, RunsAt(s, t),
         s[Len(s)].at \in {"notify", "dispatch", "checkTimers", "rearm"} \cup CallPcs
  PROVE  StackOK(Front(s)) /\ RunsAt(Front(s), t)
<1> DEFINE f == s[Len(s)]
           p == Front(s)[Len(Front(s))]
           fl == Floor(Front(s), Len(Front(s)))
<1>0. f.at # "app"
  BY DEF CallPcs
<1>1. StackOK(Front(s)) /\ Fits(f, p, fl)
  BY <1>0, PopOK
<1>2. t = Floor(s, Len(s)) /\ f.at \notin Restoring
  BY DEF RunsAt, Restoring, CallPcs
<1>3. Len(s) - 1 \in 1 .. (Len(s) - 1) /\ p = s[Len(s) - 1]
  <2>1. Len(Front(s)) = Len(s) - 1 /\ Len(s) - 1 \in 1 .. Len(s)
        /\ \A j \in 1 .. (Len(s) - 1) : Front(s)[j] = s[j]
    BY <1>0, PopOK
  <2>2. Len(s) - 1 \in 1 .. (Len(s) - 1)
    BY <2>1
  <2> QED BY <2>1, <2>2
<1> HIDE DEF p
<1>4. fl = IF p.at \in CodePcs THEN p.level
           ELSE IF p.at \in CallPcs THEN Front(s)[Len(Front(s)) - 1].level
           ELSE IF p.at \in LockPcs THEN TimerTpl ELSE p.tpl
  BY DEF Floor, p
<1>5. CASE f.at \in CallPcs
  <2>1. p.at \in CodePcs /\ t = p.level
    BY <1>1, <1>2, <1>3, <1>5 DEF Fits, Floor, CallPcs, CodePcs
  <2> QED BY <1>1, <1>4, <2>1 DEF RunsAt, p, CodePcs, Restoring
<1>6. CASE f.at = "notify"
  <2>1. p.at = "dispatch" /\ t = f.level /\ fl = f.level
    BY <1>1, <1>2, <1>6 DEF Fits, Floor, CodePcs
  <2> QED BY <1>1, <2>1 DEF RunsAt, p, Restoring
<1>7. CASE f.at = "dispatch"
  <2>1. p.at = "restore" /\ t = f.tpl /\ fl < f.tpl
    BY <1>1, <1>2, <1>7 DEF Fits, Floor, CodePcs, CallPcs, LockPcs
  <2>2. fl = p.tpl
    BY <1>4, <2>1 DEF CodePcs, CallPcs, LockPcs
  <2>3. p.tpl \in Tpls
    <3>1. Len(Front(s)) \in 1 .. Len(Front(s))
      BY <1>0, <1>3, PopOK
    <3>2. fl \in Tpls
      BY <1>1, <3>1, FloorType
    <3> QED BY <2>2, <3>2
  <2>4. p.tpl <= t
    BY <2>1, <2>2, <2>3, TplFacts
  <2> QED BY <1>1, <2>1, <2>4 DEF RunsAt, p, Restoring
<1>8. CASE f.at = "checkTimers"
  <2>1. p.at = "dispatch" /\ t = TimerTpl /\ fl = TimerTpl
    BY <1>1, <1>2, <1>8 DEF Fits, Floor, CodePcs, CallPcs, LockPcs
  <2> QED BY <1>1, <2>1 DEF RunsAt, p, Restoring
<1>9. CASE f.at = "rearm"
  <2>1. p.at = "checkTimers" /\ t = TimerTpl
    BY <1>1, <1>2, <1>9 DEF Fits, Floor, CodePcs, CallPcs, LockPcs
  <2>2. fl = TimerTpl
    BY <1>4, <2>1 DEF CodePcs, CallPcs, LockPcs
  <2> QED BY <1>1, <2>1, <2>2 DEF RunsAt, p, Restoring
<1> QED BY <1>5, <1>6, <1>7, <1>8, <1>9

\* A service is called from code.
LEMMA CallOK ==
  ASSUME NEW s, StackOK(s), NEW t \in Tpls, RunsAt(s, t), s[Len(s)].at \in CodePcs,
         NEW x, FrameOK(x), x.at \in CallPcs
  PROVE  StackOK(Append(s, x)) /\ RunsAt(Append(s, x), t)
<1>1. Fits(x, s[Len(s)], Floor(s, Len(s))) /\ x.at # "app"
  BY DEF Fits, CallPcs, Restoring
<1>2. /\ StackOK(Append(s, x))
      /\ Append(s, x)[Len(Append(s, x))] = x
      /\ Floor(Append(s, x), Len(Append(s, x))) = Floor(s, Len(s))
  BY <1>1, PushOK
<1>3. t = Floor(s, Len(s))
  BY DEF RunsAt, CodePcs, Restoring
<1> QED BY <1>2, <1>3 DEF RunsAt, CallPcs, Restoring

\* The two ways in which most steps end.
LEMMA LockedStep ==
  ASSUME NEW fs, StackOK(fs), RunsAt(fs, tpl), tpl \in Tpls, Locked(fs)
  PROVE  CpuInv'
<1>1. HighLevel \in Tpls /\ tpl <= HighLevel
  BY TplFacts
<1>2. StackOK(Append(fs, Restore(tpl))) /\ RunsAt(Append(fs, Restore(tpl)), HighLevel)
  BY <1>1, RestoreOK
<1>3. tpl' = HighLevel /\ intr' = FALSE /\ stack' = Append(fs, Restore(tpl))
  BY DEF Locked
<1> QED BY <1>1, <1>2, <1>3 DEF CpuInv

LEMMA ContinueStep ==
  ASSUME NEW fs, CpuInv, StackOK(fs), RunsAt(fs, tpl), Continue(fs)
  PROVE  CpuInv'
BY DEF CpuInv, Continue
------------------------------------------------------------------------------
(***************************************************************************)
(* The stack is in order                                                   *)
(***************************************************************************)
\* The actions that change the stack, by the way they do it.
LEMMA CpuStep ==
  ASSUME CpuInv, DataInv, Next
  PROVE  CpuInv'
<1> USE DxeEventAssumption
<1> DEFINE n == Len(stack)
<1>0. /\ StackOK(stack) /\ RunsAt(stack, tpl) /\ tpl \in Tpls /\ intr \in BOOLEAN
      /\ intr => tpl <= TimerTpl
      /\ stack \in Seq(Range(stack)) /\ n \in Nat \ {0} /\ n \in 1 .. n
      /\ FrameOK(stack[n]) /\ Top = stack[n]
  <2>1. stack \in Seq(Range(stack)) /\ stack # <<>>
    BY DEF CpuInv, StackOK
  <2>2. n \in Nat \ {0}
    BY <2>1, FrontFacts
  <2>3. FrameOK(stack[n])
    BY <2>2 DEF CpuInv, StackOK
  <2> QED BY <2>1, <2>2, <2>3 DEF CpuInv, Top, Last
<1>1. ASSUME stack[n].at # "app"
      PROVE  /\ StackOK(Under)
             /\ Fits(stack[n], Under[Len(Under)], Floor(Under, Len(Under)))
             /\ Floor(Under, Len(Under)) \in Tpls
  <2>1. StackOK(Under) /\ Fits(stack[n], Under[Len(Under)], Floor(Under, Len(Under)))
        /\ Len(Under) = n - 1 /\ n - 1 \in 1 .. n
    BY <1>0, <1>1, PopOK DEF Under
  <2>2. Len(Under) \in 1 .. Len(Under)
    BY <2>1
  <2> QED BY <2>1, <2>2, FloorType
<1>2. ASSUME NEW service, MayCall(service)
      PROVE  stack[n].at \in CodePcs /\ tpl = stack[n].level /\ stack[n].ev # CheckTimerEvent
  BY <1>0, <1>2 DEF MayCall, Running, CodePcs, RunsAt, Restoring, Floor
<1> HIDE DEF n
\* Services that take a lock or start a call.
<1>3. ASSUME NEW e \in Events, CreateEvent(e) PROVE CpuInv'
  BY <1>0, <1>3, LockedStep DEF CreateEvent
<1>4. ASSUME NEW e \in Events, SignalEvent(e) PROVE CpuInv'
  <2>1. CASE Locked(stack)
    BY <1>0, <2>1, LockedStep
  <2>2. CASE Locked(Append(stack, Call("signalGroup", e)))
    <3> DEFINE x == Call("signalGroup", e)
    <3>1. x.at = "signalGroup" /\ x.ev = e
      BY DEF Call
    <3> HIDE DEF x
    <3>2. FrameOK(x) /\ x.at \in CallPcs
      BY <3>1 DEF FrameOK, Pcs, CodePcs, Restoring, CallPcs
    <3>3. StackOK(Append(stack, x)) /\ RunsAt(Append(stack, x), tpl)
      BY <1>0, <1>2, <1>4, <3>2, CallOK DEF n, SignalEvent
    <3> QED BY <1>0, <2>2, <3>3, LockedStep DEF x
  <2> QED BY <1>4, <2>1, <2>2 DEF SignalEvent
\* Services under the lock of the timer list.
<1>5. ASSUME NEW fs, StackOK(fs), RunsAt(fs, tpl), tpl <= Notify,
             NEW e, CancelTimer(e, Append(fs, Restore(tpl)))
      PROVE  CpuInv'
  <2>1. TimerTpl \in Tpls /\ tpl <= TimerTpl
    BY <1>0, <1>5, TplFacts
  <2>2. StackOK(Append(fs, Restore(tpl))) /\ RunsAt(Append(fs, Restore(tpl)), TimerTpl)
    BY <1>0, <1>5, <2>1, RestoreOK
  <2>3. tpl' = TimerTpl /\ intr' = intr /\ stack' = Append(fs, Restore(tpl))
    BY <1>5 DEF CancelTimer
  <2>4. tpl' <= TimerTpl
    BY <2>3, TplFacts
  <2> QED BY <1>0, <2>1, <2>2, <2>3, <2>4 DEF CpuInv
<1>6. ASSUME NEW e \in Events, SetTimerCancel(e) PROVE CpuInv'
  BY <1>0, <1>5, <1>6 DEF SetTimerCancel
<1>7. ASSUME NEW e \in Events, NEW repeat \in BOOLEAN, NEW d \in Delays, SetTimer(e, repeat, d)
      PROVE  CpuInv'
  <2> DEFINE dd == IF repeat /\ d = 0 THEN 1 ELSE d
             x == Arm(e, repeat, dd)
  <2>1. x.at = "arm" /\ x.ev = e /\ x.delay = dd /\ x.time = now /\ x.tpl = tpl
    BY DEF Arm
  <2>2. /\ tpl' = TimerTpl /\ intr' = intr /\ stack' = Append(stack, x)
        /\ tpl <= Notify /\ e \in TimerEvents
    BY <1>7 DEF SetTimer, CancelTimer
  <2>3. stack[n].at \in CodePcs /\ tpl = stack[n].level
    BY <1>2, <1>7 DEF SetTimer
  <2>4. dd \in Nat /\ now \in Nat
    BY DEF DataInv, NoticesInv, ClockInv
  <2> HIDE DEF x, dd
  <2>5. FrameOK(x)
    BY <1>0, <2>1, <2>2, <2>4 DEF FrameOK, Pcs, CodePcs, Restoring
  <2>6. Floor(stack, n) = tpl
    BY <2>3 DEF Floor
  <2>7. Fits(x, stack[n], Floor(stack, n))
    BY <2>1, <2>2, <2>3, <2>6 DEF Fits, Restoring, CallPcs
  <2>8. StackOK(stack') /\ stack'[Len(stack')] = x
    BY <1>0, <2>1, <2>2, <2>5, <2>7, PushOK DEF n
  <2>9. RunsAt(stack', TimerTpl)
    BY <2>1, <2>8 DEF RunsAt, Floor, Restoring, CodePcs, CallPcs, LockPcs
  <2>10. tpl' \in Tpls /\ tpl' <= TimerTpl
    BY <2>2, TplFacts
  <2> QED BY <1>0, <2>2, <2>8, <2>9, <2>10 DEF CpuInv
<1>8. ASSUME NEW e \in Events, NEW x, FrameOK(x), x.at \in CallPcs, stack[n].at \in CodePcs
      PROVE  StackOK(Append(stack, x)) /\ RunsAt(Append(stack, x), tpl)
  BY <1>0, <1>8, CallOK DEF n
<1>9. ASSUME NEW e \in Events, CloseEvent(e) PROVE CpuInv'
  <2> DEFINE x == Call("unlink", e)
  <2>1. x.at = "unlink" /\ x.ev = e
    BY DEF Call
  <2>2. FrameOK(x) /\ x.at \in CallPcs
    <3> HIDE DEF x
    <3> QED BY <2>1 DEF FrameOK, Pcs, CodePcs, Restoring, CallPcs
  <2>3. stack[n].at \in CodePcs /\ tpl <= Notify
    BY <1>2, <1>9 DEF CloseEvent
  <2>4. CancelTimer(e, Append(Append(stack, x), Restore(tpl))) \/ Continue(Append(stack, x))
    BY <1>9 DEF CloseEvent
  <2> HIDE DEF x
  <2>5. StackOK(Append(stack, x)) /\ RunsAt(Append(stack, x), tpl)
    BY <1>8, <2>2, <2>3
  <2>6. CASE CancelTimer(e, Append(Append(stack, x), Restore(tpl)))
    BY <1>5, <2>3, <2>5, <2>6
  <2>7. CASE Continue(Append(stack, x))
    BY <2>5, <2>7, ContinueStep
  <2> QED BY <2>4, <2>6, <2>7
<1>10. ASSUME NEW e \in Events, CheckEvent(e) PROVE CpuInv'
  <2> DEFINE x == Poll(<<e>>, 1, FALSE)
  <2>1. x.at = "poll" /\ x.evs = <<e>> /\ x.i = 1
    BY DEF Poll
  <2>2. <<e>> \in Seq(Events) /\ 1 \in 1 .. Len(<<e>>)
    OBVIOUS
  <2>3. stack[n].at \in CodePcs /\ Continue(Append(stack, x))
    BY <1>2, <1>10 DEF CheckEvent
  <2> HIDE DEF x
  <2>4. FrameOK(x) /\ x.at \in CallPcs
    BY <2>1, <2>2 DEF FrameOK, Pcs, CodePcs, Restoring, CallPcs
  <2> QED BY <1>8, <2>3, <2>4, ContinueStep
<1>11. ASSUME NEW evs \in WaitLists, WaitForEvent(evs) PROVE CpuInv'
  <2> DEFINE x == Poll(evs, 1, TRUE)
  <2>1. x.at = "poll" /\ x.evs = evs /\ x.i = 1
    BY DEF Poll
  <2>2. evs \in Seq(Events) /\ 1 \in 1 .. Len(evs)
    OBVIOUS
  <2>3. stack[n].at \in CodePcs /\ Continue(Append(stack, x))
    BY <1>2, <1>11 DEF WaitForEvent
  <2> HIDE DEF x
  <2>4. FrameOK(x) /\ x.at \in CallPcs
    BY <2>1, <2>2 DEF FrameOK, Pcs, CodePcs, Restoring, CallPcs
  <2>5. StackOK(Append(stack, x)) /\ RunsAt(Append(stack, x), tpl)
    BY <1>0, <2>3, <2>4, CallOK DEF n
  <2> QED BY <2>3, <2>5, ContinueStep
<1>12. ASSUME NEW t \in {Callback, Notify, HighLevel}, RaiseTPL(t) PROVE CpuInv'
  <2> DEFINE x == Code("raised", stack[n].ev, t, tpl)
  <2>1. x.at = "raised" /\ x.ev = stack[n].ev /\ x.level = t /\ x.tpl = tpl
    BY DEF Code
  <2>2. tpl' = t /\ intr' = (intr /\ t < HighLevel) /\ stack' = Append(stack, x) /\ tpl < t
    BY <1>0, <1>12 DEF RaiseTPL
  <2>3. stack[n].at \in CodePcs /\ tpl = stack[n].level
    BY <1>2, <1>12 DEF RaiseTPL
  <2> HIDE DEF x
  <2>4. t \in Tpls /\ (intr' => t <= TimerTpl)
    <3>1. t \in Tpls /\ (t < HighLevel => t <= TimerTpl)
      BY TplFacts
    <3>2. intr' => t < HighLevel
      BY <2>2
    <3> QED BY <3>1, <3>2
  <2>5. FrameOK(x)
    BY <1>0, <2>1, <2>3, <2>4 DEF FrameOK, Pcs, CodePcs, Restoring
  <2>6. Fits(x, stack[n], Floor(stack, n))
    BY <2>1, <2>2, <2>3 DEF Fits, Floor, Restoring, CallPcs
  <2>7. StackOK(stack') /\ stack'[Len(stack')] = x
    BY <1>0, <2>1, <2>2, <2>5, <2>6, PushOK DEF n
  <2>8. RunsAt(stack', t)
    BY <2>1, <2>7 DEF RunsAt, Floor, Restoring, CodePcs
  <2> QED BY <1>0, <2>2, <2>4, <2>7, <2>8 DEF CpuInv
\* RestoreTpl and the dispatch loop.
<1>13. CASE RestoreTplDispatch
  <2> DEFINE m == Max(pending)
             x == Dispatch(m)
  <2>1. x.at = "dispatch" /\ x.tpl = m
    BY DEF Dispatch
  <2>2. /\ stack[n].at = "restore" /\ Unmasked(stack[n].tpl) # {}
        /\ tpl' = m /\ intr' = TRUE /\ stack' = Append(stack, x)
    BY <1>0, <1>13 DEF RestoreTplDispatch, At
  <2>3. pending \in SUBSET NotifyTpls /\ pending # {}
    BY <2>2 DEF DataInv, NoticesInv, ClockInv, Unmasked
  <2>4. m \in pending /\ \A p \in pending : p <= m
    BY <2>3, MaxPending
  <2> HIDE DEF m, x
  <2>5. m \in NotifyTpls /\ m \in Tpls /\ m <= TimerTpl
    BY <2>3, <2>4, TplFacts
  <2>6. stack[n].tpl < m
    <3>1. stack[n].tpl \in Tpls
      BY <1>0, <2>2 DEF FrameOK, Restoring
    <3>2. PICK p \in pending : p > stack[n].tpl
      BY <2>2 DEF Unmasked
    <3> QED BY <2>3, <2>4, <2>5, <3>1, <3>2, TplFacts
  <2>7. FrameOK(x)
    BY <2>1, <2>5 DEF FrameOK, Pcs, CodePcs, Restoring
  <2>8. Fits(x, stack[n], Floor(stack, n))
    BY <2>1, <2>2, <2>6 DEF Fits, Floor, Restoring, CodePcs, CallPcs, LockPcs
  <2>9. StackOK(stack') /\ stack'[Len(stack')] = x
    BY <1>0, <2>1, <2>2, <2>7, <2>8, PushOK DEF n
  <2>10. RunsAt(stack', m)
    BY <2>1, <2>9 DEF RunsAt, Floor, Restoring, CodePcs, CallPcs, LockPcs
  <2> QED BY <2>2, <2>5, <2>9, <2>10 DEF CpuInv
<1>14. CASE RestoreTplNoMore
  <2> DEFINE x == Lower(stack[n].tpl)
  <2>1. x.at = "lower" /\ x.tpl = stack[n].tpl
    BY DEF Lower
  <2>2. stack[n].at = "restore" /\ Continue(Append(Under, x))
    BY <1>0, <1>14 DEF RestoreTplNoMore, At
  <2> HIDE DEF x
  <2>3. StackOK(Under) /\ Fits(stack[n], Under[Len(Under)], Floor(Under, Len(Under)))
    BY <1>1, <2>2
  <2>4. FrameOK(x)
    BY <1>0, <2>1, <2>2 DEF FrameOK, Pcs, CodePcs, Restoring
  <2>5. Fits(x, Under[Len(Under)], Floor(Under, Len(Under)))
    BY <2>1, <2>2, <2>3 DEF Fits, Restoring, CallPcs
  <2>6. StackOK(Append(Under, x)) /\ Append(Under, x)[Len(Append(Under, x))] = x
    BY <2>1, <2>3, <2>4, <2>5, PushOK
  <2>7. RunsAt(Append(Under, x), tpl)
    BY <1>0, <2>1, <2>2, <2>6 DEF RunsAt, Restoring, n
  <2> QED BY <2>2, <2>6, <2>7, ContinueStep
<1>15. CASE RestoreTplLower
  <2>1. /\ stack[n].at = "lower" /\ tpl' = stack[n].tpl /\ stack' = Under
        /\ intr' = (intr \/ stack[n].tpl < HighLevel)
    BY <1>0, <1>15 DEF RestoreTplLower, At
  <2>2. StackOK(Under) /\ Fits(stack[n], Under[Len(Under)], Floor(Under, Len(Under)))
    BY <1>1, <2>1
  <2>3. stack[n].tpl \in Tpls /\ stack[n].tpl <= tpl
    BY <1>0, <2>1 DEF FrameOK, RunsAt, Restoring, n
  <2>4. intr' => tpl' <= TimerTpl
    BY <1>0, <2>1, <2>3, TplFacts
  <2>5. RunsAt(Under, stack[n].tpl)
    <3> DEFINE p == Under[Len(Under)]
    <3>1. IF p.at \in Restoring THEN Floor(Under, Len(Under)) <= stack[n].tpl
          ELSE stack[n].tpl = Floor(Under, Len(Under))
      BY <2>1, <2>2 DEF Fits, Restoring
    <3>2. p.at \in Restoring => Floor(Under, Len(Under)) = p.tpl
      BY DEF Floor, Restoring, CodePcs, CallPcs, LockPcs
    <3> QED BY <3>1, <3>2 DEF RunsAt
  <2>6. intr' \in BOOLEAN
    BY <1>0, <2>1
  <2> QED BY <2>1, <2>2, <2>3, <2>4, <2>5, <2>6 DEF CpuInv
<1>16. CASE DispatchNext
  <2> DEFINE e == Head(queue[stack[n].tpl])
             x == Code("notify", e, stack[n].tpl, stack[n].tpl)
  <2>1. x.at = "notify" /\ x.ev = e /\ x.level = stack[n].tpl
    BY DEF Code
  <2>2. stack[n].at = "dispatch" /\ queue[stack[n].tpl] # <<>> /\ Locked(Append(stack, x))
    BY <1>0, <1>16 DEF DispatchNext, At
  <2>3. stack[n].tpl \in NotifyTpls
    BY <1>0, <2>2 DEF FrameOK
  <2>4. e \in AllEvents /\ NotifyTpl(e) = stack[n].tpl
    <3>1. queue[stack[n].tpl] \in Seq(AllEvents)
          /\ Range(queue[stack[n].tpl]) \subseteq {y \in AllEvents : NotifyTpl(y) = stack[n].tpl}
      BY <2>3 DEF DataInv, NoticesInv, ClockInv
    <3>2. e \in Range(queue[stack[n].tpl])
      BY <2>2, <3>1 DEF Range
    <3> QED BY <3>1, <3>2
  <2> HIDE DEF e, x
  <2>5. FrameOK(x)
    <3>1. stack[n].tpl \in Tpls
      BY <2>3, TplFacts
    <3> QED BY <2>1, <2>4, <3>1 DEF FrameOK, Pcs, CodePcs, Restoring
  <2>6. Floor(stack, n) = stack[n].tpl /\ tpl = stack[n].tpl
    BY <1>0, <2>2 DEF RunsAt, Floor, Restoring, CodePcs, CallPcs, LockPcs, n
  <2>7. Fits(x, stack[n], Floor(stack, n))
    BY <2>1, <2>2, <2>6 DEF Fits, Restoring, CallPcs
  <2>8. StackOK(Append(stack, x)) /\ Append(stack, x)[Len(Append(stack, x))] = x
    BY <1>0, <2>1, <2>5, <2>7, PushOK DEF n
  <2>9. RunsAt(Append(stack, x), tpl)
    BY <2>1, <2>6, <2>8 DEF RunsAt, Floor, Restoring, CodePcs
  <2> QED BY <1>0, <2>2, <2>8, <2>9, LockedStep
<1>17. ASSUME stack[n].at \in {"notify", "dispatch", "checkTimers", "rearm"} \cup CallPcs
       PROVE  StackOK(Under) /\ RunsAt(Under, tpl)
  BY <1>0, <1>17, PopRuns DEF Under, n
<1>18. CASE DispatchDone
  <2>1. stack[n].at = "dispatch" /\ Locked(Under)
    BY <1>0, <1>18 DEF DispatchDone, At
  <2> QED BY <1>0, <1>17, <2>1, LockedStep
\* CoreCheckTimers.
<1>19. CASE CheckTimersStart
  <2> DEFINE x == Checking(now)
  <2>1. x.at = "checkTimers" /\ x.time = now
    BY DEF Checking
  <2>2. stack[n].at = "notify" /\ stack[n].ev = CheckTimerEvent /\ Continue(Append(Under, x))
    BY <1>0, <1>19 DEF CheckTimersStart, At
  <2> HIDE DEF x
  <2>3. StackOK(Under) /\ Fits(stack[n], Under[Len(Under)], Floor(Under, Len(Under)))
    BY <1>1, <2>2
  <2>4. stack[n].level = TimerTpl
    BY <1>0, <2>2 DEF FrameOK, NotifyTpl
  <2>5. FrameOK(x)
    BY <2>1 DEF FrameOK, Pcs, CodePcs, Restoring, DataInv, NoticesInv, ClockInv
  <2>6. Fits(x, Under[Len(Under)], Floor(Under, Len(Under)))
    BY <2>1, <2>2, <2>3, <2>4 DEF Fits, Restoring, CallPcs
  <2>7. StackOK(Append(Under, x)) /\ Append(Under, x)[Len(Append(Under, x))] = x
    BY <2>1, <2>3, <2>5, <2>6, PushOK
  <2>8. tpl = TimerTpl
    BY <1>0, <2>2, <2>4 DEF RunsAt, Floor, Restoring, CodePcs, n
  <2>9. RunsAt(Append(Under, x), tpl)
    BY <2>1, <2>7, <2>8 DEF RunsAt, Floor, Restoring, CodePcs, CallPcs, LockPcs
  <2> QED BY <2>2, <2>7, <2>9, ContinueStep
<1>20. CASE CheckTimersFire
  <2> DEFINE e == Head(timers)
             x == Call("rearm", e)
  <2>1. x.at = "rearm" /\ x.ev = e
    BY DEF Call
  <2>2. stack[n].at = "checkTimers" /\ timers # <<>>
        /\ (Continue(stack) \/ Continue(Append(stack, x)))
    BY <1>0, <1>20 DEF CheckTimersFire, At, Expired
  <2>3. e \in TimerEvents
    BY <2>2 DEF DataInv, NoticesInv, ClockInv
  <2> HIDE DEF e, x
  <2>4. FrameOK(x)
    BY <2>1, <2>3 DEF FrameOK, Pcs, CodePcs, Restoring
  <2>5. Fits(x, stack[n], Floor(stack, n))
    BY <2>1, <2>2 DEF Fits, Restoring, CallPcs
  <2>6. StackOK(Append(stack, x)) /\ Append(stack, x)[Len(Append(stack, x))] = x
    BY <1>0, <2>1, <2>4, <2>5, PushOK DEF n
  <2>7. tpl = TimerTpl
    BY <1>0, <2>2 DEF RunsAt, Floor, Restoring, CodePcs, CallPcs, LockPcs, n
  <2>8. RunsAt(Append(stack, x), tpl)
    BY <2>1, <2>6, <2>7 DEF RunsAt, Floor, Restoring, CodePcs, CallPcs, LockPcs
  <2> QED BY <1>0, <2>2, <2>6, <2>8, ContinueStep
<1>21. CASE CheckTimersRearm
  <2>1. stack[n].at = "rearm" /\ Continue(Under)
    BY <1>0, <1>21 DEF CheckTimersRearm, At
  <2> QED BY <1>17, <2>1, ContinueStep
\* A RestoreTpl takes the place of the last frame.
<1>22. ASSUME NEW t \in Tpls, StackOK(Under), RunsAt(Under, t), t <= tpl,
              Continue(Append(Under, Restore(t)))
       PROVE  CpuInv'
  BY <1>0, <1>22, RestoreOK, ContinueStep
<1>23. CASE CheckTimersDone
  <2>1. stack[n].at = "checkTimers" /\ Continue(Append(Under, Restore(TimerTpl)))
    BY <1>0, <1>23 DEF CheckTimersDone, At
  <2>2. tpl = TimerTpl /\ TimerTpl <= tpl
    BY <1>0, <2>1, TplFacts DEF RunsAt, Floor, Restoring, CodePcs, CallPcs, LockPcs, n
  <2> QED BY <1>0, <1>17, <1>22, <2>1, <2>2
<1>24. CASE SetTimerArm
  <2>1. stack[n].at = "arm" /\ Continue(Append(Under, Restore(stack[n].tpl)))
    BY <1>0, <1>24 DEF SetTimerArm, At
  <2>2. StackOK(Under) /\ Fits(stack[n], Under[Len(Under)], Floor(Under, Len(Under)))
    BY <1>1, <2>1
  <2>3. /\ Under[Len(Under)].at \in CodePcs
        /\ stack[n].tpl = Floor(Under, Len(Under)) /\ stack[n].tpl <= Notify
    BY <2>1, <2>2 DEF Fits
  <2>4. stack[n].tpl \in Tpls /\ stack[n].tpl <= tpl
    <3>1. stack[n].tpl \in Tpls
      BY <1>0, <2>1 DEF FrameOK
    <3>2. tpl = TimerTpl
      BY <1>0, <2>1 DEF RunsAt, Floor, Restoring, CodePcs, CallPcs, LockPcs, n
    <3> QED BY <2>3, <3>1, <3>2, TplFacts
  <2>5. RunsAt(Under, stack[n].tpl)
    BY <2>3 DEF RunsAt, CodePcs, Restoring
  <2> QED BY <1>22, <2>1, <2>2, <2>4, <2>5
<1>25. CASE RestoreTPL
  <2>1. stack[n].at = "raised" /\ Continue(Append(Under, Restore(stack[n].tpl)))
    BY <1>0, <1>25 DEF RestoreTPL, At
  <2>2. StackOK(Under) /\ Fits(stack[n], Under[Len(Under)], Floor(Under, Len(Under)))
    BY <1>1, <2>1
  <2>3. /\ Under[Len(Under)].at \in CodePcs
        /\ stack[n].tpl = Floor(Under, Len(Under)) /\ stack[n].tpl < stack[n].level
    BY <2>1, <2>2 DEF Fits
  <2>4. stack[n].tpl \in Tpls /\ stack[n].tpl <= tpl
    <3>1. stack[n].tpl \in Tpls
      BY <1>0, <2>1 DEF FrameOK
    <3>2. tpl = stack[n].level
      BY <1>0, <2>1 DEF RunsAt, Floor, Restoring, CodePcs, n
    <3> QED BY <1>0, <2>3, <3>1, <3>2, TplFacts
  <2>5. RunsAt(Under, stack[n].tpl)
    BY <2>3 DEF RunsAt, CodePcs, Restoring
  <2> QED BY <1>22, <2>1, <2>2, <2>4, <2>5
<1>26. CASE NotifyReturn
  <2>1. stack[n].at = "notify" /\ Continue(Under)
    BY <1>0, <1>26 DEF NotifyReturn, At
  <2> QED BY <1>17, <2>1, ContinueStep
\* The steps of a service.
<1>27. ASSUME stack[n].at \in CallPcs, NEW x, FrameOK(x), x.at \in CallPcs
       PROVE  StackOK(Append(Under, x)) /\ RunsAt(Append(Under, x), tpl)
  <2>1. StackOK(Under) /\ RunsAt(Under, tpl)
    BY <1>17, <1>27
  <2>2. Under[Len(Under)].at \in CodePcs
    BY <1>1, <1>27 DEF Fits, CallPcs
  <2> QED BY <1>0, <1>27, <2>1, <2>2, CallOK
<1>28. CASE NotifySignalList
  <2>1. stack[n].at \in CallPcs /\ Locked(Under)
    BY <1>0, <1>28 DEF NotifySignalList, At, CallPcs
  <2> QED BY <1>0, <1>17, <2>1, LockedStep
<1>29. CASE CloseEventUnlink
  <2> DEFINE x == Call("free", stack[n].ev)
  <2>1. x.at = "free" /\ x.ev = stack[n].ev
    BY DEF Call
  <2>2. stack[n].at = "unlink" /\ Locked(Append(Under, x))
    BY <1>0, <1>29 DEF CloseEventUnlink, At
  <2> HIDE DEF x
  <2>3. FrameOK(x) /\ x.at \in CallPcs /\ stack[n].at \in CallPcs
    BY <1>0, <2>1, <2>2 DEF FrameOK, Pcs, CodePcs, Restoring, CallPcs
  <2> QED BY <1>0, <1>27, <2>2, <2>3, LockedStep
<1>30. CASE CloseEventFree
  <2>1. stack[n].at \in CallPcs /\ Continue(Under)
    BY <1>0, <1>30 DEF CloseEventFree, At, CallPcs
  <2> QED BY <1>17, <2>1, ContinueStep
<1>31. ASSUME stack[n].at \in {"poll", "polled"}, NEW i \in 1 .. Len(stack[n].evs), NEW x,
              \/ x = Polled(stack[n].evs, i, stack[n].again)
              \/ x = Poll(stack[n].evs, i, stack[n].again)
       PROVE  StackOK(Append(Under, x)) /\ RunsAt(Append(Under, x), tpl)
  <2>1. x.at \in {"poll", "polled"} /\ x.evs = stack[n].evs /\ x.i = i
    BY <1>31 DEF Poll, Polled
  <2>2. FrameOK(x) /\ x.at \in CallPcs /\ stack[n].at \in CallPcs
    BY <1>0, <1>31, <2>1 DEF FrameOK, Pcs, CodePcs, Restoring, CallPcs
  <2> QED BY <1>27, <2>2
<1>32. CASE PollNotify
  <2> DEFINE x == Polled(stack[n].evs, stack[n].i, stack[n].again)
  <2>1. stack[n].at = "poll" /\ (Continue(Under) \/ Continue(Append(Under, x)) \/ Locked(Append(Under, x)))
    BY <1>0, <1>32 DEF PollNotify, At
  <2>2. stack[n].i \in 1 .. Len(stack[n].evs) /\ stack[n].at \in CallPcs
    BY <1>0, <2>1 DEF FrameOK, CallPcs
  <2>3. StackOK(Append(Under, x)) /\ RunsAt(Append(Under, x), tpl)
    BY <1>31, <2>1, <2>2
  <2>4. StackOK(Under) /\ RunsAt(Under, tpl)
    BY <1>17, <2>2
  <2> HIDE DEF x
  <2> QED BY <1>0, <2>1, <2>3, <2>4, ContinueStep, LockedStep
<1>33. CASE PollResult
  <2> DEFINE f == stack[n]
             x == Poll(f.evs, f.i + 1, f.again)
             y == Poll(f.evs, 1, f.again)
  <2>1. f.at = "polled" /\ \/ Locked(Under) \/ Continue(Under) \/ Continue(Append(Under, y))
                           \/ f.i < Len(f.evs) /\ Continue(Append(Under, x))
    BY <1>0, <1>33 DEF PollResult, At
  <2>2. f.i \in 1 .. Len(f.evs) /\ f.at \in CallPcs /\ f.evs \in Seq(Events)
    BY <1>0, <2>1 DEF FrameOK, CallPcs
  <2>3. 1 \in 1 .. Len(f.evs) /\ (f.i < Len(f.evs) => f.i + 1 \in 1 .. Len(f.evs))
    BY <2>2
  <2>4. StackOK(Append(Under, y)) /\ RunsAt(Append(Under, y), tpl)
    BY <1>31, <2>1, <2>3
  <2>5. f.i < Len(f.evs) => StackOK(Append(Under, x)) /\ RunsAt(Append(Under, x), tpl)
    BY <1>31, <2>1, <2>3
  <2>6. StackOK(Under) /\ RunsAt(Under, tpl)
    BY <1>17, <2>2
  <2> HIDE DEF x, y
  <2> QED BY <1>0, <2>1, <2>4, <2>5, <2>6, ContinueStep, LockedStep
<1>34. CASE TimerInterrupt
  BY <1>0, <1>34, LockedStep DEF TimerInterrupt
<1>35. CASE Services
  BY <1>3, <1>4, <1>6, <1>7, <1>9, <1>10, <1>11, <1>12, <1>35 DEF Services
<1>36. CASE Core
  BY <1>13, <1>14, <1>15, <1>16, <1>18, <1>19, <1>20, <1>21, <1>23, <1>24, <1>25, <1>26,
     <1>28, <1>29, <1>30, <1>32, <1>33, <1>36 DEF Core
<1> QED BY <1>34, <1>35, <1>36 DEF Next
------------------------------------------------------------------------------
(***************************************************************************)
(* The queues, the timer list and the list of the groups                   *)
(***************************************************************************)
LEMMA EventFacts ==
  /\ CheckTimerEvent \in AllEvents /\ CheckTimerEvent \notin Events
  /\ Events \subseteq AllEvents /\ TimerEvents \subseteq Events
  /\ \A e \in AllEvents : NotifyTpl(e) \in NotifyTpls /\ KindOf(e) \in {"signal", "wait", "none"}
  /\ \A e \in Events : KindOf(e) = Kind[e]
<1> USE DxeEventAssumption
<1>1. CheckTimerEvent \notin Events
  OBVIOUS
<1>2. ASSUME NEW e \in AllEvents
      PROVE  NotifyTpl(e) \in NotifyTpls /\ KindOf(e) \in {"signal", "wait", "none"}
  BY DEF AllEvents, NotifyTpl, NotifyTpls, KindOf
<1>3. \A e \in Events : KindOf(e) = Kind[e]
  BY <1>1 DEF KindOf
<1> QED BY <1>1, <1>2, <1>3 DEF AllEvents

\* Every event of the sequence is queued at its level, and no other one is lost.
LEMMA NotifyEventsStep ==
  ASSUME NoticesInv, NEW evs \in Seq(AllEvents), CoreNotifyEvents(evs)
  PROVE  /\ queue' \in [NotifyTpls -> Seq(AllEvents)]
         /\ \A p \in NotifyTpls : Range(queue'[p]) \subseteq {e \in AllEvents : NotifyTpl(e) = p}
         /\ pending' \subseteq NotifyTpls
         /\ \A x \in AllEvents : Queued(x) \/ x \in Range(evs) => Queued(x)'
<1> DEFINE Old(p) == Keep(queue[p], AllEvents \ Range(evs))
           New(p) == OfLevel(evs, p)
<1>1. ASSUME NEW p \in NotifyTpls
      PROVE  /\ Old(p) \in Seq(AllEvents) /\ Range(Old(p)) = Range(queue[p]) \cap (AllEvents \ Range(evs))
             /\ New(p) \in Seq(AllEvents)
             /\ Range(New(p)) = Range(evs) \cap {x \in AllEvents : NotifyTpl(x) = p}
  <2>1. queue[p] \in Seq(AllEvents)
    BY DEF NoticesInv
  <2> QED BY <2>1, KeepFacts DEF OfLevel
<1>2. queue' = [p \in NotifyTpls |-> Old(p) \o New(p)]
      /\ pending' = pending \cup {p \in NotifyTpls : \E x \in Range(evs) : NotifyTpl(x) = p}
  BY DEF CoreNotifyEvents
<1> HIDE DEF Old, New
<1>3. ASSUME NEW p \in NotifyTpls
      PROVE  /\ queue'[p] \in Seq(AllEvents)
             /\ Range(queue'[p]) = Range(Old(p)) \cup Range(New(p))
  <2>1. queue'[p] = Old(p) \o New(p)
    BY <1>2
  <2>2. Old(p) \o New(p) \in Seq(AllEvents)
    BY <1>1
  <2>3. Range(Old(p) \o New(p)) = Range(Old(p)) \cup Range(New(p))
    BY <1>1, RangeConcatenation
  <2> QED BY <2>1, <2>2, <2>3
<1>4. queue' \in [NotifyTpls -> Seq(AllEvents)]
  BY <1>2, <1>3
<1>5. ASSUME NEW p \in NotifyTpls
      PROVE  Range(queue'[p]) \subseteq {e \in AllEvents : NotifyTpl(e) = p}
  BY <1>1, <1>3 DEF NoticesInv
<1>6. pending' \subseteq NotifyTpls
  BY <1>2 DEF NoticesInv
<1>7. ASSUME NEW x \in AllEvents, x \in Range(evs) PROVE Queued(x)'
  <2>1. NotifyTpl(x) \in NotifyTpls
    BY EventFacts
  <2>2. x \in Range(New(NotifyTpl(x)))
    BY <1>1, <1>7, <2>1
  <2>3. x \in Range(queue'[NotifyTpl(x)])
    BY <1>3, <2>1, <2>2
  <2> QED BY <2>1, <2>3 DEF Queued
<1>8. ASSUME NEW x \in AllEvents, Queued(x), x \notin Range(evs) PROVE Queued(x)'
  <2>1. PICK p \in NotifyTpls : x \in Range(queue[p])
    BY <1>8 DEF Queued
  <2>2. x \in Range(Old(p))
    BY <1>1, <1>8, <2>1
  <2>3. x \in Range(queue'[p])
    BY <1>3, <2>2
  <2> QED BY <2>3 DEF Queued
<1> QED BY <1>4, <1>5, <1>6, <1>7, <1>8

\* CoreSignalEvent loses no event, and queues the one it signals if that has a
\* notification function and is on the list of its group.
LEMMA SignalStep ==
  ASSUME NoticesInv, sigList \in Seq(Events), NEW e \in AllEvents, SignalMasked(e)
  PROVE  /\ NoticesInv'
         /\ \A x \in AllEvents : Queued(x) => Queued(x)'
         /\ \A x \in AllEvents \ {e} : sig'[x] = sig[x]
         /\ \/ sig[e] = 1 /\ sig'[e] = 1 /\ UNCHANGED queue
            \/ KindOf(e) # "signal"
            \/ Queued(e)'
            \/ e \in Events /\ e \notin Range(sigList)
<1>1. CASE sig[e] = 1
  <2>1. UNCHANGED notices
    BY <1>1 DEF SignalMasked
  <2>2. queue' = queue /\ pending' = pending /\ sig' = sig
    BY <2>1 DEF notices
  <2> QED BY <1>1, <2>2 DEF NoticesInv, Queued
<1>2. CASE sig[e] # 1
  <2>1. sig' = [sig EXCEPT ![e] = 1]
    BY <1>2 DEF SignalMasked
  <2>2. sig' \in [AllEvents -> {0, 1}] /\ \A x \in AllEvents \ {e} : sig'[x] = sig[x]
    BY <2>1 DEF NoticesInv
  <2>3. CASE KindOf(e) # "signal"
    <3>1. queue' = queue /\ pending' = pending
      BY <1>2, <2>3 DEF SignalMasked
    <3> QED BY <2>2, <2>3, <3>1 DEF NoticesInv, Queued
  <2>4. CASE KindOf(e) = "signal"
    <3> DEFINE evs == IF Grouped(e) THEN GroupMembers(e) ELSE <<e>>
    <3>1. CoreNotifyEvents(evs)
      BY <1>2, <2>4 DEF SignalMasked
    <3>2. evs \in Seq(AllEvents) /\ (e \in Range(evs) \/ (e \in Events /\ e \notin Range(sigList)))
      <4>1. CASE Grouped(e)
        <5> DEFINE S == {x \in Events : GroupOf[x] = GroupOf[e]}
        <5>1. Keep(sigList, S) \in Seq(Events) /\ Range(Keep(sigList, S)) = Range(sigList) \cap S
          BY KeepFacts
        <5>2. e \in Events
          BY <4>1 DEF Grouped, AllEvents
        <5>3. evs = Keep(sigList, S)
          BY <4>1 DEF GroupMembers
        <5>4. Keep(sigList, S) \in Seq(AllEvents)
          BY <5>1, EventFacts, SeqMonotonic
        <5> QED BY <5>1, <5>2, <5>3, <5>4
      <4>2. CASE ~Grouped(e)
        <5>1. evs = <<e>> /\ <<e>> \in Seq(AllEvents)
          BY <4>2
        <5>2. e \in Range(<<e>>)
          <6>1. 1 \in DOMAIN <<e>> /\ <<e>>[1] = e
            OBVIOUS
          <6> QED BY <6>1 DEF Range
        <5> QED BY <5>1, <5>2
      <4> QED BY <4>1, <4>2
    <3> HIDE DEF evs
    <3>3. /\ queue' \in [NotifyTpls -> Seq(AllEvents)]
          /\ \A p \in NotifyTpls : Range(queue'[p]) \subseteq {y \in AllEvents : NotifyTpl(y) = p}
          /\ pending' \subseteq NotifyTpls
          /\ \A x \in AllEvents : Queued(x) \/ x \in Range(evs) => Queued(x)'
      BY <3>1, <3>2, NotifyEventsStep
    <3>4. NoticesInv'
      BY <2>2, <3>3 DEF NoticesInv
    <3> QED BY <2>2, <3>2, <3>3, <3>4
  <2> QED BY <2>3, <2>4
<1> QED BY <1>1, <1>2
------------------------------------------------------------------------------
(***************************************************************************)
(* The events that frames of the stack use                                 *)
(***************************************************************************)
EventOf(x, pcs) == IF x.at \in pcs THEN {x.ev} ELSE {}

\* The ways in which an action changes the stack.
LEMMA StackUsers ==
  ASSUME NEW s, StackOK(s), NEW pcs
  PROVE  /\ \A x : Users(Append(s, x), pcs) = Users(s, pcs) \cup EventOf(x, pcs)
         /\ \A x, y : Users(Append(Append(s, x), y), pcs) =
                       Users(s, pcs) \cup EventOf(x, pcs) \cup EventOf(y, pcs)
         /\ Users(s, pcs) = Users(Front(s), pcs) \cup EventOf(s[Len(s)], pcs)
         /\ \A x : Users(Append(Front(s), x), pcs) = Users(Front(s), pcs) \cup EventOf(x, pcs)
         /\ \A x, y : Users(Append(Append(Front(s), x), y), pcs) =
                       Users(Front(s), pcs) \cup EventOf(x, pcs) \cup EventOf(y, pcs)
<1>1. s \in Seq(Range(s)) /\ s # <<>>
  BY DEF StackOK
<1>2. Front(s) \in Seq(Range(Front(s)))
  BY <1>1, FrontFacts
<1>3. \A x : Append(s, x) \in Seq(Range(Append(s, x)))
  BY <1>1, AppendFacts
<1>4. \A x : Append(Front(s), x) \in Seq(Range(Append(Front(s), x)))
  BY <1>2, AppendFacts
<1>5. \A x : Users(Append(s, x), pcs) = Users(s, pcs) \cup EventOf(x, pcs)
  BY <1>1, UsersAppend DEF EventOf
<1>6. \A x, y : Users(Append(Append(s, x), y), pcs) = Users(Append(s, x), pcs) \cup EventOf(y, pcs)
  BY <1>3, UsersAppend DEF EventOf
<1>7. Users(s, pcs) = Users(Front(s), pcs) \cup EventOf(s[Len(s)], pcs)
  BY <1>1, UsersFront DEF EventOf
<1>8. \A x : Users(Append(Front(s), x), pcs) = Users(Front(s), pcs) \cup EventOf(x, pcs)
  BY <1>2, UsersAppend DEF EventOf
<1>9. \A x, y : Users(Append(Append(Front(s), x), y), pcs) = Users(Append(Front(s), x), pcs) \cup EventOf(y, pcs)
  BY <1>4, UsersAppend DEF EventOf
<1> QED BY <1>5, <1>6, <1>7, <1>8, <1>9

\* What an action adds to the timers about to be inserted, and what it takes
\* away from the events being closed and from those that still have a caller.
Moves(in, outF, outG) ==
  /\ Users(stack', {"arm", "rearm"}) \subseteq Users(stack, {"arm", "rearm"}) \cup in
  /\ Users(stack, {"free"}) \subseteq Users(stack', {"free"}) \cup outF
  /\ Users(stack, {"signalGroup", "free"}) \subseteq Users(stack', {"signalGroup", "free"}) \cup outG

\* A frame that is pushed, on the stack or in the place of its last frame.
LEMMA MovesFacts ==
  ASSUME CpuInv
  PROVE  /\ stack' = stack => Moves({}, {}, {})
         /\ \A x : stack' = Append(stack, x) => Moves(EventOf(x, {"arm", "rearm"}), {}, {})
         /\ \A x, y : stack' = Append(Append(stack, x), y) /\ y.at \notin {"arm", "rearm"} =>
              Moves(EventOf(x, {"arm", "rearm"}), {}, {})
         /\ stack' = Under =>
              Moves({}, EventOf(Top, {"free"}), EventOf(Top, {"signalGroup", "free"}))
         /\ \A x : stack' = Append(Under, x) /\ x.at \notin {"arm", "rearm"} =>
              Moves({}, EventOf(Top, {"free"}), EventOf(Top, {"signalGroup", "free"}))
         /\ \A x, y : stack' = Append(Append(Under, x), y) /\ {x.at, y.at} \cap {"arm", "rearm"} = {} =>
              Moves({}, EventOf(Top, {"free"}), EventOf(Top, {"signalGroup", "free"}))
<1>0. StackOK(stack) /\ Under = Front(stack) /\ Top = stack[Len(stack)]
  BY DEF CpuInv, Under, Top, Last
<1>1. CASE stack' = stack
  BY <1>1 DEF Moves
<1>2. ASSUME NEW x, stack' = Append(stack, x) PROVE Moves(EventOf(x, {"arm", "rearm"}), {}, {})
  BY <1>0, <1>2, StackUsers DEF Moves
<1>3. ASSUME NEW x, NEW y, stack' = Append(Append(stack, x), y), y.at \notin {"arm", "rearm"}
      PROVE  Moves(EventOf(x, {"arm", "rearm"}), {}, {})
  <2>1. EventOf(y, {"arm", "rearm"}) = {}
    BY <1>3 DEF EventOf
  <2> QED BY <1>0, <1>3, <2>1, StackUsers DEF Moves
<1>4. ASSUME stack' = Under
      PROVE  Moves({}, EventOf(Top, {"free"}), EventOf(Top, {"signalGroup", "free"}))
  BY <1>0, <1>4, StackUsers DEF Moves
<1>5. ASSUME NEW x, stack' = Append(Under, x), x.at \notin {"arm", "rearm"}
      PROVE  Moves({}, EventOf(Top, {"free"}), EventOf(Top, {"signalGroup", "free"}))
  <2>1. EventOf(x, {"arm", "rearm"}) = {}
    BY <1>5 DEF EventOf
  <2> QED BY <1>0, <1>5, <2>1, StackUsers DEF Moves
<1>6. ASSUME NEW x, NEW y, stack' = Append(Append(Under, x), y),
             {x.at, y.at} \cap {"arm", "rearm"} = {}
      PROVE  Moves({}, EventOf(Top, {"free"}), EventOf(Top, {"signalGroup", "free"}))
  <2>1. EventOf(x, {"arm", "rearm"}) = {} /\ EventOf(y, {"arm", "rearm"}) = {}
    BY <1>6 DEF EventOf
  <2> QED BY <1>0, <1>6, <2>1, StackUsers DEF Moves
<1> QED BY <1>1, <1>2, <1>3, <1>4, <1>5, <1>6

\* Most actions take nothing away.
LEMMA QuietSteps ==
  ASSUME CpuInv, Next
  PROVE  \/ Moves({}, {}, {})
         \/ \E e \in Events, repeat \in BOOLEAN, d \in Delays : SetTimer(e, repeat, d)
         \/ CheckTimersFire \/ NotifySignalList \/ CloseEventFree
<1>0. ASSUME Top.at \notin {"signalGroup", "free"}
      PROVE  EventOf(Top, {"free"}) = {} /\ EventOf(Top, {"signalGroup", "free"}) = {}
  BY <1>0 DEF EventOf
<1>1. ASSUME stack' = stack PROVE Moves({}, {}, {})
  BY <1>1, MovesFacts
<1>2. ASSUME NEW x, stack' = Append(stack, x), x.at \notin {"arm", "rearm"} PROVE Moves({}, {}, {})
  <2>1. EventOf(x, {"arm", "rearm"}) = {}
    BY <1>2 DEF EventOf
  <2> QED BY <1>2, <2>1, MovesFacts
<1>3. ASSUME NEW x, NEW y, stack' = Append(Append(stack, x), y),
             x.at \notin {"arm", "rearm"}, y.at \notin {"arm", "rearm"}
      PROVE  Moves({}, {}, {})
  <2>1. EventOf(x, {"arm", "rearm"}) = {}
    BY <1>3 DEF EventOf
  <2> QED BY <1>3, <2>1, MovesFacts
<1>4. ASSUME stack' = Under, Top.at \notin {"signalGroup", "free"} PROVE Moves({}, {}, {})
  BY <1>0, <1>4, MovesFacts
<1>5. ASSUME NEW x, stack' = Append(Under, x), x.at \notin {"arm", "rearm"},
             Top.at \notin {"signalGroup", "free"}
      PROVE  Moves({}, {}, {})
  BY <1>0, <1>5, MovesFacts
<1>6. ASSUME NEW x, NEW y, stack' = Append(Append(Under, x), y),
             x.at \notin {"arm", "rearm"}, y.at \notin {"arm", "rearm"},
             Top.at \notin {"signalGroup", "free"}
      PROVE  Moves({}, {}, {})
  <2>1. {x.at, y.at} \cap {"arm", "rearm"} = {}
    BY <1>6
  <2> QED BY <1>0, <1>6, <2>1, MovesFacts
<1>7. Restore(tpl).at = "restore" /\ \A t : Restore(t).at = "restore" /\ Lower(t).at = "lower" /\ Dispatch(t).at = "dispatch"
  BY DEF Restore, Lower, Dispatch
<1>8. /\ \A pc, e : Call(pc, e).at = pc
      /\ \A pc, e, t, u : Code(pc, e, t, u).at = pc
      /\ \A t : Checking(t).at = "checkTimers"
      /\ \A evs, i, again : Poll(evs, i, again).at = "poll" /\ Polled(evs, i, again).at = "polled"
  BY DEF Call, Code, Checking, Poll, Polled
<1>9. ASSUME NEW fs, Locked(fs) PROVE stack' = Append(fs, Restore(tpl))
  BY <1>9 DEF Locked
<1>10. ASSUME NEW e \in Events, CreateEvent(e) PROVE Moves({}, {}, {})
  BY <1>2, <1>7, <1>9, <1>10 DEF CreateEvent
<1>11. ASSUME NEW e \in Events, SignalEvent(e) PROVE Moves({}, {}, {})
  <2>1. stack' = Append(stack, Restore(tpl)) \/ stack' = Append(Append(stack, Call("signalGroup", e)), Restore(tpl))
    BY <1>9, <1>11 DEF SignalEvent
  <2>2. Call("signalGroup", e).at = "signalGroup"
    BY <1>8
  <2> QED BY <1>2, <1>3, <1>7, <2>1, <2>2
<1>12. ASSUME NEW e \in Events, SetTimerCancel(e) PROVE Moves({}, {}, {})
  BY <1>2, <1>7, <1>12 DEF SetTimerCancel, CancelTimer
<1>13. ASSUME NEW e \in Events, CloseEvent(e) PROVE Moves({}, {}, {})
  <2>1. stack' = Append(stack, Call("unlink", e)) \/ stack' = Append(Append(stack, Call("unlink", e)), Restore(tpl))
    BY <1>13 DEF CloseEvent, CancelTimer, Continue
  <2>2. Call("unlink", e).at = "unlink"
    BY <1>8
  <2> QED BY <1>2, <1>3, <1>7, <2>1, <2>2
<1>14. ASSUME NEW e \in Events, CheckEvent(e) PROVE Moves({}, {}, {})
  BY <1>2, <1>8, <1>14 DEF CheckEvent, Continue
<1>15. ASSUME NEW evs \in WaitLists, WaitForEvent(evs) PROVE Moves({}, {}, {})
  BY <1>2, <1>8, <1>15 DEF WaitForEvent, Continue
<1>16. ASSUME NEW t, RaiseTPL(t) PROVE Moves({}, {}, {})
  <2>1. Code("raised", Top.ev, t, tpl).at = "raised"
    BY <1>8
  <2> QED BY <1>2, <1>16, <2>1 DEF RaiseTPL
<1>17. CASE RestoreTplDispatch
  BY <1>2, <1>7, <1>17 DEF RestoreTplDispatch
<1>18. CASE RestoreTplNoMore
  BY <1>5, <1>7, <1>18 DEF RestoreTplNoMore, Continue, At
<1>19. CASE RestoreTplLower
  BY <1>4, <1>19 DEF RestoreTplLower, At
<1>20. CASE DispatchNext
  <2> DEFINE x == Code("notify", Head(queue[Top.tpl]), Top.tpl, Top.tpl)
  <2>1. stack' = Append(Append(stack, x), Restore(tpl))
    BY <1>9, <1>20 DEF DispatchNext
  <2>2. x.at = "notify"
    BY <1>8
  <2> HIDE DEF x
  <2> QED BY <1>3, <1>7, <2>1, <2>2
<1>21. CASE DispatchDone
  <2>1. stack' = Append(Under, Restore(tpl)) /\ Top.at = "dispatch"
    BY <1>9, <1>21 DEF DispatchDone, At
  <2> QED BY <1>5, <1>7, <2>1
<1>22. CASE CheckTimersStart
  BY <1>5, <1>8, <1>22 DEF CheckTimersStart, Continue, At
<1>23. CASE CheckTimersRearm
  BY <1>4, <1>23 DEF CheckTimersRearm, Continue, At
<1>24. CASE CheckTimersDone
  BY <1>5, <1>7, <1>24 DEF CheckTimersDone, Continue, At
<1>25. CASE SetTimerArm
  BY <1>5, <1>7, <1>25 DEF SetTimerArm, Continue, At
<1>26. CASE CloseEventUnlink
  <2>1. stack' = Append(Append(Under, Call("free", Top.ev)), Restore(tpl)) /\ Top.at = "unlink"
    BY <1>9, <1>26 DEF CloseEventUnlink, At
  <2>2. Call("free", Top.ev).at = "free"
    BY <1>8
  <2> QED BY <1>6, <1>7, <2>1, <2>2
<1>27. CASE PollNotify
  <2> DEFINE x == Polled(Top.evs, Top.i, Top.again)
  <2>1. Top.at = "poll" /\ (stack' = Under \/ stack' = Append(Under, x) \/ stack' = Append(Append(Under, x), Restore(tpl)))
    BY <1>9, <1>27 DEF PollNotify, Continue, At
  <2>2. x.at = "polled"
    BY <1>8
  <2> HIDE DEF x
  <2> QED BY <1>4, <1>5, <1>6, <1>7, <2>1, <2>2
<1>28. CASE PollResult
  <2> DEFINE x == Poll(Top.evs, Top.i + 1, Top.again)
             y == Poll(Top.evs, 1, Top.again)
  <2>1. Top.at = "polled" /\ \/ stack' = Under \/ stack' = Append(Under, x) \/ stack' = Append(Under, y)
                             \/ stack' = Append(Under, Restore(tpl))
    BY <1>9, <1>28 DEF PollResult, Continue, At
  <2>2. x.at = "poll" /\ y.at = "poll"
    BY <1>8
  <2> HIDE DEF x, y
  <2> QED BY <1>4, <1>5, <1>7, <2>1, <2>2
<1>29. CASE RestoreTPL
  BY <1>5, <1>7, <1>29 DEF RestoreTPL, Continue, At
<1>30. CASE NotifyReturn
  BY <1>4, <1>30 DEF NotifyReturn, Continue, At
<1>31. CASE TimerInterrupt
  BY <1>2, <1>7, <1>9, <1>31 DEF TimerInterrupt
<1>32. CASE Services
  BY <1>10, <1>11, <1>12, <1>13, <1>14, <1>15, <1>16, <1>32 DEF Services
<1>33. CASE Core
  BY <1>17, <1>18, <1>19, <1>20, <1>21, <1>22, <1>23, <1>24, <1>25, <1>26, <1>27, <1>28,
     <1>29, <1>30, <1>33 DEF Core
<1> QED BY <1>31, <1>32, <1>33 DEF Next

\* Nobody else is about to insert a timer.
LEMMA LockAlone ==
  ASSUME NEW s, StackOK(s), s[Len(s)].at \in {"arm", "rearm"}
  PROVE  Users(Front(s), {"arm", "rearm"}) = {}
<1> DEFINE n == Len(s)
<1>0. /\ n \in Nat /\ n - 1 \in 1 .. n /\ n \in 2 .. n
      /\ DOMAIN Front(s) = 1 .. (n - 1)
      /\ \A j \in 1 .. (n - 1) : Front(s)[j] = s[j]
  <2>1. s \in Seq(Range(s)) /\ s # <<>>
    BY DEF StackOK
  <2>2. n - 1 \in 1 .. n
    BY PopOK
  <2>3. n \in Nat \ {0} /\ DOMAIN Front(s) = 1 .. (n - 1)
        /\ \A j \in 1 .. (n - 1) : Front(s)[j] = s[j]
    BY <2>1, FrontFacts
  <2> QED BY <2>2, <2>3
<1>1. SUFFICES ASSUME NEW j \in 1 .. (n - 1), s[j].at \in {"arm", "rearm"} PROVE FALSE
  BY <1>0 DEF Users
<1>2. Floor(s, j) = TimerTpl
  BY <1>1 DEF Floor, CodePcs, CallPcs, LockPcs
<1>3. j \in 1 .. n /\ j \in Nat /\ j <= n - 1
  BY <1>0
<1>4. Fits(s[n], s[n - 1], Floor(s, n - 1))
  BY <1>0 DEF StackOK
<1>5. CASE s[n].at = "arm"
  <2>1. s[n - 1].at \in CodePcs /\ Floor(s, n - 1) <= Notify
    BY <1>4, <1>5 DEF Fits
  <2>2. j # n - 1
    BY <1>1, <2>1 DEF CodePcs
  <2>3. j < n - 1
    BY <1>0, <2>2
  <2>4. Floor(s, j) <= Floor(s, n - 1)
    BY <1>0, <1>3, <2>3 DEF StackOK
  <2>5. Floor(s, n - 1) \in Tpls
    BY <1>0, FloorType
  <2> QED BY <1>2, <2>1, <2>4, <2>5, TplFacts
<1>6. CASE s[n].at = "rearm"
  <2>1. s[n - 1].at = "checkTimers"
    BY <1>4, <1>6 DEF Fits
  <2>2. n - 1 \in 2 .. n
    <3>1. 1 \in 1 .. n
      BY <1>0
    <3>2. s[1].at = "app"
      BY <3>1 DEF StackOK
    <3>3. n - 1 # 1
      BY <2>1, <3>2
    <3>4. n \in Nat /\ n - 1 \in 1 .. n
      BY <1>0
    <3> HIDE DEF n
    <3> QED BY <3>3, <3>4
  <2>3. Fits(s[n - 1], s[(n - 1) - 1], Floor(s, (n - 1) - 1))
    BY <2>2 DEF StackOK
  <2>4. (n - 1) - 1 = n - 2 /\ n - 2 \in 1 .. n
    BY <1>0, <2>2
  <2>5. s[n - 2].at = "dispatch" /\ Floor(s, n - 2) = TimerTpl
    BY <2>1, <2>3, <2>4 DEF Fits
  <2>6. j # n - 1 /\ j # n - 2
    BY <1>1, <2>1, <2>5
  <2>7. j < n - 2
    BY <1>0, <1>3, <2>6
  <2>8. Floor(s, j) < Floor(s, n - 2)
    BY <1>3, <2>4, <2>5, <2>7 DEF StackOK
  <2> QED BY <1>2, <2>5, <2>8, TplFacts
<1> QED BY <1>5, <1>6
------------------------------------------------------------------------------
(***************************************************************************)
(* The clock and the timer list                                            *)
(***************************************************************************)
LEMMA SoundSame ==
  ASSUME NEW T, NEW list \in Seq(T), NEW tr, NEW tr2, Sound(list, tr),
         \A x \in Range(list) : tr2[x] = tr[x]
  PROVE  Sound(list, tr2)
BY DEF Sound, Range

LEMMA MinFacts ==
  ASSUME NEW a \in Nat, NEW b \in Nat
  PROVE  Min({a, b}) \in Nat /\ Min({a, b}) <= b
<1>1. {a, b} \in SUBSET Nat /\ {a, b} # {}
  OBVIOUS
<1>2. \E x \in {a, b} : \A y \in {a, b} : x <= y
  BY <1>1, LeastElement
<1>3. Min({a, b}) \in {a, b} /\ \A y \in {a, b} : Min({a, b}) <= y
  BY <1>2 DEF Min
<1> QED BY <1>3

\* No event is forgotten.
LEMMA CreatedStep ==
  ASSUME Next
  PROVE  live \cup closed \subseteq live' \cup closed'
<1>1. CASE Services
  BY <1>1 DEF Services, CreateEvent, SignalEvent, SetTimerCancel, SetTimer, CloseEvent,
              CheckEvent, WaitForEvent, RaiseTPL, objects
<1>2. CASE Core
  BY <1>2 DEF Core, RestoreTplDispatch, RestoreTplNoMore, RestoreTplLower, DispatchNext,
              DispatchDone, CheckTimersStart, CheckTimersFire, CheckTimersRearm,
              CheckTimersDone, NotifySignalList, SetTimerArm, CloseEventUnlink,
              CloseEventFree, PollNotify, PollResult, RestoreTPL, NotifyReturn, objects
<1>3. CASE TimerInterrupt
  BY <1>3 DEF TimerInterrupt, objects
<1> QED BY <1>1, <1>2, <1>3 DEF Next

\* The actions that leave the clock and the timers alone.
LEMMA ClockUnchanged ==
  ASSUME Next
  PROVE  \/ UNCHANGED clock
         \/ \E e \in Events : SetTimerCancel(e) \/ CloseEvent(e)
         \/ \E e \in Events, repeat \in BOOLEAN, d \in Delays : SetTimer(e, repeat, d)
         \/ CheckTimersFire \/ CheckTimersRearm \/ SetTimerArm \/ TimerInterrupt
<1>1. CASE Services
  BY <1>1 DEF Services, CreateEvent, SignalEvent, CheckEvent, WaitForEvent, RaiseTPL
<1>2. CASE Core
  BY <1>2 DEF Core, RestoreTplDispatch, RestoreTplNoMore, RestoreTplLower, DispatchNext,
              DispatchDone, CheckTimersStart, CheckTimersDone, NotifySignalList,
              CloseEventUnlink, CloseEventFree, PollNotify, PollResult, RestoreTPL, NotifyReturn
<1> QED BY <1>1, <1>2 DEF Next

LEMMA ClockStep ==
  ASSUME CpuInv, DataInv, ArmInv, CreatedInv, Next
  PROVE  /\ ClockInv' /\ ArmInv'
         /\ (Range(timers) \cup Users(stack, {"arm", "rearm"}) \subseteq live \cup closed)'
<1> USE DxeEventAssumption
<1> DEFINE A == Users(stack, {"arm", "rearm"})
           B == Users(stack', {"arm", "rearm"})
           Goal == /\ ClockInv' /\ ArmInv' /\ Range(timers') \cup B \subseteq live' \cup closed'
<1>0. /\ timers \in Seq(TimerEvents) /\ TimerEvents \subseteq AllEvents /\ TimerEvents \subseteq Events
      /\ trigger \in [Events -> Nat] /\ period \in [Events -> Nat] /\ now \in 0 .. MaxTime
      /\ A \cap Range(timers) = {} /\ Sound(timers, trigger)
      /\ Range(timers) \cup A \subseteq live \cup closed
      /\ live \cup closed \subseteq live' \cup closed'
  BY CreatedStep, EventFacts DEF DataInv, ClockInv, ArmInv, CreatedInv
<1>1. SUFFICES Goal
  OBVIOUS
<1> DEFINE n == Len(stack)
<1>2. /\ StackOK(stack) /\ n \in 1 .. n /\ FrameOK(stack[n]) /\ Top = stack[n]
      /\ Under = Front(stack)
  <2>1. stack \in Seq(Range(stack)) /\ stack # <<>>
    BY DEF CpuInv, StackOK
  <2>2. n \in Nat \ {0}
    BY <2>1, FrontFacts
  <2>3. FrameOK(stack[n])
    BY <2>2 DEF CpuInv, StackOK
  <2> QED BY <2>1, <2>2, <2>3 DEF CpuInv, Top, Last, Under
<1> HIDE DEF n, A, B
<1>3. ASSUME B \subseteq A, UNCHANGED clock PROVE Goal
  <2>1. timers' = timers /\ trigger' = trigger /\ period' = period /\ now' = now
    BY <1>3 DEF clock
  <2> QED BY <1>0, <1>3, <2>1 DEF ClockInv, ArmInv, B
<1>4. ASSUME NEW e \in TimerEvents, NEW fs, CancelTimer(e, fs), B \subseteq A \cup {e}, e \in live
      PROVE  Goal
  <2>1. /\ timers' = Unlink(timers, e) /\ trigger' = [trigger EXCEPT ![e] = 0]
        /\ period' = [period EXCEPT ![e] = 0] /\ now' = now
    BY <1>4 DEF CancelTimer
  <2>2. /\ timers' \in Seq(TimerEvents) /\ Range(timers') = Range(timers) \ {e}
        /\ Sound(timers', trigger)
    BY <1>0, <2>1, UnlinkFacts
  <2>3. trigger' \in [Events -> Nat] /\ period' \in [Events -> Nat]
    BY <1>0, <2>1
  <2>4. \A x \in Range(timers') : trigger'[x] = trigger[x]
    <3>1. Range(timers) \subseteq TimerEvents
      BY <1>0, RangeOfSeq
    <3> QED BY <1>0, <2>1, <2>2, <3>1
  <2>5. Sound(timers', trigger')
    BY <2>2, <2>4, SoundSame
  <2>6. B \cap Range(timers') = {} /\ Range(timers') \cup B \subseteq live' \cup closed'
    BY <1>0, <1>4, <2>2
  <2> QED BY <1>0, <2>1, <2>2, <2>3, <2>5, <2>6 DEF ClockInv, ArmInv, B
<1>5. ASSUME Moves({}, {}, {}) PROVE B \subseteq A
  BY <1>5 DEF Moves, A, B
<1>6. ASSUME NEW e \in Events, SetTimerCancel(e) PROVE Goal
  <2>1. e \in TimerEvents /\ e \in live /\ CancelTimer(e, Append(stack, Restore(tpl)))
    BY <1>6 DEF SetTimerCancel
  <2>2. Moves(EventOf(Restore(tpl), {"arm", "rearm"}), {}, {})
    BY <2>1, MovesFacts DEF CancelTimer
  <2>3. EventOf(Restore(tpl), {"arm", "rearm"}) = {}
    BY DEF EventOf, Restore
  <2> QED BY <1>4, <1>5, <2>1, <2>2, <2>3
<1>7. ASSUME NEW e \in Events, CloseEvent(e) PROVE Goal
  <2> DEFINE x == Call("unlink", e)
  <2>1. x.at = "unlink" /\ Restore(tpl).at = "restore"
    BY DEF Call, Restore
  <2>2. EventOf(x, {"arm", "rearm"}) = {}
    BY <2>1 DEF EventOf
  <2>3. CASE e \in TimerEvents
    <3>1. CancelTimer(e, Append(Append(stack, x), Restore(tpl))) /\ e \in live
      BY <1>7, <2>3 DEF CloseEvent
    <3> HIDE DEF x
    <3>2. stack' = Append(Append(stack, x), Restore(tpl))
      BY <3>1 DEF CancelTimer
    <3>3. Moves({}, {}, {})
      BY <2>1, <2>2, <3>2, MovesFacts
    <3> QED BY <1>4, <1>5, <2>3, <3>1, <3>3
  <2>4. CASE e \notin TimerEvents
    <3>1. stack' = Append(stack, x) /\ UNCHANGED clock
      BY <1>7, <2>4 DEF CloseEvent, Continue
    <3> HIDE DEF x
    <3>2. Moves({}, {}, {})
      BY <2>2, <3>1, MovesFacts
    <3> QED BY <1>3, <1>5, <3>1, <3>2
  <2> QED BY <2>3, <2>4
<1>8. ASSUME NEW e \in Events, NEW repeat \in BOOLEAN, NEW d \in Delays, SetTimer(e, repeat, d)
      PROVE  Goal
  <2> DEFINE x == Arm(e, repeat, IF repeat /\ d = 0 THEN 1 ELSE d)
  <2>1. e \in TimerEvents /\ e \in live /\ CancelTimer(e, Append(stack, x))
    BY <1>8 DEF SetTimer
  <2>2. x.at = "arm" /\ x.ev = e
    BY DEF Arm
  <2> HIDE DEF x
  <2>3. stack' = Append(stack, x)
    BY <2>1 DEF CancelTimer
  <2>4. Moves({e}, {}, {})
    <3>1. EventOf(x, {"arm", "rearm"}) = {e}
      BY <2>2 DEF EventOf
    <3> QED BY <2>3, <3>1, MovesFacts
  <2>5. B \subseteq A \cup {e}
    BY <2>4 DEF Moves, A, B
  <2> QED BY <1>4, <2>1, <2>5
<1>9. CASE CheckTimersFire
  <2> DEFINE e == Head(timers)
             x == Call("rearm", e)
  <2>1. timers # <<>> /\ timers' = Tail(timers) /\ (stack' = stack \/ stack' = Append(stack, x))
    BY <1>9 DEF CheckTimersFire, Expired, Continue
  <2>2. trigger' = trigger /\ period' = period /\ now' = now
    BY <1>9 DEF CheckTimersFire
  <2>3. /\ timers' \in Seq(TimerEvents) /\ e \in TimerEvents
        /\ Range(timers) = Range(timers') \cup {e}
        /\ Sound(timers', trigger) /\ e \notin Range(timers')
    BY <1>0, <2>1, TailFacts
  <2>4. x.ev = e /\ x.at = "rearm"
    BY DEF Call
  <2>5. EventOf(x, {"arm", "rearm"}) = {e}
    BY <2>4 DEF EventOf
  <2> HIDE DEF e, x
  <2>6. B \subseteq A \cup {e}
    <3>1. Moves({}, {}, {}) \/ Moves({e}, {}, {})
      BY <2>1, <2>5, MovesFacts
    <3> QED BY <3>1 DEF Moves, A, B
  <2>7. B \cap Range(timers') = {} /\ Range(timers') \cup B \subseteq live' \cup closed'
    BY <1>0, <2>3, <2>6
  <2> QED BY <1>0, <2>2, <2>3, <2>7 DEF ClockInv, ArmInv, B
<1>10. ASSUME NEW e \in TimerEvents, NEW t \in Nat, Top.at \in {"arm", "rearm"}, Top.ev = e,
              timers' = InsertEventTimer(timers, e, t), trigger' = [trigger EXCEPT ![e] = t],
              period' \in [Events -> Nat], now' = now, B = Users(Under, {"arm", "rearm"})
       PROVE  Goal
  <2>1. B = {}
    BY <1>2, <1>10, LockAlone DEF n
  <2>2. e \in A
    <3>1. A = Users(Under, {"arm", "rearm"}) \cup EventOf(stack[n], {"arm", "rearm"})
      BY <1>2, StackUsers DEF A, n
    <3>2. EventOf(stack[n], {"arm", "rearm"}) = {e}
      BY <1>2, <1>10 DEF EventOf
    <3> QED BY <3>1, <3>2
  <2>3. e \notin Range(timers) /\ e \in live \cup closed
    BY <1>0, <2>2
  <2>4. /\ timers' \in Seq(TimerEvents) /\ Range(timers') = Range(timers) \cup {e}
        /\ Sound(timers', trigger')
    BY <1>0, <1>10, <2>3, InsertFacts
  <2>5. trigger' \in [Events -> Nat]
    BY <1>0, <1>10
  <2> QED BY <1>0, <1>10, <2>1, <2>3, <2>4, <2>5 DEF ClockInv, ArmInv, B
<1>11. CASE CheckTimersRearm
  <2> DEFINE e == Top.ev
             time == Last(Under).time
             next == trigger[e] + period[e]
             t == IF next <= time THEN time ELSE next
  <2>1. /\ Top.at = "rearm" /\ stack' = Under /\ period' = period /\ now' = now
        /\ timers' = InsertEventTimer(timers, e, t) /\ trigger' = [trigger EXCEPT ![e] = t]
    BY <1>11 DEF CheckTimersRearm, At, Continue
  <2>2. e \in TimerEvents
    BY <1>2, <2>1 DEF FrameOK
  <2>3. time \in Nat
    <3>1. /\ StackOK(Under) /\ Len(Under) = n - 1 /\ n - 1 \in 1 .. n
          /\ Fits(stack[n], Under[Len(Under)], Floor(Under, Len(Under)))
      BY <1>2, <2>1, PopOK DEF n
    <3>2. Under[Len(Under)].at = "checkTimers"
      BY <1>2, <2>1, <3>1 DEF Fits
    <3>3. Len(Under) \in 1 .. Len(Under)
      BY <3>1
    <3>4. FrameOK(Under[Len(Under)])
      BY <3>1, <3>3 DEF StackOK
    <3> QED BY <3>2, <3>4 DEF FrameOK, Last
  <2>4. t \in Nat
    <3>1. trigger[e] \in Nat /\ period[e] \in Nat
      BY <1>0, <2>2
    <3> QED BY <2>3, <3>1
  <2>5. B = Users(Under, {"arm", "rearm"}) /\ period' \in [Events -> Nat]
    BY <1>0, <2>1 DEF B
  <2> HIDE DEF t
  <2> QED BY <1>10, <2>1, <2>2, <2>4, <2>5
<1>12. CASE SetTimerArm
  <2> DEFINE e == Top.ev
             t == Top.time + Top.delay
  <2>1. /\ Top.at = "arm" /\ stack' = Append(Under, Restore(Top.tpl)) /\ now' = now
        /\ period' = [period EXCEPT ![e] = IF Top.repeat THEN Top.delay ELSE 0]
        /\ timers' = InsertEventTimer(timers, e, t) /\ trigger' = [trigger EXCEPT ![e] = t]
    BY <1>12 DEF SetTimerArm, At, Continue
  <2>2. e \in TimerEvents /\ Top.time \in Nat /\ Top.delay \in Nat
    BY <1>2, <2>1 DEF FrameOK
  <2>3. t \in Nat /\ period' \in [Events -> Nat]
    BY <1>0, <2>1, <2>2
  <2>4. B = Users(Under, {"arm", "rearm"})
    <3>1. EventOf(Restore(Top.tpl), {"arm", "rearm"}) = {}
      BY DEF EventOf, Restore
    <3>2. B = Users(Under, {"arm", "rearm"}) \cup EventOf(Restore(Top.tpl), {"arm", "rearm"})
      BY <1>2, <2>1, StackUsers DEF B
    <3> QED BY <3>1, <3>2
  <2> HIDE DEF t
  <2> QED BY <1>10, <2>1, <2>2, <2>3, <2>4
<1>13. CASE TimerInterrupt
  <2>1. PICK d \in Durations : now' = Min({now + d, MaxTime})
    BY <1>13 DEF TimerInterrupt
  <2>2. timers' = timers /\ trigger' = trigger /\ period' = period /\ stack' = Append(stack, Restore(tpl))
    BY <1>13 DEF TimerInterrupt, Locked
  <2>3. now' \in 0 .. MaxTime
    <3>1. now + d \in Nat /\ MaxTime \in Nat
      BY <1>0
    <3>2. now' \in Nat /\ now' <= MaxTime
      BY <2>1, <3>1, MinFacts
    <3> QED BY <3>1, <3>2
  <2>4. EventOf(Restore(tpl), {"arm", "rearm"}) = {}
    BY DEF EventOf, Restore
  <2>5. B \subseteq A
    BY <1>5, <2>2, <2>4, MovesFacts
  <2> QED BY <1>0, <2>2, <2>3, <2>5 DEF ClockInv, ArmInv, B
<1>14. CASE UNCHANGED clock
  <2>1. CASE NotifySignalList \/ CloseEventFree
    <3>1. stack' = Under \/ stack' = Append(Under, Restore(tpl))
      BY <2>1 DEF NotifySignalList, CloseEventFree, Continue, Locked
    <3>2. Restore(tpl).at \notin {"arm", "rearm"}
      BY DEF Restore
    <3>3. Moves({}, EventOf(Top, {"free"}), EventOf(Top, {"signalGroup", "free"}))
      BY <3>1, <3>2, MovesFacts
    <3> QED BY <1>3, <1>14, <3>3 DEF Moves, A, B
  <2>2. CASE Moves({}, {}, {})
    BY <1>3, <1>5, <1>14, <2>2
  <2> QED BY <1>8, <1>9, <2>1, <2>2, QuietSteps
<1> QED BY <1>6, <1>7, <1>8, <1>9, <1>11, <1>12, <1>13, <1>14, ClockUnchanged
------------------------------------------------------------------------------
(***************************************************************************)
(* Signals and their notifications                                         *)
(***************************************************************************)
\* The calls of services are counted.
LEMMA CallsStep ==
  ASSUME calls \in 0 .. MaxCalls, Next
  PROVE  calls' \in 0 .. MaxCalls
<1>0. MaxCalls \in Nat
  BY DxeEventAssumption
<1>1. ASSUME NEW service, MayCall(service) PROVE calls' \in 0 .. MaxCalls
  BY <1>0, <1>1 DEF MayCall
<1>2. CASE Services
  BY <1>1, <1>2 DEF Services, CreateEvent, SignalEvent, SetTimerCancel, SetTimer, CloseEvent,
                    CheckEvent, WaitForEvent, RaiseTPL
<1>3. CASE Core
  BY <1>3 DEF Core, RestoreTplDispatch, RestoreTplNoMore, RestoreTplLower, DispatchNext,
              DispatchDone, CheckTimersStart, CheckTimersFire, CheckTimersRearm,
              CheckTimersDone, NotifySignalList, SetTimerArm, CloseEventUnlink,
              CloseEventFree, PollNotify, PollResult, RestoreTPL, NotifyReturn
<1>4. CASE TimerInterrupt
  BY <1>4 DEF TimerInterrupt
<1> QED BY <1>2, <1>3, <1>4 DEF Next

\* The actions that create or close events, and those that change the queues.
LEMMA ObjectsUnchanged ==
  ASSUME Next
  PROVE  \/ UNCHANGED objects
         \/ \E e \in Events : CreateEvent(e)
         \/ CloseEventUnlink \/ CloseEventFree
<1>1. CASE Services
  BY <1>1 DEF Services, SignalEvent, SetTimerCancel, SetTimer, CloseEvent, CheckEvent,
              WaitForEvent, RaiseTPL
<1>2. CASE Core
  BY <1>2 DEF Core, RestoreTplDispatch, RestoreTplNoMore, RestoreTplLower, DispatchNext,
              DispatchDone, CheckTimersStart, CheckTimersFire, CheckTimersRearm,
              CheckTimersDone, NotifySignalList, SetTimerArm, PollNotify, PollResult,
              RestoreTPL, NotifyReturn
<1>3. CASE TimerInterrupt
  BY <1>3 DEF TimerInterrupt
<1> QED BY <1>1, <1>2, <1>3 DEF Next

LEMMA NoticesUnchanged ==
  ASSUME Next
  PROVE  \/ UNCHANGED notices
         \/ \E e \in Events : SignalEvent(e)
         \/ DispatchNext \/ DispatchDone
         \/ CheckTimersFire \/ CheckTimersRearm \/ SetTimerArm \/ TimerInterrupt
         \/ NotifySignalList \/ CloseEventUnlink \/ PollNotify \/ PollResult
<1>1. CASE Services
  BY <1>1 DEF Services, CreateEvent, SetTimerCancel, SetTimer, CloseEvent, CheckEvent,
              WaitForEvent, RaiseTPL
<1>2. CASE Core
  BY <1>2 DEF Core, RestoreTplDispatch, RestoreTplNoMore, RestoreTplLower, CheckTimersStart,
              CheckTimersDone, CloseEventFree, RestoreTPL, NotifyReturn
<1> QED BY <1>1, <1>2 DEF Next

\* No signal is lost.
LEMMA NoticesStep ==
  ASSUME CpuInv, DataInv, CreatedInv, SignalInv, Next
  PROVE  /\ NoticesInv' /\ ObjectsInv' /\ SignalInv'
         /\ (\A e \in Events \ (live \cup closed) : sig[e] = 0)'
<1> DEFINE F == Users(stack, {"free"})
           G == Users(stack, {"signalGroup", "free"})
           F2 == Users(stack', {"free"})
           G2 == Users(stack', {"signalGroup", "free"})
           Listed(l, s, f) == \A e \in l : Kind[e] = "signal" => e \in Range(s) \cup f
           Told(e) == Queued(e) \/ e \in G
           Told2(e) == Queued(e)' \/ e \in G2
           Goal == /\ NoticesInv' /\ ObjectsInv'
                   /\ Listed(live', sigList', F2)
                   /\ \A e \in live' \cup {CheckTimerEvent} :
                        KindOf(e) = "signal" /\ sig'[e] = 1 => Told2(e)
                   /\ \A e \in Events \ (live' \cup closed') : sig'[e] = 0
<1>0. /\ NoticesInv /\ sigList \in Seq(Events) /\ live \subseteq Events /\ closed \subseteq Events
      /\ Listed(live, sigList, F)
      /\ \A e \in live \cup {CheckTimerEvent} : KindOf(e) = "signal" /\ sig[e] = 1 => Told(e)
      /\ \A e \in Events \ (live \cup closed) : sig[e] = 0
      /\ sig \in [AllEvents -> {0, 1}]
  BY DEF DataInv, NoticesInv, ObjectsInv, CreatedInv, SignalInv
<1>1. SUFFICES Goal
  BY DEF SignalInv
<1>2. F \subseteq G /\ F2 \subseteq G2
  BY DEF Users
<1>3. calls' \in 0 .. MaxCalls
  BY CallsStep DEF DataInv, ObjectsInv
<1> DEFINE n == Len(stack)
<1>4. /\ StackOK(stack) /\ n \in 1 .. n /\ FrameOK(stack[n]) /\ Top = stack[n]
      /\ Under = Front(stack)
  <2>1. stack \in Seq(Range(stack)) /\ stack # <<>>
    BY DEF CpuInv, StackOK
  <2>2. n \in Nat \ {0}
    BY <2>1, FrontFacts
  <2>3. FrameOK(stack[n])
    BY <2>2 DEF CpuInv, StackOK
  <2> QED BY <2>1, <2>2, <2>3 DEF CpuInv, Top, Last, Under
<1>5. /\ Events \subseteq AllEvents /\ CheckTimerEvent \in AllEvents /\ CheckTimerEvent \notin Events
      /\ \A e \in Events : KindOf(e) = Kind[e]
      /\ TimerEvents \subseteq Events
  BY EventFacts
<1>6. NotifySignalList \/ CloseEventFree \/ (F \subseteq F2 /\ G \subseteq G2)
  <2>1. ASSUME NEW in, Moves(in, {}, {}) PROVE F \subseteq F2 /\ G \subseteq G2
    BY <2>1 DEF Moves
  <2>2. ASSUME NEW e \in Events, NEW repeat \in BOOLEAN, NEW d \in Delays, SetTimer(e, repeat, d)
        PROVE  \E in : Moves(in, {}, {})
    BY <2>2, MovesFacts DEF SetTimer, CancelTimer
  <2>3. CASE CheckTimersFire
    <3>1. stack' = stack \/ \E x : stack' = Append(stack, x)
      BY <2>3 DEF CheckTimersFire, Continue
    <3>2. \E in : Moves(in, {}, {})
      BY <3>1, MovesFacts
    <3> QED BY <2>1, <3>2
  <2> QED BY <2>1, <2>2, <2>3, QuietSteps
<1> HIDE DEF F, G, F2, G2, n
\* An action that loses no notification.
<1>7. ASSUME NoticesInv', UNCHANGED objects, F \subseteq F2,
             \A x \in live \cup {CheckTimerEvent} :
               KindOf(x) = "signal" /\ sig'[x] = 1 => Told2(x),
             \A x \in Events \ (live \cup closed) : sig'[x] = 0
      PROVE  Goal
  <2>1. sigList' = sigList /\ live' = live /\ closed' = closed
    BY <1>7 DEF objects
  <2>2. ObjectsInv'
    BY <1>0, <1>3, <2>1 DEF ObjectsInv
  <2> QED BY <1>0, <1>7, <2>1, <2>2
<1>8. ASSUME NoticesInv', UNCHANGED objects, F \subseteq F2, G \subseteq G2,
             \A x \in AllEvents : Queued(x) => Queued(x)',
             \A x \in AllEvents : sig'[x] = sig[x] \/ sig'[x] = 0
      PROVE  Goal
  <2>1. ASSUME NEW x \in live \cup {CheckTimerEvent}, KindOf(x) = "signal", sig'[x] = 1
        PROVE  Told2(x)
    <3>1. x \in AllEvents
      BY <1>0, <1>5
    <3>2. sig[x] = 1
      BY <1>8, <2>1, <3>1
    <3>3. Told(x)
      BY <1>0, <2>1, <3>2
    <3> QED BY <1>8, <3>1, <3>3
  <2>2. \A x \in Events \ (live \cup closed) : sig'[x] = 0
    BY <1>0, <1>5, <1>8
  <2> QED BY <1>7, <1>8, <2>1, <2>2
<1>9. ASSUME UNCHANGED notices, UNCHANGED objects, F \subseteq F2, G \subseteq G2
      PROVE  Goal
  <2>1. queue' = queue /\ pending' = pending /\ sig' = sig
    BY <1>9 DEF notices
  <2>2. NoticesInv' /\ \A x \in AllEvents : Queued(x) => Queued(x)'
    BY <1>0, <2>1 DEF NoticesInv, Queued
  <2>3. \A x \in AllEvents : sig'[x] = sig[x]
    BY <2>1
  <2> QED BY <1>8, <1>9, <2>2, <2>3
\* An action that signals an event.
<1>10. ASSUME NEW e \in live \cup closed \cup {CheckTimerEvent}, SignalMasked(e),
              UNCHANGED objects, F \subseteq F2, G \subseteq G2
       PROVE  Goal
  <2>0. e \in AllEvents
    BY <1>0, <1>5
  <2>1. /\ NoticesInv'
        /\ \A x \in AllEvents : Queued(x) => Queued(x)'
        /\ \A x \in AllEvents \ {e} : sig'[x] = sig[x]
        /\ \/ sig[e] = 1 /\ sig'[e] = 1 /\ UNCHANGED queue
           \/ KindOf(e) # "signal"
           \/ Queued(e)'
           \/ e \in Events /\ e \notin Range(sigList)
    BY <1>0, <1>10, <2>0, SignalStep
  <2>2. ASSUME NEW x \in live \cup {CheckTimerEvent}, KindOf(x) = "signal", sig'[x] = 1
        PROVE  Told2(x)
    <3>1. x \in AllEvents
      BY <1>0, <1>5
    <3>2. CASE sig[x] = 1
      <4>1. Told(x)
        BY <1>0, <2>2, <3>2
      <4> QED BY <1>10, <2>1, <3>1, <4>1
    <3>3. CASE sig[x] # 1
      <4>1. x = e
        BY <2>1, <2>2, <3>1, <3>3
      <4>2. Queued(e)' \/ (e \in Events /\ e \notin Range(sigList))
        BY <2>1, <2>2, <3>3, <4>1
      <4>3. ASSUME e \in Events, e \notin Range(sigList) PROVE e \in G2
        <5>1. e \in live /\ Kind[e] = "signal"
          BY <1>5, <2>2, <4>1, <4>3
        <5>2. e \in F
          BY <1>0, <4>3, <5>1
        <5> QED BY <1>2, <1>10, <5>2
      <4> QED BY <4>1, <4>2, <4>3
    <3> QED BY <3>2, <3>3
  <2>3. \A x \in Events \ (live \cup closed) : sig'[x] = 0
    BY <1>0, <1>5, <1>10, <2>1
  <2> QED BY <1>7, <1>10, <2>1, <2>2, <2>3
<1>11. ASSUME Top.at \notin {"signalGroup", "free"} PROVE F \subseteq F2 /\ G \subseteq G2
  BY <1>6, <1>11 DEF NotifySignalList, CloseEventFree, At
<1>12. ASSUME NEW e \in Events, CreateEvent(e) PROVE Goal
  <2>1. /\ e \notin live \cup closed /\ live' = live \cup {e} /\ closed' = closed
        /\ sigList' = IF Kind[e] = "signal" THEN <<e>> \o sigList ELSE sigList
        /\ queue' = queue /\ pending' = pending /\ sig' = sig
    BY <1>12 DEF CreateEvent, notices
  <2>2. F \subseteq F2 /\ G \subseteq G2
    BY <1>11, <1>12 DEF CreateEvent, MayCall, Running
  <2>3. <<e>> \in Seq(Events) /\ e \in Range(<<e>>)
    <3>1. 1 \in DOMAIN <<e>> /\ <<e>>[1] = e
      OBVIOUS
    <3> QED BY <3>1 DEF Range
  <2>4. <<e>> \o sigList \in Seq(Events) /\ Range(<<e>> \o sigList) = Range(<<e>>) \cup Range(sigList)
    <3> DEFINE one == <<e>>
    <3>1. one \in Seq(Events)
      BY <2>3
    <3> HIDE DEF one
    <3>2. one \o sigList \in Seq(Events) /\ Range(one \o sigList) = Range(one) \cup Range(sigList)
      BY <1>0, <3>1, RangeConcatenation
    <3> QED BY <3>2 DEF one
  <2>5. /\ sigList' \in Seq(Events) /\ Range(sigList) \subseteq Range(sigList')
        /\ Kind[e] = "signal" => e \in Range(sigList')
    BY <1>0, <2>1, <2>3, <2>4
  <2>6. NoticesInv' /\ \A x : Queued(x) => Queued(x)'
    BY <1>0, <2>1 DEF NoticesInv, Queued
  <2>7. ObjectsInv'
    BY <1>0, <1>3, <2>1, <2>5 DEF ObjectsInv
  <2>8. Listed(live', sigList', F2)
    BY <1>0, <2>1, <2>2, <2>5
  <2>9. ASSUME NEW x \in live' \cup {CheckTimerEvent}, KindOf(x) = "signal", sig'[x] = 1
        PROVE  Told2(x)
    <3>1. sig[e] = 0
      BY <1>0, <2>1
    <3>2. x \in live \cup {CheckTimerEvent} /\ sig[x] = 1
      BY <2>1, <2>9, <3>1
    <3>3. Told(x)
      BY <1>0, <2>9, <3>2
    <3> QED BY <2>2, <2>6, <3>3
  <2>10. \A x \in Events \ (live' \cup closed') : sig'[x] = 0
    BY <1>0, <2>1
  <2> QED BY <2>6, <2>7, <2>8, <2>9, <2>10
<1>13. ASSUME NEW e \in Events, SignalEvent(e) PROVE Goal
  <2>1. F \subseteq F2 /\ G \subseteq G2 /\ e \in live /\ UNCHANGED objects
    BY <1>11, <1>13 DEF SignalEvent, MayCall, Running
  <2>2. CASE SignalMasked(e)
    BY <1>10, <2>1, <2>2
  <2>3. CASE ~SignalMasked(e)
    <3> DEFINE x == Call("signalGroup", e)
    <3>1. /\ sig' = [sig EXCEPT ![e] = 1] /\ queue' = queue /\ pending' = pending
          /\ stack' = Append(Append(stack, x), Restore(tpl))
      BY <1>13, <2>3 DEF SignalEvent, Locked
    <3>2. EventOf(x, {"signalGroup", "free"}) = {e}
      BY DEF EventOf, Call
    <3> HIDE DEF x
    <3>3. e \in G2
      <4>1. Users(Append(Append(stack, x), Restore(tpl)), {"signalGroup", "free"}) =
              Users(stack, {"signalGroup", "free"}) \cup EventOf(x, {"signalGroup", "free"})
                \cup EventOf(Restore(tpl), {"signalGroup", "free"})
        BY <1>4, StackUsers
      <4> QED BY <3>1, <3>2, <4>1 DEF G2
    <3>4. sig' \in [AllEvents -> {0, 1}] /\ \A y \in AllEvents \ {e} : sig'[y] = sig[y]
      BY <1>0, <1>5, <3>1
    <3>5. NoticesInv' /\ \A y : Queued(y) => Queued(y)'
      BY <1>0, <3>1, <3>4 DEF NoticesInv, Queued
    <3>6. ASSUME NEW y \in live \cup {CheckTimerEvent}, KindOf(y) = "signal", sig'[y] = 1
          PROVE  Told2(y)
      <4>1. CASE y = e
        BY <3>3, <4>1
      <4>2. CASE y # e
        <5>1. sig[y] = 1
          BY <1>0, <1>5, <3>4, <3>6, <4>2
        <5>2. Told(y)
          BY <1>0, <3>6, <5>1
        <5> QED BY <2>1, <3>5, <5>2
      <4> QED BY <4>1, <4>2
    <3>7. \A y \in Events \ (live \cup closed) : sig'[y] = 0
      BY <1>0, <1>5, <2>1, <3>4
    <3> QED BY <1>7, <2>1, <3>5, <3>6, <3>7
  <2> QED BY <2>2, <2>3
<1>14. CASE DispatchNext
  <2> DEFINE q == queue[Top.tpl]
             e == Head(q)
  <2>1. /\ Top.at = "dispatch" /\ q # <<>> /\ UNCHANGED objects /\ pending' = pending
        /\ queue' = [queue EXCEPT ![Top.tpl] = Tail(q)]
        /\ sig' = IF KindOf(e) = "signal" THEN [sig EXCEPT ![e] = 0] ELSE sig
    BY <1>14 DEF DispatchNext, At
  <2>2. F \subseteq F2 /\ G \subseteq G2
    BY <1>11, <2>1
  <2>3. Top.tpl \in NotifyTpls
    BY <1>4, <2>1 DEF FrameOK
  <2>4. q \in Seq(AllEvents)
    BY <1>0, <2>3 DEF NoticesInv
  <2>5. Tail(q) \in Seq(AllEvents) /\ e \in AllEvents /\ Range(q) = Range(Tail(q)) \cup {e}
    BY <2>1, <2>4, TailFacts
  <2>6. queue \in [NotifyTpls -> Seq(AllEvents)]
        /\ \A p \in NotifyTpls : Range(queue[p]) \subseteq {x \in AllEvents : NotifyTpl(x) = p}
    BY <1>0 DEF NoticesInv
  <2>7. /\ queue' \in [NotifyTpls -> Seq(AllEvents)] /\ queue'[Top.tpl] = Tail(q)
        /\ \A p \in NotifyTpls \ {Top.tpl} : queue'[p] = queue[p]
    <3> HIDE DEF q
    <3> QED BY <2>1, <2>3, <2>5, <2>6
  <2>8. sig' \in [AllEvents -> {0, 1}] /\ \A x \in AllEvents : sig'[x] = sig[x] \/ sig'[x] = 0
    <3> HIDE DEF e
    <3> QED BY <1>0, <2>1, <2>5
  <2>9. KindOf(e) = "signal" => sig'[e] = 0
    <3> HIDE DEF e
    <3> QED BY <1>0, <2>1, <2>5
  <2> HIDE DEF e
  <2>10. \A p \in NotifyTpls : Range(queue'[p]) \subseteq Range(queue[p])
    <3> SUFFICES ASSUME NEW p \in NotifyTpls PROVE Range(queue'[p]) \subseteq Range(queue[p])
      OBVIOUS
    <3>1. CASE p = Top.tpl
      BY <2>5, <2>7, <3>1
    <3>2. CASE p # Top.tpl
      BY <2>7, <3>2
    <3> QED BY <3>1, <3>2
  <2>11. NoticesInv'
    <3>1. pending' \subseteq NotifyTpls
      BY <1>0, <2>1 DEF NoticesInv
    <3>2. \A p \in NotifyTpls : Range(queue'[p]) \subseteq {x \in AllEvents : NotifyTpl(x) = p}
      BY <2>6, <2>10
    <3> QED BY <2>7, <2>8, <3>1, <3>2 DEF NoticesInv
  <2>12. ASSUME NEW x, x # e, Queued(x) PROVE Queued(x)'
    <3>1. PICK p \in NotifyTpls : x \in Range(queue[p])
      BY <2>12 DEF Queued
    <3>2. x \in Range(queue'[p])
      <4>1. CASE p = Top.tpl
        BY <2>5, <2>7, <2>12, <3>1, <4>1
      <4>2. CASE p # Top.tpl
        BY <2>7, <3>1, <4>2
      <4> QED BY <4>1, <4>2
    <3> QED BY <3>2 DEF Queued
  <2>13. ASSUME NEW x \in live \cup {CheckTimerEvent}, KindOf(x) = "signal", sig'[x] = 1
         PROVE  Told2(x)
    <3>1. x \in AllEvents /\ x # e
      BY <1>0, <1>5, <2>9, <2>13
    <3>2. sig[x] = 1
      BY <2>8, <2>13, <3>1
    <3>3. Told(x)
      BY <1>0, <2>13, <3>2
    <3> QED BY <2>2, <2>12, <3>1, <3>3
  <2>14. \A x \in Events \ (live \cup closed) : sig'[x] = 0
    BY <1>0, <1>5, <2>8
  <2> QED BY <1>7, <2>1, <2>2, <2>11, <2>13, <2>14
<1>15. CASE DispatchDone
  <2>1. /\ Top.at = "dispatch" /\ queue' = queue /\ sig' = sig /\ pending' = pending \ {Top.tpl}
        /\ UNCHANGED objects
    BY <1>15 DEF DispatchDone, At
  <2>2. NoticesInv' /\ \A x : Queued(x) => Queued(x)'
    BY <1>0, <2>1 DEF NoticesInv, Queued
  <2>3. \A x \in AllEvents : sig'[x] = sig[x]
    BY <2>1
  <2>4. F \subseteq F2 /\ G \subseteq G2
    BY <1>11, <2>1
  <2> QED BY <1>8, <2>1, <2>2, <2>3, <2>4
\* The timers.
<1>16. CASE CheckTimersFire
  <2> DEFINE e == Head(timers)
  <2>1. timers # <<>> /\ SignalMasked(e) /\ UNCHANGED objects /\ Top.at = "checkTimers"
    BY <1>16 DEF CheckTimersFire, Expired, At
  <2>2. timers \in Seq(TimerEvents) /\ Range(timers) \subseteq live \cup closed
    BY DEF DataInv, ClockInv, CreatedInv
  <2>3. e \in Range(timers)
    BY <2>1, <2>2, TailFacts
  <2>4. F \subseteq F2 /\ G \subseteq G2
    BY <1>11, <2>1
  <2> HIDE DEF e
  <2> QED BY <1>10, <2>1, <2>2, <2>3, <2>4
<1>17. CASE CheckTimersRearm \/ SetTimerArm
  <2>1. /\ Top.at \in {"rearm", "arm"} /\ UNCHANGED objects
        /\ SignalMasked(CheckTimerEvent) \/ UNCHANGED notices
    BY <1>17 DEF CheckTimersRearm, SetTimerArm, At
  <2>2. F \subseteq F2 /\ G \subseteq G2
    BY <1>11, <2>1
  <2> QED BY <1>9, <1>10, <2>1, <2>2
<1>18. CASE TimerInterrupt
  <2>1. /\ UNCHANGED objects /\ stack' = Append(stack, Restore(tpl))
        /\ SignalMasked(CheckTimerEvent) \/ UNCHANGED notices
    BY <1>18 DEF TimerInterrupt, Locked
  <2>2. Moves(EventOf(Restore(tpl), {"arm", "rearm"}), {}, {})
    BY <2>1, MovesFacts
  <2>3. F \subseteq F2 /\ G \subseteq G2
    BY <2>2 DEF Moves, F, F2, G, G2
  <2> QED BY <1>9, <1>10, <2>1, <2>3
\* CoreNotifySignalList.
<1>19. CASE NotifySignalList
  <2> DEFINE g == Top.ev
             evs == GroupMembers(g)
             S == {x \in Events : GroupOf[x] = GroupOf[g]}
  <2>1. /\ Top.at = "signalGroup" /\ CoreNotifyEvents(evs) /\ sig' = sig /\ UNCHANGED objects
        /\ stack' = Append(Under, Restore(tpl))
    BY <1>19 DEF NotifySignalList, At, Locked
  <2>2. g \in Events
    BY <1>4, <2>1 DEF FrameOK
  <2>3. F \subseteq F2 /\ G \subseteq G2 \cup {g}
    <3>1. Restore(tpl).at \notin {"arm", "rearm"}
      BY DEF Restore
    <3>2. Moves({}, EventOf(Top, {"free"}), EventOf(Top, {"signalGroup", "free"}))
      BY <2>1, <3>1, MovesFacts
    <3>3. EventOf(Top, {"free"}) = {} /\ EventOf(Top, {"signalGroup", "free"}) = {g}
      BY <2>1 DEF EventOf
    <3> QED BY <3>2, <3>3 DEF Moves, F, F2, G, G2
  <2>4. evs \in Seq(AllEvents) /\ (g \in Range(sigList) => g \in Range(evs))
    <3>1. evs \in Seq(Events) /\ Range(evs) = Range(sigList) \cap S
      BY <1>0, KeepFacts DEF GroupMembers
    <3>2. evs \in Seq(AllEvents)
      BY <1>5, <3>1, SeqMonotonic
    <3>3. g \in S
      BY <2>2
    <3> QED BY <3>1, <3>2, <3>3
  <2> HIDE DEF evs, g
  <2>5. /\ queue' \in [NotifyTpls -> Seq(AllEvents)]
        /\ \A p \in NotifyTpls : Range(queue'[p]) \subseteq {y \in AllEvents : NotifyTpl(y) = p}
        /\ pending' \subseteq NotifyTpls
        /\ \A x \in AllEvents : Queued(x) \/ x \in Range(evs) => Queued(x)'
    BY <1>0, <2>1, <2>4, NotifyEventsStep
  <2>6. NoticesInv'
    BY <1>0, <2>1, <2>5 DEF NoticesInv
  <2>7. ASSUME NEW x \in live \cup {CheckTimerEvent}, KindOf(x) = "signal", sig'[x] = 1
        PROVE  Told2(x)
    <3>1. x \in AllEvents /\ sig[x] = 1
      BY <1>0, <1>5, <2>1, <2>7
    <3>2. Queued(x) \/ x \in G
      BY <1>0, <2>7, <3>1
    <3>3. CASE x # g \/ Queued(x)
      BY <2>3, <2>5, <3>1, <3>2, <3>3
    <3>4. CASE x = g
      <4>1. g \in live /\ Kind[g] = "signal"
        BY <1>5, <2>2, <2>7, <3>4
      <4>2. g \in Range(sigList) \/ g \in F
        BY <1>0, <4>1
      <4> QED BY <1>2, <2>3, <2>4, <2>5, <3>1, <3>4, <4>2
    <3> QED BY <3>3, <3>4
  <2>8. \A x \in Events \ (live \cup closed) : sig'[x] = 0
    BY <1>0, <2>1
  <2> QED BY <1>7, <2>1, <2>3, <2>6, <2>7, <2>8
\* CoreCloseEvent.
<1>20. CASE CloseEventUnlink
  <2> DEFINE e == Top.ev
             x == Call("free", e)
  <2>1. /\ Top.at = "unlink" /\ queue' = [p \in NotifyTpls |-> Unlink(queue[p], e)]
        /\ sigList' = Unlink(sigList, e) /\ live' = live /\ closed' = closed
        /\ sig' = sig /\ pending' = pending
        /\ stack' = Append(Append(Under, x), Restore(tpl))
    BY <1>20 DEF CloseEventUnlink, At, Locked
  <2>2. F \subseteq F2 /\ G \subseteq G2
    BY <1>11, <2>1
  <2>3. EventOf(x, {"free"}) = {e}
    BY DEF EventOf, Call
  <2> HIDE DEF x, e
  <2>4. e \in F2 /\ e \in G2
    <3>1. e \in F2
      <4>1. Users(Append(Append(Front(stack), x), Restore(tpl)), {"free"}) =
              Users(Front(stack), {"free"}) \cup EventOf(x, {"free"})
                \cup EventOf(Restore(tpl), {"free"})
        BY <1>4, StackUsers
      <4> QED BY <1>4, <2>1, <2>3, <4>1 DEF F2
    <3> QED BY <1>2, <3>1
  <2>5. sigList' \in Seq(Events) /\ Range(sigList') = Range(sigList) \ {e}
    BY <1>0, <1>5, <2>1, UnlinkFacts
  <2>6. ASSUME NEW p \in NotifyTpls
        PROVE  queue'[p] \in Seq(AllEvents) /\ Range(queue'[p]) = Range(queue[p]) \ {e}
    <3>1. queue[p] \in Seq(AllEvents) /\ queue'[p] = Unlink(queue[p], e)
      BY <1>0, <2>1 DEF NoticesInv
    <3> QED BY <3>1, UnlinkFacts
  <2>7. NoticesInv'
    <3>1. queue' \in [NotifyTpls -> Seq(AllEvents)]
      BY <2>1, <2>6
    <3>2. \A p \in NotifyTpls : Range(queue'[p]) \subseteq {y \in AllEvents : NotifyTpl(y) = p}
      BY <1>0, <2>6 DEF NoticesInv
    <3> QED BY <1>0, <2>1, <3>1, <3>2 DEF NoticesInv
  <2>8. \A y : y # e /\ Queued(y) => Queued(y)'
    BY <2>6 DEF Queued
  <2>9. ObjectsInv'
    BY <1>0, <1>3, <2>1, <2>5 DEF ObjectsInv
  <2>10. Listed(live', sigList', F2)
    BY <1>0, <2>1, <2>2, <2>4, <2>5
  <2>11. ASSUME NEW y \in live' \cup {CheckTimerEvent}, KindOf(y) = "signal", sig'[y] = 1
         PROVE  Told2(y)
    <3>1. Told(y)
      BY <1>0, <2>1, <2>11
    <3> QED BY <2>2, <2>4, <2>8, <3>1
  <2>12. \A y \in Events \ (live' \cup closed') : sig'[y] = 0
    BY <1>0, <2>1
  <2> QED BY <2>7, <2>9, <2>10, <2>11, <2>12
<1>21. CASE CloseEventFree
  <2> DEFINE e == Top.ev
  <2>1. /\ Top.at = "free" /\ live' = live \ {e} /\ closed' = closed \cup {e} /\ sigList' = sigList
        /\ queue' = queue /\ pending' = pending /\ sig' = sig /\ stack' = Under
    BY <1>21 DEF CloseEventFree, At, Continue, notices
  <2>2. e \in Events
    BY <1>4, <2>1 DEF FrameOK
  <2>3. F \subseteq F2 \cup {e} /\ G \subseteq G2 \cup {e}
    <3>1. Moves({}, EventOf(Top, {"free"}), EventOf(Top, {"signalGroup", "free"}))
      BY <2>1, MovesFacts
    <3>2. EventOf(Top, {"free"}) = {e} /\ EventOf(Top, {"signalGroup", "free"}) = {e}
      BY <2>1 DEF EventOf
    <3> QED BY <3>1, <3>2 DEF Moves, F, F2, G, G2
  <2> HIDE DEF e
  <2>4. NoticesInv' /\ \A x : Queued(x) => Queued(x)'
    BY <1>0, <2>1 DEF NoticesInv, Queued
  <2>5. ObjectsInv'
    BY <1>0, <1>3, <2>1, <2>2 DEF ObjectsInv
  <2>6. Listed(live', sigList', F2)
    BY <1>0, <2>1, <2>3
  <2>7. ASSUME NEW x \in live' \cup {CheckTimerEvent}, KindOf(x) = "signal", sig'[x] = 1
        PROVE  Told2(x)
    <3>1. Told(x) /\ x # e
      BY <1>0, <1>5, <2>1, <2>2, <2>7
    <3> QED BY <2>3, <2>4, <3>1
  <2>8. \A x \in Events \ (live' \cup closed') : sig'[x] = 0
    BY <1>0, <2>1
  <2> QED BY <2>4, <2>5, <2>6, <2>7, <2>8
\* CoreCheckEvent.
<1>22. CASE PollNotify
  <2> DEFINE e == Top.evs[Top.i]
  <2>1. /\ Top.at = "poll" /\ UNCHANGED objects
        /\ UNCHANGED notices \/ (CoreNotifyEvents(<<e>>) /\ sig' = sig)
    BY <1>22 DEF PollNotify, At
  <2>2. F \subseteq F2 /\ G \subseteq G2
    BY <1>11, <2>1
  <2>3. CASE UNCHANGED notices
    BY <1>9, <2>1, <2>2, <2>3
  <2>4. CASE CoreNotifyEvents(<<e>>) /\ sig' = sig
    <3>1. Top.evs \in Seq(Events) /\ Top.i \in 1 .. Len(Top.evs)
      BY <1>4, <2>1 DEF FrameOK
    <3>2. e \in AllEvents
      BY <1>5, <3>1
    <3> HIDE DEF e
    <3>3. <<e>> \in Seq(AllEvents)
      BY <3>2
    <3>4. /\ queue' \in [NotifyTpls -> Seq(AllEvents)]
          /\ \A p \in NotifyTpls : Range(queue'[p]) \subseteq {y \in AllEvents : NotifyTpl(y) = p}
          /\ pending' \subseteq NotifyTpls
          /\ \A x \in AllEvents : Queued(x) => Queued(x)'
      BY <1>0, <2>4, <3>3, NotifyEventsStep
    <3>5. NoticesInv'
      BY <1>0, <2>4, <3>4 DEF NoticesInv
    <3>6. \A x \in AllEvents : sig'[x] = sig[x]
      BY <2>4
    <3> QED BY <1>8, <2>1, <2>2, <3>4, <3>5, <3>6
  <2> QED BY <2>1, <2>3, <2>4
<1>23. CASE PollResult
  <2> DEFINE e == Top.evs[Top.i]
  <2>1. /\ Top.at = "polled" /\ UNCHANGED objects /\ queue' = queue /\ pending' = pending
        /\ sig' = sig \/ sig' = [sig EXCEPT ![e] = 0]
    BY <1>23 DEF PollResult, At
  <2>2. F \subseteq F2 /\ G \subseteq G2
    BY <1>11, <2>1
  <2> HIDE DEF e
  <2>3. sig' \in [AllEvents -> {0, 1}] /\ \A x \in AllEvents : sig'[x] = sig[x] \/ sig'[x] = 0
    BY <1>0, <2>1
  <2>4. NoticesInv' /\ \A x \in AllEvents : Queued(x) => Queued(x)'
    BY <1>0, <2>1, <2>3 DEF NoticesInv, Queued
  <2> QED BY <1>8, <2>1, <2>2, <2>3, <2>4
<1>24. CASE UNCHANGED notices
  BY <1>6, <1>9, <1>12, <1>19, <1>20, <1>21, <1>24, ObjectsUnchanged
<1> QED BY <1>13, <1>14, <1>15, <1>16, <1>17, <1>18, <1>19, <1>20, <1>22, <1>23, <1>24,
           NoticesUnchanged
------------------------------------------------------------------------------
(***************************************************************************)
(* The theorems                                                            *)
(***************************************************************************)
LEMMA InitOK ==
  ASSUME Init
  PROVE  IInv
<1> USE DxeEventAssumption
<1> DEFINE f == Code("app", App, Application, Application)
<1>1. f.at = "app" /\ f.ev = App /\ f.level = Application
  BY DEF Code
<1> HIDE DEF f
<1>2. /\ stack = <<f>> /\ tpl = Application /\ intr = TRUE
      /\ queue = [p \in NotifyTpls |-> <<>>] /\ pending = {} /\ sig = [e \in AllEvents |-> 0]
      /\ timers = <<>> /\ trigger = [e \in Events |-> 0] /\ period = [e \in Events |-> 0]
      /\ now = 0 /\ live = Range(Existing) /\ closed = {} /\ calls = 0
      /\ sigList = Keep(Existing, {e \in Events : Kind[e] = "signal"})
  BY DEF Init, f
<1>3. /\ stack \in Seq(Range(stack)) /\ stack # <<>> /\ Len(stack) = 1 /\ stack[1] = f
      /\ DOMAIN stack = {1}
  <2>1. /\ <<f>> # <<>> /\ Len(<<f>>) = 1 /\ <<f>>[1] = f /\ DOMAIN <<f>> = {1}
        /\ <<f>> \in Seq({f})
    OBVIOUS
  <2>2. <<f>> \in Seq(Range(<<f>>))
    BY <2>1, SeqOfRange DEF Range
  <2> QED BY <1>2, <2>1, <2>2
<1>4. CpuInv
  <2>1. FrameOK(f)
    BY <1>1 DEF FrameOK, Pcs, CodePcs, Restoring, Tpls
  <2>2. StackOK(stack)
    BY <1>1, <1>3, <2>1 DEF StackOK
  <2>3. Floor(stack, 1) = Application
    BY <1>1, <1>3 DEF Floor, CodePcs
  <2>4. RunsAt(stack, tpl)
    BY <1>1, <1>2, <1>3, <2>3 DEF RunsAt, Restoring
  <2>5. tpl \in Tpls /\ tpl <= TimerTpl
    BY <1>2, TplFacts
  <2> QED BY <1>2, <2>2, <2>4, <2>5 DEF CpuInv
<1>5. \A pcs : "app" \notin pcs => Users(stack, pcs) = {}
  BY <1>1, <1>3 DEF Users
<1>6. Users(stack, {"arm", "rearm"}) = {}
  BY <1>5
<1>7. NoticesInv
  <2>1. \A p \in NotifyTpls : queue[p] = <<>>
    BY <1>2
  <2>2. queue \in [NotifyTpls -> Seq(AllEvents)]
    BY <1>2
  <2>3. \A p \in NotifyTpls : Range(queue[p]) = {}
    BY <2>1 DEF Range
  <2>4. sig \in [AllEvents -> {0, 1}]
    BY <1>2
  <2> QED BY <1>2, <2>2, <2>3, <2>4 DEF NoticesInv
<1>8. ClockInv
  BY <1>2 DEF ClockInv
<1>9. /\ sigList \in Seq(Events)
      /\ Range(sigList) = Range(Existing) \cap {e \in Events : Kind[e] = "signal"}
  BY <1>2, KeepFacts
<1>10. live \subseteq Events
  BY <1>2, RangeOfSeq
<1>11. ObjectsInv
  BY <1>2, <1>9, <1>10 DEF ObjectsInv
<1>12. Range(timers) = {} /\ Sound(timers, trigger)
  BY <1>2 DEF Range, Sound
<1>13. ArmInv
  BY <1>6, <1>12 DEF ArmInv
<1>14. \A e \in AllEvents : sig[e] = 0
  BY <1>2
<1>15. CreatedInv
  BY <1>6, <1>12, <1>14, EventFacts DEF CreatedInv
<1>16. SignalInv
  <2>1. \A e \in live : Kind[e] = "signal" => e \in Range(sigList)
    BY <1>2, <1>9, <1>10
  <2>2. \A e \in live \cup {CheckTimerEvent} : sig[e] = 0
    BY <1>10, <1>14, EventFacts
  <2> QED BY <2>1, <2>2 DEF SignalInv
<1> QED BY <1>4, <1>7, <1>8, <1>11, <1>13, <1>15, <1>16 DEF IInv, DataInv

\* The invariant holds at every moment, whatever the services are called with,
\* whenever the timer interrupts and however deep the interrupts nest.
THEOREM DxeEventInvariant == Spec => []IInv
<1>1. ASSUME IInv, Next PROVE IInv'
  <2>1. CpuInv'
    BY <1>1, CpuStep DEF IInv
  <2>2. ClockInv' /\ ArmInv' /\ (Range(timers) \cup Users(stack, {"arm", "rearm"}) \subseteq live \cup closed)'
    BY <1>1, ClockStep DEF IInv
  <2>3. NoticesInv' /\ ObjectsInv' /\ SignalInv' /\ (\A e \in Events \ (live \cup closed) : sig[e] = 0)'
    BY <1>1, NoticesStep DEF IInv
  <2> QED BY <2>1, <2>2, <2>3 DEF IInv, DataInv, CreatedInv
<1>2. ASSUME IInv, UNCHANGED vars PROVE IInv'
  <2>1. /\ tpl' = tpl /\ intr' = intr /\ stack' = stack
        /\ queue' = queue /\ pending' = pending /\ sig' = sig
        /\ timers' = timers /\ trigger' = trigger /\ period' = period /\ now' = now
        /\ sigList' = sigList /\ live' = live /\ closed' = closed /\ calls' = calls
    BY <1>2 DEF vars, cpu, notices, clock, objects
  <2>2. CpuInv'
    BY <1>2, <2>1 DEF IInv, CpuInv
  <2>3. DataInv'
    BY <1>2, <2>1 DEF IInv, DataInv, NoticesInv, ClockInv, ObjectsInv
  <2>4. ArmInv' /\ CreatedInv' /\ SignalInv'
    BY <1>2, <2>1 DEF IInv, ArmInv, CreatedInv, SignalInv, Queued
  <2> QED BY <2>2, <2>3, <2>4 DEF IInv
<1>3. IInv /\ [Next]_vars => IInv'
  BY <1>1, <1>2
<1> QED BY InitOK, <1>3, PTL DEF Spec

\* The processor state, the queues, the timer list and the counters are of
\* their types.
THEOREM DxeTypeCorrect == Spec => []TypeOK
<1>1. ASSUME IInv PROVE TypeOK
  <2>1. tpl \in {Application, HighLevel} \cup NotifyTpls /\ intr \in BOOLEAN
    BY <1>1 DEF IInv, CpuInv, Tpls
  <2>2. stack # <<>> /\ \A j \in DOMAIN stack : stack[j].at \in Pcs
    <3>1. StackOK(stack)
      BY <1>1 DEF IInv, CpuInv
    <3>2. stack \in Seq(Range(stack)) /\ stack # <<>>
      BY <3>1 DEF StackOK
    <3>3. DOMAIN stack = 1 .. Len(stack)
      BY <3>2, FrontFacts
    <3> QED BY <3>1, <3>2, <3>3 DEF StackOK, FrameOK
  <2>3. NoticesInv /\ ClockInv /\ ObjectsInv
    BY <1>1 DEF IInv, DataInv
  <2>4. Range(timers) \subseteq TimerEvents /\ Range(sigList) \subseteq Events
    BY <2>3, RangeOfSeq DEF ClockInv, ObjectsInv
  <2> QED BY <2>1, <2>2, <2>3, <2>4 DEF TypeOK, NoticesInv, ClockInv, ObjectsInv
<1> QED BY <1>1, DxeEventInvariant, PTL

\* Code at a TPL is preempted by notifications of higher TPLs only and finds
\* its TPL as it was after every service and every interrupt (CoreRestoreTpl).
THEOREM PreemptedByHigherOnlyHolds == Spec => []PreemptedByHigherOnly
<1>1. ASSUME IInv PROVE PreemptedByHigherOnly
  <2> DEFINE n == Len(stack)
  <2>1. StackOK(stack) /\ RunsAt(stack, tpl)
    BY <1>1 DEF IInv, CpuInv
  <2>2. stack \in Seq(Range(stack)) /\ stack # <<>>
    BY <2>1 DEF StackOK
  <2>3. n \in Nat \ {0} /\ DOMAIN stack = 1 .. n
    BY <2>2, FrontFacts
  <2> HIDE DEF n
  <2>4. ASSUME NEW i \in Frames({"app", "notify", "raised"}), NEW j \in Frames({"notify"}), i < j
        PROVE  stack[i].level < stack[j].level
    <3>1. i \in 1 .. n /\ j \in 1 .. n /\ stack[i].at \in CodePcs /\ stack[j].at = "notify"
      BY <2>3, <2>4 DEF Frames, CodePcs
    <3>2. j \in 2 .. n /\ j - 1 \in 1 .. n
      BY <2>3, <2>4, <3>1
    <3>3. Fits(stack[j], stack[j - 1], Floor(stack, j - 1))
      BY <2>1, <3>2 DEF StackOK, n
    <3>4. stack[j - 1].at = "dispatch" /\ stack[j].level = Floor(stack, j - 1)
      BY <3>1, <3>3 DEF Fits
    <3>5. Floor(stack, i) = stack[i].level
      BY <3>1 DEF Floor
    <3>6. i # j - 1
      BY <3>1, <3>4 DEF CodePcs
    <3>7. i < j - 1
      BY <2>4, <3>1, <3>6
    <3>8. Floor(stack, i) < Floor(stack, j - 1)
      BY <2>1, <3>1, <3>2, <3>4, <3>7 DEF StackOK, n
    <3> QED BY <3>4, <3>5, <3>8
  <2>5. ASSUME Running PROVE tpl = Top.level
    <3>1. Top = stack[n] /\ stack[n].at \in CodePcs
      BY <2>5 DEF Running, Top, Last, n, CodePcs
    <3> QED BY <2>1, <3>1 DEF RunsAt, Floor, CodePcs, Restoring, n
  <2> QED BY <2>4, <2>5 DEF PreemptedByHigherOnly
<1> QED BY <1>1, DxeEventInvariant, PTL

\* Two holders of mEfiTimerLock would lie at different places of the stack;
\* the upper one would run at a TPL that the lower one masks.
LEMMA OneHolder ==
  ASSUME NEW s, StackOK(s), NEW i \in 1 .. Len(s), NEW j \in 1 .. Len(s), i < j,
         s[i].at \in LockPcs, s[j].at \in {"arm", "checkTimers"}
  PROVE  FALSE
<1> DEFINE n == Len(s)
<1>1. s \in Seq(Range(s)) /\ s # <<>>
  BY DEF StackOK
<1>2. n \in Nat
  BY <1>1, FrontFacts
<1> HIDE DEF n
<1>3. j \in 2 .. n /\ j - 1 \in 1 .. n /\ i \in 1 .. n
  BY <1>2 DEF n
<1>4. Fits(s[j], s[j - 1], Floor(s, j - 1))
  BY <1>3 DEF StackOK, n
<1>5. Floor(s, i) = TimerTpl
  BY DEF Floor, CodePcs, CallPcs, LockPcs
<1>6. s[j - 1].at \in CodePcs \cup {"dispatch"}
  BY <1>4 DEF Fits
<1>7. i # j - 1
  BY <1>6 DEF CodePcs, LockPcs
<1>8. i < j - 1
  BY <1>2, <1>3, <1>7
<1>9. Floor(s, j - 1) \in Tpls
  BY <1>3, FloorType DEF n
<1>10. CASE s[j].at = "arm"
  <2>1. Floor(s, j - 1) <= Notify
    BY <1>4, <1>10 DEF Fits
  <2>2. Floor(s, i) <= Floor(s, j - 1)
    BY <1>3, <1>8 DEF StackOK, n
  <2> QED BY <1>5, <1>9, <2>1, <2>2, TplFacts
<1>11. CASE s[j].at = "checkTimers"
  <2>1. s[j - 1].at = "dispatch" /\ Floor(s, j - 1) = TimerTpl
    BY <1>4, <1>11 DEF Fits
  <2>2. Floor(s, i) < Floor(s, j - 1)
    BY <1>3, <1>8, <2>1 DEF StackOK, n
  <2> QED BY <1>5, <1>9, <2>1, <2>2, TplFacts
<1> QED BY <1>10, <1>11

\* mEfiTimerLock is never acquired by a call that interrupted its holder: the
\* assertion of CoreAcquireLock cannot fail.
THEOREM TimerLockExclusiveHolds == Spec => []TimerLockExclusive
<1>1. ASSUME IInv PROVE TimerLockExclusive
  <2> DEFINE J == Frames({"arm", "checkTimers"})
             n == Len(stack)
  <2>1. StackOK(stack)
    BY <1>1 DEF IInv, CpuInv
  <2>2. stack \in Seq(Range(stack)) /\ stack # <<>>
    BY <2>1 DEF StackOK
  <2>3. n \in Nat \ {0} /\ DOMAIN stack = 1 .. n
    BY <2>2, FrontFacts
  <2>4. \A i \in J : i \in 1 .. n /\ stack[i].at \in {"arm", "checkTimers"}
    BY <2>3 DEF Frames
  <2> HIDE DEF J, n
  <2>5. ASSUME NEW i \in J, NEW j \in J, i # j PROVE FALSE
    <3>1. i \in 1 .. n /\ j \in 1 .. n
          /\ stack[i].at \in {"arm", "checkTimers"} /\ stack[j].at \in {"arm", "checkTimers"}
      BY <2>4
    <3>2. i < j \/ j < i
      BY <2>3, <2>5, <3>1
    <3> QED BY <2>1, <3>1, <3>2, OneHolder DEF n, LockPcs
  <2>6. CASE J = {}
    <3>1. Cardinality(J) = 0
      BY <2>6, FS_EmptySet
    <3> QED BY <3>1 DEF TimerLockExclusive, J
  <2>7. CASE J # {}
    <3>1. PICK i : i \in J
      BY <2>7
    <3>2. J = {i}
      BY <2>5, <3>1
    <3>3. Cardinality(J) = 1
      BY <3>2, FS_Singleton
    <3> QED BY <3>3 DEF TimerLockExclusive, J
  <2> QED BY <2>6, <2>7
<1> QED BY <1>1, DxeEventInvariant, PTL

\* mEfiTimerList holds every timer once and in the order of expiry, also while
\* timers are cancelled, set and fired from notification functions.
THEOREM TimerListSoundHolds == Spec => []TimerListSound
<1>1. ASSUME IInv PROVE TimerListSound
  <2>1. Sound(timers, trigger)
    BY <1>1 DEF IInv, ArmInv
  <2> QED BY <2>1 DEF Sound, TimerListSound
<1> QED BY <1>1, DxeEventInvariant, PTL

\* A signalled event of type EVT_NOTIFY_SIGNAL is queued, or its signaller or
\* closer is under way: CoreSignalEvent never leaves one that is deaf for good.
THEOREM NoSignalLostHolds == Spec => []NoSignalLost
<1>1. ASSUME IInv PROVE NoSignalLost
  <2>1. SUFFICES ASSUME NEW e \in live \cup {CheckTimerEvent}, KindOf(e) = "signal", sig[e] = 1,
                        ~Queued(e)
                 PROVE  \E j \in Frames({"signalGroup", "free"}) : stack[j].ev = e
    BY DEF NoSignalLost
  <2>2. e \in Users(stack, {"signalGroup", "free"})
    BY <1>1, <2>1 DEF IInv, SignalInv
  <2> QED BY <2>2 DEF Users, Frames
<1> QED BY <1>1, DxeEventInvariant, PTL
------------------------------------------------------------------------------
(***************************************************************************)
(* Events that are closed                                                  *)
(***************************************************************************)
\* The events that a frame goes on to use, and those of a stack.
Needs(x) == IF x.at \in {"arm", "rearm", "signalGroup"} THEN {x.ev}
            ELSE IF x.at \in {"poll", "polled"} THEN Range(x.evs) ELSE {}
Needed(s) == UNION {Needs(s[j]) : j \in DOMAIN s}

\* The frames of CloseEvent, and that no event is closed twice.
EndPcs == {"unlink", "free"}
Ending(s) == Users(s, EndPcs)
OnceEach(s) ==
  \A i, j \in DOMAIN s : i # j /\ s[i].at \in EndPcs /\ s[j].at \in EndPcs => s[i].ev # s[j].ev

\* An event is off the timer list when CloseEvent goes on, off the queues and
\* the list of the groups before it is freed, and nobody puts it back.
CloseInv ==
  /\ (closed \cup Ending(stack)) \cap (Range(timers) \cup Needed(stack)) = {}
  /\ \A e \in closed \cup Users(stack, {"free"}) : ~Queued(e) /\ e \notin Range(sigList)
  /\ Ending(stack) \subseteq live /\ live \cap closed = {}
  /\ OnceEach(stack)

\* Stack t has at most the uses and closings of stack s.
Less(t, s) ==
  /\ t \in Seq(Range(t))
  /\ Needed(t) \subseteq Needed(s)
  /\ Ending(t) \subseteq Ending(s) /\ Users(t, {"free"}) \subseteq Users(s, {"free"})
  /\ OnceEach(s) => OnceEach(t)

LEMMA PushFacts ==
  ASSUME NEW s, s \in Seq(Range(s)), NEW x
  PROVE  /\ Append(s, x) \in Seq(Range(Append(s, x)))
         /\ Needed(Append(s, x)) = Needed(s) \cup Needs(x)
         /\ Ending(Append(s, x)) = Ending(s) \cup EventOf(x, EndPcs)
         /\ Users(Append(s, x), {"free"}) = Users(s, {"free"}) \cup EventOf(x, {"free"})
         /\ OnceEach(s) /\ EventOf(x, EndPcs) \cap Ending(s) = {} => OnceEach(Append(s, x))
<1> DEFINE t == Append(s, x)
           n == Len(s)
<1>1. /\ t \in Seq(Range(t)) /\ n \in Nat
      /\ DOMAIN s = 1 .. n /\ DOMAIN t = 1 .. (n + 1)
      /\ \A j \in 1 .. n : t[j] = s[j]
      /\ t[n + 1] = x
  BY AppendFacts
<1>2. /\ Ending(t) = Ending(s) \cup EventOf(x, EndPcs)
      /\ Users(t, {"free"}) = Users(s, {"free"}) \cup EventOf(x, {"free"})
  BY UsersAppend DEF EventOf, Ending
<1> HIDE DEF t, n
<1>3. DOMAIN t = DOMAIN s \cup {n + 1} /\ \A j \in DOMAIN s : t[j] = s[j]
  BY <1>1
<1>4. Needed(t) = Needed(s) \cup Needs(x)
  BY <1>1, <1>3 DEF Needed
<1>5. ASSUME OnceEach(s), EventOf(x, EndPcs) \cap Ending(s) = {} PROVE OnceEach(t)
  <2>1. ASSUME NEW j \in DOMAIN s, s[j].at \in EndPcs, x.at \in EndPcs PROVE s[j].ev # x.ev
    <3>1. s[j].ev \in Ending(s) /\ EventOf(x, EndPcs) = {x.ev}
      BY <2>1 DEF Ending, Users, EventOf
    <3> QED BY <1>5, <3>1
  <2>2. ASSUME NEW i \in DOMAIN t, NEW j \in DOMAIN t, i # j, t[i].at \in EndPcs, t[j].at \in EndPcs
        PROVE  t[i].ev # t[j].ev
    <3>1. CASE i \in DOMAIN s /\ j \in DOMAIN s
      BY <1>3, <1>5, <2>2, <3>1 DEF OnceEach
    <3>2. CASE i \in DOMAIN s /\ j = n + 1
      BY <1>1, <1>3, <2>1, <2>2, <3>2
    <3>3. CASE i = n + 1 /\ j \in DOMAIN s
      BY <1>1, <1>3, <2>1, <2>2, <3>3
    <3> QED BY <1>3, <2>2, <3>1, <3>2, <3>3
  <2> QED BY <2>2 DEF OnceEach
<1> QED BY <1>1, <1>2, <1>4, <1>5 DEF t

LEMMA PopFacts ==
  ASSUME NEW s, s \in Seq(Range(s)), s # <<>>
  PROVE  /\ Front(s) \in Seq(Range(Front(s)))
         /\ Needed(s) = Needed(Front(s)) \cup Needs(s[Len(s)])
         /\ Ending(s) = Ending(Front(s)) \cup EventOf(s[Len(s)], EndPcs)
         /\ Users(s, {"free"}) = Users(Front(s), {"free"}) \cup EventOf(s[Len(s)], {"free"})
         /\ OnceEach(s) => /\ OnceEach(Front(s))
                           /\ EventOf(s[Len(s)], EndPcs) \cap Ending(Front(s)) = {}
<1> DEFINE t == Front(s)
           n == Len(s)
<1>1. /\ t \in Seq(Range(t)) /\ n \in Nat \ {0}
      /\ DOMAIN s = 1 .. n /\ DOMAIN t = 1 .. (n - 1)
      /\ \A j \in 1 .. (n - 1) : t[j] = s[j]
  BY FrontFacts
<1>2. /\ Ending(s) = Ending(t) \cup EventOf(s[n], EndPcs)
      /\ Users(s, {"free"}) = Users(t, {"free"}) \cup EventOf(s[n], {"free"})
  BY UsersFront DEF EventOf, Ending
<1> HIDE DEF t, n
<1>3. DOMAIN s = DOMAIN t \cup {n} /\ n \notin DOMAIN t /\ \A j \in DOMAIN t : t[j] = s[j]
  BY <1>1
<1>4. Needed(s) = Needed(t) \cup Needs(s[n])
  BY <1>3 DEF Needed
<1>5. ASSUME OnceEach(s)
      PROVE  OnceEach(t) /\ EventOf(s[n], EndPcs) \cap Ending(t) = {}
  <2>1. OnceEach(t)
    BY <1>3, <1>5 DEF OnceEach
  <2>2. ASSUME NEW e \in Ending(t), e \in EventOf(s[n], EndPcs) PROVE FALSE
    <3>1. PICK j \in DOMAIN t : t[j].at \in EndPcs /\ e = t[j].ev
      BY <2>2 DEF Ending, Users
    <3>2. s[n].at \in EndPcs /\ e = s[n].ev
      BY <2>2 DEF EventOf
    <3> QED BY <1>3, <1>5, <3>1, <3>2 DEF OnceEach
  <2> QED BY <2>1, <2>2
<1> QED BY <1>1, <1>2, <1>4, <1>5 DEF t, n

\* Frames that use no event and close none.
Plain(x) == x.at \notin {"arm", "rearm", "signalGroup", "poll", "polled", "unlink", "free"}

LEMMA LessFacts ==
  ASSUME NEW s, s \in Seq(Range(s))
  PROVE  /\ Less(s, s)
         /\ \A x : Plain(x) => Less(Append(s, x), s)
         /\ \A t, u : Less(t, s) /\ Less(u, t) => Less(u, s)
         /\ s # <<>> => Less(Front(s), s)
<1>1. Less(s, s)
  BY DEF Less
<1>2. ASSUME NEW x, Plain(x) PROVE Less(Append(s, x), s)
  <2>1. Needs(x) = {} /\ EventOf(x, EndPcs) = {} /\ EventOf(x, {"free"}) = {}
    BY <1>2 DEF Plain, Needs, EventOf, EndPcs
  <2> QED BY <2>1, PushFacts DEF Less, Ending
<1>3. ASSUME NEW t, NEW u, Less(t, s), Less(u, t) PROVE Less(u, s)
  BY <1>3 DEF Less
<1>4. ASSUME s # <<>> PROVE Less(Front(s), s)
  BY <1>4, PopFacts DEF Less, Ending
<1> QED BY <1>1, <1>2, <1>3, <1>4

\* A frame in the place of the last one that needs no more.
LEMMA ReplaceFacts ==
  ASSUME NEW s, s \in Seq(Range(s)), s # <<>>, NEW x, x.at \notin EndPcs,
         Needs(x) \subseteq Needs(s[Len(s)])
  PROVE  Less(Append(Front(s), x), s)
<1>1. /\ Front(s) \in Seq(Range(Front(s)))
      /\ Needed(s) = Needed(Front(s)) \cup Needs(s[Len(s)])
      /\ Ending(s) = Ending(Front(s)) \cup EventOf(s[Len(s)], EndPcs)
      /\ Users(s, {"free"}) = Users(Front(s), {"free"}) \cup EventOf(s[Len(s)], {"free"})
      /\ OnceEach(s) => OnceEach(Front(s))
  BY PopFacts
<1>2. EventOf(x, EndPcs) = {} /\ EventOf(x, {"free"}) = {}
  BY DEF EventOf, EndPcs
<1> QED BY <1>1, <1>2, PushFacts DEF Less, Ending

\* The ways in which most actions change the stack.
LEMMA LessSteps ==
  ASSUME CpuInv
  PROVE  /\ stack' = stack => Less(stack', stack)
         /\ stack' = Under => Less(stack', stack)
         /\ \A x : Plain(x) /\ (stack' = Append(stack, x) \/ stack' = Append(Under, x)) =>
              Less(stack', stack)
         /\ \A x, y : /\ Plain(x) /\ Plain(y)
                      /\ stack' = Append(Append(stack, x), y) \/ stack' = Append(Append(Under, x), y)
                      => Less(stack', stack)
<1>1. stack \in Seq(Range(stack)) /\ stack # <<>> /\ Under = Front(stack)
  BY DEF CpuInv, StackOK, Under
<1>2. Less(stack, stack) /\ Less(Under, stack)
  BY <1>1, LessFacts
<1>3. ASSUME NEW t, Less(t, stack), NEW x, Plain(x) PROVE Less(Append(t, x), stack)
  <2>1. t \in Seq(Range(t))
    BY <1>3 DEF Less
  <2>2. Less(Append(t, x), t)
    BY <1>3, <2>1, LessFacts
  <2> QED BY <1>1, <1>3, <2>2, LessFacts
<1>4. ASSUME NEW x, Plain(x) PROVE Less(Append(stack, x), stack) /\ Less(Append(Under, x), stack)
  BY <1>2, <1>3, <1>4
<1>5. ASSUME NEW x, NEW y, Plain(x), Plain(y)
      PROVE  Less(Append(Append(stack, x), y), stack) /\ Less(Append(Append(Under, x), y), stack)
  BY <1>3, <1>4, <1>5
<1> QED BY <1>2, <1>4, <1>5

\* The events that a careful caller passes to a service other than CloseEvent.
Fresh == live \ Ending(stack)

\* A service on x goes on after what runs above it.
Goes(x) == Less(stack', Append(stack, x)) /\ x.at \notin EndPcs

\* CloseEvent is called: the event is closed once, and nobody needs it.
Closes(e) ==
  /\ CloseEvent(e) /\ ~Closing(e) /\ ~InUse(e)
  /\ Less(stack', Append(stack, Call("unlink", e)))

\* At TPL_APPLICATION only the application runs, and on nothing.
LEMMA ApplicationAlone ==
  ASSUME CpuInv, Running, tpl = Application
  PROVE  Ending(stack) = {}
<1> DEFINE n == Len(stack)
<1>1. StackOK(stack) /\ RunsAt(stack, tpl) /\ Top = stack[n]
  BY DEF CpuInv, Top, Last
<1>2. n \in Nat \ {0} /\ DOMAIN stack = 1 .. n /\ stack[1].at = "app" /\ FrameOK(stack[1])
  BY <1>1, FrontFacts DEF StackOK
<1> HIDE DEF n
<1>3. stack[n].at \in CodePcs /\ stack[n].level = Application
  <2>1. stack[n].at \in CodePcs
    BY <1>1 DEF Running, CodePcs
  <2> QED BY <1>1, <2>1 DEF RunsAt, Floor, CodePcs, Restoring, n
<1>4. ASSUME n # 1 PROVE FALSE
  <2>1. /\ n \in 2 .. n /\ n - 1 \in 1 .. n /\ 1 \in 1 .. n
        /\ n - 1 # 1 => 1 < n - 1
    BY <1>2, <1>4
  <2>2. Fits(stack[n], stack[n - 1], Floor(stack, n - 1)) /\ stack[n].at # "app"
    BY <1>1, <1>2, <1>4, <2>1 DEF StackOK, n
  <2>3. Floor(stack, n - 1) \in Tpls
    BY <1>1, <2>1, FloorType DEF n
  <2>4. CASE stack[n].at = "raised"
    BY <1>3, <2>2, <2>3, <2>4, TplFacts DEF Fits
  <2>5. CASE stack[n].at = "notify"
    <3>1. stack[n - 1].at = "dispatch" /\ Floor(stack, n - 1) = Application
      BY <1>3, <2>2, <2>5 DEF Fits
    <3>2. Floor(stack, 1) = Application
      BY <1>2 DEF Floor, FrameOK, CodePcs
    <3>3. 1 < n - 1
      BY <1>2, <2>1, <3>1
    <3>4. Floor(stack, 1) < Floor(stack, n - 1)
      BY <1>1, <2>1, <3>1, <3>3 DEF StackOK, n
    <3> QED BY <3>1, <3>2, <3>4, TplFacts
  <2> QED BY <1>3, <2>2, <2>4, <2>5 DEF CodePcs
<1> QED BY <1>2, <1>4 DEF Ending, Users, EndPcs

\* What an action does to the events that the frames use and close.
LEMMA FramesStep ==
  ASSUME CpuInv, ClockInv, CarefulNext
  PROVE  \/ Less(stack', stack)
         \/ \E x : Goes(x) /\ Needs(x) \subseteq Range(timers) \cup Fresh
         \/ \E e \in Events : Closes(e)
         \/ CloseEventUnlink /\ Less(stack', Append(Under, Call("free", Top.ev)))
<1> DEFINE Goal == \/ Less(stack', stack)
                   \/ \E x : Goes(x) /\ Needs(x) \subseteq Range(timers) \cup Fresh
                   \/ \E e \in Events : Closes(e)
                   \/ CloseEventUnlink /\ Less(stack', Append(Under, Call("free", Top.ev)))
<1>1. SUFFICES Goal
  OBVIOUS
<1>2. stack \in Seq(Range(stack)) /\ stack # <<>> /\ Under = Front(stack) /\ Top = stack[Len(stack)]
  BY DEF CpuInv, StackOK, Under, Top, Last
<1>3. \A t : Plain(Restore(t)) /\ Plain(Lower(t)) /\ Plain(Dispatch(t)) /\ Plain(Checking(t))
  BY DEF Plain, Restore, Lower, Dispatch, Checking
<1>4. \A pc, e, t, u : pc \in {"notify", "raised"} => Plain(Code(pc, e, t, u))
  BY DEF Plain, Code
<1>5. ASSUME NEW fs, Locked(fs) PROVE stack' = Append(fs, Restore(tpl))
  BY <1>5 DEF Locked
<1>6. ASSUME NEW s, s \in Seq(Range(s)), stack' = s \/ stack' = Append(s, Restore(tpl))
      PROVE  Less(stack', s)
  BY <1>3, <1>6, LessFacts
\* A service is called on an event.
<1>7. ASSUME NEW x, x.at \notin EndPcs, Needs(x) \subseteq Range(timers) \cup Fresh,
             stack' = Append(stack, x) \/ stack' = Append(Append(stack, x), Restore(tpl))
      PROVE  Goal
  <2>1. Append(stack, x) \in Seq(Range(Append(stack, x)))
    BY <1>2, AppendFacts
  <2>2. Less(stack', Append(stack, x))
    BY <1>6, <1>7, <2>1
  <2> QED BY <1>7, <2>2 DEF Goes
<1>8. ASSUME NEW e, NEW x, x.at \in {"arm", "rearm", "signalGroup"}, x.ev = e,
             e \in Range(timers) \cup Fresh
      PROVE  x.at \notin EndPcs /\ Needs(x) \subseteq Range(timers) \cup Fresh
  BY <1>8 DEF EndPcs, Needs
<1>9. ASSUME NEW evs, NEW i, NEW again, Range(evs) \subseteq Fresh
      PROVE  /\ Poll(evs, i, again).at \notin EndPcs
             /\ Needs(Poll(evs, i, again)) \subseteq Range(timers) \cup Fresh
  BY <1>9 DEF EndPcs, Needs, Poll
<1>10. \A e \in live : ~Closing(e) => e \in Fresh
  BY DEF Closing, Fresh, Ending, Users, Frames, EndPcs
<1>11. ASSUME NEW e \in Events, ~Closing(e), SignalEvent(e) PROVE Goal
  <2> DEFINE x == Call("signalGroup", e)
  <2>1. e \in live /\ (stack' = Append(stack, Restore(tpl)) \/ stack' = Append(Append(stack, x), Restore(tpl)))
    BY <1>5, <1>11 DEF SignalEvent
  <2>2. x.at = "signalGroup" /\ x.ev = e
    BY DEF Call
  <2> HIDE DEF x
  <2>3. x.at \notin EndPcs /\ Needs(x) \subseteq Range(timers) \cup Fresh
    BY <1>8, <1>10, <1>11, <2>1, <2>2
  <2> QED BY <1>3, <1>7, <2>1, <2>3, LessSteps
<1>12. ASSUME NEW e \in Events, NEW repeat \in BOOLEAN, NEW d \in Delays, ~Closing(e),
              SetTimer(e, repeat, d)
       PROVE  Goal
  <2> DEFINE x == Arm(e, repeat, IF repeat /\ d = 0 THEN 1 ELSE d)
  <2>1. e \in live /\ stack' = Append(stack, x)
    BY <1>12 DEF SetTimer, CancelTimer
  <2>2. x.at = "arm" /\ x.ev = e
    BY DEF Arm
  <2> HIDE DEF x
  <2>3. x.at \notin EndPcs /\ Needs(x) \subseteq Range(timers) \cup Fresh
    BY <1>8, <1>10, <1>12, <2>1, <2>2
  <2> QED BY <1>7, <2>1, <2>3
<1>13. ASSUME NEW e \in Events, ~Closing(e), CheckEvent(e) PROVE Goal
  <2>1. e \in live /\ stack' = Append(stack, Poll(<<e>>, 1, FALSE))
    BY <1>13 DEF CheckEvent, Continue
  <2>2. Range(<<e>>) = {e}
    <3>1. DOMAIN <<e>> = {1} /\ <<e>>[1] = e
      OBVIOUS
    <3> QED BY <3>1 DEF Range
  <2>3. Range(<<e>>) \subseteq Fresh
    BY <1>10, <1>13, <2>1, <2>2
  <2> QED BY <1>7, <1>9, <2>1, <2>3
<1>14. ASSUME NEW evs \in WaitLists, WaitForEvent(evs) PROVE Goal
  <2>1. /\ Range(evs) \subseteq live /\ stack' = Append(stack, Poll(evs, 1, TRUE))
        /\ Running /\ tpl = Application
    BY <1>14 DEF WaitForEvent, Continue, MayCall
  <2>2. Range(evs) \subseteq Fresh
    BY <2>1, ApplicationAlone DEF Fresh
  <2> QED BY <1>7, <1>9, <2>1, <2>2
<1>15. ASSUME NEW e \in Events, ~Closing(e), ~InUse(e), CloseEvent(e) PROVE Goal
  <2>1. \/ stack' = Append(stack, Call("unlink", e))
        \/ stack' = Append(Append(stack, Call("unlink", e)), Restore(tpl))
    BY <1>15 DEF CloseEvent, CancelTimer, Continue
  <2>2. Append(stack, Call("unlink", e)) \in Seq(Range(Append(stack, Call("unlink", e))))
    BY <1>2, AppendFacts
  <2>3. Less(stack', Append(stack, Call("unlink", e)))
    BY <1>6, <2>1, <2>2
  <2> QED BY <1>15, <2>3 DEF Closes
<1>16. ASSUME NEW e \in Events, CreateEvent(e) \/ SetTimerCancel(e) PROVE Goal
  BY <1>3, <1>5, <1>16, LessSteps DEF CreateEvent, SetTimerCancel, CancelTimer
<1>17. ASSUME NEW t, RaiseTPL(t) PROVE Goal
  <2>1. Plain(Code("raised", Top.ev, t, tpl))
    BY <1>4
  <2> QED BY <1>17, <2>1, LessSteps DEF RaiseTPL
<1>18. CASE CheckTimersFire
  <2> DEFINE x == Call("rearm", Head(timers))
  <2>1. timers # <<>> /\ (stack' = stack \/ stack' = Append(stack, x))
    BY <1>18 DEF CheckTimersFire, Expired, Continue
  <2>2. x.at = "rearm" /\ x.ev = Head(timers)
    BY DEF Call
  <2>3. Head(timers) \in Range(timers)
    BY <2>1, TailFacts DEF ClockInv
  <2> HIDE DEF x
  <2>4. x.at \notin EndPcs /\ Needs(x) \subseteq Range(timers) \cup Fresh
    BY <1>8, <2>2, <2>3
  <2> QED BY <1>7, <2>1, <2>4, LessSteps
<1>19. CASE CloseEventUnlink
  <2> DEFINE x == Call("free", Top.ev)
  <2>1. stack' = Append(Append(Under, x), Restore(tpl))
    BY <1>5, <1>19 DEF CloseEventUnlink
  <2> HIDE DEF x
  <2>2. Append(Under, x) \in Seq(Range(Append(Under, x)))
    BY <1>2, FrontFacts, AppendFacts
  <2>3. Less(stack', Append(Under, x))
    BY <1>6, <2>1, <2>2
  <2> QED BY <1>19, <2>3 DEF x
\* A poll that goes on.
<1>20. ASSUME NEW i, NEW again, NEW x, Top.at \in {"poll", "polled"},
              x = Poll(Top.evs, i, again) \/ x = Polled(Top.evs, i, again),
              stack' = Append(Under, x) \/ stack' = Append(Append(Under, x), Restore(tpl))
       PROVE  Goal
  <2>1. x.at \in {"poll", "polled"} /\ x.evs = Top.evs
    BY <1>20 DEF Poll, Polled
  <2>2. x.at \notin EndPcs /\ Needs(x) \subseteq Needs(Top)
    BY <1>20, <2>1 DEF EndPcs, Needs
  <2>3. Less(Append(Under, x), stack)
    BY <1>2, <2>2, ReplaceFacts
  <2>4. Less(stack', Append(Under, x))
    BY <1>6, <1>20, <2>3 DEF Less
  <2> QED BY <1>2, <2>3, <2>4, LessFacts
<1>21. CASE PollNotify
  <2>1. /\ Top.at = "poll"
        /\ \/ stack' = Under
           \/ stack' = Append(Under, Polled(Top.evs, Top.i, Top.again))
           \/ stack' = Append(Append(Under, Polled(Top.evs, Top.i, Top.again)), Restore(tpl))
    BY <1>5, <1>21 DEF PollNotify, Continue, At
  <2> DEFINE x == Polled(Top.evs, Top.i, Top.again)
  <2>2. CASE stack' = Append(Under, x) \/ stack' = Append(Append(Under, x), Restore(tpl))
    <3>1. x = Polled(Top.evs, Top.i, Top.again)
      OBVIOUS
    <3> HIDE DEF Goal, x
    <3> QED BY <1>20, <2>1, <2>2, <3>1
  <2> QED BY <2>1, <2>2, LessSteps
<1>22. CASE PollResult
  <2>1. /\ Top.at = "polled"
        /\ \/ stack' = Under
           \/ stack' = Append(Under, Restore(tpl))
           \/ stack' = Append(Under, Poll(Top.evs, Top.i + 1, Top.again))
           \/ stack' = Append(Under, Poll(Top.evs, 1, Top.again))
    BY <1>5, <1>22 DEF PollResult, Continue, At
  <2>2. ASSUME NEW i, stack' = Append(Under, Poll(Top.evs, i, Top.again)) PROVE Goal
    <3> HIDE DEF Goal
    <3> QED BY <1>20, <2>1, <2>2
  <2> QED BY <1>3, <2>1, <2>2, LessSteps
\* The other steps of the core.
<1>23. CASE RestoreTplDispatch \/ RestoreTplNoMore \/ RestoreTplLower
  BY <1>3, <1>23, LessSteps DEF RestoreTplDispatch, RestoreTplNoMore, RestoreTplLower, Continue
<1>24. CASE DispatchNext
  <2> DEFINE x == Code("notify", Head(queue[Top.tpl]), Top.tpl, Top.tpl)
  <2>1. Plain(x) /\ Plain(Restore(tpl))
    BY <1>3, <1>4
  <2>2. stack' = Append(Append(stack, x), Restore(tpl))
    BY <1>5, <1>24 DEF DispatchNext
  <2> HIDE DEF x
  <2> QED BY <2>1, <2>2, LessSteps
<1>25. CASE DispatchDone \/ NotifySignalList
  <2>1. stack' = Append(Under, Restore(tpl))
    BY <1>5, <1>25 DEF DispatchDone, NotifySignalList
  <2> QED BY <1>3, <2>1, LessSteps
<1>26. CASE CheckTimersStart \/ CheckTimersRearm \/ CheckTimersDone \/ SetTimerArm
  BY <1>3, <1>26, LessSteps
     DEF CheckTimersStart, CheckTimersRearm, CheckTimersDone, SetTimerArm, Continue
<1>27. CASE CloseEventFree \/ RestoreTPL \/ NotifyReturn
  BY <1>3, <1>27, LessSteps DEF CloseEventFree, RestoreTPL, NotifyReturn, Continue
<1>28. CASE TimerInterrupt
  BY <1>3, <1>5, <1>28, LessSteps DEF TimerInterrupt
<1>29. CASE CarefulServices
  BY <1>11, <1>12, <1>13, <1>14, <1>15, <1>16, <1>17, <1>29 DEF CarefulServices
<1>30. CASE Core
  BY <1>18, <1>19, <1>21, <1>22, <1>23, <1>24, <1>25, <1>26, <1>27, <1>30 DEF Core
<1> QED BY <1>28, <1>29, <1>30 DEF CarefulNext

\* What the last frame needs.
LEMMA TopNeeds ==
  ASSUME CpuInv
  PROVE  /\ Needs(Top) \subseteq Needed(stack)
         /\ Top.at \in EndPcs => Top.ev \in Ending(stack)
         /\ Top.at = "free" => Top.ev \in Users(stack, {"free"})
<1>1. stack \in Seq(Range(stack)) /\ stack # <<>>
  BY DEF CpuInv, StackOK
<1>2. Len(stack) \in DOMAIN stack /\ Top = stack[Len(stack)]
  BY <1>1, FrontFacts DEF Top, Last
<1> QED BY <1>2 DEF Needed, Ending, Users

\* SetTimer and CoreCheckTimers insert the timer of their frame.
LEMMA InsertSteps ==
  ASSUME CpuInv, ClockInv, CheckTimersRearm \/ SetTimerArm
  PROVE  /\ Top.at \in {"arm", "rearm"} /\ Top.ev \in TimerEvents
         /\ \E t \in Nat : timers' = InsertEventTimer(timers, Top.ev, t)
<1> DEFINE n == Len(stack)
<1>1. StackOK(stack) /\ Top = stack[n] /\ Under = Front(stack)
  BY DEF CpuInv, Top, Last, Under
<1>2. n \in 1 .. n /\ FrameOK(stack[n])
  <2>1. n \in Nat \ {0}
    BY <1>1, FrontFacts DEF StackOK
  <2> QED BY <1>1, <2>1 DEF StackOK
<1>3. TimerEvents \subseteq Events /\ trigger \in [Events -> Nat] /\ period \in [Events -> Nat]
  BY EventFacts DEF ClockInv
<1> HIDE DEF n
<1>4. CASE CheckTimersRearm
  <2> DEFINE time == Last(Under).time
             next == trigger[Top.ev] + period[Top.ev]
             t == IF next <= time THEN time ELSE next
  <2>1. Top.at = "rearm" /\ timers' = InsertEventTimer(timers, Top.ev, t)
    BY <1>4 DEF CheckTimersRearm, At
  <2>2. Top.ev \in TimerEvents
    BY <1>1, <1>2, <2>1 DEF FrameOK
  <2>3. time \in Nat
    <3>1. /\ StackOK(Under) /\ Len(Under) = n - 1 /\ n - 1 \in 1 .. n
          /\ Fits(stack[n], Under[Len(Under)], Floor(Under, Len(Under)))
      BY <1>1, <2>1, PopOK DEF n
    <3>2. Under[Len(Under)].at = "checkTimers" /\ Len(Under) \in 1 .. Len(Under)
      BY <1>1, <2>1, <3>1 DEF Fits
    <3> QED BY <3>1, <3>2 DEF StackOK, FrameOK, Last
  <2>4. t \in Nat
    <3>1. trigger[Top.ev] \in Nat /\ period[Top.ev] \in Nat
      BY <1>3, <2>2
    <3> QED BY <2>3, <3>1
  <2> HIDE DEF t
  <2> QED BY <2>1, <2>2, <2>4
<1>5. CASE SetTimerArm
  <2>1. Top.at = "arm" /\ timers' = InsertEventTimer(timers, Top.ev, Top.time + Top.delay)
    BY <1>5 DEF SetTimerArm, At
  <2>2. Top.ev \in TimerEvents /\ Top.time + Top.delay \in Nat
    BY <1>1, <1>2, <2>1 DEF FrameOK
  <2> QED BY <2>1, <2>2
<1> QED BY <1>4, <1>5

\* Only a timer that a suspended call needs is put on the timer list.
LEMMA TimersStep ==
  ASSUME CpuInv, ClockInv, Next
  PROVE  /\ Range(timers') \subseteq Range(timers) \cup Needed(stack)
         /\ \A e \in Events : CloseEvent(e) => e \notin Range(timers')
<1> DEFINE Goal == Range(timers') \subseteq Range(timers) \cup Needed(stack)
<1>1. timers \in Seq(TimerEvents) /\ TimerEvents \subseteq AllEvents /\ TimerEvents \subseteq Events
      /\ trigger \in [Events -> Nat] /\ period \in [Events -> Nat]
  BY EventFacts DEF ClockInv
<1>2. ASSUME NEW e, NEW fs, CancelTimer(e, fs) PROVE Range(timers') = Range(timers) \ {e}
  BY <1>1, <1>2, UnlinkFacts DEF CancelTimer
<1>3. ASSUME NEW e \in Events, CloseEvent(e) PROVE Goal /\ e \notin Range(timers')
  <2>1. CASE e \in TimerEvents
    <3>1. CancelTimer(e, Append(Append(stack, Call("unlink", e)), Restore(tpl)))
      BY <1>3, <2>1 DEF CloseEvent
    <3> QED BY <1>2, <3>1
  <2>2. CASE e \notin TimerEvents
    <3>1. timers' = timers
      BY <1>3, <2>2 DEF CloseEvent, clock
    <3> QED BY <1>1, <2>2, <3>1, RangeOfSeq
  <2> QED BY <2>1, <2>2
<1> SUFFICES Goal
  BY <1>3
<1>4. ASSUME NEW e \in Events, SetTimerCancel(e) PROVE Goal
  BY <1>2, <1>4 DEF SetTimerCancel
<1>5. ASSUME NEW e \in Events, NEW repeat \in BOOLEAN, NEW d \in Delays, SetTimer(e, repeat, d)
      PROVE  Goal
  BY <1>2, <1>5 DEF SetTimer
<1>6. CASE CheckTimersFire
  <2>1. timers # <<>> /\ timers' = Tail(timers)
    BY <1>6 DEF CheckTimersFire, Expired
  <2> QED BY <1>1, <2>1, TailFacts
<1>7. CASE CheckTimersRearm \/ SetTimerArm
  <2>1. /\ Top.at \in {"arm", "rearm"} /\ Top.ev \in TimerEvents
        /\ \E t \in Nat : timers' = InsertEventTimer(timers, Top.ev, t)
    BY <1>7, InsertSteps
  <2>2. Range(timers') = Range(timers) \cup {Top.ev}
    <3>1. PICK t \in Nat : timers' = InsertEventTimer(timers, Top.ev, t)
      BY <2>1
    <3>2. Range(InsertEventTimer(timers, Top.ev, t)) = Range(timers) \cup {Top.ev}
      BY <1>1, <2>1, InsertFacts
    <3> QED BY <3>1, <3>2
  <2>3. Needs(Top) = {Top.ev}
    BY <2>1 DEF Needs
  <2> QED BY <2>2, <2>3, TopNeeds
<1>8. CASE TimerInterrupt
  BY <1>8 DEF TimerInterrupt
<1>9. CASE UNCHANGED clock
  BY <1>9 DEF clock
<1> QED BY <1>3, <1>4, <1>5, <1>6, <1>7, <1>8, <1>9, ClockUnchanged

\* Code at TPL_NOTIFY or below runs on no call that is about to insert a timer.
LEMMA NoHolder ==
  ASSUME CpuInv, Running, tpl <= Notify
  PROVE  Users(stack, {"arm", "rearm"}) = {}
<1> DEFINE n == Len(stack)
<1>1. StackOK(stack) /\ RunsAt(stack, tpl) /\ Top = stack[n] /\ tpl \in Tpls
  BY DEF CpuInv, Top, Last
<1>2. n \in Nat \ {0} /\ DOMAIN stack = 1 .. n
  BY <1>1, FrontFacts DEF StackOK
<1> HIDE DEF n
<1>3. stack[n].at \in CodePcs
  BY <1>1 DEF Running, CodePcs
<1>4. tpl = Floor(stack, n)
  BY <1>1, <1>3 DEF RunsAt, CodePcs, Restoring, n
<1>5. ASSUME NEW j \in DOMAIN stack, stack[j].at \in {"arm", "rearm"} PROVE FALSE
  <2>1. Floor(stack, j) = TimerTpl
    BY <1>5 DEF Floor, CodePcs, CallPcs, LockPcs
  <2>2. j \in 1 .. n /\ n \in 1 .. n /\ j < n
    BY <1>2, <1>3, <1>5 DEF CodePcs
  <2>3. Floor(stack, j) <= Floor(stack, n)
    BY <1>1, <2>2 DEF StackOK, n
  <2> QED BY <1>1, <1>4, <2>1, <2>3, TplFacts
<1> QED BY <1>5 DEF Users

\* CoreNotifyEvent and CoreSignalEvent queue no other event.
LEMMA NotifyAdds ==
  ASSUME NoticesInv, NEW evs \in Seq(AllEvents), CoreNotifyEvents(evs), NEW x, Queued(x)'
  PROVE  Queued(x) \/ x \in Range(evs)
<1>1. PICK p \in NotifyTpls : x \in Range(queue'[p])
  BY DEF Queued
<1> DEFINE a == Keep(queue[p], AllEvents \ Range(evs))
           b == OfLevel(evs, p)
<1>2. queue[p] \in Seq(AllEvents)
  BY DEF NoticesInv
<1>3. /\ a \in Seq(AllEvents) /\ Range(a) \subseteq Range(queue[p])
      /\ b \in Seq(AllEvents) /\ Range(b) \subseteq Range(evs)
  BY <1>2, KeepFacts DEF OfLevel
<1>4. queue'[p] = a \o b
  BY DEF CoreNotifyEvents
<1> HIDE DEF a, b
<1>5. Range(a \o b) = Range(a) \cup Range(b)
  BY <1>3, RangeConcatenation
<1> QED BY <1>1, <1>3, <1>4, <1>5 DEF Queued

LEMMA SignalAdds ==
  ASSUME NoticesInv, sigList \in Seq(Events), NEW e \in AllEvents, SignalMasked(e),
         NEW x, Queued(x)'
  PROVE  Queued(x) \/ x \in {e} \cup Range(sigList)
<1>1. CASE UNCHANGED queue
  BY <1>1 DEF Queued
<1>2. CASE Grouped(e) /\ CoreNotifyEvents(GroupMembers(e))
  <2>1. GroupMembers(e) \in Seq(AllEvents) /\ Range(GroupMembers(e)) \subseteq Range(sigList)
    BY KeepFacts, EventFacts, SeqMonotonic DEF GroupMembers
  <2> QED BY <1>2, <2>1, NotifyAdds
<1>3. CASE CoreNotifyEvents(<<e>>)
  <2>1. <<e>> \in Seq(AllEvents) /\ Range(<<e>>) = {e}
    <3>1. DOMAIN <<e>> = {1} /\ <<e>>[1] = e
      OBVIOUS
    <3> QED BY <3>1 DEF Range
  <2> QED BY <1>3, <2>1, NotifyAdds
<1> QED BY <1>1, <1>2, <1>3 DEF SignalMasked, notices

LEMMA CarefulSteps ==
  ASSUME CarefulNext PROVE Next
BY DEF CarefulNext, CarefulServices, Next, Services

\* What an action queues is on the list of the groups or on the timer list, or a
\* careful caller or a suspended call passes it.
LEMMA QueueStep ==
  ASSUME CpuInv, DataInv, CarefulNext, NEW x, Queued(x)'
  PROVE  Queued(x) \/ x \in Range(sigList) \cup Range(timers) \cup Needed(stack) \cup Fresh
                            \cup {CheckTimerEvent}
<1> DEFINE Goal == Queued(x) \/ x \in Range(sigList) \cup Range(timers) \cup Needed(stack) \cup Fresh
                                        \cup {CheckTimerEvent}
<1>1. /\ NoticesInv /\ ClockInv /\ sigList \in Seq(Events) /\ timers \in Seq(TimerEvents)
      /\ queue \in [NotifyTpls -> Seq(AllEvents)]
      /\ CheckTimerEvent \in AllEvents /\ Events \subseteq AllEvents /\ TimerEvents \subseteq AllEvents
  BY EventFacts DEF DataInv, NoticesInv, ClockInv, ObjectsInv
<1>2. CASE UNCHANGED queue
  BY <1>2 DEF Queued
<1>3. ASSUME NEW e \in AllEvents, SignalMasked(e),
             e \in Range(timers) \cup Fresh \cup {CheckTimerEvent}
      PROVE  Goal
  BY <1>1, <1>3, SignalAdds
<1>4. ASSUME SignalMasked(CheckTimerEvent) \/ UNCHANGED notices PROVE Goal
  BY <1>1, <1>2, <1>3, <1>4 DEF notices
<1>5. ASSUME NEW p \in NotifyTpls, NEW s, Range(s) \subseteq Range(queue[p]),
             queue' = [queue EXCEPT ![p] = s]
      PROVE  Goal
  BY <1>1, <1>5 DEF Queued
<1>6. CASE CarefulServices
  <2>1. ASSUME NEW e \in Events, ~Closing(e), SignalEvent(e) PROVE Goal
    <3>1. e \in Fresh
      BY <2>1 DEF SignalEvent, Closing, Fresh, Ending, Users, Frames, EndPcs
    <3>2. SignalMasked(e) \/ UNCHANGED queue
      BY <2>1 DEF SignalEvent
    <3> QED BY <1>1, <1>2, <1>3, <3>1, <3>2
  <2>2. CASE UNCHANGED notices
    BY <1>2, <2>2 DEF notices
  <2>3. UNCHANGED notices \/ \E e \in Events : ~Closing(e) /\ SignalEvent(e)
    BY <1>6 DEF CarefulServices, CreateEvent, SetTimerCancel, SetTimer, CloseEvent, CheckEvent,
                WaitForEvent, RaiseTPL
  <2> QED BY <2>1, <2>2, <2>3
<1>7. CASE TimerInterrupt
  BY <1>4, <1>7 DEF TimerInterrupt
<1>8. CASE CheckTimersFire
  <2>1. timers # <<>> /\ SignalMasked(Head(timers))
    BY <1>8 DEF CheckTimersFire, Expired
  <2>2. Head(timers) \in Range(timers) /\ Head(timers) \in AllEvents
    BY <1>1, <2>1, TailFacts
  <2> QED BY <1>3, <2>1, <2>2
<1>9. CASE CheckTimersRearm \/ SetTimerArm
  BY <1>4, <1>9 DEF CheckTimersRearm, SetTimerArm
<1>10. CASE NotifySignalList
  <2>1. CoreNotifyEvents(GroupMembers(Top.ev))
    BY <1>10 DEF NotifySignalList
  <2>2. GroupMembers(Top.ev) \in Seq(AllEvents) /\ Range(GroupMembers(Top.ev)) \subseteq Range(sigList)
    BY <1>1, KeepFacts, SeqMonotonic DEF GroupMembers
  <2> QED BY <1>1, <2>1, <2>2, NotifyAdds
<1>11. ASSUME Top.at \in {"dispatch", "poll"}
       PROVE  /\ Top.at = "dispatch" => Top.tpl \in NotifyTpls
              /\ Top.at = "poll" => Top.evs[Top.i] \in AllEvents /\ Top.evs[Top.i] \in Range(Top.evs)
  <2>1. stack # <<>> /\ stack \in Seq(Range(stack)) /\ StackOK(stack) /\ Top = stack[Len(stack)]
    BY DEF CpuInv, StackOK, Top, Last
  <2>2. FrameOK(Top)
    BY <2>1, FrontFacts DEF StackOK
  <2>3. ASSUME Top.at = "poll" PROVE Top.evs[Top.i] \in AllEvents /\ Top.evs[Top.i] \in Range(Top.evs)
    <3>1. Top.evs \in Seq(Events) /\ Top.i \in 1 .. Len(Top.evs)
      BY <2>2, <2>3 DEF FrameOK
    <3>2. Top.i \in DOMAIN Top.evs /\ Top.evs[Top.i] \in Events
      BY <3>1
    <3> QED BY <1>1, <3>2 DEF Range
  <2> QED BY <2>2, <2>3 DEF FrameOK
<1>12. CASE DispatchNext
  <2>1. /\ Top.at = "dispatch" /\ queue[Top.tpl] # <<>>
        /\ queue' = [queue EXCEPT ![Top.tpl] = Tail(queue[Top.tpl])]
    BY <1>12 DEF DispatchNext, At
  <2>2. Top.tpl \in NotifyTpls
    BY <1>11, <2>1
  <2>3. Range(Tail(queue[Top.tpl])) \subseteq Range(queue[Top.tpl])
    BY <1>1, <2>1, <2>2, TailFacts
  <2> QED BY <1>5, <2>1, <2>2, <2>3
<1>13. CASE CloseEventUnlink
  <2>1. queue' = [p \in NotifyTpls |-> Unlink(queue[p], Top.ev)]
    BY <1>13 DEF CloseEventUnlink
  <2>2. \A p \in NotifyTpls : Range(Unlink(queue[p], Top.ev)) \subseteq Range(queue[p])
    BY <1>1, UnlinkFacts
  <2> QED BY <2>1, <2>2 DEF Queued
<1>14. CASE PollNotify
  <2> DEFINE e == Top.evs[Top.i]
  <2>1. Top.at = "poll" /\ (CoreNotifyEvents(<<e>>) \/ UNCHANGED queue)
    BY <1>14 DEF PollNotify, At, notices
  <2>2. e \in AllEvents /\ e \in Range(Top.evs)
    BY <1>11, <2>1
  <2>3. e \in Needed(stack)
    BY <2>1, <2>2, TopNeeds DEF Needs
  <2> HIDE DEF e
  <2>4. <<e>> \in Seq(AllEvents) /\ Range(<<e>>) = {e}
    <3>1. DOMAIN <<e>> = {1} /\ <<e>>[1] = e
      OBVIOUS
    <3> QED BY <2>2, <3>1 DEF Range
  <2>5. ASSUME CoreNotifyEvents(<<e>>) PROVE Goal
    BY <1>1, <2>3, <2>4, <2>5, NotifyAdds
  <2> QED BY <1>2, <2>1, <2>5
<1>15. CASE Core
  <2>1. ASSUME UNCHANGED notices PROVE Goal
    BY <1>2, <2>1 DEF notices
  <2>2. CASE DispatchDone \/ PollResult
    BY <1>2, <2>2 DEF DispatchDone, PollResult
  <2>3. CASE RestoreTplDispatch \/ RestoreTplNoMore \/ RestoreTplLower \/ CheckTimersStart
             \/ CheckTimersDone \/ CloseEventFree \/ RestoreTPL \/ NotifyReturn
    BY <2>1, <2>3 DEF RestoreTplDispatch, RestoreTplNoMore, RestoreTplLower, CheckTimersStart,
                      CheckTimersDone, CloseEventFree, RestoreTPL, NotifyReturn
  <2> QED BY <1>8, <1>9, <1>10, <1>12, <1>13, <1>14, <1>15, <2>2, <2>3 DEF Core
<1> QED BY <1>6, <1>7, <1>15 DEF CarefulNext

\* What CloseEvent takes away and adds, and what it frees.
LEMMA CloseObjects ==
  ASSUME DataInv, Next
  PROVE  /\ \A e \in Range(sigList') : e \in Range(sigList) \/ e \notin live \cup closed
         /\ \/ live \subseteq live' /\ live' \cap closed \subseteq live /\ closed' = closed
            \/ CloseEventFree
<1>1. sigList \in Seq(Events) /\ Events \subseteq AllEvents
  BY EventFacts DEF DataInv, ObjectsInv
<1>2. CASE UNCHANGED objects
  BY <1>2 DEF objects
<1>3. ASSUME NEW e \in Events, CreateEvent(e)
      PROVE  /\ \A x \in Range(sigList') : x \in Range(sigList) \/ x \notin live \cup closed
             /\ live \subseteq live' /\ live' \cap closed \subseteq live /\ closed' = closed
  <2>1. /\ e \notin live \cup closed /\ live' = live \cup {e} /\ closed' = closed
        /\ sigList' = <<e>> \o sigList \/ sigList' = sigList
    BY <1>3 DEF CreateEvent
  <2> DEFINE one == <<e>>
  <2>2. one \in Seq(Events) /\ Range(one) = {e}
    <3>1. DOMAIN <<e>> = {1} /\ <<e>>[1] = e
      OBVIOUS
    <3> QED BY <3>1 DEF Range
  <2> HIDE DEF one
  <2>3. Range(one \o sigList) = {e} \cup Range(sigList)
    BY <1>1, <2>2, RangeConcatenation
  <2> QED BY <2>1, <2>3 DEF one
<1>4. CASE CloseEventUnlink
  <2>1. sigList' = Unlink(sigList, Top.ev) /\ live' = live /\ closed' = closed
    BY <1>4 DEF CloseEventUnlink
  <2>2. Range(Unlink(sigList, Top.ev)) \subseteq Range(sigList)
    BY <1>1, UnlinkFacts
  <2> QED BY <2>1, <2>2
<1>5. CASE CloseEventFree
  BY <1>5 DEF CloseEventFree
<1> QED BY <1>2, <1>3, <1>4, <1>5, ObjectsUnchanged

\* No action of a careful system brings an event back that is being closed.
LEMMA CloseStep ==
  ASSUME IInv, CloseInv, CarefulNext
  PROVE  CloseInv'
<1> DEFINE E == Ending(stack)
           F == Users(stack, {"free"})
           U == Range(timers) \cup Needed(stack)
           E2 == Ending(stack')
           F2 == Users(stack', {"free"})
           U2 == Range(timers') \cup Needed(stack')
           Off(x) == ~Queued(x) /\ x \notin Range(sigList)
           Off2(x) == ~Queued(x)' /\ x \notin Range(sigList')
           Goal == /\ (closed' \cup E2) \cap U2 = {}
                   /\ \A x \in closed' \cup F2 : Off2(x)
                   /\ E2 \subseteq live' /\ live' \cap closed' = {}
                   /\ OnceEach(stack')
<1>1. Next
  BY CarefulSteps
<1>2. CpuInv /\ ClockInv /\ DataInv
  BY DEF IInv, DataInv
<1>3. /\ (closed \cup E) \cap U = {} /\ \A x \in closed \cup F : Off(x)
      /\ E \subseteq live /\ live \cap closed = {} /\ OnceEach(stack)
  BY DEF CloseInv
<1>4. SUFFICES Goal
  BY DEF CloseInv, Ending
<1>5. F \subseteq E /\ F2 \subseteq E2
  BY DEF Ending, Users, EndPcs
<1>6. live \subseteq Events /\ closed \subseteq Events /\ CheckTimerEvent \notin Events
  BY <1>2, EventFacts DEF DataInv, ObjectsInv
<1>7. stack \in Seq(Range(stack)) /\ stack # <<>> /\ Under = Front(stack) /\ Top = stack[Len(stack)]
  BY <1>2 DEF CpuInv, StackOK, Under, Top, Last
\* An event that is closed or about to be freed stays off the lists.
<1>8. ASSUME NEW x \in closed \cup F PROVE Off2(x)
  <2>1. x \in live \cup closed /\ x \notin U \cup Fresh /\ x # CheckTimerEvent /\ Off(x)
    BY <1>3, <1>5, <1>6, <1>8 DEF Fresh
  <2>2. ~Queued(x)'
    BY <1>2, <2>1, QueueStep
  <2>3. x \notin Range(sigList')
    BY <1>1, <1>2, <2>1, CloseObjects
  <2> QED BY <2>2, <2>3
<1>9. Range(timers') \subseteq U
  BY <1>1, <1>2, TimersStep
<1>10. Fresh \cap (closed \cup E) = {}
  BY <1>3 DEF Fresh
<1> HIDE DEF E, F, U, E2, F2, U2, Off, Off2
<1>11. ASSUME ~CloseEventFree PROVE live \subseteq live' /\ live' \cap closed' = {} /\ closed' = closed
  BY <1>1, <1>2, <1>3, <1>11, CloseObjects
\* CloseEvent ends.
<1>12. CASE CloseEventFree
  <2>1. /\ Top.at = "free" /\ stack' = Under /\ timers' = timers
        /\ live' = live \ {Top.ev} /\ closed' = closed \cup {Top.ev}
    BY <1>12 DEF CloseEventFree, At, Continue, clock
  <2>2. /\ Needed(stack) = Needed(Under) \cup Needs(Top)
        /\ Ending(stack) = Ending(Under) \cup EventOf(Top, EndPcs)
        /\ Users(stack, {"free"}) = Users(Under, {"free"}) \cup EventOf(Top, {"free"})
        /\ OnceEach(Under) /\ EventOf(Top, EndPcs) \cap Ending(Under) = {}
    BY <1>3, <1>7, PopFacts
  <2>3. EventOf(Top, EndPcs) = {Top.ev} /\ EventOf(Top, {"free"}) = {Top.ev}
    BY <2>1 DEF EventOf, EndPcs
  <2>4. /\ E = E2 \cup {Top.ev} /\ F = F2 \cup {Top.ev} /\ U2 \subseteq U
        /\ Top.ev \notin E2 /\ OnceEach(stack')
    BY <2>1, <2>2, <2>3 DEF E, E2, F, F2, U, U2, Ending
  <2>5. \A x \in closed' \cup F2 : Off2(x)
    BY <1>8, <2>1, <2>4
  <2>6. (closed' \cup E2) \cap U2 = {}
    BY <1>3, <2>1, <2>4
  <2>7. E2 \subseteq live' /\ live' \cap closed' = {}
    BY <1>3, <2>1, <2>4
  <2> QED BY <2>4, <2>5, <2>6, <2>7
\* The frames use and close what they did.
<1>13. CASE Less(stack', stack) /\ ~CloseEventFree
  <2>1. E2 \subseteq E /\ F2 \subseteq F /\ U2 \subseteq U /\ OnceEach(stack')
    BY <1>3, <1>9, <1>13 DEF Less, E, E2, F, F2, U, U2
  <2> QED BY <1>3, <1>8, <1>11, <1>13, <2>1
\* A service is called.
<1>14. ASSUME NEW x, Goes(x), Needs(x) \subseteq Range(timers) \cup Fresh, ~CloseEventFree PROVE Goal
  <2>1. EventOf(x, EndPcs) = {} /\ EventOf(x, {"free"}) = {}
    BY <1>14 DEF Goes, EventOf, EndPcs
  <2>2. /\ Needed(Append(stack, x)) = Needed(stack) \cup Needs(x)
        /\ Ending(Append(stack, x)) = Ending(stack)
        /\ Users(Append(stack, x), {"free"}) = Users(stack, {"free"})
        /\ OnceEach(Append(stack, x))
    <3>1. /\ Needed(Append(stack, x)) = Needed(stack) \cup Needs(x)
          /\ Ending(Append(stack, x)) = Ending(stack) \cup EventOf(x, EndPcs)
          /\ Users(Append(stack, x), {"free"}) = Users(stack, {"free"}) \cup EventOf(x, {"free"})
          /\ OnceEach(stack) /\ EventOf(x, EndPcs) \cap Ending(stack) = {} => OnceEach(Append(stack, x))
      BY <1>7, PushFacts
    <3> QED BY <1>3, <2>1, <3>1
  <2>3. E2 \subseteq E /\ F2 \subseteq F /\ U2 \subseteq U \cup Fresh /\ OnceEach(stack')
    BY <1>9, <1>14, <2>2 DEF Goes, Less, E, E2, F, F2, U, U2
  <2> QED BY <1>3, <1>8, <1>10, <1>11, <1>14, <2>3
\* CloseEvent is called.
<1>15. ASSUME NEW e \in Events, Closes(e), ~CloseEventFree PROVE Goal
  <2> DEFINE x == Call("unlink", e)
  <2>1. x.at = "unlink" /\ x.ev = e
    BY DEF Call
  <2>2. EventOf(x, EndPcs) = {e} /\ EventOf(x, {"free"}) = {} /\ Needs(x) = {}
    BY <2>1 DEF EventOf, EndPcs, Needs
  <2>3. Less(stack', Append(stack, x)) /\ CloseEvent(e) /\ ~Closing(e) /\ ~InUse(e)
    BY <1>15 DEF Closes
  <2> HIDE DEF x
  <2>4. e \notin Ending(stack)
    BY <2>3 DEF Closing, Ending, Users, Frames, EndPcs
  <2>5. e \in live /\ Running /\ tpl <= Notify
    BY <2>3 DEF CloseEvent, MayCall
  <2>6. e \notin Needed(stack)
    <3>1. Users(stack, {"arm", "rearm"}) = {}
      BY <1>2, <2>5, NoHolder
    <3>2. ASSUME NEW j \in DOMAIN stack, e \in Needs(stack[j]) PROVE FALSE
      <4>1. CASE stack[j].at \in {"arm", "rearm"}
        BY <3>1, <4>1 DEF Users
      <4>2. CASE stack[j].at = "signalGroup"
        BY <2>3, <3>2, <4>2 DEF Needs, InUse, Frames
      <4>3. CASE stack[j].at \in {"poll", "polled"}
        BY <2>3, <3>2, <4>3 DEF Needs, InUse, Frames
      <4> QED BY <3>2, <4>1, <4>2, <4>3 DEF Needs
    <3> QED BY <3>2 DEF Needed
  <2>7. e \notin Range(timers')
    BY <1>1, <1>2, <2>3, TimersStep
  <2>8. /\ Needed(Append(stack, x)) = Needed(stack)
        /\ Ending(Append(stack, x)) = Ending(stack) \cup {e}
        /\ Users(Append(stack, x), {"free"}) = Users(stack, {"free"})
        /\ OnceEach(Append(stack, x))
    <3>1. /\ Needed(Append(stack, x)) = Needed(stack) \cup Needs(x)
          /\ Ending(Append(stack, x)) = Ending(stack) \cup EventOf(x, EndPcs)
          /\ Users(Append(stack, x), {"free"}) = Users(stack, {"free"}) \cup EventOf(x, {"free"})
          /\ OnceEach(stack) /\ EventOf(x, EndPcs) \cap Ending(stack) = {} => OnceEach(Append(stack, x))
      BY <1>7, PushFacts
    <3> QED BY <1>3, <2>2, <2>4, <3>1
  <2>9. E2 \subseteq E \cup {e} /\ F2 \subseteq F /\ U2 \subseteq U /\ e \notin U2 /\ OnceEach(stack')
    BY <1>9, <2>3, <2>6, <2>7, <2>8 DEF Less, E, E2, F, F2, U, U2
  <2> QED BY <1>3, <1>8, <1>11, <1>15, <2>5, <2>9
\* CloseEvent has taken the event off the queues.
<1>16. ASSUME CloseEventUnlink, Less(stack', Append(Under, Call("free", Top.ev))), ~CloseEventFree
       PROVE  Goal
  <2>0. PICK e : e = Top.ev
    OBVIOUS
  <2> DEFINE x == Call("free", e)
  <2>1. x.at = "free" /\ x.ev = e
    BY DEF Call
  <2>2. /\ Top.at = "unlink" /\ queue' = [p \in NotifyTpls |-> Unlink(queue[p], e)]
        /\ sigList' = Unlink(sigList, e) /\ Less(stack', Append(Under, x))
    BY <1>16, <2>0 DEF CloseEventUnlink, At
  <2> HIDE DEF x
  <2>3. /\ EventOf(x, EndPcs) = {e} /\ EventOf(x, {"free"}) = {e} /\ Needs(x) = {}
        /\ EventOf(Top, EndPcs) = {e} /\ Needs(Top) = {} /\ EventOf(Top, {"free"}) = {}
    BY <2>0, <2>1, <2>2 DEF EventOf, EndPcs, Needs
  <2>4. /\ Under \in Seq(Range(Under))
        /\ Needed(stack) = Needed(Under) \cup Needs(Top)
        /\ Ending(stack) = Ending(Under) \cup EventOf(Top, EndPcs)
        /\ Users(stack, {"free"}) = Users(Under, {"free"}) \cup EventOf(Top, {"free"})
        /\ OnceEach(Under) /\ EventOf(Top, EndPcs) \cap Ending(Under) = {}
    BY <1>3, <1>7, PopFacts
  <2>5. /\ Needed(Append(Under, x)) = Needed(stack)
        /\ Ending(Append(Under, x)) = Ending(stack)
        /\ Users(Append(Under, x), {"free"}) = Users(stack, {"free"}) \cup {e}
        /\ OnceEach(Append(Under, x))
    <3>1. /\ Needed(Append(Under, x)) = Needed(Under) \cup Needs(x)
          /\ Ending(Append(Under, x)) = Ending(Under) \cup EventOf(x, EndPcs)
          /\ Users(Append(Under, x), {"free"}) = Users(Under, {"free"}) \cup EventOf(x, {"free"})
          /\ OnceEach(Under) /\ EventOf(x, EndPcs) \cap Ending(Under) = {} => OnceEach(Append(Under, x))
      BY <2>4, PushFacts
    <3> QED BY <2>3, <2>4, <3>1
  <2>6. E2 \subseteq E /\ F2 \subseteq F \cup {e} /\ U2 \subseteq U /\ OnceEach(stack')
    BY <1>9, <2>2, <2>5 DEF Less, E, E2, F, F2, U, U2
  <2>7. Off2(e)
    <3>1. /\ queue \in [NotifyTpls -> Seq(AllEvents)] /\ sigList \in Seq(Events)
          /\ Events \subseteq AllEvents
      BY <1>2, EventFacts DEF DataInv, NoticesInv, ObjectsInv
    <3>2. \A p \in NotifyTpls : e \notin Range(Unlink(queue[p], e))
      BY <3>1, UnlinkFacts
    <3>3. e \notin Range(Unlink(sigList, e))
      BY <3>1, UnlinkFacts
    <3> QED BY <2>2, <3>2, <3>3 DEF Off2, Queued
  <2> QED BY <1>3, <1>8, <1>11, <1>16, <2>6, <2>7
<1> QED BY <1>2, <1>12, <1>13, <1>14, <1>15, <1>16, FramesStep

\* As long as the callers are careful, an event that CloseEvent has freed is on
\* no queue, timer list or list of the groups, and no suspended service goes on
\* to use it.
THEOREM ClosedUnusedHolds == CarefulSpec => []ClosedUnused
<1>1. ASSUME Init PROVE CloseInv
  <2>1. /\ stack = <<Code("app", App, Application, Application)>>
        /\ timers = <<>> /\ closed = {}
    BY <1>1 DEF Init
  <2>2. DOMAIN stack = {1} /\ stack[1].at = "app"
    BY <2>1 DEF Code
  <2>3. /\ \A pcs : "app" \notin pcs => Users(stack, pcs) = {}
        /\ OnceEach(stack)
    BY <2>2 DEF Users, OnceEach
  <2>4. Ending(stack) = {} /\ Users(stack, {"free"}) = {}
    BY <2>3 DEF Ending, EndPcs
  <2> QED BY <2>1, <2>3, <2>4 DEF CloseInv
<1>2. ASSUME CloseInv, UNCHANGED vars PROVE CloseInv'
  <2>1. /\ stack' = stack /\ queue' = queue /\ timers' = timers /\ sigList' = sigList
        /\ live' = live /\ closed' = closed
    BY <1>2 DEF vars, cpu, notices, clock, objects
  <2> QED BY <1>2, <2>1 DEF CloseInv, Queued
<1>3. IInv /\ CloseInv /\ [CarefulNext]_vars => CloseInv'
  BY <1>2, CloseStep
<1>4. [CarefulNext]_vars => [Next]_vars
  BY CarefulSteps
<1>5. ASSUME CloseInv PROVE ClosedUnused
  <2>1. SUFFICES ASSUME NEW e \in closed
                 PROVE  /\ ~Queued(e) /\ e \notin Range(timers) \cup Range(sigList)
                        /\ \A j \in Frames({"signalGroup", "arm", "rearm", "unlink", "free"}) :
                             stack[j].ev # e
                        /\ \A j \in Frames({"poll", "polled"}) : e \notin Range(stack[j].evs)
    BY DEF ClosedUnused
  <2>2. /\ ~Queued(e) /\ e \notin Range(sigList) /\ e \notin Range(timers)
        /\ e \notin Needed(stack) /\ e \notin Ending(stack)
    BY <1>5 DEF CloseInv
  <2>3. ASSUME NEW j \in Frames({"signalGroup", "arm", "rearm", "unlink", "free"}) PROVE stack[j].ev # e
    BY <2>2 DEF Frames, Needed, Needs, Ending, Users, EndPcs
  <2>4. ASSUME NEW j \in Frames({"poll", "polled"}) PROVE e \notin Range(stack[j].evs)
    BY <2>2 DEF Frames, Needed, Needs
  <2> QED BY <2>2, <2>3, <2>4
<1>6. CarefulSpec => []IInv
  BY <1>4, DxeEventInvariant, PTL DEF CarefulSpec, Spec
<1> QED BY <1>1, <1>3, <1>5, <1>6, PTL DEF CarefulSpec
==============================================================================
