-------------------------- MODULE NvramStoreProofs --------------------------
(***************************************************************************)
(* The record log implements VariableStore, for a store of any size and    *)
(* any variables and data, whatever writes fail and wherever the power is  *)
(* lost.  What is left to show after NvramLogProofs is about space: a      *)
(* record that counts has fit below the end of the store, and the copies   *)
(* a compaction makes of the records take no more space than they did, so  *)
(* that the store is compacted without losing a variable that the caller   *)
(* has been told of, or that a boot has found, and never overruns its end. *)
(***************************************************************************)
EXTENDS NvramLogProofs
------------------------------------------------------------------------------
(***************************************************************************)
(* The space that records take                                             *)
(***************************************************************************)
\* g[m] is the sum of w[1], ..., w[m].
IsSum(g, w, N) ==
  /\ g \in [0 .. N -> Nat]
  /\ g[0] = 0
  /\ \A m \in 1 .. N : g[m] = g[m - 1] + w[m]

LEMMA SumExists ==
  ASSUME NEW N \in Nat, NEW w, \A m \in 1 .. N : w[m] \in Nat
  PROVE  \E g : IsSum(g, w, N)
<1> DEFINE G == {n \in 0 .. N : \E g : IsSum(g, w, n)}
<1>1. 0 \in G
  <2> DEFINE g == [m \in 0 .. 0 |-> 0]
  <2>1. g \in [0 .. 0 -> Nat] /\ g[0] = 0 /\ 1 .. 0 = {} /\ 0 \in 0 .. N
    OBVIOUS
  <2> HIDE DEF g
  <2>2. IsSum(g, w, 0)
    BY <2>1 DEF IsSum
  <2> QED BY <2>1, <2>2
<1>2. ASSUME NEW n \in 0 .. N, n \in G, n < N PROVE n + 1 \in G
  <2>1. PICK g : IsSum(g, w, n)
    BY <1>2
  <2> DEFINE h == [m \in 0 .. (n + 1) |-> IF m <= n THEN g[m] ELSE g[n] + w[n + 1]]
  <2>2. g \in [0 .. n -> Nat] /\ g[0] = 0 /\ \A m \in 1 .. n : g[m] = g[m - 1] + w[m]
    BY <2>1 DEF IsSum
  <2>3. n + 1 \in 1 .. N /\ n + 1 \in 0 .. N /\ w[n + 1] \in Nat /\ g[n] \in Nat
    BY <1>2, <2>2
  <2>4. h \in [0 .. (n + 1) -> Nat]
    <3>1. \A m \in 0 .. (n + 1) : (IF m <= n THEN g[m] ELSE g[n] + w[n + 1]) \in Nat
      <4> TAKE m \in 0 .. (n + 1)
      <4>1. m <= n => m \in 0 .. n
        OBVIOUS
      <4> QED BY <4>1, <2>2, <2>3
    <3> QED BY <3>1
  <2>5. h[0] = 0
    BY <2>2
  <2>6. ASSUME NEW m \in 1 .. (n + 1) PROVE h[m] = h[m - 1] + w[m]
    <3>1. m - 1 \in 0 .. (n + 1) /\ m \in 0 .. (n + 1) /\ m - 1 <= n
      OBVIOUS
    <3>2. h[m - 1] = g[m - 1]
      BY <3>1
    <3>3. CASE m <= n
      <4>1. m \in 1 .. n
        BY <3>3
      <4>2. h[m] = g[m]
        BY <3>1, <3>3
      <4> HIDE DEF h
      <4> QED BY <4>1, <4>2, <3>2, <2>2
    <3>4. CASE ~(m <= n)
      <4>1. m = n + 1 /\ m - 1 = n
        BY <3>4
      <4>2. h[m] = g[n] + w[n + 1]
        BY <3>1, <3>4
      <4> HIDE DEF h
      <4> QED BY <4>1, <4>2, <3>2
    <3> QED BY <3>3, <3>4
  <2> HIDE DEF h
  <2>7. IsSum(h, w, n + 1)
    BY <2>4, <2>5, <2>6 DEF IsSum
  <2> QED BY <2>3, <2>7
<1>3. \A n \in 0 .. N : n \in G
  <2> HIDE DEF G
  <2>1. \A n \in 0 .. N : n \in G /\ n < N => n + 1 \in G
    BY <1>2
  <2> QED BY <1>1, <2>1, Upwards
<1> QED BY <1>3

\* Sums of numbers of which one set is not larger than the other.
LEMMA SumLess ==
  ASSUME NEW N \in Nat, NEW M \in Nat, NEW K \in Nat, K <= N, K <= M,
         NEW g, NEW w, IsSum(g, w, N), NEW h, NEW x, IsSum(h, x, M),
         \A m \in 1 .. K : w[m] \in Nat /\ x[m] \in Nat /\ w[m] <= x[m]
  PROVE  \A m \in 0 .. K : g[m] <= h[m]
<1> DEFINE G == {m \in 0 .. K : g[m] <= h[m]}
<1>1. g \in [0 .. N -> Nat] /\ g[0] = 0 /\ \A m \in 1 .. N : g[m] = g[m - 1] + w[m]
  BY DEF IsSum
<1>2. h \in [0 .. M -> Nat] /\ h[0] = 0 /\ \A m \in 1 .. M : h[m] = h[m - 1] + x[m]
  BY DEF IsSum
<1>3. 0 \in G
  BY <1>1, <1>2
<1>4. ASSUME NEW m \in 0 .. K, m \in G, m < K PROVE m + 1 \in G
  <2>1. /\ m + 1 \in 1 .. N /\ m + 1 \in 1 .. M /\ m + 1 \in 1 .. K /\ m + 1 \in 0 .. K
        /\ (m + 1) - 1 = m /\ m \in 0 .. N /\ m \in 0 .. M
    BY <1>4
  <2>2. g[m + 1] = g[m] + w[m + 1] /\ h[m + 1] = h[m] + x[m + 1]
    BY <2>1, <1>1, <1>2
  <2>3. g[m] \in Nat /\ h[m] \in Nat /\ g[m] <= h[m]
    BY <2>1, <1>1, <1>2, <1>4
  <2>4. w[m + 1] \in Nat /\ x[m + 1] \in Nat /\ w[m + 1] <= x[m + 1]
    BY <2>1
  <2>5. g[m + 1] <= h[m + 1]
    BY <2>2, <2>3, <2>4
  <2> QED BY <2>1, <2>5
<1> HIDE DEF G
<1>5. \A m \in 0 .. K : m \in G
  <2>1. \A m \in 0 .. K : m \in G /\ m < K => m + 1 \in G
    BY <1>4
  <2> QED BY <1>3, <2>1, Upwards
<1> QED BY <1>5 DEF G

LEMMA SumSame ==
  ASSUME NEW N \in Nat, NEW M \in Nat, NEW K \in Nat, K <= N, K <= M,
         NEW g, NEW w, IsSum(g, w, N), NEW h, NEW x, IsSum(h, x, M),
         \A m \in 1 .. K : w[m] \in Nat /\ w[m] = x[m]
  PROVE  g[K] = h[K]
<1>1. \A m \in 1 .. K : w[m] \in Nat /\ x[m] \in Nat /\ w[m] <= x[m] /\ x[m] <= w[m]
  OBVIOUS
<1>2. g[K] <= h[K] /\ h[K] <= g[K]
  <2>1. \A m \in 0 .. K : g[m] <= h[m]
    BY <1>1, SumLess
  <2>2. \A m \in 0 .. K : h[m] <= g[m]
    BY <1>1, SumLess
  <2> QED BY <2>1, <2>2
<1>3. g[K] \in Nat /\ h[K] \in Nat
  BY DEF IsSum
<1> QED BY <1>2, <1>3

\* One of the numbers is larger by a.
LEMMA SumMore ==
  ASSUME NEW N \in Nat, NEW g, NEW w, IsSum(g, w, N), NEW h, NEW x, IsSum(h, x, N),
         NEW d \in 1 .. N, NEW a \in Nat, x[d] = w[d] + a,
         \A m \in 1 .. N : w[m] \in Nat /\ (m # d => x[m] = w[m])
  PROVE  h[N] = g[N] + a
<1> DEFINE G == {m \in 0 .. N : h[m] = g[m] + IF d <= m THEN a ELSE 0}
<1>1. g \in [0 .. N -> Nat] /\ g[0] = 0 /\ \A m \in 1 .. N : g[m] = g[m - 1] + w[m]
  BY DEF IsSum
<1>2. h \in [0 .. N -> Nat] /\ h[0] = 0 /\ \A m \in 1 .. N : h[m] = h[m - 1] + x[m]
  BY DEF IsSum
<1>3. 0 \in G
  BY <1>1, <1>2
<1>4. ASSUME NEW m \in 0 .. N, m \in G, m < N PROVE m + 1 \in G
  <2>1. m + 1 \in 1 .. N /\ m + 1 \in 0 .. N /\ (m + 1) - 1 = m
    BY <1>4
  <2>2. g[m + 1] = g[m] + w[m + 1] /\ h[m + 1] = h[m] + x[m + 1]
    BY <2>1, <1>1, <1>2
  <2>3. g[m] \in Nat /\ h[m] \in Nat /\ h[m] = g[m] + IF d <= m THEN a ELSE 0
    BY <1>1, <1>2, <1>4
  <2>4. w[m + 1] \in Nat
    BY <2>1
  <2>5. h[m + 1] = g[m + 1] + IF d <= m + 1 THEN a ELSE 0
    <3>1. CASE d = m + 1
      BY <3>1, <2>2, <2>3, <2>4
    <3>2. CASE d # m + 1
      <4>1. x[m + 1] = w[m + 1] /\ (d <= m + 1 <=> d <= m)
        BY <3>2, <2>1
      <4> QED BY <4>1, <2>2, <2>3, <2>4
    <3> QED BY <3>1, <3>2
  <2> QED BY <2>1, <2>5
<1> HIDE DEF G
<1>5. N \in G
  <2>1. \A m \in 0 .. N : m \in G /\ m < N => m + 1 \in G
    BY <1>4
  <2>2. N \in 0 .. N
    OBVIOUS
  <2> QED BY <1>3, <2>1, <2>2, Upwards
<1> QED BY <1>5 DEF G

Sizes(l) == [i \in 1 .. Len(l) |-> Size(l[i].data)]

LEMMA SizeNat == \A v : Size(v) \in Nat
BY DEF Size

\* The function that Space defines is the sum of the sizes.
LEMMA SpaceIsSum ==
  ASSUME NEW l, Len(l) \in Nat
  PROVE  \E g : IsSum(g, Sizes(l), Len(l)) /\ Space(l) = g[Len(l)]
<1> DEFINE N == Len(l)
           F == CHOOSE g : g = [i \in 0 .. N |-> IF i = 0 THEN 0 ELSE g[i - 1] + Size(l[i].data)]
           w == Sizes(l)
<1>1. Space(l) = F[N]
  BY DEF Space
<1>2. w = [i \in 1 .. N |-> Size(l[i].data)] /\ N \in Nat
  BY DEF Sizes
<1>3. \A i \in 1 .. N : w[i] = Size(l[i].data) /\ w[i] \in Nat
  BY <1>2, SizeNat
<1> HIDE DEF w, N
<1>4. PICK h : IsSum(h, w, N)
  BY <1>2, <1>3, SumExists
<1>5. h = [i \in 0 .. N |-> IF i = 0 THEN 0 ELSE h[i - 1] + Size(l[i].data)]
  <2>1. h \in [0 .. N -> Nat] /\ h[0] = 0 /\ \A i \in 1 .. N : h[i] = h[i - 1] + w[i]
    BY <1>4 DEF IsSum
  <2>2. \A i \in 0 .. N : h[i] = IF i = 0 THEN 0 ELSE h[i - 1] + Size(l[i].data)
    <3> TAKE i \in 0 .. N
    <3>1. i = 0 \/ i \in 1 .. N
      BY <1>2
    <3> QED BY <3>1, <2>1, <1>3
  <2>3. h = [i \in 0 .. N |-> h[i]]
    BY <2>1
  <2> QED BY <2>2, <2>3
<1>6. F = [i \in 0 .. N |-> IF i = 0 THEN 0 ELSE F[i - 1] + Size(l[i].data)]
  BY <1>5
<1> HIDE DEF F
<1>7. \A i \in 0 .. N : F[i] = IF i = 0 THEN 0 ELSE F[i - 1] + Size(l[i].data)
  BY <1>6
<1> DEFINE G == {i \in 0 .. N : F[i] = h[i]}
<1>8. 0 \in G
  BY <1>2, <1>4, <1>7 DEF IsSum
<1>9. ASSUME NEW i \in 0 .. N, i \in G, i < N PROVE i + 1 \in G
  <2>1. i + 1 \in 1 .. N /\ i + 1 \in 0 .. N /\ (i + 1) - 1 = i /\ i + 1 # 0
    BY <1>2, <1>9
  <2>2. h[i + 1] = h[i] + w[i + 1]
    BY <2>1, <1>4 DEF IsSum
  <2>3. F[i + 1] = F[i] + w[i + 1]
    BY <2>1, <1>3, <1>7
  <2> QED BY <2>1, <2>2, <2>3, <1>9
<1>10. \A i \in 0 .. N : i \in G
  <2> HIDE DEF G
  <2>1. \A i \in 0 .. N : i \in G /\ i < N => i + 1 \in G
    BY <1>9
  <2> QED BY <1>2, <1>8, <2>1, Upwards
<1>11. F[N] = h[N]
  BY <1>2, <1>10
<1> QED BY <1>1, <1>4, <1>11 DEF w, N

LEMMA SpaceNat ==
  ASSUME NEW l, Len(l) \in Nat
  PROVE  Space(l) \in Nat
<1>1. PICK g : IsSum(g, Sizes(l), Len(l)) /\ Space(l) = g[Len(l)]
  BY SpaceIsSum
<1>2. g[Len(l)] \in Nat
  BY <1>1 DEF IsSum
<1> QED BY <1>1, <1>2

\* Logs with the same data take the same space.
LEMMA SpaceSame ==
  ASSUME NEW l, NEW m, Len(l) \in Nat, Len(m) = Len(l),
         \A i \in 1 .. Len(l) : m[i].data = l[i].data
  PROVE  Space(m) = Space(l)
<1> DEFINE N == Len(l)
           w == Sizes(l)
           x == Sizes(m)
<1>1. PICK g : IsSum(g, w, N) /\ Space(l) = g[N]
  BY SpaceIsSum
<1>2. PICK h : IsSum(h, x, N) /\ Space(m) = h[N]
  BY SpaceIsSum
<1>3. \A i \in 1 .. N : w[i] \in Nat /\ w[i] = x[i]
  BY SizeNat DEF Sizes
<1> HIDE DEF w, x
<1>4. N \in Nat
  OBVIOUS
<1> HIDE DEF N
<1>5. g[N] = h[N]
  BY <1>1, <1>2, <1>3, <1>4, SumSame
<1> QED BY <1>1, <1>2, <1>5

LEMMA SpaceAppend ==
  ASSUME NEW l \in Seq(RecordType), NEW r \in RecordType
  PROVE  Space(Append(l, r)) = Space(l) + Size(r.data)
<1> DEFINE N == Len(l)
           m == Append(l, r)
           w == Sizes(l)
           x == Sizes(m)
<1>1. N \in Nat /\ Len(m) = N + 1 /\ m[N + 1] = r /\ \A i \in 1 .. N : m[i] = l[i]
  BY AppendProperties
<1> HIDE DEF m
<1>2. PICK g : IsSum(g, w, N) /\ Space(l) = g[N]
  BY <1>1, SpaceIsSum
<1>3. PICK h : IsSum(h, x, N + 1) /\ Space(m) = h[N + 1]
  <2>1. Len(m) \in Nat
    BY <1>1
  <2> QED BY <2>1, <1>1, SpaceIsSum
<1>4. \A i \in 1 .. N : w[i] \in Nat /\ w[i] = x[i]
  <2>1. \A i \in 1 .. N : i \in 1 .. (N + 1)
    BY <1>1
  <2> QED BY <2>1, <1>1, SizeNat DEF Sizes
<1>5. x[N + 1] = Size(r.data)
  <2>1. N + 1 \in 1 .. (N + 1)
    BY <1>1
  <2> QED BY <2>1, <1>1 DEF Sizes
<1> HIDE DEF w, x, N
<1>6. g[N] = h[N]
  <2>1. N + 1 \in Nat /\ N <= N /\ N <= N + 1
    BY <1>1
  <2> QED BY <2>1, <1>1, <1>2, <1>3, <1>4, SumSame
<1>7. h[N + 1] = h[N] + x[N + 1]
  <2>1. N + 1 \in 1 .. (N + 1) /\ (N + 1) - 1 = N
    BY <1>1
  <2> QED BY <2>1, <1>3 DEF IsSum
<1> QED BY <1>2, <1>3, <1>5, <1>6, <1>7 DEF m

\* The log up to record e.
LEMMA UpToFacts ==
  ASSUME NEW l, LogOK(l), NEW e \in 0 .. Len(l)
  PROVE  /\ Len(SubSeq(l, 1, e)) = e
         /\ \A i \in 1 .. e : SubSeq(l, 1, e)[i] = l[i]
<1>1. Len(l) \in Nat /\ \A i \in 1 .. Len(l) : l[i] \in RecordType
  BY LogFacts
<1>2. e \in Int /\ \A i \in 1 .. e : l[i] \in RecordType
  BY <1>1
<1>3. /\ Len(SubSeq(l, 1, e)) = IF 1 <= e THEN e - 1 + 1 ELSE 0
      /\ \A i \in 1 .. e - 1 + 1 : SubSeq(l, 1, e)[i] = l[1 + i - 1]
  BY <1>2, SubSeqProperties
<1> QED BY <1>1, <1>3

LEMMA UpToSame ==
  ASSUME NEW l, LogOK(l), NEW m, LogOK(m), NEW e \in 0 .. Len(l), e <= Len(m),
         \A i \in 1 .. e : m[i].data = l[i].data
  PROVE  Space(SubSeq(m, 1, e)) = Space(SubSeq(l, 1, e))
<1> DEFINE a == SubSeq(l, 1, e)
           b == SubSeq(m, 1, e)
<1>1. e \in Nat /\ e \in 0 .. Len(m)
  BY LogFacts
<1>2. /\ Len(a) = e /\ Len(b) = e
      /\ \A i \in 1 .. e : a[i] = l[i] /\ b[i] = m[i]
  BY <1>1, UpToFacts
<1> HIDE DEF a, b
<1>3. Space(b) = Space(a)
  BY <1>1, <1>2, SpaceSame
<1> QED BY <1>3 DEF a, b
------------------------------------------------------------------------------
(***************************************************************************)
(* A compacted store takes no more space than the store                    *)
(***************************************************************************)
\* The data of a variable is in a record of this variable.
LEMMA DataPlace ==
  ASSUME NEW l, LogOK(l), NEW f, Usable(l, f), NEW i \in Heads(l), i <= f.end
  PROVE  /\ NvGetDataNvar(l, i, f.end) \in 1 .. f.end
         /\ l[NvGetDataNvar(l, i, f.end)].name = l[i].name
<1> DEFINE e == f.end
           x == l[i].name
           D == {j \in 1 .. e : Complete(l, j) /\ l[j].name = x}
<1>1. /\ e \in Nat /\ Len(l) \in Nat /\ e \in 1 .. Len(l)
      /\ \A k : NvIsVariable(l, k, e) <=> k \in 1 .. e /\ Complete(l, k)
  BY UsableFacts
<1>2. SameLinks(l, e, l, e, D)
  <2>1. D \subseteq 1 .. Len(l)
    BY <1>1
  <2>2. ASSUME NEW j \in D, NvIsVariable(l, l[j].next, e) PROVE l[j].next \in D
    <3>1. l[j].next \in 1 .. e /\ Complete(l, l[j].next)
      BY <2>2, <1>1
    <3>2. LinkOK(l, j) /\ l[j].next # 0
      BY <2>1, <3>1, LogFacts
    <3>3. l[l[j].next].name = x
      BY <3>2 DEF LinkOK
    <3> QED BY <3>1, <3>3
  <2> HIDE DEF D
  <2> QED BY <2>1, <2>2 DEF SameLinks
<1>3. i \in D
  BY <1>1 DEF Heads
<1>4. NvGetDataNvar(l, i, e) \in D
  <2> HIDE DEF D, e
  <2> QED BY <1>1, <1>2, <1>3, FollowSame
<1> QED BY <1>4

\* The sizes of the records in T.
SizesIn(l, e, T) == [j \in 1 .. e |-> IF j \in T THEN Size(l[j].data) ELSE 0]

LEMMA CopySpace ==
  ASSUME NEW l, LogOK(l), NEW f, Usable(l, f), NEW S
  PROVE  Space(CopyVariables(l, f, S)) <= Space(SubSeq(l, 1, f.end))
<1> DEFINE N == Len(l)
           e == f.end
           F == CHOOSE g : g = [m \in 0 .. N |-> CopyStep(l, f, S, g, m)]
           C == Copied(l, f, S)
           D(i) == NvGetDataNvar(l, i, e)
           T(m) == {D(i) : i \in {i \in C : i <= m}}
           w(m) == SizesIn(l, e, T(m))
           G == {m \in 0 .. N : /\ F[m] \in Seq(RecordType)
                                /\ \E g : IsSum(g, w(m), e) /\ Space(F[m]) = g[e]}
<1>1. N \in Nat /\ e \in 1 .. N /\ e \in Nat
  BY UsableFacts
<1>2. CopyVariables(l, f, S) = F[N]
  BY DEF CopyVariables, CopyStep, CopyOf, Copied
<1>3. F = [m \in 0 .. N |-> CopyStep(l, f, S, F, m)]
  BY <1>1, CopyExists
<1> HIDE DEF F
<1>4. \A m \in 0 .. N : F[m] = CopyStep(l, f, S, F, m)
  BY <1>3
<1>5. C = {i \in Heads(l) : i <= e /\ l[i].name \in S}
  BY UsableFacts DEF Copied
<1>6. C \subseteq Heads(l) /\ \A i \in C : i <= e /\ i \in Nat /\ 1 <= i
  BY <1>5 DEF Heads
<1> HIDE DEF C, N, e
<1>7. \A i \in C : D(i) \in 1 .. e /\ l[D(i)].name = l[i].name
  BY <1>6, DataPlace DEF e
<1>8. \A i, j \in C : D(i) = D(j) => i = j
  <2>1. \A i, j \in Heads(l) : l[i].name = l[j].name => i = j
    BY DEF LogOK
  <2> QED BY <2>1, <1>6, <1>7
<1> HIDE DEF D
<1>9. \A m : \A j \in 1 .. e : w(m)[j] \in Nat
                            /\ w(m)[j] = IF j \in T(m) THEN Size(l[j].data) ELSE 0
  BY SizeNat DEF SizesIn
<1>10. 0 \in G
  <2>1. F[0] = <<>> /\ 0 \in 0 .. N
    BY <1>1, <1>4 DEF CopyStep
  <2>2. PICK g : IsSum(g, w(0), e)
    <3> HIDE DEF w
    <3> QED BY <1>1, <1>9, SumExists
  <2>3. PICK h : IsSum(h, Sizes(<<>>), 0) /\ Space(<<>>) = h[0]
    <3>1. Len(<<>>) = 0
      OBVIOUS
    <3> QED BY <3>1, SpaceIsSum
  <2>4. \A j \in 1 .. e : w(0)[j] = 0
    <3>1. T(0) = {}
      BY <1>6
    <3> QED BY <3>1, <1>9
  <2> HIDE DEF w
  <2>5. g[e] = 0
    <3> DEFINE z == [j \in 0 .. e |-> 0]
               y == [j \in 1 .. e |-> 0]
    <3>1. IsSum(z, y, e) /\ z[e] = 0 /\ \A j \in 1 .. e : y[j] = 0
      BY <1>1 DEF IsSum
    <3> HIDE DEF z, y
    <3>2. \A j \in 1 .. e : y[j] \in Nat /\ y[j] = w(0)[j]
      BY <3>1, <2>4
    <3>3. z[e] = g[e]
      BY <3>1, <3>2, <2>2, <1>1, SumSame
    <3> QED BY <3>1, <3>3
  <2>6. Space(F[0]) = g[e] /\ F[0] \in Seq(RecordType)
    BY <2>1, <2>3, <2>5 DEF IsSum
  <2> QED BY <2>1, <2>2, <2>6
<1>11. ASSUME NEW m \in 0 .. N, m \in G, m < N PROVE m + 1 \in G
  <2>1. m + 1 \in 0 .. N /\ m + 1 # 0 /\ (m + 1) - 1 = m /\ m \in Nat
    BY <1>1, <1>11
  <2>2. F[m] \in Seq(RecordType)
    BY <1>11
  <2>3. PICK g : IsSum(g, w(m), e) /\ Space(F[m]) = g[e]
    BY <1>11
  <2>4. F[m + 1] = IF m + 1 \in C THEN Append(F[m], CopyOf(l, f, m + 1)) ELSE F[m]
    BY <2>1, <1>4 DEF CopyStep, C
  <2>5. CASE m + 1 \notin C
    <3>1. T(m + 1) = T(m)
      <4>1. \A i \in C : i <= m + 1 <=> i <= m
        BY <2>1, <2>5, <1>6
      <4> QED BY <4>1
    <3> HIDE DEF T
    <3> QED BY <2>1, <2>2, <2>3, <2>4, <2>5, <3>1
  <2>6. CASE m + 1 \in C
    <3> DEFINE i == m + 1
               d == D(i)
               r == CopyOf(l, f, i)
    <3>1. r \in RecordType /\ r.data = l[d].data
      BY <2>6, <1>6, CopyOfFacts DEF D, e
    <3> HIDE DEF r
    <3>2. F[i] = Append(F[m], r)
      BY <2>4, <2>6 DEF r
    <3>3. F[i] \in Seq(RecordType) /\ Space(F[i]) = Space(F[m]) + Size(l[d].data)
      BY <2>2, <3>1, <3>2, SpaceAppend, AppendProperties
    <3>4. d \notin T(m) /\ T(i) = T(m) \union {d} /\ d \in 1 .. e
      <4>1. \A k \in C : k <= m => D(k) # d
        BY <2>1, <2>6, <1>8
      <4>2. \A k \in C : k <= i <=> k <= m \/ k = i
        BY <2>1, <1>6
      <4> QED BY <4>1, <4>2, <2>6, <1>7
    <3>5. /\ w(i)[d] = w(m)[d] + Size(l[d].data)
          /\ \A j \in 1 .. e : w(m)[j] \in Nat /\ (j # d => w(i)[j] = w(m)[j])
      <4>1. d \in T(i) /\ d \notin T(m) /\ \A j \in 1 .. e : j # d => (j \in T(i) <=> j \in T(m))
        BY <3>4
      <4>2. w(m)[d] = 0 /\ w(i)[d] = Size(l[d].data) /\ Size(l[d].data) \in Nat
        BY <3>4, <4>1, <1>9, SizeNat
      <4> HIDE DEF T, w, d, i
      <4> QED BY <4>1, <4>2, <1>9
    <3>6. PICK h : IsSum(h, w(i), e)
      <4> HIDE DEF w, i
      <4> QED BY <1>1, <1>9, SumExists
    <3>7. h[e] = g[e] + Size(l[d].data)
      <4>1. Size(l[d].data) \in Nat
        BY SizeNat
      <4> HIDE DEF w, i, d
      <4> QED BY <4>1, <1>1, <2>3, <3>4, <3>5, <3>6, SumMore
    <3> HIDE DEF w
    <3> QED BY <2>1, <2>3, <3>3, <3>6, <3>7
  <2> QED BY <2>5, <2>6
<1>12. \A m \in 0 .. N : m \in G
  <2> HIDE DEF G
  <2>1. \A m \in 0 .. N : m \in G /\ m < N => m + 1 \in G
    BY <1>11
  <2> QED BY <1>1, <1>10, <2>1, Upwards
<1>13. PICK g : IsSum(g, w(N), e) /\ Space(F[N]) = g[e]
  <2>1. N \in 0 .. N
    BY <1>1
  <2> HIDE DEF w
  <2> QED BY <2>1, <1>12
<1> DEFINE a == SubSeq(l, 1, e)
<1>14. Len(a) = e /\ \A i \in 1 .. e : a[i] = l[i]
  BY <1>1, UpToFacts DEF N
<1> HIDE DEF a
<1>15. PICK h : IsSum(h, Sizes(a), e) /\ Space(a) = h[e]
  BY <1>1, <1>14, SpaceIsSum
<1>16. \A i \in 1 .. e : w(N)[i] \in Nat /\ Sizes(a)[i] \in Nat /\ w(N)[i] <= Sizes(a)[i]
  <2>1. \A i \in 1 .. e : Sizes(a)[i] = Size(l[i].data)
    BY <1>14 DEF Sizes
  <2> HIDE DEF w, T
  <2> QED BY <2>1, <1>9, SizeNat
<1>17. g[e] <= h[e]
  <2>1. e <= e /\ e \in 0 .. e
    BY <1>1
  <2> HIDE DEF w
  <2>2. \A i \in 0 .. e : g[i] <= h[i]
    BY <2>1, <1>1, <1>13, <1>15, <1>16, SumLess
  <2> QED BY <2>1, <2>2
<1> QED BY <1>2, <1>13, <1>15, <1>17 DEF a, e
------------------------------------------------------------------------------
(***************************************************************************)
(* The invariant                                                           *)
(***************************************************************************)
\* A record is written only if there is room for it, so that it will fit into a
\* compacted store as well; and until it counts, the request is not carried out.
RoomInv ==
  /\ \/ pc \in {"Body", "Link"}
     \/ pc \in {"Recover", "SecondPass"} /\ Written(log, info)
     => IsEnoughSpace(BeforeEnd, req.value)
  /\ \/ pc \in {"Body", "Link"}
     \/ pc \in {"Recover", "SecondPass"} /\ ~Written(log, info)
     => BootView(log)[req.name] # req.value

StoreInv == LogInv /\ RoomInv /\ store = BootView(log)

StoreStep == [VS!Next]_VS!vars

\* The contents s with v for the variable x; without the variables to drop.
SetTo(s, x, v) == [s EXCEPT ![x] = v]
CutDown(s)     == [n \in Names |-> IF n \in Preserved THEN s[n] ELSE Absent]

\* A step that ends the call, or is outside of any.
LEMMA NoRoom ==
  ASSUME pc' \in {"Off", "Idle", "Set"}
  PROVE  RoomInv'
BY DEF RoomInv

LEMMA ViewSame ==
  ASSUME NEW l, NEW d, \A n \in Names : BootView(d)[n] = BootView(l)[n]
  PROVE  BootView(d) = BootView(l)
<1>1. BootView(l) = [n \in Names |-> BootView(l)[n]] /\ BootView(d) = [n \in Names |-> BootView(d)[n]]
  BY DEF BootView, View
<1> QED BY <1>1

LEMMA ViewSet ==
  ASSUME NEW l, NEW d, NEW x \in Names, NEW v, BootView(d)[x] = v,
         \A n \in Names : n # x => BootView(d)[n] = BootView(l)[n]
  PROVE  BootView(d) = SetTo(BootView(l), x, v)
<1> DEFINE a == BootView(l)
           b == BootView(d)
           c == SetTo(a, x, v)
<1>1. a = [n \in Names |-> a[n]] /\ b = [n \in Names |-> b[n]]
  BY DEF BootView, View
<1> HIDE DEF a, b
<1>2. c = [n \in Names |-> c[n]] /\ \A n \in Names : c[n] = IF n = x THEN v ELSE a[n]
  BY <1>1 DEF SetTo
<1> HIDE DEF c
<1>3. \A n \in Names : b[n] = c[n]
  BY <1>2 DEF a, b
<1> QED BY <1>1, <1>2, <1>3 DEF a, b, c

\* The variables that are not preserved are dropped.
LEMMA ViewCutDown ==
  ASSUME NEW l, NEW d,
         \A n \in Names : BootView(d)[n] = IF n \in Preserved THEN BootView(l)[n] ELSE Absent
  PROVE  BootView(d) = CutDown(BootView(l))
<1>1. BootView(d) = [n \in Names |-> BootView(d)[n]]
  BY DEF BootView, View
<1> QED BY <1>1 DEF CutDown

LEMMA ViewCutDownSet ==
  ASSUME NEW l, NEW d, NEW x \in Names, NEW v, BootView(d)[x] = v,
         \A n \in Names :
           n # x => BootView(d)[n] = IF n \in Preserved THEN BootView(l)[n] ELSE Absent
  PROVE  BootView(d) = SetTo(CutDown(BootView(l)), x, v)
<1> DEFINE a == CutDown(BootView(l))
           b == BootView(d)
           c == SetTo(a, x, v)
<1>1. b = [n \in Names |-> b[n]]
  BY DEF BootView, View
<1>2. /\ a = [n \in Names |-> a[n]]
      /\ \A n \in Names : a[n] = IF n \in Preserved THEN BootView(l)[n] ELSE Absent
  BY DEF CutDown
<1> HIDE DEF a, b
<1>3. c = [n \in Names |-> c[n]] /\ \A n \in Names : c[n] = IF n = x THEN v ELSE a[n]
  BY <1>2 DEF SetTo
<1> HIDE DEF c
<1>4. \A n \in Names : b[n] = c[n]
  BY <1>2, <1>3 DEF b
<1> QED BY <1>1, <1>3, <1>4 DEF a, b, c
------------------------------------------------------------------------------
(***************************************************************************)
(* What a step is to the abstract store                                    *)
(***************************************************************************)
LEMMA PendingFacts ==
  ASSUME StoreInv
  PROVE  /\ pc \in {"Off", "Idle"} => Pending = NoRequest
         /\ pc \in {"Set", "Body", "Link"} => Pending = req
         /\ pc \in {"Recover", "SecondPass"} /\ ~Written(log, info) => Pending = req
         /\ BootView(log)[req.name] # req.value => Pending = req
         /\ Pending = req \/ (Pending = NoRequest /\ BootView(log)[req.name] = req.value)
         /\ pc \in Busy => req \in Calls /\ req # NoRequest /\ req.name \in Names
<1>1. RequestInv
  BY DEF StoreInv, LogInv, DriverInv
<1>2. pc \in {"Off", "Idle"} => req = NoRequest
  BY <1>1, IdleFacts
<1>3. pc \in Busy => req \in Calls /\ req # NoRequest /\ req.name \in Names
  BY <1>1, RequestFacts
<1>4. Pending = IF pc \in {"Off", "Idle", "Set"} \/ BootView(log)[req.name] # req.value
                THEN req ELSE NoRequest
  BY DEF Pending, StoreInv
<1>5. /\ pc \in {"Body", "Link"} => BootView(log)[req.name] # req.value
      /\ pc \in {"Recover", "SecondPass"} /\ ~Written(log, info) =>
           BootView(log)[req.name] # req.value
  BY DEF StoreInv, RoomInv
<1> QED BY <1>2, <1>3, <1>4, <1>5

LEMMA ReturnPending ==
  ASSUME NEW ok, Return(ok)
  PROVE  Pending' = NoRequest /\ RoomInv'
BY NoRoom DEF Return, Pending

LEMMA AbortStep ==
  ASSUME store' = store \/ (Pending # NoRequest /\ store' = CutDown(store)), Pending' = NoRequest
  PROVE  StoreStep
<1>1. CASE Pending = NoRequest
  BY <1>1 DEF StoreStep, VS!vars
<1>2. CASE Pending # NoRequest
  <2>1. VS!Abort
    BY <1>2 DEF VS!Abort, VS!Cleared, CutDown
  <2> QED BY <2>1 DEF StoreStep, VS!Next
<1> QED BY <1>1, <1>2

LEMMA KeepStep ==
  ASSUME store' = store, Pending' = Pending
  PROVE  StoreStep
BY DEF StoreStep, VS!vars

LEMMA CommitStep ==
  ASSUME Pending = req, req # NoRequest, Pending' = NoRequest,
         \/ store' = SetTo(store, req.name, req.value)
         \/ store' = SetTo(CutDown(store), req.name, req.value)
  PROVE  StoreStep
<1>1. VS!Commit
  BY DEF VS!Commit, VS!Set, VS!Cleared, SetTo, CutDown
<1> QED BY <1>1 DEF StoreStep, VS!Next

\* A step inside the call.
LEMMA BusyPending ==
  ASSUME pc' \in {"Body", "Link", "Recover", "SecondPass"}, req' = req
  PROVE  Pending' = IF store'[req.name] # req.value THEN req ELSE NoRequest
BY DEF Pending
------------------------------------------------------------------------------
(***************************************************************************)
(* The steps                                                               *)
(***************************************************************************)
LEMMA OutsideStep ==
  ASSUME StoreInv, store' = BootView(log'), Boot \/ DxeGetVariable, "SecondPass" \notin ShortOfMemory
  PROVE  RoomInv' /\ StoreStep
<1>1. pc \in {"Off", "Idle"} /\ pc' \in {"Off", "Idle"} /\ req' = req
  BY DEF Boot, DxeGetVariable
<1>2. store' = store
  <2>1. CASE Boot
    BY <2>1 DEF Boot, StoreInv
  <2>2. CASE DxeGetVariable
    <3>1. \A n \in Names : BootView(log')[n] = BootView(log)[n]
      BY <2>2, CheckStep DEF DxeGetVariable, StoreInv
    <3> QED BY <3>1, ViewSame DEF StoreInv
  <2> QED BY <2>1, <2>2
<1>3. Pending = NoRequest
  BY <1>1, PendingFacts
<1>4. Pending' = NoRequest
  BY <1>1, <1>3 DEF Pending
<1> QED BY <1>1, <1>2, <1>3, <1>4, NoRoom, KeepStep

LEMMA CallStep ==
  ASSUME StoreInv, store' = BootView(log'), NEW r \in Calls, DxeSetVariable(r),
         "SecondPass" \notin ShortOfMemory
  PROVE  RoomInv' /\ StoreStep
<1>1. pc = "Idle" /\ pc' = "Set" /\ req' = r /\ CheckStore
  BY DEF DxeSetVariable
<1>2. \A n \in Names : BootView(log')[n] = BootView(log)[n]
  BY <1>1, CheckStep DEF StoreInv
<1>3. store' = store
  BY <1>2, ViewSame DEF StoreInv
<1>4. Pending = NoRequest /\ Pending' = r
  BY <1>1, PendingFacts DEF Pending
<1>5. r \in VS!Requests
  BY LogAssumption DEF VS!Requests
<1>6. VS!SetVariable(r)
  BY <1>3, <1>4 DEF VS!SetVariable
<1> QED BY <1>1, <1>5, <1>6, NoRoom DEF StoreStep, VS!Next

LEMMA DeletionStep ==
  ASSUME StoreInv, store' = BootView(log'), DeleteMissing \/ DeleteVariable
  PROVE  RoomInv' /\ StoreStep
<1>1. pc = "Set" /\ req.value = Absent
  BY DEF DeleteMissing, DeleteVariable
<1>2. PICK ok \in BOOLEAN : Return(ok)
  BY DEF DeleteMissing, DeleteVariable
<1>3. /\ LogOK(log) /\ Covers(log, info) /\ RequestInv /\ pc \in Busy
      /\ Var = HeadsOf(log, req.name)
      /\ \A i \in HeadsOf(log, req.name) : Min(Var) = i
  BY <1>1, SetFacts DEF StoreInv
<1>4. /\ Pending = req /\ req # NoRequest /\ req.name \in Names /\ req.name # setup
      /\ Pending' = NoRequest /\ RoomInv'
  BY <1>1, <1>2, <1>3, PendingFacts, RequestFacts, ReturnPending
<1>5. CASE log' = log
  <2>1. store' = store
    BY <1>5 DEF StoreInv
  <2> QED BY <2>1, <1>4, AbortStep
<1>6. CASE Var # {} /\ log' = [log EXCEPT ![Min(Var)].valid = FALSE]
  <2>1. PICK m \in HeadsOf(log, req.name) : Min(Var) = m
    BY <1>3, <1>6
  <2>2. log' = Deleted(log, m)
    BY <1>6, <2>1 DEF Deleted
  <2>3. /\ BootView(log')[req.name] = Absent
        /\ \A n \in Names : n # req.name => BootView(log')[n] = BootView(log)[n]
    BY <2>2, <1>3, <1>4, DeleteFacts
  <2>4. BootView(log') = SetTo(BootView(log), req.name, req.value)
    <3>1. BootView(log')[req.name] = req.value
      BY <2>3, <1>1
    <3> QED BY <3>1, <2>3, <1>4, ViewSet
  <2>5. store' = SetTo(store, req.name, req.value)
    BY <2>4 DEF StoreInv
  <2> QED BY <2>5, <1>4, CommitStep
<1> QED BY <1>5, <1>6 DEF DeleteMissing, DeleteVariable

LEMMA SameDataKeeps ==
  ASSUME StoreInv, store' = BootView(log'), SameData
  PROVE  RoomInv' /\ StoreStep
<1>1. Return(TRUE) /\ log' = log
  BY DEF SameData
<1>2. store' = store /\ Pending' = NoRequest /\ RoomInv'
  BY <1>1, ReturnPending DEF StoreInv
<1> QED BY <1>2, AbortStep

\* A request is written only if it changes the variable.
LEMMA WritingFacts ==
  ASSUME LogInv, Writing
  PROVE  BootView(log)[req.name] # req.value /\ ~Written(log, info)
<1>1. pc = "Set" /\ req.value # Absent /\ (Var # {} => log[OldData].data # req.value)
  BY DEF Writing
<1>2. /\ LogOK(log) /\ Covers(log, info) /\ req.name \in Names /\ Var = HeadsOf(log, req.name)
      /\ \A i \in HeadsOf(log, req.name) : BootView(log)[req.name] = log[OldData].data
  BY <1>1, SetFacts
<1>3. CASE HeadsOf(log, req.name) = {}
  BY <1>1, <1>2, <1>3, BootFacts, CoversWritten
<1>4. CASE HeadsOf(log, req.name) # {}
  BY <1>1, <1>2, <1>4, CoversWritten
<1> QED BY <1>3, <1>4

LEMMA NoSpaceKeeps ==
  ASSUME StoreInv, store' = BootView(log'), NoSpace
  PROVE  RoomInv' /\ StoreStep
<1>1. /\ Writing /\ pc = "Set" /\ pc' = "Recover" /\ req' = req /\ log' = log /\ info' = info
  BY DEF NoSpace, Writing, Continue
<1>2. BootView(log)[req.name] # req.value /\ ~Written(log, info)
  BY <1>1, WritingFacts DEF StoreInv
<1>3. store' = store /\ Pending = req
  BY <1>1, PendingFacts DEF StoreInv
<1>4. Pending' = req
  BY <1>1, <1>2, <1>3, BusyPending DEF StoreInv
<1>5. RoomInv'
  BY <1>1, <1>2 DEF RoomInv, Written, Complete
<1> QED BY <1>3, <1>4, <1>5, KeepStep

\* RecoverFromFlashUpdateFailure, after a write that left the log d.
LEMMA FailedStep ==
  ASSUME StoreInv, store' = BootView(log'), pc \in {"Set", "Body", "Link"},
         NEW d, LogOK(d), Usable(d, info), RecoverFromFlashUpdateFailure(d),
         \/ /\ BootView(d) = BootView(log) /\ BootView(d)[req.name] # req.value
            /\ Written(d, info) => IsEnoughSpace(SubSeq(d, 1, info.end), req.value)
         \/ /\ BootView(d) = SetTo(BootView(log), req.name, req.value)
            /\ BootView(d)[req.name] = req.value
            /\ Written(d, info) /\ IsEnoughSpace(SubSeq(d, 1, info.end), req.value)
  PROVE  RoomInv' /\ StoreStep
<1> DEFINE g == [info EXCEPT !.end = @ + 1]
<1>1. /\ log' = d /\ store' = BootView(d) /\ store = BootView(log)
      /\ IF IsStoreOk(log', info') THEN Return(FALSE) ELSE Continue("Recover")
  BY DEF RecoverFromFlashUpdateFailure, StoreInv
<1>2. info \in InfoType /\ info.end \in Nat /\ Len(d) \in Nat
  BY UsableFacts DEF Usable
<1>3. Pending = req /\ req # NoRequest
  <2>1. pc \in Busy
    BY DEF Busy
  <2> QED BY <2>1, PendingFacts
<1>4. \/ info' = info /\ (Written(d, info) => ~IsStoreOk(log', info'))
      \/ ~Written(d, info) /\ ~Written(d, info')
  <2>1. CASE Len(d) > info.end /\ IsHole(d[info.end + 1])
    <3>1. info' = g
      BY <2>1, <1>2 DEF RecoverFromFlashUpdateFailure, InfoType
    <3>2. info.end < Len(d) /\ d[info.end + 1].state = "incomplete"
      BY <2>1, <1>2 DEF IsHole
    <3>3. Covers(d, g) /\ ~Written(d, info)
      BY <3>2, AdvanceFacts DEF Written, Complete
    <3> HIDE DEF g
    <3> QED BY <3>1, <3>3, CoversWritten
  <2>2. CASE ~(Len(d) > info.end /\ IsHole(d[info.end + 1]))
    <3>1. info' = info
      BY <2>2, <1>2 DEF RecoverFromFlashUpdateFailure, InfoType
    <3>2. Written(d, info) => ~IsStoreOk(log', info')
      BY <3>1, <1>1, <1>2 DEF Written, IsStoreOk
    <3> QED BY <3>1, <3>2
  <2> QED BY <2>1, <2>2
<1>5. CASE IsStoreOk(log', info')
  <2>1. Return(FALSE) /\ ~Written(d, info)
    BY <1>1, <1>4, <1>5
  <2>2. store' = store
    BY <2>1, <1>1
  <2> QED BY <2>1, <2>2, ReturnPending, AbortStep
<1>6. CASE ~IsStoreOk(log', info')
  <2>1. pc' = "Recover" /\ req' = req
    BY <1>1, <1>6 DEF Continue
  <2>2. Pending' = IF store'[req.name] # req.value THEN req ELSE NoRequest
    BY <2>1, BusyPending
  <2>3. /\ Written(d, info') => IsEnoughSpace(SubSeq(d, 1, info'.end), req.value)
        /\ ~Written(d, info') => BootView(d)[req.name] # req.value
    BY <1>4
  <2>4. RoomInv'
    BY <2>1, <2>3, <1>1 DEF RoomInv, BeforeEnd
  <2>5. CASE BootView(d) = BootView(log) /\ BootView(d)[req.name] # req.value
    BY <2>2, <2>4, <2>5, <1>1, <1>3, KeepStep
  <2>6. CASE /\ BootView(d) = SetTo(BootView(log), req.name, req.value)
             /\ BootView(d)[req.name] = req.value
    BY <2>2, <2>4, <2>6, <1>1, <1>3, CommitStep
  <2> QED BY <2>5, <2>6
<1> QED BY <1>5, <1>6

LEMMA HeaderKeeps ==
  ASSUME StoreInv, store' = BootView(log'), WriteHeader \/ HeaderFails \/ HeaderRefused
  PROVE  RoomInv' /\ StoreStep
<1>1. /\ Writing /\ pc = "Set" /\ req.value # Absent
      /\ IsEnoughSpace(BeforeEnd, req.value)
         \/ (HeaderRefused /\ RecoverFromFlashUpdateFailure(log))
  BY DEF WriteHeader, HeaderFails, HeaderRefused, Writing
<1>2. /\ LogOK(log) /\ Covers(log, info) /\ Usable(log, info) /\ ~Written(log, info)
      /\ BootView(log)[req.name] # req.value
  BY <1>1, SetFacts, WritingFacts DEF StoreInv
<1>3. ASSUME NEW st \in {"torn", "incomplete"}
      PROVE  /\ LogOK(Programmed(NewVar(st))) /\ Covers(Programmed(NewVar(st)), info)
             /\ BootView(Programmed(NewVar(st))) = BootView(log)
             /\ \A i \in 1 .. info.end : Programmed(NewVar(st))[i] = log[i]
  <2>1. NewVar(st) \in RecordType /\ NewVar(st).state # "complete" /\ NewVar(st).next = 0
    BY <1>1, NewVarFacts DEF StoreInv
  <2>2. /\ LogOK(Programmed(NewVar(st))) /\ Covers(Programmed(NewVar(st)), info)
        /\ \A n \in Names : BootView(Programmed(NewVar(st)))[n] = BootView(log)[n]
        /\ \A i \in 1 .. info.end : Programmed(NewVar(st))[i] = log[i]
    BY <2>1, <1>2, ProgramFacts
  <2> QED BY <2>2, ViewSame
<1>4. ASSUME NEW d, LogOK(d), Covers(d, info), RecoverFromFlashUpdateFailure(d),
             BootView(d) = BootView(log)
      PROVE  RoomInv' /\ StoreStep
  <2>1. ~Written(d, info) /\ Usable(d, info)
    BY <1>4, CoversWritten
  <2> QED BY <2>1, <1>1, <1>2, <1>4, FailedStep
<1>5. CASE HeaderFails
  <2>1. PICK d \in {log, Programmed(NewVar("torn")), Programmed(NewVar("incomplete"))} :
          RecoverFromFlashUpdateFailure(d)
    BY <1>5 DEF HeaderFails
  <2>2. LogOK(d) /\ Covers(d, info) /\ BootView(d) = BootView(log)
    <3>1. CASE d = log
      BY <3>1, <1>2
    <3>2. CASE d = Programmed(NewVar("torn"))
      BY <3>2, <1>3
    <3>3. CASE d = Programmed(NewVar("incomplete"))
      BY <3>3, <1>3
    <3> QED BY <2>1, <3>1, <3>2, <3>3
  <2> QED BY <2>1, <2>2, <1>4
<1>6. CASE HeaderRefused
  <2>1. RecoverFromFlashUpdateFailure(log)
    BY <1>6 DEF HeaderRefused
  <2> QED BY <2>1, <1>2, <1>4
<1>7. CASE WriteHeader
  <2> DEFINE d == Programmed(NewVar("incomplete"))
  <2>1. /\ log' = d /\ info' = info /\ pc' = "Body" /\ req' = req
        /\ IsEnoughSpace(BeforeEnd, req.value)
    BY <1>7 DEF WriteHeader, Continue
  <2>2. /\ LogOK(d) /\ Usable(d, info) /\ BootView(d) = BootView(log)
        /\ \A i \in 1 .. info.end : d[i].data = log[i].data
    BY <1>3 DEF Covers
  <2> HIDE DEF d
  <2>3. Space(SubSeq(d, 1, info.end)) = Space(SubSeq(log, 1, info.end))
    <3>1. info.end \in 0 .. Len(log) /\ info.end <= Len(d)
      BY <1>2, <2>2, UsableFacts
    <3> QED BY <3>1, <1>2, <2>2, UpToSame
  <2>4. RoomInv'
    BY <2>1, <2>2, <2>3, <1>2 DEF RoomInv, BeforeEnd, IsEnoughSpace
  <2>5. store' = store /\ Pending = req /\ Pending' = req
    BY <2>1, <2>2, <1>1, <1>2, PendingFacts, BusyPending DEF StoreInv
  <2> QED BY <2>4, <2>5, KeepStep
<1> QED BY <1>5, <1>6, <1>7

\* The log with the signature, to the abstract store.
LEMMA SignedFacts ==
  ASSUME StoreInv, pc = "Body"
  PROVE  /\ LogOK(Signed) /\ Usable(Signed, info) /\ req.name \in Names
         /\ IsEnoughSpace(SubSeq(Signed, 1, info.end), req.value)
         /\ BootView(log)[req.name] # req.value
         /\ Written(Signed, info)
         /\ Var = {} => /\ BootView(Signed) = SetTo(BootView(log), req.name, req.value)
                        /\ BootView(Signed)[req.name] = req.value
         /\ Var # {} => BootView(Signed) = BootView(log)
<1>1. /\ LogOK(log) /\ Usable(log, info) /\ LogOK(Signed) /\ Usable(Signed, info)
      /\ req.name \in Names /\ info.end < Len(log) /\ Len(Signed) = Len(log)
      /\ \A n \in Names : n # req.name => BootView(Signed)[n] = BootView(log)[n]
      /\ Var = {} => BootView(Signed)[req.name] = req.value
      /\ Var # {} => BootView(Signed)[req.name] = BootView(log)[req.name]
      /\ \A i \in 1 .. info.end : Signed[i].data = log[i].data
      /\ Signed[info.end + 1].state = "complete"
  BY BodyFacts DEF StoreInv, Record
<1>2. IsEnoughSpace(BeforeEnd, req.value) /\ BootView(log)[req.name] # req.value
  BY DEF StoreInv, RoomInv
<1>3. Space(SubSeq(Signed, 1, info.end)) = Space(SubSeq(log, 1, info.end))
  <2>1. info.end \in 0 .. Len(log) /\ info.end <= Len(Signed)
    BY <1>1, UsableFacts
  <2> QED BY <2>1, <1>1, UpToSame
<1>4. IsEnoughSpace(SubSeq(Signed, 1, info.end), req.value)
  BY <1>2, <1>3 DEF IsEnoughSpace, BeforeEnd
<1>5. Written(Signed, info)
  BY <1>1 DEF Written, Complete
<1>6. ASSUME Var = {} PROVE BootView(Signed) = SetTo(BootView(log), req.name, req.value)
  <2>1. /\ req.name \in Names /\ BootView(Signed)[req.name] = req.value
        /\ \A n \in Names : n # req.name => BootView(Signed)[n] = BootView(log)[n]
    BY <1>1, <1>6
  <2> QED BY <2>1, ViewSet
<1>7. ASSUME Var # {} PROVE BootView(Signed) = BootView(log)
  <2>1. \A n \in Names : BootView(Signed)[n] = BootView(log)[n]
    BY <1>1, <1>7
  <2> QED BY <2>1, ViewSame
<1> QED BY <1>1, <1>2, <1>4, <1>5, <1>6, <1>7

LEMMA NewVarKeeps ==
  ASSUME StoreInv, store' = BootView(log'), WriteNewVar
  PROVE  RoomInv' /\ StoreStep
<1>1. pc = "Body" /\ Var = {} /\ log' = Signed /\ Return(TRUE)
  BY DEF WriteNewVar
<1>2. BootView(Signed) = SetTo(BootView(log), req.name, req.value)
  BY <1>1, SignedFacts
<1>3. store' = SetTo(store, req.name, req.value)
  BY <1>1, <1>2 DEF StoreInv
<1>4. Pending = req /\ req # NoRequest
  BY <1>1, PendingFacts DEF Busy
<1> QED BY <1>1, <1>3, <1>4, ReturnPending, CommitStep

LEMMA NewDataKeeps ==
  ASSUME StoreInv, store' = BootView(log'), WriteNewData
  PROVE  RoomInv' /\ StoreStep
<1>1. pc = "Body" /\ Var # {} /\ log' = Signed /\ info' = info /\ pc' = "Link" /\ req' = req
  BY DEF WriteNewData, Continue
<1>2. /\ BootView(Signed) = BootView(log) /\ BootView(log)[req.name] # req.value
      /\ IsEnoughSpace(SubSeq(Signed, 1, info.end), req.value)
  BY <1>1, SignedFacts
<1>3. RoomInv'
  BY <1>1, <1>2 DEF RoomInv, BeforeEnd
<1>4. store' = store /\ Pending = req /\ Pending' = req
  BY <1>1, <1>2, PendingFacts, BusyPending DEF StoreInv
<1> QED BY <1>3, <1>4, KeepStep

LEMMA BodyFailsKeeps ==
  ASSUME StoreInv, store' = BootView(log'), BodyFails
  PROVE  RoomInv' /\ StoreStep
<1>1. pc = "Body"
  BY DEF BodyFails
<1>2. CASE RecoverFromFlashUpdateFailure(log)
  <2>1. LogOK(log) /\ Usable(log, info) /\ ~Written(log, info)
    BY <1>1, SetFacts, CoversWritten DEF StoreInv
  <2>2. BootView(log)[req.name] # req.value
    BY <1>1 DEF StoreInv, RoomInv
  <2> QED BY <2>1, <2>2, <1>1, <1>2, FailedStep
<1>3. CASE RecoverFromFlashUpdateFailure(Signed)
  BY <1>1, <1>3, SignedFacts, FailedStep
<1> QED BY <1>2, <1>3 DEF BodyFails

\* The log with the link, to the abstract store.
LEMMA LinkedFacts ==
  ASSUME StoreInv, pc = "Link"
  PROVE  /\ LogOK(Linked) /\ Usable(Linked, info) /\ Written(Linked, info)
         /\ IsEnoughSpace(SubSeq(Linked, 1, info.end), req.value)
         /\ BootView(Linked) = SetTo(BootView(log), req.name, req.value)
         /\ BootView(Linked)[req.name] = req.value
<1>1. /\ LogOK(log) /\ Usable(log, info) /\ LogOK(Linked) /\ Usable(Linked, info)
      /\ req.name \in Names /\ info.end < Len(log) /\ Len(Linked) = Len(log)
      /\ Linked[info.end + 1].state = "complete"
      /\ \A n \in Names : n # req.name => BootView(Linked)[n] = BootView(log)[n]
      /\ BootView(Linked)[req.name] = req.value
      /\ \A i \in 1 .. Len(log) : Linked[i].data = log[i].data
  BY LinkStateFacts DEF StoreInv
<1>2. IsEnoughSpace(BeforeEnd, req.value)
  BY DEF StoreInv, RoomInv
<1>3. Space(SubSeq(Linked, 1, info.end)) = Space(SubSeq(log, 1, info.end))
  <2>1. /\ info.end \in 0 .. Len(log) /\ info.end <= Len(Linked)
        /\ \A i \in 1 .. info.end : i \in 1 .. Len(log)
    BY <1>1, UsableFacts
  <2> QED BY <2>1, <1>1, UpToSame
<1>4. IsEnoughSpace(SubSeq(Linked, 1, info.end), req.value)
  BY <1>2, <1>3 DEF IsEnoughSpace, BeforeEnd
<1>5. Written(Linked, info)
  BY <1>1 DEF Written, Complete
<1>6. BootView(Linked) = SetTo(BootView(log), req.name, req.value)
  <2>1. /\ req.name \in Names /\ BootView(Linked)[req.name] = req.value
        /\ \A n \in Names : n # req.name => BootView(Linked)[n] = BootView(log)[n]
    BY <1>1
  <2> QED BY <2>1, ViewSet
<1> QED BY <1>1, <1>4, <1>5, <1>6

LEMMA LinkKeeps ==
  ASSUME StoreInv, store' = BootView(log'), WriteNext
  PROVE  RoomInv' /\ StoreStep
<1>1. pc = "Link" /\ log' = Linked /\ Return(TRUE)
  BY DEF WriteNext
<1>2. store' = SetTo(store, req.name, req.value)
  BY <1>1, LinkedFacts DEF StoreInv
<1>3. Pending = req /\ req # NoRequest
  BY <1>1, PendingFacts DEF Busy
<1> QED BY <1>1, <1>2, <1>3, ReturnPending, CommitStep

LEMMA LinkFailsKeeps ==
  ASSUME StoreInv, store' = BootView(log'), NextFails
  PROVE  RoomInv' /\ StoreStep
<1>1. pc = "Link"
  BY DEF NextFails
<1>2. CASE RecoverFromFlashUpdateFailure(log)
  <2>1. LogOK(log) /\ Usable(log, info)
    BY <1>1, LinkStateFacts DEF StoreInv
  <2>2. /\ BootView(log)[req.name] # req.value
        /\ IsEnoughSpace(SubSeq(log, 1, info.end), req.value)
    BY <1>1 DEF StoreInv, RoomInv, BeforeEnd
  <2> QED BY <2>1, <2>2, <1>1, <1>2, FailedStep
<1>3. CASE RecoverFromFlashUpdateFailure(Linked)
  BY <1>1, <1>3, LinkedFacts, FailedStep
<1> QED BY <1>2, <1>3 DEF NextFails

\* The state in which the error recovery runs.  Once the new record counts, it
\* fits into the copy of all other variables.
LEMMA RecoveryFacts ==
  ASSUME StoreInv, pc \in {"Recover", "SecondPass"}, "SecondPass" \notin ShortOfMemory
  PROVE  /\ LogOK(log) /\ Usable(log, info) /\ req # NoRequest /\ req.name \in Names
         /\ req.value \in Values
         /\ Written(log, info) => /\ log[info.end + 1].name = req.name
                                  /\ pc = "Recover" /\ Kept = Names /\ Fits
         /\ pc = "Recover" => Kept = Names
         /\ ~Written(log, info) => Pending = req
<1>1. /\ LogOK(log) /\ Usable(log, info) /\ req # NoRequest /\ req.name \in Names
      /\ req.value \in Values
      /\ SaveOnlyPreservedVars \in BOOLEAN
      /\ SaveOnlyPreservedVars => pc = "SecondPass"
      /\ pc = "SecondPass" => Dropping
      /\ Written(log, info) => log[info.end + 1].name = req.name
  BY RecoverStateFacts DEF StoreInv
<1>2. pc = "Recover" => Kept = Names
  BY <1>1 DEF Kept
<1>3. ASSUME Written(log, info)
      PROVE  IsEnoughSpace(CopyVariables(log, info, Names \ {req.name}), req.value)
  <2> DEFINE c == CopyVariables(log, info, Names \ {req.name})
             b == SubSeq(log, 1, info.end)
  <2>1. Space(b) + Size(req.value) <= Capacity
    BY <1>3 DEF StoreInv, RoomInv, IsEnoughSpace, BeforeEnd
  <2>2. Space(c) <= Space(b)
    BY <1>1, CopySpace
  <2>3. Space(b) \in Nat
    <3>1. info.end \in 0 .. Len(log) /\ info.end \in Nat
      BY <1>1, UsableFacts
    <3>2. Len(b) \in Nat
      BY <3>1, <1>1, UpToFacts
    <3> QED BY <3>2, SpaceNat
  <2>4. Space(c) \in Nat
    <3>1. c \in Seq(RecordType)
      BY <1>1, CopyFacts DEF CopiesOf, Fresh
    <3>2. Len(c) \in Nat
      BY <3>1
    <3> QED BY <3>2, SpaceNat
  <2>5. Size(req.value) \in Nat /\ Capacity \in Nat
    BY SizeNat, LogAssumption
  <2> HIDE DEF c, b
  <2>6. Space(c) + Size(req.value) <= Capacity
    BY <2>1, <2>2, <2>3, <2>4, <2>5
  <2> QED BY <2>6 DEF IsEnoughSpace, c
<1>4. Written(log, info) => pc = "Recover" /\ Kept = Names /\ Fits
  <2>1. SUFFICES ASSUME Written(log, info) PROVE pc = "Recover" /\ Kept = Names /\ Fits
    OBVIOUS
  <2>2. pc = "Recover"
    BY <2>1, <1>1, <1>3 DEF Dropping
  <2> QED BY <2>1, <2>2, <1>2, <1>3 DEF Fits, Others
<1>5. ~Written(log, info) => Pending = req
  BY PendingFacts
<1> QED BY <1>1, <1>2, <1>4, <1>5

LEMMA OutOfMemoryKeeps ==
  ASSUME StoreInv, store' = BootView(log'), OutOfMemory
  PROVE  RoomInv' /\ StoreStep
<1>1. Return(FALSE) /\ log' = log
  BY DEF OutOfMemory
<1>2. store' = store
  BY <1>1 DEF StoreInv
<1> QED BY <1>1, <1>2, ReturnPending, AbortStep

LEMMA RecoverKeeps ==
  ASSUME StoreInv, store' = BootView(log'), Recover, "SecondPass" \notin ShortOfMemory
  PROVE  RoomInv' /\ StoreStep
<1>1. pc \in {"Recover", "SecondPass"} /\ store = BootView(log)
  BY DEF Recover, StoreInv
<1>2. CASE Return(FALSE) /\ log' = log
  <2>1. store' = store
    BY <1>1, <1>2
  <2> QED BY <2>1, <1>2, ReturnPending, AbortStep
<1>3. CASE UpdateVarstore(WithNewVar) /\ Return(TRUE)
  <2> DEFINE x == req.name
             v == req.value
             c == WithVar(log, info, Kept, x, v)
  <2>1. log' = c
    BY <1>3 DEF UpdateVarstore, WithVar, WithNewVar, Others
  <2>2. /\ LogOK(log) /\ Usable(log, info) /\ req # NoRequest /\ x \in Names /\ v \in Values
        /\ Written(log, info) => log[info.end + 1].name = x /\ Kept = Names
        /\ ~Written(log, info) => Pending = req
    BY <1>1, RecoveryFacts
  <2>3. /\ BootView(c)[x] = v
        /\ \A n \in Names : n \notin Kept /\ n # x => BootView(c)[n] = Absent
        /\ \A n \in Names : n \in Kept /\ n # x => BootView(c)[n] = BootView(log)[n]
    BY <2>2, SetupFacts, RecoverFacts
  <2>4. Pending' = NoRequest /\ RoomInv'
    BY <1>3, ReturnPending
  <2> HIDE DEF c
  <2>5. CASE Kept = Names
    <3>1. \A n \in Names : n # x => BootView(c)[n] = BootView(log)[n]
      BY <2>3, <2>5
    <3>2. BootView(c) = SetTo(BootView(log), x, v)
      <4> HIDE DEF x, v
      <4> QED BY <2>2, <2>3, <3>1, ViewSet
    <3>3. CASE Pending = req
      BY <3>2, <3>3, <1>1, <2>1, <2>2, <2>4, CommitStep
    <3>4. CASE Pending # req
      <4>1. BootView(log)[x] = v
        BY <3>4, PendingFacts
      <4>2. \A n \in Names : BootView(c)[n] = BootView(log)[n]
        BY <2>3, <3>1, <4>1
      <4>3. BootView(c) = BootView(log)
        BY <4>2, ViewSame
      <4> QED BY <4>3, <1>1, <2>1, <2>4, AbortStep
    <3> QED BY <3>3, <3>4
  <2>6. CASE Kept # Names
    <3>1. Kept = Preserved /\ Pending = req
      BY <2>2, <2>6 DEF Kept
    <3>2. \A n \in Names :
            n # x => BootView(c)[n] = IF n \in Preserved THEN BootView(log)[n] ELSE Absent
      BY <2>3, <3>1
    <3>3. BootView(c) = SetTo(CutDown(BootView(log)), x, v)
      <4> HIDE DEF x, v
      <4> QED BY <2>2, <2>3, <3>2, ViewCutDownSet
    <3> QED BY <3>1, <3>3, <1>1, <2>1, <2>2, <2>4, CommitStep
  <2> QED BY <2>5, <2>6
<1> QED BY <1>2, <1>3 DEF Recover

LEMMA SecondPassKeeps ==
  ASSUME StoreInv, store' = BootView(log'), StartSecondPass, "SecondPass" \notin ShortOfMemory
  PROVE  RoomInv' /\ StoreStep
<1>1. /\ pc = "Recover" /\ ~Fits /\ pc' = "SecondPass" /\ req' = req /\ log' = log /\ info' = info
  BY DEF StartSecondPass, Continue
<1>2. ~Written(log, info)
  BY <1>1, RecoveryFacts
<1>3. BootView(log)[req.name] # req.value
  BY <1>1, <1>2 DEF StoreInv, RoomInv
<1>4. RoomInv'
  BY <1>1, <1>2, <1>3 DEF RoomInv, Written, Complete
<1>5. store' = store /\ Pending = req /\ Pending' = req
  BY <1>1, <1>3, PendingFacts, BusyPending DEF StoreInv
<1> QED BY <1>4, <1>5, KeepStep

LEMMA RecoveryFailsKeeps ==
  ASSUME StoreInv, store' = BootView(log'), ClearDamagedStore \/ RecoveryFails,
         "SecondPass" \notin ShortOfMemory
  PROVE  RoomInv' /\ StoreStep
<1>1. pc \in {"Recover", "SecondPass"} /\ ~Fits /\ Return(FALSE)
  BY DEF ClearDamagedStore, RecoveryFails
<1>2. /\ LogOK(log) /\ Usable(log, info) /\ req # NoRequest /\ ~Written(log, info)
      /\ Pending = req /\ store = BootView(log)
  BY <1>1, RecoveryFacts DEF StoreInv
<1>3. Pending' = NoRequest /\ RoomInv'
  BY <1>1, ReturnPending
<1>4. CASE log' = log
  <2>1. store' = store
    BY <1>4, <1>2
  <2> QED BY <2>1, <1>3, AbortStep
<1>5. ASSUME NEW S \in {Preserved, Names}, log' = CopyVariables(log, info, S)
      PROVE  StoreStep
  <2> DEFINE c == CopyVariables(log, info, S)
  <2>1. setup \in S
    BY SetupFacts
  <2>2. /\ \A n \in Names : n \notin S => BootView(c)[n] = Absent
        /\ \A n \in Names : n \in S => BootView(c)[n] = BootView(log)[n]
    BY <1>2, <2>1, CompactFacts
  <2>3. log' = c
    BY <1>5
  <2> HIDE DEF c
  <2>4. CASE S = Names
    <3>1. \A n \in Names : BootView(c)[n] = BootView(log)[n]
      BY <2>2, <2>4
    <3>2. BootView(c) = BootView(log)
      BY <3>1, ViewSame
    <3>3. store' = store
      BY <3>2, <2>3, <1>2
    <3> QED BY <3>3, <1>3, AbortStep
  <2>5. CASE S = Preserved
    <3>1. \A n \in Names :
            BootView(c)[n] = IF n \in Preserved THEN BootView(log)[n] ELSE Absent
      BY <2>2, <2>5
    <3>2. BootView(c) = CutDown(BootView(log))
      BY <3>1, ViewCutDown
    <3>3. store' = CutDown(store) /\ Pending # NoRequest
      BY <3>2, <2>3, <1>2
    <3> QED BY <3>3, <1>3, AbortStep
  <2> QED BY <2>4, <2>5
<1>6. \/ log' = log
      \/ \E S \in {Preserved, Names} : log' = CopyVariables(log, info, S)
  BY DEF ClearDamagedStore, RecoveryFails, UpdateVarstore
<1> QED BY <1>3, <1>4, <1>5, <1>6

LEMMA PowerFailKeeps ==
  ASSUME StoreInv, store' = BootView(log'), PowerFail
  PROVE  RoomInv' /\ StoreStep
<1>1. pc' = "Off" /\ req' = NoRequest /\ log' = log
  BY DEF PowerFail
<1>2. store' = store /\ Pending' = NoRequest
  BY <1>1 DEF StoreInv, Pending
<1> QED BY <1>1, <1>2, NoRoom, AbortStep
------------------------------------------------------------------------------
(***************************************************************************)
(* The theorems                                                            *)
(***************************************************************************)
LEMMA StoreInitFacts == StoreInit => StoreInv /\ VS!Init
<1> SUFFICES ASSUME StoreInit PROVE StoreInv /\ VS!Init
  OBVIOUS
<1>1. LogInv /\ store = BootView(log) /\ pc = "Off" /\ req = NoRequest
  BY InitLog DEF StoreInit, Init
<1>2. RoomInv /\ Pending = NoRequest
  BY <1>1 DEF RoomInv, Pending
<1>3. store \in VS!Contents
  <2>1. LogOK(log)
    BY <1>1 DEF LogInv, DriverInv
  <2>2. ASSUME NEW n \in Names PROVE BootView(log)[n] \in Values \union {Absent}
    <3>1. CASE HeadsOf(log, n) = {}
      BY <2>1, <3>1, BootFacts
    <3>2. CASE HeadsOf(log, n) # {}
      <4>1. PICK i \in HeadsOf(log, n) : TRUE
        BY <3>2
      <4> DEFINE f == NvInitInfoBuffer(log)
                 j == NvGetDataNvar(log, i, f.end)
      <4>2. Covers(log, f)
        BY <2>1, InitCovers
      <4> HIDE DEF f
      <4>3. Data(log, i) = log[j].data /\ j \in 1 .. f.end
        BY <2>1, <4>1, <4>2, ViewFacts DEF Data
      <4>4. j \in 1 .. Len(log)
        <5>1. f.end \in 1 .. Len(log) /\ Len(log) \in Nat
          BY <2>1, <4>2, UsableFacts DEF Covers
        <5> HIDE DEF j
        <5> QED BY <5>1, <4>3
      <4>5. log[j].data \in Values
        BY <2>1, <4>4, LogFacts
      <4> QED BY <2>1, <4>1, <4>3, <4>5, BootFacts
    <3> QED BY <3>1, <3>2
  <2>3. BootView(log) = [n \in Names |-> BootView(log)[n]]
    BY DEF BootView, View
  <2> QED BY <2>2, <2>3, <1>1 DEF VS!Contents
<1> QED BY <1>1, <1>2, <1>3 DEF StoreInv, VS!Init

LEMMA StoreNextFacts ==
  ASSUME StoreInv, StoreNext, "SecondPass" \notin ShortOfMemory
  PROVE  StoreInv' /\ StoreStep
<1>1. Next /\ store' = BootView(log')
  BY DEF StoreNext
<1>2. LogInv'
  BY <1>1, LogStep, LastStep DEF StoreInv, LogInv
<1>3. RoomInv' /\ StoreStep
  BY <1>1, OutsideStep, CallStep, DeletionStep, SameDataKeeps, NoSpaceKeeps, HeaderKeeps,
     NewVarKeeps, NewDataKeeps, BodyFailsKeeps, LinkKeeps, LinkFailsKeeps, OutOfMemoryKeeps,
     RecoverKeeps, SecondPassKeeps, RecoveryFailsKeeps, PowerFailKeeps
     DEF Next
<1> QED BY <1>1, <1>2, <1>3 DEF StoreInv

LEMMA StoreStutter ==
  ASSUME StoreInv, UNCHANGED <<vars, store>>
  PROVE  StoreInv' /\ StoreStep
<1>1. /\ log' = log /\ info' = info /\ pc' = pc /\ req' = req /\ store' = store
      /\ UNCHANGED vars
  BY DEF vars
<1>2. LogInv'
  BY <1>1, StutterLog DEF StoreInv
<1>3. RoomInv' /\ store' = BootView(log')
  BY <1>1 DEF StoreInv, RoomInv, Written, Complete, BeforeEnd
<1>4. Pending' = Pending
  BY <1>1 DEF Pending
<1> QED BY <1>1, <1>2, <1>3, <1>4, KeepStep DEF StoreInv

\* What a record needs is reserved before it is written: a record that counts
\* but could not be linked, or was reported as failed, never makes the garbage
\* collection of DxeSetVariable give up other variables.
THEOREM RoomInvariant ==
  ASSUME "SecondPass" \notin ShortOfMemory
  PROVE  StoreSpec => []StoreInv
<1>1. StoreInit => StoreInv
  BY StoreInitFacts
<1>2. StoreInv /\ [StoreNext]_<<vars, store>> => StoreInv'
  BY StoreNextFacts, StoreStutter
<1> QED BY <1>1, <1>2, PTL DEF StoreSpec

\* To a boot, the record log is a variable store on which every SetVariable is
\* atomic, whatever writes fail and wherever the power is lost: the steps of
\* CreateVariable, UpdateVariable, DeleteVariable and of the error recovery either
\* carry the request out, or end it, or change nothing a boot would see.
THEOREM LogRefinement ==
  ASSUME "SecondPass" \notin ShortOfMemory
  PROVE  StoreSpec => RefinesVariableStore
<1>1. StoreInit => VS!Init
  BY StoreInitFacts
<1>2. StoreInv /\ [StoreNext]_<<vars, store>> => [VS!Next]_VS!vars
  BY StoreNextFacts, StoreStutter DEF StoreStep
<1> QED BY <1>1, <1>2, RoomInvariant, PTL DEF StoreSpec, RefinesVariableStore, VS!Spec
------------------------------------------------------------------------------
(***************************************************************************)
(* The records fit in the store                                            *)
(***************************************************************************)
\* A sum grows with the number of its terms.
LEMMA SumGrows ==
  ASSUME NEW N \in Nat, NEW g, NEW w, IsSum(g, w, N), \A m \in 1 .. N : w[m] \in Nat,
         NEW K \in 0 .. N
  PROVE  g[K] <= g[N]
<1> DEFINE G == {m \in 0 .. N : m >= K => g[K] <= g[m]}
<1>1. g \in [0 .. N -> Nat] /\ \A m \in 1 .. N : g[m] = g[m - 1] + w[m]
  BY DEF IsSum
<1>2. K \in Nat /\ g[K] \in Nat
  BY <1>1
<1>3. 0 \in G
  <2>1. 0 \in 0 .. N /\ (0 >= K => K = 0)
    BY <1>2
  <2> QED BY <2>1, <1>2
<1>4. ASSUME NEW m \in 0 .. N, m \in G, m < N PROVE m + 1 \in G
  <2>1. m + 1 \in 1 .. N /\ m + 1 \in 0 .. N /\ (m + 1) - 1 = m /\ m \in Nat
    BY <1>4
  <2>2. g[m + 1] = g[m] + w[m + 1] /\ w[m + 1] \in Nat /\ g[m] \in Nat /\ g[m + 1] \in Nat
    BY <2>1, <1>1
  <2>3. m >= K => g[K] <= g[m]
    BY <1>4
  <2>4. ASSUME m + 1 >= K PROVE g[K] <= g[m + 1]
    <3>1. CASE m >= K
      BY <3>1, <2>2, <2>3, <1>2
    <3>2. CASE ~(m >= K)
      <4>1. m + 1 = K
        BY <3>2, <2>1, <2>4, <1>2
      <4> QED BY <4>1, <1>2
    <3> QED BY <3>1, <3>2
  <2> QED BY <2>1, <2>4
<1>5. \A m \in 0 .. N : m \in G
  <2>1. \A m \in 0 .. N : m \in G /\ m < N => m + 1 \in G
    BY <1>4
  <2> HIDE DEF G
  <2> QED BY <1>3, <2>1, Upwards
<1>6. N \in 0 .. N /\ N >= K
  OBVIOUS
<1> QED BY <1>5, <1>6

\* A part of a log takes no more space than the log.
LEMMA SpaceUpTo ==
  ASSUME NEW l, LogOK(l), NEW e \in 0 .. Len(l)
  PROVE  Space(SubSeq(l, 1, e)) <= Space(l)
<1> DEFINE N == Len(l)
           a == SubSeq(l, 1, e)
           w == Sizes(l)
           x == Sizes(a)
<1>1. N \in Nat /\ e \in Nat /\ e <= N /\ Len(a) = e /\ \A i \in 1 .. e : a[i] = l[i]
  BY LogFacts, UpToFacts
<1> HIDE DEF a
<1>2. PICK g : IsSum(g, w, N) /\ Space(l) = g[N]
  BY <1>1, SpaceIsSum
<1>3. PICK h : IsSum(h, x, e) /\ Space(a) = h[e]
  BY <1>1, SpaceIsSum
<1>4. /\ \A m \in 1 .. N : w[m] \in Nat
      /\ \A m \in 1 .. e : w[m] \in Nat /\ w[m] = x[m]
  BY <1>1, SizeNat DEF Sizes
<1> HIDE DEF w, x, N
<1>5. g[e] = h[e]
  BY <1>1, <1>2, <1>3, <1>4, SumSame
<1>6. g[e] <= g[N]
  BY <1>1, <1>2, <1>4, SumGrows DEF N
<1> QED BY <1>2, <1>3, <1>5, <1>6 DEF a

\* SumLess at the end of two sums of the same length.
LEMMA SumLessAll ==
  ASSUME NEW N \in Nat, NEW g, NEW w, IsSum(g, w, N), NEW h, NEW x, IsSum(h, x, N),
         \A m \in 1 .. N : w[m] \in Nat /\ x[m] \in Nat /\ w[m] <= x[m]
  PROVE  g[N] <= h[N]
<1> DEFINE K == N
           M == N
<1>1. K \in Nat /\ M \in Nat /\ K <= N /\ K <= M /\ IsSum(h, x, M)
  OBVIOUS
<1>2. \A m \in 1 .. K : w[m] \in Nat /\ x[m] \in Nat /\ w[m] <= x[m]
  OBVIOUS
<1>3. N \in 0 .. K
  OBVIOUS
<1> HIDE DEF K, M
<1>4. \A m \in 0 .. K : g[m] <= h[m]
  BY <1>1, <1>2, SumLess
<1> QED BY <1>3, <1>4

\* Every record takes space.
LEMMA LenSpace ==
  ASSUME NEW l, Len(l) \in Nat
  PROVE  Len(l) <= Space(l)
<1> DEFINE N == Len(l)
           w == [m \in 1 .. N |-> 1]
           g == [m \in 0 .. N |-> m]
           x == Sizes(l)
<1>1. PICK h : IsSum(h, x, N) /\ Space(l) = h[N]
  BY SpaceIsSum
<1>2. \A m \in 1 .. N : w[m] \in Nat /\ x[m] \in Nat /\ w[m] <= x[m]
  BY DEF Sizes, Size
<1>3. IsSum(g, w, N)
  BY DEF IsSum
<1>4. N \in Nat /\ N \in 0 .. N /\ g[N] = N
  OBVIOUS
<1> HIDE DEF x, g, w, N
<1>5. g[N] <= h[N]
  BY <1>1, <1>2, <1>3, <1>4, SumLessAll
<1> QED BY <1>1, <1>4, <1>5 DEF N

\* A log of small records takes the space of their number.
LEMMA SpaceOfSmall ==
  ASSUME NEW l, Len(l) \in Nat, \A i \in 1 .. Len(l) : l[i].data \notin Large
  PROVE  Space(l) = Len(l)
<1> DEFINE N == Len(l)
           w == [m \in 1 .. N |-> 1]
           g == [m \in 0 .. N |-> m]
           x == Sizes(l)
<1>1. PICK h : IsSum(h, x, N) /\ Space(l) = h[N]
  BY SpaceIsSum
<1>2. \A m \in 1 .. N : w[m] \in Nat /\ w[m] = x[m]
  BY DEF Sizes, Size
<1>3. IsSum(g, w, N)
  BY DEF IsSum
<1>4. N \in Nat /\ g[N] = N
  OBVIOUS
<1> HIDE DEF x, g, w, N
<1>5. g[N] = h[N]
  BY <1>1, <1>2, <1>3, <1>4, SumSame
<1> QED BY <1>1, <1>4, <1>5 DEF N

FitInv ==
  /\ Space(log) <= Capacity
  /\ pc = "Off" => info = [first |-> 1, end |-> 0]

\* A compaction fits into the store again.
LEMMA CompactFits ==
  ASSUME NEW l, LogOK(l), Space(l) <= Capacity, NEW f, Usable(l, f), NEW S
  PROVE  Space(CopyVariables(l, f, S)) <= Capacity
<1> DEFINE c == CopyVariables(l, f, S)
           b == SubSeq(l, 1, f.end)
<1>1. f.end \in 0 .. Len(l) /\ f.end \in Nat /\ Len(l) \in Nat /\ Capacity \in Nat
  BY UsableFacts, LogAssumption
<1>2. Space(c) <= Space(b) /\ Space(b) <= Space(l)
  BY <1>1, CopySpace, SpaceUpTo
<1>3. Len(b) \in Nat
  BY <1>1, UpToFacts
<1>4. c \in Seq(RecordType)
  BY CopyFacts DEF CopiesOf, Fresh
<1>5. Len(c) \in Nat
  BY <1>4
<1>6. Space(c) \in Nat /\ Space(b) \in Nat /\ Space(l) \in Nat
  BY <1>1, <1>3, <1>5, SpaceNat
<1> HIDE DEF c, b
<1> QED BY <1>1, <1>2, <1>6 DEF c

LEMMA CheckFits ==
  ASSUME LogInv, FitInv, pc = "Idle", CheckStore
  PROVE  Space(log') <= Capacity
<1> DEFINE f == NvInitInfoBuffer(log)
<1>1. LogOK(log) /\ Space(log) <= Capacity
  BY DEF LogInv, DriverInv, FitInv
<1>2. Usable(log, f)
  BY <1>1, InitCovers DEF Covers
<1>3. log' = log \/ log' = CopyVariables(log, f, Kept)
  BY DEF CheckStore, CompactStore, UpdateVarstore
<1> HIDE DEF f
<1> QED BY <1>1, <1>2, <1>3, CompactFits

LEMMA DeleteFits ==
  ASSUME LogInv, FitInv, DeleteMissing \/ DeleteVariable
  PROVE  Space(log') <= Capacity
<1> DEFINE m == Min(Var)
           d == [log EXCEPT ![m].valid = FALSE]
<1>1. CASE log' = log
  BY <1>1 DEF FitInv
<1>2. CASE log' = d
  <2>1. log \in Seq(RecordType) /\ Len(log) \in Nat /\ \A i \in 1 .. Len(log) : log[i] \in RecordType
    BY LogFacts DEF LogInv, DriverInv, LogOK
  <2>2. Len(d) = Len(log)
    BY <2>1
  <2>3. \A i \in 1 .. Len(log) : d[i].data = log[i].data
    BY <2>1 DEF RecordType
  <2> HIDE DEF d
  <2>4. Space(d) = Space(log)
    BY <2>1, <2>2, <2>3, SpaceSame
  <2> QED BY <1>2, <2>4 DEF FitInv
<1> QED BY <1>1, <1>2 DEF DeleteMissing, DeleteVariable

\* The header of the new record is written over an erased end of the store, or
\* over a failed attempt at the same header.
LEMMA ProgramFits ==
  ASSUME LogInv, FitInv, Writing, IsEnoughSpace(BeforeEnd, req.value), Programmable,
         NEW st \in {"torn", "incomplete"}
  PROVE  Space(Programmed(NewVar(st))) <= Capacity
<1> DEFINE r == NewVar(st)
           d == Programmed(r)
           e == info.end
<1>1. LogOK(log) /\ Covers(log, info) /\ Usable(log, info) /\ req.value # Absent /\ pc = "Set"
  BY SetFacts DEF Writing
<1>2. r \in RecordType /\ r.state # "complete" /\ r.next = 0
  BY <1>1, NewVarFacts
<1>3. \A s : NewVar(s).data = req.value
  BY DEF NewVar, Record
<1> HIDE DEF r
<1>4. /\ e < Len(d) /\ d[e + 1] = r
      /\ Len(d) = IF e < Len(log) THEN Len(log) ELSE e + 1
      /\ \A i \in 1 .. Len(d) : i # e + 1 => d[i] = log[i]
  BY <1>1, <1>2, ProgramFacts
<1>5. e \in 1 .. Len(log) /\ e \in Nat /\ Len(log) \in Nat
  BY <1>1, UsableFacts
<1>6. r.data = req.value
  BY <1>3 DEF r
<1>7. CASE e = Len(log)
  <2>1. log \in Seq(RecordType)
    BY <1>1 DEF LogOK
  <2>2. BeforeEnd = log
    BY <1>7, <2>1 DEF BeforeEnd
  <2>3. SubSeq(log, e + 2, Len(log)) = <<>>
    BY <1>7, <2>1, <1>5
  <2>4. Append(log, r) \in Seq(RecordType)
    BY <2>1, <1>2
  <2>5. d = Append(log, r)
    <3>1. Append(log, r) \o <<>> = Append(log, r)
      BY <2>4, ConcatEmptySeq
    <3> QED BY <2>2, <2>3, <3>1 DEF Programmed
  <2>6. Space(d) = Space(log) + Size(r.data)
    BY <2>1, <2>5, <1>2, SpaceAppend
  <2> HIDE DEF d
  <2> QED BY <2>2, <2>6, <1>6 DEF IsEnoughSpace, d, r
<1>8. CASE e # Len(log)
  <2>1. log[e + 1].data = req.value
    BY <1>3, <1>8 DEF Programmable, IsStoreOk
  <2>2. Len(d) = Len(log)
    BY <1>4, <1>5, <1>8
  <2>3. \A i \in 1 .. Len(log) : d[i].data = log[i].data
    BY <1>4, <1>6, <2>1, <2>2
  <2> HIDE DEF d
  <2>4. Space(d) = Space(log)
    BY <1>5, <2>2, <2>3, SpaceSame
  <2> QED BY <2>4 DEF FitInv, d, r
<1> QED BY <1>7, <1>8

LEMMA HeaderFits ==
  ASSUME LogInv, FitInv, WriteHeader \/ HeaderFails \/ HeaderRefused
  PROVE  Space(log') <= Capacity
<1>1. CASE HeaderRefused
  BY <1>1 DEF HeaderRefused, RecoverFromFlashUpdateFailure, FitInv
<1>2. CASE WriteHeader
  <2>1. /\ Writing /\ IsEnoughSpace(BeforeEnd, req.value) /\ Programmable
        /\ log' = Programmed(NewVar("incomplete"))
    BY <1>2 DEF WriteHeader
  <2> QED BY <2>1, ProgramFits
<1>3. CASE HeaderFails
  <2>1. /\ Writing /\ IsEnoughSpace(BeforeEnd, req.value) /\ Programmable
        /\ log' \in {log, Programmed(NewVar("torn")), Programmed(NewVar("incomplete"))}
    BY <1>3 DEF HeaderFails, RecoverFromFlashUpdateFailure
  <2>2. /\ Space(Programmed(NewVar("torn"))) <= Capacity
        /\ Space(Programmed(NewVar("incomplete"))) <= Capacity
    BY <2>1, ProgramFits
  <2> QED BY <2>1, <2>2 DEF FitInv
<1> QED BY <1>1, <1>2, <1>3

LEMMA BodyFits ==
  ASSUME LogInv, FitInv, WriteNewVar \/ WriteNewData \/ BodyFails
  PROVE  Space(log') <= Capacity
<1>1. pc = "Body" /\ (log' = log \/ log' = Signed)
  BY DEF WriteNewVar, WriteNewData, BodyFails, RecoverFromFlashUpdateFailure
<1>2. /\ Len(log) \in Nat /\ Len(Signed) = Len(log)
      /\ \A i \in 1 .. Len(log) : Signed[i].data = log[i].data
  BY <1>1, BodyFacts, LogFacts
<1>3. Space(Signed) = Space(log)
  BY <1>2, SpaceSame
<1> QED BY <1>1, <1>3 DEF FitInv

LEMMA LinkFits ==
  ASSUME LogInv, FitInv, WriteNext \/ NextFails
  PROVE  Space(log') <= Capacity
<1>1. pc = "Link" /\ (log' = log \/ log' = Linked)
  BY DEF WriteNext, NextFails, RecoverFromFlashUpdateFailure
<1>2. /\ Len(log) \in Nat /\ Len(Linked) = Len(log)
      /\ \A i \in 1 .. Len(log) : Linked[i].data = log[i].data
  BY <1>1, LinkStateFacts, LogFacts
<1>3. Space(Linked) = Space(log)
  BY <1>2, SpaceSame
<1> QED BY <1>1, <1>3 DEF FitInv

LEMMA RecoveryFits ==
  ASSUME LogInv, FitInv, Recover \/ ClearDamagedStore \/ RecoveryFails
  PROVE  Space(log') <= Capacity
<1>1. /\ LogOK(log) /\ Usable(log, info) /\ req.name \in Names /\ req.value \in Values
      /\ Space(log) <= Capacity
  BY RecoverStateFacts DEF Recover, ClearDamagedStore, RecoveryFails, FitInv
<1>2. CASE log' = log
  BY <1>1, <1>2
<1>3. CASE \E S : log' = CopyVariables(log, info, S)
  BY <1>1, <1>3, CompactFits
<1>4. CASE Fits /\ log' = WithNewVar
  <2> DEFINE r == Record("complete", "head", req.name, req.value)
  <2>1. Others \in Seq(RecordType)
    BY <1>1, CopyFacts DEF CopiesOf, Fresh, Others
  <2>2. r \in RecordType /\ r.data = req.value
    BY <1>1 DEF Record, RecordType
  <2>3. log' = Append(Others, r)
    BY <1>4 DEF WithNewVar
  <2> HIDE DEF r
  <2>4. Space(Append(Others, r)) = Space(Others) + Size(r.data)
    BY <2>1, <2>2, SpaceAppend
  <2> QED BY <2>2, <2>3, <2>4, <1>4 DEF Fits, IsEnoughSpace
<1> QED BY <1>2, <1>3, <1>4 DEF Recover, ClearDamagedStore, RecoveryFails, UpdateVarstore

LEMMA InitFits == Init => FitInv
<1> SUFFICES ASSUME Init PROVE FitInv
  OBVIOUS
<1>1. /\ Len(Shipped) \in Nat /\ Len(Shipped) <= Capacity /\ ShippedData \notin Large
      /\ DOMAIN Shipped = 1 .. Len(Shipped)
  BY LogAssumption
<1> DEFINE R(i) == Record("complete", "head", Shipped[i], ShippedData)
<1>2. log = [i \in 1 .. Len(Shipped) |-> R(i)]
  BY <1>1 DEF Init
<1>3. Len(log) = Len(Shipped)
  <2> HIDE DEF R
  <2> QED BY <1>1, <1>2
<1>4. \A i \in 1 .. Len(log) : log[i].data = ShippedData
  BY <1>2, <1>3 DEF Record
<1>5. Space(log) = Len(log)
  BY <1>1, <1>3, <1>4, SpaceOfSmall
<1> QED BY <1>1, <1>3, <1>5 DEF FitInv, Init

LEMMA NextFits ==
  ASSUME LogInv, FitInv, Next
  PROVE  FitInv'
<1>1. Space(log') <= Capacity
  <2>1. CASE Boot \/ DeleteMissing \/ SameData \/ NoSpace \/ OutOfMemory \/ StartSecondPass \/ PowerFail
    <3>1. log' = log
      BY <2>1 DEF Boot, DeleteMissing, SameData, NoSpace, OutOfMemory, StartSecondPass, PowerFail
    <3> QED BY <3>1 DEF FitInv
  <2>2. CASE DxeGetVariable \/ \E r \in Calls : DxeSetVariable(r)
    <3>1. pc = "Idle" /\ CheckStore
      BY <2>2 DEF DxeGetVariable, DxeSetVariable
    <3> QED BY <3>1, CheckFits
  <2> QED BY <2>1, <2>2, DeleteFits, HeaderFits, BodyFits, LinkFits, RecoveryFits DEF Next
<1>2. pc' = "Off" => info' = [first |-> 1, end |-> 0]
  BY DEF Next, Boot, DxeGetVariable, DxeSetVariable, DeleteMissing, DeleteVariable, SameData,
         NoSpace, WriteHeader, HeaderFails, HeaderRefused, WriteNewVar, WriteNewData, BodyFails,
         WriteNext, NextFails, OutOfMemory, Recover, StartSecondPass, ClearDamagedStore,
         RecoveryFails, PowerFail, Return, Continue, RecoverFromFlashUpdateFailure
<1> QED BY <1>1, <1>2 DEF FitInv

LEMMA TypesFromInv ==
  ASSUME LogInv, FitInv
  PROVE  TypeOK
<1>1. LogOK(log) /\ RequestInv /\ InfoInv
  BY DEF LogInv, DriverInv
<1>2. /\ Len(log) \in Nat /\ Len(log) >= 1 /\ Capacity \in Nat /\ DOMAIN log = 1 .. Len(log)
      /\ \A i \in 1 .. Len(log) : log[i] \in RecordType /\ LinkOK(log, i)
  BY <1>1, LogFacts, LogAssumption DEF LogOK
<1>3. Len(log) <= Capacity
  <2>1. Len(log) <= Space(log) /\ Space(log) \in Nat /\ Space(log) <= Capacity
    BY <1>2, LenSpace, SpaceNat DEF FitInv
  <2> QED BY <1>2, <2>1
<1>4. ASSUME NEW i \in DOMAIN log
      PROVE  /\ log[i] \in [state : {"torn", "incomplete", "complete"}, kind : {"head", "data"},
                            valid : BOOLEAN, name : Names, data : Values, next : 0..Capacity]
             /\ log[i].next # 0 => log[i].next > i
  <2> DEFINE r == log[i]
  <2>1. r \in RecordType /\ LinkOK(log, i) /\ i \in Nat
    BY <1>2
  <2>2. /\ r.next # 0 => r.next \in (i + 1) .. Len(log)
        /\ r.next \in Nat
    BY <2>1 DEF LinkOK, RecordType
  <2>3. r.next \in 0 .. Capacity /\ (r.next # 0 => r.next > i)
    BY <2>1, <2>2, <1>2, <1>3
  <2> HIDE DEF r
  <2>4. r \in [state : {"torn", "incomplete", "complete"}, kind : {"head", "data"},
               valid : BOOLEAN, name : Names, data : Values, next : 0..Capacity]
    BY <2>1, <2>3 DEF RecordType
  <2> QED BY <2>3, <2>4 DEF r
<1>5. info \in [first : 1..Capacity, end : 0..Capacity] /\ info.end <= Len(log)
  <2>1. CASE pc = "Off"
    BY <2>1, <1>2, <1>3 DEF FitInv
  <2>2. CASE pc # "Off"
    <3>1. Usable(log, info)
      BY <2>2, <1>1 DEF InfoInv
    <3>2. info \in InfoType /\ info.first \in 1 .. Len(log) /\ info.end \in 1 .. Len(log)
      BY <3>1, <1>1, UsableFacts DEF Usable
    <3>3. info.first \in 1 .. Capacity /\ info.end \in 0 .. Capacity /\ info.end <= Len(log)
      BY <3>2, <1>2, <1>3
    <3> QED BY <3>2, <3>3 DEF InfoType
  <2> QED BY <2>1, <2>2
<1>6. /\ pc \in {"Off", "Idle", "Set", "Body", "Link", "Recover", "SecondPass"}
      /\ SaveOnlyPreservedVars \in BOOLEAN
      /\ req \in Calls \union {NoRequest} /\ last \in Calls \union {NoRequest}
  BY <1>1 DEF RequestInv, Busy
<1> QED BY <1>4, <1>5, <1>6 DEF TypeOK, FitInv

\* The records never take more than the store has, whatever is appended after
\* failed writes and whatever a compaction copies, and every next field leads
\* to a later record of it.
THEOREM LogTypeCorrect == Spec => []TypeOK
<1>1. Init => FitInv
  BY InitFits
<1>2. LogInv /\ FitInv /\ [Next]_vars => FitInv'
  <2>1. ASSUME FitInv, UNCHANGED vars PROVE FitInv'
    BY <2>1 DEF FitInv, vars
  <2> QED BY <2>1, NextFits
<1>3. LogInv /\ FitInv => TypeOK
  BY TypesFromInv
<1> QED BY <1>1, <1>2, <1>3, LogInvariant, PTL DEF Spec

\* The walk of NvGetFirstValid and EnumerateStore starts at a variable: with a
\* variable in the image that nobody deletes, no series of deletions, failures and
\* compactions empties the store.
THEOREM StoreNeverEmpty == Spec => []FirstVarValid
<1>1. LogInv => FirstVarValid
  <2> SUFFICES ASSUME LogInv, pc = "Idle" PROVE NvIsVariable(log, info.first, info.end)
    BY DEF FirstVarValid
  <2>1. LogOK(log) /\ Usable(log, info)
    BY DEF LogInv, DriverInv, InfoInv
  <2>2. info.first \in 1 .. info.end /\ Complete(log, info.first)
    BY <2>1, UsableFacts DEF Usable
  <2> QED BY <2>1, <2>2, UsableFacts
<1> QED BY <1>1, LogInvariant, PTL
=============================================================================
