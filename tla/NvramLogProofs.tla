--------------------------- MODULE NvramLogProofs ---------------------------
(***************************************************************************)
(* Proofs about NvramLog, for a store of any size, any variables, any data *)
(* and any calls that do not delete setup: whatever writes fail and        *)
(* wherever the power is lost, the log stays one that a boot reads         *)
(* completely, and the variables it finds change only as requested.        *)
(***************************************************************************)
EXTENDS NvramLogStore, SequenceTheorems, WellFoundedInduction, TLAPS

------------------------------------------------------------------------------
(***************************************************************************)
(* What the driver keeps true of the flash, and of pFirstVar and           *)
(* pEndOfVars                                                              *)
(***************************************************************************)
RecordType ==
  [state : {"torn", "incomplete", "complete"}, kind : {"head", "data"},
   valid : BOOLEAN, name : Names, data : Values, next : Nat]

InfoType == [first : Nat, end : Nat]

Complete(l, i) == l[i].state = "complete"

\* The variables of a log: the first records that are not deleted.
Heads(l)      == {i \in 1 .. Len(l) : Complete(l, i) /\ NvIsValid(l, i)}
HeadsOf(l, n) == {i \in Heads(l) : l[i].name = n}

\* A link leads to a later record of the same variable that counts.
LinkOK(l, i) ==
  l[i].next # 0 =>
    /\ l[i].next \in (i + 1) .. Len(l)
    /\ Complete(l, l[i].next)
    /\ l[l[i].next].name = l[i].name

LogOK(l) ==
  /\ l \in Seq(RecordType)
  /\ Len(l) >= 1 /\ Complete(l, 1)
  /\ \A i, j \in 1 .. Len(l) : Complete(l, i) /\ l[j].state = "torn" => i < j
  /\ \A i \in 1 .. Len(l) : LinkOK(l, i)
  /\ \A i, j \in Heads(l) : l[i].name = l[j].name => i = j
  /\ HeadsOf(l, setup) # {}

\* pFirstVar and pEndOfVars are good for reading all but the last record.
Usable(l, f) ==
  /\ f \in InfoType
  /\ 1 <= f.first /\ f.first <= f.end /\ f.end <= Len(l)
  /\ Complete(l, f.first)
  /\ \A i \in 1 .. f.end : l[i].state # "torn"
  /\ \A i \in Heads(l) : i <= f.end => f.first <= i
  /\ \A i \in 1 .. Len(l) : Complete(l, i) => i <= f.end + 1
  /\ \E i \in HeadsOf(l, setup) : i <= f.end

\* They are good for reading every record.
Covers(l, f) ==
  /\ Usable(l, f)
  /\ \A i \in 1 .. Len(l) : Complete(l, i) => i <= f.end

\* The record at pEndOfVars counts already.
Written(l, f) == f.end < Len(l) /\ Complete(l, f.end + 1)

Busy == {"Set", "Body", "Link", "Recover", "SecondPass"}

RequestInv ==
  /\ pc \in {"Off", "Idle"} \union Busy
  /\ IF pc \in Busy THEN req \in Calls ELSE req = NoRequest
  /\ pc \in Busy \ {"Set"} => req.value # Absent
  /\ last \in Calls \union {NoRequest}
  /\ last # NoRequest => pc \in {"Off", "Idle"}
  /\ SaveOnlyPreservedVars \in BOOLEAN

InfoInv ==
  /\ pc # "Off" => Usable(log, info)
  /\ pc \in {"Set", "Body"} => Covers(log, info)

WriteInv ==
  /\ pc = "Body" =>
       /\ info.end < Len(log)
       /\ log[info.end + 1] =
            Record("incomplete", IF HeadsOf(log, req.name) = {} THEN "head" ELSE "data",
                   req.name, req.value)
  /\ pc = "Link" =>
       /\ info.end < Len(log)
       /\ log[info.end + 1] = Record("complete", "data", req.name, req.value)
       /\ HeadsOf(log, req.name) # {}
  /\ pc \in {"Recover", "SecondPass"} /\ Written(log, info) =>
       log[info.end + 1].name = req.name

\* If memory never runs out in the second pass, the flag ends with the call.
FlagInv ==
  "SecondPass" \notin ShortOfMemory =>
    /\ SaveOnlyPreservedVars => pc = "SecondPass"
    /\ pc = "SecondPass" =>
         ~IsEnoughSpace(CopyVariables(log, info, Names \ {req.name}), req.value)

LastInv == "SecondPass" \notin ShortOfMemory => SuccessDurable

DriverInv ==
  /\ LogOK(log)
  /\ RequestInv
  /\ InfoInv
  /\ WriteInv
  /\ FlagInv

LogInv == DriverInv /\ LastInv

\* A compacted store has no room for the request.
Dropping ==
  /\ pc \in {"Recover", "SecondPass"}
  /\ ~IsEnoughSpace(CopyVariables(log, info, Names \ {req.name}), req.value)

\* What a step may do to the variables a boot would find, and to the promise
\* of the last request.
Effect ==
  /\ \A n \in Names :
       \/ BootView(log')[n] = BootView(log)[n]
       \/ req # NoRequest /\ req.name = n
       \/ /\ n \notin Preserved /\ BootView(log')[n] = Absent
          /\ "SecondPass" \notin ShortOfMemory => Dropping
  /\ \/ last' = NoRequest
     \/ last' = last /\ req = NoRequest
     \/ last' = req /\ BootView(log')[req.name] = req.value
------------------------------------------------------------------------------
(***************************************************************************)
(* Numbers                                                                 *)
(***************************************************************************)
\* A set of natural numbers has a least element.
LEMMA LeastElement ==
  ASSUME NEW T \in SUBSET Nat, T # {}
  PROVE  \E x \in T : \A y \in T : x <= y
<1> DEFINE R == {ss \in Nat \X Nat : ss[1] < ss[2]}
<1>1. IsWellFoundedOn(R, Nat)
  BY NatLessThanWellFounded DEF OpToRel
<1>2. PICK x \in T : \A y \in T : <<y, x>> \notin R
  <2> HIDE DEF R
  <2> QED BY <1>1, WFMin
<1>3. ASSUME NEW y \in T PROVE x <= y
  <2>1. <<y, x>> \in Nat \X Nat /\ <<y, x>>[1] = y /\ <<y, x>>[2] = x
    OBVIOUS
  <2>2. ~(y < x)
    BY <1>2, <2>1
  <2> QED BY <2>2
<1> QED BY <1>3

\* Induction up to N, for a set of numbers.
LEMMA Upwards ==
  ASSUME NEW N \in Nat, NEW G, 0 \in G,
         \A n \in 0 .. N : n \in G /\ n < N => n + 1 \in G
  PROVE  \A n \in 0 .. N : n \in G
<1>1. SUFFICES ASSUME NEW k \in 0 .. N, k \notin G PROVE FALSE
  OBVIOUS
<1> DEFINE T == {n \in 0 .. N : n \notin G}
<1>2. PICK m \in T : \A y \in T : m <= y
  <2>1. T \in SUBSET Nat /\ T # {}
    BY <1>1
  <2> QED BY <2>1, LeastElement
<1>3. m - 1 \in 0 .. N /\ m - 1 \notin T
  BY <1>2
<1> QED BY <1>2, <1>3

\* Induction from N down: a record after all the later ones.
LEMMA Downwards ==
  ASSUME NEW N \in Nat, NEW G,
         \A j \in 1 .. N : (\A k \in 1 .. N : j < k => k \in G) => j \in G
  PROVE  \A j \in 1 .. N : j \in G
<1>1. SUFFICES ASSUME NEW j \in 1 .. N, j \notin G PROVE FALSE
  OBVIOUS
<1> DEFINE T == {n \in 0 .. N : N - n \in 1 .. N /\ N - n \notin G}
<1>2. PICK m \in T : \A y \in T : m <= y
  <2>1. N - j \in 0 .. N /\ N - (N - j) = j
    OBVIOUS
  <2>2. N - j \in T
    BY <1>1, <2>1
  <2>3. T \in SUBSET Nat
    OBVIOUS
  <2> HIDE DEF T
  <2> QED BY <2>2, <2>3, LeastElement
<1> DEFINE i == N - m
<1>3. i \in 1 .. N /\ i \notin G
  BY <1>2
<1>4. ASSUME NEW k \in 1 .. N, i < k PROVE k \in G
  <2>1. N - k \in 0 .. N /\ N - (N - k) = k /\ ~(m <= N - k)
    BY <1>4, <1>2
  <2> QED BY <2>1, <1>2
<1> QED BY <1>3, <1>4

LEMMA MinFacts ==
  ASSUME NEW T \in SUBSET Nat, T # {}
  PROVE  Min(T) \in T /\ \A y \in T : Min(T) <= y
BY LeastElement DEF Min

LEMMA MinOfOne ==
  ASSUME NEW T \in SUBSET Nat, NEW i \in T, \A j \in T : j = i
  PROVE  Min(T) = i
BY MinFacts

LEMMA MaxFacts ==
  ASSUME NEW N \in Nat, NEW T \in SUBSET (1 .. N), T # {}
  PROVE  Max(T) \in T /\ \A y \in T : y <= Max(T)
<1> DEFINE R == {n \in 0 .. N : N - n \in T}
<1>1. PICK m \in R : \A y \in R : m <= y
  <2>1. PICK t \in T : TRUE
    OBVIOUS
  <2>2. N - t \in 0 .. N /\ N - (N - t) = t
    OBVIOUS
  <2>3. N - t \in R
    BY <2>2
  <2>4. R \in SUBSET Nat
    OBVIOUS
  <2> HIDE DEF R
  <2> QED BY <2>3, <2>4, LeastElement
<1>2. N - m \in T
  BY <1>1
<1>3. ASSUME NEW y \in T PROVE y <= N - m
  <2>1. N - y \in 0 .. N /\ N - (N - y) = y
    OBVIOUS
  <2>2. m <= N - y
    BY <1>1, <2>1
  <2> QED BY <2>2, <1>1
<1>4. \E x \in T : \A y \in T : x >= y
  BY <1>2, <1>3
<1>5. Max(T) \in T /\ \A y \in T : Max(T) >= y
  BY <1>4 DEF Max
<1> QED BY <1>5
------------------------------------------------------------------------------
(***************************************************************************)
(* Following the links of a variable                                       *)
(***************************************************************************)
LEMMA LogFacts ==
  ASSUME NEW l, LogOK(l)
  PROVE  /\ Len(l) \in Nat
         /\ \A i \in 1 .. Len(l) : l[i] \in RecordType
         /\ \A i \in 1 .. Len(l) : /\ l[i].next \in Nat /\ l[i].name \in Names
                                   /\ l[i].data \in Values /\ LinkOK(l, i)
<1>1. l \in Seq(RecordType) /\ \A i \in 1 .. Len(l) : LinkOK(l, i)
  BY DEF LogOK
<1>2. Len(l) \in Nat /\ \A i \in 1 .. Len(l) : l[i] \in RecordType
  BY <1>1
<1>3. \A r \in RecordType : r.next \in Nat /\ r.name \in Names /\ r.data \in Values
  BY DEF RecordType
<1> QED BY <1>1, <1>2, <1>3

FollowStep(l, e, g, j) == IF NvIsVariable(l, l[j].next, e) THEN g[l[j].next] ELSE j

\* The function that NvGetDataNvar defines exists: links lead forward.
LEMMA FollowExists ==
  ASSUME NEW l, LogOK(l), NEW e \in Nat
  PROVE  \E g : g = [j \in 1 .. Len(l) |-> FollowStep(l, e, g, j)]
<1> DEFINE N == Len(l)
           G == {n \in 0 .. N : \E g : g = [j \in (N - n + 1) .. N |-> FollowStep(l, e, g, j)]}
<1>0. /\ N \in Nat
      /\ \A j \in 1 .. N : NvIsVariable(l, l[j].next, e) => l[j].next \in (j + 1) .. N
  BY LogFacts DEF LinkOK, NvIsVariable
<1> HIDE DEF N
<1>1. 0 \in G
  <2>1. (N - 0 + 1) .. N = {}
    BY <1>0
  <2> DEFINE g == [j \in {} |-> 0]
  <2>2. g = [j \in (N - 0 + 1) .. N |-> FollowStep(l, e, g, j)]
    BY <2>1
  <2>3. 0 \in 0 .. N
    BY <1>0
  <2> HIDE DEF g
  <2> QED BY <2>2, <2>3
<1>2. ASSUME NEW n \in 0 .. N, n \in G, n < N PROVE n + 1 \in G
  <2>1. PICK g : g = [j \in (N - n + 1) .. N |-> FollowStep(l, e, g, j)]
    BY <1>2
  <2> DEFINE b == N - (n + 1) + 1
             h == [j \in b .. N |-> IF j = b THEN FollowStep(l, e, g, j) ELSE g[j]]
  <2>2. b \in 1 .. N /\ b + 1 = N - n + 1
    BY <1>0, <1>2
  <2> HIDE DEF b
  <2>3. \A j \in b .. N : h[j] = FollowStep(l, e, h, j)
    <3> TAKE j \in b .. N
    <3>1. j \in 1 .. N
      BY <2>2, <1>0
    <3>2. NvIsVariable(l, l[j].next, e) => h[l[j].next] = g[l[j].next]
      <4>1. SUFFICES ASSUME NvIsVariable(l, l[j].next, e) PROVE h[l[j].next] = g[l[j].next]
        OBVIOUS
      <4>2. l[j].next \in (j + 1) .. N
        BY <4>1, <1>0, <3>1
      <4>3. l[j].next \in b .. N /\ l[j].next # b
        BY <4>2, <2>2, <1>0
      <4> QED BY <4>3
    <3>3. FollowStep(l, e, h, j) = FollowStep(l, e, g, j)
      <4> HIDE DEF h
      <4> QED BY <3>2 DEF FollowStep
    <3>4. j # b => g[j] = FollowStep(l, e, g, j)
      <4>1. j # b => j \in (N - n + 1) .. N
        BY <2>2, <1>0
      <4> QED BY <4>1, <2>1
    <3> QED BY <3>3, <3>4
  <2>4. h = [j \in b .. N |-> FollowStep(l, e, h, j)]
    <3>1. h = [j \in b .. N |-> h[j]]
      OBVIOUS
    <3> HIDE DEF h
    <3> QED BY <2>3, <3>1
  <2>5. n + 1 \in 0 .. N
    BY <1>2, <1>0
  <2> HIDE DEF h
  <2> QED BY <2>4, <2>5 DEF b
<1> HIDE DEF G
<1>3. \A n \in 0 .. N : n \in G
  <2>1. \A n \in 0 .. N : n \in G /\ n < N => n + 1 \in G
    BY <1>2
  <2> QED BY <1>0, <1>1, <2>1, Upwards
<1>4. N \in G /\ N - N + 1 = 1
  BY <1>0, <1>3
<1> QED BY <1>4 DEF G, N

LEMMA FollowUnfold ==
  ASSUME NEW l, LogOK(l), NEW e \in Nat
  PROVE  \A i \in 1 .. Len(l) :
           NvGetDataNvar(l, i, e) =
             IF NvIsVariable(l, l[i].next, e) THEN NvGetDataNvar(l, l[i].next, e) ELSE i
<1> DEFINE F == CHOOSE g : g = [j \in 1 .. Len(l) |-> FollowStep(l, e, g, j)]
<1>1. \A i : NvGetDataNvar(l, i, e) = F[i]
  BY DEF NvGetDataNvar, FollowStep
<1>2. F = [j \in 1 .. Len(l) |-> FollowStep(l, e, F, j)]
  BY FollowExists
<1> HIDE DEF F
<1>3. \A i \in 1 .. Len(l) : F[i] = FollowStep(l, e, F, i)
  BY <1>2
<1> QED BY <1>1, <1>3 DEF FollowStep

\* Up to e in l and up to d in m, the records in D have the same links, and
\* these lead to records in D.
SameLinks(l, e, m, d, D) ==
  /\ D \subseteq 1 .. Len(l) /\ D \subseteq 1 .. Len(m)
  /\ \A j \in D :
       /\ m[j].next = l[j].next
       /\ NvIsVariable(m, m[j].next, d) <=> NvIsVariable(l, l[j].next, e)
       /\ NvIsVariable(l, l[j].next, e) => l[j].next \in D

\* Then the data of these records is in the same place.
LEMMA FollowSame ==
  ASSUME NEW l, NEW m, LogOK(l), LogOK(m), NEW e \in Nat, NEW d \in Nat, NEW D,
         SameLinks(l, e, m, d, D)
  PROVE  \A j \in D : /\ NvGetDataNvar(m, j, d) = NvGetDataNvar(l, j, e)
                      /\ NvGetDataNvar(l, j, e) \in D
<1>0. /\ D \subseteq 1 .. Len(l) /\ D \subseteq 1 .. Len(m)
      /\ \A j \in D :
           /\ m[j].next = l[j].next
           /\ NvIsVariable(m, m[j].next, d) <=> NvIsVariable(l, l[j].next, e)
           /\ NvIsVariable(l, l[j].next, e) => l[j].next \in D
  BY DEF SameLinks
<1> DEFINE Good(j) == j \in D => /\ NvGetDataNvar(m, j, d) = NvGetDataNvar(l, j, e)
                                 /\ NvGetDataNvar(l, j, e) \in D
           G == {j \in 1 .. Len(l) : Good(j)}
<1>1. Len(l) \in Nat
  BY LogFacts
<1>2. ASSUME NEW j \in 1 .. Len(l), \A k \in 1 .. Len(l) : j < k => k \in G PROVE j \in G
  <2>1. SUFFICES ASSUME j \in D
                 PROVE  /\ NvGetDataNvar(m, j, d) = NvGetDataNvar(l, j, e)
                        /\ NvGetDataNvar(l, j, e) \in D
    BY <1>2
  <2>2. /\ NvGetDataNvar(l, j, e) =
             IF NvIsVariable(l, l[j].next, e) THEN NvGetDataNvar(l, l[j].next, e) ELSE j
        /\ NvGetDataNvar(m, j, d) =
             IF NvIsVariable(m, m[j].next, d) THEN NvGetDataNvar(m, m[j].next, d) ELSE j
    BY <2>1, <1>0, FollowUnfold
  <2>3. CASE NvIsVariable(l, l[j].next, e)
    <3>1. l[j].next \in D /\ j < l[j].next
      <4>1. l[j].next \in 1 .. e
        BY <2>3 DEF NvIsVariable
      <4>2. l[j].next # 0
        BY <4>1
      <4>3. LinkOK(l, j)
        BY LogFacts
      <4>4. l[j].next \in (j + 1) .. Len(l)
        BY <4>2, <4>3 DEF LinkOK
      <4> QED BY <2>1, <2>3, <4>4, <1>0, <1>1
    <3>2. l[j].next \in 1 .. Len(l)
      BY <3>1, <1>0
    <3>3. l[j].next \in G
      <4> HIDE DEF G
      <4> QED BY <3>1, <3>2, <1>2
    <3> QED BY <1>0, <2>1, <2>2, <2>3, <3>1, <3>3
  <2>4. CASE ~NvIsVariable(l, l[j].next, e)
    BY <1>0, <2>1, <2>2, <2>4
  <2> QED BY <2>3, <2>4
<1>3. \A j \in 1 .. Len(l) : j \in G
  <2> HIDE DEF G
  <2>1. \A j \in 1 .. Len(l) : (\A k \in 1 .. Len(l) : j < k => k \in G) => j \in G
    BY <1>2
  <2> QED BY <1>1, <2>1, Downwards
<1> QED BY <1>0, <1>3
------------------------------------------------------------------------------
(***************************************************************************)
(* Reading a log                                                           *)
(***************************************************************************)
\* Nobody asks whether a link is within the variables in vain.
LEMMA VariableIff ==
  ASSUME NEW l, LogOK(l), NEW e \in 0 .. Len(l),
         \A i \in 1 .. Len(l) : Complete(l, i) => i <= e + 1
  PROVE  \A i : NvIsVariable(l, i, e) <=> i \in 1 .. e /\ Complete(l, i)
<1>0. Len(l) \in Nat
  BY LogFacts
<1> TAKE i
<1>1. ASSUME i \in 1 .. e, Complete(l, i) PROVE NvIsVariable(l, i, e)
  <2>1. i \in 1 .. Len(l)
    BY <1>0, <1>1
  <2>2. LinkOK(l, i)
    BY <2>1, LogFacts
  <2>3. l[i].next # 0 => l[i].next \in 1 .. Len(l) /\ Complete(l, l[i].next)
    BY <2>1, <2>2, <1>0 DEF LinkOK
  <2>4. l[i].next # 0 => l[i].next <= e + 1
    BY <2>3
  <2> QED BY <1>1, <2>4 DEF NvIsVariable, Complete
<1> QED BY <1>1 DEF NvIsVariable, Complete

LEMMA UsableFacts ==
  ASSUME NEW l, LogOK(l), NEW f, Usable(l, f)
  PROVE  /\ f.first \in 1 .. f.end /\ f.end \in 1 .. Len(l) /\ f.first \in 1 .. Len(l)
         /\ f.end \in Nat /\ f.first \in Nat /\ Len(l) \in Nat
         /\ \A i : NvIsVariable(l, i, f.end) <=> i \in 1 .. f.end /\ Complete(l, i)
         /\ NvGetValid(l, f.first, f.end) = {i \in Heads(l) : i <= f.end}
         /\ \A n : NvFindVariable(l, f, n) = {i \in HeadsOf(l, n) : i <= f.end}
<1>1. f.end \in Nat /\ f.first \in Nat /\ Len(l) \in Nat
  BY LogFacts DEF Usable, InfoType
<1>2. f.first \in 1 .. f.end /\ f.end \in 1 .. Len(l) /\ f.first \in 1 .. Len(l)
  BY <1>1 DEF Usable
<1>3. \A i : NvIsVariable(l, i, f.end) <=> i \in 1 .. f.end /\ Complete(l, i)
  <2>1. f.end \in 0 .. Len(l) /\ \A i \in 1 .. Len(l) : Complete(l, i) => i <= f.end + 1
    BY <1>2 DEF Usable
  <2> QED BY <2>1, VariableIff
<1>4. NvGetValid(l, f.first, f.end) = {i \in Heads(l) : i <= f.end}
  <2>1. NvIsVariable(l, f.first, f.end)
    BY <1>2, <1>3 DEF Usable
  <2>2. NvGetNextNvar(l, f.first, f.end) = {j \in f.first .. f.end : Complete(l, j)}
    <3>1. \A j \in f.first .. f.end : j \in 1 .. f.end /\ \A k \in f.first .. j : k \in 1 .. f.end
      BY <1>1, <1>2
    <3>2. \A k \in 1 .. f.end : l[k].state # "torn"
      BY DEF Usable
    <3> QED BY <3>1, <3>2, <1>3 DEF NvGetNextNvar
  <2>3. NvGetValid(l, f.first, f.end) =
          {j \in f.first .. f.end : Complete(l, j) /\ NvIsValid(l, j)}
    BY <2>1, <2>2 DEF NvGetValid
  <2>4. \A j : j \in f.first .. f.end => j \in 1 .. Len(l) /\ j <= f.end
    BY <1>1, <1>2
  <2>5. \A j \in Heads(l) : j <= f.end => j \in f.first .. f.end
    <3>1. \A j \in Heads(l) : j \in 1 .. Len(l) /\ (j <= f.end => f.first <= j)
      BY DEF Usable, Heads
    <3> QED BY <3>1, <1>1
  <2> QED BY <2>3, <2>4, <2>5 DEF Heads
<1>5. \A n : NvFindVariable(l, f, n) = {i \in HeadsOf(l, n) : i <= f.end}
  BY <1>4 DEF NvFindVariable, HeadsOf
<1> QED BY <1>1, <1>2, <1>3, <1>4, <1>5

LEMMA CoversFacts ==
  ASSUME NEW l, LogOK(l), NEW f, Covers(l, f)
  PROVE  /\ NvGetValid(l, f.first, f.end) = Heads(l)
         /\ \A n : NvFindVariable(l, f, n) = HeadsOf(l, n)
<1>1. Usable(l, f) /\ \A i \in Heads(l) : i <= f.end
  BY DEF Covers, Heads
<1>2. \A n : {i \in HeadsOf(l, n) : i <= f.end} = HeadsOf(l, n)
  BY <1>1 DEF HeadsOf
<1>3. {i \in Heads(l) : i <= f.end} = Heads(l)
  BY <1>1
<1>4. /\ NvGetValid(l, f.first, f.end) = {i \in Heads(l) : i <= f.end}
      /\ \A n : NvFindVariable(l, f, n) = {i \in HeadsOf(l, n) : i <= f.end}
  BY <1>1, UsableFacts
<1> QED BY <1>2, <1>3, <1>4

\* NvInitInfoBuffer finds every record of a log in order.
LEMMA InitCovers ==
  ASSUME NEW l, LogOK(l)
  PROVE  Covers(l, NvInitInfoBuffer(l))
<1> DEFINE N == Len(l)
           f == NvInitInfoBuffer(l)
<1>1. /\ N \in Nat /\ 1 <= N /\ Complete(l, 1)
      /\ \A i, j \in 1 .. N : Complete(l, i) /\ l[j].state = "torn" => i < j
      /\ HeadsOf(l, setup) # {}
  BY LogFacts DEF LogOK
<1>2. \A i : NvIsVariable(l, i, N) <=> i \in 1 .. N /\ Complete(l, i)
  <2>1. N \in 0 .. N /\ \A i \in 1 .. N : Complete(l, i) => i <= N + 1
    BY <1>1
  <2> QED BY <2>1, VariableIff
<1>3. ASSUME NEW i \in 1 .. N
      PROVE  NvGetNextNvar(l, i, N) = {j \in i .. N : Complete(l, j)}
  <2>1. ASSUME NEW j \in i .. N, Complete(l, j), NEW k \in i .. j PROVE l[k].state # "torn"
    <3>1. j \in 1 .. N /\ k \in 1 .. N /\ ~(j < k)
      BY <1>1
    <3> QED BY <3>1, <2>1, <1>1
  <2>2. \A j \in i .. N : j \in 1 .. N
    BY <1>1
  <2> QED BY <2>1, <2>2, <1>2 DEF NvGetNextNvar
<1>4. NvGetValid(l, 1, N) = Heads(l)
  <2>1. 1 \in 1 .. N
    BY <1>1
  <2> QED BY <2>1, <1>1, <1>2, <1>3 DEF NvGetValid, Heads
<1>5. Heads(l) \in SUBSET Nat /\ Heads(l) # {} /\ Heads(l) \subseteq 1 .. N
  BY <1>1 DEF HeadsOf, Heads
<1> DEFINE a == Min(Heads(l))
           T == NvGetNextNvar(l, a, N)
           z == Max(T)
           e == IF z < N /\ l[z + 1].state # "torn" THEN z + 1 ELSE z
<1>6. f = [first |-> a, end |-> e]
  BY <1>4, <1>5 DEF NvInitInfoBuffer, EnumerateStore
<1>7. a \in Heads(l) /\ a \in 1 .. N /\ Complete(l, a) /\ \A y \in Heads(l) : a <= y
  BY <1>5, MinFacts DEF Heads
<1> HIDE DEF a
<1>8. T = {j \in a .. N : Complete(l, j)}
  BY <1>3, <1>7
<1>9. T \in SUBSET (1 .. N) /\ a \in T
  BY <1>7, <1>8, <1>1
<1>10. z \in T /\ \A y \in T : y <= z
  <2> HIDE DEF T
  <2> QED BY <1>1, <1>9, MaxFacts
<1>11. z \in a .. N /\ Complete(l, z) /\ \A i \in a .. N : Complete(l, i) => i <= z
  BY <1>8, <1>10
<1> HIDE DEF T, z
<1>12. e \in Nat /\ a \in Nat /\ z <= e /\ 1 <= a /\ a <= e /\ e <= N
  BY <1>1, <1>7, <1>11
<1>13. \A i \in 1 .. N : Complete(l, i) => i <= e
  <2> TAKE i \in 1 .. N
  <2>1. i \in a .. N \/ i < a
    BY <1>1, <1>7
  <2> HIDE DEF e
  <2> QED BY <2>1, <1>11, <1>12
<1>14. ASSUME NEW i \in 1 .. e PROVE l[i].state # "torn"
  <2>1. i \in 1 .. N /\ z \in 1 .. N
    BY <1>1, <1>7, <1>11, <1>12
  <2>2. CASE i <= z
    <3>1. ~(z < i)
      BY <2>1, <2>2
    <3> QED BY <2>1, <3>1, <1>1, <1>11
  <2>3. CASE z < i
    <3>1. i = z + 1 /\ l[z + 1].state # "torn"
      BY <2>1, <2>3, <1>11
    <3> QED BY <3>1
  <2> QED BY <2>1, <2>2, <2>3
<1> HIDE DEF e
<1>15. f \in InfoType /\ f.first = a /\ f.end = e
  BY <1>6, <1>12 DEF InfoType
<1>16. \E i \in HeadsOf(l, setup) : i <= e
  <2>1. PICK i \in HeadsOf(l, setup) : TRUE
    BY <1>1
  <2>2. i \in 1 .. N /\ Complete(l, i)
    BY <2>1 DEF HeadsOf, Heads
  <2> QED BY <2>1, <2>2, <1>13
<1>17. \A i \in 1 .. N : Complete(l, i) => i <= e + 1
  BY <1>12, <1>13
<1> HIDE DEF f
<1>18. Usable(l, f)
  BY <1>7, <1>12, <1>14, <1>15, <1>16, <1>17 DEF Usable
<1> QED BY <1>18, <1>13, <1>15 DEF Covers, f

\* The data of the variable at record i.
Data(l, i) == l[NvGetDataNvar(l, i, Len(l))].data

\* With all links followed, the data is where a boot looks for it.
LEMMA SameEnd ==
  ASSUME NEW l, LogOK(l), NEW f, Usable(l, f), NEW i \in 1 .. f.end, Complete(l, i),
         Written(l, f) => l[f.end + 1].name # l[i].name
  PROVE  /\ NvGetDataNvar(l, i, f.end) = NvGetDataNvar(l, i, Len(l))
         /\ NvGetDataNvar(l, i, f.end) \in 1 .. f.end
         /\ l[NvGetDataNvar(l, i, f.end)].name = l[i].name
<1> DEFINE n == l[i].name
           e == f.end
           N == Len(l)
           D == {j \in 1 .. e : Complete(l, j) /\ l[j].name = n}
<1>1. /\ e \in 1 .. N /\ e \in Nat /\ N \in Nat
      /\ \A j : NvIsVariable(l, j, e) <=> j \in 1 .. e /\ Complete(l, j)
  BY UsableFacts
<1>2. \A j : NvIsVariable(l, j, N) <=> j \in 1 .. N /\ Complete(l, j)
  <2>1. N \in 0 .. N /\ \A j \in 1 .. N : Complete(l, j) => j <= N + 1
    BY <1>1
  <2> QED BY <2>1, VariableIff
<1>3. D \subseteq 1 .. N /\ i \in D
  BY <1>1
<1>4. ASSUME NEW j \in D
      PROVE  /\ NvIsVariable(l, l[j].next, N) <=> NvIsVariable(l, l[j].next, e)
             /\ NvIsVariable(l, l[j].next, e) => l[j].next \in D
  <2>1. LinkOK(l, j) /\ j \in 1 .. N
    BY <1>3, LogFacts
  <2>2. CASE l[j].next = 0
    BY <1>1, <1>2, <2>2
  <2>3. CASE l[j].next # 0
    <3> DEFINE k == l[j].next
    <3>1. k \in 1 .. N /\ Complete(l, k) /\ l[k].name = n
      BY <2>1, <2>3, <1>1 DEF LinkOK
    <3>2. k <= e + 1
      BY <3>1 DEF Usable
    <3>3. k # e + 1
      <4>1. k = e + 1 => Written(l, f)
        BY <3>1, <1>1 DEF Written
      <4> QED BY <4>1, <3>1
    <3>4. k \in 1 .. e
      BY <3>1, <3>2, <3>3, <1>1
    <3> HIDE DEF k
    <3> QED BY <3>1, <3>4, <1>1, <1>2 DEF k
  <2> QED BY <2>2, <2>3
<1> HIDE DEF D
<1>5. /\ NvGetDataNvar(l, i, N) = NvGetDataNvar(l, i, e)
      /\ NvGetDataNvar(l, i, e) \in D
  <2>1. SameLinks(l, e, l, N, D)
    BY <1>3, <1>4 DEF SameLinks
  <2>2. e \in Nat /\ N \in Nat
    BY <1>1
  <2> HIDE DEF e, N
  <2>3. \A j \in D : /\ NvGetDataNvar(l, j, N) = NvGetDataNvar(l, j, e)
                     /\ NvGetDataNvar(l, j, e) \in D
    BY <2>1, <2>2, FollowSame
  <2> QED BY <1>3, <2>3
<1> QED BY <1>5 DEF D

\* What a reader with sound pointers gets.
LEMMA ViewFacts ==
  ASSUME NEW l, LogOK(l), NEW f, Covers(l, f), NEW n \in Names
  PROVE  /\ HeadsOf(l, n) = {} => View(l, f)[n] = Absent
         /\ \A i \in HeadsOf(l, n) : /\ Min(HeadsOf(l, n)) = i
                                     /\ View(l, f)[n] = Data(l, i)
                                     /\ NvGetDataNvar(l, i, f.end) = NvGetDataNvar(l, i, Len(l))
                                     /\ NvGetDataNvar(l, i, f.end) \in 1 .. f.end
                                     /\ l[NvGetDataNvar(l, i, f.end)].name = n
<1>1. View(l, f)[n] = IF HeadsOf(l, n) = {} THEN Absent
                      ELSE l[NvGetDataNvar(l, Min(HeadsOf(l, n)), f.end)].data
  BY CoversFacts DEF View
<1>2. ASSUME NEW i \in HeadsOf(l, n)
      PROVE  /\ Min(HeadsOf(l, n)) = i
             /\ NvGetDataNvar(l, i, f.end) = NvGetDataNvar(l, i, Len(l))
             /\ NvGetDataNvar(l, i, f.end) \in 1 .. f.end
             /\ l[NvGetDataNvar(l, i, f.end)].name = n
  <2>1. Min(HeadsOf(l, n)) = i
    <3>1. HeadsOf(l, n) \in SUBSET Nat /\ \A j \in HeadsOf(l, n) : j = i
      BY DEF HeadsOf, Heads, LogOK
    <3> QED BY <3>1, MinOfOne
  <2>2. i \in 1 .. Len(l) /\ Complete(l, i) /\ l[i].name = n
    BY DEF HeadsOf, Heads
  <2>3. Usable(l, f) /\ ~Written(l, f) /\ i \in 1 .. f.end
    <3>1. Usable(l, f) /\ \A j \in 1 .. Len(l) : Complete(l, j) => j <= f.end
      BY DEF Covers
    <3>2. f.end \in Nat /\ Len(l) \in Nat
      BY <3>1, UsableFacts
    <3>3. ~Written(l, f)
      <4>1. SUFFICES ASSUME Written(l, f) PROVE FALSE
        OBVIOUS
      <4>2. f.end + 1 \in 1 .. Len(l) /\ Complete(l, f.end + 1)
        BY <4>1, <3>2 DEF Written
      <4> QED BY <4>2, <3>1, <3>2
    <3> QED BY <3>1, <3>2, <3>3, <2>2
  <2> QED BY <2>1, <2>2, <2>3, SameEnd
<1> QED BY <1>1, <1>2 DEF Data

LEMMA BootFacts ==
  ASSUME NEW l, LogOK(l), NEW n \in Names
  PROVE  /\ HeadsOf(l, n) = {} => BootView(l)[n] = Absent
         /\ \A i \in HeadsOf(l, n) : BootView(l)[n] = Data(l, i)
BY InitCovers, ViewFacts DEF BootView

LEMMA ViewIsBootView ==
  ASSUME NEW l, LogOK(l), NEW f, Covers(l, f)
  PROVE  View(l, f) = BootView(l)
<1>1. ASSUME NEW n \in Names PROVE View(l, f)[n] = BootView(l)[n]
  BY ViewFacts, BootFacts
<1>2. View(l, f) = [n \in Names |-> View(l, f)[n]] /\ BootView(l) = [n \in Names |-> BootView(l)[n]]
  BY DEF BootView, View
<1> QED BY <1>1, <1>2
------------------------------------------------------------------------------
(***************************************************************************)
(* What changes the variables of a log, and what does not                  *)
(***************************************************************************)
\* The records of variable n count in m as they do in l.
SameRecords(l, m, n) ==
  \A j \in 1 .. Len(l) :
    Complete(l, j) /\ l[j].name = n =>
      /\ j \in 1 .. Len(m) /\ Complete(m, j)
      /\ m[j].next = l[j].next /\ m[j].data = l[j].data

\* The data of a variable is the same if its records are.
LEMMA DataSame ==
  ASSUME NEW l, NEW m, LogOK(l), LogOK(m), NEW n, SameRecords(l, m, n),
         NEW i \in 1 .. Len(l), Complete(l, i), l[i].name = n
  PROVE  Data(m, i) = Data(l, i)
<1> DEFINE e == Len(l)
           d == Len(m)
           D == {j \in 1 .. e : Complete(l, j) /\ l[j].name = n}
<1>1. /\ e \in Nat /\ d \in Nat
      /\ \A j : NvIsVariable(l, j, e) <=> j \in 1 .. e /\ Complete(l, j)
      /\ \A j : NvIsVariable(m, j, d) <=> j \in 1 .. d /\ Complete(m, j)
  <2>1. e \in Nat /\ d \in Nat
    BY LogFacts
  <2>2. /\ e \in 0 .. e /\ \A j \in 1 .. e : Complete(l, j) => j <= e + 1
        /\ d \in 0 .. d /\ \A j \in 1 .. d : Complete(m, j) => j <= d + 1
    BY <2>1
  <2> QED BY <2>1, <2>2, VariableIff
<1>2. SameLinks(l, e, m, d, D)
  <2>1. \A j \in D : j \in 1 .. d /\ m[j].next = l[j].next
    BY DEF SameRecords
  <2>2. ASSUME NEW j \in D
        PROVE  /\ NvIsVariable(m, m[j].next, d) <=> NvIsVariable(l, l[j].next, e)
               /\ NvIsVariable(l, l[j].next, e) => l[j].next \in D
    <3>1. m[j].next = l[j].next /\ LinkOK(l, j)
      BY <2>1, LogFacts
    <3>2. CASE l[j].next = 0
      BY <3>1, <3>2, <1>1
    <3>3. CASE l[j].next # 0
      <4>1. l[j].next \in 1 .. e /\ Complete(l, l[j].next) /\ l[l[j].next].name = n
        BY <3>1, <3>3, <1>1 DEF LinkOK
      <4>2. l[j].next \in D
        BY <4>1
      <4>3. l[j].next \in 1 .. d /\ Complete(m, l[j].next)
        BY <4>1 DEF SameRecords
      <4> QED BY <3>1, <4>1, <4>2, <4>3, <1>1
    <3> QED BY <3>2, <3>3
  <2>3. D \subseteq 1 .. e /\ D \subseteq 1 .. d
    BY <2>1
  <2> HIDE DEF D
  <2> QED BY <2>1, <2>2, <2>3 DEF SameLinks
<1>3. i \in D
  OBVIOUS
<1>4. NvGetDataNvar(m, i, d) = NvGetDataNvar(l, i, e) /\ NvGetDataNvar(l, i, e) \in D
  <2> HIDE DEF D, e, d
  <2> QED BY <1>1, <1>2, <1>3, FollowSame
<1>5. m[NvGetDataNvar(l, i, e)].data = l[NvGetDataNvar(l, i, e)].data
  BY <1>4 DEF SameRecords
<1> QED BY <1>4, <1>5 DEF Data

LEMMA BootSame ==
  ASSUME NEW l, NEW m, LogOK(l), LogOK(m), NEW n \in Names, SameRecords(l, m, n),
         HeadsOf(m, n) = HeadsOf(l, n)
  PROVE  BootView(m)[n] = BootView(l)[n]
<1>1. CASE HeadsOf(l, n) = {}
  BY <1>1, BootFacts
<1>2. CASE HeadsOf(l, n) # {}
  <2>1. PICK i \in HeadsOf(l, n) : TRUE
    BY <1>2
  <2>2. i \in 1 .. Len(l) /\ Complete(l, i) /\ l[i].name = n
    BY <2>1 DEF HeadsOf, Heads
  <2>3. BootView(l)[n] = Data(l, i) /\ BootView(m)[n] = Data(m, i)
    BY <2>1, BootFacts
  <2>4. Data(m, i) = Data(l, i)
    BY <2>2, DataSame
  <2> QED BY <2>3, <2>4
<1> QED BY <1>1, <1>2

------------------------------------------------------------------------------
(***************************************************************************)
(* A log that has just been written: one record for each variable          *)
(***************************************************************************)
Fresh(c) ==
  /\ c \in Seq(RecordType)
  /\ \A k \in 1 .. Len(c) : Complete(c, k) /\ NvIsValid(c, k) /\ c[k].next = 0
  /\ \A j, k \in 1 .. Len(c) : c[j].name = c[k].name => j = k

LEMMA FreshFacts ==
  ASSUME NEW c, Fresh(c), NEW s \in 1 .. Len(c), c[s].name = setup
  PROVE  /\ LogOK(c)
         /\ \A k \in 1 .. Len(c) : BootView(c)[c[k].name] = c[k].data
         /\ \A n \in Names : (\A k \in 1 .. Len(c) : c[k].name # n) => BootView(c)[n] = Absent
<1>1. c \in Seq(RecordType) /\ Len(c) \in Nat /\ s \in Nat /\ 1 <= s /\ s <= Len(c)
  BY DEF Fresh
<1>2. Heads(c) = 1 .. Len(c)
  BY DEF Fresh, Heads
<1>3. LogOK(c)
  <2>1. Len(c) >= 1 /\ 1 \in 1 .. Len(c)
    BY <1>1
  <2>2. Complete(c, 1)
    BY <2>1 DEF Fresh
  <2>3. \A i \in 1 .. Len(c) : c[i].state # "torn" /\ LinkOK(c, i)
    BY DEF Fresh, LinkOK, Complete
  <2>4. s \in HeadsOf(c, setup)
    BY <1>2 DEF HeadsOf
  <2>5. \A i, j \in Heads(c) : c[i].name = c[j].name => i = j
    BY <1>2 DEF Fresh
  <2> QED BY <1>1, <2>1, <2>2, <2>3, <2>4, <2>5 DEF LogOK
<1>4. ASSUME NEW k \in 1 .. Len(c) PROVE BootView(c)[c[k].name] = c[k].data
  <2>1. k \in HeadsOf(c, c[k].name) /\ c[k].name \in Names
    BY <1>2, <1>3, LogFacts DEF HeadsOf
  <2>2. NvGetDataNvar(c, k, Len(c)) = k
    <3>1. ~NvIsVariable(c, c[k].next, Len(c))
      BY <1>1 DEF Fresh, NvIsVariable
    <3> QED BY <1>1, <1>3, <3>1, FollowUnfold
  <2> QED BY <2>1, <2>2, <1>3, BootFacts DEF Data
<1>5. ASSUME NEW n \in Names, \A k \in 1 .. Len(c) : c[k].name # n PROVE BootView(c)[n] = Absent
  <2>1. HeadsOf(c, n) = {}
    BY <1>2, <1>5 DEF HeadsOf
  <2> QED BY <2>1, <1>3, BootFacts
<1> QED BY <1>3, <1>4, <1>5

\* The image that is shipped.
LEMMA ShippedOK == Init => LogOK(log)
<1> SUFFICES ASSUME Init PROVE LogOK(log)
  OBVIOUS
<1> DEFINE R(i) == Record("complete", "head", Shipped[i], ShippedData)
<1>1. Shipped \in Seq(Names) /\ ShippedData \in Values /\ IsInjective(Shipped)
  BY LogAssumption
<1>2. Len(Shipped) \in Nat /\ DOMAIN Shipped = 1 .. Len(Shipped)
      /\ \A i \in 1 .. Len(Shipped) : Shipped[i] \in Names
  BY <1>1
<1>3. log = [i \in 1 .. Len(Shipped) |-> R(i)]
  BY <1>2 DEF Init
<1>4. \A i \in 1 .. Len(Shipped) : R(i) \in RecordType
  BY <1>1, <1>2 DEF Record, RecordType
<1>5. log \in Seq(RecordType) /\ Len(log) = Len(Shipped)
  <2> HIDE DEF R
  <2> QED BY <1>2, <1>3, <1>4
<1>6. \A i \in 1 .. Len(log) : log[i] = R(i)
  <2> HIDE DEF R
  <2> QED BY <1>3, <1>5
<1>7. \A i \in 1 .. Len(log) : /\ log[i].state = "complete" /\ log[i].valid = TRUE
                               /\ log[i].kind = "head" /\ log[i].name = Shipped[i]
                               /\ log[i].next = 0
  <2> TAKE i \in 1 .. Len(log)
  <2> DEFINE r == Record("complete", "head", Shipped[i], ShippedData)
  <2>1. log[i] = r
    BY <1>6
  <2>2. r.state = "complete" /\ r.valid = TRUE /\ r.kind = "head" /\ r.name = Shipped[i] /\ r.next = 0
    BY DEF Record
  <2> HIDE DEF r
  <2> QED BY <2>1, <2>2
<1>8. Fresh(log)
  <2>1. \A j, k \in 1 .. Len(log) : log[j].name = log[k].name => j = k
    BY <1>1, <1>2, <1>5, <1>7 DEF IsInjective
  <2> QED BY <1>5, <1>7, <2>1 DEF Fresh, Complete, NvIsValid
<1>9. PICK s \in 1 .. Len(log) : log[s].name = setup
  BY <1>2, <1>5, <1>7, SetupAssumption
<1> QED BY <1>8, <1>9, FreshFacts
------------------------------------------------------------------------------
(***************************************************************************)
(* CopyVariables                                                           *)
(***************************************************************************)
Copied(l, f, S) == {i \in NvGetValid(l, f.first, f.end) : l[i].name \in S}

CopyOf(l, f, i) == Record("complete", "head", l[i].name, l[NvGetDataNvar(l, i, f.end)].data)

CopyStep(l, f, S, g, m) ==
  IF m = 0 THEN <<>>
  ELSE IF m \in Copied(l, f, S) THEN Append(g[m - 1], CopyOf(l, f, m)) ELSE g[m - 1]

\* The function that CopyVariables defines exists.
LEMMA CopyExists ==
  ASSUME NEW l, NEW f, NEW S, Len(l) \in Nat
  PROVE  \E g : g = [m \in 0 .. Len(l) |-> CopyStep(l, f, S, g, m)]
<1> DEFINE N == Len(l)
           G == {n \in 0 .. N : \E g : g = [m \in 0 .. n |-> CopyStep(l, f, S, g, m)]}
<1> HIDE DEF N
<1>0. N \in Nat
  BY DEF N
<1>1. 0 \in G
  <2>1. [m \in 0 .. 0 |-> CopyStep(l, f, S, [k \in 0 .. 0 |-> <<>>], m)] = [k \in 0 .. 0 |-> <<>>]
    BY DEF CopyStep
  <2> QED BY <2>1, <1>0
<1>2. ASSUME NEW n \in 0 .. N, n \in G, n < N PROVE n + 1 \in G
  <2>1. PICK g : g = [m \in 0 .. n |-> CopyStep(l, f, S, g, m)]
    BY <1>2
  <2> DEFINE h == [m \in 0 .. (n + 1) |-> IF m <= n THEN g[m] ELSE CopyStep(l, f, S, g, m)]
  <2>2. \A m \in 0 .. (n + 1) : h[m] = CopyStep(l, f, S, h, m)
    <3> TAKE m \in 0 .. (n + 1)
    <3>1. m # 0 => h[m - 1] = g[m - 1]
      BY <1>0
    <3>2. CopyStep(l, f, S, h, m) = CopyStep(l, f, S, g, m)
      <4> HIDE DEF h
      <4> QED BY <3>1 DEF CopyStep
    <3>3. m <= n => g[m] = CopyStep(l, f, S, g, m)
      BY <2>1
    <3> QED BY <3>2, <3>3
  <2>3. h = [m \in 0 .. (n + 1) |-> CopyStep(l, f, S, h, m)]
    <3>1. h = [m \in 0 .. (n + 1) |-> h[m]]
      OBVIOUS
    <3> HIDE DEF h
    <3> QED BY <2>2, <3>1
  <2>4. n + 1 \in 0 .. N
    BY <1>0, <1>2
  <2> HIDE DEF h
  <2> QED BY <2>3, <2>4
<1> HIDE DEF G
<1>3. \A n \in 0 .. N : n \in G
  <2>1. \A n \in 0 .. N : n \in G /\ n < N => n + 1 \in G
    BY <1>2
  <2> QED BY <1>0, <1>1, <2>1, Upwards
<1>4. N \in G
  BY <1>0, <1>3
<1> QED BY <1>4 DEF G, N

\* c holds one copy of each record in H and nothing else.
CopiesOf(c, l, f, H) ==
  /\ Fresh(c)
  /\ \A k \in 1 .. Len(c) : \E i \in H : c[k] = CopyOf(l, f, i)
  /\ \A i \in H : \E k \in 1 .. Len(c) : c[k] = CopyOf(l, f, i)

LEMMA CopyOfFacts ==
  ASSUME NEW l, LogOK(l), NEW f, Usable(l, f), NEW i \in Heads(l), i <= f.end
  PROVE  /\ CopyOf(l, f, i) \in RecordType
         /\ CopyOf(l, f, i).state = "complete" /\ CopyOf(l, f, i).next = 0
         /\ CopyOf(l, f, i).valid = TRUE /\ CopyOf(l, f, i).kind = "head"
         /\ CopyOf(l, f, i).name = l[i].name
         /\ CopyOf(l, f, i).data = l[NvGetDataNvar(l, i, f.end)].data
<1> DEFINE e == f.end
           D == 1 .. e
           j == NvGetDataNvar(l, i, e)
<1>1. /\ e \in Nat /\ e \in 1 .. Len(l) /\ Len(l) \in Nat
      /\ \A k : NvIsVariable(l, k, e) => k \in 1 .. e
  BY UsableFacts
<1>2. i \in D /\ i \in 1 .. Len(l)
  BY <1>1 DEF Heads
<1>3. j \in D
  <2>1. SameLinks(l, e, l, e, D)
    BY <1>1 DEF SameLinks
  <2> HIDE DEF D, e
  <2> QED BY <2>1, <1>1, <1>2, FollowSame
<1>4. l[i].name \in Names /\ l[j].data \in Values
  BY <1>1, <1>2, <1>3, LogFacts
<1> HIDE DEF j
<1>5. CopyOf(l, f, i) = Record("complete", "head", l[i].name, l[j].data)
  BY DEF CopyOf, j
<1> QED BY <1>4, <1>5 DEF Record, RecordType, j

\* A further copy.
LEMMA CopyOneMore ==
  ASSUME NEW l, LogOK(l), NEW f, Usable(l, f), NEW c, NEW H, CopiesOf(c, l, f, H),
         H \subseteq Heads(l), \A i \in H : i <= f.end,
         NEW m \in Heads(l) \ H, m <= f.end
  PROVE  CopiesOf(Append(c, CopyOf(l, f, m)), l, f, H \union {m})
<1> DEFINE x == CopyOf(l, f, m)
           d == Append(c, x)
<1>1. /\ x \in RecordType /\ x.state = "complete" /\ x.next = 0 /\ x.valid = TRUE
      /\ x.kind = "head" /\ x.name = l[m].name
  BY CopyOfFacts
<1>2. \A i \in H : CopyOf(l, f, i).name = l[i].name /\ l[i].name # l[m].name
  <2> TAKE i \in H
  <2>1. i \in Heads(l) /\ i <= f.end /\ i # m
    OBVIOUS
  <2>2. l[i].name # l[m].name
    BY <2>1 DEF LogOK
  <2> QED BY <2>1, <2>2, CopyOfFacts
<1> HIDE DEF x
<1>3. c \in Seq(RecordType) /\ Len(c) \in Nat
  BY DEF CopiesOf, Fresh
<1>4. /\ d \in Seq(RecordType) /\ Len(d) = Len(c) + 1 /\ d[Len(c) + 1] = x
      /\ \A k \in 1 .. Len(c) : d[k] = c[k]
  BY <1>1, <1>3, AppendProperties
<1> HIDE DEF d
<1>5. \A k \in 1 .. Len(d) : k \in 1 .. Len(c) \/ k = Len(c) + 1
  BY <1>3, <1>4
<1>6. Len(c) + 1 \in 1 .. Len(d) /\ \A k \in 1 .. Len(c) : k \in 1 .. Len(d) /\ k # Len(c) + 1
  BY <1>3, <1>4
<1>7. \A k \in 1 .. Len(c) : c[k].name # x.name
  BY <1>1, <1>2 DEF CopiesOf
<1>8. Fresh(d)
  <2>1. \A k \in 1 .. Len(d) : Complete(d, k) /\ NvIsValid(d, k) /\ d[k].next = 0
    <3> TAKE k \in 1 .. Len(d)
    <3>1. CASE k \in 1 .. Len(c)
      BY <3>1, <1>4 DEF CopiesOf, Fresh, Complete, NvIsValid
    <3>2. CASE k = Len(c) + 1
      BY <3>2, <1>1, <1>4 DEF Complete, NvIsValid
    <3> QED BY <3>1, <3>2, <1>5
  <2>2. ASSUME NEW j \in 1 .. Len(d), NEW k \in 1 .. Len(d), d[j].name = d[k].name PROVE j = k
    <3>1. CASE j \in 1 .. Len(c) /\ k \in 1 .. Len(c)
      BY <3>1, <2>2, <1>4 DEF CopiesOf, Fresh
    <3>2. CASE j \in 1 .. Len(c) /\ k = Len(c) + 1
      BY <3>2, <2>2, <1>4, <1>7
    <3>3. CASE j = Len(c) + 1 /\ k \in 1 .. Len(c)
      BY <3>3, <2>2, <1>4, <1>7
    <3>4. CASE j = Len(c) + 1 /\ k = Len(c) + 1
      BY <3>4
    <3> QED BY <3>1, <3>2, <3>3, <3>4, <1>5
  <2> QED BY <1>4, <2>1, <2>2 DEF Fresh
<1>9. \A k \in 1 .. Len(d) : \E i \in H \union {m} : d[k] = CopyOf(l, f, i)
  BY <1>4, <1>5 DEF CopiesOf, x
<1>10. \A i \in H \union {m} : \E k \in 1 .. Len(d) : d[k] = CopyOf(l, f, i)
  BY <1>4, <1>6 DEF CopiesOf, x
<1> QED BY <1>8, <1>9, <1>10 DEF CopiesOf, d, x

LEMMA CopyFacts ==
  ASSUME NEW l, LogOK(l), NEW f, Usable(l, f), NEW S
  PROVE  CopiesOf(CopyVariables(l, f, S), l, f, {i \in Heads(l) : i <= f.end /\ l[i].name \in S})
<1> DEFINE F == CHOOSE g : g = [m \in 0 .. Len(l) |-> CopyStep(l, f, S, g, m)]
           N == Len(l)
<1>0. N \in Nat /\ f.end \in 1 .. N
  BY LogFacts, UsableFacts
<1>1. CopyVariables(l, f, S) = F[N]
  BY DEF CopyVariables, CopyStep, CopyOf, Copied
<1>2. F = [m \in 0 .. N |-> CopyStep(l, f, S, F, m)]
  BY <1>0, CopyExists
<1> HIDE DEF F
<1>3. \A m \in 0 .. N : F[m] = CopyStep(l, f, S, F, m)
  BY <1>2
<1> DEFINE C == Copied(l, f, S)
           H(m) == {i \in C : i <= m}
           G == {m \in 0 .. N : CopiesOf(F[m], l, f, H(m))}
<1>4. C = {i \in Heads(l) : i <= f.end /\ l[i].name \in S}
  BY UsableFacts DEF Copied
<1>5. C \subseteq Heads(l) /\ C \subseteq 1 .. N /\ \A i \in C : i <= f.end
  BY <1>4 DEF Heads
<1> HIDE DEF C, N
<1>a. \A i \in C : i \in Nat /\ 1 <= i /\ i <= N
  BY <1>0, <1>5
<1>6. 0 \in G
  <2>1. F[0] = <<>>
    BY <1>0, <1>3 DEF CopyStep
  <2>2. H(0) = {}
    BY <1>a
  <2>3. CopiesOf(<<>>, l, f, {})
    <3>1. <<>> \in Seq(RecordType) /\ Len(<<>>) = 0 /\ 1 .. 0 = {}
      OBVIOUS
    <3> QED BY <3>1 DEF CopiesOf, Fresh
  <2> HIDE DEF H
  <2>4. CopiesOf(F[0], l, f, H(0))
    BY <2>1, <2>2, <2>3
  <2>5. 0 \in 0 .. N
    BY <1>0
  <2> QED BY <2>4, <2>5
<1>7. ASSUME NEW m \in 0 .. N, m \in G, m < N PROVE m + 1 \in G
  <2>1. CopiesOf(F[m], l, f, H(m))
    BY <1>7
  <2>2. m + 1 \in 0 .. N /\ m + 1 # 0 /\ (m + 1) - 1 = m
    BY <1>0, <1>7
  <2>3. F[m + 1] = IF m + 1 \in C THEN Append(F[m], CopyOf(l, f, m + 1)) ELSE F[m]
    BY <2>2, <1>3 DEF CopyStep, C
  <2>4. CASE m + 1 \in C
    <3>1. H(m + 1) = H(m) \union {m + 1}
      <4>1. \A i \in C : i <= m + 1 <=> i <= m \/ i = m + 1
        BY <1>a, <1>0
      <4> QED BY <2>4, <4>1, <1>0
    <3>2. m + 1 \notin H(m) /\ m + 1 \in Heads(l) /\ m + 1 <= f.end
      BY <2>4, <1>5, <1>0
    <3>3. H(m) \subseteq Heads(l) /\ \A i \in H(m) : i <= f.end
      BY <1>5
    <3>4. m + 1 \in Heads(l) \ H(m)
      BY <3>2
    <3> HIDE DEF H
    <3>5. CopiesOf(Append(F[m], CopyOf(l, f, m + 1)), l, f, H(m) \union {m + 1})
      BY <2>1, <3>2, <3>3, <3>4, CopyOneMore
    <3> QED BY <2>2, <2>3, <2>4, <3>1, <3>5
  <2>5. CASE m + 1 \notin C
    <3>1. H(m + 1) = H(m)
      <4>1. \A i \in C : i <= m + 1 <=> i <= m
        BY <1>a, <1>0, <2>5
      <4> QED BY <4>1
    <3> HIDE DEF H
    <3> QED BY <2>1, <2>2, <2>3, <2>5, <3>1
  <2> QED BY <2>4, <2>5
<1>8. \A m \in 0 .. N : m \in G
  <2> HIDE DEF G
  <2>1. \A m \in 0 .. N : m \in G /\ m < N => m + 1 \in G
    BY <1>7
  <2> QED BY <1>0, <1>6, <2>1, Upwards
<1>9. CopiesOf(F[N], l, f, H(N))
  BY <1>0, <1>8
<1>10. H(N) = C
  BY <1>a
<1> HIDE DEF H
<1> QED BY <1>1, <1>4, <1>9, <1>10

\* The variables of a compacted store.
LEMMA CompactFacts ==
  ASSUME NEW l, LogOK(l), NEW f, Usable(l, f), NEW S, setup \in S
  PROVE  /\ LogOK(CopyVariables(l, f, S))
         /\ \A n \in Names : n \notin S => BootView(CopyVariables(l, f, S))[n] = Absent
         /\ \A n \in Names :
              n \in S /\ (Written(l, f) => l[f.end + 1].name # n) =>
                BootView(CopyVariables(l, f, S))[n] = BootView(l)[n]
<1> DEFINE c == CopyVariables(l, f, S)
           H == {i \in Heads(l) : i <= f.end /\ l[i].name \in S}
<1>1. CopiesOf(c, l, f, H)
  BY CopyFacts
<1>2. \A i \in H : /\ CopyOf(l, f, i).name = l[i].name
                   /\ CopyOf(l, f, i).data = l[NvGetDataNvar(l, i, f.end)].data
  BY CopyOfFacts
<1>3. PICK s \in H : l[s].name = setup
  BY DEF Usable, HeadsOf
<1>4. H \subseteq Heads(l) /\ \A i \in H : i \in 1 .. f.end /\ Complete(l, i) /\ l[i].name \in S
  BY UsableFacts DEF Heads
<1>5. \A i \in Heads(l) : i <= f.end /\ l[i].name \in S => i \in H
  OBVIOUS
<1> HIDE DEF c, H
<1>6. PICK k \in 1 .. Len(c) : c[k] = CopyOf(l, f, s)
  BY <1>1, <1>3 DEF CopiesOf
<1>7. Fresh(c) /\ c[k].name = setup
  BY <1>1, <1>2, <1>3, <1>6 DEF CopiesOf
<1>8. /\ LogOK(c)
      /\ \A j \in 1 .. Len(c) : BootView(c)[c[j].name] = c[j].data
      /\ \A n \in Names : (\A j \in 1 .. Len(c) : c[j].name # n) => BootView(c)[n] = Absent
  BY <1>7, FreshFacts
<1>9. \A j \in 1 .. Len(c) : \E i \in H : c[j].name = l[i].name
  <2> TAKE j \in 1 .. Len(c)
  <2>1. PICK i \in H : c[j] = CopyOf(l, f, i)
    BY <1>1 DEF CopiesOf
  <2> QED BY <2>1, <1>2
<1>10. ASSUME NEW n \in Names, n \notin S PROVE BootView(c)[n] = Absent
  <2>1. \A j \in 1 .. Len(c) : c[j].name # n
    BY <1>4, <1>9, <1>10
  <2> QED BY <2>1, <1>8
<1>11. ASSUME NEW n \in Names, n \in S, Written(l, f) => l[f.end + 1].name # n
       PROVE  BootView(c)[n] = BootView(l)[n]
  <2>1. CASE HeadsOf(l, n) = {}
    <3>1. \A i \in H : l[i].name # n
      BY <2>1, <1>4 DEF HeadsOf
    <3>2. \A j \in 1 .. Len(c) : c[j].name # n
      BY <1>9, <3>1
    <3> QED BY <2>1, <3>2, <1>8, BootFacts
  <2>2. CASE HeadsOf(l, n) # {}
    <3>1. PICK i \in HeadsOf(l, n) : TRUE
      BY <2>2
    <3>2. i \in Heads(l) /\ l[i].name = n /\ i \in 1 .. Len(l) /\ Complete(l, i)
      BY <3>1 DEF HeadsOf, Heads
    <3>3. i \in 1 .. f.end
      <4>1. i <= f.end + 1 /\ f.end \in Nat /\ f.end \in 1 .. Len(l) /\ Len(l) \in Nat
        BY <3>2, UsableFacts DEF Usable
      <4>2. i = f.end + 1 => Written(l, f)
        BY <3>2, <4>1 DEF Written
      <4>3. i # f.end + 1
        BY <4>2, <3>2, <1>11
      <4> QED BY <4>1, <4>3, <3>2
    <3>4. i \in H
      BY <1>5, <1>11, <3>2, <3>3
    <3>5. PICK j \in 1 .. Len(c) : c[j] = CopyOf(l, f, i)
      BY <3>4, <1>1 DEF CopiesOf
    <3>6. c[j].name = n /\ c[j].data = l[NvGetDataNvar(l, i, f.end)].data
      BY <3>2, <3>4, <3>5, <1>2
    <3>7. NvGetDataNvar(l, i, f.end) = NvGetDataNvar(l, i, Len(l))
      BY <3>2, <3>3, <1>11, SameEnd
    <3>8. BootView(l)[n] = Data(l, i)
      BY <3>1, BootFacts
    <3> QED BY <3>6, <3>7, <3>8, <1>8 DEF Data
  <2> QED BY <2>1, <2>2
<1> QED BY <1>8, <1>10, <1>11 DEF c

\* The same with a new variable, which the error recovery writes.
WithVar(l, f, S, x, v) ==
  Append(CopyVariables(l, f, S \ {x}), Record("complete", "head", x, v))

LEMMA RecoverFacts ==
  ASSUME NEW l, LogOK(l), NEW f, Usable(l, f), NEW S, setup \in S,
         NEW x \in Names, NEW v \in Values, Written(l, f) => l[f.end + 1].name = x
  PROVE  /\ LogOK(WithVar(l, f, S, x, v))
         /\ BootView(WithVar(l, f, S, x, v))[x] = v
         /\ \A n \in Names : n \notin S /\ n # x =>
              BootView(WithVar(l, f, S, x, v))[n] = Absent
         /\ \A n \in Names : n \in S /\ n # x =>
              BootView(WithVar(l, f, S, x, v))[n] = BootView(l)[n]
<1> DEFINE c == WithVar(l, f, S, x, v)
           b == CopyVariables(l, f, S \ {x})
           r == Record("complete", "head", x, v)
           H == {i \in Heads(l) : i <= f.end /\ l[i].name \in S \ {x}}
<1>1. CopiesOf(b, l, f, H)
  BY CopyFacts
<1>2. \A i \in H : /\ CopyOf(l, f, i).name = l[i].name
                   /\ CopyOf(l, f, i).data = l[NvGetDataNvar(l, i, f.end)].data
  BY CopyOfFacts
<1>3. H \subseteq Heads(l) /\ \A i \in H : i \in 1 .. f.end /\ Complete(l, i) /\ l[i].name \in S \ {x}
  BY UsableFacts DEF Heads
<1>4. \A i \in Heads(l) : i <= f.end /\ l[i].name \in S \ {x} => i \in H
  OBVIOUS
<1>5. /\ r \in RecordType /\ r.state = "complete" /\ r.next = 0 /\ r.valid = TRUE
      /\ r.kind = "head" /\ r.name = x /\ r.data = v
  BY DEF Record, RecordType
<1>6. c = Append(b, r)
  BY DEF WithVar
<1> HIDE DEF b, r, H, c
<1>7. b \in Seq(RecordType) /\ Len(b) \in Nat
  BY <1>1 DEF CopiesOf, Fresh
<1>8. /\ c \in Seq(RecordType) /\ Len(c) = Len(b) + 1 /\ c[Len(b) + 1] = r
      /\ \A k \in 1 .. Len(b) : c[k] = b[k]
  BY <1>5, <1>6, <1>7, AppendProperties
<1>9. \A k \in 1 .. Len(c) : k \in 1 .. Len(b) \/ k = Len(b) + 1
  BY <1>7, <1>8
<1>10. Len(b) + 1 \in 1 .. Len(c) /\ \A k \in 1 .. Len(b) : k \in 1 .. Len(c)
  BY <1>7, <1>8
<1>11. \A j \in 1 .. Len(b) : \E i \in H : b[j].name = l[i].name
  <2> TAKE j \in 1 .. Len(b)
  <2>1. PICK i \in H : b[j] = CopyOf(l, f, i)
    BY <1>1 DEF CopiesOf
  <2> QED BY <2>1, <1>2
<1>12. \A j \in 1 .. Len(b) : b[j].name \in S \ {x}
  BY <1>3, <1>11
<1>13. Fresh(c)
  <2>1. \A k \in 1 .. Len(c) : Complete(c, k) /\ NvIsValid(c, k) /\ c[k].next = 0
    <3> TAKE k \in 1 .. Len(c)
    <3>1. CASE k \in 1 .. Len(b)
      BY <3>1, <1>1, <1>8 DEF CopiesOf, Fresh, Complete, NvIsValid
    <3>2. CASE k = Len(b) + 1
      BY <3>2, <1>5, <1>8 DEF Complete, NvIsValid
    <3> QED BY <3>1, <3>2, <1>9
  <2>2. ASSUME NEW j \in 1 .. Len(c), NEW k \in 1 .. Len(c), c[j].name = c[k].name PROVE j = k
    <3>1. CASE j \in 1 .. Len(b) /\ k \in 1 .. Len(b)
      BY <3>1, <2>2, <1>1, <1>8 DEF CopiesOf, Fresh
    <3>2. CASE j \in 1 .. Len(b) /\ k = Len(b) + 1
      BY <3>2, <2>2, <1>5, <1>8, <1>12
    <3>3. CASE j = Len(b) + 1 /\ k \in 1 .. Len(b)
      BY <3>3, <2>2, <1>5, <1>8, <1>12
    <3>4. CASE j = Len(b) + 1 /\ k = Len(b) + 1
      BY <3>4
    <3> QED BY <3>1, <3>2, <3>3, <3>4, <1>9
  <2> QED BY <1>8, <2>1, <2>2 DEF Fresh
<1>14. \E s \in 1 .. Len(c) : c[s].name = setup
  <2>1. CASE x = setup
    BY <2>1, <1>5, <1>8, <1>10
  <2>2. CASE x # setup
    <3>1. PICK i \in HeadsOf(l, setup) : i <= f.end
      BY DEF Usable
    <3>2. i \in H /\ l[i].name = setup
      BY <3>1, <2>2, <1>4 DEF HeadsOf
    <3>3. PICK k \in 1 .. Len(b) : b[k] = CopyOf(l, f, i)
      BY <3>2, <1>1 DEF CopiesOf
    <3> QED BY <3>2, <3>3, <1>2, <1>8, <1>10
  <2> QED BY <2>1, <2>2
<1>15. /\ LogOK(c)
       /\ \A j \in 1 .. Len(c) : BootView(c)[c[j].name] = c[j].data
       /\ \A n \in Names : (\A j \in 1 .. Len(c) : c[j].name # n) => BootView(c)[n] = Absent
  BY <1>13, <1>14, FreshFacts
<1>16. BootView(c)[x] = v
  BY <1>15, <1>10, <1>8, <1>5
<1>17. ASSUME NEW n \in Names, n \notin S, n # x PROVE BootView(c)[n] = Absent
  <2>1. \A j \in 1 .. Len(c) : c[j].name # n
    BY <1>5, <1>8, <1>9, <1>12, <1>17
  <2> QED BY <2>1, <1>15
<1>18. ASSUME NEW n \in Names, n \in S, n # x PROVE BootView(c)[n] = BootView(l)[n]
  <2>1. CASE HeadsOf(l, n) = {}
    <3>1. \A i \in H : l[i].name # n
      BY <2>1, <1>3 DEF HeadsOf
    <3>2. \A j \in 1 .. Len(c) : c[j].name # n
      BY <1>5, <1>8, <1>9, <1>11, <1>18, <3>1
    <3> QED BY <2>1, <3>2, <1>15, BootFacts
  <2>2. CASE HeadsOf(l, n) # {}
    <3>1. PICK i \in HeadsOf(l, n) : TRUE
      BY <2>2
    <3>2. i \in Heads(l) /\ l[i].name = n /\ i \in 1 .. Len(l) /\ Complete(l, i)
      BY <3>1 DEF HeadsOf, Heads
    <3>3. i \in 1 .. f.end
      <4>1. i <= f.end + 1 /\ f.end \in Nat /\ f.end \in 1 .. Len(l) /\ Len(l) \in Nat
        BY <3>2, UsableFacts DEF Usable
      <4>2. i = f.end + 1 => Written(l, f)
        BY <3>2, <4>1 DEF Written
      <4>3. i # f.end + 1
        BY <4>2, <3>2, <1>18
      <4> QED BY <4>1, <4>3, <3>2
    <3>4. i \in H
      BY <1>4, <1>18, <3>2, <3>3
    <3>5. PICK j \in 1 .. Len(b) : b[j] = CopyOf(l, f, i)
      BY <3>4, <1>1 DEF CopiesOf
    <3>6. c[j].name = n /\ c[j].data = l[NvGetDataNvar(l, i, f.end)].data /\ j \in 1 .. Len(c)
      BY <3>2, <3>4, <3>5, <1>2, <1>8, <1>10
    <3>7. NvGetDataNvar(l, i, f.end) = NvGetDataNvar(l, i, Len(l))
      BY <3>2, <3>3, <1>18, SameEnd
    <3>8. BootView(l)[n] = Data(l, i)
      BY <3>1, BootFacts
    <3> QED BY <3>6, <3>7, <3>8, <1>15 DEF Data
  <2> QED BY <2>1, <2>2
<1> QED BY <1>15, <1>16, <1>17, <1>18 DEF c
------------------------------------------------------------------------------
(***************************************************************************)
(* Writes to the log                                                       *)
(***************************************************************************)
\* d is l with record x in place of record m.
Replaced(d, l, m, x) ==
  /\ d \in Seq(RecordType) /\ Len(d) = Len(l)
  /\ d[m] = x
  /\ \A i \in 1 .. Len(l) : i # m => d[i] = l[i]

LEMMA ReplaceFacts ==
  ASSUME NEW l \in Seq(RecordType), NEW m \in 1 .. Len(l), NEW x \in RecordType
  PROVE  Replaced([l EXCEPT ![m] = x], l, m, x)
BY ExceptSeq DEF Replaced

\* The log l without the variable at record m.
Deleted(l, m) == [l EXCEPT ![m].valid = FALSE]

\* DeleteVariable: the variable is gone, the others are as they were.
LEMMA DeleteFacts ==
  ASSUME NEW l, LogOK(l), NEW f, Covers(l, f), NEW x \in Names, x # setup,
         NEW m \in HeadsOf(l, x)
  PROVE  /\ LogOK(Deleted(l, m))
         /\ Covers(Deleted(l, m), f)
         /\ BootView(Deleted(l, m))[x] = Absent
         /\ \A n \in Names : n # x => BootView(Deleted(l, m))[n] = BootView(l)[n]
<1> DEFINE d == Deleted(l, m)
           y == [l[m] EXCEPT !.valid = FALSE]
<1>1. m \in 1 .. Len(l) /\ l[m].name = x /\ Complete(l, m) /\ m \in Heads(l) /\ Len(l) \in Nat
  BY LogFacts DEF HeadsOf, Heads
<1>2. l[m] \in RecordType /\ l \in Seq(RecordType)
  BY <1>1, LogFacts DEF LogOK
<1>3. /\ y \in RecordType /\ y.valid = FALSE /\ y.state = l[m].state /\ y.kind = l[m].kind
      /\ y.name = l[m].name /\ y.data = l[m].data /\ y.next = l[m].next
  BY <1>2 DEF RecordType
<1>4. d = [l EXCEPT ![m] = y]
  BY <1>1, <1>2 DEF Deleted
<1> HIDE DEF d, y
<1>5. Replaced(d, l, m, y)
  BY <1>1, <1>2, <1>3, <1>4, ReplaceFacts
<1>6. /\ d \in Seq(RecordType) /\ Len(d) = Len(l)
      /\ \A i \in 1 .. Len(l) : /\ d[i].state = l[i].state /\ d[i].name = l[i].name
                                /\ d[i].next = l[i].next /\ d[i].data = l[i].data
                                /\ d[i].kind = l[i].kind
  BY <1>3, <1>5 DEF Replaced
<1>7. \A i \in 1 .. Len(l) : /\ Complete(d, i) <=> Complete(l, i)
                             /\ NvIsValid(d, i) <=> NvIsValid(l, i) /\ i # m
  <2> TAKE i \in 1 .. Len(l)
  <2>1. Complete(d, i) <=> Complete(l, i)
    BY <1>6 DEF Complete
  <2>2. CASE i = m
    BY <2>1, <2>2, <1>3, <1>5 DEF Replaced, NvIsValid
  <2>3. CASE i # m
    BY <2>1, <2>3, <1>5 DEF Replaced, NvIsValid
  <2> QED BY <2>2, <2>3
<1>8. Heads(d) = Heads(l) \ {m}
  BY <1>6, <1>7 DEF Heads
<1>9. \A n : HeadsOf(d, n) = HeadsOf(l, n) \ {m}
  <2> TAKE n
  <2>1. \A i \in Heads(l) : d[i].name = l[i].name
    BY <1>6 DEF Heads
  <2> QED BY <2>1, <1>8 DEF HeadsOf
<1>10. \A n : n # x => HeadsOf(d, n) = HeadsOf(l, n)
  BY <1>9, <1>1 DEF HeadsOf
<1>11. HeadsOf(d, x) = {}
  <2>1. \A i \in HeadsOf(l, x) : i = m
    BY <1>1 DEF HeadsOf, LogOK
  <2> QED BY <2>1, <1>9
<1>12. LogOK(d)
  <2>1. Len(d) >= 1 /\ Complete(d, 1)
    <3>1. Len(l) >= 1 /\ Complete(l, 1) /\ 1 \in 1 .. Len(l)
      BY <1>1 DEF LogOK
    <3> QED BY <3>1, <1>6, <1>7
  <2>2. \A i, j \in 1 .. Len(d) : Complete(d, i) /\ d[j].state = "torn" => i < j
    BY <1>6, <1>7 DEF LogOK
  <2>3. ASSUME NEW i \in 1 .. Len(d) PROVE LinkOK(d, i)
    <3>1. LinkOK(l, i) /\ i \in 1 .. Len(l) /\ i \in Nat
      BY <1>6, LogFacts
    <3>2. CASE l[i].next = 0
      BY <3>1, <3>2, <1>6 DEF LinkOK
    <3>3. CASE l[i].next # 0
      <4>1. l[i].next \in (i + 1) .. Len(l) /\ Complete(l, l[i].next) /\ l[l[i].next].name = l[i].name
        BY <3>1, <3>3 DEF LinkOK
      <4>2. l[i].next \in 1 .. Len(l)
        BY <4>1, <3>1, <1>1
      <4> QED BY <3>1, <4>1, <4>2, <1>6, <1>7 DEF LinkOK
    <3> QED BY <3>2, <3>3
  <2>4. ASSUME NEW i \in Heads(d), NEW j \in Heads(d), d[i].name = d[j].name PROVE i = j
    <3>1. i \in Heads(l) /\ j \in Heads(l) /\ i \in 1 .. Len(l) /\ j \in 1 .. Len(l)
      BY <1>8 DEF Heads
    <3>2. l[i].name = l[j].name
      BY <2>4, <3>1, <1>6
    <3> QED BY <3>1, <3>2 DEF LogOK
  <2>5. HeadsOf(d, setup) # {}
    BY <1>10 DEF LogOK
  <2> QED BY <1>6, <2>1, <2>2, <2>3, <2>4, <2>5 DEF LogOK
<1>13. Covers(d, f)
  <2>1. Usable(l, f) /\ \A i \in 1 .. Len(l) : Complete(l, i) => i <= f.end
    BY DEF Covers
  <2>2. f.first \in 1 .. Len(l) /\ \A i \in 1 .. f.end : i \in 1 .. Len(l)
    BY <2>1, UsableFacts
  <2>3. Complete(d, f.first) /\ \A i \in 1 .. f.end : d[i].state # "torn"
    BY <2>1, <2>2, <1>6, <1>7 DEF Usable
  <2>4. \E i \in HeadsOf(d, setup) : i <= f.end
    BY <2>1, <1>10 DEF Usable
  <2>5. \A i \in Heads(d) : i <= f.end => f.first <= i
    BY <2>1, <1>8 DEF Usable
  <2>6. \A i \in 1 .. Len(d) : Complete(d, i) => i <= f.end + 1 /\ i <= f.end
    BY <2>1, <1>6, <1>7 DEF Usable
  <2> QED BY <2>1, <2>3, <2>4, <2>5, <2>6, <1>6 DEF Covers, Usable
<1>14. BootView(d)[x] = Absent
  BY <1>11, <1>12, BootFacts
<1>15. ASSUME NEW n \in Names, n # x PROVE BootView(d)[n] = BootView(l)[n]
  <2>1. SameRecords(l, d, n)
    BY <1>6, <1>7 DEF SameRecords
  <2> QED BY <2>1, <1>10, <1>12, <1>15, BootSame
<1> QED BY <1>12, <1>13, <1>14, <1>15 DEF d

\* A record without a signature at pEndOfVars changes no variable.
LEMMA ProgramFacts ==
  ASSUME LogOK(log), Covers(log, info), NEW r \in RecordType,
         r.state # "complete", r.next = 0
  PROVE  /\ LogOK(Programmed(r)) /\ Covers(Programmed(r), info)
         /\ info.end < Len(Programmed(r)) /\ Programmed(r)[info.end + 1] = r
         /\ Len(Programmed(r)) = IF info.end < Len(log) THEN Len(log) ELSE info.end + 1
         /\ \A i \in 1 .. Len(Programmed(r)) : i # info.end + 1 => Programmed(r)[i] = log[i]
         /\ \A i \in 1 .. info.end : Programmed(r)[i] = log[i]
         /\ \A n : HeadsOf(Programmed(r), n) = HeadsOf(log, n)
         /\ \A n \in Names : BootView(Programmed(r))[n] = BootView(log)[n]
<1> DEFINE l == log
           f == info
           d == Programmed(r)
           e == f.end
           a == SubSeq(l, 1, e)
           b == Append(a, r)
           c == SubSeq(l, e + 2, Len(l))
<1>1. Usable(l, f) /\ \A i \in 1 .. Len(l) : Complete(l, i) => i <= e
  BY DEF Covers
<1>2. /\ e \in Nat /\ Len(l) \in Nat /\ 1 <= e /\ e <= Len(l)
      /\ f.first \in 1 .. e /\ l \in Seq(RecordType)
      /\ \A i \in 1 .. Len(l) : l[i] \in RecordType
  BY <1>1, UsableFacts, LogFacts DEF LogOK
<1>3. d = b \o c
  BY DEF Programmed, BeforeEnd
<1>4. a \in Seq(RecordType) /\ Len(a) = e /\ \A i \in 1 .. e : a[i] = l[i]
  <2>1. \A i \in 1 .. e : l[i] \in RecordType
    BY <1>2
  <2> HIDE DEF e
  <2>2. /\ SubSeq(l, 1, e) \in Seq(RecordType)
        /\ Len(SubSeq(l, 1, e)) = IF 1 <= e THEN e - 1 + 1 ELSE 0
        /\ \A i \in 1 .. e - 1 + 1 : SubSeq(l, 1, e)[i] = l[1 + i - 1]
    BY <1>2, <2>1, SubSeqProperties
  <2> QED BY <2>2, <1>2
<1>5. /\ c \in Seq(RecordType) /\ Len(c) = IF e + 2 <= Len(l) THEN Len(l) - e - 1 ELSE 0
      /\ \A i \in 1 .. Len(c) : c[i] = l[e + 1 + i]
  <2>1. e + 2 \in Int /\ \A i \in (e + 2) .. Len(l) : l[i] \in RecordType
    BY <1>2
  <2> DEFINE p == e + 2
             q == Len(l)
  <2>2. /\ SubSeq(l, p, q) \in Seq(RecordType)
        /\ Len(SubSeq(l, p, q)) = IF p <= q THEN q - p + 1 ELSE 0
        /\ \A i \in 1 .. q - p + 1 : SubSeq(l, p, q)[i] = l[p + i - 1]
    <3>1. p \in Int /\ q \in Int /\ \A i \in p .. q : l[i] \in RecordType
      BY <1>2, <2>1
    <3> HIDE DEF p, q
    <3> QED BY <3>1, SubSeqProperties
  <2>3. \A i \in 1 .. Len(c) : i \in 1 .. q - p + 1 /\ p + i - 1 = e + 1 + i
    BY <2>2, <1>2
  <2>4. \A i \in 1 .. Len(c) : c[i] = l[e + 1 + i]
    BY <2>2, <2>3
  <2> QED BY <2>2, <2>4, <1>2
<1> HIDE DEF a, c
<1>6. b \in Seq(RecordType) /\ Len(b) = e + 1 /\ b[e + 1] = r /\ \A i \in 1 .. e : b[i] = a[i]
  BY <1>4, AppendProperties
<1> HIDE DEF b, d
<1>7. /\ d \in Seq(RecordType) /\ Len(d) = Len(b) + Len(c)
      /\ \A i \in 1 .. Len(b) + Len(c) : d[i] = IF i <= Len(b) THEN b[i] ELSE c[i - Len(b)]
  <2>1. b \in Seq(RecordType) /\ c \in Seq(RecordType)
    BY <1>5, <1>6
  <2> QED BY <2>1, <1>3, ConcatProperties
<1> HIDE DEF e, l
<1>8. /\ Len(b) = e + 1 /\ Len(c) \in Nat /\ Len(d) = e + 1 + Len(c)
      /\ Len(d) \in Nat /\ Len(d) = IF e < Len(l) THEN Len(l) ELSE e + 1
  <2>1. Len(b) = e + 1 /\ Len(d) = Len(b) + Len(c) /\ e \in Nat /\ Len(l) \in Nat /\ e <= Len(l)
    BY <1>2, <1>6, <1>7
  <2>2. Len(c) = IF e + 2 <= Len(l) THEN Len(l) - e - 1 ELSE 0
    BY <1>5
  <2>3. Len(c) \in Nat /\ Len(d) = e + 1 + Len(c)
    BY <2>1, <2>2
  <2>4. CASE e + 2 <= Len(l)
    BY <2>1, <2>2, <2>3, <2>4
  <2>5. CASE ~(e + 2 <= Len(l))
    BY <2>1, <2>2, <2>3, <2>5
  <2> QED BY <2>4, <2>5
<1>9. d[e + 1] = r /\ e + 1 \in 1 .. Len(d) /\ e < Len(d)
  <2>1. e + 1 \in 1 .. Len(b) + Len(c) /\ e + 1 <= Len(b)
    BY <1>2, <1>6, <1>7, <1>8
  <2> QED BY <2>1, <1>2, <1>6, <1>7, <1>8
<1>10. ASSUME NEW i \in 1 .. Len(d), i # e + 1 PROVE i \in 1 .. Len(l) /\ d[i] = l[i]
  <2>1. CASE i <= e
    <3>1. i \in 1 .. e /\ i <= Len(b) /\ i \in 1 .. Len(b) + Len(c) /\ i \in 1 .. Len(l)
      BY <2>1, <1>2, <1>6, <1>7
    <3> QED BY <3>1, <1>4, <1>6, <1>7
  <2>2. CASE e + 2 <= i
    <3>1. /\ ~(i <= Len(b)) /\ i \in 1 .. Len(b) + Len(c) /\ i - Len(b) = i - (e + 1)
          /\ i - (e + 1) \in 1 .. Len(c) /\ e + 1 + (i - (e + 1)) = i
      BY <2>2, <1>2, <1>8
    <3>2. d[i] = c[i - (e + 1)]
      BY <3>1, <1>7
    <3>3. c[i - (e + 1)] = l[i]
      BY <3>1, <1>5
    <3>4. i \in 1 .. Len(l)
      BY <2>2, <1>2, <1>8
    <3> QED BY <3>2, <3>3, <3>4
  <2> QED BY <2>1, <2>2, <1>10, <1>2, <1>8
<1>11. \A i \in 1 .. Len(l) : i <= Len(d) /\ i \in 1 .. Len(d)
  BY <1>2, <1>8
<1>12. \A i \in 1 .. Len(d) : Complete(d, i) => i \in 1 .. Len(l) /\ i # e + 1 /\ d[i] = l[i] /\ Complete(l, i)
  BY <1>9, <1>10 DEF Complete
<1>13. \A i \in 1 .. Len(l) : Complete(l, i) => i \in 1 .. Len(d) /\ i # e + 1 /\ d[i] = l[i] /\ Complete(d, i)
  <2> TAKE i \in 1 .. Len(l)
  <2>1. SUFFICES ASSUME Complete(l, i)
                 PROVE  i \in 1 .. Len(d) /\ i # e + 1 /\ d[i] = l[i] /\ Complete(d, i)
    OBVIOUS
  <2>2. i \in 1 .. Len(d) /\ i # e + 1
    BY <2>1, <1>1, <1>2, <1>11 DEF l, e
  <2> QED BY <2>1, <2>2, <1>10 DEF Complete
<1>14. Heads(d) = Heads(l) /\ \A i \in Heads(l) : d[i] = l[i]
  BY <1>12, <1>13 DEF Heads, NvIsValid
<1>15. \A n : HeadsOf(d, n) = HeadsOf(l, n)
  BY <1>14 DEF HeadsOf
<1>16. LogOK(d)
  <2>0. LogOK(l)
    BY DEF l
  <2>1. Len(d) >= 1 /\ Complete(d, 1)
    <3>1. 1 \in 1 .. Len(l) /\ Complete(l, 1)
      BY <2>0, <1>2 DEF LogOK
    <3> QED BY <3>1, <1>13, <1>8, <1>2
  <2>2. ASSUME NEW i \in 1 .. Len(d), NEW j \in 1 .. Len(d), Complete(d, i), d[j].state = "torn"
        PROVE  i < j
    <3>1. i \in 1 .. Len(l) /\ Complete(l, i) /\ i <= e
      BY <2>2, <1>1, <1>12 DEF l, e
    <3>2. CASE j = e + 1
      BY <3>1, <3>2, <1>2
    <3>3. CASE j # e + 1
      BY <2>2, <3>1, <3>3, <1>10, <2>0 DEF LogOK
    <3> QED BY <3>2, <3>3
  <2>3. ASSUME NEW i \in 1 .. Len(d) PROVE LinkOK(d, i)
    <3>1. CASE i = e + 1
      BY <3>1, <1>9 DEF LinkOK
    <3>2. CASE i # e + 1
      <4>1. i \in 1 .. Len(l) /\ d[i] = l[i] /\ LinkOK(l, i)
        BY <3>2, <1>10, <2>0, LogFacts
      <4>2. CASE l[i].next = 0
        BY <4>1, <4>2 DEF LinkOK
      <4>3. CASE l[i].next # 0
        <5>1. l[i].next \in (i + 1) .. Len(l) /\ Complete(l, l[i].next) /\ l[l[i].next].name = l[i].name
          BY <4>1, <4>3 DEF LinkOK
        <5>2. l[i].next \in 1 .. Len(l)
          BY <5>1, <4>1, <1>2
        <5>3. l[i].next \in 1 .. Len(d) /\ d[l[i].next] = l[l[i].next] /\ Complete(d, l[i].next)
          BY <5>1, <5>2, <1>13
        <5>4. l[i].next \in (i + 1) .. Len(d)
          BY <5>1, <5>3, <4>1, <1>8, <1>2
        <5> QED BY <4>1, <5>1, <5>3, <5>4 DEF LinkOK
      <4> QED BY <4>2, <4>3
    <3> QED BY <3>1, <3>2
  <2>4. \A i, j \in Heads(d) : d[i].name = d[j].name => i = j
    BY <1>14, <2>0 DEF LogOK
  <2>5. HeadsOf(d, setup) # {}
    BY <1>15, <2>0 DEF LogOK
  <2> QED BY <1>7, <2>1, <2>2, <2>3, <2>4, <2>5 DEF LogOK
<1>17. Covers(d, f)
  <2>1. /\ f \in InfoType /\ 1 <= f.first /\ f.first <= e /\ e <= Len(d)
        /\ f.first \in 1 .. Len(l)
    BY <1>1, <1>2, <1>8 DEF Usable, l, e
  <2>2. Complete(d, f.first)
    BY <2>1, <1>1, <1>13 DEF Usable
  <2>3. \A i \in 1 .. e : d[i].state # "torn"
    <3> TAKE i \in 1 .. e
    <3>1. i \in 1 .. Len(d) /\ i # e + 1
      BY <1>2, <1>8
    <3>2. d[i] = l[i]
      BY <3>1, <1>10
    <3> QED BY <3>2, <1>1 DEF Usable, e
  <2>4. \A i \in Heads(d) : i <= e => f.first <= i
    BY <1>1, <1>14 DEF Usable, e
  <2>5. \A i \in 1 .. Len(d) : Complete(d, i) => i <= e /\ i <= e + 1
    <3>1. \A i \in 1 .. Len(l) : Complete(l, i) => i <= e
      BY <1>1 DEF l, e
    <3> QED BY <3>1, <1>12, <1>2
  <2>6. \E i \in HeadsOf(d, setup) : i <= e
    BY <1>1, <1>15 DEF Usable, e
  <2> QED BY <2>1, <2>2, <2>3, <2>4, <2>5, <2>6 DEF Covers, Usable, e
<1>18. ASSUME NEW n \in Names PROVE BootView(d)[n] = BootView(l)[n]
  <2>1. SameRecords(l, d, n)
    BY <1>13 DEF SameRecords
  <2>2. LogOK(l)
    BY DEF l
  <2> QED BY <2>1, <2>2, <1>15, <1>16, BootSame
<1>19. \A i \in 1 .. e : d[i] = l[i]
  <2>1. \A i \in 1 .. e : i \in 1 .. Len(d) /\ i # e + 1
    BY <1>2, <1>9
  <2> QED BY <2>1, <1>10
<1> QED BY <1>8, <1>9, <1>10, <1>15, <1>16, <1>17, <1>18, <1>19 DEF d, l, e

\* pEndOfVars after one more record that is not torn.
LEMMA AdvanceFacts ==
  ASSUME NEW l, LogOK(l), NEW f, Usable(l, f), f.end < Len(l), l[f.end + 1].state # "torn"
  PROVE  Covers(l, [f EXCEPT !.end = @ + 1])
<1> DEFINE g == [f EXCEPT !.end = @ + 1]
<1>1. /\ f \in InfoType /\ 1 <= f.first /\ f.first <= f.end /\ Complete(l, f.first)
      /\ \A i \in 1 .. f.end : l[i].state # "torn"
      /\ \A i \in Heads(l) : i <= f.end => f.first <= i
      /\ \A i \in 1 .. Len(l) : Complete(l, i) => i <= f.end + 1
      /\ \E i \in HeadsOf(l, setup) : i <= f.end
      /\ Len(l) \in Nat
  BY LogFacts DEF Usable
<1>2. g \in InfoType /\ g.first = f.first /\ g.end = f.end + 1 /\ f.end \in Nat /\ f.first \in Nat
  BY <1>1 DEF InfoType
<1> HIDE DEF g
<1>3. \A i \in 1 .. g.end : l[i].state # "torn"
  BY <1>1, <1>2
<1>4. \A i \in Heads(l) : g.first <= i
  <2> TAKE i \in Heads(l)
  <2>1. i \in 1 .. Len(l) /\ i <= f.end + 1
    BY <1>1 DEF Heads
  <2> QED BY <2>1, <1>1, <1>2
<1>5. \A i \in 1 .. Len(l) : Complete(l, i) => i <= g.end /\ i <= g.end + 1
  BY <1>1, <1>2
<1>6. \E i \in HeadsOf(l, setup) : i <= g.end
  <2>1. PICK i \in HeadsOf(l, setup) : i <= f.end
    BY <1>1
  <2>2. i \in 1 .. Len(l)
    BY DEF HeadsOf, Heads
  <2> QED BY <2>1, <2>2, <1>2
<1>7. 1 <= g.first /\ g.first <= g.end /\ g.end <= Len(l) /\ Complete(l, g.first)
  BY <1>1, <1>2
<1>8. Usable(l, g)
  BY <1>2, <1>3, <1>4, <1>5, <1>6, <1>7 DEF Usable
<1> QED BY <1>5, <1>8 DEF Covers, g
\* The signature of the record at pEndOfVars: a new variable is there, new data
\* of an old one is not linked yet.
LEMMA SignFacts ==
  ASSUME NEW l, LogOK(l), NEW f, Covers(l, f), f.end < Len(l), NEW x \in Names, NEW v \in Values,
         NEW k, k = IF HeadsOf(l, x) = {} THEN "head" ELSE "data",
         l[f.end + 1] = Record("incomplete", k, x, v),
         NEW d, Replaced(d, l, f.end + 1, Record("complete", k, x, v))
  PROVE  /\ LogOK(d) /\ Usable(d, f)
         /\ \A n \in Names : n # x => BootView(d)[n] = BootView(l)[n]
         /\ HeadsOf(l, x) = {} => BootView(d)[x] = v
         /\ HeadsOf(l, x) # {} => /\ BootView(d)[x] = BootView(l)[x]
                                  /\ HeadsOf(d, x) # {}
<1> DEFINE e == f.end
           m == e + 1
           r == Record("complete", k, x, v)
<1>1. /\ Usable(l, f) /\ e \in Nat /\ Len(l) \in Nat /\ 1 <= e /\ e <= Len(l) /\ e < Len(l)
      /\ \A i \in 1 .. Len(l) : Complete(l, i) => i <= e
      /\ f \in InfoType /\ f.first \in 1 .. e /\ f.first \in Nat
  BY UsableFacts DEF Covers, Usable
<1>2. /\ l[m].state = "incomplete" /\ l[m].next = 0 /\ l[m].name = x
      /\ r.state = "complete" /\ r.next = 0 /\ r.name = x /\ r.data = v /\ r.valid = TRUE
      /\ r.kind = k
  BY DEF Record
<1> HIDE DEF r
<1>3. d \in Seq(RecordType) /\ Len(d) = Len(l) /\ d[m] = r /\ \A i \in 1 .. Len(l) : i # m => d[i] = l[i]
  BY DEF Replaced, r
<1>4. m \in 1 .. Len(l) /\ m \in Nat
  BY <1>1
<1> HIDE DEF e, m
<1>5. \A i \in 1 .. Len(l) : Complete(l, i) => i # m /\ i <= e
  BY <1>1, <1>2 DEF Complete
<1>6. \A i \in 1 .. Len(l) : Complete(d, i) <=> Complete(l, i) \/ i = m
  <2> TAKE i \in 1 .. Len(l)
  <2>1. CASE i = m
    BY <2>1, <1>2, <1>3 DEF Complete
  <2>2. CASE i # m
    BY <2>2, <1>3 DEF Complete
  <2> QED BY <2>1, <2>2
<1>7. \A i \in Heads(l) : i \in 1 .. Len(l) /\ i # m /\ d[i] = l[i] /\ i \in Heads(d)
  <2> TAKE i \in Heads(l)
  <2>1. i \in 1 .. Len(l) /\ Complete(l, i) /\ NvIsValid(l, i)
    BY DEF Heads
  <2>2. i # m /\ d[i] = l[i]
    BY <2>1, <1>3, <1>5
  <2> QED BY <2>1, <2>2, <1>3, <1>6 DEF Heads, NvIsValid
<1>8. \A i \in Heads(d) : i \in Heads(l) \/ (i = m /\ k = "head")
  <2> TAKE i \in Heads(d)
  <2>1. i \in 1 .. Len(l) /\ Complete(d, i) /\ NvIsValid(d, i)
    BY <1>3 DEF Heads
  <2>2. CASE i = m
    BY <2>1, <2>2, <1>2, <1>3 DEF NvIsValid
  <2>3. CASE i # m
    BY <2>1, <2>3, <1>3, <1>6 DEF Heads, NvIsValid
  <2> QED BY <2>2, <2>3
<1>9. \A n : n # x => HeadsOf(d, n) = HeadsOf(l, n)
  <2> TAKE n
  <2>1. SUFFICES ASSUME n # x PROVE HeadsOf(d, n) = HeadsOf(l, n)
    OBVIOUS
  <2>2. \A i \in HeadsOf(d, n) : i \in HeadsOf(l, n)
    BY <2>1, <1>2, <1>3, <1>7, <1>8 DEF HeadsOf
  <2>3. \A i \in HeadsOf(l, n) : i \in HeadsOf(d, n)
    BY <1>7 DEF HeadsOf
  <2> QED BY <2>2, <2>3
<1>10. \A i \in HeadsOf(l, x) : i \in HeadsOf(d, x)
  BY <1>7 DEF HeadsOf
<1>11. \A i \in HeadsOf(d, x) : i \in HeadsOf(l, x) \/ (i = m /\ HeadsOf(l, x) = {})
  <2> TAKE i \in HeadsOf(d, x)
  <2>1. i \in Heads(d) /\ d[i].name = x
    BY DEF HeadsOf
  <2>2. CASE i \in Heads(l)
    BY <2>1, <2>2, <1>7 DEF HeadsOf
  <2>3. CASE i = m /\ k = "head"
    BY <2>3
  <2> QED BY <2>1, <2>2, <2>3, <1>8
<1>12. HeadsOf(l, x) = {} => m \in HeadsOf(d, x)
  <2>1. SUFFICES ASSUME HeadsOf(l, x) = {} PROVE m \in HeadsOf(d, x)
    OBVIOUS
  <2>2. r.kind = "head"
    BY <2>1, <1>2
  <2>3. m \in 1 .. Len(d) /\ Complete(d, m)
    BY <1>3, <1>4, <1>6
  <2>4. NvIsValid(d, m)
    BY <2>2, <1>2, <1>3 DEF NvIsValid
  <2> QED BY <2>3, <2>4, <1>2, <1>3 DEF HeadsOf, Heads
<1>13. LogOK(d)
  <2>1. Len(d) >= 1 /\ Complete(d, 1)
    <3>1. 1 \in 1 .. Len(l) /\ Complete(l, 1) /\ Len(l) >= 1
      BY <1>1 DEF LogOK
    <3> QED BY <3>1, <1>3, <1>6
  <2>2. ASSUME NEW i \in 1 .. Len(d), NEW j \in 1 .. Len(d), Complete(d, i), d[j].state = "torn"
        PROVE  i < j
    <3>1. i \in 1 .. Len(l) /\ j \in 1 .. Len(l) /\ j # m
      BY <2>2, <1>2, <1>3
    <3>2. l[j].state = "torn"
      BY <2>2, <3>1, <1>3
    <3>3. CASE i = m
      <4>1. ~(j \in 1 .. e)
        BY <3>2, <1>1 DEF Usable, e
      <4> QED BY <3>1, <3>3, <4>1, <1>1 DEF m
    <3>4. CASE i # m
      BY <2>2, <3>1, <3>2, <3>4, <1>6 DEF LogOK
    <3> QED BY <3>3, <3>4
  <2>3. ASSUME NEW i \in 1 .. Len(d) PROVE LinkOK(d, i)
    <3>1. CASE i = m
      BY <3>1, <1>2, <1>3 DEF LinkOK
    <3>2. CASE i # m
      <4>1. i \in 1 .. Len(l) /\ d[i] = l[i] /\ LinkOK(l, i)
        BY <3>2, <1>3, LogFacts
      <4>2. CASE l[i].next = 0
        BY <4>1, <4>2 DEF LinkOK
      <4>3. CASE l[i].next # 0
        <5>1. l[i].next \in (i + 1) .. Len(l) /\ Complete(l, l[i].next) /\ l[l[i].next].name = l[i].name
          BY <4>1, <4>3 DEF LinkOK
        <5>2. l[i].next \in 1 .. Len(l)
          BY <5>1, <4>1, <1>1
        <5>3. d[l[i].next] = l[l[i].next] /\ Complete(d, l[i].next)
          BY <5>1, <5>2, <1>3, <1>5, <1>6
        <5> QED BY <4>1, <5>1, <5>3, <1>3 DEF LinkOK
      <4> QED BY <4>2, <4>3
    <3> QED BY <3>1, <3>2
  <2>4. ASSUME NEW i \in Heads(d), NEW j \in Heads(d), d[i].name = d[j].name PROVE i = j
    <3> DEFINE n == d[i].name
    <3>1. i \in HeadsOf(d, n) /\ j \in HeadsOf(d, n)
      BY <2>4 DEF HeadsOf
    <3> HIDE DEF n
    <3>2. \A p, q \in HeadsOf(l, n) : p = q
      BY DEF LogOK, HeadsOf
    <3> QED BY <3>1, <3>2, <1>9, <1>11
  <2>5. HeadsOf(d, setup) # {}
    <3>1. HeadsOf(l, setup) # {}
      BY DEF LogOK
    <3> QED BY <3>1, <1>9, <1>10
  <2> QED BY <1>3, <2>1, <2>2, <2>3, <2>4, <2>5 DEF LogOK
<1>14. Usable(d, f)
  <2>1. 1 <= f.first /\ f.first <= e /\ e <= Len(d) /\ f.first \in 1 .. Len(l) /\ f \in InfoType
    BY <1>1, <1>3
  <2>2. Complete(d, f.first)
    BY <2>1, <1>1, <1>6 DEF Usable
  <2>3. \A i \in 1 .. e : d[i].state # "torn"
    <3> TAKE i \in 1 .. e
    <3>1. i \in 1 .. Len(l) /\ i # m
      BY <1>1 DEF m
    <3> QED BY <3>1, <1>1, <1>3 DEF Usable, e
  <2>4. \A i \in Heads(d) : i <= e => f.first <= i
    BY <1>1, <1>8 DEF Usable, e, m
  <2>5. \A i \in 1 .. Len(d) : Complete(d, i) => i <= e + 1
    BY <1>1, <1>3, <1>5, <1>6 DEF m
  <2>6. \E i \in HeadsOf(d, setup) : i <= e
    BY <1>1, <1>9, <1>10 DEF Usable, e
  <2> QED BY <2>1, <2>2, <2>3, <2>4, <2>5, <2>6 DEF Usable, e
<1>15. \A n : SameRecords(l, d, n)
  BY <1>3, <1>5, <1>6 DEF SameRecords
<1>16. \A n \in Names : n # x => BootView(d)[n] = BootView(l)[n]
  BY <1>9, <1>13, <1>15, BootSame
<1>17. ASSUME HeadsOf(l, x) = {} PROVE BootView(d)[x] = v
  <2>1. NvGetDataNvar(d, m, Len(d)) = m
    <3>1. ~NvIsVariable(d, d[m].next, Len(d))
      BY <1>2, <1>3 DEF NvIsVariable
    <3>2. m \in 1 .. Len(d) /\ Len(d) \in Nat
      BY <1>1, <1>3, <1>4
    <3> QED BY <3>1, <3>2, <1>13, FollowUnfold
  <2> QED BY <2>1, <1>2, <1>3, <1>12, <1>13, <1>17, BootFacts DEF Data
<1>18. ASSUME HeadsOf(l, x) # {} PROVE BootView(d)[x] = BootView(l)[x] /\ HeadsOf(d, x) # {}
  <2>1. HeadsOf(d, x) = HeadsOf(l, x)
    BY <1>10, <1>11, <1>18
  <2> QED BY <2>1, <1>13, <1>15, <1>18, BootSame
<1> QED BY <1>13, <1>14, <1>16, <1>17, <1>18

\* The last data record of variable x before pEndOfVars.
LastData(l, f, x) == NvGetDataNvar(l, Min(NvFindVariable(l, f, x)), f.end)

LEMMA LastDataFacts ==
  ASSUME NEW l, LogOK(l), NEW f, Usable(l, f), NEW x, HeadsOf(l, x) # {},
         Written(l, f) => l[f.end + 1].kind = "data"
  PROVE  /\ LastData(l, f, x) \in 1 .. f.end
         /\ Complete(l, LastData(l, f, x)) /\ l[LastData(l, f, x)].name = x
         /\ \A i \in HeadsOf(l, x) : /\ i \in 1 .. f.end /\ Complete(l, i) /\ l[i].name = x
                                     /\ LastData(l, f, x) = NvGetDataNvar(l, i, f.end)
<1> DEFINE e == f.end
           D == {j \in 1 .. e : Complete(l, j) /\ l[j].name = x}
<1>1. /\ e \in Nat /\ Len(l) \in Nat /\ e \in 1 .. Len(l)
      /\ \A i : NvIsVariable(l, i, e) <=> i \in 1 .. e /\ Complete(l, i)
      /\ NvFindVariable(l, f, x) = {i \in HeadsOf(l, x) : i <= e}
  BY UsableFacts
<1>2. \A i \in HeadsOf(l, x) : i \in 1 .. e /\ Complete(l, i) /\ l[i].name = x
  <2> TAKE i \in HeadsOf(l, x)
  <2>1. i \in 1 .. Len(l) /\ Complete(l, i) /\ l[i].name = x /\ l[i].kind = "head"
    BY DEF HeadsOf, Heads, NvIsValid
  <2>2. i <= e + 1
    BY <2>1 DEF Usable
  <2>3. i = e + 1 => Written(l, f)
    BY <2>1, <1>1 DEF Written
  <2> QED BY <2>1, <2>2, <2>3, <1>1
<1>3. PICK h \in HeadsOf(l, x) : TRUE
  OBVIOUS
<1>4. \A i \in HeadsOf(l, x) : i = h
  BY DEF HeadsOf, LogOK
<1>5. LastData(l, f, x) = NvGetDataNvar(l, h, e)
  <2>1. {i \in HeadsOf(l, x) : i <= e} \in SUBSET Nat /\ h \in {i \in HeadsOf(l, x) : i <= e}
    BY <1>1, <1>2
  <2>2. Min(NvFindVariable(l, f, x)) = h
    BY <2>1, <1>1, <1>4, MinOfOne
  <2> QED BY <2>2 DEF LastData
<1>6. SameLinks(l, e, l, e, D)
  <2>1. D \subseteq 1 .. Len(l)
    BY <1>1
  <2>2. ASSUME NEW j \in D, NvIsVariable(l, l[j].next, e) PROVE l[j].next \in D
    <3>1. l[j].next \in 1 .. e /\ Complete(l, l[j].next)
      BY <2>2, <1>1
    <3>2. LinkOK(l, j) /\ l[j].next # 0
      BY <2>1, <3>1, LogFacts
    <3>3. l[l[j].next].name = x
      BY <3>2 DEF LinkOK
    <3> QED BY <3>1, <3>3
  <2> HIDE DEF D
  <2> QED BY <2>1, <2>2 DEF SameLinks
<1>7. h \in D
  BY <1>2, <1>3
<1>8. NvGetDataNvar(l, h, e) \in D
  <2> HIDE DEF D, e
  <2> QED BY <1>1, <1>6, <1>7, FollowSame
<1> QED BY <1>2, <1>4, <1>5, <1>8

\* The link to new data makes it the data of the variable.
LEMMA LinkFacts ==
  ASSUME NEW l, LogOK(l), NEW f, Usable(l, f), f.end < Len(l), NEW x \in Names, NEW v \in Values,
         HeadsOf(l, x) # {}, l[f.end + 1] = Record("complete", "data", x, v),
         NEW d, Replaced(d, l, LastData(l, f, x), [l[LastData(l, f, x)] EXCEPT !.next = f.end + 1])
  PROVE  /\ LogOK(d) /\ Usable(d, f)
         /\ Len(d) = Len(l) /\ d[f.end + 1] = l[f.end + 1]
         /\ HeadsOf(d, x) # {}
         /\ \A n \in Names : n # x => BootView(d)[n] = BootView(l)[n]
         /\ BootView(d)[x] = v
<1> DEFINE e == f.end
           m == e + 1
           o == LastData(l, f, x)
           r == [l[o] EXCEPT !.next = m]
<1>1. /\ e \in Nat /\ Len(l) \in Nat /\ e < Len(l) /\ e \in 1 .. Len(l)
      /\ m \in 1 .. Len(l) /\ m \in Nat /\ f \in InfoType /\ f.first \in 1 .. e
      /\ \A i : NvIsVariable(l, i, e) <=> i \in 1 .. e /\ Complete(l, i)
  BY UsableFacts DEF Usable
<1>2. /\ l[m].state = "complete" /\ l[m].next = 0 /\ l[m].name = x /\ l[m].data = v
      /\ l[m].kind = "data"
  BY DEF Record
<1>3. /\ o \in 1 .. e /\ Complete(l, o) /\ l[o].name = x
      /\ \A i \in HeadsOf(l, x) : /\ i \in 1 .. e /\ Complete(l, i) /\ l[i].name = x
                                  /\ o = NvGetDataNvar(l, i, e)
  <2>1. Written(l, f) => l[f.end + 1].kind = "data"
    BY <1>2
  <2> QED BY <2>1, LastDataFacts
<1>4. o \in 1 .. Len(l) /\ o # m /\ o \in Nat
  BY <1>1, <1>3
<1> HIDE DEF o
<1>5. /\ r.state = l[o].state /\ r.next = m /\ r.name = l[o].name /\ r.data = l[o].data
      /\ r.valid = l[o].valid /\ r.kind = l[o].kind
  <2>1. l[o] \in RecordType
    BY <1>4, LogFacts
  <2> QED BY <2>1 DEF RecordType
<1> HIDE DEF r
<1>6. /\ d \in Seq(RecordType) /\ Len(d) = Len(l) /\ d[o] = r
      /\ \A i \in 1 .. Len(l) : i # o => d[i] = l[i]
  BY DEF Replaced, r, o
<1> HIDE DEF e, m
<1>7. \A i \in 1 .. Len(l) : /\ d[i].state = l[i].state /\ d[i].name = l[i].name
                             /\ d[i].data = l[i].data /\ d[i].kind = l[i].kind
                             /\ d[i].valid = l[i].valid
                             /\ d[i].next = IF i = o THEN m ELSE l[i].next
  BY <1>5, <1>6
<1>8. \A i \in 1 .. Len(l) : /\ Complete(d, i) <=> Complete(l, i)
                             /\ NvIsValid(d, i) <=> NvIsValid(l, i)
  BY <1>7 DEF Complete, NvIsValid
<1>9. Heads(d) = Heads(l)
  BY <1>6, <1>8 DEF Heads
<1>10. \A n : HeadsOf(d, n) = HeadsOf(l, n)
  <2>1. \A i \in Heads(l) : d[i].name = l[i].name
    BY <1>7 DEF Heads
  <2> QED BY <2>1, <1>9 DEF HeadsOf
<1>11. LogOK(d)
  <2>1. Len(d) >= 1 /\ Complete(d, 1)
    <3>1. Len(l) >= 1 /\ Complete(l, 1) /\ 1 \in 1 .. Len(l)
      BY <1>1 DEF LogOK
    <3> QED BY <3>1, <1>6, <1>8
  <2>2. \A i, j \in 1 .. Len(d) : Complete(d, i) /\ d[j].state = "torn" => i < j
    BY <1>6, <1>7, <1>8 DEF LogOK
  <2>3. ASSUME NEW i \in 1 .. Len(d) PROVE LinkOK(d, i)
    <3>1. LinkOK(l, i) /\ i \in 1 .. Len(l) /\ i \in Nat
      BY <1>6, LogFacts
    <3>2. CASE i = o
      <4>1. d[i].next = m /\ m \in (i + 1) .. Len(d) /\ d[i].name = x
        BY <3>1, <3>2, <1>1, <1>3, <1>6, <1>7 DEF m
      <4>2. Complete(d, m) /\ d[m].name = x
        BY <1>1, <1>2, <1>7, <1>8 DEF Complete
      <4> QED BY <4>1, <4>2 DEF LinkOK
    <3>3. CASE i # o /\ l[i].next = 0
      BY <3>1, <3>3, <1>7 DEF LinkOK
    <3>4. CASE i # o /\ l[i].next # 0
      <4>1. l[i].next \in (i + 1) .. Len(l) /\ Complete(l, l[i].next) /\ l[l[i].next].name = l[i].name
        BY <3>1, <3>4 DEF LinkOK
      <4>2. l[i].next \in 1 .. Len(l)
        BY <4>1, <3>1, <1>1
      <4> QED BY <3>1, <3>4, <4>1, <4>2, <1>6, <1>7, <1>8 DEF LinkOK
    <3> QED BY <3>2, <3>3, <3>4
  <2>4. ASSUME NEW i \in Heads(d), NEW j \in Heads(d), d[i].name = d[j].name PROVE i = j
    <3>1. i \in Heads(l) /\ j \in Heads(l) /\ i \in 1 .. Len(l) /\ j \in 1 .. Len(l)
      BY <1>9 DEF Heads
    <3>2. l[i].name = l[j].name
      BY <2>4, <3>1, <1>7
    <3> QED BY <3>1, <3>2 DEF LogOK
  <2>5. HeadsOf(d, setup) # {}
    BY <1>10 DEF LogOK
  <2> QED BY <1>6, <2>1, <2>2, <2>3, <2>4, <2>5 DEF LogOK
<1>12. Usable(d, f)
  <2>2. f.first \in 1 .. Len(l) /\ \A i \in 1 .. e : i \in 1 .. Len(l)
    BY <1>1
  <2>3. Complete(d, f.first) /\ \A i \in 1 .. e : d[i].state # "torn"
    BY <2>2, <1>7, <1>8 DEF Usable, e
  <2>4. \E i \in HeadsOf(d, setup) : i <= e
    BY <1>10 DEF Usable, e
  <2>5. \A i \in Heads(d) : i <= e => f.first <= i
    BY <1>9 DEF Usable, e
  <2>6. \A i \in 1 .. Len(d) : Complete(d, i) => i <= e + 1
    BY <1>6, <1>8 DEF Usable, e
  <2> QED BY <2>3, <2>4, <2>5, <2>6, <1>6 DEF Usable, e
<1>13. ASSUME NEW n \in Names, n # x PROVE BootView(d)[n] = BootView(l)[n]
  <2>1. SameRecords(l, d, n)
    BY <1>3, <1>6, <1>7, <1>8, <1>13 DEF SameRecords
  <2> QED BY <2>1, <1>10, <1>11, <1>13, BootSame
\* What led to the old data leads to the new data.
<1>14. NvGetDataNvar(d, m, Len(d)) = m
  <2>1. d[m].next = 0 /\ m \in 1 .. Len(d) /\ Len(d) \in Nat
    BY <1>1, <1>2, <1>4, <1>6, <1>7
  <2>2. ~NvIsVariable(d, d[m].next, Len(d))
    BY <2>1 DEF NvIsVariable
  <2> QED BY <2>1, <2>2, <1>11, FollowUnfold
<1>15. \A j : NvIsVariable(d, j, Len(d)) <=> j \in 1 .. Len(d) /\ Complete(d, j)
  <2>1. Len(d) \in 0 .. Len(d) /\ \A j \in 1 .. Len(d) : Complete(d, j) => j <= Len(d) + 1
    BY <1>1, <1>6
  <2> QED BY <2>1, <1>11, VariableIff
<1> DEFINE Good(j) == j <= e /\ NvGetDataNvar(l, j, e) = o => NvGetDataNvar(d, j, Len(d)) = m
           G == {j \in 1 .. Len(l) : Good(j)}
<1>16. ASSUME NEW j \in 1 .. Len(l), \A k \in 1 .. Len(l) : j < k => k \in G PROVE j \in G
  <2>1. SUFFICES ASSUME j <= e, NvGetDataNvar(l, j, e) = o PROVE NvGetDataNvar(d, j, Len(d)) = m
    BY <1>16
  <2>2. /\ NvGetDataNvar(l, j, e) =
             IF NvIsVariable(l, l[j].next, e) THEN NvGetDataNvar(l, l[j].next, e) ELSE j
        /\ NvGetDataNvar(d, j, Len(d)) =
             IF NvIsVariable(d, d[j].next, Len(d)) THEN NvGetDataNvar(d, d[j].next, Len(d)) ELSE j
    BY <1>1, <1>6, <1>11, FollowUnfold
  <2>3. CASE j = o
    <3>1. d[j].next = m /\ NvIsVariable(d, m, Len(d))
      BY <2>3, <1>1, <1>2, <1>4, <1>6, <1>7, <1>8, <1>15 DEF Complete
    <3> QED BY <2>2, <3>1, <1>14
  <2>4. CASE j # o
    <3>1. NvIsVariable(l, l[j].next, e) /\ NvGetDataNvar(l, l[j].next, e) = o
      BY <2>1, <2>2, <2>4
    <3> DEFINE k == l[j].next
    <3>2. k \in 1 .. e /\ Complete(l, k) /\ LinkOK(l, j) /\ k # 0
      BY <3>1, <1>1, LogFacts
    <3>3. k \in 1 .. Len(l) /\ j < k /\ k <= e
      BY <3>2, <1>1 DEF LinkOK
    <3>4. d[j].next = k /\ NvIsVariable(d, k, Len(d))
      BY <2>4, <3>2, <3>3, <1>6, <1>7, <1>8, <1>15
    <3>5. k \in G
      <4> HIDE DEF G, k
      <4> QED BY <3>3, <1>16
    <3>6. NvGetDataNvar(d, k, Len(d)) = m
      BY <3>1, <3>3, <3>5
    <3> HIDE DEF k
    <3> QED BY <2>2, <3>4, <3>6
  <2> QED BY <2>3, <2>4
<1>17. \A j \in 1 .. Len(l) : j \in G
  <2> HIDE DEF G
  <2>1. \A j \in 1 .. Len(l) : (\A k \in 1 .. Len(l) : j < k => k \in G) => j \in G
    BY <1>16
  <2> QED BY <1>1, <2>1, Downwards
<1>18. BootView(d)[x] = v
  <2>1. PICK i \in HeadsOf(l, x) : TRUE
    OBVIOUS
  <2>2. i \in 1 .. e /\ i \in 1 .. Len(l) /\ i <= e /\ NvGetDataNvar(l, i, e) = o
    BY <2>1, <1>1, <1>3
  <2>3. NvGetDataNvar(d, i, Len(d)) = m
    BY <2>2, <1>17
  <2>4. BootView(d)[x] = d[m].data
    BY <2>1, <2>3, <1>10, <1>11, BootFacts DEF Data
  <2> QED BY <2>4, <1>1, <1>2, <1>7
<1>19. d[m] = l[m] /\ HeadsOf(d, x) # {}
  BY <1>1, <1>4, <1>6, <1>10
<1> QED BY <1>6, <1>11, <1>12, <1>13, <1>18, <1>19 DEF m, e
------------------------------------------------------------------------------
(***************************************************************************)
(* The steps of the driver                                                 *)
(***************************************************************************)
LEMMA SetupFacts ==
  /\ setup \in Names /\ setup \in Preserved /\ Preserved \subseteq Names
  /\ setup \in Kept /\ Kept \subseteq Names
  /\ NoRequest \notin Calls /\ Absent \notin Values
BY SetupAssumption, LogAssumption DEF Kept

LEMMA RequestFacts ==
  ASSUME RequestInv, pc \in Busy
  PROVE  /\ req \in Calls /\ req # NoRequest /\ req.name \in Names
         /\ req.value \in Values \union {Absent}
         /\ req.value = Absent => req.name # setup
         /\ last = NoRequest
<1>1. req \in Calls /\ last = NoRequest
  BY DEF RequestInv, Busy
<1>2. req \in [name : Names, value : Values \union {Absent}] /\ req # NoRequest
  BY <1>1, LogAssumption
<1>3. req = [name |-> req.name, value |-> req.value]
  BY <1>2
<1>4. req.value = Absent => req.name # setup
  BY <1>1, <1>3, SetupAssumption
<1> QED BY <1>1, <1>2, <1>4

LEMMA IdleFacts ==
  ASSUME RequestInv, pc \in {"Off", "Idle"}
  PROVE  req = NoRequest /\ last \in Calls \union {NoRequest}
BY DEF RequestInv, Busy

\* A sound store has nothing after pEndOfVars.
LEMMA OkCovers ==
  ASSUME NEW l, LogOK(l), NEW f, Usable(l, f), IsStoreOk(l, f)
  PROVE  Covers(l, f)
<1>1. f.end = Len(l) /\ Len(l) \in Nat
  BY LogFacts DEF IsStoreOk
<1>2. \A i \in 1 .. Len(l) : Complete(l, i) => i <= f.end
  BY <1>1
<1> QED BY <1>2 DEF Covers

LEMMA CoversWritten ==
  ASSUME NEW l, LogOK(l), NEW f, Covers(l, f)
  PROVE  ~Written(l, f) /\ Usable(l, f)
<1>1. Usable(l, f) /\ \A i \in 1 .. Len(l) : Complete(l, i) => i <= f.end
  BY DEF Covers
<1>2. f.end \in Nat /\ Len(l) \in Nat
  BY <1>1, UsableFacts
<1>3. SUFFICES ASSUME Written(l, f) PROVE FALSE
  BY <1>1
<1>4. f.end + 1 \in 1 .. Len(l) /\ Complete(l, f.end + 1)
  BY <1>3, <1>2 DEF Written
<1> QED BY <1>4, <1>1, <1>2

LEMMA BootStep ==
  ASSUME LogInv, Boot
  PROVE  DriverInv' /\ Effect
<1>1. LogOK(log) /\ pc = "Off" /\ log' = log /\ info' = NvInitInfoBuffer(log) /\ pc' = "Idle"
      /\ req' = req /\ last' = last /\ SaveOnlyPreservedVars' = SaveOnlyPreservedVars
      /\ RequestInv /\ FlagInv
  BY DEF LogInv, DriverInv, Boot
<1>2. Covers(log, NvInitInfoBuffer(log))
  BY <1>1, InitCovers
<1>3. RequestInv' /\ req = NoRequest
  BY <1>1 DEF RequestInv, Busy
<1>4. LogOK(log') /\ Usable(log', info')
  BY <1>1, <1>2 DEF Covers
<1>5. InfoInv' /\ WriteInv'
  BY <1>1, <1>4 DEF InfoInv, WriteInv
<1>6. FlagInv'
  BY <1>1 DEF FlagInv
<1>7. Effect
  BY <1>1, <1>3 DEF Effect
<1> QED BY <1>3, <1>4, <1>5, <1>6, <1>7 DEF DriverInv

LEMMA CheckStep ==
  ASSUME LogInv, pc = "Idle", CheckStore
  PROVE  /\ LogOK(log') /\ Covers(log', info')
         /\ SaveOnlyPreservedVars' \in BOOLEAN
         /\ "SecondPass" \notin ShortOfMemory => SaveOnlyPreservedVars' = FALSE
         /\ \A n \in Names :
              \/ BootView(log')[n] = BootView(log)[n]
              \/ /\ n \notin Preserved /\ BootView(log')[n] = Absent
                 /\ "SecondPass" \in ShortOfMemory
<1> DEFINE f == NvInitInfoBuffer(log)
<1>1. /\ LogOK(log) /\ Usable(log, info) /\ SaveOnlyPreservedVars \in BOOLEAN
      /\ "SecondPass" \notin ShortOfMemory => SaveOnlyPreservedVars = FALSE
  BY DEF LogInv, DriverInv, InfoInv, FlagInv, RequestInv
<1>2. Covers(log, f)
  BY <1>1, InitCovers
<1>3. CASE IsStoreOk(log, info) /\ UNCHANGED <<log, info, SaveOnlyPreservedVars>>
  BY <1>1, <1>3, OkCovers
<1>4. CASE log' = log /\ info' = f /\ UNCHANGED SaveOnlyPreservedVars
  BY <1>1, <1>2, <1>4
<1>5. CASE CompactStore(f)
  <2>1. SaveOnlyPreservedVars' = FALSE
    BY <1>5 DEF CompactStore
  <2>2. CASE log' = log /\ info' = f
    BY <2>1, <2>2, <1>1, <1>2
  <2>3. CASE UpdateVarstore(CopyVariables(log, f, Kept))
    <3> DEFINE c == CopyVariables(log, f, Kept)
    <3>1. log' = c /\ info' = NvInitInfoBuffer(c)
      BY <2>3 DEF UpdateVarstore
    <3>2. ~Written(log, f) /\ Usable(log, f)
      BY <1>1, <1>2, CoversWritten
    <3>3. /\ LogOK(c)
          /\ \A n \in Names : n \notin Kept => BootView(c)[n] = Absent
          /\ \A n \in Names : n \in Kept => BootView(c)[n] = BootView(log)[n]
      BY <1>1, <3>2, SetupFacts, CompactFacts
    <3> HIDE DEF c
    <3>4. Covers(c, NvInitInfoBuffer(c))
      BY <3>3, InitCovers
    <3>5. \A n \in Names : n \notin Kept => n \notin Preserved /\ "SecondPass" \in ShortOfMemory
      BY <1>1 DEF Kept
    <3> QED BY <2>1, <3>1, <3>3, <3>4, <3>5
  <2> QED BY <1>5, <2>2, <2>3 DEF CompactStore
<1> QED BY <1>3, <1>4, <1>5 DEF CheckStore

LEMMA GetStep ==
  ASSUME LogInv, DxeGetVariable
  PROVE  DriverInv' /\ Effect
<1>1. /\ pc = "Idle" /\ CheckStore /\ pc' = pc /\ req' = req /\ last' = last
      /\ RequestInv
  BY DEF DxeGetVariable, LogInv, DriverInv
<1>2. /\ LogOK(log') /\ Usable(log', info') /\ SaveOnlyPreservedVars' \in BOOLEAN
      /\ "SecondPass" \notin ShortOfMemory => SaveOnlyPreservedVars' = FALSE
      /\ \A n \in Names :
           \/ BootView(log')[n] = BootView(log)[n]
           \/ /\ n \notin Preserved /\ BootView(log')[n] = Absent
              /\ "SecondPass" \in ShortOfMemory
  BY <1>1, CheckStep DEF Covers
<1>3. RequestInv' /\ req = NoRequest
  BY <1>1, <1>2 DEF RequestInv, Busy
<1>4. InfoInv' /\ WriteInv' /\ FlagInv'
  BY <1>1, <1>2 DEF InfoInv, WriteInv, FlagInv
<1>5. Effect
  BY <1>1, <1>2, <1>3 DEF Effect
<1> QED BY <1>2, <1>3, <1>4, <1>5 DEF DriverInv

LEMMA SetStep ==
  ASSUME LogInv, NEW r \in Calls, DxeSetVariable(r)
  PROVE  DriverInv' /\ Effect
<1>1. /\ pc = "Idle" /\ CheckStore /\ pc' = "Set" /\ req' = r /\ last' = NoRequest
  BY DEF DxeSetVariable
<1>2. /\ LogOK(log') /\ Covers(log', info') /\ Usable(log', info')
      /\ SaveOnlyPreservedVars' \in BOOLEAN
      /\ "SecondPass" \notin ShortOfMemory => SaveOnlyPreservedVars' = FALSE
      /\ \A n \in Names :
           \/ BootView(log')[n] = BootView(log)[n]
           \/ /\ n \notin Preserved /\ BootView(log')[n] = Absent
              /\ "SecondPass" \in ShortOfMemory
  BY <1>1, CheckStep DEF Covers
<1>3. RequestInv'
  BY <1>1, <1>2 DEF RequestInv, Busy
<1>4. InfoInv' /\ WriteInv' /\ FlagInv'
  BY <1>1, <1>2 DEF InfoInv, WriteInv, FlagInv
<1>5. Effect
  BY <1>1, <1>2 DEF Effect
<1> QED BY <1>2, <1>3, <1>4, <1>5 DEF DriverInv

\* A step that ends the call: what is left to show about it.
LEMMA ReturnStep ==
  ASSUME NEW ok \in BOOLEAN, Return(ok), RequestInv, pc \in Busy, LogOK(log'), Usable(log', info'),
         SaveOnlyPreservedVars' \in BOOLEAN,
         "SecondPass" \notin ShortOfMemory => SaveOnlyPreservedVars' = FALSE
  PROVE  DriverInv' /\ last' = IF ok THEN req ELSE NoRequest
<1>1. pc' = "Idle" /\ req' = NoRequest /\ last' = IF ok THEN req ELSE NoRequest
  BY DEF Return
<1>2. last' \in Calls \union {NoRequest}
  BY <1>1, RequestFacts
<1>3. RequestInv'
  BY <1>1, <1>2 DEF RequestInv, Busy
<1>4. InfoInv' /\ WriteInv' /\ FlagInv'
  BY <1>1 DEF InfoInv, WriteInv, FlagInv
<1> QED BY <1>1, <1>3, <1>4 DEF DriverInv

\* The state in which the request is looked at.
LEMMA SetFacts ==
  ASSUME LogInv, pc \in {"Set", "Body"}
  PROVE  /\ LogOK(log) /\ Covers(log, info) /\ Usable(log, info) /\ RequestInv /\ pc \in Busy
         /\ SaveOnlyPreservedVars \in BOOLEAN
         /\ "SecondPass" \notin ShortOfMemory => SaveOnlyPreservedVars = FALSE
         /\ req.name \in Names /\ req.value \in Values \union {Absent}
         /\ Var = HeadsOf(log, req.name)
         /\ \A i \in HeadsOf(log, req.name) :
              /\ Min(Var) = i
              /\ OldData \in 1 .. info.end /\ log[OldData].name = req.name
              /\ BootView(log)[req.name] = log[OldData].data
<1>1. /\ LogOK(log) /\ Covers(log, info) /\ Usable(log, info) /\ RequestInv /\ pc \in Busy
      /\ SaveOnlyPreservedVars \in BOOLEAN
      /\ "SecondPass" \notin ShortOfMemory => SaveOnlyPreservedVars = FALSE
  BY DEF LogInv, DriverInv, InfoInv, Busy, FlagInv, RequestInv
<1>2. req.name \in Names /\ req.value \in Values \union {Absent}
  BY <1>1, RequestFacts
<1>3. Var = HeadsOf(log, req.name)
  BY <1>1, CoversFacts DEF Var
<1>4. ASSUME NEW i \in HeadsOf(log, req.name)
      PROVE  /\ Min(Var) = i
             /\ OldData \in 1 .. info.end /\ log[OldData].name = req.name
             /\ BootView(log)[req.name] = log[OldData].data
  <2>1. /\ Min(Var) = i
        /\ NvGetDataNvar(log, i, info.end) = NvGetDataNvar(log, i, Len(log))
        /\ NvGetDataNvar(log, i, info.end) \in 1 .. info.end
        /\ log[NvGetDataNvar(log, i, info.end)].name = req.name
    BY <1>1, <1>2, <1>3, ViewFacts
  <2>2. OldData = NvGetDataNvar(log, i, info.end)
    BY <2>1 DEF OldData
  <2>3. BootView(log)[req.name] = Data(log, i)
    BY <1>1, <1>2, BootFacts
  <2> QED BY <2>1, <2>2, <2>3 DEF Data
<1> QED BY <1>1, <1>2, <1>3, <1>4

LEMMA DeleteStep ==
  ASSUME LogInv, DeleteMissing \/ DeleteVariable
  PROVE  DriverInv' /\ Effect
<1>1. pc = "Set" /\ req.value = Absent /\ info' = info /\ SaveOnlyPreservedVars' = SaveOnlyPreservedVars
  BY DEF DeleteMissing, DeleteVariable
<1>2. /\ LogOK(log) /\ Covers(log, info) /\ Usable(log, info) /\ RequestInv /\ pc \in Busy
      /\ SaveOnlyPreservedVars \in BOOLEAN
      /\ "SecondPass" \notin ShortOfMemory => SaveOnlyPreservedVars = FALSE
      /\ req.name \in Names
      /\ Var = HeadsOf(log, req.name)
      /\ \A i \in HeadsOf(log, req.name) : Min(Var) = i
  BY <1>1, SetFacts
<1>3. req.name # setup
  BY <1>1, <1>2, RequestFacts
<1>4. CASE log' = log /\ Return(FALSE)
  <2>1. DriverInv' /\ last' = NoRequest
    BY <1>1, <1>2, <1>4, ReturnStep
  <2> QED BY <2>1, <1>4 DEF Effect
<1>5. CASE Var # {} /\ log' = [log EXCEPT ![Min(Var)].valid = FALSE] /\ \E ok \in BOOLEAN : Return(ok)
  <2>1. PICK m \in HeadsOf(log, req.name) : Min(Var) = m
    BY <1>2, <1>5
  <2>2. log' = Deleted(log, m)
    BY <1>5, <2>1 DEF Deleted
  <2>3. /\ LogOK(log') /\ Covers(log', info)
        /\ BootView(log')[req.name] = Absent
        /\ \A n \in Names : n # req.name => BootView(log')[n] = BootView(log)[n]
    BY <2>2, <1>2, <1>3, DeleteFacts
  <2>4. PICK ok \in BOOLEAN : Return(ok)
    BY <1>5
  <2>5. Usable(log', info')
    BY <2>3, <1>1 DEF Covers
  <2>6. DriverInv' /\ last' = IF ok THEN req ELSE NoRequest
    BY <1>1, <1>2, <2>3, <2>4, <2>5, ReturnStep
  <2>7. req # NoRequest
    BY <1>2, RequestFacts
  <2>8. Effect
    BY <2>3, <2>6, <2>7, <1>1 DEF Effect
  <2> QED BY <2>6, <2>8
<1> QED BY <1>4, <1>5 DEF DeleteMissing, DeleteVariable

LEMMA SameDataStep ==
  ASSUME LogInv, SameData
  PROVE  DriverInv' /\ Effect
<1>1. /\ pc = "Set" /\ Var # {} /\ log[OldData].data = req.value /\ Return(TRUE)
      /\ log' = log /\ info' = info /\ SaveOnlyPreservedVars' = SaveOnlyPreservedVars
  BY DEF SameData
<1>2. /\ LogOK(log) /\ Usable(log, info) /\ RequestInv /\ pc \in Busy
      /\ SaveOnlyPreservedVars \in BOOLEAN
      /\ "SecondPass" \notin ShortOfMemory => SaveOnlyPreservedVars = FALSE
      /\ BootView(log)[req.name] = log[OldData].data
  BY <1>1, SetFacts
<1>3. DriverInv' /\ last' = req
  BY <1>1, <1>2, ReturnStep
<1> QED BY <1>1, <1>2, <1>3 DEF Effect

LEMMA NoSpaceStep ==
  ASSUME LogInv, NoSpace
  PROVE  DriverInv' /\ Effect
<1>1. /\ pc = "Set" /\ req.value # Absent /\ pc' = "Recover" /\ req' = req /\ last' = last
      /\ log' = log /\ info' = info /\ SaveOnlyPreservedVars' = SaveOnlyPreservedVars
  BY DEF NoSpace, Writing, Continue
<1>2. /\ LogOK(log) /\ Covers(log, info) /\ Usable(log, info) /\ RequestInv /\ pc \in Busy
      /\ "SecondPass" \notin ShortOfMemory => SaveOnlyPreservedVars = FALSE
  BY <1>1, SetFacts
<1>3. ~Written(log, info)
  BY <1>2, CoversWritten
<1>4. RequestInv' /\ last = NoRequest
  BY <1>1, <1>2, RequestFacts DEF RequestInv, Busy
<1>5. InfoInv' /\ FlagInv'
  BY <1>1, <1>2 DEF InfoInv, FlagInv
<1>6. WriteInv'
  BY <1>1, <1>3 DEF WriteInv, Written, Complete
<1>7. LogOK(log)'
  BY <1>1, <1>2
<1> QED BY <1>1, <1>4, <1>5, <1>6, <1>7 DEF Effect, DriverInv
\* RecoverFromFlashUpdateFailure, after a write that left the log d.
LEMMA FailStep ==
  ASSUME RequestInv, FlagInv, pc \in {"Set", "Body", "Link"}, req.value # Absent,
         NEW d, LogOK(d), Usable(d, info), Written(d, info) => d[info.end + 1].name = req.name,
         RecoverFromFlashUpdateFailure(d)
  PROVE  DriverInv' /\ log' = d /\ last' = NoRequest
<1> DEFINE g == [info EXCEPT !.end = @ + 1]
<1>1. /\ log' = d /\ SaveOnlyPreservedVars' = SaveOnlyPreservedVars /\ pc \in Busy
      /\ IF IsStoreOk(log', info') THEN Return(FALSE) ELSE Continue("Recover")
  BY DEF RecoverFromFlashUpdateFailure, Busy
<1>2. SaveOnlyPreservedVars' \in BOOLEAN
      /\ ("SecondPass" \notin ShortOfMemory => SaveOnlyPreservedVars' = FALSE)
  BY <1>1 DEF RequestInv, FlagInv
<1>3. info \in InfoType /\ info.end \in Nat /\ Len(d) \in Nat
  BY UsableFacts DEF Usable
<1>4. Usable(d, info') /\ (Written(d, info') => d[info'.end + 1].name = req.name)
  <2>1. CASE Len(d) > info.end /\ IsHole(d[info.end + 1])
    <3>1. info' = g
      BY <2>1, <1>3 DEF RecoverFromFlashUpdateFailure, InfoType
    <3>2. info.end < Len(d) /\ d[info.end + 1].state # "torn"
      BY <2>1, <1>3 DEF IsHole
    <3>3. Covers(d, g)
      BY <3>2, AdvanceFacts
    <3> HIDE DEF g
    <3> QED BY <3>1, <3>3, CoversWritten
  <2>2. CASE ~(Len(d) > info.end /\ IsHole(d[info.end + 1]))
    <3>1. info' = info
      BY <2>2, <1>3 DEF RecoverFromFlashUpdateFailure, InfoType
    <3> QED BY <3>1
  <2> QED BY <2>1, <2>2
<1>5. CASE IsStoreOk(log', info')
  <2>1. Return(FALSE) /\ LogOK(log') /\ Usable(log', info')
    BY <1>1, <1>4, <1>5
  <2> QED BY <2>1, <1>1, <1>2, ReturnStep
<1>6. CASE ~IsStoreOk(log', info')
  <2>1. pc' = "Recover" /\ req' = req /\ last' = last /\ last = NoRequest
    BY <1>1, <1>6, RequestFacts DEF Continue
  <2>2. RequestInv'
    BY <2>1, <1>1, <1>2 DEF RequestInv, Busy
  <2>3. InfoInv' /\ FlagInv' /\ LogOK(log)'
    BY <2>1, <1>1, <1>2, <1>4 DEF InfoInv, FlagInv
  <2>4. WriteInv'
    BY <2>1, <1>1, <1>4 DEF WriteInv, Written, Complete
  <2> QED BY <2>1, <2>2, <2>3, <2>4, <1>1 DEF DriverInv
<1> QED BY <1>5, <1>6

LEMMA NewVarFacts ==
  ASSUME LogInv, pc \in {"Set", "Body"}, req.value # Absent
  PROVE  /\ \A st : NewVar(st) = Record(st, IF HeadsOf(log, req.name) = {} THEN "head" ELSE "data",
                                        req.name, req.value)
         /\ \A st \in {"torn", "incomplete", "complete"} :
              NewVar(st) \in RecordType /\ NewVar(st).state = st /\ NewVar(st).next = 0
<1>1. req.name \in Names /\ req.value \in Values /\ Var = HeadsOf(log, req.name)
  BY SetFacts
<1>2. \A st : NewVar(st) = Record(st, IF HeadsOf(log, req.name) = {} THEN "head" ELSE "data",
                                  req.name, req.value)
  BY <1>1 DEF NewVar
<1>3. ASSUME NEW st \in {"torn", "incomplete", "complete"}
      PROVE  NewVar(st) \in RecordType /\ NewVar(st).state = st /\ NewVar(st).next = 0
  <2>1. PICK k \in {"head", "data"} : NewVar(st) = Record(st, k, req.name, req.value)
    BY <1>2
  <2>2. /\ Record(st, k, req.name, req.value) \in RecordType
        /\ Record(st, k, req.name, req.value).state = st
        /\ Record(st, k, req.name, req.value).next = 0
    BY <1>1 DEF Record, RecordType
  <2> QED BY <2>1, <2>2
<1> QED BY <1>2, <1>3

LEMMA HeaderStep ==
  ASSUME LogInv, WriteHeader \/ HeaderFails \/ HeaderRefused
  PROVE  DriverInv' /\ Effect
<1>1. pc = "Set" /\ req.value # Absent
  BY DEF WriteHeader, HeaderFails, HeaderRefused, Writing
<1>2. /\ LogOK(log) /\ Covers(log, info) /\ Usable(log, info) /\ RequestInv /\ pc \in Busy
      /\ "SecondPass" \notin ShortOfMemory => SaveOnlyPreservedVars = FALSE
      /\ req.name \in Names
  BY <1>1, SetFacts
<1>3. FlagInv /\ last = NoRequest
  BY <1>2, RequestFacts DEF LogInv, DriverInv
<1>4. ASSUME NEW st \in {"torn", "incomplete"}
      PROVE  /\ LogOK(Programmed(NewVar(st))) /\ Covers(Programmed(NewVar(st)), info)
             /\ info.end < Len(Programmed(NewVar(st)))
             /\ Programmed(NewVar(st))[info.end + 1] = NewVar(st)
             /\ \A n : HeadsOf(Programmed(NewVar(st)), n) = HeadsOf(log, n)
             /\ \A n \in Names : BootView(Programmed(NewVar(st)))[n] = BootView(log)[n]
  <2>1. NewVar(st) \in RecordType /\ NewVar(st).state # "complete" /\ NewVar(st).next = 0
    BY <1>1, NewVarFacts
  <2> QED BY <2>1, <1>2, ProgramFacts
<1>5. ASSUME NEW d, LogOK(d), Covers(d, info), RecoverFromFlashUpdateFailure(d),
             \A n \in Names : BootView(d)[n] = BootView(log)[n]
      PROVE  DriverInv' /\ Effect
  <2>1. ~Written(d, info) /\ Usable(d, info)
    BY <1>5, CoversWritten
  <2>2. DriverInv' /\ log' = d /\ last' = NoRequest
    BY <2>1, <1>1, <1>2, <1>3, <1>5, FailStep
  <2>3. Effect
    BY <2>2, <1>5 DEF Effect
  <2> QED BY <2>2, <2>3
<1>6. CASE HeaderFails
  <2>1. PICK d \in {log, Programmed(NewVar("torn")), Programmed(NewVar("incomplete"))} :
          RecoverFromFlashUpdateFailure(d)
    BY <1>6 DEF HeaderFails
  <2>2. /\ LogOK(d) /\ Covers(d, info)
        /\ \A n \in Names : BootView(d)[n] = BootView(log)[n]
    <3>1. CASE d = log
      BY <3>1, <1>2
    <3>2. CASE d = Programmed(NewVar("torn"))
      BY <3>2, <1>4
    <3>3. CASE d = Programmed(NewVar("incomplete"))
      BY <3>3, <1>4
    <3> QED BY <2>1, <3>1, <3>2, <3>3
  <2> QED BY <2>1, <2>2, <1>5
<1>7. CASE HeaderRefused
  <2>1. RecoverFromFlashUpdateFailure(log)
    BY <1>7 DEF HeaderRefused
  <2> QED BY <2>1, <1>2, <1>5
<1>8. CASE WriteHeader
  <2> DEFINE r == NewVar("incomplete")
             d == Programmed(r)
  <2>1. /\ log' = d /\ info' = info /\ pc' = "Body" /\ req' = req /\ last' = last
        /\ SaveOnlyPreservedVars' = SaveOnlyPreservedVars
    BY <1>8 DEF WriteHeader, Continue
  <2>2. /\ LogOK(d) /\ Covers(d, info) /\ info.end < Len(d) /\ d[info.end + 1] = r
        /\ \A n : HeadsOf(d, n) = HeadsOf(log, n)
        /\ \A n \in Names : BootView(d)[n] = BootView(log)[n]
    BY <1>4
  <2>3. r = Record("incomplete", IF HeadsOf(d, req.name) = {} THEN "head" ELSE "data",
                   req.name, req.value)
    BY <1>1, <2>2, NewVarFacts
  <2> HIDE DEF d, r
  <2>4. Covers(d, info) /\ Usable(d, info)
    BY <2>2 DEF Covers
  <2>5. RequestInv'
    BY <2>1, <1>1, <1>2 DEF RequestInv, Busy
  <2>6. InfoInv' /\ FlagInv' /\ LogOK(log)'
    BY <2>1, <2>2, <2>4, <1>2 DEF InfoInv, FlagInv
  <2>7. WriteInv'
    BY <2>1, <2>2, <2>3 DEF WriteInv
  <2>8. Effect
    BY <2>1, <2>2, <1>3 DEF Effect
  <2> QED BY <2>5, <2>6, <2>7, <2>8 DEF DriverInv
<1> QED BY <1>6, <1>7, <1>8

LEMMA SignedRecord ==
  ASSUME NEW k, NEW n, NEW v
  PROVE  [Record("incomplete", k, n, v) EXCEPT !.state = "complete"] = Record("complete", k, n, v)
<1> DEFINE a == Record("incomplete", k, n, v)
           b == [a EXCEPT !.state = "complete"]
           T(s) == [state : {s}, kind : {k}, valid : {TRUE}, name : {n}, data : {v}, next : {0}]
<1>1. a \in T("incomplete")
  BY DEF Record
<1>2. b \in T("complete")
  <2> HIDE DEF a
  <2> QED BY <1>1
<1>3. ASSUME NEW r \in T("complete")
      PROVE  r = Record("complete", k, n, v)
  <2>1. r = [state |-> r.state, kind |-> r.kind, valid |-> r.valid, name |-> r.name,
             data |-> r.data, next |-> r.next]
    OBVIOUS
  <2>2. /\ r.state = "complete" /\ r.kind = k /\ r.valid = TRUE
        /\ r.name = n /\ r.data = v /\ r.next = 0
    OBVIOUS
  <2> HIDE DEF a, b, T
  <2> QED BY <2>1, <2>2 DEF Record
<1> HIDE DEF b, T
<1>4. b = Record("complete", k, n, v)
  BY <1>2, <1>3
<1> QED BY <1>4 DEF b

\* The state before the signature is written, and the log with the signature.
LEMMA BodyFacts ==
  ASSUME LogInv, pc = "Body"
  PROVE  /\ LogOK(log) /\ Covers(log, info) /\ Usable(log, info) /\ RequestInv /\ FlagInv
         /\ pc \in Busy /\ last = NoRequest /\ info.end < Len(log)
         /\ SaveOnlyPreservedVars \in BOOLEAN
         /\ "SecondPass" \notin ShortOfMemory => SaveOnlyPreservedVars = FALSE
         /\ req # NoRequest /\ req.name \in Names /\ req.value \in Values /\ req.value # Absent
         /\ Var = HeadsOf(log, req.name)
         /\ LogOK(Signed) /\ Usable(Signed, info) /\ Len(Signed) = Len(log)
         /\ Signed[info.end + 1] =
              Record("complete", IF Var = {} THEN "head" ELSE "data", req.name, req.value)
         /\ \A n \in Names : n # req.name => BootView(Signed)[n] = BootView(log)[n]
         /\ Var = {} => BootView(Signed)[req.name] = req.value
         /\ Var # {} => /\ BootView(Signed)[req.name] = BootView(log)[req.name]
                        /\ HeadsOf(Signed, req.name) # {}
         /\ \A i \in 1 .. info.end : Signed[i] = log[i]
         /\ \A i \in 1 .. Len(log) : Signed[i].data = log[i].data
<1> DEFINE k == IF HeadsOf(log, req.name) = {} THEN "head" ELSE "data"
           x == req.name
           v == req.value
           m == info.end + 1
           r == Record("complete", k, x, v)
           d == Signed
<1>1. /\ LogOK(log) /\ Covers(log, info) /\ Usable(log, info) /\ RequestInv /\ FlagInv
      /\ pc \in Busy /\ SaveOnlyPreservedVars \in BOOLEAN
      /\ "SecondPass" \notin ShortOfMemory => SaveOnlyPreservedVars = FALSE
      /\ Var = HeadsOf(log, req.name)
  BY SetFacts DEF LogInv, DriverInv
<1>2. /\ last = NoRequest /\ req # NoRequest /\ x \in Names /\ v \in Values /\ v # Absent
  BY <1>1, RequestFacts DEF RequestInv, Busy
<1>3. info.end < Len(log) /\ log[m] = Record("incomplete", k, x, v)
  BY DEF LogInv, DriverInv, WriteInv
<1>4. m \in 1 .. Len(log) /\ log \in Seq(RecordType)
  <2>1. info.end \in Nat /\ Len(log) \in Nat
    BY <1>1, UsableFacts
  <2> QED BY <2>1, <1>1, <1>3 DEF LogOK
<1>5. k \in {"head", "data"}
  OBVIOUS
<1> HIDE DEF k, x, v
<1>6. r \in RecordType /\ r = [log[m] EXCEPT !.state = "complete"]
  <2>1. Record("complete", k, x, v) = [Record("incomplete", k, x, v) EXCEPT !.state = "complete"]
    BY SignedRecord
  <2>2. Record("complete", k, x, v) \in RecordType
    BY <1>2, <1>5 DEF Record, RecordType
  <2> QED BY <2>1, <2>2, <1>3
<1>7. d = [log EXCEPT ![m] = r]
  BY <1>4, <1>6 DEF Signed
<1> HIDE DEF r, d, m
<1>8. Replaced(d, log, m, r)
  BY <1>4, <1>6, <1>7, ReplaceFacts
<1>9. Len(d) = Len(log) /\ d[m] = r
  BY <1>8 DEF Replaced
<1>10. /\ LogOK(d) /\ Usable(d, info)
       /\ \A n \in Names : n # x => BootView(d)[n] = BootView(log)[n]
       /\ HeadsOf(log, x) = {} => BootView(d)[x] = v
       /\ HeadsOf(log, x) # {} => BootView(d)[x] = BootView(log)[x] /\ HeadsOf(d, x) # {}
  BY <1>1, <1>2, <1>3, <1>8, SignFacts DEF m, r, k, x
<1>11. \A i \in 1 .. info.end : d[i] = log[i]
  <2>1. \A i \in 1 .. info.end : i \in 1 .. Len(log) /\ i # m
    BY <1>1, <1>3, UsableFacts DEF m
  <2> QED BY <2>1, <1>8 DEF Replaced
<1>12. \A i \in 1 .. Len(log) : d[i].data = log[i].data
  <2>1. r.data = v /\ log[m].data = v
    BY <1>3 DEF Record, r
  <2> QED BY <2>1, <1>8 DEF Replaced
<1> QED BY <1>1, <1>2, <1>3, <1>9, <1>10, <1>11, <1>12 DEF d, m, r, k, x, v

LEMMA NewVarStep ==
  ASSUME LogInv, WriteNewVar
  PROVE  DriverInv' /\ Effect
<1> DEFINE d == Signed
           g == [info EXCEPT !.end = @ + 1]
<1>1. /\ pc = "Body" /\ Var = {} /\ log' = d /\ info' = g /\ Return(TRUE)
      /\ SaveOnlyPreservedVars' = SaveOnlyPreservedVars
  BY DEF WriteNewVar
<1>2. /\ RequestInv /\ pc \in Busy /\ SaveOnlyPreservedVars \in BOOLEAN
      /\ "SecondPass" \notin ShortOfMemory => SaveOnlyPreservedVars = FALSE
      /\ req # NoRequest /\ info.end < Len(d)
      /\ LogOK(d) /\ Usable(d, info)
      /\ d[info.end + 1] = Record("complete", "head", req.name, req.value)
      /\ \A n \in Names : n # req.name => BootView(d)[n] = BootView(log)[n]
      /\ BootView(d)[req.name] = req.value
  BY <1>1, BodyFacts
<1> HIDE DEF d
<1>3. Usable(d, g)
  <2>1. d[info.end + 1].state # "torn"
    BY <1>2 DEF Record
  <2> QED BY <2>1, <1>2, AdvanceFacts DEF Covers
<1> HIDE DEF g
<1>4. DriverInv' /\ last' = req
  BY <1>1, <1>2, <1>3, ReturnStep
<1> QED BY <1>1, <1>2, <1>4 DEF Effect

LEMMA NewDataStep ==
  ASSUME LogInv, WriteNewData
  PROVE  DriverInv' /\ Effect
<1> DEFINE d == Signed
<1>1. /\ pc = "Body" /\ Var # {} /\ log' = d /\ info' = info
      /\ pc' = "Link" /\ req' = req /\ last' = last
      /\ SaveOnlyPreservedVars' = SaveOnlyPreservedVars
  BY DEF WriteNewData, Continue
<1>2. /\ RequestInv /\ pc \in Busy /\ SaveOnlyPreservedVars \in BOOLEAN
      /\ "SecondPass" \notin ShortOfMemory => SaveOnlyPreservedVars = FALSE
      /\ last = NoRequest /\ req # NoRequest /\ info.end < Len(d)
      /\ LogOK(d) /\ Usable(d, info)
      /\ d[info.end + 1] = Record("complete", "data", req.name, req.value)
      /\ \A n \in Names : n # req.name => BootView(d)[n] = BootView(log)[n]
      /\ HeadsOf(d, req.name) # {} /\ req.value # Absent
  BY <1>1, BodyFacts
<1> HIDE DEF d
<1>3. RequestInv'
  BY <1>1, <1>2 DEF RequestInv, Busy
<1>4. InfoInv' /\ FlagInv' /\ WriteInv' /\ LogOK(log)'
  BY <1>1, <1>2 DEF InfoInv, FlagInv, WriteInv
<1>5. Effect
  BY <1>1, <1>2 DEF Effect
<1> QED BY <1>3, <1>4, <1>5 DEF DriverInv

LEMMA BodyFailsStep ==
  ASSUME LogInv, BodyFails
  PROVE  DriverInv' /\ Effect
<1>1. pc = "Body"
  BY DEF BodyFails
<1>2. PICK d : d \in {log, Signed} /\ RecoverFromFlashUpdateFailure(d)
  BY DEF BodyFails
<1>3. /\ RequestInv /\ FlagInv /\ req # NoRequest /\ req.value # Absent
      /\ LogOK(log) /\ Covers(log, info) /\ LogOK(Signed) /\ Usable(Signed, info)
      /\ Signed[info.end + 1].name = req.name
      /\ \A n \in Names : n # req.name => BootView(Signed)[n] = BootView(log)[n]
  BY <1>1, BodyFacts DEF Record
<1>4. ~Written(log, info) /\ Usable(log, info)
  BY <1>3, CoversWritten
<1>5. /\ LogOK(d) /\ Usable(d, info) /\ (Written(d, info) => d[info.end + 1].name = req.name)
      /\ \A n \in Names : n # req.name => BootView(d)[n] = BootView(log)[n]
  <2>1. CASE d = log
    BY <2>1, <1>3, <1>4
  <2>2. CASE d = Signed
    BY <2>2, <1>3
  <2> QED BY <1>2, <2>1, <2>2
<1>6. DriverInv' /\ log' = d /\ last' = NoRequest
  BY <1>1, <1>2, <1>3, <1>5, FailStep
<1> QED BY <1>3, <1>5, <1>6 DEF Effect

\* The state before the link is written, and the log with the link.
LEMMA LinkStateFacts ==
  ASSUME LogInv, pc = "Link"
  PROVE  /\ LogOK(log) /\ Usable(log, info) /\ RequestInv /\ FlagInv
         /\ pc \in Busy /\ last = NoRequest /\ info.end < Len(log)
         /\ SaveOnlyPreservedVars \in BOOLEAN
         /\ "SecondPass" \notin ShortOfMemory => SaveOnlyPreservedVars = FALSE
         /\ req # NoRequest /\ req.name \in Names /\ req.value \in Values /\ req.value # Absent
         /\ log[info.end + 1].name = req.name /\ log[info.end + 1].state = "complete"
         /\ LogOK(Linked) /\ Usable(Linked, info) /\ Len(Linked) = Len(log)
         /\ Linked[info.end + 1] = log[info.end + 1]
         /\ \A n \in Names : n # req.name => BootView(Linked)[n] = BootView(log)[n]
         /\ BootView(Linked)[req.name] = req.value
         /\ \A i \in 1 .. Len(log) : Linked[i].data = log[i].data
<1> DEFINE x == req.name
           v == req.value
           m == info.end + 1
           o == LastData(log, info, x)
           r == [log[o] EXCEPT !.next = m]
           d == Linked
<1>1. /\ LogOK(log) /\ Usable(log, info) /\ RequestInv /\ FlagInv
      /\ pc \in Busy /\ SaveOnlyPreservedVars \in BOOLEAN
      /\ "SecondPass" \notin ShortOfMemory => SaveOnlyPreservedVars = FALSE
  BY DEF LogInv, DriverInv, InfoInv, FlagInv, RequestInv, Busy
<1>2. last = NoRequest /\ req # NoRequest /\ x \in Names /\ v \in Values /\ v # Absent
  BY <1>1, RequestFacts DEF RequestInv, Busy
<1>3. info.end < Len(log) /\ log[m] = Record("complete", "data", x, v) /\ HeadsOf(log, x) # {}
  BY DEF LogInv, DriverInv, WriteInv
<1>4. log[m].name = x /\ log[m].state = "complete" /\ log[m].kind = "data"
  BY <1>3 DEF Record
<1>5. /\ info.end \in Nat /\ Len(log) \in Nat /\ m \in Nat /\ log \in Seq(RecordType)
      /\ info.end \in 1 .. Len(log)
  BY <1>1, UsableFacts DEF LogOK
<1>6. o \in 1 .. info.end
  <2> HIDE DEF x
  <2> QED BY <1>1, <1>3, <1>4, LastDataFacts
<1>7. o = OldData /\ o \in 1 .. Len(log)
  BY <1>5, <1>6 DEF LastData, OldData, Var
<1> HIDE DEF o
<1>8. r \in RecordType
  <2>1. log[o] \in RecordType
    BY <1>1, <1>7, LogFacts
  <2> QED BY <2>1, <1>5 DEF RecordType
<1>9. d = [log EXCEPT ![o] = r]
  BY <1>5, <1>7 DEF Linked
<1> HIDE DEF d
<1>10. Replaced(d, log, o, r)
  <2> HIDE DEF r
  <2> QED BY <1>5, <1>7, <1>8, <1>9, ReplaceFacts
<1>11. /\ LogOK(d) /\ Usable(d, info) /\ Len(d) = Len(log) /\ d[m] = log[m]
       /\ \A n \in Names : n # x => BootView(d)[n] = BootView(log)[n]
       /\ BootView(d)[x] = v
  <2>1. Replaced(d, log, LastData(log, info, x), [log[LastData(log, info, x)] EXCEPT !.next = info.end + 1])
    BY <1>10 DEF o
  <2> HIDE DEF x, v
  <2> QED BY <1>1, <1>2, <1>3, <2>1, LinkFacts
<1>12. \A i \in 1 .. Len(log) : d[i].data = log[i].data
  <2> TAKE i \in 1 .. Len(log)
  <2>2. CASE i = o
    <3>1. log[o] \in RecordType
      BY <1>1, <1>7, LogFacts
    <3>2. r.data = log[o].data
      BY <3>1 DEF RecordType
    <3> QED BY <2>2, <3>2, <1>10 DEF Replaced
  <2>3. CASE i # o
    BY <2>3, <1>10 DEF Replaced
  <2> QED BY <2>2, <2>3
<1> QED BY <1>1, <1>2, <1>3, <1>4, <1>11, <1>12 DEF d

LEMMA LinkStep ==
  ASSUME LogInv, WriteNext
  PROVE  DriverInv' /\ Effect
<1> DEFINE d == Linked
           g == [info EXCEPT !.end = @ + 1]
<1>1. /\ pc = "Link" /\ log' = d /\ info' = g /\ Return(TRUE)
      /\ SaveOnlyPreservedVars' = SaveOnlyPreservedVars
  BY DEF WriteNext
<1>2. /\ RequestInv /\ pc \in Busy /\ SaveOnlyPreservedVars \in BOOLEAN
      /\ "SecondPass" \notin ShortOfMemory => SaveOnlyPreservedVars = FALSE
      /\ req # NoRequest /\ info.end < Len(d)
      /\ LogOK(d) /\ Usable(d, info)
      /\ d[info.end + 1].state = "complete"
      /\ \A n \in Names : n # req.name => BootView(d)[n] = BootView(log)[n]
      /\ BootView(d)[req.name] = req.value
  BY <1>1, LinkStateFacts
<1> HIDE DEF d
<1>3. Usable(d, g)
  BY <1>2, AdvanceFacts DEF Covers
<1> HIDE DEF g
<1>4. DriverInv' /\ last' = req
  BY <1>1, <1>2, <1>3, ReturnStep
<1> QED BY <1>1, <1>2, <1>4 DEF Effect

LEMMA LinkFailsStep ==
  ASSUME LogInv, NextFails
  PROVE  DriverInv' /\ Effect
<1>1. pc = "Link"
  BY DEF NextFails
<1>2. PICK d : d \in {log, Linked} /\ RecoverFromFlashUpdateFailure(d)
  BY DEF NextFails
<1>3. /\ RequestInv /\ FlagInv /\ req # NoRequest /\ req.value # Absent
      /\ LogOK(log) /\ Usable(log, info) /\ LogOK(Linked) /\ Usable(Linked, info)
      /\ log[info.end + 1].name = req.name /\ Linked[info.end + 1].name = req.name
      /\ \A n \in Names : n # req.name => BootView(Linked)[n] = BootView(log)[n]
  BY <1>1, LinkStateFacts
<1>4. /\ LogOK(d) /\ Usable(d, info) /\ d[info.end + 1].name = req.name
      /\ \A n \in Names : n # req.name => BootView(d)[n] = BootView(log)[n]
  BY <1>2, <1>3
<1>5. DriverInv' /\ log' = d /\ last' = NoRequest
  BY <1>1, <1>2, <1>3, <1>4, FailStep
<1> QED BY <1>3, <1>4, <1>5 DEF Effect
\* The state in which the error recovery runs.
LEMMA RecoverStateFacts ==
  ASSUME LogInv, pc \in {"Recover", "SecondPass"}
  PROVE  /\ LogOK(log) /\ Usable(log, info) /\ RequestInv /\ pc \in Busy /\ last = NoRequest
         /\ SaveOnlyPreservedVars \in BOOLEAN
         /\ "SecondPass" \notin ShortOfMemory =>
              /\ SaveOnlyPreservedVars => pc = "SecondPass"
              /\ pc = "SecondPass" => Dropping
         /\ req # NoRequest /\ req.name \in Names /\ req.value \in Values /\ req.value # Absent
         /\ Written(log, info) => log[info.end + 1].name = req.name
<1>1. /\ LogOK(log) /\ Usable(log, info) /\ RequestInv /\ pc \in Busy
      /\ SaveOnlyPreservedVars \in BOOLEAN
      /\ Written(log, info) => log[info.end + 1].name = req.name
  BY DEF LogInv, DriverInv, InfoInv, WriteInv, RequestInv, Busy
<1>2. "SecondPass" \notin ShortOfMemory =>
        /\ SaveOnlyPreservedVars => pc = "SecondPass"
        /\ pc = "SecondPass" => Dropping
  BY DEF LogInv, DriverInv, FlagInv, Dropping
<1>3. /\ last = NoRequest /\ req # NoRequest /\ req.name \in Names
      /\ req.value \in Values /\ req.value # Absent
  BY <1>1, RequestFacts DEF RequestInv, Busy
<1> QED BY <1>1, <1>2, <1>3

\* Others leaves out a variable that is not to be kept only for want of room.
LEMMA KeptOrDropping ==
  ASSUME LogInv, pc \in {"Recover", "SecondPass"}, NEW n \in Names \ Kept
  PROVE  n \notin Preserved /\ ("SecondPass" \notin ShortOfMemory => Dropping)
BY RecoverStateFacts DEF Kept

LEMMA FullIsDropping ==
  ASSUME LogInv, pc \in {"Recover", "SecondPass"}, ~Fits, "SecondPass" \notin ShortOfMemory
  PROVE  Dropping
<1>1. CASE pc = "SecondPass"
  BY <1>1, RecoverStateFacts
<1>2. CASE pc = "Recover"
  <2>1. Kept = Names
    BY <1>2, RecoverStateFacts DEF Kept
  <2> QED BY <2>1, <1>2 DEF Fits, Others, Dropping
<1> QED BY <1>1, <1>2

\* The error recovery compacts the store to the variables in S.
LEMMA CompactStep ==
  ASSUME LogInv, pc \in {"Recover", "SecondPass"}, NEW S, setup \in S,
         UpdateVarstore(CopyVariables(log, info, S)) \/ (log' = log /\ info' = info)
  PROVE  /\ LogOK(log') /\ Usable(log', info')
         /\ \A n \in Names : n # req.name =>
              \/ BootView(log')[n] = BootView(log)[n]
              \/ n \notin S /\ BootView(log')[n] = Absent
<1>1. /\ LogOK(log) /\ Usable(log, info)
      /\ Written(log, info) => log[info.end + 1].name = req.name
  BY RecoverStateFacts
<1>2. CASE log' = log /\ info' = info
  BY <1>1, <1>2
<1>3. CASE UpdateVarstore(CopyVariables(log, info, S))
  <2> DEFINE c == CopyVariables(log, info, S)
  <2>1. log' = c /\ info' = NvInitInfoBuffer(c)
    BY <1>3 DEF UpdateVarstore
  <2>2. /\ LogOK(c)
        /\ \A n \in Names : n \notin S => BootView(c)[n] = Absent
        /\ \A n \in Names :
             n \in S /\ (Written(log, info) => log[info.end + 1].name # n) =>
               BootView(c)[n] = BootView(log)[n]
    BY <1>1, CompactFacts
  <2> HIDE DEF c
  <2>3. Usable(c, NvInitInfoBuffer(c))
    BY <2>2, InitCovers DEF Covers
  <2> QED BY <1>1, <2>1, <2>2, <2>3
<1> QED BY <1>2, <1>3

LEMMA OutOfMemoryStep ==
  ASSUME LogInv, OutOfMemory
  PROVE  DriverInv' /\ Effect
<1>1. /\ pc \in ShortOfMemory /\ pc \in {"Recover", "SecondPass"} /\ Return(FALSE)
      /\ log' = log /\ info' = info /\ SaveOnlyPreservedVars' = SaveOnlyPreservedVars
  BY LogAssumption DEF OutOfMemory
<1>2. /\ LogOK(log) /\ Usable(log, info) /\ RequestInv /\ pc \in Busy
      /\ SaveOnlyPreservedVars \in BOOLEAN
      /\ "SecondPass" \notin ShortOfMemory => (SaveOnlyPreservedVars => pc = "SecondPass")
  BY <1>1, RecoverStateFacts
<1>3. "SecondPass" \notin ShortOfMemory => SaveOnlyPreservedVars' = FALSE
  BY <1>1, <1>2
<1>4. DriverInv' /\ last' = NoRequest
  BY <1>1, <1>2, <1>3, ReturnStep
<1> QED BY <1>1, <1>4 DEF Effect

LEMMA RecoverStep ==
  ASSUME LogInv, Recover
  PROVE  DriverInv' /\ Effect
<1>1. pc \in {"Recover", "SecondPass"} /\ SaveOnlyPreservedVars' = FALSE
  BY DEF Recover
<1>2. /\ LogOK(log) /\ Usable(log, info) /\ RequestInv /\ pc \in Busy
      /\ req # NoRequest /\ req.name \in Names /\ req.value \in Values
      /\ Written(log, info) => log[info.end + 1].name = req.name
  BY <1>1, RecoverStateFacts
<1>3. CASE Return(FALSE) /\ log' = log /\ info' = info
  <2>1. DriverInv' /\ last' = NoRequest
    BY <1>1, <1>2, <1>3, ReturnStep
  <2> QED BY <2>1, <1>3 DEF Effect
<1>4. CASE UpdateVarstore(WithNewVar) /\ Return(TRUE)
  <2> DEFINE c == WithVar(log, info, Kept, req.name, req.value)
  <2>1. c = WithNewVar
    BY DEF WithVar, WithNewVar, Others
  <2>2. log' = c /\ info' = NvInitInfoBuffer(c)
    BY <1>4, <2>1 DEF UpdateVarstore
  <2>3. /\ LogOK(c) /\ BootView(c)[req.name] = req.value
        /\ \A n \in Names : n \notin Kept /\ n # req.name => BootView(c)[n] = Absent
        /\ \A n \in Names : n \in Kept /\ n # req.name => BootView(c)[n] = BootView(log)[n]
    BY <1>2, SetupFacts, RecoverFacts
  <2> HIDE DEF c
  <2>4. Usable(c, NvInitInfoBuffer(c))
    BY <2>3, InitCovers DEF Covers
  <2>5. DriverInv' /\ last' = req
    BY <1>1, <1>2, <1>4, <2>2, <2>3, <2>4, ReturnStep
  <2>6. ASSUME NEW n \in Names
        PROVE  \/ BootView(log')[n] = BootView(log)[n]
               \/ req # NoRequest /\ req.name = n
               \/ /\ n \notin Preserved /\ BootView(log')[n] = Absent
                  /\ "SecondPass" \notin ShortOfMemory => Dropping
    <3>1. CASE n \in Kept
      BY <3>1, <2>2, <2>3, <1>2
    <3>2. CASE n \notin Kept
      BY <3>2, <2>2, <2>3, <1>1, <1>2, KeptOrDropping
    <3> QED BY <3>1, <3>2
  <2> QED BY <1>2, <2>2, <2>3, <2>5, <2>6 DEF Effect
<1> QED BY <1>3, <1>4 DEF Recover

LEMMA SecondPassStep ==
  ASSUME LogInv, StartSecondPass
  PROVE  DriverInv' /\ Effect
<1>1. /\ pc = "Recover" /\ ~Fits /\ pc' = "SecondPass" /\ req' = req /\ last' = last
      /\ SaveOnlyPreservedVars' = TRUE /\ log' = log /\ info' = info
  BY DEF StartSecondPass, Continue
<1>2. /\ LogOK(log) /\ Usable(log, info) /\ RequestInv /\ pc \in Busy /\ last = NoRequest
      /\ req.value # Absent
      /\ Written(log, info) => log[info.end + 1].name = req.name
  BY <1>1, RecoverStateFacts
<1>3. "SecondPass" \notin ShortOfMemory => Dropping
  BY <1>1, FullIsDropping
<1>4. RequestInv'
  BY <1>1, <1>2 DEF RequestInv, Busy
<1>5. InfoInv' /\ LogOK(log)'
  BY <1>1, <1>2 DEF InfoInv
<1>6. WriteInv'
  BY <1>1, <1>2 DEF WriteInv, Written, Complete
<1>7. FlagInv'
  BY <1>1, <1>3 DEF FlagInv, Dropping
<1>8. Effect
  BY <1>1, <1>2 DEF Effect
<1> QED BY <1>4, <1>5, <1>6, <1>7, <1>8 DEF DriverInv

LEMMA RecoveryFailsStep ==
  ASSUME LogInv, ClearDamagedStore \/ RecoveryFails
  PROVE  DriverInv' /\ Effect
<1>1. /\ pc \in {"Recover", "SecondPass"} /\ ~Fits /\ Return(FALSE)
      /\ SaveOnlyPreservedVars' = FALSE
  BY DEF ClearDamagedStore, RecoveryFails
<1>2. RequestInv /\ pc \in Busy /\ req # NoRequest
  BY <1>1, RecoverStateFacts
<1>3. PICK S : /\ setup \in S /\ Preserved \subseteq S
               /\ UpdateVarstore(CopyVariables(log, info, S)) \/ (log' = log /\ info' = info)
  BY SetupFacts DEF ClearDamagedStore, RecoveryFails
<1>4. /\ LogOK(log') /\ Usable(log', info')
      /\ \A n \in Names : n # req.name =>
           \/ BootView(log')[n] = BootView(log)[n]
           \/ n \notin S /\ BootView(log')[n] = Absent
  BY <1>1, <1>3, CompactStep
<1>5. DriverInv' /\ last' = NoRequest
  BY <1>1, <1>2, <1>4, ReturnStep
<1>6. "SecondPass" \notin ShortOfMemory => Dropping
  BY <1>1, FullIsDropping
<1> QED BY <1>2, <1>3, <1>4, <1>5, <1>6 DEF Effect

LEMMA PowerFailStep ==
  ASSUME LogInv, PowerFail
  PROVE  DriverInv' /\ Effect
<1>1. /\ pc' = "Off" /\ req' = NoRequest /\ SaveOnlyPreservedVars' = FALSE
      /\ log' = log /\ last' = last /\ LogOK(log) /\ RequestInv
  BY DEF LogInv, DriverInv, PowerFail
<1>2. RequestInv'
  BY <1>1 DEF RequestInv, Busy
<1>3. InfoInv' /\ WriteInv' /\ FlagInv' /\ LogOK(log)'
  BY <1>1 DEF InfoInv, WriteInv, FlagInv
<1>4. last' = NoRequest \/ (last' = last /\ req = NoRequest)
  BY <1>1 DEF RequestInv, Busy
<1> QED BY <1>1, <1>2, <1>3, <1>4 DEF Effect, DriverInv

LEMMA LogStep ==
  ASSUME LogInv, Next
  PROVE  DriverInv' /\ Effect
BY BootStep, GetStep, SetStep, DeleteStep, SameDataStep, NoSpaceStep, HeaderStep, NewVarStep,
   NewDataStep, BodyFailsStep, LinkStep, LinkFailsStep, OutOfMemoryStep, RecoverStep,
   SecondPassStep, RecoveryFailsStep, PowerFailStep
   DEF Next

\* The promise of the last request outlives every step that is not a new one.
LEMMA LastStep ==
  ASSUME LogInv, Effect
  PROVE  LastInv'
<1>1. SUFFICES ASSUME "SecondPass" \notin ShortOfMemory, last' # NoRequest
               PROVE  BootView(log')[last'.name] = last'.value
  BY DEF LastInv, SuccessDurable
<1>2. CASE last' = last /\ req = NoRequest
  <2>1. RequestInv /\ LastInv
    BY DEF LogInv, DriverInv
  <2>2. last \in Calls /\ BootView(log)[last.name] = last.value
    BY <2>1, <1>1, <1>2 DEF RequestInv, LastInv, SuccessDurable
  <2>3. last.name \in Names
    BY <2>2, LogAssumption
  <2>4. ~Dropping
    BY <2>1, <1>2, SetupFacts DEF RequestInv, Busy, Dropping
  <2>5. \A n \in Names : BootView(log')[n] = BootView(log)[n]
    BY <2>4, <1>1, <1>2 DEF Effect
  <2>6. BootView(log')[last.name] = BootView(log)[last.name]
    BY <2>3, <2>5
  <2> QED BY <2>2, <2>6, <1>2
<1>3. CASE last' = req /\ BootView(log')[req.name] = req.value
  BY <1>3
<1> QED BY <1>1, <1>2, <1>3 DEF Effect
------------------------------------------------------------------------------
(***************************************************************************)
(* The theorems                                                            *)
(***************************************************************************)
LEMMA InitLog == Init => LogInv
<1> SUFFICES ASSUME Init PROVE LogInv
  OBVIOUS
<1>1. /\ pc = "Off" /\ req = NoRequest /\ last = NoRequest /\ SaveOnlyPreservedVars = FALSE
  BY DEF Init
<1>2. LogOK(log)
  BY ShippedOK
<1>3. RequestInv /\ InfoInv /\ WriteInv /\ FlagInv /\ LastInv
  BY <1>1 DEF RequestInv, InfoInv, WriteInv, FlagInv, LastInv, SuccessDurable, Busy
<1> QED BY <1>2, <1>3 DEF LogInv, DriverInv

LEMMA StutterLog ==
  ASSUME LogInv, UNCHANGED vars
  PROVE  LogInv'
<1>1. /\ log' = log /\ info' = info /\ pc' = pc /\ req' = req
      /\ SaveOnlyPreservedVars' = SaveOnlyPreservedVars /\ last' = last
  BY DEF vars
<1>2. LogOK(log)' /\ RequestInv' /\ InfoInv' /\ WriteInv' /\ FlagInv' /\ LastInv'
  BY <1>1 DEF LogInv, DriverInv, RequestInv, InfoInv, WriteInv, FlagInv, LastInv,
              SuccessDurable, Written, Complete
<1> QED BY <1>2 DEF LogInv, DriverInv

\* Whatever writes fail and wherever the power is lost, the flash holds a log
\* that NvGetNextNvar walks to its end, whose next fields NvGetDataNvar follows
\* to the current data, and with one valid record for each variable.
THEOREM LogInvariant == Spec => []LogInv
<1>1. Init => LogInv
  BY InitLog
<1>2. LogInv /\ [Next]_vars => LogInv'
  <2>1. ASSUME LogInv, Next PROVE LogInv'
    BY <2>1, LogStep, LastStep DEF LogInv
  <2> QED BY <2>1, StutterLog
<1> QED BY <1>1, <1>2, PTL DEF Spec

\* What DxeGetVariable reads through pFirstVar and pEndOfVars, when the store is
\* OK between two calls, is what the next boot will find, although the driver
\* may have kept them up to date through failed writes.
THEOREM ReadsAgree == Spec => []ReadsMatchFlash
<1>1. LogInv => ReadsMatchFlash
  <2> SUFFICES ASSUME LogInv, pc = "Idle", IsStoreOk(log, info)
               PROVE  View(log, info) = BootView(log)
    BY DEF ReadsMatchFlash
  <2>1. LogOK(log) /\ Usable(log, info)
    BY DEF LogInv, DriverInv, InfoInv
  <2> QED BY <2>1, OkCovers, ViewIsBootView
<1> QED BY <1>1, LogInvariant, PTL

\* What DxeSetVariable reported with EFI_SUCCESS is there after the next boot,
\* whenever that happens, if the second pass of its error recovery does not run
\* out of memory.
THEOREM SuccessIsDurable ==
  ASSUME "SecondPass" \notin ShortOfMemory
  PROVE  Spec => []SuccessDurable
<1>1. LogInv => SuccessDurable
  BY DEF LogInv, LastInv
<1> QED BY <1>1, LogInvariant, PTL

\* The same with the variables a boot would find kept beside the log.
THEOREM StoreInvariant == StoreSpec => [](LogInv /\ store = BootView(log))
<1> DEFINE Inv == LogInv /\ store = BootView(log)
<1>1. StoreInit => Inv
  BY InitLog DEF StoreInit
<1>2. Inv /\ [StoreNext]_<<vars, store>> => Inv'
  <2> SUFFICES ASSUME LogInv, store = BootView(log), [StoreNext]_<<vars, store>>
               PROVE  LogInv' /\ store' = BootView(log')
    OBVIOUS
  <2>1. CASE StoreNext
    BY <2>1, LogStep, LastStep DEF LogInv, StoreNext
  <2>2. CASE UNCHANGED <<vars, store>>
    <3>1. log' = log
      BY <2>2 DEF vars
    <3> QED BY <2>2, <3>1, StutterLog
  <2> QED BY <2>1, <2>2
<1> QED BY <1>1, <1>2, PTL DEF StoreSpec

\* However full and however damaged the store is, a step changes a variable on
\* the preserve list only while DxeSetVariable is carrying out a request for it.
THEOREM PreservedStay == StoreSpec => PreservedKept
<1> DEFINE Inv == LogInv /\ store = BootView(log)
           Kept1 == \A n \in Preserved : store'[n] # store[n] => req # NoRequest /\ req.name = n
<1>1. Inv /\ [StoreNext]_<<vars, store>> => [Kept1]_store
  <2> SUFFICES ASSUME LogInv, store = BootView(log), StoreNext, NEW n \in Preserved,
                      store'[n] # store[n]
               PROVE  req # NoRequest /\ req.name = n
    OBVIOUS
  <2>1. Effect /\ store' = BootView(log')
    BY LogStep DEF StoreNext
  <2>2. n \in Names
    BY LogAssumption
  <2> QED BY <2>1, <2>2 DEF Effect
<1> QED BY <1>1, StoreInvariant, PTL DEF StoreSpec, PreservedKept

\* If the second pass does not run out of memory, the garbage collection drops a
\* variable only in a call for which a compacted store has no room: the flag
\* SaveOnlyPreservedVars never reaches the compaction of a later call.
THEOREM DropsOnlyWhenFull ==
  ASSUME "SecondPass" \notin ShortOfMemory
  PROVE  StoreSpec => DroppedOnlyWhenFull
<1> DEFINE Inv == LogInv /\ store = BootView(log)
           Dropped ==
             \A n \in Names :
               store[n] # Absent /\ store'[n] = Absent =>
                 \/ req # NoRequest /\ req.name = n
                 \/ /\ pc \in {"Recover", "SecondPass"}
                    /\ ~IsEnoughSpace(CopyVariables(log, info, Names \ {req.name}), req.value)
<1>1. Inv /\ [StoreNext]_<<vars, store>> => [Dropped]_store
  <2> SUFFICES ASSUME LogInv, store = BootView(log), StoreNext
               PROVE  Dropped
    OBVIOUS
  <2>1. Effect /\ store' = BootView(log')
    BY LogStep DEF StoreNext
  <2> QED BY <2>1 DEF Effect, Dropping
<1> QED BY <1>1, StoreInvariant, PTL DEF StoreSpec, DroppedOnlyWhenFull
=============================================================================
