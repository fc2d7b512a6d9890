--------------------------- MODULE FollowerProofs ---------------------------
(* What is proved of a node that follows, for every home and every limit.  *)
EXTENDS Follower, TLAPS, FiniteSetTheorems, SequenceTheorems

-----------------------------------------------------------------------------
(* Ranks in a finite set of numbers.                                       *)

\* How many of S come before i.
Before(S, i) == Cardinality({j \in S : j < i})

\* How many of S come after i.
After(S, i) == Cardinality({j \in S : j > i})

\* A part of a finite set that is not all of it has fewer elements.
LEMMA PartFewer ==
    ASSUME NEW S, IsFiniteSet(S), NEW T \in SUBSET S, T # S
    PROVE  /\ IsFiniteSet(T)
           /\ Cardinality(T) \in Nat /\ Cardinality(S) \in Nat
           /\ Cardinality(T) < Cardinality(S)
<1>1. IsFiniteSet(T) /\ Cardinality(T) <= Cardinality(S) /\ Cardinality(S) # Cardinality(T)
  BY FS_Subset
<1>2. Cardinality(T) \in Nat /\ Cardinality(S) \in Nat
  BY <1>1, FS_CardinalityType
<1> QED  BY <1>1, <1>2

\* What comes before a number of S is finite, fewer than S, and fewer still
\* than what comes before a greater one.
LEMMA BeforeGrows ==
    ASSUME NEW S \in SUBSET Nat, IsFiniteSet(S), NEW i \in S, NEW j \in S
    PROVE  /\ Before(S, i) \in 0..(Cardinality(S) - 1)
           /\ i < j => Before(S, i) < Before(S, j)
           /\ i = j \/ Before(S, i) # Before(S, j)
<1>1. ASSUME NEW a \in S
      PROVE  /\ IsFiniteSet({x \in S : x < a}) /\ Before(S, a) \in Nat
             /\ Before(S, a) < Cardinality(S) /\ Cardinality(S) \in Nat
  <2> DEFINE P == {x \in S : x < a}
  <2>1. P \in SUBSET S /\ P # S
    OBVIOUS
  <2>2. IsFiniteSet(P) /\ Cardinality(P) \in Nat /\ Cardinality(S) \in Nat /\ Cardinality(P) < Cardinality(S)
    <3> HIDE DEF P
    <3> QED  BY <2>1, PartFewer
  <2> QED  BY <2>2 DEF Before
<1>2. ASSUME NEW a \in S, NEW b \in S, a < b
      PROVE  Before(S, a) < Before(S, b)
  <2> DEFINE P == {x \in S : x < a}
  <2> DEFINE R == {x \in S : x < b}
  <2>1. P \in SUBSET R /\ P # R
    <3>1. a \in R /\ a \notin P
      BY <1>2
    <3>2. \A x \in P : x \in R
      BY <1>2
    <3> QED  BY <3>1, <3>2
  <2>2. IsFiniteSet(R)
    BY <1>1
  <2>3. Cardinality(P) < Cardinality(R)
    <3> HIDE DEF P, R
    <3> QED  BY <2>1, <2>2, PartFewer
  <2> QED  BY <2>3 DEF Before
<1>3. Before(S, i) \in Nat /\ Before(S, j) \in Nat /\ Before(S, i) < Cardinality(S) /\ Cardinality(S) \in Nat
  BY <1>1
<1>4. (i < j => Before(S, i) < Before(S, j)) /\ (j < i => Before(S, j) < Before(S, i))
  BY <1>2
<1>5. i \in Nat /\ j \in Nat
  OBVIOUS
<1> QED  BY <1>3, <1>4, <1>5

\* Every rank is somebody's.
LEMMA RankTaken ==
    ASSUME NEW S \in SUBSET Nat, IsFiniteSet(S), NEW n \in 1..Cardinality(S)
    PROVE  \E i \in S : Before(S, i) = n - 1
<1> DEFINE T == 0..(Cardinality(S) - 1)
<1> DEFINE f == [i \in S |-> Before(S, i)]
<1>1. Cardinality(S) \in Nat
  BY FS_CardinalityType
<1>2. IsFiniteSet(T) /\ Cardinality(T) = Cardinality(S)
  <2>1. 0 \in Int /\ Cardinality(S) - 1 \in Int
    BY <1>1
  <2>2. IsFiniteSet(T) /\ Cardinality(T) = IF 0 > Cardinality(S) - 1 THEN 0 ELSE Cardinality(S) - 1 - 0 + 1
    BY <2>1, FS_Interval
  <2> QED  BY <1>1, <2>2
<1>3. f \in Injection(S, T)
  <2>1. \A i \in S : Before(S, i) \in T
    BY BeforeGrows
  <2>2. \A i, j \in S : Before(S, i) = Before(S, j) => i = j
    BY BeforeGrows
  <2> QED  BY <2>1, <2>2 DEF Injection, IsInjective
<1>4. f \in Surjection(S, T)
  <2> HIDE DEF f, T
  <2> QED  BY <1>2, <1>3, FS_Injection
<1>5. \A t \in T : \E i \in S : f[i] = t
  BY <1>4 DEF Surjection
<1>6. n - 1 \in T
  BY <1>1
<1> QED  BY <1>5, <1>6

\* What is in order is the whole of it, the least first.
LEMMA InOrderSorted ==
    ASSUME NEW S \in SUBSET Nat, IsFiniteSet(S)
    PROVE  /\ InOrder(S) \in [1..Cardinality(S) -> S]
           /\ \A n, m \in 1..Cardinality(S) : n < m => InOrder(S)[n] < InOrder(S)[m]
           /\ \A i \in S : \E n \in 1..Cardinality(S) : InOrder(S)[n] = i
<1>1. Cardinality(S) \in Nat
  BY FS_CardinalityType
<1>2. ASSUME NEW n \in 1..Cardinality(S)
      PROVE  InOrder(S)[n] \in S /\ Before(S, InOrder(S)[n]) = n - 1
  BY RankTaken DEF InOrder, Before
<1>3. InOrder(S) \in [1..Cardinality(S) -> S]
  BY <1>2 DEF InOrder
<1>4. ASSUME NEW n \in 1..Cardinality(S), NEW m \in 1..Cardinality(S), n < m
      PROVE  InOrder(S)[n] < InOrder(S)[m]
  <2>1. Before(S, InOrder(S)[n]) < Before(S, InOrder(S)[m])
    BY <1>1, <1>2, <1>4
  <2>2. InOrder(S)[n] \in Nat /\ InOrder(S)[m] \in Nat
    BY <1>2
  <2>3. ~ (InOrder(S)[m] <= InOrder(S)[n])
    BY <1>2, <2>1, <2>2, BeforeGrows, FS_CardinalityType
  <2> QED  BY <2>2, <2>3
<1>5. ASSUME NEW i \in S
      PROVE  \E n \in 1..Cardinality(S) : InOrder(S)[n] = i
  <2>1. Before(S, i) \in 0..(Cardinality(S) - 1)
    BY BeforeGrows
  <2> DEFINE n == Before(S, i) + 1
  <2>2. n \in 1..Cardinality(S) /\ n - 1 = Before(S, i)
    BY <1>1, <2>1
  <2>3. InOrder(S)[n] \in S /\ Before(S, InOrder(S)[n]) = Before(S, i)
    BY <1>2, <2>2
  <2>4. InOrder(S)[n] = i
    BY <2>3, BeforeGrows
  <2> QED  BY <2>2, <2>4
<1> QED  BY <1>3, <1>4, <1>5

\* The oldest of some rows have all those before them among them, and there is
\* one if there are rows.
LEMMA OldestFirst ==
    ASSUME NEW S \in SUBSET Nat, IsFiniteSet(S), NEW n \in Nat \ {0}
    PROVE  /\ Oldest(S, n) \subseteq S
           /\ \A i \in Oldest(S, n), j \in S : j < i => j \in Oldest(S, n)
           /\ S # {} => Oldest(S, n) # {}
<1>1. ASSUME NEW i \in Oldest(S, n), NEW j \in S, j < i
      PROVE  j \in Oldest(S, n)
  <2>1. Before(S, j) < Before(S, i) /\ Before(S, i) \in Nat /\ Before(S, j) \in Nat
    BY <1>1, BeforeGrows, FS_CardinalityType DEF Oldest
  <2> QED  BY <1>1, <2>1 DEF Oldest, Before
<1>2. ASSUME S # {}
      PROVE  Oldest(S, n) # {}
  <2>1. 1 \in 1..Cardinality(S)
    BY <1>2, FS_CardinalityType, FS_EmptySet
  <2>2. PICK i \in S : Before(S, i) = 0
    BY <2>1, RankTaken
  <2> QED  BY <2>2 DEF Oldest, Before
<1> QED  BY <1>1, <1>2 DEF Oldest

\* Of those with fewer than k after them there are at most k.
LEMMA NewestFew ==
    ASSUME NEW S \in SUBSET Nat, IsFiniteSet(S), NEW k \in Nat
    PROVE  Cardinality({i \in S : After(S, i) < k}) <= k
<1> DEFINE N == {i \in S : After(S, i) < k}
<1> DEFINE T == 0..(k - 1)
<1> DEFINE f == [i \in N |-> After(S, i)]
<1>1. ASSUME NEW a \in S
      PROVE  IsFiniteSet({x \in S : x > a}) /\ After(S, a) \in Nat
  <2> DEFINE P == {x \in S : x > a}
  <2>1. P \in SUBSET S
    OBVIOUS
  <2>2. IsFiniteSet(P) /\ Cardinality(P) \in Nat
    BY <2>1, FS_Subset, FS_CardinalityType
  <2> QED  BY <2>2 DEF After
<1>2. ASSUME NEW a \in S, NEW b \in S, a < b
      PROVE  After(S, b) < After(S, a)
  <2> DEFINE P == {x \in S : x > b}
  <2> DEFINE R == {x \in S : x > a}
  <2>1. P \in SUBSET R /\ P # R
    <3>1. b \in R /\ b \notin P
      BY <1>2
    <3>2. \A x \in P : x \in R
      BY <1>2
    <3> QED  BY <3>1, <3>2
  <2>2. IsFiniteSet(R)
    BY <1>1
  <2>3. Cardinality(P) < Cardinality(R)
    <3> HIDE DEF P, R
    <3> QED  BY <2>1, <2>2, PartFewer
  <2> QED  BY <2>3 DEF After
<1>3. f \in Injection(N, T)
  <2>1. \A a \in N : After(S, a) \in T
    <3> TAKE a \in N
    <3>1. a \in S /\ After(S, a) < k
      OBVIOUS
    <3>2. After(S, a) \in Nat
      BY <1>1, <3>1
    <3> QED  BY <3>1, <3>2
  <2>2. \A a, b \in N : After(S, a) = After(S, b) => a = b
    <3> SUFFICES ASSUME NEW a \in N, NEW b \in N, After(S, a) = After(S, b)
                 PROVE  a = b
      OBVIOUS
    <3>1. a \in S /\ b \in S /\ a \in Nat /\ b \in Nat
      OBVIOUS
    <3>2. After(S, a) \in Nat /\ After(S, b) \in Nat
      BY <1>1, <3>1
    <3>3. (a < b => After(S, b) < After(S, a)) /\ (b < a => After(S, a) < After(S, b))
      BY <1>2, <3>1
    <3> QED  BY <3>1, <3>2, <3>3
  <2> QED  BY <2>1, <2>2 DEF Injection, IsInjective
<1>4. IsFiniteSet(T) /\ Cardinality(T) = k
  <2>1. IsFiniteSet(T) /\ Cardinality(T) = IF 0 > k - 1 THEN 0 ELSE k - 1 - 0 + 1
    BY FS_Interval
  <2> QED  BY <2>1
<1> QED
  <2> HIDE DEF f, T, N
  <2>1. Cardinality(N) <= k
    BY <1>3, <1>4, FS_Injection
  <2> QED  BY <2>1 DEF N

-----------------------------------------------------------------------------
(* What holds of a follower at every step.                                 *)

\* The lists this node has, the one being held among them.
InHand == OnTheirWay \cup (IF hold = None THEN {} ELSE {hold.list})

IsStore(i) == owed[i].kind = "store"

\* What the master says is this node's to hold is in the home, in a list of
\* before too.
InHome ==
    /\ \A d \in Devices : word[d] = "mine" => d \in home
    /\ \A l \in InHand : l.mine \subseteq home

\* All but the timeline is about a device.
AboutDevices == \A i \in DOMAIN owed : owed[i].device = None => owed[i].kind = "audit"

\* The types of what is held, and of what is owed.
HoldTypes ==
    /\ home \in Homes /\ up \in BOOLEAN /\ word \in [Devices -> Words] /\ above \subseteq Devices
    /\ running \in {"down", "starting", "on"}
    /\ kept \subseteq home /\ keyed \subseteq kept /\ holdNow \subseteq Devices
    /\ asked \in [Askers -> Lists \cup {None}]
    /\ lists \in Seq(Lists) /\ Len(lists) <= MaxLists
    /\ hold # None => hold \in [list : Lists, closing : SUBSET Devices]
    /\ saving \in Devices \cup {None}
    /\ forgetting # None => forgetting \in [device : Devices, closing : BOOLEAN]

OweTypes ==
    /\ owed \in Seq([kind : Kinds, device : Devices \cup {None}])
    /\ queue \cup taken \cup refused \cup trimmed \subseteq DOMAIN owed
    /\ store \in [Devices -> {0} \cup DOMAIN owed]
    /\ send # None => send \in [calls : Seq(SUBSET DOMAIN owed) \ {<<>>},
                                said : {"nothing", "taken", "refused"}]

Few == \A kind \in Kinds : Cardinality({i \in queue : owed[i].kind = kind}) <= KeepOwed[kind]

HoldInv == HoldTypes /\ InHome
OweInv  == OweTypes /\ Few /\ AboutDevices
TypeInv == HoldInv /\ OweInv

\* A call that was taken was taken whole.
TakenWhole == send # None /\ send.said = "taken" => Head(send.calls) \subseteq taken

NoneLostInv == NoneLost /\ TakenWhole

\* What sessions kept is sent a row at a time, in the order it was owed, and
\* none is sent before another that is queued still and older.
InLine(calls) ==
    /\ \A n \in DOMAIN calls : \A i \in calls[n] : IsStore(i) => calls[n] = {i}
    /\ \A n, m \in DOMAIN calls : n < m =>
           \A i \in calls[n], j \in calls[m] : IsStore(i) /\ IsStore(j) => i < j
    /\ \A n \in DOMAIN calls : \A i \in calls[n], j \in queue :
           IsStore(i) /\ IsStore(j) /\ j < i => \E m \in DOMAIN calls : m < n /\ j \in calls[m]

\* The master's copy is no newer than what is queued or about to be sent.
NotPassed(rows) == \A i \in rows : IsStore(i) => store[owed[i].device] <= i

StoreInv ==
    /\ NotPassed(queue)
    /\ send # None => InLine(send.calls) /\ \A n \in DOMAIN send.calls : NotPassed(send.calls[n])

\* The master said so of each device that a list, the master's word or a
\* removal lets go of; and what is closed is not this node's by the list held.
KeysInv ==
    /\ \A d \in Devices : word[d] \in {"other", "removed"} => d \in told
    /\ \A l \in InHand : LetsGo(l) \ l.mine \subseteq told
    /\ hold # None => hold.closing \cap hold.list.mine = {}
    /\ forgetting # None => forgetting.device \in told

-----------------------------------------------------------------------------
(* The calls of one send.                                                  *)

\* A function on the first n numbers is a sequence of n.
LEMMA Lined ==
    ASSUME NEW S, NEW n \in Nat, NEW f \in [1..n -> S]
    PROVE  f \in Seq(S) /\ Len(f) = n /\ DOMAIN f = 1..n
<1>1. f \in Seq(S)
  BY SeqDef
<1> QED  BY <1>1, LenProperties

\* Of one, a sequence of one.
LEMMA Single ==
    ASSUME NEW S, NEW e \in S
    PROVE  <<e>> \in Seq(S) /\ Len(<<e>>) = 1
OBVIOUS

\* Some rows have a first one.
LEMMA FirstOf ==
    ASSUME NEW S \in SUBSET Nat, IsFiniteSet(S), S # {}
    PROVE  \E i \in S : \A j \in S : i <= j
<1>1. Cardinality(S) \in Nat /\ 1 \in 1..Cardinality(S)
  BY FS_CardinalityType, FS_EmptySet
<1>2. InOrder(S)[1] \in S
  BY <1>1, InOrderSorted
<1>3. ASSUME NEW j \in S
      PROVE  InOrder(S)[1] <= j
  <2>1. PICK n \in 1..Cardinality(S) : InOrder(S)[n] = j
    BY InOrderSorted
  <2>2. n = 1 \/ 1 < n
    BY <1>1, <2>1
  <2>3. 1 < n => InOrder(S)[1] < InOrder(S)[n]
    BY <1>1, InOrderSorted
  <2>4. InOrder(S)[1] \in Nat
    BY <1>2
  <2>5. CASE n = 1
    BY <2>1, <2>4, <2>5
  <2>6. CASE 1 < n
    BY <2>1, <2>3, <2>4, <2>6
  <2> QED  BY <2>2, <2>5, <2>6
<1> QED  BY <1>2, <1>3

\* What is owed is a sequence of rows, and what is queued of it has a row.
LEMMA OwedRows ==
    ASSUME TypeOK
    PROVE  /\ Len(owed) \in Nat /\ DOMAIN owed = 1..Len(owed) /\ queue \subseteq DOMAIN owed
           /\ \A i \in DOMAIN owed : owed[i] \in [kind : Kinds, device : Devices \cup {None}]
<1> DEFINE Rows == [kind : Kinds, device : Devices \cup {None}]
<1>1. owed \in Seq(Rows) /\ queue \subseteq DOMAIN owed
  BY DEF TypeOK
<1>2. Len(owed) \in Nat /\ DOMAIN owed = 1..Len(owed)
  BY <1>1, LenProperties
<1>3. \A i \in 1..Len(owed) : owed[i] \in Rows
  BY <1>1, ElementOfSeq
<1> QED  BY <1>1, <1>2, <1>3

\* What is queued are numbers, finitely many, and so is what a send looks at.
LEMMA QueueFinite ==
    ASSUME TypeOK
    PROVE  /\ queue \in SUBSET Nat /\ IsFiniteSet(queue)
           /\ \A S \in SUBSET queue : S \in SUBSET Nat /\ IsFiniteSet(S) /\ Cardinality(S) \in Nat
<1>1. Len(owed) \in Nat /\ queue \subseteq 1..Len(owed)
  BY LenProperties DEF TypeOK
<1>2. IsFiniteSet(1..Len(owed))
  BY <1>1, FS_Interval
<1>3. IsFiniteSet(queue)
  BY <1>1, <1>2, FS_Subset
<1>4. ASSUME NEW S \in SUBSET queue
      PROVE  S \in SUBSET Nat /\ IsFiniteSet(S) /\ Cardinality(S) \in Nat
  <2>1. IsFiniteSet(S)
    BY <1>3, FS_Subset
  <2> QED  BY <1>1, <2>1, FS_CardinalityType
<1>5. queue \in SUBSET Nat
  BY <1>1
<1> QED  BY <1>3, <1>4, <1>5

\* The calls of a send are of what is queued, and what sessions kept is in line.
LEMMA CallsInLine ==
    ASSUME TypeOK, queue # {}
    PROVE  Calls \in Seq(SUBSET queue) \ {<<>>} /\ InLine(Calls)
<1> DEFINE stores == Looked("store")
<1> DEFINE rank == InOrder(stores)
<1> DEFINE before == AuditCalls \o ReadingsCalls
<1>1. AtOnce \in Nat \ {0} /\ PerCall \in Nat \ {0}
  BY FollowerAssumption
<1>2. /\ Oldest(queue, AtOnce) \subseteq queue /\ Oldest(queue, AtOnce) # {}
      /\ \A i \in Oldest(queue, AtOnce), j \in queue : j < i => j \in Oldest(queue, AtOnce)
  BY <1>1, OldestFirst, QueueFinite
<1>3. ASSUME NEW kind
      PROVE  /\ Looked(kind) \in SUBSET queue /\ Looked(kind) \in SUBSET Nat
             /\ IsFiniteSet(Looked(kind)) /\ Cardinality(Looked(kind)) \in Nat
  <2>1. Looked(kind) \in SUBSET queue
    BY <1>2 DEF Looked
  <2> QED  BY <2>1, QueueFinite
<1>4. AuditCalls \in Seq(SUBSET Looked("audit")) /\ (Looked("audit") # {} => Len(AuditCalls) = 1)
  <2>1. Oldest(Looked("audit"), PerCall) \in SUBSET Looked("audit")
    BY DEF Oldest
  <2>2. CASE Looked("audit") = {}
    BY <2>2, EmptySeq DEF AuditCalls
  <2>3. CASE Looked("audit") # {}
    BY <2>1, <2>3, Single DEF AuditCalls
  <2> QED  BY <2>2, <2>3
<1>5. FirstReadings \in SUBSET Nat /\ IsFiniteSet(FirstReadings) /\ Cardinality(FirstReadings) \in Nat
  <2>1. FirstReadings \in SUBSET Looked("readings")
    BY DEF FirstReadings
  <2> QED  BY <1>3, <2>1, FS_Subset, FS_CardinalityType
<1>6. /\ ReadingsCalls \in Seq(SUBSET Looked("readings"))
      /\ Len(ReadingsCalls) = Cardinality(FirstReadings)
  <2>1. \A i : Oldest(ReadingsWith(i), PerCall) \in SUBSET Looked("readings")
    BY DEF Oldest, ReadingsWith
  <2>2. ReadingsCalls \in [1..Cardinality(FirstReadings) -> SUBSET Looked("readings")]
    BY <2>1 DEF ReadingsCalls
  <2> QED  BY <1>5, <2>2, Lined
<1>7. Looked("readings") # {} => Cardinality(FirstReadings) # 0
  <2> SUFFICES ASSUME NEW i \in Looked("readings")
               PROVE  Cardinality(FirstReadings) # 0
    OBVIOUS
  <2>1. ReadingsWith(i) \in SUBSET Looked("readings") /\ i \in ReadingsWith(i)
    BY DEF ReadingsWith
  <2>2. PICK f \in ReadingsWith(i) : \A j \in ReadingsWith(i) : f <= j
    BY <1>3, <2>1, FirstOf, FS_Subset
  <2>3. ReadingsWith(f) = ReadingsWith(i) /\ f \in Looked("readings")
    BY DEF ReadingsWith
  <2>4. f \in FirstReadings
    BY <2>2, <2>3 DEF FirstReadings
  <2> QED  BY <1>5, <2>4, FS_EmptySet
<1>8. /\ rank \in [1..Cardinality(stores) -> stores]
      /\ \A n, m \in 1..Cardinality(stores) : n < m => rank[n] < rank[m]
      /\ \A i \in stores : \E n \in 1..Cardinality(stores) : rank[n] = i
  BY <1>3, InOrderSorted
<1>9. /\ StoreCalls \in Seq(SUBSET stores) /\ Len(StoreCalls) = Cardinality(stores)
      /\ \A n \in 1..Len(StoreCalls) : StoreCalls[n] = {rank[n]}
  <2>1. \A n \in 1..Cardinality(stores) : {rank[n]} \in SUBSET stores
    BY <1>8
  <2>2. /\ StoreCalls \in [1..Cardinality(stores) -> SUBSET stores]
        /\ \A n \in 1..Cardinality(stores) : StoreCalls[n] = {rank[n]}
    BY <2>1 DEF StoreCalls
  <2> QED  BY <1>3, <2>2, Lined
<1>10. /\ AuditCalls \in Seq(SUBSET queue) /\ ReadingsCalls \in Seq(SUBSET queue)
       /\ StoreCalls \in Seq(SUBSET queue)
  BY <1>3, <1>4, <1>6, <1>9, SeqMonotonic
<1>11. before \in Seq(SUBSET queue) /\ Len(before) \in Nat /\ Len(before) = Len(AuditCalls) + Len(ReadingsCalls)
  BY <1>10, ConcatProperties, LenProperties
<1>12. \A n \in 1..Len(before) : \A i \in before[n] : ~ IsStore(i)
  <2>1. TAKE n \in 1..Len(before)
  <2>2. before[n] = IF n <= Len(AuditCalls) THEN AuditCalls[n] ELSE ReadingsCalls[n - Len(AuditCalls)]
    BY <1>10, <1>11, ConcatProperties
  <2>3. Len(AuditCalls) \in Nat /\ Len(ReadingsCalls) \in Nat
    BY <1>10, LenProperties
  <2>4. before[n] \subseteq Looked("audit") \cup Looked("readings")
    <3>1. CASE n <= Len(AuditCalls)
      BY <1>4, <2>2, <2>3, <3>1, ElementOfSeq
    <3>2. CASE n > Len(AuditCalls)
      <4>1. n - Len(AuditCalls) \in 1..Len(ReadingsCalls)
        BY <1>11, <2>3, <3>2
      <4> QED  BY <1>6, <2>2, <2>3, <3>2, <4>1, ElementOfSeq
    <3> QED  BY <2>3, <3>1, <3>2
  <2> QED  BY <2>4 DEF Looked, IsStore
<1>13. /\ Calls \in Seq(SUBSET queue) /\ Len(Calls) = Len(before) + Len(StoreCalls)
       /\ Len(StoreCalls) \in Nat /\ DOMAIN Calls = 1..Len(Calls)
       /\ \A n \in 1..Len(before) : Calls[n] = before[n]
       /\ \A n \in 1..Len(StoreCalls) : Calls[Len(before) + n] = {rank[n]}
  <2>1. Calls = before \o StoreCalls
    BY DEF Calls
  <2>2. /\ Calls \in Seq(SUBSET queue) /\ Len(Calls) = Len(before) + Len(StoreCalls)
        /\ \A n \in 1..Len(before) + Len(StoreCalls) :
               Calls[n] = IF n <= Len(before) THEN before[n] ELSE StoreCalls[n - Len(before)]
    BY <1>10, <1>11, <2>1, ConcatProperties
  <2>3. Len(StoreCalls) \in Nat /\ DOMAIN Calls = 1..Len(Calls)
    BY <1>10, <2>2, LenProperties
  <2>4. \A n \in 1..Len(StoreCalls) : /\ Len(before) + n \in 1..Len(before) + Len(StoreCalls)
                                      /\ ~ (Len(before) + n <= Len(before))
                                      /\ Len(before) + n - Len(before) = n
    BY <1>11, <2>3
  <2> HIDE DEF before
  <2> QED  BY <1>9, <1>11, <2>2, <2>3, <2>4
<1> HIDE DEF before
<1>14. Calls # <<>>
  <2>1. PICK i \in Oldest(queue, AtOnce) : TRUE
    BY <1>2
  <2>2. i \in Looked("audit") \/ i \in Looked("readings") \/ i \in Looked("store")
    <3>1. owed[i].kind \in Kinds
      BY <1>2, OwedRows
    <3> QED  BY <3>1 DEF Looked, Kinds
  <2>3. Cardinality(stores) = 0 => stores = {}
    BY <1>3, FS_EmptySet
  <2>4. Len(AuditCalls) \in Nat /\ Len(ReadingsCalls) \in Nat
    BY <1>10, LenProperties
  <2>5. Len(AuditCalls) # 0 \/ Len(ReadingsCalls) # 0 \/ Len(StoreCalls) # 0
    BY <1>4, <1>6, <1>7, <1>9, <2>2, <2>3
  <2>6. Len(Calls) # 0
    BY <1>11, <1>13, <2>4, <2>5
  <2> QED  BY <2>6
<1>15. ASSUME NEW n \in DOMAIN Calls, NEW i \in Calls[n], IsStore(i)
       PROVE  \E k \in 1..Len(StoreCalls) : n = Len(before) + k /\ i = rank[k] /\ Calls[n] = {i}
  <2>1. n \notin 1..Len(before)
    BY <1>12, <1>13, <1>15
  <2>2. n - Len(before) \in 1..Len(StoreCalls) /\ Len(before) + (n - Len(before)) = n
    BY <1>11, <1>13, <2>1
  <2> QED  BY <1>13, <2>2
<1>16. \A n \in DOMAIN Calls : \A i \in Calls[n] : IsStore(i) => Calls[n] = {i}
  BY <1>15
<1>17. ASSUME NEW n \in DOMAIN Calls, NEW m \in DOMAIN Calls, n < m,
              NEW i \in Calls[n], NEW j \in Calls[m], IsStore(i), IsStore(j)
       PROVE  i < j
  <2>1. PICK k \in 1..Len(StoreCalls) : n = Len(before) + k /\ i = rank[k]
    BY <1>15, <1>17
  <2>2. PICK l \in 1..Len(StoreCalls) : m = Len(before) + l /\ j = rank[l]
    BY <1>15, <1>17
  <2>3. k < l
    BY <1>11, <1>13, <1>17, <2>1, <2>2
  <2> QED  BY <1>8, <1>9, <2>1, <2>2, <2>3
<1>18. ASSUME NEW n \in DOMAIN Calls, NEW i \in Calls[n], NEW j \in queue,
              IsStore(i), IsStore(j), j < i
       PROVE  \E m \in DOMAIN Calls : m < n /\ j \in Calls[m]
  <2>1. PICK k \in 1..Len(StoreCalls) : n = Len(before) + k /\ i = rank[k]
    BY <1>15, <1>18
  <2>2. i \in stores
    BY <1>8, <1>9, <2>1
  <2>3. j \in stores
    BY <1>2, <1>18, <2>2 DEF Looked, IsStore
  <2>4. PICK l \in 1..Len(StoreCalls) : j = rank[l]
    BY <1>8, <1>9, <2>3
  <2>5. l < k
    <3>1. i \in Nat /\ j \in Nat
      BY <1>3, <2>2, <2>3
    <3>2. ~ (k < l) /\ k # l
      BY <1>8, <1>9, <1>18, <2>1, <2>4, <3>1
    <3> QED  BY <1>13, <3>2
  <2>6. Len(before) + l \in DOMAIN Calls /\ Len(before) + l < n /\ j \in Calls[Len(before) + l]
    BY <1>11, <1>13, <2>1, <2>4, <2>5
  <2> QED  BY <2>6
<1> QED  BY <1>13, <1>14, <1>16, <1>17, <1>18 DEF InLine

-----------------------------------------------------------------------------
(* Types.                                                                  *)

LEMMA TypeParts == TypeOK <=> HoldTypes /\ OweTypes /\ Few
BY DEF TypeOK, HoldTypes, OweTypes, Few

LEMMA TypeInit == Init => TypeInv
<1> SUFFICES ASSUME Init PROVE TypeInv
  OBVIOUS
<1>1. HoldTypes
  <2>1. home \subseteq Devices /\ <<>> \in Seq(Lists) /\ Len(<<>>) = 0 /\ 0 <= MaxLists
    BY FollowerAssumption DEF Init, Devices
  <2>2. word \in [Devices -> Words]
    BY DEF Init, Words
  <2> QED  BY <2>1, <2>2 DEF Init, HoldTypes
<1>2. InHome
  <2>1. OnTheirWay = {}
    BY DEF Init, OnTheirWay
  <2> QED  BY <2>1 DEF Init, InHome, InHand
<1>3. OweTypes /\ AboutDevices
  BY DEF Init, OweTypes, AboutDevices
<1>4. Few
  <2>1. \A kind \in Kinds : {i \in queue : owed[i].kind = kind} = {} /\ KeepOwed[kind] \in Nat
    BY FollowerAssumption DEF Init
  <2> QED  BY <2>1, FS_EmptySet DEF Few
<1> QED  BY <1>1, <1>2, <1>3, <1>4 DEF TypeInv, HoldInv, OweInv

\* What a list of the master's is.
LEMMA ListNow ==
    ASSUME HoldInv, NEW keys \in Devices \cup {None}
    PROVE  /\ TheList(keys) \in Lists /\ TheList(keys).mine \subseteq home
           /\ Gone \in SUBSET Devices
BY DEF HoldInv, InHome, TheList, Lists, Mine, Listed, Gone

\* What has no part in holding leaves its types alone.
LEMMA HoldStays ==
    ASSUME HoldInv, UNCHANGED <<master, holder, lists, hold, people, running>>
    PROVE  HoldInv'
BY DEF HoldInv, HoldTypes, InHome, InHand, OnTheirWay, master, holder, people

LEMMA OweStays ==
    ASSUME OweInv, UNCHANGED <<masters, sending>>
    PROVE  OweInv'
BY DEF OweInv, OweTypes, Few, AboutDevices, masters, sending

LEMMA InHandSame ==
    ASSUME UNCHANGED <<asked, lists, hold>>
    PROVE  InHand' = InHand
BY DEF InHand, OnTheirWay

\* What the master, the network and people do.
LEMMA WorldTyped ==
    ASSUME HoldInv, World
    PROVE  HoldInv'
<1>1. ASSUME NEW d \in home, NEW w \in Words, Says(d, w)
      PROVE  HoldInv'
  <2>1. d \in Devices
    BY <1>1 DEF HoldInv, HoldTypes, Devices
  <2>2. HoldTypes'
    BY <1>1, <2>1 DEF HoldInv, HoldTypes, Says, holder, people
  <2>3. InHand' = InHand
    BY <1>1, InHandSame DEF Says, people
  <2> QED  BY <1>1, <2>1, <2>2, <2>3 DEF HoldInv, HoldTypes, InHome, Says
<1>2. ASSUME NEW d \in home, AboveTurns(d)
      PROVE  HoldInv'
  <2>1. d \in Devices
    BY <1>2 DEF HoldInv, HoldTypes, Devices
  <2> QED
    BY <1>2, <2>1 DEF HoldInv, HoldTypes, InHome, InHand, OnTheirWay, AboveTurns, holder, holding, people
<1>3. CASE MasterGone \/ MasterBack
  <2>1. UNCHANGED <<home, word, above, holder, holding, people, running>> /\ up' \in BOOLEAN
    BY <1>3 DEF MasterGone, MasterBack
  <2>2. HoldTypes'
    BY <2>1 DEF HoldInv, HoldTypes, holder, holding, people
  <2>3. InHand' = InHand
    BY <2>1, InHandSame DEF holding, people
  <2> QED  BY <2>1, <2>2, <2>3 DEF HoldInv, InHome
<1>4. ASSUME NEW d \in home, Saves(d)
      PROVE  HoldInv'
  <2>1. d \in Devices
    BY <1>4 DEF HoldInv, HoldTypes, Devices
  <2> QED
    BY <1>4, <2>1 DEF HoldInv, HoldTypes, InHome, InHand, OnTheirWay, Saves, Words, holder, holding
<1>5. ASSUME NEW d \in home, Removes(d)
      PROVE  HoldInv'
  <2>1. d \in Devices
    BY <1>5 DEF HoldInv, HoldTypes, Devices
  <2> QED
    BY <1>5, <2>1 DEF HoldInv, HoldTypes, InHome, InHand, OnTheirWay, Removes, Words, holder
<1>6. CASE Starts
  BY <1>6 DEF HoldInv, HoldTypes, InHome, InHand, OnTheirWay, Starts, master, holder, holding, people
<1>7. CASE Stops
  <2>1. asked' = [a \in Askers |-> None] /\ lists' = <<>> /\ hold' = None
    BY <1>7 DEF Stops
  <2>2. InHand' = {}
    BY <2>1 DEF InHand, OnTheirWay
  <2>3. lists' \in Seq(Lists) /\ Len(lists') <= MaxLists
    BY <2>1, FollowerAssumption
  <2>4. HoldTypes'
    BY <1>7, <2>3 DEF HoldInv, HoldTypes, Stops, master
  <2> QED
    BY <1>7, <2>2, <2>4 DEF HoldInv, InHome, Stops, master
<1> QED  BY <1>1, <1>2, <1>3, <1>4, <1>5, <1>6, <1>7 DEF World

\* A list handed in waits behind the others.
LEMMA HandedIn ==
    ASSUME HoldInv, NEW a \in Askers, NEW l \in Lists, Len(lists) < MaxLists,
           lists' = Append(lists, l), asked' = [asked EXCEPT ![a] = None], UNCHANGED hold
    PROVE  /\ lists' \in Seq(Lists) /\ Len(lists') <= MaxLists
           /\ InHand' \subseteq InHand \cup {l}
<1>1. lists \in Seq(Lists)
  BY DEF HoldInv, HoldTypes
<1>2. /\ lists' \in Seq(Lists) /\ Len(lists') = Len(lists) + 1 /\ lists'[Len(lists) + 1] = l
      /\ \A i \in 1..Len(lists) : lists'[i] = lists[i]
  BY <1>1, AppendProperties
<1>3. Len(lists) \in Nat /\ DOMAIN lists = 1..Len(lists) /\ DOMAIN lists' = 1..Len(lists')
  BY <1>1, <1>2, LenProperties
<1>4. \A i \in DOMAIN lists' : i \in DOMAIN lists \/ i = Len(lists) + 1
  BY <1>2, <1>3
<1>5. \A i \in DOMAIN lists' : lists'[i] = l \/ (i \in DOMAIN lists /\ lists'[i] = lists[i])
  BY <1>2, <1>3, <1>4
<1>6. Len(lists') <= MaxLists
  BY <1>2, <1>3, FollowerAssumption
<1>7. InHand' \subseteq InHand \cup {l}
  BY <1>5 DEF HoldInv, HoldTypes, InHand, OnTheirWay
<1> QED  BY <1>2, <1>6, <1>7

\* Asking for the list.
LEMMA AsksTyped ==
    ASSUME HoldInv, NEW a \in Askers, Asks(a) \/ Hands(a) \/ AskLost(a)
    PROVE  HoldInv'
<1>1. CASE Asks(a)
  <2> DEFINE l == TheList(IF a = "setup" THEN saving ELSE None)
  <2>1. l \in Lists /\ l.mine \subseteq home
    BY ListNow DEF HoldInv, HoldTypes
  <2>2. asked' = [asked EXCEPT ![a] = l] /\ UNCHANGED <<home, word, lists, hold>>
    BY <1>1 DEF Asks, master, holding
  <2> HIDE DEF l
  <2>3. InHand' \subseteq InHand \cup {l}
    BY <2>2 DEF HoldInv, HoldTypes, InHand, OnTheirWay
  <2>4. HoldTypes'
    BY <1>1, <2>1, <2>2 DEF HoldInv, HoldTypes, Asks, master, holder, holding
  <2> QED  BY <2>1, <2>2, <2>3, <2>4 DEF HoldInv, InHome
<1>2. CASE Hands(a)
  <2>1. PICK gone \in SUBSET Devices : lists' = Append(lists, [asked[a] EXCEPT !.gone = gone])
    BY <1>2, ListNow DEF Hands
  <2> DEFINE l == [asked[a] EXCEPT !.gone = gone]
  <2>2. asked[a] \in Lists /\ asked[a] \in InHand
    BY <1>2 DEF Hands, HoldInv, HoldTypes, InHand, OnTheirWay
  <2>3. l \in Lists /\ l.mine = asked[a].mine
    BY <2>2 DEF Lists
  <2>4. l.mine \subseteq home
    BY <2>2, <2>3 DEF HoldInv, InHome
  <2>5. UNCHANGED <<home, word, hold>> /\ asked' = [asked EXCEPT ![a] = None]
    BY <1>2 DEF Hands, master
  <2>6. lists' = Append(lists, l) /\ Len(lists) < MaxLists
    BY <1>2, <2>1 DEF Hands
  <2> HIDE DEF l
  <2>7. lists' \in Seq(Lists) /\ Len(lists') <= MaxLists /\ InHand' \subseteq InHand \cup {l}
    BY <2>3, <2>5, <2>6, HandedIn
  <2>8. HoldTypes'
    BY <1>2, <2>5, <2>7 DEF HoldInv, HoldTypes, Hands, master, holder
  <2> QED  BY <2>4, <2>5, <2>7, <2>8 DEF HoldInv, InHome
<1>3. CASE AskLost(a)
  <2>1. asked' = [asked EXCEPT ![a] = None] /\ UNCHANGED <<home, word, lists, hold>>
    BY <1>3 DEF AskLost, master, holding
  <2>2. InHand' \subseteq InHand
    BY <2>1 DEF HoldInv, HoldTypes, InHand, OnTheirWay
  <2>3. HoldTypes'
    BY <1>3, <2>1 DEF HoldInv, HoldTypes, AskLost, master, holder, holding
  <2> QED  BY <2>1, <2>2, <2>3 DEF HoldInv, InHome
<1> QED  BY <1>1, <1>2, <1>3

\* The first of the lists waiting, taken from them.
LEMMA HeadInHand ==
    ASSUME HoldInv, lists # <<>>, hold = None, lists' = Tail(lists), UNCHANGED asked
    PROVE  /\ Head(lists) \in Lists /\ Head(lists) \in InHand
           /\ lists' \in Seq(Lists) /\ Len(lists') <= MaxLists
           /\ OnTheirWay' \subseteq InHand
<1>1. lists \in Seq(Lists) /\ Len(lists) <= MaxLists
  BY DEF HoldInv, HoldTypes
<1>2. /\ Head(lists) \in Lists /\ lists' \in Seq(Lists) /\ Len(lists') = Len(lists) - 1
      /\ \A i \in 1..Len(lists') : lists'[i] = lists[i + 1]
  BY <1>1, HeadTailProperties
<1>3. Len(lists) \in Nat /\ DOMAIN lists = 1..Len(lists) /\ DOMAIN lists' = 1..Len(lists')
  BY <1>1, <1>2, LenProperties
<1>4. Head(lists) = lists[1] /\ 1 \in DOMAIN lists
  BY <1>1, <1>3
<1>5. Len(lists') <= MaxLists
  BY <1>1, <1>2, <1>3, FollowerAssumption
<1>6. \A i \in DOMAIN lists' : i + 1 \in DOMAIN lists /\ lists'[i] = lists[i + 1]
  BY <1>2, <1>3
<1>7. OnTheirWay' \subseteq OnTheirWay
  BY <1>6 DEF OnTheirWay
<1> QED  BY <1>2, <1>4, <1>5, <1>7 DEF InHand, OnTheirWay

\* What holding writes is typed.
LEMMA WritesTyped ==
    ASSUME NEW l \in Lists, l.mine \subseteq home, NEW left \in SUBSET home, Writes(l, left)
    PROVE  /\ kept' \subseteq home /\ left \subseteq kept' /\ holdNow' \subseteq Devices
           /\ hold' \in [list : Lists, closing : SUBSET Devices] /\ hold'.list = l
BY DEF Writes, Lists

LEMMA KeysGivenTyped ==
    ASSUME keyed \subseteq kept, NEW l, KeysGiven(l)
    PROVE  keyed' \subseteq kept
BY DEF KeysGiven

\* Holding from a list, step by step.
LEMMA HoldsTyped ==
    ASSUME HoldInv,
           HoldSkips \/ HoldBegins \/ HoldEnds \/ StartsAway \/ \E d \in Devices : HoldCloses(d)
    PROVE  HoldInv'
<1>1. CASE HoldSkips
  <2>1. /\ lists # <<>> /\ hold = None /\ hold' = None /\ lists' = Tail(lists)
        /\ UNCHANGED <<home, word, asked, kept>> /\ KeysGiven(Head(lists))
    BY <1>1 DEF HoldSkips, master, people
  <2>2. lists' \in Seq(Lists) /\ Len(lists') <= MaxLists /\ InHand' \subseteq InHand
    BY <2>1, HeadInHand DEF InHand
  <2>3. keyed' \subseteq kept'
    BY <2>1, KeysGivenTyped DEF HoldInv, HoldTypes
  <2>4. HoldTypes'
    BY <1>1, <2>1, <2>2, <2>3 DEF HoldInv, HoldTypes, HoldSkips, master, people
  <2> QED  BY <2>1, <2>2, <2>4 DEF HoldInv, InHome
<1>2. CASE HoldBegins
  <2> DEFINE l == Head(lists)
  <2>1. /\ lists # <<>> /\ hold = None /\ lists' = Tail(lists)
        /\ UNCHANGED <<home, word, asked, keyed>>
        /\ \/ Writes(l, kept)
           \/ hold' = [list |-> l, closing |-> kept \ l.mine] /\ UNCHANGED <<kept, holdNow>>
    BY <1>2 DEF HoldBegins, master, people
  <2>2. /\ l \in Lists /\ l \in InHand /\ lists' \in Seq(Lists) /\ Len(lists') <= MaxLists
        /\ OnTheirWay' \subseteq InHand
    BY <2>1, HeadInHand
  <2>3. l.mine \subseteq home /\ kept \subseteq home /\ home \subseteq Devices /\ keyed \subseteq kept
    BY <2>2 DEF HoldInv, HoldTypes, InHome, Devices
  <2> HIDE DEF l
  <2>4. /\ kept' \subseteq home /\ keyed' \subseteq kept' /\ holdNow' \subseteq Devices
        /\ hold' \in [list : Lists, closing : SUBSET Devices] /\ hold'.list = l
    <3>1. CASE Writes(l, kept)
      BY <2>1, <2>2, <2>3, <3>1, WritesTyped
    <3>2. CASE hold' = [list |-> l, closing |-> kept \ l.mine] /\ UNCHANGED <<kept, holdNow>>
      BY <2>1, <2>2, <2>3, <3>2 DEF HoldInv, HoldTypes
    <3> QED  BY <2>1, <3>1, <3>2
  <2>5. InHand' \subseteq InHand
    BY <2>2, <2>4 DEF InHand
  <2>6. HoldTypes'
    BY <1>2, <2>1, <2>2, <2>4 DEF HoldInv, HoldTypes, HoldBegins, master, people
  <2> QED  BY <2>1, <2>5, <2>6 DEF HoldInv, InHome
<1>3. ASSUME NEW d \in Devices, HoldCloses(d)
      PROVE  HoldInv'
  <2> DEFINE l == hold.list
  <2> DEFINE left == IF d \in LetsGo(l) THEN kept \ {d} ELSE kept
  <2>1. /\ hold # None /\ keyed' = keyed \cap left /\ UNCHANGED <<home, word, asked, lists>>
        /\ \/ Writes(l, left)
           \/ /\ kept' = left /\ UNCHANGED holdNow
              /\ hold' = [hold EXCEPT !.closing = hold.closing \ {d}]
    BY <1>3 DEF HoldCloses, master, people
  <2>2. l \in Lists /\ l \in InHand /\ hold \in [list : Lists, closing : SUBSET Devices]
    BY <2>1 DEF HoldInv, HoldTypes, InHand
  <2>3. l.mine \subseteq home /\ left \in SUBSET home
    BY <2>2 DEF HoldInv, HoldTypes, InHome
  <2> HIDE DEF left
  <2>4. /\ kept' \subseteq home /\ keyed' \subseteq kept' /\ holdNow' \subseteq Devices
        /\ hold' \in [list : Lists, closing : SUBSET Devices] /\ hold'.list = l
    <3>1. CASE Writes(l, left)
      <4> HIDE DEF l
      <4> QED  BY <2>1, <2>2, <2>3, <3>1, WritesTyped
    <3>2. CASE /\ kept' = left /\ UNCHANGED holdNow
               /\ hold' = [hold EXCEPT !.closing = hold.closing \ {d}]
      BY <2>1, <2>2, <2>3, <3>2 DEF HoldInv, HoldTypes
    <3> QED  BY <2>1, <3>1, <3>2
  <2>5. InHand' \subseteq InHand
    BY <2>1, <2>2, <2>4 DEF InHand, OnTheirWay
  <2> HIDE DEF l
  <2>6. HoldTypes'
    BY <1>3, <2>1, <2>4 DEF HoldInv, HoldTypes, HoldCloses, master, people
  <2> QED  BY <2>1, <2>5, <2>6 DEF HoldInv, InHome
<1>4. CASE HoldEnds
  <2>1. hold' = None /\ UNCHANGED <<home, word, asked, lists, kept>> /\ KeysGiven(hold.list)
    BY <1>4 DEF HoldEnds, master, people
  <2>2. keyed' \subseteq kept'
    BY <2>1, KeysGivenTyped DEF HoldInv, HoldTypes
  <2>3. HoldTypes'
    BY <1>4, <2>1, <2>2 DEF HoldInv, HoldTypes, HoldEnds, master, people
  <2>4. InHand' \subseteq InHand
    BY <2>1 DEF InHand, OnTheirWay
  <2> QED  BY <2>1, <2>3, <2>4 DEF HoldInv, InHome
<1>5. CASE StartsAway
  <2>1. asked' = [a \in Askers |-> None] /\ UNCHANGED <<home, word, lists, hold, kept>> /\ holdNow' = kept
    BY <1>5 DEF StartsAway, master, holding
  <2>2. InHand' \subseteq InHand
    BY <2>1 DEF InHand, OnTheirWay
  <2>3. kept \subseteq Devices
    BY DEF HoldInv, HoldTypes, Devices
  <2>4. HoldTypes'
    BY <1>5, <2>1, <2>3 DEF HoldInv, HoldTypes, StartsAway, master, holding
  <2> QED  BY <2>1, <2>2, <2>4 DEF HoldInv, InHome
<1> QED  BY <1>1, <1>2, <1>3, <1>4, <1>5

\* A device forgotten.
LEMMA ForgetsTyped ==
    ASSUME HoldInv, ForgetBegins \/ Forgets
    PROVE  HoldInv'
<1>1. UNCHANGED <<home, word, asked, lists, hold>>
  BY DEF ForgetBegins, Forgets, master, holding
<1>2. InHand' = InHand
  BY <1>1, InHandSame
<1>3. HoldTypes'
  <2>1. CASE ForgetBegins
    BY <1>1, <2>1 DEF HoldInv, HoldTypes, ForgetBegins, master, holder
  <2>2. CASE Forgets
    BY <1>1, <2>2 DEF HoldInv, HoldTypes, Forgets, master
  <2> QED  BY <2>1, <2>2
<1> QED  BY <1>1, <1>2, <1>3 DEF HoldInv, InHome

\* Owing one more: a row more at the end, and the newest of its kind kept.
LEMMA OwesRow ==
    ASSUME OweInv, NEW kind \in Kinds, NEW d \in Devices \cup {None}, Owes(kind, d)
    PROVE  /\ owed' \in Seq([kind : Kinds, device : Devices \cup {None}])
           /\ Len(owed) \in Nat /\ Len(owed') = Len(owed) + 1
           /\ DOMAIN owed = 1..Len(owed) /\ DOMAIN owed' = 1..Len(owed')
           /\ \A i \in DOMAIN owed : owed'[i] = owed[i]
           /\ owed'[Len(owed')] = [kind |-> kind, device |-> d]
           /\ queue' \subseteq queue \cup {Len(owed')} /\ queue \subseteq DOMAIN owed
           /\ queue \cup {Len(owed')} \subseteq queue' \cup trimmed'
           /\ trimmed \subseteq trimmed' /\ trimmed' \subseteq trimmed \cup queue \cup {Len(owed')}
<1> DEFINE row == [kind |-> kind, device |-> d]
<1> DEFINE Rows == [kind : Kinds, device : Devices \cup {None}]
<1>1. row \in Rows /\ owed \in Seq(Rows) /\ owed' = Append(owed, row) /\ queue \subseteq DOMAIN owed
  BY DEF OweInv, OweTypes, Owes
<1> HIDE DEF row, Rows
<1>2. /\ owed' \in Seq(Rows) /\ Len(owed') = Len(owed) + 1 /\ owed'[Len(owed) + 1] = row
      /\ \A i \in 1..Len(owed) : owed'[i] = owed[i]
  BY <1>1, AppendProperties
<1>3. Len(owed) \in Nat /\ DOMAIN owed = 1..Len(owed) /\ DOMAIN owed' = 1..Len(owed')
  BY <1>1, <1>2, LenProperties
<1> DEFINE q == queue \cup {Len(owed')}
<1>4. queue' = q \ Trim(q, kind) /\ trimmed' = trimmed \cup Trim(q, kind)
  BY DEF Owes
<1>5. Trim(q, kind) \subseteq q
  BY DEF Trim
<1>6. /\ queue' \subseteq q /\ q \subseteq queue' \cup trimmed'
      /\ trimmed \subseteq trimmed' /\ trimmed' \subseteq trimmed \cup q
  BY <1>4, <1>5
<1> QED  BY <1>1, <1>2, <1>3, <1>6 DEF row, Rows

\* However many are owed, of each kind no more are queued than are kept owed.
LEMMA OwesFew ==
    ASSUME OweInv, NEW kind \in Kinds, NEW d \in Devices \cup {None}, Owes(kind, d)
    PROVE  Few'
<1> DEFINE q == queue \cup {Len(owed')}
<1>1. /\ Len(owed) \in Nat /\ Len(owed') = Len(owed) + 1 /\ queue \subseteq 1..Len(owed)
      /\ \A i \in 1..Len(owed) : owed'[i] = owed[i]
      /\ owed'[Len(owed')] = [kind |-> kind, device |-> d]
  BY OwesRow
<1>2. queue' = q \ Trim(q, kind)
  BY DEF Owes
<1>3. q \in SUBSET Nat /\ IsFiniteSet(q)
  <2>1. q \subseteq 1..Len(owed')
    <3>1. Len(owed') \in 1..Len(owed') /\ 1..Len(owed) \subseteq 1..Len(owed')
      BY <1>1
    <3> QED  BY <1>1, <3>1
  <2>2. IsFiniteSet(1..Len(owed'))
    BY <1>1, FS_Interval
  <2> QED  BY <1>1, <2>1, <2>2, FS_Subset
<1> SUFFICES ASSUME NEW k \in Kinds
             PROVE  Cardinality({i \in queue' : owed'[i].kind = k}) <= KeepOwed[k]
  BY DEF Few
<1>4. KeepOwed[k] \in Nat
  BY FollowerAssumption
<1>5. CASE k = kind
  <2> DEFINE S == {i \in q : owed'[i].kind = kind}
  <2>1. S \in SUBSET Nat /\ IsFiniteSet(S)
    <3>1. S \in SUBSET q
      OBVIOUS
    <3> QED  BY <1>3, <3>1, FS_Subset
  <2>2. ASSUME NEW i \in queue', owed'[i].kind = kind
        PROVE  i \in S /\ After(S, i) < KeepOwed[k]
    <3>1. i \in q /\ i \notin Trim(q, kind)
      BY <1>2
    <3>2. {j \in S : j > i} = {j \in q : j > i /\ owed'[j].kind = kind}
      OBVIOUS
    <3>3. {j \in S : j > i} \in SUBSET S
      OBVIOUS
    <3>4. After(S, i) \in Nat
      BY <2>1, <3>3, FS_Subset, FS_CardinalityType DEF After
    <3>5. ~ (After(S, i) >= KeepOwed[kind])
      BY <2>2, <3>1, <3>2 DEF Trim, After
    <3> QED  BY <1>4, <1>5, <2>2, <3>1, <3>4, <3>5
  <2> DEFINE N == {i \in S : After(S, i) < KeepOwed[k]}
  <2>3. {i \in queue' : owed'[i].kind = k} \in SUBSET N
    BY <1>5, <2>2
  <2>4. N \in SUBSET S
    OBVIOUS
  <2>5. Cardinality(N) <= KeepOwed[k]
    <3> HIDE DEF S
    <3> QED  BY <1>4, <2>1, NewestFew
  <2> HIDE DEF N, S
  <2>6. IsFiniteSet(N) /\ Cardinality(N) \in Nat
    BY <2>1, <2>4, FS_Subset, FS_CardinalityType
  <2> DEFINE K == {i \in queue' : owed'[i].kind = k}
  <2>7. K \in SUBSET N
    BY <2>3
  <2> HIDE DEF K
  <2>8. Cardinality(K) <= Cardinality(N) /\ Cardinality(K) \in Nat
    BY <2>6, <2>7, FS_Subset, FS_CardinalityType
  <2>9. Cardinality(K) <= KeepOwed[k]
    BY <1>4, <2>5, <2>6, <2>8
  <2> QED  BY <2>9 DEF K
<1>6. CASE k # kind
  <2> DEFINE K == {i \in queue' : owed'[i].kind = k}
  <2> DEFINE P == {i \in queue : owed[i].kind = k}
  <2>1. K \in SUBSET P
    <3> SUFFICES ASSUME NEW i \in queue', owed'[i].kind = k
                 PROVE  i \in queue /\ owed[i].kind = k
      OBVIOUS
    <3>1. i \in queue \/ i = Len(owed')
      BY <1>2
    <3>2. i # Len(owed')
      BY <1>1, <1>6
    <3> QED  BY <1>1, <3>1, <3>2
  <2>2. P \in SUBSET q
    OBVIOUS
  <2>3. Cardinality(P) <= KeepOwed[k]
    BY DEF OweInv, Few
  <2> HIDE DEF P, K
  <2>4. IsFiniteSet(P) /\ Cardinality(P) \in Nat
    BY <1>3, <2>2, FS_Subset, FS_CardinalityType
  <2>5. Cardinality(K) <= Cardinality(P) /\ Cardinality(K) \in Nat
    BY <2>1, <2>4, FS_Subset, FS_CardinalityType
  <2>6. Cardinality(K) <= KeepOwed[k]
    BY <1>4, <2>3, <2>4, <2>5
  <2> QED  BY <2>6 DEF K
<1> QED  BY <1>5, <1>6

\* What leaves the queue leaves no more of a kind than there were.
LEMMA FewerStillFew ==
    ASSUME TypeOK, queue' \subseteq queue, UNCHANGED owed
    PROVE  Few'
<1> SUFFICES ASSUME NEW k \in Kinds
             PROVE  Cardinality({i \in queue' : owed[i].kind = k}) <= KeepOwed[k]
  BY DEF Few
<1> DEFINE K == {i \in queue' : owed[i].kind = k}
<1> DEFINE P == {i \in queue : owed[i].kind = k}
<1>1. K \in SUBSET P /\ P \in SUBSET queue
  OBVIOUS
<1>2. Cardinality(P) <= KeepOwed[k] /\ KeepOwed[k] \in Nat
  BY FollowerAssumption DEF TypeOK
<1> HIDE DEF P, K
<1>3. IsFiniteSet(P) /\ Cardinality(P) \in Nat
  BY <1>1, QueueFinite
<1>4. Cardinality(K) <= Cardinality(P) /\ Cardinality(K) \in Nat
  BY <1>1, <1>3, FS_Subset, FS_CardinalityType
<1>5. Cardinality(K) <= KeepOwed[k]
  BY <1>2, <1>3, <1>4
<1> QED  BY <1>5 DEF K

\* What the sends do.
LEMMA SendingTyped ==
    ASSUME OweInv, TypeOK, Sending
    PROVE  OweInv'
<1>1. ASSUME NEW kind \in Kinds, NEW d \in Devices \cup {None}, Owes(kind, d)
      PROVE  OweInv'
  <2>1. Few'
    BY <1>1, OwesFew
  <2>2. /\ owed' \in Seq([kind : Kinds, device : Devices \cup {None}])
        /\ Len(owed) \in Nat /\ Len(owed') = Len(owed) + 1
        /\ DOMAIN owed = 1..Len(owed) /\ DOMAIN owed' = 1..Len(owed')
        /\ \A i \in DOMAIN owed : owed'[i] = owed[i]
        /\ owed'[Len(owed')] = [kind |-> kind, device |-> d]
        /\ queue' \subseteq queue \cup {Len(owed')}
        /\ trimmed' \subseteq trimmed \cup queue \cup {Len(owed')}
    BY <1>1, OwesRow
  <2>3. /\ DOMAIN owed \subseteq DOMAIN owed' /\ Len(owed') \in DOMAIN owed'
        /\ \A i \in DOMAIN owed' : i \in DOMAIN owed \/ i = Len(owed')
    BY <2>2
  <2>4. UNCHANGED <<taken, store, refused, send>> /\ (d = None <=> kind = "audit")
    <3>1. None \notin Devices
      BY FollowerAssumption
    <3>2. kept \subseteq Devices
      BY DEF TypeOK, Devices
    <3> QED  BY <1>1, <3>1, <3>2 DEF Owes, Kinds, masters
  <2>5. queue' \cup taken' \cup refused' \cup trimmed' \subseteq DOMAIN owed'
    BY <2>2, <2>3, <2>4 DEF OweInv, OweTypes
  <2>6. store' \in [Devices -> {0} \cup DOMAIN owed']
    BY <2>3, <2>4 DEF OweInv, OweTypes
  <2>7. send' # None => send' \in [calls : Seq(SUBSET DOMAIN owed') \ {<<>>},
                                   said : {"nothing", "taken", "refused"}]
    <3> SUFFICES ASSUME send # None
                 PROVE  send \in [calls : Seq(SUBSET DOMAIN owed') \ {<<>>},
                                  said : {"nothing", "taken", "refused"}]
      BY <2>4
    <3>1. send \in [calls : Seq(SUBSET DOMAIN owed) \ {<<>>}, said : {"nothing", "taken", "refused"}]
      BY DEF OweInv, OweTypes
    <3>2. SUBSET DOMAIN owed \subseteq SUBSET DOMAIN owed'
      BY <2>3
    <3>3. send.calls \in Seq(SUBSET DOMAIN owed')
      BY <3>1, <3>2, SeqMonotonic
    <3> QED  BY <3>1, <3>3
  <2>8. AboutDevices'
    <3> SUFFICES ASSUME NEW i \in DOMAIN owed', owed'[i].device = None
                 PROVE  owed'[i].kind = "audit"
      BY DEF AboutDevices
    <3> QED  BY <2>2, <2>3, <2>4 DEF OweInv, AboutDevices
  <2> QED  BY <2>1, <2>2, <2>5, <2>6, <2>7, <2>8 DEF OweInv, OweTypes
<1>2. CASE SendBegins
  <2>1. Calls \in Seq(SUBSET queue) \ {<<>>}
    BY <1>2, CallsInLine DEF SendBegins
  <2>2. queue \subseteq DOMAIN owed
    BY DEF OweInv, OweTypes
  <2>3. Calls \in Seq(SUBSET DOMAIN owed) \ {<<>>}
    <3>1. SUBSET queue \subseteq SUBSET DOMAIN owed
      BY <2>2
    <3> QED  BY <2>1, <3>1, SeqMonotonic
  <2> QED  BY <1>2, <2>3 DEF OweInv, OweTypes, Few, AboutDevices, SendBegins, masters
<1>3. CASE CallArrives
  <2>1. /\ send # None /\ UNCHANGED <<owed, queue, refused, trimmed>>
        /\ send' = [send EXCEPT !.said = "taken"] \/ send' = [send EXCEPT !.said = "refused"]
    BY <1>3 DEF CallArrives
  <2>2. /\ send \in [calls : Seq(SUBSET DOMAIN owed) \ {<<>>}, said : {"nothing", "taken", "refused"}]
        /\ Head(send.calls) \subseteq DOMAIN owed
    <3>1. send \in [calls : Seq(SUBSET DOMAIN owed) \ {<<>>}, said : {"nothing", "taken", "refused"}]
      BY <2>1 DEF OweInv, OweTypes
    <3> QED  BY <3>1, HeadTailProperties
  <2>3. taken' \subseteq DOMAIN owed
    BY <1>3, <2>2 DEF CallArrives, OweInv, OweTypes
  <2>4. store' \in [Devices -> {0} \cup DOMAIN owed]
    <3>1. CASE UNCHANGED store
      BY <3>1 DEF OweInv, OweTypes
    <3>2. CASE store' = [d \in Devices |->
                  IF \E i \in Head(send.calls) : owed[i] = [kind |-> "store", device |-> d]
                  THEN CHOOSE i \in Head(send.calls) : TRUE ELSE store[d]]
      <4>1. ASSUME NEW i \in Head(send.calls)
            PROVE  (CHOOSE j \in Head(send.calls) : TRUE) \in DOMAIN owed
        BY <2>2
      <4> QED  BY <3>2, <4>1 DEF OweInv, OweTypes
    <3> QED  BY <1>3, <3>1, <3>2 DEF CallArrives
  <2> QED  BY <2>1, <2>2, <2>3, <2>4 DEF OweInv, OweTypes, Few, AboutDevices
<1>4. CASE CallAnswered
  <2>1. /\ send # None /\ queue' \subseteq queue /\ UNCHANGED <<owed, taken, store, trimmed>>
        /\ refused' \subseteq refused \cup Head(send.calls) /\ send' = NextCall
    BY <1>4 DEF CallAnswered, masters
  <2>2. send.calls \in Seq(SUBSET DOMAIN owed) /\ send.calls # <<>>
    BY <2>1 DEF OweInv, OweTypes
  <2>3. /\ Head(send.calls) \subseteq DOMAIN owed /\ Tail(send.calls) \in Seq(SUBSET DOMAIN owed)
        /\ Len(Tail(send.calls)) = Len(send.calls) - 1
    BY <2>2, HeadTailProperties
  <2>4. Len(send.calls) # 1 => Tail(send.calls) # <<>>
    <3>1. Len(send.calls) \in Nat /\ Len(send.calls) # 0
      BY <2>2, EmptySeq
    <3>2. Tail(send.calls) = <<>> => Len(Tail(send.calls)) = 0
      BY EmptySeq
    <3> QED  BY <2>3, <3>1, <3>2
  <2>5. send' # None => send' \in [calls : Seq(SUBSET DOMAIN owed) \ {<<>>},
                                   said : {"nothing", "taken", "refused"}]
    BY <2>1, <2>3, <2>4 DEF NextCall
  <2>6. Few'
    BY <2>1, FewerStillFew DEF OweInv
  <2> QED  BY <2>1, <2>3, <2>5, <2>6 DEF OweInv, OweTypes, AboutDevices
<1>5. CASE CallLost
  BY <1>5 DEF CallLost, AfterFailure, OweInv, OweTypes, Few, AboutDevices, masters
<1> QED  BY <1>1, <1>2, <1>3, <1>4, <1>5 DEF Sending

LEMMA TypeStep == TypeInv /\ [Next]_vars => TypeInv'
<1> SUFFICES ASSUME TypeInv, [Next]_vars PROVE TypeInv'
  OBVIOUS
<1>1. TypeOK
  BY TypeParts DEF TypeInv, HoldInv, OweInv
<1>2. CASE World
  <2>1. HoldInv'
    BY <1>2, WorldTyped DEF TypeInv
  <2>2. CASE Stops
    BY <2>1, <2>2 DEF Stops, TypeInv, OweInv, OweTypes, Few, AboutDevices, masters
  <2>3. CASE ~ Stops
    <3>1. UNCHANGED <<masters, sending>>
      BY <1>2, <2>3 DEF World, Says, AboveTurns, MasterGone, MasterBack, Saves, Removes, Starts
    <3> QED  BY <2>1, <3>1, OweStays DEF TypeInv
  <2> QED  BY <2>2, <2>3
<1>3. CASE Holding
  <2>1. HoldInv'
    BY <1>3, AsksTyped, HoldsTyped, ForgetsTyped DEF Holding, TypeInv
  <2>2. UNCHANGED <<masters, sending>>
    BY <1>3 DEF Holding, Asks, Hands, AskLost, HoldSkips, HoldBegins, HoldCloses, HoldEnds,
                ForgetBegins, Forgets, StartsAway
  <2> QED  BY <2>1, <2>2, OweStays DEF TypeInv
<1>4. CASE Sending
  <2>1. UNCHANGED <<master, holder, lists, hold, people, running>>
    BY <1>4 DEF Sending, Owes, SendBegins, CallArrives, CallAnswered, CallLost, holding
  <2> QED  BY <1>1, <1>4, <2>1, HoldStays, SendingTyped DEF TypeInv
<1>5. CASE UNCHANGED vars
  BY <1>5, HoldStays, OweStays DEF TypeInv, vars, holding
<1> QED  BY <1>2, <1>3, <1>4, <1>5 DEF Next

\* Whatever is asked, lost, owed or stopped, this node keeps no keys of a device
\* it does not keep, and owes no more of a kind than it keeps owed.
THEOREM TypeCorrect == Spec => []TypeOK
<1>1. Spec => []TypeInv
  BY TypeInit, TypeStep, PTL DEF Spec
<1>2. TypeInv => TypeOK
  BY TypeParts DEF TypeInv, HoldInv, OweInv
<1> QED  BY <1>1, <1>2, PTL

-----------------------------------------------------------------------------
(* Nothing owed is lost.                                                   *)

LEMMA NoneLostInit == Init => NoneLostInv
BY DEF Init, NoneLostInv, NoneLost, TakenWhole

LEMMA NoneLostStep ==
    ASSUME TypeInv, NoneLostInv, [Next]_vars
    PROVE  NoneLostInv'
<1>1. CASE World \/ Holding \/ UNCHANGED vars
  <2>1. UNCHANGED <<owed, queue, taken, refused, trimmed>> /\ (send' = send \/ send' = None)
    BY <1>1 DEF World, Says, AboveTurns, MasterGone, MasterBack, Saves, Removes, Starts, Stops,
                Holding, Asks, Hands, AskLost, HoldSkips, HoldBegins, HoldCloses, HoldEnds,
                ForgetBegins, Forgets, StartsAway, sending, masters, vars
  <2> QED  BY <2>1 DEF NoneLostInv, NoneLost, TakenWhole
<1>2. ASSUME NEW kind \in Kinds, NEW d \in Devices \cup {None}, Owes(kind, d)
      PROVE  NoneLostInv'
  <2>1. /\ Len(owed) \in Nat /\ Len(owed') = Len(owed) + 1
        /\ DOMAIN owed = 1..Len(owed) /\ DOMAIN owed' = 1..Len(owed')
        /\ queue' \subseteq queue \cup {Len(owed')}
        /\ queue \cup {Len(owed')} \subseteq queue' \cup trimmed'
        /\ trimmed \subseteq trimmed' /\ trimmed' \subseteq trimmed \cup queue \cup {Len(owed')}
    BY <1>2, OwesRow DEF TypeInv
  <2>2. DOMAIN owed' = DOMAIN owed \cup {Len(owed')}
    BY <2>1
  <2>3. UNCHANGED <<taken, refused, send>>
    BY <1>2 DEF Owes, masters
  <2> QED  BY <2>1, <2>2, <2>3 DEF NoneLostInv, NoneLost, TakenWhole
<1>3. CASE SendBegins
  BY <1>3 DEF SendBegins, NoneLostInv, NoneLost, TakenWhole, masters
<1>4. CASE CallArrives
  <2>1. /\ send \in [calls : Seq(SUBSET DOMAIN owed) \ {<<>>}, said : {"nothing", "taken", "refused"}]
        /\ Head(send.calls) \subseteq DOMAIN owed
    <3>1. send \in [calls : Seq(SUBSET DOMAIN owed) \ {<<>>}, said : {"nothing", "taken", "refused"}]
      BY <1>4 DEF CallArrives, TypeInv, OweInv, OweTypes
    <3> QED  BY <3>1, HeadTailProperties
  <2>2. UNCHANGED <<owed, queue, refused, trimmed>>
    BY <1>4 DEF CallArrives
  <2>3. CASE send' = [send EXCEPT !.said = "taken"] /\ taken' = taken \cup Head(send.calls)
    BY <2>1, <2>2, <2>3 DEF NoneLostInv, NoneLost, TakenWhole
  <2>4. CASE send' = [send EXCEPT !.said = "refused"] /\ UNCHANGED taken
    BY <2>1, <2>2, <2>4 DEF NoneLostInv, NoneLost, TakenWhole
  <2> QED  BY <1>4, <2>3, <2>4 DEF CallArrives
<1>5. CASE CallAnswered
  <2>1. /\ Head(send.calls) \subseteq DOMAIN owed
        /\ send.said = "taken" => Head(send.calls) \subseteq taken
    <3>1. send.calls \in Seq(SUBSET DOMAIN owed) /\ send.calls # <<>> /\ send # None
      BY <1>5 DEF CallAnswered, TypeInv, OweInv, OweTypes
    <3> QED  BY <3>1, HeadTailProperties DEF NoneLostInv, TakenWhole
  <2>2. /\ send.said \in {"taken", "refused"} /\ queue' = queue \ Head(send.calls)
        /\ refused' = IF send.said = "refused" THEN refused \cup Head(send.calls) ELSE refused
        /\ UNCHANGED <<owed, taken, trimmed>>
    BY <1>5 DEF CallAnswered, Sent, masters
  <2>3. NoneLost'
    BY <2>1, <2>2 DEF NoneLostInv, NoneLost
  <2>4. send' = None \/ send'.said = "nothing"
    BY <1>5 DEF CallAnswered, NextCall
  <2> QED  BY <2>3, <2>4 DEF NoneLostInv, TakenWhole
<1>6. CASE CallLost
  BY <1>6 DEF CallLost, AfterFailure, NoneLostInv, NoneLost, TakenWhole, masters
<1> QED  BY <1>1, <1>2, <1>3, <1>4, <1>5, <1>6 DEF Next, Sending

\* What this node owes its master is queued, taken, refused for good or pushed
\* out by newer of its kind: a lost call, a lost answer and a restart lose none.
THEOREM OwedNeverLost == Spec => []NoneLost
<1>1. TypeInv /\ NoneLostInv /\ [Next]_vars => NoneLostInv'
  BY NoneLostStep
<1>2. Spec => [](TypeInv /\ NoneLostInv)
  BY <1>1, TypeInit, TypeStep, NoneLostInit, PTL DEF Spec
<1>3. TypeInv /\ NoneLostInv => NoneLost
  BY DEF NoneLostInv
<1> QED  BY <1>2, <1>3, PTL

-----------------------------------------------------------------------------
(* The master's copy of a device's store.                                  *)

LEMMA StoreInit == Init => StoreInv
BY DEF Init, StoreInv, NotPassed

\* The calls of the send under way are of rows there are.
LEMMA CallRows ==
    ASSUME TypeInv, send # None
    PROVE  /\ send.calls \in Seq(SUBSET DOMAIN owed) /\ send.calls # <<>>
           /\ DOMAIN send.calls = 1..Len(send.calls) /\ Len(send.calls) \in Nat
           /\ 1 \in DOMAIN send.calls /\ Head(send.calls) = send.calls[1]
           /\ \A n \in DOMAIN send.calls : send.calls[n] \subseteq DOMAIN owed
           /\ DOMAIN owed \subseteq Nat
<1>1. send.calls \in Seq(SUBSET DOMAIN owed) /\ send.calls # <<>>
  BY DEF TypeInv, OweInv, OweTypes
<1>2. DOMAIN send.calls = 1..Len(send.calls) /\ Len(send.calls) \in Nat /\ Len(send.calls) # 0
  BY <1>1, LenProperties, EmptySeq
<1>3. \A n \in DOMAIN send.calls : send.calls[n] \subseteq DOMAIN owed
  BY <1>1, <1>2, ElementOfSeq
<1>4. DOMAIN owed \subseteq Nat
  <2>1. TypeOK
    BY TypeParts DEF TypeInv, HoldInv, OweInv
  <2> QED  BY <2>1, OwedRows
<1> QED  BY <1>1, <1>2, <1>3, <1>4

\* A row of what a session kept is about a device, and the master's copy of it
\* is a number.
LEMMA StoreRow ==
    ASSUME TypeInv, NEW i \in DOMAIN owed, IsStore(i)
    PROVE  owed[i].device \in Devices /\ owed[i] = [kind |-> "store", device |-> owed[i].device]
<1>1. TypeOK
  BY TypeParts DEF TypeInv, HoldInv, OweInv
<1>2. owed[i] \in [kind : Kinds, device : Devices \cup {None}]
  BY <1>1, OwedRows
<1> QED  BY <1>2 DEF TypeInv, OweInv, AboutDevices, IsStore

\* One more owed is newer than all the master has.
LEMMA StoreOwes ==
    ASSUME TypeInv, StoreInv, NEW kind \in Kinds, NEW d \in Devices \cup {None}, Owes(kind, d)
    PROVE  StoreInv'
<1>1. /\ Len(owed) \in Nat /\ Len(owed') = Len(owed) + 1
      /\ DOMAIN owed = 1..Len(owed) /\ DOMAIN owed' = 1..Len(owed')
      /\ \A i \in DOMAIN owed : owed'[i] = owed[i]
      /\ owed'[Len(owed')] = [kind |-> kind, device |-> d]
      /\ queue' \subseteq queue \cup {Len(owed')} /\ queue \subseteq DOMAIN owed
  BY OwesRow DEF TypeInv
<1>2. UNCHANGED <<store, send>> /\ store \in [Devices -> {0} \cup DOMAIN owed]
  BY DEF Owes, masters, TypeInv, OweInv, OweTypes
<1>3. kind = "store" => d \in Devices
  <2>1. kept \subseteq Devices
    BY DEF TypeInv, HoldInv, HoldTypes, Devices
  <2> QED  BY <2>1 DEF Owes
<1>4. \A i \in DOMAIN owed : IsStore(i)' = IsStore(i)
  BY <1>1 DEF IsStore
<1>5. NotPassed(queue)'
  <2> SUFFICES ASSUME NEW i \in queue', IsStore(i)'
               PROVE  store[owed'[i].device] <= i
    BY <1>2 DEF NotPassed
  <2>1. CASE i \in queue
    BY <1>1, <1>4, <2>1 DEF StoreInv, NotPassed
  <2>2. CASE i = Len(owed')
    <3>1. kind = "store" /\ owed'[i].device = d
      BY <1>1, <2>2 DEF IsStore
    <3>2. store[d] \in 0..Len(owed)
      BY <1>1, <1>2, <1>3, <3>1
    <3> QED  BY <1>1, <2>2, <3>1, <3>2
  <2> QED  BY <1>1, <2>1, <2>2
<1>6. ASSUME send # None
      PROVE  InLine(send.calls)' /\ \A n \in DOMAIN send.calls : NotPassed(send.calls[n])'
  <2>1. \A n \in DOMAIN send.calls : send.calls[n] \subseteq DOMAIN owed
    BY <1>6, CallRows
  <2>2. InLine(send.calls) /\ \A n \in DOMAIN send.calls : NotPassed(send.calls[n])
    BY <1>6 DEF StoreInv
  <2>3. \A n \in DOMAIN send.calls : NotPassed(send.calls[n])'
    BY <1>1, <1>2, <1>4, <2>1, <2>2 DEF NotPassed
  <2>4. ASSUME NEW n \in DOMAIN send.calls, NEW i \in send.calls[n], NEW j \in queue',
               IsStore(i)', IsStore(j)', j < i
        PROVE  \E m \in DOMAIN send.calls : m < n /\ j \in send.calls[m]
    <3>1. i \in DOMAIN owed /\ j # Len(owed')
      BY <1>1, <2>1, <2>4
    <3>2. j \in queue
      BY <1>1, <3>1
    <3> QED  BY <1>1, <1>4, <2>2, <2>4, <3>1, <3>2 DEF InLine
  <2>5. \A n \in DOMAIN send.calls : \A i \in send.calls[n] : IsStore(i)' => send.calls[n] = {i}
    BY <1>4, <2>1, <2>2 DEF InLine
  <2>6. \A n, m \in DOMAIN send.calls : n < m =>
            \A i \in send.calls[n], j \in send.calls[m] : IsStore(i)' /\ IsStore(j)' => i < j
    BY <1>4, <2>1, <2>2 DEF InLine
  <2> QED  BY <1>2, <2>3, <2>4, <2>5, <2>6 DEF InLine
<1> QED  BY <1>2, <1>5, <1>6 DEF StoreInv

\* The master takes the first call: its copy comes to what was kept then, and
\* all there is left to send is newer.
LEMMA StoreArrives ==
    ASSUME TypeInv, StoreInv, CallArrives
    PROVE  StoreInv' /\ \A d \in Devices : store[d] <= store'[d]
<1> DEFINE calls == send.calls
<1> DEFINE rows == Head(send.calls)
<1>1. /\ send # None /\ send'.calls = calls /\ UNCHANGED <<owed, queue>>
      /\ store \in [Devices -> {0} \cup DOMAIN owed]
  <2>1. send # None => send \in [calls : Seq(SUBSET DOMAIN owed) \ {<<>>},
                                 said : {"nothing", "taken", "refused"}]
    BY DEF TypeInv, OweInv, OweTypes
  <2>2. store \in [Devices -> {0} \cup DOMAIN owed]
    BY DEF TypeInv, OweInv, OweTypes
  <2>3. UNCHANGED <<owed, queue>> /\ send # None
    BY DEF CallArrives
  <2>4. send' = [send EXCEPT !.said = "taken"] \/ send' = [send EXCEPT !.said = "refused"]
    BY DEF CallArrives
  <2>5. send'.calls = calls
    BY <2>1, <2>3, <2>4
  <2> QED  BY <2>2, <2>3, <2>5
<1>2. /\ 1 \in DOMAIN calls /\ rows = calls[1] /\ DOMAIN calls = 1..Len(calls) /\ Len(calls) \in Nat
      /\ \A n \in DOMAIN calls : calls[n] \subseteq DOMAIN owed
      /\ DOMAIN owed \subseteq Nat /\ queue \subseteq DOMAIN owed
  BY <1>1, CallRows DEF TypeInv, OweInv, OweTypes
<1>3. InLine(calls) /\ (\A n \in DOMAIN calls : NotPassed(calls[n])) /\ NotPassed(queue)
  BY <1>1 DEF StoreInv
<1>4. InLine(send.calls)'
  BY <1>1, <1>3 DEF InLine, IsStore
<1> HIDE DEF calls, rows
<1>5. \A d \in Devices : store[d] \in Nat
  BY <1>1, <1>2
<1>6. CASE UNCHANGED store
  <2>1. NotPassed(queue)'
    BY <1>1, <1>3, <1>6 DEF NotPassed, IsStore
  <2>2. \A n \in DOMAIN send'.calls : NotPassed(send.calls[n])'
    BY <1>1, <1>3, <1>6 DEF NotPassed, IsStore, calls
  <2> QED  BY <1>4, <1>5, <1>6, <2>1, <2>2 DEF StoreInv
<1>7. CASE store' = [d \in Devices |->
              IF \E i \in rows : owed[i] = [kind |-> "store", device |-> d]
              THEN CHOOSE i \in rows : TRUE ELSE store[d]]
  <2>1. ASSUME NEW d \in Devices
        PROVE  \/ store'[d] = store[d]
               \/ \E i \in rows : IsStore(i) /\ owed[i].device = d /\ rows = {i} /\ store'[d] = i
    <3>1. CASE \E i \in rows : owed[i] = [kind |-> "store", device |-> d]
      <4>1. PICK i \in rows : owed[i] = [kind |-> "store", device |-> d]
        BY <3>1
      <4>2. IsStore(i) /\ owed[i].device = d
        BY <4>1 DEF IsStore
      <4>3. rows = {i}
        BY <1>2, <1>3, <4>2 DEF InLine
      <4>4. store'[d] = i
        BY <1>7, <3>1, <4>3
      <4> QED  BY <4>2, <4>3, <4>4
    <3>2. CASE ~ \E i \in rows : owed[i] = [kind |-> "store", device |-> d]
      BY <1>7, <3>2
    <3> QED  BY <3>1, <3>2
  <2>2. ASSUME NEW d \in Devices
        PROVE  store[d] <= store'[d]
    <3>1. CASE store'[d] = store[d]
      BY <1>5, <3>1
    <3>2. ASSUME NEW i \in rows, IsStore(i), owed[i].device = d, store'[d] = i
          PROVE  store[d] <= store'[d]
      BY <1>2, <1>3, <3>2 DEF NotPassed
    <3> QED  BY <2>1, <3>1, <3>2
  <2>3. ASSUME NEW j \in DOMAIN owed, IsStore(j), store[owed[j].device] <= j,
               \A i \in rows : IsStore(i) => i <= j
        PROVE  store'[owed[j].device] <= j
    <3>1. owed[j].device \in Devices
      BY <2>3, StoreRow
    <3> QED  BY <2>1, <2>3, <3>1
  <2>4. NotPassed(queue)'
    <3> SUFFICES ASSUME NEW j \in queue, IsStore(j)
                 PROVE  store'[owed[j].device] <= j
      BY <1>1 DEF NotPassed, IsStore
    <3>1. j \in DOMAIN owed /\ store[owed[j].device] <= j /\ j \in Nat
      BY <1>2, <1>3 DEF NotPassed
    <3>2. ASSUME NEW i \in rows, IsStore(i)
          PROVE  i <= j
      <4>1. i \in Nat
        BY <1>2
      <4>2. ~ (j < i)
        <5> SUFFICES ASSUME j < i PROVE FALSE
          OBVIOUS
        <5>1. PICK m \in DOMAIN calls : m < 1 /\ j \in calls[m]
          BY <1>2, <1>3, <3>2 DEF InLine
        <5> QED  BY <1>2, <5>1
      <4> QED  BY <3>1, <4>1, <4>2
    <3> QED  BY <2>3, <3>1, <3>2
  <2>5. ASSUME NEW n \in DOMAIN calls
        PROVE  NotPassed(send.calls[n])'
    <3> SUFFICES ASSUME NEW j \in calls[n], IsStore(j)
                 PROVE  store'[owed[j].device] <= j
      BY <1>1 DEF NotPassed, IsStore, calls
    <3>1. j \in DOMAIN owed /\ store[owed[j].device] <= j /\ j \in Nat
      BY <1>2, <1>3 DEF NotPassed
    <3>2. ASSUME NEW i \in rows, IsStore(i)
          PROVE  i <= j
      <4>1. CASE n = 1
        BY <1>2, <1>3, <3>1, <3>2, <4>1 DEF InLine
      <4>2. CASE 1 < n
        BY <1>2, <1>3, <3>1, <3>2, <4>2 DEF InLine
      <4> QED  BY <1>2, <4>1, <4>2
    <3> QED  BY <2>3, <3>1, <3>2
  <2> QED  BY <1>1, <1>4, <2>2, <2>4, <2>5 DEF StoreInv
<1> QED  BY <1>6, <1>7 DEF CallArrives, rows

\* A send begun: all it is to send is queued.
LEMMA StoreBegins ==
    ASSUME TypeInv, StoreInv, SendBegins
    PROVE  StoreInv'
<1>1. send' = [calls |-> Calls, said |-> "nothing"] /\ UNCHANGED <<owed, queue, store>>
  BY DEF SendBegins, masters
<1>2. Calls \in Seq(SUBSET queue) /\ InLine(Calls)
  <2>1. TypeOK /\ queue # {}
    BY TypeParts DEF SendBegins, TypeInv, HoldInv, OweInv
  <2> QED  BY <2>1, CallsInLine
<1>3. \A n \in DOMAIN Calls : Calls[n] \subseteq queue
  BY <1>2, LenProperties, ElementOfSeq
<1>4. send'.calls = Calls
  BY <1>1
<1>5. InLine(send.calls)'
  BY <1>1, <1>2, <1>4 DEF InLine, IsStore
<1>6. \A n \in DOMAIN send'.calls : NotPassed(send.calls[n])'
  BY <1>1, <1>3, <1>4 DEF StoreInv, NotPassed, IsStore
<1>7. NotPassed(queue)'
  BY <1>1 DEF StoreInv, NotPassed, IsStore
<1> QED  BY <1>5, <1>6, <1>7 DEF StoreInv

\* The first call answered: what it took up is queued no more, and what is left
\* is in line.
LEMMA StoreAnswered ==
    ASSUME TypeInv, StoreInv, CallAnswered
    PROVE  StoreInv'
<1> DEFINE calls == send.calls
<1>1. /\ send # None /\ queue' = queue \ Head(calls) /\ UNCHANGED <<owed, store>>
      /\ send' = None \/ send' = [calls |-> Tail(calls), said |-> "nothing"]
  BY DEF CallAnswered, NextCall, masters
<1>2. NotPassed(queue)'
  BY <1>1 DEF StoreInv, NotPassed, IsStore
<1>3. CASE send' = None
  BY <1>2, <1>3 DEF StoreInv
<1>4. CASE send' = [calls |-> Tail(calls), said |-> "nothing"]
  <2>1. /\ calls \in Seq(SUBSET DOMAIN owed) /\ calls # <<>> /\ Head(calls) = calls[1]
        /\ DOMAIN calls = 1..Len(calls) /\ Len(calls) \in Nat
    BY <1>1, CallRows
  <2>2. InLine(calls) /\ \A n \in DOMAIN calls : NotPassed(calls[n])
    BY <1>1 DEF StoreInv
  <2>3. send'.calls = Tail(calls)
    BY <1>4
  <2> DEFINE rest == Tail(calls)
  <2> HIDE DEF calls
  <2>4. /\ rest \in Seq(SUBSET DOMAIN owed) /\ Len(rest) = Len(calls) - 1
        /\ \A n \in 1..Len(rest) : rest[n] = calls[n + 1]
    BY <2>1, HeadTailProperties
  <2>5. DOMAIN rest = 1..Len(rest)
    BY <2>4, LenProperties
  <2>6. /\ \A n \in DOMAIN rest : n \in Nat /\ n + 1 \in DOMAIN calls /\ rest[n] = calls[n + 1]
        /\ \A m \in DOMAIN calls : m # 1 => m - 1 \in DOMAIN rest /\ rest[m - 1] = calls[m] /\ m \in Nat
    <3> HIDE DEF rest
    <3>1. \A n \in 1..Len(rest) : n \in Nat /\ n + 1 \in 1..Len(calls)
      BY <2>1, <2>4
    <3>2. \A m \in 1..Len(calls) : m # 1 => m - 1 \in 1..Len(rest) /\ m - 1 + 1 = m /\ m \in Nat
      BY <2>1, <2>4
    <3> QED  BY <2>1, <2>4, <2>5, <3>1, <3>2
  <2> HIDE DEF rest
  <2>7. \A n \in DOMAIN rest : \A i \in rest[n] : IsStore(i) => rest[n] = {i}
    BY <2>2, <2>6 DEF InLine
  <2>8. \A n, m \in DOMAIN rest : n < m =>
            \A i \in rest[n], j \in rest[m] : IsStore(i) /\ IsStore(j) => i < j
    <3> SUFFICES ASSUME NEW n \in DOMAIN rest, NEW m \in DOMAIN rest, n < m
                 PROVE  \A i \in rest[n], j \in rest[m] : IsStore(i) /\ IsStore(j) => i < j
      OBVIOUS
    <3>1. n + 1 < m + 1
      BY <2>6
    <3> QED  BY <2>2, <2>6, <3>1 DEF InLine
  <2>9. ASSUME NEW n \in DOMAIN rest, NEW i \in rest[n], NEW j \in queue',
               IsStore(i), IsStore(j), j < i
        PROVE  \E m \in DOMAIN rest : m < n /\ j \in rest[m]
    <3>1. n + 1 \in DOMAIN calls /\ i \in calls[n + 1] /\ j \in queue /\ j \notin calls[1]
      BY <1>1, <2>1, <2>6, <2>9 DEF calls
    <3>2. PICK m \in DOMAIN calls : m < n + 1 /\ j \in calls[m]
      BY <2>2, <2>9, <3>1 DEF InLine
    <3>3. m # 1 /\ m - 1 \in DOMAIN rest /\ rest[m - 1] = calls[m]
      BY <2>6, <3>1, <3>2
    <3>4. m - 1 < n
      BY <2>6, <3>2, <3>3
    <3> QED  BY <3>2, <3>3, <3>4
  <2>10. \A n \in DOMAIN rest : NotPassed(rest[n])
    BY <2>2, <2>6
  <2>11. send'.calls = rest
    BY <2>3 DEF rest
  <2>12. InLine(send.calls)'
    BY <1>1, <2>7, <2>8, <2>9, <2>11 DEF InLine, IsStore
  <2>13. \A n \in DOMAIN send'.calls : NotPassed(send.calls[n])'
    BY <1>1, <2>10, <2>11 DEF NotPassed, IsStore
  <2> QED  BY <1>2, <2>12, <2>13 DEF StoreInv
<1> QED  BY <1>1, <1>3, <1>4

LEMMA StoreStep ==
    ASSUME TypeInv, StoreInv, [Next]_vars
    PROVE  StoreInv' /\ \A d \in Devices : store[d] <= store'[d]
<1>1. CASE CallArrives
  BY <1>1, StoreArrives
<1>2. CASE ~ CallArrives
  <2>1. UNCHANGED store
    BY <1>2 DEF Next, World, Says, AboveTurns, MasterGone, MasterBack, Saves, Removes, Starts, Stops,
                Holding, Asks, Hands, AskLost, HoldSkips, HoldBegins, HoldCloses, HoldEnds,
                ForgetBegins, Forgets, StartsAway, Sending, Owes, SendBegins, CallAnswered, CallLost,
                masters, vars
  <2>2. \A d \in Devices : store[d] \in Int
    <3>1. store \in [Devices -> {0} \cup DOMAIN owed] /\ owed \in Seq([kind : Kinds, device : Devices \cup {None}])
      BY DEF TypeInv, OweInv, OweTypes
    <3>2. DOMAIN owed \subseteq Nat
      BY <3>1, LenProperties
    <3> QED  BY <3>1, <3>2
  <2>3. \A d \in Devices : store[d] <= store'[d]
    BY <2>1, <2>2
  <2> SUFFICES StoreInv'
    BY <2>3
  <2>4. CASE World \/ Holding \/ CallLost \/ UNCHANGED vars
    <3>1. UNCHANGED <<owed, queue>> /\ (send' = send \/ send' = None)
      BY <2>4 DEF World, Says, AboveTurns, MasterGone, MasterBack, Saves, Removes, Starts, Stops,
                  Holding, Asks, Hands, AskLost, HoldSkips, HoldBegins, HoldCloses, HoldEnds,
                  ForgetBegins, Forgets, StartsAway, CallLost, AfterFailure, sending, vars
    <3>2. NotPassed(queue)'
      BY <2>1, <3>1 DEF StoreInv, NotPassed, IsStore
    <3>3. CASE send' = None
      BY <3>2, <3>3 DEF StoreInv
    <3>4. CASE send' = send
      <4> QED  BY <2>1, <3>1, <3>4 DEF StoreInv, InLine, NotPassed, IsStore
    <3> QED  BY <3>1, <3>3, <3>4
  <2>5. CASE Sending /\ ~ CallLost
    BY <1>2, <2>5, StoreOwes, StoreBegins, StoreAnswered DEF Sending
  <2> QED  BY <2>4, <2>5 DEF Next
<1> QED  BY <1>1, <1>2

\* However often a row is sent again, and whatever is pushed out of the queue
\* while it is, the master's copy of a device's store is never set back.
THEOREM StoreOnlyOnward == Spec => StoreNeverBack
<1>1. TypeInv /\ StoreInv /\ [Next]_vars => StoreInv' /\ [\A d \in Devices : store[d] <= store'[d]]_vars
  BY StoreStep
<1> QED  BY <1>1, TypeInit, TypeStep, StoreInit, PTL DEF Spec, StoreNeverBack

-----------------------------------------------------------------------------
(* Keys.                                                                   *)

LEMMA KeysInit == Init => KeysInv
<1> SUFFICES ASSUME Init PROVE KeysInv
  OBVIOUS
<1>1. OnTheirWay = {}
  BY DEF Init, OnTheirWay
<1>2. \A d \in Devices : word[d] \in {"mine", "unknown"}
  BY DEF Init
<1> QED  BY <1>1, <1>2 DEF Init, KeysInv, InHand

\* Keys given by hand are owed to no list but one that was told of, whoever held it.
LEMMA KeysGivenTold ==
    ASSUME KeysInv, NEW l, KeysGiven(l), InHand' \subseteq OnTheirWay,
           UNCHANGED <<word, forgetting>>
    PROVE  /\ \A d \in Devices : word[d] \in {"other", "removed"} => d \in told'
           /\ \A o \in InHand' : LetsGo(o) \ o.mine \subseteq told'
           /\ forgetting # None => forgetting.device \in told'
<1>1. CASE told' = told
  BY <1>1 DEF KeysInv, InHand
<1>2. CASE /\ told' = told \ {l.keys} /\ word[l.keys] = "mine"
           /\ \A o \in OnTheirWay : l.keys \notin LetsGo(o) \ o.mine
           /\ ~ (forgetting # None /\ forgetting.device = l.keys)
  BY <1>2 DEF KeysInv, InHand
<1> QED  BY <1>1, <1>2 DEF KeysGiven

LEMMA KeysHolding ==
    ASSUME TypeInv, KeysInv, Holding
    PROVE  KeysInv' /\ \A d \in keyed \ keyed' : d \in told
<1>1. UNCHANGED word
  BY DEF Holding, Asks, Hands, AskLost, HoldSkips, HoldBegins, HoldCloses, HoldEnds, ForgetBegins,
         Forgets, StartsAway, master
<1>2. ASSUME NEW a \in Askers, Asks(a)
      PROVE  KeysInv' /\ \A d \in keyed \ keyed' : d \in told
  <2> DEFINE l == TheList(IF a = "setup" THEN saving ELSE None)
  <2>1. LetsGo(l) \ l.mine \subseteq told
    BY DEF TheList, LetsGo, Mine, Listed, KeysInv
  <2>2. asked' = [asked EXCEPT ![a] = l] /\ UNCHANGED <<lists, hold, told, forgetting, keyed>>
    BY <1>2 DEF Asks, holding, holder
  <2> HIDE DEF l
  <2>3. InHand' \subseteq InHand \cup {l}
    BY <2>2 DEF TypeInv, HoldInv, HoldTypes, InHand, OnTheirWay
  <2> QED  BY <1>1, <2>1, <2>2, <2>3 DEF KeysInv
<1>3. ASSUME NEW a \in Askers, Hands(a)
      PROVE  KeysInv' /\ \A d \in keyed \ keyed' : d \in told
  <2>1. PICK gone \in {{}, Gone} : lists' = Append(lists, [asked[a] EXCEPT !.gone = gone])
    BY <1>3 DEF Hands
  <2> DEFINE l == [asked[a] EXCEPT !.gone = gone]
  <2>2. asked[a] \in Lists /\ asked[a] \in InHand
    BY <1>3 DEF Hands, TypeInv, HoldInv, HoldTypes, InHand, OnTheirWay
  <2>3. gone \subseteq told /\ gone \in SUBSET Devices
    BY DEF Gone, KeysInv
  <2>4. l \in Lists /\ l.mine = asked[a].mine /\ l.listed = asked[a].listed /\ l.gone = gone
    BY <2>2, <2>3 DEF Lists
  <2>5. LetsGo(l) \ l.mine \subseteq told
    <3>1. LetsGo(asked[a]) \ asked[a].mine \subseteq told
      BY <2>2 DEF KeysInv
    <3> HIDE DEF l
    <3> QED  BY <2>3, <2>4, <3>1 DEF LetsGo
  <2>6. asked' = [asked EXCEPT ![a] = None] /\ UNCHANGED <<hold, told, forgetting, keyed>>
    BY <1>3 DEF Hands, holder
  <2>7. lists' = Append(lists, l) /\ Len(lists) < MaxLists
    BY <1>3, <2>1 DEF Hands
  <2> HIDE DEF l
  <2>8. InHand' \subseteq InHand \cup {l}
    BY <2>4, <2>6, <2>7, HandedIn DEF TypeInv
  <2> QED  BY <1>1, <2>5, <2>6, <2>8 DEF KeysInv
<1>4. ASSUME NEW a \in Askers, AskLost(a)
      PROVE  KeysInv' /\ \A d \in keyed \ keyed' : d \in told
  <2>1. asked' = [asked EXCEPT ![a] = None] /\ UNCHANGED <<lists, hold, told, forgetting, keyed>>
    BY <1>4 DEF AskLost, holding, holder
  <2>2. InHand' \subseteq InHand
    BY <2>1 DEF TypeInv, HoldInv, HoldTypes, InHand, OnTheirWay
  <2> QED  BY <1>1, <2>1, <2>2 DEF KeysInv
<1>5. CASE HoldSkips
  <2>1. /\ lists # <<>> /\ hold = None /\ hold' = None /\ lists' = Tail(lists)
        /\ UNCHANGED <<asked, forgetting>> /\ KeysGiven(Head(lists))
    BY <1>5 DEF HoldSkips, people
  <2>2. InHand' \subseteq OnTheirWay
    BY <2>1, HeadInHand DEF TypeInv, InHand
  <2>3. keyed \subseteq keyed'
    BY <2>1 DEF KeysGiven
  <2> QED  BY <1>1, <2>1, <2>2, <2>3, KeysGivenTold DEF KeysInv
<1>6. CASE HoldBegins
  <2> DEFINE l == Head(lists)
  <2>1. /\ lists # <<>> /\ hold = None /\ lists' = Tail(lists)
        /\ UNCHANGED <<asked, forgetting, told, keyed>>
        /\ \/ hold' = [list |-> l, closing |-> {}]
           \/ hold' = [list |-> l, closing |-> kept \ l.mine]
    BY <1>6 DEF HoldBegins, Writes, people
  <2>2. l \in InHand /\ OnTheirWay' \subseteq InHand
    BY <2>1, HeadInHand DEF TypeInv
  <2> HIDE DEF l
  <2>3. InHand' \subseteq InHand /\ hold'.closing \cap hold'.list.mine = {}
    BY <2>1, <2>2 DEF InHand
  <2> QED  BY <1>1, <2>1, <2>3 DEF KeysInv
<1>7. ASSUME NEW d \in Devices, HoldCloses(d)
      PROVE  KeysInv' /\ \A e \in keyed \ keyed' : e \in told
  <2>1. /\ hold # None /\ d \in hold.closing /\ UNCHANGED <<asked, lists, told, forgetting>>
        /\ hold' \in [list : {hold.list}, closing : SUBSET hold.closing]
        /\ keyed' = keyed \cap (IF d \in LetsGo(hold.list) THEN kept \ {d} ELSE kept)
    <3>1. hold # None => hold \in [list : Lists, closing : SUBSET Devices]
      BY DEF TypeInv, HoldInv, HoldTypes
    <3> QED  BY <1>7, <3>1 DEF HoldCloses, Writes, people
  <2>2. InHand' \subseteq InHand /\ hold.list \in InHand
    BY <2>1 DEF InHand, OnTheirWay
  <2>3. KeysInv'
    BY <1>1, <2>1, <2>2 DEF KeysInv
  <2>4. \A e \in keyed \ keyed' : e = d /\ d \in LetsGo(hold.list)
    BY <2>1 DEF TypeInv, HoldInv, HoldTypes
  <2>5. d \in LetsGo(hold.list) => d \in told
    BY <2>1, <2>2 DEF KeysInv
  <2> QED  BY <2>3, <2>4, <2>5
<1>8. CASE HoldEnds
  <2>1. hold' = None /\ UNCHANGED <<asked, lists, forgetting>> /\ KeysGiven(hold.list)
    BY <1>8 DEF HoldEnds, people
  <2>2. InHand' \subseteq OnTheirWay
    BY <2>1 DEF InHand, OnTheirWay
  <2>3. keyed \subseteq keyed'
    BY <2>1 DEF KeysGiven
  <2> QED  BY <1>1, <2>1, <2>2, <2>3, KeysGivenTold DEF KeysInv
<1>9. CASE ForgetBegins
  <2>1. UNCHANGED <<asked, lists, hold, told, keyed>> /\ forgetting' = [forgetting EXCEPT !.closing = TRUE]
    BY <1>9 DEF ForgetBegins, holder
  <2>2. InHand' = InHand
    BY <2>1, InHandSame
  <2>3. forgetting # None /\ forgetting'.device = forgetting.device
    BY <1>9, <2>1 DEF ForgetBegins, TypeInv, HoldInv, HoldTypes
  <2> QED  BY <1>1, <2>1, <2>2, <2>3 DEF KeysInv
<1>10. CASE Forgets
  <2>1. /\ UNCHANGED <<asked, lists, hold, told>> /\ forgetting # None /\ forgetting' = None
        /\ keyed' = keyed \ {forgetting.device}
    BY <1>10 DEF Forgets, holding
  <2>2. InHand' = InHand
    BY <2>1, InHandSame
  <2> QED  BY <1>1, <2>1, <2>2 DEF KeysInv
<1>11. CASE StartsAway
  <2>1. asked' = [a \in Askers |-> None] /\ UNCHANGED <<lists, hold, told, forgetting, keyed>>
    BY <1>11 DEF StartsAway, holding
  <2>2. InHand' \subseteq InHand
    BY <2>1 DEF InHand, OnTheirWay
  <2> QED  BY <1>1, <2>1, <2>2 DEF KeysInv
<1> QED  BY <1>2, <1>3, <1>4, <1>5, <1>6, <1>7, <1>8, <1>9, <1>10, <1>11 DEF Holding

LEMMA KeysWorld ==
    ASSUME TypeInv, KeysInv, World
    PROVE  KeysInv' /\ UNCHANGED keyed
<1>1. UNCHANGED keyed
  BY DEF World, Says, AboveTurns, MasterGone, MasterBack, Saves, Removes, Starts, Stops, holder
<1>2. CASE Stops
  <2>1. /\ asked' = [a \in Askers |-> None] /\ lists' = <<>> /\ hold' = None /\ forgetting' = None
        /\ UNCHANGED <<word, told>>
    BY <1>2 DEF Stops, master
  <2>2. InHand' = {}
    BY <2>1 DEF InHand, OnTheirWay
  <2> QED  BY <1>1, <2>1, <2>2 DEF KeysInv
<1>3. CASE ~ Stops
  <2>1. UNCHANGED <<asked, lists, hold>> /\ told \subseteq told'
    BY <1>3 DEF World, Says, AboveTurns, MasterGone, MasterBack, Saves, Removes, Starts, holding, people
  <2>2. InHand' = InHand
    BY <2>1, InHandSame
  <2>3. \A d \in Devices : word'[d] \in {"other", "removed"} => d \in told'
    <3>1. word \in [Devices -> Words] /\ home \subseteq Devices
      BY DEF TypeInv, HoldInv, HoldTypes, Devices
    <3>2. ASSUME NEW d \in home, NEW w \in Words, Says(d, w)
          PROVE  \A e \in Devices : word'[e] \in {"other", "removed"} => e \in told'
      BY <3>1, <3>2 DEF Says, KeysInv
    <3>3. ASSUME NEW d \in home, Saves(d)
          PROVE  \A e \in Devices : word'[e] \in {"other", "removed"} => e \in told'
      BY <3>1, <3>3 DEF Saves, KeysInv, holding
    <3>4. ASSUME NEW d \in home, Removes(d)
          PROVE  \A e \in Devices : word'[e] \in {"other", "removed"} => e \in told'
      BY <3>1, <3>4 DEF Removes, KeysInv
    <3>5. CASE UNCHANGED <<word, told>>
      BY <3>5 DEF KeysInv
    <3> QED
      BY <1>3, <3>2, <3>3, <3>4, <3>5
         DEF World, AboveTurns, MasterGone, MasterBack, Starts, master, holding
  <2>4. forgetting' # None => forgetting'.device \in told'
    <3>1. CASE UNCHANGED forgetting
      BY <2>1, <3>1 DEF KeysInv
    <3>2. ASSUME NEW d \in home, Removes(d)
          PROVE  forgetting'.device \in told'
      BY <3>2 DEF Removes
    <3> QED
      BY <1>3, <3>1, <3>2 DEF World, Says, AboveTurns, MasterGone, MasterBack, Saves, Starts, people
  <2> QED  BY <1>1, <2>1, <2>2, <2>3, <2>4 DEF KeysInv
<1> QED  BY <1>2, <1>3

\* The keys of a device go on the master's word alone, however the lists, the
\* removals and the restarts crossed.
THEOREM KeysOnlyOnWord == Spec => KeysKept
<1>1. ASSUME TypeInv, KeysInv, [Next]_vars
      PROVE  KeysInv' /\ \A d \in keyed \ keyed' : d \in told
  <2>1. CASE World
    BY <1>1, <2>1, KeysWorld
  <2>2. CASE Holding
    BY <1>1, <2>2, KeysHolding
  <2>3. CASE Sending \/ UNCHANGED vars
    <3>1. UNCHANGED <<word, asked, lists, hold, told, forgetting, keyed>>
      BY <2>3 DEF Sending, Owes, SendBegins, CallArrives, CallAnswered, CallLost, vars, master, holder,
                  holding, people
    <3>2. InHand' = InHand
      BY <3>1, InHandSame
    <3> QED  BY <1>1, <3>1, <3>2 DEF KeysInv
  <2> QED  BY <1>1, <2>1, <2>2, <2>3 DEF Next
<1>2. TypeInv /\ KeysInv /\ [Next]_vars => KeysInv' /\ [\A d \in keyed \ keyed' : d \in told]_vars
  BY <1>1
<1> QED  BY <1>2, TypeInit, TypeStep, KeysInit, PTL DEF Spec, KeysKept

=============================================================================
