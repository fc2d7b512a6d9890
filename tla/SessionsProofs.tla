--------------------------- MODULE SessionsProofs ---------------------------
(* What is proved of the sessions of a holder, for every home.             *)
EXTENDS Sessions, TLAPS, FiniteSetTheorems, NaturalsInduction, WellFoundedInduction

-----------------------------------------------------------------------------
(* Finite sets, and the least of some numbers.                             *)

\* What a function makes of a finite set is finite.
LEMMA ImageFinite ==
    ASSUME NEW S, IsFiniteSet(S), NEW f
    PROVE  IsFiniteSet({f[x] : x \in S})
<1> DEFINE T == {f[x] : x \in S}
<1> DEFINE g == [x \in S |-> f[x]]
<1>1. g \in Surjection(S, T)
  BY DEF Surjection
<1> QED  BY <1>1, FS_Surjection

\* Of things that are numbered, one has the least number.
LEMMA LeastOf ==
    ASSUME NEW S, S # {}, NEW f \in [S -> Nat]
    PROVE  \E x \in S : \A y \in S : f[x] <= f[y]
<1> DEFINE N == {f[x] : x \in S}
<1>1. N # {} /\ N \in SUBSET Nat
  OBVIOUS
<1>2. OpToRel(<, Nat) = {ss \in Nat \X Nat : ss[1] < ss[2]}
  BY DEF OpToRel
<1>3. PICK n \in N : \A m \in N : ~ (<<m, n>> \in OpToRel(<, Nat))
  <2> HIDE DEF N
  <2> QED  BY <1>1, WFMin, NatLessThanWellFounded
<1>4. \A m \in N : n <= m
  <2> HIDE DEF N
  <2>1. \A m \in N : ~ (m < n)
    BY <1>1, <1>2, <1>3
  <2> QED  BY <1>1, <2>1
<1> QED  BY <1>4

\* Of a finite set of things there is always one number more than there are of
\* them that is none of them.
LEMMA OneLeft ==
    ASSUME NEW S, IsFiniteSet(S)
    PROVE  \E e \in 1 .. Cardinality(S) + 1 : e \notin S
<1>1. Cardinality(S) \in Nat
  BY FS_CardinalityType
<1>2. SUFFICES ASSUME 1 .. Cardinality(S) + 1 \in SUBSET S
               PROVE  FALSE
  OBVIOUS
<1>3. Cardinality(1 .. Cardinality(S) + 1) <= Cardinality(S)
  BY <1>2, FS_Subset
<1>4. Cardinality(1 .. Cardinality(S) + 1) = Cardinality(S) + 1
  <2> DEFINE n == Cardinality(S) + 1
  <2>1. n \in Int /\ 1 \in Int /\ n >= 1 /\ n - 1 + 1 = n
    BY <1>1
  <2> HIDE DEF n
  <2>2. Cardinality(1 .. n) = n
    BY <2>1, FS_Interval
  <2> QED  BY <2>2 DEF n
<1> QED  BY <1>1, <1>3, <1>4

-----------------------------------------------------------------------------
(* Types.                                                                  *)

Sessioned == [way : Ways \cup {NoWay}, epoch : Nat, link : Nat, over : Nat]
ToOpenIt  == [way : Ways \cup {NoWay}, link : Nat, asked : BOOLEAN]
ToClose   == [dev : Devices, epoch : Nat, behind : SUBSET Devices, after : SUBSET Nat,
              elsewhere : BOOLEAN]
Syncs     == [at : {"idle", "choosing", "direct", "members"},
              left : Seq(Devices), wanted : [Devices -> Ways \cup {NoWay}],
              tried : SUBSET Devices, round : 0 .. BridgeDepth, waits : Nat]
Requests  == [list : [Devices -> States], by : {"call", "look"}]
LooksAt   == [at : {"idle", "looking"}, left : SUBSET (Devices \X Ways),
              changed : BOOLEAN, waits : Nat]

\* What is open and what opens; what closes; what is asked for.
OpenTyped    == open \in [Devices -> Sessioned] /\ opening \in [Devices -> ToOpenIt]
ClosingTyped == closing \in SUBSET ToClose /\ IsFiniteSet(closing)
SyncTyped    == sync \in Syncs /\ queue \in Seq(Requests) /\ records \in [Devices -> States]
LookTyped    == look \in LooksAt /\ watching \in BOOLEAN
CallsTyped ==
    /\ callers \in SUBSET [dev : Devices, after : Nat] /\ IsFiniteSet(callers)
    /\ stop \in [at : {"no", "closing", "done"}, after : SUBSET Nat] /\ IsFiniteSet(stop.after)
RestTyped ==
    /\ catalog \in [Devices -> States] /\ first \in [Devices -> Ways]
    /\ refusal \in [Devices -> Refusals]
    /\ down \cup avoided \cup up \cup astray \subseteq Ways
    /\ {moves, turns} \subseteq Nat
    /\ asked \subseteq Devices /\ alive \subseteq Nat

\* A way that is wanted of a device, opened, open or looked at is one of its own.
OwnWays ==
    /\ \A d \in Devices :
          /\ {sync.wanted[d], opening[d].way, open[d].way} \subseteq WaysOf(d) \cup {NoWay}
          /\ IsOpen(d) <=> open[d].way # NoWay
          /\ ~IsOpen(d) => open[d] = Shut
          /\ sync.at = "idle" => sync.wanted[d] = NoWay
          /\ opening[d] # NotOpening => opening[d].way # NoWay
    /\ \A d \in sync.tried : sync.wanted[d] # NoWay
    /\ sync.at \in {"idle", "choosing"} => sync.tried = {}
    /\ \A e \in look.left : e[2] \in WaysOf(e[1])

Typed ==
    /\ OpenTyped /\ ClosingTyped /\ SyncTyped /\ LookTyped /\ CallsTyped /\ RestTyped
    /\ OwnWays

LEMMA TypedGivesTypeOK ==
    ASSUME Typed
    PROVE  TypeOK
BY DEF Typed, OpenTyped, ClosingTyped, SyncTyped, LookTyped, CallsTyped, RestTyped, TypeOK,
       Sessioned, ToOpenIt, ToClose, Syncs, Requests, LooksAt

\* A way goes through a device or none, and a bridge's own ways through none.
LEMMA WaysKnown ==
    /\ \A d \in Devices : \A w \in WaysOf(d) : w \in Ways /\ w # NoWay /\ Of[w] = d
    /\ \A w \in Ways : w # NoWay /\ Of[w] \in Devices /\ w \in WaysOf(Of[w])
    /\ \A w \in Ways : Bridged(w) => Through[w] \in Devices /\ Through[w] # NoWay
    /\ \A w \in Ways : ~Bridged(w) => Through[w] = NoWay
    /\ \A w \in Ways : Bridged(w) => \A v \in WaysOf(Through[w]) : ~Bridged(v)
    /\ NoWay \notin Devices /\ NoWay \notin Ways
BY HomeAssumption DEF WaysOf, Bridged

\* The opening of a bridge is a number, and none where there is no bridge.
LEMMA BridgeNumbered ==
    ASSUME OpenTyped, NEW w \in Ways
    PROVE  /\ BridgeOf(w) \in Nat
           /\ ~Bridged(w) => BridgeOf(w) = 0
           /\ Bridged(w) => BridgeOf(w) = open[Through[w]].epoch
           /\ Bridged(w) => (BridgeOf(w) > 0 <=> IsOpen(Through[w]))
BY WaysKnown DEF OpenTyped, Sessioned, BridgeOf, IsOpen

\* What is behind a bridge is no bridge, nor the bridge of what is behind it.
LEMMA MembersApart ==
    ASSUME Typed, NEW d \in Devices, NEW m \in Members(d)
    PROVE  /\ m \in Devices /\ IsOpen(m) /\ open[m].way \in WaysOf(m) /\ Bridged(open[m].way)
           /\ Through[open[m].way] = d
           /\ Members(m) = {} /\ m # d
           /\ \A v \in WaysOf(d) : ~Bridged(v)
<1>1. ASSUME NEW e, NEW x \in Members(e)
      PROVE  /\ x \in Devices /\ IsOpen(x) /\ open[x].way \in WaysOf(x) /\ Through[open[x].way] = e
  <2>1. x \in Devices /\ IsOpen(x) /\ Through[open[x].way] = e
    BY DEF Members
  <2> QED  BY <2>1 DEF Typed, OwnWays
<1>2. Bridged(open[m].way) /\ \A v \in WaysOf(d) : ~Bridged(v)
  BY <1>1, WaysKnown DEF Bridged
<1>3. m # d
  BY <1>1, <1>2
<1>4. ASSUME NEW x \in Members(m)
      PROVE  FALSE
  <2>1. Bridged(open[x].way)
    BY <1>1, WaysKnown DEF Bridged
  <2> QED  BY <1>1, <1>2, <2>1, WaysKnown
<1> QED  BY <1>1, <1>2, <1>3, <1>4

\* An opening has a number of its own.
LEMMA NewEpochIsNew ==
    ASSUME Typed
    PROVE  NewEpoch \in Nat /\ NewEpoch > 0 /\ NewEpoch \notin Epochs
<1>1. IsFiniteSet(Devices) /\ IsFiniteSet(closing) /\ IsFiniteSet(callers) /\ IsFiniteSet(stop.after)
  BY HomeAssumption DEF Typed, ClosingTyped, CallsTyped
<1>2. /\ IsFiniteSet({open[d].epoch : d \in Devices}) /\ IsFiniteSet({open[d].link : d \in Devices})
      /\ IsFiniteSet({open[d].over : d \in Devices}) /\ IsFiniteSet({opening[d].link : d \in Devices})
  <2> DEFINE epoch == [d \in Devices |-> open[d].epoch]
  <2> DEFINE link == [d \in Devices |-> open[d].link]
  <2> DEFINE over == [d \in Devices |-> open[d].over]
  <2> DEFINE asks == [d \in Devices |-> opening[d].link]
  <2>1. /\ {epoch[d] : d \in Devices} = {open[d].epoch : d \in Devices}
        /\ {link[d] : d \in Devices} = {open[d].link : d \in Devices}
        /\ {over[d] : d \in Devices} = {open[d].over : d \in Devices}
        /\ {asks[d] : d \in Devices} = {opening[d].link : d \in Devices}
    OBVIOUS
  <2>2. /\ IsFiniteSet({epoch[d] : d \in Devices}) /\ IsFiniteSet({link[d] : d \in Devices})
        /\ IsFiniteSet({over[d] : d \in Devices}) /\ IsFiniteSet({asks[d] : d \in Devices})
    <3> HIDE DEF epoch, link, over, asks
    <3> QED  BY <1>1, ImageFinite
  <2> HIDE DEF epoch, link, over, asks
  <2> QED  BY <2>1, <2>2
<1>3. IsFiniteSet({c.epoch : c \in closing}) /\ IsFiniteSet({c.after : c \in callers})
  <2> DEFINE epoch == [c \in closing |-> c.epoch]
  <2> DEFINE after == [c \in callers |-> c.after]
  <2>1. /\ {epoch[c] : c \in closing} = {c.epoch : c \in closing}
        /\ {after[c] : c \in callers} = {c.after : c \in callers}
    OBVIOUS
  <2>2. IsFiniteSet({epoch[c] : c \in closing}) /\ IsFiniteSet({after[c] : c \in callers})
    <3> HIDE DEF epoch, after
    <3> QED  BY <1>1, ImageFinite
  <2> HIDE DEF epoch, after
  <2> QED  BY <2>1, <2>2
<1>4. IsFiniteSet({sync.waits, look.waits})
  <2>1. IsFiniteSet({sync.waits}) /\ IsFiniteSet({look.waits})
    BY FS_Singleton
  <2>2. {sync.waits, look.waits} = {sync.waits} \cup {look.waits}
    OBVIOUS
  <2> QED  BY <2>1, <2>2, FS_Union
<1>5. IsFiniteSet(Epochs)
  <2> DEFINE A == {open[d].epoch : d \in Devices}
  <2> DEFINE B == {open[d].link : d \in Devices}
  <2> DEFINE C == {open[d].over : d \in Devices}
  <2> DEFINE D == {opening[d].link : d \in Devices}
  <2> DEFINE E == {c.epoch : c \in closing}
  <2> DEFINE F == {c.after : c \in callers}
  <2> DEFINE G == {sync.waits, look.waits}
  <2>1. Epochs = A \cup B \cup C \cup D \cup E \cup F \cup stop.after \cup G
    BY DEF Epochs
  <2> HIDE DEF A, B, C, D, E, F, G
  <2>2. IsFiniteSet(A \cup B \cup C \cup D)
    <3>1. IsFiniteSet(A \cup B)
      BY <1>2, FS_Union DEF A, B
    <3>2. IsFiniteSet(A \cup B \cup C)
      BY <1>2, <3>1, FS_Union DEF C
    <3> QED  BY <1>2, <3>2, FS_Union DEF D
  <2>3. IsFiniteSet(A \cup B \cup C \cup D \cup E \cup F)
    <3>1. IsFiniteSet(A \cup B \cup C \cup D \cup E)
      BY <1>3, <2>2, FS_Union DEF E
    <3> QED  BY <1>3, <3>1, FS_Union DEF F
  <2>4. IsFiniteSet(A \cup B \cup C \cup D \cup E \cup F \cup stop.after)
    BY <1>1, <2>3, FS_Union
  <2> QED  BY <1>4, <2>1, <2>4, FS_Union DEF G
<1>6. NewEpoch \in 1 .. Cardinality(Epochs) + 1 /\ NewEpoch \notin Epochs
  BY <1>5, OneLeft DEF NewEpoch
<1>7. Cardinality(Epochs) \in Nat
  BY <1>5, FS_CardinalityType
<1> QED  BY <1>6, <1>7

\* Whose sessions go when a device's is shut: its own, and what is behind it.
Gone(d) == IF IsOpen(d) THEN {d} \cup Members(d) ELSE {}

LEMMA ShuttingShuts ==
    ASSUME Typed, NEW d \in Devices, NEW elsewhere, Shutting(d, elsewhere)
    PROVE  open' = [x \in Devices |-> IF x \in Gone(d) THEN Shut ELSE open[x]]
<1>1. \A x \in Devices : ~IsOpen(x) => open[x] = Shut
  BY DEF Typed, OwnWays
<1> QED  BY <1>1 DEF Shutting, Gone

\* What shutting a device's session leaves to be closed.
LEMMA ClosingsTyped ==
    ASSUME Typed, NEW d \in Devices, NEW elsewhere \in BOOLEAN
    PROVE  Closings(d, elsewhere) \in SUBSET ToClose /\ IsFiniteSet(Closings(d, elsewhere))
<1>1. CASE ~IsOpen(d)
  BY <1>1, FS_EmptySet DEF Closings
<1>2. CASE IsOpen(d)
  <2> DEFINE own == [dev |-> d, epoch |-> open[d].epoch, behind |-> Members(d),
                     after |-> {open[m].epoch : m \in Members(d)}, elsewhere |-> elsewhere]
  <2> DEFINE f == [m \in Members(d) |-> [dev |-> m, epoch |-> open[m].epoch, behind |-> {},
                                         after |-> {}, elsewhere |-> FALSE]]
  <2>1. Closings(d, elsewhere) = {own} \cup {f[m] : m \in Members(d)}
    BY <1>2 DEF Closings
  <2>2. Members(d) \in SUBSET Devices
    BY DEF Members
  <2>3. \A x \in Devices : open[x].epoch \in Nat
    BY DEF Typed, OpenTyped, Sessioned
  <2>4. own \in ToClose
    BY <2>2, <2>3 DEF ToClose
  <2>5. \A m \in Members(d) : f[m] \in ToClose
    BY <2>2, <2>3 DEF ToClose
  <2>6. IsFiniteSet({own} \cup {f[m] : m \in Members(d)})
    <3>1. IsFiniteSet(Members(d))
      BY <2>2, FS_Subset, HomeAssumption
    <3> HIDE DEF own, f
    <3>2. IsFiniteSet({f[m] : m \in Members(d)})
      BY <3>1, ImageFinite
    <3>3. IsFiniteSet({own})
      BY FS_Singleton
    <3> QED  BY <3>2, <3>3, FS_Union
  <2> HIDE DEF own, f
  <2> QED  BY <2>1, <2>4, <2>5, <2>6
<1> QED  BY <1>1, <1>2

\* What a shutting of sessions keeps of the types.
LEMMA ShutTyped ==
    ASSUME Typed, NEW S, open' = [x \in Devices |-> IF x \in S THEN Shut ELSE open[x]]
    PROVE  /\ open' \in [Devices -> Sessioned]
           /\ \A d \in Devices :
                 /\ open'[d].way \in WaysOf(d) \cup {NoWay}
                 /\ IsOpen(d)' <=> open'[d].way # NoWay
                 /\ ~IsOpen(d)' => open'[d] = Shut
<1>1. Shut \in Sessioned /\ Shut.way = NoWay /\ Shut.epoch = 0
  BY DEF Shut, Sessioned
<1>2. \A d \in Devices : /\ open[d] \in Sessioned /\ open[d].way \in WaysOf(d) \cup {NoWay}
                         /\ IsOpen(d) <=> open[d].way # NoWay
                         /\ ~IsOpen(d) => open[d] = Shut
  BY DEF Typed, OpenTyped, OwnWays
<1>3. \A d \in Devices : open'[d] = Shut \/ open'[d] = open[d]
  OBVIOUS
<1> QED  BY <1>1, <1>2, <1>3 DEF IsOpen

LEMMA ShuttingTyped ==
    ASSUME Typed, NEW d \in Devices, NEW elsewhere \in BOOLEAN, Shutting(d, elsewhere)
    PROVE  /\ open' \in [Devices -> Sessioned]
           /\ \A x \in Devices :
                 /\ open'[x].way \in WaysOf(x) \cup {NoWay}
                 /\ IsOpen(x)' <=> open'[x].way # NoWay
                 /\ ~IsOpen(x)' => open'[x] = Shut
           /\ closing' \in SUBSET ToClose /\ IsFiniteSet(closing')
<1>1. open' = [x \in Devices |-> IF x \in Gone(d) THEN Shut ELSE open[x]]
  BY ShuttingShuts
<1>2. closing' \in SUBSET ToClose /\ IsFiniteSet(closing')
  <2>1. closing' = closing \cup Closings(d, elsewhere)
    BY DEF Shutting
  <2>2. closing \in SUBSET ToClose /\ IsFiniteSet(closing)
    BY DEF Typed, ClosingTyped
  <2> QED  BY <2>1, <2>2, ClosingsTyped, FS_Union
<1> QED  BY <1>1, <1>2, ShutTyped
-----------------------------------------------------------------------------
(* The types hold: at the start, and after each step.                      *)

\* Of the ways of a device, the one it names first.
LEMMA FirstWay ==
    ASSUME NEW d \in Devices
    PROVE  (CHOOSE w \in WaysOf(d) : \A v \in WaysOf(d) : Place[w] <= Place[v]) \in WaysOf(d)
<1> DEFINE f == [w \in WaysOf(d) |-> Place[w]]
<1>1. f \in [WaysOf(d) -> Nat] /\ WaysOf(d) # {}
  BY HomeAssumption DEF WaysOf
<1>2. \E w \in WaysOf(d) : \A v \in WaysOf(d) : f[w] <= f[v]
  <2> HIDE DEF f
  <2> QED  BY <1>1, LeastOf
<1> QED  BY <1>2

\* The best of some ways of a device is one of them.
LEMMA BestOne ==
    ASSUME NEW d \in Devices, NEW S \in SUBSET WaysOf(d), S # {}
    PROVE  Best(d, S) \in S
<1> DEFINE f == [w \in S |-> Rank(d, w) + 1]
<1>1. \A w \in S : Rank(d, w) \in Int /\ Rank(d, w) + 1 \in Nat
  BY HomeAssumption DEF WaysOf, Rank
<1>2. f \in [S -> Nat]
  BY <1>1
<1>3. \E w \in S : \A v \in S : f[w] <= f[v]
  <2> HIDE DEF f
  <2> QED  BY <1>2, LeastOf
<1>4. \E w \in S : \A v \in S : Rank(d, w) <= Rank(d, v)
  BY <1>1, <1>3
<1> QED  BY <1>4 DEF Best

LEMMA TypedInit ==
    ASSUME Init
    PROVE  Typed
<1>1. OpenTyped
  BY DEF Init, OpenTyped, Sessioned, ToOpenIt, Shut, NotOpening
<1>2. ClosingTyped /\ CallsTyped
  BY FS_EmptySet DEF Init, ClosingTyped, CallsTyped, NotStopped
<1>3. SyncTyped
  <2>1. catalog \in [Devices -> States]
    BY DEF Init, States
  <2>2. sync \in Syncs
    <3>1. <<>> \in Seq(Devices) /\ 0 \in 0 .. BridgeDepth
      BY DEF BridgeDepth
    <3> QED  BY <3>1 DEF Init, NoSync, Syncs
  <2>3. queue \in Seq(Requests)
    <3>1. [list |-> catalog, by |-> "call"] \in Requests
      BY <2>1 DEF Requests
    <3> HIDE DEF Requests
    <3> QED  BY <3>1 DEF Init
  <2>4. records \in [Devices -> States]
    BY DEF Init, States
  <2> QED  BY <2>2, <2>3, <2>4 DEF SyncTyped
<1>4. LookTyped
  BY DEF Init, LookTyped, LooksAt, NoLook
<1>5. RestTyped
  <2>1. \A d \in Devices : first[d] \in Ways
    BY FirstWay, WaysKnown DEF Init
  <2>2. first \in [Devices -> Ways]
    BY <2>1 DEF Init
  <2>3. catalog \in [Devices -> States]
    BY DEF Init, States
  <2>4. refusal \in [Devices -> Refusals]
    BY DEF Init, Refusals
  <2>5. down \cup avoided \cup up \cup astray \subseteq Ways /\ {moves, turns} \subseteq Nat
        /\ asked \subseteq Devices /\ alive \subseteq Nat
    BY DEF Init
  <2> QED  BY <2>2, <2>3, <2>4, <2>5 DEF RestTyped
<1>6. OwnWays
  BY DEF Init, OwnWays, NoSync, NotOpening, Shut, NoLook, IsOpen
<1> QED  BY <1>1, <1>2, <1>3, <1>4, <1>5, <1>6 DEF Typed

\* What is asked for is put last.
LEMMA AskTyped ==
    ASSUME SyncTyped, NEW list \in [Devices -> States], NEW by \in {"call", "look"}, AskSync(list, by)
    PROVE  queue' \in Seq(Requests)
<1>1. [list |-> list, by |-> by] \in Requests
  BY DEF Requests
<1> HIDE DEF Requests
<1> QED  BY <1>1 DEF AskSync, SyncTyped

LEMMA ClosedTyped ==
    ASSUME Typed, NEW c \in closing, Closed(c)
    PROVE  Typed'
<1>1. ClosingTyped'
  <2> DEFINE f == [x \in closing \ {c} |-> [x EXCEPT !.after = @ \ {c.epoch}]]
  <2>1. closing' = {f[x] : x \in closing \ {c}}
    BY DEF Closed
  <2>2. closing \in SUBSET ToClose /\ IsFiniteSet(closing)
    BY DEF Typed, ClosingTyped
  <2>3. \A x \in closing \ {c} : f[x] \in ToClose
    BY <2>2 DEF ToClose
  <2>4. IsFiniteSet(closing \ {c})
    BY <2>2, FS_Subset
  <2> HIDE DEF f
  <2>5. IsFiniteSet({f[x] : x \in closing \ {c}})
    BY <2>4, ImageFinite
  <2> QED  BY <2>1, <2>3, <2>5 DEF ClosingTyped
<1>2. RestTyped'
  <2>1. refusal' \in [Devices -> Refusals]
    BY DEF Closed, Typed, RestTyped, Refusals
  <2> QED  BY <2>1 DEF Closed, Typed, RestTyped, world
<1> QED
  BY <1>1, <1>2 DEF Closed, Typed, OpenTyped, SyncTyped, LookTyped, CallsTyped, OwnWays, IsOpen

LEMMA SyncBeginsTyped ==
    ASSUME Typed, SyncBegins
    PROVE  Typed'
<1>1. Head(queue) \in Requests /\ queue' \in Seq(Requests)
  BY DEF SyncBegins, Typed, SyncTyped
<1>2. records' \in [Devices -> States]
  BY <1>1 DEF SyncBegins, Requests
<1>3. sync' = [NoSync EXCEPT !.at = "choosing", !.left = Order]
  BY DEF SyncBegins
<1>4. sync' \in Syncs
  <2>1. Order \in Seq(Devices) /\ 0 \in 0 .. BridgeDepth
    BY HomeAssumption DEF BridgeDepth
  <2> QED  BY <1>1, <1>3, <2>1 DEF NoSync, Syncs, Requests
<1>5. sync'.wanted = [d \in Devices |-> NoWay] /\ sync'.tried = {} /\ sync'.at = "choosing"
  BY <1>3 DEF NoSync
<1>6. OwnWays'
  BY <1>5 DEF SyncBegins, Typed, OwnWays, IsOpen
<1> QED
  BY <1>1, <1>2, <1>4, <1>6
     DEF SyncBegins, Typed, OpenTyped, ClosingTyped, SyncTyped, LookTyped, CallsTyped, RestTyped, world

LEMMA ChooseTyped ==
    ASSUME Typed, NEW d \in Devices, NEW out \in SUBSET Spotty, Choose(d, out)
    PROVE  /\ Typed'
           /\ sync'.wanted[d] # NoWay => sync'.wanted[d] \in Usable(d, out)
           /\ \A x \in Devices : x # d => sync'.wanted[x] = sync.wanted[x]
           /\ sync'.at = "choosing" /\ sync'.tried = sync.tried /\ sync'.left = Tail(sync.left)
<1> DEFINE chosen == records[d] = "kept" /\ ~BehindPaused(d) /\ Usable(d, out) # {}
<1> DEFINE way == IF chosen THEN Best(d, Usable(d, out)) ELSE NoWay
<1>1. way \in Usable(d, out) \cup {NoWay} /\ Usable(d, out) \in SUBSET WaysOf(d)
  BY BestOne DEF Usable, Mine
<1>2. WaysOf(d) \in SUBSET Ways
  BY DEF WaysOf
<1>3. sync' = [sync EXCEPT !.left = Tail(@), !.wanted[d] = way] /\ sync.at = "choosing"
  BY DEF Choose
<1> HIDE DEF way
<1>4. sync \in Syncs
  BY DEF Typed, SyncTyped
<1>5. Tail(sync.left) \in Seq(Devices)
  BY <1>4 DEF Choose, Syncs
<1>6. /\ sync'.wanted = [sync.wanted EXCEPT ![d] = way] /\ sync'.tried = sync.tried
      /\ sync'.at = sync.at /\ sync'.left = Tail(sync.left)
      /\ sync'.round = sync.round /\ sync'.waits = sync.waits
  BY <1>3, <1>4 DEF Syncs
<1>7. sync.wanted \in [Devices -> Ways \cup {NoWay}]
  BY <1>4 DEF Syncs
<1>8. sync' \in Syncs
  BY <1>1, <1>2, <1>3, <1>4, <1>5 DEF Syncs
<1>9. sync'.wanted[d] = way /\ \A x \in Devices : x # d => sync'.wanted[x] = sync.wanted[x]
  BY <1>6, <1>7
<1>10. RestTyped'
  <2>1. refusal' \in [Devices -> Refusals]
    BY DEF Choose, Typed, RestTyped, Refusals
  <2> QED  BY <2>1 DEF Choose, Typed, RestTyped, world
<1>11. OwnWays'
  BY <1>1, <1>3, <1>6, <1>9 DEF Choose, Typed, OwnWays, IsOpen
<1> QED
  BY <1>1, <1>3, <1>6, <1>8, <1>9, <1>10, <1>11
     DEF Choose, Typed, OpenTyped, ClosingTyped, SyncTyped, LookTyped, CallsTyped

LEMMA ShutStaleTyped ==
    ASSUME Typed, NEW d \in Devices, ShutStale(d)
    PROVE  Typed'
<1>1. /\ open' \in [Devices -> Sessioned] /\ ClosingTyped'
      /\ \A x \in Devices :
            /\ open'[x].way \in WaysOf(x) \cup {NoWay}
            /\ IsOpen(x)' <=> open'[x].way # NoWay
            /\ ~IsOpen(x)' => open'[x] = Shut
  BY ShuttingTyped DEF ShutStale, ClosingTyped
<1>2. sync' \in Syncs /\ sync'.wanted = sync.wanted /\ sync'.tried = sync.tried /\ sync'.at = sync.at
  BY DEF ShutStale, Typed, SyncTyped, Syncs, OpenTyped, Sessioned
<1> QED
  BY <1>1, <1>2
     DEF ShutStale, Typed, OpenTyped, SyncTyped, LookTyped, CallsTyped, RestTyped, OwnWays, world

\* What opens is given the way that was chosen for it.
LEMMA OpeningTyped ==
    ASSUME Typed, NEW S \in SUBSET Devices, Opening(S), \A d \in S : sync.wanted[d] # NoWay
    PROVE  /\ opening' \in [Devices -> ToOpenIt]
           /\ \A d \in Devices :
                 /\ opening'[d].way \in WaysOf(d) \cup {NoWay}
                 /\ opening'[d] # NotOpening => opening'[d].way # NoWay
                 /\ d \in S => opening'[d] # NotOpening /\ opening'[d].way = sync.wanted[d]
                               /\ (opening'[d].asked <=> Bridged(sync.wanted[d]))
                 /\ d \notin S => opening'[d] = opening[d]
<1>1. \A d \in Devices : /\ sync.wanted[d] \in WaysOf(d) \cup {NoWay}
                         /\ sync.wanted[d] \in Ways \cup {NoWay}
                         /\ opening[d] \in ToOpenIt /\ opening[d].way \in WaysOf(d) \cup {NoWay}
                         /\ opening[d] # NotOpening => opening[d].way # NoWay
  BY DEF Typed, OpenTyped, SyncTyped, Syncs, OwnWays
<1>2. ASSUME NEW d \in S
      PROVE  /\ opening'[d] \in ToOpenIt /\ opening'[d] # NotOpening
             /\ opening'[d].way = sync.wanted[d] /\ (opening'[d].asked <=> Bridged(sync.wanted[d]))
  <2> DEFINE w == sync.wanted[d]
  <2>1. w \in Ways \cup {NoWay} /\ w # NoWay
    BY <1>1
  <2>2. PICK b \in BOOLEAN : b <=> Bridged(w)
    OBVIOUS
  <2>3. opening'[d] = [way |-> w, link |-> 0, asked |-> b]
    BY <2>2 DEF Opening, Bridged
  <2> HIDE DEF w
  <2>4. opening'[d] \in ToOpenIt /\ opening'[d].way = w /\ opening'[d].asked = b
    BY <2>1, <2>3 DEF ToOpenIt
  <2>5. opening'[d] # NotOpening
    BY <2>1, <2>4 DEF NotOpening
  <2> QED  BY <2>2, <2>4, <2>5 DEF w
<1>3. \A d \in Devices : d \notin S => opening'[d] = opening[d]
  BY DEF Opening
<1>4. opening' \in [Devices -> ToOpenIt]
  BY <1>1, <1>2, <1>3 DEF Opening
<1> QED  BY <1>1, <1>2, <1>3, <1>4

LEMMA OpenDirectTyped ==
    ASSUME Typed, OpenDirect
    PROVE  Typed'
<1> DEFINE direct == {d \in ToOpen : ~Bridged(sync.wanted[d])}
<1>1. direct \in SUBSET Devices /\ \A d \in direct : sync.wanted[d] # NoWay
  BY DEF ToOpen
<1>2. Opening(direct)
  BY DEF OpenDirect
<1>3. /\ opening' \in [Devices -> ToOpenIt]
      /\ \A d \in Devices : /\ opening'[d].way \in WaysOf(d) \cup {NoWay}
                            /\ opening'[d] # NotOpening => opening'[d].way # NoWay
  <2> HIDE DEF direct
  <2> QED  BY <1>1, <1>2, OpeningTyped
<1>4. /\ sync' \in Syncs /\ sync'.wanted = sync.wanted /\ sync'.at = "direct"
      /\ sync'.tried = ToOpen
  BY DEF OpenDirect, Typed, SyncTyped, Syncs, ToOpen
<1>5. refusal' \in [Devices -> Refusals]
  BY DEF OpenDirect, Typed, RestTyped, Refusals
<1>6. OwnWays'
  BY <1>3, <1>4 DEF OpenDirect, Typed, OwnWays, IsOpen, ToOpen
<1> QED
  BY <1>3, <1>4, <1>5, <1>6
     DEF OpenDirect, Typed, OpenTyped, ClosingTyped, SyncTyped, LookTyped, CallsTyped, RestTyped, world

LEMMA OpenMembersTyped ==
    ASSUME Typed, OpenMembers
    PROVE  Typed'
<1> DEFINE members == {d \in sync.tried : BridgeOf(sync.wanted[d]) > 0}
<1>1. members \in SUBSET Devices /\ \A d \in members : sync.wanted[d] # NoWay
  BY DEF Typed, SyncTyped, Syncs, OwnWays
<1>2. Opening(members)
  BY DEF OpenMembers
<1>3. /\ opening' \in [Devices -> ToOpenIt]
      /\ \A d \in Devices : /\ opening'[d].way \in WaysOf(d) \cup {NoWay}
                            /\ opening'[d] # NotOpening => opening'[d].way # NoWay
  <2> HIDE DEF members
  <2> QED  BY <1>1, <1>2, OpeningTyped
<1>4. /\ sync' \in Syncs /\ sync'.wanted = sync.wanted /\ sync'.at = "members"
      /\ sync'.tried = sync.tried
  BY DEF OpenMembers, Typed, SyncTyped, Syncs
<1>5. refusal' \in [Devices -> Refusals]
  BY DEF OpenMembers, Typed, RestTyped, Refusals
<1>6. OwnWays'
  BY <1>3, <1>4 DEF OpenMembers, Typed, OwnWays, IsOpen
<1> QED
  BY <1>3, <1>4, <1>5, <1>6
     DEF OpenMembers, Typed, OpenTyped, ClosingTyped, SyncTyped, LookTyped, CallsTyped, RestTyped, world

LEMMA RoundEndsTyped ==
    ASSUME Typed, RoundEnds
    PROVE  /\ Typed'
           /\ sync'.wanted = [d \in Devices |-> NoWay] /\ sync'.tried = {}
           /\ \/ AnotherRound /\ sync'.at = "choosing" /\ sync'.left = Order
              \/ ~AnotherRound /\ sync'.at = "idle"
           /\ UNCHANGED look
<1>1. NoSync \in Syncs /\ NoSync.wanted = [d \in Devices |-> NoWay] /\ NoSync.tried = {}
      /\ NoSync.at = "idle"
  BY DEF NoSync, Syncs, BridgeDepth
<1>2. UNCHANGED look
  BY DEF RoundEnds
<1>3. CASE AnotherRound
  <2>1. sync' = [NoSync EXCEPT !.at = "choosing", !.left = Order, !.round = sync.round + 1]
    BY <1>3 DEF RoundEnds
  <2>2. Order \in Seq(Devices) /\ sync.round + 1 \in 0 .. BridgeDepth
    BY <1>3, HomeAssumption DEF AnotherRound, BridgeDepth, Typed, SyncTyped, Syncs
  <2>3. sync' \in Syncs
    BY <2>1, <2>2 DEF NoSync, Syncs
  <2>4. sync'.wanted = [d \in Devices |-> NoWay] /\ sync'.tried = {} /\ sync'.at = "choosing" /\ sync'.left = Order
    BY <2>1 DEF NoSync
  <2> QED
    BY <1>2, <1>3, <2>3, <2>4
       DEF RoundEnds, Typed, OpenTyped, ClosingTyped, SyncTyped, LookTyped, CallsTyped, RestTyped, OwnWays,
           world, IsOpen
<1>4. CASE ~AnotherRound
  <2>1. sync' = NoSync /\ watching' = TRUE
    BY <1>4 DEF RoundEnds
  <2> QED
    BY <1>1, <1>2, <1>4, <2>1
       DEF RoundEnds, Typed, OpenTyped, ClosingTyped, SyncTyped, LookTyped, CallsTyped, RestTyped, OwnWays,
           world, IsOpen
<1> QED  BY <1>3, <1>4

LEMMA AsksTyped ==
    ASSUME Typed, NEW d \in Devices, Asks(d)
    PROVE  /\ Typed'
           /\ opening'[d].way = opening[d].way /\ ~opening'[d].asked
           /\ opening'[d].link = BridgeOf(opening[d].way)
           /\ \A x \in Devices : x # d => opening'[x] = opening[x]
<1>1. opening[d] \in ToOpenIt /\ opening[d].asked /\ BridgeOf(opening[d].way) > 0
  BY DEF Asks, Typed, OpenTyped
<1>2. opening[d] # NotOpening /\ opening[d].way # NoWay /\ opening[d].way \in Ways
  <2>1. opening[d] # NotOpening
    BY <1>1 DEF NotOpening
  <2> QED  BY <1>1, <2>1 DEF Typed, OwnWays, ToOpenIt
<1>3. BridgeOf(opening[d].way) \in Nat
  BY <1>2, BridgeNumbered DEF Typed
<1>4. opening' = [opening EXCEPT ![d].asked = FALSE, ![d].link = BridgeOf(opening[d].way)]
  BY DEF Asks
<1>5. opening'[d] = [way |-> opening[d].way, link |-> BridgeOf(opening[d].way), asked |-> FALSE]
  BY <1>1, <1>4 DEF Typed, OpenTyped, ToOpenIt
<1>6. \A x \in Devices : x # d => opening'[x] = opening[x]
  BY <1>4 DEF Typed, OpenTyped
<1>7. opening' \in [Devices -> ToOpenIt]
  <2>1. opening'[d] \in ToOpenIt
    BY <1>2, <1>3, <1>5 DEF ToOpenIt
  <2>2. DOMAIN opening' = Devices /\ opening' = [x \in Devices |-> opening'[x]]
    BY <1>4 DEF Typed, OpenTyped
  <2>3. \A x \in Devices : opening'[x] \in ToOpenIt
    BY <1>6, <2>1 DEF Typed, OpenTyped
  <2> QED  BY <2>2, <2>3
<1>8. OwnWays'
  <2>1. opening'[d].way = opening[d].way
    BY <1>5
  <2>2. \A x \in Devices : /\ opening'[x].way = opening[x].way
                           /\ opening'[x] # NotOpening => opening'[x].way # NoWay
    BY <1>2, <1>6, <2>1 DEF Typed, OwnWays
  <2>3. UNCHANGED <<sync, open, look>>
    BY DEF Asks
  <2> QED  BY <2>2, <2>3 DEF Typed, OwnWays, IsOpen
<1> QED
  BY <1>5, <1>6, <1>7, <1>8
     DEF Asks, Typed, OpenTyped, ClosingTyped, SyncTyped, LookTyped, CallsTyped, RestTyped, world

LEMMA OpenedTyped ==
    ASSUME Typed, NEW d \in Devices, Opened(d)
    PROVE  /\ Typed'
           /\ opening[d].way \in WaysOf(d)
           /\ open'[d] = [way |-> opening[d].way, epoch |-> NewEpoch, link |-> opening[d].link,
                          over |-> BridgeOf(opening[d].way)]
           /\ opening'[d] = NotOpening
           /\ \A x \in Devices : x # d => open'[x] = open[x] /\ opening'[x] = opening[x]
<1> DEFINE w == opening[d].way
<1>1. opening[d] \in ToOpenIt /\ w \in WaysOf(d) /\ w \in Ways /\ w # NoWay
  BY WaysKnown DEF Opened, Typed, OpenTyped, OwnWays
<1>2. BridgeOf(w) \in Nat /\ NewEpoch \in Nat /\ NewEpoch > 0
  BY <1>1, BridgeNumbered, NewEpochIsNew DEF Typed
<1>3. /\ open' = [open EXCEPT ![d] = [way |-> w, epoch |-> NewEpoch, link |-> opening[d].link,
                                      over |-> BridgeOf(w)]]
      /\ opening' = [opening EXCEPT ![d] = NotOpening]
      /\ down' = Noted(w, Bridged(w) \/ w \in up)
      /\ alive' = alive \cup {NewEpoch}
  BY DEF Opened
<1> HIDE DEF w
<1>4. open \in [Devices -> Sessioned] /\ opening \in [Devices -> ToOpenIt]
  BY DEF Typed, OpenTyped
<1>5. [way |-> w, epoch |-> NewEpoch, link |-> opening[d].link, over |-> BridgeOf(w)] \in Sessioned
  BY <1>1, <1>2 DEF Sessioned, ToOpenIt
<1>6. NotOpening \in ToOpenIt /\ NotOpening.way = NoWay
  BY DEF NotOpening, ToOpenIt
<1>7. OpenTyped'
  BY <1>3, <1>4, <1>5, <1>6 DEF OpenTyped
<1>8. /\ open'[d] = [way |-> w, epoch |-> NewEpoch, link |-> opening[d].link, over |-> BridgeOf(w)]
      /\ opening'[d] = NotOpening
      /\ \A x \in Devices : x # d => open'[x] = open[x] /\ opening'[x] = opening[x]
  BY <1>3, <1>4
<1>9. RestTyped'
  <2>1. down' \subseteq Ways /\ alive' \subseteq Nat
    BY <1>1, <1>2, <1>3 DEF Noted, Typed, RestTyped
  <2> QED  BY <2>1 DEF Opened, Typed, RestTyped, world
<1>10. OwnWays'
  <2>1. IsOpen(d)' /\ open'[d].way = w
    BY <1>2, <1>8 DEF IsOpen
  <2>2. \A x \in Devices : x # d => (IsOpen(x)' <=> IsOpen(x))
    BY <1>8 DEF IsOpen
  <2> QED  BY <1>1, <1>6, <1>8, <2>1, <2>2 DEF Opened, Typed, OwnWays
<1> QED
  BY <1>1, <1>7, <1>8, <1>9, <1>10
     DEF w, Opened, Typed, ClosingTyped, SyncTyped, LookTyped, CallsTyped

LEMMA OpenFailsTyped ==
    ASSUME Typed, NEW d \in Devices, NEW why \in Refusals, OpenFails(d, why)
    PROVE  Typed'
<1>1. opening' = [opening EXCEPT ![d] = NotOpening] /\ NotOpening \in ToOpenIt
  BY DEF OpenFails, NotOpening, ToOpenIt
<1>2. OpenTyped'
  BY <1>1 DEF OpenFails, Typed, OpenTyped
<1>3. RestTyped'
  <2>1. refusal' \in [Devices -> Refusals]
    BY DEF OpenFails, Typed, RestTyped
  <2>2. asked' \subseteq Devices
    BY DEF OpenFails, Typed, RestTyped
  <2> QED  BY <2>1, <2>2 DEF OpenFails, Typed, RestTyped, world
<1>4. OwnWays'
  <2>1. opening'[d] = NotOpening /\ NotOpening.way = NoWay
        /\ \A x \in Devices : x # d => opening'[x] = opening[x]
    BY <1>1 DEF Typed, OpenTyped, NotOpening
  <2> QED  BY <2>1 DEF OpenFails, Typed, OwnWays, IsOpen
<1> QED
  BY <1>2, <1>3, <1>4 DEF OpenFails, Typed, ClosingTyped, SyncTyped, LookTyped, CallsTyped

LEMMA LookBeginsTyped ==
    ASSUME Typed, NEW due \in BOOLEAN, LookBegins(due)
    PROVE  /\ Typed'
           /\ queue # <<>> => queue' # <<>>
<1> DEFINE left == InOpen
<1>1. \A e \in left : e \in Devices \X Ways /\ e[2] \in WaysOf(e[1])
  BY WaysKnown DEF InOpen, Typed, OwnWays
<1>2. CASE left = {}
  <2>1. AskSync(records, "look") /\ UNCHANGED look
    BY <1>2 DEF LookBegins
  <2>2. queue' \in Seq(Requests) /\ queue' # <<>>
    <3>1. queue' \in Seq(Requests)
      BY <2>1, AskTyped DEF Typed, SyncTyped
    <3> QED  BY <2>1, <3>1 DEF AskSync, Typed, SyncTyped
  <2>3. OwnWays'
    BY <2>1 DEF LookBegins, Typed, OwnWays, IsOpen
  <2> QED
    BY <2>1, <2>2, <2>3
       DEF LookBegins, Typed, OpenTyped, ClosingTyped, SyncTyped, LookTyped, CallsTyped, RestTyped, world
<1>3. CASE left # {}
  <2>1. look' = [NoLook EXCEPT !.at = "looking", !.changed = due, !.left = left] /\ UNCHANGED queue
    BY <1>3 DEF LookBegins
  <2> HIDE DEF left
  <2>2. look' \in LooksAt /\ look'.left = left
    BY <1>1, <2>1 DEF NoLook, LooksAt
  <2>3. OwnWays'
    BY <1>1, <2>2 DEF LookBegins, Typed, OwnWays, IsOpen
  <2> QED
    BY <2>1, <2>2, <2>3
       DEF LookBegins, Typed, OpenTyped, ClosingTyped, SyncTyped, LookTyped, CallsTyped, RestTyped, world
<1> QED  BY <1>2, <1>3

LEMMA LooksWellTyped ==
    ASSUME Typed, NEW e \in look.left, LooksWell(e)
    PROVE  Typed'
<1>1. look' \in LooksAt /\ look'.left \subseteq look.left
  BY DEF LooksWell, Typed, LookTyped, LooksAt
<1>2. OwnWays'
  BY <1>1 DEF LooksWell, Typed, OwnWays, IsOpen
<1> QED
  BY <1>1, <1>2
     DEF LooksWell, Typed, OpenTyped, ClosingTyped, SyncTyped, LookTyped, CallsTyped, RestTyped, world

\* A close keeps what closes and is open of its type.
LEMMA ClosingStepTyped ==
    ASSUME Typed, NEW d \in Devices, NEW elsewhere \in BOOLEAN, Closing(d, elsewhere),
           opening' = opening, sync' = sync, look' \in LooksAt, look'.left \subseteq look.left
    PROVE  /\ ClosingTyped' /\ OpenTyped' /\ OwnWays'
           /\ refusal' \in [Devices -> Refusals]
<1>1. /\ open' \in [Devices -> Sessioned] /\ ClosingTyped'
      /\ \A x \in Devices :
            /\ open'[x].way \in WaysOf(x) \cup {NoWay}
            /\ IsOpen(x)' <=> open'[x].way # NoWay
            /\ ~IsOpen(x)' => open'[x] = Shut
  BY ShuttingTyped DEF Closing, ClosingTyped
<1>2. refusal' \in [Devices -> Refusals]
  BY DEF Closing, Typed, RestTyped, Refusals
<1> QED  BY <1>1, <1>2 DEF Typed, OpenTyped, OwnWays

LEMMA LooksAstrayTyped ==
    ASSUME Typed, NEW e \in look.left, LooksAstray(e)
    PROVE  Typed'
<1>1. e[1] \in Devices
  BY DEF Typed, LookTyped, LooksAt
<1>2. look' \in LooksAt /\ look'.left \subseteq look.left
  BY <1>1 DEF LooksAstray, Typed, LookTyped, LooksAt, OpenTyped, Sessioned
<1>3. ClosingTyped' /\ OpenTyped' /\ OwnWays' /\ refusal' \in [Devices -> Refusals]
  BY <1>1, <1>2, ClosingStepTyped DEF LooksAstray
<1> QED
  BY <1>2, <1>3 DEF LooksAstray, Typed, SyncTyped, LookTyped, CallsTyped, RestTyped, world

LEMMA GivesWayTyped ==
    ASSUME Typed, NEW e \in look.left, GivesWay(e)
    PROVE  /\ Typed'
           /\ look'.changed /\ look'.at = "looking"
<1>1. e[1] \in Devices /\ e[2] \in WaysOf(e[1]) /\ e[2] \in Ways
  BY WaysKnown DEF Typed, LookTyped, LooksAt, OwnWays
<1>2. look' \in LooksAt /\ look'.left \subseteq look.left /\ look'.changed /\ look'.at = "looking"
  BY <1>1 DEF GivesWay, Looking, LookGoesOn, Typed, LookTyped, LooksAt, OpenTyped, Sessioned
<1>3. ClosingTyped' /\ OpenTyped' /\ OwnWays' /\ refusal' \in [Devices -> Refusals]
  BY <1>1, <1>2, ClosingStepTyped DEF GivesWay
<1>4. down' \cup avoided' \subseteq Ways
  BY <1>1 DEF GivesWay, Typed, RestTyped
<1> QED
  BY <1>2, <1>3, <1>4 DEF GivesWay, Typed, SyncTyped, LookTyped, CallsTyped, RestTyped, world

LEMMA LookEndsTyped ==
    ASSUME Typed, LookEnds
    PROVE  /\ Typed'
           /\ look.changed => queue' # <<>>
<1>1. look' = NoLook /\ NoLook \in LooksAt /\ NoLook.left = {}
  BY DEF LookEnds, NoLook, LooksAt
<1>2. queue' \in Seq(Requests) /\ (look.changed => queue' # <<>>)
  <2>1. CASE look.changed
    <3>1. AskSync(records, "look")
      BY <2>1 DEF LookEnds
    <3>2. queue' \in Seq(Requests)
      BY <3>1, AskTyped DEF Typed, SyncTyped
    <3> QED  BY <3>1, <3>2 DEF AskSync, Typed, SyncTyped
  <2>2. CASE ~look.changed
    BY <2>2 DEF LookEnds, Typed, SyncTyped
  <2> QED  BY <2>1, <2>2
<1> QED
  BY <1>1, <1>2
     DEF LookEnds, Typed, OpenTyped, ClosingTyped, SyncTyped, LookTyped, CallsTyped, RestTyped, OwnWays,
         IsOpen, world

LEMMA VerifiedTyped ==
    ASSUME Typed, NEW d \in Devices, Verified(d)
    PROVE  Typed'
<1>1. ClosingTyped' /\ OpenTyped' /\ OwnWays' /\ refusal' \in [Devices -> Refusals]
  BY ClosingStepTyped DEF Verified, Typed, LookTyped
<1> QED
  BY <1>1 DEF Verified, Typed, SyncTyped, LookTyped, CallsTyped, RestTyped, world

LEMMA SetSecretsTyped ==
    ASSUME Typed, NEW d \in Devices, SetSecrets(d)
    PROVE  Typed' /\ callers' # {}
<1>1. ClosingTyped' /\ OpenTyped' /\ OwnWays' /\ refusal' \in [Devices -> Refusals]
  BY ClosingStepTyped DEF SetSecrets, Typed, LookTyped
<1>2. CallsTyped'
  <2> DEFINE c == [dev |-> d, after |-> open[d].epoch]
  <2>1. callers' = callers \cup {c} /\ stop' = stop
    BY DEF SetSecrets
  <2>2. c \in [dev : Devices, after : Nat]
    BY DEF Typed, OpenTyped, Sessioned
  <2>3. IsFiniteSet(callers') /\ callers' \in SUBSET [dev : Devices, after : Nat]
    <3> HIDE DEF c
    <3> QED  BY <2>1, <2>2, FS_AddElement DEF Typed, CallsTyped
  <2> QED  BY <2>1, <2>3 DEF Typed, CallsTyped
<1>3. callers' # {}
  BY DEF SetSecrets
<1>4. moves' \in Nat /\ turns' \in Nat
  BY DEF SetSecrets, Calls, Typed, RestTyped
<1> QED
  BY <1>1, <1>2, <1>3, <1>4 DEF SetSecrets, Calls, Typed, SyncTyped, LookTyped, RestTyped, world

LEMMA ChangeTyped ==
    ASSUME Typed, NEW d \in Devices, NEW state \in States, Change(d, state)
    PROVE  Typed' /\ queue' # <<>>
<1>1. catalog' \in [Devices -> States]
  BY DEF Change, Typed, RestTyped
<1>2. queue' \in Seq(Requests)
  BY <1>1, AskTyped DEF Change, Typed
<1>3. queue' # <<>>
  BY DEF Change, AskSync, Typed, SyncTyped
<1>4. moves' \in Nat /\ turns' \in Nat
  BY DEF Change, Calls, Typed, RestTyped
<1>5. asked' \subseteq Devices
  BY DEF Change, Typed, RestTyped
<1> QED
  BY <1>1, <1>2, <1>3, <1>4, <1>5
     DEF Change, Typed, OpenTyped, ClosingTyped, SyncTyped, LookTyped, CallsTyped, RestTyped, OwnWays, IsOpen

LEMMA PreferTyped ==
    ASSUME Typed, NEW w \in Ways, Prefer(w)
    PROVE  Typed' /\ queue' # <<>>
<1>1. first' \in [Devices -> Ways]
  BY WaysKnown DEF Prefer, Typed, RestTyped
<1>2. queue' \in Seq(Requests)
  BY AskTyped DEF Prefer, Typed, RestTyped
<1>3. queue' # <<>>
  BY DEF Prefer, AskSync, Typed, SyncTyped
<1>4. moves' \in Nat /\ turns' \in Nat
  BY DEF Prefer, Calls, Typed, RestTyped
<1> QED
  BY <1>1, <1>2, <1>3, <1>4
     DEF Prefer, Typed, OpenTyped, ClosingTyped, SyncTyped, LookTyped, CallsTyped, RestTyped, OwnWays, IsOpen

LEMMA CallerAsksTyped ==
    ASSUME Typed, NEW c \in callers, CallerAsks(c)
    PROVE  Typed' /\ queue' # <<>>
<1>1. queue' \in Seq(Requests)
  BY AskTyped DEF CallerAsks, Typed, RestTyped
<1>2. queue' # <<>>
  BY DEF CallerAsks, AskSync, Typed, SyncTyped
<1>3. CallsTyped'
  BY FS_RemoveElement DEF CallerAsks, Typed, CallsTyped
<1> QED
  BY <1>1, <1>2, <1>3
     DEF CallerAsks, Typed, OpenTyped, ClosingTyped, SyncTyped, LookTyped, RestTyped, OwnWays, IsOpen, world

LEMMA TurnsTyped ==
    ASSUME Typed, NEW w \in Ways, Turns(w)
    PROVE  Typed'
<1>1. up' \subseteq Ways /\ down' \subseteq Ways
  BY DEF Turns, Noted, Typed, RestTyped
<1>2. moves' \in Nat /\ turns' \in Nat
  BY DEF Turns, Befalls, Typed, RestTyped
<1> QED
  BY <1>1, <1>2
     DEF Turns, Typed, OpenTyped, ClosingTyped, SyncTyped, LookTyped, CallsTyped, RestTyped, OwnWays, IsOpen

LEMMA StraysTyped ==
    ASSUME Typed, NEW w \in Ways, Strays(w)
    PROVE  Typed'
<1>1. moves' \in Nat /\ turns' \in Nat /\ astray' \subseteq Ways
  BY DEF Strays, Befalls, Typed, RestTyped
<1> QED
  BY <1>1
     DEF Strays, Typed, OpenTyped, ClosingTyped, SyncTyped, LookTyped, CallsTyped, RestTyped, OwnWays, IsOpen,
         manager

LEMMA PassedOverTyped ==
    ASSUME Typed, NEW w \in Ways, PassedOver(w)
    PROVE  Typed'
BY DEF PassedOver, Typed, OpenTyped, ClosingTyped, SyncTyped, LookTyped, CallsTyped, RestTyped, OwnWays,
       IsOpen, world

\* What the holder closes when it is stopped: what is open, each thing once.
Roots == {d \in Devices : IsOpen(d) /\ BridgeOf(open[d].way) = 0}

LEMMA StopTyped ==
    ASSUME Typed, Stop
    PROVE  Typed' /\ stop'.at = "closing"
<1>1. ClosingTyped'
  <2> DEFINE f == [d \in Roots |-> Closings(d, FALSE)]
  <2>1. closing' = closing \cup UNION {f[d] : d \in Roots}
    BY DEF Stop, Roots
  <2>2. Roots \in SUBSET Devices /\ IsFiniteSet(Roots)
    BY FS_Subset, HomeAssumption DEF Roots
  <2>3. \A d \in Roots : f[d] \in SUBSET ToClose /\ IsFiniteSet(f[d])
    BY <2>2, ClosingsTyped
  <2> HIDE DEF f
  <2>4. UNION {f[d] : d \in Roots} \in SUBSET ToClose
    BY <2>3
  <2>5. IsFiniteSet({f[d] : d \in Roots})
    BY <2>2, ImageFinite
  <2>6. IsFiniteSet(UNION {f[d] : d \in Roots})
    BY <2>3, <2>5, FS_UNION
  <2> QED  BY <2>1, <2>4, <2>6, FS_Union DEF Typed, ClosingTyped
<1>2. OpenTyped' /\ OwnWays'
  <2>1. open' = [d \in Devices |-> IF d \in Devices THEN Shut ELSE open[d]]
    BY DEF Stop
  <2>2. /\ open' \in [Devices -> Sessioned]
        /\ \A d \in Devices :
              /\ open'[d].way \in WaysOf(d) \cup {NoWay}
              /\ IsOpen(d)' <=> open'[d].way # NoWay
              /\ ~IsOpen(d)' => open'[d] = Shut
    BY <2>1, ShutTyped
  <2>3. UNCHANGED <<opening, sync, look>>
    BY DEF Stop
  <2> QED  BY <2>2, <2>3 DEF Typed, OpenTyped, OwnWays
<1>3. CallsTyped' /\ stop'.at = "closing"
  <2> DEFINE f == [d \in Devices |-> open[d].epoch]
  <2>1. stop' = [at |-> "closing", after |-> {f[d] : d \in Devices}]
    BY DEF Stop
  <2>2. \A d \in Devices : f[d] \in Nat
    BY DEF Typed, OpenTyped, Sessioned
  <2> HIDE DEF f
  <2>3. IsFiniteSet({f[d] : d \in Devices})
    <3>1. IsFiniteSet(Devices)
      BY HomeAssumption
    <3> QED  BY <3>1, ImageFinite, Zenon
  <2>4. stop'.after = {f[d] : d \in Devices} /\ stop'.at = "closing" /\ {f[d] : d \in Devices} \in SUBSET Nat
    BY <2>1, <2>2
  <2>5. stop' \in [at : {"no", "closing", "done"}, after : SUBSET Nat]
    BY <2>1, <2>4
  <2>6. UNCHANGED callers
    BY DEF Stop
  <2> QED  BY <2>3, <2>4, <2>5, <2>6 DEF Typed, CallsTyped
<1>4. RestTyped'
  <2>1. refusal' \in [Devices -> Refusals]
    BY DEF Stop, Typed, RestTyped, Refusals
  <2>2. moves' \in Nat /\ turns' \in Nat
    BY DEF Stop, Calls, Typed, RestTyped
  <2> QED  BY <2>1, <2>2 DEF Stop, Typed, RestTyped, world
<1> QED
  BY <1>1, <1>2, <1>3, <1>4 DEF Stop, Typed, SyncTyped, LookTyped

LEMMA StoppedTyped ==
    ASSUME Typed, Stopped
    PROVE  Typed' /\ stop'.at = "done"
<1>1. CallsTyped' /\ stop'.at = "done"
  BY FS_EmptySet DEF Stopped, Typed, CallsTyped
<1>2. RestTyped'
  <2>1. refusal' \in [Devices -> Refusals]
    BY DEF Stopped, Refusals
  <2> QED  BY <2>1 DEF Stopped, Typed, RestTyped, world
<1> QED
  BY <1>1, <1>2 DEF Stopped, Typed, OpenTyped, ClosingTyped, SyncTyped, LookTyped, OwnWays, IsOpen

LEMMA TypedStep ==
    ASSUME Typed, [Next]_vars
    PROVE  Typed'
<1>1. CASE UNCHANGED vars
  BY <1>1
     DEF vars, manager, world, Typed, OpenTyped, ClosingTyped, SyncTyped, LookTyped, CallsTyped, RestTyped,
         OwnWays, IsOpen
<1>2. CASE Next
  BY <1>2, ClosedTyped, SyncBeginsTyped, ChooseTyped, ShutStaleTyped, OpenDirectTyped, OpenMembersTyped,
     RoundEndsTyped, AsksTyped, OpenedTyped, OpenFailsTyped, LookBeginsTyped, LooksWellTyped,
     LooksAstrayTyped, GivesWayTyped, LookEndsTyped, VerifiedTyped, SetSecretsTyped, ChangeTyped,
     PreferTyped, CallerAsksTyped, TurnsTyped, StraysTyped, PassedOverTyped, StopTyped, StoppedTyped
     DEF Next
<1> QED  BY <1>1, <1>2

\* Whatever happens, all is what it should be: among it, that an opening has a
\* number at all, that a way wanted, opened, open or looked at is the device's
\* own, and that what is not open is as if it never was (sessions.ts:197).
THEOREM TypeCorrect == Spec => []TypeOK
<1>1. Typed => TypeOK
  BY TypedGivesTypeOK
<1> QED  BY <1>1, TypedInit, TypedStep, PTL DEF Spec
-----------------------------------------------------------------------------
(* What a sync does, and what goes on beside it.                           *)

\* Beside the sync and the openings it waits for, sessions only go.
Dwindles == \A d \in Devices : open'[d] \in {open[d], Shut}

Beside == UNCHANGED <<sync, opening, records>> /\ Dwindles

SyncSteps ==
    \/ SyncBegins \/ OpenDirect \/ OpenMembers \/ RoundEnds
    \/ \E d \in Devices :
          \/ ShutStale(d) \/ Asks(d) \/ Opened(d)
          \/ \E out \in SUBSET Spotty : Choose(d, out)
          \/ \E why \in Refusals : OpenFails(d, why)

LEMMA ShuttingDwindles ==
    ASSUME Typed, NEW d \in Devices, NEW elsewhere, Shutting(d, elsewhere)
    PROVE  Dwindles
BY ShuttingShuts DEF Dwindles

LEMMA StepKinds ==
    ASSUME Typed, [Next]_vars
    PROVE  SyncSteps \/ Beside
<1>1. ASSUME NEW c \in closing, Closed(c)
      PROVE  Beside
  BY <1>1 DEF Closed, Beside, Dwindles
<1>2. ASSUME NEW d \in Devices, Verified(d) \/ SetSecrets(d)
      PROVE  Beside
  BY <1>2, ShuttingDwindles DEF Verified, SetSecrets, Closing, Beside
<1>3. ASSUME NEW e \in look.left, LooksWell(e) \/ LooksAstray(e) \/ GivesWay(e)
      PROVE  Beside
  <2>1. e[1] \in Devices
    BY DEF Typed, LookTyped, LooksAt
  <2>2. CASE LooksWell(e)
    BY <2>2 DEF LooksWell, Beside, Dwindles
  <2>3. CASE LooksAstray(e) \/ GivesWay(e)
    BY <2>1, <2>3, ShuttingDwindles DEF LooksAstray, GivesWay, Closing, Beside
  <2> QED  BY <1>3, <2>2, <2>3
<1>4. ASSUME NEW due \in BOOLEAN, LookBegins(due)
      PROVE  Beside
  BY <1>4 DEF LookBegins, Beside, Dwindles
<1>5. CASE LookEnds
  BY <1>5 DEF LookEnds, Beside, Dwindles
<1>6. ASSUME NEW w \in Ways, PassedOver(w) \/ Prefer(w) \/ Turns(w) \/ Strays(w)
      PROVE  Beside
  BY <1>6 DEF PassedOver, Prefer, Turns, Strays, manager, Beside, Dwindles
<1>7. ASSUME NEW d \in Devices, NEW state \in States, Change(d, state)
      PROVE  Beside
  BY <1>7 DEF Change, Beside, Dwindles
<1>8. ASSUME NEW c \in callers, CallerAsks(c)
      PROVE  Beside
  BY <1>8 DEF CallerAsks, Beside, Dwindles
<1>9. CASE Stop \/ Stopped
  BY <1>9 DEF Stop, Stopped, Beside, Dwindles
<1>10. CASE UNCHANGED vars
  BY <1>10 DEF vars, manager, Beside, Dwindles
<1> QED
  BY <1>1, <1>2, <1>3, <1>4, <1>5, <1>6, <1>7, <1>8, <1>9, <1>10 DEF Next, SyncSteps

\* A way this holder may use: its own, or through a bridge.
Usual(w) == Bridged(w) \/ w \in Held

\* What opens was tried by this sync, is not open, and is reached directly
\* first, then what is behind a bridge.
OpensInTurn ==
    \A d \in Devices :
        /\ opening[d] # NotOpening =>
              /\ d \in sync.tried /\ opening[d].way = sync.wanted[d] /\ ~IsOpen(d)
              /\ sync.at = "members" <=> Bridged(opening[d].way)
        /\ d \in sync.tried /\ sync.at = "direct" /\ Bridged(sync.wanted[d]) => ~IsOpen(d)

\* What is wanted, and but for a sync that has yet to close what is stale what
\* is open, is kept and is reached by a way this holder may use.
WantsKept ==
    \A d \in Devices :
        /\ sync.wanted[d] # NoWay => records[d] = "kept" /\ Usual(sync.wanted[d])
        /\ IsOpen(d) => Usual(open[d].way) /\ (sync.at # "choosing" => records[d] = "kept")

SyncInv == OpensInTurn /\ WantsKept

\* When a sync has not begun to open, nothing opens.
LEMMA NothingOpens ==
    ASSUME Typed, SyncInv, sync.at \in {"idle", "choosing"}
    PROVE  NoneOpening
BY DEF Typed, OwnWays, SyncInv, OpensInTurn, NoneOpening

\* Nothing of a sync is disturbed by what goes on beside it.
LEMMA SyncBeside ==
    ASSUME Typed, SyncInv, Beside
    PROVE  SyncInv'
<1>1. UNCHANGED <<sync, opening, records>>
  BY DEF Beside
<1>2. \A d \in Devices : IsOpen(d)' => IsOpen(d) /\ open'[d] = open[d]
  BY DEF Beside, Dwindles, IsOpen, Shut
<1>3. OpensInTurn'
  BY <1>1, <1>2 DEF SyncInv, OpensInTurn
<1>4. WantsKept'
  BY <1>1, <1>2 DEF SyncInv, WantsKept
<1> QED  BY <1>3, <1>4 DEF SyncInv

\* When a sync opens what is reached directly, and then what is behind that.
LEMMA DirectOpens ==
    ASSUME Typed, SyncInv, OpenDirect
    PROVE  /\ sync.at = "choosing" /\ sync'.at = "direct" /\ sync'.wanted = sync.wanted
           /\ sync'.tried = ToOpen /\ UNCHANGED <<open, records>>
           /\ \A d \in Devices : IsOpen(d) => ~Stale(d)
           /\ \A d \in Devices : opening[d] = NotOpening
           /\ \A d \in Devices : opening'[d] =
                 IF d \in ToOpen /\ ~Bridged(sync.wanted[d])
                 THEN [way |-> sync.wanted[d], link |-> 0, asked |-> FALSE] ELSE NotOpening
<1>1. sync.at = "choosing" /\ sync' = [sync EXCEPT !.at = "direct", !.tried = ToOpen, !.waits = 0]
  BY DEF OpenDirect
<1>2. sync'.at = "direct" /\ sync'.wanted = sync.wanted /\ sync'.tried = ToOpen
  BY <1>1 DEF Typed, SyncTyped, Syncs
<1>3. \A d \in Devices : opening[d] = NotOpening
  BY <1>1, NothingOpens DEF NoneOpening
<1>4. UNCHANGED <<open, records>> /\ \A d \in Devices : IsOpen(d) => ~Stale(d)
  BY DEF OpenDirect
<1>5. Opening({d \in ToOpen : ~Bridged(sync.wanted[d])})
  BY DEF OpenDirect
<1>6. \A d \in Devices : opening'[d] =
          IF d \in ToOpen /\ ~Bridged(sync.wanted[d])
          THEN [way |-> sync.wanted[d], link |-> 0, asked |-> FALSE] ELSE NotOpening
  BY <1>3, <1>5 DEF Opening, Bridged
<1> QED  BY <1>1, <1>2, <1>3, <1>4, <1>6

LEMMA MembersOpen ==
    ASSUME Typed, SyncInv, OpenMembers
    PROVE  /\ sync.at = "direct" /\ sync'.at = "members" /\ sync'.wanted = sync.wanted
           /\ sync'.tried = sync.tried /\ UNCHANGED <<open, records>>
           /\ \A d \in Devices : opening[d] = NotOpening
           /\ \A d \in Devices : opening'[d] =
                 IF d \in sync.tried /\ BridgeOf(sync.wanted[d]) > 0
                 THEN [way |-> sync.wanted[d], link |-> 0, asked |-> TRUE] ELSE NotOpening
           /\ \A d \in sync.tried :
                 /\ d \in Devices /\ sync.wanted[d] \in WaysOf(d)
                 /\ BridgeOf(sync.wanted[d]) > 0 => Bridged(sync.wanted[d])
<1>1. sync.at = "direct" /\ sync' = [sync EXCEPT !.at = "members"] /\ UNCHANGED <<open, records>>
  BY DEF OpenMembers
<1>2. sync'.at = "members" /\ sync'.wanted = sync.wanted /\ sync'.tried = sync.tried
  BY <1>1 DEF Typed, SyncTyped, Syncs
<1>3. \A d \in Devices : opening[d] = NotOpening
  BY DEF OpenMembers, NoneOpening
<1>4. Opening({d \in sync.tried : BridgeOf(sync.wanted[d]) > 0})
  BY DEF OpenMembers
<1>5. \A d \in sync.tried :
          /\ d \in Devices /\ sync.wanted[d] \in WaysOf(d)
          /\ BridgeOf(sync.wanted[d]) > 0 => Bridged(sync.wanted[d])
  BY DEF Typed, SyncTyped, Syncs, OwnWays, BridgeOf
<1>6. \A d \in Devices : opening'[d] =
          IF d \in sync.tried /\ BridgeOf(sync.wanted[d]) > 0
          THEN [way |-> sync.wanted[d], link |-> 0, asked |-> TRUE] ELSE NotOpening
  BY <1>3, <1>4, <1>5 DEF Opening
<1> QED  BY <1>1, <1>2, <1>3, <1>5, <1>6

\* A sync begun, or begun anew in a round of its own, has chosen nothing yet.
LEMMA BeginsAfresh ==
    ASSUME Typed, SyncInv, SyncBegins \/ RoundEnds
    PROVE  /\ sync'.wanted = [d \in Devices |-> NoWay] /\ sync'.tried = {}
           /\ UNCHANGED <<open, opening>>
           /\ \A d \in Devices : opening[d] = NotOpening
<1>1. CASE SyncBegins
  <2>1. sync.at = "idle"
    BY <1>1 DEF SyncBegins
  <2>2. \A d \in Devices : opening[d] = NotOpening
    BY <2>1, NothingOpens DEF NoneOpening
  <2> QED  BY <1>1, <2>2 DEF SyncBegins, NoSync
<1>2. CASE RoundEnds
  BY <1>2, RoundEndsTyped DEF RoundEnds, NoneOpening
<1> QED  BY <1>1, <1>2

\* A way is chosen only of what is kept, and only one this holder may use.
LEMMA ChoosesKept ==
    ASSUME Typed, NEW d \in Devices, NEW out \in SUBSET Spotty, Choose(d, out), sync'.wanted[d] # NoWay
    PROVE  /\ records[d] = "kept" /\ ~BehindPaused(d)
           /\ sync'.wanted[d] \in Mine(d) \ out
           /\ sync'.wanted[d] \in avoided => Mine(d) = {sync'.wanted[d]}
           /\ Usual(sync'.wanted[d])
<1>1. sync'.wanted[d] \in Usable(d, out)
  BY ChooseTyped
<1>2. sync' = [sync EXCEPT !.left = Tail(@),
                  !.wanted[d] = IF records[d] = "kept" /\ ~BehindPaused(d) /\ Usable(d, out) # {}
                                THEN Best(d, Usable(d, out)) ELSE NoWay]
  BY DEF Choose
<1>3. sync'.wanted[d] = IF records[d] = "kept" /\ ~BehindPaused(d) /\ Usable(d, out) # {}
                        THEN Best(d, Usable(d, out)) ELSE NoWay
  <2> DEFINE way == IF records[d] = "kept" /\ ~BehindPaused(d) /\ Usable(d, out) # {}
                    THEN Best(d, Usable(d, out)) ELSE NoWay
  <2>1. sync' = [sync EXCEPT !.left = Tail(@), !.wanted[d] = way]
    BY <1>2
  <2> HIDE DEF way
  <2>2. sync'.wanted = [sync.wanted EXCEPT ![d] = way] /\ sync.wanted \in [Devices -> Ways \cup {NoWay}]
    BY <2>1 DEF Typed, SyncTyped, Syncs
  <2>3. sync'.wanted[d] = way
    BY <2>2
  <2> QED  BY <2>3 DEF way
<1>4. records[d] = "kept" /\ ~BehindPaused(d)
  BY <1>3
<1> QED  BY <1>1, <1>4 DEF Usable, Mine, Usual

LEMMA SyncInvInit ==
    ASSUME Init
    PROVE  SyncInv
<1>1. \A d \in Devices : opening[d] = NotOpening /\ ~IsOpen(d) /\ sync.wanted[d] = NoWay
  BY DEF Init, IsOpen, Shut, NoSync
<1>2. sync.tried = {}
  BY DEF Init, NoSync
<1> QED  BY <1>1, <1>2 DEF SyncInv, OpensInTurn, WantsKept

LEMMA SyncInvAfresh ==
    ASSUME Typed, SyncInv, SyncBegins \/ RoundEnds
    PROVE  SyncInv'
<1>1. /\ \A d \in Devices : sync'.wanted[d] = NoWay /\ opening'[d] = NotOpening
      /\ sync'.tried = {} /\ UNCHANGED open
  BY BeginsAfresh
<1>2. \A d \in Devices : IsOpen(d)' => IsOpen(d)
  BY <1>1 DEF IsOpen
<1>3. \A d \in Devices : IsOpen(d)' /\ sync'.at # "choosing" => records'[d] = "kept"
  <2>1. CASE SyncBegins
    <3>1. sync'.at = "choosing"
      BY <2>1 DEF SyncBegins, NoSync
    <3> QED  BY <3>1
  <2>2. CASE RoundEnds
    BY <1>2, <2>2 DEF RoundEnds, SyncInv, WantsKept
  <2> QED  BY <2>1, <2>2
<1>4. OpensInTurn'
  BY <1>1 DEF OpensInTurn
<1>5. WantsKept'
  BY <1>1, <1>2, <1>3 DEF SyncInv, WantsKept
<1> QED  BY <1>4, <1>5 DEF SyncInv

LEMMA SyncInvChoose ==
    ASSUME Typed, SyncInv, NEW d \in Devices, NEW out \in SUBSET Spotty, Choose(d, out)
    PROVE  SyncInv'
<1>1. /\ sync'.wanted[d] # NoWay => records[d] = "kept" /\ Usual(sync'.wanted[d])
      /\ \A x \in Devices : x # d => sync'.wanted[x] = sync.wanted[x]
      /\ sync'.at = "choosing" /\ sync'.tried = sync.tried
  BY ChoosesKept, ChooseTyped
<1>2. UNCHANGED <<open, opening, records>> /\ sync.at = "choosing"
  BY DEF Choose
<1>3. \A x \in Devices : opening[x] = NotOpening /\ IsOpen(x)' = IsOpen(x)
  BY <1>2, NothingOpens DEF NoneOpening, IsOpen
<1>4. OpensInTurn'
  BY <1>1, <1>2, <1>3 DEF OpensInTurn
<1>5. WantsKept'
  BY <1>1, <1>2, <1>3 DEF SyncInv, WantsKept
<1> QED  BY <1>4, <1>5 DEF SyncInv

LEMMA SyncInvShutStale ==
    ASSUME Typed, SyncInv, NEW d \in Devices, ShutStale(d)
    PROVE  SyncInv'
<1>1. /\ sync'.wanted = sync.wanted /\ sync'.tried = sync.tried /\ sync'.at = sync.at
      /\ sync.at = "choosing" /\ UNCHANGED <<opening, records>>
  BY DEF ShutStale, Typed, SyncTyped, Syncs
<1>2. Dwindles
  BY ShuttingDwindles DEF ShutStale
<1>3. \A x \in Devices : IsOpen(x)' => IsOpen(x) /\ open'[x] = open[x]
  BY <1>2 DEF Dwindles, IsOpen, Shut
<1>4. OpensInTurn'
  BY <1>1, <1>3 DEF SyncInv, OpensInTurn
<1>5. WantsKept'
  BY <1>1, <1>3 DEF SyncInv, WantsKept
<1> QED  BY <1>4, <1>5 DEF SyncInv

LEMMA SyncInvDirect ==
    ASSUME Typed, SyncInv, OpenDirect
    PROVE  SyncInv'
<1>1. /\ sync'.at = "direct" /\ sync'.wanted = sync.wanted
      /\ sync'.tried = ToOpen /\ UNCHANGED <<open, records>>
      /\ \A d \in Devices : IsOpen(d) => ~Stale(d)
      /\ \A d \in Devices : opening'[d] =
            IF d \in ToOpen /\ ~Bridged(sync.wanted[d])
            THEN [way |-> sync.wanted[d], link |-> 0, asked |-> FALSE] ELSE NotOpening
  BY DirectOpens
<1>2. \A d \in Devices : IsOpen(d)' = IsOpen(d)
  BY <1>1 DEF IsOpen
<1>3. \A d \in ToOpen : ~IsOpen(d)
  BY DEF ToOpen
<1>4. OpensInTurn'
  <2>1. ASSUME NEW d \in Devices, opening'[d] # NotOpening
        PROVE  d \in ToOpen /\ ~Bridged(sync.wanted[d]) /\ opening'[d].way = sync.wanted[d]
    <3>1. d \in ToOpen /\ ~Bridged(sync.wanted[d])
      BY <1>1, <2>1, Zenon
    <3>2. opening'[d] = [way |-> sync.wanted[d], link |-> 0, asked |-> FALSE]
      BY <1>1, <2>1, Zenon
    <3>3. opening'[d].way = sync.wanted[d]
      BY <3>2
    <3> QED  BY <3>1, <3>3
  <2>2. ASSUME NEW d \in Devices, opening'[d] # NotOpening
        PROVE  /\ d \in sync'.tried /\ opening'[d].way = sync'.wanted[d] /\ ~IsOpen(d)'
               /\ sync'.at = "members" <=> Bridged(opening'[d].way)
    BY <1>1, <1>2, <1>3, <2>1, <2>2
  <2> QED  BY <1>1, <1>2, <1>3, <2>2 DEF OpensInTurn
<1>5. \A d \in Devices : IsOpen(d) => sync.wanted[d] # NoWay
  BY <1>1 DEF Stale
<1>6. WantsKept'
  BY <1>1, <1>2, <1>5 DEF SyncInv, WantsKept
<1> QED  BY <1>4, <1>6 DEF SyncInv

LEMMA SyncInvMembers ==
    ASSUME Typed, SyncInv, OpenMembers
    PROVE  SyncInv'
<1>1. /\ sync.at = "direct" /\ sync'.at = "members" /\ sync'.wanted = sync.wanted
      /\ sync'.tried = sync.tried /\ UNCHANGED <<open, records>>
      /\ \A d \in Devices : opening'[d] =
            IF d \in sync.tried /\ BridgeOf(sync.wanted[d]) > 0
            THEN [way |-> sync.wanted[d], link |-> 0, asked |-> TRUE] ELSE NotOpening
      /\ \A d \in sync.tried : BridgeOf(sync.wanted[d]) > 0 => Bridged(sync.wanted[d])
  BY MembersOpen
<1>2. \A d \in Devices : IsOpen(d)' = IsOpen(d)
  BY <1>1 DEF IsOpen
<1>3. OpensInTurn'
  <2>1. ASSUME NEW d \in Devices, opening'[d] # NotOpening
        PROVE  d \in sync.tried /\ Bridged(sync.wanted[d]) /\ opening'[d].way = sync.wanted[d]
    <3>1. d \in sync.tried /\ BridgeOf(sync.wanted[d]) > 0
      BY <1>1, <2>1, Zenon
    <3>2. opening'[d] = [way |-> sync.wanted[d], link |-> 0, asked |-> TRUE]
      BY <1>1, <2>1, Zenon
    <3>3. opening'[d].way = sync.wanted[d]
      BY <3>2
    <3> QED  BY <1>1, <3>1, <3>3
  <2>2. ASSUME NEW d \in Devices, opening'[d] # NotOpening
        PROVE  /\ d \in sync'.tried /\ opening'[d].way = sync'.wanted[d] /\ ~IsOpen(d)'
               /\ sync'.at = "members" <=> Bridged(opening'[d].way)
    BY <1>1, <1>2, <2>1, <2>2 DEF SyncInv, OpensInTurn
  <2> QED  BY <1>1, <2>2 DEF OpensInTurn
<1>4. WantsKept'
  BY <1>1, <1>2 DEF SyncInv, WantsKept
<1> QED  BY <1>3, <1>4 DEF SyncInv

LEMMA SyncInvAsks ==
    ASSUME Typed, SyncInv, NEW d \in Devices, Asks(d)
    PROVE  SyncInv'
<1>1. /\ opening'[d].way = opening[d].way
      /\ \A x \in Devices : x # d => opening'[x] = opening[x]
  BY AsksTyped
<1>2. UNCHANGED <<sync, records, open>> /\ opening[d].asked
  BY DEF Asks
<1>3. opening[d] # NotOpening
  BY <1>2 DEF NotOpening
<1>4. \A x \in Devices : IsOpen(x)' = IsOpen(x)
  BY <1>2 DEF IsOpen
<1>5. OpensInTurn'
  BY <1>1, <1>2, <1>3, <1>4 DEF SyncInv, OpensInTurn
<1>6. WantsKept'
  BY <1>2, <1>4 DEF SyncInv, WantsKept
<1> QED  BY <1>5, <1>6 DEF SyncInv

LEMMA SyncInvOpened ==
    ASSUME Typed, SyncInv, NEW d \in Devices, Opened(d)
    PROVE  SyncInv'
<1>1. /\ open'[d].way = opening[d].way /\ opening'[d] = NotOpening /\ opening[d].way \in WaysOf(d)
      /\ \A x \in Devices : x # d => open'[x] = open[x] /\ opening'[x] = opening[x]
  <2>1. open'[d] = [way |-> opening[d].way, epoch |-> NewEpoch, link |-> opening[d].link,
                    over |-> BridgeOf(opening[d].way)]
    BY OpenedTyped
  <2>2. open'[d].way = opening[d].way
    BY <2>1
  <2> QED  BY <2>2, OpenedTyped
<1>2. UNCHANGED <<sync, records>> /\ opening[d].way # NoWay
  BY DEF Opened
<1>3. opening[d] # NotOpening
  BY <1>2 DEF NotOpening
<1>4. /\ d \in sync.tried /\ opening[d].way = sync.wanted[d]
      /\ sync.at = "members" <=> Bridged(opening[d].way)
      /\ records[d] = "kept" /\ Usual(sync.wanted[d])
  BY <1>2, <1>3 DEF SyncInv, OpensInTurn, WantsKept
<1>5. \A x \in Devices : x # d => IsOpen(x)' = IsOpen(x)
  BY <1>1 DEF IsOpen
<1>6. OpensInTurn'
  BY <1>1, <1>2, <1>4, <1>5 DEF SyncInv, OpensInTurn
<1>7. WantsKept'
  BY <1>1, <1>2, <1>4, <1>5 DEF SyncInv, WantsKept
<1> QED  BY <1>6, <1>7 DEF SyncInv

LEMMA SyncInvOpenFails ==
    ASSUME Typed, SyncInv, NEW d \in Devices, NEW why \in Refusals, OpenFails(d, why)
    PROVE  SyncInv'
<1>1. opening' = [opening EXCEPT ![d] = NotOpening] /\ UNCHANGED <<sync, records, open>>
  BY DEF OpenFails
<1>2. \A x \in Devices : opening'[x] = NotOpening \/ opening'[x] = opening[x]
  BY <1>1 DEF Typed, OpenTyped
<1>3. \A x \in Devices : IsOpen(x)' = IsOpen(x)
  BY <1>1 DEF IsOpen
<1>4. OpensInTurn'
  BY <1>1, <1>2, <1>3 DEF SyncInv, OpensInTurn
<1>5. WantsKept'
  BY <1>1, <1>3 DEF SyncInv, WantsKept
<1> QED  BY <1>4, <1>5 DEF SyncInv

LEMMA SyncInvStep ==
    ASSUME Typed, SyncInv, [Next]_vars
    PROVE  SyncInv'
<1>1. CASE Beside
  BY <1>1, SyncBeside
<1>2. CASE SyncSteps
  BY <1>2, SyncInvAfresh, SyncInvChoose, SyncInvShutStale, SyncInvDirect, SyncInvMembers, SyncInvAsks,
     SyncInvOpened, SyncInvOpenFails DEF SyncSteps
<1> QED  BY <1>1, <1>2, StepKinds

\* The sync under way opens only what it chose and what is kept, each once and
\* in its turn (sessions.ts:401-441).
LEMMA SyncSound == Spec => [](Typed /\ SyncInv)
BY TypedInit, TypedStep, SyncInvInit, SyncInvStep, PTL DEF Spec
-----------------------------------------------------------------------------
(* No session is lost sight of.                                            *)

\* Each session has an opening of its own, whether it is open or being closed.
SessionsApart ==
    /\ \A d, e \in Devices : IsOpen(d) /\ open[d].epoch = open[e].epoch => d = e
    /\ \A c \in closing : c.epoch > 0 /\ \A d \in Devices : open[d].epoch # c.epoch
    /\ \A c, x \in closing : c.epoch = x.epoch => c = x

LEMMA SessionsApartInit ==
    ASSUME Init
    PROVE  SessionsApart /\ NoneForgotten
<1>1. closing = {} /\ alive = {} /\ \A d \in Devices : ~IsOpen(d)
  BY DEF Init, IsOpen, Shut
<1> QED  BY <1>1 DEF SessionsApart, NoneForgotten

\* A session that goes is closed, once, and is closed as what it was.
LEMMA GoneAreClosed ==
    ASSUME Typed, SessionsApart, NoneForgotten, NEW S \in SUBSET {d \in Devices : IsOpen(d)}, NEW C,
           closing' = closing \cup C, UNCHANGED alive,
           open' = [x \in Devices |-> IF x \in S THEN Shut ELSE open[x]],
           \A c \in C : c.dev \in S /\ c.epoch = open[c.dev].epoch,
           \A x \in S : \E c \in C : c.dev = x,
           \A c, y \in C : c.dev = y.dev => c = y
    PROVE  SessionsApart' /\ NoneForgotten'
<1>1. /\ \A x \in S : open'[x].epoch = 0
      /\ \A x \in Devices \ S : open'[x] = open[x]
  BY DEF Shut
<1>2. \A d \in Devices : open[d].epoch \in Nat /\ (IsOpen(d) <=> open[d].epoch > 0)
  BY DEF Typed, OpenTyped, Sessioned, IsOpen
<1>3. \A d \in Devices : IsOpen(d)' <=> IsOpen(d) /\ d \notin S
  <2>1. \A d \in S : ~IsOpen(d)'
    BY <1>1 DEF IsOpen
  <2>2. \A d \in Devices \ S : IsOpen(d)' <=> IsOpen(d)
    BY <1>1 DEF IsOpen
  <2> QED  BY <2>1, <2>2
<1>4. \A d, e \in Devices : IsOpen(d)' /\ open'[d].epoch = open'[e].epoch => d = e
  <2> TAKE d \in Devices, e \in Devices
  <2> HAVE IsOpen(d)' /\ open'[d].epoch = open'[e].epoch
  <2>1. IsOpen(d) /\ open'[d] = open[d] /\ open[d].epoch > 0
    BY <1>1, <1>2, <1>3
  <2>2. e \notin S
    BY <1>1, <2>1
  <2> QED  BY <1>1, <2>1, <2>2 DEF SessionsApart
<1>5. \A c \in C : c.epoch > 0 /\ IsOpen(c.dev) /\ c.dev \in Devices
  BY <1>2
<1>6. \A c \in C, d \in Devices : open'[d].epoch # c.epoch
  <2> TAKE c \in C, d \in Devices
  <2>1. CASE d \in S
    BY <1>1, <1>5, <2>1
  <2>2. CASE d \notin S
    BY <1>1, <1>5, <2>2 DEF SessionsApart
  <2> QED  BY <2>1, <2>2
<1>7. \A c \in closing : c.epoch > 0 /\ \A d \in Devices : open'[d].epoch # c.epoch
  <2>1. ASSUME NEW c \in closing, NEW d \in Devices
        PROVE  c.epoch > 0 /\ open'[d].epoch # c.epoch
    <3>1. c.epoch > 0 /\ open[d].epoch # c.epoch
      BY DEF SessionsApart
    <3>2. open'[d].epoch = 0 \/ open'[d] = open[d]
      BY <1>1
    <3> QED  BY <3>1, <3>2
  <2>2. ASSUME NEW c \in closing
        PROVE  c.epoch > 0
    BY DEF SessionsApart
  <2> QED  BY <2>1, <2>2
<1>8. \A c, x \in closing' : c.epoch = x.epoch => c = x
  <2>1. ASSUME NEW c \in C, NEW y \in C, c.epoch = y.epoch
        PROVE  c = y
    BY <1>5, <2>1 DEF SessionsApart
  <2>2. ASSUME NEW c \in C, NEW x \in closing
        PROVE  c.epoch # x.epoch
    BY <1>5 DEF SessionsApart
  <2> QED  BY <2>1, <2>2 DEF SessionsApart
<1>9. SessionsApart'
  <2>1. \A c \in closing' : c.epoch > 0 /\ \A d \in Devices : open'[d].epoch # c.epoch
    BY <1>5, <1>6, <1>7
  <2> QED  BY <1>4, <1>8, <2>1 DEF SessionsApart
<1>10. {open[d].epoch : d \in {x \in Devices : IsOpen(x)}} =
          {open'[d].epoch : d \in {x \in Devices : IsOpen(x)'}} \cup {c.epoch : c \in C}
  <2>1. ASSUME NEW d \in Devices, IsOpen(d), d \in S
        PROVE  open[d].epoch \in {c.epoch : c \in C}
    BY <2>1
  <2>2. ASSUME NEW d \in Devices, IsOpen(d), d \notin S
        PROVE  open[d].epoch \in {open'[x].epoch : x \in {x \in Devices : IsOpen(x)'}}
    BY <1>1, <1>3, <2>2
  <2>3. ASSUME NEW d \in Devices, IsOpen(d)'
        PROVE  open'[d].epoch \in {open[x].epoch : x \in {x \in Devices : IsOpen(x)}}
    BY <1>1, <1>3, <2>3
  <2>4. ASSUME NEW c \in C
        PROVE  c.epoch \in {open[x].epoch : x \in {x \in Devices : IsOpen(x)}}
    BY <1>5
  <2> QED  BY <2>1, <2>2, <2>3, <2>4
<1>11. {c.epoch : c \in closing'} = {c.epoch : c \in closing} \cup {c.epoch : c \in C}
  OBVIOUS
<1>12. NoneForgotten'
  BY <1>10, <1>11 DEF NoneForgotten
<1> QED  BY <1>9, <1>12

\* What is to be closed when a device's session is.
LEMMA ClosingsOf ==
    ASSUME Typed, NEW d \in Devices, NEW elsewhere
    PROVE  /\ Gone(d) \in SUBSET {x \in Devices : IsOpen(x)}
           /\ \A c \in Closings(d, elsewhere) : c.dev \in Gone(d) /\ c.epoch = open[c.dev].epoch
           /\ \A x \in Gone(d) : \E c \in Closings(d, elsewhere) : c.dev = x
           /\ \A c, y \in Closings(d, elsewhere) : c.dev = y.dev => c = y
<1>1. CASE ~IsOpen(d)
  BY <1>1 DEF Gone, Closings
<1>2. CASE IsOpen(d)
  <2> DEFINE own == [dev |-> d, epoch |-> open[d].epoch, behind |-> Members(d),
                     after |-> {open[m].epoch : m \in Members(d)}, elsewhere |-> elsewhere]
  <2> DEFINE f == [m \in Members(d) |-> [dev |-> m, epoch |-> open[m].epoch, behind |-> {},
                                         after |-> {}, elsewhere |-> FALSE]]
  <2>1. Closings(d, elsewhere) = {own} \cup {f[m] : m \in Members(d)}
    BY <1>2 DEF Closings
  <2>2. Gone(d) = {d} \cup Members(d)
    BY <1>2 DEF Gone
  <2>3. own.dev = d /\ own.epoch = open[d].epoch
    OBVIOUS
  <2>4. \A m \in Members(d) : f[m].dev = m /\ f[m].epoch = open[m].epoch /\ m # d
    BY MembersApart
  <2>5. Members(d) \in SUBSET {x \in Devices : IsOpen(x)}
    BY DEF Members
  <2> HIDE DEF own, f
  <2> QED  BY <1>2, <2>1, <2>2, <2>3, <2>4, <2>5
<1> QED  BY <1>1, <1>2

LEMMA ShuttingForgetsNone ==
    ASSUME Typed, SessionsApart, NoneForgotten, NEW d \in Devices, NEW elsewhere, Shutting(d, elsewhere),
           UNCHANGED alive
    PROVE  SessionsApart' /\ NoneForgotten'
<1>1. open' = [x \in Devices |-> IF x \in Gone(d) THEN Shut ELSE open[x]]
  BY ShuttingShuts
<1> DEFINE S == Gone(d)
<1> DEFINE C == Closings(d, elsewhere)
<1>2. closing' = closing \cup C
  BY DEF Shutting
<1>3. /\ S \in SUBSET {x \in Devices : IsOpen(x)}
      /\ \A c \in C : c.dev \in S /\ c.epoch = open[c.dev].epoch
      /\ \A x \in S : \E c \in C : c.dev = x
      /\ \A c, y \in C : c.dev = y.dev => c = y
  BY ClosingsOf
<1>4. open' = [x \in Devices |-> IF x \in S THEN Shut ELSE open[x]]
  BY <1>1
<1> HIDE DEF S, C
<1> QED  BY <1>2, <1>3, <1>4, GoneAreClosed

\* What is open is either reached directly or over nothing, or goes with the
\* bridge that is.
LEMMA RootsReachAll ==
    ASSUME Typed
    PROVE  /\ Roots \in SUBSET Devices
           /\ \A d \in Devices : IsOpen(d) => \E r \in Roots : d \in Gone(r)
           /\ \A r, s \in Roots : Gone(r) \cap Gone(s) # {} => r = s
<1>1. Roots \in SUBSET Devices /\ \A r \in Roots : IsOpen(r) /\ BridgeOf(open[r].way) = 0
  BY DEF Roots
<1>2. \A d \in Devices : IsOpen(d) => open[d].way \in WaysOf(d) /\ open[d].way \in Ways
  BY WaysKnown DEF Typed, OwnWays
<1>3. ASSUME NEW d \in Devices, IsOpen(d)
      PROVE  \E r \in Roots : d \in Gone(r)
  <2>1. CASE BridgeOf(open[d].way) = 0
    BY <1>3, <2>1 DEF Roots, Gone
  <2>2. CASE BridgeOf(open[d].way) # 0
    <3> DEFINE r == Through[open[d].way]
    <3>1. Bridged(open[d].way) /\ r \in Devices /\ IsOpen(r)
      BY <1>2, <1>3, <2>2, BridgeNumbered, WaysKnown DEF Typed
    <3>2. d \in Members(r)
      BY <1>3 DEF Members
    <3>3. ~Bridged(open[r].way)
      BY <1>2, <3>1, <3>2, MembersApart
    <3>4. BridgeOf(open[r].way) = 0
      BY <3>3 DEF BridgeOf
    <3>5. r \in Roots /\ d \in Gone(r)
      BY <3>1, <3>2, <3>4 DEF Roots, Gone
    <3> QED  BY <3>5
  <2> QED  BY <2>1, <2>2
<1>4. ASSUME NEW r \in Roots, NEW m \in Members(r)
      PROVE  m \notin Roots /\ Through[open[m].way] = r
  <2>1. m \in Devices /\ IsOpen(m) /\ open[m].way \in WaysOf(m) /\ Bridged(open[m].way) /\ Through[open[m].way] = r
    BY <1>1, MembersApart
  <2>2. open[m].way \in Ways /\ IsOpen(r)
    BY <1>1, <2>1, WaysKnown
  <2>3. BridgeOf(open[m].way) > 0 /\ BridgeOf(open[m].way) \in Nat
    BY <2>1, <2>2, BridgeNumbered DEF Typed
  <2> QED  BY <2>1, <2>3 DEF Roots
<1>5. ASSUME NEW r \in Roots, NEW s \in Roots, NEW x, x \in Gone(r), x \in Gone(s)
      PROVE  r = s
  BY <1>4, <1>5 DEF Gone
<1> QED  BY <1>1, <1>3, <1>5

LEMMA StopForgetsNone ==
    ASSUME Typed, SessionsApart, NoneForgotten, Stop
    PROVE  SessionsApart' /\ NoneForgotten'
<1> DEFINE S == {d \in Devices : IsOpen(d)}
<1> DEFINE C == UNION {Closings(r, FALSE) : r \in Roots}
<1>1. closing' = closing \cup C /\ UNCHANGED alive
  BY DEF Stop, Roots
<1>2. open' = [x \in Devices |-> IF x \in S THEN Shut ELSE open[x]]
  <2>1. \A x \in Devices : ~IsOpen(x) => open[x] = Shut
    BY DEF Typed, OwnWays
  <2> QED  BY <2>1 DEF Stop
<1>3. Roots \in SUBSET Devices
  BY DEF Roots
<1>4. \A c \in C : c.dev \in S /\ c.epoch = open[c.dev].epoch
  <2> TAKE c \in C
  <2>1. PICK r \in Roots : c \in Closings(r, FALSE)
    OBVIOUS
  <2>2. /\ Gone(r) \in SUBSET {x \in Devices : IsOpen(x)}
        /\ c.dev \in Gone(r) /\ c.epoch = open[c.dev].epoch
    BY <1>3, <2>1, ClosingsOf
  <2> QED  BY <2>2
<1>5. \A x \in S : \E c \in C : c.dev = x
  <2> TAKE x \in S
  <2>1. PICK r \in Roots : x \in Gone(r)
    BY RootsReachAll
  <2>2. PICK c \in Closings(r, FALSE) : c.dev = x
    BY <1>3, <2>1, ClosingsOf
  <2> QED  BY <2>2
<1>6. \A c, y \in C : c.dev = y.dev => c = y
  <2> TAKE c \in C, y \in C
  <2> HAVE c.dev = y.dev
  <2>1. PICK r \in Roots : c \in Closings(r, FALSE)
    OBVIOUS
  <2>2. PICK s \in Roots : y \in Closings(s, FALSE)
    OBVIOUS
  <2>3. c.dev \in Gone(r) /\ y.dev \in Gone(s)
    BY <1>3, <2>1, <2>2, ClosingsOf
  <2>4. r = s
    BY <2>3, RootsReachAll
  <2> QED  BY <1>3, <2>1, <2>2, <2>4, ClosingsOf
<1> HIDE DEF S, C
<1>7. S \in SUBSET {d \in Devices : IsOpen(d)}
  BY DEF S
<1> QED  BY <1>1, <1>2, <1>4, <1>5, <1>6, <1>7, GoneAreClosed

LEMMA OpenedForgetsNone ==
    ASSUME Typed, SyncInv, SessionsApart, NoneForgotten, NEW d \in Devices, Opened(d)
    PROVE  SessionsApart' /\ NoneForgotten'
<1>1. /\ open'[d] = [way |-> opening[d].way, epoch |-> NewEpoch, link |-> opening[d].link,
                     over |-> BridgeOf(opening[d].way)]
      /\ \A x \in Devices : x # d => open'[x] = open[x]
  BY OpenedTyped
<1>2. open'[d].epoch = NewEpoch
  BY <1>1
<1>3. alive' = alive \cup {NewEpoch} /\ UNCHANGED closing
  BY DEF Opened
<1>4. /\ NewEpoch > 0 /\ \A x \in Devices : open[x].epoch # NewEpoch
      /\ \A c \in closing : c.epoch # NewEpoch
  BY NewEpochIsNew DEF Epochs
<1>5. ~IsOpen(d)
  BY DEF Opened, SyncInv, OpensInTurn, NotOpening
<1>6. IsOpen(d)' /\ \A x \in Devices : x # d => IsOpen(x)' = IsOpen(x)
  BY <1>1, <1>2, <1>4 DEF IsOpen
<1>7. SessionsApart'
  <2>1. \A x, y \in Devices : IsOpen(x)' /\ open'[x].epoch = open'[y].epoch => x = y
    BY <1>1, <1>2, <1>4, <1>6 DEF SessionsApart
  <2>2. ASSUME NEW c \in closing
        PROVE  c.epoch > 0 /\ \A x \in Devices : open'[x].epoch # c.epoch
    BY <1>1, <1>2, <1>4 DEF SessionsApart
  <2> QED  BY <1>3, <2>1, <2>2 DEF SessionsApart
<1>8. {open'[x].epoch : x \in {x \in Devices : IsOpen(x)'}} =
          {open[x].epoch : x \in {x \in Devices : IsOpen(x)}} \cup {NewEpoch}
  BY <1>1, <1>2, <1>5, <1>6
<1> QED  BY <1>3, <1>7, <1>8 DEF NoneForgotten

LEMMA ClosedForgetsNone ==
    ASSUME Typed, SessionsApart, NoneForgotten, NEW c \in closing, Closed(c)
    PROVE  SessionsApart' /\ NoneForgotten'
<1> DEFINE f == [x \in closing |-> [x EXCEPT !.after = @ \ {c.epoch}]]
<1>1. \A x \in closing : f[x].epoch = x.epoch
  BY DEF Typed, ClosingTyped, ToClose
<1>2. closing' = {f[x] : x \in closing \ {c}} /\ alive' = alive \ {c.epoch} /\ UNCHANGED open
  BY DEF Closed
<1> HIDE DEF f
<1>3. \A d \in Devices : IsOpen(d)' = IsOpen(d)
  BY <1>2 DEF IsOpen
<1>4. \A y \in closing' : \E x \in closing \ {c} : y = f[x] /\ y.epoch = x.epoch
  BY <1>1, <1>2
<1>5. SessionsApart'
  <2>1. ASSUME NEW y \in closing'
        PROVE  y.epoch > 0 /\ \A d \in Devices : open'[d].epoch # y.epoch
    BY <1>2, <1>4 DEF SessionsApart
  <2>2. ASSUME NEW y \in closing', NEW z \in closing', y.epoch = z.epoch
        PROVE  y = z
    <3>1. PICK u \in closing : y = f[u] /\ y.epoch = u.epoch
      BY <1>4
    <3>2. PICK v \in closing : z = f[v] /\ z.epoch = v.epoch
      BY <1>4
    <3>3. u = v
      BY <2>2, <3>1, <3>2 DEF SessionsApart
    <3> QED  BY <3>1, <3>2, <3>3
  <2> QED  BY <1>2, <1>3, <2>1, <2>2 DEF SessionsApart
<1>6. {y.epoch : y \in closing'} = {x.epoch : x \in closing} \ {c.epoch}
  <2>1. ASSUME NEW y \in closing'
        PROVE  y.epoch \in {x.epoch : x \in closing} \ {c.epoch}
    BY <1>4, <2>1 DEF SessionsApart
  <2>2. ASSUME NEW x \in closing, x.epoch # c.epoch
        PROVE  x.epoch \in {y.epoch : y \in closing'}
    BY <1>1, <1>2, <2>2
  <2> QED  BY <2>1, <2>2
<1>7. c.epoch \notin {open[d].epoch : d \in {x \in Devices : IsOpen(x)}}
  BY DEF SessionsApart
<1>8. {open'[d].epoch : d \in {x \in Devices : IsOpen(x)'}} = {open[d].epoch : d \in {x \in Devices : IsOpen(x)}}
  BY <1>2, <1>3
<1> QED  BY <1>2, <1>5, <1>6, <1>7, <1>8 DEF NoneForgotten

\* Which steps open or close anything.
LEMMA StepsOfSessions ==
    ASSUME Typed, [Next]_vars
    PROVE  \/ UNCHANGED <<open, closing, alive>>
           \/ \E c \in closing : Closed(c)
           \/ \E d \in Devices : Opened(d)
           \/ \E d \in Devices, elsewhere \in BOOLEAN : Shutting(d, elsewhere) /\ UNCHANGED alive
           \/ Stop
<1>1. CASE SyncBegins \/ OpenDirect \/ OpenMembers \/ RoundEnds \/ LookEnds \/ Stopped \/ UNCHANGED vars
  BY <1>1 DEF SyncBegins, OpenDirect, OpenMembers, RoundEnds, LookEnds, Stopped, vars, manager
<1>2. ASSUME NEW d \in Devices, ShutStale(d) \/ Verified(d) \/ SetSecrets(d)
      PROVE  \E elsewhere \in BOOLEAN : Shutting(d, elsewhere) /\ UNCHANGED alive
  BY <1>2 DEF ShutStale, Verified, SetSecrets, Closing
<1>3. ASSUME NEW d \in Devices,
             \/ Asks(d)
             \/ \E out \in SUBSET Spotty : Choose(d, out)
             \/ \E why \in Refusals : OpenFails(d, why)
             \/ \E state \in States : Change(d, state)
      PROVE  UNCHANGED <<open, closing, alive>>
  BY <1>3 DEF Asks, Choose, OpenFails, Change
<1>4. ASSUME NEW e \in look.left, LooksAstray(e) \/ GivesWay(e)
      PROVE  \E d \in Devices, elsewhere \in BOOLEAN : Shutting(d, elsewhere) /\ UNCHANGED alive
  <2>1. e[1] \in Devices
    BY DEF Typed, LookTyped, LooksAt
  <2> QED  BY <1>4, <2>1 DEF LooksAstray, GivesWay, Closing
<1>5. ASSUME \/ \E e \in look.left : LooksWell(e)
             \/ \E due \in BOOLEAN : LookBegins(due)
             \/ \E w \in Ways : PassedOver(w) \/ Prefer(w) \/ Turns(w) \/ Strays(w)
             \/ \E c \in callers : CallerAsks(c)
      PROVE  UNCHANGED <<open, closing, alive>>
  BY <1>5 DEF LooksWell, LookBegins, PassedOver, Prefer, Turns, Strays, CallerAsks, manager
<1> QED
  BY <1>1, <1>2, <1>3, <1>4, <1>5 DEF Next

LEMMA ForgetsNoneStep ==
    ASSUME Typed, SyncInv, SessionsApart, NoneForgotten, [Next]_vars
    PROVE  SessionsApart' /\ NoneForgotten'
<1>1. CASE UNCHANGED <<open, closing, alive>>
  BY <1>1 DEF SessionsApart, NoneForgotten, IsOpen
<1>2. CASE Stop
  BY <1>2, StopForgetsNone
<1>3. ASSUME NEW c \in closing, Closed(c)
      PROVE  SessionsApart' /\ NoneForgotten'
  BY <1>3, ClosedForgetsNone
<1>4. ASSUME NEW d \in Devices, Opened(d)
      PROVE  SessionsApart' /\ NoneForgotten'
  BY <1>4, OpenedForgetsNone
<1>5. ASSUME NEW d \in Devices, NEW elsewhere \in BOOLEAN, Shutting(d, elsewhere), UNCHANGED alive
      PROVE  SessionsApart' /\ NoneForgotten'
  BY <1>5, ShuttingForgetsNone
<1> QED  BY <1>1, <1>2, <1>3, <1>4, <1>5, StepsOfSessions

\* No session is lost sight of: whatever closes, reopens and fails beside a
\* sync, one that was opened and is not closed yet is its device's, or is being
\* closed (sessions.ts:596, 684-701).
THEOREM NoneLost == Spec => []NoneForgotten
BY TypedInit, TypedStep, SyncInvInit, SyncInvStep, SessionsApartInit, ForgetsNoneStep, PTL DEF Spec
-----------------------------------------------------------------------------
(* A sync that is still to come.                                           *)

\* Something else has yet to be synced, or the holder was told to stop.
Coming ==
    \/ queue # <<>> \/ callers # {}
    \/ look.at = "looking" /\ look.changed
    \/ stop.at # "no"

LEMMA QuietComesNone ==
    ASSUME Quiet
    PROVE  ~Coming
BY DEF Quiet, Coming

\* A look round under way is left alone by all but itself.
LEMMA LookSteps ==
    ASSUME Typed, NEW e \in look.left, LooksWell(e) \/ LooksAstray(e) \/ GivesWay(e)
    PROVE  /\ look.at = "looking" /\ look'.at = "looking" /\ UNCHANGED <<sync, queue, callers, stop>>
           /\ look'.changed = look.changed \/ look'.changed
<1>1. look.at = "looking" /\ look \in LooksAt
  BY DEF LooksWell, LooksAstray, GivesWay, Looking, LookGoesOn, Typed, LookTyped
<1>2. UNCHANGED <<sync, queue, callers, stop>>
  BY DEF LooksWell, LooksAstray, GivesWay
<1>3. look'.at = "looking" /\ (look'.changed = look.changed \/ look'.changed)
  BY <1>1 DEF LooksWell, LooksAstray, GivesWay, LooksAt
<1> QED  BY <1>1, <1>2, <1>3

\* What is still to come comes: only the sync itself begins.
LEMMA ComingStays ==
    ASSUME Typed, Coming, [Next]_vars
    PROVE  SyncBegins \/ Coming'
<1>1. ASSUME UNCHANGED <<queue, look, callers, stop>>
      PROVE  Coming'
  BY <1>1 DEF Coming
<1>2. CASE UNCHANGED vars
  BY <1>1, <1>2 DEF vars, manager
<1>3. CASE OpenDirect \/ OpenMembers
  BY <1>1, <1>3 DEF OpenDirect, OpenMembers
<1>4. CASE RoundEnds
  BY <1>1, <1>4 DEF RoundEnds
<1>5. ASSUME NEW d \in Devices, \/ ShutStale(d) \/ Asks(d) \/ Opened(d) \/ Verified(d)
                                \/ \E out \in SUBSET Spotty : Choose(d, out)
                                \/ \E why \in Refusals : OpenFails(d, why)
      PROVE  Coming'
  BY <1>1, <1>5 DEF ShutStale, Asks, Opened, Verified, Choose, OpenFails
<1>6. ASSUME NEW d \in Devices, SetSecrets(d)
      PROVE  Coming'
  BY <1>6, SetSecretsTyped DEF Coming
<1>7. ASSUME NEW c \in closing, Closed(c)
      PROVE  Coming'
  BY <1>1, <1>7 DEF Closed
<1>8. ASSUME NEW e \in look.left, LooksWell(e) \/ LooksAstray(e) \/ GivesWay(e)
      PROVE  Coming'
  BY <1>8, LookSteps DEF Coming
<1>9. ASSUME NEW due \in BOOLEAN, LookBegins(due)
      PROVE  Coming'
  BY <1>9, LookBeginsTyped DEF LookBegins, Coming
<1>10. CASE LookEnds
  BY <1>10, LookEndsTyped DEF LookEnds, Coming
<1>11. ASSUME \/ \E d \in Devices, state \in States : Change(d, state)
              \/ \E w \in Ways : Prefer(w)
              \/ \E c \in callers : CallerAsks(c)
       PROVE  Coming'
  BY <1>11, ChangeTyped, PreferTyped, CallerAsksTyped DEF Coming
<1>12. ASSUME NEW w \in Ways, PassedOver(w) \/ Turns(w) \/ Strays(w)
       PROVE  Coming'
  BY <1>1, <1>12 DEF PassedOver, Turns, Strays, manager
<1>13. CASE Stop \/ Stopped
  BY <1>13, StopTyped, StoppedTyped DEF Coming
<1> QED
  BY <1>2, <1>3, <1>4, <1>5, <1>6, <1>7, <1>8, <1>9, <1>10, <1>11, <1>12, <1>13 DEF Next

\* What is open through a bridge goes with it: while it stays, the bridge is
\* open as it was.
LEMMA GoesWithItsBridge ==
    ASSUME Typed, SyncInv, [Next]_vars, NEW m \in Devices, IsOpen(m), IsOpen(m)', Bridged(open[m].way),
           IsOpen(Through[open[m].way])
    PROVE  /\ open'[m] = open[m]
           /\ open'[Through[open[m].way]] = open[Through[open[m].way]]
<1> DEFINE b == Through[open[m].way]
<1>1. open[m].way \in Ways /\ b \in Devices /\ m \in Members(b)
  BY WaysKnown DEF Typed, OwnWays, Members
<1>2. CASE UNCHANGED <<open, closing, alive>>
  BY <1>2
<1>3. ASSUME NEW c \in closing, Closed(c)
      PROVE  UNCHANGED open
  BY <1>3 DEF Closed
<1>4. ASSUME NEW d \in Devices, Opened(d)
      PROVE  open'[m] = open[m] /\ open'[b] = open[b]
  <2>1. ~IsOpen(d)
    BY <1>4 DEF Opened, SyncInv, OpensInTurn, NotOpening
  <2>2. d # m /\ d # b
    BY <2>1
  <2> QED  BY <1>1, <1>4, <2>2, OpenedTyped
<1>5. ASSUME NEW d \in Devices, NEW elsewhere \in BOOLEAN, Shutting(d, elsewhere)
      PROVE  open'[m] = open[m] /\ open'[b] = open[b]
  <2>1. open' = [x \in Devices |-> IF x \in Gone(d) THEN Shut ELSE open[x]]
    BY <1>5, ShuttingShuts
  <2>2. m \notin Gone(d)
    BY <2>1 DEF IsOpen, Shut
  <2>3. b \notin Gone(d)
    <3>1. b # d
      BY <1>1, <2>2 DEF Gone
    <3>2. b \notin Members(d)
      BY <1>1, MembersApart
    <3> QED  BY <3>1, <3>2 DEF Gone
  <2> QED  BY <1>1, <2>1, <2>2, <2>3
<1>6. CASE Stop
  <2>1. ~IsOpen(m)'
    BY <1>6 DEF Stop, IsOpen, Shut
  <2> QED  BY <2>1
<1> QED  BY <1>1, <1>2, <1>3, <1>4, <1>5, <1>6, StepsOfSessions

\* A bridge closed beside a sync leaves a sync to come, unless it answered as
\* another device.
LEMMA LostWithWord ==
    ASSUME Typed, [Next]_vars, NEW w \in Ways, Bridged(w),
           IsOpen(Through[w]), ~IsOpen(Through[w])'
    PROVE  SyncSteps \/ Coming' \/ open[Through[w]].way \in astray
<1> DEFINE b == Through[w]
<1>1. b \in Devices /\ \A v \in WaysOf(b) : ~Bridged(v)
  BY WaysKnown
<1>2. ASSUME NEW d \in Devices, NEW elsewhere, Shutting(d, elsewhere)
      PROVE  b = d
  <2>1. open' = [x \in Devices |-> IF x \in Gone(d) THEN Shut ELSE open[x]]
    BY <1>2, ShuttingShuts
  <2>2. b \in Gone(d)
    BY <1>1, <2>1 DEF IsOpen
  <2>3. b \notin Members(d)
    BY <1>1, MembersApart
  <2> QED  BY <2>2, <2>3 DEF Gone
<1>3. ASSUME UNCHANGED open
      PROVE  FALSE
  BY <1>3 DEF IsOpen
<1>4. ASSUME NEW d \in Devices, Verified(d)
      PROVE  open[b].way \in astray
  BY <1>2, <1>4 DEF Verified, Closing
<1>5. ASSUME NEW d \in Devices, SetSecrets(d)
      PROVE  Coming'
  BY <1>5, SetSecretsTyped DEF Coming
<1>6. ASSUME NEW e \in look.left, LooksAstray(e)
      PROVE  open[b].way \in astray
  <2>1. e[1] \in Devices
    BY DEF Typed, LookTyped, LooksAt
  <2> QED  BY <1>2, <1>6, <2>1 DEF LooksAstray, Closing
<1>7. ASSUME NEW e \in look.left, GivesWay(e)
      PROVE  Coming'
  BY <1>7, GivesWayTyped DEF Coming
<1>8. CASE Stop
  BY <1>8, StopTyped DEF Coming
<1>9. ASSUME \/ LookEnds \/ Stopped \/ UNCHANGED vars
             \/ \E e \in look.left : LooksWell(e)
             \/ \E due \in BOOLEAN : LookBegins(due)
             \/ \E v \in Ways : PassedOver(v) \/ Prefer(v) \/ Turns(v) \/ Strays(v)
             \/ \E c \in callers : CallerAsks(c)
             \/ \E c \in closing : Closed(c)
             \/ \E d \in Devices, state \in States : Change(d, state)
      PROVE  FALSE
  <2>1. UNCHANGED open
    BY <1>9 DEF LookEnds, Stopped, vars, manager, LooksWell, LookBegins, PassedOver, Prefer, Turns, Strays,
                CallerAsks, Closed, Change
  <2> QED  BY <1>3, <2>1
<1> QED
  BY <1>4, <1>5, <1>6, <1>7, <1>8, <1>9 DEF Next, SyncSteps
-----------------------------------------------------------------------------
(* What is reached through a bridge follows it.                            *)

\* A session is open over what its bridge was when it was opened, and that it
\* still is, unless it was lost meanwhile.
Over(d) ==
    LET s == open[d]
    IN  IF Bridged(s.way)
        THEN s.link > 0 /\ s.over \in {0, s.link} /\ (s.over > 0 => BridgeOf(s.way) = s.over)
        ELSE s.over = 0

\* And what opens has asked for it as it is, or as it was when it was lost.
Linked(d) ==
    LET o == opening[d]
    IN  Bridged(o.way) /\ ~o.asked => o.link > 0 /\ BridgeOf(o.way) \in {0, o.link}

\* A way through a bridge that a sync leaves open leads over a bridge.
LeftOver(d) ==
    sync.at = "choosing" /\ IsOpen(d) /\ Bridged(open[d].way) /\ sync.wanted[d] = open[d].way =>
        BridgeOf(open[d].way) > 0

Carried ==
    /\ astray \subseteq Astray
    /\ \A d \in Devices :
          /\ IsOpen(d) => Over(d)
          /\ opening[d] # NotOpening => Linked(d)
          /\ LeftOver(d)

LEMMA OpenSteps ==
    ASSUME Typed, SyncInv, [Next]_vars
    PROVE  Dwindles \/ \E d \in Devices : Opened(d) /\ ~IsOpen(d)
<1>1. CASE Beside
  BY <1>1 DEF Beside
<1>2. CASE SyncBegins \/ OpenDirect \/ OpenMembers \/ RoundEnds
  BY <1>2 DEF SyncBegins, OpenDirect, OpenMembers, RoundEnds, Dwindles
<1>3. ASSUME NEW d \in Devices,
             \/ Asks(d)
             \/ \E out \in SUBSET Spotty : Choose(d, out)
             \/ \E why \in Refusals : OpenFails(d, why)
      PROVE  Dwindles
  BY <1>3 DEF Asks, Choose, OpenFails, Dwindles
<1>4. ASSUME NEW d \in Devices, ShutStale(d)
      PROVE  Dwindles
  BY <1>4, ShuttingDwindles DEF ShutStale
<1>5. ASSUME NEW d \in Devices, Opened(d)
      PROVE  ~IsOpen(d)
  BY <1>5 DEF Opened, SyncInv, OpensInTurn, NotOpening
<1> QED  BY <1>1, <1>2, <1>3, <1>4, <1>5, StepKinds DEF SyncSteps

\* A device that was open and is has the session it had.
LEMMA StaysOpen ==
    ASSUME Typed, SyncInv, [Next]_vars, NEW d \in Devices, IsOpen(d), IsOpen(d)'
    PROVE  open'[d] = open[d]
<1>1. CASE Dwindles
  BY <1>1 DEF Dwindles, IsOpen, Shut
<1>2. ASSUME NEW x \in Devices, Opened(x), ~IsOpen(x)
      PROVE  open'[d] = open[d]
  BY <1>2, OpenedTyped
<1> QED  BY <1>1, <1>2, OpenSteps

\* What goes through no open bridge is over none.
LEMMA OverStep ==
    ASSUME Typed, SyncInv, Carried, [Next]_vars, NEW d \in Devices, IsOpen(d)'
    PROVE  Over(d)'
<1>1. CASE IsOpen(d)
  <2>1. open'[d] = open[d] /\ Over(d) /\ open[d].way \in Ways
    BY <1>1, StaysOpen, WaysKnown DEF Carried, Typed, OwnWays
  <2>2. PICK w \in Ways : w = open[d].way /\ w = open'[d].way
    BY <2>1
  <2>3. CASE ~Bridged(w)
    BY <2>1, <2>2, <2>3 DEF Over, Bridged
  <2>4. CASE Bridged(w)
    <3>1. open[d].link > 0 /\ open[d].over \in {0, open[d].link} /\ (open[d].over > 0 => BridgeOf(w) = open[d].over)
      BY <2>1, <2>2, <2>4 DEF Over
    <3>2. ASSUME open[d].over > 0
          PROVE  open'[Through[w]].epoch = open[d].over
      <4>1. BridgeOf(w) = open[d].over
        BY <3>1, <3>2
      <4>2. IsOpen(Through[w])
        BY <2>4, <3>2, <4>1, BridgeNumbered DEF Typed
      <4>3. open'[Through[w]] = open[Through[w]]
        <5>1. Bridged(open[d].way) /\ IsOpen(Through[open[d].way])
          BY <2>2, <2>4, <4>2
        <5>2. open'[Through[open[d].way]] = open[Through[open[d].way]]
          BY <1>1, <5>1, GoesWithItsBridge
        <5> QED  BY <2>2, <5>2
      <4>4. BridgeOf(w) = open[Through[w]].epoch
        BY <2>4 DEF BridgeOf
      <4> QED  BY <4>1, <4>3, <4>4
    <3> QED  BY <2>1, <2>2, <2>4, <3>1, <3>2 DEF Over, Bridged, BridgeOf
  <2> QED  BY <2>3, <2>4
<1>2. ASSUME NEW x \in Devices, Opened(x), x = d
      PROVE  Over(d)'
  <2>1. PICK w \in Ways : w = opening[d].way /\ w \in WaysOf(d)
    BY <1>2, OpenedTyped, WaysKnown
  <2>2. /\ open'[d] = [way |-> w, epoch |-> NewEpoch, link |-> opening[d].link, over |-> BridgeOf(w)]
        /\ \A y \in Devices : y # d => open'[y] = open[y]
    BY <1>2, <2>1, OpenedTyped
  <2>3. open'[d].way = w /\ open'[d].link = opening[d].link /\ open'[d].over = BridgeOf(w)
    BY <2>2
  <2>4. opening[d] # NotOpening /\ ~opening[d].asked
    BY <1>2 DEF Opened, NotOpening
  <2>5. CASE ~Bridged(w)
    BY <2>2, <2>3, <2>5 DEF Over, Bridged, BridgeOf
  <2>6. CASE Bridged(w)
    <3>1. opening[d].link > 0 /\ BridgeOf(w) \in {0, opening[d].link}
      BY <2>1, <2>4, <2>6 DEF Carried, Linked
    <3>2. Through[w] \in Devices /\ Through[w] # d
      BY <2>1, <2>6, WaysKnown
    <3>3. open'[Through[w]] = open[Through[w]]
      BY <2>2, <3>2
    <3> QED  BY <2>3, <2>6, <3>1, <3>3 DEF Over, Bridged, BridgeOf
  <2> QED  BY <2>5, <2>6
<1>3. ASSUME ~IsOpen(d), Dwindles
      PROVE  FALSE
  <2>1. open'[d] = open[d] \/ open'[d] = Shut
    BY <1>3 DEF Dwindles
  <2> QED  BY <1>3, <2>1 DEF IsOpen, Shut
<1>4. ASSUME NEW x \in Devices, Opened(x), x # d
      PROVE  IsOpen(d)
  BY <1>4, OpenedTyped DEF IsOpen
<1> QED  BY <1>1, <1>2, <1>3, <1>4, OpenSteps

LEMMA LinkedStep ==
    ASSUME Typed, SyncInv, Carried, [Next]_vars, NEW d \in Devices, opening'[d] # NotOpening
    PROVE  Linked(d)'
<1>1. ASSUME opening'[d] = opening[d],
             \/ UNCHANGED open
             \/ Dwindles
             \/ \E x \in Devices : Opened(x) /\ x # d
      PROVE  Linked(d)'
  <2>1. PICK w \in Ways : w = opening[d].way /\ w = opening'[d].way
    BY <1>1, WaysKnown DEF Typed, OwnWays
  <2>2. Linked(d) /\ opening[d] # NotOpening
    BY <1>1 DEF Carried
  <2>3. CASE ~Bridged(w)
    BY <1>1, <2>1, <2>3 DEF Linked, Bridged
  <2>4. CASE Bridged(w) /\ opening[d].asked
    BY <1>1, <2>1, <2>4 DEF Linked, Bridged
  <2>5. CASE Bridged(w) /\ ~opening[d].asked
    <3> DEFINE b == Through[w]
    <3>1. opening[d].link > 0 /\ BridgeOf(w) \in {0, opening[d].link}
      BY <2>1, <2>2, <2>5 DEF Linked
    <3>2. b \in Devices /\ BridgeOf(w) = open[b].epoch
      BY <2>5, WaysKnown DEF BridgeOf
    <3>3. open'[b] \in {open[b], Shut}
      <4>1. CASE UNCHANGED open \/ Dwindles
        BY <3>2, <4>1 DEF Dwindles
      <4>2. ASSUME NEW x \in Devices, Opened(x), x # d
            PROVE  x # b
        <5>1. opening[x] # NotOpening /\ opening[x].way \in WaysOf(x)
          <6>1. opening[x].way \in WaysOf(x)
            BY <4>2, OpenedTyped
          <6>2. opening[x] # NotOpening
            BY <4>2 DEF Opened, NotOpening
          <6> QED  BY <6>1, <6>2
        <5>2. sync.at = "members"
          BY <2>1, <2>2, <2>5 DEF SyncInv, OpensInTurn
        <5>3. Bridged(opening[x].way)
          BY <5>1, <5>2 DEF SyncInv, OpensInTurn
        <5> QED  BY <2>5, <5>1, <5>3, WaysKnown
      <4> QED  BY <1>1, <3>2, <4>1, <4>2, OpenedTyped
    <3>4. open'[b].epoch \in {0, opening[d].link}
      BY <3>1, <3>2, <3>3 DEF Shut
    <3> QED  BY <1>1, <2>1, <2>5, <3>1, <3>4 DEF Linked, Bridged, BridgeOf
  <2> QED  BY <2>3, <2>4, <2>5
<1>2. CASE Beside
  BY <1>1, <1>2 DEF Beside
<1>3. CASE SyncBegins \/ RoundEnds
  BY <1>3, BeginsAfresh
<1>4. ASSUME NEW x \in Devices, ShutStale(x) \/ \E out \in SUBSET Spotty : Choose(x, out)
      PROVE  FALSE
  <2>1. sync.at = "choosing" /\ UNCHANGED opening
    BY <1>4 DEF ShutStale, Choose
  <2> QED  BY <2>1, NothingOpens DEF NoneOpening
<1>5. CASE OpenDirect
  <2>1. opening'[d] = [way |-> sync.wanted[d], link |-> 0, asked |-> FALSE] /\ ~Bridged(sync.wanted[d])
    <3>1. opening'[d] = IF d \in ToOpen /\ ~Bridged(sync.wanted[d])
                        THEN [way |-> sync.wanted[d], link |-> 0, asked |-> FALSE] ELSE NotOpening
      BY <1>5, DirectOpens
    <3> QED  BY <3>1, Zenon
  <2> QED  BY <2>1 DEF Linked, Bridged
<1>6. CASE OpenMembers
  <2>1. opening'[d] = [way |-> sync.wanted[d], link |-> 0, asked |-> TRUE]
    BY <1>6, MembersOpen
  <2> QED  BY <2>1 DEF Linked
<1>7. ASSUME NEW x \in Devices, Asks(x)
      PROVE  Linked(d)'
  <2>1. CASE x # d
    BY <1>1, <1>7, <2>1, AsksTyped DEF Asks
  <2>2. CASE x = d
    <3>1. /\ opening'[d].way = opening[d].way /\ opening'[d].link = BridgeOf(opening[d].way)
          /\ BridgeOf(opening[d].way) > 0 /\ UNCHANGED open
      BY <1>7, <2>2, AsksTyped DEF Asks
    <3> QED  BY <3>1 DEF Linked, BridgeOf, Bridged
  <2> QED  BY <2>1, <2>2
<1>8. ASSUME NEW x \in Devices, Opened(x)
      PROVE  Linked(d)'
  <2>1. x # d /\ opening'[d] = opening[d]
    BY <1>8, OpenedTyped
  <2> QED  BY <1>1, <1>8, <2>1
<1>9. ASSUME NEW x \in Devices, NEW why \in Refusals, OpenFails(x, why)
      PROVE  Linked(d)'
  <2>1. opening'[d] = opening[d] /\ UNCHANGED open
    BY <1>9 DEF OpenFails, Typed, OpenTyped
  <2> QED  BY <1>1, <2>1
<1> QED
  BY <1>2, <1>3, <1>4, <1>5, <1>6, <1>7, <1>8, <1>9, StepKinds DEF SyncSteps

LEMMA LeftOverStep ==
    ASSUME Typed, SyncInv, Carried, [Next]_vars, NEW d \in Devices
    PROVE  LeftOver(d)'
<1> SUFFICES ASSUME sync'.at = "choosing", IsOpen(d)', Bridged(open'[d].way), sync'.wanted[d] = open'[d].way
             PROVE  BridgeOf(open[d].way)' > 0
  BY DEF LeftOver, Bridged
<1>1. ASSUME sync.at = "choosing", sync'.wanted[d] = sync.wanted[d], Dwindles
      PROVE  BridgeOf(open[d].way)' > 0
  <2>1. open'[d] = open[d] /\ IsOpen(d)
    BY <1>1 DEF Dwindles, IsOpen, Shut
  <2>2. PICK w \in Ways : w = open[d].way /\ w = open'[d].way /\ Bridged(w)
    BY <2>1, WaysKnown DEF Typed, OwnWays, Bridged
  <2>3. BridgeOf(w) > 0
    BY <1>1, <2>1, <2>2 DEF Carried, LeftOver
  <2>4. IsOpen(Through[w]) /\ BridgeOf(w) = open[Through[w]].epoch
    BY <2>2, <2>3, BridgeNumbered DEF Typed
  <2>5. open'[Through[w]] = open[Through[w]]
    <3>1. Bridged(open[d].way) /\ IsOpen(Through[open[d].way])
      BY <2>2, <2>4
    <3>2. open'[Through[open[d].way]] = open[Through[open[d].way]]
      BY <2>1, <3>1, GoesWithItsBridge
    <3> QED  BY <2>2, <3>2
  <2> QED  BY <2>2, <2>3, <2>4, <2>5 DEF BridgeOf, Bridged
<1>2. CASE Beside
  BY <1>1, <1>2 DEF Beside
<1>3. CASE SyncBegins \/ RoundEnds
  <2>1. sync'.wanted[d] = NoWay
    BY <1>3, BeginsAfresh
  <2>2. open'[d].way = open[d].way /\ IsOpen(d)
    BY <1>3 DEF SyncBegins, RoundEnds, IsOpen
  <2> QED  BY <2>1, <2>2, WaysKnown DEF Typed, OwnWays
<1>4. ASSUME NEW x \in Devices, NEW out \in SUBSET Spotty, Choose(x, out)
      PROVE  BridgeOf(open[d].way)' > 0
  <2>1. UNCHANGED open /\ sync.at = "choosing"
    BY <1>4 DEF Choose
  <2>2. CASE x # d
    <3>1. sync'.wanted[d] = sync.wanted[d] /\ Dwindles
      BY <1>4, <2>1, <2>2, ChooseTyped DEF Dwindles
    <3> QED  BY <1>1, <2>1, <3>1
  <2>3. CASE x = d
    <3>1. PICK w \in Ways : w = open[d].way /\ w = open'[d].way /\ Bridged(w)
      BY <2>1, WaysKnown DEF Typed, OwnWays, Bridged, IsOpen
    <3>2. w = sync'.wanted[x] /\ w # NoWay
      BY <2>3, <3>1, WaysKnown
    <3>3. w \in Mine(d)
      BY <1>4, <2>3, <3>2, ChoosesKept
    <3>4. BridgeOf(w) > 0
      BY <3>1, <3>3, BridgeNumbered DEF Mine, Typed
    <3> QED  BY <2>1, <3>1, <3>4 DEF BridgeOf, Bridged
  <2> QED  BY <2>2, <2>3
<1>5. ASSUME NEW x \in Devices, ShutStale(x)
      PROVE  BridgeOf(open[d].way)' > 0
  <2>1. sync.at = "choosing" /\ sync'.wanted = sync.wanted
    BY <1>5 DEF ShutStale, Typed, SyncTyped, Syncs
  <2>2. Dwindles
    BY <1>5, ShuttingDwindles DEF ShutStale
  <2> QED  BY <1>1, <2>1, <2>2
<1>6. CASE OpenDirect \/ OpenMembers
  BY <1>6, DirectOpens, MembersOpen
<1>7. ASSUME NEW x \in Devices, Asks(x) \/ Opened(x) \/ \E why \in Refusals : OpenFails(x, why)
      PROVE  FALSE
  <2>1. opening[x] # NotOpening /\ UNCHANGED sync
    BY <1>7 DEF Asks, Opened, OpenFails, NotOpening
  <2> QED  BY <2>1, NothingOpens DEF NoneOpening
<1> QED
  BY <1>2, <1>3, <1>4, <1>5, <1>6, <1>7, StepKinds DEF SyncSteps

LEMMA CarriedInit ==
    ASSUME Init
    PROVE  Carried
<1>1. /\ astray = {} /\ sync.at = "idle"
      /\ \A d \in Devices : opening[d] = NotOpening /\ ~IsOpen(d)
  BY DEF Init, IsOpen, Shut, NoSync
<1> QED  BY <1>1 DEF Carried, LeftOver

LEMMA AstrayStep ==
    ASSUME astray \subseteq Astray, [Next]_vars
    PROVE  astray' \subseteq Astray
<1>1. CASE UNCHANGED world
  BY <1>1 DEF world
<1>2. ASSUME NEW w \in Ways, Strays(w)
      PROVE  astray' \subseteq Astray
  BY <1>2 DEF Strays
<1>3. ASSUME \/ \E d \in Devices, state \in States : Change(d, state)
             \/ \E w \in Ways : Prefer(w) \/ Turns(w)
      PROVE  astray' \subseteq Astray
  BY <1>3 DEF Change, Prefer, Turns
<1>4. CASE \/ SyncBegins \/ OpenDirect \/ OpenMembers \/ RoundEnds \/ LookEnds \/ Stop \/ Stopped
           \/ UNCHANGED vars
  BY <1>1, <1>4 DEF SyncBegins, OpenDirect, OpenMembers, RoundEnds, LookEnds, Stop, Stopped, vars
<1>5. ASSUME NEW d, \/ ShutStale(d) \/ Asks(d) \/ Opened(d) \/ Verified(d) \/ SetSecrets(d)
                    \/ \E out \in SUBSET Spotty : Choose(d, out)
                    \/ \E why \in Refusals : OpenFails(d, why)
      PROVE  UNCHANGED world
  BY <1>5 DEF ShutStale, Asks, Opened, Verified, SetSecrets, Choose, OpenFails
<1>6. ASSUME \/ \E c \in closing : Closed(c)
             \/ \E due \in BOOLEAN : LookBegins(due)
             \/ \E e \in look.left : LooksWell(e) \/ LooksAstray(e) \/ GivesWay(e)
             \/ \E w \in Ways : PassedOver(w)
             \/ \E c \in callers : CallerAsks(c)
      PROVE  UNCHANGED world
  BY <1>6 DEF Closed, LookBegins, LooksWell, LooksAstray, GivesWay, PassedOver, CallerAsks
<1> QED
  BY <1>1, <1>2, <1>3, <1>4, <1>5, <1>6 DEF Next

LEMMA CarriedStep ==
    ASSUME Typed, SyncInv, Carried, [Next]_vars
    PROVE  Carried'
<1>1. astray' \subseteq Astray
  BY AstrayStep DEF Carried
<1>2. \A d \in Devices : IsOpen(d)' => Over(d)'
  BY OverStep
<1>3. \A d \in Devices : opening'[d] # NotOpening => Linked(d)'
  BY LinkedStep
<1>4. \A d \in Devices : LeftOver(d)'
  BY LeftOverStep
<1> QED  BY <1>1, <1>2, <1>3, <1>4 DEF Carried

\* What came to be open, or comes to be, over a bridge that was lost meanwhile
\* has a sync to come.
Awaits(d) ==
    /\ sync.at # "choosing" /\ IsOpen(d) /\ Bridged(open[d].way) /\ open[d].over = 0 => Coming
    /\ /\ opening[d] # NotOpening /\ Bridged(opening[d].way) /\ ~opening[d].asked
       /\ BridgeOf(opening[d].way) = 0
       => Coming

Awaited == \A d \in Devices : Awaits(d)

LEMMA AwaitedStep ==
    ASSUME BridgesNeverAstray, Typed, SyncInv, Carried, Awaited, [Next]_vars
    PROVE  Awaited'
<1>1. SUFFICES ASSUME NEW d \in Devices, ~Coming'
               PROVE  Awaits(d)'
  BY DEF Awaited, Awaits
<1>2. CASE SyncBegins
  <2>1. sync'.at = "choosing" /\ opening'[d] = NotOpening
    <3>1. sync'.at = "choosing"
      BY <1>2 DEF SyncBegins, NoSync
    <3> QED  BY <1>2, <3>1, BeginsAfresh
  <2> QED  BY <2>1 DEF Awaits
<1>3. CASE Coming /\ ~SyncBegins
  BY <1>1, <1>3, ComingStays
<1>4. CASE ~Coming /\ ~SyncBegins
  <2>1. /\ sync.at # "choosing" /\ IsOpen(d) /\ Bridged(open[d].way) => open[d].over # 0
        /\ opening[d] # NotOpening /\ Bridged(opening[d].way) /\ ~opening[d].asked
              => BridgeOf(opening[d].way) # 0
    BY <1>4 DEF Awaited, Awaits
  <2>2. ASSUME sync'.at # "choosing", IsOpen(d)', Bridged(open'[d].way), open'[d].over = 0
        PROVE  FALSE
    <3>1. CASE ~IsOpen(d)
      <4>1. Opened(d)
        <5>1. ~Dwindles
          BY <2>2, <3>1 DEF Dwindles, IsOpen, Shut
        <5>2. PICK x \in Devices : Opened(x)
          BY <5>1, OpenSteps
        <5>3. x = d
          BY <2>2, <3>1, <5>2, OpenedTyped DEF IsOpen
        <5> QED  BY <5>2, <5>3
      <4>2. open'[d] = [way |-> opening[d].way, epoch |-> NewEpoch, link |-> opening[d].link,
                        over |-> BridgeOf(opening[d].way)]
        BY <4>1, OpenedTyped
      <4>3. opening[d] # NotOpening /\ ~opening[d].asked
        BY <4>1 DEF Opened, NotOpening
      <4> QED  BY <2>1, <2>2, <4>2, <4>3
    <3>2. CASE IsOpen(d) /\ sync.at # "choosing"
      BY <2>1, <2>2, <3>2, StaysOpen
    <3>3. CASE IsOpen(d) /\ sync.at = "choosing"
      <4>1. open'[d] = open[d]
        BY <2>2, <3>3, StaysOpen
      <4>2. OpenDirect
        <5>1. ~UNCHANGED sync
          BY <2>2, <3>3
        <5>2. ~Beside
          BY <5>1 DEF Beside
        <5>3. ~OpenMembers /\ ~RoundEnds
          BY <3>3 DEF OpenMembers, RoundEnds
        <5>4. ASSUME NEW x \in Devices, Asks(x) \/ Opened(x) \/ \E why \in Refusals : OpenFails(x, why)
              PROVE  FALSE
          BY <5>1, <5>4 DEF Asks, Opened, OpenFails
        <5>5. ASSUME NEW x \in Devices, NEW out \in SUBSET Spotty, Choose(x, out)
              PROVE  FALSE
          BY <2>2, <5>5, ChooseTyped
        <5>6. ASSUME NEW x \in Devices, ShutStale(x)
              PROVE  FALSE
          <6>1. sync'.at = sync.at
            BY <5>6 DEF ShutStale, Typed, SyncTyped, Syncs
          <6> QED  BY <2>2, <3>3, <6>1
        <5> QED  BY <1>4, <5>2, <5>3, <5>4, <5>5, <5>6, StepKinds DEF SyncSteps
      <4>3. ~Stale(d)
        BY <3>3, <4>2, DirectOpens
      <4>4. sync.wanted[d] = open[d].way /\ open[d].over = BridgeOf(open[d].way)
        BY <4>3 DEF Stale
      <4>5. BridgeOf(open[d].way) > 0
        BY <2>2, <3>3, <4>1, <4>4 DEF Carried, LeftOver
      <4> QED  BY <2>2, <4>1, <4>4, <4>5
    <3> QED  BY <3>1, <3>2, <3>3
  <2>3. ASSUME opening'[d] # NotOpening, Bridged(opening'[d].way), ~opening'[d].asked,
               BridgeOf(opening[d].way)' = 0
        PROVE  FALSE
    <3>1. ASSUME opening'[d] = opening[d],
                 \/ UNCHANGED open
                 \/ \E x \in Devices : Opened(x)
                 \/ ~SyncSteps
          PROVE  FALSE
      <4>1. PICK w \in Ways : w = opening[d].way /\ w = opening'[d].way /\ Bridged(w)
        BY <2>3, <3>1, WaysKnown DEF Typed, OwnWays, Bridged
      <4>2. BridgeOf(w) # 0
        BY <2>1, <2>3, <3>1, <4>1
      <4>3. IsOpen(Through[w]) /\ Through[w] \in Devices
        BY <4>1, <4>2, BridgeNumbered, WaysKnown DEF Typed
      <4>4. BridgeOf(w)' = 0 /\ BridgeOf(w)' = open'[Through[w]].epoch
        BY <2>3, <4>1 DEF BridgeOf, Bridged
      <4>5. ~IsOpen(Through[w])'
        BY <4>4 DEF IsOpen
      <4>6. SyncSteps \/ open[Through[w]].way \in astray
        BY <1>1, <4>1, <4>3, <4>5, LostWithWord
      <4>7. open[Through[w]].way \notin astray
        <5>1. open[Through[w]].way \in WaysOf(Through[w])
          BY <4>3 DEF Typed, OwnWays
        <5> QED  BY <4>1, <5>1 DEF BridgesNeverAstray, Carried
      <4>8. ASSUME NEW x \in Devices, Opened(x)
            PROVE  FALSE
        <5>1. x # Through[w]
          BY <4>3, <4>8 DEF Opened, SyncInv, OpensInTurn, NotOpening
        <5>2. open'[Through[w]] = open[Through[w]]
          BY <4>3, <4>8, <5>1, OpenedTyped
        <5> QED  BY <4>3, <4>5, <5>2 DEF IsOpen
      <4> QED  BY <3>1, <4>3, <4>5, <4>6, <4>7, <4>8 DEF IsOpen
    <3>2. CASE ~SyncSteps
      <4>1. UNCHANGED opening
        BY <3>2, StepKinds DEF Beside
      <4> QED  BY <3>1, <3>2, <4>1
    <3>3. CASE RoundEnds
      BY <2>3, <3>3, BeginsAfresh
    <3>4. ASSUME NEW x \in Devices, ShutStale(x) \/ \E out \in SUBSET Spotty : Choose(x, out)
          PROVE  FALSE
      <4>1. sync.at = "choosing" /\ UNCHANGED opening
        BY <3>4 DEF ShutStale, Choose
      <4> QED  BY <2>3, <4>1, NothingOpens DEF NoneOpening
    <3>5. CASE OpenDirect
      <4>1. opening'[d] = IF d \in ToOpen /\ ~Bridged(sync.wanted[d])
                          THEN [way |-> sync.wanted[d], link |-> 0, asked |-> FALSE] ELSE NotOpening
        BY <3>5, DirectOpens
      <4>2. opening'[d] = [way |-> sync.wanted[d], link |-> 0, asked |-> FALSE] /\ ~Bridged(sync.wanted[d])
        BY <2>3, <4>1, Zenon
      <4>3. opening'[d].way = sync.wanted[d]
        BY <4>2
      <4> QED  BY <2>3, <4>2, <4>3
    <3>6. CASE OpenMembers
      <4>1. opening'[d] = [way |-> sync.wanted[d], link |-> 0, asked |-> TRUE]
        BY <2>3, <3>6, MembersOpen
      <4> QED  BY <2>3, <4>1
    <3>7. ASSUME NEW x \in Devices, Asks(x)
          PROVE  FALSE
      <4>1. UNCHANGED open
        BY <3>7 DEF Asks
      <4>2. CASE x # d
        BY <3>1, <3>7, <4>1, <4>2, AsksTyped
      <4>3. CASE x = d
        <5>1. opening'[d].way = opening[d].way /\ BridgeOf(opening[d].way) > 0
          BY <3>7, <4>3, AsksTyped DEF Asks
        <5> QED  BY <2>3, <4>1, <5>1 DEF BridgeOf, Bridged
      <4> QED  BY <4>2, <4>3
    <3>8. ASSUME NEW x \in Devices, Opened(x)
          PROVE  FALSE
      <4>1. x # d
        BY <2>3, <3>8, OpenedTyped
      <4>2. opening'[d] = opening[d]
        BY <3>8, <4>1, OpenedTyped
      <4> QED  BY <3>1, <3>8, <4>2
    <3>9. ASSUME NEW x \in Devices, NEW why \in Refusals, OpenFails(x, why)
          PROVE  FALSE
      <4>1. UNCHANGED open /\ opening'[d] = opening[d]
        BY <2>3, <3>9 DEF OpenFails, Typed, OpenTyped
      <4> QED  BY <3>1, <4>1
    <3> QED
      BY <1>4, <3>2, <3>3, <3>4, <3>5, <3>6, <3>7, <3>8, <3>9 DEF SyncSteps
  <2> QED  BY <2>2, <2>3 DEF Awaits, Bridged
<1> QED  BY <1>2, <1>3, <1>4

LEMMA AwaitedInit ==
    ASSUME Init
    PROVE  Awaited
<1>1. \A d \in Devices : opening[d] = NotOpening /\ ~IsOpen(d)
  BY DEF Init, IsOpen, Shut
<1> QED  BY <1>1 DEF Awaited, Awaits

LEMMA FollowsWhenQuiet ==
    ASSUME Typed, Carried, Awaited
    PROVE  MembersFollow
<1>1. SUFFICES ASSUME Quiet, NEW d \in Devices, IsOpen(d), Bridged(open[d].way)
               PROVE  open[d].link > 0 /\ open[d].link = BridgeOf(open[d].way)
  BY DEF MembersFollow
<1>2. open[d].over # 0
  BY <1>1, QuietComesNone DEF Awaited, Awaits, Quiet
<1>3. open[d].over \in Nat
  BY DEF Typed, OpenTyped, Sessioned
<1>4. open[d].link > 0 /\ open[d].over \in {0, open[d].link} /\ (open[d].over > 0 => BridgeOf(open[d].way) = open[d].over)
  BY <1>1 DEF Carried, Over
<1> QED  BY <1>2, <1>3, <1>4

\* Once all is settled, what is reached through a bridge is open over the
\* session the bridge has now, whatever was closed, reopened and raced before
\* (sessions.ts:417-419, 437-441): where no bridge answers as another device.
THEOREM BridgesFollowed ==
    ASSUME BridgesNeverAstray
    PROVE  Spec => []MembersFollow
<1>1. Init => Typed /\ SyncInv /\ Carried /\ Awaited
  BY TypedInit, SyncInvInit, CarriedInit, AwaitedInit
<1>2. Typed /\ SyncInv /\ Carried /\ Awaited /\ [Next]_vars
      => Typed' /\ SyncInv' /\ Carried' /\ Awaited'
  BY TypedStep, SyncInvStep, CarriedStep, AwaitedStep
<1>3. Typed /\ SyncInv /\ Carried /\ Awaited => MembersFollow
  BY FollowsWhenQuiet
<1> QED  BY <1>1, <1>2, <1>3, PTL DEF Spec
-----------------------------------------------------------------------------
(* Whatever address leads astray: never over a session its bridge had.     *)

\* What is open is over the session its bridge has, or over none if it has
\* none; and while bridges open, what is behind one is over one.
OverNow ==
    \A d \in Devices :
        IsOpen(d) =>
            /\ open[d].over = BridgeOf(open[d].way)
            /\ sync.at = "direct" /\ Bridged(open[d].way) => open[d].over > 0

LEMMA OverNowStep ==
    ASSUME Typed, SyncInv, Carried, OverNow, [Next]_vars
    PROVE  OverNow'
<1>1. SUFFICES ASSUME NEW d \in Devices, IsOpen(d)'
               PROVE  /\ open'[d].over = BridgeOf(open[d].way)'
                      /\ sync'.at = "direct" /\ Bridged(open'[d].way) => open'[d].over > 0
  BY DEF OverNow, Bridged
<1>2. ASSUME NEW x \in Devices, Opened(x)
      PROVE  /\ ~IsOpen(x) /\ opening[x].way \in WaysOf(x) /\ UNCHANGED sync
             /\ sync.at \in {"direct", "members"}
             /\ sync.at = "members" <=> Bridged(opening[x].way)
             /\ open'[x].way = opening[x].way /\ open'[x].over = BridgeOf(opening[x].way)
             /\ \A y \in Devices : y # x => open'[y] = open[y]
  <2>1. opening[x] # NotOpening /\ UNCHANGED sync
    BY <1>2 DEF Opened, NotOpening
  <2>2. ~IsOpen(x) /\ (sync.at = "members" <=> Bridged(opening[x].way))
    BY <2>1 DEF SyncInv, OpensInTurn
  <2>3. sync.at \in {"direct", "members"}
    BY <2>1, NothingOpens DEF NoneOpening, Typed, SyncTyped, Syncs
  <2>4. open'[x] = [way |-> opening[x].way, epoch |-> NewEpoch, link |-> opening[x].link,
                    over |-> BridgeOf(opening[x].way)]
    BY <1>2, OpenedTyped
  <2>5. open'[x].way = opening[x].way /\ open'[x].over = BridgeOf(opening[x].way)
    BY <2>4
  <2> QED  BY <1>2, <2>1, <2>2, <2>3, <2>5, OpenedTyped
<1>3. CASE ~IsOpen(d)
  <2>1. ~Dwindles
    BY <1>1, <1>3 DEF Dwindles, IsOpen, Shut
  <2>2. PICK x \in Devices : Opened(x)
    BY <2>1, OpenSteps
  <2>3. x = d
    BY <1>1, <1>3, <2>2, OpenedTyped DEF IsOpen
  <2>4. PICK w \in WaysOf(d) : w = opening[d].way
    BY <1>2, <2>2, <2>3
  <2>5. /\ open'[d].way = w /\ open'[d].over = BridgeOf(w) /\ \A y \in Devices : y # d => open'[y] = open[y]
        /\ sync'.at = sync.at /\ (sync.at = "members" <=> Bridged(w))
    BY <1>2, <2>2, <2>3, <2>4
  <2>6. Bridged(w) => Through[w] \in Devices /\ Through[w] # d
    BY WaysKnown
  <2>7. Bridged(w) => open'[Through[w]] = open[Through[w]]
    BY <2>5, <2>6
  <2>8. open'[d].over = BridgeOf(open[d].way)'
    BY <2>5, <2>7 DEF BridgeOf, Bridged
  <2> QED  BY <2>5, <2>8
<1>4. CASE IsOpen(d)
  <2>1. open'[d] = open[d]
    BY <1>1, <1>4, StaysOpen
  <2>2. PICK w \in Ways : w = open[d].way /\ w = open'[d].way
    BY <1>4, <2>1, WaysKnown DEF Typed, OwnWays
  <2>3. open[d].over = BridgeOf(w) /\ (sync.at = "direct" /\ Bridged(w) => open[d].over > 0)
    BY <1>4, <2>2 DEF OverNow
  <2>4. open'[d].over = BridgeOf(open[d].way)'
    <3>1. CASE ~Bridged(w)
      BY <2>1, <2>2, <2>3, <3>1 DEF BridgeOf, Bridged
    <3>2. CASE Bridged(w) /\ IsOpen(Through[w])
      <4>1. Bridged(open[d].way) /\ IsOpen(Through[open[d].way])
        BY <2>2, <3>2
      <4>2. open'[Through[open[d].way]] = open[Through[open[d].way]]
        BY <1>1, <1>4, <4>1, GoesWithItsBridge
      <4> QED  BY <2>1, <2>2, <2>3, <3>2, <4>2 DEF BridgeOf, Bridged
    <3>3. CASE Bridged(w) /\ ~IsOpen(Through[w])
      <4>1. Through[w] \in Devices /\ \A v \in WaysOf(Through[w]) : ~Bridged(v)
        BY <3>3, WaysKnown
      <4>2. BridgeOf(w) = 0
        BY <3>3, <4>1, BridgeNumbered DEF Typed
      <4>3. open[Through[w]] = Shut
        BY <3>3, <4>1 DEF Typed, OwnWays
      <4>4. open'[Through[w]] = Shut
        <5>1. CASE Dwindles
          BY <4>1, <4>3, <5>1 DEF Dwindles
        <5>2. ASSUME NEW x \in Devices, Opened(x)
              PROVE  x # Through[w]
          <6>1. ASSUME x = Through[w]
                PROVE  FALSE
            <7>1. sync.at = "direct"
              BY <1>2, <4>1, <5>2, <6>1
            <7> QED  BY <2>3, <3>3, <4>2, <7>1
          <6> QED  BY <6>1
        <5> QED  BY <1>2, <4>1, <4>3, <5>1, <5>2, OpenSteps
      <4> QED  BY <2>1, <2>2, <2>3, <3>3, <4>2, <4>4 DEF BridgeOf, Bridged, Shut
    <3> QED  BY <3>1, <3>2, <3>3
  <2>5. ASSUME sync'.at = "direct", Bridged(w)
        PROVE  open[d].over > 0
    <3>1. CASE sync.at = "direct"
      BY <2>3, <2>5, <3>1
    <3>2. CASE sync.at # "direct"
      <4>1. OpenDirect
        <5>1. ~Beside
          BY <2>5, <3>2 DEF Beside
        <5>2. ~SyncBegins /\ ~OpenMembers
          <6>1. SyncBegins => sync'.at = "choosing"
            BY DEF SyncBegins, NoSync
          <6>2. OpenMembers => sync'.at = "members"
            BY MembersOpen
          <6> QED  BY <2>5, <6>1, <6>2
        <5>3. ~RoundEnds
          BY <2>5, RoundEndsTyped
        <5>4. ASSUME NEW x \in Devices, Asks(x) \/ Opened(x) \/ \E why \in Refusals : OpenFails(x, why)
              PROVE  FALSE
          BY <2>5, <3>2, <5>4 DEF Asks, Opened, OpenFails
        <5>5. ASSUME NEW x \in Devices, NEW out \in SUBSET Spotty, Choose(x, out)
              PROVE  FALSE
          BY <2>5, <5>5, ChooseTyped
        <5>6. ASSUME NEW x \in Devices, ShutStale(x)
              PROVE  FALSE
          <6>1. sync'.at = sync.at
            BY <5>6 DEF ShutStale, Typed, SyncTyped, Syncs
          <6> QED  BY <2>5, <3>2, <6>1
        <5> QED  BY <5>1, <5>2, <5>3, <5>4, <5>5, <5>6, StepKinds DEF SyncSteps
      <4>2. sync.at = "choosing" /\ ~Stale(d)
        BY <1>4, <4>1, DirectOpens
      <4>3. sync.wanted[d] = open[d].way /\ open[d].over = BridgeOf(open[d].way)
        BY <4>2 DEF Stale
      <4>4. BridgeOf(open[d].way) > 0
        BY <1>4, <2>2, <2>5, <4>2, <4>3 DEF Carried, LeftOver
      <4> QED  BY <4>3, <4>4
    <3> QED  BY <3>1, <3>2
  <2> QED  BY <2>1, <2>2, <2>4, <2>5
<1> QED  BY <1>3, <1>4

\* What is reached through a bridge is never open over a session the bridge had
\* before: while the bridge is open, it is open over the one it has.
OverItsBridge ==
    \A d \in Devices :
        IsOpen(d) /\ Bridged(open[d].way) /\ IsOpen(Through[open[d].way]) =>
            open[d].link = open[Through[open[d].way]].epoch

\* Never over a session its bridge had before, settled or not, whatever address
\* leads astray (sessions.ts:417-419, 690): so what is closed with the bridge is
\* all that has to be, and a sync finds nothing left open over a former one.
THEOREM NeverOverFormer == Spec => []OverItsBridge
<1>1. Init => Typed /\ SyncInv /\ Carried /\ OverNow
  <2>1. Init => OverNow
    BY DEF Init, OverNow, IsOpen, Shut
  <2> QED  BY <2>1, TypedInit, SyncInvInit, CarriedInit
<1>2. Typed /\ SyncInv /\ Carried /\ OverNow /\ [Next]_vars => Typed' /\ SyncInv' /\ Carried' /\ OverNow'
  BY TypedStep, SyncInvStep, CarriedStep, OverNowStep
<1>3. Typed /\ Carried /\ OverNow => OverItsBridge
  <2> SUFFICES ASSUME Typed, Carried, OverNow, NEW d \in Devices, IsOpen(d), Bridged(open[d].way),
                      IsOpen(Through[open[d].way])
               PROVE  open[d].link = open[Through[open[d].way]].epoch
    BY DEF OverItsBridge
  <2>1. open[d].over = open[Through[open[d].way]].epoch
    BY DEF OverNow, BridgeOf
  <2>2. open[d].over > 0
    BY <2>1 DEF IsOpen
  <2>3. open[d].over \in {0, open[d].link}
    BY DEF Carried, Over
  <2> QED  BY <2>1, <2>2, <2>3
<1> QED  BY <1>1, <1>2, <1>3, PTL DEF Spec
-----------------------------------------------------------------------------
(* What is not open says why.                                              *)

\* The devices whose way this round has yet to choose.
ToChoose == {sync.left[i] : i \in DOMAIN sync.left}

\* The steps after which a round chooses: it began, it chose, or it goes on.
LEMMA RoundSteps ==
    ASSUME Typed, SyncInv, [Next]_vars, sync'.at = "choosing"
    PROVE  \/ (SyncBegins \/ RoundEnds) /\ ToChoose' = Devices /\ UNCHANGED open
           \/ \E d \in Devices, out \in SUBSET Spotty : Choose(d, out)
           \/ /\ sync.at = "choosing" /\ sync'.wanted = sync.wanted /\ sync'.left = sync.left
              /\ UNCHANGED records /\ Dwindles
<1>1. {Order[i] : i \in DOMAIN Order} = Devices
  BY HomeAssumption
<1>2. CASE Beside
  BY <1>2 DEF Beside
<1>3. CASE SyncBegins
  <2>1. sync'.left = Order /\ UNCHANGED open
    BY <1>3 DEF SyncBegins, NoSync
  <2> QED  BY <1>1, <1>3, <2>1 DEF ToChoose
<1>4. CASE RoundEnds
  <2>1. sync'.left = Order /\ UNCHANGED open
    <3>1. sync'.left = Order
      BY <1>4, RoundEndsTyped
    <3> QED  BY <1>4, <3>1 DEF RoundEnds
  <2> QED  BY <1>1, <1>4, <2>1 DEF ToChoose
<1>5. CASE OpenDirect \/ OpenMembers
  BY <1>5, DirectOpens, MembersOpen
<1>6. ASSUME NEW d \in Devices, Asks(d) \/ Opened(d) \/ \E why \in Refusals : OpenFails(d, why)
      PROVE  FALSE
  <2>1. opening[d] # NotOpening /\ UNCHANGED sync
    BY <1>6 DEF Asks, Opened, OpenFails, NotOpening
  <2> QED  BY <2>1, NothingOpens DEF NoneOpening
<1>7. ASSUME NEW d \in Devices, ShutStale(d)
      PROVE  /\ sync.at = "choosing" /\ sync'.wanted = sync.wanted /\ sync'.left = sync.left
             /\ UNCHANGED records /\ Dwindles
  <2>1. /\ sync.at = "choosing" /\ sync'.wanted = sync.wanted /\ sync'.left = sync.left
        /\ UNCHANGED records
    BY <1>7 DEF ShutStale, Typed, SyncTyped, Syncs
  <2>2. Dwindles
    BY <1>7, ShuttingDwindles DEF ShutStale
  <2> QED  BY <2>1, <2>2
<1> QED  BY <1>2, <1>3, <1>4, <1>5, <1>6, <1>7, StepKinds DEF SyncSteps

\* One choice less.
LEMMA ChoiceMade ==
    ASSUME Typed, NEW d \in Devices, NEW out \in SUBSET Spotty, Choose(d, out)
    PROVE  \A x \in Devices : x # d => (x \in ToChoose' <=> x \in ToChoose)
<1>1. sync.left \in Seq(Devices) /\ sync.left # <<>> /\ d = Head(sync.left) /\ sync'.left = Tail(sync.left)
  BY ChooseTyped DEF Choose, Typed, SyncTyped, Syncs
<1>2. \A i \in DOMAIN Tail(sync.left) : Tail(sync.left)[i] = sync.left[i + 1] /\ i + 1 \in DOMAIN sync.left
  BY <1>1
<1>3. \A i \in DOMAIN sync.left :
          i = 1 \/ (i - 1 \in DOMAIN Tail(sync.left) /\ Tail(sync.left)[i - 1] = sync.left[i])
  BY <1>1
<1>4. sync.left[1] = d
  BY <1>1
<1>5. ASSUME NEW x \in Devices, x # d, x \in ToChoose
      PROVE  x \in ToChoose'
  BY <1>1, <1>3, <1>4, <1>5 DEF ToChoose
<1>6. ASSUME NEW x \in Devices, x \in ToChoose'
      PROVE  x \in ToChoose
  BY <1>1, <1>2, <1>6 DEF ToChoose
<1> QED  BY <1>5, <1>6

\* The way that is chosen, and what is said where there is none.
LEMMA ChosenWay ==
    ASSUME Typed, NEW d \in Devices, NEW out \in SUBSET Spotty, Choose(d, out)
    PROVE  /\ records[d] = "kept" /\ ~BehindPaused(d) /\ Usable(d, out) # {} =>
                  sync'.wanted[d] \in Usable(d, out)
           /\ sync'.wanted[d] = NoWay /\ records[d] # "removed" => refusal'[d] # "none"
           /\ refusal[d] # "none" => refusal'[d] # "none"
           /\ \A x \in Devices : x # d => refusal'[x] = refusal[x]
<1> DEFINE chosen == records[d] = "kept" /\ ~BehindPaused(d) /\ Usable(d, out) # {}
<1> DEFINE way == IF chosen THEN Best(d, Usable(d, out)) ELSE NoWay
<1>1. sync' = [sync EXCEPT !.left = Tail(@), !.wanted[d] = way]
  BY DEF Choose
<1>2. chosen => way \in Usable(d, out) /\ way # NoWay
  <2>1. Usable(d, out) \in SUBSET WaysOf(d)
    BY DEF Usable, Mine
  <2>2. chosen => Best(d, Usable(d, out)) \in Usable(d, out)
    BY <2>1, BestOne
  <2> QED  BY <2>1, <2>2, WaysKnown
<1> DEFINE why == IF chosen \/ records[d] = "removed" THEN refusal[d]
                  ELSE IF records[d] = "paused" \/ BehindPaused(d) THEN "paused"
                  ELSE IF Mine(d) = {} THEN "offline"
                  ELSE "retry"
<1>3. refusal' = [refusal EXCEPT ![d] = why] /\ refusal \in [Devices -> Refusals]
  BY DEF Choose, Typed, RestTyped
<1>4. /\ ~chosen /\ records[d] # "removed" => why # "none"
      /\ refusal[d] # "none" => why # "none"
  OBVIOUS
<1> HIDE DEF way, why, chosen
<1>5. sync'.wanted[d] = way
  <2>1. sync'.wanted = [sync.wanted EXCEPT ![d] = way] /\ sync.wanted \in [Devices -> Ways \cup {NoWay}]
    BY <1>1 DEF Typed, SyncTyped, Syncs
  <2> QED  BY <2>1
<1>6. refusal'[d] = why /\ \A x \in Devices : x # d => refusal'[x] = refusal[x]
  BY <1>3
<1>7. sync'.wanted[d] = NoWay /\ records[d] # "removed" => refusal'[d] # "none"
  BY <1>2, <1>4, <1>5, <1>6
<1>8. records[d] = "kept" /\ ~BehindPaused(d) /\ Usable(d, out) # {} => sync'.wanted[d] \in Usable(d, out)
  BY <1>2, <1>5 DEF chosen
<1> QED  BY <1>4, <1>6, <1>7, <1>8

\* A session that is being closed will say why there is none.
Pending(d) ==
    \E c \in closing : (c.dev = d /\ c.elsewhere) \/ (d \in c.behind /\ c.after # {})

LEMMA MembersPend ==
    ASSUME Typed, NEW b \in Devices, NEW elsewhere, Shutting(b, elsewhere), NEW d \in Members(b), IsOpen(b)
    PROVE  Pending(d)'
<1> DEFINE own == [dev |-> b, epoch |-> open[b].epoch, behind |-> Members(b),
                   after |-> {open[m].epoch : m \in Members(b)}, elsewhere |-> elsewhere]
<1>1. own \in closing'
  BY DEF Shutting, Closings
<1>2. d \in own.behind /\ own.after # {}
  OBVIOUS
<1> HIDE DEF own
<1> QED  BY <1>1, <1>2 DEF Pending

LEMMA OwnPends ==
    ASSUME Typed, NEW d \in Devices, Shutting(d, TRUE), IsOpen(d)
    PROVE  Pending(d)'
<1> DEFINE own == [dev |-> d, epoch |-> open[d].epoch, behind |-> Members(d),
                   after |-> {open[m].epoch : m \in Members(d)}, elsewhere |-> TRUE]
<1>1. own \in closing'
  BY DEF Shutting, Closings
<1>2. own.dev = d /\ own.elsewhere
  OBVIOUS
<1> HIDE DEF own
<1> QED  BY <1>1, <1>2 DEF Pending

\* Whatever closes, closes for a reason: something is to come, the closing will
\* say why, or the sync under way shut it.
LEMMA ClosesForReason ==
    ASSUME Typed, SyncInv, [Next]_vars, NEW d \in Devices, IsOpen(d), ~IsOpen(d)'
    PROVE  Coming' \/ Pending(d)' \/ ShutStale(d)
<1>1. ASSUME NEW x \in Devices, NEW elsewhere, Shutting(x, elsewhere)
      PROVE  x = d \/ Pending(d)'
  <2>1. open' = [y \in Devices |-> IF y \in Gone(x) THEN Shut ELSE open[y]]
    BY <1>1, ShuttingShuts
  <2>2. d \in Gone(x)
    BY <2>1 DEF IsOpen
  <2>3. CASE d \in Members(x)
    <3>1. IsOpen(x)
      BY <2>2 DEF Gone
    <3> QED  BY <1>1, <2>3, <3>1, MembersPend
  <2> QED  BY <2>2, <2>3 DEF Gone
<1>2. CASE UNCHANGED open
  BY <1>2 DEF IsOpen
<1>3. ASSUME NEW x \in Devices, ShutStale(x)
      PROVE  Pending(d)' \/ ShutStale(d)
  BY <1>1, <1>3 DEF ShutStale
<1>4. ASSUME NEW x \in Devices, Closing(x, TRUE), IsOpen(x)
      PROVE  Pending(d)'
  <2>1. CASE x = d
    BY <1>4, <2>1, OwnPends DEF Closing
  <2>2. CASE x # d
    BY <1>1, <1>4, <2>2 DEF Closing
  <2> QED  BY <2>1, <2>2
<1>5. ASSUME NEW x \in Devices, Verified(x)
      PROVE  Pending(d)'
  BY <1>4, <1>5 DEF Verified
<1>6. ASSUME NEW e \in look.left, LooksAstray(e)
      PROVE  Pending(d)'
  <2>1. e[1] \in Devices
    BY DEF Typed, LookTyped, LooksAt
  <2> QED  BY <1>4, <1>6, <2>1 DEF LooksAstray
<1>7. ASSUME \/ \E x \in Devices : SetSecrets(x)
             \/ \E e \in look.left : GivesWay(e)
             \/ Stop
      PROVE  Coming'
  BY <1>7, SetSecretsTyped, GivesWayTyped, StopTyped DEF Coming
<1>8. ASSUME NEW x \in Devices, Opened(x)
      PROVE  FALSE
  <2>1. x # d
    BY <1>8 DEF Opened, SyncInv, OpensInTurn, NotOpening
  <2> QED  BY <1>8, <2>1, OpenedTyped DEF IsOpen
<1>9. ASSUME \/ SyncBegins \/ OpenDirect \/ OpenMembers \/ RoundEnds \/ LookEnds \/ Stopped \/ UNCHANGED vars
             \/ \E e \in look.left : LooksWell(e)
             \/ \E due \in BOOLEAN : LookBegins(due)
             \/ \E v \in Ways : PassedOver(v) \/ Prefer(v) \/ Turns(v) \/ Strays(v)
             \/ \E c \in callers : CallerAsks(c)
             \/ \E c \in closing : Closed(c)
             \/ \E x \in Devices, state \in States : Change(x, state)
      PROVE  UNCHANGED open
  BY <1>9 DEF SyncBegins, OpenDirect, OpenMembers, RoundEnds, LookEnds, Stopped, vars, manager, LooksWell,
              LookBegins, PassedOver, Prefer, Turns, Strays, CallerAsks, Closed, Change
<1>10. ASSUME NEW x \in Devices,
              \/ Asks(x)
              \/ \E out \in SUBSET Spotty : Choose(x, out)
              \/ \E why \in Refusals : OpenFails(x, why)
       PROVE  UNCHANGED open
  BY <1>10 DEF Asks, Choose, OpenFails
<1> QED
  BY <1>2, <1>3, <1>5, <1>6, <1>7, <1>8, <1>9, <1>10 DEF Next

\* Why a device is not open is let go only when it opens, is removed, or will
\* be said anew.
LEMMA ReasonLetGo ==
    ASSUME Typed, SyncInv, [Next]_vars, NEW d \in Devices, refusal[d] # "none", refusal'[d] = "none"
    PROVE  Coming' \/ (Pending(d)' /\ ~IsOpen(d)') \/ records[d] = "removed" \/ opening'[d] # NotOpening
<1>1. CASE UNCHANGED refusal
  BY <1>1
<1>2. ASSUME NEW c \in closing, Closed(c)
      PROVE  FALSE
  <2>1. \/ refusal'[d] = "elsewhere" \/ refusal'[d] = "offline" \/ refusal'[d] = refusal[d]
    BY <1>2 DEF Closed
  <2> QED  BY <2>1
<1>3. ASSUME NEW x \in Devices, NEW out \in SUBSET Spotty, Choose(x, out)
      PROVE  FALSE
  BY <1>3, ChosenWay
<1>4. CASE OpenDirect
  <2>1. records[d] = "removed" \/ (d \in ToOpen /\ ~Bridged(sync.wanted[d]))
    BY <1>4 DEF OpenDirect
  <2>2. ASSUME d \in ToOpen, ~Bridged(sync.wanted[d])
        PROVE  opening'[d] # NotOpening
    <3>1. opening'[d] = [way |-> sync.wanted[d], link |-> 0, asked |-> FALSE]
      BY <1>4, <2>2, DirectOpens
    <3>2. sync.wanted[d] # NoWay
      BY <2>2 DEF ToOpen
    <3> QED  BY <3>1, <3>2 DEF NotOpening
  <2> QED  BY <2>1, <2>2
<1>5. CASE OpenMembers
  <2>1. d \in sync.tried /\ BridgeOf(sync.wanted[d]) > 0
    BY <1>5 DEF OpenMembers
  <2>2. opening'[d] = [way |-> sync.wanted[d], link |-> 0, asked |-> TRUE]
    BY <1>5, <2>1, MembersOpen
  <2> QED  BY <2>2 DEF NotOpening
<1>6. ASSUME NEW x \in Devices, NEW why \in Refusals, OpenFails(x, why)
      PROVE  FALSE
  BY <1>6 DEF OpenFails, Failure, Typed, RestTyped
<1>7. ASSUME NEW x \in Devices, Closing(x, TRUE), IsOpen(x)
      PROVE  Pending(d)' /\ ~IsOpen(d)'
  <2>1. x = d
    BY <1>7 DEF Closing, Typed, RestTyped
  <2>2. ~IsOpen(d)'
    <3>1. Shutting(d, TRUE) /\ d \in Gone(d)
      BY <1>7, <2>1 DEF Closing, Gone
    <3>2. open'[d] = Shut
      BY <3>1, ShuttingShuts
    <3> QED  BY <3>2 DEF IsOpen, Shut
  <2> QED  BY <1>7, <2>1, <2>2, OwnPends DEF Closing
<1>8. ASSUME NEW x \in Devices, Verified(x)
      PROVE  Pending(d)' /\ ~IsOpen(d)'
  BY <1>7, <1>8 DEF Verified
<1>9. ASSUME NEW e \in look.left, LooksAstray(e)
      PROVE  Pending(d)' /\ ~IsOpen(d)'
  <2>1. e[1] \in Devices
    BY DEF Typed, LookTyped, LooksAt
  <2> QED  BY <1>7, <1>9, <2>1 DEF LooksAstray
<1>10. ASSUME \/ \E x \in Devices : SetSecrets(x)
              \/ \E e \in look.left : GivesWay(e)
              \/ Stop \/ Stopped
       PROVE  Coming'
  BY <1>10, SetSecretsTyped, GivesWayTyped, StopTyped, StoppedTyped DEF Coming
<1>11. ASSUME \/ SyncBegins \/ RoundEnds \/ LookEnds \/ UNCHANGED vars
              \/ \E e \in look.left : LooksWell(e)
              \/ \E due \in BOOLEAN : LookBegins(due)
              \/ \E v \in Ways : PassedOver(v) \/ Prefer(v) \/ Turns(v) \/ Strays(v)
              \/ \E c \in callers : CallerAsks(c)
              \/ \E x \in Devices, state \in States : Change(x, state)
              \/ \E x \in Devices : ShutStale(x) \/ Asks(x) \/ Opened(x)
       PROVE  UNCHANGED refusal
  BY <1>11 DEF SyncBegins, RoundEnds, LookEnds, vars, manager, LooksWell, LookBegins, PassedOver, Prefer,
               Turns, Strays, CallerAsks, Change, ShutStale, Asks, Opened
<1> QED
  BY <1>1, <1>2, <1>3, <1>4, <1>5, <1>6, <1>8, <1>9, <1>10, <1>11 DEF Next

\* A bridge of the device is not open: where bridges last, because it is kept
\* no more.
Loose(d) ==
    \E w \in WaysOf(d) :
        /\ Bridged(w) /\ ~IsOpen(Through[w])
        /\ LastingBridges => records[Through[w]] # "kept"

\* What is open and was not chosen says why, for when it is shut.
Told(d) ==
    sync.at = "choosing" /\ d \notin ToChoose /\ sync.wanted[d] = NoWay /\ records[d] # "removed"
        /\ IsOpen(d) /\ refusal[d] = "none" => Coming

\* A bridge that is open is wanted as it is.
Same(d) ==
    LastingBridges /\ sync.at = "choosing" /\ d \notin ToChoose /\ IsOpen(d) /\ records[d] = "kept"
        /\ (\E w \in Ways : Through[w] = d) => sync.wanted[d] = open[d].way

\* And so one that was chosen to go through stays.
Lasts(d) ==
    LastingBridges /\ sync.at \in {"choosing", "direct"} /\ Bridged(sync.wanted[d]) /\ sync.wanted[d] # NoWay =>
        BridgeOf(sync.wanted[d]) > 0 \/ Coming \/ records[Through[sync.wanted[d]]] # "kept"

Silent(d) == records[d] # "removed" /\ ~IsOpen(d) /\ refusal[d] = "none" /\ opening[d] = NotOpening

\* What is not open and says nothing is not done with.
Says(d) ==
    Silent(d) =>
        \/ Coming \/ Pending(d)
        \/ sync.at = "choosing" /\ (d \in ToChoose \/ sync.wanted[d] # NoWay)
        \/ sync.at = "direct" /\ d \in sync.tried /\ Bridged(sync.wanted[d])
        \/ sync.at \in {"members", "idle"} /\ Loose(d)

SaysInv == \A d \in Devices : Told(d) /\ Same(d) /\ Lasts(d) /\ Says(d)

LEMMA SaysInit ==
    ASSUME Init
    PROVE  SaysInv
<1>1. /\ sync.at = "idle" /\ queue # <<>> /\ \A d \in Devices : sync.wanted[d] = NoWay
      /\ \A d \in Devices : records[d] = "removed"
  BY DEF Init, NoSync
<1> QED  BY <1>1 DEF SaysInv, Told, Same, Lasts, Says, Silent, Coming

LEMMA ToldStep ==
    ASSUME Typed, SyncInv, SaysInv, [Next]_vars, NEW d \in Devices
    PROVE  Told(d)'
<1> SUFFICES ASSUME sync'.at = "choosing", d \notin ToChoose', sync'.wanted[d] = NoWay, records'[d] # "removed",
                    IsOpen(d)', refusal'[d] = "none", ~Coming'
             PROVE  FALSE
  BY DEF Told
<1>1. CASE SyncBegins \/ RoundEnds
  <2>1. sync.at # "choosing"
    BY <1>1 DEF SyncBegins, RoundEnds
  <2>2. \A x \in Devices, out \in SUBSET Spotty : ~Choose(x, out)
    BY <2>1 DEF Choose
  <2> QED  BY <2>1, <2>2, RoundSteps
<1>2. ASSUME NEW x \in Devices, NEW out \in SUBSET Spotty, Choose(x, out)
      PROVE  FALSE
  <2>1. UNCHANGED <<open, records>> /\ ~SyncBegins /\ sync.at = "choosing"
    BY <1>2 DEF Choose, SyncBegins
  <2>2. CASE x = d
    BY <1>2, <2>1, <2>2, ChosenWay
  <2>3. CASE x # d
    <3>1. d \notin ToChoose /\ sync.wanted[d] = NoWay /\ refusal[d] = "none"
      BY <1>2, <2>3, ChoiceMade, ChooseTyped, ChosenWay
    <3>2. IsOpen(d)
      BY <2>1 DEF IsOpen
    <3>3. Coming
      BY <2>1, <3>1, <3>2 DEF SaysInv, Told
    <3> QED  BY <2>1, <3>3, ComingStays
  <2> QED  BY <2>2, <2>3
<1>3. ASSUME sync.at = "choosing", sync'.wanted = sync.wanted, sync'.left = sync.left,
             UNCHANGED records, Dwindles
      PROVE  FALSE
  <2>1. d \notin ToChoose /\ sync.wanted[d] = NoWay /\ IsOpen(d)
    BY <1>3 DEF ToChoose, Dwindles, IsOpen, Shut
  <2>2. ~SyncBegins /\ ~Coming
    BY <1>3, ComingStays DEF SyncBegins
  <2>3. refusal[d] # "none"
    BY <1>3, <2>1, <2>2 DEF SaysInv, Told
  <2>4. opening'[d] # NotOpening
    BY <1>3, <2>3, ReasonLetGo
  <2>5. opening'[d] = NotOpening
    <3>1. SyncInv'
      BY SyncInvStep
    <3> QED  BY <3>1 DEF SyncInv, OpensInTurn
  <2> QED  BY <2>4, <2>5
<1> QED  BY <1>1, <1>2, <1>3, RoundSteps

LEMMA SameStep ==
    ASSUME Typed, SyncInv, SaysInv, [Next]_vars, NEW d \in Devices
    PROVE  Same(d)'
<1> SUFFICES ASSUME LastingBridges, sync'.at = "choosing", d \notin ToChoose', IsOpen(d)', records'[d] = "kept",
                    NEW v \in Ways, Through[v] = d
             PROVE  sync'.wanted[d] = open'[d].way
  BY DEF Same
<1>1. CASE (SyncBegins \/ RoundEnds) /\ ToChoose' = Devices
  BY <1>1
<1>2. ASSUME NEW x \in Devices, NEW out \in SUBSET Spotty, Choose(x, out)
      PROVE  sync'.wanted[d] = open'[d].way
  <2>1. UNCHANGED <<open, records>> /\ sync.at = "choosing"
    BY <1>2 DEF Choose
  <2>2. IsOpen(d)
    BY <2>1 DEF IsOpen
  <2>3. CASE x # d
    BY <1>2, <2>1, <2>2, <2>3, ChoiceMade, ChooseTyped DEF SaysInv, Same
  <2>4. CASE x = d
    <3>1. Bridged(v) /\ Through[v] = d
      BY WaysKnown DEF Bridged
    <3>2. PICK w \in WaysOf(d) : w = open[d].way
      BY <2>2 DEF Typed, OwnWays
    <3>3. WaysOf(d) = {w} /\ w \notin Spotty /\ ~Bridged(w)
      BY <3>1, <3>2, WaysKnown DEF LastingBridges
    <3>4. w \in Held
      BY <2>2, <3>2, <3>3 DEF SyncInv, WantsKept, Usual
    <3>5. Mine(d) = {w}
      BY <3>3, <3>4 DEF Mine
    <3>6. Usable(d, out) = {w}
      BY <3>3, <3>5 DEF Usable
    <3>7. ~BehindPaused(d)
      BY <3>3 DEF BehindPaused
    <3>8. sync'.wanted[d] \in {w}
      BY <1>2, <2>1, <2>4, <3>6, <3>7, ChosenWay
    <3> QED  BY <2>1, <3>2, <3>8
  <2> QED  BY <2>3, <2>4
<1>3. ASSUME sync.at = "choosing", sync'.wanted = sync.wanted, sync'.left = sync.left,
             UNCHANGED records, Dwindles
      PROVE  sync'.wanted[d] = open'[d].way
  <2>1. d \notin ToChoose /\ IsOpen(d) /\ open'[d] = open[d]
    BY <1>3 DEF ToChoose, Dwindles, IsOpen, Shut
  <2> QED  BY <1>3, <2>1 DEF SaysInv, Same
<1> QED  BY <1>1, <1>2, <1>3, RoundSteps

\* What a sync wants it goes on wanting, until it or its round ends.
LEMMA WantedKept ==
    ASSUME Typed, SyncInv, [Next]_vars, NEW d \in Devices, sync'.wanted[d] # NoWay
    PROVE  \/ \E out \in SUBSET Spotty : Choose(d, out)
           \/ sync'.wanted[d] = sync.wanted[d] /\ UNCHANGED records
              /\ (sync'.at = sync.at \/ OpenDirect \/ OpenMembers)
<1>1. CASE Beside
  BY <1>1 DEF Beside
<1>2. ~SyncBegins /\ ~RoundEnds
  BY BeginsAfresh
<1>3. CASE OpenDirect \/ OpenMembers
  BY <1>3, DirectOpens, MembersOpen
<1>4. ASSUME NEW x \in Devices, Asks(x) \/ Opened(x) \/ \E why \in Refusals : OpenFails(x, why)
      PROVE  UNCHANGED <<sync, records>>
  BY <1>4 DEF Asks, Opened, OpenFails
<1>5. ASSUME NEW x \in Devices, ShutStale(x)
      PROVE  sync'.wanted = sync.wanted /\ sync'.at = sync.at /\ UNCHANGED records
  BY <1>5 DEF ShutStale, Typed, SyncTyped, Syncs
<1>6. ASSUME NEW x \in Devices, NEW out \in SUBSET Spotty, Choose(x, out), x # d
      PROVE  sync'.wanted[d] = sync.wanted[d] /\ UNCHANGED records /\ sync'.at = sync.at
  BY <1>6, ChooseTyped DEF Choose
<1> QED  BY <1>1, <1>2, <1>3, <1>4, <1>5, <1>6, StepKinds DEF SyncSteps

LEMMA LastsStep ==
    ASSUME Typed, SyncInv, Carried, OverNow, SaysInv, [Next]_vars, NEW d \in Devices
    PROVE  Lasts(d)'
<1> SUFFICES ASSUME LastingBridges, sync'.at \in {"choosing", "direct"}, Bridged(sync'.wanted[d]),
                    sync'.wanted[d] # NoWay, ~Coming', records'[Through[sync'.wanted[d]]] = "kept"
             PROVE  BridgeOf(sync.wanted[d])' > 0
  BY DEF Lasts, Bridged
<1>1. PICK w \in WaysOf(d) : w = sync'.wanted[d]
  BY TypedStep DEF Typed, OwnWays
<1> DEFINE b == Through[w]
<1>2. w \in Ways /\ Bridged(w) /\ b \in Devices
  BY <1>1, WaysKnown
<1>3. SUFFICES IsOpen(Through[w])'
  <2>1. BridgeOf(w)' = open'[b].epoch
    BY <1>2 DEF BridgeOf, Bridged
  <2>2. BridgeOf(sync.wanted[d])' = BridgeOf(w)'
    BY <1>1 DEF BridgeOf, Bridged
  <2> QED  BY <2>1, <2>2 DEF IsOpen
<1>4. ASSUME NEW out \in SUBSET Spotty, Choose(d, out)
      PROVE  IsOpen(Through[w])'
  <2>1. w \in Mine(d)
    BY <1>1, <1>4, ChoosesKept
  <2> QED  BY <1>2, <1>4, <2>1 DEF Mine, Choose, IsOpen
<1>5. ASSUME sync'.wanted[d] = sync.wanted[d], UNCHANGED records,
             sync'.at = sync.at \/ OpenDirect \/ OpenMembers
      PROVE  IsOpen(Through[w])'
  <2>1. sync.at \in {"choosing", "direct"} /\ ~SyncBegins
    BY <1>5, DirectOpens, MembersOpen DEF SyncBegins
  <2>2. ~Coming
    BY <2>1, ComingStays
  <2>3. BridgeOf(w) > 0
    BY <1>1, <1>2, <1>5, <2>1, <2>2 DEF SaysInv, Lasts
  <2>4. IsOpen(Through[w])
    BY <1>2, <2>3, BridgeNumbered DEF Typed
  <2>5. SUFFICES ASSUME ~IsOpen(Through[w])'
                 PROVE  FALSE
    OBVIOUS
  <2>6. ShutStale(b) \/ Pending(b)'
    BY <1>2, <2>4, <2>5, ClosesForReason
  <2>7. open[b].way \notin astray
    <3>1. open[b].way \in WaysOf(b)
      BY <1>2, <2>4 DEF Typed, OwnWays
    <3> QED  BY <1>2, <3>1 DEF LastingBridges, Carried
  <2>8. SyncSteps
    BY <1>2, <2>4, <2>5, <2>7, LostWithWord
  <2>9. ShutStale(b)
    <3>1. ~UNCHANGED open
      BY <2>4, <2>5 DEF IsOpen
    <3>2. ASSUME NEW x \in Devices, Opened(x)
          PROVE  FALSE
      <4>1. x # b
        BY <2>4, <3>2 DEF Opened, SyncInv, OpensInTurn, NotOpening
      <4> QED  BY <1>2, <2>4, <2>5, <3>2, <4>1, OpenedTyped DEF IsOpen
    <3>3. ASSUME NEW x \in Devices, ShutStale(x)
          PROVE  x = b
      <4>1. Shutting(x, FALSE)
        BY <3>3 DEF ShutStale
      <4>2. open' = [y \in Devices |-> IF y \in Gone(x) THEN Shut ELSE open[y]]
        BY <4>1, ShuttingShuts
      <4>3. b \in Gone(x)
        BY <1>2, <2>4, <2>5, <4>2 DEF IsOpen
      <4>4. b \notin Members(x)
        BY <1>2, MembersApart, WaysKnown
      <4> QED  BY <4>3, <4>4 DEF Gone
    <3> QED
      BY <2>8, <3>1, <3>2, <3>3 DEF SyncSteps, SyncBegins, OpenDirect, OpenMembers, RoundEnds, Asks, Choose, OpenFails
  <2>10. sync.at = "choosing" /\ Stale(b) /\ b \notin ToChoose
    <3>1. sync.at = "choosing" /\ Stale(b) /\ sync.left = <<>>
      BY <2>9 DEF ShutStale
    <3> QED  BY <3>1 DEF ToChoose
  <2>11. open[b].over = BridgeOf(open[b].way) /\ open[b].way # NoWay
    BY <1>2, <2>4 DEF OverNow, Typed, OwnWays
  <2>12. sync.wanted[b] # open[b].way
    BY <2>10, <2>11 DEF Stale
  <2>13. records[b] = "kept"
    BY <1>1, <1>5
  <2> QED  BY <1>2, <2>4, <2>10, <2>12, <2>13 DEF SaysInv, Same
<1> QED  BY <1>4, <1>5, WantedKept

\* What will say why does, or goes on to.
LEMMA PendingSays ==
    ASSUME Typed, NEW d \in Devices, Pending(d), [Next]_vars
    PROVE  Pending(d)' \/ refusal'[d] # "none"
<1>1. ASSUME closing \subseteq closing'
      PROVE  Pending(d)'
  BY <1>1 DEF Pending
<1>2. ASSUME NEW c \in closing, Closed(c)
      PROVE  Pending(d)' \/ refusal'[d] # "none"
  <2> DEFINE f == [x \in closing |-> [x EXCEPT !.after = @ \ {c.epoch}]]
  <2>1. \A x \in closing : /\ f[x].dev = x.dev /\ f[x].elsewhere = x.elsewhere /\ f[x].behind = x.behind
                           /\ f[x].after = x.after \ {c.epoch}
    BY DEF Typed, ClosingTyped, ToClose
  <2>2. closing' = {f[x] : x \in closing \ {c}} /\ c.after = {}
    BY <1>2 DEF Closed
  <2> HIDE DEF f
  <2>3. PICK p \in closing : (p.dev = d /\ p.elsewhere) \/ (d \in p.behind /\ p.after # {})
    BY DEF Pending
  <2>4. CASE p = c
    <3>1. c.elsewhere /\ d = c.dev
      BY <2>2, <2>3, <2>4
    <3>2. refusal'[d] = "elsewhere"
      BY <1>2, <3>1 DEF Closed
    <3> QED  BY <3>2
  <2>5. CASE p # c /\ p.dev = d /\ p.elsewhere
    BY <2>1, <2>2, <2>5 DEF Pending
  <2>6. CASE p # c /\ d \in p.behind /\ p.after # {}
    <3>1. CASE p.after = {c.epoch}
      <4>1. d \in UNION {x.behind : x \in {y \in closing : y.after = {c.epoch}}}
        BY <2>6, <3>1
      <4>2. refusal'[d] # "none"
        BY <1>2, <4>1 DEF Closed
      <4> QED  BY <4>2
    <3>2. CASE p.after # {c.epoch}
      <4>1. f[p].after # {} /\ d \in f[p].behind /\ f[p] \in closing'
        BY <2>1, <2>2, <2>6, <3>2
      <4> QED  BY <4>1 DEF Pending
    <3> QED  BY <3>1, <3>2
  <2> QED  BY <2>3, <2>4, <2>5, <2>6
<1>3. ASSUME UNCHANGED <<open, closing, alive>>
      PROVE  closing \subseteq closing'
  BY <1>3
<1>4. ASSUME NEW x \in Devices, NEW elsewhere \in BOOLEAN, Shutting(x, elsewhere)
      PROVE  closing \subseteq closing'
  BY <1>4 DEF Shutting
<1>5. ASSUME Stop \/ \E x \in Devices : Opened(x)
      PROVE  closing \subseteq closing'
  BY <1>5 DEF Stop, Opened
<1> QED  BY <1>1, <1>2, <1>3, <1>4, <1>5, StepsOfSessions

\* A bridge that is not open once the bridges had their turn stays so until the
\* sync ends, and after.
LEMMA LooseStays ==
    ASSUME Typed, SyncInv, NEW d \in Devices, Loose(d), sync.at \in {"members", "idle"}, [Next]_vars,
           UNCHANGED records
    PROVE  Loose(d)'
<1>1. PICK w \in WaysOf(d) : Bridged(w) /\ ~IsOpen(Through[w]) /\ (LastingBridges => records[Through[w]] # "kept")
  BY DEF Loose
<1>2. Through[w] \in Devices /\ \A v \in WaysOf(Through[w]) : ~Bridged(v)
  BY <1>1, WaysKnown
<1>3. ASSUME NEW x \in Devices, Opened(x)
      PROVE  x # Through[w]
  <2>1. opening[x] # NotOpening
    BY <1>3 DEF Opened, NotOpening
  <2>2. opening[x].way \in WaysOf(x)
    BY <1>3, OpenedTyped
  <2>3. sync.at = "members"
    BY <2>1, NothingOpens DEF NoneOpening
  <2>4. Bridged(opening[x].way)
    BY <2>1, <2>3 DEF SyncInv, OpensInTurn
  <2> QED  BY <1>2, <2>2, <2>4
<1>4. ~IsOpen(Through[w])'
  <2>1. CASE Dwindles
    BY <1>1, <1>2, <2>1 DEF Dwindles, IsOpen, Shut
  <2>2. ASSUME NEW x \in Devices, Opened(x)
        PROVE  ~IsOpen(Through[w])'
    BY <1>1, <1>2, <1>3, <2>2, OpenedTyped DEF IsOpen
  <2> QED  BY <2>1, <2>2, OpenSteps
<1> QED  BY <1>1, <1>4 DEF Loose, Bridged

LEMMA SaysStep ==
    ASSUME Typed, SyncInv, Carried, OverNow, SaysInv, [Next]_vars, NEW d \in Devices
    PROVE  Says(d)'
<1> SUFFICES ASSUME Silent(d)', ~Coming', ~Pending(d)'
             PROVE  \/ sync'.at = "choosing" /\ (d \in ToChoose' \/ sync'.wanted[d] # NoWay)
                    \/ sync'.at = "direct" /\ d \in sync'.tried /\ Bridged(sync'.wanted[d])
                    \/ sync'.at \in {"members", "idle"} /\ Loose(d)'
  BY DEF Says, Bridged
<1>1. records'[d] # "removed" /\ ~IsOpen(d)' /\ refusal'[d] = "none" /\ opening'[d] = NotOpening
  BY DEF Silent
<1>2. CASE SyncBegins
  <2>1. sync'.at = "choosing" /\ sync.at = "idle"
    BY <1>2 DEF SyncBegins, NoSync
  <2>2. ToChoose' = Devices
    BY <2>1, RoundSteps DEF Choose
  <2> QED  BY <2>1, <2>2
<1>3. CASE ~SyncBegins
  <2>1. ~Coming /\ UNCHANGED records
    <3>1. UNCHANGED records
      BY <1>3, StepKinds
         DEF SyncSteps, Beside, OpenDirect, OpenMembers, RoundEnds, ShutStale, Asks, Opened, Choose, OpenFails
    <3> QED  BY <1>3, <3>1, ComingStays
  <2>2. CASE ShutStale(d) /\ IsOpen(d)
    <3>1. /\ sync.at = "choosing" /\ sync'.at = "choosing" /\ sync'.wanted = sync.wanted
          /\ d \notin ToChoose /\ UNCHANGED refusal
      BY <2>2 DEF ShutStale, ToChoose, Typed, SyncTyped, Syncs
    <3>2. sync.wanted[d] # NoWay
      BY <1>1, <2>1, <2>2, <3>1 DEF SaysInv, Told
    <3> QED  BY <3>1, <3>2
  <2>3. CASE Silent(d)
    <3>1. ~Pending(d)
      BY <1>1, PendingSays
    <3>2. \/ sync.at = "choosing" /\ (d \in ToChoose \/ sync.wanted[d] # NoWay)
          \/ sync.at = "direct" /\ d \in sync.tried /\ Bridged(sync.wanted[d])
          \/ sync.at \in {"members", "idle"} /\ Loose(d)
      BY <2>1, <2>3, <3>1 DEF SaysInv, Says
    <3>3. CASE UNCHANGED sync
      <4>1. sync.at \in {"members", "idle"} /\ Loose(d) => Loose(d)'
        BY <2>1, LooseStays
      <4> QED  BY <3>2, <3>3, <4>1 DEF ToChoose
    <3>4. ASSUME NEW x \in Devices, NEW out \in SUBSET Spotty, Choose(x, out)
          PROVE  sync'.at = "choosing" /\ (d \in ToChoose' \/ sync'.wanted[d] # NoWay)
      <4>1. sync.at = "choosing" /\ sync'.at = "choosing"
        BY <3>4, ChooseTyped DEF Choose
      <4>2. CASE x = d
        BY <1>1, <2>1, <3>4, <4>1, <4>2, ChosenWay
      <4>3. CASE x # d
        BY <3>2, <3>4, <4>1, <4>3, ChoiceMade, ChooseTyped
      <4> QED  BY <4>1, <4>2, <4>3
    <3>5. ASSUME NEW x \in Devices, ShutStale(x)
          PROVE  sync'.at = "choosing" /\ (d \in ToChoose' \/ sync'.wanted[d] # NoWay)
      <4>1. sync.at = "choosing" /\ sync'.at = "choosing" /\ sync'.wanted = sync.wanted /\ sync'.left = sync.left
        BY <3>5 DEF ShutStale, Typed, SyncTyped, Syncs
      <4> QED  BY <3>2, <4>1 DEF ToChoose
    <3>6. CASE OpenDirect
      <4>1. /\ sync.at = "choosing" /\ sync'.at = "direct" /\ sync'.wanted = sync.wanted
            /\ sync'.tried = ToOpen
            /\ opening'[d] = IF d \in ToOpen /\ ~Bridged(sync.wanted[d])
                             THEN [way |-> sync.wanted[d], link |-> 0, asked |-> FALSE] ELSE NotOpening
        BY <3>6, DirectOpens
      <4>2. d \notin ToChoose
        BY <3>6 DEF OpenDirect, ToChoose
      <4>3. sync.wanted[d] # NoWay
        BY <3>2, <4>1, <4>2
      <4>4. d \in ToOpen
        BY <2>3, <4>3 DEF ToOpen, Silent
      <4>5. Bridged(sync.wanted[d])
        <5>1. ASSUME ~Bridged(sync.wanted[d])
              PROVE  FALSE
          <6>1. opening'[d] = [way |-> sync.wanted[d], link |-> 0, asked |-> FALSE]
            BY <4>1, <4>4, <5>1, Zenon
          <6> QED  BY <1>1, <4>3, <6>1 DEF NotOpening
        <5> QED  BY <5>1
      <4> QED  BY <4>1, <4>4, <4>5
    <3>7. CASE OpenMembers
      <4>1. /\ sync.at = "direct" /\ sync'.at = "members" /\ UNCHANGED <<open, records>>
            /\ opening'[d] = IF d \in sync.tried /\ BridgeOf(sync.wanted[d]) > 0
                             THEN [way |-> sync.wanted[d], link |-> 0, asked |-> TRUE] ELSE NotOpening
        BY <3>7, MembersOpen
      <4>2. d \in sync.tried /\ Bridged(sync.wanted[d])
        BY <3>2, <4>1
      <4>3. PICK w \in WaysOf(d) : w = sync.wanted[d]
        BY <4>2 DEF Typed, OwnWays
      <4>4. w \in Ways /\ w # NoWay /\ Bridged(w)
        BY <4>2, <4>3, WaysKnown
      <4>5. ~(BridgeOf(w) > 0)
        <5>1. ASSUME BridgeOf(sync.wanted[d]) > 0
              PROVE  FALSE
          <6>1. opening'[d] = [way |-> sync.wanted[d], link |-> 0, asked |-> TRUE]
            BY <4>1, <4>2, <5>1, Zenon
          <6> QED  BY <1>1, <4>3, <4>4, <6>1 DEF NotOpening
        <5> QED  BY <4>3, <5>1
      <4>6. ~IsOpen(Through[w])
        BY <4>4, <4>5, BridgeNumbered DEF Typed
      <4>7. LastingBridges => records[Through[w]] # "kept"
        BY <2>1, <4>1, <4>3, <4>4, <4>5 DEF SaysInv, Lasts
      <4>8. Loose(d)'
        BY <4>1, <4>4, <4>6, <4>7 DEF Loose, IsOpen, Bridged
      <4> QED  BY <4>1, <4>8
    <3>8. CASE RoundEnds
      <4>1. sync.at = "members"
        BY <3>8 DEF RoundEnds
      <4>2. CASE sync'.at = "choosing"
        <5>1. ToChoose' = Devices
          BY <4>1, <4>2, RoundSteps DEF Choose
        <5> QED  BY <4>2, <5>1
      <4>3. CASE sync'.at # "choosing"
        <5>1. sync'.at = "idle"
          BY <3>8, <4>3, RoundEndsTyped
        <5>2. Loose(d)
          BY <3>2, <4>1
        <5>3. Loose(d)'
          BY <2>1, <4>1, <5>2, LooseStays
        <5> QED  BY <5>1, <5>3
      <4> QED  BY <4>2, <4>3
    <3>9. ASSUME NEW x \in Devices, Asks(x) \/ Opened(x) \/ \E why \in Refusals : OpenFails(x, why)
          PROVE  UNCHANGED sync
      BY <3>9 DEF Asks, Opened, OpenFails
    <3> QED
      BY <1>3, <3>3, <3>4, <3>5, <3>6, <3>7, <3>8, <3>9, StepKinds DEF SyncSteps, Beside
  <2>4. CASE ~Silent(d) /\ ~(ShutStale(d) /\ IsOpen(d))
    <3>1. ~IsOpen(d)
      BY <1>1, <2>4, ClosesForReason
    <3>2. refusal[d] = "none"
      BY <1>1, <2>1, ReasonLetGo
    <3>3. opening[d] # NotOpening
      BY <1>1, <2>1, <2>4, <3>1, <3>2 DEF Silent
    <3>4. ~UNCHANGED opening
      BY <1>1, <3>3
    <3>5. sync.at \in {"direct", "members"}
      BY <3>3, NothingOpens DEF NoneOpening, Typed, SyncTyped, Syncs
    <3>6. ~OpenMembers /\ ~OpenDirect /\ ~RoundEnds
      BY <3>3, <3>5 DEF OpenMembers, NoneOpening, OpenDirect, RoundEnds
    <3>7. ASSUME NEW x \in Devices, Asks(x)
          PROVE  FALSE
      <4>1. CASE x = d
        <5>1. opening'[d].way = opening[d].way /\ opening[d].way # NoWay
          BY <3>3, <3>7, <4>1, AsksTyped DEF Typed, OwnWays
        <5> QED  BY <1>1, <5>1 DEF NotOpening
      <4>2. CASE x # d
        BY <1>1, <3>3, <3>7, <4>2, AsksTyped
      <4> QED  BY <4>1, <4>2
    <3>8. ASSUME NEW x \in Devices, Opened(x)
          PROVE  FALSE
      <4>1. x = d
        BY <1>1, <3>3, <3>8, OpenedTyped
      <4>2. open'[d] = [way |-> opening[d].way, epoch |-> NewEpoch, link |-> opening[d].link,
                        over |-> BridgeOf(opening[d].way)]
        BY <3>8, <4>1, OpenedTyped
      <4>3. open'[d].epoch = NewEpoch /\ NewEpoch > 0
        BY <4>2, NewEpochIsNew
      <4> QED  BY <1>1, <4>3 DEF IsOpen
    <3>9. ASSUME NEW x \in Devices, NEW why \in Refusals, OpenFails(x, why)
          PROVE  FALSE
      <4>1. x = d
        BY <1>1, <3>3, <3>9 DEF OpenFails, Typed, OpenTyped
      <4>2. refusal'[d] = why /\ why \in {"retry", "signin"}
        BY <3>9, <4>1 DEF OpenFails, Failure, Typed, RestTyped
      <4> QED  BY <1>1, <4>2
    <3>10. ASSUME NEW x \in Devices, ShutStale(x) \/ \E out \in SUBSET Spotty : Choose(x, out)
           PROVE  UNCHANGED opening
      BY <3>10 DEF ShutStale, Choose
    <3> QED
      BY <1>3, <3>4, <3>6, <3>7, <3>8, <3>9, <3>10, StepKinds DEF SyncSteps, Beside
  <2> QED  BY <2>2, <2>3, <2>4
<1> QED  BY <1>2, <1>3

\* All that is known of the sessions: what holds together at every step.
SessionsInv == Typed /\ SyncInv /\ Carried /\ OverNow /\ SaysInv

LEMMA SessionsInvInit ==
    ASSUME Init
    PROVE  SessionsInv
<1>1. OverNow
  BY DEF Init, OverNow, IsOpen, Shut
<1> QED
  BY <1>1, TypedInit, SyncInvInit, CarriedInit, SaysInit DEF SessionsInv

LEMMA SessionsInvStep ==
    ASSUME SessionsInv, [Next]_vars
    PROVE  SessionsInv'
<1>1. Typed' /\ SyncInv' /\ Carried' /\ OverNow'
  BY TypedStep, SyncInvStep, CarriedStep, OverNowStep DEF SessionsInv
<1>2. SaysInv'
  <2>1. ASSUME NEW d \in Devices
        PROVE  Told(d)' /\ Same(d)' /\ Lasts(d)' /\ Says(d)'
    BY ToldStep, SameStep, LastsStep, SaysStep DEF SessionsInv
  <2> QED  BY <2>1 DEF SaysInv
<1> QED  BY <1>1, <1>2 DEF SessionsInv

\* Once all is settled, what is not open said why, or is a device that one of
\* its bridges, not open itself, could lead to.
SaysWhy ==
    Quiet => \A d \in Devices :
        records[d] # "removed" =>
            \/ IsOpen(d) \/ refusal[d] # "none"
            \/ \E w \in WaysOf(d) : Bridged(w) /\ ~IsOpen(Through[w])

LEMMA QuietIsLoose ==
    ASSUME SessionsInv, Quiet, NEW d \in Devices, records[d] # "removed", ~IsOpen(d), refusal[d] = "none"
    PROVE  Loose(d)
<1>1. sync.at = "idle" /\ closing = {} /\ ~Coming
  BY QuietComesNone DEF Quiet
<1>2. opening[d] = NotOpening
  BY <1>1, NothingOpens DEF NoneOpening, SessionsInv
<1>3. ~Pending(d)
  BY <1>1 DEF Pending
<1>4. Says(d)
  BY DEF SessionsInv, SaysInv
<1> QED  BY <1>1, <1>2, <1>3, <1>4 DEF Says, Silent

\* A device that is not open says why, whatever a transport, an address or a
\* person does: or its bridge is what is not open, which says why in its turn
\* (sessions.ts:50-54).
THEOREM NoneSilent == Spec => []SaysWhy
<1>1. SessionsInv => SaysWhy
  BY QuietIsLoose DEF SaysWhy, Loose
<1> QED  BY <1>1, SessionsInvInit, SessionsInvStep, PTL DEF Spec

LEMMA LastingNeverAstray ==
    ASSUME LastingBridges
    PROVE  BridgesNeverAstray
BY DEF LastingBridges, BridgesNeverAstray

\* Once all is settled, each device is as the last sync was told: open only if
\* kept, by a way this holder has, and if it is not open it says why, its
\* bridge being kept (sessions.ts:50-54, 401-413): where bridges last.
THEOREM AsTold ==
    ASSUME LastingBridges
    PROVE  Spec => []SettledAsTold
<1>1. Init => SessionsInv /\ Awaited
  BY SessionsInvInit, AwaitedInit
<1>2. SessionsInv /\ Awaited /\ [Next]_vars => SessionsInv' /\ Awaited'
  BY SessionsInvStep, AwaitedStep, LastingNeverAstray DEF SessionsInv
<1>3. SessionsInv /\ Awaited => SettledAsTold
  <2> SUFFICES ASSUME SessionsInv, Awaited, Quiet, NEW d \in Devices
               PROVE  /\ IsOpen(d) => records[d] = "kept" /\ open[d].way \in Mine(d)
                      /\ records[d] # "removed" /\ ~BridgeLetGo(d) => IsOpen(d) \/ refusal[d] # "none"
    BY DEF SettledAsTold
  <2>1. ASSUME IsOpen(d)
        PROVE  records[d] = "kept" /\ open[d].way \in Mine(d)
    <3>1. records[d] = "kept" /\ Usual(open[d].way)
      BY <2>1 DEF SessionsInv, SyncInv, WantsKept, Quiet
    <3>2. open[d].way \in WaysOf(d) /\ open[d].way \in Ways
      BY <2>1, WaysKnown DEF SessionsInv, Typed, OwnWays
    <3>3. CASE ~Bridged(open[d].way)
      BY <3>1, <3>2, <3>3 DEF Mine, Usual
    <3>4. CASE Bridged(open[d].way)
      <4>1. MembersFollow
        BY FollowsWhenQuiet DEF SessionsInv
      <4>2. BridgeOf(open[d].way) > 0
        BY <2>1, <3>4, <4>1 DEF MembersFollow
      <4>3. IsOpen(Through[open[d].way])
        BY <3>2, <3>4, <4>2, BridgeNumbered DEF SessionsInv, Typed
      <4> QED  BY <3>1, <3>2, <3>4, <4>3 DEF Mine
    <3> QED  BY <3>1, <3>3, <3>4
  <2>2. ASSUME records[d] # "removed", ~BridgeLetGo(d), ~IsOpen(d), refusal[d] = "none"
        PROVE  FALSE
    <3>1. Loose(d)
      BY <2>2, QuietIsLoose
    <3> QED  BY <2>2, <3>1 DEF Loose, BridgeLetGo
  <2> QED  BY <2>1, <2>2
<1> QED  BY <1>1, <1>2, <1>3, PTL DEF Spec
-----------------------------------------------------------------------------
(* What waits on a person to sign in is left alone.                        *)

\* Only a way whose channel may go down is seen down or passed over.
FlakyOnly == down \cup avoided \subseteq Flaky /\ Ways \ up \subseteq Flaky

LEMMA FlakyInit ==
    ASSUME Init
    PROVE  FlakyOnly
BY DEF Init, FlakyOnly

LEMMA FlakyStep ==
    ASSUME Typed, FlakyOnly, [Next]_vars
    PROVE  FlakyOnly'
<1>1. CASE UNCHANGED <<down, avoided, up>>
  BY <1>1 DEF FlakyOnly
<1>2. ASSUME NEW d \in Devices, Opened(d)
      PROVE  FlakyOnly'
  <2>1. opening[d].way \in Ways
    BY <1>2, OpenedTyped, WaysKnown
  <2> QED  BY <1>2, <2>1 DEF Opened, Noted, FlakyOnly, world
<1>3. ASSUME NEW e \in look.left, GivesWay(e)
      PROVE  FlakyOnly'
  BY <1>3 DEF GivesWay, FlakyOnly, world
<1>4. ASSUME NEW w \in Ways, PassedOver(w) \/ Turns(w)
      PROVE  FlakyOnly'
  BY <1>4 DEF PassedOver, Turns, Noted, FlakyOnly, world
<1>5. ASSUME \/ SyncBegins \/ OpenDirect \/ OpenMembers \/ RoundEnds \/ LookEnds \/ Stop \/ Stopped \/ UNCHANGED vars
             \/ \E c \in closing : Closed(c)
             \/ \E due \in BOOLEAN : LookBegins(due)
             \/ \E e \in look.left : LooksWell(e) \/ LooksAstray(e)
             \/ \E w \in Ways : Prefer(w) \/ Strays(w)
             \/ \E c \in callers : CallerAsks(c)
      PROVE  UNCHANGED <<down, avoided, up>>
  BY <1>5 DEF SyncBegins, OpenDirect, OpenMembers, RoundEnds, LookEnds, Stop, Stopped, vars, manager, world,
              Closed, LookBegins, LooksWell, LooksAstray, Prefer, Strays, CallerAsks
<1>6. ASSUME NEW d \in Devices,
             \/ ShutStale(d) \/ Asks(d) \/ Verified(d) \/ SetSecrets(d)
             \/ \E out \in SUBSET Spotty : Choose(d, out)
             \/ \E why \in Refusals : OpenFails(d, why)
             \/ \E state \in States : Change(d, state)
      PROVE  UNCHANGED <<down, avoided, up>>
  BY <1>6 DEF ShutStale, Asks, Verified, SetSecrets, Choose, OpenFails, Change, world
<1> QED
  BY <1>1, <1>2, <1>3, <1>4, <1>5, <1>6 DEF Next

\* No session of a device that may ask a person is closed as another device's.
OwnAddress == \A c \in closing : c.elsewhere => c.dev \notin SigningIn

LEMMA OwnAddressStep ==
    ASSUME SteadyWays, Typed, Carried, OwnAddress, [Next]_vars
    PROVE  OwnAddress'
<1>1. CASE UNCHANGED closing
  BY <1>1 DEF OwnAddress
<1>2. ASSUME NEW c \in closing, Closed(c)
      PROVE  OwnAddress'
  <2> DEFINE f == [x \in closing |-> [x EXCEPT !.after = @ \ {c.epoch}]]
  <2>1. \A x \in closing : f[x].dev = x.dev /\ f[x].elsewhere = x.elsewhere
    BY DEF Typed, ClosingTyped, ToClose
  <2>2. closing' = {f[x] : x \in closing \ {c}}
    BY <1>2 DEF Closed
  <2> HIDE DEF f
  <2> QED  BY <2>1, <2>2 DEF OwnAddress
<1>3. ASSUME NEW d \in Devices, NEW elsewhere \in BOOLEAN, Shutting(d, elsewhere), elsewhere => d \notin SigningIn
      PROVE  OwnAddress'
  <2>1. closing' = closing \cup Closings(d, elsewhere)
    BY <1>3 DEF Shutting
  <2>2. ASSUME NEW c \in Closings(d, elsewhere), c.elsewhere
        PROVE  c.dev \notin SigningIn
    <3>1. IsOpen(d)
      BY DEF Closings
    <3> DEFINE own == [dev |-> d, epoch |-> open[d].epoch, behind |-> Members(d),
                       after |-> {open[m].epoch : m \in Members(d)}, elsewhere |-> elsewhere]
    <3> DEFINE other(m) == [dev |-> m, epoch |-> open[m].epoch, behind |-> {}, after |-> {},
                            elsewhere |-> FALSE]
    <3>2. c = own \/ \E m \in Members(d) : c = other(m)
      BY <3>1 DEF Closings
    <3>3. \A m \in Members(d) : other(m).elsewhere = FALSE
      OBVIOUS
    <3>4. own.dev = d /\ own.elsewhere = elsewhere
      OBVIOUS
    <3> HIDE DEF own, other
    <3> QED  BY <1>3, <2>2, <3>2, <3>3, <3>4
  <2> QED  BY <2>1, <2>2 DEF OwnAddress
<1>4. ASSUME NEW d \in Devices, IsOpen(d), open[d].way \in astray
      PROVE  d \notin SigningIn
  <2>1. open[d].way \in WaysOf(d) /\ open[d].way \in Astray
    BY <1>4 DEF Typed, OwnWays, Carried
  <2> QED  BY <2>1 DEF SteadyWays
<1>5. ASSUME NEW d \in Devices, ShutStale(d) \/ SetSecrets(d)
      PROVE  OwnAddress'
  BY <1>3, <1>5 DEF ShutStale, SetSecrets, Closing
<1>6. ASSUME NEW d \in Devices, Verified(d)
      PROVE  OwnAddress'
  BY <1>3, <1>4, <1>6 DEF Verified, Closing
<1>7. ASSUME NEW e \in look.left, LooksAstray(e) \/ GivesWay(e)
      PROVE  OwnAddress'
  <2>1. e[1] \in Devices
    BY DEF Typed, LookTyped, LooksAt
  <2>2. CASE LooksAstray(e)
    BY <1>3, <1>4, <2>1, <2>2 DEF LooksAstray, Closing
  <2>3. CASE GivesWay(e)
    BY <1>3, <2>1, <2>3 DEF GivesWay, Closing
  <2> QED  BY <1>7, <2>2, <2>3
<1>8. CASE Stop
  <2>1. \A d \in Roots : \A c \in Closings(d, FALSE) : c.elsewhere = FALSE
    <3> TAKE d \in Roots
    <3> TAKE c \in Closings(d, FALSE)
    <3>1. IsOpen(d)
      BY DEF Roots
    <3> QED  BY <3>1 DEF Closings
  <2>2. closing' = closing \cup UNION {Closings(d, FALSE) : d \in Roots}
    BY <1>8 DEF Stop, Roots
  <2> QED  BY <2>1, <2>2 DEF OwnAddress
<1>9. ASSUME \/ SyncBegins \/ OpenDirect \/ OpenMembers \/ RoundEnds \/ LookEnds \/ Stopped \/ UNCHANGED vars
             \/ \E due \in BOOLEAN : LookBegins(due)
             \/ \E e \in look.left : LooksWell(e)
             \/ \E w \in Ways : PassedOver(w) \/ Prefer(w) \/ Turns(w) \/ Strays(w)
             \/ \E c \in callers : CallerAsks(c)
      PROVE  UNCHANGED closing
  BY <1>9 DEF SyncBegins, OpenDirect, OpenMembers, RoundEnds, LookEnds, Stopped, vars, manager,
              LookBegins, LooksWell, PassedOver, Prefer, Turns, Strays, CallerAsks
<1>10. ASSUME NEW d \in Devices,
              \/ Asks(d) \/ Opened(d)
              \/ \E out \in SUBSET Spotty : Choose(d, out)
              \/ \E why \in Refusals : OpenFails(d, why)
              \/ \E state \in States : Change(d, state)
       PROVE  UNCHANGED closing
  BY <1>10 DEF Asks, Opened, Choose, OpenFails, Change
<1> QED
  BY <1>1, <1>2, <1>5, <1>6, <1>7, <1>8, <1>9, <1>10 DEF Next

\* A device a person was asked to sign in to says so, and neither is open nor
\* opens; and no sync under way has it in hand to open, or to forget.
LeftAlone(d) ==
    /\ d \in SigningIn /\ refusal[d] = "signin" /\ ~IsOpen(d) /\ opening[d] = NotOpening
    /\ sync.at = "direct" /\ d \in sync.tried => ~Bridged(sync.wanted[d])
    /\ sync.at = "choosing" /\ d \notin ToChoose => records[d] = "kept"

AskedLeftAlone == \A d \in asked : LeftAlone(d)

\* A steady way is always there to choose.
LEMMA SteadyIsChosen ==
    ASSUME SteadyWays, FlakyOnly, NEW d \in SigningIn, NEW out \in SUBSET Spotty
    PROVE  ~BehindPaused(d) /\ Usable(d, out) # {}
<1>1. PICK w \in WaysOf(d) : ~Bridged(w) /\ w \in Held \ (Spotty \cup Flaky)
  BY DEF SteadyWays
<1>2. w \in Mine(d) /\ w \notin avoided /\ w \notin out
  BY <1>1 DEF Mine, FlakyOnly
<1> QED  BY <1>1, <1>2 DEF BehindPaused, Usable

\* Who is asked: only the device whose opening just said so.
LEMMA AskedSteps ==
    ASSUME Typed, [Next]_vars
    PROVE  asked' \subseteq asked \/ \E d \in Devices : OpenFails(d, "signin") /\ asked' = asked \cup {d}
<1>1. ASSUME NEW d \in Devices, NEW why \in Refusals, OpenFails(d, why)
      PROVE  asked' \subseteq asked \/ (OpenFails(d, "signin") /\ asked' = asked \cup {d})
  BY <1>1 DEF OpenFails
<1>2. ASSUME NEW d \in Devices,
             \/ ShutStale(d) \/ Asks(d) \/ Opened(d) \/ Verified(d) \/ SetSecrets(d)
             \/ \E out \in SUBSET Spotty : Choose(d, out)
             \/ \E state \in States : Change(d, state)
      PROVE  asked' \subseteq asked
  BY <1>2 DEF ShutStale, Asks, Opened, Verified, SetSecrets, Choose, Change
<1>3. ASSUME \/ SyncBegins \/ OpenDirect \/ OpenMembers \/ RoundEnds \/ LookEnds \/ Stop \/ Stopped \/ UNCHANGED vars
             \/ \E c \in closing : Closed(c)
             \/ \E due \in BOOLEAN : LookBegins(due)
             \/ \E e \in look.left : LooksWell(e) \/ LooksAstray(e) \/ GivesWay(e)
             \/ \E w \in Ways : PassedOver(w) \/ Prefer(w) \/ Turns(w) \/ Strays(w)
             \/ \E c \in callers : CallerAsks(c)
      PROVE  asked' \subseteq asked
  BY <1>3 DEF SyncBegins, OpenDirect, OpenMembers, RoundEnds, LookEnds, Stop, Stopped, vars, manager,
              Closed, LookBegins, LooksWell, LooksAstray, GivesWay, PassedOver, Prefer, Turns, Strays, CallerAsks
<1> QED
  BY <1>1, <1>2, <1>3 DEF Next

\* What a person was asked about goes on saying so.
LEMMA GoesOnAsking ==
    ASSUME SteadyWays, Typed, SyncInv, Carried, FlakyOnly, OwnAddress, AskedLeftAlone, [Next]_vars,
           NEW d \in asked, d \in asked'
    PROVE  refusal'[d] = "signin"
<1>1. d \in Devices /\ LeftAlone(d)
  BY DEF AskedLeftAlone, Typed, RestTyped
<1>2. d \in SigningIn /\ refusal[d] = "signin" /\ ~IsOpen(d) /\ opening[d] = NotOpening
  BY <1>1 DEF LeftAlone
<1>3. refusal \in [Devices -> Refusals]
  BY DEF Typed, RestTyped
<1>4. CASE UNCHANGED refusal
  BY <1>2, <1>4
<1>5. ASSUME NEW c \in closing, Closed(c)
      PROVE  refusal'[d] = "signin"
  BY <1>1, <1>2, <1>5 DEF Closed, OwnAddress
<1>6. ASSUME NEW x \in Devices, NEW out \in SUBSET Spotty, Choose(x, out)
      PROVE  refusal'[d] = "signin"
  <2>1. CASE x # d
    BY <1>1, <1>2, <1>6, <2>1, ChosenWay
  <2>2. CASE x = d
    <3>1. records[d] = "kept"
      <4>1. asked' = IF records[x] = "kept" THEN asked ELSE asked \ {x}
        BY <1>6 DEF Choose
      <4> QED  BY <2>2, <4>1
    <3>2. ~BehindPaused(d) /\ Usable(d, out) # {}
      BY <1>2, SteadyIsChosen
    <3>3. refusal' = [refusal EXCEPT ![x] =
                 IF (records[x] = "kept" /\ ~BehindPaused(x) /\ Usable(x, out) # {}) \/ records[x] = "removed" THEN @
                 ELSE IF records[x] = "paused" \/ BehindPaused(x) THEN "paused"
                 ELSE IF Mine(x) = {} THEN "offline"
                 ELSE "retry"]
      BY <1>6 DEF Choose
    <3>4. refusal'[d] = refusal[d]
      BY <1>1, <1>3, <2>2, <3>1, <3>2, <3>3
    <3> QED  BY <1>2, <3>4
  <2> QED  BY <2>1, <2>2
<1>7. CASE OpenDirect
  <2>1. records[d] = "kept"
    <3>1. sync.at = "choosing" /\ d \notin ToChoose
      BY <1>7 DEF OpenDirect, ToChoose
    <3> QED  BY <1>1, <3>1 DEF LeftAlone
  <2>2. d \notin ToOpen
    BY <1>2 DEF ToOpen
  <2> QED  BY <1>1, <1>2, <1>7, <2>1, <2>2 DEF OpenDirect
<1>8. CASE OpenMembers
  <2>1. ~(d \in sync.tried /\ BridgeOf(sync.wanted[d]) > 0)
    <3>1. d \in sync.tried => ~Bridged(sync.wanted[d])
      BY <1>1, <1>8 DEF OpenMembers, LeftAlone
    <3> QED  BY <1>8, <3>1, MembersOpen
  <2> QED  BY <1>1, <1>2, <1>8, <2>1 DEF OpenMembers
<1>9. ASSUME NEW x \in Devices, NEW why \in Refusals, OpenFails(x, why)
      PROVE  refusal'[d] = "signin"
  <2>1. x # d
    BY <1>2, <1>9 DEF OpenFails, NotOpening
  <2> QED  BY <1>1, <1>2, <1>3, <1>9, <2>1 DEF OpenFails
<1>10. ASSUME NEW x \in Devices, NEW elsewhere, Closing(x, elsewhere), x # d
       PROVE  refusal'[d] = "signin"
  BY <1>1, <1>2, <1>3, <1>10 DEF Closing
<1>11. ASSUME NEW x \in Devices, Verified(x)
       PROVE  refusal'[d] = "signin"
  BY <1>2, <1>10, <1>11 DEF Verified
<1>12. ASSUME NEW x \in Devices, SetSecrets(x)
       PROVE  refusal'[d] = "signin"
  BY <1>10, <1>12 DEF SetSecrets
<1>13. ASSUME NEW e \in look.left, LooksAstray(e) \/ GivesWay(e)
       PROVE  refusal'[d] = "signin"
  <2>1. e[1] \in Devices
    BY DEF Typed, LookTyped, LooksAt
  <2> QED  BY <1>2, <1>10, <1>13, <2>1 DEF LooksAstray, GivesWay
<1>14. CASE Stop
  BY <1>1, <1>2, <1>14 DEF Stop
<1>15. CASE Stopped
  BY <1>15 DEF Stopped
<1>16. ASSUME \/ SyncBegins \/ RoundEnds \/ LookEnds \/ UNCHANGED vars
              \/ \E e \in look.left : LooksWell(e)
              \/ \E due \in BOOLEAN : LookBegins(due)
              \/ \E v \in Ways : PassedOver(v) \/ Prefer(v) \/ Turns(v) \/ Strays(v)
              \/ \E c \in callers : CallerAsks(c)
              \/ \E x \in Devices, state \in States : Change(x, state)
              \/ \E x \in Devices : ShutStale(x) \/ Asks(x) \/ Opened(x)
       PROVE  UNCHANGED refusal
  BY <1>16 DEF SyncBegins, RoundEnds, LookEnds, vars, manager, LooksWell, LookBegins, PassedOver, Prefer,
               Turns, Strays, CallerAsks, Change, ShutStale, Asks, Opened
<1> QED
  BY <1>4, <1>5, <1>6, <1>7, <1>8, <1>9, <1>11, <1>12, <1>13, <1>14, <1>15, <1>16 DEF Next

\* What a person was asked about is not tried again.
LEMMA GoesUntried ==
    ASSUME Typed, SyncInv, AskedLeftAlone, [Next]_vars, NEW d \in asked
    PROVE  opening'[d] = NotOpening /\ ~IsOpen(d)'
<1>1. d \in Devices /\ LeftAlone(d)
  BY DEF AskedLeftAlone, Typed, RestTyped
<1>2. refusal[d] = "signin" /\ ~IsOpen(d) /\ opening[d] = NotOpening /\ open[d] = Shut
  BY <1>1 DEF LeftAlone, Typed, OwnWays
<1>3. opening \in [Devices -> ToOpenIt]
  BY DEF Typed, OpenTyped
<1>4. opening'[d] = NotOpening
  <2>1. CASE UNCHANGED opening
    BY <1>2, <2>1
  <2>2. CASE OpenDirect
    <3>1. d \notin ToOpen
      BY <1>2 DEF ToOpen
    <3> QED  BY <1>1, <2>2, <3>1, DirectOpens
  <2>3. CASE OpenMembers
    <3>1. d \in sync.tried => ~Bridged(sync.wanted[d])
      BY <1>1, <2>3, MembersOpen DEF LeftAlone
    <3>2. ~(d \in sync.tried /\ BridgeOf(sync.wanted[d]) > 0)
      BY <2>3, <3>1, MembersOpen
    <3> QED  BY <1>1, <2>3, <3>2, MembersOpen
  <2>4. ASSUME NEW x \in Devices, Asks(x) \/ Opened(x) \/ \E why \in Refusals : OpenFails(x, why)
        PROVE  opening'[d] = NotOpening
    <3>1. x # d
      BY <1>2, <2>4 DEF Asks, Opened, OpenFails, NotOpening
    <3>2. opening'[d] = opening[d]
      BY <1>1, <1>3, <2>4, <3>1 DEF Asks, Opened, OpenFails
    <3> QED  BY <1>2, <3>2
  <2>5. ASSUME \/ SyncBegins \/ RoundEnds
               \/ \E x \in Devices : ShutStale(x) \/ \E out \in SUBSET Spotty : Choose(x, out)
        PROVE  UNCHANGED opening
    BY <2>5 DEF SyncBegins, RoundEnds, ShutStale, Choose
  <2> QED  BY <2>1, <2>2, <2>3, <2>4, <2>5, StepKinds DEF SyncSteps, Beside
<1>5. ~IsOpen(d)'
  <2>1. CASE Dwindles
    BY <1>1, <1>2, <2>1 DEF Dwindles, IsOpen, Shut
  <2>2. ASSUME NEW x \in Devices, Opened(x)
        PROVE  ~IsOpen(d)'
    <3>1. x # d
      BY <1>2, <2>2 DEF Opened, NotOpening
    <3>2. open'[d] = open[d]
      BY <1>1, <2>2, <3>1 DEF Opened, Typed, OpenTyped
    <3> QED  BY <1>2, <3>2 DEF IsOpen
  <2> QED  BY <2>1, <2>2, OpenSteps
<1> QED  BY <1>4, <1>5

\* No sync takes it in hand: what it is to try is not what waits on a person,
\* and what waits on one and is not kept is forgotten as its way is chosen.
LEMMA GoesUnwanted ==
    ASSUME Typed, SyncInv, AskedLeftAlone, [Next]_vars, NEW d \in asked, d \in asked'
    PROVE  /\ sync'.at = "direct" /\ d \in sync'.tried => ~Bridged(sync'.wanted[d])
           /\ sync'.at = "choosing" /\ d \notin ToChoose' => records'[d] = "kept"
<1>1. d \in Devices /\ LeftAlone(d)
  BY DEF AskedLeftAlone, Typed, RestTyped
<1>2. ASSUME sync'.at = "direct", d \in sync'.tried
      PROVE  ~Bridged(sync'.wanted[d])
  <2>1. CASE OpenDirect
    <3>1. d \notin ToOpen
      BY <1>1 DEF LeftAlone, ToOpen
    <3> QED  BY <1>2, <2>1, <3>1, DirectOpens
  <2>2. CASE sync' = sync
    BY <1>1, <1>2, <2>2 DEF LeftAlone
  <2>3. ASSUME \/ SyncBegins \/ RoundEnds \/ OpenMembers
               \/ \E x \in Devices : ShutStale(x) \/ \E out \in SUBSET Spotty : Choose(x, out)
        PROVE  FALSE
    <3>1. CASE SyncBegins \/ RoundEnds
      BY <1>2, <3>1, BeginsAfresh
    <3>2. CASE OpenMembers
      BY <1>2, <3>2, MembersOpen
    <3>3. ASSUME NEW x \in Devices, ShutStale(x) \/ \E out \in SUBSET Spotty : Choose(x, out)
          PROVE  sync'.at = "choosing"
      BY <3>3 DEF ShutStale, Choose, Typed, SyncTyped, Syncs
    <3> QED  BY <1>2, <2>3, <3>1, <3>2, <3>3
  <2>4. ASSUME NEW x \in Devices, Asks(x) \/ Opened(x) \/ \E why \in Refusals : OpenFails(x, why)
        PROVE  sync' = sync
    BY <2>4 DEF Asks, Opened, OpenFails
  <2> QED  BY <2>1, <2>2, <2>3, <2>4, StepKinds DEF SyncSteps, Beside
<1>3. ASSUME sync'.at = "choosing", d \notin ToChoose'
      PROVE  records'[d] = "kept"
  <2>1. CASE ToChoose' = Devices
    BY <1>1, <1>3, <2>1
  <2>2. ASSUME NEW x \in Devices, NEW out \in SUBSET Spotty, Choose(x, out)
        PROVE  records'[d] = "kept"
    <3>1. sync.at = "choosing" /\ UNCHANGED records
      BY <2>2 DEF Choose
    <3>2. asked' = IF records[x] = "kept" THEN asked ELSE asked \ {x}
      BY <2>2 DEF Choose
    <3>3. CASE x = d
      BY <3>1, <3>2, <3>3
    <3>4. CASE x # d
      BY <1>1, <1>3, <2>2, <3>1, <3>4, ChoiceMade DEF LeftAlone
    <3> QED  BY <3>3, <3>4
  <2>3. CASE sync.at = "choosing" /\ sync'.left = sync.left /\ UNCHANGED records
    BY <1>1, <1>3, <2>3 DEF LeftAlone, ToChoose
  <2> QED  BY <1>3, <2>1, <2>2, <2>3, RoundSteps
<1> QED  BY <1>2, <1>3

LEMMA LeftAloneInit ==
    ASSUME Init
    PROVE  AskedLeftAlone /\ OwnAddress
BY DEF Init, AskedLeftAlone, OwnAddress

\* A device that just asked a person was being opened, and is let be.
LEMMA LeftAloneOnceAsked ==
    ASSUME Typed, SyncInv, NEW d \in Devices, OpenFails(d, "signin")
    PROVE  LeftAlone(d)'
<1>1. opening[d].way # NoWay /\ "signin" \in Failure(d)
  BY DEF OpenFails
<1>2. d \in SigningIn
  BY <1>1 DEF Failure
<1>3. opening'[d] = NotOpening /\ refusal'[d] = "signin" /\ UNCHANGED <<sync, open>>
  BY DEF OpenFails, Typed, OpenTyped, RestTyped
<1>4. opening[d] # NotOpening
  BY <1>1 DEF NotOpening
<1>5. /\ ~IsOpen(d) /\ opening[d].way = sync.wanted[d]
      /\ sync.at = "members" <=> Bridged(opening[d].way)
  BY <1>4 DEF SyncInv, OpensInTurn
<1>6. sync.at # "choosing"
  BY <1>4, NothingOpens DEF NoneOpening
<1> QED  BY <1>2, <1>3, <1>5, <1>6 DEF LeftAlone, IsOpen

LEMMA LeftAloneStep ==
    ASSUME SteadyWays, Typed, SyncInv, Carried, FlakyOnly, OwnAddress, AskedLeftAlone, [Next]_vars
    PROVE  AskedLeftAlone'
<1> SUFFICES ASSUME NEW d \in asked'
             PROVE  LeftAlone(d)'
  BY DEF AskedLeftAlone
<1>1. CASE d \in asked
  <2>1. d \in SigningIn
    BY <1>1 DEF AskedLeftAlone, LeftAlone
  <2>2. refusal'[d] = "signin"
    BY <1>1, GoesOnAsking
  <2>3. opening'[d] = NotOpening /\ ~IsOpen(d)'
    BY <1>1, GoesUntried
  <2>4. /\ sync'.at = "direct" /\ d \in sync'.tried => ~Bridged(sync'.wanted[d])
        /\ sync'.at = "choosing" /\ d \notin ToChoose' => records'[d] = "kept"
    BY <1>1, GoesUnwanted
  <2> QED  BY <2>1, <2>2, <2>3, <2>4 DEF LeftAlone
<1>2. CASE d \notin asked
  <2>1. PICK x \in Devices : OpenFails(x, "signin") /\ asked' = asked \cup {x}
    BY <1>2, AskedSteps
  <2> QED  BY <1>2, <2>1, LeftAloneOnceAsked
<1> QED  BY <1>1, <1>2

\* A device that asked a person to sign in again is not tried again, and is not
\* open, until they did something (sessions.ts:420): where the device has a way
\* that stays, so that no later sync says anything else of it.
THEOREM PersonWaitedFor ==
    ASSUME SteadyWays
    PROVE  Spec => []WaitsOnPerson
<1> DEFINE Waiting == SessionsInv /\ FlakyOnly /\ OwnAddress /\ AskedLeftAlone
<1>1. Init => Waiting
  BY SessionsInvInit, FlakyInit, LeftAloneInit
<1>2. Waiting /\ [Next]_vars => Waiting'
  <2> SUFFICES ASSUME Waiting, [Next]_vars
               PROVE  Waiting'
    OBVIOUS
  <2>1. SessionsInv'
    BY SessionsInvStep
  <2>2. FlakyOnly'
    BY FlakyStep DEF SessionsInv
  <2>3. OwnAddress'
    BY OwnAddressStep DEF SessionsInv
  <2>4. AskedLeftAlone'
    BY LeftAloneStep DEF SessionsInv
  <2> QED  BY <2>1, <2>2, <2>3, <2>4
<1>3. Waiting => WaitsOnPerson
  BY DEF AskedLeftAlone, LeftAlone, WaitsOnPerson
<1> QED  BY <1>1, <1>2, <1>3, PTL DEF Spec
=============================================================================
