----------------------------- MODULE RunsProofs -----------------------------
(* What is proved of the runs of automations, whatever the automations do  *)
(* and however many there are.                                             *)
EXTENDS Runs, TLAPS, SequenceTheorems

-----------------------------------------------------------------------------
(* The callbacks to come.                                                  *)

\* The callbacks in a queue.
In(js) == {js[i] : i \in DOMAIN js}

\* Those that carry a run on: a run has at most one, and where it stands says which.
Carriers == {"run", "walk", "attach", "begun", "quit", "stopchild", "then", "ended", "finally"}

Carries(j) == j.do \in Carriers

\* The runs that a queue carries on.
Carried(js) == {j.run : j \in {k \in In(js) : Carries(k)}}

\* No run is carried on twice.
Once(js) ==
  \A n, m \in DOMAIN js :
    Carries(js[n]) /\ Carries(js[m]) /\ js[n].run = js[m].run => n = m

\* Where a run stands while a callback of it is to come.
Due(do, run) ==
  \/ do \in {"childend", "caught", "fresh"}
  \/ do = "run" /\ run.stage = "deciding"
  \/ do = "walk" /\ run.stage = "stepping" /\ run.step = "none"
  \/ do = "attach" /\ run.stage = "stepping" /\ run.step = "starting"
  \/ do = "begun" /\ run.stage = "stepping" /\ run.step = "beginning"
  \/ do \in {"quit", "stopchild"} /\ run.stage = "stepping" /\ run.step = "woken"
  \/ do \in {"then", "ended", "finally"} /\ run.stage = "settled"

\* A run hears that the one it started has begun when it has, or has ended unbegun and nobody
\* is to say so again.
HeardOnce(js, rs) ==
  \A j \in In(js) : j.do = "begun" =>
    LET c == rs[j.run].child IN
    /\ c \in DOMAIN rs
    /\ rs[c].at > 0 \/ (rs[c].stage \in {"settled", "over"} /\ Job("then", c) \notin In(js))

\* What is to come fits where the runs stand.
Sound(js, rs) ==
  /\ js \in Seq([do : JobKinds, run : DOMAIN rs])
  /\ Once(js)
  /\ \A j \in In(js) : Due(j.do, rs[j.run])
  /\ HeardOnce(js, rs)

\* Where a run may stand, of n there have been: a step only while it takes steps, and nothing
\* taken yet by one that decides.
Stands(run, n) ==
  /\ run.parent \in 0..n /\ run.child \in 0..n
  /\ run.stage = "deciding" => run.at = 0 /\ ~run.gone
  /\ \/ run.step = "none" \/ run.stage = "stepping"
     \/ run.stage = "falling" /\ run.step \in {"acting", "pausing"}
  /\ run.step \in {"starting", "beginning"} => run.child # Nobody

\* Its row says it is running just while it holds its parts.
SaysRight(run) ==
  run.row = "running" <=> run.stage \in {"stepping", "falling"} /\ run.of \in Sequences /\ ~run.gone

\* One run of each automation is under way at most, and it keeps every other out.
OneEach(rs, live) ==
  \A r \in DOMAIN rs : rs[r].stage # "over" =>
    /\ rs[r].of \in live
    /\ \A q \in DOMAIN rs : rs[q].of = rs[r].of /\ rs[q].stage # "over" => q = r

\* What is to come, what has run and what keeps others out fit together.
Fit(js, rs, live) ==
  /\ rs \in Seq(RunRecords) /\ live \subseteq Automations
  /\ Sound(js, rs)
  /\ \A r \in DOMAIN rs : Stands(rs[r], Len(rs)) /\ SaysRight(rs[r])
  /\ OneEach(rs, live)

\* While the server is down nothing is under way.
Idle ==
  jobs = <<>> /\ \A r \in DOMAIN runs : ~Active(r) /\ Stands(runs[r], Len(runs))

RunsInv == TypeOK /\ IF up THEN Fit(jobs, runs, running) ELSE Idle

-----------------------------------------------------------------------------
(* Queues of callbacks, put together and taken apart.                      *)

LEMMA OneOf ==
  ASSUME NEW S, NEW j \in S
  PROVE  <<j>> \in Seq(S) /\ In(<<j>>) = {j} /\ Once(<<j>>)
<1>1. <<j>> \in Seq(S) /\ DOMAIN <<j>> = {1} /\ <<j>>[1] = j
  OBVIOUS
<1> QED  BY <1>1 DEF In, Once

\* Two queues one after the other.
LEMMA Joined ==
  ASSUME NEW S, NEW s \in Seq(S), NEW t \in Seq(S)
  PROVE  /\ s \o t \in Seq(S) /\ In(s \o t) = In(s) \cup In(t)
         /\ Carried(s \o t) = Carried(s) \cup Carried(t)
         /\ Once(s) /\ Once(t) /\ Carried(s) \cap Carried(t) = {} => Once(s \o t)
<1>1. /\ s \o t \in Seq(S) /\ Len(s \o t) = Len(s) + Len(t)
      /\ \A i \in 1..Len(s) + Len(t) : (s \o t)[i] = IF i <= Len(s) THEN s[i] ELSE t[i - Len(s)]
  BY ConcatProperties
<1>2. /\ Len(s) \in Nat /\ DOMAIN s = 1..Len(s) /\ Len(t) \in Nat /\ DOMAIN t = 1..Len(t)
      /\ DOMAIN (s \o t) = 1..Len(s) + Len(t)
  BY <1>1, LenProperties
<1> DEFINE u == s \o t
<1> HIDE DEF u
<1>3. \A i \in DOMAIN s : i \in DOMAIN u /\ u[i] = s[i]
  BY <1>1, <1>2 DEF u
<1>4. \A i \in DOMAIN t : Len(s) + i \in DOMAIN u /\ u[Len(s) + i] = t[i]
  <2>1. TAKE i \in DOMAIN t
  <2>2. Len(s) + i \in 1..Len(s) + Len(t) /\ ~ (Len(s) + i <= Len(s)) /\ Len(s) + i - Len(s) = i
    BY <1>2
  <2> QED  BY <1>1, <1>2, <2>2 DEF u
<1>5. ASSUME NEW i \in DOMAIN u
      PROVE  \/ i \in DOMAIN s /\ u[i] = s[i]
             \/ i - Len(s) \in DOMAIN t /\ u[i] = t[i - Len(s)]
  <2>1. i \in 1..Len(s) + Len(t) /\ u[i] = IF i <= Len(s) THEN s[i] ELSE t[i - Len(s)]
    BY <1>1, <1>2 DEF u
  <2>2. CASE i <= Len(s)
    BY <1>2, <2>1, <2>2
  <2>3. CASE ~ (i <= Len(s))
    <3>1. i - Len(s) \in 1..Len(t)
      BY <1>2, <2>1, <2>3
    <3> QED  BY <1>2, <2>1, <2>3, <3>1
  <2> QED  BY <2>2, <2>3
<1>6. In(u) = In(s) \cup In(t)
  <2>1. In(u) \subseteq In(s) \cup In(t)
    BY <1>5 DEF In
  <2>2. In(s) \subseteq In(u)
    BY <1>3 DEF In
  <2>3. In(t) \subseteq In(u)
    BY <1>4 DEF In
  <2> QED  BY <2>1, <2>2, <2>3
<1>7. Carried(u) = Carried(s) \cup Carried(t)
  BY <1>6 DEF Carried
<1>8. ASSUME Once(s), Once(t), Carried(s) \cap Carried(t) = {}
      PROVE  Once(u)
  <2> SUFFICES ASSUME NEW n \in DOMAIN u, NEW m \in DOMAIN u,
                      Carries(u[n]), Carries(u[m]), u[n].run = u[m].run
               PROVE  n = m
    BY DEF Once
  <2>1. \A i \in DOMAIN s : Carries(s[i]) => s[i].run \in Carried(s)
    BY DEF Carried, In
  <2>2. \A i \in DOMAIN t : Carries(t[i]) => t[i].run \in Carried(t)
    BY DEF Carried, In
  <2>3. CASE n \in DOMAIN s /\ u[n] = s[n] /\ m \in DOMAIN s /\ u[m] = s[m]
    BY <1>8, <2>3 DEF Once
  <2>4. CASE n - Len(s) \in DOMAIN t /\ u[n] = t[n - Len(s)] /\ m - Len(s) \in DOMAIN t /\ u[m] = t[m - Len(s)]
    <3>1. n - Len(s) = m - Len(s)
      BY <1>8, <2>4 DEF Once
    <3>2. n \in Int /\ m \in Int
      BY <1>2 DEF u
    <3> QED  BY <1>2, <3>1, <3>2
  <2>5. CASE n \in DOMAIN s /\ u[n] = s[n] /\ m - Len(s) \in DOMAIN t /\ u[m] = t[m - Len(s)]
    BY <1>8, <2>1, <2>2, <2>5
  <2>6. CASE n - Len(s) \in DOMAIN t /\ u[n] = t[n - Len(s)] /\ m \in DOMAIN s /\ u[m] = s[m]
    BY <1>8, <2>1, <2>2, <2>6
  <2> QED  BY <1>5, <2>3, <2>4, <2>5, <2>6
<1> QED  BY <1>1, <1>6, <1>7, <1>8 DEF u

\* The first callback taken: it is the only one that carries its run on.
LEMMA Taking ==
  ASSUME NEW S, NEW s \in Seq(S), s # <<>>
  PROVE  /\ Head(s) \in S /\ Head(s) \in In(s) /\ Tail(s) \in Seq(S) /\ In(Tail(s)) \subseteq In(s)
         /\ Once(s) => Once(Tail(s)) /\ (Carries(Head(s)) => Head(s).run \notin Carried(Tail(s)))
<1>1. /\ Head(s) \in S /\ Tail(s) \in Seq(S) /\ Len(Tail(s)) = Len(s) - 1
      /\ \A i \in 1..Len(Tail(s)) : Tail(s)[i] = s[i + 1]
  BY HeadTailProperties
<1>2. /\ Len(s) \in Nat /\ DOMAIN s = 1..Len(s) /\ DOMAIN Tail(s) = 1..Len(Tail(s)) /\ Len(s) # 0
      /\ Head(s) = s[1] /\ 1 \in DOMAIN s
  BY <1>1, LenProperties, EmptySeq
<1> DEFINE t == Tail(s)
<1> HIDE DEF t
<1>3. \A i \in DOMAIN t : i \in Nat \ {0} /\ i + 1 \in DOMAIN s /\ t[i] = s[i + 1]
  <2>1. \A i \in 1..Len(t) : i \in Nat \ {0} /\ i + 1 \in 1..Len(s)
    BY <1>1, <1>2 DEF t
  <2> QED  BY <1>1, <1>2, <2>1 DEF t
<1>4. In(t) \subseteq In(s) /\ Head(s) \in In(s)
  BY <1>2, <1>3 DEF In
<1>5. ASSUME Once(s)
      PROVE  Once(t) /\ (Carries(Head(s)) => Head(s).run \notin Carried(t))
  <2>1. Once(t)
    <3> SUFFICES ASSUME NEW n \in DOMAIN t, NEW m \in DOMAIN t,
                        Carries(t[n]), Carries(t[m]), t[n].run = t[m].run
                 PROVE  n = m
      BY DEF Once
    <3>1. n + 1 = m + 1
      BY <1>3, <1>5 DEF Once
    <3> QED  BY <1>3, <3>1
  <2>2. ASSUME Carries(Head(s)), Head(s).run \in Carried(t)
        PROVE  FALSE
    <3>1. PICK i \in DOMAIN t : Carries(t[i]) /\ t[i].run = Head(s).run
      BY <2>2 DEF Carried, In
    <3>2. i + 1 = 1
      BY <1>2, <1>3, <1>5, <2>2, <3>1 DEF Once
    <3> QED  BY <1>3, <3>2
  <2> QED  BY <2>1, <2>2
<1> QED  BY <1>1, <1>4, <1>5 DEF t

\* Nothing is to come.
LEMMA NoneToCome ==
  ASSUME NEW rs
  PROVE  Sound(<<>>, rs) /\ Carried(<<>>) = {} /\ In(<<>>) = {}
BY DEF Sound, Once, In, Carried, HeardOnce

-----------------------------------------------------------------------------
(* A queue that fits, and what may be put to it.                           *)

\* Run r may go on to where no other waits for it to be: it moves only while nothing carries it.
LEMMA RestSound ==
  ASSUME NEW js, NEW rs, NEW rs2, NEW r, Sound(js, rs),
         r \in Carried(js) => /\ rs2[r].stage = rs[r].stage /\ rs2[r].step = rs[r].step
                              /\ rs2[r].child = rs[r].child,
         DOMAIN rs \subseteq DOMAIN rs2,
         \A q \in DOMAIN rs \ {r} : rs2[q] = rs[q],
         r \in DOMAIN rs => /\ rs[r].at > 0 => rs2[r].at > 0
                            /\ rs[r].stage \in {"settled", "over"} => rs2[r].stage \in {"settled", "over"}
  PROVE  Sound(js, rs2)
<1>1. js \in Seq([do : JobKinds, run : DOMAIN rs2])
  <2>1. [do : JobKinds, run : DOMAIN rs] \subseteq [do : JobKinds, run : DOMAIN rs2]
    OBVIOUS
  <2> QED  BY <2>1, SeqMonotonic DEF Sound
<1>2. \A j \in In(js) : j.run \in DOMAIN rs /\ (Carries(j) => j.run \in Carried(js))
  <2>1. js \in Seq([do : JobKinds, run : DOMAIN rs])
    BY DEF Sound
  <2>2. \A i \in DOMAIN js : js[i] \in [do : JobKinds, run : DOMAIN rs]
    BY <2>1, LenProperties, ElementOfSeq
  <2>3. \A j \in In(js) : j.run \in DOMAIN rs
    BY <2>2 DEF In
  <2>4. \A j \in In(js) : Carries(j) => j.run \in Carried(js)
    BY DEF Carried
  <2> QED  BY <2>3, <2>4
<1>3. \A j \in In(js) : Due(j.do, rs2[j.run])
  <2> SUFFICES ASSUME NEW j \in In(js)
               PROVE  Due(j.do, rs2[j.run])
    OBVIOUS
  <2>1. Due(j.do, rs[j.run])
    BY DEF Sound
  <2>2. CASE j.run = r
    <3>1. ~ Carries(j) \/ r \in Carried(js)
      BY <1>2, <2>2
    <3> QED  BY <2>1, <2>2, <3>1 DEF Due, Carries, Carriers
  <2>3. CASE j.run # r
    BY <1>2, <2>1, <2>3
  <2> QED  BY <2>2, <2>3
<1>4. HeardOnce(js, rs2)
  <2> SUFFICES ASSUME NEW j \in In(js), j.do = "begun"
               PROVE  /\ rs2[j.run].child \in DOMAIN rs2
                      /\ \/ rs2[rs2[j.run].child].at > 0
                         \/ /\ rs2[rs2[j.run].child].stage \in {"settled", "over"}
                            /\ Job("then", rs2[j.run].child) \notin In(js)
    BY DEF HeardOnce
  <2>1. Carries(j)
    BY DEF Carries, Carriers
  <2>2. rs2[j.run].child = rs[j.run].child
    BY <1>2, <2>1
  <2> DEFINE c == rs[j.run].child
  <2>3. /\ c \in DOMAIN rs
        /\ rs[c].at > 0 \/ (rs[c].stage \in {"settled", "over"} /\ Job("then", c) \notin In(js))
    BY DEF Sound, HeardOnce
  <2> HIDE DEF c
  <2>4. rs2[c].at > 0 \/ (rs2[c].stage \in {"settled", "over"} /\ Job("then", c) \notin In(js))
    <3>1. CASE c = r
      BY <2>3, <3>1
    <3>2. CASE c # r
      BY <2>3, <3>2
    <3> QED  BY <3>1, <3>2
  <2> QED  BY <2>2, <2>3, <2>4 DEF c
<1> QED  BY <1>1, <1>3, <1>4 DEF Sound

\* One callback more, first or last: of a run that none carries on yet.
LEMMA AddSound ==
  ASSUME NEW js, NEW rs, Sound(js, rs), NEW j \in [do : JobKinds, run : DOMAIN rs],
         Due(j.do, rs[j.run]), Carries(j) => j.run \notin Carried(js),
         j.do = "begun" =>
           LET c == rs[j.run].child IN
           /\ c \in DOMAIN rs
           /\ rs[c].at > 0 \/ (rs[c].stage \in {"settled", "over"} /\ Job("then", c) \notin In(js)),
         j.do = "then" =>
           \A k \in In(js) : k.do = "begun" /\ rs[k.run].child = j.run => rs[j.run].at > 0
  PROVE  /\ Sound(<<j>> \o js, rs) /\ Sound(js \o <<j>>, rs)
         /\ In(<<j>> \o js) = In(js) \cup {j} /\ In(js \o <<j>>) = In(js) \cup {j}
         /\ Carried(<<j>> \o js) = Carried(js) \cup (IF Carries(j) THEN {j.run} ELSE {})
         /\ Carried(js \o <<j>>) = Carried(js) \cup (IF Carries(j) THEN {j.run} ELSE {})
<1> DEFINE S == [do : JobKinds, run : DOMAIN rs]
<1>1. js \in Seq(S) /\ Once(js)
  BY DEF Sound
<1>2. <<j>> \in Seq(S) /\ In(<<j>>) = {j} /\ Once(<<j>>)
  BY OneOf
<1>3. Carried(<<j>>) = IF Carries(j) THEN {j.run} ELSE {}
  BY <1>2 DEF Carried
<1>4. Carried(<<j>>) \cap Carried(js) = {}
  BY <1>3
<1>5. /\ <<j>> \o js \in Seq(S) /\ In(<<j>> \o js) = In(js) \cup {j} /\ Once(<<j>> \o js)
      /\ Carried(<<j>> \o js) = Carried(js) \cup (IF Carries(j) THEN {j.run} ELSE {})
  <2> HIDE DEF S
  <2>1. /\ <<j>> \o js \in Seq(S) /\ In(<<j>> \o js) = In(<<j>>) \cup In(js)
        /\ Carried(<<j>> \o js) = Carried(<<j>>) \cup Carried(js)
        /\ Once(<<j>>) /\ Once(js) /\ Carried(<<j>>) \cap Carried(js) = {} => Once(<<j>> \o js)
    BY <1>1, <1>2, Joined
  <2>2. Once(<<j>> \o js)
    BY <1>1, <1>2, <1>4, <2>1
  <2>3. In(<<j>> \o js) = In(js) \cup {j}
    BY <1>2, <2>1
  <2>4. Carried(<<j>> \o js) = Carried(js) \cup (IF Carries(j) THEN {j.run} ELSE {})
    BY <1>3, <2>1
  <2> QED  BY <2>1, <2>2, <2>3, <2>4
<1>6. /\ js \o <<j>> \in Seq(S) /\ In(js \o <<j>>) = In(js) \cup {j} /\ Once(js \o <<j>>)
      /\ Carried(js \o <<j>>) = Carried(js) \cup (IF Carries(j) THEN {j.run} ELSE {})
  <2> HIDE DEF S
  <2>1. /\ js \o <<j>> \in Seq(S) /\ In(js \o <<j>>) = In(js) \cup In(<<j>>)
        /\ Carried(js \o <<j>>) = Carried(js) \cup Carried(<<j>>)
        /\ Once(js) /\ Once(<<j>>) /\ Carried(js) \cap Carried(<<j>>) = {} => Once(js \o <<j>>)
    BY <1>1, <1>2, Joined
  <2>2. Carried(js) \cap Carried(<<j>>) = {}
    BY <1>4
  <2>3. Once(js \o <<j>>)
    BY <1>1, <1>2, <2>1, <2>2
  <2>4. In(js \o <<j>>) = In(js) \cup {j}
    BY <1>2, <2>1
  <2>5. Carried(js \o <<j>>) = Carried(js) \cup (IF Carries(j) THEN {j.run} ELSE {})
    BY <1>3, <2>1
  <2> QED  BY <2>1, <2>3, <2>4, <2>5
<1>7. \A k \in In(js) \cup {j} : Due(k.do, rs[k.run])
  BY DEF Sound
<1>8. ASSUME NEW k \in In(js) \cup {j}, k.do = "begun"
      PROVE  LET c == rs[k.run].child IN
             /\ c \in DOMAIN rs
             /\ \/ rs[c].at > 0
                \/ rs[c].stage \in {"settled", "over"} /\ Job("then", c) \notin In(js) \cup {j}
  <2> DEFINE c == rs[k.run].child
  <2>1. /\ c \in DOMAIN rs
        /\ rs[c].at > 0 \/ (rs[c].stage \in {"settled", "over"} /\ Job("then", c) \notin In(js))
    BY <1>8 DEF Sound, HeardOnce
  <2>2. Job("then", c) = j => rs[c].at > 0
    <3> SUFFICES ASSUME Job("then", c) = j PROVE rs[c].at > 0
      OBVIOUS
    <3>1. j.do = "then" /\ j.run = c
      BY DEF Job
    <3>2. k \in In(js)
      BY <1>8, <3>1
    <3> QED  BY <1>8, <3>1, <3>2
  <2> QED  BY <2>1, <2>2
<1>9. HeardOnce(<<j>> \o js, rs) /\ HeardOnce(js \o <<j>>, rs)
  BY <1>5, <1>6, <1>8 DEF HeardOnce
<1> QED  BY <1>5, <1>6, <1>7, <1>9 DEF Sound

\* The first callback taken.
LEMMA TakeSound ==
  ASSUME NEW js, NEW rs, Sound(js, rs), js # <<>>
  PROVE  /\ Head(js) \in [do : JobKinds, run : DOMAIN rs] /\ Head(js) \in In(js)
         /\ Due(Head(js).do, rs[Head(js).run])
         /\ Sound(Tail(js), rs) /\ In(Tail(js)) \subseteq In(js)
         /\ Carries(Head(js)) => Head(js).run \notin Carried(Tail(js))
<1> DEFINE S == [do : JobKinds, run : DOMAIN rs]
<1> HIDE DEF S
<1>1. js \in Seq(S) /\ Once(js)
  BY DEF Sound, S
<1>2. /\ Head(js) \in S /\ Head(js) \in In(js) /\ Tail(js) \in Seq(S) /\ In(Tail(js)) \subseteq In(js)
      /\ Once(Tail(js)) /\ (Carries(Head(js)) => Head(js).run \notin Carried(Tail(js)))
  BY <1>1, Taking
<1>3. HeardOnce(Tail(js), rs)
  BY <1>2 DEF Sound, HeardOnce
<1>4. \A j \in In(js) : Due(j.do, rs[j.run])
  BY DEF Sound
<1>5. Sound(Tail(js), rs)
  BY <1>2, <1>3, <1>4 DEF Sound, S
<1> QED  BY <1>2, <1>4, <1>5 DEF S

\* Callbacks are of runs there have been, and carry those on that wait for just them.
LEMMA Waiting ==
  ASSUME NEW js, NEW rs, Sound(js, rs)
  PROVE  /\ Carried(js) \subseteq DOMAIN rs
         /\ \A j \in In(js) : j.run \in DOMAIN rs /\ j = Job(j.do, j.run)
         /\ \A r \in Carried(js) :
              /\ \E j \in In(js) : Carries(j) /\ j.run = r
              /\ \/ rs[r].stage \in {"deciding", "settled"}
                 \/ rs[r].stage = "stepping" /\ rs[r].step \in {"none", "starting", "beginning", "woken"}
<1>1. js \in Seq([do : JobKinds, run : DOMAIN rs])
  BY DEF Sound
<1>2. \A i \in DOMAIN js : js[i] \in [do : JobKinds, run : DOMAIN rs]
  BY <1>1, LenProperties, ElementOfSeq
<1>3. \A j \in In(js) : j \in [do : JobKinds, run : DOMAIN rs]
  BY <1>2 DEF In
<1>4. \A j \in In(js) : j.run \in DOMAIN rs /\ j = Job(j.do, j.run)
  BY <1>3 DEF Job
<1>5. ASSUME NEW r \in Carried(js)
      PROVE  /\ \E j \in In(js) : Carries(j) /\ j.run = r
             /\ \/ rs[r].stage \in {"deciding", "settled"}
                \/ rs[r].stage = "stepping" /\ rs[r].step \in {"none", "starting", "beginning", "woken"}
  <2>1. PICK j \in In(js) : Carries(j) /\ j.run = r
    BY <1>5 DEF Carried
  <2>2. Due(j.do, rs[r])
    BY <2>1 DEF Sound
  <2> QED  BY <2>1, <2>2 DEF Due, Carries, Carriers
<1>6. Carried(js) \subseteq DOMAIN rs
  BY <1>4 DEF Carried
<1> QED  BY <1>4, <1>5, <1>6

-----------------------------------------------------------------------------
(* The runs, one of them changed or one more begun.                        *)

LEMMA Indices ==
  ASSUME NEW rs \in Seq(RunRecords)
  PROVE  /\ Len(rs) \in Nat /\ DOMAIN rs = 1..Len(rs)
         /\ \A r \in DOMAIN rs : rs[r] \in RunRecords /\ r \in Nat \ {0} /\ r <= Len(rs)
<1>1. Len(rs) \in Nat /\ DOMAIN rs = 1..Len(rs) /\ \A r \in 1..Len(rs) : rs[r] \in RunRecords
  BY LenProperties, ElementOfSeq
<1> QED  BY <1>1

\* The record of one run becomes another.
LEMMA Changed ==
  ASSUME NEW rs \in Seq(RunRecords), NEW r \in DOMAIN rs, NEW rec \in RunRecords, NEW rs2,
         rs2 = [rs EXCEPT ![r] = rec]
  PROVE  /\ rs2 \in Seq(RunRecords) /\ Len(rs2) = Len(rs) /\ DOMAIN rs2 = DOMAIN rs
         /\ rs2[r] = rec /\ \A q \in DOMAIN rs : q # r => rs2[q] = rs[q]
<1>1. Len(rs) \in Nat /\ DOMAIN rs = 1..Len(rs)
  BY Indices
<1>2. /\ rs2 \in Seq(RunRecords) /\ Len(rs2) = Len(rs)
      /\ \A q \in 1..Len(rs) : rs2[q] = IF q = r THEN rec ELSE rs[q]
  <2> HIDE DEF RunRecords
  <2> QED  BY <1>1, ExceptSeq
<1> QED  BY <1>1, <1>2

\* One run more.
LEMMA Grown ==
  ASSUME NEW rs \in Seq(RunRecords), NEW rec \in RunRecords, NEW rs2, rs2 = Append(rs, rec)
  PROVE  /\ rs2 \in Seq(RunRecords) /\ Len(rs2) = Len(rs) + 1 /\ DOMAIN rs2 = DOMAIN rs \cup {Len(rs) + 1}
         /\ rs2[Len(rs) + 1] = rec /\ \A q \in DOMAIN rs : rs2[q] = rs[q]
<1> DEFINE n == Len(rs) + 1
<1>1. Len(rs) \in Nat /\ DOMAIN rs = 1..Len(rs)
  BY Indices
<1>2. /\ rs2 \in Seq(RunRecords) /\ Len(rs2) = n /\ rs2[n] = rec
      /\ \A q \in 1..Len(rs) : rs2[q] = rs[q]
  <2> HIDE DEF RunRecords
  <2> QED  BY AppendProperties
<1>3. DOMAIN rs2 = DOMAIN rs \cup {n}
  <2>1. DOMAIN rs2 = 1..n
    BY <1>2, Indices
  <2> QED  BY <1>1, <2>1
<1> QED  BY <1>1, <1>2, <1>3

\* The record of one run changes and nothing else: what others ask of it still holds.
LEMMA ChangedFits ==
  ASSUME NEW js, NEW rs, NEW live, Fit(js, rs, live),
         NEW r \in DOMAIN rs, NEW rec \in RunRecords, NEW rs2, rs2 = [rs EXCEPT ![r] = rec],
         r \in Carried(js) => /\ rec.stage = rs[r].stage /\ rec.step = rs[r].step
                              /\ rec.child = rs[r].child,
         rec.of = rs[r].of, rs[r].at > 0 => rec.at > 0,
         rs[r].stage \in {"settled", "over"} => rec.stage \in {"settled", "over"},
         rs[r].stage = "over" => rec.stage = "over",
         Stands(rec, Len(rs)), SaysRight(rec)
  PROVE  Fit(js, rs2, live)
<1>1. /\ rs2 \in Seq(RunRecords) /\ Len(rs2) = Len(rs) /\ DOMAIN rs2 = DOMAIN rs
      /\ rs2[r] = rec /\ \A q \in DOMAIN rs : q # r => rs2[q] = rs[q]
  BY Changed DEF Fit
<1>2. Sound(js, rs2)
  <2>1. \A q \in DOMAIN rs \ {r} : rs2[q] = rs[q]
    BY <1>1
  <2> QED  BY <1>1, <2>1, RestSound DEF Fit
<1>3. \A q \in DOMAIN rs2 : Stands(rs2[q], Len(rs2)) /\ SaysRight(rs2[q])
  BY <1>1 DEF Fit
<1>4. OneEach(rs2, live)
  <2>1. \A q \in DOMAIN rs : rs2[q].of = rs[q].of /\ (rs2[q].stage # "over" => rs[q].stage # "over")
    BY <1>1
  <2> QED  BY <1>1, <2>1 DEF OneEach, Fit
<1> QED  BY <1>1, <1>2, <1>3, <1>4 DEF Fit

\* A run is over: its automation need keep nobody out any more.
LEMMA OverFits ==
  ASSUME NEW js, NEW rs, NEW live, Fit(js, rs, live), NEW r \in DOMAIN rs,
         rs[r].stage # "over", r \notin Carried(js),
         NEW rec \in RunRecords, rec.stage = "over", rec.of = rs[r].of, rec.at = rs[r].at,
         Stands(rec, Len(rs)), SaysRight(rec),
         NEW rs2, rs2 = [rs EXCEPT ![r] = rec]
  PROVE  Fit(js, rs2, live \ {rs[r].of}) /\ Fit(js, rs2, live) /\ Len(rs2) = Len(rs)
<1>1. Fit(js, rs2, live)
  BY ChangedFits
<1>2. /\ rs2 \in Seq(RunRecords) /\ Len(rs2) = Len(rs) /\ DOMAIN rs2 = DOMAIN rs
      /\ rs2[r] = rec /\ \A q \in DOMAIN rs : q # r => rs2[q] = rs[q]
  <2> HIDE DEF RunRecords
  <2> QED  BY Changed DEF Fit
<1>3. \A q \in DOMAIN rs2 : rs2[q].of = rs[r].of => rs2[q].stage = "over"
  BY <1>2 DEF Fit, OneEach
<1>4. OneEach(rs2, live \ {rs[r].of})
  BY <1>1, <1>3 DEF Fit, OneEach
<1>5. Fit(js, rs2, live \ {rs[r].of})
  BY <1>1, <1>4 DEF Fit
<1> QED  BY <1>1, <1>2, <1>5

\* A run more, of an automation none is under way of: its place is taken.
LEMMA GrownFits ==
  ASSUME NEW js, NEW rs, NEW live, Fit(js, rs, live), NEW rec \in RunRecords, rec.stage = "deciding",
         Stands(rec, Len(rs) + 1), SaysRight(rec),
         \A q \in DOMAIN rs : rs[q].of = rec.of => rs[q].stage = "over",
         NEW rs2, rs2 = Append(rs, rec)
  PROVE  /\ rs2 \in Seq(RunRecords) /\ Len(rs2) = Len(rs) + 1 /\ DOMAIN rs2 = DOMAIN rs \cup {Len(rs) + 1}
         /\ rs2[Len(rs) + 1] = rec /\ \A q \in DOMAIN rs : rs2[q] = rs[q]
         /\ Len(rs) + 1 \notin Carried(js)
         /\ Fit(js, rs2, live \cup {rec.of})
         /\ Fit(<<Job("run", Len(rs) + 1)>> \o js, rs2, live \cup {rec.of})
<1> DEFINE n == Len(rs) + 1
<1>1. rs \in Seq(RunRecords) /\ Len(rs) \in Nat /\ DOMAIN rs = 1..Len(rs)
  BY Indices DEF Fit
<1>2. /\ rs2 \in Seq(RunRecords) /\ Len(rs2) = n /\ rs2[n] = rec
      /\ \A q \in 1..Len(rs) : rs2[q] = rs[q]
  <2> HIDE DEF RunRecords
  <2> QED  BY <1>1, AppendProperties
<1>3. DOMAIN rs2 = DOMAIN rs \cup {n} /\ n \notin DOMAIN rs /\ n > Len(rs)
  <2>1. DOMAIN rs2 = 1..n
    BY <1>2, Indices
  <2> QED  BY <1>1, <2>1
<1> HIDE DEF n
<1>4. n \notin Carried(js)
  BY <1>3, Waiting DEF Fit
<1>5. Sound(js, rs2)
  <2>1. \A q \in DOMAIN rs \ {n} : rs2[q] = rs[q]
    BY <1>1, <1>2
  <2> QED  BY <1>3, <1>4, <2>1, RestSound DEF Fit
<1>6. \A q \in DOMAIN rs2 : Stands(rs2[q], Len(rs2)) /\ SaysRight(rs2[q])
  <2>1. \A q \in DOMAIN rs : Stands(rs[q], n)
    <3>1. 0..Len(rs) \subseteq 0..n
      BY <1>1 DEF n
    <3> QED  BY <3>1 DEF Fit, Stands
  <2>2. \A q \in DOMAIN rs : Stands(rs2[q], n) /\ SaysRight(rs2[q])
    BY <1>1, <1>2, <2>1 DEF Fit
  <2>3. Stands(rs2[n], n) /\ SaysRight(rs2[n])
    BY <1>2 DEF n
  <2> QED  BY <1>2, <1>3, <2>2, <2>3
<1>7. OneEach(rs2, live \cup {rec.of})
  BY <1>1, <1>2, <1>3 DEF Fit, OneEach
<1>8. live \cup {rec.of} \subseteq Automations
  BY DEF Fit, RunRecords
<1>9. Fit(js, rs2, live \cup {rec.of})
  BY <1>2, <1>5, <1>6, <1>7, <1>8 DEF Fit
<1>10. Sound(<<Job("run", n)>> \o js, rs2)
  <2> DEFINE j == Job("run", n)
  <2>1. /\ j \in [do : JobKinds, run : DOMAIN rs2] /\ j.do = "run" /\ j.run = n
    BY <1>3 DEF Job, JobKinds
  <2>2. Due(j.do, rs2[j.run])
    BY <1>2, <2>1 DEF Due
  <2> HIDE DEF j
  <2>3. Sound(<<j>> \o js, rs2)
    BY <1>4, <1>5, <2>1, <2>2, AddSound
  <2> QED  BY <2>3 DEF j
<1>11. Fit(<<Job("run", n)>> \o js, rs2, live \cup {rec.of})
  BY <1>9, <1>10 DEF Fit
<1>12. \A q \in DOMAIN rs : rs2[q] = rs[q]
  BY <1>1, <1>2
<1> QED  BY <1>2, <1>3, <1>4, <1>9, <1>11, <1>12 DEF n

-----------------------------------------------------------------------------
(* What the parts of the actions do.                                       *)

\* Two more, one after the other.
LEMMA Two ==
  ASSUME NEW S, NEW a \in S, NEW b \in S
  PROVE  <<a>> \in Seq(S) /\ <<b>> \in Seq(S) /\ <<a, b>> = <<a>> \o <<b>>
<1>1. <<a>> \in Seq(S) /\ <<b>> \in Seq(S) /\ <<a, b>> \in Seq(S)
  OBVIOUS
<1>2. Len(<<a>>) = 1 /\ Len(<<b>>) = 1 /\ Len(<<a, b>>) = 2 /\ <<a, b>>[1] = a /\ <<a, b>>[2] = b
      /\ <<a>>[1] = a /\ <<b>>[1] = b
  OBVIOUS
<1>3. /\ <<a>> \o <<b>> \in Seq(S) /\ Len(<<a>> \o <<b>>) = 2
      /\ \A i \in 1..2 : (<<a>> \o <<b>>)[i] = IF i <= 1 THEN a ELSE <<b>>[i - 1]
  <2>1. /\ <<a>> \o <<b>> \in Seq(S) /\ Len(<<a>> \o <<b>>) = Len(<<a>>) + Len(<<b>>)
        /\ \A i \in 1..(Len(<<a>>) + Len(<<b>>)) :
              (<<a>> \o <<b>>)[i] = IF i <= Len(<<a>>) THEN <<a>>[i] ELSE <<b>>[i - Len(<<a>>)]
    BY <1>1, ConcatProperties
  <2> QED  BY <1>2, <2>1
<1>4. \A i \in 1..2 : (<<a>> \o <<b>>)[i] = <<a, b>>[i]
  BY <1>2, <1>3
<1>5. Len(<<a, b>>) = Len(<<a>> \o <<b>>) /\ \A i \in 1..Len(<<a, b>>) : <<a, b>>[i] = (<<a>> \o <<b>>)[i]
  BY <1>2, <1>3, <1>4
<1>6. <<a, b>> = <<a>> \o <<b>>
  BY <1>1, <1>3, <1>5, SeqEqual
<1> QED  BY <1>1, <1>6

LEMMA TwoLast ==
  ASSUME NEW S, NEW s \in Seq(S), NEW a \in S, NEW b \in S
  PROVE  s \o <<a, b>> = (s \o <<a>>) \o <<b>>
<1>1. <<a>> \in Seq(S) /\ <<b>> \in Seq(S) /\ <<a, b>> = <<a>> \o <<b>>
  BY Two
<1>2. (s \o <<a>>) \o <<b>> = s \o (<<a>> \o <<b>>)
  BY <1>1, ConcatAssociative
<1> QED  BY <1>1, <1>2

LEMMA TwoFirst ==
  ASSUME NEW S, NEW s \in Seq(S), NEW a \in S, NEW b \in S
  PROVE  <<a, b>> \o s = <<a>> \o (<<b>> \o s)
<1>1. <<a>> \in Seq(S) /\ <<b>> \in Seq(S) /\ <<a, b>> = <<a>> \o <<b>>
  BY Two
<1>2. (<<a>> \o <<b>>) \o s = <<a>> \o (<<b>> \o s)
  BY <1>1, ConcatAssociative
<1> QED  BY <1>1, <1>2

\* A run settles, and what waits for its end is to be called.
LEMMA SettleFits ==
  ASSUME NEW r \in DOMAIN runs, NEW how, NEW row, NEW rest, Settle(r, how, row, rest),
         Fit(rest, runs, running), r \notin Carried(rest),
         runs[r].stage \in {"deciding", "stepping", "falling"},
         how \in {"running", "acted", "failed", "stopped", "idle", "refused", "error", "lost"},
         row \in {"none", "ended", "gone"}
  PROVE  Fit(jobs', runs', running)
<1> DEFINE rec == [runs[r] EXCEPT !.stage = "settled", !.step = "none", !.outcome = how, !.row = row]
<1>1. runs \in Seq(RunRecords) /\ runs[r] \in RunRecords
  BY Indices DEF Fit
<1>2. /\ rec \in RunRecords /\ rec.of = runs[r].of /\ rec.at = runs[r].at /\ rec.stage = "settled"
      /\ rec.step = "none" /\ rec.row = row /\ rec.parent = runs[r].parent /\ rec.child = runs[r].child
  <2>1. rec \in RunRecords
    BY <1>1 DEF RunRecords
  <2>2. /\ rec.of = runs[r].of /\ rec.at = runs[r].at /\ rec.parent = runs[r].parent
        /\ rec.child = runs[r].child
    BY <1>1 DEF RunRecords
  <2>3. rec.stage = "settled" /\ rec.step = "none" /\ rec.row = row
    BY <1>1 DEF RunRecords
  <2> QED  BY <2>1, <2>2, <2>3
<1>3. runs' = [runs EXCEPT ![r] = rec]
  BY DEF Settle
<1>4. Stands(rec, Len(runs)) /\ SaysRight(rec)
  BY <1>2 DEF Fit, Stands, SaysRight
<1> HIDE DEF rec
<1>5. Fit(rest, runs', running)
  BY <1>2, <1>3, <1>4, ChangedFits
<1>6. DOMAIN runs' = DOMAIN runs /\ runs'[r].stage = "settled" /\ runs'[r].at = runs[r].at
      /\ \A q \in DOMAIN runs : q # r => runs'[q] = runs[q]
  <2>1. rec \in RunRecords
    BY <1>2
  <2> HIDE DEF RunRecords
  <2>2. DOMAIN runs' = DOMAIN runs /\ runs'[r] = rec /\ \A q \in DOMAIN runs : q # r => runs'[q] = runs[q]
    BY <1>1, <1>3, <2>1, Changed
  <2> QED  BY <1>2, <2>2
<1> DEFINE S == [do : JobKinds, run : DOMAIN runs']
           a == Job("caught", r)
           b == Job(IF runs[r].by = "trigger" THEN "ended" ELSE "then", r)
<1>7. /\ a \in S /\ a.do = "caught" /\ a.run = r /\ ~Carries(a)
      /\ b \in S /\ b.do \in {"ended", "then"} /\ b.run = r /\ Carries(b)
  BY <1>6 DEF Job, JobKinds, Carries, Carriers
<1>8. Due(a.do, runs'[a.run]) /\ Due(b.do, runs'[b.run])
  BY <1>6, <1>7 DEF Due
<1>9. jobs' = (rest \o <<a>>) \o <<b>>
  <2>1. jobs' = rest \o <<a, b>>
    BY DEF Settle, Callbacks
  <2>2. rest \in Seq(S) /\ a \in S /\ b \in S
    BY <1>5, <1>7 DEF Fit, Sound
  <2> HIDE DEF S, a, b
  <2>3. rest \o <<a, b>> = (rest \o <<a>>) \o <<b>>
    BY <2>2, TwoLast
  <2> QED  BY <2>1, <2>3 DEF a, b
<1>10. \A k \in In(rest) : k.do = "begun" => k.run # r /\ (runs'[k.run].child = r => runs[r].at > 0)
  <2> SUFFICES ASSUME NEW k \in In(rest), k.do = "begun"
               PROVE  k.run # r /\ (runs'[k.run].child = r => runs[r].at > 0)
    OBVIOUS
  <2>1. k.run # r /\ k.run \in DOMAIN runs
    <3>1. k.run \in Carried(rest)
      BY DEF Carried, Carries, Carriers
    <3> QED  BY <3>1, Waiting DEF Fit
  <2>2. runs'[k.run] = runs[k.run]
    BY <1>6, <2>1
  <2>3. runs[k.run].child = r => runs[r].at > 0
    BY DEF Fit, Sound, HeardOnce
  <2> QED  BY <2>1, <2>2, <2>3
<1> HIDE DEF S, a, b
<1>11. /\ Sound(rest \o <<a>>, runs') /\ In(rest \o <<a>>) = In(rest) \cup {a}
       /\ Carried(rest \o <<a>>) = Carried(rest)
  <2>1. a \in [do : JobKinds, run : DOMAIN runs'] /\ a.do # "begun" /\ a.do # "then"
    BY <1>7 DEF S
  <2>2. Sound(rest, runs')
    BY <1>5 DEF Fit
  <2>3. /\ Sound(rest \o <<a>>, runs') /\ In(rest \o <<a>>) = In(rest) \cup {a}
        /\ Carried(rest \o <<a>>) = Carried(rest) \cup (IF Carries(a) THEN {a.run} ELSE {})
    BY <1>7, <1>8, <2>1, <2>2, AddSound
  <2> QED  BY <1>7, <2>3
<1>12. \A k \in In(rest \o <<a>>) : k.do = "begun" /\ runs'[k.run].child = b.run => runs'[b.run].at > 0
  BY <1>6, <1>7, <1>10, <1>11
<1> DEFINE js == rest \o <<a>>
<1> HIDE DEF js
<1>13. Sound(js \o <<b>>, runs')
  <2>1. b \in [do : JobKinds, run : DOMAIN runs'] /\ b.do # "begun"
    BY <1>7 DEF S
  <2>2. Carries(b) => b.run \notin Carried(js)
    BY <1>7, <1>11 DEF js
  <2>3. Sound(js, runs')
    BY <1>11 DEF js
  <2>4. \A k \in In(js) : k.do = "begun" /\ runs'[k.run].child = b.run => runs'[b.run].at > 0
    BY <1>12 DEF js
  <2> QED  BY <1>8, <2>1, <2>2, <2>3, <2>4, AddSound
<1> QED  BY <1>5, <1>9, <1>13 DEF Fit, js

\* Its steps came out one way or another.
LEMMA ConcludeFits ==
  ASSUME NEW r \in DOMAIN runs, NEW how \in {"acted", "failed", "stopped"}, NEW rest, Conclude(r, how, rest),
         Fit(rest, runs, running), r \notin Carried(rest),
         runs[r].stage \in {"stepping", "falling"}
  PROVE  Fit(jobs', runs', running)
<1>1. CASE how \in {"failed", "stopped"} /\ runs[r].of \in Rescued /\ runs[r].stage = "stepping"
  <2> DEFINE rec == [runs[r] EXCEPT !.stage = "falling", !.step = "acting", !.retried = 0, !.outcome = how]
  <2>1. runs \in Seq(RunRecords) /\ runs[r] \in RunRecords
    BY Indices DEF Fit
  <2>2. /\ rec \in RunRecords /\ rec.of = runs[r].of /\ rec.at = runs[r].at /\ rec.stage = "falling"
        /\ rec.step = "acting" /\ rec.row = runs[r].row /\ rec.parent = runs[r].parent
        /\ rec.child = runs[r].child /\ rec.gone = runs[r].gone
    BY <2>1 DEF RunRecords
  <2>3. runs' = [runs EXCEPT ![r] = rec] /\ jobs' = rest
    BY <1>1 DEF Conclude
  <2>4. Stands(rec, Len(runs)) /\ SaysRight(rec)
    <3>1. Stands(runs[r], Len(runs)) /\ SaysRight(runs[r])
      BY DEF Fit
    <3> QED  BY <1>1, <2>2, <3>1 DEF Stands, SaysRight
  <2> HIDE DEF rec
  <2> QED  BY <1>1, <2>2, <2>3, <2>4, ChangedFits
<1>2. CASE ~ (how \in {"failed", "stopped"} /\ runs[r].of \in Rescued /\ runs[r].stage = "stepping")
  <2>1. Settle(r, IF runs[r].stage = "falling" THEN runs[r].outcome ELSE how, RowAtEnd(r), rest)
    BY <1>2 DEF Conclude
  <2>2. (IF runs[r].stage = "falling" THEN runs[r].outcome ELSE how)
           \in {"running", "acted", "failed", "stopped", "idle", "refused", "error", "lost"}
    BY Indices DEF Fit, RunRecords
  <2>3. RowAtEnd(r) \in {"none", "ended", "gone"}
    BY DEF RowAtEnd
  <2> QED  BY <2>1, <2>2, <2>3, SettleFits
<1> QED  BY <1>1, <1>2

\* A step succeeded and the next is to be taken.
LEMMA GoesOnFits ==
  ASSUME NEW r \in DOMAIN runs, NEW rest, GoesOn(r, rest),
         Fit(rest, runs, running), r \notin Carried(rest), runs[r].stage = "stepping"
  PROVE  Fit(jobs', runs', running)
<1> DEFINE rec == [runs[r] EXCEPT !.step = "none", !.at = @ + 1, !.child = Nobody]
<1>1. runs \in Seq(RunRecords) /\ runs[r] \in RunRecords
  BY Indices DEF Fit
<1>2. /\ rec \in RunRecords /\ rec.of = runs[r].of /\ rec.at = runs[r].at + 1 /\ rec.stage = "stepping"
      /\ rec.step = "none" /\ rec.row = runs[r].row /\ rec.parent = runs[r].parent /\ rec.child = 0
      /\ rec.gone = runs[r].gone /\ rec.at > 0
  <2>1. runs[r].at + 1 \in Nat /\ runs[r].at + 1 > 0 /\ Nobody \in Nat /\ Nobody = 0
    BY <1>1, SMTT(30) DEF RunRecords, Nobody
  <2> QED  BY <1>1, <2>1 DEF RunRecords
<1>3. runs' = [runs EXCEPT ![r] = rec] /\ jobs' = <<Job("walk", r)>> \o rest
  BY DEF GoesOn
<1>4. Stands(rec, Len(runs)) /\ SaysRight(rec)
  <2>1. Stands(runs[r], Len(runs)) /\ SaysRight(runs[r]) /\ Len(runs) \in Nat
    BY Indices DEF Fit
  <2> QED  BY <1>2, <2>1 DEF Stands, SaysRight
<1>5. rec \in RunRecords /\ rec.of = runs[r].of /\ rec.at > 0 /\ rec.stage = "stepping" /\ rec.step = "none"
  BY <1>2
<1> HIDE DEF rec
<1>6. Fit(rest, runs', running)
  BY <1>3, <1>4, <1>5, ChangedFits
<1>7. DOMAIN runs' = DOMAIN runs /\ runs'[r] = rec
  <2> HIDE DEF RunRecords
  <2> QED  BY <1>1, <1>3, <1>5, Changed
<1> DEFINE j == Job("walk", r)
<1>8. /\ j \in [do : JobKinds, run : DOMAIN runs'] /\ j.do = "walk" /\ j.run = r
      /\ Due(j.do, runs'[j.run])
  BY <1>5, <1>7 DEF Job, JobKinds, Due
<1> HIDE DEF j
<1>9. Sound(<<j>> \o rest, runs')
  <2>1. Sound(rest, runs')
    BY <1>6 DEF Fit
  <2> QED  BY <1>8, <2>1, AddSound
<1> QED  BY <1>3, <1>6, <1>9 DEF Fit, j

\* A run that decides begins, is refused, or cannot be kept.
LEMMA BeginsFits ==
  ASSUME NEW r \in DOMAIN runs, NEW rest, Begins(r, rest),
         Fit(rest, runs, running), r \notin Carried(rest), runs[r].stage = "deciding"
  PROVE  Fit(jobs', runs', running)
<1>1. CASE Taken(r)
  <2>1. Settle(r, "refused", RowAtEnd(r), rest) /\ RowAtEnd(r) \in {"none", "ended", "gone"}
    BY <1>1 DEF Begins, RowAtEnd
  <2> QED  BY <2>1, SettleFits
<1>2. CASE ~Taken(r) /\ runs[r].of \in Sequences /\ mode[runs[r].of] = "gone"
  <2>1. Settle(r, "error", "none", rest)
    BY <1>2 DEF Begins
  <2> QED  BY <2>1, SettleFits
<1>3. CASE ~Taken(r) /\ ~ (runs[r].of \in Sequences /\ mode[runs[r].of] = "gone")
  <2> DEFINE row == IF runs[r].of \in Sequences THEN "running" ELSE "none"
             rec == [runs[r] EXCEPT !.stage = "stepping", !.at = 1, !.row = row]
             w == Job("walk", r)
             b == Job("begun", runs[r].parent)
  <2>1. runs \in Seq(RunRecords) /\ runs[r] \in RunRecords
    BY Indices DEF Fit
  <2>2. /\ runs' = [runs EXCEPT ![r] = rec]
        /\ jobs' = <<w>> \o rest \o (IF Awaited(r) THEN <<b>> ELSE <<>>)
    BY <1>3 DEF Begins
  <2>3. /\ rec \in RunRecords /\ rec.of = runs[r].of /\ rec.at = 1 /\ rec.stage = "stepping"
        /\ rec.step = runs[r].step /\ rec.row = row /\ rec.parent = runs[r].parent
        /\ rec.child = runs[r].child /\ rec.gone = runs[r].gone
    BY <2>1 DEF RunRecords
  <2>4. Stands(runs[r], Len(runs)) /\ Len(runs) \in Nat
    BY Indices DEF Fit
  <2>5. rec.step = "none" /\ ~rec.gone
    BY <2>3, <2>4 DEF Stands
  <2>6. Stands(rec, Len(runs)) /\ SaysRight(rec)
    BY <2>3, <2>4, <2>5 DEF Stands, SaysRight
  <2>7. rec \in RunRecords /\ rec.of = runs[r].of /\ rec.at > 0 /\ rec.stage = "stepping" /\ rec.step = "none"
    BY <2>3, <2>5
  <2> HIDE DEF rec
  <2>8. Fit(rest, runs', running)
    BY <2>2, <2>6, <2>7, ChangedFits
  <2>9. DOMAIN runs' = DOMAIN runs /\ runs'[r] = rec /\ \A q \in DOMAIN runs : q # r => runs'[q] = runs[q]
    <3> HIDE DEF RunRecords
    <3> QED  BY <2>1, <2>2, <2>7, Changed
  <2>10. /\ w \in [do : JobKinds, run : DOMAIN runs'] /\ w.do = "walk" /\ w.run = r
         /\ Due(w.do, runs'[w.run]) /\ Carries(w)
    BY <2>7, <2>9 DEF Job, JobKinds, Due, Carries, Carriers
  <2> HIDE DEF w
  <2>11. Sound(<<w>> \o rest, runs') /\ Carried(<<w>> \o rest) = Carried(rest) \cup {r}
    <3>1. Sound(rest, runs')
      BY <2>8 DEF Fit
    <3> QED  BY <2>10, <3>1, AddSound
  <2>12. CASE ~Awaited(r)
    <3>1. <<w>> \o rest \in Seq([do : JobKinds, run : DOMAIN runs'])
      BY <2>11 DEF Sound
    <3> DEFINE js == <<w>> \o rest
    <3> HIDE DEF js
    <3>2. js \o <<>> = js
      BY <3>1, ConcatEmptySeq DEF js
    <3>3. jobs' = js
      BY <2>2, <2>12, <3>2 DEF js
    <3> QED  BY <2>8, <2>11, <3>3 DEF Fit, js
  <2>13. CASE Awaited(r)
    <3> DEFINE p == runs[r].parent
    <3>1. p \in DOMAIN runs /\ p # r
      <4>1. p \in DOMAIN runs
        <5>1. p \in 0..Len(runs) /\ p # 0 /\ DOMAIN runs = 1..Len(runs)
          BY <2>1, <2>4, <2>13, Indices DEF Stands, Awaited, Nobody
        <5> QED  BY <2>4, <5>1
      <4>2. runs[p].step = "beginning"
        BY <2>13 DEF Awaited
      <4>3. runs[r].step = "none"
        BY <2>3, <2>5
      <4> QED  BY <4>1, <4>2, <4>3
    <3>2. runs[p].step = "beginning" /\ runs[p].child = r /\ runs[p].stage = "stepping"
      BY <2>13, <3>1 DEF Awaited, Stands, Fit
    <3>3. p \notin Carried(rest)
      <4> SUFFICES ASSUME p \in Carried(rest) PROVE FALSE
        OBVIOUS
      <4>1. PICK k \in In(rest) : Carries(k) /\ k.run = p
        BY DEF Carried
      <4>2. Due(k.do, runs[p])
        BY <4>1 DEF Fit, Sound
      <4>3. k.do = "begun"
        BY <3>2, <4>1, <4>2 DEF Due, Carries, Carriers
      <4>4. runs[r].at > 0 \/ runs[r].stage \in {"settled", "over"}
        BY <3>2, <4>1, <4>3 DEF Fit, Sound, HeardOnce
      <4> QED  BY <2>4, <4>4 DEF Stands
    <3>4. /\ b \in [do : JobKinds, run : DOMAIN runs'] /\ b.do = "begun" /\ b.run = p
          /\ runs'[p] = runs[p]
      BY <2>9, <3>1 DEF Job, JobKinds
    <3>5. Due(b.do, runs'[b.run])
      BY <3>2, <3>4 DEF Due
    <3>6. runs'[b.run].child \in DOMAIN runs' /\ runs'[runs'[b.run].child].at > 0
      BY <2>7, <2>9, <3>2, <3>4
    <3>7. p \notin Carried(<<w>> \o rest)
      BY <2>11, <3>1, <3>3
    <3> DEFINE js == <<w>> \o rest
    <3> HIDE DEF js, b, p
    <3>8. Sound(js \o <<b>>, runs')
      <4>1. Sound(js, runs') /\ b.run \notin Carried(js)
        BY <2>11, <3>4, <3>7 DEF js
      <4> QED  BY <3>4, <3>5, <3>6, <4>1, AddSound
    <3>9. jobs' = js \o <<b>>
      BY <2>2, <2>13 DEF js, b
    <3> QED  BY <2>8, <3>8, <3>9 DEF Fit
  <2> QED  BY <2>12, <2>13
<1> QED  BY <1>1, <1>2, <1>3

\* A trigger starts an automation that is not running.
LEMMA StartTriggeredFits ==
  ASSUME NEW a \in Automations, NEW rest, StartTriggered(a, rest), TypeOK,
         Fit(rest, runs, running), a \notin running
  PROVE  Fit(jobs', runs', running') /\ soon' \in [Automations -> BOOLEAN]
<1>1. running' = running \cup {a}
  BY DEF StartTriggered
<1>2. CASE mode[a] = "gone"
  <2>1. jobs' = rest /\ runs' = runs /\ soon' = soon
    BY <1>2 DEF StartTriggered
  <2> QED  BY <1>1, <2>1 DEF Fit, OneEach, TypeOK
<1>3. CASE mode[a] # "gone"
  <2> DEFINE rec == NewRun(a, "trigger", Nobody)
  <2>1. runs' = Append(runs, rec) /\ jobs' = <<Job("run", Len(runs) + 1)>> \o rest
        /\ soon' = [soon EXCEPT ![a] = a \in Paced]
    BY <1>3 DEF StartTriggered
  <2>2. Len(runs) \in Nat
    BY Indices DEF Fit
  <2>3. /\ rec \in RunRecords /\ rec.of = a /\ rec.stage = "deciding" /\ rec.step = "none" /\ rec.row = "none"
        /\ rec.parent = 0 /\ rec.child = 0 /\ rec.at = 0 /\ rec.gone = FALSE
    BY <2>2 DEF NewRun, RunRecords, Nobody
  <2>4. Stands(rec, Len(runs) + 1) /\ SaysRight(rec)
    <3>1. 0 \in 0..(Len(runs) + 1)
      BY <2>2
    <3> QED  BY <2>3, <3>1 DEF Stands, SaysRight
  <2> HIDE DEF rec
  <2>5. \A q \in DOMAIN runs : runs[q].of = rec.of => runs[q].stage = "over"
    BY <2>3 DEF Fit, OneEach
  <2>6. rec \in RunRecords /\ rec.stage = "deciding"
    BY <2>3
  <2>7. Fit(jobs', runs', running \cup {rec.of})
    <3> HIDE DEF RunRecords
    <3> QED  BY <2>1, <2>4, <2>5, <2>6, GrownFits
  <2>8. soon' \in [Automations -> BOOLEAN]
    <3>1. soon \in [Automations -> BOOLEAN] /\ (a \in Paced) \in BOOLEAN
      BY DEF TypeOK
    <3> QED  BY <2>1, <3>1, Zenon
  <2> QED  BY <1>1, <2>3, <2>7, <2>8
<1> QED  BY <1>2, <1>3

\* A run gives up its place, and the next start that waits is taken or let go.
LEMMA EndedFits ==
  ASSUME NEW r \in DOMAIN runs, NEW rest, Ended(r, rest), TypeOK,
         Fit(rest, runs, running), r \notin Carried(rest), runs[r].stage = "settled"
  PROVE  /\ Fit(jobs', runs', running') /\ soon' \in [Automations -> BOOLEAN]
         /\ queued' \in [Automations -> 0..QueueLimit]
<1> DEFINE a == runs[r].of
           over == [runs EXCEPT ![r].stage = "over"]
           rec == NewRun(a, "trigger", Nobody)
<1>1. runs \in Seq(RunRecords) /\ Len(runs) \in Nat /\ a \in Automations
  BY Indices DEF Fit, RunRecords
<1>2. Stands(runs[r], Len(runs)) /\ SaysRight(runs[r])
  BY DEF Fit
<1>3. runs[r].step = "none" /\ ~ (runs[r].row = "running")
  BY <1>2 DEF Stands, SaysRight
<1>4. /\ Fit(rest, over, running \ {a}) /\ Fit(rest, over, running) /\ Len(over) = Len(runs)
      /\ \A q \in DOMAIN over : over[q].of = a => over[q].stage = "over"
  <2> DEFINE done == [runs[r] EXCEPT !.stage = "over"]
  <2>1. runs[r] \in RunRecords
    BY <1>1, Indices
  <2>2. /\ done \in RunRecords /\ done.of = a /\ done.at = runs[r].at /\ done.stage = "over"
        /\ done.step = "none" /\ done.row = runs[r].row /\ done.parent = runs[r].parent
        /\ done.child = runs[r].child
    BY <1>3, <2>1 DEF RunRecords
  <2>3. over = [runs EXCEPT ![r] = done]
    OBVIOUS
  <2>4. Stands(done, Len(runs)) /\ SaysRight(done)
    BY <1>2, <1>3, <2>2 DEF Stands, SaysRight
  <2>5. done \in RunRecords /\ done.of = runs[r].of /\ done.at = runs[r].at /\ done.stage = "over"
    BY <2>2
  <2>6. runs[r].stage # "over"
    OBVIOUS
  <2> HIDE DEF over, done, rec, RunRecords
  <2>7. Fit(rest, over, running)
    BY <2>3, <2>4, <2>5, <2>6, OverFits
  <2>8. Fit(rest, over, running \ {runs[r].of})
    BY <2>3, <2>4, <2>5, <2>6, OverFits
  <2>9. Len(over) = Len(runs)
    BY <2>3, <2>4, <2>5, <2>6, OverFits
  <2>10. \A q \in DOMAIN over : over[q].of = runs[r].of => over[q].stage = "over"
    BY <2>8 DEF Fit, OneEach
  <2> QED  BY <2>7, <2>8, <2>9, <2>10
<1>5. queued' \in [Automations -> 0..QueueLimit]
  <2>1. queued \in [Automations -> 0..QueueLimit] /\ QueueLimit \in Nat
    BY RunsAssumption DEF TypeOK
  <2>2. LeftInQueue(a) \in 0..QueueLimit
    <3>1. queued[a] \in 0..QueueLimit
      BY <1>1, <2>1
    <3> QED  BY <2>1, <3>1 DEF LeftInQueue, NextUp
  <2>3. queued' = [queued EXCEPT ![a] = LeftInQueue(a)]
    BY DEF Ended
  <2> QED  BY <2>1, <2>2, <2>3
<1>6. CASE ~NextUp(a) \/ soon[a]
  <2>1. runs' = over /\ running' = running \ {a} /\ jobs' = rest /\ soon' = soon
    BY <1>6 DEF Ended
  <2> QED  BY <1>4, <1>5, <2>1 DEF TypeOK
<1>7. CASE NextUp(a) /\ ~soon[a]
  <2>1. /\ runs' = Append(over, rec) /\ jobs' = <<Job("run", Len(runs) + 1)>> \o rest
        /\ soon' = [soon EXCEPT ![a] = a \in Paced] /\ running' = running
    BY <1>7 DEF Ended
  <2>2. /\ rec \in RunRecords /\ rec.of = a /\ rec.stage = "deciding" /\ rec.step = "none" /\ rec.row = "none"
        /\ rec.parent = 0 /\ rec.child = 0 /\ rec.at = 0 /\ rec.gone = FALSE
    BY <1>1, SMTT(30) DEF NewRun, RunRecords, Nobody
  <2>3. Stands(rec, Len(runs) + 1) /\ SaysRight(rec)
    <3>1. 0 \in 0..(Len(runs) + 1)
      BY <1>1
    <3> QED  BY <2>2, <3>1 DEF Stands, SaysRight
  <2>4. rec \in RunRecords /\ rec.stage = "deciding" /\ rec.of = a
    BY <2>2
  <2> HIDE DEF rec, over
  <2>5. Fit(jobs', runs', running \cup {a})
    <3>1. /\ Stands(rec, Len(over) + 1)
          /\ \A q \in DOMAIN over : over[q].of = rec.of => over[q].stage = "over"
          /\ runs' = Append(over, rec)
          /\ jobs' = <<Job("run", Len(over) + 1)>> \o rest
      BY <1>4, <2>1, <2>3, <2>4
    <3> HIDE DEF RunRecords, a
    <3>2. Fit(<<Job("run", Len(over) + 1)>> \o rest, runs', running \cup {rec.of})
      BY <1>4, <2>3, <2>4, <3>1, GrownFits
    <3> QED  BY <2>4, <3>1, <3>2
  <2>6. running \cup {a} = running'
    <3>1. a \in running
      BY DEF Fit, OneEach
    <3> QED  BY <2>1, <3>1
  <2>7. soon' \in [Automations -> BOOLEAN]
    <3>1. soon \in [Automations -> BOOLEAN] /\ (a \in Paced) \in BOOLEAN
      BY DEF TypeOK
    <3> HIDE DEF a
    <3> QED  BY <2>1, <3>1, Zenon
  <2> QED  BY <1>5, <2>5, <2>6, <2>7
<1> QED  BY <1>6, <1>7

\* A run that holds its parts is stopped, and woken if it waits.
LEMMA StoppedFits ==
  ASSUME NEW r \in DOMAIN runs, NEW js, Fit(js, runs, running), Holding(r)
  PROVE  /\ Fit(js \o Wakes(r), Stopped(r), running)
         /\ Stopped(r) \in Seq(RunRecords) /\ Len(Stopped(r)) = Len(runs) /\ DOMAIN Stopped(r) = DOMAIN runs
         /\ \A q \in DOMAIN runs : q # r => Stopped(r)[q] = runs[q]
         /\ Stopped(r)[r] = [runs[r] EXCEPT !.stopped = TRUE, !.step = IF Wakeable(r) THEN "woken" ELSE @]
<1> DEFINE rec == [runs[r] EXCEPT !.stopped = TRUE, !.step = IF Wakeable(r) THEN "woken" ELSE @]
<1>1. runs \in Seq(RunRecords) /\ runs[r] \in RunRecords
  BY Indices DEF Fit
<1>2. /\ rec \in RunRecords /\ rec.of = runs[r].of /\ rec.at = runs[r].at /\ rec.stage = runs[r].stage
      /\ rec.step = (IF Wakeable(r) THEN "woken" ELSE runs[r].step)
      /\ rec.row = runs[r].row /\ rec.parent = runs[r].parent /\ rec.child = runs[r].child
      /\ rec.gone = runs[r].gone
  BY <1>1 DEF RunRecords
<1>3. Stopped(r) = [runs EXCEPT ![r] = rec]
  BY DEF Stopped
<1>4. Stands(rec, Len(runs)) /\ SaysRight(rec)
  <2>1. Stands(runs[r], Len(runs)) /\ SaysRight(runs[r])
    BY DEF Fit
  <2> QED  BY <1>2, <2>1 DEF Stands, SaysRight, Wakeable
<1>5. Wakeable(r) => r \notin Carried(js)
  BY Waiting DEF Fit, Wakeable
<1> HIDE DEF rec
<1>6. /\ Stopped(r) \in Seq(RunRecords) /\ Len(Stopped(r)) = Len(runs) /\ DOMAIN Stopped(r) = DOMAIN runs
      /\ Stopped(r)[r] = rec /\ \A q \in DOMAIN runs : q # r => Stopped(r)[q] = runs[q]
  <2>1. rec \in RunRecords
    BY <1>2
  <2> HIDE DEF RunRecords
  <2> QED  BY <1>1, <1>3, <2>1, Changed
<1>7. Fit(js, Stopped(r), running)
  <2>1. rec \in RunRecords
    BY <1>2
  <2>2. r \in Carried(js) => /\ rec.stage = runs[r].stage /\ rec.step = runs[r].step
                             /\ rec.child = runs[r].child
    BY <1>2, <1>5
  <2> QED  BY <1>2, <1>3, <1>4, <2>1, <2>2, ChangedFits
<1>8. CASE Wakeable(r)
  <2> DEFINE j == Job(IF runs[r].step = "awaiting" THEN "stopchild" ELSE "quit", r)
  <2>1. /\ j \in [do : JobKinds, run : DOMAIN Stopped(r)] /\ j.do \in {"quit", "stopchild"} /\ j.run = r
        /\ Due(j.do, Stopped(r)[j.run])
    BY <1>2, <1>6, <1>8 DEF Job, JobKinds, Due, Wakeable
  <2>2. Wakes(r) = <<j>>
    BY <1>8 DEF Wakes
  <2> HIDE DEF j
  <2>3. Sound(js \o <<j>>, Stopped(r))
    <3>1. Sound(js, Stopped(r))
      BY <1>7 DEF Fit
    <3> QED  BY <1>5, <1>8, <2>1, <3>1, AddSound
  <2>4. Fit(js \o Wakes(r), Stopped(r), running)
    BY <1>7, <2>2, <2>3 DEF Fit
  <2> QED  BY <1>6, <2>4 DEF rec
<1>9. CASE ~Wakeable(r)
  <2>1. Wakes(r) = <<>>
    BY <1>9 DEF Wakes
  <2>2. js \o <<>> = js
    <3>1. js \in Seq([do : JobKinds, run : DOMAIN runs])
      BY DEF Fit, Sound
    <3> QED  BY <3>1, ConcatEmptySeq
  <2> QED  BY <1>6, <1>7, <2>1, <2>2 DEF rec
<1> QED  BY <1>8, <1>9

\* The same, with nothing else to come.
LEMMA StoppedAloneFits ==
  ASSUME NEW r \in DOMAIN runs, Fit(<<>>, runs, running), Holding(r)
  PROVE  Fit(Wakes(r), Stopped(r), running)
<1>1. Fit(<<>> \o Wakes(r), Stopped(r), running)
  BY StoppedFits
<1>2. Wakes(r) \in Seq({Job("stopchild", r), Job("quit", r)})
  <2> DEFINE S == {Job("stopchild", r), Job("quit", r)}
             j == Job(IF runs[r].step = "awaiting" THEN "stopchild" ELSE "quit", r)
  <2>1. j \in S
    OBVIOUS
  <2> HIDE DEF j, S
  <2>2. <<>> \in Seq(S) /\ <<j>> \in Seq(S)
    BY <2>1
  <2> QED  BY <2>2 DEF Wakes, j, S
<1>3. <<>> \o Wakes(r) = Wakes(r)
  BY <1>2, ConcatEmptySeq
<1> QED  BY <1>1, <1>3

-----------------------------------------------------------------------------
(* The actions.                                                            *)

\* A callback is called: of a run that stands where it is to, and that no other carries on.
LEMMA Called ==
  ASSUME RunsInv, NEW do, Next1(do), NEW r, r = Head(jobs).run
  PROVE  /\ up /\ r \in DOMAIN runs /\ runs[r] \in RunRecords /\ Head(jobs) = Job(do, r)
         /\ Head(jobs) \in In(jobs) /\ Due(do, runs[r])
         /\ Stands(runs[r], Len(runs)) /\ SaysRight(runs[r])
         /\ Fit(jobs, runs, running) /\ Fit(Tail(jobs), runs, running)
         /\ do \in Carriers => r \notin Carried(Tail(jobs))
<1>1. up /\ jobs # <<>> /\ Head(jobs).do = do
  BY DEF Next1
<1>2. Fit(jobs, runs, running)
  BY <1>1 DEF RunsInv
<1>3. /\ Head(jobs) \in [do : JobKinds, run : DOMAIN runs] /\ Head(jobs) \in In(jobs)
      /\ Due(Head(jobs).do, runs[Head(jobs).run])
      /\ Sound(Tail(jobs), runs)
      /\ Carries(Head(jobs)) => Head(jobs).run \notin Carried(Tail(jobs))
  BY <1>1, <1>2, TakeSound DEF Fit
<1>4. r \in DOMAIN runs /\ Head(jobs) = Job(do, r)
  BY <1>1, <1>3 DEF Job
<1>5. runs[r] \in RunRecords
  BY <1>2, <1>4, Indices DEF Fit
<1>6. Fit(Tail(jobs), runs, running)
  BY <1>2, <1>3 DEF Fit
<1>7. Stands(runs[r], Len(runs)) /\ SaysRight(runs[r])
  BY <1>2, <1>4 DEF Fit
<1>8. do \in Carriers => r \notin Carried(Tail(jobs))
  BY <1>1, <1>3 DEF Carries
<1>9. Due(do, runs[r])
  BY <1>1, <1>3
<1> QED  BY <1>1, <1>2, <1>3, <1>4, <1>5, <1>6, <1>7, <1>8, <1>9

\* Something comes from outside: nothing is to be called.
LEMMA Outside ==
  ASSUME RunsInv, Quiet
  PROVE  /\ up /\ jobs = <<>> /\ Fit(jobs, runs, running) /\ Carried(jobs) = {}
         /\ \A r \in DOMAIN runs : runs[r] \in RunRecords /\ Stands(runs[r], Len(runs)) /\ SaysRight(runs[r])
<1>1. up /\ jobs = <<>> /\ Fit(jobs, runs, running)
  BY DEF Quiet, RunsInv
<1>2. Carried(jobs) = {}
  BY <1>1, NoneToCome
<1>3. \A r \in DOMAIN runs : runs[r] \in RunRecords /\ Stands(runs[r], Len(runs)) /\ SaysRight(runs[r])
  BY <1>1, Indices DEF Fit
<1> QED  BY <1>1, <1>2, <1>3

\* The server is up and all fits together: what is left are the types of the rest.
LEMMA Still ==
  ASSUME Fit(jobs', runs', running'), up' = TRUE,
         mode' \in [Automations -> {"on", "off", "gone"}], queued' \in [Automations -> 0..QueueLimit],
         soon' \in [Automations -> BOOLEAN], asks' \in 0..MaxAsks, crashes' \in 0..MaxCrashes
  PROVE  RunsInv'
BY DEF RunsInv, TypeOK, Fit, Sound

\* Nothing but the runs and the callbacks changed.
LEMMA StillOthers ==
  ASSUME RunsInv, up, Fit(jobs', runs', running'), UNCHANGED Others
  PROVE  RunsInv'
<1>1. /\ mode \in [Automations -> {"on", "off", "gone"}] /\ queued \in [Automations -> 0..QueueLimit]
      /\ soon \in [Automations -> BOOLEAN] /\ asks \in 0..MaxAsks /\ crashes \in 0..MaxCrashes /\ up = TRUE
  BY DEF RunsInv, TypeOK
<1>2. mode' = mode /\ queued' = queued /\ soon' = soon /\ up' = up /\ asks' = asks /\ crashes' = crashes
  BY DEF Others
<1> QED  BY <1>1, <1>2, Still

LEMMA RunKeeps ==
  ASSUME RunsInv, Run
  PROVE  RunsInv'
<1> DEFINE r == Head(jobs).run
<1>1. Next1("run") /\ running' = running /\ UNCHANGED Others
  BY DEF Run
<1>2. /\ up /\ r \in DOMAIN runs /\ Due("run", runs[r]) /\ Fit(Tail(jobs), runs, running)
      /\ r \notin Carried(Tail(jobs))
  BY <1>1, Called DEF Carriers
<1>3. runs[r].stage = "deciding"
  BY <1>2 DEF Due
<1>4. CASE runs[r].of \in Slow
  BY <1>1, <1>2, <1>4, StillOthers DEF Run
<1>5. CASE runs[r].of \notin Slow
  <2>1. Begins(r, Tail(jobs))
    BY <1>5 DEF Run
  <2> HIDE DEF r
  <2>2. Fit(jobs', runs', running)
    BY <1>2, <1>3, <2>1, BeginsFits
  <2> QED  BY <1>1, <1>2, <2>2, StillOthers
<1> QED  BY <1>4, <1>5

LEMMA DecideKeeps ==
  ASSUME RunsInv, NEW r \in DOMAIN runs, Decide(r)
  PROVE  RunsInv'
<1>1. /\ up /\ runs[r].stage = "deciding" /\ running' = running /\ UNCHANGED Others
      /\ Fit(jobs, runs, running) /\ r \notin Carried(jobs)
  BY Outside DEF Decide
<1>2. CASE Begins(r, jobs)
  <2>1. Fit(jobs', runs', running)
    BY <1>1, <1>2, BeginsFits
  <2> QED  BY <1>1, <2>1, StillOthers
<1>3. CASE Settle(r, "idle", RowAtEnd(r), jobs)
  <2>1. RowAtEnd(r) \in {"none", "ended", "gone"}
    BY DEF RowAtEnd
  <2>2. Fit(jobs', runs', running)
    BY <1>1, <1>3, <2>1, SettleFits
  <2> QED  BY <1>1, <2>2, StillOthers
<1> QED  BY <1>2, <1>3 DEF Decide

\* The run it starts is of an automation nobody runs.
LEMMA StartStepFits ==
  ASSUME NEW r \in DOMAIN runs, r = Head(jobs).run, StartStep(r), Fit(Tail(jobs), runs, running),
         r \notin Carried(Tail(jobs)), runs[r].stage = "stepping", runs[r].step = "none"
  PROVE  Fit(jobs', runs', running')
<1> DEFINE rest == Tail(jobs)
           b == Starts[runs[r].of]
           n == Len(runs) + 1
           rec == NewRun(b, "run", r)
           was == [runs[r] EXCEPT !.step = "starting", !.child = n]
<1>1. runs \in Seq(RunRecords) /\ runs[r] \in RunRecords /\ Len(runs) \in Nat /\ DOMAIN runs = 1..Len(runs)
  BY Indices DEF Fit
<1>2. CASE StartRefused(r)
  <2>1. Conclude(r, "failed", rest) /\ running' = running
    BY <1>2 DEF StartStep
  <2> QED  BY <2>1, ConcludeFits
<1>3. CASE ~StartRefused(r)
  <2>1. /\ running' = running \cup {b}
        /\ runs' = Append([runs EXCEPT ![r].step = "starting", ![r].child = n], rec)
        /\ jobs' = <<Job("run", n), Job("attach", r)>> \o rest
    BY <1>3 DEF StartStep
  <2>2. b \notin running
    BY <1>3 DEF StartRefused
  <2>3. b \in Automations
    BY <1>1, RunsAssumption DEF RunRecords
  <2>4. runs[r].root \in Nat \ {0} /\ runs[r].chain \cup {runs[r].of} \in SUBSET Automations /\ r # 0 /\ r \in Nat
    <3>1. r # 0 /\ r \in Nat
      BY <1>1
    <3>2. runs[r].root \in Nat \ {0}
      BY <1>1 DEF RunRecords
    <3>3. runs[r].chain \in SUBSET Automations /\ runs[r].of \in Automations
      BY <1>1 DEF RunRecords
    <3> QED  BY <3>1, <3>2, <3>3
  <2>5. /\ rec \in RunRecords /\ rec.of = b /\ rec.stage = "deciding" /\ rec.step = "none" /\ rec.row = "none"
        /\ rec.parent = r /\ rec.child = 0 /\ rec.at = 0
        /\ rec.gone = FALSE
    BY <1>1, <2>3, <2>4 DEF NewRun, RunRecords, Nobody
  <2>6. Stands(rec, n) /\ SaysRight(rec)
    <3>1. r \in 0..n /\ 0 \in 0..n
      BY <1>1
    <3> QED  BY <2>5, <3>1 DEF Stands, SaysRight
  <2> HIDE DEF rec
  <2> DEFINE mid == Append(runs, rec)
  <2>7. /\ mid \in Seq(RunRecords) /\ Len(mid) = n /\ DOMAIN mid = DOMAIN runs \cup {n}
        /\ mid[n] = rec /\ \A q \in DOMAIN runs : mid[q] = runs[q]
        /\ n \notin Carried(rest) /\ Fit(rest, mid, running \cup {b})
    <3>1. \A q \in DOMAIN runs : runs[q].of = rec.of => runs[q].stage = "over"
      BY <2>2, <2>5 DEF Fit, OneEach
    <3>2. rec \in RunRecords /\ rec.stage = "deciding" /\ rec.of = b
      BY <2>5
    <3> HIDE DEF RunRecords, b, rest
    <3>3. /\ mid \in Seq(RunRecords) /\ Len(mid) = Len(runs) + 1 /\ DOMAIN mid = DOMAIN runs \cup {Len(runs) + 1}
          /\ mid[Len(runs) + 1] = rec /\ \A q \in DOMAIN runs : mid[q] = runs[q]
      BY <1>1, <3>2, Grown
    <3>4. Len(runs) + 1 \notin Carried(rest)
      BY <2>6, <3>1, <3>2, GrownFits DEF rest
    <3>5. Fit(rest, mid, running \cup {rec.of})
      BY <2>6, <3>1, <3>2, GrownFits DEF rest
    <3> QED  BY <3>2, <3>3, <3>4, <3>5
  <2>8. /\ was \in RunRecords /\ was.of = runs[r].of /\ was.at = runs[r].at /\ was.stage = "stepping"
        /\ was.step = "starting" /\ was.row = runs[r].row /\ was.parent = runs[r].parent
        /\ was.child = n /\ was.gone = runs[r].gone
    <3>1. n \in Nat
      BY <1>1
    <3> HIDE DEF n
    <3> QED  BY <1>1, <3>1 DEF RunRecords
  <2>9. Stands(was, n) /\ SaysRight(was)
    <3>1. Stands(runs[r], Len(runs)) /\ SaysRight(runs[r]) /\ 0..Len(runs) \subseteq 0..n /\ n \in 0..n /\ n # 0
      BY <1>1 DEF Fit
    <3> QED  BY <2>8, <3>1 DEF Stands, SaysRight, Nobody
  <2>10. runs' = [mid EXCEPT ![r] = was]
    <3> DEFINE one == [runs EXCEPT ![r] = was]
               two == [mid EXCEPT ![r] = was]
    <3>1. /\ runs' = Append(one, rec) /\ was \in RunRecords
          /\ one = [runs EXCEPT ![r] = was] /\ two = [mid EXCEPT ![r] = was]
      BY <2>1, <2>8
    <3> HIDE DEF was, rec, RunRecords, n, one, two
    <3>2. one \in Seq(RunRecords) /\ Len(one) = Len(runs) /\ one[r] = was /\ \A q \in DOMAIN runs : q # r => one[q] = runs[q]
      BY <1>1, <3>1, Changed
    <3>3. two \in Seq(RunRecords) /\ Len(two) = n /\ two[r] = was /\ \A q \in DOMAIN mid : q # r => two[q] = mid[q]
      <4> HIDE DEF mid
      <4>1. r \in DOMAIN mid
        BY <2>7
      <4> QED  BY <2>7, <3>1, <4>1, Changed
    <3> HIDE DEF mid
    <3>4. rec \in RunRecords
      BY <2>5
    <3>5. /\ Append(one, rec) \in Seq(RunRecords) /\ Len(Append(one, rec)) = Len(one) + 1
          /\ \A i \in 1..Len(one) : Append(one, rec)[i] = one[i]
          /\ Append(one, rec)[Len(one) + 1] = rec
      BY <3>2, <3>4, AppendProperties
    <3>6. Len(Append(one, rec)) = n /\ Len(two) = n
      BY <3>2, <3>3, <3>5 DEF n
    <3>7. \A i \in 1..n : Append(one, rec)[i] = two[i]
      <4> SUFFICES ASSUME NEW i \in 1..n PROVE Append(one, rec)[i] = two[i]
        OBVIOUS
      <4>1. CASE i = n
        <5>1. n # r /\ n \in DOMAIN mid
          BY <1>1, <2>7 DEF n
        <5> QED  BY <2>7, <3>2, <3>3, <3>5, <4>1, <5>1 DEF n
      <4>2. CASE i # n
        <5>1. i \in DOMAIN runs /\ i \in 1..Len(one) /\ i \in DOMAIN mid
          BY <1>1, <2>7, <3>2, <4>2 DEF n
        <5> QED  BY <2>7, <3>2, <3>3, <3>5, <5>1
      <4> QED  BY <4>1, <4>2
    <3>8. Append(one, rec) = two
      BY <3>3, <3>5, <3>6, <3>7, SeqEqual
    <3> QED  BY <3>1, <3>8 DEF two
  <2>11. Fit(rest, runs', running')
    <3>1. was \in RunRecords /\ was.of = mid[r].of /\ was.at = mid[r].at /\ was.stage = "stepping"
          /\ mid[r].stage = "stepping" /\ r \in DOMAIN mid
      BY <2>7, <2>8
    <3> HIDE DEF was, mid, rest, b, RunRecords
    <3>2. Fit(rest, mid, running') /\ Stands(was, Len(mid)) /\ SaysRight(was) /\ r \notin Carried(rest)
      BY <2>1, <2>7, <2>9 DEF rest
    <3> QED  BY <2>10, <3>1, <3>2, ChangedFits
  <2>12. /\ DOMAIN runs' = DOMAIN runs \cup {n} /\ runs'[r] = was /\ runs'[n] = rec
    <3>1. was \in RunRecords /\ r \in DOMAIN mid /\ n # r /\ n \in DOMAIN mid
      BY <1>1, <2>7, <2>8
    <3> HIDE DEF was, mid, RunRecords, n
    <3>2. DOMAIN runs' = DOMAIN mid /\ runs'[r] = was /\ \A q \in DOMAIN mid : q # r => runs'[q] = mid[q]
      BY <2>7, <2>10, <3>1, Changed
    <3> QED  BY <2>7, <3>1, <3>2
  <2> DEFINE S == [do : JobKinds, run : DOMAIN runs']
             j == Job("run", n)
             k == Job("attach", r)
  <2>13. /\ j \in S /\ j.do = "run" /\ j.run = n /\ Due(j.do, runs'[j.run])
         /\ k \in S /\ k.do = "attach" /\ k.run = r /\ Due(k.do, runs'[k.run]) /\ n # r /\ Carries(k)
    <3>1. n # r
      BY <1>1
    <3> QED  BY <2>5, <2>8, <2>12, <3>1 DEF Job, JobKinds, Due, Carries, Carriers
  <2>14. Sound(rest, runs')
    BY <2>11 DEF Fit
  <2> HIDE DEF S, j, k, n, was, mid, rest
  <2>15. jobs' = <<j>> \o (<<k>> \o rest)
    <3>1. jobs' = <<j, k>> \o rest
      BY <2>1 DEF j, k
    <3>2. rest \in Seq(S)
      BY <2>14 DEF Sound, S
    <3>3. <<j, k>> \o rest = <<j>> \o (<<k>> \o rest)
      BY <2>13, <3>2, TwoFirst
    <3> QED  BY <3>1, <3>3
  <2>16. Sound(<<k>> \o rest, runs') /\ Carried(<<k>> \o rest) = Carried(rest) \cup {r}
    <3>1. k.run \notin Carried(rest) /\ k \in [do : JobKinds, run : DOMAIN runs']
      BY <2>13 DEF rest, S
    <3> QED  BY <2>13, <2>14, <3>1, AddSound
  <2> DEFINE js == <<k>> \o rest
  <2> HIDE DEF js
  <2>17. Sound(<<j>> \o js, runs')
    <3>1. j.run \notin Carried(js) /\ j \in [do : JobKinds, run : DOMAIN runs'] /\ Sound(js, runs')
      BY <2>7, <2>13, <2>16 DEF js, S
    <3> QED  BY <2>13, <3>1, AddSound
  <2> QED  BY <2>11, <2>15, <2>17 DEF Fit, js
<1> QED  BY <1>2, <1>3

\* Only what a run waits for in its step changes.
LEMMA StepFits ==
  ASSUME NEW r \in DOMAIN runs, NEW js, Fit(js, runs, running), r \notin Carried(js),
         NEW step \in {"acting", "pausing", "asleep", "beginning", "awaiting"}, NEW retried \in {0, 1, 2},
         runs[r].stage = "stepping" \/ (runs[r].stage = "falling" /\ step \in {"acting", "pausing"}),
         step = "beginning" => runs[r].child # Nobody,
         NEW was, was = [runs[r] EXCEPT !.step = step, !.retried = retried],
         runs' = [runs EXCEPT ![r] = was]
  PROVE  /\ Fit(js, runs', running)
         /\ DOMAIN runs' = DOMAIN runs /\ \A q \in DOMAIN runs : q # r => runs'[q] = runs[q]
         /\ runs'[r].step = step /\ runs'[r].stage = runs[r].stage /\ runs'[r].child = runs[r].child
         /\ runs'[r].at = runs[r].at
<1>1. runs \in Seq(RunRecords) /\ runs[r] \in RunRecords
  BY Indices DEF Fit
<1>2. /\ was \in RunRecords /\ was.of = runs[r].of /\ was.at = runs[r].at /\ was.stage = runs[r].stage
      /\ was.step = step /\ was.row = runs[r].row /\ was.parent = runs[r].parent
      /\ was.child = runs[r].child /\ was.gone = runs[r].gone
  BY <1>1 DEF RunRecords
<1>3. Stands(was, Len(runs)) /\ SaysRight(was)
  <2>1. Stands(runs[r], Len(runs)) /\ SaysRight(runs[r])
    BY DEF Fit
  <2> QED  BY <1>2, <2>1 DEF Stands, SaysRight
<1>4. Fit(js, runs', running)
  <2>1. was \in RunRecords /\ was.of = runs[r].of /\ was.at = runs[r].at /\ was.stage = runs[r].stage
    BY <1>2
  <2> HIDE DEF RunRecords
  <2> QED  BY <1>3, <2>1, ChangedFits
<1>5. DOMAIN runs' = DOMAIN runs /\ runs'[r] = was /\ \A q \in DOMAIN runs : q # r => runs'[q] = runs[q]
  <2>1. was \in RunRecords
    BY <1>2
  <2> HIDE DEF RunRecords
  <2> QED  BY <1>1, <2>1, Changed
<1> QED  BY <1>2, <1>4, <1>5

LEMMA WalkKeeps ==
  ASSUME RunsInv, Walk
  PROVE  RunsInv'
<1> DEFINE r == Head(jobs).run
<1>1. Next1("walk") /\ UNCHANGED Others
  BY DEF Walk
<1>2. /\ up /\ r \in DOMAIN runs /\ Due("walk", runs[r]) /\ Fit(Tail(jobs), runs, running)
      /\ r \notin Carried(Tail(jobs)) /\ runs[r] \in RunRecords
  BY <1>1, Called DEF Carriers
<1>3. runs[r].stage = "stepping" /\ runs[r].step = "none"
  BY <1>2 DEF Due
<1>4. CASE Stopping(r) /\ Conclude(r, "stopped", Tail(jobs)) /\ UNCHANGED running
  <2> HIDE DEF r
  <2>1. Fit(jobs', runs', running)
    BY <1>2, <1>3, <1>4, ConcludeFits
  <2> QED  BY <1>1, <1>2, <1>4, <2>1, StillOthers
<1>5. CASE Settle(r, "acted", RowAtEnd(r), Tail(jobs)) /\ UNCHANGED running
  <2>1. RowAtEnd(r) \in {"none", "ended", "gone"}
    BY DEF RowAtEnd
  <2> HIDE DEF r
  <2>2. Fit(jobs', runs', running)
    BY <1>2, <1>3, <1>5, <2>1, SettleFits
  <2> QED  BY <1>1, <1>2, <1>5, <2>2, StillOthers
<1>6. CASE /\ runs' = [runs EXCEPT ![r].step = IF StepOf(r) = "act" THEN "acting" ELSE "asleep",
                                   ![r].retried = 0]
           /\ jobs' = Tail(jobs)
           /\ UNCHANGED running
  <2> DEFINE step == IF StepOf(r) = "act" THEN "acting" ELSE "asleep"
             was == [runs[r] EXCEPT !.step = step, !.retried = 0]
  <2>1. step \in {"acting", "pausing", "asleep", "beginning", "awaiting"} /\ step # "beginning" /\ 0 \in {0, 1, 2}
    OBVIOUS
  <2>2. was = [runs[r] EXCEPT !.step = step, !.retried = 0] /\ runs' = [runs EXCEPT ![r] = was]
    BY <1>6
  <2> HIDE DEF r, step, was
  <2>3. Fit(Tail(jobs), runs', running)
    BY <1>2, <1>3, <2>1, <2>2, StepFits
  <2> QED  BY <1>1, <1>2, <1>6, <2>3, StillOthers
<1>7. CASE StartStep(r)
  <2>1. r = Head(jobs).run
    OBVIOUS
  <2> HIDE DEF r
  <2>2. Fit(jobs', runs', running')
    BY <1>2, <1>3, <1>7, <2>1, StartStepFits
  <2> QED  BY <1>1, <1>2, <2>2, StillOthers
<1> QED  BY <1>4, <1>5, <1>6, <1>7 DEF Walk

LEMMA AnswerKeeps ==
  ASSUME RunsInv, NEW r \in DOMAIN runs, Answer(r)
  PROVE  RunsInv'
<1>1. /\ up /\ runs[r].step = "acting" /\ running' = running /\ UNCHANGED Others
      /\ Fit(jobs, runs, running) /\ r \notin Carried(jobs) /\ runs[r] \in RunRecords /\ Stands(runs[r], Len(runs))
  BY Outside DEF Answer
<1>2. runs[r].stage \in {"stepping", "falling"}
  BY <1>1 DEF Stands
<1>3. CASE runs[r].stage = "stepping" /\ GoesOn(r, jobs)
  <2>1. Fit(jobs', runs', running)
    BY <1>1, <1>3, GoesOnFits
  <2> QED  BY <1>1, <2>1, StillOthers
<1>4. CASE Conclude(r, "failed", jobs)
  <2>1. Fit(jobs', runs', running)
    BY <1>1, <1>2, <1>4, ConcludeFits
  <2> QED  BY <1>1, <2>1, StillOthers
<1>5. CASE \E why \in {1, 2} : runs' = [runs EXCEPT ![r].step = "pausing", ![r].retried = why] /\ jobs' = jobs
  <2>1. PICK why \in {1, 2} : runs' = [runs EXCEPT ![r].step = "pausing", ![r].retried = why] /\ jobs' = jobs
    BY <1>5
  <2> DEFINE was == [runs[r] EXCEPT !.step = "pausing", !.retried = why]
  <2>2. why \in {0, 1, 2} /\ "pausing" \in {"acting", "pausing", "asleep", "beginning", "awaiting"}
    OBVIOUS
  <2>3. was = [runs[r] EXCEPT !.step = "pausing", !.retried = why] /\ runs' = [runs EXCEPT ![r] = was]
    BY <2>1
  <2> HIDE DEF was
  <2>4. Fit(jobs, runs', running)
    BY <1>1, <1>2, <2>2, <2>3, StepFits
  <2> QED  BY <1>1, <2>1, <2>4, StillOthers
<1>6. \/ GoesOn(r, jobs) /\ runs[r].stage = "stepping"
      \/ Conclude(r, "failed", jobs)
      \/ \E why \in {1, 2} : runs' = [runs EXCEPT ![r].step = "pausing", ![r].retried = why] /\ jobs' = jobs
  BY DEF Answer
<1> QED  BY <1>3, <1>4, <1>5, <1>6

LEMMA SendAgainKeeps ==
  ASSUME RunsInv, NEW r \in DOMAIN runs, SendAgain(r)
  PROVE  RunsInv'
<1>1. /\ up /\ runs[r].step = "pausing" /\ running' = running /\ UNCHANGED Others /\ jobs' = jobs
      /\ Fit(jobs, runs, running) /\ r \notin Carried(jobs) /\ runs[r] \in RunRecords /\ Stands(runs[r], Len(runs))
  BY Outside DEF SendAgain
<1>2. runs[r].stage \in {"stepping", "falling"}
  BY <1>1 DEF Stands
<1> DEFINE retried == runs[r].retried
           was == [runs[r] EXCEPT !.step = "acting", !.retried = retried]
<1>3. /\ retried \in {0, 1, 2} /\ was = [runs[r] EXCEPT !.step = "acting", !.retried = retried]
      /\ runs' = [runs EXCEPT ![r] = was]
  <2>1. was = [runs[r] EXCEPT !.step = "acting"] /\ retried \in {0, 1, 2}
    BY <1>1 DEF RunRecords
  <2> QED  BY <2>1 DEF SendAgain
<1> HIDE DEF retried, was
<1>4. Fit(jobs, runs', running)
  <2>1. "acting" \in {"acting", "pausing", "asleep", "beginning", "awaiting"}
    OBVIOUS
  <2> QED  BY <1>1, <1>2, <1>3, <2>1, StepFits
<1> QED  BY <1>1, <1>4, StillOthers

LEMMA WaitOverKeeps ==
  ASSUME RunsInv, NEW r \in DOMAIN runs, WaitOver(r)
  PROVE  RunsInv'
<1>1. /\ up /\ runs[r].step \in {"asleep", "awaiting", "pausing"} /\ running' = running /\ UNCHANGED Others
      /\ Fit(jobs, runs, running) /\ r \notin Carried(jobs) /\ Stands(runs[r], Len(runs))
  BY Outside DEF WaitOver
<1>2. runs[r].stage \in {"stepping", "falling"}
  BY <1>1 DEF Stands
<1>3. CASE runs[r].step = "asleep" /\ GoesOn(r, jobs)
  <2>1. runs[r].stage = "stepping"
    BY <1>1, <1>3 DEF Stands
  <2>2. Fit(jobs', runs', running)
    BY <1>1, <1>3, <2>1, GoesOnFits
  <2> QED  BY <1>1, <2>2, StillOthers
<1>4. CASE Conclude(r, "failed", jobs)
  <2>1. Fit(jobs', runs', running)
    BY <1>1, <1>2, <1>4, ConcludeFits
  <2> QED  BY <1>1, <2>1, StillOthers
<1> QED  BY <1>3, <1>4 DEF WaitOver

LEMMA AttachKeeps ==
  ASSUME RunsInv, Attach
  PROVE  RunsInv'
<1> DEFINE r == Head(jobs).run
           rest == Tail(jobs)
           retried == runs[r].retried
           was == [runs[r] EXCEPT !.step = "beginning", !.retried = retried]
           c == runs[r].child
           b == Job("begun", r)
<1>1. Next1("attach") /\ running' = running /\ UNCHANGED Others
  BY DEF Attach
<1>2. /\ up /\ r \in DOMAIN runs /\ Due("attach", runs[r]) /\ Fit(rest, runs, running)
      /\ r \notin Carried(rest) /\ runs[r] \in RunRecords /\ Stands(runs[r], Len(runs))
  BY <1>1, Called DEF Carriers
<1>3. runs[r].stage = "stepping" /\ runs[r].step = "starting"
  BY <1>2 DEF Due
<1>4. c # Nobody /\ c \in DOMAIN runs
  <2>1. c # 0 /\ c \in 0..Len(runs) /\ Len(runs) \in Nat /\ DOMAIN runs = 1..Len(runs)
    BY <1>2, <1>3, Indices DEF Stands, Nobody, Fit
  <2> QED  BY <2>1 DEF Nobody
<1>5. /\ retried \in {0, 1, 2} /\ was = [runs[r] EXCEPT !.step = "beginning", !.retried = retried]
      /\ runs' = [runs EXCEPT ![r] = was]
  <2>1. was = [runs[r] EXCEPT !.step = "beginning"]
    BY <1>2 DEF RunRecords
  <2>2. retried \in {0, 1, 2}
    BY <1>2 DEF RunRecords
  <2> QED  BY <2>1, <2>2 DEF Attach
<1>6. jobs' = rest \o (IF runs[c].at > 0 THEN <<b>> ELSE <<>>)
  BY DEF Attach
<1>7. r = Head(jobs).run /\ b.do = "begun" /\ b.run = r /\ b = Job("begun", r) /\ c = runs[r].child
  BY DEF Job
<1> HIDE DEF r, rest, retried, was, c, b
<1>8. /\ Fit(rest, runs', running)
      /\ DOMAIN runs' = DOMAIN runs /\ \A q \in DOMAIN runs : q # r => runs'[q] = runs[q]
      /\ runs'[r].step = "beginning" /\ runs'[r].stage = runs[r].stage /\ runs'[r].child = c
      /\ runs'[r].at = runs[r].at
  <2>1. "beginning" \in {"acting", "pausing", "asleep", "beginning", "awaiting"}
    OBVIOUS
  <2>2. Fit(rest, runs', running)
    BY <1>2, <1>3, <1>4, <1>5, <1>7, <2>1, StepFits
  <2>3. DOMAIN runs' = DOMAIN runs /\ \A q \in DOMAIN runs : q # r => runs'[q] = runs[q]
    BY <1>2, <1>3, <1>4, <1>5, <1>7, <2>1, StepFits
  <2>4. runs'[r].step = "beginning" /\ runs'[r].stage = runs[r].stage /\ runs'[r].child = c
        /\ runs'[r].at = runs[r].at
    BY <1>2, <1>3, <1>4, <1>5, <1>7, <2>1, StepFits
  <2> QED  BY <2>2, <2>3, <2>4
<1>9. CASE ~ (runs[c].at > 0)
  <2>1. rest \in Seq([do : JobKinds, run : DOMAIN runs])
    BY <1>2 DEF Fit, Sound
  <2>2. jobs' = rest
    BY <1>6, <1>9, <2>1, ConcatEmptySeq
  <2> QED  BY <1>1, <1>2, <1>8, <2>2, StillOthers
<1>10. CASE runs[c].at > 0
  <2>1. b \in [do : JobKinds, run : DOMAIN runs'] /\ Due(b.do, runs'[b.run])
    BY <1>2, <1>3, <1>7, <1>8 DEF Job, JobKinds, Due
  <2>2. runs'[b.run].child \in DOMAIN runs' /\ runs'[runs'[b.run].child].at > 0
    BY <1>2, <1>4, <1>7, <1>8, <1>10
  <2>3. Sound(rest \o <<b>>, runs')
    <3>1. Sound(rest, runs') /\ b.run \notin Carried(rest)
      BY <1>2, <1>7, <1>8 DEF Fit
    <3> QED  BY <1>7, <2>1, <2>2, <3>1, AddSound
  <2>4. Fit(jobs', runs', running)
    BY <1>6, <1>8, <1>10, <2>3 DEF Fit
  <2> QED  BY <1>1, <1>2, <2>4, StillOthers
<1> QED  BY <1>9, <1>10

LEMMA BegunKeeps ==
  ASSUME RunsInv, Begun
  PROVE  RunsInv'
<1> DEFINE r == Head(jobs).run
           rest == Tail(jobs)
<1>1. Next1("begun") /\ running' = running /\ UNCHANGED Others
  BY DEF Begun
<1>2. /\ up /\ r \in DOMAIN runs /\ Due("begun", runs[r]) /\ Fit(rest, runs, running)
      /\ r \notin Carried(rest) /\ runs[r] \in RunRecords
  BY <1>1, Called DEF Carriers
<1>3. runs[r].stage = "stepping"
  BY <1>2 DEF Due
<1>4. CASE Conclude(r, "failed", rest)
  <2> HIDE DEF r, rest
  <2>1. Fit(jobs', runs', running)
    BY <1>2, <1>3, <1>4, ConcludeFits
  <2> QED  BY <1>1, <1>2, <2>1, StillOthers
<1>5. CASE GoesOn(r, rest)
  <2> HIDE DEF r, rest
  <2>1. Fit(jobs', runs', running)
    BY <1>2, <1>3, <1>5, GoesOnFits
  <2> QED  BY <1>1, <1>2, <2>1, StillOthers
<1>6. CASE runs' = [runs EXCEPT ![r].step = "awaiting"] /\ jobs' = rest
  <2> DEFINE retried == runs[r].retried
             was == [runs[r] EXCEPT !.step = "awaiting", !.retried = retried]
  <2>1. retried \in {0, 1, 2} /\ "awaiting" \in {"acting", "pausing", "asleep", "beginning", "awaiting"}
    BY <1>2 DEF RunRecords
  <2>2. was = [runs[r] EXCEPT !.step = "awaiting", !.retried = retried] /\ runs' = [runs EXCEPT ![r] = was]
    <3>1. was = [runs[r] EXCEPT !.step = "awaiting"]
      BY <1>2 DEF RunRecords
    <3> QED  BY <1>6, <3>1
  <2> HIDE DEF retried, was, r, rest
  <2>3. Fit(rest, runs', running)
    BY <1>2, <1>3, <2>1, <2>2, StepFits
  <2> QED  BY <1>1, <1>2, <1>6, <2>3, StillOthers
<1> QED  BY <1>4, <1>5, <1>6 DEF Begun

LEMMA ChildEndedKeeps ==
  ASSUME RunsInv, ChildEnded
  PROVE  RunsInv'
<1> DEFINE r == Head(jobs).run
           rest == Tail(jobs)
<1>1. Next1("childend") /\ running' = running /\ UNCHANGED Others
  BY DEF ChildEnded
<1>2. up /\ r \in DOMAIN runs /\ Fit(rest, runs, running) /\ Stands(runs[r], Len(runs))
  BY <1>1, Called
<1>3. runs[r].step = "awaiting" => runs[r].stage = "stepping" /\ r \notin Carried(rest)
  <2>1. runs[r].step = "awaiting" => runs[r].stage = "stepping"
    BY <1>2 DEF Stands
  <2>2. Sound(rest, runs)
    BY <1>2 DEF Fit
  <2> HIDE DEF r, rest
  <2> QED  BY <2>1, <2>2, Waiting
<1>4. CASE jobs' = rest /\ runs' = runs
  BY <1>1, <1>2, <1>4, StillOthers
<1>5. CASE runs[r].step = "awaiting" /\ GoesOn(r, rest)
  <2> HIDE DEF r, rest
  <2>1. Fit(jobs', runs', running)
    BY <1>2, <1>3, <1>5, GoesOnFits
  <2> QED  BY <1>1, <1>2, <2>1, StillOthers
<1>6. CASE runs[r].step = "awaiting" /\ Conclude(r, "failed", rest)
  <2> HIDE DEF r, rest
  <2>1. Fit(jobs', runs', running)
    BY <1>2, <1>3, <1>6, ConcludeFits
  <2> QED  BY <1>1, <1>2, <2>1, StillOthers
<1> QED  BY <1>4, <1>5, <1>6 DEF ChildEnded

LEMMA QuitKeeps ==
  ASSUME RunsInv, Quit
  PROVE  RunsInv'
<1> DEFINE r == Head(jobs).run
           rest == Tail(jobs)
<1>1. Next1("quit") /\ running' = running /\ UNCHANGED Others /\ Conclude(r, "stopped", rest)
  BY DEF Quit
<1>2. /\ up /\ r \in DOMAIN runs /\ Due("quit", runs[r]) /\ Fit(rest, runs, running)
      /\ r \notin Carried(rest)
  BY <1>1, Called DEF Carriers
<1>3. runs[r].stage = "stepping"
  BY <1>2 DEF Due
<1> HIDE DEF r, rest
<1>4. Fit(jobs', runs', running)
  BY <1>1, <1>2, <1>3, ConcludeFits
<1> QED  BY <1>1, <1>2, <1>4, StillOthers

LEMMA StopChildKeeps ==
  ASSUME RunsInv, StopChild
  PROVE  RunsInv'
<1> DEFINE r == Head(jobs).run
           rest == Tail(jobs)
           j == Job("quit", r)
           live == {q \in RunsOf(Starts[runs[r].of]) : Holding(q) /\ runs[q].of \in Sequences}
<1>1. Next1("stopchild") /\ running' = running /\ UNCHANGED Others
  BY DEF StopChild
<1>2. /\ up /\ r \in DOMAIN runs /\ Due("stopchild", runs[r]) /\ Fit(rest, runs, running)
      /\ r \notin Carried(rest)
  BY <1>1, Called DEF Carriers
<1>3. /\ j \in [do : JobKinds, run : DOMAIN runs] /\ j.do = "quit" /\ j.run = r /\ Due(j.do, runs[j.run])
  BY <1>2 DEF Due, Job, JobKinds
<1>4. \/ runs' = runs /\ jobs' = <<j>> \o rest
      \/ \E q \in live : runs' = Stopped(q) /\ jobs' = <<j>> \o rest \o Wakes(q)
  BY DEF StopChild
<1>5. \A q \in live : q \in DOMAIN runs /\ Holding(q)
  BY DEF RunsOf
<1> HIDE DEF r, rest, j, live
<1>6. Fit(<<j>> \o rest, runs, running)
  <2>1. Sound(rest, runs) /\ j.run \notin Carried(rest)
    BY <1>2, <1>3 DEF Fit
  <2>2. Sound(<<j>> \o rest, runs)
    BY <1>3, <2>1, AddSound
  <2> QED  BY <1>2, <2>2 DEF Fit
<1>7. CASE runs' = runs /\ jobs' = <<j>> \o rest
  BY <1>1, <1>2, <1>6, <1>7, StillOthers
<1>8. CASE \E q \in live : runs' = Stopped(q) /\ jobs' = <<j>> \o rest \o Wakes(q)
  <2>1. PICK q \in live : runs' = Stopped(q) /\ jobs' = <<j>> \o rest \o Wakes(q)
    BY <1>8
  <2> DEFINE js == <<j>> \o rest
  <2> HIDE DEF js
  <2>2. Fit(js \o Wakes(q), Stopped(q), running)
    BY <1>5, <1>6, StoppedFits DEF js
  <2> QED  BY <1>1, <1>2, <2>1, <2>2, StillOthers DEF js
<1> QED  BY <1>4, <1>7, <1>8

LEMMA CaughtKeeps ==
  ASSUME RunsInv, Caught
  PROVE  RunsInv'
<1> DEFINE r == Head(jobs).run
           rest == Tail(jobs)
           S == [do : JobKinds, run : DOMAIN runs]
           t == [i \in 1..runs[r].waiting |-> Job("fresh", r)]
<1>1. Next1("caught") /\ running' = running /\ runs' = runs /\ UNCHANGED Others /\ jobs' = rest \o t
  BY DEF Caught
<1>2. up /\ r \in DOMAIN runs /\ runs[r] \in RunRecords /\ Fit(rest, runs, running)
  BY <1>1, Called
<1>3. runs[r].waiting \in Nat /\ Job("fresh", r) \in S
  BY <1>2 DEF RunRecords, Job, JobKinds
<1>4. t \in Seq(S)
  <2>1. t \in [1..runs[r].waiting -> S]
    BY <1>3
  <2> HIDE DEF t, S
  <2> QED  BY <1>3, <2>1, SeqDef
<1>5. \A k \in In(t) : k.do = "fresh"
  <2>1. DOMAIN t = 1..runs[r].waiting /\ \A i \in DOMAIN t : t[i] = Job("fresh", r)
    OBVIOUS
  <2> HIDE DEF t
  <2> QED  BY <2>1 DEF In, Job
<1>6. rest \in Seq(S)
  BY <1>2 DEF Fit, Sound
<1> HIDE DEF S, t, r, rest
<1>7. Once(t) /\ Carried(t) = {}
  <2>1. \A i \in DOMAIN t : ~Carries(t[i])
    BY <1>5 DEF In, Carries, Carriers
  <2> QED  BY <1>5, <2>1 DEF Once, Carried, Carries, Carriers
<1>8. rest \o t \in Seq(S) /\ In(rest \o t) = In(rest) \cup In(t) /\ Once(rest \o t)
  <2>1. Once(rest) /\ Carried(rest) \cap Carried(t) = {}
    BY <1>2, <1>7 DEF Fit, Sound
  <2>2. rest \o t \in Seq(S) /\ In(rest \o t) = In(rest) \cup In(t)
    BY <1>4, <1>6, Joined
  <2>3. Once(rest \o t)
    BY <1>4, <1>6, <1>7, <2>1, Joined
  <2> QED  BY <2>2, <2>3
<1>9. \A k \in In(rest \o t) : Due(k.do, runs[k.run])
  BY <1>2, <1>5, <1>8 DEF Fit, Sound, Due
<1>10. HeardOnce(rest \o t, runs)
  <2>1. \A c : Job("then", c) \notin In(t)
    BY <1>5 DEF Job
  <2>2. \A k \in In(rest \o t) : k.do = "begun" => k \in In(rest)
    BY <1>5, <1>8
  <2> QED  BY <1>2, <1>8, <2>1, <2>2 DEF Fit, Sound, HeardOnce
<1>11. Fit(jobs', runs', running)
  BY <1>1, <1>2, <1>8, <1>9, <1>10 DEF Fit, Sound, S
<1> QED  BY <1>1, <1>2, <1>11, StillOthers

LEMMA FreshKeeps ==
  ASSUME RunsInv, Fresh
  PROVE  RunsInv'
<1> DEFINE r == Head(jobs).run
           rest == Tail(jobs)
           a == runs[r].of
<1>1. /\ Next1("fresh") /\ mode' = mode /\ queued' = queued /\ up' = up /\ asks' = asks /\ crashes' = crashes
  BY DEF Fresh
<1>2. up /\ r \in DOMAIN runs /\ runs[r] \in RunRecords /\ Fit(rest, runs, running)
  BY <1>1, Called
<1>3. /\ mode \in [Automations -> {"on", "off", "gone"}] /\ queued \in [Automations -> 0..QueueLimit]
      /\ soon \in [Automations -> BOOLEAN] /\ asks \in 0..MaxAsks /\ crashes \in 0..MaxCrashes /\ up = TRUE
  BY <1>2 DEF RunsInv, TypeOK
<1>4. CASE jobs' = rest /\ runs' = runs /\ running' = running /\ soon' = soon
  BY <1>1, <1>2, <1>3, <1>4, Still
<1>5. CASE ~GotIn(a) /\ StartTriggered(a, rest)
  <2>1. a \in Automations /\ a \notin running /\ TypeOK
    BY <1>2, <1>5 DEF GotIn, RunRecords, RunsInv
  <2> HIDE DEF r, rest, a
  <2>2. Fit(jobs', runs', running') /\ soon' \in [Automations -> BOOLEAN]
    BY <1>2, <1>5, <2>1, StartTriggeredFits
  <2> QED  BY <1>1, <1>3, <2>2, Still
<1> QED  BY <1>4, <1>5 DEF Fresh

LEMMA ThenKeeps ==
  ASSUME RunsInv, Then
  PROVE  RunsInv'
<1> DEFINE r == Head(jobs).run
           rest == Tail(jobs)
           p == runs[r].parent
           b == Job("begun", p)
           f == Job("finally", r)
           hears == Awaited(r) /\ runs[r].at = 0
           js == rest \o (IF hears THEN <<b>> ELSE <<>>)
<1>1. Next1("then") /\ running' = running /\ runs' = runs /\ UNCHANGED Others /\ jobs' = js \o <<f>>
  BY DEF Then
<1>2. /\ up /\ r \in DOMAIN runs /\ runs[r] \in RunRecords /\ Due("then", runs[r]) /\ Fit(rest, runs, running)
      /\ r \notin Carried(rest) /\ Fit(jobs, runs, running) /\ Job("then", r) \in In(jobs)
      /\ Stands(runs[r], Len(runs)) /\ jobs # <<>>
  <2>1. Head(jobs) \in In(jobs) /\ Head(jobs) = Job("then", r)
    BY <1>1, Called
  <2> QED  BY <1>1, <2>1, Called DEF Carriers, Next1
<1>3. runs[r].stage = "settled"
  BY <1>2 DEF Due
<1>4. /\ f \in [do : JobKinds, run : DOMAIN runs] /\ f.do = "finally" /\ f.run = r /\ Due(f.do, runs[f.run])
  BY <1>2, <1>3 DEF Job, JobKinds, Due
<1>5. Sound(js, runs) /\ r \notin Carried(js)
  <2>1. CASE ~hears
    <3>1. rest \in Seq([do : JobKinds, run : DOMAIN runs])
      BY <1>2 DEF Fit, Sound
    <3>2. js = rest
      BY <2>1, <3>1, ConcatEmptySeq
    <3> QED  BY <1>2, <3>2 DEF Fit
  <2>2. CASE hears
    <3>1. p \in DOMAIN runs /\ runs[p].step = "beginning" /\ runs[p].child = r /\ p # r
      <4>1. p # 0 /\ p \in 0..Len(runs) /\ Len(runs) \in Nat /\ DOMAIN runs = 1..Len(runs)
        BY <1>2, <2>2, Indices DEF Stands, Nobody, Fit, Awaited
      <4>2. runs[p].step = "beginning" /\ runs[p].child = r
        BY <2>2 DEF Awaited
      <4>3. runs[r].step = "none"
        BY <1>2, <1>3 DEF Stands
      <4> QED  BY <4>1, <4>2, <4>3
    <3>2. runs[p].stage = "stepping"
      BY <1>2, <3>1 DEF Fit, Stands
    <3>3. p \notin Carried(rest)
      <4> SUFFICES ASSUME p \in Carried(rest) PROVE FALSE
        OBVIOUS
      <4>1. PICK k \in In(rest) : Carries(k) /\ k.run = p
        BY DEF Carried
      <4>2. Due(k.do, runs[p])
        BY <1>2, <4>1 DEF Fit, Sound
      <4>3. k.do = "begun"
        BY <3>1, <3>2, <4>1, <4>2 DEF Due, Carries, Carriers
      <4>4. k \in In(jobs)
        <5>1. Sound(jobs, runs)
          BY <1>2 DEF Fit
        <5>2. In(rest) \subseteq In(jobs)
          BY <1>2, <5>1, TakeSound
        <5> QED  BY <5>2
      <4>5. runs[r].at > 0 \/ Job("then", r) \notin In(jobs)
        BY <1>2, <3>1, <4>1, <4>3, <4>4 DEF Fit, Sound, HeardOnce
      <4> QED  BY <1>2, <2>2, <4>5
    <3>4. /\ b \in [do : JobKinds, run : DOMAIN runs] /\ b.do = "begun" /\ b.run = p /\ Due(b.do, runs[b.run])
          /\ Carries(b)
      BY <3>1, <3>2 DEF Job, JobKinds, Due, Carries, Carriers
    <3>5. Job("then", r) \notin In(rest)
      <4>1. Job("then", r) \in In(rest) => r \in Carried(rest)
        <5>1. Carries(Job("then", r)) /\ Job("then", r).run = r
          BY DEF Carries, Carriers, Job
        <5> QED  BY <5>1 DEF Carried
      <4> QED  BY <1>2, <4>1
    <3>6. /\ runs[b.run].child \in DOMAIN runs /\ runs[runs[b.run].child].stage \in {"settled", "over"}
          /\ Job("then", runs[b.run].child) \notin In(rest)
      BY <1>2, <1>3, <3>1, <3>4, <3>5
    <3>7. js = rest \o <<b>> /\ Sound(rest, runs)
      BY <1>2, <2>2 DEF Fit
    <3> HIDE DEF b, rest, r, p, js
    <3>8. Sound(rest \o <<b>>, runs)
      BY <3>3, <3>4, <3>6, <3>7, AddSound
    <3>9. Carried(rest \o <<b>>) = Carried(rest) \cup {p}
      BY <3>3, <3>4, <3>6, <3>7, AddSound
    <3> QED  BY <1>2, <3>1, <3>7, <3>8, <3>9
  <2> QED  BY <2>1, <2>2
<1> HIDE DEF js, f, r, rest
<1>6. Sound(js \o <<f>>, runs)
  BY <1>4, <1>5, AddSound
<1>7. Fit(jobs', runs', running)
  BY <1>1, <1>2, <1>6 DEF Fit
<1> QED  BY <1>1, <1>2, <1>7, StillOthers

\* What is left to do once a run has given up its place.
LEMMA EndedKeeps ==
  ASSUME RunsInv, up, NEW r \in DOMAIN runs, NEW rest, Ended(r, rest), Fit(rest, runs, running),
         r \notin Carried(rest), runs[r].stage = "settled", UNCHANGED <<mode, up, asks, crashes>>
  PROVE  RunsInv'
<1>1. /\ mode \in [Automations -> {"on", "off", "gone"}]
      /\ asks \in 0..MaxAsks /\ crashes \in 0..MaxCrashes /\ up = TRUE /\ TypeOK
  BY DEF RunsInv, TypeOK
<1>2. /\ Fit(jobs', runs', running') /\ soon' \in [Automations -> BOOLEAN]
      /\ queued' \in [Automations -> 0..QueueLimit]
  BY <1>1, EndedFits
<1> QED  BY <1>1, <1>2, Still

LEMMA EndedTriggeredKeeps ==
  ASSUME RunsInv, EndedTriggered
  PROVE  RunsInv'
<1> DEFINE r == Head(jobs).run
           rest == Tail(jobs)
<1>1. Next1("ended") /\ Ended(r, rest) /\ UNCHANGED <<mode, up, asks, crashes>>
  BY DEF EndedTriggered
<1>2. /\ up /\ r \in DOMAIN runs /\ Due("ended", runs[r]) /\ Fit(rest, runs, running)
      /\ r \notin Carried(rest)
  BY <1>1, Called DEF Carriers
<1>3. runs[r].stage = "settled"
  BY <1>2 DEF Due
<1> HIDE DEF r, rest
<1> QED  BY <1>1, <1>2, <1>3, EndedKeeps

LEMMA FinallyKeeps ==
  ASSUME RunsInv, Finally
  PROVE  RunsInv'
<1> DEFINE r == Head(jobs).run
           p == runs[r].parent
           c == Job("childend", p)
           rest == Tail(jobs)
           js == rest \o (IF p # Nobody THEN <<c>> ELSE <<>>)
<1>1. Next1("finally") /\ Ended(r, js) /\ UNCHANGED <<mode, up, asks, crashes>>
  BY DEF Finally
<1>2. /\ up /\ r \in DOMAIN runs /\ Due("finally", runs[r]) /\ Fit(rest, runs, running)
      /\ r \notin Carried(rest) /\ Stands(runs[r], Len(runs))
  BY <1>1, Called DEF Carriers
<1>3. runs[r].stage = "settled"
  BY <1>2 DEF Due
<1>4. Fit(js, runs, running) /\ r \notin Carried(js)
  <2>1. CASE p = Nobody
    <3>1. rest \in Seq([do : JobKinds, run : DOMAIN runs])
      BY <1>2 DEF Fit, Sound
    <3>2. js = rest
      BY <2>1, <3>1, ConcatEmptySeq
    <3> QED  BY <1>2, <3>2
  <2>2. CASE p # Nobody
    <3>1. p \in DOMAIN runs
      <4>1. p # 0 /\ p \in 0..Len(runs) /\ Len(runs) \in Nat /\ DOMAIN runs = 1..Len(runs)
        BY <1>2, <2>2, Indices DEF Stands, Nobody, Fit
      <4> QED  BY <4>1
    <3>2. /\ c \in [do : JobKinds, run : DOMAIN runs] /\ c.do = "childend" /\ c.run = p /\ Due(c.do, runs[c.run])
          /\ ~Carries(c)
      BY <3>1 DEF Job, JobKinds, Due, Carries, Carriers
    <3>3. js = rest \o <<c>> /\ Sound(rest, runs)
      BY <1>2, <2>2 DEF Fit
    <3> HIDE DEF c, rest, r, p, js
    <3>4. Sound(rest \o <<c>>, runs)
      BY <3>2, <3>3, AddSound
    <3>5. Carried(rest \o <<c>>) = Carried(rest) \cup (IF Carries(c) THEN {c.run} ELSE {})
      BY <3>2, <3>3, AddSound
    <3>6. Carried(js) = Carried(rest) /\ Sound(js, runs)
      BY <3>2, <3>3, <3>4, <3>5
    <3>7. Fit(rest, runs, running) /\ r \notin Carried(rest)
      BY <1>2
    <3> QED  BY <3>6, <3>7 DEF Fit
  <2> QED  BY <2>1, <2>2
<1> HIDE DEF r, js
<1> QED  BY <1>1, <1>2, <1>3, <1>4, EndedKeeps

LEMMA StopKeeps ==
  ASSUME RunsInv, NEW r \in DOMAIN runs, Stop(r)
  PROVE  RunsInv'
<1>1. /\ up /\ jobs = <<>> /\ Holding(r) /\ running' = running /\ UNCHANGED Others
      /\ Fit(jobs, runs, running) /\ runs' = Stopped(r) /\ jobs' = Wakes(r)
  BY Outside DEF Stop
<1>2. Fit(jobs', runs', running)
  BY <1>1, StoppedAloneFits
<1> QED  BY <1>1, <1>2, StillOthers

LEMMA TriggerKeeps ==
  ASSUME RunsInv, NEW a \in Automations, NEW happening \in BOOLEAN, Trigger(a, happening)
  PROVE  RunsInv'
<1>1. up /\ jobs = <<>> /\ Fit(jobs, runs, running)
  BY Outside DEF Trigger
<1>2. /\ mode' = mode /\ up' = TRUE /\ crashes' = crashes /\ asks' = asks + 1 /\ asks < MaxAsks
  BY <1>1 DEF Trigger, RunsInv, TypeOK
<1>3. /\ mode' \in [Automations -> {"on", "off", "gone"}] /\ asks' \in 0..MaxAsks /\ crashes' \in 0..MaxCrashes
      /\ queued \in [Automations -> 0..QueueLimit] /\ soon \in [Automations -> BOOLEAN] /\ TypeOK
  <2>1. MaxAsks \in Nat
    BY RunsAssumption
  <2> QED  BY <1>2, <2>1 DEF RunsInv, TypeOK
<1>4. CASE a \notin running /\ StartTriggered(a, jobs) /\ UNCHANGED queued
  <2>1. Fit(jobs', runs', running') /\ soon' \in [Automations -> BOOLEAN]
    BY <1>1, <1>3, <1>4, StartTriggeredFits
  <2> QED  BY <1>2, <1>3, <1>4, <2>1, Still
<1>5. CASE /\ HasRoom(a) /\ queued' = [queued EXCEPT ![a] = @ + 1]
           /\ UNCHANGED <<runs, running, soon, jobs>>
  <2>1. queued' \in [Automations -> 0..QueueLimit]
    <3>1. QueueLimit \in Nat
      BY RunsAssumption
    <3> QED  BY <1>3, <1>5, <3>1 DEF HasRoom
  <2> QED  BY <1>1, <1>2, <1>3, <1>5, <2>1, Still
<1>6. CASE /\ \E r \in RunsOf(a) :
                 /\ Active(r)
                 /\ LET after == IF Holding(r) THEN Stopped(r) ELSE runs
                    IN  runs' = [after EXCEPT ![r].waiting = @ + 1]
                 /\ jobs' = IF Holding(r) THEN Wakes(r) ELSE <<>>
           /\ UNCHANGED <<running, queued, soon>>
  <2> DEFINE After(r) == IF Holding(r) THEN Stopped(r) ELSE runs
  <2>1. PICK r \in DOMAIN runs :
           /\ runs' = [After(r) EXCEPT ![r].waiting = @ + 1]
           /\ jobs' = IF Holding(r) THEN Wakes(r) ELSE <<>>
    BY <1>6 DEF RunsOf
  <2> DEFINE rs == After(r)
             was == [rs[r] EXCEPT !.waiting = @ + 1]
  <2>2. Fit(jobs', rs, running) /\ DOMAIN rs = DOMAIN runs
    <3>1. CASE Holding(r)
      BY <1>1, <2>1, <3>1, StoppedFits, StoppedAloneFits
    <3>2. CASE ~Holding(r)
      BY <1>1, <2>1, <3>2
    <3> QED  BY <3>1, <3>2
  <2>3. runs' = [rs EXCEPT ![r] = was]
    BY <2>1
  <2> HIDE DEF rs
  <2>4. rs[r] \in RunRecords /\ Stands(rs[r], Len(rs)) /\ SaysRight(rs[r])
    BY <2>2, Indices DEF Fit
  <2>5. /\ was \in RunRecords /\ was.of = rs[r].of /\ was.at = rs[r].at /\ was.stage = rs[r].stage
        /\ was.step = rs[r].step /\ was.row = rs[r].row /\ was.parent = rs[r].parent
        /\ was.child = rs[r].child /\ was.gone = rs[r].gone
    <3>1. rs[r].waiting + 1 \in Nat
      BY <2>4 DEF RunRecords
    <3> QED  BY <2>4, <3>1 DEF RunRecords
  <2>6. Stands(was, Len(rs)) /\ SaysRight(was)
    BY <2>4, <2>5 DEF Stands, SaysRight
  <2>7. Fit(jobs', runs', running)
    <3>1. /\ was \in RunRecords /\ was.of = rs[r].of /\ was.at = rs[r].at /\ was.stage = rs[r].stage
          /\ was.step = rs[r].step /\ was.child = rs[r].child
      BY <2>5
    <3> HIDE DEF was, RunRecords
    <3> QED  BY <2>2, <2>3, <2>6, <3>1, ChangedFits
  <2> QED  BY <1>2, <1>3, <1>6, <2>7, Still
<1> QED  BY <1>4, <1>5, <1>6 DEF Trigger

LEMMA PlayKeeps ==
  ASSUME RunsInv, NEW a \in Automations, Play(a)
  PROVE  RunsInv'
<1> DEFINE rec == NewRun(a, "person", Nobody)
<1>1. /\ up /\ jobs = <<>> /\ Fit(jobs, runs, running) /\ a \notin running /\ running' = running \cup {a}
      /\ runs' = Append(runs, rec) /\ jobs' = <<Job("run", Len(runs) + 1)>>
  BY Outside DEF Play
<1>2. /\ mode' = mode /\ queued' = queued /\ soon' = soon /\ up' = TRUE /\ crashes' = crashes
      /\ asks' = asks + 1 /\ asks < MaxAsks
  BY <1>1 DEF Play, RunsInv, TypeOK
<1>3. /\ mode' \in [Automations -> {"on", "off", "gone"}] /\ asks' \in 0..MaxAsks /\ crashes' \in 0..MaxCrashes
      /\ queued' \in [Automations -> 0..QueueLimit] /\ soon' \in [Automations -> BOOLEAN]
  <2>1. MaxAsks \in Nat
    BY RunsAssumption
  <2> QED  BY <1>2, <2>1 DEF RunsInv, TypeOK
<1>4. Len(runs) \in Nat
  BY <1>1, Indices DEF Fit
<1>5. /\ rec \in RunRecords /\ rec.of = a /\ rec.stage = "deciding" /\ rec.step = "none" /\ rec.row = "none"
      /\ rec.parent = 0 /\ rec.child = 0 /\ rec.at = 0 /\ rec.gone = FALSE
  BY <1>4 DEF NewRun, RunRecords, Nobody
<1>6. Stands(rec, Len(runs) + 1) /\ SaysRight(rec)
  <2>1. 0 \in 0..(Len(runs) + 1)
    BY <1>4
  <2> QED  BY <1>5, <2>1 DEF Stands, SaysRight
<1>7. Fit(jobs', runs', running')
  <2>1. \A q \in DOMAIN runs : runs[q].of = rec.of => runs[q].stage = "over"
    BY <1>1, <1>5 DEF Fit, OneEach
  <2>2. rec \in RunRecords /\ rec.stage = "deciding" /\ rec.of = a
    BY <1>5
  <2> HIDE DEF rec, RunRecords
  <2>3. Fit(<<Job("run", Len(runs) + 1)>> \o jobs, runs', running \cup {rec.of})
    BY <1>1, <1>6, <2>1, <2>2, GrownFits
  <2>4. <<Job("run", Len(runs) + 1)>> \o jobs = <<Job("run", Len(runs) + 1)>>
    <3> DEFINE j == Job("run", Len(runs) + 1)
    <3>1. <<j>> \in Seq({j})
      OBVIOUS
    <3> HIDE DEF j
    <3>2. <<j>> \o <<>> = <<j>>
      BY <3>1, ConcatEmptySeq
    <3> QED  BY <1>1, <3>2 DEF j
  <2> QED  BY <1>1, <2>2, <2>3, <2>4
<1> QED  BY <1>2, <1>3, <1>7, Still

LEMMA TurnKeeps ==
  ASSUME RunsInv, NEW a \in Automations, Turn(a)
  PROVE  RunsInv'
<1>1. up /\ Fit(jobs, runs, running)
  BY Outside DEF Turn
<1>2. /\ runs' = runs /\ running' = running /\ queued' = queued /\ jobs' = jobs /\ up' = TRUE
      /\ crashes' = crashes /\ asks' = asks + 1 /\ asks < MaxAsks
      /\ mode' = [mode EXCEPT ![a] = IF @ = "on" THEN "off" ELSE "on"] /\ soon' = [soon EXCEPT ![a] = FALSE]
  BY <1>1 DEF Turn, RunsInv, TypeOK
<1>3. /\ mode' \in [Automations -> {"on", "off", "gone"}] /\ asks' \in 0..MaxAsks /\ crashes' \in 0..MaxCrashes
      /\ queued' \in [Automations -> 0..QueueLimit] /\ soon' \in [Automations -> BOOLEAN]
  <2>1. MaxAsks \in Nat
    BY RunsAssumption
  <2> QED  BY <1>2, <2>1 DEF RunsInv, TypeOK
<1> QED  BY <1>1, <1>2, <1>3, Still

LEMMA LaterOnKeeps ==
  ASSUME RunsInv, NEW a \in Automations, LaterOn(a)
  PROVE  RunsInv'
<1>1. up /\ Fit(jobs, runs, running)
  BY Outside DEF LaterOn
<1>2. /\ runs' = runs /\ running' = running /\ queued' = queued /\ jobs' = jobs /\ up' = TRUE
      /\ crashes' = crashes /\ asks' = asks /\ mode' = mode /\ soon' = [soon EXCEPT ![a] = FALSE]
  BY <1>1 DEF LaterOn, RunsInv, TypeOK
<1>3. /\ mode' \in [Automations -> {"on", "off", "gone"}] /\ asks' \in 0..MaxAsks /\ crashes' \in 0..MaxCrashes
      /\ queued' \in [Automations -> 0..QueueLimit] /\ soon' \in [Automations -> BOOLEAN]
  BY <1>2 DEF RunsInv, TypeOK
<1> QED  BY <1>1, <1>2, <1>3, Still

\* What the rows of its runs say may change, as long as it is right, and a run may be gone.
LEMMA RowsFit ==
  ASSUME NEW js, NEW rs, NEW live, Fit(js, rs, live),
         NEW rs2 \in Seq(RunRecords), Len(rs2) = Len(rs), DOMAIN rs2 = DOMAIN rs,
         \A q \in DOMAIN rs :
           /\ rs2[q].of = rs[q].of /\ rs2[q].at = rs[q].at /\ rs2[q].stage = rs[q].stage
           /\ rs2[q].step = rs[q].step /\ rs2[q].parent = rs[q].parent /\ rs2[q].child = rs[q].child
           /\ SaysRight(rs2[q])
           /\ rs2[q].stage = "deciding" => ~rs2[q].gone
  PROVE  Fit(js, rs2, live)
<1>1. \A q \in DOMAIN rs2 : Stands(rs2[q], Len(rs2)) /\ SaysRight(rs2[q])
  BY DEF Fit, Stands
<1>2. OneEach(rs2, live)
  BY DEF Fit, OneEach
<1>3. Sound(js, rs2)
  <2>1. js \in Seq([do : JobKinds, run : DOMAIN rs2]) /\ Once(js)
    BY DEF Fit, Sound
  <2>2. \A j \in In(js) : Due(j.do, rs[j.run]) /\ j.run \in DOMAIN rs
    BY Waiting DEF Fit, Sound
  <2>3. \A j \in In(js) : Due(j.do, rs2[j.run])
    BY <2>2 DEF Due
  <2>4. ASSUME NEW j \in In(js), j.do = "begun"
        PROVE  LET c == rs2[j.run].child IN
               /\ c \in DOMAIN rs2
               /\ rs2[c].at > 0 \/ (rs2[c].stage \in {"settled", "over"} /\ Job("then", c) \notin In(js))
    <3>1. j.run \in DOMAIN rs /\ rs2[j.run].child = rs[j.run].child
      BY <2>2, <2>4
    <3>2. /\ rs[j.run].child \in DOMAIN rs
          /\ \/ rs[rs[j.run].child].at > 0
             \/ /\ rs[rs[j.run].child].stage \in {"settled", "over"}
                /\ Job("then", rs[j.run].child) \notin In(js)
      BY <2>4 DEF Fit, Sound, HeardOnce
    <3>3. /\ rs2[rs[j.run].child].at = rs[rs[j.run].child].at
          /\ rs2[rs[j.run].child].stage = rs[rs[j.run].child].stage
      BY <3>2
    <3> QED  BY <3>1, <3>2, <3>3
  <2>5. HeardOnce(js, rs2)
    BY <2>4 DEF HeardOnce
  <2> QED  BY <2>1, <2>3, <2>5 DEF Sound
<1> QED  BY <1>1, <1>2, <1>3 DEF Fit

LEMMA DeleteKeeps ==
  ASSUME RunsInv, NEW a \in Automations, Delete(a)
  PROVE  RunsInv'
<1>1. up /\ jobs = <<>> /\ Fit(jobs, runs, running)
  BY Outside DEF Delete
<1>2. /\ mode' = [mode EXCEPT ![a] = "gone"] /\ queued' = [queued EXCEPT ![a] = 0]
      /\ soon' = [soon EXCEPT ![a] = FALSE] /\ running' = running /\ up' = TRUE /\ crashes' = crashes
      /\ asks' = asks + 1 /\ asks < MaxAsks
  BY <1>1 DEF Delete, RunsInv, TypeOK
<1>3. /\ mode' \in [Automations -> {"on", "off", "gone"}] /\ asks' \in 0..MaxAsks /\ crashes' \in 0..MaxCrashes
      /\ queued' \in [Automations -> 0..QueueLimit] /\ soon' \in [Automations -> BOOLEAN]
  <2>1. MaxAsks \in Nat /\ 0 \in 0..QueueLimit
    BY RunsAssumption
  <2> QED  BY <1>2, <2>1 DEF RunsInv, TypeOK
<1>4. runs \in Seq(RunRecords) /\ \A q \in DOMAIN runs : runs[q] \in RunRecords
  BY <1>1, Indices DEF Fit
<1> DEFINE rowless == [q \in DOMAIN runs |->
                        IF runs[q].of = a /\ runs[q].row # "none" THEN [runs[q] EXCEPT !.row = "gone"] ELSE runs[q]]
<1>5. ASSUME NEW q \in DOMAIN runs
      PROVE  /\ rowless[q] \in RunRecords
             /\ rowless[q].of = runs[q].of /\ rowless[q].at = runs[q].at /\ rowless[q].stage = runs[q].stage
             /\ rowless[q].step = runs[q].step /\ rowless[q].parent = runs[q].parent
             /\ rowless[q].child = runs[q].child
             /\ rowless[q].gone = runs[q].gone
             /\ rowless[q].row = IF runs[q].of = a /\ runs[q].row # "none" THEN "gone" ELSE runs[q].row
  <2>1. runs[q] \in RunRecords
    BY <1>4, <1>5
  <2>2. rowless[q] = IF runs[q].of = a /\ runs[q].row # "none" THEN [runs[q] EXCEPT !.row = "gone"] ELSE runs[q]
    BY <1>5
  <2> HIDE DEF rowless
  <2>3. CASE runs[q].of = a /\ runs[q].row # "none"
    <3> DEFINE rec == [runs[q] EXCEPT !.row = "gone"]
    <3>1. rowless[q] = rec
      BY <2>2, <2>3
    <3>2. rec \in RunRecords
      BY <2>1 DEF RunRecords
    <3>3. /\ rec.of = runs[q].of /\ rec.at = runs[q].at /\ rec.stage = runs[q].stage
          /\ rec.step = runs[q].step /\ rec.parent = runs[q].parent /\ rec.child = runs[q].child
          /\ rec.gone = runs[q].gone /\ rec.row = "gone"
      BY <2>1 DEF RunRecords
    <3> HIDE DEF rec
    <3> QED  BY <2>3, <3>1, <3>2, <3>3
  <2>4. CASE ~(runs[q].of = a /\ runs[q].row # "none")
    BY <2>1, <2>2, <2>4
  <2> QED  BY <2>3, <2>4
<1>6. DOMAIN rowless = DOMAIN runs /\ rowless \in Seq(RunRecords) /\ Len(rowless) = Len(runs)
  <2>1. DOMAIN rowless = 1..Len(runs) /\ DOMAIN rowless = DOMAIN runs /\ Len(runs) \in Nat
    BY <1>4, LenProperties
  <2>2. rowless \in [1..Len(runs) -> RunRecords]
    BY <1>5, <2>1
  <2> HIDE DEF rowless, RunRecords
  <2>3. rowless \in Seq(RunRecords)
    BY <2>1, <2>2, SeqDef
  <2>4. Len(rowless) = Len(runs)
    BY <2>1, <2>3, LenProperties
  <2> QED  BY <2>1, <2>3, <2>4
<1>7. CASE Forgotten(a) = {}
  <2>1. runs' = rowless /\ jobs' = jobs
    BY <1>7 DEF Delete
  <2>2. \A q \in DOMAIN runs : runs[q].of = a => runs[q].stage \notin {"stepping", "falling"}
    BY <1>7 DEF Forgotten, RunsOf, Holding
  <2>3. \A q \in DOMAIN runs : SaysRight(rowless[q]) /\ (rowless[q].stage = "deciding" => ~rowless[q].gone)
    <3>1. \A q \in DOMAIN runs : SaysRight(runs[q]) /\ (runs[q].stage = "deciding" => ~runs[q].gone)
      BY <1>1 DEF Fit, Stands
    <3> HIDE DEF rowless
    <3> QED  BY <1>5, <2>2, <3>1 DEF SaysRight
  <2> HIDE DEF rowless
  <2>4. Fit(jobs, rowless, running)
    BY <1>1, <1>5, <1>6, <2>3, RowsFit
  <2> QED  BY <1>2, <1>3, <2>1, <2>4, Still
<1>8. ASSUME NEW r \in Forgotten(a),
             runs' = [rowless EXCEPT ![r].gone = TRUE, ![r].stopped = TRUE, ![r].step = Stopped(r)[r].step],
             jobs' = Wakes(r)
      PROVE  RunsInv'
  <2>1. r \in DOMAIN runs /\ runs[r].of = a /\ Holding(r)
    BY DEF Forgotten, RunsOf
  <2> DEFINE rs == Stopped(r)
             was == [rowless[r] EXCEPT !.gone = TRUE, !.stopped = TRUE, !.step = rs[r].step]
  <2>2. /\ Fit(jobs', rs, running) /\ Len(rs) = Len(runs) /\ DOMAIN rs = DOMAIN runs
        /\ \A q \in DOMAIN runs : q # r => rs[q] = runs[q]
    BY <1>1, <1>8, <2>1, StoppedFits, StoppedAloneFits
  <2>3. /\ rs[r].of = runs[r].of /\ rs[r].at = runs[r].at /\ rs[r].stage = runs[r].stage
        /\ rs[r].parent = runs[r].parent /\ rs[r].child = runs[r].child
        /\ rs[r] \in RunRecords
    <3>1. rs[r] = [runs[r] EXCEPT !.stopped = TRUE, !.step = IF Wakeable(r) THEN "woken" ELSE @]
      BY <1>1, <2>1, StoppedFits
    <3>2. rs[r] \in RunRecords
      <4> HIDE DEF rs, RunRecords
      <4> QED  BY <2>1, <2>2, Indices DEF Fit
    <3> HIDE DEF rs
    <3> QED  BY <1>4, <2>1, <3>1, <3>2 DEF RunRecords
  <2>4. runs' = [rowless EXCEPT ![r] = was]
    BY <1>8
  <2>5. /\ was \in RunRecords /\ was.of = runs[r].of /\ was.at = runs[r].at /\ was.stage = runs[r].stage
        /\ was.step = rs[r].step /\ was.parent = runs[r].parent /\ was.gone = TRUE
        /\ was.child = runs[r].child /\ was.row = rowless[r].row
    <3>1. rowless[r] \in RunRecords /\ rs[r].step \in {"none", "acting", "pausing", "asleep", "starting",
                                                     "beginning", "awaiting", "woken"}
      BY <1>5, <2>1, <2>3 DEF RunRecords
    <3> HIDE DEF rowless, rs
    <3> QED  BY <1>5, <2>1, <3>1 DEF RunRecords
  <2>6. /\ runs' \in Seq(RunRecords) /\ Len(runs') = Len(runs) /\ DOMAIN runs' = DOMAIN runs
        /\ runs'[r] = was /\ \A q \in DOMAIN runs : q # r => runs'[q] = rowless[q]
    <3>1. was \in RunRecords /\ r \in DOMAIN rowless
      BY <1>6, <2>1, <2>5
    <3> HIDE DEF was, rowless, RunRecords
    <3> QED  BY <1>6, <2>4, <3>1, Changed
  <2> HIDE DEF was, rs, rowless
  <2>7. ASSUME NEW q \in DOMAIN runs
        PROVE  /\ runs'[q].of = rs[q].of /\ runs'[q].at = rs[q].at /\ runs'[q].stage = rs[q].stage
               /\ runs'[q].step = rs[q].step /\ runs'[q].parent = rs[q].parent /\ runs'[q].child = rs[q].child
               /\ SaysRight(runs'[q])
               /\ runs'[q].stage = "deciding" => ~runs'[q].gone
    <3>1. CASE q = r
      <4>1. rowless[r].row # "running"
        BY <1>5, <2>1
      <4> QED  BY <2>1, <2>3, <2>5, <2>6, <3>1, <4>1 DEF SaysRight, Holding
    <3>2. CASE q # r
      <4>1. runs'[q] = rowless[q] /\ rs[q] = runs[q] /\ SaysRight(runs[q]) /\ Stands(runs[q], Len(runs))
        BY <1>1, <2>2, <2>6, <3>2 DEF Fit
      <4>2. runs[q].of = a => runs[q].stage = "over"
        BY <1>1, <2>1, <3>2 DEF Fit, OneEach, Holding
      <4> QED  BY <1>5, <4>1, <4>2 DEF SaysRight, Stands
    <3> QED  BY <3>1, <3>2
  <2>8. Fit(jobs', runs', running)
    BY <2>2, <2>6, <2>7, RowsFit
  <2> QED  BY <1>2, <1>3, <2>8, Still
<1> QED  BY <1>7, <1>8 DEF Delete

\* A function from the same indices is a sequence as long.
LEMMA AsLong ==
  ASSUME NEW rs \in Seq(RunRecords), NEW f, DOMAIN f = DOMAIN rs,
         f = [q \in DOMAIN rs |-> f[q]], \A q \in DOMAIN rs : f[q] \in RunRecords
  PROVE  f \in Seq(RunRecords) /\ Len(f) = Len(rs)
<1>1. DOMAIN f = 1..Len(rs) /\ Len(rs) \in Nat
  BY LenProperties
<1>2. f \in [1..Len(rs) -> RunRecords]
  BY <1>1
<1> HIDE DEF RunRecords
<1>3. f \in Seq(RunRecords)
  BY <1>1, <1>2, SeqDef
<1>4. Len(f) = Len(rs)
  BY <1>1, <1>3, LenProperties
<1> QED  BY <1>3, <1>4

\* What is left while the server is down.
LEMMA StillDown ==
  ASSUME runs' \in Seq(RunRecords), running' = {}, jobs' = <<>>, up' = FALSE,
         \A r \in DOMAIN runs' : runs'[r].stage = "over" /\ Stands(runs'[r], Len(runs')),
         mode' \in [Automations -> {"on", "off", "gone"}], queued' \in [Automations -> 0..QueueLimit],
         soon' \in [Automations -> BOOLEAN], asks' \in 0..MaxAsks, crashes' \in 0..MaxCrashes
  PROVE  RunsInv'
<1>1. <<>> \in Seq([do : JobKinds, run : DOMAIN runs'])
  OBVIOUS
<1>2. TypeOK'
  BY <1>1 DEF TypeOK
<1>3. Idle'
  BY DEF Idle, Active
<1> QED  BY <1>2, <1>3 DEF RunsInv

LEMMA CrashKeeps ==
  ASSUME RunsInv, Crash
  PROVE  RunsInv'
<1>1. up /\ Fit(jobs, runs, running)
  BY DEF Crash, RunsInv
<1>2. /\ runs' = [r \in DOMAIN runs |-> LostRun(r)] /\ running' = {} /\ jobs' = <<>> /\ up' = FALSE
      /\ mode' = mode /\ soon' = soon /\ asks' = asks /\ crashes' = crashes + 1 /\ crashes < MaxCrashes
      /\ queued' = [a \in Automations |-> 0]
  BY DEF Crash
<1>3. /\ mode' \in [Automations -> {"on", "off", "gone"}] /\ asks' \in 0..MaxAsks /\ crashes' \in 0..MaxCrashes
      /\ queued' \in [Automations -> 0..QueueLimit] /\ soon' \in [Automations -> BOOLEAN]
  <2>1. MaxCrashes \in Nat /\ 0 \in 0..QueueLimit
    BY RunsAssumption
  <2> QED  BY <1>2, <2>1 DEF RunsInv, TypeOK
<1>4. runs \in Seq(RunRecords) /\ Len(runs) \in Nat
      /\ \A q \in DOMAIN runs : runs[q] \in RunRecords /\ q \in Nat \ {0}
  BY <1>1, Indices DEF Fit
<1>5. ASSUME NEW r \in DOMAIN runs
      PROVE  /\ LostRun(r) \in RunRecords /\ LostRun(r).stage = "over" /\ LostRun(r).step = "none"
             /\ LostRun(r).parent = 0 /\ LostRun(r).child = 0
  <2>1. runs[r].of \in Automations /\ runs[r].row \in {"none", "running", "ended", "interrupted", "gone"}
    BY <1>4 DEF RunRecords
  <2> DEFINE new == NewRun(runs[r].of, "trigger", Nobody)
  <2>2. /\ new \in RunRecords /\ new.step = "none" /\ new.parent = 0 /\ new.child = 0
    BY <1>4, <2>1, SMTT(30) DEF NewRun, RunRecords, Nobody
  <2>3. LostRun(r) = [new EXCEPT !.root = r, !.stage = "over", !.outcome = "lost", !.row = runs[r].row]
    BY DEF LostRun
  <2> HIDE DEF new
  <2> DEFINE lost == [new EXCEPT !.root = r, !.stage = "over", !.outcome = "lost", !.row = runs[r].row]
  <2>4. /\ lost \in RunRecords /\ lost.stage = "over" /\ lost.step = new.step /\ lost.parent = new.parent
        /\ lost.child = new.child
    <3>1. r \in Nat \ {0} /\ new \in RunRecords
      BY <1>4, <2>2
    <3>2. lost \in RunRecords
      BY <2>1, <3>1 DEF RunRecords
    <3>3. lost.stage = "over" /\ lost.step = new.step /\ lost.parent = new.parent
      BY <3>1 DEF RunRecords
    <3>4. lost.child = new.child
      BY <3>1 DEF RunRecords
    <3> QED  BY <3>2, <3>3, <3>4
  <2> HIDE DEF lost
  <2>5. LostRun(r) = lost
    BY <2>3 DEF lost
  <2> QED  BY <2>2, <2>4, <2>5
<1>6. runs' \in Seq(RunRecords) /\ Len(runs') = Len(runs) /\ DOMAIN runs' = DOMAIN runs
  <2>1. /\ DOMAIN runs' = DOMAIN runs /\ runs' = [q \in DOMAIN runs |-> runs'[q]]
        /\ \A q \in DOMAIN runs : runs'[q] \in RunRecords
    BY <1>2, <1>5
  <2> HIDE DEF RunRecords
  <2> QED  BY <1>4, <2>1, AsLong
<1>7. \A r \in DOMAIN runs' : runs'[r].stage = "over" /\ Stands(runs'[r], Len(runs'))
  <2>1. 0 \in 0..Len(runs)
    BY <1>4
  <2>2. TAKE r \in DOMAIN runs'
  <2>3. runs'[r] = LostRun(r) /\ r \in DOMAIN runs
    BY <1>2, <1>6
  <2>4. /\ runs'[r].stage = "over" /\ runs'[r].step = "none"
        /\ runs'[r].parent = 0 /\ runs'[r].child = 0
    BY <1>5, <2>3
  <2> QED  BY <1>6, <2>1, <2>4 DEF Stands
<1> QED  BY <1>2, <1>3, <1>6, <1>7, StillDown

LEMMA BootKeeps ==
  ASSUME RunsInv, Boot
  PROVE  RunsInv'
<1>1. ~up /\ Idle /\ TypeOK
  BY DEF Boot, RunsInv
<1>2. /\ runs' = [r \in DOMAIN runs |-> IF Unended(r) THEN [runs[r] EXCEPT !.row = "interrupted"] ELSE runs[r]]
      /\ running' = running /\ jobs' = <<>> /\ up' = TRUE
      /\ mode' = mode /\ soon' = soon /\ asks' = asks /\ crashes' = crashes /\ queued' = queued
  BY <1>1 DEF Boot, Idle
<1>3. /\ mode' \in [Automations -> {"on", "off", "gone"}] /\ asks' \in 0..MaxAsks /\ crashes' \in 0..MaxCrashes
      /\ queued' \in [Automations -> 0..QueueLimit] /\ soon' \in [Automations -> BOOLEAN]
      /\ running \subseteq Automations
  BY <1>1, <1>2 DEF TypeOK
<1>4. runs \in Seq(RunRecords) /\ \A q \in DOMAIN runs : runs[q] \in RunRecords
  BY <1>1, Indices DEF TypeOK
<1>5. ASSUME NEW r \in DOMAIN runs
      PROVE  /\ runs'[r] \in RunRecords /\ runs'[r].stage = "over" /\ runs'[r].row # "running"
             /\ Stands(runs'[r], Len(runs)) /\ SaysRight(runs'[r])
  <2>1. runs[r].stage = "over" /\ Stands(runs[r], Len(runs)) /\ runs[r] \in RunRecords
    BY <1>1, <1>4 DEF Idle, Active
  <2>2. CASE Unended(r)
    <3> DEFINE was == [runs[r] EXCEPT !.row = "interrupted"]
    <3>1. runs'[r] = was
      BY <1>2, <2>2
    <3>2. /\ was \in RunRecords /\ was.of = runs[r].of /\ was.at = runs[r].at /\ was.stage = "over"
          /\ was.step = runs[r].step /\ was.row = "interrupted" /\ was.parent = runs[r].parent
          /\ was.child = runs[r].child /\ was.gone = runs[r].gone
      BY <2>1 DEF RunRecords
    <3> HIDE DEF was
    <3> QED  BY <2>1, <3>1, <3>2 DEF Stands, SaysRight
  <2>3. CASE ~Unended(r)
    <3>1. runs'[r] = runs[r] /\ runs[r].row # "running"
      BY <1>2, <2>3 DEF Unended
    <3> QED  BY <2>1, <3>1 DEF SaysRight
  <2> QED  BY <2>2, <2>3
<1>6. runs' \in Seq(RunRecords) /\ Len(runs') = Len(runs) /\ DOMAIN runs' = DOMAIN runs
  <2>1. /\ DOMAIN runs' = DOMAIN runs /\ runs' = [q \in DOMAIN runs |-> runs'[q]]
        /\ \A q \in DOMAIN runs : runs'[q] \in RunRecords
    BY <1>2, <1>5
  <2> HIDE DEF RunRecords
  <2> QED  BY <1>4, <2>1, AsLong
<1>7. Fit(jobs', runs', running')
  <2>1. Sound(<<>>, runs')
    BY NoneToCome
  <2>2. OneEach(runs', running')
    BY <1>5, <1>6 DEF OneEach
  <2> QED  BY <1>2, <1>3, <1>5, <1>6, <2>1, <2>2 DEF Fit
<1> QED  BY <1>2, <1>3, <1>7, Still

LEMMA RunsInit ==
  ASSUME Init
  PROVE  RunsInv
<1>1. Sound(<<>>, runs)
  BY NoneToCome
<1>2. Fit(jobs, runs, running)
  BY <1>1 DEF Init, Fit, OneEach
<1>3. TypeOK
  <2>1. 0 \in 0..QueueLimit /\ 0 \in 0..MaxAsks /\ 0 \in 0..MaxCrashes
    BY RunsAssumption
  <2> QED  BY <2>1 DEF Init, TypeOK
<1> QED  BY <1>2, <1>3 DEF RunsInv, Init

\* Every step keeps the invariant.
LEMMA RunsStep ==
  ASSUME RunsInv, [Next]_vars
  PROVE  RunsInv'
<1>1. CASE Call
  BY <1>1, RunKeeps, WalkKeeps, AttachKeeps, BegunKeeps, ChildEndedKeeps, QuitKeeps, StopChildKeeps,
     CaughtKeeps, FreshKeeps, ThenKeeps, EndedTriggeredKeeps, FinallyKeeps DEF Call
<1>2. CASE \E r \in DOMAIN runs : Comes(r) \/ Stop(r)
  BY <1>2, DecideKeeps, AnswerKeeps, SendAgainKeeps, WaitOverKeeps, StopKeeps DEF Comes
<1>3. ASSUME NEW a \in Automations,
             \/ \E happening \in BOOLEAN : Trigger(a, happening)
             \/ Play(a) \/ Turn(a) \/ Delete(a) \/ LaterOn(a)
      PROVE  RunsInv'
  BY <1>3, TriggerKeeps, PlayKeeps, TurnKeeps, DeleteKeeps, LaterOnKeeps
<1>4. CASE Crash \/ Boot
  BY <1>4, CrashKeeps, BootKeeps
<1>5. CASE UNCHANGED vars
  <2>1. /\ mode' = mode /\ runs' = runs /\ running' = running /\ queued' = queued /\ soon' = soon
        /\ jobs' = jobs /\ up' = up /\ asks' = asks /\ crashes' = crashes
    BY <1>5 DEF vars
  <2>2. TypeOK' <=> TypeOK
    BY <2>1 DEF TypeOK
  <2>3. Idle' <=> Idle
    BY <2>1 DEF Idle, Active
  <2>4. Fit(jobs', runs', running') <=> Fit(jobs, runs, running)
    BY <2>1
  <2> QED  BY <2>1, <2>2, <2>3, <2>4 DEF RunsInv
<1> QED  BY <1>1, <1>2, <1>3, <1>4, <1>5 DEF Next

-----------------------------------------------------------------------------
(* What is proved.                                                         *)

LEMMA RunsAlways == Spec => []RunsInv
BY RunsInit, RunsStep, PTL DEF Spec

(* The types: every variable holds what the code's maps and records can (TypeOK). *)
THEOREM TypeCorrect == Spec => []TypeOK
<1>1. RunsInv => TypeOK
  BY DEF RunsInv
<1> QED  BY <1>1, RunsAlways, PTL

(* One run of an automation at a time, whatever starts it and however many there are          *)
(* (the class comment, runs.ts:57-64).                                                        *)
THEOREM OneAtATime == Spec => []OneRunEach
<1>1. RunsInv => OneRunEach
  BY DEF RunsInv, Fit, OneEach, OneRunEach, Active, RunsOf, Idle
<1> QED  BY <1>1, RunsAlways, PTL

(* What a home reads of a run that is under way is true of it (endInterrupted, #moved).       *)
THEOREM SaidTruly == Spec => []SaidRunning
<1>1. RunsInv => SaidRunning
  BY DEF RunsInv, Fit, SaysRight, SaidRunning, Holding
<1> QED  BY <1>1, RunsAlways, PTL

-----------------------------------------------------------------------------
(* Automations take turns with a part.                                     *)

HoldsParts(run) == run.stage \in {"stepping", "falling"}

\* The chains that hold a part.
Holds(rs, p) == {rs[r].root : r \in {q \in DOMAIN rs : HoldsParts(rs[q]) /\ p \in Changes[rs[q].of]}}

\* All but run r hold what they held.
Beside(rs, rs2, r) ==
  /\ DOMAIN rs \subseteq DOMAIN rs2
  /\ \A q \in DOMAIN rs : rs2[q].of = rs[q].of /\ rs2[q].root = rs[q].root
  /\ \A q \in DOMAIN rs \ {r} : HoldsParts(rs2[q]) <=> HoldsParts(rs[q])
  /\ \A q \in DOMAIN rs2 \ DOMAIN rs : ~HoldsParts(rs2[q])

LEMMA HoldsSame ==
  ASSUME NEW rs, NEW rs2, NEW r, Beside(rs, rs2, r), NEW p,
         r \in DOMAIN rs /\ p \in Changes[rs[r].of] => (HoldsParts(rs2[r]) <=> HoldsParts(rs[r]))
  PROVE  Holds(rs2, p) = Holds(rs, p)
<1>1. \A q \in DOMAIN rs2 : HoldsParts(rs2[q]) /\ p \in Changes[rs2[q].of]
        => q \in DOMAIN rs /\ HoldsParts(rs[q]) /\ p \in Changes[rs[q].of] /\ rs2[q].root = rs[q].root
  BY DEF Beside
<1>2. \A q \in DOMAIN rs : HoldsParts(rs[q]) /\ p \in Changes[rs[q].of]
        => q \in DOMAIN rs2 /\ HoldsParts(rs2[q]) /\ p \in Changes[rs2[q].of] /\ rs2[q].root = rs[q].root
  BY DEF Beside
<1>3. Holds(rs2, p) \subseteq Holds(rs, p)
  BY <1>1 DEF Holds
<1>4. Holds(rs, p) \subseteq Holds(rs2, p)
  BY <1>2 DEF Holds
<1> QED  BY <1>3, <1>4

\* A run lets go: its chain is gone from the parts that no other run of it holds.
LEMMA HoldsLess ==
  ASSUME NEW rs, NEW rs2, NEW r \in DOMAIN rs, Beside(rs, rs2, r), NEW p,
         HoldsParts(rs[r]), ~HoldsParts(rs2[r])
  PROVE  Holds(rs2, p) = Holds(rs, p) \/ (rs[r].root \in Holds(rs, p) /\ Holds(rs2, p) = Holds(rs, p) \ {rs[r].root})
<1> DEFINE other == \E q \in DOMAIN rs2 : HoldsParts(rs2[q]) /\ p \in Changes[rs2[q].of] /\ rs2[q].root = rs[r].root
<1>1. \A q \in DOMAIN rs2 : HoldsParts(rs2[q]) /\ p \in Changes[rs2[q].of]
        => q # r /\ q \in DOMAIN rs /\ HoldsParts(rs[q]) /\ p \in Changes[rs[q].of] /\ rs2[q].root = rs[q].root
  BY DEF Beside
<1>2. \A q \in DOMAIN rs : q # r /\ HoldsParts(rs[q]) /\ p \in Changes[rs[q].of]
        => q \in DOMAIN rs2 /\ HoldsParts(rs2[q]) /\ p \in Changes[rs2[q].of] /\ rs2[q].root = rs[q].root
  BY DEF Beside
<1>3. Holds(rs2, p) \subseteq Holds(rs, p)
  BY <1>1 DEF Holds
<1>4. Holds(rs, p) \subseteq Holds(rs2, p) \cup {rs[r].root}
  BY <1>2 DEF Holds
<1>5. CASE rs[r].root \in Holds(rs2, p)
  BY <1>3, <1>4, <1>5
<1>6. CASE rs[r].root \notin Holds(rs2, p)
  BY <1>3, <1>4, <1>6
<1> QED  BY <1>5, <1>6

\* A run takes its parts, that no other chain holds.
LEMMA HoldsMore ==
  ASSUME NEW rs, NEW rs2, NEW r \in DOMAIN rs, Beside(rs, rs2, r), NEW p,
         ~HoldsParts(rs[r]), HoldsParts(rs2[r]),
         ~ \E q \in DOMAIN rs : HoldsParts(rs[q]) /\ rs[q].root # rs[r].root /\ Changes[rs[q].of] \cap Changes[rs[r].of] # {}
  PROVE  /\ p \in Changes[rs[r].of] => Holds(rs, p) \subseteq {rs[r].root} /\ Holds(rs2, p) = {rs[r].root}
         /\ p \notin Changes[rs[r].of] => Holds(rs2, p) = Holds(rs, p)
<1>1. ASSUME p \in Changes[rs[r].of]
      PROVE  Holds(rs, p) \subseteq {rs[r].root} /\ Holds(rs2, p) = {rs[r].root}
  <2>1. \A q \in DOMAIN rs : HoldsParts(rs[q]) /\ p \in Changes[rs[q].of] => rs[q].root = rs[r].root
    BY <1>1
  <2>2. \A q \in DOMAIN rs2 : HoldsParts(rs2[q]) /\ p \in Changes[rs2[q].of] => rs2[q].root = rs[r].root
    BY <2>1 DEF Beside
  <2>3. r \in DOMAIN rs2 /\ HoldsParts(rs2[r]) /\ p \in Changes[rs2[r].of] /\ rs2[r].root = rs[r].root
    BY <1>1 DEF Beside
  <2>4. Holds(rs, p) \subseteq {rs[r].root}
    BY <2>1 DEF Holds
  <2>5. Holds(rs2, p) \subseteq {rs[r].root}
    BY <2>2 DEF Holds
  <2>6. rs[r].root \in Holds(rs2, p)
    BY <2>3 DEF Holds
  <2> QED  BY <2>4, <2>5, <2>6
<1>2. ASSUME p \notin Changes[rs[r].of]
      PROVE  Holds(rs2, p) = Holds(rs, p)
  BY <1>2, HoldsSame
<1> QED  BY <1>1, <1>2

LEMMA HeldIs ==
  /\ \A p : HeldBy(p) = Holds(runs, p)
  /\ \A p : HeldBy(p)' = Holds(runs', p)
BY DEF HeldBy, Holding, Holds, HoldsParts

Held == [p \in Parts |-> HeldBy(p)]

\* What one run may do to the parts it changes: take them when they are free, or let them go.
LEMMA OneTurn ==
  ASSUME NEW r, Beside(runs, runs', r), r \in DOMAIN runs' => r \in DOMAIN runs,
         r \in DOMAIN runs /\ ~HoldsParts(runs[r]) /\ HoldsParts(runs'[r]) => ~Taken(r),
         r \in DOMAIN runs => Changes[runs[r].of] \subseteq Parts
  PROVE  Turns!Next \/ UNCHANGED Held
<1>1. /\ \A p \in Parts : Held[p] = Holds(runs, p) /\ Held'[p] = Holds(runs', p)
      /\ Held = [p \in Parts |-> Held[p]] /\ Held' = [p \in Parts |-> Held'[p]]
  BY HeldIs DEF Held
<1>2. CASE r \in DOMAIN runs => (HoldsParts(runs'[r]) <=> HoldsParts(runs[r]))
  <2>1. \A p \in Parts : Held'[p] = Held[p]
    BY <1>1, <1>2, HoldsSame
  <2> QED  BY <1>1, <2>1
<1>3. CASE r \in DOMAIN runs /\ HoldsParts(runs[r]) /\ ~HoldsParts(runs'[r])
  <2> DEFINE c == runs[r].root
             ps == {p \in Parts : Held'[p] # Held[p]}
  <2>1. \A p \in Parts : Held'[p] = Held[p] \/ (c \in Held[p] /\ Held'[p] = Held[p] \ {c})
    BY <1>1, <1>3, HoldsLess
  <2>2. \A p \in Parts : Held'[p] = IF p \in ps THEN Held[p] \ {c} ELSE Held[p]
    BY <2>1
  <2>3. CASE ps = {}
    BY <1>1, <2>3
  <2>4. CASE ps # {}
    <3>1. c \in UNION {Held[p] : p \in Parts}
      BY <2>1, <2>4
    <3>2. Held' = [p \in Parts |-> IF p \in ps THEN Held[p] \ {c} ELSE Held[p]]
      BY <1>1, <2>2
    <3>3. ps \in SUBSET Parts
      OBVIOUS
    <3> HIDE DEF c, ps
    <3>4. Turns!LetGo(c, ps) /\ c \in Turns!Holders
      BY <3>1, <3>2 DEF Turns!LetGo, Turns!Holders, Held
    <3> QED  BY <3>3, <3>4 DEF Turns!Next
  <2> QED  BY <2>3, <2>4
<1>4. CASE r \in DOMAIN runs /\ ~HoldsParts(runs[r]) /\ HoldsParts(runs'[r])
  <2> DEFINE c == runs[r].root
             ps == Changes[runs[r].of]
  <2>1. \A p \in Parts : /\ p \in ps => Held[p] \subseteq {c} /\ Held'[p] = {c}
                         /\ p \notin ps => Held'[p] = Held[p]
    <3>1. ~ \E q \in DOMAIN runs : HoldsParts(runs[q]) /\ runs[q].root # c /\ Changes[runs[q].of] \cap ps # {}
      BY <1>4 DEF Taken, Holding, HoldsParts
    <3> QED  BY <1>1, <1>4, <3>1, HoldsMore
  <2>2. ps \in SUBSET Parts
    BY <1>4
  <2>3. CASE ps = {}
    BY <1>1, <2>1, <2>3
  <2>4. CASE ps # {}
    <3>1. c \in UNION {Held'[p] : p \in Parts}
      BY <2>1, <2>2, <2>4
    <3>2. Held' = [p \in Parts |-> IF p \in ps THEN {c} ELSE Held[p]]
      BY <1>1, <2>1
    <3>3. \A p \in ps : Held[p] \subseteq {c}
      BY <2>1, <2>2
    <3> HIDE DEF c, ps
    <3>4. Turns!Take(c, ps) /\ c \in Turns!Holders'
      BY <2>2, <3>1, <3>2, <3>3 DEF Turns!Take, Turns!Holders, Held
    <3> QED  BY <2>2, <3>4 DEF Turns!Next
  <2> QED  BY <2>3, <2>4
<1> QED  BY <1>2, <1>3, <1>4

\* At most one run takes its parts or lets them go, and takes them only when they are free.
Moved ==
  \E r :
    /\ Beside(runs, runs', r)
    /\ r \in DOMAIN runs' => r \in DOMAIN runs
    /\ r \in DOMAIN runs /\ ~HoldsParts(runs[r]) /\ HoldsParts(runs'[r]) => ~Taken(r)

LEMMA MovedTurns ==
  ASSUME RunsInv, Moved
  PROVE  Turns!Next \/ UNCHANGED Held
<1>1. PICK r :
        /\ Beside(runs, runs', r)
        /\ r \in DOMAIN runs' => r \in DOMAIN runs
        /\ r \in DOMAIN runs /\ ~HoldsParts(runs[r]) /\ HoldsParts(runs'[r]) => ~Taken(r)
  BY DEF Moved
<1>2. r \in DOMAIN runs => Changes[runs[r].of] \subseteq Parts
  <2>1. r \in DOMAIN runs => runs[r].of \in Automations
    BY Indices DEF RunsInv, TypeOK, RunRecords
  <2> QED  BY <2>1, RunsAssumption
<1> QED  BY <1>1, <1>2, OneTurn

\* No run takes its parts or lets them go.
LEMMA MovedNone ==
  ASSUME DOMAIN runs' = DOMAIN runs,
         \A q \in DOMAIN runs :
           /\ runs'[q].of = runs[q].of /\ runs'[q].root = runs[q].root
           /\ HoldsParts(runs'[q]) <=> HoldsParts(runs[q])
  PROVE  Moved
<1>1. Beside(runs, runs', 0)
  BY DEF Beside
<1> QED  BY <1>1 DEF Moved

\* One run goes on.
LEMMA MovedOne ==
  ASSUME NEW r \in DOMAIN runs, NEW rec, runs' = [runs EXCEPT ![r] = rec], runs \in Seq(RunRecords),
         rec.of = runs[r].of, rec.root = runs[r].root, HoldsParts(rec) => HoldsParts(runs[r]) \/ ~Taken(r)
  PROVE  Moved
<1>1. DOMAIN runs' = DOMAIN runs /\ runs'[r] = rec /\ \A q \in DOMAIN runs : q # r => runs'[q] = runs[q]
  BY Indices
<1>2. Beside(runs, runs', r)
  BY <1>1 DEF Beside
<1> QED  BY <1>1, <1>2 DEF Moved

\* One run goes on, and one more begins to decide.
LEMMA MovedGrown ==
  ASSUME NEW r \in DOMAIN runs, NEW rec \in RunRecords, runs \in Seq(RunRecords),
         NEW rs, rs = [runs EXCEPT ![r] = rec], NEW new \in RunRecords, runs' = Append(rs, new),
         rec.of = runs[r].of, rec.root = runs[r].root, HoldsParts(rec) => HoldsParts(runs[r]),
         new.stage = "deciding"
  PROVE  Moved
<1>1. /\ rs \in Seq(RunRecords) /\ Len(rs) = Len(runs) /\ DOMAIN rs = DOMAIN runs
      /\ rs[r] = rec /\ \A q \in DOMAIN runs : q # r => rs[q] = runs[q]
  <2> HIDE DEF RunRecords
  <2> QED  BY Changed
<1>2. /\ DOMAIN runs' = DOMAIN rs \cup {Len(rs) + 1} /\ runs'[Len(rs) + 1] = new
      /\ \A q \in DOMAIN rs : runs'[q] = rs[q]
  <2> HIDE DEF RunRecords
  <2> QED  BY <1>1, Grown
<1>3. Beside(runs, runs', r)
  BY <1>1, <1>2 DEF Beside, HoldsParts
<1>4. r \in DOMAIN runs' /\ runs'[r] = rec
  BY <1>1, <1>2
<1> QED  BY <1>3, <1>4 DEF Moved

\* One more begins to decide.
LEMMA MovedNew ==
  ASSUME runs \in Seq(RunRecords), NEW new \in RunRecords, runs' = Append(runs, new), new.stage = "deciding"
  PROVE  Moved
<1>1. /\ DOMAIN runs' = DOMAIN runs \cup {Len(runs) + 1} /\ runs'[Len(runs) + 1] = new
      /\ \A q \in DOMAIN runs : runs'[q] = runs[q]
  <2> HIDE DEF RunRecords
  <2> QED  BY Grown
<1>2. Len(runs) \in Nat /\ DOMAIN runs = 1..Len(runs)
  BY Indices
<1>3. 0 \notin DOMAIN runs'
  BY <1>1, <1>2
<1>4. Beside(runs, runs', 0)
  BY <1>1 DEF Beside, HoldsParts
<1> QED  BY <1>3, <1>4 DEF Moved

LEMMA SettleMoved ==
  ASSUME NEW r \in DOMAIN runs, NEW how, NEW row, NEW rest, Settle(r, how, row, rest), runs \in Seq(RunRecords)
  PROVE  Moved
<1> DEFINE rec == [runs[r] EXCEPT !.stage = "settled", !.step = "none", !.outcome = how, !.row = row]
<1>1. runs[r] \in RunRecords
  BY Indices
<1>2. rec.of = runs[r].of /\ rec.root = runs[r].root /\ rec.stage = "settled"
  BY <1>1 DEF RunRecords
<1>3. runs' = [runs EXCEPT ![r] = rec]
  BY DEF Settle
<1> HIDE DEF rec
<1> QED  BY <1>2, <1>3, MovedOne DEF HoldsParts

LEMMA ConcludeMoved ==
  ASSUME NEW r \in DOMAIN runs, NEW how, NEW rest, Conclude(r, how, rest), runs \in Seq(RunRecords)
  PROVE  Moved
<1>1. CASE how \in {"failed", "stopped"} /\ runs[r].of \in Rescued /\ runs[r].stage = "stepping"
  <2> DEFINE rec == [runs[r] EXCEPT !.stage = "falling", !.step = "acting", !.retried = 0, !.outcome = how]
  <2>1. runs[r] \in RunRecords
    BY Indices
  <2>2. rec.of = runs[r].of /\ rec.root = runs[r].root /\ HoldsParts(runs[r])
    BY <1>1, <2>1 DEF RunRecords, HoldsParts
  <2>3. runs' = [runs EXCEPT ![r] = rec]
    BY <1>1 DEF Conclude
  <2> HIDE DEF rec
  <2> QED  BY <2>2, <2>3, MovedOne
<1>2. CASE ~ (how \in {"failed", "stopped"} /\ runs[r].of \in Rescued /\ runs[r].stage = "stepping")
  <2>1. Settle(r, IF runs[r].stage = "falling" THEN runs[r].outcome ELSE how, RowAtEnd(r), rest)
    BY <1>2 DEF Conclude
  <2> QED  BY <2>1, SettleMoved
<1> QED  BY <1>1, <1>2

LEMMA GoesOnMoved ==
  ASSUME NEW r \in DOMAIN runs, NEW rest, GoesOn(r, rest), runs \in Seq(RunRecords)
  PROVE  Moved
<1> DEFINE rec == [runs[r] EXCEPT !.step = "none", !.at = @ + 1, !.child = Nobody]
<1>1. runs[r] \in RunRecords
  BY Indices
<1>2. rec.of = runs[r].of /\ rec.root = runs[r].root /\ rec.stage = runs[r].stage
  BY <1>1 DEF RunRecords
<1>3. runs' = [runs EXCEPT ![r] = rec]
  BY DEF GoesOn
<1> HIDE DEF rec
<1> QED  BY <1>2, <1>3, MovedOne DEF HoldsParts

LEMMA BeginsMoved ==
  ASSUME NEW r \in DOMAIN runs, NEW rest, Begins(r, rest), runs \in Seq(RunRecords)
  PROVE  Moved
<1>1. CASE Taken(r)
  BY <1>1, SettleMoved DEF Begins
<1>2. CASE ~Taken(r) /\ runs[r].of \in Sequences /\ mode[runs[r].of] = "gone"
  BY <1>2, SettleMoved DEF Begins
<1>3. CASE ~Taken(r) /\ ~ (runs[r].of \in Sequences /\ mode[runs[r].of] = "gone")
  <2> DEFINE row == IF runs[r].of \in Sequences THEN "running" ELSE "none"
             rec == [runs[r] EXCEPT !.stage = "stepping", !.at = 1, !.row = row]
  <2>1. runs[r] \in RunRecords
    BY Indices
  <2>2. runs' = [runs EXCEPT ![r] = rec]
    BY <1>3 DEF Begins
  <2>3. rec.of = runs[r].of /\ rec.root = runs[r].root
    BY <2>1 DEF RunRecords
  <2> HIDE DEF rec
  <2> QED  BY <1>3, <2>2, <2>3, MovedOne
<1> QED  BY <1>1, <1>2, <1>3

LEMMA StartTriggeredMoved ==
  ASSUME NEW a \in Automations, NEW rest, StartTriggered(a, rest), runs \in Seq(RunRecords)
  PROVE  Moved
<1>1. CASE mode[a] = "gone"
  <2>1. runs' = runs
    BY <1>1 DEF StartTriggered
  <2> QED  BY <2>1, MovedNone
<1>2. CASE mode[a] # "gone"
  <2> DEFINE new == NewRun(a, "trigger", Nobody)
  <2>1. Len(runs) \in Nat
    BY Indices
  <2>2. new \in RunRecords /\ new.stage = "deciding"
    BY <2>1 DEF NewRun, RunRecords, Nobody
  <2>3. runs' = Append(runs, new)
    BY <1>2 DEF StartTriggered
  <2> HIDE DEF new
  <2> QED  BY <2>2, <2>3, MovedNew
<1> QED  BY <1>1, <1>2

LEMMA EndedMoved ==
  ASSUME NEW r \in DOMAIN runs, NEW rest, Ended(r, rest), runs \in Seq(RunRecords)
  PROVE  Moved
<1> DEFINE a == runs[r].of
           over == [runs EXCEPT ![r].stage = "over"]
           done == [runs[r] EXCEPT !.stage = "over"]
           new == NewRun(a, "trigger", Nobody)
<1>1. runs[r] \in RunRecords /\ Len(runs) \in Nat
  BY Indices
<1>2. done \in RunRecords /\ done.of = runs[r].of /\ done.root = runs[r].root /\ done.stage = "over"
  BY <1>1 DEF RunRecords
<1>3. over = [runs EXCEPT ![r] = done]
  OBVIOUS
<1>4. CASE runs' = over
  <2> HIDE DEF over, done
  <2> QED  BY <1>2, <1>3, <1>4, MovedOne DEF HoldsParts
<1>5. CASE runs' = Append(over, new)
  <2>1. a \in Automations
    BY <1>1 DEF RunRecords
  <2>2. new \in RunRecords /\ new.stage = "deciding"
    BY <1>1, <2>1 DEF NewRun, RunRecords, Nobody
  <2>3. done \in RunRecords /\ ~HoldsParts(done)
    BY <1>2 DEF HoldsParts
  <2> HIDE DEF over, done, new, RunRecords
  <2> QED  BY <1>2, <1>3, <1>5, <2>2, <2>3, MovedGrown
<1> QED  BY <1>4, <1>5 DEF Ended

LEMMA StoppedMoved ==
  ASSUME NEW r \in DOMAIN runs, runs' = Stopped(r), runs \in Seq(RunRecords)
  PROVE  Moved
<1> DEFINE rec == [runs[r] EXCEPT !.stopped = TRUE, !.step = IF Wakeable(r) THEN "woken" ELSE @]
<1>1. runs[r] \in RunRecords
  BY Indices
<1>2. rec.of = runs[r].of /\ rec.root = runs[r].root /\ rec.stage = runs[r].stage
  BY <1>1 DEF RunRecords
<1>3. runs' = [runs EXCEPT ![r] = rec]
  BY DEF Stopped
<1> HIDE DEF rec
<1> QED  BY <1>2, <1>3, MovedOne DEF HoldsParts

\* Only what a run waits for in its step changes, and what it has tried.
LEMMA StepMoved ==
  ASSUME NEW r \in DOMAIN runs, runs \in Seq(RunRecords), NEW step, NEW retried,
         runs' = [runs EXCEPT ![r] = [runs[r] EXCEPT !.step = step, !.retried = retried]]
  PROVE  Moved
<1> DEFINE rec == [runs[r] EXCEPT !.step = step, !.retried = retried]
<1>1. runs[r] \in RunRecords
  BY Indices
<1>2. rec.of = runs[r].of /\ rec.root = runs[r].root /\ rec.stage = runs[r].stage
  BY <1>1 DEF RunRecords
<1>3. runs' = [runs EXCEPT ![r] = rec]
  OBVIOUS
<1> HIDE DEF rec
<1> QED  BY <1>2, <1>3, MovedOne DEF HoldsParts

LEMMA StepOnlyMoved ==
  ASSUME NEW r \in DOMAIN runs, runs \in Seq(RunRecords), NEW step, runs' = [runs EXCEPT ![r].step = step]
  PROVE  Moved
<1> DEFINE rec == [runs[r] EXCEPT !.step = step]
<1>1. runs[r] \in RunRecords
  BY Indices
<1>2. rec.of = runs[r].of /\ rec.root = runs[r].root /\ rec.stage = runs[r].stage
  BY <1>1 DEF RunRecords
<1>3. runs' = [runs EXCEPT ![r] = rec]
  OBVIOUS
<1> HIDE DEF rec
<1> QED  BY <1>2, <1>3, MovedOne DEF HoldsParts

LEMMA StartStepMoved ==
  ASSUME NEW r \in DOMAIN runs, StartStep(r), runs \in Seq(RunRecords)
  PROVE  Moved
<1> DEFINE b == Starts[runs[r].of]
           n == Len(runs) + 1
           new == NewRun(b, "run", r)
           was == [runs[r] EXCEPT !.step = "starting", !.child = n]
           rs == [runs EXCEPT ![r].step = "starting", ![r].child = n]
<1>1. runs[r] \in RunRecords /\ Len(runs) \in Nat /\ r \in Nat \ {0} /\ n \in Nat
  BY Indices
<1>2. CASE StartRefused(r)
  BY <1>2, ConcludeMoved DEF StartStep
<1>3. CASE ~StartRefused(r)
  <2>1. runs' = Append(rs, new)
    BY <1>3 DEF StartStep
  <2>2. b \in Automations /\ runs[r].of \in Automations
    BY <1>1, RunsAssumption DEF RunRecords
  <2>3. runs[r].root \in Nat \ {0} /\ runs[r].chain \cup {runs[r].of} \in SUBSET Automations
    <3>1. runs[r].root \in Nat \ {0} /\ runs[r].chain \in SUBSET Automations
      BY <1>1 DEF RunRecords
    <3> QED  BY <2>2, <3>1
  <2>4. new \in RunRecords /\ new.stage = "deciding"
    BY <1>1, <2>2, <2>3 DEF NewRun, RunRecords, Nobody
  <2>5. /\ was \in RunRecords /\ was.of = runs[r].of /\ was.root = runs[r].root /\ was.stage = runs[r].stage
    <3> HIDE DEF n
    <3> QED  BY <1>1 DEF RunRecords
  <2>6. rs = [runs EXCEPT ![r] = was]
    OBVIOUS
  <2>7. HoldsParts(was) => HoldsParts(runs[r])
    BY <2>5 DEF HoldsParts
  <2> HIDE DEF rs, was, new, RunRecords
  <2> QED  BY <2>1, <2>4, <2>5, <2>6, <2>7, MovedGrown
<1> QED  BY <1>2, <1>3

LEMMA WalkMoved ==
  ASSUME NEW r \in DOMAIN runs, r = Head(jobs).run, Walk, runs \in Seq(RunRecords)
  PROVE  Moved
<1>1. CASE Conclude(r, "stopped", Tail(jobs))
  BY <1>1, ConcludeMoved
<1>2. CASE Settle(r, "acted", RowAtEnd(r), Tail(jobs))
  BY <1>2, SettleMoved
<1>3. CASE runs' = [runs EXCEPT ![r].step = IF StepOf(r) = "act" THEN "acting" ELSE "asleep",
                                ![r].retried = 0]
  <2> DEFINE step == IF StepOf(r) = "act" THEN "acting" ELSE "asleep"
  <2>1. runs' = [runs EXCEPT ![r] = [runs[r] EXCEPT !.step = step, !.retried = 0]]
    BY <1>3
  <2> HIDE DEF step
  <2> QED  BY <2>1, StepMoved
<1>4. CASE StartStep(r)
  BY <1>4, StartStepMoved
<1> QED  BY <1>1, <1>2, <1>3, <1>4 DEF Walk

LEMMA CallMoved ==
  ASSUME RunsInv, Call
  PROVE  Moved
<1> DEFINE r == Head(jobs).run
<1>1. runs \in Seq(RunRecords)
  BY DEF RunsInv, TypeOK
<1>2. r \in DOMAIN runs
  BY Called DEF Call, Run, Walk, Attach, Begun, ChildEnded, Quit, StopChild, Caught, Fresh, Then,
                EndedTriggered, Finally
<1>3. runs' = runs => Moved
  BY MovedNone
<1>4. CASE Run
  <2>1. runs' = runs \/ Begins(r, Tail(jobs))
    BY <1>4 DEF Run
  <2> QED  BY <1>1, <1>2, <1>3, <2>1, BeginsMoved
<1>5. CASE Walk
  BY <1>1, <1>2, <1>5, WalkMoved
<1>6. CASE Attach
  <2>1. runs' = [runs EXCEPT ![r].step = "beginning"]
    BY <1>6 DEF Attach
  <2> HIDE DEF r
  <2> QED  BY <1>1, <1>2, <2>1, StepOnlyMoved
<1>7. CASE Begun
  <2>1. \/ Conclude(r, "failed", Tail(jobs)) \/ GoesOn(r, Tail(jobs))
        \/ runs' = [runs EXCEPT ![r].step = "awaiting"]
    BY <1>7 DEF Begun
  <2> HIDE DEF r
  <2> QED  BY <1>1, <1>2, <2>1, ConcludeMoved, GoesOnMoved, StepOnlyMoved
<1>8. CASE ChildEnded
  <2>1. runs' = runs \/ Conclude(r, "failed", Tail(jobs)) \/ GoesOn(r, Tail(jobs))
    BY <1>8 DEF ChildEnded
  <2> HIDE DEF r
  <2> QED  BY <1>1, <1>2, <1>3, <2>1, ConcludeMoved, GoesOnMoved
<1>9. CASE Quit
  BY <1>1, <1>2, <1>9, ConcludeMoved DEF Quit
<1>10. CASE StopChild
  <2>1. runs' = runs \/ \E q \in DOMAIN runs : runs' = Stopped(q)
    BY <1>10 DEF StopChild, RunsOf
  <2> QED  BY <1>1, <1>3, <2>1, StoppedMoved
<1>11. CASE Caught
  BY <1>3, <1>11 DEF Caught
<1>12. CASE Fresh
  <2>1. runs' = runs \/ StartTriggered(runs[r].of, Tail(jobs))
    BY <1>12 DEF Fresh
  <2>2. runs[r].of \in Automations
    BY <1>1, <1>2, Indices DEF RunRecords
  <2> QED  BY <1>1, <1>3, <2>1, <2>2, StartTriggeredMoved
<1>13. CASE Then
  BY <1>3, <1>13 DEF Then
<1>14. CASE EndedTriggered
  BY <1>1, <1>2, <1>14, EndedMoved DEF EndedTriggered
<1>15. CASE Finally
  BY <1>1, <1>2, <1>15, EndedMoved DEF Finally
<1> QED  BY <1>4, <1>5, <1>6, <1>7, <1>8, <1>9, <1>10, <1>11, <1>12, <1>13, <1>14, <1>15 DEF Call

LEMMA ComesMoved ==
  ASSUME RunsInv, NEW r \in DOMAIN runs, Comes(r) \/ Stop(r)
  PROVE  Moved
<1>1. runs \in Seq(RunRecords)
  BY DEF RunsInv, TypeOK
<1>2. CASE Decide(r)
  BY <1>1, <1>2, BeginsMoved, SettleMoved DEF Decide
<1>3. CASE Answer(r)
  <2>1. \/ GoesOn(r, jobs) \/ Conclude(r, "failed", jobs)
        \/ \E why \in {1, 2} : runs' = [runs EXCEPT ![r].step = "pausing", ![r].retried = why]
    BY <1>3 DEF Answer
  <2>2. ASSUME NEW why \in {1, 2}, runs' = [runs EXCEPT ![r].step = "pausing", ![r].retried = why]
        PROVE  Moved
    <3>1. runs' = [runs EXCEPT ![r] = [runs[r] EXCEPT !.step = "pausing", !.retried = why]]
      BY <2>2
    <3> QED  BY <1>1, <3>1, StepMoved
  <2> QED  BY <1>1, <2>1, <2>2, GoesOnMoved, ConcludeMoved
<1>4. CASE SendAgain(r)
  BY <1>1, <1>4, StepOnlyMoved DEF SendAgain
<1>5. CASE WaitOver(r)
  BY <1>1, <1>5, GoesOnMoved, ConcludeMoved DEF WaitOver
<1>6. CASE Stop(r)
  BY <1>1, <1>6, StoppedMoved DEF Stop
<1> QED  BY <1>2, <1>3, <1>4, <1>5, <1>6 DEF Comes

LEMMA TriggerMoved ==
  ASSUME NEW a \in Automations, NEW happening \in BOOLEAN, Trigger(a, happening), runs \in Seq(RunRecords)
  PROVE  Moved
<1>1. CASE StartTriggered(a, jobs)
  BY <1>1, StartTriggeredMoved
<1>2. CASE runs' = runs
  BY <1>2, MovedNone
<1>3. CASE \E r \in RunsOf(a) :
             LET after == IF Holding(r) THEN Stopped(r) ELSE runs
             IN  runs' = [after EXCEPT ![r].waiting = @ + 1]
  <2>1. PICK r \in DOMAIN runs :
             LET after == IF Holding(r) THEN Stopped(r) ELSE runs
             IN  runs' = [after EXCEPT ![r].waiting = @ + 1]
    BY <1>3 DEF RunsOf
  <2>2. runs[r] \in RunRecords
    BY Indices
  <2>3. CASE Holding(r)
    <3> DEFINE was == [runs[r] EXCEPT !.stopped = TRUE, !.step = IF Wakeable(r) THEN "woken" ELSE @]
               rec == [was EXCEPT !.waiting = @ + 1]
    <3>0. Stopped(r) = [runs EXCEPT ![r] = was]
      BY DEF Stopped
    <3>a. runs' = [Stopped(r) EXCEPT ![r] = [Stopped(r)[r] EXCEPT !.waiting = @ + 1]]
      BY <2>1, <2>3
    <3>b. Stopped(r)[r] = was
      BY <3>0
    <3>1. runs' = [runs EXCEPT ![r] = rec]
      <4> HIDE DEF was, Stopped
      <4>1. runs' = [[runs EXCEPT ![r] = was] EXCEPT ![r] = rec]
        BY <3>0, <3>a, <3>b DEF rec
      <4> HIDE DEF rec
      <4> QED  BY <4>1
    <3>2. was.of = runs[r].of /\ was.root = runs[r].root /\ was.stage = runs[r].stage
      BY <2>2 DEF RunRecords
    <3>3. rec.of = was.of /\ rec.root = was.root /\ rec.stage = was.stage
      BY <2>2 DEF RunRecords
    <3> HIDE DEF was, rec
    <3> QED  BY <3>1, <3>2, <3>3, MovedOne DEF HoldsParts
  <2>4. CASE ~Holding(r)
    <3> DEFINE rec == [runs[r] EXCEPT !.waiting = @ + 1]
    <3>1. runs' = [runs EXCEPT ![r] = rec]
      BY <2>1, <2>4
    <3>2. rec.of = runs[r].of /\ rec.root = runs[r].root /\ rec.stage = runs[r].stage
      BY <2>2 DEF RunRecords
    <3> HIDE DEF rec
    <3> QED  BY <3>1, <3>2, MovedOne DEF HoldsParts
  <2> QED  BY <2>3, <2>4
<1> QED  BY <1>1, <1>2, <1>3 DEF Trigger

LEMMA PlayMoved ==
  ASSUME NEW a \in Automations, Play(a), runs \in Seq(RunRecords)
  PROVE  Moved
<1> DEFINE new == NewRun(a, "person", Nobody)
<1>1. Len(runs) \in Nat
  BY Indices
<1>2. new \in RunRecords /\ new.stage = "deciding"
  BY <1>1 DEF NewRun, RunRecords, Nobody
<1>3. runs' = Append(runs, new)
  BY DEF Play
<1> HIDE DEF new
<1> QED  BY <1>2, <1>3, MovedNew

LEMMA DeleteMoved ==
  ASSUME NEW a \in Automations, Delete(a), runs \in Seq(RunRecords)
  PROVE  Moved
<1> DEFINE rowless == [q \in DOMAIN runs |->
                        IF runs[q].of = a /\ runs[q].row # "none" THEN [runs[q] EXCEPT !.row = "gone"] ELSE runs[q]]
<1>1. \A q \in DOMAIN runs : runs[q] \in RunRecords
  BY Indices
<1>2. ASSUME NEW q \in DOMAIN runs
      PROVE  /\ rowless[q].of = runs[q].of /\ rowless[q].root = runs[q].root /\ rowless[q].stage = runs[q].stage
             /\ rowless[q] \in RunRecords
  <2>1. runs[q] \in RunRecords
    BY <1>1, <1>2
  <2>2. \/ rowless[q] = runs[q]
        \/ rowless[q] = [runs[q] EXCEPT !.row = "gone"]
    BY <1>2
  <2> HIDE DEF rowless
  <2>3. CASE rowless[q] = [runs[q] EXCEPT !.row = "gone"]
    BY <2>1, <2>3 DEF RunRecords
  <2> QED  BY <2>1, <2>2, <2>3
<1>3. CASE runs' = rowless
  <2>1. DOMAIN runs' = DOMAIN runs
    BY <1>3
  <2> HIDE DEF rowless
  <2> QED  BY <1>2, <1>3, <2>1, MovedNone DEF HoldsParts
<1>4. ASSUME NEW r \in DOMAIN runs,
             runs' = [rowless EXCEPT ![r].gone = TRUE, ![r].stopped = TRUE, ![r].step = Stopped(r)[r].step]
      PROVE  Moved
  <2> DEFINE step == Stopped(r)[r].step
             was == [rowless[r] EXCEPT !.gone = TRUE, !.stopped = TRUE, !.step = step]
  <2>1. runs' = [rowless EXCEPT ![r] = was] /\ DOMAIN rowless = DOMAIN runs
    BY <1>4
  <2> HIDE DEF rowless, step
  <2>2. was.of = runs[r].of /\ was.root = runs[r].root /\ was.stage = runs[r].stage
    BY <1>2 DEF RunRecords
  <2> HIDE DEF was
  <2>3. /\ DOMAIN runs' = DOMAIN runs
        /\ \A q \in DOMAIN runs : runs'[q] = IF q = r THEN was ELSE rowless[q]
    BY <2>1
  <2>4. \A q \in DOMAIN runs :
          runs'[q].of = runs[q].of /\ runs'[q].root = runs[q].root /\ runs'[q].stage = runs[q].stage
    BY <1>2, <2>2, <2>3
  <2> QED  BY <2>3, <2>4, MovedNone DEF HoldsParts
<1>5. \/ runs' = rowless
      \/ \E r \in DOMAIN runs :
           runs' = [rowless EXCEPT ![r].gone = TRUE, ![r].stopped = TRUE, ![r].step = Stopped(r)[r].step]
  BY DEF Delete, Forgotten, RunsOf
<1> HIDE DEF rowless
<1> QED  BY <1>3, <1>4, <1>5

LEMMA BootMoved ==
  ASSUME Boot, runs \in Seq(RunRecords)
  PROVE  Moved
<1>1. DOMAIN runs' = DOMAIN runs
  BY DEF Boot
<1>2. ASSUME NEW q \in DOMAIN runs
      PROVE  runs'[q].of = runs[q].of /\ runs'[q].root = runs[q].root /\ runs'[q].stage = runs[q].stage
  <2>1. runs[q] \in RunRecords
    BY Indices
  <2>2. runs'[q] = IF Unended(q) THEN [runs[q] EXCEPT !.row = "interrupted"] ELSE runs[q]
    BY DEF Boot
  <2> QED  BY <2>1, <2>2 DEF RunRecords
<1> QED  BY <1>1, <1>2, MovedNone DEF HoldsParts

\* The server stops: nobody holds anything.
LEMMA CrashLoses ==
  ASSUME Crash
  PROVE  Turns!Lose
<1>1. DOMAIN runs' = DOMAIN runs /\ \A q \in DOMAIN runs : runs'[q] = LostRun(q)
  BY DEF Crash
<1>2. \A q \in DOMAIN runs : LostRun(q).stage = "over"
  BY DEF LostRun, NewRun
<1>3. \A q \in DOMAIN runs' : ~HoldsParts(runs'[q])
  BY <1>1, <1>2 DEF HoldsParts
<1>4. \A p : Holds(runs', p) = {}
  BY <1>3 DEF Holds
<1>5. \A p \in Parts : HeldBy(p)' = {}
  BY <1>4, HeldIs
<1> QED  BY <1>5 DEF Turns!Lose

LEMMA TurnsStep ==
  ASSUME RunsInv, [Next]_vars
  PROVE  Turns!Next \/ UNCHANGED Held
<1>1. runs \in Seq(RunRecords)
  BY DEF RunsInv, TypeOK
<1>2. CASE Call
  BY <1>2, CallMoved, MovedTurns
<1>3. CASE \E r \in DOMAIN runs : Comes(r) \/ Stop(r)
  BY <1>3, ComesMoved, MovedTurns
<1>4. ASSUME NEW a \in Automations,
             \/ \E happening \in BOOLEAN : Trigger(a, happening)
             \/ Play(a) \/ Turn(a) \/ Delete(a) \/ LaterOn(a)
      PROVE  Moved
  <2>1. CASE Turn(a) \/ LaterOn(a)
    BY <2>1, MovedNone DEF Turn, LaterOn
  <2> QED  BY <1>1, <1>4, <2>1, TriggerMoved, PlayMoved, DeleteMoved
<1>5. CASE Crash
  BY <1>5, CrashLoses DEF Turns!Next
<1>6. CASE Boot
  BY <1>1, <1>6, BootMoved, MovedTurns
<1>7. CASE UNCHANGED vars
  <2>1. runs' = runs
    BY <1>7 DEF vars
  <2> QED  BY <2>1, MovedNone, MovedTurns
<1> QED  BY <1>2, <1>3, <1>4, <1>5, <1>6, <1>7, MovedTurns DEF Next

(* Automations take turns with a part (docs/AUTOMATIONS.md:268-271): every step of the engine *)
(* is a chain taking all its parts while no other holds one, a chain letting go, the server   *)
(* stopping, or nothing.                                                                      *)
THEOREM TakeTurns == Spec => TurnsTaken
<1>1. Init => Turns!Init
  <2>1. Init => \A p \in Parts : HeldBy(p) = {}
    BY DEF Init, HeldBy
  <2> QED  BY <2>1 DEF Turns!Init
<1>2. RunsInv /\ [Next]_vars => [Turns!Next]_([p \in Parts |-> HeldBy(p)])
  BY TurnsStep DEF Held
<1> QED  BY <1>1, <1>2, RunsAlways, PTL DEF Spec, TurnsTaken, Turns!Spec

-----------------------------------------------------------------------------
(* What waits in a queue.  A start that is taken too soon after another is *)
(* let go with the queue behind it still waiting: so of those only that    *)
(* have no `at most every`.                                                *)

Behind ==
  \A a \in Automations : a \notin Paced => ~soon[a] /\ (queued[a] > 0 => a \in running)

LEMMA StartTriggeredBehind ==
  ASSUME TypeOK, Behind, NEW a \in Automations, NEW rest, StartTriggered(a, rest), UNCHANGED queued
  PROVE  Behind'
<1>1. running' = running \cup {a}
  BY DEF StartTriggered
<1>2. soon' = soon \/ soon' = [soon EXCEPT ![a] = a \in Paced]
  BY DEF StartTriggered
<1>3. \A b \in Automations : b \notin Paced => ~soon'[b]
  <2>1. CASE soon' = soon
    BY <2>1 DEF Behind
  <2>2. CASE soon' = [soon EXCEPT ![a] = a \in Paced]
    BY <2>2, Zenon DEF Behind, TypeOK
  <2> QED  BY <1>2, <2>1, <2>2
<1> QED  BY <1>1, <1>3 DEF Behind

LEMMA EndedBehind ==
  ASSUME TypeOK, Behind, NEW r \in DOMAIN runs, NEW rest, Ended(r, rest), UNCHANGED mode
  PROVE  Behind'
<1> DEFINE a == runs[r].of
<1>1. a \in Automations
  BY Indices DEF RunRecords, TypeOK
<1>2. queued' = [queued EXCEPT ![a] = LeftInQueue(a)]
  BY DEF Ended
<1>3. \A b \in Automations : b # a => queued'[b] = queued[b]
  BY <1>1, <1>2
<1>4. queued'[a] = LeftInQueue(a)
  BY <1>1, <1>2 DEF TypeOK
<1> HIDE DEF a
<1>5. CASE NextUp(a) /\ ~soon[a] /\ soon' = [soon EXCEPT ![a] = a \in Paced] /\ UNCHANGED running
  <2>1. \A b \in Automations : b \notin Paced => ~soon'[b]
    BY <1>1, <1>5, Zenon DEF Behind, TypeOK
  <2>2. a \notin Paced => a \in running
    BY <1>1, <1>5 DEF Behind, NextUp
  <2> QED  BY <1>3, <1>5, <2>1, <2>2 DEF Behind
<1>6. CASE (~NextUp(a) \/ soon[a]) /\ running' = running \ {a} /\ UNCHANGED soon
  <2>1. a \notin Paced => queued'[a] = 0
    BY <1>1, <1>4, <1>6 DEF Behind, LeftInQueue
  <2>2. \A b \in Automations : b # a /\ b \in running => b \in running'
    BY <1>6
  <2>3. \A b \in Automations : b \notin Paced => ~soon'[b]
    BY <1>6 DEF Behind
  <2>4. ASSUME NEW b \in Automations, b \notin Paced, queued'[b] > 0
        PROVE  b \in running'
    <3>1. b # a
      BY <1>1, <2>1, <2>4
    <3> QED  BY <1>3, <2>2, <2>4, <3>1 DEF Behind
  <2> QED  BY <2>3, <2>4 DEF Behind
<1>7. \/ NextUp(a) /\ ~soon[a] /\ soon' = [soon EXCEPT ![a] = a \in Paced] /\ UNCHANGED running
      \/ (~NextUp(a) \/ soon[a]) /\ running' = running \ {a} /\ UNCHANGED soon
  BY DEF Ended, a
<1> QED  BY <1>5, <1>6, <1>7

\* Others only come to run, and nothing else that matters here changes.
LEMMA StillBehind ==
  ASSUME Behind, running \subseteq running', UNCHANGED <<queued, soon>>
  PROVE  Behind'
BY DEF Behind

LEMMA CallBehind ==
  ASSUME RunsInv, Behind, Call
  PROVE  Behind'
<1> USE DEF Next1
<1>0. TypeOK /\ Head(jobs).run \in DOMAIN runs
  <2>1. jobs # <<>> /\ jobs \in Seq([do : JobKinds, run : DOMAIN runs])
    BY DEF RunsInv, TypeOK, Call, Run, Walk, Attach, Begun, ChildEnded, Quit, StopChild, Caught, Fresh,
           Then, EndedTriggered, Finally
  <2>2. Head(jobs) \in [do : JobKinds, run : DOMAIN runs]
    BY ONLY <2>1, Taking
  <2>3. Head(jobs).run \in DOMAIN runs
    BY ONLY <2>2
  <2> QED  BY <2>3 DEF RunsInv
<1>1. CASE Run \/ Attach \/ Begun \/ ChildEnded \/ Quit \/ StopChild \/ Caught \/ Then
  BY <1>1, StillBehind DEF Run, Attach, Begun, ChildEnded, Quit, StopChild, Caught, Then, Others
<1>2. CASE Walk
  <2>1. running \subseteq running'
    BY <1>2 DEF Walk, StartStep
  <2> QED  BY <1>2, <2>1, StillBehind DEF Walk, Others
<1>3. CASE Fresh
  <2> DEFINE a == runs[Head(jobs).run].of
  <2>1. a \in Automations
    BY <1>0, Indices DEF RunRecords, TypeOK
  <2>2. CASE UNCHANGED <<running, soon>>
    BY <1>3, <2>2, StillBehind DEF Fresh
  <2>3. CASE StartTriggered(a, Tail(jobs))
    BY <1>0, <1>3, <2>1, <2>3, StartTriggeredBehind DEF Fresh
  <2> QED  BY <1>3, <2>2, <2>3 DEF Fresh
<1>4. CASE EndedTriggered
  BY <1>0, <1>4, EndedBehind DEF EndedTriggered
<1>5. CASE Finally
  <2>1. PICK rest : Ended(Head(jobs).run, rest) /\ UNCHANGED mode
    BY <1>5 DEF Finally
  <2> QED  BY <1>0, <2>1, EndedBehind
<1> QED  BY <1>1, <1>2, <1>3, <1>4, <1>5 DEF Call

LEMMA BehindStep ==
  ASSUME RunsInv, Behind, [Next]_vars
  PROVE  Behind'
<1>0. TypeOK
  BY DEF RunsInv
<1>1. CASE Call
  BY <1>1, CallBehind
<1>2. CASE \E r \in DOMAIN runs : Comes(r) \/ Stop(r)
  BY <1>2, StillBehind DEF Comes, Decide, Answer, SendAgain, WaitOver, Stop, Others
<1>3. ASSUME NEW a \in Automations, NEW happening \in BOOLEAN, Trigger(a, happening)
      PROVE  Behind'
  <2>1. CASE a \notin running /\ StartTriggered(a, jobs) /\ UNCHANGED queued
    BY <1>0, <2>1, StartTriggeredBehind
  <2>2. CASE a \in running /\ queued' = [queued EXCEPT ![a] = @ + 1] /\ UNCHANGED <<running, soon>>
    BY <1>0, <2>2 DEF Behind, TypeOK
  <2>3. CASE UNCHANGED <<running, queued, soon>>
    BY <2>3, StillBehind
  <2> QED  BY <1>3, <2>1, <2>2, <2>3 DEF Trigger
<1>4. ASSUME NEW a \in Automations, Play(a)
      PROVE  Behind'
  BY <1>4, StillBehind DEF Play
<1>5. ASSUME NEW a \in Automations, Turn(a) \/ LaterOn(a)
      PROVE  Behind'
  <2>1. soon' = [soon EXCEPT ![a] = FALSE] /\ UNCHANGED <<queued, running>>
    BY <1>5 DEF Turn, LaterOn
  <2>2. \A b \in Automations : b \notin Paced => ~soon'[b]
    BY <1>0, <2>1, Zenon DEF Behind, TypeOK
  <2> QED  BY <2>1, <2>2 DEF Behind
<1>6. ASSUME NEW a \in Automations, Delete(a)
      PROVE  Behind'
  <2>1. soon' = [soon EXCEPT ![a] = FALSE] /\ queued' = [queued EXCEPT ![a] = 0] /\ UNCHANGED running
    BY <1>6 DEF Delete
  <2>2. \A b \in Automations : b \notin Paced => ~soon'[b]
    BY <1>0, <2>1, Zenon DEF Behind, TypeOK
  <2> QED  BY <1>0, <2>1, <2>2 DEF Behind, TypeOK
<1>7. CASE Crash
  BY <1>7 DEF Crash, Behind
<1>8. CASE Boot
  BY <1>8, StillBehind DEF Boot
<1>9. CASE UNCHANGED vars
  BY <1>9, StillBehind DEF vars
<1> QED  BY <1>1, <1>2, <1>3, <1>4, <1>5, <1>6, <1>7, <1>8, <1>9 DEF Next

(* Each queued start is taken once the run before it ends (#queued, runs.ts:140): of an       *)
(* automation that may start again at once, starts wait only behind a run that is under way.  *)
(* One that may not can lose the start that is up, and leave the others behind it.            *)
THEOREM QueueWaitsBehind ==
  ASSUME Paced = {}
  PROVE  Spec => []QueueTaken
<1>1. Init => Behind
  BY DEF Init, Behind
<1>2. Behind => QueueTaken
  BY DEF Behind, QueueTaken
<1> QED  BY <1>1, <1>2, RunsAlways, BehindStep, PTL DEF Spec

=============================================================================
