---------------------------- MODULE RunsStopped ----------------------------
(* What is proved of runs that are stopped and of automations that are     *)
(* deleted: that nothing of a deleted one comes back, that a start which   *)
(* stops a run to start afresh does start, and that a stop reaches the run *)
(* waited for.                                                             *)
EXTENDS RunsProofs

-----------------------------------------------------------------------------
\* A run that decides at once is the next to be called.
DecidesNext ==
  \A r \in DOMAIN runs :
    runs[r].stage = "deciding" /\ runs[r].of \notin Slow => jobs # <<>> /\ Head(jobs) = Job("run", r)

\* What is kept of a run that has no row, or none any more.
NoRow == {"none", "gone"}

\* Of an automation that is gone no run has a row.
GoneUnwritten == \A r \in DOMAIN runs : mode[runs[r].of] = "gone" => runs[r].row \in NoRow

-----------------------------------------------------------------------------
(* How runs go on, whatever happens.                                       *)

\* A run decides once, at its start, and no row is written of an automation that is gone.
GoesFrom(was, now) ==
  /\ now.of = was.of
  /\ now.stage = "deciding" => was.stage = "deciding"
  /\ mode[was.of] = "gone" /\ was.row \in NoRow => now.row \in NoRow

\* One more run is the next to be called, and not of an automation that is gone.
Newly(r) ==
  /\ runs'[r].stage = "deciding" /\ runs'[r].step = "none"
  /\ mode[runs'[r].of] # "gone"
  /\ jobs' # <<>> /\ Head(jobs') = Job("run", r)

Onward ==
  /\ \A q \in DOMAIN runs : q \in DOMAIN runs' /\ GoesFrom(runs[q], runs'[q])
  /\ \A q \in DOMAIN runs' : q \notin DOMAIN runs => Newly(q)
\* No run goes on.
LEMMA OnwardNone ==
  ASSUME runs' = runs
  PROVE  Onward
BY DEF Onward, GoesFrom

\* One run goes on.
LEMMA OnwardOne ==
  ASSUME NEW r \in DOMAIN runs, NEW rec, runs' = [runs EXCEPT ![r] = rec], GoesFrom(runs[r], rec)
  PROVE  Onward
<1>1. DOMAIN runs' = DOMAIN runs /\ \A q \in DOMAIN runs : runs'[q] = IF q = r THEN rec ELSE runs[q]
  OBVIOUS
<1>2. \A q \in DOMAIN runs : q # r => GoesFrom(runs[q], runs'[q])
  BY <1>1 DEF GoesFrom
<1> QED  BY <1>1, <1>2 DEF Onward

\* One run goes on, and one more is the next to be called.
LEMMA OnwardGrown ==
  ASSUME runs \in Seq(RunRecords), NEW r \in DOMAIN runs, NEW rec \in RunRecords, GoesFrom(runs[r], rec),
         NEW rs, rs = [runs EXCEPT ![r] = rec], NEW new \in RunRecords, runs' = Append(rs, new),
         new.stage = "deciding", new.step = "none", mode[new.of] # "gone",
         jobs' # <<>>, Head(jobs') = Job("run", Len(runs) + 1)
  PROVE  Onward
<1>1. /\ rs \in Seq(RunRecords) /\ Len(rs) = Len(runs) /\ DOMAIN rs = DOMAIN runs
      /\ rs[r] = rec /\ \A q \in DOMAIN runs : q # r => rs[q] = runs[q]
  <2> HIDE DEF RunRecords
  <2> QED  BY Changed
<1>2. /\ DOMAIN runs' = DOMAIN rs \cup {Len(rs) + 1} /\ runs'[Len(rs) + 1] = new
      /\ \A q \in DOMAIN rs : runs'[q] = rs[q]
  <2> HIDE DEF RunRecords
  <2> QED  BY <1>1, Grown
<1>3. \A q \in DOMAIN runs : q # r => GoesFrom(runs[q], runs'[q])
  BY <1>1, <1>2 DEF GoesFrom
<1>4. \A q \in DOMAIN runs' : q \notin DOMAIN runs => Newly(q)
  BY <1>1, <1>2 DEF Newly
<1> QED  BY <1>1, <1>2, <1>3, <1>4 DEF Onward

\* One more is the next to be called.
LEMMA OnwardNew ==
  ASSUME runs \in Seq(RunRecords), NEW new \in RunRecords, runs' = Append(runs, new),
         new.stage = "deciding", new.step = "none", mode[new.of] # "gone",
         jobs' # <<>>, Head(jobs') = Job("run", Len(runs) + 1)
  PROVE  Onward
<1>1. /\ DOMAIN runs' = DOMAIN runs \cup {Len(runs) + 1} /\ runs'[Len(runs) + 1] = new
      /\ \A q \in DOMAIN runs : runs'[q] = runs[q]
  <2> HIDE DEF RunRecords
  <2> QED  BY Grown
<1>2. \A q \in DOMAIN runs : GoesFrom(runs[q], runs'[q])
  BY <1>1 DEF GoesFrom
<1>3. \A q \in DOMAIN runs' : q \notin DOMAIN runs => Newly(q)
  BY <1>1 DEF Newly
<1> QED  BY <1>1, <1>2, <1>3 DEF Onward

\* A callback put first is the next to be called.
LEMMA First ==
  ASSUME NEW S, NEW x, NEW rest \in Seq(S)
  PROVE  <<x>> \o rest # <<>> /\ Head(<<x>> \o rest) = x
<1>1. <<x>> \in Seq({x} \cup S) /\ rest \in Seq({x} \cup S) /\ Len(<<x>>) = 1 /\ <<x>>[1] = x
  <2>1. rest \in Seq({x} \cup S)
    BY SeqMonotonic
  <2> QED  BY <2>1
<1>2. /\ Len(<<x>> \o rest) = 1 + Len(rest) /\ <<x>> \o rest \in Seq({x} \cup S)
      /\ (<<x>> \o rest)[1] = x
  BY <1>1, ConcatProperties, LenProperties
<1>3. Len(rest) \in Nat
  BY LenProperties
<1> DEFINE s == <<x>> \o rest
<1>4. s \in Seq({x} \cup S) /\ Len(s) # 0 /\ s[1] = x
  BY <1>2, <1>3
<1> HIDE DEF s
<1>5. s # <<>> /\ Head(s) = x
  BY <1>4
<1> QED  BY <1>5 DEF s

LEMMA SettleOnward ==
  ASSUME NEW r \in DOMAIN runs, NEW how, NEW row, NEW rest, Settle(r, how, row, rest), runs \in Seq(RunRecords),
         mode[runs[r].of] = "gone" => row \in NoRow
  PROVE  Onward
<1> DEFINE rec == [runs[r] EXCEPT !.stage = "settled", !.step = "none", !.outcome = how, !.row = row]
<1>1. runs[r] \in RunRecords
  BY Indices
<1>2. rec.of = runs[r].of /\ rec.stage = "settled" /\ rec.row = row
  BY <1>1 DEF RunRecords
<1>3. runs' = [runs EXCEPT ![r] = rec]
  BY DEF Settle
<1> HIDE DEF rec
<1> QED  BY <1>2, <1>3, OnwardOne DEF GoesFrom

\* Of an automation that is gone the end leaves no row.
LEMMA RowAtEndGone ==
  ASSUME NEW r \in DOMAIN runs, mode[runs[r].of] = "gone"
  PROVE  RowAtEnd(r) \in NoRow
BY DEF RowAtEnd, NoRow

LEMMA ConcludeOnward ==
  ASSUME NEW r \in DOMAIN runs, NEW how, NEW rest, Conclude(r, how, rest), runs \in Seq(RunRecords)
  PROVE  Onward
<1>1. CASE how \in {"failed", "stopped"} /\ runs[r].of \in Rescued /\ runs[r].stage = "stepping"
  <2> DEFINE rec == [runs[r] EXCEPT !.stage = "falling", !.step = "acting", !.retried = 0, !.outcome = how]
  <2>1. runs[r] \in RunRecords
    BY Indices
  <2>2. rec.of = runs[r].of /\ rec.stage = "falling" /\ rec.row = runs[r].row
    BY <2>1 DEF RunRecords
  <2>3. runs' = [runs EXCEPT ![r] = rec]
    BY <1>1 DEF Conclude
  <2> HIDE DEF rec
  <2> QED  BY <2>2, <2>3, OnwardOne DEF GoesFrom
<1>2. CASE ~ (how \in {"failed", "stopped"} /\ runs[r].of \in Rescued /\ runs[r].stage = "stepping")
  <2>1. Settle(r, IF runs[r].stage = "falling" THEN runs[r].outcome ELSE how, RowAtEnd(r), rest)
    BY <1>2 DEF Conclude
  <2> QED  BY <2>1, SettleOnward, RowAtEndGone
<1> QED  BY <1>1, <1>2

LEMMA GoesOnOnward ==
  ASSUME NEW r \in DOMAIN runs, NEW rest, GoesOn(r, rest), runs \in Seq(RunRecords)
  PROVE  Onward
<1> DEFINE rec == [runs[r] EXCEPT !.step = "none", !.at = @ + 1, !.child = Nobody]
<1>1. runs[r] \in RunRecords
  BY Indices
<1>2. rec.of = runs[r].of /\ rec.stage = runs[r].stage /\ rec.row = runs[r].row
  BY <1>1 DEF RunRecords
<1>3. runs' = [runs EXCEPT ![r] = rec]
  BY DEF GoesOn
<1> HIDE DEF rec
<1> QED  BY <1>2, <1>3, OnwardOne DEF GoesFrom

\* Only what a run waits for in its step changes, and what it has tried.
LEMMA StepOnward ==
  ASSUME NEW r \in DOMAIN runs, runs \in Seq(RunRecords), NEW step, NEW retried,
         runs' = [runs EXCEPT ![r] = [runs[r] EXCEPT !.step = step, !.retried = retried]]
  PROVE  Onward
<1> DEFINE rec == [runs[r] EXCEPT !.step = step, !.retried = retried]
<1>1. runs[r] \in RunRecords
  BY Indices
<1>2. rec.of = runs[r].of /\ rec.stage = runs[r].stage /\ rec.row = runs[r].row
  BY <1>1 DEF RunRecords
<1>3. runs' = [runs EXCEPT ![r] = rec]
  OBVIOUS
<1> HIDE DEF rec
<1> QED  BY <1>2, <1>3, OnwardOne DEF GoesFrom

LEMMA StepOnlyOnward ==
  ASSUME NEW r \in DOMAIN runs, runs \in Seq(RunRecords), NEW step, runs' = [runs EXCEPT ![r].step = step]
  PROVE  Onward
<1> DEFINE rec == [runs[r] EXCEPT !.step = step]
<1>1. runs[r] \in RunRecords
  BY Indices
<1>2. rec.of = runs[r].of /\ rec.stage = runs[r].stage /\ rec.row = runs[r].row
  BY <1>1 DEF RunRecords
<1>3. runs' = [runs EXCEPT ![r] = rec]
  OBVIOUS
<1> HIDE DEF rec
<1> QED  BY <1>2, <1>3, OnwardOne DEF GoesFrom

LEMMA StoppedOnward ==
  ASSUME NEW r \in DOMAIN runs, runs' = Stopped(r), runs \in Seq(RunRecords)
  PROVE  Onward
<1> DEFINE rec == [runs[r] EXCEPT !.stopped = TRUE, !.step = IF Wakeable(r) THEN "woken" ELSE @]
<1>1. runs[r] \in RunRecords
  BY Indices
<1>2. rec.of = runs[r].of /\ rec.stage = runs[r].stage /\ rec.row = runs[r].row
  BY <1>1 DEF RunRecords
<1>3. runs' = [runs EXCEPT ![r] = rec]
  BY DEF Stopped
<1> HIDE DEF rec
<1> QED  BY <1>2, <1>3, OnwardOne DEF GoesFrom

LEMMA BeginsOnward ==
  ASSUME NEW r \in DOMAIN runs, NEW rest, Begins(r, rest), runs \in Seq(RunRecords)
  PROVE  Onward
<1>1. CASE Taken(r)
  BY <1>1, SettleOnward, RowAtEndGone DEF Begins
<1>2. CASE ~Taken(r) /\ runs[r].of \in Sequences /\ mode[runs[r].of] = "gone"
  BY <1>2, SettleOnward DEF Begins, NoRow
<1>3. CASE ~Taken(r) /\ ~ (runs[r].of \in Sequences /\ mode[runs[r].of] = "gone")
  <2> DEFINE row == IF runs[r].of \in Sequences THEN "running" ELSE "none"
             rec == [runs[r] EXCEPT !.stage = "stepping", !.at = 1, !.row = row]
  <2>1. runs[r] \in RunRecords
    BY Indices
  <2>2. runs' = [runs EXCEPT ![r] = rec]
    BY <1>3 DEF Begins
  <2>3. rec.of = runs[r].of /\ rec.stage = "stepping" /\ rec.row = row
    BY <2>1 DEF RunRecords
  <2>4. mode[runs[r].of] = "gone" => row \in NoRow
    BY <1>3 DEF NoRow
  <2> HIDE DEF rec
  <2> QED  BY <2>2, <2>3, <2>4, OnwardOne DEF GoesFrom
<1> QED  BY <1>1, <1>2, <1>3

LEMMA StartTriggeredOnward ==
  ASSUME NEW a \in Automations, NEW S, NEW rest \in Seq(S), StartTriggered(a, rest), runs \in Seq(RunRecords)
  PROVE  Onward
<1>1. CASE mode[a] = "gone"
  <2>1. runs' = runs
    BY <1>1 DEF StartTriggered
  <2> QED  BY <2>1, OnwardNone
<1>2. CASE mode[a] # "gone"
  <2> DEFINE new == NewRun(a, "trigger", Nobody)
             first == Job("run", Len(runs) + 1)
  <2>1. Len(runs) \in Nat
    BY Indices
  <2>2. new \in RunRecords /\ new.stage = "deciding" /\ new.step = "none" /\ new.of = a
    BY <2>1 DEF NewRun, RunRecords, Nobody
  <2>3. runs' = Append(runs, new) /\ jobs' = <<first>> \o rest
    BY <1>2 DEF StartTriggered
  <2> HIDE DEF new, first
  <2>4. jobs' # <<>> /\ Head(jobs') = first
    BY <2>3, First
  <2> QED  BY <1>2, <2>2, <2>3, <2>4, OnwardNew DEF first
<1> QED  BY <1>1, <1>2

LEMMA EndedOnward ==
  ASSUME NEW r \in DOMAIN runs, NEW S, NEW rest \in Seq(S), Ended(r, rest), runs \in Seq(RunRecords)
  PROVE  Onward
<1> DEFINE a == runs[r].of
           over == [runs EXCEPT ![r].stage = "over"]
           done == [runs[r] EXCEPT !.stage = "over"]
           new == NewRun(a, "trigger", Nobody)
           first == Job("run", Len(runs) + 1)
<1>1. runs[r] \in RunRecords /\ Len(runs) \in Nat
  BY Indices
<1>2. done \in RunRecords /\ done.of = runs[r].of /\ done.stage = "over" /\ done.row = runs[r].row
  BY <1>1 DEF RunRecords
<1>3. over = [runs EXCEPT ![r] = done]
  OBVIOUS
<1> HIDE DEF done
<1>4. GoesFrom(runs[r], done)
  BY <1>2 DEF GoesFrom
<1>5. CASE runs' = over
  <2> HIDE DEF over
  <2> QED  BY <1>3, <1>4, <1>5, OnwardOne
<1>6. CASE runs' = Append(over, new) /\ jobs' = <<first>> \o rest /\ NextUp(a)
  <2>1. a \in Automations
    BY <1>1 DEF RunRecords
  <2>2. new \in RunRecords /\ new.stage = "deciding" /\ new.step = "none" /\ new.of = a
    BY <1>1, <2>1, SMTT(30) DEF NewRun, RunRecords, Nobody
  <2>3. mode[a] # "gone"
    BY <1>6 DEF NextUp
  <2> HIDE DEF over, new, first, a, RunRecords
  <2>4. jobs' # <<>> /\ Head(jobs') = first
    BY <1>6, First
  <2> QED  BY <1>2, <1>3, <1>4, <1>6, <2>2, <2>3, <2>4, OnwardGrown DEF first
<1> QED  BY <1>5, <1>6 DEF Ended

LEMMA StartStepOnward ==
  ASSUME NEW r \in DOMAIN runs, StartStep(r), runs \in Seq(RunRecords), NEW S, Tail(jobs) \in Seq(S)
  PROVE  Onward
<1> DEFINE b == Starts[runs[r].of]
           n == Len(runs) + 1
           new == NewRun(b, "run", r)
           was == [runs[r] EXCEPT !.step = "starting", !.child = n]
           rs == [runs EXCEPT ![r].step = "starting", ![r].child = n]
           first == Job("run", n)
           then == Job("attach", r)
<1>1. runs[r] \in RunRecords /\ Len(runs) \in Nat /\ r \in Nat \ {0} /\ n \in Nat
  BY Indices
<1>2. CASE StartRefused(r)
  BY <1>2, ConcludeOnward DEF StartStep
<1>3. CASE ~StartRefused(r)
  <2>1. runs' = Append(rs, new) /\ jobs' = <<first, then>> \o Tail(jobs) /\ mode[b] # "gone"
    BY <1>3 DEF StartStep, StartRefused
  <2>2. b \in Automations /\ runs[r].of \in Automations
    BY <1>1, RunsAssumption DEF RunRecords
  <2>3. runs[r].root \in Nat \ {0} /\ runs[r].chain \cup {runs[r].of} \in SUBSET Automations
    <3>1. runs[r].root \in Nat \ {0} /\ runs[r].chain \in SUBSET Automations
      BY <1>1 DEF RunRecords
    <3> QED  BY <2>2, <3>1
  <2>4. new \in RunRecords /\ new.stage = "deciding" /\ new.step = "none" /\ new.of = b
    BY <1>1, <2>2, <2>3 DEF NewRun, RunRecords, Nobody
  <2>5. /\ was \in RunRecords /\ was.of = runs[r].of /\ was.stage = runs[r].stage
        /\ was.row = runs[r].row
    <3> HIDE DEF n
    <3> QED  BY <1>1 DEF RunRecords
  <2>6. rs = [runs EXCEPT ![r] = was]
    OBVIOUS
  <2>7. jobs' # <<>> /\ Head(jobs') = first
    <3> DEFINE T == S \cup {first, then}
    <3> HIDE DEF first, then
    <3>1. Tail(jobs) \in Seq(T) /\ first \in T /\ then \in T
      BY SeqMonotonic
    <3>2. <<then>> \o Tail(jobs) \in Seq(T)
      BY <3>1, ConcatProperties
    <3>3. jobs' = <<first>> \o (<<then>> \o Tail(jobs))
      BY <2>1, <3>1, TwoFirst
    <3> QED  BY <3>2, <3>3, First
  <2> HIDE DEF rs, was, new, b, first, RunRecords
  <2>8. GoesFrom(runs[r], was)
    BY <2>5 DEF GoesFrom
  <2> QED  BY <2>1, <2>4, <2>5, <2>6, <2>7, <2>8, OnwardGrown DEF first
<1> QED  BY <1>2, <1>3

LEMMA WalkOnward ==
  ASSUME NEW r \in DOMAIN runs, r = Head(jobs).run, Walk, runs \in Seq(RunRecords), NEW S, Tail(jobs) \in Seq(S)
  PROVE  Onward
<1>1. CASE Conclude(r, "stopped", Tail(jobs))
  BY <1>1, ConcludeOnward
<1>2. CASE Settle(r, "acted", RowAtEnd(r), Tail(jobs))
  BY <1>2, SettleOnward, RowAtEndGone
<1>3. CASE runs' = [runs EXCEPT ![r].step = IF StepOf(r) = "act" THEN "acting" ELSE "asleep",
                                ![r].retried = 0]
  <2> DEFINE step == IF StepOf(r) = "act" THEN "acting" ELSE "asleep"
  <2>1. runs' = [runs EXCEPT ![r] = [runs[r] EXCEPT !.step = step, !.retried = 0]]
    BY <1>3
  <2> HIDE DEF step
  <2> QED  BY <2>1, StepOnward
<1>4. CASE StartStep(r)
  BY <1>4, StartStepOnward
<1> QED  BY <1>1, <1>2, <1>3, <1>4 DEF Walk

LEMMA CallOnward ==
  ASSUME RunsInv, Call
  PROVE  Onward
<1> DEFINE r == Head(jobs).run
           S == [do : JobKinds, run : DOMAIN runs]
<1>1. runs \in Seq(RunRecords) /\ jobs \in Seq(S)
  BY DEF RunsInv, TypeOK
<1>2. PICK do : Next1(do)
  BY DEF Call, Run, Walk, Attach, Begun, ChildEnded, Quit, StopChild, Caught, Fresh, Then, EndedTriggered,
         Finally
<1>3. r \in DOMAIN runs /\ Due(do, runs[r]) /\ jobs # <<>>
  BY <1>2, Called DEF Next1
<1>4. Tail(jobs) \in Seq(S)
  BY <1>1, <1>3, Taking
<1> HIDE DEF S
<1>5. CASE Run
  <2>1. runs' = runs \/ Begins(r, Tail(jobs))
    BY <1>5 DEF Run
  <2> QED  BY <1>1, <1>3, <2>1, OnwardNone, BeginsOnward
<1>6. CASE Walk
  BY <1>1, <1>3, <1>4, <1>6, WalkOnward
<1>7. CASE Attach
  <2>1. runs' = [runs EXCEPT ![r].step = "beginning"]
    BY <1>7 DEF Attach
  <2> HIDE DEF r
  <2> QED  BY <1>1, <1>3, <2>1, StepOnlyOnward
<1>8. CASE Begun
  <2>1. \/ Conclude(r, "failed", Tail(jobs)) \/ GoesOn(r, Tail(jobs))
        \/ runs' = [runs EXCEPT ![r].step = "awaiting"]
    BY <1>8 DEF Begun
  <2> HIDE DEF r
  <2> QED  BY <1>1, <1>3, <2>1, ConcludeOnward, GoesOnOnward, StepOnlyOnward
<1>9. CASE ChildEnded
  <2>1. runs' = runs \/ Conclude(r, "failed", Tail(jobs)) \/ GoesOn(r, Tail(jobs))
    BY <1>9 DEF ChildEnded
  <2> HIDE DEF r
  <2> QED  BY <1>1, <1>3, <2>1, OnwardNone, ConcludeOnward, GoesOnOnward
<1>10. CASE Quit
  BY <1>1, <1>3, <1>10, ConcludeOnward DEF Quit
<1>11. CASE StopChild
  <2>1. runs' = runs \/ \E q \in DOMAIN runs : runs' = Stopped(q)
    BY <1>11 DEF StopChild, RunsOf
  <2> QED  BY <1>1, <2>1, OnwardNone, StoppedOnward
<1>12. CASE Caught
  BY <1>12, OnwardNone DEF Caught
<1>13. CASE Fresh
  <2>1. runs' = runs \/ StartTriggered(runs[r].of, Tail(jobs))
    BY <1>13 DEF Fresh
  <2>2. runs[r].of \in Automations
    BY <1>1, <1>3, Indices DEF RunRecords
  <2> QED  BY <1>1, <1>4, <2>1, <2>2, OnwardNone, StartTriggeredOnward
<1>14. CASE Then
  BY <1>14, OnwardNone DEF Then
<1>15. CASE EndedTriggered
  BY <1>1, <1>3, <1>4, <1>15, EndedOnward DEF EndedTriggered
<1>16. CASE Finally
  <2> DEFINE c == Job("childend", runs[r].parent)
             more == IF runs[r].parent # Nobody THEN <<c>> ELSE <<>>
             T == S \cup {c}
  <2>1. Ended(r, Tail(jobs) \o more)
    BY <1>16 DEF Finally
  <2>2. Tail(jobs) \in Seq(T) /\ more \in Seq(T)
    <3>1. Tail(jobs) \in Seq(T)
      BY <1>4, SeqMonotonic
    <3> HIDE DEF c
    <3>2. c \in T
      OBVIOUS
    <3> HIDE DEF T
    <3>3. <<c>> \in Seq(T) /\ <<>> \in Seq(T)
      BY <3>2
    <3> QED  BY <3>1, <3>3
  <2>3. Tail(jobs) \o more \in Seq(T)
    BY <2>2, ConcatProperties
  <2> QED  BY <1>1, <1>3, <2>1, <2>3, EndedOnward
<1> QED  BY <1>5, <1>6, <1>7, <1>8, <1>9, <1>10, <1>11, <1>12, <1>13, <1>14, <1>15, <1>16 DEF Call

LEMMA ComesOnward ==
  ASSUME RunsInv, NEW r \in DOMAIN runs, Comes(r) \/ Stop(r)
  PROVE  Onward
<1>1. runs \in Seq(RunRecords)
  BY DEF RunsInv, TypeOK
<1>2. CASE Decide(r)
  BY <1>1, <1>2, BeginsOnward, SettleOnward, RowAtEndGone DEF Decide
<1>3. CASE Answer(r)
  <2>1. \/ GoesOn(r, jobs) \/ Conclude(r, "failed", jobs)
        \/ \E why \in {1, 2} : runs' = [runs EXCEPT ![r].step = "pausing", ![r].retried = why]
    BY <1>3 DEF Answer
  <2>2. ASSUME NEW why \in {1, 2}, runs' = [runs EXCEPT ![r].step = "pausing", ![r].retried = why]
        PROVE  Onward
    <3>1. runs' = [runs EXCEPT ![r] = [runs[r] EXCEPT !.step = "pausing", !.retried = why]]
      BY <2>2
    <3> QED  BY <1>1, <3>1, StepOnward
  <2> QED  BY <1>1, <2>1, <2>2, GoesOnOnward, ConcludeOnward
<1>4. CASE SendAgain(r)
  BY <1>1, <1>4, StepOnlyOnward DEF SendAgain
<1>5. CASE WaitOver(r)
  BY <1>1, <1>5, GoesOnOnward, ConcludeOnward DEF WaitOver
<1>6. CASE Stop(r)
  BY <1>1, <1>6, StoppedOnward DEF Stop
<1> QED  BY <1>2, <1>3, <1>4, <1>5, <1>6 DEF Comes

LEMMA TriggerOnward ==
  ASSUME RunsInv, NEW a \in Automations, NEW happening \in BOOLEAN, Trigger(a, happening)
  PROVE  Onward
<1>0. runs \in Seq(RunRecords) /\ jobs \in Seq([do : JobKinds, run : DOMAIN runs])
  BY DEF RunsInv, TypeOK
<1>1. CASE StartTriggered(a, jobs)
  BY <1>0, <1>1, StartTriggeredOnward
<1>2. CASE runs' = runs
  BY <1>2, OnwardNone
<1>3. CASE \E r \in RunsOf(a) :
             LET after == IF Holding(r) THEN Stopped(r) ELSE runs
             IN  runs' = [after EXCEPT ![r].waiting = @ + 1]
  <2>1. PICK r \in DOMAIN runs :
             LET after == IF Holding(r) THEN Stopped(r) ELSE runs
             IN  runs' = [after EXCEPT ![r].waiting = @ + 1]
    BY <1>3 DEF RunsOf
  <2>2. runs[r] \in RunRecords
    BY <1>0, Indices
  <2>3. CASE Holding(r)
    <3> DEFINE was == [runs[r] EXCEPT !.stopped = TRUE, !.step = IF Wakeable(r) THEN "woken" ELSE @]
               rec == [was EXCEPT !.waiting = @ + 1]
    <3>1. Stopped(r) = [runs EXCEPT ![r] = was]
      BY DEF Stopped
    <3>2. runs' = [Stopped(r) EXCEPT ![r] = [Stopped(r)[r] EXCEPT !.waiting = @ + 1]]
      BY <2>1, <2>3
    <3>3. Stopped(r)[r] = was
      BY <3>1
    <3>4. runs' = [runs EXCEPT ![r] = rec]
      <4> HIDE DEF was, Stopped
      <4>1. runs' = [[runs EXCEPT ![r] = was] EXCEPT ![r] = rec]
        BY <3>1, <3>2, <3>3 DEF rec
      <4> HIDE DEF rec
      <4> QED  BY <4>1
    <3>5. was.of = runs[r].of /\ was.stage = runs[r].stage /\ was.row = runs[r].row
      BY <2>2 DEF RunRecords
    <3>6. rec.of = was.of /\ rec.stage = was.stage /\ rec.row = was.row
      BY <2>2 DEF RunRecords
    <3> HIDE DEF was, rec
    <3>7. GoesFrom(runs[r], rec)
      BY <3>5, <3>6 DEF GoesFrom
    <3> QED  BY <3>4, <3>7, OnwardOne
  <2>4. CASE ~Holding(r)
    <3> DEFINE rec == [runs[r] EXCEPT !.waiting = @ + 1]
    <3>1. runs' = [runs EXCEPT ![r] = rec]
      BY <2>1, <2>4
    <3>2. rec.of = runs[r].of /\ rec.stage = runs[r].stage /\ rec.row = runs[r].row
      BY <2>2 DEF RunRecords
    <3> HIDE DEF rec
    <3>3. GoesFrom(runs[r], rec)
      BY <3>2 DEF GoesFrom
    <3> QED  BY <3>1, <3>3, OnwardOne
  <2> QED  BY <2>3, <2>4
<1> QED  BY <1>1, <1>2, <1>3 DEF Trigger

LEMMA PlayOnward ==
  ASSUME NEW a \in Automations, Play(a), runs \in Seq(RunRecords)
  PROVE  Onward
<1> DEFINE new == NewRun(a, "person", Nobody)
<1>1. Len(runs) \in Nat
  BY Indices
<1>2. new \in RunRecords /\ new.stage = "deciding" /\ new.step = "none" /\ new.of = a
  BY <1>1 DEF NewRun, RunRecords, Nobody
<1>3. runs' = Append(runs, new) /\ jobs' = <<Job("run", Len(runs) + 1)>> /\ mode[a] # "gone"
  BY DEF Play
<1>4. jobs' # <<>> /\ Head(jobs') = Job("run", Len(runs) + 1)
  BY <1>3
<1> HIDE DEF new
<1> QED  BY <1>2, <1>3, <1>4, OnwardNew

\* The rows of an automation go with it.
LEMMA DeleteOnward ==
  ASSUME NEW a \in Automations, Delete(a), RunsInv
  PROVE  /\ Onward /\ DOMAIN runs' = DOMAIN runs
         /\ \A q \in DOMAIN runs : runs[q].of = a => runs'[q].row \in NoRow
<1> DEFINE rowless == [q \in DOMAIN runs |->
                        IF runs[q].of = a /\ runs[q].row # "none" THEN [runs[q] EXCEPT !.row = "gone"] ELSE runs[q]]
<1>1. up /\ runs \in Seq(RunRecords) /\ \A q \in DOMAIN runs : runs[q] \in RunRecords
  BY Outside DEF Delete, Fit
<1>2. ASSUME NEW q \in DOMAIN runs
      PROVE  /\ rowless[q].of = runs[q].of /\ rowless[q].stage = runs[q].stage /\ rowless[q] \in RunRecords
             /\ rowless[q].row \in {runs[q].row, "gone"} /\ (runs[q].of = a => rowless[q].row \in NoRow)
  <2>1. runs[q] \in RunRecords
    BY <1>1, <1>2
  <2>2. \/ rowless[q] = runs[q] /\ (runs[q].of = a => runs[q].row = "none")
        \/ rowless[q] = [runs[q] EXCEPT !.row = "gone"]
    BY <1>2
  <2> HIDE DEF rowless
  <2>3. CASE rowless[q] = [runs[q] EXCEPT !.row = "gone"]
    BY <2>1, <2>3 DEF RunRecords, NoRow
  <2> QED  BY <2>1, <2>2, <2>3 DEF NoRow
<1>3. CASE runs' = rowless
  <2>1. DOMAIN runs' = DOMAIN runs
    BY <1>3
  <2> HIDE DEF rowless
  <2>2. \A q \in DOMAIN runs : GoesFrom(runs[q], runs'[q])
    BY <1>2, <1>3 DEF GoesFrom, NoRow
  <2> QED  BY <1>2, <1>3, <2>1, <2>2 DEF Onward
<1>4. ASSUME NEW r \in Forgotten(a),
             runs' = [rowless EXCEPT ![r].gone = TRUE, ![r].stopped = TRUE, ![r].step = Stopped(r)[r].step]
      PROVE  /\ Onward /\ DOMAIN runs' = DOMAIN runs
             /\ \A q \in DOMAIN runs : runs[q].of = a => runs'[q].row \in NoRow
  <2> DEFINE step == Stopped(r)[r].step
             was == [rowless[r] EXCEPT !.gone = TRUE, !.stopped = TRUE, !.step = step]
  <2>1. runs' = [rowless EXCEPT ![r] = was] /\ DOMAIN rowless = DOMAIN runs
    BY <1>4
  <2>2. r \in DOMAIN runs
    BY <1>4 DEF Forgotten, RunsOf
  <2> HIDE DEF rowless, step
  <2>3. was.of = runs[r].of /\ was.stage = runs[r].stage /\ was.row = rowless[r].row
    BY <1>2, <2>2 DEF RunRecords
  <2> HIDE DEF was
  <2>4. /\ DOMAIN runs' = DOMAIN runs
        /\ \A q \in DOMAIN runs : runs'[q] = IF q = r THEN was ELSE rowless[q]
    BY <2>1
  <2>5. ASSUME NEW q \in DOMAIN runs
        PROVE  /\ runs'[q].of = runs[q].of /\ runs'[q].stage = runs[q].stage /\ runs'[q].row = rowless[q].row
    BY <1>2, <2>3, <2>4
  <2>6. \A q \in DOMAIN runs : GoesFrom(runs[q], runs'[q])
    BY <1>2, <2>5 DEF GoesFrom, NoRow
  <2> QED  BY <1>2, <2>4, <2>5, <2>6 DEF Onward
<1>5. \/ runs' = rowless
      \/ \E r \in Forgotten(a) :
           runs' = [rowless EXCEPT ![r].gone = TRUE, ![r].stopped = TRUE, ![r].step = Stopped(r)[r].step]
  BY DEF Delete
<1> HIDE DEF rowless
<1> QED  BY <1>3, <1>4, <1>5

LEMMA DownOnward ==
  ASSUME Crash \/ Boot, RunsInv
  PROVE  Onward /\ DOMAIN runs' = DOMAIN runs /\ \A q \in DOMAIN runs' : runs'[q].stage = "over"
<1>1. \A q \in DOMAIN runs : runs[q] \in RunRecords
  BY Indices DEF RunsInv, TypeOK
<1>2. CASE Crash
  <2>1. DOMAIN runs' = DOMAIN runs /\ \A q \in DOMAIN runs : runs'[q] = LostRun(q)
    BY <1>2 DEF Crash
  <2>2. \A q \in DOMAIN runs : LostRun(q).of = runs[q].of /\ LostRun(q).stage = "over" /\ LostRun(q).row = runs[q].row
    BY DEF LostRun, NewRun
  <2> QED  BY <2>1, <2>2 DEF Onward, GoesFrom
<1>3. CASE Boot
  <2>1. DOMAIN runs' = DOMAIN runs /\ \A q \in DOMAIN runs : runs[q].stage = "over"
    BY <1>3 DEF Boot, RunsInv, Idle, Active
  <2>2. ASSUME NEW q \in DOMAIN runs
        PROVE  /\ runs'[q].of = runs[q].of /\ runs'[q].stage = runs[q].stage
               /\ runs[q].row \in NoRow => runs'[q].row \in NoRow
    <3>1. runs[q] \in RunRecords
      BY <1>1, <2>2
    <3>2. runs'[q] = IF Unended(q) THEN [runs[q] EXCEPT !.row = "interrupted"] ELSE runs[q]
      BY <1>3 DEF Boot
    <3> QED  BY <3>1, <3>2 DEF RunRecords, Unended, NoRow
  <2> QED  BY <2>1, <2>2 DEF Onward, GoesFrom
<1> QED  BY <1>2, <1>3
\* However they go on, save that deletions and the server's stop may do more than that.
LEMMA GoesOnward ==
  ASSUME RunsInv, [Next]_vars
  PROVE  Onward
<1>1. runs \in Seq(RunRecords)
  BY DEF RunsInv, TypeOK
<1>2. CASE \E a \in Automations : Turn(a) \/ LaterOn(a)
  BY <1>2, OnwardNone DEF Turn, LaterOn
<1>3. CASE UNCHANGED vars
  BY <1>3, OnwardNone DEF vars
<1> QED  BY <1>1, <1>2, <1>3, CallOnward, ComesOnward, TriggerOnward, PlayOnward, DeleteOnward, DownOnward DEF Next

-----------------------------------------------------------------------------
(* What holds of them at all times.                                        *)

\* While a run that decides at once is there, it is what is called: nothing else happens but that
\* the server stops.
LEMMA DecidesStep ==
  ASSUME RunsInv, DecidesNext, [Next]_vars
  PROVE  DecidesNext'
<1>1. Onward
  BY GoesOnward
<1>2. ASSUME NEW q \in DOMAIN runs', runs'[q].stage = "deciding", runs'[q].of \notin Slow, q \notin DOMAIN runs
      PROVE  jobs' # <<>> /\ Head(jobs') = Job("run", q)
  BY <1>1, <1>2 DEF Onward, Newly
<1>3. ASSUME NEW q \in DOMAIN runs, runs'[q].stage = "deciding", runs'[q].of \notin Slow
      PROVE  jobs' # <<>> /\ Head(jobs') = Job("run", q)
  <2>1. /\ runs[q].stage = "deciding" /\ runs[q].of \notin Slow
        /\ jobs # <<>> /\ Head(jobs) = Job("run", q)
    BY <1>1, <1>3 DEF Onward, GoesFrom, DecidesNext
  <2>2. ~Quiet /\ Head(jobs).do = "run" /\ Head(jobs).run = q
    BY <2>1 DEF Quiet, Job
  <2>3. CASE Run
    <3>1. Begins(q, Tail(jobs)) /\ runs[q] \in RunRecords
      BY <2>1, <2>2, <2>3, Indices DEF Run, RunsInv, TypeOK
    <3> DEFINE kept == IF runs[q].of \in Sequences THEN "running" ELSE "none"
               begun(row) == [runs[q] EXCEPT !.stage = "stepping", !.at = 1, !.row = row]
               ended(how, row) == [runs[q] EXCEPT !.stage = "settled", !.step = "none", !.outcome = how, !.row = row]
    <3>2. \/ runs' = [runs EXCEPT ![q] = begun(kept)]
          \/ runs' = [runs EXCEPT ![q] = ended("refused", RowAtEnd(q))]
          \/ runs' = [runs EXCEPT ![q] = ended("error", "none")]
      BY <3>1 DEF Begins, Settle
    <3>3. \A row, how : begun(row).stage = "stepping" /\ ended(how, row).stage = "settled"
      BY <3>1 DEF RunRecords
    <3> HIDE DEF begun, ended
    <3>4. runs'[q].stage \in {"settled", "stepping"}
      BY <3>2, <3>3
    <3> QED  BY <1>3, <3>4
  <2>4. CASE UNCHANGED vars
    BY <2>1, <2>4 DEF vars
  <2>5. CASE Crash \/ Boot
    BY <1>3, <2>5, DownOnward
  <2>6. ~ \/ Walk \/ Attach \/ Begun \/ ChildEnded \/ Quit \/ StopChild
          \/ Caught \/ Fresh \/ Then \/ EndedTriggered \/ Finally
    BY <2>2 DEF Next1, Walk, Attach, Begun, ChildEnded, Quit, StopChild, Caught, Fresh, Then,
                EndedTriggered, Finally
  <2>7. ~ \E r \in DOMAIN runs : Comes(r) \/ Stop(r)
    BY <2>2 DEF Comes, Decide, Answer, SendAgain, WaitOver, Stop
  <2>8. ~ \E a \in Automations : \/ \E happening \in BOOLEAN : Trigger(a, happening)
                                 \/ Play(a) \/ Turn(a) \/ Delete(a) \/ LaterOn(a)
    BY <2>2 DEF Trigger, Play, Turn, Delete, LaterOn
  <2> QED  BY <2>3, <2>4, <2>5, <2>6, <2>7, <2>8 DEF Next, Call
<1> QED  BY <1>2, <1>3 DEF DecidesNext

\* An automation is gone from its deletion on.
LEMMA ModeGone ==
  ASSUME RunsInv, [Next]_vars, NEW a \in Automations, mode'[a] = "gone"
  PROVE  mode[a] = "gone" \/ Delete(a)
<1>1. mode \in [Automations -> {"on", "off", "gone"}]
  BY DEF RunsInv, TypeOK
<1>2. CASE \E b \in Automations : Turn(b) \/ Delete(b)
  <2>1. PICK b \in Automations : Turn(b) \/ Delete(b)
    BY <1>2
  <2>2. CASE Turn(b)
    <3>1. \E to \in {"on", "off"} : mode' = [mode EXCEPT ![b] = to]
      BY <2>2 DEF Turn
    <3> QED  BY <1>1, <3>1
  <2>3. CASE Delete(b)
    <3>1. a = b => Delete(a)
      BY <2>3
    <3>2. mode' = [mode EXCEPT ![b] = "gone"]
      BY <2>3 DEF Delete
    <3> QED  BY <1>1, <3>1, <3>2
  <2> QED  BY <2>1, <2>2, <2>3
<1>3. CASE ~ \E b \in Automations : Turn(b) \/ Delete(b)
  <2>1. mode' = mode
    <3>1. CASE Call
      BY <3>1 DEF Call, Run, Walk, Attach, Begun, ChildEnded, Quit, StopChild, Caught, Fresh, Then,
                  EndedTriggered, Finally, Others
    <3>2. CASE \E r \in DOMAIN runs : Comes(r) \/ Stop(r)
      BY <3>2 DEF Comes, Decide, Answer, SendAgain, WaitOver, Stop, Others
    <3>3. CASE \E b \in Automations : \/ \E happening \in BOOLEAN : Trigger(b, happening)
                                      \/ Play(b) \/ LaterOn(b)
      BY <3>3 DEF Trigger, Play, LaterOn
    <3>4. CASE Crash \/ Boot \/ UNCHANGED vars
      BY <3>4 DEF Crash, Boot, vars
    <3> QED  BY <1>3, <3>1, <3>2, <3>3, <3>4 DEF Next
  <2> QED  BY <2>1
<1> QED  BY <1>2, <1>3

\* No step leaves a row of what is gone.
LEMMA GoneStep ==
  ASSUME RunsInv, GoneUnwritten, [Next]_vars
  PROVE  GoneUnwritten'
<1>1. Onward
  BY GoesOnward
<1>2. ASSUME NEW q \in DOMAIN runs', mode'[runs'[q].of] = "gone"
      PROVE  runs'[q].row \in NoRow
  <2>1. runs'[q].of \in Automations
    BY <1>2, Indices, RunsStep DEF RunsInv, TypeOK, RunRecords
  <2>2. CASE mode[runs'[q].of] = "gone"
    <3>1. q \in DOMAIN runs
      BY <1>1, <2>2 DEF Onward, Newly
    <3>2. GoesFrom(runs[q], runs'[q])
      BY <1>1, <3>1 DEF Onward
    <3> QED  BY <2>2, <3>1, <3>2 DEF GoesFrom, GoneUnwritten
  <2>3. CASE Delete(runs'[q].of)
    <3>1. q \in DOMAIN runs /\ (runs[q].of = runs'[q].of => runs'[q].row \in NoRow)
      BY <2>1, <2>3, DeleteOnward
    <3> QED  BY <1>1, <3>1 DEF Onward, GoesFrom
  <2> QED  BY <1>2, <2>1, <2>2, <2>3, ModeGone
<1> QED  BY <1>2 DEF GoneUnwritten

StopInv == DecidesNext /\ GoneUnwritten

\* What stopping and deleting rest on always holds.
LEMMA StopAlways == Spec => []StopInv
<1>1. Init => StopInv
  BY DEF Init, StopInv, DecidesNext, GoneUnwritten
<1>2. RunsInv /\ StopInv /\ [Next]_vars => StopInv'
  BY DecidesStep, GoneStep DEF StopInv
<1> QED  BY <1>1, <1>2, RunsAlways, PTL DEF Spec

-----------------------------------------------------------------------------
(* An automation that was deleted does not come back (forget, runs.ts:160-168): nothing starts *)
(* it - no start it had queued, none that waited to start it afresh, no step of another's run  *)
(* - and no row of it is written, by a run it had nor by the server starting again.            *)
THEOREM GoneForGood == Spec => GoneStaysGone
<1>1. ASSUME RunsInv, StopInv, [Next]_vars, NEW r \in DOMAIN runs', mode[runs'[r].of] = "gone"
      PROVE  r \in DOMAIN runs /\ runs'[r].row \in {"none", "gone"}
  <2>1. Onward
    BY <1>1, GoesOnward
  <2>2. r \in DOMAIN runs
    BY <1>1, <2>1 DEF Onward, Newly
  <2>3. GoesFrom(runs[r], runs'[r])
    BY <2>1, <2>2 DEF Onward
  <2> QED  BY <1>1, <2>2, <2>3 DEF GoesFrom, StopInv, GoneUnwritten, NoRow
<1>2. RunsInv /\ StopInv /\ [Next]_vars
        => [\A r \in DOMAIN runs' :
              mode[runs'[r].of] = "gone" => r \in DOMAIN runs /\ runs'[r].row \in {"none", "gone"}]_vars
  BY <1>1
<1> QED  BY <1>2, RunsAlways, StopAlways, PTL DEF Spec, GoneStaysGone

-----------------------------------------------------------------------------
(* The order of what follows a run's end.                                  *)

\* Callbacks of any run, those to come included.
AnyJob == [do : JobKinds, run : Nat]

\* What is left to call once the callback that is called is taken, if one is.
Rest == IF jobs = <<>> THEN <<>> ELSE Tail(jobs)

\* A run that a trigger started gives up its place right after the starts that
\* wait for its end are put to what is to be called.
EndsNext(js, rs) ==
  \A i \in DOMAIN js :
    js[i].do = "caught" /\ rs[js[i].run].by = "trigger" =>
      i + 1 \in DOMAIN js /\ js[i + 1] = Job("ended", js[i].run)

\* None of it is about starts that wait for a run's end.
Plain(js) == \A j \in In(js) : j.do \notin {"caught", "fresh"}

\* What is not about such starts is in that order.
LEMMA PlainEndsNext ==
  ASSUME NEW js, NEW rs, Plain(js)
  PROVE  EndsNext(js, rs)
BY DEF Plain, EndsNext, In

\* What is in that order stays so when more in that order is put after it.
LEMMA EndsNextJoined ==
  ASSUME NEW rs, NEW S, NEW s \in Seq(S), NEW t \in Seq(S), EndsNext(s, rs), EndsNext(t, rs)
  PROVE  EndsNext(s \o t, rs)
<1>1. /\ s \o t \in Seq(S) /\ Len(s \o t) = Len(s) + Len(t)
      /\ \A i \in 1..Len(s) + Len(t) : (s \o t)[i] = IF i <= Len(s) THEN s[i] ELSE t[i - Len(s)]
  BY ConcatProperties
<1>2. /\ Len(s) \in Nat /\ DOMAIN s = 1..Len(s) /\ Len(t) \in Nat /\ DOMAIN t = 1..Len(t)
      /\ DOMAIN (s \o t) = 1..Len(s) + Len(t)
  BY <1>1, LenProperties
<1> DEFINE u == s \o t
<1> HIDE DEF u
<1>3. ASSUME NEW i \in DOMAIN u, u[i].do = "caught", rs[u[i].run].by = "trigger"
      PROVE  i + 1 \in DOMAIN u /\ u[i + 1] = Job("ended", u[i].run)
  <2>1. i \in 1..Len(s) + Len(t) /\ u[i] = IF i <= Len(s) THEN s[i] ELSE t[i - Len(s)]
    BY <1>1, <1>2 DEF u
  <2>2. CASE i <= Len(s)
    <3>1. i \in DOMAIN s /\ u[i] = s[i]
      BY <1>2, <2>1, <2>2
    <3>2. i + 1 \in 1..Len(s) /\ s[i + 1] = Job("ended", u[i].run)
      BY <1>2, <1>3, <3>1 DEF EndsNext
    <3>3. i + 1 \in 1..Len(s) + Len(t) /\ i + 1 <= Len(s)
      BY <1>2, <3>2
    <3>4. u[i + 1] = s[i + 1]
      BY <1>1, <3>3 DEF u
    <3> QED  BY <1>2, <3>2, <3>3, <3>4 DEF u
  <2>3. CASE ~ (i <= Len(s))
    <3>1. i - Len(s) \in DOMAIN t /\ u[i] = t[i - Len(s)]
      BY <1>2, <2>1, <2>3
    <3>2. (i - Len(s)) + 1 \in 1..Len(t) /\ t[(i - Len(s)) + 1] = Job("ended", u[i].run)
      BY <1>2, <1>3, <3>1 DEF EndsNext
    <3>3. i + 1 \in 1..Len(s) + Len(t) /\ ~ (i + 1 <= Len(s)) /\ (i + 1) - Len(s) = (i - Len(s)) + 1
      BY <1>2, <2>1, <2>3, <3>2
    <3>4. u[i + 1] = t[(i + 1) - Len(s)]
      BY <1>1, <3>3 DEF u
    <3> QED  BY <1>2, <3>2, <3>3, <3>4 DEF u
  <2> QED  BY <2>2, <2>3
<1> QED  BY <1>3 DEF EndsNext, u

\* The first callback taken: if the starts that wait for a run's end are now to
\* go on, its place is given up next.
LEMMA FirstTaken ==
  ASSUME NEW S, NEW s \in Seq(S), s # <<>>
  PROVE  /\ In(s) = {Head(s)} \cup In(Tail(s)) /\ Tail(s) \in Seq(S)
         /\ \A rs : EndsNext(s, rs) =>
              /\ EndsNext(Tail(s), rs)
              /\ Head(s).do = "caught" /\ rs[Head(s).run].by = "trigger" =>
                   Tail(s) # <<>> /\ Head(Tail(s)) = Job("ended", Head(s).run)
<1>1. /\ Head(s) \in S /\ Tail(s) \in Seq(S) /\ Len(Tail(s)) = Len(s) - 1
      /\ \A i \in 1..Len(Tail(s)) : Tail(s)[i] = s[i + 1]
  BY HeadTailProperties
<1>2. /\ Len(s) \in Nat /\ DOMAIN s = 1..Len(s) /\ DOMAIN Tail(s) = 1..Len(Tail(s)) /\ Len(s) # 0
      /\ Head(s) = s[1] /\ 1 \in DOMAIN s
  BY <1>1, LenProperties, EmptySeq
<1> DEFINE t == Tail(s)
<1> HIDE DEF t
<1>3. \A i \in DOMAIN t : i \in Nat \ {0} /\ i + 1 \in DOMAIN s /\ t[i] = s[i + 1]
  <2>1. \A i \in 1..Len(t) : i \in Nat \ {0} /\ i + 1 \in 1..Len(s)
    BY <1>1, <1>2 DEF t
  <2> QED  BY <1>1, <1>2, <2>1 DEF t
<1>4. \A i \in DOMAIN s : i = 1 \/ (i - 1 \in DOMAIN t /\ t[i - 1] = s[i])
  <2> SUFFICES ASSUME NEW i \in DOMAIN s, i # 1
               PROVE  i - 1 \in DOMAIN t /\ t[i - 1] = s[i]
    OBVIOUS
  <2>1. i - 1 \in 1..Len(t) /\ (i - 1) + 1 = i
    BY <1>1, <1>2 DEF t
  <2> QED  BY <1>1, <1>2, <2>1 DEF t
<1>5. In(s) = {Head(s)} \cup In(t)
  <2>1. In(s) \subseteq {Head(s)} \cup In(t)
    BY <1>2, <1>4 DEF In
  <2>2. {Head(s)} \cup In(t) \subseteq In(s)
    BY <1>2, <1>3 DEF In
  <2> QED  BY <2>1, <2>2
<1>6. ASSUME NEW rs, EndsNext(s, rs)
      PROVE  /\ EndsNext(t, rs)
             /\ Head(s).do = "caught" /\ rs[Head(s).run].by = "trigger" =>
                  t # <<>> /\ Head(t) = Job("ended", Head(s).run)
  <2>1. ASSUME NEW i \in DOMAIN t, t[i].do = "caught", rs[t[i].run].by = "trigger"
        PROVE  i + 1 \in DOMAIN t /\ t[i + 1] = Job("ended", t[i].run)
    <3>1. (i + 1) + 1 \in DOMAIN s /\ s[(i + 1) + 1] = Job("ended", t[i].run)
      BY <1>3, <1>6, <2>1 DEF EndsNext
    <3>2. i \in Nat \ {0} /\ (i + 1) + 1 # 1 /\ ((i + 1) + 1) - 1 = i + 1
      BY <1>3
    <3> QED  BY <1>4, <3>1, <3>2
  <2>2. ASSUME Head(s).do = "caught", rs[Head(s).run].by = "trigger"
        PROVE  t # <<>> /\ Head(t) = Job("ended", Head(s).run)
    <3>1. 2 \in DOMAIN s /\ s[2] = Job("ended", Head(s).run)
      <4>1. 1 + 1 \in DOMAIN s /\ s[1 + 1] = Job("ended", s[1].run)
        BY <1>2, <1>6, <2>2 DEF EndsNext
      <4> QED  BY <1>2, <4>1
    <3>2. 1 \in DOMAIN t /\ t[1] = Job("ended", Head(s).run)
      BY <1>4, <3>1
    <3>3. t # <<>>
      BY <3>2
    <3>4. t \in Seq(S)
      BY <1>1 DEF t
    <3>5. Head(t) = t[1]
      BY <3>3, <3>4, HeadTailProperties
    <3> QED  BY <3>2, <3>3, <3>5
  <2> QED  BY <2>1, <2>2 DEF EndsNext
<1> QED  BY <1>1, <1>5, <1>6 DEF t

-----------------------------------------------------------------------------
(* Callbacks put to those that are left.                                   *)

\* None that was left is lost, no start is to go on afresh that was not, and a
\* trigger's run gives up its place right after the starts that wait for its end.
Kept(js) ==
  /\ js \in Seq(AnyJob) /\ In(Rest) \subseteq In(js)
  /\ EndsNext(Rest, runs) => EndsNext(js, runs)
  /\ \A j \in In(js) : /\ j.do = "fresh" => j \in In(Rest)
                       /\ j.do = "caught" => j.run \in DOMAIN runs

\* The types of the runs and of what is to be called, for those who need no more of them.
LEMMA JobsTyped ==
  ASSUME RunsInv
  PROVE  /\ runs \in Seq(RunRecords) /\ jobs \in Seq(AnyJob) /\ \A r \in DOMAIN runs : r \in Nat
         /\ \A j \in In(jobs) : j.run \in DOMAIN runs
<1> DEFINE S == [do : JobKinds, run : DOMAIN runs]
<1>1. runs \in Seq(RunRecords) /\ jobs \in Seq(S)
  BY DEF RunsInv, TypeOK
<1>2. \A r \in DOMAIN runs : r \in Nat
  BY <1>1, Indices
<1>3. S \subseteq AnyJob
  BY <1>2 DEF AnyJob
<1>4. \A i \in DOMAIN jobs : jobs[i] \in S
  <2> HIDE DEF S
  <2> QED  BY <1>1, LenProperties, ElementOfSeq
<1>5. jobs \in Seq(AnyJob)
  <2> HIDE DEF S
  <2> QED  BY <1>1, <1>3, SeqMonotonic
<1>6. \A j \in In(jobs) : j.run \in DOMAIN runs
  BY <1>4 DEF In
<1> QED  BY <1>1, <1>2, <1>5, <1>6

\* What is left of a queue is kept of it.
LEMMA KeptRest ==
  ASSUME RunsInv
  PROVE  Kept(Rest)
<1>1. /\ jobs \in Seq(AnyJob) /\ \A j \in In(jobs) : j.run \in DOMAIN runs
  BY JobsTyped
<1>2. CASE jobs = <<>>
  <2>1. In(<<>>) = {} /\ <<>> \in Seq(AnyJob)
    BY DEF In
  <2> QED  BY <1>2, <2>1 DEF Kept, Rest
<1>3. CASE jobs # <<>>
  <2>1. Tail(jobs) \in Seq(AnyJob) /\ In(Tail(jobs)) \subseteq In(jobs)
    BY <1>1, <1>3, Taking
  <2> QED  BY <1>1, <1>3, <2>1 DEF Kept, Rest
<1> QED  BY <1>2, <1>3

\* So is what is kept when more is put at either end that starts nothing afresh.
LEMMA KeptMore ==
  ASSUME NEW js, Kept(js), NEW t \in Seq(AnyJob), EndsNext(t, runs),
         \A j \in In(t) : j.do # "fresh" /\ (j.do = "caught" => j.run \in DOMAIN runs)
  PROVE  Kept(js \o t) /\ Kept(t \o js)
<1>1. js \in Seq(AnyJob)
  BY DEF Kept
<1>2. /\ js \o t \in Seq(AnyJob) /\ In(js \o t) = In(js) \cup In(t)
      /\ t \o js \in Seq(AnyJob) /\ In(t \o js) = In(js) \cup In(t)
  <2> HIDE DEF AnyJob
  <2> QED  BY <1>1, Joined
<1>3. EndsNext(Rest, runs) => EndsNext(js \o t, runs) /\ EndsNext(t \o js, runs)
  <2> HIDE DEF AnyJob
  <2>1. ASSUME EndsNext(Rest, runs)
        PROVE  EndsNext(js \o t, runs) /\ EndsNext(t \o js, runs)
    <3>1. EndsNext(js, runs)
      BY <2>1 DEF Kept
    <3> QED  BY <1>1, <3>1, EndsNextJoined
  <2> QED  BY <2>1
<1>4. Kept(js \o t)
  BY <1>2, <1>3 DEF Kept
<1>5. Kept(t \o js)
  BY <1>2, <1>3 DEF Kept
<1> QED  BY <1>4, <1>5

\* And when what is put there has nothing to do with those starts.
LEMMA KeptPlain ==
  ASSUME NEW js, Kept(js), NEW t \in Seq(AnyJob), Plain(t)
  PROVE  Kept(js \o t) /\ Kept(t \o js)
<1>1. EndsNext(t, runs)
  BY PlainEndsNext
<1>2. \A j \in In(t) : j.do # "fresh" /\ (j.do = "caught" => j.run \in DOMAIN runs)
  BY DEF Plain
<1> QED  BY <1>1, <1>2, KeptMore

\* Nothing to call has nothing to do with them.
LEMMA PlainNone == <<>> \in Seq(AnyJob) /\ Plain(<<>>)
BY DEF Plain, In

\* One callback of another kind has neither.
LEMMA PlainOne ==
  ASSUME NEW do \in JobKinds \ {"caught", "fresh"}, NEW r \in Nat
  PROVE  Job(do, r) \in AnyJob /\ <<Job(do, r)>> \in Seq(AnyJob) /\ Plain(<<Job(do, r)>>)
<1> DEFINE j == Job(do, r)
<1>1. j \in AnyJob /\ j.do = do
  BY DEF Job, AnyJob
<1> HIDE DEF j
<1>2. <<j>> \in Seq(AnyJob) /\ In(<<j>>) = {j}
  <2> HIDE DEF AnyJob
  <2> QED  BY <1>1, OneOf
<1>3. Plain(<<j>>)
  BY <1>1, <1>2 DEF Plain
<1> QED  BY <1>1, <1>2, <1>3 DEF j

\* What waits on a run's end is put to them.
LEMMA KeptEnd ==
  ASSUME NEW js, Kept(js), NEW r \in DOMAIN runs, r \in Nat
  PROVE  /\ Kept(js \o Callbacks(r)) /\ Job("caught", r) \in In(js \o Callbacks(r))
         /\ runs[r].by = "trigger" => Job("ended", r) \in In(js \o Callbacks(r))
<1> DEFINE do == IF runs[r].by = "trigger" THEN "ended" ELSE "then"
           a == Job("caught", r)
           b == Job(do, r)
<1>1. a \in AnyJob /\ b \in AnyJob /\ a.do = "caught" /\ a.run = r /\ b.do = do /\ b.run = r
  BY DEF Job, AnyJob, JobKinds
<1>2. do \in {"ended", "then"} /\ (runs[r].by = "trigger" => b = Job("ended", r))
  OBVIOUS
<1>3. Callbacks(r) = <<a, b>>
  BY DEF Callbacks
<1> HIDE DEF a, b, do
<1>4. /\ <<a, b>> \in Seq(AnyJob) /\ DOMAIN <<a, b>> = {1, 2} /\ <<a, b>>[1] = a /\ <<a, b>>[2] = b
  <2> HIDE DEF AnyJob
  <2> QED  BY <1>1
<1> DEFINE t == <<a, b>>
<1> HIDE DEF t
<1>5. In(t) = {a, b}
  BY <1>4 DEF In, t
<1>6. EndsNext(t, runs)
  <2>1. ASSUME NEW i \in DOMAIN t, t[i].do = "caught", runs[t[i].run].by = "trigger"
        PROVE  i + 1 \in DOMAIN t /\ t[i + 1] = Job("ended", t[i].run)
    <3>1. i = 1
      BY <1>1, <1>2, <1>4, <2>1 DEF t
    <3>2. t[i].run = r
      BY <1>1, <1>4, <3>1 DEF t
    <3>3. b = Job("ended", r)
      BY <1>2, <2>1, <3>2
    <3> QED  BY <1>4, <3>1, <3>2, <3>3 DEF t
  <2> QED  BY <2>1 DEF EndsNext
<1>7. \A j \in In(t) : j.do # "fresh" /\ (j.do = "caught" => j.run \in DOMAIN runs)
  BY <1>1, <1>2, <1>5
<1>8. t \in Seq(AnyJob)
  BY <1>4 DEF t
<1>9. Kept(js \o t)
  BY <1>6, <1>7, <1>8, KeptMore
<1>10. In(js \o t) = In(js) \cup In(t)
  <2> HIDE DEF AnyJob
  <2> QED  BY <1>8, Joined DEF Kept
<1>11. a \in In(js \o t) /\ b \in In(js \o t)
  BY <1>5, <1>10
<1>12. a = Job("caught", r) /\ Callbacks(r) = t
  BY <1>3 DEF a, t
<1> QED  BY <1>2, <1>9, <1>11, <1>12

-----------------------------------------------------------------------------
(* How runs fare while starts wait for their end.                          *)

\* Where a run stands while it has yet to end.
Ahead == {"deciding", "stepping", "falling"}

\* A start waits for a run that has yet to end, a run is over only once it has ended, and one that
\* ends puts what waits on that to what is to be called.
FaresFrom(q, was, now) ==
  /\ now.of = was.of /\ now.by = was.by
  /\ now.waiting > 0 => was.waiting > 0 \/ (Way[was.of] = "restart" /\ now.stage \in Ahead)
  /\ now.stage = "stepping" => now.at > 0 \/ (was.stage = "stepping" /\ was.at = 0)
  /\ was.stage = "over" => now.stage = "over"
  /\ now.stage = "over" => was.stage \in {"settled", "over"}
  /\ now.stage = "settled" /\ was.stage # "settled" =>
       /\ Job("caught", q) \in In(jobs')
       /\ was.by = "trigger" => Job("ended", q) \in In(jobs')

\* No start waits yet for one more, and one whose rule starts it afresh is started by its trigger.
NewlyFares(q) ==
  /\ runs'[q].stage = "deciding" /\ runs'[q].waiting = 0
  /\ Way[runs'[q].of] = "restart" => runs'[q].by = "trigger"

\* What keeps others out is what did, and no run of it is over now; or one more run.
PlaceKept(a) ==
  \/ a \in running /\ \A q \in RunsOf(a) : runs'[q].stage = "over" => runs[q].stage = "over"
  \/ mode[a] = "gone"
  \/ \E q \in DOMAIN runs' : q \notin DOMAIN runs /\ runs'[q].of = a

Fares ==
  /\ \A q \in DOMAIN runs : q \in DOMAIN runs' /\ FaresFrom(q, runs[q], runs'[q])
  /\ \A q \in DOMAIN runs' : q \notin DOMAIN runs => NewlyFares(q)
  /\ \A a \in running' : PlaceKept(a)

\* A run none of this is changed of fares well.
LEMMA FaresSame ==
  ASSUME NEW q, NEW was \in RunRecords, NEW now, now.of = was.of, now.by = was.by, now.stage = was.stage,
         now.waiting = was.waiting, now.at = was.at
  PROVE  FaresFrom(q, was, now)
BY DEF FaresFrom, RunRecords

\* No run goes on.
LEMMA FaresNone ==
  ASSUME runs \in Seq(RunRecords), runs' = runs, running' = running
  PROVE  Fares
<1>1. \A q \in DOMAIN runs : FaresFrom(q, runs[q], runs'[q])
  <2> SUFFICES ASSUME NEW q \in DOMAIN runs PROVE FaresFrom(q, runs[q], runs'[q])
    OBVIOUS
  <2>1. runs[q] \in RunRecords
    BY Indices
  <2> QED  BY <2>1, FaresSame
<1>2. \A a \in running' : PlaceKept(a)
  BY DEF PlaceKept
<1> QED  BY <1>1, <1>2 DEF Fares

\* One run goes on, and is not over.
LEMMA FaresOne ==
  ASSUME runs \in Seq(RunRecords), NEW r \in DOMAIN runs, NEW rec, runs' = [runs EXCEPT ![r] = rec],
         FaresFrom(r, runs[r], rec), rec.stage = "over" => runs[r].stage = "over", running' = running
  PROVE  Fares
<1>1. DOMAIN runs' = DOMAIN runs /\ \A q \in DOMAIN runs : runs'[q] = IF q = r THEN rec ELSE runs[q]
  OBVIOUS
<1>2. \A q \in DOMAIN runs : FaresFrom(q, runs[q], runs'[q])
  <2> SUFFICES ASSUME NEW q \in DOMAIN runs, q # r PROVE FaresFrom(q, runs[q], runs'[q])
    BY <1>1
  <2>1. runs[q] \in RunRecords /\ runs'[q] = runs[q]
    BY <1>1, Indices
  <2> QED  BY <2>1, FaresSame
<1>3. \A a \in running' : PlaceKept(a)
  BY <1>1 DEF PlaceKept, RunsOf
<1> QED  BY <1>1, <1>2, <1>3 DEF Fares

\* One run goes on, and one more is begun: of the same automation if the one is over.
LEMMA FaresGrown ==
  ASSUME runs \in Seq(RunRecords), NEW r \in DOMAIN runs, NEW rec \in RunRecords, FaresFrom(r, runs[r], rec),
         NEW rs, rs = [runs EXCEPT ![r] = rec], NEW new \in RunRecords, runs' = Append(rs, new),
         new.stage = "deciding", new.waiting = 0, Way[new.of] = "restart" => new.by = "trigger",
         running' \subseteq running \cup {new.of},
         rec.stage = "over" /\ runs[r].stage # "over" => new.of = runs[r].of
  PROVE  Fares
<1>1. /\ rs \in Seq(RunRecords) /\ Len(rs) = Len(runs) /\ DOMAIN rs = DOMAIN runs
      /\ rs[r] = rec /\ \A q \in DOMAIN runs : q # r => rs[q] = runs[q]
  <2> HIDE DEF RunRecords
  <2> QED  BY Changed
<1>2. /\ DOMAIN runs' = DOMAIN rs \cup {Len(rs) + 1} /\ runs'[Len(rs) + 1] = new
      /\ \A q \in DOMAIN rs : runs'[q] = rs[q]
  <2> HIDE DEF RunRecords
  <2> QED  BY <1>1, Grown
<1>3. \A q \in DOMAIN runs : q # r => FaresFrom(q, runs[q], runs'[q])
  <2> SUFFICES ASSUME NEW q \in DOMAIN runs, q # r PROVE FaresFrom(q, runs[q], runs'[q])
    OBVIOUS
  <2>1. runs[q] \in RunRecords /\ runs'[q] = runs[q]
    BY <1>1, <1>2, Indices
  <2> QED  BY <2>1, FaresSame
<1>4. \A q \in DOMAIN runs' : q \notin DOMAIN runs => NewlyFares(q)
  BY <1>1, <1>2 DEF NewlyFares
<1>5. ASSUME NEW a \in running'
      PROVE  PlaceKept(a)
  <2>1. CASE a = new.of
    <3>1. Len(rs) + 1 \in DOMAIN runs' /\ Len(rs) + 1 \notin DOMAIN runs
      BY <1>1, <1>2, Indices
    <3> QED  BY <1>2, <2>1, <3>1 DEF PlaceKept
  <2>2. CASE a # new.of
    <3>1. a \in running
      BY <1>5, <2>2
    <3>2. ASSUME NEW q \in RunsOf(a), runs'[q].stage = "over"
          PROVE  runs[q].stage = "over"
      BY <1>1, <1>2, <2>2, <3>2 DEF RunsOf
    <3> QED  BY <3>1, <3>2 DEF PlaceKept
  <2> QED  BY <2>1, <2>2
<1> QED  BY <1>1, <1>2, <1>3, <1>4, <1>5 DEF Fares

\* One more is begun.
LEMMA FaresNew ==
  ASSUME runs \in Seq(RunRecords), NEW new \in RunRecords, runs' = Append(runs, new),
         new.stage = "deciding", new.waiting = 0, Way[new.of] = "restart" => new.by = "trigger",
         running' \subseteq running \cup {new.of}
  PROVE  Fares
<1>1. /\ DOMAIN runs' = DOMAIN runs \cup {Len(runs) + 1} /\ runs'[Len(runs) + 1] = new
      /\ \A q \in DOMAIN runs : runs'[q] = runs[q]
  <2> HIDE DEF RunRecords
  <2> QED  BY Grown
<1>2. \A q \in DOMAIN runs : FaresFrom(q, runs[q], runs'[q])
  <2> SUFFICES ASSUME NEW q \in DOMAIN runs PROVE FaresFrom(q, runs[q], runs'[q])
    OBVIOUS
  <2>1. runs[q] \in RunRecords /\ runs'[q] = runs[q]
    BY <1>1, Indices
  <2> QED  BY <2>1, FaresSame
<1>3. \A q \in DOMAIN runs' : q \notin DOMAIN runs => NewlyFares(q)
  BY <1>1 DEF NewlyFares
<1>4. ASSUME NEW a \in running'
      PROVE  PlaceKept(a)
  <2>1. CASE a = new.of
    <3>1. Len(runs) + 1 \in DOMAIN runs' /\ Len(runs) + 1 \notin DOMAIN runs
      BY <1>1, Indices
    <3> QED  BY <1>1, <2>1, <3>1 DEF PlaceKept
  <2>2. CASE a # new.of
    BY <1>1, <1>4, <2>2 DEF PlaceKept, RunsOf
  <2> QED  BY <2>1, <2>2
<1> QED  BY <1>1, <1>2, <1>3, <1>4 DEF Fares

-----------------------------------------------------------------------------
(* What the parts of the actions do: each lets every run fare as above, and  *)
(* puts to what is left to call only what is kept of it.                     *)

LEMMA SettleFares ==
  ASSUME RunsInv, NEW r \in DOMAIN runs, NEW how, NEW row, NEW rest, Settle(r, how, row, rest),
         runs[r].stage # "over", Kept(rest), running' = running
  PROVE  Fares /\ Kept(jobs')
<1> DEFINE rec == [runs[r] EXCEPT !.stage = "settled", !.step = "none", !.outcome = how, !.row = row]
<1>1. runs \in Seq(RunRecords) /\ runs[r] \in RunRecords /\ r \in Nat
  BY JobsTyped, Indices
<1>2. rec.of = runs[r].of /\ rec.by = runs[r].by /\ rec.stage = "settled" /\ rec.waiting = runs[r].waiting
  BY <1>1 DEF RunRecords
<1>3. runs' = [runs EXCEPT ![r] = rec] /\ jobs' = rest \o Callbacks(r)
  BY DEF Settle
<1> HIDE DEF rec
<1>4. /\ Kept(jobs') /\ Job("caught", r) \in In(jobs')
      /\ runs[r].by = "trigger" => Job("ended", r) \in In(jobs')
  BY <1>1, <1>3, KeptEnd
<1>5. FaresFrom(r, runs[r], rec)
  BY <1>1, <1>2, <1>4 DEF FaresFrom, RunRecords
<1>6. Fares
  BY <1>1, <1>2, <1>3, <1>5, FaresOne
<1> QED  BY <1>4, <1>6

LEMMA ConcludeFares ==
  ASSUME RunsInv, NEW r \in DOMAIN runs, NEW how, NEW rest, Conclude(r, how, rest),
         runs[r].stage # "over", Kept(rest), running' = running
  PROVE  Fares /\ Kept(jobs')
<1>1. CASE how \in {"failed", "stopped"} /\ runs[r].of \in Rescued /\ runs[r].stage = "stepping"
  <2> DEFINE rec == [runs[r] EXCEPT !.stage = "falling", !.step = "acting", !.retried = 0, !.outcome = how]
  <2>1. runs \in Seq(RunRecords) /\ runs[r] \in RunRecords
    BY JobsTyped, Indices
  <2>2. rec.of = runs[r].of /\ rec.by = runs[r].by /\ rec.stage = "falling" /\ rec.waiting = runs[r].waiting
    BY <2>1 DEF RunRecords
  <2>3. runs' = [runs EXCEPT ![r] = rec] /\ jobs' = rest
    BY <1>1 DEF Conclude
  <2> HIDE DEF rec
  <2>4. FaresFrom(r, runs[r], rec)
    BY <2>1, <2>2 DEF FaresFrom, RunRecords
  <2>5. Fares
    BY <2>1, <2>2, <2>3, <2>4, FaresOne
  <2> QED  BY <2>3, <2>5
<1>2. CASE ~ (how \in {"failed", "stopped"} /\ runs[r].of \in Rescued /\ runs[r].stage = "stepping")
  <2>1. Settle(r, IF runs[r].stage = "falling" THEN runs[r].outcome ELSE how, RowAtEnd(r), rest)
    BY <1>2 DEF Conclude
  <2> QED  BY <2>1, SettleFares
<1> QED  BY <1>1, <1>2

LEMMA GoesOnFares ==
  ASSUME RunsInv, NEW r \in DOMAIN runs, NEW rest, GoesOn(r, rest), Kept(rest), running' = running
  PROVE  Fares /\ Kept(jobs')
<1> DEFINE rec == [runs[r] EXCEPT !.step = "none", !.at = @ + 1, !.child = Nobody]
<1>1. runs \in Seq(RunRecords) /\ runs[r] \in RunRecords /\ r \in Nat
  BY JobsTyped, Indices
<1>2. /\ rec.of = runs[r].of /\ rec.by = runs[r].by /\ rec.stage = runs[r].stage
      /\ rec.waiting = runs[r].waiting /\ rec.at = runs[r].at + 1 /\ runs[r].at \in Nat
  BY <1>1 DEF RunRecords
<1>3. runs' = [runs EXCEPT ![r] = rec] /\ jobs' = <<Job("walk", r)>> \o rest
  BY DEF GoesOn
<1> HIDE DEF rec
<1>4. FaresFrom(r, runs[r], rec)
  BY <1>1, <1>2 DEF FaresFrom, RunRecords
<1>5. Fares
  BY <1>1, <1>2, <1>3, <1>4, FaresOne
<1>6. Kept(jobs')
  BY <1>1, <1>3, PlainOne, KeptPlain DEF JobKinds
<1> QED  BY <1>5, <1>6

\* Only what a run waits for in its step changes, and what it has tried.
LEMMA StepFares ==
  ASSUME RunsInv, NEW r \in DOMAIN runs, NEW step, NEW retried, running' = running,
         runs' = [runs EXCEPT ![r] = [runs[r] EXCEPT !.step = step, !.retried = retried]]
  PROVE  Fares
<1> DEFINE rec == [runs[r] EXCEPT !.step = step, !.retried = retried]
<1>1. runs \in Seq(RunRecords) /\ runs[r] \in RunRecords
  BY JobsTyped, Indices
<1>2. /\ rec.of = runs[r].of /\ rec.by = runs[r].by /\ rec.stage = runs[r].stage
      /\ rec.waiting = runs[r].waiting /\ rec.at = runs[r].at
  BY <1>1 DEF RunRecords
<1>3. runs' = [runs EXCEPT ![r] = rec]
  OBVIOUS
<1> HIDE DEF rec
<1>4. FaresFrom(r, runs[r], rec)
  BY <1>1, <1>2, FaresSame
<1> QED  BY <1>1, <1>2, <1>3, <1>4, FaresOne

LEMMA StepOnlyFares ==
  ASSUME RunsInv, NEW r \in DOMAIN runs, NEW step, running' = running, runs' = [runs EXCEPT ![r].step = step]
  PROVE  Fares
<1> DEFINE rec == [runs[r] EXCEPT !.step = step]
<1>1. runs \in Seq(RunRecords) /\ runs[r] \in RunRecords
  BY JobsTyped, Indices
<1>2. /\ rec.of = runs[r].of /\ rec.by = runs[r].by /\ rec.stage = runs[r].stage
      /\ rec.waiting = runs[r].waiting /\ rec.at = runs[r].at
  BY <1>1 DEF RunRecords
<1>3. runs' = [runs EXCEPT ![r] = rec]
  OBVIOUS
<1> HIDE DEF rec
<1>4. FaresFrom(r, runs[r], rec)
  BY <1>1, <1>2, FaresSame
<1> QED  BY <1>1, <1>2, <1>3, <1>4, FaresOne

LEMMA StoppedFares ==
  ASSUME RunsInv, NEW r \in DOMAIN runs, runs' = Stopped(r), running' = running
  PROVE  Fares
<1> DEFINE rec == [runs[r] EXCEPT !.stopped = TRUE, !.step = IF Wakeable(r) THEN "woken" ELSE @]
<1>1. runs \in Seq(RunRecords) /\ runs[r] \in RunRecords
  BY JobsTyped, Indices
<1>2. /\ rec.of = runs[r].of /\ rec.by = runs[r].by /\ rec.stage = runs[r].stage
      /\ rec.waiting = runs[r].waiting /\ rec.at = runs[r].at
  BY <1>1 DEF RunRecords
<1>3. runs' = [runs EXCEPT ![r] = rec]
  BY DEF Stopped
<1> HIDE DEF rec
<1>4. FaresFrom(r, runs[r], rec)
  BY <1>1, <1>2, FaresSame
<1> QED  BY <1>1, <1>2, <1>3, <1>4, FaresOne

\* The waits a stop wakes say nothing of starts.
LEMMA WakesPlain ==
  ASSUME NEW r \in Nat
  PROVE  Wakes(r) \in Seq(AnyJob) /\ Plain(Wakes(r))
<1>1. \/ Wakes(r) = <<>> \/ Wakes(r) = <<Job("quit", r)>> \/ Wakes(r) = <<Job("stopchild", r)>>
  BY DEF Wakes
<1> QED  BY <1>1, PlainNone, PlainOne DEF JobKinds

LEMMA BeginsFares ==
  ASSUME RunsInv, NEW r \in DOMAIN runs, NEW rest, Begins(r, rest), Kept(rest), running' = running,
         runs[r].stage = "deciding"
  PROVE  Fares /\ Kept(jobs')
<1>1. CASE Taken(r)
  BY <1>1, SettleFares DEF Begins
<1>2. CASE ~Taken(r) /\ runs[r].of \in Sequences /\ mode[runs[r].of] = "gone"
  BY <1>2, SettleFares DEF Begins
<1>3. CASE ~Taken(r) /\ ~ (runs[r].of \in Sequences /\ mode[runs[r].of] = "gone")
  <2> DEFINE row == IF runs[r].of \in Sequences THEN "running" ELSE "none"
             rec == [runs[r] EXCEPT !.stage = "stepping", !.at = 1, !.row = row]
             walk == <<Job("walk", r)>>
             begun == IF Awaited(r) THEN <<Job("begun", runs[r].parent)>> ELSE <<>>
  <2>1. runs \in Seq(RunRecords) /\ runs[r] \in RunRecords /\ r \in Nat
    BY JobsTyped, Indices
  <2>2. runs' = [runs EXCEPT ![r] = rec] /\ jobs' = (walk \o rest) \o begun
    BY <1>3 DEF Begins
  <2>3. /\ rec.of = runs[r].of /\ rec.by = runs[r].by /\ rec.stage = "stepping"
        /\ rec.waiting = runs[r].waiting /\ rec.at = 1 /\ runs[r].parent \in Nat
    BY <2>1 DEF RunRecords
  <2> HIDE DEF rec
  <2>4. FaresFrom(r, runs[r], rec)
    BY <2>1, <2>3 DEF FaresFrom, RunRecords, Ahead
  <2>5. Fares
    BY <2>1, <2>2, <2>3, <2>4, FaresOne
  <2>6. walk \in Seq(AnyJob) /\ Plain(walk)
    BY <2>1, PlainOne DEF JobKinds
  <2>7. begun \in Seq(AnyJob) /\ Plain(begun)
    BY <2>3, PlainOne, PlainNone DEF JobKinds
  <2> HIDE DEF walk, begun
  <2>8. Kept(walk \o rest)
    BY <2>6, KeptPlain
  <2>9. Kept(jobs')
    BY <2>2, <2>7, <2>8, KeptPlain
  <2> QED  BY <2>5, <2>9
<1> QED  BY <1>1, <1>2, <1>3

LEMMA StartTriggeredFares ==
  ASSUME RunsInv, NEW a \in Automations, NEW rest, StartTriggered(a, rest), Kept(rest)
  PROVE  Fares /\ Kept(jobs')
<1>1. runs \in Seq(RunRecords) /\ Len(runs) \in Nat
  BY JobsTyped, Indices
<1>2. running' = running \cup {a}
  BY DEF StartTriggered
<1>3. CASE mode[a] = "gone"
  <2>1. runs' = runs /\ jobs' = rest
    BY <1>3 DEF StartTriggered
  <2>2. \A q \in DOMAIN runs : FaresFrom(q, runs[q], runs'[q])
    <3> SUFFICES ASSUME NEW q \in DOMAIN runs PROVE FaresFrom(q, runs[q], runs'[q])
      OBVIOUS
    <3>1. runs[q] \in RunRecords
      BY <1>1, Indices
    <3> QED  BY <2>1, <3>1, FaresSame
  <2>3. \A b \in running' : PlaceKept(b)
    BY <1>2, <1>3, <2>1 DEF PlaceKept
  <2> QED  BY <2>1, <2>2, <2>3 DEF Fares
<1>4. CASE mode[a] # "gone"
  <2> DEFINE new == NewRun(a, "trigger", Nobody)
             first == <<Job("run", Len(runs) + 1)>>
  <2>1. /\ new \in RunRecords /\ new.stage = "deciding" /\ new.waiting = 0 /\ new.of = a
        /\ new.by = "trigger"
    BY <1>1 DEF NewRun, RunRecords, Nobody
  <2>2. runs' = Append(runs, new) /\ jobs' = first \o rest
    BY <1>4 DEF StartTriggered
  <2>3. first \in Seq(AnyJob) /\ Plain(first)
    BY <1>1, PlainOne DEF JobKinds
  <2> HIDE DEF new, first
  <2>4. Fares
    BY <1>1, <1>2, <2>1, <2>2, FaresNew
  <2> QED  BY <2>2, <2>3, <2>4, KeptPlain
<1> QED  BY <1>3, <1>4

LEMMA EndedFares ==
  ASSUME RunsInv, NEW r \in DOMAIN runs, NEW rest, Ended(r, rest), Kept(rest), runs[r].stage = "settled"
  PROVE  Fares /\ Kept(jobs') /\ runs'[r].stage = "over"
<1> DEFINE a == runs[r].of
           over == [runs EXCEPT ![r].stage = "over"]
           done == [runs[r] EXCEPT !.stage = "over"]
           new == NewRun(a, "trigger", Nobody)
           first == <<Job("run", Len(runs) + 1)>>
<1>1. runs \in Seq(RunRecords) /\ Len(runs) \in Nat /\ runs[r] \in RunRecords
  BY JobsTyped, Indices
<1>2. /\ done \in RunRecords /\ done.of = runs[r].of /\ done.by = runs[r].by /\ done.stage = "over"
      /\ done.waiting = runs[r].waiting
  BY <1>1 DEF RunRecords
<1>3. over = [runs EXCEPT ![r] = done] /\ DOMAIN over = DOMAIN runs
  OBVIOUS
<1> HIDE DEF done
<1>4. FaresFrom(r, runs[r], done)
  BY <1>1, <1>2 DEF FaresFrom, RunRecords
<1>5. CASE runs' = over /\ running' = running \ {a} /\ jobs' = rest
  <2> HIDE DEF over
  <2>1. DOMAIN runs' = DOMAIN runs /\ \A q \in DOMAIN runs : runs'[q] = IF q = r THEN done ELSE runs[q]
    BY <1>3, <1>5
  <2>2. \A q \in DOMAIN runs : FaresFrom(q, runs[q], runs'[q])
    <3> SUFFICES ASSUME NEW q \in DOMAIN runs, q # r PROVE FaresFrom(q, runs[q], runs'[q])
      BY <1>4, <2>1
    <3>1. runs[q] \in RunRecords /\ runs'[q] = runs[q]
      BY <1>1, <2>1, Indices
    <3> QED  BY <3>1, FaresSame
  <2>3. \A b \in running' : PlaceKept(b)
    BY <1>5, <2>1 DEF PlaceKept, RunsOf
  <2> QED  BY <1>2, <1>5, <2>1, <2>2, <2>3 DEF Fares
<1>6. CASE runs' = Append(over, new) /\ jobs' = first \o rest /\ running' = running
  <2>1. a \in Automations
    BY <1>1 DEF RunRecords
  <2>2. new.stage = "deciding" /\ new.waiting = 0 /\ new.of = a /\ new.by = "trigger"
    BY DEF NewRun
  <2>3. new \in RunRecords
    BY <1>1, <2>1, SMTT(30) DEF NewRun, RunRecords, Nobody
  <2>4. first \in Seq(AnyJob) /\ Plain(first)
    BY <1>1, PlainOne DEF JobKinds
  <2>5. a = runs[r].of
    OBVIOUS
  <2> HIDE DEF over, new, first, a
  <2>6. Fares
    <3> HIDE DEF RunRecords
    <3> QED  BY <1>1, <1>2, <1>3, <1>4, <1>6, <2>2, <2>3, <2>5, FaresGrown
  <2>7. runs'[r] = done
    <3>1. over \in Seq(RunRecords) /\ over[r] = done /\ r \in DOMAIN over
      <4> HIDE DEF RunRecords
      <4> QED  BY <1>1, <1>2, <1>3, Changed
    <3> HIDE DEF RunRecords
    <3> QED  BY <1>6, <2>3, <3>1, Grown
  <2> QED  BY <1>2, <1>6, <2>4, <2>6, <2>7, KeptPlain
<1> QED  BY <1>5, <1>6 DEF Ended

\* An automation whose rule starts it afresh is started by its trigger alone: no person plays it,
\* and no other's step starts it.  A run that was asked for gives up its place a callback later,
\* and the start afresh comes before.
TriggersAlone ==
  \A a \in Automations : Way[a] = "restart" =>
    /\ a \notin Playable
    /\ \A b \in Automations : \A i \in DOMAIN Steps[b] : Steps[b][i] \in {"start", "startwait"} => Starts[b] # a

LEMMA StartStepFares ==
  ASSUME RunsInv, TriggersAlone, NEW r \in DOMAIN runs, StartStep(r), Kept(Tail(jobs)), runs[r].stage = "stepping",
         runs[r].at > 0, runs[r].at <= Len(Steps[runs[r].of]), StepOf(r) \in {"start", "startwait"}
  PROVE  Fares /\ Kept(jobs')
<1> DEFINE b == Starts[runs[r].of]
           n == Len(runs) + 1
           new == NewRun(b, "run", r)
           was == [runs[r] EXCEPT !.step = "starting", !.child = n]
           rs == [runs EXCEPT ![r].step = "starting", ![r].child = n]
           first == <<Job("run", n)>>
           then == <<Job("attach", r)>>
<1>1. /\ runs \in Seq(RunRecords) /\ runs[r] \in RunRecords /\ Len(runs) \in Nat /\ r \in Nat \ {0}
      /\ n \in Nat /\ Tail(jobs) \in Seq(AnyJob)
  BY JobsTyped, Indices DEF Kept
<1>2. CASE StartRefused(r)
  BY <1>2, ConcludeFares DEF StartStep
<1>3. CASE ~StartRefused(r)
  <2>1. /\ runs' = Append(rs, new) /\ jobs' = <<Job("run", n), Job("attach", r)>> \o Tail(jobs)
        /\ running' = running \cup {b}
    BY <1>3 DEF StartStep
  <2>2. b \in Automations /\ runs[r].of \in Automations
    BY <1>1, RunsAssumption DEF RunRecords
  <2>3. runs[r].root \in Nat \ {0} /\ runs[r].chain \cup {runs[r].of} \in SUBSET Automations
    <3>1. runs[r].root \in Nat \ {0} /\ runs[r].chain \in SUBSET Automations
      BY <1>1 DEF RunRecords
    <3> QED  BY <2>2, <3>1
  <2>4. new \in RunRecords /\ new.stage = "deciding" /\ new.waiting = 0 /\ new.of = b
    BY <1>1, <2>2, <2>3 DEF NewRun, RunRecords, Nobody
  <2>5. Way[b] # "restart"
    <3>1. runs[r].at \in Nat
      BY <1>1 DEF RunRecords
    <3>2. Len(Steps[runs[r].of]) \in Nat /\ DOMAIN Steps[runs[r].of] = 1..Len(Steps[runs[r].of])
      BY <2>2, RunsAssumption, LenProperties
    <3>3. runs[r].at \in DOMAIN Steps[runs[r].of]
      BY <3>1, <3>2
    <3> QED  BY <2>2, <3>3 DEF TriggersAlone, StepOf
  <2>6. /\ was \in RunRecords /\ was.of = runs[r].of /\ was.by = runs[r].by /\ was.stage = runs[r].stage
        /\ was.waiting = runs[r].waiting /\ was.at = runs[r].at
    <3> HIDE DEF n
    <3> QED  BY <1>1 DEF RunRecords
  <2>7. rs = [runs EXCEPT ![r] = was]
    OBVIOUS
  <2>8. first \in Seq(AnyJob) /\ Plain(first) /\ then \in Seq(AnyJob) /\ Plain(then)
    BY <1>1, PlainOne DEF JobKinds
  <2>9. jobs' = first \o (then \o Tail(jobs))
    <3>1. Job("run", n) \in AnyJob /\ Job("attach", r) \in AnyJob
      BY <1>1, PlainOne DEF JobKinds
    <3> DEFINE j == Job("run", n)
               k == Job("attach", r)
    <3> HIDE DEF AnyJob, Job, n
    <3>2. <<j, k>> \o Tail(jobs) = <<j>> \o (<<k>> \o Tail(jobs))
      BY <1>1, <3>1, TwoFirst
    <3> QED  BY <2>1, <3>2
  <2> HIDE DEF rs, was, new, b, first, then
  <2>10. FaresFrom(r, runs[r], was)
    BY <1>1, <2>6, FaresSame
  <2>11. Fares
    <3> HIDE DEF RunRecords
    <3> QED  BY <1>1, <2>1, <2>4, <2>5, <2>6, <2>7, <2>10, FaresGrown
  <2>12. Kept(then \o Tail(jobs))
    BY <2>8, KeptPlain
  <2>13. Kept(jobs')
    BY <2>8, <2>9, <2>12, KeptPlain
  <2> QED  BY <2>11, <2>13
<1> QED  BY <1>2, <1>3

LEMMA WalkFares ==
  ASSUME RunsInv, TriggersAlone, NEW r \in DOMAIN runs, r = Head(jobs).run, Walk, Kept(Tail(jobs)),
         runs[r].stage = "stepping", runs[r].at > 0
  PROVE  Fares /\ Kept(jobs')
<1>1. CASE Conclude(r, "stopped", Tail(jobs)) /\ running' = running
  BY <1>1, ConcludeFares
<1>2. CASE Settle(r, "acted", RowAtEnd(r), Tail(jobs)) /\ running' = running
  BY <1>2, SettleFares
<1>3. CASE /\ runs' = [runs EXCEPT ![r].step = IF StepOf(r) = "act" THEN "acting" ELSE "asleep",
                                   ![r].retried = 0]
           /\ jobs' = Tail(jobs) /\ running' = running
  <2> DEFINE step == IF StepOf(r) = "act" THEN "acting" ELSE "asleep"
  <2>1. runs' = [runs EXCEPT ![r] = [runs[r] EXCEPT !.step = step, !.retried = 0]]
    BY <1>3
  <2>2. jobs' = Tail(jobs) /\ running' = running
    BY <1>3
  <2> HIDE DEF step
  <2>3. Fares
    BY <2>1, <2>2, StepFares
  <2> QED  BY <2>2, <2>3
<1>4. CASE StartStep(r) /\ runs[r].at <= Len(Steps[runs[r].of]) /\ StepOf(r) \in {"start", "startwait"}
  BY <1>4, StartStepFares
<1> QED  BY <1>1, <1>2, <1>3, <1>4 DEF Walk

-----------------------------------------------------------------------------
(* What the actions do, save those that put starts to go on afresh to what *)
(* is to be called (Caught), or lose it all (Crash).                       *)

\* The next callback is called.
LEMMA NextTaken ==
  ASSUME RunsInv, NEW do, Next1(do), NEW r, r = Head(jobs).run
  PROVE  /\ r \in DOMAIN runs /\ r \in Nat /\ runs[r] \in RunRecords /\ Due(do, runs[r])
         /\ Head(jobs) = Job(do, r) /\ jobs # <<>> /\ Rest = Tail(jobs) /\ Kept(Tail(jobs))
<1>1. /\ r \in DOMAIN runs /\ runs[r] \in RunRecords /\ Due(do, runs[r]) /\ Head(jobs) = Job(do, r)
  BY Called
<1>2. jobs # <<>> /\ Rest = Tail(jobs)
  BY DEF Next1, Rest
<1>3. Kept(Tail(jobs)) /\ r \in Nat
  BY <1>1, <1>2, KeptRest, JobsTyped
<1> QED  BY <1>1, <1>2, <1>3

LEMMA RunFares ==
  ASSUME RunsInv, Run
  PROVE  Fares /\ Kept(jobs')
<1> DEFINE r == Head(jobs).run
<1>1. Next1("run") /\ running' = running
  BY DEF Run
<1>2. r \in DOMAIN runs /\ runs[r].stage = "deciding" /\ Kept(Tail(jobs)) /\ runs \in Seq(RunRecords)
  BY <1>1, NextTaken, JobsTyped DEF Due
<1>3. \/ runs' = runs /\ jobs' = Tail(jobs)
      \/ Begins(r, Tail(jobs))
  BY DEF Run
<1> HIDE DEF r
<1> QED  BY <1>1, <1>2, <1>3, FaresNone, BeginsFares

LEMMA AttachFares ==
  ASSUME RunsInv, Attach
  PROVE  Fares /\ Kept(jobs')
<1> DEFINE r == Head(jobs).run
           more == IF runs[runs[r].child].at > 0 THEN <<Job("begun", r)>> ELSE <<>>
<1>1. Next1("attach") /\ running' = running /\ runs' = [runs EXCEPT ![r].step = "beginning"]
      /\ jobs' = Tail(jobs) \o more
  BY DEF Attach
<1>2. r \in DOMAIN runs /\ r \in Nat /\ Kept(Tail(jobs))
  BY <1>1, NextTaken
<1>3. more \in Seq(AnyJob) /\ Plain(more)
  BY <1>2, PlainOne, PlainNone DEF JobKinds
<1> HIDE DEF r, more
<1> QED  BY <1>1, <1>2, <1>3, StepOnlyFares, KeptPlain

LEMMA BegunFares ==
  ASSUME RunsInv, Begun
  PROVE  Fares /\ Kept(jobs')
<1> DEFINE r == Head(jobs).run
<1>1. Next1("begun") /\ running' = running
  BY DEF Begun
<1>2. r \in DOMAIN runs /\ Kept(Tail(jobs)) /\ runs[r].stage # "over"
  BY <1>1, NextTaken DEF Due
<1>3. \/ Conclude(r, "failed", Tail(jobs)) \/ GoesOn(r, Tail(jobs))
      \/ runs' = [runs EXCEPT ![r].step = "awaiting"] /\ jobs' = Tail(jobs)
  BY DEF Begun
<1> HIDE DEF r
<1> QED  BY <1>1, <1>2, <1>3, ConcludeFares, GoesOnFares, StepOnlyFares

LEMMA ChildEndedFares ==
  ASSUME RunsInv, ChildEnded
  PROVE  Fares /\ Kept(jobs')
<1> DEFINE r == Head(jobs).run
<1>1. Next1("childend") /\ running' = running
  BY DEF ChildEnded
<1>2. r \in DOMAIN runs /\ Kept(Tail(jobs)) /\ runs \in Seq(RunRecords) /\ Stands(runs[r], Len(runs))
  BY <1>1, NextTaken, Called, JobsTyped
<1>3. \/ runs' = runs /\ jobs' = Tail(jobs)
      \/ GoesOn(r, Tail(jobs))
      \/ Conclude(r, "failed", Tail(jobs)) /\ runs[r].step = "awaiting"
  BY DEF ChildEnded
<1>4. runs[r].step = "awaiting" => runs[r].stage # "over"
  BY <1>2 DEF Stands
<1> HIDE DEF r
<1> QED  BY <1>1, <1>2, <1>3, <1>4, ConcludeFares, GoesOnFares, FaresNone

LEMMA QuitFares ==
  ASSUME RunsInv, Quit
  PROVE  Fares /\ Kept(jobs')
<1> DEFINE r == Head(jobs).run
<1>1. Next1("quit") /\ running' = running /\ Conclude(r, "stopped", Tail(jobs))
  BY DEF Quit
<1>2. r \in DOMAIN runs /\ Kept(Tail(jobs)) /\ runs[r].stage # "over"
  BY <1>1, NextTaken DEF Due
<1> HIDE DEF r
<1> QED  BY <1>1, <1>2, ConcludeFares

LEMMA StopChildFares ==
  ASSUME RunsInv, StopChild
  PROVE  Fares /\ Kept(jobs')
<1> DEFINE r == Head(jobs).run
           quit == <<Job("quit", r)>>
<1>1. Next1("stopchild") /\ running' = running
  BY DEF StopChild
<1>2. r \in DOMAIN runs /\ r \in Nat /\ Kept(Tail(jobs)) /\ runs \in Seq(RunRecords) /\ \A q \in DOMAIN runs : q \in Nat
  BY <1>1, NextTaken, JobsTyped
<1>3. \/ runs' = runs /\ jobs' = quit \o Tail(jobs)
      \/ \E q \in DOMAIN runs : runs' = Stopped(q) /\ jobs' = (quit \o Tail(jobs)) \o Wakes(q)
  BY DEF StopChild, RunsOf
<1>4. quit \in Seq(AnyJob) /\ Plain(quit)
  BY <1>2, PlainOne DEF JobKinds
<1> HIDE DEF quit
<1>5. Kept(quit \o Tail(jobs))
  BY <1>2, <1>4, KeptPlain
<1>6. CASE runs' = runs /\ jobs' = quit \o Tail(jobs)
  BY <1>1, <1>2, <1>5, <1>6, FaresNone
<1>7. ASSUME NEW q \in DOMAIN runs, runs' = Stopped(q), jobs' = (quit \o Tail(jobs)) \o Wakes(q)
      PROVE  Fares /\ Kept(jobs')
  <2>1. Wakes(q) \in Seq(AnyJob) /\ Plain(Wakes(q))
    BY <1>2, WakesPlain
  <2> QED  BY <1>1, <1>5, <1>7, <2>1, StoppedFares, KeptPlain
<1> QED  BY <1>3, <1>6, <1>7

\* What waited to start afresh is let go, or starts.
LEMMA FreshFares ==
  ASSUME RunsInv, Fresh
  PROVE  Fares /\ Kept(jobs')
<1> DEFINE r == Head(jobs).run
<1>1. Next1("fresh")
  BY DEF Fresh
<1>2. Kept(Tail(jobs)) /\ runs \in Seq(RunRecords) /\ runs[r].of \in Automations
  BY <1>1, NextTaken, JobsTyped DEF RunRecords
<1>3. \/ runs' = runs /\ jobs' = Tail(jobs) /\ running' = running
      \/ StartTriggered(runs[r].of, Tail(jobs))
  BY DEF Fresh
<1> HIDE DEF r
<1> QED  BY <1>2, <1>3, FaresNone, StartTriggeredFares

LEMMA ThenFares ==
  ASSUME RunsInv, Then
  PROVE  Fares /\ Kept(jobs')
<1> DEFINE r == Head(jobs).run
           more == IF Awaited(r) /\ runs[r].at = 0 THEN <<Job("begun", runs[r].parent)>> ELSE <<>>
           last == <<Job("finally", r)>>
<1>1. Next1("then") /\ running' = running /\ runs' = runs /\ jobs' = (Tail(jobs) \o more) \o last
  BY DEF Then
<1>2. r \in DOMAIN runs /\ r \in Nat /\ runs[r] \in RunRecords /\ Kept(Tail(jobs)) /\ runs \in Seq(RunRecords)
  BY <1>1, NextTaken, JobsTyped
<1>3. runs[r].parent \in Nat
  BY <1>2 DEF RunRecords
<1>4. more \in Seq(AnyJob) /\ Plain(more) /\ last \in Seq(AnyJob) /\ Plain(last)
  BY <1>2, <1>3, PlainOne, PlainNone DEF JobKinds
<1> HIDE DEF r, more, last
<1>5. Kept(Tail(jobs) \o more)
  BY <1>2, <1>4, KeptPlain
<1> QED  BY <1>1, <1>2, <1>4, <1>5, FaresNone, KeptPlain

LEMMA EndedTriggeredFares ==
  ASSUME RunsInv, EndedTriggered
  PROVE  Fares /\ Kept(jobs') /\ runs'[Head(jobs).run].stage = "over"
<1> DEFINE r == Head(jobs).run
<1>1. Next1("ended") /\ Ended(r, Tail(jobs))
  BY DEF EndedTriggered
<1>2. r \in DOMAIN runs /\ Kept(Tail(jobs)) /\ runs[r].stage = "settled"
  BY <1>1, NextTaken DEF Due
<1> HIDE DEF r
<1>3. Fares /\ Kept(jobs') /\ runs'[r].stage = "over"
  BY <1>1, <1>2, EndedFares
<1> QED  BY <1>3 DEF r

LEMMA FinallyFares ==
  ASSUME RunsInv, Finally
  PROVE  Fares /\ Kept(jobs')
<1> DEFINE r == Head(jobs).run
           more == IF runs[r].parent # Nobody THEN <<Job("childend", runs[r].parent)>> ELSE <<>>
<1>1. Next1("finally") /\ Ended(r, Tail(jobs) \o more)
  BY DEF Finally
<1>2. r \in DOMAIN runs /\ runs[r] \in RunRecords /\ Kept(Tail(jobs)) /\ runs[r].stage = "settled"
  BY <1>1, NextTaken DEF Due
<1>3. runs[r].parent \in Nat
  BY <1>2 DEF RunRecords
<1>4. more \in Seq(AnyJob) /\ Plain(more)
  BY <1>3, PlainOne, PlainNone DEF JobKinds
<1> HIDE DEF r, more
<1>5. Kept(Tail(jobs) \o more)
  BY <1>2, <1>4, KeptPlain
<1> QED  BY <1>1, <1>2, <1>5, EndedFares
\* What comes from outside finds nothing to be called.
LEMMA KeptQuiet ==
  ASSUME jobs = <<>>, NEW t \in Seq(AnyJob), Plain(t)
  PROVE  Kept(t)
<1>1. Rest = <<>> /\ In(Rest) = {}
  BY DEF Rest, In
<1>2. EndsNext(t, runs)
  BY PlainEndsNext
<1> QED  BY <1>1, <1>2 DEF Kept, Plain

LEMMA ComesFares ==
  ASSUME RunsInv, NEW r \in DOMAIN runs, Comes(r) \/ Stop(r)
  PROVE  Fares /\ Kept(jobs')
<1>0. Quiet /\ running' = running
  BY DEF Comes, Decide, Answer, SendAgain, WaitOver, Stop
<1>1. jobs = <<>> /\ Kept(jobs) /\ r \in Nat /\ Stands(runs[r], Len(runs))
  <2>1. jobs = <<>> /\ r \in Nat /\ Stands(runs[r], Len(runs))
    BY <1>0, Outside, JobsTyped
  <2>2. Kept(jobs)
    BY <2>1, KeptRest DEF Rest
  <2> QED  BY <2>1, <2>2
<1>2. CASE Decide(r)
  <2>1. runs[r].stage = "deciding" /\ (Begins(r, jobs) \/ Settle(r, "idle", RowAtEnd(r), jobs))
    BY <1>2 DEF Decide
  <2> QED  BY <1>0, <1>1, <2>1, BeginsFares, SettleFares
<1>3. CASE Answer(r)
  <2>1. /\ runs[r].step = "acting"
        /\ \/ GoesOn(r, jobs) \/ Conclude(r, "failed", jobs)
           \/ \E why \in {1, 2} : runs' = [runs EXCEPT ![r].step = "pausing", ![r].retried = why] /\ jobs' = jobs
    BY <1>3 DEF Answer
  <2>2. runs[r].stage # "over"
    BY <1>1, <2>1 DEF Stands
  <2>3. ASSUME NEW why \in {1, 2},
               runs' = [runs EXCEPT ![r].step = "pausing", ![r].retried = why] /\ jobs' = jobs
        PROVE  Fares /\ Kept(jobs')
    <3>1. runs' = [runs EXCEPT ![r] = [runs[r] EXCEPT !.step = "pausing", !.retried = why]]
      BY <2>3
    <3>2. Fares
      BY <1>0, <3>1, StepFares
    <3> QED  BY <1>1, <2>3, <3>2
  <2> QED  BY <1>0, <1>1, <2>1, <2>2, <2>3, GoesOnFares, ConcludeFares
<1>4. CASE SendAgain(r)
  <2>1. runs' = [runs EXCEPT ![r].step = "acting"]
    BY <1>4 DEF SendAgain
  <2>2. Fares
    BY <1>0, <2>1, StepOnlyFares
  <2>3. jobs' = jobs
    BY <1>4 DEF SendAgain
  <2> QED  BY <1>1, <2>2, <2>3
<1>5. CASE WaitOver(r)
  <2>1. /\ runs[r].step \in {"asleep", "awaiting", "pausing"}
        /\ GoesOn(r, jobs) \/ Conclude(r, "failed", jobs)
    BY <1>5 DEF WaitOver
  <2>2. runs[r].stage # "over"
    BY <1>1, <2>1 DEF Stands
  <2> QED  BY <1>0, <1>1, <2>1, <2>2, GoesOnFares, ConcludeFares
<1>6. CASE Stop(r)
  <2>1. runs' = Stopped(r) /\ jobs' = Wakes(r)
    BY <1>6 DEF Stop
  <2>2. Kept(Wakes(r))
    BY <1>1, WakesPlain, KeptQuiet
  <2> QED  BY <1>0, <2>1, <2>2, StoppedFares
<1> QED  BY <1>2, <1>3, <1>4, <1>5, <1>6 DEF Comes

\* Started afresh by its trigger alone, and waited for only by starts of such a rule; and no step
\* is before the first.
Lone ==
  \A r \in DOMAIN runs :
    /\ Way[runs[r].of] = "restart" => runs[r].by = "trigger"
    /\ runs[r].waiting > 0 => Way[runs[r].of] = "restart"
    /\ runs[r].stage = "stepping" => runs[r].at > 0

\* A run that a trigger started and that has ended is to give up its place.
GivesUp ==
  /\ EndsNext(jobs, runs)
  /\ \A r \in DOMAIN runs : runs[r].stage = "settled" /\ runs[r].by = "trigger" => Job("ended", r) \in In(jobs)

\* One start more waits for a run that has yet to end.
LEMMA WaitedFares ==
  ASSUME RunsInv, NEW r \in DOMAIN runs, NEW rec, runs' = [runs EXCEPT ![r] = rec], running' = running,
         rec.of = runs[r].of, rec.by = runs[r].by, rec.stage = runs[r].stage, rec.at = runs[r].at,
         Way[runs[r].of] = "restart", runs[r].stage \in Ahead
  PROVE  Fares
<1>1. runs \in Seq(RunRecords) /\ runs[r] \in RunRecords
  BY JobsTyped, Indices
<1>2. FaresFrom(r, runs[r], rec)
  BY <1>1 DEF FaresFrom, RunRecords
<1> QED  BY <1>1, <1>2, FaresOne

LEMMA TriggerFares ==
  ASSUME RunsInv, Lone, GivesUp, NEW a \in Automations, NEW happening \in BOOLEAN, Trigger(a, happening)
  PROVE  Fares /\ Kept(jobs')
<1>1. jobs = <<>> /\ Kept(jobs) /\ runs \in Seq(RunRecords)
  <2>1. jobs = <<>>
    BY Outside DEF Trigger
  <2> QED  BY <2>1, KeptRest, JobsTyped DEF Rest
<1>2. CASE StartTriggered(a, jobs)
  BY <1>1, <1>2, StartTriggeredFares
<1>3. CASE runs' = runs /\ running' = running /\ jobs' = jobs
  BY <1>1, <1>3, FaresNone
<1>4. ASSUME NEW r \in RunsOf(a), Active(r), Way[a] = "restart", running' = running,
             LET after == IF Holding(r) THEN Stopped(r) ELSE runs
             IN  runs' = [after EXCEPT ![r].waiting = @ + 1],
             jobs' = IF Holding(r) THEN Wakes(r) ELSE <<>>
      PROVE  Fares /\ Kept(jobs')
  <2>1. r \in DOMAIN runs /\ runs[r].of = a /\ runs[r] \in RunRecords /\ r \in Nat
    BY <1>1, Indices DEF RunsOf
  <2>0. Way[runs[r].of] = "restart" /\ running' = running
    BY <1>4, <2>1
  <2>2. runs[r].stage \in Ahead
    <3>1. runs[r].by = "trigger" /\ runs[r].stage # "over"
      BY <1>4, <2>1 DEF Lone, Active
    <3>2. runs[r].stage # "settled"
      BY <1>1, <2>1, <3>1 DEF GivesUp, In
    <3> QED  BY <2>1, <3>1, <3>2 DEF RunRecords, Ahead
  <2>3. Kept(jobs')
    BY <1>1, <1>4, <2>1, WakesPlain, PlainNone, KeptQuiet
  <2>4. CASE Holding(r)
    <3> DEFINE was == [runs[r] EXCEPT !.stopped = TRUE, !.step = IF Wakeable(r) THEN "woken" ELSE @]
               rec == [was EXCEPT !.waiting = @ + 1]
    <3>1. Stopped(r) = [runs EXCEPT ![r] = was]
      BY DEF Stopped
    <3>2. runs' = [Stopped(r) EXCEPT ![r] = [Stopped(r)[r] EXCEPT !.waiting = @ + 1]]
      BY <1>4, <2>4
    <3>3. Stopped(r)[r] = was
      BY <2>1, <3>1
    <3>4. runs' = [runs EXCEPT ![r] = rec]
      <4> HIDE DEF was, Stopped
      <4>1. runs' = [[runs EXCEPT ![r] = was] EXCEPT ![r] = rec]
        BY <3>1, <3>2, <3>3 DEF rec
      <4> HIDE DEF rec
      <4> QED  BY <4>1
    <3>5. was.of = runs[r].of /\ was.by = runs[r].by /\ was.stage = runs[r].stage /\ was.at = runs[r].at
      BY <2>1 DEF RunRecords
    <3>6. rec.of = was.of /\ rec.by = was.by /\ rec.stage = was.stage /\ rec.at = was.at
      BY <2>1 DEF RunRecords
    <3> HIDE DEF was, rec
    <3> QED  BY <2>0, <2>1, <2>2, <2>3, <3>4, <3>5, <3>6, WaitedFares
  <2>5. CASE ~Holding(r)
    <3> DEFINE rec == [runs[r] EXCEPT !.waiting = @ + 1]
    <3>1. runs' = [runs EXCEPT ![r] = rec]
      BY <1>4, <2>5
    <3>2. rec.of = runs[r].of /\ rec.by = runs[r].by /\ rec.stage = runs[r].stage /\ rec.at = runs[r].at
      BY <2>1 DEF RunRecords
    <3> HIDE DEF rec
    <3> QED  BY <2>0, <2>1, <2>2, <2>3, <3>1, <3>2, WaitedFares
  <2> QED  BY <2>4, <2>5
<1>5. \/ StartTriggered(a, jobs)
      \/ runs' = runs /\ running' = running /\ jobs' = jobs
      \/ /\ Way[a] = "restart" /\ running' = running
         /\ \E r \in RunsOf(a) :
              /\ Active(r)
              /\ LET after == IF Holding(r) THEN Stopped(r) ELSE runs
                 IN  runs' = [after EXCEPT ![r].waiting = @ + 1]
              /\ jobs' = IF Holding(r) THEN Wakes(r) ELSE <<>>
  BY DEF Trigger
<1> QED  BY <1>2, <1>3, <1>4, <1>5

LEMMA PlayFares ==
  ASSUME RunsInv, TriggersAlone, NEW a \in Automations, Play(a)
  PROVE  Fares /\ Kept(jobs')
<1> DEFINE new == NewRun(a, "person", Nobody)
           first == <<Job("run", Len(runs) + 1)>>
<1>1. jobs = <<>> /\ runs \in Seq(RunRecords) /\ Len(runs) \in Nat
  <2>1. jobs = <<>>
    BY Outside DEF Play
  <2> QED  BY <2>1, JobsTyped, Indices
<1>2. new \in RunRecords /\ new.stage = "deciding" /\ new.waiting = 0 /\ new.of = a
  BY <1>1 DEF NewRun, RunRecords, Nobody
<1>3. runs' = Append(runs, new) /\ jobs' = first /\ running' = running \cup {a} /\ a \in Playable
  BY DEF Play
<1>4. first \in Seq(AnyJob) /\ Plain(first)
  BY <1>1, PlainOne DEF JobKinds
<1> HIDE DEF new, first
<1>5. Kept(jobs')
  BY <1>1, <1>3, <1>4, KeptQuiet
<1>6. Fares
  BY <1>1, <1>2, <1>3, FaresNew DEF TriggersAlone
<1> QED  BY <1>5, <1>6

LEMMA DeleteFares ==
  ASSUME RunsInv, NEW a \in Automations, Delete(a)
  PROVE  Fares /\ Kept(jobs')
<1> DEFINE rowless == [q \in DOMAIN runs |->
                        IF runs[q].of = a /\ runs[q].row # "none" THEN [runs[q] EXCEPT !.row = "gone"] ELSE runs[q]]
           Same(was, now) == /\ now.of = was.of /\ now.by = was.by /\ now.stage = was.stage
                             /\ now.waiting = was.waiting /\ now.at = was.at
<1>1. /\ jobs = <<>> /\ Kept(jobs) /\ running' = running
      /\ \A q \in DOMAIN runs : runs[q] \in RunRecords /\ q \in Nat
  <2>1. jobs = <<>> /\ \A q \in DOMAIN runs : runs[q] \in RunRecords
    BY Outside DEF Delete
  <2> QED  BY <2>1, KeptRest, JobsTyped DEF Rest, Delete
<1>2. ASSUME NEW q \in DOMAIN runs
      PROVE  Same(runs[q], rowless[q]) /\ rowless[q] \in RunRecords
  <2>1. runs[q] \in RunRecords
    BY <1>1, <1>2
  <2>2. rowless[q] = runs[q] \/ rowless[q] = [runs[q] EXCEPT !.row = "gone"]
    BY <1>2
  <2> HIDE DEF rowless
  <2>3. CASE rowless[q] = [runs[q] EXCEPT !.row = "gone"]
    BY <2>1, <2>3 DEF RunRecords
  <2> QED  BY <2>1, <2>2, <2>3
<1>3. ASSUME DOMAIN runs' = DOMAIN runs, \A q \in DOMAIN runs : Same(runs[q], runs'[q])
      PROVE  Fares
  <2>1. \A q \in DOMAIN runs : FaresFrom(q, runs[q], runs'[q])
    BY <1>1, <1>3, FaresSame
  <2>2. \A b \in running' : PlaceKept(b)
    BY <1>1, <1>3 DEF PlaceKept, RunsOf
  <2> QED  BY <1>3, <2>1, <2>2 DEF Fares
<1>4. CASE runs' = rowless /\ jobs' = jobs
  <2>1. DOMAIN runs' = DOMAIN runs
    BY <1>4
  <2> HIDE DEF rowless
  <2>2. \A q \in DOMAIN runs : Same(runs[q], runs'[q])
    BY <1>2, <1>4
  <2> QED  BY <1>1, <1>3, <1>4, <2>1, <2>2
<1>5. ASSUME NEW r \in Forgotten(a), jobs' = Wakes(r),
             runs' = [rowless EXCEPT ![r].gone = TRUE, ![r].stopped = TRUE, ![r].step = Stopped(r)[r].step]
      PROVE  Fares /\ Kept(jobs')
  <2> DEFINE step == Stopped(r)[r].step
             was == [rowless[r] EXCEPT !.gone = TRUE, !.stopped = TRUE, !.step = step]
  <2>1. runs' = [rowless EXCEPT ![r] = was] /\ DOMAIN rowless = DOMAIN runs
    BY <1>5
  <2>2. r \in DOMAIN runs /\ r \in Nat
    BY <1>1, <1>5 DEF Forgotten, RunsOf
  <2> HIDE DEF rowless, step
  <2>3. Same(runs[r], was)
    BY <1>2, <2>2 DEF RunRecords
  <2> HIDE DEF was
  <2>4. /\ DOMAIN runs' = DOMAIN runs
        /\ \A q \in DOMAIN runs : runs'[q] = IF q = r THEN was ELSE rowless[q]
    BY <2>1
  <2>5. \A q \in DOMAIN runs : Same(runs[q], runs'[q])
    BY <1>2, <2>3, <2>4
  <2>6. Kept(jobs')
    BY <1>1, <1>5, <2>2, WakesPlain, KeptQuiet
  <2> QED  BY <1>3, <2>4, <2>5, <2>6
<1>6. \/ runs' = rowless /\ jobs' = jobs
      \/ \E r \in Forgotten(a) :
           /\ runs' = [rowless EXCEPT ![r].gone = TRUE, ![r].stopped = TRUE, ![r].step = Stopped(r)[r].step]
           /\ jobs' = Wakes(r)
  BY DEF Delete
<1> HIDE DEF rowless
<1> QED  BY <1>4, <1>5, <1>6

LEMMA BootFares ==
  ASSUME RunsInv, Boot
  PROVE  Fares /\ Kept(jobs')
<1>1. jobs = <<>> /\ jobs' = jobs /\ running' = running /\ runs \in Seq(RunRecords)
  BY JobsTyped DEF Boot, RunsInv, Idle
<1>2. Kept(jobs')
  BY <1>1, KeptRest DEF Rest
<1>3. /\ DOMAIN runs' = DOMAIN runs
      /\ \A q \in DOMAIN runs :
           runs'[q] = IF Unended(q) THEN [runs[q] EXCEPT !.row = "interrupted"] ELSE runs[q]
  BY DEF Boot
<1>4. ASSUME NEW q \in DOMAIN runs
      PROVE  FaresFrom(q, runs[q], runs'[q]) /\ runs'[q].stage = runs[q].stage
  <2>1. runs[q] \in RunRecords
    BY <1>1, Indices
  <2>2. /\ runs'[q].of = runs[q].of /\ runs'[q].by = runs[q].by /\ runs'[q].stage = runs[q].stage
        /\ runs'[q].waiting = runs[q].waiting /\ runs'[q].at = runs[q].at
    BY <1>3, <2>1 DEF RunRecords
  <2> QED  BY <2>1, <2>2, FaresSame
<1>5. \A b \in running' : PlaceKept(b)
  BY <1>1, <1>4 DEF PlaceKept, RunsOf
<1>6. Fares
  BY <1>3, <1>4, <1>5 DEF Fares
<1> QED  BY <1>2, <1>6

-----------------------------------------------------------------------------
(* What holds while starts wait to start afresh.                           *)

\* The run under way is the latest of its automation.
Latest ==
  \A r \in DOMAIN runs : Active(r) => \A q \in RunsOf(runs[r].of) : q <= r

\* What keeps starts out is a run under way - or an automation's having gone as it was to start.
HasRun ==
  \A a \in running : Way[a] = "restart" =>
    mode[a] = "gone" \/ \E r \in RunsOf(a) : Active(r)

\* As a start goes on afresh the run it waited for is over, or about to be.
FreshAfter ==
  \A j \in In(jobs) : j.do = "fresh" /\ runs[j.run].by = "trigger" =>
    runs[j.run].stage = "over" \/ (jobs # <<>> /\ Head(jobs) = Job("ended", j.run))

\* Who waits for a run to end is still to hear of it, or another run has begun since.
ToCome ==
  \A r \in DOMAIN runs : runs[r].waiting > 0 /\ mode[runs[r].of] # "gone" =>
    \/ runs[r].stage \in Ahead
    \/ Job("caught", r) \in In(jobs) \/ Job("fresh", r) \in In(jobs)
    \/ \E q \in RunsOf(runs[r].of) : q > r

FreshInv == Lone /\ GivesUp /\ Latest /\ HasRun /\ FreshAfter /\ ToCome

\* An automation that is gone stays so.
LEMMA ModeStays ==
  ASSUME RunsInv, [Next]_vars, NEW a \in Automations, mode[a] = "gone"
  PROVE  mode'[a] = "gone"
<1>1. mode \in [Automations -> {"on", "off", "gone"}]
  BY DEF RunsInv, TypeOK
<1>2. ASSUME NEW b \in Automations, Turn(b)
      PROVE  mode'[a] = "gone"
  <2>1. mode[b] # "gone" /\ \E to : mode' = [mode EXCEPT ![b] = to]
    BY <1>2 DEF Turn
  <2> QED  BY <1>1, <2>1
<1>3. ASSUME NEW b \in Automations, Delete(b)
      PROVE  mode'[a] = "gone"
  <2>1. mode' = [mode EXCEPT ![b] = "gone"]
    BY <1>3 DEF Delete
  <2> QED  BY <1>1, <2>1
<1>4. CASE Call
  BY <1>4 DEF Call, Run, Walk, Attach, Begun, ChildEnded, Quit, StopChild, Caught, Fresh, Then,
              EndedTriggered, Finally, Others
<1>5. CASE \E r \in DOMAIN runs : Comes(r) \/ Stop(r)
  BY <1>5 DEF Comes, Decide, Answer, SendAgain, WaitOver, Stop, Others
<1>6. CASE \E b \in Automations : \/ \E happening \in BOOLEAN : Trigger(b, happening)
                                  \/ Play(b) \/ LaterOn(b)
  BY <1>6 DEF Trigger, Play, LaterOn
<1>7. CASE Crash \/ Boot \/ UNCHANGED vars
  BY <1>7 DEF Crash, Boot, vars
<1> QED  BY <1>2, <1>3, <1>4, <1>5, <1>6, <1>7 DEF Next

\* A start that goes on afresh starts a run, unless another is under way that began later than
\* the one it waited for.
LEMMA FreshFollowed ==
  ASSUME RunsInv, FreshInv, Fresh, NEW r \in DOMAIN runs, Head(jobs) = Job("fresh", r),
         runs[r].waiting > 0, mode[runs[r].of] # "gone"
  PROVE  \E q \in DOMAIN runs' : runs'[q].of = runs[r].of /\ q > r
<1> DEFINE a == runs[r].of
<1>1. /\ runs \in Seq(RunRecords) /\ Len(runs) \in Nat
      /\ \A q \in DOMAIN runs : q \in Nat /\ q <= Len(runs) /\ runs[q] \in RunRecords
  BY JobsTyped, Indices
<1>2. Head(jobs).run = r /\ Head(jobs).do = "fresh" /\ Head(jobs) \in In(jobs) /\ a \in Automations
  <2>1. Head(jobs).run = r /\ Head(jobs).do = "fresh"
    BY DEF Job
  <2>2. Head(jobs) \in In(jobs)
    BY <2>1, Called DEF Fresh
  <2>3. a \in Automations
    BY <1>1 DEF RunRecords
  <2> QED  BY <2>1, <2>2, <2>3
<1>3. CASE a \in running /\ runs' = runs
  <2>1. Way[a] = "restart" /\ runs[r].by = "trigger"
    BY DEF FreshInv, Lone
  <2>2. PICK p \in RunsOf(a) : Active(p)
    BY <1>3, <2>1 DEF FreshInv, HasRun
  <2>3. runs[r].stage = "over"
    <3>1. Head(jobs) # Job("ended", r)
      BY <1>2 DEF Job
    <3> QED  BY <1>2, <2>1, <3>1 DEF FreshInv, FreshAfter
  <2>4. p \in DOMAIN runs /\ runs[p].of = a /\ p # r
    BY <2>2, <2>3 DEF RunsOf, Active
  <2>5. r <= p
    BY <2>2, <2>4 DEF FreshInv, Latest, RunsOf
  <2> QED  BY <1>1, <1>3, <2>4, <2>5
<1>4. CASE StartTriggered(a, Tail(jobs))
  <2> DEFINE new == NewRun(a, "trigger", Nobody)
  <2>1. runs' = Append(runs, new)
    BY <1>4 DEF StartTriggered
  <2>2. new \in RunRecords /\ new.of = a
    BY <1>1, <1>2 DEF NewRun, RunRecords, Nobody
  <2> HIDE DEF new, RunRecords
  <2>3. Len(runs) + 1 \in DOMAIN runs' /\ runs'[Len(runs) + 1] = new
    BY <1>1, <2>1, <2>2, Grown
  <2>4. Len(runs) + 1 > r
    BY <1>1
  <2> QED  BY <2>2, <2>3, <2>4
<1> QED  BY <1>2, <1>3, <1>4 DEF Fresh, GotIn

\* Whatever lets every run fare so, and goes on afresh only as it should, keeps the invariant.
LEMMA FaresKeep ==
  ASSUME RunsInv, RunsInv', FreshInv, Fares, Kept(jobs'),
         \A a \in Automations : mode[a] = "gone" => mode'[a] = "gone",
         jobs # <<>> => Head(jobs).do # "caught",
         jobs # <<>> /\ Head(jobs).do = "fresh" => Fresh,
         \A r \in DOMAIN runs : jobs # <<>> /\ Head(jobs) = Job("ended", r) => runs'[r].stage = "over"
  PROVE  FreshInv'
<1>1. /\ runs \in Seq(RunRecords) /\ Len(runs) \in Nat /\ DOMAIN runs = 1..Len(runs)
      /\ \A q \in DOMAIN runs : runs[q] \in RunRecords
      /\ \A j \in In(jobs) : j.run \in DOMAIN runs
  BY JobsTyped, Indices
<1>2. \A q \in DOMAIN runs' : q \in Nat \ {0} /\ runs'[q] \in RunRecords
  <2>1. runs' \in Seq(RunRecords)
    BY DEF RunsInv, TypeOK
  <2> QED  BY <2>1, Indices
<1>3. \A q \in DOMAIN runs : q \in DOMAIN runs' /\ FaresFrom(q, runs[q], runs'[q])
  BY DEF Fares
<1>4. \A q \in DOMAIN runs' : q \notin DOMAIN runs => NewlyFares(q)
  BY DEF Fares
<1>5. /\ In(jobs) \subseteq (IF jobs = <<>> THEN {} ELSE {Head(jobs)}) \cup In(Rest)
      /\ In(Rest) \subseteq In(jobs)
      /\ EndsNext(jobs, runs) => EndsNext(Rest, runs)
  <2>1. jobs \in Seq(AnyJob)
    BY JobsTyped
  <2>2. CASE jobs = <<>>
    BY <2>2 DEF Rest, In
  <2>3. CASE jobs # <<>>
    <3> HIDE DEF AnyJob
    <3>1. /\ In(jobs) = {Head(jobs)} \cup In(Tail(jobs))
          /\ EndsNext(jobs, runs) => EndsNext(Tail(jobs), runs)
      BY <2>1, <2>3, FirstTaken
    <3> QED  BY <2>3, <3>1 DEF Rest
  <2> QED  BY <2>2, <2>3
<1>6. In(Rest) \subseteq In(jobs')
  BY DEF Kept
<1>7. Lone'
  <2>1. ASSUME NEW q \in DOMAIN runs
        PROVE  /\ Way[runs'[q].of] = "restart" => runs'[q].by = "trigger"
               /\ runs'[q].waiting > 0 => Way[runs'[q].of] = "restart"
               /\ runs'[q].stage = "stepping" => runs'[q].at > 0
    <3>1. runs[q].stage = "stepping" => runs[q].at > 0
      BY DEF FreshInv, Lone
    <3>2. /\ Way[runs[q].of] = "restart" => runs[q].by = "trigger"
          /\ runs[q].waiting > 0 => Way[runs[q].of] = "restart"
      BY DEF FreshInv, Lone
    <3>3. FaresFrom(q, runs[q], runs'[q]) /\ runs[q] \in RunRecords
      BY <1>1, <1>3
    <3>4. runs'[q].stage = "stepping" => runs'[q].at > 0
      <4>1. runs[q].at = 0 => ~ (runs[q].at > 0)
        OBVIOUS
      <4> QED  BY <3>1, <3>3, <4>1 DEF FaresFrom
    <3> QED  BY <3>2, <3>3, <3>4 DEF FaresFrom
  <2>2. ASSUME NEW q \in DOMAIN runs', q \notin DOMAIN runs
        PROVE  /\ Way[runs'[q].of] = "restart" => runs'[q].by = "trigger"
               /\ runs'[q].waiting > 0 => Way[runs'[q].of] = "restart"
               /\ runs'[q].stage = "stepping" => runs'[q].at > 0
    BY <1>4, <2>2 DEF NewlyFares
  <2> QED  BY <2>1, <2>2 DEF Lone
<1>8. GivesUp'
  <2>1. EndsNext(jobs', runs')
    <3>1. EndsNext(jobs', runs)
      BY <1>5 DEF FreshInv, GivesUp, Kept
    <3>2. \A i \in DOMAIN jobs' : jobs'[i].do = "caught" => jobs'[i].run \in DOMAIN runs
      BY DEF Kept, In
    <3>3. \A q \in DOMAIN runs : runs'[q].by = runs[q].by
      BY <1>3 DEF FaresFrom
    <3> QED  BY <3>1, <3>2, <3>3 DEF EndsNext
  <2>2. ASSUME NEW r \in DOMAIN runs', runs'[r].stage = "settled", runs'[r].by = "trigger"
        PROVE  Job("ended", r) \in In(jobs')
    <3>1. r \in DOMAIN runs
      BY <1>4, <2>2 DEF NewlyFares
    <3>2. FaresFrom(r, runs[r], runs'[r])
      BY <1>3, <3>1
    <3>3. runs[r].by = "trigger"
      BY <2>2, <3>2 DEF FaresFrom
    <3>4. CASE runs[r].stage = "settled"
      <4>1. Job("ended", r) \in In(jobs)
        BY <3>1, <3>3, <3>4 DEF FreshInv, GivesUp
      <4>2. jobs = <<>> \/ Head(jobs) # Job("ended", r)
        BY <2>2, <3>1
      <4> QED  BY <1>5, <1>6, <4>1, <4>2
    <3>5. CASE runs[r].stage # "settled"
      BY <2>2, <3>2, <3>3, <3>5 DEF FaresFrom
    <3> QED  BY <3>4, <3>5
  <2> QED  BY <2>1, <2>2 DEF GivesUp
<1>9. Latest'
  <2>1. \A r \in DOMAIN runs' : runs'[r].stage # "over" =>
          \A q \in DOMAIN runs' : runs'[q].of = runs'[r].of /\ runs'[q].stage # "over" => q = r
    BY DEF RunsInv, Fit, OneEach, Idle, Active
  <2>2. ASSUME NEW r \in DOMAIN runs', runs'[r].stage # "over", NEW q \in DOMAIN runs', runs'[q].of = runs'[r].of
        PROVE  q <= r
    <3>1. CASE q \notin DOMAIN runs
      <4>1. runs'[q].stage # "over"
        BY <1>4, <3>1 DEF NewlyFares
      <4>2. q = r
        BY <2>1, <2>2, <4>1
      <4> QED  BY <1>2, <4>2
    <3>2. CASE q \in DOMAIN runs /\ r \notin DOMAIN runs
      BY <1>1, <1>2, <3>2
    <3>3. CASE q \in DOMAIN runs /\ r \in DOMAIN runs
      <4>1. runs[r].stage # "over" /\ runs[q].of = runs[r].of
        BY <1>3, <2>2, <3>3 DEF FaresFrom
      <4> QED  BY <3>3, <4>1 DEF FreshInv, Latest, Active, RunsOf
    <3> QED  BY <3>1, <3>2, <3>3
  <2> QED  BY <2>2 DEF Latest, Active, RunsOf
<1>10. HasRun'
  <2>1. ASSUME NEW a \in running', Way[a] = "restart"
        PROVE  mode'[a] = "gone" \/ \E r \in DOMAIN runs' : runs'[r].of = a /\ runs'[r].stage # "over"
    <3>1. a \in Automations
      BY DEF RunsInv, TypeOK
    <3>2. CASE mode[a] = "gone"
      BY <3>1, <3>2
    <3>3. CASE \E q \in DOMAIN runs' : q \notin DOMAIN runs /\ runs'[q].of = a
      BY <1>4, <3>3 DEF NewlyFares
    <3>4. CASE /\ a \in running /\ mode[a] # "gone"
               /\ \A q \in RunsOf(a) : runs'[q].stage = "over" => runs[q].stage = "over"
      <4>1. PICK r \in RunsOf(a) : Active(r)
        BY <2>1, <3>4 DEF FreshInv, HasRun
      <4>2. r \in DOMAIN runs /\ runs[r].of = a
        BY <4>1 DEF RunsOf
      <4>3. runs'[r].stage # "over"
        BY <3>4, <4>1 DEF Active
      <4> QED  BY <1>3, <4>2, <4>3 DEF FaresFrom
    <3> QED  BY <3>2, <3>3, <3>4 DEF Fares, PlaceKept
  <2> QED  BY <2>1 DEF HasRun, RunsOf, Active
<1>11. FreshAfter'
  <2>1. ASSUME NEW j \in In(jobs'), j.do = "fresh", runs'[j.run].by = "trigger"
        PROVE  runs'[j.run].stage = "over"
    <3>1. j \in In(jobs) /\ j.run \in DOMAIN runs
      BY <1>1, <1>5, <2>1 DEF Kept
    <3>2. FaresFrom(j.run, runs[j.run], runs'[j.run])
      BY <1>3, <3>1
    <3>3. runs[j.run].by = "trigger"
      BY <2>1, <3>2 DEF FaresFrom
    <3>4. runs[j.run].stage = "over" \/ (jobs # <<>> /\ Head(jobs) = Job("ended", j.run))
      BY <2>1, <3>1, <3>3 DEF FreshInv, FreshAfter
    <3> QED  BY <3>1, <3>2, <3>4 DEF FaresFrom
  <2> QED  BY <2>1 DEF FreshAfter
<1>12. ToCome'
  <2>1. ASSUME NEW r \in DOMAIN runs', runs'[r].waiting > 0, mode'[runs'[r].of] # "gone"
        PROVE  \/ runs'[r].stage \in Ahead
               \/ Job("caught", r) \in In(jobs') \/ Job("fresh", r) \in In(jobs')
               \/ \E q \in DOMAIN runs' : runs'[q].of = runs'[r].of /\ q > r
    <3>1. r \in DOMAIN runs
      <4> SUFFICES ASSUME r \notin DOMAIN runs PROVE FALSE
        OBVIOUS
      <4>1. runs'[r].waiting = 0
        BY <1>4 DEF NewlyFares
      <4> QED  BY <2>1, <4>1
    <3>2. FaresFrom(r, runs[r], runs'[r]) /\ runs'[r].of = runs[r].of
      BY <1>3, <3>1 DEF FaresFrom
    <3>3. mode[runs[r].of] # "gone"
      <4>1. runs[r].of \in Automations
        BY <1>1, <3>1 DEF RunRecords
      <4> QED  BY <2>1, <3>2, <4>1
    <3>4. CASE ~ (runs[r].waiting > 0)
      BY <2>1, <3>2, <3>4 DEF FaresFrom
    <3>5. CASE runs[r].waiting > 0 /\ runs[r].stage \in Ahead
      <4>1. runs'[r].stage \in {"deciding", "stepping", "falling", "settled", "over"}
        BY <1>2 DEF RunRecords
      <4> QED  BY <3>2, <3>5, <4>1 DEF FaresFrom, Ahead
    <3>6. CASE Job("caught", r) \in In(jobs)
      <4>1. jobs = <<>> \/ Head(jobs) # Job("caught", r)
        BY DEF Job
      <4> QED  BY <1>5, <1>6, <3>6, <4>1
    <3>7. CASE Job("fresh", r) \in In(Rest)
      BY <1>6, <3>7
    <3>8. CASE runs[r].waiting > 0 /\ jobs # <<>> /\ Head(jobs) = Job("fresh", r)
      <4>1. Fresh
        BY <3>8 DEF Job
      <4> QED  BY <3>1, <3>2, <3>3, <3>8, <4>1, FreshFollowed
    <3>9. CASE \E q \in RunsOf(runs[r].of) : q > r
      <4>1. PICK q \in DOMAIN runs : runs[q].of = runs[r].of /\ q > r
        BY <3>9 DEF RunsOf
      <4>2. q \in DOMAIN runs' /\ runs'[q].of = runs[q].of
        BY <1>3, <4>1 DEF FaresFrom
      <4> QED  BY <3>2, <4>1, <4>2
    <3>10. \/ ~ (runs[r].waiting > 0)
           \/ runs[r].waiting > 0 /\ runs[r].stage \in Ahead
           \/ Job("caught", r) \in In(jobs) \/ (runs[r].waiting > 0 /\ Job("fresh", r) \in In(jobs))
           \/ \E q \in RunsOf(runs[r].of) : q > r
      BY <3>1, <3>3 DEF FreshInv, ToCome
    <3>11. Job("fresh", r) \in In(jobs) =>
             Job("fresh", r) \in In(Rest) \/ (jobs # <<>> /\ Head(jobs) = Job("fresh", r))
      BY <1>5
    <3> QED  BY <3>4, <3>5, <3>6, <3>7, <3>8, <3>9, <3>10, <3>11
  <2> QED  BY <2>1 DEF ToCome, RunsOf
<1> QED  BY <1>7, <1>8, <1>9, <1>10, <1>11, <1>12 DEF FreshInv
\* The starts that wait for a run's end are put last; its place is given up next.
LEMMA CaughtKeep ==
  ASSUME RunsInv, FreshInv, Caught
  PROVE  FreshInv'
<1> DEFINE r == Head(jobs).run
           n == runs[r].waiting
           more == [i \in 1..n |-> Job("fresh", r)]
<1>1. Next1("caught") /\ jobs' = Tail(jobs) \o more /\ runs' = runs /\ running' = running /\ mode' = mode
  BY DEF Caught, Others
<1>2. r \in DOMAIN runs /\ r \in Nat /\ runs[r] \in RunRecords /\ Head(jobs) = Job("caught", r) /\ jobs # <<>>
  BY <1>1, NextTaken
<1>3. n \in Nat /\ Job("fresh", r) \in AnyJob /\ Job("fresh", r).do = "fresh" /\ Job("fresh", r).run = r
  BY <1>2 DEF RunRecords, Job, AnyJob, JobKinds
<1>4. /\ DOMAIN more = 1..n /\ \A i \in DOMAIN more : more[i] = Job("fresh", r)
      /\ more \in Seq(AnyJob)
  <2>1. DOMAIN more = 1..n /\ \A i \in DOMAIN more : more[i] = Job("fresh", r)
    OBVIOUS
  <2> HIDE DEF AnyJob, Job, n
  <2>2. more \in Seq(AnyJob)
    BY <1>3
  <2> QED  BY <2>1, <2>2
<1> HIDE DEF more
<1>5. /\ In(more) \subseteq {Job("fresh", r)} /\ EndsNext(more, runs)
      /\ n > 0 => Job("fresh", r) \in In(more)
  <2>1. In(more) \subseteq {Job("fresh", r)}
    BY <1>4 DEF In
  <2>2. EndsNext(more, runs)
    BY <1>3, <1>4 DEF EndsNext
  <2>3. n > 0 => Job("fresh", r) \in In(more)
    <3>1. n > 0 => 1 \in 1..n
      BY <1>3
    <3> QED  BY <1>4, <3>1 DEF In
  <2> QED  BY <2>1, <2>2, <2>3
<1>6. /\ jobs \in Seq(AnyJob) /\ Tail(jobs) \in Seq(AnyJob) /\ In(jobs) = {Head(jobs)} \cup In(Tail(jobs))
      /\ EndsNext(Tail(jobs), runs)
      /\ runs[r].by = "trigger" => Tail(jobs) # <<>> /\ Head(Tail(jobs)) = Job("ended", r)
  <2>1. jobs \in Seq(AnyJob) /\ EndsNext(jobs, runs)
    BY JobsTyped DEF FreshInv, GivesUp
  <2>2. Head(jobs).do = "caught" /\ Head(jobs).run = r
    BY <1>2 DEF Job
  <2> HIDE DEF AnyJob, r
  <2> QED  BY <1>2, <2>1, <2>2, FirstTaken
<1>7. jobs' \in Seq(AnyJob) /\ In(jobs') = In(Tail(jobs)) \cup In(more) /\ EndsNext(jobs', runs)
  <2> HIDE DEF AnyJob, r
  <2>1. In(Tail(jobs) \o more) = In(Tail(jobs)) \cup In(more) /\ Tail(jobs) \o more \in Seq(AnyJob)
    <3> DEFINE t == Tail(jobs)
    <3>1. t \in Seq(AnyJob) /\ more \in Seq(AnyJob)
      BY <1>4, <1>6
    <3> HIDE DEF t
    <3>2. In(t \o more) = In(t) \cup In(more) /\ t \o more \in Seq(AnyJob)
      BY <3>1, Joined
    <3> QED  BY <3>2 DEF t
  <2>2. EndsNext(Tail(jobs) \o more, runs)
    BY <1>4, <1>5, <1>6, EndsNextJoined
  <2> QED  BY <1>1, <2>1, <2>2
<1>8. Lone' /\ Latest' /\ HasRun'
  BY <1>1 DEF FreshInv, Lone, Latest, HasRun, Active, RunsOf
<1>9. GivesUp'
  <2>1. ASSUME NEW q \in DOMAIN runs, runs[q].stage = "settled", runs[q].by = "trigger"
        PROVE  Job("ended", q) \in In(jobs')
    <3>1. Job("ended", q) \in In(jobs) /\ Job("ended", q) # Head(jobs)
      BY <1>2, <2>1 DEF FreshInv, GivesUp, Job
    <3> QED  BY <1>6, <1>7, <3>1
  <2> QED  BY <1>1, <1>7, <2>1 DEF GivesUp
<1>10. FreshAfter'
  <2>1. ASSUME NEW j \in In(jobs'), j.do = "fresh", runs[j.run].by = "trigger"
        PROVE  runs[j.run].stage = "over" \/ (jobs' # <<>> /\ Head(jobs') = Job("ended", j.run))
    <3>1. CASE j \in In(more)
      <4>1. j.run = r /\ Tail(jobs) # <<>> /\ Head(Tail(jobs)) = Job("ended", r)
        BY <1>3, <1>5, <1>6, <2>1, <3>1
      <4>2. jobs' # <<>> /\ Head(jobs') = Head(Tail(jobs))
        <5> DEFINE t == Tail(jobs)
        <5> HIDE DEF AnyJob, t
        <5>1. t \in Seq(AnyJob) /\ t # <<>> /\ jobs' = t \o more
          BY <1>1, <1>6, <4>1 DEF t
        <5>2. /\ Len(t) \in Nat \ {0} /\ Len(more) \in Nat /\ Head(t) = t[1]
              /\ t \o more \in Seq(AnyJob) /\ Len(t \o more) = Len(t) + Len(more)
              /\ \A i \in 1..Len(t) + Len(more) : (t \o more)[i] = IF i <= Len(t) THEN t[i] ELSE more[i - Len(t)]
          BY <1>4, <5>1, ConcatProperties, LenProperties, EmptySeq
        <5>3. (t \o more)[1] = t[1] /\ Len(t \o more) # 0
          BY <5>2
        <5> DEFINE u == t \o more
        <5>4. u \in Seq(AnyJob) /\ u[1] = t[1] /\ Len(u) # 0
          BY <5>2, <5>3
        <5> HIDE DEF u
        <5>5. u # <<>> /\ Head(u) = u[1]
          BY <5>4
        <5>6. u # <<>> /\ Head(u) = Head(t) /\ jobs' = u
          BY <5>1, <5>2, <5>4, <5>5 DEF u
        <5> QED  BY <5>6 DEF t
      <4> QED  BY <4>1, <4>2
    <3>2. CASE j \in In(Tail(jobs))
      <4>1. Head(jobs) # Job("ended", j.run)
        BY <1>2 DEF Job
      <4> QED  BY <1>6, <2>1, <3>2, <4>1 DEF FreshInv, FreshAfter
    <3> QED  BY <1>7, <3>1, <3>2
  <2> QED  BY <1>1, <2>1 DEF FreshAfter
<1>11. ToCome'
  <2>1. ASSUME NEW q \in DOMAIN runs, runs[q].waiting > 0, mode[runs[q].of] # "gone"
        PROVE  \/ runs[q].stage \in Ahead
               \/ Job("caught", q) \in In(jobs') \/ Job("fresh", q) \in In(jobs')
               \/ \E p \in RunsOf(runs[q].of) : p > q
    <3>1. Job("fresh", q) # Head(jobs) /\ (Job("caught", q) = Head(jobs) => q = r)
      BY <1>2 DEF Job
    <3>2. CASE Job("caught", q) = Head(jobs)
      BY <1>5, <1>7, <2>1, <3>1, <3>2
    <3>3. CASE Job("caught", q) # Head(jobs)
      BY <1>6, <1>7, <2>1, <3>1, <3>3 DEF FreshInv, ToCome
    <3> QED  BY <3>2, <3>3
  <2> QED  BY <1>1, <2>1 DEF ToCome, RunsOf
<1> QED  BY <1>8, <1>9, <1>10, <1>11 DEF FreshInv

\* With the server's stop nobody waits any more, and nothing keeps others out.
LEMMA CrashKeep ==
  ASSUME Crash
  PROVE  FreshInv'
<1>1. DOMAIN runs' = DOMAIN runs /\ running' = {} /\ jobs' = <<>>
  BY DEF Crash
<1>2. \A q \in DOMAIN runs' : runs'[q].by = "trigger" /\ runs'[q].stage = "over" /\ runs'[q].waiting = 0
  BY DEF Crash, LostRun, NewRun
<1>3. In(jobs') = {} /\ EndsNext(jobs', runs')
  BY <1>1 DEF In, EndsNext
<1>4. Lone'
  BY <1>2 DEF Lone
<1>5. GivesUp'
  BY <1>2, <1>3 DEF GivesUp
<1>6. Latest' /\ HasRun'
  BY <1>1, <1>2 DEF Latest, HasRun, Active
<1>7. FreshAfter'
  BY <1>3 DEF FreshAfter
<1>8. ToCome'
  BY <1>2 DEF ToCome
<1> QED  BY <1>4, <1>5, <1>6, <1>7, <1>8 DEF FreshInv

\* So does every callback.
LEMMA CallKeeps ==
  ASSUME RunsInv, RunsInv', FreshInv, TriggersAlone, [Next]_vars, Call
  PROVE  FreshInv'
<1>1. \A a \in Automations : mode[a] = "gone" => mode'[a] = "gone"
  BY ModeStays
<1>2. CASE Caught
  BY <1>2, CaughtKeep
<1>3. CASE Walk
  <2> DEFINE r == Head(jobs).run
  <2>1. /\ Next1("walk") /\ r \in DOMAIN runs /\ runs[r].stage = "stepping" /\ Kept(Tail(jobs))
        /\ Head(jobs) = Job("walk", r)
    BY <1>3, NextTaken DEF Walk, Due
  <2>2. runs[r].at > 0
    BY <2>1 DEF FreshInv, Lone
  <2>3. Fares /\ Kept(jobs')
    <3> HIDE DEF r
    <3>1. r = Head(jobs).run
      BY DEF r
    <3> QED  BY <1>3, <2>1, <2>2, <3>1, WalkFares
  <2>4. Head(jobs).do = "walk"
    BY <2>1 DEF Job
  <2> QED  BY <1>1, <2>3, <2>4, FaresKeep DEF Job
<1>4. CASE EndedTriggered
  <2>1. Head(jobs).do = "ended" /\ Fares /\ Kept(jobs') /\ runs'[Head(jobs).run].stage = "over"
    BY <1>4, EndedTriggeredFares DEF EndedTriggered, Next1
  <2>2. \A r \in DOMAIN runs : Head(jobs) = Job("ended", r) => Head(jobs).run = r
    BY DEF Job
  <2> QED  BY <1>1, <2>1, <2>2, FaresKeep
<1>5. CASE Fresh
  <2>1. Head(jobs).do = "fresh" /\ Fares /\ Kept(jobs')
    BY <1>5, FreshFares DEF Fresh, Next1
  <2> QED  BY <1>1, <1>5, <2>1, FaresKeep DEF Job
<1>6. CASE Run \/ Attach \/ Begun \/ ChildEnded \/ Quit \/ StopChild \/ Then \/ Finally
  <2>1. Head(jobs).do \notin {"caught", "fresh", "ended"}
    BY <1>6 DEF Run, Attach, Begun, ChildEnded, Quit, StopChild, Then, Finally, Next1
  <2>2. Fares /\ Kept(jobs')
    BY <1>6, RunFares, AttachFares, BegunFares, ChildEndedFares, QuitFares, StopChildFares, ThenFares,
       FinallyFares
  <2> QED  BY <1>1, <2>1, <2>2, FaresKeep DEF Job
<1> QED  BY <1>2, <1>3, <1>4, <1>5, <1>6 DEF Call

\* So does every step.
LEMMA FreshStep ==
  ASSUME RunsInv, FreshInv, TriggersAlone, [Next]_vars
  PROVE  FreshInv'
<1>1. RunsInv'
  BY RunsStep
<1>2. CASE Call
  BY <1>1, <1>2, CallKeeps
<1>3. CASE Crash
  BY <1>3, CrashKeep
<1>4. CASE UNCHANGED vars
  BY <1>4 DEF vars, FreshInv, Lone, GivesUp, Latest, HasRun, FreshAfter, ToCome, EndsNext, In, Active, RunsOf
<1>5. ASSUME jobs = <<>>, Fares, Kept(jobs')
      PROVE  FreshInv'
  <2>1. \A a \in Automations : mode[a] = "gone" => mode'[a] = "gone"
    BY ModeStays
  <2> QED  BY <1>1, <1>5, <2>1, FaresKeep
<1>6. ASSUME NEW r \in DOMAIN runs, Comes(r) \/ Stop(r)
      PROVE  FreshInv'
  <2>1. jobs = <<>>
    BY <1>6 DEF Comes, Decide, Answer, SendAgain, WaitOver, Stop, Quiet
  <2> QED  BY <1>5, <1>6, <2>1, ComesFares
<1>7. ASSUME NEW a \in Automations, NEW happening \in BOOLEAN, Trigger(a, happening)
      PROVE  FreshInv'
  <2>1. jobs = <<>>
    BY <1>7 DEF Trigger, Quiet
  <2> QED  BY <1>5, <1>7, <2>1, TriggerFares DEF FreshInv
<1>8. ASSUME NEW a \in Automations, Play(a) \/ Delete(a)
      PROVE  FreshInv'
  <2>1. jobs = <<>>
    BY <1>8 DEF Play, Delete, Quiet
  <2> QED  BY <1>5, <1>8, <2>1, PlayFares, DeleteFares
<1>9. ASSUME NEW a \in Automations, Turn(a) \/ LaterOn(a)
      PROVE  FreshInv'
  <2>1. jobs = <<>> /\ jobs' = jobs /\ runs' = runs /\ running' = running
    BY <1>9 DEF Turn, LaterOn, Quiet
  <2>2. Kept(jobs')
    BY <2>1, KeptRest DEF Rest
  <2>3. Fares
    BY <2>1, JobsTyped, FaresNone
  <2> QED  BY <1>5, <2>1, <2>2, <2>3
<1>10. CASE Boot
  <2>1. jobs = <<>>
    BY <1>10 DEF Boot, RunsInv, Idle
  <2> QED  BY <1>5, <1>10, <2>1, BootFares
<1> QED  BY <1>2, <1>3, <1>4, <1>6, <1>7, <1>8, <1>9, <1>10 DEF Next

-----------------------------------------------------------------------------
(* A start that is to stop the run and start afresh does (runs.ts:178-180): once that run is  *)
(* over and nothing is left to call, a later run of the automation has begun in its place -   *)
(* of an automation that is started by its trigger alone.  Of one that a person plays too, or *)
(* another's step starts, the start can be lost: the code orders what follows the end of a    *)
(* run that was asked for otherwise.                                                          *)
THEOREM AfreshInTheEnd ==
  ASSUME TriggersAlone
  PROVE  Spec => []StartsAfresh
<1>1. Init => FreshInv
  <2> SUFFICES ASSUME Init PROVE FreshInv
    OBVIOUS
  <2>1. runs = <<>> /\ running = {} /\ jobs = <<>> /\ In(jobs) = {}
    BY DEF Init, In
  <2> QED  BY <2>1 DEF FreshInv, Lone, GivesUp, Latest, HasRun, FreshAfter, ToCome, EndsNext
<1>2. RunsInv /\ FreshInv /\ [Next]_vars => FreshInv'
  BY FreshStep
<1>3. RunsInv /\ FreshInv => StartsAfresh
  <2> SUFFICES ASSUME RunsInv, FreshInv, Quiet, NEW r \in DOMAIN runs, runs[r].waiting > 0, ~Active(r),
                      mode[runs[r].of] # "gone"
               PROVE  \E q \in RunsOf(runs[r].of) : q > r
    BY DEF StartsAfresh
  <2>1. In(jobs) = {} /\ runs[r].stage \notin Ahead
    BY DEF Quiet, In, Active, Ahead
  <2> QED  BY <2>1 DEF FreshInv, ToCome
<1> QED  BY <1>1, <1>2, <1>3, RunsAlways, PTL DEF Spec
-----------------------------------------------------------------------------
(* A stop is passed on to the run that is waited for.  What a step does,   *)
(* told of one run at a time: where each comes to, who is to be called,    *)
(* and in which order.                                                     *)

HeadIs(do, r) == jobs # <<>> /\ Head(jobs) = Job(do, r)

\* What is put before another in a queue, wherever both are in it.
Precedes(js, j, k) == \A m, n \in DOMAIN js : js[m] = j /\ js[n] = k => m < n

\* Where a run that waits for no other stands in its steps.
AtStep == {"none", "acting", "pausing", "asleep"}

\* A run that a step may be about: any when it comes from outside, else the one that is called, or
\* the one that is stopped with the run that waits for it.
Spoken(q) ==
  \/ jobs = <<>>
  \/ jobs # <<>> /\ Carries(Head(jobs)) /\ Head(jobs).run = q
  \/ HeadIs("childend", q) /\ runs[q].step = "awaiting"
  \/ /\ jobs # <<>> /\ Head(jobs).do = "stopchild"
     /\ HoldsParts(runs[q]) /\ runs[q].of = Starts[runs[Head(jobs).run].of]

Alike(was, now) ==
  /\ now.of = was.of /\ now.by = was.by /\ now.parent = was.parent /\ now.child = was.child
  /\ now.stage = was.stage /\ now.step = was.step /\ now.at = was.at
  /\ now.outcome = was.outcome /\ now.stopped = was.stopped

\* How far it comes, and who hears of it.
StageOn(q, was, now) ==
  /\ now.of = was.of /\ now.by = was.by /\ now.parent = was.parent
  /\ was.stage = "over" => now.stage = "over"
  /\ was.stage = "settled" => now.stage \in {"settled", "over"}
  /\ now.stage = "deciding" => was.stage = "deciding"
  /\ now.stage = "stepping" => was.stage \in {"deciding", "stepping"}
  /\ HoldsParts(now) => (was.stage = "deciding" \/ HoldsParts(was)) /\ (was.at > 0 \/ was.stage = "deciding" => now.at > 0)
  /\ ~HoldsParts(now) => now.at = was.at
  /\ was.stage = "deciding" /\ HoldsParts(now) /\ Awaited(q) => Job("begun", was.parent) \in In(jobs')
  /\ now.stage = "settled" /\ was.stage # "settled" /\ was.by # "trigger" => Job("then", q) \in In(jobs')
  /\ now.stage = "over" /\ was.stage # "over" => HeadIs("finally", q) \/ HeadIs("ended", q)

\* The run that it started last and has not gone on from.
ChildOn(q, was, now) ==
  /\ now.child # was.child =>
       /\ was.stage = "stepping" /\ now.stage = "stepping"
       /\ \/ now.child = Nobody /\ now.step = "none"
          \/ /\ now.step = "starting" /\ now.child = Len(runs) + 1 /\ now.child \in DOMAIN runs'
             /\ runs'[now.child].parent = q /\ runs'[now.child].by = "run"
             /\ runs'[now.child].of = Starts[was.of]
  /\ now.stage = "stepping" /\ now.step \in AtStep /\ now.child # Nobody =>
       now.child = was.child /\ (was.stage = "deciding" \/ (was.stage = "stepping" /\ was.step \in AtStep))

\* What it waits for.
StepOn(q, was, now) ==
  /\ now.step = "starting" /\ was.step # "starting" =>
       now.child = Len(runs) + 1 /\ now.child # was.child /\ Job("attach", q) \in In(jobs') /\ ~was.stopped
  /\ now.step = "beginning" /\ was.step # "beginning" =>
       /\ HeadIs("attach", q) /\ now.child = was.child
       /\ runs[was.child].at > 0 => Job("begun", q) \in In(jobs')
  /\ now.step = "awaiting" /\ was.step # "awaiting" => HeadIs("begun", q) /\ now.child = was.child
  /\ now.step = "woken" /\ was.step # "woken" =>
       /\ was.stage = "stepping" /\ now.child = was.child
       /\ was.step \in AtStep \/ Job("stopchild", q) \in In(jobs')

\* What a stop comes to.
StopOn(q, was, now) ==
  /\ was.stopped => now.stopped
  /\ now.stopped /\ ~was.stopped =>
       /\ jobs = <<>> \/ Head(jobs).do = "stopchild"
       /\ now.step \in {was.step, "woken"}
       /\ now.stage = "stepping" => now.step # "awaiting"
  /\ now.outcome = "stopped" /\ was.outcome # "stopped" =>
       /\ was.stage = "stepping" /\ now.stage \in {"falling", "settled"} /\ now.child = was.child
       /\ was.step = "none" \/ HeadIs("quit", q)

GoesOnFrom(q, was, now) ==
  /\ Alike(was, now) \/ Spoken(q)
  /\ StageOn(q, was, now) /\ ChildOn(q, was, now) /\ StepOn(q, was, now) /\ StopOn(q, was, now)

Born(run) ==
  /\ run.stage = "deciding" /\ run.at = 0 /\ run.step = "none" /\ run.child = Nobody
  /\ run.outcome = "running" /\ ~run.stopped
  /\ run.parent # Nobody =>
       run.parent \in DOMAIN runs /\ run.by = "run" /\ run.of = Starts[runs[run.parent].of]

\* Who may be called on next.
Put(j) ==
  /\ j.do = "ended" => j.run \in DOMAIN runs /\ runs[j.run].by = "trigger"
  /\ j.do = "finally" => HeadIs("then", j.run)
  /\ j.do = "childend" => \E h \in DOMAIN runs : HeadIs("finally", h) /\ runs[h].parent = j.run
  /\ j.do = "stopchild" =>
       /\ j.run \in DOMAIN runs /\ runs[j.run].step = "awaiting" /\ runs'[j.run].step = "woken"
       /\ jobs = <<>> \/ Head(jobs).do = "stopchild"
  /\ j.do = "begun" =>
       \/ HeadIs("attach", j.run)
       \/ \E c \in DOMAIN runs : /\ Awaited(c) /\ runs[c].parent = j.run
                                 /\ runs[c].stage = "deciding" \/ HeadIs("then", c)
  /\ Carries(j) =>
       \/ j.do = "begun" \/ j.run \notin DOMAIN runs
       \/ Spoken(j.run) /\ (jobs = <<>> => ~Alike(runs[j.run], runs'[j.run]))

PutsFirst(f) ==
  /\ f \in Seq(AnyJob)
  /\ \A j \in In(f) : j.do \in {"run", "walk", "attach", "quit"} /\ Put(j)

PutsLast(b) ==
  /\ b \in Seq(AnyJob)
  /\ \A j \in In(b) : j.do # "attach" /\ Put(j)
  /\ \A r, c \in Nat : Precedes(b, Job("begun", r), Job("finally", c))
  /\ \A j, k \in In(b) : j.do = "stopchild" /\ k.do = "stopchild" => j = k

\* What is heard at once by who is called.
Hearing ==
  \A r \in DOMAIN runs :
    /\ HeadIs("attach", r) => runs'[r].step = "beginning"
    /\ HeadIs("begun", r) => runs'[r].step # "beginning"
    /\ HeadIs("childend", r) => runs'[r].step # "awaiting"
    /\ HeadIs("then", r) =>
         /\ Job("finally", r) \in In(jobs')
         /\ Awaited(r) /\ runs[r].at = 0 => Job("begun", runs[r].parent) \in In(jobs')
    /\ HeadIs("finally", r) =>
         /\ runs'[r].stage = "over"
         /\ runs[r].parent # Nobody => Job("childend", runs[r].parent) \in In(jobs')
    /\ HeadIs("stopchild", r) =>
         \A q \in DOMAIN runs : runs[q].of = Starts[runs[r].of] /\ HoldsParts(runs[q]) /\ runs[q].of \in Sequences
           => runs'[q].stopped

GoOn ==
  /\ \A q \in DOMAIN runs : q \in DOMAIN runs' /\ GoesOnFrom(q, runs[q], runs'[q])
  /\ \A q \in DOMAIN runs' : q \notin DOMAIN runs => q = Len(runs) + 1 /\ Born(runs'[q])
  /\ \A p, q \in DOMAIN runs : ~Alike(runs[p], runs'[p]) /\ ~Alike(runs[q], runs'[q]) => p = q

Queues == \E f, b \in Seq(AnyJob) : jobs' = f \o Rest \o b /\ PutsFirst(f) /\ PutsLast(b)

-----------------------------------------------------------------------------
(* The order of two callbacks in a queue.                                  *)

\* The first callback taken: what it is not to come before has been called.
LEMMA PrecedesTaken ==
  ASSUME NEW S, NEW s \in Seq(S), s # <<>>, NEW j, NEW k, Precedes(s, j, k)
  PROVE  Precedes(Tail(s), j, k) /\ (Head(s) = k => j \notin In(s))
<1>1. /\ Tail(s) \in Seq(S) /\ Len(Tail(s)) = Len(s) - 1
      /\ \A i \in 1..Len(Tail(s)) : Tail(s)[i] = s[i + 1]
  BY HeadTailProperties
<1>2. /\ Len(s) \in Nat /\ DOMAIN s = 1..Len(s) /\ DOMAIN Tail(s) = 1..Len(Tail(s)) /\ Len(s) # 0
      /\ Head(s) = s[1] /\ 1 \in DOMAIN s
  BY <1>1, LenProperties, EmptySeq
<1> DEFINE t == Tail(s)
<1> HIDE DEF t
<1>3. \A i \in DOMAIN t : i \in Nat /\ i + 1 \in DOMAIN s /\ t[i] = s[i + 1]
  <2>1. \A i \in 1..Len(t) : i \in Nat /\ i + 1 \in 1..Len(s)
    BY <1>1, <1>2 DEF t
  <2> QED  BY <1>1, <1>2, <2>1 DEF t
<1>4. Precedes(t, j, k)
  <2> SUFFICES ASSUME NEW m \in DOMAIN t, NEW n \in DOMAIN t, t[m] = j, t[n] = k PROVE m < n
    BY DEF Precedes
  <2>1. m + 1 < n + 1 /\ m \in Nat /\ n \in Nat
    BY <1>3 DEF Precedes
  <2> QED  BY <2>1
<1>5. Head(s) = k => j \notin In(s)
  <2> SUFFICES ASSUME Head(s) = k, NEW m \in DOMAIN s, s[m] = j PROVE FALSE
    BY DEF In
  <2>1. m < 1 /\ m \in 1..Len(s)
    BY <1>2 DEF Precedes
  <2> QED  BY <1>2, <2>1
<1> QED  BY <1>4, <1>5 DEF t

\* Two queues one after the other.
LEMMA PrecedesJoined ==
  ASSUME NEW S, NEW s \in Seq(S), NEW t \in Seq(S), NEW j, NEW k, Precedes(s, j, k), Precedes(t, j, k),
         k \in In(s) => j \notin In(t)
  PROVE  Precedes(s \o t, j, k)
<1>1. /\ s \o t \in Seq(S) /\ Len(s \o t) = Len(s) + Len(t)
      /\ \A i \in 1..Len(s) + Len(t) : (s \o t)[i] = IF i <= Len(s) THEN s[i] ELSE t[i - Len(s)]
  BY ConcatProperties
<1>2. /\ Len(s) \in Nat /\ DOMAIN s = 1..Len(s) /\ Len(t) \in Nat /\ DOMAIN t = 1..Len(t)
      /\ DOMAIN (s \o t) = 1..Len(s) + Len(t)
  BY <1>1, LenProperties
<1> DEFINE u == s \o t
<1> HIDE DEF u
<1>3. ASSUME NEW i \in DOMAIN u
      PROVE  /\ i \in Nat
             /\ \/ i <= Len(s) /\ i \in DOMAIN s /\ u[i] = s[i]
                \/ i > Len(s) /\ i - Len(s) \in DOMAIN t /\ u[i] = t[i - Len(s)]
  <2>1. i \in 1..Len(s) + Len(t) /\ u[i] = IF i <= Len(s) THEN s[i] ELSE t[i - Len(s)]
    BY <1>1, <1>2 DEF u
  <2>2. CASE i <= Len(s)
    BY <1>2, <2>1, <2>2
  <2>3. CASE ~ (i <= Len(s))
    <3>1. i - Len(s) \in 1..Len(t) /\ i > Len(s) /\ i \in Nat
      BY <1>2, <2>1, <2>3
    <3> QED  BY <1>2, <2>1, <2>3, <3>1
  <2> QED  BY <2>2, <2>3
<1> SUFFICES ASSUME NEW m \in DOMAIN u, NEW n \in DOMAIN u, u[m] = j, u[n] = k PROVE m < n
  BY DEF Precedes, u
<1>4. CASE n > Len(s) /\ n - Len(s) \in DOMAIN t /\ t[n - Len(s)] = k
  <2>1. CASE m <= Len(s)
    BY <1>2, <1>3, <1>4, <2>1
  <2>2. CASE m > Len(s) /\ m - Len(s) \in DOMAIN t /\ t[m - Len(s)] = j
    <3>1. m - Len(s) < n - Len(s)
      BY <1>4, <2>2 DEF Precedes
    <3> QED  BY <1>2, <1>3, <3>1
  <2> QED  BY <1>3, <2>1, <2>2
<1>5. CASE n <= Len(s) /\ n \in DOMAIN s /\ s[n] = k
  <2>1. j \notin In(t)
    BY <1>5 DEF In
  <2>2. m \in DOMAIN s /\ s[m] = j
    BY <1>3, <2>1 DEF In
  <2> QED  BY <1>5, <2>2 DEF Precedes
<1> QED  BY <1>3, <1>4, <1>5

\* What is put at either end of what is left to call.
LEMMA PutsIn ==
  ASSUME RunsInv, NEW f \in Seq(AnyJob), NEW b \in Seq(AnyJob), jobs' = f \o Rest \o b
  PROVE  /\ In(jobs') = In(f) \cup In(Rest) \cup In(b) /\ jobs' \in Seq(AnyJob)
         /\ \A j, k : /\ Precedes(f, j, k) /\ Precedes(Rest, j, k) /\ Precedes(b, j, k)
                      /\ k \in In(f) => j \notin In(Rest) \cup In(b)
                      /\ k \in In(Rest) => j \notin In(b)
                      => Precedes(jobs', j, k)
<1>1. Rest \in Seq(AnyJob)
  BY KeptRest DEF Kept
<1> DEFINE s == f \o Rest
<1> HIDE DEF AnyJob
<1>2. s \in Seq(AnyJob) /\ In(s) = In(f) \cup In(Rest)
  <2> HIDE DEF Rest
  <2> QED  BY <1>1, Joined
<1>3. \A j, k : Precedes(f, j, k) /\ Precedes(Rest, j, k) /\ (k \in In(f) => j \notin In(Rest)) => Precedes(s, j, k)
  <2> HIDE DEF Rest
  <2> QED  BY <1>1, PrecedesJoined
<1>4. jobs' = s \o b
  OBVIOUS
<1> HIDE DEF s
<1>5. s \o b \in Seq(AnyJob) /\ In(s \o b) = In(s) \cup In(b)
  BY <1>2, Joined
<1>6. \A j, k : Precedes(s, j, k) /\ Precedes(b, j, k) /\ (k \in In(s) => j \notin In(b)) => Precedes(s \o b, j, k)
  BY <1>2, PrecedesJoined
<1> QED  BY <1>2, <1>3, <1>4, <1>5, <1>6

\* What is left to call.
LEMMA RestIn ==
  ASSUME RunsInv
  PROVE  /\ jobs = <<>> => In(jobs) = {} /\ In(Rest) = {}
         /\ jobs # <<>> => In(jobs) = {Head(jobs)} \cup In(Rest)
         /\ \A j, k : Precedes(jobs, j, k) =>
              Precedes(Rest, j, k) /\ (jobs # <<>> /\ Head(jobs) = k => j \notin In(jobs))
<1>1. jobs \in Seq(AnyJob)
  BY JobsTyped
<1>2. CASE jobs = <<>>
  BY <1>2 DEF In, Rest, Precedes
<1>3. CASE jobs # <<>>
  <2> HIDE DEF AnyJob
  <2>1. In(jobs) = {Head(jobs)} \cup In(Tail(jobs)) /\ Rest = Tail(jobs)
    BY <1>1, <1>3, FirstTaken DEF Rest
  <2>2. \A j, k : Precedes(jobs, j, k) => Precedes(Tail(jobs), j, k) /\ (Head(jobs) = k => j \notin In(jobs))
    BY <1>1, <1>3, PrecedesTaken
  <2> QED  BY <1>3, <2>1, <2>2
<1> QED  BY <1>2, <1>3

-----------------------------------------------------------------------------
(* What a step puts to be called.                                          *)

LEMMA PutsNone == PutsFirst(<<>>) /\ PutsLast(<<>>)
<1>1. <<>> \in Seq(AnyJob) /\ In(<<>>) = {} /\ \A j, k : Precedes(<<>>, j, k)
  BY DEF In, Precedes
<1> QED  BY <1>1 DEF PutsFirst, PutsLast

LEMMA PutsOne ==
  ASSUME NEW j \in AnyJob, Put(j)
  PROVE  /\ j.do \in {"run", "walk", "attach", "quit"} => PutsFirst(<<j>>)
         /\ j.do # "attach" => PutsLast(<<j>>)
<1>1. <<j>> \in Seq(AnyJob) /\ DOMAIN <<j>> = {1} /\ <<j>>[1] = j
  <2> HIDE DEF AnyJob
  <2> QED  OBVIOUS
<1>2. In(<<j>>) = {j}
  BY <1>1 DEF In
<1>3. \A r, c \in Nat : Precedes(<<j>>, Job("begun", r), Job("finally", c))
  BY <1>1 DEF Precedes, Job
<1> QED  BY <1>1, <1>2, <1>3 DEF PutsFirst, PutsLast

LEMMA PutsTwo ==
  ASSUME NEW j \in AnyJob, NEW k \in AnyJob, Put(j), Put(k)
  PROVE  /\ j.do = "run" /\ k.do = "attach" => PutsFirst(<<j, k>>)
         /\ j.do = "caught" /\ k.do \in {"then", "ended"} => PutsLast(<<j, k>>)
         /\ j.do = "begun" /\ k.do = "finally" => PutsLast(<<j, k>>)
<1>1. /\ <<j, k>> \in Seq(AnyJob) /\ DOMAIN <<j, k>> = {1, 2}
      /\ <<j, k>>[1] = j /\ <<j, k>>[2] = k
  <2> HIDE DEF AnyJob
  <2>1. Len(<<j, k>>) = 2 /\ <<j, k>> \in Seq(AnyJob) /\ <<j, k>>[1] = j /\ <<j, k>>[2] = k
    OBVIOUS
  <2>2. DOMAIN <<j, k>> = 1..2
    BY <2>1, LenProperties
  <2> QED  BY <2>1, <2>2
<1>2. In(<<j, k>>) = {j, k}
  BY <1>1 DEF In
<1>3. k.do # "begun" => \A r, c \in Nat : Precedes(<<j, k>>, Job("begun", r), Job("finally", c))
  <2> SUFFICES ASSUME k.do # "begun", NEW r \in Nat, NEW c \in Nat, NEW m \in {1, 2}, NEW n \in {1, 2},
                      <<j, k>>[m] = Job("begun", r), <<j, k>>[n] = Job("finally", c)
               PROVE  m < n
    BY <1>1 DEF Precedes
  <2>1. Job("begun", r).do = "begun" /\ Job("finally", c).do = "finally"
    BY DEF Job
  <2>2. m = 1
    BY <1>1, <2>1
  <2>3. n # m
    BY <2>1
  <2> QED  BY <2>2, <2>3
<1> QED  BY <1>1, <1>2, <1>3 DEF PutsFirst, PutsLast

LEMMA QueuesNone ==
  ASSUME RunsInv, jobs' = Rest
  PROVE  Queues
<1>1. Rest \in Seq(AnyJob)
  BY KeptRest DEF Kept
<1> HIDE DEF AnyJob, Rest
<1>2. Rest = (<<>> \o Rest) \o <<>>
  BY <1>1
<1> QED  BY <1>2, PutsNone DEF Queues, PutsFirst

LEMMA QueuesFirst ==
  ASSUME RunsInv, NEW f, PutsFirst(f), jobs' = f \o Rest
  PROVE  Queues
<1>1. Rest \in Seq(AnyJob) /\ f \in Seq(AnyJob)
  BY KeptRest DEF Kept, PutsFirst
<1> HIDE DEF AnyJob, Rest
<1>2. jobs' = (f \o Rest) \o <<>>
  BY <1>1
<1> QED  BY <1>1, <1>2, PutsNone DEF Queues, PutsLast

LEMMA QueuesLast ==
  ASSUME RunsInv, NEW b, PutsLast(b), jobs' = Rest \o b
  PROVE  Queues
<1>1. Rest \in Seq(AnyJob) /\ b \in Seq(AnyJob)
  BY KeptRest DEF Kept, PutsLast
<1> HIDE DEF AnyJob, Rest
<1>2. jobs' = (<<>> \o Rest) \o b
  BY <1>1
<1> QED  BY <1>1, <1>2, PutsNone DEF Queues, PutsFirst

\* What is put at either end is to be called.
LEMMA QueuesIn ==
  ASSUME RunsInv, NEW f, NEW b, PutsFirst(f), PutsLast(b), jobs' = f \o Rest \o b
  PROVE  Queues /\ In(jobs') = In(f) \cup In(Rest) \cup In(b)
<1>1. f \in Seq(AnyJob) /\ b \in Seq(AnyJob)
  BY DEF PutsFirst, PutsLast
<1> QED  BY <1>1, PutsIn DEF Queues

\* Most of what is called concerns nobody who listens.
LEMMA HearsNothing ==
  ASSUME jobs = <<>> \/ Head(jobs).do \notin {"attach", "begun", "childend", "then", "finally", "stopchild"}
  PROVE  Hearing
<1>1. \A do, r : Job(do, r).do = do
  BY DEF Job
<1> QED  BY <1>1 DEF Hearing, HeadIs

-----------------------------------------------------------------------------
(* How the runs go on.                                                     *)

LEMMA AlikeGoesOn ==
  ASSUME NEW q, NEW was, NEW now, Alike(was, now)
  PROVE  GoesOnFrom(q, was, now)
BY DEF Alike, GoesOnFrom, StageOn, ChildOn, StepOn, StopOn, HoldsParts

LEMMA AllAlikeGoOn ==
  ASSUME DOMAIN runs' = DOMAIN runs, \A q \in DOMAIN runs : Alike(runs[q], runs'[q])
  PROVE  GoOn
BY AlikeGoesOn DEF GoOn

LEMMA SameGoOn ==
  ASSUME runs' = runs
  PROVE  GoOn
BY AllAlikeGoOn DEF Alike

LEMMA OneGoesOn ==
  ASSUME NEW r \in DOMAIN runs, NEW rec, runs' = [runs EXCEPT ![r] = rec], GoesOnFrom(r, runs[r], rec)
  PROVE  GoOn
<1>1. DOMAIN runs' = DOMAIN runs /\ \A q \in DOMAIN runs : runs'[q] = IF q = r THEN rec ELSE runs[q]
  OBVIOUS
<1>2. \A q \in DOMAIN runs : q # r => Alike(runs[q], runs'[q])
  BY <1>1 DEF Alike
<1> QED  BY <1>1, <1>2, AlikeGoesOn DEF GoOn

\* One more is begun, whatever becomes of another.
LEMMA MoreGoOn ==
  ASSUME runs \in Seq(RunRecords), NEW r \in DOMAIN runs, NEW rec \in RunRecords, NEW rs,
         rs = [runs EXCEPT ![r] = rec], NEW new \in RunRecords, runs' = Append(rs, new), Born(new)
  PROVE  /\ Len(runs) + 1 \in DOMAIN runs' /\ runs'[Len(runs) + 1] = new
         /\ GoesOnFrom(r, runs[r], rec) => GoOn
<1>1. /\ rs \in Seq(RunRecords) /\ Len(rs) = Len(runs) /\ DOMAIN rs = DOMAIN runs
      /\ rs[r] = rec /\ \A q \in DOMAIN runs : q # r => rs[q] = runs[q]
  <2> HIDE DEF RunRecords
  <2> QED  BY Changed
<1>2. /\ DOMAIN runs' = DOMAIN runs \cup {Len(runs) + 1} /\ runs'[Len(runs) + 1] = new
      /\ \A q \in DOMAIN runs : runs'[q] = rs[q]
  <2> HIDE DEF RunRecords
  <2> QED  BY <1>1, Grown
<1>3. \A q \in DOMAIN runs : q # r => Alike(runs[q], runs'[q])
  BY <1>1, <1>2 DEF Alike
<1> QED  BY <1>1, <1>2, <1>3, AlikeGoesOn DEF GoOn

LEMMA NewGoesOn ==
  ASSUME runs \in Seq(RunRecords), NEW new \in RunRecords, runs' = Append(runs, new), Born(new)
  PROVE  GoOn
<1>1. /\ DOMAIN runs' = DOMAIN runs \cup {Len(runs) + 1} /\ runs'[Len(runs) + 1] = new
      /\ \A q \in DOMAIN runs : runs'[q] = runs[q]
  <2> HIDE DEF RunRecords
  <2> QED  BY Grown
<1>2. \A q \in DOMAIN runs : Alike(runs[q], runs'[q])
  BY <1>1 DEF Alike
<1> QED  BY <1>1, <1>2, AlikeGoesOn DEF GoOn

-----------------------------------------------------------------------------
(* What the parts of the actions do.                                       *)

LEMMA SettlePasses ==
  ASSUME RunsInv, NEW r \in DOMAIN runs, NEW how, NEW row, Settle(r, how, row, Rest), Spoken(r),
         runs[r].stage \in Ahead,
         how = "stopped" => \/ runs[r].outcome = "stopped"
                            \/ runs[r].stage = "stepping" /\ (runs[r].step = "none" \/ HeadIs("quit", r))
  PROVE  GoOn /\ Queues
<1> DEFINE rec == [runs[r] EXCEPT !.stage = "settled", !.step = "none", !.outcome = how, !.row = row]
           a == Job("caught", r)
           b == Job(IF runs[r].by = "trigger" THEN "ended" ELSE "then", r)
<1>1. runs \in Seq(RunRecords) /\ runs[r] \in RunRecords /\ r \in Nat
  BY JobsTyped, Indices
<1>2. /\ rec.of = runs[r].of /\ rec.by = runs[r].by /\ rec.parent = runs[r].parent /\ rec.child = runs[r].child
      /\ rec.stage = "settled" /\ rec.step = "none" /\ rec.at = runs[r].at /\ rec.outcome = how
      /\ rec.stopped = runs[r].stopped
  BY <1>1 DEF RunRecords
<1>3. runs' = [runs EXCEPT ![r] = rec] /\ jobs' = Rest \o <<a, b>>
  BY DEF Settle, Callbacks
<1>4. a \in AnyJob /\ b \in AnyJob /\ Put(a) /\ Put(b) /\ a.do = "caught" /\ b.do \in {"then", "ended"}
  <2>1. ~Alike(runs[r], runs'[r])
    BY <1>2, <1>3 DEF Alike, Ahead
  <2> QED  BY <1>1, <2>1 DEF AnyJob, Job, JobKinds, Put, Carries, Carriers
<1>5. runs[r].by # "trigger" => b = Job("then", r)
  OBVIOUS
<1> HIDE DEF rec, a, b
<1>6. PutsLast(<<a, b>>)
  BY <1>4, PutsTwo
<1>7. Queues
  BY <1>3, <1>6, QueuesLast
<1>8. b \in In(jobs')
  <2>1. <<a, b>> \in Seq(AnyJob) /\ DOMAIN <<a, b>> = {1, 2} /\ <<a, b>>[2] = b
    <3> HIDE DEF AnyJob
    <3>1. <<a, b>> \in Seq(AnyJob) /\ Len(<<a, b>>) = 2 /\ <<a, b>>[2] = b
      BY <1>4
    <3>2. DOMAIN <<a, b>> = 1..2
      BY <3>1, LenProperties
    <3> QED  BY <3>1, <3>2
  <2>2. b \in In(<<a, b>>)
    BY <2>1 DEF In
  <2> DEFINE t == <<a, b>>
  <2>3. t \in Seq(AnyJob) /\ b \in In(t) /\ jobs' = Rest \o t
    BY <1>3, <2>1, <2>2
  <2>4. Rest \in Seq(AnyJob)
    BY KeptRest DEF Kept
  <2> HIDE DEF t, AnyJob, Rest
  <2> QED  BY <2>3, <2>4, Joined
<1>9. GoesOnFrom(r, runs[r], rec)
  <2>1. StageOn(r, runs[r], rec)
    BY <1>2, <1>5, <1>8 DEF StageOn, HoldsParts, Ahead
  <2>2. ChildOn(r, runs[r], rec) /\ StepOn(r, runs[r], rec)
    BY <1>2 DEF ChildOn, StepOn
  <2>3. StopOn(r, runs[r], rec)
    BY <1>2 DEF StopOn
  <2> QED  BY <2>1, <2>2, <2>3 DEF GoesOnFrom
<1>10. GoOn
  BY <1>3, <1>9, OneGoesOn
<1> QED  BY <1>7, <1>10

LEMMA ConcludePasses ==
  ASSUME RunsInv, NEW r \in DOMAIN runs, NEW how, Conclude(r, how, Rest), Spoken(r),
         runs[r].stage \in {"stepping", "falling"},
         how = "stopped" => runs[r].stage = "stepping" /\ (runs[r].step = "none" \/ HeadIs("quit", r))
  PROVE  GoOn /\ Queues
<1>1. CASE how \in {"failed", "stopped"} /\ runs[r].of \in Rescued /\ runs[r].stage = "stepping"
  <2> DEFINE rec == [runs[r] EXCEPT !.stage = "falling", !.step = "acting", !.retried = 0, !.outcome = how]
  <2>1. runs \in Seq(RunRecords) /\ runs[r] \in RunRecords
    BY JobsTyped, Indices
  <2>2. /\ rec.of = runs[r].of /\ rec.by = runs[r].by /\ rec.parent = runs[r].parent /\ rec.child = runs[r].child
        /\ rec.stage = "falling" /\ rec.step = "acting" /\ rec.at = runs[r].at /\ rec.outcome = how
        /\ rec.stopped = runs[r].stopped
    BY <2>1 DEF RunRecords
  <2>3. runs' = [runs EXCEPT ![r] = rec] /\ jobs' = Rest
    BY <1>1 DEF Conclude
  <2> HIDE DEF rec
  <2>4. StageOn(r, runs[r], rec)
    BY <1>1, <2>2 DEF StageOn, HoldsParts
  <2>5. ChildOn(r, runs[r], rec) /\ StepOn(r, runs[r], rec) /\ StopOn(r, runs[r], rec)
    BY <1>1, <2>2 DEF ChildOn, StepOn, StopOn
  <2>6. GoesOnFrom(r, runs[r], rec)
    BY <2>4, <2>5 DEF GoesOnFrom
  <2> QED  BY <2>3, <2>6, OneGoesOn, QueuesNone
<1>2. CASE ~ (how \in {"failed", "stopped"} /\ runs[r].of \in Rescued /\ runs[r].stage = "stepping")
  <2> DEFINE end == IF runs[r].stage = "falling" THEN runs[r].outcome ELSE how
  <2>1. Settle(r, end, RowAtEnd(r), Rest)
    BY <1>2 DEF Conclude
  <2>2. /\ runs[r].stage \in Ahead
        /\ end = "stopped" => \/ runs[r].outcome = "stopped"
                              \/ runs[r].stage = "stepping" /\ (runs[r].step = "none" \/ HeadIs("quit", r))
    BY DEF Ahead
  <2> HIDE DEF end
  <2> QED  BY <2>1, <2>2, SettlePasses
<1> QED  BY <1>1, <1>2

LEMMA GoesOnPasses ==
  ASSUME RunsInv, NEW r \in DOMAIN runs, GoesOn(r, Rest), Spoken(r), runs[r].stage = "stepping"
  PROVE  GoOn /\ Queues
<1> DEFINE rec == [runs[r] EXCEPT !.step = "none", !.at = @ + 1, !.child = Nobody]
           j == Job("walk", r)
<1>1. runs \in Seq(RunRecords) /\ runs[r] \in RunRecords /\ r \in Nat
  BY JobsTyped, Indices
<1>2. /\ rec.of = runs[r].of /\ rec.by = runs[r].by /\ rec.parent = runs[r].parent /\ rec.child = Nobody
      /\ rec.stage = "stepping" /\ rec.step = "none" /\ rec.at = runs[r].at + 1 /\ rec.outcome = runs[r].outcome
      /\ rec.stopped = runs[r].stopped /\ runs[r].at \in Nat
  BY <1>1 DEF RunRecords
<1>3. runs' = [runs EXCEPT ![r] = rec] /\ jobs' = <<j>> \o Rest
  BY DEF GoesOn
<1>4. j \in AnyJob /\ Put(j) /\ j.do = "walk"
  <2>1. ~Alike(runs[r], runs'[r])
    <3> HIDE DEF rec
    <3>1. runs'[r].at = runs[r].at + 1
      BY <1>2, <1>3
    <3> QED  BY <1>2, <3>1 DEF Alike
  <2> QED  BY <1>1, <2>1 DEF AnyJob, Job, JobKinds, Put, Carries, Carriers
<1> HIDE DEF rec, j
<1>5. Queues
  BY <1>3, <1>4, PutsOne, QueuesFirst
<1>6. StageOn(r, runs[r], rec)
  BY <1>2 DEF StageOn, HoldsParts
<1>7. ChildOn(r, runs[r], rec) /\ StepOn(r, runs[r], rec) /\ StopOn(r, runs[r], rec)
  BY <1>2 DEF ChildOn, StepOn, StopOn
<1>8. GoOn
  BY <1>3, <1>6, <1>7, OneGoesOn DEF GoesOnFrom
<1> QED  BY <1>5, <1>8

\* Only what a run waits for in its step changes.
LEMMA StepGoesOn ==
  ASSUME RunsInv, NEW r \in DOMAIN runs, NEW rec, NEW step, runs' = [runs EXCEPT ![r] = rec], Spoken(r),
         rec.of = runs[r].of, rec.by = runs[r].by, rec.parent = runs[r].parent, rec.child = runs[r].child,
         rec.stage = runs[r].stage, rec.at = runs[r].at, rec.outcome = runs[r].outcome,
         rec.stopped = runs[r].stopped, rec.step = step,
         \/ step \in {"acting", "pausing", "asleep"} /\ runs[r].step \in AtStep
         \/ step = "beginning" /\ HeadIs("attach", r) /\ (runs[runs[r].child].at > 0 => Job("begun", r) \in In(jobs'))
         \/ step = "awaiting" /\ HeadIs("begun", r)
  PROVE  GoOn
<1>1. StageOn(r, runs[r], rec)
  BY DEF StageOn, HoldsParts
<1>2. ChildOn(r, runs[r], rec) /\ StepOn(r, runs[r], rec) /\ StopOn(r, runs[r], rec)
  BY DEF ChildOn, StepOn, StopOn, AtStep
<1> QED  BY <1>1, <1>2, OneGoesOn DEF GoesOnFrom

\* A run is stopped, and wakes from what it waits for.
LEMMA StoppedGoesOn ==
  ASSUME NEW r \in DOMAIN runs, NEW was, was = runs[r], was \in RunRecords, NEW now, Spoken(r),
         jobs = <<>> \/ Head(jobs).do = "stopchild",
         now.of = was.of, now.by = was.by, now.parent = was.parent, now.child = was.child,
         now.stage = was.stage, now.at = was.at, now.outcome = was.outcome, now.stopped,
         now.step = IF Wakeable(r) THEN "woken" ELSE was.step, HoldsParts(was),
         Wakeable(r) /\ was.step = "awaiting" => Job("stopchild", r) \in In(jobs')
  PROVE  GoesOnFrom(r, was, now)
<1>1. StageOn(r, was, now)
  BY DEF StageOn, HoldsParts
<1>2. ChildOn(r, was, now)
  <2>1. now.step \in AtStep => now.step = was.step
    BY DEF AtStep
  <2> QED  BY <2>1 DEF ChildOn
<1>3. StepOn(r, was, now)
  BY DEF StepOn, Wakeable, AtStep
<1>4. StopOn(r, was, now)
  BY DEF StopOn, Wakeable
<1> QED  BY <1>1, <1>2, <1>3, <1>4 DEF GoesOnFrom

\* Who is stopped is woken, or tells the run it waits for.
LEMMA WakesPuts ==
  ASSUME RunsInv, NEW r \in DOMAIN runs, Spoken(r), jobs = <<>> \/ Head(jobs).do = "stopchild",
         Wakeable(r) => runs'[r].step = "woken"
  PROVE  /\ PutsLast(Wakes(r))
         /\ Wakeable(r) /\ runs[r].step = "awaiting" => Job("stopchild", r) \in In(Wakes(r))
<1>1. r \in Nat
  BY JobsTyped
<1>2. CASE Wakeable(r)
  <2> DEFINE j == Job(IF runs[r].step = "awaiting" THEN "stopchild" ELSE "quit", r)
  <2>1. Wakes(r) = <<j>> /\ j \in AnyJob /\ j.do # "attach"
    BY <1>1, <1>2 DEF Wakes, AnyJob, Job, JobKinds
  <2>2. Put(j)
    <3>1. ~Alike(runs[r], runs'[r])
      BY <1>2 DEF Alike, Wakeable
    <3> QED  BY <1>2, <3>1 DEF Put, Job, Carries, Carriers
  <2>3. runs[r].step = "awaiting" => j = Job("stopchild", r)
    OBVIOUS
  <2> HIDE DEF j
  <2>4. PutsLast(<<j>>) /\ j \in In(<<j>>)
    <3>1. PutsLast(<<j>>)
      BY <2>1, <2>2, PutsOne
    <3> HIDE DEF AnyJob
    <3>2. j \in In(<<j>>)
      BY <2>1, OneOf
    <3> QED  BY <3>1, <3>2
  <2> QED  BY <2>1, <2>3, <2>4
<1>3. CASE ~Wakeable(r)
  BY <1>3, PutsNone DEF Wakes
<1> QED  BY <1>2, <1>3

LEMMA BeginsPasses ==
  ASSUME RunsInv, NEW r \in DOMAIN runs, Begins(r, Rest), Spoken(r), runs[r].stage = "deciding"
  PROVE  GoOn /\ Queues
<1>0. runs[r].stage \in Ahead
  BY DEF Ahead
<1>1. CASE Taken(r)
  BY <1>0, <1>1, SettlePasses DEF Begins
<1>2. CASE ~Taken(r) /\ runs[r].of \in Sequences /\ mode[runs[r].of] = "gone"
  BY <1>0, <1>2, SettlePasses DEF Begins
<1>3. CASE ~Taken(r) /\ ~ (runs[r].of \in Sequences /\ mode[runs[r].of] = "gone")
  <2> DEFINE row == IF runs[r].of \in Sequences THEN "running" ELSE "none"
             rec == [runs[r] EXCEPT !.stage = "stepping", !.at = 1, !.row = row]
             walk == Job("walk", r)
             begun == Job("begun", runs[r].parent)
             more == IF Awaited(r) THEN <<begun>> ELSE <<>>
  <2>1. runs \in Seq(RunRecords) /\ runs[r] \in RunRecords /\ r \in Nat
    BY JobsTyped, Indices
  <2>2. runs' = [runs EXCEPT ![r] = rec] /\ jobs' = <<walk>> \o Rest \o more
    BY <1>3 DEF Begins
  <2>3. /\ rec.of = runs[r].of /\ rec.by = runs[r].by /\ rec.parent = runs[r].parent /\ rec.child = runs[r].child
        /\ rec.stage = "stepping" /\ rec.step = runs[r].step /\ rec.at = 1 /\ rec.outcome = runs[r].outcome
        /\ rec.stopped = runs[r].stopped /\ runs[r].parent \in Nat
    BY <2>1 DEF RunRecords
  <2>4. walk \in AnyJob /\ walk.do = "walk" /\ Put(walk)
    <3>1. ~Alike(runs[r], runs'[r])
      BY <2>2, <2>3 DEF Alike
    <3> QED  BY <2>1, <3>1 DEF AnyJob, Job, JobKinds, Put, Carries, Carriers
  <2>5. begun \in AnyJob /\ begun.do = "begun" /\ (Awaited(r) => Put(begun))
    BY <2>3 DEF AnyJob, Job, JobKinds, Put, Carries, Carriers
  <2> HIDE DEF rec, walk
  <2>6. PutsFirst(<<walk>>)
    BY <2>4, PutsOne
  <2>7. PutsLast(more) /\ (Awaited(r) => begun \in In(more))
    <3> HIDE DEF begun, AnyJob
    <3>1. CASE Awaited(r)
      BY <2>5, <3>1, PutsOne, OneOf
    <3>2. CASE ~Awaited(r)
      BY <3>2, PutsNone
    <3> QED  BY <3>1, <3>2
  <2> HIDE DEF more
  <2>8. Queues /\ In(more) \subseteq In(jobs')
    BY <2>2, <2>6, <2>7, QueuesIn
  <2>9. StageOn(r, runs[r], rec)
    BY <1>3, <2>3, <2>7, <2>8 DEF StageOn, HoldsParts
  <2>10. ChildOn(r, runs[r], rec) /\ StepOn(r, runs[r], rec) /\ StopOn(r, runs[r], rec)
    BY <2>3 DEF ChildOn, StepOn, StopOn
  <2>11. GoOn
    BY <2>2, <2>9, <2>10, OneGoesOn DEF GoesOnFrom
  <2> QED  BY <2>8, <2>11
<1> QED  BY <1>1, <1>2, <1>3

\* One more run that nobody else's step started.
LEMMA BornAlone ==
  ASSUME RunsInv, NEW a \in Automations, NEW by \in {"trigger", "person"}
  PROVE  /\ NewRun(a, by, Nobody) \in RunRecords /\ Born(NewRun(a, by, Nobody))
         /\ PutsFirst(<<Job("run", Len(runs) + 1)>>) /\ PutsLast(<<Job("run", Len(runs) + 1)>>)
<1> DEFINE new == NewRun(a, by, Nobody)
           j == Job("run", Len(runs) + 1)
<1>1. runs \in Seq(RunRecords) /\ Len(runs) \in Nat /\ Len(runs) + 1 \notin DOMAIN runs
  BY JobsTyped, Indices
<1>2. new \in RunRecords
  BY <1>1 DEF NewRun, RunRecords, Nobody
<1>3. Born(new)
  BY DEF NewRun, Born, Nobody
<1>4. j \in AnyJob /\ j.do = "run" /\ Put(j)
  BY <1>1 DEF AnyJob, Job, JobKinds, Put
<1> HIDE DEF j
<1>5. PutsFirst(<<j>>) /\ PutsLast(<<j>>)
  BY <1>4, PutsOne
<1> QED  BY <1>2, <1>3, <1>5 DEF j

LEMMA StartTriggeredPasses ==
  ASSUME RunsInv, NEW a \in Automations, StartTriggered(a, Rest)
  PROVE  GoOn /\ Queues
<1>1. CASE mode[a] = "gone"
  <2>1. runs' = runs /\ jobs' = Rest
    BY <1>1 DEF StartTriggered
  <2> QED  BY <2>1, SameGoOn, QueuesNone
<1>2. CASE mode[a] # "gone"
  <2> DEFINE new == NewRun(a, "trigger", Nobody)
             first == <<Job("run", Len(runs) + 1)>>
  <2>1. runs' = Append(runs, new) /\ jobs' = first \o Rest
    BY <1>2 DEF StartTriggered
  <2>2. new \in RunRecords /\ Born(new) /\ PutsFirst(first) /\ runs \in Seq(RunRecords)
    BY BornAlone, JobsTyped
  <2> HIDE DEF new, first
  <2> QED  BY <2>1, <2>2, NewGoesOn, QueuesFirst
<1> QED  BY <1>1, <1>2

LEMMA EndedPasses ==
  ASSUME RunsInv, NEW r \in DOMAIN runs, NEW more, PutsLast(more), Ended(r, Rest \o more),
         HeadIs("finally", r) \/ HeadIs("ended", r), runs[r].stage = "settled", Spoken(r)
  PROVE  GoOn /\ Queues /\ In(more) \subseteq In(jobs') /\ runs'[r].stage = "over"
<1> DEFINE a == runs[r].of
           over == [runs EXCEPT ![r].stage = "over"]
           done == [runs[r] EXCEPT !.stage = "over"]
           new == NewRun(a, "trigger", Nobody)
           first == <<Job("run", Len(runs) + 1)>>
<1>1. runs \in Seq(RunRecords) /\ runs[r] \in RunRecords /\ Rest \in Seq(AnyJob) /\ more \in Seq(AnyJob)
  BY JobsTyped, Indices, KeptRest DEF Kept, PutsLast
<1>2. /\ done.of = runs[r].of /\ done.by = runs[r].by /\ done.parent = runs[r].parent
      /\ done.child = runs[r].child /\ done.stage = "over" /\ done.step = runs[r].step /\ done.at = runs[r].at
      /\ done.outcome = runs[r].outcome /\ done.stopped = runs[r].stopped
      /\ done \in RunRecords /\ a \in Automations
  BY <1>1 DEF RunRecords
<1>3. over = [runs EXCEPT ![r] = done]
  OBVIOUS
<1>4. \/ runs' = Append(over, new) /\ jobs' = first \o (Rest \o more)
      \/ runs' = over /\ jobs' = Rest \o more
  BY DEF Ended
<1>5. new \in RunRecords /\ Born(new) /\ PutsFirst(first)
  BY <1>2, BornAlone
<1> HIDE DEF done, over, new, first, a
<1>6. GoesOnFrom(r, runs[r], done)
  <2>1. StageOn(r, runs[r], done)
    BY <1>2 DEF StageOn, HoldsParts
  <2>2. ChildOn(r, runs[r], done) /\ StepOn(r, runs[r], done) /\ StopOn(r, runs[r], done)
    BY <1>2 DEF ChildOn, StepOn, StopOn
  <2> QED  BY <2>1, <2>2 DEF GoesOnFrom
<1>7. CASE runs' = Append(over, new) /\ jobs' = first \o (Rest \o more)
  <2>1. GoOn
    BY <1>1, <1>2, <1>3, <1>5, <1>6, <1>7, MoreGoOn
  <2>2. jobs' = first \o Rest \o more
    <3>1. first \in Seq(AnyJob)
      BY <1>5 DEF PutsFirst
    <3> HIDE DEF AnyJob, Rest
    <3> QED  BY <1>1, <1>7, <3>1, ConcatAssociative
  <2>3. runs'[r].stage = "over"
    <3>1. over \in Seq(RunRecords) /\ r \in DOMAIN over /\ over[r] = done
      <4> HIDE DEF RunRecords
      <4> QED  BY <1>1, <1>2, <1>3, Changed
    <3>2. runs'[r] = over[r]
      <4> HIDE DEF RunRecords
      <4> QED  BY <1>5, <1>7, <3>1, Grown
    <3> QED  BY <1>2, <3>1, <3>2
  <2> QED  BY <1>5, <2>1, <2>2, <2>3, QueuesIn
<1>8. CASE runs' = over /\ jobs' = Rest \o more
  <2>1. GoOn
    BY <1>3, <1>6, <1>8, OneGoesOn
  <2>2. jobs' = <<>> \o Rest \o more
    <3> HIDE DEF AnyJob, Rest
    <3> QED  BY <1>1, <1>8
  <2>3. runs'[r].stage = "over"
    BY <1>2, <1>3, <1>8
  <2> QED  BY <2>1, <2>2, <2>3, PutsNone, QueuesIn
<1> QED  BY <1>4, <1>7, <1>8

LEMMA StartStepPasses ==
  ASSUME RunsInv, NEW r \in DOMAIN runs, StartStep(r), HeadIs("walk", r), Spoken(r),
         runs[r].stage = "stepping", runs[r].step = "none", ~runs[r].stopped
  PROVE  GoOn /\ Queues
<1> DEFINE b == Starts[runs[r].of]
           n == Len(runs) + 1
           new == NewRun(b, "run", r)
           was == [runs[r] EXCEPT !.step = "starting", !.child = n]
           rs == [runs EXCEPT ![r].step = "starting", ![r].child = n]
           j == Job("run", n)
           k == Job("attach", r)
<1>1. /\ runs \in Seq(RunRecords) /\ runs[r] \in RunRecords /\ Len(runs) \in Nat /\ r \in Nat \ {0}
      /\ n \in Nat \ {0} /\ n \notin DOMAIN runs /\ Rest = Tail(jobs)
  BY JobsTyped, Indices DEF HeadIs, Rest
<1>2. CASE StartRefused(r)
  BY <1>1, <1>2, ConcludePasses DEF StartStep
<1>3. CASE ~StartRefused(r)
  <2>1. runs' = Append(rs, new) /\ jobs' = <<j, k>> \o Rest
    BY <1>1, <1>3 DEF StartStep
  <2>2. b \in Automations /\ runs[r].of \in Automations
    BY <1>1, RunsAssumption DEF RunRecords
  <2>3. runs[r].root \in Nat \ {0} /\ runs[r].chain \cup {runs[r].of} \in SUBSET Automations
    <3>1. runs[r].root \in Nat \ {0} /\ runs[r].chain \in SUBSET Automations
      BY <1>1 DEF RunRecords
    <3> QED  BY <2>2, <3>1
  <2>4. new \in RunRecords
    BY <1>1, <2>2, <2>3 DEF NewRun, RunRecords, Nobody
  <2>5. Born(new) /\ new.parent = r /\ new.by = "run" /\ new.of = b
    BY DEF NewRun, Born
  <2>6. /\ was \in RunRecords /\ was.of = runs[r].of /\ was.by = runs[r].by /\ was.parent = runs[r].parent
        /\ was.child = n /\ was.stage = "stepping" /\ was.step = "starting" /\ was.at = runs[r].at
        /\ was.outcome = runs[r].outcome /\ was.stopped = runs[r].stopped
    <3> HIDE DEF n
    <3> QED  BY <1>1 DEF RunRecords
  <2>7. rs = [runs EXCEPT ![r] = was]
    OBVIOUS
  <2>8. /\ j \in AnyJob /\ k \in AnyJob /\ j.do = "run" /\ k.do = "attach" /\ Put(j) /\ Put(k)
    BY <1>1 DEF AnyJob, Job, JobKinds, Put, Carries, Carriers, HeadIs
  <2>9. runs[r].child # n
    <3>1. Stands(runs[r], Len(runs))
      BY Called DEF HeadIs, RunsInv, Fit, Idle
    <3> QED  BY <1>1, <3>1 DEF Stands
  <2> HIDE DEF rs, was, new, j, k
  <2>10. PutsFirst(<<j, k>>) /\ k \in In(<<j, k>>)
    <3>1. <<j, k>> \in Seq(AnyJob) /\ Len(<<j, k>>) = 2 /\ <<j, k>>[2] = k
      <4> HIDE DEF AnyJob
      <4> QED  BY <2>8
    <3>2. DOMAIN <<j, k>> = 1..2
      <4> HIDE DEF AnyJob
      <4> QED  BY <3>1, LenProperties
    <3>3. k \in In(<<j, k>>)
      BY <3>1, <3>2 DEF In
    <3> QED  BY <2>8, <3>3, PutsTwo
  <2>11. Queues /\ k \in In(jobs')
    <3> DEFINE t == <<j, k>>
    <3>1. t \in Seq(AnyJob) /\ k \in In(t) /\ jobs' = t \o Rest /\ PutsFirst(t)
      BY <2>1, <2>10 DEF PutsFirst
    <3>2. Rest \in Seq(AnyJob)
      BY KeptRest DEF Kept
    <3> HIDE DEF t
    <3>3. Queues
      BY <3>1, QueuesFirst
    <3> HIDE DEF AnyJob, Rest
    <3> QED  BY <3>1, <3>2, <3>3, Joined
  <2>12. n \in DOMAIN runs' /\ runs'[n] = new /\ (GoesOnFrom(r, runs[r], was) => GoOn)
    <3> HIDE DEF RunRecords
    <3> QED  BY <1>1, <2>1, <2>4, <2>5, <2>6, <2>7, MoreGoOn
  <2>13. StageOn(r, runs[r], was) /\ StopOn(r, runs[r], was)
    BY <2>6 DEF StageOn, StopOn, HoldsParts
  <2>14. ChildOn(r, runs[r], was)
    <3>1. "starting" \notin AtStep
      BY DEF AtStep
    <3> QED  BY <2>5, <2>6, <2>12, <3>1 DEF ChildOn
  <2>15. StepOn(r, runs[r], was)
    BY <2>6, <2>9, <2>11 DEF StepOn, k
  <2> QED  BY <2>11, <2>12, <2>13, <2>14, <2>15 DEF GoesOnFrom
<1> QED  BY <1>2, <1>3

-----------------------------------------------------------------------------
(* What the callbacks do.                                                  *)

\* The next callback is called, and is about the run that it carries on.
LEMMA NextSpoken ==
  ASSUME RunsInv, NEW do, Next1(do), NEW r, r = Head(jobs).run
  PROVE  /\ r \in DOMAIN runs /\ r \in Nat /\ runs \in Seq(RunRecords) /\ runs[r] \in RunRecords
         /\ Due(do, runs[r]) /\ Stands(runs[r], Len(runs)) /\ HeadIs(do, r) /\ Head(jobs).do = do
         /\ Rest = Tail(jobs) /\ Rest \in Seq(AnyJob) /\ (do \in Carriers => Spoken(r))
         /\ \A other, q : HeadIs(other, q) => other = do /\ q = r
<1>1. /\ r \in DOMAIN runs /\ r \in Nat /\ runs[r] \in RunRecords /\ Due(do, runs[r])
      /\ Head(jobs) = Job(do, r) /\ jobs # <<>> /\ Rest = Tail(jobs) /\ Rest \in Seq(AnyJob)
  BY NextTaken DEF Kept
<1>2. Stands(runs[r], Len(runs)) /\ runs \in Seq(RunRecords)
  BY Called, JobsTyped
<1>3. HeadIs(do, r) /\ \A other, q : HeadIs(other, q) => other = do /\ q = r
  BY <1>1 DEF HeadIs, Job
<1>4. do \in Carriers => Spoken(r)
  BY <1>1 DEF Spoken, Carries, Job, Next1
<1> QED  BY <1>1, <1>2, <1>3, <1>4 DEF Next1

LEMMA RunPasses ==
  ASSUME RunsInv, Run
  PROVE  GoOn /\ Queues /\ Hearing
<1> DEFINE r == Head(jobs).run
<1>1. Next1("run")
  BY DEF Run
<1>2. /\ r \in DOMAIN runs /\ runs[r].stage = "deciding" /\ Rest = Tail(jobs) /\ Spoken(r)
      /\ Head(jobs).do = "run"
  BY <1>1, NextSpoken DEF Due, Carriers
<1>3. \/ runs' = runs /\ jobs' = Rest
      \/ Begins(r, Rest)
  BY <1>2 DEF Run
<1> HIDE DEF r
<1>4. GoOn /\ Queues
  BY <1>2, <1>3, SameGoOn, QueuesNone, BeginsPasses
<1>5. Hearing
  BY <1>2, HearsNothing
<1> QED  BY <1>4, <1>5

LEMMA WalkPasses ==
  ASSUME RunsInv, Walk
  PROVE  GoOn /\ Queues /\ Hearing
<1> DEFINE r == Head(jobs).run
<1>1. Next1("walk")
  BY DEF Walk
<1>2. /\ r \in DOMAIN runs /\ runs[r] \in RunRecords /\ runs[r].stage = "stepping" /\ runs[r].step = "none"
      /\ Rest = Tail(jobs) /\ Spoken(r) /\ HeadIs("walk", r) /\ Head(jobs).do = "walk"
  BY <1>1, NextSpoken DEF Due, Carriers
<1>3. Hearing
  BY <1>2, HearsNothing
<1>4. \/ Conclude(r, "stopped", Rest)
      \/ Settle(r, "acted", RowAtEnd(r), Rest)
      \/ /\ runs' = [runs EXCEPT ![r].step = IF StepOf(r) = "act" THEN "acting" ELSE "asleep",
                                 ![r].retried = 0]
         /\ jobs' = Rest
      \/ ~runs[r].stopped /\ StartStep(r)
  BY <1>2 DEF Walk, Stopping
<1> HIDE DEF r
<1>5. CASE Conclude(r, "stopped", Rest)
  BY <1>2, <1>3, <1>5, ConcludePasses
<1>6. CASE Settle(r, "acted", RowAtEnd(r), Rest)
  BY <1>2, <1>3, <1>6, SettlePasses DEF Ahead
<1>7. CASE /\ runs' = [runs EXCEPT ![r].step = IF StepOf(r) = "act" THEN "acting" ELSE "asleep",
                                   ![r].retried = 0]
           /\ jobs' = Rest
  <2> DEFINE step == IF StepOf(r) = "act" THEN "acting" ELSE "asleep"
             rec == [runs[r] EXCEPT !.step = step, !.retried = 0]
  <2>1. runs' = [runs EXCEPT ![r] = rec]
    BY <1>7
  <2>2. step \in {"acting", "asleep"}
    OBVIOUS
  <2> HIDE DEF step
  <2>3. /\ rec.of = runs[r].of /\ rec.by = runs[r].by /\ rec.parent = runs[r].parent /\ rec.child = runs[r].child
        /\ rec.stage = runs[r].stage /\ rec.at = runs[r].at /\ rec.outcome = runs[r].outcome
        /\ rec.stopped = runs[r].stopped /\ rec.step = step
    BY <1>2 DEF RunRecords
  <2>4. step \in {"acting", "pausing", "asleep"} /\ runs[r].step \in AtStep
    BY <1>2, <2>2 DEF AtStep
  <2> HIDE DEF rec
  <2>5. GoOn
    BY <1>2, <2>1, <2>3, <2>4, StepGoesOn
  <2> QED  BY <1>3, <1>7, <2>5, QueuesNone
<1>8. CASE ~runs[r].stopped /\ StartStep(r)
  BY <1>2, <1>3, <1>8, StartStepPasses
<1> QED  BY <1>4, <1>5, <1>6, <1>7, <1>8

LEMMA AttachPasses ==
  ASSUME RunsInv, Attach
  PROVE  GoOn /\ Queues /\ Hearing
<1>1. Next1("attach")
  BY DEF Attach
<1> DEFINE r == Head(jobs).run
           j == Job("begun", r)
           more == IF runs[runs[r].child].at > 0 THEN <<j>> ELSE <<>>
           rec == [runs[r] EXCEPT !.step = "beginning"]
<1>2. /\ r \in DOMAIN runs /\ r \in Nat /\ runs[r] \in RunRecords /\ Rest = Tail(jobs) /\ Spoken(r)
      /\ HeadIs("attach", r) /\ \A other, q : HeadIs(other, q) => other = "attach" /\ q = r
  BY <1>1, NextSpoken DEF Carriers
<1>3. runs' = [runs EXCEPT ![r] = rec] /\ jobs' = Rest \o more
  BY <1>2 DEF Attach
<1>4. j \in AnyJob /\ j.do = "begun" /\ Put(j)
  BY <1>2 DEF AnyJob, Job, JobKinds, Put
<1>5. /\ rec.of = runs[r].of /\ rec.by = runs[r].by /\ rec.parent = runs[r].parent /\ rec.child = runs[r].child
      /\ rec.stage = runs[r].stage /\ rec.at = runs[r].at /\ rec.outcome = runs[r].outcome
      /\ rec.stopped = runs[r].stopped /\ rec.step = "beginning"
  BY <1>2 DEF RunRecords
<1> HIDE DEF r, rec
<1>6. PutsLast(more) /\ (runs[runs[r].child].at > 0 => j \in In(more))
  <2> HIDE DEF AnyJob, j
  <2>1. CASE runs[runs[r].child].at > 0
    BY <1>4, <2>1, PutsOne, OneOf
  <2>2. CASE ~ (runs[runs[r].child].at > 0)
    BY <2>2, PutsNone
  <2> QED  BY <2>1, <2>2
<1> HIDE DEF more
<1>7. Queues /\ In(more) \subseteq In(jobs')
  <2>1. Rest \in Seq(AnyJob) /\ more \in Seq(AnyJob)
    BY <1>6, KeptRest DEF Kept, PutsLast
  <2>2. In(Rest \o more) = In(Rest) \cup In(more)
    <3> HIDE DEF AnyJob, Rest
    <3> QED  BY <2>1, Joined
  <2> QED  BY <1>3, <1>6, <2>2, QueuesLast
<1>8. GoOn
  <2>1. runs[runs[r].child].at > 0 => Job("begun", r) \in In(jobs')
    BY <1>6, <1>7
  <2> QED  BY <1>2, <1>3, <1>5, <2>1, StepGoesOn
<1>9. Hearing
  <2>1. runs'[r].step = "beginning"
    BY <1>2, <1>3, <1>5
  <2> QED  BY <1>2, <2>1 DEF Hearing
<1> QED  BY <1>7, <1>8, <1>9

\* A step that is over waits for nothing.
LEMMA StepOver ==
  ASSUME RunsInv, NEW r \in DOMAIN runs, NEW rest, NEW how, GoesOn(r, rest) \/ Conclude(r, how, rest)
  PROVE  runs'[r].step \in {"none", "acting"}
<1>1. runs[r] \in RunRecords
  BY JobsTyped, Indices
<1>2. CASE GoesOn(r, rest)
  BY <1>1, <1>2 DEF GoesOn, RunRecords
<1>3. ASSUME NEW end, NEW row, Settle(r, end, row, rest)
      PROVE  runs'[r].step = "none"
  <2> DEFINE rec == [runs[r] EXCEPT !.stage = "settled", !.step = "none", !.outcome = end, !.row = row]
  <2>1. runs' = [runs EXCEPT ![r] = rec]
    BY <1>3 DEF Settle
  <2>2. rec.step = "none"
    BY <1>1 DEF RunRecords
  <2> HIDE DEF rec
  <2> QED  BY <2>1, <2>2
<1>4. ASSUME Conclude(r, how, rest), how \in {"failed", "stopped"}, runs[r].of \in Rescued, runs[r].stage = "stepping"
      PROVE  runs'[r].step = "acting"
  <2> DEFINE rec == [runs[r] EXCEPT !.stage = "falling", !.step = "acting", !.retried = 0, !.outcome = how]
  <2>1. runs' = [runs EXCEPT ![r] = rec]
    BY <1>4 DEF Conclude
  <2>2. rec.step = "acting"
    BY <1>1 DEF RunRecords
  <2> HIDE DEF rec
  <2> QED  BY <2>1, <2>2
<1>5. CASE Conclude(r, how, rest)
  BY <1>3, <1>4, <1>5 DEF Conclude
<1> QED  BY <1>2, <1>5

LEMMA BegunPasses ==
  ASSUME RunsInv, Begun
  PROVE  GoOn /\ Queues /\ Hearing
<1> DEFINE r == Head(jobs).run
           rec == [runs[r] EXCEPT !.step = "awaiting"]
<1>1. Next1("begun")
  BY DEF Begun
<1>2. /\ r \in DOMAIN runs /\ runs[r] \in RunRecords /\ Rest = Tail(jobs) /\ Spoken(r)
      /\ HeadIs("begun", r) /\ \A other, q : HeadIs(other, q) => other = "begun" /\ q = r
      /\ runs[r].stage = "stepping"
  BY <1>1, NextSpoken DEF Due, Carriers
<1>3. \/ GoesOn(r, Rest) \/ Conclude(r, "failed", Rest)
      \/ runs' = [runs EXCEPT ![r] = rec] /\ jobs' = Rest
  BY <1>2 DEF Begun
<1>4. /\ rec.of = runs[r].of /\ rec.by = runs[r].by /\ rec.parent = runs[r].parent /\ rec.child = runs[r].child
      /\ rec.stage = runs[r].stage /\ rec.at = runs[r].at /\ rec.outcome = runs[r].outcome
      /\ rec.stopped = runs[r].stopped /\ rec.step = "awaiting"
  BY <1>2 DEF RunRecords
<1> HIDE DEF r, rec
<1>5. CASE GoesOn(r, Rest) \/ Conclude(r, "failed", Rest)
  <2>1. GoOn /\ Queues
    BY <1>2, <1>5, GoesOnPasses, ConcludePasses
  <2>2. runs'[r].step # "beginning"
    BY <1>2, <1>5, StepOver
  <2> QED  BY <1>2, <2>1, <2>2 DEF Hearing
<1>6. CASE runs' = [runs EXCEPT ![r] = rec] /\ jobs' = Rest
  <2>1. GoOn
    BY <1>2, <1>4, <1>6, StepGoesOn
  <2>2. runs'[r].step # "beginning"
    BY <1>2, <1>4, <1>6
  <2> QED  BY <1>2, <1>6, <2>1, <2>2, QueuesNone DEF Hearing
<1> QED  BY <1>3, <1>5, <1>6

LEMMA ChildEndedPasses ==
  ASSUME RunsInv, ChildEnded
  PROVE  GoOn /\ Queues /\ Hearing
<1> DEFINE r == Head(jobs).run
<1>1. Next1("childend")
  BY DEF ChildEnded
<1>2. /\ r \in DOMAIN runs /\ runs[r] \in RunRecords /\ Rest = Tail(jobs) /\ HeadIs("childend", r)
      /\ Stands(runs[r], Len(runs)) /\ \A other, q : HeadIs(other, q) => other = "childend" /\ q = r
  BY <1>1, NextSpoken
<1>3. \/ runs[r].step # "awaiting" /\ runs' = runs /\ jobs' = Rest
      \/ runs[r].step = "awaiting" /\ (GoesOn(r, Rest) \/ Conclude(r, "failed", Rest))
  BY <1>2 DEF ChildEnded
<1> HIDE DEF r
<1>4. CASE runs[r].step # "awaiting" /\ runs' = runs /\ jobs' = Rest
  BY <1>2, <1>4, SameGoOn, QueuesNone DEF Hearing
<1>5. CASE runs[r].step = "awaiting" /\ (GoesOn(r, Rest) \/ Conclude(r, "failed", Rest))
  <2>1. Spoken(r) /\ runs[r].stage = "stepping"
    BY <1>2, <1>5 DEF Spoken, Stands
  <2>2. GoOn /\ Queues
    BY <1>2, <1>5, <2>1, GoesOnPasses, ConcludePasses
  <2>3. runs'[r].step # "awaiting"
    BY <1>2, <1>5, StepOver
  <2> QED  BY <1>2, <2>2, <2>3 DEF Hearing
<1> QED  BY <1>3, <1>4, <1>5

LEMMA QuitPasses ==
  ASSUME RunsInv, Quit
  PROVE  GoOn /\ Queues /\ Hearing
<1> DEFINE r == Head(jobs).run
<1>1. Next1("quit")
  BY DEF Quit
<1>2. /\ r \in DOMAIN runs /\ Rest = Tail(jobs) /\ Spoken(r) /\ HeadIs("quit", r) /\ Head(jobs).do = "quit"
      /\ runs[r].stage = "stepping"
  BY <1>1, NextSpoken DEF Due, Carriers
<1>3. Conclude(r, "stopped", Rest)
  BY <1>2 DEF Quit
<1> HIDE DEF r
<1>4. GoOn /\ Queues
  BY <1>2, <1>3, ConcludePasses
<1> QED  BY <1>2, <1>4, HearsNothing

LEMMA StopChildPasses ==
  ASSUME RunsInv, StopChild
  PROVE  GoOn /\ Queues /\ Hearing
<1>1. Next1("stopchild")
  BY DEF StopChild
<1> DEFINE r == Head(jobs).run
           j == Job("quit", r)
           Live(q) == runs[q].of = Starts[runs[r].of] /\ HoldsParts(runs[q]) /\ runs[q].of \in Sequences
<1>2. /\ r \in DOMAIN runs /\ r \in Nat /\ Rest = Tail(jobs) /\ Spoken(r) /\ Head(jobs).do = "stopchild"
      /\ jobs # <<>> /\ \A other, q : HeadIs(other, q) => other = "stopchild" /\ q = r
      /\ \A q \in DOMAIN runs : runs[q] \in RunRecords
  BY <1>1, NextSpoken, Indices DEF Carriers, Next1
<1>3. \A p, q \in DOMAIN runs : Live(p) /\ Live(q) => p = q
  <2>1. OneEach(runs, running)
    BY <1>1, Called DEF Fit
  <2> QED  BY <2>1 DEF OneEach, HoldsParts
<1>4. \/ runs' = runs /\ jobs' = <<j>> \o Rest /\ \A q \in DOMAIN runs : ~Live(q)
      \/ \E q \in DOMAIN runs : Live(q) /\ runs' = Stopped(q) /\ jobs' = <<j>> \o Rest \o Wakes(q)
  BY <1>2 DEF StopChild, RunsOf, Holding, HoldsParts
<1>5. PutsFirst(<<j>>)
  <2>1. j \in AnyJob /\ j.do = "quit" /\ Put(j)
    BY <1>2 DEF AnyJob, Job, JobKinds, Put
  <2> HIDE DEF j
  <2> QED  BY <2>1, PutsOne
<1>6. ASSUME \A q \in DOMAIN runs : Live(q) => runs'[q].stopped
      PROVE  Hearing
  BY <1>2, <1>6 DEF Hearing
<1> HIDE DEF j
<1>7. CASE runs' = runs /\ jobs' = <<j>> \o Rest /\ \A q \in DOMAIN runs : ~Live(q)
  BY <1>5, <1>6, <1>7, SameGoOn, QueuesFirst
<1>8. ASSUME NEW q \in DOMAIN runs, Live(q), runs' = Stopped(q), jobs' = <<j>> \o Rest \o Wakes(q)
      PROVE  GoOn /\ Queues /\ Hearing
  <2> DEFINE rec == [runs[q] EXCEPT !.stopped = TRUE, !.step = IF Wakeable(q) THEN "woken" ELSE @]
  <2>1. runs' = [runs EXCEPT ![q] = rec] /\ runs[q] \in RunRecords
    BY <1>2, <1>8 DEF Stopped
  <2>2. /\ rec.of = runs[q].of /\ rec.by = runs[q].by /\ rec.parent = runs[q].parent /\ rec.child = runs[q].child
        /\ rec.stage = runs[q].stage /\ rec.at = runs[q].at /\ rec.outcome = runs[q].outcome
        /\ rec.stopped /\ rec.step = IF Wakeable(q) THEN "woken" ELSE runs[q].step
    BY <2>1 DEF RunRecords
  <2> HIDE DEF rec
  <2>3. Spoken(q)
    BY <1>2, <1>8 DEF Spoken
  <2>4. runs'[q] = rec
    BY <2>1
  <2>5. PutsLast(Wakes(q)) /\ (Wakeable(q) /\ runs[q].step = "awaiting" => Job("stopchild", q) \in In(Wakes(q)))
    BY <1>2, <2>2, <2>3, <2>4, WakesPuts
  <2>6. Queues /\ In(Wakes(q)) \subseteq In(jobs')
    BY <1>5, <1>8, <2>5, QueuesIn
  <2>7. GoesOnFrom(q, runs[q], rec)
    BY <1>2, <1>8, <2>1, <2>2, <2>3, <2>5, <2>6, StoppedGoesOn
  <2>8. GoOn
    BY <2>1, <2>7, OneGoesOn
  <2>9. \A p \in DOMAIN runs : Live(p) => runs'[p].stopped
    BY <1>3, <1>8, <2>2, <2>4
  <2> QED  BY <1>6, <2>6, <2>8, <2>9
<1> HIDE DEF r, Live
<1> QED  BY <1>4, <1>7, <1>8

LEMMA CaughtPasses ==
  ASSUME RunsInv, Caught
  PROVE  GoOn /\ Queues /\ Hearing
<1>1. Next1("caught")
  BY DEF Caught
<1> DEFINE r == Head(jobs).run
           n == runs[r].waiting
           more == [i \in 1..n |-> Job("fresh", r)]
<1>2. /\ r \in Nat /\ runs[r] \in RunRecords /\ Rest = Tail(jobs) /\ Head(jobs).do = "caught"
  BY <1>1, NextSpoken
<1>3. runs' = runs /\ jobs' = Rest \o more
  BY <1>2 DEF Caught
<1>4. n \in Nat /\ Job("fresh", r) \in AnyJob /\ Job("fresh", r).do = "fresh" /\ Put(Job("fresh", r))
  BY <1>2 DEF RunRecords, Job, AnyJob, JobKinds, Put, Carries, Carriers
<1>5. /\ DOMAIN more = 1..n /\ \A i \in DOMAIN more : more[i] = Job("fresh", r)
      /\ more \in Seq(AnyJob)
  <2>1. DOMAIN more = 1..n /\ \A i \in DOMAIN more : more[i] = Job("fresh", r)
    OBVIOUS
  <2> HIDE DEF AnyJob, Job, n
  <2>2. more \in Seq(AnyJob)
    BY <1>4
  <2> QED  BY <2>1, <2>2
<1> HIDE DEF more
<1>6. \A j \in In(more) : j = Job("fresh", r)
  BY <1>5 DEF In
<1>7. PutsLast(more)
  <2>1. \A p, c \in Nat : Precedes(more, Job("begun", p), Job("finally", c))
    BY <1>5 DEF Precedes, Job
  <2>2. \A j \in In(more) : j.do = "fresh" /\ Put(j)
    BY <1>4, <1>6
  <2> QED  BY <1>5, <2>1, <2>2 DEF PutsLast
<1> HIDE DEF r
<1> QED  BY <1>2, <1>3, <1>7, SameGoOn, QueuesLast, HearsNothing

LEMMA FreshPasses ==
  ASSUME RunsInv, Fresh
  PROVE  GoOn /\ Queues /\ Hearing
<1>1. Next1("fresh")
  BY DEF Fresh
<1> DEFINE r == Head(jobs).run
<1>2. Rest = Tail(jobs) /\ runs[r].of \in Automations /\ Head(jobs).do = "fresh"
  BY <1>1, NextSpoken DEF RunRecords
<1>3. \/ runs' = runs /\ jobs' = Rest
      \/ StartTriggered(runs[r].of, Rest)
  BY <1>2 DEF Fresh
<1> HIDE DEF r
<1> QED  BY <1>2, <1>3, SameGoOn, QueuesNone, StartTriggeredPasses, HearsNothing

LEMMA ThenPasses ==
  ASSUME RunsInv, Then
  PROVE  GoOn /\ Queues /\ Hearing
<1>1. Next1("then")
  BY DEF Then
<1> DEFINE r == Head(jobs).run
           heard == Awaited(r) /\ runs[r].at = 0
           j == Job("begun", runs[r].parent)
           k == Job("finally", r)
           more == (IF heard THEN <<j>> ELSE <<>>) \o <<k>>
<1>2. /\ r \in DOMAIN runs /\ r \in Nat /\ runs[r] \in RunRecords /\ Rest = Tail(jobs) /\ Spoken(r)
      /\ HeadIs("then", r) /\ \A other, q : HeadIs(other, q) => other = "then" /\ q = r
  BY <1>1, NextSpoken DEF Carriers
<1>3. runs' = runs /\ jobs' = Rest \o (IF heard THEN <<j>> ELSE <<>>) \o <<k>>
  BY <1>2 DEF Then
<1>4. runs[r].parent \in Nat
  BY <1>2 DEF RunRecords
<1>5. /\ j \in AnyJob /\ j.do = "begun" /\ (heard => Put(j))
      /\ k \in AnyJob /\ k.do = "finally" /\ Put(k)
  BY <1>2, <1>4 DEF AnyJob, Job, JobKinds, Put, HeadIs
<1>6. /\ PutsLast(more) /\ In(more) = (IF heard THEN {j} ELSE {}) \cup {k}
      /\ jobs' = Rest \o more
  <2>1. <<j>> \in Seq(AnyJob) /\ <<k>> \in Seq(AnyJob) /\ In(<<j>>) = {j} /\ In(<<k>>) = {k} /\ Rest \in Seq(AnyJob)
    <3>1. Rest \in Seq(AnyJob)
      BY KeptRest DEF Kept
    <3> HIDE DEF AnyJob, j, k, Rest
    <3> QED  BY <1>5, <3>1, OneOf
  <2>2. CASE heard
    <3>1. more = <<j>> \o <<k>> /\ jobs' = Rest \o <<j>> \o <<k>>
      BY <1>3, <2>2
    <3> HIDE DEF AnyJob, j, k, Rest, more
    <3>2. <<j, k>> = <<j>> \o <<k>>
      BY <1>5, Two
    <3>3. In(more) = {j} \cup {k}
      <4> DEFINE s == <<j>>
                 t == <<k>>
      <4>1. /\ s \in Seq(AnyJob) /\ t \in Seq(AnyJob) /\ In(s) = {j} /\ In(t) = {k}
            /\ more = s \o t
        BY <2>1, <3>1
      <4> HIDE DEF s, t
      <4> QED  BY <4>1, Joined
    <3>4. jobs' = Rest \o more
      BY <2>1, <3>1, ConcatAssociative
    <3>5. PutsLast(more)
      <4> USE DEF AnyJob
      <4>1. PutsLast(<<j, k>>)
        BY <1>5, <2>2, PutsTwo
      <4> QED  BY <3>1, <3>2, <4>1
    <3> QED  BY <2>2, <3>3, <3>4, <3>5
  <2>3. CASE ~heard
    <3>1. more = <<>> \o <<k>> /\ jobs' = Rest \o <<>> \o <<k>>
      BY <1>3, <2>3
    <3>2. PutsLast(<<k>>)
      <4> HIDE DEF k
      <4> QED  BY <1>5, PutsOne
    <3> HIDE DEF AnyJob, j, k, Rest, more
    <3>3. more = <<k>> /\ Rest \o <<>> = Rest
      <4>1. <<>> \o <<k>> = <<k>>
        BY <2>1
      <4>2. Rest \o <<>> = Rest
        BY <2>1
      <4> QED  BY <3>1, <4>1, <4>2
    <3>4. jobs' = Rest \o more
      BY <3>1, <3>3
    <3> QED  BY <2>1, <2>3, <3>2, <3>3, <3>4
  <2> QED  BY <2>2, <2>3
<1> HIDE DEF more
<1>7. Queues /\ In(more) \subseteq In(jobs')
  <2>1. Queues
    BY <1>6, QueuesLast
  <2>2. Rest \in Seq(AnyJob) /\ more \in Seq(AnyJob)
    BY <1>6, KeptRest DEF Kept, PutsLast
  <2>3. In(Rest \o more) = In(Rest) \cup In(more)
    <3> HIDE DEF AnyJob, Rest
    <3> QED  BY <2>2, Joined
  <2> QED  BY <1>6, <2>1, <2>3
<1>8. Hearing
  <2>1. k \in In(jobs') /\ (heard => j \in In(jobs'))
    BY <1>6, <1>7
  <2> HIDE DEF r
  <2> QED  BY <1>2, <2>1 DEF Hearing
<1> QED  BY <1>3, <1>7, <1>8, SameGoOn

LEMMA EndedTriggeredPasses ==
  ASSUME RunsInv, EndedTriggered
  PROVE  GoOn /\ Queues /\ Hearing
<1>1. Next1("ended")
  BY DEF EndedTriggered
<1> DEFINE r == Head(jobs).run
<1>2. /\ r \in DOMAIN runs /\ Rest = Tail(jobs) /\ Spoken(r) /\ HeadIs("ended", r) /\ Head(jobs).do = "ended"
      /\ runs[r].stage = "settled" /\ Rest \in Seq(AnyJob)
  BY <1>1, NextSpoken DEF Due, Carriers
<1>3. Rest \o <<>> = Rest
  <2> HIDE DEF AnyJob, Rest
  <2> QED  BY <1>2
<1>4. Ended(r, Rest \o <<>>)
  BY <1>2, <1>3 DEF EndedTriggered
<1> HIDE DEF r
<1>5. GoOn /\ Queues
  BY <1>2, <1>4, PutsNone, EndedPasses
<1> QED  BY <1>2, <1>5, HearsNothing

LEMMA FinallyPasses ==
  ASSUME RunsInv, Finally
  PROVE  GoOn /\ Queues /\ Hearing
<1>1. Next1("finally")
  BY DEF Finally
<1> DEFINE r == Head(jobs).run
           j == Job("childend", runs[r].parent)
           more == IF runs[r].parent # Nobody THEN <<j>> ELSE <<>>
<1>2. /\ r \in DOMAIN runs /\ runs[r] \in RunRecords /\ Rest = Tail(jobs) /\ Spoken(r) /\ HeadIs("finally", r)
      /\ runs[r].stage = "settled" /\ \A other, q : HeadIs(other, q) => other = "finally" /\ q = r
  BY <1>1, NextSpoken DEF Due, Carriers
<1>3. Ended(r, Rest \o more)
  BY <1>2 DEF Finally
<1>4. j \in AnyJob /\ j.do = "childend" /\ Put(j)
  <2>1. runs[r].parent \in Nat
    BY <1>2 DEF RunRecords
  <2> QED  BY <1>2, <2>1 DEF AnyJob, Job, JobKinds, Put, Carries, Carriers
<1>5. PutsLast(more) /\ (runs[r].parent # Nobody => j \in In(more))
  <2> HIDE DEF j, AnyJob, r
  <2>1. CASE runs[r].parent # Nobody
    BY <1>4, <2>1, PutsOne, OneOf
  <2>2. CASE runs[r].parent = Nobody
    BY <2>2, PutsNone
  <2> QED  BY <2>1, <2>2
<1> HIDE DEF r, more
<1>6. GoOn /\ Queues /\ In(more) \subseteq In(jobs') /\ runs'[r].stage = "over"
  BY <1>2, <1>3, <1>5, EndedPasses
<1>7. Hearing
  BY <1>2, <1>5, <1>6 DEF Hearing
<1> QED  BY <1>6, <1>7

-----------------------------------------------------------------------------
(* What comes from outside.                                                *)

LEMMA ComesPasses ==
  ASSUME RunsInv, NEW r \in DOMAIN runs, Comes(r) \/ Stop(r)
  PROVE  GoOn /\ Queues /\ Hearing
<1>0. Quiet
  BY DEF Comes, Decide, Answer, SendAgain, WaitOver, Stop
<1>1. /\ jobs = <<>> /\ Rest = jobs /\ Stands(runs[r], Len(runs)) /\ runs[r] \in RunRecords
      /\ runs \in Seq(RunRecords) /\ Spoken(r) /\ r \in Nat
  BY <1>0, Outside, JobsTyped DEF Rest, Spoken
<1>2. Hearing
  BY <1>1, HearsNothing
<1>3. CASE Decide(r)
  <2>1. runs[r].stage = "deciding" /\ (Begins(r, Rest) \/ Settle(r, "idle", RowAtEnd(r), Rest))
    BY <1>1, <1>3 DEF Decide
  <2>2. runs[r].stage \in Ahead
    BY <2>1 DEF Ahead
  <2> QED  BY <1>1, <1>2, <2>1, <2>2, BeginsPasses, SettlePasses
<1>4. CASE Answer(r)
  <2>1. /\ runs[r].step = "acting"
        /\ \/ runs[r].stage = "stepping" /\ GoesOn(r, Rest)
           \/ Conclude(r, "failed", Rest)
           \/ \E why \in {1, 2} : runs' = [runs EXCEPT ![r].step = "pausing", ![r].retried = why] /\ jobs' = Rest
    BY <1>1, <1>4 DEF Answer
  <2>2. runs[r].stage \in {"stepping", "falling"}
    BY <1>1, <2>1 DEF Stands
  <2>3. ASSUME NEW why \in {1, 2},
               runs' = [runs EXCEPT ![r].step = "pausing", ![r].retried = why] /\ jobs' = Rest
        PROVE  GoOn /\ Queues /\ Hearing
    <3> DEFINE rec == [runs[r] EXCEPT !.step = "pausing", !.retried = why]
    <3>1. runs' = [runs EXCEPT ![r] = rec]
      BY <2>3
    <3>2. /\ rec.of = runs[r].of /\ rec.by = runs[r].by /\ rec.parent = runs[r].parent /\ rec.child = runs[r].child
          /\ rec.stage = runs[r].stage /\ rec.step = "pausing" /\ rec.at = runs[r].at
          /\ rec.outcome = runs[r].outcome /\ rec.stopped = runs[r].stopped
      BY <1>1 DEF RunRecords
    <3> HIDE DEF rec
    <3>3. runs[r].step \in AtStep
      BY <2>1 DEF AtStep
    <3>4. GoOn
      BY <1>1, <3>1, <3>2, <3>3, StepGoesOn
    <3> QED  BY <1>2, <2>3, <3>4, QueuesNone
  <2> QED  BY <1>1, <1>2, <2>1, <2>2, <2>3, GoesOnPasses, ConcludePasses
<1>5. CASE SendAgain(r)
  <2> DEFINE rec == [runs[r] EXCEPT !.step = "acting"]
  <2>1. runs' = [runs EXCEPT ![r] = rec] /\ jobs' = Rest /\ runs[r].step = "pausing"
    BY <1>1, <1>5 DEF SendAgain
  <2>2. /\ rec.of = runs[r].of /\ rec.by = runs[r].by /\ rec.parent = runs[r].parent /\ rec.child = runs[r].child
        /\ rec.stage = runs[r].stage /\ rec.step = "acting" /\ rec.at = runs[r].at
        /\ rec.outcome = runs[r].outcome /\ rec.stopped = runs[r].stopped
    BY <1>1 DEF RunRecords
  <2> HIDE DEF rec
  <2>3. runs[r].step \in AtStep
    BY <2>1 DEF AtStep
  <2>4. GoOn
    BY <1>1, <2>1, <2>2, <2>3, StepGoesOn
  <2> QED  BY <1>2, <2>1, <2>4, QueuesNone
<1>6. CASE WaitOver(r)
  <2>1. \/ runs[r].step = "asleep" /\ GoesOn(r, Rest)
        \/ runs[r].step \in {"asleep", "awaiting", "pausing"} /\ Conclude(r, "failed", Rest)
    BY <1>1, <1>6 DEF WaitOver
  <2>2. /\ runs[r].stage \in {"stepping", "falling"}
        /\ runs[r].step = "asleep" => runs[r].stage = "stepping"
    BY <1>1, <2>1 DEF Stands
  <2> QED  BY <1>1, <1>2, <2>1, <2>2, GoesOnPasses, ConcludePasses
<1>7. CASE Stop(r)
  <2> DEFINE now == [runs[r] EXCEPT !.stopped = TRUE, !.step = IF Wakeable(r) THEN "woken" ELSE @]
  <2>1. runs' = [runs EXCEPT ![r] = now] /\ jobs' = Wakes(r) /\ HoldsParts(runs[r])
    BY <1>7 DEF Stop, Stopped, Holding, HoldsParts
  <2>2. /\ now.of = runs[r].of /\ now.by = runs[r].by /\ now.parent = runs[r].parent /\ now.child = runs[r].child
        /\ now.stage = runs[r].stage /\ now.step = (IF Wakeable(r) THEN "woken" ELSE runs[r].step)
        /\ now.at = runs[r].at /\ now.outcome = runs[r].outcome /\ now.stopped
    BY <1>1 DEF RunRecords
  <2> HIDE DEF now
  <2>3. runs'[r] = now
    BY <2>1
  <2>4. /\ PutsLast(Wakes(r))
        /\ Wakeable(r) /\ runs[r].step = "awaiting" => Job("stopchild", r) \in In(Wakes(r))
    BY <1>1, <2>2, <2>3, WakesPuts
  <2>5. jobs' = Rest \o Wakes(r)
    <3>1. Wakes(r) \in Seq(AnyJob)
      BY <2>4 DEF PutsLast
    <3> HIDE DEF AnyJob
    <3> QED  BY <1>1, <2>1, <3>1
  <2>6. GoesOnFrom(r, runs[r], now)
    BY <1>1, <2>1, <2>2, <2>4, StoppedGoesOn
  <2> QED  BY <1>2, <2>1, <2>4, <2>5, <2>6, OneGoesOn, QueuesLast
<1> QED  BY <1>3, <1>4, <1>5, <1>6, <1>7 DEF Comes

LEMMA TriggerPasses ==
  ASSUME RunsInv, NEW a \in Automations, NEW happening \in BOOLEAN, Trigger(a, happening)
  PROVE  GoOn /\ Queues /\ Hearing
<1>1. jobs = <<>> /\ Rest = jobs /\ runs \in Seq(RunRecords)
  <2>1. jobs = <<>>
    BY Outside DEF Trigger
  <2> QED  BY <2>1, JobsTyped DEF Rest
<1>2. Hearing
  BY <1>1, HearsNothing
<1>3. CASE StartTriggered(a, Rest)
  BY <1>2, <1>3, StartTriggeredPasses
<1>4. CASE runs' = runs /\ jobs' = Rest
  BY <1>2, <1>4, SameGoOn, QueuesNone
<1>5. ASSUME NEW r \in RunsOf(a),
             LET after == IF Holding(r) THEN Stopped(r) ELSE runs
             IN  runs' = [after EXCEPT ![r].waiting = @ + 1],
             jobs' = IF Holding(r) THEN Wakes(r) ELSE <<>>
      PROVE  GoOn /\ Queues
  <2>1. r \in DOMAIN runs /\ runs[r] \in RunRecords /\ r \in Nat /\ Spoken(r)
    BY <1>1, Indices DEF RunsOf, Spoken
  <2>2. CASE Holding(r)
    <3> DEFINE was == [runs[r] EXCEPT !.stopped = TRUE, !.step = IF Wakeable(r) THEN "woken" ELSE @]
               rec == [was EXCEPT !.waiting = @ + 1]
    <3>1. Stopped(r) = [runs EXCEPT ![r] = was]
      BY DEF Stopped
    <3>2. runs' = [Stopped(r) EXCEPT ![r] = [Stopped(r)[r] EXCEPT !.waiting = @ + 1]]
      BY <1>5, <2>2
    <3>3. Stopped(r)[r] = was
      BY <2>1, <3>1
    <3>4. runs' = [runs EXCEPT ![r] = rec]
      <4> HIDE DEF was, Stopped
      <4>1. runs' = [[runs EXCEPT ![r] = was] EXCEPT ![r] = rec]
        BY <3>1, <3>2, <3>3 DEF rec
      <4> HIDE DEF rec
      <4> QED  BY <4>1
    <3>5. /\ was.of = runs[r].of /\ was.by = runs[r].by /\ was.parent = runs[r].parent /\ was.child = runs[r].child
          /\ was.stage = runs[r].stage /\ was.step = (IF Wakeable(r) THEN "woken" ELSE runs[r].step)
          /\ was.at = runs[r].at /\ was.outcome = runs[r].outcome /\ was.stopped
      BY <2>1 DEF RunRecords
    <3>6. /\ rec.of = was.of /\ rec.by = was.by /\ rec.parent = was.parent /\ rec.child = was.child
          /\ rec.stage = was.stage /\ rec.step = was.step
          /\ rec.at = was.at /\ rec.outcome = was.outcome /\ rec.stopped = was.stopped
      BY <2>1 DEF RunRecords
    <3> HIDE DEF was, rec
    <3>7. runs'[r] = rec
      BY <2>1, <3>4
    <3>8. /\ PutsLast(Wakes(r))
          /\ Wakeable(r) /\ runs[r].step = "awaiting" => Job("stopchild", r) \in In(Wakes(r))
      BY <1>1, <2>1, <3>5, <3>6, <3>7, WakesPuts
    <3>9. jobs' = Wakes(r) /\ jobs' = Rest \o Wakes(r)
      <4>1. Wakes(r) \in Seq(AnyJob)
        BY <3>8 DEF PutsLast
      <4> HIDE DEF AnyJob
      <4> QED  BY <1>1, <1>5, <2>2, <4>1
    <3>10. HoldsParts(runs[r])
      BY <2>2 DEF Holding, HoldsParts
    <3>11. GoesOnFrom(r, runs[r], rec)
      BY <1>1, <2>1, <3>5, <3>6, <3>8, <3>9, <3>10, StoppedGoesOn
    <3> QED  BY <2>1, <3>4, <3>8, <3>9, <3>11, OneGoesOn, QueuesLast
  <2>3. CASE ~Holding(r)
    <3> DEFINE rec == [runs[r] EXCEPT !.waiting = @ + 1]
    <3>1. runs' = [runs EXCEPT ![r] = rec] /\ jobs' = Rest
      BY <1>1, <1>5, <2>3
    <3>2. Alike(runs[r], rec)
      BY <2>1 DEF RunRecords, Alike
    <3> HIDE DEF rec
    <3> QED  BY <2>1, <3>1, <3>2, AlikeGoesOn, OneGoesOn, QueuesNone
  <2> QED  BY <2>2, <2>3
<1>6. \/ StartTriggered(a, jobs)
      \/ runs' = runs /\ jobs' = jobs
      \/ \E r \in RunsOf(a) :
           /\ LET after == IF Holding(r) THEN Stopped(r) ELSE runs
              IN  runs' = [after EXCEPT ![r].waiting = @ + 1]
           /\ jobs' = IF Holding(r) THEN Wakes(r) ELSE <<>>
  BY DEF Trigger
<1> QED  BY <1>1, <1>2, <1>3, <1>4, <1>5, <1>6

LEMMA PlayPasses ==
  ASSUME RunsInv, NEW a \in Automations, Play(a)
  PROVE  GoOn /\ Queues /\ Hearing
<1> DEFINE new == NewRun(a, "person", Nobody)
           first == <<Job("run", Len(runs) + 1)>>
<1>1. jobs = <<>> /\ Rest = jobs /\ runs \in Seq(RunRecords)
  <2>1. jobs = <<>>
    BY Outside DEF Play
  <2> QED  BY <2>1, JobsTyped DEF Rest
<1>2. runs' = Append(runs, new) /\ jobs' = first
  BY DEF Play
<1>3. new \in RunRecords /\ Born(new) /\ PutsFirst(first)
  BY BornAlone
<1> HIDE DEF new, first
<1>4. jobs' = first \o Rest
  <2>1. first \in Seq(AnyJob)
    BY <1>3 DEF PutsFirst
  <2> HIDE DEF AnyJob
  <2> QED  BY <1>1, <1>2, <2>1
<1> QED  BY <1>1, <1>2, <1>3, <1>4, NewGoesOn, QueuesFirst, HearsNothing

LEMMA DeletePasses ==
  ASSUME RunsInv, NEW a \in Automations, Delete(a)
  PROVE  GoOn /\ Queues /\ Hearing
<1> DEFINE rowless == [q \in DOMAIN runs |->
                        IF runs[q].of = a /\ runs[q].row # "none" THEN [runs[q] EXCEPT !.row = "gone"] ELSE runs[q]]
<1>1. /\ jobs = <<>> /\ Rest = jobs
      /\ \A q \in DOMAIN runs : runs[q] \in RunRecords /\ q \in Nat
  <2>1. jobs = <<>> /\ \A q \in DOMAIN runs : runs[q] \in RunRecords
    BY Outside DEF Delete
  <2> QED  BY <2>1, JobsTyped DEF Rest
<1>0. Hearing
  BY <1>1, HearsNothing
<1>2. ASSUME NEW q \in DOMAIN runs
      PROVE  Alike(runs[q], rowless[q]) /\ rowless[q] \in RunRecords
  <2>1. runs[q] \in RunRecords
    BY <1>1, <1>2
  <2>2. rowless[q] = runs[q] \/ rowless[q] = [runs[q] EXCEPT !.row = "gone"]
    BY <1>2
  <2> HIDE DEF rowless
  <2>3. CASE rowless[q] = [runs[q] EXCEPT !.row = "gone"]
    BY <2>1, <2>3 DEF RunRecords, Alike
  <2> QED  BY <2>1, <2>2, <2>3 DEF Alike
<1>4. CASE runs' = rowless /\ jobs' = jobs
  <2>1. DOMAIN runs' = DOMAIN runs
    BY <1>4
  <2> HIDE DEF rowless
  <2>2. \A q \in DOMAIN runs : Alike(runs[q], runs'[q])
    BY <1>2, <1>4
  <2> QED  BY <1>0, <1>1, <1>4, <2>1, <2>2, AllAlikeGoOn, QueuesNone
<1>5. ASSUME NEW r \in Forgotten(a), jobs' = Wakes(r),
             runs' = [rowless EXCEPT ![r].gone = TRUE, ![r].stopped = TRUE, ![r].step = Stopped(r)[r].step]
      PROVE  GoOn /\ Queues
  <2> DEFINE step == Stopped(r)[r].step
             now == [rowless[r] EXCEPT !.gone = TRUE, !.stopped = TRUE, !.step = step]
  <2>1. runs' = [rowless EXCEPT ![r] = now] /\ DOMAIN rowless = DOMAIN runs
    BY <1>5
  <2>2. r \in DOMAIN runs /\ r \in Nat /\ HoldsParts(runs[r]) /\ Spoken(r) /\ runs[r] \in RunRecords
    BY <1>1, <1>5 DEF Forgotten, RunsOf, HoldsParts, Holding, Spoken
  <2>3. step = IF Wakeable(r) THEN "woken" ELSE runs[r].step
    BY <2>2 DEF Stopped, RunRecords
  <2> HIDE DEF rowless, step
  <2>4. Alike(runs[r], rowless[r]) /\ rowless[r] \in RunRecords
    BY <1>2, <2>2
  <2>5. /\ now.of = rowless[r].of /\ now.by = rowless[r].by /\ now.parent = rowless[r].parent
        /\ now.child = rowless[r].child /\ now.stage = rowless[r].stage /\ now.step = step
        /\ now.at = rowless[r].at /\ now.outcome = rowless[r].outcome /\ now.stopped
    BY <2>4 DEF RunRecords
  <2> HIDE DEF now
  <2>6. /\ DOMAIN runs' = DOMAIN runs
        /\ \A q \in DOMAIN runs : runs'[q] = IF q = r THEN now ELSE rowless[q]
    BY <2>1
  <2>7. /\ now.of = runs[r].of /\ now.by = runs[r].by /\ now.parent = runs[r].parent
        /\ now.child = runs[r].child /\ now.stage = runs[r].stage
        /\ now.step = (IF Wakeable(r) THEN "woken" ELSE runs[r].step)
        /\ now.at = runs[r].at /\ now.outcome = runs[r].outcome
    BY <2>3, <2>4, <2>5 DEF Alike
  <2>8. /\ PutsLast(Wakes(r))
        /\ Wakeable(r) /\ runs[r].step = "awaiting" => Job("stopchild", r) \in In(Wakes(r))
    BY <1>1, <2>2, <2>6, <2>7, WakesPuts
  <2>9. jobs' = Rest \o Wakes(r)
    <3>1. Wakes(r) \in Seq(AnyJob)
      BY <2>8 DEF PutsLast
    <3> HIDE DEF AnyJob
    <3> QED  BY <1>1, <1>5, <3>1
  <2>10. GoesOnFrom(r, runs[r], now)
    BY <1>1, <1>5, <2>2, <2>5, <2>7, <2>8, StoppedGoesOn
  <2>11. GoOn
    BY <1>2, <2>6, <2>10, AlikeGoesOn DEF GoOn
  <2> QED  BY <2>8, <2>9, <2>11, QueuesLast
<1>6. \/ runs' = rowless /\ jobs' = jobs
      \/ \E r \in Forgotten(a) :
           /\ runs' = [rowless EXCEPT ![r].gone = TRUE, ![r].stopped = TRUE, ![r].step = Stopped(r)[r].step]
           /\ jobs' = Wakes(r)
  BY DEF Delete
<1> HIDE DEF rowless
<1> QED  BY <1>0, <1>4, <1>5, <1>6

LEMMA BootPasses ==
  ASSUME RunsInv, Boot
  PROVE  GoOn /\ Queues /\ Hearing
<1>1. jobs = <<>> /\ Rest = jobs /\ jobs' = jobs /\ runs \in Seq(RunRecords)
  BY JobsTyped DEF Boot, RunsInv, Idle, Rest
<1>2. /\ DOMAIN runs' = DOMAIN runs
      /\ \A q \in DOMAIN runs :
           runs'[q] = IF Unended(q) THEN [runs[q] EXCEPT !.row = "interrupted"] ELSE runs[q]
  BY DEF Boot
<1>3. ASSUME NEW q \in DOMAIN runs
      PROVE  Alike(runs[q], runs'[q])
  <2>1. runs[q] \in RunRecords
    BY <1>1, Indices
  <2> QED  BY <1>2, <2>1 DEF RunRecords, Alike
<1> QED  BY <1>1, <1>2, <1>3, AllAlikeGoOn, QueuesNone, HearsNothing

\* Whatever happens but a stop of the server, the runs go on, callbacks are put, and who is called hears.
LEMMA Passing ==
  ASSUME RunsInv, Next, ~Crash
  PROVE  GoOn /\ Queues /\ Hearing
<1>1. CASE Call
  BY <1>1, RunPasses, WalkPasses, AttachPasses, BegunPasses, ChildEndedPasses, QuitPasses, StopChildPasses,
     CaughtPasses, FreshPasses, ThenPasses, EndedTriggeredPasses, FinallyPasses DEF Call
<1>2. ASSUME NEW a \in Automations, Turn(a) \/ LaterOn(a)
      PROVE  GoOn /\ Queues /\ Hearing
  <2>1. jobs = <<>> /\ runs' = runs /\ jobs' = jobs
    BY <1>2, Outside DEF Turn, LaterOn
  <2>2. jobs' = Rest
    BY <2>1 DEF Rest
  <2> QED  BY <2>1, <2>2, SameGoOn, QueuesNone, HearsNothing
<1> QED  BY <1>1, <1>2, ComesPasses, TriggerPasses, PlayPasses, DeletePasses, BootPasses DEF Next

-----------------------------------------------------------------------------
(* What the callbacks to come say of the runs.                             *)

\* Each stands where its callbacks say, is carried on by one of them at most, and is the one run
\* of its automation that is under way.
Knows(js, rs) ==
  /\ \A j \in In(js) : j.run \in DOMAIN rs /\ Due(j.do, rs[j.run])
  /\ \A j, k \in In(js) : Carries(j) /\ Carries(k) /\ j.run = k.run => j = k
  /\ \A r \in DOMAIN rs : Stands(rs[r], Len(rs)) /\ rs[r] \in RunRecords /\ r \in Nat /\ r <= Len(rs)
  /\ \A p, q \in DOMAIN rs : rs[p].of = rs[q].of /\ rs[p].stage # "over" /\ rs[q].stage # "over" => p = q
  /\ \A r \in DOMAIN rs : Job("begun", r) \in In(js) /\ rs[r].child \in DOMAIN rs /\ rs[rs[r].child].at = 0
       => rs[rs[r].child].stage \in {"settled", "over"}

LEMMA FitKnows ==
  ASSUME NEW js, NEW rs, NEW live, Fit(js, rs, live)
  PROVE  Knows(js, rs)
<1> DEFINE S == [do : JobKinds, run : DOMAIN rs]
<1>1. rs \in Seq(RunRecords) /\ js \in Seq(S) /\ Once(js) /\ OneEach(rs, live) /\ HeardOnce(js, rs)
  BY DEF Fit, Sound
<1>2. \A j \in In(js) : j.run \in DOMAIN rs /\ Due(j.do, rs[j.run])
  <2>1. \A i \in DOMAIN js : js[i] \in S
    <3> HIDE DEF S
    <3> QED  BY <1>1, LenProperties, ElementOfSeq
  <2> QED  BY <2>1 DEF In, Fit, Sound
<1>3. \A j, k \in In(js) : Carries(j) /\ Carries(k) /\ j.run = k.run => j = k
  BY <1>1 DEF Once, In
<1>4. \A r \in DOMAIN rs : Stands(rs[r], Len(rs)) /\ rs[r] \in RunRecords /\ r \in Nat /\ r <= Len(rs)
  BY <1>1, Indices DEF Fit
<1>5. \A p, q \in DOMAIN rs : rs[p].of = rs[q].of /\ rs[p].stage # "over" /\ rs[q].stage # "over" => p = q
  BY <1>1 DEF OneEach
<1>6. ASSUME NEW r \in DOMAIN rs, Job("begun", r) \in In(js), rs[r].child \in DOMAIN rs, rs[rs[r].child].at = 0
      PROVE  rs[rs[r].child].stage \in {"settled", "over"}
  <2>1. Job("begun", r).do = "begun" /\ Job("begun", r).run = r
    BY DEF Job
  <2>2. rs[rs[r].child].at > 0 \/ rs[rs[r].child].stage \in {"settled", "over"}
    BY <1>1, <1>6, <2>1 DEF HeardOnce
  <2> QED  BY <1>6, <2>2
<1> QED  BY <1>2, <1>3, <1>4, <1>5, <1>6 DEF Knows

\* So it is while the server is down, and nothing is under way.
LEMMA DownKnows ==
  ASSUME NEW rs \in Seq(RunRecords), \A r \in DOMAIN rs : rs[r].stage = "over" /\ Stands(rs[r], Len(rs))
  PROVE  Knows(<<>>, rs)
<1>1. In(<<>>) = {}
  BY DEF In
<1> QED  BY <1>1, Indices DEF Knows

LEMMA AllKnown ==
  ASSUME RunsInv
  PROVE  Knows(jobs, runs)
<1>1. CASE up
  BY <1>1, FitKnows DEF RunsInv
<1>2. CASE ~up
  <2>1. jobs = <<>> /\ runs \in Seq(RunRecords) /\ \A r \in DOMAIN runs : runs[r].stage = "over" /\ Stands(runs[r], Len(runs))
    BY <1>2 DEF RunsInv, TypeOK, Idle, Active
  <2> QED  BY <2>1, DownKnows
<1> QED  BY <1>1, <1>2

LEMMA AllKnownNext ==
  ASSUME RunsInv'
  PROVE  Knows(jobs', runs') /\ runs' \in Seq(RunRecords)
<1>1. CASE up'
  <2>1. Fit(jobs', runs', running')
    BY <1>1 DEF RunsInv
  <2>2. runs' \in Seq(RunRecords)
    BY <2>1 DEF Fit
  <2> QED  BY <2>1, <2>2, FitKnows
<1>2. CASE ~up'
  <2>1. jobs' = <<>> /\ runs' \in Seq(RunRecords) /\ \A r \in DOMAIN runs' : runs'[r].stage = "over" /\ Stands(runs'[r], Len(runs'))
    BY <1>2 DEF RunsInv, TypeOK, Idle, Active
  <2> QED  BY <2>1, DownKnows
<1> QED  BY <1>1, <1>2

\* What becomes of the callbacks to come, and of their order.
LEMMA Queued ==
  ASSUME RunsInv, Queues
  PROVE  /\ \A j \in In(jobs) : j \in In(jobs') \/ (jobs # <<>> /\ j = Head(jobs))
         /\ \A j \in In(jobs') : j \in In(Rest) \/ Put(j)
         /\ In(Rest) \subseteq In(jobs) /\ In(Rest) \subseteq In(jobs')
         /\ \A r, c \in Nat : Precedes(jobs, Job("attach", r), Job("then", c))
              => Precedes(jobs', Job("attach", r), Job("then", c))
         /\ \A r, c \in Nat : /\ Precedes(jobs, Job("begun", r), Job("finally", c))
                              /\ Job("finally", c) \in In(Rest) => ~Put(Job("begun", r))
              => Precedes(jobs', Job("begun", r), Job("finally", c))
         /\ \A j, k \in In(jobs') : /\ j.do = "stopchild" /\ k.do = "stopchild"
                                    /\ j \notin In(Rest) /\ k \notin In(Rest)
              => j = k
<1> PICK f, b \in Seq(AnyJob) : jobs' = f \o Rest \o b /\ PutsFirst(f) /\ PutsLast(b)
  BY DEF Queues
<1>1. /\ In(jobs') = In(f) \cup In(Rest) \cup In(b)
      /\ \A j, k : /\ Precedes(f, j, k) /\ Precedes(Rest, j, k) /\ Precedes(b, j, k)
                   /\ k \in In(f) => j \notin In(Rest) \cup In(b)
                   /\ k \in In(Rest) => j \notin In(b)
                   => Precedes(jobs', j, k)
  BY PutsIn
<1>2. /\ jobs = <<>> => In(jobs) = {} /\ In(Rest) = {}
      /\ jobs # <<>> => In(jobs) = {Head(jobs)} \cup In(Rest)
      /\ \A j, k : Precedes(jobs, j, k) => Precedes(Rest, j, k)
  BY RestIn
<1>3. \A js, j, k : j \notin In(js) \/ k \notin In(js) => Precedes(js, j, k)
  BY DEF In, Precedes
<1>4. /\ \A j \in In(f) : j.do \in {"run", "walk", "attach", "quit"} /\ Put(j)
      /\ \A j \in In(b) : j.do # "attach" /\ Put(j)
      /\ \A r, c \in Nat : Precedes(b, Job("begun", r), Job("finally", c))
      /\ \A j, k \in In(b) : j.do = "stopchild" /\ k.do = "stopchild" => j = k
  BY DEF PutsFirst, PutsLast
<1>5. \A do, r : Job(do, r).do = do
  BY DEF Job
<1>6. ASSUME NEW r \in Nat, NEW c \in Nat, Precedes(jobs, Job("attach", r), Job("then", c))
      PROVE  Precedes(jobs', Job("attach", r), Job("then", c))
  <2>1. Job("then", c) \notin In(f) /\ Job("attach", r) \notin In(b)
    BY <1>4, <1>5
  <2> QED  BY <1>1, <1>2, <1>3, <1>6, <2>1
<1>7. ASSUME NEW r \in Nat, NEW c \in Nat, Precedes(jobs, Job("begun", r), Job("finally", c)),
             Job("finally", c) \in In(Rest) => ~Put(Job("begun", r))
      PROVE  Precedes(jobs', Job("begun", r), Job("finally", c))
  <2>1. Job("finally", c) \notin In(f)
    <3>1. Job("finally", c).do = "finally"
      BY <1>5
    <3> QED  BY <1>4, <3>1
  <2>2. Job("finally", c) \in In(Rest) => Job("begun", r) \notin In(b)
    BY <1>4, <1>7
  <2> QED  BY <1>1, <1>2, <1>3, <1>4, <1>7, <2>1, <2>2
<1> HIDE DEF Rest
<1>8. \A j, k \in In(jobs') : /\ j.do = "stopchild" /\ k.do = "stopchild"
                              /\ j \notin In(Rest) /\ k \notin In(Rest)
        => j = k
  BY <1>1, <1>4
<1> QED  BY <1>1, <1>2, <1>4, <1>6, <1>7, <1>8

-----------------------------------------------------------------------------
(* What runs that wait for others rest on.                                 *)

\* Who started whom, and what each has come to.
Kin ==
  \A r \in DOMAIN runs :
    /\ runs[r].stage = "deciding" => runs[r].child = Nobody
    /\ HoldsParts(runs[r]) => runs[r].at > 0
    /\ runs[r].child # Nobody =>
         /\ runs[r].child \in DOMAIN runs /\ runs[r].child > r /\ runs[runs[r].child].parent = r
         /\ runs[runs[r].child].by = "run" /\ runs[runs[r].child].of = Starts[runs[r].of]
    /\ runs[r].parent # Nobody =>
         runs[r].parent \in DOMAIN runs /\ runs[r].by = "run" /\ runs[r].of = Starts[runs[runs[r].parent].of]

\* The end of a run is followed up.
FollowedUp ==
  /\ \A r \in DOMAIN runs : runs[r].stage = "settled" /\ runs[r].by # "trigger" =>
       Job("then", r) \in In(jobs) \/ Job("finally", r) \in In(jobs)
  /\ \A r \in DOMAIN runs : Job("ended", r) \in In(jobs) => runs[r].by = "trigger"

LEMMA KinStep ==
  ASSUME RunsInv, GoOn, Kin
  PROVE  Kin'
<1>1. runs \in Seq(RunRecords) /\ Len(runs) \in Nat /\ \A q \in DOMAIN runs : q \in Nat /\ q <= Len(runs)
  BY JobsTyped, Indices
<1>2. /\ \A q \in DOMAIN runs : q \in DOMAIN runs' /\ StageOn(q, runs[q], runs'[q]) /\ ChildOn(q, runs[q], runs'[q])
      /\ \A q \in DOMAIN runs' : q \notin DOMAIN runs => q = Len(runs) + 1 /\ Born(runs'[q])
  BY DEF GoOn, GoesOnFrom
<1>3. \A q \in DOMAIN runs : runs'[q].of = runs[q].of /\ runs'[q].by = runs[q].by /\ runs'[q].parent = runs[q].parent
  BY <1>2 DEF StageOn
<1>4. ASSUME NEW r \in DOMAIN runs
      PROVE  /\ runs'[r].stage = "deciding" => runs'[r].child = Nobody
             /\ HoldsParts(runs'[r]) => runs'[r].at > 0
  <2>1. runs'[r].stage = "deciding" => runs'[r].child = Nobody
    BY <1>2 DEF StageOn, ChildOn, Kin
  <2>2. HoldsParts(runs'[r]) => runs'[r].at > 0
    BY <1>2 DEF StageOn, Kin
  <2> QED  BY <2>1, <2>2
<1>5. ASSUME NEW r \in DOMAIN runs, runs'[r].child # Nobody
      PROVE  /\ runs'[r].child \in DOMAIN runs' /\ runs'[r].child > r /\ runs'[runs'[r].child].parent = r
             /\ runs'[runs'[r].child].by = "run" /\ runs'[runs'[r].child].of = Starts[runs'[r].of]
  <2>1. CASE runs'[r].child = runs[r].child
    BY <1>2, <1>3, <1>5, <2>1 DEF Kin
  <2>2. CASE runs'[r].child # runs[r].child
    <3>1. /\ runs'[r].child = Len(runs) + 1 /\ runs'[r].child \in DOMAIN runs' /\ runs'[runs'[r].child].parent = r
          /\ runs'[runs'[r].child].by = "run" /\ runs'[runs'[r].child].of = Starts[runs[r].of]
      BY <1>2, <1>5, <2>2 DEF ChildOn
    <3>2. Len(runs) + 1 > r
      BY <1>1
    <3> QED  BY <1>3, <3>1, <3>2
  <2> QED  BY <2>1, <2>2
<1>6. ASSUME NEW r \in DOMAIN runs, runs'[r].parent # Nobody
      PROVE  runs'[r].parent \in DOMAIN runs' /\ runs'[r].by = "run" /\ runs'[r].of = Starts[runs'[runs'[r].parent].of]
  BY <1>2, <1>3, <1>6 DEF Kin
<1>7. ASSUME NEW r \in DOMAIN runs', r \notin DOMAIN runs
      PROVE  /\ ~HoldsParts(runs'[r]) /\ runs'[r].child = Nobody
             /\ runs'[r].parent # Nobody =>
                  runs'[r].parent \in DOMAIN runs' /\ runs'[r].by = "run" /\ runs'[r].of = Starts[runs'[runs'[r].parent].of]
  BY <1>2, <1>3, <1>7 DEF Born, HoldsParts
<1> QED  BY <1>4, <1>5, <1>6, <1>7 DEF Kin

LEMMA FollowedUpStep ==
  ASSUME RunsInv, GoOn, Queues, Hearing, FollowedUp
  PROVE  FollowedUp'
<1>1. /\ \A q \in DOMAIN runs : q \in DOMAIN runs' /\ StageOn(q, runs[q], runs'[q])
      /\ \A q \in DOMAIN runs' : q \notin DOMAIN runs => q = Len(runs) + 1 /\ Born(runs'[q])
  BY DEF GoOn, GoesOnFrom
<1>2. /\ \A j \in In(jobs) : j \in In(jobs') \/ (jobs # <<>> /\ j = Head(jobs))
      /\ \A j \in In(jobs') : j \in In(jobs) \/ Put(j)
  BY Queued
<1>3. \A j \in In(jobs) : j.run \in DOMAIN runs
  BY JobsTyped
<1>4. ASSUME NEW r \in DOMAIN runs', runs'[r].stage = "settled", runs'[r].by # "trigger"
      PROVE  Job("then", r) \in In(jobs') \/ Job("finally", r) \in In(jobs')
  <2>1. r \in DOMAIN runs /\ runs[r].by # "trigger"
    BY <1>1, <1>4 DEF Born, StageOn
  <2>2. CASE runs[r].stage # "settled"
    BY <1>1, <1>4, <2>1, <2>2 DEF StageOn
  <2>3. CASE HeadIs("then", r)
    BY <2>1, <2>3 DEF Hearing
  <2>4. CASE HeadIs("finally", r)
    BY <1>4, <2>1, <2>4 DEF Hearing
  <2>5. CASE runs[r].stage = "settled" /\ ~HeadIs("then", r) /\ ~HeadIs("finally", r)
    BY <1>2, <2>1, <2>5 DEF FollowedUp, HeadIs
  <2> QED  BY <2>2, <2>3, <2>4, <2>5
<1>5. ASSUME NEW r \in DOMAIN runs', Job("ended", r) \in In(jobs')
      PROVE  runs'[r].by = "trigger"
  <2>1. Job("ended", r).do = "ended" /\ Job("ended", r).run = r
    BY DEF Job
  <2>2. r \in DOMAIN runs /\ runs[r].by = "trigger"
    <3>1. CASE Job("ended", r) \in In(jobs)
      BY <1>3, <2>1, <3>1 DEF FollowedUp
    <3>2. CASE Put(Job("ended", r))
      BY <2>1, <3>2 DEF Put
    <3> QED  BY <1>2, <1>5, <3>1, <3>2
  <2> QED  BY <1>1, <2>2 DEF StageOn
<1> QED  BY <1>4, <1>5 DEF FollowedUp

\* One that starts another hears that it has begun only after it has listened.
Starting ==
  \A r \in DOMAIN runs : runs[r].step = "starting" =>
    LET c == runs[r].child IN
    /\ Job("attach", r) \in In(jobs) /\ runs[c].stage # "over" /\ Job("finally", c) \notin In(jobs)
    /\ Precedes(jobs, Job("attach", r), Job("then", c))

\* One that waits for another to have begun hears of it, before that one is over.
Beginning ==
  \A r \in DOMAIN runs : runs[r].step = "beginning" =>
    LET c == runs[r].child IN
    /\ runs[c].stage # "over" /\ Precedes(jobs, Job("begun", r), Job("finally", c))
    /\ \/ Job("begun", r) \in In(jobs)
       \/ /\ Job("finally", c) \notin In(jobs)
          /\ runs[c].stage = "deciding" \/ (runs[c].at = 0 /\ Job("then", c) \in In(jobs))

\* One that waits for the end of another hears of it.
Awaiting ==
  \A r \in DOMAIN runs : runs[r].step = "awaiting" =>
    LET c == runs[r].child IN
    /\ c # Nobody /\ runs[c].stage # "deciding"
    /\ \/ HoldsParts(runs[c]) \/ Job("then", c) \in In(jobs) \/ Job("finally", c) \in In(jobs)
       \/ Job("childend", r) \in In(jobs)

\* What a step does to the run that another one started.
LEMMA ChildGoesOn ==
  ASSUME RunsInv, GoOn, Kin, FollowedUp, NEW r \in DOMAIN runs, NEW c, c = runs[r].child, c # Nobody
  PROVE  /\ c \in DOMAIN runs /\ c # r /\ c \in Nat /\ r \in Nat /\ runs[c].parent = r /\ runs[c].by # "trigger"
         /\ runs[c].of = Starts[runs[r].of] /\ StageOn(c, runs[c], runs'[c])
         /\ Stands(runs[c], Len(runs)) /\ runs[c] \in RunRecords
         /\ runs[c].stage # "over" /\ ~HeadIs("finally", c) => runs'[c].stage # "over"
<1>1. /\ c \in DOMAIN runs /\ c > r /\ runs[c].parent = r /\ runs[c].by = "run" /\ runs[c].of = Starts[runs[r].of]
  BY DEF Kin
<1>2. StageOn(c, runs[c], runs'[c])
  BY <1>1 DEF GoOn, GoesOnFrom
<1>3. c \in Nat /\ r \in Nat /\ Stands(runs[c], Len(runs)) /\ runs[c] \in RunRecords
  BY <1>1, AllKnown DEF Knows
<1>4. ~HeadIs("ended", c)
  <2> SUFFICES ASSUME HeadIs("ended", c) PROVE FALSE
    OBVIOUS
  <2>1. Job("ended", c) \in In(jobs)
    BY RestIn DEF HeadIs
  <2> QED  BY <1>1, <2>1 DEF FollowedUp
<1> QED  BY <1>1, <1>2, <1>3, <1>4 DEF StageOn

\* The one who is called, and why no other run than those that a step is about goes on.
LEMMA HeadKnown ==
  ASSUME RunsInv, NEW do, NEW r, HeadIs(do, r)
  PROVE  /\ r \in DOMAIN runs /\ Due(do, runs[r]) /\ Job(do, r) \in In(jobs) /\ jobs # <<>>
         /\ Head(jobs).do = do /\ Head(jobs).run = r
         /\ \A other, q : HeadIs(other, q) => other = do /\ q = r
         /\ do \in Carriers => \A j \in In(Rest) : Carries(j) => j.run # r
<1>1. Head(jobs) = Job(do, r) /\ jobs # <<>> /\ Job(do, r) \in In(jobs)
  BY RestIn DEF HeadIs
<1>2. Job(do, r).do = do /\ Job(do, r).run = r
  BY DEF Job
<1>3. r \in DOMAIN runs /\ Due(do, runs[r])
  BY <1>1, <1>2, AllKnown DEF Knows
<1>4. \A other, q : HeadIs(other, q) => other = do /\ q = r
  BY <1>1, <1>2 DEF HeadIs, Job
<1>5. Next1(do)
  <2>1. up
    BY <1>1 DEF RunsInv, Idle
  <2> QED  BY <1>1, <1>2, <2>1 DEF Next1
<1>6. do \in Carriers => r \notin Carried(Tail(jobs))
  BY <1>1, <1>2, <1>5, Called
<1>7. do \in Carriers => \A j \in In(Rest) : Carries(j) => j.run # r
  BY <1>1, <1>6 DEF Rest, Carried
<1> QED  BY <1>1, <1>2, <1>3, <1>4, <1>7

LEMMA StartingStep ==
  ASSUME RunsInv, RunsInv', GoOn, Queues, Hearing, Kin, FollowedUp, Starting
  PROVE  Starting'
<1>1. Knows(jobs', runs') /\ Knows(jobs, runs)
  BY AllKnown, AllKnownNext
<1>2. /\ \A j \in In(jobs) : j \in In(jobs') \/ (jobs # <<>> /\ j = Head(jobs))
      /\ \A j \in In(jobs') : j \in In(jobs) \/ Put(j)
      /\ \A p, c \in Nat : Precedes(jobs, Job("attach", p), Job("then", c))
              => Precedes(jobs', Job("attach", p), Job("then", c))
  BY Queued
<1> SUFFICES ASSUME NEW r \in DOMAIN runs', runs'[r].step = "starting", NEW c, c = runs'[r].child
             PROVE  /\ Job("attach", r) \in In(jobs') /\ runs'[c].stage # "over" /\ Job("finally", c) \notin In(jobs')
                    /\ Precedes(jobs', Job("attach", r), Job("then", c))
  BY DEF Starting
<1>3. r \in DOMAIN runs /\ ChildOn(r, runs[r], runs'[r]) /\ StepOn(r, runs[r], runs'[r])
  BY DEF GoOn, GoesOnFrom, Born
<1>4. Job("attach", r) \in In(jobs')
  <2>1. CASE runs[r].step # "starting"
    BY <1>3, <2>1 DEF StepOn
  <2>2. CASE runs[r].step = "starting"
    <3>1. ~HeadIs("attach", r)
      BY <1>3 DEF Hearing
    <3> QED  BY <1>2, <1>3, <2>2, <3>1 DEF Starting, HeadIs
  <2> QED  BY <2>1, <2>2
<1>5. CASE c = Len(runs) + 1 /\ c \in DOMAIN runs'
  <2>1. c \notin DOMAIN runs
    <3>1. runs \in Seq(RunRecords)
      BY JobsTyped
    <3> QED  BY <1>5, <3>1, Indices
  <2>2. runs'[c].stage = "deciding"
    BY <1>5, <2>1 DEF GoOn, Born
  <2>3. Job("finally", c) \notin In(jobs') /\ Job("then", c) \notin In(jobs')
    <3>1. /\ Job("finally", c).do = "finally" /\ Job("finally", c).run = c
          /\ Job("then", c).do = "then" /\ Job("then", c).run = c
      BY DEF Job
    <3> QED  BY <1>1, <2>2, <3>1 DEF Knows, Due
  <2> QED  BY <1>4, <2>2, <2>3 DEF Precedes, In
<1>6. CASE c = runs[r].child /\ runs[r].step = "starting"
  <2>1. c # Nobody
    BY <1>1, <1>3, <1>6 DEF Knows, Stands
  <2>2. /\ Job("attach", r) \in In(jobs) /\ runs[c].stage # "over" /\ Job("finally", c) \notin In(jobs)
        /\ Precedes(jobs, Job("attach", r), Job("then", c))
    BY <1>3, <1>6 DEF Starting
  <2>3. /\ c \in Nat /\ r \in Nat
        /\ runs[c].stage # "over" /\ ~HeadIs("finally", c) => runs'[c].stage # "over"
    BY <1>3, <1>6, <2>1, ChildGoesOn
  <2>4. runs'[c].stage # "over"
    BY <2>2, <2>3, HeadKnown
  <2>5. Job("finally", c) \notin In(jobs')
    <3> SUFFICES ASSUME Job("finally", c) \in In(jobs') PROVE FALSE
      OBVIOUS
    <3>1. Job("finally", c).do = "finally" /\ Job("finally", c).run = c
      BY DEF Job
    <3>2. HeadIs("then", c)
      BY <1>2, <2>2, <3>1 DEF Put
    <3> QED  BY <2>2, <3>2, RestIn DEF HeadIs
  <2> QED  BY <1>2, <1>4, <2>2, <2>3, <2>4, <2>5
<1>7. \/ c = Len(runs) + 1 /\ c \in DOMAIN runs'
      \/ c = runs[r].child /\ runs[r].step = "starting"
  <2>1. CASE c = runs[r].child
    BY <1>3, <2>1 DEF StepOn
  <2>2. CASE c # runs[r].child
    BY <1>3, <2>2 DEF ChildOn
  <2> QED  BY <2>1, <2>2
<1> QED  BY <1>5, <1>6, <1>7

LEMMA BeginningStep ==
  ASSUME RunsInv, RunsInv', GoOn, Queues, Hearing, Kin, FollowedUp, Starting, Beginning
  PROVE  Beginning'
<1>1. Knows(jobs', runs') /\ Knows(jobs, runs)
  BY AllKnown, AllKnownNext
<1>2. /\ \A j \in In(jobs) : j \in In(jobs') \/ (jobs # <<>> /\ j = Head(jobs))
      /\ \A j \in In(jobs') : j \in In(jobs) \/ Put(j)
      /\ In(Rest) \subseteq In(jobs)
      /\ \A p, c \in Nat : /\ Precedes(jobs, Job("begun", p), Job("finally", c))
                           /\ Job("finally", c) \in In(Rest) => ~Put(Job("begun", p))
              => Precedes(jobs', Job("begun", p), Job("finally", c))
  BY Queued
<1> SUFFICES ASSUME NEW r \in DOMAIN runs', runs'[r].step = "beginning", NEW c, c = runs'[r].child
             PROVE  /\ runs'[c].stage # "over" /\ Precedes(jobs', Job("begun", r), Job("finally", c))
                    /\ \/ Job("begun", r) \in In(jobs')
                       \/ /\ Job("finally", c) \notin In(jobs')
                          /\ runs'[c].stage = "deciding" \/ (runs'[c].at = 0 /\ Job("then", c) \in In(jobs'))
  BY DEF Beginning
<1>3. r \in DOMAIN runs /\ ChildOn(r, runs[r], runs'[r]) /\ StepOn(r, runs[r], runs'[r])
  BY DEF GoOn, GoesOnFrom, Born
<1>4. c = runs[r].child /\ c # Nobody
  <2>1. runs'[r].child # Nobody
    BY <1>1 DEF Knows, Stands
  <2>2. c = runs[r].child
    BY <1>3 DEF ChildOn
  <2> QED  BY <2>1, <2>2
<1>5. /\ c \in DOMAIN runs /\ c # r /\ c \in Nat /\ r \in Nat /\ runs[c].parent = r /\ runs[c].by # "trigger"
      /\ StageOn(c, runs[c], runs'[c]) /\ Stands(runs[c], Len(runs)) /\ runs[c] \in RunRecords
      /\ runs[c].stage # "over" /\ ~HeadIs("finally", c) => runs'[c].stage # "over"
  BY <1>3, <1>4, ChildGoesOn
<1>6. /\ Job("finally", c).do = "finally" /\ Job("finally", c).run = c
      /\ Job("then", c).do = "then" /\ Job("then", c).run = c
      /\ Job("begun", r).do = "begun" /\ Job("begun", r).run = r
  BY DEF Job
<1>7. Job("finally", c) \in In(jobs') => Job("finally", c) \in In(jobs) \/ HeadIs("then", c)
  BY <1>2, <1>6 DEF Put
<1>8. CASE runs[r].step # "beginning"
  <2>1. HeadIs("attach", r) /\ (runs[c].at > 0 => Job("begun", r) \in In(jobs'))
    BY <1>3, <1>4, <1>8 DEF StepOn
  <2>2. /\ runs[r].step = "starting" /\ jobs # <<>> /\ Head(jobs).do = "attach" /\ Head(jobs).run = r
        /\ \A other, q : HeadIs(other, q) => other = "attach" /\ q = r
    BY <2>1, HeadKnown DEF Due
  <2>3. runs[c].stage # "over" /\ Job("finally", c) \notin In(jobs)
    BY <1>3, <1>4, <2>2 DEF Starting
  <2>4. runs'[c].stage # "over" /\ Job("finally", c) \notin In(jobs')
    BY <1>5, <1>7, <2>2, <2>3
  <2>5. Precedes(jobs', Job("begun", r), Job("finally", c))
    BY <2>4 DEF Precedes, In
  <2>6. CASE ~ (runs[c].at > 0)
    <3>1. ~Spoken(c)
      BY <1>5, <2>2 DEF Spoken
    <3>2. Alike(runs[c], runs'[c])
      BY <1>5, <3>1 DEF GoOn, GoesOnFrom
    <3>3. runs[c].at = 0 /\ runs[c].stage \in {"deciding", "settled"}
      <4>1. runs[c].at \in Nat /\ runs[c].stage \in {"deciding", "stepping", "falling", "settled", "over"}
        BY <1>5 DEF RunRecords
      <4>2. ~HoldsParts(runs[c])
        BY <1>5, <2>6 DEF Kin
      <4> QED  BY <2>3, <2>6, <4>1, <4>2 DEF HoldsParts
    <3>4. runs[c].stage = "settled" => Job("then", c) \in In(jobs')
      <4>1. runs[c].stage = "settled" => Job("then", c) \in In(jobs)
        BY <1>5, <2>3 DEF FollowedUp
      <4>2. Job("then", c) # Head(jobs)
        BY <1>6, <2>2
      <4> QED  BY <1>2, <4>1, <4>2
    <3> QED  BY <2>4, <2>5, <3>2, <3>3, <3>4 DEF Alike
  <2> QED  BY <2>1, <2>4, <2>5, <2>6
<1>9. CASE runs[r].step = "beginning"
  <2>1. /\ runs[c].stage # "over" /\ Precedes(jobs, Job("begun", r), Job("finally", c))
        /\ \/ Job("begun", r) \in In(jobs)
           \/ /\ Job("finally", c) \notin In(jobs)
              /\ runs[c].stage = "deciding" \/ (runs[c].at = 0 /\ Job("then", c) \in In(jobs))
    BY <1>3, <1>4, <1>9 DEF Beginning
  <2>2. Job("begun", r) \in In(jobs) => Job("begun", r) \in In(jobs')
    <3>1. ~HeadIs("begun", r)
      BY <1>3 DEF Hearing
    <3> QED  BY <1>2, <3>1 DEF HeadIs
  <2>3. ~HeadIs("finally", c)
    <3> SUFFICES ASSUME HeadIs("finally", c) PROVE FALSE
      OBVIOUS
    <3>1. Job("finally", c) \in In(jobs)
      BY HeadKnown
    <3>2. Job("begun", r) \notin In(jobs)
      BY <2>1, RestIn DEF HeadIs
    <3> QED  BY <2>1, <3>1, <3>2
  <2>4. runs'[c].stage # "over"
    BY <1>5, <2>1, <2>3
  <2>5. Awaited(c) /\ \A d \in DOMAIN runs : Awaited(d) /\ runs[d].parent = r => d = c
    BY <1>3, <1>4, <1>5, <1>9 DEF Awaited, Nobody
  <2>6. Job("finally", c) \in In(Rest) => ~Put(Job("begun", r))
    <3> SUFFICES ASSUME Job("finally", c) \in In(Rest), Put(Job("begun", r)) PROVE FALSE
      OBVIOUS
    <3>1. runs[c].stage = "settled"
      BY <1>1, <1>2, <1>6 DEF Knows, Due
    <3>2. HeadIs("attach", r) \/ HeadIs("then", c)
      BY <1>6, <2>5, <3>1 DEF Put
    <3>3. ~HeadIs("attach", r)
      BY <1>9, HeadKnown DEF Due
    <3>4. ~HeadIs("then", c)
      <4> SUFFICES ASSUME HeadIs("then", c) PROVE FALSE
        OBVIOUS
      <4>1. \A j \in In(Rest) : Carries(j) => j.run # c
        BY HeadKnown DEF Carriers
      <4> QED  BY <1>6, <4>1 DEF Carries, Carriers
    <3> QED  BY <3>2, <3>3, <3>4
  <2>7. Precedes(jobs', Job("begun", r), Job("finally", c))
    BY <1>2, <1>5, <2>1, <2>6
  <2>8. ASSUME Job("begun", r) \notin In(jobs), Job("begun", r) \notin In(jobs')
        PROVE  /\ Job("finally", c) \notin In(jobs')
               /\ runs'[c].stage = "deciding" \/ (runs'[c].at = 0 /\ Job("then", c) \in In(jobs'))
    <3>1. /\ Job("finally", c) \notin In(jobs)
          /\ runs[c].stage = "deciding" \/ (runs[c].at = 0 /\ Job("then", c) \in In(jobs))
      BY <2>1, <2>8
    <3>2. runs[c].at = 0
      BY <1>5, <3>1 DEF Stands
    <3>3. ~HeadIs("then", c)
      BY <1>5, <2>5, <2>8, <3>2 DEF Hearing
    <3>4. Job("finally", c) \notin In(jobs')
      BY <1>7, <3>1, <3>3
    <3>5. CASE runs[c].stage = "deciding"
      <4>1. ~HoldsParts(runs'[c])
        BY <1>5, <2>5, <2>8, <3>5 DEF StageOn
      <4>2. runs'[c].at = 0
        BY <1>5, <3>2, <4>1 DEF StageOn
      <4>3. runs'[c].stage \in {"deciding", "settled"}
        <5>1. runs'[c].stage \in {"deciding", "stepping", "falling", "settled", "over"}
          <6>1. c \in DOMAIN runs'
            BY <1>5 DEF GoOn
          <6> QED  BY <1>1, <6>1 DEF Knows, RunRecords
        <5> QED  BY <2>4, <4>1, <5>1 DEF HoldsParts
      <4>4. runs'[c].stage = "settled" => Job("then", c) \in In(jobs')
        BY <1>5, <3>5 DEF StageOn
      <4> QED  BY <3>4, <4>2, <4>3, <4>4
    <3>6. CASE runs[c].at = 0 /\ Job("then", c) \in In(jobs)
      <4>1. runs[c].stage = "settled"
        BY <1>1, <1>6, <3>6 DEF Knows, Due
      <4>2. runs'[c].at = 0
        BY <1>5, <3>6, <4>1 DEF StageOn, HoldsParts
      <4>3. Job("then", c) \in In(jobs')
        BY <1>2, <3>3, <3>6 DEF HeadIs
      <4> QED  BY <3>4, <4>2, <4>3
    <3> QED  BY <3>1, <3>5, <3>6
  <2> QED  BY <2>2, <2>4, <2>7, <2>8
<1> QED  BY <1>8, <1>9

LEMMA AwaitingStep ==
  ASSUME RunsInv, RunsInv', GoOn, Queues, Hearing, Kin, FollowedUp, Beginning, Awaiting
  PROVE  Awaiting'
<1>1. Knows(jobs, runs) /\ Knows(jobs', runs')
  BY AllKnown, AllKnownNext
<1>2. \A j \in In(jobs) : j \in In(jobs') \/ (jobs # <<>> /\ j = Head(jobs))
  BY Queued
<1> SUFFICES ASSUME NEW r \in DOMAIN runs', runs'[r].step = "awaiting", NEW c, c = runs'[r].child
             PROVE  /\ c # Nobody /\ runs'[c].stage # "deciding"
                    /\ \/ HoldsParts(runs'[c]) \/ Job("then", c) \in In(jobs') \/ Job("finally", c) \in In(jobs')
                       \/ Job("childend", r) \in In(jobs')
  BY DEF Awaiting
<1>3. r \in DOMAIN runs /\ ChildOn(r, runs[r], runs'[r]) /\ StepOn(r, runs[r], runs'[r])
  BY DEF GoOn, GoesOnFrom, Born
<1>4. c = runs[r].child
  BY <1>3 DEF ChildOn
<1>5. CASE runs[r].step # "awaiting"
  <2>1. HeadIs("begun", r)
    BY <1>3, <1>5 DEF StepOn
  <2>2. /\ runs[r].step = "beginning" /\ jobs # <<>> /\ Head(jobs).do = "begun" /\ Head(jobs).run = r
        /\ Job("begun", r) \in In(jobs)
    BY <2>1, HeadKnown DEF Due
  <2>3. c # Nobody
    BY <1>1, <1>3, <1>4, <2>2 DEF Knows, Stands
  <2>4. /\ c \in DOMAIN runs /\ c # r /\ runs[c].by # "trigger" /\ Stands(runs[c], Len(runs)) /\ runs[c] \in RunRecords
    BY <1>3, <1>4, <2>3, ChildGoesOn
  <2>5. runs[c].stage # "over"
    BY <1>3, <1>4, <2>2 DEF Beginning
  <2>6. runs[c].stage # "deciding"
    <3>1. runs[c].stage = "deciding" => runs[c].at = 0
      BY <2>4 DEF Stands
    <3> QED  BY <1>1, <1>3, <1>4, <2>2, <2>4, <3>1 DEF Knows
  <2>7. Alike(runs[c], runs'[c])
    <3>1. ~Spoken(c)
      BY <2>2, <2>4 DEF Spoken, HeadIs, Job
    <3> QED  BY <2>4, <3>1 DEF GoOn, GoesOnFrom
  <2>8. HoldsParts(runs[c]) \/ runs[c].stage = "settled"
    BY <2>4, <2>5, <2>6 DEF RunRecords, HoldsParts
  <2>9. runs[c].stage = "settled" => Job("then", c) \in In(jobs') \/ Job("finally", c) \in In(jobs')
    <3>1. Job("then", c) # Head(jobs) /\ Job("finally", c) # Head(jobs)
      BY <2>2 DEF Job
    <3> QED  BY <1>2, <2>4, <3>1 DEF FollowedUp
  <2> QED  BY <2>3, <2>6, <2>7, <2>8, <2>9 DEF Alike, HoldsParts
<1>6. CASE runs[r].step = "awaiting"
  <2>1. /\ c # Nobody /\ runs[c].stage # "deciding"
        /\ \/ HoldsParts(runs[c]) \/ Job("then", c) \in In(jobs) \/ Job("finally", c) \in In(jobs)
           \/ Job("childend", r) \in In(jobs)
    BY <1>3, <1>4, <1>6 DEF Awaiting
  <2>2. /\ c \in DOMAIN runs /\ runs[c].parent = r /\ runs[c].by # "trigger" /\ StageOn(c, runs[c], runs'[c])
        /\ runs[c].stage # "over" /\ ~HeadIs("finally", c) => runs'[c].stage # "over"
    BY <1>3, <1>4, <2>1, ChildGoesOn
  <2>3. runs'[c].stage # "deciding"
    BY <2>1, <2>2 DEF StageOn
  <2>4. CASE HoldsParts(runs[c])
    <3>1. ~HeadIs("finally", c)
      BY <2>4, HeadKnown DEF Due, HoldsParts
    <3>2. runs'[c].stage # "over"
      BY <2>2, <2>4, <3>1 DEF HoldsParts
    <3>3. runs'[c].stage = "settled" => Job("then", c) \in In(jobs')
      BY <2>2, <2>4 DEF StageOn, HoldsParts
    <3>4. runs'[c].stage \in {"deciding", "stepping", "falling", "settled", "over"}
      <4>1. c \in DOMAIN runs'
        BY <2>2 DEF GoOn
      <4> QED  BY <1>1, <4>1 DEF Knows, RunRecords
    <3> QED  BY <2>1, <2>3, <3>2, <3>3, <3>4 DEF HoldsParts
  <2>5. CASE Job("then", c) \in In(jobs)
    <3>1. HeadIs("then", c) => Job("finally", c) \in In(jobs')
      BY <2>2 DEF Hearing
    <3> QED  BY <1>2, <2>1, <2>3, <2>5, <3>1 DEF HeadIs
  <2>6. CASE Job("finally", c) \in In(jobs)
    <3>1. HeadIs("finally", c) => Job("childend", r) \in In(jobs')
      <4>1. r # Nobody
        BY <1>1, <1>3, <2>2, JobsTyped, Indices DEF Nobody
      <4> QED  BY <2>2, <4>1 DEF Hearing
    <3> QED  BY <1>2, <2>1, <2>3, <2>6, <3>1 DEF HeadIs
  <2>7. CASE Job("childend", r) \in In(jobs)
    <3>1. ~HeadIs("childend", r)
      BY <1>3 DEF Hearing
    <3> QED  BY <1>2, <2>1, <2>3, <2>7, <3>1 DEF HeadIs
  <2> QED  BY <2>1, <2>4, <2>5, <2>6, <2>7
<1> QED  BY <1>5, <1>6

-----------------------------------------------------------------------------
(* What a stop that is passed on rests on.                                 *)

\* A run waits for no other while it stands at its own step.
AloneAtStep ==
  \A r \in DOMAIN runs : runs[r].stage = "stepping" /\ runs[r].step \in AtStep => runs[r].child = Nobody

\* A run that is stopped waits for no other.
StoppedWaitsNot ==
  \A r \in DOMAIN runs : runs[r].stage = "stepping" /\ runs[r].stopped =>
    runs[r].step \notin {"starting", "beginning", "awaiting"}

\* The run that it waited for has yet to be told of the stop, or does not go on unstopped.
Halts(r) ==
  LET c == runs[r].child IN
  c = Nobody \/ (runs[c].stage # "deciding" /\ (HoldsParts(runs[c]) /\ runs[c].of \in Sequences => runs[c].stopped))

WokenTells ==
  \A r \in DOMAIN runs : runs[r].step = "woken" => Job("stopchild", r) \in In(jobs) \/ Halts(r)

StoppedTold ==
  \A r \in DOMAIN runs : runs[r].outcome = "stopped" => runs[r].stage \notin {"deciding", "stepping"} /\ Halts(r)

\* Runs that nothing to come is about, each with the one that it waits for.
Undisturbed(D) ==
  \A q \in D :
    /\ HoldsParts(runs[q]) /\ runs[q].step \notin {"starting", "beginning"}
    /\ \A j \in In(jobs) : Carries(j) => j.run # q
    /\ runs[q].step = "awaiting" => runs[q].child \in D /\ Job("childend", q) \notin In(jobs)

\* One stop at a time is passed on, and nothing is about the runs that it may go on to.
OneTold ==
  \A r \in DOMAIN runs : Job("stopchild", r) \in In(jobs) =>
    /\ runs[r].child # Nobody
    /\ \A q \in DOMAIN runs : Job("stopchild", q) \in In(jobs) => q = r
    /\ \E D \in SUBSET DOMAIN runs : runs[r].child \in D /\ Undisturbed(D)

\* No automation that another starts takes a while to decide.
StartedAtOnce == \A a \in Automations : Starts[a] \notin Slow

\* Nobody is about to wait for another when the next thing comes from outside.
LEMMA QuietWaits ==
  ASSUME StartedAtOnce, RunsInv, Kin, DecidesNext, Starting, Beginning, jobs = <<>>, NEW r \in DOMAIN runs
  PROVE  runs[r].step \notin {"starting", "beginning"}
<1>1. In(jobs) = {}
  BY RestIn
<1>2. runs[r].step # "starting"
  BY <1>1 DEF Starting
<1>3. runs[r].step # "beginning"
  <2> SUFFICES ASSUME runs[r].step = "beginning" PROVE FALSE
    OBVIOUS
  <2>1. runs[runs[r].child].stage = "deciding"
    BY <1>1 DEF Beginning
  <2>2. runs[r].child # Nobody /\ runs[r].of \in Automations
    BY AllKnown DEF Knows, Stands, RunRecords
  <2>3. runs[r].child \in DOMAIN runs /\ runs[runs[r].child].of = Starts[runs[r].of]
    BY <2>2 DEF Kin
  <2> QED  BY <2>1, <2>2, <2>3 DEF DecidesNext, StartedAtOnce
<1> QED  BY <1>2, <1>3

\* What is told to stop is the run that was waited for.
LEMMA OneStopped ==
  ASSUME RunsInv, Kin, OneTold, NEW h, HeadIs("stopchild", h),
         NEW q \in DOMAIN runs, HoldsParts(runs[q]), runs[q].of = Starts[runs[h].of]
  PROVE  /\ h \in DOMAIN runs /\ q = runs[h].child
         /\ \E D \in SUBSET DOMAIN runs : q \in D /\ Undisturbed(D)
<1>1. h \in DOMAIN runs /\ Job("stopchild", h) \in In(jobs)
  BY HeadKnown
<1>2. PICK D \in SUBSET DOMAIN runs : runs[h].child \in D /\ Undisturbed(D)
  BY <1>1 DEF OneTold
<1>3. runs[h].child # Nobody /\ runs[h].child \in DOMAIN runs /\ HoldsParts(runs[runs[h].child])
  BY <1>1, <1>2 DEF OneTold, Undisturbed
<1>4. runs[runs[h].child].of = runs[q].of
  BY <1>1, <1>3 DEF Kin
<1>5. q = runs[h].child
  BY <1>3, <1>4, AllKnown DEF Knows, HoldsParts
<1> QED  BY <1>1, <1>2, <1>5

LEMMA HaltsOn ==
  ASSUME RunsInv, GoOn, Kin, FollowedUp, NEW r \in DOMAIN runs, runs'[r].child = runs[r].child, Halts(r)
  PROVE  Halts(r)'
<1> DEFINE c == runs[r].child
<1>1. CASE c = Nobody
  BY <1>1 DEF Halts
<1>2. CASE c # Nobody
  <2>1. c \in DOMAIN runs /\ runs[c].stage # "deciding" /\ (HoldsParts(runs[c]) /\ runs[c].of \in Sequences => runs[c].stopped)
    BY <1>2, ChildGoesOn DEF Halts
  <2>2. StageOn(c, runs[c], runs'[c]) /\ StopOn(c, runs[c], runs'[c])
    BY <2>1 DEF GoOn, GoesOnFrom
  <2> HIDE DEF c
  <2>3. runs'[c].stage # "deciding" /\ (HoldsParts(runs'[c]) /\ runs'[c].of \in Sequences => runs'[c].stopped)
    BY <2>1, <2>2 DEF StageOn, StopOn
  <2> QED  BY <2>3 DEF Halts, c
<1> QED  BY <1>1, <1>2

LEMMA AloneStep ==
  ASSUME RunsInv, GoOn, Kin, AloneAtStep
  PROVE  AloneAtStep'
<1> SUFFICES ASSUME NEW r \in DOMAIN runs', runs'[r].stage = "stepping", runs'[r].step \in AtStep
             PROVE  runs'[r].child = Nobody
  BY DEF AloneAtStep
<1>1. r \in DOMAIN runs /\ ChildOn(r, runs[r], runs'[r])
  BY DEF GoOn, GoesOnFrom, Born
<1> QED  BY <1>1 DEF ChildOn, AloneAtStep, Kin

LEMMA StoppedWaitsNotStep ==
  ASSUME StartedAtOnce, RunsInv, GoOn, Kin, DecidesNext, Starting, Beginning, OneTold, StoppedWaitsNot
  PROVE  StoppedWaitsNot'
<1> SUFFICES ASSUME NEW r \in DOMAIN runs', runs'[r].stage = "stepping", runs'[r].stopped,
                    runs'[r].step \in {"starting", "beginning", "awaiting"}
             PROVE  FALSE
  BY DEF StoppedWaitsNot
<1>1. /\ r \in DOMAIN runs /\ StageOn(r, runs[r], runs'[r]) /\ ChildOn(r, runs[r], runs'[r])
      /\ StepOn(r, runs[r], runs'[r]) /\ StopOn(r, runs[r], runs'[r])
      /\ Alike(runs[r], runs'[r]) \/ Spoken(r)
  BY DEF GoOn, GoesOnFrom, Born
<1>2. Stands(runs[r], Len(runs))
  BY <1>1, AllKnown DEF Knows
<1>3. /\ HeadIs("attach", r) => runs[r].stage = "stepping" /\ runs[r].step = "starting"
      /\ HeadIs("begun", r) => runs[r].stage = "stepping" /\ runs[r].step = "beginning"
  BY HeadKnown DEF Due
<1>4. CASE runs[r].stage = "deciding"
  <2>1. runs[r].step = "none"
    BY <1>2, <1>4 DEF Stands
  <2> QED  BY <1>1, <1>3, <1>4, <2>1 DEF StepOn, ChildOn
<1>5. CASE runs[r].stage = "stepping" /\ runs[r].stopped
  <2>1. runs[r].step \notin {"starting", "beginning", "awaiting"}
    BY <1>1, <1>5 DEF StoppedWaitsNot
  <2> QED  BY <1>1, <1>3, <1>5, <2>1 DEF StepOn
<1>6. CASE runs[r].stage = "stepping" /\ ~runs[r].stopped
  <2>1. /\ jobs = <<>> \/ Head(jobs).do = "stopchild"
        /\ runs[r].step \in {"starting", "beginning"} /\ ~Alike(runs[r], runs'[r])
    BY <1>1, <1>6 DEF StopOn, Alike
  <2>2. CASE jobs = <<>>
    BY <1>1, <2>1, <2>2, QuietWaits
  <2>3. CASE jobs # <<>> /\ Head(jobs).do = "stopchild"
    <3> DEFINE h == Head(jobs).run
    <3>1. HeadIs("stopchild", h)
      <4>1. Head(jobs) \in In(jobs) /\ jobs \in Seq(AnyJob)
        BY <2>3, RestIn, JobsTyped
      <4>2. Head(jobs) \in AnyJob
        <5> HIDE DEF AnyJob
        <5> QED  BY <2>3, <4>1, HeadTailProperties
      <4> QED  BY <2>3, <4>2 DEF HeadIs, AnyJob, Job
    <3>2. runs[h].step = "woken" /\ ~HeadIs("childend", r)
      BY <3>1, HeadKnown DEF Due
    <3> HIDE DEF h
    <3>3. HoldsParts(runs[r]) /\ runs[r].of = Starts[runs[h].of]
      BY <1>1, <2>1, <2>3, <3>2 DEF Spoken, h
    <3>4. \E D \in SUBSET DOMAIN runs : r \in D /\ Undisturbed(D)
      BY <1>1, <3>1, <3>3, OneStopped
    <3> QED  BY <2>1, <3>4 DEF Undisturbed
  <2> QED  BY <2>1, <2>2, <2>3
<1> QED  BY <1>1, <1>4, <1>5, <1>6 DEF StageOn

LEMMA WokenStep ==
  ASSUME RunsInv, RunsInv', GoOn, Queues, Hearing, Kin, FollowedUp, AloneAtStep, OneTold, WokenTells
  PROVE  WokenTells'
<1> SUFFICES ASSUME NEW r \in DOMAIN runs', runs'[r].step = "woken", Job("stopchild", r) \notin In(jobs')
             PROVE  Halts(r)'
  BY DEF WokenTells
<1>1. r \in DOMAIN runs /\ ChildOn(r, runs[r], runs'[r]) /\ StepOn(r, runs[r], runs'[r])
  BY DEF GoOn, GoesOnFrom, Born
<1>2. runs'[r].child = runs[r].child
  BY <1>1 DEF ChildOn
<1>3. CASE runs[r].step # "woken"
  <2>1. runs[r].child = Nobody
    BY <1>1, <1>3 DEF StepOn, AloneAtStep
  <2> QED  BY <1>2, <2>1 DEF Halts
<1>4. CASE runs[r].step = "woken" /\ Halts(r)
  BY <1>1, <1>2, <1>4, HaltsOn
<1>5. CASE Job("stopchild", r) \in In(jobs)
  <2>1. HeadIs("stopchild", r)
    BY <1>5, Queued DEF HeadIs
  <2> DEFINE c == runs[r].child
  <2>2. PICK D \in SUBSET DOMAIN runs : c \in D /\ Undisturbed(D)
    BY <1>1, <1>5 DEF OneTold
  <2>3. c # Nobody /\ c \in DOMAIN runs /\ HoldsParts(runs[c])
    BY <1>1, <1>5, <2>2 DEF OneTold, Undisturbed
  <2>4. runs[c].of = Starts[runs[r].of] /\ StageOn(c, runs[c], runs'[c])
    BY <1>1, <2>3, ChildGoesOn
  <2>5. runs[c].of \in Sequences => runs'[c].stopped
    BY <1>1, <2>1, <2>3, <2>4 DEF Hearing
  <2>6. runs'[c].stage # "deciding" /\ runs'[c].of = runs[c].of
    BY <2>3, <2>4 DEF StageOn, HoldsParts
  <2> HIDE DEF c
  <2> QED  BY <1>2, <2>5, <2>6 DEF Halts, c
<1> QED  BY <1>1, <1>3, <1>4, <1>5 DEF WokenTells

LEMMA StoppedToldStep ==
  ASSUME RunsInv, GoOn, Kin, FollowedUp, AloneAtStep, WokenTells, StoppedTold
  PROVE  StoppedTold'
<1> SUFFICES ASSUME NEW r \in DOMAIN runs', runs'[r].outcome = "stopped"
             PROVE  runs'[r].stage \notin {"deciding", "stepping"} /\ Halts(r)'
  BY DEF StoppedTold
<1>1. /\ r \in DOMAIN runs /\ ChildOn(r, runs[r], runs'[r]) /\ StageOn(r, runs[r], runs'[r])
      /\ StopOn(r, runs[r], runs'[r])
  BY DEF GoOn, GoesOnFrom, Born
<1>2. CASE runs[r].outcome = "stopped"
  <2>1. runs[r].stage \notin {"deciding", "stepping"} /\ Halts(r)
    BY <1>1, <1>2 DEF StoppedTold
  <2>2. runs'[r].child = runs[r].child
    BY <1>1, <2>1 DEF ChildOn
  <2>3. runs'[r].stage \notin {"deciding", "stepping"}
    BY <1>1, <2>1 DEF StageOn
  <2> QED  BY <1>1, <2>1, <2>2, <2>3, HaltsOn
<1>3. CASE runs[r].outcome # "stopped"
  <2>1. /\ runs[r].stage = "stepping" /\ runs'[r].stage \in {"falling", "settled"}
        /\ runs'[r].child = runs[r].child
        /\ runs[r].step = "none" \/ HeadIs("quit", r)
    BY <1>1, <1>3 DEF StopOn
  <2>2. CASE runs[r].step = "none"
    <3>1. runs[r].child = Nobody
      BY <1>1, <2>1, <2>2 DEF AloneAtStep, AtStep
    <3> QED  BY <2>1, <3>1 DEF Halts
  <2>3. CASE HeadIs("quit", r)
    <3>1. runs[r].step = "woken" /\ Job("quit", r) \in In(jobs)
      BY <2>3, HeadKnown DEF Due
    <3>2. Job("stopchild", r) \notin In(jobs)
      <4>1. /\ Job("quit", r).do = "quit" /\ Job("stopchild", r).do = "stopchild"
            /\ Job("quit", r).run = r /\ Job("stopchild", r).run = r
        BY DEF Job
      <4> QED  BY <3>1, <4>1, AllKnown DEF Knows, Carries, Carriers
    <3>3. Halts(r)
      BY <1>1, <3>1, <3>2 DEF WokenTells
    <3> QED  BY <1>1, <2>1, <3>3, HaltsOn
  <2> QED  BY <2>1, <2>2, <2>3
<1> QED  BY <1>2, <1>3

\* What nothing is about stays as it is, and nothing comes to be about it.
LEMMA Remains ==
  ASSUME RunsInv, GoOn, Queues, Kin, NEW D \in SUBSET DOMAIN runs, Undisturbed(D), NEW q \in D,
         Alike(runs[q], runs'[q]), jobs # <<>> => ~Spoken(q)
  PROVE  /\ q \in DOMAIN runs' /\ HoldsParts(runs'[q]) /\ runs'[q].step \notin {"starting", "beginning"}
         /\ \A j \in In(jobs') : Carries(j) => j.run # q
         /\ runs'[q].step = "awaiting" =>
              runs'[q].child = runs[q].child /\ runs[q].child \in D /\ Job("childend", q) \notin In(jobs')
<1>1. /\ q \in DOMAIN runs /\ HoldsParts(runs[q]) /\ runs[q].step \notin {"starting", "beginning"}
      /\ \A j \in In(jobs) : Carries(j) => j.run # q
      /\ runs[q].step = "awaiting" => runs[q].child \in D /\ Job("childend", q) \notin In(jobs)
  BY DEF Undisturbed
<1>2. /\ HoldsParts(runs'[q]) /\ runs'[q].step = runs[q].step /\ runs'[q].child = runs[q].child
      /\ q \in DOMAIN runs'
  BY <1>1 DEF Alike, HoldsParts, GoOn
<1>3. \A j \in In(jobs') : j \in In(jobs) \/ Put(j)
  BY Queued
<1>4. Knows(jobs, runs)
  BY AllKnown
<1>5. ASSUME NEW j \in In(jobs'), Carries(j), j.run = q
      PROVE  FALSE
  <2>1. Put(j)
    BY <1>1, <1>3, <1>5
  <2>2. ~ (Spoken(q) /\ (jobs = <<>> => ~Alike(runs[q], runs'[q])))
    OBVIOUS
  <2>3. j.do = "begun"
    BY <1>1, <1>5, <2>1, <2>2 DEF Put
  <2>4. ~HeadIs("attach", q)
    <3> SUFFICES ASSUME HeadIs("attach", q) PROVE FALSE
      OBVIOUS
    <3>1. Job("attach", q) \in In(jobs)
      BY HeadKnown
    <3>2. Job("attach", q).do = "attach" /\ Job("attach", q).run = q
      BY DEF Job
    <3> QED  BY <1>1, <3>1, <3>2 DEF Carries, Carriers
  <2>5. ~ \E c \in DOMAIN runs : Awaited(c) /\ runs[c].parent = q
    BY <1>1 DEF Awaited
  <2> QED  BY <1>5, <2>1, <2>3, <2>4, <2>5 DEF Put
<1>6. ASSUME runs[q].step = "awaiting", Job("childend", q) \in In(jobs')
      PROVE  FALSE
  <2>1. Put(Job("childend", q)) /\ Job("childend", q).do = "childend" /\ Job("childend", q).run = q
    BY <1>1, <1>3, <1>6 DEF Job
  <2>2. PICK h \in DOMAIN runs : HeadIs("finally", h) /\ runs[h].parent = q
    BY <2>1 DEF Put
  <2>3. runs[h].stage = "settled"
    BY <2>2, HeadKnown DEF Due
  <2> DEFINE c == runs[q].child
  <2>4. c \in D /\ c \in DOMAIN runs /\ HoldsParts(runs[c])
    BY <1>1, <1>6 DEF Undisturbed
  <2>5. q # Nobody /\ c # Nobody
    BY <1>1, <2>4, JobsTyped, Indices DEF Nobody
  <2>6. runs[h].of = runs[c].of
    BY <1>1, <2>2, <2>4, <2>5 DEF Kin
  <2> QED  BY <1>4, <2>3, <2>4, <2>6 DEF Knows, HoldsParts
<1> QED  BY <1>1, <1>2, <1>5, <1>6

LEMMA OneToldStep ==
  ASSUME StartedAtOnce, RunsInv, RunsInv', GoOn, Queues, Kin, DecidesNext,
         Starting, Beginning, Awaiting, OneTold
  PROVE  OneTold'
<1> SUFFICES ASSUME NEW r \in DOMAIN runs', Job("stopchild", r) \in In(jobs')
             PROVE  /\ runs'[r].child # Nobody
                    /\ \A q \in DOMAIN runs' : Job("stopchild", q) \in In(jobs') => q = r
                    /\ \E D \in SUBSET DOMAIN runs' : runs'[r].child \in D /\ Undisturbed(D)'
  BY DEF OneTold
<1>1. /\ \A q \in DOMAIN runs : q \in DOMAIN runs' /\ (Alike(runs[q], runs'[q]) \/ Spoken(q))
      /\ \A p, q \in DOMAIN runs : ~Alike(runs[p], runs'[p]) /\ ~Alike(runs[q], runs'[q]) => p = q
  BY DEF GoOn, GoesOnFrom
<1>2. \A q : Job("stopchild", q).do = "stopchild" /\ Job("stopchild", q).run = q
  BY DEF Job
<1>3. \A q : Job("stopchild", q) \in In(jobs') => q \in DOMAIN runs' /\ runs'[q].step = "woken"
  BY <1>2, AllKnownNext DEF Knows, Due
<1>4. \A q \in DOMAIN runs' : runs'[q].step = "woken" => q \in DOMAIN runs
  BY DEF GoOn, Born
<1>5. r \in DOMAIN runs /\ ChildOn(r, runs[r], runs'[r])
  BY <1>3, <1>4 DEF GoOn, GoesOnFrom
<1>6. runs'[r].child = runs[r].child
  BY <1>3, <1>5 DEF ChildOn
<1>7. /\ \A j \in In(jobs') : j \in In(Rest) \/ Put(j)
      /\ In(Rest) \subseteq In(jobs)
      /\ \A j, k \in In(jobs') : /\ j.do = "stopchild" /\ k.do = "stopchild"
                                 /\ j \notin In(Rest) /\ k \notin In(Rest)
           => j = k
  BY Queued
<1>8. ASSUME NEW q, Put(Job("stopchild", q))
      PROVE  /\ q \in DOMAIN runs /\ runs[q].step = "awaiting" /\ runs'[q].step = "woken"
             /\ jobs = <<>> \/ (jobs # <<>> /\ HeadIs("stopchild", Head(jobs).run))
  <2>1. /\ q \in DOMAIN runs /\ runs[q].step = "awaiting" /\ runs'[q].step = "woken"
        /\ jobs = <<>> \/ Head(jobs).do = "stopchild"
    BY <1>2, <1>8 DEF Put
  <2>2. jobs # <<>> => Head(jobs) \in AnyJob
    <3> HIDE DEF AnyJob
    <3> QED  BY JobsTyped, HeadTailProperties
  <2> QED  BY <2>1, <2>2 DEF HeadIs, AnyJob, Job
\* What remains when the runs of D do, or the later of them.
<1>9. ASSUME NEW D \in SUBSET DOMAIN runs, Undisturbed(D), NEW E \in SUBSET D, runs[r].child \in E,
             \A q \in E : Alike(runs[q], runs'[q]) /\ (jobs # <<>> => ~Spoken(q)),
             \A q \in E : runs[q].step = "awaiting" /\ runs[q].child \in D => runs[q].child \in E
      PROVE  \E F \in SUBSET DOMAIN runs' : runs'[r].child \in F /\ Undisturbed(F)'
  <2>1. ASSUME NEW q \in E
        PROVE  /\ q \in DOMAIN runs' /\ HoldsParts(runs'[q]) /\ runs'[q].step \notin {"starting", "beginning"}
               /\ \A j \in In(jobs') : Carries(j) => j.run # q
               /\ runs'[q].step = "awaiting" =>
                    runs'[q].child = runs[q].child /\ runs[q].child \in D /\ Job("childend", q) \notin In(jobs')
    <3>1. Alike(runs[q], runs'[q]) /\ (jobs # <<>> => ~Spoken(q)) /\ q \in D
      BY <1>9
    <3> QED  BY <1>9, <3>1, Remains
  <2>2. \A q \in E : runs'[q].step = "awaiting" => runs'[q].child \in E
    BY <1>9, <2>1 DEF Alike
  <2>3. E \in SUBSET DOMAIN runs' /\ Undisturbed(E)'
    BY <2>1, <2>2 DEF Undisturbed
  <2> QED  BY <1>6, <1>9, <2>3
<1>10. CASE Job("stopchild", r) \in In(Rest)
  <2>1. /\ runs[r].child # Nobody /\ Job("stopchild", r) \in In(jobs)
        /\ \A q \in DOMAIN runs : Job("stopchild", q) \in In(jobs) => q = r
    BY <1>5, <1>7, <1>10 DEF OneTold
  <2>2. PICK D \in SUBSET DOMAIN runs : runs[r].child \in D /\ Undisturbed(D)
    BY <1>5, <2>1 DEF OneTold
  <2>3. jobs # <<>>
    BY <1>10, RestIn
  <2>4. \A h : ~HeadIs("stopchild", h)
    <3> SUFFICES ASSUME NEW h, HeadIs("stopchild", h) PROVE FALSE
      OBVIOUS
    <3>1. /\ h \in DOMAIN runs /\ Job("stopchild", h) \in In(jobs)
          /\ \A j \in In(Rest) : Carries(j) => j.run # h
      BY HeadKnown DEF Carriers
    <3>2. h = r
      BY <2>1, <3>1
    <3> QED  BY <1>2, <1>10, <3>1, <3>2 DEF Carries, Carriers
  <2>5. \A q \in DOMAIN runs' : Job("stopchild", q) \in In(jobs') => q = r
    BY <1>3, <1>4, <1>7, <1>8, <2>1, <2>3, <2>4
  <2>6. ASSUME NEW q \in D
        PROVE  ~Spoken(q) /\ Alike(runs[q], runs'[q])
    <3>1. Head(jobs) \in In(jobs) /\ Head(jobs).do # "stopchild"
      <4>1. Head(jobs) \in In(jobs)
        BY <2>3, RestIn
      <4>2. Head(jobs) \in AnyJob
        <5> HIDE DEF AnyJob
        <5> QED  BY <2>3, JobsTyped, HeadTailProperties
      <4>3. Head(jobs).do = "stopchild" => HeadIs("stopchild", Head(jobs).run)
        BY <2>3, <4>2 DEF HeadIs, AnyJob, Job
      <4> QED  BY <2>4, <4>1, <4>3
    <3>2. ~Spoken(q)
      BY <2>2, <2>3, <3>1 DEF Spoken, Undisturbed, HeadIs
    <3> QED  BY <1>1, <3>2
  <2>7. \E F \in SUBSET DOMAIN runs' : runs'[r].child \in F /\ Undisturbed(F)'
    BY <1>9, <2>2, <2>6
  <2> QED  BY <1>6, <2>1, <2>5, <2>7
<1>11. CASE Job("stopchild", r) \notin In(Rest)
  <2>1. /\ runs[r].step = "awaiting" /\ runs'[r].step = "woken"
        /\ jobs = <<>> \/ (jobs # <<>> /\ HeadIs("stopchild", Head(jobs).run))
    BY <1>7, <1>8, <1>11
  <2>2. runs[r].child # Nobody /\ ~Alike(runs[r], runs'[r])
    BY <1>5, <2>1 DEF Awaiting, Alike
  <2>3. runs[r].child \in DOMAIN runs /\ runs[r].child > r /\ r \in Nat
    BY <1>5, <2>2, JobsTyped DEF Kin
  <2>4. \A q \in DOMAIN runs' : Job("stopchild", q) \in In(jobs') => q = r
    <3> SUFFICES ASSUME NEW q \in DOMAIN runs', Job("stopchild", q) \in In(jobs') PROVE q = r
      OBVIOUS
    <3>1. CASE Job("stopchild", q) \notin In(Rest)
      BY <1>2, <1>7, <1>11, <3>1
    <3>2. CASE Job("stopchild", q) \in In(Rest)
      <4>1. jobs # <<>> /\ Job("stopchild", q) \in In(jobs) /\ q \in DOMAIN runs
        BY <1>3, <1>4, <1>7, <3>2, RestIn
      <4> DEFINE h == Head(jobs).run
      <4>2. HeadIs("stopchild", h)
        BY <2>1, <4>1
      <4> HIDE DEF h
      <4>3. /\ h \in DOMAIN runs /\ Job("stopchild", h) \in In(jobs)
            /\ \A j \in In(Rest) : Carries(j) => j.run # h
        BY <4>2, HeadKnown DEF Carriers
      <4>4. h = q
        BY <4>1, <4>3 DEF OneTold
      <4> QED  BY <1>2, <3>2, <4>3, <4>4 DEF Carries, Carriers
    <3> QED  BY <3>1, <3>2
  <2>5. ASSUME NEW D \in SUBSET DOMAIN runs, Undisturbed(D), runs[r].child \in D,
               jobs # <<>> => \A q \in D : q # r => ~Spoken(q)
        PROVE  \E F \in SUBSET DOMAIN runs' : runs'[r].child \in F /\ Undisturbed(F)'
    <3> DEFINE E == {q \in D : q > r}
    <3>1. E \in SUBSET D /\ runs[r].child \in E
      BY <2>3, <2>5
    <3>2. \A q \in E : q \in D /\ q \in DOMAIN runs /\ q # r /\ q \in Nat
      BY <2>3, JobsTyped
    <3>3. \A q \in E : Alike(runs[q], runs'[q]) /\ (jobs # <<>> => ~Spoken(q))
      BY <1>1, <1>5, <2>2, <2>5, <3>2
    <3>4. ASSUME NEW q \in E, runs[q].child \in D
          PROVE  runs[q].child \in E
      <4>1. runs[q].child # Nobody
        BY <3>4, JobsTyped, Indices DEF Nobody
      <4>2. runs[q].child > q /\ q > r /\ runs[q].child \in Nat
        BY <3>2, <3>4, <4>1, JobsTyped DEF Kin
      <4> QED  BY <2>3, <3>2, <3>4, <4>2
    <3> HIDE DEF E
    <3> QED  BY <1>9, <2>5, <3>1, <3>3, <3>4
  <2>6. CASE jobs = <<>>
    <3> DEFINE D == {q \in DOMAIN runs : HoldsParts(runs[q])}
    <3>1. In(jobs) = {}
      BY <2>6, RestIn
    <3>2. ASSUME NEW q \in DOMAIN runs, runs[q].step = "awaiting"
          PROVE  runs[q].child \in D
      <4>1. runs[q].child # Nobody /\ HoldsParts(runs[runs[q].child])
        BY <3>1, <3>2 DEF Awaiting
      <4> QED  BY <4>1 DEF Kin
    <3>3. D \in SUBSET DOMAIN runs /\ Undisturbed(D)
      BY <2>6, <3>1, <3>2, QuietWaits DEF Undisturbed
    <3>4. runs[r].child \in D
      BY <1>5, <2>1, <3>2
    <3> HIDE DEF D
    <3>5. \E F \in SUBSET DOMAIN runs' : runs'[r].child \in F /\ Undisturbed(F)'
      BY <2>5, <2>6, <3>3, <3>4
    <3> QED  BY <1>6, <2>2, <2>4, <3>5
  <2>7. CASE jobs # <<>> /\ HeadIs("stopchild", Head(jobs).run)
    <3> DEFINE h == Head(jobs).run
    <3>1. /\ h \in DOMAIN runs /\ Job("stopchild", h) \in In(jobs) /\ runs[h].step = "woken"
          /\ Head(jobs).do = "stopchild" /\ HeadIs("stopchild", h)
      BY <2>7, HeadKnown DEF Due
    <3> HIDE DEF h
    <3>2. \A q : ~HeadIs("childend", q)
      BY <3>1 DEF HeadIs, Job
    <3>3. Spoken(r)
      BY <1>1, <1>5, <2>2
    <3>4. HoldsParts(runs[r]) /\ runs[r].of = Starts[runs[h].of]
      BY <2>1, <2>7, <3>1, <3>2, <3>3 DEF Spoken, h
    <3>5. r = runs[h].child
      BY <1>5, <3>1, <3>4, OneStopped
    <3>6. PICK D \in SUBSET DOMAIN runs : r \in D /\ Undisturbed(D)
      BY <1>5, <3>1, <3>4, OneStopped
    <3>7. runs[r].child \in D
      BY <2>1, <3>6 DEF Undisturbed
    <3>8. ASSUME NEW q \in D, q # r
          PROVE  ~Spoken(q)
      <4>1. q # h
        BY <1>2, <3>1, <3>6 DEF Undisturbed, Carries, Carriers
      <4>2. ~ (HoldsParts(runs[q]) /\ runs[q].of = Starts[runs[h].of])
        BY <3>1, <3>5, <3>8, OneStopped
      <4> QED  BY <2>7, <3>2, <4>1, <4>2 DEF Spoken, h
    <3>9. \E F \in SUBSET DOMAIN runs' : runs'[r].child \in F /\ Undisturbed(F)'
      BY <2>5, <3>6, <3>7, <3>8
    <3> QED  BY <1>6, <2>2, <2>4, <3>9
  <2> QED  BY <2>1, <2>6, <2>7
<1> QED  BY <1>10, <1>11

\* What the passing on of a stop rests on.
PassInv ==
  /\ Kin /\ FollowedUp /\ Starting /\ Beginning /\ Awaiting
  /\ AloneAtStep /\ StoppedWaitsNot /\ WokenTells /\ StoppedTold /\ OneTold

\* Nothing waits for anything when the server stops.
LEMMA CrashPasses ==
  ASSUME RunsInv, Crash
  PROVE  PassInv'
<1>1. /\ DOMAIN runs' = DOMAIN runs /\ \A r \in DOMAIN runs : runs'[r] = LostRun(r)
      /\ jobs' = <<>> /\ In(<<>>) = {}
  BY DEF Crash, In
<1>2. ASSUME NEW r \in DOMAIN runs
      PROVE  /\ LostRun(r).stage = "over" /\ LostRun(r).step = "none" /\ LostRun(r).child = Nobody
             /\ LostRun(r).parent = Nobody /\ LostRun(r).outcome = "lost"
  <2> DEFINE new == NewRun(runs[r].of, "trigger", Nobody)
             lost == [new EXCEPT !.root = r, !.stage = "over", !.outcome = "lost", !.row = runs[r].row]
  <2>1. new.step = "none" /\ new.child = Nobody /\ new.parent = Nobody
    BY DEF NewRun
  <2>2. /\ {"stage", "outcome", "step", "child", "parent"} \subseteq DOMAIN new
    BY DEF NewRun
  <2> HIDE DEF new
  <2>3. /\ lost.stage = "over" /\ lost.outcome = "lost"
        /\ lost.step = new.step /\ lost.child = new.child /\ lost.parent = new.parent
    BY <2>2
  <2>4. LostRun(r) = lost
    BY DEF LostRun, new
  <2> HIDE DEF lost
  <2> QED  BY <2>1, <2>3, <2>4
<1>3. ASSUME NEW r \in DOMAIN runs'
      PROVE  /\ runs'[r].stage = "over" /\ runs'[r].step = "none" /\ runs'[r].child = Nobody
             /\ runs'[r].parent = Nobody /\ runs'[r].outcome = "lost"
  BY <1>1, <1>2
<1>4. In(jobs') = {}
  BY <1>1
<1>5. Kin' /\ FollowedUp' /\ Starting' /\ Beginning' /\ Awaiting'
  BY <1>3, <1>4 DEF Kin, FollowedUp, Starting, Beginning, Awaiting, HoldsParts
<1>6. AloneAtStep' /\ StoppedWaitsNot' /\ WokenTells' /\ StoppedTold' /\ OneTold'
  BY <1>3, <1>4 DEF AloneAtStep, StoppedWaitsNot, WokenTells, StoppedTold, OneTold
<1> QED  BY <1>5, <1>6 DEF PassInv

LEMMA PassStep ==
  ASSUME StartedAtOnce, RunsInv, RunsInv', StopInv, PassInv, [Next]_vars
  PROVE  PassInv'
<1>1. CASE Next /\ ~Crash
  <2>1. GoOn /\ Queues /\ Hearing
    BY <1>1, Passing
  <2>2. Kin' /\ FollowedUp' /\ Starting' /\ Beginning' /\ Awaiting'
    BY <2>1, KinStep, FollowedUpStep, StartingStep, BeginningStep, AwaitingStep DEF PassInv
  <2>3. AloneAtStep' /\ StoppedWaitsNot' /\ WokenTells' /\ StoppedTold' /\ OneTold'
    BY <2>1, AloneStep, StoppedWaitsNotStep, WokenStep, StoppedToldStep, OneToldStep DEF PassInv, StopInv
  <2> QED  BY <2>2, <2>3 DEF PassInv
<1>2. CASE Crash
  BY <1>2, CrashPasses
<1>3. CASE UNCHANGED vars
  <2>1. runs' = runs /\ jobs' = jobs
    BY <1>3 DEF vars
  <2>2. Kin' /\ FollowedUp' /\ Starting' /\ Beginning' /\ Awaiting'
    BY <2>1 DEF PassInv, Kin, FollowedUp, Starting, Beginning, Awaiting
  <2>3. AloneAtStep' /\ StoppedWaitsNot'
    BY <2>1 DEF PassInv, AloneAtStep, StoppedWaitsNot
  <2>4. \A r : Halts(r)' <=> Halts(r)
    BY <2>1 DEF Halts
  <2>5. WokenTells' /\ StoppedTold'
    BY <2>1, <2>4 DEF PassInv, WokenTells, StoppedTold
  <2>6. \A D : Undisturbed(D)' <=> Undisturbed(D)
    BY <2>1 DEF Undisturbed
  <2>7. OneTold'
    BY <2>1, <2>6 DEF PassInv, OneTold
  <2> QED  BY <2>2, <2>3, <2>5, <2>7 DEF PassInv
<1> QED  BY <1>1, <1>2, <1>3

(* A run stopped stops the one it waits for (docs/SEQUENCES.md:255-256): a stopped run is     *)
(* never left beside the unstopped run that its step started and waits for, where what other  *)
(* automations start decides at once.  One that takes a while to decide begins after the stop *)
(* that its step looked for only before (#startStep, runs.ts:1261), and is not told of it.    *)
THEOREM StopReachesChild ==
  ASSUME StartedAtOnce
  PROVE  Spec => []StopPassesOn
<1>1. Init => PassInv
  <2>1. DOMAIN <<>> = {}
    OBVIOUS
  <2> QED  BY <2>1 DEF Init, PassInv, Kin, FollowedUp, Starting, Beginning, Awaiting, AloneAtStep,
                       StoppedWaitsNot, WokenTells, StoppedTold, OneTold
<1>2. RunsInv /\ RunsInv' /\ StopInv /\ PassInv /\ [Next]_vars => PassInv'
  BY PassStep
<1>3. RunsInv /\ PassInv => StopPassesOn
  <2> SUFFICES ASSUME RunsInv, PassInv, NEW r \in DOMAIN runs, NEW c, c = runs[r].child, c # Nobody,
                      runs[r].stopped, runs[r].step = "awaiting" \/ runs[r].outcome = "stopped",
                      Holding(c), runs[c].of \in Sequences
               PROVE  runs[c].stopped
    BY DEF StopPassesOn
  <2>1. runs[r].step # "awaiting"
    <3>1. runs[r].step = "awaiting" => runs[r].stage = "stepping"
      BY AllKnown DEF Knows, Stands
    <3> QED  BY <3>1 DEF PassInv, StoppedWaitsNot
  <2>2. Halts(r)
    BY <2>1 DEF PassInv, StoppedTold
  <2> QED  BY <2>2 DEF Halts, Holding, HoldsParts
<1> QED  BY <1>1, <1>2, <1>3, RunsAlways, StopAlways, PTL DEF Spec

=============================================================================
