-------------------------------- MODULE Runs --------------------------------
(***************************************************************************)
(* The runs of automations (packages/automation-engine/src/runs.ts): when  *)
(* one starts, what it may do beside the others, how it is stopped, and    *)
(* what starts once it has ended.                                          *)
(*                                                                         *)
(* One thread runs it all, so what matters is which callback comes before  *)
(* which.  jobs is the queue of promise callbacks: code that goes on at    *)
(* once is put at its front, a reaction to a settled promise at its end.   *)
(* Anything from outside - a trigger, a person, a device's answer, a timer *)
(* - comes only when the queue is empty.  A chain of callbacks that only   *)
(* hand a value on counts as one.                                          *)
(***************************************************************************)
EXTENDS Integers, Sequences, FiniteSets

CONSTANTS
  Automations,   \* their ids
  Parts,         \* the parts they may change
  Changes,       \* [Automations -> SUBSET Parts]: what each may change
  Steps,         \* [Automations -> Seq of kinds]: what each does, in order
  Starts,        \* [Automations -> Automations]: what its start steps start
  Sequences,     \* those that take steps; the others are commands alone
  Rescued,       \* those with an `if a step fails` command
  Slow,          \* those whose `only if` asks something that takes a while
  Spaced,        \* those with a command the gateway may put off: for its gap, or a fresh reading
  Paced,         \* those whose trigger has an `at most every`
  Way,           \* [Automations -> {"skip", "restart", "queue"}]
  Triggered,     \* those something triggers
  Playable,      \* those a person plays
  QueueLimit,    \* SEQUENCE_LIMITS.queued
  ChainLimit,    \* SEQUENCE_LIMITS.chain
  MaxAsks,       \* bound: what comes from outside to start or change one
  MaxCrashes,    \* bound: how often the server stops
  MaxRuns        \* bound: no behaviour has more runs than this

StepKinds == {"act", "wait", "start", "startwait"}

ASSUME RunsAssumption ==
  /\ Changes \in [Automations -> SUBSET Parts]
  /\ \A a \in Automations : Steps[a] \in Seq(StepKinds) /\ Steps[a] # <<>>
  /\ Starts \in [Automations -> Automations]
  /\ Sequences \subseteq Automations /\ Rescued \subseteq Sequences
  /\ \A a \in Automations \ Sequences : \A i \in DOMAIN Steps[a] : Steps[a][i] = "act"
  /\ Slow \subseteq Automations /\ Spaced \subseteq Automations /\ Paced \subseteq Automations
  /\ Way \in [Automations -> {"skip", "restart", "queue"}]
  /\ Triggered \subseteq Automations /\ Playable \subseteq Automations
  /\ {QueueLimit, MaxAsks, MaxCrashes, MaxRuns} \subseteq Nat /\ ChainLimit \in Nat \ {0}

VARIABLES
  mode,      \* each automation: let act, off, or deleted
  runs,      \* every run there has been, in order of its start
  running,   \* #running: automations that are started only once it ends
  queued,    \* #queued: how many starts wait their turn, each automation
  soon,      \* its trigger started it less than its `at most every` ago
  jobs,      \* promise callbacks to come, the first first
  up,        \* whether the server is
  asks, crashes

vars == <<mode, runs, running, queued, soon, jobs, up, asks, crashes>>

Job(do, r) == [do |-> do, run |-> r]

\* Nothing is left to do before the next thing comes from outside.
Quiet == up /\ jobs = <<>>

Nobody == 0

\* A run that has neither ended nor been lost: its #running is not yet given up.
Active(r) == runs[r].stage # "over"

\* #live and #once: what holds its parts and can be stopped.
Holding(r) == runs[r].stage \in {"stepping", "falling"}

RunsOf(a) == {r \in DOMAIN runs : runs[r].of = a}

StepOf(r) == Steps[runs[r].of][runs[r].at]

NewRun(a, by, parent) ==
  [of      |-> a,
   by      |-> by,
   parent  |-> parent,
   root    |-> IF parent = Nobody THEN Len(runs) + 1 ELSE runs[parent].root,
   chain   |-> IF parent = Nobody THEN {} ELSE runs[parent].chain \cup {runs[parent].of},
   stage   |-> "deciding",
   at      |-> 0,
   step    |-> "none",
   retried |-> 0,
   child   |-> Nobody,
   stopped |-> FALSE,
   gone    |-> FALSE,
   waiting |-> 0,
   outcome |-> "running",
   row     |-> "none"]

Init ==
  /\ mode = [a \in Automations |-> "on"]
  /\ runs = <<>> /\ running = {} /\ jobs = <<>>
  /\ queued = [a \in Automations |-> 0]
  /\ soon = [a \in Automations |-> FALSE]
  /\ up = TRUE /\ asks = 0 /\ crashes = 0

-----------------------------------------------------------------------------
\* How a run ends.

\* As it would be if a trigger's run gave up its place as late as one that was asked for.
CallbacksLate(r) == <<Job("caught", r), Job("then", r)>>

\* As it would be if only a run nobody stopped were followed up.
CallbacksUnlessStopped(r) ==
  <<Job("caught", r)>> \o
  (IF runs[r].stopped THEN <<>> ELSE <<Job(IF runs[r].by = "trigger" THEN "ended" ELSE "then", r)>>)

\* What waits on a run's end, in the order it was attached to it: those waiting to start afresh,
\* then what gives up its place - at once for a run a trigger started, a callback later for one
\* that was asked for.
Callbacks(r) ==
  <<Job("caught", r), Job(IF runs[r].by = "trigger" THEN "ended" ELSE "then", r)>>

\* As it would be if a run that ends were kept whatever became of its automation.
RowAtEndKept(r) == "ended"

\* The row kept of a run that is over: none once its automation is gone.
RowAtEnd(r) == IF runs[r].gone \/ mode[runs[r].of] = "gone" THEN "gone" ELSE "ended"

Settle(r, how, row, rest) ==
  /\ runs' = [runs EXCEPT ![r].stage = "settled", ![r].step = "none",
                          ![r].outcome = how, ![r].row = row]
  /\ jobs' = rest \o Callbacks(r)

\* Its steps came out: what it does after is taken if they did not succeed, stopped or not.
Conclude(r, how, rest) ==
  IF how \in {"failed", "stopped"} /\ runs[r].of \in Rescued /\ runs[r].stage = "stepping"
  THEN /\ runs' = [runs EXCEPT ![r].stage = "falling", ![r].step = "acting",
                               ![r].retried = 0, ![r].outcome = how]
       /\ jobs' = rest
  ELSE Settle(r, IF runs[r].stage = "falling" THEN runs[r].outcome ELSE how, RowAtEnd(r), rest)

\* A stop wakes what waits, except in the steps taken after.
Wakeable(r) == runs[r].stage = "stepping" /\ runs[r].step \in {"asleep", "pausing", "awaiting"}

Stopped(r) ==
  [runs EXCEPT ![r].stopped = TRUE, ![r].step = IF Wakeable(r) THEN "woken" ELSE @]

\* As it would be if a stop only ended the wait for another's run.
WakesAlone(r) == IF Wakeable(r) THEN <<Job("quit", r)>> ELSE <<>>

\* As it would be if a pause before a command were not listening.
WakesButPauses(r) ==
  IF ~Wakeable(r) \/ runs[r].step = "pausing" THEN <<>>
  ELSE <<Job(IF runs[r].step = "awaiting" THEN "stopchild" ELSE "quit", r)>>

Wakes(r) ==
  IF Wakeable(r) THEN <<Job(IF runs[r].step = "awaiting" THEN "stopchild" ELSE "quit", r)>> ELSE <<>>

-----------------------------------------------------------------------------
\* How a run starts.

\* As it would be if what another run started were never refused.
TakenUnlessStarted(r) ==
  runs[r].by # "run" /\
  \E q \in DOMAIN runs :
    Holding(q) /\ runs[q].root # runs[r].root
      /\ Changes[runs[q].of] \cap Changes[runs[r].of] # {}

\* A part it may change is held by a run of another chain.
Taken(r) ==
  \E q \in DOMAIN runs :
    Holding(q) /\ runs[q].root # runs[r].root
      /\ Changes[runs[q].of] \cap Changes[runs[r].of] # {}

\* A step of another run waits to hear that this one has begun.
Awaited(r) == runs[r].parent # Nobody /\ runs[runs[r].parent].step = "beginning"
                /\ runs[runs[r].parent].child = r

\* It is to run: refused for a part in use, not kept for an automation that is gone (its row
\* cannot be written), or begun - its first step taken at once.
Begins(r, rest) ==
  IF Taken(r) THEN Settle(r, "refused", RowAtEnd(r), rest)
  ELSE IF runs[r].of \in Sequences /\ mode[runs[r].of] = "gone" THEN Settle(r, "error", "none", rest)
  ELSE /\ runs' = [runs EXCEPT ![r].stage = "stepping", ![r].at = 1,
                               ![r].row = IF runs[r].of \in Sequences THEN "running" ELSE "none"]
       /\ jobs' = <<Job("walk", r)>> \o rest
                    \o (IF Awaited(r) THEN <<Job("begun", runs[r].parent)>> ELSE <<>>)

\* runAndKeep from where it takes its place: nobody else runs it. When its trigger started it
\* is kept first, which an automation that is gone refuses: its place is never given up.
StartTriggered(a, rest) ==
  /\ running' = running \cup {a}
  /\ IF mode[a] = "gone"
     THEN jobs' = rest /\ UNCHANGED <<runs, soon>>
     ELSE /\ runs' = Append(runs, NewRun(a, "trigger", Nobody))
          /\ soon' = [soon EXCEPT ![a] = a \in Paced]
          /\ jobs' = <<Job("run", Len(runs) + 1)>> \o rest

\* As it would be if one more were let wait.
HasRoomByOne(a) == queued[a] <= QueueLimit

\* Another start may wait its turn.
HasRoom(a) == queued[a] < QueueLimit

\* A trigger starts it - or, while it runs, does as its rule says: the start is let go (a step
\* that changes nothing), waits its turn, or stops the run and waits to start afresh.
\* happening: someone arrived, which is never let go.
Trigger(a, happening) ==
  /\ Quiet /\ asks < MaxAsks /\ a \in Triggered /\ mode[a] = "on" /\ ~soon[a]
  /\ asks' = asks + 1
  /\ UNCHANGED <<mode, up, crashes>>
  /\ LET way == IF happening /\ Way[a] = "skip" THEN "queue" ELSE Way[a] IN
     \/ /\ a \notin running
        /\ StartTriggered(a, jobs)
        /\ UNCHANGED queued
     \/ /\ a \in running /\ way = "queue" /\ HasRoom(a)
        /\ queued' = [queued EXCEPT ![a] = @ + 1]
        /\ UNCHANGED <<runs, running, soon, jobs>>
     \/ /\ a \in running /\ way = "restart"
        /\ \E r \in RunsOf(a) :
             /\ Active(r)
             /\ LET after == IF Holding(r) THEN Stopped(r) ELSE runs
                IN  runs' = [after EXCEPT ![r].waiting = @ + 1]
             /\ jobs' = IF Holding(r) THEN Wakes(r) ELSE <<>>
        /\ UNCHANGED <<running, queued, soon>>

\* A person plays it; one that is off, deleted or running is refused, which changes nothing.
Play(a) ==
  /\ Quiet /\ asks < MaxAsks /\ a \in Playable /\ mode[a] = "on" /\ a \notin running
  /\ asks' = asks + 1
  /\ running' = running \cup {a}
  /\ runs' = Append(runs, NewRun(a, "person", Nobody))
  /\ jobs' = <<Job("run", Len(runs) + 1)>>
  /\ UNCHANGED <<mode, queued, soon, up, crashes>>

Next1(do) == up /\ jobs # <<>> /\ Head(jobs).do = do

Others == <<mode, queued, soon, up, asks, crashes>>

\* run(): it decides at once, unless its `only if` takes a while.
Run ==
  /\ Next1("run")
  /\ LET r == Head(jobs).run IN
     IF runs[r].of \in Slow THEN jobs' = Tail(jobs) /\ UNCHANGED runs
                            ELSE Begins(r, Tail(jobs))
  /\ UNCHANGED <<running, Others>>

\* Its `only if` is told: it holds, or it is not now.
Decide(r) ==
  /\ Quiet /\ runs[r].stage = "deciding"
  /\ Begins(r, jobs) \/ Settle(r, "idle", RowAtEnd(r), jobs)
  /\ UNCHANGED <<running, Others>>

-----------------------------------------------------------------------------
\* The walk of its steps.

\* #start refuses: off or deleted, running, in its own chain, or at the end of as long a chain as they go.
StartRefused(r) ==
  LET b == Starts[runs[r].of]
      chain == runs[r].chain \cup {runs[r].of}
  IN  mode[b] # "on" \/ b \in running \/ b \in chain \/ Cardinality(chain) >= ChainLimit

\* Starts another's run, which goes as far as it goes at once before this one waits for it to have begun.
StartStep(r) ==
  IF StartRefused(r)
  THEN Conclude(r, "failed", Tail(jobs)) /\ UNCHANGED running
  ELSE LET b == Starts[runs[r].of]
           child == Len(runs) + 1
       IN  /\ running' = running \cup {b}
           /\ runs' = Append([runs EXCEPT ![r].step = "starting", ![r].child = child],
                             NewRun(b, "run", r))
           /\ jobs' = <<Job("run", child), Job("attach", r)>> \o Tail(jobs)

\* It takes no further step: someone has stopped it.
Stopping(r) == runs[r].stopped

\* The next step is taken; after a stop, or the last, none is.
Walk ==
  /\ Next1("walk")
  /\ LET r == Head(jobs).run IN
     \/ /\ Stopping(r)
        /\ Conclude(r, "stopped", Tail(jobs))
        /\ UNCHANGED running
     \/ /\ ~Stopping(r) /\ runs[r].at > Len(Steps[runs[r].of])
        /\ Settle(r, "acted", RowAtEnd(r), Tail(jobs))
        /\ UNCHANGED running
     \/ /\ ~Stopping(r) /\ runs[r].at <= Len(Steps[runs[r].of])
        /\ StepOf(r) \in {"act", "wait"}
        /\ runs' = [runs EXCEPT ![r].step = IF StepOf(r) = "act" THEN "acting" ELSE "asleep",
                                ![r].retried = 0]
        /\ jobs' = Tail(jobs)
        /\ UNCHANGED running
     \/ /\ ~Stopping(r) /\ runs[r].at <= Len(Steps[runs[r].of])
        /\ StepOf(r) \in {"start", "startwait"}
        /\ StartStep(r)
  /\ UNCHANGED Others

\* The step succeeded, and the next is taken at once.
GoesOn(r, rest) ==
  /\ runs' = [runs EXCEPT ![r].step = "none", ![r].at = @ + 1, ![r].child = Nobody]
  /\ jobs' = <<Job("walk", r)>> \o rest

\* The gateway answers a command. Put off, it is sent again after a pause: once for the gateway's
\* gap (1), and once more for want of a fresh reading (2).
Answer(r) ==
  /\ Quiet /\ runs[r].step = "acting"
  /\ \/ runs[r].stage = "stepping" /\ GoesOn(r, jobs)
     \/ Conclude(r, "failed", jobs)
     \/ \E why \in {1, 2} :
          /\ runs[r].of \in Spaced /\ runs[r].retried < why
          /\ runs' = [runs EXCEPT ![r].step = "pausing", ![r].retried = why]
          /\ UNCHANGED jobs
  /\ UNCHANGED <<running, Others>>

\* The pause is over, or what it waits to hear is heard: the command is sent again.
SendAgain(r) ==
  /\ Quiet /\ runs[r].step = "pausing"
  /\ runs' = [runs EXCEPT ![r].step = "acting"]
  /\ UNCHANGED <<running, jobs, Others>>

\* What it waits for comes, or not in time; or it has waited long enough for the run it started,
\* or for a fresh reading.
WaitOver(r) ==
  /\ Quiet
  /\ \/ runs[r].step = "asleep" /\ GoesOn(r, jobs)
     \/ /\ \/ runs[r].step \in {"asleep", "awaiting"}
           \/ runs[r].step = "pausing" /\ runs[r].retried = 2
        /\ Conclude(r, "failed", jobs)
  /\ UNCHANGED <<running, Others>>

\* Its wait for the other run to have begun is attached: heard at once of one that has.
Attach ==
  /\ Next1("attach")
  /\ LET r == Head(jobs).run IN
     /\ runs' = [runs EXCEPT ![r].step = "beginning"]
     /\ jobs' = Tail(jobs) \o (IF runs[runs[r].child].at > 0 THEN <<Job("begun", r)>> ELSE <<>>)
  /\ UNCHANGED <<running, Others>>

\* The run it started has begun: it goes on, or waits for that run's end - stopped meanwhile or not.
Begun ==
  /\ Next1("begun")
  /\ LET r == Head(jobs).run IN
     \/ /\ runs[runs[r].child].outcome = "error"
        /\ Conclude(r, "failed", Tail(jobs))
     \/ /\ runs[runs[r].child].outcome # "error" /\ StepOf(r) = "start"
        /\ GoesOn(r, Tail(jobs))
     \/ /\ runs[runs[r].child].outcome # "error" /\ StepOf(r) = "startwait"
        /\ runs' = [runs EXCEPT ![r].step = "awaiting"]
        /\ jobs' = Tail(jobs)
  /\ UNCHANGED <<running, Others>>

\* The run it waits for has ended: done, if that run acted.
ChildEnded ==
  /\ Next1("childend")
  /\ LET r == Head(jobs).run IN
     \/ /\ runs[r].step # "awaiting"
        /\ jobs' = Tail(jobs) /\ UNCHANGED runs
     \/ /\ runs[r].step = "awaiting" /\ runs[runs[r].child].outcome = "acted"
        /\ GoesOn(r, Tail(jobs))
     \/ /\ runs[r].step = "awaiting" /\ runs[runs[r].child].outcome # "acted"
        /\ Conclude(r, "failed", Tail(jobs))
  /\ UNCHANGED <<running, Others>>

\* A wait woken by a stop: the step, and the steps, end as stopped.
Quit ==
  /\ Next1("quit")
  /\ Conclude(Head(jobs).run, "stopped", Tail(jobs))
  /\ UNCHANGED <<running, Others>>

\* Woken while it waits for another's run: whatever run of that automation is live stops too.
StopChild ==
  /\ Next1("stopchild")
  /\ LET r == Head(jobs).run
         live == {q \in RunsOf(Starts[runs[r].of]) : Holding(q) /\ runs[q].of \in Sequences}
     IN  IF live = {}
         THEN jobs' = <<Job("quit", r)>> \o Tail(jobs) /\ UNCHANGED runs
         ELSE \E q \in live :
                /\ runs' = Stopped(q)
                /\ jobs' = <<Job("quit", r)>> \o Tail(jobs) \o Wakes(q)
  /\ UNCHANGED <<running, Others>>
-----------------------------------------------------------------------------
\* What follows a run's end.

\* #ending settles: each start that waits for it is to go on.
Caught ==
  /\ Next1("caught")
  /\ LET r == Head(jobs).run IN
     jobs' = Tail(jobs) \o [i \in 1..runs[r].waiting |-> Job("fresh", r)]
  /\ UNCHANGED <<runs, running, Others>>

\* As it would be if nobody looked whether another got in first.
GotInNever(a) == FALSE

\* Another start got in first.
GotIn(a) == a \in running

\* A start that waited to start afresh: let go if another got in first.
Fresh ==
  /\ Next1("fresh")
  /\ LET a == runs[Head(jobs).run].of IN
     \/ /\ GotIn(a)
        /\ jobs' = Tail(jobs) /\ UNCHANGED <<runs, running, soon>>
     \/ /\ ~GotIn(a)
        /\ StartTriggered(a, Tail(jobs))
  /\ UNCHANGED <<mode, queued, up, asks, crashes>>

\* A run that was asked for has ended: whoever waits for it to have begun hears so.
Then ==
  /\ Next1("then")
  /\ LET r == Head(jobs).run IN
     jobs' = Tail(jobs)
               \o (IF Awaited(r) /\ runs[r].at = 0 THEN <<Job("begun", runs[r].parent)>> ELSE <<>>)
               \o <<Job("finally", r)>>
  /\ UNCHANGED <<runs, running, Others>>

\* There is a start to take now: not of one turned off or deleted since.
NextUp(a) == queued[a] > 0 /\ mode[a] = "on"

\* As it would be if the queue of one turned off were kept.
LeftInQueueKept(a) == IF NextUp(a) THEN queued[a] - 1 ELSE queued[a]

\* What goes on waiting: nothing of one turned off or deleted since.
LeftInQueue(a) == IF NextUp(a) THEN queued[a] - 1 ELSE 0

\* #ended: its place is given up, and the next start it queued is taken - or let go, if its
\* trigger started it too lately.
Ended(r, rest) ==
  LET a == runs[r].of
      over == [runs EXCEPT ![r].stage = "over"]
  IN  /\ queued' = [queued EXCEPT ![a] = LeftInQueue(a)]
      /\ \/ /\ NextUp(a) /\ ~soon[a]
            /\ runs' = Append(over, NewRun(a, "trigger", Nobody))
            /\ soon' = [soon EXCEPT ![a] = a \in Paced]
            /\ jobs' = <<Job("run", Len(runs) + 1)>> \o rest
            /\ UNCHANGED running
         \/ /\ ~NextUp(a) \/ soon[a]
            /\ runs' = over /\ running' = running \ {a} /\ jobs' = rest
            /\ UNCHANGED soon

\* The end of a run a trigger started.
EndedTriggered ==
  /\ Next1("ended")
  /\ Ended(Head(jobs).run, Tail(jobs))
  /\ UNCHANGED <<mode, up, asks, crashes>>

\* The end of a run that was asked for: a step that waits for it hears last.
Finally ==
  /\ Next1("finally")
  /\ LET r == Head(jobs).run IN
     Ended(r, Tail(jobs) \o (IF runs[r].parent # Nobody THEN <<Job("childend", runs[r].parent)>> ELSE <<>>))
  /\ UNCHANGED <<mode, up, asks, crashes>>

-----------------------------------------------------------------------------
\* People and the server.

\* A run that takes steps is stopped by a person.
Stop(r) ==
  /\ Quiet /\ Holding(r) /\ runs[r].of \in Sequences /\ ~runs[r].stopped
  /\ runs' = Stopped(r)
  /\ jobs' = Wakes(r)
  /\ UNCHANGED <<running, Others>>

\* It is turned off, or let act again: what it runs goes on, and what its triggers kept starts afresh.
Turn(a) ==
  /\ Quiet /\ asks < MaxAsks /\ mode[a] \in {"on", "off"}
  /\ asks' = asks + 1
  /\ mode' = [mode EXCEPT ![a] = IF @ = "on" THEN "off" ELSE "on"]
  /\ soon' = [soon EXCEPT ![a] = FALSE]
  /\ UNCHANGED <<runs, running, queued, jobs, up, crashes>>

\* The run that is stopped as its automation goes.
Forgotten(a) == {q \in RunsOf(a) : Holding(q)}

\* It is deleted: its rows and its queue go with it, and the run that holds its parts is stopped.
Delete(a) ==
  /\ Quiet /\ asks < MaxAsks /\ mode[a] # "gone"
  /\ asks' = asks + 1
  /\ mode' = [mode EXCEPT ![a] = "gone"]
  /\ queued' = [queued EXCEPT ![a] = 0]
  /\ soon' = [soon EXCEPT ![a] = FALSE]
  /\ LET rowless == [q \in DOMAIN runs |->
                       IF runs[q].of = a /\ runs[q].row # "none" THEN [runs[q] EXCEPT !.row = "gone"] ELSE runs[q]]
     IN  IF Forgotten(a) = {}
         THEN runs' = rowless /\ UNCHANGED jobs
         ELSE \E r \in Forgotten(a) :
                /\ runs' = [rowless EXCEPT ![r].gone = TRUE, ![r].stopped = TRUE,
                                           ![r].step = Stopped(r)[r].step]
                /\ jobs' = Wakes(r)
  /\ UNCHANGED <<running, up, crashes>>

\* Its `at most every` has gone by.
LaterOn(a) ==
  /\ Quiet /\ soon[a]
  /\ soon' = [soon EXCEPT ![a] = FALSE]
  /\ UNCHANGED <<mode, runs, running, queued, jobs, up, asks, crashes>>

\* What is left of a run once nothing in memory is: its row.
LostRun(r) ==
  [NewRun(runs[r].of, "trigger", Nobody) EXCEPT
     !.root = r, !.stage = "over", !.outcome = "lost", !.row = runs[r].row]

\* The server stops between any two things it does: what it held in memory is lost, rows stay.
Crash ==
  /\ up /\ crashes < MaxCrashes
  /\ crashes' = crashes + 1
  /\ up' = FALSE
  /\ runs' = [r \in DOMAIN runs |-> LostRun(r)]
  /\ running' = {} /\ jobs' = <<>>
  /\ queued' = [a \in Automations |-> 0]
  /\ UNCHANGED <<mode, soon, asks>>

\* As it would be if only those of automations still let act were looked at.
UnendedLetAct(r) == runs[r].row = "running" /\ mode[runs[r].of] = "on"

\* A row that never ended.
Unended(r) == runs[r].row = "running"

\* It starts again: endInterrupted ends every row that never ended, before anything is started.
Boot ==
  /\ ~up
  /\ up' = TRUE
  /\ runs' = [r \in DOMAIN runs |->
                IF Unended(r) THEN [runs[r] EXCEPT !.row = "interrupted"] ELSE runs[r]]
  /\ UNCHANGED <<mode, running, queued, soon, jobs, asks, crashes>>

-----------------------------------------------------------------------------
\* A promise callback is called.
Call ==
  \/ Run \/ Walk \/ Attach \/ Begun \/ ChildEnded \/ Quit \/ StopChild
  \/ Caught \/ Fresh \/ Then \/ EndedTriggered \/ Finally

\* What a run waits for comes.
Comes(r) == Decide(r) \/ Answer(r) \/ SendAgain(r) \/ WaitOver(r)

Next ==
  \/ Call
  \/ \E r \in DOMAIN runs : Comes(r) \/ Stop(r)
  \/ \E a \in Automations :
       \/ \E happening \in BOOLEAN : Trigger(a, happening)
       \/ Play(a) \/ Turn(a) \/ Delete(a) \/ LaterOn(a)
  \/ Crash \/ Boot

Spec == Init /\ [][Next]_vars

\* Callbacks are always called.  A service answers or times out, the gateway answers every
\* command (Gateway!Answered), and a timer goes off: whatever a run waits for comes.
Fairness ==
  /\ WF_vars(Call)
  /\ \A r \in 1..MaxRuns : WF_vars(r \in DOMAIN runs /\ Comes(r))

FairSpec == Spec /\ Fairness

-----------------------------------------------------------------------------
RunRecords ==
  [of      : Automations,
   by      : {"trigger", "person", "run"},
   parent  : Nat,
   root    : Nat \ {0},
   chain   : SUBSET Automations,
   stage   : {"deciding", "stepping", "falling", "settled", "over"},
   at      : Nat,
   step    : {"none", "acting", "pausing", "asleep", "starting", "beginning", "awaiting", "woken"},
   retried : {0, 1, 2},
   child   : Nat,
   stopped : BOOLEAN,
   gone    : BOOLEAN,
   waiting : Nat,
   outcome : {"running", "acted", "failed", "stopped", "idle", "refused", "error", "lost"},
   row     : {"none", "running", "ended", "interrupted", "gone"}]

JobKinds == {"run", "walk", "attach", "begun", "childend", "quit", "stopchild", "caught",
             "fresh", "then", "ended", "finally"}

(* The type invariant: every variable holds what the code's maps and records can. *)
TypeOK ==
  /\ mode \in [Automations -> {"on", "off", "gone"}]
  /\ runs \in Seq(RunRecords)
  /\ running \subseteq Automations
  /\ queued \in [Automations -> 0..QueueLimit]
  /\ soon \in [Automations -> BOOLEAN]
  /\ jobs \in Seq([do : JobKinds, run : DOMAIN runs])
  /\ up \in BOOLEAN /\ asks \in 0..MaxAsks /\ crashes \in 0..MaxCrashes

(* One run of an automation at a time (the class comment, runs.ts:57-64): whatever started  *)
(* them - triggers, people, other runs, a queue, a start afresh - and wherever they stand,   *)
(* no two runs of one automation are under way, and one under way keeps every other out.     *)
OneRunEach ==
  \A r \in DOMAIN runs : Active(r) =>
    /\ runs[r].of \in running
    /\ \A q \in RunsOf(runs[r].of) : Active(q) => q = r

\* The chains that hold a part.
HeldBy(p) == {runs[r].root : r \in {q \in DOMAIN runs : Holding(q) /\ p \in Changes[runs[q].of]}}

Turns == INSTANCE PartTurns WITH Chains <- 1..MaxRuns, held <- [p \in Parts |-> HeldBy(p)]

(* Automations take turns with a part (docs/AUTOMATIONS.md:268-271): every step of the engine *)
(* is a chain taking all its parts while no other holds one, a chain letting go, or nothing.  *)
TurnsTaken == Turns!Spec

(* No chain keeps a part for ever, so what starts the others can start them again.           *)
PartsComeFree == Turns!FairSpec

(* What is said to be running is (endInterrupted, #moved, deletion): while the server is up, *)
(* the only rows that have not ended are those of runs that hold their parts now.            *)
SaidRunning ==
  up => \A r \in DOMAIN runs : runs[r].row = "running" <=> Holding(r) /\ runs[r].of \in Sequences /\ ~runs[r].gone

(* A start that is to stop the run and start afresh does (runs.ts:178-180): once that run is *)
(* over and nothing is left to call, a later run of the automation has begun in its place.   *)
StartsAfresh ==
  Quiet => \A r \in DOMAIN runs :
    runs[r].waiting > 0 /\ ~Active(r) /\ mode[runs[r].of] # "gone"
      => \E q \in RunsOf(runs[r].of) : q > r

(* A run stopped stops the one it waits for (docs/SEQUENCES.md:255-256): a stopped run is    *)
(* never left beside the unstopped run that its step started and waits for.                  *)
StopPassesOn ==
  Quiet => \A r \in DOMAIN runs :
    LET c == runs[r].child IN
    c # Nobody /\ StepOf(r) = "startwait"
      /\ runs[r].stopped /\ (runs[r].step = "awaiting" \/ runs[r].outcome = "stopped")
      /\ Holding(c) /\ runs[c].of \in Sequences
      => runs[c].stopped

(* Each queued start is taken once the run before it ends (#queued, runs.ts:140): starts      *)
(* wait only behind a run that is under way.                                                 *)
QueueTaken == Quiet => \A a \in Automations : queued[a] > 0 => a \in running

(* An automation that was deleted does not come back (forget, runs.ts:160-168): nothing starts *)
(* it - no start it had queued, none that waited to start it afresh, no step of another's run  *)
(* - and no row of it is written, by a run it had nor by the server starting again.            *)
GoneStaysGone ==
  [][\A r \in DOMAIN runs' :
       mode[runs'[r].of] = "gone" => r \in DOMAIN runs /\ runs'[r].row \in {"none", "gone"}]_vars

(* Every run ends, whatever fails, is stopped or is asked of it: all of them, there being no *)
(* more than MaxRuns.                                                                        *)
RunsEnd ==
  /\ [](Len(runs) <= MaxRuns)
  /\ \A r \in 1..MaxRuns : (r \in DOMAIN runs /\ Active(r)) ~> (r \in DOMAIN runs /\ ~Active(r))

(* Every start that waits its turn is taken or let go, of an automation that may start again  *)
(* at once: with an `at most every` the next may come too soon after the last and is let go    *)
(* with nothing running, and those behind it are left (runs.ts:237-238).                       *)
QueueDrains == \A a \in Automations \ Paced : (queued[a] > 0) ~> (queued[a] = 0)
=============================================================================
