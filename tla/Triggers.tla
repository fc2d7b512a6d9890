------------------------------ MODULE Triggers ------------------------------
(***************************************************************************)
(* When an automation starts on its own                                    *)
(* (packages/automation-engine/src/triggers.ts): by the clock, and when a  *)
(* condition becomes true or has stayed true as long as it must, with what *)
(* each saw kept so that a restart neither loses a hold nor fires one      *)
(* twice.                                                                  *)
(*                                                                         *)
(* One thread runs it all: while a tick goes through its list nothing else *)
(* happens, except where it waits for a run of commands alone.  Time is    *)
(* counted in looks (TICK_MS): the clock moves on once the look is taken   *)
(* and no timer is due.  How a run goes is the module Runs; here one is    *)
(* only going or not.                                                      *)
(***************************************************************************)
EXTENDS Integers, Sequences, FiniteSets

CONSTANTS
  None,         \* nothing kept, nothing waited for
  Automations,  \* their ids, each with one trigger
  List,         \* store.list(): the order a tick goes through them
  Clocked,      \* those started by the clock; the others by a condition
  Slots,        \* [Clocked -> SUBSET Nat]: when the clock starts each
  Grace,        \* GRACE_MS, in looks
  Hold,         \* [Automations -> Nat]: how long its condition is to hold
  Way,          \* [Automations -> {"skip", "queue"}]: whileRunning
  Sequences,    \* those that take steps: a tick does not wait for them
  World,        \* those that wait for people and places: seen, not found
  Echoes,       \* those whose own run may set a variable their condition reads
  QueueLimit,   \* SEQUENCE_LIMITS.queued
  Horizon,      \* bound: where the clock's time of day stops
  MaxMoves      \* bound: how often a condition changes, an automation is edited, turned on or
                \* off, deleted or played, and the server stops, together

Versions == {1, 2}
Answers  == {"yes", "no", "unknown"}
Never    == -1

\* What can be known of a condition: how it was last seen, for how long, and whether that is dealt with.
States == [last : BOOLEAN, age : Nat, fired : BOOLEAN]

ASSUME TriggersAssumption ==
  /\ None \notin Automations /\ None \notin Versions /\ None \notin States
  /\ List \in Seq(Automations) /\ Clocked \subseteq Automations
  /\ Slots \in [Clocked -> SUBSET Nat] /\ Hold \in [Automations -> Nat]
  /\ Way \in [Automations -> {"skip", "queue"}]
  /\ Sequences \subseteq Automations /\ World \subseteq Automations \ Clocked
  /\ Echoes \subseteq Automations \ Clocked
  /\ {Grace, QueueLimit, Horizon, MaxMoves} \subseteq Nat

VARIABLES
  \* kept in the store
  mode,       \* each automation: on, off, or gone
  version,    \* which of its rules it has now
  kept,       \* automation_trigger: what its condition was, or None
  startedAt,  \* automation_trigger_start: when its trigger last started it
  lastRun,    \* when its last run began, as far as a run of it was recorded
  \* held by the server
  becoming,   \* #becoming: what its condition was, or None
  hold,       \* the rule whose hold is waited out, or None
  running,    \* when the run it takes began, or Never
  queued,     \* the starts that wait for that run: a slot, or Never
  tick,       \* the look in progress
  poked,      \* the automation to be looked at now that it changed, or None
  ticked,     \* whether this moment's look was taken
  up,         \* whether the server is
  \* the world
  now,        \* the clock
  cond,       \* what each rule's condition is
  moves,
  \* what has happened, for the properties
  edge,       \* starts since its condition was last seen not to hold
  since,      \* for how long its condition has been seen to hold, or Never
  slotted,    \* how often each slot started it
  lost,       \* the server stopped before their run began, or before it was recorded
  touched     \* changed while a tick waited: the tick has it as it was

memory  == <<becoming, hold, running, queued, tick, ticked, poked>>
world   == <<now, cond>>
history == <<edge, since, slotted, lost, touched>>
vars == <<mode, version, kept, startedAt, lastRun, memory, up, world, moves, history>>

Fresh == [last |-> FALSE, age |-> 0, fired |-> FALSE]
Idle  == [stage |-> "idle", rest |-> <<>>, at |-> 0]

Init ==
  /\ mode = [a \in Automations |-> "on"] /\ version = [a \in Automations |-> 1]
  /\ kept = [a \in Automations |-> None]
  /\ startedAt = [a \in Clocked |-> Never] /\ lastRun = [a \in Clocked |-> Never]
  /\ becoming = [a \in Automations |-> None] /\ hold = [a \in Automations |-> None]
  /\ running = [a \in Automations |-> Never] /\ queued = [a \in Automations |-> <<>>]
  /\ tick = Idle /\ ticked = FALSE /\ poked = None /\ up = TRUE
  /\ now = 0 /\ cond = [a \in Automations |-> [v \in Versions |-> "no"]]
  /\ moves = 0
  /\ edge = [a \in Automations |-> 0] /\ since = [a \in Automations |-> Never]
  /\ slotted = [a \in Clocked |-> [t \in Slots[a] |-> 0]]
  /\ lost = {} /\ touched = {}

\* Nothing is in the middle of what it does: something from outside may come.
Free == up /\ tick.stage # "going" /\ poked = None

Busy(a) == running[a] # Never

\* When a run begins, and where that is written down, as far as the clock's slots ask for it.
Moment(a) == IF a \in Clocked THEN now ELSE 0
Written(f, a, t) == [b \in Clocked |-> IF b = a THEN t ELSE f[b]]

-----------------------------------------------------------------------------
\* Starting one (runs.ts, runAndKeep): s is the slot it is started for, or Never.

Least(S) == CHOOSE m \in S : \A n \in S : m <= n

Began(a, s) ==
  slotted' = IF s = Never THEN slotted ELSE [slotted EXCEPT ![a][s] = @ + 1]

Begin(a, s) ==
  /\ running' = [running EXCEPT ![a] = Moment(a)]
  /\ startedAt' = Written(startedAt, a, now)
  /\ lastRun' = IF a \in Sequences THEN Written(lastRun, a, now) ELSE lastRun
  /\ Began(a, s)

RunAndKeep(a, s) ==
  IF ~Busy(a) THEN Begin(a, s) /\ UNCHANGED queued
  ELSE /\ queued' = IF Way[a] = "queue" /\ Len(queued[a]) < QueueLimit
                    THEN [queued EXCEPT ![a] = Append(@, s)] ELSE queued
       /\ UNCHANGED <<running, startedAt, lastRun, slotted>>

-----------------------------------------------------------------------------
\* A condition looked at (#becomes).

\* As it would be if what was kept were not read back.
EntryForgotten(a, v) ==
  IF becoming[a] # None THEN becoming[a]
  ELSE IF a \in World THEN [last |-> cond[a][v] = "yes", age |-> 0, fired |-> cond[a][v] = "yes"]
  ELSE Fresh

\* What is known of it: held, kept, or nothing - as if it had been false, or, of people and
\* places, as it is found.
Entry(a, v) == IF becoming[a] = None /\ kept[a] # None THEN kept[a] ELSE EntryForgotten(a, v)

\* Its state, once looked at and found true.
Turned(a, v, quiet) ==
  LET e == Entry(a, v) IN IF e.last THEN e ELSE [last |-> TRUE, age |-> 0, fired |-> quiet]

Keep(a, e) ==
  /\ becoming' = [becoming EXCEPT ![a] = e]
  /\ kept' = [kept EXCEPT ![a] = e]

\* A start its condition asks for is let go: turned off, gone, or still taking its steps.
LetsGo(a) == mode[a] # "on" \/ (Busy(a) /\ Way[a] = "skip")

\* As it would be if a start that is let go counted as dealt with.
FireLetGo(a, e) ==
  /\ hold' = [hold EXCEPT ![a] = None]
  /\ Keep(a, [e EXCEPT !.fired = TRUE])
  /\ IF LetsGo(a) THEN UNCHANGED <<running, startedAt, lastRun, queued, slotted, edge>>
     ELSE edge' = [edge EXCEPT ![a] = @ + 1] /\ RunAndKeep(a, Never)

Fire(a, e) ==
  /\ hold' = [hold EXCEPT ![a] = None]
  /\ IF LetsGo(a)
     THEN Keep(a, e) /\ UNCHANGED <<running, startedAt, lastRun, queued, slotted, edge>>
     ELSE /\ Keep(a, [e EXCEPT !.fired = TRUE])
          /\ edge' = [edge EXCEPT ![a] = @ + 1]
          /\ RunAndKeep(a, Never)

NothingStarts == UNCHANGED <<running, startedAt, lastRun, queued, slotted, edge>>

\* Unknown changes nothing: neither a start nor an end.
LookUnknown(a, v) ==
  /\ cond[a][v] = "unknown"
  /\ NothingStarts /\ UNCHANGED <<becoming, kept, hold, since>>

\* As it would be if a condition that ended left its state as it was.
EndsNothing(a, e) == UNCHANGED <<becoming, kept>>

\* It does not hold: what was known of it is let go.
Ends(a, e) ==
  /\ becoming' = [becoming EXCEPT ![a] = Fresh]
  /\ kept' = IF e = Fresh THEN kept ELSE [kept EXCEPT ![a] = Fresh]

LookNo(a, v) ==
  /\ cond[a][v] = "no"
  /\ Ends(a, Entry(a, v))
  /\ hold' = [hold EXCEPT ![a] = None]
  /\ since' = IF v = version[a] THEN [since EXCEPT ![a] = Never] ELSE since
  /\ edge' = IF v = version[a] THEN [edge EXCEPT ![a] = 0] ELSE edge
  /\ UNCHANGED <<running, startedAt, lastRun, queued, slotted>>

LookYes(a, v, quiet) ==
  /\ cond[a][v] = "yes"
  /\ since' = IF v = version[a] /\ since[a] = Never THEN [since EXCEPT ![a] = 0] ELSE since
  /\ LET e == Turned(a, v, quiet) IN
     IF quiet \/ e.fired THEN Keep(a, e) /\ NothingStarts /\ UNCHANGED hold
     ELSE IF e.age >= Hold[a] THEN Fire(a, e)
     ELSE /\ Keep(a, e) /\ NothingStarts
          /\ hold' = IF hold[a] = None THEN [hold EXCEPT ![a] = v] ELSE hold

Becomes(a, v, quiet) == LookUnknown(a, v) \/ LookNo(a, v) \/ LookYes(a, v, quiet)

\* A condition found true is written down - as it is turned true, or, of people and places, as it
\* is found - and of an automation whose row is gone the write fails, and so does the look.  What
\* the look leaves in memory then is of one nothing looks at again.
Refused(a, v) == mode[a] = "gone" /\ cond[a][v] = "yes"

-----------------------------------------------------------------------------
\* What comes from outside, between one callback and the next.

\* A reading, a place or a variable moved: what reads it is looked at (hear, #heardWorld).
Hear(a, quiet) ==
  /\ Free /\ a \notin Clocked /\ mode[a] = "on"
  /\ quiet => a \in Echoes /\ Busy(a)
  /\ Becomes(a, version[a], quiet)
  /\ UNCHANGED <<mode, version, tick, ticked, poked, up, world, moves, lost, touched>>

HoldIsOver(a) == hold[a] # None /\ becoming[a].age >= Hold[a]

\* Still true, all this time?  Only then.
HeldThrough(a) == cond[a][hold[a]] = "yes"

HoldOver(a) ==
  /\ Free /\ HoldIsOver(a)
  /\ IF HeldThrough(a) THEN Fire(a, becoming[a])
     ELSE hold' = [hold EXCEPT ![a] = None] /\ NothingStarts /\ UNCHANGED <<becoming, kept>>
  /\ UNCHANGED <<mode, version, tick, ticked, poked, up, world, moves, since, lost, touched>>

\* What the tick has looked at is behind it.
Onward == [tick EXCEPT !.rest = Tail(@), !.stage = IF Len(tick.rest) = 1 THEN "idle" ELSE "going"]

\* A run ended.  The next start it made wait is taken - as the automation is now, unless it has
\* been turned off or deleted since - and a tick that waited for the run goes on.
RunEnds(a) ==
  /\ Free /\ Busy(a)
  /\ LET recorded == IF a \in Sequences \/ mode[a] = "gone" THEN lastRun
                     ELSE Written(lastRun, a, running[a])
     IN IF queued[a] # <<>> /\ mode[a] = "on"
        THEN /\ running' = [running EXCEPT ![a] = Moment(a)]
             /\ startedAt' = Written(startedAt, a, now)
             /\ queued' = [queued EXCEPT ![a] = Tail(@)]
             /\ lastRun' = IF a \in Sequences THEN Written(recorded, a, now) ELSE recorded
             /\ Began(a, Head(queued[a]))
        ELSE /\ running' = [running EXCEPT ![a] = Never]
             /\ queued' = [queued EXCEPT ![a] = <<>>]
             /\ lastRun' = recorded /\ UNCHANGED <<startedAt, slotted>>
  /\ tick' = IF tick.stage = "waiting" /\ Head(tick.rest).of = a
             THEN Onward ELSE tick
  /\ UNCHANGED <<mode, version, kept, becoming, hold, ticked, poked, up, world, moves,
                 edge, since, lost, touched>>

\* A person plays it: started now, whatever its trigger.
Play(a) ==
  /\ Free /\ moves < MaxMoves /\ mode[a] = "on" /\ ~Busy(a)
  /\ running' = [running EXCEPT ![a] = Moment(a)]
  /\ lastRun' = IF a \in Sequences THEN Written(lastRun, a, now) ELSE lastRun
  /\ moves' = moves + 1
  /\ UNCHANGED <<mode, version, kept, startedAt, becoming, hold, queued, tick, ticked, poked, up, world,
                 history>>

Waits == tick.stage = "waiting"

\* As it would be if what was kept of its condition outlived the change.
ResetHeld(a) ==
  /\ becoming' = [becoming EXCEPT ![a] = None] /\ hold' = [hold EXCEPT ![a] = None]
  /\ startedAt' = Written(startedAt, a, Never) /\ UNCHANGED kept

\* As it would be if a hold went on after the change.
ResetStore(a) ==
  /\ becoming' = [becoming EXCEPT ![a] = None] /\ kept' = [kept EXCEPT ![a] = None]
  /\ startedAt' = Written(startedAt, a, Never) /\ UNCHANGED hold

\* What its conditions were is forgotten, and when each trigger last started it.
Reset(a) ==
  /\ becoming' = [becoming EXCEPT ![a] = None]
  /\ hold' = [hold EXCEPT ![a] = None]
  /\ kept' = [kept EXCEPT ![a] = None]
  /\ startedAt' = Written(startedAt, a, Never)

Afresh(a, on) ==
  /\ poked' = IF on THEN a ELSE None
  /\ moves' = moves + 1
  /\ edge' = [edge EXCEPT ![a] = 0] /\ since' = [since EXCEPT ![a] = Never]
  /\ touched' = IF Waits THEN touched \cup {a} ELSE touched
  /\ UNCHANGED <<running, lastRun, queued, tick, ticked, up, world, slotted, lost>>

\* What it does is changed: its triggers start afresh, and it is looked at at once.
Edit(a) ==
  /\ Free /\ moves < MaxMoves /\ mode[a] = "on" /\ version[a] = 1
  /\ version' = [version EXCEPT ![a] = 2]
  /\ Reset(a) /\ Afresh(a, TRUE) /\ UNCHANGED mode

\* Turned on, or off.
Turn(a) ==
  /\ Free /\ moves < MaxMoves /\ mode[a] # "gone"
  /\ mode' = [mode EXCEPT ![a] = IF @ = "on" THEN "off" ELSE "on"]
  /\ Reset(a) /\ Afresh(a, mode[a] = "off") /\ UNCHANGED version

\* Looked at before anything else, now that it changed (poke).
Poke ==
  /\ poked # None /\ poked' = None
  /\ IF poked \in Clocked THEN NothingStarts /\ UNCHANGED <<becoming, kept, hold, since>>
     ELSE Becomes(poked, version[poked], FALSE)
  /\ UNCHANGED <<mode, version, tick, ticked, up, world, moves, lost, touched>>

\* Deleted: what was kept of it goes with its row, and what waited its turn.
Delete(a) ==
  /\ Free /\ moves < MaxMoves /\ mode[a] # "gone"
  /\ mode' = [mode EXCEPT ![a] = "gone"]
  /\ becoming' = [becoming EXCEPT ![a] = None] /\ hold' = [hold EXCEPT ![a] = None]
  /\ kept' = [kept EXCEPT ![a] = None] /\ startedAt' = Written(startedAt, a, Never)
  /\ queued' = [queued EXCEPT ![a] = <<>>] /\ lastRun' = Written(lastRun, a, Never)
  /\ moves' = moves + 1
  /\ edge' = [edge EXCEPT ![a] = 0] /\ since' = [since EXCEPT ![a] = Never]
  /\ touched' = IF Waits THEN touched \cup {a} ELSE touched
  /\ UNCHANGED <<version, running, tick, ticked, poked, up, world, slotted, lost>>

-----------------------------------------------------------------------------
\* The look at what is due by the clock (tick).

Snapshot(a) == [of |-> a, mode |-> mode[a], version |-> version[a],
                lastRun |-> IF a \in Clocked THEN lastRun[a] ELSE Never]

\* One tick at a time: one that still waits lets this one go.
TickBegins ==
  /\ Free /\ ~ticked
  /\ ticked' = TRUE
  /\ tick' = IF tick.stage = "waiting" THEN tick
             ELSE [stage |-> IF List = <<>> THEN "idle" ELSE "going",
                   rest |-> [i \in DOMAIN List |-> Snapshot(List[i])], at |-> now]
  /\ UNCHANGED <<mode, version, kept, startedAt, lastRun, becoming, hold, running, queued, poked,
                 up, world, moves, history>>

\* As it would be if an automation that starts afresh forgot the slot it already ran in.
DueAfresh(s) == {t \in Slots[s.of] : t <= tick.at /\ tick.at - t <= Grace /\ startedAt[s.of] < t}

\* Its slots that have come, not too late, and that it has not run since (#dueAt, #dueEvery).
DueSlots(s) ==
  LET last == IF startedAt[s.of] # Never THEN startedAt[s.of] ELSE s.lastRun
  IN {t \in Slots[s.of] : t <= tick.at /\ tick.at - t <= Grace /\ last < t}

TickClock ==
  /\ tick.stage = "going"
  /\ LET s == Head(tick.rest) IN
     /\ s.mode = "on" /\ s.of \in Clocked /\ DueSlots(s) # {}
     /\ mode[s.of] # "gone" \/ Busy(s.of)
     /\ RunAndKeep(s.of, Least(DueSlots(s)))
     /\ tick' = IF s.of \in Sequences \/ Busy(s.of) THEN Onward
                ELSE [tick EXCEPT !.stage = "waiting"]
  /\ UNCHANGED <<mode, version, kept, becoming, hold, ticked, poked, up, world, moves,
                 edge, since, lost, touched>>

TickCondition ==
  /\ tick.stage = "going"
  /\ LET s == Head(tick.rest) IN
     /\ s.mode = "on" /\ s.of \notin Clocked /\ ~Refused(s.of, s.version)
     /\ Becomes(s.of, s.version, FALSE)
  /\ tick' = Onward
  /\ UNCHANGED <<mode, version, ticked, poked, up, world, moves, lost, touched>>

\* Nothing to do for the next of its list - turned off, or already deleted as the tick began; one
\* deleted since cannot be written of, which ends the tick, but where it started what it does not
\* wait for.
TickPasses ==
  /\ tick.stage = "going"
  /\ LET s == Head(tick.rest)
         nothing == s.mode # "on" \/ (s.of \in Clocked /\ DueSlots(s) = {})
         fails == ~nothing /\ IF s.of \in Clocked THEN mode[s.of] = "gone" /\ ~Busy(s.of)
                              ELSE Refused(s.of, s.version)
     IN /\ nothing \/ fails
        /\ tick' = IF fails /\ ~(s.of \in Clocked /\ s.of \in Sequences) THEN Idle ELSE Onward
  /\ UNCHANGED <<mode, version, kept, startedAt, lastRun, becoming, hold, running, queued, ticked,
                 poked, up, world, moves, history>>

-----------------------------------------------------------------------------
\* The server stops and starts, the clock moves on, the world changes.

\* What a server that stops no longer holds.  The runs it had are ended as it starts.
Gone ==
  /\ up' = FALSE /\ moves' = moves + 1
  /\ becoming' = [a \in Automations |-> None] /\ hold' = [a \in Automations |-> None]
  /\ running' = [a \in Automations |-> Never] /\ queued' = [a \in Automations |-> <<>>]
  /\ tick' = Idle /\ ticked' = FALSE /\ poked' = None

\* A run of commands alone is recorded once it is done: one the server stops in is not.
Unrecorded == {a \in Automations \ Sequences : Busy(a)}

Stop ==
  /\ Free /\ moves < MaxMoves
  /\ Gone /\ lost' = lost \cup Unrecorded
  /\ UNCHANGED <<mode, version, kept, startedAt, lastRun, world, edge, since, slotted,
                 touched>>

\* It stops once a condition's being dealt with is kept, and before its run is.
StopsBetween(a) ==
  /\ Free /\ moves < MaxMoves /\ a \notin Clocked /\ mode[a] = "on" /\ ~Busy(a)
  /\ cond[a][version[a]] = "yes"
  /\ LET e == Turned(a, version[a], FALSE) IN
     /\ ~e.fired /\ e.age >= Hold[a]
     /\ kept' = [kept EXCEPT ![a] = [e EXCEPT !.fired = TRUE]]
  /\ lost' = lost \cup Unrecorded \cup {a}
  /\ Gone
  /\ UNCHANGED <<mode, version, startedAt, lastRun, world, edge, since, slotted, touched>>

Start ==
  /\ ~up /\ up' = TRUE
  /\ UNCHANGED <<mode, version, kept, startedAt, lastRun, memory, world, moves, history>>

Older(e, h) == IF e = None THEN e ELSE IF e.last /\ e.age < h THEN [e EXCEPT !.age = @ + 1] ELSE e

\* The clock moves on, whether the server is up or not: a hold is timed by it.  The time of day
\* stays once it is past every slot; ticks go on.
Pass ==
  /\ up => Free /\ ticked /\ \A a \in Automations : ~HoldIsOver(a)
  /\ now' = IF now < Horizon THEN now + 1 ELSE now
  /\ ticked' = FALSE
  /\ becoming' = [a \in Automations |-> Older(becoming[a], Hold[a])]
  /\ kept' = [a \in Automations |-> Older(kept[a], Hold[a])]
  /\ since' = [a \in Automations |-> IF since[a] = Never \/ since[a] = Hold[a] THEN since[a]
                                     ELSE since[a] + 1]
  /\ UNCHANGED <<mode, version, startedAt, lastRun, hold, running, queued, tick, poked, up, cond,
                 moves, edge, slotted, lost, touched>>

\* A condition comes to hold, no longer holds, or is not known.
Tell(a) ==
  /\ moves < MaxMoves /\ a \notin Clocked
  /\ up => Free
  /\ \E v \in 1 .. version[a], c \in Answers :
       cond[a][v] # c /\ cond' = [cond EXCEPT ![a][v] = c]
  /\ moves' = moves + 1
  /\ UNCHANGED <<mode, version, kept, startedAt, lastRun, memory, up, now, history>>

Next ==
  \/ \E a \in Automations : \/ \E quiet \in BOOLEAN : Hear(a, quiet)
                            \/ HoldOver(a) \/ RunEnds(a) \/ Play(a)
                            \/ Edit(a) \/ Turn(a) \/ Delete(a)
                            \/ StopsBetween(a) \/ Tell(a)
  \/ Poke \/ TickBegins \/ TickClock \/ TickCondition \/ TickPasses
  \/ Stop \/ Start \/ Pass

Spec == Init /\ [][Next]_vars

\* The engine's timers come, what is at hand is done, the clock moves on, a run ends (its steps
\* have their limits), and a server that stopped is started again.  The end of a run waits while
\* a tick is in progress and is not passed over for ever, so its fairness is strong.
Fairness ==
  /\ WF_vars(TickBegins) /\ WF_vars(TickClock \/ TickCondition \/ TickPasses \/ Poke)
  /\ WF_vars(Pass) /\ WF_vars(Start)
  /\ WF_vars(\E a \in Automations : HoldOver(a)) /\ SF_vars(\E a \in Automations : RunEnds(a))

FairSpec == Spec /\ Fairness

-----------------------------------------------------------------------------
\* What holds of it.

Snapshots == [of : Automations, mode : {"on", "off", "gone"}, version : Versions,
              lastRun : Nat \cup {Never}]

\* Every variable keeps its type; a hold is waited out only of a condition that is known.
TypeOK ==
  /\ mode \in [Automations -> {"on", "off", "gone"}] /\ version \in [Automations -> Versions]
  /\ kept \in [Automations -> States \cup {None}] /\ becoming \in [Automations -> States \cup {None}]
  /\ {startedAt, lastRun} \subseteq [Clocked -> Nat \cup {Never}]
  /\ running \in [Automations -> Nat \cup {Never}]
  /\ hold \in [Automations -> Versions \cup {None}]
  /\ \A a \in Automations : hold[a] # None => becoming[a] # None
  /\ queued \in [Automations -> Seq(Nat \cup {Never})]
  /\ tick \in [stage : {"idle", "going", "waiting"}, rest : Seq(Snapshots), at : Nat]
  /\ {ticked, up} \subseteq BOOLEAN /\ poked \in Automations \cup {None}
  /\ now \in 0 .. Horizon /\ cond \in [Automations -> [Versions -> Answers]]
  /\ edge \in [Automations -> Nat] /\ since \in [Automations -> Nat \cup {Never}]
  /\ DOMAIN slotted = Clocked /\ \A a \in Clocked : slotted[a] \in [Slots[a] -> Nat]
  /\ lost \subseteq Automations /\ touched \subseteq Automations

\* A condition that becomes true starts its automation once, until it is seen not to hold, or the
\* automation is changed - over restarts, holds, and runs that were in the way (#becomes: "a
\* restart resumes a hold with the time it had left and never fires one twice").
OneStartPerEdge == \A a \in Automations \ touched : edge[a] <= 1

\* Nothing is left of an automation's condition by what it was before it was changed (reset:
\* "what it now watches starts afresh, and a condition already true is its edge"): one found true
\* and dealt with has started it, or was never to start it.
AfreshIsOpen ==
  \A a \in Automations \ (World \cup Echoes \cup lost \cup touched) :
    kept[a] # None /\ mode[a] = "on" => (kept[a].fired <=> edge[a] = 1)

\* A condition that is to hold for a while has been seen to hold that long when it starts its
\* automation, was not seen not to in between - also across a restart - and still holds.
HeldLong ==
  [][\A a \in Automations \ (touched \cup Clocked) :
       edge'[a] > edge[a] => /\ cond[a][version[a]] = "yes"
                             /\ Hold[a] = 0 \/ since[a] >= Hold[a]]_vars

\* Each slot of the clock starts an automation once (#dueEvery: "once a slot, never catching up"),
\* whoever else started it, whatever was changed of it, and however often the server stopped.
SlotOnce == \A a \in Clocked \ (touched \cup lost) : \A t \in Slots[a] : slotted[a][t] <= 1

Holds(a) == mode[a] = "on" /\ cond[a][version[a]] = "yes" /\ a \notin lost \cup touched

\* A condition that goes on holding starts its automation, though it was busy when the condition
\* came true, or the server stopped while it was waited for.
HeldIsStarted ==
  \A a \in Automations \ (Clocked \cup World \cup Echoes) : <>[]Holds(a) => <>[](edge[a] = 1)

=============================================================================
