--------------------------- MODULE TriggersProofs ---------------------------
(* What is proved of the triggers of automations, whatever starts them,    *)
(* however many there are, and however long it goes on.                    *)
EXTENDS Triggers, TLAPS, SequenceTheorems, WellFoundedInduction

-----------------------------------------------------------------------------
(* Types.                                                                  *)

\* What is known of the conditions.
KnownTyped ==
  /\ kept \in [Automations -> States \cup {None}] /\ becoming \in [Automations -> States \cup {None}]
  /\ hold \in [Automations -> Versions \cup {None}]
  /\ edge \in [Automations -> Nat] /\ since \in [Automations -> Nat \cup {Never}]

\* What was started, and what is to start.
StartsTyped ==
  /\ startedAt \in [Clocked -> Nat \cup {Never}] /\ lastRun \in [Clocked -> Nat \cup {Never}]
  /\ running \in [Automations -> Nat \cup {Never}]
  /\ queued \in [Automations -> Seq(Nat \cup {Never})]
  /\ slotted = [a \in Clocked |-> slotted[a]] /\ \A a \in Clocked : slotted[a] \in [Slots[a] -> Nat]

\* The automations themselves.
RulesTyped ==
  /\ mode \in [Automations -> {"on", "off", "gone"}] /\ version \in [Automations -> Versions]
  /\ cond \in [Automations -> [Versions -> Answers]]
  /\ lost \subseteq Automations /\ touched \subseteq Automations

\* A tick that goes on has somewhere to go.
TickTyped ==
  /\ tick \in [stage : {"idle", "going", "waiting"}, rest : Seq(Snapshots), at : Nat]
  /\ tick.stage = "idle" <=> tick.rest = <<>>
  /\ {ticked, up} \subseteq BOOLEAN /\ poked \in Automations \cup {None}
  /\ now \in 0 .. Horizon

Typed == KnownTyped /\ StartsTyped /\ RulesTyped /\ TickTyped

LEMMA FreshTyped == Fresh \in States
BY DEF Fresh, States

LEMMA EntryTyped ==
  ASSUME KnownTyped, RulesTyped, NEW a \in Automations, NEW v \in Versions
  PROVE  Entry(a, v) \in States
<1>1. kept[a] \in States \cup {None} /\ becoming[a] \in States \cup {None}
  BY DEF KnownTyped
<1>2. [last |-> cond[a][v] = "yes", age |-> 0, fired |-> cond[a][v] = "yes"] \in States
  BY DEF States
<1> QED  BY <1>1, <1>2, FreshTyped DEF Entry, EntryForgotten

LEMMA TurnedTyped ==
  ASSUME KnownTyped, RulesTyped, NEW a \in Automations, NEW v \in Versions, NEW quiet \in BOOLEAN
  PROVE  Turned(a, v, quiet) \in States
BY EntryTyped DEF Turned, States

LEMMA FiredTyped ==
  ASSUME NEW e \in States
  PROVE  [e EXCEPT !.fired = TRUE] \in States
BY DEF States

LEMMA OlderTyped ==
  ASSUME NEW e \in States \cup {None}, NEW h
  PROVE  Older(e, h) \in States \cup {None}
BY DEF Older, States

LEMMA KeepTyped ==
  ASSUME KnownTyped, NEW a \in Automations, NEW e \in States, Keep(a, e)
  PROVE  /\ kept' \in [Automations -> States \cup {None}]
         /\ becoming' \in [Automations -> States \cup {None}]
BY DEF Keep, KnownTyped

LEMMA WrittenTyped ==
  ASSUME NEW f \in [Clocked -> Nat \cup {Never}], NEW a, NEW t \in Nat \cup {Never}
  PROVE  Written(f, a, t) \in [Clocked -> Nat \cup {Never}]
BY DEF Written

LEMMA MomentTyped ==
  ASSUME TickTyped, NEW a
  PROVE  Moment(a) \in Nat
BY TriggersAssumption DEF Moment, TickTyped

LEMMA BeganTyped ==
  ASSUME StartsTyped, NEW a \in Automations, NEW s, Began(a, s)
  PROVE  slotted' = [b \in Clocked |-> slotted'[b]] /\ \A b \in Clocked : slotted'[b] \in [Slots[b] -> Nat]
<1>1. CASE slotted' = slotted
  BY <1>1 DEF StartsTyped
<1>2. CASE slotted' = [slotted EXCEPT ![a][s] = @ + 1]
  <2> DEFINE one == [slotted[a] EXCEPT ![s] = @ + 1]
  <2>1. slotted' = [slotted EXCEPT ![a] = one]
    BY <1>2
  <2>2. ASSUME a \in Clocked
        PROVE  one \in [Slots[a] -> Nat]
    <3>1. slotted[a] \in [Slots[a] -> Nat]
      BY <2>2 DEF StartsTyped
    <3>2. \A t \in Slots[a] : one[t] = IF t = s THEN slotted[a][t] + 1 ELSE slotted[a][t]
      BY <3>1
    <3>3. one = [t \in Slots[a] |-> one[t]]
      BY <3>1
    <3> HIDE DEF one
    <3>4. \A t \in Slots[a] : one[t] \in Nat
      BY <3>1, <3>2
    <3> QED  BY <3>3, <3>4
  <2> HIDE DEF one
  <2> QED  BY <2>1, <2>2 DEF StartsTyped
<1> QED  BY <1>1, <1>2 DEF Began

LEMMA BeginTyped ==
  ASSUME StartsTyped, TickTyped, NEW a \in Automations, NEW s, Begin(a, s), UNCHANGED queued
  PROVE  StartsTyped'
<1>1. now \in Nat
  BY TriggersAssumption DEF TickTyped
<1>2. startedAt' \in [Clocked -> Nat \cup {Never}] /\ lastRun' \in [Clocked -> Nat \cup {Never}]
  BY <1>1, WrittenTyped DEF Begin, StartsTyped
<1>3. running' \in [Automations -> Nat \cup {Never}]
  BY MomentTyped DEF Begin, StartsTyped
<1> QED  BY <1>2, <1>3, BeganTyped DEF Begin, StartsTyped

LEMMA RunAndKeepTyped ==
  ASSUME StartsTyped, TickTyped, NEW a \in Automations, NEW s \in Nat \cup {Never}, RunAndKeep(a, s)
  PROVE  StartsTyped'
<1>1. CASE Begin(a, s) /\ UNCHANGED queued
  BY <1>1, BeginTyped
<1>2. CASE UNCHANGED <<running, startedAt, lastRun, slotted>>
  <2>1. CASE queued' = queued
    BY <1>2, <2>1 DEF StartsTyped
  <2>2. CASE queued' = [queued EXCEPT ![a] = Append(@, s)]
    <3>1. Append(queued[a], s) \in Seq(Nat \cup {Never})
      BY AppendProperties DEF StartsTyped
    <3> QED  BY <1>2, <2>2, <3>1 DEF StartsTyped
  <2> QED  BY <2>1, <2>2, <1>2 DEF RunAndKeep, StartsTyped
<1> QED  BY <1>1, <1>2 DEF RunAndKeep
LEMMA FireTyped ==
  ASSUME KnownTyped, StartsTyped, TickTyped, NEW a \in Automations, NEW e \in States, Fire(a, e), UNCHANGED since
  PROVE  KnownTyped' /\ StartsTyped'
<1>1. [e EXCEPT !.fired = TRUE] \in States
  BY FiredTyped
<1>2. hold' \in [Automations -> Versions \cup {None}]
  BY DEF Fire, KnownTyped
<1>3. kept' \in [Automations -> States \cup {None}] /\ becoming' \in [Automations -> States \cup {None}]
  BY <1>1, KeepTyped DEF Fire
<1>4. edge' \in [Automations -> Nat]
  BY DEF Fire, KnownTyped
<1>5. StartsTyped'
  <2>1. CASE UNCHANGED <<running, startedAt, lastRun, queued, slotted>>
    BY <2>1 DEF StartsTyped
  <2>2. CASE RunAndKeep(a, Never)
    BY <2>2, RunAndKeepTyped
  <2> QED  BY <2>1, <2>2 DEF Fire
<1> QED  BY <1>2, <1>3, <1>4, <1>5 DEF KnownTyped

LEMMA BecomesTyped ==
  ASSUME Typed, NEW a \in Automations, NEW v \in Versions, NEW quiet \in BOOLEAN, Becomes(a, v, quiet)
  PROVE  KnownTyped' /\ StartsTyped'
<1> USE DEF Typed
<1>0. Turned(a, v, quiet) \in States /\ Hold[a] \in Nat
  BY TurnedTyped, TriggersAssumption
<1>1. CASE LookUnknown(a, v)
  BY <1>1 DEF LookUnknown, NothingStarts, KnownTyped, StartsTyped
<1>2. CASE LookNo(a, v)
  <2>1. StartsTyped'
    BY <1>2 DEF LookNo, StartsTyped
  <2>2. kept' \in [Automations -> States \cup {None}] /\ becoming' \in [Automations -> States \cup {None}]
    BY <1>2, FreshTyped DEF LookNo, Ends, KnownTyped
  <2>3. /\ hold' \in [Automations -> Versions \cup {None}] /\ edge' \in [Automations -> Nat]
        /\ since' \in [Automations -> Nat \cup {Never}]
    BY <1>2 DEF LookNo, KnownTyped
  <2> QED  BY <2>1, <2>2, <2>3 DEF KnownTyped
<1>3. CASE LookYes(a, v, quiet)
  <2> DEFINE e == Turned(a, v, quiet)
  <2>1. since' \in [Automations -> Nat \cup {Never}]
    BY <1>3 DEF LookYes, KnownTyped
  <2>2. CASE Fire(a, e)
    <3>1. edge' \in [Automations -> Nat] /\ hold' \in [Automations -> Versions \cup {None}]
      BY <2>2 DEF Fire, KnownTyped
    <3>2. kept' \in [Automations -> States \cup {None}] /\ becoming' \in [Automations -> States \cup {None}]
      BY <1>0, <2>2, FiredTyped, KeepTyped DEF Fire
    <3>3. StartsTyped'
      <4>1. CASE UNCHANGED <<running, startedAt, lastRun, queued, slotted>>
        BY <4>1 DEF StartsTyped
      <4>2. CASE RunAndKeep(a, Never)
        BY <4>2, RunAndKeepTyped
      <4> QED  BY <2>2, <4>1, <4>2 DEF Fire
    <3> QED  BY <2>1, <3>1, <3>2, <3>3 DEF KnownTyped
  <2>3. CASE Keep(a, e) /\ NothingStarts /\ hold' \in {hold, [hold EXCEPT ![a] = v]}
    <3>1. kept' \in [Automations -> States \cup {None}] /\ becoming' \in [Automations -> States \cup {None}]
      BY <1>0, <2>3, KeepTyped
    <3>2. hold' \in [Automations -> Versions \cup {None}]
      BY <2>3 DEF KnownTyped
    <3> QED  BY <2>1, <2>3, <3>1, <3>2 DEF NothingStarts, KnownTyped, StartsTyped
  <2> QED  BY <1>3, <2>2, <2>3 DEF LookYes
<1> QED  BY <1>1, <1>2, <1>3 DEF Becomes

\* What is left of a tick once the first of it is behind.
LEMMA OnwardTyped ==
  ASSUME TickTyped, tick.rest # <<>>, tick' = Onward, UNCHANGED <<ticked, up, now>>,
         poked' \in Automations \cup {None}
  PROVE  TickTyped'
<1>1. tick.rest \in Seq(Snapshots) /\ tick.rest # <<>>
  BY DEF TickTyped
<1> DEFINE rest == Tail(tick.rest)
           stage == IF Len(tick.rest) = 1 THEN "idle" ELSE "going"
<1>2. rest \in Seq(Snapshots) /\ Len(rest) = Len(tick.rest) - 1 /\ Len(tick.rest) \in Nat
  BY <1>1, HeadTailProperties, LenProperties
<1>3. rest = <<>> <=> Len(tick.rest) = 1
  <2>1. rest = <<>> => Len(rest) = 0
    BY EmptySeq
  <2>2. rest # <<>> => Len(rest) # 0
    BY <1>2, EmptySeq
  <2> HIDE DEF rest
  <2> QED  BY <1>2, <2>1, <2>2
<1>4. stage = "idle" <=> rest = <<>>
  BY <1>3
<1>5. stage \in {"idle", "going", "waiting"}
  OBVIOUS
<1>6. tick' = [tick EXCEPT !.rest = rest, !.stage = stage]
  BY DEF Onward
<1> HIDE DEF rest, stage
<1>7. tick' \in [stage : {"idle", "going", "waiting"}, rest : Seq(Snapshots), at : Nat]
      /\ tick'.stage = stage /\ tick'.rest = rest
  BY <1>2, <1>5, <1>6 DEF TickTyped
<1> QED  BY <1>4, <1>7 DEF TickTyped

\* The first of what a tick still looks at.
LEMMA HeadTyped ==
  ASSUME TickTyped, tick.rest # <<>>
  PROVE  Head(tick.rest) \in Snapshots /\ 1 \in DOMAIN tick.rest /\ Head(tick.rest) = tick.rest[1]
BY HeadTailProperties DEF TickTyped

\* The first slot that is due is one of them.
LEMMA Earliest ==
  ASSUME NEW S \in SUBSET Nat, S # {}
  PROVE  Least(S) \in S
<1>1. OpToRel(<, Nat) = {ss \in Nat \X Nat : ss[1] < ss[2]}
  BY DEF OpToRel
<1>2. PICK m \in S : \A n \in S : ~ (<<n, m>> \in OpToRel(<, Nat))
  BY WFMin, NatLessThanWellFounded
<1>3. \A n \in S : ~ (n < m)
  BY <1>1, <1>2
<1>4. \A n \in S : m <= n
  BY <1>3
<1> QED  BY <1>4 DEF Least
LEMMA ResetTyped ==
  ASSUME KnownTyped, StartsTyped, NEW a \in Automations, Reset(a)
  PROVE  /\ kept' \in [Automations -> States \cup {None}] /\ becoming' \in [Automations -> States \cup {None}]
         /\ hold' \in [Automations -> Versions \cup {None}] /\ startedAt' \in [Clocked -> Nat \cup {Never}]
<1>1. startedAt' \in [Clocked -> Nat \cup {Never}]
  BY WrittenTyped DEF Reset, StartsTyped
<1> QED  BY <1>1 DEF Reset, KnownTyped

LEMMA AfreshTyped ==
  ASSUME Typed, NEW a \in Automations, NEW on \in BOOLEAN, Reset(a), Afresh(a, on),
         mode' \in [Automations -> {"on", "off", "gone"}], version' \in [Automations -> Versions]
  PROVE  Typed'
<1> USE DEF Typed
<1>1. KnownTyped'
  <2>1. edge' \in [Automations -> Nat] /\ since' \in [Automations -> Nat \cup {Never}]
    BY DEF Afresh, KnownTyped
  <2> QED  BY <2>1, ResetTyped DEF KnownTyped
<1>2. StartsTyped'
  BY ResetTyped DEF Afresh, StartsTyped
<1>3. RulesTyped'
  BY DEF Afresh, RulesTyped, world
<1>4. TickTyped'
  BY DEF Afresh, TickTyped, world
<1> QED  BY <1>1, <1>2, <1>3, <1>4

LEMMA IdleTyped ==
  /\ Idle \in [stage : {"idle", "going", "waiting"}, rest : Seq(Snapshots), at : Nat]
  /\ Idle.stage = "idle" /\ Idle.rest = <<>>
BY EmptySeq DEF Idle

LEMMA StopTyped ==
  ASSUME Typed, Gone, kept' \in [Automations -> States \cup {None}], lost' \subseteq Automations,
         UNCHANGED <<mode, version, startedAt, lastRun, world, edge, since, slotted, touched>>
  PROVE  Typed'
<1> USE DEF Typed
<1>1. KnownTyped'
  BY DEF Gone, KnownTyped
<1>2. StartsTyped'
  <2>1. <<>> \in Seq(Nat \cup {Never})
    BY EmptySeq
  <2> QED  BY <2>1 DEF Gone, StartsTyped
<1>3. RulesTyped'
  BY DEF RulesTyped, world
<1>4. TickTyped'
  BY IdleTyped DEF Gone, TickTyped, world
<1> QED  BY <1>1, <1>2, <1>3, <1>4

\* What comes from outside, of one automation.
LEMMA OutsideTyped ==
  ASSUME Typed, \A b \in Automations : hold[b] # None => becoming[b] # None, NEW a \in Automations, NEW quiet \in BOOLEAN,
         Hear(a, quiet) \/ HoldOver(a) \/ RunEnds(a) \/ Play(a) \/ Edit(a) \/ Turn(a) \/ Delete(a)
           \/ StopsBetween(a) \/ Tell(a)
  PROVE  Typed'
<1> USE DEF Typed
<1>0. version[a] \in Versions /\ Moment(a) \in Nat /\ now \in Nat
  BY MomentTyped, TriggersAssumption DEF RulesTyped, TickTyped
<1>1. CASE Hear(a, quiet)
  BY <1>0, <1>1, BecomesTyped DEF Hear, RulesTyped, TickTyped, world
<1>2. CASE HoldOver(a)
  <2>1. CASE Fire(a, becoming[a])
    <3>1. becoming[a] \in States
      BY <1>2 DEF HoldOver, HoldIsOver, KnownTyped
    <3> QED  BY <1>2, <2>1, <3>1, FireTyped DEF HoldOver, RulesTyped, TickTyped, world
  <2>2. CASE hold' = [hold EXCEPT ![a] = None] /\ NothingStarts /\ UNCHANGED <<becoming, kept>>
    BY <1>2, <2>2 DEF HoldOver, NothingStarts, KnownTyped, StartsTyped, RulesTyped, TickTyped, world
  <2> QED  BY <1>2, <2>1, <2>2 DEF HoldOver
<1>3. CASE RunEnds(a)
  <2>1. KnownTyped' /\ RulesTyped'
    BY <1>3 DEF RunEnds, KnownTyped, RulesTyped, world
  <2>2. TickTyped'
    <3>1. tick' = tick \/ (tick.rest # <<>> /\ tick' = Onward)
      BY <1>3 DEF RunEnds, TickTyped
    <3> QED  BY <1>3, <3>1, OnwardTyped DEF RunEnds, TickTyped, world
  <2>3. StartsTyped'
    <3> DEFINE recorded == IF a \in Sequences \/ mode[a] = "gone" THEN lastRun
                           ELSE Written(lastRun, a, running[a])
    <3>1. recorded \in [Clocked -> Nat \cup {Never}] /\ queued[a] \in Seq(Nat \cup {Never})
      BY WrittenTyped DEF StartsTyped
    <3>2. CASE /\ queued[a] # <<>>
               /\ running' = [running EXCEPT ![a] = Moment(a)]
               /\ startedAt' = Written(startedAt, a, now)
               /\ queued' = [queued EXCEPT ![a] = Tail(@)]
               /\ lastRun' = IF a \in Sequences THEN Written(recorded, a, now) ELSE recorded
               /\ Began(a, Head(queued[a]))
      <4>1. Tail(queued[a]) \in Seq(Nat \cup {Never})
        BY <3>1, <3>2, HeadTailProperties
      <4>2. queued' \in [Automations -> Seq(Nat \cup {Never})]
        BY <3>2, <4>1 DEF StartsTyped
      <4>3. running' \in [Automations -> Nat \cup {Never}]
        BY <1>0, <3>2 DEF StartsTyped
      <4> HIDE DEF recorded
      <4>4. startedAt' \in [Clocked -> Nat \cup {Never}] /\ lastRun' \in [Clocked -> Nat \cup {Never}]
        BY <1>0, <3>1, <3>2, WrittenTyped DEF StartsTyped
      <4> QED  BY <3>2, <4>2, <4>3, <4>4, BeganTyped DEF StartsTyped
    <3>3. CASE /\ running' = [running EXCEPT ![a] = Never]
               /\ queued' = [queued EXCEPT ![a] = <<>>]
               /\ lastRun' = recorded /\ UNCHANGED <<startedAt, slotted>>
      <4>1. queued' \in [Automations -> Seq(Nat \cup {Never})]
        BY <3>3, EmptySeq DEF StartsTyped
      <4> QED  BY <3>1, <3>3, <4>1 DEF StartsTyped
    <3> QED  BY <1>3, <3>2, <3>3 DEF RunEnds
  <2> QED  BY <2>1, <2>2, <2>3
<1>4. CASE Play(a)
  <2>1. lastRun' \in [Clocked -> Nat \cup {Never}]
    BY <1>0, <1>4, WrittenTyped DEF Play, StartsTyped
  <2>2. running' \in [Automations -> Nat \cup {Never}]
    BY <1>0, <1>4 DEF Play, StartsTyped
  <2> QED  BY <1>4, <2>1, <2>2 DEF Play, KnownTyped, StartsTyped, RulesTyped, TickTyped, world, history
<1>5. CASE Edit(a)
  <2>1. version' \in [Automations -> Versions] /\ mode' \in [Automations -> {"on", "off", "gone"}]
    BY <1>5 DEF Edit, RulesTyped, Versions
  <2> QED  BY <1>5, <2>1, AfreshTyped DEF Edit
<1>6. CASE Turn(a)
  <2>1. version' \in [Automations -> Versions] /\ mode' \in [Automations -> {"on", "off", "gone"}]
    BY <1>6 DEF Turn, RulesTyped
  <2> QED  BY <1>6, <2>1, AfreshTyped DEF Turn
<1>7. CASE Delete(a)
  <2>1. KnownTyped'
    BY <1>7 DEF Delete, KnownTyped
  <2>2. startedAt' \in [Clocked -> Nat \cup {Never}] /\ lastRun' \in [Clocked -> Nat \cup {Never}]
    BY <1>7, WrittenTyped DEF Delete, StartsTyped
  <2>3. queued' \in [Automations -> Seq(Nat \cup {Never})]
    BY <1>7, EmptySeq DEF Delete, StartsTyped
  <2>4. StartsTyped'
    BY <1>7, <2>2, <2>3 DEF Delete, StartsTyped
  <2>5. RulesTyped'
    BY <1>7 DEF Delete, RulesTyped, world
  <2> QED  BY <1>7, <2>1, <2>4, <2>5 DEF Delete, TickTyped, world
<1>8. CASE StopsBetween(a)
  <2>1. [Turned(a, version[a], FALSE) EXCEPT !.fired = TRUE] \in States
    BY <1>0, TurnedTyped, FiredTyped
  <2>2. kept' \in [Automations -> States \cup {None}] /\ lost' \subseteq Automations
    BY <1>8, <2>1 DEF StopsBetween, KnownTyped, RulesTyped, Unrecorded
  <2> QED  BY <1>8, <2>2, StopTyped DEF StopsBetween
<1>9. CASE Tell(a)
  <2>1. PICK v \in 1 .. version[a], c \in Answers : cond' = [cond EXCEPT ![a][v] = c]
    BY <1>9 DEF Tell
  <2>2. cond' \in [Automations -> [Versions -> Answers]]
    BY <2>1 DEF RulesTyped
  <2> QED  BY <1>9, <2>2 DEF Tell, KnownTyped, StartsTyped, RulesTyped, TickTyped, memory, history
<1> QED  BY <1>1, <1>2, <1>3, <1>4, <1>5, <1>6, <1>7, <1>8, <1>9
LEMMA SnapshotTyped ==
  ASSUME Typed, NEW a \in Automations
  PROVE  Snapshot(a) \in Snapshots
BY DEF Snapshot, Snapshots, Typed, RulesTyped, StartsTyped

\* A slot that is due is one of those the clock starts it at.
LEMMA DueTyped ==
  ASSUME NEW s, s.of \in Clocked, DueSlots(s) # {}
  PROVE  Least(DueSlots(s)) \in DueSlots(s) /\ Least(DueSlots(s)) \in Slots[s.of] /\ Slots[s.of] \subseteq Nat
<1>1. Slots[s.of] \subseteq Nat
  BY TriggersAssumption
<1>2. DueSlots(s) \in SUBSET Nat /\ DueSlots(s) \subseteq Slots[s.of]
  BY <1>1 DEF DueSlots
<1> QED  BY <1>1, <1>2, Earliest

\* What the engine does by itself.
LEMMA InsideTyped ==
  ASSUME Typed, Poke \/ TickBegins \/ TickClock \/ TickCondition \/ TickPasses
  PROVE  Typed'
<1> USE DEF Typed
<1>1. CASE Poke
  <2>1. poked \in Automations
    BY <1>1 DEF Poke, TickTyped
  <2>2. KnownTyped' /\ StartsTyped'
    <3>1. CASE NothingStarts /\ UNCHANGED <<becoming, kept, hold, since>>
      BY <3>1 DEF NothingStarts, KnownTyped, StartsTyped
    <3>2. CASE Becomes(poked, version[poked], FALSE)
      BY <2>1, <3>2, BecomesTyped DEF RulesTyped
    <3> QED  BY <1>1, <3>1, <3>2 DEF Poke
  <2> QED  BY <1>1, <2>2 DEF Poke, RulesTyped, TickTyped, world
<1>2. CASE TickBegins
  <2>1. CASE tick' = tick
    BY <1>2, <2>1 DEF TickBegins, KnownTyped, StartsTyped, RulesTyped, TickTyped, world, history
  <2>2. CASE tick' = [stage |-> IF List = <<>> THEN "idle" ELSE "going",
                      rest |-> [i \in DOMAIN List |-> Snapshot(List[i])], at |-> now]
    <3> DEFINE rest == [i \in DOMAIN List |-> Snapshot(List[i])]
    <3>1. List \in Seq(Automations) /\ now \in Nat
      BY TriggersAssumption DEF TickTyped
    <3>2. Len(List) \in Nat /\ DOMAIN List = 1..Len(List) /\ \A i \in DOMAIN List : List[i] \in Automations
      BY <3>1, LenProperties, ElementOfSeq
    <3>3. \A i \in DOMAIN List : rest[i] \in Snapshots
      BY <3>2, SnapshotTyped
    <3>4. rest \in Seq(Snapshots) /\ Len(rest) = Len(List)
      <4>1. rest \in [1..Len(List) -> Snapshots]
        BY <3>2, <3>3
      <4> QED  BY <3>2, <4>1, SeqDef, LenProperties
    <3> HIDE DEF rest
    <3>5. rest = <<>> <=> List = <<>>
      <4>1. Len(<<>>) = 0
        BY EmptySeq
      <4> QED  BY <3>1, <3>4, <4>1, EmptySeq
    <3>6. TickTyped'
      <4>1. tick' = [stage |-> IF List = <<>> THEN "idle" ELSE "going", rest |-> rest, at |-> now]
        BY <2>2 DEF rest
      <4>2. /\ tick' \in [stage : {"idle", "going", "waiting"}, rest : Seq(Snapshots), at : Nat]
            /\ tick'.stage = (IF List = <<>> THEN "idle" ELSE "going") /\ tick'.rest = rest
        BY <3>1, <3>4, <4>1
      <4>3. tick'.stage = "idle" <=> tick'.rest = <<>>
        BY <3>5, <4>2
      <4> QED  BY <1>2, <4>2, <4>3 DEF TickBegins, TickTyped, world
    <3> QED  BY <1>2, <3>6 DEF TickBegins, KnownTyped, StartsTyped, RulesTyped, world, history
  <2> QED  BY <1>2, <2>1, <2>2 DEF TickBegins
<1>3. ASSUME tick.stage = "going"
      PROVE  tick.rest # <<>> /\ Head(tick.rest) \in Snapshots
  BY <1>3, HeadTyped DEF TickTyped
<1>4. CASE TickClock
  <2> DEFINE s == Head(tick.rest)
  <2>1. tick.rest # <<>> /\ s \in Snapshots /\ s.of \in Automations
    BY <1>3, <1>4 DEF TickClock, Snapshots
  <2>2. Least(DueSlots(s)) \in Nat
    BY <1>4, <2>1, DueTyped DEF TickClock
  <2>3. StartsTyped'
    BY <1>4, <2>1, <2>2, RunAndKeepTyped DEF TickClock
  <2>4. TickTyped'
    <3>1. CASE tick' = Onward
      BY <1>4, <2>1, <3>1, OnwardTyped DEF TickClock, TickTyped, world
    <3>2. CASE tick' = [tick EXCEPT !.stage = "waiting"]
      BY <1>4, <2>1, <3>2 DEF TickClock, TickTyped, world
    <3> QED  BY <1>4, <3>1, <3>2 DEF TickClock
  <2> QED  BY <1>4, <2>3, <2>4 DEF TickClock, KnownTyped, RulesTyped, world
<1>5. CASE TickCondition
  <2> DEFINE s == Head(tick.rest)
  <2>1. tick.rest # <<>> /\ s \in Snapshots /\ s.of \in Automations /\ s.version \in Versions
    BY <1>3, <1>5 DEF TickCondition, Snapshots
  <2>2. KnownTyped' /\ StartsTyped'
    BY <1>5, <2>1, BecomesTyped DEF TickCondition
  <2>3. TickTyped'
    BY <1>5, <2>1, OnwardTyped DEF TickCondition, TickTyped, world
  <2> QED  BY <1>5, <2>2, <2>3 DEF TickCondition, RulesTyped, world
<1>6. CASE TickPasses
  <2>1. tick.rest # <<>>
    BY <1>3, <1>6 DEF TickPasses
  <2>2. TickTyped'
    <3>1. CASE tick' = Onward
      BY <1>6, <2>1, <3>1, OnwardTyped DEF TickPasses, TickTyped, world
    <3>2. CASE tick' = Idle
      BY <1>6, <3>2, IdleTyped DEF TickPasses, TickTyped, world
    <3> QED  BY <1>6, <3>1, <3>2 DEF TickPasses
  <2> QED  BY <1>6, <2>2 DEF TickPasses, KnownTyped, StartsTyped, RulesTyped, world, history
<1> QED  BY <1>1, <1>2, <1>4, <1>5, <1>6

LEMMA AroundTyped ==
  ASSUME Typed, Stop \/ Start \/ Pass
  PROVE  Typed'
<1> USE DEF Typed
<1>1. CASE Stop
  BY <1>1, StopTyped DEF Stop, Unrecorded, RulesTyped, KnownTyped
<1>2. CASE Start
  BY <1>2 DEF Start, KnownTyped, StartsTyped, RulesTyped, TickTyped, memory, world, history
<1>3. CASE Pass
  <2>1. kept' \in [Automations -> States \cup {None}] /\ becoming' \in [Automations -> States \cup {None}]
    BY <1>3, OlderTyped DEF Pass, KnownTyped
  <2>2. since' \in [Automations -> Nat \cup {Never}]
    BY <1>3 DEF Pass, KnownTyped
  <2>3. now' \in 0 .. Horizon
    BY <1>3, TriggersAssumption DEF Pass, TickTyped
  <2> QED  BY <1>3, <2>1, <2>2, <2>3 DEF Pass, KnownTyped, StartsTyped, RulesTyped, TickTyped
<1> QED  BY <1>1, <1>2, <1>3

LEMMA InitTyped == Init => Typed
<1> SUFFICES ASSUME Init PROVE Typed
  OBVIOUS
<1>1. KnownTyped
  BY DEF Init, KnownTyped
<1>2. StartsTyped
  <2>1. <<>> \in Seq(Nat \cup {Never})
    BY EmptySeq
  <2>2. \A a \in Clocked : slotted[a] \in [Slots[a] -> Nat]
    BY DEF Init
  <2>3. slotted = [a \in Clocked |-> slotted[a]]
    BY DEF Init
  <2> QED  BY <2>1, <2>2, <2>3 DEF Init, StartsTyped
<1>3. RulesTyped
  BY DEF Init, RulesTyped, Versions, Answers
<1>4. TickTyped
  <2>1. Horizon \in Nat
    BY TriggersAssumption
  <2>2. tick = Idle /\ ticked = FALSE /\ up = TRUE /\ poked = None /\ now = 0
    BY DEF Init
  <2>3. now \in 0 .. Horizon
    BY <2>1, <2>2
  <2>4. {ticked, up} \subseteq BOOLEAN /\ poked \in Automations \cup {None}
    BY <2>2
  <2>5. tick \in [stage : {"idle", "going", "waiting"}, rest : Seq(Snapshots), at : Nat]
        /\ tick.stage = "idle" /\ tick.rest = <<>>
    BY <2>2, IdleTyped
  <2> QED  BY <2>3, <2>4, <2>5 DEF TickTyped
<1> QED  BY <1>1, <1>2, <1>3, <1>4 DEF Typed
-----------------------------------------------------------------------------
(* What is known of a condition, and what it has started.                  *)

\* What is held of a condition is what is kept of it; a hold is waited out only of one that was
\* found true and is not dealt with; one that has started its automation is dealt with, and stays
\* so until it is seen not to hold; one that is not dealt with has been seen to hold as long as
\* its state says.
Knows(a) ==
  /\ becoming[a] = None \/ kept[a] = becoming[a] \/ (becoming[a] = Fresh /\ kept[a] = None)
  /\ hold[a] # None => becoming[a] # None /\ becoming[a].last /\ ~becoming[a].fired
  /\ a \notin touched =>
       /\ hold[a] # None => hold[a] = version[a]
       /\ edge[a] <= 1
       /\ edge[a] = 1 => kept[a] # None /\ kept[a].last /\ kept[a].fired
       /\ kept[a] # None /\ kept[a].last /\ ~kept[a].fired => since[a] # Never /\ since[a] >= kept[a].age
  /\ a \notin World \cup Echoes \cup lost \cup touched /\ kept[a] # None => (kept[a].fired <=> edge[a] = 1)

\* A tick looks at each automation as it is now, unless that changed while it waited.
SnapsAgree ==
  \A i \in DOMAIN tick.rest : LET s == tick.rest[i] IN
    s.of \notin touched => s.version = version[s.of] /\ s.mode = mode[s.of]

CondInv == Typed /\ (\A a \in Automations : Knows(a)) /\ SnapsAgree

\* Nothing of what is known of it changes.
Same(a) ==
  /\ kept'[a] = kept[a] /\ becoming'[a] = becoming[a] /\ hold'[a] = hold[a]
  /\ edge'[a] = edge[a] /\ since'[a] = since[a] /\ version'[a] = version[a]
  /\ a \in touched => a \in touched'
  /\ a \in lost => a \in lost'

\* A start it is given is one it may be given: let act, and after its hold.
Fires(a) ==
  edge'[a] > edge[a] =>
    /\ mode[a] = "on"
    /\ a \notin touched => /\ cond[a][version[a]] = "yes"
                           /\ Hold[a] = 0 \/ since[a] >= Hold[a]

LEMMA SameKnows ==
  ASSUME Typed, NEW a \in Automations, Knows(a), Same(a)
  PROVE  Knows(a)' /\ Fires(a)
<1>1. Knows(a)'
  BY DEF Knows, Same
<1>2. edge[a] \in Nat
  BY DEF Typed, KnownTyped
<1> QED  BY <1>1, <1>2 DEF Same, Fires

\* All that is known of it is forgotten.
LEMMA ForgottenKnows ==
  ASSUME NEW a \in Automations, kept'[a] = None, becoming'[a] = None, hold'[a] = None, edge'[a] = 0, Typed
  PROVE  Knows(a)' /\ Fires(a)
<1>1. edge[a] \in Nat
  BY DEF Typed, KnownTyped
<1> QED  BY <1>1 DEF Knows, Fires

\* What an entry is known to be.
LEMMA EntryKnown ==
  ASSUME Typed, NEW a \in Automations, NEW v \in Versions, Knows(a)
  PROVE  /\ kept[a] # None => Entry(a, v) = kept[a]
         /\ kept[a] = None => \/ Entry(a, v) = Fresh
                              \/ /\ a \in World
                                 /\ Entry(a, v) = [last |-> cond[a][v] = "yes", age |-> 0, fired |-> cond[a][v] = "yes"]
         /\ hold[a] # None => Entry(a, v) = becoming[a]
BY DEF Knows, Entry, EntryForgotten

\* A condition found true, once looked at.
LEMMA TurnedKnown ==
  ASSUME Typed, NEW a \in Automations, NEW v \in Versions, NEW quiet \in BOOLEAN, Knows(a),
         cond[a][v] = "yes", quiet => a \in Echoes
  PROVE  LET e == Turned(a, v, quiet) IN
         /\ e \in States /\ e.last
         /\ hold[a] # None => ~e.fired
         /\ a \notin touched /\ edge[a] = 1 => e.fired
         /\ a \notin touched /\ ~e.fired => e.age = 0 \/ (since[a] # Never /\ since[a] >= e.age)
         /\ a \notin World \cup Echoes \cup lost \cup touched => (e.fired <=> edge[a] = 1)
<1> DEFINE e == Turned(a, v, quiet)
           n == Entry(a, v)
<1>1. e \in States /\ n \in States
  BY EntryTyped, TurnedTyped DEF Typed
<1>2. CASE n.last
  <2>1. e = n
    BY <1>2 DEF Turned
  <2>2. CASE kept[a] # None
    <3>1. e = kept[a] /\ (hold[a] # None => e = becoming[a])
      BY <2>1, <2>2, EntryKnown
    <3>2. e.last
      BY <1>2, <2>1
    <3> HIDE DEF e, n
    <3>3. hold[a] # None => ~e.fired
      BY <3>1 DEF Knows
    <3>4. a \notin touched /\ edge[a] = 1 => e.fired
      BY <3>1 DEF Knows
    <3>5. a \notin touched /\ ~e.fired => since[a] # Never /\ since[a] >= e.age
      BY <2>2, <3>1, <3>2 DEF Knows
    <3>6. a \notin World \cup Echoes \cup lost \cup touched => (e.fired <=> edge[a] = 1)
      BY <2>2, <3>1 DEF Knows
    <3> QED  BY <1>1, <3>2, <3>3, <3>4, <3>5, <3>6 DEF e
  <2>3. CASE kept[a] = None
    <3>1. a \in World /\ n.fired /\ n.age = 0 /\ hold[a] = None
      <4>1. n # Fresh
        BY <1>2 DEF Fresh
      <4>2. hold[a] # None => FALSE
        BY <2>3, <4>1, EntryKnown DEF Knows
      <4>3. a \in World /\ n = [last |-> cond[a][v] = "yes", age |-> 0, fired |-> cond[a][v] = "yes"]
        BY <2>3, <4>1, EntryKnown
      <4> HIDE DEF n
      <4> QED  BY <4>2, <4>3
    <3>2. a \notin touched => edge[a] # 1
      BY <2>3 DEF Knows
    <3> HIDE DEF e, n
    <3> QED  BY <1>1, <1>2, <2>1, <3>1, <3>2 DEF e
  <2> QED  BY <2>2, <2>3
<1>3. CASE ~n.last
  <2>1. e = [last |-> TRUE, age |-> 0, fired |-> quiet]
    BY <1>3 DEF Turned
  <2>2. hold[a] = None
    BY <1>3, EntryKnown DEF Knows
  <2>3. a \notin touched => edge[a] # 1
    BY <1>3, EntryKnown DEF Knows
  <2>4. e.last /\ e.age = 0 /\ e.fired = quiet
    BY <2>1
  <2> HIDE DEF e
  <2>5. a \notin World \cup Echoes \cup lost \cup touched => (e.fired <=> edge[a] = 1)
    BY <2>3, <2>4
  <2> QED  BY <1>1, <2>2, <2>3, <2>4, <2>5 DEF e
<1> HIDE DEF e, n
<1> QED  BY <1>1, <1>2, <1>3 DEF e

\* It is given its start, or the start is let go.
LEMMA FireKnows ==
  ASSUME Typed, NEW a \in Automations, NEW e \in States, Knows(a), e.last, ~e.fired, Fire(a, e),
         a \notin touched => edge[a] = 0 /\ since'[a] # Never /\ since'[a] >= e.age,
         UNCHANGED <<version, touched, lost>>
  PROVE  /\ Knows(a)' /\ (edge'[a] > edge[a] => mode[a] = "on")
         /\ \A b \in Automations : b # a => kept'[b] = kept[b] /\ becoming'[b] = becoming[b]
                                              /\ hold'[b] = hold[b] /\ edge'[b] = edge[b]
<1> DEFINE f == [e EXCEPT !.fired = TRUE]
<1>1. f \in States /\ f.last /\ f.fired
  BY DEF States
<1>2. None \notin States
  BY TriggersAssumption
<1>3. edge[a] \in Nat
  BY DEF Typed, KnownTyped
<1>4. hold'[a] = None /\ \A b \in Automations : b # a => hold'[b] = hold[b]
  BY DEF Fire, Typed, KnownTyped
<1> HIDE DEF f
<1>5. CASE LetsGo(a) /\ Keep(a, e) /\ UNCHANGED edge
  <2>1. kept'[a] = e /\ becoming'[a] = e
        /\ \A b \in Automations : b # a => kept'[b] = kept[b] /\ becoming'[b] = becoming[b]
    BY <1>5 DEF Keep, Typed, KnownTyped
  <2>2. a \notin touched => edge'[a] = 0
    BY <1>5
  <2> QED  BY <1>2, <1>3, <1>4, <1>5, <2>1, <2>2 DEF Knows
<1>6. CASE ~LetsGo(a) /\ Keep(a, f) /\ edge' = [edge EXCEPT ![a] = @ + 1]
  <2>1. kept'[a] = f /\ becoming'[a] = f
        /\ \A b \in Automations : b # a => kept'[b] = kept[b] /\ becoming'[b] = becoming[b]
    BY <1>6 DEF Keep, Typed, KnownTyped
  <2>2. edge'[a] = edge[a] + 1 /\ \A b \in Automations : b # a => edge'[b] = edge[b]
    BY <1>6 DEF Typed, KnownTyped
  <2> QED  BY <1>1, <1>2, <1>3, <1>4, <1>6, <2>1, <2>2 DEF Knows, LetsGo
<1> QED  BY <1>5, <1>6 DEF Fire, f
LEMMA LookNoKnows ==
  ASSUME Typed, NEW a \in Automations, NEW v \in Versions, Knows(a), LookNo(a, v),
         a \notin touched => v = version[a], UNCHANGED <<version, touched, lost>>
  PROVE  Knows(a)' /\ Fires(a)
<1> DEFINE e == Entry(a, v)
<1>1. becoming'[a] = Fresh /\ hold'[a] = None /\ (kept'[a] = IF e = Fresh THEN kept[a] ELSE Fresh)
  BY DEF LookNo, Ends, Typed, KnownTyped
<1>2. a \notin touched => edge'[a] = 0
  BY DEF LookNo, Typed, KnownTyped
<1>3. kept'[a] = Fresh \/ kept'[a] = None
  BY <1>1, EntryKnown
<1>4. Fresh.last = FALSE /\ Fresh.fired = FALSE
  BY DEF Fresh
<1>5. ~ (edge'[a] > edge[a])
  <2>1. edge[a] \in Nat /\ edge'[a] \in {0, edge[a]}
    BY DEF LookNo, Typed, KnownTyped
  <2> QED  BY <2>1
<1> HIDE DEF e
<1> QED  BY <1>1, <1>2, <1>3, <1>4, <1>5 DEF Knows, Fires

LEMMA LookYesKnows ==
  ASSUME Typed, NEW a \in Automations, NEW v \in Versions, NEW quiet \in BOOLEAN, Knows(a),
         LookYes(a, v, quiet), quiet => a \in Echoes,
         a \notin touched => v = version[a], UNCHANGED <<version, touched, lost>>
  PROVE  /\ Knows(a)' /\ Fires(a)
         /\ \A b \in Automations : b # a => kept'[b] = kept[b] /\ becoming'[b] = becoming[b]
                                              /\ hold'[b] = hold[b] /\ edge'[b] = edge[b]
<1> DEFINE e == Turned(a, v, quiet)
<1>0. edge[a] \in Nat /\ Hold[a] \in Nat /\ None \notin States /\ cond[a][v] = "yes"
  BY TriggersAssumption DEF LookYes, Typed, KnownTyped
<1>1. /\ e \in States /\ e.last
      /\ hold[a] # None => ~e.fired
      /\ a \notin touched /\ edge[a] = 1 => e.fired
      /\ a \notin touched /\ ~e.fired => e.age = 0 \/ (since[a] # Never /\ since[a] >= e.age)
      /\ a \notin World \cup Echoes \cup lost \cup touched => (e.fired <=> edge[a] = 1)
  BY <1>0, TurnedKnown
<1>2. e.age \in Nat
  BY <1>1 DEF States
<1>3. a \notin touched => since'[a] = IF since[a] = Never THEN 0 ELSE since[a]
  BY DEF LookYes, Typed, KnownTyped
<1>4. a \notin touched /\ ~e.fired => since'[a] # Never /\ since'[a] >= e.age
  <2>1. since[a] \in Nat \cup {Never}
    BY DEF Typed, KnownTyped
  <2> HIDE DEF e
  <2> QED  BY <1>1, <1>2, <1>3, <2>1 DEF Never
<1>5. CASE ~e.fired /\ e.age >= Hold[a] /\ Fire(a, e)
  <2>1. a \notin touched => edge[a] = 0
    BY <1>0, <1>1, <1>5 DEF Knows
  <2>2. /\ Knows(a)' /\ (edge'[a] > edge[a] => mode[a] = "on")
        /\ \A b \in Automations : b # a => kept'[b] = kept[b] /\ becoming'[b] = becoming[b]
                                             /\ hold'[b] = hold[b] /\ edge'[b] = edge[b]
    BY <1>1, <1>4, <1>5, <2>1, FireKnows
  <2>3. a \notin touched => Hold[a] = 0 \/ since[a] >= Hold[a]
    <3>1. since[a] \in Nat \cup {Never}
      BY DEF Typed, KnownTyped
    <3> HIDE DEF e
    <3> QED  BY <1>0, <1>1, <1>2, <1>5, <3>1 DEF Never
  <2> QED  BY <1>0, <2>2, <2>3 DEF Fires
<1>6. CASE Keep(a, e) /\ NothingStarts
           /\ (hold' = hold \/ (~e.fired /\ hold' = IF hold[a] = None THEN [hold EXCEPT ![a] = v] ELSE hold))
  <2>1. /\ kept'[a] = e /\ becoming'[a] = e
        /\ \A b \in Automations : b # a => kept'[b] = kept[b] /\ becoming'[b] = becoming[b]
    BY <1>6 DEF Keep, Typed, KnownTyped
  <2>2. /\ \A b \in Automations : b # a => hold'[b] = hold[b]
        /\ hold'[a] = hold[a] \/ (~e.fired /\ hold'[a] = v)
    BY <1>6 DEF Typed, KnownTyped
  <2>3. edge' = edge
    BY <1>6 DEF NothingStarts
  <2> HIDE DEF e
  <2>4. Knows(a)'
    BY <1>0, <1>1, <1>4, <2>1, <2>2, <2>3 DEF Knows
  <2> QED  BY <1>0, <2>1, <2>2, <2>3, <2>4 DEF Fires
<1>7. \/ ~e.fired /\ e.age >= Hold[a] /\ Fire(a, e)
      \/ Keep(a, e) /\ NothingStarts
           /\ (hold' = hold \/ (~e.fired /\ hold' = IF hold[a] = None THEN [hold EXCEPT ![a] = v] ELSE hold))
  BY DEF LookYes
<1> HIDE DEF e
<1> QED  BY <1>5, <1>6, <1>7

LEMMA BecomesKnows ==
  ASSUME Typed, NEW a \in Automations, NEW v \in Versions, NEW quiet \in BOOLEAN,
         \A b \in Automations : Knows(b), Becomes(a, v, quiet), quiet => a \in Echoes,
         a \notin touched => v = version[a], UNCHANGED <<version, touched, lost>>
  PROVE  \A b \in Automations : Knows(b)' /\ Fires(b)
<1>1. ASSUME NEW b \in Automations, b # a, kept'[b] = kept[b], becoming'[b] = becoming[b],
             hold'[b] = hold[b], edge'[b] = edge[b], since'[b] = since[b]
      PROVE  Knows(b)' /\ Fires(b)
  BY <1>1, SameKnows DEF Same
<1>2. CASE LookUnknown(a, v)
  BY <1>2, SameKnows DEF LookUnknown, NothingStarts, Same
<1>3. CASE LookNo(a, v)
  <2>1. \A b \in Automations : b # a => kept'[b] = kept[b] /\ becoming'[b] = becoming[b]
          /\ hold'[b] = hold[b] /\ edge'[b] = edge[b] /\ since'[b] = since[b]
    BY <1>3 DEF LookNo, Ends, Typed, KnownTyped
  <2> QED  BY <1>1, <1>3, <2>1, LookNoKnows
<1>4. CASE LookYes(a, v, quiet)
  <2>1. \A b \in Automations : b # a => since'[b] = since[b]
    BY <1>4 DEF LookYes, Typed, KnownTyped
  <2> QED  BY <1>1, <1>4, <2>1, LookYesKnows
<1> QED  BY <1>2, <1>3, <1>4 DEF Becomes

LEMMA AllSame ==
  ASSUME Typed, \A b \in Automations : Knows(b), \A b \in Automations : Same(b)
  PROVE  \A b \in Automations : Knows(b)' /\ Fires(b)
BY SameKnows

\* One is forgotten, the others stay.
LEMMA ForgetsOne ==
  ASSUME Typed, \A b \in Automations : Knows(b), NEW a \in Automations,
         kept' = [kept EXCEPT ![a] = None], becoming' = [becoming EXCEPT ![a] = None],
         hold' = [hold EXCEPT ![a] = None], edge' = [edge EXCEPT ![a] = 0],
         \A b \in Automations : b # a => since'[b] = since[b] /\ version'[b] = version[b],
         touched \subseteq touched', lost \subseteq lost'
  PROVE  \A b \in Automations : Knows(b)' /\ Fires(b)
<1>1. /\ kept'[a] = None /\ becoming'[a] = None /\ hold'[a] = None /\ edge'[a] = 0
      /\ \A b \in Automations : b # a => kept'[b] = kept[b] /\ becoming'[b] = becoming[b]
                                           /\ hold'[b] = hold[b] /\ edge'[b] = edge[b]
  BY DEF Typed, KnownTyped
<1>2. Knows(a)' /\ Fires(a)
  BY <1>1, ForgottenKnows
<1>3. \A b \in Automations : b # a => Same(b)
  BY <1>1 DEF Same
<1> QED  BY <1>2, <1>3, SameKnows

\* The server stops: what was held is lost, what was kept stays.
LEMMA GoneKnows ==
  ASSUME Typed, NEW b \in Automations, Knows(b), Gone, kept'[b] = kept[b],
         UNCHANGED <<version, edge, since, touched>>, lost \subseteq lost'
  PROVE  Knows(b)' /\ Fires(b)
<1>1. becoming'[b] = None /\ hold'[b] = None
  BY DEF Gone
<1>2. edge[b] \in Nat
  BY DEF Typed, KnownTyped
<1> QED  BY <1>1, <1>2 DEF Knows, Fires
\* What comes from outside, of one automation.
LEMMA OutsideKnows ==
  ASSUME CondInv, NEW a \in Automations, NEW quiet \in BOOLEAN,
         Hear(a, quiet) \/ HoldOver(a) \/ RunEnds(a) \/ Play(a) \/ Edit(a) \/ Turn(a) \/ Delete(a)
           \/ StopsBetween(a) \/ Tell(a)
  PROVE  \A b \in Automations : Knows(b)' /\ Fires(b)
<1>0. Typed /\ (\A b \in Automations : Knows(b)) /\ version[a] \in Versions
  BY DEF CondInv, Typed, RulesTyped
<1>1. CASE Hear(a, quiet)
  BY <1>0, <1>1, BecomesKnows DEF Hear
<1>2. CASE HoldOver(a)
  <2> DEFINE e == becoming[a]
  <2>1. e # None /\ e \in States /\ e.last /\ ~e.fired /\ kept[a] = e
    <3>1. hold[a] # None /\ becoming[a] # None /\ becoming[a].last /\ ~becoming[a].fired
      BY <1>0, <1>2 DEF HoldOver, HoldIsOver, Knows
    <3>2. becoming[a] # Fresh
      BY <3>1 DEF Fresh
    <3> QED  BY <1>0, <3>1, <3>2 DEF Typed, KnownTyped, Knows
  <2>2. e.age \in Nat /\ e.age >= Hold[a] /\ Hold[a] \in Nat /\ hold[a] # None /\ edge[a] \in Nat
    BY <1>0, <1>2, <2>1, TriggersAssumption DEF HoldOver, HoldIsOver, States, Typed, KnownTyped
  <2>3. a \notin touched => edge[a] = 0 /\ since[a] # Never /\ since[a] >= e.age /\ hold[a] = version[a]
    BY <1>0, <2>1, <2>2 DEF Knows
  <2>4. since' = since /\ UNCHANGED <<version, touched, lost>>
    BY <1>2 DEF HoldOver
  <2>5. CASE HeldThrough(a) /\ Fire(a, e)
    <3>1. /\ Knows(a)' /\ (edge'[a] > edge[a] => mode[a] = "on")
          /\ \A b \in Automations : b # a => kept'[b] = kept[b] /\ becoming'[b] = becoming[b]
                                               /\ hold'[b] = hold[b] /\ edge'[b] = edge[b]
      <4> HIDE DEF e
      <4> QED  BY <1>0, <2>1, <2>3, <2>4, <2>5, FireKnows
    <3>2. Fires(a)
      <4>1. a \notin touched => cond[a][version[a]] = "yes" /\ since[a] >= Hold[a]
        <5>1. since[a] \in Nat \cup {Never}
          BY <1>0 DEF Typed, KnownTyped
        <5> QED  BY <2>2, <2>3, <2>5, <5>1 DEF HeldThrough, Never
      <4> QED  BY <3>1, <4>1 DEF Fires
    <3>3. \A b \in Automations : b # a => Same(b)
      BY <2>4, <3>1 DEF Same
    <3> QED  BY <1>0, <3>1, <3>2, <3>3, SameKnows
  <2>6. CASE hold' = [hold EXCEPT ![a] = None] /\ NothingStarts /\ UNCHANGED <<becoming, kept>>
    <3>1. \A b \in Automations : b # a => Same(b)
      BY <1>0, <2>4, <2>6 DEF Same, NothingStarts, Typed, KnownTyped
    <3>2. hold'[a] = None
      BY <1>0, <2>6 DEF Typed, KnownTyped
    <3>3. Knows(a)' /\ Fires(a)
      BY <1>0, <2>2, <2>4, <2>6, <3>2 DEF Knows, Fires, NothingStarts
    <3> QED  BY <1>0, <3>1, <3>3, SameKnows
  <2> QED  BY <1>2, <2>5, <2>6 DEF HoldOver
<1>3. CASE RunEnds(a)
  BY <1>0, <1>3, AllSame DEF RunEnds, Same
<1>4. CASE Play(a)
  BY <1>0, <1>4, AllSame DEF Play, Same, history
<1>5. CASE Edit(a)
  <2>1. \A b \in Automations : b # a => version'[b] = version[b]
    BY <1>0, <1>5 DEF Edit, Typed, RulesTyped
  <2>2. \A b \in Automations : b # a => since'[b] = since[b]
    BY <1>0, <1>5 DEF Edit, Afresh, Typed, KnownTyped
  <2> QED  BY <1>0, <1>5, <2>1, <2>2, ForgetsOne DEF Edit, Reset, Afresh
<1>6. CASE Turn(a)
  <2>1. \A b \in Automations : b # a => since'[b] = since[b]
    BY <1>0, <1>6 DEF Turn, Afresh, Typed, KnownTyped
  <2> QED  BY <1>0, <1>6, <2>1, ForgetsOne DEF Turn, Reset, Afresh
<1>7. CASE Delete(a)
  <2>1. \A b \in Automations : b # a => since'[b] = since[b]
    BY <1>0, <1>7 DEF Delete, Typed, KnownTyped
  <2> QED  BY <1>0, <1>7, <2>1, ForgetsOne DEF Delete
<1>8. CASE StopsBetween(a)
  <2> DEFINE e == Turned(a, version[a], FALSE)
             f == [e EXCEPT !.fired = TRUE]
  <2>1. cond[a][version[a]] = "yes" /\ Gone /\ a \in lost' /\ lost \subseteq lost'
        /\ kept' = [kept EXCEPT ![a] = f] /\ UNCHANGED <<version, edge, since, touched>>
    BY <1>8 DEF StopsBetween
  <2>2. e \in States /\ e.last
    BY <1>0, <2>1, TurnedKnown
  <2>3. f \in States /\ f.last /\ f.fired /\ None \notin States
    BY <2>2, TriggersAssumption DEF States
  <2> HIDE DEF f
  <2>4. kept'[a] = f /\ \A b \in Automations : b # a => kept'[b] = kept[b]
    BY <1>0, <2>1 DEF Typed, KnownTyped
  <2>5. becoming'[a] = None /\ hold'[a] = None /\ edge[a] \in Nat
    BY <1>0, <2>1 DEF Gone, Typed, KnownTyped
  <2>6. Knows(a)' /\ Fires(a)
    BY <1>0, <2>1, <2>3, <2>4, <2>5 DEF Knows, Fires
  <2>7. \A b \in Automations : b # a => Knows(b)' /\ Fires(b)
    BY <1>0, <2>1, <2>4, GoneKnows
  <2> QED  BY <2>6, <2>7
<1>9. CASE Tell(a)
  BY <1>0, <1>9, AllSame DEF Tell, Same, memory, history
<1> QED  BY <1>1, <1>2, <1>3, <1>4, <1>5, <1>6, <1>7, <1>8, <1>9

\* What the engine does by itself, the server, and the clock.
LEMMA InsideKnows ==
  ASSUME CondInv, Poke \/ TickBegins \/ TickClock \/ TickCondition \/ TickPasses \/ Stop \/ Start \/ Pass
  PROVE  \A b \in Automations : Knows(b)' /\ Fires(b)
<1>0. Typed /\ \A b \in Automations : Knows(b)
  BY DEF CondInv
<1>1. CASE Poke
  <2>1. CASE NothingStarts /\ UNCHANGED <<becoming, kept, hold, since>>
    BY <1>0, <1>1, <2>1, AllSame DEF Poke, NothingStarts, Same
  <2>2. CASE Becomes(poked, version[poked], FALSE)
    <3>1. poked \in Automations /\ version[poked] \in Versions
      BY <1>0, <1>1 DEF Poke, Typed, TickTyped, RulesTyped
    <3> QED  BY <1>0, <1>1, <2>2, <3>1, BecomesKnows DEF Poke
  <2> QED  BY <1>1, <2>1, <2>2 DEF Poke
<1>2. CASE TickBegins
  BY <1>0, <1>2, AllSame DEF TickBegins, Same, history
<1>3. CASE TickClock
  BY <1>0, <1>3, AllSame DEF TickClock, Same
<1>4. CASE TickCondition
  <2> DEFINE s == Head(tick.rest)
  <2>1. /\ s \in Snapshots /\ s.of \in Automations /\ s.version \in Versions
        /\ 1 \in DOMAIN tick.rest /\ s = tick.rest[1]
    BY <1>0, <1>4, HeadTyped DEF TickCondition, Snapshots, Typed, TickTyped
  <2>2. s.of \notin touched => s.version = version[s.of]
    BY <2>1 DEF CondInv, SnapsAgree
  <2>3. Becomes(s.of, s.version, FALSE) /\ UNCHANGED <<version, touched, lost>>
    BY <1>4 DEF TickCondition
  <2> HIDE DEF s
  <2> QED  BY <1>0, <2>1, <2>2, <2>3, BecomesKnows
<1>5. CASE TickPasses
  BY <1>0, <1>5, AllSame DEF TickPasses, Same, history
<1>6. CASE Stop
  BY <1>0, <1>6, GoneKnows DEF Stop
<1>7. CASE Start
  BY <1>0, <1>7, AllSame DEF Start, Same, memory, history
<1>8. CASE Pass
  <2> SUFFICES ASSUME NEW b \in Automations PROVE Knows(b)' /\ Fires(b)
    OBVIOUS
  <2> DEFINE k == kept[b]
             h == Hold[b]
  <2>1. kept'[b] = Older(k, h) /\ becoming'[b] = Older(becoming[b], h)
        /\ since'[b] = (IF since[b] = Never \/ since[b] = h THEN since[b] ELSE since[b] + 1)
        /\ UNCHANGED <<version, hold, edge, lost, touched>>
    BY <1>0, <1>8 DEF Pass, Typed, KnownTyped
  <2>2. h \in Nat /\ None \notin States /\ edge[b] \in Nat /\ since[b] \in Nat \cup {Never}
        /\ k \in States \cup {None} /\ becoming[b] \in States \cup {None}
    BY <1>0, TriggersAssumption DEF Typed, KnownTyped
  <2>3. Older(None, h) = None /\ Older(Fresh, h) = Fresh
    BY <2>2, FreshTyped DEF Older, Fresh
  <2>4. ASSUME NEW e \in States
        PROVE  /\ Older(e, h) \in States /\ Older(e, h).last = e.last /\ Older(e, h).fired = e.fired
               /\ Older(e, h).age = IF e.last /\ e.age < h THEN e.age + 1 ELSE e.age
    <3>1. e # None /\ e.age \in Nat
      BY <2>2, <2>4 DEF States
    <3> QED  BY <3>1 DEF Older, States
  <2> HIDE DEF k, h
  <2>5. k # None => k \in States /\ Older(k, h).last = k.last /\ Older(k, h).fired = k.fired
          /\ Older(k, h).age = (IF k.last /\ k.age < h THEN k.age + 1 ELSE k.age) /\ Older(k, h) # None
          /\ k.age \in Nat
    BY <2>2, <2>4 DEF States
  <2>6. becoming[b] # None => /\ Older(becoming[b], h).last = becoming[b].last
                              /\ Older(becoming[b], h).fired = becoming[b].fired /\ Older(becoming[b], h) # None
    BY <2>2, <2>4
  <2>7. Older(k, h) # None => k # None
    BY <2>3
  <2>8. \/ becoming'[b] = None \/ kept'[b] = becoming'[b] \/ (becoming'[b] = Fresh /\ kept'[b] = None)
    BY <1>0, <2>1, <2>3 DEF Knows, k
  <2>9. hold'[b] # None => becoming'[b] # None /\ becoming'[b].last /\ ~becoming'[b].fired
    BY <1>0, <2>1, <2>6 DEF Knows
  <2>10. b \notin touched' =>
           /\ hold'[b] # None => hold'[b] = version'[b]
           /\ edge'[b] <= 1
           /\ edge'[b] = 1 => kept'[b] # None /\ kept'[b].last /\ kept'[b].fired
    BY <1>0, <2>1, <2>5 DEF Knows, k
  <2>11. ASSUME b \notin touched, kept'[b] # None, kept'[b].last, ~kept'[b].fired
         PROVE  since'[b] # Never /\ since'[b] >= kept'[b].age
    <3>1. k # None /\ k.last /\ ~k.fired
      BY <2>1, <2>5, <2>7, <2>11
    <3>2. since[b] \in Nat /\ since[b] >= k.age
      BY <1>0, <2>2, <2>11, <3>1 DEF Knows, k
    <3> QED  BY <2>1, <2>2, <2>5, <3>1, <3>2 DEF Never
  <2>12. b \notin World \cup Echoes \cup lost' \cup touched' /\ kept'[b] # None => (kept'[b].fired <=> edge'[b] = 1)
    BY <1>0, <2>1, <2>5, <2>7 DEF Knows, k
  <2>13. Knows(b)'
    BY <2>1, <2>8, <2>9, <2>10, <2>11, <2>12 DEF Knows
  <2> QED  BY <2>1, <2>2, <2>13 DEF Fires
<1> QED  BY <1>1, <1>2, <1>3, <1>4, <1>5, <1>6, <1>7, <1>8
-----------------------------------------------------------------------------
(* What a tick looks at.                                                   *)

\* The rest of a tick is looked at as it was.
LEMMA OnwardRest ==
  ASSUME TickTyped, tick.rest # <<>>, tick' = Onward
  PROVE  /\ tick'.at = tick.at /\ tick'.stage \in {"idle", "going"}
         /\ \A i \in DOMAIN tick'.rest : i + 1 \in DOMAIN tick.rest /\ tick'.rest[i] = tick.rest[i + 1]
<1>1. tick.rest \in Seq(Snapshots) /\ tick.rest # <<>>
  BY DEF TickTyped
<1>2. /\ Len(tick.rest) \in Nat /\ DOMAIN tick.rest = 1..Len(tick.rest)
      /\ Tail(tick.rest) \in Seq(Snapshots) /\ Len(Tail(tick.rest)) = Len(tick.rest) - 1
      /\ \A i \in 1..Len(Tail(tick.rest)) : Tail(tick.rest)[i] = tick.rest[i + 1]
  BY <1>1, HeadTailProperties, LenProperties
<1>3. DOMAIN Tail(tick.rest) = 1..Len(Tail(tick.rest))
  BY <1>2, LenProperties
<1>4. tick'.rest = Tail(tick.rest) /\ tick'.at = tick.at /\ tick'.stage \in {"idle", "going"}
  BY DEF Onward, TickTyped
<1>5. \A i \in 1..Len(Tail(tick.rest)) : i + 1 \in 1..Len(tick.rest)
  BY <1>2
<1> QED  BY <1>2, <1>3, <1>4, <1>5

\* A tick that nothing is left of looks at nothing.
LEMMA NothingLeft ==
  ASSUME TickTyped, tick.stage = "idle"
  PROVE  DOMAIN tick.rest = {}
BY DEF TickTyped

\* No tick is in the middle of something, and none waits.
LEMMA FreeOrWaits ==
  ASSUME TickTyped, Free, ~Waits
  PROVE  DOMAIN tick.rest = {}
BY NothingLeft DEF TickTyped, Free, Waits

LEMMA SnapsStay ==
  ASSUME SnapsAgree, UNCHANGED <<tick, mode, version, touched>>
  PROVE  SnapsAgree'
BY DEF SnapsAgree

LEMMA SnapsOnward ==
  ASSUME TickTyped, SnapsAgree, tick.rest # <<>>, tick' = Onward, UNCHANGED <<mode, version, touched>>
  PROVE  SnapsAgree'
BY OnwardRest DEF SnapsAgree

LEMMA SnapsTouched ==
  ASSUME Typed, SnapsAgree, NEW a \in Automations, Free, UNCHANGED tick,
         touched' = IF Waits THEN touched \cup {a} ELSE touched,
         \A b \in Automations : b # a => mode'[b] = mode[b] /\ version'[b] = version[b]
  PROVE  SnapsAgree'
<1>1. \A i \in DOMAIN tick.rest : tick.rest[i].of \in Automations
  <2>1. tick.rest \in Seq(Snapshots)
    BY DEF Typed, TickTyped
  <2>2. \A i \in DOMAIN tick.rest : tick.rest[i] \in Snapshots
    BY <2>1, ElementOfSeq, LenProperties
  <2> QED  BY <2>2 DEF Snapshots
<1>2. CASE Waits
  BY <1>1, <1>2 DEF SnapsAgree
<1>3. CASE ~Waits
  BY <1>3, FreeOrWaits DEF SnapsAgree, Typed
<1> QED  BY <1>2, <1>3

LEMMA SnapsStep ==
  ASSUME CondInv, [Next]_vars
  PROVE  SnapsAgree'
<1>0. Typed /\ SnapsAgree /\ TickTyped
  BY DEF CondInv, Typed
<1>1. ASSUME NEW a \in Automations, NEW quiet \in BOOLEAN,
             Hear(a, quiet) \/ HoldOver(a) \/ Play(a) \/ Tell(a)
      PROVE  SnapsAgree'
  BY <1>0, <1>1, SnapsStay DEF Hear, HoldOver, Play, Tell, history, memory
<1>2. ASSUME NEW a \in Automations, RunEnds(a)
      PROVE  SnapsAgree'
  <2>1. tick' = tick \/ (tick.rest # <<>> /\ tick' = Onward)
    BY <1>0, <1>2 DEF RunEnds, TickTyped
  <2> QED  BY <1>0, <1>2, <2>1, SnapsStay, SnapsOnward DEF RunEnds
<1>3. ASSUME NEW a \in Automations, Edit(a) \/ Turn(a) \/ Delete(a)
      PROVE  SnapsAgree'
  <2>1. \A b \in Automations : b # a => mode'[b] = mode[b] /\ version'[b] = version[b]
    BY <1>0, <1>3 DEF Edit, Turn, Delete, Typed, RulesTyped
  <2> QED  BY <1>0, <1>3, <2>1, SnapsTouched DEF Edit, Turn, Delete, Afresh
<1>4. ASSUME tick' = Idle
      PROVE  SnapsAgree'
  BY <1>4, IdleTyped DEF SnapsAgree
<1>5. CASE Poke \/ TickClock \/ TickCondition \/ TickPasses
  <2>1. tick.stage = "going" => tick.rest # <<>>
    BY <1>0 DEF TickTyped
  <2>2. CASE tick' = tick
    BY <1>0, <1>5, <2>2, SnapsStay DEF Poke, TickClock, TickCondition, TickPasses, history
  <2>3. CASE tick' = Onward /\ tick.stage = "going"
    BY <1>0, <1>5, <2>1, <2>3, SnapsOnward DEF Poke, TickClock, TickCondition, TickPasses, history
  <2>4. CASE tick' = [tick EXCEPT !.stage = "waiting"]
    <3>1. tick'.rest = tick.rest
      BY <1>0, <2>4 DEF TickTyped
    <3> QED  BY <1>0, <1>5, <3>1 DEF SnapsAgree, Poke, TickClock, TickCondition, TickPasses, history
  <2> QED  BY <1>4, <1>5, <2>2, <2>3, <2>4 DEF Poke, TickClock, TickCondition, TickPasses
<1>6. CASE TickBegins
  <2>1. CASE tick' = tick
    BY <1>0, <1>6, <2>1, SnapsStay DEF TickBegins, history
  <2>2. CASE tick' = [stage |-> IF List = <<>> THEN "idle" ELSE "going",
                      rest |-> [i \in DOMAIN List |-> Snapshot(List[i])], at |-> now]
    <3>1. DOMAIN tick'.rest = DOMAIN List /\ \A i \in DOMAIN List : tick'.rest[i] = Snapshot(List[i])
      BY <2>2
    <3> QED  BY <1>6, <3>1 DEF SnapsAgree, Snapshot, TickBegins
  <2> QED  BY <1>6, <2>1, <2>2 DEF TickBegins
<1>7. CASE Stop \/ \E a \in Automations : StopsBetween(a)
  BY <1>4, <1>7 DEF Stop, StopsBetween, Gone
<1>8. CASE Start \/ Pass \/ UNCHANGED vars
  BY <1>0, <1>8, SnapsStay DEF Start, Pass, vars, memory, history
<1> QED  BY <1>1, <1>2, <1>3, <1>5, <1>6, <1>7, <1>8 DEF Next

LEMMA CondStep ==
  ASSUME CondInv, [Next]_vars
  PROVE  CondInv' /\ \A a \in Automations : Fires(a)
<1>1. SnapsAgree'
  BY SnapsStep
<1>2. Typed /\ \A b \in Automations : hold[b] # None => becoming[b] # None
  BY DEF CondInv, Knows
<1>3. CASE \E a \in Automations, quiet \in BOOLEAN :
             Hear(a, quiet) \/ HoldOver(a) \/ RunEnds(a) \/ Play(a) \/ Edit(a) \/ Turn(a) \/ Delete(a)
               \/ StopsBetween(a) \/ Tell(a)
  BY <1>1, <1>2, <1>3, OutsideTyped, OutsideKnows DEF CondInv
<1>4. CASE Poke \/ TickBegins \/ TickClock \/ TickCondition \/ TickPasses \/ Stop \/ Start \/ Pass
  BY <1>1, <1>2, <1>4, InsideTyped, AroundTyped, InsideKnows DEF CondInv
<1>5. CASE UNCHANGED vars
  <2>1. Typed'
    BY <1>2, <1>5 DEF vars, memory, world, history, Typed, KnownTyped, StartsTyped, RulesTyped, TickTyped
  <2>2. \A b \in Automations : Same(b)
    BY <1>5 DEF vars, memory, history, Same
  <2> QED  BY <1>1, <2>1, <2>2, AllSame DEF CondInv
<1> QED  BY <1>3, <1>4, <1>5 DEF Next

LEMMA CondAlways == Spec => []CondInv
<1>1. Init => CondInv
  <2>1. Init => \A a \in Automations : Knows(a)
    BY DEF Init, Knows
  <2>2. Init => SnapsAgree
    BY IdleTyped DEF Init, SnapsAgree
  <2> QED  BY <2>1, <2>2, InitTyped DEF CondInv
<1> QED  BY <1>1, CondStep, PTL DEF Spec

(* Every variable keeps its type, and a hold is waited out only of a condition that is known. *)
THEOREM TypeCorrect == Spec => []TypeOK
<1>1. CondInv => TypeOK
  BY DEF CondInv, Typed, KnownTyped, StartsTyped, RulesTyped, TickTyped, Knows, TypeOK
<1> QED  BY <1>1, CondAlways, PTL

(* A condition that becomes true starts its automation once (triggers.ts, #becomes: a restart *)
(* "resumes a hold with the time it had left and never fires one twice").                     *)
THEOREM OnceAnEdge == Spec => []OneStartPerEdge
<1>1. CondInv => OneStartPerEdge
  BY DEF CondInv, Knows, OneStartPerEdge
<1> QED  BY <1>1, CondAlways, PTL

(* What a change leaves of a condition is nothing (triggers.ts, reset): one found true and    *)
(* dealt with has started its automation as it is now.                                        *)
THEOREM StartsAfresh == Spec => []AfreshIsOpen
<1>1. CondInv => AfreshIsOpen
  BY DEF CondInv, Knows, AfreshIsOpen
<1> QED  BY <1>1, CondAlways, PTL

(* A start after a hold has seen its condition hold that long, over restarts as well.         *)
THEOREM HeldThatLong == Spec => HeldLong
<1>1. CondInv /\ [Next]_vars =>
        [\A a \in Automations \ (touched \cup Clocked) :
           edge'[a] > edge[a] => /\ cond[a][version[a]] = "yes"
                                 /\ Hold[a] = 0 \/ since[a] >= Hold[a]]_vars
  BY CondStep DEF Fires
<1> QED  BY <1>1, CondAlways, PTL DEF Spec, HeldLong
-----------------------------------------------------------------------------
(* Who starts what.                                                        *)

LEMMA BeganOthers ==
  ASSUME StartsTyped, NEW a \in Automations, NEW s, Began(a, s)
  PROVE  \A b \in Clocked : b # a => slotted'[b] = slotted[b]
<1>1. CASE slotted' = slotted
  BY <1>1
<1>2. CASE slotted' = [slotted EXCEPT ![a][s] = @ + 1]
  BY <1>2 DEF StartsTyped
<1> QED  BY <1>1, <1>2 DEF Began

LEMMA RunAndKeepOthers ==
  ASSUME StartsTyped, NEW a \in Automations, NEW s, RunAndKeep(a, s)
  PROVE  /\ \A b \in Clocked : b # a => slotted'[b] = slotted[b]
         /\ Busy(a) \/ s = Never => slotted' = slotted
BY BeganOthers DEF RunAndKeep, Begin, Began

-----------------------------------------------------------------------------
(* The slots of the clock.                                                 *)

\* A tick waits for the run of this one.
WaitsFor(a) == tick.stage = "waiting" /\ Head(tick.rest).of = a /\ Busy(a) /\ a \notin Sequences

\* Slot t of it is behind: its last run is written down as of then - once the tick that waits for
\* it goes on - and so is its last start, or it was forgotten and every look at it knows its run.
Past(a, t) ==
  mode[a] # "gone" =>
    /\ lastRun[a] >= t \/ WaitsFor(a)
    /\ \/ startedAt[a] >= t
       \/ startedAt[a] = Never /\ \A i \in DOMAIN tick.rest : tick.rest[i].of = a => tick.rest[i].lastRun >= t

\* A slot that has started it has come, and is behind.
Started(a, t) ==
  slotted[a][t] > 0 => /\ slotted[a][t] = 1 /\ t <= now
                       /\ Busy(a) => running[a] >= t
                       /\ Past(a, t)

SlotsOf(a) ==
  /\ queued[a] = <<>>
  /\ a \notin touched \cup lost => \A t \in Slots[a] : Started(a, t)

TickInTime == tick.at <= now

LEMMA SlotTypes ==
  ASSUME Typed, NEW a \in Clocked
  PROVE  /\ a \in Automations /\ Slots[a] \subseteq Nat /\ now \in Nat /\ tick.at \in Nat
         /\ running[a] \in Nat \cup {Never} /\ startedAt[a] \in Nat \cup {Never} /\ lastRun[a] \in Nat \cup {Never}
         /\ \A t \in Slots[a] : slotted[a][t] \in Nat
BY TriggersAssumption DEF Typed, StartsTyped, TickTyped

LEMMA WrittenAt ==
  ASSUME NEW f, NEW a, NEW t, NEW b \in Clocked
  PROVE  Written(f, a, t)[b] = IF b = a THEN t ELSE f[b]
BY DEF Written

\* Nothing of its starts changes, and no tick learns of it.
StartsSame(a) ==
  /\ running'[a] = running[a] /\ startedAt'[a] = startedAt[a] /\ lastRun'[a] = lastRun[a]
  /\ slotted'[a] = slotted[a] /\ mode'[a] = mode[a] /\ queued'[a] = queued[a]
  /\ now' >= now /\ touched \subseteq touched' /\ lost \subseteq lost'

\* A tick is as it was, or goes on when it does not wait for it.
TickGoesOn(a) ==
  \/ tick' = tick
  \/ /\ ~WaitsFor(a)
     /\ \A i \in DOMAIN tick'.rest : \E j \in DOMAIN tick.rest : tick'.rest[i] = tick.rest[j]

LEMMA StaySlots ==
  ASSUME Typed, NEW a \in Clocked, SlotsOf(a), StartsSame(a), TickGoesOn(a), now' \in Nat
  PROVE  SlotsOf(a)'
<1>1. a \notin (touched \cup lost)' => a \notin touched \cup lost
  BY DEF StartsSame
<1>2. ASSUME NEW t \in Slots[a], Started(a, t)
      PROVE  Started(a, t)'
  <2>1. Busy(a)' = Busy(a)
    BY DEF Busy, StartsSame
  <2>2. Past(a, t) => Past(a, t)'
    BY <2>1 DEF Past, WaitsFor, StartsSame, TickGoesOn
  <2>3. t <= now => t <= now'
    BY SlotTypes DEF StartsSame
  <2> QED  BY <1>2, <2>1, <2>2, <2>3 DEF Started, StartsSame
<1> QED  BY <1>1, <1>2 DEF SlotsOf, StartsSame

\* It begins, for a slot or for something else; of the slots it has started for, each is behind.
LEMMA BeginSlots ==
  ASSUME Typed, NEW a \in Clocked, NEW s \in Slots[a] \cup {Never}, SlotsOf(a), ~Busy(a), Begin(a, s),
         UNCHANGED <<queued, mode, now, touched, lost>>,
         s # Never => /\ s <= now
                      /\ a \notin touched \cup lost => slotted[a][s] = 0
                      /\ a \notin Sequences => WaitsFor(a)'
  PROVE  SlotsOf(a)'
<1>0. /\ a \in Automations /\ Slots[a] \subseteq Nat /\ now \in Nat
      /\ lastRun[a] \in Nat \cup {Never} /\ \A t \in Slots[a] : slotted[a][t] \in Nat
  BY SlotTypes
<1>1. running'[a] = now /\ startedAt'[a] = now /\ lastRun'[a] = (IF a \in Sequences THEN now ELSE lastRun[a])
  BY <1>0, WrittenAt DEF Begin, Moment, Typed, StartsTyped
<1>2. \A t \in Slots[a] : slotted'[a][t] = IF t = s THEN slotted[a][t] + 1 ELSE slotted[a][t]
  <2>1. CASE s = Never
    <3>1. \A t \in Slots[a] : t # s
      BY <1>0, <2>1 DEF Never
    <3> QED  BY <2>1, <3>1 DEF Begin, Began
  <2>2. CASE s # Never
    <3>1. slotted' = [slotted EXCEPT ![a][s] = @ + 1]
      BY <2>2 DEF Begin, Began
    <3>2. a \in DOMAIN slotted /\ DOMAIN slotted[a] = Slots[a]
      BY DEF Typed, StartsTyped
    <3> QED  BY <3>1, <3>2
  <2> QED  BY <2>1, <2>2
<1>3. ASSUME NEW t \in Slots[a], a \notin touched \cup lost, slotted'[a][t] > 0
      PROVE  /\ slotted'[a][t] = 1 /\ t <= now
             /\ lastRun'[a] >= t \/ WaitsFor(a)' \/ mode[a] = "gone"
  <2>1. CASE t = s
    <3>1. s # Never
      BY <1>0, <2>1 DEF Never
    <3>2. slotted[a][t] = 0
      BY <1>3, <2>1, <3>1
    <3> QED  BY <1>0, <1>1, <1>2, <2>1, <3>1, <3>2
  <2>2. CASE t # s
    <3>1. slotted'[a][t] = slotted[a][t]
      BY <1>2, <2>2
    <3>2. slotted[a][t] = 1 /\ t <= now /\ Past(a, t)
      BY <1>3, <3>1 DEF SlotsOf, Started
    <3>3. lastRun[a] >= t \/ mode[a] = "gone"
      BY <3>2 DEF Past, WaitsFor
    <3> QED  BY <1>0, <1>1, <3>1, <3>2, <3>3
  <2> QED  BY <2>1, <2>2
<1>4. ASSUME NEW t \in Slots[a], a \notin touched \cup lost
      PROVE  Started(a, t)'
  BY <1>0, <1>1, <1>3, <1>4 DEF Started, Past
<1> QED  BY <1>4 DEF SlotsOf

\* What starts one of the others, or lets it go.
LEMMA RunAndKeepSame ==
  ASSUME Typed, NEW b \in Automations, NEW s, RunAndKeep(b, s), NEW a \in Clocked, b # a \/ (Busy(b) /\ Way[b] = "skip")
  PROVE  /\ running'[a] = running[a] /\ startedAt'[a] = startedAt[a] /\ lastRun'[a] = lastRun[a]
         /\ slotted'[a] = slotted[a] /\ queued'[a] = queued[a]
<1>0. a \in Automations /\ StartsTyped
  BY TriggersAssumption DEF Typed
<1>1. CASE b # a
  <2>1. slotted'[a] = slotted[a]
    BY <1>0, <1>1, RunAndKeepOthers
  <2>2. CASE Begin(b, s) /\ UNCHANGED queued
    <3>1. running'[a] = running[a]
      BY <1>0, <1>1, <2>2 DEF Begin, StartsTyped
    <3>2. startedAt'[a] = startedAt[a] /\ lastRun'[a] = lastRun[a]
      BY <1>1, <2>2, WrittenAt DEF Begin
    <3> QED  BY <2>1, <2>2, <3>1, <3>2
  <2>3. CASE UNCHANGED <<running, startedAt, lastRun, slotted>>
             /\ queued' \in {queued, [queued EXCEPT ![b] = Append(@, s)]}
    BY <1>0, <1>1, <2>1, <2>3 DEF StartsTyped
  <2> QED  BY <2>2, <2>3 DEF RunAndKeep
<1>2. CASE Busy(b) /\ Way[b] = "skip"
  BY <1>2 DEF RunAndKeep
<1> QED  BY <1>1, <1>2
SlotInv == TickInTime /\ \A a \in Clocked : Way[a] = "skip" => SlotsOf(a)

\* A start for something else than the clock, of this one or of another.
LEMMA OtherStarts ==
  ASSUME Typed, NEW a \in Clocked, Way[a] = "skip", SlotsOf(a), NEW b \in Automations,
         RunAndKeep(b, Never) \/ UNCHANGED <<running, startedAt, lastRun, queued, slotted>>,
         UNCHANGED <<mode, now, touched, lost>>, TickGoesOn(a)
  PROVE  SlotsOf(a)'
<1>0. now \in Nat
  BY SlotTypes
<1>1. CASE UNCHANGED <<running, startedAt, lastRun, queued, slotted>>
  BY <1>0, <1>1, StaySlots DEF StartsSame
<1>2. CASE RunAndKeep(b, Never) /\ (b # a \/ Busy(b))
  BY <1>0, <1>2, RunAndKeepSame, StaySlots DEF StartsSame
<1>3. CASE RunAndKeep(b, Never) /\ b = a /\ ~Busy(a)
  <2>1. Begin(a, Never) /\ UNCHANGED queued
    BY <1>3 DEF RunAndKeep
  <2> QED  BY <2>1, <1>3, BeginSlots
<1> QED  BY <1>1, <1>2, <1>3

LEMMA BecomesStarts ==
  ASSUME NEW b, NEW v, NEW quiet, Becomes(b, v, quiet)
  PROVE  RunAndKeep(b, Never) \/ UNCHANGED <<running, startedAt, lastRun, queued, slotted>>
BY DEF Becomes, LookUnknown, LookNo, LookYes, Fire, NothingStarts

\* A tick that was going waits for nothing.
LEMMA GoingOn ==
  ASSUME Typed, NEW a, tick.rest # <<>>, tick' = Onward, ~WaitsFor(a)
  PROVE  TickGoesOn(a)
BY OnwardRest DEF TickGoesOn, Typed

\* What was started of it is forgotten as its triggers start afresh, with no tick at work.
LEMMA ResetSlots ==
  ASSUME Typed, NEW a \in Clocked, SlotsOf(a), NEW b \in Automations, Free,
         startedAt' = Written(startedAt, b, Never), UNCHANGED <<running, lastRun, queued, slotted, tick, now, lost>>,
         touched' = IF Waits THEN touched \cup {b} ELSE touched,
         b # a => mode'[a] = mode[a],
         mode'[a] # "gone" => mode[a] # "gone"
  PROVE  SlotsOf(a)'
<1>0. TickTyped /\ now \in Nat
  BY DEF Typed, TickTyped
<1>1. CASE b # a
  <2>1. startedAt'[a] = startedAt[a]
    BY <1>1, WrittenAt
  <2> QED  BY <1>0, <1>1, <2>1, SlotTypes, StaySlots DEF StartsSame, TickGoesOn
<1>2. CASE b = a
  <2>1. startedAt'[a] = Never
    BY <1>2, WrittenAt
  <2>2. ASSUME a \notin touched' \cup lost', NEW t \in Slots[a]
        PROVE  Started(a, t)'
    <3>1. ~Waits /\ a \notin touched \cup lost
      BY <1>2, <2>2
    <3>2. DOMAIN tick.rest = {} /\ ~WaitsFor(a)
      BY <1>0, <3>1, FreeOrWaits DEF Waits, WaitsFor
    <3>3. Started(a, t)
      BY <2>2, <3>1 DEF SlotsOf
    <3>4. Busy(a)' = Busy(a) /\ WaitsFor(a)' = WaitsFor(a)
      BY DEF Busy, WaitsFor
    <3>5. Past(a, t) => Past(a, t)'
      BY <2>1, <3>2, <3>4 DEF Past
    <3> QED  BY <3>3, <3>4, <3>5 DEF Started
  <2> QED  BY <2>2 DEF SlotsOf
<1> QED  BY <1>1, <1>2

\* The server stops: a run of commands alone that was not written down is lost.
LEMMA StopSlots ==
  ASSUME Typed, NEW a \in Clocked, SlotsOf(a), Gone, UNCHANGED <<mode, startedAt, lastRun, now, slotted, touched>>,
         lost \cup Unrecorded \subseteq lost'
  PROVE  SlotsOf(a)'
<1>1. a \in Automations /\ queued'[a] = <<>> /\ running'[a] = Never /\ tick' = Idle
  BY SlotTypes DEF Gone
<1>2. DOMAIN tick'.rest = {} /\ ~WaitsFor(a)'
  BY <1>1, IdleTyped DEF WaitsFor
<1>3. ASSUME a \notin touched' \cup lost', NEW t \in Slots[a]
      PROVE  Started(a, t)'
  <2>1. a \notin touched \cup lost /\ ~ (Busy(a) /\ a \notin Sequences)
    BY <1>1, <1>3 DEF Unrecorded
  <2>2. Started(a, t) /\ ~WaitsFor(a)
    BY <1>3, <2>1 DEF SlotsOf, WaitsFor
  <2>3. ~Busy(a)'
    BY <1>1 DEF Busy
  <2>4. lastRun[a] \in Nat \cup {Never} /\ startedAt[a] \in Nat \cup {Never} /\ t \in Nat
    BY <1>3, SlotTypes
  <2>5. (slotted[a][t] > 0) => (Past(a, t) => Past(a, t)')
    <3>1. Past(a, t) /\ mode[a] # "gone" => lastRun[a] >= t /\ (startedAt[a] >= t \/ startedAt[a] = Never)
      BY <2>2 DEF Past
    <3> QED  BY <1>2, <3>1 DEF Past
  <2> QED  BY <2>2, <2>3, <2>5 DEF Started
<1> QED  BY <1>1, <1>3 DEF SlotsOf
\* What comes from outside, of one automation.
LEMMA OutsideSlots ==
  ASSUME CondInv, NEW a \in Clocked, Way[a] = "skip", SlotsOf(a), NEW b \in Automations, NEW quiet \in BOOLEAN,
         Hear(b, quiet) \/ HoldOver(b) \/ RunEnds(b) \/ Play(b) \/ Edit(b) \/ Turn(b) \/ Delete(b)
           \/ StopsBetween(b) \/ Tell(b)
  PROVE  SlotsOf(a)'
<1>0. Typed /\ TickTyped /\ now \in Nat /\ a \in Automations
  BY SlotTypes DEF CondInv, Typed
<1>1. CASE Hear(b, quiet)
  <2>1. RunAndKeep(b, Never) \/ UNCHANGED <<running, startedAt, lastRun, queued, slotted>>
    BY <1>1, BecomesStarts DEF Hear
  <2> QED  BY <1>0, <1>1, <2>1, OtherStarts DEF Hear, world, TickGoesOn
<1>2. CASE HoldOver(b)
  <2>1. RunAndKeep(b, Never) \/ UNCHANGED <<running, startedAt, lastRun, queued, slotted>>
    BY <1>2 DEF HoldOver, Fire, NothingStarts
  <2> QED  BY <1>0, <1>2, <2>1, OtherStarts DEF HoldOver, world, TickGoesOn
<1>3. CASE RunEnds(b)
  <2>1. tick' = tick \/ (tick.rest # <<>> /\ Waits /\ Head(tick.rest).of = b /\ tick' = Onward)
    BY <1>0, <1>3 DEF RunEnds, TickTyped, Waits
  <2>2. CASE b # a
    <3>1. TickGoesOn(a)
      <4>1. CASE tick' = tick
        BY <4>1 DEF TickGoesOn
      <4>2. CASE tick.rest # <<>> /\ Head(tick.rest).of = b /\ tick' = Onward
        BY <1>0, <2>2, <4>2, GoingOn DEF WaitsFor
      <4> QED  BY <2>1, <4>1, <4>2
    <3>2. running'[a] = running[a] /\ queued'[a] = queued[a]
      BY <1>0, <1>3, <2>2 DEF RunEnds, Typed, StartsTyped
    <3>3. startedAt'[a] = startedAt[a] /\ lastRun'[a] = lastRun[a]
      BY <1>3, <2>2, WrittenAt DEF RunEnds
    <3>4. slotted'[a] = slotted[a]
      BY <1>0, <1>3, <2>2, BeganOthers DEF RunEnds, Typed
    <3> QED  BY <1>0, <1>3, <3>1, <3>2, <3>3, <3>4, StaySlots DEF RunEnds, StartsSame, world
  <2>3. CASE b = a
    <3>1. /\ running' = [running EXCEPT ![a] = Never] /\ queued' = [queued EXCEPT ![a] = <<>>]
          /\ lastRun' = (IF a \in Sequences \/ mode[a] = "gone" THEN lastRun ELSE Written(lastRun, a, running[a]))
          /\ Busy(a) /\ UNCHANGED <<startedAt, slotted, mode, now, touched, lost>>
      BY <1>3, <2>3 DEF RunEnds, SlotsOf, world
    <3>2. /\ running'[a] = Never /\ queued'[a] = <<>>
          /\ lastRun'[a] = IF a \in Sequences \/ mode[a] = "gone" THEN lastRun[a] ELSE running[a]
      BY <1>0, <3>1, WrittenAt DEF Typed, StartsTyped
    <3>3. \A i \in DOMAIN tick'.rest : \E j \in DOMAIN tick.rest : tick'.rest[i] = tick.rest[j]
      BY <1>0, <2>1, OnwardRest
    <3>4. ASSUME a \notin touched \cup lost, NEW t \in Slots[a]
          PROVE  Started(a, t)'
      <4>1. Started(a, t) /\ t \in Nat /\ lastRun[a] \in Nat \cup {Never} /\ running[a] \in Nat \cup {Never}
        BY <1>0, <3>4, SlotTypes DEF SlotsOf
      <4>2. ~Busy(a)'
        BY <3>2 DEF Busy
      <4>3. ASSUME slotted[a][t] > 0, mode[a] # "gone"
            PROVE  lastRun'[a] >= t
        BY <3>1, <3>2, <4>1, <4>3 DEF Started, Past, WaitsFor
      <4>4. slotted[a][t] > 0 => Past(a, t)'
        BY <3>1, <3>3, <4>1, <4>3 DEF Started, Past
      <4> QED  BY <3>1, <4>1, <4>2, <4>4 DEF Started
    <3> QED  BY <3>1, <3>2, <3>4 DEF SlotsOf
  <2> QED  BY <2>2, <2>3
<1>4. CASE Play(b)
  <2>1. CASE b # a
    <3>1. running'[a] = running[a] /\ lastRun'[a] = lastRun[a]
      BY <1>0, <1>4, <2>1, WrittenAt DEF Play, Typed, StartsTyped
    <3> QED  BY <1>0, <1>4, <2>1, <3>1, StaySlots DEF Play, StartsSame, TickGoesOn, world, history
  <2>2. CASE b = a
    <3>1. running'[a] = now /\ lastRun'[a] = (IF a \in Sequences THEN now ELSE lastRun[a]) /\ ~Busy(a)
          /\ UNCHANGED <<startedAt, queued, slotted, mode, now, touched, lost, tick>>
      BY <1>0, <1>4, <2>2, WrittenAt DEF Play, Moment, Typed, StartsTyped, world, history
    <3>2. ASSUME a \notin touched \cup lost, NEW t \in Slots[a]
          PROVE  Started(a, t)'
      <4>1. Started(a, t) /\ t \in Nat /\ lastRun[a] \in Nat \cup {Never}
        BY <1>0, <3>2, SlotTypes DEF SlotsOf
      <4> QED  BY <1>0, <3>1, <4>1 DEF Started, Past, WaitsFor
    <3> QED  BY <3>1, <3>2 DEF SlotsOf
  <2> QED  BY <2>1, <2>2
<1>5. CASE Edit(b)
  BY <1>0, <1>5, ResetSlots DEF Edit, Reset, Afresh, world
<1>6. CASE Turn(b)
  <2>1. (b # a => mode'[a] = mode[a]) /\ (mode'[a] # "gone" => mode[a] # "gone")
    BY <1>0, <1>6 DEF Turn, Typed, RulesTyped
  <2> QED  BY <1>0, <1>6, <2>1, ResetSlots DEF Turn, Reset, Afresh, world
<1>7. CASE Delete(b)
  <2>1. CASE b # a
    <3>1. mode'[a] = mode[a] /\ queued'[a] = queued[a]
      BY <1>0, <1>7, <2>1 DEF Delete, Typed, RulesTyped, StartsTyped
    <3>2. startedAt'[a] = startedAt[a] /\ lastRun'[a] = lastRun[a]
      BY <1>7, <2>1, WrittenAt DEF Delete
    <3> QED  BY <1>0, <1>7, <3>1, <3>2, StaySlots DEF Delete, StartsSame, TickGoesOn, world
  <2>2. CASE b = a
    <3>1. mode'[a] = "gone" /\ queued'[a] = <<>>
      BY <1>0, <1>7, <2>2 DEF Delete, Typed, RulesTyped, StartsTyped
    <3>2. UNCHANGED <<running, slotted, now, lost>> /\ touched \subseteq touched'
      BY <1>7 DEF Delete, world
    <3> QED  BY <3>1, <3>2 DEF SlotsOf, Started, Past, Busy
  <2> QED  BY <2>1, <2>2
<1>8. CASE StopsBetween(b)
  BY <1>0, <1>8, StopSlots DEF StopsBetween, world
<1>9. CASE Tell(b)
  BY <1>0, <1>9, StaySlots DEF Tell, StartsSame, TickGoesOn, memory, history
<1> QED  BY <1>1, <1>2, <1>3, <1>4, <1>5, <1>6, <1>7, <1>8, <1>9
\* What is due has not started it yet.
LEMMA DueIsNew ==
  ASSUME CondInv, SlotInv, NEW a \in Clocked, Way[a] = "skip", tick.stage = "going", Head(tick.rest).of = a,
         DueSlots(Head(tick.rest)) # {}, a \notin touched \cup lost, mode[a] # "gone"
  PROVE  slotted[a][Least(DueSlots(Head(tick.rest)))] = 0
<1> DEFINE s == Head(tick.rest)
           t == Least(DueSlots(s))
<1>1. /\ Typed /\ s \in Snapshots /\ 1 \in DOMAIN tick.rest /\ s = tick.rest[1]
  BY HeadTyped DEF CondInv, Typed, TickTyped
<1>2. t \in DueSlots(s) /\ t \in Slots[a] /\ t \in Nat
  BY DueTyped
<1>3. (IF startedAt[a] # Never THEN startedAt[a] ELSE s.lastRun) < t
  BY <1>2 DEF DueSlots
<1>4. /\ startedAt[a] \in Nat \cup {Never} /\ slotted[a][t] \in Nat /\ s.lastRun \in Nat \cup {Never}
  BY <1>1, <1>2, SlotTypes DEF Snapshots
<1> HIDE DEF s, t
<1>5. ~Past(a, t)
  <2>1. s.of = a
    BY DEF s
  <2> QED  BY <1>1, <1>2, <1>3, <1>4, <2>1 DEF Past, Never
<1>6. Started(a, t)
  BY <1>2 DEF SlotInv, SlotsOf
<1> QED  BY <1>4, <1>5, <1>6 DEF Started, t, s

LEMMA TickClockSlots ==
  ASSUME CondInv, SlotInv, NEW a \in Clocked, Way[a] = "skip", TickClock
  PROVE  SlotsOf(a)'
<1> DEFINE s == Head(tick.rest)
           t == Least(DueSlots(s))
<1>1. /\ Typed /\ TickTyped /\ tick.rest # <<>> /\ s.of \in Automations /\ now \in Nat /\ tick.at \in Nat
      /\ a \in Automations
  BY HeadTyped, SlotTypes DEF CondInv, Typed, TickTyped, TickClock, Snapshots
<1>2. /\ t \in Slots[s.of] /\ s.of \in Clocked /\ t <= tick.at /\ t \in Nat
      /\ RunAndKeep(s.of, t) /\ (mode[s.of] # "gone" \/ Busy(s.of))
      /\ tick.stage = "going" /\ SlotsOf(a)
      /\ UNCHANGED <<mode, now, touched, lost>>
      /\ tick' = IF s.of \in Sequences \/ Busy(s.of) THEN Onward ELSE [tick EXCEPT !.stage = "waiting"]
  BY DueTyped DEF TickClock, DueSlots, SlotInv, world
<1>3. TickGoesOn(a)
  <2>1. ~WaitsFor(a)
    BY <1>2 DEF WaitsFor
  <2>2. CASE tick' = Onward
    BY <1>1, <2>1, <2>2, GoingOn
  <2>3. CASE tick' = [tick EXCEPT !.stage = "waiting"]
    <3>1. tick'.rest = tick.rest
      BY <1>1, <2>3 DEF TickTyped
    <3> QED  BY <2>1, <3>1 DEF TickGoesOn
  <2> QED  BY <1>2, <2>2, <2>3
<1>4. CASE s.of # a \/ Busy(a)
  <2>1. /\ running'[a] = running[a] /\ startedAt'[a] = startedAt[a] /\ lastRun'[a] = lastRun[a]
        /\ slotted'[a] = slotted[a] /\ queued'[a] = queued[a]
    <3> HIDE DEF s, t
    <3>1. s.of # a \/ (Busy(s.of) /\ Way[s.of] = "skip")
      BY <1>4
    <3> QED  BY <1>1, <1>2, <3>1, RunAndKeepSame
  <2> QED  BY <1>1, <1>2, <1>3, <2>1, StaySlots DEF StartsSame
<1>5. CASE s.of = a /\ ~Busy(a)
  <2>1. Begin(a, t) /\ UNCHANGED queued
    BY <1>2, <1>5 DEF RunAndKeep
  <2>2. a \notin touched \cup lost => slotted[a][t] = 0
    BY <1>2, <1>5, DueIsNew DEF TickClock
  <2>3. t <= now
    BY <1>1, <1>2 DEF SlotInv, TickInTime
  <2>4. a \notin Sequences => WaitsFor(a)'
    <3>1. ASSUME a \notin Sequences
          PROVE  tick'.stage = "waiting" /\ tick'.rest = tick.rest
      BY <1>1, <1>2, <1>5, <3>1 DEF TickTyped
    <3>2. running'[a] = now /\ now # Never
      BY <1>1, <2>1 DEF Begin, Moment, Never, Typed, StartsTyped
    <3> QED  BY <1>5, <3>1, <3>2 DEF WaitsFor, Busy
  <2> HIDE DEF s, t
  <2> QED  BY <1>1, <1>2, <1>5, <2>1, <2>2, <2>3, <2>4, BeginSlots
<1> QED  BY <1>4, <1>5

LEMMA TickBeginsSlots ==
  ASSUME CondInv, SlotInv, NEW a \in Clocked, Way[a] = "skip", TickBegins
  PROVE  SlotsOf(a)'
<1>0. Typed /\ now \in Nat /\ SlotsOf(a)
  BY SlotTypes DEF CondInv, SlotInv
<1>1. UNCHANGED <<mode, startedAt, lastRun, running, queued, now, slotted, lost, touched>>
  BY DEF TickBegins, world, history
<1>2. CASE tick' = tick
  BY <1>0, <1>1, <1>2, StaySlots DEF StartsSame, TickGoesOn
<1>3. CASE tick.stage # "waiting" /\ tick'.rest = [i \in DOMAIN List |-> Snapshot(List[i])]
  <2>1. \A i \in DOMAIN tick'.rest : tick'.rest[i].of = a => tick'.rest[i].lastRun = lastRun[a]
    BY <1>3 DEF Snapshot
  <2>2. ASSUME a \notin touched \cup lost, NEW t \in Slots[a]
        PROVE  Started(a, t)'
    <3>1. Started(a, t) /\ ~WaitsFor(a) /\ Busy(a)' = Busy(a)
      BY <1>0, <1>1, <1>3, <2>2 DEF SlotsOf, WaitsFor, Busy
    <3>2. Past(a, t) => Past(a, t)'
      BY <1>1, <2>1, <3>1 DEF Past
    <3> QED  BY <1>1, <3>1, <3>2 DEF Started
  <2> QED  BY <1>0, <1>1, <2>2 DEF SlotsOf
<1> QED  BY <1>2, <1>3 DEF TickBegins

LEMMA InsideSlots ==
  ASSUME CondInv, SlotInv, NEW a \in Clocked, Way[a] = "skip",
         Poke \/ TickBegins \/ TickClock \/ TickCondition \/ TickPasses \/ Stop \/ Start \/ Pass
  PROVE  SlotsOf(a)'
<1>0. Typed /\ TickTyped /\ now \in Nat /\ a \in Automations /\ SlotsOf(a)
  BY SlotTypes DEF CondInv, Typed, SlotInv
<1>1. CASE Poke
  <2>1. poked \in Automations
    BY <1>0, <1>1 DEF Poke, TickTyped
  <2>2. RunAndKeep(poked, Never) \/ UNCHANGED <<running, startedAt, lastRun, queued, slotted>>
    BY <1>1, BecomesStarts DEF Poke, NothingStarts
  <2> QED  BY <1>0, <1>1, <2>1, <2>2, OtherStarts DEF Poke, world, TickGoesOn
<1>2. CASE TickCondition
  <2>1. Head(tick.rest).of \in Automations /\ tick.rest # <<>>
    BY <1>0, <1>2, HeadTyped DEF TickCondition, TickTyped, Snapshots
  <2>2. RunAndKeep(Head(tick.rest).of, Never) \/ UNCHANGED <<running, startedAt, lastRun, queued, slotted>>
    BY <1>2, BecomesStarts DEF TickCondition
  <2>3. TickGoesOn(a)
    BY <1>0, <1>2, <2>1, GoingOn DEF TickCondition, WaitsFor
  <2> QED  BY <1>0, <1>2, <2>1, <2>2, <2>3, OtherStarts DEF TickCondition, world
<1>3. CASE TickPasses
  <2>1. TickGoesOn(a)
    <3>1. ~WaitsFor(a) /\ tick.rest # <<>>
      BY <1>0, <1>3 DEF TickPasses, TickTyped, WaitsFor
    <3>2. CASE tick' = Onward
      BY <1>0, <3>1, <3>2, GoingOn
    <3>3. CASE tick' = Idle
      BY <3>1, <3>3, IdleTyped DEF TickGoesOn
    <3> QED  BY <1>3, <3>2, <3>3 DEF TickPasses
  <2> QED  BY <1>0, <1>3, <2>1, StaySlots DEF TickPasses, StartsSame, world, history
<1>4. CASE Stop
  BY <1>0, <1>4, StopSlots DEF Stop, world
<1>5. CASE Start
  BY <1>0, <1>5, StaySlots DEF Start, StartsSame, TickGoesOn, memory, world, history
<1>6. CASE Pass
  <2>1. now' \in Nat /\ now' >= now
    BY <1>0, <1>6, TriggersAssumption DEF Pass
  <2> QED  BY <1>0, <1>6, <2>1, StaySlots DEF Pass, StartsSame, TickGoesOn
<1> QED  BY <1>1, <1>2, <1>3, <1>4, <1>5, <1>6, TickClockSlots, TickBeginsSlots

LEMMA TickInTimeStep ==
  ASSUME CondInv, TickInTime, [Next]_vars
  PROVE  TickInTime'
<1>0. TickTyped /\ now \in Nat /\ tick.at \in Nat /\ Horizon \in Nat
  BY TriggersAssumption DEF CondInv, Typed, TickTyped
<1>1. tick'.at \in {tick.at, now, 0}
  <2>1. Idle.at = 0
    BY DEF Idle
  <2>2. tick' = Onward => tick'.at = tick.at
    BY <1>0 DEF Onward, TickTyped
  <2>3. tick' = [tick EXCEPT !.stage = "waiting"] => tick'.at = tick.at
    BY <1>0 DEF TickTyped
  <2>4. ASSUME NEW a \in Automations, NEW quiet \in BOOLEAN,
               Hear(a, quiet) \/ HoldOver(a) \/ Play(a) \/ Edit(a) \/ Turn(a) \/ Delete(a) \/ Tell(a)
        PROVE  tick' = tick
    BY <2>4 DEF Hear, HoldOver, Play, Edit, Turn, Afresh, Delete, Tell, memory
  <2>5. ASSUME NEW a \in Automations, RunEnds(a)
        PROVE  tick' = tick \/ tick' = Onward
    BY <2>5 DEF RunEnds
  <2>6. CASE Stop \/ \E a \in Automations : StopsBetween(a)
    BY <2>1, <2>6 DEF Stop, StopsBetween, Gone
  <2>7. CASE Poke \/ Start \/ Pass \/ UNCHANGED vars
    BY <2>7 DEF Poke, Start, Pass, memory, vars
  <2>8. CASE TickBegins
    BY <2>8 DEF TickBegins
  <2>9. CASE TickClock
    BY <2>2, <2>3, <2>9 DEF TickClock
  <2>10. CASE TickCondition \/ TickPasses
    BY <2>1, <2>2, <2>10 DEF TickCondition, TickPasses
  <2> QED  BY <2>2, <2>4, <2>5, <2>6, <2>7, <2>8, <2>9, <2>10 DEF Next
<1>2. now' \in Nat /\ now' >= now
  <2>1. CASE Pass
    BY <1>0, <2>1 DEF Pass
  <2>2. ASSUME NEW a \in Automations,
               (\E quiet \in BOOLEAN : Hear(a, quiet)) \/ HoldOver(a) \/ RunEnds(a) \/ Play(a) \/ Edit(a)
                 \/ Turn(a) \/ Delete(a) \/ StopsBetween(a) \/ Tell(a)
        PROVE  now' = now
    BY <2>2 DEF Hear, HoldOver, RunEnds, Play, Edit, Turn, Afresh, Delete, StopsBetween, Tell, world
  <2>3. ASSUME Poke \/ TickBegins \/ TickClock \/ TickCondition \/ TickPasses \/ Stop \/ Start \/ UNCHANGED vars
        PROVE  now' = now
    BY <2>3 DEF Poke, TickBegins, TickClock, TickCondition, TickPasses, Stop, Start, vars, world
  <2> QED  BY <1>0, <2>1, <2>2, <2>3 DEF Next
<1> QED  BY <1>0, <1>1, <1>2 DEF TickInTime

LEMMA SlotStep ==
  ASSUME CondInv, SlotInv, [Next]_vars
  PROVE  SlotInv'
<1>1. TickInTime'
  BY TickInTimeStep DEF SlotInv
<1>2. ASSUME NEW a \in Clocked, Way[a] = "skip"
      PROVE  SlotsOf(a)'
  <2>1. CASE UNCHANGED vars
    BY <1>2, <2>1, SlotTypes, StaySlots DEF CondInv, SlotInv, StartsSame, TickGoesOn, vars, memory, world, history
  <2> QED  BY <1>2, <2>1, OutsideSlots, InsideSlots DEF Next, SlotInv
<1> QED  BY <1>1, <1>2 DEF SlotInv

(* Each slot of the clock starts an automation once (triggers.ts, #dueEvery: "once a slot,    *)
(* never catching up") where a start lets go what is still running.  Where starts wait for    *)
(* their turn a slot that waits is due again at the next look, and starts it twice.           *)
THEOREM OnceASlot ==
  ASSUME \A a \in Clocked : Way[a] = "skip"
  PROVE  Spec => []SlotOnce
<1>1. Init => SlotInv
  <2>1. ASSUME Init PROVE TickInTime
    BY <2>1 DEF Init, TickInTime, Idle
  <2>2. ASSUME Init, NEW a \in Clocked PROVE SlotsOf(a)
    <3>1. a \in Automations
      BY TriggersAssumption
    <3> QED  BY <2>2, <3>1 DEF Init, SlotsOf, Started
  <2> QED  BY <2>1, <2>2 DEF SlotInv
<1>2. CondInv /\ SlotInv => SlotOnce
  <2> SUFFICES ASSUME CondInv, SlotInv, NEW a \in Clocked \ (touched \cup lost), NEW t \in Slots[a]
               PROVE  slotted[a][t] <= 1
    BY DEF SlotOnce
  <2>1. Started(a, t) /\ slotted[a][t] \in Nat
    BY SlotTypes DEF SlotInv, SlotsOf, CondInv
  <2> QED  BY <2>1 DEF Started
<1> QED  BY <1>1, <1>2, CondAlways, SlotStep, PTL DEF Spec
=============================================================================
