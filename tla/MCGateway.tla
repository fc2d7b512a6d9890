----------------------------- MODULE MCGateway -----------------------------
(* Small homes for TLC: who asks, and what is linked to what.              *)
EXTENDS Gateway, TLC

CONSTANTS ann, ben, bot, rule,     \* two people, an assistant, an automation
          tap, tap2, nudge, step,  \* callers
          evening,                 \* a run
          plug, heater, chime, station, floor  \* things

\* A person at a screen, and a rule's run taking steps.
RunBy    == (tap :> ann) @@ (step :> rule)
RunRunOf == (tap :> NoRun) @@ (step :> evening)

\* One person.
OneBy == tap :> ann

\* Two people, an assistant and a rule.
PeopleBy == [c \in Callers |-> IF c = tap THEN ann ELSE IF c = tap2 THEN ben
                             ELSE IF c = nudge THEN bot ELSE rule]

Free       == [c \in Callers |-> NoRun]
MCKind     == (ann :> "person") @@ (ben :> "person") @@ (bot :> "agent")
                  @@ (rule :> "automation")
ByTriggers == [r \in Runs |-> "none"]
Twice      == [r \in Runs |-> 2]

Unlinked == [p \in Parts |-> {}]
Fed      == [p \in Parts |-> IF p = plug THEN {station} ELSE {}]
=============================================================================
