------------------------------- MODULE MCRuns -------------------------------
(* A small home for TLC: what each automation does, changes and starts.    *)
EXTENDS Runs, TLC

CONSTANTS morning, heat, boost,   \* automations
          floor, tank             \* parts

\* Morning switches something, then starts heat and waits for it; heat waits, then would start
\* morning; boost is two commands alone.  Heat changes what either of the others does.
TurnsChanges == [a \in Automations |->
                  IF a = morning THEN {floor} ELSE IF a = heat THEN {floor, tank} ELSE {tank}]
TurnsSteps   == [a \in Automations |->
                  IF a = morning THEN <<"act", "startwait">>
                  ELSE IF a = heat THEN <<"wait", "start">> ELSE <<"act", "act">>]
TurnsStarts  == [a \in Automations |-> IF a = heat THEN morning ELSE heat]
TurnsWay     == [a \in Automations |->
                  IF a = boost THEN "restart" ELSE IF a = heat THEN "queue" ELSE "skip"]
=============================================================================
