--------------------------- MODULE GatewayProofs ---------------------------
(***************************************************************************)
(* What is proved of the action gateway for every home: its variables keep *)
(* their types; the ledger says what happened; no two sends come closer    *)
(* than the pause owed; a run keeps to its allowance; and a grave send is  *)
(* a person's, with a yes of its own.                                      *)
(***************************************************************************)
EXTENDS Gateway, TLAPS, FiniteSetTheorems

-----------------------------------------------------------------------------
(* Types.                                                                  *)

\* Every time and every bound is a natural number.
LEMMA TimesNat ==
    /\ RunGap \in Nat /\ PersonDwell \in Nat /\ AgentDwell \in Nat
    /\ AutomationDwell \in Nat /\ UserWriteDwell \in Nat /\ SendTimeout \in Nat
    /\ VerifyTimeout \in Nat /\ TTL \in Nat /\ Horizon \in Nat
    /\ RunSwitchCeiling \in Nat \ {0}
BY TimesAssumption

\* Asking nothing is a request by type.
LEMMA NoAskType == NoAsk \in [on : Targets, value : BOOLEAN, token : Nat]
BY SetsAssumption DEF NoAsk

\* Every variable but those of the world.
GateTypeOK ==
    /\ now \in Nat /\ restarts \in Nat
    /\ line \in Seq(Callers)
    /\ phase \in [Callers -> Answers \cup Busy]
    /\ ask \in [Callers -> [on : Targets, value : BOOLEAN, token : Nat]]
    /\ sending \in [at : Nat \cup {Never}, before : Nat \cup {Never}, inRun : Nat]
    /\ proof \in [Callers -> [at : Nat \cup {Never}, until : Nat,
                              stage : {"device", "links"}, agreed : BOOLEAN]]
    /\ ledger \in [Targets -> Nat \cup {Never}]
    /\ runSwitches \in [Runs -> [Parts -> Nat]]
    /\ ended \subseteq Runs
    /\ asked \in Seq([subject : Targets \X BOOLEAN \X Actors, expires : Nat])
    /\ pending \subseteq 1..Len(asked)
    /\ sent \in Seq(SentType)

WorldTypeOK ==
    /\ online \subseteq Things /\ weighty \subseteq Parts /\ low \subseteq Parts
    /\ air \subseteq [on : Targets, value : BOOLEAN, at : Nat]
    /\ actual \in [Things -> BOOLEAN]
    /\ changed \in [Ends -> Nat \cup {Never}]
    /\ wire \in [Things -> Reading] /\ reading \in [Things -> Reading]

\* The type invariant is the gateway's and the world's.
LEMMA TypeParts == TypeOK <=> GateTypeOK /\ WorldTypeOK
BY DEF TypeOK, GateTypeOK, WorldTypeOK

\* Answering keeps what it sets well typed.
LEMMA AnswerType ==
    ASSUME GateTypeOK, NEW c \in Callers, NEW o \in Answers, Answer(c, o)
    PROVE  /\ phase' \in [Callers -> Answers \cup Busy]
           /\ ask' \in [Callers -> [on : Targets, value : BOOLEAN, token : Nat]]
           /\ proof' \in [Callers -> [at : Nat \cup {Never}, until : Nat,
                                      stage : {"device", "links"}, agreed : BOOLEAN]]
BY NoAskType DEF GateTypeOK, Answer, NoProof

\* The count of a run's switches of a part stays a count.
LEMMA CountingType ==
    ASSUME GateTypeOK, NEW c \in Callers, NEW n \in Nat
    PROVE  Counting(c, n) \in [Runs -> [Parts -> Nat]]
<1>1. CASE RunOf[c] = NoRun \/ IsWrite(c)
  BY <1>1 DEF Counting, GateTypeOK
<1>2. CASE ~(RunOf[c] = NoRun \/ IsWrite(c))
  <2>1. RunOf[c] \in Runs /\ Of(c) \in Parts
    BY <1>2, CallersAssumption DEF IsWrite, Of, GateTypeOK, Targets
  <2>2. Counting(c, n) = [runSwitches EXCEPT ![RunOf[c]][Of(c)] = n]
    BY <1>2 DEF Counting
  <2>3. runSwitches \in [Runs -> [Parts -> Nat]]
    BY DEF GateTypeOK
  <2> QED  BY <2>1, <2>2, <2>3
<1> QED  BY <1>1, <1>2

\* So is how often its run has switched the part a caller asks for.
LEMMA InRunType ==
    ASSUME GateTypeOK, NEW c \in Callers
    PROVE  InRun(c) \in Nat
BY CallersAssumption DEF InRun, IsWrite, Of, GateTypeOK, Targets

\* The home starts with its types.
LEMMA InitType == Init => TypeOK
<1> SUFFICES ASSUME Init PROVE TypeOK
  OBVIOUS
<1>1. GateTypeOK
  BY NoAskType, TimesAssumption DEF Init, GateTypeOK, NotSending, NoProof, Answers, Never
<1>2. WorldTypeOK
  BY DEF Init, WorldTypeOK, NoReading, Reading, Never
<1> QED  BY <1>1, <1>2, TypeParts

\* Asking keeps the types of the gateway's own variables.
LEMMA AskType ==
    ASSUME GateTypeOK, NEW c \in Callers,
           NEW x \in Targets, NEW v \in BOOLEAN, NEW t \in 0..Len(asked),
           Ask(c, x, v, t)
    PROVE  GateTypeOK'
<1>1. /\ line' \in Seq(Callers)
      /\ phase' \in [Callers -> Answers \cup Busy]
      /\ ask' \in [Callers -> [on : Targets, value : BOOLEAN, token : Nat]]
  BY DEF GateTypeOK, Ask, Busy
<1>2. UNCHANGED <<now, sending, proof, ledger, runSwitches, ended, asked, pending,
                  restarts, sent>>
  BY DEF Ask, memory
<1> QED  BY <1>1, <1>2 DEF GateTypeOK

\* So does its turn.
LEMMA JudgeType ==
    ASSUME GateTypeOK, NEW c \in Callers, Judge(c)
    PROVE  GateTypeOK'
<1>1. line' \in Seq(Callers) /\ Turn(c)
  <2>1. line' = Tail(line) /\ Turn(c)
    BY DEF Judge, Refuse, Question, Already, Send, LetThrough
  <2> QED  BY <2>1 DEF Turn, GateTypeOK
<1>2. CASE Refuse(c)
  <2>1. UNCHANGED <<now, sending, ledger, runSwitches, ended, asked, pending,
                    restarts, sent>>
    BY <1>2 DEF Refuse, memory
  <2>2. Answer(c, "unproven")
    BY <1>2 DEF Refuse
  <2> QED  BY <1>1, <2>1, <2>2, AnswerType DEF GateTypeOK, Answers
<1>3. CASE Question(c)
  <2>1. [subject |-> Subject(c), expires |-> now + TTL]
            \in [subject : Targets \X BOOLEAN \X Actors, expires : Nat]
    <3>1. Subject(c) \in Targets \X BOOLEAN \X Actors
      BY CallersAssumption DEF Subject, GateTypeOK, Of
    <3>2. now + TTL \in Nat
      BY TimesNat DEF GateTypeOK
    <3> QED  BY <3>1, <3>2
  <2>2. asked' = Append(asked, [subject |-> Subject(c), expires |-> now + TTL])
    BY <1>3 DEF Question
  <2>3. /\ asked' \in Seq([subject : Targets \X BOOLEAN \X Actors, expires : Nat])
        /\ Len(asked') = Len(asked) + 1 /\ Len(asked) \in Nat
    BY <2>1, <2>2 DEF GateTypeOK
  <2>4. pending' \subseteq 1..Len(asked')
    <3>1. pending \subseteq 1..Len(asked)
      BY DEF GateTypeOK
    <3>2. pending' \subseteq pending \cup {Len(asked) + 1}
      BY <1>3 DEF Question
    <3> QED  BY <2>3, <3>1, <3>2
  <2>5. UNCHANGED <<now, sending, ledger, runSwitches, ended, restarts, sent>>
    BY <1>3 DEF Question
  <2>6. Answer(c, "unproven")
    BY <1>3 DEF Question
  <2> QED  BY <1>1, <2>3, <2>4, <2>5, <2>6, AnswerType DEF GateTypeOK, Answers
<1>4. CASE Already(c)
  <2>1. \E o \in Answers : Answer(c, o)
    BY <1>4 DEF Already, Answers
  <2>2. UNCHANGED <<now, sending, ledger, runSwitches, ended, asked, restarts, sent>>
    BY <1>4 DEF Already
  <2>3. pending' \subseteq pending
    BY <1>4 DEF Already, SpendToken
  <2> QED  BY <1>1, <2>1, <2>2, <2>3, AnswerType DEF GateTypeOK
<1>5. CASE Send(c)
  <2>1. runSwitches' \in [Runs -> [Parts -> Nat]]
    BY <1>5, CountingType, InRunType DEF Send, Mark
  <2>2. sending' \in [at : Nat \cup {Never}, before : Nat \cup {Never}, inRun : Nat]
    BY <1>5, InRunType DEF Send, GateTypeOK, Of
  <2>3. sent' \in Seq(SentType)
    BY <1>5 DEF Send, GateTypeOK, SentType, Of
  <2>4. ledger' \in [Targets -> Nat \cup {Never}]
    BY <1>5 DEF Send, Mark, GateTypeOK, Of
  <2>5. phase' \in [Callers -> Answers \cup Busy]
    BY <1>5 DEF Send, GateTypeOK, Busy
  <2>6. pending' \subseteq pending
    BY <1>5 DEF Send, SpendToken
  <2>7. UNCHANGED <<now, ask, proof, ended, asked, restarts>>
    BY <1>5 DEF Send
  <2> QED  BY <1>1, <2>1, <2>2, <2>3, <2>4, <2>5, <2>6, <2>7 DEF GateTypeOK
<1> QED  BY <1>2, <1>3, <1>4, <1>5 DEF Judge

\* Sending nothing is a send by type.
LEMMA NotSendingType ==
    NotSending \in [at : Nat \cup {Never}, before : Nat \cup {Never}, inRun : Nat]
BY DEF NotSending

\* So does whatever becomes of a send.
LEMMA SendType ==
    ASSUME GateTypeOK, NEW c \in Callers,
           Taken(c) \/ Rejected(c) \/ Broken(c) \/ TimedOut(c)
    PROVE  GateTypeOK'
<1>1. CASE Taken(c)
  <2>1. UNCHANGED <<now, line, ledger, runSwitches, ended, asked, pending,
                    restarts, sent>>
    BY <1>1 DEF Taken, memory
  <2>2. sending' = NotSending
    BY <1>1 DEF Taken
  <2>3. CASE Of(c) \in Mute
    <3>1. Answer(c, "unproven")
      BY <1>1, <2>3 DEF Taken
    <3> QED  BY <2>1, <2>2, <3>1, NotSendingType, AnswerType DEF GateTypeOK, Answers
  <2>4. CASE Of(c) \notin Mute
    <3>1. /\ phase' = [phase EXCEPT ![c] = "verifying"] /\ UNCHANGED ask
          /\ proof' = [proof EXCEPT ![c] =
                          [at |-> sending.at, until |-> now + VerifyTimeout,
                           stage |-> "device", agreed |-> FALSE]]
      BY <1>1, <2>4 DEF Taken
    <3>2. sending.at \in Nat \cup {Never} /\ now + VerifyTimeout \in Nat
      BY TimesNat DEF GateTypeOK
    <3> QED  BY <2>1, <2>2, <3>1, <3>2, NotSendingType DEF GateTypeOK, Busy
  <2> QED  BY <2>3, <2>4
<1>2. CASE Rejected(c)
  <2>1. sending.inRun \in Nat /\ sending.before \in Nat \cup {Never}
    BY DEF GateTypeOK
  <2>2. runSwitches' \in [Runs -> [Parts -> Nat]]
    BY <1>2, <2>1, CountingType DEF Rejected
  <2>3. sent' \in Seq(SentType)
    BY <1>2 DEF Rejected, GateTypeOK
  <2>4. ledger' \in [Targets -> Nat \cup {Never}]
    BY <1>2, <2>1 DEF Rejected, PutBack, GateTypeOK
  <2>5. UNCHANGED <<now, line, ended, asked, pending, restarts>>
    BY <1>2 DEF Rejected
  <2>6. sending' = NotSending /\ Answer(c, "unproven")
    BY <1>2 DEF Rejected
  <2> QED
    BY <2>2, <2>3, <2>4, <2>5, <2>6, NotSendingType, AnswerType DEF GateTypeOK, Answers
<1>3. CASE Fails(c)
  <2>1. UNCHANGED <<now, line, ledger, runSwitches, ended, asked, pending,
                    restarts, sent>>
    BY <1>3 DEF Fails, memory
  <2>2. sending' = NotSending /\ Answer(c, "unproven")
    BY <1>3 DEF Fails
  <2> QED  BY <2>1, <2>2, NotSendingType, AnswerType DEF GateTypeOK, Answers
<1> QED  BY <1>1, <1>2, <1>3 DEF Broken, TimedOut

\* So does its proof.
LEMMA ProveType ==
    ASSUME GateTypeOK, NEW c \in Callers, Prove(c)
    PROVE  GateTypeOK'
<1>1. CASE \E agreed \in BOOLEAN : DeviceProved(c, agreed)
  <2> PICK agreed \in BOOLEAN : DeviceProved(c, agreed)
    BY <1>1
  <2>1. UNCHANGED <<now, line, sending, ledger, runSwitches, ended, asked, pending,
                    restarts, sent>>
    BY DEF DeviceProved, memory
  <2>2. CASE Of(c) \in Parts /\ Links[Of(c)] # {}
    <3>1. UNCHANGED <<phase, ask>>
      BY <2>2 DEF DeviceProved
    <3>2. now + VerifyTimeout \in Nat
      BY TimesNat DEF GateTypeOK
    <3>3. proof[c].at \in Nat \cup {Never}
      BY DEF GateTypeOK
    <3>4. proof' = [proof EXCEPT ![c] =
                       [at |-> proof[c].at, until |-> now + VerifyTimeout,
                        stage |-> "links", agreed |-> agreed]]
      BY <2>2 DEF DeviceProved
    <3> QED  BY <2>1, <3>1, <3>2, <3>3, <3>4 DEF GateTypeOK
  <2>3. CASE ~(Of(c) \in Parts /\ Links[Of(c)] # {})
    <3>1. \E o \in Answers : Answer(c, o)
      BY <2>3 DEF DeviceProved, Answers
    <3> QED  BY <2>1, <3>1, AnswerType DEF GateTypeOK
  <2> QED  BY <2>2, <2>3
<1>2. CASE \E agreed \in BOOLEAN : LinksProved(c, agreed)
  <2>1. UNCHANGED <<now, line, sending, ledger, runSwitches, ended, asked, pending,
                    restarts, sent>>
    BY <1>2 DEF LinksProved, memory
  <2>2. \E o \in Answers : Answer(c, o)
    BY <1>2 DEF LinksProved, Answers
  <2> QED  BY <2>1, <2>2, AnswerType DEF GateTypeOK
<1> QED
  BY <1>1, <1>2 DEF Prove, ReadsBack, NeverReadsBack, LinksFollow, LinksNeverFollow

\* The world's steps.
WorldStep ==
    \/ \E a \in air : Land(a)
    \/ \E x \in Things : Stir(x) \/ Observe(x) \/ Arrive(x) \/ ComeOrGo(x)
    \/ \E p \in Parts : Weigh(p)

\* A caller's.
RequestStep(c) ==
    \/ \E x \in Targets, v \in BOOLEAN, t \in 0..Len(asked) : Ask(c, x, v, t)
    \/ Judge(c) \/ Taken(c) \/ Rejected(c) \/ Broken(c) \/ TimedOut(c)
    \/ Prove(c)

\* Every step is a caller's, the end of a run, a restart, time's or the world's.
LEMMA Steps ==
    Next => \/ \E c \in Callers : RequestStep(c)
            \/ \E r \in Runs : RunEnded(r)
            \/ Restart \/ Tick \/ WorldStep
BY DEF Next, WorldStep, RequestStep

\* The world's steps leave the gateway's own variables alone.
LEMMA WorldStill ==
    WorldStep => UNCHANGED <<now, line, phase, ask, sending, proof, ledger, runSwitches,
                             ended, asked, pending, restarts, sent>>
<1>1. ASSUME NEW a \in air, Land(a) PROVE UNCHANGED <<now, gateVars, memory, restarts, sent>>
  BY <1>1 DEF Land
<1>2. ASSUME NEW x \in Things, Stir(x) \/ Observe(x) \/ Arrive(x) \/ ComeOrGo(x)
      PROVE  UNCHANGED <<now, gateVars, memory, restarts, sent>>
  BY <1>2 DEF Stir, Observe, Arrive, ComeOrGo
<1>3. ASSUME NEW p \in Parts, Weigh(p) PROVE UNCHANGED <<now, gateVars, memory, restarts, sent>>
  BY <1>3 DEF Weigh
<1> QED  BY <1>1, <1>2, <1>3 DEF WorldStep, gateVars, memory

\* The steps that are nobody's keep the types of the gateway's own variables.
LEMMA OtherType ==
    ASSUME GateTypeOK, (\E r \in Runs : RunEnded(r)) \/ Restart \/ Tick \/ WorldStep
    PROVE  GateTypeOK'
<1>1. CASE \E r \in Runs : RunEnded(r)
  <2> PICK r \in Runs : RunEnded(r)
    BY <1>1
  <2>1. ended' \subseteq Runs /\ runSwitches' \in [Runs -> [Parts -> Nat]]
    BY DEF RunEnded, GateTypeOK
  <2>2. UNCHANGED <<now, line, phase, ask, sending, proof, ledger, asked, pending,
                    restarts, sent>>
    BY DEF RunEnded, gateVars
  <2> QED  BY <2>1, <2>2 DEF GateTypeOK
<1>2. CASE Restart
  <2>1. /\ line' \in Seq(Callers) /\ phase' \in [Callers -> Answers \cup Busy]
        /\ ask' \in [Callers -> [on : Targets, value : BOOLEAN, token : Nat]]
        /\ runSwitches' \in [Runs -> [Parts -> Nat]]
        /\ pending' \subseteq 1..Len(asked) /\ restarts' \in Nat /\ ended' \subseteq Runs
    BY <1>2, NoAskType DEF Restart, Answers, GateTypeOK
  <2>2. /\ sending' \in [at : Nat \cup {Never}, before : Nat \cup {Never}, inRun : Nat]
        /\ proof' \in [Callers -> [at : Nat \cup {Never}, until : Nat,
                                   stage : {"device", "links"}, agreed : BOOLEAN]]
    BY <1>2, NotSendingType DEF Restart, NoProof
  <2>3. UNCHANGED <<now, ledger, asked, sent>>
    BY <1>2 DEF Restart
  <2> QED  BY <2>1, <2>2, <2>3 DEF GateTypeOK
<1>3. CASE Tick
  BY <1>3 DEF Tick, GateTypeOK, gateVars, memory
<1>4. CASE WorldStep
  BY <1>4, WorldStill DEF GateTypeOK
<1> QED  BY <1>1, <1>2, <1>3, <1>4

\* A step that leaves the world's variables alone, or adds to what is on its
\* way a command well typed, keeps its types.
LEMMA WorldType ==
    ASSUME TypeOK, [Next]_vars
    PROVE  WorldTypeOK'
<1>0. GateTypeOK /\ WorldTypeOK
  BY TypeParts
<1>1. CASE /\ air' \subseteq air
           /\ UNCHANGED <<actual, changed, wire, reading, online, weighty, low>>
  BY <1>0, <1>1 DEF WorldTypeOK
<1>2. ASSUME NEW c \in Callers, RequestStep(c), ~Send(c), ~Rejected(c)
      PROVE  UNCHANGED world
  BY <1>2 DEF RequestStep, Ask, Judge, Refuse, Question, Already, Taken, Broken,
              TimedOut, Fails, Prove, ReadsBack, NeverReadsBack, DeviceProved,
              LinksFollow, LinksNeverFollow, LinksProved
<1>3. ASSUME NEW c \in Callers, Send(c)
      PROVE  WorldTypeOK'
  <2>1. Command(Of(c), ask[c].value) \in [on : Targets, value : BOOLEAN, at : Nat]
    BY <1>0 DEF Command, Of, GateTypeOK
  <2>2. /\ air' = air \cup {Command(Of(c), ask[c].value)}
        /\ UNCHANGED <<actual, changed, wire, reading, online, weighty, low>>
    BY <1>3 DEF Send
  <2> QED  BY <1>0, <2>1, <2>2 DEF WorldTypeOK
<1>4. ASSUME NEW c \in Callers, Rejected(c)
      PROVE  WorldTypeOK'
  BY <1>1, <1>4 DEF Rejected
<1>5. CASE Restart
  BY <1>0, <1>5 DEF Restart, WorldTypeOK, NoReading, Reading
<1>6. ASSUME NEW a \in air, Land(a)
      PROVE  WorldTypeOK'
  <2>1. a.on \in Things /\ a.value \in BOOLEAN
    BY <1>0 DEF WorldTypeOK, Things
  <2> QED  BY <1>0, <1>6, <2>1 DEF Land, Becomes, WorldTypeOK, GateTypeOK
<1>7. ASSUME NEW x \in Things, Stir(x)
      PROVE  WorldTypeOK'
  BY <1>0, <1>7 DEF Stir, Becomes, WorldTypeOK, GateTypeOK
<1>8. ASSUME NEW x \in Things, Observe(x) \/ Arrive(x)
      PROVE  WorldTypeOK'
  <2>1. now \in Nat
    BY <1>0 DEF GateTypeOK
  <2>2. /\ wire' \in [Things -> Reading] /\ reading' \in [Things -> Reading]
        /\ UNCHANGED <<air, actual, changed, online, weighty, low>>
    <3>1. [value |-> actual[x], at |-> now] \in Reading
      BY <1>0, <2>1 DEF WorldTypeOK, Reading
    <3>2. CASE Observe(x)
      BY <1>0, <3>1, <3>2 DEF Observe, WorldTypeOK
    <3>3. CASE Arrive(x)
      <4>1. [wire[x] EXCEPT !.at = IF x \in OwnClock THEN @ ELSE now] \in Reading
        BY <1>0, <2>1 DEF WorldTypeOK, Reading
      <4>2. NoReading \in Reading
        BY DEF NoReading, Reading
      <4> QED  BY <1>0, <3>3, <4>1, <4>2 DEF Arrive, WorldTypeOK
    <3> QED  BY <1>8, <3>2, <3>3
  <2> QED  BY <1>0, <2>2 DEF WorldTypeOK
<1>9. ASSUME NEW x \in Things, ComeOrGo(x)
      PROVE  WorldTypeOK'
  BY <1>0, <1>9 DEF ComeOrGo, WorldTypeOK
<1>10. ASSUME NEW p \in Parts, Weigh(p)
       PROVE  WorldTypeOK'
  BY <1>0, <1>10 DEF Weigh, WorldTypeOK
<1>11. CASE (\E r \in Runs : RunEnded(r)) \/ Tick \/ UNCHANGED vars
  <2>1. UNCHANGED world
    BY <1>11 DEF RunEnded, Tick, vars
  <2> QED  BY <1>1, <2>1 DEF world
<1>12. CASE \E c \in Callers : RequestStep(c)
  <2> PICK c \in Callers : RequestStep(c)
    BY <1>12
  <2>1. CASE ~Send(c) /\ ~Rejected(c)
    <3>1. UNCHANGED world
      BY <1>2, <2>1
    <3> QED  BY <1>1, <3>1 DEF world
  <2> QED  BY <1>3, <1>4, <2>1
<1>13. CASE WorldStep
  BY <1>6, <1>7, <1>8, <1>9, <1>10, <1>13 DEF WorldStep
<1> QED  BY <1>5, <1>11, <1>12, <1>13, Steps

\* Every step keeps the type invariant.
LEMMA NextType == TypeOK /\ [Next]_vars => TypeOK'
<1> SUFFICES ASSUME TypeOK, [Next]_vars PROVE TypeOK'
  OBVIOUS
<1>1. GateTypeOK
  BY TypeParts
<1>2. GateTypeOK'
  <2>1. ASSUME NEW c \in Callers, RequestStep(c) PROVE GateTypeOK'
    BY <1>1, <2>1, AskType, JudgeType, SendType, ProveType DEF RequestStep
  <2>2. CASE UNCHANGED vars
    BY <1>1, <2>2 DEF vars, gateVars, memory, GateTypeOK
  <2> QED  BY <1>1, <2>1, <2>2, OtherType, Steps
<1>3. WorldTypeOK'
  BY WorldType
<1>4. (GateTypeOK /\ WorldTypeOK)' <=> TypeOK'
  BY DEF TypeOK, GateTypeOK, WorldTypeOK
<1> QED  BY <1>2, <1>3, <1>4

\* In every home each variable of the gateway always has its type.
THEOREM TypeCorrect == Spec => []TypeOK
BY InitType, NextType, PTL DEF Spec

=============================================================================
