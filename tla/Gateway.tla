------------------------------ MODULE Gateway ------------------------------
(***************************************************************************)
(* The action gateway (packages/gateway/src/gateway.ts): the one path a    *)
(* command or a settings write takes to hardware.  Callers stand in one    *)
(* line.  The head of the line is judged in a single synchronous stretch   *)
(* and refused, asked to be confirmed, answered as already so, or marked   *)
(* and sent; the line waits for the device's answer or the send timeout,   *)
(* and the proof is then gathered outside the line.  A device may act on   *)
(* a command late, after the gateway has given it up; readings reach the   *)
(* gateway late; the process may restart, keeping only the ledger.         *)
(***************************************************************************)
EXTENDS Integers, Sequences, FiniteSets

CONSTANTS
    Parts,           \* the parts commands switch, on (TRUE) or off (FALSE)
    Settings,        \* the settings writes change
    Ends,            \* the linked parts whose own readings prove a command
    Links,           \* [Parts -> SUBSET Ends], the links going out of a part
    GraveEnds,       \* the ends of links of a consequential kind
    Mute,            \* parts whose command sets nothing they report
    Dangerous,       \* settings that can damage the hardware
    ReadOnly,        \* what no write to hardware is let through to
    Callers,         \* whoever has one thing asked at a time
    Actors, By,      \* [Callers -> Actors]
    Kind,            \* [Actors -> {"person", "agent", "automation"}]
    Runs, NoRun,     \* the runs of automations
    RunOf,           \* [Callers -> Runs \cup {NoRun}]
    AskedBy,         \* [Runs -> {"person", "agent", "none"}]
    Switches,        \* [Runs -> Nat], how often a run may switch a part
    RunSwitchCeiling, RunGap, PersonDwell, AgentDwell, AutomationDwell,
    UserWriteDwell, SendTimeout, VerifyTimeout, MaxDataAge, TTL,
    \* The world, and the bounds of a finite instance.
    OwnClock,        \* things that stamp their readings themselves
    Reporting,       \* things that go on reporting what they read
    Delayed,         \* things whose readings take time to arrive
    Restless,        \* things that change by themselves or by hand
    Unsteady,        \* things whose connection comes and goes
    Weighing,        \* parts whose declared consequence, or reserve, varies
    LastAsk,         \* bound: nothing is asked after this time
    MaxTokens,       \* bound: how many questions can be put
    Horizon,         \* bound: the clock stops here
    MaxRestarts      \* bound: how often the process restarts

Targets == Parts \cup Settings
Things  == Targets \cup Ends
Kinds   == {"person", "agent", "automation"}

ASSUME SetsAssumption ==
    /\ Parts \cap Settings = {} /\ Targets # {} /\ Targets \cap Ends = {}
    /\ Links \in [Parts -> SUBSET Ends] /\ GraveEnds \subseteq Ends
    /\ Mute \subseteq {p \in Parts : Links[p] = {}}
    /\ Dangerous \subseteq Settings /\ Weighing \subseteq Parts

ASSUME CallersAssumption ==
    /\ By \in [Callers -> Actors] /\ Kind \in [Actors -> Kinds]
    /\ NoRun \notin Runs /\ RunOf \in [Callers -> Runs \cup {NoRun}]
    /\ \A c \in Callers : RunOf[c] # NoRun => Kind[By[c]] = "automation"
    /\ AskedBy \in [Runs -> {"person", "agent", "none"}]
    /\ Switches \in [Runs -> Nat \ {0}]

ASSUME TimesAssumption ==
    /\ {RunGap, PersonDwell, AgentDwell, AutomationDwell, UserWriteDwell,
        SendTimeout, VerifyTimeout, MaxDataAge, TTL,
        LastAsk, MaxTokens, Horizon, MaxRestarts} \subseteq Nat
    /\ RunSwitchCeiling \in Nat \ {0}

VARIABLES
    now,          \* the home's clock
    line,         \* callers waiting their turn, first come first served (#gate)
    phase,        \* where each caller's request is, or how the last was answered
    ask,          \* what each caller asks, while it waits
    sending,      \* the send the line waits on, or NotSending
    proof,        \* what each verifying caller's proof needs
    ledger,       \* when each target was last switched or written (durable)
    runSwitches,  \* how often each run has switched each part (#runSwitches)
    ended,        \* runs that are over
    asked,        \* questions put to people, by token
    pending,      \* tokens that can still be accepted (#pending)
    online,       \* things with a session that answers
    weighty,      \* parts whose declared consequence holds or cannot be judged
    low,          \* parts whose turning on would draw on the reserve
    air,          \* commands on their way to hardware
    actual,       \* what each thing really is
    changed,      \* history: when each linked part last changed
    wire,         \* a reading on its way from each thing
    reading,      \* the reading of each thing its session holds
    restarts,     \* how often the process has restarted
    sent          \* history: the commands and writes that may have taken effect

gateVars  == <<line, phase, ask, sending, proof>>
memory    == <<ledger, runSwitches, ended, asked, pending>>
world     == <<air, actual, changed, wire, reading, online, weighty, low>>
vars == <<now, gateVars, memory, world, restarts, sent>>

Never      == -1
NoReading  == [value |-> FALSE, at |-> Never]
NotSending == [at |-> Never, before |-> Never, inRun |-> 0]
NoProof    == [at |-> 0, until |-> 0, stage |-> "device", agreed |-> FALSE]
NoAsk      == [on |-> CHOOSE x \in Targets : TRUE, value |-> FALSE, token |-> 0]

\* A request that is over was verified, or answered without that claim:
\* refused, failed, unverified, or its caller's answer lost in a restart.
Answers    == {"unproven", "verified"}
Busy       == {"queued", "sending", "verifying"}

-----------------------------------------------------------------------------
(* What a request is judged by, all of it read when its turn comes.        *)

Of(c)      == ask[c].on
IsWrite(c) == Of(c) \in Settings
KindOf(c)  == Kind[By[c]]

\* Known, and read recently enough to act on.
Fresh(x) == reading[x].at # Never /\ now - reading[x].at <= MaxDataAge

Graves(p) == Links[p] \cap GraveEnds

\* Turning a part off is consequential by its declaration or by its link.
Consequential(c) ==
    ~ask[c].value /\ (Of(c) \in weighty \/ Graves(Of(c)) # {})

FirstThroughLink(c) == Graves(Of(c)) # {} /\ ledger[Of(c)] = Never

\* A command that sets nothing is so already, as far as the reserve is asked.
AlreadySo(c) == Of(c) \in Mute \/ reading[Of(c)].value = ask[c].value

\* Nothing is sent for what a reading says is so; what sets nothing is sent.
NothingToDo(c) == ~IsWrite(c) /\ Of(c) \notin Mute /\ AlreadySo(c)

BelowReserve(c) == ask[c].value /\ Of(c) \in low /\ ~AlreadySo(c)

InRun(c) ==
    IF RunOf[c] = NoRun \/ IsWrite(c) THEN 0 ELSE runSwitches[RunOf[c]][Of(c)]

\* A run switches first as whoever asked for it would.
SwitchesAs(c) ==
    IF RunOf[c] # NoRun /\ AskedBy[RunOf[c]] # "none"
    THEN AskedBy[RunOf[c]] ELSE KindOf(c)

DwellOf(kind) == CASE kind = "automation" -> AutomationDwell
                   [] kind = "agent"      -> AgentDwell
                   [] OTHER               -> PersonDwell

WriteDwellOf(kind) == IF kind = "person" THEN UserWriteDwell ELSE DwellOf(kind)

Allowed(r) == IF Switches[r] < RunSwitchCeiling THEN Switches[r] ELSE RunSwitchCeiling

Since(x, gap) == ledger[x] # Never /\ now - ledger[x] < gap

\* As it would be if a run's first switch did not meet the dwell.
TooSoonOutsideRuns(c) ==
    IF RunOf[c] # NoRun /\ ~IsWrite(c)
    THEN InRun(c) >= Allowed(RunOf[c]) \/ Since(Of(c), RunGap)
    ELSE Since(Of(c), DwellOf(SwitchesAs(c)))

\* As it would be if the allowance were passed by one.
TooSoonByOne(c) ==
    IF InRun(c) > 0
    THEN InRun(c) > Allowed(RunOf[c]) \/ Since(Of(c), RunGap)
    ELSE Since(Of(c), DwellOf(SwitchesAs(c)))

TooSoon(c) ==
    IF InRun(c) > 0
    THEN InRun(c) >= Allowed(RunOf[c]) \/ Since(Of(c), RunGap)
    ELSE Since(Of(c), DwellOf(SwitchesAs(c)))

CommandRefused(c) ==
    \/ Of(c) \notin online
    \/ Of(c) \in ReadOnly
    \/ TooSoon(c)
    \/ Of(c) \notin Mute /\ ~Fresh(Of(c))
    \/ \E e \in Links[Of(c)] : e \notin online \/ ~Fresh(e)
    \/ KindOf(c) = "agent" /\ (Consequential(c) \/ FirstThroughLink(c))
    \/ KindOf(c) # "person" /\ BelowReserve(c)

WriteRefused(c) ==
    \/ Of(c) \notin online
    \/ Of(c) \in ReadOnly
    \/ Since(Of(c), WriteDwellOf(KindOf(c)))
    \/ KindOf(c) # "person" /\ Of(c) \in Dangerous

Refused(c) == IF IsWrite(c) THEN WriteRefused(c) ELSE CommandRefused(c)

NeedsYes(c) ==
    /\ KindOf(c) = "person"
    /\ IF IsWrite(c) THEN Of(c) \in Dangerous
       ELSE Consequential(c) \/ FirstThroughLink(c) \/ BelowReserve(c)

\* What a token is bound to: what is asked, and who asks it.
Subject(c) == <<Of(c), ask[c].value, By[c]>>

\* As it would be if a token were any yes.
AcceptedForAnything(c) ==
    ask[c].token \in pending /\ now < asked[ask[c].token].expires

Accepted(c) ==
    /\ ask[c].token \in pending
    /\ asked[ask[c].token].subject = Subject(c)
    /\ now < asked[ask[c].token].expires

\* As it would be if the reading cached from before counted too.
LinksAgreeEver(c, after) ==
    \A e \in Links[Of(c)] : e \in online /\ reading[e].value = ask[c].value

\* Whether every linked part's own reading says what the command asked for,
\* taken after the given time.
LinksAgree(c, after) ==
    \A e \in Links[Of(c)] :
        e \in online /\ reading[e].at > after /\ reading[e].value = ask[c].value

-----------------------------------------------------------------------------
(* Asking, and the turn in the line.                                       *)

Ask(c, x, v, t) ==
    /\ now <= LastAsk /\ Len(asked) + Len(line) < MaxTokens
    /\ phase[c] \in Answers
    /\ RunOf[c] \notin ended
    /\ phase' = [phase EXCEPT ![c] = "queued"]
    /\ ask' = [ask EXCEPT ![c] = [on |-> x, value |-> v, token |-> t]]
    /\ line' = Append(line, c)
    /\ UNCHANGED <<now, sending, proof, memory, world, restarts, sent>>

Turn(c) == line # <<>> /\ Head(line) = c /\ sending = NotSending

\* The caller's request is over.
Answer(c, outcome) ==
    /\ phase' = [phase EXCEPT ![c] = outcome]
    /\ ask' = [ask EXCEPT ![c] = NoAsk]
    /\ proof' = [proof EXCEPT ![c] = NoProof]

Refuse(c) ==
    /\ Turn(c)
    /\ Refused(c)
    /\ Answer(c, "unproven")
    /\ line' = Tail(line)
    /\ UNCHANGED <<now, sending, memory, world, restarts, sent>>

\* Refused only for want of a yes: whatever token was presented is spent,
\* those that have run out are let go, and a new one is handed out.
Question(c) ==
    /\ Turn(c)
    /\ ~Refused(c) /\ NeedsYes(c) /\ ~Accepted(c)
    /\ asked' = Append(asked, [subject |-> Subject(c), expires |-> now + TTL])
    /\ pending' = {t \in pending \ {ask[c].token} : now < asked[t].expires}
                      \cup {Len(asked) + 1}
    /\ Answer(c, "unproven")
    /\ line' = Tail(line)
    /\ UNCHANGED <<now, sending, ledger, runSwitches, ended,
                   world, restarts, sent>>

LetThrough(c) ==
    /\ Turn(c)
    /\ ~Refused(c)
    /\ NeedsYes(c) => Accepted(c)

SpendToken(c) ==
    pending' = IF NeedsYes(c) THEN pending \ {ask[c].token} ELSE pending

\* It is already so: nothing is sent.
Already(c) ==
    /\ LetThrough(c)
    /\ NothingToDo(c)
    /\ SpendToken(c)
    /\ Answer(c, IF LinksAgree(c, Never) THEN "verified" ELSE "unproven")
    /\ line' = Tail(line)
    /\ UNCHANGED <<now, sending, ledger, runSwitches, ended,
                   asked, world, restarts, sent>>

-----------------------------------------------------------------------------
(* Sending: marked first, then sent; the line waits for the answer.        *)

Command(x, v) == [on |-> x, value |-> v, at |-> now]

\* As it would be if the count were taken back once too often.
CountingBack(c, count) ==
    IF RunOf[c] = NoRun \/ IsWrite(c) THEN runSwitches
    ELSE [runSwitches EXCEPT ![RunOf[c]][Of(c)] = count - 1]

\* The counts after this command's part has been switched so often in its run.
Counting(c, count) ==
    IF RunOf[c] = NoRun \/ IsWrite(c) THEN runSwitches
    ELSE [runSwitches EXCEPT ![RunOf[c]][Of(c)] = count]

Mark(c) ==
    /\ ledger' = [ledger EXCEPT ![Of(c)] = now]
    /\ runSwitches' = Counting(c, InRun(c) + 1)

Send(c) ==
    /\ LetThrough(c)
    /\ ~NothingToDo(c)
    /\ SpendToken(c)
    /\ Mark(c)
    /\ sending' = [at |-> now, before |-> ledger[Of(c)], inRun |-> InRun(c)]
    /\ sent' = Append(sent, [caller |-> c, on |-> Of(c), value |-> ask[c].value,
                             at |-> now, token |-> ask[c].token,
                             weighty |-> Of(c) \in weighty,
                             low |-> Of(c) \in low])
    /\ air' = air \cup {Command(Of(c), ask[c].value)}
    /\ phase' = [phase EXCEPT ![c] = "sending"]
    /\ line' = Tail(line)
    /\ UNCHANGED <<now, ask, proof, ended, asked, actual, changed, wire, reading,
                   online, weighty, low, restarts>>

\* The device says it took the command; its proof is gathered outside the line.
Taken(c) ==
    /\ phase[c] = "sending"
    /\ sending' = NotSending
    /\ IF Of(c) \in Mute
       THEN Answer(c, "unproven")
       ELSE /\ phase' = [phase EXCEPT ![c] = "verifying"]
            /\ proof' = [proof EXCEPT ![c] =
                            [at |-> sending.at, until |-> now + VerifyTimeout,
                             stage |-> "device", agreed |-> FALSE]]
            /\ UNCHANGED ask
    /\ UNCHANGED <<now, line, memory, world, restarts, sent>>

\* As it would be if the mark were dropped rather than put back.
PutBackNone(c) == ledger' = [ledger EXCEPT ![Of(c)] = Never]

\* The mark before this one, or none.
PutBack(c) == ledger' = [ledger EXCEPT ![Of(c)] = sending.before]

\* The device answers that it did not take it: nothing was switched, and what
\* was marked before is put back.
Rejected(c) ==
    /\ phase[c] = "sending"
    /\ ~IsWrite(c)
    /\ LET this == [on |-> Of(c), value |-> ask[c].value, at |-> sending.at] IN
       /\ this \in air
       /\ air' = air \ {this}
    /\ PutBack(c)
    /\ runSwitches' = Counting(c, sending.inRun)
    /\ sent' = SubSeq(sent, 1, Len(sent) - 1)
    /\ sending' = NotSending
    /\ Answer(c, "unproven")
    /\ UNCHANGED <<now, line, ended, asked, pending, actual, changed,
                   wire, reading, online, weighty, low, restarts>>

\* It may have been switched: the mark and the count stay.
Fails(c) ==
    /\ phase[c] = "sending"
    /\ sending' = NotSending
    /\ Answer(c, "unproven")
    /\ UNCHANGED <<now, line, memory, world, restarts, sent>>

\* The session breaks the send off.
Broken(c) == Fails(c)

\* As it would be if a send were not held to a time.
TimedOutNever(c) == phase[c] = "sending" /\ ~(now >= sending.at) /\ Fails(c)

\* It did not answer in the time it is given.
TimedOut(c) == phase[c] = "sending" /\ now >= sending.at + SendTimeout /\ Fails(c)

-----------------------------------------------------------------------------
(* The proof, outside the line.                                            *)

DeviceAgrees(c) == reading[Of(c)].at # Never /\ reading[Of(c)].value = ask[c].value

\* The first proof is in, either way: the linked parts are asked next, for as
\* long again; with none, the device's word is the answer.
DeviceProved(c, agreed) ==
    /\ phase[c] = "verifying" /\ proof[c].stage = "device"
    /\ IF Of(c) \in Parts /\ Links[Of(c)] # {}
       THEN /\ proof' = [proof EXCEPT ![c] =
                            [at |-> proof[c].at, until |-> now + VerifyTimeout,
                             stage |-> "links", agreed |-> agreed]]
            /\ UNCHANGED <<phase, ask>>
       ELSE Answer(c, IF agreed THEN "verified" ELSE "unproven")
    /\ UNCHANGED <<now, line, sending, memory, world, restarts, sent>>

ReadsBack(c) == DeviceAgrees(c) /\ DeviceProved(c, TRUE)

NeverReadsBack(c) ==
    /\ now >= proof[c].until /\ ~DeviceAgrees(c)
    /\ DeviceProved(c, FALSE)

LinksProved(c, agreed) ==
    /\ phase[c] = "verifying" /\ proof[c].stage = "links"
    /\ Answer(c, IF agreed /\ proof[c].agreed THEN "verified" ELSE "unproven")
    /\ UNCHANGED <<now, line, sending, memory, world, restarts, sent>>

LinksFollow(c) == LinksProved(c, TRUE) /\ LinksAgree(c, proof[c].at)

LinksNeverFollow(c) ==
    /\ LinksProved(c, FALSE)
    /\ now >= proof[c].until /\ ~LinksAgree(c, proof[c].at)

-----------------------------------------------------------------------------
(* Runs ending, the process restarting, time.                              *)

\* A run waits for each of its commands, so it ends with none of them open.
RunEnded(r) ==
    /\ r \notin ended
    /\ \A c \in Callers : RunOf[c] = r => phase[c] \in Answers
    /\ ended' = ended \cup {r}
    /\ runSwitches' = [runSwitches EXCEPT ![r] = [p \in Parts |-> 0]]
    /\ UNCHANGED <<now, gateVars, ledger, asked, pending, world, restarts, sent>>

\* Everything kept in memory is lost; the ledger is not, nor what is on its
\* way to a device.  A run found unended is interrupted, never resumed.
Restart ==
    /\ restarts < MaxRestarts
    /\ restarts' = restarts + 1
    /\ line' = <<>>
    /\ phase' = [c \in Callers |-> "unproven"]
    /\ ask' = [c \in Callers |-> NoAsk]
    /\ sending' = NotSending
    /\ proof' = [c \in Callers |-> NoProof]
    /\ runSwitches' = [r \in Runs |-> [p \in Parts |-> 0]]
    /\ ended' = Runs
    /\ pending' = {}
    /\ reading' = [x \in Things |-> NoReading]
    /\ wire' = [x \in Things |-> NoReading]
    /\ UNCHANGED <<now, ledger, asked, air, actual, changed, online,
                   weighty, low, sent>>

\* Nothing the process would do at once is left undone: no turn is open and
\* no timer is due.
Settled ==
    /\ \A c \in Callers : ~Turn(c)
    /\ sending # NotSending => now < sending.at + SendTimeout
    /\ \A c \in Callers : phase[c] = "verifying" => now < proof[c].until

Tick ==
    /\ now < Horizon
    /\ Settled
    /\ now' = now + 1
    /\ UNCHANGED <<gateVars, memory, world, restarts, sent>>

-----------------------------------------------------------------------------
(* The world: hardware, readings and connections.                          *)

Becomes(x, v) ==
    /\ actual' = [actual EXCEPT ![x] = v]
    /\ changed' = IF x \in Ends /\ actual[x] # v THEN [changed EXCEPT ![x] = now]
                  ELSE changed

\* A command reaches the hardware, in time or not.
Land(a) ==
    /\ a \in air
    /\ air' = air \ {a}
    /\ Becomes(a.on, a.value)
    /\ UNCHANGED <<now, gateVars, memory, wire, reading, online, weighty, low,
                   restarts, sent>>

\* A button is pressed, a socket is wired elsewhere, the mains comes or goes.
Stir(x) ==
    /\ x \in Restless
    /\ Becomes(x, ~actual[x])
    /\ UNCHANGED <<now, gateVars, memory, air, wire, reading, online, weighty, low,
                   restarts, sent>>

\* Something says what it reads now; it arrives at once, or later.
Observe(x) ==
    /\ x \in online \cap Reporting
    /\ IF x \in Delayed
       THEN /\ wire[x] = NoReading
            /\ wire' = [wire EXCEPT ![x] = [value |-> actual[x], at |-> now]]
            /\ UNCHANGED reading
       ELSE /\ reading' = [reading EXCEPT ![x] = [value |-> actual[x], at |-> now]]
            /\ UNCHANGED wire
    /\ UNCHANGED <<now, gateVars, memory, air, actual, changed, online, weighty, low,
                   restarts, sent>>

\* A delayed reading arrives.  Most sessions stamp it as it does; a device
\* with a clock of its own stamped it when it was taken.
Arrive(x) ==
    /\ wire[x] # NoReading /\ x \in online
    /\ reading' = [reading EXCEPT ![x] =
                      [wire[x] EXCEPT !.at = IF x \in OwnClock THEN @ ELSE now]]
    /\ wire' = [wire EXCEPT ![x] = NoReading]
    /\ UNCHANGED <<now, gateVars, memory, air, actual, changed, online, weighty, low,
                   restarts, sent>>

ComeOrGo(x) ==
    /\ x \in Unsteady
    /\ online' = IF x \in online THEN online \ {x} ELSE online \cup {x}
    /\ UNCHANGED <<now, gateVars, memory, air, actual, changed, wire, reading,
                   weighty, low, restarts, sent>>

\* What a part draws, or what its store holds, crosses its threshold.
Weigh(p) ==
    /\ p \in Weighing
    /\ \/ /\ weighty' = IF p \in weighty THEN weighty \ {p} ELSE weighty \cup {p}
          /\ UNCHANGED low
       \/ /\ low' = IF p \in low THEN low \ {p} ELSE low \cup {p}
          /\ UNCHANGED weighty
    /\ UNCHANGED <<now, gateVars, memory, air, actual, changed, wire, reading,
                   online, restarts, sent>>

-----------------------------------------------------------------------------

Init ==
    /\ now = 0
    /\ line = <<>>
    /\ phase = [c \in Callers |-> "unproven"]
    /\ ask = [c \in Callers |-> NoAsk]
    /\ sending = NotSending
    /\ proof = [c \in Callers |-> NoProof]
    /\ ledger = [x \in Targets |-> Never]
    /\ runSwitches = [r \in Runs |-> [p \in Parts |-> 0]]
    /\ ended = {} /\ asked = <<>> /\ pending = {}
    /\ online = Things /\ weighty = {} /\ low = {}
    /\ air = {}
    /\ actual \in [Things -> BOOLEAN]
    /\ changed = [e \in Ends |-> Never]
    /\ wire = [x \in Things |-> NoReading]
    /\ reading = [x \in Things |-> [value |-> actual[x], at |-> 0]]
    /\ restarts = 0
    /\ sent = <<>>

Judge(c) == Refuse(c) \/ Question(c) \/ Already(c) \/ Send(c)

Prove(c) == ReadsBack(c) \/ NeverReadsBack(c) \/ LinksFollow(c) \/ LinksNeverFollow(c)

Next ==
    \/ \E c \in Callers :
          \/ \E x \in Targets, v \in BOOLEAN, t \in 0..Len(asked) : Ask(c, x, v, t)
          \/ Judge(c) \/ Taken(c) \/ Rejected(c) \/ Broken(c) \/ TimedOut(c)
          \/ Prove(c)
    \/ \E r \in Runs : RunEnded(r)
    \/ Restart \/ Tick
    \/ \E a \in air : Land(a)
    \/ \E x \in Things : Stir(x) \/ Observe(x) \/ Arrive(x) \/ ComeOrGo(x)
    \/ \E p \in Parts : Weigh(p)

Spec == Init /\ [][Next]_vars

\* Timers fire, the line moves, and time passes however often callers ask; no
\* device and no person is relied on.
Fairness ==
    /\ SF_vars(Tick)
    /\ \A c \in Callers : WF_vars(Judge(c)) /\ WF_vars(TimedOut(c)) /\ WF_vars(Prove(c))

FairSpec == Spec /\ Fairness

-----------------------------------------------------------------------------
(* What is promised of it.                                                 *)

Reading == [value : BOOLEAN, at : Nat \cup {Never}]

SentType == [caller : Callers, on : Targets, value : BOOLEAN, at : Nat, token : Nat,
             weighty : BOOLEAN, low : BOOLEAN]

\* Every variable has its type.
TypeOK ==
    /\ now \in Nat /\ restarts \in Nat
    /\ line \in Seq(Callers)
    /\ phase \in [Callers -> Answers \cup Busy]
    /\ ask \in [Callers -> [on : Targets, value : BOOLEAN, token : Nat]]
    /\ sending \in [at : Nat \cup {Never}, before : Nat \cup {Never}, inRun : Nat]
    /\ proof \in [Callers -> [at : Nat \cup {Never}, until : Nat,
                              stage : {"device", "links"}, agreed : BOOLEAN]]
    /\ ledger \in [Targets -> Nat \cup {Never}]
    /\ runSwitches \in [Runs -> [Parts -> Nat]]
    /\ ended \subseteq Runs
    /\ asked \in Seq([subject : Targets \X BOOLEAN \X Actors, expires : Nat])
    /\ pending \subseteq 1..Len(asked)
    /\ online \subseteq Things /\ weighty \subseteq Parts /\ low \subseteq Parts
    /\ air \subseteq [on : Targets, value : BOOLEAN, at : Nat]
    /\ actual \in [Things -> BOOLEAN]
    /\ changed \in [Ends -> Nat \cup {Never}]
    /\ wire \in [Things -> Reading] /\ reading \in [Things -> Reading]
    /\ sent \in Seq(SentType)

\* The pause owed before the n-th send: between writes of a setting, the
\* writer's; of a part its run has switched, the run's gap; else the dwell of
\* whoever switches.
GapOwed(n) ==
    LET c == sent[n].caller IN
    IF sent[n].on \in Settings THEN WriteDwellOf(KindOf(c))
    ELSE IF /\ RunOf[c] # NoRun
            /\ \E m \in 1..(n - 1) : /\ RunOf[sent[m].caller] = RunOf[c]
                                     /\ sent[m].on = sent[n].on
         THEN RunGap
         ELSE DwellOf(SwitchesAs(c))

\* "Exactly one command": whoever asks, together or after one another, over
\* refusals, silent devices and restarts, two sends to one part or setting are
\* never closer than the pause the later one owes, unless the device said it
\* did not take the earlier, which is then no longer counted as sent.
DwellKept ==
    \A m, n \in DOMAIN sent :
        m < n /\ sent[m].on = sent[n].on
            => sent[n].at - sent[m].at >= GapOwed(n)

\* A run never switches a part more often than its rule may, nor than the
\* gateway's ceiling; what the device refused does not count, what it never
\* answered does.
AllowanceKept ==
    \A r \in Runs, p \in Parts :
        LET switched == {n \in DOMAIN sent : RunOf[sent[n].caller] = r /\ sent[n].on = p} IN
        Cardinality(switched) <= Switches[r] /\ Cardinality(switched) <= RunSwitchCeiling

\* A send that only a person may say yes to: through a consequential link,
\* turning off or for the first time; of a part whose declared consequence
\* held; drawing on the reserve, which is asked of what changes something;
\* writing a dangerous setting.
Grave(n) ==
    LET s == sent[n] IN
    IF s.on \in Settings THEN s.on \in Dangerous
    ELSE \/ ~s.value /\ (Graves(s.on) # {} \/ s.weighty)
         \/ s.value /\ s.low /\ s.on \notin Mute
         \/ Graves(s.on) # {} /\ \A m \in 1..(n - 1) : sent[m].on # s.on

\* Every grave send a person made carries a yes to this very question, put to
\* that person, in time, and no yes carries two sends.
YesIsForThis ==
    \A n \in DOMAIN sent :
        LET s == sent[n] IN
        Grave(n) /\ KindOf(s.caller) = "person" =>
            /\ s.token \in DOMAIN asked
            /\ asked[s.token].subject = <<s.on, s.value, By[s.caller]>>
            /\ s.at < asked[s.token].expires
            /\ \A m \in 1..(n - 1) :
                  sent[m].token = s.token /\ KindOf(sent[m].caller) = "person"
                      => ~Grave(m)

\* The durable ledger says what happened: the last send of each part and
\* setting that may have taken effect, over refusals, silences and restarts.
LedgerTrue ==
    \A x \in Targets :
        LET took == {n \in DOMAIN sent : sent[n].on = x} IN
        IF took = {} THEN ledger[x] = Never
        ELSE \E n \in took : ledger[x] = sent[n].at /\ \A m \in took : m <= n

\* Whether something has been at a value at some moment after a time.
WasAfter(x, v, t) == IF actual[x] = v THEN now > t ELSE changed[x] > t

\* "Verified" of a command through links means that each linked part really
\* was as the command set it, after the command was sent.
VerifiedIsSeen ==
    [][\A c \in Callers :
          phase[c] = "verifying" /\ phase'[c] = "verified" /\ Of(c) \in Parts
              => \A e \in Links[Of(c)] : WasAfter(e, ask[c].value, proof[c].at)]_vars

\* Every request that is made is answered, though devices never answer, never
\* read back, and people never confirm.
Answered == \A c \in Callers : phase[c] \in Busy ~> phase[c] \in Answers

=============================================================================
