# Kraftverk in TLA+

A verification project kept beside kraftverk (`src/`): TLA+ modules translated
from its source, TLC runs that model-check them on small homes, and theorems
about them checked by TLAPS. Everything here is about the code as it is: a
definition names the lines it stands for in `PROJECT.json` ("map"), every
property has a plausible bug ("mutants", the definitions commented "As it would
be if ...") that breaks it, and what the code does otherwise than its own docs
and comments say is under "findings", or named here with its part.

## The system

Kraftverk is a home-energy server (`packages/hub`, run by `server/` or inside an
app): it holds connections to devices, shows what they read, takes commands from
people, assistants and automations, and keeps everything in one SQLite database.
It is one JavaScript process: between two `await`s nothing else runs, so what has
to be got right is what happens *across* them, across restarts, and between
processes (a follower that holds a connection on its master's behalf).

| Component | State it keeps | Operations | Talks to |
| --- | --- | --- | --- |
| Action gateway (`packages/gateway`) | the line of callers, run counts, tokens (memory); when each part and setting was last switched (durable) | execute, write, runEnded | sessions, the ledger |
| Automation runs (`automation-engine/runs.ts`) | which automations run, the live runs, queued starts (memory); runs begun and ended (durable) | runAndKeep, start, stop, forget, endInterrupted | gateway, store, live bus |
| Automation triggers (`automation-engine/triggers.ts`) | what each condition was, since when, and whether it was dealt with (durable, cached), holds waiting (memory) | tick, hear, reset, poke, forget, started | runs, store, clock |
| Holder sessions (`packages/holder`) | open sessions and openings, why a device has none, ways passed over (memory) | sync, close, check, closeAll; open, verify, fail over | devices, catalog, connections |
| Follower (`hub/follower`, `store/send-queue.ts`) | the devices it has a way to, their keys, the queue of what is owed (durable); which it holds now (memory) | refresh, hold, forget, save, owe, send | master's API, its own sessions and gateway |
| Handover (`hub/handover`) | which homes were moved or kept (durable) | move, keep | another node's API |
| Live outbox (`hub/live/outbox.ts`) | what a slow listener missed | push, drain | listeners |
| Store, language, home file, identity, transports, integrations, devices, screens | | | |

### What is hard

- **Commands**: callers interleave at every `await`; a command given up may
  still land; a reading may be older than it looks; the process may stop between
  the mark and the answer.
- **Runs**: a start meets a run that is deciding, acting, being stopped or just
  over; what is looked at before an `await` (is it running? is the part held?)
  is used after it; promise callbacks run in an order nobody wrote down.
- **Triggers**: a tick works through a list it took before it awaited; a hold
  outlives the process; a start is recorded before it happens.
- **Sessions**: syncs wait their turn while closes and looks round do not; what
  a sync found is used after it waited for a device; a member of a bridge lives
  over a session that may close at any moment.
- **Nodes**: connections drop between sending and hearing back; a list may be old
  by the time it is held; two nodes may each believe they hold a device.

What each would break, and at which line, is `PROJECT.json` "hazards".

## The gateway

`Gateway.tla` models `gateway.ts` and `confirmations.ts`: the one path a command
or a settings write takes to hardware.

| Model | Code |
| --- | --- |
| `line`, `phase`, `ask` | the promise chain `#gate` (`#serially`) and the calls waiting in it |
| `sending` | the send inside the line, held to `SEND_TIMEOUT` (`#within`) |
| `proof` | `#verified`, `#evidence`, `#eventually`: gathered outside the line |
| `ledger` | `GatewayLedger` (`lastSwitch`, `lastWrite`), durable |
| `runSwitches`, `ended` | `#runSwitches`, `runEnded` |
| `asked`, `pending` | `confirmations.ts`: questions put, tokens that can still be accepted |
| `air`, `actual`, `wire`, `reading`, `online` | the devices and their sessions: a command on its way, what a thing is, a reading on its way, the reading a session holds, whether it answers |
| `sent` | history: the sends that may have taken effect; one the device refused is taken off again |

`Ask` puts a caller at the end of the line with any token ever handed out.
`Refuse`, `Question`, `Already` and `Send` are the four outcomes of the one
synchronous judgement (`#execute` and `#write` up to the send): the guards are
the code's checks, in one step because no `await` stands between them. `Send`
marks first, then sends, as the code does; `Rejected` is a refusal by the device
(the mark before and the count before are put back), `Broken` and `TimedOut`
keep both, for the command may still land (`Land`, at any later time). `Taken`
opens the proof, outside the line, in two stages (the device's own word, then
the linked parts'), each for at most the verify timeout. `Restart` loses all but
the ledger. `Tick` passes time only when no turn is open and no timer is due
(`Settled`): the process handles what is due before a unit of the model's clock
goes by, which is some seconds.

Left out: the words of refusals, whereabouts and permissions (checked by the
caller), the bridge a write to a shadow goes through.

| Run | Question | Home |
| --- | --- | --- |
| `gateway_run` | the dwell, a run's allowance and the ledger | one plug, a person and a rule's run, a device that refuses, is silent and acts late, one restart |
| `gateway_people` | each grave send of a person has a yes of its own: put to that person for that very thing, in time, spent once | a plug feeding a station whose consequence and reserve vary, and a dangerous setting; two people and a rule, every token presented |
| `gateway_proof` | "verified" was seen; every request is answered | a plug and a station whose readings arrive late but say when they were taken; devices that never answer or never follow |
| `gateway_proof_arrival` | the same, readings stamped on arrival: **violated** | as above |

What the runs leave to the theorems: two writes to one setting within its pause
(`DwellCorrect` covers settings as it does parts), and commands that set nothing
(`Mute`, of which no run's home has any; the code asks neither the reserve nor
whether it is so already of one, gateway.ts:553). Who may send what at all is a
guard of the one judgement, and no property of its own: a rule's command may be
consequential, through its links, and is then sent without a question.

Bounds: `LastAsk` (nothing is asked later), `MaxTokens` (questions put,
counting one for each caller in the line),
`Horizon` (the clock) and `MaxRestarts`. The pauses are one or two units and the
clock runs to at most four, enough for three sends to one part with a restart
between them, for a token to run out, and for a proof to time out in both
stages.

**Fairness.** `FairSpec` asks of the process only what its timers and its promise
chain give: a caller at the head of the line is judged, a timeout fires, a proof
is looked at (weak), and time passes (strong, since callers may keep asking). No
device answers and no person confirms by fairness.

**The finding.** `LinksAgree` counts a reading later than the send; most sessions
stamp a reading as it arrives, so one taken before the command and delayed on
the way passes. With devices that stamp their own readings (`OwnClock`) the
property holds; that is the difference between the two proof runs.


## Runs of automations

`Runs.tla` models `automation-engine/runs.ts`: when an automation's run starts,
what it may do beside the others, how it is stopped, and what starts once it has
ended.

The engine is one thread, so what can go wrong is in the order of callbacks.
`jobs` is the queue of promise callbacks. Code that goes on at once is put at its
front, a reaction to a settled promise at its end, and whatever comes from
outside (a trigger, a person, the gateway's answer, a timer) comes only when the
queue is empty (`Quiet`). Which of two reactions comes first is then what the
code makes it: `runAndKeep` attaches `#ended` directly to the run's promise,
`#start` attaches it one `then` further on, and the difference is a finding.

| Model | Code |
| --- | --- |
| `running` | `#running`, `#ending`: the automations whose place is taken |
| `runs[r].stage` | deciding (`run` up to its first step), stepping and falling (in `#live` or `#once`: holds its parts, can be stopped), settled (`run` returned, its place not yet given up), over |
| `runs[r].step` | where the walk stands: at the gateway, in the pause before a command is sent again, asleep, starting another's run, waiting for its begin or its end |
| `runs[r].waiting` | starts that await `#ending` to start afresh |
| `runs[r].root`, `chain` | `LiveRun.root` and `chain`: whose parts these are, and who started whom |
| `runs[r].row` | the run's row in the store (durable) |
| `queued` | `#queued` |
| `soon` | `#tooSoon`: its trigger started it less than its `at most every` ago |
| `jobs` | the promise callbacks to come |

| Action | Code |
| --- | --- |
| `Trigger` | `runAndKeep` up to its first await: started, let go, queued, or the run stopped and waited for |
| `Play` | `startAsked`, `#start` |
| `Run`, `Decide` | `run` up to its first step: the `only if`, the parts in use, the row |
| `Walk`, `StartStep`, `Attach`, `Begun`, `ChildEnded` | `#walk`, `#startStep` |
| `Answer`, `SendAgain` | `#command` |
| `WaitOver`, `Quit`, `StopChild` | `#sleep` ending by itself, or woken by a stop |
| `Caught`, `Fresh`, `Then`, `Finally`, `EndedTriggered`, `Ended` | what is attached to a run's end |
| `Stop`, `Delete` | `stopAsked`, `forget` with the deletion that calls it |
| `Turn` | the automation let act or turned off (the node's API) |
| `Crash`, `Boot` | the process stops; `endInterrupted` |

What is abstracted: a rule's steps are a flat list of commands, waits, starts,
and starts that are waited for, since those are the four that touch other runs
or outlive an await; `repeat`, `for each`, `try` and `choose` order the same
four. The `only if` and every wait end either way. One trigger stands for an
automation's several. Left out: scripts, memory, what a run's log says,
automations in watch mode (which end before they hold anything), and a person's
"run it anyway".

| Run | Question | Home |
| --- | --- | --- |
| `runs_turns` | one run each; parts taken in turns; rows, stops, queues, starts afresh; what is deleted does not come back | a sequence with an `at most every` that starts another and waits for it, that other with a queue and played too, commands alone; two parts, of which the second needs both; one crash |
| `runs_ending` | runs end, parts come free, queues drain | the first two of `runs_turns`, the second triggered up to three times with a queue of two, with an `only if` that takes a while, and commands put off once or twice |
| `runs_fresh_lost` | a start afresh starts: **violated** | a sequence played by a person and then triggered |

`PartTurns.tla` is what the engine promises of parts, in one variable: who holds
each part. A chain takes all its parts at once while no other chain holds one of
them; it lets go; a stop of the server lets go of all. `runs_turns` checks that
every step of `Runs` is such a step or changes nobody's hold (`TurnsTaken`, with
`held` computed from the runs), and `runs_ending` that it also keeps the
abstract liveness (`PartsComeFree`: nobody keeps a part for ever).

Bounds: `MaxAsks` (triggers, plays, turns and deletions), `MaxCrashes`, and
`MaxRuns`, for which fairness is stated: `RunsEnd` also checks that no behaviour
of its home has more runs. Two or three asks are
enough for a run, a start that meets it at any point of its life, and a third
that meets both.

**Fairness.** A callback in the queue is called (weak). Whatever a run waits for
comes (weak, per run): a service answers or times out, the gateway answers every
command (`Gateway!Answered`, checked), a timer goes off. No trigger, person or
step outcome is fair. `runs_ending` has no crashes: a run the server's stop
interrupts is ended by `endInterrupted`, which is safety (`SaidRunning`).

**The finding.** A run a person played is stopped for a fresh start that never
comes: what waits for `#ending` goes on before `#ended` gives up the place.

Five more schedules of the model break what comments say; no run is about them, and
the properties that pass are stated, or their homes chosen, without them:

- a run stopped while the gateway judges its command sleeps when that is put off,
  hears no stop any more, and sends once again (`#command`, runs.ts:1156, against
  runs.ts:294: "the step it is in ends as stopped"). Nothing is promised here of
  what a stopped run sends;
- a run that still decides is in neither map, so a deletion stops nothing: of
  commands alone it goes on and is sent (`forget`, runs.ts:161, against
  engine.ts:139: "a run it takes is stopped"). `GoneStaysGone` is about starts and
  rows only; the commands of a fall-back are sent after a deletion too, as the code
  means them to be;
- a queued start that comes too soon after the last is let go with nothing running,
  and the starts behind it wait for some later run (`#ended`, runs.ts:237-238,
  against runs.ts:140: "each taken once the run before it ends"). So in `runs_turns`
  `QueueTaken` is of a queue without an `at most every`, as `QueueDrains` is;
- a start that is to stop a run that still decides waits it out instead
  (runs.ts:197): `StartsAfresh` is of automations that decide at once, and, for the
  finding above, are started by triggers alone;
- a step that started a run that still decides, stopped meanwhile, sleeps until it
  ends without having stopped it (`#startStep`, runs.ts:1261, against its comment at
  1229 and docs/SEQUENCES.md:256): `StopPassesOn` is of those that decide at once.

## What starts an automation

`Triggers.tla` models `automation-engine/triggers.ts`: when an automation starts
on its own, by the clock or because a condition became true, and what of that
outlives the process.

| Model | Code |
| --- | --- |
| `kept`, `becoming` | the row of `automation_trigger`, and `#becoming`, its copy in memory |
| `startedAt`, `lastRun` | `automation_trigger_start`, and the last run recorded |
| `hold` | the timer of a condition that must hold for a while (`entry.hold`) |
| `tick` | the look in progress: what is left of the list it took, and whether it waits for a run of commands alone |
| `running`, `queued` | whether a run is taking steps, and the starts that wait for it: `Runs` in little |
| `poked` | an automation looked at at once because it was changed (`poke`) |
| `cond`, `now` | the world: what each condition is, and the clock, counted in looks |
| `edge`, `since`, `slotted` | history: starts since the condition was last seen not to hold, how long it was seen to hold, starts of each slot |

`TickBegins`, `TickClock`, `TickCondition`, `TickPasses` and `Pass` are `tick` and
the clock going on; `HoldOver` is the timer of a hold; `Tell` is a condition that
changes and the bus saying so; `Edit`, `Turn`, `Delete`, `Play` come from people;
`Stop` and `Start` are the server's. The whole of `#becomes` is one operator
(`Becomes`): it has no await.

Left out: triggers by event, by change and at a run's start, rechecks, `at most
every`, and the way `restart` (dealt with as it fires, like `queue` with an empty
queue). An automation changed, turned or deleted while a tick waits for a run is
left out of what `triggers` promises (`touched`): the tick goes on with it as it
was, and of one deleted it starts what the store then refuses to write down, in a
promise nobody awaits. So are runs of commands alone that the server's stop cut off
before they were recorded (`lost`): their slot is due again, as the code means it to
be.

| Run | Question | Home |
| --- | --- | --- |
| `triggers` | once per edge and slot, in time, over restarts, and in the end | two automations of the clock (one a tick waits for), a tank that must be low for a while, a room whose rule changes what it reads |
| `triggers_queued` | once per slot with starts that wait their turn: **violated** | the same, `whileRunning: queue` |

Bounds: three moves (`MaxMoves`: changes of a condition, edits, turnings,
deletions, plays and stops, together), a clock of three looks, a hold of one
look, one slot. Three moves are a condition that comes, goes and comes again, or
comes with a restart in its hold and an edit. The grace counts from a tick's own
moment.

**Fairness.** A tick comes and goes through its list, the clock goes on, a hold's
timer fires, a stopped server is started (weak); a run ends (strong, since its
end waits for the tick in progress and is not passed over for ever; that runs
end is `RunsEnd`). No condition comes or goes by fairness.

**The finding.** A queued start is not written down as its slot's, so every look
while the automation runs queues the slot again (`triggers_queued`).

One more schedule is in the model and no run is about it. A tick goes through the list it read at its start. While it waits for a run of
commands alone, an automation later in the list is turned off: the tick starts it
by the clock all the same, for it looks again at nothing (triggers.ts:194-203),
where the start of a condition does (triggers.ts:411: "Turned off since — or gone
— it does nothing"). `SlotOnce` leaves such an automation out (`touched`).

## The sessions of a holder

`Sessions.tla` models `holder/src/sessions.ts`, `open.ts` and `watch.ts`: which
device has a session, over which way, and why not. Syncs are done one after
another, each in line with the list it was asked with; a close, a look round
(`check`) and a device that answers as another go on beside them.

| Model | Code |
| --- | --- |
| `catalog`, `first` | what the owner has, and the way each prefers (the node's API) |
| `queue`, `sync`, `records` | the chain of syncs (`#syncing`), the one under way with what it chose, `#records` |
| `open`, `opening`, `closing` | `#open`; openings awaited (`#openDevice`); sessions on their way shut (`#shut`) |
| an `epoch` | which opening of a bridge its member's session goes over (`#epoch`, `#fingerprint`) |
| `refusal` | `#refusals`: not now, not this device, or waiting for a person |
| `down`, `avoided` | `Failover`: how often a way failed and which is passed over |
| `look`, `watching` | the check that goes round, and its timer |
| `up`, `astray` | the world: ways that connect, and addresses that lead to another device |
| `callers` | calls that closed a device and will then ask for a sync |
| `asked`, `alive` | history: who was asked to sign in; sessions opened and not closed |

`SyncBegins`, `Choose`, `ShutStale`, `OpenDirect`, `OpenMembers` and
`RoundEnds` are one round of a sync in the order of the code: choose for every
device, close what is stale, open what is reached directly, then what goes
through bridges, and again if a bridge came to be. `Opened` and `OpenFails` are
the ends of an opening, `LooksWell`, `LooksAstray` and `GivesWay` what a check
finds, `Change`, `Prefer`, `SetSecrets` and `Stop` the calls. Every action is
the code between two awaits; and what awaits nothing goes on before a timer, a call
or a channel is heard (`Calm`). So with no session open a look asks for its sync
as it begins (`LookBegins`: from sessions.ts:656 to 670 there is no await), and with
no sync under way that one begins before anything else comes (365). Looks come by
an interval whether or not the last has ended: a look may find an earlier one's sync
under way or waiting, but one at a time goes round the open sessions.

Left out: simulated devices, changes of configuration or type (a new
fingerprint, as a change of way is), devices unfit for their package, what a
session reads and publishes. Bridges are one level deep (the code looks four);
ways through a bridge do not lead astray.

| Run | Question | Home |
| --- | --- | --- |
| `sessions` | no session is lost, members follow their bridge, a settled holder is as it was told, and a person is waited for | a plug reached over its own socket or through a gateway that may ask to sign in; the socket's transport may be out, its channel down, its address another's |
| `sessions_mends` | what can mend itself is opened in the end | the same, with no address that comes to be another's |

Bounds: one call (`MaxMoves`), two turns of what befalls the ways and one for the
liveness (`MaxTurns`), a device opened while at most one of its sessions still
closes (`MaxClosing`), one sync of a look waiting its turn when another look begins
(`MaxLooks`).
Openings are not bounded: the code counts them up, the model takes the least
number nothing refers to any more (`NewEpoch`), which tells them apart as well.
The proofs below are for every bound.

**Fairness.** What is awaited ends: a sync's step, a close, an opening, a look
(weak). A session's own opening and closing are timed (open.ts:280, 302); that
loading a type (sessions.ts:546), starting a transport (511), and opening or closing
a channel (open.ts:195, 303) end too is assumed, for the code does not time them. A
look comes and finds well what is well, a device that can be opened is
opened, and a choice is made with nothing failing (strong: trouble may come in
between). No person acts by fairness: `MendsItself` asks nothing of a device that
waits for one.

`SettledAsTold` compares with what the last sync was told, not with what the owner
has: they may differ. `check` ends by syncing what the manager was last given
(sessions.ts:670). Say the plug's transport is out and it waits to be tried again; a look's sync
is under way, awaiting that transport's start, when the plug is paused (or removed),
whose sync waits its turn; the next look comes, with the retry still due, and asks
for a sync with the list from before the pause. That sync runs last, and opens the
plug again, against sessions.ts:84 ("kept, and not opened, until resumed"). The model
has this schedule, and no run is about it.

One schedule is left out of `SettledAsTold` and `MendsItself` by name
(`BridgeLetGo`): a sync that chose the way through the gateway because the plug's
socket was out, and that then loses the gateway, leaves the plug "not open yet"
with nothing to try it again, though the socket may come back. sessions.ts:50
says that what can mend itself is tried again.

Three of the promises rest on the home, which `MCSessions` assumes of the homes
it checks (`SteadyHome`); elsewhere the code does otherwise:

- `MembersFollow` on `BridgesNeverAstray`: a bridge found to be another device is
  closed by `#verify` (sessions.ts:635), which asks for no sync; what was opening
  over it then (sessions.ts:554, 587) stays open over a bridge that is not.
- `SettledAsTold` on `LastingBridges`: a bridge lost in the very sync that chose
  it for a device (its transport out, or it answered as another) leaves that
  device not open without a word, until something is synced again.
- `WaitsOnPerson` on `SteadyWays`: a later sync that finds no usable way for a
  device that waits for a person writes "not now" over it (sessions.ts:401-403),
  and the end of a session closed as another's does the same (635-636); the
  device is then tried again, and refused again, though nobody signed in.
## A node that follows

`Follower.tla` models `hub/src/follower/follower.ts`, the part of its API that
changes what it holds, and `store/src/send-queue.ts`. The master is its
environment: its word on each device, what it says reaches it, and whether it can
be reached.

| Model | Code |
| --- | --- |
| `kept`, `keyed` | the follower's catalog, and the devices whose ways' secrets it has (durable) |
| `holdNow`, `heldAs` | `#holdNow`, `#heldAs` (memory) |
| `asked` | a list answered by the master and not handed to `hold` yet: the timer waits for the home and for what was removed first |
| `lists`, `hold` | the chain `#holding`, and the list being held: the sessions still to close, or, with none left, the sync awaited |
| `saving`, `forgetting` | `setup.save` and `devices.remove` between their awaits |
| `owed`, `queue` | what ever was owed, its place its id, and the rows of `send_queue` (durable) |
| `send` | the calls of `#send` still to go, and what the master said of the first |
| `taken`, `store` | the master's side: what it took, and each device's store |
| `word`, `above`, `up` | the master: "mine" is a way of this node's, "unknown" a device it does not list at all |

A list is a record of what it says and not of when: the steps between asking and
holding are where lists cross. `HoldBegins`, `HoldCloses` and `HoldEnds` are
`#hold` between its awaits; the writing of what is kept is in the step that ends
the last close, where the code has it. A call of a send arrives and is answered
in two steps; it, or its answer, may be lost in either. The master takes a call
twice without harm (its rows are inserted or ignored, a store's value set), so
`taken` is a set. A call given up never arrives later. The master takes what is
about a device of a way of this node's; it may all the same refuse the timeline of
a node it has forgotten (nodes.ts:191) and readings of another device than the one
added (nodes.ts:111), for good. A refresh may fail with the master there, as it may
with the master away (`StartsAway`, `AskLost`).

Left out: what the API wraps in of the node's own readings, joining and the kept
home, a master that is this node itself, readings as values (which minute was
owed), the description a device says of itself. Readings and events go up in one
call and are one kind here. Closings are in any order, where the code has the
catalog's. A device has one way of this node's at a time: a list that names another
way of it destroys the former's keys (follower.ts:389), as this list's word, and that
is not among what `KeysKept` is about.

The run `follower` has a home of one device with three moves or of two devices
with two (`MaxMoves`: what the master says, its going away, people, screens,
things owed, calls lost or refused, and stops, together), one list waiting while one is held,
and at most one or two owed of a kind. Three moves are two values owed and a call
lost between them, or a list, a save and a stop.

`KeysKept` and `HoldsAsListed` each leave one schedule out by name, and TLC finds
it when they do not:

- a list read before a device was saved here, and held after, says it is not this
  node's: the keys just given are destroyed (follower.ts:254-263 against api.ts:228;
  `told` is kept while such a list is on its way);
- a removal here clears `#heldAs`, then waits for the session to close; a list
  held meanwhile is noted as held, and then the device it has is deleted. The
  same list later changes nothing: a device given back in between is not held
  until something else changes or the node restarts (follower.ts:394 and 456;
  `crossed`).

**Fairness.** The master comes back, the node is started again, the timer asks,
what is awaited ends (weak); a list that was answered is handed on (strong: the
bound on `lists` may hold it up, the code's chain does not). The number of lost
calls is bounded, so `Drains` is about a master that answers in the end; one with
a lasting fault over a single row is a hazard `Drains` leaves open.


## What is proved

`GatewayProofs.tla` proves `TypeCorrect` (`Spec => []TypeOK`), a step per action,
from the three named assumptions of `Gateway.tla` (the sets are disjoint where
they must be, the functions have their types, the times are naturals).

`GatewayPromises.tla` proves, for every home, every number of callers, rules and
restarts, and all times:

- `LedgerCorrect`: `Spec => []LedgerTrue`;
- `DwellCorrect`: `Spec => []DwellKept`;
- `AllowanceCorrect`: `Spec => []AllowanceKept`;
- `SeenWhenVerified`: `Spec => VerifiedIsSeen` under `StampedWhenTaken` (linked
  parts whose readings take time stamp them when they are taken).

None of the first three is inductive. The dwell, for one, is judged from the ledger, so it
holds only while the ledger names the last send; and the ledger may be put
*back*, so what is put back must name the last send before that one. `SendInv`
says so, in parts:

- `LineOK`: a caller is in the line once, exactly while it is queued;
- `BusyRuns`: a run that is over has nothing open;
- `SendingOK`: one caller at most is sending, exactly while `sending` is set; if
  so the last of `sent` is its own, and `sending.before` and `sending.inRun` are
  what all sends but the last say of that target and that run;
- `TimesOK`: sends are in the order of their times, none later than now;
- `LedgerOK`: the ledger is the time of the last send to each target;
- `CountsOK`: an unended run's count of a part is the number of its sends to it;
- `AllowanceOK`, `DwellIn`: the promises themselves.

`Rejected` is the step that needs `SendingOK`: it shortens `sent`, and everything
above must still hold of the shorter sequence.

What is verified is about where the world has been since the send, of which the
gateway knows only readings. `ReadsTruly` ties them to it: of each linked part,
what is kept and what is on its way says where the part was at the time it is
stamped with, so either the part is there still or it changed no earlier than
that. A reading stamped as it arrives breaks this, in the code as in the proof
(`gateway_proof_arrival`); so the hypothesis is about those parts alone, and only
where they are `Delayed`. `VerifiedByLinks` is the other half: whichever step makes
"verified" of a command in `verifying`, it is the links' proof that agreed, which
needs that the line holds only who is queued (`LineOK`).

`GatewayPeople.tla` proves the promise about a person's yes:

- `YesCorrect`: `Spec => []YesIsForThis`.

A yes is carried by one send because a token leaves `pending` as it is accepted,
which the sends alone do not tell. `PeopleInv` adds it: of every send a person had
to say yes to, `Carried` (a token put to that person for that very thing, in time,
and spent), and `OwnTokens` (no two such sends carry one token). A token that leaves `pending`
never returns, since a new one is numbered past all before it; a refusal by the
device takes the last send off and leaves the rest as they were.

### Runs

`RunsProofs.tla` and `RunsStopped.tla` take any set of automations, whatever each
does, changes and starts, any number of runs and of crashes, and any limits:

- `TypeCorrect`: `Spec => []TypeOK`;
- `OneAtATime`: `Spec => []OneRunEach`;
- `SaidTruly`: `Spec => []SaidRunning`;
- `TakeTurns`: `Spec => TurnsTaken`, the refinement: every step of `Runs`, through
  the mapping `held <- HeldBy`, is a step of `PartTurns` or a stutter;
- `QueueWaitsBehind`: `Spec => []QueueTaken` where no automation has an `at most
  every` (`Paced = {}`);
- `GoneForGood`: `Spec => GoneStaysGone`, with no hypothesis: what was deleted is
  started by nothing, and no row of it is written;
- `AfreshInTheEnd`: `Spec => []StartsAfresh` where an automation that starts afresh
  is started by its trigger alone (`TriggersAlone`);
- `StopReachesChild`: `Spec => []StopPassesOn` where what automations start decides
  at once (`StartedAtOnce`: no `Starts[a]` is `Slow`).

That one run of each automation is under way is not inductive: a second one could
come of a callback called twice, or called of a run that has gone on. So
`RunsInv` says, while the server is up (`Fit`):

- `Once`: of all callbacks to come, one at most *carries on* each run (`Carries`:
  all but the telling of a child's end, and what starts afresh);
- `Due`: each callback to come is of a run that stands where it is to be called:
  a `walk` of one that takes steps and waits for nothing, a `begun` of one that
  waits to hear so, an `ended` of one that settled;
- `HeardOnce`: a run is told that the one it started has begun when that is so,
  and nobody is to tell it again - the one callback whose twin is put in the
  queue elsewhere (`Attach`, `Begins` and `Then` all may);
- `Stands`: a run waits for something only while it takes steps, its chain is
  finite, shorter than the limit and without itself;
- `SaysRight`: its row says it runs just while it holds its parts;
- `OneEach`: one run of an automation, and it keeps every other out.

While the server is down, `Idle`. The lemmas on queues (`Joined`, `Taking`,
`RestSound`, `AddSound`, `TakeSound`) say what a callback taken from the front or
put at either end does to that; those on runs (`ChangedFits`, `GrownFits`,
`OverFits`) what one record changed, one run more, one place given up does; then a
lemma for each part of an action (`SettleFits`, `BeginsFits`, `EndedFits`, ...)
and one for each action.

For the turns, `Moved` says of a step that at most one run takes its parts or
lets them go, and takes them only when they are free; `OneTurn` makes of it a step
of `PartTurns`. For what was deleted, `Onward` says how each run goes on in any
step (it decides once, and no row is written of an automation that is gone), and
`StopInv` what holds throughout: a run that decides at once is the *next* callback,
so that no deletion finds one that is about to write its row, and of an automation
that is gone no run has one.

A start afresh is lost or not by the *order* of callbacks, of which `RunsInv` says
only which are in the queue. `FreshInv` adds what of the order matters: a run that
a trigger started has its `ended` right behind the `caught` that lets its starts
go on (`EndsNext`), so that `caught`, which puts them last, leaves the place given
up first (`FreshAfter`); a run that ended is to give up its place (`GivesUp`), and
while a place is taken there is a run that has it (`HasRun`), the latest of its
automation (`Latest`). Then whoever waits for a run is still to hear of its end or
finds the place free, and another run begins (`ToCome`). `Fares` says how each run
goes on in any step, and `Kept` what may be put to the callbacks that are left.

A stop goes down a chain of runs one callback at a time: between the stop of a run
and that of all it waits for, nothing else may touch a run it has yet to reach.
`PassInv` says why. Runs know who started whom (`Kin`); a run hears that the one it
started has begun only once it has listened (`Starting`), before that one is over
(`Beginning`), and hears of its end (`Awaiting`), which is an order of the queue:
`attach` precedes `then`, `begun` precedes `finally` (`Precedes`). So when the next
thing comes from outside, nobody is about to wait for another (`QuietWaits`), which
is where the hypothesis is needed, and whoever holds its parts is at its own step or
awaits a run that holds its own. A `stopchild` that is then put in the queue is the
only one (`OneTold`), and there is a set of runs, closed under who waits for whom and
with the run to be stopped in it, that no callback to come is about (`Undisturbed`):
each callback leaves that set alone (`Remains`), or is the `stopchild` itself, which
stops the first of it and goes on with the rest. Then a stopped run waits for no
other (`StoppedWaitsNot`), and what ended as stopped, or was woken and has told,
leaves no unstopped run behind (`StoppedTold`, `WokenTells`, `Halts`). `GoOn`,
`Queues` and `Hearing` say of each action what one step does to a run, to the queue
and to who is called; every part of an action and every callback is shown to keep
to them (`SettlePasses`, `BeginsPasses`, ..., `Passing`), and the invariant is
proved from them alone.

The three hypotheses are not for the proof's sake: each leaves out one of the
schedules named with the runs above, where the code does otherwise, and TLC finds
it when the constant is not empty, or for `AfreshInTheEnd` when an automation that
starts afresh is played too (`runs_fresh_lost`). What waits in a queue (`Behind`) is
proved of each automation by itself: one without an `at most every` waits behind a
run whatever the others have.

### Triggers

`TriggersProofs.tla`, for any automations, conditions, slots, holds, any order of
the list, any horizon and number of moves:

- `TypeCorrect`, `OnceAnEdge` (`[]OneStartPerEdge`), `StartsAfresh`
  (`[]AfreshIsOpen`), `HeldThatLong` (`HeldLong`);
- `OnceASlot`: `Spec => []SlotOnce` where the automations of the clock let a start
  go that meets a run (`Way[a] = "skip"`). Where it is queued the code starts a
  slot twice: that is `triggers_queued`.

`CondInv` ties what is kept of a condition to what has happened: what is held in
memory is what is kept, or nothing has been kept of one seen since the start
(`Fresh`); a hold is waited out only of a condition found true and not dealt with,
in the version the automation has now; a condition that started its automation is
dealt with and stays so until it is seen not to hold; one not dealt with has been
seen to hold at least as long as its `age` says, which is what makes a hold that
goes on after a restart honest. `SnapsAgree` adds the look in progress: an
automation in the rest of its list is as it was when the list was taken, or was
touched. Each action is shown to keep `Knows` and, in the same lemma, to start
nothing it may not (`Fires`), whence `HeldLong`.

`SlotInv` says of a slot that started its automation that it has come, that it was
counted once, and that it is `Past`: the last run, or the run the tick waits for,
is as late as the slot, and so is the last start written down, unless that was
forgotten (an edit) and every look still to come knows of the run. `Earliest`, the
least of the slots that are due, rests on the well-foundedness of the naturals.

### The follower

`FollowerProofs.tla`, for any home, any number of devices and owed rows, any limit
of the queue and of what is sent at once:

- `TypeCorrect`; `OwedNeverLost` (`[]NoneLost`); `StoreOnlyOnward`
  (`StoreNeverBack`); `KeysOnlyOnWord` (`KeysKept`).

The types need more than types: of each kind no more is queued than is kept
(`Few`), and a list names as this node's only what is in the home (`InHome`).
`NoneLost` needs that a call that was taken was taken whole. `StoreNeverBack` is
about rows sent again after newer ones were queued: `StoreInv` has that a device's
copy is no newer than any row of it that is queued or about to be sent
(`NotPassed`), and that the calls of a send have those rows one by one, in the
order they were owed and with none left out that is queued and older (`InLine`);
the ranks of a finite set of ids (`BeforeGrows`, `RankTaken`) give the order in
which the code's `order by id` puts them. `KeysInv` says that whatever list, word
or removal lets go of a device, the master has said so.

### Sessions

`SessionsProofs.tla`, for any home whose bridges are one level deep, any order,
preference and number of moves, turns and sessions closing:

- `TypeCorrect` (`[]TypeOK`), `NoneLost` (`[]NoneForgotten`);
- `BridgesFollowed`: `Spec => []MembersFollow` under `BridgesNeverAstray`;
- `AsTold`: `Spec => []SettledAsTold` under `LastingBridges`;
- `PersonWaitedFor`: `Spec => []WaitsOnPerson` under `SteadyWays`;
- `NeverOverFormer` (`[]OverItsBridge`) and `NoneSilent` (`[]SaysWhy`), of every
  home: whatever is reached through a bridge that is open is open over the session
  that bridge has, settled or not; and once settled, what is not open says why, or
  has a bridge that is not open, which says why in its turn.

The three hypotheses are those of the sessions' part above: constants of the home,
that the code needs and the last two theorems do without.

`SessionsInv` is the invariant they share. `Typed` adds to the types that what is
wanted, opens or is open of a device is one of its own ways. `SyncInv` ties what
opens to the sync in hand: what opens was tried by it, is not open, and is
reached directly first and through a bridge after; what is wanted is kept. So
while a sync chooses nothing opens (`NothingOpens`), and beside a sync sessions
only go (`Dwindles`). `Carried` follows the numbers: what is open through a bridge
is over the session the bridge has, or over one it had, and then stale (`Over`,
`Linked`, `LeftOver`); `OverNow` that nothing is over a former one while the
bridge has another, since what goes through a bridge goes with it
(`GoesWithItsBridge`) before it can open again. `SaysInv` says where the word is,
of a device that is not open: said (`refusal`), to be said by a session that is
closing (`Pending`), or to be said by the sync in hand, whose choice is yet to come
(`Told`, `Same`, `Lasts`, `Says`).

`MembersFollow` needs that a sync is to come (`Coming`: one under way that has yet
to choose, one asked for, one a look or a caller will ask for) whenever something
is open over a bridge that is not: `Awaited`. It is here that an address of the
bridge's own that leads astray breaks the promise, and no other loss of a bridge
does. `NoneForgotten` needs that no session number is had twice, by two devices
or by one that is open and one that closes (`SessionsApart`), for which a new
number must be new to all that refer to one (`NewEpochIsNew`). `WaitsOnPerson`
needs of a device that asked (`LeftAlone`) that its refusal says so still, that no
sync under way has it among what it tries through a bridge, and that one that has
chosen for it keeps it; a steady way is always there to choose (`SteadyIsChosen`).

### Only model-checked

- Liveness, under the fairness named above: `Answered`, `RunsEnd`, `QueueDrains`,
  `PartsComeFree`, `HeldIsStarted`, `MendsItself`, `HoldsAsListed`, `Drains`; the
  prover does no fairness and no ENABLED.

## Plan

In the order of what would hurt a home most. Each module keeps its parameters as
constants with named assumptions, one action per operation, its invariants as
named conjuncts, and recursion out of what is proved about.

| Step | Modules | What they say | State |
| --- | --- | --- | --- |
| 1 | `Gateway`, `MCGateway` | the one way to hardware | modelled, checked |
| 2 | `GatewayProofs`, `GatewayPromises`, `GatewayPeople` | types, the dwell, the allowance, the ledger, whose yes it is | proved |
| 3 | `Runs`, `PartTurns`, `MCRuns` | runs of automations, and the turns they take | modelled, checked |
| 4 | `Triggers`, `MCTriggers` | what starts an automation, over restarts | modelled, checked |
| 5 | `Sessions`, `MCSessions` | which device has a session, and over which way | modelled, checked |
| 6 | `Follower`, `MCFollower` | what a follower holds and what it owes | modelled, checked |
| 7 | `FollowerProofs` | what is owed is never lost, a store never set back, keys let go only on the master's word | proved |
| 8 | `RunsProofs`, `RunsStopped` | one run each, rows, turns as a refinement, queues, what is deleted does not come back | proved |
| 9 | `TriggersProofs` | once an edge, once a slot, held that long | proved |
| 10 | `SessionsProofs` | no session lost, members over their bridge's session, why what is not open is not, a person waited for | proved |
| 11 | `RunsStopped` | `StartsAfresh` for what only triggers start, by the order of a run's callbacks | proved |
| 12 | `GatewayPromises` | `VerifiedIsSeen`, by what readings say of where the linked parts were | proved |
| 13 | `RunsStopped` | `StopPassesOn`, by who hears of whom before which run ends | proved |
| 14 | `Outbox`, `Handover` | what a slow listener hears; a home moved once | later |
| 15 | a home | `Runs` with the `Gateway` in place of its `Answer`, and `Triggers` in place of its `Trigger` | last |

Liveness (`Answered`, `RunsEnd`, `QueueDrains`, `PartsComeFree`, `HeldIsStarted`,
`MendsItself`, `HoldsAsListed`, `Drains`) stays with TLC under the fairness named
above. Bounds stay those of a small home: two to four automations, one or two
parts or devices, one restart, and a clock of three or four units.

## Not modelled

The automation language, the store's SQL, the home file, identity, transports,
integrations, device packages, scripts and screens: pure functions of data,
input and output, or wire formats. Where one of the modelled parts depends on
them they are its environment: what a device does with a command, which readings
arrive and when, whether a condition holds. Each is listed with its reason under
`PROJECT.json` "components". The handover of a home is a few calls of the import,
whose diff of two homes would have to come first; the outbox feeds screens only.
