------------------------------ MODULE Follower ------------------------------
(* A node that follows the home's master (hub/src/follower/follower.ts,    *)
(* store/src/send-queue.ts).  It asks the master for its list of devices,  *)
(* and holds from it: keeps the devices it has a way to, with their keys,  *)
(* and reaches each while nothing above its way does.  What it owes the    *)
(* master it queues in its own database and sends while the master is      *)
(* there.  A list may be old by the time it is held; a call may be lost,   *)
(* or its answer; a restart forgets all that was not in the database.      *)
(* A device has one way of this node's at a time: that a list which names  *)
(* another lets go of the keys of the former (#hold) is left out.          *)
EXTENDS Integers, Sequences, FiniteSets

CONSTANTS
    Homes,      \* the devices a home may have, as sets of them
    None,       \* no list, no device, no call
    KeepOwed,   \* how many owed of each kind are kept, the newest
    AtOnce,     \* how many owed one send looks at, the oldest
    PerCall,    \* how many the master takes in one call
    MaxLists,   \* bound: how many lists wait to be held
    MaxMoves    \* bound, by home: what the master, people, sessions and the network do

Devices == UNION Homes

Kinds == {"audit", "readings", "store"}

ASSUME FollowerAssumption ==
    /\ IsFiniteSet(Devices) /\ None \notin Devices
    /\ KeepOwed \in [Kinds -> Nat \ {0}]
    /\ {AtOnce, PerCall, MaxLists} \subseteq Nat \ {0} /\ MaxMoves \in [Homes -> Nat]

\* What the master says of a device: it has it with a way of this node's, it
\* has it without, it removed it, or it does not know it.
Words == {"mine", "other", "removed", "unknown"}
\* Who asks for the list: the timer, a screen, and a setup just saved.
Askers == {"refresh", "screen", "setup"}

VARIABLES
    home,          \* the devices there are
    up, word,      \* the master: whether it can be reached, and its word on each device
    above,         \* the devices it says a way above this node's reaches
    taken, store,  \* what it took of what is owed, and its copy of each device's store
    kept, keyed,   \* this node's database: the devices, and those it has the keys of
    owed, queue,   \* all that ever was owed, and what of it is queued still
    running,       \* down, starting, or on
    holdNow,       \* #holdNow
    asked,         \* the list each asker was answered, before it is held
    lists,         \* the lists waiting to be held, in the order they came (#holding)
    hold,          \* the one being held
    heldAs,        \* #heldAs
    saving,        \* the device of the setup being saved
    forgetting,    \* the device a person removed here, and how far that is
    send,          \* the calls of the send under way, and what became of the first
    moves,
    refused, trimmed,  \* ghost: why something owed is queued no more
    told,          \* ghost: the devices whose keys the master's word let go of
    crossed        \* ghost: a device forgotten while the list that has it was noted as held

master   == <<home, up, word, above>>
masters  == <<taken, store>>
holder   == <<kept, keyed, holdNow>>
holding  == <<lists, hold, heldAs, told>>
people   == <<asked, saving, forgetting>>
sending  == <<owed, queue, send, refused, trimmed>>
vars == <<master, masters, holder, holding, people, sending, running, moves, crossed>>

Move == moves < MaxMoves[home] /\ moves' = moves + 1

-----------------------------------------------------------------------------
(* The master.                                                             *)

\* As it would be if what a list does not name were let go of with its keys.
LetsGoUnlisted(l) == Devices

\* What a list lets go of where it has no way of this node's: what it has, and
\* what was removed.
LetsGo(l) == l.listed \cup l.gone

\* A list this node has and has not held yet.
OnTheirWay == ({asked[a] : a \in Askers} \ {None}) \cup {lists[i] : i \in DOMAIN lists}

\* What the master may say next of a device: another node or account changed
\* it, or the master's database was begun again.
Says(d, w) ==
    /\ word[d] # w
    /\ Move
    /\ word' = [word EXCEPT ![d] = w]
    /\ told' = IF w \in {"other", "removed"} THEN told \cup {d} ELSE told
    /\ UNCHANGED <<home, up, above, masters, holder, lists, hold, heldAs, people, sending,
                   running, crossed>>

AboveTurns(d) ==
    /\ Move
    /\ above' = (above \ {d}) \cup ({d} \ above)
    /\ UNCHANGED <<home, up, word, masters, holder, holding, people, sending, running, crossed>>

MasterGone ==
    /\ up /\ Move /\ up' = FALSE
    /\ UNCHANGED <<home, word, above, masters, holder, holding, people, sending, running, crossed>>

MasterBack ==
    /\ ~up /\ up' = TRUE
    /\ UNCHANGED <<home, word, above, masters, holder, holding, people, sending, running, moves, crossed>>

-----------------------------------------------------------------------------
(* Asking for the list.                                                    *)

Listed == {d \in Devices : word[d] \in {"mine", "other"}}
Mine   == {d \in Devices : word[d] = "mine"}
Gone   == {d \in Devices : word[d] = "removed"}

\* The list as the master has it now; `gone` is read after it, and only by the
\* timer's.  `keys` is the device whose keys are given when it is held.
TheList(keys) == [mine |-> Mine, now |-> Mine \ above, listed |-> Listed, gone |-> {}, keys |-> keys]

MayAsk(a) ==
    CASE a = "refresh" -> running = "on" \/ (running = "starting" /\ lists = <<>> /\ hold = None)
      [] a = "screen"  -> running = "on"
      [] a = "setup"   -> saving # None

Asks(a) ==
    /\ MayAsk(a) /\ up /\ asked[a] = None
    /\ IF a = "screen" THEN Move ELSE UNCHANGED moves
    /\ asked' = [asked EXCEPT ![a] = TheList(IF a = "setup" THEN saving ELSE None)]
    /\ UNCHANGED <<master, masters, holder, holding, saving, forgetting, sending,
                   running, crossed>>

\* It has its answer: the timer asks what was removed too, which may fail, and
\* the list waits its turn to be held.
Hands(a) ==
    /\ asked[a] # None /\ Len(lists) < MaxLists
    /\ \E gone \in IF a = "refresh" THEN {{}} \cup (IF up THEN {Gone} ELSE {}) ELSE {{}} :
           lists' = Append(lists, [asked[a] EXCEPT !.gone = gone])
    /\ asked' = [asked EXCEPT ![a] = None]
    /\ saving' = IF a = "setup" THEN None ELSE saving
    /\ UNCHANGED <<master, masters, holder, hold, heldAs, told, forgetting, sending, running,
                   moves, crossed>>

\* The answer never came, or was that the master cannot say.
AskLost(a) ==
    /\ asked[a] # None /\ running = "on"
    /\ IF up THEN Move ELSE UNCHANGED moves
    /\ asked' = [asked EXCEPT ![a] = None]
    /\ saving' = IF a = "setup" THEN None ELSE saving
    /\ UNCHANGED <<master, masters, holder, holding, forgetting, sending, running, crossed>>

-----------------------------------------------------------------------------
(* Holding from a list, one at a time (hold, #hold).                       *)

\* As it would be if only the devices were compared, and not which is held now.
AsKept(l) == [mine |-> l.mine, now |-> {}, gone |-> l.gone]

\* What a list comes to: the same again is not written again.
As(l) == [mine |-> l.mine, now |-> l.now, gone |-> l.gone]

\* The keys a person gave go to the device just saved, if it is kept.  A list of
\* before then, or its being forgotten, may still let go of them.
KeysGiven(l) ==
    IF l.keys \in kept
    THEN /\ keyed' = keyed \cup {l.keys}
         /\ told' = IF \/ word[l.keys] # "mine"
                       \/ \E o \in OnTheirWay : l.keys \in LetsGo(o) \ o.mine
                       \/ forgetting # None /\ forgetting.device = l.keys
                    THEN told ELSE told \ {l.keys}
    ELSE UNCHANGED <<keyed, told>>

\* The same as was last written: nothing is written, and what asked goes on.
HoldSkips ==
    /\ running # "down" /\ hold = None /\ lists # <<>>
    /\ As(Head(lists)) = heldAs
    /\ lists' = Tail(lists)
    /\ KeysGiven(Head(lists))
    /\ running' = "on"
    /\ UNCHANGED <<master, masters, kept, holdNow, hold, heldAs, people, sending, moves, crossed>>

\* Everything closed: what is this node's is written as the master has it, and
\* which of it is held now; then the sessions follow.
Writes(l, left) ==
    /\ kept' = left \cup l.mine
    /\ holdNow' = l.now
    /\ crossed' = FALSE
    /\ hold' = [list |-> l, closing |-> {}]

HoldBegins ==
    /\ running # "down" /\ hold = None /\ lists # <<>>
    /\ As(Head(lists)) # heldAs
    /\ lists' = Tail(lists)
    /\ heldAs' = None
    /\ IF kept \subseteq Head(lists).mine
       THEN Writes(Head(lists), kept)
       ELSE /\ hold' = [list |-> Head(lists), closing |-> kept \ Head(lists).mine]
            /\ UNCHANGED <<kept, holdNow, crossed>>
    /\ UNCHANGED <<master, masters, keyed, told, people, sending, running, moves>>

\* The session of one that is not this node's is closed: it is let go of, with
\* its keys, if the master says so, and kept otherwise.
HoldCloses(d) ==
    /\ hold # None /\ d \in hold.closing
    /\ LET l == hold.list
           left == IF d \in LetsGo(l) THEN kept \ {d} ELSE kept
           rest == hold.closing \ {d}
       IN /\ keyed' = keyed \cap left
          /\ IF rest = {}
             THEN Writes(l, left)
             ELSE kept' = left /\ hold' = [hold EXCEPT !.closing = rest] /\ UNCHANGED <<holdNow, crossed>>
    /\ UNCHANGED <<master, masters, lists, heldAs, told, people, sending, running, moves>>

\* The sessions are in line: noted as held.
HoldEnds ==
    /\ hold # None /\ hold.closing = {}
    /\ heldAs' = As(hold.list)
    /\ hold' = None
    /\ KeysGiven(hold.list)
    /\ running' = "on"
    /\ UNCHANGED <<master, masters, kept, holdNow, lists, people, sending, moves, crossed>>

-----------------------------------------------------------------------------
(* What a person does through this node.                                   *)

\* A device saved by the master with a way of this node's; its list is asked
\* for next, and the keys are given when that is held.
Saves(d) ==
    /\ running = "on" /\ up /\ saving = None /\ word[d] \in {"other", "unknown"}
    /\ Move
    /\ word' = [word EXCEPT ![d] = "mine"]
    /\ saving' = d
    /\ UNCHANGED <<home, up, above, masters, holder, holding, asked, forgetting, sending,
                   running, crossed>>

\* A device removed, by the master first; then this node forgets it: its
\* session closed, then all that was kept for it.
Removes(d) ==
    /\ running = "on" /\ up /\ forgetting = None /\ word[d] \in {"mine", "other"}
    /\ Move
    /\ word' = [word EXCEPT ![d] = "removed"]
    /\ told' = told \cup {d}
    /\ forgetting' = [device |-> d, closing |-> FALSE]
    /\ UNCHANGED <<home, up, above, masters, holder, lists, hold, heldAs, asked, saving, sending,
                   running, crossed>>

ForgetBegins ==
    /\ forgetting # None /\ ~forgetting.closing
    /\ forgetting' = [forgetting EXCEPT !.closing = TRUE]
    /\ heldAs' = None
    /\ UNCHANGED <<master, masters, holder, lists, hold, told, asked, saving, sending,
                   running, moves, crossed>>

Forgets ==
    /\ forgetting # None /\ forgetting.closing
    /\ LET d == forgetting.device
           noted == IF hold # None /\ hold.closing = {} THEN As(hold.list) ELSE heldAs
       IN /\ kept' = kept \ {d} /\ keyed' = keyed \ {d} /\ holdNow' = holdNow \ {d}
          /\ crossed' = (crossed \/ (noted # None /\ d \in noted.mine))
    /\ forgetting' = None
    /\ UNCHANGED <<master, masters, holding, asked, saving, sending, running, moves>>

-----------------------------------------------------------------------------
(* What is owed.                                                           *)

\* As it would be if the trim were one off.
TrimLate(q, kind) ==
    {i \in q : owed'[i].kind = kind /\ Cardinality({j \in q : j > i /\ owed'[j].kind = kind}) > KeepOwed[kind]}

\* `kind` trimmed to its newest (SendQueue.trim).
Trim(q, kind) ==
    {i \in q : owed'[i].kind = kind /\ Cardinality({j \in q : j > i /\ owed'[j].kind = kind}) >= KeepOwed[kind]}

\* Owed, while it runs: an entry of the timeline; a reading, of a device whose
\* session is open; what a session keeps, as long as the device has a way here.
Owes(kind, d) ==
    /\ running # "down" /\ Move
    /\ d \in CASE kind = "audit"    -> {None}
              [] kind = "readings" -> kept \cap holdNow
              [] kind = "store"    -> kept
    /\ owed' = Append(owed, [kind |-> kind, device |-> d])
    /\ LET q == queue \cup {Len(owed')}
       IN queue' = q \ Trim(q, kind) /\ trimmed' = trimmed \cup Trim(q, kind)
    /\ UNCHANGED <<master, masters, holder, holding, people, send, refused, running, crossed>>

\* The calls of one send, each the rows it takes up: the timeline, then each
\* device's readings, then what sessions kept, a row at a time.
Oldest(rows, n) == {i \in rows : Cardinality({j \in rows : j < i}) < n}
InOrder(rows) ==
    [n \in 1..Cardinality(rows) |-> CHOOSE i \in rows : Cardinality({j \in rows : j < i}) = n - 1]

\* What one send looks at, of a kind; of that, the readings of a reading's device.
Looked(kind) == {i \in Oldest(queue, AtOnce) : owed[i].kind = kind}
ReadingsWith(i) == {j \in Looked("readings") : owed[j].device = owed[i].device}
FirstReadings == {i \in Looked("readings") : \A j \in ReadingsWith(i) : i <= j}

AuditCalls == IF Looked("audit") = {} THEN <<>> ELSE <<Oldest(Looked("audit"), PerCall)>>
ReadingsCalls ==
    [n \in 1..Cardinality(FirstReadings) |-> Oldest(ReadingsWith(InOrder(FirstReadings)[n]), PerCall)]
StoreCalls == [n \in 1..Cardinality(Looked("store")) |-> {InOrder(Looked("store"))[n]}]

Calls == AuditCalls \o ReadingsCalls \o StoreCalls

\* One send at a time.
SendBegins ==
    /\ running = "on" /\ send = None /\ queue # {}
    /\ send' = [calls |-> Calls, said |-> "nothing"]
    /\ UNCHANGED <<master, masters, holder, holding, people, owed, queue, refused, trimmed,
                   running, moves, crossed>>

\* What the master takes: what is of no device, or of one of a way of this node's.
Takes(rows) == \A i \in rows : owed[i].device # None => word[owed[i].device] = "mine"

\* What it may refuse all the same: the timeline of a node it has forgotten,
\* readings that come of another device than the one added.
MayRefuse(rows) == \A i \in rows : owed[i].kind # "store"

\* The master answers a call; what it refuses, it refuses for good.
CallArrives ==
    /\ up /\ send # None /\ send.said = "nothing"
    /\ LET rows == Head(send.calls)
       IN \/ /\ Takes(rows)
             /\ send' = [send EXCEPT !.said = "taken"]
             /\ taken' = taken \cup rows
             /\ store' = [d \in Devices |->
                   IF \E i \in rows : owed[i] = [kind |-> "store", device |-> d]
                   THEN CHOOSE i \in rows : TRUE ELSE store[d]]
             /\ UNCHANGED moves
          \/ /\ IF Takes(rows) THEN MayRefuse(rows) /\ Move ELSE UNCHANGED moves
             /\ send' = [send EXCEPT !.said = "refused"]
             /\ UNCHANGED <<taken, store>>
    /\ UNCHANGED <<master, holder, holding, people, owed, queue, refused, trimmed,
                   running, crossed>>

\* As it would be if a call that failed counted as sent.
SentAnyway(said) == TRUE

\* As it would be if what the master refused were sent until it took it.
SentIfTaken(said) == said = "taken"

\* What is sent, and owed no longer.
Sent(said) == said \in {"taken", "refused"}

NextCall ==
    IF Len(send.calls) = 1 THEN None ELSE [calls |-> Tail(send.calls), said |-> "nothing"]

\* Its answer comes, and the next call goes.
CallAnswered ==
    /\ up /\ send # None /\ Sent(send.said)
    /\ queue' = queue \ Head(send.calls)
    /\ refused' = IF send.said = "refused" THEN refused \cup Head(send.calls) ELSE refused
    /\ send' = NextCall
    /\ UNCHANGED <<master, masters, holder, holding, people, owed, trimmed, running, moves, crossed>>

\* As it would be if the send went on past a call that failed.
AfterFailureOn == NextCall

\* The rest waits for the next send.
AfterFailure == None

\* The call, or its answer, is lost, or the master fails to answer it.
CallLost ==
    /\ send # None
    /\ IF up THEN Move ELSE UNCHANGED moves
    /\ send' = AfterFailure
    /\ UNCHANGED <<master, masters, holder, holding, people, owed, queue, refused, trimmed,
                   running, crossed>>

-----------------------------------------------------------------------------
(* Starting and stopping.                                                  *)

Starts ==
    /\ running = "down" /\ running' = "starting"
    /\ UNCHANGED <<master, masters, holder, holding, people, sending, moves, crossed>>

\* The master away at the start, or asking it failed: what this node held when
\* it last heard, it holds still.
StartsAway ==
    /\ running = "starting" /\ lists = <<>> /\ hold = None
    /\ IF up THEN Move ELSE UNCHANGED moves
    /\ holdNow' = kept
    /\ asked' = [a \in Askers |-> None]
    /\ running' = "on"
    /\ UNCHANGED <<master, masters, kept, keyed, holding, saving, forgetting, sending, crossed>>

\* It stops, or is killed: only its database is left.
Stops ==
    /\ running # "down" /\ Move
    /\ running' = "down"
    /\ holdNow' = {} /\ asked' = [a \in Askers |-> None] /\ lists' = <<>> /\ hold' = None
    /\ heldAs' = None /\ saving' = None /\ forgetting' = None /\ send' = None /\ crossed' = FALSE
    /\ UNCHANGED <<master, masters, kept, keyed, told, owed, queue, refused, trimmed>>

\* Before, it held some of the devices, with their keys.
Init ==
    /\ home \in Homes /\ up = TRUE /\ above = {} /\ running = "down"
    /\ kept \in SUBSET home /\ keyed = kept
    /\ word = [d \in Devices |-> IF d \in kept THEN "mine" ELSE "unknown"]
    /\ taken = {} /\ store = [d \in Devices |-> 0] /\ owed = <<>> /\ queue = {}
    /\ holdNow = {} /\ asked = [a \in Askers |-> None] /\ lists = <<>> /\ hold = None
    /\ heldAs = None /\ saving = None /\ forgetting = None /\ send = None
    /\ moves = 0 /\ refused = {} /\ trimmed = {} /\ told = {} /\ crossed = FALSE

World ==
    \/ \E d \in home, w \in Words : Says(d, w)
    \/ \E d \in home : AboveTurns(d)
    \/ MasterGone
    \/ MasterBack
    \/ \E d \in home : Saves(d)
    \/ \E d \in home : Removes(d)
    \/ Starts
    \/ Stops

Holding ==
    \/ \E a \in Askers : Asks(a) \/ Hands(a) \/ AskLost(a)
    \/ HoldSkips
    \/ HoldBegins
    \/ \E d \in Devices : HoldCloses(d)
    \/ HoldEnds
    \/ ForgetBegins
    \/ Forgets
    \/ StartsAway

Sending ==
    \/ \E kind \in Kinds, d \in Devices \cup {None} : Owes(kind, d)
    \/ SendBegins
    \/ CallArrives
    \/ CallAnswered
    \/ CallLost

Next == World \/ Holding \/ Sending

Spec == Init /\ [][Next]_vars

\* The timers fire, what is awaited ends or is lost, the master comes back and
\* the node is started again.
Fairness ==
    /\ WF_vars(MasterBack) /\ WF_vars(Starts) /\ WF_vars(~up /\ StartsAway)
    /\ WF_vars(Asks("refresh")) /\ WF_vars(Asks("setup"))
    /\ \A a \in Askers : SF_vars(Hands(a))
    /\ WF_vars(HoldSkips) /\ WF_vars(HoldBegins) /\ WF_vars(HoldEnds)
    /\ \A d \in Devices : WF_vars(HoldCloses(d))
    /\ WF_vars(ForgetBegins) /\ WF_vars(Forgets)
    /\ WF_vars(SendBegins) /\ WF_vars(CallArrives) /\ WF_vars(CallAnswered)

FairSpec == Spec /\ Fairness

-----------------------------------------------------------------------------
(* Properties.                                                             *)

Lists == [mine : SUBSET Devices, now : SUBSET Devices, listed : SUBSET Devices,
          gone : SUBSET Devices, keys : Devices \cup {None}]

\* Types, bounds, and what the node's database holds together: keys only of
\* devices kept, and of each kind no more owed than is kept owed.
TypeOK ==
    /\ home \in Homes /\ up \in BOOLEAN /\ word \in [Devices -> Words] /\ above \subseteq Devices
    /\ running \in {"down", "starting", "on"}
    /\ kept \subseteq home /\ keyed \subseteq kept /\ holdNow \subseteq Devices
    /\ asked \in [Askers -> Lists \cup {None}]
    /\ lists \in Seq(Lists) /\ Len(lists) <= MaxLists
    /\ hold # None => hold \in [list : Lists, closing : SUBSET Devices]
    /\ saving \in Devices \cup {None}
    /\ forgetting # None => forgetting \in [device : Devices, closing : BOOLEAN]
    /\ owed \in Seq([kind : Kinds, device : Devices \cup {None}])
    /\ queue \cup taken \cup refused \cup trimmed \subseteq DOMAIN owed
    /\ store \in [Devices -> {0} \cup DOMAIN owed]
    /\ send # None => send \in [calls : Seq(SUBSET DOMAIN owed) \ {<<>>},
                                said : {"nothing", "taken", "refused"}]
    /\ \A kind \in Kinds : Cardinality({i \in queue : owed[i].kind = kind}) <= KeepOwed[kind]

\* What this node owes its master is not lost with a call, an answer or a
\* restart: it is queued still, unless the master took it, refused it for
\* good, or newer of its kind took its place (send, SendQueue).
NoneLost == DOMAIN owed = queue \cup taken \cup refused \cup trimmed

\* What the master keeps of a device's store never goes back to what its
\* session kept before, however often a call is sent again (#send).
StoreNeverBack == [][\A d \in Devices : store[d] <= store'[d]]_vars

\* The keys of a device, which only this node has, go only on the master's
\* word that it removed the device or has it by no way of this node's, said
\* since the keys were given, or before then and not heeded yet: a list on its
\* way, a removal under way (#hold, forget): never because a list does not name it.
KeysKept == [][\A d \in keyed \ keyed' : d \in told]_vars

\* However the lists crossed and whatever was lost, in the end what this node
\* holds is what the master says is its to hold: it lets go of a device that
\* a way above reaches, and takes over one that none does (hold).  Not where a
\* device was forgotten while the list that still has it was noted as held
\* (`crossed`): then nothing is written until a list says otherwise.
HoldsAsListed == <>[](crossed \/ holdNow = Mine \ above)

\* What is owed leaves the queue in the end: taken, or refused for good.
Drains == <>[](queue = {})

=============================================================================
