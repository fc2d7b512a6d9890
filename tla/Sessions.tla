------------------------------ MODULE Sessions ------------------------------
(* The sessions a holder keeps open (holder/src/sessions.ts, open.ts,      *)
(* watch.ts): one sync after another brings what is open in line with what *)
(* the holder was told, while a close, a look round (check) and a device   *)
(* that answers as another go on beside it.  A device is reached directly, *)
(* or through a bridge, which is itself a device.                          *)
EXTENDS Integers, Sequences, FiniteSets

CONSTANTS
    Devices, Ways,
    Order,        \* the devices as the catalog lists them
    NoWay,        \* no way, and of a way: through no bridge
    Of,           \* the device a way reaches
    Through,      \* the bridge a way goes through, or NoWay
    Place,        \* a way's place in its device's list, the first preferred
    Held,         \* the direct ways that are this node's
    Spotty,       \* the ways whose transport may be unavailable
    Flaky,        \* the ways whose channel may go down
    Astray,       \* the ways that may come to lead to another device
    SigningIn,    \* the devices that may ask a person to sign in again
    MaxMoves,     \* bound: calls to the holder, its being stopped among them
    MaxTurns,     \* bound: what befalls its ways
    MaxClosing,   \* bound: a device opens again while fewer of its sessions than this are closing
    MaxLooks      \* bound: a look begins while fewer of the syncs of looks than this wait their turn

WaysOf(d) == {w \in Ways : Of[w] = d}

ASSUME HomeAssumption ==
    /\ IsFiniteSet(Devices) /\ IsFiniteSet(Ways) /\ NoWay \notin Ways \cup Devices
    /\ Order \in Seq(Devices) /\ {Order[i] : i \in DOMAIN Order} = Devices
    /\ Of \in [Ways -> Devices] /\ Through \in [Ways -> Devices \cup {NoWay}]
    /\ Place \in [Ways -> Nat]
    \* One that nothing reaches is refused at every sync, whatever happens: none is here.
    /\ \A d \in Devices : WaysOf(d) # {}
    /\ \A w, v \in Ways : Of[w] = Of[v] /\ w # v => Place[w] # Place[v]
    /\ UNION {Held, Spotty, Flaky, Astray} \subseteq Ways
    \* A bridge is not itself behind a bridge: the code looks four deep.
    /\ \A w \in Ways : Through[w] # NoWay => \A v \in WaysOf(Through[w]) : Through[v] = NoWay
    /\ SigningIn \subseteq Devices
    /\ {MaxMoves, MaxTurns, MaxClosing, MaxLooks} \subseteq Nat

VARIABLES
    catalog,   \* what its owner has: each device kept, paused or removed
    first,     \* the way each device's owner prefers
    queue,     \* the syncs asked for and not begun, each with what it was given
    sync,      \* the sync under way
    records,   \* what the last sync begun was given
    open,      \* #open: each device's session
    opening,   \* the openings under way
    closing,   \* the sessions being closed
    refusal,   \* #refusals: why a device has no session
    down, avoided,  \* Failover's #down and #avoid, by way
    look,      \* the look round under way (check)
    callers,   \* the calls that closed a device and will then ask for a sync
    watching,  \* whether the timer of looks runs
    stop,      \* whether the holder was told to stop (closeAll)
    up, astray,     \* the world: ways that connect, ways that lead elsewhere
    moves, turns,
    asked,     \* ghost: the devices a person was asked to sign in to again, and has not
    alive      \* ghost: the sessions opened and not closed yet

manager == <<queue, sync, records, open, opening, closing, refusal, down, avoided,
             look, callers, watching, stop, asked, alive>>
world   == <<catalog, first, up, astray>>
vars    == <<manager, world, moves, turns>>

States   == {"kept", "paused", "removed"}
Refusals == {"none", "paused", "offline", "retry", "signin", "elsewhere"}
Shut     == [way |-> NoWay, epoch |-> 0, link |-> 0, over |-> 0]
NotOpening == [way |-> NoWay, link |-> 0, asked |-> FALSE]
NoSync   == [at |-> "idle", left |-> <<>>, wanted |-> [d \in Devices |-> NoWay],
             tried |-> {}, round |-> 0, waits |-> 0]
NoLook   == [at |-> "idle", left |-> {}, changed |-> FALSE, waits |-> 0]
NotStopped == [at |-> "no", after |-> {}]

\* BRIDGE_DEPTH.
BridgeDepth == 4

IsOpen(d)  == open[d].epoch > 0
Bridged(w) == Through[w] # NoWay
\* The opening of a way's bridge, and 0 when it is not open or there is none.
BridgeOf(w) == IF Bridged(w) THEN open[Through[w]].epoch ELSE 0

\* As it would be if a way through a bridge were the holder's, the bridge open or not.
MineThough(d) == {w \in WaysOf(d) : Bridged(w) \/ w \in Held}

\* The ways a device has that are this holder's to use.
Mine(d) == {w \in WaysOf(d) : IF Bridged(w) THEN IsOpen(Through[w]) ELSE w \in Held}

Rank(d, w) == IF w = first[d] THEN -1 ELSE Place[w]
Best(d, S) == CHOOSE w \in S : \A v \in S : Rank(d, w) <= Rank(d, v)

\* Of its ways, those not passed over, and whose transport is not out.
\* As it would be if a way that failed were passed over though it is the only one.
UsableStrictly(d, out) == {w \in Mine(d) : w \notin avoided} \ out

Usable(d, out) == {w \in Mine(d) : w \in avoided => Mine(d) = {w}} \ out
-----------------------------------------------------------------------------
(* Closing: a session is the manager's no more at once; what goes through  *)
(* it closes first, then it does.                                          *)

Members(d) == {m \in Devices : IsOpen(m) /\ Through[open[m].way] = d}

\* What closing a device's session adds to those being closed.
Closings(d, elsewhere) ==
    IF ~IsOpen(d) THEN {}
    ELSE {[dev |-> d, epoch |-> open[d].epoch, behind |-> Members(d),
           after |-> {open[m].epoch : m \in Members(d)}, elsewhere |-> elsewhere]}
         \cup {[dev |-> m, epoch |-> open[m].epoch, behind |-> {}, after |-> {},
                elsewhere |-> FALSE] : m \in Members(d)}

\* #shut, up to its first await.
Shutting(d, elsewhere) ==
    /\ closing' = closing \cup Closings(d, elsewhere)
    /\ open' = [x \in Devices |-> IF x \in {d} \cup (IF IsOpen(d) THEN Members(d) ELSE {}) THEN Shut ELSE open[x]]

\* close: and why it had none is forgotten.
Closing(d, elsewhere) ==
    /\ Shutting(d, elsewhere)
    /\ refusal' = [refusal EXCEPT ![d] = "none"]

StillClosing(epoch) == \E c \in closing : c.epoch = epoch

\* A session is closed.  The last of those through a bridge says for each why
\* it is closed, unless it says so already; one found to be another device's
\* is refused.
Closed(c) ==
    /\ c \in closing /\ c.after = {}
    /\ LET told == UNION {x.behind : x \in {y \in closing : y.after = {c.epoch}}}
       IN  refusal' = [d \in Devices |->
               IF c.elsewhere /\ d = c.dev THEN "elsewhere"
               ELSE IF d \in told /\ refusal[d] = "none" THEN "offline"
               ELSE refusal[d]]
    /\ closing' = {[x EXCEPT !.after = @ \ {c.epoch}] : x \in closing \ {c}}
    /\ alive' = alive \ {c.epoch}
    /\ UNCHANGED <<queue, sync, records, open, opening, down, avoided, look, callers,
                   watching, stop, asked, world, moves, turns>>
-----------------------------------------------------------------------------
(* A sync: in rounds, each device's way is chosen, what is open otherwise  *)
(* is closed, and what is not open is opened, bridges before what is       *)
(* behind them.                                                            *)

AskSync(list, by) == queue' = Append(queue, [list |-> list, by |-> by])

SyncBegins ==
    /\ sync.at = "idle" /\ queue # <<>>
    /\ records' = Head(queue).list
    /\ sync' = [NoSync EXCEPT !.at = "choosing", !.left = Order]
    /\ queue' = Tail(queue)
    /\ UNCHANGED <<open, opening, closing, refusal, down, avoided, look, callers,
                   watching, stop, asked, alive, world, moves, turns>>

BehindPaused(d) ==
    \A w \in WaysOf(d) : Bridged(w) /\ records[Through[w]] = "paused"

\* A device's way is chosen (#choose), or why it has none.
Choose(d, out) ==
    /\ sync.at = "choosing" /\ sync.left # <<>> /\ d = Head(sync.left)
    /\ LET usable == Usable(d, out)
           chosen == records[d] = "kept" /\ ~BehindPaused(d) /\ usable # {}
       IN  /\ sync' = [sync EXCEPT !.left = Tail(@),
                           !.wanted[d] = IF chosen THEN Best(d, usable) ELSE NoWay]
           /\ refusal' = [refusal EXCEPT ![d] =
                 IF chosen \/ records[d] = "removed" THEN @
                 ELSE IF records[d] = "paused" \/ BehindPaused(d) THEN "paused"
                 ELSE IF Mine(d) = {} THEN "offline"
                 ELSE "retry"]
    /\ asked' = IF records[d] = "kept" THEN asked ELSE asked \ {d}
    /\ UNCHANGED <<queue, records, open, opening, closing, down, avoided, look, callers,
                   watching, stop, alive, world, moves, turns>>

\* As it would be if what is not wanted any more were left open.
StaleIfMoved(d) ==
    sync.wanted[d] # NoWay /\ (open[d].way # sync.wanted[d] \/ open[d].over # BridgeOf(open[d].way))

\* Whether a session is not what this sync wants it to be (its fingerprint).
Stale(d) ==
    \/ sync.wanted[d] = NoWay
    \/ open[d].way # sync.wanted[d]
    \/ open[d].over # BridgeOf(open[d].way)

Waited == sync.waits = 0 \/ ~StillClosing(sync.waits)

ShutStale(d) ==
    /\ sync.at = "choosing" /\ sync.left = <<>> /\ Waited
    /\ IsOpen(d) /\ Stale(d)
    /\ Shutting(d, FALSE)
    /\ sync' = [sync EXCEPT !.waits = open[d].epoch]
    /\ UNCHANGED <<queue, records, opening, refusal, down, avoided, look, callers,
                   watching, stop, asked, alive, world, moves, turns>>

\* As it would be if what waits on a person were tried again with the rest.
ToOpenAnyway == {d \in Devices : sync.wanted[d] # NoWay /\ ~IsOpen(d)}

\* As it would be if what is open were opened again.
ToOpenAgain == {d \in Devices : sync.wanted[d] # NoWay /\ refusal[d] # "signin"}

\* What this round opens: not what waits on a person.
ToOpen == {d \in Devices : sync.wanted[d] # NoWay /\ ~IsOpen(d) /\ refusal[d] # "signin"}

\* #openDevice, up to its first await: why a device was not open is let go.  One reached
\* through a bridge asks for it only once its code has loaded.
Opening(S) ==
    opening' = [d \in Devices |->
        IF d \in S THEN [way |-> sync.wanted[d], link |-> 0, asked |-> Bridged(sync.wanted[d])]
        ELSE opening[d]]

OpenDirect ==
    /\ sync.at = "choosing" /\ sync.left = <<>> /\ Waited
    /\ \A d \in Devices : IsOpen(d) => ~Stale(d)
    /\ LET direct == {d \in ToOpen : ~Bridged(sync.wanted[d])} IN
           /\ Opening(direct)
           /\ refusal' = [d \in Devices |->
                 IF records[d] = "removed" \/ d \in direct THEN "none" ELSE refusal[d]]
           /\ sync' = [sync EXCEPT !.at = "direct", !.tried = ToOpen, !.waits = 0]
    /\ UNCHANGED <<queue, records, open, closing, down, avoided, look, callers,
                   watching, stop, asked, alive, world, moves, turns>>

NoneOpening == \A d \in Devices : opening[d] = NotOpening

OpenMembers ==
    /\ sync.at = "direct" /\ NoneOpening
    /\ LET members == {d \in sync.tried : BridgeOf(sync.wanted[d]) > 0} IN
           /\ Opening(members)
           /\ refusal' = [d \in Devices |-> IF d \in members THEN "none" ELSE refusal[d]]
           /\ sync' = [sync EXCEPT !.at = "members"]
    /\ UNCHANGED <<queue, records, open, closing, down, avoided, look, callers,
                   watching, stop, asked, alive, world, moves, turns>>

\* The bridges this round opened, or tried to and found open.
Bridges == {d \in sync.tried : IsOpen(d)}

\* As it would be if a round followed as long as anything is not open.
AnotherRoundAlways == \E d \in Devices : records[d] # "removed" /\ ~IsOpen(d)

AnotherRound ==
    /\ sync.round < BridgeDepth
    /\ \E d \in Devices :
          /\ records[d] # "removed" /\ ~IsOpen(d)
          /\ \E w \in WaysOf(d) : Bridged(w) /\ Through[w] \in Bridges

RoundEnds ==
    /\ sync.at = "members" /\ NoneOpening
    /\ IF AnotherRound
       THEN /\ sync' = [NoSync EXCEPT !.at = "choosing", !.left = Order, !.round = sync.round + 1]
            /\ UNCHANGED watching
       ELSE /\ sync' = NoSync
            /\ watching' = TRUE
    /\ UNCHANGED <<queue, records, open, opening, closing, refusal, down, avoided, look, callers,
                   stop, asked, alive, world, moves, turns>>
-----------------------------------------------------------------------------
(* Opening one device (#openDevice and openDevice).                        *)

\* Failover's note: whether a way reaches its device now.
Noted(w, connected) == IF connected THEN down \ {w} ELSE down \cup {w}

\* Its code has loaded: over which opening of its bridge.
Asks(d) ==
    /\ opening[d].asked /\ BridgeOf(opening[d].way) > 0
    /\ opening' = [opening EXCEPT ![d].asked = FALSE, ![d].link = BridgeOf(opening[d].way)]
    /\ UNCHANGED <<queue, sync, records, open, closing, refusal, down, avoided, look, callers,
                   watching, stop, asked, alive, world, moves, turns>>

(* The opening it is: counted up in the code, and here a number that nothing refers to any   *)
(* more (one more than there are leaves one over), which is as good to tell openings apart by. *)
Epochs == {open[d].epoch : d \in Devices} \cup {open[d].link : d \in Devices}
          \cup {open[d].over : d \in Devices} \cup {opening[d].link : d \in Devices}
          \cup {c.epoch : c \in closing} \cup {c.after : c \in callers} \cup stop.after
          \cup {sync.waits, look.waits}
NewEpoch == CHOOSE e \in 1 .. Cardinality(Epochs) + 1 : e \notin Epochs

\* Its session stands, known by what it is open over now.
Opened(d) ==
    /\ opening[d].way # NoWay /\ ~opening[d].asked
    /\ Cardinality({c \in closing : c.dev = d}) < MaxClosing
    /\ LET w == opening[d].way IN
           /\ open' = [open EXCEPT ![d] = [way |-> w, epoch |-> NewEpoch,
                                           link |-> opening[d].link, over |-> BridgeOf(w)]]
           /\ down' = Noted(w, Bridged(w) \/ w \in up)
    /\ opening' = [opening EXCEPT ![d] = NotOpening]
    /\ alive' = alive \cup {NewEpoch}
    /\ UNCHANGED <<queue, sync, records, closing, refusal, avoided, look, callers,
                   watching, stop, asked, world, moves, turns>>

\* Why an opening failed: tried again later, or when a person signed in.
Failure(d) == {"retry"} \cup (IF d \in SigningIn THEN {"signin"} ELSE {})

OpenFails(d, why) ==
    /\ opening[d].way # NoWay
    /\ opening[d].asked => BridgeOf(opening[d].way) = 0 /\ why # "signin"
    /\ why \in Failure(d)
    /\ opening' = [opening EXCEPT ![d] = NotOpening]
    /\ refusal' = [refusal EXCEPT ![d] = why]
    /\ asked' = IF why = "signin" THEN asked \cup {d} ELSE asked
    /\ UNCHANGED <<queue, sync, records, open, closing, down, avoided, look, callers,
                   watching, stop, alive, world, moves, turns>>
-----------------------------------------------------------------------------
(* A look round (check), and a device heard to be another one (#verify).   *)

\* A look under way waits for no session to close.
LookGoesOn == look.at = "looking" /\ (look.waits = 0 \/ ~StillClosing(look.waits))

\* The next device's way is chosen once a transport has started, or at once.
StartsTransport(d) ==
    records[d] = "kept" /\ ~BehindPaused(d) /\ \E w \in Mine(d) : ~Bridged(w)

\* A sync waits for no transport to start, no session to close or to open.
SyncGoesOn ==
    \/ sync.at = "idle" /\ queue # <<>>
    \/ sync.at = "choosing" /\ IF sync.left = <<>> THEN Waited ELSE ~StartsTransport(Head(sync.left))
    \/ sync.at \in {"direct", "members"} /\ NoneOpening

(* What waits for nothing goes on before any timer, call or channel is heard: the one thread *)
(* comes to those once no promise is resolved that something awaits.                         *)
Calm == ~SyncGoesOn /\ ~LookGoesOn

\* The sessions there are to look at, each by the way it is open.
InOpen == {<<d, open[d].way>> : d \in {x \in Devices : IsOpen(x)}}

OfLooks == {i \in DOMAIN queue : queue[i].by = "look"}

(* The timer of looks comes, whether or not an earlier look's sync has begun or ended; one   *)
(* that still goes round is over by then (it waits for closings, and the timer for longer).  *)
(* Whether any refusal is due depends on the time: it may be, when one can be.  With nothing *)
(* open the look awaits nothing, and what is due is synced at once.                          *)
LookBegins(due) ==
    /\ watching /\ look.at = "idle" /\ Calm /\ Cardinality(OfLooks) < MaxLooks
    /\ due => \E d \in Devices : refusal[d] = "retry"
    /\ IF InOpen = {}
       THEN due /\ AskSync(records, "look") /\ UNCHANGED look
       ELSE /\ look' = [NoLook EXCEPT !.at = "looking", !.changed = due, !.left = InOpen]
            /\ UNCHANGED queue
    /\ UNCHANGED <<sync, records, open, opening, closing, refusal, down, avoided,
                   callers, watching, stop, asked, alive, world, moves, turns>>

Looking(e) == LookGoesOn /\ e \in look.left

\* As it was when the look began, and with nothing to be done about it.
LooksWell(e) ==
    /\ Looking(e)
    /\ look' = [look EXCEPT !.left = @ \ {e}, !.waits = 0]
    /\ UNCHANGED <<queue, sync, records, open, opening, closing, refusal, down, avoided,
                   callers, watching, stop, asked, alive, world, moves, turns>>

LooksAstray(e) ==
    /\ Looking(e) /\ IsOpen(e[1]) /\ open[e[1]].way \in astray
    /\ Closing(e[1], TRUE)
    /\ look' = [look EXCEPT !.left = @ \ {e}, !.waits = open[e[1]].epoch]
    /\ UNCHANGED <<queue, sync, records, opening, down, avoided, callers, watching, stop,
                   asked, alive, world, moves, turns>>

\* Down too long, and there is another: passed over for a while (due).
GivesWay(e) ==
    LET d == e[1]
        w == e[2]
    IN  /\ Looking(e) /\ IsOpen(d) /\ open[d].way \notin astray
        /\ w \in down /\ Mine(d) \ {w} # {}
        /\ avoided' = avoided \cup {w}
        /\ down' = down \ {w}
        /\ Closing(d, FALSE)
        /\ look' = [look EXCEPT !.left = @ \ {e}, !.changed = TRUE, !.waits = open[d].epoch]
        /\ UNCHANGED <<queue, sync, records, opening, callers, watching, stop, asked, alive,
                       world, moves, turns>>

\* What it was given last is given again.
LookEnds ==
    /\ LookGoesOn /\ look.left = {}
    /\ IF look.changed THEN AskSync(records, "look") ELSE UNCHANGED queue
    /\ look' = NoLook
    /\ UNCHANGED <<sync, records, open, opening, closing, refusal, down, avoided, callers,
                   watching, stop, asked, alive, world, moves, turns>>

PassedOver(w) ==
    /\ w \in avoided
    /\ avoided' = avoided \ {w}
    /\ UNCHANGED <<queue, sync, records, open, opening, closing, refusal, down, look, callers,
                   watching, stop, asked, alive, world, moves, turns>>

\* Its first answer, or a later one, says it is another device.
Verified(d) ==
    /\ IsOpen(d) /\ open[d].way \in astray
    /\ Closing(d, TRUE)
    /\ UNCHANGED <<queue, sync, records, opening, down, avoided, look, callers, watching, stop,
                   asked, alive, world, moves, turns>>
-----------------------------------------------------------------------------
(* What is asked of the holder, and what befalls its ways.                 *)

Calls == Calm /\ moves < MaxMoves /\ moves' = moves + 1 /\ UNCHANGED turns

\* Paused, resumed, removed or brought back: written, then synced.
Change(d, state) ==
    /\ Calls /\ stop.at = "no" /\ catalog[d] # state
    /\ catalog[d] = "removed" => state = "kept"
    /\ catalog' = [catalog EXCEPT ![d] = state]
    /\ AskSync(catalog', "call")
    /\ asked' = asked \ {d}
    /\ UNCHANGED <<first, up, astray, sync, records, open, opening, closing, refusal, down,
                   avoided, look, callers, watching, stop, alive>>

Prefer(w) ==
    /\ Calls /\ stop.at = "no" /\ first[Of[w]] # w
    /\ first' = [first EXCEPT ![Of[w]] = w]
    /\ AskSync(catalog, "call")
    /\ UNCHANGED <<catalog, up, astray, sync, records, open, opening, closing, refusal, down,
                   avoided, look, callers, watching, stop, asked, alive>>

\* Its secrets given anew: closed, and then synced.
SetSecrets(d) ==
    /\ Calls /\ stop.at = "no"
    /\ Closing(d, FALSE)
    /\ asked' = asked \ {d}
    /\ callers' = callers \cup {[dev |-> d, after |-> open[d].epoch]}
    /\ UNCHANGED <<world, queue, sync, records, opening, down, avoided, look, watching, stop,
                   alive>>

CallerAsks(c) ==
    /\ c \in callers /\ ~StillClosing(c.after)
    /\ AskSync(catalog, "call")
    /\ callers' = callers \ {c}
    /\ UNCHANGED <<sync, records, open, opening, closing, refusal, down, avoided, look,
                   watching, stop, asked, alive, world, moves, turns>>

Befalls == Calm /\ turns < MaxTurns /\ turns' = turns + 1 /\ UNCHANGED moves

\* A way's channel connects or drops: whoever has it open is told.
Turns(w) ==
    /\ Befalls /\ w \in Flaky
    /\ up' = IF w \in up THEN up \ {w} ELSE up \cup {w}
    /\ down' = IF open[Of[w]].way = w THEN Noted(w, w \notin up) ELSE down
    /\ UNCHANGED <<catalog, first, astray, queue, sync, records, open, opening, closing, refusal,
                   avoided, look, callers, watching, stop, asked, alive>>

Strays(w) ==
    /\ Befalls /\ w \in Astray \ astray
    /\ astray' = astray \cup {w}
    /\ UNCHANGED <<catalog, first, up, manager>>

\* closeAll: the timers stop, every session closes.
Stop ==
    /\ Calls /\ stop.at = "no"
    /\ watching' = FALSE
    /\ LET roots == {d \in Devices : IsOpen(d) /\ BridgeOf(open[d].way) = 0} IN
           closing' = closing \cup UNION {Closings(d, FALSE) : d \in roots}
    /\ open' = [d \in Devices |-> Shut]
    /\ refusal' = [d \in Devices |-> IF IsOpen(d) THEN "none" ELSE refusal[d]]
    /\ stop' = [at |-> "closing", after |-> {open[d].epoch : d \in Devices}]
    /\ UNCHANGED <<world, queue, sync, records, opening, down, avoided, look, callers,
                   asked, alive>>

Stopped ==
    /\ stop.at = "closing" /\ \A e \in stop.after : ~StillClosing(e)
    /\ stop' = [at |-> "done", after |-> {}]
    /\ refusal' = [d \in Devices |-> "none"]
    /\ asked' = {}
    /\ UNCHANGED <<world, queue, sync, records, open, opening, closing, down, avoided, look,
                   callers, watching, alive, moves, turns>>
-----------------------------------------------------------------------------
\* The holder starts: everything is told, nothing is open.
Init ==
    /\ catalog \in [Devices -> {"kept", "paused"}]
    /\ first = [d \in Devices |-> CHOOSE w \in WaysOf(d) : \A v \in WaysOf(d) : Place[w] <= Place[v]]
    /\ queue = <<[list |-> catalog, by |-> "call"]>>
    /\ sync = NoSync
    /\ records = [d \in Devices |-> "removed"]
    /\ open = [d \in Devices |-> Shut]
    /\ opening = [d \in Devices |-> NotOpening]
    /\ closing = {} /\ refusal = [d \in Devices |-> "none"]
    /\ down = {} /\ avoided = {} /\ look = NoLook /\ callers = {}
    /\ watching = FALSE /\ stop = NotStopped
    /\ up = Ways /\ astray = {} /\ moves = 0 /\ turns = 0
    /\ asked = {} /\ alive = {}

Next ==
    \/ \E c \in closing : Closed(c)
    \/ SyncBegins \/ OpenDirect \/ OpenMembers \/ RoundEnds
    \/ \E d \in Devices : ShutStale(d) \/ Asks(d) \/ Opened(d) \/ Verified(d) \/ SetSecrets(d)
    \/ \E d \in Devices, out \in SUBSET Spotty : Choose(d, out)
    \/ \E d \in Devices, why \in Refusals : OpenFails(d, why)
    \/ \E due \in BOOLEAN : LookBegins(due)
    \/ \E e \in look.left : LooksWell(e) \/ LooksAstray(e) \/ GivesWay(e)
    \/ LookEnds
    \/ \E w \in Ways : PassedOver(w) \/ Prefer(w) \/ Turns(w) \/ Strays(w)
    \/ \E d \in Devices, state \in States : Change(d, state)
    \/ \E c \in callers : CallerAsks(c)
    \/ Stop \/ Stopped

Spec == Init /\ [][Next]_vars

\* What each that runs beside the others does next.
Syncing ==
    \/ SyncBegins \/ OpenDirect \/ OpenMembers \/ RoundEnds
    \/ \E d \in Devices : ShutStale(d) \/ \E out \in SUBSET Spotty : Choose(d, out)
Looks == LookEnds \/ \E e \in look.left : LooksWell(e) \/ LooksAstray(e) \/ GivesWay(e)
Tries(d) == Asks(d) \/ Opened(d) \/ \E why \in Refusals : OpenFails(d, why)

(* Openings and closings end.  The session's own part of each is timed (open.ts:280, 302);   *)
(* that loading a type (sessions.ts:546), starting a transport (511) and opening or closing  *)
(* a channel (open.ts:195, 303) end too is assumed: the code does not time them.  A          *)
(* transport is not out for ever, nor does an opening that can succeed always fail; the      *)
(* timer of looks finds what is due in the end.                                              *)
Fairness ==
    /\ WF_vars(Syncing) /\ WF_vars(Looks) /\ WF_vars(\E c \in callers : CallerAsks(c))
    /\ SF_vars(LookBegins(TRUE))
    /\ \A d \in Devices :
          /\ WF_vars(Tries(d)) /\ SF_vars(Opened(d)) /\ SF_vars(Choose(d, {}))
          /\ WF_vars(\E c \in closing : c.dev = d /\ Closed(c))
FairSpec == Spec /\ Fairness
-----------------------------------------------------------------------------
(* What some of the promises below ask of a home.                          *)

(* No address of a bridge comes to lead to another device.  Where one does, the bridge that  *)
(* answered as another is closed (sessions.ts:635) and nothing is synced: what was opening   *)
(* over it stays open over a bridge that is not.                                             *)
BridgesNeverAstray == \A w \in Ways : Bridged(w) => WaysOf(Through[w]) \cap Astray = {}

(* Each bridge has one address, whose transport is never out and which never comes to lead   *)
(* to another device.  Where a bridge is lost in the sync that chose it for a device, that   *)
(* is not opened in it, and nothing says why until something is synced again.                *)
LastingBridges ==
    \A w \in Ways : Bridged(w) =>
        /\ \A u, v \in WaysOf(Through[w]) : u = v
        /\ WaysOf(Through[w]) \cap (Spotty \cup Astray) = {}

(* A device that may ask a person to sign in has a way of this holder's, through no bridge,  *)
(* whose transport is never out and whose channel stays, and none of its ways comes to lead  *)
(* to another device.  Otherwise a sync that finds no way says why anew ("retry"), or a      *)
(* session that is closed as another device's does ("elsewhere"), over what waits on the     *)
(* person (sessions.ts:401-403, 635-636): and it is then tried again without them.           *)
SteadyWays ==
    \A d \in SigningIn :
        /\ \E w \in WaysOf(d) : ~Bridged(w) /\ w \in Held \ (Spotty \cup Flaky)
        /\ WaysOf(d) \cap Astray = {}
-----------------------------------------------------------------------------
(* What the holder promises.                                               *)

TypeOK ==
    /\ catalog \in [Devices -> States] /\ records \in [Devices -> States]
    /\ first \in [Devices -> Ways]
    /\ queue \in Seq([list : [Devices -> States], by : {"call", "look"}])
    /\ sync \in [at : {"idle", "choosing", "direct", "members"},
                 left : Seq(Devices), wanted : [Devices -> Ways \cup {NoWay}],
                 tried : SUBSET Devices, round : 0 .. BridgeDepth, waits : Nat]
    /\ open \in [Devices -> [way : Ways \cup {NoWay}, epoch : Nat, link : Nat, over : Nat]]
    /\ opening \in [Devices -> [way : Ways \cup {NoWay}, link : Nat, asked : BOOLEAN]]
    /\ \A c \in closing : c \in [dev : Devices, epoch : Nat, behind : SUBSET Devices,
                                 after : SUBSET Nat, elsewhere : BOOLEAN]
    /\ refusal \in [Devices -> Refusals]
    /\ down \cup avoided \cup up \cup astray \subseteq Ways
    /\ look \in [at : {"idle", "looking"}, left : SUBSET (Devices \X Ways),
                 changed : BOOLEAN, waits : Nat]
    /\ \A c \in callers : c \in [dev : Devices, after : Nat]
    /\ watching \in BOOLEAN
    /\ stop \in [at : {"no", "closing", "done"}, after : SUBSET Nat]
    /\ {moves, turns} \subseteq Nat
    /\ asked \subseteq Devices /\ alive \subseteq Nat

\* Nothing under way, nothing asked for.
Quiet ==
    /\ sync.at = "idle" /\ queue = <<>> /\ look.at = "idle" /\ callers = {}
    /\ closing = {} /\ stop.at = "no"

(* No session is lost sight of (sessions.ts:596, 684-701): each that was opened and is not   *)
(* closed yet is the one its device has, or is being closed.                                 *)
NoneForgotten ==
    alive = {open[d].epoch : d \in {x \in Devices : IsOpen(x)}} \cup {c.epoch : c \in closing}

(* What is reached through a bridge is open over the session the bridge has now              *)
(* (sessions.ts:417-419, 437-441), however the two were closed, reopened and raced.          *)
MembersFollow ==
    Quiet => \A d \in Devices : IsOpen(d) /\ Bridged(open[d].way) =>
        open[d].link > 0 /\ open[d].link = BridgeOf(open[d].way)

\* The bridge of one of its ways is kept no more: a way chosen over it in the sync that lets
\* it go is not opened, and nothing says why.
BridgeLetGo(d) == \E w \in WaysOf(d) : Bridged(w) /\ records[Through[w]] # "kept"

(* When all is settled, each device is as the last sync was told: open only if kept, and by  *)
(* a way this holder has; and if it is not open, it says why (sessions.ts:50-54), its bridge *)
(* being kept.                                                                               *)
SettledAsTold ==
    Quiet => \A d \in Devices :
        /\ IsOpen(d) => records[d] = "kept" /\ open[d].way \in Mine(d)
        /\ records[d] # "removed" /\ ~BridgeLetGo(d) => IsOpen(d) \/ refusal[d] # "none"

(* What waits on a person to sign in is not tried again by the syncs and looks that follow,  *)
(* until that person did something (sessions.ts:420).                                        *)
WaitsOnPerson == \A d \in asked : opening[d] = NotOpening /\ ~IsOpen(d)

(* What can mend itself is tried again (sessions.ts:51-53), until it opens, or waits on      *)
(* somebody, or is no longer wanted.                                                         *)
MendsItself ==
    \A d \in Devices :
        refusal[d] = "retry" ~>
            IsOpen(d) \/ refusal[d] \in {"signin", "elsewhere", "offline", "paused"}
            \/ records[d] # "kept" \/ BridgeLetGo(d) \/ stop.at # "no"
=============================================================================
