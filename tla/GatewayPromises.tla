-------------------------- MODULE GatewayPromises --------------------------
(***************************************************************************)
(* What the gateway promises of the commands it sends, proved for every    *)
(* home: no two come closer than the pause owed, a run keeps to its        *)
(* allowance, the ledger says what happened, and what is verified of a     *)
(* command through links was so after it was sent.                         *)
(*                                                                         *)
(* The promises are about the sends that may have taken effect.  Their     *)
(* invariant ties what the gateway keeps to that sequence: the ledger is   *)
(* the time of the last send to each target, a run's counts are how many   *)
(* of them are its own, and while a send is open, what would be put back   *)
(* is what the sends before it say.                                        *)
(***************************************************************************)
EXTENDS GatewayProofs, SequenceTheorems

-----------------------------------------------------------------------------
(* Sequences of sends, and what adding one or taking the last back does.   *)

\* Which of the first n sends were a run's, to one part.
SwitchedIn(s, n, r, p) == {m \in 1..n : RunOf[s[m].caller] = r /\ s[m].on = p}

\* The time of the last of the first n sends to a target, or none.
MarkedIn(s, n, x, v) ==
    \/ v = Never /\ \A m \in 1..n : s[m].on # x
    \/ \E m \in 1..n : /\ s[m].on = x /\ v = s[m].at
                       /\ \A k \in 1..n : s[k].on = x => k <= m

OrderedIn(s, t) ==
    \A m \in 1..Len(s) : /\ s[m].at <= t
                         /\ \A n \in 1..Len(s) : m <= n => s[m].at <= s[n].at

GapIn(s, n) ==
    LET c == s[n].caller IN
    IF s[n].on \in Settings THEN WriteDwellOf(KindOf(c))
    ELSE IF /\ RunOf[c] # NoRun
            /\ \E m \in 1..(n - 1) : RunOf[s[m].caller] = RunOf[c] /\ s[m].on = s[n].on
         THEN RunGap
         ELSE DwellOf(SwitchesAs(c))

DwellIn(s) ==
    \A m, n \in 1..Len(s) :
        m < n /\ s[m].on = s[n].on => s[n].at - s[m].at >= GapIn(s, n)

\* All but the last.
Before(s) == SubSeq(s, 1, Len(s) - 1)

\* A send added is the last; those before it are as they were.
LEMMA Added ==
    ASSUME NEW s \in Seq(SentType), NEW e \in SentType
    PROVE  /\ Append(s, e) \in Seq(SentType)
           /\ Len(s) \in Nat /\ Len(Append(s, e)) = Len(s) + 1
           /\ Append(s, e)[Len(s) + 1] = e
           /\ \A m \in 1..Len(s) : Append(s, e)[m] = s[m]
OBVIOUS

\* The last send taken back, those before it are as they were.
LEMMA TakenBack ==
    ASSUME NEW s \in Seq(SentType), Len(s) > 0
    PROVE  /\ Before(s) \in Seq(SentType)
           /\ Len(s) \in Nat /\ Len(Before(s)) = Len(s) - 1
           /\ \A m \in 1..(Len(s) - 1) : Before(s)[m] = s[m]
<1> DEFINE n == Len(s) - 1
<1>1. Len(s) \in Nat /\ n \in Nat /\ n \in Int /\ 1 \in Int
  OBVIOUS
<1>2. \A i \in 1..n : s[i] \in SentType
  OBVIOUS
<1>h. n = Len(s) - 1
  OBVIOUS
<1> HIDE DEF n
<1>3. /\ SubSeq(s, 1, n) \in Seq(SentType)
      /\ Len(SubSeq(s, 1, n)) = IF 1 <= n THEN n - 1 + 1 ELSE 0
      /\ \A i \in 1..(n - 1 + 1) : SubSeq(s, 1, n)[i] = s[1 + i - 1]
  BY <1>1, <1>2, SubSeqProperties
<1>4. Len(SubSeq(s, 1, n)) = n
  BY <1>1, <1>3
<1>5. \A i \in 1..n : SubSeq(s, 1, n)[i] = s[i]
  BY <1>1, <1>3
<1> QED  BY <1>1, <1>h, <1>3, <1>4, <1>5 DEF Before

\* The first n sends are so many.
LEMMA CountFinite ==
    ASSUME NEW s, NEW n \in Nat, NEW r, NEW p
    PROVE  IsFiniteSet(SwitchedIn(s, n, r, p)) /\ Cardinality(SwitchedIn(s, n, r, p)) \in Nat
<1>1. IsFiniteSet(1..n)
  BY FS_Interval
<1>2. SwitchedIn(s, n, r, p) \subseteq 1..n
  BY DEF SwitchedIn
<1> QED  BY <1>1, <1>2, FS_Subset, FS_CardinalityType

\* None of no sends.
LEMMA CountNone ==
    ASSUME NEW s, NEW r, NEW p
    PROVE  Cardinality(SwitchedIn(s, 0, r, p)) = 0
<1>1. SwitchedIn(s, 0, r, p) = {}
  BY DEF SwitchedIn
<1> QED  BY <1>1, FS_EmptySet

\* One send more counts once for its run and its part, and for no other.
LEMMA CountAdded ==
    ASSUME NEW s, NEW n \in Nat, NEW r, NEW p
    PROVE  Cardinality(SwitchedIn(s, n + 1, r, p)) =
               Cardinality(SwitchedIn(s, n, r, p))
                 + (IF RunOf[s[n + 1].caller] = r /\ s[n + 1].on = p THEN 1 ELSE 0)
<1>1. IsFiniteSet(SwitchedIn(s, n, r, p)) /\ Cardinality(SwitchedIn(s, n, r, p)) \in Nat
  BY CountFinite
<1>2. CASE RunOf[s[n + 1].caller] = r /\ s[n + 1].on = p
  <2>1. SwitchedIn(s, n + 1, r, p) = SwitchedIn(s, n, r, p) \cup {n + 1}
    BY <1>2 DEF SwitchedIn
  <2>2. n + 1 \notin SwitchedIn(s, n, r, p)
    BY DEF SwitchedIn
  <2> QED  BY <1>1, <1>2, <2>1, <2>2, FS_AddElement
<1>3. CASE ~(RunOf[s[n + 1].caller] = r /\ s[n + 1].on = p)
  <2>1. SwitchedIn(s, n + 1, r, p) = SwitchedIn(s, n, r, p)
    BY <1>3 DEF SwitchedIn
  <2> QED  BY <1>1, <1>3, <2>1
<1> QED  BY <1>2, <1>3

\* What is counted among the first n sends is of those alone.
LEMMA CountSame ==
    ASSUME NEW s, NEW t, NEW n \in Nat, \A m \in 1..n : s[m] = t[m], NEW r, NEW p
    PROVE  SwitchedIn(s, n, r, p) = SwitchedIn(t, n, r, p)
BY DEF SwitchedIn

\* Some send is counted just when the count is above none.
LEMMA CountAbove ==
    ASSUME NEW s, NEW n \in Nat, NEW r, NEW p
    PROVE  Cardinality(SwitchedIn(s, n, r, p)) > 0
               <=> \E m \in 1..n : RunOf[s[m].caller] = r /\ s[m].on = p
<1>1. IsFiniteSet(SwitchedIn(s, n, r, p)) /\ Cardinality(SwitchedIn(s, n, r, p)) \in Nat
  BY CountFinite
<1>2. Cardinality(SwitchedIn(s, n, r, p)) = 0 <=> SwitchedIn(s, n, r, p) = {}
  BY <1>1, FS_EmptySet
<1> QED  BY <1>1, <1>2 DEF SwitchedIn

\* So is the mark.
LEMMA MarkSame ==
    ASSUME NEW s, NEW t, NEW n \in Nat, \A m \in 1..n : s[m] = t[m], NEW x, NEW v,
           MarkedIn(s, n, x, v)
    PROVE  MarkedIn(t, n, x, v)
BY DEF MarkedIn

\* A send to a target marks it, and no other.
LEMMA MarkAdded ==
    ASSUME NEW s, NEW n \in Nat, NEW x, NEW v
    PROVE  /\ s[n + 1].on = x => MarkedIn(s, n + 1, x, s[n + 1].at)
           /\ s[n + 1].on # x => (MarkedIn(s, n + 1, x, v) <=> MarkedIn(s, n, x, v))
<1>1. 1..(n + 1) = (1..n) \cup {n + 1} /\ n + 1 \notin 1..n
  OBVIOUS
<1>2. s[n + 1].on = x => MarkedIn(s, n + 1, x, s[n + 1].at)
  BY DEF MarkedIn
<1>3. s[n + 1].on # x => (MarkedIn(s, n + 1, x, v) <=> MarkedIn(s, n, x, v))
  BY <1>1 DEF MarkedIn
<1> QED  BY <1>2, <1>3

\* The pause owed before a send depends on it and those before it alone.
LEMMA GapSame ==
    ASSUME NEW s, NEW t, NEW n \in Nat, \A m \in 1..n : s[m] = t[m], n >= 1
    PROVE  GapIn(s, n) = GapIn(t, n)
<1>1. s[n] = t[n] /\ \A m \in 1..(n - 1) : s[m] = t[m]
  OBVIOUS
<1> QED  BY <1>1 DEF GapIn

\* Every pause is a natural number.
LEMMA GapType ==
    ASSUME NEW c \in Callers
    PROVE  WriteDwellOf(KindOf(c)) \in Nat /\ DwellOf(SwitchesAs(c)) \in Nat
<1>1. ASSUME NEW k PROVE DwellOf(k) \in Nat
  <2>1. CASE k = "automation"
    BY <2>1, TimesNat DEF DwellOf
  <2>2. CASE k = "agent"
    BY <2>2, TimesNat DEF DwellOf
  <2>3. CASE k # "automation" /\ k # "agent"
    BY <2>3, TimesNat DEF DwellOf
  <2> QED  BY <2>1, <2>2, <2>3
<1> QED  BY <1>1, TimesNat DEF WriteDwellOf

\* A send added in its time keeps every pause.
LEMMA DwellAdded ==
    ASSUME NEW s \in Seq(SentType), NEW e \in SentType, DwellIn(s),
           \A m \in 1..Len(s) :
               s[m].on = e.on => e.at - s[m].at >= GapIn(Append(s, e), Len(s) + 1)
    PROVE  DwellIn(Append(s, e))
<1> DEFINE t == Append(s, e)
<1>1. /\ Len(s) \in Nat /\ Len(t) = Len(s) + 1 /\ t[Len(s) + 1] = e
      /\ \A m \in 1..Len(s) : t[m] = s[m]
  BY Added
<1> HIDE DEF t
<1> SUFFICES ASSUME NEW m \in 1..Len(t), NEW n \in 1..Len(t), m < n, t[m].on = t[n].on
             PROVE  t[n].at - t[m].at >= GapIn(t, n)
  BY DEF DwellIn, t
<1>2. m \in 1..Len(s) /\ t[m] = s[m]
  BY <1>1
<1>3. CASE n \in 1..Len(s)
  <2>1. t[n] = s[n] /\ s[n].at - s[m].at >= GapIn(s, n)
    BY <1>1, <1>2, <1>3 DEF DwellIn
  <2>2. GapIn(s, n) = GapIn(t, n)
    BY <1>1, <1>3, GapSame
  <2> QED  BY <1>2, <2>1, <2>2
<1>4. CASE n = Len(s) + 1
  BY <1>1, <1>2, <1>4 DEF t
<1> QED  BY <1>1, <1>3, <1>4

\* Taking the last send back keeps every pause.
LEMMA DwellTakenBack ==
    ASSUME NEW s \in Seq(SentType), Len(s) > 0, DwellIn(s)
    PROVE  DwellIn(Before(s))
<1> DEFINE t == Before(s)
<1>1. /\ Len(s) \in Nat /\ Len(t) = Len(s) - 1
      /\ \A m \in 1..(Len(s) - 1) : t[m] = s[m]
  BY TakenBack
<1> HIDE DEF t
<1> SUFFICES ASSUME NEW m \in 1..Len(t), NEW n \in 1..Len(t), m < n, t[m].on = t[n].on
             PROVE  t[n].at - t[m].at >= GapIn(t, n)
  BY DEF DwellIn, t
<1>2. t[m] = s[m] /\ t[n] = s[n] /\ s[n].at - s[m].at >= GapIn(s, n)
  BY <1>1 DEF DwellIn
<1>3. GapIn(s, n) = GapIn(t, n)
  BY <1>1, GapSame
<1> QED  BY <1>2, <1>3

-----------------------------------------------------------------------------
(* The invariant.                                                          *)

\* Whoever stands in the line waits its turn, once.
LineOK ==
    \A i \in 1..Len(line) : /\ phase[line[i]] = "queued"
                            /\ \A j \in 1..Len(line) : line[i] = line[j] => i = j

\* Nothing is asked for a run that is over.
BusyRuns == \A c \in Callers : phase[c] \in Busy => RunOf[c] \notin ended

\* Sends are in the order they were made, none of them to come.
TimesOK == OrderedIn(sent, now)

\* The ledger is what the sends say.
LedgerOK == \A x \in Targets : MarkedIn(sent, Len(sent), x, ledger[x])

\* So are the counts of the runs going on.
CountsOK ==
    \A r \in Runs \ ended, p \in Parts :
        runSwitches[r][p] = Cardinality(SwitchedIn(sent, Len(sent), r, p))

\* Every run has kept to its allowance.
AllowanceOK ==
    \A r \in Runs, p \in Parts :
        Cardinality(SwitchedIn(sent, Len(sent), r, p)) <= Allowed(r)

\* A send that is open is the last; what would be put back is what those
\* before it say.
SendingOK ==
    \A c \in Callers :
        phase[c] = "sending" =>
            /\ sending # NotSending /\ Len(sent) > 0
            /\ sent[Len(sent)].caller = c /\ sent[Len(sent)].on = Of(c)
            /\ MarkedIn(sent, Len(sent) - 1, Of(c), sending.before)
            /\ RunOf[c] # NoRun /\ Of(c) \in Parts =>
                   sending.inRun =
                       Cardinality(SwitchedIn(sent, Len(sent) - 1, RunOf[c], Of(c)))

Kept == TimesOK /\ LedgerOK /\ CountsOK /\ AllowanceOK /\ DwellIn(sent)

SendInv == LineOK /\ BusyRuns /\ SendingOK /\ Kept

-----------------------------------------------------------------------------
(* What keeps each part of it.                                             *)

\* At first nothing is sent, and nothing marked.
LEMMA InitInv == Init => SendInv
<1> SUFFICES ASSUME Init PROVE SendInv
  OBVIOUS
<1>1. Len(sent) = 0 /\ Len(line) = 0 /\ now = 0
  BY DEF Init
<1>2. LineOK /\ BusyRuns /\ SendingOK /\ TimesOK /\ DwellIn(sent)
  BY <1>1 DEF Init, LineOK, BusyRuns, Busy, SendingOK, TimesOK, OrderedIn, DwellIn
<1>3. LedgerOK
  BY <1>1 DEF Init, LedgerOK, MarkedIn
<1>4. CountsOK
  BY <1>1, CountNone DEF Init, CountsOK
<1>5. AllowanceOK
  <2> SUFFICES ASSUME NEW r \in Runs, NEW p \in Parts PROVE 0 <= Allowed(r)
    BY <1>1, CountNone DEF AllowanceOK
  <2> QED  BY CallersAssumption, TimesNat DEF Allowed
<1> QED  BY <1>2, <1>3, <1>4, <1>5 DEF SendInv, Kept

\* Sends are typed, and so are their times.
LEMMA SentTimes ==
    ASSUME TypeOK
    PROVE  /\ sent \in Seq(SentType) /\ Len(sent) \in Nat /\ now \in Nat
           /\ \A m \in 1..Len(sent) : sent[m] \in SentType /\ sent[m].at \in Nat
<1>1. sent \in Seq(SentType) /\ now \in Nat
  BY DEF TypeOK
<1>2. Len(sent) \in Nat /\ \A m \in 1..Len(sent) : sent[m] \in SentType
  BY <1>1
<1> QED  BY <1>1, <1>2 DEF SentType

\* What a caller asks for is a target.
LEMMA AskedType ==
    ASSUME TypeOK, NEW c \in Callers
    PROVE  Of(c) \in Targets /\ ledger[Of(c)] \in Nat \cup {Never}
<1>1. /\ ask \in [Callers -> [on : Targets, value : BOOLEAN, token : Nat]]
      /\ ledger \in [Targets -> Nat \cup {Never}]
  BY DEF TypeOK
<1> QED  BY <1>1 DEF Of

\* Whoever is next waits, and its run is not over.
LEMMA NextInLine ==
    ASSUME TypeOK, LineOK, BusyRuns, NEW c \in Callers, Turn(c)
    PROVE  phase[c] = "queued" /\ RunOf[c] \notin ended
<1>1. line \in Seq(Callers) /\ line # <<>> /\ Head(line) = c
  BY DEF TypeOK, Turn
<1>2. 1 \in 1..Len(line) /\ line[1] = c
  BY <1>1
<1> QED  BY <1>2 DEF LineOK, BusyRuns, Busy

\* A step that sends nothing, takes nothing back, and leaves the ledger and the
\* counts alone keeps what is kept.
LEMMA KeptStill ==
    ASSUME TypeOK, Kept, UNCHANGED <<ledger, runSwitches, ended, sent>>,
           now' = now \/ now' = now + 1
    PROVE  Kept'
<1>1. TimesOK'
  BY SentTimes DEF Kept, TimesOK, OrderedIn
<1>2. LedgerOK' /\ CountsOK' /\ AllowanceOK'
  BY DEF Kept, LedgerOK, CountsOK, AllowanceOK
<1> QED  BY <1>1, <1>2 DEF Kept

\* One send is open at most, and none while the line may move.
LEMMA OneOpen ==
    ASSUME SendingOK
    PROVE  /\ \A c, d \in Callers : phase[c] = "sending" /\ phase[d] = "sending" => c = d
           /\ sending = NotSending => \A c \in Callers : phase[c] # "sending"
BY DEF SendingOK

\* What is open stays as it is while nothing is sent and its caller is not moved.
LEMMA OpenStill ==
    ASSUME SendingOK, UNCHANGED <<sent, sending>>,
           \A d \in Callers : phase'[d] = "sending" => phase[d] = "sending" /\ ask'[d] = ask[d]
    PROVE  SendingOK'
BY DEF SendingOK, Of

\* Whoever is next leaves the line, and the others keep their places.
LEMMA LineMoves ==
    ASSUME TypeOK, LineOK, NEW c \in Callers, Turn(c), line' = Tail(line), NEW o,
           phase' = [phase EXCEPT ![c] = o]
    PROVE  LineOK'
<1>1. /\ line \in Seq(Callers) /\ line # <<>> /\ line[1] = c
      /\ Len(line) \in Nat /\ Len(line) >= 1 /\ phase \in [Callers -> Answers \cup Busy]
  BY DEF TypeOK, Turn
<1>2. /\ Len(line') = Len(line) - 1
      /\ \A i \in 1..Len(line') : line'[i] = line[i + 1] /\ line'[i] \in Callers
  BY <1>1, HeadTailProperties
<1> SUFFICES ASSUME NEW i \in 1..Len(line')
             PROVE  /\ phase'[line'[i]] = "queued"
                    /\ \A j \in 1..Len(line') : line'[i] = line'[j] => i = j
  BY DEF LineOK
<1>3. i + 1 \in 1..Len(line) /\ i + 1 # 1 /\ 1 \in 1..Len(line)
  BY <1>1, <1>2
<1>4. line[i + 1] # c
  BY <1>1, <1>3 DEF LineOK
<1>5. phase'[line'[i]] = "queued"
  BY <1>1, <1>2, <1>3, <1>4 DEF LineOK
<1>6. ASSUME NEW j \in 1..Len(line'), line'[i] = line'[j] PROVE i = j
  <2>1. j + 1 \in 1..Len(line) /\ line[i + 1] = line[j + 1]
    BY <1>1, <1>2, <1>6
  <2>2. i + 1 = j + 1
    BY <1>3, <2>1 DEF LineOK
  <2> QED  BY <2>2
<1> QED  BY <1>5, <1>6

\* Whoever is not in the line may move without it.
LEMMA LineStill ==
    ASSUME TypeOK, LineOK, NEW c \in Callers, phase[c] # "queued", UNCHANGED line, NEW o,
           phase' = [phase EXCEPT ![c] = o]
    PROVE  LineOK'
BY DEF LineOK, TypeOK

\* Asking.
LEMMA AskInv ==
    ASSUME TypeOK, SendInv, NEW c \in Callers,
           NEW x \in Targets, NEW v \in BOOLEAN, NEW t \in 0..Len(asked), Ask(c, x, v, t)
    PROVE  SendInv'
<1>1. /\ phase[c] \in Answers /\ phase' = [phase EXCEPT ![c] = "queued"]
      /\ ask' = [ask EXCEPT ![c] = [on |-> x, value |-> v, token |-> t]]
      /\ line' = Append(line, c) /\ RunOf[c] \notin ended
      /\ UNCHANGED <<now, sending, ledger, runSwitches, ended, sent>>
  BY DEF Ask, memory
<1>2. LineOK'
  <2>1. /\ line \in Seq(Callers) /\ phase \in [Callers -> Answers \cup Busy]
        /\ phase[c] # "queued"
    BY <1>1 DEF TypeOK, Answers
  <2>2. /\ Len(line') = Len(line) + 1 /\ line'[Len(line) + 1] = c /\ Len(line) \in Nat
        /\ \A i \in 1..Len(line) : line'[i] = line[i] /\ line[i] \in Callers
    BY <1>1, <2>1
  <2>3. \A i \in 1..Len(line) : line[i] # c
    BY <2>1 DEF SendInv, LineOK
  <2> QED  BY <1>1, <2>1, <2>2, <2>3 DEF SendInv, LineOK
<1>3. BusyRuns'
  BY <1>1 DEF SendInv, BusyRuns, TypeOK, Busy
<1>4. SendingOK'
  BY <1>1, OpenStill DEF SendInv, TypeOK
<1>5. Kept'
  BY <1>1, KeptStill DEF SendInv
<1> QED  BY <1>2, <1>3, <1>4, <1>5 DEF SendInv

\* A turn that ends without a send.
LEMMA TurnInv ==
    ASSUME TypeOK, SendInv, NEW c \in Callers, Refuse(c) \/ Question(c) \/ Already(c)
    PROVE  SendInv'
<1>1. PICK o \in Answers : Answer(c, o)
  BY DEF Refuse, Question, Already, Answers
<1>2. /\ Turn(c) /\ line' = Tail(line)
      /\ UNCHANGED <<now, sending, ledger, runSwitches, ended, sent>>
  BY DEF Refuse, Question, Already, LetThrough, memory
<1>3. /\ phase' = [phase EXCEPT ![c] = o] /\ ask' = [ask EXCEPT ![c] = NoAsk]
      /\ o \notin Busy /\ o # "sending"
  BY <1>1 DEF Answer, Answers, Busy
<1>4. LineOK'
  BY <1>2, <1>3, LineMoves DEF SendInv
<1>5. BusyRuns'
  BY <1>2, <1>3 DEF SendInv, BusyRuns, TypeOK
<1>6. SendingOK'
  BY <1>2, <1>3, OpenStill DEF SendInv, TypeOK
<1>7. Kept'
  BY <1>2, KeptStill DEF SendInv
<1> QED  BY <1>4, <1>5, <1>6, <1>7 DEF SendInv

\* What is sent at a turn comes no sooner than the pause it owes.
LEMMA SendInTime ==
    ASSUME TypeOK, SendInv, NEW c \in Callers, Send(c),
           NEW m \in 1..Len(sent), sent[m].on = Of(c)
    PROVE  now - sent[m].at >= GapIn(sent', Len(sent) + 1)
<1>1. /\ Turn(c) /\ ~Refused(c) /\ sent' = Append(sent, sent'[Len(sent) + 1])
      /\ Len(sent) \in Nat /\ Len(sent') = Len(sent) + 1
      /\ sent'[Len(sent) + 1].caller = c /\ sent'[Len(sent) + 1].on = Of(c)
      /\ \A k \in 1..Len(sent) : sent'[k] = sent[k]
  BY DEF Send, LetThrough, TypeOK
<1>2. /\ Of(c) \in Targets /\ now \in Nat /\ ledger[Of(c)] \in Nat \cup {Never}
      /\ \A k \in 1..Len(sent) : sent[k].at \in Nat
  BY SentTimes, AskedType
<1>3. PICK k \in 1..Len(sent) : /\ sent[k].on = Of(c) /\ ledger[Of(c)] = sent[k].at
                                /\ \A j \in 1..Len(sent) : sent[j].on = Of(c) => j <= k
  BY <1>2 DEF SendInv, Kept, LedgerOK, MarkedIn
<1>4. sent[m].at <= ledger[Of(c)] /\ ledger[Of(c)] # Never
  BY <1>2, <1>3 DEF SendInv, Kept, TimesOK, OrderedIn, Never
<1>5. ASSUME NEW gap \in Nat, ~Since(Of(c), gap) PROVE now - sent[m].at >= gap
  BY <1>2, <1>4, <1>5 DEF Since, Never
<1>6. phase[c] = "queued" /\ RunOf[c] \notin ended
  BY <1>1, NextInLine DEF SendInv
<1>7. CASE IsWrite(c)
  <2>1. GapIn(sent', Len(sent) + 1) = WriteDwellOf(KindOf(c))
    BY <1>1, <1>7 DEF GapIn, IsWrite
  <2>2. ~Since(Of(c), WriteDwellOf(KindOf(c)))
    BY <1>1, <1>7 DEF Refused, WriteRefused
  <2> QED  BY <1>5, <2>1, <2>2, GapType
<1>8. CASE ~IsWrite(c)
  <2>1. ~TooSoon(c) /\ Of(c) \in Parts
    BY <1>1, <1>2, <1>8 DEF Refused, CommandRefused, IsWrite, Targets
  <2>2. CASE RunOf[c] # NoRun
    <3>1. /\ RunOf[c] \in Runs \ ended /\ InRun(c) = runSwitches[RunOf[c]][Of(c)]
      BY <1>6, <1>8, <2>2, CallersAssumption DEF InRun
    <3>2. InRun(c) > 0 <=> \E j \in 1..Len(sent) : RunOf[sent[j].caller] = RunOf[c]
                                                  /\ sent[j].on = Of(c)
      BY <1>1, <2>1, <3>1, CountAbove DEF SendInv, Kept, CountsOK
    <3>3. GapIn(sent', Len(sent) + 1) = IF InRun(c) > 0 THEN RunGap ELSE DwellOf(SwitchesAs(c))
      BY <1>1, <1>8, <2>2, <3>2 DEF GapIn, IsWrite
    <3>4. ~Since(Of(c), IF InRun(c) > 0 THEN RunGap ELSE DwellOf(SwitchesAs(c)))
      BY <2>1 DEF TooSoon
    <3> QED  BY <1>5, <3>3, <3>4, GapType, TimesNat
  <2>3. CASE RunOf[c] = NoRun
    <3>1. GapIn(sent', Len(sent) + 1) = DwellOf(SwitchesAs(c))
      BY <1>1, <1>8, <2>3 DEF GapIn, IsWrite
    <3>2. ~Since(Of(c), DwellOf(SwitchesAs(c)))
      BY <2>1, <2>3 DEF TooSoon, InRun
    <3> QED  BY <1>5, <3>1, <3>2, GapType
  <2> QED  BY <2>2, <2>3
<1> QED  BY <1>7, <1>8

\* Sending keeps what is kept.
LEMMA SendKept ==
    ASSUME TypeOK, SendInv, NEW c \in Callers, Send(c)
    PROVE  Kept' /\ SendingOK'
<1> PICK n \in Nat : n = Len(sent)
  BY SentTimes
<1> PICK e : e = sent'[n + 1]
  OBVIOUS
<1>1. /\ Turn(c) /\ ~Refused(c) /\ sending = NotSending
      /\ phase' = [phase EXCEPT ![c] = "sending"]
      /\ ledger' = [ledger EXCEPT ![Of(c)] = now]
      /\ runSwitches' = Counting(c, InRun(c) + 1)
      /\ sending' = [at |-> now, before |-> ledger[Of(c)], inRun |-> InRun(c)]
      /\ UNCHANGED <<now, ask, ended>>
  BY DEF Send, LetThrough, Mark, Turn
<1>a. e \in SentType /\ sent' = Append(sent, e) /\ e.caller = c /\ e.on = Of(c) /\ e.at = now
  <2> DEFINE f == [caller |-> c, on |-> Of(c), value |-> ask[c].value,
                   at |-> now, token |-> ask[c].token,
                   weighty |-> Of(c) \in weighty, low |-> Of(c) \in low]
  <2>1. sent' = Append(sent, f)
    BY DEF Send
  <2>2. now \in Nat /\ Of(c) \in Targets /\ ask[c].value \in BOOLEAN /\ ask[c].token \in Nat
    BY AskedType, SentTimes DEF TypeOK
  <2>3. f \in SentType /\ f.caller = c /\ f.on = Of(c) /\ f.at = now
    BY <2>2 DEF SentType
  <2> HIDE DEF f
  <2>4. e = f
    BY <2>1, <2>3, SentTimes, Added
  <2> QED  BY <2>1, <2>3, <2>4
<1>2. /\ sent \in Seq(SentType) /\ Len(sent') = n + 1 /\ e \in SentType
      /\ \A m \in 1..n : sent'[m] = sent[m]
      /\ e.caller = c /\ e.on = Of(c) /\ e.at = now
  BY <1>a, SentTimes, Added
<1>3. /\ Of(c) \in Targets /\ now \in Nat /\ phase[c] = "queued" /\ RunOf[c] \notin ended
      /\ \A m \in 1..n : sent[m].at \in Nat
  BY <1>1, SentTimes, AskedType, NextInLine DEF SendInv
<1>4. TimesOK'
  BY <1>1, <1>2, <1>3 DEF SendInv, Kept, TimesOK, OrderedIn
<1>5. LedgerOK'
  <2> SUFFICES ASSUME NEW x \in Targets PROVE MarkedIn(sent', n + 1, x, ledger'[x])
    BY <1>2 DEF LedgerOK
  <2>1. CASE x = Of(c)
    <3>1. ledger'[x] = sent'[n + 1].at
      BY <1>1, <1>2, <1>3, <2>1 DEF TypeOK
    <3> QED  BY <1>2, <2>1, <3>1, MarkAdded
  <2>2. CASE x # Of(c)
    <3>1. ledger'[x] = ledger[x] /\ MarkedIn(sent, n, x, ledger[x])
      BY <1>1, <2>2 DEF TypeOK, SendInv, Kept, LedgerOK
    <3>2. MarkedIn(sent', n, x, ledger[x])
      BY <1>2, <3>1, MarkSame
    <3> QED  BY <1>2, <2>2, <3>1, <3>2, MarkAdded
  <2> QED  BY <2>1, <2>2
<1>6. \A r \in Runs, p \in Parts :
          /\ Cardinality(SwitchedIn(sent, n, r, p)) \in Nat
          /\ Cardinality(SwitchedIn(sent', n + 1, r, p))
                 = Cardinality(SwitchedIn(sent, n, r, p))
                       + (IF RunOf[c] = r /\ Of(c) = p THEN 1 ELSE 0)
  <2> TAKE r \in Runs, p \in Parts
  <2>1. SwitchedIn(sent', n, r, p) = SwitchedIn(sent, n, r, p)
    BY <1>2, CountSame
  <2>2. Cardinality(SwitchedIn(sent', n + 1, r, p))
            = Cardinality(SwitchedIn(sent', n, r, p))
                + (IF RunOf[sent'[n + 1].caller] = r /\ sent'[n + 1].on = p THEN 1 ELSE 0)
    BY <1>2, CountAdded
  <2> QED  BY <1>2, <2>1, <2>2, CountFinite
<1>7. CountsOK'
  <2> SUFFICES ASSUME NEW r \in Runs \ ended, NEW p \in Parts
               PROVE  runSwitches'[r][p] = Cardinality(SwitchedIn(sent', n + 1, r, p))
    BY <1>1, <1>2 DEF CountsOK
  <2>1. runSwitches[r][p] = Cardinality(SwitchedIn(sent, n, r, p))
    BY DEF SendInv, Kept, CountsOK
  <2>2. CASE RunOf[c] = r /\ Of(c) = p
    <3>1. r # NoRun /\ ~IsWrite(c) /\ InRun(c) = runSwitches[r][p]
      BY <2>2, CallersAssumption, SetsAssumption DEF IsWrite, InRun
    <3>2. runSwitches' = [runSwitches EXCEPT ![r][p] = InRun(c) + 1]
      BY <1>1, <2>2, <3>1 DEF Counting
    <3>3. runSwitches'[r][p] = InRun(c) + 1
      BY <3>2 DEF TypeOK
    <3> QED  BY <1>6, <2>1, <2>2, <3>1, <3>3
  <2>3. CASE ~(RunOf[c] = r /\ Of(c) = p)
    <3>1. runSwitches'[r][p] = runSwitches[r][p]
      BY <1>1, <2>3 DEF Counting, TypeOK
    <3> QED  BY <1>6, <2>1, <2>3, <3>1
  <2> QED  BY <2>2, <2>3
<1>8. AllowanceOK'
  <2> SUFFICES ASSUME NEW r \in Runs, NEW p \in Parts
               PROVE  Cardinality(SwitchedIn(sent', n + 1, r, p)) <= Allowed(r)
    BY <1>2 DEF AllowanceOK
  <2>1. Cardinality(SwitchedIn(sent, n, r, p)) <= Allowed(r)
    BY DEF SendInv, Kept, AllowanceOK
  <2>2. CASE RunOf[c] = r /\ Of(c) = p
    <3>1. /\ r \in Runs \ ended /\ ~IsWrite(c)
          /\ InRun(c) = Cardinality(SwitchedIn(sent, n, r, p))
      BY <1>3, <2>2, CallersAssumption, SetsAssumption
      DEF IsWrite, InRun, SendInv, Kept, CountsOK
    <3>2. ~TooSoon(c)
      BY <1>1, <3>1 DEF Refused, CommandRefused
    <3>3. Allowed(r) \in Nat /\ Allowed(r) >= 1
      BY CallersAssumption, TimesNat DEF Allowed
    <3>4. InRun(c) > 0 => ~(InRun(c) >= Allowed(r))
      BY <2>2, <3>2 DEF TooSoon
    <3> QED  BY <1>6, <2>2, <3>1, <3>3, <3>4
  <2>3. CASE ~(RunOf[c] = r /\ Of(c) = p)
    BY <1>6, <2>1, <2>3
  <2> QED  BY <2>2, <2>3
<1>9. DwellIn(sent')
  <2>1. DwellIn(sent) /\ \A m \in 1..n : sent[m].on = e.on
                            => e.at - sent[m].at >= GapIn(Append(sent, e), n + 1)
    BY <1>a, <1>2, SendInTime DEF SendInv, Kept
  <2> QED  BY <1>a, <1>2, <2>1, DwellAdded
<1>10. SendingOK'
  <2> SUFFICES ASSUME NEW d \in Callers, phase'[d] = "sending"
               PROVE  /\ sending' # NotSending /\ n + 1 > 0
                      /\ e.caller = d /\ e.on = Of(d)'
                      /\ MarkedIn(sent', n + 1 - 1, Of(d)', sending'.before)
                      /\ RunOf[d] # NoRun /\ Of(d)' \in Parts =>
                             sending'.inRun =
                                 Cardinality(SwitchedIn(sent', n + 1 - 1, RunOf[d], Of(d)'))
    BY <1>2 DEF SendingOK
  <2>1. d = c
    BY <1>1, OneOpen DEF SendInv, TypeOK
  <2>2. Of(c)' = Of(c) /\ n + 1 - 1 = n /\ n + 1 > 0
    BY <1>1, <1>2 DEF Of
  <2>3. sending' # NotSending
    BY <1>1, <1>3 DEF NotSending, Never
  <2>4. MarkedIn(sent', n, Of(c), ledger[Of(c)])
    BY <1>2, <1>3, MarkSame DEF SendInv, Kept, LedgerOK
  <2>5. ASSUME RunOf[c] # NoRun, Of(c) \in Parts
        PROVE  InRun(c) = Cardinality(SwitchedIn(sent', n, RunOf[c], Of(c)))
    <3>1. RunOf[c] \in Runs \ ended /\ ~IsWrite(c)
      BY <1>3, <2>5, CallersAssumption, SetsAssumption DEF IsWrite
    <3>2. InRun(c) = Cardinality(SwitchedIn(sent, n, RunOf[c], Of(c)))
      BY <2>5, <3>1 DEF InRun, SendInv, Kept, CountsOK
    <3>3. \A r, p : SwitchedIn(sent', n, r, p) = SwitchedIn(sent, n, r, p)
      <4> TAKE r, p
      <4> QED  BY <1>2, CountSame
    <3> QED  BY <3>2, <3>3
  <2> QED  BY <1>1, <1>2, <2>1, <2>2, <2>3, <2>4, <2>5
<1> QED  BY <1>4, <1>5, <1>7, <1>8, <1>9, <1>10 DEF Kept

\* A send the device takes, or that fails, leaves what is kept as it is; none
\* is open after it.
LEMMA SendOver ==
    ASSUME TypeOK, SendInv, NEW c \in Callers, Taken(c) \/ Fails(c)
    PROVE  SendInv'
<1>1. /\ phase[c] = "sending" /\ sending' = NotSending
      /\ UNCHANGED <<now, line, ledger, runSwitches, ended, sent>>
  BY DEF Taken, Fails, memory
<1>2. PICK o : phase' = [phase EXCEPT ![c] = o] /\ o \in Answers \cup {"verifying"}
  BY DEF Taken, Fails, Answer, Answers
<1>3. LineOK'
  BY <1>1, <1>2, LineStill DEF SendInv
<1>4. BusyRuns'
  BY <1>1, <1>2 DEF SendInv, BusyRuns, TypeOK, Busy
<1>5. SendingOK'
  <2>1. \A d \in Callers : phase'[d] # "sending"
    BY <1>1, <1>2, OneOpen DEF SendInv, TypeOK, Answers
  <2> QED  BY <2>1 DEF SendingOK
<1>6. Kept'
  BY <1>1, KeptStill DEF SendInv
<1> QED  BY <1>3, <1>4, <1>5, <1>6 DEF SendInv

\* A refusal takes the last send back, and what was kept before it with it.
LEMMA RejectedKept ==
    ASSUME TypeOK, SendInv, NEW c \in Callers, Rejected(c)
    PROVE  Kept'
<1> PICK n \in Nat : n + 1 = Len(sent)
  BY SentTimes DEF Rejected, SendInv, SendingOK
<1> PICK x \in Parts : x = Of(c)
  BY AskedType DEF Rejected, IsWrite, Targets
<1> PICK was : was = sending.before
  OBVIOUS
<1> PICK e : e = sent[n + 1]
  OBVIOUS
<1>1. /\ phase[c] = "sending" /\ ledger' = [ledger EXCEPT ![x] = was]
      /\ runSwitches' = Counting(c, sending.inRun) /\ UNCHANGED <<now, ended>>
      /\ ~IsWrite(c)
  BY DEF Rejected, PutBack
<1>a. sent' = Before(sent)
  BY DEF Rejected, Before
<1>2. /\ Len(sent') = n /\ sent' \in Seq(SentType) /\ \A m \in 1..n : sent'[m] = sent[m]
  BY <1>a, SentTimes, TakenBack
<1>3. /\ e.caller = c /\ e.on = x
      /\ MarkedIn(sent, n, x, was)
      /\ RunOf[c] # NoRun => sending.inRun = Cardinality(SwitchedIn(sent, n, RunOf[c], x))
  <2>1. /\ sent[Len(sent)].caller = c /\ sent[Len(sent)].on = Of(c)
        /\ MarkedIn(sent, Len(sent) - 1, Of(c), sending.before)
        /\ RunOf[c] # NoRun /\ Of(c) \in Parts =>
               sending.inRun =
                   Cardinality(SwitchedIn(sent, Len(sent) - 1, RunOf[c], Of(c)))
    BY <1>1 DEF SendInv, SendingOK
  <2>2. Len(sent) - 1 = n
    OBVIOUS
  <2> QED  BY <2>1, <2>2
<1>4. TimesOK'
  <2>1. \A m \in 1..n : m \in 1..Len(sent)
    OBVIOUS
  <2> QED  BY <1>1, <1>2, <2>1 DEF SendInv, Kept, TimesOK, OrderedIn
<1>5. LedgerOK'
  <2> SUFFICES ASSUME NEW y \in Targets PROVE MarkedIn(sent', n, y, ledger'[y])
    BY <1>2 DEF LedgerOK
  <2>1. PICK v : v = ledger[y]
    OBVIOUS
  <2>2. CASE y = x
    <3>1. ledger'[y] = was
      BY <1>1, <2>2 DEF TypeOK
    <3>2. MarkedIn(sent', n, x, was)
      BY <1>2, <1>3, MarkSame
    <3> QED  BY <2>2, <3>1, <3>2
  <2>3. CASE y # x
    <3>1. ledger'[y] = v
      BY <1>1, <2>1, <2>3 DEF TypeOK
    <3>2. MarkedIn(sent, n + 1, y, v)
      BY <2>1 DEF SendInv, Kept, LedgerOK
    <3>3. MarkedIn(sent, n, y, v)
      BY <1>3, <2>3, <3>2, MarkAdded
    <3>4. MarkedIn(sent', n, y, v)
      BY <1>2, <3>3, MarkSame
    <3> QED  BY <3>1, <3>4
  <2> QED  BY <2>2, <2>3
<1>6. \A r, p :
          /\ Cardinality(SwitchedIn(sent, n, r, p)) \in Nat
          /\ SwitchedIn(sent', n, r, p) = SwitchedIn(sent, n, r, p)
          /\ Cardinality(SwitchedIn(sent, n + 1, r, p))
                 = Cardinality(SwitchedIn(sent, n, r, p))
                       + (IF RunOf[c] = r /\ x = p THEN 1 ELSE 0)
  <2> TAKE r, p
  <2>1. SwitchedIn(sent', n, r, p) = SwitchedIn(sent, n, r, p)
    BY <1>2, CountSame
  <2>2. Cardinality(SwitchedIn(sent, n + 1, r, p))
            = Cardinality(SwitchedIn(sent, n, r, p))
                + (IF RunOf[sent[n + 1].caller] = r /\ sent[n + 1].on = p THEN 1 ELSE 0)
    BY CountAdded
  <2>3. Cardinality(SwitchedIn(sent, n, r, p)) \in Nat
    BY CountFinite
  <2> QED  BY <1>3, <2>1, <2>2, <2>3
<1>7. CountsOK'
  <2> SUFFICES ASSUME NEW r \in Runs \ ended, NEW p \in Parts
               PROVE  runSwitches'[r][p] = Cardinality(SwitchedIn(sent', n, r, p))
    BY <1>1, <1>2 DEF CountsOK
  <2>1. runSwitches[r][p] = Cardinality(SwitchedIn(sent, n + 1, r, p))
    BY DEF SendInv, Kept, CountsOK
  <2>2. CASE RunOf[c] = r /\ x = p
    <3>1. r # NoRun
      BY CallersAssumption
    <3>2. runSwitches' = [runSwitches EXCEPT ![r][p] = sending.inRun]
      BY <1>1, <2>2, <3>1 DEF Counting
    <3>3. runSwitches'[r][p] = sending.inRun
      BY <3>2 DEF TypeOK
    <3> QED  BY <1>3, <1>6, <2>2, <3>1, <3>3
  <2>3. CASE ~(RunOf[c] = r /\ x = p)
    <3>1. runSwitches'[r][p] = runSwitches[r][p]
      BY <1>1, <2>3 DEF Counting, TypeOK
    <3> QED  BY <1>6, <2>1, <2>3, <3>1
  <2> QED  BY <2>2, <2>3
<1>8. AllowanceOK'
  <2> SUFFICES ASSUME NEW r \in Runs, NEW p \in Parts
               PROVE  Cardinality(SwitchedIn(sent, n, r, p)) <= Allowed(r)
    BY <1>2, <1>6 DEF AllowanceOK
  <2>1. Cardinality(SwitchedIn(sent, n + 1, r, p)) <= Allowed(r)
    BY DEF SendInv, Kept, AllowanceOK
  <2>2. Allowed(r) \in Nat
    BY CallersAssumption, TimesNat DEF Allowed
  <2>3. /\ Cardinality(SwitchedIn(sent, n, r, p)) \in Nat
        /\ \/ Cardinality(SwitchedIn(sent, n + 1, r, p)) = Cardinality(SwitchedIn(sent, n, r, p))
           \/ Cardinality(SwitchedIn(sent, n + 1, r, p)) = Cardinality(SwitchedIn(sent, n, r, p)) + 1
    BY <1>6
  <2> QED  BY <2>1, <2>2, <2>3
<1>9. DwellIn(sent')
  BY <1>a, SentTimes, DwellTakenBack DEF SendInv, Kept
<1> QED  BY <1>4, <1>5, <1>7, <1>8, <1>9 DEF Kept

\* A refusal keeps the invariant.
LEMMA RejectedInv ==
    ASSUME TypeOK, SendInv, NEW c \in Callers, Rejected(c)
    PROVE  SendInv'
<1>1. /\ phase[c] = "sending" /\ phase' = [phase EXCEPT ![c] = "unproven"]
      /\ UNCHANGED <<now, line, ended>>
  BY DEF Rejected, Answer
<1>2. LineOK'
  BY <1>1, LineStill DEF SendInv
<1>3. BusyRuns'
  BY <1>1 DEF SendInv, BusyRuns, TypeOK, Busy
<1>4. SendingOK'
  <2>1. \A d \in Callers : phase'[d] # "sending"
    BY <1>1, OneOpen DEF SendInv, TypeOK
  <2> QED  BY <2>1 DEF SendingOK
<1> QED  BY <1>2, <1>3, <1>4, RejectedKept DEF SendInv

\* Gathering a proof moves nothing but its caller.
LEMMA ProveInv ==
    ASSUME TypeOK, SendInv, NEW c \in Callers, Prove(c)
    PROVE  SendInv'
<1>1. /\ phase[c] = "verifying"
      /\ UNCHANGED <<now, line, sending, ledger, runSwitches, ended, sent>>
      /\ \E o \in Answers \cup {"verifying"} : phase' = [phase EXCEPT ![c] = o]
      /\ \A d \in Callers : d # c => ask'[d] = ask[d]
  <2>1. CASE \E agreed \in BOOLEAN : DeviceProved(c, agreed)
    BY <2>1 DEF DeviceProved, Answer, Answers, memory, TypeOK
  <2>2. CASE \E agreed \in BOOLEAN : LinksProved(c, agreed)
    BY <2>2 DEF LinksProved, Answer, Answers, memory, TypeOK
  <2> QED
    BY <2>1, <2>2 DEF Prove, ReadsBack, NeverReadsBack, LinksFollow, LinksNeverFollow
<1>2. PICK o \in Answers \cup {"verifying"} : phase' = [phase EXCEPT ![c] = o]
  BY <1>1
<1>3. LineOK'
  BY <1>1, <1>2, LineStill DEF SendInv
<1>4. BusyRuns'
  BY <1>1, <1>2 DEF SendInv, BusyRuns, TypeOK, Busy
<1>5. SendingOK'
  <2>1. \A d \in Callers : phase'[d] = "sending" => phase[d] = "sending" /\ ask'[d] = ask[d]
    BY <1>1, <1>2 DEF TypeOK, Answers
  <2> QED  BY <1>1, <2>1, OpenStill DEF SendInv
<1>6. Kept'
  BY <1>1, KeptStill DEF SendInv
<1> QED  BY <1>3, <1>4, <1>5, <1>6 DEF SendInv

\* A run that ends has nothing open, and its counts are let go.
LEMMA RunEndedInv ==
    ASSUME TypeOK, SendInv, NEW r \in Runs, RunEnded(r)
    PROVE  SendInv'
<1>1. /\ ended' = ended \cup {r}
      /\ \A c \in Callers : RunOf[c] = r => phase[c] \in Answers
      /\ runSwitches' = [runSwitches EXCEPT ![r] = [p \in Parts |-> 0]]
      /\ UNCHANGED <<now, line, phase, ask, sending, ledger, sent>>
  BY DEF RunEnded, gateVars
<1>2. LineOK' /\ SendingOK'
  BY <1>1 DEF SendInv, LineOK, SendingOK, Of
<1>3. BusyRuns'
  BY <1>1 DEF SendInv, BusyRuns, Busy, Answers
<1>4. CountsOK'
  BY <1>1 DEF SendInv, Kept, CountsOK, TypeOK
<1>5. TimesOK' /\ LedgerOK' /\ AllowanceOK' /\ DwellIn(sent')
  BY <1>1 DEF SendInv, Kept, TimesOK, LedgerOK, AllowanceOK
<1> QED  BY <1>2, <1>3, <1>4, <1>5 DEF SendInv, Kept

\* After a restart nobody waits, every run is over, and the ledger stands.
LEMMA RestartInv ==
    ASSUME TypeOK, SendInv, Restart
    PROVE  SendInv'
<1>1. /\ line' = <<>> /\ phase' = [c \in Callers |-> "unproven"] /\ ended' = Runs
      /\ UNCHANGED <<now, ledger, sent>>
  BY DEF Restart
<1>2. LineOK' /\ BusyRuns' /\ SendingOK' /\ CountsOK'
  BY <1>1 DEF LineOK, BusyRuns, Busy, SendingOK, CountsOK
<1>3. TimesOK' /\ LedgerOK' /\ AllowanceOK' /\ DwellIn(sent')
  BY <1>1 DEF SendInv, Kept, TimesOK, LedgerOK, AllowanceOK
<1> QED  BY <1>2, <1>3 DEF SendInv, Kept

\* Time and the world leave what is open and what is kept as they are.
LEMMA OthersInv ==
    ASSUME TypeOK, SendInv, Tick \/ WorldStep \/ UNCHANGED vars
    PROVE  SendInv'
<1>1. /\ UNCHANGED <<line, phase, ask, sending, ledger, runSwitches, ended, sent>>
      /\ now' = now \/ now' = now + 1
  BY WorldStill DEF Tick, vars, gateVars, memory
<1>2. LineOK' /\ BusyRuns' /\ SendingOK'
  BY <1>1 DEF SendInv, LineOK, BusyRuns, SendingOK, Of
<1> QED  BY <1>1, <1>2, KeptStill DEF SendInv

\* Every step keeps the invariant.
LEMMA NextInv == TypeOK /\ SendInv /\ [Next]_vars => SendInv'
<1> SUFFICES ASSUME TypeOK, SendInv, [Next]_vars PROVE SendInv'
  OBVIOUS
<1>1. ASSUME NEW c \in Callers, RequestStep(c) PROVE SendInv'
  <2>1. CASE Send(c)
    <3>1. /\ Turn(c) /\ line' = Tail(line) /\ UNCHANGED ended
          /\ phase' = [phase EXCEPT ![c] = "sending"]
      BY <2>1 DEF Send, LetThrough
    <3>2. LineOK'
      BY <3>1, LineMoves DEF SendInv
    <3>3. BusyRuns'
      BY <3>1, NextInLine DEF SendInv, BusyRuns, TypeOK, Busy
    <3> QED  BY <2>1, <3>2, <3>3, SendKept DEF SendInv
  <2> QED
    BY <1>1, <2>1, AskInv, TurnInv, SendOver, RejectedInv, ProveInv
    DEF RequestStep, Judge, Broken, TimedOut
<1> QED  BY <1>1, RunEndedInv, RestartInv, OthersInv, Steps

\* What the promises rest on always holds.
THEOREM Invariant == Spec => [](TypeOK /\ SendInv)
BY InitType, InitInv, NextType, NextInv, PTL DEF Spec

-----------------------------------------------------------------------------
(* The promises.                                                           *)

\* The ledger of every home says when each part and setting was last switched
\* or written by a command that may have taken effect.
THEOREM LedgerCorrect == Spec => []LedgerTrue
<1>1. TypeOK /\ SendInv => LedgerTrue
  <2> SUFFICES ASSUME TypeOK, SendInv, NEW x \in Targets
               PROVE  LET took == {n \in DOMAIN sent : sent[n].on = x} IN
                      IF took = {} THEN ledger[x] = Never
                      ELSE \E n \in took : ledger[x] = sent[n].at /\ \A m \in took : m <= n
    BY DEF LedgerTrue
  <2>1. DOMAIN sent = 1..Len(sent)
    BY SentTimes
  <2>2. MarkedIn(sent, Len(sent), x, ledger[x])
    BY DEF SendInv, Kept, LedgerOK
  <2> QED  BY <2>1, <2>2 DEF MarkedIn
<1> QED  BY <1>1, Invariant, PTL

\* In every home, however callers, refusals, silences and restarts interleave,
\* two sends to one target are never closer than the later one's pause.
THEOREM DwellCorrect == Spec => []DwellKept
<1>1. TypeOK /\ SendInv => DwellKept
  <2> SUFFICES ASSUME TypeOK, SendInv PROVE DwellKept
    OBVIOUS
  <2>1. DOMAIN sent = 1..Len(sent)
    BY SentTimes
  <2>2. DwellIn(sent)
    BY DEF SendInv, Kept
  <2>3. \A n : GapOwed(n) = GapIn(sent, n)
    BY DEF GapOwed, GapIn
  <2> QED  BY <2>1, <2>2, <2>3 DEF DwellKept, DwellIn
<1> QED  BY <1>1, Invariant, PTL

\* In every home no run switches a part more often than its rule may, nor than
\* the gateway's ceiling.
THEOREM AllowanceCorrect == Spec => []AllowanceKept
<1>1. TypeOK /\ SendInv => AllowanceKept
  <2> SUFFICES ASSUME TypeOK, SendInv, NEW r \in Runs, NEW p \in Parts
               PROVE  LET switched == {n \in DOMAIN sent :
                                          RunOf[sent[n].caller] = r /\ sent[n].on = p} IN
                      /\ Cardinality(switched) <= Switches[r]
                      /\ Cardinality(switched) <= RunSwitchCeiling
    BY DEF AllowanceKept
  <2>1. DOMAIN sent = 1..Len(sent) /\ Len(sent) \in Nat
    BY SentTimes
  <2> PICK n \in Nat : n = Len(sent)
    BY <2>1
  <2>2. Cardinality(SwitchedIn(sent, n, r, p)) <= Allowed(r)
    BY DEF SendInv, Kept, AllowanceOK
  <2>3. Cardinality(SwitchedIn(sent, n, r, p)) \in Nat
    BY CountFinite
  <2>4. /\ Switches[r] \in Nat /\ RunSwitchCeiling \in Nat
        /\ Allowed(r) <= Switches[r] /\ Allowed(r) <= RunSwitchCeiling /\ Allowed(r) \in Nat
    BY CallersAssumption, TimesNat DEF Allowed
  <2>5. SwitchedIn(sent, n, r, p) = {m \in DOMAIN sent :
                                        RunOf[sent[m].caller] = r /\ sent[m].on = p}
    BY <2>1 DEF SwitchedIn
  <2> QED  BY <2>2, <2>3, <2>4, <2>5
<1> QED  BY <1>1, Invariant, PTL

-----------------------------------------------------------------------------
(* What a verified command was followed by.                                *)

\* Linked parts whose readings take time stamp them when they are taken.
StampedWhenTaken == Ends \cap Delayed \subseteq OwnClock

\* A linked part really was as a reading has it, when the reading says.
ReadTrue(e, r) ==
    r.at # Never => /\ r.at <= now
                    /\ actual[e] = r.value \/ changed[e] >= r.at

\* So are the readings kept, and those on their way.
ReadsTruly ==
    \A e \in Ends : /\ ReadTrue(e, reading[e]) /\ ReadTrue(e, wire[e])
                    /\ e \notin Delayed => wire[e] = NoReading

\* What is read at first is as it is.
LEMMA InitReads == Init => ReadsTruly
BY DEF Init, ReadsTruly, ReadTrue, NoReading, Never, Things

\* The types of the readings of a linked part.
LEMMA EndTypes ==
    ASSUME TypeOK, NEW e \in Ends
    PROVE  /\ now \in Nat /\ e \in Things /\ e \notin Targets
           /\ actual[e] \in BOOLEAN /\ changed[e] \in Nat \cup {Never}
           /\ reading[e] \in Reading /\ wire[e] \in Reading
BY SetsAssumption DEF TypeOK, Things

\* However a thing changes, what was read of a linked part before stays true.
LEMMA BecomesTrue ==
    ASSUME TypeOK, NEW x \in Things, NEW v \in BOOLEAN, Becomes(x, v), UNCHANGED now,
           NEW e \in Ends, NEW r \in Reading, ReadTrue(e, r)
    PROVE  ReadTrue(e, r)'
<1>1. /\ actual \in [Things -> BOOLEAN] /\ changed \in [Ends -> Nat \cup {Never}]
      /\ r.at \in Nat \cup {Never} /\ now \in Nat /\ e \in Things
  BY EndTypes DEF TypeOK, Reading
<1>2. CASE x = e /\ actual[e] # v
  <2>1. changed'[e] = now
    BY <1>1, <1>2 DEF Becomes
  <2> QED  BY <1>1, <2>1 DEF ReadTrue
<1>3. CASE ~(x = e /\ actual[e] # v)
  <2>1. actual'[e] = actual[e] /\ changed'[e] = changed[e]
    BY <1>1, <1>3 DEF Becomes
  <2> QED  BY <2>1 DEF ReadTrue
<1> QED  BY <1>2, <1>3

\* What is read, and where it is kept, is true as well.
LEMMA ObserveReads ==
    ASSUME TypeOK, ReadsTruly, StampedWhenTaken, NEW x \in Things, Observe(x) \/ Arrive(x)
    PROVE  ReadsTruly'
<1>1. UNCHANGED <<now, actual, changed>>
  BY DEF Observe, Arrive
<1>2. reading \in [Things -> Reading] /\ wire \in [Things -> Reading]
  BY DEF TypeOK
<1> SUFFICES ASSUME NEW e \in Ends
             PROVE  /\ ReadTrue(e, reading[e])' /\ ReadTrue(e, wire[e])'
                    /\ e \notin Delayed => wire'[e] = NoReading
  BY DEF ReadsTruly
<1>3. e \in Things /\ now \in Nat /\ reading[e] \in Reading /\ wire[e] \in Reading
  BY EndTypes
<1>4. /\ ReadTrue(e, reading[e]) /\ ReadTrue(e, wire[e])
      /\ e \notin Delayed => wire[e] = NoReading
  BY DEF ReadsTruly
<1>5. ReadTrue(e, NoReading)'
  BY DEF ReadTrue, NoReading
<1>6. CASE x # e
  <2>1. reading'[e] = reading[e] /\ wire'[e] = wire[e]
    BY <1>2, <1>3, <1>6 DEF Observe, Arrive
  <2> QED  BY <1>1, <1>4, <2>1 DEF ReadTrue
<1>7. CASE x = e /\ Observe(x)
  <2>1. ReadTrue(e, [value |-> actual[e], at |-> now])'
    BY <1>1, <1>3 DEF ReadTrue
  <2>2. \/ /\ x \in Delayed /\ UNCHANGED reading
           /\ wire'[e] = [value |-> actual[e], at |-> now]
        \/ UNCHANGED wire /\ reading'[e] = [value |-> actual[e], at |-> now]
    BY <1>2, <1>3, <1>7 DEF Observe
  <2> QED  BY <1>1, <1>4, <1>7, <2>1, <2>2 DEF ReadTrue
<1>8. CASE x = e /\ Arrive(x)
  <2>1. e \in OwnClock /\ wire[e] # NoReading
    BY <1>4, <1>8 DEF Arrive, StampedWhenTaken
  <2>2. reading'[e] = wire[e] /\ wire'[e] = NoReading
    <3>1. [wire[e] EXCEPT !.at = wire[e].at] = wire[e]
      BY <1>3 DEF Reading
    <3> QED  BY <1>2, <1>3, <1>8, <2>1, <3>1 DEF Arrive
  <2> QED  BY <1>1, <1>4, <1>5, <2>2 DEF ReadTrue
<1> QED  BY <1>6, <1>7, <1>8

\* Every step keeps what is read true.
LEMMA NextReads ==
    ASSUME TypeOK, ReadsTruly, StampedWhenTaken, [Next]_vars
    PROVE  ReadsTruly'
<1>1. CASE UNCHANGED <<now, actual, changed, wire, reading>>
  BY <1>1 DEF ReadsTruly, ReadTrue
<1>2. ASSUME NEW c \in Callers, RequestStep(c)
      PROVE  UNCHANGED <<now, actual, changed, wire, reading>>
  <2>1. CASE Send(c) \/ Rejected(c)
    BY <2>1 DEF Send, Rejected
  <2>2. CASE ~(Send(c) \/ Rejected(c))
    BY <1>2, <2>2 DEF RequestStep, Ask, Judge, Refuse, Question, Already, Taken, Broken,
                      TimedOut, Fails, Prove, ReadsBack, NeverReadsBack, DeviceProved,
                      LinksFollow, LinksNeverFollow, LinksProved, world
  <2> QED  BY <2>1, <2>2
<1>3. CASE (\E r \in Runs : RunEnded(r)) \/ UNCHANGED vars
  BY <1>1, <1>3 DEF RunEnded, vars, world
<1>4. CASE Restart
  <2> SUFFICES ASSUME NEW e \in Ends
               PROVE  /\ ReadTrue(e, reading[e])' /\ ReadTrue(e, wire[e])'
                      /\ wire'[e] = NoReading
    BY DEF ReadsTruly
  <2>1. reading'[e] = NoReading /\ wire'[e] = NoReading
    BY <1>4, EndTypes DEF Restart
  <2> QED  BY <2>1 DEF ReadTrue, NoReading
<1>5. CASE Tick
  <2> SUFFICES ASSUME NEW e \in Ends, NEW r \in Reading, ReadTrue(e, r)
               PROVE  ReadTrue(e, r)'
    BY <1>5, EndTypes DEF Tick, world, ReadsTruly, ReadTrue
  <2>1. now \in Nat /\ now' = now + 1 /\ r.at \in Nat \cup {Never}
    BY <1>5 DEF Tick, TypeOK, Reading
  <2> QED  BY <1>5, <2>1 DEF Tick, world, ReadTrue, Never
<1>6. ASSUME NEW x \in Things, NEW v \in BOOLEAN, Becomes(x, v), UNCHANGED <<now, wire, reading>>
      PROVE  ReadsTruly'
  <2> SUFFICES ASSUME NEW e \in Ends
               PROVE  /\ ReadTrue(e, reading[e])' /\ ReadTrue(e, wire[e])'
                      /\ e \notin Delayed => wire'[e] = NoReading
    BY DEF ReadsTruly
  <2> DEFINE r == reading[e]
  <2> DEFINE w == wire[e]
  <2>1. r \in Reading /\ w \in Reading /\ ReadTrue(e, r) /\ ReadTrue(e, w)
    BY EndTypes DEF ReadsTruly
  <2>2. UNCHANGED <<now, r, w>> /\ (e \notin Delayed => w' = NoReading)
    BY <1>6 DEF ReadsTruly
  <2>3. ASSUME NEW k \in Reading, ReadTrue(e, k)
        PROVE  ReadTrue(e, k)'
    BY <1>6, <2>3, BecomesTrue
  <2>4. ASSUME NEW k \in Reading, ReadTrue(e, k)
        PROVE  k.at # Never => k.at <= now' /\ (actual'[e] = k.value \/ changed'[e] >= k.at)
    BY <2>3, <2>4 DEF ReadTrue
  <2> QED  BY <2>1, <2>2, <2>4 DEF ReadTrue
<1>7. CASE WorldStep
  <2>1. ASSUME NEW a \in air, Land(a) PROVE ReadsTruly'
    <3>1. a.on \in Things /\ a.value \in BOOLEAN
      BY DEF TypeOK, Things
    <3> QED  BY <1>6, <2>1, <3>1 DEF Land
  <2>2. ASSUME NEW x \in Things, Stir(x) PROVE ReadsTruly'
    <3>1. (~actual[x]) \in BOOLEAN
      OBVIOUS
    <3> QED  BY <1>6, <2>2, <3>1 DEF Stir
  <2>3. ASSUME NEW x \in Things, ComeOrGo(x) PROVE ReadsTruly'
    BY <1>1, <2>3 DEF ComeOrGo
  <2>4. ASSUME NEW p \in Parts, Weigh(p) PROVE ReadsTruly'
    BY <1>1, <2>4 DEF Weigh
  <2> QED  BY <1>7, <2>1, <2>2, <2>3, <2>4, ObserveReads DEF WorldStep
<1> QED  BY <1>1, <1>2, <1>3, <1>4, <1>5, <1>7, Steps

\* A command through links is verified only by what the links' ends read after
\* it was sent.
LEMMA VerifiedByLinks ==
    ASSUME TypeOK, SendInv, [Next]_vars, NEW c \in Callers,
           phase[c] = "verifying", phase'[c] = "verified", Of(c) \in Parts,
           NEW e \in Links[Of(c)]
    PROVE  reading[e].at > proof[c].at /\ reading[e].value = ask[c].value
<1>0. phase \in [Callers -> Answers \cup Busy]
  BY DEF TypeOK
<1>1. ASSUME NEW d \in Callers, NEW o, phase' = [phase EXCEPT ![d] = o]
      PROVE  d = c /\ o = "verified"
  BY <1>0, <1>1
<1>2. ~Restart /\ ~UNCHANGED phase
  BY DEF Restart
<1>3. ~((\E r \in Runs : RunEnded(r)) \/ Tick \/ WorldStep \/ UNCHANGED vars)
  BY <1>2, WorldStill DEF RunEnded, Tick, vars, gateVars
<1> PICK d \in Callers : RequestStep(d)
  BY <1>2, <1>3, Steps
<1>4. phase[c] # "queued" /\ phase[c] # "sending"
  OBVIOUS
<1>5. ~Turn(c)
  BY <1>4, NextInLine DEF SendInv
<1>6. \E o : phase' = [phase EXCEPT ![d] = o]
  BY <1>2 DEF RequestStep, Ask, Judge, Refuse, Question, Already, Send, Taken, Rejected,
              Broken, TimedOut, Fails, Prove, ReadsBack, NeverReadsBack, DeviceProved,
              LinksFollow, LinksNeverFollow, LinksProved, Answer
<1>7. d = c
  BY <1>1, <1>6
<1>8. ~Judge(c)
  BY <1>5 DEF Judge, Refuse, Question, Already, Send, LetThrough
<1>9. ~(\E x \in Targets, v \in BOOLEAN, t \in 0..Len(asked) : Ask(c, x, v, t))
  BY DEF Ask, Answers
<1>10. Prove(c)
  BY <1>4, <1>7, <1>8, <1>9 DEF RequestStep, Taken, Rejected, Broken, TimedOut, Fails
<1>11. ASSUME NEW agreed \in BOOLEAN, DeviceProved(c, agreed) PROVE FALSE
  BY <1>2, <1>11 DEF DeviceProved
<1>12. ~LinksProved(c, FALSE)
  BY <1>1 DEF LinksProved, Answer
<1>13. LinksFollow(c)
  BY <1>10, <1>11, <1>12 DEF Prove, ReadsBack, NeverReadsBack, LinksNeverFollow
<1> QED  BY <1>13 DEF LinksFollow, LinksAgree

\* In every home whose linked parts stamp late readings when they take them, a
\* command that is verified through links was followed by what it set: each
\* linked part was as the command has it, after the command was sent.
THEOREM SeenWhenVerified ==
    ASSUME StampedWhenTaken
    PROVE  Spec => VerifiedIsSeen
<1>1. TypeOK /\ SendInv /\ ReadsTruly /\ [Next]_vars
        => [\A c \in Callers :
              phase[c] = "verifying" /\ phase'[c] = "verified" /\ Of(c) \in Parts
                 => \A e \in Links[Of(c)] : WasAfter(e, ask[c].value, proof[c].at)]_vars
  <2> SUFFICES ASSUME TypeOK, SendInv, ReadsTruly, [Next]_vars, NEW c \in Callers,
                      phase[c] = "verifying", phase'[c] = "verified", Of(c) \in Parts,
                      NEW e \in Links[Of(c)]
               PROVE  WasAfter(e, ask[c].value, proof[c].at)
    OBVIOUS
  <2>1. e \in Ends
    BY SetsAssumption
  <2>2. reading[e].at > proof[c].at /\ reading[e].value = ask[c].value
    BY VerifiedByLinks
  <2>3. /\ proof[c].at \in Nat \cup {Never} /\ reading[e].at \in Nat \cup {Never}
        /\ now \in Nat /\ changed[e] \in Nat \cup {Never}
    BY <2>1, EndTypes DEF TypeOK, Reading
  <2>4. reading[e].at # Never
    BY <2>2, <2>3 DEF Never
  <2>5. ReadTrue(e, reading[e])
    BY <2>1 DEF ReadsTruly
  <2> QED  BY <2>2, <2>3, <2>4, <2>5 DEF ReadTrue, WasAfter, Never
<1>2. Spec => []ReadsTruly
  BY InitReads, NextReads, TypeCorrect, PTL DEF Spec
<1> QED  BY <1>1, <1>2, Invariant, PTL DEF Spec, VerifiedIsSeen
=============================================================================
