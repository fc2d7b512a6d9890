--------------------------- MODULE GatewayPeople ---------------------------
(***************************************************************************)
(* What the gateway asks people before it does it, proved for every home:  *)
(* a person's grave send carries a yes to that very question.              *)
(*                                                                         *)
(* Whether a send was through a consequential link for the first time is   *)
(* judged from the ledger, so the proof rests on SendInv's word that the   *)
(* ledger names the last send.  That no yes carries two sends rests on one *)
(* thing more: a token that carried a grave send is no longer pending.     *)
(***************************************************************************)
EXTENDS GatewayPromises

-----------------------------------------------------------------------------
(* Grave sends of a sequence.                                              *)

\* As Grave, of any sequence of sends.
GraveIn(s, n) ==
    IF s[n].on \in Settings THEN s[n].on \in Dangerous
    ELSE \/ ~s[n].value /\ (Graves(s[n].on) # {} \/ s[n].weighty)
         \/ s[n].value /\ s[n].low /\ s[n].on \notin Mute
         \/ Graves(s[n].on) # {} /\ \A m \in 1..(n - 1) : s[m].on # s[n].on

\* A send a person had to say yes to.
Asks(s, n) == GraveIn(s, n) /\ KindOf(s[n].caller) = "person"

\* The n-th send carried this token's yes, which is spent.
Carried(s, n) ==
    /\ s[n].token \in 1..Len(asked)
    /\ asked[s[n].token].subject = <<s[n].on, s[n].value, By[s[n].caller]>>
    /\ s[n].at < asked[s[n].token].expires
    /\ s[n].token \notin pending

\* No two of the sends that had to be said yes to carry one token.
OwnTokens(s) ==
    \A m, n \in 1..Len(s) :
        m < n /\ Asks(s, m) /\ Asks(s, n) => s[m].token # s[n].token

PeopleInv ==
    /\ \A n \in 1..Len(sent) : Asks(sent, n) => Carried(sent, n)
    /\ OwnTokens(sent)

\* What is said of a send depends on it and those before it alone.
LEMMA GraveSame ==
    ASSUME NEW s, NEW t, NEW n \in Nat, n >= 1, \A m \in 1..n : s[m] = t[m]
    PROVE  /\ GraveIn(s, n) <=> GraveIn(t, n)
           /\ Asks(s, n) <=> Asks(t, n)
<1>1. s[n] = t[n] /\ \A m \in 1..(n - 1) : s[m] = t[m]
  OBVIOUS
<1>2. GraveIn(s, n) <=> GraveIn(t, n)
  BY <1>1 DEF GraveIn
<1> QED  BY <1>1, <1>2 DEF Asks

-----------------------------------------------------------------------------
(* Steps that send nothing.                                                *)

\* While nothing is sent, and tokens are handed out but never given back, what
\* was carried stays carried.
LEMMA CarriedStill ==
    ASSUME TypeOK, PeopleInv, UNCHANGED sent,
           asked' = asked \/ \E q : asked' = Append(asked, q),
           pending' \cap (1..Len(asked)) \subseteq pending
    PROVE  PeopleInv'
<1>1. asked \in Seq([subject : Targets \X BOOLEAN \X Actors, expires : Nat])
  BY DEF TypeOK
<1>2. Len(asked) \in Nat /\ Len(asked') \in Nat /\ Len(asked) <= Len(asked')
      /\ \A t \in 1..Len(asked) : asked'[t] = asked[t]
  BY <1>1
<1>3. ASSUME NEW n \in 1..Len(sent), Asks(sent, n) PROVE Carried(sent, n)'
  <2>1. Carried(sent, n)
    BY <1>3 DEF PeopleInv
  <2> QED  BY <1>2, <2>1 DEF Carried
<1>4. \A n : Asks(sent, n) <=> Asks(sent, n)'
  BY DEF Asks, GraveIn
<1> QED  BY <1>3, <1>4 DEF PeopleInv, OwnTokens

\* A question hands out a token that nothing carried.
LEMMA QuestionPeople ==
    ASSUME TypeOK, PeopleInv, NEW c \in Callers, Question(c)
    PROVE  PeopleInv'
<1>1. /\ asked' = Append(asked, [subject |-> Subject(c), expires |-> now + TTL])
      /\ pending' = {t \in pending \ {ask[c].token} : now < asked[t].expires}
                        \cup {Len(asked) + 1}
      /\ UNCHANGED sent
  BY DEF Question
<1>2. Len(asked) \in Nat /\ Len(asked) + 1 \notin 1..Len(asked)
  BY DEF TypeOK
<1> QED  BY <1>1, <1>2, CarriedStill

\* Every other step that sends nothing.
LEMMA QuietPeople ==
    ASSUME TypeOK, PeopleInv, UNCHANGED <<sent, asked>>, pending' \subseteq pending
    PROVE  PeopleInv'
BY CarriedStill

\* What the device refused is no longer one of the sends.
LEMMA RejectedPeople ==
    ASSUME TypeOK, SendInv, PeopleInv, NEW c \in Callers, Rejected(c)
    PROVE  PeopleInv'
<1>1. /\ phase[c] = "sending" /\ sent' = Before(sent) /\ UNCHANGED <<asked, pending>>
  BY DEF Rejected, Before
<1>2. sent \in Seq(SentType) /\ Len(sent) > 0
  BY <1>1, SentTimes DEF SendInv, SendingOK
<1>3. /\ Len(sent) \in Nat /\ Len(sent') = Len(sent) - 1
      /\ \A m \in 1..(Len(sent) - 1) : sent'[m] = sent[m]
  BY <1>1, <1>2, TakenBack
<1>4. ASSUME NEW n \in 1..Len(sent')
      PROVE  /\ n \in 1..Len(sent) /\ sent'[n] = sent[n]
             /\ (Asks(sent, n) <=> Asks(sent', n))
  <2>1. /\ n \in Nat /\ n >= 1 /\ n \in 1..Len(sent)
        /\ \A m \in 1..n : sent[m] = sent'[m]
    BY <1>3
  <2> HIDE <1>3
  <2> QED  BY <2>1, GraveSame
<1>5. ASSUME NEW n \in 1..Len(sent'), Asks(sent', n) PROVE Carried(sent, n)'
  <2>1. Carried(sent, n) /\ sent'[n] = sent[n]
    BY <1>4, <1>5 DEF PeopleInv
  <2> QED  BY <1>1, <2>1 DEF Carried
<1>6. \A n : Asks(sent, n)' <=> Asks(sent', n)
  BY DEF Asks, GraveIn
<1>7. OwnTokens(sent')
  BY <1>3, <1>4 DEF PeopleInv, OwnTokens
<1> QED  BY <1>4, <1>5, <1>6, <1>7 DEF PeopleInv, OwnTokens

-----------------------------------------------------------------------------
(* Sending.                                                                *)

\* The send a turn makes, with what the gateway judged it by.
Sends(c) ==
    LET n == Len(sent) + 1 IN
    /\ n \in Nat /\ Len(sent') = n
    /\ \A m \in 1..Len(sent) : sent'[m] = sent[m]
    /\ sent'[n] = [caller |-> c, on |-> Of(c), value |-> ask[c].value, at |-> now,
                   token |-> ask[c].token, weighty |-> Of(c) \in weighty,
                   low |-> Of(c) \in low]

LEMMA SendSends ==
    ASSUME TypeOK, NEW c \in Callers, Send(c)
    PROVE  Sends(c)
BY SentTimes DEF Send, Sends

\* With no send to a target before it, nothing is marked of it.
LEMMA FirstIsUnmarked ==
    ASSUME TypeOK, SendInv, NEW x \in Targets, \A m \in 1..Len(sent) : sent[m].on # x
    PROVE  ledger[x] = Never
BY DEF SendInv, Kept, LedgerOK, MarkedIn

\* A grave send is one the gateway's own words of it say is grave.
LEMMA GraveIsJudged ==
    ASSUME TypeOK, SendInv, NEW c \in Callers, Send(c), GraveIn(sent', Len(sent) + 1)
    PROVE  IF IsWrite(c) THEN Of(c) \in Dangerous
           ELSE Consequential(c) \/ FirstThroughLink(c) \/ BelowReserve(c)
<1>1. Sends(c) /\ Of(c) \in Targets
  BY SendSends, AskedType
<1> PICK n \in Nat : n = Len(sent) + 1
  BY <1>1 DEF Sends
<1>2. /\ sent'[n].on = Of(c) /\ sent'[n].value = ask[c].value
      /\ sent'[n].weighty = (Of(c) \in weighty) /\ sent'[n].low = (Of(c) \in low)
      /\ \A m \in 1..(n - 1) : sent'[m] = sent[m]
  BY <1>1 DEF Sends
<1>3. CASE IsWrite(c)
  BY <1>2, <1>3 DEF GraveIn, IsWrite
<1>4. CASE ~IsWrite(c)
  <2>1. CASE ~ask[c].value /\ (Graves(Of(c)) # {} \/ Of(c) \in weighty)
    BY <1>4, <2>1 DEF Consequential
  <2>2. CASE ask[c].value /\ Of(c) \in low /\ Of(c) \notin Mute
    BY <1>4, <2>2 DEF BelowReserve, Send, NothingToDo
  <2>3. CASE Graves(Of(c)) # {} /\ \A m \in 1..(n - 1) : sent'[m].on # Of(c)
    <3>1. \A m \in 1..Len(sent) : sent[m].on # Of(c)
      BY <1>2, <2>3
    <3> QED  BY <1>1, <1>4, <2>3, <3>1, FirstIsUnmarked DEF FirstThroughLink
  <2> QED  BY <1>2, <1>4, <2>1, <2>2, <2>3 DEF GraveIn, IsWrite
<1> QED  BY <1>3, <1>4

\* A grave send of a person's spends the token that was put for it.
LEMMA SendCarries ==
    ASSUME TypeOK, SendInv, NEW c \in Callers, Send(c),
           NEW n \in Nat, n = Len(sent) + 1, Asks(sent', n)
    PROVE  /\ sent'[n].token = ask[c].token
           /\ ask[c].token \in pending /\ pending' = pending \ {ask[c].token}
           /\ Carried(sent, n)'
<1>1. Sends(c)
  BY SendSends
<1>2. /\ sent'[n].on = Of(c) /\ sent'[n].value = ask[c].value /\ sent'[n].caller = c
      /\ sent'[n].at = now /\ sent'[n].token = ask[c].token
  BY <1>1 DEF Sends
<1>3. NeedsYes(c)
  BY <1>2, GraveIsJudged DEF Asks, NeedsYes
<1>4. /\ ask[c].token \in pending /\ asked[ask[c].token].subject = Subject(c)
      /\ now < asked[ask[c].token].expires
      /\ pending' = pending \ {ask[c].token} /\ UNCHANGED asked
  BY <1>3 DEF Send, LetThrough, Accepted, SpendToken
<1>5. ask[c].token \in 1..Len(asked)
  BY <1>4 DEF TypeOK
<1> QED  BY <1>2, <1>4, <1>5 DEF Carried, Subject

\* Sending keeps what is kept for people.
LEMMA SendPeople ==
    ASSUME TypeOK, SendInv, PeopleInv, NEW c \in Callers, Send(c)
    PROVE  PeopleInv'
<1>1. Sends(c) /\ UNCHANGED asked /\ pending' \subseteq pending
  BY SendSends DEF Send, SpendToken
<1> PICK n \in Nat : n = Len(sent) + 1
  BY <1>1 DEF Sends
<1>2. /\ Len(sent) \in Nat /\ Len(sent') = n
      /\ \A m \in 1..Len(sent) : sent'[m] = sent[m]
  BY <1>1, SentTimes DEF Sends
<1>3. ASSUME NEW m \in 1..Len(sent)
      PROVE  /\ m \in Nat /\ m >= 1 /\ sent'[m] = sent[m]
             /\ (Asks(sent, m) <=> Asks(sent', m))
             /\ (Asks(sent, m) => Carried(sent, m)')
  <2>1. Asks(sent, m) <=> Asks(sent', m)
    BY <1>2, GraveSame
  <2>2. ASSUME Asks(sent, m) PROVE Carried(sent, m)'
    BY <1>1, <1>2, <2>2 DEF PeopleInv, Carried
  <2> QED  BY <1>2, <2>1, <2>2
<1>4. \A m : Asks(sent, m)' <=> Asks(sent', m)
  BY DEF Asks, GraveIn
<1>5. Asks(sent', n) => Carried(sent, n)'
  BY SendCarries
<1>6. \A m \in 1..Len(sent') : Asks(sent', m) => Carried(sent, m)'
  BY <1>2, <1>3, <1>5 DEF PeopleInv
<1>7. ASSUME NEW m \in 1..Len(sent), Asks(sent', m), Asks(sent', n)
      PROVE  sent'[m].token # sent'[n].token
  <2>1. sent[m].token \notin pending
    BY <1>3, <1>7 DEF PeopleInv, Carried
  <2> QED  BY <1>3, <1>7, <2>1, SendCarries
<1>8. OwnTokens(sent')
  BY <1>2, <1>3, <1>7 DEF PeopleInv, OwnTokens
<1> QED  BY <1>4, <1>6, <1>8 DEF PeopleInv, OwnTokens

-----------------------------------------------------------------------------
(* What is kept for people.                                                *)

\* Every step keeps what is kept for people.
LEMMA NextPeople == TypeOK /\ SendInv /\ PeopleInv /\ [Next]_vars => PeopleInv'
<1> SUFFICES ASSUME TypeOK, SendInv, PeopleInv, [Next]_vars PROVE PeopleInv'
  OBVIOUS
<1>1. ASSUME NEW c \in Callers, RequestStep(c) PROVE PeopleInv'
  <2>1. CASE Refuse(c) \/ Already(c) \/ Taken(c) \/ Broken(c) \/ TimedOut(c) \/ Prove(c)
             \/ \E x \in Targets, v \in BOOLEAN, t \in 0..Len(asked) : Ask(c, x, v, t)
    <3>1. UNCHANGED <<sent, asked>> /\ pending' \subseteq pending
      BY <2>1 DEF Refuse, Already, SpendToken, Taken, Broken, TimedOut, Fails, Ask, memory,
                  Prove, ReadsBack, NeverReadsBack, LinksFollow, LinksNeverFollow,
                  DeviceProved, LinksProved
    <3> QED  BY <3>1, QuietPeople
  <2> QED
    BY <1>1, <2>1, QuestionPeople, SendPeople, RejectedPeople DEF RequestStep, Judge
<1>2. ASSUME NEW r \in Runs, RunEnded(r) PROVE PeopleInv'
  BY <1>2, QuietPeople DEF RunEnded
<1>3. ASSUME Restart PROVE PeopleInv'
  BY <1>3, QuietPeople DEF Restart
<1>4. ASSUME Tick \/ WorldStep \/ UNCHANGED vars PROVE PeopleInv'
  BY <1>4, QuietPeople, WorldStill DEF Tick, vars, memory
<1> QED  BY <1>1, <1>2, <1>3, <1>4, Steps

\* At first nothing is sent.
LEMMA InitPeople == Init => PeopleInv
BY DEF Init, PeopleInv, OwnTokens

LEMMA PeopleAlways == Spec => [](TypeOK /\ PeopleInv)
<1>1. TypeOK /\ SendInv /\ PeopleInv /\ [Next]_vars => PeopleInv'
  BY NextPeople
<1> QED  BY <1>1, InitPeople, Invariant, PTL DEF Spec

\* In every home each grave send of a person carries a yes put to that person
\* for that very thing, in time, and no yes carries two.
THEOREM YesCorrect == Spec => []YesIsForThis
<1>1. TypeOK /\ PeopleInv => YesIsForThis
  <2> SUFFICES ASSUME TypeOK, PeopleInv,
                      NEW n \in 1..Len(sent), GraveIn(sent, n),
                      KindOf(sent[n].caller) = "person"
               PROVE  /\ sent[n].token \in DOMAIN asked
                      /\ asked[sent[n].token].subject =
                            <<sent[n].on, sent[n].value, By[sent[n].caller]>>
                      /\ sent[n].at < asked[sent[n].token].expires
                      /\ \A m \in 1..(n - 1) :
                            /\ sent[m].token = sent[n].token
                            /\ KindOf(sent[m].caller) = "person"
                            => ~GraveIn(sent, m)
    <3>1. DOMAIN sent = 1..Len(sent)
      BY SentTimes
    <3>2. \A n : Grave(n) <=> GraveIn(sent, n)
      BY DEF Grave, GraveIn
    <3> QED  BY <3>1, <3>2 DEF YesIsForThis
  <2>1. Asks(sent, n) /\ Carried(sent, n) /\ Len(sent) \in Nat
    BY SentTimes DEF Asks, PeopleInv
  <2>2. DOMAIN asked = 1..Len(asked)
    BY DEF TypeOK
  <2>3. \A m \in 1..(n - 1) : m \in 1..Len(sent) /\ m < n
    BY <2>1
  <2> QED  BY <2>1, <2>2, <2>3 DEF Carried, PeopleInv, OwnTokens, Asks
<1> QED  BY <1>1, PeopleAlways, PTL

=============================================================================
