------------------------- MODULE FailManagerProofs -------------------------
(***************************************************************************)
(* Machine-checked proofs about FailManager for every set of hosts and     *)
(* session ids, every maxretry and findtime, and unbounded histories; and  *)
(* about IgnoreCheck, which implements it, for every max-count and         *)
(* max-time of the cache and every behaviour of the command.               *)
(***************************************************************************)
EXTENDS IgnoreCheck, RecursionLemmas, FiniteSetTheorems, SequenceTheorems

(* What Updated does to the times of a ticket, kind by kind.               *)
LEMMA UpdatedFacts ==
    ASSUME NEW ticket, NEW h, NEW t, NEW kind \in Kinds
    PROVE  /\ kind = "gained" => Updated(ticket, h, t, kind).times = {}
           /\ kind = "nofail" => Updated(ticket, h, t, kind).times
                                   = Recent(ticket.times, t)
           /\ kind = "fail" => Updated(ticket, h, t, kind).times
                                   = Recent(ticket.times, t)
                                     \cup {[id |-> failures, t |-> t]}
           /\ Updated(ticket, h, t, kind).ip
                = IF ticket.ip = None THEN h ELSE ticket.ip
  BY DEF Updated, Kinds

LEMMA UpdatedTicket ==
    ASSUME TypeOK, NEW ticket \in Ticket, NEW h \in Host, NEW t \in Time,
           NEW kind \in Kinds
    PROVE  Updated(ticket, h, t, kind) \in Ticket
<1>1. Recent(ticket.times, t) \subseteq Failure
  BY DEF Recent, Ticket
<1>2. [id |-> failures, t |-> t] \in Failure
  BY DEF Failure, TypeOK
<1>3. Updated(ticket, h, t, kind).times \subseteq Failure
  BY <1>1, <1>2, UpdatedFacts DEF Kinds
<1>4. Updated(ticket, h, t, kind).ip \in Host \cup {None}
  BY UpdatedFacts DEF Ticket
<1> QED BY <1>3, <1>4 DEF Updated, Ticket

(* The counted failures after AddFailure, kind by kind.                    *)
LEMMA CountedFacts ==
    ASSUME TypeOK, NEW h \in Host, NEW m \in Mlfid \cup {None},
           NEW t \in Time, NEW kind \in Kinds, NEW auto \in BOOLEAN,
           AddFailure(h, m, t, kind, auto)
    PROVE  /\ TicketHost(h, m) \in Host
           /\ \A g \in Host : g # TicketHost(h, m) => counted'[g] = counted[g]
           /\ kind = "gained" => counted'[TicketHost(h, m)] = {}
           /\ kind = "nofail" => counted' = counted
           /\ kind = "fail" => counted'[TicketHost(h, m)] =
                counted[TicketHost(h, m)] \cup {[id |-> failures, t |-> t]}
           /\ counted' \in [Host -> SUBSET Failure]
<1>1. TicketHost(h, m) \in Host
  BY DEF TicketHost, TypeOK
<1>2. [id |-> failures, t |-> t] \in Failure
  BY DEF Failure, TypeOK
<1> QED BY <1>1, <1>2 DEF AddFailure, TypeOK, Kinds

(* What AddFailure does to the latest timestamps of the hosts.             *)
LEMMA LastFacts ==
    ASSUME TypeOK, NEW h \in Host, NEW m \in Mlfid \cup {None},
           NEW t \in Time, NEW kind, NEW auto,
           AddFailure(h, m, t, kind, auto)
    PROVE  /\ last' \in [Host -> Time]
           /\ \A g \in Host : last[g] <= last'[g] /\ last[g] \in Int /\ last'[g] \in Int
           /\ t <= last'[TicketHost(h, m)]
<1> DEFINE th == TicketHost(h, m)
<1>1. th \in Host
  BY DEF TicketHost, TypeOK
<1> HIDE DEF th
<1>2. last' = [last EXCEPT ![th] = IF t > @ THEN t ELSE @]
  BY DEF AddFailure, th
<1>3. t \in Int /\ \A g \in Host : last[g] \in Int
  BY DEF TypeOK, Time
<1>4. last' \in [Host -> Time]
  BY <1>1, <1>2 DEF TypeOK
<1>5. \A g \in Host : last'[g] = last[g] \/ (g = th /\ t > last[g] /\ last'[g] = t)
  BY <1>1, <1>2 DEF TypeOK
<1>6. last'[th] = IF t > last[th] THEN t ELSE last[th]
  BY <1>1, <1>2 DEF TypeOK
<1> QED BY <1>1, <1>3, <1>4, <1>5, <1>6 DEF th

LEMMA AddFailureType ==
    ASSUME TypeOK, NEW h \in Host, NEW m \in Mlfid \cup {None},
           NEW t \in Time, NEW kind \in Kinds, NEW auto \in BOOLEAN,
           AddFailure(h, m, t, kind, auto)
    PROVE  TypeOK'
<1> DEFINE th == TicketHost(h, m)
           ticket == Updated(tickets[th], h, t, kind)
<1>1. th \in Host /\ counted' \in [Host -> SUBSET Failure]
  BY CountedFacts
<1>2. tickets[th] \in Ticket
  BY <1>1 DEF TypeOK
<1>3. ticket \in Ticket
  BY <1>2, UpdatedTicket
<1>4. ticket.ip \in Host
  BY <1>2, UpdatedFacts, FailManagerAssumption DEF Ticket
<1>5. tickets' \in [Host -> Ticket]
  BY <1>1, <1>3 DEF AddFailure, TypeOK
<1>6. mlfidMap' \in [Mlfid -> Host \cup {None}]
  BY <1>1 DEF AddFailure, TypeOK
<1>7. promoted' \in Promotion \cup {None}
  BY <1>1, <1>4 DEF AddFailure, Promotion
<1>8. failures' \in Nat /\ now' \in Time
  BY DEF AddFailure, TypeOK
<1>9. last' \in [Host -> Time]
  BY LastFacts
<1> QED BY <1>1, <1>5, <1>6, <1>7, <1>8, <1>9 DEF TypeOK

LEMMA NoTicketType == NoTicket \in Ticket
  BY DEF NoTicket, Ticket

(* Bans and pardons alike: the ticket goes, and so does its history.       *)
Decides(h) ==
    /\ tickets' = [tickets EXCEPT ![h] = NoTicket]
    /\ promoted' = None
    /\ counted' = [counted EXCEPT ![h] = {}]
    /\ last' = [last EXCEPT ![h] = 0]
    /\ UNCHANGED <<mlfidMap, now, failures>>

LEMMA DecisionsDecide ==
    ASSUME TypeOK, Ignore \/ Ban
    PROVE  \E h \in Host : Decides(h)
<1>1. promoted.host \in Host
  BY DEF TypeOK, Promotion, Ignore, Ban
<1>2. Decides(promoted.host)
  BY DEF Ignore, Ban, Decided, Remove, LetGo, Decides
<1> QED BY <1>1, <1>2

LEMMA InitType == Init => TypeOK
<1> SUFFICES ASSUME Init PROVE TypeOK
  OBVIOUS
<1>1. tickets \in [Host -> Ticket]
  BY NoTicketType DEF Init
<1>2. 0 \in Time
  BY FailManagerAssumption DEF Time
<1> QED BY <1>1, <1>2 DEF Init, TypeOK

LEMMA NextType == TypeOK /\ [Next]_vars => TypeOK'
<1> SUFFICES ASSUME TypeOK, [Next]_vars PROVE TypeOK'
  OBVIOUS
<1>1. ASSUME NEW h \in Host, NEW m \in Mlfid \cup {None}, NEW t \in Time,
             NEW kind \in Kinds, Line(h, m, t, kind)
      PROVE  TypeOK'
  BY <1>1, AddFailureType DEF Line
<1>2. ASSUME NEW h \in Host, Attempt(h)
      PROVE  TypeOK'
  BY <1>2, AddFailureType DEF Attempt, TypeOK, Kinds
<1>3. ASSUME NEW m \in Mlfid, Forget(m)
      PROVE  TypeOK'
  BY <1>3 DEF Forget, TypeOK
<1>4. ASSUME NEW h \in Host, Decides(h)
      PROVE  TypeOK'
  <2>1. last' \in [Host -> Time]
    BY <1>4, FailManagerAssumption DEF Decides, TypeOK, Time
  <2> QED BY <1>4, <2>1, NoTicketType DEF Decides, TypeOK
<1>5. CASE Ignore \/ Ban
  BY <1>4, <1>5, DecisionsDecide DEF TypeOK, Promotion
<1>6. CASE Purge
  BY <1>6, NoTicketType DEF Purge, TypeOK
<1>7. CASE Tick
  BY <1>7, FailManagerAssumption DEF Tick, TypeOK, Time, Promotion
<1>8. CASE UNCHANGED vars
  BY <1>8 DEF vars, TypeOK
<1> QED BY <1>1, <1>2, <1>3, <1>5, <1>6, <1>7, <1>8 DEF Next

(* The failure pipeline's state is well typed in every reachable state.    *)
THEOREM TypeCorrect == Spec => []TypeOK
  BY InitType, NextType, PTL DEF Spec

-----------------------------------------------------------------------------
(* Soundness: a ticket is a part of the failures counted for its host, and *)
(* none of these is later than the host's latest line.                     *)
TicketsCounted == \A h \in Host : tickets[h].times \subseteq counted[h]
CountedFinite == \A h \in Host : IsFiniteSet(counted[h])
CountedPast == \A h \in Host : \A f \in counted[h] : f.t <= last[h]

SoundInv ==
    /\ TypeOK /\ TicketsCounted /\ CountedFinite /\ CountedPast
    /\ BanIsJustified

LEMMA InitSound == Init => SoundInv
<1> SUFFICES ASSUME Init PROVE SoundInv
  OBVIOUS
<1>1. CountedFinite
  BY FS_EmptySet DEF Init, CountedFinite
<1> QED BY <1>1, InitType DEF Init, SoundInv, TicketsCounted, CountedPast,
                              BanIsJustified, NoTicket

LEMMA AddFailureSound ==
    ASSUME FindTime \in Nat, SoundInv, TypeOK', NEW h \in Host, NEW m \in Mlfid \cup {None},
           NEW t \in Time, NEW kind \in Kinds, NEW auto \in BOOLEAN,
           AddFailure(h, m, t, kind, auto)
    PROVE  SoundInv'
<1> DEFINE th == TicketHost(h, m)
           ticket == Updated(tickets[th], h, t, kind)
           new == [id |-> failures, t |-> t]
           W == {f \in counted'[th] : t - FindTime <= f.t /\ f.t <= last'[th]}
<1>1. th \in Host /\ tickets[th] \in Ticket /\ t \in Int
      /\ FindTime \in Int /\ MaxRetry \in Nat
  BY CountedFacts, FailManagerAssumption DEF SoundInv, TypeOK, Time
<1>2. \A g \in Host : \A f \in counted[g] : f.t \in Int /\ f.t <= last[g]
  BY DEF SoundInv, CountedPast, TypeOK, Failure, Time
<1>3. /\ \A g \in Host : last[g] <= last'[g] /\ last[g] \in Int /\ last'[g] \in Int
      /\ t <= last'[th]
  BY LastFacts DEF SoundInv
<1>4. ticket.times \subseteq counted'[th]
  <2>1. tickets[th].times \subseteq counted[th]
    BY <1>1 DEF SoundInv, TicketsCounted
  <2> QED BY <2>1, UpdatedFacts, CountedFacts DEF SoundInv, Recent, Kinds
<1>5. TicketsCounted'
  <2>1. ASSUME NEW g \in Host PROVE tickets'[g].times \subseteq counted'[g]
    <3>1. tickets' = [tickets EXCEPT ![th] = ticket]
      BY DEF AddFailure
    <3>2. CASE g = th
      BY <1>1, <1>4, <3>1, <3>2 DEF SoundInv, TypeOK
    <3>3. CASE g # th
      <4>1. tickets'[g] = tickets[g] /\ counted'[g] = counted[g]
        BY <3>1, <3>3, CountedFacts DEF SoundInv, TypeOK
      <4> QED BY <4>1 DEF SoundInv, TicketsCounted
    <3> QED BY <3>2, <3>3
  <2> QED BY <2>1 DEF TicketsCounted
<1>6. CountedFinite'
  <2>1. ASSUME NEW g \in Host PROVE IsFiniteSet(counted'[g])
    <3>1. IsFiniteSet(counted[g])
      BY DEF SoundInv, CountedFinite
    <3>2. IsFiniteSet(counted[g] \cup {new})
      BY <3>1, FS_AddElement
    <3>3. counted'[g] \in {counted[g], {}, counted[g] \cup {new}}
      BY <1>1, CountedFacts DEF SoundInv, Kinds
    <3> QED BY <3>1, <3>2, <3>3, FS_EmptySet
  <2> QED BY <2>1 DEF CountedFinite
<1>7. ASSUME NEW g \in Host, NEW f \in counted'[g]
      PROVE  f.t <= last'[g]
  <2>1. CASE f \in counted[g]
    BY <1>2, <1>3, <2>1
  <2>2. CASE f \notin counted[g]
    <3>1. g = th /\ f = new
      BY <1>1, <1>7, <2>2, CountedFacts DEF SoundInv, Kinds
    <3> QED BY <1>3, <3>1
  <2> QED BY <2>1, <2>2
<1>8. CountedPast'
  BY <1>7 DEF CountedPast
<1>9. ASSUME promoted' # None
      PROVE  promoted'.host = th /\ promoted'.t = t /\ Cardinality(W) >= MaxRetry
  <2>1. kind = "fail" /\ Cardinality(ticket.times) >= MaxRetry
        /\ promoted'.host = th /\ promoted'.t = t
    BY <1>9 DEF AddFailure, Reached
  <2>2. \A f \in ticket.times : f.t >= t - FindTime
    BY <1>1, <2>1, UpdatedFacts DEF Recent, Kinds
  <2>3. ticket.times \subseteq W
    <3>1. \A f \in ticket.times : f.t \in Int
      BY <1>1, <1>4, CountedFacts DEF SoundInv, Failure, Time
    <3> QED BY <1>1, <1>4, <1>7, <2>2, <3>1
  <2>4. IsFiniteSet(W)
    <3>1. IsFiniteSet(counted'[th])
      BY <1>1, <1>6 DEF CountedFinite
    <3> QED BY <3>1, FS_Subset
  <2>5. Cardinality(ticket.times) <= Cardinality(W)
        /\ Cardinality(ticket.times) \in Nat /\ Cardinality(W) \in Nat
    BY <2>3, <2>4, FS_Subset, FS_CardinalityType
  <2>6. Cardinality(W) >= MaxRetry
    BY <1>1, <2>1, <2>5
  <2> QED BY <2>1, <2>6
<1>10. BanIsJustified'
  BY <1>9 DEF BanIsJustified, InWindow, Reached
<1> QED BY <1>5, <1>6, <1>8, <1>10 DEF SoundInv

LEMMA NextSound ==
    ASSUME FindTime \in Nat, SoundInv, [Next]_vars
    PROVE  SoundInv'
<1>1. TypeOK'
  BY NextType DEF SoundInv
<1>2. ASSUME NEW h \in Host, NEW m \in Mlfid \cup {None}, NEW t \in Time,
             NEW kind \in Kinds, Line(h, m, t, kind)
      PROVE  SoundInv'
  BY <1>1, <1>2, AddFailureSound DEF Line
<1>3. ASSUME NEW h \in Host, Attempt(h)
      PROVE  SoundInv'
  <2>1. now \in Time /\ "fail" \in Kinds
    BY DEF SoundInv, TypeOK, Kinds
  <2> QED BY <1>1, <1>3, <2>1, AddFailureSound DEF Attempt
<1>4. ASSUME NEW h \in Host, Decides(h)
      PROVE  SoundInv'
  <2>1. \A g \in Host : \/ counted'[g] = {}
                        \/ counted'[g] = counted[g] /\ last'[g] = last[g]
    BY <1>4 DEF Decides, SoundInv, TypeOK
  <2>2. CountedFinite' /\ CountedPast'
    BY <2>1, FS_EmptySet DEF SoundInv, CountedFinite, CountedPast
  <2>3. TicketsCounted'
    BY <1>4 DEF Decides, SoundInv, TypeOK, TicketsCounted, NoTicket
  <2> QED BY <1>1, <1>4, <2>2, <2>3 DEF Decides, SoundInv, BanIsJustified
<1>5. CASE Ignore \/ Ban
  BY <1>4, <1>5, DecisionsDecide DEF SoundInv
<1>6. ASSUME counted' = counted, promoted' = promoted, last' = last,
             \A h \in Host : tickets'[h].times \subseteq tickets[h].times
      PROVE  SoundInv'
  <2>1. TicketsCounted' /\ CountedFinite' /\ CountedPast'
    BY <1>6 DEF SoundInv, TicketsCounted, CountedFinite, CountedPast
  <2>2. BanIsJustified'
    BY <1>6 DEF SoundInv, BanIsJustified, InWindow, Reached
  <2> QED BY <1>1, <2>1, <2>2 DEF SoundInv
<1>7. ASSUME NEW m \in Mlfid, Forget(m)
      PROVE  SoundInv'
  BY <1>6, <1>7 DEF Forget
<1>8. CASE Purge
  <2>1. \A h \in Host : tickets'[h].times \subseteq tickets[h].times
    BY <1>8 DEF Purge, NoTicket
  <2> QED BY <1>6, <1>8, <2>1 DEF Purge
<1>9. CASE Tick
  BY <1>6, <1>9 DEF Tick
<1>10. CASE UNCHANGED vars
  BY <1>6, <1>10 DEF vars
<1> QED BY <1>2, <1>3, <1>5, <1>7, <1>8, <1>9, <1>10 DEF Next

-----------------------------------------------------------------------------
(* Completeness: a counted failure is in its host's ticket, or too old for *)
(* the clock or for the host's latest line.                                *)
NothingRecentLost ==
    \A h \in Host : \A f \in counted[h] :
        f \in tickets[h].times \/ f.t < Latest(h) - FindTime
TimesFinite == \A h \in Host : IsFiniteSet(tickets[h].times)

LiveInv == TypeOK /\ TimesFinite /\ NothingRecentLost

LEMMA InitLive == Init => LiveInv
<1> SUFFICES ASSUME Init PROVE LiveInv
  OBVIOUS
<1>1. TimesFinite
  BY FS_EmptySet DEF Init, TimesFinite, NoTicket
<1> QED BY <1>1, InitType DEF Init, LiveInv, NothingRecentLost

LEMMA LiveFacts ==
    ASSUME TypeOK
    PROVE  /\ now \in Int /\ FindTime \in Int /\ MaxRetry \in Nat
           /\ \A h \in Host : last[h] \in Int /\ Latest(h) \in Int
           /\ \A h \in Host : \A f \in counted[h] : f.t \in Int
           /\ \A h \in Host : \A f \in tickets[h].times : f.t \in Int
  BY FailManagerAssumption DEF TypeOK, Time, Failure, Ticket, Latest

(* A line trims away no failure of the window that ends at the clock or at *)
(* the host's latest line, so the count the code compares is not too low.  *)
LEMMA AddFailureLive ==
    ASSUME LiveInv, TypeOK', NEW h \in Host, NEW m \in Mlfid \cup {None},
           NEW t \in Time, NEW kind \in Kinds, NEW auto \in BOOLEAN,
           AddFailure(h, m, t, kind, auto)
    PROVE  /\ LiveInv'
           /\ \A g \in Host :
                 /\ counted'[g] \ counted[g] # {}
                 /\ Reached({f \in counted'[g] : f.t >= Latest(g)' - FindTime})
                 => promoted' # None /\ promoted'.host = g
<1>0. PICK th \in Host : th = TicketHost(h, m)
  BY CountedFacts DEF LiveInv
<1> DEFINE ticket == Updated(tickets[th], h, t, kind)
           new == [id |-> failures, t |-> t]
<1>1. th \in Host /\ t \in Int /\ TypeOK
  BY CountedFacts DEF LiveInv, Time
<1>2. /\ tickets' = [tickets EXCEPT ![th] = ticket] /\ now' = now
      /\ tickets'[th] = ticket
      /\ \A g \in Host : g # th => tickets'[g] = tickets[g]
  BY <1>0, <1>1 DEF AddFailure, TypeOK
<1>3. /\ \A g \in Host : /\ Latest(g) <= Latest(g)'
                         /\ Latest(g) \in Int /\ Latest(g)' \in Int
      /\ t <= Latest(th)'
  BY <1>0, <1>1, <1>2, LastFacts, LiveFacts DEF Latest
<1>4. IsFiniteSet(ticket.times)
  <2>1. IsFiniteSet(tickets[th].times)
    BY <1>1 DEF LiveInv, TimesFinite
  <2>2. IsFiniteSet(Recent(tickets[th].times, t))
    BY <2>1, FS_Subset DEF Recent
  <2>3. IsFiniteSet(Recent(tickets[th].times, t) \cup {new})
    BY <2>2, FS_AddElement
  <2>4. \/ ticket.times = {}
        \/ ticket.times = Recent(tickets[th].times, t)
        \/ ticket.times = Recent(tickets[th].times, t) \cup {new}
    BY UpdatedFacts DEF Kinds
  <2> QED BY <2>2, <2>3, <2>4, FS_EmptySet
<1>5. TimesFinite'
  BY <1>2, <1>4 DEF LiveInv, TimesFinite
<1>6. ASSUME NEW f \in counted'[th], f.t >= Latest(th)' - FindTime
      PROVE  f \in ticket.times
  <2>1. kind # "gained"
    BY <1>0, <1>1, <1>6, CountedFacts DEF Kinds
  <2>2. CASE kind = "fail" /\ f = new
    BY <2>2, UpdatedFacts DEF Kinds
  <2>3. CASE ~(kind = "fail" /\ f = new)
    <3>1. f \in counted[th] /\ f.t \in Int
      BY <1>0, <1>1, <1>6, <2>1, <2>3, CountedFacts, LiveFacts DEF Kinds
    <3>2. f.t >= Latest(th) - FindTime /\ f.t >= t - FindTime
      BY <1>1, <1>3, <1>6, <3>1, LiveFacts
    <3>3. f \in tickets[th].times
      BY <1>1, <1>3, <3>1, <3>2, LiveFacts DEF LiveInv, NothingRecentLost
    <3>4. f \in Recent(tickets[th].times, t)
      BY <3>2, <3>3 DEF Recent
    <3> QED BY <2>1, <3>4, UpdatedFacts DEF Kinds
  <2> QED BY <2>2, <2>3
<1>7. ASSUME NEW g \in Host, NEW f \in counted'[g]
      PROVE  f \in tickets'[g].times \/ f.t < Latest(g)' - FindTime
  <2>1. CASE g = th
    <3>1. f.t \in Int
      BY <1>0, <1>1, <1>7, CountedFacts DEF Failure, Time
    <3> QED BY <1>1, <1>2, <1>3, <1>6, <1>7, <2>1, <3>1, LiveFacts
  <2>2. CASE g # th
    <3>1. f \in counted[g] /\ f.t \in Int
      BY <1>0, <1>1, <1>7, <2>2, CountedFacts, LiveFacts
    <3>2. f \in tickets[g].times \/ f.t < Latest(g) - FindTime
      BY <3>1 DEF LiveInv, NothingRecentLost
    <3> QED BY <1>1, <1>2, <1>3, <2>2, <3>1, <3>2, LiveFacts
  <2> QED BY <2>1, <2>2
<1>8. LiveInv'
  BY <1>5, <1>7 DEF LiveInv, NothingRecentLost
<1>9. ASSUME NEW g \in Host, counted'[g] \ counted[g] # {},
             Reached({f \in counted'[g] : f.t >= Latest(g)' - FindTime})
      PROVE  promoted' # None /\ promoted'.host = g
  <2> DEFINE S == {f \in counted'[g] : f.t >= Latest(g)' - FindTime}
  <2>1. g = th /\ kind = "fail"
    BY <1>0, <1>1, <1>9, CountedFacts DEF Kinds
  <2>2. S \subseteq ticket.times
    BY <1>6, <2>1
  <2>3. /\ Cardinality(S) <= Cardinality(ticket.times)
        /\ Cardinality(S) \in Nat /\ Cardinality(ticket.times) \in Nat
    BY <1>4, <2>2, FS_Subset, FS_CardinalityType
  <2>4. Cardinality(S) >= MaxRetry
    BY <1>9 DEF Reached
  <2>5. Reached(ticket.times)
    BY <1>1, <2>3, <2>4, LiveFacts DEF Reached
  <2>6. promoted' = [host |-> th, ip |-> ticket.ip, t |-> t, auto |-> auto]
    BY <1>0, <2>1, <2>5 DEF AddFailure
  <2>7. ticket.ip \in Host
    BY <1>1, UpdatedFacts, FailManagerAssumption DEF TypeOK, Ticket
  <2>8. promoted' \in Promotion
    BY <1>1, <2>6, <2>7 DEF Promotion
  <2> QED BY <2>1, <2>6, <2>8, FailManagerAssumption
<1> QED BY <1>8, <1>9

LEMMA NextLive == LiveInv /\ [Next]_vars => LiveInv'
<1> SUFFICES ASSUME LiveInv, [Next]_vars PROVE LiveInv'
  OBVIOUS
<1>1. TypeOK /\ TypeOK'
  BY NextType DEF LiveInv
<1>2. ASSUME NEW h \in Host, NEW m \in Mlfid \cup {None}, NEW t \in Time,
             NEW kind \in Kinds, Line(h, m, t, kind)
      PROVE  LiveInv'
  BY <1>1, <1>2, AddFailureLive DEF Line
<1>3. ASSUME NEW h \in Host, Attempt(h)
      PROVE  LiveInv'
  <2>1. now \in Time /\ "fail" \in Kinds
    BY <1>1 DEF TypeOK, Kinds
  <2> QED BY <1>1, <1>3, <2>1, AddFailureLive DEF Attempt
<1>4. ASSUME NEW h \in Host, Decides(h)
      PROVE  LiveInv'
  <2>1. /\ tickets' = [tickets EXCEPT ![h] = NoTicket]
        /\ counted' = [counted EXCEPT ![h] = {}] /\ now' = now
        /\ last' = [last EXCEPT ![h] = 0]
    BY <1>4 DEF Decides
  <2>2. TimesFinite'
    BY <2>1, FS_EmptySet DEF LiveInv, TypeOK, TimesFinite, NoTicket
  <2>3. NothingRecentLost'
    <3>1. ASSUME NEW g \in Host, NEW f \in counted'[g]
          PROVE  f \in tickets'[g].times \/ f.t < Latest(g)' - FindTime
      <4>1. g # h
        BY <1>1, <2>1, <3>1 DEF TypeOK
      <4>2. counted'[g] = counted[g] /\ tickets'[g] = tickets[g] /\ last'[g] = last[g]
        BY <1>1, <2>1, <4>1 DEF TypeOK
      <4> QED BY <2>1, <3>1, <4>2 DEF LiveInv, NothingRecentLost, Latest
    <3> QED BY <3>1 DEF NothingRecentLost
  <2> QED BY <1>1, <2>2, <2>3 DEF LiveInv
<1>5. CASE Ignore \/ Ban
  BY <1>1, <1>4, <1>5, DecisionsDecide
<1>6. CASE Purge
  <2>1. /\ last' = last /\ counted' = counted /\ now' = now
        /\ \A h \in Host : tickets'[h] =
             IF Recent(tickets[h].times, now) = {} THEN NoTicket ELSE tickets[h]
    BY <1>6 DEF Purge, Stale
  <2>2. TimesFinite'
    <3>1. IsFiniteSet(NoTicket.times)
      BY FS_EmptySet DEF NoTicket
    <3>2. ASSUME NEW h \in Host PROVE IsFiniteSet(tickets'[h].times)
      <4>1. tickets'[h] = NoTicket \/ tickets'[h] = tickets[h]
        BY <2>1
      <4> QED BY <3>1, <4>1 DEF LiveInv, TimesFinite
    <3> QED BY <3>2 DEF TimesFinite
  <2>3. ASSUME NEW h \in Host, NEW f \in counted[h]
        PROVE  f \in tickets'[h].times \/ f.t < Latest(h) - FindTime
    <3>1. CASE f \in tickets[h].times /\ tickets'[h] = NoTicket
                 /\ Recent(tickets[h].times, now) = {}
      <4>1. f.t < now - FindTime
        BY <1>1, <3>1, LiveFacts DEF Recent
      <4> QED BY <1>1, <4>1, LiveFacts DEF Latest
    <3>2. CASE tickets'[h] = tickets[h] \/ f \notin tickets[h].times
      BY <3>2 DEF LiveInv, NothingRecentLost
    <3> QED BY <2>1, <3>1, <3>2
  <2>4. NothingRecentLost'
    BY <2>1, <2>3 DEF NothingRecentLost, Latest
  <2> QED BY <1>1, <2>2, <2>4 DEF LiveInv
<1>7. CASE Tick
  <2>1. \A h \in Host : Latest(h) <= Latest(h)' /\ Latest(h)' \in Int
    BY <1>1, <1>7, LiveFacts DEF Tick, Latest
  <2>2. ASSUME NEW h \in Host, NEW f \in counted[h]
        PROVE  f \in tickets[h].times \/ f.t < Latest(h)' - FindTime
    BY <1>1, <2>1, LiveFacts DEF LiveInv, NothingRecentLost
  <2> QED BY <1>1, <1>7, <2>2 DEF Tick, LiveInv, TimesFinite, NothingRecentLost
<1>8. CASE UNCHANGED <<tickets, now, last, counted>>
  BY <1>1, <1>8 DEF LiveInv, TimesFinite, NothingRecentLost, Latest
<1> QED BY <1>2, <1>3, <1>5, <1>6, <1>7, <1>8 DEF Next, Forget, vars

LEMMA LiveStep ==
    ASSUME LiveInv, [Next]_vars
    PROVE  \A h \in Host :
              /\ counted'[h] \ counted[h] # {}
              /\ Reached({f \in counted'[h] : f.t >= Latest(h)' - FindTime})
              => promoted' # None /\ promoted'.host = h
<1> DEFINE Complete ==
      \A h \in Host :
          /\ counted'[h] \ counted[h] # {}
          /\ Reached({f \in counted'[h] : f.t >= Latest(h)' - FindTime})
          => promoted' # None /\ promoted'.host = h
<1>1. TypeOK /\ TypeOK'
  BY NextType DEF LiveInv
<1>2. ASSUME NEW h \in Host, NEW m \in Mlfid \cup {None}, NEW t \in Time,
             NEW kind \in Kinds, Line(h, m, t, kind)
      PROVE  Complete
  BY <1>1, <1>2, AddFailureLive DEF Line
<1>3. ASSUME NEW h \in Host, Attempt(h)
      PROVE  Complete
  <2>1. now \in Time /\ "fail" \in Kinds
    BY <1>1 DEF TypeOK, Kinds
  <2> QED BY <1>1, <1>3, <2>1, AddFailureLive DEF Attempt
<1>4. CASE Ignore \/ Ban
  <2>1. \A h \in Host : counted'[h] \subseteq counted[h]
    BY <1>1, <1>4, DecisionsDecide DEF Decides, TypeOK
  <2> QED BY <2>1
<1>5. CASE counted' = counted
  BY <1>5
<1> QED BY <1>2, <1>3, <1>4, <1>5 DEF Next, Forget, Purge, Tick, vars

-----------------------------------------------------------------------------
(* A decision is one of FailManager's two.                                 *)
LEMMA DecideMaps == ASSUME NEW ignore, Decide(ignore) PROVE Next
  BY DEF Decide, Next

LEMMA StepsMap == [CheckNext]_allVars => [Next]_vars
<1> SUFFICES ASSUME CheckNext PROVE [Next]_vars
  BY DEF allVars
<1>1. CASE Others
  BY <1>1 DEF Others, Next
<1>2. CASE Unasked
  BY <1>2, DecideMaps DEF Unasked
<1>3. CASE FromCache
  BY <1>3, DecideMaps DEF FromCache
<1>4. CASE Ask
  BY <1>4 DEF Ask
<1>5. CASE Answered
  BY <1>5, DecideMaps DEF Answered
<1>6. CASE Change
  BY <1>6 DEF Change
<1> QED BY <1>1, <1>2, <1>3, <1>4, <1>5, <1>6 DEF CheckNext

(* What holds of the pipeline whatever the command answers holds of it     *)
(* with check_ignorecommand, its cache and the time it takes.              *)
LEMMA CheckImplements == CheckSpec => Spec
<1>1. CheckInit => Init
  BY DEF CheckInit
<1> QED BY <1>1, StepsMap, PTL DEF CheckSpec, Spec

(* Every promotion of add_failure (failmanager.rs:71) rests on maxretry    *)
(* failures of the host since its last ban, pardon or success, none of     *)
(* them older than findtime before its line, in whatever order lines come, *)
(* with the ignore check and its cache or without.                         *)
THEOREM PromotionsAreJustified ==
    ASSUME FindTime \in Nat
    PROVE  (Spec => []BanIsJustified) /\ (CheckSpec => []BanIsJustified)
<1>1. SoundInv => BanIsJustified
  BY DEF SoundInv
<1>2. SoundInv /\ [Next]_vars => SoundInv'
  BY NextSound
<1>3. Spec => []BanIsJustified
  BY <1>1, <1>2, InitSound, PTL DEF Spec
<1> QED BY <1>3, CheckImplements, PTL

(* No ban is missed: neither trimming (failmanager.rs:106) nor purge       *)
(* (failmanager.rs:176) drops a failure within findtime of the clock or of *)
(* the host's latest line, in whatever order and however late lines come.  *)
THEOREM NoBanIsMissed == (Spec => NoMissedBan) /\ (CheckSpec => NoMissedBan)
<1>1. LiveInv /\ [Next]_vars =>
        [\A h \in Host :
            /\ counted'[h] \ counted[h] # {}
            /\ Reached({f \in counted'[h] : f.t >= Latest(h)' - FindTime})
            => promoted' # None /\ promoted'.host = h]_vars
  BY LiveStep
<1>2. Spec => NoMissedBan
  BY <1>1, InitLive, NextLive, PTL DEF Spec, NoMissedBan
<1> QED BY <1>2, CheckImplements, PTL

-----------------------------------------------------------------------------
(* The command is asked about the promotion at hand, and the cache holds   *)
(* what it said last.                                                      *)
AskedNow == asking # None => ToCheck /\ promoted.ip = asking
CacheInv ==
    /\ TypeOK
    /\ cache \in Seq(Answer) /\ Len(cache) <= MaxCount
    /\ answered \in [Host -> Answer \cup {None}]
    /\ AskedNow
    /\ CacheIsLastAnswer

LEMMA InitCache == CheckInit => CacheInv
<1> SUFFICES ASSUME CheckInit PROVE CacheInv
  OBVIOUS
<1>1. TypeOK BY InitType DEF CheckInit
<1> QED BY <1>1, IgnoreCheckAssumption
       DEF CheckInit, CacheInv, AskedNow, CacheIsLastAnswer

(* Making room drops answers, changes none and repeats none.               *)
OneEach(entries) == \A j, k \in DOMAIN entries : entries[j].key = entries[k].key => j = k

LEMMA RoomKeepsAnswers ==
    ASSUME cache \in Seq(Answer), MaxCount \in Nat \ {0}, Len(cache) <= MaxCount
    PROVE  /\ RoomMade \in Seq(Answer) /\ Len(RoomMade) < MaxCount
           /\ \A k \in DOMAIN RoomMade : \E l \in DOMAIN cache : RoomMade[k] = cache[l]
           /\ OneEach(cache) => OneEach(RoomMade)
<1> DEFINE expired == {k \in DOMAIN cache : Expired(cache[k])}
           k == IF expired = {} THEN 1 ELSE Seqs!Min(expired)
<1>1. CASE Len(cache) < MaxCount
  BY <1>1 DEF RoomMade
<1>2. CASE ~(Len(cache) < MaxCount)
  <2>1. RoomMade = SubSeq(cache, 1, k - 1) \o SubSeq(cache, k + 1, Len(cache))
    BY <1>2 DEF RoomMade, Seqs!RemoveAt
  <2>2. k \in 1..Len(cache)
    <3>1. CASE expired = {}
      BY <1>2, <3>1
    <3>2. CASE expired # {}
      <4>1. expired \subseteq 1..Len(cache) /\ expired \subseteq Nat
        OBVIOUS
      <4>2. \E n \in expired : \A m \in expired : n <= m
        BY <3>2, <4>1, HasLeast
      <4>3. Seqs!Min(expired) \in expired
        BY <4>2 DEF Seqs!Min
      <4> QED BY <3>2, <4>1, <4>3
    <3> QED BY <3>1, <3>2
  <2> HIDE DEF k
  <2> DEFINE head == SubSeq(cache, 1, k - 1)
             rest == SubSeq(cache, k + 1, Len(cache))
  <2>3. /\ head \in Seq(Answer) /\ Len(head) = k - 1
        /\ \A i \in 1..(k - 1) : head[i] = cache[i]
    BY <2>2
  <2>4. /\ rest \in Seq(Answer) /\ Len(rest) = Len(cache) - k
        /\ \A i \in 1..(Len(cache) - k) : rest[i] = cache[k + i]
    BY <2>2
  <2> HIDE DEF head, rest
  <2>5. /\ RoomMade = head \o rest
        /\ RoomMade \in Seq(Answer) /\ Len(RoomMade) = Len(cache) - 1
        /\ DOMAIN RoomMade = 1..(Len(cache) - 1)
        /\ \A i \in 1..(Len(cache) - 1) :
              RoomMade[i] = IF i <= k - 1 THEN head[i] ELSE rest[i - (k - 1)]
    <3>1. RoomMade = head \o rest
      BY <2>1 DEF head, rest
    <3>2. Len(head) + Len(rest) = Len(cache) - 1
      BY <2>2, <2>3, <2>4
    <3> QED BY <2>3, <2>4, <3>1, <3>2, ConcatProperties, LenProperties, SMTT(60)
  <2>6. ASSUME NEW i \in DOMAIN RoomMade
        PROVE  \E l \in DOMAIN cache : RoomMade[i] = cache[l]
    <3>1. i \in 1..(Len(cache) - 1)
      BY <2>5, <2>6
    <3>2. CASE i <= k - 1
      <4>1. RoomMade[i] = cache[i] /\ i \in 1..Len(cache)
        BY <2>2, <2>3, <2>5, <3>1, <3>2
      <4> QED BY <4>1
    <3>3. CASE ~(i <= k - 1)
      <4>1. i - (k - 1) \in 1..(Len(cache) - k) /\ k + (i - (k - 1)) = i + 1
        BY <2>2, <3>1, <3>3
      <4>2. RoomMade[i] = cache[i + 1] /\ i + 1 \in 1..Len(cache)
        BY <2>4, <2>5, <3>1, <3>3, <4>1
      <4> QED BY <4>2
    <3> QED BY <3>2, <3>3
  <2>7. ASSUME OneEach(cache) PROVE OneEach(RoomMade)
    <3> DEFINE at(i) == IF i <= k - 1 THEN i ELSE i + 1
    <3>1. ASSUME NEW i \in DOMAIN RoomMade
          PROVE  i \in Int /\ at(i) \in DOMAIN cache /\ RoomMade[i] = cache[at(i)]
      <4>1. i \in 1..(Len(cache) - 1)
        BY <2>5, <3>1
      <4>2. CASE i <= k - 1
        <5>1. i \in 1..(k - 1) /\ i \in 1..Len(cache) /\ at(i) = i
          BY <2>2, <4>1, <4>2
        <5>2. RoomMade[i] = cache[i]
          BY <2>3, <2>5, <4>1, <4>2, <5>1
        <5> QED BY <5>1, <5>2
      <4>3. CASE ~(i <= k - 1)
        <5>1. i - (k - 1) \in 1..(Len(cache) - k) /\ k + (i - (k - 1)) = i + 1
          BY <2>2, <4>1, <4>3
        <5>2. RoomMade[i] = cache[i + 1]
          BY <2>4, <2>5, <4>1, <4>3, <5>1
        <5>3. i + 1 \in 1..Len(cache) /\ at(i) = i + 1
          BY <4>1, <4>3
        <5> QED BY <4>1, <5>2, <5>3
      <4> QED BY <4>2, <4>3
    <3>2. \A i, j \in Int : at(i) = at(j) => i = j
      BY <2>2
    <3> HIDE DEF at
    <3> SUFFICES ASSUME NEW i \in DOMAIN RoomMade, NEW j \in DOMAIN RoomMade,
                        RoomMade[i].key = RoomMade[j].key
                 PROVE  i = j
      BY DEF OneEach
    <3>3. /\ at(i) \in DOMAIN cache /\ at(j) \in DOMAIN cache
          /\ cache[at(i)].key = cache[at(j)].key
      BY <3>1
    <3>4. at(i) = at(j)
      BY <2>7, <3>3 DEF OneEach
    <3>5. i \in Int /\ j \in Int
      BY <3>1
    <3> QED BY <3>2, <3>4, <3>5
  <2>8. Len(RoomMade) < MaxCount /\ RoomMade \in Seq(Answer)
    BY <2>5
  <2>9. OneEach(cache) => OneEach(RoomMade)
    BY <2>7
  <2>10. \A i \in DOMAIN RoomMade : \E l \in DOMAIN cache : RoomMade[i] = cache[l]
    BY <2>6
  <2> QED BY <2>8, <2>9, <2>10
<1> QED BY <1>1, <1>2

(* After Insert, an answer is the new one or another address's old one.    *)
LEMMA InsertReplaces ==
    ASSUME NEW entries \in Seq(Answer), NEW e \in Answer
    PROVE  /\ Insert(entries, e) \in Seq(Answer)
           /\ Len(Insert(entries, e)) <= Len(entries) + 1
           /\ \A k \in DOMAIN Insert(entries, e) :
                 \/ Insert(entries, e)[k] = e
                 \/ \E l \in DOMAIN entries : /\ Insert(entries, e)[k] = entries[l]
                                              /\ entries[l].key # e.key
           /\ OneEach(entries) => OneEach(Insert(entries, e))
<1>1. CASE \E k \in DOMAIN entries : entries[k].key = e.key
  <2> DEFINE new == [k \in DOMAIN entries |->
                        IF entries[k].key = e.key THEN e ELSE entries[k]]
  <2>1. Insert(entries, e) = new
    BY <1>1 DEF Insert
  <2>2. new \in [1..Len(entries) -> Answer]
    OBVIOUS
  <2>3. new \in Seq(Answer)
    BY <2>2
  <2>4. OneEach(entries) => OneEach(new)
    BY DEF OneEach
  <2> QED BY <2>1, <2>2, <2>3, <2>4
<1>2. CASE ~\E k \in DOMAIN entries : entries[k].key = e.key
  <2>1. Insert(entries, e) = Append(entries, e)
    BY <1>2 DEF Insert
  <2>2. OneEach(entries) => OneEach(Append(entries, e))
    BY <1>2 DEF OneEach
  <2> QED BY <1>2, <2>1, <2>2
<1> QED BY <1>1, <1>2

LEMMA NextCache == CacheInv /\ [CheckNext]_allVars => CacheInv'
<1> SUFFICES ASSUME CacheInv, [CheckNext]_allVars PROVE CacheInv'
  OBVIOUS
<1>0. TypeOK'
  BY StepsMap, NextType DEF CacheInv
<1>1. CASE Others /\ UNCHANGED <<cacheVars, decided>>
  <2>1. asking # None => promoted' = promoted
    BY <1>1 DEF Others, Line, Attempt, Forget, Purge, Tick, CacheInv, AskedNow, ToCheck
  <2> QED BY <1>0, <1>1, <2>1 DEF CacheInv, AskedNow, ToCheck, CacheIsLastAnswer, cacheVars
<1>2. CASE Unasked
  BY <1>0, <1>2 DEF Unasked, CacheInv, AskedNow, CacheIsLastAnswer, cacheVars
<1>3. CASE FromCache
  BY <1>0, <1>3 DEF FromCache, CacheInv, AskedNow, CacheIsLastAnswer, cacheVars
<1>4. CASE Ask
  BY <1>0, <1>4 DEF Ask, vars, CacheInv, AskedNow, ToCheck, CacheIsLastAnswer
<1>5. CASE Answered
  <2>1. PICK result \in BOOLEAN :
          LET e == [key |-> asking, result |-> result, at |-> now]
          IN  /\ answered' = [answered EXCEPT ![asking] = e]
              /\ cache' = IF MaxCount = 0 THEN cache ELSE Insert(RoomMade, e)
    BY <1>5 DEF Answered
  <2> DEFINE e == [key |-> asking, result |-> result, at |-> now]
  <2>2. asking \in Host
    BY <1>5 DEF Answered, CacheInv, AskedNow, ToCheck, TypeOK, Promotion
  <2>3. e \in Answer
    <3>1. now \in Time
      BY DEF CacheInv, TypeOK
    <3> QED BY <2>2, <3>1 DEF Answer
  <2>4. answered' \in [Host -> Answer \cup {None}] /\ asking' = None
    BY <1>5, <2>1, <2>3 DEF Answered, CacheInv
  <2>5. cache' \in Seq(Answer) /\ Len(cache') <= MaxCount /\ CacheIsLastAnswer'
    <3>1. answered' = [answered EXCEPT ![asking] = e]
          /\ e.key = asking /\ cache' = IF MaxCount = 0 THEN cache ELSE Insert(RoomMade, e)
      BY <2>1
    <3> HIDE DEF e
    <3>2. CASE MaxCount = 0
      <4>1. cache' = cache /\ DOMAIN cache = {}
        BY <3>1, <3>2 DEF CacheInv
      <4> QED BY <4>1 DEF CacheInv, CacheIsLastAnswer
    <3>3. CASE MaxCount # 0
      <4>1. MaxCount \in Nat \ {0}
        BY <3>3, IgnoreCheckAssumption
      <4>2. /\ RoomMade \in Seq(Answer) /\ Len(RoomMade) < MaxCount
            /\ \A k \in DOMAIN RoomMade : \E l \in DOMAIN cache : RoomMade[k] = cache[l]
        BY <4>1, RoomKeepsAnswers DEF CacheInv
      <4>3. /\ cache' \in Seq(Answer) /\ Len(cache') <= Len(RoomMade) + 1
            /\ \A k \in DOMAIN cache' :
                  cache'[k] = e \/ \E l \in DOMAIN RoomMade :
                                     cache'[k] = RoomMade[l] /\ RoomMade[l].key # asking
        BY <2>3, <3>1, <3>3, <4>2, InsertReplaces
      <4>4. \A k \in DOMAIN cache' :
              cache'[k] = e \/ \E l \in DOMAIN cache :
                                 cache'[k] = cache[l] /\ cache[l].key # asking
        BY <4>2, <4>3
      <4>5. \A l \in DOMAIN cache :
              answered[cache[l].key] = cache[l] /\ cache[l].key \in Host
        <5>1. \A l \in DOMAIN cache : cache[l] \in Answer
          BY ElementOfSeq, LenProperties DEF CacheInv
        <5> QED BY <5>1 DEF CacheInv, CacheIsLastAnswer, Answer
      <4>6. CacheIsLastAnswer'
        BY <2>2, <3>1, <4>4, <4>5 DEF CacheIsLastAnswer, CacheInv
      <4> QED BY <4>1, <4>2, <4>3, <4>6
    <3> QED BY <3>2, <3>3
  <2> QED BY <1>0, <2>4, <2>5 DEF CacheInv, AskedNow
<1>6. CASE Change
  BY <1>0, <1>6 DEF Change, vars, CacheInv, AskedNow, ToCheck, CacheIsLastAnswer
<1>7. CASE UNCHANGED allVars
  BY <1>0, <1>7 DEF allVars, vars, cacheVars, CacheInv, AskedNow, ToCheck,
                    CacheIsLastAnswer
<1> QED BY <1>1, <1>2, <1>3, <1>4, <1>5, <1>6, <1>7 DEF CheckNext

LEMMA CacheInvariant == CheckSpec => []CacheInv
  BY InitCache, NextCache, PTL DEF CheckSpec

(* The cache never overrules a later answer of the command                 *)
(* (jail.rs:138-165), and holds no more than its max-count.                *)
THEOREM CacheHoldsLastAnswers ==
    CheckSpec => [](CacheIsLastAnswer /\ Len(cache) <= MaxCount)
  BY CacheInvariant, PTL DEF CacheInv

-----------------------------------------------------------------------------
(* A ban or a pardon of check_ignorecommand follows the last answer of the *)
(* command for the address, and that answer is at most max-time old.       *)
LEMMA DecideSays ==
    ASSUME NEW ignore \in BOOLEAN, Decide(ignore)
    PROVE  decided' = IF ignore THEN "let go" ELSE "banned"
  BY DEF Decide

LEMMA FreshStep ==
    ASSUME CacheInv, CacheInv', [CheckNext]_allVars, ToCheck, promoted' = None
    PROVE  LET answer == answered'[promoted.ip]
           IN  /\ answer # None /\ now - answer.at <= MaxAge
               /\ decided' = IF answer.result THEN "let go" ELSE "banned"
<1>0. promoted # None /\ promoted.ip \in Host
  BY DEF CacheInv, TypeOK, ToCheck, Promotion
<1>1. CASE Others /\ UNCHANGED <<cacheVars, decided>>
  <2>1. promoted' = promoted
    BY <1>0, <1>1 DEF Others, Line, Attempt, Forget, Purge, Tick
  <2> QED BY <1>0, <2>1
<1>2. CASE FromCache
  <2>1. PICK k \in Found(promoted.ip) : Decide(cache[k].result)
    BY <1>2 DEF FromCache
  <2>2. /\ k \in DOMAIN cache /\ cache[k].key = promoted.ip
        /\ ~(now - cache[k].at > MaxAge)
    BY <2>1 DEF Found, Places, Expired
  <2>3. cache[k] \in Answer
    BY <2>2, ElementOfSeq, LenProperties DEF CacheInv
  <2>4. answered'[promoted.ip] = cache[k]
    BY <1>2, <2>2 DEF FromCache, cacheVars, CacheInv, CacheIsLastAnswer
  <2>5. cache[k].result \in BOOLEAN /\ cache[k].at \in Int /\ now \in Int
    BY <2>3, FailManagerAssumption DEF Answer, Time, CacheInv, TypeOK
  <2>6. now - cache[k].at <= MaxAge
    BY <2>2, <2>5, IgnoreCheckAssumption
  <2>7. decided' = IF cache[k].result THEN "let go" ELSE "banned"
    BY <2>1, <2>5, DecideSays
  <2>8. cache[k] # None
    BY <2>3, IgnoreCheckAssumption
  <2> QED BY <2>4, <2>6, <2>7, <2>8
<1>3. CASE Answered
  <2>1. PICK result \in BOOLEAN :
          /\ answered' = [answered EXCEPT ![asking] =
                             [key |-> asking, result |-> result, at |-> now]]
          /\ Decide(result)
    BY <1>3 DEF Answered
  <2>3. asking = promoted.ip
    BY <1>3 DEF Answered, CacheInv, AskedNow
  <2>4. answered'[promoted.ip] = [key |-> asking, result |-> result, at |-> now]
    BY <1>0, <2>1, <2>3 DEF CacheInv
  <2>2. answered'[promoted.ip] # None
    <3>1. now \in Time
      BY DEF CacheInv, TypeOK
    <3>2. answered'[promoted.ip] \in Answer
      BY <1>0, <2>3, <2>4, <3>1 DEF Answer
    <3> QED BY <3>2, IgnoreCheckAssumption
  <2>5. now - now <= MaxAge
    <3>1. now \in Int
      BY FailManagerAssumption DEF CacheInv, TypeOK, Time
    <3> QED BY <3>1, IgnoreCheckAssumption
  <2>6. decided' = IF result THEN "let go" ELSE "banned"
    BY <2>1, DecideSays
  <2>7. /\ answered'[promoted.ip].at = now
        /\ answered'[promoted.ip].result = result
    BY <2>4
  <2> QED BY <2>2, <2>5, <2>6, <2>7
<1>4. CASE Unasked
  BY <1>4 DEF Unasked
<1>5. CASE Ask \/ Change \/ UNCHANGED allVars
  BY <1>0, <1>5 DEF Ask, Change, allVars, vars
<1> QED BY <1>1, <1>2, <1>3, <1>4, <1>5 DEF CheckNext

THEOREM DecisionsFollowTheCommand == CheckSpec => DecisionsAreFresh
<1>1. CacheInv /\ CacheInv' /\ [CheckNext]_allVars =>
        [ToCheck /\ promoted' = None =>
            LET answer == answered'[promoted.ip]
            IN  /\ answer # None /\ now - answer.at <= MaxAge
                /\ decided' = IF answer.result THEN "let go" ELSE "banned"]_allVars
  BY FreshStep
<1> QED BY <1>1, CacheInvariant, PTL DEF CheckSpec, DecisionsAreFresh

-----------------------------------------------------------------------------
(* An IndexMap holds one answer of each address.                           *)
CheckInv == CacheInv /\ CheckTypeOK

LEMMA InitCheck == CheckInit => CheckInv
<1> SUFFICES ASSUME CheckInit PROVE CheckTypeOK
  BY InitCache DEF CheckInv
<1> QED BY InitCache, IgnoreCheckAssumption DEF CheckInit, CacheInv, CheckTypeOK

LEMMA NextCheck == CheckInv /\ [CheckNext]_allVars => CheckInv'
<1> SUFFICES ASSUME CheckInv, [CheckNext]_allVars
             PROVE  /\ OneEach(cache)' /\ asking' \in Host \cup {None}
                    /\ friends' \subseteq Host /\ changes' \in 0..MaxChanges
                    /\ decided' \in {"nothing", "let go", "banned"}
  BY NextCache DEF CheckInv, CheckTypeOK, CacheInv, OneEach
<1>0. CacheInv /\ CheckTypeOK /\ OneEach(cache) /\ friends \subseteq Host
      /\ changes \in 0..MaxChanges /\ asking \in Host \cup {None}
  BY DEF CheckInv, CheckTypeOK, OneEach
<1>1. CASE UNCHANGED <<cacheVars, decided>>
  BY <1>0, <1>1 DEF cacheVars, CheckTypeOK
<1>2. CASE Unasked \/ FromCache
  <2>1. UNCHANGED cacheVars /\ decided' \in {"let go", "banned"}
    BY <1>2 DEF Unasked, FromCache, Decide
  <2> QED BY <1>0, <2>1 DEF cacheVars
<1>3. CASE Ask
  BY <1>0, <1>3 DEF Ask, ToCheck, CacheInv, TypeOK, Promotion, CheckTypeOK
<1>4. CASE Answered
  <2>1. PICK result \in BOOLEAN :
          /\ cache' = IF MaxCount = 0 THEN cache
                      ELSE Insert(RoomMade, [key |-> asking, result |-> result, at |-> now])
          /\ Decide(result)
    BY <1>4 DEF Answered
  <2>2. asking' = None /\ UNCHANGED <<friends, changes>>
    BY <1>4 DEF Answered
  <2>3. decided' \in {"let go", "banned"}
    BY <2>1 DEF Decide
  <2> DEFINE e == [key |-> asking, result |-> result, at |-> now]
  <2>4. e \in Answer
    BY <1>0, <1>4 DEF Answered, Answer, CacheInv, TypeOK
  <2> HIDE DEF e
  <2>5. OneEach(cache')
    <3>1. CASE MaxCount = 0
      BY <1>0, <2>1, <3>1
    <3>2. CASE MaxCount # 0
      <4>1. RoomMade \in Seq(Answer) /\ OneEach(RoomMade)
        BY <1>0, <3>2, IgnoreCheckAssumption, RoomKeepsAnswers DEF CacheInv
      <4>2. cache' = Insert(RoomMade, e)
        BY <2>1, <3>2 DEF e
      <4> QED BY <2>4, <4>1, <4>2, InsertReplaces
    <3> QED BY <3>1, <3>2
  <2> QED BY <1>0, <2>2, <2>3, <2>5 DEF OneEach
<1>5. CASE Change
  <2>1. changes' \in 0..MaxChanges
    BY <1>0, <1>5, IgnoreCheckAssumption DEF Change
  <2>2. PICK h \in Host : friends' = (friends \ {h}) \cup ({h} \ friends)
    BY <1>5 DEF Change, Seqs!SymDiff
  <2> QED BY <1>0, <1>5, <2>1, <2>2 DEF Change, OneEach, CheckTypeOK
<1>6. CASE UNCHANGED allVars
  BY <1>1, <1>6 DEF allVars
<1> QED BY <1>1, <1>2, <1>3, <1>4, <1>5, <1>6 DEF CheckNext

(* The cache keeps to its max-count with one answer of each address, so a  *)
(* renewed answer replaces the old one (IgnoreCache, jail.rs:138-165).     *)
THEOREM CheckTypeCorrect == CheckSpec => []CheckTypeOK
  BY InitCheck, NextCheck, PTL DEF CheckSpec, CheckInv
=============================================================================
