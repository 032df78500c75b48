--------------------------- MODULE DatabaseProofs ---------------------------
(***************************************************************************)
(* Machine-checked proofs about Database for every set of jails and hosts, *)
(* every bantime, purge age and clock bound.                               *)
(***************************************************************************)
EXTENDS Database, TLAPS

(* The primary keys that INSERT OR REPLACE maintains.                      *)
PrimaryKeys ==
    /\ \A r, s \in bans : SameBan(r, s) => r = s
    /\ \A p, q \in bips : SameHost(p, q) => p = q

KeyInv == TypeOK /\ PrimaryKeys

LEMMA InitKeyInv == Init => KeyInv
<1> SUFFICES ASSUME Init PROVE KeyInv
  OBVIOUS
<1>1. call \in Call
  <2>1. [op |-> "remove_all_bans"] \in [op : {"remove_all_bans"}]
    OBVIOUS
  <2> QED BY <2>1 DEF Init, Call
<1>2. now \in Time
  BY DatabaseAssumption DEF Init, Time
<1> QED BY <1>1, <1>2 DEF Init, KeyInv, TypeOK, PrimaryKeys

LEMMA InsertBanKey ==
    ASSUME NEW row, NEW S, \A r, s \in S : SameBan(r, s) => r = s
    PROVE  \A r, s \in InsertBan(S, row) : SameBan(r, s) => r = s
  BY DEF InsertBan, SameBan, SameHost

LEMMA InsertBipKey ==
    ASSUME NEW row, NEW S, \A p, q \in S : SameHost(p, q) => p = q
    PROVE  \A p, q \in InsertBip(S, row) : SameHost(p, q) => p = q
  BY DEF InsertBip, SameHost

(* Every statement keeps the types and the primary keys.                   *)
LEMMA NextKeyInv == KeyInv /\ [Next]_vars => KeyInv'
<1> SUFFICES ASSUME KeyInv, [Next]_vars PROVE KeyInv'
  OBVIOUS
<1> USE DEF KeyInv
<1>1. ASSUME NEW j \in Jail, NEW h \in Host, NEW b \in BanTime, AddBan(j, h, b)
      PROVE  KeyInv'
  <2> DEFINE row == [jail |-> j, ip |-> h, timeofban |-> now, bantime |-> b]
  <2>1. row \in Bans BY DEF Bans, BanRow, TypeOK
  <2>2. TypeOK'
    <3>1. bans' \subseteq Bans BY <1>1, <2>1 DEF AddBan, InsertBan, TypeOK
    <3>2. call' \in Call BY <1>1, <2>1 DEF AddBan, Begin, Call
    <3> QED BY <1>1, <3>1, <3>2 DEF AddBan, Begin, TypeOK
  <2>3. \A r, s \in bans' : SameBan(r, s) => r = s
    BY <1>1, InsertBanKey DEF AddBan, PrimaryKeys
  <2>4. PrimaryKeys' BY <1>1, <2>3 DEF AddBan, PrimaryKeys
  <2> QED BY <2>2, <2>4
<1>2. ASSUME NEW j \in Jail, NEW h \in Host, RemoveBan(j, h)
      PROVE  KeyInv'
  BY <1>2 DEF RemoveBan, Begin, DeleteMostRecent, TypeOK, PrimaryKeys, Call
<1>3. ASSUME NEW h \in Host, RemoveBanAllJails(h)
      PROVE  KeyInv'
  BY <1>3 DEF RemoveBanAllJails, Begin, DeleteIp, TypeOK, PrimaryKeys, Call
<1>4. CASE RemoveAllBans
  BY <1>4 DEF RemoveAllBans, Begin, TypeOK, PrimaryKeys, Call
<1>5. CASE Purge
  BY <1>5 DEF Purge, Begin, DeleteExpired, TypeOK, PrimaryKeys, Call
<1>6. CASE Finish
  <2>1. CASE SecondAdd
    <3> DEFINE row == [jail |-> call.row.jail, ip |-> call.row.ip,
                       timeofban |-> call.row.timeofban]
    <3>1. row \in Bips
      BY <2>1 DEF SecondAdd, TypeOK, Call, Bans, Bips, BanRow, BipRow
    <3>2. TypeOK' BY <1>6, <2>1, <3>1 DEF Finish, SecondAdd, InsertBip, TypeOK
    <3>3. \A p, q \in bips' : SameHost(p, q) => p = q
      BY <2>1, InsertBipKey DEF SecondAdd, PrimaryKeys
    <3> QED BY <2>1, <3>2, <3>3 DEF SecondAdd, PrimaryKeys
  <2>2. CASE SecondRemove
    BY <1>6, <2>2 DEF Finish, SecondRemove, DeleteBip, TypeOK, PrimaryKeys
  <2>3. CASE SecondRemoveIp
    BY <1>6, <2>3 DEF Finish, SecondRemoveIp, DeleteIp, TypeOK, PrimaryKeys
  <2>4. CASE SecondRemoveAll
    BY <1>6, <2>4 DEF Finish, SecondRemoveAll, TypeOK, PrimaryKeys
  <2>5. CASE SecondPurge
    BY <1>6, <2>5 DEF Finish, SecondPurge, DeleteOld, TypeOK, PrimaryKeys
  <2> QED BY <1>6, <2>1, <2>2, <2>3, <2>4, <2>5 DEF Finish
<1>7. CASE Abort
  BY <1>7 DEF Abort, TypeOK, PrimaryKeys
<1>8. CASE Tick
  BY <1>8, DatabaseAssumption DEF Tick, TypeOK, PrimaryKeys, Time, Call
<1>9. CASE UNCHANGED vars
  BY <1>9 DEF vars, TypeOK, PrimaryKeys
<1> QED BY <1>1, <1>2, <1>3, <1>4, <1>5, <1>6, <1>7, <1>8, <1>9 DEF Next

LEMMA KeyInvariant == Spec => []KeyInv
  BY InitKeyInv, NextKeyInv, PTL DEF Spec

(* The tables are well typed in every reachable state.                     *)
THEOREM TypeCorrect == Spec => []TypeOK
  BY KeyInvariant, PTL DEF KeyInv

(* Whatever statement is lost, list_bans (database.rs:152) returns at most *)
(* one ban of a host in a jail, so restart restores it at most once.       *)
THEOREM RestoresEachHostOnce == Spec => []OneCurrentBanPerHost
<1>1. KeyInv => OneCurrentBanPerHost
  BY DEF KeyInv, PrimaryKeys, OneCurrentBanPerHost, Current, ListBans,
         SameBan, SameHost
<1> QED BY <1>1, KeyInvariant, PTL

-----------------------------------------------------------------------------
(* Until a statement is lost: a row of bips points to the latest ban of   *)
(* its host, except between the two statements of a call about that host.  *)
HalfDone(p) ==
    /\ second
    /\ \/ call.op = "add_ban" /\ SameHost(call.row, p)
       \/ call.op = "remove_ban" /\ call.jail = p.jail /\ call.ip = p.ip
       \/ call.op = "remove_ban_all_jails" /\ call.ip = p.ip
       \/ call.op = "remove_all_bans"

IndexPoints ==
    \A p \in bips : HalfDone(p)
        \/ \E r \in MostRecent(bans, p.jail, p.ip) : SameBan(r, p)
AddedIsLatest ==
    second /\ call.op = "add_ban" =>
        call.row \in MostRecent(bans, call.row.jail, call.row.ip)
NoFutureBan == \A r \in bans : r.timeofban <= now

Latest == KeyInv /\ NoFutureBan /\ AddedIsLatest /\ IndexPoints

LEMMA InitLatest == Init => Latest
  BY InitKeyInv DEF Init, Latest, NoFutureBan, AddedIsLatest, IndexPoints

(* One lemma per kind of statement.                                        *)
LEMMA AddLatest ==
    ASSUME Latest, NEW j \in Jail, NEW h \in Host, NEW b \in BanTime,
           AddBan(j, h, b), KeyInv'
    PROVE  Latest'
<1> DEFINE row == [jail |-> j, ip |-> h, timeofban |-> now, bantime |-> b]
<1>1. /\ call' = [op |-> "add_ban", row |-> row] /\ second' /\ ~second
      /\ bans' = InsertBan(bans, row) /\ bips' = bips /\ now' = now
  BY DEF AddBan, Begin
<1>2. now \in Int /\ \A r \in bans : r.timeofban \in Int /\ r.timeofban <= now
  BY DatabaseAssumption
     DEF Latest, KeyInv, TypeOK, NoFutureBan, Time, Bans, BanRow
<1>3. NoFutureBan'
  BY <1>1, <1>2 DEF NoFutureBan, InsertBan
<1>4. row \in MostRecent(bans', j, h)
  BY <1>1, <1>2 DEF MostRecent, RowsOf, InsertBan
<1>5. AddedIsLatest'
  BY <1>1, <1>4 DEF AddedIsLatest
<1>6. ASSUME NEW p \in bips', ~HalfDone(p)'
      PROVE  \E r \in MostRecent(bans', p.jail, p.ip) : SameBan(r, p)
  <2>1. p \in bips /\ ~HalfDone(p) /\ ~SameHost(row, p)
    BY <1>1, <1>6 DEF HalfDone
  <2>2. PICK r \in MostRecent(bans, p.jail, p.ip) : SameBan(r, p)
    BY <2>1 DEF Latest, IndexPoints
  <2>3. r \in MostRecent(bans', p.jail, p.ip)
    BY <1>1, <2>1, <2>2
       DEF MostRecent, RowsOf, InsertBan, SameBan, SameHost
  <2> QED BY <2>2, <2>3
<1>7. IndexPoints'
  BY <1>6 DEF IndexPoints
<1> QED BY <1>3, <1>5, <1>7 DEF Latest

(* A delete from bans keeps the latest row of a host it is not about.      *)
LEMMA DeleteKeepsLatest ==
    ASSUME NEW S, NEW T \in SUBSET S, NEW j, NEW h,
           NEW r \in MostRecent(S, j, h), r \in T
    PROVE  r \in MostRecent(T, j, h)
  BY DEF MostRecent, RowsOf

LEMMA DeleteLatest ==
    ASSUME Latest, KeyInv',
           \/ \E j \in Jail, h \in Host : RemoveBan(j, h)
           \/ \E h \in Host : RemoveBanAllJails(h)
           \/ RemoveAllBans
    PROVE  Latest'
<1>1. /\ bans' \subseteq bans /\ bips' = bips /\ now' = now
      /\ ~second /\ call'.op # "add_ban"
  BY DEF RemoveBan, RemoveBanAllJails, RemoveAllBans, Begin,
         DeleteMostRecent, DeleteIp
<1>2. NoFutureBan' /\ AddedIsLatest'
  BY <1>1 DEF Latest, NoFutureBan, AddedIsLatest
<1>3. ASSUME NEW p \in bips, ~HalfDone(p)',
             NEW r \in MostRecent(bans, p.jail, p.ip), SameBan(r, p)
      PROVE  r \in bans'
  <2>1. r \in bans /\ r.jail = p.jail /\ r.ip = p.ip
    BY <1>3 DEF MostRecent, RowsOf
  <2>2. ASSUME NEW j \in Jail, NEW h \in Host, RemoveBan(j, h)
        PROVE  r \in bans'
    BY <2>1, <2>2, <1>3
       DEF RemoveBan, Begin, HalfDone, DeleteMostRecent, MostRecent, RowsOf
  <2>3. ASSUME NEW h \in Host, RemoveBanAllJails(h)
        PROVE  r \in bans'
    BY <2>1, <2>3, <1>3 DEF RemoveBanAllJails, Begin, HalfDone, DeleteIp
  <2>4. CASE RemoveAllBans
    BY <2>4, <1>3 DEF RemoveAllBans, Begin, HalfDone
  <2> QED BY <2>2, <2>3, <2>4
<1>4. ASSUME NEW p \in bips, ~HalfDone(p)'
      PROVE  \E r \in MostRecent(bans', p.jail, p.ip) : SameBan(r, p)
  <2>1. PICK r \in MostRecent(bans, p.jail, p.ip) : SameBan(r, p)
    BY <1>1 DEF Latest, IndexPoints, HalfDone
  <2> QED BY <1>1, <1>3, <1>4, <2>1, DeleteKeepsLatest
<1>5. IndexPoints'
  BY <1>1, <1>4 DEF IndexPoints
<1> QED BY <1>2, <1>5 DEF Latest

LEMMA FinishLatest ==
    ASSUME Latest, KeyInv', Finish
    PROVE  Latest'
<1>1. second /\ ~second' /\ now' = now /\ call' = call
  BY DEF Finish
<1>2. bans' \subseteq bans
  BY DEF Finish, SecondAdd, SecondRemove, SecondRemoveIp, SecondRemoveAll,
         SecondPurge, DeleteOld
<1>3. NoFutureBan' /\ AddedIsLatest'
  BY <1>1, <1>2 DEF Latest, NoFutureBan, AddedIsLatest
<1>4. ASSUME NEW p \in bips'
      PROVE  \E r \in MostRecent(bans', p.jail, p.ip) : SameBan(r, p)
  <2>1. CASE SecondAdd /\ SameHost(call.row, p)
    <3>1. SameBan(call.row, p)
      BY <1>4, <2>1 DEF SecondAdd, InsertBip, SameBan, SameHost
    <3>2. call.row \in MostRecent(bans, p.jail, p.ip)
      BY <1>1, <2>1 DEF Latest, AddedIsLatest, SecondAdd, SameHost
    <3> QED BY <2>1, <3>1, <3>2 DEF SecondAdd
  <2>2. CASE ~(SecondAdd /\ SameHost(call.row, p))
    <3>1. p \in bips /\ ~HalfDone(p)
      BY <1>4, <2>2
         DEF Finish, SecondAdd, SecondRemove, SecondRemoveIp, SecondRemoveAll,
             SecondPurge, InsertBip, DeleteBip, DeleteIp, HalfDone, SameHost
    <3>2. PICK r \in MostRecent(bans, p.jail, p.ip) : SameBan(r, p)
      BY <3>1 DEF Latest, IndexPoints
    <3>3. r \in bans'
      BY <3>1, <3>2
         DEF Finish, SecondAdd, SecondRemove, SecondRemoveIp, SecondRemoveAll,
             SecondPurge, DeleteOld, MostRecent, RowsOf, HalfDone
    <3> QED BY <1>2, <3>2, <3>3, DeleteKeepsLatest
  <2> QED BY <2>1, <2>2
<1>5. IndexPoints'
  BY <1>4 DEF IndexPoints
<1> QED BY <1>3, <1>5 DEF Latest

LEMMA NextLatest ==
    ASSUME Latest, [Next]_vars, ~lost'
    PROVE  Latest'
<1>1. KeyInv'
  BY NextKeyInv DEF Latest
<1>2. CASE Purge
  <2>1. /\ bans' = bans /\ bips' \subseteq bips /\ now' = now
        /\ ~second /\ call'.op = "purge"
    BY <1>2 DEF Purge, Begin, DeleteExpired
  <2> QED BY <1>1, <2>1
          DEF Latest, NoFutureBan, AddedIsLatest, IndexPoints, HalfDone
<1>3. CASE Tick
  <2>1. /\ bans' = bans /\ bips' = bips /\ call' = call /\ second' = second
        /\ now \in Int /\ now' = now + 1
        /\ \A r \in bans : r.timeofban \in Int
    BY <1>3, DatabaseAssumption
       DEF Tick, Latest, KeyInv, TypeOK, Time, Bans, BanRow
  <2>2. NoFutureBan'
    BY <2>1 DEF Latest, NoFutureBan
  <2> QED BY <1>1, <2>1, <2>2
          DEF Latest, AddedIsLatest, IndexPoints, HalfDone
<1>4. CASE UNCHANGED vars
  BY <1>1, <1>4 DEF vars, Latest, NoFutureBan, AddedIsLatest, IndexPoints,
                    HalfDone
<1>5. CASE Abort
  BY <1>5 DEF Abort
<1> QED BY <1>1, <1>2, <1>3, <1>4, <1>5, AddLatest, DeleteLatest, FinishLatest
        DEF Next

(* The inductive invariant: the primary keys always, the rest until a      *)
(* statement is lost for the first time.                                   *)
LatestInv == KeyInv /\ (~lost => Latest)

LEMMA LatestInvariant == Spec => []LatestInv
<1>1. Init => LatestInv
  BY InitKeyInv, InitLatest DEF LatestInv
<1>2. LatestInv /\ [Next]_vars => LatestInv'
  <2>1. [Next]_vars /\ ~lost' => ~lost
    BY DEF vars, Next, AddBan, RemoveBan, RemoveBanAllJails, RemoveAllBans,
           Purge, Begin, Finish, Abort, Tick
  <2> QED BY <2>1, NextKeyInv, NextLatest DEF LatestInv
<1> QED BY <1>1, <1>2, PTL DEF Spec

(* Until a statement is lost, list_bans returns the most recent ban of     *)
(* each host it lists (database.rs:150), for all histories.                *)
THEOREM ListsMostRecent == Spec => []CurrentIsMostRecent
<1>1. LatestInv => CurrentIsMostRecent
  <2> SUFFICES ASSUME Latest, ~second, NEW r \in Current
               PROVE  r \in MostRecent(bans, r.jail, r.ip)
    BY DEF LatestInv, CurrentIsMostRecent
  <2>1. PICK p \in bips : SameBan(r, p)
    BY DEF Current, ListBans
  <2>2. PICK s \in MostRecent(bans, p.jail, p.ip) : SameBan(s, p)
    BY DEF Latest, IndexPoints, HalfDone
  <2>3. r = s
    BY <2>1, <2>2 DEF Latest, KeyInv, PrimaryKeys, Current, ListBans,
                      MostRecent, RowsOf, SameBan, SameHost
  <2> QED BY <2>1, <2>2, <2>3 DEF SameBan, SameHost
<1> QED BY <1>1, LatestInvariant, PTL

(* Until a statement is lost, every row of bips has its row in bans        *)
(* between calls, so restore misses no current ban.                        *)
THEOREM RestoreMissesNoBan == Spec => []IndexIsBacked
<1>1. LatestInv => IndexIsBacked
  BY DEF LatestInv, Latest, IndexPoints, HalfDone, IndexIsBacked, MostRecent,
         RowsOf
<1> QED BY <1>1, LatestInvariant, PTL

-----------------------------------------------------------------------------
(* A step that is not about r keeps both rows r is listed for.             *)
LEMMA OthersKept ==
    ASSUME KeyInv, Next, NEW r \in Current, ~About(call', r)
    PROVE  r \in Current'
<1>1. PICK p \in bips : SameBan(r, p)
  BY DEF Current, ListBans
<1>2. r \in bans
  BY DEF Current, ListBans
<1> SUFFICES r \in bans' /\ p \in bips'
  BY <1>1 DEF Current, ListBans
<1>3. ASSUME NEW j \in Jail, NEW h \in Host, NEW b \in BanTime, AddBan(j, h, b)
      PROVE  r \in bans' /\ p \in bips'
  BY <1>1, <1>2, <1>3 DEF AddBan, Begin, InsertBan, About, SameBan, SameHost
<1>4. ASSUME NEW j \in Jail, NEW h \in Host, RemoveBan(j, h)
      PROVE  r \in bans' /\ p \in bips'
  BY <1>1, <1>2, <1>4
     DEF RemoveBan, Begin, DeleteMostRecent, MostRecent, RowsOf, About
<1>5. ASSUME NEW h \in Host, RemoveBanAllJails(h)
      PROVE  r \in bans' /\ p \in bips'
  BY <1>1, <1>2, <1>5 DEF RemoveBanAllJails, Begin, DeleteIp, About
<1>6. CASE RemoveAllBans
  BY <1>6 DEF RemoveAllBans, Begin, About
<1>7. CASE Purge
  <2>1. call' = [op |-> "purge", at |-> now] /\ bans' = bans
        /\ bips' = DeleteExpired(bips, bans, now)
    BY <1>7 DEF Purge, Begin
  <2>2. ~(r.timeofban + r.bantime < now)
    BY <2>1 DEF About
  <2>3. \A s \in bans : SameBan(s, p) => s = r
    BY <1>1, <1>2 DEF KeyInv, PrimaryKeys, SameBan, SameHost
  <2> QED BY <1>2, <2>1, <2>2, <2>3 DEF DeleteExpired
<1>8. CASE Finish
  <2>1. call' = call
    BY <1>8 DEF Finish
  <2>2. CASE SecondAdd
    BY <1>1, <1>2, <2>1, <2>2
       DEF SecondAdd, InsertBip, About, SameBan, SameHost
  <2>3. CASE SecondRemove
    BY <1>1, <1>2, <2>1, <2>3
       DEF SecondRemove, DeleteBip, About, SameBan, SameHost
  <2>4. CASE SecondRemoveIp
    BY <1>1, <1>2, <2>1, <2>4
       DEF SecondRemoveIp, DeleteIp, About, SameBan, SameHost
  <2>5. CASE SecondRemoveAll
    BY <2>1, <2>5 DEF SecondRemoveAll, About
  <2>6. CASE SecondPurge
    BY <1>1, <1>2, <2>6 DEF SecondPurge, DeleteOld
  <2> QED BY <1>8, <2>2, <2>3, <2>4, <2>5, <2>6 DEF Finish
<1>9. CASE Abort \/ Tick
  BY <1>1, <1>2, <1>9 DEF Abort, Tick
<1> QED BY <1>3, <1>4, <1>5, <1>6, <1>7, <1>8, <1>9 DEF Next

(* No call of database.rs makes the current ban of another host disappear, *)
(* and purge only drops bans that have expired, whatever statement is lost. *)
THEOREM CallsAreIsolated == Spec => OnlyTargetsDisturbed
<1>1. KeyInv /\ [Next]_vars =>
        [\A r \in Current : r \notin Current' => About(call', r)]_vars
  BY OthersKept DEF vars
<1> QED BY <1>1, KeyInvariant, PTL DEF Spec, OnlyTargetsDisturbed

-----------------------------------------------------------------------------
(* The row add_ban is about to index is in the history.                    *)
Recorded == second /\ call.op = "add_ban" => call.row \in bans
CallInv == KeyInv /\ Recorded

LEMMA CallInvariant == Spec => []CallInv
<1>1. Init => Recorded
  BY DEF Init, Recorded
<1>2. KeyInv /\ Recorded /\ [Next]_vars => Recorded'
  <2> SUFFICES ASSUME KeyInv, Recorded, [Next]_vars PROVE Recorded'
    OBVIOUS
  <2>1. ASSUME NEW j \in Jail, NEW h \in Host, NEW b \in BanTime, AddBan(j, h, b)
        PROVE  Recorded'
    BY <2>1 DEF AddBan, Begin, InsertBan, Recorded
  <2>2. ASSUME NEW j \in Jail, NEW h \in Host, RemoveBan(j, h) PROVE Recorded'
    BY <2>2 DEF RemoveBan, Begin, Recorded
  <2>3. ASSUME NEW h \in Host, RemoveBanAllJails(h) PROVE Recorded'
    BY <2>3 DEF RemoveBanAllJails, Begin, Recorded
  <2>4. CASE RemoveAllBans BY <2>4 DEF RemoveAllBans, Begin, Recorded
  <2>5. CASE Purge BY <2>5 DEF Purge, Begin, Recorded
  <2>6. CASE Finish \/ Abort BY <2>6 DEF Finish, Abort, Recorded
  <2>7. CASE Tick BY <2>7 DEF Tick, Recorded
  <2>8. CASE UNCHANGED vars BY <2>8 DEF vars, Recorded
  <2> QED BY <2>1, <2>2, <2>3, <2>4, <2>5, <2>6, <2>7, <2>8 DEF Next
<1> QED BY <1>1, <1>2, KeyInvariant, PTL DEF Spec, CallInv

(* What each first statement makes of the list.                            *)
LEMMA AddBanAtOnce ==
    ASSUME KeyInv, NEW j \in Jail, NEW h \in Host, NEW b \in BanTime, AddBan(j, h, b)
    PROVE  Current' \in {Current, List!Effect(call')}
<1> DEFINE row == [jail |-> j, ip |-> h, timeofban |-> now, bantime |-> b]
<1>1. /\ call' = [op |-> "add_ban", row |-> row]
      /\ bips' = bips /\ bans' = {r \in bans : ~SameBan(r, row)} \cup {row}
  BY DEF AddBan, Begin, InsertBan
<1>2. List!Effect(call') = {r \in Current : ~SameHost(r, row)} \cup {row}
  BY <1>1 DEF List!Effect, List!Of, SameHost
<1>3. CASE \E p \in bips : SameBan(row, p)
  <2>1. \A r \in Current : SameHost(r, row) => SameBan(r, row)
    BY <1>3 DEF KeyInv, PrimaryKeys, Current, ListBans, SameBan, SameHost
  <2>2. Current' = {r \in Current : ~SameHost(r, row)} \cup {row}
    BY <1>1, <1>3, <2>1 DEF Current, ListBans, SameBan
  <2> QED BY <1>2, <2>2
<1>4. CASE ~\E p \in bips : SameBan(row, p)
  <2>1. Current' = Current
    BY <1>1, <1>4 DEF Current, ListBans, SameBan, SameHost
  <2> QED BY <2>1
<1> QED BY <1>3, <1>4

LEMMA RemoveBanAtOnce ==
    ASSUME KeyInv, NEW j \in Jail, NEW h \in Host, RemoveBan(j, h)
    PROVE  Current' \in {Current, List!Effect(call')}
<1>1. /\ call' = [op |-> "remove_ban", jail |-> j, ip |-> h]
      /\ bips' = bips /\ bans' = bans \ MostRecent(bans, j, h)
  BY DEF RemoveBan, Begin, DeleteMostRecent
<1>2. List!Effect(call') = {r \in Current : ~(r.jail = j /\ r.ip = h)}
  BY <1>1 DEF List!Effect, List!Of
<1>3. Current' = Current \ MostRecent(bans, j, h)
  BY <1>1 DEF Current, ListBans
<1>4. \A r \in MostRecent(bans, j, h) : r.jail = j /\ r.ip = h
  BY DEF MostRecent, RowsOf
<1>5. \A r, s \in Current : SameHost(r, s) => r = s
  BY DEF KeyInv, PrimaryKeys, Current, ListBans, SameBan, SameHost
<1> QED BY <1>2, <1>3, <1>4, <1>5 DEF SameHost

LEMMA PurgeAtOnce ==
    ASSUME KeyInv, Purge
    PROVE  Current' \in {Current, List!Effect(call')}
<1>1. /\ call' = [op |-> "purge", at |-> now]
      /\ bans' = bans /\ bips' = DeleteExpired(bips, bans, now)
  BY DEF Purge, Begin
<1>2. List!Effect(call') = {r \in Current : r.timeofban + r.bantime >= now}
  BY <1>1 DEF List!Effect
<1>3. \A r \in bans : r.timeofban \in Int /\ r.bantime \in Int
  <2>1. Time \subseteq Int
    BY DatabaseAssumption DEF Time
  <2>2. \A r \in bans : r.timeofban \in Time /\ r.bantime \in BanTime
    BY DEF KeyInv, TypeOK, Bans, BanRow
  <2> QED BY <2>1, <2>2, DatabaseAssumption
<1>4. now \in Int
  BY DEF KeyInv, TypeOK, Time
<1>5. \A r \in bans, p \in bips :
        SameBan(r, p) => (p \in bips' <=> ~(r.timeofban + r.bantime < now))
  BY <1>1 DEF DeleteExpired, KeyInv, PrimaryKeys, SameBan, SameHost
<1>6. bips' \subseteq bips
  BY <1>1 DEF DeleteExpired
<1>7. Current' = {r \in Current : ~(r.timeofban + r.bantime < now)}
  BY <1>1, <1>5, <1>6 DEF Current, ListBans
<1>8. \A r \in Current : ~(r.timeofban + r.bantime < now)
                         <=> r.timeofban + r.bantime >= now
  BY <1>3, <1>4 DEF Current, ListBans
<1> QED BY <1>2, <1>7, <1>8

(* ... and each second one.                                                *)
LEMMA FinishAtOnce ==
    ASSUME CallInv, Finish
    PROVE  Current' \in {Current, List!Effect(call)}
<1>1. CASE SecondAdd
  <2> DEFINE row == call.row
             entry == [jail |-> row.jail, ip |-> row.ip, timeofban |-> row.timeofban]
  <2>1. /\ call.op = "add_ban" /\ row \in bans
        /\ bans' = bans /\ bips' = {p \in bips : ~SameHost(p, entry)} \cup {entry}
    BY <1>1 DEF SecondAdd, InsertBip, Finish, CallInv, Recorded
  <2>2. List!Effect(call) = {r \in Current : ~SameHost(r, row)} \cup {row}
    BY <2>1 DEF List!Effect, List!Of, SameHost
  <2> HIDE DEF row
  <2>3. SameBan(row, entry) /\ \A r : SameHost(r, entry) <=> SameHost(r, row)
    BY DEF SameBan, SameHost
  <2>4. \A r \in bans : SameBan(r, entry) => r = row
    BY <2>1 DEF CallInv, KeyInv, PrimaryKeys, SameBan, SameHost
  <2>5. Current' = {r \in bans : \E p \in bips' : SameBan(r, p)}
    BY <2>1 DEF Current, ListBans
  <2>6. ASSUME NEW r \in Current' PROVE r = row \/ (r \in Current /\ ~SameHost(r, row))
    BY <2>1, <2>3, <2>4, <2>5 DEF Current, ListBans, SameBan, SameHost
  <2>7. ASSUME NEW r \in Current, ~SameHost(r, row) PROVE r \in Current'
    BY <2>1, <2>3, <2>5, <2>7 DEF Current, ListBans, SameBan, SameHost
  <2>8. row \in Current'
    BY <2>1, <2>3, <2>5
  <2> QED BY <2>2, <2>6, <2>7, <2>8
<1>2. CASE SecondRemove
  BY <1>2 DEF SecondRemove, DeleteBip, List!Effect, List!Of, Current, ListBans,
              SameBan, SameHost
<1>3. CASE SecondRemoveIp
  BY <1>3 DEF SecondRemoveIp, DeleteIp, List!Effect, Current, ListBans,
              SameBan, SameHost
<1>4. CASE SecondRemoveAll
  BY <1>4 DEF SecondRemoveAll, List!Effect, Current, ListBans
<1>5. CASE SecondPurge
  BY <1>5 DEF SecondPurge, DeleteOld, Current, ListBans
<1> QED BY <1>1, <1>2, <1>3, <1>4, <1>5 DEF Finish

(* Every step of Database is one of BanList, or none.                      *)
LEMMA StepsMap == CallInv /\ [Next]_vars => [List!Next]_(List!vars)
<1> SUFFICES ASSUME CallInv, [Next]_vars PROVE [List!Next]_(List!vars)
  OBVIOUS
<1>1. ASSUME NEW j \in Jail, NEW h \in Host, NEW b \in BanTime, AddBan(j, h, b)
      PROVE  List!Next
  <2>1. call' \in List!Calls
    BY <1>1 DEF AddBan, Begin, List!Calls
  <2>2. List!Come(call')
    BY <1>1, AddBanAtOnce DEF AddBan, Begin, List!Come, CallInv
  <2> QED BY <2>1, <2>2 DEF List!Next
<1>2. ASSUME NEW j \in Jail, NEW h \in Host, RemoveBan(j, h) PROVE List!Next
  <2>1. call' \in List!Calls
    BY <1>2 DEF RemoveBan, Begin, List!Calls
  <2>2. List!Come(call')
    BY <1>2, RemoveBanAtOnce DEF RemoveBan, Begin, List!Come, CallInv
  <2> QED BY <2>1, <2>2 DEF List!Next
<1>3. ASSUME NEW h \in Host, RemoveBanAllJails(h) PROVE List!Next
  <2>1. call' \in List!Calls
    BY <1>3 DEF RemoveBanAllJails, Begin, List!Calls
  <2>2. Current' = List!Effect(call')
    BY <1>3 DEF RemoveBanAllJails, Begin, DeleteIp, List!Effect, Current, ListBans
  <2>3. List!Come(call')
    BY <1>3, <2>2 DEF RemoveBanAllJails, Begin, List!Come
  <2> QED BY <2>1, <2>3 DEF List!Next
<1>4. CASE RemoveAllBans
  <2>1. call' \in List!Calls
    BY <1>4 DEF RemoveAllBans, Begin, List!Calls
  <2>2. Current' = List!Effect(call')
    BY <1>4 DEF RemoveAllBans, Begin, List!Effect, Current, ListBans
  <2>3. List!Come(call')
    BY <1>4, <2>2 DEF RemoveAllBans, Begin, List!Come
  <2> QED BY <2>1, <2>3 DEF List!Next
<1>5. CASE Purge
  <2>1. call' \in List!Calls
    BY <1>5 DEF Purge, Begin, List!Calls
  <2>2. List!Come(call')
    BY <1>5, PurgeAtOnce DEF Purge, Begin, List!Come, CallInv
  <2> QED BY <2>1, <2>2 DEF List!Next
<1>6. CASE Finish
  <2>1. List!Return
    BY <1>6, FinishAtOnce DEF Finish, List!Return
  <2> QED BY <2>1 DEF List!Next
<1>7. CASE Abort
  <2>1. List!Return
    BY <1>7 DEF Abort, List!Return, Current
  <2> QED BY <2>1 DEF List!Next
<1>8. CASE Tick
  BY <1>8 DEF Tick, List!Next, List!Tick, Current
<1>9. CASE UNCHANGED vars
  BY <1>9 DEF vars, List!vars, Current
<1> QED BY <1>1, <1>2, <1>3, <1>4, <1>5, <1>6, <1>7, <1>8, <1>9 DEF Next

(* The two statements of database.rs's calls, in no transaction, implement *)
(* the list of BanList: each call takes effect at once, at one of its two  *)
(* statements, or not at all, wherever it is cut short.                    *)
THEOREM CallsTakeEffectAtOnce == Spec => CallsAreAtomic
<1>1. Init => List!Init
  BY DEF Init, List!Init, Current, ListBans
<1> QED BY <1>1, StepsMap, CallInvariant, PTL DEF Spec, CallsAreAtomic, List!Spec
=============================================================================
