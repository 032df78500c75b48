----------------------------- MODULE BanTables -----------------------------
(***************************************************************************)
(* The SQL statements of server/database.rs as operators on two sets of    *)
(* rows: bans, the ban history with primary key (jail, ip, timeofban), and *)
(* bips, the index of current bans with primary key (jail, ip).  Times and *)
(* durations are whole seconds, as in the tables.                          *)
(***************************************************************************)
EXTENDS Integers, FiniteSets

BanRow(Jail, Host, Time, Secs) ==
    [jail : Jail, ip : Host, timeofban : Time, bantime : Secs]
BipRow(Jail, Host, Time) == [jail : Jail, ip : Host, timeofban : Time]

SameHost(r, s) == r.jail = s.jail /\ r.ip = s.ip
SameBan(r, s) == SameHost(r, s) /\ r.timeofban = s.timeofban

(* The rows of one (jail, ip), and the one statements that say             *)
(* "ORDER BY timeofban DESC LIMIT 1" pick.                                 *)
RowsOf(bans, j, h) == {r \in bans : r.jail = j /\ r.ip = h}
MostRecent(bans, j, h) ==
    {r \in RowsOf(bans, j, h) :
        \A s \in RowsOf(bans, j, h) : s.timeofban <= r.timeofban}

(* Mutated forms, here and before other definitions: what a slip in the    *)
(* code would make of the definition below them.                           *)
InsertBanExpiry(bans, row) ==
    bans \cup {[row EXCEPT !.timeofban = @ + row.bantime]}
InsertBipNoReplace(bips, row) == bips \cup {row}
InsertBipIgnore(bips, row) ==
    IF \E p \in bips : SameHost(p, row) THEN bips ELSE bips \cup {row}
DeleteBipForgotten(bips, j, h) == bips
DeleteBipAnyJail(bips, j, h) == {p \in bips : p.ip # h}

(* INSERT OR REPLACE INTO bans, INSERT OR REPLACE INTO bips.               *)
InsertBan(bans, row) == {r \in bans : ~SameBan(r, row)} \cup {row}
InsertBip(bips, row) == {p \in bips : ~SameHost(p, row)} \cup {row}

(* The two deletes of remove_ban.                                          *)
DeleteMostRecent(bans, j, h) == bans \ MostRecent(bans, j, h)
DeleteBip(bips, j, h) == {p \in bips : ~(p.jail = j /\ p.ip = h)}

(* DELETE ... WHERE ip = ?, on either table.                               *)
DeleteIp(rows, h) == {r \in rows : r.ip # h}

(* The two deletes of purge.                                               *)
DeleteExpired(bips, bans, now) ==
    {p \in bips : ~\E r \in bans :
                      SameBan(r, p) /\ r.timeofban + r.bantime < now}
DeleteOld(bans, bips, cutoff) ==
    {r \in bans : r.timeofban >= cutoff \/ \E p \in bips : SameBan(r, p)}

(* list_bans (the inner join of both tables) and ban_count.                *)
ListBans(bans, bips) == {r \in bans : \E p \in bips : SameBan(r, p)}
BanCount(bans, j, h) == Cardinality(RowsOf(bans, j, h))
============================================================================
