------------------------------ MODULE Database ------------------------------
(***************************************************************************)
(* server/database.rs, one SQL statement per step.  Every call takes the   *)
(* connection mutex and runs one or two statements outside a transaction,  *)
(* so each statement commits on its own: when the second one fails, or the *)
(* process is killed before it, the first one's effect stays.  All callers *)
(* drop the error (`let _ = db...`).                                       *)
(***************************************************************************)
EXTENDS BanTables

CONSTANTS Jail, Host,
          BanTime,            \* the values of column bantime
          MaxAge,             \* the argument of purge
          MaxTime             \* bound on the clock

ASSUME DatabaseAssumption ==
    /\ BanTime \subseteq Int
    /\ MaxAge \in Nat
    /\ MaxTime \in Nat

VARIABLES
    bans, bips,     \* the two tables
    now,            \* Utc::now().timestamp()
    call,           \* the call that holds, or held last, the mutex
    second,         \* is its second statement still to run?
    lost            \* history: has a second statement ever been lost?

vars == <<bans, bips, now, call, second, lost>>

Time == 0..MaxTime
Bans == BanRow(Jail, Host, Time, BanTime)
Bips == BipRow(Jail, Host, Time)
Call == [op : {"add_ban"}, row : Bans]
        \cup [op : {"remove_ban"}, jail : Jail, ip : Host]
        \cup [op : {"remove_ban_all_jails"}, ip : Host]
        \cup [op : {"remove_all_bans"}]
        \cup [op : {"purge"}, at : Time]

Init ==
    /\ bans = {} /\ bips = {}
    /\ now = 0
    /\ call = [op |-> "remove_all_bans"]
    /\ second = FALSE /\ lost = FALSE

-----------------------------------------------------------------------------
(* The first statement of each call.  The jail task takes time_of_ban from *)
(* the clock just before add_ban (ticket_from_fail).                       *)
Begin(c) == ~second /\ call' = c /\ second' = TRUE /\ lost' = lost

AddBan(j, h, b) ==
    LET row == [jail |-> j, ip |-> h, timeofban |-> now, bantime |-> b]
    IN  /\ Begin([op |-> "add_ban", row |-> row])
        /\ bans' = InsertBan(bans, row)
        /\ UNCHANGED <<bips, now>>

RemoveBan(j, h) ==
    /\ Begin([op |-> "remove_ban", jail |-> j, ip |-> h])
    /\ bans' = DeleteMostRecent(bans, j, h)
    /\ UNCHANGED <<bips, now>>

RemoveBanAllJails(h) ==
    /\ Begin([op |-> "remove_ban_all_jails", ip |-> h])
    /\ bans' = DeleteIp(bans, h)
    /\ UNCHANGED <<bips, now>>

RemoveAllBans ==
    /\ Begin([op |-> "remove_all_bans"])
    /\ bans' = {}
    /\ UNCHANGED <<bips, now>>

Purge ==
    /\ Begin([op |-> "purge", at |-> now])
    /\ bips' = DeleteExpired(bips, bans, now)
    /\ UNCHANGED <<bans, now>>

(* The second statement, and the return that releases the mutex.           *)
SecondAdd ==
    /\ call.op = "add_ban"
    /\ bips' = InsertBip(bips, [jail |-> call.row.jail, ip |-> call.row.ip,
                                timeofban |-> call.row.timeofban])
    /\ UNCHANGED bans

SecondRemove ==
    /\ call.op = "remove_ban"
    /\ bips' = DeleteBip(bips, call.jail, call.ip)
    /\ UNCHANGED bans

SecondRemoveIp ==
    /\ call.op = "remove_ban_all_jails"
    /\ bips' = DeleteIp(bips, call.ip)
    /\ UNCHANGED bans

SecondRemoveAll == call.op = "remove_all_bans" /\ bips' = {} /\ UNCHANGED bans

SecondPurge ==
    /\ call.op = "purge"
    /\ bans' = DeleteOld(bans, bips, call.at - MaxAge)
    /\ UNCHANGED bips

Finish ==
    /\ second
    /\ SecondAdd \/ SecondRemove \/ SecondRemoveIp \/ SecondRemoveAll
       \/ SecondPurge
    /\ second' = FALSE
    /\ UNCHANGED <<now, call, lost>>

(* The second statement returns an error, or the process dies before it.   *)
Abort ==
    /\ second /\ second' = FALSE
    /\ lost' = TRUE
    /\ UNCHANGED <<bans, bips, now, call>>

Tick ==
    /\ now < MaxTime /\ now' = now + 1
    /\ UNCHANGED <<bans, bips, call, second, lost>>

Next ==
    \/ \E j \in Jail, h \in Host, b \in BanTime : AddBan(j, h, b)
    \/ \E j \in Jail, h \in Host : RemoveBan(j, h)
    \/ \E h \in Host : RemoveBanAllJails(h)
    \/ RemoveAllBans
    \/ Purge
    \/ Finish
    \/ Abort
    \/ Tick

Spec == Init /\ [][Next]_vars

-----------------------------------------------------------------------------
Current == ListBans(bans, bips)

(* The tables hold rows and the mutex holder is a call of the API.         *)
TypeOK ==
    /\ bans \subseteq Bans
    /\ bips \subseteq Bips
    /\ now \in Time
    /\ call \in Call
    /\ second \in BOOLEAN /\ lost \in BOOLEAN

(* list_bans never returns two bans of one host in one jail, whatever      *)
(* statement was lost: restart restores each host at most once.            *)
OneCurrentBanPerHost ==
    \A r, s \in Current : SameHost(r, s) => r = s

(* As long as no statement was lost, list_bans returns "the most recent"   *)
(* ban of a host (database.rs:150).                                        *)
CurrentIsMostRecent ==
    ~second /\ ~lost => \A r \in Current : r \in MostRecent(bans, r.jail, r.ip)

(* As long as no statement was lost, between calls every row of the index  *)
(* of current bans has its row in the history: no current ban is invisible *)
(* to restore.                                                             *)
IndexIsBacked ==
    ~second /\ ~lost => \A p \in bips : \E r \in bans : SameBan(r, p)

(* A current ban goes away only by a call about its host, by               *)
(* remove_all_bans, or by a purge after the ban expired: no call disturbs  *)
(* the bans of other hosts or jails, even when its second half is lost.    *)
About(c, r) ==
    \/ c.op = "add_ban" /\ SameHost(c.row, r)
    \/ c.op = "remove_ban" /\ c.jail = r.jail /\ c.ip = r.ip
    \/ c.op = "remove_ban_all_jails" /\ c.ip = r.ip
    \/ c.op = "remove_all_bans"
    \/ c.op = "purge" /\ r.timeofban + r.bantime < c.at
OnlyTargetsDisturbed ==
    [][\A r \in Current : r \notin Current' => About(call', r)]_vars

(* Although it is two statements outside a transaction, each call changes  *)
(* what list_bans returns (database.rs:152), hence what a restart restores,*)
(* at once and as it should, or, if it is cut short, perhaps not at all.   *)
List == INSTANCE BanList WITH listed <- Current, open <- second
CallsAreAtomic == List!Spec
=============================================================================
