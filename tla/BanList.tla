------------------------------- MODULE BanList -------------------------------
(***************************************************************************)
(* What the ban database promises its callers: a list of the current bans, *)
(* at most one of each host in each jail, that every call changes at once  *)
(* or not at all, whatever happens to the call.  Database shows how this   *)
(* is done with two statements that are no transaction.                    *)
(***************************************************************************)
EXTENDS Integers

CONSTANTS Jail, Host, BanTime

VARIABLES
    listed,     \* what list_bans returns
    now,        \* the clock
    call, open  \* the last call, and whether it has yet to return

vars == <<listed, now, call, open>>

Init == listed = {} /\ now = 0 /\ call = [op |-> "remove_all_bans"] /\ open = FALSE

Calls ==
    [op : {"add_ban"}, row : [jail : Jail, ip : Host, timeofban : {now}, bantime : BanTime]]
    \cup [op : {"remove_ban"}, jail : Jail, ip : Host]
    \cup [op : {"remove_ban_all_jails"}, ip : Host]
    \cup [op : {"remove_all_bans"}]
    \cup [op : {"purge"}, at : {now}]

Of(j, h) == {r \in listed : r.jail = j /\ r.ip = h}

(* The list after a call that did its work.                                *)
Effect(c) ==
    CASE c.op = "add_ban" -> (listed \ Of(c.row.jail, c.row.ip)) \cup {c.row}
      [] c.op = "remove_ban" -> listed \ Of(c.jail, c.ip)
      [] c.op = "remove_ban_all_jails" -> {r \in listed : r.ip # c.ip}
      [] c.op = "remove_all_bans" -> {}
      [] c.op = "purge" -> {r \in listed : r.timeofban + r.bantime >= c.at}

(* It takes effect when it comes, when it returns, or never.               *)
Come(c) ==
    /\ ~open /\ open' = TRUE /\ call' = c
    /\ listed' \in {listed, Effect(c)}
    /\ UNCHANGED now
Return ==
    /\ open /\ open' = FALSE
    /\ listed' \in {listed, Effect(call)}
    /\ UNCHANGED <<now, call>>
Tick == now' = now + 1 /\ UNCHANGED <<listed, call, open>>

Next == (\E c \in Calls : Come(c)) \/ Return \/ Tick

Spec == Init /\ [][Next]_vars
=============================================================================
