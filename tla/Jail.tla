-------------------------------- MODULE Jail --------------------------------
(***************************************************************************)
(* One jail: the task of server/jail.rs with its BanManager, the commands  *)
(* clients queue for it (commands.rs, server.rs), the tables it writes,    *)
(* and the firewall its actions change.  A step of the task is what it     *)
(* does between two awaits; every external action command is an await.     *)
(* A database call is one step here (Database takes it apart), and         *)
(* whether a line promotes a host is FailManager's matter: here any host   *)
(* may be promoted while the task is idle.                                 *)
(***************************************************************************)
EXTENDS BanTables, Sequences, Powers

CONSTANTS Host, Action, None, JailName,
          FlushAction,     \* the actions that define actionflush
          OnDemand,        \* actionstart_on_demand
          RuleBag,         \* does each actionban add one more rule?
          ActionsMayFail,  \* may an action command fail or time out?
          Ops,             \* the operations the environment uses
          QuietRestore,    \* do no lines arrive while a restore is under way?
          BanSecs, Factor, \* bantime, and bantime_factor when incremented
          QueueCap,        \* capacity of the command channel
          MaxTime, MaxBans \* bounds

AllOps == {"banip", "unbanip", "unban", "unban_all", "stop", "crash",
           "start", "start_all", "start_all_again"}

ASSUME JailAssumption ==
    /\ None \notin Host /\ FlushAction \subseteq Action
    /\ {OnDemand, RuleBag, ActionsMayFail, QuietRestore} \subseteq BOOLEAN
    /\ Ops \subseteq AllOps
    /\ BanSecs \in Nat \ {0} /\ Factor \in Nat \ {0} /\ QueueCap \in Nat \ {0}
    /\ MaxTime \in Nat /\ MaxBans \in Nat

VARIABLES
    pc,          \* what the jail task is doing
    cur,         \* the row of the ban, or the host of the expiry, under way
    todo,        \* the action commands still to run for it, as <<action, host>>
    work,        \* purge: the expired hosts still to be unbanned
    leaving,     \* has the task left its loop on Stop?
    banMgr,      \* BanManager.bans: the ban row of a host, or None
    started,     \* Action.started in the jail's own copy
    queue,       \* the command channel
    bans, bips,  \* the jail's rows of the two tables
    rules,       \* the firewall: rules of each action for each host
    lock,        \* the call that holds the server's jails mutex
    sent,        \* has that call sent its command to the jail?
    client,      \* the host of the unban call that holds it
    boot, rows,  \* restore_bans_from_db: its progress and its snapshot
    now,
    issued,      \* history: the bans of a host, by lines and by hand
    mishap,      \* history: has a command failed, or the process died?
    stray,       \* history: rules put on top of others, or that a flush, a
                 \* stop, a crash or a failed command left behind
    bare         \* history: hosts listed without their rules, by a restore
                 \* or after a failed actionban

task == <<pc, cur, todo, work, leaving, banMgr, started>>
tables == <<bans, bips>>
server == <<lock, sent, client, boot, rows>>
past == <<now, issued, mishap, stray, bare>>
vars == <<task, queue, tables, rules, server, past>>

Row(h, t, secs) ==
    [jail |-> JailName, ip |-> h, timeofban |-> t, bantime |-> secs]
Each(h) == Action \X {h}
NoBans == [h \in Host |-> None]
NoRules == [h \in Host |-> 0]
banned == {h \in Host : banMgr[h] # None}
Expired(r) == now >= r.timeofban + r.bantime
ExpiredHosts == {h \in banned : Expired(banMgr[h])}

Init ==
    /\ pc = "down" /\ cur = None /\ todo = {} /\ work = {} /\ leaving = FALSE
    /\ banMgr = NoBans /\ started = [a \in Action |-> FALSE]
    /\ queue = <<>> /\ bans = {} /\ bips = {}
    /\ rules = [a \in Action |-> NoRules]
    /\ lock = "free" /\ sent = FALSE /\ client = None /\ boot = "none" /\ rows = {}
    /\ now = 0 /\ issued = [h \in Host |-> 0] /\ mishap = FALSE
    /\ stray = [a \in Action |-> NoRules] /\ bare = {}

-----------------------------------------------------------------------------
(* The external commands.                                                  *)
AddRule(n) == IF RuleBag THEN n + 1 ELSE 1
DropRule(n) == IF n > 0 THEN n - 1 ELSE 0

(* Ban, unban, flush and stop commands, by what the task is doing.  A      *)
(* flush or a stop, <<a, None>>, clears all rules of the action.           *)
AfterCommand(a, h) ==
    IF h = None THEN [rules EXCEPT ![a] = NoRules]
    ELSE IF pc \in {"banning", "manual"} THEN [rules EXCEPT ![a][h] = AddRule(@)]
    ELSE [rules EXCEPT ![a][h] = DropRule(@)]

(* History.  A rule added on top of one is one too many: the actionunban   *)
(* of the host removes only one.                                           *)
StrayAfter(a, h) ==
    IF h = None THEN [stray EXCEPT ![a] = NoRules]
    ELSE IF pc \in {"banning", "manual"}
    THEN [stray EXCEPT ![a][h] = IF ~RuleBag THEN 0
                                 ELSE IF rules[a][h] > @ THEN @ + 1 ELSE @]
    ELSE [stray EXCEPT ![a][h] = IF @ > DropRule(rules[a][h])
                                 THEN DropRule(rules[a][h]) ELSE @]
Failed(a, h) ==
    /\ mishap' = TRUE
    /\ stray' = IF h = None THEN [stray EXCEPT ![a] = rules[a]]
                ELSE IF pc \in {"banning", "manual"} THEN stray
                ELSE [stray EXCEPT ![a][h] = rules[a][h]]
    /\ bare' = IF pc \in {"banning", "manual"} /\ rules[a][h] = 0
               THEN bare \cup {h} ELSE bare

(* The next command of the operation under way.  A failed check, repair or *)
(* ban, and a failed unban, flush or stop, are logged and passed over.     *)
RunCommand ==
    /\ \E c \in todo :
          /\ todo' = todo \ {c}
          /\ \/ /\ rules' = AfterCommand(c[1], c[2])
                /\ stray' = StrayAfter(c[1], c[2])
                /\ UNCHANGED <<mishap, bare>>
             \/ ActionsMayFail /\ Failed(c[1], c[2]) /\ UNCHANGED rules
    /\ UNCHANGED <<pc, cur, work, leaving, banMgr, started, queue, tables,
                   server, now, issued>>

-----------------------------------------------------------------------------
(* compute_bantime: base * factor ^ ban_count.  The task computes it just  *)
(* before the ignorecommand; only an unban could change the count since.   *)
BanTimeOf(h) == BanSecs * Power(Factor, BanCount(bans, JailName, h))

(* issue_ban, up to its first await: the ban is written to the database.   *)
Restoring == boot # "none" \/ \E i \in DOMAIN queue : queue[i].cmd = "restore"
IssueBan(h) ==
    /\ pc = "idle"
    /\ issued[h] < MaxBans
    /\ QuietRestore => ~Restoring
    /\ LET r == Row(h, now, BanTimeOf(h))
       IN  /\ cur' = r
           /\ bans' = InsertBan(bans, r)
           /\ bips' = InsertBip(bips, [jail |-> r.jail, ip |-> r.ip,
                                       timeofban |-> r.timeofban])
    /\ pc' = "banning" /\ todo' = Each(h)
    /\ issued' = [issued EXCEPT ![h] = @ + 1]
    /\ bare' = bare \ {h}
    /\ UNCHANGED <<work, leaving, banMgr, started, queue, rules, server, now,
                   mishap, stray>>

(* Mutated form.                                                           *)
FinishBanUncleared ==
    /\ pc = "banning" /\ todo = {}
    /\ banMgr' = [banMgr EXCEPT ![cur.ip] = cur] /\ pc' = "idle"
    /\ UNCHANGED <<cur, todo, work, leaving, started, queue, tables, rules,
                   server, past>>

FinishBan ==
    /\ pc = "banning" /\ todo = {}
    /\ banMgr' = [banMgr EXCEPT ![cur.ip] = cur]
    /\ pc' = "idle" /\ cur' = None
    /\ UNCHANGED <<todo, work, leaving, started, queue, tables, rules, server,
                   past>>

(* The end of manual_ban: the ticket is dated after the commands ran, and  *)
(* nothing is written to the database.                                     *)
FinishManualBan ==
    /\ pc = "manual" /\ todo = {}
    /\ banMgr' = [banMgr EXCEPT ![cur.ip] = [cur EXCEPT !.timeofban = now]]
    /\ pc' = "idle" /\ cur' = None
    /\ UNCHANGED <<todo, work, leaving, started, queue, tables, rules, server,
                   past>>

FinishUnban ==
    /\ pc \in {"unbanning", "flushing"} /\ todo = {}
    /\ pc' = "idle"
    /\ UNCHANGED <<cur, todo, work, leaving, banMgr, started, queue, tables,
                   rules, server, past>>

(* Mutated forms: tickets taken and not unbanned, unbanned and not taken.  *)
TakeExpiredDropped ==
    banMgr' = [h \in Host |-> IF h \in ExpiredHosts THEN None ELSE banMgr[h]]
    /\ work' = {} /\ pc' = "expiring"
TakeExpiredKept == banMgr' = banMgr /\ work' = ExpiredHosts /\ pc' = "expiring"

(* purge_expired_bans takes the expired tickets out of the BanManager,     *)
(* then unbans them one by one, each row going after its commands.         *)
TakeExpired ==
    /\ banMgr' = [h \in Host |-> IF h \in ExpiredHosts THEN None ELSE banMgr[h]]
    /\ work' = ExpiredHosts
    /\ pc' = "expiring"

PurgeExpiredBans ==
    /\ pc = "idle" /\ ExpiredHosts # {}
    /\ TakeExpired
    /\ UNCHANGED <<cur, todo, leaving, started, queue, tables, rules, server,
                   past>>

ExpireNext ==
    /\ pc = "expiring" /\ cur = None
    /\ \E h \in work : cur' = h /\ work' = work \ {h} /\ todo' = Each(h)
    /\ UNCHANGED <<pc, leaving, banMgr, started, queue, tables, rules, server,
                   past>>

ExpireRow ==
    /\ pc = "expiring" /\ cur # None /\ todo = {}
    /\ bans' = DeleteMostRecent(bans, JailName, cur)
    /\ bips' = DeleteBip(bips, JailName, cur)
    /\ cur' = None
    /\ UNCHANGED <<pc, todo, work, leaving, banMgr, started, queue, rules,
                   server, past>>

(* Mutated form: actionstop is forgotten.                                  *)
StopTodoForgotten == {}

(* After purge the task goes on, or runs actionstop of started actions.    *)
StopTodo == {a \in Action : started[a]} \X {None}
FinishPurge ==
    /\ pc = "expiring" /\ cur = None /\ work = {}
    /\ pc' = IF leaving THEN "stopping" ELSE "idle"
    /\ todo' = IF leaving THEN StopTodo ELSE {}
    /\ stray' = [a \in Action |-> IF leaving /\ ~started[a] THEN rules[a]
                                  ELSE stray[a]]
    /\ UNCHANGED <<cur, work, leaving, banMgr, started, queue, tables, rules,
                   server, now, issued, mishap, bare>>

(* The task ends, stop_jail returns and the jails mutex is released.       *)
FinishStop ==
    /\ pc = "stopping" /\ todo = {}
    /\ pc' = "down" /\ leaving' = FALSE
    /\ banMgr' = NoBans /\ queue' = <<>>
    /\ lock' = "free" /\ sent' = FALSE
    /\ bare' = {}
    /\ UNCHANGED <<cur, todo, work, started, tables, rules, client, boot, rows,
                   now, issued, mishap, stray>>

-----------------------------------------------------------------------------
(* The command branch of the task's select loop.                           *)
Receive(cmd) ==
    /\ pc = "idle" /\ queue # <<>> /\ Head(queue).cmd = cmd
    /\ queue' = Tail(queue)
    /\ UNCHANGED <<rules, server, now, issued, mishap>>

ManualBan ==
    /\ Receive("banip")
    /\ LET h == Head(queue).host
       IN  cur' = Row(h, now, BanTimeOf(h)) /\ todo' = Each(h)
    /\ pc' = "manual"
    /\ bare' = bare \ {Head(queue).host}
    /\ UNCHANGED <<work, leaving, banMgr, started, tables, stray>>

ManualUnban ==
    LET h == Head(queue).host
    IN  /\ Receive("unbanip")
        /\ IF h \in banned
           THEN /\ banMgr' = [banMgr EXCEPT ![h] = None]
                /\ bans' = DeleteMostRecent(bans, JailName, h)
                /\ bips' = DeleteBip(bips, JailName, h)
                /\ pc' = "unbanning" /\ todo' = Each(h)
           ELSE UNCHANGED <<banMgr, tables, pc, todo>>
        /\ UNCHANGED <<cur, work, leaving, started, stray, bare>>

FlushTodo == IF FlushAction # {} THEN FlushAction \X {None} ELSE Action \X banned

(* flush_all_bans: one remove_ban per ticket, then the actionflush of the  *)
(* actions that have one, or per-host unbans when no action has.           *)
FlushAllBans ==
    /\ Receive("flush")
    /\ banMgr' = NoBans
    /\ bans' = {r \in bans : r.ip \in banned =>
                                r \notin MostRecent(bans, JailName, r.ip)}
    /\ bips' = {p \in bips : p.ip \notin banned}
    /\ pc' = "flushing"
    /\ todo' = FlushTodo
    /\ stray' = [a \in Action |-> [h \in Host |->
                   IF FlushAction # {} /\ a \notin FlushAction /\ h \in banned
                   THEN rules[a][h] ELSE stray[a][h]]]
    /\ UNCHANGED <<cur, work, leaving, started, bare>>

(* Mutated form: a restored ban starts anew.                               *)
RestoredRedated(r) == [r EXCEPT !.timeofban = now]

(* restore_ban runs no command: the rule is presumed in force.             *)
Restored(r) == r
RestoreBan ==
    LET r == Head(queue).row
    IN  /\ Receive("restore")
        /\ IF Expired(r)
           THEN /\ bans' = DeleteMostRecent(bans, JailName, r.ip)
                /\ bips' = DeleteBip(bips, JailName, r.ip)
                /\ UNCHANGED <<banMgr, bare>>
           ELSE /\ banMgr' = [banMgr EXCEPT ![r.ip] = Restored(r)]
                /\ bare' = IF r.ip \notin banned
                              /\ \E a \in Action : rules[a][r.ip] = 0
                           THEN bare \cup {r.ip} ELSE bare
                /\ UNCHANGED tables
        /\ UNCHANGED <<pc, cur, todo, work, leaving, started, stray>>

(* Stop breaks the loop: final purge, then actionstop.                     *)
Stop ==
    /\ Receive("stop")
    /\ leaving' = TRUE
    /\ TakeExpired
    /\ UNCHANGED <<cur, todo, started, tables, stray, bare>>

-----------------------------------------------------------------------------
(* The server and its clients.                                             *)
Send(c) == Len(queue) < QueueCap /\ queue' = Append(queue, c)
Running == pc # "down"

(* Jail::spawn runs actionstart unless it is on demand; a failed one       *)
(* leaves the action not started.  With --all a restore follows.           *)
Start(all) ==
    /\ pc = "down" /\ lock = "free"
    /\ all => boot = "none"
    /\ (IF all THEN "start_all" ELSE "start") \in Ops
    /\ pc' = "idle"
    /\ \E ok \in SUBSET Action :
          /\ ok = Action \/ ActionsMayFail
          /\ started' = [a \in Action |-> a \in ok /\ ~OnDemand]
          /\ mishap' = (mishap \/ ok # Action)
    /\ boot' = IF all THEN "snapshot" ELSE boot
    /\ UNCHANGED <<cur, todo, work, leaving, banMgr, queue, tables, rules, lock,
                   sent, client, rows, now, issued, stray, bare>>

(* "start --all" while the jail runs: start_jail fails, restore goes on.   *)
StartAllAgain ==
    /\ "start_all_again" \in Ops
    /\ Running /\ boot = "none"
    /\ boot' = "snapshot"
    /\ UNCHANGED <<task, queue, tables, rules, lock, sent, client, rows, past>>

(* list_bans is read before the jails mutex is taken.                      *)
Snapshot ==
    /\ boot = "snapshot"
    /\ boot' = "lock" /\ rows' = ListBans(bans, bips)
    /\ UNCHANGED <<task, queue, tables, rules, lock, sent, client, past>>

LockRestore ==
    /\ boot = "lock" /\ lock = "free"
    /\ boot' = "send" /\ lock' = "restore"
    /\ UNCHANGED <<task, queue, tables, rules, sent, client, rows, past>>

SendRestore ==
    /\ boot = "send" /\ Running
    /\ \E r \in rows : rows' = rows \ {r} /\ Send([cmd |-> "restore", row |-> r])
    /\ UNCHANGED <<task, tables, rules, lock, sent, client, boot, past>>

(* All rows sent, or the jail is no longer listed.                         *)
FinishRestore ==
    /\ boot = "send" /\ (rows = {} \/ ~Running)
    /\ boot' = "none" /\ lock' = "free" /\ rows' = {}
    /\ UNCHANGED <<task, queue, tables, rules, sent, client, past>>

(* set <jail> banip / unbanip: through a handle, without the mutex.        *)
SetCommand(op, h) ==
    /\ op \in Ops /\ Running
    /\ op = "banip" => issued[h] < MaxBans
    /\ Send([cmd |-> op, host |-> h])
    /\ issued' = [issued EXCEPT ![h] = IF op = "banip" THEN @ + 1 ELSE @]
    /\ UNCHANGED <<task, tables, rules, server, now, mishap, stray, bare>>

(* unban_ip, unban_all and stop_jail take the mutex, then wait for room in *)
(* the channel of a jail that runs.  unban_ip asks only the jails that     *)
(* list the host; if another jail does, the rows of this one go as well.   *)
Lock(call, h, nothingToSend) ==
    /\ call \in Ops /\ lock = "free"
    /\ lock' = call /\ client' = h /\ sent' = nothingToSend
    /\ UNCHANGED <<task, queue, tables, rules, boot, rows, past>>
Unban(h) == Lock("unban", h, h \notin banned)
UnbanAll == Lock("unban_all", None, ~Running)
StopJail == Running /\ Lock("stop", None, FALSE)

SendLocked ==
    /\ lock \in {"unban", "unban_all", "stop"} /\ ~sent
    /\ Send(CASE lock = "unban" -> [cmd |-> "unbanip", host |-> client]
              [] lock = "unban_all" -> [cmd |-> "flush"]
              [] lock = "stop" -> [cmd |-> "stop"])
    /\ sent' = TRUE
    /\ UNCHANGED <<task, tables, rules, lock, client, boot, rows, past>>

(* Mutated form: with the mutex, it waits for the jail to have done it.    *)
UnbanRowsWaiting ==
    /\ lock \in {"unban", "unban_all"} /\ sent /\ queue = <<>>
    /\ bans' = IF lock = "unban" THEN DeleteIp(bans, client) ELSE {}
    /\ bips' = IF lock = "unban" THEN DeleteIp(bips, client) ELSE {}
    /\ lock' = "free" /\ sent' = FALSE /\ client' = None
    /\ UNCHANGED <<task, queue, rules, boot, rows, past>>

(* Without waiting for the jail, an unban then clears the tables itself.   *)
UnbanRows ==
    /\ lock \in {"unban", "unban_all"} /\ sent
    /\ bans' = IF lock = "unban" THEN DeleteIp(bans, client) ELSE {}
    /\ bips' = IF lock = "unban" THEN DeleteIp(bips, client) ELSE {}
    /\ lock' = "free" /\ sent' = FALSE /\ client' = None
    /\ UNCHANGED <<task, queue, rules, boot, rows, past>>

(* The process dies.  The tables and the firewall stay.                    *)
Crash ==
    /\ "crash" \in Ops /\ Running
    /\ pc' = "down" /\ cur' = None /\ todo' = {} /\ work' = {} /\ leaving' = FALSE
    /\ banMgr' = NoBans /\ started' = [a \in Action |-> FALSE]
    /\ queue' = <<>>
    /\ lock' = "free" /\ sent' = FALSE /\ client' = None /\ boot' = "none" /\ rows' = {}
    /\ mishap' = TRUE /\ stray' = rules /\ bare' = {}
    /\ UNCHANGED <<tables, rules, now, issued>>

Tick ==
    /\ now < MaxTime /\ now' = now + 1
    /\ UNCHANGED <<task, queue, tables, rules, server, issued, mishap, stray,
                   bare>>

-----------------------------------------------------------------------------
TaskStep ==
    \/ RunCommand \/ FinishBan \/ FinishManualBan \/ FinishUnban
    \/ ExpireNext \/ ExpireRow \/ FinishPurge \/ FinishStop
    \/ ManualBan \/ ManualUnban \/ FlushAllBans \/ RestoreBan \/ Stop
ServerStep ==
    \/ Snapshot \/ LockRestore \/ SendRestore \/ FinishRestore
    \/ SendLocked \/ UnbanRows
Request ==
    \/ \E all \in BOOLEAN : Start(all)
    \/ StartAllAgain
    \/ \E op \in {"banip", "unbanip"}, h \in Host : SetCommand(op, h)
    \/ \E h \in Host : Unban(h)
    \/ UnbanAll \/ StopJail

Next ==
    \/ TaskStep \/ PurgeExpiredBans \/ ServerStep \/ Request
    \/ \E h \in Host : IssueBan(h)
    \/ Crash \/ Tick

Spec == Init /\ [][Next]_vars

(* tokio runs a task that can run, and select! picks at random among its   *)
(* ready branches, so the purge ticker is not starved by lines or commands *)
(* (strong fairness).  The channel gives room to waiting senders in their  *)
(* order.  Time passes.  Requests and lines need not come.                 *)
FairSpec ==
    /\ Spec
    /\ WF_vars(TaskStep) /\ SF_vars(PurgeExpiredBans)
    /\ WF_vars(ServerStep) /\ SF_vars(SendLocked) /\ SF_vars(SendRestore)
    /\ WF_vars(Tick)

-----------------------------------------------------------------------------
Rows == [jail : {JailName}, ip : Host, timeofban : 0..MaxTime, bantime : Nat]
ASSUME NoneIsNoRow == None \notin Rows
Cmd == [cmd : {"banip", "unbanip"}, host : Host]
       \cup [cmd : {"restore"}, row : Rows] \cup [cmd : {"flush", "stop"}]

(* Shapes of the state, and that only the task's own phases have work.     *)
TypeOK ==
    /\ pc \in {"down", "idle", "banning", "manual", "unbanning", "flushing",
               "expiring", "stopping"}
    /\ cur \in Rows \cup Host \cup {None}
    /\ todo \subseteq Action \X (Host \cup {None})
    /\ work \subseteq Host /\ leaving \in BOOLEAN
    /\ banMgr \in [Host -> Rows \cup {None}]
    /\ started \in [Action -> BOOLEAN]
    /\ queue \in Seq(Cmd) /\ Len(queue) <= QueueCap
    /\ bans \subseteq Rows
    /\ bips \subseteq BipRow({JailName}, Host, 0..MaxTime)
    /\ rules \in [Action -> [Host -> Nat]]
    /\ lock \in {"free", "restore", "unban", "unban_all", "stop"}
    /\ sent \in BOOLEAN /\ client \in Host \cup {None}
    /\ client # None <=> lock = "unban"
    /\ boot \in {"none", "snapshot", "lock", "send"} /\ rows \subseteq Rows
    /\ now \in 0..MaxTime
    /\ issued \in [Host -> 0..MaxBans] /\ mishap \in BOOLEAN
    /\ stray \in [Action -> [Host -> Nat]] /\ bare \subseteq Host
    /\ todo # {} \/ cur # None \/ work # {} => pc \notin {"idle", "down"}

(* No operation is under way in the running jail or in its clients.        *)
Settled == pc = "idle" /\ queue = <<>> /\ lock = "free" /\ boot = "none"

(* A rule left in the firewall belongs to a ban that will be lifted        *)
(* (actionunban runs "when the ban expires or by hand", MANUAL.md:429),    *)
(* but for the strays: no interleaving of bans, unbans, flushes, expiries, *)
(* stops and restores leaves any other.                                    *)
NoOrphanRule ==
    Settled => \A a \in Action, h \in Host :
        rules[a][h] > stray[a][h] => h \in banned /\ rules[a][h] = stray[a][h] + 1

(* A host the jail reports as banned is blocked by every action, unless a  *)
(* restore listed it when its rule was gone, or its actionban failed.      *)
BannedIsBlocked ==
    Settled => \A a \in Action, h \in banned \ bare : rules[a][h] > 0

(* bips is the "current ban state: insert on ban, delete on unban"         *)
(* (README.md:320): the rows a restart would restore are the tickets in    *)
(* memory, with the same dates and durations.                              *)
IndexAgrees ==
    Settled => ListBans(bans, bips) = {banMgr[h] : h \in banned}

(* As long as no command failed and the process never died, a rule is      *)
(* never in the firewall without a row that a restart finds, unless the    *)
(* command that removes it is about to run.                                *)
RuleHasRecord ==
    \A a \in Action, h \in Host :
        rules[a][h] > 0 /\ ~mishap => \/ \E p \in bips : p.ip = h
                           \/ {<<a, h>>, <<a, None>>} \cap todo # {}

(* actionstop cleans up "when the jail stops" (MANUAL.md:431): no rule of  *)
(* a stopped jail is left, as long as no command failed and the process    *)
(* never died.                                                             *)
StopCleans == pc = "down" /\ ~mishap => \A a \in Action : rules[a] = NoRules

(* Every ban that ends before the clock of the instance does (MaxTime) is  *)
(* lifted: the host is off the list and its rows and its rules, but for    *)
(* the strays, are gone, at one moment at least, unless a later ban has    *)
(* prolonged it.                                                           *)
EndsInTime(h) == banMgr[h].timeofban + banMgr[h].bantime <= MaxTime
Lifted(h) == /\ h \notin banned
             /\ \A a \in Action : rules[a][h] <= stray[a][h]
             /\ \A r \in bips : r.ip # h
BansEnd == \A h \in Host :
    h \in banned /\ EndsInTime(h)
        ~> Lifted(h) \/ (h \in banned /\ ~EndsInTime(h))

(* Whoever takes the jails mutex gives it back: a restore or an unban that *)
(* waits for room in the command channel is never stuck behind the task.   *)
MutexReleased == lock # "free" ~> lock = "free"
=============================================================================
