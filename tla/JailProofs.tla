----------------------------- MODULE JailProofs -----------------------------
(***************************************************************************)
(* Machine-checked proofs about Jail for every set of hosts and actions,   *)
(* every bantime, channel capacity and bound, with failing commands and    *)
(* crashes: its types; that no rule is left behind but the strays; that a  *)
(* listed host is blocked but for the bare; that a stop clears the rules;  *)
(* that the current bans of the database are the tickets in memory; and    *)
(* that a rule has a row by which a restart finds it.                      *)
(***************************************************************************)
EXTENDS Jail, RecursionLemmas, FiniteSetTheorems

(* What each phase of the task has under way.                              *)
Phases ==
    /\ work # {} => pc = "expiring"
    /\ pc \in {"banning", "manual"} => cur \in Rows /\ todo \subseteq Each(cur.ip)
    /\ pc = "expiring" /\ cur = None => todo = {}
    /\ pc = "expiring" /\ cur # None => cur \in Host /\ todo \subseteq Each(cur)
    /\ pc \in {"unbanning", "flushing", "stopping"} => cur = None
    /\ pc = "stopping" => todo \subseteq Action \X {None}
    /\ pc = "stopping" <=> leaving /\ pc # "expiring"

(* The jails mutex is held from before a restore or a stop until it ends.  *)
Locks ==
    /\ boot = "send" <=> lock = "restore"
    /\ \A i \in DOMAIN queue : queue[i].cmd = "stop" => lock = "stop"
    /\ leaving => lock = "stop"

TypeInv == TypeOK /\ IsFiniteSet(bans) /\ Phases /\ Locks

(* The types, one part per group of variables that steps leave alone.      *)
TaskOK ==
    /\ pc \in {"down", "idle", "banning", "manual", "unbanning", "flushing",
               "expiring", "stopping"}
    /\ cur \in Rows \cup Host \cup {None}
    /\ todo \subseteq Action \X (Host \cup {None})
    /\ work \subseteq Host /\ leaving \in BOOLEAN
    /\ banMgr \in [Host -> Rows \cup {None}]
    /\ started \in [Action -> BOOLEAN]
    /\ todo # {} \/ cur # None \/ work # {} => pc \notin {"idle", "down"}
QueueOK == queue \in Seq(Cmd) /\ Len(queue) <= QueueCap
TablesOK == bans \subseteq Rows /\ bips \subseteq BipRow({JailName}, Host, 0..MaxTime)
RulesOK == rules \in [Action -> [Host -> Nat]]
LockOK ==
    /\ lock \in {"free", "restore", "unban", "unban_all", "stop"}
    /\ sent \in BOOLEAN /\ client \in Host \cup {None}
    /\ client # None <=> lock = "unban"
BootOK == boot \in {"none", "snapshot", "lock", "send"} /\ rows \subseteq Rows
PastOK == now \in 0..MaxTime /\ issued \in [Host -> 0..MaxBans] /\ mishap \in BOOLEAN
StrayOK == stray \in [Action -> [Host -> Nat]] /\ bare \subseteq Host

-----------------------------------------------------------------------------
(* The row of a new ban has the type of a row, its bantime included.       *)
LEMMA RowType ==
    ASSUME TypeInv, NEW h \in Host
    PROVE  Row(h, now, BanTimeOf(h)) \in Rows
<1>1. IsFiniteSet(RowsOf(bans, JailName, h))
  BY FS_Subset DEF TypeInv, RowsOf
<1>2. BanCount(bans, JailName, h) \in Nat
  BY <1>1, FS_CardinalityType DEF BanCount
<1>3. BanTimeOf(h) \in Nat
  <2>1. Factor \in Nat /\ BanSecs \in Nat
    BY JailAssumption
  <2>2. Power(Factor, BanCount(bans, JailName, h)) \in Nat
    BY <1>2, <2>1, PowerStep
  <2> QED BY <2>1, <2>2 DEF BanTimeOf
<1> QED BY <1>3 DEF TypeInv, TypeOK, Row, Rows

LEMMA TypeParts ==
    TypeOK <=> /\ TaskOK /\ QueueOK /\ TablesOK /\ RulesOK /\ LockOK /\ BootOK
               /\ PastOK /\ StrayOK
BY DEF TypeOK, TaskOK, QueueOK, TablesOK, RulesOK, LockOK, BootOK, PastOK, StrayOK

LEMMA PrimedParts ==
    /\ TaskOK' /\ QueueOK' /\ TablesOK' /\ RulesOK' /\ LockOK' /\ BootOK'
    /\ PastOK' /\ StrayOK'
    => TypeOK'
BY DEF TypeOK, TaskOK, QueueOK, TablesOK, RulesOK, LockOK, BootOK, PastOK, StrayOK

(* What a step leaves alone keeps its type.                                *)
LEMMA Frame ==
    ASSUME TypeOK
    PROVE  /\ UNCHANGED task => TaskOK'
           /\ UNCHANGED queue => QueueOK'
           /\ UNCHANGED tables => TablesOK'
           /\ UNCHANGED rules => RulesOK'
           /\ UNCHANGED <<lock, sent, client>> => LockOK'
           /\ UNCHANGED <<boot, rows>> => BootOK'
           /\ UNCHANGED <<now, issued, mishap>> => PastOK'
           /\ UNCHANGED <<stray, bare>> => StrayOK'
<1>1. UNCHANGED task => TaskOK'
  BY TypeParts DEF TaskOK, task
<1>2. UNCHANGED queue => QueueOK'
  BY TypeParts DEF QueueOK
<1>3. UNCHANGED tables => TablesOK'
  BY TypeParts DEF TablesOK, tables
<1>4. UNCHANGED rules => RulesOK'
  BY TypeParts DEF RulesOK
<1>5. UNCHANGED <<lock, sent, client>> => LockOK'
  BY TypeParts DEF LockOK
<1>6. UNCHANGED <<boot, rows>> => BootOK'
  BY TypeParts DEF BootOK
<1>7. UNCHANGED <<now, issued, mishap>> => PastOK'
  BY TypeParts DEF PastOK
<1>8. UNCHANGED <<stray, bare>> => StrayOK'
  BY TypeParts DEF StrayOK
<1> QED BY <1>1, <1>2, <1>3, <1>4, <1>5, <1>6, <1>7, <1>8

LEMMA InitTypeInv == Init => TypeInv
<1> SUFFICES ASSUME Init PROVE TypeInv
  OBVIOUS
<1>1. IsFiniteSet(bans)
  BY FS_EmptySet DEF Init
<1>2. TypeOK
  <2>1. queue \in Seq(Cmd) /\ Len(queue) <= QueueCap
    BY JailAssumption DEF Init
  <2>2. now \in 0..MaxTime /\ issued \in [Host -> 0..MaxBans]
    BY JailAssumption DEF Init
  <2>3. /\ banMgr \in [Host -> Rows \cup {None}] /\ rules \in [Action -> [Host -> Nat]]
        /\ stray \in [Action -> [Host -> Nat]] /\ bare \subseteq Host
    BY DEF Init, NoBans, NoRules
  <2> QED BY <2>1, <2>2, <2>3 DEF Init, TypeOK
<1> QED BY <1>1, <1>2 DEF Init, TypeInv, Phases, Locks

(* What the task finds in its channel.                                     *)
LEMMA HeadType ==
    ASSUME queue \in Seq(Cmd), queue # <<>>
    PROVE  /\ Head(queue) \in Cmd
           /\ Tail(queue) \in Seq(Cmd)
           /\ Len(Tail(queue)) = Len(queue) - 1
           /\ 1 \in DOMAIN queue /\ Head(queue) = queue[1]
           /\ \A i \in DOMAIN Tail(queue) :
                 i + 1 \in DOMAIN queue /\ Tail(queue)[i] = queue[i + 1]
  OBVIOUS

LEMMA HostOfCmd ==
    ASSUME NEW c \in Cmd, c.cmd \in {"banip", "unbanip"}
    PROVE  c.host \in Host
  BY DEF Cmd

LEMMA RowOfCmd ==
    ASSUME NEW c \in Cmd, c.cmd = "restore"
    PROVE  c.row \in Rows
  BY DEF Cmd

(* Taking a command from the channel keeps its type and its stop.          *)
LEMMA ReceiveType ==
    ASSUME TypeInv, NEW cmd, Receive(cmd)
    PROVE  /\ queue' \in Seq(Cmd) /\ Len(queue') <= QueueCap
           /\ Head(queue) \in Cmd
           /\ \A i \in DOMAIN queue' : queue'[i].cmd = "stop" => lock = "stop"
           /\ cmd = "stop" => lock = "stop"
<1>1. queue \in Seq(Cmd) /\ queue # <<>> /\ Len(queue) <= QueueCap
  BY DEF Receive, TypeInv, TypeOK
<1>2. Len(queue) \in Nat /\ QueueCap \in Nat
  BY <1>1, JailAssumption
<1> QED BY <1>1, <1>2, HeadType DEF Receive, TypeInv, Locks

(* So does queueing one.                                                   *)
LEMMA SendType ==
    ASSUME TypeInv, NEW c \in Cmd, Send(c), c.cmd = "stop" => lock = "stop"
    PROVE  /\ queue' \in Seq(Cmd) /\ Len(queue') <= QueueCap
           /\ \A i \in DOMAIN queue' : queue'[i].cmd = "stop" => lock = "stop"
<1>1. queue \in Seq(Cmd) /\ QueueCap \in Nat
  BY JailAssumption DEF TypeInv, TypeOK
<1>2. /\ queue' \in Seq(Cmd) /\ Len(queue') = Len(queue) + 1
      /\ \A i \in DOMAIN queue' : queue'[i] = c \/ (i \in DOMAIN queue /\ queue'[i] = queue[i])
  BY <1>1 DEF Send
<1> QED BY <1>1, <1>2 DEF Send, TypeInv, Locks

(* What a command leaves behind has the type of the rules.                 *)
LEMMA CommandTypes ==
    ASSUME RulesOK, StrayOK, NEW a \in Action, NEW h \in Host \cup {None}
    PROVE  /\ AfterCommand(a, h) \in [Action -> [Host -> Nat]]
           /\ StrayAfter(a, h) \in [Action -> [Host -> Nat]]
<1>0. /\ rules \in [Action -> [Host -> Nat]] /\ stray \in [Action -> [Host -> Nat]]
      /\ NoRules \in [Host -> Nat]
  BY DEF RulesOK, StrayOK, NoRules
<1>1. CASE h = None
  BY <1>0, <1>1 DEF AfterCommand, StrayAfter
<1>2. CASE h # None
  <2>1. /\ rules[a] \in [Host -> Nat] /\ stray[a] \in [Host -> Nat]
        /\ rules[a][h] \in Nat /\ stray[a][h] \in Nat
    BY <1>0, <1>2
  <2>2. /\ AddRule(rules[a][h]) \in Nat /\ DropRule(rules[a][h]) \in Nat
    BY <2>1 DEF AddRule, DropRule
  <2>3. AfterCommand(a, h) \in [Action -> [Host -> Nat]]
    BY <1>0, <1>2, <2>1, <2>2 DEF AfterCommand
  <2>4. \A n \in Nat : [stray EXCEPT ![a][h] = n] \in [Action -> [Host -> Nat]]
    BY <1>0, <1>2, <2>1
  <2>5. StrayAfter(a, h) \in [Action -> [Host -> Nat]]
    <3>1. CASE pc \in {"banning", "manual"}
      <4>1. (IF ~RuleBag THEN 0 ELSE IF rules[a][h] > stray[a][h]
                                     THEN stray[a][h] + 1 ELSE stray[a][h]) \in Nat
        BY <2>1
      <4> QED BY <1>2, <2>4, <3>1, <4>1 DEF StrayAfter
    <3>2. CASE pc \notin {"banning", "manual"}
      <4>1. (IF stray[a][h] > DropRule(rules[a][h])
             THEN DropRule(rules[a][h]) ELSE stray[a][h]) \in Nat
        BY <2>1, <2>2
      <4> QED BY <1>2, <2>4, <3>2, <4>1 DEF StrayAfter
    <3> QED BY <3>1, <3>2
  <2> QED BY <2>3, <2>5
<1> QED BY <1>1, <1>2

LEMMA FailedTypes ==
    ASSUME RulesOK, StrayOK, NEW a \in Action, NEW h \in Host \cup {None},
           Phases, <<a, h>> \in todo, Failed(a, h)
    PROVE  mishap' \in BOOLEAN /\ StrayOK'
<1>0. /\ rules \in [Action -> [Host -> Nat]] /\ stray \in [Action -> [Host -> Nat]]
      /\ bare \subseteq Host
  BY DEF RulesOK, StrayOK
<1>1. pc \in {"banning", "manual"} => h \in Host
  BY DEF Phases, Each, Rows
<1>2. mishap' \in BOOLEAN /\ bare' \subseteq Host
  BY <1>0, <1>1 DEF Failed
<1>3. stray' \in [Action -> [Host -> Nat]]
  <2>1. CASE h = None
    BY <1>0, <2>1 DEF Failed
  <2>2. CASE h # None
    <3>1. rules[a][h] \in Nat /\ stray[a] \in [Host -> Nat]
      BY <1>0, <2>2
    <3>2. [stray EXCEPT ![a][h] = rules[a][h]] \in [Action -> [Host -> Nat]]
      BY <1>0, <2>2, <3>1
    <3> QED BY <1>0, <2>2, <3>2 DEF Failed
  <2> QED BY <2>1, <2>2
<1> QED BY <1>2, <1>3 DEF StrayOK

(* Every step keeps the types, the phases and the mutex's discipline.      *)
LEMMA NextTypeInv == TypeInv /\ [Next]_vars => TypeInv'
<1> SUFFICES ASSUME TypeInv, [Next]_vars PROVE TypeInv'
  OBVIOUS
<1>0. /\ TypeOK /\ TaskOK /\ QueueOK /\ TablesOK /\ RulesOK /\ LockOK /\ BootOK
      /\ PastOK /\ StrayOK
  BY TypeParts DEF TypeInv
<1> USE DEF TypeInv, Each, task, tables, server, past
<1>1. CASE RunCommand
  <2>1. PICK c \in todo :
            /\ todo' = todo \ {c}
            /\ \/ /\ rules' = AfterCommand(c[1], c[2])
                  /\ stray' = StrayAfter(c[1], c[2])
                  /\ UNCHANGED <<mishap, bare>>
               \/ Failed(c[1], c[2]) /\ UNCHANGED rules
    BY <1>1 DEF RunCommand
  <2>2. PICK a \in Action, h \in Host \cup {None} : c = <<a, h>>
    BY <2>1 DEF TypeOK
  <2>3. rules' \in [Action -> [Host -> Nat]] /\ StrayOK' /\ mishap' \in BOOLEAN
    BY <1>0, <2>1, <2>2, CommandTypes, FailedTypes, SMTT(60) DEF RulesOK, StrayOK, PastOK
  <2>types. TypeOK'
    <3>1. TaskOK'
      BY <1>0, <1>1, <2>1 DEF TaskOK, RunCommand
    <3>2. RulesOK' /\ StrayOK'
      BY <2>3 DEF RulesOK
    <3>3. PastOK'
      BY <1>0, <1>1, <2>3 DEF PastOK, RunCommand
    <3> QED BY <1>0, <1>1, <3>1, <3>2, <3>3, Frame, PrimedParts DEF RunCommand
  <2>phases. Phases'
    BY <1>1, <2>1 DEF Phases, RunCommand
  <2>locks. Locks'
    BY <1>1 DEF Locks, RunCommand
  <2>finite. IsFiniteSet(bans)'
    BY <1>1 DEF RunCommand
  <2> QED BY <2>types, <2>phases, <2>locks, <2>finite
<1>2. CASE FinishBan
  <2> USE DEF FinishBan
  <2>1. cur.ip \in Host /\ cur \in Rows
    BY <1>2 DEF Rows, Phases
  <2>2. TaskOK'
    <3>1. banMgr' \in [Host -> Rows \cup {None}]
      BY <1>0, <1>2, <2>1 DEF TaskOK
    <3>2. /\ pc' = "idle" /\ cur' = None /\ todo' = {} /\ work' = {}
          /\ UNCHANGED <<leaving, started>>
      BY <1>2 DEF Phases
    <3> QED BY <1>0, <3>1, <3>2 DEF TaskOK
  <2>3. TypeOK'
    BY <1>0, <1>2, <2>2, Frame, PrimedParts
  <2>4. Phases' /\ Locks'
    BY <1>2 DEF Phases, Locks
  <2> QED BY <1>2, <2>3, <2>4
<1>3. CASE FinishManualBan
  <2> USE DEF FinishManualBan
  <2>1. cur.ip \in Host /\ [cur EXCEPT !.timeofban = now] \in Rows
    BY <1>3 DEF Rows, TypeOK, Phases
  <2>types. TypeOK'
    <3>1. banMgr' \in [Host -> Rows \cup {None}]
      BY <1>0, <1>3, <2>1 DEF TaskOK
    <3>2. /\ pc' = "idle" /\ cur' = None /\ todo' = {} /\ work' = {}
          /\ UNCHANGED <<leaving, started>>
      BY <1>3 DEF Phases
    <3>3. TaskOK'
      BY <1>0, <3>1, <3>2 DEF TaskOK
    <3> QED BY <1>0, <1>3, <3>3, Frame, PrimedParts
  <2>phases. Phases'
    BY <1>3 DEF Phases, TypeOK
  <2>locks. Locks'
    BY <1>3 DEF Locks
  <2>finite. IsFiniteSet(bans)'
    BY <1>3
  <2> QED BY <2>types, <2>phases, <2>locks, <2>finite
<1>4. CASE FinishUnban
  <2>1. TaskOK'
    BY <1>0, <1>4 DEF FinishUnban, TaskOK, Locks, Phases
  <2>2. TypeOK'
    BY <1>0, <1>4, <2>1, Frame, PrimedParts DEF FinishUnban
  <2>3. Phases' /\ Locks'
    BY <1>4 DEF FinishUnban, Phases, Locks
  <2> QED BY <1>4, <2>2, <2>3 DEF FinishUnban
<1>5. CASE ExpireNext
  <2>1. PICK h \in work : cur' = h /\ work' = work \ {h} /\ todo' = Each(h)
    BY <1>5 DEF ExpireNext
  <2>2. h \in Host
    BY DEF TypeOK
  <2>types. TypeOK'
    <3>1. TaskOK'
      <4>1. /\ cur' \in Host /\ work' \subseteq work /\ pc' = "expiring" /\ leaving' = leaving
            /\ banMgr' = banMgr /\ started' = started /\ todo' = Action \X {cur'}
        BY <1>5, <2>1, <2>2 DEF ExpireNext
      <4> QED BY <1>0, <4>1 DEF TaskOK
    <3> QED BY <1>0, <1>5, <3>1, Frame, PrimedParts DEF ExpireNext
  <2>phases. Phases'
    <3>1. /\ cur' = h /\ todo' = Each(h) /\ pc' = pc /\ pc = "expiring"
          /\ leaving' = leaving
      BY <1>5, <2>1 DEF ExpireNext
    <3> HIDE DEF Each
    <3> QED BY <3>1, <2>2, JailAssumption DEF Phases, Each
  <2>locks. Locks'
    BY <1>5, <2>1 DEF ExpireNext, Locks
  <2>finite. IsFiniteSet(bans)'
    BY <1>5 DEF ExpireNext
  <2> QED BY <2>types, <2>phases, <2>locks, <2>finite
<1>6. CASE ExpireRow
  <2> USE DEF ExpireRow
  <2>1. bans' \subseteq bans /\ bips' \subseteq bips
    BY <1>6 DEF DeleteMostRecent, DeleteBip
  <2>types. TypeOK'
    <3>1. TaskOK'
      BY <1>0, <1>6 DEF TaskOK
    <3>2. TablesOK'
      BY <1>0, <2>1 DEF TablesOK
    <3> QED BY <1>0, <1>6, <3>1, <3>2, Frame, PrimedParts
  <2>phases. Phases'
    BY <1>6 DEF Phases
  <2>locks. Locks'
    BY <1>6 DEF Locks
  <2>finite. IsFiniteSet(bans)'
    BY <2>1, FS_Subset
  <2> QED BY <2>types, <2>phases, <2>locks, <2>finite
<1>7. CASE FinishPurge
  <2>1. TaskOK'
    BY <1>0, <1>7 DEF FinishPurge, StopTodo, TaskOK, Locks, Phases
  <2>2. TypeOK'
    <3>1. StrayOK'
      BY <1>0, <1>7 DEF FinishPurge, StrayOK, RulesOK
    <3> QED BY <1>0, <1>7, <2>1, <3>1, Frame, PrimedParts DEF FinishPurge
  <2>3. Phases' /\ Locks'
    BY <1>7 DEF FinishPurge, StopTodo, Phases, Locks
  <2> QED BY <1>7, <2>2, <2>3 DEF FinishPurge
<1>8. CASE FinishStop
  <2> USE DEF FinishStop, NoBans
  <2>1. queue' \in Seq(Cmd) /\ Len(queue') <= QueueCap /\ DOMAIN queue' = {}
    BY <1>8, JailAssumption
  <2>types. TypeOK'
    <3>1. TaskOK'
      BY <1>0, <1>8 DEF TaskOK, Phases
    <3>2. QueueOK' /\ LockOK' /\ StrayOK'
      BY <1>0, <1>8, <2>1 DEF QueueOK, LockOK, StrayOK, Locks, Phases
    <3> QED BY <1>0, <1>8, <3>1, <3>2, Frame, PrimedParts
  <2>phases. Phases'
    BY <1>8 DEF Phases, TypeOK
  <2>locks. Locks'
    BY <1>8, <2>1 DEF Locks, TypeOK, Phases
  <2>finite. IsFiniteSet(bans)'
    BY <1>8
  <2> QED BY <2>types, <2>phases, <2>locks, <2>finite
<1>9. CASE PurgeExpiredBans
  <2> USE DEF PurgeExpiredBans, TakeExpired
  <2>1. banMgr' \in [Host -> Rows \cup {None}] /\ work' \subseteq Host
    BY <1>0, <1>9 DEF TaskOK, ExpiredHosts, banned
  <2>types. TypeOK'
    <3>1. TaskOK'
      BY <1>0, <1>9, <2>1 DEF TaskOK
    <3> QED BY <1>0, <1>9, <3>1, Frame, PrimedParts
  <2>phases. Phases'
    BY <1>0, <1>9 DEF Phases, TaskOK
  <2>locks. Locks'
    BY <1>9 DEF Locks
  <2>finite. IsFiniteSet(bans)'
    BY <1>9
  <2> QED BY <2>types, <2>phases, <2>locks, <2>finite
<1>10. CASE Snapshot
  <2> USE DEF Snapshot
  <2>1. BootOK'
    BY <1>0, <1>10 DEF BootOK, TablesOK, ListBans
  <2>2. TypeOK'
    BY <1>0, <1>10, <2>1, Frame, PrimedParts
  <2>3. Phases' /\ Locks'
    BY <1>10 DEF Phases, Locks
  <2> QED BY <1>10, <2>2, <2>3
<1>11. CASE LockRestore
  <2> USE DEF LockRestore
  <2>1. BootOK' /\ LockOK'
    BY <1>0, <1>11 DEF BootOK, LockOK
  <2>2. TypeOK'
    BY <1>0, <1>11, <2>1, Frame, PrimedParts
  <2>3. Phases' /\ Locks'
    BY <1>11 DEF Phases, Locks
  <2> QED BY <1>11, <2>2, <2>3
<1>12. CASE FinishRestore
  <2> USE DEF FinishRestore
  <2>1. BootOK' /\ LockOK'
    BY <1>0, <1>12 DEF BootOK, LockOK, Locks
  <2>2. TypeOK'
    BY <1>0, <1>12, <2>1, Frame, PrimedParts
  <2>3. Phases' /\ Locks'
    BY <1>12 DEF Phases, Locks
  <2> QED BY <1>12, <2>2, <2>3
<1>13. CASE UnbanRows
  <2> USE DEF UnbanRows
  <2>1. bans' \subseteq bans /\ bips' \subseteq bips
    BY <1>13 DEF DeleteIp
  <2>2. TablesOK' /\ LockOK'
    BY <1>0, <1>13, <2>1 DEF TablesOK, LockOK
  <2>3. TypeOK'
    BY <1>0, <1>13, <2>2, Frame, PrimedParts
  <2>4. Phases' /\ Locks'
    BY <1>13 DEF Phases, Locks
  <2>5. IsFiniteSet(bans)'
    BY <2>1, FS_Subset
  <2> QED BY <2>3, <2>4, <2>5
<1>14. CASE Crash
  <2> USE DEF Crash, NoBans
  <2>1. queue' \in Seq(Cmd) /\ Len(queue') <= QueueCap /\ DOMAIN queue' = {}
    BY <1>14, JailAssumption
  <2>types. TypeOK'
    <3>1. TaskOK'
      BY <1>0, <1>14 DEF TaskOK
    <3>2. QueueOK' /\ LockOK' /\ BootOK' /\ PastOK' /\ StrayOK'
      BY <1>0, <1>14, <2>1 DEF QueueOK, LockOK, BootOK, PastOK, RulesOK, StrayOK
    <3> QED BY <1>0, <1>14, <3>1, <3>2, Frame, PrimedParts
  <2>phases. Phases'
    BY <1>14 DEF Phases
  <2>locks. Locks'
    BY <1>14, <2>1 DEF Locks
  <2>finite. IsFiniteSet(bans)'
    BY <1>14
  <2> QED BY <2>types, <2>phases, <2>locks, <2>finite
<1>15. CASE Tick
  <2> USE DEF Tick
  <2>1. now' \in 0..MaxTime
    BY <1>0, <1>15, JailAssumption DEF PastOK
  <2>types. TypeOK'
    <3>1. PastOK'
      BY <1>0, <1>15, <2>1 DEF PastOK
    <3> QED BY <1>0, <1>15, <3>1, Frame, PrimedParts
  <2>phases. Phases'
    BY <1>15 DEF Phases
  <2>locks. Locks'
    BY <1>15 DEF Locks
  <2>finite. IsFiniteSet(bans)'
    BY <1>15
  <2> QED BY <2>types, <2>phases, <2>locks, <2>finite
<1>16. CASE StartAllAgain
  <2>1. BootOK'
    BY <1>0, <1>16 DEF StartAllAgain, BootOK, Locks, Phases
  <2>2. TypeOK'
    BY <1>0, <1>16, <2>1, Frame, PrimedParts DEF StartAllAgain
  <2>3. Phases' /\ Locks'
    BY <1>16 DEF StartAllAgain, Phases, Locks
  <2> QED BY <1>16, <2>2, <2>3 DEF StartAllAgain
<1>17. CASE UnbanAll
  <2>1. LockOK'
    BY <1>0, <1>17 DEF UnbanAll, Lock, LockOK, Locks, Phases
  <2>2. TypeOK'
    BY <1>0, <1>17, <2>1, Frame, PrimedParts DEF UnbanAll, Lock
  <2>3. Phases' /\ Locks'
    BY <1>17 DEF UnbanAll, Lock, Phases, Locks
  <2> QED BY <1>17, <2>2, <2>3 DEF UnbanAll, Lock
<1>18. CASE StopJail
  <2>1. LockOK'
    BY <1>0, <1>18 DEF StopJail, Lock, LockOK, Locks, Phases
  <2>2. TypeOK'
    BY <1>0, <1>18, <2>1, Frame, PrimedParts DEF StopJail, Lock
  <2>3. Phases' /\ Locks'
    BY <1>18 DEF StopJail, Lock, Phases, Locks
  <2> QED BY <1>18, <2>2, <2>3 DEF StopJail, Lock
<1>19. CASE UNCHANGED vars
  <2> USE DEF vars
  <2>types. TypeOK'
    BY <1>0, <1>19, Frame, PrimedParts
  <2>phases. Phases'
    BY <1>19 DEF Phases
  <2>locks. Locks'
    BY <1>19 DEF Locks
  <2>finite. IsFiniteSet(bans)'
    BY <1>19
  <2> QED BY <2>types, <2>phases, <2>locks, <2>finite
<1>20. ASSUME NEW h \in Host, Unban(h) PROVE TypeInv'
  <2>1. LockOK'
    BY <1>0, <1>20, JailAssumption DEF Unban, Lock, LockOK, Locks, Phases
  <2>2. TypeOK'
    BY <1>0, <1>20, <2>1, Frame, PrimedParts DEF Unban, Lock
  <2>3. Phases' /\ Locks'
    BY <1>20 DEF Unban, Lock, Phases, Locks
  <2> QED BY <1>20, <2>2, <2>3 DEF Unban, Lock
<1>21. ASSUME NEW all \in BOOLEAN, Start(all) PROVE TypeInv'
  <2>1. TaskOK' /\ BootOK' /\ PastOK'
    BY <1>0, <1>21 DEF Start, TaskOK, BootOK, PastOK, Locks, Phases
  <2>2. TypeOK'
    BY <1>0, <1>21, <2>1, Frame, PrimedParts DEF Start
  <2>3. Phases' /\ Locks'
    BY <1>21 DEF Start, Phases, Locks
  <2> QED BY <1>21, <2>2, <2>3 DEF Start
<1>22. CASE ManualBan
  <2> USE DEF ManualBan, Receive
  <2>1. /\ queue' \in Seq(Cmd) /\ Len(queue') <= QueueCap /\ Head(queue) \in Cmd
        /\ \A i \in DOMAIN queue' : queue'[i].cmd = "stop" => lock = "stop"
        /\ Head(queue).cmd = "stop" => lock = "stop"
    BY <1>22, ReceiveType DEF Receive
  <2>2. Head(queue).host \in Host /\ cur' \in Rows
    BY <1>22, <2>1, HostOfCmd, RowType
  <2>types. TypeOK'
    <3>1. TaskOK' /\ QueueOK' /\ StrayOK'
      BY <1>0, <1>22, <2>1, <2>2 DEF TaskOK, QueueOK, StrayOK, Row
    <3> QED BY <1>0, <1>22, <3>1, Frame, PrimedParts
  <2>phases. Phases'
    BY <1>22, <2>1, <2>2 DEF Phases, Row, Receive, TypeOK
  <2>locks. Locks'
    BY <1>22, <2>1 DEF Locks, Receive
  <2>finite. IsFiniteSet(bans)'
    BY <1>22
  <2> QED BY <2>types, <2>phases, <2>locks, <2>finite
<1>23. CASE ManualUnban
  <2> USE DEF ManualUnban, Receive
  <2>1. /\ queue' \in Seq(Cmd) /\ Len(queue') <= QueueCap /\ Head(queue) \in Cmd
        /\ \A i \in DOMAIN queue' : queue'[i].cmd = "stop" => lock = "stop"
        /\ Head(queue).cmd = "stop" => lock = "stop"
    BY <1>23, ReceiveType DEF Receive
  <2>2. Head(queue).host \in Host /\ bans' \subseteq bans /\ bips' \subseteq bips
    BY <1>23, <2>1, HostOfCmd DEF DeleteMostRecent, DeleteBip
  <2>3. banMgr' \in [Host -> Rows \cup {None}] /\ todo' \subseteq Action \X (Host \cup {None})
    <3>1. banMgr' \in [Host -> Rows \cup {None}]
      BY <1>0, <1>23 DEF TaskOK
    <3>2. todo' = todo \/ todo' = Action \X {Head(queue).host}
      BY <1>23
    <3> QED BY <1>0, <2>2, <3>1, <3>2 DEF TaskOK
  <2>types. TypeOK'
    <3>1. TaskOK' /\ QueueOK' /\ TablesOK'
      BY <1>0, <1>23, <2>1, <2>2, <2>3 DEF TaskOK, QueueOK, TablesOK
    <3> QED BY <1>0, <1>23, <3>1, Frame, PrimedParts
  <2>phases. Phases'
    BY <1>23 DEF Phases, TypeOK
  <2>locks. Locks'
    BY <1>23, <2>1 DEF Locks
  <2>finite. IsFiniteSet(bans)'
    BY <1>23, <2>2, FS_Subset
  <2> QED BY <2>types, <2>phases, <2>locks, <2>finite
<1>24. CASE FlushAllBans
  <2> USE DEF FlushAllBans, Receive
  <2>1. /\ queue' \in Seq(Cmd) /\ Len(queue') <= QueueCap /\ Head(queue) \in Cmd
        /\ \A i \in DOMAIN queue' : queue'[i].cmd = "stop" => lock = "stop"
        /\ Head(queue).cmd = "stop" => lock = "stop"
    BY <1>24, ReceiveType DEF Receive
  <2>2. bans' \subseteq bans /\ bips' \subseteq bips /\ banned \subseteq Host
        /\ banMgr' \in [Host -> Rows \cup {None}]
    BY <1>24 DEF banned, NoBans
  <2>types. TypeOK'
    <3>1. TaskOK' /\ QueueOK' /\ TablesOK'
      BY <1>0, <1>24, <2>1, <2>2, JailAssumption DEF FlushTodo, TaskOK, QueueOK, TablesOK
    <3>2. StrayOK'
      BY <1>0, <1>24 DEF RulesOK, StrayOK
    <3> QED BY <1>0, <1>24, <3>1, <3>2, Frame, PrimedParts
  <2>phases. Phases'
    BY <1>24 DEF Phases, TypeOK
  <2>locks. Locks'
    BY <1>24, <2>1 DEF Locks
  <2>finite. IsFiniteSet(bans)'
    BY <1>24, <2>2, FS_Subset
  <2> QED BY <2>types, <2>phases, <2>locks, <2>finite
<1>25. CASE RestoreBan
  <2> USE DEF RestoreBan, Receive
  <2>1. /\ queue' \in Seq(Cmd) /\ Len(queue') <= QueueCap /\ Head(queue) \in Cmd
        /\ \A i \in DOMAIN queue' : queue'[i].cmd = "stop" => lock = "stop"
        /\ Head(queue).cmd = "stop" => lock = "stop"
    BY <1>25, ReceiveType DEF Receive
  <2>2. /\ bans' \subseteq bans /\ bips' \subseteq bips
        /\ banMgr' \in [Host -> Rows \cup {None}] /\ StrayOK'
    <3>1. Head(queue).row \in Rows /\ Head(queue).row.ip \in Host
      BY <1>25, <2>1, RowOfCmd DEF Rows
    <3>2. bans' \subseteq bans /\ bips' \subseteq bips
      BY <1>25 DEF DeleteMostRecent, DeleteBip
    <3>3. banMgr' \in [Host -> Rows \cup {None}]
      BY <1>0, <1>25, <3>1 DEF Restored, TaskOK
    <3>4. stray' = stray /\ (bare' = bare \/ bare' = bare \cup {Head(queue).row.ip})
      BY <1>25
    <3>5. StrayOK'
      BY <1>0, <3>1, <3>4 DEF StrayOK
    <3> QED BY <3>2, <3>3, <3>5
  <2>types. TypeOK'
    <3>1. TaskOK' /\ QueueOK' /\ TablesOK'
      BY <1>0, <1>25, <2>1, <2>2 DEF TaskOK, QueueOK, TablesOK
    <3> QED BY <1>0, <1>25, <2>2, <3>1, Frame, PrimedParts
  <2>phases. Phases'
    BY <1>25 DEF Phases, TypeOK
  <2>locks. Locks'
    BY <1>25, <2>1 DEF Locks
  <2>finite. IsFiniteSet(bans)'
    BY <1>25, <2>2, FS_Subset
  <2> QED BY <2>types, <2>phases, <2>locks, <2>finite
<1>26. CASE Stop
  <2> USE DEF Stop, Receive, TakeExpired
  <2>1. /\ queue' \in Seq(Cmd) /\ Len(queue') <= QueueCap /\ Head(queue) \in Cmd
        /\ \A i \in DOMAIN queue' : queue'[i].cmd = "stop" => lock = "stop"
        /\ Head(queue).cmd = "stop" => lock = "stop"
    BY <1>26, ReceiveType DEF Receive
  <2>2. banMgr' \in [Host -> Rows \cup {None}] /\ work' \subseteq Host
    BY <1>26 DEF TypeOK, ExpiredHosts, banned
  <2>types. TypeOK'
    <3>1. TaskOK' /\ QueueOK'
      BY <1>0, <1>26, <2>1, <2>2 DEF TaskOK, QueueOK
    <3> QED BY <1>0, <1>26, <3>1, Frame, PrimedParts
  <2>phases. Phases'
    BY <1>26 DEF Phases, TypeOK, ExpiredHosts, banned
  <2>locks. Locks'
    BY <1>26, <2>1 DEF Locks
  <2>finite. IsFiniteSet(bans)'
    BY <1>26
  <2> QED BY <2>types, <2>phases, <2>locks, <2>finite
<1>27. ASSUME NEW h \in Host, IssueBan(h) PROVE TypeInv'
  <2> USE DEF IssueBan
  <2>1. cur' \in Rows /\ cur' = Row(h, now, BanTimeOf(h))
    BY <1>27, RowType
  <2>2. IsFiniteSet(bans')
    <3>1. IsFiniteSet({r \in bans : ~SameBan(r, cur')} \cup {cur'})
      BY FS_Subset, FS_AddElement
    <3> QED BY <1>27, <3>1 DEF InsertBan
  <2>3. bans' \subseteq Rows /\ bips' \subseteq BipRow({JailName}, Host, 0..MaxTime)
    BY <1>27, <2>1 DEF InsertBan, InsertBip, BipRow, Row, TypeOK
  <2>4. issued' \in [Host -> 0..MaxBans]
    BY <1>27, JailAssumption DEF TypeOK
  <2>types. TypeOK'
    <3>1. TaskOK' /\ TablesOK' /\ PastOK' /\ StrayOK'
      BY <1>0, <1>27, <2>1, <2>3, <2>4 DEF TaskOK, TablesOK, PastOK, StrayOK
    <3> QED BY <1>0, <1>27, <3>1, Frame, PrimedParts
  <2>phases. Phases'
    BY <1>27, <2>1 DEF Phases, TypeOK, Row
  <2>locks. Locks'
    BY <1>27 DEF Locks
  <2>finite. IsFiniteSet(bans)'
    BY <1>27, <2>2
  <2> QED BY <2>types, <2>phases, <2>locks, <2>finite
<1>28. ASSUME NEW op \in {"banip", "unbanip"}, NEW h \in Host, SetCommand(op, h)
       PROVE  TypeInv'
  <2> USE DEF SetCommand
  <2>1. /\ queue' \in Seq(Cmd) /\ Len(queue') <= QueueCap
        /\ \A i \in DOMAIN queue' : queue'[i].cmd = "stop" => lock = "stop"
    <3>1. [cmd |-> op, host |-> h] \in Cmd
      BY DEF Cmd
    <3> QED BY <1>28, <3>1, SendType
  <2>types. TypeOK'
    <3>1. QueueOK' /\ PastOK'
      BY <1>0, <1>28, <2>1, JailAssumption DEF QueueOK, PastOK
    <3> QED BY <1>0, <1>28, <3>1, Frame, PrimedParts
  <2>phases. Phases'
    BY <1>28 DEF Phases
  <2>locks. Locks'
    BY <1>28, <2>1 DEF Locks
  <2>finite. IsFiniteSet(bans)'
    BY <1>28
  <2> QED BY <2>types, <2>phases, <2>locks, <2>finite
<1>29. CASE SendLocked
  <2> USE DEF SendLocked
  <2>1. /\ queue' \in Seq(Cmd) /\ Len(queue') <= QueueCap
        /\ \A i \in DOMAIN queue' : queue'[i].cmd = "stop" => lock = "stop"
    <3>1. CASE lock = "unban"
      <4>1. [cmd |-> "unbanip", host |-> client] \in Cmd
        BY <3>1 DEF Cmd, TypeOK
      <4>2. Send([cmd |-> "unbanip", host |-> client])
        BY <1>29, <3>1
      <4> QED BY <4>1, <4>2, SendType
    <3>2. CASE lock = "unban_all"
      <4>1. [cmd |-> "flush"] \in Cmd
        BY DEF Cmd
      <4>2. Send([cmd |-> "flush"])
        BY <1>29, <3>2
      <4> QED BY <4>1, <4>2, SendType
    <3>3. CASE lock = "stop"
      <4>1. [cmd |-> "stop"] \in Cmd
        BY DEF Cmd
      <4>2. Send([cmd |-> "stop"])
        BY <1>29, <3>3
      <4> QED BY <4>1, <4>2, <3>3, SendType
    <3> QED BY <1>29, <3>1, <3>2, <3>3
  <2>types. TypeOK'
    <3>1. QueueOK' /\ LockOK'
      BY <1>0, <1>29, <2>1 DEF QueueOK, LockOK
    <3> QED BY <1>0, <1>29, <3>1, Frame, PrimedParts
  <2>phases. Phases'
    BY <1>29 DEF Phases
  <2>locks. Locks'
    BY <1>29, <2>1 DEF Locks
  <2>finite. IsFiniteSet(bans)'
    BY <1>29
  <2> QED BY <2>types, <2>phases, <2>locks, <2>finite
<1>30. CASE SendRestore
  <2> USE DEF SendRestore
  <2>1. PICK r \in rows : rows' = rows \ {r} /\ Send([cmd |-> "restore", row |-> r])
    BY <1>30
  <2>2. [cmd |-> "restore", row |-> r] \in Cmd
    BY <1>0 DEF Cmd, BootOK
  <2>3. /\ queue' \in Seq(Cmd) /\ Len(queue') <= QueueCap
        /\ \A i \in DOMAIN queue' : queue'[i].cmd = "stop" => lock = "stop"
    BY <2>1, <2>2, SendType
  <2>types. TypeOK'
    <3>1. QueueOK' /\ BootOK'
      BY <1>0, <1>30, <2>1, <2>3 DEF QueueOK, BootOK
    <3> QED BY <1>0, <1>30, <3>1, Frame, PrimedParts
  <2>phases. Phases'
    BY <1>30 DEF Phases
  <2>locks. Locks'
    BY <1>30, <2>3 DEF Locks
  <2> QED BY <1>30, <2>types, <2>phases, <2>locks
<1> QED
  BY <1>1, <1>2, <1>3, <1>4, <1>5, <1>6, <1>7, <1>8, <1>9, <1>10, <1>11,
     <1>12, <1>13, <1>14, <1>15, <1>16, <1>17, <1>18, <1>19, <1>20,
     <1>21, <1>22, <1>23, <1>24, <1>25, <1>26, <1>27, <1>28, <1>29,
     <1>30
  DEF Next, TaskStep, ServerStep, Request

(* Every state the task, its clients and the server can reach has the      *)
(* shapes of TypeOK, whatever the lines, requests, failures and crashes.   *)
THEOREM TypeCorrect == Spec => []TypeOK
<1>1. Init => TypeInv
  BY InitTypeInv
<1>2. TypeInv /\ [Next]_vars => TypeInv'
  BY NextTypeInv
<1>3. TypeInv => TypeOK
  BY DEF TypeInv
<1> QED BY <1>1, <1>2, <1>3, PTL DEF Spec

-----------------------------------------------------------------------------
(* The rules of a host above the strays are there because it is banned, or *)
(* the command that removes them, or the end of its ban, is still to come. *)
Owned(a, h) ==
    \/ pc \notin {"down", "stopping"} /\ h \in banned
    \/ pc \in {"banning", "manual"} /\ cur.ip = h
    \/ pc \in {"unbanning", "flushing", "expiring", "stopping"}
       /\ (<<a, h>> \in todo \/ <<a, None>> \in todo)
    \/ h \in work
RuleOwned(a, h) ==
    /\ rules[a][h] <= stray[a][h] + 1
    /\ rules[a][h] > stray[a][h] => Owned(a, h)
RulesOwned == \A a \in Action, h \in Host : RuleOwned(a, h)

OwnedInv == TypeInv /\ RulesOwned

LEMMA InitOwned == Init => RulesOwned
BY DEF Init, NoRules, RulesOwned, RuleOwned

(* What a command does to the rules and the strays of every host.          *)
LEMMA CommandEffect ==
    ASSUME RulesOK, StrayOK, NEW a \in Action, NEW h \in Host \cup {None},
           rules' = AfterCommand(a, h), stray' = StrayAfter(a, h),
           NEW b \in Action, NEW g \in Host
    PROVE  /\ a # b \/ h \notin {g, None} =>
                 rules'[b][g] = rules[b][g] /\ stray'[b][g] = stray[b][g]
           /\ a = b /\ h = None => rules'[b][g] = 0 /\ stray'[b][g] = 0
           /\ a = b /\ h = g /\ pc \in {"banning", "manual"} =>
                 /\ rules'[b][g] = AddRule(rules[b][g])
                 /\ stray'[b][g] = IF ~RuleBag THEN 0
                                   ELSE IF rules[b][g] > stray[b][g]
                                   THEN stray[b][g] + 1 ELSE stray[b][g]
           /\ a = b /\ h = g /\ pc \notin {"banning", "manual"} =>
                 /\ rules'[b][g] = DropRule(rules[b][g])
                 /\ stray'[b][g] = IF stray[b][g] > DropRule(rules[b][g])
                                   THEN DropRule(rules[b][g]) ELSE stray[b][g]
<1>1. None \notin Host
  BY JailAssumption
<1>2. CASE h = None
  <2>1. rules' = [rules EXCEPT ![a] = NoRules] /\ stray' = [stray EXCEPT ![a] = NoRules]
    BY <1>2 DEF AfterCommand, StrayAfter
  <2> QED BY <1>1, <1>2, <2>1 DEF RulesOK, StrayOK, NoRules
<1>3. CASE h # None /\ pc \in {"banning", "manual"}
  <2>1. /\ rules' = [rules EXCEPT ![a][h] = AddRule(@)]
        /\ stray' = [stray EXCEPT ![a][h] = IF ~RuleBag THEN 0
                          ELSE IF rules[a][h] > stray[a][h]
                               THEN stray[a][h] + 1 ELSE stray[a][h]]
    BY <1>3 DEF AfterCommand, StrayAfter
  <2> QED BY <1>1, <1>3, <2>1 DEF RulesOK, StrayOK
<1>4. CASE h # None /\ pc \notin {"banning", "manual"}
  <2>1. /\ rules' = [rules EXCEPT ![a][h] = DropRule(@)]
        /\ stray' = [stray EXCEPT ![a][h] = IF stray[a][h] > DropRule(rules[a][h])
                                            THEN DropRule(rules[a][h]) ELSE stray[a][h]]
    BY <1>4 DEF AfterCommand, StrayAfter
  <2> QED BY <1>1, <1>4, <2>1 DEF RulesOK, StrayOK
<1> QED BY <1>2, <1>3, <1>4

LEMMA NextOwned ==
    ASSUME OwnedInv, TypeInv', [Next]_vars
    PROVE  RulesOwned'
<1> USE DEF OwnedInv, TypeInv
<1>0. /\ rules \in [Action -> [Host -> Nat]] /\ stray \in [Action -> [Host -> Nat]]
      /\ None \notin Host /\ banMgr \in [Host -> Rows \cup {None}]
      /\ RulesOK /\ StrayOK
  BY JailAssumption, TypeParts DEF TypeOK
<1>n. ASSUME NEW a \in Action, NEW h \in Host
      PROVE  rules[a][h] \in Nat /\ stray[a][h] \in Nat
  BY <1>0, <1>n
<1>b. ASSUME UNCHANGED <<rules, stray>>,
             \A a \in Action, h \in Host : Owned(a, h) => Owned(a, h)'
      PROVE  RulesOwned'
  BY <1>b DEF RulesOwned, RuleOwned
<1>a. ASSUME UNCHANGED <<pc, cur, todo, work, banMgr, rules, stray>>
      PROVE  RulesOwned'
  <2>1. \A a \in Action, h \in Host : Owned(a, h) => Owned(a, h)'
    BY <1>a DEF Owned, banned
  <2> QED BY <1>a, <1>b, <2>1
<1>1. CASE RunCommand
  <2>1. PICK c \in todo :
            /\ todo' = todo \ {c}
            /\ \/ rules' = AfterCommand(c[1], c[2]) /\ stray' = StrayAfter(c[1], c[2])
               \/ Failed(c[1], c[2]) /\ UNCHANGED rules
    BY <1>1 DEF RunCommand
  <2>2. PICK a \in Action, h \in Host \cup {None} : c = <<a, h>>
    BY <2>1 DEF TypeOK
  <2>3. UNCHANGED <<pc, cur, work, banMgr>> /\ banned' = banned
    BY <1>1 DEF RunCommand, banned
  <2>4. SUFFICES ASSUME NEW b \in Action, NEW g \in Host PROVE RuleOwned(b, g)'
    BY DEF RulesOwned
  <2>5. RuleOwned(b, g) /\ rules[b][g] \in Nat /\ stray[b][g] \in Nat
    BY <1>n DEF RulesOwned
  <2>6. a # b \/ h \notin {g, None} => (Owned(b, g) => Owned(b, g)')
    BY <2>1, <2>2, <2>3 DEF Owned
  <2>7. pc \in {"banning", "manual"} => h = cur.ip /\ h \in Host
    BY <2>1, <2>2 DEF Phases, Each, Rows
  <2>8. CASE rules' = AfterCommand(c[1], c[2]) /\ stray' = StrayAfter(c[1], c[2])
    <3>e. rules' = AfterCommand(a, h) /\ stray' = StrayAfter(a, h)
      BY <2>2, <2>8
    <3>1. CASE a # b \/ h \notin {g, None}
      <4>1. rules'[b][g] = rules[b][g] /\ stray'[b][g] = stray[b][g]
        BY <1>0, <3>e, <3>1, CommandEffect
      <4> QED BY <2>5, <2>6, <3>1, <4>1 DEF RuleOwned
    <3>2. CASE a = b /\ h = None
      <4>1. rules'[b][g] = 0 /\ stray'[b][g] = 0
        BY <1>0, <3>e, <3>2, CommandEffect
      <4> QED BY <4>1 DEF RuleOwned
    <3>3. CASE a = b /\ h = g /\ pc \in {"banning", "manual"}
      <4>1. /\ rules'[b][g] = AddRule(rules[b][g])
            /\ stray'[b][g] = IF ~RuleBag THEN 0
                              ELSE IF rules[b][g] > stray[b][g]
                              THEN stray[b][g] + 1 ELSE stray[b][g]
        BY <1>0, <3>e, <3>3, CommandEffect
      <4>2. Owned(b, g)'
        BY <2>3, <2>7, <3>3 DEF Owned
      <4> QED BY <2>5, <4>1, <4>2 DEF RuleOwned, AddRule
    <3>4. CASE a = b /\ h = g /\ pc \notin {"banning", "manual"}
      <4>1. /\ rules'[b][g] = DropRule(rules[b][g])
            /\ stray'[b][g] = IF stray[b][g] > DropRule(rules[b][g])
                              THEN DropRule(rules[b][g]) ELSE stray[b][g]
        BY <1>0, <3>e, <3>4, CommandEffect
      <4> QED BY <2>5, <4>1 DEF RuleOwned, DropRule
    <3> QED BY <3>1, <3>2, <3>3, <3>4
  <2>9. CASE Failed(c[1], c[2]) /\ UNCHANGED rules
    <3>1. stray' = IF h = None THEN [stray EXCEPT ![a] = rules[a]]
                   ELSE IF pc \in {"banning", "manual"} THEN stray
                   ELSE [stray EXCEPT ![a][h] = rules[a][h]]
      BY <2>2, <2>9 DEF Failed
    <3>2. CASE pc \in {"banning", "manual"}
      <4>1. stray' = stray
        BY <1>0, <2>7, <3>1, <3>2
      <4>2. Owned(b, g) => Owned(b, g)'
        BY <2>3, <3>2 DEF Owned
      <4> QED BY <2>5, <2>9, <4>1, <4>2 DEF RuleOwned
    <3>3. CASE pc \notin {"banning", "manual"}
      <4>1. a # b \/ h \notin {g, None} => stray'[b][g] = stray[b][g]
        BY <1>0, <3>1, <3>3
      <4>2. a = b /\ h \in {g, None} => stray'[b][g] = rules[b][g]
        BY <1>0, <3>1, <3>3
      <4> QED BY <2>5, <2>6, <2>9, <4>1, <4>2 DEF RuleOwned
    <3> QED BY <3>2, <3>3
  <2> QED BY <2>1, <2>8, <2>9
<1>2. CASE FinishBan
  <2>1. cur \in Rows /\ cur.ip \in Host
    BY <1>2 DEF FinishBan, Phases, Rows
  <2>2. banned' = banned \cup {cur.ip}
    BY <1>0, <1>2, <2>1, NoneIsNoRow DEF FinishBan, banned
  <2>3. /\ pc = "banning" /\ todo = {} /\ pc' = "idle" /\ work' = work
        /\ UNCHANGED <<rules, stray>>
    BY <1>2 DEF FinishBan, past
  <2>4. \A a \in Action, h \in Host : Owned(a, h) => Owned(a, h)'
    BY <2>2, <2>3 DEF Owned
  <2> QED BY <1>b, <2>3, <2>4
<1>3. CASE FinishManualBan
  <2>1. [cur EXCEPT !.timeofban = now] \in Rows /\ cur.ip \in Host
    BY <1>3 DEF FinishManualBan, Phases, Rows, TypeOK
  <2>2. banned' = banned \cup {cur.ip}
    BY <1>0, <1>3, <2>1, NoneIsNoRow DEF FinishManualBan, banned
  <2>3. /\ pc = "manual" /\ todo = {} /\ pc' = "idle" /\ work' = work
        /\ UNCHANGED <<rules, stray>>
    BY <1>3 DEF FinishManualBan, past
  <2>4. \A a \in Action, h \in Host : Owned(a, h) => Owned(a, h)'
    BY <2>2, <2>3 DEF Owned
  <2> QED BY <1>b, <2>3, <2>4
<1>4. CASE FinishUnban
  <2>1. \A a \in Action, h \in Host : Owned(a, h) => Owned(a, h)'
    BY <1>0, <1>4 DEF FinishUnban, Owned, banned, Phases
  <2> QED BY <1>4, <1>b, <2>1 DEF FinishUnban, past
<1>5. CASE ExpireNext
  <2>1. \A a \in Action, h \in Host : Owned(a, h) => Owned(a, h)'
    BY <1>0, <1>5 DEF ExpireNext, Owned, banned, Phases, Each
  <2> QED BY <1>5, <1>b, <2>1 DEF ExpireNext, past
<1>6. CASE ExpireRow
  <2>1. \A a \in Action, h \in Host : Owned(a, h) => Owned(a, h)'
    BY <1>0, <1>6 DEF ExpireRow, Owned, banned, Phases
  <2> QED BY <1>6, <1>b, <2>1 DEF ExpireRow, past
<1>7. CASE FinishPurge
  <2>1. /\ rules' = rules /\ banned' = banned /\ work = {} /\ work' = {} /\ todo = {}
        /\ pc = "expiring" /\ pc' = IF leaving THEN "stopping" ELSE "idle"
        /\ todo' = IF leaving THEN StopTodo ELSE {}
        /\ stray' = [a \in Action |-> IF leaving /\ ~started[a] THEN rules[a]
                                      ELSE stray[a]]
    BY <1>7 DEF FinishPurge, banned, Phases
  <2>2. SUFFICES ASSUME NEW a \in Action, NEW h \in Host PROVE RuleOwned(a, h)'
    BY DEF RulesOwned
  <2>3. RuleOwned(a, h) /\ rules[a][h] \in Nat /\ stray[a][h] \in Nat
    BY <1>n DEF RulesOwned
  <2>4. CASE leaving /\ ~started[a]
    BY <2>1, <2>3, <2>4 DEF RuleOwned
  <2>5. CASE leaving /\ started[a]
    <3>1. <<a, None>> \in todo' /\ stray'[a][h] = stray[a][h]
      BY <2>1, <2>5 DEF StopTodo
    <3> QED BY <2>1, <2>3, <2>5, <3>1 DEF RuleOwned, Owned
  <2>6. CASE ~leaving
    <3>1. stray'[a][h] = stray[a][h]
      BY <2>1, <2>6
    <3> QED BY <2>1, <2>3, <2>6, <3>1 DEF RuleOwned, Owned
  <2> QED BY <2>4, <2>5, <2>6
<1>8. CASE FinishStop
  <2>1. \A a \in Action, h \in Host : ~Owned(a, h)
    BY <1>0, <1>8 DEF FinishStop, Owned, Phases
  <2> QED BY <1>8, <1>b, <2>1 DEF FinishStop
<1>9. CASE PurgeExpiredBans
  <2>1. \A a \in Action, h \in Host : Owned(a, h) => Owned(a, h)'
    BY <1>0, <1>9 DEF PurgeExpiredBans, TakeExpired, ExpiredHosts, Owned, banned, Phases
  <2> QED BY <1>9, <1>b, <2>1 DEF PurgeExpiredBans, past
<1>10. CASE Snapshot \/ LockRestore \/ SendRestore \/ FinishRestore \/ UnbanRows
            \/ SendLocked \/ StartAllAgain \/ UnbanAll \/ StopJail \/ Tick
  BY <1>10, <1>a DEF Snapshot, LockRestore, SendRestore, FinishRestore, UnbanRows,
                SendLocked, StartAllAgain, UnbanAll, StopJail, Tick, Lock, task, past
<1>11. ASSUME NEW h \in Host, Unban(h) PROVE RulesOwned'
  BY <1>11, <1>a DEF Unban, Lock, task, past
<1>12. ASSUME NEW op \in {"banip", "unbanip"}, NEW h \in Host, SetCommand(op, h)
       PROVE  RulesOwned'
  BY <1>12, <1>a DEF SetCommand, task
<1>13. CASE UNCHANGED vars
  BY <1>13, <1>a DEF vars, task, past
<1>14. ASSUME NEW all \in BOOLEAN, Start(all) PROVE RulesOwned'
  <2>1. UNCHANGED <<rules, stray>> /\ pc = "down" /\ work = {}
    BY <1>14, TypeParts DEF Start, task, TaskOK
  <2>2. \A a \in Action, h \in Host : ~Owned(a, h)
    BY <2>1 DEF Owned
  <2> QED BY <1>b, <2>1, <2>2
<1>15. CASE ManualBan
  <2>1. \A a \in Action, h \in Host : Owned(a, h) => Owned(a, h)'
    BY <1>0, <1>15 DEF ManualBan, Receive, Owned, banned
  <2> QED BY <1>15, <1>b, <2>1 DEF ManualBan, Receive
<1>16. CASE ManualUnban
  <2>1. \A a \in Action, h \in Host : Owned(a, h) => Owned(a, h)'
    BY <1>0, <1>16 DEF ManualUnban, Receive, Owned, banned, Each, Phases
  <2> QED BY <1>16, <1>b, <2>1 DEF ManualUnban, Receive
<1>17. CASE FlushAllBans
  <2>1. /\ rules' = rules /\ work' = work /\ work = {} /\ pc = "idle" /\ pc' = "flushing"
        /\ todo' = FlushTodo
        /\ stray' = [a \in Action |-> [h \in Host |->
                        IF FlushAction # {} /\ a \notin FlushAction /\ h \in banned
                        THEN rules[a][h] ELSE stray[a][h]]]
    BY <1>17 DEF FlushAllBans, Receive, Phases
  <2>2. SUFFICES ASSUME NEW a \in Action, NEW h \in Host PROVE RuleOwned(a, h)'
    BY DEF RulesOwned
  <2>3. /\ RuleOwned(a, h) /\ rules[a][h] \in Nat /\ stray[a][h] \in Nat
        /\ Owned(a, h) => h \in banned
    BY <1>n, <2>1 DEF RulesOwned, Owned
  <2>4. CASE FlushAction # {} /\ a \notin FlushAction /\ h \in banned
    BY <2>1, <2>3, <2>4 DEF RuleOwned
  <2>5. CASE ~(FlushAction # {} /\ a \notin FlushAction /\ h \in banned)
    <3>1. stray'[a][h] = stray[a][h]
      BY <2>1, <2>5
    <3>2. h \in banned => <<a, h>> \in todo' \/ <<a, None>> \in todo'
      BY <2>1, <2>5 DEF FlushTodo
    <3> QED BY <2>1, <2>3, <3>1, <3>2 DEF RuleOwned, Owned
  <2> QED BY <2>4, <2>5
<1>18. CASE RestoreBan
  <2>1. \A h \in banned : h \in banned'
    <3>1. Head(queue).row # None
      BY <1>18, NoneIsNoRow, RowOfCmd, HeadType DEF RestoreBan, Receive, TypeOK
    <3> QED BY <1>0, <1>18, <3>1 DEF RestoreBan, Restored, Receive, banned
  <2>2. \A a \in Action, h \in Host : Owned(a, h) => Owned(a, h)'
    BY <1>18, <2>1 DEF RestoreBan, Receive, Owned, Phases
  <2> QED BY <1>18, <1>b, <2>2 DEF RestoreBan, Receive
<1>19. CASE Stop
  <2>1. \A a \in Action, h \in Host : Owned(a, h) => Owned(a, h)'
    BY <1>0, <1>19 DEF Stop, TakeExpired, ExpiredHosts, Receive, Owned, banned, Phases
  <2> QED BY <1>19, <1>b, <2>1 DEF Stop, Receive
<1>20. ASSUME NEW h \in Host, IssueBan(h) PROVE RulesOwned'
  <2>1. \A a \in Action, g \in Host : Owned(a, g) => Owned(a, g)'
    BY <1>0, <1>20 DEF IssueBan, Owned, banned, Phases
  <2> QED BY <1>20, <1>b, <2>1 DEF IssueBan
<1>21. CASE Crash
  BY <1>n, <1>21 DEF Crash, RulesOwned, RuleOwned
<1> QED
  BY <1>1, <1>2, <1>3, <1>4, <1>5, <1>6, <1>7, <1>8, <1>9, <1>10, <1>11, <1>12,
     <1>13, <1>14, <1>15, <1>16, <1>17, <1>18, <1>19, <1>20, <1>21
  DEF Next, TaskStep, ServerStep, Request

(* The inductive invariant of the theorem that follows: every rule above   *)
(* the strays has an owner that is still to remove it.                     *)
THEOREM OwnedAlways == Spec => []OwnedInv
<1>1. Init => OwnedInv
  BY InitTypeInv, InitOwned DEF OwnedInv
<1>2. OwnedInv /\ [Next]_vars => OwnedInv'
  BY NextTypeInv, NextOwned DEF OwnedInv
<1> QED BY <1>1, <1>2, PTL DEF Spec

(* A rule whose owner is not in memory is removed before the jail is idle  *)
(* again: no operation of the task, of its clients or of a restart leaves  *)
(* one behind but those `stray` counts, each at the step that left it.     *)
THEOREM NoRuleIsOrphaned == Spec => []NoOrphanRule
<1>1. OwnedInv => NoOrphanRule
  <2> SUFFICES ASSUME OwnedInv, Settled, NEW a \in Action, NEW h \in Host,
                      rules[a][h] > stray[a][h]
               PROVE  h \in banned /\ rules[a][h] = stray[a][h] + 1
    BY DEF NoOrphanRule
  <2>1. RuleOwned(a, h) /\ rules[a][h] \in Nat /\ stray[a][h] \in Nat
    BY DEF OwnedInv, RulesOwned, TypeInv, TypeOK
  <2> QED BY <2>1 DEF OwnedInv, TypeInv, Phases, RuleOwned, Owned, Settled
<1> QED BY <1>1, OwnedAlways, PTL

-----------------------------------------------------------------------------
(* While nothing fails, all actions are started, and a jail that leaves    *)
(* its loop still has the actionstop of every action with rules to run.    *)
StopsToCome ==
    ~mishap =>
        /\ pc # "down" => \A a \in Action : started[a]
        /\ pc = "stopping" =>
              \A a \in Action : rules[a] = NoRules \/ <<a, None>> \in todo
        /\ pc = "down" => \A a \in Action : rules[a] = NoRules

(* The final purge and actionstop between them remove every rule, however  *)
(* many an action has for a host, unless actionstop is not run because     *)
(* actionstart was on demand.                                              *)
THEOREM StopLeavesNoRule ==
    ASSUME ~OnDemand
    PROVE  Spec => []StopCleans
<1> DEFINE StopInv == TypeInv /\ StopsToCome
<1>1. Init => StopInv
  BY InitTypeInv DEF Init, StopsToCome
<1>2. StopInv /\ [Next]_vars => StopInv'
  <2> SUFFICES ASSUME TypeInv, StopsToCome, TypeInv', [Next]_vars PROVE StopsToCome'
    BY NextTypeInv
  <2> USE DEF TypeInv
  <2>0. /\ RulesOK /\ StrayOK /\ None \notin Host /\ started \in [Action -> BOOLEAN]
    BY JailAssumption, TypeParts DEF TypeOK
  <2>a. ASSUME UNCHANGED <<rules, started, mishap>>,
               pc' = pc \/ (pc \notin {"down", "stopping"} /\ pc' \notin {"down", "stopping"}),
               pc = "stopping" => todo' = todo
        PROVE  StopsToCome'
    BY <2>a DEF StopsToCome
  <2>1. CASE RunCommand
    <3>1. PICK c \in todo :
              /\ todo' = todo \ {c}
              /\ \/ rules' = AfterCommand(c[1], c[2]) /\ UNCHANGED mishap
                 \/ mishap' = TRUE
      BY <2>1 DEF RunCommand, Failed
    <3>2. PICK a \in Action, h \in Host \cup {None} : c = <<a, h>>
      BY <3>1 DEF TypeOK
    <3>3. UNCHANGED <<pc, started>> /\ pc # "down"
      BY <2>1, <3>1 DEF RunCommand, TypeOK
    <3>4. ASSUME ~mishap', pc = "stopping", NEW b \in Action
          PROVE  rules'[b] = NoRules \/ <<b, None>> \in todo'
      <4>1. h = None
        BY <3>1, <3>2, <3>4 DEF Phases
      <4>2. rules' = [rules EXCEPT ![a] = NoRules] /\ ~mishap
        BY <3>1, <3>2, <3>4, <4>1 DEF AfterCommand
      <4>3. rules[b] = NoRules \/ <<b, None>> \in todo
        BY <3>4, <4>2 DEF StopsToCome
      <4> QED BY <2>0, <3>1, <3>2, <4>1, <4>2, <4>3 DEF RulesOK
    <3>5. ~mishap' => ~mishap
      BY <3>1
    <3> QED BY <3>3, <3>4, <3>5 DEF StopsToCome
  <2>2. CASE FinishPurge
    <3>1. CASE leaving
      <4>1. pc' = "stopping" /\ todo' = StopTodo /\ UNCHANGED <<started, mishap>>
            /\ pc = "expiring"
        BY <2>2, <3>1 DEF FinishPurge
      <4>2. ~mishap => \A a \in Action : <<a, None>> \in todo'
        BY <4>1 DEF StopsToCome, StopTodo
      <4> QED BY <4>1, <4>2 DEF StopsToCome
    <3>2. CASE ~leaving
      BY <2>2, <2>a, <3>2 DEF FinishPurge
    <3> QED BY <3>1, <3>2
  <2>3. CASE FinishStop
    BY <2>3 DEF FinishStop, StopsToCome
  <2>4. ASSUME NEW all \in BOOLEAN, Start(all) PROVE StopsToCome'
    <3>1. PICK ok \in SUBSET Action : /\ started' = [a \in Action |-> a \in ok /\ ~OnDemand]
                                      /\ mishap' = (mishap \/ ok # Action)
      BY <2>4 DEF Start
    <3>2. ~mishap' => ~mishap /\ ok = Action
      BY <3>1 DEF TypeOK
    <3>3. pc' = "idle"
      BY <2>4 DEF Start
    <3> QED BY <3>1, <3>2, <3>3 DEF StopsToCome
  <2>5. CASE Crash
    BY <2>5 DEF Crash, StopsToCome
  <2>6. CASE FinishBan \/ FinishManualBan \/ FinishUnban \/ ExpireNext \/ ExpireRow
             \/ PurgeExpiredBans
    BY <2>6, <2>a DEF FinishBan, FinishManualBan, FinishUnban, ExpireNext, ExpireRow,
                      PurgeExpiredBans, TakeExpired, past
  <2>7. CASE ManualBan \/ ManualUnban \/ FlushAllBans \/ RestoreBan \/ Stop
    BY <2>7, <2>a DEF ManualBan, ManualUnban, FlushAllBans, RestoreBan, Stop, Receive,
                      TakeExpired
  <2>8. CASE Snapshot \/ LockRestore \/ SendRestore \/ FinishRestore \/ UnbanRows
             \/ SendLocked \/ StartAllAgain \/ UnbanAll \/ StopJail \/ Tick
    BY <2>8, <2>a DEF Snapshot, LockRestore, SendRestore, FinishRestore, UnbanRows,
                  SendLocked, StartAllAgain, UnbanAll, StopJail, Tick, Lock, task, past
  <2>9. ASSUME NEW h \in Host, Unban(h) \/ IssueBan(h) PROVE StopsToCome'
    BY <2>9, <2>a DEF Unban, Lock, IssueBan, task, past
  <2>10. ASSUME NEW op \in {"banip", "unbanip"}, NEW h \in Host, SetCommand(op, h)
         PROVE  StopsToCome'
    BY <2>10, <2>a DEF SetCommand, task
  <2>11. CASE UNCHANGED vars
    BY <2>11, <2>a DEF vars, task, past
  <2> QED
    BY <2>1, <2>2, <2>3, <2>4, <2>5, <2>6, <2>7, <2>8, <2>9, <2>10, <2>11
    DEF Next, TaskStep, ServerStep, Request
<1>3. StopInv => StopCleans
  BY DEF StopsToCome, StopCleans
<1> HIDE DEF StopInv
<1> QED BY <1>1, <1>2, <1>3, PTL DEF Spec

-----------------------------------------------------------------------------
(* A banned host has its rules, or the command that adds them is to come,  *)
(* or is known to lack them, and no command to come removes them, until    *)
(* the jail stops.                                                         *)
BanUnderWay(h) == pc \in {"banning", "manual"} /\ cur.ip = h
Covered ==
    /\ \A a \in Action, h \in banned \ bare :
          pc # "stopping" => rules[a][h] > 0 \/ BanUnderWay(h)
    /\ pc \in {"banning", "manual"} =>
          \A a \in Action : \/ rules[a][cur.ip] > 0 \/ <<a, cur.ip>> \in todo
                            \/ cur.ip \in bare
    /\ pc \in {"unbanning", "flushing", "expiring"} =>
          /\ \A c \in todo : c[2] \in Host => c[2] \notin banned
          /\ \A c \in todo : c[2] = None => banned = {}
    /\ work \cap banned = {}

LEMMA InitCovered == Init => Covered
BY DEF Init, NoBans, banned, Covered

LEMMA NextCovered ==
    ASSUME TypeInv, TypeInv', Covered, [Next]_vars
    PROVE  Covered'
<1> USE DEF TypeInv
<1>0. /\ rules \in [Action -> [Host -> Nat]] /\ None \notin Host
      /\ banMgr \in [Host -> Rows \cup {None}] /\ RulesOK /\ StrayOK
      /\ pc \in {"idle", "down"} => todo = {} /\ work = {}
  BY JailAssumption, TypeParts DEF TypeOK
<1>a. ASSUME UNCHANGED <<pc, cur, todo, work, banMgr, rules, bare>>
      PROVE  Covered'
  BY <1>a DEF Covered, BanUnderWay, banned
<1>1. CASE RunCommand
  <2>1. PICK c \in todo :
            /\ todo' = todo \ {c}
            /\ \/ rules' = AfterCommand(c[1], c[2]) /\ stray' = StrayAfter(c[1], c[2])
                  /\ UNCHANGED bare
               \/ Failed(c[1], c[2]) /\ UNCHANGED rules
    BY <1>1 DEF RunCommand
  <2>2. PICK a \in Action, h \in Host \cup {None} : c = <<a, h>>
    BY <2>1 DEF TypeOK
  <2>3. /\ UNCHANGED <<pc, cur, work, banMgr>> /\ banned' = banned /\ banned \subseteq Host
        /\ todo' \subseteq todo /\ pc \notin {"idle", "down"}
    BY <1>0, <1>1, <2>1 DEF RunCommand, banned
  <2>4. CASE pc \in {"banning", "manual"}
    <3>1. h = cur.ip /\ h \in Host /\ \A b \in Action : <<b, h>> \in todo =>
                                           b = a \/ <<b, h>> \in todo'
      BY <2>1, <2>2, <2>4 DEF Phases, Each, Rows
    <3>2. CASE rules' = AfterCommand(c[1], c[2]) /\ stray' = StrayAfter(c[1], c[2])
               /\ UNCHANGED bare
      <4>1. \A b \in Action, g \in Host :
               /\ b # a \/ g # h => rules'[b][g] = rules[b][g]
               /\ b = a /\ g = h => rules'[b][g] = AddRule(rules[b][g])
        BY <1>0, <2>2, <2>4, <3>1, <3>2, CommandEffect
      <4>2. rules'[a][h] > 0
        BY <1>0, <3>1, <4>1 DEF AddRule
      <4>3. \A b \in Action, g \in Host : rules[b][g] > 0 => rules'[b][g] > 0
        BY <4>1, <4>2
      <4> QED BY <2>3, <2>4, <3>1, <3>2, <4>2, <4>3 DEF Covered, BanUnderWay
    <3>3. CASE Failed(c[1], c[2]) /\ UNCHANGED rules
      <4>1. /\ bare \subseteq bare'
            /\ rules[a][h] > 0 \/ h \in bare'
        BY <1>0, <2>2, <2>4, <3>1, <3>3 DEF Failed
      <4> QED BY <2>3, <2>4, <3>1, <3>3, <4>1 DEF Covered, BanUnderWay
    <3> QED BY <2>1, <3>2, <3>3
  <2>5. CASE pc \notin {"banning", "manual"}
    <3>1. bare' = bare
      BY <2>1, <2>5 DEF Failed
    <3>2. pc # "stopping" => h \notin banned /\ (h = None => banned = {})
      BY <1>0, <2>1, <2>2, <2>3, <2>5 DEF Covered, TypeOK
    <3>3. \A b \in Action, g \in banned : pc # "stopping" => rules'[b][g] = rules[b][g]
      <4>1. CASE rules' = AfterCommand(c[1], c[2]) /\ stray' = StrayAfter(c[1], c[2])
        BY <1>0, <2>2, <2>3, <3>2, <4>1, CommandEffect
      <4>2. CASE UNCHANGED rules
        BY <4>2
      <4> QED BY <2>1, <4>1, <4>2
    <3> QED BY <2>3, <2>5, <3>1, <3>3 DEF Covered, BanUnderWay
  <2> QED BY <2>4, <2>5
<1>2. CASE FinishBan \/ FinishManualBan
  <2>1. banned' \subseteq banned \cup {cur.ip}
    BY <1>0, <1>2 DEF FinishBan, FinishManualBan, banned
  <2>2. /\ pc \in {"banning", "manual"} /\ todo = {} /\ pc' = "idle" /\ todo' = {}
        /\ UNCHANGED <<work, rules, bare>> /\ work = {}
    BY <1>2 DEF FinishBan, FinishManualBan, past, Phases
  <2> QED BY <2>1, <2>2 DEF Covered, BanUnderWay
<1>3. CASE FinishUnban
  BY <1>0, <1>3 DEF FinishUnban, past, Covered, BanUnderWay, banned
<1>4. CASE ExpireNext
  <2>1. PICK h \in work : cur' = h /\ work' = work \ {h} /\ todo' = Each(h)
    BY <1>4 DEF ExpireNext
  <2>2. h \in Host /\ h \notin banned /\ banned' = banned
    BY <1>4, <2>1 DEF ExpireNext, Covered, banned, TypeOK
  <2>3. pc = "expiring" /\ UNCHANGED <<pc, rules, bare>>
    BY <1>4 DEF ExpireNext, past
  <2> QED BY <1>0, <2>1, <2>2, <2>3 DEF Covered, BanUnderWay, Each
<1>5. CASE ExpireRow
  BY <1>0, <1>5 DEF ExpireRow, past, Covered, BanUnderWay, banned
<1>6. CASE FinishPurge
  <2>1. /\ pc = "expiring" /\ pc' \in {"idle", "stopping"} /\ banned' = banned /\ work' = work
        /\ UNCHANGED <<rules, bare>>
    BY <1>6 DEF FinishPurge, banned
  <2> QED BY <2>1 DEF Covered, BanUnderWay
<1>7. CASE FinishStop \/ Crash
  BY <1>0, <1>7 DEF FinishStop, Crash, NoBans, Covered, banned
<1>8. CASE PurgeExpiredBans
  BY <1>0, <1>8 DEF PurgeExpiredBans, TakeExpired, ExpiredHosts, past, Covered,
                    BanUnderWay, banned
<1>9. CASE Snapshot \/ LockRestore \/ SendRestore \/ FinishRestore \/ UnbanRows
           \/ SendLocked \/ StartAllAgain \/ UnbanAll \/ StopJail \/ Tick
  BY <1>9, <1>a DEF Snapshot, LockRestore, SendRestore, FinishRestore, UnbanRows,
                SendLocked, StartAllAgain, UnbanAll, StopJail, Tick, Lock, task, past
<1>10. ASSUME NEW h \in Host, Unban(h) PROVE Covered'
  BY <1>10, <1>a DEF Unban, Lock, task, past
<1>11. ASSUME NEW op \in {"banip", "unbanip"}, NEW h \in Host, SetCommand(op, h)
       PROVE  Covered'
  BY <1>11, <1>a DEF SetCommand, task
<1>12. CASE UNCHANGED vars
  BY <1>12, <1>a DEF vars, task, past
<1>13. ASSUME NEW all \in BOOLEAN, Start(all) PROVE Covered'
  BY <1>0, <1>13 DEF Start, Covered, BanUnderWay, banned
<1>14. CASE ManualBan
  <2>1. cur'.ip = Head(queue).host /\ todo' = Each(cur'.ip)
    BY <1>14 DEF ManualBan, Row
  <2>2. /\ pc = "idle" /\ pc' = "manual" /\ bare' = bare \ {cur'.ip} /\ banned' = banned
        /\ UNCHANGED <<work, banMgr, rules>>
    BY <1>14, <2>1 DEF ManualBan, Receive, banned
  <2> QED BY <2>1, <2>2 DEF Covered, BanUnderWay, Each
<1>15. CASE ManualUnban
  BY <1>0, <1>15 DEF ManualUnban, Receive, Covered, BanUnderWay, banned, Each
<1>16. CASE FlushAllBans
  BY <1>0, <1>16 DEF FlushAllBans, Receive, Covered, BanUnderWay, banned, NoBans
<1>17. CASE RestoreBan
  <2>1. PICK r \in Rows : Head(queue).row = r
    BY <1>17, RowOfCmd, HeadType DEF RestoreBan, Receive, TypeOK
  <2>2. pc = "idle" /\ UNCHANGED <<pc, cur, todo, work, rules>> /\ r.ip \in Host
    BY <1>17 DEF RestoreBan, Receive, Rows
  <2>3. banned' \subseteq banned \cup {r.ip} /\ bare \subseteq bare'
    BY <1>0, <1>17, <2>1, <2>2 DEF RestoreBan, Restored, banned
  <2>4. /\ r.ip \notin banned /\ r.ip \in banned' =>
              r.ip \in bare' \/ \A a \in Action : rules[a][r.ip] > 0
    BY <1>0, <1>17, <2>1, <2>2 DEF RestoreBan, banned
  <2> QED BY <1>0, <2>2, <2>3, <2>4 DEF Covered, BanUnderWay
<1>18. CASE Stop
  BY <1>0, <1>18 DEF Stop, TakeExpired, ExpiredHosts, Receive, Covered, BanUnderWay, banned
<1>19. ASSUME NEW h \in Host, IssueBan(h) PROVE Covered'
  <2>1. cur'.ip = h /\ todo' = Each(h)
    BY <1>19 DEF IssueBan, Row
  <2>2. /\ pc = "idle" /\ pc' = "banning" /\ bare' = bare \ {h} /\ banned' = banned
        /\ UNCHANGED <<work, banMgr, rules>>
    BY <1>19 DEF IssueBan, banned
  <2> QED BY <2>1, <2>2 DEF Covered, BanUnderWay, Each
<1> QED
  BY <1>1, <1>2, <1>3, <1>4, <1>5, <1>6, <1>7, <1>8, <1>9, <1>10, <1>11, <1>12,
     <1>13, <1>14, <1>15, <1>16, <1>17, <1>18, <1>19
  DEF Next, TaskStep, ServerStep, Request

(* No interleaving of bans, unbans, flushes, purges, restores and crashes  *)
(* lifts the block of a host the jail still lists: a listed host lacks a   *)
(* rule only since a restore that found none, or a failed actionban.       *)
THEOREM ListedHostIsBlocked == Spec => []BannedIsBlocked
<1> DEFINE CoveredInv == TypeInv /\ Covered
<1>1. Init => CoveredInv
  BY InitTypeInv, InitCovered
<1>2. CoveredInv /\ [Next]_vars => CoveredInv'
  BY NextTypeInv, NextCovered
<1>3. CoveredInv => BannedIsBlocked
  BY DEF Covered, BanUnderWay, BannedIsBlocked, Settled
<1> HIDE DEF CoveredInv
<1> QED BY <1>1, <1>2, <1>3, PTL DEF Spec

-----------------------------------------------------------------------------
(* Bans go through the database: no banip (which writes nothing), no unban *)
(* of the server (which deletes the rows before the jail has acted), no    *)
(* restore into a jail that runs; no line is matched during a restore.     *)
ByTheBook ==
    /\ {"banip", "unban", "unban_all", "start_all_again"} \cap Ops = {}
    /\ QuietRestore

-----------------------------------------------------------------------------
(* Restores in the command channel.                                        *)
Waits(q, r) == \E i \in DOMAIN q : q[i].cmd = "restore" /\ q[i].row = r
EachOnce(q) ==
    \A i, j \in DOMAIN q :
        q[i].cmd = "restore" /\ q[j].cmd = "restore" /\ q[i].row = q[j].row => i = j
Restores(q) == \E i \in DOMAIN q : q[i].cmd = "restore"

LEMMA AfterHead ==
    ASSUME NEW q \in Seq(Cmd), q # <<>>
    PROVE  /\ Head(q) \in Cmd /\ 1 \in DOMAIN q /\ Head(q) = q[1]
           /\ \A i \in DOMAIN Tail(q) : i + 1 \in DOMAIN q /\ Tail(q)[i] = q[i + 1]
           /\ \A i \in DOMAIN q : i = 1 \/ (i - 1 \in DOMAIN Tail(q) /\ Tail(q)[i - 1] = q[i])
           /\ \A i \in DOMAIN Tail(q) : i \in Nat
  OBVIOUS

LEMMA HeadTaken ==
    ASSUME NEW q \in Seq(Cmd), q # <<>>, EachOnce(q)
    PROVE  /\ EachOnce(Tail(q))
           /\ Restores(Tail(q)) => Restores(q)
           /\ Head(q).cmd # "restore" => \A r : Waits(Tail(q), r) <=> Waits(q, r)
           /\ Head(q).cmd = "restore" =>
                 /\ Waits(q, Head(q).row)
                 /\ \A r : Waits(Tail(q), r) <=> Waits(q, r) /\ r # Head(q).row
<1>1. EachOnce(Tail(q))
  <2> SUFFICES ASSUME NEW i \in DOMAIN Tail(q), NEW j \in DOMAIN Tail(q),
                      Tail(q)[i].cmd = "restore", Tail(q)[j].cmd = "restore",
                      Tail(q)[i].row = Tail(q)[j].row
               PROVE  i = j
    BY DEF EachOnce
  <2>1. i + 1 = j + 1
    BY AfterHead DEF EachOnce
  <2> QED BY <2>1, AfterHead
<1>2. \A r : Waits(Tail(q), r) => Waits(q, r)
  BY AfterHead DEF Waits
<1>3. ASSUME NEW r, Waits(q, r)
      PROVE  Waits(Tail(q), r) \/ (Head(q).cmd = "restore" /\ r = Head(q).row)
  <2>1. PICK i \in DOMAIN q : q[i].cmd = "restore" /\ q[i].row = r
    BY <1>3 DEF Waits
  <2>2. CASE i = 1
    BY <2>1, <2>2, AfterHead
  <2>3. CASE i - 1 \in DOMAIN Tail(q) /\ Tail(q)[i - 1] = q[i]
    BY <2>1, <2>3 DEF Waits
  <2> QED BY <2>2, <2>3, AfterHead
<1>4. Head(q).cmd = "restore" => Waits(q, Head(q).row) /\ ~Waits(Tail(q), Head(q).row)
  <2> SUFFICES ASSUME Head(q).cmd = "restore"
               PROVE  Waits(q, Head(q).row) /\ ~Waits(Tail(q), Head(q).row)
    OBVIOUS
  <2>1. Waits(q, Head(q).row)
    BY AfterHead DEF Waits
  <2>2. ASSUME NEW i \in DOMAIN Tail(q), Tail(q)[i].cmd = "restore",
               Tail(q)[i].row = Head(q).row
        PROVE  FALSE
    <3>1. i + 1 = 1
      BY <2>2, AfterHead DEF EachOnce
    <3> QED BY <2>2, <3>1, AfterHead
  <2> QED BY <2>1, <2>2 DEF Waits
<1>5. Restores(Tail(q)) => Restores(q)
  BY AfterHead DEF Restores
<1> QED BY <1>1, <1>2, <1>3, <1>4, <1>5

LEMMA CommandAdded ==
    ASSUME NEW q \in Seq(Cmd), NEW c \in Cmd, EachOnce(q),
           c.cmd = "restore" => ~Waits(q, c.row)
    PROVE  /\ EachOnce(Append(q, c))
           /\ \A r : Waits(Append(q, c), r)
                     <=> Waits(q, r) \/ (c.cmd = "restore" /\ r = c.row)
           /\ Restores(Append(q, c)) => Restores(q) \/ c.cmd = "restore"
           /\ \A i \in DOMAIN Append(q, c) :
                 Append(q, c)[i] = c \/ (i \in DOMAIN q /\ Append(q, c)[i] = q[i])
<1>1. /\ DOMAIN Append(q, c) = DOMAIN q \cup {Len(q) + 1}
      /\ Append(q, c)[Len(q) + 1] = c
      /\ \A i \in DOMAIN q : Append(q, c)[i] = q[i] /\ i # Len(q) + 1
  OBVIOUS
<1> DEFINE t == Append(q, c)
<1> HIDE DEF t
<1>2. /\ DOMAIN t = DOMAIN q \cup {Len(q) + 1} /\ t[Len(q) + 1] = c
      /\ \A i \in DOMAIN q : t[i] = q[i] /\ i # Len(q) + 1
  BY <1>1 DEF t
<1>3. EachOnce(t)
  BY <1>2 DEF EachOnce, Waits
<1>4. \A r : Waits(t, r) <=> Waits(q, r) \/ (c.cmd = "restore" /\ r = c.row)
  BY <1>2 DEF Waits
<1>5. Restores(t) => Restores(q) \/ c.cmd = "restore"
  BY <1>2 DEF Restores
<1> QED BY <1>2, <1>3, <1>4, <1>5 DEF t

-----------------------------------------------------------------------------
(* The tables: their keys, and the current bans after an insert and a      *)
(* delete.                                                                 *)
BipRows == BipRow({JailName}, Host, 0..MaxTime)
BanKey(b) == \A r, s \in b : SameBan(r, s) => r = s
BipKey(p) == \A x, y \in p : SameHost(x, y) => x = y
Records(p, h) == \E x \in p : x.ip = h

LEMMA ListedOnce ==
    ASSUME NEW b \in SUBSET Rows, NEW p \in SUBSET BipRows, BanKey(b), BipKey(p),
           NEW r \in ListBans(b, p), NEW s \in ListBans(b, p), r.ip = s.ip
    PROVE  r = s
  BY DEF BanKey, BipKey, ListBans, SameBan, SameHost, Rows, BipRows, BipRow

LEMMA Removed ==
    ASSUME NEW b \in SUBSET Rows, NEW p \in SUBSET BipRows, BanKey(b), BipKey(p),
           NEW h \in Host
    PROVE  LET b2 == DeleteMostRecent(b, JailName, h)
               p2 == DeleteBip(p, JailName, h)
           IN  /\ BanKey(b2) /\ BipKey(p2)
               /\ \A r \in Rows : r \in ListBans(b2, p2) <=> r \in ListBans(b, p) /\ r.ip # h
<1> DEFINE b2 == DeleteMostRecent(b, JailName, h)
           p2 == DeleteBip(p, JailName, h)
<1>1. b2 \subseteq b /\ \A r \in b : r.ip # h => r \in b2
  BY DEF DeleteMostRecent, MostRecent, RowsOf
<1>2. p2 = {x \in p : x.ip # h}
  BY DEF DeleteBip, BipRows, BipRow
<1> HIDE DEF b2, p2
<1>3. BanKey(b2) /\ BipKey(p2)
  BY <1>1, <1>2 DEF BanKey, BipKey
<1>4. \A r \in Rows : r \in ListBans(b2, p2) <=> r \in ListBans(b, p) /\ r.ip # h
  BY <1>1, <1>2 DEF ListBans, SameBan, SameHost
<1> QED BY <1>3, <1>4 DEF b2, p2

LEMMA RecordRemoved ==
    ASSUME NEW p \in SUBSET BipRows, NEW h, NEW g, g # h
    PROVE  Records(DeleteBip(p, JailName, h), g) <=> Records(p, g)
  BY DEF Records, DeleteBip

LEMMA RecordAdded ==
    ASSUME NEW p \in SUBSET BipRows, NEW h \in Host, NEW t, NEW g
    PROVE  Records(InsertBip(p, [jail |-> JailName, ip |-> h, timeofban |-> t]), g)
           <=> g = h \/ Records(p, g)
<1> DEFINE x0 == [jail |-> JailName, ip |-> h, timeofban |-> t]
<1>1. \A x \in p : x.jail = JailName
  BY DEF BipRows, BipRow
<1>2. x0.jail = JailName /\ x0.ip = h
  OBVIOUS
<1> HIDE DEF x0
<1>3. Records(InsertBip(p, x0), g) <=> g = h \/ Records(p, g)
  BY <1>1, <1>2 DEF Records, InsertBip, SameHost
<1> QED BY <1>3 DEF x0

LEMMA Added ==
    ASSUME NEW b \in SUBSET Rows, NEW p \in SUBSET BipRows, BanKey(b), BipKey(p),
           NEW r0 \in Rows
    PROVE  LET b2 == InsertBan(b, r0)
               p2 == InsertBip(p, [jail |-> r0.jail, ip |-> r0.ip,
                                   timeofban |-> r0.timeofban])
           IN  /\ BanKey(b2) /\ BipKey(p2)
               /\ \A r \in Rows : r \in ListBans(b2, p2)
                     <=> (IF r.ip = r0.ip THEN r = r0 ELSE r \in ListBans(b, p))
<1> DEFINE x0 == [jail |-> r0.jail, ip |-> r0.ip, timeofban |-> r0.timeofban]
           b2 == InsertBan(b, r0)
           p2 == InsertBip(p, x0)
<1>1. x0.jail = r0.jail /\ x0.ip = r0.ip /\ x0.timeofban = r0.timeofban
  OBVIOUS
<1>2. b2 = {r \in b : ~SameBan(r, r0)} \cup {r0} /\ p2 = {x \in p : ~SameHost(x, x0)} \cup {x0}
  BY DEF InsertBan, InsertBip
<1> HIDE DEF b2, p2, x0
<1>3. \A r \in Rows : r.jail = JailName
  BY DEF Rows
<1>4. \A x \in p : x.jail = JailName
  BY DEF BipRows, BipRow
<1>5. BanKey(b2)
  BY <1>2 DEF BanKey, SameBan, SameHost
<1>6. BipKey(p2)
  BY <1>2 DEF BipKey, SameHost
<1>7. ASSUME NEW r \in Rows, r.ip = r0.ip
      PROVE  r \in ListBans(b2, p2) <=> r = r0
  BY <1>1, <1>2, <1>3, <1>4, <1>7 DEF ListBans, SameBan, SameHost
<1>8. ASSUME NEW r \in Rows, r.ip # r0.ip
      PROVE  r \in ListBans(b2, p2) <=> r \in ListBans(b, p)
  BY <1>1, <1>2, <1>3, <1>4, <1>8 DEF ListBans, SameBan, SameHost
<1> QED BY <1>5, <1>6, <1>7, <1>8 DEF b2, p2, x0

-----------------------------------------------------------------------------
(* How the calls and the task follow one another.                          *)
Orderly ==
    /\ lock \in {"free", "restore", "stop"} /\ pc \notin {"manual", "flushing"}
    /\ \A i \in DOMAIN queue : queue[i].cmd \in {"unbanip", "restore", "stop"}
    /\ pc = "down" => queue = <<>> /\ lock # "stop" /\ banMgr = NoBans
    /\ boot \in {"snapshot", "lock"} => ~Restores(queue)
    /\ boot \in {"none", "snapshot"} => rows = {}
    /\ pc = "banning" => boot = "none" /\ ~Restores(queue)

LEMMA InitOrderly == Init => Orderly
<1>1. DOMAIN <<>> = {}
  OBVIOUS
<1> QED BY <1>1 DEF Init, Orderly, Restores

LEMMA NextOrderly ==
    ASSUME ByTheBook, TypeInv, Orderly, [Next]_vars
    PROVE  Orderly'
<1> USE DEF TypeInv, ByTheBook
<1>0. queue \in Seq(Cmd)
  BY DEF TypeOK
<1>e. DOMAIN <<>> = {} /\ ~Restores(<<>>)
  BY DEF Restores
<1>q. ASSUME queue # <<>>, queue' = Tail(queue)
      PROVE  /\ \A i \in DOMAIN queue' : queue'[i].cmd \in {"unbanip", "restore", "stop"}
             /\ Restores(queue') => Restores(queue)
             /\ Head(queue).cmd \in {"unbanip", "restore", "stop"}
  BY <1>0, <1>q, AfterHead DEF Orderly, Restores
<1>s. ASSUME NEW c \in Cmd, c.cmd \in {"unbanip", "restore", "stop"}, Send(c)
      PROVE  /\ \A i \in DOMAIN queue' : queue'[i].cmd \in {"unbanip", "restore", "stop"}
             /\ Restores(queue') => Restores(queue) \/ c.cmd = "restore"
  <2>1. /\ DOMAIN queue' = DOMAIN queue \cup {Len(queue) + 1} /\ queue'[Len(queue) + 1] = c
        /\ \A i \in DOMAIN queue : queue'[i] = queue[i]
    BY <1>0, <1>s DEF Send
  <2> QED BY <1>s, <2>1 DEF Orderly, Restores
<1>a. ASSUME UNCHANGED <<queue, boot, rows, banMgr>>, lock' \in {"free", "restore", "stop"},
             pc = "down" <=> pc' = "down",
             pc' \notin {"manual", "flushing"}, pc' = "banning" => pc = "banning",
             pc' = "down" => lock' # "stop"
      PROVE  Orderly'
  BY <1>a DEF Orderly, Restores
<1>1. CASE \/ RunCommand \/ FinishUnban \/ ExpireNext \/ ExpireRow \/ FinishPurge \/ Tick
           \/ UNCHANGED vars
  <2>1. /\ UNCHANGED <<queue, boot, rows, banMgr, lock>> /\ pc' \notin {"manual", "flushing"}
        /\ pc' = "banning" => pc = "banning"
        /\ (pc' = "down" <=> pc = "down")
    BY <1>1 DEF RunCommand, FinishUnban, ExpireNext, ExpireRow, FinishPurge, Tick, vars, task,
                server, Orderly
  <2> QED BY <2>1, <1>a DEF Orderly
<1>2. CASE FinishBan
  BY <1>2 DEF FinishBan, server, Orderly, Restores
<1>3. CASE PurgeExpiredBans
  BY <1>3 DEF PurgeExpiredBans, TakeExpired, server, Orderly, Restores
<1>4. CASE FinishStop
  <2>1. lock' = "free" /\ pc' = "down" /\ queue' = <<>> /\ banMgr' = NoBans
        /\ UNCHANGED <<boot, rows>>
    BY <1>4 DEF FinishStop
  <2>2. ~Restores(queue') /\ DOMAIN queue' = {}
    BY <2>1, <1>e
  <2> QED BY <2>1, <2>2 DEF Orderly, Restores
<1>5. CASE Crash
  <2>1. lock' = "free" /\ pc' = "down" /\ queue' = <<>> /\ banMgr' = NoBans
        /\ boot' = "none" /\ rows' = {}
    BY <1>5 DEF Crash
  <2>2. ~Restores(queue') /\ DOMAIN queue' = {}
    BY <2>1, <1>e
  <2> QED BY <2>1, <2>2 DEF Orderly, Restores
<1>6. CASE ManualUnban \/ RestoreBan \/ Stop
  <2>1. /\ pc = "idle" /\ queue # <<>> /\ queue' = Tail(queue) /\ UNCHANGED <<boot, rows, lock>>
        /\ pc' \in {"idle", "unbanning", "expiring"}
    BY <1>6 DEF ManualUnban, RestoreBan, Stop, Receive, TakeExpired, server
  <2> QED BY <2>1, <1>q DEF Orderly, Restores
<1>7. CASE ManualBan \/ FlushAllBans \/ FinishManualBan
  <2>1. ~FinishManualBan
    BY DEF FinishManualBan, Orderly
  <2>2. queue # <<>> /\ Head(queue).cmd \in {"banip", "flush"}
    BY <1>7, <2>1 DEF ManualBan, FlushAllBans, Receive
  <2> QED BY <1>0, <2>2, AfterHead DEF Orderly
<1>8. ASSUME NEW all \in BOOLEAN, Start(all) PROVE Orderly'
  <2>1. /\ pc = "down" /\ pc' = "idle" /\ UNCHANGED <<queue, rows, lock>>
        /\ (boot' = "snapshot" /\ boot = "none") \/ boot' = boot
    BY <1>8 DEF Start
  <2>2. queue = <<>>
    BY <2>1 DEF Orderly
  <2>3. ~Restores(queue)
    BY <2>2, <1>e
  <2> QED BY <2>1, <2>3 DEF Orderly, Restores
<1>9. CASE Snapshot \/ LockRestore \/ FinishRestore
  <2>1. UNCHANGED <<pc, queue, banMgr>>
    BY <1>9 DEF Snapshot, LockRestore, FinishRestore, task
  <2> QED BY <1>9, <2>1 DEF Snapshot, LockRestore, FinishRestore, Orderly, Restores
<1>10. CASE SendRestore
  <2>1. PICK r \in rows : rows' = rows \ {r} /\ Send([cmd |-> "restore", row |-> r])
    BY <1>10 DEF SendRestore
  <2>2. /\ UNCHANGED <<pc, banMgr, lock, boot>> /\ boot = "send" /\ pc # "down"
    BY <1>10 DEF SendRestore, task, Running
  <2>3. [cmd |-> "restore", row |-> r] \in Cmd
    BY DEF TypeOK, Cmd
  <2> QED BY <2>1, <2>2, <2>3, <1>s DEF Orderly, Restores
<1>11. ASSUME NEW op \in {"banip", "unbanip"}, NEW h \in Host, SetCommand(op, h)
       PROVE  Orderly'
  <2>1. op = "unbanip" /\ [cmd |-> op, host |-> h] \in Cmd
    BY <1>11 DEF SetCommand, Cmd
  <2>2. Send([cmd |-> op, host |-> h]) /\ UNCHANGED <<pc, banMgr, lock, boot, rows>>
        /\ pc # "down"
    BY <1>11 DEF SetCommand, task, server, Running
  <2> QED BY <2>1, <2>2, <1>s DEF Orderly, Restores
<1>12. CASE SendLocked
  <2>1. lock = "stop" /\ Send([cmd |-> "stop"]) /\ [cmd |-> "stop"] \in Cmd
    BY <1>12 DEF SendLocked, Orderly, Cmd
  <2>2. UNCHANGED <<pc, banMgr, lock, boot, rows>> /\ pc # "down"
    BY <1>12, <2>1 DEF SendLocked, task, Orderly
  <2> QED BY <2>1, <2>2, <1>s DEF Orderly, Restores
<1>13. ~UnbanRows /\ ~UnbanAll /\ ~StartAllAgain /\ \A h \in Host : ~Unban(h)
  BY DEF UnbanRows, UnbanAll, StartAllAgain, Unban, Lock, Orderly
<1>14. CASE StopJail
  BY <1>14, <1>a DEF StopJail, Lock, Running, task, Orderly
<1>15. ASSUME NEW h \in Host, IssueBan(h) PROVE Orderly'
  <2>1. /\ boot = "none" /\ ~Restores(queue) /\ pc = "idle" /\ pc' = "banning"
        /\ UNCHANGED <<queue, boot, rows, lock, banMgr>>
    BY <1>15 DEF IssueBan, Restoring, Restores, server
  <2> QED BY <2>1 DEF Orderly, Restores
<1> QED
  BY <1>1, <1>2, <1>3, <1>4, <1>5, <1>6, <1>7, <1>8, <1>9, <1>10, <1>11, <1>12, <1>13,
     <1>14, <1>15
  DEF Next, TaskStep, ServerStep, Request

-----------------------------------------------------------------------------
(* The current bans of the database are the tickets in memory, but for the *)
(* bans that a restore has still to bring and for the host under way.      *)
RestoredOnStart == "start" \notin Ops

Current == ListBans(bans, bips)
Pending(r) == (boot = "snapshot" /\ r \in Current) \/ r \in rows \/ Waits(queue, r)
UnderWay(h) == \/ h \in work
               \/ pc = "expiring" /\ cur = h
               \/ pc = "banning" /\ cur.ip = h

Keys == BanKey(bans) /\ BipKey(bips)
PendingOnce == EachOnce(queue) /\ \A r \in rows : ~Waits(queue, r)
Listed ==
    \A h \in Host : ~UnderWay(h) =>
        \A r \in Rows : r.ip = h => (r \in Current <=> banMgr[h] = r \/ Pending(r))
PendingAlone == \A r \in Rows : Pending(r) => banMgr[r.ip] = None /\ ~UnderWay(r.ip)
Tickets ==
    /\ \A h \in Host : banMgr[h] # None => banMgr[h].ip = h
    /\ \A h \in Host : h \in work \/ (pc = "expiring" /\ cur = h) => banMgr[h] = None
    /\ pc = "banning" => cur \in Current
Agreement == Keys /\ (pc # "down" => PendingOnce /\ Listed /\ PendingAlone /\ Tickets)

LEMMA InitAgreement == Init => Agreement
BY DEF Init, Agreement, Keys, BanKey, BipKey

(* A step that changes neither the tables, the tickets, what is pending    *)
(* nor the hosts under way.                                                *)
LEMMA KeepsAgreement ==
    ASSUME Agreement, UNCHANGED <<bans, bips, banMgr>>, pc' # "down" => pc # "down",
           PendingOnce => PendingOnce',
           \A r \in Rows : Pending(r)' <=> Pending(r),
           \A h \in Host : UnderWay(h)' <=> UnderWay(h),
           \A h \in Host : (h \in work' \/ (pc' = "expiring" /\ cur' = h))
                           => (h \in work \/ (pc = "expiring" /\ cur = h)),
           pc' = "banning" => pc = "banning" /\ cur' = cur
    PROVE  Agreement'
<1>1. Current' = Current /\ Keys'
  BY DEF Current, Keys, Agreement
<1>2. Listed => Listed'
  BY <1>1 DEF Listed
<1>3. PendingAlone => PendingAlone'
  BY DEF PendingAlone, Rows
<1>4. pc' # "down" => (Tickets => Tickets')
  BY <1>1 DEF Tickets
<1> QED BY <1>1, <1>2, <1>3, <1>4 DEF Agreement

(* A ban of h is removed from the tables and from memory; nothing about h  *)
(* is pending afterwards.                                                  *)
LEMMA RemovesHost ==
    ASSUME TypeInv, Agreement, pc # "down", pc' # "banning", NEW h \in Host,
           bans' = DeleteMostRecent(bans, JailName, h),
           bips' = DeleteBip(bips, JailName, h),
           \A g \in Host : banMgr'[g] = IF g = h THEN None ELSE banMgr[g],
           PendingOnce',
           \A r \in Rows : Pending(r)' <=> Pending(r) /\ r.ip # h,
           \A g \in Host : UnderWay(g)' => UnderWay(g),
           \A g \in Host : g # h => (UnderWay(g)' <=> UnderWay(g)),
           \A g \in Host : (g \in work' \/ (pc' = "expiring" /\ cur' = g))
                           => (g \in work \/ (pc = "expiring" /\ cur = g))
    PROVE  Agreement'
<1>0. /\ bans \in SUBSET Rows /\ bips \in SUBSET BipRows /\ BanKey(bans) /\ BipKey(bips)
      /\ banMgr \in [Host -> Rows \cup {None}] /\ None \notin Rows
  BY NoneIsNoRow DEF TypeInv, TypeOK, BipRows, Agreement, Keys
<1> DEFINE b2 == DeleteMostRecent(bans, JailName, h)
           p2 == DeleteBip(bips, JailName, h)
<1>1. /\ BanKey(b2) /\ BipKey(p2)
      /\ \A r \in Rows : r \in ListBans(b2, p2) <=> r \in ListBans(bans, bips) /\ r.ip # h
  BY <1>0, Removed
<1>2. bans' = b2 /\ bips' = p2
  OBVIOUS
<1> HIDE DEF b2, p2
<1>3. Keys' /\ \A r \in Rows : r \in Current' <=> r \in Current /\ r.ip # h
  BY <1>1, <1>2 DEF Keys, Current
<1>4. \A g \in Host : banMgr'[g] = IF g = h THEN None ELSE banMgr[g]
  OBVIOUS
<1>5. Listed'
  <2> SUFFICES ASSUME NEW g \in Host, ~UnderWay(g)', NEW r \in Rows, r.ip = g
               PROVE  r \in Current' <=> banMgr'[g] = r \/ Pending(r)'
    BY DEF Listed
  <2>1. CASE g = h
    BY <2>1, <1>0, <1>3, <1>4
  <2>2. CASE g # h
    BY <2>2, <1>3, <1>4 DEF Agreement, Listed
  <2> QED BY <2>1, <2>2
<1>6. PendingAlone'
  <2> SUFFICES ASSUME NEW r \in Rows, Pending(r)'
               PROVE  banMgr'[r.ip] = None /\ ~UnderWay(r.ip)'
    BY DEF PendingAlone
  <2>1. r.ip \in Host /\ Pending(r)
    BY DEF Rows
  <2> QED BY <2>1, <1>4 DEF Agreement, PendingAlone
<1>7. Tickets'
  BY <1>4 DEF Tickets, Agreement
<1> QED BY <1>3, <1>5, <1>6, <1>7 DEF Agreement

LEMMA NextAgreement ==
    ASSUME ByTheBook, RestoredOnStart, TypeInv, Orderly, Agreement,
           [Next]_vars
    PROVE  Agreement'
<1> USE DEF ByTheBook, RestoredOnStart
<1>0. /\ queue \in Seq(Cmd) /\ None \notin Host /\ None \notin Rows
      /\ pc \in {"idle", "down"} => todo = {} /\ work = {} /\ cur = None
      /\ banMgr \in [Host -> Rows \cup {None}] /\ rows \subseteq Rows
      /\ bans \in SUBSET Rows /\ bips \in SUBSET BipRows
      /\ work \subseteq Host
  BY JailAssumption, NoneIsNoRow DEF TypeInv, TypeOK, BipRows
<1>p. Phases
  BY DEF TypeInv
<1>q. queue \in Seq(Cmd)
  BY <1>0
<1>n. ~Restores(queue) => \A r : ~Waits(queue, r)
  BY DEF Restores, Waits
<1>i. pc = "idle" => \A h \in Host : ~UnderWay(h)
  BY <1>0 DEF UnderWay
<1>f. ASSUME UNCHANGED <<bans, bips, banMgr, queue, rows, boot, work, cur, pc>>
      PROVE  Agreement'
  BY <1>f, KeepsAgreement DEF Pending, UnderWay, PendingOnce, Current
<1>1. CASE RunCommand \/ Tick \/ UNCHANGED vars
  BY <1>1, <1>f DEF RunCommand, Tick, vars, task, tables, server
<1>2. CASE FinishBan
  <2>1. /\ pc = "banning" /\ pc' = "idle" /\ cur' = None /\ work = {} /\ work' = {}
        /\ banMgr' = [banMgr EXCEPT ![cur.ip] = cur]
        /\ UNCHANGED <<bans, bips, queue, rows, boot>>
    BY <1>p, <1>2 DEF FinishBan, Phases, tables, server
  <2>2. cur \in Rows /\ cur.ip \in Host
    BY <1>p, <2>1 DEF Phases, Rows
  <2>3. \A r : ~Pending(r) /\ ~Pending(r)'
    BY <2>1, <1>n DEF Pending, Orderly
  <2>4. /\ Current' = Current /\ Keys' /\ PendingOnce' /\ cur \in Current
        /\ BanKey(bans) /\ BipKey(bips)
    BY <2>1 DEF Current, Keys, PendingOnce, Agreement, Tickets
  <2>5. \A h \in Host : banMgr'[h] = IF h = cur.ip THEN cur ELSE banMgr[h]
    BY <1>0, <2>1, <2>2
  <2>6. \A h \in Host : ~UnderWay(h)' /\ (UnderWay(h) <=> h = cur.ip)
    BY <2>1 DEF UnderWay
  <2>7. Listed'
    <3> SUFFICES ASSUME NEW h \in Host, NEW r \in Rows, r.ip = h
                 PROVE  r \in Current' <=> banMgr'[h] = r \/ Pending(r)'
      BY DEF Listed
    <3>1. CASE h = cur.ip
      BY <3>1, <1>0, <2>3, <2>4, <2>5, ListedOnce DEF Current
    <3>2. CASE h # cur.ip
      BY <3>2, <2>1, <2>3, <2>4, <2>5, <2>6 DEF Agreement, Listed
    <3> QED BY <3>1, <3>2
  <2>8. PendingAlone'
    BY <2>3 DEF PendingAlone
  <2>9. Tickets'
    BY <2>1, <2>5 DEF Tickets, Agreement
  <2> QED BY <2>4, <2>7, <2>8, <2>9 DEF Agreement
<1>3. CASE FinishUnban
  <2>1. /\ pc \in {"unbanning", "flushing"} /\ pc' = "idle"
        /\ UNCHANGED <<bans, bips, banMgr, queue, rows, boot, work, cur>>
    BY <1>3 DEF FinishUnban, tables, server
  <2> QED BY <2>1, KeepsAgreement DEF Pending, UnderWay, PendingOnce, Current
<1>4. CASE ExpireNext
  <2>1. PICK h \in work : cur' = h /\ work' = work \ {h}
    BY <1>4 DEF ExpireNext
  <2>2. /\ pc = "expiring" /\ pc' = pc /\ cur = None
        /\ UNCHANGED <<bans, bips, banMgr, queue, rows, boot>>
    BY <1>4 DEF ExpireNext, tables, server
  <2>3. \A g \in Host : UnderWay(g)' <=> UnderWay(g)
    BY <1>0, <2>1, <2>2 DEF UnderWay
  <2> QED BY <1>0, <2>1, <2>2, <2>3, KeepsAgreement DEF Pending, PendingOnce, Current
<1>5. CASE ExpireRow
  <2>1. /\ pc = "expiring" /\ pc' = pc /\ cur # None /\ cur' = None /\ cur \in Host
        /\ bans' = DeleteMostRecent(bans, JailName, cur)
        /\ bips' = DeleteBip(bips, JailName, cur)
        /\ UNCHANGED <<banMgr, queue, rows, boot, work>>
    BY <1>p, <1>5 DEF ExpireRow, server, Phases
  <2>2. /\ \A g \in Host : UnderWay(g)' => UnderWay(g)
        /\ \A g \in Host : g # cur => (UnderWay(g)' <=> UnderWay(g))
        /\ UnderWay(cur)
    BY <1>0, <2>1 DEF UnderWay
  <2>3. \A g \in Host : banMgr'[g] = IF g = cur THEN None ELSE banMgr[g]
    BY <1>0, <2>1 DEF Agreement, Tickets
  <2>4. Current' = ListBans(bans', bips')
    BY DEF Current
  <2>5. \A r \in Rows : r \in Current' <=> r \in Current /\ r.ip # cur
    BY <1>0, <2>1, <2>4, Removed DEF Agreement, Keys, Current
  <2>6. \A r \in Rows : Pending(r)' <=> Pending(r) /\ r.ip # cur
    <3> SUFFICES ASSUME NEW r \in Rows
                 PROVE  Pending(r)' <=> Pending(r) /\ r.ip # cur
      OBVIOUS
    <3>1. Pending(r) => r.ip # cur
      BY <2>1, <2>2 DEF Agreement, PendingAlone
    <3> QED BY <2>1, <2>5, <3>1 DEF Pending
  <2>7. PendingOnce'
    BY <2>1 DEF PendingOnce, Agreement
  <2> QED BY <1>0, <2>1, <2>2, <2>3, <2>6, <2>7, RemovesHost
<1>6. CASE FinishPurge
  <2>1. /\ pc = "expiring" /\ pc' \in {"stopping", "idle"} /\ cur = None /\ work = {}
        /\ UNCHANGED <<bans, bips, banMgr, queue, rows, boot, work, cur>>
    BY <1>6 DEF FinishPurge, tables, server
  <2> QED BY <1>0, <2>1, KeepsAgreement DEF Pending, UnderWay, PendingOnce, Current
<1>7. CASE FinishStop \/ Crash
  <2>1. pc' = "down" /\ UNCHANGED <<bans, bips>>
    BY <1>7 DEF FinishStop, Crash, tables
  <2> QED BY <2>1 DEF Agreement, Keys
<1>t. ASSUME pc = "idle", TakeExpired, UNCHANGED <<bans, bips, cur, boot, rows>>, PendingOnce',
             \A r : Waits(queue', r) <=> Waits(queue, r)
      PROVE  Agreement'
  <2>1. /\ pc' = "expiring" /\ work' = ExpiredHosts /\ cur = None /\ cur' = None
        /\ \A h \in Host : banMgr'[h] = IF h \in ExpiredHosts THEN None ELSE banMgr[h]
        /\ \A h \in Host : h \in ExpiredHosts => banMgr[h] # None
    BY <1>0, <1>t DEF TakeExpired, ExpiredHosts, banned
  <2>2. Current' = Current /\ Keys' /\ PendingOnce'
    BY <1>t DEF Current, Keys, Agreement
  <2>3. \A r \in Rows : Pending(r)' <=> Pending(r)
    BY <1>t, <2>2 DEF Pending
  <2>4. \A h \in Host : ~UnderWay(h) /\ (UnderWay(h)' <=> h \in ExpiredHosts)
    BY <1>0, <1>i, <1>t, <2>1 DEF UnderWay
  <2>5. Listed'
    BY <1>t, <2>1, <2>2, <2>3, <2>4 DEF Listed, Agreement
  <2>6. PendingAlone'
    <3> SUFFICES ASSUME NEW r \in Rows, Pending(r)'
                 PROVE  banMgr'[r.ip] = None /\ ~UnderWay(r.ip)'
      BY DEF PendingAlone
    <3>1. r.ip \in Host /\ banMgr[r.ip] = None
      BY <1>t, <2>3 DEF Rows, Agreement, PendingAlone
    <3> QED BY <2>1, <2>4, <3>1
  <2>7. Tickets'
    BY <1>0, <1>t, <2>1 DEF Tickets, Agreement
  <2> QED BY <2>2, <2>5, <2>6, <2>7 DEF Agreement
<1>8. CASE PurgeExpiredBans
  <2>1. pc = "idle" /\ TakeExpired /\ UNCHANGED <<bans, bips, cur, boot, rows, queue>>
    BY <1>8 DEF PurgeExpiredBans, tables, server
  <2>2. PendingOnce'
    BY <2>1 DEF PendingOnce, Agreement
  <2> QED BY <1>t, <2>1, <2>2
<1>h. ASSUME queue # <<>>, queue' = Tail(queue), PendingOnce, UNCHANGED rows
      PROVE  /\ PendingOnce' /\ Head(queue) \in Cmd /\ (Restores(queue') => Restores(queue))
             /\ Head(queue).cmd # "restore" => \A r : Waits(queue', r) <=> Waits(queue, r)
             /\ Head(queue).cmd = "restore" =>
                   /\ Waits(queue, Head(queue).row)
                   /\ \A r : Waits(queue', r) <=> Waits(queue, r) /\ r # Head(queue).row
  <2>1. EachOnce(queue)
    BY <1>h DEF PendingOnce
  <2>2. Head(queue) \in Cmd
    BY <1>q, <1>h, AfterHead
  <2> QED BY <1>q, <1>h, <2>1, <2>2, HeadTaken DEF PendingOnce
<1>9. CASE Stop
  <2>1. /\ pc = "idle" /\ TakeExpired /\ UNCHANGED <<bans, bips, cur, boot, rows>>
        /\ queue # <<>> /\ queue' = Tail(queue) /\ Head(queue).cmd = "stop"
    BY <1>9 DEF Stop, Receive, tables, server
  <2>2. PendingOnce' /\ \A r : Waits(queue', r) <=> Waits(queue, r)
    BY <2>1, <1>h DEF Agreement
  <2> QED BY <1>t, <2>1, <2>2
<1>10. CASE ManualUnban
  <2> DEFINE h == Head(queue).host
  <2>1. /\ pc = "idle" /\ queue # <<>> /\ queue' = Tail(queue)
        /\ Head(queue).cmd = "unbanip" /\ UNCHANGED <<boot, rows, cur, work>>
    BY <1>10 DEF ManualUnban, Receive, server
  <2>2. PendingOnce' /\ \A r : Waits(queue', r) <=> Waits(queue, r)
    BY <2>1, <1>h DEF Agreement
  <2>3. h \in Host
    BY <2>1, <1>h, HostOfCmd DEF Agreement
  <2>4. CASE h \notin banned
    <3>1. UNCHANGED <<bans, bips, banMgr, pc>>
      BY <1>10, <2>4 DEF ManualUnban, tables
    <3> QED BY <2>1, <2>2, <3>1, KeepsAgreement DEF Pending, UnderWay, Current
  <2>5. CASE h \in banned
    <3>1. /\ banMgr' = [banMgr EXCEPT ![h] = None] /\ pc' = "unbanning"
          /\ bans' = DeleteMostRecent(bans, JailName, h)
          /\ bips' = DeleteBip(bips, JailName, h)
      BY <1>10, <2>5 DEF ManualUnban
    <3>2. banMgr[h] # None
      BY <2>5 DEF banned
    <3> HIDE DEF h
    <3>3. \A g \in Host : ~UnderWay(g) /\ ~UnderWay(g)'
      BY <1>0, <1>i, <2>1, <3>1 DEF UnderWay
    <3>4. \A g \in Host : banMgr'[g] = IF g = h THEN None ELSE banMgr[g]
      BY <1>0, <2>3, <3>1
    <3>5. \A r \in Rows : r \in Current' <=> r \in Current /\ r.ip # h
      BY <1>0, <2>3, <3>1, Removed DEF Agreement, Keys, Current
    <3>6. \A r \in Rows : Pending(r)' <=> Pending(r) /\ r.ip # h
      <4> SUFFICES ASSUME NEW r \in Rows
                   PROVE  Pending(r)' <=> Pending(r) /\ r.ip # h
        OBVIOUS
      <4>1. Pending(r) => r.ip # h
        BY <2>1, <3>2 DEF Agreement, PendingAlone
      <4> QED BY <2>1, <2>2, <3>5, <4>1 DEF Pending
    <3>7. \A g \in Host : ~(g \in work' \/ (pc' = "expiring" /\ cur' = g))
      BY <1>0, <2>1, <3>1
    <3> QED BY <2>1, <2>2, <2>3, <3>1, <3>3, <3>4, <3>6, <3>7, RemovesHost
  <2> QED BY <2>4, <2>5
<1>11. CASE RestoreBan
  <2> DEFINE r0 == Head(queue).row
  <2>1. /\ pc = "idle" /\ queue # <<>> /\ queue' = Tail(queue)
        /\ Head(queue).cmd = "restore" /\ UNCHANGED <<boot, rows, cur, work, pc>>
    BY <1>11 DEF RestoreBan, Receive, server
  <2>2. /\ PendingOnce' /\ Waits(queue, r0)
        /\ \A r : Waits(queue', r) <=> Waits(queue, r) /\ r # r0
    BY <2>1, <1>h DEF Agreement
  <2>3. r0 \in Rows /\ r0.ip \in Host
    <3>1. r0 \in Rows
      BY <2>1, <1>h, RowOfCmd DEF Agreement
    <3> QED BY <3>1 DEF Rows
  <2>4. (Expired(r0) /\ UNCHANGED banMgr
            /\ bans' = DeleteMostRecent(bans, JailName, r0.ip)
            /\ bips' = DeleteBip(bips, JailName, r0.ip))
        \/ (banMgr' = [banMgr EXCEPT ![r0.ip] = r0] /\ UNCHANGED <<bans, bips>>)
    BY <1>11 DEF RestoreBan, Restored, tables
  <2> HIDE DEF r0
  <2>5. /\ Restores(queue) /\ boot \notin {"snapshot", "lock"} /\ r0 \notin rows
    BY <2>1, <2>2 DEF Orderly, Waits, Restores, Agreement, PendingOnce
  <2>6. \A r \in Rows : Pending(r)' <=> Pending(r) /\ r # r0
    BY <2>1, <2>2, <2>5 DEF Pending
  <2>7. /\ Pending(r0) /\ banMgr[r0.ip] = None /\ r0 \in Current
        /\ \A h \in Host : ~UnderWay(h) /\ ~UnderWay(h)'
    <3>1. Pending(r0)
      BY <2>2 DEF Pending
    <3>2. \A h \in Host : ~UnderWay(h) /\ ~UnderWay(h)'
      BY <1>0, <1>i, <2>1 DEF UnderWay
    <3> QED BY <2>1, <2>3, <3>1, <3>2 DEF Agreement, PendingAlone, Listed
  <2>8. \A r \in Rows : r.ip = r0.ip /\ r \in Current => r = r0
    BY <1>0, <2>7, ListedOnce DEF Agreement, Keys, Current
  <2>9. \A r \in Rows : Pending(r) /\ r.ip = r0.ip => r = r0
    BY <2>1, <2>3, <2>7, <2>8 DEF Agreement, Listed
  <2>10. CASE /\ UNCHANGED banMgr
              /\ bans' = DeleteMostRecent(bans, JailName, r0.ip)
              /\ bips' = DeleteBip(bips, JailName, r0.ip)
    <3>1. \A g \in Host : banMgr'[g] = IF g = r0.ip THEN None ELSE banMgr[g]
      BY <2>7, <2>10
    <3>2. \A r \in Rows : Pending(r)' <=> Pending(r) /\ r.ip # r0.ip
      BY <2>6, <2>9
    <3>3. \A g \in Host : ~(g \in work' \/ (pc' = "expiring" /\ cur' = g))
      BY <1>0, <2>1
    <3> QED BY <2>1, <2>2, <2>3, <2>7, <2>10, <3>1, <3>2, <3>3, RemovesHost
  <2>11. CASE banMgr' = [banMgr EXCEPT ![r0.ip] = r0] /\ UNCHANGED <<bans, bips>>
    <3>1. \A g \in Host : banMgr'[g] = IF g = r0.ip THEN r0 ELSE banMgr[g]
      BY <1>0, <2>3, <2>11
    <3>2. Current' = Current /\ Keys'
      BY <2>11 DEF Current, Keys, Agreement
    <3>3. Listed'
      <4> SUFFICES ASSUME NEW h \in Host, NEW r \in Rows, r.ip = h
                   PROVE  r \in Current' <=> banMgr'[h] = r \/ Pending(r)'
        BY DEF Listed
      <4>1. CASE h = r0.ip
        BY <4>1, <2>6, <2>7, <2>8, <2>9, <3>1, <3>2
      <4>2. CASE h # r0.ip
        BY <4>2, <2>1, <2>6, <2>7, <3>1, <3>2 DEF Agreement, Listed
      <4> QED BY <4>1, <4>2
    <3>4. PendingAlone'
      <4> SUFFICES ASSUME NEW r \in Rows, Pending(r)'
                   PROVE  banMgr'[r.ip] = None /\ ~UnderWay(r.ip)'
        BY DEF PendingAlone
      <4>1. r.ip \in Host /\ Pending(r) /\ r.ip # r0.ip
        BY <2>6, <2>9 DEF Rows
      <4> QED BY <2>1, <2>7, <3>1, <4>1 DEF Agreement, PendingAlone
    <3>5. Tickets'
      BY <1>0, <2>1, <3>1 DEF Tickets, Agreement
    <3> QED BY <2>2, <3>2, <3>3, <3>4, <3>5 DEF Agreement
  <2> QED BY <2>4, <2>10, <2>11
<1>12. CASE ManualBan \/ FlushAllBans \/ FinishManualBan
  <2>1. ~FinishManualBan
    BY DEF FinishManualBan, Orderly
  <2>2. queue # <<>> /\ Head(queue).cmd \in {"banip", "flush"}
    BY <1>12, <2>1 DEF ManualBan, FlushAllBans, Receive
  <2> QED BY <1>q, <2>2, AfterHead DEF Orderly
<1>13. ASSUME NEW all \in BOOLEAN, Start(all) PROVE Agreement'
  <2>1. /\ pc = "down" /\ pc' = "idle" /\ boot = "none" /\ boot' = "snapshot" /\ queue = <<>>
        /\ UNCHANGED <<bans, bips, banMgr, queue, rows, cur, work>>
    BY <1>13 DEF Start, tables, Orderly
  <2>2. rows = {} /\ banMgr = NoBans /\ work = {} /\ cur = None
    BY <1>0, <2>1 DEF Orderly
  <2>3. DOMAIN queue = {}
    BY <2>1
  <2>4. PendingOnce' /\ Keys' /\ Current' = Current /\ \A r : ~Waits(queue, r)
    BY <2>1, <2>2, <2>3 DEF PendingOnce, EachOnce, Keys, Current, Agreement, Waits
  <2>5. \A r \in Rows : Pending(r)' <=> r \in Current
    BY <2>1, <2>2, <2>4 DEF Pending
  <2>6. \A h \in Host : ~UnderWay(h)' /\ banMgr'[h] = None
    BY <2>1, <2>2 DEF UnderWay, NoBans
  <2>7. Listed'
    BY <1>0, <2>4, <2>5, <2>6 DEF Listed
  <2>8. PendingAlone' /\ Tickets'
    BY <2>1, <2>6 DEF PendingAlone, Tickets, Rows
  <2> QED BY <2>4, <2>7, <2>8 DEF Agreement
<1>14. CASE Snapshot
  <2>1. /\ boot = "snapshot" /\ boot' = "lock" /\ rows' = Current
        /\ UNCHANGED <<bans, bips, banMgr, queue, work, cur, pc>>
    BY <1>14 DEF Snapshot, task, tables, Current
  <2>2. rows = {} /\ ~Restores(queue)
    BY <2>1 DEF Orderly
  <2>3. \A r : (Pending(r)' <=> Pending(r)) /\ ~Waits(queue, r)
    BY <2>1, <2>2, <1>n DEF Pending
  <2>4. PendingOnce => PendingOnce'
    BY <2>1, <2>3 DEF PendingOnce
  <2> QED BY <2>1, <2>3, <2>4, KeepsAgreement DEF UnderWay
<1>15. CASE LockRestore
  <2>1. /\ boot = "lock" /\ boot' = "send"
        /\ UNCHANGED <<bans, bips, banMgr, queue, rows, work, cur, pc>>
    BY <1>15 DEF LockRestore, task, tables
  <2> QED BY <2>1, KeepsAgreement DEF Pending, UnderWay, PendingOnce
<1>16. CASE FinishRestore
  <2>1. /\ boot = "send" /\ boot' = "none" /\ rows' = {} /\ (rows = {} \/ pc = "down")
        /\ UNCHANGED <<bans, bips, banMgr, queue, work, cur, pc>>
    BY <1>16 DEF FinishRestore, task, tables, Running
  <2>2. CASE pc = "down"
    BY <2>1, <2>2 DEF Agreement, Keys
  <2>3. CASE rows = {}
    BY <2>1, <2>3, KeepsAgreement DEF Pending, UnderWay, PendingOnce
  <2> QED BY <2>1, <2>2, <2>3
<1>17. CASE SendRestore
  <2>1. PICK r \in rows : rows' = rows \ {r} /\ Send([cmd |-> "restore", row |-> r])
    BY <1>17 DEF SendRestore
  <2> DEFINE c == [cmd |-> "restore", row |-> r]
  <2>2. /\ boot = "send" /\ pc # "down"
        /\ UNCHANGED <<bans, bips, banMgr, boot, work, cur, pc>>
    BY <1>17 DEF SendRestore, task, tables, Running
  <2>3. c \in Cmd /\ c.cmd = "restore" /\ c.row = r /\ queue' = Append(queue, c)
    BY <1>0, <2>1 DEF Cmd, Send
  <2> HIDE DEF c
  <2>4. EachOnce(queue) /\ ~Waits(queue, r) /\ \A s \in rows : ~Waits(queue, s)
    BY <2>1, <2>2 DEF Agreement, PendingOnce
  <2>5. EachOnce(queue') /\ \A s : Waits(queue', s) <=> Waits(queue, s) \/ s = r
    BY <1>q, <2>3, <2>4, CommandAdded
  <2>6. PendingOnce'
    BY <2>1, <2>4, <2>5 DEF PendingOnce
  <2>7. \A s \in Rows : Pending(s)' <=> Pending(s)
    BY <2>1, <2>2, <2>5 DEF Pending
  <2> QED BY <2>2, <2>6, <2>7, KeepsAgreement DEF UnderWay
<1>s. ASSUME NEW c \in Cmd, c.cmd # "restore", Send(c), pc # "down",
             UNCHANGED <<bans, bips, banMgr, rows, boot, work, cur, pc>>
      PROVE  Agreement'
  <2>1. EachOnce(queue) /\ queue' = Append(queue, c)
    BY <1>s DEF Agreement, PendingOnce, Send
  <2>2. EachOnce(queue') /\ \A r : Waits(queue', r) <=> Waits(queue, r)
    BY <1>q, <1>s, <2>1, CommandAdded
  <2>3. PendingOnce => PendingOnce'
    BY <1>s, <2>2 DEF PendingOnce
  <2>4. \A r \in Rows : Pending(r)' <=> Pending(r)
    BY <1>s, <2>2 DEF Pending, Current
  <2> QED BY <1>s, <2>3, <2>4, KeepsAgreement DEF UnderWay
<1>18. ASSUME NEW op \in {"banip", "unbanip"}, NEW h \in Host, SetCommand(op, h)
       PROVE  Agreement'
  <2>1. [cmd |-> op, host |-> h] \in Cmd
    BY DEF Cmd
  <2> QED BY <1>18, <2>1, <1>s DEF SetCommand, task, tables, server, Running
<1>19. CASE SendLocked
  <2>1. lock = "stop" /\ Send([cmd |-> "stop"]) /\ [cmd |-> "stop"] \in Cmd
    BY <1>19 DEF SendLocked, Orderly, Cmd
  <2>2. UNCHANGED <<pc, bans, bips, banMgr, boot, rows, work, cur>> /\ pc # "down"
    BY <1>19, <2>1 DEF SendLocked, task, tables, Orderly
  <2> QED BY <2>1, <2>2, <1>s
<1>20. ~UnbanRows /\ ~UnbanAll /\ ~StartAllAgain /\ \A h \in Host : ~Unban(h)
  BY DEF UnbanRows, UnbanAll, StartAllAgain, Unban, Lock, Orderly
<1>21. CASE StopJail
  BY <1>21, <1>f DEF StopJail, Lock, task, tables
<1>22. ASSUME NEW h \in Host, IssueBan(h) PROVE Agreement'
  <2> DEFINE r0 == Row(h, now, BanTimeOf(h))
             x0 == [jail |-> r0.jail, ip |-> r0.ip, timeofban |-> r0.timeofban]
  <2>1. /\ boot = "none" /\ ~Restores(queue) /\ pc = "idle" /\ pc' = "banning"
        /\ cur' = r0 /\ bans' = InsertBan(bans, r0) /\ bips' = InsertBip(bips, x0)
        /\ UNCHANGED <<work, banMgr, queue, boot, rows>>
    BY <1>22 DEF IssueBan, Restoring, Restores, server
  <2>2. r0 \in Rows /\ r0.ip = h
    BY RowType DEF Row
  <2> HIDE DEF r0
  <2>3. /\ Keys' /\ r0 \in Current'
        /\ \A r \in Rows : r.ip # h => (r \in Current' <=> r \in Current)
    <3> DEFINE b2 == InsertBan(bans, r0)
               p2 == InsertBip(bips, x0)
    <3>1. /\ BanKey(b2) /\ BipKey(p2)
          /\ \A r \in Rows : r \in ListBans(b2, p2)
                <=> (IF r.ip = r0.ip THEN r = r0 ELSE r \in ListBans(bans, bips))
      BY <1>0, <2>2, Added DEF Agreement, Keys
    <3>2. bans' = b2 /\ bips' = p2
      BY <2>1
    <3> HIDE DEF b2, p2
    <3> QED BY <2>2, <3>1, <3>2 DEF Keys, Current
  <2>4. \A r : ~Pending(r) /\ ~Pending(r)'
    BY <2>1, <1>n DEF Pending, Orderly
  <2>5. PendingOnce'
    BY <2>1 DEF PendingOnce, Agreement
  <2>6. \A g \in Host : ~UnderWay(g) /\ (UnderWay(g)' <=> g = h)
    BY <1>0, <1>i, <2>1, <2>2 DEF UnderWay
  <2>7. Listed'
    BY <2>1, <2>3, <2>4, <2>6 DEF Listed, Agreement
  <2>8. PendingAlone'
    BY <2>4 DEF PendingAlone
  <2>9. Tickets'
    BY <1>0, <2>1, <2>3 DEF Tickets, Agreement
  <2> QED BY <2>3, <2>5, <2>7, <2>8, <2>9 DEF Agreement
<1> QED
  BY <1>1, <1>2, <1>3, <1>4, <1>5, <1>6, <1>7, <1>8, <1>9, <1>10, <1>11, <1>12, <1>13,
     <1>14, <1>15, <1>16, <1>17, <1>18, <1>19, <1>20, <1>21, <1>22
  DEF Next, TaskStep, ServerStep, Request

(* What a restart would restore is what the jail has in memory, whenever   *)
(* nothing is under way: bans, expiries and unbans by hand, failing        *)
(* commands, crashes and restarts with their restore all keep it so.       *)
THEOREM DatabaseFollowsMemory ==
    ASSUME ByTheBook, RestoredOnStart
    PROVE  Spec => []IndexAgrees
<1> DEFINE Inv == TypeInv /\ Orderly /\ Agreement
<1>1. Init => Inv
  BY InitTypeInv, InitOrderly, InitAgreement
<1>2. Inv /\ [Next]_vars => Inv'
  BY NextTypeInv, NextOrderly, NextAgreement
<1>3. Inv => IndexAgrees
  <2> SUFFICES ASSUME Inv, Settled
               PROVE  ListBans(bans, bips) = {banMgr[h] : h \in banned}
    BY DEF IndexAgrees
  <2>1. /\ pc = "idle" /\ work = {} /\ boot = "none" /\ rows = {} /\ DOMAIN queue = {}
        /\ banMgr \in [Host -> Rows \cup {None}] /\ bans \subseteq Rows
    BY DEF Settled, TypeInv, TypeOK, Orderly
  <2>2. \A h \in Host : ~UnderWay(h)
    BY <2>1 DEF UnderWay
  <2>3. \A r : ~Pending(r)
    BY <2>1 DEF Pending, Waits
  <2>4. \A r \in Rows : r.ip \in Host /\ (r \in Current <=> banMgr[r.ip] = r)
    BY <2>1, <2>2, <2>3 DEF Agreement, Listed, Rows
  <2>5. \A h \in banned : banMgr[h] \in Rows /\ banMgr[h].ip = h /\ h \in Host
    BY <2>1 DEF Agreement, Tickets, banned
  <2>6. \A r \in Rows : banMgr[r.ip] = r => r.ip \in banned
    BY <2>4, NoneIsNoRow DEF banned
  <2>7. Current \subseteq Rows
    BY <2>1 DEF Current, ListBans
  <2>8. Current = {banMgr[h] : h \in banned}
    BY <2>4, <2>5, <2>6, <2>7
  <2> QED BY <2>8 DEF Current
<1> HIDE DEF Inv
<1> QED BY <1>1, <1>2, <1>3, PTL DEF Spec

-----------------------------------------------------------------------------
(* As long as no command failed and the process never died: a rule has a   *)
(* row, or the command that removes it is to come; and while the jail is   *)
(* down or its bans are being restored there is none.                      *)
OneRule == ~RuleBag /\ ~OnDemand

HasRecord ==
    \A a \in Action, h \in Host :
        rules[a][h] = 1 => Records(bips, h) \/ {<<a, h>>, <<a, None>>} \cap todo # {}
Recorded ==
    ~mishap =>
        /\ \A a \in Action, h \in Host : rules[a][h] \in {0, 1}
        /\ HasRecord
        /\ pc = "banning" => Records(bips, cur.ip)
        /\ pc = "expiring" /\ cur # None =>
              \A a \in Action : rules[a][cur] = 1 => <<a, cur>> \in todo
        /\ pc = "stopping" =>
              \A a \in Action, h \in Host : rules[a][h] = 1 => <<a, None>> \in todo
        /\ pc = "down" \/ boot # "none" \/ Restores(queue) =>
              \A a \in Action, h \in Host : rules[a][h] = 0
        /\ pc # "down" => \A a \in Action : started[a]

LEMMA InitRecorded == Init => Recorded
<1> SUFFICES ASSUME Init PROVE Recorded
  OBVIOUS
<1>1. \A a \in Action, h \in Host : rules[a][h] = 0
  BY DEF Init, NoRules
<1>2. pc = "down"
  BY DEF Init
<1> QED BY <1>1, <1>2 DEF Recorded, HasRecord

LEMMA NextRecorded ==
    ASSUME ByTheBook, OneRule, TypeInv, Orderly, Recorded, [Next]_vars
    PROVE  Recorded'
<1> USE DEF ByTheBook, OneRule
<1> SUFFICES ASSUME ~mishap' PROVE Recorded'
  BY DEF Recorded
<1>0. /\ None \notin Host /\ bips \in SUBSET BipRows /\ rules \in [Action -> [Host -> Nat]]
      /\ pc \in {"idle", "down"} => todo = {} /\ work = {} /\ cur = None
      /\ todo \subseteq Action \X (Host \cup {None})
      /\ banMgr \in [Host -> Rows \cup {None}] /\ started \in [Action -> BOOLEAN]
  BY JailAssumption DEF TypeInv, TypeOK, BipRows
<1>p. Phases
  BY DEF TypeInv
<1>q. queue \in Seq(Cmd)
  BY DEF TypeInv, TypeOK
<1>f. ASSUME UNCHANGED <<pc, cur, todo, started, bips, rules, mishap>>,
             boot' # "none" \/ Restores(queue')
             => pc = "down" \/ boot # "none" \/ Restores(queue)
      PROVE  Recorded'
  BY <1>f DEF Recorded, HasRecord
<1>1. CASE RunCommand
  <2>1. PICK c \in todo : /\ todo' = todo \ {c} /\ rules' = AfterCommand(c[1], c[2])
                         /\ mishap' = mishap
    BY <1>1 DEF RunCommand, Failed
  <2>2. PICK a \in Action, h \in Host \cup {None} : c = <<a, h>>
    BY <1>0, <2>1
  <2>3. UNCHANGED <<pc, cur, work, started, bips, queue, boot>> /\ ~mishap
    BY <1>1, <2>1 DEF RunCommand, task, tables, server, TypeInv, TypeOK
  <2>4. pc \notin {"idle", "down", "manual", "flushing"}
    BY <1>0, <2>1 DEF Orderly
  <2>5. \A b \in Action, g \in Host \cup {None} :
            <<b, g>> \in todo' <=> <<b, g>> \in todo /\ <<b, g>> # <<a, h>>
    BY <2>1, <2>2
  <2>6. CASE h = None
    <3>1. rules' = [rules EXCEPT ![a] = NoRules]
      BY <2>1, <2>2, <2>6 DEF AfterCommand
    <3>2. \A b \in Action, g \in Host :
              rules'[b][g] = IF b = a THEN 0 ELSE rules[b][g]
      BY <1>0, <3>1 DEF NoRules
    <3>3. \A b \in Action, g \in Host \cup {None} :
              b # a /\ <<b, g>> \in todo => <<b, g>> \in todo'
      BY <2>1, <2>2
    <3>4. HasRecord'
      <4> SUFFICES ASSUME NEW b \in Action, NEW g \in Host, rules'[b][g] = 1
                   PROVE  Records(bips', g) \/ <<b, g>> \in todo' \/ <<b, None>> \in todo'
        BY DEF HasRecord
      <4>1. b # a /\ rules[b][g] = 1
        BY <3>2
      <4>2. Records(bips, g) \/ <<b, g>> \in todo \/ <<b, None>> \in todo
        BY <2>3, <4>1 DEF Recorded, HasRecord
      <4> QED BY <2>3, <3>3, <4>1, <4>2
    <3>5. pc = "expiring" /\ cur # None => cur \in Host
      BY <1>p DEF Phases
    <3>6. \A b \in Action, g \in Host : rules'[b][g] \in {0, 1}
      BY <2>3, <3>2 DEF Recorded
    <3>7. pc = "stopping" =>
              \A b \in Action, g \in Host : rules'[b][g] = 1 => <<b, None>> \in todo'
      BY <2>3, <3>2, <3>3 DEF Recorded
    <3>8. pc = "expiring" /\ cur # None =>
              \A b \in Action : rules'[b][cur] = 1 => <<b, cur>> \in todo'
      BY <2>3, <3>2, <3>3, <3>5 DEF Recorded
    <3>9. pc = "down" \/ boot # "none" \/ Restores(queue) =>
              \A b \in Action, g \in Host : rules'[b][g] = 0
      BY <2>3, <3>2 DEF Recorded
    <3> QED BY <2>3, <3>4, <3>6, <3>7, <3>8, <3>9 DEF Recorded
  <2>7. CASE h # None /\ pc = "banning"
    <3>1. rules' = [rules EXCEPT ![a][h] = 1] /\ h = cur.ip /\ h \in Host
      BY <1>p, <2>1, <2>2, <2>7 DEF AfterCommand, AddRule, Phases, Each
    <3>2. \A b \in Action, g \in Host :
              rules'[b][g] = IF b = a /\ g = h THEN 1 ELSE rules[b][g]
      BY <1>0, <3>1
    <3>3. boot = "none" /\ ~Restores(queue) /\ Records(bips, h)
      BY <2>3, <2>7, <3>1 DEF Orderly, Recorded
    <3>4. \A b \in Action, g \in Host : <<b, g>> \in todo => g = h
      BY <1>p, <2>7, <3>1 DEF Phases, Each
    <3>5. \A b \in Action : <<b, None>> \notin todo
      BY <1>0, <1>p, <2>7, <3>1 DEF Phases, Each
    <3>6. HasRecord'
      BY <2>3, <2>5, <3>1, <3>2, <3>3, <3>4, <3>5 DEF Recorded, HasRecord
    <3> QED BY <2>3, <2>7, <3>1, <3>2, <3>3, <3>6 DEF Recorded
  <2>8. CASE h # None /\ pc # "banning"
    <3>1. rules' = [rules EXCEPT ![a][h] = DropRule(@)] /\ h \in Host
      BY <2>1, <2>2, <2>4, <2>8 DEF AfterCommand
    <3>2. \A b \in Action, g \in Host :
              rules'[b][g] = IF b = a /\ g = h THEN DropRule(rules[b][g]) ELSE rules[b][g]
      BY <1>0, <3>1
    <3>3. \A b \in Action, g \in Host :
              rules'[b][g] = IF b = a /\ g = h THEN 0 ELSE rules[b][g]
      BY <2>3, <3>2 DEF DropRule, Recorded
    <3>4. HasRecord'
      BY <1>0, <2>3, <2>5, <3>1, <3>3 DEF Recorded, HasRecord
    <3>5. pc = "expiring" /\ cur # None => cur \in Host
      BY <1>p DEF Phases
    <3> QED BY <1>0, <2>2, <2>3, <2>4, <2>5, <2>8, <3>1, <3>3, <3>4, <3>5 DEF Recorded
  <2> QED BY <2>6, <2>7, <2>8
<1>2. CASE FinishBan
  <2>1. /\ pc = "banning" /\ pc' = "idle" /\ todo = {}
        /\ UNCHANGED <<todo, started, bips, rules, mishap, boot, queue>>
    BY <1>2 DEF FinishBan, tables, server, past
  <2> QED BY <2>1 DEF Recorded, HasRecord
<1>3. CASE FinishUnban
  <2>1. /\ pc \in {"unbanning", "flushing"} /\ pc' = "idle" /\ todo = {}
        /\ UNCHANGED <<todo, started, bips, rules, mishap, boot, queue>>
    BY <1>3 DEF FinishUnban, tables, server, past
  <2> QED BY <2>1 DEF Recorded, HasRecord
<1>4. CASE ExpireNext
  <2>1. PICK h \in work : cur' = h /\ todo' = Each(h)
    BY <1>4 DEF ExpireNext
  <2>2. /\ pc = "expiring" /\ pc' = pc /\ cur = None
        /\ UNCHANGED <<started, bips, rules, mishap, boot, queue>>
    BY <1>4 DEF ExpireNext, tables, server, past
  <2>3. todo = {}
    BY <1>p, <2>2 DEF Phases
  <2> QED BY <2>1, <2>2, <2>3 DEF Recorded, HasRecord, Each
<1>5. CASE ExpireRow
  <2>1. /\ pc = "expiring" /\ pc' = pc /\ cur # None /\ cur' = None /\ cur \in Host
        /\ todo = {} /\ bips' = DeleteBip(bips, JailName, cur)
        /\ UNCHANGED <<todo, started, rules, mishap, boot, queue>>
    BY <1>p, <1>5 DEF ExpireRow, server, past, Phases
  <2>2. \A g \in Host : g # cur => (Records(bips', g) <=> Records(bips, g))
    BY <1>0, <2>1, RecordRemoved
  <2>3. \A a \in Action : rules[a][cur] # 1
    BY <2>1 DEF Recorded
  <2> QED BY <2>1, <2>2, <2>3 DEF Recorded, HasRecord
<1>6. CASE FinishPurge
  <2>1. /\ pc = "expiring" /\ cur = None /\ cur' = None
        /\ pc' = IF leaving THEN "stopping" ELSE "idle"
        /\ todo' = IF leaving THEN {a \in Action : started[a]} \X {None} ELSE {}
        /\ UNCHANGED <<started, bips, rules, mishap, boot, queue>>
    BY <1>6 DEF FinishPurge, StopTodo, tables, server, past
  <2>2. todo = {}
    BY <1>p, <2>1 DEF Phases
  <2>3. \A a \in Action : started[a]
    BY <2>1 DEF Recorded
  <2>4. CASE leaving
    <3>1. pc' = "stopping" /\ \A a \in Action : <<a, None>> \in todo'
      BY <2>1, <2>3, <2>4
    <3> QED BY <2>1, <2>2, <3>1 DEF Recorded, HasRecord
  <2>5. CASE ~leaving
    BY <2>1, <2>2, <2>5 DEF Recorded, HasRecord
  <2> QED BY <2>4, <2>5
<1>7. CASE FinishStop
  <2>1. pc = "stopping" /\ todo = {} /\ pc' = "down" /\ UNCHANGED <<todo, rules, mishap, bips>>
    BY <1>7 DEF FinishStop, tables, past
  <2>2. \A a \in Action, h \in Host : rules[a][h] = 0
    BY <2>1 DEF Recorded
  <2> QED BY <2>1, <2>2 DEF Recorded, HasRecord
<1>8. CASE PurgeExpiredBans
  <2>1. /\ pc = "idle" /\ pc' = "expiring" /\ UNCHANGED <<cur, todo, started, bips, rules>>
        /\ UNCHANGED <<mishap, boot, queue>>
    BY <1>8 DEF PurgeExpiredBans, TakeExpired, tables, server, past
  <2> QED BY <1>0, <2>1 DEF Recorded, HasRecord
<1>9. CASE Stop
  <2>1. /\ pc = "idle" /\ pc' = "expiring" /\ UNCHANGED <<cur, todo, started, bips, rules>>
        /\ UNCHANGED <<mishap, boot>> /\ queue # <<>> /\ queue' = Tail(queue)
    BY <1>9 DEF Stop, TakeExpired, Receive, tables, server, past
  <2>2. Restores(queue') => Restores(queue)
    BY <1>q, <2>1, AfterHead DEF Restores
  <2> QED BY <1>0, <2>1, <2>2 DEF Recorded, HasRecord
<1>10. CASE ManualUnban
  <2> DEFINE h == Head(queue).host
  <2>1. /\ pc = "idle" /\ queue # <<>> /\ queue' = Tail(queue)
        /\ Head(queue).cmd = "unbanip" /\ UNCHANGED <<boot, cur, started, rules, mishap>>
    BY <1>10 DEF ManualUnban, Receive, server, past
  <2>2. Restores(queue') => Restores(queue)
    BY <1>q, <2>1, AfterHead DEF Restores
  <2>3. h \in Host
    BY <1>q, <2>1, AfterHead, HostOfCmd
  <2>4. CASE h \notin banned
    <3>1. UNCHANGED <<bips, pc, todo>>
      BY <1>10, <2>4 DEF ManualUnban, tables
    <3> QED BY <2>1, <2>2, <3>1, <1>f
  <2>5. CASE h \in banned
    <3>1. pc' = "unbanning" /\ bips' = DeleteBip(bips, JailName, h) /\ todo' = Each(h)
      BY <1>10, <2>5 DEF ManualUnban
    <3> HIDE DEF h
    <3>2. \A g \in Host : g # h => (Records(bips', g) <=> Records(bips, g))
      BY <1>0, <3>1, RecordRemoved
    <3>3. \A a \in Action : <<a, h>> \in todo'
      BY <3>1 DEF Each
    <3>4. ~mishap => HasRecord'
      <4> SUFFICES ASSUME ~mishap, NEW a \in Action, NEW g \in Host, rules[a][g] = 1
                   PROVE  Records(bips', g) \/ {<<a, g>>, <<a, None>>} \cap todo' # {}
        BY <2>1 DEF HasRecord
      <4>1. CASE g = h
        BY <4>1, <3>3
      <4>2. CASE g # h
        <5>1. Records(bips, g) \/ {<<a, g>>, <<a, None>>} \cap todo # {}
          BY <1>0 DEF Recorded, HasRecord
        <5>2. todo = {}
          BY <1>0, <2>1
        <5> QED BY <5>1, <5>2, <4>2, <3>2
      <4> QED BY <4>1, <4>2
    <3> QED BY <1>0, <2>1, <2>2, <3>1, <3>4 DEF Recorded
  <2> QED BY <2>4, <2>5
<1>11. CASE RestoreBan
  <2>1. /\ pc = "idle" /\ queue # <<>> /\ queue' = Tail(queue)
        /\ Head(queue).cmd = "restore"
        /\ UNCHANGED <<boot, cur, started, rules, mishap, pc, todo>>
    BY <1>11 DEF RestoreBan, Receive, server, past
  <2>2. Restores(queue)
    BY <1>q, <2>1, AfterHead DEF Restores
  <2>3. \A a \in Action, h \in Host : rules[a][h] = 0
    BY <2>1, <2>2 DEF Recorded
  <2> QED BY <2>1, <2>3 DEF Recorded, HasRecord
<1>12. CASE ManualBan \/ FlushAllBans \/ FinishManualBan
  <2>1. ~FinishManualBan
    BY DEF FinishManualBan, Orderly
  <2>2. queue # <<>> /\ Head(queue).cmd \in {"banip", "flush"}
    BY <1>12, <2>1 DEF ManualBan, FlushAllBans, Receive
  <2> QED BY <1>q, <2>2, AfterHead DEF Orderly
<1>13. ASSUME NEW all \in BOOLEAN, Start(all) PROVE Recorded'
  <2>1. PICK ok \in SUBSET Action :
            /\ started' = [a \in Action |-> a \in ok /\ ~OnDemand]
            /\ mishap' = (mishap \/ ok # Action)
    BY <1>13 DEF Start
  <2>2. pc = "down" /\ pc' = "idle" /\ UNCHANGED <<rules, bips, todo>>
    BY <1>13 DEF Start, tables
  <2>3. ~mishap /\ ok = Action
    BY <2>1 DEF TypeInv, TypeOK
  <2>4. \A a \in Action : started'[a]
    BY <2>1, <2>3
  <2>5. \A a \in Action, h \in Host : rules[a][h] = 0
    BY <2>2, <2>3 DEF Recorded
  <2> QED BY <2>2, <2>4, <2>5 DEF Recorded, HasRecord
<1>14. CASE Snapshot \/ LockRestore \/ FinishRestore
  <2>1. /\ UNCHANGED <<pc, cur, todo, started, bips, rules, mishap, queue>>
        /\ boot # "none"
    BY <1>14 DEF Snapshot, LockRestore, FinishRestore, task, tables, past
  <2> QED BY <2>1, <1>f
<1>15. CASE SendRestore
  <2>1. UNCHANGED <<pc, cur, todo, started, bips, rules, mishap>> /\ boot = "send"
    BY <1>15 DEF SendRestore, task, tables, past
  <2> QED BY <2>1, <1>f
<1>s. ASSUME NEW c \in Cmd, c.cmd # "restore", Send(c),
             UNCHANGED <<pc, cur, todo, started, bips, rules, mishap, boot>>
      PROVE  Recorded'
  <2>1. /\ DOMAIN queue' = DOMAIN queue \cup {Len(queue) + 1} /\ queue'[Len(queue) + 1] = c
        /\ \A i \in DOMAIN queue : queue'[i] = queue[i]
    BY <1>q, <1>s DEF Send
  <2>2. Restores(queue') => Restores(queue)
    BY <1>s, <2>1 DEF Restores
  <2> QED BY <1>s, <2>2, <1>f
<1>16. ASSUME NEW op \in {"banip", "unbanip"}, NEW h \in Host, SetCommand(op, h)
       PROVE  Recorded'
  <2>1. [cmd |-> op, host |-> h] \in Cmd
    BY DEF Cmd
  <2> QED BY <1>16, <2>1, <1>s DEF SetCommand, task, tables, server, past
<1>17. CASE SendLocked
  <2>1. lock = "stop" /\ Send([cmd |-> "stop"]) /\ [cmd |-> "stop"] \in Cmd
    BY <1>17 DEF SendLocked, Orderly, Cmd
  <2> QED BY <1>17, <2>1, <1>s DEF SendLocked, task, tables, past
<1>18. ~UnbanRows /\ ~UnbanAll /\ ~StartAllAgain /\ \A h \in Host : ~Unban(h)
  BY DEF UnbanRows, UnbanAll, StartAllAgain, Unban, Lock, Orderly
<1>19. CASE StopJail \/ Tick \/ UNCHANGED vars
  BY <1>19, <1>f DEF StopJail, Lock, Tick, vars, task, tables, server, past
<1>20. ~Crash
  BY DEF Crash
<1>21. ASSUME NEW h \in Host, IssueBan(h) PROVE Recorded'
  <2> DEFINE t0 == Row(h, now, BanTimeOf(h)).timeofban
  <2>1. /\ boot = "none" /\ ~Restores(queue) /\ pc = "idle" /\ pc' = "banning"
        /\ cur'.ip = h /\ todo' = Each(h)
        /\ bips' = InsertBip(bips, [jail |-> JailName, ip |-> h, timeofban |-> t0])
        /\ UNCHANGED <<started, rules, mishap, queue, boot>>
    BY <1>21 DEF IssueBan, Restoring, Restores, server, Row
  <2> HIDE DEF t0
  <2>2. \A g : Records(bips', g) <=> g = h \/ Records(bips, g)
    BY <1>0, <2>1, RecordAdded
  <2> QED BY <1>0, <2>1, <2>2 DEF Recorded, HasRecord
<1> QED
  BY <1>1, <1>2, <1>3, <1>4, <1>5, <1>6, <1>7, <1>8, <1>9, <1>10, <1>11, <1>12, <1>13,
     <1>14, <1>15, <1>16, <1>17, <1>18, <1>19, <1>20, <1>21
  DEF Next, TaskStep, ServerStep, Request

(* Until a command fails or the process dies, at each moment of a ban, an  *)
(* unban, an expiry or a stop, a rule has the row by which a restart finds *)
(* it, or the command that removes it is to come.                          *)
THEOREM RuleCanBeFound ==
    ASSUME ByTheBook, OneRule
    PROVE  Spec => []RuleHasRecord
<1> DEFINE Inv == TypeInv /\ Orderly /\ Recorded
<1>1. Init => Inv
  BY InitTypeInv, InitOrderly, InitRecorded
<1>2. Inv /\ [Next]_vars => Inv'
  BY NextTypeInv, NextOrderly, NextRecorded
<1>3. Inv => RuleHasRecord
  BY DEF Recorded, HasRecord, RuleHasRecord, Records
<1> HIDE DEF Inv
<1> QED BY <1>1, <1>2, <1>3, PTL DEF Spec
=============================================================================
