---------------------------- MODULE FailManager ----------------------------
(***************************************************************************)
(* The failure pipeline of one jail: server/failmanager.rs and the part of *)
(* process_line (server/jail.rs) that decides from a matched line whether  *)
(* a host is banned.  The jail task is the only writer, so each call is    *)
(* one step; between the promotion of a ticket and its removal the task    *)
(* awaits commands, and only the clock moves.                              *)
(*                                                                         *)
(* A failure is [id, t]: its log timestamp, made distinct by an id because *)
(* the Vec of timestamps counts equal ones separately.  A ticket that is   *)
(* not in the map is NoTicket: a fresh entry starts from the same values.  *)
(* Timestamps come from the log: in any order, late, or ahead of the clock.*)
(* A session id may turn up with any host.                                 *)
(***************************************************************************)
EXTENDS Integers, FiniteSets

CONSTANTS Host, Mlfid, None,
          MaxRetry, FindTime,
          Ignored,            \* hosts matched by ignoreip / ignoreself
          HasIgnoreCommand,   \* is an ignorecommand configured?
          MaxTime, MaxFailures   \* bounds

Time == 0..MaxTime
Failure == [id : Nat, t : Time]
Ticket == [ip : Host \cup {None}, times : SUBSET Failure]
NoTicket == [ip |-> None, times |-> {}]
Promotion == [host : Host, ip : Host, t : Time, auto : BOOLEAN]
Kinds == {"fail", "nofail", "gained"}

ASSUME FailManagerAssumption ==
    /\ None \notin Host /\ None \notin Mlfid /\ None \notin Promotion
    /\ MaxRetry \in Nat /\ FindTime \in Int
    /\ Ignored \subseteq Host
    /\ HasIgnoreCommand \in BOOLEAN
    /\ MaxTime \in Nat /\ MaxFailures \in Nat

VARIABLES
    tickets,     \* FailManagerInner.tickets
    mlfidMap,    \* FailManagerInner.mlfid_map, None where there is no entry
    promoted,    \* the ticket add_failure returned, until the task removes it
    now,         \* the wall clock
    counted,     \* history: the failures of a host since its last ban,
                 \* pardon or success, whatever the code keeps of them
    last,        \* history: the latest timestamp of a host's lines
    failures     \* history: how many failures were counted

vars == <<tickets, mlfidMap, promoted, now, counted, last, failures>>

Init ==
    /\ tickets = [h \in Host |-> NoTicket]
    /\ mlfidMap = [m \in Mlfid |-> None]
    /\ promoted = None
    /\ now = 0
    /\ counted = [h \in Host |-> {}]
    /\ last = [h \in Host |-> 0]
    /\ failures = 0

-----------------------------------------------------------------------------
(* Mutated forms: failures are never trimmed; purge forgets findtime.      *)
RecentUntrimmed(times, t) == times
StaleAtOnce(times) == \A f \in times : f.t < now

(* add_failure: the ticket's host is the first host seen with the mlfid.   *)
TicketHost(h, m) ==
    IF m # None /\ mlfidMap[m] # None THEN mlfidMap[m] ELSE h

(* retain(|t| t >= now - findtime), where now is the line's timestamp.     *)
Recent(times, t) == {f \in times : f.t >= t - FindTime}

Reached(times) == Cardinality(times) >= MaxRetry

(* The ticket after a line of the given kind: trimmed, its address filled  *)
(* in when missing, cleared by a success, extended by a failure.           *)
Updated(ticket, h, t, kind) ==
    [ip |-> IF ticket.ip = None THEN h ELSE ticket.ip,
     times |-> CASE kind = "gained" -> {}
                 [] kind = "nofail" -> Recent(ticket.times, t)
                 [] kind = "fail" -> Recent(ticket.times, t)
                                     \cup {[id |-> failures, t |-> t]}]

AddFailure(h, m, t, kind, auto) ==
    LET th == TicketHost(h, m)
        ticket == Updated(tickets[th], h, t, kind)
    IN  /\ mlfidMap' = IF m = None THEN mlfidMap
                       ELSE [mlfidMap EXCEPT ![m] = th]
        /\ tickets' = [tickets EXCEPT ![th] = ticket]
        /\ promoted' = IF kind = "fail" /\ Reached(ticket.times)
                       THEN [host |-> th, ip |-> ticket.ip, t |-> t,
                             auto |-> auto]
                       ELSE None
        /\ counted' =
             CASE kind = "gained" -> [counted EXCEPT ![th] = {}]
               [] kind = "nofail" -> counted
               [] kind = "fail" ->
                    [counted EXCEPT ![th] = @ \cup {[id |-> failures, t |-> t]}]
        /\ failures' = IF kind = "fail" THEN failures + 1 ELSE failures
        /\ last' = [last EXCEPT ![th] = IF t > @ THEN t ELSE @]
        /\ UNCHANGED now

(* A matched line of host h with timestamp t, with or without an mlfid.    *)
Line(h, m, t, kind) ==
    /\ promoted = None
    /\ failures < MaxFailures
    /\ AddFailure(h, m, t, kind, TRUE)

(* "set <jail> attempt": timestamp Utc::now(), no mlfid, no ignore check.  *)
Attempt(h) ==
    /\ promoted = None
    /\ failures < MaxFailures
    /\ AddFailure(h, None, now, "fail", FALSE)

(* forget_mlfid, for a line that matched <F-MLFFORGET>.                    *)
Forget(m) ==
    /\ promoted = None
    /\ mlfidMap' = [mlfidMap EXCEPT ![m] = None]
    /\ UNCHANGED <<tickets, promoted, now, counted, last, failures>>

(* fail_mgr.remove(host).                                                  *)
Remove(h) == [tickets EXCEPT ![h] = NoTicket]
LetGo(h) == Remove(h)

(* History: a ban or a pardon uses up the failures it was decided on.      *)
Decided ==
    /\ promoted' = None
    /\ counted' = [counted EXCEPT ![promoted.host] = {}]
    /\ last' = [last EXCEPT ![promoted.host] = 0]
    /\ UNCHANGED <<mlfidMap, now, failures>>

(* process_line's pre-ban checks look at the ticket's address; the ban     *)
(* (issue_ban) then goes to the ticket's host.                             *)
Ignore ==
    /\ promoted # None
    /\ promoted.auto
    /\ promoted.ip \in Ignored \/ HasIgnoreCommand
    /\ tickets' = LetGo(promoted.host)
    /\ Decided

Ban ==
    /\ promoted # None
    /\ ~(promoted.auto /\ promoted.ip \in Ignored)
    /\ tickets' = Remove(promoted.host)
    /\ Decided

(* purge, from the jail task's 30 s ticker, goes by the wall clock.        *)
Stale(times) == Recent(times, now) = {}
Purge ==
    /\ promoted = None
    /\ tickets' = [h \in Host |-> IF Stale(tickets[h].times)
                                  THEN NoTicket ELSE tickets[h]]
    /\ UNCHANGED <<mlfidMap, promoted, now, counted, last, failures>>

Tick ==
    /\ now < MaxTime
    /\ now' = now + 1
    /\ UNCHANGED <<tickets, mlfidMap, promoted, counted, last, failures>>

Next ==
    \/ \E h \in Host, m \in Mlfid \cup {None}, t \in Time, kind \in Kinds :
          Line(h, m, t, kind)
    \/ \E h \in Host : Attempt(h)
    \/ \E m \in Mlfid : Forget(m)
    \/ Ignore
    \/ Ban
    \/ Purge
    \/ Tick

Spec == Init /\ [][Next]_vars

-----------------------------------------------------------------------------
(* Tickets hold failures, and a promotion is a ticket's.                   *)
TypeOK ==
    /\ tickets \in [Host -> Ticket]
    /\ mlfidMap \in [Mlfid -> Host \cup {None}]
    /\ promoted \in Promotion \cup {None}
    /\ now \in Time /\ last \in [Host -> Time]
    /\ counted \in [Host -> SUBSET Failure]
    /\ failures \in Nat

(* A host is promoted only for maxretry failures since its last ban,       *)
(* pardon or success (failmanager.rs:153, remove on every path), none of   *)
(* them more than findtime before the line at hand or later than the       *)
(* latest: all within one findtime when the lines come in order.           *)
InWindow(h, t) == {f \in counted[h] : t - FindTime <= f.t /\ f.t <= last[h]}
BanIsJustified ==
    promoted # None =>
        Reached(InWindow(promoted.host, promoted.t))

(* No ban is missed, whatever was trimmed (failmanager.rs:106) or purged   *)
(* (failmanager.rs:176), however late and in whatever order the log is     *)
(* read: the failure that makes a host's failures reach maxretry within    *)
(* findtime of the clock, or of a line ahead of it, promotes the host.     *)
Latest(h) == IF last[h] > now THEN last[h] ELSE now
NoMissedBan ==
    [][\A h \in Host :
          /\ counted'[h] \ counted[h] # {}
          /\ Reached({f \in counted'[h] : f.t >= Latest(h)' - FindTime})
          => promoted' # None /\ promoted'.host = h]_vars
=============================================================================
