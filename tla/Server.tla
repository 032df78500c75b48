------------------------------- MODULE Server -------------------------------
(***************************************************************************)
(* server/server.rs: the list of running jails behind its mutex, and the   *)
(* requests that connections run against it concurrently (commands.rs, the *)
(* web handlers).  A request is the list of steps it has left; a step is   *)
(* what happens under one hold of the mutex, or between two.  Of a jail    *)
(* only its life is kept: the task, and the backend task it joins at the   *)
(* end.  What it does meanwhile is Jail's matter.                          *)
(***************************************************************************)
EXTENDS Integers, Sequences, SequencesExt

CONSTANTS Client, JailNames, None,
          Ops,            \* the requests each client makes
          SelfEnding,     \* jails whose backend returns by itself
          MaxRequests, MaxEdits    \* bounds

AllRequests == {"start", "add", "stop", "restart", "reload_jail", "start_all",
                "stop_all", "reload", "status"}

ASSUME ServerAssumption ==
    /\ None \notin Client /\ IsFiniteSet(JailNames)
    /\ Ops \in [Client -> SUBSET (AllRequests \cup {"disconnect"})]
    /\ SelfEnding \subseteq JailNames
    /\ MaxRequests \in Nat /\ MaxEdits \in Nat

VARIABLES
    disk,       \* the version of the configuration files
    config,     \* the version in ServerInner.config
    readers,    \* the clients that hold a read guard of its RwLock
    inst,       \* the jails ever spawned, by number: name, version, life
    tailing,    \* the numbers of those whose backend task still runs
    listed,     \* ServerInner.jails, as numbers
    lock,       \* the client that holds its mutex while it awaits, or None
    draining,   \* the jails that client still has to stop and join
    todo,       \* the steps of each client's request
    requests,   \* how many requests were made
    asked,      \* history: the last version a reload has loaded
    gone,       \* history: has a client gone away in mid-request?
    raced,      \* history: was a jail looked for while another client started it?
    overtaken   \* history: was a reload crossed by a start or by a later reload?

vars == <<disk, config, readers, inst, tailing, listed, lock, draining, todo, requests,
          asked, gone, raced, overtaken>>
jailVars == <<inst, tailing>>
configVars == <<config, readers>>
listVars == <<listed, lock, draining>>
raceVars == <<raced, overtaken>>

Init ==
    /\ disk = 0 /\ config = 0 /\ readers = {} /\ asked = 0 /\ gone = FALSE
    /\ inst = <<>> /\ tailing = {}
    /\ listed = <<>> /\ lock = None /\ draining = <<>>
    /\ todo = [c \in Client |-> <<>>] /\ requests = 0
    /\ raced = FALSE /\ overtaken = FALSE

-----------------------------------------------------------------------------
Idle(c) == todo[c] = <<>>

(* The steps of a request.  A reload carries the configuration it loaded;  *)
(* "reload <jail>" loads one as well, drops it, and restarts the jail.     *)
Steps(op, n) ==
    CASE op \in {"start", "add"} -> << <<"start", n>> >>
      [] op = "stop" -> << <<"stop", n>> >>
      [] op \in {"restart", "reload_jail"} -> << <<"stop", n>>, <<"start", n>> >>
      [] op = "start_all" -> << <<"start_all", None>> >>
      [] op = "stop_all" -> << <<"stop_all", None>> >>
      [] op = "reload" ->
            << <<"stop_all", None>>, <<"swap", disk>>, <<"reopen", None>>,
               <<"start_all", None>> >>
      [] op = "status" -> << <<"list", None>> >>

Request(c) ==
    /\ Idle(c) /\ requests < MaxRequests
    /\ \E op \in Ops[c] \ {"disconnect"}, n \in JailNames :
          /\ todo' = [todo EXCEPT ![c] = Steps(op, n)]
          /\ asked' = IF op = "reload" THEN disk ELSE asked
    /\ requests' = requests + 1
    /\ UNCHANGED <<disk, configVars, jailVars, listVars, gone, raceVars>>

Edit ==
    /\ disk < MaxEdits /\ disk' = disk + 1
    /\ UNCHANGED <<configVars, jailVars, listVars, todo, requests,
                   asked, gone, raceVars>>

-----------------------------------------------------------------------------
(* Client c is at a step of the given kind, and goes on with new steps in  *)
(* its place.                                                              *)
At(c, kind) == ~Idle(c) /\ Head(todo[c])[1] = kind
Arg(c) == Head(todo[c])[2]
GoOn(c, steps) ==
    /\ todo' = [todo EXCEPT ![c] = steps \o Tail(@)]
    /\ UNCHANGED <<disk, requests, asked, gone>>
Continue(c, steps) == GoOn(c, steps) /\ UNCHANGED raceVars

(* It has found no jail of that name, and has not yet added its own.       *)
Underway(c) == At(c, "read") \/ At(c, "guard") \/ At(c, "spawn") \/ At(c, "push")
NameAt(c) == IF At(c, "push") THEN inst[Arg(c)].jail ELSE Arg(c)

Listed(n) == \E k \in DOMAIN listed : inst[listed[k]].jail = n
FirstListed(n) == SelectInSeq(listed, LAMBDA i : inst[i].jail = n)

(* parking_lot's RwLock: a writer that waits for the readers to leave      *)
(* keeps new readers out, those that hold a guard already included.        *)
MayRead == \A c \in Client : ~At(c, "swap")

(* start_jail: is there a handle of that name?  Others may have found none *)
(* just before, or be in the middle of a reload ...                        *)
CheckStart(c) ==
    /\ At(c, "start") /\ lock = None
    /\ IF Listed(Arg(c)) THEN Continue(c, <<>>)
       ELSE /\ GoOn(c, << <<"read", Arg(c)>> >>)
            /\ raced' = (raced \/ \E d \in Client : Underway(d) /\ NameAt(d) = Arg(c))
            /\ overtaken' = (overtaken \/ \E d \in Client : At(d, "swap"))
    /\ UNCHANGED <<configVars, jailVars, listVars>>

(* ... copy the jail, its filter and its actions from the configuration,   *)
(* of which something may be missing or not parse ...                      *)
ReadConfig(c) ==
    /\ At(c, "read") /\ MayRead
    /\ Continue(c, << <<"guard", Arg(c), config>> >>) \/ Continue(c, <<>>)
    /\ UNCHANGED <<configVars, jailVars, listVars>>

(* ... materialize the actions: one expression holds two read guards, the  *)
(* second of which is asked for while the first is held ...                *)
FirstGuard(c) ==
    /\ At(c, "guard") /\ MayRead
    /\ readers' = readers \cup {c}
    /\ Continue(c, << <<"spawn", Arg(c), Head(todo[c])[3]>> >>)
    /\ UNCHANGED <<config, jailVars, listVars>>

(* ... and spawn the tasks, without the mutex of the list ...              *)
Spawn(c) ==
    /\ At(c, "spawn") /\ MayRead
    /\ readers' = readers \ {c}
    /\ inst' = Append(inst, [jail |-> Arg(c), cfg |-> Head(todo[c])[3],
                             life |-> "running"])
    /\ tailing' = tailing \cup {Len(inst) + 1}
    /\ Continue(c, << <<"push", Len(inst) + 1>> >>)
    /\ UNCHANGED <<config, listVars>>

(* ... and add the handle to the list.                                     *)
Push(c) ==
    /\ At(c, "push") /\ lock = None
    /\ listed' = Append(listed, Arg(c))
    /\ Continue(c, <<>>)
    /\ UNCHANGED <<configVars, jailVars, lock, draining>>

(* Mutated form: the mutex is given up before the join.                    *)
BeginStopUnlocked(c) ==
    /\ At(c, "stop") /\ lock = None /\ Listed(Arg(c))
    /\ draining' = <<listed[FirstListed(Arg(c))]>>
    /\ listed' = RemoveAt(listed, FirstListed(Arg(c)))
    /\ Continue(c, << <<"join", None>> >>)
    /\ UNCHANGED <<configVars, jailVars, lock>>

(* stop_jail and stop_all take their handles off the list, and keep the    *)
(* mutex until they have joined each of them.                              *)
BeginStop(c) ==
    /\ At(c, "stop") /\ lock = None
    /\ IF Listed(Arg(c))
       THEN /\ draining' = <<listed[FirstListed(Arg(c))]>>
            /\ listed' = RemoveAt(listed, FirstListed(Arg(c)))
            /\ lock' = c
            /\ Continue(c, << <<"join", None>> >>)
       ELSE Continue(c, <<>>) /\ UNCHANGED listVars
    /\ UNCHANGED <<configVars, jailVars>>

(* A start under way has no handle that a reload could take.               *)
Reloading(c) == \E k \in DOMAIN todo[c] : todo[c][k][1] = "swap"
BeginStopAll(c) ==
    /\ At(c, "stop_all") /\ lock = None
    /\ draining' = listed /\ listed' = <<>> /\ lock' = c
    /\ GoOn(c, << <<"join", None>> >>)
    /\ overtaken' = (overtaken \/ (Reloading(c) /\ \E d \in Client : Underway(d)))
    /\ UNCHANGED <<configVars, jailVars, raced>>

SendStop(c) ==
    /\ At(c, "join") /\ draining # <<>>
    /\ inst[Head(draining)].life = "running"
    /\ inst' = [inst EXCEPT ![Head(draining)].life = "leaving"]
    /\ UNCHANGED <<disk, configVars, tailing, listVars, todo, requests,
                   asked, gone, raceVars>>

(* Mutated form: the task is not waited for.                               *)
JoinedEarly(c) ==
    /\ At(c, "join") /\ draining # <<>>
    /\ inst[Head(draining)].life # "running"
    /\ draining' = Tail(draining)
    /\ UNCHANGED <<disk, configVars, jailVars, listed, lock, todo, requests,
                   asked, gone, raceVars>>

Joined(c) ==
    /\ At(c, "join") /\ draining # <<>>
    /\ inst[Head(draining)].life = "ended"
    /\ draining' = Tail(draining)
    /\ UNCHANGED <<disk, configVars, jailVars, listed, lock, todo, requests,
                   asked, gone, raceVars>>

EndStop(c) ==
    /\ At(c, "join") /\ draining = <<>>
    /\ lock' = None
    /\ Continue(c, <<>>)
    /\ UNCHANGED <<configVars, jailVars, listed, draining>>

(* Mutated form: the loaded configuration is not stored.                   *)
SwapForgotten(c) ==
    At(c, "swap") /\ Continue(c, <<>>) /\ UNCHANGED <<configVars, jailVars, listVars>>

(* reload_config between its stop_all and its start_all_enabled: the new   *)
(* configuration is written once the readers have left, whichever of two   *)
(* reloads loaded the later one ...                                        *)
SwapConfig(c) ==
    /\ At(c, "swap")
    /\ readers = {}
    /\ config' = Arg(c)
    /\ GoOn(c, <<>>)
    /\ overtaken' = (overtaken \/ Arg(c) < config)
    /\ UNCHANGED <<readers, jailVars, listVars, raced>>

(* ... and the database is opened again; a failure ends the request.       *)
Reopen(c) ==
    /\ At(c, "reopen")
    /\ todo' = [todo EXCEPT ![c] = Tail(@)] \/ todo' = [todo EXCEPT ![c] = <<>>]
    /\ UNCHANGED <<disk, configVars, jailVars, listVars, requests, asked, gone, raceVars>>

(* start_all_enabled starts every jail, then takes the mutex once more to  *)
(* restore bans.                                                           *)
StartAll(c) ==
    /\ At(c, "start_all")
    /\ Continue(c, [k \in 1..Cardinality(JailNames) |->
                       <<"start", SetToSeq(JailNames)[k]>>]
                   \o << <<"list", None>> >>)
    /\ UNCHANGED <<configVars, jailVars, listVars>>

(* list_jails, and restore_bans_from_db as far as the list is concerned.   *)
ReadList(c) ==
    /\ At(c, "list") /\ lock = None
    /\ Continue(c, <<>>)
    /\ UNCHANGED <<configVars, jailVars, listVars>>

(* A web client goes away: its handler is dropped where it awaits, and the *)
(* handles and the mutex it held with it.                                  *)
Awaits(c) == \E kind \in {"start", "stop", "stop_all", "join", "push", "reopen",
                          "list"} : At(c, kind)

Disconnect(c) ==
    /\ "disconnect" \in Ops[c] /\ Awaits(c)
    /\ todo' = [todo EXCEPT ![c] = <<>>]
    /\ IF lock = c THEN lock' = None /\ draining' = <<>>
                   ELSE UNCHANGED <<lock, draining>>
    /\ gone' = TRUE
    /\ UNCHANGED <<disk, configVars, jailVars, listed, requests, asked, raceVars>>

-----------------------------------------------------------------------------
(* Mutated form: the ending task needs the mutex.                          *)
TaskEndsLocked(i) ==
    /\ inst[i].life = "leaving" /\ i \notin tailing /\ lock = None
    /\ inst' = [inst EXCEPT ![i].life = "ended"]
    /\ UNCHANGED <<disk, configVars, tailing, listVars, todo, requests,
                   asked, gone, raceVars>>

(* The jail task, told to stop, ends when its backend task has ended; the  *)
(* backend is not told.                                                    *)
TaskEnds(i) ==
    /\ inst[i].life = "leaving" /\ i \notin tailing
    /\ inst' = [inst EXCEPT ![i].life = "ended"]
    /\ UNCHANGED <<disk, configVars, tailing, listVars, todo, requests,
                   asked, gone, raceVars>>

BackendEnds(i) ==
    /\ i \in tailing /\ inst[i].jail \in SelfEnding
    /\ tailing' = tailing \ {i}
    /\ UNCHANGED <<disk, configVars, inst, listVars, todo, requests,
                   asked, gone, raceVars>>

ClientStep(c) ==
    \/ CheckStart(c) \/ ReadConfig(c) \/ FirstGuard(c) \/ Spawn(c) \/ Push(c)
    \/ BeginStop(c) \/ BeginStopAll(c) \/ SendStop(c) \/ Joined(c) \/ EndStop(c)
    \/ SwapConfig(c) \/ Reopen(c) \/ StartAll(c) \/ ReadList(c)
TaskStep == \E i \in DOMAIN inst : TaskEnds(i) \/ BackendEnds(i)

Next ==
    \/ \E c \in Client : Request(c) \/ ClientStep(c) \/ Disconnect(c)
    \/ TaskStep \/ Edit

Spec == Init /\ [][Next]_vars

(* tokio's mutex serves its waiters in order: a step that needs it is not  *)
(* passed over for ever.  Tasks that can run are run.                      *)
FairSpec == Spec /\ WF_vars(TaskStep) /\ \A c \in Client : SF_vars(ClientStep(c))

-----------------------------------------------------------------------------
Step == ({"start", "read", "stop"} \X JailNames)
          \cup ({"guard", "spawn"} \X JailNames \X (0..disk))
          \cup ({"push"} \X DOMAIN inst) \cup ({"swap"} \X (0..disk))
          \cup ({"stop_all", "start_all", "reopen", "list", "join"} \X {None})

(* Shapes, and which steps hold the mutex and the read guards.             *)
TypeOK ==
    /\ disk \in 0..MaxEdits /\ config \in 0..disk /\ asked \in 0..disk
    /\ \A i \in DOMAIN inst :
          inst[i] \in [jail : JailNames, cfg : 0..disk,
                       life : {"running", "leaving", "ended"}]
    /\ tailing \subseteq DOMAIN inst
    /\ \A k \in DOMAIN listed : listed[k] \in DOMAIN inst
    /\ \A k \in DOMAIN draining : draining[k] \in DOMAIN inst
    /\ \A c \in Client : \A k \in DOMAIN todo[c] : todo[c][k] \in Step
    /\ \A c \in Client : lock = c <=> At(c, "join")
    /\ \A c \in Client : c \in readers <=> At(c, "spawn")
    /\ requests \in 0..MaxRequests
    /\ gone \in BOOLEAN /\ raced \in BOOLEAN /\ overtaken \in BOOLEAN

Alive(i) == inst[i].life # "ended"
Quiet == \A c \in Client : Idle(c)

(* "Check whether it's already running" (server.rs:152): a jail never has  *)
(* two lives at a time, one tailing the log or cleaning up its rules while *)
(* the other bans.                                                         *)
OneLife ==
    \A i, j \in DOMAIN inst :
        Alive(i) /\ Alive(j) /\ inst[i].jail = inst[j].jail => i = j

(* So it is unless two clients looked for the jail before either listed it,*)
(* or one went away in the middle of a request: no stop, restart or reload *)
(* of any client, however it falls among the steps of a start, gives a     *)
(* jail two lives.                                                         *)
OneJailPerName == ~gone /\ ~raced => OneLife

(* "List all running jails" (server.rs:269): as long as no client goes     *)
(* away in the middle of a request, and when none is under way, a jail     *)
(* that is alive can be listed, commanded and stopped.                     *)
RunningIsListed ==
    Quiet /\ ~gone => \A i \in DOMAIN inst :
                Alive(i) => \E k \in DOMAIN listed : listed[k] = i

(* "Reload configuration from disk and restart all jails" (server.rs:225,  *)
(* MANUAL.md:495): once the requests are done, no jail runs with a         *)
(* configuration older than the last one a reload has loaded.              *)
ReloadRestartsAll ==
    Quiet /\ ~gone => \A k \in DOMAIN listed : inst[listed[k]].cfg >= asked

(* So it is unless a start was under way when a reload stopped the jails,  *)
(* looked for its jail before the reload had stored its configuration, or  *)
(* two reloads stored theirs in the wrong order.                           *)
ReloadTakesEffect == ~overtaken => ReloadRestartsAll

(* A start holds one read guard and waits for a second behind a reload     *)
(* that waits to write: parking_lot lets neither go on (server.rs:192).    *)
Jammed == \E c, d \in Client : At(c, "spawn") /\ At(d, "swap")

(* Every request gets its answer, unless two jam each other like this.     *)
RequestsEnd == \A c \in Client : ~Idle(c) ~> Idle(c) \/ Jammed
=============================================================================
