---------------------------- MODULE IgnoreCheck ----------------------------
(***************************************************************************)
(* The pre-ban check of a jail with an ignorecommand (server/jail.rs,      *)
(* check_ignorecommand), its cache of answers (IgnoreCache), and the       *)
(* command, whose answer may change.  FailManager lets the command answer  *)
(* anything at once; here the task looks in the cache, or awaits the       *)
(* command while time passes, and this implements FailManager.             *)
(***************************************************************************)
EXTENDS FailManager, Sequences

Seqs == INSTANCE SequencesExt    \* its Remove is another one

CONSTANTS MaxCount, MaxAge,    \* max-count and max-time of ignorecache
          MaxChanges           \* bound

Answer == [key : Host, result : BOOLEAN, at : Time]

ASSUME IgnoreCheckAssumption ==
    /\ HasIgnoreCommand
    /\ MaxCount \in Nat /\ MaxAge \in Nat /\ MaxChanges \in Nat
    /\ None \notin Answer

VARIABLES
    cache,      \* IgnoreCache.entries: an IndexMap, which keeps its order
    asking,     \* the address the command was started for, or None
    friends,    \* the addresses the command would let go
    changes,    \* how often that has changed
    answered,   \* history: the last answer of the command for each address
    decided     \* history: what became of the last promotion

cacheVars == <<cache, asking, friends, changes, answered>>
allVars == <<vars, cacheVars, decided>>

CheckInit ==
    /\ Init
    /\ cache = <<>> /\ asking = None /\ friends = {} /\ changes = 0
    /\ answered = [h \in Host |-> None] /\ decided = "nothing"

-----------------------------------------------------------------------------
Places(h) == {k \in DOMAIN cache : cache[k].key = h}
Expired(e) == now - e.at > MaxAge

(* Mutated forms: an answer never expires; no room is made.                *)
FoundForever(h) == Places(h)
NoRoomMade == cache

(* get: present and not expired.                                           *)
Found(h) == {k \in Places(h) : ~Expired(cache[k])}

(* insert makes room first: an expired entry goes, or else the first one.  *)
RoomMade ==
    LET expired == {k \in DOMAIN cache : Expired(cache[k])}
    IN  IF Len(cache) < MaxCount THEN cache
        ELSE Seqs!RemoveAt(cache, IF expired = {} THEN 1 ELSE Seqs!Min(expired))

(* IndexMap::insert: a key that is there keeps its place.                  *)
Insert(entries, e) ==
    IF \E k \in DOMAIN entries : entries[k].key = e.key
    THEN [k \in DOMAIN entries |-> IF entries[k].key = e.key THEN e ELSE entries[k]]
    ELSE Append(entries, e)

(* A line's promotion that gets as far as the ignorecommand.               *)
ToCheck == promoted # None /\ promoted.auto /\ promoted.ip \notin Ignored
Decide(ignore) ==
    \/ ignore /\ Ignore /\ decided' = "let go"
    \/ ~ignore /\ Ban /\ decided' = "banned"

(* Bans and refusals that need no command: a manual attempt, ignoreip.     *)
Unasked ==
    /\ promoted # None /\ ~ToCheck
    /\ Decide(promoted.auto)
    /\ UNCHANGED cacheVars

FromCache ==
    /\ ToCheck /\ asking = None
    /\ \E k \in Found(promoted.ip) : Decide(cache[k].result)
    /\ UNCHANGED cacheVars

Ask ==
    /\ ToCheck /\ asking = None /\ Found(promoted.ip) = {}
    /\ asking' = promoted.ip
    /\ UNCHANGED <<vars, cache, friends, changes, answered, decided>>

(* The command exits with its answer; one that cannot be run, that fails   *)
(* or that takes more than ten seconds counts as "do not ignore".          *)
Answered ==
    /\ asking # None /\ asking' = None
    /\ \E result \in BOOLEAN :
          /\ result => asking \in friends
          /\ LET e == [key |-> asking, result |-> result, at |-> now]
             IN  /\ answered' = [answered EXCEPT ![asking] = e]
                 /\ cache' = IF MaxCount = 0 THEN cache ELSE Insert(RoomMade, e)
          /\ Decide(result)
    /\ UNCHANGED <<friends, changes>>

(* Whom the command lets go changes with the world around it.              *)
Change ==
    /\ changes < MaxChanges /\ changes' = changes + 1
    /\ \E h \in Host : friends' = Seqs!SymDiff(friends, {h})
    /\ UNCHANGED <<vars, cache, asking, answered, decided>>

(* Everything else of the task waits while it awaits the command.          *)
Others ==
    \/ \E h \in Host, m \in Mlfid \cup {None}, t \in Time, kind \in Kinds :
          Line(h, m, t, kind)
    \/ \E h \in Host : Attempt(h)
    \/ \E m \in Mlfid : Forget(m)
    \/ Purge \/ Tick

CheckNext ==
    \/ Others /\ UNCHANGED <<cacheVars, decided>>
    \/ Unasked \/ FromCache \/ Ask \/ Answered \/ Change

CheckSpec == CheckInit /\ [][CheckNext]_allVars

-----------------------------------------------------------------------------
(* Shapes; the cache holds at most max-count answers, one of each address. *)
CheckTypeOK ==
    /\ TypeOK
    /\ cache \in Seq(Answer) /\ Len(cache) <= MaxCount
    /\ \A j, k \in DOMAIN cache : cache[j].key = cache[k].key => j = k
    /\ asking \in Host \cup {None}
    /\ friends \subseteq Host /\ changes \in 0..MaxChanges
    /\ answered \in [Host -> Answer \cup {None}]
    /\ decided \in {"nothing", "let go", "banned"}

(* What the cache says of an address is the last thing the command said of *)
(* it ("Honors the ignorecache setting to avoid redundant invocations",    *)
(* jail.rs:248): an answer that came later is never overruled.             *)
CacheIsLastAnswer ==
    \A k \in DOMAIN cache : answered[cache[k].key] = cache[k]

(* A host is banned for log lines only if the command was asked about it,  *)
(* at most max-time ago, and did not let it go; it is let go only if the   *)
(* command did so.                                                         *)
DecisionsAreFresh ==
    [][ToCheck /\ promoted' = None =>
          LET answer == answered'[promoted.ip]
          IN  /\ answer # None /\ now - answer.at <= MaxAge
              /\ decided' = IF answer.result THEN "let go" ELSE "banned"]_allVars
=============================================================================
