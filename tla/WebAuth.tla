------------------------------- MODULE WebAuth -------------------------------
(***************************************************************************)
(* The accounts, sessions and limits of the web interface: AuthDb and      *)
(* AuthManager (web/auth.rs), the RateLimiter (web/middleware.rs), the     *)
(* handlers that use them (web/handlers.rs) and the cleanup task of        *)
(* bin/rail2ban-web.rs.  A step is what one request does under one lock;   *)
(* the hashing of passwords runs outside of all locks, so requests         *)
(* interleave between the steps.  Times are ages: only how long ago        *)
(* something was is ever asked, so the clock needs no bound.  A statement  *)
(* of the database may fail; each caller takes that in its own way.  Which *)
(* path of the router leads to which handler is left out.                  *)
(***************************************************************************)
EXTENDS Naturals, FiniteSets, FiniteSetsExt

CONSTANTS User, Password, Ip, Request, None,
          Token,              \* as many as there may be sessions at a time
          Weak,               \* passwords validate_password refuses
          IdleTtl, AbsoluteTtl,         \* SESSION_IDLE_TTL, SESSION_ABSOLUTE_TTL
          MaxAttempts, AttemptWindow,   \* MAX_LOGIN_ATTEMPTS and its window
          MaxRequests, RateWindow,      \* of the login limiter
          MaxMisread                    \* bound: failed counts of an address

ASSUME WebAssumption ==
    /\ None \notin User \cup Password /\ Weak \subseteq Password
    /\ IsFiniteSet(Request) /\ Request # {}
    /\ {IdleTtl, AbsoluteTtl, MaxAttempts, AttemptWindow, MaxRequests, RateWindow}
       \subseteq Nat \ {0}
    /\ MaxMisread \in Nat

VARIABLES
    admins,    \* admin_users: the password of each user, or None
    greeted,   \* the users whose last_login is set
    failures,  \* login_log: failed attempts of an address, by age
    sessions,  \* the session of each token, or None
    limiter,   \* the limiter's entries of an address, by age; RateWindow: older
    req,       \* what each request is about to do
    hits,      \* history: requests the limiter let pass, by age
    misread    \* history: failed counts of an address's failures, by address

store == <<admins, greeted, failures, misread>>
limits == <<limiter, hits>>
vars == <<store, sessions, limits, req>>

(* A count of events by age, the events themselves, how many they are, no  *)
(* events, and time passing over them.                                     *)
Events(byAge) == UNION {{a} \X (1..byAge[a]) : a \in DOMAIN byAge}
Total(byAge) == Cardinality(Events(byAge))
Nothing(ages) == [a \in ages |-> 0]
Older(byAge) == [a \in DOMAIN byAge |-> IF a = 0 THEN 0 ELSE byAge[a - 1]]

Idle == [at |-> "idle"]
Failures(i) == Total(failures[i])
Acceptable(p) == p \notin Weak
Live(s) == s.age < AbsoluteTtl /\ s.idle < IdleTtl
Accepts(t) == sessions[t] # None /\ Live(sessions[t])

Init ==
    /\ admins = [u \in User |-> None] /\ greeted = {}
    /\ failures = [i \in Ip |-> Nothing(0..AttemptWindow - 1)]
    /\ misread = [i \in Ip |-> 0]
    /\ sessions = [t \in Token |-> None]
    /\ limiter = [i \in Ip |-> Nothing(0..RateWindow)]
    /\ hits = [i \in Ip |-> Nothing(0..RateWindow - 1)]
    /\ req = [r \in Request |-> Idle]

Go(r, next) == req' = [req EXCEPT ![r] = next]
End(r) == Go(r, Idle)

(* Mutated form: the address is not looked at.                             *)
LoginUncounted(r) ==
    /\ req[r] = Idle
    /\ \E u \in User, p \in Password, i \in Ip :
          Go(r, [at |-> "verify", user |-> u, pass |-> p, ip |-> i])
    /\ UNCHANGED <<store, sessions, limits>>
-----------------------------------------------------------------------------
(* Login.  An address with too many recent failures is sent away, and that *)
(* leaves no trace in the log.  A count that fails is taken for 0.         *)
LoginCount(r) ==
    /\ req[r] = Idle
    /\ \E u \in User, p \in Password, i \in Ip :
          /\ \/ Failures(i) < MaxAttempts /\ UNCHANGED misread
             \/ /\ Failures(i) >= MaxAttempts /\ misread[i] < MaxMisread
                /\ misread' = [misread EXCEPT ![i] = @ + 1]
          /\ Go(r, [at |-> "verify", user |-> u, pass |-> p, ip |-> i])
    /\ UNCHANGED <<admins, greeted, failures, sessions, limits>>

(* AuthDb::verify reads the hash under the lock and compares without it; a *)
(* read that fails is a user who is not there.                             *)
LoginVerify(r) ==
    /\ req[r].at = "verify"
    /\ \/ /\ admins[req[r].user] = req[r].pass
          /\ Go(r, [at |-> "greet", user |-> req[r].user, pass |-> req[r].pass,
                    raced |-> FALSE])
       \/ Go(r, [at |-> "blame", ip |-> req[r].ip])
    /\ UNCHANGED <<store, sessions, limits>>

(* log_attempt of a failed login, whose failure nobody hears of; the count *)
(* that follows only picks the message.  The row of a successful one is    *)
(* never read.                                                             *)
LoginFails(r) ==
    /\ req[r].at = "blame"
    /\ failures' = [failures EXCEPT ![req[r].ip][0] = @ + 1] \/ UNCHANGED failures
    /\ End(r)
    /\ UNCHANGED <<admins, greeted, misread, sessions, limits>>

LoginGreets(r) ==
    /\ req[r].at = "greet"
    /\ greeted' = greeted \cup {req[r].user} \/ UNCHANGED greeted
    /\ Go(r, [req[r] EXCEPT !.at = "enter"])
    /\ UNCHANGED <<admins, failures, misread, sessions, limits>>

(* Tokens are random: the new one is in no one's hands.                    *)
Fresh(t) ==
    /\ sessions[t] = None
    /\ \A q \in Request : req[q].at \in {"change", "info"} => req[q].token # t

LoginEnters(r) ==
    /\ req[r].at = "enter"
    /\ \E t \in Token :
          /\ Fresh(t)
          /\ sessions' = [sessions EXCEPT ![t] =
                             [user |-> req[r].user, age |-> 0, idle |-> 0,
                              pass |-> req[r].pass, raced |-> req[r].raced]]
    /\ End(r)
    /\ UNCHANGED <<store, limits>>

(* Mutated form: an active session has no absolute end.                    *)
ValidateForever(t) ==
    sessions' = IF sessions[t] = None THEN sessions
                ELSE [sessions EXCEPT ![t] =
                         IF @.idle < IdleTtl THEN [@ EXCEPT !.idle = 0, !.age = 0]
                         ELSE None]

-----------------------------------------------------------------------------
(* validate_session forgets an expired session and extends a live one.     *)
ValidateSession(t) ==
    sessions' = IF sessions[t] = None THEN sessions
                ELSE [sessions EXCEPT ![t] =
                         IF Live(@) THEN [@ EXCEPT !.idle = 0] ELSE None]

(* check_session, and require_auth before a handler that does not ask.     *)
CheckSession(t) ==
    /\ ValidateSession(t)
    /\ UNCHANGED <<store, limits, req>>

(* require_auth before change_password and get_admin_info, which validate  *)
(* the token once more.                                                    *)
RequireAuth(r, t) ==
    /\ req[r] = Idle
    /\ ValidateSession(t)
    /\ Accepts(t)
    /\ \E handler \in {"change", "info"} : Go(r, [at |-> handler, token |-> t])
    /\ UNCHANGED <<store, limits>>

AdminInfo(r) ==
    /\ req[r].at = "info"
    /\ ValidateSession(req[r].token)
    /\ End(r)
    /\ UNCHANGED <<store, limits>>

Logout(t) ==
    /\ sessions' = [sessions EXCEPT ![t] = None]
    /\ UNCHANGED <<store, limits, req>>

(* change_password: session, new password, old password, UPDATE, and the   *)
(* user's sessions last.                                                   *)
ChangeBegin(r) ==
    /\ req[r].at = "change"
    /\ ValidateSession(req[r].token)
    /\ \E p \in Password :
          Go(r, IF Accepts(req[r].token) /\ Acceptable(p)
                THEN [at |-> "compare", user |-> sessions[req[r].token].user, new |-> p]
                ELSE Idle)
    /\ UNCHANGED <<store, limits>>

ChangeCompare(r) ==
    /\ req[r].at = "compare"
    /\ \E old \in Password :
          Go(r, IF admins[req[r].user] = old THEN [req[r] EXCEPT !.at = "update"]
                ELSE Idle)
    /\ UNCHANGED <<store, sessions, limits>>

ChangeUpdate(r) ==
    /\ req[r].at = "update"
    /\ \/ /\ admins' = [admins EXCEPT ![req[r].user] = req[r].new]
          /\ Go(r, [req[r] EXCEPT !.at = "retain"])
       \/ UNCHANGED admins /\ End(r)
    /\ UNCHANGED <<greeted, failures, misread, sessions, limits>>

(* Logins past their comparison are not stopped: they are marked.          *)
Marked(u) ==
    [q \in Request |->
        IF req[q].at \in {"greet", "enter"} /\ req[q].user = u
        THEN [req[q] EXCEPT !.raced = TRUE] ELSE req[q]]

(* Mutated form: sessions in use are spared.                               *)
ChangeRetainActive(r) ==
    /\ req[r].at = "retain"
    /\ sessions' = [t \in Token |->
                       IF sessions[t] # None /\ sessions[t].user = req[r].user
                          /\ sessions[t].idle > 0
                       THEN None ELSE sessions[t]]
    /\ req' = [Marked(req[r].user) EXCEPT ![r] = Idle]
    /\ UNCHANGED <<store, limits>>

ChangeRetain(r) ==
    /\ req[r].at = "retain"
    /\ sessions' = [t \in Token |->
                       IF sessions[t] # None /\ sessions[t].user = req[r].user
                       THEN None ELSE sessions[t]]
    /\ req' = [Marked(req[r].user) EXCEPT ![r] = Idle]
    /\ UNCHANGED <<store, limits>>

-----------------------------------------------------------------------------
(* Setup asks twice whether there is an account, the handler and           *)
(* AuthManager::setup, and creates one under a lock of its own.  A query   *)
(* that fails is taken for a no.                                           *)
NoAdmin == \A u \in User : admins[u] = None

SetupBegin(r) ==
    /\ req[r] = Idle
    /\ \E failed \in BOOLEAN : NoAdmin \/ failed
    /\ Go(r, [at |-> "exists"])
    /\ UNCHANGED <<store, sessions, limits>>

(* Mutated form: the password is not validated.                            *)
SetupExistsAny(r) ==
    /\ req[r].at = "exists"
    /\ \E u \in User, p \in Password :
          Go(r, IF NoAdmin THEN [at |-> "create", user |-> u, pass |-> p] ELSE Idle)
    /\ UNCHANGED <<store, sessions, limits>>

SetupExists(r) ==
    /\ req[r].at = "exists"
    /\ \E u \in User, p \in Password, failed \in BOOLEAN :
          Go(r, IF (NoAdmin \/ failed) /\ Acceptable(p)
                THEN [at |-> "create", user |-> u, pass |-> p] ELSE Idle)
    /\ UNCHANGED <<store, sessions, limits>>

(* Mutated form: INSERT OR REPLACE.                                        *)
SetupReplace(r) ==
    /\ req[r].at = "create"
    /\ admins' = [admins EXCEPT ![req[r].user] = req[r].pass]
    /\ End(r)
    /\ UNCHANGED <<greeted, failures, misread, sessions, limits>>

(* The name is UNIQUE in the table: an INSERT of a taken one fails.        *)
SetupCreate(r) ==
    /\ req[r].at = "create"
    /\ \/ admins' = [admins EXCEPT ![req[r].user] = IF @ = None THEN req[r].pass ELSE @]
       \/ UNCHANGED admins
    /\ End(r)
    /\ UNCHANGED <<greeted, failures, misread, sessions, limits>>

-----------------------------------------------------------------------------
(* RateLimiter::check drops what left the window, then counts.             *)
LimiterCheck(i) ==
    LET kept == [limiter[i] EXCEPT ![RateWindow] = 0]
        ok == Total(kept) < MaxRequests
    IN  /\ limiter' = [limiter EXCEPT ![i] = IF ok THEN [kept EXCEPT ![0] = @ + 1]
                                             ELSE kept]
        /\ hits' = IF ok THEN [hits EXCEPT ![i][0] = @ + 1] ELSE hits
        /\ UNCHANGED <<store, sessions, req>>

(* Every five minutes: cleanup_expired_sessions, then limiter.cleanup.     *)
CleanSessions ==
    /\ sessions' = [t \in Token |->
                       IF sessions[t] # None /\ Live(sessions[t]) THEN sessions[t]
                       ELSE None]
    /\ UNCHANGED <<store, limits, req>>

(* Mutated form: an address with an old entry is forgotten altogether.     *)
CleanLimiterWhole ==
    /\ limiter' = [i \in Ip |-> IF limiter[i][RateWindow] > 0
                                THEN Nothing(0..RateWindow) ELSE limiter[i]]
    /\ UNCHANGED <<store, sessions, hits, req>>

CleanLimiter ==
    /\ limiter' = [i \in Ip |-> [limiter[i] EXCEPT ![RateWindow] = 0]]
    /\ UNCHANGED <<store, sessions, hits, req>>

(* The process is started again: the database stays, the memory does not.  *)
Restart ==
    /\ sessions' = [t \in Token |-> None]
    /\ req' = [r \in Request |-> Idle]
    /\ limiter' = [i \in Ip |-> Nothing(0..RateWindow)]
    /\ hits' = [i \in Ip |-> Nothing(0..RateWindow - 1)]
    /\ UNCHANGED store

Tick ==
    /\ sessions' = [t \in Token |->
          IF sessions[t] = None THEN None
          ELSE [sessions[t] EXCEPT !.age = Min({@ + 1, AbsoluteTtl}),
                                   !.idle = Min({@ + 1, IdleTtl})]]
    /\ failures' = [i \in Ip |-> Older(failures[i])]
    /\ limiter' = [i \in Ip |->
          [Older(limiter[i]) EXCEPT
              ![RateWindow] = IF @ + limiter[i][RateWindow] > 0 THEN 1 ELSE 0]]
    /\ hits' = [i \in Ip |-> Older(hits[i])]
    /\ UNCHANGED <<admins, greeted, misread, req>>

Handle(r) ==
    \/ LoginCount(r) \/ LoginVerify(r) \/ LoginFails(r) \/ LoginGreets(r)
    \/ LoginEnters(r) \/ AdminInfo(r) \/ \E t \in Token : RequireAuth(r, t)
    \/ ChangeBegin(r) \/ ChangeCompare(r) \/ ChangeUpdate(r) \/ ChangeRetain(r)
    \/ SetupBegin(r) \/ SetupExists(r) \/ SetupCreate(r)

Next ==
    \/ \E r \in Request : Handle(r)
    \/ \E t \in Token : CheckSession(t) \/ Logout(t)
    \/ \E i \in Ip : LimiterCheck(i)
    \/ CleanSessions \/ CleanLimiter \/ Restart \/ Tick

Spec == Init /\ [][Next]_vars

(* Time passes and the cleanup task runs; no request need ever come.       *)
FairSpec == Spec /\ WF_vars(Tick) /\ WF_vars(CleanSessions)

-----------------------------------------------------------------------------
Session == [user : User, age : 0..AbsoluteTtl, idle : 0..IdleTtl,
            pass : Password, raced : BOOLEAN]

(* Shapes of the state; a password that is stored was not a weak one.      *)
TypeOK ==
    /\ admins \in [User -> (Password \ Weak) \cup {None}]
    /\ greeted \subseteq User
    /\ failures \in [Ip -> [0..AttemptWindow - 1 -> Nat]]
    /\ sessions \in [Token -> Session \cup {None}]
    /\ limiter \in [Ip -> [0..RateWindow -> Nat]]
    /\ hits \in [Ip -> [0..RateWindow - 1 -> Nat]]
    /\ misread \in [Ip -> 0..MaxMisread]

(* "Maximum failed login attempts before lockout" (auth.rs:27): requests   *)
(* that are counted at the same time may each fail once more, and so may   *)
(* one for each count the database refused; that many and no more are      *)
(* recorded within the window.                                             *)
FailuresBounded ==
    \A i \in Ip :
        Failures(i)
          + Cardinality({r \in Request : req[r].at \in {"verify", "blame"} /\ req[r].ip = i})
        <= MaxAttempts - 1 + Cardinality(Request) + misread[i]

(* "Password change invalidates all sessions" (handlers.rs:236): a session *)
(* opened with another password than the present one is about to be closed *)
(* or belongs to a login that was under way, past its comparison, when the *)
(* change closed the sessions.                                             *)
SessionsFollowPassword ==
    \A t \in Token :
        sessions[t] # None /\ sessions[t].pass # admins[sessions[t].user]
        => \/ sessions[t].raced
           \/ \E r \in Request : req[r].at = "retain" /\ req[r].user = sessions[t].user

(* "Perform initial admin setup.  Only works when no admin exists"         *)
(* (auth.rs:302): an account is never replaced.  Its password changes only *)
(* by a change_password of that user.                                      *)
AccountsKept ==
    [][\A u \in User : admins[u] # None /\ admins'[u] # admins[u] =>
          \E r \in Request : /\ req[r].at = "update" /\ req[r].user = u
                             /\ admins'[u] = req[r].new]_vars

(* "A sliding window per IP" (middleware.rs:131): what the limiter counts  *)
(* is what it let pass within the window, with or without cleanup, and it  *)
(* is never more than the limit.                                           *)
LimiterExact ==
    \A i \in Ip : /\ \A a \in 0..RateWindow - 1 : limiter[i][a] = hits[i][a]
                  /\ Total(hits[i]) <= MaxRequests

(* "Absolute session lifetime (24 hours max, regardless of activity)"      *)
(* (auth.rs:24): every session ends and leaves the memory.                 *)
SessionsEnd == \A t \in Token : sessions[t] # None ~> sessions[t] = None
=============================================================================
