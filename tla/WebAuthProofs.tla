---------------------------- MODULE WebAuthProofs ----------------------------
(***************************************************************************)
(* Machine-checked proofs about WebAuth for every set of users, passwords, *)
(* addresses, tokens and requests, and every limit.                        *)
(***************************************************************************)
EXTENDS WebAuth, FiniteSetTheorems, TLAPS

Strong == Password \ Weak

(* What a request is about to do, by the field that says where it is.      *)
Waiting == [at : {"idle", "exists"}]
Verifying == [at : {"verify"}, user : User, pass : Password, ip : Ip]
Blaming == [at : {"blame"}, ip : Ip]
Entering == [at : {"greet", "enter"}, user : User, pass : Password, raced : BOOLEAN]
Holding == [at : {"change", "info"}, token : Token]
Changing == [at : {"compare", "update", "retain"}, user : User, new : Strong]
Creating == [at : {"create"}, user : User, pass : Strong]
Doing == Waiting \cup Verifying \cup Blaming \cup Entering \cup Holding
         \cup Changing \cup Creating

TypeInv == TypeOK /\ req \in [Request -> Doing]

LEMMA WhatItDoes ==
    ASSUME NEW q \in Doing
    PROVE  /\ q.at = "verify" => q \in Verifying
           /\ q.at = "blame" => q \in Blaming
           /\ q.at \in {"greet", "enter"} => q \in Entering
           /\ q.at \in {"change", "info"} => q \in Holding
           /\ q.at \in {"compare", "update", "retain"} => q \in Changing
           /\ q.at = "create" => q \in Creating
  BY DEF Doing, Waiting, Verifying, Blaming, Entering, Holding, Changing, Creating

LEMMA IdleIsDoing == Idle \in Doing /\ [at |-> "exists"] \in Doing
  BY DEF Idle, Doing, Waiting

LEMMA InitType == Init => TypeInv
<1> SUFFICES ASSUME Init PROVE TypeInv
  OBVIOUS
<1>1. TypeOK
  BY WebAssumption DEF Init, TypeOK, Nothing
<1>2. req \in [Request -> Doing]
  BY IdleIsDoing DEF Init
<1> QED BY <1>1, <1>2 DEF TypeInv

(* Whatever validate_session does, a session that stays is the same one.   *)
Same(s, t) ==
    /\ s.user = t.user /\ s.pass = t.pass /\ s.raced = t.raced

LEMMA ValidateFacts ==
    ASSUME TypeInv, NEW t \in Token, ValidateSession(t)
    PROVE  /\ sessions' \in [Token -> Session \cup {None}]
           /\ \A s \in Token : sessions'[s] # None =>
                 sessions[s] # None /\ Same(sessions'[s], sessions[s])
<1>1. CASE sessions[t] = None
  BY <1>1 DEF ValidateSession, TypeInv, TypeOK, Same
<1>2. CASE sessions[t] # None
  <2>1. sessions[t] \in Session
    BY <1>2 DEF TypeInv, TypeOK
  <2>2. [sessions[t] EXCEPT !.idle = 0] \in Session
        /\ Same([sessions[t] EXCEPT !.idle = 0], sessions[t])
    BY <2>1, WebAssumption DEF Session, Same
  <2>3. sessions' = [sessions EXCEPT ![t] =
                       IF Live(sessions[t]) THEN [sessions[t] EXCEPT !.idle = 0] ELSE None]
    BY <1>2 DEF ValidateSession
  <2> QED BY <1>2, <2>2, <2>3 DEF TypeInv, TypeOK, Same
<1> QED BY <1>1, <1>2

LEMMA OlderType ==
    ASSUME NEW n \in Nat, NEW f \in [0..n -> Nat]
    PROVE  Older(f) \in [0..n -> Nat]
  BY DEF Older

LEMMA CountType ==
    ASSUME NEW D, NEW f \in [D -> Nat], NEW d \in D
    PROVE  /\ [f EXCEPT ![d] = @ + 1] \in [D -> Nat]
           /\ [f EXCEPT ![d] = 0] \in [D -> Nat]
  OBVIOUS

(* One step of a request.                                                  *)
LEMMA HandleType ==
    ASSUME TypeInv, NEW r \in Request, Handle(r)
    PROVE  TypeInv'
<1> USE DEF TypeInv
<1>0. req[r] \in Doing
  OBVIOUS
<1>1. ASSUME NEW next \in Doing, Go(r, next)
      PROVE  req' \in [Request -> Doing]
  BY <1>1 DEF Go
<1>2. End(r) => req' \in [Request -> Doing]
  BY <1>1, IdleIsDoing DEF End
<1>3. CASE LoginCount(r)
  <2>1. PICK u \in User, p \in Password, i \in Ip :
          Go(r, [at |-> "verify", user |-> u, pass |-> p, ip |-> i])
    BY <1>3 DEF LoginCount
  <2>2. [at |-> "verify", user |-> u, pass |-> p, ip |-> i] \in Doing
    BY DEF Doing, Verifying
  <2>3. req' \in [Request -> Doing]
    BY <1>1, <2>1, <2>2
  <2>4. misread' \in [Ip -> 0..MaxMisread]
    <3>1. ASSUME NEW j \in Ip, misread[j] < MaxMisread PROVE misread[j] + 1 \in 0..MaxMisread
      BY <3>1, WebAssumption DEF TypeOK
    <3> QED BY <1>3, <3>1 DEF LoginCount, TypeOK
  <2> QED BY <1>3, <2>3, <2>4 DEF LoginCount, TypeOK, store, limits
<1>4. CASE LoginVerify(r)
  <2>1. req[r] \in Verifying
    BY <1>0, <1>4, WhatItDoes DEF LoginVerify
  <2>2. /\ [at |-> "greet", user |-> req[r].user, pass |-> req[r].pass, raced |-> FALSE]
             \in Doing
        /\ [at |-> "blame", ip |-> req[r].ip] \in Doing
    BY <2>1 DEF Verifying, Doing, Entering, Blaming
  <2> QED BY <1>1, <1>4, <2>2 DEF LoginVerify, TypeOK, store, limits
<1>5. CASE LoginFails(r)
  <2>1. req[r] \in Blaming
    BY <1>0, <1>5, WhatItDoes DEF LoginFails
  <2>2. 0 \in 0..AttemptWindow - 1
    BY WebAssumption
  <2> DEFINE old == failures[req[r].ip]
  <2>3. failures' \in [Ip -> [0..AttemptWindow - 1 -> Nat]]
    <3>1. req[r].ip \in Ip /\ old \in [0..AttemptWindow - 1 -> Nat]
      BY <2>1 DEF Blaming, TypeOK
    <3>2. [old EXCEPT ![0] = @ + 1] \in [0..AttemptWindow - 1 -> Nat]
      BY <2>2, <3>1, CountType
    <3>3. \/ failures' = [failures EXCEPT ![req[r].ip] = [old EXCEPT ![0] = @ + 1]]
          \/ failures' = failures
      BY <1>5 DEF LoginFails
    <3> QED BY <3>1, <3>2, <3>3 DEF TypeOK
  <2> QED BY <1>2, <1>5, <2>3 DEF LoginFails, TypeOK, limits
<1>6. CASE LoginGreets(r)
  <2>1. req[r] \in Entering
    BY <1>0, <1>6, WhatItDoes DEF LoginGreets
  <2>2. [req[r] EXCEPT !.at = "enter"] \in Doing
    BY <2>1 DEF Entering, Doing
  <2> QED BY <1>1, <1>6, <2>1, <2>2 DEF LoginGreets, Entering, TypeOK, limits
<1>7. CASE LoginEnters(r)
  <2>1. req[r] \in Entering
    BY <1>0, <1>7, WhatItDoes DEF LoginEnters
  <2>2. [user |-> req[r].user, age |-> 0, idle |-> 0, pass |-> req[r].pass,
         raced |-> req[r].raced] \in Session
    BY <2>1, WebAssumption DEF Entering, Session
  <2>3. sessions' \in [Token -> Session \cup {None}]
    BY <1>7, <2>2 DEF LoginEnters, TypeOK
  <2> QED BY <1>2, <1>7, <2>3 DEF LoginEnters, TypeOK, store, limits
<1>8. CASE AdminInfo(r)
  <2>1. req[r] \in Holding
    BY <1>0, <1>8, WhatItDoes DEF AdminInfo
  <2> QED BY <1>2, <1>8, <2>1, ValidateFacts
          DEF AdminInfo, Holding, TypeOK, store, limits
<1>9. ASSUME NEW t \in Token, RequireAuth(r, t) PROVE TypeInv'
  <2>1. \A handler \in {"change", "info"} : [at |-> handler, token |-> t] \in Doing
    BY DEF Doing, Holding
  <2> QED BY <1>1, <1>9, <2>1, ValidateFacts DEF RequireAuth, TypeOK, store, limits
<1>10. CASE ChangeBegin(r)
  <2>1. req[r] \in Holding
    BY <1>0, <1>10, WhatItDoes DEF ChangeBegin
  <2>2. PICK p \in Password :
          Go(r, IF Accepts(req[r].token) /\ Acceptable(p)
                THEN [at |-> "compare", user |-> sessions[req[r].token].user, new |-> p]
                ELSE Idle)
    BY <1>10 DEF ChangeBegin
  <2>3. ASSUME Accepts(req[r].token), Acceptable(p)
        PROVE  [at |-> "compare", user |-> sessions[req[r].token].user, new |-> p] \in Doing
    BY <2>1, <2>3 DEF Accepts, Acceptable, Holding, TypeOK, Session, Doing, Changing, Strong
  <2>4. req' \in [Request -> Doing]
    BY <1>1, <2>2, <2>3, IdleIsDoing
  <2> QED BY <1>10, <2>1, <2>4, ValidateFacts
          DEF ChangeBegin, Holding, TypeOK, store, limits
<1>11. CASE ChangeCompare(r)
  <2>1. req[r] \in Changing
    BY <1>0, <1>11, WhatItDoes DEF ChangeCompare
  <2>2. [req[r] EXCEPT !.at = "update"] \in Doing
    BY <2>1 DEF Changing, Doing
  <2> QED BY <1>1, <1>11, <2>2, IdleIsDoing DEF ChangeCompare, TypeOK, store, limits
<1>12. CASE ChangeUpdate(r)
  <2>1. req[r] \in Changing
    BY <1>0, <1>12, WhatItDoes DEF ChangeUpdate
  <2>2. [req[r] EXCEPT !.at = "retain"] \in Doing
    BY <2>1 DEF Changing, Doing
  <2>3. admins' \in [User -> (Password \ Weak) \cup {None}]
    BY <1>12, <2>1 DEF ChangeUpdate, Changing, Strong, TypeOK
  <2>4. req' \in [Request -> Doing]
    BY <1>1, <1>2, <1>12, <2>2 DEF ChangeUpdate
  <2> QED BY <1>12, <2>3, <2>4 DEF ChangeUpdate, TypeOK, limits
<1>13. CASE ChangeRetain(r)
  <2>1. \A q \in Doing : q.at \in {"greet", "enter"} => [q EXCEPT !.raced = TRUE] \in Doing
    <3> SUFFICES ASSUME NEW q \in Entering PROVE [q EXCEPT !.raced = TRUE] \in Entering
      BY WhatItDoes DEF Doing
    <3> QED BY DEF Entering
  <2>2. req' \in [Request -> Doing]
    BY <1>13, <2>1, IdleIsDoing DEF ChangeRetain, Marked
  <2> QED BY <1>13, <2>2 DEF ChangeRetain, TypeOK, store, limits
<1>14. CASE SetupBegin(r)
  BY <1>1, <1>14, IdleIsDoing DEF SetupBegin, TypeOK, store, limits
<1>15. CASE SetupExists(r)
  <2>1. \A u \in User, p \in Password :
          Acceptable(p) => [at |-> "create", user |-> u, pass |-> p] \in Doing
    BY DEF Acceptable, Doing, Creating, Strong
  <2> QED BY <1>1, <1>15, <2>1, IdleIsDoing DEF SetupExists, TypeOK, store, limits
<1>16. CASE SetupCreate(r)
  <2>1. req[r] \in Creating
    BY <1>0, <1>16, WhatItDoes DEF SetupCreate
  <2>2. admins' \in [User -> (Password \ Weak) \cup {None}]
    BY <1>16, <2>1 DEF SetupCreate, Creating, Strong, TypeOK
  <2> QED BY <1>2, <1>16, <2>2 DEF SetupCreate, TypeOK, limits
<1> QED BY <1>3, <1>4, <1>5, <1>6, <1>7, <1>8, <1>9, <1>10, <1>11, <1>12, <1>13,
           <1>14, <1>15, <1>16 DEF Handle

LEMMA NextType == TypeInv /\ [Next]_vars => TypeInv'
<1> SUFFICES ASSUME TypeInv, [Next]_vars PROVE TypeInv'
  OBVIOUS
<1> USE DEF TypeInv
<1>1. ASSUME NEW t \in Token, CheckSession(t) \/ Logout(t) PROVE TypeInv'
  BY <1>1, ValidateFacts DEF CheckSession, Logout, TypeOK, store, limits
<1>2. ASSUME NEW i \in Ip, LimiterCheck(i) PROVE TypeInv'
  <2>1. 0 \in 0..RateWindow /\ 0 \in 0..RateWindow - 1 /\ RateWindow \in 0..RateWindow
    BY WebAssumption
  <2>2. limiter' \in [Ip -> [0..RateWindow -> Nat]]
    <3> DEFINE kept == [limiter[i] EXCEPT ![RateWindow] = 0]
    <3>0. kept \in [0..RateWindow -> Nat]
      BY <2>1, CountType DEF TypeOK
    <3>1. [kept EXCEPT ![0] = @ + 1] \in [0..RateWindow -> Nat]
      BY <2>1, <3>0, CountType
    <3>2. limiter' = [limiter EXCEPT ![i] = kept]
          \/ limiter' = [limiter EXCEPT ![i] = [kept EXCEPT ![0] = @ + 1]]
      BY <1>2 DEF LimiterCheck
    <3> QED BY <3>0, <3>1, <3>2 DEF TypeOK
  <2>3. hits' \in [Ip -> [0..RateWindow - 1 -> Nat]]
    <3>1. hits[i] \in [0..RateWindow - 1 -> Nat]
      BY DEF TypeOK
    <3>2. [hits[i] EXCEPT ![0] = @ + 1] \in [0..RateWindow - 1 -> Nat]
      BY <2>1, <3>1, CountType
    <3>3. hits' = hits \/ hits' = [hits EXCEPT ![i] = [hits[i] EXCEPT ![0] = @ + 1]]
      BY <1>2 DEF LimiterCheck
    <3> QED BY <3>2, <3>3 DEF TypeOK
  <2> QED BY <1>2, <2>2, <2>3 DEF LimiterCheck, TypeOK, store
<1>3. CASE CleanSessions
  BY <1>3 DEF CleanSessions, TypeOK, store, limits
<1>4. CASE CleanLimiter
  <2>1. RateWindow \in 0..RateWindow
    BY WebAssumption
  <2> QED BY <1>4, <2>1 DEF CleanLimiter, TypeOK, store
<1>5. CASE Restart
  BY <1>5, IdleIsDoing DEF Restart, TypeOK, store, Nothing
<1>6. CASE Tick
  <2>1. /\ AttemptWindow - 1 \in Nat /\ RateWindow - 1 \in Nat /\ RateWindow \in Nat
        /\ RateWindow \in 0..RateWindow
    BY WebAssumption
  <2>2. failures' \in [Ip -> [0..AttemptWindow - 1 -> Nat]]
    BY <1>6, <2>1, OlderType DEF Tick, TypeOK
  <2>3. hits' \in [Ip -> [0..RateWindow - 1 -> Nat]]
    BY <1>6, <2>1, OlderType DEF Tick, TypeOK
  <2>4. limiter' \in [Ip -> [0..RateWindow -> Nat]]
    <3>1. \A i \in Ip : Older(limiter[i]) \in [0..RateWindow -> Nat]
      BY <2>1, OlderType DEF TypeOK
    <3>2. \A i \in Ip, n \in {0, 1} :
            [Older(limiter[i]) EXCEPT ![RateWindow] = n] \in [0..RateWindow -> Nat]
      BY <2>1, <3>1
    <3> QED BY <1>6, <2>1, <3>2 DEF Tick, TypeOK
  <2>5. sessions' \in [Token -> Session \cup {None}]
    <3>1. \A s \in Session :
            [s EXCEPT !.age = Min({@ + 1, AbsoluteTtl}), !.idle = Min({@ + 1, IdleTtl})]
              \in Session
      <4>1. ASSUME NEW m \in Nat, NEW n \in 0..m PROVE Min({n + 1, m}) \in 0..m
        <5>1. \E x \in {n + 1, m} : \A y \in {n + 1, m} : x <= y
          <6>1. n + 1 <= m \/ m <= n + 1
            OBVIOUS
          <6> QED BY <6>1
        <5>2. /\ Min({n + 1, m}) \in {n + 1, m}
              /\ \A y \in {n + 1, m} : Min({n + 1, m}) <= y
          BY <5>1 DEF Min
        <5> QED BY <5>2
      <4> SUFFICES ASSUME NEW s \in Session
                   PROVE  [s EXCEPT !.age = Min({@ + 1, AbsoluteTtl}),
                                    !.idle = Min({@ + 1, IdleTtl})] \in Session
        OBVIOUS
      <4>2. s.age \in 0..AbsoluteTtl /\ s.idle \in 0..IdleTtl
        BY DEF Session
      <4>3. AbsoluteTtl \in Nat /\ IdleTtl \in Nat
        BY WebAssumption
      <4>4. /\ Min({s.age + 1, AbsoluteTtl}) \in 0..AbsoluteTtl
            /\ Min({s.idle + 1, IdleTtl}) \in 0..IdleTtl
        BY <4>1, <4>2, <4>3
      <4> QED BY <4>4 DEF Session
    <3> QED BY <1>6, <3>1 DEF Tick, TypeOK
  <2> QED BY <1>6, <2>2, <2>3, <2>4, <2>5 DEF Tick, TypeOK
<1>7. CASE UNCHANGED vars
  BY <1>7 DEF vars, TypeOK, store, limits
<1> QED BY <1>1, <1>2, <1>3, <1>4, <1>5, <1>6, <1>7, HandleType DEF Next

LEMMA TypeInvariant == Spec => []TypeInv
  BY InitType, NextType, PTL DEF Spec

(* AuthDb, the sessions and the limiter are well typed in every reachable  *)
(* state; no weak password is ever stored.                                 *)
THEOREM TypeCorrect == Spec => []TypeOK
  BY TypeInvariant, PTL DEF TypeInv

-----------------------------------------------------------------------------
(* An account is never replaced: only a change_password of its own user    *)
(* changes its password (auth.rs:302).                                     *)
LEMMA KeptStep ==
    ASSUME TypeInv, [Next]_vars, NEW u \in User, admins[u] # None, admins'[u] # admins[u]
    PROVE  \E r \in Request : /\ req[r].at = "update" /\ req[r].user = u
                              /\ admins'[u] = req[r].new
<1> USE DEF TypeInv
<1>1. ASSUME NEW r \in Request, Handle(r)
      PROVE  /\ req[r].at = "update" /\ req[r].user = u
             /\ admins'[u] = req[r].new
  <2>1. CASE ChangeUpdate(r)
    BY <2>1 DEF ChangeUpdate, TypeOK
  <2>2. CASE SetupCreate(r)
    BY <2>2 DEF SetupCreate, TypeOK
  <2>3. CASE admins' = admins
    BY <2>3
  <2>4. ChangeUpdate(r) \/ SetupCreate(r) \/ admins' = admins
    BY <1>1 DEF Handle, LoginCount, LoginVerify, LoginFails, LoginGreets, LoginEnters,
       AdminInfo, RequireAuth, ChangeBegin, ChangeCompare, ChangeRetain, SetupBegin,
       SetupExists, store
  <2> QED BY <2>1, <2>2, <2>3, <2>4
<1>2. CASE ~\E r \in Request : Handle(r)
  BY <1>2 DEF Next, CheckSession, Logout, LimiterCheck, CleanSessions, CleanLimiter,
     Restart, Tick, vars, store
<1> QED BY <1>1, <1>2

THEOREM AccountsAreKept == Spec => AccountsKept
<1>1. TypeInv /\ [Next]_vars =>
        [\A u \in User : admins[u] # None /\ admins'[u] # admins[u] =>
            \E r \in Request : /\ req[r].at = "update" /\ req[r].user = u
                               /\ admins'[u] = req[r].new]_vars
  BY KeptStep
<1> QED BY <1>1, TypeInvariant, PTL DEF Spec, AccountsKept

-----------------------------------------------------------------------------
(* What was opened with another password than the present one, or is about *)
(* to be, was past its comparison when a change of the password closed the *)
(* user's sessions, or such a change has yet to close them.                *)
Closing(u) == \E r \in Request : req[r].at = "retain" /\ req[r].user = u
Logging(q) == q.at \in {"greet", "enter"}
Covered(s) == s.pass = admins[s.user] \/ s.raced \/ Closing(s.user)
SessionsCovered == \A t \in Token : sessions[t] # None => Covered(sessions[t])
LoginsCovered == \A q \in Request : Logging(req[q]) => Covered(req[q])
FollowInv == TypeInv /\ SessionsCovered /\ LoginsCovered

(* Nothing is uncovered by a step that changes no password, opens nothing  *)
(* and lets every change of a password be.                                 *)
LEMMA StaysCovered ==
    ASSUME FollowInv, admins' = admins,
           \A t \in Token : sessions'[t] # None =>
               sessions[t] # None /\ Same(sessions'[t], sessions[t]),
           \A q \in Request : Logging(req'[q]) =>
               Logging(req[q]) /\ Same(req'[q], req[q]),
           \A r \in Request : req[r].at = "retain" => req'[r] = req[r]
    PROVE  SessionsCovered' /\ LoginsCovered'
<1>1. \A u : Closing(u) => Closing(u)'
  BY DEF Closing
<1> QED BY <1>1 DEF FollowInv, SessionsCovered, LoginsCovered, Covered, Logging, Same

LEMMA InitFollow == Init => FollowInv
<1>1. Init => SessionsCovered /\ LoginsCovered
  BY DEF Init, SessionsCovered, LoginsCovered, Logging, Idle
<1> QED BY <1>1, InitType DEF FollowInv

LEMMA HandleFollow ==
    ASSUME FollowInv, NEW r \in Request, Handle(r)
    PROVE  SessionsCovered' /\ LoginsCovered'
<1>0. TypeInv /\ req \in [Request -> Doing] /\ req[r] \in Doing
      /\ sessions \in [Token -> Session \cup {None}]
  BY DEF FollowInv, TypeInv, TypeOK
<1>1. CASE LoginVerify(r)
  <2>1. req[r] \in Verifying
    BY <1>0, <1>1, WhatItDoes DEF LoginVerify
  <2>2. \A q \in Request : q # r => req'[q] = req[q]
    BY <1>0, <1>1 DEF LoginVerify, Go
  <2>3. Logging(req'[r]) => req'[r].pass = admins'[req'[r].user]
    BY <1>0, <1>1, <2>1 DEF LoginVerify, Go, Logging, store
  <2>4. \A u : Closing(u) => Closing(u)'
    BY <1>1, <2>2 DEF Closing, LoginVerify
  <2>5. sessions' = sessions /\ admins' = admins
    BY <1>1 DEF LoginVerify, store
  <2> QED BY <2>2, <2>3, <2>4, <2>5
          DEF FollowInv, SessionsCovered, LoginsCovered, Covered, Logging
<1>2. CASE LoginEnters(r)
  <2>1. Logging(req[r]) /\ Covered(req[r])
    BY <1>2 DEF LoginEnters, Logging, FollowInv, LoginsCovered
  <2>2. \A q \in Request : q # r => req'[q] = req[q]
    BY <1>0, <1>2 DEF LoginEnters, Go, End
  <2>3. req'[r] = Idle
    BY <1>0, <1>2 DEF LoginEnters, Go, End
  <2>4. \A u : Closing(u) => Closing(u)'
    BY <1>2, <2>2 DEF Closing, LoginEnters
  <2>5. PICK t \in Token :
          sessions' = [sessions EXCEPT ![t] =
                          [user |-> req[r].user, age |-> 0, idle |-> 0,
                           pass |-> req[r].pass, raced |-> req[r].raced]]
    BY <1>2 DEF LoginEnters
  <2>6. admins' = admins
    BY <1>2 DEF LoginEnters, store
  <2>7. Covered(sessions[t])' /\ \A s \in Token : s # t => sessions'[s] = sessions[s]
    BY <1>0, <2>1, <2>4, <2>5, <2>6 DEF Covered
  <2>8. SessionsCovered'
    BY <2>4, <2>6, <2>7 DEF FollowInv, SessionsCovered, Covered
  <2>9. LoginsCovered'
    BY <2>2, <2>3, <2>4, <2>6 DEF FollowInv, LoginsCovered, Covered, Logging, Idle
  <2> QED BY <2>8, <2>9
<1>3. ASSUME ChangeUpdate(r), admins' = [admins EXCEPT ![req[r].user] = req[r].new],
             Go(r, [req[r] EXCEPT !.at = "retain"])
      PROVE  SessionsCovered' /\ LoginsCovered'
  <2>1. req[r] \in Changing
    BY <1>0, <1>3, WhatItDoes DEF ChangeUpdate
  <2>2. \A q \in Request : q # r => req'[q] = req[q]
    BY <1>0, <1>3 DEF ChangeUpdate, Go
  <2>3. req'[r].at = "retain" /\ req'[r].user = req[r].user
    BY <1>0, <1>3, <2>1 DEF ChangeUpdate, Go, Changing
  <2>4. \A u : Closing(u) => Closing(u)'
    BY <1>3, <2>2 DEF Closing, ChangeUpdate
  <2>5. Closing(req[r].user)'
    BY <2>3 DEF Closing
  <2>6. sessions' = sessions /\ \A u \in User : u # req[r].user => admins'[u] = admins[u]
    BY <1>3, <1>0 DEF ChangeUpdate, TypeInv, TypeOK
  <2>7. SessionsCovered'
    <3> SUFFICES ASSUME NEW t \in Token, sessions[t] # None PROVE Covered(sessions[t])'
      BY <2>6 DEF SessionsCovered
    <3>1. sessions[t].user \in User /\ Covered(sessions[t])
      BY <1>0 DEF Session, FollowInv, SessionsCovered
    <3>2. CASE sessions[t].user = req[r].user
      BY <2>3, <2>5, <2>6, <3>2 DEF Covered, Closing
    <3>3. CASE sessions[t].user # req[r].user
      BY <2>4, <2>6, <3>1, <3>3 DEF Covered
    <3> QED BY <3>2, <3>3
  <2>8. LoginsCovered'
    <3> SUFFICES ASSUME NEW q \in Request, Logging(req'[q]) PROVE Covered(req[q])'
      BY DEF LoginsCovered
    <3>1. q # r /\ req'[q] = req[q]
      BY <2>2, <2>3 DEF Logging
    <3>2. req[q] \in Entering
      BY <1>0, <3>1, WhatItDoes DEF Logging
    <3>3. req[q].user \in User /\ Covered(req[q])
      BY <3>1, <3>2 DEF Entering, FollowInv, LoginsCovered
    <3>4. CASE req[q].user = req[r].user
      BY <2>3, <2>5, <3>1, <3>4 DEF Covered, Closing
    <3>5. CASE req[q].user # req[r].user
      BY <2>4, <2>6, <3>1, <3>3, <3>5 DEF Covered
    <3> QED BY <3>4, <3>5
  <2> QED BY <2>7, <2>8
<1>4. CASE ChangeRetain(r)
  <2> DEFINE u == req[r].user
  <2>1. admins' = admins
    BY <1>4 DEF ChangeRetain, store
  <2>2. \A v : v # u /\ Closing(v) => Closing(v)'
    <3> SUFFICES ASSUME NEW v, v # u, NEW q \in Request, req[q].at = "retain", req[q].user = v
                 PROVE  Closing(v)'
      BY DEF Closing
    <3>1. q # r
      OBVIOUS
    <3>2. req'[q] = req[q]
      BY <1>0, <1>4, <3>1 DEF ChangeRetain, Marked
    <3> QED BY <3>2 DEF Closing
  <2>3. \A t \in Token : sessions'[t] # None =>
            sessions'[t] = sessions[t] /\ sessions[t].user # u
    BY <1>4 DEF ChangeRetain
  <2>4. SessionsCovered'
    <3> SUFFICES ASSUME NEW t \in Token, sessions'[t] # None PROVE Covered(sessions[t])'
      BY DEF SessionsCovered
    <3>1. sessions'[t] = sessions[t] /\ sessions[t].user # u /\ Covered(sessions[t])
      BY <2>3 DEF FollowInv, SessionsCovered
    <3> QED BY <2>1, <2>2, <3>1 DEF Covered
  <2>5. LoginsCovered'
    <3> SUFFICES ASSUME NEW q \in Request, Logging(req'[q]) PROVE Covered(req[q])'
      BY DEF LoginsCovered
    <3>1. q # r
      BY <1>0, <1>4 DEF ChangeRetain, Marked, Logging, Idle
    <3>2. req'[q] = IF Logging(req[q]) /\ req[q].user = u
                    THEN [req[q] EXCEPT !.raced = TRUE] ELSE req[q]
      BY <1>0, <1>4, <3>1 DEF ChangeRetain, Marked, Logging
    <3>3. CASE Logging(req[q]) /\ req[q].user = u
      <4>1. req[q] \in Entering
        BY <1>0, <3>3, WhatItDoes DEF Logging
      <4> QED BY <3>2, <3>3, <4>1 DEF Covered, Entering
    <3>4. CASE ~(Logging(req[q]) /\ req[q].user = u)
      BY <2>1, <2>2, <3>2, <3>4 DEF FollowInv, LoginsCovered, Covered
    <3> QED BY <3>3, <3>4
  <2> QED BY <2>4, <2>5
<1>5. CASE SetupCreate(r)
  <2>1. req[r] \in Creating
    BY <1>0, <1>5, WhatItDoes DEF SetupCreate
  <2>2. \A q \in Request : q # r => req'[q] = req[q]
    BY <1>0, <1>5 DEF SetupCreate, Go, End
  <2>3. req'[r] = Idle
    BY <1>0, <1>5 DEF SetupCreate, Go, End
  <2>4. \A u : Closing(u) => Closing(u)'
    BY <1>5, <2>2 DEF Closing, SetupCreate
  <2>5. \A u \in User : admins[u] # None => admins'[u] = admins[u]
    BY <1>0, <1>5 DEF SetupCreate, TypeInv, TypeOK
  <2>6. sessions' = sessions
    BY <1>5 DEF SetupCreate
  <2>7. SessionsCovered'
    <3> SUFFICES ASSUME NEW t \in Token, sessions[t] # None PROVE Covered(sessions[t])'
      BY <2>6 DEF SessionsCovered
    <3>1. sessions[t].user \in User /\ sessions[t].pass # None
      BY <1>0, WebAssumption DEF Session
    <3> QED BY <2>4, <2>5, <2>6, <3>1 DEF FollowInv, SessionsCovered, Covered
  <2>8. LoginsCovered'
    <3> SUFFICES ASSUME NEW q \in Request, Logging(req'[q]) PROVE Covered(req[q])'
      BY DEF LoginsCovered
    <3>1. q # r /\ req'[q] = req[q]
      BY <2>2, <2>3 DEF Logging, Idle
    <3>2. req[q].user \in User /\ req[q].pass # None
      BY <1>0, <3>1, WhatItDoes, WebAssumption DEF Logging, Entering
    <3> QED BY <2>4, <2>5, <3>1, <3>2 DEF FollowInv, LoginsCovered, Covered
  <2> QED BY <2>7, <2>8
<1>6. CASE LoginCount(r) \/ LoginFails(r) \/ LoginGreets(r)
  <2>1. admins' = admins /\ sessions' = sessions
    BY <1>6 DEF LoginCount, LoginFails, LoginGreets, store
  <2>2. \A q \in Request : q # r => req'[q] = req[q]
    BY <1>0, <1>6 DEF LoginCount, LoginFails, LoginGreets, Go, End
  <2>3. req[r].at # "retain"
    BY <1>6 DEF LoginCount, LoginFails, LoginGreets, Idle
  <2>4. Logging(req'[r]) => Logging(req[r]) /\ Same(req'[r], req[r])
    <3>1. CASE LoginGreets(r)
      <4>1. req[r] \in Entering
        BY <1>0, <3>1, WhatItDoes DEF LoginGreets
      <4>2. req'[r] = [req[r] EXCEPT !.at = "enter"]
        BY <1>0, <3>1 DEF LoginGreets, Go
      <4> QED BY <3>1, <4>1, <4>2 DEF LoginGreets, Entering, Logging, Same
    <3>2. CASE LoginCount(r) \/ LoginFails(r)
      BY <1>0, <3>2 DEF LoginCount, LoginFails, Go, End, Idle, Logging
    <3> QED BY <1>6, <3>1, <3>2
  <2> QED BY <2>1, <2>2, <2>3, <2>4, StaysCovered DEF Same
<1>7. ASSUME NEW t \in Token, RequireAuth(r, t) PROVE SessionsCovered' /\ LoginsCovered'
  <2>1. admins' = admins /\ ValidateSession(t)
    BY <1>7 DEF RequireAuth, store
  <2>2. \A q \in Request : q # r => req'[q] = req[q]
    BY <1>0, <1>7 DEF RequireAuth, Go
  <2>3. req[r].at # "retain" /\ ~Logging(req'[r])
    BY <1>0, <1>7 DEF RequireAuth, Go, Logging, Idle
  <2> QED BY <1>0, <2>1, <2>2, <2>3, ValidateFacts, StaysCovered DEF Same
<1>8. CASE AdminInfo(r) \/ ChangeBegin(r)
  <2>1. admins' = admins /\ ValidateSession(req[r].token) /\ req[r].token \in Token
    BY <1>0, <1>8, WhatItDoes DEF AdminInfo, ChangeBegin, store, Holding
  <2>2. \A q \in Request : q # r => req'[q] = req[q]
    BY <1>0, <1>8 DEF AdminInfo, ChangeBegin, Go, End
  <2>3. req[r].at # "retain" /\ ~Logging(req'[r])
    BY <1>0, <1>8 DEF AdminInfo, ChangeBegin, Go, End, Logging, Idle
  <2> QED BY <1>0, <2>1, <2>2, <2>3, ValidateFacts, StaysCovered DEF Same
<1>9. CASE ChangeCompare(r) \/ SetupBegin(r) \/ SetupExists(r)
  <2>1. admins' = admins /\ sessions' = sessions
    BY <1>9 DEF ChangeCompare, SetupBegin, SetupExists, store
  <2>2. \A q \in Request : q # r => req'[q] = req[q]
    BY <1>0, <1>9 DEF ChangeCompare, SetupBegin, SetupExists, Go
  <2>3. req[r].at # "retain" /\ ~Logging(req'[r])
    <3>1. CASE ChangeCompare(r)
      <4>1. req[r] \in Changing
        BY <1>0, <3>1, WhatItDoes DEF ChangeCompare
      <4> QED BY <1>0, <3>1, <4>1 DEF ChangeCompare, Changing, Go, Logging, Idle
    <3>2. CASE SetupBegin(r) \/ SetupExists(r)
      BY <1>0, <3>2 DEF SetupBegin, SetupExists, Go, Logging, Idle
    <3> QED BY <1>9, <3>1, <3>2
  <2> QED BY <2>1, <2>2, <2>3, StaysCovered DEF Same
<1>10. ASSUME ChangeUpdate(r), admins' = admins, End(r) PROVE SessionsCovered' /\ LoginsCovered'
  <2>1. sessions' = sessions /\ req[r].at # "retain"
    BY <1>10 DEF ChangeUpdate
  <2>2. \A q \in Request : q # r => req'[q] = req[q]
    BY <1>0, <1>10 DEF Go, End
  <2>3. ~Logging(req'[r])
    BY <1>0, <1>10 DEF Go, End, Logging, Idle
  <2> QED BY <1>10, <2>1, <2>2, <2>3, StaysCovered DEF Same
<1>11. CASE ChangeUpdate(r)
  BY <1>3, <1>10, <1>11 DEF ChangeUpdate
<1> QED BY <1>1, <1>2, <1>4, <1>5, <1>6, <1>7, <1>8, <1>9, <1>11 DEF Handle

LEMMA NextFollow == FollowInv /\ [Next]_vars => FollowInv'
<1> SUFFICES ASSUME FollowInv, [Next]_vars PROVE SessionsCovered' /\ LoginsCovered'
  BY NextType DEF FollowInv
<1>0. TypeInv /\ sessions \in [Token -> Session \cup {None}]
  BY DEF FollowInv, TypeInv, TypeOK
<1>1. ASSUME NEW t \in Token, CheckSession(t) \/ Logout(t)
      PROVE  SessionsCovered' /\ LoginsCovered'
  <2>1. \A s \in Token : sessions'[s] # None =>
            sessions[s] # None /\ Same(sessions'[s], sessions[s])
    BY <1>0, <1>1, ValidateFacts DEF CheckSession, Logout, Same
  <2> QED BY <1>1, <2>1, StaysCovered DEF CheckSession, Logout, store, Same
<1>2. CASE Restart
  BY <1>2 DEF Restart, SessionsCovered, LoginsCovered, Logging, Idle
<1>3. CASE Tick
  <2>1. \A s \in Token : sessions'[s] # None =>
            sessions[s] # None /\ Same(sessions'[s], sessions[s])
    BY <1>0, <1>3 DEF Tick, Same, Session
  <2> QED BY <1>3, <2>1, StaysCovered DEF Tick, Same
<1>4. CASE CleanSessions
  <2>1. \A s \in Token : sessions'[s] # None =>
            sessions[s] # None /\ Same(sessions'[s], sessions[s])
    BY <1>4 DEF CleanSessions, Same
  <2> QED BY <1>4, <2>1, StaysCovered DEF CleanSessions, store, Same
<1>5. CASE (\E i \in Ip : LimiterCheck(i)) \/ CleanLimiter \/ UNCHANGED vars
  <2>1. UNCHANGED <<admins, sessions, req>>
    BY <1>5 DEF LimiterCheck, CleanLimiter, vars, store
  <2> QED BY <2>1, StaysCovered DEF Same
<1> QED BY <1>1, <1>2, <1>3, <1>4, <1>5, HandleFollow DEF Next

(* "Password change invalidates all sessions" (handlers.rs:236): all but   *)
(* those of logins that were past the comparison at that moment.           *)
THEOREM SessionsFollow == Spec => []SessionsFollowPassword
<1>1. FollowInv => SessionsFollowPassword
  BY DEF FollowInv, SessionsCovered, Covered, Closing, SessionsFollowPassword
<1> QED BY <1>1, InitFollow, NextFollow, PTL DEF Spec

-----------------------------------------------------------------------------
(* Counting by age.  A count over ages 0..n stands for a finite set.       *)
LEMMA EventsFinite ==
    ASSUME NEW n \in Nat, NEW f \in [0..n -> Nat]
    PROVE  IsFiniteSet(Events(f)) /\ Total(f) \in Nat
<1> DEFINE G == [a \in 0..n |-> {a} \X (1..f[a])]
           T == {G[a] : a \in 0..n}
<1>1. ASSUME NEW a \in 0..n PROVE IsFiniteSet(G[a])
  <2>1. IsFiniteSet({a}) BY FS_Singleton
  <2>2. IsFiniteSet(1..f[a]) BY FS_Interval
  <2> QED BY <2>1, <2>2, FS_Product
<1>2. IsFiniteSet(0..n)
  BY FS_Interval
<1>3. G \in Surjection(0..n, T)
  BY DEF Surjection
<1>4. IsFiniteSet(T)
  BY <1>2, <1>3, FS_Surjection
<1>5. IsFiniteSet(UNION T)
  BY <1>1, <1>4, FS_UNION
<1>6. UNION T = Events(f)
  BY DEF Events
<1> QED BY <1>5, <1>6, FS_CardinalityType DEF Total

LEMMA EventFacts ==
    ASSUME NEW n \in Nat, NEW f \in [0..n -> Nat]
    PROVE  \A e : e \in Events(f) <=>
                \E a \in 0..n : \E k \in 1..f[a] : e = <<a, k>>
  BY DEF Events

(* One more event adds one.                                                *)
LEMMA TotalAdds ==
    ASSUME NEW n \in Nat, NEW f \in [0..n -> Nat], NEW a \in 0..n
    PROVE  Total([f EXCEPT ![a] = @ + 1]) = Total(f) + 1
<1> DEFINE g == [f EXCEPT ![a] = @ + 1]
<1>0. /\ g \in [0..n -> Nat] /\ g[a] = f[a] + 1
      /\ \A b \in 0..n : b # a => g[b] = f[b]
  BY CountType
<1>a. g = [f EXCEPT ![a] = @ + 1]
  OBVIOUS
<1> HIDE DEF g
<1>b. /\ \A e : e \in Events(f) <=> \E b \in 0..n : \E k \in 1..f[b] : e = <<b, k>>
      /\ \A e : e \in Events(g) <=> \E b \in 0..n : \E k \in 1..g[b] : e = <<b, k>>
  <2>1. g \in [0..n -> Nat]
    BY <1>0
  <2> QED BY <2>1, EventFacts
<1>1. Events(g) = Events(f) \cup {<<a, f[a] + 1>>}
  <2>1. ASSUME NEW e, e \in Events(g) PROVE e \in Events(f) \cup {<<a, f[a] + 1>>}
    <3>1. PICK b \in 0..n : \E k \in 1..g[b] : e = <<b, k>>
      BY <2>1, <1>b
    <3>2. PICK k \in 1..g[b] : e = <<b, k>>
      BY <3>1
    <3>3. k \in 1..f[b] \/ (b = a /\ k = f[a] + 1)
      BY <1>0
    <3> QED BY <3>2, <3>3, <1>b
  <2>2. ASSUME NEW e, e \in Events(f) PROVE e \in Events(g)
    <3>1. PICK b \in 0..n : \E k \in 1..f[b] : e = <<b, k>>
      BY <2>2, <1>b
    <3>2. PICK k \in 1..f[b] : e = <<b, k>>
      BY <3>1
    <3>3. k \in 1..g[b]
      BY <1>0
    <3> QED BY <1>0, <3>2, <3>3, <1>b
  <2>3. <<a, f[a] + 1>> \in Events(g)
    <3>1. f[a] + 1 \in 1..g[a]
      BY <1>0
    <3> QED BY <1>0, <3>1, <1>b
  <2> QED BY <2>1, <2>2, <2>3
<1>2. <<a, f[a] + 1>> \notin Events(f)
  <2> SUFFICES ASSUME <<a, f[a] + 1>> \in Events(f) PROVE FALSE
    OBVIOUS
  <2>1. \E b \in 0..n : \E k \in 1..f[b] : <<a, f[a] + 1>> = <<b, k>>
    BY <1>b
  <2>2. \E k \in 1..f[a] : k = f[a] + 1
    BY <2>1
  <2> QED BY <2>2
<1> QED BY <1>a, <1>1, <1>2, EventsFinite, FS_AddElement DEF Total

(* Time passing drops the oldest events and adds none.                     *)
LEMMA TotalAges ==
    ASSUME NEW n \in Nat, NEW f \in [0..n -> Nat]
    PROVE  Total(Older(f)) <= Total(f)
<1>0. Older(f) \in [0..n -> Nat]
  BY OlderType
<1> DEFINE g == [e \in Events(Older(f)) |-> <<e[1] - 1, e[2]>>]
<1>1. ASSUME NEW e \in Events(Older(f))
      PROVE  /\ e = <<e[1], e[2]>> /\ e[1] \in 1..n
             /\ <<e[1] - 1, e[2]>> \in Events(f)
  <2>1. PICK b \in 0..n : \E k \in 1..Older(f)[b] : e = <<b, k>>
    BY <1>0, EventFacts
  <2>2. PICK k \in 1..Older(f)[b] : e = <<b, k>>
    BY <2>1
  <2>3. b # 0
    BY DEF Older
  <2>4. b - 1 \in 0..n /\ k \in 1..f[b - 1]
    BY <2>3 DEF Older
  <2>5. <<b - 1, k>> \in Events(f)
    BY <2>4, EventFacts
  <2> QED BY <2>2, <2>3, <2>5
<1>2. g \in Injection(Events(Older(f)), Events(f))
  <2>1. g \in [Events(Older(f)) -> Events(f)]
    BY <1>1
  <2>2. ASSUME NEW d \in Events(Older(f)), NEW e \in Events(Older(f)), g[d] = g[e]
        PROVE  d = e
    <3>1. d[1] - 1 = e[1] - 1 /\ d[2] = e[2]
      BY <2>2
    <3>2. d[1] \in 1..n /\ d = <<d[1], d[2]>>
      BY <1>1
    <3>3. e[1] \in 1..n /\ e = <<e[1], e[2]>>
      BY <1>1
    <3>4. d[1] = e[1]
      BY <3>1, <3>2, <3>3
    <3> QED BY <3>1, <3>2, <3>3, <3>4
  <2> QED BY <2>1, <2>2 DEF Injection, IsInjective
<1>3. IsFiniteSet(Events(f))
  BY EventsFinite
<1>4. Cardinality(Events(Older(f))) <= Cardinality(Events(f))
  BY <1>2, <1>3, FS_Injection
<1> QED BY <1>4 DEF Total

LEMMA TotalOfNothing ==
    ASSUME NEW n \in Nat
    PROVE  Total(Nothing(0..n)) = 0
<1>1. Events(Nothing(0..n)) = {}
  BY DEF Events, Nothing
<1> QED BY <1>1, FS_EmptySet DEF Total

-----------------------------------------------------------------------------
(* The attempts of an address that were let pass and have no verdict yet.  *)
Trying(q, i) == q.at \in {"verify", "blame"} /\ q.ip = i
Attempts(i) == {r \in Request : Trying(req[r], i)}
Lockout(i) == MaxAttempts - 1 + Cardinality(Request) + misread[i]
FailInv == TypeInv /\ FailuresBounded

LEMMA AttemptsCounted ==
    ASSUME NEW i
    PROVE  /\ IsFiniteSet(Attempts(i)) /\ Cardinality(Attempts(i)) \in Nat
           /\ Cardinality(Attempts(i)) <= Cardinality(Request)
           /\ Cardinality(Request) \in Nat
<1>1. IsFiniteSet(Request)
  BY WebAssumption
<1>2. Attempts(i) \subseteq Request
  BY DEF Attempts
<1> QED BY <1>1, <1>2, FS_Subset, FS_CardinalityType

LEMMA FailuresCounted ==
    ASSUME TypeInv, NEW i \in Ip
    PROVE  /\ Failures(i) \in Nat /\ failures[i] \in [0..AttemptWindow - 1 -> Nat]
           /\ AttemptWindow - 1 \in Nat /\ MaxAttempts \in Nat /\ misread[i] \in Nat
<1>1. AttemptWindow - 1 \in Nat /\ MaxAttempts \in Nat
  BY WebAssumption
<1>2. failures[i] \in [0..AttemptWindow - 1 -> Nat]
  BY DEF TypeInv, TypeOK
<1>3. misread[i] \in Nat
  BY WebAssumption DEF TypeInv, TypeOK
<1> QED BY <1>1, <1>2, <1>3, EventsFinite DEF Failures

LEMMA InBounds ==
    FailuresBounded <=> \A i \in Ip : Failures(i) + Cardinality(Attempts(i)) <= Lockout(i)
  BY DEF FailuresBounded, Attempts, Trying, Lockout

(* A step that records no failure and lets no attempt pass.                *)
LEMMA NoMoreAttempts ==
    ASSUME FailInv, TypeInv', misread' = misread, \A i \in Ip : Failures(i)' <= Failures(i),
           \A q \in Request, i \in Ip : Trying(req'[q], i) => Trying(req[q], i)
    PROVE  FailuresBounded'
<1> SUFFICES ASSUME NEW i \in Ip
             PROVE  Failures(i)' + Cardinality(Attempts(i)') <= Lockout(i)
  BY InBounds DEF FailuresBounded, Attempts, Trying, Lockout
<1>1. Attempts(i)' \subseteq Attempts(i)
  BY DEF Attempts
<1>2. Cardinality(Attempts(i)') <= Cardinality(Attempts(i)) /\ Cardinality(Attempts(i)') \in Nat
  BY <1>1, AttemptsCounted, FS_Subset, FS_CardinalityType
<1>3. Failures(i) + Cardinality(Attempts(i)) <= Lockout(i)
  BY InBounds DEF FailInv
<1>4. Failures(i) \in Nat /\ Failures(i)' \in Nat
  <2>1. failures'[i] \in [0..AttemptWindow - 1 -> Nat] /\ AttemptWindow - 1 \in Nat
    BY FailuresCounted DEF FailInv, TypeInv, TypeOK
  <2>2. Total(failures'[i]) \in Nat
    BY <2>1, EventsFinite
  <2> QED BY <2>2, FailuresCounted DEF FailInv, Failures
<1>5. Lockout(i) \in Int
  <2>1. MaxAttempts \in Nat /\ misread[i] \in Nat /\ Cardinality(Request) \in Nat
    BY AttemptsCounted, FailuresCounted DEF FailInv
  <2> QED BY <2>1 DEF Lockout
<1>6. Cardinality(Attempts(i)) \in Nat
  BY AttemptsCounted
<1>7. Failures(i)' <= Failures(i)
  OBVIOUS
<1> DEFINE F == Failures(i)  F1 == Failures(i)'
           A == Cardinality(Attempts(i))  A1 == Cardinality(Attempts(i)')
<1>8. F \in Nat /\ F1 \in Nat /\ A \in Nat /\ A1 \in Nat
  BY <1>2, <1>4, <1>6
<1>9. F + A <= Lockout(i) /\ F1 <= F /\ A1 <= A
  BY <1>2, <1>3, <1>7
<1>10. F1 + A1 <= Lockout(i)
  <2> HIDE DEF F, F1, A, A1
  <2> QED BY <1>5, <1>8, <1>9
<1> QED BY <1>10

(* A request is let pass, or the failure of one is recorded.               *)
LEMMA AttemptSteps ==
    ASSUME FailInv, NEW r \in Request, LoginCount(r) \/ LoginFails(r)
    PROVE  FailuresBounded'
<1> SUFFICES ASSUME NEW i \in Ip
             PROVE  Failures(i)' + Cardinality(Attempts(i)') <= Lockout(i)'
  BY DEF FailuresBounded, Attempts, Trying, Lockout
<1> USE DEF FailInv, TypeInv
<1>0. /\ Failures(i) \in Nat /\ IsFiniteSet(Attempts(i)) /\ Cardinality(Attempts(i)) \in Nat
      /\ Cardinality(Attempts(i)) <= Cardinality(Request) /\ Cardinality(Request) \in Nat
      /\ MaxAttempts \in Nat /\ misread[i] \in Nat
      /\ Failures(i) + Cardinality(Attempts(i)) <= Lockout(i)
  BY InBounds, FailuresCounted, AttemptsCounted
<1>1. CASE LoginCount(r)
  <2>1. PICK u \in User, p \in Password, j \in Ip :
          /\ \/ Failures(j) < MaxAttempts /\ misread' = misread
             \/ misread[j] < MaxMisread /\ misread' = [misread EXCEPT ![j] = @ + 1]
          /\ Go(r, [at |-> "verify", user |-> u, pass |-> p, ip |-> j])
    BY <1>1 DEF LoginCount
  <2>2. failures' = failures /\ Failures(i)' = Failures(i)
    BY <1>1 DEF LoginCount, Failures
  <2>3. /\ \A q \in Request : q # r => req'[q] = req[q]
        /\ req'[r] = [at |-> "verify", user |-> u, pass |-> p, ip |-> j]
        /\ req[r] = Idle
    BY <1>1, <2>1 DEF Go, LoginCount
  <2>4. CASE i = j
    <3>1. Attempts(i)' \subseteq Request /\ IsFiniteSet(Request)
      BY WebAssumption DEF Attempts
    <3>2. Cardinality(Attempts(i)') <= Cardinality(Request) /\ Cardinality(Attempts(i)') \in Nat
      BY <3>1, FS_Subset, FS_CardinalityType
    <3>3. CASE Failures(j) < MaxAttempts /\ misread' = misread
      BY <1>0, <2>2, <2>4, <3>2, <3>3 DEF Lockout
    <3>4. CASE misread' = [misread EXCEPT ![j] = @ + 1]
      <4>1. Cardinality(Attempts(i)') <= Cardinality(Attempts(i)) + 1
        <5>1. Attempts(i)' \subseteq Attempts(i) \cup {r}
          BY <2>3 DEF Attempts
        <5>2. /\ IsFiniteSet(Attempts(i) \cup {r})
              /\ Cardinality(Attempts(i) \cup {r}) <= Cardinality(Attempts(i)) + 1
          <6> DEFINE S == Attempts(i)  c == Cardinality(S)
          <6>1. IsFiniteSet(S) /\ c \in Nat
            BY <1>0
          <6>2. /\ IsFiniteSet(S \cup {r})
                /\ Cardinality(S \cup {r}) = c \/ Cardinality(S \cup {r}) = c + 1
            <7> HIDE DEF S
            <7> QED BY <6>1, FS_AddElement
          <6>3. Cardinality(S \cup {r}) <= c + 1
            <7> HIDE DEF S, c
            <7> QED BY <6>1, <6>2
          <6> QED BY <6>2, <6>3
        <5>3. /\ Cardinality(Attempts(i)') <= Cardinality(Attempts(i) \cup {r})
              /\ Cardinality(Attempts(i) \cup {r}) \in Nat
          BY <5>1, <5>2, FS_Subset, FS_CardinalityType
        <5> QED BY <1>0, <3>2, <5>2, <5>3
      <4>2. misread'[i] = misread[i] + 1
        BY <2>4, <3>4 DEF TypeOK
      <4> QED BY <1>0, <2>2, <3>2, <4>1, <4>2 DEF Lockout
    <3> QED BY <2>1, <3>3, <3>4
  <2>5. CASE i # j
    <3>1. Attempts(i)' = Attempts(i) /\ misread'[i] = misread[i]
      BY <2>1, <2>3, <2>5 DEF Attempts, Trying, Idle, TypeOK
    <3> QED BY <1>0, <2>2, <3>1 DEF Lockout
  <2> QED BY <2>4, <2>5
<1>2. CASE LoginFails(r)
  <2>1. req[r] \in Blaming /\ req[r].at = "blame" /\ req[r].ip \in Ip
    BY <1>2, WhatItDoes DEF LoginFails, Blaming
  <2>2. /\ \A q \in Request : q # r => req'[q] = req[q]
        /\ req'[r] = Idle
    BY <1>2 DEF LoginFails, Go, End
  <2>3. /\ misread' = misread
        /\ \/ failures' = [failures EXCEPT ![req[r].ip][0] = @ + 1]
           \/ failures' = failures
    BY <1>2 DEF LoginFails
  <2>4. CASE i = req[r].ip
    <3>1. failures[i] \in [0..AttemptWindow - 1 -> Nat] /\ AttemptWindow - 1 \in Nat
          /\ 0 \in 0..AttemptWindow - 1
      BY FailuresCounted
    <3>2. failures'[i] = [failures[i] EXCEPT ![0] = @ + 1] \/ failures'[i] = failures[i]
      BY <2>1, <2>3, <2>4 DEF TypeOK
    <3>3. Failures(i)' = Failures(i) + 1 \/ Failures(i)' = Failures(i)
      <4> DEFINE f == failures[i]  n == AttemptWindow - 1
      <4>1. n \in Nat /\ f \in [0..n -> Nat] /\ 0 \in 0..n
        BY <3>1
      <4>2. Total([f EXCEPT ![0] = @ + 1]) = Total(f) + 1
        <5> HIDE DEF f, n
        <5> QED BY <4>1, TotalAdds
      <4> QED BY <3>2, <4>2 DEF Failures
    <3>4. Attempts(i)' = Attempts(i) \ {r} /\ r \in Attempts(i)
      BY <2>1, <2>2, <2>4 DEF Attempts, Trying, Idle
    <3>5. Cardinality(Attempts(i)') = Cardinality(Attempts(i)) - 1
      BY <1>0, <3>4, FS_RemoveElement
    <3> QED BY <1>0, <2>3, <3>3, <3>5 DEF Lockout
  <2>5. CASE i # req[r].ip
    <3>1. Attempts(i)' = Attempts(i)
      BY <2>1, <2>2, <2>5 DEF Attempts, Trying, Idle
    <3>2. Failures(i)' = Failures(i)
      BY <2>1, <2>3, <2>5 DEF Failures, TypeOK
    <3> QED BY <1>0, <2>3, <3>1, <3>2 DEF Lockout
  <2> QED BY <2>4, <2>5
<1> QED BY <1>1, <1>2

LEMMA NextFailures == FailInv /\ [Next]_vars => FailInv'
<1> SUFFICES ASSUME FailInv, [Next]_vars PROVE FailuresBounded'
  BY NextType DEF FailInv
<1>0. TypeInv /\ TypeInv' /\ req \in [Request -> Doing]
  BY NextType DEF FailInv, TypeInv
<1>1. ASSUME failures' = failures, misread' = misread,
             \A q \in Request, i \in Ip : Trying(req'[q], i) => Trying(req[q], i)
      PROVE  FailuresBounded'
  <2>1. \A i \in Ip : Failures(i)' <= Failures(i)
    BY <1>0, <1>1, FailuresCounted DEF Failures
  <2> QED BY <1>0, <1>1, <2>1, NoMoreAttempts
<1>2. ASSUME NEW r \in Request, Handle(r) PROVE FailuresBounded'
  <2>0. req[r] \in Doing
    BY <1>0
  <2>1. ASSUME NEW next, Go(r, next), failures' = failures, misread' = misread,
               \A i \in Ip : Trying(next, i) => Trying(req[r], i)
        PROVE  FailuresBounded'
    <3>1. \A q \in Request : req'[q] = IF q = r THEN next ELSE req[q]
      BY <1>0, <2>1 DEF Go
    <3> QED BY <1>1, <2>1, <3>1
  <2>2. \A i : ~Trying(Idle, i)
    BY DEF Trying, Idle
  <2>3. CASE LoginVerify(r)
    <3>1. req[r] \in Verifying
      BY <2>0, <2>3, WhatItDoes DEF LoginVerify
    <3> QED BY <2>1, <2>3, <3>1 DEF LoginVerify, store, Trying, Verifying
  <2>4. CASE LoginGreets(r)
    <3>1. req[r] \in Entering
      BY <2>0, <2>4, WhatItDoes DEF LoginGreets
    <3> QED BY <2>1, <2>4, <3>1 DEF LoginGreets, Trying, Entering
  <2>5. CASE ChangeCompare(r)
    <3>1. req[r] \in Changing
      BY <2>0, <2>5, WhatItDoes DEF ChangeCompare
    <3> QED BY <2>1, <2>2, <2>5, <3>1 DEF ChangeCompare, Trying, Changing, store
  <2>6. CASE ChangeUpdate(r)
    <3>1. req[r] \in Changing
      BY <2>0, <2>6, WhatItDoes DEF ChangeUpdate
    <3>2. PICK next : Go(r, next) /\ next.at \in {"idle", "retain"}
      BY <2>6, <3>1 DEF ChangeUpdate, Changing, End, Idle
    <3> QED BY <2>1, <2>6, <3>2 DEF ChangeUpdate, Trying
  <2>7. CASE ChangeRetain(r)
    <3>1. \A q \in Request : req'[q] = Idle \/ req'[q] = req[q]
                             \/ req'[q] = [req[q] EXCEPT !.raced = TRUE]
      BY <1>0, <2>7 DEF ChangeRetain, Marked
    <3>2. \A q \in Request, i \in Ip : Trying(req'[q], i) => Trying(req[q], i)
      <4> SUFFICES ASSUME NEW q \in Request, NEW i \in Ip, Trying(req'[q], i)
                   PROVE  Trying(req[q], i)
        OBVIOUS
      <4>1. CASE req[q].at \in {"greet", "enter"}
        <5>1. req[q] \in Entering
          BY <1>0, <4>1, WhatItDoes
        <5> QED BY <2>2, <3>1, <5>1 DEF Entering, Trying
      <4>2. CASE req[q].at \notin {"greet", "enter"}
        <5>1. req'[q] = Idle \/ req'[q] = req[q]
          BY <1>0, <2>7, <4>2 DEF ChangeRetain, Marked
        <5> QED BY <2>2, <5>1
      <4> QED BY <4>1, <4>2
    <3> QED BY <1>1, <2>7, <3>2 DEF ChangeRetain, store
  <2>8. CASE LoginEnters(r) \/ AdminInfo(r) \/ SetupCreate(r)
    BY <2>1, <2>2, <2>8 DEF LoginEnters, AdminInfo, SetupCreate, End, store
  <2>9. ASSUME NEW t \in Token, RequireAuth(r, t) PROVE FailuresBounded'
    <3>1. PICK handler \in {"change", "info"} : Go(r, [at |-> handler, token |-> t])
      BY <2>9 DEF RequireAuth
    <3>2. failures' = failures /\ misread' = misread
      BY <2>9 DEF RequireAuth, store
    <3> QED BY <2>1, <3>1, <3>2 DEF Trying
  <2>10. CASE ChangeBegin(r) \/ SetupBegin(r) \/ SetupExists(r)
    <3>1. PICK next : Go(r, next) /\ next.at \in {"idle", "compare", "exists", "create"}
      <4>1. CASE ChangeBegin(r)
        <5>1. PICK p \in Password :
                Go(r, IF Accepts(req[r].token) /\ Acceptable(p)
                      THEN [at |-> "compare", user |-> sessions[req[r].token].user, new |-> p]
                      ELSE Idle)
          BY <4>1 DEF ChangeBegin
        <5> QED BY <5>1 DEF Idle
      <4>2. CASE SetupBegin(r)
        BY <4>2 DEF SetupBegin
      <4>3. CASE SetupExists(r)
        <5>1. PICK u \in User, p \in Password, failed \in BOOLEAN :
                Go(r, IF (NoAdmin \/ failed) /\ Acceptable(p)
                      THEN [at |-> "create", user |-> u, pass |-> p] ELSE Idle)
          BY <4>3 DEF SetupExists
        <5> QED BY <5>1 DEF Idle
      <4> QED BY <2>10, <4>1, <4>2, <4>3
    <3>2. failures' = failures /\ misread' = misread
      BY <2>10 DEF ChangeBegin, SetupBegin, SetupExists, store
    <3> QED BY <2>1, <3>1, <3>2 DEF Trying
  <2> QED BY <1>2, <2>3, <2>4, <2>5, <2>6, <2>7, <2>8, <2>9, <2>10, AttemptSteps
          DEF Handle
<1>3. CASE Restart
  BY <1>1, <1>3 DEF Restart, store, Trying, Idle
<1>4. CASE Tick
  <2>1. \A i \in Ip : Failures(i)' <= Failures(i)
    <3> SUFFICES ASSUME NEW i \in Ip PROVE Total(failures'[i]) <= Total(failures[i])
      BY DEF Failures
    <3>1. failures'[i] = Older(failures[i])
      BY <1>4 DEF Tick
    <3> QED BY <1>0, <3>1, FailuresCounted, TotalAges
  <2> QED BY <1>0, <1>4, <2>1, NoMoreAttempts DEF Tick
<1>5. CASE UNCHANGED <<failures, misread, req>>
  BY <1>1, <1>5
<1>6. ASSUME NEW t \in Token, CheckSession(t) \/ Logout(t) PROVE UNCHANGED <<failures, misread, req>>
  BY <1>6 DEF CheckSession, Logout, store
<1>7. ASSUME NEW i \in Ip, LimiterCheck(i) PROVE UNCHANGED <<failures, misread, req>>
  BY <1>7 DEF LimiterCheck, store
<1>8. CleanSessions \/ CleanLimiter \/ UNCHANGED vars => UNCHANGED <<failures, misread, req>>
  BY DEF CleanSessions, CleanLimiter, vars, store
<1> QED BY <1>2, <1>3, <1>4, <1>5, <1>6, <1>7, <1>8 DEF Next

LEMMA InitFailures == Init => FailInv
<1> SUFFICES ASSUME Init PROVE FailuresBounded
  BY InitType DEF FailInv
<1> SUFFICES ASSUME NEW i \in Ip PROVE Failures(i) + Cardinality(Attempts(i)) <= Lockout(i)
  BY InBounds
<1>1. Attempts(i) = {}
  BY DEF Init, Attempts, Trying, Idle
<1>2. Failures(i) = 0
  <2>1. AttemptWindow - 1 \in Nat
    BY WebAssumption
  <2> QED BY <2>1, TotalOfNothing DEF Init, Failures
<1>3. Cardinality(Attempts(i)) = 0
  BY <1>1, FS_EmptySet
<1>4. MaxAttempts \in Nat \ {0} /\ Cardinality(Request) \in Nat
  BY WebAssumption, AttemptsCounted
<1>5. misread[i] = 0
  BY DEF Init
<1> QED BY <1>2, <1>3, <1>4, <1>5 DEF Lockout

(* "Maximum failed login attempts before lockout" (auth.rs:27): within the *)
(* window an address never has more failures than the limit less one plus  *)
(* one for each request that can be under way and one for each count the   *)
(* database refused, however they interleave.                              *)
THEOREM FailuresAreBounded == Spec => []FailuresBounded
  BY InitFailures, NextFailures, PTL DEF Spec, FailInv

-----------------------------------------------------------------------------
(* What the limiter counts below the window's end is what it let pass.     *)
Agrees(i) == \A a \in 0..RateWindow - 1 : limiter[i][a] = hits[i][a]
Within(i) == Total(hits[i]) <= MaxRequests
LimiterInv == TypeInv /\ LimiterExact

LEMMA LimiterFacts ==
    ASSUME TypeInv, NEW i \in Ip
    PROVE  /\ RateWindow - 1 \in Nat /\ RateWindow \in Nat \ {0} /\ MaxRequests \in Nat \ {0}
           /\ limiter[i] \in [0..RateWindow -> Nat]
           /\ hits[i] \in [0..RateWindow - 1 -> Nat]
           /\ Total(hits[i]) \in Nat
<1>1. /\ RateWindow - 1 \in Nat /\ RateWindow \in Nat \ {0} /\ MaxRequests \in Nat \ {0}
  BY WebAssumption
<1>2. hits[i] \in [0..RateWindow - 1 -> Nat] /\ limiter[i] \in [0..RateWindow -> Nat]
  BY DEF TypeInv, TypeOK
<1> QED BY <1>1, <1>2, EventsFinite

(* An age without events does not count.                                   *)
LEMMA KeptEvents ==
    ASSUME NEW n \in Nat, NEW f \in [0..n + 1 -> Nat], NEW g \in [0..n -> Nat],
           \A a \in 0..n : f[a] = g[a], f[n + 1] = 0
    PROVE  Total(f) = Total(g)
<1>1. /\ \A e : e \in Events(g) <=> \E a \in 0..n : \E k \in 1..g[a] : e = <<a, k>>
      /\ \A e : e \in Events(f) <=> \E a \in 0..n + 1 : \E k \in 1..f[a] : e = <<a, k>>
  BY DEF Events
<1>2. ASSUME NEW e PROVE e \in Events(f) <=> e \in Events(g)
  <2>1. (\E a \in 0..n + 1 : \E k \in 1..f[a] : e = <<a, k>>)
        <=> (\E a \in 0..n : \E k \in 1..f[a] : e = <<a, k>>)
    <3>1. 1..f[n + 1] = {}
      OBVIOUS
    <3>2. 0..n + 1 = (0..n) \cup {n + 1}
      OBVIOUS
    <3> QED BY <3>1, <3>2
  <2> QED BY <1>1, <2>1
<1>3. Events(f) = Events(g)
  BY <1>2
<1> QED BY <1>3 DEF Total

LEMMA LimiterStep ==
    ASSUME LimiterInv, NEW i \in Ip, LimiterCheck(i)
    PROVE  LimiterExact'
<1> DEFINE kept == [limiter[i] EXCEPT ![RateWindow] = 0]
           ok == Total(kept) < MaxRequests
<1>0. TypeInv /\ Agrees(i) /\ Within(i)
  BY DEF LimiterInv, LimiterExact, Agrees, Within
<1>1. /\ RateWindow - 1 \in Nat /\ RateWindow \in Nat \ {0} /\ MaxRequests \in Nat \ {0}
      /\ limiter[i] \in [0..RateWindow -> Nat]
      /\ hits[i] \in [0..RateWindow - 1 -> Nat] /\ Total(hits[i]) \in Nat
      /\ 0 \in 0..RateWindow - 1
  BY <1>0, LimiterFacts
<1>2. kept \in [0..RateWindow -> Nat] /\ kept[RateWindow] = 0
      /\ \A a \in 0..RateWindow - 1 : kept[a] = hits[i][a]
  BY <1>0, <1>1 DEF Agrees
<1>3. Total(kept) = Total(hits[i])
  <2> DEFINE n == RateWindow - 1
  <2>1. /\ n \in Nat /\ n + 1 = RateWindow /\ kept \in [0..n + 1 -> Nat]
        /\ hits[i] \in [0..n -> Nat] /\ kept[n + 1] = 0
        /\ \A a \in 0..n : kept[a] = hits[i][a]
    BY <1>1, <1>2
  <2> HIDE DEF kept, n
  <2> QED BY <2>1, KeptEvents
<1>4. /\ limiter' = [limiter EXCEPT ![i] = IF ok THEN [kept EXCEPT ![0] = @ + 1] ELSE kept]
      /\ hits' = IF ok THEN [hits EXCEPT ![i][0] = @ + 1] ELSE hits
  BY DEF LimiterCheck
<1>5. \A j \in Ip : j # i => limiter'[j] = limiter[j] /\ hits'[j] = hits[j]
  BY <1>0, <1>4 DEF TypeInv, TypeOK
<1>6. /\ limiter'[i] = IF ok THEN [kept EXCEPT ![0] = @ + 1] ELSE kept
      /\ hits'[i] = IF ok THEN [hits[i] EXCEPT ![0] = @ + 1] ELSE hits[i]
  <2>1. limiter'[i] = IF ok THEN [kept EXCEPT ![0] = @ + 1] ELSE kept
    BY <1>0, <1>4 DEF TypeInv, TypeOK
  <2>2. hits' = IF ok THEN [hits EXCEPT ![i] = [hits[i] EXCEPT ![0] = @ + 1]] ELSE hits
    BY <1>4
  <2>3. hits'[i] = IF ok THEN [hits[i] EXCEPT ![0] = @ + 1] ELSE hits[i]
    <3> HIDE DEF ok
    <3> QED BY <1>0, <2>2 DEF TypeInv, TypeOK
  <2> QED BY <2>1, <2>3
<1>7. Agrees(i)'
  <2>1. ASSUME NEW a \in 0..RateWindow - 1 PROVE limiter'[i][a] = hits'[i][a]
    <3>1. a \in 0..RateWindow /\ kept[a] = hits[i][a]
      BY <1>1, <1>2, <2>1
    <3>2. [kept EXCEPT ![0] = @ + 1][a] = [hits[i] EXCEPT ![0] = @ + 1][a]
      <4> HIDE DEF kept
      <4> QED BY <1>1, <1>2, <2>1, <3>1
    <3> HIDE DEF kept, ok
    <3> QED BY <1>6, <3>1, <3>2
  <2> QED BY <2>1 DEF Agrees
<1>8. Within(i)'
  <2>1. CASE ok
    <3> DEFINE n == RateWindow - 1  f == hits[i]
    <3>1. n \in Nat /\ f \in [0..n -> Nat] /\ 0 \in 0..n
      BY <1>1
    <3>2. Total([f EXCEPT ![0] = @ + 1]) = Total(f) + 1
      <4> HIDE DEF n, f
      <4> QED BY <3>1, TotalAdds
    <3> QED BY <1>1, <1>3, <1>6, <2>1, <3>2 DEF Within
  <2>2. CASE ~ok
    BY <1>0, <1>6, <2>2 DEF Within
  <2> QED BY <2>1, <2>2
<1> QED BY <1>5, <1>7, <1>8 DEF LimiterInv, LimiterExact, Agrees, Within

LEMMA NextLimiter == LimiterInv /\ [Next]_vars => LimiterInv'
<1> SUFFICES ASSUME LimiterInv, [Next]_vars PROVE LimiterExact'
  BY NextType DEF LimiterInv
<1>0. TypeInv
  BY DEF LimiterInv
<1>1. CASE UNCHANGED limits
  BY <1>1 DEF limits, LimiterInv, LimiterExact
<1>2. CASE CleanLimiter
  <2> SUFFICES ASSUME NEW i \in Ip PROVE Agrees(i)' /\ Within(i)'
    BY DEF LimiterExact, Agrees, Within
  <2>1. limiter'[i] = [limiter[i] EXCEPT ![RateWindow] = 0] /\ hits' = hits
    BY <1>2 DEF CleanLimiter
  <2>2. /\ RateWindow - 1 \in Nat /\ RateWindow \in Nat \ {0}
        /\ limiter[i] \in [0..RateWindow -> Nat]
    BY <1>0, LimiterFacts
  <2>3. \A a \in 0..RateWindow - 1 : limiter'[i][a] = limiter[i][a]
    BY <2>1, <2>2
  <2>4. Agrees(i) /\ Within(i)
    BY DEF LimiterInv, LimiterExact, Agrees, Within
  <2>5. Agrees(i)' /\ Within(i)'
    BY <2>1, <2>3, <2>4 DEF Agrees, Within
  <2> QED BY <2>5
<1>3. CASE Restart
  <2> SUFFICES ASSUME NEW i \in Ip PROVE Agrees(i)' /\ Within(i)'
    BY DEF LimiterExact, Agrees, Within
  <2>1. /\ RateWindow - 1 \in Nat /\ RateWindow \in Nat \ {0} /\ MaxRequests \in Nat \ {0}
    BY <1>0, LimiterFacts
  <2>2. limiter'[i] = Nothing(0..RateWindow) /\ hits'[i] = Nothing(0..RateWindow - 1)
    BY <1>3 DEF Restart
  <2>3. Total(hits'[i]) = 0
    BY <2>1, <2>2, TotalOfNothing
  <2>4. Within(i)'
    BY <2>1, <2>3 DEF Within
  <2>5. Agrees(i)'
    BY <2>1, <2>2 DEF Agrees, Nothing
  <2> QED BY <2>4, <2>5
<1>4. CASE Tick
  <2> SUFFICES ASSUME NEW i \in Ip PROVE Agrees(i)' /\ Within(i)'
    BY DEF LimiterExact, Agrees, Within
  <2>1. /\ RateWindow - 1 \in Nat /\ RateWindow \in Nat \ {0} /\ MaxRequests \in Nat \ {0}
        /\ limiter[i] \in [0..RateWindow -> Nat]
        /\ hits[i] \in [0..RateWindow - 1 -> Nat] /\ Total(hits[i]) \in Nat
    BY <1>0, LimiterFacts
  <2>2. Agrees(i) /\ Within(i)
    BY DEF LimiterInv, LimiterExact, Agrees, Within
  <2>3. hits'[i] = Older(hits[i])
    BY <1>4 DEF Tick
  <2>4. \A a \in 0..RateWindow - 1 : limiter'[i][a] = Older(limiter[i])[a]
    <3>1. PICK n : limiter'[i] = [Older(limiter[i]) EXCEPT ![RateWindow] = n]
      BY <1>4 DEF Tick
    <3>2. \A a \in 0..RateWindow - 1 : a # RateWindow /\ a \in 0..RateWindow
      BY <2>1
    <3>3. Older(limiter[i]) \in [0..RateWindow -> Nat]
      BY <2>1, OlderType
    <3> QED BY <3>1, <3>2, <3>3
  <2>5. Agrees(i)'
    <3> SUFFICES ASSUME NEW a \in 0..RateWindow - 1
                 PROVE  Older(limiter[i])[a] = Older(hits[i])[a]
      BY <2>3, <2>4 DEF Agrees
    <3>1. /\ a \in 0..RateWindow /\ DOMAIN limiter[i] = 0..RateWindow
          /\ DOMAIN hits[i] = 0..RateWindow - 1
      BY <2>1
    <3>2. a # 0 => a - 1 \in 0..RateWindow - 1
      BY <2>1
    <3> QED BY <2>2, <3>1, <3>2 DEF Agrees, Older
  <2>6. Total(Older(hits[i])) <= Total(hits[i])
    BY <2>1, TotalAges
  <2>7. Total(Older(hits[i])) \in Nat
    BY <2>1, OlderType, EventsFinite
  <2>8. Within(i)'
    BY <2>1, <2>2, <2>3, <2>6, <2>7 DEF Within
  <2> QED BY <2>5, <2>8
<1>5. ASSUME NEW r \in Request, Handle(r) PROVE UNCHANGED limits
  BY <1>5 DEF Handle, LoginCount, LoginVerify, LoginFails, LoginGreets, LoginEnters,
     AdminInfo, RequireAuth, ChangeBegin, ChangeCompare, ChangeUpdate, ChangeRetain,
     SetupBegin, SetupExists, SetupCreate
<1>6. ASSUME NEW t \in Token, CheckSession(t) \/ Logout(t) PROVE UNCHANGED limits
  BY <1>6 DEF CheckSession, Logout
<1>7. CleanSessions \/ UNCHANGED vars => UNCHANGED limits
  BY DEF CleanSessions, vars
<1> QED BY <1>1, <1>2, <1>3, <1>4, <1>5, <1>6, <1>7, LimiterStep DEF Next

LEMMA InitLimiter == Init => LimiterInv
<1> SUFFICES ASSUME Init, NEW i \in Ip PROVE Agrees(i) /\ Within(i)
  BY InitType DEF LimiterInv, LimiterExact, Agrees, Within
<1>1. RateWindow - 1 \in Nat /\ RateWindow \in Nat \ {0} /\ MaxRequests \in Nat \ {0}
  BY InitType, LimiterFacts
<1>2. limiter[i] = Nothing(0..RateWindow) /\ hits[i] = Nothing(0..RateWindow - 1)
  BY DEF Init
<1>3. Total(hits[i]) = 0
  BY <1>1, <1>2, TotalOfNothing
<1>4. Within(i)
  BY <1>1, <1>3 DEF Within
<1>5. Agrees(i)
  BY <1>1, <1>2 DEF Agrees, Nothing
<1> QED BY <1>4, <1>5

(* "A sliding window per IP" (middleware.rs:131): dropping old entries,    *)
(* at a check or in the cleanup, never changes what is counted, and no     *)
(* window of time sees more than the limit pass.                           *)
THEOREM LimiterIsExact == Spec => []LimiterExact
  BY InitLimiter, NextLimiter, PTL DEF Spec, LimiterInv

=============================================================================
