---------------------------- MODULE ServerProofs ----------------------------
(***************************************************************************)
(* Machine-checked proofs about Server for every set of clients and jails, *)
(* every assignment of requests to the clients and every bound.            *)
(***************************************************************************)
EXTENDS Server, FiniteSetTheorems, SequenceTheorems, RecursionLemmas

(* The steps with any number in place of the bounds of the state.          *)
Later == {"stop", "start", "stop_all", "swap", "reopen", "start_all", "list"}
AnyStep == ({"start", "read", "stop"} \X JailNames)
             \cup ({"guard", "spawn"} \X JailNames \X Nat)
             \cup ({"push"} \X Nat) \cup ({"swap"} \X Nat)
             \cup ({"stop_all", "start_all", "reopen", "list", "join"} \X {None})
Jails == [jail : JailNames, cfg : Nat, life : {"running", "leaving", "ended"}]

Holds(s, i) == \E k \in DOMAIN s : s[k] = i

(* Nothing that holds the mutex or a guard waits behind another step, and  *)
(* whoever drains the list holds the mutex.                                *)
StepsOK ==
    /\ todo \in [Client -> Seq(AnyStep)]
    /\ \A c \in Client : \A k \in DOMAIN todo[c] : todo[c][k] \in Step
    /\ \A c \in Client : \A k \in 2..Len(todo[c]) : todo[c][k][1] \in Later
GuardsOK ==
    /\ lock \in Client \cup {None} /\ readers \subseteq Client
    /\ \A c \in Client : lock = c <=> At(c, "join")
    /\ \A c \in Client : c \in readers <=> At(c, "spawn")
    /\ lock = None => draining = <<>>
JailsOK ==
    /\ inst \in Seq(Jails)
    /\ \A i \in DOMAIN inst : inst[i].cfg \in 0..disk
    /\ tailing \subseteq DOMAIN inst
ListsOK ==
    /\ listed \in Seq(Nat) /\ draining \in Seq(Nat)
    /\ \A i : Holds(listed, i) \/ Holds(draining, i) => i \in DOMAIN inst
NumbersOK ==
    /\ disk \in 0..MaxEdits /\ config \in 0..disk /\ asked \in 0..disk
    /\ requests \in 0..MaxRequests /\ gone \in BOOLEAN
TypeInv == StepsOK /\ GuardsOK /\ JailsOK /\ ListsOK /\ NumbersOK
RacesOK == raced \in BOOLEAN /\ overtaken \in BOOLEAN

-----------------------------------------------------------------------------
(* A step of each kind.                                                    *)
LEMMA StepFacts ==
    ASSUME NEW s \in AnyStep
    PROVE  /\ s[1] \in Later \cup {"read", "guard", "spawn", "push", "join"}
           /\ s[1] \in {"start", "read", "stop"} => s \in {s[1]} \X JailNames
           /\ s[1] \in {"guard", "spawn"} => s \in {s[1]} \X JailNames \X Nat
           /\ s[1] = "push" => s \in {"push"} \X Nat
           /\ s[1] = "swap" => s \in {"swap"} \X Nat
  BY DEF AnyStep, Later

(* What is left to do after the first step was replaced by others.         *)
LEMMA Replaced ==
    ASSUME NEW S, NEW s \in Seq(S), s # <<>>, NEW new \in Seq(S)
    PROVE  LET t == new \o Tail(s)
           IN  /\ t \in Seq(S) /\ Len(t) = Len(new) + Len(s) - 1
               /\ \A k \in DOMAIN t :
                     \/ k \in DOMAIN new /\ t[k] = new[k]
                     \/ k > Len(new) /\ k - Len(new) + 1 \in 2..Len(s)
                        /\ t[k] = s[k - Len(new) + 1]
<1> DEFINE t == new \o Tail(s)
<1>1. /\ Tail(s) \in Seq(S) /\ Len(Tail(s)) = Len(s) - 1 /\ Len(s) \in Nat \ {0}
      /\ \A k \in 1..Len(s) - 1 : Tail(s)[k] = s[k + 1]
  BY HeadTailProperties, LenProperties, EmptySeq
<1>2. /\ t \in Seq(S) /\ Len(t) = Len(new) + Len(Tail(s)) /\ Len(new) \in Nat
      /\ \A k \in 1..Len(new) + Len(Tail(s)) :
            t[k] = IF k <= Len(new) THEN new[k] ELSE Tail(s)[k - Len(new)]
  BY <1>1, ConcatProperties, LenProperties
<1>3. DOMAIN t = 1..Len(new) + Len(s) - 1 /\ DOMAIN new = 1..Len(new)
  BY <1>1, <1>2, LenProperties
<1> HIDE DEF t
<1>4. ASSUME NEW k \in DOMAIN t
      PROVE  \/ k \in DOMAIN new /\ t[k] = new[k]
             \/ k > Len(new) /\ k - Len(new) + 1 \in 2..Len(s) /\ t[k] = s[k - Len(new) + 1]
  <2>1. CASE k <= Len(new)
    BY <1>1, <1>2, <1>3, <2>1
  <2>2. CASE ~(k <= Len(new))
    <3>1. /\ k - Len(new) \in 1..Len(s) - 1 /\ k \in 1..Len(new) + Len(Tail(s))
          /\ k > Len(new)
      BY <1>1, <1>2, <1>3, <2>2
    <3>2. t[k] = Tail(s)[k - Len(new)]
      BY <1>2, <2>2, <3>1
    <3>3. Tail(s)[k - Len(new)] = s[k - Len(new) + 1]
      BY <1>1, <3>1
    <3> QED BY <1>1, <3>1, <3>2, <3>3
  <2> QED BY <2>1, <2>2
<1> QED BY <1>1, <1>2, <1>4 DEF t

(* The steps of a request that is under way, after one of them.            *)
LEMMA Goes ==
    ASSUME StepsOK, NEW c \in Client, ~Idle(c), NEW new \in Seq(AnyStep), GoOn(c, new),
           \A k \in 2..Len(new) : new[k][1] \in Later
    PROVE  /\ todo' \in [Client -> Seq(AnyStep)]
           /\ \A d \in Client : d # c => todo'[d] = todo[d]
           /\ \A d \in Client : \A k \in 2..Len(todo'[d]) : todo'[d][k][1] \in Later
           /\ \A k \in DOMAIN todo'[c] :
                 \/ k \in DOMAIN new /\ todo'[c][k] = new[k]
                 \/ k > Len(new) /\ k - Len(new) + 1 \in 2..Len(todo[c])
                    /\ todo'[c][k] = todo[c][k - Len(new) + 1]
           /\ new # <<>> => todo'[c] # <<>> /\ Head(todo'[c]) = new[1]
           /\ new = <<>> /\ todo'[c] # <<>> => Head(todo'[c])[1] \in Later
           /\ UNCHANGED <<disk, requests, asked, gone>>
<1> DEFINE t == new \o Tail(todo[c])
<1>1. todo[c] \in Seq(AnyStep) /\ todo[c] # <<>>
      /\ \A k \in 2..Len(todo[c]) : todo[c][k][1] \in Later
  BY DEF StepsOK, Idle
<1>2. todo' = [todo EXCEPT ![c] = t] /\ UNCHANGED <<disk, requests, asked, gone>>
  BY DEF GoOn
<1>3. /\ t \in Seq(AnyStep) /\ Len(t) = Len(new) + Len(todo[c]) - 1
      /\ \A k \in DOMAIN t :
            \/ k \in DOMAIN new /\ t[k] = new[k]
            \/ k > Len(new) /\ k - Len(new) + 1 \in 2..Len(todo[c])
               /\ t[k] = todo[c][k - Len(new) + 1]
  BY <1>1, Replaced
<1> HIDE DEF t
<1>4. todo' \in [Client -> Seq(AnyStep)] /\ todo'[c] = t
      /\ \A d \in Client : d # c => todo'[d] = todo[d]
  BY <1>2, <1>3 DEF StepsOK
<1>5. /\ Len(new) \in Nat /\ DOMAIN new = 1..Len(new) /\ DOMAIN t = 1..Len(t)
      /\ Len(todo[c]) \in Nat /\ Len(t) \in Nat
  BY <1>1, <1>3, LenProperties
<1>6. \A k \in 2..Len(t) : t[k][1] \in Later
  <2> SUFFICES ASSUME NEW k \in 2..Len(t) PROVE t[k][1] \in Later
    OBVIOUS
  <2>1. k \in DOMAIN t
    BY <1>5
  <2>2. CASE k \in DOMAIN new /\ t[k] = new[k]
    <3>1. k \in 2..Len(new)
      BY <1>5, <2>2
    <3> QED BY <2>2, <3>1
  <2>3. CASE k - Len(new) + 1 \in 2..Len(todo[c]) /\ t[k] = todo[c][k - Len(new) + 1]
    BY <1>1, <2>3
  <2> QED BY <1>3, <2>1, <2>2, <2>3
<1>7. new # <<>> => t # <<>> /\ Head(t) = new[1]
  <2> SUFFICES ASSUME new # <<>> PROVE t # <<>> /\ Head(t) = new[1]
    OBVIOUS
  <2>1. Len(new) >= 1 /\ Len(todo[c]) >= 1
    BY <1>1, <1>5, EmptySeq
  <2>2. 1 \in DOMAIN t /\ 1 \in DOMAIN new
    BY <1>3, <1>5, <2>1
  <2>3. t[1] = new[1]
    BY <1>3, <1>5, <2>1, <2>2
  <2> QED BY <1>3, <2>2, <2>3, HeadTailProperties
<1>8. new = <<>> /\ t # <<>> => Head(t)[1] \in Later
  <2> SUFFICES ASSUME new = <<>>, t # <<>> PROVE Head(t)[1] \in Later
    OBVIOUS
  <2>1. Len(new) = 0 /\ 1 \in DOMAIN t /\ Head(t) = t[1]
    BY <1>3, <1>5, EmptySeq, HeadTailProperties
  <2>2. t[1] = todo[c][2] /\ 2 \in 2..Len(todo[c])
    BY <1>3, <1>5, <2>1
  <2> QED BY <1>1, <2>1, <2>2
<1>9. \A d \in Client : \A k \in 2..Len(todo'[d]) : todo'[d][k][1] \in Later
  BY <1>4, <1>6 DEF StepsOK
<1> QED BY <1>2, <1>3, <1>4, <1>7, <1>8, <1>9

-----------------------------------------------------------------------------
(* Lists of jails by number.                                               *)
LEMMA HoldsTail ==
    ASSUME NEW s \in Seq(Nat), s # <<>>, NEW i
    PROVE  /\ Head(s) \in Nat /\ Holds(s, Head(s)) /\ Tail(s) \in Seq(Nat)
           /\ Holds(Tail(s), i) => Holds(s, i)
           /\ Holds(s, i) => i = Head(s) \/ Holds(Tail(s), i)
<1>1. /\ Tail(s) \in Seq(Nat) /\ Len(Tail(s)) = Len(s) - 1 /\ Len(s) \in Nat \ {0}
      /\ \A k \in 1..Len(s) - 1 : Tail(s)[k] = s[k + 1]
      /\ Head(s) = s[1] /\ Head(s) \in Nat
  BY HeadTailProperties, LenProperties, EmptySeq
<1>2. DOMAIN s = 1..Len(s) /\ DOMAIN Tail(s) = 1..Len(s) - 1
  BY <1>1, LenProperties
<1>3. ASSUME NEW k \in DOMAIN Tail(s) PROVE k + 1 \in DOMAIN s /\ Tail(s)[k] = s[k + 1]
  BY <1>1, <1>2
<1>4. ASSUME NEW k \in DOMAIN s, k # 1
      PROVE  k - 1 \in DOMAIN Tail(s) /\ Tail(s)[k - 1] = s[k]
  <2>1. k - 1 \in 1..Len(s) - 1 /\ (k - 1) + 1 = k
    BY <1>1, <1>2, <1>4
  <2> QED BY <1>1, <1>2, <2>1
<1>5. Holds(Tail(s), i) => Holds(s, i)
  BY <1>3 DEF Holds
<1>6. Holds(s, i) => i = Head(s) \/ Holds(Tail(s), i)
  BY <1>1, <1>4 DEF Holds
<1>7. Holds(s, Head(s))
  BY <1>1, <1>2 DEF Holds
<1> QED BY <1>1, <1>5, <1>6, <1>7

LEMMA HoldsAppend ==
    ASSUME NEW s \in Seq(Nat), NEW e \in Nat, NEW i
    PROVE  Append(s, e) \in Seq(Nat) /\ (Holds(Append(s, e), i) <=> Holds(s, i) \/ i = e)
<1>1. /\ Append(s, e) \in Seq(Nat) /\ Len(Append(s, e)) = Len(s) + 1 /\ Len(s) \in Nat
      /\ \A k \in 1..Len(s) : Append(s, e)[k] = s[k]
      /\ Append(s, e)[Len(s) + 1] = e
  BY AppendProperties, LenProperties
<1>2. DOMAIN s = 1..Len(s) /\ DOMAIN Append(s, e) = 1..Len(s) + 1
  BY <1>1, LenProperties
<1> QED BY <1>1, <1>2 DEF Holds

LEMMA HoldsRemoved ==
    ASSUME NEW S, NEW s \in Seq(S), NEW k \in DOMAIN s, NEW i
    PROVE  /\ RemoveAt(s, k) \in Seq(S)
           /\ Holds(RemoveAt(s, k), i) => Holds(s, i)
           /\ Holds(s, i) => i = s[k] \/ Holds(RemoveAt(s, k), i)
<1> DEFINE head == SubSeq(s, 1, k - 1)
           rest == SubSeq(s, k + 1, Len(s))
           t == RemoveAt(s, k)
<1>0. Len(s) \in Nat /\ DOMAIN s = 1..Len(s) /\ k \in 1..Len(s)
  BY LenProperties
<1>1. /\ head \in Seq(S) /\ Len(head) = k - 1
      /\ \A j \in 1..(k - 1) : head[j] = s[j]
  BY <1>0
<1>2. /\ rest \in Seq(S) /\ Len(rest) = Len(s) - k
      /\ \A j \in 1..(Len(s) - k) : rest[j] = s[k + j]
  BY <1>0
<1>3. t = head \o rest
  BY DEF RemoveAt
<1> HIDE DEF head, rest, t
<1>4. /\ t \in Seq(S) /\ DOMAIN t = 1..(Len(s) - 1)
      /\ \A j \in 1..(Len(s) - 1) : t[j] = IF j <= k - 1 THEN head[j] ELSE rest[j - (k - 1)]
  <2>1. Len(head) + Len(rest) = Len(s) - 1
    BY <1>0, <1>1, <1>2
  <2>2. /\ t \in Seq(S) /\ Len(t) = Len(head) + Len(rest)
        /\ \A j \in 1..Len(head) + Len(rest) :
              t[j] = IF j <= Len(head) THEN head[j] ELSE rest[j - Len(head)]
    BY <1>1, <1>2, <1>3, ConcatProperties
  <2> QED BY <1>1, <2>1, <2>2, LenProperties
<1>5. ASSUME NEW j \in DOMAIN t
      PROVE  \E l \in DOMAIN s : t[j] = s[l]
  <2>1. CASE j <= k - 1
    <3>1. j \in 1..(k - 1) /\ j \in 1..Len(s)
      BY <1>0, <1>4, <2>1
    <3>2. t[j] = s[j]
      BY <1>1, <1>4, <2>1, <3>1
    <3> QED BY <1>0, <3>1, <3>2
  <2>2. CASE ~(j <= k - 1)
    <3>1. j - (k - 1) \in 1..(Len(s) - k) /\ k + (j - (k - 1)) = j + 1 /\ j + 1 \in 1..Len(s)
      BY <1>0, <1>4, <2>2
    <3>2. t[j] = s[j + 1]
      BY <1>2, <1>4, <2>2, <3>1
    <3> QED BY <1>0, <3>1, <3>2
  <2> QED BY <2>1, <2>2
<1>6. ASSUME NEW l \in DOMAIN s, l # k
      PROVE  \E j \in DOMAIN t : t[j] = s[l]
  <2>1. CASE l < k
    <3>1. l \in 1..(k - 1) /\ l \in 1..(Len(s) - 1) /\ l <= k - 1
      BY <1>0, <2>1
    <3>2. t[l] = s[l]
      BY <1>1, <1>4, <3>1
    <3> QED BY <1>4, <3>1, <3>2
  <2>2. CASE l > k
    <3>1. /\ l - 1 \in 1..(Len(s) - 1) /\ ~(l - 1 <= k - 1)
          /\ (l - 1) - (k - 1) \in 1..(Len(s) - k) /\ k + ((l - 1) - (k - 1)) = l
      BY <1>0, <2>2
    <3>2. t[l - 1] = s[l]
      BY <1>2, <1>4, <3>1
    <3> QED BY <1>4, <3>1, <3>2
  <2> QED BY <1>0, <1>6, <2>1, <2>2
<1>7. Holds(t, i) => Holds(s, i)
  BY <1>5 DEF Holds
<1>8. Holds(s, i) => i = s[k] \/ Holds(t, i)
  BY <1>6 DEF Holds
<1> QED BY <1>4, <1>7, <1>8 DEF t

LEMMA FirstListedFacts ==
    ASSUME ListsOK, NEW n, Listed(n)
    PROVE  FirstListed(n) \in DOMAIN listed /\ inst[listed[FirstListed(n)]].jail = n
<1> DEFINE I == {k \in 1..Len(listed) : inst[listed[k]].jail = n}
<1>1. DOMAIN listed = 1..Len(listed)
  BY LenProperties DEF ListsOK
<1>2. I # {} /\ I \in SUBSET Nat
  BY <1>1 DEF Listed
<1>3. FirstListed(n) = Min(I)
  BY <1>2 DEF FirstListed, SelectInSeq
<1>4. \E m \in I : \A l \in I : m <= l
  BY <1>2, HasLeast
<1>5. Min(I) \in I
  BY <1>4 DEF Min
<1> QED BY <1>1, <1>3, <1>5

(* start_all_enabled goes through the names of the jails.                  *)
LEMMA NamesInOrder ==
    /\ Cardinality(JailNames) \in Nat
    /\ \A k \in 1..Cardinality(JailNames) : SetToSeq(JailNames)[k] \in JailNames
<1> DEFINE N == Cardinality(JailNames)
<1>1. N \in Nat /\ ExistsBijection(1..N, JailNames)
  BY ServerAssumption, FS_CardinalityType
<1>2. \E f \in [1..N -> JailNames] : IsInjective(f)
  BY <1>1 DEF ExistsBijection, Bijection, Injection
<1>3. SetToSeq(JailNames) \in [1..N -> JailNames]
  BY <1>2 DEF SetToSeq
<1> QED BY <1>1, <1>3

StartAllSteps ==
    [k \in 1..Cardinality(JailNames) |-> <<"start", SetToSeq(JailNames)[k]>>]
    \o << <<"list", None>> >>

LEMMA StartAllIsSteps ==
    /\ StartAllSteps \in Seq(AnyStep)
    /\ \A k \in DOMAIN StartAllSteps :
          StartAllSteps[k] \in {"start"} \X JailNames \/ StartAllSteps[k] = <<"list", None>>
<1> DEFINE N == Cardinality(JailNames)
           starts == [k \in 1..N |-> <<"start", SetToSeq(JailNames)[k]>>]
           last == << <<"list", None>> >>
<1>1. N \in Nat /\ \A k \in 1..N : <<"start", SetToSeq(JailNames)[k]>> \in {"start"} \X JailNames
  BY NamesInOrder
<1>2. starts \in Seq(AnyStep) /\ Len(starts) = N
      /\ \A k \in 1..N : starts[k] \in {"start"} \X JailNames
  <2>1. \A k \in 1..N : starts[k] \in AnyStep /\ starts[k] \in {"start"} \X JailNames
    BY <1>1 DEF AnyStep
  <2>2. starts \in [1..N -> AnyStep]
    BY <2>1
  <2> HIDE DEF starts
  <2> QED BY <1>1, <2>1, <2>2
<1>3. last \in Seq(AnyStep) /\ Len(last) = 1 /\ last[1] = <<"list", None>>
  BY DEF AnyStep
<1>4. StartAllSteps = starts \o last
  BY DEF StartAllSteps
<1> HIDE DEF N, starts, last
<1>5. /\ StartAllSteps \in Seq(AnyStep) /\ DOMAIN StartAllSteps = 1..N + 1
      /\ \A k \in 1..N + 1 : StartAllSteps[k] = IF k <= N THEN starts[k] ELSE last[k - N]
  <2>1. /\ StartAllSteps \in Seq(AnyStep) /\ Len(StartAllSteps) = Len(starts) + Len(last)
        /\ \A k \in 1..Len(starts) + Len(last) :
              StartAllSteps[k] = IF k <= Len(starts) THEN starts[k] ELSE last[k - Len(starts)]
    BY <1>2, <1>3, <1>4, ConcatProperties
  <2> QED BY <1>2, <1>3, <2>1, LenProperties
<1>6. ASSUME NEW k \in 1..N + 1
      PROVE  StartAllSteps[k] \in {"start"} \X JailNames \/ StartAllSteps[k] = <<"list", None>>
  <2>1. CASE k <= N
    BY <1>1, <1>2, <1>5, <2>1
  <2>2. CASE k = N + 1
    BY <1>1, <1>3, <1>5, <2>2
  <2> QED BY <1>1, <2>1, <2>2
<1> QED BY <1>5, <1>6

-----------------------------------------------------------------------------
LEMMA TypeInvImplies == TypeInv /\ RacesOK => TypeOK
<1> SUFFICES ASSUME TypeInv, RacesOK PROVE TypeOK
  OBVIOUS
<1>1. /\ \A k \in DOMAIN listed : listed[k] \in DOMAIN inst
      /\ \A k \in DOMAIN draining : draining[k] \in DOMAIN inst
  BY DEF TypeInv, ListsOK, Holds
<1>2. \A i \in DOMAIN inst :
         inst[i] \in [jail : JailNames, cfg : 0..disk, life : {"running", "leaving", "ended"}]
  <2> SUFFICES ASSUME NEW i \in DOMAIN inst
               PROVE  inst[i] \in [jail : JailNames, cfg : 0..disk,
                                   life : {"running", "leaving", "ended"}]
    OBVIOUS
  <2>1. inst[i] \in Jails /\ inst[i].cfg \in 0..disk
    BY ElementOfSeq, LenProperties DEF TypeInv, JailsOK
  <2> QED BY <2>1 DEF Jails
<1> QED BY <1>1, <1>2 DEF TypeInv, RacesOK, TypeOK, StepsOK, GuardsOK, JailsOK, NumbersOK

(* The configuration files and the number of jails only grow.              *)
LEMMA StepGrows ==
    ASSUME disk \in Nat, disk' \in Nat, disk <= disk', DOMAIN inst \subseteq DOMAIN inst'
    PROVE  Step \subseteq Step'
<1>1. 0..disk \subseteq 0..disk'
  OBVIOUS
<1> QED BY <1>1 DEF Step

LEMMA AtStep ==
    ASSUME StepsOK, NEW c \in Client, NEW kind, At(c, kind)
    PROVE  /\ ~Idle(c) /\ Head(todo[c]) \in AnyStep /\ Head(todo[c]) \in Step
           /\ Head(todo[c])[1] = kind /\ Arg(c) = Head(todo[c])[2]
           /\ 1 \in DOMAIN todo[c] /\ Head(todo[c]) = todo[c][1]
<1>1. todo[c] \in Seq(AnyStep) /\ todo[c] # <<>> /\ Head(todo[c])[1] = kind
  BY DEF StepsOK, At, Idle
<1>2. 1 \in DOMAIN todo[c] /\ Head(todo[c]) = todo[c][1]
  BY <1>1, EmptySeq, LenProperties, HeadTailProperties
<1> QED BY <1>1, <1>2, ElementOfSeq, LenProperties DEF StepsOK, At, Arg

(* A client's step leaves the others where they are.                       *)
Stays(c) == \A d \in Client : \A kind : d # c => (At(d, kind)' <=> At(d, kind))

(* It ends the step it is at ...                                           *)
LEMMA Drops ==
    ASSUME TypeInv, NEW c \in Client, ~Idle(c), GoOn(c, <<>>),
           DOMAIN inst \subseteq DOMAIN inst'
    PROVE  /\ StepsOK' /\ Stays(c) /\ UNCHANGED <<disk, requests, asked, gone>>
           /\ \A kind : At(c, kind)' => kind \in Later
           /\ \A d \in Client : d # c => todo'[d] = todo[d]
           /\ \A k \in DOMAIN todo'[c] :
                 k + 1 \in 2..Len(todo[c]) /\ todo'[c][k] = todo[c][k + 1]
<1>1. <<>> \in Seq(AnyStep) /\ Len(<<>>) = 0 /\ DOMAIN <<>> = {}
  OBVIOUS
<1>2. /\ todo' \in [Client -> Seq(AnyStep)]
      /\ \A d \in Client : d # c => todo'[d] = todo[d]
      /\ \A d \in Client : \A k \in 2..Len(todo'[d]) : todo'[d][k][1] \in Later
      /\ \A k \in DOMAIN todo'[c] : k + 1 \in 2..Len(todo[c]) /\ todo'[c][k] = todo[c][k + 1]
      /\ todo'[c] # <<>> => Head(todo'[c])[1] \in Later
      /\ UNCHANGED <<disk, requests, asked, gone>>
  <2>1. \A k \in 2..Len(<<>>) : <<>>[k][1] \in Later
    BY <1>1
  <2>2. /\ todo' \in [Client -> Seq(AnyStep)]
        /\ \A d \in Client : d # c => todo'[d] = todo[d]
        /\ \A d \in Client : \A k \in 2..Len(todo'[d]) : todo'[d][k][1] \in Later
        /\ \A k \in DOMAIN todo'[c] :
              \/ k \in DOMAIN <<>> /\ todo'[c][k] = <<>>[k]
              \/ k > Len(<<>>) /\ k - Len(<<>>) + 1 \in 2..Len(todo[c])
                 /\ todo'[c][k] = todo[c][k - Len(<<>>) + 1]
        /\ todo'[c] # <<>> => Head(todo'[c])[1] \in Later
        /\ UNCHANGED <<disk, requests, asked, gone>>
    BY <1>1, <2>1, Goes DEF TypeInv
  <2>3. \A k \in DOMAIN todo'[c] : k \in Nat /\ k - 0 + 1 = k + 1
    BY <2>2, LenProperties
  <2> QED BY <1>1, <2>2, <2>3
<1>3. Step \subseteq Step'
  BY <1>2, StepGrows DEF TypeInv, NumbersOK
<1>4. \A d \in Client : \A k \in DOMAIN todo'[d] : todo'[d][k] \in Step'
  <2> SUFFICES ASSUME NEW d \in Client, NEW k \in DOMAIN todo'[d]
               PROVE  todo'[d][k] \in Step'
    OBVIOUS
  <2>1. CASE d # c
    BY <1>2, <1>3, <2>1 DEF TypeInv, StepsOK
  <2>2. CASE d = c
    <3>1. k + 1 \in DOMAIN todo[c] /\ todo'[c][k] = todo[c][k + 1]
      <4>1. todo[c] \in Seq(AnyStep)
        BY DEF TypeInv, StepsOK
      <4> QED BY <1>2, <2>2, <4>1, LenProperties
    <3> QED BY <1>3, <2>2, <3>1 DEF TypeInv, StepsOK
  <2> QED BY <2>1, <2>2
<1> QED BY <1>2, <1>4 DEF StepsOK, Stays, At, Idle

(* ... or turns to another in its place.                                   *)
LEMMA Turns ==
    ASSUME TypeInv, NEW c \in Client, ~Idle(c), NEW x \in AnyStep, GoOn(c, <<x>>),
           x \in Step', DOMAIN inst \subseteq DOMAIN inst'
    PROVE  /\ StepsOK' /\ Stays(c) /\ UNCHANGED <<disk, requests, asked, gone>>
           /\ \A kind : At(c, kind)' <=> x[1] = kind
           /\ todo'[c] # <<>> /\ Head(todo'[c]) = x
           /\ \A d \in Client : d # c => todo'[d] = todo[d]
           /\ \A k \in DOMAIN todo'[c] :
                 todo'[c][k] = x \/ (k \in 2..Len(todo[c]) /\ todo'[c][k] = todo[c][k])
<1> DEFINE new == <<x>>
<1>1. /\ new \in Seq(AnyStep) /\ Len(new) = 1 /\ DOMAIN new = {1} /\ new[1] = x
      /\ new # <<>>
  OBVIOUS
<1>c. GoOn(c, new)
  OBVIOUS
<1> HIDE DEF new
<1>2. /\ todo' \in [Client -> Seq(AnyStep)]
      /\ \A d \in Client : d # c => todo'[d] = todo[d]
      /\ \A d \in Client : \A k \in 2..Len(todo'[d]) : todo'[d][k][1] \in Later
      /\ \A k \in DOMAIN todo'[c] :
            todo'[c][k] = x \/ (k \in 2..Len(todo[c]) /\ todo'[c][k] = todo[c][k])
      /\ todo'[c] # <<>> /\ Head(todo'[c]) = x
      /\ UNCHANGED <<disk, requests, asked, gone>>
  <2>1. \A k \in 2..Len(new) : new[k][1] \in Later
    BY <1>1
  <2>2. /\ todo' \in [Client -> Seq(AnyStep)]
        /\ \A d \in Client : d # c => todo'[d] = todo[d]
        /\ \A d \in Client : \A k \in 2..Len(todo'[d]) : todo'[d][k][1] \in Later
        /\ \A k \in DOMAIN todo'[c] :
              \/ k \in DOMAIN new /\ todo'[c][k] = new[k]
              \/ k > Len(new) /\ k - Len(new) + 1 \in 2..Len(todo[c])
                 /\ todo'[c][k] = todo[c][k - Len(new) + 1]
        /\ todo'[c] # <<>> /\ Head(todo'[c]) = new[1]
        /\ UNCHANGED <<disk, requests, asked, gone>>
    BY <1>1, <1>c, <2>1, Goes DEF TypeInv
  <2>3. ASSUME NEW k \in DOMAIN todo'[c]
        PROVE  todo'[c][k] = x \/ (k \in 2..Len(todo[c]) /\ todo'[c][k] = todo[c][k])
    <3>1. k - Len(new) + 1 = k
      <4>1. todo'[c] \in Seq(AnyStep)
        BY <2>2
      <4>2. k \in Nat
        BY <4>1, LenProperties
      <4> QED BY <1>1, <4>2
    <3>2. CASE k \in DOMAIN new /\ todo'[c][k] = new[k]
      BY <1>1, <3>2
    <3>3. CASE k - Len(new) + 1 \in 2..Len(todo[c])
               /\ todo'[c][k] = todo[c][k - Len(new) + 1]
      BY <3>1, <3>3
    <3> QED BY <2>2, <3>2, <3>3
  <2>4. Head(todo'[c]) = x
    BY <1>1, <2>2
  <2> QED BY <2>2, <2>3, <2>4
<1>3. Step \subseteq Step'
  BY <1>2, StepGrows DEF TypeInv, NumbersOK
<1>4. \A d \in Client : \A k \in DOMAIN todo'[d] : todo'[d][k] \in Step'
  <2> SUFFICES ASSUME NEW d \in Client, NEW k \in DOMAIN todo'[d]
               PROVE  todo'[d][k] \in Step'
    OBVIOUS
  <2>1. CASE d # c
    BY <1>2, <1>3, <2>1 DEF TypeInv, StepsOK
  <2>2. CASE d = c /\ todo'[c][k] # x
    <3>1. k \in DOMAIN todo[c] /\ todo'[c][k] = todo[c][k]
      <4>1. todo[c] \in Seq(AnyStep)
        BY DEF TypeInv, StepsOK
      <4> QED BY <1>2, <2>2, <4>1, LenProperties
    <3> QED BY <1>3, <2>2, <3>1 DEF TypeInv, StepsOK
  <2> QED BY <2>1, <2>2
<1> QED BY <1>2, <1>4 DEF StepsOK, Stays, At, Idle

LEMMA GuardsStay ==
    ASSUME GuardsOK, NEW c \in Client, Stays(c), UNCHANGED <<lock, readers, draining>>,
           At(c, "join")' <=> At(c, "join"), At(c, "spawn")' <=> At(c, "spawn")
    PROVE  GuardsOK'
  BY DEF GuardsOK, Stays

LEMMA JailsStay ==
    ASSUME JailsOK, NumbersOK, disk' \in Nat, disk <= disk', UNCHANGED <<inst, tailing>>
    PROVE  JailsOK'
<1>1. 0..disk \subseteq 0..disk'
  BY DEF NumbersOK
<1> QED BY <1>1 DEF JailsOK

LEMMA ListsStay ==
    ASSUME ListsOK, DOMAIN inst \subseteq DOMAIN inst', UNCHANGED <<listed, draining>>
    PROVE  ListsOK'
<1>1. \A i : Holds(listed, i) \/ Holds(draining, i) => i \in DOMAIN inst'
  BY DEF ListsOK
<1> QED BY <1>1 DEF ListsOK, Holds

-----------------------------------------------------------------------------
LEMMA InitType == Init => TypeInv
<1> SUFFICES ASSUME Init PROVE TypeInv
  OBVIOUS
<1>1. StepsOK
  <2>1. todo \in [Client -> Seq(AnyStep)] /\ \A c \in Client : todo[c] = <<>>
    BY DEF Init
  <2>2. DOMAIN <<>> = {} /\ 2..Len(<<>>) = {}
    OBVIOUS
  <2> QED BY <2>1, <2>2 DEF StepsOK
<1>2. \A c \in Client, kind \in {"join", "spawn"} : ~At(c, kind)
  BY DEF Init, At, Idle
<1>3. GuardsOK
  BY <1>2, ServerAssumption DEF Init, GuardsOK
<1>4. JailsOK /\ ListsOK
  <2>1. /\ <<>> \in Seq(Jails) /\ <<>> \in Seq(Nat) /\ DOMAIN <<>> = {}
    OBVIOUS
  <2>2. \A i : ~Holds(<<>>, i)
    BY <2>1 DEF Holds
  <2>3. inst = <<>> /\ tailing = {} /\ listed = <<>> /\ draining = <<>>
    BY DEF Init
  <2> QED BY <2>1, <2>2, <2>3 DEF JailsOK, ListsOK
<1>5. NumbersOK
  <2>1. MaxEdits \in Nat /\ MaxRequests \in Nat
    BY ServerAssumption
  <2>2. 0 \in 0..MaxEdits /\ 0 \in 0..0 /\ 0 \in 0..MaxRequests
    BY <2>1
  <2>3. disk = 0 /\ config = 0 /\ asked = 0 /\ requests = 0 /\ gone = FALSE
    BY DEF Init
  <2>4. gone \in BOOLEAN
    BY <2>3
  <2> QED BY <2>2, <2>3, <2>4 DEF NumbersOK
<1> QED BY <1>1, <1>3, <1>4, <1>5 DEF TypeInv

(* The steps of a new request.                                             *)
LEMMA StepsAreSteps ==
    ASSUME NumbersOK, NEW op \in AllRequests, NEW n \in JailNames
    PROVE  /\ Steps(op, n) \in Seq(AnyStep) /\ Steps(op, n) # <<>>
           /\ \A k \in DOMAIN Steps(op, n) : Steps(op, n)[k] \in Step /\ Steps(op, n)[k][1] \in Later
           /\ Head(Steps(op, n))[1] \in Later
<1> DEFINE start == <<"start", n>>  stop == <<"stop", n>>  stopAll == <<"stop_all", None>>
           startAll == <<"start_all", None>>  swap == <<"swap", disk>>
           reopen == <<"reopen", None>>  list == <<"list", None>>
<1>1. disk \in 0..disk /\ disk \in Nat
  BY DEF NumbersOK
<1> DEFINE Good == {s \in AnyStep \cap Step : s[1] \in Later}
<1>2. {start, stop, stopAll, startAll, swap, reopen, list} \subseteq AnyStep \cap Step
  BY <1>1 DEF AnyStep, Step
<1>3. {start, stop, stopAll, startAll, swap, reopen, list} \subseteq Good
  BY <1>2 DEF Later
<1>4. /\ op \in {"start", "add"} => Steps(op, n) = <<start>>
      /\ op = "stop" => Steps(op, n) = <<stop>>
      /\ op \in {"restart", "reload_jail"} => Steps(op, n) = <<stop, start>>
      /\ op = "start_all" => Steps(op, n) = <<startAll>>
      /\ op = "stop_all" => Steps(op, n) = <<stopAll>>
      /\ op = "reload" => Steps(op, n) = <<stopAll, swap, reopen, startAll>>
      /\ op = "status" => Steps(op, n) = <<list>>
  BY DEF Steps
<1> HIDE DEF start, stop, stopAll, startAll, swap, reopen, list
<1>5. \E a, b, d, e \in Good : Steps(op, n) \in {<<a>>, <<a, b>>, <<a, b, d, e>>}
  BY <1>3, <1>4 DEF AllRequests
<1>6. PICK a, b, d, e \in Good : Steps(op, n) \in {<<a>>, <<a, b>>, <<a, b, d, e>>}
  BY <1>5
<1>7. \A s \in Good : s \in AnyStep /\ s \in Step /\ s[1] \in Later
  OBVIOUS
<1> HIDE DEF Good
<1>8. CASE Steps(op, n) = <<a>>
  BY <1>7, <1>8
<1>9. CASE Steps(op, n) = <<a, b>>
  BY <1>7, <1>9
<1>10. CASE Steps(op, n) = <<a, b, d, e>>
  BY <1>7, <1>10
<1> QED BY <1>6, <1>8, <1>9, <1>10

LEMMA RequestType ==
    ASSUME TypeInv, NEW c \in Client, Request(c)
    PROVE  TypeInv' /\ Stays(c) /\ \A kind : At(c, kind)' => kind \in Later
<1> USE DEF TypeInv
<1>1. PICK op \in Ops[c] \ {"disconnect"}, n \in JailNames :
        /\ todo' = [todo EXCEPT ![c] = Steps(op, n)]
        /\ asked' = IF op = "reload" THEN disk ELSE asked
  BY DEF Request
<1>2. op \in AllRequests
  BY <1>1, ServerAssumption
<1>3. UNCHANGED <<disk, configVars, jailVars, listVars, gone>> /\ requests' = requests + 1
      /\ requests < MaxRequests
  BY DEF Request
<1>4. /\ Steps(op, n) \in Seq(AnyStep) /\ Steps(op, n) # <<>> /\ Head(Steps(op, n))[1] \in Later
      /\ \A k \in DOMAIN Steps(op, n) : Steps(op, n)[k] \in Step /\ Steps(op, n)[k][1] \in Later
      /\ DOMAIN Steps(op, n) = 1..Len(Steps(op, n))
  BY <1>2, StepsAreSteps, LenProperties
<1>5. /\ todo' \in [Client -> Seq(AnyStep)] /\ todo'[c] = Steps(op, n)
      /\ \A d \in Client : d # c => todo'[d] = todo[d]
  BY <1>1, <1>4 DEF StepsOK
<1>6. Step' = Step
  BY <1>3 DEF Step, jailVars
<1>7. StepsOK'
  <2>1. ASSUME NEW d \in Client
        PROVE  /\ \A k \in DOMAIN todo'[d] : todo'[d][k] \in Step'
               /\ \A k \in 2..Len(todo'[d]) : todo'[d][k][1] \in Later
    <3>1. CASE d = c
      <4>1. todo'[d] = Steps(op, n)
        BY <1>5, <3>1
      <4>2. \A k \in 2..Len(Steps(op, n)) : k \in DOMAIN Steps(op, n)
        BY <1>4
      <4> QED BY <1>4, <1>6, <4>1, <4>2
    <3>2. CASE d # c
      <4>1. todo'[d] = todo[d]
        BY <1>5, <3>2, <2>1
      <4> QED BY <1>6, <4>1, <2>1 DEF StepsOK
    <3> QED BY <3>1, <3>2
  <2> QED BY <1>5, <2>1 DEF StepsOK
<1>8. Stays(c) /\ \A kind : At(c, kind)' => kind \in Later
  BY <1>4, <1>5 DEF Stays, At, Idle
<1>9. ~At(c, "join") /\ ~At(c, "spawn") /\ ~At(c, "join")' /\ ~At(c, "spawn")'
  BY <1>8 DEF Request, At, Later
<1>10. GuardsOK' /\ ListsOK' /\ JailsOK'
  BY <1>3, <1>8, <1>9, GuardsStay, ListsStay, JailsStay
     DEF configVars, jailVars, listVars, NumbersOK
<1>11. NumbersOK'
  BY <1>1, <1>3, ServerAssumption DEF NumbersOK, configVars
<1> QED BY <1>7, <1>8, <1>10, <1>11

-----------------------------------------------------------------------------
(* What each step of a client does to the steps that are left.             *)
LEMMA ArgFacts ==
    ASSUME TypeInv, NEW c \in Client, NEW kind, At(c, kind)
    PROVE  /\ ~Idle(c)
           /\ kind \in {"start", "read", "stop"} => Arg(c) \in JailNames
           /\ kind \in {"guard", "spawn"} =>
                 Arg(c) \in JailNames /\ Head(todo[c])[3] \in 0..disk
           /\ kind = "push" => Arg(c) \in DOMAIN inst
           /\ kind = "swap" => Arg(c) \in 0..disk
<1>1. /\ ~Idle(c) /\ Head(todo[c]) \in Step /\ Head(todo[c])[1] = kind
      /\ Arg(c) = Head(todo[c])[2]
  BY AtStep DEF TypeInv
<1> QED BY <1>1 DEF Step

LEMMA CheckStartDoes ==
    ASSUME TypeInv, NEW c \in Client, CheckStart(c)
    PROVE  /\ StepsOK' /\ Stays(c) /\ UNCHANGED <<disk, requests, asked, gone>>
           /\ \A kind : At(c, kind)' =>
                 kind \in Later \/ (kind = "read" /\ ~Listed(Arg(c)) /\ Arg(c)' = Arg(c))
           /\ \A d \in Client : d # c => todo'[d] = todo[d]
           /\ \A k \in DOMAIN todo'[c] :
                 \/ todo'[c][k] = <<"read", Arg(c)>>
                 \/ k + 1 \in 2..Len(todo[c]) /\ todo'[c][k] = todo[c][k + 1]
                 \/ k \in 2..Len(todo[c]) /\ todo'[c][k] = todo[c][k]
<1>0. At(c, "start") /\ ~Idle(c) /\ DOMAIN inst \subseteq DOMAIN inst'
      /\ (Listed(Arg(c)) => GoOn(c, <<>>))
      /\ (~Listed(Arg(c)) => GoOn(c, << <<"read", Arg(c)>> >>))
  BY DEF CheckStart, Continue, jailVars, At
<1>1. CASE Listed(Arg(c))
  <2>1. GoOn(c, <<>>)
    BY <1>0, <1>1
  <2> QED BY <1>0, <2>1, Drops
<1>2. CASE ~Listed(Arg(c))
  <2> DEFINE x == <<"read", Arg(c)>>
  <2>1. GoOn(c, <<x>>)
    BY <1>0, <1>2
  <2>2. x \in AnyStep /\ x \in Step' /\ x[1] = "read" /\ x[2] = Arg(c)
    BY <1>0, ArgFacts DEF AnyStep, Step
  <2> HIDE DEF x
  <2>3. /\ StepsOK' /\ Stays(c) /\ UNCHANGED <<disk, requests, asked, gone>>
        /\ \A kind : At(c, kind)' <=> x[1] = kind
        /\ todo'[c] # <<>> /\ Head(todo'[c]) = x
        /\ \A d \in Client : d # c => todo'[d] = todo[d]
        /\ \A k \in DOMAIN todo'[c] :
              todo'[c][k] = x \/ (k \in 2..Len(todo[c]) /\ todo'[c][k] = todo[c][k])
    BY <1>0, <2>1, <2>2, Turns
  <2>4. Arg(c)' = Arg(c)
    BY <2>2, <2>3 DEF Arg
  <2> QED BY <1>2, <2>2, <2>3, <2>4 DEF x
<1> QED BY <1>1, <1>2

LEMMA ReadConfigDoes ==
    ASSUME TypeInv, NEW c \in Client, ReadConfig(c)
    PROVE  /\ StepsOK' /\ Stays(c) /\ UNCHANGED <<disk, requests, asked, gone>>
           /\ \A kind : At(c, kind)' =>
                 \/ kind \in Later
                 \/ kind = "guard" /\ Arg(c)' = Arg(c) /\ Head(todo'[c])[3] = config
           /\ \A d \in Client : d # c => todo'[d] = todo[d]
           /\ \A k \in DOMAIN todo'[c] :
                 \/ todo'[c][k] = <<"guard", Arg(c), config>>
                 \/ k + 1 \in 2..Len(todo[c]) /\ todo'[c][k] = todo[c][k + 1]
                 \/ k \in 2..Len(todo[c]) /\ todo'[c][k] = todo[c][k]
<1> DEFINE x == <<"guard", Arg(c), config>>
<1>0. At(c, "read") /\ ~Idle(c) /\ DOMAIN inst \subseteq DOMAIN inst'
      /\ (GoOn(c, <<x>>) \/ GoOn(c, <<>>))
  BY DEF ReadConfig, Continue, jailVars, At
<1>1. CASE GoOn(c, <<>>)
  BY <1>0, <1>1, Drops
<1>2. CASE GoOn(c, <<x>>)
  <2>1. config \in Nat /\ config \in 0..disk /\ disk' = disk
    BY <1>2 DEF TypeInv, NumbersOK, GoOn
  <2>2. x \in AnyStep /\ x \in Step' /\ x[1] = "guard" /\ x[2] = Arg(c) /\ x[3] = config
    BY <1>0, <2>1, ArgFacts DEF AnyStep, Step
  <2> HIDE DEF x
  <2>3. /\ StepsOK' /\ Stays(c) /\ UNCHANGED <<disk, requests, asked, gone>>
        /\ \A kind : At(c, kind)' <=> x[1] = kind
        /\ todo'[c] # <<>> /\ Head(todo'[c]) = x
        /\ \A d \in Client : d # c => todo'[d] = todo[d]
        /\ \A k \in DOMAIN todo'[c] :
              todo'[c][k] = x \/ (k \in 2..Len(todo[c]) /\ todo'[c][k] = todo[c][k])
    BY <1>0, <1>2, <2>2, Turns
  <2>4. Arg(c)' = Arg(c)
    BY <2>2, <2>3 DEF Arg
  <2> QED BY <1>2, <2>2, <2>3, <2>4 DEF x
<1> QED BY <1>0, <1>1, <1>2

LEMMA FirstGuardDoes ==
    ASSUME TypeInv, NEW c \in Client, FirstGuard(c)
    PROVE  /\ StepsOK' /\ Stays(c) /\ UNCHANGED <<disk, requests, asked, gone>>
           /\ \A kind : At(c, kind)' <=> kind = "spawn"
           /\ Arg(c)' = Arg(c) /\ Head(todo'[c])[3] = Head(todo[c])[3]
           /\ \A d \in Client : d # c => todo'[d] = todo[d]
           /\ \A k \in DOMAIN todo'[c] :
                 \/ todo'[c][k] = <<"spawn", Arg(c), Head(todo[c])[3]>>
                 \/ k \in 2..Len(todo[c]) /\ todo'[c][k] = todo[c][k]
<1> DEFINE x == <<"spawn", Arg(c), Head(todo[c])[3]>>
<1>0. At(c, "guard") /\ ~Idle(c) /\ DOMAIN inst \subseteq DOMAIN inst'
      /\ GoOn(c, <<x>>)
  BY DEF FirstGuard, Continue, jailVars, At
<1>1. disk' = disk /\ disk \in Nat
  BY <1>0 DEF TypeInv, NumbersOK, GoOn
<1>2. /\ x \in AnyStep /\ x \in Step' /\ x[1] = "spawn" /\ x[2] = Arg(c)
      /\ x[3] = Head(todo[c])[3]
  BY <1>0, <1>1, ArgFacts DEF AnyStep, Step
<1> HIDE DEF x
<1>3. /\ StepsOK' /\ Stays(c) /\ UNCHANGED <<disk, requests, asked, gone>>
      /\ \A kind : At(c, kind)' <=> x[1] = kind
      /\ todo'[c] # <<>> /\ Head(todo'[c]) = x
      /\ \A d \in Client : d # c => todo'[d] = todo[d]
      /\ \A k \in DOMAIN todo'[c] :
            todo'[c][k] = x \/ (k \in 2..Len(todo[c]) /\ todo'[c][k] = todo[c][k])
  BY <1>0, <1>2, Turns
<1>4. Arg(c)' = Arg(c) /\ Head(todo'[c])[3] = Head(todo[c])[3]
  BY <1>2, <1>3 DEF Arg
<1> QED BY <1>2, <1>3, <1>4 DEF x

(* The list of the jails ever spawned, after one more.                     *)
New(c) == [jail |-> Arg(c), cfg |-> Head(todo[c])[3], life |-> "running"]

LEMMA SpawnDoes ==
    ASSUME TypeInv, NEW c \in Client, Spawn(c)
    PROVE  /\ StepsOK' /\ Stays(c) /\ UNCHANGED <<disk, requests, asked, gone>>
           /\ \A kind : At(c, kind)' <=> kind = "push"
           /\ Arg(c)' = Len(inst) + 1 /\ Len(inst) \in Nat
           /\ \A d \in Client : d # c => todo'[d] = todo[d]
           /\ \A k \in DOMAIN todo'[c] :
                 \/ todo'[c][k] = <<"push", Len(inst) + 1>>
                 \/ k \in 2..Len(todo[c]) /\ todo'[c][k] = todo[c][k]
           /\ inst' \in Seq(Jails) /\ DOMAIN inst' = DOMAIN inst \cup {Len(inst) + 1}
           /\ \A i \in DOMAIN inst : i # Len(inst) + 1 /\ inst'[i] = inst[i]
           /\ inst'[Len(inst) + 1] = New(c)
<1> DEFINE x == <<"push", Len(inst) + 1>>
<1>0. At(c, "spawn") /\ ~Idle(c) /\ GoOn(c, <<x>>) /\ inst' = Append(inst, New(c))
  BY DEF Spawn, Continue, At, New
<1>1. inst \in Seq(Jails) /\ New(c) \in Jails
  <2>1. Arg(c) \in JailNames /\ Head(todo[c])[3] \in 0..disk /\ disk \in Nat
    BY <1>0, ArgFacts DEF TypeInv, NumbersOK
  <2>2. Head(todo[c])[3] \in Nat
    BY <2>1
  <2> QED BY <2>1, <2>2 DEF New, Jails, TypeInv, JailsOK
<1>2. /\ inst' \in Seq(Jails) /\ Len(inst') = Len(inst) + 1 /\ Len(inst) \in Nat
      /\ \A i \in 1..Len(inst) : inst'[i] = inst[i]
      /\ inst'[Len(inst) + 1] = New(c)
  BY <1>0, <1>1, AppendProperties, LenProperties
<1>3. DOMAIN inst' = DOMAIN inst \cup {Len(inst) + 1} /\ DOMAIN inst = 1..Len(inst)
  BY <1>1, <1>2, LenProperties
<1>4. /\ x \in AnyStep /\ x \in Step' /\ x[1] = "push" /\ x[2] = Len(inst) + 1
  BY <1>2, <1>3 DEF AnyStep, Step
<1> HIDE DEF x
<1>5. /\ StepsOK' /\ Stays(c) /\ UNCHANGED <<disk, requests, asked, gone>>
      /\ \A kind : At(c, kind)' <=> x[1] = kind
      /\ todo'[c] # <<>> /\ Head(todo'[c]) = x
      /\ \A d \in Client : d # c => todo'[d] = todo[d]
      /\ \A k \in DOMAIN todo'[c] :
            todo'[c][k] = x \/ (k \in 2..Len(todo[c]) /\ todo'[c][k] = todo[c][k])
  BY <1>0, <1>3, <1>4, Turns
<1>6. Arg(c)' = Len(inst) + 1
  BY <1>4, <1>5 DEF Arg
<1> QED BY <1>2, <1>3, <1>4, <1>5, <1>6 DEF x

(* A step that is over; the ones after it are left.                        *)
LEMMA EndsDo ==
    ASSUME TypeInv, NEW c \in Client,
           \/ Push(c) \/ EndStop(c) \/ SwapConfig(c) \/ ReadList(c)
           \/ BeginStop(c) /\ ~Listed(Arg(c))
    PROVE  /\ ~Idle(c) /\ StepsOK' /\ Stays(c) /\ UNCHANGED <<disk, requests, asked, gone>>
           /\ UNCHANGED <<inst, tailing>>
           /\ \A kind : At(c, kind)' => kind \in Later
           /\ \A d \in Client : d # c => todo'[d] = todo[d]
           /\ \A k \in DOMAIN todo'[c] :
                 k + 1 \in 2..Len(todo[c]) /\ todo'[c][k] = todo[c][k + 1]
<1>1. GoOn(c, <<>>) /\ ~Idle(c) /\ UNCHANGED <<inst, tailing>>
  BY DEF Push, EndStop, SwapConfig, ReadList, BeginStop, Continue, At, jailVars
<1> QED BY <1>1, Drops

LEMMA BeginStopDoes ==
    ASSUME TypeInv, NEW c \in Client,
           (BeginStop(c) /\ Listed(Arg(c))) \/ BeginStopAll(c)
    PROVE  /\ ~Idle(c) /\ StepsOK' /\ Stays(c) /\ UNCHANGED <<disk, requests, asked, gone>>
           /\ UNCHANGED <<inst, tailing>>
           /\ \A kind : At(c, kind)' <=> kind = "join"
           /\ \A d \in Client : d # c => todo'[d] = todo[d]
           /\ \A k \in DOMAIN todo'[c] :
                 \/ todo'[c][k] = <<"join", None>>
                 \/ k \in 2..Len(todo[c]) /\ todo'[c][k] = todo[c][k]
           /\ lock = None /\ lock' = c /\ draining = <<>>
           /\ listed' \in Seq(Nat) /\ draining' \in Seq(Nat)
           /\ \A i : Holds(listed', i) \/ Holds(draining', i) <=> Holds(listed, i)
<1> DEFINE x == <<"join", None>>
<1>1. GoOn(c, <<x>>) /\ ~Idle(c) /\ UNCHANGED <<inst, tailing>> /\ lock = None /\ lock' = c
  BY DEF BeginStop, BeginStopAll, Continue, At, jailVars
<1>2. x \in AnyStep /\ x \in Step' /\ x[1] = "join"
  BY DEF AnyStep, Step
<1> HIDE DEF x
<1>3. /\ StepsOK' /\ Stays(c) /\ UNCHANGED <<disk, requests, asked, gone>>
      /\ \A kind : At(c, kind)' <=> x[1] = kind
      /\ \A d \in Client : d # c => todo'[d] = todo[d]
      /\ \A k \in DOMAIN todo'[c] :
            todo'[c][k] = x \/ (k \in 2..Len(todo[c]) /\ todo'[c][k] = todo[c][k])
  BY <1>1, <1>2, Turns
<1>4. listed \in Seq(Nat) /\ draining = <<>>
  BY <1>1 DEF TypeInv, ListsOK, GuardsOK
<1>5. /\ listed' \in Seq(Nat) /\ draining' \in Seq(Nat)
      /\ \A i : Holds(listed', i) \/ Holds(draining', i) <=> Holds(listed, i)
  <2>1. CASE BeginStopAll(c)
    <3>1. \A i : ~Holds(<<>>, i)
      BY DEF Holds
    <3> QED BY <1>4, <2>1, <3>1 DEF BeginStopAll
  <2>2. CASE BeginStop(c) /\ Listed(Arg(c))
    <3> DEFINE k == FirstListed(Arg(c))
    <3>1. k \in DOMAIN listed
      BY <2>2, FirstListedFacts DEF TypeInv
    <3>2. listed' = RemoveAt(listed, k) /\ draining' = <<listed[k]>>
      BY <2>2 DEF BeginStop
    <3> HIDE DEF k
    <3>3. listed[k] \in Nat
      BY <1>4, <3>1, ElementOfSeq, LenProperties
    <3>4. draining' \in Seq(Nat) /\ \A i : Holds(draining', i) <=> i = listed[k]
      <4>1. DOMAIN draining' = {1} /\ draining'[1] = listed[k]
        BY <3>2
      <4> QED BY <3>2, <3>3, <4>1 DEF Holds
    <3>5. /\ RemoveAt(listed, k) \in Seq(Nat)
          /\ \A i : Holds(RemoveAt(listed, k), i) => Holds(listed, i)
          /\ \A i : Holds(listed, i) => i = listed[k] \/ Holds(RemoveAt(listed, k), i)
      BY <1>4, <3>1, HoldsRemoved
    <3>6. Holds(listed, listed[k])
      BY <3>1 DEF Holds
    <3> QED BY <3>2, <3>4, <3>5, <3>6
  <2> QED BY <2>1, <2>2
<1> QED BY <1>1, <1>2, <1>3, <1>4, <1>5 DEF x

(* A reload that fails to open the database has no steps left.             *)
LEMMA ReopenDoes ==
    ASSUME TypeInv, NEW c \in Client, Reopen(c)
    PROVE  /\ ~Idle(c) /\ StepsOK' /\ Stays(c)
           /\ UNCHANGED <<disk, requests, asked, gone, inst, tailing>>
           /\ \A kind : At(c, kind)' => kind \in Later
           /\ \A d \in Client : d # c => todo'[d] = todo[d]
           /\ \A k \in DOMAIN todo'[c] :
                 k + 1 \in 2..Len(todo[c]) /\ todo'[c][k] = todo[c][k + 1]
<1>1. UNCHANGED <<disk, requests, asked, gone, inst, tailing>> /\ ~Idle(c)
  BY DEF Reopen, jailVars, At
<1>2. CASE todo' = [todo EXCEPT ![c] = Tail(@)]
  <2>1. <<>> \o Tail(todo[c]) = Tail(todo[c])
    <3>1. todo[c] \in Seq(AnyStep) /\ todo[c] # <<>>
      BY <1>1 DEF TypeInv, StepsOK, Idle
    <3>2. Tail(todo[c]) \in Seq(AnyStep)
      BY <3>1, HeadTailProperties
    <3> QED BY <3>2, ConcatEmptySeq
  <2>2. GoOn(c, <<>>)
    BY <1>1, <1>2, <2>1 DEF GoOn
  <2> QED BY <1>1, <2>2, Drops
<1>3. CASE todo' = [todo EXCEPT ![c] = <<>>]
  <2>1. <<>> \in Seq(AnyStep) /\ DOMAIN <<>> = {} /\ 2..Len(<<>>) = {}
    OBVIOUS
  <2>2. /\ todo' \in [Client -> Seq(AnyStep)] /\ todo'[c] = <<>>
        /\ \A d \in Client : d # c => todo'[d] = todo[d]
    BY <1>3, <2>1 DEF TypeInv, StepsOK
  <2>3. Step' = Step
    BY <1>1 DEF Step
  <2> QED BY <1>1, <2>1, <2>2, <2>3 DEF TypeInv, StepsOK, Stays, At, Idle
<1> QED BY <1>2, <1>3 DEF Reopen

(* start_all_enabled puts a start of each jail, and one look at the list   *)
(* at the end, in its place.                                               *)
LEMMA StartAllDoes ==
    ASSUME TypeInv, NEW c \in Client, StartAll(c)
    PROVE  /\ ~Idle(c) /\ StepsOK' /\ Stays(c) /\ UNCHANGED <<disk, requests, asked, gone>>
           /\ UNCHANGED <<inst, tailing>>
           /\ \A kind : At(c, kind)' => kind \in Later
           /\ \A d \in Client : d # c => todo'[d] = todo[d]
           /\ \A k \in DOMAIN todo'[c] :
                 \/ todo'[c][k][1] \in {"start", "list"}
                 \/ \E l \in 2..Len(todo[c]) : todo'[c][k] = todo[c][l]
<1> DEFINE new == StartAllSteps
<1>1. GoOn(c, new) /\ ~Idle(c) /\ UNCHANGED <<inst, tailing>>
  BY DEF StartAll, StartAllSteps, Continue, At, jailVars
<1>2. new \in Seq(AnyStep) /\ DOMAIN new = 1..Len(new) /\ Len(new) \in Nat
      /\ \A k \in DOMAIN new : new[k] \in {"start"} \X JailNames \/ new[k] = <<"list", None>>
  BY StartAllIsSteps, LenProperties
<1> HIDE DEF new
<1>3. \A k \in DOMAIN new : new[k] \in Step /\ new[k][1] \in {"start", "list"}
  <2>1. /\ \A s \in {"start"} \X JailNames : s \in Step /\ s[1] = "start"
        /\ <<"list", None>> \in Step
    BY DEF Step
  <2> QED BY <1>2, <2>1
<1>4. \A k \in 2..Len(new) : new[k][1] \in Later
  <2> SUFFICES ASSUME NEW k \in 2..Len(new) PROVE new[k][1] \in Later
    OBVIOUS
  <2>1. k \in DOMAIN new
    BY <1>2
  <2> QED BY <1>3, <2>1 DEF Later
<1>5. /\ todo' \in [Client -> Seq(AnyStep)]
      /\ \A d \in Client : d # c => todo'[d] = todo[d]
      /\ \A d \in Client : \A k \in 2..Len(todo'[d]) : todo'[d][k][1] \in Later
      /\ \A k \in DOMAIN todo'[c] :
            \/ k \in DOMAIN new /\ todo'[c][k] = new[k]
            \/ k > Len(new) /\ k - Len(new) + 1 \in 2..Len(todo[c])
               /\ todo'[c][k] = todo[c][k - Len(new) + 1]
      /\ new # <<>> => todo'[c] # <<>> /\ Head(todo'[c]) = new[1]
      /\ new = <<>> /\ todo'[c] # <<>> => Head(todo'[c])[1] \in Later
      /\ UNCHANGED <<disk, requests, asked, gone>>
  BY <1>1, <1>2, <1>4, Goes DEF TypeInv
<1>6. Step' = Step
  BY <1>1, <1>5 DEF Step
<1>7. \A d \in Client : \A k \in DOMAIN todo'[d] : todo'[d][k] \in Step'
  <2> SUFFICES ASSUME NEW d \in Client, NEW k \in DOMAIN todo'[d]
               PROVE  todo'[d][k] \in Step'
    OBVIOUS
  <2>1. CASE d # c
    BY <1>5, <1>6, <2>1 DEF TypeInv, StepsOK
  <2>2. CASE d = c /\ k \in DOMAIN new /\ todo'[c][k] = new[k]
    BY <1>3, <1>6, <2>2
  <2>3. CASE /\ d = c /\ k - Len(new) + 1 \in 2..Len(todo[c])
             /\ todo'[c][k] = todo[c][k - Len(new) + 1]
    <3>1. todo[c] \in Seq(AnyStep)
      BY DEF TypeInv, StepsOK
    <3>2. k - Len(new) + 1 \in DOMAIN todo[c]
      BY <2>3, <3>1, LenProperties
    <3> QED BY <1>6, <2>3, <3>2 DEF TypeInv, StepsOK
  <2> QED BY <1>5, <2>1, <2>2, <2>3
<1>8. \A kind : At(c, kind)' => kind \in Later
  <2>1. new # <<>> => 1 \in DOMAIN new
    BY <1>2, EmptySeq
  <2> QED BY <1>3, <1>5, <2>1 DEF At, Idle, Later
<1>9. \A k \in DOMAIN todo'[c] :
         \/ todo'[c][k][1] \in {"start", "list"}
         \/ \E l \in 2..Len(todo[c]) : todo'[c][k] = todo[c][l]
  BY <1>3, <1>5
<1> QED BY <1>1, <1>5, <1>7, <1>8, <1>9 DEF StepsOK, Stays, At, Idle

(* A client that waits for a task, or goes away.                           *)
LEMMA JoinDoes ==
    ASSUME TypeInv, NEW c \in Client, SendStop(c) \/ Joined(c)
    PROVE  /\ At(c, "join") /\ lock = c /\ draining # <<>>
           /\ Head(draining) \in DOMAIN inst /\ Holds(draining, Head(draining))
           /\ Tail(draining) \in Seq(Nat)
           /\ \A i : Holds(Tail(draining), i) => Holds(draining, i)
           /\ \A i : Holds(draining, i) => i = Head(draining) \/ Holds(Tail(draining), i)
<1>1. At(c, "join") /\ draining # <<>> /\ lock = c
  BY DEF SendStop, Joined, TypeInv, GuardsOK
<1>2. draining \in Seq(Nat)
  BY DEF TypeInv, ListsOK
<1>3. /\ Holds(draining, Head(draining))
      /\ Tail(draining) \in Seq(Nat)
      /\ \A i : Holds(Tail(draining), i) => Holds(draining, i)
      /\ \A i : Holds(draining, i) => i = Head(draining) \/ Holds(Tail(draining), i)
  BY <1>1, <1>2, HoldsTail
<1>4. Head(draining) \in DOMAIN inst
  BY <1>3 DEF TypeInv, ListsOK
<1> QED BY <1>1, <1>3, <1>4

LEMMA DisconnectDoes ==
    ASSUME TypeInv, NEW c \in Client, Disconnect(c)
    PROVE  /\ StepsOK' /\ Stays(c) /\ UNCHANGED <<disk, requests, asked>> /\ gone' = TRUE
           /\ ~At(c, "spawn") /\ \A kind : ~At(c, kind)'
           /\ UNCHANGED <<inst, tailing, config, readers, listed>>
<1>1. /\ todo' = [todo EXCEPT ![c] = <<>>] /\ UNCHANGED <<disk, requests, asked>> /\ gone' = TRUE
      /\ UNCHANGED <<inst, tailing, config, readers, listed>>
      /\ ~At(c, "spawn")
  BY DEF Disconnect, configVars, jailVars, Awaits, At
<1>2. <<>> \in Seq(AnyStep) /\ DOMAIN <<>> = {} /\ 2..Len(<<>>) = {}
  OBVIOUS
<1>3. /\ todo' \in [Client -> Seq(AnyStep)] /\ todo'[c] = <<>>
      /\ \A d \in Client : d # c => todo'[d] = todo[d]
  BY <1>1, <1>2 DEF TypeInv, StepsOK
<1>4. Step' = Step
  BY <1>1 DEF Step
<1>5. \A d \in Client : /\ \A k \in DOMAIN todo'[d] : todo'[d][k] \in Step'
                       /\ \A k \in 2..Len(todo'[d]) : todo'[d][k][1] \in Later
  <2> SUFFICES ASSUME NEW d \in Client
               PROVE  /\ \A k \in DOMAIN todo'[d] : todo'[d][k] \in Step'
                      /\ \A k \in 2..Len(todo'[d]) : todo'[d][k][1] \in Later
    OBVIOUS
  <2>1. CASE d = c
    BY <1>2, <1>3, <2>1
  <2>2. CASE d # c
    BY <1>3, <1>4, <2>2 DEF TypeInv, StepsOK
  <2> QED BY <2>1, <2>2
<1>6. StepsOK'
  BY <1>3, <1>5 DEF StepsOK
<1>7. Stays(c) /\ \A kind : ~At(c, kind)'
  BY <1>3 DEF Stays, At, Idle
<1> QED BY <1>1, <1>6, <1>7

-----------------------------------------------------------------------------
LEMMA NumbersStay ==
    ASSUME NumbersOK, UNCHANGED <<disk, config, asked, requests>>, gone' \in BOOLEAN
    PROVE  NumbersOK'
  BY DEF NumbersOK

(* The life of a jail goes on; its name and its configuration stay.        *)
LEMMA LifeOnly ==
    ASSUME JailsOK, NEW i \in DOMAIN inst, NEW l \in {"leaving", "ended"},
           inst' = [inst EXCEPT ![i].life = l]
    PROVE  /\ inst' \in Seq(Jails) /\ DOMAIN inst' = DOMAIN inst
           /\ \A j \in DOMAIN inst :
                 /\ inst'[j].cfg = inst[j].cfg /\ inst'[j].jail = inst[j].jail
                 /\ inst'[j].life = IF j = i THEN l ELSE inst[j].life
<1>1. inst \in Seq(Jails) /\ inst \in [1..Len(inst) -> Jails] /\ Len(inst) \in Nat
      /\ DOMAIN inst = 1..Len(inst)
  BY LenProperties DEF JailsOK
<1>2. inst[i] \in Jails /\ [inst[i] EXCEPT !.life = l] \in Jails
      /\ [inst[i] EXCEPT !.life = l].cfg = inst[i].cfg
      /\ [inst[i] EXCEPT !.life = l].jail = inst[i].jail
      /\ [inst[i] EXCEPT !.life = l].life = l
  BY <1>1 DEF Jails
<1>3. inst' = [inst EXCEPT ![i] = [inst[i] EXCEPT !.life = l]]
  OBVIOUS
<1>4. inst' \in [1..Len(inst) -> Jails] /\ DOMAIN inst' = DOMAIN inst
  BY <1>1, <1>2, <1>3
<1>5. inst' \in Seq(Jails)
  BY <1>1, <1>4
<1>6. \A j \in DOMAIN inst : j # i => inst'[j] = inst[j]
  BY <1>3
<1>7. inst'[i] = [inst[i] EXCEPT !.life = l]
  BY <1>3
<1> QED BY <1>2, <1>4, <1>5, <1>6, <1>7

(* One step of a client.                                                   *)
LEMMA ClientType ==
    ASSUME TypeInv, NEW c \in Client, ClientStep(c)
    PROVE  TypeInv'
<1> USE DEF TypeInv
<1>0. disk \in Nat /\ gone \in BOOLEAN
  BY DEF NumbersOK
<1>a. \A k1, k2 : At(c, k1) /\ At(c, k2) => k1 = k2
  BY DEF At
<1>b. ASSUME UNCHANGED <<disk, asked, requests, gone, config, readers, inst, tailing,
                         listed, lock, draining>>,
             StepsOK', Stays(c), ~At(c, "join"), ~At(c, "spawn"),
             ~At(c, "join")', ~At(c, "spawn")'
      PROVE  TypeInv'
  BY <1>0, <1>b, GuardsStay, JailsStay, ListsStay, NumbersStay
<1>1. CASE CheckStart(c)
  <2>1. UNCHANGED <<config, readers, inst, tailing, listed, lock, draining>> /\ At(c, "start")
    BY <1>1 DEF CheckStart, configVars, jailVars, listVars
  <2> QED BY <1>1, <1>a, <1>b, <2>1, CheckStartDoes DEF Later
<1>2. CASE ReadConfig(c)
  <2>1. UNCHANGED <<config, readers, inst, tailing, listed, lock, draining>> /\ At(c, "read")
    BY <1>2 DEF ReadConfig, configVars, jailVars, listVars
  <2> QED BY <1>2, <1>a, <1>b, <2>1, ReadConfigDoes DEF Later
<1>3. CASE FirstGuard(c)
  <2>1. /\ UNCHANGED <<config, inst, tailing, listed, lock, draining>> /\ At(c, "guard")
        /\ readers' = readers \cup {c}
    BY <1>3 DEF FirstGuard, jailVars, listVars
  <2>2. /\ StepsOK' /\ Stays(c) /\ UNCHANGED <<disk, requests, asked, gone>>
        /\ \A kind : At(c, kind)' <=> kind = "spawn"
    BY <1>3, FirstGuardDoes
  <2>3. GuardsOK'
    BY <1>a, <2>1, <2>2 DEF GuardsOK, Stays
  <2> QED BY <1>0, <2>1, <2>2, <2>3, JailsStay, ListsStay, NumbersStay
<1>4. CASE Spawn(c)
  <2>1. /\ UNCHANGED <<config, listed, lock, draining>> /\ At(c, "spawn")
        /\ readers' = readers \ {c} /\ tailing' = tailing \cup {Len(inst) + 1}
    BY <1>4 DEF Spawn, listVars
  <2>2. /\ StepsOK' /\ Stays(c) /\ UNCHANGED <<disk, requests, asked, gone>>
        /\ \A kind : At(c, kind)' <=> kind = "push"
        /\ inst' \in Seq(Jails) /\ DOMAIN inst' = DOMAIN inst \cup {Len(inst) + 1}
        /\ \A i \in DOMAIN inst : inst'[i] = inst[i]
        /\ inst'[Len(inst) + 1] = New(c)
    BY <1>4, SpawnDoes
  <2>3. GuardsOK'
    BY <1>a, <2>1, <2>2 DEF GuardsOK, Stays
  <2>4. JailsOK'
    <3>1. New(c).cfg \in 0..disk
      BY <2>1, ArgFacts DEF New
    <3>2. \A i \in DOMAIN inst' : inst'[i].cfg \in 0..disk'
      BY <2>2, <3>1 DEF JailsOK
    <3> QED BY <2>1, <2>2, <3>2 DEF JailsOK
  <2> QED BY <1>0, <2>1, <2>2, <2>3, <2>4, ListsStay, NumbersStay
<1>5. CASE Push(c)
  <2>1. /\ UNCHANGED <<config, readers, lock, draining>> /\ At(c, "push") /\ lock = None
        /\ listed' = Append(listed, Arg(c))
    BY <1>5 DEF Push, configVars
  <2>2. /\ StepsOK' /\ Stays(c) /\ UNCHANGED <<disk, requests, asked, gone>>
        /\ UNCHANGED <<inst, tailing>> /\ \A kind : At(c, kind)' => kind \in Later
    BY <1>5, EndsDo
  <2>3. GuardsOK'
    BY <1>a, <2>1, <2>2, GuardsStay DEF Later
  <2>4. ListsOK'
    <3>1. Arg(c) \in DOMAIN inst
      BY <2>1, ArgFacts
    <3>2. Arg(c) \in Nat
      BY <3>1, LenProperties DEF JailsOK
    <3>3. listed' \in Seq(Nat) /\ \A i : Holds(listed', i) <=> Holds(listed, i) \/ i = Arg(c)
      BY <2>1, <3>2, HoldsAppend DEF ListsOK
    <3> QED BY <2>1, <2>2, <3>1, <3>3 DEF ListsOK
  <2> QED BY <1>0, <2>1, <2>2, <2>3, <2>4, JailsStay, NumbersStay
<1>6. CASE (BeginStop(c) /\ Listed(Arg(c))) \/ BeginStopAll(c)
  <2>1. UNCHANGED <<config, readers>> /\ (At(c, "stop") \/ At(c, "stop_all"))
    BY <1>6 DEF BeginStop, BeginStopAll, configVars
  <2>2. /\ StepsOK' /\ Stays(c) /\ UNCHANGED <<disk, requests, asked, gone>>
        /\ UNCHANGED <<inst, tailing>> /\ \A kind : At(c, kind)' <=> kind = "join"
        /\ lock = None /\ lock' = c
        /\ listed' \in Seq(Nat) /\ draining' \in Seq(Nat)
        /\ \A i : Holds(listed', i) \/ Holds(draining', i) <=> Holds(listed, i)
    BY <1>6, BeginStopDoes
  <2>3. GuardsOK'
    <3>1. /\ lock' \in Client \cup {None} /\ readers' \subseteq Client
          /\ lock' = None => draining' = <<>>
      BY <2>1, <2>2, ServerAssumption DEF GuardsOK
    <3>2. \A d \in Client : lock' = d <=> At(d, "join")'
      <4> SUFFICES ASSUME NEW d \in Client PROVE lock' = d <=> At(d, "join")'
        OBVIOUS
      <4>1. d # c => ~At(d, "join")'
        BY <2>2, ServerAssumption DEF GuardsOK, Stays
      <4> QED BY <2>2, <4>1
    <3>3. \A d \in Client : d \in readers' <=> At(d, "spawn")'
      BY <1>a, <2>1, <2>2 DEF GuardsOK, Stays
    <3> QED BY <3>1, <3>2, <3>3 DEF GuardsOK
  <2>4. ListsOK'
    BY <2>2 DEF ListsOK
  <2> QED BY <1>0, <2>1, <2>2, <2>3, <2>4, JailsStay, NumbersStay
<1>7. CASE BeginStop(c) /\ ~Listed(Arg(c))
  <2>1. UNCHANGED <<config, readers, inst, tailing, listed, lock, draining>> /\ At(c, "stop")
    BY <1>7 DEF BeginStop, configVars, jailVars, listVars
  <2> QED BY <1>7, <1>a, <1>b, <2>1, EndsDo DEF Later
<1>8. CASE SendStop(c)
  <2>1. /\ UNCHANGED <<disk, config, readers, tailing, listed, lock, draining, todo, requests,
                       asked, gone>>
        /\ inst' = [inst EXCEPT ![Head(draining)].life = "leaving"]
    BY <1>8 DEF SendStop, configVars, listVars
  <2>2. /\ inst' \in Seq(Jails) /\ DOMAIN inst' = DOMAIN inst
        /\ \A i \in DOMAIN inst : inst'[i].cfg = inst[i].cfg
    BY <1>8, <2>1, JoinDoes, LifeOnly
  <2>3. JailsOK' /\ StepsOK'
    BY <2>1, <2>2 DEF JailsOK, StepsOK, Step
  <2>4. ListsOK'
    BY <2>1, <2>2, ListsStay
  <2>5. GuardsOK'
    BY <2>1 DEF GuardsOK, At, Idle
  <2> QED BY <1>0, <2>1, <2>3, <2>4, <2>5, NumbersStay
<1>9. CASE Joined(c)
  <2>1. /\ UNCHANGED <<disk, config, readers, inst, tailing, listed, lock, todo, requests,
                       asked, gone>>
        /\ draining' = Tail(draining)
    BY <1>9 DEF Joined, configVars, jailVars
  <2>2. /\ lock = c /\ Tail(draining) \in Seq(Nat)
        /\ \A i : Holds(Tail(draining), i) => Holds(draining, i)
    BY <1>9, JoinDoes
  <2>3. JailsOK' /\ StepsOK'
    BY <2>1 DEF JailsOK, StepsOK, Step
  <2>4. ListsOK'
    BY <2>1, <2>2 DEF ListsOK
  <2>5. GuardsOK'
    BY <2>1, <2>2, ServerAssumption DEF GuardsOK, At, Idle
  <2> QED BY <1>0, <2>1, <2>3, <2>4, <2>5, NumbersStay
<1>10. CASE EndStop(c)
  <2>1. /\ UNCHANGED <<config, readers, listed, draining>> /\ At(c, "join") /\ lock' = None
        /\ draining = <<>>
    BY <1>10 DEF EndStop, configVars
  <2>2. /\ StepsOK' /\ Stays(c) /\ UNCHANGED <<disk, requests, asked, gone>>
        /\ UNCHANGED <<inst, tailing>> /\ \A kind : At(c, kind)' => kind \in Later
    BY <1>10, EndsDo
  <2>3. GuardsOK'
    <3>1. lock = c
      BY <2>1 DEF GuardsOK
    <3>2. \A d \in Client : ~At(d, "join")'
      BY <2>2, <3>1 DEF GuardsOK, Stays, Later
    <3>3. \A d \in Client : lock' # d
      BY <2>1, ServerAssumption
    <3>4. \A d \in Client : d \in readers' <=> At(d, "spawn")'
      BY <1>a, <2>1, <2>2 DEF GuardsOK, Stays, Later
    <3> QED BY <2>1, <3>2, <3>3, <3>4 DEF GuardsOK
  <2> QED BY <1>0, <2>1, <2>2, <2>3, JailsStay, ListsStay, NumbersStay
<1>11. CASE SwapConfig(c)
  <2>1. /\ UNCHANGED <<readers, listed, lock, draining>> /\ At(c, "swap") /\ config' = Arg(c)
    BY <1>11 DEF SwapConfig, listVars
  <2>2. /\ StepsOK' /\ Stays(c) /\ UNCHANGED <<disk, requests, asked, gone>>
        /\ UNCHANGED <<inst, tailing>> /\ \A kind : At(c, kind)' => kind \in Later
    BY <1>11, EndsDo
  <2>3. GuardsOK'
    BY <1>a, <2>1, <2>2, GuardsStay DEF Later
  <2>4. NumbersOK'
    BY <2>1, <2>2, ArgFacts DEF NumbersOK
  <2> QED BY <1>0, <2>1, <2>2, <2>3, <2>4, JailsStay, ListsStay
<1>12. CASE Reopen(c)
  <2>1. UNCHANGED <<config, readers, listed, lock, draining>> /\ At(c, "reopen")
    BY <1>12 DEF Reopen, configVars, listVars
  <2> QED BY <1>12, <1>a, <1>b, <2>1, ReopenDoes DEF Later
<1>13. CASE StartAll(c)
  <2>1. UNCHANGED <<config, readers, listed, lock, draining>> /\ At(c, "start_all")
    BY <1>13 DEF StartAll, configVars, listVars
  <2> QED BY <1>13, <1>a, <1>b, <2>1, StartAllDoes DEF Later
<1>14. CASE ReadList(c)
  <2>1. UNCHANGED <<config, readers, listed, lock, draining>> /\ At(c, "list")
    BY <1>14 DEF ReadList, configVars, listVars
  <2> QED BY <1>14, <1>a, <1>b, <2>1, EndsDo DEF Later
<1> QED BY <1>1, <1>2, <1>3, <1>4, <1>5, <1>6, <1>7, <1>8, <1>9, <1>10, <1>11, <1>12,
           <1>13, <1>14 DEF ClientStep

LEMMA DisconnectType ==
    ASSUME TypeInv, NEW c \in Client, Disconnect(c)
    PROVE  TypeInv'
<1>1. /\ StepsOK' /\ Stays(c) /\ UNCHANGED <<disk, requests, asked>> /\ gone' = TRUE
      /\ ~At(c, "spawn") /\ \A kind : ~At(c, kind)'
      /\ UNCHANGED <<inst, tailing, config, readers, listed>>
  BY DisconnectDoes
<1>2. IF lock = c THEN lock' = None /\ draining' = <<>> ELSE UNCHANGED <<lock, draining>>
  BY DEF Disconnect
<1>3. GuardsOK'
  <2>1. /\ lock' \in Client \cup {None} /\ readers' \subseteq Client
        /\ lock' = None => draining' = <<>>
    BY <1>1, <1>2 DEF TypeInv, GuardsOK
  <2>2. \A d \in Client : lock' = d <=> At(d, "join")'
    BY <1>1, <1>2, ServerAssumption DEF TypeInv, GuardsOK, Stays
  <2>3. \A d \in Client : d \in readers' <=> At(d, "spawn")'
    BY <1>1 DEF TypeInv, GuardsOK, Stays
  <2> QED BY <2>1, <2>2, <2>3 DEF GuardsOK
<1>4. ListsOK'
  <2>1. draining' = draining \/ draining' = <<>>
    BY <1>2
  <2>2. <<>> \in Seq(Nat) /\ \A i : ~Holds(<<>>, i)
    BY DEF Holds
  <2> QED BY <1>1, <2>1, <2>2 DEF TypeInv, ListsOK
<1>5. JailsOK' /\ NumbersOK'
  BY <1>1, JailsStay, NumbersStay DEF TypeInv, NumbersOK
<1> QED BY <1>1, <1>3, <1>4, <1>5 DEF TypeInv

LEMMA TaskType ==
    ASSUME TypeInv, TaskStep
    PROVE  TypeInv'
<1>1. PICK i \in DOMAIN inst : TaskEnds(i) \/ BackendEnds(i)
  BY DEF TaskStep
<1>2. UNCHANGED <<disk, config, readers, listed, lock, draining, todo, requests, asked, gone>>
  BY <1>1 DEF TaskEnds, BackendEnds, configVars, listVars
<1>3. JailsOK' /\ DOMAIN inst' = DOMAIN inst
  <2>1. CASE TaskEnds(i)
    <3>1. inst' = [inst EXCEPT ![i].life = "ended"] /\ tailing' = tailing
      BY <2>1 DEF TaskEnds
    <3>2. /\ inst' \in Seq(Jails) /\ DOMAIN inst' = DOMAIN inst
          /\ \A j \in DOMAIN inst : inst'[j].cfg = inst[j].cfg
      BY <3>1, LifeOnly DEF TypeInv
    <3> QED BY <1>2, <3>1, <3>2 DEF TypeInv, JailsOK
  <2>2. CASE BackendEnds(i)
    BY <1>2, <2>2 DEF TypeInv, JailsOK, BackendEnds
  <2> QED BY <1>1, <2>1, <2>2
<1>4. StepsOK' /\ GuardsOK' /\ NumbersOK'
  BY <1>2, <1>3 DEF TypeInv, StepsOK, GuardsOK, NumbersOK, Step, At, Idle
<1>5. ListsOK'
  BY <1>2, <1>3, ListsStay DEF TypeInv
<1> QED BY <1>3, <1>4, <1>5 DEF TypeInv

LEMMA EditType ==
    ASSUME TypeInv, Edit
    PROVE  TypeInv'
<1>1. /\ disk' = disk + 1 /\ disk < MaxEdits /\ disk \in Nat
      /\ UNCHANGED <<config, readers, inst, tailing, listed, lock, draining, todo, requests,
                     asked, gone>>
  BY DEF Edit, configVars, jailVars, listVars, TypeInv, NumbersOK
<1>2. Step \subseteq Step'
  BY <1>1, StepGrows
<1>3. StepsOK' /\ GuardsOK' /\ ListsOK'
  BY <1>1, <1>2 DEF TypeInv, StepsOK, GuardsOK, ListsOK, At, Idle
<1>4. JailsOK'
  BY <1>1, JailsStay DEF TypeInv
<1>5. NumbersOK'
  BY <1>1, ServerAssumption DEF TypeInv, NumbersOK
<1> QED BY <1>3, <1>4, <1>5 DEF TypeInv

LEMMA NextType ==
    ASSUME TypeInv, [Next]_vars
    PROVE  TypeInv'
<1>1. CASE UNCHANGED vars
  BY <1>1 DEF vars, configVars, jailVars, listVars, TypeInv, StepsOK, GuardsOK, JailsOK,
              ListsOK, NumbersOK, Step, At, Idle, Holds
<1>2. CASE \E c \in Client : Request(c) \/ ClientStep(c) \/ Disconnect(c)
  BY <1>2, RequestType, ClientType, DisconnectType
<1> QED BY <1>1, <1>2, TaskType, EditType DEF Next

(* The histories of what crossed never forget.                             *)
LEMMA RacesGrow ==
    ASSUME RacesOK, [Next]_vars
    PROVE  RacesOK' /\ (raced => raced') /\ (overtaken => overtaken')
<1>1. CASE UNCHANGED vars
  BY <1>1 DEF vars, RacesOK
<1>2. ASSUME NEW c \in Client, CheckStart(c) \/ BeginStopAll(c) \/ SwapConfig(c)
      PROVE  RacesOK' /\ (raced => raced') /\ (overtaken => overtaken')
  BY <1>2 DEF CheckStart, BeginStopAll, SwapConfig, Continue, raceVars, RacesOK
<1>3. ASSUME NEW c \in Client,
             \/ Request(c) \/ ReadConfig(c) \/ FirstGuard(c) \/ Spawn(c) \/ Push(c)
             \/ BeginStop(c) \/ SendStop(c) \/ Joined(c) \/ EndStop(c)
             \/ Reopen(c) \/ StartAll(c) \/ ReadList(c) \/ Disconnect(c)
      PROVE  UNCHANGED raceVars
  BY <1>3 DEF Request, ReadConfig, FirstGuard, Spawn, Push, BeginStop, SendStop, Joined,
              EndStop, Reopen, StartAll, ReadList, Disconnect, Continue, raceVars
<1>4. TaskStep \/ Edit => UNCHANGED raceVars
  BY DEF TaskStep, TaskEnds, BackendEnds, Edit, raceVars
<1>5. Next => \/ \E c \in Client : CheckStart(c) \/ BeginStopAll(c) \/ SwapConfig(c)
              \/ UNCHANGED raceVars
  BY <1>3, <1>4 DEF Next, ClientStep
<1> QED BY <1>1, <1>2, <1>5 DEF raceVars, RacesOK

(* Type correctness, with which steps hold the mutex and the read guards:  *)
(* whatever the clients ask for and in whatever order the tasks run, the   *)
(* client that holds the mutex is the one that joins, a read guard of the  *)
(* configuration is held by those about to spawn and nobody else, and no   *)
(* step carries a version that was never on disk.                          *)
THEOREM ServerTypeCorrect == Spec => []TypeOK
<1>1. TypeInv /\ RacesOK /\ [Next]_vars => (TypeInv /\ RacesOK)'
  BY NextType, RacesGrow
<1>2. Init => TypeInv /\ RacesOK
  BY InitType DEF Init, RacesOK
<1> QED BY <1>1, <1>2, TypeInvImplies, PTL DEF Spec

-----------------------------------------------------------------------------
(* A step of client c that neither spawns, lists, joins nor ends a task.   *)
Aside(c) ==
    \/ Request(c) \/ CheckStart(c) \/ ReadConfig(c) \/ FirstGuard(c)
    \/ BeginStop(c) \/ BeginStopAll(c) \/ EndStop(c) \/ SwapConfig(c) \/ Reopen(c)
    \/ StartAll(c) \/ ReadList(c)

LEMMA NextCases ==
    ASSUME Next
    PROVE  \/ \E c \in Client : \/ Aside(c) \/ Spawn(c) \/ Push(c) \/ SendStop(c)
                                \/ Joined(c) \/ Disconnect(c)
           \/ TaskStep \/ Edit
  BY DEF Next, ClientStep, Aside

LEMMA RequestDoes ==
    ASSUME TypeInv, NEW c \in Client, Request(c)
    PROVE  /\ Idle(c) /\ UNCHANGED <<disk, config, readers, inst, tailing, listed, lock,
                                     draining, gone>>
           /\ \A d \in Client : d # c => todo'[d] = todo[d]
           /\ \E op \in Ops[c] \ {"disconnect"}, n \in JailNames :
                 /\ op \in AllRequests /\ todo'[c] = Steps(op, n)
                 /\ asked' = IF op = "reload" THEN disk ELSE asked
<1>1. /\ Idle(c) /\ UNCHANGED <<disk, config, readers, inst, tailing, listed, lock, draining,
                                gone>>
      /\ \E op \in Ops[c] \ {"disconnect"}, n \in JailNames :
            /\ todo' = [todo EXCEPT ![c] = Steps(op, n)]
            /\ asked' = IF op = "reload" THEN disk ELSE asked
  BY DEF Request, configVars, jailVars, listVars
<1>2. todo \in [Client -> Seq(AnyStep)] /\ Ops[c] \ {"disconnect"} \subseteq AllRequests
  BY ServerAssumption DEF TypeInv, StepsOK
<1> QED BY <1>1, <1>2

(* What such a step leaves alone.                                          *)
LEMMA AsideDoes ==
    ASSUME TypeInv, NEW c \in Client, Aside(c)
    PROVE  /\ UNCHANGED <<disk, inst, tailing, gone>> /\ Stays(c)
           /\ \A d \in Client : d # c => todo'[d] = todo[d]
           /\ \A i : Holds(listed', i) \/ Holds(draining', i)
                     <=> Holds(listed, i) \/ Holds(draining, i)
           /\ \A i : Holds(listed', i) => Holds(listed, i)
           /\ ~At(c, "push") /\ ~At(c, "spawn")
           /\ ~At(c, "push")'
<1>1. CASE Request(c)
  BY <1>1, RequestDoes, RequestType DEF At, Later
<1>2. CASE CheckStart(c)
  <2>1. UNCHANGED <<inst, tailing, listed, draining>> /\ At(c, "start")
    BY <1>2 DEF CheckStart, jailVars, listVars
  <2> QED BY <1>2, <2>1, CheckStartDoes DEF At, Later
<1>3. CASE ReadConfig(c)
  <2>1. UNCHANGED <<inst, tailing, listed, draining>> /\ At(c, "read")
    BY <1>3 DEF ReadConfig, jailVars, listVars
  <2> QED BY <1>3, <2>1, ReadConfigDoes DEF At, Later
<1>4. CASE FirstGuard(c)
  <2>1. UNCHANGED <<inst, tailing, listed, draining>> /\ At(c, "guard")
    BY <1>4 DEF FirstGuard, jailVars, listVars
  <2> QED BY <1>4, <2>1, FirstGuardDoes DEF At
<1>5. CASE (BeginStop(c) /\ Listed(Arg(c))) \/ BeginStopAll(c)
  <2>1. At(c, "stop") \/ At(c, "stop_all")
    BY <1>5 DEF BeginStop, BeginStopAll
  <2>2. \A i : ~Holds(<<>>, i)
    BY DEF Holds
  <2> QED BY <1>5, <2>1, <2>2, BeginStopDoes DEF At
<1>6. CASE EndStop(c) \/ SwapConfig(c) \/ ReadList(c) \/ (BeginStop(c) /\ ~Listed(Arg(c)))
  <2>1. UNCHANGED <<listed, draining>>
        /\ \E kind \in {"join", "swap", "list", "stop"} : At(c, kind)
    BY <1>6 DEF EndStop, SwapConfig, ReadList, BeginStop, listVars
  <2> QED BY <1>6, <2>1, EndsDo DEF At, Later
<1>7. CASE Reopen(c)
  <2>1. UNCHANGED <<listed, draining>> /\ At(c, "reopen")
    BY <1>7 DEF Reopen, listVars
  <2> QED BY <1>7, <2>1, ReopenDoes DEF At, Later
<1>8. CASE StartAll(c)
  <2>1. UNCHANGED <<listed, draining>> /\ At(c, "start_all")
    BY <1>8 DEF StartAll, listVars
  <2> QED BY <1>8, <2>1, StartAllDoes DEF At, Later
<1> QED BY <1>1, <1>2, <1>3, <1>4, <1>5, <1>6, <1>7, <1>8 DEF Aside

(* What the tasks do: a jail that is alive was alive before.               *)
LEMMA LivesEnd ==
    ASSUME TypeInv, TaskStep \/ Edit \/ \E c \in Client : SendStop(c) \/ Joined(c)
    PROVE  /\ UNCHANGED <<config, readers, listed, lock, todo, asked, gone>>
           /\ DOMAIN inst' = DOMAIN inst
           /\ \A i \in DOMAIN inst :
                 /\ inst'[i].jail = inst[i].jail /\ inst'[i].cfg = inst[i].cfg
                 /\ Alive(i)' => Alive(i)
<1>1. CASE TaskStep
  <2>1. PICK i \in DOMAIN inst : TaskEnds(i) \/ BackendEnds(i)
    BY <1>1 DEF TaskStep
  <2>2. CASE TaskEnds(i)
    <3>1. inst' = [inst EXCEPT ![i].life = "ended"] /\ Alive(i)
      BY <2>2 DEF TaskEnds, Alive
    <3>2. /\ DOMAIN inst' = DOMAIN inst
          /\ \A j \in DOMAIN inst :
                /\ inst'[j].cfg = inst[j].cfg /\ inst'[j].jail = inst[j].jail
                /\ inst'[j].life = IF j = i THEN "ended" ELSE inst[j].life
      BY <3>1, LifeOnly DEF TypeInv
    <3> QED BY <2>2, <3>2 DEF TaskEnds, configVars, listVars, Alive
  <2>3. CASE BackendEnds(i)
    BY <2>3 DEF BackendEnds, configVars, listVars, Alive
  <2> QED BY <2>1, <2>2, <2>3
<1>2. CASE Edit
  BY <1>2 DEF Edit, configVars, jailVars, listVars, Alive
<1>3. ASSUME NEW c \in Client, SendStop(c)
      PROVE  /\ UNCHANGED <<config, readers, listed, lock, todo, asked, gone>>
             /\ DOMAIN inst' = DOMAIN inst
             /\ \A i \in DOMAIN inst :
                   /\ inst'[i].jail = inst[i].jail /\ inst'[i].cfg = inst[i].cfg
                   /\ Alive(i)' => Alive(i)
  <2>1. /\ inst' = [inst EXCEPT ![Head(draining)].life = "leaving"]
        /\ inst[Head(draining)].life = "running"
        /\ Head(draining) \in DOMAIN inst
    BY <1>3, JoinDoes DEF SendStop
  <2>2. /\ DOMAIN inst' = DOMAIN inst
        /\ \A j \in DOMAIN inst :
              /\ inst'[j].cfg = inst[j].cfg /\ inst'[j].jail = inst[j].jail
              /\ inst'[j].life = IF j = Head(draining) THEN "leaving" ELSE inst[j].life
    BY <2>1, LifeOnly DEF TypeInv
  <2> QED BY <1>3, <2>1, <2>2 DEF SendStop, configVars, listVars, Alive
<1>4. ASSUME NEW c \in Client, Joined(c)
      PROVE  /\ UNCHANGED <<config, readers, listed, lock, todo, asked, gone>>
             /\ DOMAIN inst' = DOMAIN inst
             /\ \A i \in DOMAIN inst :
                   /\ inst'[i].jail = inst[i].jail /\ inst'[i].cfg = inst[i].cfg
                   /\ Alive(i)' => Alive(i)
  BY <1>4 DEF Joined, configVars, jailVars, Alive
<1> QED BY <1>1, <1>2, <1>3, <1>4

-----------------------------------------------------------------------------
(* A jail that is alive is on the list, is being stopped, or is about to   *)
(* be put on the list by the client that spawned it.                       *)
Held(i) == \/ Holds(listed, i) \/ Holds(draining, i)
           \/ \E c \in Client : At(c, "push") /\ Arg(c) = i
Accounted == ~gone => \A i \in DOMAIN inst : Alive(i) => Held(i)

LEMMA StillHeld ==
    ASSUME NEW c \in Client, \A d \in Client : d # c => todo'[d] = todo[d],
           NEW i, Held(i), At(c, "push") => Arg(c) # i,
           Holds(listed, i) \/ Holds(draining, i) => Holds(listed', i) \/ Holds(draining', i)
    PROVE  Held(i)'
<1>1. ASSUME NEW d \in Client, At(d, "push"), Arg(d) = i
      PROVE  At(d, "push")' /\ Arg(d)' = i
  <2>1. d # c
    BY <1>1
  <2> QED BY <1>1, <2>1 DEF At, Arg, Idle
<1> QED BY <1>1 DEF Held, Holds

LEMMA AccountedKept ==
    ASSUME TypeInv, Accounted, [Next]_vars
    PROVE  Accounted'
<1> SUFFICES ASSUME ~gone', NEW i \in DOMAIN inst', Alive(i)'
             PROVE  Held(i)'
  BY DEF Accounted
<1>1. CASE UNCHANGED vars
  BY <1>1 DEF vars, Accounted, Held, Holds, At, Arg, Idle, Alive
<1>2. ASSUME NEW c \in Client, Aside(c)
      PROVE  Held(i)'
  <2>1. Alive(i) /\ i \in DOMAIN inst /\ ~gone
    BY <1>2, AsideDoes DEF Alive
  <2> QED BY <1>2, <2>1, AsideDoes, StillHeld DEF Accounted
<1>3. ASSUME NEW c \in Client, Spawn(c)
      PROVE  Held(i)'
  <2>1. UNCHANGED <<listed, draining>> /\ At(c, "spawn")
    BY <1>3 DEF Spawn, listVars
  <2>2. CASE i = Len(inst) + 1
    BY <1>3, <2>2, SpawnDoes DEF Held
  <2>3. CASE i # Len(inst) + 1
    <3>1. i \in DOMAIN inst /\ Alive(i) /\ ~gone
      BY <1>3, <2>3, SpawnDoes DEF Alive
    <3> QED BY <1>3, <2>1, <3>1, SpawnDoes, StillHeld DEF Accounted, At
  <2> QED BY <2>2, <2>3
<1>4. ASSUME NEW c \in Client, Push(c)
      PROVE  Held(i)'
  <2>1. draining' = draining /\ listed' = Append(listed, Arg(c)) /\ At(c, "push")
    BY <1>4 DEF Push
  <2>2. Arg(c) \in Nat
    BY <2>1, ArgFacts, LenProperties DEF TypeInv, JailsOK
  <2>3. Holds(listed', i) <=> Holds(listed, i) \/ i = Arg(c)
    BY <2>1, <2>2, HoldsAppend DEF TypeInv, ListsOK
  <2>4. Alive(i) /\ i \in DOMAIN inst /\ ~gone /\ \A d \in Client : d # c => todo'[d] = todo[d]
    BY <1>4, EndsDo DEF Alive
  <2>5. CASE i = Arg(c)
    BY <2>3, <2>5 DEF Held, Holds
  <2>6. CASE i # Arg(c)
    BY <2>1, <2>3, <2>4, <2>6, StillHeld DEF Accounted
  <2> QED BY <2>5, <2>6
<1>5. CASE TaskStep \/ Edit \/ \E c \in Client : SendStop(c)
  <2>1. UNCHANGED <<listed, draining, todo, gone>> /\ i \in DOMAIN inst /\ Alive(i)
    BY <1>5, LivesEnd DEF TaskStep, TaskEnds, BackendEnds, Edit, SendStop, listVars
  <2> QED BY <2>1 DEF Accounted, Held, Holds, At, Arg, Idle
<1>6. ASSUME NEW c \in Client, Joined(c)
      PROVE  Held(i)'
  <2>1. /\ UNCHANGED <<listed, todo, gone>> /\ i \in DOMAIN inst /\ Alive(i)
        /\ draining' = Tail(draining) /\ ~Alive(Head(draining))
    BY <1>6, LivesEnd DEF Joined, jailVars, Alive
  <2>2. Holds(draining, i) => Holds(draining', i)
    BY <1>6, <2>1, JoinDoes
  <2> QED BY <2>1, <2>2 DEF Accounted, Held, Holds, At, Arg, Idle
<1>7. ASSUME NEW c \in Client, Disconnect(c)
      PROVE  FALSE
  BY <1>7 DEF Disconnect
<1> QED BY <1>1, <1>2, <1>3, <1>4, <1>5, <1>6, <1>7, NextCases

LEMMA AccountedInit == Init => Accounted
<1>1. DOMAIN <<>> = {}
  OBVIOUS
<1> QED BY <1>1 DEF Init, Accounted

(* As long as no client goes away in mid-request, a jail that is alive     *)
(* when no request is under way is on the list: the gap between the spawn  *)
(* of a jail and the append of its handle, which no mutex covers, and the  *)
(* one between the removal of a handle and the end of its task, lose none. *)
THEOREM AliveIsListed == Spec => []RunningIsListed
<1>1. TypeInv /\ Accounted => RunningIsListed
  <2> SUFFICES ASSUME TypeInv, Accounted, Quiet, ~gone, NEW i \in DOMAIN inst, Alive(i)
               PROVE  Holds(listed, i)
    BY DEF RunningIsListed, Holds
  <2>1. \A c \in Client : \A kind : ~At(c, kind)
    BY DEF Quiet, At
  <2>2. lock = None
    BY <2>1 DEF TypeInv, GuardsOK
  <2>3. ~Holds(draining, i)
    <3>1. draining = <<>> /\ DOMAIN <<>> = {}
      BY <2>2 DEF TypeInv, GuardsOK
    <3> QED BY <3>1 DEF Holds
  <2> QED BY <2>1, <2>3 DEF Accounted, Held
<1>2. Init => TypeInv /\ Accounted
  BY InitType, AccountedInit
<1>3. TypeInv /\ Accounted /\ [Next]_vars => (TypeInv /\ Accounted)'
  BY NextType, AccountedKept
<1> QED BY <1>1, <1>2, <1>3, PTL DEF Spec

-----------------------------------------------------------------------------
(* A client that found no jail of a name, until it has listed its own.     *)
Starting(c) == At(c, "read") \/ At(c, "guard") \/ At(c, "spawn")

LEMMA NameStays ==
    ASSUME TypeInv, NEW c \in Client, todo'[c] = todo[c], Underway(c)',
           \A i \in DOMAIN inst : inst'[i].jail = inst[i].jail
    PROVE  Underway(c) /\ NameAt(c)' = NameAt(c) /\ (Starting(c)' => Starting(c))
<1>1. /\ \A kind : At(c, kind)' <=> At(c, kind)
      /\ Arg(c)' = Arg(c)
  BY DEF At, Idle, Arg
<1>2. At(c, "push") => Arg(c) \in DOMAIN inst
  BY ArgFacts
<1> QED BY <1>1, <1>2 DEF Underway, NameAt, Starting

(* Where a client is in the middle of a start after such a step.           *)
LEMMA AsideStarting ==
    ASSUME TypeInv, NEW c \in Client, Aside(c), Starting(c)'
    PROVE  /\ Arg(c)' = Arg(c)
           /\ Starting(c) \/ (CheckStart(c) /\ ~Listed(Arg(c)))
<1>1. CASE Request(c)
  BY <1>1, RequestType DEF Later, Starting
<1>2. CASE CheckStart(c)
  BY <1>2, CheckStartDoes DEF Later, Starting
<1>3. CASE ReadConfig(c)
  BY <1>3, ReadConfigDoes DEF ReadConfig, Starting, Later
<1>4. CASE FirstGuard(c)
  BY <1>4, FirstGuardDoes DEF FirstGuard, Starting
<1>5. CASE (BeginStop(c) /\ Listed(Arg(c))) \/ BeginStopAll(c)
  BY <1>5, BeginStopDoes DEF Starting
<1>6. CASE EndStop(c) \/ SwapConfig(c) \/ ReadList(c) \/ (BeginStop(c) /\ ~Listed(Arg(c)))
  BY <1>6, EndsDo DEF Later, Starting
<1>7. CASE Reopen(c)
  BY <1>7, ReopenDoes DEF Later, Starting
<1>8. CASE StartAll(c)
  BY <1>8, StartAllDoes DEF Later, Starting
<1> QED BY <1>1, <1>2, <1>3, <1>4, <1>5, <1>6, <1>7, <1>8 DEF Aside

(* A start that is under way has just passed its check, or was under way.  *)
LEMMA UnderwayBefore ==
    ASSUME TypeInv, [Next]_vars, NEW c \in Client, Underway(c)'
    PROVE  \/ Underway(c) /\ NameAt(c)' = NameAt(c) /\ (Starting(c)' => Starting(c))
           \/ CheckStart(c) /\ ~Listed(Arg(c)) /\ NameAt(c)' = Arg(c)
<1> DEFINE Was == Underway(c) /\ NameAt(c)' = NameAt(c) /\ (Starting(c)' => Starting(c))
           Found == CheckStart(c) /\ ~Listed(Arg(c)) /\ NameAt(c)' = Arg(c)
<1>1. ASSUME UNCHANGED vars
      PROVE  Was
  BY <1>1, NameStays DEF vars
<1>2. ASSUME TaskStep \/ Edit \/ \E e \in Client : SendStop(e) \/ Joined(e)
      PROVE  Was
  BY <1>2, LivesEnd, NameStays
<1>3. ASSUME NEW e \in Client, Aside(e)
      PROVE  Was \/ Found
  <2>1. CASE e # c
    BY <1>3, <2>1, AsideDoes, NameStays
  <2>2. CASE e = c
    <3>1. ~At(c, "push")' /\ ~At(c, "push") /\ Starting(c)'
      BY <1>3, <2>2, AsideDoes DEF Underway, Starting
    <3>2. NameAt(c)' = Arg(c) /\ (Starting(c) \/ (CheckStart(c) /\ ~Listed(Arg(c))))
      BY <1>3, <2>2, <3>1, AsideStarting DEF NameAt
    <3> QED BY <3>1, <3>2 DEF NameAt, Underway, Starting
  <2> QED BY <2>1, <2>2
<1>4. ASSUME NEW e \in Client, Spawn(e)
      PROVE  Was
  <2>1. CASE e # c
    BY <1>4, <2>1, SpawnDoes, NameStays
  <2>2. CASE e = c
    <3>1. /\ \A kind : At(c, kind)' <=> kind = "push"
          /\ Arg(c)' = Len(inst) + 1 /\ inst'[Len(inst) + 1] = New(c)
          /\ At(c, "spawn")
      BY <1>4, <2>2, SpawnDoes DEF Spawn
    <3>2. NameAt(c)' = Arg(c)
      BY <3>1 DEF NameAt, New
    <3>3. NameAt(c) = Arg(c)
      BY <3>1 DEF NameAt, At
    <3> QED BY <3>1, <3>2, <3>3 DEF Underway, Starting
  <2> QED BY <2>1, <2>2
<1>5. ASSUME NEW e \in Client, Push(e)
      PROVE  Was
  <2>1. e # c
    BY <1>5, EndsDo DEF Underway, Later
  <2> QED BY <1>5, <2>1, EndsDo, NameStays
<1>6. ASSUME NEW e \in Client, Disconnect(e)
      PROVE  Was
  <2>1. e # c
    BY <1>6, DisconnectDoes DEF Underway
  <2>2. todo'[c] = todo[c] /\ inst' = inst
    BY <1>6, <2>1, DisconnectDoes DEF Disconnect, TypeInv, StepsOK
  <2> QED BY <2>2, NameStays
<1> HIDE DEF Was, Found
<1>7. Was \/ Found
  BY <1>1, <1>2, <1>3, <1>4, <1>5, <1>6, NextCases
<1> QED BY <1>7 DEF Was, Found

(* A life after a step was one before it, or has just been spawned.        *)
LEMMA LivesBefore ==
    ASSUME TypeInv, [Next]_vars, NEW i \in DOMAIN inst', Alive(i)'
    PROVE  \/ i \in DOMAIN inst /\ Alive(i) /\ inst'[i].jail = inst[i].jail
           \/ \E c \in Client : Spawn(c) /\ i = Len(inst) + 1 /\ inst'[i].jail = Arg(c)
<1>1. ASSUME inst' = inst
      PROVE  i \in DOMAIN inst /\ Alive(i) /\ inst'[i].jail = inst[i].jail
  BY <1>1 DEF Alive
<1>2. CASE UNCHANGED vars
  BY <1>1, <1>2 DEF vars
<1>3. CASE TaskStep \/ Edit \/ \E c \in Client : SendStop(c) \/ Joined(c)
  BY <1>3, LivesEnd
<1>4. ASSUME NEW c \in Client, Aside(c) \/ Push(c) \/ Disconnect(c)
      PROVE  inst' = inst
  BY <1>4, AsideDoes, EndsDo, DisconnectDoes
<1>5. ASSUME NEW c \in Client, Spawn(c)
      PROVE  \/ i \in DOMAIN inst /\ Alive(i) /\ inst'[i].jail = inst[i].jail
             \/ i = Len(inst) + 1 /\ inst'[i].jail = Arg(c)
  <2>1. New(c).jail = Arg(c)
    BY DEF New
  <2> QED BY <1>5, <2>1, SpawnDoes DEF Alive
<1> QED BY <1>1, <1>2, <1>3, <1>4, <1>5, NextCases

-----------------------------------------------------------------------------
(* No jail of a name lives while a client that found none is starting one, *)
(* and unless two looked at the same time no other client starts one.      *)
Vacant(n) == \A i \in DOMAIN inst : Alive(i) => inst[i].jail # n
NothingUnderWay == ~gone /\ ~raced => \A c \in Client : Starting(c) => Vacant(Arg(c))
OneUnderWay ==
    ~raced => \A c, d \in Client :
        c # d /\ Underway(c) /\ Underway(d) => NameAt(c) # NameAt(d)
OneInv == Accounted /\ NothingUnderWay /\ OneUnderWay /\ OneJailPerName

LEMMA PassedAlone ==
    ASSUME NEW c \in Client, CheckStart(c), ~Listed(Arg(c)), ~raced'
    PROVE  \A d \in Client : Underway(d) => NameAt(d) # Arg(c)
BY DEF CheckStart

LEMMA FoundNone ==
    ASSUME TypeInv, Accounted, ~gone, NEW c \in Client, CheckStart(c), ~Listed(Arg(c)),
           ~raced'
    PROVE  Vacant(Arg(c))
<1> SUFFICES ASSUME NEW i \in DOMAIN inst, Alive(i), inst[i].jail = Arg(c) PROVE FALSE
  BY DEF Vacant
<1>1. ~Holds(listed, i)
  BY DEF Listed, Holds
<1>2. ~Holds(draining, i)
  <2>1. draining = <<>> /\ DOMAIN <<>> = {}
    BY DEF CheckStart, TypeInv, GuardsOK
  <2> QED BY <2>1 DEF Holds
<1>3. PICK d \in Client : At(d, "push") /\ Arg(d) = i
  BY <1>1, <1>2 DEF Accounted, Held
<1>4. Underway(d) /\ NameAt(d) = Arg(c)
  BY <1>3 DEF Underway, NameAt
<1> QED BY <1>4, PassedAlone

LEMMA OneUnderWayKept ==
    ASSUME TypeInv, RacesOK, OneUnderWay, [Next]_vars
    PROVE  OneUnderWay'
<1> SUFFICES ASSUME ~raced', NEW c \in Client, NEW d \in Client, c # d,
                    Underway(c)', Underway(d)'
             PROVE  NameAt(c)' # NameAt(d)'
  BY DEF OneUnderWay
<1>1. ~raced
  BY RacesGrow
<1>2. ASSUME NEW a \in Client, NEW b \in Client, a # b, Underway(b)',
             CheckStart(a), ~Listed(Arg(a)), NameAt(a)' = Arg(a)
      PROVE  NameAt(a)' # NameAt(b)'
  <2>1. todo'[b] = todo[b] /\ inst' = inst
    BY <1>2, CheckStartDoes DEF CheckStart, jailVars
  <2>2. Underway(b) /\ NameAt(b)' = NameAt(b)
    BY <1>2, <2>1, NameStays
  <2> QED BY <1>2, <2>2, PassedAlone
<1>3. CASE Underway(c) /\ NameAt(c)' = NameAt(c) /\ Underway(d) /\ NameAt(d)' = NameAt(d)
  BY <1>1, <1>3 DEF OneUnderWay
<1> QED BY <1>2, <1>3, UnderwayBefore

LEMMA OneKept ==
    ASSUME TypeInv, RacesOK, OneInv, [Next]_vars
    PROVE  OneInv'
<1>1. Accounted' /\ OneUnderWay'
  BY AccountedKept, OneUnderWayKept DEF OneInv
<1> SUFFICES ASSUME ~gone', ~raced'
             PROVE  /\ \A c \in Client : Starting(c)' => Vacant(Arg(c))'
                    /\ OneLife'
  BY <1>1 DEF OneInv, NothingUnderWay, OneJailPerName
<1>2. ~gone /\ ~raced
  <2>1. gone => gone'
    BY AsideDoes, SpawnDoes, EndsDo, LivesEnd, NextCases DEF Disconnect, vars
  <2> QED BY <2>1, RacesGrow
<1>3. ASSUME NEW c \in Client, Spawn(c)
      PROVE  Starting(c) /\ NameAt(c) = Arg(c) /\ Vacant(Arg(c)) /\ ~Starting(c)'
  <2>1. At(c, "spawn")
    BY <1>3 DEF Spawn
  <2>2. ~Starting(c)'
    BY <1>3, SpawnDoes DEF Starting
  <2> QED BY <1>2, <2>1, <2>2 DEF OneInv, NothingUnderWay, Starting, NameAt, At
<1>4. ASSUME NEW c \in Client, Starting(c)'
      PROVE  Vacant(Arg(c))'
  <2>1. Underway(c)' /\ NameAt(c)' = Arg(c)'
    BY <1>4 DEF Starting, Underway, NameAt, At
  <2>2. ASSUME NEW i \in DOMAIN inst', Alive(i)', inst'[i].jail = Arg(c)'
        PROVE  FALSE
    <3>1. CASE Starting(c) /\ NameAt(c)' = NameAt(c)
      <4>1. NameAt(c) = Arg(c) /\ Underway(c) /\ Vacant(Arg(c))
        BY <1>2, <3>1 DEF OneInv, NothingUnderWay, Starting, Underway, NameAt, At
      <4>2. PICK e \in Client : Spawn(e) /\ inst'[i].jail = Arg(e)
        BY <2>1, <2>2, <3>1, <4>1, LivesBefore DEF Vacant
      <4>3. e # c /\ Underway(e) /\ NameAt(e) = NameAt(c)
        BY <1>3, <1>4, <2>1, <2>2, <3>1, <4>2 DEF Starting, Underway
      <4> QED BY <1>2, <4>1, <4>3 DEF OneInv, OneUnderWay
    <3>2. CASE CheckStart(c) /\ ~Listed(Arg(c)) /\ NameAt(c)' = Arg(c)
      <4>1. Vacant(Arg(c)) /\ inst' = inst
        BY <1>2, <3>2, FoundNone DEF OneInv, CheckStart, jailVars
      <4> QED BY <2>1, <2>2, <3>2, <4>1 DEF Vacant, Alive
    <3> QED BY <1>4, <2>1, <3>1, <3>2, UnderwayBefore
  <2> QED BY <2>2 DEF Vacant
<1>5. ASSUME NEW i \in DOMAIN inst', NEW j \in DOMAIN inst', Alive(i)', Alive(j)',
             inst'[i].jail = inst'[j].jail
      PROVE  i = j
  <2>1. OneLife
    BY <1>2 DEF OneInv, OneJailPerName
  <2>2. \A k \in DOMAIN inst : k # Len(inst) + 1 \/ \A c \in Client : ~Spawn(c)
    BY SpawnDoes
  <2> QED BY <1>3, <1>5, <2>1, <2>2, LivesBefore DEF OneLife, Vacant
<1> QED BY <1>4, <1>5 DEF OneLife

(* Whatever the clients ask for, and however their steps fall between each *)
(* other's, a jail never has two lives at a time, unless two of them       *)
(* looked for it before either had listed it, or one went away in the      *)
(* middle of a request.  A start looks at the list under one hold of the   *)
(* mutex and adds to it under another; in between no stop, restart or      *)
(* reload takes a jail off the list before its task has ended.             *)
THEOREM OneLifePerName == Spec => []OneJailPerName
<1>1. Init => TypeInv /\ RacesOK /\ OneInv
  <2> SUFFICES ASSUME Init PROVE RacesOK /\ OneInv
    BY InitType
  <2>1. inst = <<>> /\ DOMAIN <<>> = {} /\ \A c \in Client : ~Starting(c) /\ ~Underway(c)
    BY DEF Init, Starting, Underway, At, Idle
  <2> QED BY <2>1, AccountedInit
          DEF Init, RacesOK, OneInv, OneJailPerName, OneLife, NothingUnderWay, OneUnderWay
<1>2. /\ TypeInv /\ RacesOK /\ OneInv /\ [Next]_vars
      => (TypeInv /\ RacesOK /\ OneInv)'
  BY NextType, RacesGrow, OneKept
<1>3. OneInv => OneJailPerName
  BY DEF OneInv
<1> QED BY <1>1, <1>2, <1>3, PTL DEF Spec

-----------------------------------------------------------------------------
(* A reload stores its configuration right after its stop of all the jails *)
(* and is then rid of it.                                                  *)
Unlisted == \A i : ~Holds(listed, i)
SwapShape ==
    \A c \in Client : \A k \in DOMAIN todo[c] : todo[c][k][1] = "swap" =>
        k = 1 \/ (k = 2 /\ (At(c, "stop_all") \/ At(c, "join")))

(* From its stop on until then, no jail is listed or being started, unless *)
(* it is crossed.                                                          *)
Cleared ==
    ~overtaken => \A c \in Client : Reloading(c) =>
        At(c, "stop_all") \/ (Unlisted /\ \A d \in Client : ~Underway(d))

(* So whatever is listed or about to be has the configuration that is now  *)
(* stored, or a later one, ...                                             *)
Fresh ==
    /\ \A i : Holds(listed, i) => inst[i].cfg >= config
    /\ \A c \in Client :
          /\ At(c, "guard") \/ At(c, "spawn") => Head(todo[c])[3] >= config
          /\ At(c, "push") => inst[Arg(c)].cfg >= config
RecentInv == ~overtaken => Fresh

(* ... and the last one that was loaded is stored, or is going to be.      *)
Pending(v) == \E c \in Client : \E k \in DOMAIN todo[c] : todo[c][k] = <<"swap", v>>
Promised == ~gone /\ ~overtaken => asked <= config \/ Pending(asked)
ReloadInv == SwapShape /\ Cleared /\ RecentInv /\ Promised

LEMMA LeftOver ==
    ASSUME TypeInv, NEW c \in Client, Aside(c) \/ Spawn(c) \/ Push(c), ~Request(c),
           NEW k \in DOMAIN todo'[c], todo'[c][k][1] = "swap"
    PROVE  \E l \in 2..Len(todo[c]) : todo'[c][k] = todo[c][l]
<1>1. CASE CheckStart(c)
  <2>1. \/ todo'[c][k] = <<"read", Arg(c)>>
        \/ k + 1 \in 2..Len(todo[c]) /\ todo'[c][k] = todo[c][k + 1]
        \/ k \in 2..Len(todo[c]) /\ todo'[c][k] = todo[c][k]
    BY <1>1, CheckStartDoes
  <2> QED BY <2>1
<1>2. CASE ReadConfig(c)
  <2>1. \/ todo'[c][k] = <<"guard", Arg(c), config>>
        \/ k + 1 \in 2..Len(todo[c]) /\ todo'[c][k] = todo[c][k + 1]
        \/ k \in 2..Len(todo[c]) /\ todo'[c][k] = todo[c][k]
    BY <1>2, ReadConfigDoes
  <2> QED BY <2>1
<1>3. CASE FirstGuard(c)
  <2>1. \/ todo'[c][k] = <<"spawn", Arg(c), Head(todo[c])[3]>>
        \/ k \in 2..Len(todo[c]) /\ todo'[c][k] = todo[c][k]
    BY <1>3, FirstGuardDoes
  <2> QED BY <2>1
<1>4. CASE Spawn(c)
  <2>1. \/ todo'[c][k] = <<"push", Len(inst) + 1>>
        \/ k \in 2..Len(todo[c]) /\ todo'[c][k] = todo[c][k]
    BY <1>4, SpawnDoes
  <2> QED BY <2>1
<1>5. CASE (BeginStop(c) /\ Listed(Arg(c))) \/ BeginStopAll(c)
  <2>1. \/ todo'[c][k] = <<"join", None>>
        \/ k \in 2..Len(todo[c]) /\ todo'[c][k] = todo[c][k]
    BY <1>5, BeginStopDoes
  <2> QED BY <2>1
<1>6. CASE \/ Push(c) \/ EndStop(c) \/ SwapConfig(c) \/ ReadList(c)
           \/ BeginStop(c) /\ ~Listed(Arg(c))
  BY <1>6, EndsDo
<1>7. CASE Reopen(c)
  BY <1>7, ReopenDoes
<1>8. CASE StartAll(c)
  <2>1. \/ todo'[c][k][1] \in {"start", "list"}
        \/ \E l \in 2..Len(todo[c]) : todo'[c][k] = todo[c][l]
    BY <1>8, StartAllDoes
  <2> QED BY <2>1
<1> QED BY <1>1, <1>2, <1>3, <1>4, <1>5, <1>6, <1>7, <1>8 DEF Aside

LEMMA KeepsRest ==
    ASSUME TypeInv, NEW c \in Client, ~Idle(c), NEW new \in Seq(AnyStep), GoOn(c, new),
           NEW l \in 2..Len(todo[c])
    PROVE  \E k \in DOMAIN todo'[c] : todo'[c][k] = todo[c][l]
<1>1. /\ todo[c] \in Seq(AnyStep) /\ todo[c] # <<>> /\ todo'[c] = new \o Tail(todo[c])
  BY DEF TypeInv, StepsOK, Idle, GoOn
<1>2. /\ Tail(todo[c]) \in Seq(AnyStep) /\ Len(Tail(todo[c])) = Len(todo[c]) - 1
      /\ Len(todo[c]) \in Nat /\ Len(new) \in Nat
      /\ \A j \in 1..Len(todo[c]) - 1 : Tail(todo[c])[j] = todo[c][j + 1]
  BY <1>1, HeadTailProperties, LenProperties
<1>3. /\ todo'[c] \in Seq(AnyStep) /\ Len(todo'[c]) = Len(new) + Len(Tail(todo[c]))
      /\ \A k \in 1..Len(new) + Len(Tail(todo[c])) :
            todo'[c][k] = IF k <= Len(new) THEN new[k] ELSE Tail(todo[c])[k - Len(new)]
  BY <1>1, <1>2, ConcatProperties
<1> DEFINE k == Len(new) + (l - 1)
<1>4. k \in 1..Len(new) + Len(Tail(todo[c])) /\ ~(k <= Len(new)) /\ k - Len(new) = l - 1
  BY <1>2
<1>5. Tail(todo[c])[l - 1] = todo[c][l]
  <2>1. l - 1 \in 1..Len(todo[c]) - 1 /\ (l - 1) + 1 = l
    BY <1>2
  <2> QED BY <1>2, <2>1
<1>6. todo'[c][k] = todo[c][l]
  BY <1>3, <1>4, <1>5
<1>7. k \in DOMAIN todo'[c]
  BY <1>3, <1>4, LenProperties
<1> QED BY <1>6, <1>7

(* Of the requests, reload alone stores a configuration.                   *)
LEMMA ReloadSteps ==
    ASSUME NEW op \in AllRequests, NEW n
    PROVE  /\ op # "reload" => \A k \in DOMAIN Steps(op, n) : Steps(op, n)[k][1] # "swap"
           /\ op = "reload" =>
                 /\ Steps(op, n) # <<>> /\ Head(Steps(op, n))[1] = "stop_all"
                 /\ 2 \in DOMAIN Steps(op, n) /\ Steps(op, n)[2] = <<"swap", disk>>
                 /\ \A k \in DOMAIN Steps(op, n) : Steps(op, n)[k][1] = "swap" => k = 2
<1> DEFINE start == <<"start", n>>  stop == <<"stop", n>>  stopAll == <<"stop_all", None>>
           startAll == <<"start_all", None>>  swap == <<"swap", disk>>
           reopen == <<"reopen", None>>  list == <<"list", None>>
<1>1. /\ op \in {"start", "add"} => Steps(op, n) = <<start>>
      /\ op = "stop" => Steps(op, n) = <<stop>>
      /\ op \in {"restart", "reload_jail"} => Steps(op, n) = <<stop, start>>
      /\ op = "start_all" => Steps(op, n) = <<startAll>>
      /\ op = "stop_all" => Steps(op, n) = <<stopAll>>
      /\ op = "reload" => Steps(op, n) = <<stopAll, swap, reopen, startAll>>
      /\ op = "status" => Steps(op, n) = <<list>>
  BY DEF Steps
<1>2. /\ start[1] # "swap" /\ stop[1] # "swap" /\ startAll[1] # "swap" /\ list[1] # "swap"
      /\ reopen[1] # "swap" /\ stopAll[1] = "stop_all" /\ stopAll[1] # "swap"
  OBVIOUS
<1> HIDE DEF start, stop, stopAll, startAll, swap, reopen, list
<1>3. CASE op = "reload"
  <2>1. Steps(op, n) = <<stopAll, swap, reopen, startAll>>
    BY <1>1, <1>3
  <2>2. /\ Steps(op, n) # <<>> /\ Head(Steps(op, n)) = stopAll /\ DOMAIN Steps(op, n) = 1..4
        /\ Steps(op, n)[1] = stopAll /\ Steps(op, n)[2] = swap /\ Steps(op, n)[3] = reopen
        /\ Steps(op, n)[4] = startAll
    BY <2>1
  <2>3. \A k \in 1..4 : k = 1 \/ k = 2 \/ k = 3 \/ k = 4
    OBVIOUS
  <2>4. \A k \in DOMAIN Steps(op, n) : Steps(op, n)[k][1] = "swap" => k = 2
    BY <1>2, <2>2, <2>3
  <2> QED BY <1>2, <1>3, <2>2, <2>4 DEF swap
<1>4. CASE op # "reload"
  <2>1. \/ \E s \in {start, stop, startAll, stopAll, list} : Steps(op, n) = <<s>>
        \/ Steps(op, n) = <<stop, start>>
    BY <1>1, <1>4 DEF AllRequests
  <2> QED BY <1>2, <1>4, <2>1
<1> QED BY <1>3, <1>4

(* The steps of a client are changed by its own steps only.                *)
LEMMA OwnStep ==
    ASSUME TypeInv, [Next]_vars, NEW d \in Client
    PROVE  \/ todo'[d] = todo[d]
           \/ Request(d) \/ Disconnect(d)
           \/ (Aside(d) \/ Spawn(d) \/ Push(d)) /\ ~Request(d)
<1>1. CASE UNCHANGED vars
  BY <1>1 DEF vars
<1>2. CASE TaskStep \/ Edit \/ \E c \in Client : SendStop(c) \/ Joined(c)
  BY <1>2, LivesEnd
<1>3. ASSUME NEW c \in Client, c # d, Aside(c) \/ Spawn(c) \/ Push(c) \/ Disconnect(c)
      PROVE  todo'[d] = todo[d]
  <2>1. Disconnect(c) => todo'[d] = todo[d]
    BY <1>3 DEF Disconnect, TypeInv, StepsOK
  <2> QED BY <1>3, <2>1, AsideDoes, SpawnDoes, EndsDo
<1> QED BY <1>1, <1>2, <1>3, NextCases

(* Where a client that has a configuration to store is.                    *)
LEMMA SwapAt ==
    ASSUME TypeInv, SwapShape, NEW c \in Client, NEW k \in DOMAIN todo[c],
           todo[c][k][1] = "swap"
    PROVE  \/ k = 1 /\ At(c, "swap") /\ Arg(c) = todo[c][k][2]
           \/ k = 2 /\ (At(c, "stop_all") \/ At(c, "join"))
<1>1. CASE k = 1
  <2>1. todo[c] \in Seq(AnyStep) /\ todo[c] # <<>>
    <3>1. DOMAIN <<>> = {}
      OBVIOUS
    <3> QED BY <3>1 DEF TypeInv, StepsOK
  <2>2. Head(todo[c]) = todo[c][1]
    BY <2>1, HeadTailProperties
  <2> QED BY <1>1, <2>1, <2>2 DEF At, Arg, Idle
<1> QED BY <1>1 DEF SwapShape

LEMMA ShapeKept ==
    ASSUME TypeInv, SwapShape, [Next]_vars
    PROVE  SwapShape'
<1> SUFFICES ASSUME NEW d \in Client, NEW k \in DOMAIN todo'[d], todo'[d][k][1] = "swap"
             PROVE  k = 1 \/ (k = 2 /\ (At(d, "stop_all")' \/ At(d, "join")'))
  BY DEF SwapShape
<1>1. CASE todo'[d] = todo[d]
  BY <1>1 DEF SwapShape, At, Idle
<1>2. CASE Request(d)
  <2>1. PICK op \in Ops[d] \ {"disconnect"}, n \in JailNames :
           op \in AllRequests /\ todo'[d] = Steps(op, n)
    BY <1>2, RequestDoes
  <2>2. op = "reload"
    BY <2>1, ReloadSteps
  <2> QED BY <2>1, <2>2, ReloadSteps DEF At, Idle
<1>3. CASE Disconnect(d)
  <2>1. todo'[d] = <<>> /\ DOMAIN <<>> = {}
    BY <1>3 DEF Disconnect, TypeInv, StepsOK
  <2> QED BY <2>1
<1>4. CASE (Aside(d) \/ Spawn(d) \/ Push(d)) /\ ~Request(d)
  <2>1. PICK l \in 2..Len(todo[d]) : todo'[d][k] = todo[d][l]
    BY <1>4, LeftOver
  <2>2. l \in DOMAIN todo[d] /\ todo[d][l][1] = "swap" /\ l # 1
    BY <2>1, LenProperties DEF TypeInv, StepsOK
  <2>3. l = 2 /\ (At(d, "stop_all") \/ At(d, "join"))
    BY <2>2 DEF SwapShape
  <2>4. \A l2 \in 2..Len(todo[d]) : todo[d][l2][1] = "swap" => l2 = 2
    <3> SUFFICES ASSUME NEW l2 \in 2..Len(todo[d]), todo[d][l2][1] = "swap" PROVE l2 = 2
      OBVIOUS
    <3>1. l2 \in DOMAIN todo[d] /\ l2 # 1
      BY LenProperties DEF TypeInv, StepsOK
    <3> QED BY <3>1 DEF SwapShape
  <2>5. BeginStopAll(d) \/ EndStop(d)
    BY <1>4, <2>3 DEF At, Aside, CheckStart, ReadConfig, FirstGuard, BeginStop, SwapConfig,
                      Reopen, StartAll, ReadList, Spawn, Push
  <2>6. CASE BeginStopAll(d)
    <3>1. \/ todo'[d][k] = <<"join", None>>
          \/ k \in 2..Len(todo[d]) /\ todo'[d][k] = todo[d][k]
      BY <2>6, BeginStopDoes
    <3>2. k = 2 /\ At(d, "join")'
      BY <2>4, <2>6, <3>1, BeginStopDoes
    <3> QED BY <3>2
  <2>7. CASE EndStop(d)
    <3>1. k + 1 \in 2..Len(todo[d]) /\ todo'[d][k] = todo[d][k + 1]
      BY <2>7, EndsDo
    <3>2. k + 1 = 2
      BY <2>4, <3>1
    <3>3. todo'[d] \in Seq(AnyStep)
      BY <2>7, EndsDo DEF StepsOK
    <3> QED BY <3>2, <3>3, LenProperties
  <2> QED BY <2>5, <2>6, <2>7
<1> QED BY <1>1, <1>2, <1>3, <1>4, OwnStep

(* A reload that is past its stop was there before, or has just got there. *)
LEMMA ReloadingBefore ==
    ASSUME TypeInv, [Next]_vars, NEW d \in Client, Reloading(d)', ~At(d, "stop_all")'
    PROVE  Reloading(d) /\ (At(d, "stop_all") => BeginStopAll(d))
<1>1. PICK k \in DOMAIN todo'[d] : todo'[d][k][1] = "swap"
  BY DEF Reloading
<1>2. CASE todo'[d] = todo[d]
  BY <1>2 DEF Reloading, At, Idle
<1>3. CASE Request(d)
  <2>1. PICK op \in Ops[d] \ {"disconnect"}, n \in JailNames :
           op \in AllRequests /\ todo'[d] = Steps(op, n)
    BY <1>3, RequestDoes
  <2>2. op = "reload"
    BY <1>1, <2>1, ReloadSteps
  <2> QED BY <2>1, <2>2, ReloadSteps DEF At, Idle
<1>4. CASE Disconnect(d)
  <2>1. todo'[d] = <<>> /\ DOMAIN <<>> = {}
    BY <1>4 DEF Disconnect, TypeInv, StepsOK
  <2> QED BY <1>1, <2>1
<1>5. CASE (Aside(d) \/ Spawn(d) \/ Push(d)) /\ ~Request(d)
  <2>1. PICK l \in 2..Len(todo[d]) : todo'[d][k] = todo[d][l]
    BY <1>1, <1>5, LeftOver
  <2>2. l \in DOMAIN todo[d] /\ todo[d][l][1] = "swap"
    BY <1>1, <2>1, LenProperties DEF TypeInv, StepsOK
  <2>3. At(d, "stop_all") => BeginStopAll(d)
    BY <1>5 DEF At, Aside, CheckStart, ReadConfig, FirstGuard, BeginStop, EndStop, SwapConfig,
                Reopen, StartAll, ReadList, Spawn, Push
  <2> QED BY <2>2, <2>3 DEF Reloading
<1> QED BY <1>2, <1>3, <1>4, <1>5, OwnStep

(* The list grows by the end of a start only.                              *)
LEMMA ListGrows ==
    ASSUME TypeInv, [Next]_vars, NEW i, Holds(listed', i)
    PROVE  Holds(listed, i) \/ \E c \in Client : Push(c)
<1>1. CASE UNCHANGED vars
  BY <1>1 DEF vars, Holds
<1>2. CASE TaskStep \/ Edit \/ \E c \in Client : SendStop(c) \/ Joined(c)
  BY <1>2, LivesEnd DEF Holds
<1>3. ASSUME NEW c \in Client, Aside(c) \/ Spawn(c) \/ Disconnect(c)
      PROVE  Holds(listed, i)
  BY <1>3, AsideDoes, DisconnectDoes DEF Spawn, listVars, Holds
<1> QED BY <1>1, <1>2, <1>3, NextCases

LEMMA ClearedKept ==
    ASSUME TypeInv, RacesOK, SwapShape, Cleared, [Next]_vars
    PROVE  Cleared'
<1> SUFFICES ASSUME ~overtaken', NEW c \in Client, Reloading(c)', ~At(c, "stop_all")'
             PROVE  Unlisted' /\ \A d \in Client : ~Underway(d)'
  BY DEF Cleared
<1>1. ~overtaken /\ Reloading(c) /\ (At(c, "stop_all") => BeginStopAll(c))
  BY RacesGrow, ReloadingBefore
<1>2. CASE BeginStopAll(c)
  <2>1. Unlisted' /\ UNCHANGED inst /\ \A d \in Client : ~Underway(d)
    <3>1. listed' = <<>> /\ DOMAIN <<>> = {} /\ inst' = inst
      BY <1>2 DEF BeginStopAll, jailVars
    <3> DEFINE crossed == Reloading(c) /\ \E d \in Client : Underway(d)
    <3>2. overtaken' = (overtaken \/ crossed)
      BY <1>2 DEF BeginStopAll
    <3> HIDE DEF crossed
    <3>3. ~crossed
      BY <3>2, Zenon
    <3> QED BY <1>1, <3>1, <3>3 DEF Unlisted, Holds, crossed
  <2>2. ASSUME NEW d \in Client, Underway(d)'
        PROVE  FALSE
    <3>1. CheckStart(d)
      BY <2>1, <2>2, UnderwayBefore
    <3>2. d # c
      BY <1>2, <3>1 DEF CheckStart, BeginStopAll, At
    <3>3. todo'[d] = todo[d]
      BY <1>2, <3>2, BeginStopDoes
    <3> QED BY <2>1, <2>2, <3>3, NameStays
  <2> QED BY <2>1, <2>2
<1>3. CASE ~BeginStopAll(c)
  <2>1. ~At(c, "stop_all") /\ Unlisted /\ \A d \in Client : ~Underway(d)
    BY <1>1, <1>3 DEF Cleared
  <2>2. At(c, "swap") \/ At(c, "join")
    BY <1>1, <2>1, SwapAt DEF Reloading
  <2>3. \A d \in Client : ~(CheckStart(d) /\ ~Listed(Arg(d)))
    <3> SUFFICES ASSUME NEW d \in Client, CheckStart(d), ~Listed(Arg(d)) PROVE FALSE
      OBVIOUS
    <3>1. lock = None /\ ~At(c, "swap")
      BY DEF CheckStart
    <3>2. lock = c
      BY <2>2, <3>1 DEF TypeInv, GuardsOK
    <3> QED BY <3>1, <3>2, ServerAssumption
  <2>4. \A d \in Client : ~Underway(d)'
    BY <2>1, <2>3, UnderwayBefore
  <2>5. \A d \in Client : ~Push(d)
    BY <2>1 DEF Push, Underway
  <2>6. Unlisted'
    BY <2>1, <2>5, ListGrows DEF Unlisted, Holds
  <2> QED BY <2>4, <2>6
<1> QED BY <1>2, <1>3

(* The version a start carries is the one it read.                         *)
LEMMA AsideVersions ==
    ASSUME TypeInv, NEW c \in Client, Aside(c), At(c, "guard")' \/ At(c, "spawn")'
    PROVE  \/ Head(todo'[c])[3] = config
           \/ At(c, "guard") /\ Head(todo'[c])[3] = Head(todo[c])[3]
<1>1. CASE Request(c)
  BY <1>1, RequestType DEF Later
<1>2. CASE CheckStart(c)
  BY <1>2, CheckStartDoes DEF Later
<1>3. CASE ReadConfig(c)
  BY <1>3, ReadConfigDoes DEF Later
<1>4. CASE FirstGuard(c)
  BY <1>4, FirstGuardDoes DEF FirstGuard
<1>5. CASE (BeginStop(c) /\ Listed(Arg(c))) \/ BeginStopAll(c)
  BY <1>5, BeginStopDoes
<1>6. CASE EndStop(c) \/ SwapConfig(c) \/ ReadList(c) \/ (BeginStop(c) /\ ~Listed(Arg(c)))
  BY <1>6, EndsDo DEF Later
<1>7. CASE Reopen(c)
  BY <1>7, ReopenDoes DEF Later
<1>8. CASE StartAll(c)
  BY <1>8, StartAllDoes DEF Later
<1> QED BY <1>1, <1>2, <1>3, <1>4, <1>5, <1>6, <1>7, <1>8 DEF Aside

(* What is listed or about to be pushed was spawned.                       *)
LEMMA Spawned ==
    ASSUME TypeInv
    PROVE  /\ \A i : Holds(listed, i) => i \in DOMAIN inst
           /\ \A c \in Client : At(c, "push") => Arg(c) \in DOMAIN inst
  BY ArgFacts DEF TypeInv, ListsOK

LEMMA FreshAside ==
    ASSUME TypeInv, Fresh, NEW c \in Client, Aside(c), ~SwapConfig(c)
    PROVE  Fresh'
<1>1. config' = config
  <2>1. Request(c) => config' = config
    BY RequestDoes
  <2> QED BY <2>1 DEF Aside, CheckStart, ReadConfig, FirstGuard, BeginStop, BeginStopAll,
                      EndStop, Reopen, StartAll, ReadList, configVars
<1>2. /\ inst' = inst /\ \A d \in Client : d # c => todo'[d] = todo[d]
      /\ \A i : Holds(listed', i) => Holds(listed, i)
      /\ ~At(c, "push")'
  BY AsideDoes
<1>3. ASSUME NEW d \in Client, At(d, "guard")' \/ At(d, "spawn")'
      PROVE  Head(todo'[d])[3] >= config'
  <2>1. CASE d # c
    BY <1>1, <1>2, <1>3, <2>1 DEF Fresh, At, Idle
  <2>2. CASE d = c
    <3>1. \/ Head(todo'[c])[3] = config
          \/ At(c, "guard") /\ Head(todo'[c])[3] = Head(todo[c])[3]
      BY <1>3, <2>2, AsideVersions DEF At, Idle
    <3>2. config \in Nat /\ config >= config
      BY DEF TypeInv, NumbersOK
    <3> QED BY <1>1, <2>2, <3>1, <3>2 DEF Fresh
  <2> QED BY <2>1, <2>2
<1>4. ASSUME NEW d \in Client, At(d, "push")'
      PROVE  inst'[Arg(d)'].cfg >= config'
  <2>1. d # c
    BY <1>2, <1>4 DEF At, Idle
  <2> QED BY <1>1, <1>2, <1>4, <2>1 DEF Fresh, At, Idle, Arg
<1>5. \A i : Holds(listed, i)' => inst'[i].cfg >= config'
  BY <1>1, <1>2 DEF Fresh, Holds
<1> QED BY <1>1, <1>3, <1>4, <1>5 DEF Fresh

LEMMA FreshSpawn ==
    ASSUME TypeInv, Fresh, NEW c \in Client, Spawn(c)
    PROVE  Fresh'
<1>1. UNCHANGED <<config, listed>> /\ At(c, "spawn")
  BY SpawnDoes DEF Spawn, listVars
<1>2. /\ \A d \in Client : d # c => todo'[d] = todo[d]
      /\ \A kind : At(c, kind)' <=> kind = "push"
      /\ Arg(c)' = Len(inst) + 1 /\ inst'[Len(inst) + 1] = New(c)
      /\ \A i \in DOMAIN inst : inst'[i] = inst[i]
  BY SpawnDoes
<1>3. New(c).cfg >= config
  BY <1>1 DEF Fresh, New
<1>4. \A i : Holds(listed, i)' => inst'[i].cfg >= config'
  BY <1>1, <1>2, Spawned DEF Fresh, Holds
<1>5. ASSUME NEW d \in Client, d # c
      PROVE  /\ At(d, "guard")' \/ At(d, "spawn")' => Head(todo'[d])[3] >= config'
             /\ At(d, "push")' => inst'[Arg(d)'].cfg >= config'
  <2>1. At(d, "push") => Arg(d) \in DOMAIN inst
    BY Spawned
  <2> QED BY <1>1, <1>2, <1>5, <2>1 DEF Fresh, At, Idle, Arg
<1>6. /\ ~At(c, "guard")' /\ ~At(c, "spawn")' /\ inst'[Arg(c)'].cfg >= config'
  BY <1>1, <1>2, <1>3
<1>7. ASSUME NEW d \in Client
      PROVE  /\ At(d, "guard")' \/ At(d, "spawn")' => Head(todo'[d])[3] >= config'
             /\ At(d, "push")' => inst'[Arg(d)'].cfg >= config'
  BY <1>5, <1>6 DEF At, Idle, Arg
<1> QED BY <1>1, <1>4, <1>7 DEF Fresh

LEMMA FreshPush ==
    ASSUME TypeInv, Fresh, NEW c \in Client, Push(c)
    PROVE  Fresh'
<1>1. UNCHANGED <<config, inst>> /\ At(c, "push") /\ listed' = Append(listed, Arg(c))
  BY DEF Push, configVars, jailVars, GoOn
<1>2. /\ \A d \in Client : d # c => todo'[d] = todo[d]
      /\ ~At(c, "guard")' /\ ~At(c, "spawn")' /\ ~At(c, "push")'
  BY EndsDo DEF Later
<1>3. Arg(c) \in Nat
  BY <1>1, ArgFacts, LenProperties DEF TypeInv, JailsOK
<1>4. \A i : Holds(listed', i) => Holds(listed, i) \/ i = Arg(c)
  BY <1>1, <1>3, HoldsAppend DEF TypeInv, ListsOK
<1>5. \A i : Holds(listed, i)' => inst'[i].cfg >= config'
  BY <1>1, <1>4 DEF Fresh, Holds
<1>6. ASSUME NEW d \in Client
      PROVE  /\ At(d, "guard")' \/ At(d, "spawn")' => Head(todo'[d])[3] >= config'
             /\ At(d, "push")' => inst'[Arg(d)'].cfg >= config'
  BY <1>1, <1>2 DEF Fresh, At, Idle, Arg
<1> QED BY <1>1, <1>5, <1>6 DEF Fresh

(* The new configuration is stored while no jail is listed or being        *)
(* started.                                                                *)
LEMMA FreshSwap ==
    ASSUME TypeInv, SwapShape, Cleared, ~overtaken, NEW c \in Client, SwapConfig(c)
    PROVE  Fresh'
<1>1. At(c, "swap") /\ ~At(c, "stop_all") /\ UNCHANGED <<inst, listed>>
  BY DEF SwapConfig, jailVars, listVars, At
<1>2. Reloading(c)
  <2>1. 1 \in DOMAIN todo[c] /\ todo[c][1][1] = "swap"
    BY <1>1, AtStep DEF TypeInv
  <2> QED BY <2>1 DEF Reloading
<1>3. Unlisted /\ \A d \in Client : ~Underway(d)
  BY <1>1, <1>2 DEF Cleared
<1>4. /\ \A d \in Client : d # c => todo'[d] = todo[d]
      /\ ~At(c, "guard")' /\ ~At(c, "spawn")' /\ ~At(c, "push")'
  BY EndsDo DEF Later
<1>5. \A d \in Client : ~At(d, "guard")' /\ ~At(d, "spawn")' /\ ~At(d, "push")'
  BY <1>3, <1>4 DEF Underway, At, Idle
<1> QED BY <1>1, <1>3, <1>5 DEF Fresh, Unlisted, Holds

LEMMA FreshKept ==
    ASSUME TypeInv, RacesOK, SwapShape, Cleared, RecentInv, [Next]_vars
    PROVE  RecentInv'
<1> SUFFICES ASSUME ~overtaken' PROVE Fresh'
  BY DEF RecentInv
<1>0. ~overtaken /\ Fresh
  BY RacesGrow DEF RecentInv
<1>1. CASE UNCHANGED vars
  BY <1>0, <1>1 DEF vars, Fresh, Holds, At, Idle, Arg
<1>2. CASE TaskStep \/ Edit \/ \E c \in Client : SendStop(c) \/ Joined(c)
  <2>1. /\ UNCHANGED <<config, listed, todo>>
        /\ \A i \in DOMAIN inst : inst'[i].cfg = inst[i].cfg
    BY <1>2, LivesEnd
  <2>2. \A i : Holds(listed, i)' => inst'[i].cfg >= config'
    BY <1>0, <2>1, Spawned DEF Fresh, Holds
  <2>3. ASSUME NEW d \in Client
        PROVE  /\ At(d, "guard")' \/ At(d, "spawn")' => Head(todo'[d])[3] >= config'
               /\ At(d, "push")' => inst'[Arg(d)'].cfg >= config'
    <3>1. At(d, "push") => Arg(d) \in DOMAIN inst
      BY Spawned
    <3> QED BY <1>0, <2>1, <3>1 DEF Fresh, At, Idle, Arg
  <2> QED BY <2>2, <2>3 DEF Fresh
<1>3. ASSUME NEW c \in Client, SwapConfig(c)
      PROVE  Fresh'
  BY <1>0, <1>3, FreshSwap
<1>4. ASSUME NEW c \in Client, Aside(c) \/ Spawn(c) \/ Push(c), ~SwapConfig(c)
      PROVE  Fresh'
  BY <1>0, <1>4, FreshAside, FreshSpawn, FreshPush
<1>5. ASSUME NEW c \in Client, Disconnect(c)
      PROVE  Fresh'
  <2>1. UNCHANGED <<config, listed, inst>> /\ \A kind : ~At(c, kind)'
    BY <1>5, DisconnectDoes
  <2>2. \A d \in Client : d # c => todo'[d] = todo[d]
    BY <1>5 DEF Disconnect, TypeInv, StepsOK
  <2>3. \A i : Holds(listed, i)' => inst'[i].cfg >= config'
    BY <1>0, <2>1 DEF Fresh, Holds
  <2>4. ASSUME NEW d \in Client
        PROVE  /\ At(d, "guard")' \/ At(d, "spawn")' => Head(todo'[d])[3] >= config'
               /\ At(d, "push")' => inst'[Arg(d)'].cfg >= config'
    BY <1>0, <2>1, <2>2 DEF Fresh, At, Idle, Arg
  <2> QED BY <2>3, <2>4 DEF Fresh
<1> QED BY <1>1, <1>2, <1>3, <1>4, <1>5, NextCases

(* A configuration that is still to be stored stays so until it is.        *)
LEMMA PendingKept ==
    ASSUME TypeInv, SwapShape, [Next]_vars, ~gone', NEW v, Pending(v)
    PROVE  Pending(v)' \/ \E c \in Client : SwapConfig(c) /\ Arg(c) = v
<1>1. PICK c \in Client : \E k \in DOMAIN todo[c] : todo[c][k] = <<"swap", v>>
  BY DEF Pending
<1>a. PICK k \in DOMAIN todo[c] : todo[c][k] = <<"swap", v>>
  BY <1>1
<1>2. \/ At(c, "swap") /\ Arg(c) = v
      \/ k = 2 /\ (At(c, "stop_all") \/ At(c, "join"))
  BY <1>a, SwapAt
<1>3. CASE todo'[c] = todo[c]
  BY <1>a, <1>3 DEF Pending
<1>4. CASE Request(c)
  BY <1>2, <1>4 DEF Request, At
<1>5. CASE Disconnect(c)
  BY <1>5 DEF Disconnect
<1>6. CASE (Aside(c) \/ Spawn(c) \/ Push(c)) /\ ~Request(c)
  <2>1. SwapConfig(c) \/ BeginStopAll(c) \/ EndStop(c)
    BY <1>2, <1>6 DEF At, Aside, CheckStart, ReadConfig, FirstGuard, BeginStop, Reopen,
                      StartAll, ReadList, Spawn, Push
  <2>2. CASE SwapConfig(c)
    BY <1>2, <2>2 DEF SwapConfig, At
  <2>3. CASE BeginStopAll(c) \/ EndStop(c)
    <3>1. /\ ~Idle(c) /\ k = 2
          /\ GoOn(c, << <<"join", None>> >>) \/ GoOn(c, <<>>)
      BY <1>2, <2>3 DEF BeginStopAll, EndStop, Continue, At
    <3>2. 2 \in 2..Len(todo[c])
      BY <1>a, <3>1, LenProperties DEF TypeInv, StepsOK
    <3>3. << <<"join", None>> >> \in Seq(AnyStep) /\ <<>> \in Seq(AnyStep)
      BY DEF AnyStep
    <3>4. \E j \in DOMAIN todo'[c] : todo'[c][j] = todo[c][2]
      BY <3>1, <3>2, <3>3, KeepsRest
    <3> QED BY <1>a, <3>1, <3>4 DEF Pending
  <2> QED BY <2>1, <2>2, <2>3
<1> QED BY <1>3, <1>4, <1>5, <1>6, OwnStep

(* What the step does to the version promised and to the one stored.       *)
LEMMA VersionsMove ==
    ASSUME TypeInv, [Next]_vars
    PROVE  /\ gone => gone'
           /\ \/ asked' = asked
              \/ Pending(asked)'
           /\ \/ config' = config
              \/ \E c \in Client : SwapConfig(c)
<1>1. CASE UNCHANGED vars
  BY <1>1 DEF vars
<1>2. CASE TaskStep \/ Edit \/ \E c \in Client : SendStop(c) \/ Joined(c)
  BY <1>2, LivesEnd
<1>3. ASSUME NEW c \in Client, Request(c)
      PROVE  config' = config /\ gone' = gone /\ (asked' = asked \/ Pending(asked)')
  <2>1. PICK op \in Ops[c] \ {"disconnect"}, n \in JailNames :
           /\ op \in AllRequests /\ todo'[c] = Steps(op, n)
           /\ asked' = IF op = "reload" THEN disk ELSE asked
    BY <1>3, RequestDoes
  <2>2. op = "reload" => 2 \in DOMAIN todo'[c] /\ todo'[c][2] = <<"swap", disk>>
    BY <2>1, ReloadSteps
  <2> QED BY <1>3, <2>1, <2>2, RequestDoes DEF Pending
<1>4. ASSUME NEW c \in Client, (Aside(c) \/ Spawn(c) \/ Push(c)) /\ ~Request(c)
      PROVE  gone' = gone /\ asked' = asked /\ (config' = config \/ SwapConfig(c))
  BY <1>4 DEF Aside, CheckStart, ReadConfig, FirstGuard, BeginStop, BeginStopAll, EndStop,
              SwapConfig, Reopen, StartAll, ReadList, Spawn, Push, GoOn, Continue, configVars
<1>5. ASSUME NEW c \in Client, Disconnect(c)
      PROVE  gone' = TRUE /\ asked' = asked /\ config' = config
  BY <1>5, DisconnectDoes
<1> QED BY <1>1, <1>2, <1>3, <1>4, <1>5, NextCases

LEMMA PromisedKept ==
    ASSUME TypeInv, RacesOK, SwapShape, Promised, [Next]_vars
    PROVE  Promised'
<1> SUFFICES ASSUME ~gone', ~overtaken', ~Pending(asked)'
             PROVE  asked' <= config'
  BY DEF Promised
<1>1. /\ ~gone /\ ~overtaken /\ asked' = asked
      /\ config' = config \/ \E c \in Client : SwapConfig(c)
  BY VersionsMove, RacesGrow
<1>2. asked \in Nat /\ config \in Nat
  BY DEF TypeInv, NumbersOK
<1>3. ASSUME NEW c \in Client, SwapConfig(c)
      PROVE  config' = Arg(c) /\ Arg(c) \in Nat /\ ~(Arg(c) < config)
  <2>1. At(c, "swap") /\ config' = Arg(c) /\ ~(Arg(c) < config)
    BY <1>3 DEF SwapConfig
  <2>2. Arg(c) \in 0..disk /\ disk \in Nat
    BY <2>1, ArgFacts DEF TypeInv, NumbersOK
  <2> QED BY <2>1, <2>2
<1>4. CASE asked <= config
  BY <1>1, <1>2, <1>3, <1>4
<1>5. CASE Pending(asked)
  <2>1. ~(Pending(asked)' /\ asked' = asked)
    BY DEF Pending
  <2>2. \E c \in Client : SwapConfig(c) /\ Arg(c) = asked
    BY <1>1, <1>5, <2>1, PendingKept DEF Pending
  <2> QED BY <1>1, <1>2, <1>3, <2>2
<1> QED BY <1>1, <1>4, <1>5 DEF Promised

(* Whatever the clients ask for, and however their steps fall between each *)
(* other's: a jail that is listed once the requests are done runs with a   *)
(* configuration at least as recent as the last one a reload has loaded,   *)
(* unless a reload was crossed (a start was under way when it stopped the  *)
(* jails, or looked for its jail before the new configuration was stored,  *)
(* or two reloads stored theirs in the wrong order) or a client went away. *)
(* A start that copies the configuration before a reload stores the new    *)
(* one cannot outlive that reload in any other way: from the stop of all   *)
(* the jails until the configuration is stored nothing is listed or under  *)
(* way.                                                                    *)
THEOREM ReloadIsEffective == Spec => []ReloadTakesEffect
<1>1. Init => TypeInv /\ RacesOK /\ ReloadInv
  <2> SUFFICES ASSUME Init PROVE RacesOK /\ ReloadInv
    BY InitType
  <2>1. /\ listed = <<>> /\ DOMAIN <<>> = {} /\ asked = 0 /\ config = 0
        /\ \A c \in Client : todo[c] = <<>> /\ \A kind : ~At(c, kind)
        /\ raced = FALSE /\ overtaken = FALSE
    BY DEF Init, At, Idle
  <2>2. RacesOK
    BY <2>1 DEF RacesOK
  <2>3. SwapShape /\ Cleared
    BY <2>1 DEF SwapShape, Cleared, Reloading
  <2>4. Fresh /\ Promised
    BY <2>1 DEF Fresh, Promised, Holds
  <2> QED BY <2>2, <2>3, <2>4 DEF ReloadInv, RecentInv
<1>2. /\ TypeInv /\ RacesOK /\ ReloadInv /\ [Next]_vars
      => (TypeInv /\ RacesOK /\ ReloadInv)'
  BY NextType, RacesGrow, ShapeKept, ClearedKept, FreshKept, PromisedKept DEF ReloadInv
<1>3. TypeInv /\ ReloadInv => ReloadTakesEffect
  <2> SUFFICES ASSUME TypeInv, RecentInv, Promised, ~overtaken, Quiet, ~gone,
                      NEW k \in DOMAIN listed
               PROVE  inst[listed[k]].cfg >= asked
    BY DEF ReloadInv, ReloadTakesEffect, ReloadRestartsAll
  <2>1. ~Pending(asked)
    <3>1. DOMAIN <<>> = {}
      OBVIOUS
    <3> QED BY <3>1 DEF Pending, Quiet, Idle
  <2>2. asked <= config /\ inst[listed[k]].cfg >= config
    BY <2>1 DEF Promised, RecentInv, Fresh, Holds
  <2>3. listed[k] \in DOMAIN inst
    BY DEF TypeInv, ListsOK, Holds
  <2>4. inst[listed[k]] \in Jails
    BY <2>3, ElementOfSeq, LenProperties DEF TypeInv, JailsOK
  <2>5. inst[listed[k]].cfg \in Nat /\ asked \in Nat /\ config \in Nat
    BY <2>4 DEF Jails, TypeInv, NumbersOK
  <2> QED BY <2>2, <2>5
<1> QED BY <1>1, <1>2, <1>3, PTL DEF Spec
=============================================================================
