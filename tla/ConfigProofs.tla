----------------------------- MODULE ConfigProofs -----------------------------
(***************************************************************************)
(* Theorems about Config.                                                  *)
(***************************************************************************)
EXTENDS Config, RecursionLemmas, FiniteSetTheorems, SequenceTheorems

-----------------------------------------------------------------------------
(* The least and the greatest of numbers.                                  *)
LEMMA MinIsLeast ==
    ASSUME NEW S \in SUBSET Nat, S # {}
    PROVE  Min(S) \in S /\ \A m \in S : Min(S) <= m
<1>1. \E n \in S : \A m \in S : n <= m
  BY HasLeast
<1> QED BY <1>1 DEF Min

LEMMA MaxIsGreatest ==
    ASSUME NEW S \in SUBSET Nat, S # {}, NEW b \in Nat, \A n \in S : n <= b
    PROVE  Max(S) \in S /\ \A m \in S : m <= Max(S)
<1> DEFINE R == {b - n : n \in S}
<1> HIDE DEF R
<1>1. R \in SUBSET Nat /\ R # {}
  <2>1. \A n \in S : b - n \in Nat
    OBVIOUS
  <2> QED BY <2>1 DEF R
<1>2. \E r \in R : \A m \in R : r <= m
  BY <1>1, HasLeast
<1>3. PICK n \in S : \A m \in S : b - n <= b - m
  BY <1>2 DEF R
<1>4. \A m \in S : n >= m
  BY <1>3
<1>5. \E x \in S : \A m \in S : x >= m
  BY <1>4
<1> QED BY <1>5 DEF Max

-----------------------------------------------------------------------------
(* Durations are numbers, or None.                                         *)
LEMMA Widths ==
    /\ Power(2, Width) \in Nat /\ Power(2, Width - 1) \in Nat
    /\ Power(2, Width) = 2 * Power(2, Width - 1)
    /\ MaxU \in Nat /\ LongestBan < MaxU
    /\ \A n \in Nat : Saturated(n) \in Nat
<1>1. Width - 1 \in Nat
  BY WidthAssumption
<1>2. Power(2, (Width - 1) + 1) = 2 * Power(2, Width - 1)
      /\ Power(2, Width - 1) \in Nat
  BY <1>1, PowerStep
<1>3. (Width - 1) + 1 = Width
  BY WidthAssumption
<1>4. Power(2, Width) = 2 * Power(2, Width - 1)
  BY <1>2, <1>3
<1>5. MaxU \in Nat /\ LongestBan < MaxU
  BY <1>2, <1>4, WidthAssumption DEF MaxU
<1> QED BY <1>2, <1>4, <1>5 DEF Saturated

LEMMA SecondsIsNumber == \A unit : Seconds(unit) \in Nat
BY DEF Seconds

LEMMA ProductIsNumber ==
    ASSUME NEW a \in Nat, NEW b \in Nat
    PROVE  a * b \in Nat
OBVIOUS

LEMMA ParseTimeIsTime ==
    ASSUME NEW form \in TimeForm
    PROVE  ParseTime(form) \in Nat \cup {None}
<1>1. CASE form.kind = "word"
  BY <1>1 DEF ParseTime
<1>2. CASE form.kind = "integer"
  <2>1. form.n \in Int
    BY <1>2 DEF TimeForm
  <2> QED BY <1>2, <2>1 DEF ParseTime
<1>3. CASE form.kind = "pairs"
  <2> DEFINE bare == SelectInSeq(form.pairs, LAMBDA p : p[2] = "")
             last == IF bare = 0 THEN Len(form.pairs) ELSE bare
             Eqn(f) == f = [i \in 0..last |->
                               IF i = 0 THEN 0 ELSE AddPair(f[i - 1], form.pairs[i])]
  <2>1. ParseTime(form) = (CHOOSE f : Eqn(f))[last]
    BY <1>3 DEF ParseTime
  <2>2. form.pairs \in Seq(Nat \X STRING)
    BY <1>3 DEF TimeForm
  <2>3. last \in Nat /\ last <= Len(form.pairs)
    <3> DEFINE I == {i \in 1..Len(form.pairs) : form.pairs[i][2] = ""}
    <3>1. bare = IF I # {} THEN Min(I) ELSE 0
      BY DEF SelectInSeq
    <3>2. \A i \in I : i \in 1..Len(form.pairs)
      OBVIOUS
    <3>3. Len(form.pairs) \in Nat
      BY <2>2
    <3> HIDE DEF bare, I
    <3>4. I # {} => Min(I) \in 1..Len(form.pairs)
      BY <3>2, <3>3, MinIsLeast
    <3> QED BY <3>1, <3>3, <3>4 DEF last
  <2> HIDE DEF bare, last
  <2>4. \A x \in Nat : \A i \in 1..last : AddPair(x, form.pairs[i]) \in Nat
    <3> SUFFICES ASSUME NEW x \in Nat, NEW i \in 1..last
                 PROVE  AddPair(x, form.pairs[i]) \in Nat
      OBVIOUS
    <3>1. form.pairs[i][1] \in Nat
      BY <2>2, <2>3
    <3>2. form.pairs[i][1] * Seconds(form.pairs[i][2]) \in Nat
      BY <3>1, SecondsIsNumber, ProductIsNumber
    <3> QED BY <3>2, Widths DEF AddPair
  <2>5. \E f : Eqn(f) /\ f[last] \in Nat
    <3> DEFINE base == 0
               step == [i \in Nat |-> [x \in Nat |->
                           IF i \in 1..last THEN AddPair(x, form.pairs[i]) ELSE x]]
    <3>1. base \in Nat /\ step \in [Nat -> [Nat -> Nat]]
      BY <2>4
    <3> HIDE DEF base, step
    <3>2. PICK f : Runs(f, Nat, base, step, last)
      BY <2>3, <3>1, Recursion
    <3>3. ASSUME NEW i \in 0..last
          PROVE  f[i] = IF i = 0 THEN 0 ELSE AddPair(f[i - 1], form.pairs[i])
      <4>1. CASE i = 0
        BY <3>2, <4>1 DEF base, Runs
      <4>2. CASE i # 0
        <5>1. i \in 1..last /\ i \in Nat /\ f[i - 1] \in Nat
          BY <2>3, <3>2, <4>2 DEF Runs
        <5>2. f[i] = step[i][f[i - 1]]
          BY <5>1, <3>2 DEF Runs
        <5> QED BY <5>1, <5>2, <4>2 DEF step
      <4> QED BY <4>1, <4>2
    <3>4. Eqn(f)
      BY <3>2, <3>3 DEF Runs
    <3> QED BY <3>2, <3>4, <2>3 DEF Runs
  <2>6. \A f : Eqn(f) => f[last] \in Nat
    <3>1. ASSUME NEW f, Eqn(f) PROVE f[last] \in Nat
      <4> DEFINE S == {i \in Nat : i <= last => f[i] \in Nat}
      <4>1. 0 \in S
        BY <2>3, <3>1
      <4>2. ASSUME NEW i \in S \cap Nat PROVE i + 1 \in S
        <5>1. SUFFICES ASSUME i + 1 <= last PROVE f[i + 1] \in Nat
          OBVIOUS
        <5>2. f[i + 1] = AddPair(f[i], form.pairs[i + 1])
          BY <2>3, <3>1, <5>1
        <5>3. f[i] \in Nat /\ i + 1 \in 1..last
          BY <2>3, <5>1
        <5> QED BY <2>4, <5>2, <5>3
      <4> HIDE DEF S
      <4>3. Nat \subseteq S
        BY <4>1, <4>2, Induct
      <4> QED BY <2>3, <4>3 DEF S
    <3> QED BY <3>1
  <2> QED BY <2>1, <2>5, <2>6
<1> QED BY <1>1, <1>2, <1>3 DEF TimeForm

-----------------------------------------------------------------------------
(* What is loaded can be used: the types of its settings, the built-in     *)
(* defaults where nobody sets a key, and a filter for each jail.           *)
Usable(config) ==
    \A j \in DOMAIN config.jails :
        /\ WellTyped(config.jails[j])
        /\ DOMAIN JailDefaults \subseteq DOMAIN config.jails[j]
        /\ \/ ParseSpec(config.jails[j]["filter"]).name \in DOMAIN config.filters
           \/ config.jails[j]["filter"] = <<>>

LEMMA DefinitionsUsable ==
    ASSUME NEW t, NEW settings, NEW defaults, NEW jails,
           \A j \in DOMAIN jails : /\ WellTyped(jails[j])
                                   /\ DOMAIN JailDefaults \subseteq DOMAIN jails[j],
           WithDefinitions(t, settings, defaults, jails).ok
    PROVE  Usable(WithDefinitions(t, settings, defaults, jails))
<1> DEFINE filters == [name \in FiltersOf(jails) |-> LoadDefinition(t, "filter.d", name)]
           found == {name \in DOMAIN filters : filters[name].ok}
           config == WithDefinitions(t, settings, defaults, jails)
<1>1. /\ \A name \in DOMAIN filters : filters[name].ok
      /\ config.jails = jails /\ DOMAIN config.filters = found
  BY DEF WithDefinitions, NoConfig
<1>2. DOMAIN filters = FiltersOf(jails)
  OBVIOUS
<1>3. DOMAIN config.filters = FiltersOf(jails)
  BY <1>1, <1>2
<1> HIDE DEF filters, found, config
<1>4. \A j \in DOMAIN jails : jails[j]["filter"] # <<>> =>
          ParseSpec(jails[j]["filter"]).name \in FiltersOf(jails)
  BY DEF FiltersOf
<1>5. Usable(config)
  BY <1>1, <1>3, <1>4 DEF Usable
<1> QED BY <1>5 DEF config

LEMMA LoadedUsable ==
    ASSUME NEW t, Load(t).ok
    PROVE  Usable(Load(t))
<1> DEFINE globals == LoadAll(t, EachDir(GlobalFilesOf))
           files == LoadAll(t, JailFiles)
           settings == SectionOf(globals.doc, "Definition")
           defaults == Defaults(files.doc)
           jails == [j \in JailNames(files.doc) |-> JailConfig(files.doc[j], defaults)]
<1>1. Load(t) = LoadMerged(t, globals, files)
  BY DEF Load
<1> HIDE DEF globals, files
<1>2. Load(t) = LoadJails(t, settings, files.doc, defaults)
  BY <1>1 DEF LoadMerged, NoConfig
<1> HIDE DEF settings, defaults
<1>3. Load(t) = WithDefinitions(t, settings, defaults, jails)
      /\ \A j \in DOMAIN jails : WellTyped(jails[j])
  BY <1>2 DEF LoadJails, NoConfig
<1>4. \A j \in DOMAIN jails : DOMAIN JailDefaults \subseteq DOMAIN jails[j]
  BY DEF JailConfig, Over
<1> HIDE DEF jails
<1> QED BY <1>3, <1>4, DefinitionsUsable

-----------------------------------------------------------------------------
(* The settings a jail computes its bans from are numbers, None or Unset.  *)
SettingsTyped(s) ==
    /\ s.bantime \in Nat \cup {None} /\ s.increment \in BOOLEAN /\ s.factor \in Nat
    /\ s.maxtime \in Nat \cup {None, Unset} /\ s.rndtime \in Nat \cup {None, Unset}

LEMMA TimeOfIsTime ==
    ASSUME NEW config, NEW key \in {"bantime", "bantime.maxtime", "bantime.rndtime"},
           WellTyped(config), key \in DOMAIN config
    PROVE  TimeOf(config, key) \in Nat \cup {None}
<1>1. key \in DOMAIN KeyType /\ KeyType[key] = "time"
  BY ConfigAssumption
<1>2. Parses("time", config[key])
  BY <1>1 DEF WellTyped
<1>3. Plain(config[key]) \in DOMAIN Times
  BY <1>2 DEF Parses
<1>4. Times[Plain(config[key])] \in TimeForm
  BY <1>3, ConfigAssumption
<1> QED BY <1>4, ParseTimeIsTime DEF TimeOf

LEMMA SettingsAreTyped ==
    ASSUME NEW config, WellTyped(config), DOMAIN JailDefaults \subseteq DOMAIN config
    PROVE  SettingsTyped(Settings(config))
<1>1. {"bantime", "bantime_increment", "bantime.factor"} \subseteq DOMAIN config
  BY ConfigAssumption
<1>2. TimeOf(config, "bantime") \in Nat \cup {None}
  BY <1>1, TimeOfIsTime
<1>3. /\ TimeOf(config, "bantime.maxtime") \in Nat \cup {None, Unset}
      /\ TimeOf(config, "bantime.rndtime") \in Nat \cup {None, Unset}
  <2>1. \A key : key \notin DOMAIN config => TimeOf(config, key) = Unset
    BY DEF TimeOf
  <2> QED BY <2>1, TimeOfIsTime
<1>4. Bools[Plain(config["bantime_increment"])] \in BOOLEAN
  <2>1. Parses("bool", config["bantime_increment"])
    BY <1>1, ConfigAssumption DEF WellTyped
  <2> QED BY <2>1, ConfigAssumption DEF Parses
<1>5. Nums[Plain(config["bantime.factor"])] \in Nat
  <2>1. Parses("num", config["bantime.factor"])
    BY <1>1, ConfigAssumption DEF WellTyped
  <2> QED BY <2>1, ConfigAssumption DEF Parses
<1> QED BY <1>2, <1>3, <1>4, <1>5 DEF Settings, SettingsTyped

-----------------------------------------------------------------------------
(* Whatever is loaded, it came of a load that succeeded, of the present    *)
(* files as long as they are the same.                                     *)
LoadedFromFiles ==
    /\ loaded = NoConfig \/ \E t : Load(t).ok /\ loaded = Load(t)
    /\ fresh => loaded = Load(tree)

(* A jail has typed settings, and the last ticket is of its settings.      *)
TicketFromSettings ==
    /\ running # None => SettingsTyped(running.settings)
    /\ ticket # None =>
          /\ ticket.count \in Nat
          /\ \E jitter \in Jitters(running.settings) :
                LET secs == ComputeBantime(running.settings, ticket.count, jitter)
                IN  ~Panics(secs) /\ ticket.bantime = AsSigned(secs)

ConfigInv == TypeOK /\ LoadedFromFiles /\ TicketFromSettings

LEMMA InitConfigInv == Init => ConfigInv
<1> SUFFICES ASSUME Init PROVE ConfigInv
  OBVIOUS
<1>1. ~NoConfig.ok
  BY DEF NoConfig
<1>2. 0 \in 0..MaxEdits /\ 0 \in 0..MaxBans
  BY ConfigAssumption
<1> QED BY <1>1, <1>2 DEF Init, ConfigInv, TypeOK, LoadedFromFiles, TicketFromSettings

LEMMA UsableIsTyped ==
    ASSUME LoadedFromFiles
    PROVE  loaded.ok => Usable(loaded)
BY LoadedUsable DEF LoadedFromFiles, NoConfig

LEMMA EditKeepsConfigInv == ConfigInv /\ Edit => ConfigInv'
<1> SUFFICES ASSUME ConfigInv, Edit PROVE ConfigInv'
  OBVIOUS
<1>1. /\ running = None /\ edits < MaxEdits /\ edits' = edits + 1
      /\ fresh' = FALSE /\ failed' = FALSE
      /\ UNCHANGED <<loaded, running, alive, count, ticket>>
  BY DEF Edit
<1>2. edits' \in 0..MaxEdits
  BY <1>1, ConfigAssumption DEF ConfigInv, TypeOK
<1> QED BY <1>1, <1>2 DEF ConfigInv, TypeOK, LoadedFromFiles, TicketFromSettings

LEMMA ReloadKeepsConfigInv == ConfigInv /\ Reload => ConfigInv'
<1> SUFFICES ASSUME ConfigInv, Reload PROVE ConfigInv'
  OBVIOUS
<1> DEFINE config == Load(tree)
<1> HIDE DEF config
<1>1. CASE config.ok
  <2>1. /\ loaded' = config /\ fresh' = TRUE /\ failed' = failed
        /\ running' = None /\ alive' = FALSE /\ ticket' = None
        /\ UNCHANGED <<tree, edits, count>> /\ ~failed
    BY <1>1 DEF Reload, config
  <2>2. LoadedFromFiles'
    BY <1>1, <2>1 DEF LoadedFromFiles, config
  <2>3. Usable(config)
    BY <1>1, LoadedUsable DEF config
  <2>4. TypeOK'
    BY <1>1, <2>1, <2>3 DEF ConfigInv, TypeOK, Usable, WellTyped
  <2> QED BY <2>1, <2>2, <2>4 DEF ConfigInv, TicketFromSettings
<1>2. CASE ~config.ok
  <2>1. failed' = TRUE /\ ~fresh
        /\ UNCHANGED <<loaded, fresh, running, alive, ticket, tree, edits, count>>
    BY <1>2 DEF Reload, config
  <2> QED BY <2>1 DEF ConfigInv, TypeOK, LoadedFromFiles, TicketFromSettings
<1> QED BY <1>1, <1>2

LEMMA StartJailKeepsConfigInv ==
    ASSUME ConfigInv, loaded.ok, NEW j \in DOMAIN loaded.jails, StartJail(j)
    PROVE  ConfigInv'
<1>1. /\ running = None
      /\ running'.name = j /\ running'.settings = Settings(loaded.jails[j])
      /\ UNCHANGED <<tree, edits, loaded, fresh, failed, count, ticket>>
  BY DEF StartJail
<1>2. SettingsTyped(Settings(loaded.jails[j]))
  BY UsableIsTyped, SettingsAreTyped DEF ConfigInv, Usable
<1>3. ticket = None
  BY <1>1 DEF ConfigInv, TypeOK
<1> QED BY <1>1, <1>2, <1>3 DEF ConfigInv, TypeOK, LoadedFromFiles, TicketFromSettings

LEMMA BanKeepsConfigInv == ConfigInv /\ Ban => ConfigInv'
<1> SUFFICES ASSUME ConfigInv, Ban PROVE ConfigInv'
  OBVIOUS
<1>1. /\ running # None /\ count < MaxBans
      /\ UNCHANGED <<tree, edits, loaded, fresh, failed, running>>
  BY DEF Ban
<1>2. PICK jitter \in Jitters(running.settings) :
          LET secs == ComputeBantime(running.settings, count, jitter)
          IN  IF Panics(secs)
              THEN count' \in {count, count + 1} /\ UNCHANGED ticket
              ELSE ticket' = Ticket(secs, count) /\ count' = count + 1
  BY DEF Ban
<1> DEFINE secs == ComputeBantime(running.settings, count, jitter)
<1>3. CASE Panics(secs)
  <2>1. count' \in {count, count + 1} /\ UNCHANGED ticket
    BY <1>2, <1>3
  <2> QED BY <1>1, <2>1, ConfigAssumption
          DEF ConfigInv, TypeOK, LoadedFromFiles, TicketFromSettings
<1>4. CASE ~Panics(secs)
  <2>1. count' = count + 1 /\ ticket'.count = count /\ ticket'.bantime = AsSigned(secs)
    BY <1>2, <1>4 DEF Ticket
  <2>2. TypeOK'
    BY <1>1, <2>1, ConfigAssumption DEF ConfigInv, TypeOK
  <2>3. TicketFromSettings'
    BY <1>1, <1>4, <2>1, ConfigAssumption DEF ConfigInv, TypeOK, TicketFromSettings
  <2> QED BY <1>1, <2>2, <2>3 DEF ConfigInv, LoadedFromFiles
<1> QED BY <1>3, <1>4

(* The inductive invariant.                                                *)
THEOREM ConfigInvHolds == Spec => []ConfigInv
<1>1. Init => ConfigInv
  BY InitConfigInv
<1>2. ConfigInv /\ [Next]_vars => ConfigInv'
  <2>1. ConfigInv /\ UNCHANGED vars => ConfigInv'
    BY DEF ConfigInv, vars, TypeOK, LoadedFromFiles, TicketFromSettings
  <2> QED BY <2>1, EditKeepsConfigInv, ReloadKeepsConfigInv, BanKeepsConfigInv,
             StartJailKeepsConfigInv DEF Next
<1> QED BY <1>1, <1>2, PTL DEF Spec

(* What is loaded can be used, the jail that runs is one of it, and a      *)
(* ticket is of a jail that runs and of an earlier ban.                    *)
THEOREM ConfigTypeCorrect == Spec => []TypeOK
<1>1. ConfigInv => TypeOK
  BY DEF ConfigInv
<1> QED BY <1>1, ConfigInvHolds, PTL

-----------------------------------------------------------------------------
(* Products, where the provers need help.                                  *)
LEMMA ProductGrows ==
    ASSUME NEW a \in Nat, NEW b \in Nat, b >= 1
    PROVE  a * b \in Nat /\ a * b >= a
<1>1. PICK c \in Nat : b = c + 1
  <2>1. b - 1 \in Nat /\ b = (b - 1) + 1
    OBVIOUS
  <2> QED BY <2>1
<1>2. a * b = a * c + a
  BY <1>1
<1>3. a * c \in Nat
  BY <1>1, ProductIsNumber
<1> QED BY <1>2, <1>3

LEMMA ProductGrowsRight ==
    ASSUME NEW a \in Nat, NEW b \in Nat, a >= 1
    PROVE  a * b \in Nat /\ a * b >= b
<1>1. a * b = b * a
  OBVIOUS
<1> QED BY <1>1, ProductGrows

LEMMA PowerIsPositive ==
    ASSUME NEW b \in Nat, b >= 1, NEW n \in Nat
    PROVE  Power(b, n) \in Nat /\ Power(b, n) >= 1
<1> DEFINE S == {i \in Nat : Power(b, i) \in Nat /\ Power(b, i) >= 1}
<1>1. 0 \in S
  BY PowerStep
<1>2. ASSUME NEW i \in S \cap Nat PROVE i + 1 \in S
  <2>1. Power(b, i) \in Nat /\ Power(b, i) >= 1
    BY <1>2
  <2>2. Power(b, i + 1) = b * Power(b, i)
    BY PowerStep
  <2>3. b * Power(b, i) \in Nat /\ b * Power(b, i) >= b
    BY <2>1, ProductGrows
  <2> QED BY <2>2, <2>3
<1> HIDE DEF S
<1>3. Nat \subseteq S
  BY <1>1, <1>2, Induct
<1> QED BY <1>3 DEF S

(* Saturation is out of sight of everything that a ban can last.           *)
LEMMA ScaledIsExact ==
    ASSUME NEW base \in Nat, NEW factor \in Nat, factor >= 1, NEW n \in Nat,
           NEW m \in Nat, m <= MaxU
    PROVE  /\ Scaled(base, factor, n) \in Nat
           /\ base * Power(factor, n) \in Nat
           /\ base * Power(factor, n) <= m
                 => Scaled(base, factor, n) = base * Power(factor, n)
           /\ base * Power(factor, n) >= m => Scaled(base, factor, n) >= m
<1> DEFINE P == Power(factor, n)
<1>1. P \in Nat /\ P >= 1
  BY PowerIsPositive
<1>2. Scaled(base, factor, n) = Saturated(base * Saturated(P))
  BY DEF Scaled
<1> HIDE DEF P
<1>3. /\ Saturated(P) \in Nat /\ Saturated(P) >= 1
      /\ P <= MaxU => Saturated(P) = P
      /\ P > MaxU => Saturated(P) = MaxU
  BY <1>1, Widths, WidthAssumption DEF Saturated
<1>4. base * Saturated(P) \in Nat /\ base * P \in Nat
  BY <1>1, <1>3, ProductIsNumber
<1>5. Saturated(base * Saturated(P)) \in Nat
  BY <1>4, Widths
<1>6. CASE base = 0
  <2>1. base * P = 0 /\ base * Saturated(P) = 0
    BY <1>1, <1>3, <1>6
  <2> QED BY <1>2, <1>5, <2>1, Widths DEF Saturated, P
<1>7. CASE base >= 1 /\ P <= MaxU
  <2>1. base * Saturated(P) = base * P
    BY <1>3, <1>7
  <2> QED BY <1>2, <1>4, <1>5, <2>1, Widths DEF Saturated, P
<1>8. CASE base >= 1 /\ P > MaxU
  <2>1. base * Saturated(P) >= MaxU
    BY <1>3, <1>8, Widths, ProductGrowsRight
  <2>2. base * P >= P
    BY <1>1, <1>8, ProductGrowsRight
  <2>3. Saturated(base * Saturated(P)) = MaxU
    BY <1>4, <2>1, Widths DEF Saturated
  <2>4. ~(base * P <= m)
    BY <1>1, <1>4, <1>8, <2>2, Widths
  <2> QED BY <1>2, <1>4, <1>5, <2>3, <2>4, Widths DEF P
<1> QED BY <1>6, <1>7, <1>8, <1>1, Widths

LEMMA JitterIsNumber ==
    ASSUME NEW s, SettingsTyped(s), NEW jitter \in Jitters(s)
    PROVE  jitter \in Nat
<1>1. CASE s.rndtime \in {Unset, 0}
  BY <1>1 DEF Jitters
<1>2. CASE s.rndtime \notin {Unset, 0}
  <2>1. ToSecondsOrMax(s.rndtime) \in Nat
    BY <1>2, Widths DEF SettingsTyped, ToSecondsOrMax
  <2>2. jitter \in 0..(ToSecondsOrMax(s.rndtime) - 1)
    BY <1>2 DEF Jitters
  <2> QED BY <2>1, <2>2
<1> QED BY <1>1, <1>2

(* A number that chrono can hold is what it was, as a u64 and as an i64.    *)
LEMMA ShortFits ==
    ASSUME NEW n \in Nat, n <= LongestBan
    PROVE  n % Power(2, Width) = n /\ AsSigned(n) = n
<1>1. n < Power(2, Width - 1) /\ n < Power(2, Width) /\ Power(2, Width) \in Nat
  BY Widths, WidthAssumption
<1>2. AsSigned(n) = n
  BY <1>1, Widths, WidthAssumption DEF AsSigned
<1>3. n % Power(2, Width) = n
  BY <1>1
<1> QED BY <1>2, <1>3

LEMMA CapIsExact ==
    ASSUME NEW s, SettingsTyped(s), NEW n \in Nat, NEW factor \in Nat, factor >= 1,
           NEW capped,
           capped = IF Unlimited(s.bantime) * Power(factor, n) < Unlimited(s.maxtime)
                    THEN Unlimited(s.bantime) * Power(factor, n)
                    ELSE Unlimited(s.maxtime),
           capped <= LongestBan
    PROVE  LET scaled == Scaled(ToSecondsOrMax(s.bantime), factor, n)
               max == IF s.maxtime = Unset THEN MaxU ELSE ToSecondsOrMax(s.maxtime)
           IN  capped \in Nat /\ capped = IF scaled < max THEN scaled ELSE max
<1> DEFINE exact == Unlimited(s.bantime) * Power(factor, n)
           scaled == Scaled(ToSecondsOrMax(s.bantime), factor, n)
           max == IF s.maxtime = Unset THEN MaxU ELSE ToSecondsOrMax(s.maxtime)
<1>1. /\ Unlimited(s.bantime) \in Nat /\ Unlimited(s.maxtime) \in Nat
      /\ ToSecondsOrMax(s.bantime) \in Nat /\ max \in Nat
  BY Widths, WidthAssumption DEF SettingsTyped, Unlimited, Endless, ToSecondsOrMax
<1>2. Power(factor, n) \in Nat /\ Power(factor, n) >= 1
  BY PowerIsPositive
<1>3. exact \in Nat /\ exact >= Unlimited(s.bantime)
  BY <1>1, <1>2, ProductGrows
<1>4. capped = IF exact < Unlimited(s.maxtime) THEN exact ELSE Unlimited(s.maxtime)
  OBVIOUS
<1> HIDE DEF exact
<1>5. capped \in Nat /\ capped <= MaxU
  BY <1>1, <1>3, <1>4, Widths, WidthAssumption
<1>6. /\ scaled \in Nat
      /\ ToSecondsOrMax(s.bantime) * Power(factor, n) \in Nat
      /\ ToSecondsOrMax(s.bantime) * Power(factor, n) <= capped
            => scaled = ToSecondsOrMax(s.bantime) * Power(factor, n)
      /\ ToSecondsOrMax(s.bantime) * Power(factor, n) >= capped => scaled >= capped
  <2> DEFINE base == ToSecondsOrMax(s.bantime)
  <2>1. base \in Nat
    BY <1>1
  <2> HIDE DEF base
  <2>2. /\ Scaled(base, factor, n) \in Nat /\ base * Power(factor, n) \in Nat
        /\ base * Power(factor, n) <= capped
              => Scaled(base, factor, n) = base * Power(factor, n)
        /\ base * Power(factor, n) >= capped => Scaled(base, factor, n) >= capped
    <3>1. capped \in Nat /\ capped <= MaxU
      BY <1>5
    <3>2. base \in Nat /\ factor \in Nat /\ factor >= 1 /\ n \in Nat
      BY <2>1
    <3> HIDE DEF scaled, max
    <3>3. Scaled(base, factor, n) \in Nat
      BY <3>1, <3>2, ScaledIsExact
    <3>4. base * Power(factor, n) \in Nat
      BY <3>1, <3>2, ScaledIsExact
    <3>5. base * Power(factor, n) <= capped => Scaled(base, factor, n) = base * Power(factor, n)
      BY <3>1, <3>2, ScaledIsExact
    <3>6. base * Power(factor, n) >= capped => Scaled(base, factor, n) >= capped
      <4> SUFFICES ASSUME base * Power(factor, n) >= capped
                   PROVE  Scaled(base, factor, n) >= capped
        OBVIOUS
      <4> QED BY <3>1, <3>2, ScaledIsExact
    <3> QED BY <3>3, <3>4, <3>5, <3>6
  <2> QED BY <2>2 DEF base
<1>7. s.bantime # None => ToSecondsOrMax(s.bantime) * Power(factor, n) = exact
  BY WidthAssumption DEF exact, SettingsTyped, ToSecondsOrMax, Unlimited
<1>8. s.bantime = None => ToSecondsOrMax(s.bantime) * Power(factor, n) >= MaxU
  <2>1. MaxU * Power(factor, n) >= MaxU
    BY <1>2, Widths, ProductGrows
  <2> QED BY <2>1 DEF ToSecondsOrMax
<1>9. s.bantime = None => exact > LongestBan
  BY <1>3, WidthAssumption DEF Unlimited, Endless
<1>10. Unlimited(s.maxtime) <= LongestBan => max = Unlimited(s.maxtime)
  BY WidthAssumption DEF Unlimited, Endless, ToSecondsOrMax
<1>11. Unlimited(s.maxtime) > LongestBan => max > LongestBan
  BY Widths, WidthAssumption DEF SettingsTyped, Unlimited, ToSecondsOrMax
<1> HIDE DEF scaled, max
<1>12. CASE exact < Unlimited(s.maxtime)
  <2>1. capped = exact /\ s.bantime # None
    BY <1>3, <1>4, <1>9, <1>12, WidthAssumption
  <2>2. scaled = exact
    BY <1>3, <1>6, <1>7, <2>1
  <2>3. exact < max
    BY <1>1, <1>3, <1>10, <1>11, <1>12, <2>1, WidthAssumption
  <2> QED BY <1>5, <2>1, <2>2, <2>3 DEF scaled, max
<1>13. CASE ~(exact < Unlimited(s.maxtime))
  <2>1. capped = Unlimited(s.maxtime) /\ capped <= exact /\ max = capped
    BY <1>1, <1>3, <1>4, <1>10, <1>13
  <2>2. scaled >= capped
    BY <1>5, <1>6, <1>7, <1>8, <2>1, Widths
  <2> QED BY <1>1, <1>5, <1>6, <2>1, <2>2 DEF scaled, max
<1> QED BY <1>12, <1>13

LEMMA BantimeIsExact ==
    ASSUME NEW s, SettingsTyped(s), NEW n \in Nat, NEW jitter \in Jitters(s),
           \A e \in ExactBantimes(s, n) : e <= LongestBan
    PROVE  AsSigned(ComputeBantime(s, n, jitter)) \in ExactBantimes(s, n)
<1>1. CASE ~s.increment
  <2>1. ExactBantimes(s, n) = {Unlimited(s.bantime)}
    BY <1>1 DEF ExactBantimes
  <2>2. Unlimited(s.bantime) <= LongestBan
    BY <2>1
  <2>3. s.bantime \in Nat /\ Unlimited(s.bantime) = s.bantime
    BY <2>2, WidthAssumption DEF SettingsTyped, Unlimited, Endless
  <2>4. ComputeBantime(s, n, jitter) = s.bantime
    BY <1>1, <2>3, WidthAssumption DEF ComputeBantime, ToSecondsOrMax
  <2> QED BY <2>1, <2>2, <2>3, <2>4, ShortFits
<1>2. CASE s.increment
  <2> DEFINE factor == IF s.factor = 0 THEN 1 ELSE s.factor
             exact == Unlimited(s.bantime) * Power(factor, n)
             capped == IF exact < Unlimited(s.maxtime) THEN exact
                       ELSE Unlimited(s.maxtime)
             scaled == Scaled(ToSecondsOrMax(s.bantime), factor, n)
             max == IF s.maxtime = Unset THEN MaxU ELSE ToSecondsOrMax(s.maxtime)
             least == IF scaled < max THEN scaled ELSE max
  <2>1. ExactBantimes(s, n) = {capped + j : j \in Jitters(s)}
    BY <1>2 DEF ExactBantimes
  <2>2. ComputeBantime(s, n, jitter) = (least + jitter) % Power(2, Width)
    BY <1>2 DEF ComputeBantime
  <2>3. factor \in Nat /\ factor >= 1
    BY DEF SettingsTyped
  <2>4. capped + jitter <= LongestBan /\ capped + jitter \in ExactBantimes(s, n)
    BY <2>1
  <2>5. capped \in Nat
    <3>1. Unlimited(s.bantime) \in Nat /\ Unlimited(s.maxtime) \in Nat
      BY WidthAssumption DEF SettingsTyped, Unlimited, Endless
    <3>2. exact \in Nat
      BY <2>3, <3>1, PowerIsPositive, ProductIsNumber
    <3> QED BY <3>1, <3>2
  <2>6. jitter \in Nat
    BY JitterIsNumber
  <2>7. capped <= LongestBan
    <3> HIDE DEF capped
    <3> QED BY <2>4, <2>5, <2>6, WidthAssumption
  <2>8. capped = least
    BY <2>3, <2>7, CapIsExact
  <2> HIDE DEF capped, least
  <2>9. AsSigned(ComputeBantime(s, n, jitter)) = capped + jitter
    BY <2>2, <2>4, <2>5, <2>6, <2>8, ShortFits
  <2> QED BY <2>4, <2>9
<1> QED BY <1>1, <1>2 DEF SettingsTyped

(* However large the numbers on the way, a host is banned for exactly what *)
(* "base * factor^(ban_count)" (jail.rs:581) says, within the maxtime and  *)
(* with the jitter, wherever chrono can hold every ban time that could be. *)
THEOREM BansLastAsSaid == Spec => []BantimeExact
<1>1. ConfigInv => BantimeExact
  <2> SUFFICES ASSUME ConfigInv, ticket # None,
                      \A n \in ExactBantimes(running.settings, ticket.count) : n <= LongestBan
               PROVE  ticket.bantime \in ExactBantimes(running.settings, ticket.count)
    BY DEF BantimeExact
  <2>1. SettingsTyped(running.settings)
    BY DEF ConfigInv, TypeOK, TicketFromSettings
  <2>2. PICK jitter \in Jitters(running.settings) :
            ticket.bantime =
                AsSigned(ComputeBantime(running.settings, ticket.count, jitter))
    BY DEF ConfigInv, TicketFromSettings
  <2>3. ticket.count \in Nat
    BY DEF ConfigInv, TicketFromSettings
  <2> QED BY <2>1, <2>2, <2>3, BantimeIsExact
<1> QED BY <1>1, ConfigInvHolds, PTL

-----------------------------------------------------------------------------
(* Sequences: what holds of the empty one and, with a sequence, of what    *)
(* one more element makes of it, holds of all.                             *)
LEMMA SeqInduct ==
    ASSUME NEW T, NEW S, <<>> \in S,
           \A s \in Seq(T) \cap S : \A x \in T : Append(s, x) \in S
    PROVE  Seq(T) \subseteq S
<1> DEFINE N == {n \in Nat : \A s \in Seq(T) : Len(s) = n => s \in S}
<1>1. 0 \in N
  <2>1. \A s \in Seq(T) : Len(s) = 0 => s = <<>>
    BY EmptySeq
  <2> QED BY <2>1
<1>2. ASSUME NEW n \in N \cap Nat PROVE n + 1 \in N
  <2> SUFFICES ASSUME NEW s \in Seq(T), Len(s) = n + 1 PROVE s \in S
    OBVIOUS
  <2>1. s # <<>>
    BY EmptySeq
  <2>2. PICK t \in Seq(T), x \in T : s = Append(t, x)
    BY <2>1, SequenceEmptyOrAppend
  <2>3. Len(s) = Len(t) + 1 /\ Len(t) \in Nat
    BY <2>2, AppendProperties, LenProperties
  <2>4. Len(t) = n
    BY <2>3
  <2>5. t \in S
    BY <1>2, <2>4
  <2> QED BY <2>2, <2>5
<1> HIDE DEF N
<1>3. Nat \subseteq N
  BY <1>1, <1>2, Induct
<1> QED BY <1>3, LenProperties DEF N

(* Induction as far as n.                                                  *)
LEMMA InductTo ==
    ASSUME NEW S, NEW n \in Nat, n >= 1 => 1 \in S,
           \A i, k \in 1..n : k = i + 1 /\ i \in S => k \in S
    PROVE  1..n \subseteq S
<1> DEFINE N == {i \in Nat : i \in 1..n => i \in S}
<1>1. 0 \in N
  OBVIOUS
<1>2. ASSUME NEW i \in N \cap Nat PROVE i + 1 \in N
  <2> SUFFICES ASSUME i + 1 \in 1..n PROVE i + 1 \in S
    OBVIOUS
  <2>1. CASE i = 0
    BY <2>1
  <2>2. CASE i # 0
    BY <1>2, <2>2
  <2> QED BY <2>1, <2>2
<1> HIDE DEF N
<1>3. Nat \subseteq N
  BY <1>1, <1>2, Induct
<1> QED BY <1>3 DEF N

LEMMA InductUpTo ==
    ASSUME NEW S, NEW n \in Nat, 0 \in S,
           \A i, k \in 0..n : k = i + 1 /\ i \in S => k \in S
    PROVE  \A i \in 0..n : i \in S
<1> DEFINE N == {i \in Nat : i <= n => i \in S}
<1>1. 0 \in N
  OBVIOUS
<1>2. ASSUME NEW i \in N \cap Nat PROVE i + 1 \in N
  <2> DEFINE k == i + 1
  <2>1. k \in Nat /\ k = i + 1
    OBVIOUS
  <2> HIDE DEF k
  <2>2. k <= n => i \in 0..n /\ k \in 0..n /\ i \in S
    BY <1>2, <2>1
  <2>3. k <= n => k \in S
    BY <2>1, <2>2
  <2>4. k \in N
    BY <2>1, <2>3
  <2> QED BY <2>1, <2>4
<1> HIDE DEF N
<1>3. Nat \subseteq N
  BY <1>1, <1>2, Induct
<1> QED BY <1>3 DEF N

LEMMA TupleIsSame ==
    ASSUME NEW T, NEW s \in Seq(T)
    PROVE  Tuple(s) = s
BY ConcatEmptySeq DEF Tuple

(* FlattenSeq is the concatenation, one by one.                            *)
FlatEqn(f, s) == f = [i \in 1..Len(s) |-> IF i = 1 THEN s[i] ELSE f[i - 1] \o s[i]]
Flat(s) == CHOOSE f : FlatEqn(f, s)

LEMMA FlattenIsLast ==
    ASSUME NEW T, NEW s \in Seq(Seq(T)), s # <<>>
    PROVE  FlattenSeq(s) = Flat(s)[Len(s)]
<1>1. Len(s) # 0
  BY EmptySeq
<1> QED BY <1>1 DEF FlattenSeq, Flat, FlatEqn

LEMMA FlatExists ==
    ASSUME NEW T, NEW s \in Seq(Seq(T)), s # <<>>
    PROVE  /\ Flat(s)[1] = s[1]
           /\ \A i, k \in 1..Len(s) : k = i + 1 => Flat(s)[k] = Flat(s)[i] \o s[k]
           /\ \A i \in 1..Len(s) : Flat(s)[i] \in Seq(T)
<1> DEFINE n == Len(s) - 1
           base == s[1]
           step == [i \in Nat |-> [x \in Seq(T) |-> IF i \in 1..n THEN x \o s[i + 1] ELSE x]]
<1>1. n \in Nat /\ Len(s) = n + 1
  BY EmptySeq
<1>2. base \in Seq(T)
  BY <1>1, ElementOfSeq
<1>3. step \in [Nat -> [Seq(T) -> Seq(T)]]
  <2>1. \A i \in Nat : \A x \in Seq(T) : i \in 1..n => x \o s[i + 1] \in Seq(T)
    BY <1>1, ElementOfSeq, ConcatProperties
  <2> QED BY <2>1
<1> HIDE DEF n, base, step
<1>4. PICK g : Runs(g, Seq(T), base, step, n)
  BY <1>1, <1>2, <1>3, Recursion
<1> DEFINE f == [i \in 1..Len(s) |-> g[i - 1]]
<1>5. ASSUME NEW i \in 1..Len(s)
      PROVE  f[i] = IF i = 1 THEN s[i] ELSE f[i - 1] \o s[i]
  <2>1. CASE i = 1
    BY <1>4, <2>1 DEF Runs, base
  <2>2. CASE i # 1
    <3>1. i - 1 \in 1..n /\ i - 1 \in Nat /\ (i - 1) + 1 = i /\ g[(i - 1) - 1] \in Seq(T)
      BY <1>1, <1>4, <2>2 DEF Runs
    <3>2. g[i - 1] = step[i - 1][g[(i - 1) - 1]]
      BY <1>4, <3>1 DEF Runs
    <3>3. g[i - 1] = g[(i - 1) - 1] \o s[i]
      BY <3>1, <3>2 DEF step
    <3>4. i - 1 \in 1..Len(s)
      BY <1>1, <3>1
    <3>5. f[i - 1] = g[(i - 1) - 1]
      BY <3>4
    <3>6. f[i] = g[i - 1]
      OBVIOUS
    <3> HIDE DEF f
    <3> QED BY <2>2, <3>3, <3>5, <3>6
  <2> QED BY <2>1, <2>2
<1>6. FlatEqn(f, s)
  BY <1>5 DEF FlatEqn
<1> DEFINE F == Flat(s)
<1>7. F = [i \in 1..Len(s) |-> IF i = 1 THEN s[i] ELSE F[i - 1] \o s[i]]
  BY <1>6 DEF Flat, FlatEqn
<1> HIDE DEF F
<1>8. \A k \in 1..Len(s) : F[k] = IF k = 1 THEN s[k] ELSE F[k - 1] \o s[k]
  BY <1>7, Zenon
<1>9. F[1] = s[1]
  BY <1>1, <1>8
<1>10. ASSUME NEW i \in 1..Len(s), NEW k \in 1..Len(s), k = i + 1
       PROVE  F[k] = F[i] \o s[k]
  <2>1. k # 1 /\ k - 1 = i
    BY <1>10
  <2>2. F[k] = F[k - 1] \o s[k]
    BY <1>8, <2>1
  <2> QED BY <2>1, <2>2
<1> DEFINE S == {i \in 1..Len(s) : F[i] \in Seq(T)}
<1>11. 1 \in S
  BY <1>1, <1>2, <1>9 DEF base
<1>12. \A i, k \in 1..Len(s) : k = i + 1 /\ i \in S => k \in S
  <2> SUFFICES ASSUME NEW i \in 1..Len(s), NEW k \in 1..Len(s), k = i + 1, i \in S
               PROVE  k \in S
    OBVIOUS
  <2>1. F[k] = F[i] \o s[k] /\ F[i] \in Seq(T) /\ s[k] \in Seq(T)
    BY <1>10, ElementOfSeq
  <2> HIDE DEF f
  <2>2. F[i] \o s[k] \in Seq(T)
    <3>1. F[i] \in Seq(T) /\ s[k] \in Seq(T)
      BY <2>1
    <3> QED BY <3>1
  <2> QED BY <2>1, <2>2
<1> HIDE DEF S
<1>13. 1..Len(s) \subseteq S
  <2>1. Len(s) \in Nat
    BY <1>1
  <2> QED BY <1>11, <1>12, <2>1, InductTo, Zenon
<1> QED BY <1>9, <1>10, <1>13 DEF F, S

LEMMA FlattenType ==
    ASSUME NEW T, NEW s \in Seq(Seq(T))
    PROVE  FlattenSeq(s) \in Seq(T)
<1>1. CASE s = <<>>
  BY <1>1, EmptySeq DEF FlattenSeq
<1>2. CASE s # <<>>
  <2>1. Len(s) \in 1..Len(s)
    BY <1>2, EmptySeq
  <2> QED BY <1>2, <2>1, FlattenIsLast, FlatExists
<1> QED BY <1>1, <1>2

LEMMA FlattenEmpty == FlattenSeq(<<>>) = <<>>
BY EmptySeq DEF FlattenSeq

LEMMA FlattenAppend ==
    ASSUME NEW T, NEW s \in Seq(Seq(T)), NEW x \in Seq(T)
    PROVE  FlattenSeq(Append(s, x)) = FlattenSeq(s) \o x
<1> DEFINE t == Append(s, x)
<1>1. /\ t \in Seq(Seq(T)) /\ t # <<>> /\ Len(t) = Len(s) + 1 /\ Len(s) \in Nat
      /\ \A i \in 1..Len(s) : t[i] = s[i]
      /\ t[Len(s) + 1] = x
  BY AppendProperties, LenProperties
<1> HIDE DEF t
<1>2. /\ FlattenSeq(t) = Flat(t)[Len(t)]
      /\ Flat(t)[1] = t[1]
      /\ \A i, k \in 1..Len(t) : k = i + 1 => Flat(t)[k] = Flat(t)[i] \o t[k]
  BY <1>1, FlattenIsLast, FlatExists
<1>3. CASE s = <<>>
  <2>1. Flat(t)[1] = x /\ Len(s) = 0
    BY <1>1, <1>2, <1>3, EmptySeq
  <2>2. FlattenSeq(s) \o x = x
    BY <1>3, FlattenEmpty, ConcatEmptySeq
  <2> QED BY <1>1, <1>2, <2>1, <2>2 DEF t
<1>4. CASE s # <<>>
  <2>1. /\ FlattenSeq(s) = Flat(s)[Len(s)] /\ Len(s) >= 1
        /\ Flat(s)[1] = s[1]
        /\ \A i, k \in 1..Len(s) : k = i + 1 => Flat(s)[k] = Flat(s)[i] \o s[k]
    <3>1. Len(s) >= 1
      BY <1>4, EmptySeq
    <3> QED BY <1>4, <3>1, FlattenIsLast, FlatExists
  <2> DEFINE S == {i \in 1..Len(s) : Flat(t)[i] = Flat(s)[i]}
  <2>2. 1 \in S
    BY <1>1, <1>2, <2>1
  <2>3. \A i, k \in 1..Len(s) : k = i + 1 /\ i \in S => k \in S
    <3> SUFFICES ASSUME NEW i \in 1..Len(s), NEW k \in 1..Len(s), k = i + 1, i \in S
                 PROVE  k \in S
      OBVIOUS
    <3>1. i \in 1..Len(t) /\ k \in 1..Len(t)
      BY <1>1
    <3>2. Flat(t)[k] = Flat(t)[i] \o t[k] /\ Flat(s)[k] = Flat(s)[i] \o s[k]
      BY <1>2, <2>1, <3>1
    <3> QED BY <1>1, <3>2
  <2> HIDE DEF S
  <2>4. 1..Len(s) \subseteq S
    BY <1>1, <2>2, <2>3, InductTo, Zenon
  <2>5. Flat(t)[Len(s)] = Flat(s)[Len(s)]
    <3>1. Len(s) \in 1..Len(s)
      BY <1>1, <2>1
    <3> QED BY <2>4, <3>1 DEF S
  <2>6. Flat(t)[Len(t)] = Flat(t)[Len(s)] \o t[Len(t)]
    <3>1. Len(s) \in 1..Len(t) /\ Len(t) \in 1..Len(t) /\ Len(t) = Len(s) + 1
      BY <1>1, <2>1
    <3> QED BY <1>2, <3>1
  <2> QED BY <1>1, <1>2, <2>1, <2>5, <2>6 DEF t
<1> QED BY <1>3, <1>4

-----------------------------------------------------------------------------
(* Each element of a sequence replaced by a sequence.                      *)
Each(s, g) == Tuple([i \in DOMAIN s |-> g[s[i]]])
Spread(s, g) == FlattenSeq(Each(s, g))

LEMMA EachIs ==
    ASSUME NEW T, NEW s \in Seq(T), NEW g
    PROVE  /\ Each(s, g) = [i \in 1..Len(s) |-> g[s[i]]]
           /\ Len(Each(s, g)) = Len(s)
           /\ \A i \in 1..Len(s) : Each(s, g)[i] = g[s[i]]
<1> DEFINE m == [i \in 1..Len(s) |-> g[s[i]]]
           U == {g[s[i]] : i \in 1..Len(s)}
<1>1. Len(s) \in Nat /\ DOMAIN s = 1..Len(s)
  BY LenProperties
<1>2. \A i \in 1..Len(s) : g[s[i]] \in U
  OBVIOUS
<1> HIDE DEF U
<1>3. m \in Seq(U) /\ Len(m) = Len(s)
  BY <1>1, <1>2
<1>4. Each(s, g) = m
  BY <1>1, <1>3, TupleIsSame DEF Each
<1> QED BY <1>3, <1>4

LEMMA EachType ==
    ASSUME NEW T, NEW U, NEW g \in [T -> U], NEW s \in Seq(T)
    PROVE  Each(s, g) \in Seq(U)
<1>1. Len(s) \in Nat /\ \A i \in 1..Len(s) : g[s[i]] \in U
  BY LenProperties, ElementOfSeq
<1>2. [i \in 1..Len(s) |-> g[s[i]]] \in Seq(U)
  BY <1>1
<1> QED BY <1>2, EachIs

LEMMA EachEmpty == \A g : Each(<<>>, g) = <<>>
<1> SUFFICES ASSUME NEW e \in Seq({}), Len(e) = 0, NEW g PROVE Each(e, g) = <<>>
  BY EmptySeq, Zenon
<1>1. Each(e, g) = [i \in 1..Len(e) |-> g[e[i]]] /\ Len(Each(e, g)) = 0
  BY EachIs
<1>2. Each(e, g) \in [1..0 -> {}]
  BY <1>1
<1>3. Each(e, g) \in Seq({})
  BY <1>2
<1> QED BY <1>1, <1>3, EmptySeq

LEMMA EachAppend ==
    ASSUME NEW T, NEW s \in Seq(T), NEW x \in T, NEW g
    PROVE  Each(Append(s, x), g) = Append(Each(s, g), g[x])
<1> DEFINE t == Append(s, x)
           a == Each(t, g)
           b == Append(Each(s, g), g[x])
           U == {g[y] : y \in T}
<1>1. /\ t \in Seq(T) /\ Len(t) = Len(s) + 1 /\ Len(s) \in Nat
      /\ \A i \in 1..Len(s) : t[i] = s[i]
      /\ t[Len(s) + 1] = x
  BY AppendProperties, LenProperties
<1> HIDE DEF t
<1>2. Len(Each(s, g)) = Len(s) /\ \A i \in 1..Len(s) : Each(s, g)[i] = g[s[i]]
  BY EachIs
<1>3. Len(a) = Len(t) /\ \A i \in 1..Len(t) : a[i] = g[t[i]]
  BY <1>1, EachIs
<1>4. Each(s, g) \in Seq(U) /\ a \in Seq(U) /\ g[x] \in U
  <2>1. \A r \in Seq(T) : Each(r, g) \in Seq(U)
    <3> SUFFICES ASSUME NEW r \in Seq(T) PROVE Each(r, g) \in Seq(U)
      OBVIOUS
    <3>1. Len(r) \in Nat /\ \A i \in 1..Len(r) : g[r[i]] \in U
      BY LenProperties, ElementOfSeq
    <3> HIDE DEF U
    <3>2. [i \in 1..Len(r) |-> g[r[i]]] \in Seq(U)
      BY <3>1
    <3> QED BY <3>2, EachIs
  <2> QED BY <1>1, <2>1
<1> HIDE DEF a, U
<1>5. /\ b \in Seq(U) /\ Len(b) = Len(s) + 1
      /\ \A i \in 1..Len(s) : b[i] = g[s[i]]
      /\ b[Len(s) + 1] = g[x]
  BY <1>2, <1>4, AppendProperties
<1> HIDE DEF b
<1>6. ASSUME NEW i \in 1..Len(a) PROVE a[i] = b[i]
  <2>1. CASE i \in 1..Len(s)
    BY <1>1, <1>3, <1>5, <2>1
  <2>2. CASE i = Len(s) + 1
    BY <1>1, <1>3, <1>5, <2>2
  <2> QED BY <1>1, <1>3, <2>1, <2>2
<1>7. a = b
  BY <1>1, <1>3, <1>4, <1>5, <1>6, SeqEqual
<1> QED BY <1>7 DEF a, b, t

LEMMA SpreadStep ==
    ASSUME NEW T, NEW U, NEW g \in [T -> Seq(U)]
    PROVE  /\ Spread(<<>>, g) = <<>>
           /\ \A s \in Seq(T) : Spread(s, g) \in Seq(U)
           /\ \A s \in Seq(T) : \A x \in T :
                 Spread(Append(s, x), g) = Spread(s, g) \o g[x]
<1>1. /\ Each(<<>>, g) = <<>>
      /\ \A s \in Seq(T) : Each(s, g) \in Seq(Seq(U))
      /\ \A s \in Seq(T) : \A x \in T : Each(Append(s, x), g) = Append(Each(s, g), g[x])
  <2>1. \A s \in Seq(T) : Each(s, g) \in Seq(Seq(U))
    BY EachType, Zenon
  <2>2. \A s \in Seq(T) : \A x \in T : Each(Append(s, x), g) = Append(Each(s, g), g[x])
    BY EachAppend, Zenon
  <2> QED BY <2>1, <2>2, EachEmpty
<1>2. Spread(<<>>, g) = <<>>
  BY <1>1, FlattenEmpty DEF Spread
<1>3. \A s \in Seq(T) : Spread(s, g) \in Seq(U)
  BY <1>1, FlattenType DEF Spread
<1>4. ASSUME NEW s \in Seq(T), NEW x \in T
      PROVE  Spread(Append(s, x), g) = Spread(s, g) \o g[x]
  <2>1. Each(s, g) \in Seq(Seq(U)) /\ g[x] \in Seq(U)
    BY <1>1
  <2> QED BY <1>1, <2>1, FlattenAppend DEF Spread
<1> QED BY <1>2, <1>3, <1>4

LEMMA SpreadConcat ==
    ASSUME NEW T, NEW U, NEW g \in [T -> Seq(U)], NEW s \in Seq(T), NEW t \in Seq(T)
    PROVE  Spread(s \o t, g) = Spread(s, g) \o Spread(t, g)
<1>0. \A r \in Seq(T) : \A x \in T : Spread(Append(r, x), g) = Spread(r, g) \o g[x]
  BY SpreadStep, Zenon
<1> DEFINE S == {u \in Seq(T) : Spread(s \o u, g) = Spread(s, g) \o Spread(u, g)}
<1>1. <<>> \in S
  <2>1. s \o <<>> = s /\ <<>> \in Seq(T)
    BY ConcatEmptySeq, EmptySeq
  <2>2. Spread(s, g) \o <<>> = Spread(s, g)
    BY SpreadStep, ConcatEmptySeq
  <2> QED BY <2>1, <2>2, SpreadStep
<1>2. ASSUME NEW u \in Seq(T) \cap S, NEW x \in T PROVE Append(u, x) \in S
  <2>1. s \o Append(u, x) = Append(s \o u, x) /\ s \o u \in Seq(T) /\ Append(u, x) \in Seq(T)
    OBVIOUS
  <2>2. Spread(Append(s \o u, x), g) = Spread(s \o u, g) \o g[x]
    BY <1>0, <2>1, Zenon
  <2>3. Spread(Append(u, x), g) = Spread(u, g) \o g[x]
    BY <1>0, Zenon
  <2>4. Spread(s \o u, g) = Spread(s, g) \o Spread(u, g)
    BY <1>2
  <2>5. Spread(s, g) \in Seq(U) /\ Spread(u, g) \in Seq(U) /\ g[x] \in Seq(U)
    BY SpreadStep
  <2>6. (Spread(s, g) \o Spread(u, g)) \o g[x] = Spread(s, g) \o (Spread(u, g) \o g[x])
    BY <2>5, ConcatAssociative
  <2> QED BY <2>1, <2>2, <2>3, <2>4, <2>6
<1> HIDE DEF S
<1>3. Seq(T) \subseteq S
  BY <1>1, <1>2, SeqInduct
<1> QED BY <1>3 DEF S

-----------------------------------------------------------------------------
(* Interpolation.  What a context says is text.                            *)
TextMap(m) == \A key \in DOMAIN m : m[key] \in Text
TextDoc(doc) == \A name \in DOMAIN doc : TextMap(doc[name])
TextContext(ctx) ==
    /\ TextDoc(ctx.doc) /\ TextMap(ctx.defaults) /\ TextMap(ctx.builtins)
    /\ TextMap(ctx.init) /\ TextMap(ctx.known)

LEMMA EmptyIsText == <<>> \in Text /\ TextMap(<<>>)
BY EmptySeq DEF Text, TextMap

LEMMA SectionIsText ==
    ASSUME NEW doc, TextDoc(doc), NEW name
    PROVE  TextMap(SectionOf(doc, name))
BY EmptyIsText DEF SectionOf, TextDoc

LEMMA FirstWithIsText ==
    ASSUME NEW n \in Nat, NEW maps, Len(maps) = n, \A i \in 1..n : TextMap(maps[i]),
           NEW key, FirstWith(maps, key).ok
    PROVE  FirstWith(maps, key).text \in Text
<1> DEFINE I == {i \in 1..Len(maps) : key \in DOMAIN maps[i]}
           k == IF I # {} THEN Min(I) ELSE 0
<1>1. FirstWith(maps, key) = IF k = 0 THEN Fail ELSE Done(maps[k][key])
  BY DEF FirstWith, SelectInSeq
<1>2. \A i \in I : i \in 1..n /\ key \in DOMAIN maps[i]
  OBVIOUS
<1> HIDE DEF I
<1>3. I # {} => Min(I) \in I
  BY <1>2, MinIsLeast
<1>4. I # {}
  BY <1>1 DEF Fail
<1> HIDE DEF k
<1>5. k \in I
  BY <1>3, <1>4 DEF k
<1>6. maps[k][key] \in Text
  BY <1>2, <1>5 DEF TextMap
<1> QED BY <1>1, <1>2, <1>5, <1>6 DEF Done

LEMMA LookupIsText ==
    ASSUME NEW p, NEW ctx, TextContext(ctx), Lookup(p, ctx).ok
    PROVE  Lookup(p, ctx).text \in Text
<1>1. ASSUME NEW a, NEW b, NEW c, TextMap(a), TextMap(b), TextMap(c), NEW key
      PROVE  /\ FirstWith(<<a>>, key).ok => FirstWith(<<a>>, key).text \in Text
             /\ FirstWith(<<a, b>>, key).ok => FirstWith(<<a, b>>, key).text \in Text
             /\ FirstWith(<<a, b, c>>, key).ok => FirstWith(<<a, b, c>>, key).text \in Text
  <2>1. Len(<<a>>) = 1 /\ \A i \in 1..1 : TextMap(<<a>>[i])
    BY <1>1
  <2>2. Len(<<a, b>>) = 2 /\ \A i \in 1..2 : TextMap(<<a, b>>[i])
    BY <1>1
  <2>3. Len(<<a, b, c>>) = 3 /\ \A i \in 1..3 : TextMap(<<a, b, c>>[i])
    BY <1>1
  <2>4. FirstWith(<<a>>, key).ok => FirstWith(<<a>>, key).text \in Text
    BY <2>1, FirstWithIsText
  <2>5. FirstWith(<<a, b>>, key).ok => FirstWith(<<a, b>>, key).text \in Text
    BY <2>2, FirstWithIsText
  <2>6. FirstWith(<<a, b, c>>, key).ok => FirstWith(<<a, b, c>>, key).text \in Text
    BY <2>3, FirstWithIsText
  <2> QED BY <2>4, <2>5, <2>6
<1>2. \A name : TextMap(SectionOf(ctx.doc, name))
  BY SectionIsText DEF TextContext
<1>3. /\ TextMap(ctx.defaults) /\ TextMap(ctx.builtins)
      /\ TextMap(ctx.init) /\ TextMap(ctx.known)
  BY DEF TextContext
<1>4. CASE p.kind = "var"
  <2>1. LookupPercent(p, ctx).ok => LookupPercent(p, ctx).text \in Text
    BY <1>1, <1>2, <1>3 DEF LookupPercent
  <2> QED BY <1>4, <2>1 DEF Lookup
<1>5. CASE p.kind \in {"tag", "pick"}
  <2>1. LookupTag(p, ctx).ok => LookupTag(p, ctx).text \in Text
    <3>1. CASE p.kind = "pick"
      <4>1. TextMap(Picked(p, ctx))
        BY <1>2 DEF Picked
      <4>2. LookupTag(p, ctx) = IF p.key \in DOMAIN Picked(p, ctx)
                               THEN Done(Picked(p, ctx)[p.key]) ELSE Done(<<>>)
        BY <3>1, Zenon DEF LookupTag
      <4>3. p.key \in DOMAIN Picked(p, ctx) => Picked(p, ctx)[p.key] \in Text
        BY <4>1 DEF TextMap
      <4>4. \A t : Done(t).text = t
        BY DEF Done
      <4> QED BY <4>2, <4>3, <4>4, EmptyIsText
    <3>2. CASE p.kind # "pick" /\ p.section = "known"
      BY <1>5, <3>2, <1>1, <1>3 DEF LookupTag
    <3>3. CASE p.kind # "pick" /\ p.section # "known"
      BY <3>3, <1>1, <1>3 DEF LookupTag
    <3> QED BY <3>1, <3>2, <3>3
  <2> QED BY <1>5, <2>1 DEF Lookup
<1>6. CASE p.kind \notin {"var", "tag", "pick"}
  BY <1>6 DEF Lookup, Fail
<1> QED BY <1>4, <1>5, <1>6

-----------------------------------------------------------------------------
(* interpolate_inner, level by level.                                      *)
Result == [ok : BOOLEAN, text : Text]
PartOf(p, w, ctx) ==
    IF Literal(p, ctx) THEN Done(<<p>>)
    ELSE LET value == Lookup(p, ctx)
         IN  IF value.ok THEN w[value.text] ELSE Fail
PartsOf(t, w, ctx) == Tuple([i \in DOMAIN t |-> PartOf(t[i], w, ctx)])
WithinEqn(f, ctx, levels) ==
    f = [n \in 0..levels |->
            [t \in Text |-> IF n = 0 THEN Fail ELSE Joined(PartsOf(t, f[n - 1], ctx))]]
Within(ctx, levels) == CHOOSE f : WithinEqn(f, ctx, levels)

LEMMA NestedIsWithin ==
    \A text, ctx, levels : Nested(text, ctx, levels) = Within(ctx, levels)[levels][text]
BY DEF Nested, Within, WithinEqn, PartsOf, PartOf

LEMMA SingleIsText == \A p \in Piece : <<p>> \in Text
BY DEF Text

LEMMA FailIsResult == Fail \in Result /\ \A t \in Text : Done(t) \in Result
BY EmptyIsText DEF Fail, Done, Result

LEMMA PartIsResult ==
    ASSUME NEW ctx, TextContext(ctx), NEW w \in [Text -> Result], NEW p \in Piece
    PROVE  PartOf(p, w, ctx) \in Result
<1>1. Lookup(p, ctx).ok => w[Lookup(p, ctx).text] \in Result
  BY LookupIsText
<1> QED BY <1>1, SingleIsText, FailIsResult DEF PartOf

(* The parts of a text, through a function of its pieces.                  *)
PartFun(w, ctx) == [p \in Piece |-> PartOf(p, w, ctx)]

LEMMA PartsAreEach ==
    ASSUME NEW ctx, NEW w, NEW t \in Text
    PROVE  PartsOf(t, w, ctx) = Each(t, PartFun(w, ctx))
<1>1. DOMAIN t = 1..Len(t) /\ \A i \in DOMAIN t : t[i] \in Piece
  BY LenProperties, ElementOfSeq DEF Text
<1>2. \A i \in DOMAIN t : PartOf(t[i], w, ctx) = PartFun(w, ctx)[t[i]]
  BY <1>1 DEF PartFun
<1>3. [i \in DOMAIN t |-> PartOf(t[i], w, ctx)] = [i \in DOMAIN t |-> PartFun(w, ctx)[t[i]]]
  BY <1>2
<1> QED BY <1>3 DEF PartsOf, Each

LEMMA PartFunType ==
    ASSUME NEW ctx, TextContext(ctx), NEW w \in [Text -> Result]
    PROVE  PartFun(w, ctx) \in [Piece -> Result]
BY PartIsResult DEF PartFun

(* Texts of results joined, one by one.                                    *)
TextOf == [r \in Result |-> r.text]
JoinTwo(a, b) == IF a.ok /\ b.ok THEN Done(a.text \o b.text) ELSE Fail

LEMMA JoinedIsSpread ==
    ASSUME NEW parts \in Seq(Result)
    PROVE  /\ Joined(parts) = IF \A i \in DOMAIN parts : parts[i].ok
                              THEN Done(Spread(parts, TextOf)) ELSE Fail
           /\ Joined(parts) \in Result
<1>1. DOMAIN parts = 1..Len(parts) /\ \A i \in DOMAIN parts : parts[i] \in Result
  BY LenProperties, ElementOfSeq
<1>2. [i \in DOMAIN parts |-> parts[i].text] = [i \in DOMAIN parts |-> TextOf[parts[i]]]
  BY <1>1 DEF TextOf
<1>3. FlattenSeq(Tuple([i \in DOMAIN parts |-> parts[i].text])) = Spread(parts, TextOf)
  BY <1>2 DEF Spread, Each
<1>4. TextOf \in [Result -> Text]
  BY DEF TextOf, Result
<1>5. Spread(parts, TextOf) \in Text
  BY <1>4, SpreadStep DEF Text
<1>6. Joined(parts) = IF \A i \in DOMAIN parts : parts[i].ok
                      THEN Done(Spread(parts, TextOf)) ELSE Fail
  BY <1>3 DEF Joined
<1> QED BY <1>5, <1>6, FailIsResult

LEMMA JoinedEmpty == Joined(<<>>) = Done(<<>>)
<1>1. <<>> \in Seq(Result) /\ DOMAIN <<>> = {}
  BY EmptySeq
<1>2. Spread(<<>>, TextOf) = <<>>
  BY EachEmpty, FlattenEmpty DEF Spread
<1> QED BY <1>1, <1>2, JoinedIsSpread

LEMMA JoinedAppend ==
    ASSUME NEW parts \in Seq(Result), NEW r \in Result
    PROVE  Joined(Append(parts, r)) = JoinTwo(Joined(parts), r)
<1> DEFINE more == Append(parts, r)
<1>1. /\ more \in Seq(Result) /\ DOMAIN more = 1..(Len(parts) + 1)
      /\ DOMAIN parts = 1..Len(parts) /\ Len(parts) \in Nat
      /\ \A i \in 1..Len(parts) : more[i] = parts[i]
      /\ more[Len(parts) + 1] = r
  BY AppendProperties, LenProperties
<1>2. TextOf \in [Result -> Text] /\ TextOf[r] = r.text
  BY DEF TextOf, Result
<1> HIDE DEF more
<1>a. TextOf \in [Result -> Seq(Piece)]
  BY <1>2 DEF Text
<1>3. Spread(more, TextOf) = Spread(parts, TextOf) \o r.text
  <2>1. \A s \in Seq(Result) : \A x \in Result :
            Spread(Append(s, x), TextOf) = Spread(s, TextOf) \o TextOf[x]
    BY <1>a, SpreadStep, Zenon
  <2> QED BY <1>2, <2>1 DEF more
<1>4. (\A i \in DOMAIN more : more[i].ok) <=> (\A i \in DOMAIN parts : parts[i].ok) /\ r.ok
  <2>1. \A i \in DOMAIN more : i \in DOMAIN parts \/ i = Len(parts) + 1
    BY <1>1
  <2>2. DOMAIN parts \subseteq DOMAIN more /\ Len(parts) + 1 \in DOMAIN more
    BY <1>1
  <2> QED BY <1>1, <2>1, <2>2
<1>5. Joined(more) = IF \A i \in DOMAIN more : more[i].ok
                     THEN Done(Spread(more, TextOf)) ELSE Fail
  BY <1>1, JoinedIsSpread
<1>6. Joined(parts) = IF \A i \in DOMAIN parts : parts[i].ok
                      THEN Done(Spread(parts, TextOf)) ELSE Fail
  BY JoinedIsSpread
<1>7. ~Fail.ok /\ \A t : Done(t).ok /\ Done(t).text = t
  BY DEF Fail, Done
<1> HIDE DEF more
<1>8. Joined(more) = JoinTwo(Joined(parts), r)
  BY <1>3, <1>4, <1>5, <1>6, <1>7 DEF JoinTwo
<1> QED BY <1>8 DEF more

(* Replaced, through the function of a piece that gives what replaces it.  *)
Gives(ctx) ==
    [p \in Piece |-> IF Lookup(p, ctx).ok THEN Lookup(p, ctx).text ELSE <<p>>]

LEMMA GivesType ==
    ASSUME NEW ctx, TextContext(ctx)
    PROVE  Gives(ctx) \in [Piece -> Text]
<1>1. ASSUME NEW p \in Piece
      PROVE  (IF Lookup(p, ctx).ok THEN Lookup(p, ctx).text ELSE <<p>>) \in Text
  BY LookupIsText, SingleIsText
<1> QED BY <1>1 DEF Gives

LEMMA ReplacedIsSpread ==
    ASSUME NEW ctx, NEW t \in Text
    PROVE  Replaced(t, ctx) = Spread(t, Gives(ctx))
<1>1. \A i \in DOMAIN t : t[i] \in Piece
  BY LenProperties, ElementOfSeq DEF Text
<1>2. [i \in DOMAIN t |->
          IF Lookup(t[i], ctx).ok THEN Lookup(t[i], ctx).text ELSE <<t[i]>>]
      = [i \in DOMAIN t |-> Gives(ctx)[t[i]]]
  BY <1>1 DEF Gives
<1> QED BY <1>2 DEF Replaced, Spread, Each

LEMMA ReplacedStep ==
    ASSUME NEW ctx, TextContext(ctx)
    PROVE  /\ \A t \in Text : Replaced(t, ctx) \in Text
           /\ Replaced(<<>>, ctx) = <<>>
           /\ \A s, t \in Text : Replaced(s \o t, ctx) = Replaced(s, ctx) \o Replaced(t, ctx)
           /\ \A p \in Piece : Replaced(<<p>>, ctx) = Gives(ctx)[p]
<1>1. Gives(ctx) \in [Piece -> Seq(Piece)]
  BY GivesType DEF Text
<1>2. /\ Spread(<<>>, Gives(ctx)) = <<>>
      /\ \A s \in Seq(Piece) : Spread(s, Gives(ctx)) \in Seq(Piece)
      /\ \A s \in Seq(Piece) : \A x \in Piece :
            Spread(Append(s, x), Gives(ctx)) = Spread(s, Gives(ctx)) \o Gives(ctx)[x]
  BY <1>1, SpreadStep, Zenon
<1>3. \A s, t \in Seq(Piece) :
          Spread(s \o t, Gives(ctx)) = Spread(s, Gives(ctx)) \o Spread(t, Gives(ctx))
  BY <1>1, SpreadConcat, Zenon
<1>4. \A t \in Seq(Piece) : Replaced(t, ctx) = Spread(t, Gives(ctx))
  BY ReplacedIsSpread, Zenon DEF Text
<1>5. <<>> \in Seq(Piece) /\ \A s, t \in Seq(Piece) : s \o t \in Seq(Piece)
  BY EmptySeq
<1>6. ASSUME NEW s \in Seq(Piece), NEW t \in Seq(Piece)
      PROVE  Replaced(s \o t, ctx) = Replaced(s, ctx) \o Replaced(t, ctx)
  <2>1. s \o t \in Seq(Piece)
    BY <1>5
  <2>2. /\ Replaced(s \o t, ctx) = Spread(s \o t, Gives(ctx))
        /\ Replaced(s, ctx) = Spread(s, Gives(ctx))
        /\ Replaced(t, ctx) = Spread(t, Gives(ctx))
    BY <1>4, <2>1, Zenon
  <2>3. Spread(s \o t, Gives(ctx)) = Spread(s, Gives(ctx)) \o Spread(t, Gives(ctx))
    BY <1>3, Zenon
  <2> QED BY <2>2, <2>3, Zenon
<1>7. ASSUME NEW p \in Piece PROVE Replaced(<<p>>, ctx) = Gives(ctx)[p]
  <2>1. <<p>> = Append(<<>>, p) /\ <<p>> \in Seq(Piece)
    OBVIOUS
  <2>2. Spread(<<p>>, Gives(ctx)) = Spread(<<>>, Gives(ctx)) \o Gives(ctx)[p]
    BY <1>2, <1>5, <2>1
  <2>3. Gives(ctx)[p] \in Seq(Piece)
    BY <1>1
  <2>4. <<>> \o Gives(ctx)[p] = Gives(ctx)[p]
    BY <2>3, ConcatEmptySeq
  <2> QED BY <1>2, <1>4, <2>1, <2>2, <2>4
<1> QED BY <1>2, <1>4, <1>5, <1>6, <1>7 DEF Text

(* Rounds of replacement, of every text at once.                           *)
Rounds(R, ctx, n) ==
    /\ R \in [0..n -> [Text -> Text]]
    /\ R[0] = [t \in Text |-> t]
    /\ \A i, k \in 0..n : k = i + 1 => R[k] = [t \in Text |-> Replaced(R[i][t], ctx)]

LEMMA RoundsExist ==
    ASSUME NEW ctx, TextContext(ctx), NEW n \in Nat
    PROVE  \E R : Rounds(R, ctx, n)
<1> DEFINE T == [Text -> Text]
           base == [t \in Text |-> t]
           step == [i \in Nat |-> [f \in T |-> [t \in Text |-> Replaced(f[t], ctx)]]]
<1>1. base \in T
  OBVIOUS
<1>2. \A f \in T : [t \in Text |-> Replaced(f[t], ctx)] \in T
  BY ReplacedStep
<1>3. step \in [Nat -> [T -> T]]
  BY <1>2
<1> HIDE DEF T, step
<1>4. PICK R : Runs(R, T, base, step, n)
  BY <1>1, <1>3, Recursion
<1>5. ASSUME NEW i \in 0..n, NEW k \in 0..n, k = i + 1
      PROVE  R[k] = [t \in Text |-> Replaced(R[i][t], ctx)]
  <2>1. R[k] = step[k][R[k - 1]] /\ k - 1 = i /\ R[i] \in T /\ k \in Nat
    BY <1>4, <1>5 DEF Runs
  <2> QED BY <2>1 DEF step
<1> QED BY <1>4, <1>5 DEF Rounds, Runs, T

RoundsLaws(R, ctx, n) ==
    /\ \A i \in 0..n : \A t \in Text : R[i][t] \in Text
    /\ \A i \in 0..n : R[i][<<>>] = <<>>
    /\ \A i \in 0..n : \A s, t \in Text : R[i][s \o t] = R[i][s] \o R[i][t]
    /\ \A i, k \in 0..n : k = i + 1 => \A t \in Text : R[k][t] = R[i][Replaced(t, ctx)]
    /\ \A p \in Piece : Gives(ctx)[p] = <<p>> => \A i \in 0..n : R[i][<<p>>] = <<p>>
    /\ \A t \in Text : R[0][t] = t

LEMMA RoundsAre ==
    ASSUME NEW ctx, TextContext(ctx), NEW n \in Nat, NEW R, Rounds(R, ctx, n)
    PROVE  RoundsLaws(R, ctx, n)
<1>1. /\ \A i \in 0..n : \A t \in Text : R[i][t] \in Text
      /\ \A t \in Text : R[0][t] = t
      /\ \A i, k \in 0..n : k = i + 1 => \A t \in Text : R[k][t] = Replaced(R[i][t], ctx)
  BY DEF Rounds
<1>2. /\ \A t \in Text : Replaced(t, ctx) \in Text
      /\ Replaced(<<>>, ctx) = <<>>
      /\ \A s, t \in Text : Replaced(s \o t, ctx) = Replaced(s, ctx) \o Replaced(t, ctx)
      /\ \A p \in Piece : Replaced(<<p>>, ctx) = Gives(ctx)[p]
  BY ReplacedStep, Zenon
<1>3. \A s, t \in Text : s \o t \in Text
  BY DEF Text
<1>4. <<>> \in Text /\ \A p \in Piece : <<p>> \in Text
  BY EmptyIsText, SingleIsText
<1>6. \A i \in 0..n : R[i][<<>>] = <<>>
  <2> DEFINE S == {i \in 0..n : R[i][<<>>] = <<>>}
  <2>1. 0 \in S
    BY <1>1, <1>4
  <2>2. \A i, k \in 0..n : k = i + 1 /\ i \in S => k \in S
    BY <1>1, <1>2, <1>4
  <2> HIDE DEF S
  <2>3. \A i \in 0..n : i \in S
    BY InductUpTo, <2>1, <2>2, Zenon
  <2> QED BY <2>3 DEF S
<1>7. \A i \in 0..n : \A s, t \in Text : R[i][s \o t] = R[i][s] \o R[i][t]
  <2> DEFINE S == {i \in 0..n : \A s, t \in Text : R[i][s \o t] = R[i][s] \o R[i][t]}
  <2>1. 0 \in S
    <3>1. 0 \in 0..n
      OBVIOUS
    <3>2. \A s, t \in Text : R[0][s \o t] = R[0][s] \o R[0][t]
      BY <1>1, <1>3
    <3> QED BY <3>1, <3>2
  <2>2. ASSUME NEW i \in 0..n, NEW k \in 0..n, k = i + 1, i \in S PROVE k \in S
    <3> SUFFICES ASSUME NEW s \in Text, NEW t \in Text
                 PROVE  R[k][s \o t] = R[k][s] \o R[k][t]
      OBVIOUS
    <3>1. R[i][s \o t] = R[i][s] \o R[i][t]
      BY <2>2
    <3>2. /\ R[k][s \o t] = Replaced(R[i][s \o t], ctx)
          /\ R[k][s] = Replaced(R[i][s], ctx) /\ R[k][t] = Replaced(R[i][t], ctx)
          /\ R[i][s] \in Text /\ R[i][t] \in Text
      BY <1>1, <1>3, <2>2
    <3>3. Replaced(R[i][s] \o R[i][t], ctx) = Replaced(R[i][s], ctx) \o Replaced(R[i][t], ctx)
      BY <1>2, <3>2, Zenon
    <3> QED BY <3>1, <3>2, <3>3, Zenon
  <2> HIDE DEF S
  <2>3. \A i \in 0..n : i \in S
    BY InductUpTo, <2>1, <2>2, Zenon
  <2> QED BY <2>3 DEF S
<1>8. \A i \in 0..n : \A k \in 0..n : k = i + 1 =>
          \A t \in Text : R[k][t] = R[i][Replaced(t, ctx)]
  <2> DEFINE S == {i \in 0..n : \A k \in 0..n : k = i + 1 =>
                       \A t \in Text : R[k][t] = R[i][Replaced(t, ctx)]}
  <2>1. 0 \in S
    <3>1. 0 \in 0..n
      OBVIOUS
    <3>2. \A k \in 0..n : k = 0 + 1 => \A t \in Text : R[k][t] = R[0][Replaced(t, ctx)]
      <4> SUFFICES ASSUME NEW k \in 0..n, k = 0 + 1, NEW t \in Text
                   PROVE  R[k][t] = R[0][Replaced(t, ctx)]
        OBVIOUS
      <4>1. R[k][t] = Replaced(R[0][t], ctx)
        BY <1>1, <3>1
      <4> QED BY <1>1, <1>2, <4>1
    <3> QED BY <3>1, <3>2
  <2>2. ASSUME NEW i \in 0..n, NEW j \in 0..n, j = i + 1, i \in S PROVE j \in S
    <3> SUFFICES ASSUME NEW k \in 0..n, k = j + 1, NEW t \in Text
                 PROVE  R[k][t] = R[j][Replaced(t, ctx)]
      OBVIOUS
    <3>1. R[k][t] = Replaced(R[j][t], ctx)
      BY <1>1
    <3>2. R[j][t] = R[i][Replaced(t, ctx)]
      BY <2>2
    <3>3. R[j][Replaced(t, ctx)] = Replaced(R[i][Replaced(t, ctx)], ctx)
      BY <1>1, <1>2, <2>2
    <3> QED BY <3>1, <3>2, <3>3
  <2> HIDE DEF S
  <2>3. \A i \in 0..n : i \in S
    BY InductUpTo, <2>1, <2>2, Zenon
  <2> QED BY <2>3 DEF S
<1>9. ASSUME NEW p \in Piece, Gives(ctx)[p] = <<p>>
      PROVE  \A i \in 0..n : R[i][<<p>>] = <<p>>
  <2> DEFINE S == {i \in 0..n : R[i][<<p>>] = <<p>>}
  <2>1. 0 \in S
    BY <1>1, <1>4
  <2>2. \A i, k \in 0..n : k = i + 1 /\ i \in S => k \in S
    <3> SUFFICES ASSUME NEW i \in 0..n, NEW k \in 0..n, k = i + 1, R[i][<<p>>] = <<p>>
                 PROVE  R[k][<<p>>] = <<p>>
      OBVIOUS
    <3>1. R[k][<<p>>] = Replaced(R[i][<<p>>], ctx)
      BY <1>1, <1>4
    <3> QED BY <1>2, <1>9, <3>1
  <2> HIDE DEF S
  <2>3. \A i \in 0..n : i \in S
    BY InductUpTo, <2>1, <2>2, Zenon
  <2> QED BY <2>3 DEF S
<1> QED BY <1>1, <1>6, <1>7, <1>8, <1>9 DEF RoundsLaws

(* What a text that replacement has come to an end of comes out as.        *)
AllLiteral(t, ctx) == \A i \in DOMAIN t : Literal(t[i], ctx)
Outcome(t, ctx) == IF AllLiteral(t, ctx) THEN Done(t) ELSE Fail

LEMMA OutcomeJoins ==
    ASSUME NEW ctx, NEW s \in Text, NEW t \in Text
    PROVE  Outcome(s \o t, ctx) = JoinTwo(Outcome(s, ctx), Outcome(t, ctx))
<1> DEFINE u == s \o t
<1>1. /\ DOMAIN u = 1..(Len(s) + Len(t)) /\ Len(s) \in Nat /\ Len(t) \in Nat
      /\ DOMAIN s = 1..Len(s) /\ DOMAIN t = 1..Len(t)
      /\ \A i \in 1..Len(s) : u[i] = s[i]
      /\ \A i \in 1..Len(t), k \in DOMAIN u : k = Len(s) + i => u[k] = t[i]
  BY DEF Text
<1> HIDE DEF u
<1>2. AllLiteral(u, ctx) => AllLiteral(s, ctx) /\ AllLiteral(t, ctx)
  <2> SUFFICES ASSUME AllLiteral(u, ctx)
               PROVE  AllLiteral(s, ctx) /\ AllLiteral(t, ctx)
    OBVIOUS
  <2>1. ASSUME NEW i \in DOMAIN s PROVE Literal(s[i], ctx)
    <3>1. i \in DOMAIN u /\ u[i] = s[i]
      BY <1>1
    <3>2. Literal(u[i], ctx)
      BY <3>1 DEF AllLiteral
    <3> QED BY <3>1, <3>2
  <2>2. ASSUME NEW i \in DOMAIN t PROVE Literal(t[i], ctx)
    <3> DEFINE k == Len(s) + i
    <3>1. k \in DOMAIN u /\ k = Len(s) + i /\ i \in 1..Len(t)
      BY <1>1
    <3> HIDE DEF k
    <3>2. u[k] = t[i]
      BY <1>1, <3>1
    <3>3. Literal(u[k], ctx)
      BY <3>1 DEF AllLiteral
    <3> QED BY <3>2, <3>3
  <2> QED BY <2>1, <2>2 DEF AllLiteral
<1>3. AllLiteral(s, ctx) /\ AllLiteral(t, ctx) => AllLiteral(u, ctx)
  <2> SUFFICES ASSUME AllLiteral(s, ctx), AllLiteral(t, ctx), NEW k \in DOMAIN u
               PROVE  Literal(u[k], ctx)
    BY DEF AllLiteral
  <2>1. CASE k \in 1..Len(s)
    <3>1. k \in DOMAIN s /\ u[k] = s[k]
      BY <1>1, <2>1
    <3>2. Literal(s[k], ctx)
      BY <3>1 DEF AllLiteral
    <3> QED BY <3>1, <3>2
  <2>2. CASE k \notin 1..Len(s)
    <3> DEFINE i == k - Len(s)
    <3>1. i \in 1..Len(t) /\ k = Len(s) + i
      BY <1>1, <2>2
    <3> HIDE DEF i
    <3>2. u[k] = t[i] /\ i \in DOMAIN t
      BY <1>1, <3>1
    <3>3. Literal(t[i], ctx)
      BY <3>2 DEF AllLiteral
    <3> QED BY <3>2, <3>3
  <2> QED BY <2>1, <2>2
<1>4. ~Fail.ok /\ \A x : Done(x).ok /\ Done(x).text = x
  BY DEF Fail, Done
<1>5. Outcome(u, ctx) = JoinTwo(Outcome(s, ctx), Outcome(t, ctx))
  <2>1. CASE AllLiteral(s, ctx) /\ AllLiteral(t, ctx)
    <3>1. Outcome(s, ctx) = Done(s) /\ Outcome(t, ctx) = Done(t) /\ Outcome(u, ctx) = Done(u)
      BY <1>3, <2>1 DEF Outcome
    <3> QED BY <1>4, <3>1 DEF JoinTwo, u
  <2>2. CASE ~(AllLiteral(s, ctx) /\ AllLiteral(t, ctx))
    <3>1. Outcome(u, ctx) = Fail /\ (Outcome(s, ctx) = Fail \/ Outcome(t, ctx) = Fail)
      BY <1>2, <2>2 DEF Outcome
    <3> QED BY <1>4, <3>1 DEF JoinTwo
  <2> QED BY <2>1, <2>2
<1> QED BY <1>5 DEF u

LEMMA OutcomeOfPiece ==
    ASSUME NEW ctx, NEW p
    PROVE  Outcome(<<p>>, ctx) = IF Literal(p, ctx) THEN Done(<<p>>) ELSE Fail
BY DEF Outcome, AllLiteral

(* A piece is replaced unless it is literal, or stands for nothing.        *)
LEMMA LiteralStays ==
    ASSUME NEW ctx, NEW p \in Piece, Literal(p, ctx) \/ ~Lookup(p, ctx).ok
    PROVE  Gives(ctx)[p] = <<p>>
<1>1. ~Lookup(p, ctx).ok
  <2>1. CASE p.kind = "text"
    BY <2>1 DEF Lookup, Fail
  <2>2. CASE p.kind = "tag"
    BY <2>2 DEF Lookup, Literal
  <2> QED BY <2>1, <2>2 DEF Literal
<1> QED BY <1>1 DEF Gives

(* The levels of Nested, which there are.                                  *)
LEMMA WithinIs ==
    ASSUME NEW ctx, TextContext(ctx), NEW n \in Nat
    PROVE  /\ \A i \in 0..n : Within(ctx, n)[i] \in [Text -> Result]
           /\ \A t \in Text : Within(ctx, n)[0][t] = Fail
           /\ \A i, k \in 0..n : k = i + 1 => \A t \in Text :
                 Within(ctx, n)[k][t] = Joined(PartsOf(t, Within(ctx, n)[i], ctx))
<1> DEFINE T == [Text -> Result]
           base == [t \in Text |-> Fail]
           step == [i \in Nat |-> [w \in T |-> [t \in Text |-> Joined(PartsOf(t, w, ctx))]]]
<1>1. base \in T
  BY FailIsResult
<1>2. ASSUME NEW w \in T, NEW t \in Text PROVE Joined(PartsOf(t, w, ctx)) \in Result
  <2>1. PartFun(w, ctx) \in [Piece -> Result] /\ t \in Seq(Piece)
    BY PartFunType DEF Text
  <2>2. PartsOf(t, w, ctx) \in Seq(Result)
    BY <2>1, PartsAreEach, EachType
  <2> QED BY <2>2, JoinedIsSpread
<1>3. step \in [Nat -> [T -> T]]
  BY <1>2
<1> HIDE DEF T, step, base
<1>4. PICK f : Runs(f, T, base, step, n)
  BY <1>1, <1>3, Recursion
<1>5. WithinEqn(f, ctx, n)
  <2>1. ASSUME NEW i \in 0..n
        PROVE  f[i] = [t \in Text |-> IF i = 0 THEN Fail ELSE Joined(PartsOf(t, f[i - 1], ctx))]
    <3>1. CASE i = 0
      BY <1>4, <3>1 DEF Runs, base
    <3>2. CASE i # 0
      <4>1. i \in 1..n /\ i \in Nat /\ f[i - 1] \in T
        BY <1>4, <3>2 DEF Runs
      <4>2. f[i] = step[i][f[i - 1]]
        BY <1>4, <4>1 DEF Runs
      <4>3. step[i][f[i - 1]] = [t \in Text |-> Joined(PartsOf(t, f[i - 1], ctx))]
        BY <4>1 DEF step
      <4> QED BY <3>2, <4>2, <4>3
    <3> QED BY <3>1, <3>2
  <2>2. f = [i \in 0..n |-> f[i]]
    BY <1>4 DEF Runs
  <2> QED BY <2>1, <2>2 DEF WithinEqn
<1> DEFINE W == Within(ctx, n)
<1>6. WithinEqn(W, ctx, n)
  BY <1>5 DEF Within
<1> HIDE DEF W
<1>7. W[0] = base
  BY <1>6 DEF WithinEqn, base
<1>8. ASSUME NEW i \in 0..n, NEW k \in 0..n, k = i + 1
      PROVE  W[k] = [t \in Text |-> Joined(PartsOf(t, W[i], ctx))]
  <2>1. k # 0 /\ k - 1 = i
    BY <1>8
  <2> QED BY <1>6, <2>1 DEF WithinEqn
<1> DEFINE S == {i \in 0..n : W[i] \in T}
<1>9. 0 \in S
  BY <1>1, <1>7
<1>10. ASSUME NEW i \in 0..n, NEW k \in 0..n, k = i + 1, i \in S PROVE k \in S
  <2>1. \A t \in Text : Joined(PartsOf(t, W[i], ctx)) \in Result
    BY <1>2, <1>10
  <2>2. W[k] = [t \in Text |-> Joined(PartsOf(t, W[i], ctx))]
    BY <1>8, <1>10
  <2>3. W[k] \in T
    BY <2>1, <2>2 DEF T
  <2> QED BY <2>3
<1> HIDE DEF S
<1>11. \A i \in 0..n : i \in S
  BY InductUpTo, <1>9, <1>10, Zenon
<1>12. W = Within(ctx, n)
  BY DEF W
<1>13. \A i \in 0..n : Within(ctx, n)[i] \in [Text -> Result]
  <2>1. \A i \in 0..n : W[i] \in T
    BY <1>11 DEF S
  <2>2. T = [Text -> Result]
    BY DEF T
  <2> QED BY <1>12, <2>1, <2>2, Zenon
<1>14. \A t \in Text : Within(ctx, n)[0][t] = Fail
  BY <1>7, <1>12 DEF base
<1>15. \A i, k \in 0..n : k = i + 1 => \A t \in Text :
           Within(ctx, n)[k][t] = Joined(PartsOf(t, Within(ctx, n)[i], ctx))
  <2> SUFFICES ASSUME NEW i \in 0..n, NEW k \in 0..n, k = i + 1, NEW t \in Text
               PROVE  W[k][t] = Joined(PartsOf(t, W[i], ctx))
    BY <1>12
  <2>1. W[k] = [u \in Text |-> Joined(PartsOf(u, W[i], ctx))]
    BY <1>8, Zenon
  <2> QED BY <2>1
<1> QED BY <1>13, <1>14, <1>15

(* What interpolate_inner makes of a text, n levels before the last one it *)
(* allows, is what n rounds of replacement come to.                        *)
LEMMA WithinIsOutcome ==
    ASSUME NEW ctx, TextContext(ctx), NEW n \in Nat, NEW m, m = n + 1,
           NEW R, Rounds(R, ctx, n)
    PROVE  \A t \in Text : Within(ctx, m)[m][t] = Outcome(R[n][t], ctx)
<1> DEFINE W == Within(ctx, m)
<1>1. /\ m \in Nat
      /\ \A i \in 0..m : W[i] \in [Text -> Result]
      /\ \A t \in Text : W[0][t] = Fail
      /\ \A i, k \in 0..m : k = i + 1 => \A t \in Text : W[k][t] = Joined(PartsOf(t, W[i], ctx))
  <2>1. m \in Nat
    OBVIOUS
  <2>2. /\ \A i \in 0..m : Within(ctx, m)[i] \in [Text -> Result]
        /\ \A t \in Text : Within(ctx, m)[0][t] = Fail
        /\ \A i, k \in 0..m : k = i + 1 => \A t \in Text :
              Within(ctx, m)[k][t] = Joined(PartsOf(t, Within(ctx, m)[i], ctx))
    BY <2>1, WithinIs
  <2> QED BY <2>1, <2>2
<1> HIDE DEF W
<1>2. /\ \A i \in 0..n : \A t \in Text : R[i][t] \in Text
      /\ \A i \in 0..n : R[i][<<>>] = <<>>
      /\ \A i \in 0..n : \A s, t \in Text : R[i][s \o t] = R[i][s] \o R[i][t]
      /\ \A i, k \in 0..n : k = i + 1 => \A t \in Text : R[k][t] = R[i][Replaced(t, ctx)]
      /\ \A p \in Piece : Gives(ctx)[p] = <<p>> => \A i \in 0..n : R[i][<<p>>] = <<p>>
      /\ \A t \in Text : R[0][t] = t
  <2>1. RoundsLaws(R, ctx, n)
    BY RoundsAre, Zenon
  <2> QED BY <2>1, Zenon DEF RoundsLaws
<1> DEFINE Claim(i, k) == \A t \in Text : W[k][t] = Outcome(R[i][t], ctx)
(* A text is as its pieces are.                                            *)
<1>3. ASSUME NEW i \in 0..n, NEW k \in 0..m, k = i + 1,
             \A p \in Piece : PartOf(p, W[i], ctx) = Outcome(R[i][<<p>>], ctx)
      PROVE  Claim(i, k)
  <2> DEFINE S == {t \in Seq(Piece) : Joined(PartsOf(t, W[i], ctx)) = Outcome(R[i][t], ctx)}
  <2>1. i \in 0..m /\ W[i] \in [Text -> Result]
    BY <1>1
  <2>2. PartFun(W[i], ctx) \in [Piece -> Result]
    BY <2>1, PartFunType
  <2>3. \A t \in Seq(Piece) : PartsOf(t, W[i], ctx) = Each(t, PartFun(W[i], ctx))
    BY PartsAreEach, Zenon DEF Text
  <2>4. \A t \in Seq(Piece) : PartsOf(t, W[i], ctx) \in Seq(Result)
    <3>1. \A t \in Seq(Piece) : Each(t, PartFun(W[i], ctx)) \in Seq(Result)
      BY <2>2, EachType, Zenon
    <3> QED BY <2>3, <3>1
  <2>5. <<>> \in S
    <3>1. <<>> \in Seq(Piece)
      BY EmptySeq
    <3>2. PartsOf(<<>>, W[i], ctx) = <<>>
      BY <2>3, <3>1, EachEmpty
    <3>3. Outcome(<<>>, ctx) = Done(<<>>)
      BY <3>1, EmptySeq DEF Outcome, AllLiteral
    <3>4. R[i][<<>>] = <<>>
      BY <1>2
    <3> QED BY <3>1, <3>2, <3>3, <3>4, JoinedEmpty
  <2>6. ASSUME NEW t \in Seq(Piece) \cap S, NEW p \in Piece PROVE Append(t, p) \in S
    <3>1. PartFun(W[i], ctx)[p] = PartOf(p, W[i], ctx) /\ PartFun(W[i], ctx)[p] \in Result
      BY <2>2 DEF PartFun
    <3>2. Each(Append(t, p), PartFun(W[i], ctx))
          = Append(Each(t, PartFun(W[i], ctx)), PartFun(W[i], ctx)[p])
      BY EachAppend
    <3>3. t \in Seq(Piece) /\ Append(t, p) \in Seq(Piece)
      OBVIOUS
    <3>4. PartsOf(Append(t, p), W[i], ctx) = Append(PartsOf(t, W[i], ctx), PartOf(p, W[i], ctx))
      BY <2>3, <3>1, <3>2, <3>3
    <3>5. Joined(Append(PartsOf(t, W[i], ctx), PartOf(p, W[i], ctx)))
          = JoinTwo(Joined(PartsOf(t, W[i], ctx)), PartOf(p, W[i], ctx))
      BY <2>4, <3>1, <3>3, JoinedAppend
    <3>6. Joined(PartsOf(t, W[i], ctx)) = Outcome(R[i][t], ctx)
      BY <2>6
    <3>7. PartOf(p, W[i], ctx) = Outcome(R[i][<<p>>], ctx)
      BY <1>3
    <3>8. R[i][Append(t, p)] = R[i][t] \o R[i][<<p>>]
      <4>1. Append(t, p) = t \o <<p>> /\ t \in Text /\ <<p>> \in Text
        BY <3>3, SingleIsText DEF Text
      <4>2. R[i][t \o <<p>>] = R[i][t] \o R[i][<<p>>]
        BY <1>2, <4>1
      <4> QED BY <4>1, <4>2, Zenon
    <3>9. Outcome(R[i][t] \o R[i][<<p>>], ctx)
          = JoinTwo(Outcome(R[i][t], ctx), Outcome(R[i][<<p>>], ctx))
      <4>1. R[i][t] \in Text /\ R[i][<<p>>] \in Text
        BY <1>2, <3>3, SingleIsText DEF Text
      <4> QED BY <4>1, OutcomeJoins
    <3>10. Joined(PartsOf(Append(t, p), W[i], ctx)) = Outcome(R[i][Append(t, p)], ctx)
      BY <3>4, <3>5, <3>6, <3>7, <3>8, <3>9
    <3> QED BY <3>3, <3>10
  <2> HIDE DEF S
  <2>7. Seq(Piece) \subseteq S
    BY <2>5, <2>6, SeqInduct
  <2>8. ASSUME NEW t \in Text PROVE W[k][t] = Outcome(R[i][t], ctx)
    <3>1. t \in S
      BY <2>7 DEF Text
    <3>2. Joined(PartsOf(t, W[i], ctx)) = Outcome(R[i][t], ctx)
      BY <3>1 DEF S
    <3>3. W[k][t] = Joined(PartsOf(t, W[i], ctx))
      BY <1>1, <1>3, <2>1
    <3> QED BY <3>2, <3>3
  <2> QED BY <2>8
(* A piece is as its value is, one level on.                               *)
<1>4. ASSUME NEW i \in 0..n, NEW p \in Piece,
             i = 0 \/ \E h \in 0..n : i = h + 1 /\ Claim(h, i)
      PROVE  PartOf(p, W[i], ctx) = Outcome(R[i][<<p>>], ctx)
  <2>1. CASE Literal(p, ctx)
    <3>1. R[i][<<p>>] = <<p>>
      BY <1>2, <2>1, LiteralStays
    <3> QED BY <2>1, <3>1, OutcomeOfPiece DEF PartOf
  <2>2. CASE ~Literal(p, ctx) /\ ~Lookup(p, ctx).ok
    <3>1. R[i][<<p>>] = <<p>>
      BY <1>2, <2>2, LiteralStays
    <3> QED BY <2>2, <3>1, OutcomeOfPiece DEF PartOf
  <2>3. CASE ~Literal(p, ctx) /\ Lookup(p, ctx).ok
    <3> DEFINE v == Lookup(p, ctx).text
    <3>1. v \in Text /\ Gives(ctx)[p] = v
      BY <2>3, LookupIsText DEF Gives
    <3>2. PartOf(p, W[i], ctx) = W[i][v]
      BY <2>3 DEF PartOf
    <3>3. <<p>> \in Text
      BY SingleIsText
    <3>4. Replaced(<<p>>, ctx) = v
      BY <3>1, ReplacedStep
    <3> HIDE DEF v
    <3>5. CASE i = 0
      <4>1. W[i][v] = Fail /\ R[i][<<p>>] = <<p>>
        BY <1>1, <1>2, <3>1, <3>3, <3>5
      <4> QED BY <2>3, <3>2, <4>1, OutcomeOfPiece
    <3>6. ASSUME NEW h \in 0..n, i = h + 1, Claim(h, i)
          PROVE  PartOf(p, W[i], ctx) = Outcome(R[i][<<p>>], ctx)
      <4>1. W[i][v] = Outcome(R[h][v], ctx)
        BY <3>1, <3>6
      <4>2. R[i][<<p>>] = R[h][v]
        BY <1>2, <3>3, <3>4, <3>6
      <4> QED BY <3>2, <4>1, <4>2
    <3> QED BY <1>4, <3>5, <3>6
  <2> QED BY <2>1, <2>2, <2>3
<1> DEFINE S == {i \in 0..n : \A k \in 0..m : k = i + 1 => Claim(i, k)}
<1> HIDE DEF Claim
<1>5. 0 \in S
  BY <1>3, <1>4
<1>6. ASSUME NEW h \in 0..n, NEW i \in 0..n, i = h + 1, h \in S PROVE i \in S
  <2>1. i \in 0..m
    OBVIOUS
  <2>2. Claim(h, i)
    BY <1>6, <2>1
  <2>3. \A p \in Piece : PartOf(p, W[i], ctx) = Outcome(R[i][<<p>>], ctx)
    BY <1>4, <1>6, <2>2
  <2> QED BY <1>3, <2>3
<1> HIDE DEF S
<1>7. \A i \in 0..n : i \in S
  BY InductUpTo, <1>5, <1>6, Zenon
<1>8. n \in S /\ m \in 0..m
  BY <1>1, <1>7
<1>9. Claim(n, m)
  BY <1>8 DEF S
<1> QED BY <1>9 DEF Claim, W

LEMMA SubstitutedIs ==
    ASSUME NEW ctx, TextContext(ctx), NEW R, Rounds(R, ctx, MaxDepth), NEW t \in Text
    PROVE  Substituted(t, ctx) = IF AllLiteral(R[MaxDepth][t], ctx) THEN R[MaxDepth][t] ELSE t
<1> DEFINE Eqn(f) == f = [n \in 0..MaxDepth |->
                             IF n = 0 THEN t ELSE Replaced(f[n - 1], ctx)]
           r == CHOOSE f : Eqn(f)
           g == [n \in 0..MaxDepth |-> R[n][t]]
<1>1. /\ \A n \in 0..MaxDepth : \A s \in Text : R[n][s] \in Text
      /\ \A s \in Text : R[0][s] = s
      /\ \A i, k \in 0..MaxDepth : k = i + 1 =>
            \A s \in Text : R[k][s] = Replaced(R[i][s], ctx)
  BY DepthAssumption DEF Rounds
<1>2. Eqn(g)
  <2>1. ASSUME NEW n \in 0..MaxDepth
        PROVE  R[n][t] = IF n = 0 THEN t ELSE Replaced(g[n - 1], ctx)
    <3>1. CASE n = 0
      BY <1>1, <3>1
    <3>2. CASE n # 0
      <4> DEFINE i == n - 1
      <4>1. i \in 0..MaxDepth /\ n = i + 1
        BY <3>2, DepthAssumption
      <4>2. g[i] = R[i][t]
        BY <4>1
      <4> HIDE DEF i, g
      <4>3. R[n][t] = Replaced(R[i][t], ctx)
        BY <1>1, <4>1
      <4> QED BY <3>2, <4>2, <4>3 DEF i
    <3> QED BY <3>1, <3>2
  <2> QED BY <2>1
<1> HIDE DEF g
<1>3. Eqn(r)
  BY <1>2
<1>4. Substituted(t, ctx) = IF \A i \in DOMAIN r[MaxDepth] : Literal(r[MaxDepth][i], ctx)
                            THEN r[MaxDepth] ELSE t
  BY DEF Substituted
<1> HIDE DEF r
<1>5. r[0] = t /\ \A i, k \in 0..MaxDepth : k = i + 1 => r[k] = Replaced(r[i], ctx)
  <2>1. r[0] = t
    BY <1>3, DepthAssumption
  <2>2. ASSUME NEW i \in 0..MaxDepth, NEW k \in 0..MaxDepth, k = i + 1
        PROVE  r[k] = Replaced(r[i], ctx)
    <3>1. k # 0 /\ k - 1 = i
      BY <2>2
    <3> QED BY <1>3, <3>1
  <2> QED BY <2>1, <2>2
<1> DEFINE S == {n \in 0..MaxDepth : r[n] = R[n][t]}
<1> HIDE DEF Eqn
<1>6. 0 \in S
  BY <1>1, <1>5, DepthAssumption
<1>7. \A i, k \in 0..MaxDepth : k = i + 1 /\ i \in S => k \in S
  BY <1>1, <1>5
<1> HIDE DEF S
<1>8. \A n \in 0..MaxDepth : n \in S
  BY InductUpTo, <1>6, <1>7, DepthAssumption, Zenon
<1>9. MaxDepth \in S
  BY <1>8, DepthAssumption
<1>10. r[MaxDepth] = R[MaxDepth][t]
  BY <1>9 DEF S
<1> QED BY <1>4, <1>10 DEF AllLiteral

(* interpolate makes of a text what substitution makes of it, and leaves   *)
(* it as it is where substitution does: whatever the context says, and     *)
(* however its values refer to each other.                                 *)
LEMMA InterpolatedIsSubstituted ==
    ASSUME NEW ctx, TextContext(ctx), NEW t \in Text
    PROVE  /\ Interpolated(t, ctx) = Substituted(t, ctx)
           /\ Interpolated(t, ctx) \in Text
<1>1. PICK R : Rounds(R, ctx, MaxDepth)
  BY RoundsExist, DepthAssumption
<1> DEFINE m == MaxDepth + 1
           last == R[MaxDepth][t]
<1>2. Interpolate(t, ctx) = Outcome(last, ctx)
  <2>1. \A s \in Text : Within(ctx, m)[m][s] = Outcome(R[MaxDepth][s], ctx)
    BY <1>1, WithinIsOutcome, DepthAssumption
  <2>2. Interpolate(t, ctx) = Within(ctx, m)[m][t]
    BY NestedIsWithin DEF Interpolate
  <2> QED BY <2>1, <2>2
<1>3. last \in Text
  <2>1. RoundsLaws(R, ctx, MaxDepth)
    BY <1>1, RoundsAre, DepthAssumption, Zenon
  <2> QED BY <2>1, DepthAssumption DEF RoundsLaws
<1>4. Substituted(t, ctx) = IF AllLiteral(last, ctx) THEN last ELSE t
  BY <1>1, SubstitutedIs
<1> HIDE DEF last
<1>5. Interpolated(t, ctx) = IF AllLiteral(last, ctx) THEN last ELSE t
  BY <1>2 DEF Interpolated, Outcome, Done, Fail
<1> QED BY <1>3, <1>4, <1>5

-----------------------------------------------------------------------------
(* Documents.                                                              *)
Maps == UNION {[keys -> Text] : keys \in SUBSET STRING}
Docs == UNION {[names -> Maps] : names \in SUBSET STRING}

LEMMA MapIs ==
    ASSUME NEW m
    PROVE  m \in Maps <=>
             /\ DOMAIN m \subseteq STRING /\ m = [key \in DOMAIN m |-> m[key]]
             /\ \A key \in DOMAIN m : m[key] \in Text
<1>1. m \in Maps <=> \E keys \in SUBSET STRING : m \in [keys -> Text]
  BY Zenon DEF Maps
<1>2. ASSUME NEW keys \in SUBSET STRING, m \in [keys -> Text]
      PROVE  /\ DOMAIN m \subseteq STRING /\ m = [key \in DOMAIN m |-> m[key]]
             /\ \A key \in DOMAIN m : m[key] \in Text
  BY <1>2
<1>3. ASSUME DOMAIN m \in SUBSET STRING, m = [key \in DOMAIN m |-> m[key]],
             \A key \in DOMAIN m : m[key] \in Text
      PROVE  m \in [DOMAIN m -> Text]
  BY <1>3
<1> QED BY <1>1, <1>2, <1>3

LEMMA DocIs ==
    ASSUME NEW doc
    PROVE  doc \in Docs <=>
             /\ DOMAIN doc \subseteq STRING /\ doc = [name \in DOMAIN doc |-> doc[name]]
             /\ \A name \in DOMAIN doc : doc[name] \in Maps
<1>1. doc \in Docs <=> \E names \in SUBSET STRING : doc \in [names -> Maps]
  BY Zenon DEF Docs
<1>2. ASSUME NEW names \in SUBSET STRING, doc \in [names -> Maps]
      PROVE  /\ DOMAIN doc \subseteq STRING /\ doc = [name \in DOMAIN doc |-> doc[name]]
             /\ \A name \in DOMAIN doc : doc[name] \in Maps
  BY <1>2
<1>3. ASSUME DOMAIN doc \in SUBSET STRING, doc = [name \in DOMAIN doc |-> doc[name]],
             \A name \in DOMAIN doc : doc[name] \in Maps
      PROVE  doc \in [DOMAIN doc -> Maps]
  BY <1>3
<1> QED BY <1>1, <1>2, <1>3

LEMMA EmptyIsDoc == <<>> \in Maps /\ <<>> \in Docs /\ DOMAIN <<>> = {}
<1>1. \A T : <<>> \in Seq(T) /\ Len(<<>>) = 0
  BY EmptySeq
<1>2. \A T : <<>> \in [{} -> T]
  <2> SUFFICES ASSUME NEW T PROVE <<>> \in [{} -> T]
    OBVIOUS
  <2>1. <<>> \in [1..0 -> T]
    BY <1>1, LenProperties
  <2>2. 1..0 = {}
    OBVIOUS
  <2> QED BY <2>1, <2>2
<1>3. {} \in SUBSET STRING
  OBVIOUS
<1>4. \A T : <<>> \in UNION {[keys -> T] : keys \in SUBSET STRING}
  BY <1>2, <1>3
<1>5. <<>> \in Maps /\ <<>> \in Docs
  BY <1>4 DEF Maps, Docs
<1> QED BY <1>2, <1>5

LEMMA DocIsText ==
    ASSUME NEW doc \in Docs PROVE TextDoc(doc)
BY DocIs, MapIs DEF TextDoc, TextMap

LEMMA SectionIsMap ==
    ASSUME NEW doc \in Docs, NEW name PROVE SectionOf(doc, name) \in Maps
BY DocIs, EmptyIsDoc DEF SectionOf

LEMMA OverIsMap ==
    ASSUME NEW f \in Maps, NEW g \in Maps PROVE Over(f, g) \in Maps
<1>1. /\ DOMAIN f \subseteq STRING /\ DOMAIN g \subseteq STRING
      /\ \A key \in DOMAIN f : f[key] \in Text
      /\ \A key \in DOMAIN g : g[key] \in Text
  BY MapIs
<1> DEFINE K == DOMAIN f \cup DOMAIN g
<1>2. Over(f, g) \in [K -> Text] /\ K \in SUBSET STRING
  BY <1>1 DEF Over
<1> QED BY <1>2 DEF Maps

LEMMA OnlyIsMap ==
    ASSUME NEW key \in STRING, NEW value \in Text PROVE Only(key, value) \in Maps
<1>1. Only(key, value) \in [{key} -> Text] /\ {key} \in SUBSET STRING
  BY DEF Only
<1> QED BY <1>1 DEF Maps

LEMMA OnlyIsDoc ==
    ASSUME NEW name \in STRING, NEW entries \in Maps PROVE Only(name, entries) \in Docs
<1>1. Only(name, entries) \in [{name} -> Maps] /\ {name} \in SUBSET STRING
  BY DEF Only
<1> QED BY <1>1 DEF Docs

LEMMA MergeIsDoc ==
    ASSUME NEW a \in Docs, NEW b \in Docs PROVE MergeDocs(a, b) \in Docs
<1> DEFINE N == DOMAIN a \cup DOMAIN b
<1>1. N \in SUBSET STRING
  BY DocIs
<1>2. \A name \in N : Merge(SectionOf(a, name), SectionOf(b, name)) \in Maps
  BY SectionIsMap, OverIsMap DEF Merge
<1>3. MergeDocs(a, b) \in [N -> Maps]
  BY <1>2 DEF MergeDocs
<1> QED BY <1>1, <1>3 DEF Docs

(* What a document says of a key of a section: one value, or none.         *)
Says(doc, sec, key) ==
    IF sec \in DOMAIN doc /\ key \in DOMAIN doc[sec] THEN {doc[sec][key]} ELSE {}

LEMMA SaysNothing == \A sec, key : Says(<<>>, sec, key) = {}
BY EmptyIsDoc DEF Says

LEMMA SaysOfMerge ==
    ASSUME NEW a \in Docs, NEW b \in Docs, NEW sec, NEW key
    PROVE  Says(MergeDocs(a, b), sec, key)
           = IF Says(b, sec, key) # {} THEN Says(b, sec, key) ELSE Says(a, sec, key)
<1> DEFINE m == MergeDocs(a, b)
           sa == SectionOf(a, sec)
           sb == SectionOf(b, sec)
<1>1. DOMAIN m = DOMAIN a \cup DOMAIN b
  BY DEF MergeDocs
<1>2. sec \in DOMAIN m => m[sec] = Over(sb, sa)
  BY DEF MergeDocs, Merge
<1> HIDE DEF m
<1>3. /\ DOMAIN Over(sb, sa) = DOMAIN sa \cup DOMAIN sb
      /\ key \in DOMAIN sb => Over(sb, sa)[key] = sb[key]
      /\ key \in DOMAIN sa /\ key \notin DOMAIN sb => Over(sb, sa)[key] = sa[key]
  BY DEF Over
<1>4. /\ sec \in DOMAIN a => sa = a[sec]
      /\ sec \notin DOMAIN a => DOMAIN sa = {}
      /\ sec \in DOMAIN b => sb = b[sec]
      /\ sec \notin DOMAIN b => DOMAIN sb = {}
  BY EmptyIsDoc DEF SectionOf
<1> HIDE DEF sa, sb
<1>5. CASE sec \notin DOMAIN m
  BY <1>1, <1>5 DEF Says, m
<1>6. CASE sec \in DOMAIN m
  <2>1. Says(m, sec, key) = IF key \in DOMAIN sa \cup DOMAIN sb THEN {Over(sb, sa)[key]} ELSE {}
    BY <1>2, <1>3, <1>6 DEF Says
  <2>2. Says(b, sec, key) = IF key \in DOMAIN sb THEN {sb[key]} ELSE {}
    BY <1>4 DEF Says
  <2>3. Says(a, sec, key) = IF key \in DOMAIN sa THEN {sa[key]} ELSE {}
    BY <1>4 DEF Says
  <2>4. Says(m, sec, key)
        = IF Says(b, sec, key) # {} THEN Says(b, sec, key) ELSE Says(a, sec, key)
    BY <1>3, <2>1, <2>2, <2>3
  <2> QED BY <2>4 DEF m
<1> QED BY <1>5, <1>6

LEMMA SaysOfOnly ==
    \A name, entries, sec, key :
        Says(Only(name, entries), sec, key)
        = IF sec = name /\ key \in DOMAIN entries THEN {entries[key]} ELSE {}
BY DEF Says, Only

-----------------------------------------------------------------------------
(* The last of some values that is one.                                    *)
LEMMA LastOfEmpty == LastOf(<<>>) = {}
<1>1. {i \in 1..Len(<<>>) : <<>>[i] # {}} = {}
  BY EmptySeq
<1> QED BY <1>1 DEF LastOf, SelectLastInSeq

LEMMA LastOfIs ==
    ASSUME NEW values, Len(values) \in Nat
    PROVE  LET I == {i \in 1..Len(values) : values[i] # {}}
           IN  LastOf(values) = IF I # {} THEN values[Max(I)] ELSE {}
<1> DEFINE I == {i \in 1..Len(values) : values[i] # {}}
           k == IF I # {} THEN Max(I) ELSE 0
<1>1. LastOf(values) = IF k = 0 THEN {} ELSE values[k]
  BY DEF LastOf, SelectLastInSeq
<1>2. \A i \in I : i \in 1..Len(values) /\ i \in Nat /\ i <= Len(values)
  OBVIOUS
<1> HIDE DEF I
<1>3. I # {} => Max(I) \in I
  BY <1>2, MaxIsGreatest
<1>4. I # {} => k # 0
  BY <1>2, <1>3
<1>5. LastOf(values) = IF I # {} THEN values[Max(I)] ELSE {}
  BY <1>1, <1>4
<1> QED BY <1>5 DEF I

LEMMA LastOfAppend ==
    ASSUME NEW T, NEW values \in Seq(T), NEW v \in T
    PROVE  LastOf(Append(values, v)) = IF v # {} THEN v ELSE LastOf(values)
<1> DEFINE n == Len(values)
           more == Append(values, v)
           I == {i \in 1..n : values[i] # {}}
           J == {i \in 1..Len(more) : more[i] # {}}
<1>1. /\ n \in Nat /\ Len(more) = n + 1
      /\ \A i \in 1..n : more[i] = values[i]
      /\ more[n + 1] = v
  BY AppendProperties, LenProperties
<1>2. /\ LastOf(values) = IF I # {} THEN values[Max(I)] ELSE {}
      /\ LastOf(more) = IF J # {} THEN more[Max(J)] ELSE {}
  <2> HIDE DEF more
  <2>1. LastOf(values) = IF I # {} THEN values[Max(I)] ELSE {}
    BY <1>1, LastOfIs
  <2>2. LastOf(more) = IF J # {} THEN more[Max(J)] ELSE {}
    <3>1. Len(more) \in Nat
      BY <1>1
    <3> QED BY <3>1, LastOfIs, Zenon
  <2> QED BY <2>1, <2>2
<1> HIDE DEF more
<1>3. CASE v # {}
  <2>1. n + 1 \in J /\ \A i \in J : i <= n + 1 /\ i \in Nat
    BY <1>1, <1>3
  <2> HIDE DEF J
  <2>2. Max(J) \in J /\ \A i \in J : i <= Max(J)
    BY <1>1, <2>1, MaxIsGreatest
  <2>3. Max(J) = n + 1
    BY <1>1, <2>1, <2>2
  <2> QED BY <1>1, <1>2, <1>3, <2>1, <2>3 DEF more
<1>4. CASE v = {}
  <2>1. I = J
    BY <1>1, <1>4
  <2>2. \A i \in I : i \in 1..n /\ i \in Nat /\ i <= n
    BY <1>1
  <2> HIDE DEF I, J
  <2>3. I # {} => Max(I) \in I
    BY <1>1, <2>2, MaxIsGreatest
  <2> QED BY <1>1, <1>2, <1>4, <2>1, <2>2, <2>3 DEF more
<1> QED BY <1>3, <1>4

LEMMA LastOfSingle ==
    ASSUME NEW v PROVE LastOf(<<v>>) = v
<1>1. <<v>> = Append(<<>>, v) /\ <<>> \in Seq({v}) /\ v \in {v}
  BY EmptySeq
<1>2. LastOf(Append(<<>>, v)) = IF v # {} THEN v ELSE LastOf(<<>>)
  BY <1>1, LastOfAppend
<1> QED BY <1>1, <1>2, LastOfEmpty

LEMMA LastOfConcat ==
    ASSUME NEW T, NEW a \in Seq(T), NEW b \in Seq(T)
    PROVE  LastOf(a \o b) = IF LastOf(b) # {} THEN LastOf(b) ELSE LastOf(a)
<1> DEFINE S == {u \in Seq(T) : LastOf(a \o u) = IF LastOf(u) # {} THEN LastOf(u) ELSE LastOf(a)}
<1>1. <<>> \in S
  <2>1. <<>> \in Seq(T) /\ a \o <<>> = a
    BY EmptySeq, ConcatEmptySeq
  <2> QED BY <2>1, LastOfEmpty
<1>0. \A r \in Seq(T) : \A x \in T :
          LastOf(Append(r, x)) = IF x # {} THEN x ELSE LastOf(r)
  BY LastOfAppend, Zenon
<1>2. ASSUME NEW u \in Seq(T) \cap S, NEW x \in T PROVE Append(u, x) \in S
  <2>1. a \o Append(u, x) = Append(a \o u, x) /\ a \o u \in Seq(T) /\ Append(u, x) \in Seq(T)
    OBVIOUS
  <2>2. LastOf(Append(a \o u, x)) = IF x # {} THEN x ELSE LastOf(a \o u)
    BY <1>0, <2>1
  <2>3. LastOf(Append(u, x)) = IF x # {} THEN x ELSE LastOf(u)
    BY <1>0
  <2>4. LastOf(a \o u) = IF LastOf(u) # {} THEN LastOf(u) ELSE LastOf(a)
    BY <1>2
  <2> QED BY <2>1, <2>2, <2>3, <2>4
<1> HIDE DEF S
<1>3. Seq(T) \subseteq S
  BY <1>1, <1>2, SeqInduct
<1> QED BY <1>3 DEF S

-----------------------------------------------------------------------------
(* A recursive function over a sequence: base, and from then on what step  *)
(* makes of the value before and of the next element.                      *)
FoldRuns(f, s, base, step) ==
    /\ f[0] = base
    /\ \A i, k \in 0..Len(s) : k = i + 1 => f[k] = step[f[i]][s[k]]
Fold(s, base, step) == (CHOOSE f : FoldRuns(f, s, base, step))[Len(s)]

LEMMA FoldExists ==
    ASSUME NEW T, NEW E, NEW base \in T, NEW step \in [T -> [E -> T]], NEW s \in Seq(E)
    PROVE  \E f : f \in [0..Len(s) -> T] /\ FoldRuns(f, s, base, step)
<1> DEFINE n == Len(s)
           next == [i \in Nat |-> [t \in T |-> IF i \in 1..n THEN step[t][s[i]] ELSE t]]
<1>1. n \in Nat /\ \A i \in 1..n : s[i] \in E
  BY LenProperties, ElementOfSeq
<1>2. \A t \in T : \A i \in 1..n : step[t][s[i]] \in T
  BY <1>1
<1>3. next \in [Nat -> [T -> T]]
  BY <1>2
<1> HIDE DEF next
<1>4. PICK f : Runs(f, T, base, next, n)
  BY <1>1, <1>3, Recursion
<1>5. f \in [0..n -> T] /\ f[0] = base
  BY <1>4 DEF Runs
<1>6. ASSUME NEW i \in 0..n, NEW k \in 0..n, k = i + 1 PROVE f[k] = step[f[i]][s[k]]
  <2>0. f[i] \in T
    BY <1>5
  <2>1. k \in 1..n /\ k \in Nat /\ k - 1 = i /\ f[i] \in T
    BY <1>1, <1>6, <2>0
  <2>2. f[k] = next[k][f[i]]
    BY <1>4, <2>1 DEF Runs
  <2> QED BY <2>1, <2>2 DEF next
<1>7. FoldRuns(f, s, base, step)
  BY <1>5, <1>6 DEF FoldRuns
<1> QED BY <1>5, <1>7

(* What a function is that is one as long as its values are of the type.   *)
FoldSteps(f, T, s, base, step) ==
    /\ f[0] = base
    /\ \A i, k \in 0..Len(s) : k = i + 1 /\ f[i] \in T => f[k] = step[f[i]][s[k]]

LEMMA FoldUnique ==
    ASSUME NEW T, NEW E, NEW base \in T, NEW step \in [T -> [E -> T]], NEW s \in Seq(E),
           NEW f, NEW g, FoldSteps(f, T, s, base, step), FoldRuns(g, s, base, step)
    PROVE  f[Len(s)] = g[Len(s)] /\ f[Len(s)] \in T
<1> DEFINE n == Len(s)
           S == {i \in 0..n : f[i] = g[i] /\ f[i] \in T}
<1>1. n \in Nat /\ \A i \in 1..n : s[i] \in E
  BY LenProperties, ElementOfSeq
<1>2. 0 \in S
  BY <1>1 DEF FoldRuns, FoldSteps
<1>3. ASSUME NEW i \in 0..n, NEW k \in 0..n, k = i + 1, i \in S PROVE k \in S
  <2>1. f[i] = g[i] /\ f[i] \in T /\ k \in 1..n
    BY <1>1, <1>3
  <2>2. f[k] = step[f[i]][s[k]]
    BY <1>3, <2>1 DEF FoldSteps
  <2>3. g[k] = step[g[i]][s[k]]
    BY <1>3 DEF FoldRuns
  <2>4. step[f[i]][s[k]] \in T
    BY <1>1, <2>1
  <2> QED BY <2>1, <2>2, <2>3, <2>4
<1> HIDE DEF S
<1>4. \A i \in 0..n : i \in S
  BY InductUpTo, <1>1, <1>2, <1>3, Zenon
<1>5. n \in S
  BY <1>1, <1>4
<1> QED BY <1>5 DEF S

LEMMA FoldIs ==
    ASSUME NEW T, NEW E, NEW base \in T, NEW step \in [T -> [E -> T]], NEW s \in Seq(E),
           NEW f, FoldSteps(f, T, s, base, step)
    PROVE  f[Len(s)] = Fold(s, base, step) /\ Fold(s, base, step) \in T
<1> DEFINE g == CHOOSE g : FoldRuns(g, s, base, step)
<1>1. FoldRuns(g, s, base, step)
  BY FoldExists
<1> HIDE DEF g
<1>2. f[Len(s)] = g[Len(s)] /\ f[Len(s)] \in T
  BY <1>1, FoldUnique
<1> QED BY <1>2 DEF g, Fold

FoldLaws(T, E, base, step) ==
    /\ Fold(<<>>, base, step) = base
    /\ \A s \in Seq(E) : Fold(s, base, step) \in T
    /\ \A s \in Seq(E) : \A x \in E :
          Fold(Append(s, x), base, step) = step[Fold(s, base, step)][x]

LEMMA FoldStep ==
    ASSUME NEW T, NEW E, NEW base \in T, NEW step \in [T -> [E -> T]]
    PROVE  FoldLaws(T, E, base, step)
<1>0. base \in T /\ step \in [T -> [E -> T]]
  OBVIOUS
<1>1. ASSUME NEW s \in Seq(E) PROVE Fold(s, base, step) \in T
  <2>1. PICK f : f \in [0..Len(s) -> T] /\ FoldRuns(f, s, base, step)
    BY FoldExists
  <2>2. FoldSteps(f, T, s, base, step)
    BY <2>1 DEF FoldRuns, FoldSteps
  <2> QED BY <2>2, FoldIs
<1>2. Fold(<<>>, base, step) = base
  <2>1. <<>> \in Seq(E) /\ Len(<<>>) = 0
    BY EmptySeq
  <2>2. PICK f : f \in [0..Len(<<>>) -> T] /\ FoldRuns(f, <<>>, base, step)
    BY <2>1, FoldExists
  <2>3. FoldRuns(CHOOSE g : FoldRuns(g, <<>>, base, step), <<>>, base, step)
    BY <2>2
  <2> QED BY <2>1, <2>3 DEF Fold, FoldRuns
<1>3. ASSUME NEW s \in Seq(E), NEW x \in E
      PROVE  Fold(Append(s, x), base, step) = step[Fold(s, base, step)][x]
  <2> DEFINE t == Append(s, x)
             n == Len(s)
  <2>1. /\ t \in Seq(E) /\ Len(t) = n + 1 /\ n \in Nat
        /\ \A i \in 1..n : t[i] = s[i]
        /\ t[n + 1] = x
    BY AppendProperties, LenProperties
  <2> HIDE DEF t
  <2>2. PICK f : f \in [0..Len(t) -> T] /\ FoldRuns(f, t, base, step)
    BY <2>1, FoldExists
  <2>3. /\ f[0] = base
        /\ \A i, k \in 0..Len(t) : k = i + 1 => f[k] = step[f[i]][t[k]]
    BY <2>2 DEF FoldRuns
  <2>4. f[Len(t)] = Fold(t, base, step)
    <3>1. FoldSteps(f, T, t, base, step)
      BY <2>3 DEF FoldSteps
    <3>2. f[Len(t)] = Fold(t, base, step) /\ Fold(t, base, step) \in T
      BY <1>0, <2>1, <3>1, FoldIs
    <3> QED BY <3>2
  <2>5. ASSUME NEW i \in 0..n, NEW k \in 0..n, k = i + 1, f[i] \in T
        PROVE  f[k] = step[f[i]][s[k]]
    <3>1. i \in 0..Len(t) /\ k \in 0..Len(t) /\ k \in 1..n
      BY <2>1, <2>5
    <3>2. f[k] = step[f[i]][t[k]]
      BY <2>3, <2>5, <3>1
    <3> QED BY <2>1, <3>1, <3>2
  <2>6. f[n] = Fold(s, base, step)
    <3>1. FoldSteps(f, T, s, base, step)
      BY <2>3, <2>5 DEF FoldSteps
    <3>2. f[Len(s)] = Fold(s, base, step) /\ Fold(s, base, step) \in T
      BY <1>0, <3>1, FoldIs
    <3> QED BY <3>2
  <2>7. n \in 0..Len(t) /\ Len(t) \in 0..Len(t)
    BY <2>1
  <2>8. f[Len(t)] = step[f[n]][t[Len(t)]]
    BY <2>1, <2>3, <2>7
  <2> QED BY <2>1, <2>4, <2>6, <2>8 DEF t
<1> QED BY <1>1, <1>2, <1>3 DEF FoldLaws

(* Documents merged, one by one.                                           *)
MergeStep == [a \in Docs |-> [b \in Docs |-> MergeDocs(a, b)]]

LEMMA MergedIsFold ==
    ASSUME NEW docs \in Seq(Docs)
    PROVE  Merged(docs) = Fold(docs, NoDoc, MergeStep)
<1> DEFINE n == Len(docs)
           Eqn(f) == f = [i \in 0..n |->
                             IF i = 0 THEN NoDoc ELSE MergeDocs(f[i - 1], docs[i])]
           r == CHOOSE f : Eqn(f)
<1>1. n \in Nat /\ (\A i \in 1..n : docs[i] \in Docs) /\ NoDoc \in Docs
  BY LenProperties, ElementOfSeq, EmptyIsDoc DEF NoDoc
<1>2. MergeStep \in [Docs -> [Docs -> Docs]]
  BY MergeIsDoc DEF MergeStep
<1>3. PICK f : f \in [0..n -> Docs] /\ FoldRuns(f, docs, NoDoc, MergeStep)
  BY <1>1, <1>2, FoldExists
<1>4. Eqn(f)
  <2>1. ASSUME NEW i \in 0..n
        PROVE  f[i] = IF i = 0 THEN NoDoc ELSE MergeDocs(f[i - 1], docs[i])
    <3>1. CASE i = 0
      BY <1>3, <3>1 DEF FoldRuns
    <3>2. CASE i # 0
      <4>1. i - 1 \in 0..n /\ i = (i - 1) + 1 /\ i \in 1..n
        BY <1>1, <3>2
      <4>2. f[i] = MergeStep[f[i - 1]][docs[i]] /\ f[i - 1] \in Docs
        BY <1>3, <4>1 DEF FoldRuns
      <4> QED BY <1>1, <3>2, <4>1, <4>2 DEF MergeStep
    <3> QED BY <3>1, <3>2
  <2> QED BY <1>3, <2>1
<1>5. Eqn(r)
  BY <1>4
<1>6. Merged(docs) = r[n]
  BY DEF Merged
<1> HIDE DEF r
<1>7. r[0] = NoDoc
  BY <1>1, <1>5
<1>8. ASSUME NEW i \in 0..n, NEW k \in 0..n, k = i + 1, r[i] \in Docs
      PROVE  r[k] = MergeStep[r[i]][docs[k]]
  <2>1. k # 0 /\ k - 1 = i /\ k \in 1..n
    BY <1>1, <1>8
  <2>2. r[k] = MergeDocs(r[i], docs[k])
    BY <1>5, <2>1
  <2> QED BY <1>1, <1>8, <2>1, <2>2 DEF MergeStep
<1>9. r[n] = Fold(docs, NoDoc, MergeStep)
  <2>1. FoldSteps(r, Docs, docs, NoDoc, MergeStep)
    BY <1>7, <1>8 DEF FoldSteps
  <2> QED BY <1>1, <1>2, <2>1, FoldIs
<1> QED BY <1>6, <1>9

LEMMA MergedGrows ==
    /\ Merged(<<>>) = <<>>
    /\ \A docs \in Seq(Docs) : Merged(docs) \in Docs
    /\ \A docs \in Seq(Docs) : \A d \in Docs :
          Merged(Append(docs, d)) = MergeDocs(Merged(docs), d)
<1>1. MergeStep \in [Docs -> [Docs -> Docs]] /\ NoDoc \in Docs
  BY MergeIsDoc, EmptyIsDoc DEF MergeStep, NoDoc
<1>2. /\ Fold(<<>>, NoDoc, MergeStep) = NoDoc
      /\ \A s \in Seq(Docs) : Fold(s, NoDoc, MergeStep) \in Docs
      /\ \A s \in Seq(Docs) : \A x \in Docs :
            Fold(Append(s, x), NoDoc, MergeStep) = MergeStep[Fold(s, NoDoc, MergeStep)][x]
  <2>1. FoldLaws(Docs, Docs, NoDoc, MergeStep)
    BY <1>1, FoldStep
  <2> QED BY <2>1 DEF FoldLaws
<1>3. <<>> \in Seq(Docs) /\ \A s \in Seq(Docs) : \A x \in Docs : Append(s, x) \in Seq(Docs)
  BY EmptySeq, AppendProperties
<1>4. \A s \in Seq(Docs) : Merged(s) = Fold(s, NoDoc, MergeStep)
  BY MergedIsFold, Zenon
<1>5. ASSUME NEW s \in Seq(Docs), NEW x \in Docs
      PROVE  Merged(Append(s, x)) = MergeDocs(Merged(s), x)
  <2>1. Merged(Append(s, x)) = MergeStep[Merged(s)][x] /\ Merged(s) \in Docs
    BY <1>2, <1>3, <1>4
  <2> QED BY <2>1 DEF MergeStep
<1> QED BY <1>2, <1>3, <1>4, <1>5 DEF NoDoc

(* Of documents that are merged, what says a key last is what they say.    *)
SaysFun(sec, key) == [d \in Docs |-> Says(d, sec, key)]

LEMMA SaysOfMerged ==
    ASSUME NEW sec, NEW key
    PROVE  \A docs \in Seq(Docs) :
              Says(Merged(docs), sec, key) = LastOf(Each(docs, SaysFun(sec, key)))
<1> DEFINE g == SaysFun(sec, key)
           T == {Says(d, sec, key) : d \in Docs}
           S == {docs \in Seq(Docs) : Says(Merged(docs), sec, key) = LastOf(Each(docs, g))}
<1>1. g \in [Docs -> T] /\ \A d \in Docs : g[d] = Says(d, sec, key)
  BY DEF SaysFun
<1> HIDE DEF g, T
<1>2. <<>> \in S
  <2>1. <<>> \in Seq(Docs)
    BY EmptySeq
  <2> QED BY <2>1, MergedGrows, EachEmpty, LastOfEmpty, SaysNothing
<1>3. ASSUME NEW docs \in Seq(Docs) \cap S, NEW d \in Docs PROVE Append(docs, d) \in S
  <2>1. docs \in Seq(Docs) /\ Append(docs, d) \in Seq(Docs)
    BY AppendProperties
  <2>2. Merged(Append(docs, d)) = MergeDocs(Merged(docs), d) /\ Merged(docs) \in Docs
    BY <2>1, MergedGrows
  <2>3. Says(Merged(Append(docs, d)), sec, key)
        = IF Says(d, sec, key) # {} THEN Says(d, sec, key) ELSE Says(Merged(docs), sec, key)
    BY <2>2, SaysOfMerge
  <2>4. Each(Append(docs, d), g) = Append(Each(docs, g), g[d])
    BY <2>1, EachAppend
  <2>5. Each(docs, g) \in Seq(T) /\ g[d] \in T
    BY <1>1, <2>1, EachType
  <2>6. LastOf(Append(Each(docs, g), g[d])) = IF g[d] # {} THEN g[d] ELSE LastOf(Each(docs, g))
    BY <2>5, LastOfAppend
  <2>7. Says(Merged(docs), sec, key) = LastOf(Each(docs, g))
    BY <1>3
  <2> QED BY <1>1, <2>1, <2>3, <2>4, <2>6, <2>7
<1> HIDE DEF S
<1>4. Seq(Docs) \subseteq S
  BY <1>2, <1>3, SeqInduct
<1> QED BY <1>4 DEF S, g

-----------------------------------------------------------------------------
(* Parsing, line by line.                                                  *)
Sec == [name : STRING, entries : Maps]
Keys == STRING \cup {""}
State ==
    {st \in [ok : BOOLEAN, secs : Seq(Sec), open : BOOLEAN, key : Keys] :
        st.open => /\ st.secs # <<>>
                   /\ st.key \in DOMAIN st.secs[Len(st.secs)].entries}
Start == [ok |-> TRUE, secs |-> <<>>, open |-> FALSE, key |-> ""]
With(sec, key, value) == [name |-> sec.name, entries |-> Over(Only(key, value), sec.entries)]

LEMMA WithIsSec ==
    ASSUME NEW sec \in Sec, NEW key \in STRING, NEW value \in Text
    PROVE  /\ With(sec, key, value) \in Sec
           /\ key \in DOMAIN With(sec, key, value).entries
<1>1. sec.name \in STRING /\ sec.entries \in Maps
  BY DEF Sec
<1>2. Over(Only(key, value), sec.entries) \in Maps
  BY <1>1, OnlyIsMap, OverIsMap
<1>3. key \in DOMAIN Over(Only(key, value), sec.entries)
  BY DEF Over, Only
<1> QED BY <1>1, <1>2, <1>3 DEF With, Sec

LEMMA SetLastIs ==
    ASSUME NEW front \in Seq(Sec), NEW sec \in Sec, NEW key \in STRING, NEW value \in Text
    PROVE  SetLast(Append(front, sec), key, value) = Append(front, With(sec, key, value))
<1> DEFINE secs == Append(front, sec)
           new == Append(front, With(sec, key, value))
           n == Len(secs)
<1>1. With(sec, key, value) \in Sec
  BY WithIsSec
<1>2. /\ secs \in Seq(Sec) /\ n = Len(front) + 1 /\ Len(front) \in Nat /\ n \in Nat
      /\ secs[n] = sec /\ \A i \in 1..Len(front) : secs[i] = front[i]
  BY AppendProperties, LenProperties
<1>3. /\ new \in Seq(Sec) /\ Len(new) = n
      /\ new[n] = With(sec, key, value) /\ \A i \in 1..Len(front) : new[i] = front[i]
  BY <1>1, <1>2, AppendProperties, LenProperties
<1> HIDE DEF secs, new
<1>4. DOMAIN secs = 1..n /\ DOMAIN new = 1..n
  BY <1>2, <1>3, LenProperties
<1>5. sec = [name |-> sec.name, entries |-> sec.entries]
  BY DEF Sec
<1>6. [sec EXCEPT !.entries = Over(Only(key, value), @)] = With(sec, key, value)
  BY <1>5 DEF With
<1>7. SetLast(secs, key, value)
      = [i \in 1..n |-> IF i = n THEN [secs[n] EXCEPT !.entries = Over(Only(key, value), @)]
                        ELSE secs[i]]
  BY <1>2, <1>4 DEF SetLast
<1>8. new = [i \in 1..n |-> IF i = n THEN [secs[n] EXCEPT !.entries = Over(Only(key, value), @)]
                            ELSE secs[i]]
  <2>1. \A i \in 1..n : i # n => i \in 1..Len(front)
    BY <1>2
  <2>2. \A i \in 1..n : new[i] = IF i = n THEN With(sec, key, value) ELSE secs[i]
    BY <1>2, <1>3, <2>1
  <2>3. new = [i \in 1..n |-> new[i]]
    BY <1>3, <1>4
  <2> QED BY <1>2, <1>6, <2>2, <2>3
<1> QED BY <1>7, <1>8 DEF secs, new

(* A line that is read, by what it is.                                     *)
LEMMA LineKinds ==
    ASSUME NEW l \in Line
    PROVE  /\ l.is \in {"header", "entry", "more", "junk"}
           /\ l.key \in STRING /\ l.value \in Text
BY DEF Line

LEMMA HeaderIs ==
    ASSUME NEW st \in State, NEW l \in Line, l.is = "header"
    PROVE  ParseLine(st, l)
           = [ok |-> st.ok, secs |-> Append(st.secs, [name |-> l.key, entries |-> <<>>]),
              open |-> FALSE, key |-> st.key]
BY DEF ParseLine, State

LEMMA EntryIs ==
    ASSUME NEW st \in State, NEW l \in Line, l.is = "entry",
           NEW front \in Seq(Sec), NEW sec \in Sec, st.secs = Append(front, sec)
    PROVE  ParseLine(st, l)
           = [ok |-> st.ok, secs |-> Append(front, With(sec, l.key, l.value)),
              open |-> TRUE, key |-> l.key]
<1>1. st.secs # <<>>
  BY AppendProperties
<1>2. SetLast(st.secs, l.key, l.value) = Append(front, With(sec, l.key, l.value))
  BY LineKinds, SetLastIs
<1>3. ParseLine(st, l) = [st EXCEPT !.secs = SetLast(st.secs, l.key, l.value),
                                    !.open = TRUE, !.key = l.key]
  BY <1>1 DEF ParseLine, State
<1> QED BY <1>2, <1>3 DEF State

LEMMA MoreIs ==
    ASSUME NEW st \in State, NEW l \in Line, l.is = "more", st.open,
           NEW front \in Seq(Sec), NEW sec \in Sec, st.secs = Append(front, sec)
    PROVE  /\ st.key \in DOMAIN sec.entries /\ sec.entries[st.key] \o l.value \in Text
           /\ ParseLine(st, l)
              = [ok |-> st.ok,
                 secs |-> Append(front, With(sec, st.key, sec.entries[st.key] \o l.value)),
                 open |-> TRUE, key |-> st.key]
<1>1. Last(st.secs) = sec /\ st.secs[Len(st.secs)] = sec
  BY AppendProperties, LenProperties DEF Last
<1>2. st.key \in DOMAIN sec.entries /\ st.key \in STRING
  BY <1>1, MapIs DEF State, Sec
<1>3. sec.entries[st.key] \in Text
  BY <1>2, MapIs DEF Sec
<1>4. sec.entries[st.key] \o l.value \in Text
  <2>1. l.value \in Text
    BY LineKinds
  <2> QED BY <1>3, <2>1, ConcatProperties DEF Text
<1>5. SetLast(st.secs, st.key, sec.entries[st.key] \o l.value)
      = Append(front, With(sec, st.key, sec.entries[st.key] \o l.value))
  BY <1>2, <1>4, SetLastIs
<1>6. ParseLine(st, l)
      = [st EXCEPT !.secs = SetLast(st.secs, st.key, Last(st.secs).entries[st.key] \o l.value)]
  BY DEF ParseLine, State
<1> QED BY <1>1, <1>2, <1>4, <1>5, <1>6 DEF State

(* Any other is an error.                                                  *)
Misplaced(st, l) ==
    \/ l.is = "junk"
    \/ l.is = "entry" /\ st.secs = <<>>
    \/ l.is = "more" /\ ~st.open

LEMMA MisplacedIs ==
    ASSUME NEW st \in State, NEW l \in Line, Misplaced(st, l)
    PROVE  ParseLine(st, l)
           = [ok |-> FALSE, secs |-> st.secs, open |-> st.open, key |-> st.key]
<1>1. ParseLine(st, l) = [st EXCEPT !.ok = FALSE]
  BY DEF ParseLine, State, Misplaced
<1> QED BY <1>1 DEF State

LEMMA ParseLineIsState ==
    ASSUME NEW st \in State, NEW l \in Line
    PROVE  /\ ParseLine(st, l) \in State
           /\ ParseLine(st, l).ok <=> st.ok /\ ~Misplaced(st, l)
<1>0. /\ st.secs \in Seq(Sec) /\ st.key \in Keys /\ (st.open => st.secs # <<>>)
      /\ STRING \subseteq Keys
  BY DEF State, Keys
<1>1. CASE l.is = "header"
  <2> DEFINE sec == [name |-> l.key, entries |-> <<>>]
             new == [ok |-> st.ok, secs |-> Append(st.secs, sec), open |-> FALSE, key |-> st.key]
  <2>1. sec \in Sec
    BY LineKinds, EmptyIsDoc DEF Sec
  <2> HIDE DEF sec
  <2>2. Append(st.secs, sec) \in Seq(Sec)
    BY <1>0, <2>1
  <2>3. new \in State
    BY <1>0, <2>2 DEF State
  <2>4. ParseLine(st, l) = new
    BY <1>1, HeaderIs DEF sec
  <2> QED BY <1>1, <2>3, <2>4 DEF Misplaced
<1>2. CASE l.is = "entry" /\ st.secs # <<>>
  <2>1. PICK front \in Seq(Sec), sec \in Sec : st.secs = Append(front, sec)
    BY <1>0, <1>2, SequenceEmptyOrAppend
  <2> DEFINE s == With(sec, l.key, l.value)
             new == [ok |-> st.ok, secs |-> Append(front, s), open |-> TRUE, key |-> l.key]
  <2>2. s \in Sec /\ l.key \in DOMAIN s.entries /\ l.key \in STRING
    BY LineKinds, WithIsSec
  <2>3. ParseLine(st, l) = new
    BY <1>2, <2>1, EntryIs
  <2> HIDE DEF s
  <2>4. /\ Append(front, s) \in Seq(Sec) /\ Append(front, s) # <<>>
        /\ Append(front, s)[Len(Append(front, s))] = s
    BY <2>2, AppendProperties
  <2>5. new \in State
    BY <1>0, <2>2, <2>4 DEF State
  <2> QED BY <1>2, <2>3, <2>5 DEF Misplaced
<1>3. CASE l.is = "more" /\ st.open
  <2>1. PICK front \in Seq(Sec), sec \in Sec : st.secs = Append(front, sec)
    BY <1>0, <1>3, SequenceEmptyOrAppend
  <2> DEFINE v == sec.entries[st.key] \o l.value
             s == With(sec, st.key, v)
             new == [ok |-> st.ok, secs |-> Append(front, s), open |-> TRUE, key |-> st.key]
  <2>2. v \in Text /\ ParseLine(st, l) = new
    BY <1>3, <2>1, MoreIs
  <2> HIDE DEF v
  <2>3. st.key \in STRING
    BY <1>3, <2>1, MoreIs, MapIs DEF Sec
  <2>4. s \in Sec /\ st.key \in DOMAIN s.entries
    BY <2>2, <2>3, WithIsSec
  <2> HIDE DEF s
  <2>5. /\ Append(front, s) \in Seq(Sec) /\ Append(front, s) # <<>>
        /\ Append(front, s)[Len(Append(front, s))] = s
    BY <2>4, AppendProperties
  <2>6. new \in State
    BY <1>0, <2>3, <2>4, <2>5 DEF State
  <2> QED BY <1>3, <2>2, <2>6 DEF Misplaced
<1>4. CASE Misplaced(st, l)
  <2>1. [ok |-> FALSE, secs |-> st.secs, open |-> st.open, key |-> st.key] \in State
    BY DEF State
  <2>2. ParseLine(st, l) = [ok |-> FALSE, secs |-> st.secs, open |-> st.open, key |-> st.key]
    BY <1>4, MisplacedIs
  <2> QED BY <1>4, <2>1, <2>2
<1> QED BY <1>1, <1>2, <1>3, <1>4, LineKinds DEF Misplaced

ParseStep == [st \in State |-> [l \in Line |-> ParseLine(st, l)]]

LEMMA StartIsState == Start \in State
<1>1. <<>> \in Seq(Sec)
  BY EmptySeq
<1>2. Start \in [ok : BOOLEAN, secs : Seq(Sec), open : BOOLEAN, key : Keys]
  BY <1>1 DEF Start, Keys
<1>3. ~Start.open
  BY DEF Start
<1> QED BY <1>2, <1>3 DEF State

LEMMA ParseIsFold ==
    ASSUME NEW lines \in Seq(Line)
    PROVE  Parse(lines) = Fold(lines, Start, ParseStep)
<1> DEFINE n == Len(lines)
           Eqn(f) == f = [i \in 0..n |-> IF i = 0 THEN Start ELSE ParseLine(f[i - 1], lines[i])]
           r == CHOOSE f : Eqn(f)
<1>1. n \in Nat /\ \A i \in 1..n : lines[i] \in Line
  BY LenProperties, ElementOfSeq
<1>2. Start \in State
  BY StartIsState
<1>3. ParseStep \in [State -> [Line -> State]]
  BY ParseLineIsState DEF ParseStep
<1>4. PICK f : f \in [0..n -> State] /\ FoldRuns(f, lines, Start, ParseStep)
  BY <1>2, <1>3, FoldExists
<1>5. Eqn(f)
  <2>1. ASSUME NEW i \in 0..n
        PROVE  f[i] = IF i = 0 THEN Start ELSE ParseLine(f[i - 1], lines[i])
    <3>1. CASE i = 0
      BY <1>4, <3>1 DEF FoldRuns
    <3>2. CASE i # 0
      <4>1. i - 1 \in 0..n /\ i = (i - 1) + 1 /\ i \in 1..n
        BY <1>1, <3>2
      <4>2. f[i] = ParseStep[f[i - 1]][lines[i]] /\ f[i - 1] \in State
        BY <1>4, <4>1 DEF FoldRuns
      <4> QED BY <1>1, <3>2, <4>1, <4>2 DEF ParseStep
    <3> QED BY <3>1, <3>2
  <2> QED BY <1>4, <2>1
<1>6. Eqn(r)
  BY <1>5
<1>7. Parse(lines) = r[n]
  BY DEF Parse, Start
<1> HIDE DEF r
<1>8. r[0] = Start
  BY <1>1, <1>6
<1>9. ASSUME NEW i \in 0..n, NEW k \in 0..n, k = i + 1, r[i] \in State
      PROVE  r[k] = ParseStep[r[i]][lines[k]]
  <2>1. k # 0 /\ k - 1 = i /\ k \in 1..n
    BY <1>1, <1>9
  <2>2. r[k] = ParseLine(r[i], lines[k])
    BY <1>6, <2>1
  <2> QED BY <1>1, <1>9, <2>1, <2>2 DEF ParseStep
<1>10. r[n] = Fold(lines, Start, ParseStep)
  <2>1. FoldSteps(r, State, lines, Start, ParseStep)
    BY <1>8, <1>9 DEF FoldSteps
  <2> QED BY <1>2, <1>3, <2>1, FoldIs
<1> QED BY <1>7, <1>10

LEMMA ParseGrows ==
    /\ Parse(<<>>) = Start
    /\ \A lines \in Seq(Line) : Parse(lines) \in State
    /\ \A lines \in Seq(Line) : \A l \in Line :
          Parse(Append(lines, l)) = ParseLine(Parse(lines), l)
<1>1. ParseStep \in [State -> [Line -> State]] /\ Start \in State
  BY ParseLineIsState, StartIsState DEF ParseStep
<1>2. /\ Fold(<<>>, Start, ParseStep) = Start
      /\ \A s \in Seq(Line) : Fold(s, Start, ParseStep) \in State
      /\ \A s \in Seq(Line) : \A x \in Line :
            Fold(Append(s, x), Start, ParseStep) = ParseStep[Fold(s, Start, ParseStep)][x]
  <2>1. FoldLaws(State, Line, Start, ParseStep)
    BY <1>1, FoldStep
  <2> QED BY <2>1 DEF FoldLaws
<1>3. <<>> \in Seq(Line) /\ \A s \in Seq(Line) : \A x \in Line : Append(s, x) \in Seq(Line)
  BY EmptySeq, AppendProperties
<1>4. \A s \in Seq(Line) : Parse(s) = Fold(s, Start, ParseStep)
  BY ParseIsFold, Zenon
<1>5. ASSUME NEW s \in Seq(Line), NEW x \in Line
      PROVE  Parse(Append(s, x)) = ParseLine(Parse(s), x)
  <2>1. Parse(Append(s, x)) = ParseStep[Parse(s)][x] /\ Parse(s) \in State
    BY <1>2, <1>3, <1>4
  <2> QED BY <2>1 DEF ParseStep
<1> QED BY <1>2, <1>3, <1>4, <1>5

-----------------------------------------------------------------------------
(* The lines of a file, read one by one.  What stands before a line does   *)
(* not change when a line is added.                                        *)
HeaderAt(lines, k) == lines[k].is = "header"
LastHeader(lines) == HeaderBefore(lines, Len(lines) + 1)

LEMMA LineTypes ==
    ASSUME NEW lines \in Seq(Line)
    PROVE  /\ Len(lines) \in Nat /\ DOMAIN lines = 1..Len(lines)
           /\ \A i \in 1..Len(lines) :
                 /\ lines[i] \in Line /\ lines[i].value \in Text /\ lines[i].key \in STRING
                 /\ lines[i].is \in {"header", "entry", "more", "junk"}
<1>1. Len(lines) \in Nat /\ DOMAIN lines = 1..Len(lines)
  BY LenProperties
<1>2. \A i \in 1..Len(lines) : lines[i] \in Line
  BY ElementOfSeq
<1> QED BY <1>1, <1>2, LineKinds

LEMMA HeaderBeforeIs ==
    ASSUME NEW lines, NEW i \in Nat \ {0}
    PROVE  /\ HeaderBefore(lines, i) \in 0..(i - 1)
           /\ HeaderBefore(lines, i) # 0 => HeaderAt(lines, HeaderBefore(lines, i))
           /\ \A k \in 1..(i - 1) : HeaderAt(lines, k) => k <= HeaderBefore(lines, i)
<1> DEFINE I == {k \in 1..(i - 1) : HeaderAt(lines, k)}
           h == HeaderBefore(lines, i)
<1>1. h = IF I # {} THEN Max(I) ELSE 0
  BY DEF HeaderBefore, SelectLastInSubSeq, HeaderAt
<1>2. \A k \in I : k \in Nat /\ k <= i - 1 /\ k >= 1 /\ HeaderAt(lines, k)
  OBVIOUS
<1>3. i - 1 \in Nat /\ \A k \in 1..(i - 1) : HeaderAt(lines, k) => k \in I
  OBVIOUS
<1> HIDE DEF I, h
<1>4. I # {} => Max(I) \in I /\ \A k \in I : k <= Max(I)
  BY <1>2, <1>3, MaxIsGreatest
<1>5. CASE I = {}
  BY <1>1, <1>3, <1>5 DEF h
<1>6. CASE I # {}
  BY <1>1, <1>2, <1>3, <1>4, <1>6 DEF h
<1> QED BY <1>5, <1>6

LEMMA HeaderBeforeUnique ==
    ASSUME NEW lines, NEW i \in Nat \ {0}, NEW h \in 0..(i - 1),
           h # 0 => HeaderAt(lines, h), \A k \in 1..(i - 1) : HeaderAt(lines, k) => k <= h
    PROVE  HeaderBefore(lines, i) = h
<1> DEFINE g == HeaderBefore(lines, i)
<1>1. /\ g \in 0..(i - 1)
      /\ g # 0 => HeaderAt(lines, g)
      /\ \A k \in 1..(i - 1) : HeaderAt(lines, k) => k <= g
  BY HeaderBeforeIs
<1> HIDE DEF g
<1>2. g # 0 => g <= h
  BY <1>1
<1>3. h # 0 => h <= g
  BY <1>1
<1>4. g = h
  BY <1>1, <1>2, <1>3
<1> QED BY <1>4 DEF g

(* A line added.                                                           *)
Added(lines, l, t, n) ==
    /\ t \in Seq(Line) /\ n \in Nat /\ Len(lines) = n /\ Len(t) = n + 1
    /\ DOMAIN lines = 1..n /\ DOMAIN t = 1..(n + 1)
    /\ \A i \in 1..n : t[i] = lines[i]
    /\ t[n + 1] = l

LEMMA LineAdded ==
    ASSUME NEW lines \in Seq(Line), NEW l \in Line
    PROVE  Added(lines, l, Append(lines, l), Len(lines))
BY AppendProperties, LenProperties DEF Added

LEMMA HeaderBeforeAdded ==
    ASSUME NEW lines, NEW l, NEW t, NEW n, Added(lines, l, t, n)
    PROVE  /\ \A i \in 1..(n + 1) : HeaderBefore(t, i) = HeaderBefore(lines, i)
           /\ LastHeader(t) = IF l.is = "header" THEN n + 1 ELSE LastHeader(lines)
<1>1. /\ n \in Nat /\ Len(lines) = n /\ Len(t) = n + 1
      /\ \A i \in 1..n : t[i] = lines[i]
      /\ t[n + 1] = l
  BY DEF Added
<1>2. ASSUME NEW i \in 1..(n + 1) PROVE HeaderBefore(t, i) = HeaderBefore(lines, i)
  <2> DEFINE h == HeaderBefore(lines, i)
  <2>1. /\ h \in 0..(i - 1)
        /\ h # 0 => HeaderAt(lines, h)
        /\ \A k \in 1..(i - 1) : HeaderAt(lines, k) => k <= h
    BY <1>1, HeaderBeforeIs
  <2> HIDE DEF h
  <2>2. \A k \in 1..(i - 1) : HeaderAt(lines, k) <=> HeaderAt(t, k)
    BY <1>1 DEF HeaderAt
  <2>3. HeaderBefore(t, i) = h
    BY <1>1, <2>1, <2>2, HeaderBeforeUnique
  <2> QED BY <2>3 DEF h
<1>3. LastHeader(t) = IF l.is = "header" THEN n + 1 ELSE LastHeader(lines)
  <2> DEFINE h == IF l.is = "header" THEN n + 1 ELSE LastHeader(lines)
             i == n + 2
  <2>1. /\ LastHeader(lines) \in 0..n
        /\ LastHeader(lines) # 0 => HeaderAt(lines, LastHeader(lines))
        /\ \A k \in 1..n : HeaderAt(lines, k) => k <= LastHeader(lines)
    <3> DEFINE j == n + 1
    <3>1. j \in Nat \ {0} /\ j - 1 = n /\ LastHeader(lines) = HeaderBefore(lines, j)
      BY <1>1 DEF LastHeader
    <3> HIDE DEF j
    <3> QED BY <3>1, HeaderBeforeIs
  <2>2. /\ \A k \in 1..n : HeaderAt(lines, k) <=> HeaderAt(t, k)
        /\ HeaderAt(t, n + 1) <=> l.is = "header"
    BY <1>1 DEF HeaderAt
  <2>3. i \in Nat \ {0} /\ h \in 0..(i - 1) /\ (h # 0 => HeaderAt(t, h))
    BY <1>1, <2>1, <2>2
  <2>4. \A k \in 1..(i - 1) : HeaderAt(t, k) => k <= h
    <3> SUFFICES ASSUME NEW k \in 1..(i - 1), HeaderAt(t, k) PROVE k <= h
      OBVIOUS
    <3>1. k \in 1..n \/ k = n + 1
      BY <1>1
    <3> QED BY <1>1, <2>1, <2>2, <3>1
  <2>5. HeaderBefore(t, i) = h
    BY <2>3, <2>4, HeaderBeforeUnique
  <2>6. LastHeader(t) = HeaderBefore(t, i)
    BY <1>1 DEF LastHeader
  <2> QED BY <2>5, <2>6
<1> QED BY <1>2, <1>3

LEMMA HeadersAdded ==
    ASSUME NEW lines, NEW l, NEW t, NEW n, Added(lines, l, t, n), NEW sec
    PROVE  Headers(t, sec)
           = Headers(lines, sec) \cup IF l.is = "header" /\ l.key = sec THEN {n + 1} ELSE {}
<1>1. /\ n \in Nat /\ DOMAIN lines = 1..n /\ DOMAIN t = 1..(n + 1)
      /\ \A i \in 1..n : t[i] = lines[i]
      /\ t[n + 1] = l
  BY DEF Added
<1>2. \A i \in 1..(n + 1) : i \in 1..n \/ i = n + 1
  BY <1>1
<1>3. 1..n \subseteq 1..(n + 1) /\ n + 1 \in 1..(n + 1) /\ n + 1 \notin 1..n
  BY <1>1
<1> QED BY <1>1, <1>2, <1>3 DEF Headers

LEMMA EntriesAdded ==
    ASSUME NEW lines, NEW l, NEW t, NEW n, Added(lines, l, t, n), NEW h, NEW key
    PROVE  Entries(t, h, key)
           = Entries(lines, h, key)
             \cup IF l.is = "entry" /\ l.key = key /\ LastHeader(lines) = h THEN {n + 1} ELSE {}
<1>1. /\ n \in Nat /\ DOMAIN lines = 1..n /\ DOMAIN t = 1..(n + 1) /\ Len(lines) = n
      /\ \A i \in 1..n : t[i] = lines[i]
      /\ t[n + 1] = l
  BY DEF Added
<1>2. \A i \in 1..(n + 1) : HeaderBefore(t, i) = HeaderBefore(lines, i)
  BY HeaderBeforeAdded
<1>3. \A i \in 1..(n + 1) : i \in 1..n \/ i = n + 1
  BY <1>1
<1>4. 1..n \subseteq 1..(n + 1) /\ n + 1 \in 1..(n + 1) /\ n + 1 \notin 1..n
  BY <1>1
<1>5. ASSUME NEW i \in 1..n PROVE i \in Entries(t, h, key) <=> i \in Entries(lines, h, key)
  BY <1>1, <1>2, <1>4 DEF Entries
<1>6. n + 1 \in Entries(t, h, key)
      <=> l.is = "entry" /\ l.key = key /\ LastHeader(lines) = h
  BY <1>1, <1>2, <1>4 DEF Entries, LastHeader
<1>7. Entries(t, h, key) \subseteq 1..(n + 1) /\ Entries(lines, h, key) \subseteq 1..n
  BY <1>1 DEF Entries
<1> QED BY <1>3, <1>4, <1>5, <1>6, <1>7

(* The lines that continue one.                                            *)
Continues(lines, i, c) ==
    /\ c \in i..Len(lines)
    /\ \A k \in (i + 1)..c : lines[k].is = "more"
    /\ c = Len(lines) \/ lines[c + 1].is # "more"

LEMMA ContinuedToIs ==
    ASSUME NEW lines, NEW n \in Nat, Len(lines) = n, NEW i \in 1..n
    PROVE  Continues(lines, i, ContinuedTo(lines, i))
<1> DEFINE S == {c \in i..n : c = n \/ lines[c + 1].is # "more"}
<1>1. n \in S /\ S \subseteq Nat
  OBVIOUS
<1> HIDE DEF S
<1>2. PICK c \in S : \A m \in S : c <= m
  BY <1>1, HasLeast
<1>3. c \in i..n /\ (c = n \/ lines[c + 1].is # "more")
  BY <1>2 DEF S
<1>4. ASSUME NEW k \in (i + 1)..c PROVE lines[k].is = "more"
  <2> DEFINE m == k - 1
  <2>1. m \in i..n /\ m + 1 = k /\ m # n /\ ~(c <= m)
    BY <1>3, <1>4
  <2>2. m \notin S
    BY <1>2, <2>1
  <2> QED BY <2>1, <2>2 DEF S
<1>5. Continues(lines, i, c)
  BY <1>3, <1>4 DEF Continues
<1> QED BY <1>5 DEF ContinuedTo, Continues

LEMMA ContinuedToUnique ==
    ASSUME NEW lines, NEW n \in Nat, Len(lines) = n, NEW i \in 1..n,
           NEW c, Continues(lines, i, c)
    PROVE  ContinuedTo(lines, i) = c
<1> DEFINE d == ContinuedTo(lines, i)
<1>1. Continues(lines, i, d)
  BY ContinuedToIs
<1> HIDE DEF d
<1>2. /\ c \in i..n /\ d \in i..n
      /\ \A k \in (i + 1)..c : lines[k].is = "more"
      /\ \A k \in (i + 1)..d : lines[k].is = "more"
      /\ c = n \/ lines[c + 1].is # "more"
      /\ d = n \/ lines[d + 1].is # "more"
  BY <1>1 DEF Continues
<1>3. ~(c < d)
  <2> SUFFICES ASSUME c < d PROVE FALSE
    OBVIOUS
  <2>1. c + 1 \in (i + 1)..d /\ c # n
    BY <1>2
  <2> QED BY <1>2, <2>1
<1>4. ~(d < c)
  <2> SUFFICES ASSUME d < c PROVE FALSE
    OBVIOUS
  <2>1. d + 1 \in (i + 1)..c /\ d # n
    BY <1>2
  <2> QED BY <1>2, <2>1
<1>5. c = d
  BY <1>2, <1>3, <1>4
<1> QED BY <1>5 DEF d

(* The new line continues what was continued to the end, if it continues   *)
(* anything.                                                               *)
Extends(lines, l, i) == l.is = "more" /\ ContinuedTo(lines, i) = Len(lines)

LEMMA ContinuedToAdded ==
    ASSUME NEW lines, NEW l, NEW t, NEW n, Added(lines, l, t, n)
    PROVE  /\ \A i \in 1..n : ContinuedTo(t, i)
                  = IF Extends(lines, l, i) THEN n + 1 ELSE ContinuedTo(lines, i)
           /\ ContinuedTo(t, n + 1) = n + 1
<1>1. /\ n \in Nat /\ n + 1 \in Nat /\ Len(lines) = n /\ Len(t) = n + 1
      /\ \A i \in 1..n : t[i] = lines[i]
      /\ t[n + 1] = l
  BY DEF Added
<1>2. ASSUME NEW i \in 1..n
      PROVE  ContinuedTo(t, i) = IF Extends(lines, l, i) THEN n + 1 ELSE ContinuedTo(lines, i)
  <2> DEFINE c == ContinuedTo(lines, i)
  <2>1. Continues(lines, i, c)
    BY <1>1, ContinuedToIs
  <2>2. Extends(lines, l, i) <=> l.is = "more" /\ c = n
    BY <1>1 DEF Extends
  <2> HIDE DEF c
  <2>3. /\ c \in i..n
        /\ \A k \in (i + 1)..c : lines[k].is = "more"
        /\ c = n \/ lines[c + 1].is # "more"
    BY <1>1, <2>1 DEF Continues
  <2>4. CASE l.is = "more" /\ c = n
    <3>1. \A k \in (i + 1)..(n + 1) : t[k].is = "more"
      <4> SUFFICES ASSUME NEW k \in (i + 1)..(n + 1) PROVE t[k].is = "more"
        OBVIOUS
      <4>1. k = n + 1 \/ (k \in (i + 1)..c /\ k \in 1..n)
        BY <1>1, <2>4
      <4> QED BY <1>1, <2>3, <2>4, <4>1
    <3>2. Continues(t, i, n + 1)
      BY <1>1, <3>1 DEF Continues
    <3>3. i \in 1..(n + 1)
      BY <1>1
    <3> QED BY <1>1, <2>2, <2>4, <3>2, <3>3, ContinuedToUnique
  <2>5. CASE ~(l.is = "more" /\ c = n)
    <3>1. \A k \in (i + 1)..c : t[k].is = "more"
      <4> SUFFICES ASSUME NEW k \in (i + 1)..c PROVE t[k].is = "more"
        OBVIOUS
      <4>1. k \in 1..n
        BY <1>1, <2>3
      <4> QED BY <1>1, <2>3, <4>1
    <3>2. c \in i..(n + 1) /\ t[c + 1].is # "more"
      <4>1. CASE c = n
        BY <1>1, <2>3, <2>5, <4>1
      <4>2. CASE c # n
        <5>1. c + 1 \in 1..n
          BY <1>1, <2>3, <4>2
        <5> QED BY <1>1, <2>3, <4>2, <5>1
      <4> QED BY <4>1, <4>2
    <3>3. Continues(t, i, c)
      BY <1>1, <3>1, <3>2 DEF Continues
    <3>4. i \in 1..(n + 1)
      BY <1>1
    <3>5. ContinuedTo(t, i) = c
      BY <1>1, <3>3, <3>4, ContinuedToUnique
    <3> QED BY <2>2, <2>5, <3>5 DEF c
  <2> QED BY <2>4, <2>5
<1>3. ContinuedTo(t, n + 1) = n + 1
  <2> DEFINE m == n + 1
  <2>1. m \in Nat /\ Len(t) = m /\ m \in 1..m
    BY <1>1
  <2> HIDE DEF m
  <2>2. m \in m..Len(t) /\ (m + 1)..m = {} /\ m = Len(t)
    BY <2>1
  <2>3. Continues(t, m, m)
    BY <2>2 DEF Continues
  <2>4. ContinuedTo(t, m) = m
    BY <2>1, <2>3, ContinuedToUnique
  <2> QED BY <2>4 DEF m
<1> QED BY <1>2, <1>3

(* The values, of the line and of those that continue it.                  *)
Parts(lines, i) == [k \in 1..(ContinuedTo(lines, i) - i + 1) |-> lines[i + k - 1].value]

LEMMA PartsAre ==
    ASSUME NEW lines \in Seq(Line), NEW i \in 1..Len(lines)
    PROVE  /\ Parts(lines, i) \in Seq(Text)
           /\ Len(Parts(lines, i)) = ContinuedTo(lines, i) - i + 1
           /\ ContinuedTo(lines, i) \in i..Len(lines)
           /\ Value(lines, i) = FlattenSeq(Parts(lines, i))
           /\ Value(lines, i) \in Text
<1> DEFINE c == ContinuedTo(lines, i)
           m == c - i + 1
<1>1. Len(lines) \in Nat /\ \A k \in 1..Len(lines) : lines[k].value \in Text
  BY LineTypes
<1>2. c \in i..Len(lines)
  BY <1>1, ContinuedToIs DEF Continues
<1> HIDE DEF c
<1>3. m \in Nat /\ \A k \in 1..m : i + k - 1 \in 1..Len(lines)
  BY <1>1, <1>2
<1>4. [k \in 1..m |-> lines[i + k - 1].value] \in Seq(Text)
  <2>1. \A k \in 1..m : lines[i + k - 1].value \in Text
    BY <1>1, <1>3
  <2> QED BY <1>3, <2>1
<1>5. Parts(lines, i) = [k \in 1..m |-> lines[i + k - 1].value]
  BY DEF Parts, c
<1>6. Parts(lines, i) \in Seq(Text) /\ Len(Parts(lines, i)) = m
  BY <1>3, <1>4, <1>5
<1>7. Value(lines, i) = FlattenSeq(Parts(lines, i))
  BY DEF Value, Parts
<1>8. FlattenSeq(Parts(lines, i)) \in Text
  BY <1>6, FlattenType DEF Text
<1> QED BY <1>2, <1>6, <1>7, <1>8 DEF c

LEMMA FlattenOne ==
    ASSUME NEW T, NEW x \in Seq(T) PROVE FlattenSeq(<<x>>) = x
<1>1. <<x>> = Append(<<>>, x) /\ <<>> \in Seq(Seq(T))
  BY EmptySeq
<1>2. FlattenSeq(Append(<<>>, x)) = FlattenSeq(<<>>) \o x
  BY <1>1, FlattenAppend
<1>3. <<>> \o x = x
  BY ConcatEmptySeq
<1> QED BY <1>1, <1>2, <1>3, FlattenEmpty

LEMMA ValueAdded ==
    ASSUME NEW lines \in Seq(Line), NEW l \in Line, NEW t, NEW n, Added(lines, l, t, n)
    PROVE  /\ \A i \in 1..n : Value(t, i)
                  = IF Extends(lines, l, i) THEN Value(lines, i) \o l.value ELSE Value(lines, i)
           /\ Value(t, n + 1) = l.value
<1>1. /\ n \in Nat /\ Len(lines) = n /\ Len(t) = n + 1 /\ t \in Seq(Line)
      /\ \A i \in 1..n : t[i] = lines[i]
      /\ t[n + 1] = l
  BY DEF Added
<1>2. /\ \A i \in 1..n : ContinuedTo(t, i)
                  = IF Extends(lines, l, i) THEN n + 1 ELSE ContinuedTo(lines, i)
      /\ ContinuedTo(t, n + 1) = n + 1
  BY ContinuedToAdded
<1>3. ASSUME NEW i \in 1..n
      PROVE  Value(t, i)
             = IF Extends(lines, l, i) THEN Value(lines, i) \o l.value ELSE Value(lines, i)
  <2> DEFINE a == Parts(lines, i)
             b == Parts(t, i)
             c == ContinuedTo(lines, i)
  <2>1. /\ a \in Seq(Text) /\ Len(a) = c - i + 1 /\ c \in i..n
        /\ Value(lines, i) = FlattenSeq(a)
    BY <1>1, PartsAre
  <2>2. /\ b \in Seq(Text) /\ Len(b) = ContinuedTo(t, i) - i + 1
        /\ Value(t, i) = FlattenSeq(b)
    <3>1. i \in 1..Len(t)
      BY <1>1
    <3> QED BY <1>1, <3>1, PartsAre
  <2>3. \A k \in 1..(c - i + 1) : a[k] = lines[i + k - 1].value
    BY DEF Parts
  <2>4. \A k \in 1..(ContinuedTo(t, i) - i + 1) : b[k] = t[i + k - 1].value
    BY DEF Parts
  <2>5. Extends(lines, l, i) => c = n
    BY <1>1 DEF Extends
  <2> HIDE DEF a, b, c
  <2>6. CASE Extends(lines, l, i)
    <3> DEFINE d == Append(a, l.value)
    <3>1. l.value \in Text
      BY LineKinds
    <3>2. /\ d \in Seq(Text) /\ Len(d) = c - i + 2
          /\ \A k \in 1..(c - i + 1) : d[k] = a[k]
          /\ d[c - i + 2] = l.value
      BY <2>1, <3>1, AppendProperties
    <3> HIDE DEF d
    <3>3. Len(b) = c - i + 2 /\ c = n /\ ContinuedTo(t, i) = n + 1
      BY <1>1, <1>2, <2>1, <2>2, <2>5, <2>6
    <3>4. ASSUME NEW k \in 1..Len(b) PROVE b[k] = d[k]
      <4>1. CASE k \in 1..(c - i + 1)
        <5>1. i + k - 1 \in 1..n
          BY <1>1, <2>1, <4>1
        <5>2. b[k] = t[i + k - 1].value
          BY <2>2, <2>4, <3>4
        <5> QED BY <1>1, <2>3, <3>2, <4>1, <5>1, <5>2
      <4>2. CASE k = c - i + 2
        <5>1. i + k - 1 = n + 1
          BY <1>1, <2>1, <3>3, <4>2
        <5>2. b[k] = t[i + k - 1].value
          BY <2>2, <2>4, <3>4
        <5> QED BY <1>1, <3>2, <4>2, <5>1, <5>2
      <4> QED BY <2>1, <3>3, <4>1, <4>2
    <3>5. b = d
      BY <2>2, <3>2, <3>3, <3>4, SeqEqual
    <3>6. FlattenSeq(d) = FlattenSeq(a) \o l.value
      BY <2>1, <3>1, FlattenAppend DEF d, Text
    <3> QED BY <2>1, <2>2, <2>6, <3>5, <3>6
  <2>7. CASE ~Extends(lines, l, i)
    <3>1. ContinuedTo(t, i) = c /\ Len(b) = Len(a)
      BY <1>2, <2>1, <2>2, <2>7 DEF c
    <3>2. ASSUME NEW k \in 1..Len(b) PROVE b[k] = a[k]
      <4>1. i + k - 1 \in 1..n /\ k \in 1..(c - i + 1)
        BY <1>1, <2>1, <3>1
      <4>2. b[k] = t[i + k - 1].value
        BY <2>4, <3>1, <4>1
      <4> QED BY <1>1, <2>3, <4>1, <4>2
    <3>3. a = b
      BY <2>1, <2>2, <3>1, <3>2, SeqEqual
    <3> QED BY <2>1, <2>2, <2>7, <3>3
  <2> QED BY <2>6, <2>7
<1>4. Value(t, n + 1) = l.value
  <2> DEFINE i == n + 1
  <2>1. i \in 1..Len(t) /\ i - i + 1 = 1 /\ i + 1 - 1 = i
    BY <1>1
  <2>2. Value(t, i) = FlattenSeq(Parts(t, i)) /\ Parts(t, i) \in Seq(Text)
    BY <1>1, <2>1, PartsAre
  <2>3. Parts(t, i) = [k \in 1..(i - i + 1) |-> t[i + k - 1].value]
    BY <1>2 DEF Parts
  <2> HIDE DEF i
  <2>4. Parts(t, i)[1] = t[i].value /\ Len(Parts(t, i)) = 1
    BY <2>1, <2>2, <2>3, LenProperties
  <2>5. Parts(t, i) = <<t[i].value>>
    BY <2>2, <2>4
  <2>6. t[i].value \in Seq(Piece)
    BY <1>1, <2>1, LineTypes DEF Text
  <2>7. Value(t, i) = t[i].value
    BY <2>2, <2>5, <2>6, FlattenOne
  <2> QED BY <1>1, <2>7 DEF i
<1> QED BY <1>3, <1>4

(* The entry that a line may still continue: the last one, when nothing    *)
(* but lines that continue it come after it.                               *)
OpenAt(lines, e) ==
    e \in 1..Len(lines) /\ lines[e].is = "entry" /\ ContinuedTo(lines, e) = Len(lines)
AllEntries(lines) == {i \in 1..Len(lines) : lines[i].is = "entry"}

LEMMA OpenIsLast ==
    ASSUME NEW lines, NEW n \in Nat, Len(lines) = n, NEW e, OpenAt(lines, e)
    PROVE  /\ \A i \in AllEntries(lines) : i <= e /\ (OpenAt(lines, i) => i = e)
           /\ HeaderBefore(lines, e) = LastHeader(lines)
<1>1. e \in 1..n /\ lines[e].is = "entry" /\ ContinuedTo(lines, e) = n
  BY DEF OpenAt
<1>2. \A k \in (e + 1)..n : lines[k].is = "more"
  BY <1>1, ContinuedToIs DEF Continues
<1>3. \A k \in (e + 1)..n : lines[k].is # "entry" /\ lines[k].is # "header"
  BY <1>2
<1>4. ASSUME NEW i \in AllEntries(lines) PROVE i <= e
  BY <1>1, <1>3 DEF AllEntries
<1>5. ASSUME NEW i \in AllEntries(lines), OpenAt(lines, i) PROVE i = e
  <2>1. i \in 1..n /\ ContinuedTo(lines, i) = n /\ i <= e
    BY <1>4, <1>5 DEF OpenAt
  <2>2. \A k \in (i + 1)..n : lines[k].is = "more"
    BY <2>1, ContinuedToIs DEF Continues
  <2>3. ~(i < e)
    BY <1>1, <2>1, <2>2
  <2> QED BY <1>1, <2>1, <2>3
<1>6. HeaderBefore(lines, e) = LastHeader(lines)
  <2> DEFINE h == HeaderBefore(lines, e)
             m == n + 1
  <2>1. /\ h \in 0..(e - 1) /\ (h # 0 => HeaderAt(lines, h))
        /\ \A k \in 1..(e - 1) : HeaderAt(lines, k) => k <= h
    BY <1>1, HeaderBeforeIs
  <2> HIDE DEF h
  <2>2. m \in Nat \ {0} /\ m - 1 = n /\ h \in 0..n
    BY <1>1, <2>1
  <2> HIDE DEF m
  <2>3. \A k \in 1..n : HeaderAt(lines, k) => k <= h
    <3> SUFFICES ASSUME NEW k \in 1..n, HeaderAt(lines, k) PROVE k <= h
      OBVIOUS
    <3>1. k \in 1..(e - 1) \/ k = e \/ k \in (e + 1)..n
      BY <1>1
    <3> QED BY <1>1, <1>3, <2>1, <3>1 DEF HeaderAt
  <2>4. HeaderBefore(lines, m) = h
    BY <2>1, <2>2, <2>3, HeaderBeforeUnique
  <2> QED BY <2>4 DEF h, m, LastHeader
<1> QED BY <1>4, <1>5, <1>6

LEMMA MaxOfEntries ==
    ASSUME NEW E, NEW n \in Nat, \A i \in E : i \in 1..n, E # {}
    PROVE  Max(E) \in E /\ \A i \in E : i <= Max(E)
<1>1. E \in SUBSET Nat /\ \A i \in E : i <= n
  OBVIOUS
<1> QED BY <1>1, MaxIsGreatest

(* What a line changes of the value of the last of some entries.           *)
Among(lines, E) == \A i \in E : i \in AllEntries(lines)
Closed(lines, E) == \A i \in E : ~OpenAt(lines, i)

LEMMA LastValueSame ==
    ASSUME NEW lines \in Seq(Line), NEW l \in Line, NEW t, NEW n, Added(lines, l, t, n),
           NEW E, Among(lines, E),
           l.is = "more" => Closed(lines, E)
    PROVE  LastValue(t, E) = LastValue(lines, E)
<1>1. n \in Nat /\ Len(lines) = n /\ \A i \in E : i \in 1..n /\ lines[i].is = "entry"
  BY DEF Added, Among, AllEntries
<1>2. \A i \in 1..n :
          Value(t, i) = IF Extends(lines, l, i) THEN Value(lines, i) \o l.value ELSE Value(lines, i)
  BY ValueAdded
<1>3. \A i \in E : ~Extends(lines, l, i)
  BY <1>1 DEF Closed, Extends, OpenAt
<1>4. E # {} => Max(E) \in E
  BY <1>1, MaxOfEntries
<1> QED BY <1>1, <1>2, <1>3, <1>4 DEF LastValue

LEMMA LastValueLonger ==
    ASSUME NEW lines \in Seq(Line), NEW l \in Line, NEW t, NEW n, Added(lines, l, t, n),
           NEW E, Among(lines, E),
           l.is = "more", NEW e \in E, OpenAt(lines, e)
    PROVE  /\ LastValue(lines, E) = {Value(lines, e)}
           /\ LastValue(t, E) = {Value(lines, e) \o l.value}
<1>1. n \in Nat /\ Len(lines) = n /\ \A i \in E : i \in 1..n /\ i \in AllEntries(lines)
  BY DEF Added, Among, AllEntries
<1>2. \A i \in 1..n :
          Value(t, i) = IF Extends(lines, l, i) THEN Value(lines, i) \o l.value ELSE Value(lines, i)
  BY ValueAdded
<1>3. \A i \in E : i <= e
  BY <1>1, OpenIsLast
<1>4. Max(E) \in E /\ e <= Max(E)
  BY <1>1, MaxOfEntries
<1>5. Max(E) = e
  BY <1>1, <1>3, <1>4
<1>6. Extends(lines, l, e)
  BY DEF Extends, OpenAt
<1>7. E # {} /\ e \in 1..n
  BY <1>1
<1> QED BY <1>2, <1>5, <1>6, <1>7 DEF LastValue

LEMMA LastValueNew ==
    ASSUME NEW lines \in Seq(Line), NEW l \in Line, NEW t, NEW n, Added(lines, l, t, n),
           NEW E, Among(lines, E)
    PROVE  LastValue(t, E \cup {n + 1}) = {l.value}
<1>1. n \in Nat /\ n + 1 \in Nat /\ Len(lines) = n /\ \A i \in E : i \in 1..n
  BY DEF Added, Among, AllEntries
<1>2. Value(t, n + 1) = l.value
  BY ValueAdded
<1> DEFINE F == E \cup {n + 1}
<1>3. (\A i \in F : i \in 1..(n + 1)) /\ n + 1 \in F /\ F # {}
  BY <1>1
<1> HIDE DEF F
<1>4. Max(F) \in F /\ n + 1 <= Max(F)
  BY <1>1, <1>3, MaxOfEntries
<1>5. Max(F) = n + 1
  BY <1>1, <1>3, <1>4
<1>6. LastValue(t, F) = {l.value}
  BY <1>2, <1>3, <1>5 DEF LastValue
<1> QED BY <1>6 DEF F

(* The entries of a key under all headers of a section.                    *)
Held(lines, sec, key) == UNION {Entries(lines, h, key) : h \in Headers(lines, sec)}

LEMMA HeldAre ==
    ASSUME NEW lines \in Seq(Line), NEW sec, NEW key
    PROVE  /\ \A h : \A i \in Entries(lines, h, key) : i \in AllEntries(lines)
           /\ \A i \in Held(lines, sec, key) : i \in AllEntries(lines)
           /\ \A h : \A i \in Entries(lines, h, key) : lines[i].key = key
           /\ \A i : i \in Held(lines, sec, key)
                     <=> \E h \in Headers(lines, sec) : i \in Entries(lines, h, key)
<1>1. \A h : \A i \in Entries(lines, h, key) : i \in AllEntries(lines) /\ lines[i].key = key
  BY LineTypes DEF Entries, AllEntries
<1>2. \A i : i \in Held(lines, sec, key)
             <=> \E h \in Headers(lines, sec) : i \in Entries(lines, h, key)
  BY DEF Held
<1> QED BY <1>1, <1>2

LEMMA HeldAdded ==
    ASSUME NEW lines \in Seq(Line), NEW l \in Line, NEW t, NEW n, Added(lines, l, t, n),
           NEW sec, NEW key
    PROVE  Held(t, sec, key)
           = Held(lines, sec, key)
             \cup IF /\ l.is = "entry" /\ l.key = key
                     /\ LastHeader(lines) \in Headers(lines, sec)
                  THEN {n + 1} ELSE {}
<1>1. /\ n \in Nat /\ Len(lines) = n /\ DOMAIN lines = 1..n
  BY DEF Added
<1>2. \A h : Entries(t, h, key)
             = Entries(lines, h, key)
               \cup IF l.is = "entry" /\ l.key = key /\ LastHeader(lines) = h
                    THEN {n + 1} ELSE {}
  BY EntriesAdded
<1>3. Headers(t, sec)
      = Headers(lines, sec) \cup IF l.is = "header" /\ l.key = sec THEN {n + 1} ELSE {}
  BY HeadersAdded
<1>4. Entries(lines, n + 1, key) = {}
  <2> SUFFICES ASSUME NEW i \in Entries(lines, n + 1, key) PROVE FALSE
    OBVIOUS
  <2>1. i \in 1..n /\ HeaderBefore(lines, i) = n + 1
    BY <1>1 DEF Entries
  <2>2. HeaderBefore(lines, i) \in 0..(i - 1)
    BY <1>1, <2>1, HeaderBeforeIs
  <2> QED BY <1>1, <2>1, <2>2
<1>5. CASE l.is = "header"
  <2>1. \A h : Entries(t, h, key) = Entries(lines, h, key)
    BY <1>2, <1>5
  <2>2. ASSUME NEW i PROVE i \in Held(t, sec, key) <=> i \in Held(lines, sec, key)
    BY <1>3, <1>4, <2>1 DEF Held
  <2> QED BY <1>5, <2>2
<1>6. CASE l.is # "header"
  <2>1. Headers(t, sec) = Headers(lines, sec)
    BY <1>3, <1>6
  <2>2. CASE l.is = "entry" /\ l.key = key
    <3>1. ASSUME NEW i
          PROVE  i \in Held(t, sec, key) <=>
                    \/ i \in Held(lines, sec, key)
                    \/ LastHeader(lines) \in Headers(lines, sec) /\ i = n + 1
      BY <1>2, <2>1, <2>2 DEF Held
    <3> QED BY <2>2, <3>1
  <2>3. CASE ~(l.is = "entry" /\ l.key = key)
    <3>1. \A h : Entries(t, h, key) = Entries(lines, h, key)
      BY <1>2, <2>3
    <3> QED BY <2>1, <2>3, <3>1 DEF Held
  <2> QED BY <2>2, <2>3
<1> QED BY <1>5, <1>6

LEMMA EntriesAddedCases ==
    ASSUME NEW lines, NEW l, NEW t, NEW n, Added(lines, l, t, n), NEW h, NEW key
    PROVE  /\ l.is = "entry" /\ l.key = key /\ LastHeader(lines) = h =>
                 Entries(t, h, key) = Entries(lines, h, key) \cup {n + 1}
           /\ ~(l.is = "entry" /\ l.key = key /\ LastHeader(lines) = h) =>
                 Entries(t, h, key) = Entries(lines, h, key)
<1> DEFINE new == IF l.is = "entry" /\ l.key = key /\ LastHeader(lines) = h
                  THEN {n + 1} ELSE {}
<1>1. Entries(t, h, key) = Entries(lines, h, key) \cup new
  BY EntriesAdded
<1> QED BY <1>1

LEMMA HeldAddedCases ==
    ASSUME NEW lines \in Seq(Line), NEW l \in Line, NEW t, NEW n, Added(lines, l, t, n),
           NEW sec, NEW key
    PROVE  /\ /\ l.is = "entry" /\ l.key = key
              /\ LastHeader(lines) \in Headers(lines, sec)
              => Held(t, sec, key) = Held(lines, sec, key) \cup {n + 1}
           /\ ~(/\ l.is = "entry" /\ l.key = key
                /\ LastHeader(lines) \in Headers(lines, sec))
              => Held(t, sec, key) = Held(lines, sec, key)
<1> DEFINE new == IF /\ l.is = "entry" /\ l.key = key
                     /\ LastHeader(lines) \in Headers(lines, sec)
                  THEN {n + 1} ELSE {}
<1>1. Held(t, sec, key) = Held(lines, sec, key) \cup new
  BY HeldAdded
<1> QED BY <1>1

(* The value of a key under one header.                                    *)
Under(lines, h, key) == LastValue(lines, Entries(lines, h, key))

LEMMA LastHeaderIs ==
    ASSUME NEW lines \in Seq(Line), NEW sec
    PROVE  /\ LastHeader(lines) \in 0..Len(lines)
           /\ LastHeader(lines) # 0 =>
                 /\ lines[LastHeader(lines)].is = "header"
                 /\ LastHeader(lines) \in Headers(lines, sec)
                       <=> lines[LastHeader(lines)].key = sec
           /\ \A k \in 1..Len(lines) : lines[k].is = "header" => k <= LastHeader(lines)
           /\ LastHeader(lines) = 0 => LastHeader(lines) \notin Headers(lines, sec)
<1> DEFINE n == Len(lines)
           m == n + 1
           h == HeaderBefore(lines, m)
<1>1. n \in Nat /\ DOMAIN lines = 1..n /\ m \in Nat \ {0} /\ m - 1 = n
  BY LenProperties
<1>2. /\ h \in 0..(m - 1) /\ (h # 0 => HeaderAt(lines, h))
      /\ \A k \in 1..(m - 1) : HeaderAt(lines, k) => k <= h
  BY <1>1, HeaderBeforeIs
<1>3. LastHeader(lines) = h
  BY DEF LastHeader
<1> HIDE DEF h, m
<1> QED BY <1>1, <1>2, <1>3 DEF HeaderAt, Headers

LEMMA OwnIs == \A lines, sec, key : Own(lines, sec, key) = LastValue(lines, Held(lines, sec, key))
BY DEF Own, Held

LEMMA HeaderChangesNothing ==
    ASSUME NEW lines \in Seq(Line), NEW l \in Line, NEW t, NEW n, Added(lines, l, t, n),
           l.is = "header"
    PROVE  \A sec, key : Own(t, sec, key) = Own(lines, sec, key)
                         /\ Under(t, Len(t), key) = {}
                         /\ \A h : Under(t, h, key) = Under(lines, h, key)
<1> TAKE sec, key
<1>0. /\ lines \in Seq(Line) /\ l \in Line /\ Added(lines, l, t, n)
      /\ l.is \in {"header", "entry", "more"}
  OBVIOUS
<1>a. /\ Own(t, sec, key) = LastValue(t, Held(t, sec, key))
       /\ Own(lines, sec, key) = LastValue(lines, Held(lines, sec, key))
  BY OwnIs
<1>1. Held(t, sec, key) = Held(lines, sec, key)
  BY <1>0, HeldAddedCases
<1>2. \A h : Entries(t, h, key) = Entries(lines, h, key)
  BY <1>0, EntriesAddedCases
<1>3. LastValue(t, Held(lines, sec, key)) = LastValue(lines, Held(lines, sec, key))
  BY <1>0, LastValueSame, HeldAre DEF Among
<1>4. ASSUME NEW h PROVE Under(t, h, key) = Under(lines, h, key)
  <2>1. Among(lines, Entries(lines, h, key))
    BY HeldAre DEF Among
  <2>2. LastValue(t, Entries(lines, h, key)) = LastValue(lines, Entries(lines, h, key))
    BY <1>0, <2>1, LastValueSame
  <2> QED BY <1>2, <2>2 DEF Under
<1>5. Under(lines, n + 1, key) = {}
  <2>1. Entries(lines, n + 1, key) = {}
    <3> SUFFICES ASSUME NEW i \in Entries(lines, n + 1, key) PROVE FALSE
      OBVIOUS
    <3>1. n \in Nat /\ i \in 1..n /\ HeaderBefore(lines, i) = n + 1
      BY DEF Entries, Added
    <3>2. HeaderBefore(lines, i) \in 0..(i - 1)
      BY <3>1, HeaderBeforeIs
    <3> QED BY <3>1, <3>2
  <2> QED BY <2>1 DEF Under, LastValue
<1>6. Len(t) = n + 1
  BY DEF Added
<1> QED BY <1>1, <1>3, <1>4, <1>5, <1>6, <1>a

LEMMA EntrySetsOne ==
    ASSUME NEW lines \in Seq(Line), NEW l \in Line, NEW t, NEW n, Added(lines, l, t, n),
           l.is = "entry", NEW last, last = LastHeader(lines), last # 0, NEW sec, NEW key
    PROVE  /\ Own(t, sec, key) = IF sec = lines[last].key /\ key = l.key
                                 THEN {l.value} ELSE Own(lines, sec, key)
           /\ \A h : Under(t, h, key) = IF h = last /\ key = l.key
                                        THEN {l.value} ELSE Under(lines, h, key)
<1>0. /\ lines \in Seq(Line) /\ l \in Line /\ Added(lines, l, t, n)
      /\ l.is \in {"header", "entry", "more"}
  OBVIOUS
<1>a. /\ Own(t, sec, key) = LastValue(t, Held(t, sec, key))
       /\ Own(lines, sec, key) = LastValue(lines, Held(lines, sec, key))
  BY OwnIs
<1>1. last \in Headers(lines, sec) <=> lines[last].key = sec
  BY LastHeaderIs
<1>2. Among(lines, Held(lines, sec, key))
  BY HeldAre DEF Among
<1>3. ASSUME sec = lines[last].key /\ key = l.key PROVE Own(t, sec, key) = {l.value}
  <2>1. Held(t, sec, key) = Held(lines, sec, key) \cup {n + 1}
    BY <1>0, <1>1, <1>3, HeldAddedCases
  <2>2. LastValue(t, Held(lines, sec, key) \cup {n + 1}) = {l.value}
    BY <1>0, <1>2, LastValueNew
  <2> QED BY <1>3, <2>1, <2>2, <1>a
<1>4. ASSUME ~(sec = lines[last].key /\ key = l.key)
      PROVE  Own(t, sec, key) = Own(lines, sec, key)
  <2>1. Held(t, sec, key) = Held(lines, sec, key)
    BY <1>0, <1>1, <1>4, HeldAddedCases
  <2>2. LastValue(t, Held(lines, sec, key)) = LastValue(lines, Held(lines, sec, key))
    BY <1>0, <1>2, LastValueSame
  <2> QED BY <1>4, <2>1, <2>2, <1>a
<1>5. ASSUME NEW h
      PROVE  Under(t, h, key) = IF h = last /\ key = l.key THEN {l.value}
                                ELSE Under(lines, h, key)
  <2>1. Among(lines, Entries(lines, h, key))
    BY HeldAre DEF Among
  <2>2. CASE h = last /\ key = l.key
    <3>1. Entries(t, h, key) = Entries(lines, h, key) \cup {n + 1}
      BY <1>0, <2>2, EntriesAddedCases
    <3>2. LastValue(t, Entries(lines, h, key) \cup {n + 1}) = {l.value}
      BY <1>0, <2>1, LastValueNew
    <3> QED BY <2>2, <3>1, <3>2 DEF Under
  <2>3. CASE ~(h = last /\ key = l.key)
    <3>1. Entries(t, h, key) = Entries(lines, h, key)
      BY <1>0, <2>3, EntriesAddedCases
    <3>2. LastValue(t, Entries(lines, h, key)) = LastValue(lines, Entries(lines, h, key))
      BY <1>0, <2>1, LastValueSame
    <3> QED BY <2>3, <3>1, <3>2 DEF Under
  <2> QED BY <2>2, <2>3
<1> QED BY <1>3, <1>4, <1>5

(* One key has another value, and all else is as before.                   *)
OneSet(lines, t, last, k, v) ==
    /\ \A sec, key : Own(t, sec, key) = IF sec = lines[last].key /\ key = k
                                        THEN {v} ELSE Own(lines, sec, key)
    /\ \A h, key : Under(t, h, key) = IF h = last /\ key = k
                                      THEN {v} ELSE Under(lines, h, key)

LEMMA MoreLengthensOne ==
    ASSUME NEW lines \in Seq(Line), NEW l \in Line, NEW t, NEW n, Added(lines, l, t, n),
           l.is = "more", LastHeader(lines) # 0, NEW e, OpenAt(lines, e)
    PROVE  /\ OneSet(lines, t, LastHeader(lines), lines[e].key, Value(lines, e) \o l.value)
           /\ Under(lines, LastHeader(lines), lines[e].key) = {Value(lines, e)}
<1> SUFFICES ASSUME NEW sec, NEW key
             PROVE  /\ Own(t, sec, key)
                       = IF sec = lines[LastHeader(lines)].key /\ key = lines[e].key
                         THEN {Value(lines, e) \o l.value} ELSE Own(lines, sec, key)
                    /\ \A h : Under(t, h, key)
                             = IF h = LastHeader(lines) /\ key = lines[e].key
                               THEN {Value(lines, e) \o l.value} ELSE Under(lines, h, key)
                    /\ Under(lines, LastHeader(lines), lines[e].key) = {Value(lines, e)}
  BY DEF OneSet
<1> DEFINE last == LastHeader(lines)
<1>b. last = LastHeader(lines) /\ last # 0
  OBVIOUS
<1> HIDE DEF last
<1>0. /\ lines \in Seq(Line) /\ l \in Line /\ Added(lines, l, t, n)
      /\ l.is \in {"header", "entry", "more"}
  OBVIOUS
<1>a. /\ Own(t, sec, key) = LastValue(t, Held(t, sec, key))
       /\ Own(lines, sec, key) = LastValue(lines, Held(lines, sec, key))
  BY OwnIs
<1>1. last \in Headers(lines, sec) <=> lines[last].key = sec
  BY <1>b, LastHeaderIs
<1>2. Among(lines, Held(lines, sec, key))
  BY HeldAre DEF Among
<1>3. /\ \A i \in AllEntries(lines) : OpenAt(lines, i) => i = e
      /\ HeaderBefore(lines, e) = last
  BY <1>b, LineTypes, OpenIsLast
<1>4. \A h, k : e \in Entries(lines, h, k) <=> h = last /\ k = lines[e].key
  <2>1. e \in DOMAIN lines /\ lines[e].is = "entry"
    BY LineTypes DEF OpenAt
  <2> QED BY <1>3, <2>1 DEF Entries
<1>5. e \in Held(lines, sec, key) <=> sec = lines[last].key /\ key = lines[e].key
  BY <1>1, <1>4, HeldAre
<1>6. Held(t, sec, key) = Held(lines, sec, key)
  BY <1>0, HeldAddedCases
<1>7. ASSUME sec = lines[last].key /\ key = lines[e].key
      PROVE  Own(t, sec, key) = {Value(lines, e) \o l.value}
  <2>1. e \in Held(lines, sec, key)
    BY <1>5, <1>7
  <2>2. LastValue(t, Held(lines, sec, key)) = {Value(lines, e) \o l.value}
    BY <1>0, <1>2, <2>1, LastValueLonger
  <2> QED BY <1>6, <1>7, <2>2, <1>a
<1>8. ASSUME ~(sec = lines[last].key /\ key = lines[e].key)
      PROVE  Own(t, sec, key) = Own(lines, sec, key)
  <2>1. Closed(lines, Held(lines, sec, key))
    BY <1>2, <1>3, <1>5, <1>8 DEF Among, Closed
  <2>2. LastValue(t, Held(lines, sec, key)) = LastValue(lines, Held(lines, sec, key))
    BY <1>0, <1>2, <2>1, LastValueSame
  <2> QED BY <1>6, <1>8, <2>2, <1>a
<1>9. ASSUME NEW h, NEW k
      PROVE  /\ h = last /\ k = lines[e].key =>
                   /\ Under(t, h, k) = {Value(lines, e) \o l.value}
                   /\ Under(lines, h, k) = {Value(lines, e)}
             /\ ~(h = last /\ k = lines[e].key) => Under(t, h, k) = Under(lines, h, k)
  <2>1. Among(lines, Entries(lines, h, k))
    BY HeldAre DEF Among
  <2>2. Entries(t, h, k) = Entries(lines, h, k)
    BY <1>0, EntriesAddedCases
  <2>3. CASE h = last /\ k = lines[e].key
    <3>1. e \in Entries(lines, h, k)
      BY <1>4, <2>3
    <3>2. /\ LastValue(t, Entries(lines, h, k)) = {Value(lines, e) \o l.value}
          /\ LastValue(lines, Entries(lines, h, k)) = {Value(lines, e)}
      BY <1>0, <2>1, <3>1, LastValueLonger
    <3> QED BY <2>2, <2>3, <3>2 DEF Under
  <2>4. CASE ~(h = last /\ k = lines[e].key)
    <3>1. Closed(lines, Entries(lines, h, k))
      BY <1>3, <1>4, <2>1, <2>4 DEF Among, Closed
    <3>2. LastValue(t, Entries(lines, h, k)) = LastValue(lines, Entries(lines, h, k))
      BY <1>0, <2>1, <3>1, LastValueSame
    <3> QED BY <2>2, <2>4, <3>2 DEF Under
  <2> QED BY <2>3, <2>4
<1> QED BY <1>b, <1>7, <1>8, <1>9

-----------------------------------------------------------------------------
(* The sections of a file merged, and the files they include.              *)
OnlyFun == [s \in Sec |-> Only(s.name, s.entries)]
Word == {Plain(<<p>>) : p \in Piece}
Inc(s, key) ==
    IF s.name = "INCLUDES" /\ key \in DOMAIN s.entries THEN Words(s.entries[key]) ELSE <<>>
IncFun(key) == [s \in Sec |-> Inc(s, key)]

LEMMA MergeFileIs ==
    /\ MergeFile(<<>>) = <<>>
    /\ \A secs \in Seq(Sec) : MergeFile(secs) \in Docs
    /\ \A secs \in Seq(Sec) : \A s \in Sec :
          MergeFile(Append(secs, s)) = MergeDocs(MergeFile(secs), Only(s.name, s.entries))
<1>1. OnlyFun \in [Sec -> Docs]
  <2>1. \A s \in Sec : Only(s.name, s.entries) \in Docs
    BY OnlyIsDoc DEF Sec
  <2> QED BY <2>1 DEF OnlyFun
<1>2. \A secs \in Seq(Sec) : MergeFile(secs) = Merged(Each(secs, OnlyFun))
  <2> SUFFICES ASSUME NEW secs \in Seq(Sec)
               PROVE  MergeFile(secs) = Merged(Each(secs, OnlyFun))
    OBVIOUS
  <2>1. \A i \in DOMAIN secs : secs[i] \in Sec
    BY LenProperties, ElementOfSeq
  <2>2. [i \in DOMAIN secs |-> Only(secs[i].name, secs[i].entries)]
        = [i \in DOMAIN secs |-> OnlyFun[secs[i]]]
    BY <2>1 DEF OnlyFun
  <2> QED BY <2>2 DEF MergeFile, Each
<1>3. \A secs \in Seq(Sec) : Each(secs, OnlyFun) \in Seq(Docs)
  BY <1>1, EachType
<1>4. ASSUME NEW secs \in Seq(Sec), NEW s \in Sec
      PROVE  MergeFile(Append(secs, s)) = MergeDocs(MergeFile(secs), Only(s.name, s.entries))
  <2>1. Each(Append(secs, s), OnlyFun) = Append(Each(secs, OnlyFun), OnlyFun[s])
    BY EachAppend
  <2>2. OnlyFun[s] = Only(s.name, s.entries) /\ OnlyFun[s] \in Docs
    BY <1>1 DEF OnlyFun
  <2>3. Append(secs, s) \in Seq(Sec)
    BY AppendProperties
  <2>4. Merged(Append(Each(secs, OnlyFun), OnlyFun[s]))
        = MergeDocs(Merged(Each(secs, OnlyFun)), OnlyFun[s])
    BY <1>3, <2>2, MergedGrows
  <2> QED BY <1>2, <2>1, <2>2, <2>3, <2>4
<1>5. MergeFile(<<>>) = <<>>
  <2>1. <<>> \in Seq(Sec)
    BY EmptySeq
  <2> QED BY <1>2, <2>1, EachEmpty, MergedGrows
<1>6. \A secs \in Seq(Sec) : MergeFile(secs) \in Docs
  BY <1>2, <1>3, MergedGrows
<1> QED BY <1>4, <1>5, <1>6

LEMMA SaysOfFile ==
    ASSUME NEW front \in Seq(Sec), NEW s \in Sec, NEW sec, NEW key
    PROVE  Says(MergeFile(Append(front, s)), sec, key)
           = IF sec = s.name /\ key \in DOMAIN s.entries THEN {s.entries[key]}
             ELSE Says(MergeFile(front), sec, key)
<1>1. /\ MergeFile(Append(front, s)) = MergeDocs(MergeFile(front), Only(s.name, s.entries))
      /\ MergeFile(front) \in Docs
  BY MergeFileIs
<1>2. Only(s.name, s.entries) \in Docs
  BY OnlyIsDoc DEF Sec
<1>3. Says(MergeFile(Append(front, s)), sec, key)
      = IF Says(Only(s.name, s.entries), sec, key) # {}
        THEN Says(Only(s.name, s.entries), sec, key) ELSE Says(MergeFile(front), sec, key)
  BY <1>1, <1>2, SaysOfMerge
<1>4. Says(Only(s.name, s.entries), sec, key)
      = IF sec = s.name /\ key \in DOMAIN s.entries THEN {s.entries[key]} ELSE {}
  BY SaysOfOnly
<1> QED BY <1>3, <1>4

LEMMA WithSays ==
    ASSUME NEW s, NEW key, NEW value, NEW k
    PROVE  /\ With(s, key, value).name = s.name
           /\ k \in DOMAIN With(s, key, value).entries <=> k = key \/ k \in DOMAIN s.entries
           /\ With(s, key, value).entries[key] = value
           /\ k # key /\ k \in DOMAIN s.entries =>
                 With(s, key, value).entries[k] = s.entries[k]
BY DEF With, Over, Only

LEMMA SaysOfFileWith ==
    ASSUME NEW front \in Seq(Sec), NEW s \in Sec, NEW k \in STRING, NEW v \in Text,
           NEW sec, NEW key
    PROVE  Says(MergeFile(Append(front, With(s, k, v))), sec, key)
           = IF sec = s.name /\ key = k THEN {v}
             ELSE Says(MergeFile(Append(front, s)), sec, key)
<1> DEFINE w == With(s, k, v)
<1>1. w \in Sec
  BY WithIsSec
<1>2. /\ w.name = s.name /\ w.entries[k] = v
      /\ key \in DOMAIN w.entries <=> key = k \/ key \in DOMAIN s.entries
      /\ key # k /\ key \in DOMAIN s.entries => w.entries[key] = s.entries[key]
  BY WithSays
<1> HIDE DEF w
<1>3. Says(MergeFile(Append(front, w)), sec, key)
      = IF sec = w.name /\ key \in DOMAIN w.entries THEN {w.entries[key]}
        ELSE Says(MergeFile(front), sec, key)
  BY <1>1, SaysOfFile
<1>4. Says(MergeFile(Append(front, s)), sec, key)
      = IF sec = s.name /\ key \in DOMAIN s.entries THEN {s.entries[key]}
        ELSE Says(MergeFile(front), sec, key)
  BY SaysOfFile
<1> QED BY <1>2, <1>3, <1>4 DEF w

LEMMA DomainOfFile ==
    ASSUME NEW front \in Seq(Sec), NEW s \in Sec
    PROVE  DOMAIN MergeFile(Append(front, s)) = DOMAIN MergeFile(front) \cup {s.name}
<1>1. MergeFile(Append(front, s)) = MergeDocs(MergeFile(front), Only(s.name, s.entries))
  BY MergeFileIs
<1> QED BY <1>1 DEF MergeDocs, Only

LEMMA WordsAre ==
    ASSUME NEW text \in Text PROVE Words(text) \in Seq(Word)
<1>1. \A k \in 1..Len(text) : Plain(<<text[k]>>) \in Word
  BY ElementOfSeq DEF Word, Text
<1>2. Len(text) \in Nat /\ DOMAIN text = 1..Len(text)
  BY LenProperties DEF Text
<1>3. [k \in 1..Len(text) |-> Plain(<<text[k]>>)] \in Seq(Word)
  BY <1>1, <1>2
<1> QED BY <1>2, <1>3, TupleIsSame DEF Words

LEMMA IncludesAre ==
    ASSUME NEW key
    PROVE  /\ Includes(<<>>, key) = <<>>
           /\ \A secs \in Seq(Sec) : Includes(secs, key) \in Seq(Word)
           /\ \A secs \in Seq(Sec) : \A s \in Sec :
                 Includes(Append(secs, s), key) = Includes(secs, key) \o Inc(s, key)
<1>1. IncFun(key) \in [Sec -> Seq(Word)]
  <2>1. ASSUME NEW s \in Sec PROVE Inc(s, key) \in Seq(Word)
    <3>1. key \in DOMAIN s.entries => s.entries[key] \in Text
      BY MapIs DEF Sec
    <3>2. <<>> \in Seq(Word)
      BY EmptySeq
    <3> QED BY <3>1, <3>2, WordsAre DEF Inc
  <2> QED BY <2>1 DEF IncFun
<1>2. \A secs \in Seq(Sec) : Includes(secs, key) = Spread(secs, IncFun(key))
  <2> SUFFICES ASSUME NEW secs \in Seq(Sec)
               PROVE  Includes(secs, key) = Spread(secs, IncFun(key))
    OBVIOUS
  <2>1. \A i \in DOMAIN secs : secs[i] \in Sec
    BY LenProperties, ElementOfSeq
  <2>2. [i \in DOMAIN secs |-> Inc(secs[i], key)] = [i \in DOMAIN secs |-> IncFun(key)[secs[i]]]
    BY <2>1 DEF IncFun
  <2>3. Includes(secs, key) = FlattenSeq(Tuple([i \in DOMAIN secs |-> Inc(secs[i], key)]))
    BY DEF Includes, Inc
  <2> QED BY <2>2, <2>3 DEF Spread, Each
<1>3. /\ Spread(<<>>, IncFun(key)) = <<>>
      /\ \A s \in Seq(Sec) : Spread(s, IncFun(key)) \in Seq(Word)
      /\ \A s \in Seq(Sec) : \A x \in Sec :
            Spread(Append(s, x), IncFun(key)) = Spread(s, IncFun(key)) \o IncFun(key)[x]
  BY <1>1, SpreadStep, Zenon
<1>4. <<>> \in Seq(Sec) /\ \A s \in Seq(Sec) : \A x \in Sec : Append(s, x) \in Seq(Sec)
  BY EmptySeq, AppendProperties
<1>5. \A x \in Sec : IncFun(key)[x] = Inc(x, key)
  BY DEF IncFun
<1> QED BY <1>2, <1>3, <1>4, <1>5

-----------------------------------------------------------------------------
(* What a file includes, header by header.                                 *)
Item(lines, key, h) ==
    IF h \in Headers(lines, "INCLUDES") /\ Entries(lines, h, key) # {}
    THEN Words(Value(lines, Max(Entries(lines, h, key)))) ELSE <<>>
Items(lines, key, m) == [h \in 1..m |-> Item(lines, key, h)]
Gathered(lines, key, m) == FlattenSeq(Items(lines, key, m))

LEMMA ItemIs ==
    ASSUME NEW lines \in Seq(Line), NEW key, NEW h
    PROVE  /\ Item(lines, key, h) \in Seq(Word)
           /\ \A v : h \in Headers(lines, "INCLUDES") /\ Under(lines, h, key) = {v} =>
                        Item(lines, key, h) = Words(v)
           /\ Under(lines, h, key) = {} => Item(lines, key, h) = <<>>
           /\ h \notin Headers(lines, "INCLUDES") => Item(lines, key, h) = <<>>
<1> DEFINE E == Entries(lines, h, key)
           x == Value(lines, Max(E))
<1>1. Under(lines, h, key) = IF E = {} THEN {} ELSE {x}
  BY DEF Under, LastValue
<1>2. E # {} => x \in Text
  <2> SUFFICES ASSUME E # {} PROVE x \in Text
    OBVIOUS
  <2>1. Len(lines) \in Nat /\ \A i \in E : i \in 1..Len(lines)
    BY HeldAre, LineTypes DEF AllEntries
  <2>2. Max(E) \in 1..Len(lines)
    BY <2>1, MaxOfEntries
  <2> QED BY <2>2, PartsAre
<1>3. Item(lines, key, h) = IF h \in Headers(lines, "INCLUDES") /\ E # {} THEN Words(x) ELSE <<>>
  BY DEF Item
<1> HIDE DEF E, x
<1>4. Item(lines, key, h) \in Seq(Word)
  <2>1. <<>> \in Seq(Word)
    BY EmptySeq
  <2> QED BY <1>2, <1>3, <2>1, WordsAre
<1>5. Under(lines, h, key) = {} => Item(lines, key, h) = <<>>
  BY <1>1, <1>3
<1>6. ASSUME NEW v, h \in Headers(lines, "INCLUDES"), Under(lines, h, key) = {v}
      PROVE  Item(lines, key, h) = Words(v)
  <2>1. E # {} /\ x = v
    BY <1>1, <1>6
  <2> QED BY <1>3, <1>6, <2>1
<1> QED BY <1>3, <1>4, <1>5, <1>6

LEMMA GatheredIs ==
    ASSUME NEW lines \in Seq(Line), NEW key
    PROVE  /\ Gathered(lines, key, 0) = <<>>
           /\ \A m \in Nat : Gathered(lines, key, m) \in Seq(Word)
           /\ \A i, k \in Nat : k = i + 1 =>
                 Gathered(lines, key, k) = Gathered(lines, key, i) \o Item(lines, key, k)
           /\ Named(lines, key) = Gathered(lines, key, Len(lines))
<1>1. ASSUME NEW m \in Nat
      PROVE  Items(lines, key, m) \in Seq(Seq(Word)) /\ Len(Items(lines, key, m)) = m
             /\ \A h \in 1..m : Items(lines, key, m)[h] = Item(lines, key, h)
  <2>1. \A h \in 1..m : Item(lines, key, h) \in Seq(Word)
    BY ItemIs
  <2>2. [h \in 1..m |-> Item(lines, key, h)] \in Seq(Seq(Word))
    BY <2>1
  <2> QED BY <2>2, LenProperties DEF Items
<1>2. \A m \in Nat : Gathered(lines, key, m) \in Seq(Word)
  BY <1>1, FlattenType DEF Gathered
<1>3. Gathered(lines, key, 0) = <<>>
  <2>1. Items(lines, key, 0) = <<>>
    BY <1>1, EmptySeq
  <2> QED BY <2>1, FlattenEmpty DEF Gathered
<1>4. ASSUME NEW i \in Nat, NEW k \in Nat, k = i + 1
      PROVE  Gathered(lines, key, k) = Gathered(lines, key, i) \o Item(lines, key, k)
  <2> DEFINE a == Items(lines, key, k)
             s == Items(lines, key, i)
             x == Item(lines, key, k)
             b == Append(s, x)
  <2>1. /\ a \in Seq(Seq(Word)) /\ Len(a) = k /\ s \in Seq(Seq(Word)) /\ Len(s) = i
        /\ x \in Seq(Word)
        /\ \A h \in 1..k : a[h] = Item(lines, key, h)
        /\ \A h \in 1..i : s[h] = Item(lines, key, h)
    BY <1>1, ItemIs
  <2> HIDE DEF a, s
  <2>2. b \in Seq(Seq(Word)) /\ Len(b) = k /\ b[k] = x /\ \A h \in 1..i : b[h] = s[h]
    BY <1>4, <2>1, AppendProperties
  <2>3. ASSUME NEW h \in 1..Len(a) PROVE a[h] = b[h]
    <3>1. h \in 1..i \/ h = k
      BY <1>4, <2>1
    <3> QED BY <1>4, <2>1, <2>2, <3>1
  <2>4. a = b
    BY <2>1, <2>2, <2>3, SeqEqual
  <2>5. FlattenSeq(b) = FlattenSeq(s) \o x
    BY <2>1, FlattenAppend
  <2> QED BY <2>4, <2>5 DEF Gathered, a, s
<1>5. Named(lines, key) = Gathered(lines, key, Len(lines))
  <2>1. Len(lines) \in Nat /\ DOMAIN lines = 1..Len(lines)
    BY LenProperties
  <2>2. Named(lines, key) = FlattenSeq(Tuple(Items(lines, key, Len(lines))))
    BY <2>1 DEF Named, Items, Item
  <2>3. Tuple(Items(lines, key, Len(lines))) = Items(lines, key, Len(lines))
    BY <1>1, <2>1, TupleIsSame
  <2> QED BY <2>2, <2>3 DEF Gathered
<1> QED BY <1>2, <1>3, <1>4, <1>5

(* Where there is no header nothing is gathered.                           *)
LEMMA GatheredStays ==
    ASSUME NEW lines \in Seq(Line), NEW key, NEW a \in Nat, NEW b \in Nat, a <= b,
           \A h \in (a + 1)..b : Item(lines, key, h) = <<>>
    PROVE  Gathered(lines, key, b) = Gathered(lines, key, a)
<1> DEFINE N == {i \in Nat : a + i <= b => Gathered(lines, key, a + i) = Gathered(lines, key, a)}
<1>1. 0 \in N
  <2>1. a + 0 = a
    OBVIOUS
  <2> QED BY <2>1
<1>2. ASSUME NEW i \in N \cap Nat PROVE i + 1 \in N
  <2> DEFINE c == a + i
             d == a + (i + 1)
  <2>1. c \in Nat /\ d \in Nat /\ d = c + 1 /\ i + 1 \in Nat
    OBVIOUS
  <2>2. d <= b => c <= b /\ d \in (a + 1)..b
    OBVIOUS
  <2>3. c <= b => Gathered(lines, key, c) = Gathered(lines, key, a)
    BY <1>2
  <2> HIDE DEF c, d
  <2>4. Gathered(lines, key, d) = Gathered(lines, key, c) \o Item(lines, key, d)
    BY <2>1, GatheredIs
  <2>5. Gathered(lines, key, c) \o <<>> = Gathered(lines, key, c)
    BY <2>1, GatheredIs, ConcatEmptySeq
  <2>6. d <= b => Gathered(lines, key, d) = Gathered(lines, key, a)
    BY <2>2, <2>3, <2>4, <2>5
  <2> QED BY <2>1, <2>6 DEF d
<1> HIDE DEF N
<1>3. Nat \subseteq N
  BY <1>1, <1>2, Induct
<1>4. b - a \in Nat /\ a + (b - a) = b
  OBVIOUS
<1>5. b - a \in N
  BY <1>3, <1>4
<1> QED BY <1>4, <1>5 DEF N

LEMMA GatheredSame ==
    ASSUME NEW lines \in Seq(Line), NEW t \in Seq(Line), NEW key, NEW m,
           \A h \in 1..m : Item(t, key, h) = Item(lines, key, h)
    PROVE  Gathered(t, key, m) = Gathered(lines, key, m)
BY DEF Gathered, Items

-----------------------------------------------------------------------------
(* What parsing has made of the lines so far is what the lines say.        *)
SaysIn(entries, key) == IF key \in DOMAIN entries THEN {entries[key]} ELSE {}
HeaderNames(lines) == {lines[h].key : h \in {i \in DOMAIN lines : lines[i].is = "header"}}
Continuable(lines) == Len(lines) # 0 /\ lines[Len(lines)].is \in {"entry", "more"}
LastIs(lines, secs) ==
    \A front \in Seq(Sec), s \in Sec : secs = Append(front, s) =>
        /\ s.name = lines[LastHeader(lines)].key
        /\ \A key : SaysIn(s.entries, key) = Under(lines, LastHeader(lines), key)
        /\ \A key : Includes(front, key) = Gathered(lines, key, LastHeader(lines) - 1)
Sections(lines, secs) ==
    /\ secs = <<>> <=> LastHeader(lines) = 0
    /\ \A sec, key : Says(MergeFile(secs), sec, key) = Own(lines, sec, key)
    /\ DOMAIN MergeFile(secs) = HeaderNames(lines)
    /\ LastIs(lines, secs)
ReadAs(lines, st) ==
    /\ st.open <=> Continuable(lines)
    /\ st.open => \E e : OpenAt(lines, e) /\ lines[e].key = st.key
    /\ Sections(lines, st.secs)

LEMMA ItemSame ==
    ASSUME NEW lines \in Seq(Line), NEW t \in Seq(Line), NEW key, NEW h,
           h \in Headers(t, "INCLUDES") <=> h \in Headers(lines, "INCLUDES"),
           Under(t, h, key) = Under(lines, h, key)
    PROVE  Item(t, key, h) = Item(lines, key, h)
<1>1. Under(lines, h, key) = {} \/ \E v : Under(lines, h, key) = {v}
  BY DEF Under, LastValue
<1>2. CASE Under(lines, h, key) = {}
  BY <1>2, ItemIs
<1>3. CASE \E v : Under(lines, h, key) = {v}
  <2>1. PICK v : Under(lines, h, key) = {v}
    BY <1>3
  <2>2. CASE h \in Headers(lines, "INCLUDES")
    BY <2>1, <2>2, ItemIs
  <2>3. CASE h \notin Headers(lines, "INCLUDES")
    BY <2>3, ItemIs
  <2> QED BY <2>2, <2>3
<1> QED BY <1>1, <1>2, <1>3

LEMMA IncIsItem ==
    ASSUME NEW lines \in Seq(Line), NEW s \in Sec, NEW h, NEW key,
           s.name = "INCLUDES" <=> h \in Headers(lines, "INCLUDES"),
           SaysIn(s.entries, key) = Under(lines, h, key)
    PROVE  Inc(s, key) = Item(lines, key, h)
<1>1. CASE key \in DOMAIN s.entries
  <2>1. Under(lines, h, key) = {s.entries[key]}
    BY <1>1 DEF SaysIn
  <2> QED BY <1>1, <2>1, ItemIs DEF Inc
<1>2. CASE key \notin DOMAIN s.entries
  <2>1. Under(lines, h, key) = {}
    BY <1>2 DEF SaysIn
  <2> QED BY <1>2, <2>1, ItemIs DEF Inc
<1> QED BY <1>1, <1>2

LEMMA IncludesGathered ==
    ASSUME NEW lines \in Seq(Line), NEW secs \in Seq(Sec), Sections(lines, secs), NEW key
    PROVE  Includes(secs, key) = Gathered(lines, key, Len(lines))
<1> DEFINE h == LastHeader(lines)
           n == Len(lines)
<1>1. /\ n \in Nat /\ h \in 0..n /\ DOMAIN lines = 1..n
      /\ h # 0 => (h \in Headers(lines, "INCLUDES") <=> lines[h].key = "INCLUDES")
      /\ \A k \in 1..n : lines[k].is = "header" => k <= h
  BY LastHeaderIs, LenProperties
<1>2. secs = <<>> <=> h = 0
  BY DEF Sections
<1> HIDE DEF h, n
<1>3. \A k \in (h + 1)..n : Item(lines, key, k) = <<>>
  <2> SUFFICES ASSUME NEW k \in (h + 1)..n PROVE Item(lines, key, k) = <<>>
    OBVIOUS
  <2>1. k \in 1..n /\ ~(k <= h)
    BY <1>1
  <2>2. k \notin Headers(lines, "INCLUDES")
    BY <1>1, <2>1 DEF Headers
  <2> QED BY <2>2, ItemIs
<1>4. Gathered(lines, key, n) = Gathered(lines, key, h)
  BY <1>1, <1>3, GatheredStays
<1>5. CASE secs = <<>>
  BY <1>2, <1>4, <1>5, GatheredIs, IncludesAre DEF n
<1>6. CASE secs # <<>>
  <2>1. PICK front \in Seq(Sec), s \in Sec : secs = Append(front, s)
    BY <1>6, SequenceEmptyOrAppend
  <2>2. /\ s.name = lines[h].key
        /\ SaysIn(s.entries, key) = Under(lines, h, key)
        /\ Includes(front, key) = Gathered(lines, key, h - 1)
    BY <2>1 DEF Sections, LastIs, h
  <2>3. Includes(secs, key) = Includes(front, key) \o Inc(s, key)
    BY <2>1, IncludesAre
  <2>4. Inc(s, key) = Item(lines, key, h)
    BY <1>1, <1>2, <1>6, <2>2, IncIsItem
  <2> DEFINE i == h - 1
  <2>5. i \in Nat /\ h \in Nat /\ h = i + 1
    BY <1>1, <1>2, <1>6
  <2>6. Includes(front, key) = Gathered(lines, key, i)
    BY <2>2
  <2> HIDE DEF i
  <2>7. Gathered(lines, key, h) = Gathered(lines, key, i) \o Item(lines, key, h)
    BY <2>5, GatheredIs
  <2> QED BY <1>4, <2>3, <2>4, <2>6, <2>7 DEF n
<1> QED BY <1>5, <1>6

LEMMA HeaderNamesAdded ==
    ASSUME NEW lines, NEW l, NEW t, NEW n, Added(lines, l, t, n)
    PROVE  /\ l.is = "header" => HeaderNames(t) = HeaderNames(lines) \cup {l.key}
           /\ l.is # "header" => HeaderNames(t) = HeaderNames(lines)
<1>1. /\ n \in Nat /\ DOMAIN lines = 1..n /\ DOMAIN t = 1..(n + 1)
      /\ \A i \in 1..n : t[i] = lines[i]
      /\ t[n + 1] = l
      /\ \A i \in 1..(n + 1) : i \in 1..n \/ i = n + 1
      /\ 1..n \subseteq 1..(n + 1) /\ n + 1 \in 1..(n + 1)
  BY DEF Added
<1>2. \A x : x \in HeaderNames(t) <=> x \in HeaderNames(lines) \/ (l.is = "header" /\ x = l.key)
  BY <1>1 DEF HeaderNames
<1> QED BY <1>2

LEMMA AppendSame ==
    ASSUME NEW T, NEW a \in Seq(T), NEW b \in Seq(T), NEW x \in T, NEW y \in T,
           Append(a, x) = Append(b, y)
    PROVE  a = b /\ x = y
<1>1. /\ Len(Append(a, x)) = Len(a) + 1 /\ Len(Append(b, y)) = Len(b) + 1
      /\ Len(a) \in Nat /\ Len(b) \in Nat
      /\ \A i \in 1..Len(a) : Append(a, x)[i] = a[i]
      /\ \A i \in 1..Len(b) : Append(b, y)[i] = b[i]
      /\ Append(a, x)[Len(a) + 1] = x /\ Append(b, y)[Len(b) + 1] = y
  BY AppendProperties, LenProperties
<1>2. Len(a) = Len(b) /\ x = y
  BY <1>1
<1>3. \A i \in 1..Len(a) : a[i] = b[i]
  BY <1>1, <1>2
<1> QED BY <1>2, <1>3, SeqEqual

(* A line that opens a section.                                            *)
LEMMA HeaderSections ==
    ASSUME NEW lines \in Seq(Line), NEW l \in Line, NEW t, NEW n, Added(lines, l, t, n),
           l.is = "header", NEW secs \in Seq(Sec), Sections(lines, secs)
    PROVE  Sections(t, Append(secs, [name |-> l.key, entries |-> <<>>]))
<1>a. \A sc, key : Own(t, sc, key) = Own(lines, sc, key)
  BY HeaderChangesNothing
<1>b. \A key : Under(t, Len(t), key) = {}
  BY HeaderChangesNothing
<1>c. \A key, h : Under(t, h, key) = Under(lines, h, key)
  BY HeaderChangesNothing
<1> DEFINE sec == [name |-> l.key, entries |-> <<>>]
           new == Append(secs, sec)
<1>0. /\ lines \in Seq(Line) /\ l \in Line /\ Added(lines, l, t, n)
      /\ t \in Seq(Line) /\ n \in Nat /\ Len(lines) = n /\ Len(t) = n + 1 /\ t[n + 1] = l
      /\ l.is = "header"
  BY DEF Added
<1>1. sec \in Sec /\ sec.name = l.key /\ \A key : key \notin DOMAIN sec.entries
  BY LineKinds, EmptyIsDoc DEF Sec
<1>2. \A key : Under(t, n + 1, key) = {}
  <2>1. Len(t) = n + 1
    BY <1>0
  <2> HIDE DEF sec, new
  <2> QED BY <1>b, <2>1, Zenon
<1>3. LastHeader(t) = n + 1
  BY <1>0, HeaderBeforeAdded
<1> HIDE DEF sec
<1>4. new # <<>>
  BY <1>1, AppendProperties
<1>5. ASSUME NEW sc, NEW key PROVE Says(MergeFile(new), sc, key) = Own(t, sc, key)
  <2>1. Says(MergeFile(new), sc, key) = Says(MergeFile(secs), sc, key)
    BY <1>1, SaysOfFile
  <2> QED BY <1>a, <2>1 DEF Sections
<1>6. DOMAIN MergeFile(new) = HeaderNames(t)
  <2>1. DOMAIN MergeFile(new) = DOMAIN MergeFile(secs) \cup {sec.name}
    BY <1>1, DomainOfFile
  <2>2. HeaderNames(t) = HeaderNames(lines) \cup {l.key}
    BY <1>0, HeaderNamesAdded
  <2> QED BY <1>1, <2>1, <2>2 DEF Sections
<1>7. LastIs(t, new)
  <2> SUFFICES ASSUME NEW front \in Seq(Sec), NEW s \in Sec, new = Append(front, s)
               PROVE  /\ s.name = t[n + 1].key
                      /\ \A key : SaysIn(s.entries, key) = Under(t, n + 1, key)
                      /\ \A key : Includes(front, key) = Gathered(t, key, (n + 1) - 1)
    BY <1>3 DEF LastIs
  <2>1. front = secs /\ s = sec
    BY <1>1, AppendSame
  <2>2. \A key : SaysIn(s.entries, key) = {}
    BY <1>1, <2>1 DEF SaysIn
  <2>3. ASSUME NEW key PROVE Includes(secs, key) = Gathered(t, key, n)
    <3>1. Includes(secs, key) = Gathered(lines, key, n)
      BY <1>0, IncludesGathered
    <3>2. ASSUME NEW h \in 1..n PROVE Item(t, key, h) = Item(lines, key, h)
      <4>1. h # n + 1
        BY <1>0
      <4>2. h \in Headers(t, "INCLUDES") <=> h \in Headers(lines, "INCLUDES")
        BY <1>0, <4>1, HeadersAdded
      <4> QED BY <1>0, <1>c, <4>2, ItemSame
    <3>3. Gathered(t, key, n) = Gathered(lines, key, n)
      BY <1>0, <3>2, GatheredSame
    <3> QED BY <3>1, <3>3
  <2>4. (n + 1) - 1 = n
    BY <1>0
  <2> QED BY <1>0, <1>1, <1>2, <2>1, <2>2, <2>3, <2>4
<1>8. LastHeader(t) # 0
  BY <1>0, <1>3
<1> QED BY <1>4, <1>5, <1>6, <1>7, <1>8 DEF Sections, sec

(* A line that sets a key in the section that is open.                     *)
SetsOne(lines, t, last, k, v) ==
    /\ LastHeader(t) = last /\ LastHeader(lines) = last /\ last \in Nat /\ last # 0
    /\ t[last] = lines[last]
    /\ \A sec, key : Own(t, sec, key) = IF sec = lines[last].key /\ key = k
                                        THEN {v} ELSE Own(lines, sec, key)
    /\ \A h, key : Under(t, h, key) = IF h = last /\ key = k
                                      THEN {v} ELSE Under(lines, h, key)
    /\ \A h : h \in Headers(t, "INCLUDES") <=> h \in Headers(lines, "INCLUDES")
    /\ HeaderNames(t) = HeaderNames(lines)

LEMMA EntrySections ==
    ASSUME NEW lines \in Seq(Line), NEW t \in Seq(Line), NEW last, NEW k \in STRING,
           NEW v \in Text, SetsOne(lines, t, last, k, v),
           NEW front \in Seq(Sec), NEW sec \in Sec, Sections(lines, Append(front, sec))
    PROVE  Sections(t, Append(front, With(sec, k, v)))
<1> DEFINE old == Append(front, sec)
           set == With(sec, k, v)
           new == Append(front, set)
<1>0. /\ LastHeader(t) = last /\ LastHeader(lines) = last /\ last \in Nat /\ last # 0
      /\ t[last] = lines[last] /\ HeaderNames(t) = HeaderNames(lines)
      /\ \A h : h \in Headers(t, "INCLUDES") <=> h \in Headers(lines, "INCLUDES")
  BY DEF SetsOne
<1>1. set \in Sec
  BY WithIsSec
<1>2. /\ set.name = sec.name /\ set.entries[k] = v
      /\ \A key : key \in DOMAIN set.entries <=> key = k \/ key \in DOMAIN sec.entries
      /\ \A key : key # k /\ key \in DOMAIN sec.entries => set.entries[key] = sec.entries[key]
  BY WithSays
<1>3. \A sc, key : Says(MergeFile(new), sc, key)
                   = IF sc = sec.name /\ key = k THEN {v} ELSE Says(MergeFile(old), sc, key)
  BY SaysOfFileWith
<1> HIDE DEF set
<1>4. /\ sec.name = lines[last].key
      /\ \A key : SaysIn(sec.entries, key) = Under(lines, last, key)
      /\ \A key : Includes(front, key) = Gathered(lines, key, last - 1)
  BY <1>0 DEF Sections, LastIs
<1>5. ASSUME NEW sc, NEW key PROVE Says(MergeFile(new), sc, key) = Own(t, sc, key)
  <2>1. Says(MergeFile(old), sc, key) = Own(lines, sc, key)
    BY DEF Sections
  <2>2. Own(t, sc, key) = IF sc = lines[last].key /\ key = k THEN {v} ELSE Own(lines, sc, key)
    BY DEF SetsOne
  <2> QED BY <1>3, <1>4, <2>1, <2>2
<1>6. DOMAIN MergeFile(new) = HeaderNames(t)
  <2>1. /\ DOMAIN MergeFile(new) = DOMAIN MergeFile(front) \cup {set.name}
        /\ DOMAIN MergeFile(old) = DOMAIN MergeFile(front) \cup {sec.name}
    BY <1>1, DomainOfFile
  <2>2. DOMAIN MergeFile(old) = HeaderNames(lines)
    BY DEF Sections
  <2> QED BY <1>0, <1>2, <2>1, <2>2
<1>7. new # <<>>
  BY <1>1, AppendProperties
<1>8. LastIs(t, new)
  <2> SUFFICES ASSUME NEW f \in Seq(Sec), NEW s \in Sec, new = Append(f, s)
               PROVE  /\ s.name = t[last].key
                      /\ \A key : SaysIn(s.entries, key) = Under(t, last, key)
                      /\ \A key : Includes(f, key) = Gathered(t, key, last - 1)
    BY <1>0 DEF LastIs
  <2>1. f = front /\ s = set
    BY <1>1, AppendSame
  <2>2. ASSUME NEW key PROVE SaysIn(set.entries, key) = Under(t, last, key)
    <3>1. SaysIn(set.entries, key) = IF key = k THEN {v} ELSE SaysIn(sec.entries, key)
      BY <1>2 DEF SaysIn
    <3>2. Under(t, last, key) = IF last = last /\ key = k THEN {v} ELSE Under(lines, last, key)
      BY DEF SetsOne
    <3>3. SaysIn(sec.entries, key) = Under(lines, last, key)
      BY <1>4
    <3> QED BY <3>1, <3>2, <3>3
  <2>3. ASSUME NEW key PROVE Includes(front, key) = Gathered(t, key, last - 1)
    <3>1. ASSUME NEW h \in 1..(last - 1) PROVE Item(t, key, h) = Item(lines, key, h)
      <4>1. h # last
        BY <1>0
      <4>2. Under(t, h, key) = IF h = last /\ key = k THEN {v} ELSE Under(lines, h, key)
        BY DEF SetsOne
      <4>3. h \in Headers(t, "INCLUDES") <=> h \in Headers(lines, "INCLUDES")
        BY <1>0
      <4> QED BY <4>1, <4>2, <4>3, ItemSame
    <3>2. Gathered(t, key, last - 1) = Gathered(lines, key, last - 1)
      BY <3>1, GatheredSame
    <3> QED BY <1>4, <3>2
  <2>4. set.name = t[last].key
    BY <1>0, <1>2, <1>4
  <2>5. s.name = t[last].key
    BY <2>1, <2>4
  <2>6. \A key : SaysIn(s.entries, key) = Under(t, last, key)
    BY <2>1, <2>2
  <2>7. \A key : Includes(f, key) = Gathered(t, key, last - 1)
    BY <2>1, <2>3
  <2> QED BY <2>5, <2>6, <2>7
<1> QED BY <1>0, <1>5, <1>6, <1>7, <1>8 DEF Sections, set

LEMMA HeaderReads ==
    ASSUME NEW lines \in Seq(Line), NEW l \in Line, NEW t, NEW n, Added(lines, l, t, n),
           NEW st \in State, ReadAs(lines, st), l.is = "header"
    PROVE  ReadAs(t, ParseLine(st, l))
<1> DEFINE new == [ok |-> st.ok, secs |-> Append(st.secs, [name |-> l.key, entries |-> <<>>]),
                   open |-> FALSE, key |-> st.key]
<1>1. ParseLine(st, l) = new
  BY HeaderIs
<1>2. Sections(t, new.secs)
  BY HeaderSections DEF ReadAs, State
<1>3. ~Continuable(t)
  BY DEF Continuable, Added
<1> QED BY <1>1, <1>2, <1>3 DEF ReadAs

LEMMA EntryReads ==
    ASSUME NEW lines \in Seq(Line), NEW l \in Line, NEW t, NEW n, Added(lines, l, t, n),
           NEW st \in State, ReadAs(lines, st), l.is = "entry", st.secs # <<>>
    PROVE  ReadAs(t, ParseLine(st, l))
<1> DEFINE last == LastHeader(lines)
<1>0. /\ lines \in Seq(Line) /\ l \in Line /\ Added(lines, l, t, n)
      /\ t \in Seq(Line) /\ n \in Nat /\ Len(lines) = n /\ Len(t) = n + 1 /\ t[n + 1] = l
      /\ l.is = "entry" /\ \A i \in 1..n : t[i] = lines[i]
  BY DEF Added
<1>1. PICK front \in Seq(Sec), sec \in Sec : st.secs = Append(front, sec)
  BY SequenceEmptyOrAppend DEF State
<1> DEFINE new == [ok |-> st.ok, secs |-> Append(front, With(sec, l.key, l.value)),
                   open |-> TRUE, key |-> l.key]
<1>2. ParseLine(st, l) = new /\ l.key \in STRING /\ l.value \in Text
  BY <1>1, EntryIs, LineKinds
<1>3. Sections(lines, Append(front, sec))
  BY <1>1 DEF ReadAs
<1>4. last # 0 /\ last \in 0..n /\ last = LastHeader(lines)
  BY <1>0, LastHeaderIs DEF ReadAs, Sections
<1>5. LastHeader(t) = last
  BY <1>0, HeaderBeforeAdded
<1> HIDE DEF last
<1>6. SetsOne(lines, t, last, l.key, l.value)
  <2>1. ASSUME NEW sc, NEW key
        PROVE  /\ Own(t, sc, key) = IF sc = lines[last].key /\ key = l.key
                                    THEN {l.value} ELSE Own(lines, sc, key)
               /\ \A h : Under(t, h, key) = IF h = last /\ key = l.key
                                            THEN {l.value} ELSE Under(lines, h, key)
    <3>1. Own(t, sc, key) = IF sc = lines[last].key /\ key = l.key
                            THEN {l.value} ELSE Own(lines, sc, key)
      BY <1>0, <1>4, EntrySetsOne
    <3>2. ASSUME NEW h
          PROVE  Under(t, h, key) = IF h = last /\ key = l.key
                                    THEN {l.value} ELSE Under(lines, h, key)
      BY <1>0, <1>4, EntrySetsOne
    <3> QED BY <3>1, <3>2
  <2>2. \A h : h \in Headers(t, "INCLUDES") <=> h \in Headers(lines, "INCLUDES")
    BY <1>0, HeadersAdded
  <2>3. HeaderNames(t) = HeaderNames(lines)
    BY <1>0, HeaderNamesAdded
  <2>4. last \in Nat /\ t[last] = lines[last]
    BY <1>0, <1>4
  <2> QED BY <1>4, <1>5, <2>1, <2>2, <2>3, <2>4 DEF SetsOne
<1>7. Sections(t, new.secs)
  BY <1>0, <1>2, <1>3, <1>6, EntrySections
<1>8. OpenAt(t, n + 1) /\ t[n + 1].key = l.key
  BY <1>0, ContinuedToAdded DEF OpenAt
<1>9. Continuable(t)
  BY <1>0 DEF Continuable
<1> QED BY <1>2, <1>7, <1>8, <1>9 DEF ReadAs

LEMMA MoreReads ==
    ASSUME NEW lines \in Seq(Line), NEW l \in Line, NEW t, NEW n, Added(lines, l, t, n),
           NEW st \in State, ReadAs(lines, st), l.is = "more", st.open
    PROVE  ReadAs(t, ParseLine(st, l))
<1> DEFINE last == LastHeader(lines)
<1>0. /\ lines \in Seq(Line) /\ l \in Line /\ Added(lines, l, t, n)
      /\ t \in Seq(Line) /\ n \in Nat /\ Len(lines) = n /\ Len(t) = n + 1 /\ t[n + 1] = l
      /\ l.is = "more" /\ \A i \in 1..n : t[i] = lines[i]
  BY DEF Added
<1>1. PICK front \in Seq(Sec), sec \in Sec : st.secs = Append(front, sec)
  BY SequenceEmptyOrAppend DEF State
<1>2. PICK e : OpenAt(lines, e) /\ lines[e].key = st.key
  BY DEF ReadAs
<1> DEFINE old == sec.entries[st.key]
           v == old \o l.value
           new == [ok |-> st.ok, secs |-> Append(front, With(sec, st.key, v)),
                   open |-> TRUE, key |-> st.key]
<1>3. /\ ParseLine(st, l) = new /\ v \in Text /\ st.key \in DOMAIN sec.entries
      /\ st.key \in STRING
  <2>1. ParseLine(st, l) = new /\ v \in Text /\ st.key \in DOMAIN sec.entries
    BY <1>0, <1>1, MoreIs
  <2> HIDE DEF v
  <2>2. st.key \in STRING
    BY <2>1, MapIs DEF Sec
  <2> QED BY <2>1, <2>2
<1> HIDE DEF old
<1>4. Sections(lines, Append(front, sec))
  BY <1>1 DEF ReadAs
<1>5. last # 0 /\ last \in 0..n /\ last = LastHeader(lines)
  BY <1>0, LastHeaderIs DEF ReadAs, Sections, State
<1>6. LastHeader(t) = last
  BY <1>0, HeaderBeforeAdded
<1> HIDE DEF last
<1>7. /\ OneSet(lines, t, last, lines[e].key, Value(lines, e) \o l.value)
      /\ Under(lines, last, lines[e].key) = {Value(lines, e)}
  <2>1. LastHeader(lines) # 0 /\ OpenAt(lines, e)
    BY <1>2, <1>5
  <2>2. /\ OneSet(lines, t, LastHeader(lines), lines[e].key, Value(lines, e) \o l.value)
        /\ Under(lines, LastHeader(lines), lines[e].key) = {Value(lines, e)}
    BY <1>0, <2>1, MoreLengthensOne
  <2> QED BY <1>5, <2>2
<1>8. Value(lines, e) = old
  <2>1. SaysIn(sec.entries, st.key) = {old}
    BY <1>3 DEF SaysIn, old
  <2>2. SaysIn(sec.entries, st.key) = Under(lines, last, st.key)
    BY <1>4, <1>5 DEF Sections, LastIs
  <2>3. Under(lines, last, st.key) = {Value(lines, e)}
    BY <1>2, <1>7
  <2> QED BY <2>1, <2>2, <2>3
<1>9. SetsOne(lines, t, last, st.key, v)
  <2>1. OneSet(lines, t, last, st.key, v)
    BY <1>2, <1>7, <1>8
  <2>3. \A h : h \in Headers(t, "INCLUDES") <=> h \in Headers(lines, "INCLUDES")
    BY <1>0, HeadersAdded
  <2>4. HeaderNames(t) = HeaderNames(lines)
    BY <1>0, HeaderNamesAdded
  <2>5. last \in Nat /\ t[last] = lines[last]
    BY <1>0, <1>5
  <2> HIDE DEF v
  <2> QED BY <1>5, <1>6, <2>1, <2>3, <2>4, <2>5 DEF SetsOne, OneSet
<1>10. Sections(t, new.secs)
  <2> HIDE DEF v
  <2>1. Sections(t, Append(front, With(sec, st.key, v)))
    BY <1>0, <1>3, <1>4, <1>9, EntrySections
  <2> QED BY <2>1
<1>11. OpenAt(t, e) /\ t[e].key = st.key
  <2>1. e \in 1..n /\ lines[e].is = "entry" /\ ContinuedTo(lines, e) = n
    BY <1>0, <1>2 DEF OpenAt
  <2>2. ContinuedTo(t, e) = IF Extends(lines, l, e) THEN n + 1 ELSE ContinuedTo(lines, e)
    BY <1>0, <2>1, ContinuedToAdded
  <2>3. Extends(lines, l, e)
    BY <1>0, <2>1 DEF Extends
  <2>4. e \in 1..(n + 1) /\ t[e] = lines[e]
    BY <1>0, <2>1
  <2> QED BY <1>0, <1>2, <2>1, <2>2, <2>3, <2>4 DEF OpenAt
<1>12. Continuable(t)
  BY <1>0 DEF Continuable
<1> HIDE DEF v
<1> QED BY <1>3, <1>10, <1>11, <1>12 DEF ReadAs

LEMMA BrokenAdded ==
    ASSUME NEW lines, NEW l, NEW t, NEW n, Added(lines, l, t, n)
    PROVE  Broken(t) <=> \/ Broken(lines)
                         \/ l.is = "junk"
                         \/ l.is = "entry" /\ LastHeader(lines) = 0
                         \/ l.is = "more" /\ ~Continuable(lines)
<1> DEFINE At(f, i) == \/ f[i].is = "junk"
                       \/ f[i].is = "entry" /\ HeaderBefore(f, i) = 0
                       \/ f[i].is = "more"
                          /\ (i = 1 \/ f[i - 1].is \notin {"entry", "more"})
           N == n + 1
<1>1. /\ n \in Nat /\ N \in Nat /\ DOMAIN lines = 1..n /\ DOMAIN t = 1..N /\ Len(lines) = n
      /\ \A i \in 1..n : t[i] = lines[i]
      /\ t[N] = l
      /\ \A i \in 1..N : i \in 1..n \/ i = N
      /\ \A i \in 1..n : i \in 1..N
      /\ N \in 1..N /\ N - 1 = n
  BY DEF Added
<1>2. \A i \in 1..N : HeaderBefore(t, i) = HeaderBefore(lines, i)
  BY HeaderBeforeAdded
<1>3. LastHeader(lines) = HeaderBefore(lines, N)
  BY <1>1 DEF LastHeader
<1> HIDE DEF N
<1>4. ASSUME NEW i \in 1..n PROVE At(t, i) <=> At(lines, i)
  <2>1. i # 1 => i - 1 \in 1..n
    BY <1>1
  <2> QED BY <1>1, <1>2, <2>1
<1>5. At(t, N) <=> \/ l.is = "junk"
                   \/ l.is = "entry" /\ LastHeader(lines) = 0
                   \/ l.is = "more" /\ ~Continuable(lines)
  <2>1. Continuable(lines) <=> n # 0 /\ lines[n].is \in {"entry", "more"}
    BY <1>1 DEF Continuable
  <2>2. n # 0 => t[n] = lines[n]
    BY <1>1
  <2>3. N = 1 <=> n = 0
    BY <1>1
  <2> QED BY <1>1, <1>2, <1>3, <2>1, <2>2, <2>3
<1>6. /\ Broken(t) <=> \E i \in 1..N : At(t, i)
      /\ Broken(lines) <=> \E i \in 1..n : At(lines, i)
  BY <1>1 DEF Broken
<1> HIDE DEF At
<1> QED BY <1>1, <1>4, <1>5, <1>6

LEMMA NothingReads == ~Broken(<<>>) /\ ReadAs(<<>>, Start)
<1>1. <<>> \in Seq(Line) /\ Len(<<>>) = 0 /\ DOMAIN <<>> = {}
  BY EmptySeq, EmptyIsDoc
<1>2. LastHeader(<<>>) = 0
  <2>1. LastHeader(<<>>) \in 0..Len(<<>>)
    BY <1>1, LastHeaderIs
  <2> QED BY <1>1, <2>1
<1>3. \A sec, key : Own(<<>>, sec, key) = {}
  <2>1. \A sec : Headers(<<>>, sec) = {}
    BY <1>1 DEF Headers
  <2> QED BY <2>1 DEF Own, LastValue
<1>4. \A sec, key : Says(MergeFile(<<>>), sec, key) = {}
  BY MergeFileIs, SaysNothing
<1>5. DOMAIN MergeFile(<<>>) = {} /\ HeaderNames(<<>>) = {}
  BY <1>1, MergeFileIs DEF HeaderNames
<1>6. LastIs(<<>>, <<>>)
  <2>1. \A front \in Seq(Sec), s \in Sec : Append(front, s) # <<>>
    BY AppendProperties
  <2> QED BY <2>1 DEF LastIs
<1>7. Sections(<<>>, <<>>)
  BY <1>2, <1>3, <1>4, <1>5, <1>6 DEF Sections
<1>8. ~Continuable(<<>>) /\ ~Broken(<<>>)
  BY <1>1 DEF Continuable, Broken
<1>9. Start.secs = <<>> /\ ~Start.open
  BY DEF Start
<1> QED BY <1>7, <1>8, <1>9 DEF ReadAs

(* A file is broken for cause, and what is made of it is what it says.     *)
LEMMA FileReads ==
    ASSUME NEW lines \in Seq(Line)
    PROVE  /\ Parse(lines) \in State
           /\ Parse(lines).ok <=> ~Broken(lines)
           /\ Parse(lines).ok => ReadAs(lines, Parse(lines))
<1> DEFINE S == {s \in Seq(Line) : /\ Parse(s).ok <=> ~Broken(s)
                                   /\ Parse(s).ok => ReadAs(s, Parse(s))}
<1>1. <<>> \in S
  <2>1. <<>> \in Seq(Line) /\ Parse(<<>>) = Start
    BY EmptySeq, ParseGrows
  <2>2. Start.ok
    BY DEF Start
  <2> QED BY <2>1, <2>2, NothingReads
<1>2. ASSUME NEW s \in Seq(Line) \cap S, NEW l \in Line PROVE Append(s, l) \in S
  <2> DEFINE t == Append(s, l)
             n == Len(s)
             st == Parse(s)
  <2>1. /\ Added(s, l, t, n) /\ t \in Seq(Line) /\ st \in State
        /\ Parse(t) = ParseLine(st, l)
    BY LineAdded, ParseGrows DEF Added
  <2>2. /\ st.ok <=> ~Broken(s)
        /\ st.ok => ReadAs(s, st)
    BY <1>2
  <2> HIDE DEF t, n, st, S
  <2>3. ParseLine(st, l).ok <=> st.ok /\ ~Misplaced(st, l)
    BY <2>1, ParseLineIsState
  <2>4. st.ok => (Misplaced(st, l) <=> \/ l.is = "junk"
                                       \/ l.is = "entry" /\ LastHeader(s) = 0
                                       \/ l.is = "more" /\ ~Continuable(s))
    BY <2>2 DEF Misplaced, ReadAs, Sections
  <2>5. Broken(t) <=> \/ Broken(s)
                      \/ l.is = "junk"
                      \/ l.is = "entry" /\ LastHeader(s) = 0
                      \/ l.is = "more" /\ ~Continuable(s)
    BY <2>1, BrokenAdded
  <2>6. ParseLine(st, l).ok <=> ~Broken(t)
    BY <2>2, <2>3, <2>4, <2>5
  <2>7. ASSUME ParseLine(st, l).ok PROVE ReadAs(t, ParseLine(st, l))
    <3>1. ReadAs(s, st) /\ ~Misplaced(st, l)
      BY <2>2, <2>3, <2>7
    <3>2. s \in Seq(Line) /\ l \in Line
      BY <1>2
    <3>3. CASE l.is = "header"
      BY <2>1, <3>1, <3>2, <3>3, HeaderReads
    <3>4. CASE l.is = "entry" /\ st.secs # <<>>
      BY <2>1, <3>1, <3>2, <3>4, EntryReads
    <3>5. CASE l.is = "more" /\ st.open
      BY <2>1, <3>1, <3>2, <3>5, MoreReads
    <3> QED BY <3>1, <3>3, <3>4, <3>5, LineKinds DEF Misplaced
  <2> QED BY <2>1, <2>6, <2>7 DEF S, t
<1> HIDE DEF S
<1>3. Seq(Line) \subseteq S
  BY <1>1, <1>2, SeqInduct
<1> QED BY <1>3, ParseGrows DEF S

LEMMA FileSays ==
    ASSUME NEW lines \in Seq(Line), Parse(lines).ok
    PROVE  /\ Parse(lines).secs \in Seq(Sec) /\ ~Broken(lines)
           /\ \A sec, key : Says(MergeFile(Parse(lines).secs), sec, key) = Own(lines, sec, key)
           /\ DOMAIN MergeFile(Parse(lines).secs) = HeaderNames(lines)
           /\ \A key : Includes(Parse(lines).secs, key) = Named(lines, key)
           /\ MergeFile(Parse(lines).secs) \in Docs
<1>1. /\ Parse(lines).secs \in Seq(Sec) /\ ~Broken(lines)
      /\ Sections(lines, Parse(lines).secs)
  BY FileReads DEF ReadAs, State
<1>2. ASSUME NEW key PROVE Includes(Parse(lines).secs, key) = Named(lines, key)
  <2>1. Includes(Parse(lines).secs, key) = Gathered(lines, key, Len(lines))
    BY <1>1, IncludesGathered
  <2> QED BY <2>1, GatheredIs
<1>3. MergeFile(Parse(lines).secs) \in Docs
  BY <1>1, MergeFileIs
<1> QED BY <1>1, <1>2, <1>3 DEF Sections

-----------------------------------------------------------------------------
(* Recursion that goes down a measure: if what step makes of a function at *)
(* a point depends on smaller points only, step has a fixpoint.            *)
Local(step, G, X, m) ==
    \A g, h \in G : \A x \in X :
        (\A y \in X : m[y] < m[x] => g[y] = h[y]) => step[g][x] = step[h][x]

Measured(step, X, V, g0, n, m) ==
    /\ step \in [[X -> V] -> [X -> V]] /\ g0 \in [X -> V]
    /\ n \in Nat /\ m \in [X -> 0..n]
    /\ Local(step, [X -> V], X, m)
HasFixpoint(step, X, V) == \E g \in [X -> V] : g = step[g]

LEMMA Fixpoint ==
    ASSUME NEW X, NEW V, NEW step, NEW g0, NEW n, NEW m, Measured(step, X, V, g0, n, m)
    PROVE  HasFixpoint(step, X, V)
<1>0. /\ step \in [[X -> V] -> [X -> V]] /\ g0 \in [X -> V]
      /\ n \in Nat /\ m \in [X -> 0..n]
      /\ Local(step, [X -> V], X, m)
  BY DEF Measured
<1> DEFINE G == [X -> V]
           steps == [i \in Nat |-> step]
           b == n + 1
           c == n + 2
<1>1. /\ g0 \in G /\ steps \in [Nat -> [G -> G]] /\ step \in [G -> G]
      /\ b \in Nat /\ c \in Nat /\ c = b + 1 /\ Local(step, G, X, m)
      /\ \A x \in X : m[x] \in Nat /\ m[x] < b
  BY <1>0
<1>2. \A g, h \in G : (\A x \in X : g[x] = h[x]) => g = h
  OBVIOUS
<1> HIDE DEF G, b, c
<1>3. PICK h : Runs(h, G, g0, steps, c)
  BY <1>1, Recursion
<1>4. /\ \A i \in 0..c : h[i] \in G
      /\ \A i, k \in 0..c : k = i + 1 => h[k] = step[h[i]]
  <2>1. ASSUME NEW i \in 0..c, NEW k \in 0..c, k = i + 1 PROVE h[k] = step[h[i]]
    <3>1. k \in 1..c /\ k - 1 = i /\ k \in Nat
      BY <1>1, <2>1
    <3>2. h[k] = steps[k][h[k - 1]]
      BY <1>3, <3>1 DEF Runs
    <3> QED BY <3>1, <3>2
  <2> QED BY <1>3, <2>1 DEF Runs
<1> DEFINE S == {i \in 0..b : \A k \in 0..c : k = i + 1 =>
                    \A x \in X : m[x] < i => h[k][x] = h[i][x]}
<1>5. 0 \in S
  BY <1>1
<1>6. ASSUME NEW i \in 0..b, NEW k \in 0..b, k = i + 1, i \in S PROVE k \in S
  <2> SUFFICES ASSUME NEW l \in 0..c, l = k + 1, NEW x \in X, m[x] < k
               PROVE  h[l][x] = h[k][x]
    OBVIOUS
  <2>1. i \in 0..c /\ k \in 0..c
    BY <1>1
  <2>2. h[k] = step[h[i]] /\ h[l] = step[h[k]] /\ h[i] \in G /\ h[k] \in G
    BY <1>4, <1>6, <2>1
  <2>3. \A y \in X : m[y] < m[x] => h[k][y] = h[i][y]
    BY <1>1, <1>6, <2>1
  <2>4. step[h[k]][x] = step[h[i]][x]
    BY <1>1, <2>2, <2>3 DEF Local
  <2> QED BY <2>2, <2>4
<1> HIDE DEF S
<1>7. \A i \in 0..b : i \in S
  BY <1>1, <1>5, <1>6, InductUpTo
<1>8. b \in 0..b /\ b \in 0..c /\ c \in 0..c
  BY <1>1
<1>9. \A x \in X : h[c][x] = h[b][x]
  BY <1>1, <1>7, <1>8 DEF S
<1>10. h[b] = step[h[b]] /\ h[b] \in G
  BY <1>1, <1>2, <1>4, <1>8, <1>9
<1> QED BY <1>10 DEF G, HasFixpoint

(* And what holds of a point if it holds of all smaller ones holds of all. *)
LEMMA MeasureInduct ==
    ASSUME NEW X, NEW m, \A x \in X : m[x] \in Nat, NEW S,
           \A x \in X : (\A y \in X : m[y] < m[x] => y \in S) => x \in S
    PROVE  \A x \in X : x \in S
<1> SUFFICES ASSUME NEW z \in X, z \notin S PROVE FALSE
  OBVIOUS
<1> DEFINE M == {m[x] : x \in {y \in X : y \notin S}}
<1>1. M \in SUBSET Nat /\ M # {}
  OBVIOUS
<1>2. \E k \in M : \A j \in M : k <= j
  BY <1>1, HasLeast
<1>3. PICK x \in X : x \notin S /\ \A y \in X : y \notin S => m[x] <= m[y]
  BY <1>2
<1>4. \A y \in X : m[y] < m[x] => y \in S
  BY <1>3
<1> QED BY <1>3, <1>4

-----------------------------------------------------------------------------
(* Files that include one another.                                         *)
TreeOK(t) == IsFiniteSet(DOMAIN t) /\ \A p \in DOMAIN t : t[p] \in Seq(Line)

LEMMA IncludePathIs ==
    ASSUME NEW t, NEW name, NEW path
    PROVE  \/ IncludePath(t, name, path) = {}
           \/ \E q \in DOMAIN t : IncludePath(t, name, path) = {q}
<1> DEFINE dirs == [i \in DOMAIN SearchDirs |-> Path(SearchDirs[i], "", name)]
           c == <<[path EXCEPT !.name = name]>> \o dirs
           I == {i \in 1..Len(c) : c[i] \in DOMAIN t}
           k == SelectInSeq(c, LAMBDA p : p \in DOMAIN t)
<1>1. Len(c) \in Nat
  <2> DEFINE n == Len(SearchDirs)
             first == [path EXCEPT !.name = name]
             U == {first} \cup {Path(SearchDirs[i], "", name) : i \in 1..n}
  <2>1. n \in Nat /\ DOMAIN SearchDirs = 1..n
    BY TextAssumption, LenProperties
  <2>2. \A i \in 1..n : Path(SearchDirs[i], "", name) \in U
    OBVIOUS
  <2>3. first \in U
    OBVIOUS
  <2> HIDE DEF n, U, first
  <2>4. dirs \in [1..n -> U]
    BY <2>1, <2>2
  <2> HIDE DEF dirs
  <2>5. dirs \in Seq(U)
    BY <2>1, <2>4
  <2>6. <<first>> \in Seq(U)
    BY <2>3
  <2>7. <<first>> \o dirs \in Seq(U)
    BY <2>5, <2>6
  <2> QED BY <2>7, LenProperties DEF first
<1>2. k = IF I # {} THEN Min(I) ELSE 0
  BY DEF SelectInSeq
<1>3. IncludePath(t, name, path) = IF k = 0 THEN {} ELSE {c[k]}
  BY DEF IncludePath
<1> HIDE DEF c, k
<1>4. I # {} => Min(I) \in I
  <2>1. I \in SUBSET Nat
    BY <1>1
  <2> QED BY <2>1, MinIsLeast
<1> QED BY <1>1, <1>2, <1>3, <1>4

LEMMA SeenGrows ==
    ASSUME NEW D, IsFiniteSet(D), NEW seen \in SUBSET D, NEW p \in D, p \notin seen
    PROVE  /\ seen \cup {p} \in SUBSET D
           /\ Cardinality(D \ seen) \in Nat
           /\ Cardinality(D \ (seen \cup {p})) \in Nat
           /\ Cardinality(D \ (seen \cup {p})) < Cardinality(D \ seen)
<1> DEFINE R == D \ seen
<1>1. IsFiniteSet(R) /\ p \in R /\ D \ (seen \cup {p}) = R \ {p}
  BY FS_Subset
<1> HIDE DEF R
<1>2. /\ Cardinality(R) \in Nat /\ Cardinality(R \ {p}) = Cardinality(R) - 1
      /\ IsFiniteSet(R \ {p})
  BY <1>1, FS_CardinalityType, FS_RemoveElement
<1>3. Cardinality(R \ {p}) \in Nat
  BY <1>2, FS_CardinalityType
<1> QED BY <1>1, <1>2, <1>3 DEF R

(* Files merged: what is made of each is a result.                         *)
Res == [ok : BOOLEAN, doc : Docs]
DocFun == [r \in Res |-> r.doc]
SaysRes(sec, key) == [r \in Res |-> Says(r.doc, sec, key)]

LEMMA BadIsRes == Bad \in Res /\ ~Bad.ok /\ \A d \in Docs : Good(d) \in Res /\ Good(d).ok /\ Good(d).doc = d
BY EmptyIsDoc DEF Bad, Good, NoDoc, Res

Composed(T, f, g, h) == \A x \in T : f[x] = h[g[x]]

LEMMA EachTwice ==
    ASSUME NEW T, NEW s \in Seq(T), NEW f, NEW g, NEW h, Composed(T, f, g, h)
    PROVE  Each(Each(s, g), h) = Each(s, f)
<1> DEFINE e == Each(s, g)
           U == {g[s[i]] : i \in 1..Len(s)}
<1>1. e \in Seq(U)
  <2>1. Len(s) \in Nat /\ \A i \in 1..Len(s) : g[s[i]] \in U
    BY LenProperties
  <2> HIDE DEF U
  <2>2. [i \in 1..Len(s) |-> g[s[i]]] \in Seq(U)
    BY <2>1
  <2> QED BY <2>2, EachIs
<1>2. Len(e) = Len(s) /\ \A i \in 1..Len(s) : e[i] = g[s[i]]
  BY EachIs
<1> HIDE DEF e
<1>3. Each(e, h) = [i \in 1..Len(e) |-> h[e[i]]]
  BY <1>1, EachIs
<1>4. Each(s, f) = [i \in 1..Len(s) |-> f[s[i]]]
  BY EachIs
<1>5. \A i \in 1..Len(s) : h[e[i]] = f[s[i]]
  BY <1>2, ElementOfSeq DEF Composed
<1>6. Each(e, h) = Each(s, f)
  BY <1>2, <1>3, <1>4, <1>5
<1> QED BY <1>6 DEF e

LEMMA MergeAllIs ==
    ASSUME NEW parts \in Seq(Res)
    PROVE  /\ MergeAll(parts) \in Res
           /\ MergeAll(parts).ok <=> \A i \in 1..Len(parts) : parts[i].ok
           /\ MergeAll(parts).ok => MergeAll(parts).doc = Merged(Each(parts, DocFun))
           /\ MergeAll(parts).ok =>
                 \A sec, key : Says(MergeAll(parts).doc, sec, key)
                               = LastOf(Each(parts, SaysRes(sec, key)))
<1>1. DOMAIN parts = 1..Len(parts) /\ \A i \in 1..Len(parts) : parts[i] \in Res
  BY LenProperties, ElementOfSeq
<1>2. [i \in DOMAIN parts |-> parts[i].doc] = [i \in DOMAIN parts |-> DocFun[parts[i]]]
  BY <1>1 DEF DocFun
<1> DEFINE docs == Each(parts, DocFun)
<1>3. Tuple([i \in DOMAIN parts |-> parts[i].doc]) = docs
  BY <1>2 DEF Each
<1>4. DocFun \in [Res -> Docs]
  BY DEF DocFun, Res
<1>5. docs \in Seq(Docs)
  BY <1>4, EachType
<1>6. MergeAll(parts) = IF \A i \in DOMAIN parts : parts[i].ok THEN Good(Merged(docs)) ELSE Bad
  BY <1>3 DEF MergeAll
<1>7. \A sec, key : Each(docs, SaysFun(sec, key)) = Each(parts, SaysRes(sec, key))
  <2> SUFFICES ASSUME NEW sec, NEW key
               PROVE  Each(docs, SaysFun(sec, key)) = Each(parts, SaysRes(sec, key))
    OBVIOUS
  <2>1. Composed(Res, SaysRes(sec, key), DocFun, SaysFun(sec, key))
    BY <1>4 DEF Composed, SaysRes, SaysFun, DocFun
  <2>2. parts \in Seq(Res)
    OBVIOUS
  <2> QED BY <2>1, <2>2, EachTwice
<1> HIDE DEF docs
<1>8. Merged(docs) \in Docs
  BY <1>5, MergedGrows
<1>9. \A sec, key : Says(Merged(docs), sec, key) = LastOf(Each(parts, SaysRes(sec, key)))
  BY <1>5, <1>7, SaysOfMerged
<1>10. /\ Good(Merged(docs)) \in Res /\ Good(Merged(docs)).ok
       /\ Good(Merged(docs)).doc = Merged(docs) /\ Bad \in Res /\ ~Bad.ok
  BY <1>8, BadIsRes
<1>11. MergeAll(parts) \in Res /\ (MergeAll(parts).ok <=> \A i \in 1..Len(parts) : parts[i].ok)
  BY <1>1, <1>6, <1>10
<1>12. MergeAll(parts).ok => MergeAll(parts).doc = Merged(docs)
  BY <1>6, <1>10
<1> QED BY <1>9, <1>11, <1>12 DEF docs

Reassociates(a, b, x) == Append(a \o b, x) = a \o Append(b, x)

LEMMA AppendOfConcat ==
    ASSUME NEW T, NEW a \in Seq(T), NEW b \in Seq(T), NEW x \in T
    PROVE  Reassociates(a, b, x)
BY DEF Reassociates

Splits(s, t, g) == Each(s \o t, g) = Each(s, g) \o Each(t, g)

LEMMA EachConcat ==
    ASSUME NEW T, NEW s \in Seq(T), NEW t \in Seq(T), NEW g
    PROVE  Splits(s, t, g)
<1> DEFINE S == {u \in Seq(T) : Each(s \o u, g) = Each(s, g) \o Each(u, g)}
           U == {g[y] : y \in T}
<1>0. \A r \in Seq(T) : Each(r, g) \in Seq(U)
  <2> SUFFICES ASSUME NEW r \in Seq(T) PROVE Each(r, g) \in Seq(U)
    OBVIOUS
  <2>1. Len(r) \in Nat /\ \A i \in 1..Len(r) : g[r[i]] \in U
    BY LenProperties, ElementOfSeq
  <2> HIDE DEF U
  <2>2. [i \in 1..Len(r) |-> g[r[i]]] \in Seq(U)
    BY <2>1
  <2> QED BY <2>2, EachIs
<1>a. \A y \in T : g[y] \in U
  OBVIOUS
<1> HIDE DEF U
<1>1. <<>> \in S
  <2>1. s \o <<>> = s /\ <<>> \in Seq(T) /\ Each(s, g) \o <<>> = Each(s, g)
    BY <1>0, ConcatEmptySeq, EmptySeq
  <2> QED BY <2>1, EachEmpty
<1>2. ASSUME NEW u \in Seq(T) \cap S, NEW x \in T PROVE Append(u, x) \in S
  <2>1. s \o Append(u, x) = Append(s \o u, x) /\ s \o u \in Seq(T) /\ Append(u, x) \in Seq(T)
    OBVIOUS
  <2>2. Each(Append(s \o u, x), g) = Append(Each(s \o u, g), g[x])
    BY <2>1, EachAppend, Zenon
  <2>3. Each(Append(u, x), g) = Append(Each(u, g), g[x])
    BY EachAppend, Zenon
  <2>4. Each(s \o u, g) = Each(s, g) \o Each(u, g)
    BY <1>2
  <2>5. Each(s, g) \in Seq(U) /\ Each(u, g) \in Seq(U) /\ g[x] \in U
    BY <1>0, <1>a
  <2> DEFINE a == Each(s, g)
             c == Each(u, g)
             y == g[x]
  <2>6. a \in Seq(U) /\ c \in Seq(U) /\ y \in U
    BY <2>5
  <2> HIDE DEF a, c, y
  <2>7. Reassociates(a, c, y)
    BY <2>6, AppendOfConcat
  <2>8. Append(Each(s, g) \o Each(u, g), g[x]) = Each(s, g) \o Append(Each(u, g), g[x])
    BY <2>7, Zenon DEF a, c, y, Reassociates
  <2> QED BY <2>1, <2>2, <2>3, <2>4, <2>8
<1> HIDE DEF S
<1>3. Seq(T) \subseteq S
  BY <1>1, <1>2, SeqInduct
<1> QED BY <1>3 DEF S, Splits

(* A file with its includes.                                               *)
Included(t, r, names, p, seen) ==
    [i \in DOMAIN names |->
        IF IncludePath(t, names[i], p) = {} THEN Bad
        ELSE r[seen \cup {p}][CHOOSE q \in IncludePath(t, names[i], p) : TRUE]]
Resolved(t, r, p, seen) ==
    IF ~Parse(t[p]).ok \/ p \in seen THEN Bad
    ELSE Around(Included(t, r, Includes(Parse(t[p]).secs, "before"), p, seen), Parse(t[p]),
                Included(t, r, Includes(Parse(t[p]).secs, "after"), p, seen))
ResolveEqn(t, r) ==
    r = [seen \in SUBSET DOMAIN t |-> [p \in DOMAIN t |-> Resolved(t, r, p, seen)]]
Resolve(t) == CHOOSE r : ResolveEqn(t, r)

LEMMA ResolveIncludesIs ==
    \A t, path : ResolveIncludes(t, path) = Resolve(t)[{}][path]
BY Zenon DEF ResolveIncludes, Resolve, ResolveEqn, Resolved, Included

Given(r, D, seen, W) == \A q \in D : r[seen][q] \in W
Taken(t, r, names, p, seen, parts) ==
    \A i \in 1..Len(names) : \A q : IncludePath(t, names[i], p) = {q} =>
        parts[i] = r[seen \cup {p}][q]
Missing(t, names, p, parts) ==
    \A i \in 1..Len(names) : IncludePath(t, names[i], p) = {} => parts[i] = Bad

LEMMA IncludedIs ==
    ASSUME NEW t, NEW r, NEW names \in Seq(Word), NEW p, NEW seen,
           Given(r, DOMAIN t, seen \cup {p}, Res)
    PROVE  /\ Included(t, r, names, p, seen) \in Seq(Res)
           /\ Len(Included(t, r, names, p, seen)) = Len(names)
           /\ Taken(t, r, names, p, seen, Included(t, r, names, p, seen))
           /\ Missing(t, names, p, Included(t, r, names, p, seen))
<1>0. \A q \in DOMAIN t : r[seen \cup {p}][q] \in Res
  BY DEF Given
<1> DEFINE n == Len(names)
           f == Included(t, r, names, p, seen)
<1>1. n \in Nat /\ DOMAIN names = 1..n
  BY LenProperties
<1>2. f = [i \in 1..n |-> IF IncludePath(t, names[i], p) = {} THEN Bad
                ELSE r[seen \cup {p}][CHOOSE q \in IncludePath(t, names[i], p) : TRUE]]
  BY <1>1 DEF Included
<1>3. ASSUME NEW i \in 1..n
      PROVE  /\ IncludePath(t, names[i], p) = {} => f[i] = Bad
             /\ \A q : IncludePath(t, names[i], p) = {q} => f[i] = r[seen \cup {p}][q]
  BY <1>2
<1> HIDE DEF f, n
<1>4. \A i \in 1..n : f[i] \in Res
  <2> SUFFICES ASSUME NEW i \in 1..n PROVE f[i] \in Res
    OBVIOUS
  <2>1. CASE IncludePath(t, names[i], p) = {}
    BY <1>3, <2>1, BadIsRes
  <2>2. CASE \E q \in DOMAIN t : IncludePath(t, names[i], p) = {q}
    BY <1>0, <1>3, <2>2
  <2> QED BY <2>1, <2>2, IncludePathIs
<1>5. f \in [1..n -> Res]
  BY <1>2, <1>4
<1>6. f \in Seq(Res) /\ Len(f) = n
  BY <1>1, <1>5
<1>7. \A i \in 1..n : IncludePath(t, names[i], p) = {} => f[i] = Bad
  BY <1>3
<1>8. \A i \in 1..n : \A q : IncludePath(t, names[i], p) = {q} => f[i] = r[seen \cup {p}][q]
  BY <1>3
<1> QED BY <1>6, <1>7, <1>8, Zenon DEF f, n, Taken, Missing

(* Functions of the files seen and the next file that go down to more      *)
(* files seen: there is a fixpoint, and one can argue from more to fewer.   *)
Descends(step, D, W) ==
    \A g, h \in [SUBSET D -> [D -> W]] : \A seen \in SUBSET D : \A p \in D :
        (p \notin seen => g[seen \cup {p}] = h[seen \cup {p}])
        => step[g][seen][p] = step[h][seen][p]

Descent(step, D, W, w) ==
    /\ IsFiniteSet(D) /\ w \in W /\ Descends(step, D, W)
    /\ step \in [[SUBSET D -> [D -> W]] -> [SUBSET D -> [D -> W]]]

LEMMA SeenFixpoint ==
    ASSUME NEW D, NEW W, NEW w, NEW step, Descent(step, D, W, w)
    PROVE  HasFixpoint(step, SUBSET D, [D -> W])
<1>0. /\ IsFiniteSet(D) /\ w \in W /\ Descends(step, D, W)
      /\ step \in [[SUBSET D -> [D -> W]] -> [SUBSET D -> [D -> W]]]
  BY DEF Descent
<1> DEFINE X == SUBSET D
           V == [D -> W]
           n == Cardinality(D)
           m == [seen \in X |-> Cardinality(D \ seen)]
           g0 == [seen \in X |-> [p \in D |-> w]]
<1>1. n \in Nat /\ m \in [X -> 0..n]
  <2>1. \A seen \in X : /\ Cardinality(D \ seen) \in Nat
                        /\ Cardinality(D \ seen) <= Cardinality(D)
    BY <1>0, FS_Subset, FS_CardinalityType
  <2>2. n \in Nat
    BY <1>0, FS_CardinalityType
  <2>3. \A seen \in X : Cardinality(D \ seen) \in 0..n
    <3> SUFFICES ASSUME NEW seen \in X PROVE Cardinality(D \ seen) \in 0..n
      OBVIOUS
    <3>1. Cardinality(D \ seen) \in Nat /\ Cardinality(D \ seen) <= n
      BY <2>1
    <3> HIDE DEF n
    <3> QED BY <2>2, <3>1
  <2> HIDE DEF n, X
  <2> QED BY <2>2, <2>3
<1>2. g0 \in [X -> V]
  BY <1>0
<1>3. ASSUME NEW g \in [X -> V], NEW h \in [X -> V], NEW seen \in X,
             \A y \in X : m[y] < m[seen] => g[y] = h[y]
      PROVE  step[g][seen] = step[h][seen]
  <2>1. step[g][seen] \in V /\ step[h][seen] \in V
    <3>1. step \in [[X -> V] -> [X -> V]]
      BY <1>0
    <3> HIDE DEF X, V
    <3> QED BY <1>3, <3>1
  <2>2. ASSUME NEW p \in D PROVE step[g][seen][p] = step[h][seen][p]
    <3>1. p \notin seen => g[seen \cup {p}] = h[seen \cup {p}]
      <4> SUFFICES ASSUME p \notin seen PROVE g[seen \cup {p}] = h[seen \cup {p}]
        OBVIOUS
      <4>1. /\ seen \cup {p} \in SUBSET D
            /\ Cardinality(D \ (seen \cup {p})) < Cardinality(D \ seen)
        BY <1>0, SeenGrows
      <4> QED BY <1>3, <4>1
    <3>2. /\ g \in [SUBSET D -> [D -> W]] /\ h \in [SUBSET D -> [D -> W]]
          /\ seen \in SUBSET D
      BY <1>3
    <3>3. Descends(step, D, W)
      BY <1>0
    <3> HIDE DEF X, V, n, m, g0
    <3> QED BY <2>2, <3>1, <3>2, <3>3, Zenon DEF Descends
  <2> QED BY <2>1, <2>2
<1>4. Local(step, [X -> V], X, m)
  BY <1>3, Zenon DEF Local
<1> HIDE DEF X, V, n, m, g0
<1>5. step \in [[X -> V] -> [X -> V]]
  BY <1>0 DEF X, V
<1>6. Measured(step, X, V, g0, n, m)
  BY <1>1, <1>2, <1>4, <1>5 DEF Measured
<1>7. HasFixpoint(step, X, V)
  BY <1>6, Fixpoint
<1> QED BY <1>7 DEF X, V

LEMMA SeenInduct ==
    ASSUME NEW D, IsFiniteSet(D), NEW S,
           \A seen \in SUBSET D :
               (\A p \in D : p \notin seen => seen \cup {p} \in S) => seen \in S
    PROVE  \A seen \in SUBSET D : seen \in S
<1> DEFINE X == SUBSET D
           m == [seen \in X |-> Cardinality(D \ seen)]
<1>1. \A seen \in X : m[seen] \in Nat
  BY FS_Subset, FS_CardinalityType
<1>2. ASSUME NEW seen \in X, \A y \in X : m[y] < m[seen] => y \in S PROVE seen \in S
  <2>1. ASSUME NEW p \in D, p \notin seen PROVE seen \cup {p} \in S
    <3>1. /\ seen \cup {p} \in SUBSET D
          /\ Cardinality(D \ (seen \cup {p})) < Cardinality(D \ seen)
      BY <2>1, SeenGrows
    <3> QED BY <1>2, <3>1
  <2> QED BY <1>2, <2>1
<1> HIDE DEF X, m
<1>3. \A seen \in X : seen \in S
  BY <1>1, <1>2, MeasureInduct
<1> QED BY <1>3 DEF X

(* What a file and its includes come to, and that it is there.             *)
LEMMA AroundIs ==
    ASSUME NEW lines \in Seq(Line), Parse(lines).ok,
           NEW before \in Seq(Res), NEW after \in Seq(Res)
    PROVE  /\ before \o <<Good(MergeFile(Parse(lines).secs))>> \o after \in Seq(Res)
           /\ Around(before, Parse(lines), after) \in Res
<1> DEFINE mid == <<Good(MergeFile(Parse(lines).secs))>>
<1>1. Good(MergeFile(Parse(lines).secs)) \in Res
  BY FileSays, BadIsRes
<1>2. mid \in Seq(Res)
  BY <1>1
<1> HIDE DEF mid
<1>3. before \o mid \o after \in Seq(Res)
  BY <1>2
<1>4. MergeAll(before \o mid \o after) \in Res
  BY <1>3, MergeAllIs, Zenon
<1> QED BY <1>3, <1>4 DEF mid, Around

LEMMA NamedAreWords ==
    ASSUME NEW lines \in Seq(Line), Parse(lines).ok, NEW key
    PROVE  /\ Includes(Parse(lines).secs, key) = Named(lines, key)
           /\ Named(lines, key) \in Seq(Word)
<1>1. /\ Parse(lines).secs \in Seq(Sec)
      /\ Includes(Parse(lines).secs, key) = Named(lines, key)
  BY FileSays
<1>2. Includes(Parse(lines).secs, key) \in Seq(Word)
  BY <1>1, IncludesAre
<1> QED BY <1>1, <1>2

LEMMA ResolvedIsRes ==
    ASSUME NEW t, TreeOK(t), NEW p \in DOMAIN t, NEW seen, NEW r,
           p \notin seen => Given(r, DOMAIN t, seen \cup {p}, Res)
    PROVE  Resolved(t, r, p, seen) \in Res
<1>1. CASE ~Parse(t[p]).ok \/ p \in seen
  BY <1>1, BadIsRes DEF Resolved
<1>2. CASE Parse(t[p]).ok /\ p \notin seen
  <2> DEFINE before == Included(t, r, Includes(Parse(t[p]).secs, "before"), p, seen)
             after == Included(t, r, Includes(Parse(t[p]).secs, "after"), p, seen)
  <2>0. t[p] \in Seq(Line)
    BY DEF TreeOK
  <2>1. /\ Includes(Parse(t[p]).secs, "before") \in Seq(Word)
        /\ Includes(Parse(t[p]).secs, "after") \in Seq(Word)
    BY <1>2, <2>0, NamedAreWords
  <2>2. before \in Seq(Res) /\ after \in Seq(Res)
    BY <1>2, <2>1, IncludedIs
  <2>3. Resolved(t, r, p, seen) = Around(before, Parse(t[p]), after)
    BY <1>2 DEF Resolved
  <2> HIDE DEF before, after
  <2> QED BY <1>2, <2>0, <2>2, <2>3, AroundIs
<1> QED BY <1>1, <1>2

LEMMA ResolvedIsLocal ==
    ASSUME NEW t, NEW p, NEW seen, NEW g, NEW h,
           p \notin seen => g[seen \cup {p}] = h[seen \cup {p}]
    PROVE  Resolved(t, g, p, seen) = Resolved(t, h, p, seen)
<1>1. CASE p \in seen
  BY <1>1 DEF Resolved
<1>2. CASE p \notin seen
  <2>1. \A names : Included(t, g, names, p, seen) = Included(t, h, names, p, seen)
    BY <1>2 DEF Included
  <2> QED BY <2>1 DEF Resolved
<1> QED BY <1>1, <1>2

LEMMA ResolveIs ==
    ASSUME NEW t, TreeOK(t)
    PROVE  /\ ResolveEqn(t, Resolve(t))
           /\ \A seen \in SUBSET DOMAIN t : \A p \in DOMAIN t :
                 /\ Resolve(t)[seen][p] = Resolved(t, Resolve(t), p, seen)
                 /\ Resolve(t)[seen][p] \in Res
<1> DEFINE D == DOMAIN t
           G == [SUBSET D -> [D -> Res]]
           step == [g \in G |-> [seen \in SUBSET D |-> [p \in D |-> Resolved(t, g, p, seen)]]]
<1>1. IsFiniteSet(D) /\ Bad \in Res
  BY BadIsRes DEF TreeOK
<1>2. ASSUME NEW g \in G, NEW seen \in SUBSET D, NEW p \in D
      PROVE  Resolved(t, g, p, seen) \in Res
  <2>1. seen \cup {p} \in SUBSET D
    OBVIOUS
  <2>2. Given(g, DOMAIN t, seen \cup {p}, Res)
    BY <2>1 DEF Given
  <2> QED BY <2>2, ResolvedIsRes
<1>3. step \in [G -> G]
  BY <1>2
<1>4. \A g \in G : \A seen \in SUBSET D : \A p \in D : step[g][seen][p] = Resolved(t, g, p, seen)
  OBVIOUS
<1>5. \A g \in G : step[g] = [seen \in SUBSET D |-> [p \in D |-> Resolved(t, g, p, seen)]]
  OBVIOUS
<1>6. \A g, h \in G : \A seen \in SUBSET D : \A p \in D :
          (p \notin seen => g[seen \cup {p}] = h[seen \cup {p}])
          => Resolved(t, g, p, seen) = Resolved(t, h, p, seen)
  <2> SUFFICES ASSUME NEW g \in G, NEW h \in G, NEW seen \in SUBSET D, NEW p \in D,
                      p \notin seen => g[seen \cup {p}] = h[seen \cup {p}]
               PROVE  Resolved(t, g, p, seen) = Resolved(t, h, p, seen)
    OBVIOUS
  <2> HIDE DEF G, D
  <2> QED BY ResolvedIsLocal
<1> HIDE DEF step
<1>7. Descends(step, D, Res)
  <2> SUFFICES ASSUME NEW g \in G, NEW h \in G, NEW seen \in SUBSET D, NEW p \in D,
                      p \notin seen => g[seen \cup {p}] = h[seen \cup {p}]
               PROVE  step[g][seen][p] = step[h][seen][p]
    BY DEF Descends
  <2>1. /\ step[g][seen][p] = Resolved(t, g, p, seen)
        /\ step[h][seen][p] = Resolved(t, h, p, seen)
    BY <1>4
  <2>2. Resolved(t, g, p, seen) = Resolved(t, h, p, seen)
    BY <1>6
  <2> QED BY <2>1, <2>2
<1>8. \E g \in [SUBSET D -> [D -> Res]] : g = step[g]
  <2>1. Descent(step, D, Res, Bad)
    BY <1>1, <1>3, <1>7 DEF Descent
  <2> HIDE DEF D
  <2>2. HasFixpoint(step, SUBSET D, [D -> Res])
    BY <2>1, SeenFixpoint
  <2> QED BY <2>2, Zenon DEF HasFixpoint
<1>9. \E g : ResolveEqn(t, g)
  <2>1. PICK g \in G : g = step[g]
    BY <1>8
  <2>2. g = [seen \in SUBSET D |-> [p \in D |-> Resolved(t, g, p, seen)]]
    BY <1>5, <2>1, Zenon
  <2> QED BY <2>2, Zenon DEF ResolveEqn
<1>10. ResolveEqn(t, Resolve(t))
  BY <1>9, Zenon DEF Resolve
<1> DEFINE r == Resolve(t)
           S == {seen \in SUBSET D : \A p \in D : r[seen][p] \in Res}
<1> HIDE DEF r
<1>11. r = [seen \in SUBSET D |-> [p \in D |-> Resolved(t, r, p, seen)]]
  BY <1>10, Zenon DEF ResolveEqn, r
<1>12. \A seen \in SUBSET D : \A p \in D : r[seen][p] = Resolved(t, r, p, seen)
  BY <1>11
<1>13. ASSUME NEW seen \in SUBSET D, \A p \in D : p \notin seen => seen \cup {p} \in S
       PROVE  seen \in S
  <2>1. ASSUME NEW p \in D PROVE Resolved(t, r, p, seen) \in Res
    <3>1. p \notin seen => Given(r, DOMAIN t, seen \cup {p}, Res)
      BY <1>13, <2>1 DEF Given
    <3> QED BY <3>1, ResolvedIsRes
  <2> QED BY <1>12, <2>1
<1> HIDE DEF S
<1>14. \A seen \in SUBSET D : seen \in S
  <2> HIDE DEF D
  <2> QED BY <1>1, <1>13, SeenInduct
<1> QED BY <1>10, <1>12, <1>14 DEF S, r

(* What a file and its includes say.                                       *)
GivenBy(t, f, names, p, seen) ==
    Tuple([i \in DOMAIN names |->
        UNION {f[seen \cup {p}][q] : q \in IncludePath(t, names[i], p)}])
AllGiven(t, f, p, seen, sec, key) ==
    GivenBy(t, f, Named(t[p], "before"), p, seen)
    \o <<Own(t[p], sec, key)>>
    \o GivenBy(t, f, Named(t[p], "after"), p, seen)
SetHere(t, f, p, seen, sec, key) ==
    IF p \in seen THEN {} ELSE LastOf(AllGiven(t, f, p, seen, sec, key))
SetsEqn(t, f, sec, key) ==
    f = [seen \in SUBSET DOMAIN t |-> [p \in DOMAIN t |-> SetHere(t, f, p, seen, sec, key)]]
Sets(t, sec, key) == CHOOSE f : SetsEqn(t, f, sec, key)

LEMMA LastSetIs ==
    \A path, sec, key : LastSet(path, sec, key) = Sets(tree, sec, key)[{}][path]
BY Zenon DEF LastSet, Sets, SetsEqn, SetHere, AllGiven, GivenBy

LEMMA NamesAreWords ==
    ASSUME NEW lines \in Seq(Line), NEW key
    PROVE  Named(lines, key) \in Seq(Word)
BY GatheredIs, LenProperties

(* What is given by a file seen later is all that matters.                 *)
LEMMA GivenByIs ==
    ASSUME NEW t, NEW W, NEW f, NEW names \in Seq(Word), NEW p, NEW seen,
           Given(f, DOMAIN t, seen \cup {p}, W), {} \in W
    PROVE  /\ GivenBy(t, f, names, p, seen) \in Seq(W)
           /\ Len(GivenBy(t, f, names, p, seen)) = Len(names)
           /\ Taken(t, f, names, p, seen, GivenBy(t, f, names, p, seen))
<1>0. \A q \in DOMAIN t : f[seen \cup {p}][q] \in W
  BY DEF Given
<1> DEFINE n == Len(names)
           G(i) == UNION {f[seen \cup {p}][q] : q \in IncludePath(t, names[i], p)}
           g == [i \in 1..n |-> G(i)]
<1>1. n \in Nat /\ DOMAIN names = 1..n
  BY LenProperties
<1>2. ASSUME NEW i, NEW q, IncludePath(t, names[i], p) = {q}
      PROVE  G(i) = f[seen \cup {p}][q]
  BY <1>2
<1>3. ASSUME NEW i, IncludePath(t, names[i], p) = {} PROVE G(i) = {}
  BY <1>3
<1>4. ASSUME NEW i \in 1..n PROVE G(i) \in W
  <2>1. CASE IncludePath(t, names[i], p) = {}
    BY <1>3, <2>1
  <2>2. CASE \E q \in DOMAIN t : IncludePath(t, names[i], p) = {q}
    <3>1. PICK q \in DOMAIN t : IncludePath(t, names[i], p) = {q}
      BY <2>2
    <3>2. G(i) = f[seen \cup {p}][q]
      BY <1>2, <3>1
    <3> HIDE DEF G
    <3> QED BY <1>0, <3>2
  <2> QED BY <2>1, <2>2, IncludePathIs
<1>5. GivenBy(t, f, names, p, seen) = Tuple(g)
  BY <1>1 DEF GivenBy
<1> HIDE DEF G
<1>6. g \in [1..n -> W]
  BY <1>4
<1>7. \A i \in 1..n : g[i] = G(i)
  OBVIOUS
<1> HIDE DEF g
<1>8. g \in Seq(W) /\ Len(g) = n
  BY <1>1, <1>6
<1>9. Tuple(g) = g
  BY <1>8, TupleIsSame
<1>10. \A i \in 1..n : \A q : IncludePath(t, names[i], p) = {q} => g[i] = f[seen \cup {p}][q]
  BY <1>2, <1>7
<1> QED BY <1>5, <1>8, <1>9, <1>10, Zenon DEF Taken

LEMMA LastOfIsOne ==
    ASSUME NEW W, {} \in W, NEW values \in Seq(W) PROVE LastOf(values) \in W
<1> DEFINE I == {i \in 1..Len(values) : values[i] # {}}
<1>1. Len(values) \in Nat /\ \A i \in 1..Len(values) : values[i] \in W
  BY LenProperties, ElementOfSeq
<1>2. LastOf(values) = IF I # {} THEN values[Max(I)] ELSE {}
  BY <1>1, LastOfIs
<1>3. \A i \in I : i \in 1..Len(values) /\ i \in Nat /\ i <= Len(values)
  BY <1>1
<1> HIDE DEF I
<1>4. I # {} => Max(I) \in I
  BY <1>1, <1>3, MaxIsGreatest
<1> QED BY <1>1, <1>2, <1>3, <1>4

LEMMA AllGivenIs ==
    ASSUME NEW t, TreeOK(t), NEW p \in DOMAIN t, NEW sec, NEW key, NEW W, NEW f, NEW seen,
           Given(f, DOMAIN t, seen \cup {p}, W), {} \in W, Own(t[p], sec, key) \in W
    PROVE  /\ GivenBy(t, f, Named(t[p], "before"), p, seen) \in Seq(W)
           /\ GivenBy(t, f, Named(t[p], "after"), p, seen) \in Seq(W)
           /\ LastOf(AllGiven(t, f, p, seen, sec, key)) \in W
<1> DEFINE a == GivenBy(t, f, Named(t[p], "before"), p, seen)
           b == GivenBy(t, f, Named(t[p], "after"), p, seen)
           c == Own(t[p], sec, key)
<1>1. /\ Named(t[p], "before") \in Seq(Word)
      /\ Named(t[p], "after") \in Seq(Word)
  BY NamesAreWords DEF TreeOK
<1>2. a \in Seq(W) /\ b \in Seq(W) /\ c \in W
  BY <1>1, GivenByIs
<1>3. AllGiven(t, f, p, seen, sec, key) = a \o <<c>> \o b
  BY DEF AllGiven
<1> HIDE DEF a, b, c
<1>4. <<c>> \in Seq(W)
  BY <1>2
<1>5. a \o <<c>> \o b \in Seq(W)
  BY <1>2, <1>4
<1>6. LastOf(AllGiven(t, f, p, seen, sec, key)) \in W
  BY <1>3, <1>5, LastOfIsOne
<1> QED BY <1>2, <1>6 DEF a, b

LEMMA SetHereIsLocal ==
    ASSUME NEW t, NEW p, NEW seen, NEW sec, NEW key, NEW g, NEW h,
           p \notin seen => g[seen \cup {p}] = h[seen \cup {p}]
    PROVE  SetHere(t, g, p, seen, sec, key) = SetHere(t, h, p, seen, sec, key)
<1>1. CASE p \in seen
  BY <1>1 DEF SetHere
<1>2. CASE p \notin seen
  <2>1. \A names : GivenBy(t, g, names, p, seen) = GivenBy(t, h, names, p, seen)
    BY <1>2 DEF GivenBy
  <2> QED BY <2>1 DEF SetHere, AllGiven
<1> QED BY <1>1, <1>2

LEMMA SetsAre ==
    ASSUME NEW t, TreeOK(t), NEW sec, NEW key
    PROVE  \A seen \in SUBSET DOMAIN t : \A p \in DOMAIN t :
               Sets(t, sec, key)[seen][p] = SetHere(t, Sets(t, sec, key), p, seen, sec, key)
<1> DEFINE D == DOMAIN t
           W == SUBSET UNION {Own(t[p], sec, key) : p \in D}
           G == [SUBSET D -> [D -> W]]
           step == [g \in G |->
                      [seen \in SUBSET D |-> [p \in D |-> SetHere(t, g, p, seen, sec, key)]]]
<1>1. IsFiniteSet(D) /\ {} \in W /\ \A p \in D : Own(t[p], sec, key) \in W
  BY DEF TreeOK
<1> HIDE DEF W
<1>2. ASSUME NEW g \in G, NEW seen \in SUBSET D, NEW p \in D
      PROVE  SetHere(t, g, p, seen, sec, key) \in W
  <2>1. seen \cup {p} \in SUBSET D
    OBVIOUS
  <2>2. Given(g, DOMAIN t, seen \cup {p}, W)
    BY <2>1 DEF Given
  <2>3. LastOf(AllGiven(t, g, p, seen, sec, key)) \in W
    BY <1>1, <2>2, AllGivenIs
  <2> QED BY <1>1, <2>3 DEF SetHere
<1>3. step \in [G -> G]
  BY <1>2
<1>4. \A g \in G : \A seen \in SUBSET D : \A p \in D :
          step[g][seen][p] = SetHere(t, g, p, seen, sec, key)
  OBVIOUS
<1>5. \A g \in G : step[g] = [seen \in SUBSET D |->
                                 [p \in D |-> SetHere(t, g, p, seen, sec, key)]]
  OBVIOUS
<1>6. \A g, h \in G : \A seen \in SUBSET D : \A p \in D :
          (p \notin seen => g[seen \cup {p}] = h[seen \cup {p}])
          => SetHere(t, g, p, seen, sec, key) = SetHere(t, h, p, seen, sec, key)
  <2> SUFFICES ASSUME NEW g \in G, NEW h \in G, NEW seen \in SUBSET D, NEW p \in D,
                      p \notin seen => g[seen \cup {p}] = h[seen \cup {p}]
               PROVE  SetHere(t, g, p, seen, sec, key) = SetHere(t, h, p, seen, sec, key)
    OBVIOUS
  <2> HIDE DEF G, D
  <2> QED BY SetHereIsLocal
<1> HIDE DEF step
<1>7. Descends(step, D, W)
  <2> SUFFICES ASSUME NEW g \in G, NEW h \in G, NEW seen \in SUBSET D, NEW p \in D,
                      p \notin seen => g[seen \cup {p}] = h[seen \cup {p}]
               PROVE  step[g][seen][p] = step[h][seen][p]
    BY DEF Descends
  <2>1. /\ step[g][seen][p] = SetHere(t, g, p, seen, sec, key)
        /\ step[h][seen][p] = SetHere(t, h, p, seen, sec, key)
    BY <1>4
  <2>2. SetHere(t, g, p, seen, sec, key) = SetHere(t, h, p, seen, sec, key)
    BY <1>6
  <2> QED BY <2>1, <2>2
<1>8. \E g \in [SUBSET D -> [D -> W]] : g = step[g]
  <2>1. Descent(step, D, W, {})
    BY <1>1, <1>3, <1>7 DEF Descent
  <2> HIDE DEF D
  <2>2. HasFixpoint(step, SUBSET D, [D -> W])
    BY <2>1, SeenFixpoint
  <2> QED BY <2>2, Zenon DEF HasFixpoint
<1>9. \E g : SetsEqn(t, g, sec, key)
  <2>1. PICK g \in G : g = step[g]
    BY <1>8
  <2>2. g = [seen \in SUBSET D |-> [p \in D |-> SetHere(t, g, p, seen, sec, key)]]
    BY <1>5, <2>1, Zenon
  <2> QED BY <2>2, Zenon DEF SetsEqn
<1>10. SetsEqn(t, Sets(t, sec, key), sec, key)
  BY <1>9, Zenon DEF Sets
<1> DEFINE f == Sets(t, sec, key)
<1> HIDE DEF f
<1>11. f = [seen \in SUBSET D |-> [p \in D |-> SetHere(t, f, p, seen, sec, key)]]
  BY <1>10, Zenon DEF SetsEqn, f
<1>12. \A seen \in SUBSET D : \A p \in D : f[seen][p] = SetHere(t, f, p, seen, sec, key)
  BY <1>11
<1> QED BY <1>12 DEF f

(* The parts of a file are its includes before, itself, its includes after.*)
AllOk(s) == \A i \in 1..Len(s) : s[i].ok

LEMMA AllOkConcat ==
    ASSUME NEW T, NEW a \in Seq(T), NEW m \in T, NEW b \in Seq(T)
    PROVE  AllOk(a \o <<m>> \o b) <=> AllOk(a) /\ m.ok /\ AllOk(b)
<1>1. Len(a) \in Nat /\ Len(b) \in Nat /\ <<m>> \in Seq(T) /\ Len(<<m>>) = 1 /\ <<m>>[1] = m
  BY LenProperties
<1> DEFINE c == a \o <<m>>
           d == c \o b
           x == Len(a) + 1
<1>2. /\ c \in Seq(T) /\ Len(c) = x
      /\ \A i \in 1..Len(a) : c[i] = a[i]
      /\ c[x] = m
  BY <1>1
<1> HIDE DEF c
<1>3. /\ d \in Seq(T) /\ Len(d) = x + Len(b)
      /\ \A i \in 1..x : d[i] = c[i]
      /\ \A i \in 1..Len(b) : d[x + i] = b[i]
  <2>1. x \in Nat
    BY <1>1
  <2>2. /\ d \in Seq(T) /\ Len(d) = Len(c) + Len(b)
        /\ \A i \in 1..(Len(c) + Len(b)) :
              d[i] = IF i <= Len(c) THEN c[i] ELSE b[i - Len(c)]
    <3>1. c \in Seq(T) /\ b \in Seq(T)
      BY <1>2
    <3> QED BY <3>1
  <2> HIDE DEF d, x
  <2>3. \A i \in 1..x : d[i] = c[i]
    BY <1>1, <1>2, <2>1, <2>2
  <2>4. ASSUME NEW i \in 1..Len(b) PROVE d[x + i] = b[i]
    <3> DEFINE k == x + i
    <3>1. k \in 1..(x + Len(b)) /\ ~(k <= x) /\ k - x = i
      BY <1>1, <2>1
    <3> HIDE DEF k
    <3>2. d[k] = b[k - x]
      BY <1>2, <2>2, <3>1
    <3> QED BY <3>1, <3>2 DEF k
  <2> QED BY <1>2, <2>2, <2>3, <2>4
<1>4. x \in Nat /\ x \in 1..x /\ \A i \in 1..Len(a) : i \in 1..x
  BY <1>1
<1>5. \A i \in 1..x : i \in 1..Len(a) \/ i = x
  BY <1>1
<1> HIDE DEF d, x
<1>6. AllOk(d) <=> (\A i \in 1..x : d[i].ok) /\ (\A i \in 1..Len(b) : d[x + i].ok)
  <2>1. \A i \in 1..x : i \in 1..Len(d)
    BY <1>1, <1>3, <1>4
  <2>2. \A i \in 1..Len(b) : x + i \in 1..Len(d)
    BY <1>1, <1>3, <1>4
  <2>3. ASSUME NEW k \in 1..Len(d), k \notin 1..x PROVE k - x \in 1..Len(b) /\ x + (k - x) = k
    BY <1>1, <1>3, <1>4, <2>3
  <2>4. AllOk(d) => (\A i \in 1..x : d[i].ok) /\ (\A i \in 1..Len(b) : d[x + i].ok)
    BY <2>1, <2>2 DEF AllOk
  <2>5. ASSUME \A i \in 1..x : d[i].ok, \A i \in 1..Len(b) : d[x + i].ok, NEW k \in 1..Len(d)
        PROVE  d[k].ok
    <3>1. CASE k \in 1..x
      BY <2>5, <3>1
    <3>2. CASE k \notin 1..x
      <4> DEFINE j == k - x
      <4>1. j \in 1..Len(b) /\ x + j = k
        BY <2>3, <3>2
      <4> HIDE DEF j
      <4>2. d[x + j].ok
        BY <2>5, <4>1
      <4> QED BY <4>1, <4>2
    <3> QED BY <3>1, <3>2
  <2> QED BY <2>4, <2>5 DEF AllOk
<1>7. (\A i \in 1..x : d[i].ok) <=> AllOk(a) /\ m.ok
  BY <1>2, <1>3, <1>4, <1>5 DEF AllOk
<1>8. (\A i \in 1..Len(b) : d[x + i].ok) <=> AllOk(b)
  BY <1>3 DEF AllOk
<1> QED BY <1>6, <1>7, <1>8 DEF c, d

SplitsAround(a, m, b, g) ==
    Each(a \o <<m>> \o b, g) = Each(a, g) \o <<g[m]>> \o Each(b, g)

LEMMA EachAround ==
    ASSUME NEW T, NEW a \in Seq(T), NEW m \in T, NEW b \in Seq(T), NEW g
    PROVE  SplitsAround(a, m, b, g)
<1>1. <<m>> \in Seq(T) /\ a \o <<m>> \in Seq(T)
  OBVIOUS
<1>2. Each(<<m>>, g) = <<g[m]>>
  <2>1. <<m>> = Append(<<>>, m) /\ <<>> \in Seq(T) /\ Append(<<>>, g[m]) = <<g[m]>>
    BY EmptySeq
  <2>2. Each(Append(<<>>, m), g) = Append(Each(<<>>, g), g[m])
    BY <2>1, EachAppend, Zenon
  <2> QED BY <2>1, <2>2, EachEmpty
<1>3. Each(a \o <<m>>, g) = Each(a, g) \o Each(<<m>>, g)
  <2>1. Splits(a, <<m>>, g)
    BY <1>1, EachConcat
  <2> QED BY <2>1, Zenon DEF Splits
<1>4. Each((a \o <<m>>) \o b, g) = Each(a \o <<m>>, g) \o Each(b, g)
  <2> DEFINE c == a \o <<m>>
  <2>1. c \in Seq(T)
    BY <1>1
  <2> HIDE DEF c
  <2>2. Splits(c, b, g)
    BY <2>1, EachConcat
  <2> QED BY <2>2, Zenon DEF Splits, c
<1> QED BY <1>2, <1>3, <1>4, Zenon DEF SplitsAround

Before(t, r, p, seen) == Included(t, r, Named(t[p], "before"), p, seen)
After(t, r, p, seen) == Included(t, r, Named(t[p], "after"), p, seen)

(* A file is resolved when it can be read, is not on the way to itself,    *)
(* and every file that it includes is there and resolved; its parts.       *)
LEMMA ResolvedParts ==
    ASSUME NEW t, TreeOK(t), NEW p \in DOMAIN t, NEW seen, NEW r,
           p \notin seen => Given(r, DOMAIN t, seen \cup {p}, Res)
    PROVE  LET R == Resolved(t, r, p, seen)
               a == Before(t, r, p, seen)
               b == After(t, r, p, seen)
               m == Good(MergeFile(Parse(t[p]).secs))
           IN  /\ R.ok <=> p \notin seen /\ ~Broken(t[p]) /\ AllOk(a) /\ AllOk(b)
               /\ R.ok => /\ a \in Seq(Res) /\ b \in Seq(Res) /\ m \in Res
                          /\ R = MergeAll(a \o <<m>> \o b)
<1> DEFINE R == Resolved(t, r, p, seen)
           a == Before(t, r, p, seen)
           b == After(t, r, p, seen)
           m == Good(MergeFile(Parse(t[p]).secs))
<1>0. t[p] \in Seq(Line)
  BY DEF TreeOK
<1>1. Parse(t[p]).ok <=> ~Broken(t[p])
  BY <1>0, FileReads
<1>2. CASE Broken(t[p]) \/ p \in seen
  <2>1. R = Bad
    BY <1>1, <1>2 DEF Resolved
  <2>2. ~R.ok
    BY <2>1, BadIsRes
  <2> QED BY <1>2, <2>2
<1>3. CASE ~Broken(t[p]) /\ p \notin seen
  <2>1. /\ Includes(Parse(t[p]).secs, "before") = Named(t[p], "before")
        /\ Includes(Parse(t[p]).secs, "after") = Named(t[p], "after")
        /\ Named(t[p], "before") \in Seq(Word)
        /\ Named(t[p], "after") \in Seq(Word)
    BY <1>0, <1>1, <1>3, NamedAreWords
  <2>2. a \in Seq(Res) /\ b \in Seq(Res)
    BY <1>3, <2>1, IncludedIs DEF Before, After
  <2>3. m \in Res /\ m.ok
    BY <1>0, <1>1, <1>3, FileSays, BadIsRes
  <2>4. R = MergeAll(a \o <<m>> \o b)
    BY <1>1, <1>3, <2>1 DEF Resolved, Around, Before, After
  <2> HIDE DEF a, b, m, R
  <2>5. <<m>> \in Seq(Res)
    BY <2>3
  <2>6. a \o <<m>> \o b \in Seq(Res)
    BY <2>2, <2>5
  <2>7. R.ok <=> AllOk(a \o <<m>> \o b)
    BY <2>4, <2>6, MergeAllIs, Zenon DEF AllOk
  <2>8. R.ok <=> AllOk(a) /\ AllOk(b)
    BY <2>2, <2>3, <2>7, AllOkConcat
  <2> QED BY <1>3, <2>2, <2>3, <2>4, <2>8 DEF a, b, m, R
<1> QED BY <1>2, <1>3

AllFound(t, r, names, p, seen) ==
    \A i \in 1..Len(names) :
        \E q \in DOMAIN t : IncludePath(t, names[i], p) = {q} /\ r[seen \cup {p}][q].ok

LEMMA IncludedOk ==
    ASSUME NEW t, NEW r, NEW names \in Seq(Word), NEW p, NEW seen,
           Given(r, DOMAIN t, seen \cup {p}, Res)
    PROVE  AllOk(Included(t, r, names, p, seen)) <=> AllFound(t, r, names, p, seen)
<1> DEFINE a == Included(t, r, names, p, seen)
<1>0. Len(a) = Len(names) /\ Taken(t, r, names, p, seen, a) /\ Missing(t, names, p, a)
  BY IncludedIs
<1>1. /\ Len(a) = Len(names)
      /\ \A i \in 1..Len(names) :
            /\ IncludePath(t, names[i], p) = {} => a[i] = Bad
            /\ \A q : IncludePath(t, names[i], p) = {q} => a[i] = r[seen \cup {p}][q]
  BY <1>0 DEF Taken, Missing
<1> HIDE DEF a
<1>2. ASSUME NEW i \in 1..Len(names)
      PROVE  a[i].ok <=> \E q \in DOMAIN t : /\ IncludePath(t, names[i], p) = {q}
                                             /\ r[seen \cup {p}][q].ok
  <2>1. CASE IncludePath(t, names[i], p) = {}
    <3>1. ~a[i].ok
      BY <1>1, <2>1, BadIsRes
    <3> QED BY <2>1, <3>1
  <2>2. CASE \E q \in DOMAIN t : IncludePath(t, names[i], p) = {q}
    <3>1. PICK q \in DOMAIN t : IncludePath(t, names[i], p) = {q}
      BY <2>2
    <3>2. a[i] = r[seen \cup {p}][q]
      BY <1>1, <3>1
    <3> QED BY <3>1, <3>2
  <2> QED BY <2>1, <2>2, IncludePathIs
<1>3. AllOk(a) <=> \A i \in 1..Len(names) : a[i].ok
  BY <1>1 DEF AllOk
<1>4. (\A i \in 1..Len(names) : a[i].ok) <=> AllFound(t, r, names, p, seen)
  BY <1>2 DEF AllFound
<1> QED BY <1>3, <1>4 DEF a

(* And if so, what they say is what the files say.                         *)
SaysAs(r, f, D, seen, sec, key) ==
    \A q \in D : r[seen][q].ok => Says(r[seen][q].doc, sec, key) = f[seen][q]

LEMMA IncludedSay ==
    ASSUME NEW t, NEW r, NEW f, NEW names \in Seq(Word), NEW p, NEW seen, NEW sec, NEW key,
           Given(r, DOMAIN t, seen \cup {p}, Res),
           SaysAs(r, f, DOMAIN t, seen \cup {p}, sec, key),
           AllOk(Included(t, r, names, p, seen))
    PROVE  Each(Included(t, r, names, p, seen), SaysRes(sec, key)) = GivenBy(t, f, names, p, seen)
<1> DEFINE a == Included(t, r, names, p, seen)
           g == GivenBy(t, f, names, p, seen)
           W == {{}} \cup {f[seen \cup {p}][q] : q \in DOMAIN t}
           e == Each(a, SaysRes(sec, key))
<1>1. a \in Seq(Res) /\ Len(a) = Len(names) /\ Len(names) \in Nat
  BY IncludedIs, LenProperties
<1>2. \A i \in 1..Len(names) :
          \E q \in DOMAIN t : IncludePath(t, names[i], p) = {q} /\ r[seen \cup {p}][q].ok
  <2>1. AllFound(t, r, names, p, seen)
    BY IncludedOk
  <2> QED BY <2>1 DEF AllFound
<1>3. \A i \in 1..Len(names) : \A q :
          IncludePath(t, names[i], p) = {q} => a[i] = r[seen \cup {p}][q]
  <2>1. Taken(t, r, names, p, seen, a)
    BY IncludedIs
  <2> QED BY <2>1 DEF Taken
<1>4. {} \in W /\ Given(f, DOMAIN t, seen \cup {p}, W)
  BY DEF Given
<1> HIDE DEF W
<1>5. /\ g \in Seq(W) /\ Len(g) = Len(names)
      /\ \A i \in 1..Len(names) : \A q : IncludePath(t, names[i], p) = {q} =>
             g[i] = f[seen \cup {p}][q]
  <2>1. g \in Seq(W) /\ Len(g) = Len(names) /\ Taken(t, f, names, p, seen, g)
    BY <1>4, GivenByIs
  <2> QED BY <2>1 DEF Taken
<1> HIDE DEF a, g
<1>6. e = [i \in 1..Len(a) |-> SaysRes(sec, key)[a[i]]]
  BY <1>1, EachIs
<1>7. ASSUME NEW i \in 1..Len(names) PROVE SaysRes(sec, key)[a[i]] = g[i]
  <2>1. PICK q \in DOMAIN t : IncludePath(t, names[i], p) = {q} /\ r[seen \cup {p}][q].ok
    BY <1>2
  <2>2. a[i] = r[seen \cup {p}][q] /\ g[i] = f[seen \cup {p}][q]
    BY <1>3, <1>5, <2>1
  <2>3. Says(r[seen \cup {p}][q].doc, sec, key) = f[seen \cup {p}][q]
    BY <2>1 DEF SaysAs
  <2>4. SaysRes(sec, key)[r[seen \cup {p}][q]] = Says(r[seen \cup {p}][q].doc, sec, key)
    BY DEF SaysRes, Given
  <2> QED BY <2>2, <2>3, <2>4
<1>8. e = [i \in 1..Len(names) |-> g[i]]
  BY <1>1, <1>6, <1>7
<1>9. g = [i \in 1..Len(names) |-> g[i]]
  BY <1>5
<1> QED BY <1>8, <1>9 DEF a, g

LEMMA ResolvedSays ==
    ASSUME NEW t, TreeOK(t), NEW sec, NEW key,
           NEW seen \in SUBSET DOMAIN t, NEW p \in DOMAIN t, Resolve(t)[seen][p].ok
    PROVE  Says(Resolve(t)[seen][p].doc, sec, key) = Sets(t, sec, key)[seen][p]
<1> DEFINE D == DOMAIN t
           r == Resolve(t)
           f == Sets(t, sec, key)
           S == {x \in SUBSET D : SaysAs(r, f, D, x, sec, key)}
<1>1. /\ \A x \in SUBSET D : \A q \in D : r[x][q] = Resolved(t, r, q, x) /\ r[x][q] \in Res
      /\ \A x \in SUBSET D : \A q \in D : f[x][q] = SetHere(t, f, q, x, sec, key)
  BY ResolveIs, SetsAre
<1> HIDE DEF r, f
<1>2. ASSUME NEW x \in SUBSET D, \A q \in D : q \notin x => x \cup {q} \in S,
             NEW q \in D, r[x][q].ok
      PROVE  Says(r[x][q].doc, sec, key) = f[x][q]
  <2> DEFINE a == Before(t, r, q, x)
             b == After(t, r, q, x)
             m == Good(MergeFile(Parse(t[q]).secs))
             y == SaysRes(sec, key)
  <2>1. Resolved(t, r, q, x).ok /\ r[x][q] = Resolved(t, r, q, x)
    BY <1>1, <1>2
  <2>2. x \cup {q} \in SUBSET D /\ Given(r, D, x \cup {q}, Res)
    BY <1>1 DEF Given
  <2>3. /\ q \notin x /\ ~Broken(t[q]) /\ AllOk(a) /\ AllOk(b)
        /\ a \in Seq(Res) /\ b \in Seq(Res) /\ m \in Res
        /\ r[x][q] = MergeAll(a \o <<m>> \o b)
    BY <2>1, <2>2, ResolvedParts
  <2>4. SaysAs(r, f, D, x \cup {q}, sec, key)
    BY <1>2, <2>3
  <2>5. t[q] \in Seq(Line) /\ Parse(t[q]).ok
    BY <2>3, FileReads DEF TreeOK
  <2>6. Named(t[q], "before") \in Seq(Word) /\ Named(t[q], "after") \in Seq(Word)
    BY <2>5, NamedAreWords
  <2>7. Each(a, y) = GivenBy(t, f, Named(t[q], "before"), q, x)
    BY <2>2, <2>3, <2>4, <2>6, IncludedSay DEF Before
  <2>8. Each(b, y) = GivenBy(t, f, Named(t[q], "after"), q, x)
    BY <2>2, <2>3, <2>4, <2>6, IncludedSay DEF After
  <2>9. y[m] = Own(t[q], sec, key)
    <3>1. Says(MergeFile(Parse(t[q]).secs), sec, key) = Own(t[q], sec, key)
      BY <2>5, FileSays
    <3>2. y[m] = Says(m.doc, sec, key) /\ m.doc = MergeFile(Parse(t[q]).secs)
      BY <2>3 DEF SaysRes, Good
    <3> QED BY <3>1, <3>2
  <2> HIDE DEF a, b, m, y, S
  <2>10. Each(a \o <<m>> \o b, y) = Each(a, y) \o <<y[m]>> \o Each(b, y)
    <3>1. SplitsAround(a, m, b, y)
      BY <2>3, EachAround
    <3> QED BY <3>1, Zenon DEF SplitsAround
  <2>11. Each(a \o <<m>> \o b, y) = AllGiven(t, f, q, x, sec, key)
    BY <2>7, <2>8, <2>9, <2>10, Zenon DEF AllGiven
  <2>12. a \o <<m>> \o b \in Seq(Res)
    <3>1. <<m>> \in Seq(Res)
      BY <2>3
    <3> QED BY <2>3, <3>1
  <2>13. Says(MergeAll(a \o <<m>> \o b).doc, sec, key) = LastOf(Each(a \o <<m>> \o b, y))
    <3> DEFINE all == a \o <<m>> \o b
    <3>1. all \in Seq(Res) /\ MergeAll(all).ok
      BY <1>2, <2>3, <2>12
    <3> HIDE DEF all
    <3>2. Says(MergeAll(all).doc, sec, key) = LastOf(Each(all, y))
      BY <3>1, MergeAllIs, Zenon DEF y
    <3> QED BY <3>2 DEF all
  <2>14. f[x][q] = LastOf(AllGiven(t, f, q, x, sec, key))
    BY <1>1, <2>3 DEF SetHere
  <2> QED BY <2>3, <2>11, <2>13, <2>14
<1>3. ASSUME NEW x \in SUBSET D, \A q \in D : q \notin x => x \cup {q} \in S PROVE x \in S
  BY <1>2, <1>3 DEF SaysAs
<1>4. IsFiniteSet(D)
  BY DEF TreeOK
<1> HIDE DEF S
<1>5. \A x \in SUBSET D : x \in S
  <2> HIDE DEF D
  <2> QED BY <1>3, <1>4, SeenInduct
<1>6. SaysAs(r, f, D, seen, sec, key)
  BY <1>5 DEF S
<1> QED BY <1>6 DEF SaysAs, r, f

(* Several files, in the order of a list, those of them that there are.    *)
Part(t, p) == IF p \in DOMAIN t THEN Resolve(t)[{}][p] ELSE Good(NoDoc)
SetIn(t, p, sec, key) == IF p \in DOMAIN t THEN Sets(t, sec, key)[{}][p] ELSE {}
AllSet(t, paths, sec, key) == Tuple([i \in DOMAIN paths |-> SetIn(t, paths[i], sec, key)])

LEMMA ValueInIs ==
    ASSUME NEW paths, NEW sec, NEW key
    PROVE  ValueIn(paths, sec, key) = LastOf(AllSet(tree, paths, sec, key))
<1>1. \A i \in DOMAIN paths :
          (IF paths[i] \in DOMAIN tree THEN LastSet(paths[i], sec, key) ELSE {})
          = SetIn(tree, paths[i], sec, key)
  BY LastSetIs DEF SetIn
<1>2. [i \in DOMAIN paths |->
          IF paths[i] \in DOMAIN tree THEN LastSet(paths[i], sec, key) ELSE {}]
      = [i \in DOMAIN paths |-> SetIn(tree, paths[i], sec, key)]
  BY <1>1
<1> QED BY <1>2 DEF ValueIn, AllSet

LEMMA PartIs ==
    ASSUME NEW t, TreeOK(t), NEW p
    PROVE  /\ Part(t, p) \in Res
           /\ \A sec, key : Part(t, p).ok => Says(Part(t, p).doc, sec, key) = SetIn(t, p, sec, key)
<1>1. CASE p \in DOMAIN t
  <2>1. {} \in SUBSET DOMAIN t
    OBVIOUS
  <2>2. Resolve(t)[{}][p] \in Res
    BY <1>1, <2>1, ResolveIs
  <2>3. ASSUME NEW sec, NEW key, Resolve(t)[{}][p].ok
        PROVE  Says(Resolve(t)[{}][p].doc, sec, key) = Sets(t, sec, key)[{}][p]
    BY <1>1, <2>1, <2>3, ResolvedSays
  <2> QED BY <1>1, <2>2, <2>3 DEF Part, SetIn
<1>2. CASE p \notin DOMAIN t
  <2>1. Part(t, p) = Good(NoDoc) /\ Good(NoDoc) \in Res /\ Good(NoDoc).doc = NoDoc
    BY <1>2, EmptyIsDoc, BadIsRes DEF Part, NoDoc
  <2> QED BY <1>2, <2>1, SaysNothing DEF SetIn, NoDoc
<1> QED BY <1>1, <1>2

LEMMA LoadAllIs ==
    ASSUME NEW t, TreeOK(t), NEW P, NEW paths \in Seq(P)
    PROVE  /\ LoadAll(t, paths) \in Res
           /\ LoadAll(t, paths).ok <=> \A i \in 1..Len(paths) : Part(t, paths[i]).ok
           /\ LoadAll(t, paths).ok =>
                 \A sec, key : Says(LoadAll(t, paths).doc, sec, key)
                               = LastOf(AllSet(t, paths, sec, key))
<1> DEFINE n == Len(paths)
           parts == [i \in 1..n |-> Part(t, paths[i])]
<1>1. n \in Nat /\ DOMAIN paths = 1..n
  BY LenProperties
<1>2. \A i \in 1..n : Part(t, paths[i]) \in Res
  BY PartIs
<1>3. \A i \in DOMAIN paths :
          (IF paths[i] \in DOMAIN t THEN ResolveIncludes(t, paths[i]) ELSE Good(NoDoc))
          = Part(t, paths[i])
  BY ResolveIncludesIs DEF Part
<1>4. [i \in DOMAIN paths |->
          IF paths[i] \in DOMAIN t THEN ResolveIncludes(t, paths[i]) ELSE Good(NoDoc)] = parts
  BY <1>1, <1>3
<1>5. \A i \in 1..n : parts[i] = Part(t, paths[i])
  OBVIOUS
<1>6. parts \in [1..n -> Res]
  BY <1>2
<1>7. LoadAll(t, paths) = MergeAll(Tuple(parts))
  BY <1>4 DEF LoadAll
<1> HIDE DEF n, parts
<1>8. parts \in Seq(Res) /\ Len(parts) = n
  BY <1>1, <1>6
<1>9. LoadAll(t, paths) = MergeAll(parts)
  BY <1>7, <1>8, TupleIsSame
<1>10. ASSUME NEW sec, NEW key, \A i \in 1..n : parts[i].ok
       PROVE  Each(parts, SaysRes(sec, key)) = AllSet(t, paths, sec, key)
  <2>1. \A i \in 1..n : SaysRes(sec, key)[parts[i]] = SetIn(t, paths[i], sec, key)
    <3> SUFFICES ASSUME NEW i \in 1..n
                 PROVE  SaysRes(sec, key)[parts[i]] = SetIn(t, paths[i], sec, key)
      OBVIOUS
    <3>1. parts[i] \in Res /\ parts[i].ok /\ parts[i] = Part(t, paths[i])
      BY <1>2, <1>5, <1>10
    <3>2. Says(Part(t, paths[i]).doc, sec, key) = SetIn(t, paths[i], sec, key)
      BY <3>1, PartIs
    <3> QED BY <3>1, <3>2 DEF SaysRes
  <2>2. DOMAIN parts = 1..n
    BY <1>8, LenProperties
  <2>3. [i \in DOMAIN parts |-> SaysRes(sec, key)[parts[i]]]
        = [i \in DOMAIN paths |-> SetIn(t, paths[i], sec, key)]
    BY <1>1, <2>1, <2>2
  <2> QED BY <2>3 DEF Each, AllSet
<1>11. /\ MergeAll(parts) \in Res
       /\ MergeAll(parts).ok <=> \A i \in 1..n : parts[i].ok
       /\ MergeAll(parts).ok =>
             \A sec, key : Says(MergeAll(parts).doc, sec, key)
                           = LastOf(Each(parts, SaysRes(sec, key)))
  BY <1>8, MergeAllIs
<1>12. ASSUME MergeAll(parts).ok, NEW sec, NEW key
       PROVE  Says(MergeAll(parts).doc, sec, key) = LastOf(AllSet(t, paths, sec, key))
  BY <1>10, <1>11, <1>12
<1>13. MergeAll(parts).ok <=> \A i \in 1..n : Part(t, paths[i]).ok
  BY <1>5, <1>11
<1> QED BY <1>9, <1>11, <1>12, <1>13 DEF n

-----------------------------------------------------------------------------
(* The files of a configuration.                                           *)
Subs == {"", "jail.d", "fail2ban.d", "filter.d", "action.d"}
PathsOf(names) == {Path(dir, sub, name) : dir \in STRING, sub \in Subs, name \in names}

LEMMA InDirIs ==
    ASSUME NEW dir \in STRING, NEW sub \in Subs, NEW N, NEW names \in Seq(N)
    PROVE  InDir(dir, sub, names) \in Seq(PathsOf(N))
<1> DEFINE n == Len(names)
           f == [i \in 1..n |-> Path(dir, sub, names[i])]
<1>1. n \in Nat /\ DOMAIN names = 1..n /\ \A i \in 1..n : names[i] \in N
  BY LenProperties, ElementOfSeq
<1>2. \A i \in 1..n : Path(dir, sub, names[i]) \in PathsOf(N)
  BY <1>1 DEF PathsOf
<1> DEFINE P == PathsOf(N)
<1> HIDE DEF P
<1>3. f \in [1..n -> P]
  BY <1>2 DEF P
<1>4. InDir(dir, sub, names) = Tuple(f)
  BY <1>1 DEF InDir
<1> HIDE DEF f, n
<1>5. f \in Seq(P)
  BY <1>1, <1>3
<1> QED BY <1>4, <1>5, TupleIsSame DEF P

(* Directory after directory: a sequence of paths if each is.              *)
LEMMA EachDirIs ==
    ASSUME NEW P, NEW F, \A dir \in STRING : F[dir] \in Seq(P)
    PROVE  FlattenSeq(Tuple([i \in DOMAIN SearchDirs |-> F[SearchDirs[i]]])) \in Seq(P)
<1>1. /\ DOMAIN SearchDirs = 1..Len(SearchDirs) /\ Len(SearchDirs) \in Nat
      /\ \A i \in 1..Len(SearchDirs) : SearchDirs[i] \in STRING
  BY TextAssumption, LenProperties, ElementOfSeq
<1> DEFINE f == [i \in DOMAIN SearchDirs |-> F[SearchDirs[i]]]
<1>2. f \in [1..Len(SearchDirs) -> Seq(P)]
  BY <1>1
<1> HIDE DEF f
<1>3. f \in Seq(Seq(P))
  BY <1>1, <1>2
<1>4. FlattenSeq(Tuple(f)) \in Seq(P)
  BY <1>3, TupleIsSame, FlattenType
<1> QED BY <1>4 DEF f

FileNames == STRING \cup {"jail.conf", "rail2ban.conf", "jail.local", "rail2ban.local",
                          "fail2ban.conf"}

LEMMA JailFilesAre == JailFiles \in Seq(PathsOf(FileNames))
<1> DEFINE P == PathsOf(FileNames)
           F == [dir \in STRING |-> JailFilesOf(dir)]
<1>1. /\ <<"jail.conf", "rail2ban.conf">> \in Seq(FileNames)
      /\ <<"jail.local", "rail2ban.local">> \in Seq(FileNames)
      /\ ConfFiles \in Seq(FileNames) /\ LocalFiles \in Seq(FileNames)
  BY TextAssumption DEF FileNames
<1>2. ASSUME NEW dir \in STRING PROVE JailFilesOf(dir) \in Seq(P)
  <2>1. /\ InDir(dir, "", <<"jail.conf", "rail2ban.conf">>) \in Seq(P)
        /\ InDir(dir, "jail.d", ConfFiles) \in Seq(P)
        /\ InDir(dir, "", <<"jail.local", "rail2ban.local">>) \in Seq(P)
        /\ InDir(dir, "jail.d", LocalFiles) \in Seq(P)
    BY <1>1, InDirIs DEF Subs
  <2> DEFINE a == InDir(dir, "", <<"jail.conf", "rail2ban.conf">>)
             b == InDir(dir, "jail.d", ConfFiles)
             c == InDir(dir, "", <<"jail.local", "rail2ban.local">>)
             d == InDir(dir, "jail.d", LocalFiles)
  <2>2. JailFilesOf(dir) = a \o b \o c \o d
    BY DEF JailFilesOf
  <2> HIDE DEF P, a, b, c, d
  <2>3. a \in Seq(P) /\ b \in Seq(P) /\ c \in Seq(P) /\ d \in Seq(P)
    BY <2>1 DEF a, b, c, d
  <2>4. a \o b \o c \o d \in Seq(P)
    BY <2>3
  <2> QED BY <2>2, <2>4
<1>3. \A dir \in STRING : F[dir] \in Seq(P)
  BY <1>2
<1>4. /\ DOMAIN SearchDirs = 1..Len(SearchDirs)
      /\ \A i \in 1..Len(SearchDirs) : SearchDirs[i] \in STRING
  BY TextAssumption, LenProperties, ElementOfSeq
<1>5. [i \in DOMAIN SearchDirs |-> JailFilesOf(SearchDirs[i])]
      = [i \in DOMAIN SearchDirs |-> F[SearchDirs[i]]]
  BY <1>4
<1>6. JailFiles = FlattenSeq(Tuple([i \in DOMAIN SearchDirs |-> F[SearchDirs[i]]]))
  BY <1>5 DEF JailFiles, EachDir
<1> HIDE DEF F, P
<1>7. FlattenSeq(Tuple([i \in DOMAIN SearchDirs |-> F[SearchDirs[i]]])) \in Seq(P)
  BY <1>3, EachDirIs
<1> QED BY <1>6, <1>7 DEF P

LEMMA GlobalFilesAre == EachDir(GlobalFilesOf) \in Seq(PathsOf(FileNames))
<1> DEFINE P == PathsOf(FileNames)
           F == [dir \in STRING |-> GlobalFilesOf(dir)]
<1>1. /\ <<"fail2ban.conf", "rail2ban.conf">> \in Seq(FileNames)
      /\ GlobalFiles \in Seq(FileNames)
  BY TextAssumption DEF FileNames
<1>2. ASSUME NEW dir \in STRING PROVE GlobalFilesOf(dir) \in Seq(P)
  <2>1. /\ InDir(dir, "", <<"fail2ban.conf", "rail2ban.conf">>) \in Seq(P)
        /\ InDir(dir, "fail2ban.d", GlobalFiles) \in Seq(P)
    BY <1>1, InDirIs DEF Subs
  <2> DEFINE a == InDir(dir, "", <<"fail2ban.conf", "rail2ban.conf">>)
             b == InDir(dir, "fail2ban.d", GlobalFiles)
  <2>2. GlobalFilesOf(dir) = a \o b
    BY DEF GlobalFilesOf
  <2> HIDE DEF P, a, b
  <2>3. a \in Seq(P) /\ b \in Seq(P)
    BY <2>1 DEF a, b
  <2>4. a \o b \in Seq(P)
    BY <2>3
  <2> QED BY <2>2, <2>4
<1>3. \A dir \in STRING : F[dir] \in Seq(P)
  BY <1>2
<1>4. /\ DOMAIN SearchDirs = 1..Len(SearchDirs)
      /\ \A i \in 1..Len(SearchDirs) : SearchDirs[i] \in STRING
  BY TextAssumption, LenProperties, ElementOfSeq
<1>5. [i \in DOMAIN SearchDirs |-> GlobalFilesOf(SearchDirs[i])]
      = [i \in DOMAIN SearchDirs |-> F[SearchDirs[i]]]
  BY <1>4
<1>6. EachDir(GlobalFilesOf) = FlattenSeq(Tuple([i \in DOMAIN SearchDirs |-> F[SearchDirs[i]]]))
  BY <1>5 DEF EachDir
<1> HIDE DEF F, P
<1>7. FlattenSeq(Tuple([i \in DOMAIN SearchDirs |-> F[SearchDirs[i]]])) \in Seq(P)
  BY <1>3, EachDirIs
<1> QED BY <1>6, <1>7 DEF P

LEMMA DefinitionFilesAre ==
    ASSUME NEW sub \in {"filter.d", "action.d"}, NEW name
    PROVE  DefinitionFiles(sub, name) \in Seq(PathsOf({name \o ".conf", name \o ".local"}))
<1> DEFINE a == name \o ".conf"
           b == name \o ".local"
<1> HIDE DEF a, b
<1> DEFINE P == PathsOf({a, b})
           F == [dir \in STRING |-> InDir(dir, sub, <<a, b>>)]
<1>1. <<a, b>> \in Seq({a, b})
  OBVIOUS
<1>2. ASSUME NEW dir \in STRING PROVE InDir(dir, sub, <<a, b>>) \in Seq(P)
  BY <1>1, InDirIs DEF Subs
<1>3. \A dir \in STRING : F[dir] \in Seq(P)
  BY <1>2
<1>4. /\ DOMAIN SearchDirs = 1..Len(SearchDirs)
      /\ \A i \in 1..Len(SearchDirs) : SearchDirs[i] \in STRING
  BY TextAssumption, LenProperties, ElementOfSeq
<1>5. [i \in DOMAIN SearchDirs |-> InDir(SearchDirs[i], sub, <<a, b>>)]
      = [i \in DOMAIN SearchDirs |-> F[SearchDirs[i]]]
  BY <1>4
<1>6. DefinitionFiles(sub, name)
      = FlattenSeq(Tuple([i \in DOMAIN SearchDirs |-> F[SearchDirs[i]]]))
  <2> HIDE DEF F
  <2> QED BY <1>5, Zenon DEF DefinitionFiles, EachDir, a, b
<1> HIDE DEF F, P
<1>7. FlattenSeq(Tuple([i \in DOMAIN SearchDirs |-> F[SearchDirs[i]]])) \in Seq(P)
  BY <1>3, EachDirIs
<1> QED BY <1>6, <1>7 DEF P, a, b

-----------------------------------------------------------------------------
(* What is loaded, of which files.                                         *)
LEMMA DefaultContextIsText ==
    ASSUME NEW doc \in Docs PROVE TextContext(DefaultContext(doc))
<1>1. TextDoc(doc) /\ TextMap(<<>>) /\ TextMap(Builtins)
  BY DocIsText, EmptyIsText, TextAssumption DEF TextMap
<1> QED BY <1>1 DEF TextContext, DefaultContext

LEMMA DefaultsAre ==
    ASSUME NEW doc \in Docs
    PROVE  /\ TextMap(Defaults(doc))
           /\ \A key : {Substituted(v, DefaultContext(doc)) : v \in Says(doc, "DEFAULT", key)}
                       = SaysIn(Defaults(doc), key)
<1> DEFINE ctx == DefaultContext(doc)
           sec == SectionOf(doc, "DEFAULT")
<1>1. TextContext(ctx)
  BY DefaultContextIsText
<1>2. /\ \A key \in DOMAIN sec : sec[key] \in Text /\ sec[key] = doc["DEFAULT"][key]
      /\ \A key : Says(doc, "DEFAULT", key) = SaysIn(sec, key)
  <2>1. TextMap(sec)
    BY DocIsText, SectionIsText
  <2>2. "DEFAULT" \in DOMAIN doc => sec = doc["DEFAULT"]
    BY DEF SectionOf
  <2>3. "DEFAULT" \notin DOMAIN doc => DOMAIN sec = {}
    BY EmptyIsDoc DEF SectionOf
  <2> HIDE DEF sec
  <2> QED BY <2>1, <2>2, <2>3 DEF TextMap, Says, SaysIn
<1>3. DOMAIN Defaults(doc) = DOMAIN sec
      /\ \A key \in DOMAIN sec : Defaults(doc)[key] = Interpolated(doc["DEFAULT"][key], ctx)
  BY DEF Defaults
<1> HIDE DEF ctx, sec
<1>4. \A key \in DOMAIN sec :
          Defaults(doc)[key] = Substituted(sec[key], ctx) /\ Defaults(doc)[key] \in Text
  BY <1>1, <1>2, <1>3, InterpolatedIsSubstituted
<1>5. ASSUME NEW key
      PROVE  {Substituted(v, ctx) : v \in Says(doc, "DEFAULT", key)} = SaysIn(Defaults(doc), key)
  <2>1. Says(doc, "DEFAULT", key) = SaysIn(sec, key)
    BY <1>2
  <2>2. CASE key \in DOMAIN sec
    BY <1>3, <1>4, <2>1, <2>2 DEF SaysIn
  <2>3. CASE key \notin DOMAIN sec
    BY <1>3, <2>1, <2>3 DEF SaysIn
  <2> QED BY <2>2, <2>3
<1> QED BY <1>3, <1>4, <1>5 DEF TextMap, ctx

(* What a load that succeeds has loaded.                                   *)
JailsOf(doc) == [j \in JailNames(doc) |-> JailConfig(doc[j], Defaults(doc))]

LEMMA LoadDefinitionIs ==
    ASSUME NEW t, TreeOK(t), NEW sub \in {"filter.d", "action.d"}, NEW name
    PROVE  /\ LoadDefinition(t, sub, name) \in Res
           /\ LoadDefinition(t, sub, name).ok <=>
                 /\ LoadAll(t, DefinitionFiles(sub, name)).ok
                 /\ DOMAIN LoadAll(t, DefinitionFiles(sub, name)).doc # {}
<1> DEFINE l == LoadAll(t, DefinitionFiles(sub, name))
<1>1. DefinitionFiles(sub, name) \in Seq(PathsOf({name \o ".conf", name \o ".local"}))
  BY DefinitionFilesAre
<1>2. l \in Res
  BY <1>1, LoadAllIs
<1>3. LoadDefinition(t, sub, name) = IF l.ok /\ DOMAIN l.doc # {} THEN l ELSE Bad
  BY DEF LoadDefinition
<1> HIDE DEF l
<1>4. CASE l.ok /\ DOMAIN l.doc # {}
  BY <1>2, <1>3, <1>4 DEF l
<1>5. CASE ~(l.ok /\ DOMAIN l.doc # {})
  BY <1>3, <1>5, BadIsRes DEF l
<1> QED BY <1>4, <1>5

LoadsFilters(t, jails) == \A name \in FiltersOf(jails) : LoadDefinition(t, "filter.d", name).ok
GlobalsParse(doc) ==
    LET settings == SectionOf(doc, "Definition")
    IN  "dbpurgeage" \in DOMAIN settings => Parses("time", settings["dbpurgeage"])

LEMMA WithDefinitionsIs ==
    ASSUME NEW t, TreeOK(t), NEW settings, NEW defaults, NEW jails
    PROVE  LET config == WithDefinitions(t, settings, defaults, jails)
           IN  /\ config.ok <=> LoadsFilters(t, jails)
               /\ config.ok => /\ config.defaults = defaults /\ config.jails = jails
                               /\ \A name \in DOMAIN config.filters : config.filters[name] \in Docs
<1> DEFINE filters == [name \in FiltersOf(jails) |-> LoadDefinition(t, "filter.d", name)]
           found == [name \in {n \in DOMAIN filters : filters[n].ok} |-> filters[name].doc]
           config == WithDefinitions(t, settings, defaults, jails)
<1>1. /\ config.ok <=> \A name \in DOMAIN filters : filters[name].ok
      /\ config.ok => config.defaults = defaults /\ config.jails = jails /\ config.filters = found
  BY DEF WithDefinitions, NoConfig
<1> HIDE DEF config
<1>2. DOMAIN filters = FiltersOf(jails)
      /\ \A name \in FiltersOf(jails) : filters[name] = LoadDefinition(t, "filter.d", name)
  OBVIOUS
<1> HIDE DEF filters
<1>3. \A name \in FiltersOf(jails) : filters[name] \in Res
  BY <1>2, LoadDefinitionIs
<1>4. \A name \in DOMAIN found : found[name] \in Docs
  BY <1>2, <1>3 DEF Res
<1> HIDE DEF found
<1>5. config.ok <=> LoadsFilters(t, jails)
  BY <1>1, <1>2 DEF LoadsFilters
<1> QED BY <1>1, <1>4, <1>5 DEF config

LEMMA LoadIs ==
    ASSUME NEW t, TreeOK(t)
    PROVE  LET globals == LoadAll(t, EachDir(GlobalFilesOf))
               files == LoadAll(t, JailFiles)
           IN  /\ files \in Res /\ globals \in Res
               /\ Load(t).ok <=>
                     /\ globals.ok /\ files.ok /\ GlobalsParse(globals.doc)
                     /\ \A j \in DOMAIN JailsOf(files.doc) : WellTyped(JailsOf(files.doc)[j])
                     /\ LoadsFilters(t, JailsOf(files.doc))
               /\ Load(t).ok =>
                     /\ Load(t).defaults = Defaults(files.doc)
                     /\ Load(t).jails = JailsOf(files.doc)
                     /\ \A name \in DOMAIN Load(t).filters : Load(t).filters[name] \in Docs
<1> DEFINE globals == LoadAll(t, EachDir(GlobalFilesOf))
           files == LoadAll(t, JailFiles)
           settings == SectionOf(globals.doc, "Definition")
           jails == JailsOf(files.doc)
           config == WithDefinitions(t, settings, Defaults(files.doc), jails)
<1>1. globals \in Res /\ files \in Res
  BY JailFilesAre, GlobalFilesAre, LoadAllIs
<1>2. Load(t) = IF globals.ok /\ files.ok /\ GlobalsParse(globals.doc)
                THEN LoadJails(t, settings, files.doc, Defaults(files.doc)) ELSE NoConfig
  <2>1. Load(t) = LoadMerged(t, globals, files)
    BY DEF Load
  <2> HIDE DEF globals, files
  <2> QED BY <2>1 DEF LoadMerged, GlobalsParse
<1> HIDE DEF globals, files
<1>3. LoadJails(t, settings, files.doc, Defaults(files.doc))
      = IF \A j \in DOMAIN jails : WellTyped(jails[j]) THEN config ELSE NoConfig
  BY DEF LoadJails, JailsOf
<1>4. /\ config.ok <=> LoadsFilters(t, jails)
      /\ config.ok => /\ config.defaults = Defaults(files.doc) /\ config.jails = jails
                      /\ \A name \in DOMAIN config.filters : config.filters[name] \in Docs
  BY WithDefinitionsIs
<1>5. ~NoConfig.ok
  BY DEF NoConfig
<1> HIDE DEF config, jails, settings
<1>6. Load(t).ok <=> /\ globals.ok /\ files.ok /\ GlobalsParse(globals.doc)
                     /\ \A j \in DOMAIN jails : WellTyped(jails[j])
                     /\ LoadsFilters(t, jails)
  BY <1>2, <1>3, <1>4, <1>5
<1>7. Load(t).ok => Load(t) = config
  BY <1>2, <1>3, <1>5
<1>8. Load(t).ok => /\ Load(t).defaults = Defaults(files.doc)
                    /\ Load(t).jails = jails
                    /\ \A name \in DOMAIN Load(t).filters : Load(t).filters[name] \in Docs
  BY <1>4, <1>7
<1> QED BY <1>1, <1>6, <1>8 DEF globals, files, jails

(* The last of three.                                                      *)
LEMMA LastOfThree ==
    ASSUME NEW a, NEW b, NEW c
    PROVE  LastOf(<<a, b, c>>) = IF c # {} THEN c ELSE IF b # {} THEN b ELSE a
<1> DEFINE T == {a, b, c}
           s == <<a, b>>
<1>1. <<a>> \in Seq(T) /\ s \in Seq(T) /\ s = Append(<<a>>, b) /\ <<a, b, c>> = Append(s, c)
  OBVIOUS
<1> HIDE DEF s
<1>2. LastOf(Append(<<a>>, b)) = IF b # {} THEN b ELSE LastOf(<<a>>)
  <2> DEFINE u == <<a>>
  <2>1. u \in Seq(T)
    BY <1>1
  <2> HIDE DEF u
  <2>2. LastOf(Append(u, b)) = IF b # {} THEN b ELSE LastOf(u)
    BY <2>1, LastOfAppend
  <2> QED BY <2>2 DEF u
<1>3. LastOf(Append(s, c)) = IF c # {} THEN c ELSE LastOf(s)
  <2>1. s \in Seq(T) /\ c \in T
    BY <1>1
  <2> HIDE DEF T
  <2> QED BY <2>1, LastOfAppend
<1>4. LastOf(<<a>>) = a
  BY LastOfSingle
<1> QED BY <1>1, <1>2, <1>3, <1>4

-----------------------------------------------------------------------------
(* What is said of a jail's setting is what is loaded of it.               *)
LEMMA ValueInSays ==
    ASSUME TreeOK(tree), NEW P, NEW paths \in Seq(P), LoadAll(tree, paths).ok,
           NEW sec, NEW key
    PROVE  ValueIn(paths, sec, key) = Says(LoadAll(tree, paths).doc, sec, key)
BY ValueInIs, LoadAllIs

LEMMA DefaultValueIs ==
    ASSUME TreeOK(tree), LoadAll(tree, JailFiles).ok, NEW key
    PROVE  DefaultValue(Doc, key) = SaysIn(Defaults(Doc), key)
<1>1. /\ LoadAll(tree, JailFiles) \in Res
      /\ ValueIn(JailFiles, "DEFAULT", key) = Says(Doc, "DEFAULT", key)
  BY JailFilesAre, LoadAllIs, ValueInSays DEF Doc
<1>2. Doc \in Docs
  BY <1>1 DEF Res, Doc
<1> QED BY <1>1, <1>2, DefaultsAre DEF DefaultValue

LEMMA SettingIs ==
    ASSUME TreeOK(tree), LoadAll(tree, JailFiles).ok, NEW j \in JailNames(Doc), NEW key
    PROVE  Setting(Doc, j, key) = SaysIn(JailConfig(Doc[j], Defaults(Doc)), key)
<1> DEFINE config == JailConfig(Doc[j], Defaults(Doc))
           a == BuiltIn(key)
           b == DefaultValue(Doc, key)
           c == ValueIn(JailFiles, j, key)
<1>1. b = SaysIn(Defaults(Doc), key)
  BY DefaultValueIs
<1>2. c = SaysIn(Doc[j], key)
  <2>1. c = Says(Doc, j, key)
    BY JailFilesAre, ValueInSays DEF Doc
  <2>2. j \in DOMAIN Doc
    BY DEF JailNames
  <2> QED BY <2>1, <2>2 DEF Says, SaysIn
<1>3. a = SaysIn(JailDefaults, key)
  BY DEF BuiltIn, SaysIn
<1>4. /\ DOMAIN config = DOMAIN Doc[j] \cup DOMAIN Defaults(Doc) \cup DOMAIN JailDefaults
      /\ key \in DOMAIN Doc[j] => config[key] = Doc[j][key]
      /\ key \notin DOMAIN Doc[j] /\ key \in DOMAIN Defaults(Doc) =>
            config[key] = Defaults(Doc)[key]
      /\ key \notin DOMAIN Doc[j] /\ key \notin DOMAIN Defaults(Doc)
         /\ key \in DOMAIN JailDefaults => config[key] = JailDefaults[key]
  BY DEF JailConfig, Over
<1>5. Setting(Doc, j, key) = LastOf(<<a, b, c>>)
  BY DEF Setting
<1> HIDE DEF a, b, c, config
<1>6. Setting(Doc, j, key) = IF c # {} THEN c ELSE IF b # {} THEN b ELSE a
  BY <1>5, LastOfThree
<1> QED BY <1>1, <1>2, <1>3, <1>4, <1>6 DEF SaysIn, config

-----------------------------------------------------------------------------
(* The files are files, what is loaded of them is typed, a load that has   *)
(* failed fails, and the jail that runs has its filter made of what is     *)
(* loaded: inductive together with ConfigInv.                              *)
LoadedTyped ==
    loaded.ok => /\ TextMap(loaded.defaults)
                 /\ \A name \in DOMAIN loaded.filters : loaded.filters[name] \in Docs
MadeOf(filter, params, name) ==
    /\ TextMap(params) /\ name \in DOMAIN loaded.filters
    /\ "Definition" \in DOMAIN loaded.filters[name]
    /\ filter = Materialize(loaded.filters[name],
                    FilterContext(loaded.filters[name], params, loaded.defaults))
RunningMade ==
    running # None =>
        MadeOf(running.filter, running.params,
               ParseSpec(loaded.jails[running.name]["filter"]).name)
FilesInv ==
    /\ TreeOK(tree) /\ LoadedTyped /\ RunningMade
    /\ failed => ~Load(tree).ok

LEMMA SpecParams == \A text : TextMap(ParseSpec(text).params)
BY TextAssumption, EmptyIsText DEF ParseSpec, TextMap

LEMMA TreeOKAfterEdit == TreeOK(tree) /\ Edit => TreeOK(tree')
<1> SUFFICES ASSUME TreeOK(tree), Edit PROVE TreeOK(tree')
  OBVIOUS
<1>1. PICK p \in DOMAIN Menu :
          \/ \E lines \in Menu[p] : tree' = Over(Only(p, lines), tree)
          \/ tree' = [q \in DOMAIN tree \ {p} |-> tree[q]]
  BY DEF Edit
<1>2. CASE \E lines \in Menu[p] : tree' = Over(Only(p, lines), tree)
  <2>1. PICK lines \in Menu[p] : tree' = Over(Only(p, lines), tree)
    BY <1>2
  <2>2. lines \in Seq(Line)
    BY TreesAssumption
  <2>3. DOMAIN tree' = DOMAIN tree \cup {p}
        /\ \A q \in DOMAIN tree' : tree'[q] = IF q = p THEN lines ELSE tree[q]
    BY <2>1 DEF Over, Only
  <2>4. IsFiniteSet(DOMAIN tree \cup {p})
    BY FS_AddElement DEF TreeOK
  <2> QED BY <2>2, <2>3, <2>4 DEF TreeOK
<1>3. CASE tree' = [q \in DOMAIN tree \ {p} |-> tree[q]]
  <2>1. IsFiniteSet(DOMAIN tree \ {p})
    BY FS_Subset DEF TreeOK
  <2> QED BY <1>3, <2>1 DEF TreeOK
<1> QED BY <1>1, <1>2, <1>3

LEMMA LoadedIsTyped ==
    ASSUME NEW t, TreeOK(t), Load(t).ok
    PROVE  /\ TextMap(Load(t).defaults)
           /\ \A name \in DOMAIN Load(t).filters : Load(t).filters[name] \in Docs
<1>1. /\ LoadAll(t, JailFiles) \in Res
      /\ Load(t).defaults = Defaults(LoadAll(t, JailFiles).doc)
      /\ \A name \in DOMAIN Load(t).filters : Load(t).filters[name] \in Docs
  BY LoadIs
<1>2. LoadAll(t, JailFiles).doc \in Docs
  BY <1>1 DEF Res
<1> QED BY <1>1, <1>2, DefaultsAre

LEMMA InitFilesInv == Init => FilesInv
<1> SUFFICES ASSUME Init PROVE FilesInv
  OBVIOUS
<1>1. ~NoConfig.ok
  BY DEF NoConfig
<1> QED BY <1>1, TreesAssumption DEF Init, FilesInv, TreeOK, LoadedTyped, RunningMade

LEMMA EditKeepsFilesInv == FilesInv /\ Edit => FilesInv'
<1> SUFFICES ASSUME FilesInv, Edit PROVE FilesInv'
  OBVIOUS
<1>1. TreeOK(tree)'
  BY TreeOKAfterEdit DEF FilesInv
<1>2. running = None /\ ~failed' /\ UNCHANGED <<loaded, running>>
  BY DEF Edit
<1> QED BY <1>1, <1>2 DEF FilesInv, LoadedTyped, RunningMade

LEMMA ReloadKeepsFilesInv == ConfigInv /\ FilesInv /\ Reload => FilesInv'
<1> SUFFICES ASSUME ConfigInv, FilesInv, Reload PROVE FilesInv'
  OBVIOUS
<1> DEFINE config == Load(tree)
<1> HIDE DEF config
<1>1. tree' = tree /\ TreeOK(tree)' /\ ~failed
  BY DEF Reload, FilesInv
<1>2. CASE config.ok
  <2>1. loaded' = config /\ running' = None /\ failed' = failed
    BY <1>2 DEF Reload, config
  <2>2. /\ TextMap(config.defaults)
        /\ \A name \in DOMAIN config.filters : config.filters[name] \in Docs
    BY <1>2, LoadedIsTyped DEF config, FilesInv
  <2> QED BY <1>1, <2>1, <2>2 DEF FilesInv, LoadedTyped, RunningMade
<1>3. CASE ~config.ok
  <2>1. UNCHANGED <<loaded, running, tree>>
    BY <1>3 DEF Reload, config
  <2>2. ~Load(tree').ok
    BY <1>1, <1>3 DEF config
  <2>3. RunningMade'
    BY <2>1 DEF FilesInv, RunningMade, MadeOf
  <2> QED BY <1>1, <2>1, <2>2, <2>3 DEF FilesInv, LoadedTyped
<1> QED BY <1>2, <1>3

LEMMA StartJailKeepsFilesInv ==
    ASSUME FilesInv, loaded.ok, NEW j \in DOMAIN loaded.jails, StartJail(j)
    PROVE  FilesInv'
<1> DEFINE spec == ParseSpec(loaded.jails[j]["filter"])
<1>1. /\ running'.name = j /\ running'.params = spec.params
      /\ spec.name \in DOMAIN loaded.filters
      /\ "Definition" \in DOMAIN loaded.filters[spec.name]
      /\ running'.filter = Materialize(loaded.filters[spec.name],
             FilterContext(loaded.filters[spec.name], spec.params, loaded.defaults))
      /\ UNCHANGED <<tree, loaded, failed>>
  BY DEF StartJail
<1>2. TextMap(spec.params)
  BY SpecParams
<1>3. RunningMade'
  BY <1>1, <1>2 DEF RunningMade, MadeOf
<1> QED BY <1>1, <1>3 DEF FilesInv, LoadedTyped

LEMMA BanKeepsFilesInv == FilesInv /\ Ban => FilesInv'
<1> SUFFICES ASSUME FilesInv, Ban PROVE FilesInv'
  OBVIOUS
<1>1. UNCHANGED <<tree, loaded, failed, running>>
  BY DEF Ban
<1> QED BY <1>1 DEF FilesInv, LoadedTyped, RunningMade, MadeOf

LEMMA FilesInvHolds == Spec => [](ConfigInv /\ FilesInv)
<1>1. Init => ConfigInv /\ FilesInv
  BY InitConfigInv, InitFilesInv
<1>2. ConfigInv /\ FilesInv /\ [Next]_vars => FilesInv'
  <2>1. FilesInv /\ UNCHANGED vars => FilesInv'
    <3> SUFFICES ASSUME FilesInv, UNCHANGED vars PROVE FilesInv'
      OBVIOUS
    <3>1. UNCHANGED <<tree, loaded, failed, running>>
      BY DEF vars
    <3> QED BY <3>1 DEF FilesInv, LoadedTyped, RunningMade, MadeOf
  <2> QED BY <2>1, EditKeepsFilesInv, ReloadKeepsFilesInv, BanKeepsFilesInv,
             StartJailKeepsFilesInv DEF Next
<1>3. Spec => []ConfigInv
  BY ConfigInvHolds
<1> QED BY <1>1, <1>2, <1>3, PTL DEF Spec

(* Whatever the files are, once they are loaded each setting of each jail  *)
(* is the one that was set last for it, in whichever file and by whichever *)
(* include, or else the default with its variables substituted, or else    *)
(* the built-in one.                                                       *)
THEOREM LastSetterHasTheSay == Spec => []LastSetterWins
<1>1. ConfigInv /\ FilesInv => LastSetterWins
  <2> SUFFICES ASSUME ConfigInv, FilesInv, JustLoaded,
                      NEW j \in DOMAIN loaded.jails, NEW key \in DOMAIN loaded.jails[j]
               PROVE  Setting(Doc, j, key) = {loaded.jails[j][key]}
    BY DEF LastSetterWins
  <2>1. loaded.ok /\ loaded = Load(tree) /\ TreeOK(tree)
    BY DEF ConfigInv, TypeOK, LoadedFromFiles, FilesInv, JustLoaded
  <2>2. LoadAll(tree, JailFiles).ok /\ loaded.jails = JailsOf(Doc)
    BY <2>1, LoadIs DEF Doc
  <2>3. j \in JailNames(Doc) /\ loaded.jails[j] = JailConfig(Doc[j], Defaults(Doc))
    BY <2>2 DEF JailsOf
  <2>4. Setting(Doc, j, key) = SaysIn(loaded.jails[j], key)
    BY <2>1, <2>2, <2>3, SettingIs
  <2> QED BY <2>4 DEF SaysIn
<1> QED BY <1>1, FilesInvHolds, PTL

(* Whatever the files and the depth are, a default and an option of a      *)
(* filter come out as what rounds of substitution make of them, or as they *)
(* were written if variables are left then.                                *)
THEOREM InterpolationSubstitutes == Spec => []InterpolationIsSubstitution
<1>1. ASSUME ConfigInv, FilesInv, JustLoaded, NEW key \in DOMAIN loaded.defaults
      PROVE  {loaded.defaults[key]} = DefaultValue(Doc, key)
  <2>1. loaded.ok /\ loaded = Load(tree) /\ TreeOK(tree)
    BY <1>1 DEF ConfigInv, TypeOK, LoadedFromFiles, FilesInv, JustLoaded
  <2>2. LoadAll(tree, JailFiles).ok /\ loaded.defaults = Defaults(Doc)
    BY <2>1, LoadIs DEF Doc
  <2>3. DefaultValue(Doc, key) = SaysIn(Defaults(Doc), key)
    BY <2>1, <2>2, DefaultValueIs
  <2> QED BY <1>1, <2>2, <2>3 DEF SaysIn
<1>2. ASSUME ConfigInv, FilesInv, running # None
      PROVE  LET name == ParseSpec(loaded.jails[running.name]["filter"]).name
                 doc == loaded.filters[name]
             IN  \A key \in DOMAIN running.filter :
                     running.filter[key] =
                         Substituted(doc["Definition"][key],
                             FilterContext(doc, running.params, loaded.defaults))
  <2> DEFINE name == ParseSpec(loaded.jails[running.name]["filter"]).name
             doc == loaded.filters[name]
             ctx == FilterContext(doc, running.params, loaded.defaults)
  <2>1. /\ TextMap(running.params) /\ name \in DOMAIN loaded.filters
        /\ "Definition" \in DOMAIN doc /\ running.filter = Materialize(doc, ctx)
    BY <1>2 DEF FilesInv, RunningMade, MadeOf
  <2>2. TextMap(loaded.defaults) /\ doc \in Docs
    BY <1>2, <2>1 DEF FilesInv, LoadedTyped, ConfigInv, TypeOK
  <2> HIDE DEF name, doc
  <2>3. TextDoc(doc) /\ \A sec : TextMap(SectionOf(doc, sec))
    BY <2>2, DocIsText, SectionIsText
  <2>4. \A f, g : TextMap(f) /\ TextMap(g) => TextMap(Over(f, g))
    BY DEF TextMap, Over
  <2>5. TextMap(Builtins)
    BY TextAssumption DEF TextMap
  <2>6. TextContext(ctx)
    <3>1. TextMap(Over(running.params, SectionOf(doc, "Init")))
      BY <2>1, <2>3, <2>4
    <3>2. TextMap(Over(Over(running.params, SectionOf(doc, "Init")), SectionOf(doc, "Definition")))
      BY <2>3, <2>4, <3>1
    <3>3. TextMap(Over(loaded.defaults, Builtins))
      BY <2>2, <2>4, <2>5
    <3> QED BY <2>2, <2>3, <3>1, <3>2, <3>3 DEF TextContext, FilterContext
  <2> HIDE DEF ctx
  <2>7. ASSUME NEW key \in DOMAIN running.filter
        PROVE  running.filter[key] = Substituted(doc["Definition"][key], ctx)
    <3>1. SectionOf(doc, "Definition") = doc["Definition"]
      BY <2>1 DEF SectionOf
    <3>2. /\ key \in DOMAIN doc["Definition"]
          /\ running.filter[key] = Interpolated(doc["Definition"][key], ctx)
      BY <2>1, <2>7, <3>1 DEF Materialize
    <3>3. doc["Definition"][key] \in Text
      BY <2>1, <2>3, <3>2 DEF TextDoc, TextMap
    <3> QED BY <2>6, <3>2, <3>3, InterpolatedIsSubstituted
  <2> QED BY <2>7 DEF name, doc, ctx
<1>3. ConfigInv /\ FilesInv => InterpolationIsSubstitution
  BY <1>1, <1>2 DEF InterpolationIsSubstitution
<1> QED BY <1>3, FilesInvHolds, PTL

-----------------------------------------------------------------------------
(* The files reached by includes: the least set that has the first ones    *)
(* and whatever one of it includes.                                        *)
Step(s) == s \cup UNION {Leads(p) : p \in s}
ClosedSet(s) == \A p \in s : Leads(p) \subseteq s
Steps(f, paths, n) ==
    /\ f \in [0..n -> SUBSET DOMAIN tree] /\ f[0] = paths
    /\ \A i, k \in 0..n : k = i + 1 => f[k] = Step(f[i])
ReachEqn(f, paths) ==
    f = [n \in 0..Cardinality(DOMAIN tree) |-> IF n = 0 THEN paths ELSE Step(f[n - 1])]
StepsOf(paths) == CHOOSE f : ReachEqn(f, paths)

LEMMA ReachedIsStep ==
    \A paths : Reached(paths) = StepsOf(paths)[Cardinality(DOMAIN tree)]
BY Zenon DEF Reached, StepsOf, ReachEqn, Step

LEMMA LeadsAreFiles == \A p : Leads(p) \subseteq DOMAIN tree
<1> SUFFICES ASSUME NEW p, NEW name \in NamesIn(p)
             PROVE  IncludePath(tree, name, p) \subseteq DOMAIN tree
  BY DEF Leads
<1> QED BY IncludePathIs

LEMMA StepIs ==
    ASSUME NEW s \in SUBSET DOMAIN tree
    PROVE  /\ s \subseteq Step(s) /\ Step(s) \in SUBSET DOMAIN tree
           /\ ClosedSet(s) <=> Step(s) = s
BY LeadsAreFiles DEF Step, ClosedSet

LEMMA StepsExist ==
    ASSUME NEW paths \in SUBSET DOMAIN tree, NEW n \in Nat
    PROVE  \E f : Steps(f, paths, n)
<1> DEFINE T == SUBSET DOMAIN tree
           step == [i \in Nat |-> [s \in T |-> Step(s)]]
<1>1. \A s \in T : Step(s) \in T
  BY StepIs
<1> HIDE DEF T
<1>2. step \in [Nat -> [T -> T]]
  BY <1>1
<1>3. \A i \in Nat : \A s \in T : step[i][s] = Step(s)
  OBVIOUS
<1> HIDE DEF step
<1>4. PICK f : Runs(f, T, paths, step, n)
  BY <1>2, Recursion DEF T
<1>5. ASSUME NEW i \in 0..n, NEW k \in 0..n, k = i + 1 PROVE f[k] = Step(f[i])
  <2>1. f[k] = step[k][f[k - 1]] /\ k - 1 = i /\ f[i] \in T /\ k \in Nat
    BY <1>4, <1>5 DEF Runs
  <2> QED BY <1>3, <2>1
<1> QED BY <1>4, <1>5 DEF Steps, Runs, T

LEMMA StepsOfAre ==
    ASSUME TreeOK(tree), NEW paths \in SUBSET DOMAIN tree
    PROVE  Steps(StepsOf(paths), paths, Cardinality(DOMAIN tree))
<1> DEFINE N == Cardinality(DOMAIN tree)
           f == StepsOf(paths)
<1>1. N \in Nat
  BY FS_CardinalityType DEF TreeOK
<1>2. PICK g : Steps(g, paths, N)
  BY <1>1, StepsExist
<1>3. g = [n \in 0..N |-> IF n = 0 THEN paths ELSE Step(g[n - 1])]
  <2>1. \A n \in 0..N : g[n] = IF n = 0 THEN paths ELSE Step(g[n - 1])
    <3> SUFFICES ASSUME NEW n \in 0..N, n # 0 PROVE g[n] = Step(g[n - 1])
      BY <1>2 DEF Steps
    <3>1. n - 1 \in 0..N /\ n = (n - 1) + 1
      BY <1>1
    <3> HIDE DEF N
    <3> QED BY <1>2, <3>1 DEF Steps
  <2>2. g = [n \in 0..N |-> g[n]]
    BY <1>2 DEF Steps
  <2> HIDE DEF N
  <2> QED BY <2>1, <2>2
<1>4. ReachEqn(f, paths)
  BY <1>3, Zenon DEF ReachEqn, StepsOf
<1> HIDE DEF f, N
<1>5. f = [n \in 0..N |-> IF n = 0 THEN paths ELSE Step(f[n - 1])]
  BY <1>4 DEF ReachEqn, N
<1>6. /\ \A n \in 0..N : f[n] = IF n = 0 THEN paths ELSE Step(f[n - 1])
      /\ f = [n \in 0..N |-> f[n]]
  BY <1>5
<1>7. \A i, k \in 0..N : k = i + 1 => f[k] = Step(f[i])
  <2> SUFFICES ASSUME NEW i \in 0..N, NEW k \in 0..N, k = i + 1 PROVE f[k] = Step(f[i])
    OBVIOUS
  <2>1. k # 0 /\ k - 1 = i
    BY <1>1
  <2> QED BY <1>6, <2>1
<1>8. f[0] = paths /\ 0 \in 0..N
  BY <1>1, <1>6
<1> DEFINE S == {n \in 0..N : f[n] \in SUBSET DOMAIN tree}
<1>9. \A n \in 0..N : n \in S
  <2>1. 0 \in S
    BY <1>8
  <2>2. ASSUME NEW i \in 0..N, NEW k \in 0..N, k = i + 1, i \in S PROVE k \in S
    BY <1>7, <2>2, StepIs
  <2> HIDE DEF S
  <2> QED BY <1>1, <2>1, <2>2, InductUpTo
<1>10. f \in [0..N -> SUBSET DOMAIN tree]
  BY <1>6, <1>9
<1> QED BY <1>7, <1>8, <1>10 DEF Steps, f, N

Closure(R, paths) ==
    /\ paths \subseteq R /\ R \subseteq DOMAIN tree /\ ClosedSet(R)
    /\ \A Q : paths \subseteq Q /\ ClosedSet(Q) => R \subseteq Q

LEMMA StepGrows ==
    ASSUME TreeOK(tree), NEW s \in SUBSET DOMAIN tree, ~ClosedSet(s)
    PROVE  /\ Cardinality(s) \in Nat /\ Cardinality(Step(s)) \in Nat
           /\ Cardinality(Step(s)) > Cardinality(s)
<1>1. s \subseteq Step(s) /\ Step(s) \in SUBSET DOMAIN tree /\ Step(s) # s
  BY StepIs
<1>2. IsFiniteSet(Step(s)) /\ IsFiniteSet(s)
  BY <1>1, FS_Subset DEF TreeOK
<1>3. Cardinality(s) <= Cardinality(Step(s)) /\ Cardinality(s) # Cardinality(Step(s))
  BY <1>1, <1>2, FS_Subset
<1>4. Cardinality(s) \in Nat /\ Cardinality(Step(s)) \in Nat
  BY <1>2, FS_CardinalityType
<1> QED BY <1>3, <1>4

LEMMA ReachedIsClosure ==
    ASSUME TreeOK(tree), NEW paths \in SUBSET DOMAIN tree
    PROVE  Closure(Reached(paths), paths)
<1> DEFINE D == DOMAIN tree
           N == Cardinality(D)
           f == StepsOf(paths)
<1>1. N \in Nat /\ IsFiniteSet(D)
  BY FS_CardinalityType DEF TreeOK
<1>2. Steps(f, paths, N) /\ Reached(paths) = f[N]
  BY StepsOfAre, ReachedIsStep
<1> HIDE DEF f
<1>3. /\ f[0] = paths /\ \A i \in 0..N : f[i] \in SUBSET D
      /\ \A i, k \in 0..N : k = i + 1 => f[k] = Step(f[i])
  BY <1>2 DEF Steps
<1> HIDE DEF N, D
<1>4. \A i, k \in 0..N : k = i + 1 => f[i] \subseteq f[k]
  BY <1>3, StepIs DEF D
<1> DEFINE S == {i \in 0..N : /\ paths \subseteq f[i]
                              /\ ClosedSet(f[i]) \/ Cardinality(f[i]) >= i}
<1>5. \A i \in 0..N : i \in S
  <2>1. 0 \in S
    <3>1. Cardinality(f[0]) \in Nat
      BY <1>1, <1>3, FS_Subset, FS_CardinalityType
    <3> QED BY <1>1, <1>3, <3>1
  <2>2. ASSUME NEW i \in 0..N, NEW k \in 0..N, k = i + 1, i \in S PROVE k \in S
    <3>1. f[k] = Step(f[i]) /\ f[i] \in SUBSET DOMAIN tree /\ paths \subseteq f[k]
      BY <1>3, <1>4, <2>2 DEF D
    <3>2. CASE ClosedSet(f[i])
      <4>1. f[k] = f[i]
        BY <3>1, <3>2, StepIs
      <4> QED BY <3>1, <3>2, <4>1
    <3>3. CASE ~ClosedSet(f[i])
      <4>1. /\ Cardinality(f[i]) \in Nat /\ Cardinality(f[k]) \in Nat
            /\ Cardinality(f[k]) > Cardinality(f[i])
        BY <3>1, <3>3, StepGrows
      <4>2. Cardinality(f[i]) >= i
        BY <2>2, <3>3
      <4>3. Cardinality(f[k]) >= k
        BY <1>1, <2>2, <4>1, <4>2
      <4> QED BY <3>1, <4>3
    <3> QED BY <3>2, <3>3
  <2> HIDE DEF S
  <2> QED BY <1>1, <2>1, <2>2, InductUpTo
<1>6. N \in 0..N /\ N \in S /\ f[N] \in SUBSET D
  BY <1>1, <1>3, <1>5
<1>7. ClosedSet(f[N])
  <2>1. CASE Cardinality(f[N]) >= N
    <3>1. Cardinality(f[N]) <= N /\ Cardinality(f[N]) \in Nat
      BY <1>1, <1>6, FS_Subset, FS_CardinalityType DEF N
    <3>2. Cardinality(f[N]) = Cardinality(D)
      BY <1>1, <2>1, <3>1 DEF N
    <3>3. f[N] = D
      BY <1>1, <1>6, <3>2, FS_Subset
    <3> QED BY <3>3, LeadsAreFiles DEF D, ClosedSet
  <2> QED BY <1>6, <2>1
<1>8. ASSUME NEW Q, paths \subseteq Q, ClosedSet(Q) PROVE f[N] \subseteq Q
  <2> DEFINE U == {i \in 0..N : f[i] \subseteq Q}
  <2>1. 0 \in U
    BY <1>1, <1>3, <1>8
  <2>2. ASSUME NEW i \in 0..N, NEW k \in 0..N, k = i + 1, i \in U PROVE k \in U
    <3>1. f[k] = Step(f[i]) /\ f[i] \subseteq Q
      BY <1>3, <2>2
    <3>2. Step(f[i]) \subseteq Q
      BY <1>8, <3>1 DEF Step, ClosedSet
    <3> QED BY <3>1, <3>2
  <2> HIDE DEF U
  <2>3. \A i \in 0..N : i \in U
    BY <1>1, <2>1, <2>2, InductUpTo
  <2> QED BY <1>6, <2>3 DEF U
<1> QED BY <1>2, <1>6, <1>7, <1>8 DEF Closure, D

(* From one file: itself, and what is reached from the files it includes.  *)
LEMMA ReachedFromOne ==
    ASSUME TreeOK(tree), NEW p \in DOMAIN tree
    PROVE  Reached({p}) = {p} \cup Reached(Leads(p))
<1> DEFINE R == Reached({p})
           L == Reached(Leads(p))
<1>1. Closure(R, {p}) /\ Closure(L, Leads(p))
  BY LeadsAreFiles, ReachedIsClosure
<1> HIDE DEF R, L
<1>2. Leads(p) \subseteq R
  BY <1>1 DEF Closure, ClosedSet
<1>3. L \subseteq R
  BY <1>1, <1>2 DEF Closure
<1>4. ClosedSet({p} \cup L)
  BY <1>1 DEF Closure, ClosedSet
<1>5. R \subseteq {p} \cup L
  BY <1>1, <1>4 DEF Closure
<1> QED BY <1>1, <1>3, <1>5 DEF Closure, R, L

(* From several: what is reached from one of them.                         *)
LEMMA ReachedFromEach ==
    ASSUME TreeOK(tree), NEW paths \in SUBSET DOMAIN tree
    PROVE  Reached(paths) = UNION {Reached({p}) : p \in paths}
<1> DEFINE R == Reached(paths)
           U == UNION {Reached({p}) : p \in paths}
<1>1. Closure(R, paths)
  BY ReachedIsClosure
<1>2. \A p \in paths : Closure(Reached({p}), {p})
  BY ReachedIsClosure
<1> HIDE DEF R
<1>3. \A p \in paths : Reached({p}) \subseteq R
  BY <1>1, <1>2 DEF Closure
<1>4. paths \subseteq U
  BY <1>2 DEF Closure
<1>5. ClosedSet(U)
  <2> SUFFICES ASSUME NEW q \in U PROVE Leads(q) \subseteq U
    BY DEF ClosedSet
  <2>1. PICK p \in paths : q \in Reached({p})
    OBVIOUS
  <2>2. Leads(q) \subseteq Reached({p})
    BY <1>2, <2>1 DEF Closure, ClosedSet
  <2>3. Reached({p}) \subseteq U
    OBVIOUS
  <2> QED BY <2>2, <2>3
<1> HIDE DEF U
<1>6. R \subseteq U
  BY <1>1, <1>4, <1>5 DEF Closure
<1>7. U \subseteq R
  BY <1>3 DEF U
<1> QED BY <1>6, <1>7 DEF R, U

-----------------------------------------------------------------------------
(* A file is resolved when all it reaches can be read, and none of that is *)
(* on the way to it.                                                       *)
FineFrom(p, seen) == \A o \in Reached({p}) : ReadableFile(o) /\ o \notin seen

LEMMA NamesInAre ==
    ASSUME TreeOK(tree), NEW p \in DOMAIN tree, NEW r, NEW seen,
           Given(r, DOMAIN tree, seen \cup {p}, Res)
    PROVE  AllOk(Before(tree, r, p, seen)) /\ AllOk(After(tree, r, p, seen)) <=>
             \A name \in NamesIn(p) :
                 \E q \in DOMAIN tree : /\ IncludePath(tree, name, p) = {q}
                                        /\ r[seen \cup {p}][q].ok
<1> DEFINE Found1(name) == \E q \in DOMAIN tree : /\ IncludePath(tree, name, p) = {q}
                                                 /\ r[seen \cup {p}][q].ok
           a == Named(tree[p], "before")
           b == Named(tree[p], "after")
<1>1. a \in Seq(Word) /\ b \in Seq(Word)
  BY NamesAreWords DEF TreeOK
<1>2. /\ AllOk(Before(tree, r, p, seen)) <=> \A i \in 1..Len(a) : Found1(a[i])
      /\ AllOk(After(tree, r, p, seen)) <=> \A i \in 1..Len(b) : Found1(b[i])
  <2>1. AllOk(Before(tree, r, p, seen)) <=> AllFound(tree, r, a, p, seen)
    BY <1>1, IncludedOk DEF Before
  <2>2. AllOk(After(tree, r, p, seen)) <=> AllFound(tree, r, b, p, seen)
    BY <1>1, IncludedOk DEF After
  <2> QED BY <2>1, <2>2 DEF AllFound
<1>3. NamesIn(p) = Range(a) \cup Range(b)
  BY DEF NamesIn
<1> HIDE DEF a, b, Found1
<1>4. /\ Range(a) = {a[i] : i \in 1..Len(a)}
      /\ Range(b) = {b[i] : i \in 1..Len(b)}
  BY <1>1, LenProperties DEF Range
<1>5. (\A name \in NamesIn(p) : Found1(name)) <=>
        (\A i \in 1..Len(a) : Found1(a[i])) /\ (\A i \in 1..Len(b) : Found1(b[i]))
  BY <1>3, <1>4
<1> QED BY <1>2, <1>5 DEF Found1

LEMMA LeadsAre ==
    ASSUME NEW p, NEW ok
    PROVE  (\A name \in NamesIn(p) :
                \E q \in DOMAIN tree : IncludePath(tree, name, p) = {q} /\ ok[q].ok)
           <=> /\ \A name \in NamesIn(p) : IncludePath(tree, name, p) # {}
               /\ \A q \in Leads(p) : ok[q].ok
<1>1. ASSUME \A name \in NamesIn(p) :
                \E q \in DOMAIN tree : IncludePath(tree, name, p) = {q} /\ ok[q].ok
      PROVE  /\ \A name \in NamesIn(p) : IncludePath(tree, name, p) # {}
             /\ \A q \in Leads(p) : ok[q].ok
  <2>1. \A name \in NamesIn(p) : IncludePath(tree, name, p) # {}
    BY <1>1
  <2>2. ASSUME NEW q \in Leads(p) PROVE ok[q].ok
    <3>1. PICK name \in NamesIn(p) : q \in IncludePath(tree, name, p)
      BY <2>2 DEF Leads
    <3> QED BY <1>1, <3>1
  <2> QED BY <2>1, <2>2
<1>2. ASSUME \A name \in NamesIn(p) : IncludePath(tree, name, p) # {},
             \A q \in Leads(p) : ok[q].ok, NEW name \in NamesIn(p)
      PROVE  \E q \in DOMAIN tree : IncludePath(tree, name, p) = {q} /\ ok[q].ok
  <2>1. PICK q \in DOMAIN tree : IncludePath(tree, name, p) = {q}
    BY <1>2, IncludePathIs
  <2>2. q \in Leads(p)
    BY <2>1 DEF Leads
  <2> QED BY <1>2, <2>1, <2>2
<1> QED BY <1>1, <1>2

LEMMA ResolvedFine ==
    ASSUME TreeOK(tree), NEW seen \in SUBSET DOMAIN tree, NEW p \in DOMAIN tree
    PROVE  Resolve(tree)[seen][p].ok <=> FineFrom(p, seen)
<1> DEFINE D == DOMAIN tree
           r == Resolve(tree)
           S == {x \in SUBSET D : \A q \in D : r[x][q].ok <=> FineFrom(q, x)}
<1>1. \A x \in SUBSET D : \A q \in D : r[x][q] = Resolved(tree, r, q, x) /\ r[x][q] \in Res
  BY ResolveIs
<1> HIDE DEF r
<1>2. ASSUME NEW x \in SUBSET D, \A q \in D : q \notin x => x \cup {q} \in S, NEW q \in D
      PROVE  r[x][q].ok <=> FineFrom(q, x)
  <2>1. x \cup {q} \in SUBSET D /\ Given(r, D, x \cup {q}, Res)
    BY <1>1 DEF Given
  <2>2. r[x][q].ok <=> /\ q \notin x /\ ~Broken(tree[q])
                       /\ AllOk(Before(tree, r, q, x)) /\ AllOk(After(tree, r, q, x))
    <3> DEFINE R == Resolved(tree, r, q, x)
    <3>1. R.ok <=> /\ q \notin x /\ ~Broken(tree[q])
                   /\ AllOk(Before(tree, r, q, x)) /\ AllOk(After(tree, r, q, x))
      BY <2>1, ResolvedParts
    <3>2. r[x][q] = R
      BY <1>1
    <3> QED BY <3>1, <3>2
  <2> DEFINE found == \A name \in NamesIn(q) : IncludePath(tree, name, q) # {}
  <2>3. AllOk(Before(tree, r, q, x)) /\ AllOk(After(tree, r, q, x))
        <=> found /\ \A o \in Leads(q) : r[x \cup {q}][o].ok
    <3> DEFINE ok == r[x \cup {q}]
    <3>1. AllOk(Before(tree, r, q, x)) /\ AllOk(After(tree, r, q, x))
          <=> \A name \in NamesIn(q) :
                 \E o \in DOMAIN tree : IncludePath(tree, name, q) = {o} /\ ok[o].ok
      BY <2>1, NamesInAre
    <3> HIDE DEF ok
    <3>2. (\A name \in NamesIn(q) :
                 \E o \in DOMAIN tree : IncludePath(tree, name, q) = {o} /\ ok[o].ok)
          <=> found /\ \A o \in Leads(q) : ok[o].ok
      BY LeadsAre
    <3> QED BY <3>1, <3>2 DEF ok
  <2>4. Leads(q) \subseteq D
    BY LeadsAreFiles
  <2>5. q \notin x => \A o \in Leads(q) : r[x \cup {q}][o].ok <=> FineFrom(o, x \cup {q})
    BY <1>2, <2>4
  <2> DEFINE L == Reached(Leads(q))
  <2>6. L = UNION {Reached({o}) : o \in Leads(q)} /\ Reached({q}) = {q} \cup L
    BY <2>4, ReachedFromEach, ReachedFromOne
  <2>7. ReadableFile(q) <=> ~Broken(tree[q]) /\ q \notin L /\ found
    BY DEF ReadableFile
  <2> HIDE DEF L, found, S, D
  <2>8. (\A o \in Leads(q) : FineFrom(o, x \cup {q}))
        <=> q \notin L /\ \A o \in L : ReadableFile(o) /\ o \notin x
    BY <2>6 DEF FineFrom
  <2>9. FineFrom(q, x) <=> /\ ReadableFile(q) /\ q \notin x
                           /\ \A o \in L : ReadableFile(o) /\ o \notin x
    BY <2>6 DEF FineFrom
  <2> QED BY <2>2, <2>3, <2>5, <2>7, <2>8, <2>9
<1>3. ASSUME NEW x \in SUBSET D, \A q \in D : q \notin x => x \cup {q} \in S PROVE x \in S
  BY <1>2, <1>3
<1>4. IsFiniteSet(D)
  BY DEF TreeOK
<1> HIDE DEF S
<1>5. \A x \in SUBSET D : x \in S
  <2> HIDE DEF D
  <2> QED BY <1>3, <1>4, SeenInduct
<1>6. \A q \in D : r[seen][q].ok <=> FineFrom(q, seen)
  BY <1>5 DEF S
<1> QED BY <1>6 DEF r

(* And the files of a list are read when all they reach can be.            *)
LEMMA LoadsWhenReadable ==
    ASSUME TreeOK(tree), NEW P, NEW paths \in Seq(P)
    PROVE  LoadAll(tree, paths).ok <=> Readable(paths)
<1>1. LoadAll(tree, paths).ok <=> \A i \in 1..Len(paths) : Part(tree, paths[i]).ok
  BY LoadAllIs
<1>2. ASSUME NEW p
      PROVE  Part(tree, p).ok <=> (p \in DOMAIN tree => \A o \in Reached({p}) : ReadableFile(o))
  <2>1. CASE p \in DOMAIN tree
    <3>1. {} \in SUBSET DOMAIN tree
      OBVIOUS
    <3>2. Resolve(tree)[{}][p].ok <=> FineFrom(p, {})
      BY <2>1, <3>1, ResolvedFine
    <3>3. FineFrom(p, {}) <=> \A o \in Reached({p}) : ReadableFile(o)
      BY DEF FineFrom
    <3> QED BY <2>1, <3>2, <3>3 DEF Part
  <2>2. CASE p \notin DOMAIN tree
    <3>1. Good(NoDoc).ok
      BY DEF Good
    <3> QED BY <2>2, <3>1 DEF Part
  <2> QED BY <2>1, <2>2
<1>3. DOMAIN paths = 1..Len(paths)
  BY LenProperties
<1>4. There(paths) = {paths[i] : i \in 1..Len(paths)} \cap DOMAIN tree
  BY <1>3 DEF There, Range
<1>5. LoadAll(tree, paths).ok
      <=> \A p \in There(paths) : \A o \in Reached({p}) : ReadableFile(o)
  BY <1>1, <1>2, <1>4
<1>6. Reached(There(paths)) = UNION {Reached({p}) : p \in There(paths)}
  <2>1. There(paths) \in SUBSET DOMAIN tree
    BY <1>4
  <2> QED BY <2>1, ReachedFromEach
<1> QED BY <1>5, <1>6 DEF Readable

-----------------------------------------------------------------------------
(* A document has no section if no file of it has a header.                *)
AllEmpty(docs) == \A i \in 1..Len(docs) : DOMAIN docs[i] = {}

LEMMA MergedEmpty ==
    ASSUME NEW docs \in Seq(Docs)
    PROVE  DOMAIN Merged(docs) = {} <=> AllEmpty(docs)
<1> DEFINE S == {s \in Seq(Docs) : DOMAIN Merged(s) = {} <=> AllEmpty(s)}
<1>1. <<>> \in S
  <2>1. <<>> \in Seq(Docs) /\ Len(<<>>) = 0 /\ Merged(<<>>) = <<>> /\ DOMAIN <<>> = {}
    BY EmptySeq, MergedGrows, EmptyIsDoc
  <2> QED BY <2>1 DEF AllEmpty
<1>2. ASSUME NEW s \in Seq(Docs) \cap S, NEW d \in Docs PROVE Append(s, d) \in S
  <2> DEFINE u == Append(s, d)
  <2>1. /\ u \in Seq(Docs) /\ Len(u) = Len(s) + 1 /\ Len(s) \in Nat
        /\ \A i \in 1..Len(s) : u[i] = s[i]
        /\ u[Len(s) + 1] = d
    BY AppendProperties, LenProperties
  <2>2. Merged(u) = MergeDocs(Merged(s), d)
    BY MergedGrows
  <2>3. DOMAIN Merged(u) = DOMAIN Merged(s) \cup DOMAIN d
    BY <2>2 DEF MergeDocs
  <2> HIDE DEF u
  <2> DEFINE k == Len(s) + 1
  <2>4. k \in 1..Len(u) /\ (\A i \in 1..Len(s) : i \in 1..Len(u))
        /\ (\A i \in 1..Len(u) : i \in 1..Len(s) \/ i = k)
    BY <2>1
  <2> HIDE DEF k
  <2>5. AllEmpty(u) <=> AllEmpty(s) /\ DOMAIN d = {}
    BY <2>1, <2>4 DEF AllEmpty, k
  <2> QED BY <1>2, <2>1, <2>3, <2>5 DEF u
<1> HIDE DEF S
<1>3. Seq(Docs) \subseteq S
  BY <1>1, <1>2, SeqInduct
<1> QED BY <1>3 DEF S

NoneSays(parts) == \A i \in 1..Len(parts) : DOMAIN parts[i].doc = {}

LEMMA MergeAllEmpty ==
    ASSUME NEW parts \in Seq(Res), MergeAll(parts).ok
    PROVE  DOMAIN MergeAll(parts).doc = {} <=> NoneSays(parts)
<1> DEFINE docs == Each(parts, DocFun)
<1>1. MergeAll(parts).doc = Merged(docs)
  BY MergeAllIs
<1>2. /\ Len(docs) = Len(parts)
      /\ \A i \in 1..Len(parts) : docs[i] = DocFun[parts[i]]
  BY EachIs
<1>3. DocFun \in [Res -> Docs]
  BY DEF DocFun, Res
<1>4. docs \in Seq(Docs)
  BY <1>3, EachType
<1>5. \A i \in 1..Len(parts) : parts[i] \in Res
  BY ElementOfSeq
<1> HIDE DEF docs
<1>6. AllEmpty(docs) <=> NoneSays(parts)
  BY <1>2, <1>5 DEF AllEmpty, NoneSays, DocFun
<1> QED BY <1>1, <1>4, <1>6, MergedEmpty

HasHeader(lines) == \E i \in 1..Len(lines) : lines[i].is = "header"

LEMMA NoHeaderNoNames ==
    ASSUME NEW lines \in Seq(Line), ~HasHeader(lines), NEW key
    PROVE  Named(lines, key) = <<>>
<1>1. DOMAIN lines = 1..Len(lines) /\ Len(lines) \in Nat
  BY LenProperties
<1>2. \A h : h \notin Headers(lines, "INCLUDES")
  BY <1>1 DEF HasHeader, Headers
<1>3. \A h : Item(lines, key, h) = <<>>
  BY <1>2, ItemIs
<1>4. Gathered(lines, key, Len(lines)) = Gathered(lines, key, 0)
  BY <1>1, <1>3, GatheredStays
<1> QED BY <1>4, GatheredIs

LEMMA HeadersAreNames ==
    ASSUME NEW lines \in Seq(Line)
    PROVE  HeaderNames(lines) = {} <=> ~HasHeader(lines)
<1>1. DOMAIN lines = 1..Len(lines)
  BY LenProperties
<1> QED BY <1>1 DEF HeaderNames, HasHeader

LEMMA ResolvedEmpty ==
    ASSUME NEW t, TreeOK(t), NEW p \in DOMAIN t, Resolve(t)[{}][p].ok
    PROVE  DOMAIN Resolve(t)[{}][p].doc = {} <=> ~HasHeader(t[p])
<1> DEFINE r == Resolve(t)
           a == Before(t, r, p, {})
           b == After(t, r, p, {})
           m == Good(MergeFile(Parse(t[p]).secs))
           all == a \o <<m>> \o b
<1>1. {} \in SUBSET DOMAIN t /\ {} \cup {p} \in SUBSET DOMAIN t /\ t[p] \in Seq(Line)
  BY DEF TreeOK
<1>2. r[{}][p] = Resolved(t, r, p, {}) /\ Given(r, DOMAIN t, {} \cup {p}, Res)
  BY <1>1, ResolveIs DEF Given
<1> HIDE DEF r
<1>3. /\ ~Broken(t[p]) /\ a \in Seq(Res) /\ b \in Seq(Res) /\ m \in Res
      /\ r[{}][p] = MergeAll(a \o <<m>> \o b)
  <2>1. Resolved(t, r, p, {}).ok
    BY <1>2 DEF r
  <2> QED BY <1>2, <2>1, ResolvedParts
<1>4. Parse(t[p]).ok
  BY <1>1, <1>3, FileReads
<1>5. DOMAIN m.doc = {} <=> ~HasHeader(t[p])
  <2>1. DOMAIN MergeFile(Parse(t[p]).secs) = HeaderNames(t[p])
    BY <1>1, <1>4, FileSays
  <2>2. m.doc = MergeFile(Parse(t[p]).secs)
    BY DEF Good
  <2> QED BY <1>1, <2>1, <2>2, HeadersAreNames
<1>6. ~HasHeader(t[p]) => Len(a) = 0 /\ Len(b) = 0
  <2> SUFFICES ASSUME ~HasHeader(t[p]) PROVE Len(a) = 0 /\ Len(b) = 0
    OBVIOUS
  <2>1. Named(t[p], "before") = <<>> /\ Named(t[p], "after") = <<>>
        /\ <<>> \in Seq(Word) /\ Len(<<>>) = 0
    BY <1>1, NoHeaderNoNames, EmptySeq
  <2>2. \A names \in Seq(Word) : Len(Included(t, r, names, p, {})) = Len(names)
    BY <1>2, IncludedIs
  <2> QED BY <2>1, <2>2 DEF Before, After
<1> HIDE DEF a, b, m
<1>7. /\ Len(a) \in Nat /\ Len(b) \in Nat /\ Len(all) = Len(a) + 1 + Len(b)
      /\ all[Len(a) + 1] = m /\ all \in Seq(Res)
  <2>1. <<m>> \in Seq(Res) /\ a \in Seq(Res) /\ b \in Seq(Res)
    BY <1>3
  <2> QED BY <2>1
<1> HIDE DEF all
<1>8. MergeAll(all) = r[{}][p] /\ MergeAll(all).ok
  BY <1>3 DEF all, r
<1>9. DOMAIN MergeAll(all).doc = {} <=> NoneSays(all)
  BY <1>7, <1>8, MergeAllEmpty
<1>10. NoneSays(all) => DOMAIN m.doc = {}
  <2> DEFINE k == Len(a) + 1
  <2>1. k \in 1..Len(all)
    BY <1>7
  <2> QED BY <1>7, <2>1 DEF NoneSays
<1>11. ~HasHeader(t[p]) => NoneSays(all)
  <2> SUFFICES ASSUME ~HasHeader(t[p]) PROVE NoneSays(all)
    OBVIOUS
  <2>1. Len(all) = 1 /\ all[1] = m /\ DOMAIN m.doc = {}
    BY <1>5, <1>6, <1>7
  <2> QED BY <2>1 DEF NoneSays
<1> QED BY <1>5, <1>8, <1>9, <1>10, <1>11 DEF r

LEMMA PartEmpty ==
    ASSUME NEW t, TreeOK(t), NEW p, Part(t, p).ok
    PROVE  DOMAIN Part(t, p).doc = {} <=> (p \in DOMAIN t => ~HasHeader(t[p]))
<1>1. CASE p \in DOMAIN t
  BY <1>1, ResolvedEmpty DEF Part
<1>2. CASE p \notin DOMAIN t
  <2>1. Part(t, p).doc = NoDoc /\ DOMAIN NoDoc = {}
    BY <1>2, EmptyIsDoc DEF Part, Good, NoDoc
  <2> QED BY <1>2, <2>1
<1> QED BY <1>1, <1>2

LEMMA LoadAllEmpty ==
    ASSUME NEW t, TreeOK(t), NEW P, NEW paths \in Seq(P), LoadAll(t, paths).ok
    PROVE  DOMAIN LoadAll(t, paths).doc = {} <=>
             \A i \in 1..Len(paths) : paths[i] \in DOMAIN t => ~HasHeader(t[paths[i]])
<1> DEFINE n == Len(paths)
           parts == [i \in 1..n |-> Part(t, paths[i])]
<1>1. n \in Nat /\ DOMAIN paths = 1..n
  BY LenProperties
<1>2. \A i \in 1..n : Part(t, paths[i]) \in Res
  BY PartIs
<1>3. \A i \in DOMAIN paths :
          (IF paths[i] \in DOMAIN t THEN ResolveIncludes(t, paths[i]) ELSE Good(NoDoc))
          = Part(t, paths[i])
  BY ResolveIncludesIs DEF Part
<1>4. [i \in DOMAIN paths |->
          IF paths[i] \in DOMAIN t THEN ResolveIncludes(t, paths[i]) ELSE Good(NoDoc)] = parts
  BY <1>1, <1>3
<1>5. \A i \in 1..n : parts[i] = Part(t, paths[i])
  OBVIOUS
<1>6. parts \in [1..n -> Res]
  BY <1>2
<1>7. LoadAll(t, paths) = MergeAll(Tuple(parts))
  BY <1>4 DEF LoadAll
<1> HIDE DEF n, parts
<1>8. parts \in Seq(Res) /\ Len(parts) = n
  BY <1>1, <1>6
<1>9. LoadAll(t, paths) = MergeAll(parts)
  BY <1>7, <1>8, TupleIsSame
<1>10. DOMAIN MergeAll(parts).doc = {} <=> NoneSays(parts)
  BY <1>8, <1>9, MergeAllEmpty
<1>11. \A i \in 1..n : Part(t, paths[i]).ok
  BY LoadAllIs DEF n
<1>12. NoneSays(parts) <=>
         \A i \in 1..n : paths[i] \in DOMAIN t => ~HasHeader(t[paths[i]])
  BY <1>5, <1>8, <1>11, PartEmpty DEF NoneSays
<1> QED BY <1>9, <1>10, <1>12 DEF n

-----------------------------------------------------------------------------
(* A filter can be loaded when some file of it has a section, and all its  *)
(* files can be read.                                                      *)
LEMMA FilterLoads ==
    ASSUME TreeOK(tree), NEW name
    PROVE  LoadDefinition(tree, "filter.d", name).ok <=> ~FilterFails(name)
<1> DEFINE files == DefinitionFiles("filter.d", name)
           P == PathsOf({name \o ".conf", name \o ".local"})
           l == LoadAll(tree, files)
<1>1. files \in Seq(P)
  BY DefinitionFilesAre
<1>2. LoadDefinition(tree, "filter.d", name).ok <=> l.ok /\ DOMAIN l.doc # {}
  BY LoadDefinitionIs
<1>3. FilterFails(name) <=>
        \/ \A p \in There(files) : \A x \in Range(tree[p]) : x.is # "header"
        \/ ~Readable(files)
  BY DEF FilterFails
<1> HIDE DEF files, P
<1>4. l.ok <=> Readable(files)
  BY <1>1, LoadsWhenReadable
<1>5. ASSUME NEW p \in DOMAIN tree
      PROVE  HasHeader(tree[p]) <=> \E x \in Range(tree[p]) : x.is = "header"
  <2>1. tree[p] \in Seq(Line)
    BY DEF TreeOK
  <2>2. DOMAIN tree[p] = 1..Len(tree[p])
    BY <2>1, LenProperties
  <2>3. Range(tree[p]) = {tree[p][i] : i \in 1..Len(tree[p])}
    BY <2>2 DEF Range
  <2> QED BY <2>3 DEF HasHeader
<1>6. DOMAIN files = 1..Len(files)
  BY <1>1, LenProperties
<1>7. There(files) = {files[i] : i \in 1..Len(files)} \cap DOMAIN tree
  BY <1>6 DEF There, Range
<1>8. (\A p \in There(files) : \A x \in Range(tree[p]) : x.is # "header")
      <=> \A i \in 1..Len(files) : files[i] \in DOMAIN tree => ~HasHeader(tree[files[i]])
  BY <1>5, <1>7
<1>9. l.ok => (DOMAIN l.doc = {} <=>
          \A i \in 1..Len(files) : files[i] \in DOMAIN tree => ~HasHeader(tree[files[i]]))
  BY <1>1, LoadAllEmpty
<1> HIDE DEF l
<1> QED BY <1>2, <1>3, <1>4, <1>8, <1>9

(* The cause of a failure, setting by setting.                             *)
BadSetting(doc) ==
    \E j \in JailNames(doc), key \in DOMAIN KeyType \cup {"filter"} :
        \E v \in Setting(doc, j, key) : SettingFails(key, v)

LEMMA PurgeAgeParses ==
    ASSUME TreeOK(tree), LoadAll(tree, EachDir(GlobalFilesOf)).ok
    PROVE  GlobalsParse(LoadAll(tree, EachDir(GlobalFilesOf)).doc) <=> ~PurgeAgeFails
<1> DEFINE doc == LoadAll(tree, EachDir(GlobalFilesOf)).doc
           settings == SectionOf(doc, "Definition")
<1>1. ValueIn(EachDir(GlobalFilesOf), "Definition", "dbpurgeage")
      = Says(doc, "Definition", "dbpurgeage")
  BY GlobalFilesAre, ValueInSays
<1> HIDE DEF doc
<1>2. Says(doc, "Definition", "dbpurgeage") = SaysIn(settings, "dbpurgeage")
  <2>1. "Definition" \in DOMAIN doc => settings = doc["Definition"]
    BY DEF SectionOf
  <2>2. "Definition" \notin DOMAIN doc => DOMAIN settings = {}
    BY EmptyIsDoc DEF SectionOf
  <2> HIDE DEF settings
  <2> QED BY <2>1, <2>2 DEF Says, SaysIn
<1>3. GlobalsParse(doc) <=>
        ("dbpurgeage" \in DOMAIN settings => Parses("time", settings["dbpurgeage"]))
  BY DEF GlobalsParse
<1> HIDE DEF settings
<1>4. GlobalsParse(doc) <=> ~PurgeAgeFails
  BY <1>1, <1>2, <1>3 DEF PurgeAgeFails, SaysIn
<1> QED BY <1>4 DEF doc

(* A jail's configuration can be loaded: its settings, and its filter.     *)
Loadable(config) ==
    /\ WellTyped(config)
    /\ config["filter"] # <<>> => ~FilterFails(ParseSpec(config["filter"]).name)

LEMMA JailLoads ==
    ASSUME TreeOK(tree), LoadAll(tree, JailFiles).ok, NEW j \in JailNames(Doc)
    PROVE  Loadable(JailConfig(Doc[j], Defaults(Doc))) <=>
             \A key \in DOMAIN KeyType \cup {"filter"} :
                 \A v \in Setting(Doc, j, key) : ~SettingFails(key, v)
<1> DEFINE config == JailConfig(Doc[j], Defaults(Doc))
<1>1. \A key : Setting(Doc, j, key) = SaysIn(config, key)
  BY SettingIs
<1>2. "filter" \in DOMAIN config
  BY SettingsAssumption DEF JailConfig, Over
<1> HIDE DEF config
<1>3. ASSUME NEW key \in DOMAIN KeyType
      PROVE  (\A v \in SaysIn(config, key) : ~SettingFails(key, v))
             <=> (key \in DOMAIN config => Parses(KeyType[key], config[key]))
  <2>1. key # "filter"
    BY <1>3, SettingsAssumption
  <2> QED BY <2>1 DEF SettingFails, SaysIn
<1>4. (\A v \in SaysIn(config, "filter") : ~SettingFails("filter", v))
      <=> (config["filter"] # <<>> =>
             /\ ParseSpec(config["filter"]).ok
             /\ ~FilterFails(ParseSpec(config["filter"]).name))
  <2>1. SaysIn(config, "filter") = {config["filter"]}
    BY <1>2 DEF SaysIn
  <2>2. \A v : SettingFails("filter", v)
                <=> v # <<>> /\ (~ParseSpec(v).ok \/ FilterFails(ParseSpec(v).name))
    BY DEF SettingFails
  <2> QED BY <2>1, <2>2
<1>5. WellTyped(config) <=>
        /\ config["filter"] # <<>> => ParseSpec(config["filter"]).ok
        /\ \A key \in DOMAIN KeyType :
              key \in DOMAIN config => Parses(KeyType[key], config[key])
  BY DEF WellTyped
<1>6. Loadable(config) <=>
        /\ \A key \in DOMAIN KeyType : \A v \in SaysIn(config, key) : ~SettingFails(key, v)
        /\ \A v \in SaysIn(config, "filter") : ~SettingFails("filter", v)
  BY <1>3, <1>4, <1>5 DEF Loadable
<1> QED BY <1>1, <1>6 DEF config

LEMMA JailsLoad ==
    ASSUME TreeOK(tree), LoadAll(tree, JailFiles).ok
    PROVE  /\ \A j \in DOMAIN JailsOf(Doc) : WellTyped(JailsOf(Doc)[j])
           /\ LoadsFilters(tree, JailsOf(Doc))
           <=> ~BadSetting(Doc)
<1> DEFINE jails == JailsOf(Doc)
<1>1. DOMAIN jails = JailNames(Doc)
      /\ \A j \in JailNames(Doc) : jails[j] = JailConfig(Doc[j], Defaults(Doc))
  BY DEF JailsOf
<1> HIDE DEF jails
<1>2. FiltersOf(jails) = {ParseSpec(jails[j]["filter"]).name :
                             j \in {i \in DOMAIN jails : jails[i]["filter"] # <<>>}}
  BY DEF FiltersOf
<1>3. LoadsFilters(tree, jails) <=>
        \A j \in DOMAIN jails : jails[j]["filter"] # <<>> =>
            ~FilterFails(ParseSpec(jails[j]["filter"]).name)
  <2>1. LoadsFilters(tree, jails) <=> \A name \in FiltersOf(jails) : ~FilterFails(name)
    BY FilterLoads DEF LoadsFilters
  <2> QED BY <1>2, <2>1
<1>4. (\A j \in DOMAIN jails : WellTyped(jails[j])) /\ LoadsFilters(tree, jails)
      <=> \A j \in DOMAIN jails : Loadable(jails[j])
  BY <1>3 DEF Loadable
<1>5. BadSetting(Doc) <=>
        \E j \in JailNames(Doc) :
            ~ \A key \in DOMAIN KeyType \cup {"filter"} :
                  \A v \in Setting(Doc, j, key) : ~SettingFails(key, v)
  BY DEF BadSetting
<1>6. BadSetting(Doc) <=> \E j \in DOMAIN jails : ~Loadable(jails[j])
  BY <1>1, <1>5, JailLoads
<1> QED BY <1>4, <1>6 DEF jails

LEMMA LoadsOrHasCause ==
    ASSUME TreeOK(tree)
    PROVE  Load(tree).ok <=> ~ReadsFail /\ ~SettingsFail
<1> DEFINE globals == LoadAll(tree, EachDir(GlobalFilesOf))
           files == LoadAll(tree, JailFiles)
<1>1. /\ globals.ok <=> Readable(EachDir(GlobalFilesOf))
      /\ files.ok <=> Readable(JailFiles)
  BY JailFilesAre, GlobalFilesAre, LoadsWhenReadable
<1>2. ReadsFail <=> ~globals.ok \/ ~files.ok
  BY <1>1 DEF ReadsFail
<1>3. SettingsFail <=> PurgeAgeFails \/ BadSetting(Doc)
  BY DEF SettingsFail, BadSetting
<1>4. Load(tree).ok <=>
         /\ globals.ok /\ files.ok /\ GlobalsParse(globals.doc)
         /\ \A j \in DOMAIN JailsOf(files.doc) : WellTyped(JailsOf(files.doc)[j])
         /\ LoadsFilters(tree, JailsOf(files.doc))
  BY LoadIs
<1>5. files.doc = Doc
  BY DEF Doc
<1>6. globals.ok => (GlobalsParse(globals.doc) <=> ~PurgeAgeFails)
  BY PurgeAgeParses
<1>7. files.ok => ((/\ \A j \in DOMAIN JailsOf(Doc) : WellTyped(JailsOf(Doc)[j])
                    /\ LoadsFilters(tree, JailsOf(Doc))) <=> ~BadSetting(Doc))
  BY JailsLoad
<1> HIDE DEF globals, files
<1> QED BY <1>2, <1>3, <1>4, <1>5, <1>6, <1>7

(* Whatever the files are, a load fails when, and only when, a file that   *)
(* is reached cannot be read, includes itself or one that is missing, or a *)
(* setting of a jail as it is written does not parse, names a list that is *)
(* not there, is a spec cut off, or names a filter that is not there.      *)
THEOREM LoadsUnlessThereIsACause == Spec => []LoadFailsForCause
<1>1. ConfigInv /\ FilesInv => LoadFailsForCause
  <2> SUFFICES ASSUME ConfigInv, FilesInv PROVE LoadFailsForCause
    OBVIOUS
  <2>1. Load(tree).ok <=> ~ReadsFail /\ ~SettingsFail
    BY LoadsOrHasCause DEF FilesInv
  <2>2. JustLoaded => Load(tree).ok
    BY DEF JustLoaded, ConfigInv, TypeOK, LoadedFromFiles
  <2>3. failed => ~Load(tree).ok
    BY DEF FilesInv
  <2> QED BY <2>1, <2>2, <2>3 DEF LoadFailsForCause
<1> QED BY <1>1, FilesInvHolds, PTL
=============================================================================
