-------------------------------- MODULE Config --------------------------------
(***************************************************************************)
(* What the files say and what the server does: an administrator edits     *)
(* them, the server loads them (commands.rs, reload), starts a jail with   *)
(* the filter and the actions made of them (start_jail), and the jail bans *)
(* a host again and again.                                                 *)
(***************************************************************************)
EXTENDS ConfigFiles, BanTime, FiniteSets

CONSTANTS
    Trees,       \* the files there may be at first
    Menu,        \* what an editor may put into a file: paths to sets of lines
    MaxEdits, MaxBans    \* bounds

(* What Settings takes from a jail's configuration is there and typed, and *)
(* what a text of a type stands for is a value of that type.               *)
ASSUME ConfigAssumption ==
    /\ {"bantime", "bantime_increment", "bantime.factor"} \subseteq DOMAIN JailDefaults
    /\ \A key \in {"bantime", "bantime.maxtime", "bantime.rndtime"} :
          key \in DOMAIN KeyType /\ KeyType[key] = "time"
    /\ "bantime_increment" \in DOMAIN KeyType /\ KeyType["bantime_increment"] = "bool"
    /\ "bantime.factor" \in DOMAIN KeyType /\ KeyType["bantime.factor"] = "num"
    /\ \A text \in DOMAIN Bools : Bools[text] \in BOOLEAN
    /\ \A text \in DOMAIN Nums : Nums[text] \in Nat
    /\ \A text \in DOMAIN Times : Times[text] \in TimeForm
    /\ MaxEdits \in Nat /\ MaxBans \in Nat

(* There are finitely many files at first, and all are made of lines.      *)
ASSUME TreesAssumption ==
    /\ \A t \in Trees :
          IsFiniteSet(DOMAIN t) /\ \A p \in DOMAIN t : t[p] \in Seq(Line)
    /\ \A p \in DOMAIN Menu : \A lines \in Menu[p] : lines \in Seq(Line)

VARIABLES
    tree, edits,
    loaded,      \* the server's LoadedConfig
    fresh,       \* history: was it loaded from the present files?
    failed,      \* history: has the last load of the present files failed?
    running,     \* the jail that was started, or None
    alive,       \* does its task still run?
    count,       \* the bans of the host in the history table
    ticket       \* the last ban's, or None

vars == <<tree, edits, loaded, fresh, failed, running, alive, count, ticket>>

Init ==
    /\ tree \in Trees /\ edits = 0
    /\ loaded = NoConfig /\ fresh = FALSE /\ failed = FALSE
    /\ running = None /\ alive = FALSE /\ count = 0 /\ ticket = None

-----------------------------------------------------------------------------
(* A jail that runs does not look at the files.                            *)
Edit ==
    /\ running = None
    /\ edits < MaxEdits /\ edits' = edits + 1
    /\ \E p \in DOMAIN Menu :
          \/ \E lines \in Menu[p] : tree' = Over(Only(p, lines), tree)
          \/ tree' = [q \in DOMAIN tree \ {p} |-> tree[q]]
    /\ tree' # tree
    /\ fresh' = FALSE /\ failed' = FALSE
    /\ UNCHANGED <<loaded, running, alive, count, ticket>>

(* A load that fails leaves the configuration, and the jails, as they are. *)
Reload ==
    /\ ~fresh /\ ~failed
    /\ LET config == Load(tree)
       IN  IF config.ok
           THEN /\ loaded' = config /\ fresh' = TRUE /\ UNCHANGED failed
                /\ running' = None /\ alive' = FALSE /\ ticket' = None
           ELSE failed' = TRUE /\ UNCHANGED <<loaded, fresh, running, alive, ticket>>
    /\ UNCHANGED <<tree, edits, count>>

(* The settings a jail computes its bans from.                             *)
TimeOf(config, key) ==
    IF key \in DOMAIN config THEN ParseTime(Times[Plain(config[key])]) ELSE Unset
Settings(config) ==
    [bantime |-> TimeOf(config, "bantime"),
     increment |-> Bools[Plain(config["bantime_increment"])],
     factor |-> Nums[Plain(config["bantime.factor"])],
     maxtime |-> TimeOf(config, "bantime.maxtime"),
     rndtime |-> TimeOf(config, "bantime.rndtime")]

(* start_jail needs the filter and a [Definition] in it and in each action *)
(* there is, and parameters that parse in each spec of an action; it       *)
(* leaves out the actions there are not.                                   *)
StartJail(j) ==
    LET config == loaded.jails[j]
        spec == ParseSpec(config["filter"])
        actions == SelectSeq(ActionSpecs(config),
                             LAMBDA a : a.name \in DOMAIN loaded.actions)
    IN  /\ running = None
        /\ spec.name \in DOMAIN loaded.filters
        /\ "Definition" \in DOMAIN loaded.filters[spec.name]
        /\ \A a \in Range(ActionSpecs(config)) : a.name # "" => a.ok
        /\ \A a \in Range(actions) : "Definition" \in DOMAIN loaded.actions[a.name]
        /\ running' =
             [name |-> j, settings |-> Settings(config), params |-> spec.params,
              filter |-> Materialize(loaded.filters[spec.name],
                             FilterContext(loaded.filters[spec.name],
                                           spec.params, loaded.defaults)),
              actions |-> [k \in DOMAIN actions |->
                             Materialize(loaded.actions[actions[k].name],
                                 ActionContext(loaded.actions[actions[k].name],
                                     actions[k].params, loaded.defaults))]]
        /\ alive' = TRUE
        /\ UNCHANGED <<tree, edits, loaded, fresh, failed, count, ticket>>

(* issue_ban: of the host, once more.  A panic, before the ban is in the   *)
(* table or when the jail looks whether it is over, ends the jail's task.  *)
Ban ==
    /\ running # None /\ alive /\ count < MaxBans
    /\ \E jitter \in Jitters(running.settings) :
          LET secs == ComputeBantime(running.settings, count, jitter)
          IN  IF Panics(secs)
              THEN /\ alive' = FALSE
                   /\ count' \in {count, count + 1} /\ UNCHANGED ticket
              ELSE /\ ticket' = Ticket(secs, count)
                   /\ count' = count + 1 /\ UNCHANGED alive
    /\ UNCHANGED <<tree, edits, loaded, fresh, failed, running>>

Next ==
    \/ Edit \/ Reload \/ Ban
    \/ loaded.ok /\ \E j \in DOMAIN loaded.jails : StartJail(j)

Spec == Init /\ [][Next]_vars

-----------------------------------------------------------------------------
(* What is loaded can be used: settings that have a type parse, each jail  *)
(* has its filter; and a ticket is one of the jail that runs.              *)
TypeOK ==
    /\ edits \in 0..MaxEdits /\ count \in 0..MaxBans
    /\ fresh \in BOOLEAN /\ failed \in BOOLEAN /\ ~(fresh /\ failed)
    /\ fresh => loaded.ok
    /\ loaded.ok =>
          \A j \in DOMAIN loaded.jails :
              LET config == loaded.jails[j]
              IN  /\ \A key \in DOMAIN KeyType \cap DOMAIN config :
                        Parses(KeyType[key], config[key])
                  /\ ParseSpec(config["filter"]).name \in DOMAIN loaded.filters
                     \/ config["filter"] = <<>>
    /\ running # None => loaded.ok /\ running.name \in DOMAIN loaded.jails
    /\ ticket # None => running # None /\ ticket.count < count

-----------------------------------------------------------------------------
(* What a file says by itself, read from its last line back: the entries   *)
(* of the section that a header opens, and the value of one, with the      *)
(* lines that continue it.                                                 *)
HeaderBefore(lines, i) ==
    SelectLastInSubSeq(lines, 1, i - 1, LAMBDA l : l.is = "header")
Headers(lines, sec) == {h \in DOMAIN lines : lines[h].is = "header" /\ lines[h].key = sec}
Entries(lines, h, key) ==
    {i \in DOMAIN lines : /\ lines[i].is = "entry" /\ lines[i].key = key
                          /\ HeaderBefore(lines, i) = h}
ContinuedTo(lines, i) ==
    CHOOSE n \in i..Len(lines) :
        /\ \A k \in (i + 1)..n : lines[k].is = "more"
        /\ n = Len(lines) \/ lines[n + 1].is # "more"
Value(lines, i) ==
    FlattenSeq([k \in 1..(ContinuedTo(lines, i) - i + 1) |-> lines[i + k - 1].value])
LastValue(lines, entries) == IF entries = {} THEN {} ELSE {Value(lines, Max(entries))}
Own(lines, sec, key) ==
    LastValue(lines, UNION {Entries(lines, h, key) : h \in Headers(lines, sec)})

(* The files a file names, as it names them: each of its [INCLUDES] does.  *)
Named(lines, key) ==
    FlattenSeq(Tuple([h \in DOMAIN lines |->
        IF h \in Headers(lines, "INCLUDES") /\ Entries(lines, h, key) # {}
        THEN Words(Value(lines, Max(Entries(lines, h, key)))) ELSE <<>>]))
LastOf(values) ==
    LET k == SelectLastInSeq(values, LAMBDA v : v # {})
    IN  IF k = 0 THEN {} ELSE values[k]

(* The value a file gives to a key, with what it includes: after has the   *)
(* last word, before the first.                                            *)
LastSet(path, sec, key) ==
    LET given(set, names, p, seen) ==
            Tuple([i \in DOMAIN names |->
                UNION {set[seen \cup {p}][q] : q \in IncludePath(tree, names[i], p)}])
        set[seen \in SUBSET DOMAIN tree] ==
            [p \in DOMAIN tree |->
                IF p \in seen THEN {}
                ELSE LastOf(given(set, Named(tree[p], "before"), p, seen)
                            \o <<Own(tree[p], sec, key)>>
                            \o given(set, Named(tree[p], "after"), p, seen))]
    IN  set[{}][path]

(* "The later overrides the earlier": jail.conf, jail.d/*.conf, jail.local,*)
(* jail.d/*.local, of one directory after the other (MANUAL.md:269,        *)
(* README.md:264).                                                         *)
ValueIn(paths, sec, key) ==
    LastOf(Tuple([i \in DOMAIN paths |->
        IF paths[i] \in DOMAIN tree THEN LastSet(paths[i], sec, key) ELSE {}]))

(* Interpolation is substitution: round after round each variable gives    *)
(* way to its value, MAX_DEPTH rounds at most; a value with variables left *)
(* by then stays as it was written.                                        *)
Replaced(text, ctx) ==
    FlattenSeq(Tuple([i \in DOMAIN text |->
        LET value == Lookup(text[i], ctx)
        IN  IF value.ok THEN value.text ELSE <<text[i]>>]))
Substituted(text, ctx) ==
    LET round[n \in 0..MaxDepth] ==
            IF n = 0 THEN text ELSE Replaced(round[n - 1], ctx)
        last == round[MaxDepth]
    IN  IF \A i \in DOMAIN last : Literal(last[i], ctx) THEN last ELSE text

(* A jail's setting: the one set last for it, in whichever file and by     *)
(* whichever include, or else the default, or else the built-in one.       *)
Doc == LoadAll(tree, JailFiles).doc
DefaultValue(doc, key) ==
    {Substituted(v, DefaultContext(doc)) : v \in ValueIn(JailFiles, "DEFAULT", key)}
BuiltIn(key) == IF key \in DOMAIN JailDefaults THEN {JailDefaults[key]} ELSE {}
Setting(doc, j, key) ==
    LastOf(<<BuiltIn(key), DefaultValue(doc, key), ValueIn(JailFiles, j, key)>>)
JustLoaded == fresh /\ running = None
LastSetterWins ==
    JustLoaded =>
        LET doc == Doc
        IN  \A j \in DOMAIN loaded.jails : \A key \in DOMAIN loaded.jails[j] :
                Setting(doc, j, key) = {loaded.jails[j][key]}

-----------------------------------------------------------------------------
(* The files reached from some files by includes.                          *)
NamesIn(p) == UNION {Range(Named(tree[p], key)) : key \in {"before", "after"}}
Leads(p) == UNION {IncludePath(tree, name, p) : name \in NamesIn(p)}
Reached(paths) ==
    LET after[n \in 0..Cardinality(DOMAIN tree)] ==
            IF n = 0 THEN paths
            ELSE LET before == after[n - 1]
                 IN  before \cup UNION {Leads(p) : p \in before}
    IN  after[Cardinality(DOMAIN tree)]
Broken(lines) ==
    \E i \in DOMAIN lines :
        \/ lines[i].is = "junk"
        \/ lines[i].is = "entry" /\ HeaderBefore(lines, i) = 0
        \/ lines[i].is = "more"
           /\ (i = 1 \/ lines[i - 1].is \notin {"entry", "more"})
ReadableFile(p) ==
    /\ ~Broken(tree[p])
    /\ p \notin Reached(Leads(p))
    /\ \A name \in NamesIn(p) : IncludePath(tree, name, p) # {}
There(paths) == Range(paths) \cap DOMAIN tree
Readable(paths) == \A p \in Reached(There(paths)) : ReadableFile(p)

(* A load fails when, and only when, a file it reads cannot be read: for   *)
(* what is in it, for an include that is missing or leads back to it; when *)
(* a jail, enabled or not, has a setting that as it is written does not    *)
(* parse (what it refers to is not put in, see JailVariablesWork), a list  *)
(* of addresses in a file that is not there, a filter's spec that is cut   *)
(* off, or a filter that has no section in any file; a diamond of includes *)
(* is fine.                                                                *)
ReadsFail == \E paths \in {EachDir(GlobalFilesOf), JailFiles} : ~Readable(paths)
FilterFails(name) ==
    LET files == DefinitionFiles("filter.d", name)
    IN  \/ \A p \in There(files) : \A l \in Range(tree[p]) : l.is # "header"
        \/ ~Readable(files)
SettingFails(key, v) ==
    IF key = "filter"
    THEN v # <<>> /\ (~ParseSpec(v).ok \/ FilterFails(ParseSpec(v).name))
    ELSE ~Parses(KeyType[key], v)
PurgeAgeFails ==
    \E v \in ValueIn(EachDir(GlobalFilesOf), "Definition", "dbpurgeage") :
        ~Parses("time", v)
SettingsFail ==
    \/ PurgeAgeFails
    \/ LET doc == Doc
       IN  \E j \in JailNames(doc), key \in DOMAIN KeyType \cup {"filter"} :
             \E v \in Setting(doc, j, key) : SettingFails(key, v)
LoadFailsForCause ==
    /\ JustLoaded => ~ReadsFail /\ ~SettingsFail
    /\ failed => ReadsFail \/ SettingsFail

(* "[sshd] ... bantime = %(bantime)s" (MANUAL.md:633): what a jail says    *)
(* may refer to [DEFAULT]; a load fails only for a setting that does not   *)
(* parse with that put in.                                                 *)
JailVariablesWork ==
    failed =>
        \/ ReadsFail \/ PurgeAgeFails
        \/ LET doc == Doc
           IN  \E j \in JailNames(doc), key \in DOMAIN KeyType \cup {"filter"} :
                 \E v \in Setting(doc, j, key) :
                     SettingFails(key, Substituted(v, DefaultContext(doc)))

-----------------------------------------------------------------------------
(* What a default, and a definition with the parameters of the jail and    *)
(* those of its own, comes out as is what substitution makes of it:        *)
(* "Maximum interpolation recursion depth (prevents infinite loops)"       *)
(* (interpolator.rs:18), and only those.                                   *)
InterpolationIsSubstitution ==
    /\ JustLoaded => LET doc == Doc
                     IN  \A key \in DOMAIN loaded.defaults :
                           {loaded.defaults[key]} = DefaultValue(doc, key)
    /\ running # None /\ ticket = None =>
          LET name == ParseSpec(loaded.jails[running.name]["filter"]).name
              doc == loaded.filters[name]
          IN  \A key \in DOMAIN running.filter :
                  running.filter[key] =
                      Substituted(doc["Definition"][key],
                          FilterContext(doc, running.params, loaded.defaults))

-----------------------------------------------------------------------------
(* The ban time without limits of width: base times the factor to the      *)
(* number of earlier bans, no more than the maxtime, and then the jitter;  *)
(* Endless, a permanent one, is longer than any that can be.               *)
Endless == LongestBan + 1
Unlimited(time) == IF time \in {None, Unset} THEN Endless ELSE time
ExactBantimes(s, n) ==
    LET factor == IF s.factor = 0 THEN 1 ELSE s.factor
        scaled == Unlimited(s.bantime) * Power(factor, n)
        capped == IF scaled < Unlimited(s.maxtime) THEN scaled
                  ELSE Unlimited(s.maxtime)
    IN  IF s.increment
        THEN {capped + jitter : jitter \in Jitters(s)} ELSE {Unlimited(s.bantime)}

(* "Look up history in DB: base * factor^(ban_count)" (jail.rs:581): every *)
(* ban time that could be, as far as chrono can hold it, is what the host  *)
(* is banned for, however large the numbers on the way.                    *)
BantimeExact ==
    ticket # None =>
        LET exact == ExactBantimes(running.settings, ticket.count)
        IN  (\A n \in exact : n <= LongestBan) => ticket.bantime \in exact

(* "Ban duration (None = permanent)" (banmanager.rs:25), "`permanent`=..." *)
(* (MANUAL.md:465): the ban of a jail whose bantime is permanent does not  *)
(* end.                                                                    *)
PermanentNeverEnds ==
    ticket # None /\ running.settings.bantime = None /\ ~running.settings.increment
        => ~IsExpired(ticket, 0)
=============================================================================
