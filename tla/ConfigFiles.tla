----------------------------- MODULE ConfigFiles -----------------------------
(***************************************************************************)
(* config/parser.rs and config/loader.rs: from the files on disk to the    *)
(* jails.  tree is a function from the paths of the files there are to     *)
(* their lines.  A line is [is, key, value]:                               *)
(*   "header"  key is the name of the section it opens;                    *)
(*   "entry"   key = value;                                                *)
(*   "more"    an indented line, which continues the entry before it;      *)
(*   "junk"    anything else.                                              *)
(* The values of before and after in [INCLUDES] are texts of file names.   *)
(***************************************************************************)
EXTENDS Interpolation

CONSTANTS
    SearchDirs,      \* the --conf directories, a sequence
    ConfFiles, LocalFiles,   \* jail.d/*.conf and *.local, sorted sequences
    GlobalFiles,     \* fail2ban.d/*.conf, sorted
    Builtins,        \* builtin_defaults()
    JailDefaults,    \* the values get_or gives to keys nobody sets
    KeyType,         \* keys with a type of their own: "bool", "num", "time", "list"
    Bools, Nums, Times,      \* the texts that parse as such, and as what
    Unreadable,      \* entries of a list that name a file there is not
    Specs            \* filter and action specs with a '[', parsed: are they ok?

ASSUME SettingsAssumption ==
    /\ KeyType \in [DOMAIN KeyType -> {"bool", "num", "time", "list"}]
    /\ {"enabled", "filter"} \subseteq DOMAIN JailDefaults
    /\ "filter" \notin DOMAIN KeyType

(* Directories and files have names, and what is given is text.            *)
ASSUME TextAssumption ==
    /\ SearchDirs \in Seq(STRING)
    /\ ConfFiles \in Seq(STRING) /\ LocalFiles \in Seq(STRING)
    /\ GlobalFiles \in Seq(STRING)
    /\ \A key \in DOMAIN Builtins : Builtins[key] \in Text
    /\ \A text \in DOMAIN Specs :
          \A key \in DOMAIN Specs[text].params : Specs[text].params[key] \in Text

Line == [is : {"header", "entry", "more", "junk"}, key : STRING, value : Text]
Plain(text) ==
    IF Len(text) = 1 /\ text[1].kind = "text" THEN text[1].is ELSE "?"

NoDoc == <<>>
Bad == [ok |-> FALSE, doc |-> NoDoc]
Good(doc) == [ok |-> TRUE, doc |-> doc]
Path(dir, sub, name) == [dir |-> dir, sub |-> sub, name |-> name]

-----------------------------------------------------------------------------
(* parse_ini.  A file is a sequence of sections, one for each header.      *)
SetLast(secs, key, value) ==
    [secs EXCEPT ![Len(secs)].entries = Over(Only(key, value), @)]

ParseLine(st, line) ==
    CASE line.is = "header" ->
           [st EXCEPT !.secs = Append(@, [name |-> line.key, entries |-> <<>>]),
                      !.open = FALSE]
      [] line.is = "entry" /\ st.secs # <<>> ->
           [st EXCEPT !.secs = SetLast(@, line.key, line.value),
                      !.open = TRUE, !.key = line.key]
      [] line.is = "more" /\ st.open ->
           [st EXCEPT !.secs =
               SetLast(@, st.key, Last(@).entries[st.key] \o line.value)]
      [] OTHER -> [st EXCEPT !.ok = FALSE]

(* open: is there an entry, that of key, that a line may continue?         *)
Parse(lines) ==
    LET after[i \in 0..Len(lines)] ==
            IF i = 0 THEN [ok |-> TRUE, secs |-> <<>>, open |-> FALSE, key |-> ""]
            ELSE ParseLine(after[i - 1], lines[i])
    IN  after[Len(lines)]

(* Mutated form: what is there is not overwritten.                         *)
MergeKept(old, new) == Over(old, new)

(* IniDocument::merge: sections of the same name, later entries win.       *)
Merge(old, new) == Over(new, old)
MergeDocs(doc, other) ==
    [name \in DOMAIN doc \cup DOMAIN other |->
        Merge(SectionOf(doc, name), SectionOf(other, name))]
Merged(docs) ==
    LET upTo[i \in 0..Len(docs)] ==
            IF i = 0 THEN NoDoc ELSE MergeDocs(upTo[i - 1], docs[i])
    IN  upTo[Len(docs)]
MergeFile(secs) ==
    Merged(Tuple([i \in DOMAIN secs |-> Only(secs[i].name, secs[i].entries)]))
MergeAll(parts) ==
    IF \A i \in DOMAIN parts : parts[i].ok
    THEN Good(Merged(Tuple([i \in DOMAIN parts |-> parts[i].doc]))) ELSE Bad

-----------------------------------------------------------------------------
(* collect_includes: of all [INCLUDES] sections of the file.               *)
Words(text) == Tuple([k \in DOMAIN text |-> Plain(<<text[k]>>)])
Includes(secs, key) ==
    FlattenSeq(Tuple([i \in DOMAIN secs |->
        IF secs[i].name = "INCLUDES" /\ key \in DOMAIN secs[i].entries
        THEN Words(secs[i].entries[key]) ELSE <<>>]))

(* resolve_include_path: beside the file that includes it, or else in the  *)
(* search directories.                                                     *)
IncludePath(tree, name, path) ==
    LET candidates == <<[path EXCEPT !.name = name]>>
                      \o [i \in DOMAIN SearchDirs |-> Path(SearchDirs[i], "", name)]
        k == SelectInSeq(candidates, LAMBDA p : p \in DOMAIN tree)
    IN  IF k = 0 THEN {} ELSE {candidates[k]}

(* A file with its includes around it, or Bad if one of them is.           *)
Around(before, file, after) == MergeAll(before \o <<Good(MergeFile(file.secs))>> \o after)

(* Mutated form: an include that cannot be found is passed over.           *)
ResolveLax(tree, path) ==
    LET included(r, names, p, seen) ==
            [i \in DOMAIN names |->
                LET found == IncludePath(tree, names[i], p)
                IN  IF found = {} THEN Good(NoDoc)
                    ELSE r[seen \cup {p}][CHOOSE q \in found : TRUE]]
        resolved(r, file, p, seen) ==
            IF ~file.ok \/ p \in seen THEN Bad
            ELSE Around(included(r, Includes(file.secs, "before"), p, seen), file,
                        included(r, Includes(file.secs, "after"), p, seen))
        r[seen \in SUBSET DOMAIN tree] ==
            [p \in DOMAIN tree |-> resolved(r, Parse(tree[p]), p, seen)]
    IN  r[{}][path]

(* parse_ini_file and resolve_includes; seen are the files on the way here.*)
ResolveIncludes(tree, path) ==
    LET included(r, names, p, seen) ==
            [i \in DOMAIN names |->
                LET found == IncludePath(tree, names[i], p)
                IN  IF found = {} THEN Bad
                    ELSE r[seen \cup {p}][CHOOSE q \in found : TRUE]]
        resolved(r, file, p, seen) ==
            IF ~file.ok \/ p \in seen THEN Bad
            ELSE Around(included(r, Includes(file.secs, "before"), p, seen), file,
                        included(r, Includes(file.secs, "after"), p, seen))
        r[seen \in SUBSET DOMAIN tree] ==
            [p \in DOMAIN tree |-> resolved(r, Parse(tree[p]), p, seen)]
    IN  r[{}][path]

(* The files of a list that there are, merged in its order.                *)
LoadAll(tree, paths) ==
    MergeAll(Tuple([i \in DOMAIN paths |->
        IF paths[i] \in DOMAIN tree THEN ResolveIncludes(tree, paths[i])
        ELSE Good(NoDoc)]))

-----------------------------------------------------------------------------
(* load_jails and load_global: which files are read, in which order.       *)
InDir(dir, sub, names) == Tuple([i \in DOMAIN names |-> Path(dir, sub, names[i])])
EachDir(files(_)) ==
    FlattenSeq(Tuple([i \in DOMAIN SearchDirs |-> files(SearchDirs[i])]))
JailFilesOf(dir) ==
    InDir(dir, "", <<"jail.conf", "rail2ban.conf">>)
    \o InDir(dir, "jail.d", ConfFiles)
    \o InDir(dir, "", <<"jail.local", "rail2ban.local">>)
    \o InDir(dir, "jail.d", LocalFiles)
GlobalFilesOf(dir) ==
    InDir(dir, "", <<"fail2ban.conf", "rail2ban.conf">>)
    \o InDir(dir, "fail2ban.d", GlobalFiles)
JailFiles == EachDir(JailFilesOf)

DefinitionFiles(sub, name) ==
    EachDir(LAMBDA dir : InDir(dir, sub, <<name \o ".conf", name \o ".local">>))

(* [DEFAULT] is interpolated, without the defaults themselves in reach.    *)
DefaultContext(doc) ==
    [doc |-> doc, defaults |-> <<>>, builtins |-> Builtins,
     section |-> "DEFAULT", init |-> <<>>, known |-> <<>>]
Defaults(doc) ==
    [key \in DOMAIN SectionOf(doc, "DEFAULT") |->
        Interpolated(doc["DEFAULT"][key], DefaultContext(doc))]

(* Sections that are no jails; names that begin with Init, lt_ or ipt_ are *)
(* those a document has for its tags.                                      *)
NoJails == {"DEFAULT", "INCLUDES", "Init", "lt_file", "lt_journal"}
JailNames(doc) == {name \in DOMAIN doc \ NoJails : DOMAIN doc[name] # {}}

(* JailConfig::from_section.                                               *)
JailConfig(section, defaults) == Over(section, Over(defaults, JailDefaults))
Parses(type, text) ==
    CASE type = "bool" -> Plain(text) \in DOMAIN Bools
      [] type = "num" -> Plain(text) \in DOMAIN Nums
      [] type = "time" -> Plain(text) \in DOMAIN Times
      [] type = "list" -> \A k \in DOMAIN text : Plain(<<text[k]>>) \notin Unreadable

(* parse_filter_spec, action_name and action_params.  A text of actions    *)
(* has one piece for each line.  A spec that is not ok has a name, but     *)
(* a ']' is missing in it or an '='.                                       *)
ParseSpec(text) ==
    IF Plain(text) \in DOMAIN Specs THEN Specs[Plain(text)]
    ELSE [ok |-> TRUE, name |-> Plain(text), params |-> <<>>]

(* Mutated form: only the jails that are enabled are looked at.            *)
WellTypedIfEnabled(config) ==
    Plain(config["enabled"]) = "true" =>
        /\ config["filter"] = <<>> \/ ParseSpec(config["filter"]).ok
        /\ \A key \in DOMAIN KeyType \cap DOMAIN config :
              Parses(KeyType[key], config[key])

WellTyped(config) ==
    /\ config["filter"] = <<>> \/ ParseSpec(config["filter"]).ok
    /\ \A key \in DOMAIN KeyType \cap DOMAIN config :
          Parses(KeyType[key], config[key])

(* FilterDefinition::load and ActionDefinition::load.                      *)
LoadDefinition(tree, sub, name) ==
    LET loaded == LoadAll(tree, DefinitionFiles(sub, name))
    IN  IF loaded.ok /\ DOMAIN loaded.doc # {} THEN loaded ELSE Bad

FiltersOf(jails) ==
    {ParseSpec(jails[j]["filter"]).name : j \in {i \in DOMAIN jails : jails[i]["filter"] # <<>>}}
ActionSpecs(jail) ==
    FlattenSeq([k \in 1..3 |->
        LET value == SectionOf(jail, <<"action", "banaction", "banaction_allports">>[k])
        IN  [i \in DOMAIN value |-> ParseSpec(<<value[i]>>)]])
ActionsOf(jails) ==
    UNION {{spec.name : spec \in Range(ActionSpecs(jails[j]))} : j \in DOMAIN jails}

NoConfig == [ok |-> FALSE]

(* ConfigLoader::load.  A missing filter is an error, whoever names it; a  *)
(* missing action is left out.                                             *)
WithDefinitions(tree, settings, defaults, jails) ==
    LET filters == [name \in FiltersOf(jails) |-> LoadDefinition(tree, "filter.d", name)]
        actions == [name \in ActionsOf(jails) |-> LoadDefinition(tree, "action.d", name)]
        found(defs) == [name \in {n \in DOMAIN defs : defs[n].ok} |-> defs[name].doc]
    IN  IF \A name \in DOMAIN filters : filters[name].ok
        THEN [ok |-> TRUE, global |-> settings, defaults |-> defaults, jails |-> jails,
              filters |-> found(filters), actions |-> found(actions)]
        ELSE NoConfig

LoadJails(tree, settings, doc, defaults) ==
    LET jails == [j \in JailNames(doc) |-> JailConfig(doc[j], defaults)]
    IN  IF \A j \in DOMAIN jails : WellTyped(jails[j])
        THEN WithDefinitions(tree, settings, defaults, jails) ELSE NoConfig

LoadMerged(tree, globals, files) ==
    LET settings == SectionOf(globals.doc, "Definition")
    IN  IF /\ globals.ok /\ files.ok
           /\ "dbpurgeage" \in DOMAIN settings => Parses("time", settings["dbpurgeage"])
        THEN LoadJails(tree, settings, files.doc, Defaults(files.doc)) ELSE NoConfig

Load(tree) ==
    LoadMerged(tree, LoadAll(tree, EachDir(GlobalFilesOf)), LoadAll(tree, JailFiles))

-----------------------------------------------------------------------------
(* materialize: a definition with the parameters of the jail.              *)
FilterContext(doc, params, defaults) ==
    LET init == Over(params, SectionOf(doc, "Init"))
    IN  [doc |-> doc, defaults |-> defaults, builtins |-> Over(defaults, Builtins),
         section |-> "Definition", init |-> init,
         known |-> Over(init, SectionOf(doc, "Definition"))]

(* An action knows no "known", and is materialized without a family: what  *)
(* is set for one only, in [Init?family=..] or as key?family=.., is inert. *)
ActionContext(doc, params, defaults) ==
    [FilterContext(doc, params, defaults) EXCEPT !.known = <<>>]

Materialize(doc, ctx) ==
    [key \in DOMAIN SectionOf(doc, "Definition") |->
        Interpolated(doc["Definition"][key], ctx)]
=============================================================================
