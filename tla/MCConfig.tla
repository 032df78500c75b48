------------------------------- MODULE MCConfig -------------------------------
(* An instance of Config: two directories, and files that differ in what   *)
(* matters: who sets a key last, includes that meet, miss or turn back,    *)
(* values that refer to each other, and settings of the ban time.          *)
EXTENDS Config, TLC

T(is) == [kind |-> "text", is |-> is]
V(section, key) == [kind |-> "var", section |-> section, key |-> key]
G(section, key) == [kind |-> "tag", section |-> section, key |-> key]
L(is, key, value) == [is |-> is, key |-> key, value |-> value]
H(name) == L("header", name, <<>>)
E(key, value) == L("entry", key, value)
M(value) == L("more", "", value)
Before(name) == <<H("INCLUDES"), E("before", <<T(name)>>)>>
After(name) == <<H("INCLUDES"), E("after", <<T(name)>>)>>

TheSearchDirs == <<"etc", "local">>
TheConfFiles == <<"a.conf">>
NoFiles == <<>>
TheBuiltins == "version" :> <<T("1")>>
TheJailDefaults ==
    ("enabled" :> <<T("false")>>) @@ ("filter" :> <<>>)
    @@ ("ignoreip" :> <<>>)
    @@ ("bantime" :> <<T("10m")>>) @@ ("bantime_increment" :> <<T("false")>>)
    @@ ("bantime.factor" :> <<T("1")>>)
TheKeyType ==
    ("enabled" :> "bool") @@ ("bantime_increment" :> "bool")
    @@ ("bantime.factor" :> "num") @@ ("ignoreip" :> "list")
    @@ ("bantime" :> "time") @@ ("bantime.maxtime" :> "time")
    @@ ("bantime.rndtime" :> "time")
TheBools == ("true" :> TRUE) @@ ("false" :> FALSE)
TheNums == ("0" :> 0) @@ ("1" :> 1) @@ ("3" :> 3)
Whole(n) == [kind |-> "integer", n |-> n]
TheTimes ==
    ("2" :> Whole(2)) @@ ("20" :> Whole(20)) @@ ("30" :> Whole(30)) @@ ("-1" :> Whole(-1))
    @@ ("permanent" :> [kind |-> "word"])
    @@ ("10m" :> [kind |-> "pairs", pairs |-> << <<10, "m">> >>])
    @@ ("1m5" :> [kind |-> "pairs", pairs |-> << <<1, "m">>, <<5, "">> >>])
TheUnreadable == {"file:gone"}
TheSpecs ==
    ("sshd[p=q]" :> [ok |-> TRUE, name |-> "sshd", params |-> "p" :> <<T("q")>>])
    @@ ("sshd[p=q" :> [ok |-> FALSE, name |-> "sshd", params |-> <<>>])
    @@ ("mail[to]" :> [ok |-> FALSE, name |-> "mail", params |-> <<>>])

-----------------------------------------------------------------------------
JailConf == Path("etc", "", "jail.conf")
JailA == Path("etc", "jail.d", "a.conf")
JailLocal == Path("etc", "", "jail.local")
Common == Path("etc", "", "common.conf")
Second == Path("local", "", "jail.conf")
Global == Path("etc", "", "rail2ban.conf")
FilterConf == Path("etc", "filter.d", "sshd.conf")
FilterLocal == Path("local", "filter.d", "sshd.local")
ActionConf == Path("etc", "action.d", "ipt.conf")

JailConfs == {
    Before("common.conf")
      \o <<H("DEFAULT"), E("bantime", <<V("", "long")>>), E("long", <<T("20")>>),
           H("sshd"), E("enabled", <<T("true")>>), E("filter", <<T("sshd[p=q]")>>),
           E("action", <<T("ipt")>>), M(<<T("mail")>>)>>,
    After("gone.conf") \o <<E("after", <<>>), M(<<T("common.conf")>>)>> \o Before("common.conf")
      \o <<H("DEFAULT"), E("bantime", <<V("", "a")>>), E("a", <<V("", "b")>>),
           E("b", <<V("", "long")>>),
           H("sshd"), E("filter", <<T("sshd")>>), E("bantime", <<T("30")>>)>>,
    <<H("DEFAULT"), E("x", <<V("", "y"), T("."), G("", "version")>>),
      E("y", <<V("", "x")>>), E("bantime", <<V("common", "secs")>>),
      E("filter", <<T("sshd")>>),
      H("sshd"), E("banaction", <<T("ipt")>>)>> }
JailAs == {
    <<H("sshd"), E("bantime_increment", <<T("true")>>),
      E("bantime.factor", <<T("3")>>), E("bantime.maxtime", <<T("30")>>),
      H("other"), E("filter", <<T("none")>>)>>,
    Before("jail.conf") \o <<H("DEFAULT"), E("bantime", <<T("1m5")>>)>>,
    Before("a.conf") }
JailLocals == {
    <<H("sshd"), E("bantime", <<T("permanent")>>), E("bantime.rndtime", <<T("2")>>),
      E("bantime_increment", <<T("true")>>), E("bantime.maxtime", <<T("20")>>)>>,
    <<H("DEFAULT"), E("bantime_increment", <<T("true")>>),
      E("bantime.factor", <<T("3")>>), E("bantime.maxtime", <<T("30")>>),
      H("sshd"), E("filter", <<T("sshd")>>)>>,
    <<H("other"), E("filter", <<T("sshd")>>), H("sshd"), E("bantime", <<V("", "bantime")>>)>>,
    <<H("DEFAULT"), E("ignoreip", <<T("::1")>>), M(<<T("file:gone")>>)>>,
    <<H("sshd"), E("filter", <<T("sshd[p=q")>>)>>,
    <<H("DEFAULT"), L("junk", "", <<>>)>> }
Commons == {
    <<H("DEFAULT"), E("long", <<T("2")>>), E("bantime", <<T("-1")>>),
      H("common"), E("secs", <<T("20")>>)>>,
    After("jail.conf") \o <<H("common"), E("secs", <<T("30")>>)>> }
Seconds2 == { <<H("sshd"), E("bantime", <<T("2")>>), E("banaction", <<T("mail[to]")>>)>> }
Globals == { <<H("Definition"), E("dbpurgeage", <<T("1m5")>>)>>,
             <<H("Definition"), E("dbpurgeage", <<T("soon")>>)>> }
FilterConfs == {
    <<H("Init"), E("p", <<T("own")>>), E("t", <<T("file")>>),
      H("Definition"), E("failregex", <<T("x"), G("", "p"), G("", "HOST")>>),
      E("ignoreregex", <<V("known", "ignoreregex")>>),
      E("prefregex", <<[kind |-> "pick", section |-> "lt", type |-> "t", key |-> "k"]>>),
      H("lt_file"), E("k", <<V("", "failregex")>>)>>,
    <<H("Init"), E("p", <<T("own")>>)>>,
    <<>> }
FilterLocals == {
    <<H("Init"), E("p", <<G("", "bantime")>>),
      H("Definition"), E("datepattern", <<G("known", "p")>>)>> }
ActionConfs == {
    <<H("Definition"), E("actionban", <<T("add"), G("", "ip"), V("default", "bantime")>>)>> }

(* Where the editor begins: one file of each kind but the last four.       *)
With(p, lines) == IF lines = <<>> THEN <<>> ELSE p :> lines
TheTrees ==
    LET filter == CHOOSE f \in FilterConfs : Len(f) > 4
        rest == (FilterConf :> filter) @@ (ActionConf :> CHOOSE a \in ActionConfs : TRUE)
    IN  {With(JailConf, jc) @@ With(JailA, ja) @@ With(JailLocal, jl)
           @@ With(Common, c) @@ rest :
           jc \in JailConfs, ja \in JailAs \cup {<<>>},
           jl \in JailLocals \cup {<<>>}, c \in Commons \cup {<<>>}}
TheMenu ==
    (JailConf :> JailConfs) @@ (JailA :> JailAs) @@ (JailLocal :> JailLocals)
    @@ (Common :> Commons) @@ (Second :> Seconds2) @@ (Global :> Globals)
    @@ (FilterConf :> FilterConfs) @@ (FilterLocal :> FilterLocals)
    @@ (ActionConf :> ActionConfs)
=============================================================================
