# rail2ban in TLA+

rail2ban follows log files, counts failures per host, and bans hosts by running
firewall commands. This directory holds TLA+ models of it, from the lines of a log
to the rules of a firewall, with its configuration and its web accounts; the TLC
configurations that check them on small instances; and theorems about them whose
proofs TLAPS checks. Paths are relative to the repository's `src/`.

    tlc -workers 2 -config MCDatabase.cfg MCDatabase
    tlapm DatabaseProofs.tla

`PROJECT.json` lists the runs, the mutated form by which each property was seen
to fail, the lines each definition translates, the hazards and the theorems.

## 1. The system and its parts

| part | state | operations | interacts with |
|---|---|---|---|
| Server (`server/server.rs`, `commands.rs`) | configuration (RwLock), jail list (async mutex), database handle | start, stop, restart, reload, `unban`, listings | spawns jails, sends them commands, reads and writes the database |
| Jail task (`server/jail.rs`) | loop, clones of the actions, BanManager, ignore cache | a line, a command, the purge ticker; final purge and actionstop on Stop | log channel (1024), command channel (32), database, external commands |
| Failure manager (`server/failmanager.rs`) | tickets by host, session map | add_failure, forget_mlfid, remove, purge | called by the jail task |
| Ban manager (`server/banmanager.rs`) | ban tickets by host | add, remove, expired, list | the jail task; readers in Server |
| Actions (`action/mod.rs`) | a started flag | start, check, repair, ban, unban, flush, stop: shell commands with a timeout | the firewall |
| Database (`server/database.rs`) | tables `bans` (history) and `bips` (current bans) | add_ban, remove_ban, remove_ban_all_jails, remove_all_bans, purge, list_bans, ban_count | jails, unban requests, restore at start |
| Log backends (`backend/*.rs`) | open files, positions, inodes | inotify loop, poll loop, journal child | write to the jail's log channel |
| Filter (`filter/*.rs`) | compiled expressions, line buffer | process_line | called by the jail task |
| Ignore cache (`server/jail.rs`) | answers with their time | get, insert, evict | the ignore command, DNS |
| Bantime (`time.rs`, `compute_bantime`) | none | parsing, escalation, cap, jitter | ban_count of the database |
| Web (`web/*.rs`) | users, sessions, login attempts, rate limits | setup, login, logout, change_password; handlers that call Server | dropped when their client goes away |
| Configuration (`config/*.rs`) | files on disk, the loaded tree | parsing, includes, merging, interpolation, materializing definitions | read by Server at start and reload |
| Protocol, binaries, addresses (`protocol.rs`, `bin/*`, `ip.rs`) | none | text conversions, start-up | |

What is hard here: a jail awaits external commands in the middle of bans, unbans
and purges, while lines and commands queue up; the list of bans, the two tables
and the firewall must agree although nothing updates them together, processes die
and commands fail; requests hold the jails mutex across awaits, or let go of it
between a check and its use; logs are rotated under the reader; a password is
hashed outside of every lock; a setting comes from whichever of many files has the
last word. The properties
that make each part correct are those listed in section 3, and the hazards of
`PROJECT.json` name the line each of them guards.

## 2. The modules

| module | what it models |
|---|---|
| `BanTables` | the SQL statements of database.rs as operators on two sets of rows |
| `Database` | the calls on the tables, one action per statement, for several jails; a statement may be lost |
| `BanList` | the abstract list of current bans that `Database` implements |
| `FailManager` | failures, sessions, promotion, and what may follow a promotion |
| `IgnoreCheck` | the pre-ban check with the ignore command, awaited, and its cache; implements `FailManager` |
| `Jail` | one jail's task with its BanManager, command channel, rows, firewall rules, and the calls of the server that wait on it; uses `BanTables` |
| `Server` | the jail list and its mutex, and the configuration's lock, under concurrent requests, reloads and disconnects |
| `LogTail` | one log file followed by the inotify or the poll backend, with writer and rotation |
| `LinePipeline` | `LogTail` composed with the channel of lines, the line buffer and the filter |
| `WebAuth` | accounts, sessions, lockout and rate limiter under concurrent requests |
| `Interpolation`, `ConfigFiles`, `BanTime` | the interpolator; parser and loader; durations and the ban time with machine widths: operators |
| `Config` | files being edited, loaded, and a jail started from them that bans a host; the reference definitions the operators are checked against |
| `Powers` | exponentiation, as a recursive function |
| `*Proofs` | theorems about the module of that name; `FailManagerProofs` also those about `IgnoreCheck`; `ConfigProofs` those about `Config` and the operators it is built on |
| `RecursionLemmas` | induction over the numbers, that a recursive function exists, and what a power is; used by all proofs about recursive functions |
| `MC*` | instances for TLC |

`Jail` takes any host as promoted, and `FailManager` says which are; `Server` keeps
of a jail only its life, and `Jail` says what it does meanwhile; `Config` says what a
jail is started with. Where two models share an object, each keeps the part the other
abstracts from, except for the log line, whose way from the file to a match is
`LinePipeline`, a composition.

**Database.** A call takes the connection's mutex (`second` = its second statement
is outstanding) and runs two statements that are not in a transaction. `Abort`
loses the second: an SQL error the callers drop, or the death of the process. The
variable `lost` records that it happened. Permanent bans are the value `Permanent`
in the table's column. Time is discrete and never goes back. `BanList` is what the
callers see: the current bans, changed by a call when it comes, when it returns, or
never. `Database` refines it with `listed` mapped to the result of list_bans.

**FailManager, IgnoreCheck.** `Line` is process_line up to the promotion; the host of
a line, its session id, its timestamp and its kind (failure, nofail, success) are
inputs, as the log and the filter decide them: timestamps come in any order, late, or
ahead of the clock, and any host may use any session id. `promoted` holds the ticket
while the task awaits what may let the host go; it is settled by `Ignore` or `Ban`.
`counted` (the failures of a host since its last ban, pardon or success, whatever the
code keeps of them) and `last` (its latest timestamp) are history variables.
compute_bantime and the logging in between have no effect on this state. In FailManager
the ignore command answers anything at once. In IgnoreCheck the task looks in the cache
(a sequence, as the IndexMap keeps insertion order), or runs the command and awaits it
while the clock moves; whom the command lets go may change (`Change`); the answer
replaces an expired or the first entry when the cache is full.

**Jail.** A step is what the task does between two awaits. `pc` says which
operation is under way and `todo` which action commands it still awaits; the order
among the actions is left open. issue_ban writes the rows first, then runs the
commands, then lists the ban (the task computes the ban time just before the ignore
command, Jail with the insert: between the two only an unban of the server could change
the count); purge takes the tickets out first, then unbans and deletes row by row; Stop
purges once more and runs actionstop. On the server side `lock` is the jails mutex as
far as this jail sees it, `sent` says whether its holder has got room in the channel or
has nothing to send (unban_all with no jail running, unban_ip of a host that only
another jail lists: both still delete the rows), and `boot` follows
restore_bans_from_db. Any host may be promoted when the task is idle. A failing command
has no effect on the firewall. Database calls are one step here: losing half of one is
Database's matter. One restore is under way at a time. `issued`, `mishap`, `stray` and
`bare` are history: `stray` counts the rules that were put on top of others, or that a
flush of another action, a stop without actionstop, a failed command or a crash left;
`bare` holds the hosts listed without their rules, by a restore or after a failed
actionban.

**Server.** A request is the list of steps it has left, and a step is what happens
under one hold of the mutex or between two. start_jail is check, read of the
configuration (which may fail: a filter is missing, an expression does not compile),
the two read guards of server.rs:192, spawn, push; stop_jail and stop_all keep the
mutex until the tasks are joined, and a task ends only when its backend has returned.
reload carries the configuration it loaded, waits for the readers to write it
(`MayRead`: parking_lot keeps new readers out while a writer waits), and opens the
database again, which may fail and end the request. start_all takes the jails in a
fixed order. `raced`, `overtaken` and `gone` are history: whether a jail was looked for
while another client was starting it, whether a start or another reload crossed a
reload, and whether a client went away in mid-request.

**LogTail, LinePipeline.** A line is two halves, so that it can be read half written;
the BufReader takes what is there; `Fill` and `SendLine` interleave with the writer.
The inode and size the code keeps are variables of their own, because they may
differ from what is open. Opening a file and placing the watch is one step. Halves
are units: reading from the middle of a half after a truncation is not visible.
LinePipeline adds the bounded channel, the line buffer, and process_line on the joined
lines: an ignoreregex that matches drops them all, a failregex matches a line or two
adjoining ones, the date is the first there is, a match clears the buffer. That is the
code with one date format: with several it looks for each of them in the whole buffer
before the next (filter/mod.rs:273). prefregex is left out. What the expressions match
is given by line numbers.

**WebAuth.** A step is what a request does under one lock; passwords are compared and
hashed outside of all locks, so setup, login and change_password are several steps
(`req`). Times are ages, so that the clock needs no bound: a session has its age and
its idle time, failures and limiter entries are counted by age. `Restart` empties the
memory and keeps the database. A statement of the database may fail: admin_exists and
the count of failures then answer no (auth.rs:165, :282), a failed login is not logged
(auth.rs:244), an account or a password is not written; `misread` counts the failed
counts, at most `MaxMisread` of an address. A session remembers the password it was
opened with, and whether its login was past its comparison when a change closed the
sessions (`raced`); both, `hits` and `misread` are history.

**Configuration.** A file is a sequence of lines (header, entry, continuation,
anything else), a value a sequence of pieces (text, `%(..)s`, `<..>`). `Parse`,
`ResolveIncludes`, `LoadAll`, `Defaults`, `JailConfig` and `Load` are the loader's
functions, `Interpolate` the interpolator's; `Materialize` makes a filter or an action
of a definition and a jail's parameters. What recurses in the code is a recursive
function here: over the lines of a file (`Parse`), the set of files on the way to an
include (`ResolveIncludes`), the levels left (`Nested`). `Config` edits and deletes
files, loads them, starts a jail and lets it ban one host again and again, with a panic
where chrono's durations end, on either side (`alive`: whether the jail's task has
survived). Words that parse as a number, a Boolean or a duration are given by the tables
`Bools`, `Nums`, `Times`; the `file:` entries of an ignoreip that cannot be read by
`Unreadable`; names of filters and actions with parameters, the malformed ones included,
by `Specs`. u64 and i64 have `Width` bits. The assumptions on the constants say that
names are strings, values are texts, settings the code always finds have a default of
their type, and what chrono can hold fits a signed number.

## 3. The runs

Every property of a passing run also fails under the mutated form of the code named
in `PROJECT.json` (definitions commented "Mutated form").

**MCDatabase** — two jails, one host, a permanent and a finite ban time, time 0..3.
Two jails are what isolation needs; one host suffices because no statement relates
two; four moments allow a ban, its repetition, expiry, and age-out.
`OneCurrentBanPerHost`: restore never sees two bans of a host.
`CurrentIsMostRecent`, `IndexIsBacked`: list_bans gives the latest ban of the
history, and every index row has one — between calls, until a statement is lost.
`CallsAreAtomic`: the refinement of `BanList`, whatever is lost.

**MCFailManager** — the cached check (`CheckSpec`) on two hosts that may use one session
id, maxretry 2, findtime 1, clock and timestamps 0..2 in any relation to each other,
four failures, a cache of one answer that lasts a second, a command whose answer changes
once: enough for lines that are stale, out of order or ahead of the clock before and
after a purge, for two promotions, and for an answer to expire, to be evicted and to be
asked again. `BanIsJustified`: a promotion rests on maxretry failures since the last
ban, pardon or success, none older than findtime before its line. `NoMissedBan`: the
failure that makes maxretry within findtime of the clock, or of a line ahead of it,
promotes its host, whatever was trimmed or purged and however late the log is read.
`DecisionsAreFresh`: a host is banned or let go by an answer of the command no older
than max-time, however the cache was filled. ignoreip is empty here: it bars a ban by
one guard. With maxretry 2 no ticket of more than one failure outlives a line; the
theorems have any maxretry.

**MCJailFirewall** — one host, two actions of which one has actionflush, an actionban
that adds one more rule each time (`iptables -I`, as MANUAL.md:402 has it), two bans by
line or by hand, all requests that take the mutex, `start --all` of a jail that runs,
lines during a restore, a channel of one, time 0..3 with bans of 2. `NoOrphanRule`,
`BannedIsBlocked`: when the jail is settled each rule is the one rule of a listed ban
or a stray, and each listed host has its rules unless it is bare. `BansEnd`: a ban that
ends before the clock of the instance does is lifted from list, index and, but for
strays, firewall. `MutexReleased`: whoever waits for the channel with the mutex held is
served. There is no stop in it: with a file backend stop never returns
(MCServerStopHangs).

**MCJailIndex** — two hosts, two bans each, an action with actionflush, failing
commands, crashes at any step, unban by `set`, stop and `start --all`, time 0..3.
`IndexAgrees`: the rows a restart would restore are the tickets in memory.
`RuleHasRecord`: until a mishap a rule has a row by which a restart finds it.
`StopCleans`: until a mishap a stopped jail leaves no rule. `NoOrphanRule` and
`BannedIsBlocked` again, now with what failures, crashes and restores leave behind.

**MCServer** — a jail whose backend returns; both clients start and reload, one also
restarts, starts all and lists, the other stops, stops all, reloads the jail alone and
may go away at any step; three requests and one edit of the files, so that a start, a
stop and a reload can all meet in the middle. `OneJailPerName`: one life of a name,
unless both clients looked for it before either listed it. `RunningIsListed`: what
runs is listed. `ReloadTakesEffect`: what is listed is as new as the last reload, unless
that was crossed. The three hold until a client has gone away; `RequestsEnd` in any
case, unless a start and a reload jam each other at the configuration's lock.

**MCLinePipeline** — five lines, the first to be ignored, the second not UTF-8, the
third and fourth a failure together, the fifth one by itself; written whole or in
halves; one rotation of either kind, either backend started at any moment, two
buffered lines, a channel of one. `OnceInOrder`: nothing is sent twice or out of
order. `LinesArrive`: a line ahead of an awake backend arrives unless the log is
rotated first. `DatesAreClose`: a match is made of lines after the last one, and dated
by a line less than maxlines back. `FailureCounted`: what is to be ignored hides a
failure for less than maxlines lines, and nothing else does.

**MCWebAuth** — one user, a right password, another and a weak one, two requests at
a time, one session, one address; a lockout after one failure, a limiter of two requests
in a window of two, idle time 2 and absolute time 3, one failed count. Two requests are
what each race needs. `FailuresBounded`: what a lockout by a count taken early, and
sometimes not taken, still guarantees. `SessionsFollowPassword`: no session outlives the
password it was opened with, save those of logins that were past their comparison.
`AccountsKept`: setup never replaces an account. `LimiterExact`: the limiter counts what
it let pass within the window, with or without cleanup. `SessionsEnd`: every session
leaves the memory, however busy it is kept.

**MCConfig** — two directories, jail.conf, a file of jail.d, jail.local, an include and
global settings, each in several versions, 252 trees at first, two edits or deletions,
up to three bans; values refer to values three deep at most (130655 states). The
versions are chosen for what interacts: includes that meet, miss or turn back, an
include that a later line of its section replaces or continues, several [INCLUDES] of
one file, keys set in several places, a cycle and a chain of the greatest depth, a
filter whose file is empty, settings that do not parse, an ignoreip from a file that is
not there, specs that are cut off, ban times permanent, long, short and out of range.
`LastSetterWins`: each jail's setting is the one of the file with the last word.
`LoadFailsForCause`: a load fails when a file, setting or filter is at fault, and only
then. A jail's setting is at fault when it does not parse as it is written: that the
manual shows settings which fail the load for this is the finding of `MCJailVariables`,
not a fault of theirs. `InterpolationIsSubstitution`: values are what rounds of
substitution make of them. `BantimeExact`: a ban time that could be represented is what
exact arithmetic says, whatever overflows on the way; of results beyond what chrono
holds it says nothing. Each is compared with a definition written another way: from the
last line back, by the set of files reached, by rounds, with unbounded numbers.

**Violations** (see `findings`): `MCServerStopHangs` (stop joins a backend nobody
stops, with the mutex held), `MCLogTailRename` (inotify never notices a rename),
`MCBanTimePermanent` (a permanent ban reaches its ticket as -1 seconds),
`MCJailVariables` (MANUAL.md:633 shows `bantime = %(bantime)s` in a jail, the code
parses the text as it is written and fails the load).

### Fairness

tokio runs a task that can run: weak fairness of the jail's and the server's tasks,
of the backend, of `Send` and of `Take`. select! polls its ready branches in random
order, so none is starved: strong fairness of the purge. tokio's mutex and channel
queue their waiters, and parking_lot's lock lets a waiting writer go first: strong
fairness of a step that needs them. External commands end, because run_command has a
timeout; the DNS lookup has none (jail.rs:268), and a resolver that hangs is outside
these models. In LogTail logrotate and a writer in mid-line go on. In WebAuth time
passes and the cleanup task, on its five-minute ticker, runs. Nothing obliges lines,
requests or edits to come.

### Where the properties stop

The properties state what the code keeps. Where a document promises more, a history
variable names the exception, or an instance leaves an operation out. TLC found each
of these with the change named:

- Jail, without `stray` in `NoOrphanRule`: a host banned again while banned keeps a rule
  after its one unban (`RuleBag = TRUE`, jail.rs:369); a flush serves only the actions
  that have actionflush, if any has (jail.rs:486, though jail.rs:460 speaks of a
  fallback); a ban that expires while the server is down is dropped without actionunban.
- Jail, without `bare` in `BannedIsBlocked`: a restore lists bans that nothing blocks.
  It presumes the rules in force (MANUAL.md:740), but a stop in order has run actionstop
  (jail.rs:543).
- MCJailIndex with `unban`, `banip` or `start_all_again` in `Ops`, or with
  `QuietRestore = FALSE`: `IndexAgrees` fails. An unban of the server deletes rows the
  jail has just written (server.rs:384); a ban by hand has no row (jail.rs:389); a
  restore puts back what was lifted after it had read the rows (server.rs:121).
- `OnDemand = TRUE`: actions run on clones, so their started flag is lost and actionstop
  never runs (`StopCleans`, jail.rs:338).
- Server, without `raced`: two clients both find the jail not running (server.rs:153).
  Without `overtaken`: a start under way when a reload stops the jails is listed with the
  old configuration (server.rs:228), and of two reloads the older may write last.
  Without `gone`: a client that leaves between spawn and push (`RunningIsListed`).
  Without `Jammed`: a start waits for its second read guard behind a reload that waits
  for its first one to go (server.rs:192), and `RequestsEnd` fails.
- FailManager: a promotion may rest on failures further apart than findtime, as a line
  out of order drops nothing that is later (failmanager.rs:106); that is why
  `BanIsJustified` bounds them from above by the host's latest line only. Of a log read
  late, purge drops failures that lie within findtime by the log (failmanager.rs:176);
  that is why `NoMissedBan` goes by the clock. A session id used by two hosts makes the
  check of ignoreip look at one and the ban go to the other (failmanager.rs:74,
  jail.rs:226).
- Database, without `lost`: a lost second statement breaks `CurrentIsMostRecent`.
- LogTail, without `astray`, two causes break `OnceInOrder`: falling back to polling
  begins at the head of the file, and inotify stores the inode of the file it left
  (file.rs:123), so that it reads the new one twice.
- WebAuth, without `raced`: a login past its comparison outlives the password change
  (`SessionsFollowPassword`). Two first-run setups, with `User` of two, create two
  accounts (auth.rs:314, though auth.rs:302 says "Only works when no admin exists"),
  which `AccountsKept` allows.

### Other differences between what is said and what is done

- Expiry deletes the newest row of the history that escalation counts
  (database.rs:83), so a host whose bans expire never escalates.
- README.md:337 speaks of LRU eviction; the ignore cache evicts in order of insertion.
- jail.rs:267 promises a 3-second timeout of the DNS lookup; there is none.
- MANUAL.md:626-635 shows `%(..)s` in a jail's section; only [DEFAULT] is interpolated,
  and a jail's text is parsed, or stored, as it is written (config/jail.rs:108-130).
  `LastSetterWins` compares a jail's values as they are stored.
- `reload <jail>` loads the files, drops what it loaded, and restarts the jail with the
  configuration the server has.
- A ban by hand writes no row, so a restart forgets it (jail.rs:389).
- README.md:263 names `bantime.increment`; the code reads `bantime_increment`.
- The global settings are read from `*.conf` only: `fail2ban.local` is ignored.
- rail2ban.conf is read as a jail file as well (loader.rs:203), so that its
  `[Definition]` becomes a jail of that name.

## 4. The theorems

`DatabaseProofs`, for any sets of jails, hosts and ban times and any bounds:
`TypeCorrect`; `RestoresEachHostOnce` and `CallsAreIsolated`, whatever is lost;
`ListsMostRecent` and `RestoreMissesNoBan`, until a statement is lost. The invariant
is `LatestInv`: the keys of both tables are unique (`KeyInv`), and, until a statement
is lost, each index row names the latest history row of its host, with an exception
for the host a half-finished call is about (`Latest`). It is needed because between
the statements of add_ban or remove_ban the conclusion is false.
`CallsTakeEffectAtOnce` is the refinement: each statement maps to a step of `BanList`
or a stutter. It rests on `KeyInv` and on the row of a half-finished add_ban being in
the history.

`FailManagerProofs`, for any hosts, sessions, maxretry and findtime, and timestamps in
any order: `TypeCorrect`; `PromotionsAreJustified`, if findtime is not negative;
`NoBanIsMissed`, without a hypothesis. For the first the invariant says that what a
ticket holds was counted for its host and is not later than the host's latest line
(`SoundInv`). For the second it says the converse: what was counted and is not in the
ticket is too old, by the later of the clock and the host's latest line, to count ever
again (`NothingRecentLost`); that later moment only moves on, which is why neither the
trimming by a line's time nor the purge by the clock can lose what still counts. Both
are stated of the cached check as well: it implements FailManager, whose ignore command
may answer anything (the lemma `CheckImplements`).

The same module, for any size of the cache and any max-time: `CacheHoldsLastAnswers`,
the invariant that each entry is the last answer the command gave for its address, and
one of its kind; `DecisionsFollowTheCommand`, from it; and `CheckTypeCorrect`.

`JailProofs`, for any hosts and actions, with or without actionflush, any bantime,
factor, channel capacity, bounds and requests, with failing commands and crashes:
`TypeCorrect` (`TypeInv` adds what each phase of the task has under way and who holds
the mutex); `NoRuleIsOrphaned` and `ListedHostIsBlocked`, without a hypothesis; and
`StopLeavesNoRule`, if actionstart is not on demand. The invariant of the first says
that each rule above the strays has an owner: a ticket, a ban under way, a command
still to run, or an expired host still to be unbanned (`RulesOwned`). It is needed
because every operation takes its tickets first and runs its commands later. That of
the second says that a host that is listed, or about to be, has its rules, or the
command that adds them is to come, or it is bare, and that no command to come removes
one (`Covered`). That of the third says that until a mishap the actions of a running
jail are started, and that a stopping one has cleared its rules or is about to
(`StopsToCome`). That a ban time is a number follows from `PowerStep`
(`RecursionLemmas`): the provers know nothing of exponentiation, so that `Power` is a
recursive function.

The same module, for the same constants, with failing commands and crashes at any
step: `DatabaseFollowsMemory` and `RuleCanBeFound`. Both assume that bans come from the
failure pipeline or a restore and end by expiry, a stop or an unbanip sent to the jail
(`ByTheBook`: no banip, which writes no row, no unban of the server, which deletes the
rows before the jail has acted, no second restore, no line during one); the first also
that every start restores the tables (`RestoredOnStart`), the second that an action adds
one rule and actionstart is not on demand (`OneRule`). Without them both are false
(section 3). The invariant of the first (`Agreement`) counts with each ticket in memory
the rows a restore has still to bring, from the snapshot, in the sender's hands or in
the channel, each once and none for a host that is listed or under way. That of the
second (`Recorded`) says what each phase of the task still has to do about a rule
without a row, and that none is there while the jail is down or being restored.
`MCJailIndex` meets the hypotheses.

`ServerProofs`, for any jails, clients and requests and any number of them:
`ServerTypeCorrect`, with which steps hold the mutex and the read guards, and, without a
hypothesis, `AliveIsListed`, `OneLifePerName` and `ReloadIsEffective`, whoever starts,
stops and reloads. The invariants: each jail that is alive is listed or in the hands of
a request (`Accounted`); as long as nobody has raced, the name a client is starting is
vacant, and no two clients are starting it (`NothingUnderWay`, `OneUnderWay`); and as
long as no reload was crossed, no jail is listed or being started from the moment a
reload has stopped them until it stores its configuration (`Cleared`), so that what is
listed, about to be spawned or about to be listed is as new as the one stored
(`RecentInv`), and the last one loaded is stored or about to be (`Promised`).

`LinePipelineProofs`, for any number of lines and rotations, any capacities and any
lines that match: `PipelineTypeCorrect`, `LinesAreSentOnceInOrder`,
`MatchesAreDatedClose` and `FailuresAreCounted`. The files hold the pieces in the order
they were written, across rotations (`DiskOrder`), and `OrderInv` says that whatever the
backend may still come to read, in the files after its own, behind its position, or
anywhere in its file once that has shrunk below it, is newer than all it has read. That
needs the size it compares with never to exceed its position, or else nothing to have
been read (inotify takes the size of the file before it reads it). The jail's part
(`JailOK`) is that its buffer holds the last lines received, none of which was part of
a match, and is empty only right after one.

`WebAuthProofs`, for any users, passwords, addresses, tokens and requests and any
limits: `TypeCorrect`, from what each request may be about to do (`TypeInv`);
`AccountsAreKept`; `SessionsFollow`, whose invariant says of sessions, and of logins
past their comparison, that their password is the present one, or they are marked, or
a change of the password has yet to close the sessions, which is needed because between
the UPDATE and the closing a login may enter with either password; `FailuresAreBounded`
and `LimiterIsExact`, which are inductive with the types: what time does to a count by
age is shown by a bijection of the events counted, since a sum over ages, being
recursive, is out of the provers' reach.

`ConfigProofs`, for any directories and files, any edits, any settings and any widths,
under the assumptions that `Interpolation`, `ConfigFiles`, `BanTime` and `Config` make of
their constants: `ConfigTypeCorrect`, `BansLastAsSaid`, `LastSetterHasTheSay`,
`InterpolationSubstitutes` and `LoadsUnlessThereIsACause`, the five properties MCConfig
checks. Little happens in the transitions of `Config`; the inductive invariants relate
the state to the files. `ConfigInv` says that what is loaded has its filters and
settings that parse, that the settings of a started jail are numbers, and that a ticket
was computed from them with some jitter and without a panic; `FilesInv` that the files
are finitely many and made of lines, that what is loaded are documents of texts, that a
started jail's filter was made of what is loaded, and that after a failed load the files
still fail to load. The rest is about what the operators compute:

- *Ban times* (`BansLastAsSaid`): saturation and the minimum commute with the exact
  product as long as the exact result is one chrono can hold, and the casts keep it.
- *Interpolation*: by induction on the levels left, a text comes out of the recursion
  if and only if that many rounds of replacing leave nothing but literals, and then as
  what they leave (`InterpolatedIsSubstituted`). The step needs that replacing
  distributes over concatenation and that literals stay.
- *Parsing* (`FileReads`, `FileSays`): by induction on the lines, the parser stops at a
  broken line and only there, and its sections say of each key what the file says read
  from its last line back: who is the last to set it, and with which continuation lines.
  The invariant of that loop (`Sections`) also says which entry is open to continuation
  and which names the [INCLUDES] sections before it have given.
- *Merging and includes*: the includes are a recursion over the set of files on the
  way, so its existence and its equation have to be shown (`Fixpoint`), and induction
  goes from the set of all files down (`SeenInduct`). By it, what a file resolves to
  says of each key what `LastSet` says (`ResolvedSays`), hence what all files together
  say (`LoadAllIs`), which is `LastSetterHasTheSay`.
- *Why loads fail*: `Reached` is the least set of files closed under includes, since a
  chain of growing sets of files ends after as many steps as there are files
  (`ReachedIsClosure`, by cardinality). A file resolves if and only if all it reaches
  can be read and none reaches itself (`ResolvedFine`), which makes
  `Load(tree).ok` equivalent to the absence of every cause (`LoadsOrHasCause`).

Attempts at these proofs corrected the models: a version in a step of `Server` is
bounded by the version on disk, and not by the one loaded, which is false with two
clients that reload, and its set of names is finite; `DatesAreClose` says that there is
a date, and that it is not that of a later line; `None` of LogTail differs from inodes
and handles. `WebAuth` counts events as a set, where it had summed over ages, and
LogTail compares pieces by their places, where it had flattened what was sent; neither
changes a value.

Those about the configuration corrected more. The reference for includes took every
`before` line of a file, where the code takes the last of each [INCLUDES] section with
the lines that continue it; the one for filters asked whether a file is there, where an
empty file does not make a filter (filter.rs, `FilterDefinition::load`); a cycle left
`LastSet` without a value, so it now follows the files on the way as the loader does. In
the model, the entry of a key with an empty name could not be continued; and with a large
`LongestBan` the permanent ban of the reference was shorter than a finite one (`Endless`).
MCConfig got the files in which the references for includes and filters differ.

Every safety and every action property of a passing run is stated by a theorem. Only
model-checked are the liveness properties (`RequestsEnd`, `BansEnd`, `MutexReleased`,
`LinesArrive`, `SessionsEnd`), as the prover reaches neither fairness nor ENABLED, and
the four properties that the runs of `findings` violate. No recursive operator occurs
in a module: what recurses is a recursive function, and each of them is shown to exist
where a proof needs its equation.

## 5. Not modelled, and what is left

- What a regular expression, a tag of a failregex or a date pattern matches, address
  parsing, the protocol and the binaries: text conversions without state.
- Tags within tags, sections and keys for one address family, and the naming of
  lt_ and ipt_ sections in the interpolator and the action loader.
- The journal backend, a child process read line by line; several log files of one
  jail in one model (LogTail follows one; FailManager takes lines in any order, as
  several files bring them).
- The DNS lookup; rendering, cookies and routing of the web pages; getters and setters
  of log settings.

Left to prove: that `LinePipeline` and the jail together implement an abstract queue of
lines; `DatabaseFollowsMemory` for an unban by hand, once the rows it deletes and the
command it sends are related; of actions what `InterpolationSubstitutes` says of filters.
