# TLA+ models of Tameng

Tameng ("svalinn") is a web application firewall in one Go binary. This directory
holds TLA+ models of the parts of it where steps of several goroutines, or of one
long life of a process, have to fit together; the TLC configurations that check
them on small instances; and proofs, checked by TLAPS, of the results that are
worth having for every instance. Line numbers refer to `src/internal/` unless a
path says otherwise.

Contents: [the system](#the-system) · [the plan](#the-plan) ·
[conventions](#conventions) · [the models](#the-models-and-their-runs) ·
[the proofs](#the-proofs) · [where code and comments differ](#where-the-code-and-its-comments-differ) ·
[what is not modelled](#what-is-not-modelled) · [how to run](#how-to-run)

## The system

`cmd/svalinn/main.go` builds one `server.Server` (`server/server.go`), which makes
every component, installs 30 middlewares (`setupMiddleware`), and listens twice: a
plain listener whose `ServeHTTP` answers the ecosystem's paths itself, and a TLS
listener that serves the router. Each request runs in a goroutine of its own
through the middlewares; components are shared by all of them and by a few
background loops. There is no queue and no central lock: what goroutines agree
on, they agree on through the maps below.

### Components

State, operations, what is hard about it, what makes it right.

**Countermeasures** (`countermeasures/countermeasures.go`). Three maps of temporary
sanctions by address, a log of actions capped at 1000 entries, the log's file.
Operations: `TempBlock` (escalating), `Throttle`, `SoftIsolate`, `AutoRespond`,
`Unblock`, `ReverseLastBlock`, three lookups, `Cleanup` once a minute; every change
ends with `saveLog` (temporary file, rename). Hard: lookups check under one lock and
delete under another; saves fail; crashes; restart rebuilds the blocks from the log
the cap has cut. Right if: a block in force is what the log says; a reversed block
never comes back; a failed save or load is visible; the file always parses.

**Gray zone** (`actor/grayzone.go`). A ring buffer of uncertain events and its file.
`Add`, four readers, `Clear`, `SaveToFile` from the autosave loop (30 s) and from
`Shutdown`, `loadFromFile`. Hard: modular indices in four places; two savers write
one file outside the lock; a crash inside the write; a file that cannot be read. Right if: readers see the newest
events in order and agree with each other; a start finds a copy that was taken, or
nothing; a shutdown loses nothing.

**Actor tracker** (`actor/actor.go`). Two `sync.Map`s (light counters, then actors),
two counters of their sizes, a lock per actor. `Track`, `promote`, `Block`, `Unblock`,
`IsBlocked`, `AddThreat`, `evictOldest`, `cleanup`, `CalculateRiskScore`. Hard: no lock
spans a lookup and the write that follows. Right if: an actor was earned, a block is
not lost, the sizes are right, the score does what its bands promise.

**DDoS engine** (`ddos/engine.go`). One state per address: an average of its rate, a
phase with an end, a flag. `Check`, `RecordChallengeResult`, `Block`, `Unblock`,
`cleanup`. Hard: integer time, the first request, a flag kept apart from the phase,
cleanup that deletes on a stale reading. Right if: phases last, floods are blocked, and what is
stale goes.

**Orchestrator and kill chain** (`orchestrator/`). Clusters of addresses by
fingerprint, one chain per address, a score, a table of blocks. `Orchestrate` per
request. Hard: chains and clusters are changed and walked without a lock (two
goroutines can make the runtime stop the process over a map). Right if: attacks are
answered, sessions are linked rightly, chains stay in order.

**STIX engine** (`intel/stix.go`). Indicators under one `RWMutex`; `ParseBundle`,
`MatchIndicators`. Hard: the lock is upgraded while held for reading; a limit that imports
which interleave share. Right if: calls return, and what was imported is there.

**Intel hub** (`intel/hub.go`, `server/intel_hub.go`). Tables of blocked addresses,
domains and hashes, changed by operators.

**Heimdall intake** (`server/handlers.go`, `handleHeimdallReport`). Reports of firewall
nodes: a table of recent ones, blocks, and `data/attacker-memory.json`, read, changed
and written with no lock; errors of either are ignored. Hard: two reports at once, a crash
inside the write, a failed read or write. Right if: what was answered is in the file, once.

**Middlewares** (`server/middleware.go`). On the way in: three tables of blocked
addresses are consulted at three places, and every detector may refuse or report.
On the way out: two of them hold the response back, one appends to it, one may
answer after the answer. Hard: order and exemptions; state that changes between two
of them; who a request is from, which the connection, the proxy's headers or the client's own
may say; a response that outgrows a buffer in the middle of a write, or that is compressed;
panics. Right if: no blocked request reaches a handler, nobody is blocked for another, and the
client gets one whole answer whose headers fit and no leak that can be read in it.

**Detectors behind the middlewares**: behavioural detector and baseline (`behavior/`),
pre-attack (`preattack/`), business logic (`logic/`), network, exploitation, evasion
and directory attacks (`detect/`), WAF signatures with their literal prefilter
(`waf/`, `literalextract/`), malware, zero-day and semantic scorers (`malware/`,
`heuristics/`, `semantic/`), machine-learning scorers (`ml/`), proof of work
(`security/pow.go`), protocol guard (`protocol/`).

- *Tables.* The behavioural, pre-attack, business-logic and network detectors keep
  records by address or session, with windows and cleanups. All but the business-logic
  guard change them without a lock. Hard: records stored twice, counts and slices that
  overwrite each other, a cleanup that deletes or filters a record in use. Right if: a
  client is refused for what it did itself, for enough of it, and, if its requests do not
  race, exactly when they call for it.
- *Scanners.* The detectors of `detect/`, malware and semantic analyzers evaluate lists of
  patterns in a shuffled order against a deadline; a prefilter of literals says which
  patterns cannot match. Hard: a scan may stop anywhere; the flags of all categories lie
  in one list; case folding beyond ASCII. Right if: the prefilter skips nothing that
  matches, and a scan that ran out of time only misses.
- *WAF engine.* A list of signatures and an automaton derived from it, under one
  `RWMutex` but in different critical sections. Hard: reloads that overlap scans and each
  other. Right if: what is in the list is found.
- *Proof of work.* A table of challenges. Hard: a token presented twice at once, late,
  or with wrong nonces. Right if: a challenge is worth one request.

**Actor profiles** (`actor/reserse.go`). Profiles across addresses, merged by
correlation; blocks counted and escalated. Hard: `Track` is four unlocked steps, so
two requests of a new address make two profiles; identifiers have the resolution of
a millisecond.

**Egress scanner** (`egress/advanced.go`). A flow of bytes per client, a capped list of
alerts, three modes. Hard: fixed windows, an average over them, two critical sections per
scan. Right if: too much is noticed, the list loses only its older half, and a response
is withheld for what it holds.

**Honeypot** (`honeypot/`, `server/honeypot_handler.go`): traps by path, triggers,
taunts. **Fingerprints** (`fingerprint/`), **client address** (`netutil/`),
**proxy** (`proxy/`), **response tokens** (`response/`), **configuration** (`config/`), **logging** (`logger/`), **geolocation**
(`geoip/`), **session guard and deception** (`session/`, `deception/`, made by the
server and hardly called).

Nothing that `cmd/svalinn` reaches imports `collector`, `db`, `dataloader`,
`observatory`, `hardening`, `siem` or `ecosystem`.

### Interactions

- A request meets the intel hub's table, then detectors (each may call
  `Tracker.AddThreat`), then countermeasures' table, then the tracker's
  (`Track`, `AutoRespond` on the score), then the WAF (may call `Tracker.Block`), then
  the DDoS engine (likewise). A honeypot hit may call `TempBlock`.
- Operators block and unblock through `handleBlockIP`, `handleUnblockIP` and the intel
  handlers; Heimdall nodes block through their reports, and tenants through the feeds
  that `handleShieldThreats` and `handleDNSBlocklist` make of them. `handleReloadRules` adds
  the evolved rules to the WAF engine while it serves.
- Background loops: countermeasures' `Cleanup` (1 min), the network detector's (2 min),
  the behavioural detector's (5 min), the business-logic guard's, the tracker's and the DDoS
  engine's, the gray zone's autosave (30 s).
- `Shutdown` closes a channel, saves the gray zone, stops the listeners; `main` returns
  without waiting for the loops.

`PROJECT.json` lists the hazards that follow from this, each at its line, with the
properties that speak of it.

## The plan

Order: what decides about blocking first, since that is what the program is for;
then what carries it out; then what it hands out; then the detectors' bookkeeping.

| step | module | composes | state |
|---|---|---|---|
| 1 | `Countermeasures` | implements `BlockLedger` | done, proved |
| 2 | `GrayZone` | implements `RecentEvents` | done, proved |
| 3 | `ActorTracker`, `ActorRisk` | | done, proved |
| 4 | `DdosEngine` | | done, proved but for liveness |
| 5 | `StixEngine`, `HeimdallReport` with the feeds | | done, proved but for liveness |
| 6 | `Orchestrator` | | done, proved |
| 7 | `RequestPipeline` | what 1, 3, 4 and 6 are to a request | done, proved |
| 8 | `ResponsePath` | | done, proved |
| 9 | `Reputation`: actor profiles of `reserse.go` (the unlocked steps of `Track`, merging, escalation of blocks) | | done, proved |
| 10 | `ClientTables`, `BehaviorDetector`: the tables of the detectors, with their windows and cleanups | both filter with `TimeWindow` | done, proved |
| 11 | `ContentScan`, `Prefilter`, `WafEngine`: deadlines, the literals, the reload of rules | `WafEngine` takes from `Prefilter` that a matching rule brings a literal it requires | done; all three proved |
| 12 | `ProofOfWork`, `EgressScanner` | | done, proved |

Abstract specifications worth stating: the ledger of sanctions (1), the bounded list of
recent events (2). `RequestPipeline` takes
two facts from the models below it instead of composing their states: that the score
never reaches the band that blocks (`ActorRisk`, proved) and that the orchestrator
blocks nobody (`Orchestrator`, proved).

## Conventions

- One module per component; the theorems are in `...Proofs` modules, one for each component or for
  those a run takes together. Definitions keep the names of the code.
- An `MC...` module has the values a configuration needs. Six of them (`MCActors`,
  `MCAttackers`, `MCClients`, `MCRequests`, `MCScanning` and `MCDetection`, which adds the
  STIX engine to `MCScanning`) stand for several components that
  belong together and share no state: a behaviour first chooses which of them it is of
  (`part`), then takes that one's steps, with the variables of the others at rest. It is
  the union of their behaviours, so one run checks each of them as a run of its own would;
  it says nothing about steps of the one between steps of the other, which cannot
  influence each other. Where components do influence each other, one module has both.
- A step is a critical section, or what runs between two of them. A method that takes
  its lock once is one action; one that lets go of it in the middle is several.
- `sync.Map`s of pointers are a table of pointers and a heap, so that a call can go on
  writing to what has left the table.
- Time is a counter with a bound, or an age kept per entry and counted no further than
  the comparisons of the code can tell apart.
- Definitions called `Variant` or `Mutant` in their comment are the plausible wrong
  forms of the one that follows; no specification uses them. `PROJECT.json` pairs each
  with a property it violates.
- History variables (`alone`, `savesAlone`, `cause`, `heard`, `merged`, `company`, `barred`, `born`, `used`,
  `trapped`, `posted`, `escalated`, `log`, `swept`, `cut`, `passed`, `served`, `recorded`) are read
  by properties alone. `alone` says that calls came one at a time so far: several
  properties hold only then, because the code takes no lock around a read and the
  write that depends on it. The models keep all the interleavings; `alone` only says in
  which behaviours the property is claimed, and the next to last section says what
  happens in the others.
- Deadlock is checked wherever the system never stops. `Attackers.cfg`, `Clients.cfg`,
  `Requests.cfg`, `Attribution.cfg`, `Detection.cfg` and `StixMatch.cfg` turn it off: a bound on the number of requests or
  calls, the end of the one response that is followed, or a process that has died stops
  the model there.
- Symmetry is used only in runs without liveness properties.

## The models and their runs

### Countermeasures, BlockLedger

`table[t][ip]` is the three maps, `log` and `disk` the action log and its file,
`saving` how far `saveLog` has come while `c.lock` is held. `BlockNow`, `Throttle` and
`SoftIsolate` are `applyTempBlock` and its siblings; `AutoRespond` takes one or two
critical sections by the band of the risk; `ReadEntry`, `CheckExpiry`, `DeleteExpired`
are the three parts of a lookup; `WriteTmp`, `Rename`, `SaveFails` are `saveLog`; `New`
is `loadLog` with `rebuildBlockedIPs`. Only what is read back of a log entry is kept.

One run, `countermeasures`: one address, since only the log is shared between addresses
and throttles of the same address fill it as those of another would; a cap of two, so
that evictions hit actions of blocks in force; two levels, so that escalation and the
wrap-around both happen; one tick, after which a block of the first level is over and one
of the second is not; every band of `AutoRespond`; saves that fail at either step, crashes
at any. The lookups are of the table of blocks, since the other two tables are read by the
same three steps. `BlocksAreLogged` relates the map to the log; `LogIsLedger` is refinement
of `BlockLedger`, in which a sanction comes on record only when it is imposed or the durable
copy is read back; `ExpiredBlockLeaves` says a sanction nobody extends leaves its table.
Fairness: a save that was begun ends (weak); the one-minute ticker calls `Cleanup` for ever
and is granted the write lock in the end, because `sync.RWMutex` lets no reader in while a
writer waits and hands over to a starved one (strong, since others disable it over and over).

### GrayZone, RecentEvents

`entries`, `head`, `count` are the fields; `saver` the two goroutines that may be inside
`SaveToFile`; `file` is an array, empty, or bytes that do not parse. `Open` truncates,
`Write` writes from offset 0: if the other saver has written since, the result may be the
one, or garbage. `New` loads what the file has, or nothing: when it does not parse, and also when
it is there and `os.ReadFile` fails (`grayzone.go:180`); the next save then writes over it, and
`RecentEvents` loses what was kept. Checked in the run `actors`: five events in buffers of one to three wrap each of them, twice the
smallest, and two restarts with other sizes follow. `ReadersAgree` is about the indices
of four readers that each compute their own; `BufferIsRecent` is refinement of the bounded list with the copies under way and
the copy that is kept; `ShutdownFlushes` is what `TestShutdown_FlushesGrayZone` tests,
claimed when no autosave overlaps.

### ActorTracker, ActorRisk

`counters` and `actors` are the two `sync.Map`s, `heap` the actors, `call` the goroutines:
`Load`, `Touch`, `Count…`, `Limit`, `Evict`, `Store`, `Drop` are `Track` with `promote` and
`evictOldest`, lookup by lookup; `Apply` is what `Block`, `Unblock`, `IsBlocked` and
`AddThreat` do under the actor's lock; the `cleaner` walks both tables and deletes on
what it read. Two goroutines, two addresses, room for one actor, three calls: a promotion
meets a block, an eviction or another promotion. `ActorsAreEarned` holds in every
interleaving; `StatsAgree` and `BlocksHold` while calls come one at a time.
`ActorRisk` is one actor's counters and score, in hundredths of a point, up to where each
part saturates (20 threats × 4 in the code becomes six kept threats: five reach the cap
of that part; 1002 requests reach the cap of the volume, seven blocks that of the blocks).

### DdosEngine

A state has its average in whole requests per second, its phase and time left, its idle
time and the flag; a `Lookup` takes a pointer, `Locked` is the operation under the lock.
The average is taken in integers rounded down, where the code's is a float; the bound of
1000 requests per second it cannot exceed is the code's, from the least delta of a
millisecond. One goroutine and the cleanup, a clock that never stops, a window of two
seconds, and three thresholds an average can reach. `PhasesLast`: until the time of a phase is
over no request and no cleanup changes it, nor its flag, in either direction. `FloodsAreBlocked`:
a client that keeps sending, whatever phases it goes through and whatever the cleanup does
meanwhile, is in the block phase in the end. Fairness: calls run on; each pass of the cleanup
comes to every key (strong, since calls come between). `ddos_flood` asks the same of the shipped
window and thresholds, and fails.

### StixEngine

`readers` hold the read lock; a caller in `return` with matches asks for the write lock
and thereby keeps new readers out. Two callers, bundles of two, room for one indicator, two
imports. `brought` is the history of what imports came past, each with its expiry.
`IndicatorsArrive` relates it to the table: what was brought is there unless as many other
identifiers were there before it, and what is there was brought so, in one piece. That a full
engine refuses even the refresh of an indicator it has is how the code is, and the property only
leaves room for it. The expiry is the latest one only while imports come one at a time, because
`addIndicatorFromMap` takes the time before it has the lock. Fairness: as for countermeasures,
strong for what needs the write lock. `CallsReturn` says that calls return until one has matched.
Both are checked in the run `detection`. `stix_match` is the finding: the caller that matched
waits for itself; deadlock is not checked, because that is one.

### HeimdallReport

One thread per report: `Receive` (duplicate check), `Stamp`, `Read`, `Truncate`, `Write`;
`Crash` at any point. A `Read` may fail, and the report goes into an empty memory; opening the
file may fail, and so may the write, after nothing or a part of the text (`WriteFails`): the
report is answered as processed all the same (`Answer`). A part of the text is taken not to
parse, as no proper part of a JSON object does. `intact` records whether any of that failed so
far: as long as nothing did, and neither a crash nor another report came between,
`ReportsAreKept` demands that the file adds up; `NothingIsMadeUp` is demanded always. Two threads, two addresses, two reports (one grave, one of high
severity that nobody is sure of), a timeline of one entry and windows of one tick, three
reports at most before the last ones: the smallest in which a report is lost, one is torn,
and a stamp runs out. `MemoryIsTrue` compares the file with a reference (`ActorAfter`) computed
from all reports answered. `DNSBlocklist` and `ShieldThreats` are the feeds; the numbers
of actions that raise a derived score, 100, 500 and 1000, are cut to 0, 1 and 1 (`Busy`), so that
each step of it is reached.

### Orchestrator

One thread per request: `Cluster`, `Detect`, `Transition`, `Record`, `Predict`, `LookUp`,
`Walk`, `Execute` are the parts of `Orchestrate` between which another request may run.
`down` is the runtime stopping the process over a map that is written while it is used.
Three requests, two at a time. Only the four techniques `detectTechnique` knows exist; so
only three stages are ever reached, which `TypeOK` states.

### RequestPipeline

`Chain` is `setupMiddleware`'s list without those that let everything through. A request
is at a place in it; each middleware has an action that lets it pass, refuses it, and
changes the tables as the code does; the verdict of a detector is any. Between two of
them operators and time change the tables. `barred` records which blocks have been in
force ever since the request came in: `BlocksHold` says no such request reaches a
handler. `Senders` is what the server may see of a client: its own connection, with headers it
writes, or that of the reverse proxy. The proxy is external, modelled by what the comment of
`trustedClientIP` says of it: it speaks from the loopback address, sets `X-Real-IP` or not, and
appends the client's address to `X-Forwarded-For`, whatever the client put there. `Attributed` is
`trustedClientIP`; `UserID` takes `X-User-Id` before that, as the behavioural baseline does.
`NobodyPaysForAnother` relates the blocks and attacks held against an address to what that
address did; `ThreatsGoByTheAddress` asks the same of all threats and fails (`attribution`). One
goroutine with two requests of one address, which says nothing or names the other in all three
headers, two orders of an operator between any two steps: the goroutines of the code share only the tables, which
the operator changes in every way another request could. All six kinds of path, since
the exemptions go by them.

### Reputation

`profiles`, `ipTo` and `fpTo` are the `sync.Map`s of `reserse.go`, `heap` the profiles, `call`
the goroutines. `Track`, `MatchFingerprint`, `CorrelateAdvanced`, `Link`, `UpdateProfile`,
`CreateProfile`, `StoreProfile`, `PointIP` are `Track`, cut where another goroutine may run;
`RecordBlock` with `EscalateBlock` is a trap of the honeypot, `RecordPostBlockRequest` what the
actor middleware adds. Scores are in thousandths; the similarity of user agents and of
injected headers is left open, so the model merges whenever any two clients could. `born`
records for which addresses a profile was made under an ID, `used` what an address has shown;
from these `Kin` says who has something in common, directly or through others.
Three addresses, two of them neighbours with one browser, one imported from the old file, two of
them with the same technique; two goroutines, four calls, a pause. Thresholds are cut
(a fingerprint is generic from two addresses on, two blocks escalate), so that they are reached
within four calls; two milliseconds, so that two profiles share one or not.

### ResponsePath

The writers are operators on a record of the response; `CaptureHeader` and
`CaptureWrite` are `egressResponseWriter`'s methods with their switch to pass-through. Both captures
are instances of them that differ in the writer behind: egress (`EgressWrite`) writes to encryption
(`EncryptWrite`), which writes to the writer of the detector and the log (`FrontWrite`). The phases are the second
halves of the middlewares from the inside out; `net/http` is external, modelled by how the
code uses it: the first status counts, and a write beyond the announced length is dropped.
A capture holds three units where the code's holds 200 KiB; bodies have up to four units,
one of them a leak at most, cut into writes in every way, so that every write can begin, end or cross at the limit.

Egress scans what `decompressForScan` makes of the capture (`ForScan`). A body may be plain, in a
coding that is decoded ("gzip", for deflate and for layers of both too) or in one that is not
("br", for zstd and the rest), and may lack its label. A unit of a gzip body decodes to
`Expansion` units, two in the run, and no more than a limit's worth is decoded; without the label
the decoded text shares that room with the bytes themselves. `LeaksAreCaught` is about the leaks
that can be read so (`Readable`). A leak behind them, in a small response that expands past the
limit, and any leak in a br or zstd response, is sent: the code is written so, as its comments
say, and no property claims the contrary. A stream that breaks off in the middle, and a label
that names a coding the body is not in, are left out.

### ContentScan

One detector and one content: how often each of two patterns matches in each of two or
three categories, zero, one or three times (`FindAllString` is asked for no more), all
combinations. `BeginCategory`, `EvaluatePattern`, `EndCategory` are the loops of
`AnalyzeContent` and `checkPatternsFilteredWithDeadline`; the order of the patterns, and of
the categories where the code walks a map, is any; `DeadlinePasses` at any point. The
categories examined are those whose weights and severities meet a threshold of the code:
the scores, thresholds and severities are the code's own numbers. `ScansOnlyMiss` relates what a
scan reports to `Full`, what evaluating everything would.

### Prefilter

`Required`, `NewGroups`, `CandidatesOf`, `Slice` and `Evaluates` are `literalextract` and its
use, as operators; `SpansIn` is what Go's `regexp` makes of a syntax tree (external): for each tree,
whether it matches a slice of the text, where the parts of a concatenation meet at cuts. Eleven trees of
every kind the extraction distinguishes, two of them (or a nil entry) at most in two categories, and every text of up to
three runes of an alphabet that has an ASCII letter in both cases, the letter outside
ASCII that folds to it, and another in both cases: what separates ASCII folding, which the
automaton does, from the folding of `(?i)`. Three runes, since the longest literal has three;
a literal is useful from two runes on instead of four. `TreesAssumption` says that a tree is made of smaller
ones, and a capture of one; a capture's literals are then those of an alternation of one.

### WafEngine

`AddRule` and `RebuildBodyPrefilter` are the critical sections of `LoadEvolvedRules`; `Scan` is
under the read lock all the way. The rules, their literals and the files are constants; the run has four rules: one built in and one evolved with different
literals, one with none that looks at body and path, one that does not compile; two reloads
that may overlap, a change of the file, a restart. `Prefilter` gives the assumption that a body
a rule matches holds a literal the rule requires; `FilesAssumption` says that the rules loaded are rules.

### ClientTables

Three detectors in one module, since they have one shape: a record per client that is
looked up (`Load`), stored if there is none (`StoreNew`), changed and judged. Of the network
detector `Anomalies++` is a read and a write; of the pre-attack detector the lists are read
and written one longer; the business-logic guard has one step under its mutex. `FindStale` and
`DeleteStale` are the network detector's cleanup. `Earned` and `Due` are the reference, computed
from all a client was seen doing. Two clients, two goroutines, three requests, thresholds of two:
every threshold is met, exceeded and missed by one, records are stored twice and deleted in use,
and five ticks let a window of two end twice. `TimeWindow` is the filter by time (`Newer`), which the
guard and the behavioral detector's cleanup share.

### BehaviorDetector

A profile's slice is modelled as Go has it: a backing array and a header, because
requests append to it through headers they read before, and the cleanup moves events to the
front in the same array while others walk it. `Views` is what a walk can see meanwhile. `down`
is the runtime's fatal error over a map two goroutines write. One address (the profiles share
nothing), three requests of two goroutines, two kept events, so that an event is pushed out;
windows of zero, one and two ticks, so that each can be the one that decides.

### ProofOfWork

`Validate` is one critical section; the middleware's `Challenge` and `Pass` are others. Two
challenges, any token with any right or wrong nonce, at any time, by two goroutines.

### EgressScanner

`checkVelocity` and `checkBody` (encoding, secrets, `recordAlert`) are the two critical
sections of a scan; `checkGeofence` reads nothing that changes. Two goroutines answer one client
three times in three ticks, windows of one tick and a limit of two units: a window that is
exactly full, one over it, a volume split over two windows, a spike over the average. A list of
three alerts that keeps two. The modes are those in which each kind of finding that can block
and each that cannot occurs. The history says of each response what had gone to the client before it
and in which flow it was counted, so the volume of a stretch is a difference (`Bytes`).

### What each run shows

| run | module | properties | hazard |
|---|---|---|---|
| `countermeasures` | `MCCountermeasures` | `BlocksAreLogged` `SavedUnlessReported` `RepeatOffenseExtends` `LogIsLedger` `ExpiredBlockLeaves` | stale deletes, the cap, failed saves, crashes, tables that grow |
| `actors` | `MCActors`: `ActorRisk`, `ActorTracker`, `GrayZone` | `NeverTempBlocks` `NoCauseNoAnswer` `RiskNeverFalls`; `ActorsAreEarned` `StatsAgree` `BlocksHold`; `ReadersAgree` `BufferIsRecent` `ShutdownFlushes` | sums that meet their bounds; lookups without locks; indices, two savers, crashes |
| `ddos_engine` | `MCDdosEngine` | `PhasesLast` `FloodsAreBlocked` `StaleStatesGo` | cleanup, phases that follow each other |
| `ddos_flood` | `MCDdosEngine` | `FloodsAreBlocked` (violated) | thresholds out of reach |
| `stix_match` | `MCStixEngine` | `MatchesAreAnswered` (violated) | lock upgrade |
| `attackers` | `MCAttackers`: `Reputation`, `HeimdallReport` | `AddressesResolve` `StrangersStayApart` `EscalationIsEarned`; `MemoryIsTrue` `FeedsAreEarned` `OncePerQuiet` | unlocked lookups, merging, identifiers of a millisecond; read-change-write, crashes, derived scores |
| `clients` | `MCClients`: `Orchestrator`, `ClientTables`, `BehaviorDetector`, `ProofOfWork` | `ChainIsInOrder` `AttacksAreAnswered` `NobodyIsBlocked` `CrossedIsRight`; `RefusalsAreEarned`; `AlertsAreRight`; `ChallengesCountOnce` | shared chains, thresholds; lost updates, records stored twice; a slice filtered in place; a token used twice |
| `requests` | `MCRequests`: `RequestPipeline`, `ResponsePath`, `EgressScanner` | `BlocksHold` `OnlySmallBodiesAreScanned` `NobodyPaysForAnother`; `ResponseIsWhole` `LeaksAreCaught` | order, exemptions, identity; captures, codings, late answers, panics, windows |
| `attribution` | `MCRequests` | `ThreatsGoByTheAddress` (violated) | an identity the client names |
| `detection` | `MCDetection`: `ContentScan`, `Prefilter`, `WafEngine`, `StixEngine` | `ScansOnlyMiss`; `SkippedCannotMatch`; `QuietScansMissNothing`; `IndicatorsArrive` `CallsReturn` | deadlines; flags in one list, case folding; derived state; a limit, a lock |
| `waf_reload` | `MCScanning` | `SkipsAreSound` (violated) | a scan during a reload |
| `slow_scan` | `MCScanning` | `SlowMomentsDenyNothing` (violated) | a deadline that changes a verdict |

Several properties are conjunctions the modules name: `MemoryIsTrue` of `ReportsAreKept` and
`NothingIsMadeUp`; `ResponseIsWhole` of `BodyIsWhole`, `HeadersFit`, `PanicsAreErrors` and
`LogIsTrue`; `LeaksAreCaught` of that of `ResponsePath` and of `ScansAreTold`, which is
`VolumesAreTold`, `AlertsAreLatest` and `RefusalsAreForTheBody`; `ChallengesCountOnce` of `OncePerToken`
and `RightAnswersPass`.

Most modules state their types in `TypeOK`. Those of `Countermeasures`, `GrayZone`, `DdosEngine`,
`Orchestrator`, `RequestPipeline`, `ActorRisk`, `Reputation`, `HeimdallReport` and `StixEngine` are proved, and for
`ActorTracker`, `ProofOfWork`, `ClientTables` and `BehaviorDetector` an invariant that says more (`Sound`, `PowInv`, `SharedInv` or
`LogicInv`, `BehaviorInv`); no run lists the others: put `TypeOK` into a configuration after a change.

## The proofs

Each `...Proofs` module proves its theorems for every value of the constants its `ASSUME`
allows, so for any number of goroutines, addresses and requests. Those assumptions
say that limits are natural numbers and durations positive; the ones that say more are
named below. That of `GrayZone`, which `MCActors` states, is a hypothesis of its theorems. What is proved is an invariant `IInv` with `Init => IInv` and
`IInv /\ [Next]_vars => IInv'`, one lemma per action where it is long, and from it the
property.

- **`CountermeasuresProofs`**: `TypeCorrect`, `FileParses`, `SavedIsReported`,
  `BlocksLogged`, `LogImplementsLedger`. The verdict of a log on an address is its last
  block unless that is reversed; `VerdictAfterAppend` and `VerdictAfterReversal` say what
  appending with the cap, and marking an entry, do to it. `BlocksAreLogged` is inductive
  with `TypeOK`. The refinement adds `DownIsBlank` (a stopped process has empty tables) and
  goes action by action: an append imposes, a deletion drops, an eviction forgets, saves
  make the record durable, `New` reads it back; the parts of a lookup stutter.
- **`GrayZoneProofs`**: `TypeCorrect`, `BufferImplementsRecent`. The solver knows little of
  remainders by a variable, so `WrapsOnce` replaces `(head - count + i) % size` by a case
  distinction first, with `Place`. The invariant `BufferInv` adds to the types that the
  `count` slots behind `head` are filled (`Filled`), without which the readers' order could not
  be stated. A restart with another size is the hard step: the file is longer or
  shorter than the buffer.
- **`ClientsProofs`**, the orchestrator: `TypeCorrect`, `NobodyIsEverBlocked`, `ChainStaysInOrder`,
  `AttacksAreAlwaysAnswered`, `CrossedIsAlwaysRight`. None is inductive as it stands. `IInv` adds how far
  each goroutine's score can have come at its place: 30 for a known fingerprint, 55 with the stage of
  an attack, 75 with a crossed session, under the 80 that block; and that no stage is reached whose
  countermeasure blocks. `CInv` follows an address whose requests come one by one from the reading
  of its chain to the record of it: what a request read is still so when it writes. `XInv`
  relates what a request saw of its cluster to the cluster as it is now, which only grows.
- **`ClientsProofs`**, proof of work: `ChallengesAlwaysCountOnce`. The invariant adds why a token is
  gone: a request used it, or its time is over (`GoneForCause`). It holds because a wrong nonce leaves
  the token where it is, and it is what makes a refusal of a right nonce someone else's doing.
- **`ClientsProofs`**, the detectors' tables: `RefusalsAreAlwaysEarned`. Its invariant is one of two. For the network
  and the pre-attack detector, whose requests share records without a lock, `SharedInv` says that a record is one
  client's (`RecordsOwned`: the one whose it is in the table, or whose request holds it), so no client pays
  for another; that a counter, and what a request has read of it, with what the requests under way have yet to add
  (`Pending`), is at most what was seen of the client (`Bounded`), which survives lost updates and records stored
  twice; and that for a client whose requests come one by one, and do not meet the cleanup, the record says exactly
  what was seen (`Exact`: `Settled` between requests, `Counting` within one). For the business logic guard,
  which works under its lock, `LogicInv` says that a flow is what is new enough of all its client did; that what is kept
  of a list is kept element by element (`NewerAppend`), and twice filtered is filtered by the later limit (`NewerTwice`), are
  inductions over sequences, done with sets of sequences in place of predicates (`SeqSetInduction`).
- **`BehaviorProofs`**, the behavioral detector: `AlertsAreAlwaysRight`. `BehaviorInv` says that every profile is one
  address's, also while it is only in a request's or the cleanup's hands (`ProfilesOwned`), and of every address five
  things. What happened is in the order of time (`Dated`). Whatever a slot, a session, or an event the cleanup
  keeps says, happened (`Genuine`). Of every kind of event, that is of every set of events, a slice shows no more than happened,
  less what requests under way have yet to write, also through a header read before and with what a filter under
  way will put there (`Tallied`); this is what lost and overwritten appends keep, and it is claimed only until a
  cleanup meets a request. An alert given stays earned (`Warned`), as what an address did only grows and a tick waits
  for every request. For an address whose requests come one by one, the slice is the end of what it did, and what is missing in front
  is too old or pushed out by a full slice (`Shows`, `Recalls` for the sessions); a request keeps this true in
  the three steps it takes, and the cleanup only drops what no window reaches (`Alone`). The detectors see no difference
  between such a slice and the address's latest events (`Alike`), so they answer what `Called` does.
- **`RequestPipelineProofs`**: `BlocksAlwaysHold`, `LargeBodiesAreNeverScanned`, `NobodyEverPaysForAnother`.
  The invariant says of each request on its way that every block that bars it is still in its
  table (`Shut`), and that the request has not come past the middleware that consults that table
  (`Before`). One lemma for each kind of middleware, since most only move the request. `SInv` says that a
  request beyond the limit's place in the chain has a small body or was refused; `Fair` that whatever was done to an
  address has a request of it or an operator behind it.
- **`RequestPipelineProofs`**, the way back: `ResponseIsAlwaysWhole`. What a layer has after a status and a
  body have come to it does not depend on the pieces they came in: the connection has the headers and what
  may be sent (`FrontHas`), encryption holds them, or has passed them on and kept the first units
  (`EncryptHas`), egress likewise on top of that (`EgressHas`). One lemma per layer says that a status and one more piece
  keep this so, whether the piece is held, passes or crosses the limit. `ResponseInv` then says phase by phase what
  has come to the layer whose turn it is: what the handler wrote so far, its whole response, that with
  a mark, or one of the server's own (`Own`, `Marked`, `Servers`), each with headers that fit; and that after a
  panic a capture that held everything has sent nothing.
- **`RequestPipelineProofs`**, leaks: `LeaksAreAlwaysCaught`. For the way back, that a capture which can hold the
  response has sent nothing of it follows from `ResponseInv` (`ResponseInvCatchesLeaks`). For the scanner, `ScannerInv`
  says of each response a client was sent that it was counted in a window that began with one of them
  (`BeganWith`), that windows begin more than a window's length after those before them, and that the
  average of the windows past is not under the smallest response (`AverageFits`). A stretch no longer than a window
  therefore lies in the window of its last response or in that and the one before, and if it holds
  more than twice the limit one of the two holds more than the limit (`CountedTells`). `Latest` says that
  the list of alerts is the end of what was recorded, and all of it or at least what a cut keeps.
- **`RequestPipelineProofs`**, the DDoS engine: `EngineTypeCorrect`, `FloodsAreNotBlocked`,
  `PhasesAlwaysLast`. The type invariant carries the bound of 1000 on every average; the mean of
  two such numbers with weights that add up to the window keeps it (`MeanBounded`).
  `StepExplained` then shows that only `Block` raises the flag or the block phase, for every
  threshold above 1000 (`RequestsDoNotBlock`): which is what the shipped configuration has, and why
  `ddos_flood` fails. That a phase lasts rests on `DeletionIsDue`: with calls and deletions one at
  a time, what a deletion is about to take out is still stale.
- **`ActorsProofs`**, the score: `RiskStaysBelowBlock`, `QuietActorsAreFree`, `RiskOnlyRises`. The score is a sum
  of parts that are bounded by 30, 20, 10 and 10 points once written out, so at
  most 70, under the band that blocks. `RiskOnlyRises` needs that the kept threats number at least
  the five at which their part saturates, which `RiskAssumption` states.
- **`ActorsProofs`**, the tables: `ActorsAreAlwaysEarned`, `StatsAlwaysAgree`, `BlocksOutlastTheTable`. `Sound` is
  the shape of the heap: what a table or a call under way points to exists, no two addresses share an actor, and
  nothing else is kept. A step that makes an actor needs a free place for it, and there is one because every
  place taken is named by a table or held by a goroutine, and there are fewer of these than places
  (a counting argument over finite sets). A count of a promotion that has been decided on stays enough whatever happens
  to the counter meanwhile. For the other two `Orderly` says what the one call under way, or the cleaner, knows
  when nothing overlaps it: the counter it will drop is there, the actor it will evict is not blocked
  (`CallFits`, `CleanerFits`), and the two counters are the sizes of the tables.
- **`AttackersProofs`**, the profiles: `TypeCorrect`, `AddressesAlwaysResolve`, `StrangersAlwaysStayApart`,
  `EscalationIsAlwaysEarned`. That an address leads to a profile is not
  inductive: a call that is about to link an address to a profile must hold one that is in
  the map already, and the map must find each profile under the profile's own ID. Replacing a profile under an ID
  two of them share keeps both, since an ID that has a profile never loses it. Kinship is a closure, so
  instead of chains of ties the invariant `KinInv` speaks of every set of addresses that is closed
  under ties: everything the maps, the profiles and the calls under way say of a profile made for an address in such a
  set is about the set. Closed sets of a later state are closed in an earlier one, since ties are only
  added; the arithmetic of the correlation score shows that recency and resemblance alone stay under the
  threshold. `CountInv` bounds the counts of a profile by the sums of what the addresses of such a set
  did. Those sums are over finite sets; that adding one to a term adds one to the sum is proved
  with a least counterexample (`SubsetInduction`), since the library's induction rule cannot be used.
- **`AttackersProofs`**, the reports: `ReportsTypeCorrect`, `OncePerQuietAlways`, `MemoryIsAlwaysTrue`,
  `FeedsAreAlwaysEarned`. `CreditInv` says that neither the file nor a memory a handler is about to write credits
  an address with more than was reported of it, with the report in hand counted on its own; it
  holds in every interleaving. `QuietInv` says the cache and the history agree on every age that still
  counts, and that one report is handled at a time. `SumInv` says that then, and as long as nothing has failed, the file, or the
  memory of the one handler, is what the reports answered add up to: `ActorAfter` of a sequence with
  one more report is `Merge` of `ActorAfter` of the sequence, shown field by field. The feeds follow from the file.
- **`ScanningProofs`**: `ScansOnlyEverMiss`, `SkippedNeverMatch`, `QuietScansAlwaysFind`, `StixTypeCorrect`, `IndicatorsAlwaysArrive`. A detector's score is a sum over the
  categories that matched, and what a category has is a sum over its patterns. A sum over a finite set is a fold,
  that is the value of a recursive function on the subsets that is only chosen: `SumExists` proves, by
  induction on the size, that there is one, and `SumSplits` and `SumGrows` what sums do, by induction over
  the subsets (`SubsetInduction`, with the library's theorems on well-founded relations). `ScanInv` says
  that what was found of a category is the sum over the patterns looked at, so with what is left it makes
  the whole; `FewerIsMilder` that fewer matches give no greater score and, but for the malware family, no
  graver severity. Of the prefilter, `RecursionOverParts` gives that what is defined by recursion over things made of
  smaller ones is defined at all: the spans of a tree, its literals, and the list of all patterns
  (`SpansExist`, `LiteralsExist`, `UpToExist`). The argument then goes by a least counterexample: whatever slice a tree
  with literals matches holds one of them, up to what `(?i)` does not tell apart (`MatchesHoldLiterals`). What `Required`
  takes are the literals of one part, since among finitely many parts there is a first of the heaviest
  (`FirstHeaviest`), and that part matches the slice between two cuts (`MatchesHoldRequired`); being ASCII, such a
  literal is found in the folded text (`SearchFinds`); and the flag that is raised for it is the one the category
  looks at, since the patterns of a category keep their places behind those before them (`UpToKeeps`).
  `WafInv` says that the automaton knows the literals of every signature unless a reload is under
  way, which will still rebuild it. Of the STIX engine that the limit holds in every interleaving (imports
  look at the count and store under one lock). `ArriveInv` adds to `IndicatorsArrive` the dates: none that
  was given lies further ahead than one given now, and while imports come one at a time the one under way is
  dated after all that was brought. What is there was brought, so a full engine has had as many identifiers before.

The assumptions that say more than that a limit is a number: no level of the escalation table is
shorter than the one before it (`EscalationAssumption`; `countermeasures.go:32`); there are finitely many addresses
(`AddressAssumption`, `TrackerAssumption`), since sums and sizes are meant; "none" is neither a number nor a
technique (`NoneAssumption`); the categories examined are those of the detector's weights and have finitely many
patterns (`ExaminedAssumption`, `PatternsAssumption`); a file that is empty or torn is not a memory (`TextAssumption`); the marks
that raise a derived score are three numbers (`BusyAssumption`); a request carries at least one
payload, a count that blocks is not zero and there are finitely many goroutines (`TablesAssumption`); what the behavioral
detector's cleanup drops is out of every other window (`DetectorAssumption`; `detector.go:85-124`, as shipped);
a list of alerts that is cut keeps no more than it may hold (`ScannerAssumption`; `advanced.go:282`); a syntax
tree is made of smaller ones (`TreesAssumption`).

Model-checked only:

- every liveness property (`ExpiredBlockLeaves`, `FloodsAreBlocked`, `StaleStatesGo`, `CallsReturn`), since fairness is beyond the prover.

Every invariant and every action property of a passing run has a theorem.

## Where the code and its comments differ

Five differences have a run of their own.

- `stix_match`. `MatchIndicators` (`intel/stix.go:166`) asks for the write lock while its deferred
  read lock is held, so the first match never returns, and behind it nothing else does. The
  comment at `server/server.go:783` says the middleware matches requests and blocks them.
- `ddos_flood`. `README.md:500` and the package's comment (`ddos/engine.go:6`) promise an escalation
  to Block. `Check` takes two requests of a client as at least a millisecond apart, so no average
  exceeds 1000; `server.New` makes the thresholds 1, 1.25 and 1.5 times `threshold_rps`, for which
  `configs/svalinn.yaml` has 1000. A client that never stops sending is challenged and no more.
  With thresholds in reach it is blocked (`ddos_engine`): it is the numbers that fail, not the engine.
- `attribution`. `server/server.go:564` says that every decision keyed by an address derives from
  `trustedClientIP`, "actor threat attribution" among them. The behavioural baseline takes
  `X-User-Id` first (`middleware.go:926`), and what it finds is a threat against the address named
  there. Blocks and all other threats do go by the address (`NobodyPaysForAnother`).
- `waf_reload`. `LoadEvolvedRules` adds a rule under one lock and rebuilds the automaton under
  another. A scan in between takes the new rule's literals for absent and skips it, although the
  body matches; the comment at `waf/signature.go:91` calls the skip "sound by construction". Once
  the reloads are over it is so (`QuietScansMissNothing`).
- `slow_scan`. `malware/behavior.go:249` claims the fail-open design of `detect/helpers.go:46`: nothing is
  refused for lack of time. But a family, and with it the severity, is that of the greatest
  weight found so far (`:357`): cut before a category that would have outweighed it, a scan can
  call a content critical that the whole scan lets pass. Its score never is too high
  (`ScansOnlyMiss`), and the other five detectors keep the promise.

The models contain the following as the code has it; no property claims the contrary.

- **Countermeasures.** A lookup that found an expired block deletes what it finds later: a
  block imposed in between is undone (`countermeasures.go:152`). The cap can evict
  the action of a block in force, which a restart then forgets (`:138`). A sixth offence finds no
  level above 24 hours and starts again at 5 minutes (`server/handlers.go:1011`).
- **Gray zone.** `SaveToFile` releases its lock before `os.WriteFile`, so two writers can overlap, and an
  autosave that is under way may overwrite or truncate what `Shutdown` saved (`actor/grayzone.go:150`).
  A start that cannot read the file goes on without it, and the next save writes over it (`:180`).
- **DDoS engine.** The flag a
  block sets stays up in the throttle phase after it (`engine.go:254`). A blocked client
  that never comes back keeps its state for ever (`:318`, `:330`), and cleanup may delete a
  state that was blocked since it was read (`:331`).
- **Actor profiles.** The honeypot answers before the actor middleware, so a client that only ever hits
  traps has no profile and its blocks are not counted (`server.go`, `reserse.go:648`). Two clients first seen in one millisecond
  share an ID; the later profile replaces the earlier, and the blocks of one escalate the other's (`reserse.go:929`).
  A technique and a recent request alone reach the threshold that merges two clients (`:269`).
  The duration of an escalated block overflows from 22 blocks on (`:691`); it is only logged.
- **Pipeline.** `handleUnblockIP` lifts countermeasures' block only (`handlers.go:1096`, `:1111`). The TLS listener
  serves the router, so there the ecosystem's paths go through the middlewares
  (`server.go:749`). `activeDefense` rewrites the path after the router has chosen (`orchestrator.go:75`).
- **Responses.** A panic once the response has begun leaves its status and appends the error's text
  (`middleware.go:102`); requests that panic are not logged (`:1097`).
  A leak that only decoding past the limit, or a decoder for br or zstd, would show goes out (`:1359`, `:1465`).
- **Heimdall intake.** A mild report silences a grave one of the same address and kind for five minutes. Of two
  reports that overlap one may be lost; so may be all there is when the file cannot be read, or cannot
  be written once it was truncated, while the node is told "processed" (`handlers.go:2440`, `:2520`). A feed that is read while a report is being written is an
  empty list with status 200. The parts of the feeds that name the gray zone are always empty: what
  they look for is never written. A score under the tenant's limit is replaced by one derived from
  other indicators, which can exceed the reported one (`handlers.go:2242`).
- **STIX engine.** A full engine refuses the refresh of an indicator it has, and expired indicators keep
  their places (`stix.go:235`). Of two imports of one indicator that overlap, the one that was dated
  earlier may be stored later (`:227`).
- **WAF.** Each reload adds every evolved rule once more, so a match counts once per reload, and a
  rule that was taken out of the file stays until the next start.
- **Network detector.** A refused request counts as activity, so a client that is refused stays so
  as long as it comes back within ten minutes.
- **Pre-attack detector.** The number of "unique paths" counts every request, and nothing ever
  removes a record, so whoever once asked for three suspicious names is refused for ever from its
  sixth request on. The branch for answers with 404 is dead: the status is not known yet.
- **Business-logic guard.** Its sessions come from a header a client sets; all clients without
  one share the session "anonymous".
- **Proof of work.** A token is not tied to the client it was given to. `Cleanup` has no caller,
  so challenges nobody answers stay in memory.
- **Behavioural detector.** An address whose one request was denied has an error rate of 100 per
  cent and a score of 100. The first detector that finds something wins, so the 20th to 42nd
  failed login (scores 40 to 84) hide the graver error rate. Two requests of one address write one
  profile's maps without a lock: the runtime may stop the process, and `recoveryMiddleware` cannot
  catch that.
- **Egress scanner.** A "critical" spike or volume is recorded and never withholds a response. A flow
  goes by the `X-User-Id` header if there is one and is never removed. The size that counts is
  what was captured, so no more than the capture limit. Windows without a response do not lower
  the average.
- **Actor tracker.** Calls that overlap can lose a block and let the two counters drift.

## What is not modelled

- Wording, formatting, logging, metrics and statistics; the contents of patterns, of
  signatures and of the lists of bad names. A detector that keeps no state is a verdict.
- The zero-day heuristics, the protocol guard, the fingerprint computations and the honeypot's list
  of triggers: each judges one request, or is only shown. They are verdicts or left out. So is
  what the dashboard reads of the actor profiles (timelines, hours, `Correlate`) and of the
  attack chains of `detect/analyzer.go`.
- The prediction and tarpit of the orchestrator, the download of STIX bundles, the syntax of patterns.
- Floating point: the machine-learning scorers and the behavioural baseline are
  verdicts. The risk score and the DDoS average are in integers, the score exactly.
- `session`, `deception`, the configuration (where `if !Enabled { Enabled = true }` keeps several modules from being turned off), `logger` and `geoip`, which share no state with the rest, and the
  packages nothing imports.
- Two goroutines that use a Go map at once stop the process; `Orchestrator` and `BehaviorDetector`
  model that, where it can happen on every request. Torn reads of single words are not modelled.

## How to run

    tlc -workers 2 -config Countermeasures.cfg MCCountermeasures.tla
    tlapm CountermeasuresProofs.tla

and likewise for the rest: `PROJECT.json` lists each run with its module and configuration. The longest runs
take two to three minutes on two cores; the proofs of one module a few minutes, those of `ClientsProofs`,
`BehaviorProofs` and `RequestPipelineProofs` a quarter of an hour each.
