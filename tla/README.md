# Verification of sightjack

TLA+ models of sightjack's stateful parts, the TLC runs that check them on
small instances, and TLAPS proofs of what matters most for every instance.
All paths below are relative to the repository's root; `internal/` is
`src/internal/` in PROJECT.json.

## The system

`sightjack` is a Go program that keeps the state of an issue-architecture
session under `.siren/` of a project. In production it is a set of short
processes: `sightjack mcp`, a JSON-RPC server on stdio that a coding session
starts (one per session, any number at a time), and maintenance commands
(`rebuild`, `archive-prune`, `dead-letters purge`, `config set`, `doctor`,
`init`, ...). They share files and SQLite databases and have no lock of their
own in common. Beside them the code holds libraries that no command of this
commit calls (the wave aggregate and its policies, the inbox monitor, the run
guard, the circuit breaker, the streams, corrections, coding sessions): they
are modelled as their tests and docs use them, and marked below with (*).

| part | state it keeps | operations | who calls it |
|------|----------------|------------|--------------|
| transactional outbox (`session/outbox_store.go`) | `.run/outbox.db`: table `staged(name, data, flushed, retry_count)`; files in `archive/`, `outbox/` | Stage, Flush, PruneFlushed, DeadLetterCount, PurgeDeadLetters | `dmail` tool through ComposeDMail; `archive-prune`; `dead-letters purge`; the courier (phonewave) removes files from `outbox/` |
| write path of the MCP tools (`session/mcp_write_tools.go`, `usecase/emitter.go`, `domain/session_aggregate.go`) | scan dir files `wave_<slug>.json`, `cluster_<slug>.json`; the emitter's `prevID` | `save_scan_result`, `register_waves` | the coding session |
| MCP server's loop and read tools (`session/mcp_server.go`) | the lines of stdin, the answers on stdout | Serve, `next_wave`, `get_scan_result`, `ping` | the coding session |
| event store (`eventsource/store_file.go`, `loader.go`) | `events/<date>.jsonl`, append only | Append, LoadAll, LoadSince, LoadAfterSeqNr | emitter, recorder, rebuild, session lifecycle |
| projection and snapshot (`domain/projection.go`, `cmd/rebuild.go`, `eventsource/store_snapshot.go`) | `snapshots/sightjack.state.json` | rebuild, Save, Load | `rebuild`, cutover |
| configuration (`session/config.go`) | `config.yaml` | UpdateConfig | `config set`, `update_strictness` tool |
| sequence counter, recorder, cutover (`eventsource/seq_counter.go`, `recorder.go`, `cutover.go`) (*) | `seq.db`: last number, cutover row; the recorder's `prevID` | AllocSeqNr, InitializeAt, Record, RunCutover | the session runner |
| inbox, feedback, convergence gate (`session/dmail.go`, `gate.go`, `waiting.go`) (*) | `inbox/`, `archive/`, the channel, the mails collected | MonitorInbox, receiveDMailIfNew, FeedbackCollector, RunConvergenceGate, waitForDMail | the session runner |
| waves (`harness/policy/wave_policy.go`, `domain/wave_aggregate.go`) (*) | waves: status, prerequisites, actions | evaluate unlocks, apply deltas, detect cycles, merge, restore | the session runner |
| run lock (`session/run_lock_store.go`, `harness/policy/run_guard.go`, `session/daemon_lock_unix.go`) (*) | `run_locks` table with leases; a flock | TryAcquire, Release, IsHeld | RunGuard, the daemon |
| circuit breaker (`platform/circuit_breaker.go`) (*) | state, back-off, end of the pause | Allow, RecordSuccess, RecordProviderError | provider calls |
| session event bus (`platform/session_event_bus.go`) | subscribers and their channels | Subscribe, Publish, Close | made in `cmd/root.go` |
| stall detector (`session/stall_detector.go`) (*) | fingerprints and cooldowns of failures | RecordFailure, RecordSuccess | the session runner |
| retention (`cmd/archive_prune.go`, `session/archive_index.go`) | `archive/`, `archive/index.jsonl`, old event days | archive-prune, `--rebuild-index` | the operator |
| rival contracts (`harness/filter/rival_contract*.go`, `usecase/rival_export*.go`, `cmd/rival_export_reasons.go`) | the specification mails of `archive/` | render, parse, project, export | `rival export reasons` |
| improvement (`domain/improvement.go`, `session/insight_writer.go`) (*) | `insights/*.md`; metadata of mails | parse, choose, forward, note | peers' mails, the stall detector |
| streams (`platform/stream_*.go`, `span_emitting*.go`) (*) | open spans, subagents | Next, CollectAll, Normalize | provider adapters |
| set-up (`cmd/init.go`, `session/init_adapter.go`, `mcp_config.go`, `mcp_root_config.go`, `skills.go`) | `config.yaml`, skills, three files of MCP servers | init, mcp-config generate, each with `--force` | the user |
| doctor (`session/doctor.go`, `eventsource/validate.go`) | none; repairs directories, skills, a tool, the PID file | doctor, `--repair` | the user |
| coding sessions (`session/coding_session_store.go`, `cmd/sessions.go`, `session/status.go`) | `.run/sessions.db` | Save, UpdateStatus, the finders | `sessions list`, `sessions enter`, `status`; runners write (*) |

How they interact: the tools write the read model by atomic renames and then
the ledger by one `O_APPEND` write; `next_wave` and `get_scan_result` read the
read model while other servers write it; `rebuild` reads the ledger and
replaces the snapshot; the outbox goes from SQLite to two directories;
phonewave takes `outbox/` and fills `inbox/`; `archive-prune` takes from
`archive/`, `events/` and the outbox's table; `doctor` judges the files of all
others. What is hard is therefore mostly not threads but **stores that are not
written together**: a database and two directories, files and a ledger, a
truncated and rewritten file, with processes that fail, die or overlap between
any two of the steps. The parts that do wait within a process (breaker, bus,
collector, inbox monitor) are few, and each has its liveness checked.
PROJECT.json lists these hazards at their lines; each of them
has a property, but for one that the code does not reach (`loader.go:174`), and
what a property leaves out of its hazard is noted with it.

### What makes each part correct

- Outbox: a row marked flushed is in both directories with its payload; only
  the current version is published, never after it was given up; an accepted
  mail leaves the table only delivered, replaced or dead; every call returns.
- Write path: an event never names a file that has not landed; an event
  reported as persisted stays loadable; causation has no dangling link.
- Server: a request is answered once and in order; a read tool misses no file
  that was there and shows no half-written one.
- Projection: a snapshot misses nothing that was reported before the rebuild
  began and reflects the order in which events happened.
- Configuration: a value reported as persisted stays until it is changed.
- Ledger: numbers are unique and grow along causation; a session's reported
  events form one chain; a snapshot and the events after its number are the
  whole history, up to what was recorded while it was made.
- Inbox: no mail is overlooked, received twice or destroyed; one that comes
  while the session runs or waits reaches it; the session starts only when the
  approver was asked about every convergence mail it holds.
- Waves: nothing is offered before what it waits for; work that is complete
  stays complete; resuming gives back what was left and never leaves a session
  without work; cycles are found exactly.
- Run lock: nobody takes a lock whose lease runs, nobody releases another's.
- Breaker: whoever waits is told of every change and wakes when the pause ends.
- Bus: Publish never meets a closed channel; every call returns.
- Stalls: a repeated failure is escalated at once, once in a cooldown.
- Retention: what was pruned can be found in the index.
- Insights and corrections: a noted insight stays; the latest correction of a
  wave is the one sent, with its history, whatever spelling the peers use.
- Contracts: the current revision depends on the archive's content only and
  never falls; a rendered contract reads back as it was.
- Streams: no span stays open or is ended twice.
- Set-up: what the user or a sibling tool chose stays.
- Doctor: what it reports as repaired is, what is in order it leaves alone, and
  an event store it calls OK loses no session in a replay unnoticed.
- Coding sessions: a row keeps what its session was begun with, whoever writes it
  and when; the session that is entered or shown is none that another was begun
  clearly after.

## Modules

| module | models | kind |
|--------|--------|------|
| `MailDelivery` | what the outbox promises | abstract specification |
| `Outbox` | ComposeDMail, Flush, prune, purge, the courier | component, implements `MailDelivery` |
| `EventFile` | one daily JSONL file: whole, failed and short appends | data |
| `WritePath` | the two write tools, the emitter, crashes, `rebuild` | component over `EventFile` |
| `ConfigFile` | UpdateConfig from `config set` and `update_strictness` | component |
| `Ledger` | sequence counter, cutover, session recorder, the snapshot's number | component |
| `Inbox` | MonitorInbox, receiving, draining, the convergence gate | component |
| `WavePolicy` | the pure functions on lists of waves | operators |
| `Waves` | the aggregate, its events, their replay, resuming | component over `WavePolicy` |
| `WaveCycles` | DetectWaveCycles, one turn of its loops per step | algorithm |
| `RunLock` | TryAcquire, Release, IsHeld, RunGuard, the daemon's flock | component |
| `Breaker` | the circuit breaker and its waiting callers | component |
| `EventBus` | Publish, Subscribe, Close, readers | component |
| `Waiting` | the feedback collector and the waiting phase | component |
| `Stalls` | stall detection, cooldown, escalation | component |
| `Contracts` | the projection of contracts from an archive | component |
| `Canvas` | the text of a contract, parsed, edited, exported | component |
| `Archive` | archive-prune, the index and its rebuild | component |
| `Insights` | InsightWriter.Append | component |
| `Corrections` | corrective metadata on its way through mails and the insight ledger | component |
| `Streams` | reader, spans and normaliser of a provider's stream | component |
| `Server` | the JSON-RPC loop and the read tools | component |
| `ProjectInit` | init and mcp-config, again and again | component |
| `Doctor` | the checks, their order, the repairs | component |
| `Sessions` | the table of coding sessions and its readers | component |
| `Progress` | breaker, bus, waiting, outbox and cycle search | composition for liveness |
| `Services` | the twelve services with stores of their own | composition for safety |
| `MCOutbox`, `MCWritePath`, `MCLedger`, `MCWaves`, `MCContracts`, `MCProgress`, `MCServices` | instances | model checking |
| `OutboxProofs`, `WritePathProofs`, `LedgerProofs`, `InboxProofs`, `WavesProofs`, `ServicesProofs`, `ProgressProofs` | theorems | proofs |
| `Counting` | least and greatest numbers, places in an order, searches, folds, numbers of elements | lemmas |

`Services` and `Progress` are not a claim that their parts interact: they share
no file, table or lock in the code, and the variable `part` says which of them
a behaviour is about, while the others stay as they are at the start. They
exist so that one run and one proof module speak of several components; each
part's `Next` is that of its own module, unchanged. The names a part shares
with another are renamed where it is instantiated.

### Outbox

A D-Mail is a pair of a filename and a payload, both members of small sets.
`rows` is the committed table (`data = None`: no row), `tx` the table as the
open transaction sees it, `writer` the holder of SQLite's write lock. A process
is `idle`, at `begin` (its mail is staged, its flush not begun), in `archive`,
`outbox` or `mark` (the three statements of the loop body). `batch` holds the
rows of the SELECT not dealt with yet, `some` whether the returned count is
positive. Stage, PruneFlushed and PurgeDeadLetters are single autocommitted
statements and so single actions that need the write lock to be free. A write
of a file may fail at any row; the UPDATE that counts the failure ignores its
own error, so it may count 0 or 1. FlushFails is the failing UPDATE or COMMIT
with the deferred ROLLBACK; Crash is SQLite's recovery. SQLite and the rename
of `atomicWrite` are taken at what the code relies on: one write transaction at
a time, all or nothing; a file holds the old or the new payload.

`MailDelivery` knows only pending mails with a number of tries, and what was
delivered. The refinement maps a row that is present and not flushed to a
pending mail. So a crash after the file write and before the COMMIT is a
delivery and no settlement: at least once, not exactly once.

### EventFile and WritePath

An event line is whole, torn (no newline, part of an event) or bare (an event
without its newline). A failed append may have done nothing, created the file,
written everything (fsync or close failed) or, if `ShortWrites`, part of it.
Appending to a torn or bare line destroys that line: `Continued`, `Appended`.

A tool call goes `idle`, `files` (its files, one action each), `append`,
`idle`. `Stamp` is the aggregate and the emitter making the event at
`time.Now`; its instant is its ID, and `DayOf` names the day file. Two
processes stamp in one order and append in any. `prevID` is the emitter's chain
end; it is 0 after a restart. `acked` is the history of events the tool
answered with "files+event-store". `rebuild` lists the files once and reads
them one by one, aborts when a file is unreadable or empty, sorts by time and
replaces the snapshot. Of the projection, the two event types that a command
writes are modelled: the last scan wins, and the first design of a wave stays.
One rebuild runs at a time.

### ConfigFile

`file` is a whole configuration, an empty file (which YAML parses as the
defaults) or a mixture of two writes (unreadable). `update_strictness` first
compares (`check`), then both callers read, change one key and write: `Truncate`
(O_TRUNC) and `Write` are two steps of `os.WriteFile`. `persisted` remembers the
value last reported for each key.

### Ledger

A runner goes `down`, `load`, `save`, `alloc`, `cutover` (the steps of
RunCutover; the first two may skip the rest), `open`, `ready`, and `record`
while a Record holds the recorder's mutex. `built` holds the events its
goroutines made and wait to record: they are stamped before the mutex is taken,
so the order of stamps and the order of numbers differ. `counter` is the row of
`seq.db`; one UPDATE ... RETURNING takes a number, so allocation is one action
and the append another, with failures and a crash (Stop) between them. The MCP
servers append to the same ledger with numbers of their own, counted from 1 by
their aggregate. Since every reader sorts, the ledger is a set of events; what
short writes do to it is `EventFile`'s subject. `acked` and the `overlap` of a
rebuild are history variables. Runners record for a session of their own.

### WaveCycles

`stack` holds the running calls of `dfs` and `rest` what each has still to look
at; `color` and `parent` are the code's maps. A plan is any assignment of
prerequisites to waves, self-references, unknown keys and cycles included. The
code iterates a slice in its order, the model in any order, so what holds of
the model does not depend on the order of the waves. `Acyclic` is the
reference: every set of waves has one with no prerequisite in the set.

### Inbox

A mail is its filename, which the protocol uses as a message ID; `inbox` and
`archive` give the content of each: `torn` (cannot be parsed), `cut` (parses,
but part of its body is missing) or `whole`. The sender creates a file whole or
unfinished, finishes it later, and may deliver a name again. `events` counts
what fsnotify has still to report of a name. `main` is the session's thread:
MonitorInbox up to the start of its goroutine (`watch`, `scan`), then `drain`,
`gate`, `asking`, `redrain` and `session`. The order of these calls is that of
docs/siren-directory.md (D-Mail Lifecycle): no command calls them today. `hand`
is receiveDMailIfNew in the thread that runs it, the scan's or the goroutine's,
one file operation per step. The channel is buffered with the number of mails
the scan found, possibly none; a receive on it also takes the mail of a waiting
sender (`Arrived`). An unfinished file that can be parsed is received as it is
(`cut`). If its sender finishes it before the goroutine removes it, the complete
file is removed and the cut copy stays, and if it does later, deduplication
removes it: `early` is the history of the names this can happen to, and
`NothingDestroyed` asks for a whole copy of all others. The scan takes its files in any
order, the code in that of their names. A read that fails has the effect of
ArchiveFails. `Stop` is a cancellation or a crash: what was in the channel or
in hand misses the session, but not the archive. `received`, `failed` and
`early` are history variables.

### WavePolicy and Waves

`WavePolicy` translates the pure functions: keys, normalising of prerequisites,
unlocking, merging, follow-ups, pruning, repair, the set of issues whose
specification was sent. `Waves` has one action per operation of the aggregate.
An operation changes the list in memory and leaves an event in `pending`; the
next step stores it, loses it (the append failed, the session goes on) or the
session dies. `replayed` is what the replay of the ledger gives at any moment,
and a resumed session starts from that alone. `apart` is a history variable:
memory and ledger went apart because an append was lost; what is said of both
holds only while they agree. Marks that the replay does not know (stalled, the
complexity score) are compared away in `ResumeRestores`. A resume without any
scan starts anew. What the architect or a scan returns comes from small sets.

Memory and ledger also differ for a prerequisite that nobody has: a resume drops
it from memory (`ValidateWavePrerequisites`) and not from the ledger. When a
follow-up wave with that key is added, the ledger has its dependents wait for it
again and memory has not. `late` is the history of the waves this happened to,
and `AvailableIsJustified` and `ResumeRestores` speak of the others.

`DesignsAreNew` states what the code takes from the provider unchecked: within one
answer keys are distinct, a wave is "available" or "locked", and what is
available waits for nothing. The prompts ask for it
(`wave_generate_en.yaml:39`: "Wave 1 has no prerequisites (can be started
immediately)"); nothing in the code rejects an answer that breaks it.

### RunLock

Three autocommitted statements over a time read before the first: remove stale
rows, insert if absent, read the holder. Times are halves of a second and
compared as the texts the code stores, in which the whole second sorts behind
its half: a lease may end up to half a second late or a row be seen as stale
within its last second, so the property speaks of leases with a second left.
`GuardID` gives each process's guard the ID of its store or none. Rows outlive a
crash, the flock does not.

### Breaker, EventBus, Waiting

`Breaker` counts distances in time instead of times: `left` to the end of the
pause, `sleep` to the timer of each caller; Tick shortens all. A caller in Allow
waits for its timer, for the notify channel (`woken`) or its context. Errors of
old calls trip the breaker, successes of old calls close it, in any order.

`EventBus` has Go's RWMutex as `reading` and `writer`: a writer that waits keeps
new readers out. Events are only counted per channel. `PublishOne` sends, or
gives up on its context, on the subscriber's done channel or after its timer.

`Waiting` is the collector's goroutine in its three steps (append under the
mutex, hook, token) against a session that takes a snapshot, waits for the
token or its timer, and looks.

### Stalls

Per wave the list of fingerprints and per fingerprint the rest of the cooldown.
A failure is recorded with the structural errors of the attempt;
DetectRepeatedPattern takes the first error that was repeated often enough, so
that a second one is masked while it is there. The escalation may be sent, fail,
or be reported as failed and yet staged (which is what `Outbox` shows of
ComposeDMail); then a second mail goes out under another name. `staged` and
`failed` are history variables; a success of the wave does not end a cooldown
and does not clear them while one runs. The cooldown is kept in one process.

### Contracts and Canvas

`Contracts` is the archive as a function from file numbers, which stand for
names in their order, to mails, and the projection as operators over any
list of them: validation, grouping, duplicates, lineage, the choice, the
fallback of `--allow-conflict` and `--input`. A list is a function from places
to files, so that reading in another order is a permutation of the places, and a
part of a list is a set of places. Mails arrive in any order and are pruned.

`Canvas` is the text: lines with a kind, a label and words. A contract is
rendered from a wave, edited by inserting and removing lines (everybody who
handles the mail may), split into sections, and exported in both formats.
Joining, and picking the lines that pass a test, are one recursive function
(`Joined`, `Those`). `CanvasAssumption` says what a wave and an editor may put in:
lines.

### Archive, Insights, Corrections

`Archive` has the steps of archive-prune (list, confirm, extract, append to the
index under a flock, delete one by one) and of `--rebuild-index` (list under
the flock, read one by one, rename). Any number of both run at a time and die
anywhere; an append may be short and leaves the last line torn. `excused` are
the mails whose line an error or a later rebuild has cost.

`Insights` reads, parses, appends, writes the temporary file and renames, under
a flock; parsing loses all but the first line of a field. `Corrections` is the
metadata as a function of fields through parsing, normalising (other spellings,
numbers that do not parse), choosing the latest usable one about a wave,
applying it to a mail, coming back from a peer with one more owner, and the
entry in the insight ledger. A history is a list of entries, each a list of
`Words`, and is written as one text and split again at whichever delimiter the
parser takes for it.

### Streams, Server

`Streams` takes any sequence of messages: tools and hooks start and end in any
order, with or without IDs, again, or never; the stream ends with EOF, an
error, or an error together with a message. `live` and `balance` count spans and
agents.

`Server` is Serve with its lines: requests, notifications, lines that are not
JSON, too long ones, and reads, which list the scan directory and take its files
one by one while other servers rename new ones into place. Cancellation and a
client that no longer reads happen anywhere. `owed` are the files that were
there when a read began.

### ProjectInit, Doctor, Sessions

`ProjectInit` has a configuration as a function from keys to values, and three
files of MCP servers as sets. The two commands are taken write by write, each of
which may be interrupted and leave a file that does not parse; the user edits
everything and sibling tools put themselves into the root's `.mcp.json` at any
time. `chosen`, `added`, `shared` and `late` remember what has to stay.

`Doctor` walks through its checks in the code's order over an environment in
which one item is not in order and others may change between any two checks; a
check is one look at the items it depends on, a repair is a step of its own.
Tools and files that are there once are named in the module; the event files,
and which of them are of the old layout, are constants.
The two SKILL.md files are items of their own, with a template's text, a custom
one that passes the check, a broken one or none; InstallSkills writes them one
after the other and may fail at each, with directories made or a file cut.
`mended`, `touched`, `clean` and `faulty` (what the repair under way was begun
for) are history variables.

`Sessions` has the record each runner holds and the rows of the table. A runner
begins, completes or fails its record in memory, and its record is saved at any
time, with a provider's ID that a caller may have set in it. `UpdateStatus`
writes any of the four statuses and any ID: the code looks neither at the row
nor at the record, and the tests of the store complete a row whose record stays
`running` and fail one that has an ID. So nothing is claimed of the order of
statuses; `begun` remembers what every session was begun with, and the properties
relate rows and readers to it. created_at is a text that leaves out the zeros at
the end of a fraction and is ordered as a text: a second has four instants here,
with the fractions none, .2, .25 and .5. The clock moves when a session begins.

## Runs

| run | result | what it shows |
|-----|--------|---------------|
| `outbox` | holds, 854,931 states | table, transaction and directories stay in step; archive before outbox; nothing stale, nothing lost; implements `MailDelivery` |
| `outbox_sent` | violated | success is reported for a mail that was not written |
| `write_path` | holds, 1,918,220 states | files before ledger; reported is loadable; no dangling cause; complete snapshots |
| `write_path_torn` | violated | after a short write the next reported event is unreadable |
| `config_lost` | violated | an interrupted or overlapping update loses other values |
| `ledger` | holds, 2,697,952 states | unique numbers; causes come first; one chain per session; a snapshot continues exactly |
| `inbox` | holds, 183,296 states | nothing is received twice, overlooked or destroyed; everything is asked; mails arrive |
| `inbox_torn` | violated | a partial copy in `archive/` makes the retry delete the mail |
| `waves` | holds, 828,219 states | nothing is offered too early; work is kept; a resume restores and unsticks; a specification is asked for once |
| `services` | holds, 883,400 states | the twelve services one by one: leases, escalations, contracts and their texts, the index, insights, corrections, spans, answers, set-up, repairs, coding sessions |
| `progress` | holds, 27,424 states | every waiting call returns; nobody oversleeps; nobody sends on a closed channel; the cycle search is right |
| `contract_export` | violated | with `--allow-conflict` another wave's contract may be exported |

### Bounds, and why they are enough

- `outbox`: 2 processes, 2 names, 2 payloads, 3 retries (the code's value). Two
  processes are enough for every conflict on one write lock; two names for a
  partly failing batch and a backlog row beside one's own; two payloads for
  replacing a version. Retries bound themselves.
- `write_path`: 2 processes, 2 clusters, one scan of both (so it can fail
  between its files) and designs of one, 3 events over 2 days (the third falls
  on another day, so a rebuild reads two files and a chain crosses midnight).
  `MaxEvents` caps the clock. `ShortWrites` is FALSE here and TRUE in
  `write_path_torn`, which needs 2 events only.
- `config_lost`: 2 processes, 2 keys, 2 values.
- `ledger`: 2 runners (a cutover of both at a time), 1 goroutine each
  (`Callers`; with 2 the chain is not linear, see `AckedChainIsLinear`), 3
  events (`MaxEvents`, which caps the clock: a chain of 2 and one more event
  of another runner, of a server or of a cutover).
- `inbox`: 2 convergence mails and one of a kind that is not passed on, 2
  deliveries (`MaxDeliveries`): two mails, or one twice, at any two moments;
  a scan that finds one mail and a second that waits for the channel. A cap of
  2 re-drains (the code's is 3) is reached by two late mails. `inbox_torn` has
  the code's 3 and one mail.
- `waves`: three plans of up to two clusters, five IDs and three issues, with
  a cross-cluster prerequisite, one on a wave that only a follow-up adds, and a
  cycle; a cap of 3 waves per cluster (`MaxWavesPerCluster`; 8 in the code) so
  that follow-ups meet it; 2 lost appends or crashes (`MaxFaults`): one to go
  apart and one to resume from it; 1 modification, stall or rescan
  (`MaxChanges`). Rescans succeed wholly, in part, and with a repeated name.
- `services`: two of whatever acts (processes, pruners, writers, records) and
  of whatever is told apart (errors, mails), three insights
  titles and three contract files (a group, its predecessor and another
  contract). Pruning has no event days here, which have no line in the index;
  the theorem covers them. `MaxClock` 7 and `TTL` 3 half-seconds: two leases of
  one key one after the other and a third caller, with ends on and off the
  second. Three failures with a threshold of two, a cooldown of one tick
  (`Window`) and one mail that is not sent: a repetition within the cooldown and
  after it. Streams of 4 messages: start and end of a
  tool and of an agent in it. 2 lines to the server, one of them a read over
  2 files. 2 runs of the doctor, one unhealthy item and one change: a repair
  and a second look, or a second item that is custom or not in order. 2 edits of a contract: a heading and a line under it.
  3 mails: a diagnosis, one that comes between, and its return. Two
  sessions that share a provider's ID, begun at any of 5 instants (`MaxTime`):
  each order of texts within a second and over its end.
- `progress`: 2 callers and a back-off of 1 to 4 (two doublings reach the cap)
  with announced ends in the past, now and later; 2 publishers, 2 subscribers
  with a buffer of 1, 1 closer; 3 mails to a waiting session; 2 processes with
  one mail and 2 retries; 3 waves in all 512 plans (cycles of length 1 to 3).

The theorems hold without these bounds.

Each module states its type invariant `TypeOK`. Only the inbox's is checked by a
run; `TypeCorrect` proves those of the outbox, the inbox, the waves and the run lock, and
the other inductive invariants contain what the proofs need of the rest. Every
other property is about a hazard.

The violated runs state what the documentation or the code's comments say (quoted in
PROJECT.json under findings) and their traces are short: for `outbox_sent` a
backlog row that failed before succeeds while the new one fails; for
`write_path_torn` a short write and one retry; for `inbox_torn` a copy that
stops in the middle and the next event of the same mail; for `config_lost` a
truncation and a failed write; for `contract_export` a revision that names
another contract's mail as its predecessor.

A behaviour of `services` or `progress` ends when its part has reached its
bounds or, in the code too, has nothing left to do (a stream that ended, a
search that is over), so these two do not check for deadlock.

### Fairness

The safety runs assume none. `inbox` assumes weak fairness of the receiving
thread and of the collector: a goroutine that handles the events there are, and
one that receives whatever the channel has. Nothing makes the sender deliver,
the scan start or the approver answer. `progress` assumes, part by part:

- breaker: weak fairness of Tick (time passes), of each caller's look at the
  state and of its waking up. No caller is assumed to record anything. The
  conclusion of AllowReturns is "unless errors keep coming in".
- bus: weak fairness of a publisher's next send (its timer fires) and unlock,
  of a reader, and of what holds the lock; *strong* fairness of taking the
  lock. Under weak fairness alone Publish can starve: the lock is free again
  and again, and never while the goroutine is looking. Go's RWMutex queues
  waiters and lets the readers in that waited when a writer unlocks, which is what
  strong fairness says.
- waiting: weak fairness of the collector's goroutine and of the select. The
  timer need not fire.
- outbox: weak fairness of the next step of a process inside ComposeDMail. The
  code's calls are synchronous; the file and database operations return, and
  `busy_timeout` turns the wait for the lock into an error (`BeginFails`).
  No step of the courier or of an operator is assumed.
- cycles: weak fairness of the search's next step: it is a loop of one
  goroutine that waits for nothing.

## Proofs

`OutboxProofs` proves for any number of processes, names and payloads and any
MaxRetry > 0 (assumptions: the absent values are not members of the sets):

- `InvariantHolds`: `Spec => []OutboxInv`. The safety properties are not
  inductive: that the flag is never ahead of the files needs to know that the
  row being marked was archived and published by this very flush, that a flush
  holds the write lock, and that the payload it selected is still the committed
  one. `OutboxInv` is exactly that: `WriterFlushes` (the lock and the flushing
  process agree), `TxTracksRows` (the open transaction has marked or counted
  each row at most once), `BatchIsCurrent`, `CurIsArchived`,
  `FlushedIsPublished`.
- `TypeCorrect`, `FlushedIsDeliveredHolds`, and the action properties
  `ArchiveFirstHolds`, `NeverStaleHolds`, `NoSilentLossHolds`.
- `OutboxImplementsPromise`: every step of `Outbox` is a step of `MailDelivery`
  or leaves its variables alone.

`WritePathProofs` proves for any processes, clusters, inputs, days and number
of events (assumptions: the functions have their types, a scan is not empty):

- `WriteInvHolds`: `Spec => []WriteInv`. What a call has still to write covers
  everything its event will name (`FilesLanded`); and, unless appends may be
  short, every file ends cleanly, so that no landing of an append, successful
  or not, takes a line away (`TailsAreClean`, lemmas `AppendLines`,
  `UnacknowledgedLines`, `LedgerMoves`), the chain ends of the emitters are in
  the ledger (`ChainsAreLoaded`).
- `FilesBeforeLedgerHolds` without any condition, `AckedIsLoadedHolds` and
  `CauseIsLoadedHolds` if appends are never short; `write_path_torn` shows that
  the condition is needed.
- `SnapshotCompleteHolds` if appends are never short. `RebuildInv`: what a
  rebuild owes, it has read or will read in a file on its list, which grows
  but loses nothing (`FilesGrow`). What the projection of the events then shows
  takes two lemmas: the stable sort is in order and has the same events
  (`SortedIs`), and whatever is replayed stays shown, since a later scan has a
  later time and the first design of a cluster stays (`ReplayShows`: of the
  prefixes whose replay hid an event, none would be the shortest). The order in
  which the files are read does not matter.

`LedgerProofs` proves for any runners, goroutines and number of events
(assumption: the server is none of the runners):

- `LedgerInvHolds`: `Spec => []LedgerInv`. What has a number is in the ledger or
  in a runner's hand, and the safety properties, which speak of the ledger,
  need the hands too: every number in use has been allocated
  (`NumbersAreAllocated`), an event in hand continues its recorder's chain
  (`HandsAreOwn`), chain ends and causes are stored (`ChainsAreStored`), and
  the number a rebuild took covers exactly what it had loaded
  (`ReplayIsCovered`).
- `UniqueSeqNrHolds`, `CauseIsEarlierHolds`, `RecoveryIsExactHolds`.
- `AckedChainIsLinearHolds` if `Callers = 1`. Its invariant adds that a runner's
  events are recorded in the order of their stamps and that the end of its
  chain is its last one, which is what a restart looks for; this is what fails
  with two goroutines.

The first part of `WavesProofs` has the lemmas about lists: keeping the elements of an index
set keeps their order and all of them (`KeptIs`), sorting permutes (`SortedIs`,
by a counting argument, `EveryRank`), and for each policy which waves, keys,
statuses, prerequisites and actions its result has (`PreparedIs`, `ScannedIs`,
`UnlocksAre`, `ModifiedIs`, `RescannedIs`, `ResumedIs`, ...). The second part proves
for any plans, follow-ups, modifications, rescans and caps (assumptions: the
bounds are numbers, the sets of names finite, and `DesignsAreNew`):

- `TypeCorrect`, `WorkIsKeptHolds`, from `Base`: keys are distinct in both lists,
  and whatever is complete in memory, in the ledger or in the event to be stored
  is in the aggregate's map of completed keys (`WorkInv`). This holds with lost
  appends and crashes anywhere.
- `ResumeUnsticksHolds`: of the unfinished waves of an acyclic list one waits for
  no other, so the repair unlocks it.
- `AvailableIsJustifiedHolds`, `ResumeRestoresHolds`, `SpecOnceHolds`, from
  `MirrorInv`: unless an append was lost, the replay of the ledger with the event
  that is to be stored is memory's list, wave by wave (`Twins`), up to marks, to
  what memory let go that the ledger has locked, and to prerequisites that no
  wave has; and what was let go waits for nothing open (`Offered`, `Stored`).
  The attempt to prove the first two without `late` failed for a good reason,
  which TLC then showed on the instance.

`InboxProofs` proves for any mails, kinds, deliveries and cap of the re-drains
(assumption: the cap is positive):

- `InboxInvHolds`: `Spec => []InboxInv`. A count of receipts says nothing of
  what is on its way, so the invariant does: a mail is in the hand or in the
  channel, there once, not received yet (`OnTheWayOnce`), and archived from the
  moment it was read (`ArchiveKnows`), so that the look into the archive stops
  every second one. `MailsAreSeen` says where a complete mail may hide: behind
  an event, on the scan's list, in hand. `UnaskedIsLate` says that what a
  re-drain brought is all the approver does not know.
- `ReceivedOnceHolds`, `TypeCorrect`, `NothingOverlookedHolds`,
  `EverythingIsAskedHolds`.
- `NothingDestroyedHolds` if no copy is partial (`inbox_torn` shows that the
  condition is needed): what `archive/` or the hand has less than all of, it has
  of a name that was read while its sender was writing.

`ServicesProofs` proves, for any constants of `Services`, one theorem per part.
`OtherParts` is the lemma that makes the composition harmless: a step of another
part leaves a part's variables alone.

- `PrunedIsIndexedHolds`: `RetentionInv` follows a doomed mail through the
  steps: on a process's list it is in the lines to be written, then in the index,
  and a rebuild that holds the lock has it on its list or in what it has read.
- `InsightsAreKeptHolds`: `InsightInv` says that the holder of the lock has read
  the current file, and that its temporary file is that and its entry; lemmas
  `ParsedIs`, `AppendedIs` say that parsing keeps number, order and titles.
- `AnswersAreCompleteHolds`: `AnswerInv` (each handled line that is not silent
  has an answer, in the order of the lines), `ScanInv` (what was owed is read or
  still to be read, and what is on the list stays whole).
- `SpansAreEndedHolds`: `StreamInv` counts the open spans by the cardinality of
  the map's keys, for streams of any length.
- `UserValuesAreKeptHolds`: `ConfigInv`, `McpInv`, `RootInv` say of what a command
  is about to write that it holds what was there when it was read.

The run lock, for any processes, keys, guards, lease and clock (assumption: each
guard's ID is its store's or none):

- `LeaseIsRespectedHolds`. `LockInv` adds that no call has read a time that is
  still to come (`TimesArePast`) and, stronger than that the holder is seen, that
  the row of a run whose lease has a second left is the one it inserted
  (`RowIsThere`). The comparison of times is in one lemma (`SecondsCompare`):
  texts of times a second apart compare as the times do, so neither the cleanup
  nor IsHeld takes such a row for stale.
- `LockTypeCorrect`.

`Counting`: several proofs, of these and of the other modules, need an element that
is first, least or latest, which is an induction over numbers. The library's induction theorems take an operator, but
its theorem that an injection of a finite set into itself is onto takes none,
and is enough (`LeastNat`): if no number of a set were the least, then the numbers
that are at least some member of it and at most a fixed one would be closed
under the predecessor, an injection that misses the greatest. `EveryRank` is the
counting argument for sorted sequences: where elements are ordered, each place
is somebody's. For texts: what is reached by appending is every sequence
(`SequencesByAppend`), and a recursive function over the indexes of one exists,
is the only one and takes one step more for one element more (`FoldExists`,
`FoldUnique`, `FoldAppend`); joining, splitting and counting are such functions.

The other parts of `Services`:

- `StallIsEscalatedOnceHolds` (assumptions: threshold and cooldown are positive;
  with a cooldown of no length every repetition is mailed): `StallInv` says that
  an error without a cooldown has had no mail but those reported as failed.
  `FirstIsThere` shows that a list that repeats some error has one that it
  repeated first, so that DetectRepeatedPattern's choice exists; without a
  cooldown of the wave it is mailed (`RepeatIsMailed`).
- `ContractsAreStableHolds` (assumptions: the archive is finite, revisions are
  integers): `ProjectedInOrder` maps the candidates, the latest of them and
  their keys and bodies in one order of the archive to those in another;
  `ExportIs` says that what is exported is a candidate, that none is of a later
  revision (`LatestIsThere`, on the number of mails that are later than a given
  one) and that those of the same one have the same body, since keys never
  agree and the bodies are compared. An archived mail leaves the old candidates
  as they are, so the new export is of no lower revision.
- `DoctorIsRightHolds` (assumptions: event files have names of their own):
  `DoctorInv` says, for each place in the order of the checks, which verdicts are
  in, that a check not reported as failed found its items fit unless they were
  touched since, that what was reported as fixed is fit, and that while files are
  written one of the two was found broken. That the order of the checks gives each
  its turn, and that a file gone with the directory it is in is no repair undone,
  are the lemmas `FollowingIs` and `WithIs`. The exceptions it states are what the
  code does: a PID file that cannot be removed, an item put in order between look
  and repair, a custom SKILL.md beside a broken one, sessions without events, flat
  files with a long line, items that change during the run.
- `SessionsAreKeptHolds` (assumptions: the records are finite, one provider is
  claude-code): `SessionInv` says that a runner's record and its row have the
  provider, the directory and the time of their session, whoever wrote them last.
  `TextsInOrder` says that the texts of two times are in their order unless both
  are of one second and the later one's fraction goes on from the earlier one's:
  exactly the pairs `ClearlyLater` leaves out.

- `CorrectionsSurviveHolds` (assumptions: the fields have the values the parser
  tells apart; the hypothesis `DiagnosesAreClear` is below). A mail's metadata is
  a text for each field. `RoundTrip` says, field by field, that what was applied
  to a mail is parsed back as it was or was empty; for the two histories that is
  `ReadBack`: splitting at the delimiter, which is itself guessed from the text
  (`DelimiterIs`), undoes joining when entries are normalised, none holds a `>`,
  and a single one holds no comma either (`Clear`). `CorrectionsInv` then says
  that every mail is sound in this sense, is what its peer made of the one it
  answers (`MailsRead`), and that what was forwarded comes from the mail it names
  (`AllSent`); owners, count and fates follow without an induction along the
  thread. `DiagnosesAreClear` asks of a diagnosis from outside that its counts
  are not negative and that no comma is left in the only entry of a history. It
  cannot be dropped: with `retry , fast >` as a history, or a count of -1, TLC
  finds a correction that comes back as another one. `MCServices` has TLC
  evaluate it for the diagnoses of the run. That the latest one is taken
  (`LatestIsTakenHolds`) needs neither the hypothesis nor an assumption on the
  texts: the backward search in the feedback is a recursive function, and
  `SearchExists` and `SearchIs` in `Counting` say that it is well-defined and
  ends with the greatest index it takes.
- `CanvasKeepsContractHolds` (assumptions: a wave's description, decisions,
  boundaries and evidence are lists of lines, its steps and applied actions
  lists; what editors put in is lines). `CanvasInv` only says that the text
  is lines and, without edits, what was rendered; the work is in the texts:
  - Read back (`ReadBackSections`): where sequences are joined, each starts at
    the sum of the lengths before it and there is nothing else (`JoinedAt`), so
    the only headings of a rendered contract are the renderer's, each at its
    offset, and what is between two of them is the section.
  - Nothing lost (`NothingLost`, for any set of lines): as many headings as there
    are section names, each name there at least once, so each is there once
    (`ChartExists`, a surjection between finite sets of one size); the sections
    are then disjoint ranges that cover every line below the first heading
    which is no heading (`ChartedPlaces`), and counting in the joined sections
    is counting in the union of the ranges (`SectionsNumber`).
  - Formats agree (`ExportsAgree`): both split the boundaries at the same places,
    though by different tests (`BoundariesAgree`); the places of an event-sourced
    domain fall into five disjoint classes (`Partition`), and Markdown's text
    without the headings it adds is their concatenation (`BareBlocks`), as are
    the lists of the JSON (`EntitiesAgree`).
  - `LongestTaken`: the operators are looked for in an order of falling length.

`ProgressProofs` proves for any callers, publishers, subscribers and buffer:

- `NobodyOversleepsHolds`: every change of the pause wakes all who wait
  (lemma `Told`), time shortens the sleep and the pause alike.
- `NobodySendsOnClosedHolds`: `BusInv` ties the publisher that holds the lock to
  the list, in which no subscriber is closed or twice.

The cycle search, for any finite set of waves and any plan:

- `SearchInvHolds`: the gray nodes are the stack, each the parent and a
  dependent of the next; what a node has looked at is finished or next on the
  stack; the black nodes are closed under prerequisites and acyclic (lemma
  `AcyclicGrows`: a node whose prerequisites lie in a closed acyclic set can
  be added to it).
- `VerdictIsRightHolds`: at a back edge the nodes from there to the top of the
  stack wait for each other; at the end all waves are black.
- `PathIsCycleHolds`: while it is collected, the path is the stack read
  downwards (`ReportInv`). That the bound `len(waves)` never cuts it short, even
  though nodes need not be waves, is a counting argument: everything on the
  stack at a back edge has a prerequisite and so is a wave.

Only model-checked: `EveryMailArrives` and `EveryCallReturns`, since liveness under
fairness is outside the prover. Every invariant and action property of the passing
runs is a theorem, under the assumptions and hypotheses named with it.

## What the models show beside the properties

The findings in PROJECT.json are checked by a run each. These the models state
as they are, without a run of their own:

- Two clusters whose names give the same slug overwrite each other's files
  (`SlugOf` may be any function; `MCWritePath` has distinct slugs).
- MCP servers number their events from 1 each, so that LoadAfterSeqNr mixes them
  with the counter's after a cutover; `UniqueSeqNr` speaks of the counter's.
- An escalation that was staged and reported as failed goes out a second time
  under another name; a second repeated error of a wave is masked by the first;
  and the comment at stall_detector.go:12 on ApplyErrorBudget describes nothing
  the code does. The replay ignores `wave.stalled`.
- A resumed session may go on offering a wave whose dropped prerequisite was added
  as a follow-up since; the next resume has it wait. sightjack-scan/SKILL.md:86
  asks for status "available" of every wave, prerequisites or not, and a wave
  registered so is offered before what it waits for: nothing checks it.
- The server leaves a line that does not decode unanswered (mcp_server.go:93-96
  says that such errors surface as responses), and a line of more than 4 MiB ends it.
- Rebuilding the index drops the entries of files that were pruned before
  (docs/siren-directory.md:73 and :24 say that it records them). What
  archive-prune listed is deleted after the prompt without another look.
- BusSubscriber.Close is said to unsubscribe and drain; it closes its done
  channel only. Whoever subscribes after Close waits for events for ever.
- `init --force` sets language and strictness back to the flags' defaults and
  drops keys it does not know (init_adapter.go:71 says user values are
  preserved). An interrupted migration of the old MCP file is completed by the
  next run only without its custom servers; of two overlapping writers of the
  root's `.mcp.json` one loses its entries.
- A description or decisions text with a heading of its own makes a rendered
  contract lose or overwrite lines when it is parsed, although
  rival_contract_render.go:4-7 says that the output must round-trip; an
  unlisted "Do not ..." line goes to the norms.
- The doctor ignores that a stale PID file could not be removed and reports FIX.
  It calls an event store OK that has a session without events, or a flat file
  with a line of more than 64 KiB, on which `rebuild` fails (validate.go:24-26
  says that its judgment is the one of the replay).
- `doctor --repair` rewrites both SKILL.md files when one is broken, an intact
  custom one too (doctor.go:372-374, skills.go:46-51), and one that another
  process has just put in order; if the write fails, the file stays cut, and a
  cut one may still pass the check.
- A mail that can be parsed before its sender has finished is archived as it is,
  and the complete file is removed from `inbox/`, by the same receipt or by
  deduplication after the next event (dmail.go:528-540), although
  dmail.go:225-228 says that a partly written file fails and stays there.
- An empty correction makes the mail it is applied to an improvement; a history
  of one entry that holds a comma does not come back as it was; negative
  recurrence counts are lost. Nothing in this commit calls
  the forwarding that docs/self-improvement-loop.md describes.
- Within a second, the order of created_at as text is not the order of time.
- UpdateStatus and Save do not look at the status in the row
  (coding_session_store.go:65-87, 142-160): a session that is over can be made
  running again, by a copy that its runner saves late or by any caller, and a
  failed or running one may have a provider's ID and be entered. `sessions enter`
  with a record's ID does not look at the provider (cmd/sessions.go:117-134).
- A second process that meets the stall of the first escalates it again: the
  cooldown is in memory.
- The key against duplicate contracts is a hash over the mail's name too, so
  that it never finds two files equal.

## What is not modelled

- Power loss and fsync: files are what was written. Renames are atomic.
- Event numbers in `WritePath`: no wired command allocates or reads them.
- InitializeAt of the counter, which only its test calls.
- Several rebuilds at a time; arguments that a handler refuses before any
  effect.
- An overflow of the watcher's queue, which MonitorInbox ignores; the removal of
  archived mails, after which a name delivered again would be received again.
  The prompt of session/approve.go that times out and leaves its reader behind:
  the gate's answers are taken as they are given.
- Session directories under `events/` and their listing: no command writes them.
- The snapshot view of the breaker and the text of its escalation.
- Prompt construction and templates (`harness/filter/prompt_builder.go`), the
  logger and telemetry, the counts of `status` and the navigator's text, the
  starting of provider programs: formatting and I/O without state of their own.
- What the doctor finds by starting other programs is one outcome each.

With this the parts of the system that keep state are modelled. What is left
are the texts, and the parts marked "partly" in PROJECT.json, for the reasons
given there.
