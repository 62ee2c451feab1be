# Warroom in TLA+

TLA+ models of the parts of Warroom whose correctness depends on the order in
which things happen: the blocklist and whitelist tables, the life of an agent
decision and the learning that goes with it, the push of the blocklists to the
firewalls' MDR threat feed, what is ingested (syslog, NetFlow, Sophos Central,
Microsoft 365) and counted, and the loops that watch it and report.  TLC checks
each model on small instances; TLAPS proves the safety properties for every
instance.  Liveness and two auxiliary invariants stay with TLC.

Check a run with `tlc -config MCMdrFeed.cfg MCMdrFeed.tla`, the proofs of a
module with `tlapm MdrFeedProofs.tla`.  `PROJECT.json` lists the runs, maps
every definition to source lines and names, for every checked property, a
mutated definition that breaks it.

## 1. The system

Warroom is a FastAPI process (`backend/app`) beside two ingest processes
(`syslog`, `netflow`), PostgreSQL, Redis and a static frontend.  All backend
work runs as coroutines on one event loop: HTTP handlers, about twenty
APScheduler jobs (at most one instance each, but several have a "run now"
endpoint that calls the same function beside the job), and a Telegram poll.
They share nothing in memory that matters here; they meet in the database,
where each opens sessions of its own under READ COMMITTED, mostly one session
per step, with reads and the commit separated by awaits.  There are no row
locks.  What keeps them apart is primary keys, one `asyncio.Lock` (MDR sync)
and one advisory lock (map rollup).

| Component | State | Operations | Hard behaviour | What makes it correct |
|---|---|---|---|---|
| Block/whitelist tables (`main.py`, `command_service.py`) | `blocked_ips`, `blocked_domains`, `blocked_urls`, `whitelisted_ips` | block one/many, unblock, whitelist, un-whitelist, refresh from known firewalls | check-then-act over awaits, primary-key conflicts, stale deletes | the two IP tables are disjoint; manual rows survive a refresh; rows keep their owner |
| Agent decisions (`agent.py`, `main.py`) | `agent_decisions` | store, auto-execute, approve, reject, bulk-approve, override, decline | several people and jobs on one decision, stale status, partial failure | blocks go back to people; executed means done, until a person takes it back; rows agree with decisions |
| Approval learning (`agent.py`) | `agent_approval_patterns` | count a vote, match, forget | lost updates, double votes, forgotten while in use | no pattern claims approvals nobody gave; one decision, one vote |
| Telegram (`telegram_client.py`) | message ids, update offset (memory) | push prompts, poll, buttons, chat | restarts, lost answers, another bot | each update is handled, and again only after a restart |
| MDR feed (`firewall_feed.py`) | `mdr_feed_state` cursors, lock | sync (delta or full), push | late commits, aborted pushes, unsaved cursors, two callers | nothing lost, only news sent, healthy firewalls served |
| Pull feeds (`main.py`) | none | list tables as text | none | - |
| Detection loops (`agent.py`, `anomaly.py`, `login_cache.py`, ...) | Redis cool-downs, verdict table, cache of logins | query, ask the LLM, store a decision or a verdict | job and button at once, minutes between reading and writing, people meanwhile | one decision or alarm per incident and cool-down; people's verdicts stand |
| Collectors (`collector.py`, `o365_client.py`) | alerts, events, detections, audit logs | fetch a window, upsert | late items, one cursor for three lists, partial failure | no record skipped |
| Syslog, NetFlow (`syslog/`, `netflow/`) | queue, buffers, `firewall_logs`, `netflow_buckets` | receive, batch, insert | full queue, failed insert, shutdown | rows in order of arrival, losses only in failures |
| Map rollup, retention | `fw_map_daily`, `rollup_state` | fold an id range, purge | rows inserted and purged between statements, two refreshes | every row folded exactly once |
| Metrics (`osint_metrics.py`, `llm_metrics.py`) | counters in memory | record, flush, ask the quota | overlapping flushes, failure between clear and write | no count doubled; quota overrun bounded |
| GeoIP cache (`geoip_service.py`, `syslog/geoip_lookup.py`) | `geoip_cache`, Redis | look up, fetch, store | two processes with two upserts | paid once, scores kept |
| M365 login watch (`m365_watch.py`) | login profiles | learn, then store a decision | two passes, failure in between | nobody is asked twice about one device |
| Hostnames, host identity | `ip_hostnames`, Redis set, identities, events | queue, resolve, set by hand; compare | operator and resolver, two scans at once | manual names win; each combination reported once |
| Honeypots (`honeypot.py`, agent script) | pods, events, mute keys; agent's queue | reconcile, report, ingest, alert | lost reports, commit after the key, Redis away | one alert per source and window |
| IP monitor (`ip_monitor.py`) | flags, pairs, events | scan | overlapping windows and scans | one event per new pair and return |
| Sophos client (`sophos_client.py`) | token, tenant, region (memory) | log in, request, reload | concurrent logins, a save meanwhile | a request carries one account |
| Entra sync, settings, crypto, auth, MCP, SQL assistant, other API clients, frontend, Grafana | - | - | little | not protocol-like |

`PROJECT.json` lists every component with its status and every hazard at its
line; a hazard without a property says why it has none.

## 2. Modules

    Blocklist  <---- AgentDecisions   FeedContract <- MdrFeed
       |                  |                             |
    BlocklistProofs <- AgentDecisionsProofs      MdrFeedProofs
       |                  |                             |
    MCBlocklist        MCAgentDecisions             MCMdrFeed <- MCMdrFeedSeed

    FirewallLogs <- SyslogReceiver, MapRollup, LoginCache        <- MCIngest

    LossyCounter <- FlushBuffer <- OsintUsage, LlmUsage, NetFlow <- IpMonitor
                        |          GeoCache, Collectors          <- MCMeters
                    FlushBufferProofs  <------------------- MetersProofs

    Verdicts, RuleSweeps, SignIns, SophosClient, HostNames, HostIdentity,
    TelegramPoll, HoneypotPod <- HoneypotAlerts                  <- MCWatch

    MCIngest <- IngestProofs    MCMeters <- MetersProofs
    MCWatch  <- WatchProofs <- SweepProofs

(The arrow from `FeedContract`, and in the lower diagrams those to `FlushBuffer`,
from it to `LossyCounter` and to `FlushBufferProofs`, are INSTANCEs, the others
EXTENDS.)  `MCIngest`, `MCMeters` and `MCWatch` hold
components that share no state, or only the table `firewall_logs`: a variable
`reader` or `part` is chosen initially and says which of them moves.  This is a
sum of state spaces, not a product, and a property of one component says
nothing about behaviours of the others.

### Blocklist

`whitelist` maps an IP to the source of its row (a human's `Manual`, an
auto-discovery label, or `Absent`), `blocked` maps an IP, domain or URL to who
inserted its row.  The code stores `blocked_by` and `source`; the model keeps
the decision's id instead, which is finer and lets properties relate rows to
decisions.  `handler[w]` are the locals of one coroutine: what it was asked
and what it has read.

A handler takes one step per database statement, then one for the commit:

| Code | Actions |
|---|---|
| `block_ip`, `block_ips_bulk`, `_h_block_ip` | `BlockBegin`, `BlockRefused`/`BlockChecked` (whitelist read), `BlockReadExisting`, `BlockInsert`/`BlockConflict` (commit), `Reply` |
| `block_domain(s)`, `block_url(s)`, `_h_block_domain/url` | the same without the whitelist read (`block_name`) |
| `unblock_ip/domain/url` | `Unblock`: read and delete by key in one step, which only loses the order of two deletes |
| `add_whitelist` | `AddWhitelistBegin`, `AddWhitelistReadBlocked`, `AddWhitelistCommit`/`...Conflict` |
| `remove_whitelist` | `RemoveWhitelist` |
| `refresh_whitelist` | `RefreshBegin` (discovery and the read of the automatic rows), `RefreshReadOthers`, `RefreshReadBlocked`, `RefreshCommit`/`RefreshConflict` |

`...Conflict` is the primary-key violation (or the update of a row that is
gone) which rolls back the whole commit.  SQLAlchemy writes a column only if
it differs from what the session loaded; `AddWhitelistCommit` and `Refreshed`
follow that.  Comments, timestamps and normalisation are data no property
reads.  The one approximation of the per-key reads of a refresh is that they
are one step; they precede the commit in any case.

### AgentDecisions

Extends Blocklist: `dec` are the rows of `agent_decisions`, `patterns` those of
`agent_approval_patterns` per signature, `task[w]` the locals of the task a
worker runs (a worker runs a list handler or a task, never both).  Executing a
block runs the block steps of module Blocklist inside the task, with the
status written in the same commit, as `execute_decision` does.  A decision
aimed at nothing usable (missing, malformed, private, too large a subnet) has
an empty target set and fails at execution.  `block_subnet` is `block_ips` of
its hosts; `block_domain` and `block_url` are `block_name`.

| Code | Actions |
|---|---|
| `_persist_decision`, `_store_rule_decision` | `AgentStore` |
| `_maybe_learned_auto_approve` | `LearnSkip`, `LearnMatch`, `LearnCredit`, `LearnAnnotate` |
| `_should_auto_execute` | `PolicyExecute`, `PolicyAsk` |
| `execute_decision` | `ExecuteAlready`, `ExecuteBlock`, `ExecuteRead`, `ExecuteInsert`, `ExecuteDone`, `ExecuteRefused`, `ExecuteConflict`, `ExecuteOther`, `EffectDone`, `EffectFailed` |
| `record_approval_feedback` | `VoteRead`, `VoteWrite` |
| `approve_/reject_agent_decision` | `Approve`; `Reject`, `RejectCommit` |
| `approve_all_pending` | `BulkApprove`, `Proceed` |
| `manual_agent_decision` | `ManualDecision`, `SupersedeRead`, `SupersedeCommit` |
| `decline_agent_decision` with `revert_decision`, `forget_pattern_for` | `Decline`, `RevertRead`, `RevertCommit`, `ForgetRead`, `ForgetCommit`, `DeclineMark` |
| `delete_approval_pattern` | `ForgetPattern` |
| Telegram buttons | `TelegramApprove`, `TelegramReject`, `TelegramReload` |

`votes`, and the fields `approved` and `votes` of a decision, are history: who
asked for what.  They guard nothing.  `MaxHistory` bounds declines and
re-learned patterns.

### MdrFeed

The rows of the three tables carry a timestamp taken before their commit
(`writing`, then `rows`); `cursors` is the row of `mdr_feed_state`, `sync[c]`
the locals of a caller's `_sync`, `lock` the `asyncio.Lock`.

| Code | Actions |
|---|---|
| a block handler, from `now = ...` to its commit | `Stamp`, `Commit`, `Rollback`; `Unblock` |
| `sync_mdr_threat_feed` | `SyncStart` (a caller that finds the lock taken does nothing) |
| `_sync`, phase 1 | `SyncLoad` (cursors, snapshot), `SyncPlan` per firewall |
| `_sync`, phase 2 | `PushInit`, `PushNothing`, `PushBegin`, `PushDone` |
| `_push_to_firewall` | `PostSettled`, `PostRefused`, `PostFailed` |
| saving, errors | `SyncSave`, `SyncSaveFailed`, `SyncGiveUp`, `Crash` |

`settled` and `baseline` are history: rows a firewall took or refused for good
(wildcards included), and rows it was initialized past.  A composite cursor
`(blocked_at, value)` is the row it stands on.  The rows of a chunk are any
subset of the queue of the right size, so the order inside a delta is free;
the code's order is one of them.

`FeedContract` says what all this is for, without cursors, syncs, locks and
clocks: each firewall that has joined has an account of what it is still owed.
What gets listed is added to every account; it leaves an account when it is
listed no more, or when the firewall has settled it; and only a firewall
without an account can be let off anything.  `KeepsContract` is the refinement:
a firewall has joined once its cursor is durable (`Joined`), and is owed the
rows its cursor has not passed (`Account`).  A save is the step `Clear`, posts
are `Settle`, initializing is `Excuse`; everything else, a crash included,
stutters.  It contains what `NoLoss` says of the state and adds what a step may
do: a cursor never goes back, not even in a full seed, is never dropped
(`CursorKept`), and a row that commits late is still owed.

### FirewallLogs, SyslogReceiver, MapRollup, LoginCache

`logs` is the table `firewall_logs`: rows with the id their insert drew, the
number of their message in order of arrival (history), the message and whether
its attacker could be located.  A message is a record of what the properties
tell apart: both ends (public, private or neither), the kind of log, whether it
was denied, whether it is a failed login, and the firewall's clock.
`AttackerOf` is the receiver's choice of the outer end, `ThreatOf` the rollup's.

| Code | Actions |
|---|---|
| `handle_message`, `insert_worker`, `_insert_batch` | `Receive`, `TakeBatch`, `InsertBatch`, `InsertFailed` |
| signal handler, service restart | `Stop`, `Restart` |
| `refresh_map_rollup(_job)` | `RefreshLock`/`RefreshSkip`, `RefreshRange`/`RefreshEmpty`, `RefreshFold`, `RefreshCommit`, `RefreshCheck`, `RefreshFailed` |
| `purge_firewall_logs` | `PurgeStart`, `PurgeRows` (one batch), `PurgeDays` |
| `_topup_login_cache`, `login_cache.py` | per job: `TopUpStart`/`TopUpBlind` (time and cursor), `TopUpRead`, `TopUpAdd`, `TopUpCursor`, `TopUpTrim`, `TopUpFailed`; `RedisFlush` |

Under READ COMMITTED each statement of a refresh sees what is committed when it
starts, so rows are inserted and purged between them.  `counted`, `expired`
and `reads` are history.  A failing insert may burn the ids it drew: that is
how gaps come about.

Two scheduled jobs (`agent_failed_login_loop`, `agent_user_login_alert_loop`,
both every few minutes) and a manual run top the login cache up, and nothing
keeps them apart.  Each of `LoginJobs` has its own top-up, with a step per await:
the cursor, the rows, the set, the new cursor, the trimming.  A slow top-up reads
from a cursor that has moved, adds rows that are cached already, and sets the
cursor back behind a fast one.  What that loses is less obvious.  Every top-up
takes the oldest rows it sees, so a cursor never passes a row that was there
when *some* read up to that time or later was made; but a row that is stored
after such a read, with an earlier time (the times are the firewalls' clocks),
may be passed by even though a second top-up saw it and was cut off by the
limit before it.  `reads` records how far each read got and the next id then;
`Late` are the rows behind one.

### FlushBuffer, LossyCounter, OsintUsage, LlmUsage, NetFlow

`FlushBuffer` is the pattern three components share: a dictionary that is
copied and cleared under a lock (`Take`) and written without it (`Commit`,
`Fail`), so that flushes overlap and a crash (`Die`) loses both.  One record
`meter` holds its state, so a component instantiates it with one variable.
`LossyCounter` is the promise: what is counted waits, is then stored for good or
lost, and lost only together with a failure.  `FlushBuffer!Implemented` is the
refinement: `waiting` is the dictionary plus all copies in flight.

`OsintUsage` adds the quota: the gate reads the dictionary, then the table, then
Shodan is called, then counted (`ReadPending`, `ReadStored`, `CallShodan`,
`CountCall`), beside people whom no limit holds back, and a Redis cache whose
entries may lack Shodan's answer.  `LlmUsage` counts a request and its plain
repetition as one call (`Ask`, `AskPlainly`, `Answered`); `NetFlow` two
dictionaries in one flush (`Ingest`, `FlushTake`, `FlushCommit`) and the
retention of buckets.

### IpMonitor, GeoCache, Collectors

`IpMonitor` extends NetFlow: scans read the flagged addresses and the buckets
of the lookback window (`ScanStart`), the rows of the pairs (`ScanRead`), and
commit rows and events at once or fail on the unique key (`ScanCommit`,
`ScanConflict`), then notify.  The lists are edited meanwhile.

`GeoCache` is one address, looked up by the syslog receiver (key, row, fetch,
upsert that keeps a score, commit) and by the backend (key, row, fetch, merge
that does not).

`Collectors` are the two cursors `FromDate`: of Central, over alerts and events
together, and of the sign-ins.  `Published` lets an item turn up `...Lag` late;
a cycle fetches its lists one after the other (`Fetched`/`FetchFails`), looks
for the rows it has (`Checked`), and commits (`Committed`/`CommitConflict`).

### Verdicts and RuleSweeps

`Verdicts` are the rows of `anomaly_verdicts` and the three sweeps that write
them.  A sweep loads the ages and authors (`SweepStart`), takes one address
after the other (`SweepJudge`, `SweepSkips`: the row is read), writes
(`SweepWrite`/`SweepConflict`) and may send an alarm (`SweepAlarm`); an analyst
reads, clears or judges meanwhile.  The daily triage alarms only for a verdict
that changed.  `alarms` records with each alarm which run sent it and what
that run had seen.

`RuleSweeps` are the six loops that ask the language model, of which a behaviour
explores one (`source`): alerts, Sophos events, WAF, IPS and failed-login
addresses, endangered users.  `PassSelect` reads what is decided already,
`Decide` stores one answer, `Undecidable` drops one; `NetworkDecided` is the
decision about a distributed login attack that covers several addresses; users
are muted in Redis (`UserAsked`, `UserMarked`).  Every subject is in the window:
one that is not behaves like one the model gives no usable answer for.

### SignIns, SophosClient, HostNames, HostIdentity, TelegramPoll

| Module | Code | Actions |
|---|---|---|
| `SignIns` | `m365_login_watch` | `LookStart` (sign-ins of the window), `LookLoad` (profiles), `Learn`/`LearnConflict` (commit), `Ask` (one decision) |
| `SophosClient` | `_authenticate`, `_resolve_whoami`, `_ensure_auth`, `reload` | `CallStart`, `LoggedIn`, `Identified`, `LoginFails`, `ResourceAnswered`, `NextSearchPage`; `SettingsSaved`, `TestConnection`, `TokenExpires` |
| `HostNames` | `hostname_service.py` | `WorkerTakes`, `ReconcilePressed`, `Resolved`, `Stored`/`StoreFails`; `EditBegins`, `EditStored` |
| `HostIdentity` | `host_identity.py` | `ScanReads`, `ScanCompares`, `ScanCommits`/`ScanConflicts`, `ScanAlarms`; `Rebound` |
| `TelegramPoll` | `telegram_poll_updates` | `PollFetches`, `PollMoves` (offset), `Handles`/`HandlingFails`, `CutOff`; `PollerRestarts`, `BotSaved` |

Each has its restart: `LooksDie`, `ResolversDie`, `ScansDie`, `PollerRestarts`.
What DNS, the inventories or the model answer is a free choice.

### HoneypotPod, HoneypotAlerts

The pod is the agent on the remote host: decoys that are touched
(`ServiceTouched`, `FileTouched`), the bounded queue, the report that may not
arrive (`ReportPosted`, `ReportReturns`), the heartbeat and what it makes of
its answer (`HeartbeatAnswered`, `Reconciled`), and the operator who changes,
redeploys or deletes the pod.  `HoneypotAlerts` ingests a report event by event
(`IngestEvent`: the mute key of the source or file, or none where the process
is whitelisted; `IngestBlindly` when Redis does not answer), commits, and sends
the alerts.  Looking up a new source commits on the way, in the same session,
what the report has added so far (`IngestLookup`): those rows stay when the
rest fails.  The agent gives up after 15 seconds, so two reports may be
handled side by side.

## 3. Runs

| Run | Instance | States | Result |
|---|---|---|---|
| `blocklist_concurrent` | 1 IP, 1 name, 2 labels, 2 workers, 2 owners, every handler | 59 thousand | `ListTypeOK`, `ManualLostOnlyToStaleRefresh`, `AttributionKept` hold |
| `blocklist_race` | the same without a name | - | `ManualKept` fails (finding 1) |
| `decisions_concurrent` | 2 decisions on 1 IP, 2 workers; agent, approve, decline, override | 1.2 million | `TypeOK`, `BlocksAreRooted`, `ApprovalsEarned`, `ExecutedUntilTakenBack` hold |
| `decisions_serial` | 2 decisions, 1 worker; every task; block, whitelist, refresh | 650 thousand | `NoOverlap`, `ApprovalCountsOnce`, `RowsOfStandingDecisions`, `ExecutedTakesEffect`, `TasksEnd` hold |
| `decisions_twice` | 2 decisions, 2 workers; agent, approve | - | `ApprovalCountsOnce` fails (finding 2) |
| `feed_concurrent` | 2 firewalls, one flaky; 2 values, 2 callers, 1 fault | 1.2 million | `NoLoss`, `DeltaIsNew` hold, and `KeepsContract`: the feed implements `FeedContract` |
| `feed_live` | the same, 1 caller, 1 wildcard value | 415 thousand | `Delivered` holds under fairness |
| `feed_seed` | 1 value, no fault | - | `AbortedPushIsRetried` fails (finding 3) |
| `ingest` | receiver with 3 ids and 1 fault; two refreshes, refresh and retention, or login cache with two jobs | 464 thousand | `ArrivalOrder`, `CountedOnce`, `NoneSkipped`, `PinIsAttacker`, `CursorSkipsNothing` hold; `QueueDrains`, `CatchesUp`, `ReachCache` under fairness |
| `meters` | 2 lookups and 1 flusher; 2 callers and 2 flushers; 2 scanners; 3 GeoIP lookups; 3 cycles | 1.1 million | `OvershootBounded`, `EventsSpaced`, `PaidOnce`, `NoGap` and the refinement `MetersImplementCounters` hold |
| `watch` | the eight parts of MCWatch, job and button (two runs) of each, 2 addresses, subjects or keys | 1.7 million | `WatchTypeOK`, `AlarmsSpaced`, `DecisionsSpaced`, `RevokeAskedOnce`, `OneAccount`, `TouchReportedOnce`, `OperatorNameStands`, `IdentityReportedOnce`, `UpdatesHandled`, `HumanLostOnlyToStaleSweep` hold |
| `watch_alerts` | the loop over alerts | - | `UndecidedAlertsSelected` fails (finding 4) |

Why the bounds are enough.  Two workers give every pair of handlers every
interleaving; conflicts, stale reads and lost updates need two.  One IP makes
every pair of operations meet on the same key; more keys only dilute that.
Two decisions let the first teach the pattern (`Threshold = 1`) and the second
be executed by it.  Two labels let a refresh relabel.  In the feed two firewalls
let one fail while the other is served, two values with `Chunk = 2` form a
chunk that is refused and posted again one by one, and `Lag = 2`,
`MaxDelay = 1`, `MaxTime = 3` let a row commit late, become due and be passed
by a cursor.  Where a bound could hide something - more tasks at once, more
decisions, a higher threshold, more firewalls or faults - the theorems below
cover the safety properties for every value.

In `ingest`, three ids, chunks and batches of two make a chunk end inside a
batch and let ids be burnt between two rows; the retention runs on day 2 with
windows of one day, so that messages of day 0 are due as soon as they are
stored, also in the middle of a refresh.  The four messages are one per case: a
connection from inside, a detection from an address that is neither private nor
public, and two failed logins, one of them without a destination.  In `meters`
one address, pair or item of each kind is enough, since keys do not influence
each other; what matters is who overlaps, and two of each may.  In `watch` two
runs overlap (a third adds no new pair of steps), `MaxPasses` and the
other budgets allow a third run after both, or a restart between them, and time
passes as far as a cool-down ends.  One host is enough for HostNames, where
tasks of two hosts touch different rows.

In the behaviours of `ingest` that explore the login cache, messages arrive and
are located and stored one by one (`OneByOne`), and a top-up steps or a day passes
only when queue and batch are empty (`Stored`); inserts fail, and rows wait for
their location, in the other behaviours only.  With two top-ups in
five steps each, three rows and one fault this still lets one job read, add,
set the cursor or trim between any two steps of the other.

What the bounds leave out: the collectors have no detections to fetch in `meters`
(the proof covers them); the queue of the honeypot agent never runs full
(two touches, two places), so events dropped there are not explored; loops over
addresses (WAF and failed logins) get one run less than the others; the loop
over IPS addresses is that over WAF addresses with another name and is not run.

Symmetry is used only in runs without liveness properties: over workers,
callers, lookups and scanners, and in `watch` over two values that stand for
addresses, subjects, keys and hosts alike and two for the runs, which the
parts share because no behaviour moves two parts.  `meters` and `watch` switch
the deadlock check off: their bounds on events, runs and time end every
behaviour.  No other run does.

### Fairness

`AgentDecisions!FairSpec` assumes weak fairness of every step of a running task
or handler: the event loop resumes a coroutine whose await has returned.
Nothing is assumed of people, agents or the scheduler.  `MdrFeed!FairSpec`
assumes that time passes, that transactions end, that the interval job calls
the sync again and again, and that a running sync is resumed.  It assumes
nothing of the flaky firewall, of crashes, or of the administrator.

`MCIngest!FairSpec` assumes that the event loops resume the worker, a refresh
and a top-up, that the scheduler starts refresh and top-up again and again
(both are interval jobs), and that a stopped receiver is restarted, as its
container is.  Nothing is assumed of the firewalls, of Redis, of the retention,
or of the outcome of an insert.

### Findings

1. `refresh_whitelist` promises that manual entries are never touched.  An
   automatic row that a person upgrades while the refresh runs is deleted or
   relabelled by it.  `ManualLostOnlyToStaleRefresh` says that nothing worse can
   happen, and is proved.
2. The approve handler means to count only a genuine pending-to-executed
   transition.  Two overlapping approvals both count.  One at a time,
   `ApprovalCountsOnce` holds.
3. The feed's header promises that a push aborted by a transient error is
   retried.  A full seed of a firewall without a cursor is not: the next
   scheduled sync initializes the firewall past those rows.  `NoLoss` is stated
   so that initialization is explicit (`baseline`).
4. `agent_loop` means to take up alerts without a decision.  It selects them with
   `Alert.id.notin_(select(AgentDecision.alert_id))`, and since decisions of the
   other sources carry no alert, the list contains a NULL and `NOT IN` is never
   true: after the first such decision no alert is taken up.
   `DecisionsSpaced` is therefore checked for the other loops.

Several properties exclude something.  In each case the code does get wrong what
is excluded (TLC violates the property without the exclusion), so the hazard
behind it is described by the model and not caught by the property:

| Property | Excludes | Because |
|---|---|---|
| `NoGap` | cycles that were `cut` | one cursor for three lists: a failed fetch of one is skipped when another moved it |
| `CursorSkipsNothing` | rows stored after a row of a later time was read; rows a running top-up had passed when Redis lost everything | the cursor goes by the firewalls' clocks, and top-ups overlap |
| `NoOverlap` and the serial properties of decisions | more than one worker | whitelist, status and vote are read some awaits before the commit |
| `RowsOfStandingDecisions` | rejected decisions | rejecting has no guard on the status |
| `DecisionsSpaced` | runs that selected before the decision was stored | the cool-down is set after the answer |
| `EventsSpaced` | events of two scans at once | each read the row before the other wrote it |
| `PaidOnce` | lookups that began side by side | no lock between two processes |
| `OvershootBounded` | failed flushes | what is being written is in neither copy |
| `CatchesUp` | rows behind a gap in the ids as long as a chunk | the job takes an empty chunk for the end |
| `PinIsAttacker` | sources neither private nor public | two definitions of "internal" |
| `OneAccount` | `crossed`: a save while a login is answered; parts that are missing | nothing ties the parts of a login together; without tenant or region a request is sent all the same |
| `TouchReportedOnce` | `cleared` Redis; `failed` alerts | the key is taken before commit and alert |
| `OperatorNameStands` | `raced`: edit and task hold the row at once | the row is read before it is written |
| `IdentityReportedOnce`, second part | `overlapped` scans | each finds one of two cards |
| `UpdatesHandled` | `switched` bots | the offset of the old bot is kept |

Some of these are promised without exception: "whitelisted IPs ... can never be
blocked" (`agent.py:1589`) and "whitelist takes precedence" (`main.py:3049`), where
a block that had passed its check commits after the IP was whitelisted; "Manual names are never overwritten
by the auto-resolver" (`hostname_service.py`), and "human assessments always win
over the agent" (`agent.py`, `_set_agent_verdict`), of which
`HumanLostOnlyToStaleSweep` says that only a sweep that had loaded the row
before the person saved it overwrites it.

Two comments of `agent.py` contradict each other: block actions "ALWAYS require
human approval" (lines 43-45, 150) and a learned pattern executes them
"without asking - block actions included" (lines 166-168).  The code does the
latter, and `BlocksAreRooted` states it.

## 4. Proofs

Every safety property a passing run checks is a theorem, and so are the three
refinements of `LossyCounter` and that of `FeedContract`.  The argument is the
same throughout: an inductive invariant says what a task that is between two steps knows about the tables it
will write, and why the tasks that overlap it cannot make that untrue.

The proof modules of the ingest, meters and watch parts extend the MC modules.
They prove each property of a specification of its own component, which is
weaker than what the runs explore (nothing bounds it, no other part is at
rest), and then carry it over to the `Spec` of the MC module (`RunsAreSafe`,
`RunsSkipNoLogin`, `MetersAreSafe`, `MetersCountOnce`, `WatchIsSafe`, `SweepsAreSafe`, `WatchTypesHold`).

**BlocklistProofs.** The theorems are about `SharedSpec`, in which people and any
number of other owners insert through the same steps (`OwnerBlock`); it is the
specification of the runs as well.  `ListTypeCorrect`, `OwnersKept` and
`ManualRowsKept` hold for any number of workers.  Types are all that `OwnersKept`
needs: of two inserts of a key, the second finds the row and fails whoever owns
it.  `SerialNoOverlap` assumes one worker.  `NoOverlap` is not inductive: a block must
not commit an IP that was whitelisted after the check.  `SerialInv` adds what
the running handler's reads still say (`ReadsHold`): with one worker nobody
changes the tables between a read and the commit.

**AgentDecisionsProofs.** `Inductive` establishes `IInv`: besides the type and the
two safety properties, what each task has established on its way to a step
(`Fits`: a task about to execute a block has a rooted decision, one about to
credit a pattern saw enough votes, one that is executing had not seen the
decision executed), whose insert a handler prepares
(`InsertsOwned`), and that rows belong to stored decisions (`OwnersExist`).  The
argument is monotone: decisions gain roots, votes only grow, so what one task
has established no other can take away.  From `IInv` follow `TypeCorrect`,
`BlocksRooted`, `ApprovalsAreEarned` and, step by step, `ExecutedStays`: whatever
else is going on, an executed decision is only ever overwritten by a person
who takes it back or by a task that had loaded it before it was executed.

The second half assumes one worker, whose tasks follow each other:
`DecisionsNoOverlap`, `ApprovalsCountOnce`, `RowsStandFor`, `ExecutionsTakeEffect`.
Interleaved tasks break all four (`decisions_twice` shows the second), so the
argument cannot be monotone: `OneTaskInv` says what holds when nobody is at work,
and how far the one task has got.  `Agree` relates decisions to the tables
(whose rows they own, which votes are counted), `Knows` what the task has read of
its decisions to the decisions, and `Carries` what the execution's handler has
read to the task it belongs to.

**MdrFeedProofs.** `FeedInvariant` establishes `FeedInv`.  `NoLoss` is not inductive:
a cursor must never be able to move over a row that has not been posted or
has yet to commit.  `Clock` and `CursorsAged` say that rows under a cursor are at
least `Lag` old while a row still to commit is at most `MaxDelay` old; `Good`
says that a running sync has planned, for each firewall it has still to serve,
every row between that firewall's cursor and the horizon, and what it pushed
is settled; the lock makes that sync the only one.  From it follow `NothingLost`,
`DeltasAreNew` and `CursorsStay`.

`FeedKeepsContract` is the refinement of `FeedContract`, step by step.  It needs
more than the safety properties do, because the contract speaks of the step of a
save: `ContractInv` adds that the tables stay finite, so that the rows a cursor may move to
have a newest one (`NewestThere`); that a cursor is never ahead of the horizon of
a running sync (`Behind`), so that a row which commits now is behind no cursor;
and what the cursors about to be saved pass (`Keeping`): a firewall that has an
account is not being initialized, the new cursor passes only what the old one
passed or the firewall settled, and it passes all that the old one did, although
a full seed builds it from the delta alone.

**FlushBufferProofs.** `FlushBufferImplementsCounter`: for any set of keys, any
increments and any number of overlapping flushes, failures and crashes,
`FlushBuffer` implements `LossyCounter` under the mapping of `Implemented`.  The
invariant `Typed` is enough: each action of the buffer is one of the counter
(a record counts, a commit stores, a failure or crash loses) or, for the copy a
flush takes, a stutter, because `waiting` is the sum of dictionary and copies.
That sum is kept in `inflight`, and `CopiesAddUp` shows that it is the sum of the
copies (`InFlightSums`) for any finite set of flushers.  The fold of the community
modules is a recursive function, of which the provers know nothing at first:
`AddsThere` shows that a function with that recursion exists on a finite set,
from a smallest subset on which none would (`SmallestThere`, the well-foundedness
of strict inclusion); `SumChanges`, in the same way, that a sum changes by
as much as the one copy that does.

**IngestProofs.** `IngestSpec` lets the receiver, any number of refreshes, the
retention, the top-up of the login cache and the clock go on at once, where the
runs explore one reader at a time.  `SyslogInv`: batch and queue are one sequence,
increasing in order of arrival and younger than all that is stored
(`RowsArriveInOrder`).  `RollupInv`: the lock makes the refresh that holds it the
only one whose `lo` is the watermark, and what it has read is every located row
of its range, purged or not (`Folds`); so counters equal rows folded and no row
is skipped (`EachCountedOnce`, `NoRowSkipped`).  `PinsShowAttackers` compares the two
choices of an attacker for every kind of address.  `CacheInv`, for any number
of top-ups at once: whatever a cursor, stored or in the hands of a top-up, has
passed (`Passed`) was cached or is `Late`, and so was what a top-up has read and
not yet added (`Fits`); a top-up that reads now sees every row that is not behind
an earlier read, and takes the oldest (`WillHavePassed`), so where it sets the
cursor does not matter, nor whether another one has set it since
(`LoginsNotSkipped`).  `WindowOutlived` shows under `KeptLongEnough`, that the cache
looks back no further than rows are kept, that no row leaves the table while it
is in the window: the property, which speaks of stored rows, misses none.
`RollupStaysTyped` adds what `FoldTyped` leaves open (`RoundsBounded`): a refresh
never has more rounds left than the job, and only rows expire.

**WatchProofs.** Six components, each with its own invariant about tasks that are
suspended.  `NamesHeld`: who holds the row of a host the operator named has read
that it is his.  `PollKeeps`, `PollDone`, `PollCounts`: an update is still
offered or done, those below the offset and below the one in hand are done, and
what is not yet below the offset was handled at most once in each earlier life
of the poller.  `OneSession`: unless a save crossed a login, token, tenant and
region in memory are of the account of the settings or missing, and every login
under way is of that account.  `News2Ask`: a device that a pass will ask about is
in its profile since that pass's commit and in no other pass.  `KeysMute`, `RowsCovered`: while Redis keeps its keys, each key outlasts
the mute time of its alerts, and each alarming row is covered by an alert, sent
or about to be.
`FirstsCounted`, `ScanAlone`: a "first seen" event goes with the primary key of its
row.  The section on types adds to each of these invariants what the type of its
component needs besides (`NamesStayTyped` to `IdentityStaysTyped`): that ids in
the hands of the poller are below the next id of the bot they came from
(`PollBounded`, `Given`), that a report in progress holds only rows and alerts of
the past (`AlertsBounded`), that the token of a pod is counted by its changes
(`PodBounded`), and that whatever a scan carries was stored before
(`ScanBounded`).

**SweepProofs.** `RuleInv` is about the loops that ask the language model: a mute
key lasts as long as the decision behind it asks for (`MutesLast`), and a run that
selected a subject found it free of the decisions stored then (`RunKnows`); from
it follows `CoolDownsKept`.  `VerdictInv`: a row is a person's or as recent as the
last alarm of its address, until an analyst clears it (`Remembers`), and what a
sweep has still to judge was last raised long enough ago (`SweepKnows`); from it
follows `AlarmsSpacedOut`.  `HumanVerdictsStand` is the action property
`HumanLostOnlyToStaleSweep`.  `VerdictsBounded` (a clearing belongs to a request that
was counted, a sweep over connections calls everything suspicious) and
`RulesBounded` complete the types; `WatchTypesHold` joins them with the six of
WatchProofs into `WatchTypeOK`.

**MetersProofs.** `GeoInv` counts the lookups that will fetch and those that hold an
answer (`AddressesPaidOnce`).  `CollectInv`: what is older than
the lag when a cycle begins is stored, or a cycle under way will store it
(`BehindCovered`; `NothingLeftBehind`).  `MonitorInv`: the row of a pair
with an event exists and is at most one lookback older, and a scan that will write
has read rows at least as recent as the events before it (`RowsFollow`, `ScanIs`;
`MonitorEventsSpaced`).  `OsintInv` bounds the automatic lookups: spent calls are at
most those stored, plus `Most = Limit + K - 1` for each flush in flight and for the
dictionary, `K` the number of lookups, since a lookup passes the gate only
while dictionary and table are below the limit (`LimitOverrunBounded`).
`LlmCallsCountedOnce`, `ShodanCallsCountedOnce` and `FlowsCountedOnce` show that the
three counters implement `LossyCounter`; they instantiate the lemmas of
FlushBufferProofs and add what each component does besides (a failed call, a
Redis cache, a retention that removes what it counted as stored).  `MetersCountOnce`
adds the sums (`OsintAddsUp`, `LlmAddsUp`, `NetAddsUp`) and is the whole of the
property the run checks, `MetersImplementCounters`.

Assumptions.  Most assumptions on constants say that names are distinct, sets
finite, and counters and the bounds of the runs natural numbers (`ListAssumption`, `DecisionAssumption`,
`FeedAssumption`, `LogAssumption`, `RollupAssumption`, `GeoAssumption`,
`NetFlowAssumption`, `RuleSweepsAssumption`, `VerdictsAssumption`, ...).  Some are
substantial:

| Assumption | Says | In the code |
|---|---|---|
| `FeedAssumption` | `MaxDelay < Lag`: transactions commit sooner after taking their timestamp than the 15 seconds of `_COMMIT_LAG_SECONDS` | relied upon, not enforced; without the lag (mutant `DueAtOnce`) `NoLoss` fails |
| `CollectorsAssumption` | lateness of an item and length of a cycle together stay within the overlap of two windows | relied upon, not enforced |
| `IpMonitorAssumption` | `Gap > Lookback`: a silence that makes news is longer than the window a scan reads | two settings (`ip_monitor.py:138-139`), true of their defaults |
| `KeptLongEnough` (only in `WindowOutlived`) | the cache of logins looks back no further than rows are kept | enforced: 24 hours (`login_cache.py:26`) against at least one day (`firewall_retention.py:56-57`) |
| one worker | in `SerialNoOverlap` and the four theorems on serial tasks | not enforced: the runs `decisions_twice` and `blocklist_race` show what happens otherwise |

Only model-checked: liveness (`TasksEnd`, `Delivered`, `QueueDrains`, `CatchesUp`,
`ReachCache`), which TLAPS does not cover with ENABLED and fairness.

Two type invariants are not part of a run: that of the rollup (`RollupTypeOK`) is
proved, that of the meters (`MetersTypeOK`) documents the shape of the state.

## 5. Not modelled

Prompts, LLM answers, detection queries and enrichment (data, no protocol); the
block-burst alarm and the push of prompts to Telegram (messages nothing depends
on); `verify_last_push` and the transaction ids in Redis; switching features on
and off, except that learning and the master switch may be on or off at any
moment (`LearnSkip`, `PolicyExecute`); crashes of the backend in the middle of a
decision task; the inventory of endpoints and firewalls and the mail metrics
(plain upserts); the sums that the IP monitor adds up; OSINT services without a
quota; the Entra sync (one call and one id); the protocols of the decoys and
the decoding of NetFlow packets; HTTP authentication, settings, encryption;
the SQL assistant and the MCP server, which only read; the frontend, dashboards
and the other API clients.

## 6. Plan

1. The push of prompts, composed with decisions: every pending decision is
   offered in the end, unless ten newer ones always come first.
2. Restarts in the middle of a decision task.
