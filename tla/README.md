# claude-cloak in TLA+

Specifications of [claude-cloak](../src/README.md), a privacy proxy for the Anthropic API: a FastAPI
application, one process and one event loop, that stands between Claude Code clients and the upstream. It
rewrites each request, relays the answer as a stream, and keeps a ledger of what was used, by whom, and at
what cost.

The modules model the parts of the proxy that keep state and change it from several places: the per-user
spend caps, the pass-through handler with its streams and retries, the usage ledger and its file, the Loki
shipper, the access keys, what is kept in `.env` (settings, identity, session secret) with the console that
edits it, and what runs beside the requests (alerts, coaching counters, prices). They also model what is
decided about a single request: its gates, the rewriting of its body, the reading of its response. TLC checks
each on small instances; TLAPS proves what is said below to be proved for all values of the constants. Paths
such as `passthrough.py` are relative to `src/src/claude_cloak/`.

## 1. The system

### 1.1 What makes it hard

There are no threads, so code between two awaits is atomic, and the source relies on it (`state.py:104`: "no
lock needed"). What is hard is what happens *across* awaits:

- a cap is checked when a request comes in and charged when its response has ended, minutes later;
- an upstream stream can end in six ways, two of which (the client hangs up while the generator waits, or
  while it is suspended at a `yield`) reach the code as different exceptions at different places;
- the Loki flusher awaits a push and then deletes from a list that requests have gone on changing;
- state is on disk only as of the last debounced save; a crash, a failed write, a month that ends, may fall
  between any two steps;
- settings change while requests are under way;
- `.env` is read at start and rewritten key by key, by three parts that do not know of each other, and each
  rewrite truncates the file first;
- two refreshes of the prices may be under way, two login attempts past the same lockout check, a response
  may end after the last save of a shutdown.

### 1.2 Inventory

| Component | State it keeps | Operations | Talks to |
|---|---|---|---|
| Access middleware (`middleware.py`, `access.py`) | none | resolve the client's address, then decide: key, address, stats, cap; label | keys (`verify_secret`, `record_use`), caps (`is_user_over_cap`), handler |
| Per-user caps (`quota/users.py`, `routes/admin.py`) | `quota_stats["by_user"]`: one bucket per label | fetch with lazy rollover, check, charge, block, reset, view | middleware, ledger (`record_user_usage`), alerts |
| Pass-through handler (`routes/passthrough.py`) | per request: attempt, response, tap; `stream_stats`; the cache-TTL latch | receive, prepare, send and retry, buffer a 400, stream, close, record | upstream pool, sanitizer, token saver, tap, ledger, coach |
| Upstream client (`upstream.py`, `app.py`) | connection pool (httpx), `upstream_stats` | grant, time out, release | handler |
| Usage tap (`quota/tap.py`) | buffer, usage and signals read | feed a chunk, finalize | handler, ledger, coach |
| Cache-TTL statistics (`quota/cache_ttl.py`) | last turns per session and model (bounded), counts of pauses | record a turn, count a request, force 5m | handler, ledger |
| Usage ledger (`quota/usage.py`, `accounts.py`) | `quota_stats`: totals, sessions, days, users and sessions of a day, accounts | record a response, record headers, evict | handler, persistence, pricing, alerts |
| Persistence (`quota/persist.py`) | `.quota.json`, time of the last save | debounced and forced save, load, monthly reset | ledger, lifespan |
| Access keys (`proxy_keys.py`, `routes/keys.py`) | records, digest index, `.keys.json` | create, update, delete, verify, record use, save, load | middleware, console |
| Loki shipper (`loki.py`) | `loki_buffer`, drop counter | enqueue, flush, loop, shutdown flushes | every log call, lifespan |
| Alerts (`alerts.py`) | `_sent` (bounded), delivery tasks | notify, check thresholds, send, drain | ledger, caps, handler, lifespan |
| Identity (`identity.py`, `env.py`) | captured headers, their date, `.env` | auto-capture, refresh, persist | handler, start-up |
| Token saver (`tokens.py`) | `token_saver_stats`, the latch (`state.py`) | raise and add breakpoints, truncate, beta header | handler |
| Sanitizer (`sanitize.py`) | none | rewrite a body | handler |
| Pricing (`pricing.py`) | table, rates of a day, cached document | rates on a day, rebuild, refresh, loop | ledger, lifespan |
| Coaching (`coach.py`, `coach_insights.py`) | counters per week and user (bounded), marks, `.coach.json` | observe, mark, save, load; reports | handler, console, lifespan |
| Settings and consoles (`settings.py`, `config_console.py`, `admin.py`, `routes/config.py`) | `settings`, `.env`, login failures | apply a batch, log in, lock out | all |
| Lifespan (`app.py`, `state.py`) | the clients, tasks | load all, start tasks; cancel, drain, flush, save all | all |
| Views, CLI, TLS, ACME, tray, web | none that interleaves | output and set-up | - |

What makes each correct, in one line, with the exceptions in section 2: a *cap* is overshot by no more than the
checked requests in flight, and a 429 is always justified; a *request* gives its connection back and is recorded
once, however it ends; the *ledger*'s breakdowns agree with its totals, through evictions, crashes and new
months; a *key* works exactly from its issue to its deletion or expiry; *log entries* reach Loki in order, and
losses are counted; an *alert* is repeated or lost only for a reason; the *identity* is that of one device, and
a restart changes nothing of it or of the *settings*; a *body* the API would have accepted is still one after it
was rewritten; a *response* is read the same however it is cut; *prices* are those of the day; the *gates* judge
an address that the caller cannot choose, where its proxy writes into the line they read.

PROJECT.json lists every component with its status, and every hazard with its line.

### 1.3 How the modules fit together

```
            ProxyKeys ----admits----+
                                    v
  UserCap --checks--> [ middleware ] --> StreamProxy --usage--> QuotaLedger
     ^                                     |  implements            (disk)
     +------------- charge ----------------+  Exchange
                                           +--log lines--> LokiShipper
```

One or more modules own each dictionary or object of the code. Where the code calls from one of the
modules above into another, the caller's module has a history of the call (`recorded` in StreamProxy counts
the calls of `_record_usage`) and the callee's module has the call as an action (`Record`), open to every
argument the caller could pass.

Three modules compose components that do share state. Each EXTENDS its components, whose actions say what a
component's functions do, and adds who calls them, when, and what happens to the other components meanwhile:

```
  Console      = Configuration + Identity (both over EnvFile) + AdminLogin: one .env, one session secret
  Lifespan     = Alerts + Coach + Pricing: one response charges, alerts and counts; one start and shutdown
  RequestPath  = Access, TokenSaver, UsageTap, CacheTtl: one request after the other, in proxy()'s order
```

## 2. The modules

### 2.1 UserCap: admission and charge

State: `by_user` is `quota_stats["by_user"]`; `slot` the requests that were admitted and have not ended;
`enabled`, `hard`, `default` the three live settings; `period` what `current_user_period_key()` returns; `sent`
the cap alerts. Actions: `AdmitUnchecked`, `AdmitUnderCap` and `Reject` are the cap branch of the middleware's
`__call__`, for the two kinds of path a caller may write: `/v1/messages`, and `//v1/messages`, which the test
`startswith("/v1/")` passes by although the handler forwards and charges it. `Record` is `record_user_usage`
with the alert it raises, at the end of a response; `EndUnrecorded` a response without usage; `View` the read
routes, which refresh buckets; `AdminReset`, `Configure` the routes of the same purpose; `NextPeriod` is
midnight, which runs no code at all.

Properties: `SpendIsCurrent` (the lazy rollover neither drops nor carries over spend), `OvershootBounded` (of
requests the cap was checked for; `free` counts apart what came in unchecked, by the settings or by the path,
and no cap bounds that), `BlockedWithCause` (no 429 for old spend, an old cap, or no cap) and
`BlockedWasAnnounced` (an alert came first). A bucket can only be trusted through `get_or_create_user_bucket`,
and the properties say that this is enough.

Simplified: costs are naturals; `USER_QUOTA_CAPS` and the period kind change only at a restart; quota
tracking is on and an alert sink is configured; the clock does not run backwards.

### 2.2 StreamProxy and Exchange: one request

`StreamProxy` models `proxy()` and its generator `stream_response()`. `pc[r]` names the await a request is
suspended at, so an action is the code between two awaits. The list of places heads the module; the except
clauses, the retry loop, the 400 that is buffered while the 1h cache TTL is in use, and both kinds of hang-up
are actions of their own. `open` is the set of connections the pool has lent out, `stats` the outcome
counters, `latched` the run-time switch of the cache TTL. Histories: `recorded`, `executed` (the upstream's
work on a request), `rejected`, `broken`.

`Exchange` is the abstract promise: accepted, perhaps answered, settled once; charged when it settles, at
most once, and never for an error of the proxy. `PhaseOf` maps the places to its four phases.

Properties: `RecordedOnce`, `NoConnectionLeaks`, `OutcomesAccounted` (no stream counts both as complete and as
failed; none vanishes from the counters, except through an exception that no handler names), `BetaDiesOut` (a
refused beta is switched off for good), `Implements`, and the liveness properties `NeverStuck` and `Settles`.
`ReplaysBounded` and `LatchLearns` are proved and not run; the latter is about refusals that the proxy reads, which
it does while the 1h TTL is in use: those that come after the switch are relayed unread.

With `DEV_ECHO_MODE` (read at start, so a constant of the run that `Init` chooses) a request is answered by
the proxy itself and goes through `delaying`, `framing` and `deserted` instead; the ledger is charged all the
same, also when the client hangs up between two frames.

Simplified: the pool is HTTP/1.1: a connection serves one request, and httpcore completes `aclose()` also when
it is cancelled. `beta` says that the saver added the beta (a client may send it on its own account, which the
latch does not concern); `CACHE_FORCE_TTL` is at its default. A hang-up is noticed only where the generator is
suspended, after the stream has begun (Starlette cancels the task then; before, nothing in the handler looks). A
400 may or may not name the beta, whatever it is about. An upstream that lost a connection may have done the
work or not.

### 2.3 QuotaLedger: recording, eviction, months, the file

State: `stats` is `quota_stats` with its breakdowns as functions on finite domains, `disk` the file of the
same shape, `due` that `QUOTA_PERSIST_INTERVAL` has passed. `Record` is `_record_usage` from the monthly
check to the debounced save, composed of one operator per called function, in the code's order: `AddSession`,
`_record_day_session`, `AddDay`, `record_account_usage` with `_bucket`'s self-evicting newcomer, `AddDayUser`
with the eviction that only a labelled response performs. `Headers` is `_record_rate_limits` for an unknown
account; `Shutdown` is the forced save, after which the process is `closing` and streams that are collected at
its last awaits still `Record`, until `Exit`; `Crash`, `Start` (load and monthly check, or nothing, when the
file cannot be read or tracking is off), `Switch` (`QUOTA_TRACKING`, which gates the load, every save and every
recording), `IntervalPasses` and `Midnight` are the rest. The reset saves *before* it stamps the new month
(`ResetFile`), so the file then names the old one. Three histories say what may be missing: `saved` (nothing was
recorded since the last save, and an orderly shutdown that can write is one), `loaded` (the process has read the
file or replaced it) and `lossy`, which is set where a process ends unsaved or starts without the file.

Properties: `BreakdownsAddUp` (in memory and on disk), `TotalIsThisMonth` (nothing of another month, and all of
this one's unless `lossy`), `FileNeverAhead`, `LeftoversAreOld` (a date that was evicted from `by_day` only,
because an unlabelled response evicted it, is older than all that are kept).

Simplified: of a response only its cost is kept, the token counters move with it; `last_seen` is the number
of the response (the code orders equal seconds by insertion, the number does the same); rate-limit snapshots
and unpriced models are left out; `QUOTA_MONTHLY_RESET` is on; a file is read whole or not at all.

### 2.4 LokiShipper

Entries are numbered; the buffer is popped at the front and appended to at the end, so it is the interval
`head..tail-1`. `StartFlush`, `PushAccepted`, `PushFails` split `_loki_flush_once` at its await; `Enqueue` runs
in between. `Shutdown` cancels the task, in a push or not; the final flushes are the same actions, counted
down by `flushes`. A push that fails may have arrived.

Properties: `LossesCounted`, `DeliveredInOrder`, and under fairness `Drains` and `ShutdownEnds`.

### 2.5 ProxyKeys

The store, the digest index `by_hash`, and the file. Actions are the functions of `proxy_keys.py`, each with
its forced save, which may fail: `save_keys` only logs that, and the console confirms the edit all the same. An
update may or may not bring a new lifetime (`Redated`). `RejectedUpdate` is the path on which `update_key` has applied
`enabled` before it raises. `Admit` is a request whose secret is found; it also carries the debounced save.
`Start(FALSE)` is a start with a file that cannot be read. Two histories follow the failed writes key by key:
`unsaved` has the keys whose last edit no write of this process has followed, `lost` those whose process ended
like that.

Properties: `KeysExact`; `DeletionHolds` and `AdmissionJustified`, whose one exception is the keys in `lost`: a
key whose deletion was confirmed, but written by nobody before the process ended, is back with the file.
(`routes/keys.py:159` and `README.md:733` say that a destroyed key gets a 403 from the next request on.)

Simplified: a key, its id and its secret are one value; labels, notes and use counts are left out.

### 2.6 Console: one `.env` for settings, identity, secret and logins

`EnvFile` is `save_to_env`: a rewrite in place, so a save that fails, or a process that dies in it, leaves the
file as it was or empty. A series of saves can stop before any of its members. `lost` is the set of keys
whose value in memory the file does not have because of that.

`Configuration` is `_config_apply`: each accepted change saved, then made live if its scope is `live`, then the
jitter bounds put in order. `ApplyBatch`, `BatchFails` (OSError, which the route does not catch), `BatchRaises`
and `BatchCrashes` are its four ends. `BatchRaises` is a value that overflows: `int()` of an infinite number, or
`float()` of an integer beyond all floats, raises OverflowError, which nothing catches either, so what came
before is saved and live and what comes after, the normalisation of the bounds included, is skipped. One setting
stands for each kind of type, scope and limits; the jitter bounds are themselves. A NaN passes the limits of a
float, as it does in the code.

`Identity` is `capture_identity_from_request`: `Capture`, `CaptureFails`, `CaptureCrashes`; a header is in memory
before it is saved, the date after. The value of a header is the device that sent it, so that the identity of
one device can be told from a mixture. A client may send fewer headers than the one before: a refresh then
leaves the old device's header in `.env`, and the next start reads both. `torn` says that this, or a failed
save, has happened, and where; `cleared` has the headers a refresh has dropped from memory alone.

`AdminLogin` has the lockout of one address. `BeginLogin` is the check, after which the body is awaited;
`WrongToken` and `RightToken` are the rest of the handler. Cookies carry the secret they were signed with.

`Console` adds `Start` (imports read the file; a secret the file lacks is generated, and saved if it can be),
`Stop`, and who may apply a batch: a browser with a cookie that verifies.

Properties: `RestartChangesNothing` (of keys outside `lost`, what a start would read is what the process works
with; and the other way round the file has no header the process has not, but those in `cleared`),
`JitterUsable` (`random.randint` never gets an empty range, over batches in any order and restarts, unless the
operator's file had it so, a batch was cut short between the bounds, or a save lost one), `IdentityWhole` (one
device, with a date), `GuessesBounded` (attempts that overlap at the await overrun `ADMIN_MAX_FAILED`, and runs
of failures on both sides of a span add up, but no further than the formula says).

Simplified: values survive `.env` as they are (a string setting with a ` #` or a backslash would not),
and no string setting is modelled, so neither are the characters that make a save of one raise; one
client address logs in; `CAPTURED_` values are never edited by hand while the process runs; the await of
the body in `config_apply` is left out, it can only let a cookie expire after the check.

### 2.7 Lifespan: alerts, coach and prices

`Alerts`: `_sent` is the bounded dictionary in insertion order, so a stall that is re-stamped keeps its place.
`notify` stamps, queues a task; `Sent` is the end of a task, delivered or not, which the code does not tell
apart; `BeginDrain`, `Drained`, `DrainTimesOut` and `AbandonTasks` are the shutdown's wait and the end of the
event loop. `Coach` has the totals, the weeks and users with their two kinds of eviction, the marks, the file
with debounced and forced saves, and the live switch `COACH_ENABLED`; the history `excused` says why the file may
lack something, `opened` which marks were taken back. `Pricing` has the dated table, the rates of
the day they were last rebuilt for, the document at the URL, its refreshes split at their await, and the cache
file; a response's key is looked up *before* the rates are brought up to date, as in `_record_usage`.

`Lifespan` calls them: `EndTurn` charges a response, may raise an alert, and counts it; `Stop`, `Wait`, `SaveAll`,
`Exit` are the awaits of the shutdown, at each of which a generator whose client is gone may still be
collected and end its turn.

Properties: `AlertsExplained` (a repeat before its time means that the map had to forget, and after how many
other keys; an alert is lost only if it came after the drain began or outlasted it), `PricesRight` (the charged
price is that of the newest document any refresh brought, except for the three listed reasons),
`HistoryKept` (`FileKeeps`: no write makes the file forget or lessen a week, a user or a mark, except the
weeks before the first one kept, users of at most one turn when the map is full, and marks taken back or displaced
by `MAX_REC_MARKS` others, unless the process had not loaded the file; `StoppedSaved`: an orderly stop leaves in it
all the process has, unless the coach was disabled, the write failed, or a turn ended after the last save).

Simplified: a price is one number for the five tiers, and a response costs it; overrides of prices from the
environment are left out; among users with equally few turns any may be evicted, the code takes the first
inserted; alert texts and payloads are left out; the counters of a bucket are turns and results.

### 2.8 RequestPath: what is decided about one request

`Access` is the middleware's decision: `resolve_client_ip`, the key, the label, the gates in their order, and
`Verdict`, which puts them together. A request has X-Forwarded-For in any number of lines; the middleware's loop
breaks at the first, which is all that is read (`Forwarded`). Its path may be `//v1`, which no cap is looked at
for. `TokenSaver` has a body as the marks it may carry and the lengths of its tool results:
`_apply_cache_breakpoints`, `_truncate_tool_results`, `force_short_ttl`, and the counters. `Marks` says what is
at which place of a body (a tool, a block of the system prompt, a block of a message or a text in it), and a
body is processed in the order of its places (`Earlier`). `UsageTap` has a response as lines with lengths and
events; `feed(n)` takes the next n bytes wherever that cuts. `CacheTtl` has the last turns in the dictionary's
order, by session and *normalised* model (`_normalize_model_key`, by the table of prices in use, so that models
without a price share a key and a refresh may change one), and the counts that go with the quota file: cleared
by the monthly reset, saved, and read back by `Restart`, while the last turns outlive the reset and not the
restart. `RequestPath` runs them in the order of `proxy()`, one request at a time.

Properties: `VerdictsStand` (entries a caller puts in front of those of the header's first line, further lines, or a
label beside a key, change neither the answer nor who is charged; it presumes that the trusted proxy writes what it
saw into the first line), `BodiesStayValid` (breakpoints within the limit and in the order the API
demands, the beta wherever it is needed, recent messages whole, savings counted right where a cut saves
anything), `TapReads` (against a reading of the events that is not incremental), `PausesRight` (against the
history of the process's turns, and what it had loaded or a reset left).

Simplified: X-Forwarded-For has whole entries; good keys and users over their cap are sets; the
length of the note in a cut text is an operator of the number in it, of which it is assumed that a number one
greater makes it no more than a character longer (`NoteGrows`); a body is well-formed; the lengths to keep and
to cut at are not negative; paths other than
`v1/messages` are not tapped or rewritten in the code, and not here; amounts of money in `cache_ttl.py` are
left out; so are the rest of the quota file, a file that cannot be read (both in `QuotaLedger`), and the forced save
that follows an admin's reset of a bucket, which writes what a debounced save may write as well.

## 3. The runs

| Run | Asks | Bounds, and why they are enough |
|---|---|---|
| `user_cap` | the cap properties | 2 users (an explicit cap of 2, and the default), 2 overlapping requests of cost 0 to 2, each of a path that is checked or one that is not, 4 arrivals, 2 periods, 1 settings change. Overshoot needs 2 in flight; a rollover between check and charge needs 2 periods; a fourth arrival comes after a 429. |
| `stream_proxy` | safety of the handler, refinement | 2 requests on 1 connection, so one waits for the other; 1 retry; 1 chunk; 1 toggle of the cache TTL. Every place is reached and every outcome twice. |
| `stream_proxy_live` | liveness of the handler | same, no toggle, no symmetry |
| `stream_proxy_replay` | the comment on the retry loop | same: **violated** |
| `quota_ledger` | the ledger | one more session, day and account than is kept; months of 2 days over 3 days; 3 responses; 1 crash or shutdown; any number of switches of tracking. Eviction needs 2 responses, a crash after it and a response after the restart a third; a day is evicted on the third, which is in the second month. |
| `quota_account_cap` | README:415, every account gets its spend | 2 accounts kept, 3 seen: **violated** |
| `loki_shipper` | safety and liveness of the shipper | buffer of 3, batches of 2, 7 entries: the buffer overflows during a push, twice |
| `loki_shipper_race` | state.py:104, no lock needed | same: **violated** |
| `proxy_keys` | the keys | 2 keys, lifetimes of 0 and 1 day, 3 days, 4 edits, 2 restarts; each write may fail. A deletion undone needs a creation, a deletion and a restart. |
| `console` | settings, identity, secret, logins | 4 initial files (none, a whole identity, one without a date, one with its jitter bounds out of order), 8 batches (each jitter bound alone, both, refused, locked and NaN values, values that overflow after a bound was set or before), 2 devices, 2 overlapping logins; 4 budgets, from 3 batches with 2 starts to 7 wrong guesses over 4 ticks with a lockout of 2. A mixed identity needs a refresh and a restart, two captures a day apart. |
| `lifespan` | alerts, coach, prices | 7 budgets, one per question: 5 alerts of 3 keys in a map of 2; turns that end at each await of a shutdown; 3 turns over 3 weeks with 2 kept, a crash, two switches of the coach; 3 users with 2 kept over 4 turns; 4 marks of 3 recommendations with 2 kept; 3 refreshes by 2 fetchers of 3 documents, one of them invalid, over 2 or 3 days and a restart. |
| `request_path` | gates, bodies, responses, pauses | 6 inputs, one per question: every request with no header line, one of up to 2 entries of 3 addresses, or two lines, against every header with a line of up to 3, in all 16 settings of the gates; every body with up to 2 tools and 2 system blocks and 7 lists of messages, in 48 settings of the saver; every response of up to 3 lines of 6 kinds cut into chunks of 1 to 5, with a buffer of 8; 5 turns of 3 sessions with 2 pairs kept; 4 turns of 3 models, two of them without a price, under 2 tables; 3 turns over a change of month, a restart and an edit of the two settings |

The larger modules draw a budget, or the inputs of a behaviour, in `Init`: one run can then be long in one
respect and another in another, and what would multiply is kept apart.

`CHECK_DEADLOCK FALSE` is set in every configuration because every bounded run ends: the inputs (arrivals,
requests, entries, edits, days) are used up. `Settles` and `NeverStuck` are what says that a request does not.

### 3.1 Fairness

- StreamProxy: weak fairness of `ServerStep(r)` for each request: the proxy's own steps and its timers (pool
  timeout, read timeout, stall watchdog, retry sleep, and the event loop's hook for abandoned generators).
  Nothing is assumed of the upstream or of a client. `Settles` names what it needs of the client, a step
  when it is its turn, as a hypothesis of the property.
- LokiShipper: weak fairness of the loop's next flush, of the end of a push (`LOKI_TIMEOUT`), and of the end
  of the shutdown. Strong fairness of an accepted push while the proxy runs says that Loki is not down for
  good; the shutdown does not get that assumption, and still ends.

### 3.2 What the violated runs show

Each checks one sentence of the repository and finds a behaviour of the code against it.

1. `ReplayCannotDuplicate`: `ReadError` and `RemoteProtocolError` are raised after the request was written.
   The retry makes the upstream work twice, and the first time is recorded nowhere. `ReplaysBounded` says what
   does hold.
2. `AccountCharged`: at `MAX_ACCOUNTS` the newcomer is the "oldest" and evicts itself; its usage goes to a
   bucket that nobody holds. `BreakdownsAddUp` holds all the same.
3. `FlushRemovesOnlySent`: a full buffer gives up its front during a push, then the flusher deletes by
   count, entries it never sent. `LossesCounted` says why nothing goes missing uncounted: for every entry deleted
   this way one that *was* sent had been counted as dropped.

Other places where the code and what is said of it differ, which the models follow and no run of their own
shows:

- `README.md:745` has `blocked_count` count under the soft limit; the middleware skips the whole branch
  (`Reject` needs `hard`).
- `README.md:450` and `persist.py:199` have the splits of a day go with it; only a labelled response sees to
  that (`LeftoversAreOld` says what holds).
- `alerts.py:27` has a key without a cooldown fire once in the life of the process; the map is bounded
  (`AlertsExplained`).
- `settings.py:46` says that server mode disables auto-capture; `identity.py:60` does not look at the mode
  (`Capture` has no such guard).
- `routes/keys.py:159` and `README.md:733` have a destroyed key refused from the next request on; `save_keys`
  swallows an OSError, so a deletion that could not be written is confirmed and undone by the next start (`lost`
  in `AdmissionJustified`).
- `config_console.py:569` normalises the jitter bounds "rather than let it blow up mid-traffic"; a batch that
  has set one of them and then has `1e999` for a whole number ends in an OverflowError before that
  (`BatchRaises`, `broken` in `JitterUsable`).
- `pricing.py:196` has a scheduled price take effect at local midnight; the day's first response is looked up in
  the table of the day before, so a model whose own price begins that day is charged at a shorter key's, or at
  the fallback rate. The second response is right (`"new key"` in `PricesRight`).
- `access.py:36` judges by the rightmost entry of X-Forwarded-For that is no trusted proxy; of several lines the
  middleware reads the first. Behind a proxy that adds a line of its own, the caller's line comes first
  (`SameCaller`, the hypothesis of `VerdictsStand`).
- `tokens.py:164` returns the characters a text is shorter by; a text a little above `TOOL_RESULT_MAX_BYTES`
  gets a note longer than what is left out of it, and `max(0, ...)` counts 0, not less (`CutPays` in
  `BodiesStayValid`).

## 4. What is proved

All proofs are for every value of the constants that satisfies the named assumptions of the modules: any set of
users, any number of slots, any caps and costs, and any value of the bounds, which are constants like the others.
The assumptions give the constants their types and say what the code guarantees of them; TLC evaluates each on
the instances of section 3.

**UserCapProofs.** `TypeCorrect` is plain induction. `SpendCurrent` needs a strengthening: `SpendInv` adds
`KeysPast` (a bucket names no period still to come, without which a rollover to a "new" period could find
its key already there and keep old spend) and `Announced` (while the settings stand, spend that has
reached the cap has been reported). From the same invariant follow the two action properties,
`BlockedOnlyWithCause` and `BlockedOnlyAnnounced`: a 429 is decided on the fetched bucket, and the lemma
`BucketFetched` says what is in it. `OvershootIsBounded` rests on `LoadBounded`: what is in a bucket *and* what
the checked requests in flight may still add to it, together, stay below the bound. The bound on the bucket
alone is not inductive, as a charge raises it; in the sum a charge only moves from one term to the other, and
an admission, which raises the second term, is possible only below the cap. What an unchecked request adds, it adds to
`free` as well, on the other side.

**StreamProxyProofs.** Every safety property of the handler and the refinement of `Exchange`, for any number
of requests, connections, retries and chunks. `HandlerInv` collects what each request satisfies by itself:
its types; `AttemptsBounded` (what the upstream has worked on a request is paid for by attempts, counted
differently before and after the headers come); `NothingRead` (no usage and no answer before something was
read); `LatchLearns` (a refusal
that was read has set the latch). One table of thirty
cases, one per action, proves it. A second table, `StepMoves`, proves that every action is a `Move` of one
request along `Edges` of the graph of places, and what the move may do to the pool, the charges and the beta.
The theorems about what requests share follow from `Move` and not from the actions: `ConnectionsAreReturned`,
`UsageRecordedOnce`, `BetaOnlyDiesOut`, and `HandlerImplementsExchange`, where a move is a step of `Exchange`
or a stutter. `OutcomesAreAccounted` counts requests at places (`CountAt`); its inequalities are inductive as
they stand.

**LokiShipperProofs.** `LossesAreCounted` and `DeliveryInOrder`. `LossesCounted` is not inductive: it says nothing
of a push in flight, whose success deletes entries by count. `LossBound` does: while a push is in flight, the
entries missing when it started *and* those the front has lost since are within the counter; when it succeeds,
the entries deleted unsent are at most as many as those lost since, which turn out to have been sent. The lemma
`Cover` does the counting: if what is missing now was missing before or lies in an interval of k numbers, at most
k more are missing. `DeliveryInOrder` needs, besides, that a push holds entries that were at the front when it
started (`FlightBehind`) and that nothing is delivered that was not enqueued (`DeliveredPast`).

**ProxyKeysProofs.** All properties of the keys follow from `KeyInv`, which says of the *file* what the
properties say of memory, because a start replaces one by the other: until a mishap both hold exactly the keys
issued and not deleted, with the expiry last confirmed (`Exact`; not with the last `enabled`, which a rejected
update changes unsaved); and always every key a store has is one that is not deleted and has its confirmed
expiry, but for the keys in `lost` and, in the file, those in `unsaved` (`Right`). A start, which makes the file
the memory, is the step that turns `unsaved` into `lost`. The lemma `Saved` splits a forced save into its three
outcomes; the one in which nothing is written although nothing failed needs that a file that does not exist
holds no keys.

**QuotaLedgerProofs.** A start replaces the memory by the file and a save the file by the memory, so the
invariants say the same of both. `TotalRight` rests on `TotalInv`: neither names a month still to come, a total
of this month is at most what was recorded in it (`RightTotal`) and, unless something was lost, equal to it
(`ExactTotal`; of the file only while nothing is unsaved). The order of months is `DivGrows`, the division by
the length of a month; `ResetTotals` says what the reset leaves in memory and in the file it writes, and
`RecordedCharges` that of all the parts of a recording one touches the total. `LeftoversOld` needs `RightDays`,
and its heart is `OldestDayIsOld`: the cap on days evicts a day older than what it keeps and never today, since
there is a least day in every set of them (`LeastDay`, by well-founded descent, without counting) and a set
whose least and greatest member are one has one member. For the file against the memory (`FileBehindMemory`) the
same fact is needed once more: a day evicted from memory while the file still has it would come back with less,
were it today.

The sums of `BreakdownsHold` run over dictionaries: `TotalPut`, `TotalAdd` and `TotalDrop` say what a sum over a
finite set does when a member is put in, changed or dropped. A fold picks its members by `CHOOSE`, so the first thing
proved is that the order does not matter (`AnyKeyFirst`), from a set of least cardinality for which it would.
`LedgerAt` is the strengthening, of memory and file alike: the splits of a kept day add up to no more than the day,
none is left where no day is kept, and none is of today without today's bucket (`TodayCovered`, which needs
`RightDays`). `LedgerTyped` has the caps: a dictionary one over its cap loses its oldest member and is one smaller
(`OldestIsEnough`). `BreakdownsHold` is an upper bound: a breakdown may say less than the total, by what
was evicted and by responses that had no label, session or account, and how much less is not claimed.

**ConsoleProofs.** A batch of settings is saved key by key, and a save can be the last. `SavesInTurn` proves
that the closed form in which Configuration and Identity state this is one `save_to_env` after the other.
`RestartsChangeNothing` follows from `KeptInv`, which has the date also where no identity is in force, as the
next capture may find it so. For the jitter bounds (`JitterInv`) the file must be in order *as the next start
reads it*, with the defaults for what is missing, and each of a batch's four ends has a lemma of its own
(`BatchApplied`, `BatchRaised`, `BatchFailed`, `BatchCrashed`). `IdentityStaysWhole` needs that what is in the
file is whole too, and that an identity that is there but not in force, on top of which a capture would write,
is one already reported as torn (`WholeInv`). `GuessesAreBounded` rests on `GuessInv`: the failures so far are
runs, each no longer than the limit and the attempts under way allow, and a run begins no sooner than a lockout
after the one before it began, so at most two of them touch a span of one lockout.

**LifespanProofs.** The three components share no state, so each has an invariant of its own over its variables,
and an action of one is a stutter of the others. `PricesInv`: table and cache are those of the newest document
unless one of the listed reasons has made them stale, and an older answer got in only by overtaking. `MapInv`
ties the order of the alerts' dictionary to the history: keys behind a key have been queued since, so a key that
was forgotten has as many others queued after it as the map holds. `TasksInv` says that the tasks that are due
are among those a shutdown waits for. `CoachInv` says that memory keeps what the file has, by weeks, users and
marks. Keeping has to be a chain, from one step to the next (`KeepingIsTransitive`), so it is proved in a
stronger form (`KeepsWell`), in which an eviction never leaves the weeks empty, so that what was before the
first one stays there; the users' and the marks' parts are counted (`OthersCounted`, `MarksCounted`), since a
full map evicts one of at most one turn, and a mark goes unasked only where as many others were made as are
kept.

**RequestPathProofs.** Here, too, the parts share no state. `VerdictsCannotBeChosen` is about one operator, but
for lists of any length: `LastUntrustedStays` says that what is put in front of a list does not change its last
untrusted hop; the list is the header's first line, and its hypothesis, that the caller's words come in front
there, is one about the proxy. `PausesAreRight` compares a bounded dictionary with the whole history: `Tracks`
says that an entry is the last turn of its pair, that the pairs behind it in the dictionary are exactly those
with turns since, and that a pair not found has had `_MAX_TRACKED` others since. The counts are those of the
turns since the last reset, beside what was loaded: `PauseAdded` has what one turn adds to them, `UsageRecorded`
a turn with the reset before it, `Restarted` the start, after which no turn is known and the counts are the
file's. `TapReadsWhatFits` is proved for every response and every way to cut it. The invariant `Tapped` has the
buffer hold what follows the last whole line; that the events of the next chunk go on where the last ones
stopped is `BegunIs` and `ReadingGoesOn`, that the incremental `_absorb_event` agrees with a reading that looks
at all events at once is `ReadingStep`, and that an overflow is never the chunking's fault is
`UnfinishedIsPart`. The folds in the model become chains of values (`Chain`), which a least counterexample shows
to be unique.

`BodiesRemainValid` is proved for every well-formed body and all settings. The three rewritings are taken one
after the other (`RaisedFirst`, `CutNext`, `LoweredLast`), each by what it does to the marks at the places of a
body. What the first adds is in a set of at most two places, no larger than what is left of the budget
(`AddedFits`), and no place before the messages keeps five minutes, so an hour after them can only be where the
client had it so (`AppliedOrdered`). That the savings are told right rests on `NoteOf`: the note in a cut text
grows with the number in it, and no faster, so where it pays to cut the shortest text that is cut, it pays to
cut every longer one, and `max(0, ...)` in `_head_tail_truncate` hides nothing; `SumsAdd` adds this up over the
texts. `SaverInv` says that the claims hold, under the settings in force, of the body that waits for its
response.

The assumptions the theorems rest on are those of the modules' `ASSUME`s, which TLC evaluates on every run: the caps
and periods are natural numbers, bodies, responses and settings have the shapes of their types, and `NoteGrows`.

Only model-checked: liveness (`NeverStuck`, `Settles`, `Drains`, `ShutdownEnds`), which is out of the prover's reach.

## 5. What is not modelled, and the plan

Not modelled: the views, the command line, TLS, ACME, the tray, the web pages and the installers (no state
that interleaves); `sanitize.py` (a pure rewrite of one body, pinned down by golden tests); the activity and
coaching reports (derived, read-only); the amounts of money (`cost_of`, `cache_ttl.py`), which are products of
token counts and rates and move with what is modelled.

Planned, in this order:

1. A ledger with `QUOTA_MONTHLY_RESET` switched while it runs, which leaves the month unstamped.
2. The parts of *Settings* and *Upstream client* that are only partly modelled.
