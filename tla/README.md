# LiveGuard AI: a TLA+ verification project

The repository holds LiveGuard, a service that watches live streams for the
presence of their host, and the business plans of two products, LiveGuard and
InvestMind, with the Python models their figures come from. In LiveGuard an
edge agent scores every frame, a backend turns the scores into a presence state
per stream, looks for ways of cheating and raises alerts, and a notification
service delivers them. This directory models all of that which decides, keeps
state or can go wrong over several steps.

Contents: 1 inventory, 2 plan, 3 the modules, 4 the runs, 5 what is proved,
6 differences found between code and documents, 7 what is not modelled.

## 1. Inventory

Paths are relative to `src/liveguard` unless they name InvestMind.

| Component | State it keeps | Operations | Modules |
|---|---|---|---|
| Presence state machine, `algo/.../fusion/state_machine.py` | state, offline timer, consensus buffer, clock | `feed(signals, dt)` | `PresenceLadder`, `StreamFSM`, `FusionWeights` |
| Anti-cheat detectors, `algo/.../fusion/cheat_fsm.py` | a timer per pattern, the set of active patterns | `feed`, `reset` | `CheatFSM` |
| Signal pipeline, `algo/.../pipeline.py` and the extractors | galleries of faces and voices, liveness window, frame count | `process` | `SignalPath` |
| Hard example miner, `algo/.../learning/hard_example_miner.py` | samples kept, count of the current minute | `consider`, `consider_event`, `drain` | `HardExampleMiner` |
| Explainer and registry, `fusion/explainer.py`, `runtime` | none | `to_cloudevent`, `explain_event` | `EventTrail` |
| Video sources and command line, `edge/.../source.py`, `cli.py` | the capture, time of the last frame | `frames`, `close`, `run` | `VideoSource` |
| Edge agent and uploader, `edge/.../agent.py`, `uploader.py` | attempts of the current upload | `run`, `upload` with retries | `IngestPath`, `SignalPath` |
| Ingest service, `backend/.../services/ingest_service.py` | machines and last time stamp per stream, in memory | `ingest` | `IngestPath`, `EventTrail` |
| Ingest router, `api/routers/ingest.py`, `db/repositories.py`, `db/session.py` | the streams row, the events table, the WebSocket subscribers | `POST /v1/ingest/signals`, `_Hub` | `IngestRouter` |
| Alert manager and dispatch, `services/alert_manager.py`, `notify_dispatcher.py` | the latest alert per tenant, stream and severity | `on_event`, `dispatch` | `AlertManager` |
| Event bus and cache, `infra/bus.py`, `infra/cache.py` | messages published, handlers; keys with deadlines | `publish`; `get`, `set`, `incr`, `delete` | `EventTrail`, `AlertManager`, `CacheClient` |
| Alert administration, `api/routers/alerts.py` | the alerts table | `ack`, `resolve`, list | `AlertLifecycle`, `AlertViews` |
| Accounts, `services/auth.py`, `security`, routers of tenants, streams, auth | tenants, users, streams, tokens | login, refresh, the creating requests | `Accounts` |
| Schema and migrations, `backend/alembic`, `db/orm.py`, `scripts/seed.py` | tables, version, seeded rows | upgrade, downgrade, `init_db`, seed | `SchemaMigrations` |
| Notification service, `notify/liveguard_notify` | counters, channels | `dispatch`, `dispatch_many`, `Channel.send` | `NotifyChannel` |
| Mobile app, `mobile/src` | what the alerts screen shows | `load` | `AlertViews` |
| Browser extension, `extension/src` | the sample before, the badge, the popup | `tick`, `updateBadge`, listeners | `ExtensionClient` |
| Console, `console` | none that lasts | shows one answer | not modelled |
| Model libraries, `models/python_models` of both products, Makefiles | a JSON file per script, the summary | `run_all`, `make models` | `ModelRunner` |
| The models that go through states of their own | statements, rounds, cash, scores, windows | the loops of the scripts | `FundingPlan`, `Valuation`, `CashRunway`, `ScoreBacktest`, `KellySizing`, `AlertSuppression`, `ReviewCapacity` |
| Plan documents, `bp_build` of both products, `build.ps1` | Markdown, .docx, .pdf | assemble, convert, print | `PlanDocuments` |

How they interact. The agent handles a frame at a time: source, pipeline, then one
upload, which it awaits. The router runs one task per request on one event
loop. It awaits `IngestService.ingest`, which computes `dt` from the time stamp
of the frame, feeds both machines, and publishes what changed on the bus. For every
event the router adds a row to its session and awaits `AlertManager.on_event`,
which may open an alert, publish it and await the dispatcher. Then it reads and updates the
streams row, commits, and broadcasts to the WebSocket subscribers. Everything
up to the read of the row runs without suspension on the in-memory bus that
`main.py` wires as long as no subscriber awaits; with Kafka every publish suspends.
Clients read the alerts table over HTTP. The models and the documents are
batch programs that talk through files.

What is hard, and the properties that answer it:

* *the state machine's own arithmetic*: a buffer trimmed on every frame, a timer
  advanced by the old state and reset by the new one, two thresholds.
  Correct when timer, buffer and state tell one story, alerts come neither
  early nor never, and the stream does not flap;
* *time without a clock*: `dt` is derived from time stamps that may be
  repeated, late or far apart, on the edge as in the backend. Correct when frames in
  order give the exact time and the number of times a frame counts is bounded;
* *evidence that drifts*: the gallery follows the face in view. Correct when the
  host alone never looks like an impostor and a stranger is noticed;
* *overlapping requests*: read, write, commit and broadcast are separate
  steps. Correct when rows and events are written together, the next undisturbed
  request repairs what is stale, no stamp and no account is lost or doubled, and
  the bus tells a stream's life in order;
* *partial failure*: the machine, the cache of alerts, the database and the bus
  are changed one after the other and nothing is undone when a later one fails;
  a model script, a migration or a build fails half way;
* *restarts and kills*: the machines live in memory, SQLite keeps half of a migration;
* *limits*: the miner's quota, deduplication windows, retries, the polls of a
  browser: each is a count that must not restart or run over;
* *figures*: statements that must balance after years of rolling forward,
  scenarios and drivers that must keep their order.

The hazards, each at its line and with the properties aimed at it, are in
`PROJECT.json`.

## 2. Plan

Done, in this order: the core (`PresenceLadder`, `StreamFSM`, `CheatFSM`,
`AlertManager`, `IngestPath`, `IngestRouter`, `AlertLifecycle`, `NotifyChannel`),
then the pipeline joined to both sets of detectors (`SignalPath`), the parts around the
path from frame to push (`FusionWeights`, `HardExampleMiner`, `CacheClient`,
`VideoSource`, `SchemaMigrations`, `Accounts`, `EventTrail`, `AlertViews`, `ExtensionClient`),
composed for TLC in `MCPlatform`, and the batch programs (`ModelRunner`,
`PlanDocuments`, `FundingPlan`, `Valuation`, `AlertSuppression`, `CashRunway`,
`KellySizing`, `ScoreBacktest`, `ReviewCapacity`), composed in `MCBusiness`.

Left, most important first:

1. `StreamClock`, composing `StreamFSM` with the time stamps of `IngestPath`:
   the alerts against the stream's own time, with repeated and late frames and a
   restart in the middle of an absence.
2. The numeric scripts that evaluate one formula (market sizing, unit economics,
   the Monte Carlo valuation), if a property of theirs is worth stating.

## 3. The modules

Integers stand for seconds, scores and money, on a scale named in each module; the
code computes in floats, so rounding at the very edge of a threshold is outside
the models. Definitions named `Mutant...` are faulty variants used to show that
a property can fail; no specification uses them.

### PresenceLadder, StreamFSM, MCStreamFSM, StreamFSMProofs
`PresenceLadder` is what the rest of the system relies on: a stream is on duty or
climbs one rung at a time, the rungs fixed by the time away.

`Feed(score, dt)` of `StreamFSM` is the whole of `feed`: append and trim, advance the timer,
choose the next state, transition. `FeedRejected` is its `ValueError`. The fused
score is an input. The deque of (score, dt) pairs is kept as the *set of its suffix
sums*: for each entry, its `dt`, `span` (time from the entry to now) and `mass` (score over
that time). The average of the buffer and its coverage are then those of the
`Oldest` entry and need no recursion, which is what makes the module provable.
That this is the deque is not assumed: `MCStreamFSM` keeps the deque beside it,
trims it with the code's loop, and checks `BufferIsTheDeque`. Its other history
variables are `since`, the time on duty after a recovery, and `quiet`, the time
since a frame reached the lower threshold. `AnswersInTime` says how long the machine takes;
`PresenceIsAnswered`, that it does so in the end without counting the time. Left out: `_clock_s`,
`_history` beyond its latest entry, the text of events.

### FusionWeights, PlatformProofs
The fused score of a frame: the votes of the signals, halved under the floor, and
renormalised; a score is a fraction of whole numbers.

### CheatFSM, MCCheatFSM, CheatFSMProofs
`Feed(suspect, level, dt)` runs the five `_check` methods: `suspect` is the set of
accumulating patterns whose condition the frame meets, `level` places the two
immediate scores below 0.8 of their threshold, up to it, or over it. `Reset`
takes one pattern or all. Timers are not counted beyond `TimerCap`, which is at
least every window; a timer is only ever compared with its window.

### SignalPath, MCSignalPath, CheatFSMProofs
`Frame` is one call of `process` on the edge and the upload it makes of the result; `Receive`
is one attempt of an upload that reaches the backend: it may come up to `MaxLate` frames
late, up to `MaxRetries + 1` times, or never, and `Step` is what `_compute_dt` charges for it:
0.2 s for a time stamp that is no later than the last one, which it then replaces. Each side has
its `CheatFSM` (by `INSTANCE`). A gallery is kept as each face's distance from being taken for the
host, in frames. `MCSignalPath` adds what an observer in the room would know, and of the
backend which frame is its newest, what the edge's own timer was at that frame, and by how much
repeats have set the backend `ahead` of it: a default step each, and the time by which they set
the last time stamp back, which the next frame is charged again.

### HardExampleMiner, CacheClient, PlatformProofs
The miner by the minute of a frame and the two answers its thresholds give; frames come in
any order, and `visits` counts how often those of each minute began to come. Both caches side
by side, every call made to both, with expiry on reading in one and by the server in the other;
`revived` are the keys counted up after they had expired, where the two part.

### VideoSource, PlatformProofs
Both sources and the end of a run; a frame dropped under the cap on the rate, an
outage, one reopening, a clock that may be set back. `fedTime` is what the machines are fed.

### AlertManager, AlertManagerProofs
One task per event, with its place in `pc`. `OnEvent` is the stretch of
`on_event` that runs without suspension: severity test, look-up, and merge or
open. `PublishAlert` and each `Dispatch` are one publish, at which the task may
be suspended; `PublishFails` is one that raises, possible when `BusMayFail`.
`Clock` lets `datetime.now` read anything in `Times`, backwards too. `Restart` is the backend
going down and coming back: the cache is empty, the tasks at work are `killed`, and nothing
restores either. `bornIn` is the life of the backend that opened an alert.

### IngestPath, IngestProofs
`NextFrame`, `Post`, `Receive`, `Timeout` are the agent and uploader; `net` is a
set, so attempts arrive late, in any order, or never. `Feed` computes `Step`
as `_compute_dt` does and feeds the machine (`log` is what it was fed). The rest
of the handler may still fail, which the uploader sees as a 5xx; `Refuse` is a
request that fails before it. `Restart` empties the in-memory store.

### IngestRouter, MCIngestRouter, IngestProofs
The tasks of overlapping requests for one stream. `Ingest` reaches from the start of the
handler to the read of the row; `Read`, `Commit` and the sends to the subscribers are the
steps between suspensions; `Fail` is an exception of the database. SQLAlchemy writes
the columns that differ from what the session read, hence `Written`. Subscribers come,
hang up, and may stall. `MCIngestRouter` marks the requests that overlapped another.

### MCIngest
Puts `MCSignalPath` and `MCIngestRouter` side by side for one run of TLC: the two look at an
ingested frame from either end and share no state, so one of them lives in a behaviour. Persons, requests and sockets are
interchangeable. (The marker of nothing is `None` in one and `Unset` in the other.)

### EventTrail, PlatformProofs
What a frame leaves behind: records for the table, CloudEvents for the bus, published one
by one with a suspension in their subscribers, and the explanation of each
(`explain_event`, which only the tests call).

### AlertLifecycle, MCAlertLifecycle, AlertLifecycleProofs
Requests to acknowledge or resolve one stored alert, of its own tenant or of another.
`Load` is `session.get` and the change of the session's copy; `Commit` writes what
differs from what was read; `Fail` is an exception of the database. A time stamp is the
name of the request that took it.

### NotifyChannel, MCNotifyChannel, NotifyChannelProofs
The tasks of jobs, each in `Channel.send`, and a batch: `Failed` is the decision of tenacity
after an attempt, `Retry` the end of the backoff. `inFlight` holds the attempts that
may still reach the channel's server; what counts as a success differs by channel
(`Ok`), and so does what reaches the merchant (`Taking`).

### SchemaMigrations, Accounts, AlertViews, ExtensionClient
The statements of both revisions, of `create_all` and the seed, by command, two of
which may run at a time and be killed. Each `create_index` is a statement of its own, after its
table (`CreationOrder`, `TableOf`). `create_all` looks for tables when it begins and makes those that
are missing with their indexes; the index that an existing table lacks it never makes, and the
revision cannot be repeated over a table that exists, so that an index whose command is killed
between the two on SQLite is `lost` until somebody downgrades. `DatabaseIsWhole` says that this
is the only way to lack an index, and that a database with a version has them all.
`EmailFindsOneUser` presumes the unique index of users, which such a database may lack:
`Accounts` begins with a whole one. Login, refresh and creating requests between flush
and commit. The loads of the app's screen. The extension's tabs, the calls of the
browser's API under way and the answers its handlers wait for.

### ModelRunner, PlanDocuments
The scripts in their order with the file each writes, a number abstracted to what it was
computed from: a run that goes on after a failure (LiveGuard, one process) or stops
(InvestMind, a process each), killed or run by hand. The builds of both plans, with the
browser that prints a PDF while the script polls its size.

### FundingPlan, Valuation, CashRunway, KellySizing, ScoreBacktest, AlertSuppression, ReviewCapacity, BusinessProofs
The models with loops and state: rounds, statements, resources and stage gates;
the two-stage value and its tornado; users, revenue lines and cash of three scenarios;
positions of three personas; the one-pass area under the curve, calibration bins and
portfolios; the adaptive suppression window; the search for the least number of
reviewers. Draws of random numbers are choices from small sets. `MCBusiness` lets one of
them live in a behaviour.

## 4. The runs

| Run | Instance | What it shows |
|---|---|---|
| `stream_fsm` | window 5, rungs at 3 and 16, scores 0, 2, 4 around the thresholds 1 and 3, steps 0 (rejected), 1, 2 and 5 | the trimmed buffer stands for the deque; the ladder is implemented; a recovered stream stays on duty for a time (`HysteresisDwell`); silence and return are answered within the window, the limits and two frames (`AnswersInTime`; one step less is the least bound that holds), and in the end (`PresenceIsAnswered`) |
| `stream_fsm_escalation` | window 3 | *violated*: an escalated stream with strong signals for ever stays escalated |
| `cheat_fsm` | windows 2 and 3, steps 0, 1, 2 | active exactly when the window is full, one flag per incident, evidence that lasts is reported |
| `signal_path_impostor` | two persons, a gallery that takes two frames to drift, windows of 2 and 3 | *violated*: a stranger who takes the host's place is reported |
| `alert_manager` | three events, one stream, three severities, clock 0 and 1 with window 1, one restart | P1 alerts of one life of the backend are a window apart, pushes are made once and in order, accepted events reach every channel unless their alert's task raises or dies with the backend |
| `alert_delivery_failing` | two events | *violated*: accepted P0 events are pushed |
| `alert_window` | three events, clock 0 to 4 with window 2 | *violated*: the window holds no P0 event back |
| `ingest_path` | three frames, gaps under, inside and over the clamp, two attempts, one restart | frame fed at most once per attempt, clock exact in order, every upload ends |
| `ingest` | two persons, a gallery that takes two frames to drift, windows of 2 and 3, uploads up to a frame late and up to twice; or three requests, two states, two scores, two subscribers | the host alone is no impostor, the backend confirms the edge's STATIC_PHOTO up to what repeats were charged; events and row stored together, a lone request repairs, nobody who stays is left out of a broadcast that comes to its end |
| `notify_channel` | a batch of three jobs and two more, one for an unknown channel; ding, wework, voice, push; one to three attempts | a job reaches its server at most once per attempt and at least once if ding or wework report it sent, counters and batch answers tell the outcomes, every job ends |
| `platform` | all the parts below, one per behaviour | see the next table |
| `schema_postgres` | PostgreSQL with vector and pg_trgm | *violated*: an upgrade of an empty database reaches head |

`platform` checks the parts that share no state with the path from frame to push. Each
behaviour is the life of one of them, chosen at the start (`part`, and `business` within
it); the others stay as they began. Deadlock is off because the parts stop at their
bounds and the accounts when every token has expired.

| Property | Instance | What it shows |
|---|---|---|
| `StampsAreWarranted`, `StampsAreKept`, `LoneRequestIsObeyed` | three requests of two users | the row explains its state, shows nothing of refused or failed requests, loses no stamp; a lone request is obeyed |
| `LenientScore` | the code's weights in tenths, five levels around the floor | halving weak votes never lowers the score, nor leaves its range |
| `MinuteQuota` | quota 2, three minutes, five frames in any order | no minute yields more than its quota for each time its frames come |
| `MemoryAgreesWithRedis` | two keys, counts to 3, times to 3 | both caches answer alike; of a key counted up after it had expired the memory shows fewer counts than Redis, never an old one |
| `SourceClockIsWall` | cap 2, reopening after 3, wall clock to 16 | what the machines are fed adds up to the wall clock's time between the first frame and the last |
| `DatabaseIsWhole` | both dialects, four commands, two at a time, kills between any two statements | a version promises its tables and indexes, only a kill between a table and its index leaves it without, and the demo rows are whole, where nothing has been dropped half way |
| `EmailFindsOneUser` | two tenants, two addresses, three requests | login never meets two users |
| `BusTellsTheStory` | four frames, two requests at a time, subscribers that raise | the bus tells the stream's life without a gap, stored rows agree with it, and explanations fit |
| `ClientsShowTheTruth` | two alerts, four loads; two tabs, three samples | a load that was served leaves a true screen; the badge shows one state, the last one told |
| `ReportIsOfItsRun` | eight LiveGuard scripts and four of InvestMind with the files they read, two runs, one fault, one edit | what the end of a run says is of that run, as far as the failures it names |
| `DocumentIsOfItsBuild` | both plans, three edits, two builds, a browser that pauses or hangs | a finished build is of the text it began with, and whole |
| `PlanAddsUp` | the planned accounts or half of them, four rounds, three exits | statements balance, shares add up, resources are paid by capital in the first four years, gates agree with the rounds |
| `FiguresAreSound` | windows 120 and 600; four deals, three scores; four loads; the planned accounts or about half | the suppression window is bounded; the area under the curve counts the right pairs; no fewer reviewers would do; every driver of the tornado brackets the base |
| `CautionNeverGainsMore` | arrivals of 50 or 100 percent, 60 months; five chances, five ratios, two opportunities | more careful scenarios and personas never have more |

Why these bounds are enough. A step as long as the window is the longest the
service feeds (it clamps `dt` to 5.0 s, the length of the window), and steps of
1, 2 and 5 give buffers that fill exactly, overshoot, and are replaced by one
frame. The second rung leaves room for a window plus one frame after the first,
or `TimelyReturnIsRecognised` (in `PresenceIsAnswered`) would be vacuous. Three events on one key are one alert, one merge and
one new alert in every order, with differences of the clock under the window and on its edge,
set back too, and a restart before, between or after them. Three frames with two attempts each let a late attempt be
overtaken by two later frames. Three requests are a pair that overlaps and one
that comes alone after it. The batch has a job that succeeds or fails on either
side of one that always raises; two jobs share a channel, and so its counter. In
`SignalPath` every window is longer than the drift of the gallery, as in the code at
more than one frame a second; an upload that comes twice, one overtaken by the next frame's, and
one that never comes combine in every order over windows of two frames. `Sounds` is silence alone
in `ingest`, where no property asks about LOOPED_VIDEO, the one pattern that hears, and of three
kinds in `signal_path_impostor`. Four commands are a half-done upgrade, a start of the
backend, a repetition and a seed. Two runs with one edit and one fault are the least in which a
file of an old run can meet a new one. Four deals with three scores have ties, a deal
clipped to 100, and an empty bin; the draw is 75 percent of the four instead of 60 percent of a
thousand, so that a portfolio of two is chosen among three. `MCRounds` has simplified
shares (1/5, 1/5, 1/5, 1/8, with options of 1/10, 1/20, none, none) because parts are whole
numbers and the denominators of the true ones leave TLC's 32 bits; the rounds' amounts and
years are the code's, and the proof of `PlanHolds` uses the true shares (`PlannedRounds`). A list of more than 100 alerts is not reached.

Fairness. `FairSpec` of `StreamFSM` and of `CheatFSM`'s checking module say that frames keep
coming: these machines only move when fed. `AlertManager` is fair to each task,
because every await on the bus ends, normally or by raising. `IngestPath` is
fair to the agent: its loop runs and httpx times out; nothing is assumed of the
network or the backend. `NotifyChannel` is fair to each task in the same way,
and assumes nothing of the channels' servers. The timeouts of httpx are per connection, read and
write, not for a whole attempt: a server that keeps trickling bytes can hold an attempt longer, for ever if it
never stops, which both modules leave out. The other runs check safety only.

## 5. What is proved

With TLAPS, for every value of the constants that meets the named assumptions: any number of
requests, streams, jobs, frames, commands, deals and rounds. Every safety property of a passing
run is proved.

* `StreamFSMProofs`. `ConfigAssumption` is `FSMConfig.__post_init__`, on integers. `TypeCorrect`,
  `TimerCorrect`: the invariant `TypeOK /\ TimerMatchesState` is inductive,
  because the timer only moves in `Ticking` states and the rung is chosen with
  the moved timer. `BufferMinimal`: `Chained` and `WindowMinimal`; neither is
  needed by the other, both need types. `EscalationIsFinal` assumes
  `StepsWithinWindow`: with `WindowMinimal`, a span is under a window plus one
  step, hence under two windows. `LadderImplemented`: step by step, each
  transition is a ladder action. `BufferStandsForDeque`: the suffix sums of the deque obey a
  recursion that appending and dropping preserve, by induction on its length.
  `RecoveryLasts`: the mass the buffer had when the stream came back, less what later frames can
  have displaced, keeps its average over the lower threshold for the time of the dwell.
  `AnsweredInTime` is the safety half of what the fair runs say without a clock: by `QuietInv`
  the entries as recent as the low scores are all under the lower threshold and reach over that
  time or the window, so that a quiet window is `Absent` whatever preceded it, and the timer
  misses of the quiet time no more than a window and a frame; `SumsReach` gives the average of
  a window of strong frames.
* `CheatFSMProofs`. `ActiveSetIsExact`: with types, inductive on its own. `IncidentsFlaggedOnce`:
  what `MCCheatFSM` remembers of the calls is the active set.
  `HostIsNoImpostor`: the distances of the gallery are tied to who was seen (`GalleryInv`).
  `PhotoConfirmed`: as long as no frame is missing since the last live face, the backend's timer
  is no more than the edge's at the newest frame received, plus `ahead`; after a repeat or a
  frame overtaken, by the time that the next frame will be charged again as well (`PhotoInv`). It
  assumes `DefaultStep <= Dt`: the backend credits its first frame with 0.2 s, the edge's step at
  the default rate of 5 a second.
  `EvidenceCounts`: by the agreement of timers and active set, a frame for a pattern leaves it
  active or its timer nearer to its window (`Missing`).
* `AlertManagerProofs`. `AlertsAreSpaced` and `CacheIsLatest`: spacing is not
  inductive alone, since it needs to know that the alert the code compares with
  is the newest of its key that this life of the backend opened; `RecentIsLatest` says so, and needs in turn `Untouched`, that an event
  not yet handled is no alert. `PushesFollowTheMatrix`: what is pushed of an alert is
  fixed by the place of its task, and only that task pushes for it. `AcceptedAreInHand`: an event
  that alerts belongs, from then on, to an alert of its own key (`HasItsAlert`, which needs
  `RecentIsLatest`), whose task is done, has raised, was killed, or has publishes left (`Turns`).
* `IngestProofs`. `FedOncePerAttempt`: a frame fed, or on its way, accounts for an attempt of its
  own (`CopyPerAttempt`). `ClockIsExactInOrder`: the machine's last time stamp is that of the
  frame fed last (`LastIsFedLast`). `EventAndRowTogether`, with `NewHasNotMoved`: a request that
  was not ingested has moved nothing, so that its failure stores nothing. `LoneRequestRepairs`
  and `NobodyLeftOut` rest on `HealInv`: what a request that met no other has read is the row.
  `UploadsRunDown`: the attempts that tenacity has left fall with every step of a busy agent and
  with no other (`EffortLeft`).
* `AlertLifecycleProofs`. `StateIsExplained`, `OnlyOwnStamps`, `StampsKept`, `StampsWarranted`: a
  commit leaves to the row what its session found already set, so the inductive
  invariant needs `ReadIsOlder`, that what a waiting request read is a past of
  the row and has no stamp of its own. `LoneRequestObeyed`: a request that meets no other finds
  the row at its commit as it read it (`Undisturbed`).
* `NotifyChannelProofs`. `ReachedOncePerAttempt`: an attempt is on its way, has reached the
  server, or came to nothing, one of the three. `OutcomesRecorded`: counters are the
  cardinalities of the jobs by outcome, and only the job after those a batch has answered may
  have started. `JobsRunDown`: the steps left to a job fall with each of its own (`StepsLeft`),
  and one that waits for its turn waits for a job before it that can go on (`BatchMovesOn`).
* `PlatformProofs`, one section for each part that `MCPlatform` lets live.
  - `ScoreIsLenient`, a property of an operator over all weights: the halved votes are split
    into the plain ones and bonuses, which only signals at the floor or above have.
  - `QuotaHolds`: the one count is what the minute at hand has used of its last quota
    (`CountIsOfTheMinute`), so that coming back to a minute spends one more quota at the most.
    `CachesAgree`: entries agree key by key; of a revived key the one in memory stays expired or
    is missing, or goes on behind the server's, which never expires (`Behind`). `SourceClockHolds`: the sum
    starts at the first frame (`SumStartsAtFirst`).
  - `AddressesAreUnique`: a row that was flushed clashes with no committed and no other flushed
    row. `ScreenIsTrue`: alerts only close, so a served answer lies between what was open when
    the load began and now. `BadgeIsTrue`: the queues keep their order, so the newest colour
    under way is that of the last state told, and only its text can come after it.
  - `BusIsTheStory`: a transition is on the bus in the step that moves the machine; what a
    request still has to publish are flags, which do not move a stream.
  - `DatabaseStaysWhole`: every plan of statements keeps to a kind that is harmless wherever it
    is cut (stamp last, drop all, create what is missing), which its rest inherits. For the
    indexes (`IndexInv`) the creating statements of a plan are in the order of creation and, once a table
    is made, the rest holds its indexes next: what lacks an index is then a table whose
    command is at its indexes or was killed there; on PostgreSQL a command is one step and
    nothing is ever lacking. Two commands that create beside each other cannot share a table,
    for the second to come is refused.
  - `PlatformKeeps`: the composition keeps what each part keeps alone, for a step of one leaves
    the others as they began.
* `BusinessProofs`, the same for `MCBusiness`.
  - `StatementsAlwaysBalance`: every flow appears in the roll-forward of two items or with both
    signs. `CapTableStaysWhole`: a round multiplies the sum of the stakes as it does the parts.
    `CapitalIsWhatWasRaised`: the years share out the sum of the rounds closed. `PlanHolds`, for
    the rounds of `data_sources.py`: the number of rounds closed fixes the lead's stake, which is
    worth something at every gate, and the accounts bound what a year spends.
  - `SuppressionStaysBounded`: the density is under a bound that one more delivery restores, and
    `NoneMissed` (a false alert must have been delivered) makes the count of missed alerts
    inductive. `SizingStaysOrdered`: positions are monotonic in factor and cap, thresholds in
    care. `RunwayStaysOrdered`: what a careful scenario has, and the round it still waits for, are
    no more than what the bolder one has. `CarefulGainsNoMore` puts the two together.
  - `RankingHolds`: the deal that the loop takes next has the highest score yet, so the losers it
    has counted are those the deal outranks or equals (`NextDeal`); a portfolio without a winner
    has a share of zero because the mean is a quotient of whole sums (`SumAtLeast`,
    `QuotientAtLeast`).
  - `FewestReviewersAreSettled`: the search starts from the traffic, under which the service level
    is zero, and what it tried since fell short (`TriedInVain`). With four agents to spare 97 in a
    thousand wait a minute at most (`FourToSpareSuffice`, from the recursions of Erlang-B and of the
    exponential), so what is settled lies between the traffic and four more, which
    is what makes the growth sublinear wherever that of the alerts is by that margin.
  - `TornadoBracketsTheBase`: a step of the discounting keeps a margin of two amounts up to the
    rate and adds one by rounding, so ten keep the order of two that differ by 20 after the
    first, and make 1542 of the 6500 that thirteen times the rounding of the EBITDA comes to; the seven
    years' approximation is exact at the rate of the plan and errs to the right side at the
    others (`Shifted`). An order of the rows by their spread exists (`OrdersExist`).
    `FiguresHold` puts the four together.
  - `ReportsAreTrue`: scripts behind the runner have files of this run or are noted as failed,
    those before it have older ones. `DocumentsAreFresh`: past the assembly the Markdown, past the
    browser the PDF, is of the text as it was at the beginning or later.

Assumptions. `BoundsAssumption`, `RouterAssumption`, `ViewsAssumption` and the like say that
the bounds are numbers and the marker of nothing is no value. `ScriptsAssumption`: no script occurs twice
in a list and reads go within a library. `RunwayAssumption`: at most the 60 months of the
plan, whose tables have five years. `PlanAssumption`: shares are fractions up to one, and
the names of the rounds differ. `BacktestAssumption`: scores lie in 0 to 100, nothing loses more
than it cost, a ranking lists every deal once, a draw has a deal, and a portfolio at most a hundred
(12 in the code), so that one winner shows in whole percents. `SublinearAssumption`: the alerts of a
load grow so much slower than its streams that four agents make no difference, as they do in the
four scenarios of the code. `ValuationAssumption`: a plan has an EBITDA of 300 million yuan in the tenth
year (944 in the plan of the code) and cash flows worth 80 million before the exit (390), without which the
rounding to a tenth of 100 million, in what 15 reads, can move the base out of its bracket. `PathAssumption`: windows are positive and levels
in range. Two theorems have hypotheses of their own: `EscalationIsFinal` and `PhotoConfirmed`, as above; and
`PlanHolds` has `AsPlanned` (the rounds of the code, no more accounts than planned, a weighted
enterprise value of ten million yuan or more).

Induction. The library's induction over numbers takes an operator and is out of the provers' reach, so
`BusinessProofs` derives one over sets (`Induction`, from the well-foundedness of `<`), and from
it what is needed of recursive functions (`RecursionExists`: the `CHOOSE` of a recursion finds a
function, which then obeys it), of folds over the plan of a migration
and of `MapThenSumSet` (`SumLinear`: a function multiplied and changed at one element; `SumOfPart`;
`SumAtLeast`).

Types, and the parts of invariants that hold of every constant
(`TimerMatchesState`, `EscalatedIsFinal`, `RecentIsLatest`, `StampsExplainState`), are proved
and no longer checked by a run.

Only model-checked: liveness, which is outside TLAPS's reach like `ENABLED`. What is proved of
each liveness property is the part that fairness does not give, for every value of the constants:

| checked by TLC under fairness | proved | left to fairness |
|---|---|---|
| `PresenceIsAnswered` | `AnsweredInTime` | frames keep coming |
| `LastingEvidenceIsActive` | `EvidenceCounts` | frames keep coming |
| `AcceptedIsPushedUnlessStopped` | `AcceptedAreInHand` | awaits on the bus end |
| `UploadEnds` | `UploadsRunDown` | the agent's loop runs |
| `EveryJobEnds` | `JobsRunDown` | tasks, backoffs and timeouts run |

A measure that falls with the component's own steps, is zero only at the end and rises with nobody
else's leaves nothing but those steps to be taken; the last inference, from the fair steps to the
end, needs `ENABLED` and stays with TLC.

## 6. Differences between code and documents

Each of these five is a run that TLC finds violated, with its quotation in `PROJECT.json`.

1. An escalated stream never recovers (`state_machine.py` 369).
2. An alert is cached before it is pushed, so a failed push silences five minutes
   (`alert_manager.py` 58).
3. P0 alerts are deduplicated like the others (`alert_manager.py` 42), as the module's own
   docstring has it, where the business plan (v3.0 lines 826 and 882) and the study
   `06_dedup_suppression_sim.py` (10, 92) let them all through. `DedupSpacing` therefore speaks of P1 only.
4. A stranger in the host's place becomes the host before the window of IMPERSONATION
   is full (`pipeline.py` 131).
5. On PostgreSQL the second migration cannot be applied (`20260420_0002` 69, 83).

Seen while reading and not given a run.

The running service:
* BRIEF_AWAY is entered on the average of the window and not on a score under 0.35 for
  5 s (`state_machine.py` 347; requirements 103); STATIC_PHOTO takes one window
  (`cheat_fsm.py` 128; requirements 115). Flags clear by the first good frame
  (`cheat_fsm.py` 142), where architecture.md 175 has them wait for a cool-down and an
  operator's review: no property states either, and the models follow the code.
* An upload that the uploader repeats after a lost answer is charged 0.2 s again, and one that is
  overtaken sets the last time stamp back (`ingest_service.py` 167-172), so that the backend may
  report a STATIC_PHOTO of a shorter time than its window; `EdgeConfirmsPhoto` says by how much.
* A kill between a table and its index on SQLite leaves the index missing: no start makes it, and
  the first revision is refused by the table that is there (`20260420_0001` 52).
* A transition whose transaction fails is in no table, and a retry does not repeat it
  (`ingest.py` 46; design.md 509). Cheat events have one id on the bus and another in the table.
* An absent enrolled host is suspected of IMPERSONATION on the edge and of STATIC_PHOTO in
  the backend after 5 s. `require_liveness_for_on_duty` (`pipeline.py` 54) is never
  read, and the verification of speakers is not used (requirements 254).
* An acknowledgement takes an alert out of resolved (`repositories.py` 157; `alert_manager.py` 5).
  Alerts opened by `AlertManager` are never stored in the table that `/v1/alerts` reads;
  only the seed writes it.
* A restart forgets the deduplication windows and what was being pushed; no document says so.
* A stalled subscriber delays the answer of an ingest (`ingest.py` 86), and only
  `WebSocketDisconnect` is caught (107).
* The notification service says it consumes `notify.jobs.v1` (its README, line 4) and
  subscribes to nothing; voice, sms and push are mocks by default; a P0 job makes six
  attempts and no fallback is tried (`notify_dispatcher.py` 55; requirements 140); failures
  never reach `total_failed` (`channels/base.py` 74).
* `explain_event` announces P0 "若 60 秒内仍未恢复" (`explainer.py` 92); `long_to_escalate_s` is 120.
* A duplicate user or tenant is answered 500; `require_role` and `tenant_scoped` have no
  caller; `readyz` says the database is up without asking; the gauge of active streams is always 1.
* `init_db` runs at every start although its docstring (`session.py` 61) leaves production to Alembic; partitions exist
  for 2026-04 and 2026-05 only; `list_versions` sorts versions as strings.
* The extension posts no `ts_ms`, so every post is refused with 422 (`background.js` 17-38);
  LONG_AWAY is reported only of the one sample in which a picture turns dark, since a
  dark picture that stays is BRIEF_AWAY (`content.js` 67-68); its badge has no colour for
  ALERT_ESCALATED, nothing sends LG_ALERT, and `streamId` in the options merges all
  tabs into one stream. The app's and the console's buttons for alerts send nothing, and the
  console's realtime page shows simulated data.

The models and documents:
* The comment on the ARPU says 11,059.6 (`data_sources.py` 94); its terms add up to 11,064.6.
* InvestMind's `make models` runs 08 before 11, whose JSON it reads: a clean tree fails at
  08, any other rests on an earlier run. LiveGuard's runner goes on after a failure, and later
  scripts read the stale JSON without being named in `failed`. `build.ps1` goes on after a
  program that failed; `stable_count` in `render_pdf.py` is never reset.
* `10_financial_projections.py`: the comment puts round C in Y5 (line 62), the data in Y4;
  the titles of its charts do not agree with its own figures. The resources of `17` exceed the
  financing in Y5 while `10` shows cash in every year. The lead's stake is 18 percent in `11`
  and 20 percent in `18`.
* In InvestMind's stress scenario round C falls beyond the horizon and is dropped rather
  than delayed; fewer accounts lengthen the runway, costs being ratios of revenue. The
  calibration bins leave out deals clipped to 100, and portfolios without a winner drop out
  of the ratio of gain to loss.

## 7. What is not modelled

Signals: detection on pixels, pose, embeddings and pulse are numeric; the repository has
deterministic mocks for them, and the modules take their answers as inputs. The registry is a
fixed table, `session.py` of the runtime a wrapper of an inference library.

The console and the other screens of the app show what one request answers and keep no state
that could disagree with it; the console's cache of 5 s is left out, and so are the posts of the
extension, which are always refused.

The rest of the model scripts evaluate a formula once or draw samples and plot them; there
is no state and no order for a property to be about. `Makefile`, `build.ps1` and the `.js`
programs are modelled where the tables above name them.

Not reachable by TLC: real distributions, floating-point rounding, and the sizes of
production (thousands of streams); the properties are stated so that a small instance has the
same cases.
