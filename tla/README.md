# TLA+ models of the WhatsApp personal assistant

A verification project for the TypeScript program in `src/`: TLA+ modules for the
parts whose correctness depends on the order in which things happen, TLC runs over
small instances, and theorems that TLAPS proves for every value of the constants.

All paths below are under `src/packages/`. Everything is translated from the code;
where a comment or a design document says something else, the code wins and the
difference is a finding, or is noted in section 5.

## 1. The system

A web client (React), an API (Express) and a worker (Node, Baileys) share Postgres
and Redis. The worker keeps one WhatsApp socket per paired user, turns incoming
messages into rows and server-sent events, and downloads their media.

```
 web --HTTP--> api --XADD wpa:pair-cmd----------------> worker: command loop
  ^             |  --read/DEL wpa:pair:*, whatsapp_session-->   |  start/stop
  |             |                                            PairMachine
  |  SSE        |                                               |  onSocketReady
  +-------------+<--PUBLISH wpa:evt:<user>--- persist, media    v
                       rows, media_ref <----- consumer loop <- wpa:msg:ingest
```

Every process is single-threaded JavaScript: what runs between two `await`s is
atomic, and everything else interleaves. A step of a model is therefore a handler up
to its next `await`, or the continuation after one. A write that is not awaited lands
in a step of its own; Redis runs the calls of one connection in the order they were
issued, Postgres (a pool) runs them in any order.

### Components

| Component | State | Operations | What is hard about it | What makes it correct |
|---|---|---|---|---|
| Pair state machine (`worker/src/pair/state.ts`, `baileys.ts`) | per user: state, socket, timer; per socket: its life and creds | `start`, `resumePaired`, `stop`, `handleUpdate` (qr, open, close, 515), `handleTimeout`, `reopenSocket` | sockets, timer, QR encoder and an un-awaited reopen call into one entry while commands await | every connection is owned, every flow is timed and ends, listeners are told every change and nothing else |
| Worker wiring (`worker/src/index.ts`) | maps of subscribers, consumers, sockets | callbacks of the machine, boot, shutdown | un-awaited writes of one callback overtaken by the next; wiring that awaits while the machine moves on | the paired socket is read; Redis and Postgres come to say what the machine says |
| Pair command worker (`worker/src/pair/index.ts`) | position in the command stream, active users | read, run, ack; shutdown | group created at `$`; a process that dies between read and effect | a disconnect is final; a paired session survives a restart |
| Session persistence (`pair/authStore.ts`, `snapshot.ts`, `restore.ts`) | creds and keys in Redis, snapshot in Postgres | save, clear, flush, restore | a snapshot of a moving target; a clear that is not awaited | what is restored is the login that is paired |
| Pairing routes (`api/src/routes/pair.ts`) | none of its own | init, status, qr, disconnect | three writes to two stores with nothing around them | status agrees with what the worker does |
| Ingest pipeline (`worker/src/ingest/subscribe.ts`, `consume.ts`, `persist.ts`) | stream, consumer group, pending list, retry counters, dead letters, rows, events | subscribe, read, persist, ack, count a failure, dead-letter, stop | at-least-once delivery, overlapping loops, a failure or crash at any await | acknowledged means stored; one announcement per message; nothing stays pending without a reason |
| Message filter and normaliser (`ingest/filter.ts`, `normalize.ts`) | none | pure functions | three components look at different layers of one message | what somebody sent is seen |
| Media downloader, store, route (`ingest/media.ts`, `mediaStore.ts`, `api/src/routes/media.ts`) | queue and count per user, global count, in-flight set, stopped flag; files | `enqueue`, `#dispatch`, `execJob`, `stop`; `put`; GET | re-entrant dispatch, failures of each await, stop against running jobs | caps, no idle slot, order, nothing after stop, every reference has its file |
| SSE streams (`api/src/routes/events.ts`, `server.ts`) | a Redis counter with expiry, a handler per connection | connect, count, reject, admit, clean-up, restart | count at Redis and stream in the process are apart by two awaits and a crash | never more than the cap; a count nobody stands for goes away |
| Login and refresh tokens (`api/src/auth`, `routes/auth.ts`, `web/src/api/client.ts`, `stores/auth.ts`) | refresh tokens; one cookie per browser | login, rotate, logout, expire | several tabs use one cookie at once, answers late or lost | a browser that is signed in stays so; no token is forgotten; a logout ends the session |
| Lists (`api/src/routes/conversations.ts`, `messages.ts`; `web/src/routes/Chats.tsx`, `components`, `hooks/useEventStream.ts`) | the query cache; the event stream | pages by cursor, events, refetch, load more | rows move while pages load; events are lost while a stream is down | at rest the list shows what the database has |
| Pairing page (`web/src/routes/Pair.tsx`, `components/DisconnectDialog.tsx`) | a view, cached status | init, retry, disconnect, poll | the view is moved by answers that may be of an earlier pairing | the page follows the pairing |

The remaining parts (registration and invitations, the kill route, middleware, crypto,
audit, environment, schema, the UI library, the agent stub) are in `PROJECT.json` with
the reason they are not, or not all, modelled.

## 2. What is modelled

| Module | Models | Runs | Proofs |
|---|---|---|---|
| `PairFlow` | the abstract specification of the pair machine: its states and callbacks | (property of `pair_machine`) | `FlowRefined` |
| `PairMachine` | the pair state machine of one user with its sockets; implements `PairFlow` | `pair_machine` | `PairMachineProofs` |
| `PairIngest` | `PairMachine` composed with the worker's wiring of ingest | `pair_ingest`, `pair_repair` | `PairMachineProofs` |
| `PairCommands` | `PairFlow` composed with the API's routes, the command stream, status writes and restarts | `pair_commands`, `session_restart` | `PairCommandsProofs` |
| `PairSnapshots` | `PairFlow` composed with credentials in Redis, snapshots and restore | `pair_snapshots` | `PairFlowProofs` |
| `PairPage` | `PairFlow` composed with the pairing page and its queries | `pair_page` | `PairFlowProofs` |
| `Ingest` | from the socket's message to row, event and media job, for one user | `ingest` | `IngestProofs` |
| `MessagePath` | `Ingest` with what filter, normaliser, API and page make of a message | `ingest` | `IngestProofs` |
| `MediaDownloader` | the downloader and its jobs, the files and what the route serves | `media` | `MediaDownloaderProofs` |
| `SseStreams` | the cap on streams of one user | `sse` | `SseStreamsProofs` |
| `Sessions` | the refresh tokens of one browser with concurrent calls | `sessions` | `SessionsProofs` |
| `Chats` | a list of the chats page against writes, events and paging | `chats` | `ChatsProofs` |

`MC<Module>` gives a module its small sets, `<run>.cfg` its constants, specification
and properties. `PROJECT.json` maps every definition to the lines it stands for and
lists, per property, a mutant: a definition changed the way a plausible bug would
change the code, under which TLC finds that property violated. The mutants are the
operators commented `Mutant of ...`; no specification uses them.

### PairFlow and PairMachine

The code keeps `machines: Map<userId, SingleMachine>`; no handler touches the entry of
another user, so one user is modelled. `state`, `socket` and `timer` are the fields of
the entry. `conn[s]` is the life of one call of the socket factory: being made
(`starting` for `start()`, `reopening` for the 515 restart, `resuming` for the restore
pass), `connecting`, `open`, `disposing` (between `dispose()` and the close that
`sock.end()` emits), `closed`. `cmd` and `held` say which await of `start()` or
`stop()` the command loop is at; `boot` that the restore pass still runs, before the
loop exists. `qrs` counts QR images being encoded, `out` is the sequence of callbacks
the last step made.

| Action | Code |
|---|---|
| `Resume`, `ResumeOpened`, `ResumeFailed`, `BootDone` | `resumePaired`, called by `restore.ts`; the end of the restore pass |
| `StartDispose`, `StartFresh`, `StartOpened`, `StartFailed` | `start(userId, null)` await by await |
| `StopDispose`, `StopIdle` | `stop` |
| `Qr`, `QrEncoded`, `QrEncodeFailed`, `CredsUpdate`, `Open`, `Close`, `Close515` | the branches of `handleUpdate` and the creds listener |
| `DisposeEnd` | the last `close` of a disposed socket |
| `ReopenOpened`, `ReopenFailed` | `reopenSocket` |
| `Expire`, `ExpireTooLate` | `handleTimeout` |

Worth knowing: `handleUpdate` never checks that the event comes from the entry's
current socket, and the close of a disposed socket goes through it like any other.
That is why a disposed predecessor's late close can fail a fresh flow, and why
`handleTimeout` ends in `error` rather than `expired` once the disposed socket's close
arrives. `start()` with stored credentials has no caller and is left out.

`raced` records that a 515 reopen outlived its flow (its entry was stopped, failed or
replaced while the factory call was pending). Such a reopen may leave an `idle` entry
with a live socket, which may open and become paired (`state.ts:391`, against the
comment at `state.ts:33`); the ownership and announcement properties are stated for
behaviours without it, and `PairFlow` has it as `stray`.

`PairFlow` keeps `state`, `cmd`, `boot` and `out`, and of sockets only whether the flow
has one or waits for one (`armed`). The refinement is
`armed <- socket # NoSocket \/ Having(Opening) # {}` and `stray <- raced`; the other
variables are the same. It says, among others, that a paired user leaves `paired` only
for a command, that an ended flow does not come back without one, and that each change
is told with the callbacks that belong to it. Three modules build on `PairFlow` instead
of on the machine, which keeps them small enough to check.

* `MidPairTimed`: a flow that shows or waits for a QR code has its timer, or a command
  in progress that will set it or end it.
* `NoLeakedSocket`: a live connection is the entry's.
* `PairedSocketAnnounced`: the socket of a paired entry is the one ingest was told of.
* `EndedFlowIsQuiet`: an ended flow has no timer, socket or factory call left.
* `FlowImplemented`: the machine is a `PairFlow`.
* `PairFlowEnds` (liveness): a flow in `generating` or `awaiting_scan` ends.

### PairIngest

EXTENDS `PairMachine`; every step of the machine is followed, in the same step, by what
its callbacks do to the maps of `worker/src/index.ts` (`React`): `onSocketReady` calls
`startIngest`, `onError` calls `stopIngest`. The awaits of `_startIngest` (`UserFound`,
`ConsumerStarted`, `WiringFails`) interleave with the machine. `attached` are the open
sockets with an ingest handler; `wired`, `feed` and `consumer` what
`ingestUnsubscribers`, `socketRegistry` and `ingestConsumers` hold; `wiring` is
`startingIngest`. `Ingest` models the same functions without socket identity, and the
stream behind them.

* `OneFeed`: at most one socket feeds the stream, the one `stopIngest` would detach.
* `PairedIsIngested`: the socket of a paired user is read and its messages consumed, once
  the wiring has settled, with three exceptions, each a history variable: a reopen
  outlived its flow (`raced`), the wiring failed (`failed`), or a paired session was
  ended by a command and nothing has failed since (`left`). The last one is a finding.

### PairCommands

The commands of one user and what becomes known of their effect. `stream` and `group`
are the command stream and its consumer group, `batch` what the loop has read, `active`
whether `activeUsers` has the user. `calls` are the values of the state key on their
way to Redis (in order), `rows` the status updates on their way to Postgres (any
order), `onPaired`'s among them. `key` and `status` are what the
stores hold, `req` the request the API serves and its next write. The worker boots
(`Boot`, `BootBlind`, `Restore`, `Resumed`, `RestoreFails`, `BootEnds`), gets SIGTERM
(`Sigterm`, `LoopEnds`, `StopActive`, `Exit`) and may crash at any moment. Machine steps
are those of `PairFlow`, each with its callbacks (`React`).

Whatever is not awaited in a `try` of its own may fail: a write of the key or the row is
refused and logged (`KeyLost`, `RowLost`; the latter also stands for an `onPaired` that
finds no user), the reply with a batch of commands is lost (`ReadLost`), and a rejected
XACK ends the loop while the process lives (`Acknowledge`, `deaf`).

* `StatusTrue`: the state the API reads is the machine's when nothing is under way,
  whatever failed before. Redis must not have refused the last write of it (`"stale"`:
  nothing writes the state again), nor the API or the loop have lost half of the last
  request (`broken`).
* `PairedRowTrue`: the row of a paired session is `paired` when everything is written,
  unless updates overtook each other or the newest was refused (`overtook`). This is
  what the next boot goes by.
* `DisconnectEnds` (liveness): after a completed disconnect the session ends and stays
  ended, also when the worker dies before, during or after the command and boots again;
  not while the loop is `deaf`.

### PairSnapshots

Credentials are known by the login they belong to (`login`), `creds` is the Redis key,
`blob` the snapshot. `calls` are the worker's Redis calls in order: the `set` of a
save, the two of `clear()`, the `get` of a flush. `saving`, `pairing`, `flushes` are
tasks waiting for Postgres. `SaveCreds`, `RedisRuns`, `PairedFlush`, `Tick`,
`FlushLands` are their continuations; `Restore` hydrates Redis from the snapshot. Each
may fail, which the code logs and leaves at that: `RedisFails`, `SaveFails`,
`PairedFails`, `FlushLost`. Two history variables say what such a failure leaves behind,
each until it is made good: `untimed`, the user is paired and `onPaired` failed before
the timer ran; `spoiled`, the creds in Redis are not those of the entry (deleted by the
un-awaited `clear()` of an earlier failure, replaced by a late save of an earlier login,
or refused) and have not been saved since.

* `SnapshotDue`: a paired session has its snapshot timer, or `onPaired` is about to start
  it (unless `untimed`), and the creds of a scanned login are in Redis or their save is on
  its way (unless `spoiled`), through every overlap of logins, failures, shutdown and
  restore. Each later login starts without either.
* `SnapshotCatchesUp` (liveness): who stays paired, neither `untimed` nor `spoiled`, gets a
  snapshot of the creds of that very login, however flushes and logins overlapped and
  failed.

### PairPage

`ui`, `init`, `stop` and `wait` are the page's own state, `data` and `ask` the status
query (react-query is external: its cache outlives the page for a while). Actions are
the page's buttons, mutations, polls and answers; `deriveUiFromServer` is the function
of that name. The server side serves the three routes from `key` and `sent`; init and
disconnect may fail after any of their writes, so that a failed answer (`"no"`) does not
mean that nothing was done.

* `ViewFits` (of every step): if the last answer the page has is one with a view
  (`HasView`), no other view of the machine is shown (the terms and the countdown of the
  rate limit are the page's own); nobody is asked to pair whom it says is paired; and no
  view of the machine comes up that the answer does not call for, but the one an accepted
  init begins. `uiState` is kept beside the cached status, and an effect reconciles the
  two after every change of either. An answer `none` or `idle` has no view and leaves the
  one there is, "Connected" after a disconnect included: section 5.
* `PageFollows` (liveness): while the page polls, it comes to show the state the pairing
  has, and it does not keep an earlier failure on screen while its own pairing runs,
  unless it has stopped polling on an answer from before that pairing (`stale`).

### Ingest and MessagePath

An entry of the stream is its index. A loop holds `lo..hi`, what is left of the batch
it read; the first entry is at hand, and `at` is the await it is at. `group`, `last` and
`pel` are the consumer group, `retry` the counter keys, `dlq` the dead letters.
`adding` are XADDs issued on the worker's one connection and `ahead` how many of them
are ahead of the XGROUP CREATE. `StartIngest`, `Subscribe`, `GroupReady`, `Unwire` are
`_startIngest` and `stopIngest`; overlapping loops come from `stop()`, which only tells
a loop to end after its batch. `limit` is the dead-letter limit, `RetryExpires` the 24
hours of a retry counter, `ReadLost` a batch that Redis handed out and whose reply was
lost, `unwired` the messages whose row was created when `stopIngest` had taken the
socket that fetches media (`worker/src/index.ts:146-150`).

`MessagePath` gives the messages their shape: a key and layers of keys, one per
envelope. `shouldIngest`, `Innermost`, `BodyKind`, `normalize`, `shapeMessage`,
`MessageBubble` and `MediaBubble` are the functions of those names (`Innermost` is the
recursion of `extractBody`). The run's messages get their `Media` and `Bad` from them.

* `AckedIsSafe`: an acknowledged entry has its row or a dead-letter copy.
* `NotifiedOnce`: a message is announced, and its media enqueued, at most once, also
  when it arrives twice and two loops persist it at the same time.
* `OneHolder`: no entry is worked on by two loops.
* `PendingAccounted`: an entry that is pending and held by no loop failed itself, below
  the limit (`failed`), or its process died or the reply that brought it was lost
  (`dropped`): no failing message takes the rest of its batch along.
* `ContentArrives`: a message with content the normaliser knows passes the filter, is
  shown, and has its row once acknowledged, unless it was given up on. The reference is
  `WithContent`, which looks for a body in the innermost layer, and for a text where the
  text is all the body has: a reaction that was taken back is a dash
  (`MessageBubble.tsx:117`).
* `MediaAgrees`: media is fetched for exactly those messages the page offers to open,
  unless ingest had been stopped when the row was created.
* `EntriesDelivered` (liveness): while a loop is current, every entry is acknowledged or
  accounted for as above, but those that were in the stream before the group
  (`skipped`; `consume.ts:58`).

### MediaDownloader

`order` is the insertion order of the `#queues` map, `queue` and `active` the fields of
a `UserQueue`, `phase[j]` the await `execJob` is at for job `j`. `dispatching` says that
the synchronous loop `#dispatch()` is on the stack: nothing else runs meanwhile, but
each iteration is a step, so the properties are seen between iterations too. `stop()`
is two steps: dropping the queues and taking the snapshot `draining`; and its return.
`Put` is the store's write, `Serves` the answer of `GET /media/:messageId`. A job may
fail at each await, an update also after it was executed (`MayLand`). The rejection of
the publish (`Rejected`) is caught by nobody: unless `stop()` is waiting for the job, it
ends the process (`Gone`).
The supply of jobs is finite (`Jobs`); a job that is refused, skipped, cleared or failed
is distinguished from one that is `ready`.

* `WithinCaps` counts running jobs themselves, not the counters.
* `WorkConserving`: an idle slot means that nobody may use it.
* `QueueExact`, `StopIsFinal`, `StartsInOrder`: see the module.
* `RefMatchesStore`: the route never finds a reference without its file, also when the job
  failed or died after its row was written, and finds the bytes once `media_ready` may
  have been published.
* `QueuedJobEnds` (liveness), with a finite supply of jobs. With an endless one the
  first user in insertion order can starve the others (`#nextJob` always begins at the
  front of the map).

### SseStreams

Requests count themselves with INCR and EXPIRE, compare, and give the slot back with
DECR. The await on the request side and the execution at Redis are separate steps.
`leaked` counts increments that nobody is left to take back (lost replies, failed
DECRs, a restart), `lapsed` that the key expired under a request that was counted in it,
`bare` that a key without an expiry got none, because EXPIRE alone failed
(`events.ts:60-65`).
Assumed of Redis and its client: a command runs at most once.

* `CapHolds`, `CountExact`: until the key lapses under a live stream (an hour without
  any attempt to connect) the cap holds and the counter is exact. The comment at
  `events.ts:8-11` allows for a momentary fourth stream under churn; the model and the
  proof show that this needs the lapse.
* `IdleCountExpires` (liveness): a count left behind goes away once nobody connects,
  unless `lapsed` or `bare`. (With retries it need not: section 5.)

### Sessions

`jar` is the cookie that all tabs share, `row` the refresh tokens of the database,
`call[c]` one request under way with the cookie it carried and the token its answer
brings. `Lookup` and `Rotate` are the two halves of `rotateRefresh` (the lookup is not
in the transaction); `Set`, `Clear`, `Refused`, `Lost` what the browser gets. A
request is never held back for another: `apiFetch` refreshes per call.

* `SessionKept`: a signed-in browser at rest holds a token the server accepts or that
  has run out by age.
* `NoOrphanToken`: an acceptable token is in the cookie or in an answer on its way to it.
* `LogoutEnds`: after an answered logout neither a cookie nor an acceptable token is left.
  One that was refused ended nothing, although the page signs out (section 5).

All three hold unless an answer changed a cookie its request had not carried
(`crossed`) or an answer was lost (`lost`); section 5 says what happens then.

### Chats

One list, of conversations or of messages (`kind`). `time` is what the rows are ordered
by; `Before`, `Cursor`, `AfterCursor` and `Reads` are the `orderBy`, cursor, `where`
and `take` of the two routes. `pages` and `fetch` are the query's cache and its fetch
under way, which reads its pages one after another. `Write`, `Publish`, `NotPublished`
are `persist()`; `Connect`, `Subscribed`, `Broken`, `Event` the event stream.

* `ListCurrent`: at rest, the list shows every row down to its end, once, in order and
  with its present time, unless an announcement was dropped (`dropped`) or a message
  shares the second of the last one of a page (`CutOff`).
* `ListCatchesUp` (liveness): a list that stays in view and of which no announcement is
  missing comes to rest again, loaded and current, although each event throws away the
  reload that the one before it began.

Nothing is assumed of the stream: an attempt may be refused for ever, and an open stream
whose subscribe failed stays deaf.

## 3. The runs

| Run | Bounds | Distinct states | Shows |
|---|---|---|---|
| `pair_machine` | 3 sockets (ids reused), 1 QR encoding | 281,663 | the safety properties of `PairMachine`, the refinement, `PairFlowEnds` |
| `pair_ingest` | 3 sockets (symmetric, ids reused), 1 QR encoding | 831,532 | `OneFeed`, `PairedIsIngested` |
| `pair_repair` | as `pair_ingest` | - | finding: a second pairing is not ingested |
| `pair_commands` | 1 unread command; the machine goes on with at most 1 status update and no Redis call on its way | 632,467 | `StatusTrue`, `PairedRowTrue`, `DisconnectEnds` |
| `session_restart` | as `pair_commands` | - | finding: a graceful restart loses the session |
| `pair_snapshots` | 2 logins; the machine goes on with at most 1 Redis call on its way | 913,479 | `SnapshotDue`, `SnapshotCatchesUp` |
| `pair_page` | 1 command in the stream | 1,286,686 | `ViewFits`, `PageFollows` |
| `ingest` | 2 messages (a photo in two envelopes, one unprocessable), 2 entries, 2 loops, batch of 2, dead-letter limits 1 and 2 | 205,512 | the eight properties of `Ingest` and `MessagePath` |
| `media` | 5 jobs of 3 users, 1 per user, 2 in all, queue of 2 | 537,697 | all seven properties of `MediaDownloader` |
| `sse` | 3 requests, cap 2, expiry after 2 ticks, 2 leaks | 309,533 | `CapHolds`, `CountExact`, `IdleCountExpires` |
| `sessions` | 2 calls (symmetric), 4 tokens | 3,600,926 | all three properties of `Sessions` |
| `chats` | 3 rows, 2 times, pages of 1, 3 writes, 2 events | 865,164 | `ListCurrent`, `ListCatchesUp` |

Why the bounds are enough for the interesting cases:

* Three sockets are the disposed predecessor, the current socket and a pending reopen
  at once; ids are reused, so the number of sockets over time is not bounded.
* In `pair_commands` a read command and an unread one are an init behind a stop or the
  reverse; two status updates are enough for one to overtake the other (a step of the
  machine may issue two more). With one unread command a batch has one, so a rejected
  acknowledgement never takes further commands along in the run; in the proofs it does.
  The number of commands and restarts over time is not bounded.
* Two logins are the one whose late saves, flushes and clears meet the next one.
* In `media`, users 2 and 3 can hold both global slots while user 1 fills his queue and
  overflows it; user 1 alone reaches his own cap below the global one.
* Three requests against a cap of two are two streams and one being rejected; two ticks
  let an attempt renew an expiry that has begun to run.
* Two entries are a batch of two, two batches of one, the same message twice, or a
  good and a bad message in one batch, for one loop or two. With the limit of 1 the first
  failure buries an entry; with 2 it stays below the limit, and since nothing delivers it
  again no higher limit differs. Every body, alone and in
  one or two envelopes with and without plumbing beside it, is in `MCRaws`.
* Two calls are a refresh against a refresh, a login or a logout. The counted tokens
  allow a login, two rotations and another login.
* Three rows on pages of one make a row move across a page boundary, up and down,
  between the reads of two pages; two times make ties.

`media` may stop when the finite supply is used up, `sse` when all ids are streams whose
clients are gone, `pair_page` when the user is away with nothing under way: these
runs, and the violation run `pair_repair`, do not look for deadlock.

### Fairness

* `PairMachine`: weak fairness for the continuation of every await and for the command
  that is in progress; strong fairness for the timer. Every 515 restart may find the
  timer already armed (it is not reset), so it fires within two minutes as long as
  `start` does not re-arm it for ever; `/pair/init` is limited to three per user and
  hour. No command and no socket event is obliged to happen.
* `PairCommands`: issued writes land or fail, a begun request goes on (or fails), a boot
  goes through. The loop and the shutdown are strongly fair, because the bound on what is
  on its way (`MayGo`), which the code does not have, disables them now and then. Nobody
  owes a scan, a command or a crash.
* `PairSnapshots`: issued calls and queries go on or fail, and the timer fires. A flush
  that is tried again and again is not refused every time (strong fairness of its read
  and its write).
* `PairPage`: the page polls, and not all of its polls are lost (strong fairness).
* `MediaDownloader`: downloads, writes and queries settle; the synchronous loop runs on.
* `SseStreams`: Redis answers, time passes; clients owe nothing.
* `Ingest`: the loops run on and Redis answers; nothing arrives or restarts by
  obligation.
* `Chats`: a write that was begun is announced or not, an event on its way arrives, a
  fetch goes on or fails. Nothing of the event stream.
* `Sessions`: none; its properties are invariants.

## 4. The proofs

Each proof module `EXTENDS` its component and TLAPS. The theorems hold for every
value of the constants that satisfies the named assumptions: sets of ids that are
finite or do not contain the null value, limits that are natural numbers, and in
`MessagePath` that a layer is a set of keys of which all but the last have an envelope
to open (`LayerAssumption`: `extractBody` goes on to a further layer only through one; what
lies in an envelope that `wrapperKeys` does not list is no layer), and that the
messages of the pipeline are those the filter lets through, with the media the
normaliser sees (`PathAssumption`).

| Theorem | Establishes |
|---|---|
| `PairTypes`, `TimerKept`, `ConnectionsOwned`, `ReadySocketCurrent`, `EndedQuiet`, `PairedStable` | the type invariant and the safety properties of `PairMachine`, for any number of sockets; `PairedStable`: a paired entry leaves its state only for a command |
| `FlowRefined` | `PairMachine` implements `PairFlow` |
| `WiringTypes`, `FeedsOnce`, `PairedRead` | the types and properties of `PairIngest`, on top of the theorems about the machine |
| `MediaTypes`, `CapsHold`, `NoIdleSlot`, `QueuesExact`, `StopFinal`, `RefsStored`, `InOrder` | the same for `MediaDownloader`, for any users, jobs and limits |
| `StreamTypes`, `CounterExact`, `CapKept` | the same for `SseStreams` |
| `IngestTypes`, `AckedSafe`, `ToldOnce`, `HoldersDisjoint`, `Accounted` | the same for `Ingest`, for any messages, loops, batch size and limit |
| `ContentReaches`, `MediaAsOffered` | the properties of `MessagePath`, for messages in any number of envelopes with any keys beside them |
| `CommandTypes`, `StatusIsTrue`, `PairedRowKept` | the types and the safety properties of `PairCommands`, for any number of commands and of writes on their way |
| `SnapshotTypes`, `SnapshotIsDue` | the types of `PairSnapshots` and `SnapshotDue`, for any number of logins and calls |
| `PageTypes`, `ViewIsFit` | the types of `PairPage` and `ViewFits`, for a command stream of any length |
| `ChatTypes`, `ListIsCurrent` | the types of `Chats` and `ListCurrent`, for any rows, page size and number of writes and events |
| `SessionTypes`, `StaysSignedIn`, `NothingForgotten`, `LogoutIsComplete` | the same for `Sessions`, for any number of concurrent calls |

How they go:

* **PairMachine.** `NoLeakedSocket` is not inductive: whether a connection is the entry's
  depends on what the command in progress holds and on which factory call is pending in
  which state. `PairInv` adds what an awaited command holds (`CommandShape`,
  `HeldShape`), that the restore pass excludes flows (`BootShape`, `BootLiveShape`), that
  a pending factory call is the only one of its kind and belongs to the entry's state
  (`OpeningShape`), and that an ended flow holds nothing (`EndedShape`); the last four
  kinds only as long as no reopen outlived its flow.
* **The refinement.** `FlowStep` shows that each step of the machine from a state in
  `PairInv` is a step of `PairFlow` under the mapping, action by action; `ArmedKept`,
  `ArmedNow` and `Disarmed` say what a step does to the mapped `armed`, `ChangeCalls`
  writes out the callbacks. `FlowRefined` combines it with `PairInvariant`.
* **PairIngest.** `StepCalls` condenses what a step of the machine may call back and what
  it does to the entry when it does; it rests on `PairInv`. With it `WiringInv` is
  inductive: wirings are one at a time and start from nothing (`OneWiring`), and, without
  the exceptions, nothing is wired before the user is paired and only the entry's socket
  afterwards (`Story`).
* **MediaDownloader.** `MediaInv`: the counters are the cardinalities of what they count and
  within the caps (`Counted`), a queue holds queued jobs of its own user, each once
  (`Queued`), what runs after stop is in the snapshot stop waits for (`Stopping`), and the
  ciphertext precedes the row (`Written`), also for an update nobody heard of. The
  arithmetic rests on lemmas that a finite
  set which gains or loses one element gains or loses one in its cardinality.
* **SseStreams.** `CapHolds` is not inductive, because a request whose INCR has run is
  already decided. `Decided` says that the streams, together with the requests that will
  stream when they see their answer, are within the cap; with `CountExact` it is kept by
  INCR, whose answer exceeds the cap when the cap is reached.
* **Ingest.** The invariant `IngestInv` says that a batch is disjoint from everything
  handed out before (`Batches`, `OneHolder`), that held entries are pending
  (`HeldPending`), what is known of the entry at hand at each await (`AtHand`), that at
  most one loop is between creating a message's row and publishing it (`OnePublisher`),
  and that entries beyond the last delivered are untouched (`Fresh`). An entry is
  handed out once, to a loop or to a lost reply, so its failures are counted at most once.
* **Sessions.** `SessionKept` speaks of a browser at rest only. `SessionInv` says where a
  token can be while calls are under way: only an answer brings one, it is valid and
  known to nobody else (`BringsShape`, `BringsAlone`), a spent token was revoked when the
  answer was made (`SpentShape`), and a signed-in browser without a usable cookie has
  the answer under way that settles it (`KeptShape`).

* **MessagePath.** The recursion of `extractBody` is modelled as a choice of the innermost
  layer, which `InnermostIsLast` shows to be the last; `BodyKindOf` says that the kind found
  there is that of a key the layer has (the first of the list exists because the naturals
  are well-founded). `MediaTold` follows a message through the pipeline:
  what is published has had its media enqueued.
* **PairCommands.** `StatusTrue` compares store and machine at rest only. `CommandInv` says
  what is on the way before: the last write issued is the machine's state, or a command is
  pending that will write it anew (`KeyShape`, `PairedShape`, `Pending`); the command being
  awaited is the first of the batch and fits the worker's mode (`WorkerShape`); a
  disconnect that has written its row was carried out or is the last command
  (`StopShape`); and before the command group exists nobody was ever paired
  (`GroupShape`). A refused write and a lost command keep these parts by what `"stale"`,
  `overtook` and `broken` record of them.
* **PairSnapshots.** `Hears` condenses a step of the flow to the three callbacks that matter
  to credentials; `ReactKeeps` is proved once for all of them, and `HeadTaken`, `SavesKept`
  say what Redis and a new call do to those on their way. The timer half (`TimerDue`)
  needs that whatever pairs the user tells so, except during the restore pass
  (`OtherHears`), and that a worker that is down or has just read the snapshot holds
  nothing of the session (`ModeShape`). `LossKeeps` and `RedisFailsKeeps` say that a
  failure either leaves a save on its way or sets `spoiled`.
* **PairPage.** `Tail` of the stream is typed because the command being carried out is its
  oldest (`InHand`). `ViewSteps` shows `ViewFits` step by step from an invariant
  (`ViewInv`: the types, and the view fits the answer there is); `ViewOf` says that
  `deriveUiFromServer` makes of every view it is asked for one that fits the answer.
* **Chats.** `ListCurrent` is about a list at rest, and no single step restores it. `ChatInv`
  follows the pages while they load: unless an announcement was dropped, or a write or an
  event will have them loaded again (`Settled`), the pages read so far are exact down to
  where they end (`Exact`: ordered, apart, and every row covered, cut off or beyond).
  `AppendExact` adds one page to exact pages; it takes the place of an induction over
  the pages.

Only model-checked: all liveness (`PairFlowEnds`, `DisconnectEnds`,
`SnapshotCatchesUp`, `PageFollows`, `EntriesDelivered`, `QueuedJobEnds`,
`IdleCountExpires`, `ListCatchesUp`), which under fairness is beyond the prover. Every
invariant of a run is a theorem. The type invariants of `PairIngest`, `PairSnapshots`,
`PairPage`, `Chats` and others are proved only: no run spends a property on them.

## 5. Findings and observations

Two disagreements between code and documents have a run of their own:

1. `pair_repair`: neither `start()` nor `stop()` leads to `stopIngest`, and `startIngest`
   returns at once for a user whose maps are filled (`worker/src/index.ts:176`). After a
   paired session was disconnected, the next pairing succeeds and none of its messages is
   ingested, against the design document p1b, line 19 ("Re-pair restores access").
2. `session_restart`: the disposer of the pair worker stops the machines of the users who
   paired in this process (`pair/index.ts:147`); the transition to `idle` writes
   `pairing` into the row, and the next boot restores `paired` sessions only. The design
   document p1a, line 18, says "A container restart keeps the session paired". (A
   session that was itself restored is not in `activeUsers` and is kept.)

Further behaviour of the code met while modelling. Each is in the models, most as the
exception a property names, and none has a run of its own:

* A 515 reopen that outlives its flow (`raced`): section 2, `PairMachine`.
* Two status updates of one user may land in either order (`overtook`), and the worker's
  late `pairing` may replace the API's `disconnected`.
* A disconnect that fails between its writes, or whose row is written after the worker
  crashed and restored the session, leaves the session live (`broken`).
* The command group is created at `$`: commands sent before the first boot are dropped.
  So are those of an XREADGROUP whose reply was lost (`pair/index.ts:98-103`).
* The XACK of a command stands outside the `try` (`pair/index.ts:129`): when it is rejected
  the loop has ended (`:135-137`) and no command is carried out until the next boot (`deaf`).
* A status write that Redis or Postgres refuses is logged and not repeated
  (`index.ts:209-226`), so `/pair/status`, or the row that the next boot goes by, stays
  wrong until the machine's next transition. The same holds of an `onPaired` that finds no
  user or no row: there is no snapshot timer then (`untimed`).
* When the query of the restore pass fails, the worker goes on without it
  (`index.ts:335`), while the comment at `restore.ts:74-76` expects the process to die:
  paired users stay offline until the next boot.
* The late save of an earlier login, or the un-awaited `clear()` of an earlier failure
  (`index.ts:271`, `:297`), hits the creds of the next one, and a save that is refused is
  not repeated (`spoiled`). A fresh pair's Signal keys are never in the store
  (`baileys.ts:47-50`).
* After a disconnect the page goes on to show "Connected": the status is then `none` or
  `idle`, and `deriveUiFromServer` keeps the view there is (`Pair.tsx:70-77`), while
  `client.ts:92-96` calls both "no active pairing flow" and p1b, line 19, has `/pair` report
  `disconnected`.
* The page may stop polling on an answer older than its own init (`stale`), and a cached
  status makes `/pair` show "Connected" after a disconnect from the chats.
* Two refreshes with one cookie, or a refresh and a logout: the loser's answer clears the
  winner's cookie, or the session outlives the logout (`crossed`). A lost answer of a
  rotation signs the browser out (`lost`). A logout that is refused (429, 500) is swallowed
  (`stores/auth.ts:69-77`): the page signs out, the cookie and its token live on.
* A client that closes its event stream during the INCR keeps its slot
  (`events.ts:113`, against the comment at `:76-77`); a rejected attempt renews the
  counter's expiry (`events.ts:63`), so a browser that keeps trying keeps itself out
  after a restart of the API (the comment at `:36` calls the expiry belt-and-braces). A
  failed subscribe is only logged (`events.ts:131-135`): the stream stays open and deaf,
  and the browser has no reason to reconnect.
* The consumer loop reads only `>` (`consume.ts:105`): an entry that failed once stays
  pending and never reaches the dead letters unless the limit is 1 (the default is 3),
  against the design document p1b, lines 155-156. The entries of a lost reply stay pending
  for nobody as well (`consume.ts:107-112`).
* The publish of `media_ready` is in no `try` (`media.ts:230`): its rejection is nobody's and
  ends the worker. A row update whose reply is lost leaves the reference in the row,
  against the comment at `media.ts:223` ("message row stays with mediaRef=null"). A message
  whose row is created after `stopIngest` never gets its media (`index.ts:146-150`).
* An event published while the browser is not subscribed, arriving during the first load,
  or whose refetch is cancelled by "load more", leaves a list stale until the next event
  or visit (`dropped`). Messages of the same second across a page boundary are skipped
  (`CutOff`, `messages.ts:151`). `lastMessageAt` moves for duplicates and older messages
  without an event (`persist.ts:60-72`).
* Envelopes `wrapperKeys` does not list, such as a document with a caption, show as the
  dash of an unknown message; a body that cannot be decrypted is `null`, and the bubble
  throws on it (`messages.ts:69-73`, `MessageBubble.tsx:106`).

## 6. Not modelled

* Registration, the first user and invitations: a check and a use apart by one await,
  where a unique constraint decides; nothing else depends on them over time.
* Signal keys, the QR image and its key, `paired_at` and the phone number: carried and
  shown, never decided on. Trimming of the streams (`MAXLEN ~`), `stats()`, logging,
  audit rows, crypto, the file system, the rate limiter's library, layout and the UI
  library.
* The libraries: of Baileys it is assumed that a socket opens at most once, that `close`
  is its last connection event and that `dispose()` may make it emit that `close`; of
  Redis, that a connection runs calls in order; of react-query, what `Chats` and
  `PairPage` say in their headers.
* More than one worker process: the deployment has one.
