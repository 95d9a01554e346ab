# A TLA+ model of speedtest-go

speedtest-go is a self-hosted network speed test: a Go server that streams and
absorbs bytes, and a page (plain JavaScript) that drives pings, downloads and
uploads, grades the connection and saves results into a SQLite history. This
directory holds TLA+ modules for the parts of it that carry state and can go
wrong, TLC configurations that model-check them, and TLAPS proofs.

Every definition is translated from the code; `PROJECT.json` maps each one to
its source lines. Definitions whose comment begins with "Mutant:" are
deliberately wrong variants of the definition that follows; no specification
uses them. They document which bug each property would catch.

## 1. Inventory

| Component | State | Operations | Talks to |
|---|---|---|---|
| Geolocation handle (`handler.go`) | `geoip`, `geoipClosed`, the `geoipMu` RWMutex, the mmap behind each `Lookup` | `LocateIP`, `geoipEnabled`, `SetGeoIP`, `CloseGeoIP` | request goroutines, updater (OnSwap), shutdown goroutine |
| Geolocation updater (`geoip/updater.go`, `main.go`) | file at TargetPath with its mtime, temporary files, context, ticker | `Run`, `tickSafe`, `tick`, `download`, `extract`, boot and shutdown in `main` | MaxMind over HTTP, the disk, `SetGeoIP` |
| Speed-test endpoints (`handler.go`) | semaphore channel, atomic counters, each request's progress | `DownloadHandler` (by time, by size), `UploadHandler`, `acquire`, `release` | clients, metrics |
| Metrics and health | Prometheus counters and histogram, `/healthz` counters | `recordAdmission`, `ObserveTest`, `ObserveRequest` | endpoints, logging middleware |
| Rate limiter (`ratelimit_handler.go`) | `limiters`, `lastSeen`, a `rate.Limiter` per address | `allow`, `limiterFor`, `gc`, the 429 answer | clients, GC goroutine |
| History store and results API (`store_sqlite.go`, `results_handler.go`) | the table, its schema version, the AUTOINCREMENT sequence | `Open`, `ensureColumn`, `PruneOlderThan`, `Save`, `List`, `Count`, `Close`; POST and GET `/api/results` | handlers, `main`'s shutdown |
| Test run (`static/app.js`) | one run: phase, controllers, streams, ping loop, latency buckets, gauges | `runTest`, `measureDownload`, `measureUpload`, `runPingLoop`, Stop, `collectFinalResult` | server, user, timers, animation frames |
| History panel (`static/history.mjs`) | current page, total, rendered rows and pager, Refresh button | `refresh`, `goToPage`, `setLang`, `computePageWindow` | GET `/api/results`, user, `runTest` |
| Toasts (`static/toast.mjs`) | at most three visible toasts | push, dismiss, action | test run |
| Service worker (`static/sw.js`, `swjsHandler` in `main.go`) | versioned caches, active and installing worker | install, activate, fetch, late `cache.put` | browser, page, upgrades of the binary |
| Configuration (`config.go`) | file, environment, flags, the files on the search path | `LoadWithSources`, `Load` | `main` |
| Server start (`main.go`) | what is running: optional features, slots, timeouts, routes | load, open, listen, exit codes | configuration, all handlers |
| Request decisions (`handler.go`, `results_handler.go`, `geoip.go`, `app.js`) | none | `ClientIP`, `sanitiseResult`, `Locate`, CSV export, paging, download plan, `mergeConfig`, split over streams | handlers, page |
| Formulas, page and texts | none | pure functions, layout | everything |

What is hard about it, and what correctness means there:

* **Handle**: a database is unmapped while a request decodes from it, or a swap
  arrives after the shutdown and leaks its mapping. Correct: no use after
  unmap, no leak, nobody blocked for ever.
* **Updater**: it can fail, panic, be cancelled or lose its process between any
  two steps, and starts over whatever file it finds. Correct: nothing corrupt
  reaches the disk, temporaries and handles are cleaned up, what is served is what
  was opened from disk, the loop goes on.
* **Endpoints**: slots and counters change in separate steps while clients
  stall, disconnect or exceed a cap. Correct: slots conserved, counters exact,
  a timed test ends.
* **Rate limiter**: the bucket pointer outlives the lock; buckets are evicted
  and recreated. Correct: the rate holds in every window, Retry-After is
  honest.
* **Store**: crashes, prunes at boot, schema migration, a page and its total in
  two statements, a drain that may time out. Correct: acknowledged results
  stay, ids are unique for ever, a paging client misses nothing.
* **Test run**: Stop, deadlines, answers and failures of parallel streams in
  any order. Correct: nothing outlives its run, samples land in the right
  bucket, every end is accounted for.
* **Panel**: overlapping refreshes answered out of order while the table
  shrinks. Correct: the current page exists, the pager is right, a refresh of
  its own shows the current page.
* **Service worker**: upgrades, outages and failed installs between the visits
  of a user; puts of a worker that has been replaced. Correct: the active worker
  holds a whole shell, and returning users end up on the running version.
* **Configuration and start**: fifteen fields in three layers over the defaults,
  each checked by its own copy of the test; durations that overflow. Correct:
  the highest acceptable layer decides, and a server that listens is usable.
* **Request decisions**: headers, bodies and queries at the bounds. Correct: what
  is stored is the server's word, and every answer is bounded.

## 2. Modules

| Module | Models | Extended by |
|---|---|---|
| `GeoIPAbs` | what the handle promises, all operations atomic | refined by `GeoIP` |
| `GeoIP` | the handle with its lock, one action per critical step | `MCGeoIP`, `GeoIP_proofs` |
| `Updater` | updater goroutine, disk, `main`'s boot and shutdown | `MCUpdater`, `Updater_proofs` |
| `SpeedTest` | both endpoints, semaphore, counters and metrics | `MCSpeedTest`, `SpeedTest_proofs` |
| `RateLimiter` | `allow`, `gc` and an integer `rate.Limiter` | `MCRateLimiter`, `RateLimiter_proofs` |
| `ResultStore` | table, process life cycle, POST and paged GET | `MCResultStore`, `ResultStore_proofs` |
| `TestRun` | the browser's run | `MCTestRun`, `Browser_proofs` |
| `HistoryPanel` | the history panel | `MCHistoryPanel`, `Browser_proofs` |
| `Config` | layers, search path, both loaders, and their reference | `Requests` |
| `Requests` | what handlers and page compute from one request | `Server` |
| `Server` | operator, `main`'s start, requests to what then runs; composes `Config` and `Requests` | `MCServer`, `Server_proofs` |
| `ServiceWorker` | worker, caches, page, upgrades and outages | `MCServiceWorker`, `Browser_proofs` |
| `Sums` | facts about least numbers and sums over finite sets; no code | `SpeedTest_proofs`, `Server_proofs`, `ResultStore_proofs`, `Browser_proofs` |

`ServiceWorker` and `HistoryPanel` prefix the names every specification has
(`WorkerInit`, `PanelNext`, ...), so that one module of proofs can extend the three
components of the browser.

**GeoIP.** `muWriter`, `muReaders` and `muWaiting` are Go's `sync.RWMutex`: a
writer that asks is announced, later readers queue behind it and are all
admitted when it leaves. `rpc`, `upc` and `cpc` are the program counters of the
requests, the updater and the shutdown goroutine. `handle` is what the
operating system knows of each mapping. `Abs` maps this state to `GeoIPAbs`: an
old handle counts as unmapped from the moment it is replaced, and `CloseGeoIP`
takes effect when it raises its flag.

**Updater.** A bundle is its Last-Modified date and whether it is intact.
`tick`, `response`, `copyBody`, `extract`, `verify`, `rename`, `swap` are the
steps between which the process can die; every error path is a disjunct that
ends in `Return`, which runs the deferred removals. The host starts with no file, a
database, or a file that is none; `openAtBoot` is `geoip.Open` of an explicit path,
which may also fail on a good file (a fault), and `unread` is history: this process
started over a file it could not read, and nothing was swapped in since. MaxMind compares dates
(external, modelled from the use made of it). `SetGeoIP` and `CloseGeoIP` are
atomic here, which `ImplementsAtomicHandle` of `GeoIP` justifies.

**SpeedTest.** A request is timed, sized or an upload; bytes are counted in
units of which `Chunk` fill a buffer. `acquire` is split as the code is: the
channel, then the handler's counter (`countAdmission`), then the registry's
(`recordAdmission`). `ServerStep` is what the server does by itself,
`ClientStep` what needs the peer. `cut` is history: a Write of the download failed.

**RateLimiter.** `rate.Limiter` uses floating-point tokens; here a token is
`Period` ticks of refill, so `advance`, `ReserveN` and `CancelAt` are exact
integer arithmetic over the library's rules (external). `allow` is four steps:
read the clock, `limiterFor` under the mutex, reserve, cancel. `owed` and
`promise` are history: the largest excess of admissions over refill in a window
that ends now, and when Retry-After told a client to come back. A promise is
recorded when a denied request is the only one its client has in flight: with
three overlapping rejections, cancelled in another order than they were reserved,
the wait the last one was told can be too short.

**ResultStore.** Each SQL statement is atomic (one connection in the pool). The
table may hold rows of an earlier process (`Found`), of the first date; `Clamped`
is what `listResults` makes of an offset above `maxListOffset`. The reader pages with an offset until the total is covered, as the panel and a
script would; `start` and `seen` remember what was there and what it got.

**TestRun.** An action is one browser task with the microtasks that follow it,
so an abort and the `catch` and `finally` blocks it leads to are one step.
Latency samples are kept as the set of circumstances in which they were taken:
`"quiet"`, or `"busy"` when a transfer overlapped the ping.

**HistoryPanel.** A call of `refresh` is a slot that is sent, served and
delivered, or fails; two slots give every overlap and order of two calls.
`overlapped` is history: whether the last call to finish met another one.

**Config, Requests, Server.** A layer is a function from the fields set there
to their values. `applyJSON`, `overlayEnv` and `applyCLI` each have their own ranges
and their own test of every field, as in the code; `Resolved` is written without them,
from the order of precedence and one statement of what is acceptable. Durations are `int64` with wrap-around. In
`Server` the operator edits layers and files, `Configure` and `Serve` are the
two halves of `main`'s start with their exit codes, and one request is then
served. An address is a written form with its canonical one. The two texts that are
truncated are sequences of bytes, because they are cut at a byte and a character may
have several; all other texts are names, of which `Formulas` are those (or the first
bytes) a spreadsheet would run. `activeCfg` is what the page's bootstrap makes of
stored and served settings: `mergeConfig`, the options of the selector, the server's
capacity. A stored value is a number or `NaN`, anything `clampNum` does not take for a
finite one; sizes are in bytes.

**ServiceWorker.** Each binary's script is its version; `caches` is kept in order
of creation because `caches.match` takes the oldest match. `Register`,
`InstallFetch`, `Installed`, `InstallFails` and `Activate` are the life of a new
worker, `FromCache`, `FromNetwork` and `NotAtAll` its fetch handler, and `Put` the
write it does not wait for.

## 3. Runs

Passing runs check safety and liveness together under `FairSpec`,
`WorkerFairSpec` or `PanelFairSpec` (the rate limiter's and the server's have no
liveness). Deadlock checking is off where the bounds, or a finished server, leave
nothing to do.

| Run | Bounds | Checks |
|---|---|---|
| `geoip` | 3 readers, 3 handles | `IInv`, `NoUseAfterUnmap`, `NoHandleLeak`, refinement of `GeoIPAbs`, `EveryoneProceeds` |
| `updater` | dates 0..3, 3 faults, 2 boots, explicit path; no file, a good or a bad one at the start | `IInv`, `ServesWhatIsOnDisk`, `GoodCopySurvives`, `ComesLive`, `RefreshKeepsRunning`, `StopsOnCancel` |
| `updater_restart` | default path | `EventuallyLive` is violated |
| `speedtest` | 2 requests on 1 slot, chunks of 2, cap 3, at most 4 units | `IInv`, `SlotsAccounted`, `CountersAddUp`, `BytesExact`, `SizedDownloadsExact`, `UploadAnswerHonest`, `TimedDownloadsEnd` |
| `ratelimit` | 1 address, 3 goroutines (symmetric), burst 1, 5 ticks, 2 generations, 4 tokens of debt | `LimiterInv` (`TypeOK`, `MapsAgree`, `NoEvictedBucketInUse`, `SeenInv`, `AccountInv`), `WindowBound`, `RetryAfterHonest` |
| `ratelimit_debt` | burst 2, 16 ticks | `DenialCostsNothing` is violated |
| `store` | 2 posters, 1 reader with pages of 1, offsets clamped at 2, 2 rows found and 2 saved, 2 boots, 3 dates, retention 1 | `StoreInv` (`TypeOK`, `IdsAreForever`, `CloseAfterDrain`, `LifeInv`, `IssuedInv`, `ReaderInv`), `AcknowledgedIsKept`, `TotalCoversPage`, `PagesMissNothing`, `ShutdownEnds` |
| `testrun` | 2 streams, 2 blobs, 2 runs | `RunInv` (`TypeOK`, `QuietWhenIdle`, `PhaseInv`, `StreamsInv`, `SamplesInv`), `GradeComparesLoadWithQuiet`, `NoRequestAfterStop`, `StopEndsRun`, `TimedPhasesEnd` |
| `testrun_silent` | 2 streams | `OnlyStopIsSilent` is violated |
| `panel` | 2 calls, 4 pages of 1 row, 2 changes; windows up to 10 pages | `PanelInv` (`TypeOK`, `CurrentPageExists`, `ButtonComesBack`, `ShowsCurrentPage`), `PagerIsComplete`, `RefreshEnds` |
| `server` | 8 groups of fields, 4 edits (1 when requests follow), values at and beyond every bound | `HighestValidLayerWins`, `SafeToServe`, `RowIsTheServersWord`, `AnswersAreBounded` |
| `sw` | 3 versions, 2 outages, 2 precached files and 1 other | `ShellInv`, `ShellCatchesUp` |

**Why the bounds are enough.** `geoip`: three handles give a current one, one
being swapped in and one opened later; three readers give one inside, one
queued and one arriving. `updater`: three dates separate a bundle, its
successor and the moment of extraction; two boots give a restart; three faults
let several steps fail in different ticks, or the first open and then the tick. `speedtest`: one slot and two
requests give contention, refusal and reuse of the slot; the cap is not a
multiple of the chunk, and bodies reach from empty to one beyond the cap. Two
admitted requests at once are beyond this run; the slot, size and upload
theorems cover any number. `ratelimit`: three goroutines
give two overlapping rejections and a third request that meets what they left,
which two cannot; 5 ticks with an idle time of 3 let a bucket be used, go idle, be
evicted and be recreated; `MaxStall` lets a goroutine sleep inside `allow` while
that happens; 4 tokens of debt are more than three requests run up. The rate
limiter's theorems need no bound. One address suffices because addresses share only the
mutex, which every step that uses it takes for its whole duration. `store`: four
rows with pages of one, two of them there before, so that rows are inserted or pruned
while others are unread; the fourth lies behind the last page the clamp allows. `panel`:
pages up to ten show both ellipses together. `server`: four edits reach a value
in each of the three layers together with the file that holds the first; fields
are edited in pairs, since no test reads two of them. `Second`, `IntMax`, `MB` and
`MaxText` are scaled down so that the overflow of a duration, a stream's limit and
a text cut inside a character of two or three bytes all occur. `Stored` gives the
page no setting, one that is no number, one below its range and one above, and sizes
at and one byte above the limit of two streams; the User-Agents include bytes that are
no characters, the geolocation records a name a spreadsheet would run. Requests follow at most one
edit (`RequestEdits`), and one request is served per start, because requests
depend on the settings and meet only in the state the other modules are about.
`sw`: three versions give an upgrade during an install; two outages give a failed
install and an offline visit. Versions only grow.

**Fairness.** `GeoIP`: goroutines run on (weak fairness) and the two `Lock`
calls are strongly fair, which is the starvation mode of `sync.Mutex`. Nothing
says a request or a swap ever arrives. `Updater`: the goroutine is scheduled
and its ticker fires; `stop` is strongly fair because `select` picks at random
among ready cases; faults are finite by `MaxFaults`. `SpeedTest`: the server's
own steps and the clock; never the client. `ResultStore`: `main`'s goroutine
and its 30-second timer; never the clients. `TestRun`: armed timers fire; never
user, server or animation frames. `HistoryPanel`: a request is answered or
fails. `ServiceWorker`: the user returns, a page goes on loading, the network
comes back, and the browser goes on with an update it has begun; never upgrades,
outages or a worker's late puts.

### What the violated properties show

* `updater_restart`. `main.go` 148-149 says the default file "gets picked up on
  the next restart". It is not opened at boot (only an explicit path is), the
  first request carries the file's own mtime, MaxMind answers 304, and nothing
  is served until the next bundle. An explicit path whose file `geoip.Open` rejects
  (`main.go` 125-127) meets the same 304: the bad file is neither served nor replaced
  until MaxMind publishes again. `ComesLive`, of the passing run, therefore asks for a
  bundle newer than the file, and `ServesWhatIsOnDisk` excepts such a start.
* `ratelimit_debt`. `ratelimit_handler.go` 152-153 says a rejected request's
  token is handed back. `CancelAt` gives nothing back when a later reservation
  exists, so of two overlapping rejections one token stays spent.
* `testrun_silent`. `app.js` 700-702 says only the user's Stop propagates. The
  `fetch` at 674 is outside that `try`: a stream without an answer at the
  deadline ends the run without result and without message.

### Seen while modelling, without a run

* `main.go` 231-235 turns the read and write timeouts off because the handler
  bounds the time; `downloadBySize` and `UploadHandler` have no such bound, so a
  stalled peer keeps its slot.
* `docs/api.md` 122, 144 and 332 promise 413 for an upload over the cap; the
  handler answers 200 with `truncated` (its own comment says why).
* `main.go` 182-184 says the store is closed late enough for the final POST;
  after the 30-second timeout it is closed under it.
* `updater.go` 210-212 and 230 send the local extraction time as
  If-Modified-Since: a bundle published between download and extraction is
  answered 304 and skipped.
* `handler.go` 222-224 says no lookup can run beside `CloseGeoIP`; after the
  drain's timeout one can. The lock makes this harmless (`NoUseAfterUnmap`).
* A goroutine descheduled between `time.Now` and `ReserveN` turns the bucket's
  clock back and earns that interval twice. `WindowBound` and
  `RetryAfterHonest` are stated for behaviours without it (`stalled`).
* The same goroutine may set `lastSeen` back to its own, older time
  (`ratelimit_handler.go` 113-132). The entry is then evicted early; that no
  request is left with an evicted bucket needs an idle time of twice the longest
  sleep, which the 15 minutes of the code give with much to spare
  (`RateAssumption`).
* Whether a rejected request gets its token back depends on the order in which
  overlapping rejections are cancelled; of three, the last may be told to wait too
  short a time. Only a request without company is promised anything by its
  Retry-After, which is what `RetryAfterHonest` and its theorem say.
* `app.js` 962-964 says "--" means "not measured". The gauges are written by
  animation frames, so a hidden tab saves the sentinel for a speed that was
  measured; and `resetGauges` leaves a pending frame alone, which may write the
  last speed of one run into the next.
* `history.mjs` 10 says `refresh` reloads the current page; it renders whichever
  answer comes last. Two page clicks answered in the opposite order leave one
  page's rows under the other's number until the next refresh
  (`ShowsCurrentPage` therefore speaks of calls that did not overlap).
* `docs/usage.md` 55: a sized download is split over the streams. `handler.go` 396
  ignores a share above 1 GB, so that every stream then sends the whole configured
  size (8192 MB over 4 streams: 32 GB); one byte above a multiple of 1 GB, the stream
  with the remainder does. `AnswersAreBounded` says exactly what is sent.
* `docs/api.md` 102-104 and 330: `?duration` is said to force time mode, which only the
  absence of `bytes` and `size` and the configured mode do; `?bytes` to have a hard cap
  of 1 GB, but a larger value counts as absent and is answered with the configured
  size, up to 10 GB; `size` to be an alias of `bytes`, but it is in megabytes; a query out
  of range to be answered 400, which only an unknown export format is.
  `AnswersAreBounded` states what `DownloadHandler` and `listResults` do.
* `docs/configuration.md` 384-391: an environment variable out of range is said to be
  clamped to the nearest bound, an invalid one replaced by the default. `overlayEnv`
  ignores both and keeps the value of the layer below, as its own comment says
  (`config.go` 531-536); only `Load`, which the program does not call, clamps, and only above.
  `HighestValidLayerWins` follows the code.
* `results_handler.go` 91: beyond an offset of 1,000,000 the same page is served again,
  with a total that says there is more. A client that pages on misses the rows behind
  it; `PagesMissNothing` excepts exactly those.
* A User-Agent is stored with whatever bytes `net/http` lets through
  (`results_handler.go` 145); only one that arrives as characters is kept as characters.
* `app.js` 147: a stored number of streams that is no number gives four, uncapped by
  the server's `maxConcurrent`; `applyStreamsCap` takes it down before a test starts.
  A page whose `/api/config` request failed works with built-in limits and may open
  more streams than a small server has slots (not in `QueriesAreBounded`).
* `docs/configuration.md` 111, 284, 292 and `config.go` 39 describe an empty
  `SPEEDTEST_DB_PATH` as a way to turn the history off; `overlayEnv` ignores empty
  variables. `Load` does not, and above a range it takes the maximum where
  `LoadWithSources` falls back: hence `LegacySafe`.
* A duration has no upper bound and wraps around beyond an `int64`
  (`config.go` 556); the exemption in `SafeToServe` is exactly that case. Port
  99999 passes the checks and ends in exit code 1. `--version` with a broken
  configuration file exits with 2.
* `geoip.go`'s `isPrivateOrLoopback` covers link-local addresses, `handler.go`'s
  does not, although a comment calls them consistent.
* `sw.js` 46-48 says the first offline reload has everything; `tooltips.mjs`,
  which `app.js` 5 imports, is not among `STATIC_ASSETS` (state "partial").
  `sw.js` 53-56 says later upgrades wait for the normal cycle; `skipWaiting` runs
  in every install, so that a page may mix files of two versions while it loads.
  A late put may bring a swept cache back with a file that is not precached, and
  serve it stale until the next upgrade; the first visit after an upgrade still
  gets the old shell.

## 4. Proofs

For all values of the constants, with TLAPS:

| Module | Theorems | From |
|---|---|---|
| `GeoIP_proofs` | `InductiveInvariant`, `LocateIsSafe`, `ShutdownLeaksNothing`, `HandleIsAtomic` | `NoLookup` is not a handle |
| `Updater_proofs` | `InductiveInvariant`, `DiskStaysGood`, `TicksCleanUp`, `DiskAndServiceAgree` | bounds are naturals; `ExplicitPath` is a Boolean (the last theorem: true) |
| `SpeedTest_proofs` | `InductiveInvariant`, `SlotsConserved`, `CountersAreExact`, `BytesAreExact`, `SizedDownloadsFit`, `UploadsAnswerHonestly` | a finite set of requests, natural bounds, non-empty chunk |
| `RateLimiter_proofs` | `LimiterStaysInOrder`, `RateIsBounded`, `RetryAfterIsKept` | positive burst, period and second; the last two theorems speak of behaviours in which no time passes inside `allow` (`~stalled`); an idle time in which a bucket refills and a sleep inside `allow` passes, and of twice that sleep |
| `ResultStore_proofs` | `StoreStaysInOrder`, `AcknowledgedResultsStay`, `TotalsCoverPages`, `PagingIsComplete` | natural bounds, pages of at least one row; any clamp and any number of rows found |
| `Browser_proofs` | of `TestRun`: `NothingOutlivesTheRun`, `GradeIsFair`, `StopIsFinal` | at least one stream and one blob, natural bounds |
| | of `ServiceWorker`: `ShellIsWhole` | the document is precached, and no file is both precached and late |
| | of `HistoryPanel`: `PanelStaysInOrder`, `PagerSkipsNothing` | pages of at least one row, natural bounds; any set of calls |
| `Server_proofs` | `InductiveInvariant`, `LayersWin`, `ServesSafely`, `TheServersWord`, `QueriesStayBounded`, `AnswersStayBounded` | 360 seconds fit in an `int64`; the default port is a number and the empty string is not; ports that can be listened on are numbers; parsers yield integers for numeric fields; canonical addresses are their own canonical form; the JSON decoder yields whole characters (headers are any bytes); `NaN` is no integer; an apostrophe and a digit are no formulas; a megabyte has at least 32 bytes, one for each stream a test may open |
| `Sums` | lemmas only | none |

Each follows the same argument: `Init => Inv`, one case per action for
`Inv /\ [Next]_vars => Inv'`, and `Inv => Property`, where `Inv` is the module's
inductive invariant. TLC checks it as an invariant of the corresponding run (of
`Server`, the properties it implies).

* **GeoIP.** That a running lookup's mapping is open is not inductive: the step
  that closes a handle must know that no reader is inside. `LockInv` ties the
  lock's bookkeeping to the program counters, `UsingInv` says a running lookup
  uses the published handle, and `CustodyInv` names who owns each open handle.
  Leaks and refinement follow from custody: at rest nobody owns anything, and
  the abstract `mapped` set is the owned handles.
* **Updater.** Whatever file was there at first, what replaces it is good because what reaches `rename` is intact, and
  that is known only because `verify` opened it: `TickInv` ties the bundle, the
  temporary files, the open handle and the served version to the point the tick
  has reached. That disk and service agree is inductive together with it, `unread`
  being raised by a failed open and lowered by a swap.
* **SpeedTest.** `SlotsAccounted` needs the cardinality of the holders to move by
  one, in step with the program counter (`HoldersMove`, `HoldersFinite`);
  `StreamInv` bounds what each kind of request has moved at each point, which
  with `cut` gives the exact Content-Length, and gives the truncation flag. `CountersAddUp` is inductive with
  `IInv`: each action moves one request between the sets that are counted, which
  `CountKept` and `StepBooks` turn into an increment of the right counter.
  `BytesExact` likewise: no action moves a byte of a request that has been observed,
  and the one that observes it adds what it moved (`StepBooksBytes`). What a sum with
  one element more is comes from `Sums`.
* **Sums.** The library defines a sum by a function on subsets that takes a chosen
  element away. That such a function exists, is an integer and does not depend on
  the choice is shown by a subset of least size for which it fails (`LeastSubset`),
  which needs no induction theorem with an operator for parameter.
* **RateLimiter.** `SeenInv` says that a request inside `allow` was seen recently
  enough for `gc` to leave its bucket alone, which is where the idle time is
  needed. The rate is a matter of accounts (`AccountInv`): what a client is owed
  and what its bucket holds never exceed a full bucket together (`ShareOf`), where
  reservations that are about to be cancelled count, each a token apart from the
  next; a new bucket is full only after the old one would be. A promise made to a
  lone request covers the time at which its token is there (`PromiseOf`), and
  nothing that happens later can move that time back.
* **ResultStore.** `IssuedInv` bounds every id by the sequence, which survives prunes
  and crashes; `LifeInv` ties store, process and requests together, so that no
  prune meets a request. For the reader, the rank of a row never decreases under
  inserts, and a prune only takes rows of the highest ranks: hence a row the
  reader has not seen yet ranks at or behind its offset, or beyond what the clamp
  lets it ask for (`ReaderInv`), and a page and its later total fit.
* **TestRun.** `PhaseInv` and `StreamsInv` say what is in flight where `runTest` is
  suspended, so that its `finally` leaves nothing; `SamplesInv` says of the ping in
  flight and of both buckets what they overlapped. `StopIsFinal` uses the
  invariant before and after the step.
* **ServiceWorker.** That the active worker's cache is whole is not inductive: it
  is whole because it was so when the worker was installed, between install and
  activation too, and because late puts, which reach any cache, are never of
  precached files (`WorkerTypeOK` of `puts`). That in turn holds because a page under
  control finds those files in a cache. `LeastNatural` of `Sums` says what
  `caches.match` returns, `PutFacts`, `OpenFacts` and `KeptFacts` what the
  operations on caches leave alone.
* **Server.** `JsonMeans`, `EnvMeans` and `CliMeans` say of each overlay, field by
  field, that it takes what is acceptable and keeps the rest; `LayersResolve` puts them
  together for any three layers. It needs that the layers hold integers
  where numbers belong (`LayersInv`). `CfgInv` keeps the result tied to the layers
  until the server listens and `LiveInv` ties what runs to it, so `SafeToServe`
  becomes arithmetic: a product of seconds that wraps (`Wraps`, `SecondsFit`) and
  a sum that may (`IdleOutlives`). The answers need no more than that nothing
  changes once a request was answered (`AnsweredInv`); `TruncateFits` is about any
  bytes, `TruncateWhole` about any text of whole characters, both for any limit, and
  `WhoseAddress` about any headers. `StreamsBounded` follows a stored value through
  `clampNum` and the selector to the capacity. What the streams of a sized test send
  is a sum of two rates, one of the streams with the remainder and one of the others
  (`TwoRates`, by a least number of streams for which it fails); each share passes the handler's test unchanged because it is at
  least one byte, which is where the size of a megabyte is needed.
* **HistoryPanel.** That an undisturbed refresh shows the current page is not
  inductive: `LoneCall` adds that such a call is alone and asked for the page that
  is still current. `CurrentPageExists` rests on the number of pages growing with
  the total (`PagesGrow`), a fact about division. `WindowComplete` goes through
  the entries of a long pager one position at a time, for any number of pages.

Model-checked only: the liveness properties (`EveryoneProceeds`, `ComesLive`,
`EventuallyLive`, `RefreshKeepsRunning`, `StopsOnCancel`, `TimedDownloadsEnd`, `ShutdownEnds`, `StopEndsRun`,
`TimedPhasesEnd`, `RefreshEnds`, `ShellCatchesUp`), which need fairness and ENABLED and are
outside the prover's reach. Every invariant and every action property of a passing run
is a theorem.

## 5. Not modelled

Decoding of the geolocation database (a call into maxminddb), the floating-point
formulas of `metrics.mjs` and `jitter.mjs`, the Prometheus and JSON formats, page,
styles and texts, security headers, request ids. In modelled components: `Delete`
and `DeleteAll` of the store (no caller outside tests), the limiter's `stop`
(tests only), the queue of toasts beyond the Retry action, `ConfigFilePath` (an
echo for the log) and the text of the usage message. Numbers reach `Config`
parsed: a text that is no number is an absent variable, or a spoilt file or
command line. A stored size of a fraction of a byte is not modelled. The model's crash keeps completed writes: power failures and fsync
are not modelled.

## 6. Plan

1. *Composition* of `TestRun` with `HistoryPanel` and `ResultStore`: a saved
   result appears in the panel.
2. *Toast queue*: three visible toasts, expiry, hover, actions.

## 7. Running

    tlc -workers 2 -config MCGeoIP.cfg MCGeoIP      # any run: its cfg, its MC module
    tlapm GeoIP_proofs.tla                          # proofs
