# shadraw: a TLA+ verification project

shadraw is a self-hosted image generation service: a Go server in front of
PostgreSQL, an image store (local disk or S3) and an OpenAI-compatible image
service. A user's request becomes a row of the table `records`; a pool of
workers inside the server claims rows, calls the image service, stores the
image and writes the outcome back. This project models the parts of the server
in which order, failure and concurrency matter.

## 1. Inventory

| Component | Source (`src/`) | State | Operations | Hard part |
|---|---|---|---|---|
| worker pool | `internal/worker/pool.go` | desired, current, WaitGroup, wake and stop channels | Start/Resize, run, Wake, Stop | two critical sections per exit; Resize racing Stop; lost wake-ups |
| generation records | `internal/record/repo.go` | one row per record | claim, store, fail, retry, publish, delete, sweep | statements by id with no status test; lost replies; crashes in a tick |
| record handlers | `internal/record/handler.go` | requests in flight | Create, Retry, Update, Delete, StreamImage, lists | delete is row, then image, with a path read earlier |
| projects, favourites | `internal/record/project_repo.go`, `repo.go` | two tables and two columns of records | create, rename, delete, assign, favourite | check and write are separate statements; one PATCH is up to six of them |
| lists | `repo.go`, `internal/user/user.go`, both `handler.go` | none of their own | own records, community gallery, admin lists | count and page are two statements; pages by offset while rows move |
| image store | `internal/blob` | files or objects | Put, Get, Delete | temporary file and rename; Put without its row |
| admin configuration | `internal/admin/store.go` | one row, its cache, the API key, the pool size | Load, UpdateUpstream, UpdateWorkerConcurrency, UpdateSiteConfig | row, cache and pool are written in separate critical sections |
| accounts, sessions | `internal/auth/service.go`, `refresh_repo.go`, `internal/user` | users, refresh tokens | Register, Login, Refresh, Logout, ChangePassword, reset, disable | no transactions |
| upstream client | `internal/upstream/openai.go` | one call | Generate, TestConnection | several clocks; event stream; error bodies in several shapes |
| rate limiter | `internal/httpx/ratelimit.go` | counter and reset time per key | allow, gc | window edges; eviction |
| start and shutdown | `cmd/server/main.go` | the process | load, sweep, start; stop, shut down | the order of both |
| blob migration tool | `cmd/migrate-blobs` | the walk and its counters | copy, verify, dry run | runs beside the server, goes on after errors, its exit status is all the operator sees |
| the rest | `internal/{config,crypto,httpx,imagegen,store}`, `migrations` | none of its own | formatting, ciphers, connections | - |

Interactions. `Create` and `Retry` insert or reset a row and then call
`Pool.Wake`; workers find rows by polling the table, a wake-up only shortens
the wait. A worker talks to the table, the upstream client and the image store
in that order. The configuration store hands the worker its credentials
through a snapshot and calls `Pool.Resize`. Boot loads the configuration, puts
`running` rows back to `waiting` and starts the pool. Shutdown calls
`Pool.Stop` *before* the HTTP server stops accepting requests, so requests
still reach a pool that is stopping.

What makes each component correct:

* pool: counters that count, a ceiling on simultaneous ticks, a truthful
  `Stop`, no queued work left alone;
* records: one worker per record, columns that fit the status, images that
  are there when the row says so, no record forgotten, the life cycle that
  clients see;
* projects, favourites and PATCH: a record is in a project of its owner only,
  a favourite is of a shared record that exists, a request of several parts
  does all of them or a prefix and says so, a stranger changes nothing;
* lists: a reader who follows the page numbers misses no row that stayed;
* image store: a path holds a whole image or nothing, through failures,
  crashes and losses of power;
* migration tool: exit status 0 means that the images are in the bucket;
* configuration: row, cache and pool agree whenever nobody is writing; an
  update that leaves a field alone does not undo somebody else's write;
* accounts: a refresh token is used once, a password change ends the sessions
  that rest on the old password;
* upstream client: an image that was delivered is returned, the user's prompt
  is blamed only for a cause that can be named, a call ends while there is time
  to write its outcome;
* rate limiter: a bound on bursts, and refusals only to those who earned them.

## 2. Modules

| Module | Models | Extended or used by |
|---|---|---|
| `WorkerPool` | `Pool.Resize`, `run`, `Wake`, `Stop`, `sync.WaitGroup` | `MCWorkerPool`, `WorkerPoolProofs` |
| `RecordLifecycle` | the abstract life cycle of a record, as a client sees it | `RecordPipeline` (INSTANCE ... WITH) |
| `RecordPipeline` | `tickOnce` over the table and the image store, the record requests, crash and boot | `MCRecordPipeline`, `RecordPipelineProofs` |
| `Gallery` | projects, favourites, `POST /records` with a project, `PATCH /records/:id` | `MCGallery`, `GalleryProofs` |
| `AtomicStore` | what `blob.Store` promises: images appear and go at one instant | `ImageStore` (INSTANCE ... WITH) |
| `ImageStore` | `LocalFS.Put` and `Delete` by system calls, `S3Store`, the machine below them | `MigrateBlobs` |
| `MigrateBlobs` | the migration tool beside the server: `ImageStore` composed with a run of the tool | `MCMigrateBlobs`, `MigrateBlobsProofs` |
| `RecordList` | count, page and page numbers of the lists, and a client that reads one | `MCRecordList`, `GalleryProofs` |
| `AdminConfig` | `admin.Store` and the handlers that write it | `MCAdminConfig`, `AdminConfigProofs` |
| `AuthService` | `auth.Service` over both tables, and the admin's account operations | `MCAuthService`, `AuthServiceProofs` |
| `UpstreamClient` | one call of the image service, with all clocks | `MCUpstreamClient`, `UpstreamClientProofs` |
| `RateLimiter` | `limiter.allow` and `gc` | `MCRateLimiter`, `RateLimiterProofs` |

How state and actions correspond to the code:

* **WorkerPool.** `pc[g]` is where a goroutine stands in `run`; every lock
  section, channel operation and WaitGroup call is a step. `CheckExcess` is
  the test `current > desired`, `DecCurrent` the deferred decrement: two
  sections, with everything else possible in between. `wake` is the one-slot
  channel. `Stop` closes the channel and starts a goroutine that calls `Wait`;
  `waiter` follows it through the states of a WaitGroup, including the panic
  when the counter is raised between the release of a waiter and its return.
  What a tick does to its record is abstract here: it takes one from
  `waiting`. `due` is history: the claims that workers between their poll and
  their claim may still make when the channel closes.
* **RecordPipeline.** A row is a record of its columns: status, image path,
  error, detail, publication. `at[w]` is where a worker stands in `tickOnce`;
  the claim is a transaction (`ClaimSelect` locks, `ClaimCommit` commits, the
  reply may be lost, the re-read may fail). The writes of the outcome are by
  id and test nothing, as in the code (`UpdateById`). `Crash` ends all ticks
  and requests and lets the database roll back; it also stands for an exit at
  the shutdown deadline. `Boot` sweeps and starts; `BootSweepFails` is the
  boot whose sweep only logs an error. `stranded` is a history variable: the
  records that stay `running` with no worker because a database call about them
  failed (one whose context has expired included) or their outcome was refused.
  A stream that cannot get its object goes on to the 404 of `StreamNotFound`,
  and keeps apart what the client cannot: an object that is `missing` and one
  that is `unreadable`.
* **RecordLifecycle** has three variables: the status of each record, which
  images can be fetched, and which records are in the gallery. The mapping is
  in `RecordPipeline`: `life` is the status column, `available` the completed
  records whose image is stored, `gallery` the public completed ones.
* **Gallery.** One step per SQL statement of `Handler.Create` and
  `Handler.Update`; `at` is the next statement, and whether a field is in the
  body is chosen when the handler looks at it, so all bodies are covered.
  `asked` and `wrote` are history: the parts the handler has found in the body
  and the parts it has written. `DeleteProject` carries the foreign key's ON
  DELETE SET NULL, `DeleteRecord` its ON DELETE CASCADE. `shown` is history. A
  worker's part is `Complete`; the rest of a record's life is in
  `RecordPipeline`.
* **AtomicStore and ImageStore.** The abstract store has the content of each
  path, what the disk is known to hold, and the calls that have not taken
  effect. In `ImageStore` a Put is CreateTemp, Write, Sync and Close, Rename and
  the deferred Remove, each able to fail; `files` is the directory as the
  process sees it and `disk` what it is on the disk. A crash leaves `files` as
  it is, a loss of power takes any names back to the disk and tears data that
  was not forced out. The mapping: `content` and `saved` are the images at the
  paths, `pending` the Puts before their Rename. `LocalFS` does not force out
  the directory, so a loss of power may undo a Put or a Delete that returned:
  `AtomicStore` allows that and nothing in between.
* **MigrateBlobs** extends `ImageStore` by one run of the tool: directories are
  listed when the walk reaches them, files are looked up, read and uploaded one
  by one, and every error is counted and passed over. `Beside` lets the server
  move meanwhile. `since` is history: the paths whose image did not change
  since the run began; `quiet`: the server was down all the time.
* **RecordList.** A list is what each row is ordered by: its id, or for the
  gallery the time of its publication, which a second publication renews. A
  walk is a client that asks for page after page up to `totalPages`; `left`,
  `entered`, `torn` and `stable` note what happened to the list on its way. Its
  specification is `ListSpec`, since one module of proofs extends it and `Gallery`.
* **AdminConfig.** One step per statement and per critical section of
  `store.go`. `UpdateUpstream` holds `s.mu` from before it reads the cached
  key until after it wrote the cache; the other two updates write the row
  without it. `FailedWrite` lets a statement that reports an error have taken
  effect. `overlapped` and `unsure` are history.
* **AuthService.** One step per SQL statement; any number of requests
  interleave between them. Each token carries, as history, the password that
  its chain of rotations began with. A password is the number of the write
  that set it.
* **UpstreamClient.** The caller's context and the client timeout are
  numbers on one clock; a claim takes as long as it takes, up to the context.
  `usable` is whether a request can be made from the base URL at all. The reply is a status, a body
  shape, and for the stream a sequence of kinds of lines; the last line may
  lack its newline. `UserFacing` is what the worker tells the user.
* **RateLimiter.** `allow` is one critical section, hence one step. The log of
  admissions is history.

## 3. Runs

Passing runs:

| Run | Instance | Checks |
|---|---|---|
| `pool` | 3 goroutines, ceiling 2, 3 Resizes to any target, 2 records | types, `CountersExact`, `ConcurrencyCeiling`, `StopMeansQuiet`, `StopClaimsBounded`, and the liveness properties `QueueDrains`, `StopDrains` |
| `pipeline_safety` | 2 users, 2 workers, 2 requests, 2 records, 2 retries, 2 crashes, failing database, unreadable images | types, `ColumnsAgree`, `ClaimedAlone`, `CompletedServable`, `StreamMissesOnlyDeleted`, `RunningIsHeld`, and `ImplementsLifecycle` |
| `pipeline_live` | 1 user, 2 workers, 2 records, 2 crashes, failing database, refused details | the liveness property `EveryRecordSettles` |
| `config` | 3 admins, 3 updates, 1 crash, lost replies | types, `UpstreamCoherent`, `SerialUpdatesCoherent`, `UntouchedKeySurvives`, and the liveness property `UpdatesFinish` |
| `auth` | 1 account, 2 requests in flight, 3 tokens, 2 passwords, failing statements | types, `RotationConsumes`, `SessionsRestOnPassword` |
| `upstream` | streams of up to 3 lines, timeouts at any point, base URLs that are none | `ImageNotDropped`, `RejectionHasCause`, `OutcomeWritable`, and the liveness property `CallReturns` |
| `limiter` | 3 keys, limit 2, window 2, eviction from 2 keys on | `BurstBounded`, `RefusedRightly` |
| `gallery` | 2 users, 1 record, 2 projects, 2 requests in flight | types, `ProjectOwned`, `FavoritesOfShared`, `PatchAllOrPrefix`, and the action property `StrangersLeaveRecords` |
| `migrate` | 2 paths, 2 temporary names, 2 images of different sizes, 2 Puts in flight | `BucketWhole`, `SuccessMeansCopied`, the action property `SwitchKeepsImages`, and the refinement `LocalIsAtomic` |
| `list` | 4 rows, 5 publications, page sizes of 1, 2 (default) and 3 (largest), and two out of range | `WalkMissesNothing`, `NoRepeats` |

Runs that TLC must find violated, each a place where the code does not do what
a comment or a document of the repository says:

| Run | Property | What happens |
|---|---|---|
| `pool_surplus` | `OnlySurplusExits` | two workers see the same surplus of one and both leave; the pool stays below its target, possibly at 0 |
| `gallery_favorite` | `FavoriteOfOthersSucceeds` | `PATCH` with `favorite` on somebody else's public record stores the favourite and answers 500: the row is read back for its owner only |

Smaller differences between comments and code, seen while modelling and
followed in the models as the code has them, without a run of their own:

* `truncate` (`pool.go:211`, and `msg[:500]` at `openai.go:444-446`) cuts at a
  byte count; a detail cut inside a UTF-8 character is refused by the database,
  the error is discarded (`pool.go:185`) and the record stays `running` until
  the next boot. `pool.go:156-157` says that a tick processes the record it
  claims. `RunningIsHeld` and `EveryRecordSettles` name such records
  (`stranded`);
* the same happens without any strange text: a call or an S3 Put that uses up
  the context of the tick (`pool.go:137`, `:195`) makes the following write of
  the outcome fail, and its error is discarded;
* `StreamImage` answers 404 "image not found" for every error of the store, a
  timeout or a missing permission included (`handler.go:307-309`).
  `StreamMissesOnlyDeleted` is about objects that are really missing;
* a base URL that does not parse, such as `127.0.0.1:3000`, passes the admin's
  request (`admin/dto.go:62` checks the length) and is then reported in the kind
  of a rejected request (`openai.go:135-137`, `:176-178`, `:235-237`,
  `:281-284`), so the user is told to change the prompt. `RejectionHasCause`
  lists it among the causes;
* the resizer is called after `s.mu` is released (`store.go:197`), so
  overlapping updates can leave the pool with another size than the cache
  (`store.go:177` says it hot-applies the value). `SerialUpdatesCoherent`
  excuses overlapping updates;
* two refreshes with one token that both pass the test before either revokes
  it make two sessions of one (`service.go:124-138`; `docs/api.md:110` says the
  old token is invalid at once), and a login or refresh that overlaps a
  password change survives it (`service.go:182`; `docs/api.md:164` says all
  are revoked). `SessionsRestOnPassword` excuses overlapping requests;
* `projectId: null` in a PATCH is taken as absent (`record/dto.go:24`);
  `docs/api.md:288` says it takes the record out of its project;
* a page size above 100 is served as 20 (`repo.go:117`), not capped at 100 as
  `repo.go:25` says, and since `totalPages` is computed with the size that was
  asked for (`handler.go:423`, `admin/handler.go:204`, `:280`), a walk with a size above
  100 ends before its pages of 20 have shown all rows. `WalkMissesNothing` is
  about sizes up to the maximum, the theorem `PagesHoldAll` too;
* Retry-After is cut to whole seconds (`ratelimit.go:36`), 0 in the last second
  of a window;
* a Resize during Stop can re-use the WaitGroup before `Wait` has returned,
  which panics (`waiter = "panicked"` in `WorkerPool`; `pool.go:93`, `:105`);
* the masked key sent back to `PUT /admin/upstream-configs` is stored as the key
  (`admin/dto.go:63` says unchanged);
* the loser of two simultaneous registrations is answered 500, not 409
  (`docs/api.md:69`);
* `{"error": "..."}` is not among the error shapes that are recognised
  (`openai.go:418-420` lists it);
* `TestConnection` fails for 401 and 403 (`openai.go:129-131` says nil);
* a test generation has 90 seconds (`admin/handler.go:111` says 5 minutes).

### Bounds, and why they are enough

* Three goroutines under a ceiling of two allow a surplus worker to be leaving
  while a new one starts, which is where the counters and the ceiling could go
  wrong. Three Resizes are grow, shrink, grow.
* Two workers and two records make every race for a row possible, and leave a
  second row to race for. Two requests in flight make delete/delete and
  delete/stream possible. Two crashes and two retries let a record be swept
  after a sweep, and fail after a retry of a failure. The theorems of
  section 5 remove these bounds.
* Three overlapping configuration updates let one finish between two steps of
  another while a third waits for `s.mu`.
* Two requests in flight are what every race in `auth.Service` needs; three
  tokens are a login, its rotation and a second rotation or login; two
  passwords are the first and its change. `SessionsRestOnPassword` excuses
  the accounts for which a session request and a password request overlapped,
  or whose revocation failed, until the next complete revocation: what those
  windows allow is in the list above.
* Three stream lines are an image event, its data and one more line before or
  after. The times of `UpstreamClient` (10, 12, 3, 1) keep the order of the
  real ones (a client timeout of 5 minutes, a tick of 6, 90 seconds for a test
  generation, 15 for a probe). A claim may take up to the whole tick;
  `OutcomeWritable` is about the claims that leave more than the client timeout.
* Two requests, two users and two projects let one statement of anybody come
  between a check and its write; a second record would only add requests that
  do not meet. Project and record ids are not used again, as with BIGSERIAL.
* Two Puts in flight, two images and two paths let the tool meet a file that is
  being written, renamed over, deleted and put again. Two Puts in all are enough
  for an image to be replaced; the temporary names are the ones not in use.
* Four rows are two pages of two, or four of one; five publications let a row
  move to the front more than once.
* Limit 2, window 2, five instants and seven requests: five admissions of one
  key need two more requests that fill the map and trigger eviction.

`CHECK_DEADLOCK FALSE` is in the runs whose counters (creates, crashes, updates,
requests, clock) are bounded: when all bounds are used up and all work is done
the instance stops, which is not a deadlock of the program. Waiting forever is
the subject of the liveness properties instead. `auth`, `gallery`, `migrate` and
`list` check deadlock.

### Fairness

* *Workers* (`WF` of their steps): the Go scheduler runs every runnable
  goroutine, and every statement, upstream call and timer returns, because
  each has a deadline. `Claim` has `SF`: a worker that polls again and again
  while rows are waiting is not denied them forever, since `FOR UPDATE SKIP
  LOCKED` skips only rows that another worker is taking.
* *Claims in the pipeline* (`SF` of `ClaimCommit`): the database may fail as
  often as it likes, but not at every commit of a worker that keeps trying.
  Nothing of the kind is assumed of the re-read or of the writes of outcomes,
  which the code tries once: a record whose write fails is `stranded`.
* *A panicked process* takes no further step, hence the conjunct in
  `WorkerPool`.
* *Boot* (`WF`): the container is restarted (`restart: unless-stopped`,
  `deploy/docker-compose.prod.yml:91`). Crashes are bounded: a process that
  crashes forever finishes nothing.
* *Clock and timeouts* (`WF` in `UpstreamClient`): time passes, a request that
  cannot be made is given up, and an expired `context` or `http.Client` timeout
  ends the call. Nothing is assumed of the
  image service.
* No fairness for users, admins, crashes and database errors.

## 4. Mutants

Every property of a passing run has a mutant: a variant of one mapped
definition, written next to it (`DecCurrentMissing`, `BootNoSweep`,
`DeleteBlobFirst`, ...), under which TLC finds the property violated. They are
listed in `PROJECT.json` and are not used by the specifications.

## 5. Theorems

All proofs are checked by TLAPS for every value of the constants that meets the
named assumptions, which TLC evaluates on every run: numbers are naturals, the
set of goroutines is finite, the ceiling, the limit and the window are positive
(`PoolAssumption`, `LimiterAssumption`); "no user", "no record", NULL, "no key"
and the mask are not users, records, projects, keys or admins
(`PipelineAssumption`, `GalleryAssumption`, `ConfigAssumption`); a list has
finitely many rows, numbered from 1, and a default page size that is not above
the largest (`RecordListAssumption`); image paths and
temporary names differ (`ImageStoreAssumption`; the store's temporary files
begin with a dot) and images have sizes (`SizeAssumption`); timeouts are positive
and in no particular order (`ClientAssumption`). In each
module the theorem named `...Invariant` is the inductive invariant; TLC has
checked it on the run's instance too.

**WorkerPoolProofs.** The inductive invariant is
`IInv == TypeOK /\ CountersExact /\ DrainInv`. `TypeOK` alone is not inductive:
that `current` and `wg` never become negative or exceed the ceiling follows
only because they count goroutines. `DrainInv` is why a successful `Stop` can
be believed although `Resize` may still start goroutines: from the release of
`Wait` on, the stop channel is closed and nobody is in a tick, and with the
channel closed nobody enters one. From `IInv` follow `TypeCorrect`,
`CountersAreExact`, `CeilingHolds` and `StopQuiesces`. Records are still claimed
after the channel closed, by workers that were past the poll; `LateInv` says
that the workers still before their claim are never more than the claims that
are due, because nobody passes the poll any more, and gives `LateClaimsBounded`:
Stop waits for at most as many new records as there were such workers.

**RecordPipelineProofs.** `Inv == TypeOK /\ ColumnsAgree /\ Links /\
ClaimedAlone /\ CompletedServable /\ RunningIsHeld`. `Links` holds what the
statements do not test and rely on: a worker about to store a path has its
image in the store unless the record is deleted; an image is removed only when
its row is gone; what a stream found is completed or deleted since; nothing
survives a crash. With it, an outcome written by id can hit only a row that
this worker holds, which gives the theorems `RowsConsistent`,
`ExclusiveClaims`, `ImagesServable`, `StreamsMissOnlyDeleted` and
`NoLostRecords`. The proof of preservation is factored by kinds of steps
(moving within a tick, ending it, writing a row, moving a request), each a
lemma, and one step per action. `Refinement` proves `Spec =>
ImplementsLifecycle`: every step of the pipeline, faults and crashes included,
is a step of `RecordLifecycle` or a stutter under the mapping. Two results are
then read off the life cycle: an image that can be fetched can be fetched until
its record is deleted (`ImagesLastUntilDeleted`), and the gallery shows nothing
that cannot (`GalleryAlwaysServed`).

**GalleryProofs.** `Inv == TypeOK /\ ProjectOwned /\ FavoritesOfShared /\
TablesKnown /\ RequestsLinked`. A handler checks something in one statement and
relies on it in a later one; `Linked` says what such a read is still worth when
anything may have come in between: a project that was checked is still the
caller's or has been dropped, and its id is not used again, so the foreign key
refuses it (`TablesKnown`); a record found shared was shared, and its owner does
not change. `LinkedStable` is the lemma that every change of the tables keeps
this. `PartsInOrder` ties the stage of a PATCH to the parts it has found and
written. From `Inv` follow `TypeCorrect`, `ProjectsOwned`, `FavoritesShared`
and `PatchesInOrder`; the action property `StrangersLeave` needs of it only that
a request that creates a record has no record yet. There is one lemma per
action; those that leave the tables alone share `MoveInv`, the others
`TablesInv`.

The second half of the module is about `RecordList`. `ListInv` places the rows
of a walk around its `Offset`, the number of rows on the pages it has had: while
no row has come in, those it has seen and that are still listed are at positions
up to the offset (`SeenBehind`); while none has left, those it has yet to see of
the stable ones are behind it (`UnseenAhead`). Whatever came and went, the
last count is at least the number of rows unless one came in since
(`CountHolds`). A position is the
cardinality of a set of rows, so the lemmas that carry the proof say how it
shifts: a row that leaves brings others forward (`LeavingBringsForward`), one
that comes in, or a publication that moves one to the front, only pushes them
back (`EnteringPushesBack`), the latter because no key is later than the last
publication (`KeysInPast`). At the end of a walk `PagesSuffice` turns `page >=
totalPages` into "the pages hold the count". From `ListInv` follow
`WalksMissNothing` and `PagesRepeatNothing`. `PagesHoldAll` relates the two
halves of an answer: for sizes up to the largest that is served, every row is on
exactly one page (`OnePage`), and that page is among those that `totalPages`
announces.

**AdminConfigProofs.** `Inv` adds to the types what the lock and the stages of
an update mean. `Locked`: `s.mu` is held by the one credentials update in
flight. `Holding`: that update finds the cache as it was when it took the lock,
so a request without a key still carries the cached key, and until its
statement row and cache agree; this is why `UpstreamCoherent` and the action
property `UntouchedKeySurvives` survive any number of other updates. `Serial`:
updates of one kind that never overlapped are never two; `WorkersCarried` and
`TitleCarried` follow the value of such an update from the row to the cache and
to the pool, which gives `SerialUpdates`. A failed statement that took effect is
a case of its own in every write (`unsure`). The proof found that an admin
named like "nobody" would break the lock, hence `Nothing \notin Admins` in
`ConfigAssumption`.

**AuthServiceProofs.** `SessionsRestOnPassword` speaks of moments at which no
password request is under way, and is not inductive. `SessionsKept` is: only
between `UpdatePassword` and `RevokeAllForUser` may a session of an unexposed
account rest on an older password. For that, a session request must carry the
present password (`RequestsKept`) unless it met a password request, which is on
record (`OverlapsExposed`). `TokensIssued` and `RequestsKnown` say which rows
exist and that what a request has read was issued. With them follow
`RotationsConsume` and `SessionsOnPassword`, for every interleaving and with any
statement failing.

**MigrateBlobsProofs.** `StoreInv` is about `ImageStore` alone: a path names a
whole image that has reached the disk, or nothing (`PathsWhole`); a Put has a
path and a temporary file of its own, and the file holds what the Put has
written and forced out so far (`PutsOwn`). `Refinement` (`LocalIsAtomic`) rests
on it: the rename is the one step at which an image appears, and a loss of power
leaves at each path what is there or what is on the disk. `ToolInv` is about the
run of the tool: it handles image paths and whole images only (`ToolOnPaths`),
and `Progress` says of each image that has not changed since the run began that
it is ahead of the walk, in the tool's hands with the contents it still has, or
copied, unless a failure was counted. From it follow `BucketStaysWhole`,
`StatusZero` and, with `Quietly`, the action property `SwitchLosesNothing`.

**UpstreamClientProofs.** `StreamKnown` ties the two flags of the event loop to
the lines read so far and says that the loop goes on only while none of them
carried a result; a line more is then three cases. `ReplyKnown` says what is known of the
reply at each point, so a call that sent nothing has none. `OnTime` bounds the clock by the start
of the call and the client's timeout. From `Inv` follow `ImagesReturned`,
`RejectionsHaveCauses` and `WritableAtReturn`, for streams of any length and any
timeouts; the last is about claims that leave more than the client timeout of
the tick, since the code bounds a claim by the tick's context only.

**RateLimiterProofs.** No variable holds the windows that were opened for a
key; the code has forgotten them. The inductive invariant says that they exist:
for each key there is a set of opening times, more than a window apart, such
that every admission is in one of the windows, none has more than the limit, and
the counter of the key is the number of admissions in the last one (`Windows`).
gc may drop an entry because its window is over, so the next window starts later
than all (`NewWindow`). `TwoWindowsMeet` is the arithmetic of `BurstsBounded`,
`BurstFromWindows` the counting; `RefusalsJust` needs that a window which is
not over began within the last one.

Only model-checked are the liveness properties (`QueueDrains`, `StopDrains`,
`EveryRecordSettles`, `UpdatesFinish`, `CallReturns`): fairness and ENABLED are
out of the prover's reach. Every other property of the passing runs is a
theorem.

## 6. What is not modelled

* The names of projects (`RenameProject`), the statistics, DTOs, and what a row
  of a list shows.
* Content types, file extensions, and files nobody can reach any more (an admin
  delete removes the row only). Flags and dotenv file of the migration tool.
* `SetRole`, `RequireAdmin` and `EnsureAdmin`: a role is read from the row at
  every request, and no other component's state depends on it; signatures, hashes and
  ciphers, which are taken to do what they are for.
* The bodies of upstream requests, the wording of messages, the value of
  the Retry-After header.
* Configuration from the environment, connections, logging, CORS, migrations
  of the schema, defaults of image parameters.
* The web client, except where the API's contract is concerned.

## 7. Plan

Done: all modules of section 2 with their runs; the inductive invariants, the
safety properties, the action properties and both refinements of every component
as theorems. What is left is a module `Server` that composes pool, pipeline and
configuration for boot and shutdown: what a stop that runs into its deadline
leaves behind. `RecordPipeline` has the result of it (`Crash` at any point, then
`Boot`), not the way there.
