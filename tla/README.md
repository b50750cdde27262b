# placitum-cookie in TLA+

placitum-cookie is an inspector: a process that a web application firewall
module asks about each request over NATS, and that answers which cookies to set,
which markers to hang on the request, and which live lists to change. This
directory models its own logic in TLA+, checks the model with TLC and proves the
safety of its parts with TLAPS. File and line references are to `src/`.

## 1. The system

| Component | State it keeps | Operations | Works with |
| --- | --- | --- | --- |
| queue (`internal/queue`) | the queue, a closed flag, three counters, one mutex and one condition variable | `Submit`, `pop`, `budget`, `sweep`, `Close` | called by the NATS callback, calls `handler.evaluate` |
| handler (`cmd/inspector/handler.go`) | none of its own; per request: cookie states, values, outcome | `receive`, `inspect`, `states`, `apply`, `publish`, `expand`, `overloadOnShed` | store, source, mirror, list writer |
| policy (`internal/policy`) | parsed profiles | `Parse`, `Collect`, `CollectOverload`, `Cookie.Issue`, `Cookie.Read`, `FillMarker` | handler, mirror through `Sets` |
| policy store (`store.go`) | current snapshot, directory, fingerprint | `ReloadFrom`, `Watch`, `Current` | desired, handler |
| desired (`internal/desired`) | `Applied`, the pending retry, three directories on disk | `Watch`, `handle`, `FetchLists`, `Apply`, `Bootstrap` | NATS KV, internal Redis, store |
| livelist (`internal/livelist`) | per list: epoch, number, content, `snapBad` | `Ensure`, `run`, `onFrame`, `catchUp`, `snapshot`, `Contains` | the keeper of the lists over NATS and Redis |
| source, body | what was loaded for one request, `Fault` | `Headers`, `Cookies`, `Args`, `Load` | the buffer (Redis) |
| list writer (`lists.go`) | none | `writeLists`, `subjects` | list publisher, network directory |
| audit sink (`internal/audit`) | pending events, their size, a count of dropped ones, a wake-up channel | `Add`, `loop`, `flush`, `publish`, `Close` | called by `handler.send`, publishes on NATS |
| config (`internal/config`) | the configuration, fixed at the start | `Load`, `parseQueueFile`, `validate` | main; its limits are the constants of the queue |
| main | the subscription, the heartbeat | start, `waitForSignal`, `Drain`, `Close` of pool and sink | all |
| probe, siphash, settings | none that lasts | | |

What is hard in it, and to test:

- **The queue.** The receiver (in wait mode) and the workers sleep on the same
  condition variable; expired tasks are taken out under the lock and answered
  outside it by whichever thread met them; a timer, a pop, the sweeper and
  `Close` race to wake the receiver. Correct means: every request is answered
  exactly once, nobody sleeps on work, the queue keeps its depth, `Close` returns.
- **Generations.** Two goroutines and a file system: `Apply` exchanges
  directories while `Store.Watch` reads them; the process may die between any
  two renames, and any call to the file system may fail, some of them with an
  error that nobody looks at; a fetch that is retried races a newer generation.
  Correct means: what is reported is what is live, the generation in force is
  never lost, the last good one is served, and where an ignored error spoils
  this, it spoils no more than has to be.
- **Mirrors.** Frames are lost, packages expire, the keeper restarts with a new
  epoch while packages of the old one are still under the same keys. Correct
  means: a request sees a list that existed, and the mirror catches up.
- **From the bus to the bus.** The callback, the workers and the sweeper all
  answer and then add to the audit sink, whose one goroutine publishes outside
  its lock; the signal comes at any moment and main closes the parts one after
  the other beside all of them, the callback excepted, which nobody waits for.
  Correct means: what was accepted is answered and its event is out before the
  process ends, unless the callback has it; no event is lost but those that are
  counted; batches leave when they are due.
- **Configuration.** A value may come from a file with blocks, from the
  environment or from a default, each checked in another place. Correct means:
  a file is accepted exactly when it is well formed, and of the places a value
  comes from the documented one wins.
- **Evaluation.** Copies with different clocks issue and read the same signed
  cookies; rules look at lists that change while they run; objects fail to load
  at different moments; rows are written before the answer is known. Correct
  means: what was issued is accepted, what was made up is not, in an answer and
  in the lists, as far as the declarations of the cookies do not let it in.

`PROJECT.json` lists these points, at the lines where they bite, as `hazards`.

## 2. The modules

| Module | Models | Used by |
| --- | --- | --- |
| `Answering` | the promise of the queue: one answer for each request taken, in the end | `Pool` (`Promise`, `PromiseSafe`) |
| `Pool` | `internal/queue/queue.go` | `PoolProofs`, `MCPool`, `MCPoolLive` |
| `PoolProofs`, `PoolAnswerProofs` | theorems about `Pool`: places and sleepers, answers and counters | |
| `Generation` | `internal/desired`, `policy/store.go`, `policy.LoadDir` | `GenerationProofs`; run directly |
| `Mirror` | `internal/livelist` for one list | `MirrorProofs`, `MCMirror` |
| `Inspect` | handler, rules, cookies, objects, list writes | `InspectProofs`, `MCInspect` |
| `Sink` | `internal/audit/sink.go` | `Service`, `SinkProofs` |
| `Service` | `handler.receive`, `send`, `recoverInto`, the shutdown in `main.go`, composed with `Sink` and with the promise of `Pool` | `ServiceProofs`, `MCService` |
| `Config` | `internal/config` | `ConfigProofs`, `MCConfig` |

### Pool

A critical section is one action: `Submit` (the check before the lock),
`SubmitCollect`, `SubmitLock`, `WaitLoop`, `WaitExit`, `Pop`, `budget`, `Sweep`,
`CloseStop`, `CloseLock`, `CloseReturn`. `pc` says where a goroutine goes on,
`cur` is the task it has in hand, `dead` the expired tasks it still has to
answer; they are answered one by one, in queue order, before the goroutine goes
on. Counting and answering are two steps, as in the code: `expire` and
`shedLimit` count and call the handler, which puts the goroutine into `calling`,
and `ReplyDead`, `SubmitExpire` and `SubmitShed` are the handler's return (for a
worker's late task `budget` counts and `LateReply` is the return). `waiting` is the set of goroutines inside `cond.Wait`:
`Signal` removes one of them, whichever, `Broadcast` all. `p.q` is a set with
tickets (the value of `Accepted` at the append), which keeps the order without
sequences. A timer is armed, then due (the runtime starts the callback), then
fired (the callback has had the lock); `WaitExit` can stop it only while armed.
`Answering` is implemented under `taken <- Task \ fresh`. Nothing makes an
evaluation end (a buffer may never answer): `Promise` is the safety of
`Answering`, and its liveness for the behaviours in which evaluations end
(`EvaluationsEnd`).

### Generation

A directory tree stands for its content: the generation or the edit of the
bootstrap profiles it came from, or `Torn` for a load that took names from one
tree and files from another. `hpc` is the desired watcher inside `handle` and
`Apply`, one action for each rename, removal, load and swap; `wpc` is
`Store.Watch`, with the directory, the fingerprint, the comparison, the two
halves of the load, `setPrint` and `swap` apart, since the mutex does not join
them. `Crash` is possible everywhere and keeps the directories. The start is
`NewStore` in three steps (`StartNames` and `StartFiles` for the load, then
`StartPrint`) and `Bootstrap`; an edit between the load and the fingerprint is
recorded as seen. `Applied` is a revision (the hash and the revision
are one) and an outcome; a failure keeps the revision. `fingerprint` is
injective on trees: names, sizes and times tell two trees apart.

Every call of `Apply` to the file system may fail (`Fault`, bounded by
`MaxFault`), and so may reading a tree that is fine (`LoadFails`). `Apply` returns
the errors of `MkdirAll`, `write` and the renames forward; it ignores those of the
removals (`Stage`, `RemovePrev`, `Drop`, `Clean`) and of the renames back
(`PromoteFails`, `RestoreFails`). A removal that fails leaves a part of the tree
(`Torn`) or all of it; a rename onto a directory that is there fails always. The
history variable `damage` records what such an ignored error has done to the
generation in force: it is `parked` (the rename back failed, so it is under
`.prev` and not live), `gone` (the next `Apply` removed `.prev` before it had
loaded another), or `mixed` (it was written over the rests of a staging tree that
could not be removed). `ReportedIsLive` and `InForceIsOnDisk` say what holds with
and without it. An error of the watcher's own fingerprint only makes it load again
or wait for the next tick and is left out.

### Mirror

The keeper is outside the repository and is modelled from the mirror's use of it:
it numbers changes within an epoch, stores package `s` under a key that does not
name the epoch (`pkg[s]` is the epoch of what lies there, 0 when it is gone),
announces it, ticks, answers snapshot requests and may restart. `Content[e][s]` is
the list after change `s`, a map of networks to the moments they expire; an
address is a string of `Width` bits and a network a string of at most as many
(`Bits`), the one an address is in being its prefix. `composition.apply` keeps the map and
the number of networks of each length, which `containsAddr` uses to skip lengths.
A list of single values is one whose elements all have the full length. The hash
of a list stands for its set of networks and not for the expiries, as in the
code, so `verify` cannot see a missed renewal; `Faithful` can, because it compares
what a look-up of any address at any time answers. `BadEpoch` are epochs in which
keeper and mirror do not agree
on the hash. The goroutine's reads of Redis and NATS are steps of their own, so
the keeper may move between a request and the object, or between a read of
packages and their application. `Contains` is what requests see.

### Inspect

One client with a jar, the copies of the inspector, and the live lists. A text is
`[tag, num, at, mac]`, for `tag~num.at.mac` without the parts that are not there;
`mac` is the name it was signed for, `bad`, or none, so a signature is right
exactly when the string was issued under this name. A value is such a text too:
`valueOf` takes the time and the signature off a signed string and what follows
the `~` off the rest, as `Read` and `tagOf` do. `None` is the empty string. What
the client sends is its jar, or its jar with one cookie lost, made
up, too long, or moved under another name. The stages of a request are actions:
`Receive`, `Refuse` (no profile, profile off, no headers on the route), `States`
(load the headers, take the time, read every cookie), `Walk` (the rules up to
the next look at a live list), `Apply` (overload rules, fault, issue and drop,
loading the query string), `Write` (one row), `Tell`. An evaluation remembers the
rules that fired (`out.Rules`), and what these ask for is read off them: the
cookies to drop and to issue (`Dropped`, `Kept`), the markers, and the rows to
write, which `Before` puts in the order of the code: by rule and row, those of
the overload rules last. A random number is any that nobody has had
(`Numbers`). `Shed` is the answer of a
request the queue gave up. `Refresh` brings a mirror up to date at any moment;
`Mirror` shows that what it shows is a list that existed. The restrictions
`Parse` puts on profiles are the assumption `ProfileAssumption`, which TLC
evaluates on the profiles of `MCInspect`. The other assumptions: the clocks of the
copies agree to the minute `Read` forgives (`ClockAssumption`); the marks `bad`,
`long` and `cut` are no cookie's name, and what a client makes up as a cookie is
none of the texts that declarations and the other parts of requests carry
(`NameAssumption`, `ShapeAssumption`); words have widths (`WidthAssumption`).

A cookie takes its value (`Values`) from the message, from the address with the
query string (`$request_uri`, which loads the query string), from a header, from a
query argument, or from a cookie (`$cookie_`). The last one is the string as the
client sent it, whatever `Read` said of it, with what follows the value turned
into underscores (`sanitizeTag`): a made-up cookie becomes the value of another
one, signed if that one is declared so, and the rows written from that one put it
into a list. This is what such a declaration asks for; `ForgedNeverListed` is
therefore about the lists that only `Pure` cookies are written to, and the run
reaches a made-up text in another (`referred`). Headers and arguments are texts of
the client as well; they are not called made up here, because a cookie declared
from them means to carry them. A marker is the sequence of its slots, cut at
`MarkerMax` bytes (`Cut`): what is left is whole slots and perhaps the first bytes
of one (`Piece`). The text between the slots is left out; it only moves the place
of the cut.

Abstractions of `Inspect`: all profiles share one set of declarations; path,
method, suffix and status are one page that a rule covers or not; an operand that
names a cookie names a declared one, and those that name every value of a kind
come down to the first; of an action only the marker is kept; the limits on
lengths that the parser enforces make `COOKIE_ISSUE_FAILED` unreachable but for a
failing random source, which is left out; the cookies of an answer are a set; a
list row has one value.

### Sink and Service

`Add` is its critical section, `kick` comes after it; `flush` is one action for
each critical section (`FlushTake`, `FlushEnd`) and one for each subject it
publishes (`SendOK`, `SendFails`), so events are added and cut off while a batch
is half published. `select` may take any channel that is ready, so `LoopStop`,
`LoopWake` and `LoopTick` are all possible. `Filter(items, S)` keeps the events of
`S` in their order, which is what `groupBySubject` does for each subject (`Of`).
`added`, `sent`, `gone` and `lost` are history.

`Service` follows a request from the client's buffer (`where`): the callback runs
for one message at a time (`cb`), hands it to the pool (`Submit`, then
`SubmitAccepts`, from then on `held`) or answers it. Inside `Submit` the callback
may find queued requests expired (`TakeExpired`, which makes them `taken`) and
answers them itself before it goes on with its own (`Turn`). `Tell` is `send` up to
`Publish`, `Audit` and `Kick` are the rest; `TellBare` is a `send` that has nothing
to audit, the answer of `recoverInto` to a panic included. `main` goes on through
`Signal`, `Drain`, `ClosePool`, `CloseSink` (enabled when `pool.Close` has returned)
and `Exit`. Of the pool only what `Pool` shows is used: it answers what it accepts,
and when `Close` returns, nothing it accepted is in the queue or in the hands of a
worker or the sweeper (`DrainedOnExit`). It may be in the hands of the callback:
`late` records those, and `AuditIsComplete` excepts the taken ones among them, whose
answer or event the end of the process may cut off.

What the code does that no property excludes: `dropped` is counted and reported
nowhere; `maxSize` triggers a flush but does not limit a batch, which is cut by
number only; an event added after `Sink.Close` stays pending; a panic inside
`audit.Add`, after the answer is out, would answer a second time (left out, since
nothing there panics).

### Config

`ReadLine` takes the next line of `inspector.conf`, any of `Line`, as
`parseQueueFile` does: `block` and `seen` are its locals, `file` what it builds.
`src` keeps the lines, so that `FileMeansWhatItSays` can say what a file means
without reading it in order. `Load` lays an environment over the file over the
defaults, converts and validates. A file that is refused ends in `refused`, one
that cannot be read and a configuration that does not load in `failed`. Subject,
name and queue group are never empty, because `env` takes the default for an empty
variable; the servers may be, when the variable holds only commas. A value that
does not parse is `Junk`; a signing
key is one of `empty`, `short` or long enough. `LineAssumption` and `EnvAssumption`
say what lines and variables are: a line that sets a key the parser does not know
has the key `other`, one that sets a key has a value, a number is any integer or
`Junk`.

## 3. The runs

| Run | Instance | Shows |
| --- | --- | --- |
| `pool_drop` | depth 2, two workers, three requests, drop mode | `TypeOK`, `OnePlace`, `WorkConserving`, `CountersAgree` |
| `pool_wait` | depth 1, two workers, three requests, wait mode | `OnePlace`, `DepthBound`, `NoLostWakeup`, `ReceiverSleepsOnlyWhenFull`, `DeadlineIsHonest`, `DrainedOnExit` |
| `pool_live` | depth 1, one worker, three requests, wait mode, fair | `Promise` (refinement with liveness), `CloseReturns`, `QueuedIsSwept`, `ReceiverReturns` |
| `generation_apply` | four generations: the second does not load, the third is refused, 1 and 4 with lists; two edits, one crash, one error of the file system | `TypeOK`, `ReportedIsLive`, `InForceIsOnDisk`, `NeverGoesBack`, `LatestIsApplied`, `EditIsServed` |
| `generation_stale` | one generation | **violated**: `ServesTheGeneration` |
| `mirror` | three epochs with two changes each, the second one bad; addresses of one bit, expiries up to 2 | `TypeOK`, `Faithful`, `NoStorm`, `Converges` |
| `inspect_safe` | two requests in a row, two copies a minute apart, three cookies, three profiles, twelve shapes of request | `TypeOK`, `IssuedReadsBack`, `ForgedIsRefused`, `DropWins`, `MarkersFilled`, `ForgedNeverListed` |
| `inspect_headers` | the same | **violated**: `FirstTouchOnly` |
| `inspect_args` | the same | **violated**: `FaultIsTold` |
| `service` | three requests, two audit subjects, batches of two events or size 3, two pending | `TypeOK`, `Conserved`, `Thresholds`, `AuditIsComplete`, `EventsLeave`, `ShutdownEnds` |
| `service_exit` | the same | **violated**: `EveryPathAnswers` |
| `config` | files of up to five lines, environments that set one or two variables | `TypeOK`, `FileMeansWhatItSays`, `Precedence` |

Why the bounds are enough. *Pool*: with a depth of one, two workers and three
requests there is one task queued, one waiting for room and one in work, which is
what every race of the condition variable needs; the deadlines (2, 3, 3) let
tasks expire in the queue, while waiting and between pop and budget. `pool_wait`
has a smallest budget of zero, which the configuration allows: only then can a
request whose timer is already firing still be queued, and the late callback wake
the receiver on behalf of the next one. The clock
stops at `MaxTime`; `Submit` accepts a task only when its deadline falls before
that, so every deadline that matters passes. *Generation*: a bad generation
between two good ones makes the parking, the restoring and the retry meet; one
crash at any step and one error are enough for each single-failure claim, and one
ignored error for each kind of damage (two errors pass as well, in three minutes).
`LatestIsApplied` is claimed for behaviours without an error, because the
code reports it and does not try again. `EditIsServed` is claimed for what differs
from the fingerprint the store has: an edit that falls between the load and the
fingerprint of `NewStore` does not, and is not served until the next one.
*Mirror*: two changes with two packages per read let the keeper move between a
read and the application of what was read, and a channel of one frame makes every
burst lose one; three epochs put a bad one between two good ones; the contents
renew, shorten and remove records and put an expired network before a wider one
that lives, and epochs whose changes undo each other make a package applied in
the wrong epoch visible. *Service*: with room for two, three events make the sink
cut, and an event that is a batch by its size alone makes the two limits differ;
at most one batch fails. *Config*: five lines hold a block with its keys and a line
before or after it, or any key or block twice; two variables reach every pair of
conversions and overrides. *Inspect*: the first request issues, the second one brings back,
at another copy and after up to two ticks (renewal is at 2, the minute is 1);
the lists carry what the first one wrote into the second. The widths and a
`MarkerMax` of 3 make the cut fall before, into and after the last slot of a
marker. The module allows
several open requests; the run has one, because evaluations meet only through
the lists, and `Refresh` already makes these change at any point. Requests stop
at `MaxSent`, hence no deadlock check in these runs. The other runs check it.

### Violations found

- `generation_stale`: `Store.Watch` remembers the bootstrap directory, the first
  generation is applied, the watcher finds that the directory changed, loads the
  *remembered* one, `setPrint` declines, and `swap` (`store.go:147`) puts the
  bootstrap profiles into service. Nothing repairs it until the next generation or
  restart, and the heartbeat reports the generation as applied. `INSTALL.md:47`:
  "controller generations override them".
- `inspect_headers`: headers with an `unavailable` locator pass `HeadersPlaced`
  (`source.go:62`) and load as nothing without a fault, so the client's cookie
  counts as absent and first touch issues a new one. `README.md:145`: "only a
  client without the cookie gets it".
- `inspect_args`: `inspect` looks at `src.Fault` (`handler.go:181`) before `apply`
  loads the query string, so a failed load gives the default value and
  `COOKIE_OK`. `README.md:234`: `COOKIE_STORE_ERROR`, "the buffer did not return an
  object that was there".
- `service_exit`: `sub.Drain` (`main.go:231`) only starts the draining, and main
  goes on to close the pool, the sink and the connection. A message that was in
  the client's buffer when the signal came is not answered when its callback has
  not run by then. `inspector.conf:1`: "Every path answers; the module decides by
  the reason code."

## 4. Fairness

- *Pool*: a runnable goroutine runs and Go's mutex does not starve (weak fairness
  of each thread's steps), the clock moves, a due timer fires. Nothing makes a
  request arrive or `Close` be called, and nothing makes an evaluation end:
  `Promise` and `CloseReturns` are stated for the behaviours in which they do,
  `QueuedIsSwept` and `ReceiverReturns` for all.
- *Generation*: both goroutines run; a fetch tried again and again succeeds at
  some point (strong fairness of `FetchOK`), which is what the retry is for.
- *Mirror*: the goroutine runs, the resync goes on for a set that has nothing, and
  ticks, snapshot requests, objects and reads that are tried for ever get through
  at some point (strong fairness). Without these a bus that loses everything
  refutes any convergence.
- *Service*: goroutines run, evaluations end and the ticker ticks. Nothing makes
  a message or the signal come, or a publication succeed.
- *Inspect*, *Config*: safety only.

## 5. The proofs

Each proof module proves its results for every value of the constants, from the
assumptions its component names and from `Init /\ [][Next]_vars` alone (called
`Safe` where the specification also has fairness). They follow one scheme: `IInv`
implies the property, holds at the start and is kept by each action.

| Module | Theorem | States |
| --- | --- | --- |
| `PoolProofs` | `TypeCorrect` | `[]TypeOK` |
| | `OnePlaceAlways` | `[]OnePlace` |
| | `KeepsPromise` | `PromiseSafe`: `Pool` implements the safety part of `Answering` |
| | `AwakeAlways` | `[]Awake`, the invariant about sleepers |
| | `WakeupsKept` | `[]NoLostWakeup` |
| | `ReceiverWoken` | `[]ReceiverSleepsOnlyWhenFull` |
| | `Drained` | `[]DrainedOnExit` |
| | `DepthKept` | `[]DepthBound` |
| `PoolAnswerProofs` | `WorkConserved` | `[]WorkConserving` |
| | `DeadlineIsHonestAlways` | `[]DeadlineIsHonest` |
| | `CountersAgreeAlways` | `[]CountersAgree` |
| `GenerationProofs` | `TypeCorrect` | `[]TypeOK` |
| | `ReportedIsLiveAlways` | `[]ReportedIsLive` |
| | `InForceIsOnDiskAlways` | `[]InForceIsOnDisk` |
| | `NeverGoesBackAlways` | `NeverGoesBack`, an action property |
| `MirrorProofs` | `TypeCorrect` | `[]TypeOK` |
| | `FaithfulAlways` | `[]Faithful` |
| | `NoStormAlways` | `[]NoStorm` |
| `ConfigProofs` | `TypeCorrect` | `[]TypeOK` |
| | `FileMeansWhatItSaysAlways` | `[]FileMeansWhatItSays` |
| | `PrecedenceAlways` | `[]Precedence` |
| `ServiceProofs` | `TypeCorrect` | `[]TypeOK` |
| | `ConservedAlways` | `[]Conserved` |
| | `ThresholdsAlways` | `[]Thresholds` |
| | `AuditIsCompleteAlways` | `[]AuditIsComplete` |
| `InspectProofs` | `TypeCorrect` | `[]TypeOK` |
| | `IssuedReadsBackAlways` | `[]IssuedReadsBack` |
| | `ForgedIsRefusedAlways` | `[]ForgedIsRefused` |
| | `DropWinsAlways` | `[]DropWins` |
| | `MarkersFilledAlways` | `[]MarkersFilled` |
| | `ForgedNeverListedAlways` | `[]ForgedNeverListed` |

**Pool.** Any set of requests and workers, any depth, either mode; assumed are a
`nil` that is no task, finitely many workers and at least one, distinct
goroutines, a depth of at least one, natural times. `Typed` is `TypeOK` with `q`
finite, which the cardinality in `Full` needs; it is inductive. For `OnePlace`
every step is first shown to be one of seven moves of requests (`StepIsMove`:
nothing moves, a request comes in, goes into or out of the queue, expires, is
answered from `cur`, from `dead`), and only the moves are shown to preserve it;
the refinement of `Answering` uses the same classification. `NoLostWakeup` alone
is not inductive: `Signal` may wake anybody, so one needs to know that at the
moment of the signal the receiver is not among the sleepers. `Awake` therefore
joins four facts: only a worker at pop or the receiver at wait sleeps, the two
rules about sleep, and that a worker leaves only a closed and empty queue.
`DepthBound` needs only that an append happens under the lock that saw room.
`WorkConserving` strengthens `NoLostWakeup` to a count: each queued task has a
worker of its own that is awake on the way to pop, or no worker sleeps.
`DeadlineIsHonest` is kept because a deadline that has passed stays passed:
`Owed` says so of every task in somebody's hands on the way to that answer, and
`TimersHonest` of a timer that is firing. `CountersAgree` counts, beside the
answers, the workers that hold a late task and the goroutines in `calling`, whose
task is counted and not yet answered; its proof needs that a goroutine is in
`calling` only where it has such a task.

**Generation.** Any number of generations, good or bad, any bound on crashes and
errors. `Newest` orders the revisions in play (the one applied, the one worked
on, the one to retry, the one seen last), `OnDisk` says what `Apply` has put on
disk when it is at each of its steps, and `Kept` where the generation in force is
meanwhile: live until it is parked, then under `.prev` until it is restored or
its successor has been loaded, and under `.prev` between two manifests when a
rename back has failed (`damage`). The steps of `Store.Watch` touch none of these,
which is why the two goroutines may interleave freely.

**Mirror.** Any epochs and contents, any width of addresses, any depth of the
channel. `SameList` says that the composition of a good epoch is the keeper's
list, expiries included; it needs `Stage`, which says what the goroutine holds
between a request and its object and between reading packages and applying them.
`Counted` says that the counts by length are exact; it needs that lengths are
counted once per network, so the lemmas about `apply` go network by network over
finite sets. `Faithful` follows because a look-up that skips the lengths without
networks finds the same networks as one that tries all.

**Config.** Files of any length, any lines and environments that are as
`LineAssumption` and `EnvAssumption` say. `Parser` says what the flags of
`parseQueueFile` mean for the lines read so far, `Source` that what a key holds
came from a line. `Fits`, the meaning of a line without an order of reading, looks
at other lines only for duplicates, so a line that is accepted leaves those before
it as they were (`FitsKept`), and one that is refused does not fit itself
(`ReadRefused`). `SaidIs` carries what a line says through the parser to `Load`.

**Service.** Any events, sizes, subjects and limits. `SinkProofs` first proves what
`Filter` and `sizeOf` compute for sequences of any length. The induction
theorems of the library take an operator and cannot be used, so induction is
done with sets: a set of sequences (or numbers) that is closed under `Append` (or
the successor) is everything, because otherwise the complement has a least
element (`Least`, `Induction`, `ListInduction`; the facts about well-founded
relations come from the library). On these rest the laws of `Filter` (of
an append, of a concatenation, of a filtered sequence, of a cut) and with them
`SinkInv`: an event is in one place (`Apart`), the size is that of the list
(`Sized`), drops are counted (`Counted`) and, for each subject, what was sent, is
in hand and is pending is what was added in this order, less what was cut off or
lost (`Kept`). `IInv` of `ServiceProofs` adds where requests are (`Places`), that
nobody sleeps on a full batch (`Kicked`: the flag is set, the sink is stopping, or
somebody is about to kick) and the order of the shutdown (`Ending`: the sink is
told to stop only when nothing the pool accepted is left but what the callback has
taken, and its loop ends with nothing of the rest pending).

**Inspect.** Any cookies, profiles the parser lets through, lists, shapes of
requests and copies, and any number of evaluations at once. None of the
properties is inductive alone, since each relates an evaluation to what was
issued before or since. `Genuine` says of a string that the fleet made it for a
name, at the clock of some copy that has not gone past now. `Told` says it of all
that was issued, `Carries` that the client's jar holds only what was issued under
the name it is kept under. For each evaluation `Good` says: a signature the client
shows was issued (`Unforged`); a state means something of the string alone, not
of the time or of what is issued later (`StateMeans`), which is where the minute
of clock difference is used, once, in `ReadMeans`; what is known of a cookie was
read intact or issued (`SeenMeans`); the cookies of the answer are genuine or
dropped, one for a name (`CookiesMean`); markers are filled, but for the end of a
cut one (`MarksMean`, with `CutIs` about what `Cut` leaves); and
`Stage` says what an evaluation has at each of its places. `Good` depends on the
time and on what was issued only in directions these move (`GoodLater`), so an
evaluation is undisturbed by the steps of others (`OneMoves`), and each action
need be shown only for the evaluation it moves.

Only model-checked: all liveness properties
(`Promise` with its liveness, `CloseReturns`, `QueuedIsSwept`, `ReceiverReturns`,
`LatestIsApplied`, `EditIsServed`, `Converges`, `EventsLeave`, `ShutdownEnds`),
which are out of this prover's reach, as is `ENABLED`.

## 6. Not modelled

- `parseAction` and the other checks of text in the parser of profiles: they
  decide which profiles there are, and `Inspect` takes any that pass the
  conditions its rules depend on.
- The start in `main` (a straight line that ends the process on an error) and the
  heartbeat, which reads counters that `Pool` and `Generation` have.
- `Mirror.Close` and a failing `Ensure`: a list once mirrored stays
  so until the process ends, and a subscription fails only on a closed connection.
- The bytes of packages (`unpack`), SipHash, decryption of objects, the drivers of
  the buffer, the JSON of messages and of audit records: pure conversions without
  state.
- The log level of a generation, the shipping of logs, the probe.

## 7. Plan

1. *(done)* `Answering`, `Pool` and its proofs; `Generation`; `Mirror`; `Inspect`.
2. *(done)* `Sink` and `Service`, the composition with the shutdown; `Config`;
   expiries and networks in `Mirror`; operands in `Inspect`.
3. *(done)* Proofs of the safety of `Pool`, `Generation`, `Mirror`, `Config`, `Sink`,
   `Service` and `Inspect`: every safety property the runs check.
4. Open: abstract specifications of the parts that have none yet and their
   refinement (what a mirror promises to a look-up, what the sink promises to
   `send`), which would let `Service` and `Inspect` rest on statements about `Pool`
   and `Mirror` rather than on their descriptions.
