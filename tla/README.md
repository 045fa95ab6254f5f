# Verification of golang-hw: the calendar and the concurrent exercises

The repository is a course portfolio. Its largest program is the calendar
(`src/hw12_13_14_15_16_calendar`): an HTTP API on PostgreSQL, a scheduler that
publishes reminders to Kafka, and a storer that saves them in a second table.
The other directories are small programs of their own: goroutines over channels
(parallel execution, pipeline, telnet client), a pointer list with an LRU cache,
and sequential tools.

## Inventory

### Calendar

| Part | State | Operations | What can go wrong |
|---|---|---|---|
| events table (`internal/storage/sql`, migrations) | rows with id, title, period, user, reminder, `notification_sent_at` | create, update (resets the mark), delete, list due, conditional mark, delete expired | double booking, a mark that outlives the content it was set for |
| scheduler (`internal/scheduler`) | instant of the cycle, batch of snapshots, stale flag | first cycle at start, one per tick: clean up, list, then per event publish and mark; list again after a full batch or a stale snapshot | client changes between read and mark, errors with or without effect, signals, crashes, a second scheduler, an endless loop |
| Kafka topic (`internal/kafka`) | one partition, committed offset of the group | synchronous `Send`, `FetchMessage`, `CommitMessages` | duplicated or late writes, redelivery |
| storer (`internal/storer`) | reader position, notifications table | fetch, decode and upsert, commit; any error ends the process | crash between save and commit, undecodable payloads |
| API (`internal/server/http`, `internal/app`) | counters of the event operations | routes, decodes and validates requests, turns dates into intervals, calls the storage, counts the outcome | duration overflow, interval borders, counters that drift from the calendar |
| in-memory storage | map under an RWMutex | as the events table, without marks | check-then-act under the wrong lock |
| configuration (`internal/config`) | the settings of each service | defaults, file, environment, validation | limits that two packages state differently |
| Kafka start-up (`internal/kafka/retry.go`, `topic.go`) | backoff, reply of the cluster | create the topic, probe its leader, retry | overflow of the backoff, lost responses and leaders, two services at once, errors that are retried for ever or taken for final |
| servers and commands (`internal/server/http/server.go`, `internal/monitoring/server.go`, the three `main.go`) | contexts, goroutines, open resources | start, serve, shut down within a timeout; run a process together with its metrics server | a goroutine nobody waits for, an error that is lost, a storage closed under a request |

The processes do not call each other. Their only direct coupling is at start-up,
where scheduler and storer may create the same topic at once. Clients and schedulers share the events
table, schedulers and the storer share the topic. Correctness means: a reminder
that is due goes out although anything may fail (at least once), a mark never
hides a reminder that did not go out, an update makes the reminder due again,
and the notifications table ends with the current content of every marked event.

### Exercises

| Part | State | What can go wrong |
|---|---|---|
| `hw05` parallel execution | workers, unbuffered channels, error limit | a worker or the coordinator that waits for ever, work beyond the limit |
| `hw06` pipeline | forwarders and stages over unbuffered channels | a goroutine left behind after `done`, the caller's input consumed, values lost |
| `hw04` list and LRU cache | front, back, next and prev pointers; a map | inconsistent neighbours, map and list that disagree, capacity 0 |
| `hw11` telnet session | two copying goroutines, a grace period | wrong or missing error, a session that does not end, a Write that blocks |
| `hw07` copying | position, progress | source and destination the same file, a source that changes meanwhile |
| `hw08` envdir | merged environment | repeated names, the wrong `PATH` |
| `hw09` validator | collected errors | bad tags unnoticed on empty slices, failures hidden by the first |
| `hw02`, `hw03`, `hw10` strings | none between calls | nothing that a table-driven test would miss |

## Modules

| Module | Models |
|---|---|
| `EventStorage` | The events table as a relation and the SQL statements on it. `CreateEvent`, `UpdateEvent`, `DeleteEvent`, `DeleteEventsBefore`, `MarkNotificationSent` are the methods of `sqlstorage.Storage`, `ReadyForNotification` and `SameSnapshot` their WHERE clauses, `DateBusy` the exclusion constraint. |
| `NotificationTopic` | The topic: a log, and the unacknowledged writes (`late`) that the broker may still append, once or repeatedly. External. |
| `Scheduler` | `Run`, `RunOnce` and `publish` for a set of processes. `pc` is the call the process is at; `now`, `batch`, `full`, `stale` are the locals of `RunOnce`. `Cleanup`, `List`, `Publish`, `Mark` are its calls, `AfterMark` the loop control behind the mark; `CallFails` is any of the calls returning an error, with or without its effect; `Abort` is the done context; `Cancel`, `Stop`, `Crash`, `Start` are the life of the process. |
| `Storer` | `Consume` and `handle`: `FetchMessage`, `Handle`, `CommitMessages`, and `StorerFails`, which stands for every error return, signal or crash, with or without the effect of the call. |
| `StorerSystem` | The storer against arbitrary payloads. |
| `Calendar` | Schedulers, clients, topic and storer together. |
| `ReminderLedger` | The abstract promise of the pipeline: marks only on announced content, nothing stored that was not announced. |
| `SchedulerTiming` | The clock of `Run`: first cycle, ticker with a channel of one tick, cycles that take time, `ObserveSchedulerCycle`. It abstracts what `Scheduler` says of table and topic to the set of sent events. |
| `MemoryStorage` | The in-memory storage. Each call is a goroutine at a `pc`; `writer` and `readers` are the RWMutex. `Enter`, `Lock`, `Check`, `Write`, `RLock`, `Scan`, `FinishList` are the segments between context checks and lock operations, `ReturnWith` the return with its deferred unlock, `Disconnect` the client's cancellation. Instantiates `EventStorage` for the rules of events and as the specification it implements. |
| `CalendarApi` | The HTTP API on top of `MemoryStorage`: `Serve` is routing, decoding and validation, `Answer` the status, `Observe` the metrics middleware. |
| `HttpServer` | `Start` and `Stop`, the same in both server packages: the serving goroutine, the select, `Shutdown` with its deadline. |
| `ServiceProcess` | `run` of scheduler and storer over `HttpServer`: opening and deferred closing of resources, `RunWithServer`. |
| `ApiProcess` | `run` of the calendar command over `HttpServer`: `Connect`, `Close` and the hand-out of the database handle to requests in progress. |
| `KafkaSettings`, `KafkaStartup` | The validation of topic and retry settings; `EnsureTopic` with `retryWithBackoff`, `createTopic`, `probeTopic` for several processes on one cluster. The cluster is external: brokers that fail and recover, access rights, and the one replica (`topicReplicationFactor` is 1), whose partition has no leader while its broker is down. |
| `Configuration` | `Load*` and `Validate` of the three services, with the variables that `apply*Environment` reads for each of them, and what the packages built from the result refuse. |
| `ParallelRun` | `Run` and `runWorker` of hw05; a send and its receive on an unbuffered channel are one step. |
| `Pipeline` | `ExecutePipeline` and `forward` of hw06: even nodes forward, odd nodes are the caller's stages. |
| `LinkedList`, `ListOperations` | The list of hw04 as pointer assignments, one operator per method; every sequence of its operations. `SequenceList` is the abstract list, which says by positions what each method does to the order. |
| `LruCache`, `RecencyCache` | `Set`, `Get`, `Clear` on `LinkedList`; the abstract cache, ordered by last use. |
| `TelnetSession` | `runSession`, `Send`, `Receive` and `Close` of hw11. Each copy ends by itself, by an error of the connection, the input or the output, or by `Close`; `SendBlocked` and `ReceiveBlocked` are the Writes that a peer or an output that takes no data keeps for ever. |
| `CopyFile`, `Envdir`, `StructValidator` | hw07 (on two paths that may be one file: `SetContent` then writes both), hw08, hw09: the sequential programs, each turn of a loop a step (`CopyChunk`; `ReadEntry`, `MergeParent`, `MergeOverride`; `CheckRule`, `NextElement`, `NextField`), compared with definitions that do not follow the code. |
| `Commands` | `ServiceProcess` or `ApiProcess`, which share the HTTP server, the signal and the result of `run`, so that the shutdown properties are stated once for all commands. |
| `ConcurrentExercises`, `SequentialExercises` | One of the programs of the course per behaviour; the variables of the others keep their initial values. |
| `MC*` | Constants for TLC. |
| `SchedulerProofs` | Theorems about `Scheduler` and `EventStorage`. |
| `SchedulerTimingProofs` | Theorems about `SchedulerTiming`. |
| `CalendarProofs` | Theorems about `Storer` and `Calendar`, and the refinement of `ReminderLedger`. |
| `CalendarApiProofs` | Theorems about `MemoryStorage` and `CalendarApi`, and the refinement of `EventStorage`. |
| `CommandsProofs` | Theorems about `HttpServer`, `ServiceProcess`, `ApiProcess`. |
| `StartupProofs` | Theorems about `Configuration` and `KafkaStartup`. |
| `ConcurrentExercisesProofs` | Theorems about `ParallelRun`, `Pipeline`, `TelnetSession`. |
| `SequentialExercisesProofs` | The refinements of `SequenceList` and `RecencyCache`, theorems about `LinkedList`, `CopyFile`, `Envdir`, `StructValidator`. |

Names that begin with "Mutant" in their comment are faulty variants of the
definition they precede. They are not used by any specification; replacing the
definition by the variant must break the property named with it in
`PROJECT.json`.

Data is abstracted: instants and durations are numbers, text is a constant or
blank, a payload is a notification record or `Malformed`, file contents are short
sequences. int64 keeps its wrap-around with a small maximum (`MaxInt`) in
`CalendarApi` and `KafkaStartup`. In `Scheduler` and `Calendar` an API call is one
step and a failed one none; `MemoryStorage` and `CalendarApi` model the calls
themselves.

Composition and refinement:

```
Scheduler + Storer + NotificationTopic + EventStorage  =  Calendar  =>  ReminderLedger
MemoryStorage  =>  EventStorage          CalendarApi extends MemoryStorage
ServiceProcess, ApiProcess extend HttpServer; Commands is one or the other
KafkaStartup, Configuration extend KafkaSettings
LinkedList  =>  SequenceList             LruCache on LinkedList  =>  RecencyCache
ConcurrentExercises = ParallelRun or Pipeline or TelnetSession
SequentialExercises = ListOperations or LruCache or CopyFile or Envdir or StructValidator
```

## Runs

| Run | Shows |
|---|---|
| `scheduler` | One scheduler with batches of one, three writes, two faults: `MarkedIsPublished`, `NoSpuriousPublish` (every message is paid for by a write or by a fault), `MarkIsLastWord` (so a mark does not survive a change of content); and of the events table, with clients and scheduler on it, `BookingsConsistent`: no double booking, ids stay unique. |
| `scheduler_pair` | Two schedulers with batches of two and a late write: `NoSpuriousPublish` (`MarkedIsPublished` is proved for any number of schedulers). `MarkIsLastWord` is not claimed here: a second scheduler with an older snapshot, or a write that lands late, can put an older notification last. |
| `storer` | Four payloads, three failures: the table follows the topic and never goes back, and the topic is drained past malformed payloads. |
| `calendar` | End to end with two faults anywhere: a storer that has caught up agrees with every marked event; refinement of `ReminderLedger`. |
| `calendar_live` | Cycles end, due reminders reach the notifications table, expired events disappear, with a failure of any process in between. |
| `scheduler_timing` | A reminder at least as long as one gap between cycles (plus the failed ones) is never missed; none is sent more than one cycle after the event began; the success timestamp never claims more than was sent. An event that Kafka refuses excuses those listed after it, and shows as failed cycles. |
| `calendar_api` | Two handlers, three requests out of every route, good and bad, on the in-memory storage: the map implements `EventStorage`, success counters balance with the calendar, durations do not wrap, a listing is a snapshot in order of the days it was asked for, also when it meets two events, every storage call returns. |
| `commands` | Signals, failures and hanging requests at every stage of every command: resources outlive their users; after `run` nothing is left open, and the goroutine of a request only if `Shutdown` timed out or the listener failed, and then `run` reports an error; no error is lost, a successful exit of the API has answered every request, and every signal or failure ends the command. |
| `kafka_startup` | Delays stay within the limits up to the largest duration. `VerdictHasReason`: `EnsureTopic` fails for good only if the cluster refuses a call, although a lost reply or the other service makes `CreateTopics` answer TopicAlreadyExists, an error like those that are final; success means a topic that exists, and "cancelled" a cancellation. Permanent errors, signals and a stable cluster end the loop. That the topic still has a leader when `EnsureTopic` returns is not claimed: its broker may fail at any moment. |
| `configuration` | What `Validate` accepts can be started, whichever of default, file and environment each setting comes from. |
| `concurrent_exercises` | hw05: the work bound, the verdict (m = 0 included), no goroutine left, termination. hw06: order and completeness, at most one value of the input taken after `done`, no goroutine left. hw11: success is complete; an error has its cause in the connection, the input or the output and names the transfer that met it; an interrupt always ends the session, the end of the input unless the sending of what was typed is blocked, the peer's close, a reset or a failing output unless the output is. |
| `sequential_exercises` | hw04: consistent pointers and map, and the two refinements, for capacities below, at and above zero. hw07, hw08, hw09: the results agree with the reference definitions over all bounded inputs, and the source of a copy is never changed. |

Several programs share a run, and a property may join the claims about one of
them: `PipelineIsFaithful` is order, completeness and the caller's input,
`CopyIsFaithful` the contents, the progress reports and the untouched source,
`ProgramsEnd` the termination of whichever program runs. The parts keep their own
names in the modules of the programs.

Bounds. Three writes are enough for create, update and a second event or a
second update; two faults for a crash during the recovery from another; the
clock reaches the start of every event and the retention cutoff. For liveness two
writes and one fault are left, so that create, update and a recovery still happen. A batch of one
makes every batch full, a batch of two also gives the short batch. The counters
`writes` and `faults` bound the state space; nothing else does.

In the other modules: two request goroutines suffice for a reader against a
writer and for two writers, since the RWMutex only knows those conflicts; three
requests cover create with a conflicting create and a deletion, and two creations
on one day in either order (ids 1 and 2, of which 2 begins first) with a listing
of that day, so that the order of a listing and its event by event scan matter.
`MaxInt = 15` with `Second = 4` lets a product wrap to negative and back to valid
numbers; `MaxInt = 7` in `KafkaStartup` lets the doubled backoff overflow after
delays of 3 and 6 or of 4. Two brokers let the broker of the only replica fail
while the other one answers. Three requests in `Commands` put one before,
one during and one after the closing of the storage. Months of two and three days
(`MCCalendarApi`) put events across day and month borders. Four list items give
front, back and two inner neighbours; four keys fill a cache of three and evict.
Two stages and three values fill a pipeline with one value waiting outside.
`Horizon = 18` holds six ticks.

Fairness. A call that was made returns and the ticker ticks (weak fairness of
`RunOnce`, `Tick`, `Stop`), and an operator starts a process that ended
(`Start`, `StorerStart`): `docker-compose` has no restart policy for the two
processes, so this last part is an assumption on the operation. Failures are
finitely many because they are bounded; time may stop or pass, so the liveness
properties allow that an event starts first. For hw05 every goroutine is
scheduled and every task returns.

Elsewhere fairness says no more than that goroutines are scheduled and timers
expire. `CalendarApi` also has strong fairness of the lock operations, because
`sync.RWMutex` blocks new readers behind a waiting writer and hands over to
waiting ones. `HttpServer` assumes that `ListenAndServe` returns once shut down
and that `Shutdown` meets its deadline; a request may hang for ever. In
`Commands` the connect timeout and the context end every stage, and the
process heeds its context, which `Scheduler` and `Storer` show by their own
steps. `KafkaStartup` assumes that a reachable cluster elects a leader, and that
the dial timeouts make every attempt return. `Pipeline` owes no step of the
caller. `TelnetSession` owes none of peer, input, output or user: a Write to a peer
or an output that has stopped taking data never returns (`SendBlocked` and
`ReceiveBlocked` are outside the fairness of the two copies), since `io.Copy` has no
deadline.

Deadlock is checked in all runs except `storer`, where the system rests once the
topic is full and drained, and `concurrent_exercises`, where the caller of the
pipeline may stop reading without ever closing `done`; that no program gets stuck
there is what its liveness properties say.

## Proofs

The theorems hold for every value of the constants that the named assumptions
allow; the runs are instances of them. The assumptions state

* the types of the constants (`RequestsAssumption`, `MalformedAssumption`,
  `IncomingAssumption`, `ApiAssumption`, `HttpAssumption`, `BrokersAssumption`,
  `RunAssumption`, `ExercisesAssumption`, `CopyAssumption`, `EnvdirAssumption`,
  `StructsAssumption` and the rest of their kind);
* what the constructors check (`SchedulerAssumption`: positive batch size and
  retention; `TimingAssumption`: positive interval);
* that sets of processes and goroutines are finite (`SchedulerAssumption`,
  `HandlersAssumption`), and that the heap of list items is finite
  (`ListAssumption`) and larger than the capacity of the cache
  (`CacheAssumption`), since `PushFront` allocates before the eviction;
* that a `time.Duration` has the width of int64 (`DurationAssumption`), and that
  the dates of requests lie in the months the instance knows (`DatesAssumption`).

### Reminder pipeline

* `SchedulerTypeCorrect`, `MarkedIsAlwaysPublished`: `MarkedIsPublished` alone is
  not inductive, because `Mark` sets a mark without looking at the topic. `IInv`
  adds that a scheduler inside the loop has an event in hand (`LoopHasEvent`) and
  that its notification is in the topic when it is at the mark
  (`PublishedBeforeMark`); the topic only grows, and the WHERE clause of the mark
  makes the marked row's notification equal to the published one. That the event
  in hand is a row rests on the ORDER BY having a first element (`FirstRow`).
* `BookingsAlwaysConsistent`: inductive together with the types; only
  `CreateEvent` and `UpdateEvent` touch id, user or period, and the mark replaces
  a row by one that differs in `sent` alone.
* `MarkIsAlwaysLastWord`, for `Sole`: one scheduler, no writes that land late.
  Without either the property is false, as said under `scheduler_pair`. `SoleInv`
  adds that the rows of the events in hand are not marked and that their ids are
  distinct (`InHandUnsent`, `DistinctInHand`), and that the event at the mark has
  its own notification as the last word (`CurrentIsLastWord`): a client's change
  meanwhile makes the WHERE clause fail instead.
* `PublishNeverSpurious`: a counting argument. `Owed` are the pairs of a scheduler
  and a version of an event that this scheduler may still publish: the unmarked
  versions in the table and those in its batch, less the one it has published and
  not yet marked. `Spending` says that messages in the topic, late writes and
  owed publications together are at most |Schedulers| per client write and one per
  fault. A client write adds at most one debt per scheduler, a publication moves
  one from owed to sent, and only a failure, which is counted, brings one back.
  `DistinctInHand` is needed so that a version is not in a batch twice.
* `TableAlwaysFollowsTopic`, `TableNeverMovesBack`: `StorerInv` adds that a running
  reader stands at the committed offset and that the payload is in the table
  before the commit. `ViewStep` and `ViewAgain` say that handling a payload takes
  the table from one view of the topic to the next, and that handling it again
  changes nothing.
* `CaughtUpTableAlwaysAgrees`, for `Sole`: from the two results above. The view of
  the whole topic holds the newest payload of each event, and the newest payload
  of a marked event is that of its current content.
* `CalendarImplementsLedger`: every step of the pipeline is a step of
  `ReminderLedger` or a stutter; marks need `PublishedBeforeMark` and
  `OnlyValidEvents`, stores need that the fetched payload is in the topic.
* `HealthyAlwaysMeansSent`, `AlwaysSentInTime`: `TimingInv` gives each covered
  reminder a deadline, its opening plus one gap between cycles plus the longest
  cycle for each failure so far, and says that, unless it is sent, the running
  cycle has started, or the next one will start, before it (`InTime`). A failed
  cycle moves the deadline as far as it moves the next start; `CycleClock` bounds
  the next start by the tick that is waiting or due. That the listing has a first
  event to publish takes the least element of a set of numbers (`WFMin`).

### API and commands

* `ReminderAlwaysAsRequested`: the stored events are those of requests that passed
  the validation (`StoreFromRequests`), and the limit that `notificationDuration`
  checks keeps the product below `MaxInt`.
* `MemoryImplementsEventStorage`: `LockHeld` ties the place of each goroutine to the
  lock it holds, from which check and write exclude each other and
  `VerdictStands` follows: what `Check` found still holds at `Write`. So `Write` is
  the atomic statement of `EventStorage` and every other step a stutter.
* `MetricsAlwaysBalance`: `Balance` adds to each counter the goroutines that have
  written and are not yet counted; creations less deletions are then the size of the
  map at every step, whoever is overtaken or disconnected. `Answered` ties the reply of the storage to the
  status that the middleware sees.
* `ListingAlwaysMeetsDays`: `ScanInv` says that what was selected are the matching
  events among those visited, and that nobody writes meanwhile because
  the goroutine is a reader.
* `ResourcesAlwaysOutliveUsers`, `NothingIsLeftOpen`, `SuccessIsAlwaysReal`:
  `CommandInv` ties the listener, the reports of goroutines, the opened resources
  and the deferred closes to the stage of `run` (`ServerInv`, `ServiceInv`,
  `ApiInv`). The properties read off only some of the stages. A request outlives `run`
only when `Shutdown` gave up or the listener failed; `ServerInv` keeps that reason
in `stopErr` or `serveErr` until `run` has reported it.
* `ValidAlwaysMeansUsable`: `ConfigInv` describes what has been applied at each stage
  of loading.
* `BackoffAlwaysWithinLimits`, `VerdictAlwaysHasReason`: `StartupInv` adds that a client
  beyond the validation has accepted settings and a backoff between the two limits,
  which `nextBackoff` keeps because it compares the current delay with the rest up to
  the maximum before it doubles. `ReplyInv` ties a reply that is
  still under way to what the cluster allows, and a probing client to a topic that
  exists; topics and access rights outlast the loss of a leader.

### Exercises

* `WorkAlwaysBounded`, `RunAlwaysReportsRight`: `RunInv` accounts for every task
  that was handed out as in the hands of one worker, succeeded or failed (`TasksAccounted`),
  and ties the counters of the coordinator to these sets (`CountersRight`).
* `PipelineAlwaysFaithful`: for each pair of neighbours the values that one has sent
  are those the other has received, in order (`PipelineInv`). From neighbour to
  neighbour this gives the output as a prefix of the input; a channel that was
  closed without `done` was closed by a node that had passed on everything.
* `SessionAlwaysReportsRight`: `SessionInv` ties the results of sender and receiver to
  what was copied and, until `runSession` closes the client, an error to the end of
  the copy that failed.
* `ListKeepsItsOrder`, `ListsStayWellFormed`: `Represents` says that a list stands
  for a sequence without repetition: front and back are its ends, `next` and `prev`
  lead from each item to its neighbours, the length is right, and an item outside
  points nowhere. `ListInv` says so of the list and the sequence that walking its
  pointers gives. For each method a lemma takes a list that represents a
  sequence to one that represents the changed sequence. What remains is that
  walking returns the represented sequence (`WalkIs`): `Walk` is a recursive
  function on the number of steps left, and a least number for which it went wrong
  would contradict its equation. Distinctness bounds the walk by the number of
  items.
* `CacheKeepsRecency`: `CacheInv` adds that map and list name each other's items
  (`Caches`) and that there are at most `capacity` of them. The lemmas of the list
  then carry over to the entries; the eviction cuts off the last one, the new one
  itself when the capacity is 0.
* `CopyAlwaysFaithful`: `CopyInv` says that the plan of `OpenSource` still stands
  (`Planned`), that the two paths are different files once the copy goes on (`Apart`,
  from `SameFile`; without it truncating the destination would empty the source), that
  the destination holds what was written, which is the source from the offset on while
  nobody disturbed it (`Copied`), and that the last percentage times the total is at
  most a hundred times what is written (`Shown`). The last part is why a percentage
  rounded down (`Percentage`) neither falls nor exceeds 100.

* `CommandAlwaysSeesItsEnvironment`: `EnvdirInv` says that the overrides are what
  the files read so far say (`FilesRead`) and that, at each turn of the merge, the
  environment shows the part of the parent passed so far for names outside the
  directory, and each override whose turn has come exactly once (`Merged`). Two facts
  carry it: appending a variable changes the lookup of its own name only
  (`LookupAppend`), and cutting, replacing and trimming give the value that the
  reference reads off the content directly (`ValueIsSaid`).
* `ValidationAlwaysComplete`: `ValidatorInv` says that the tags of the fields passed are
  in order (`TagsRead`), that the errors collected are the failures lexicographically
  before the position of the three loops, each once and in order (`Collected`), and
  what each result stands for (`Verdict`); `LoopPlace` ties the inner loops to a field
  with a proper tag.

Only model-checked: liveness (`CycleEnds`, `ExpiredGoesAway`,
`DueReminderIsStored`, `TopicIsDrained`, `CallReturns`, `CommandStops`,
`StartupEnds`, `ProgramsEnd`), since the prover does not handle fairness. Every other
property of a run is stated by a theorem.

## Not modelled

* JSON and TOML syntax, log lines, HTTP access logging, the histogram of request
  durations and the counters that only count calls: no control depends on them.
* The scanning of SQL rows and the error codes of PostgreSQL: the constraints
  behind the codes are in `EventStorage`. `ListEvents` of the SQL storage is one
  SELECT with the condition that `MemoryStorage` has in its loop.
* The generated parts of the OpenAPI package beyond binding and routing.
* Command-line flags, `Connect` of the telnet client, the integration test helpers.
* A payload that decodes and that PostgreSQL refuses every time: `SaveNotification`
  fails finitely often in `Storer`, so `TopicIsDrained` says nothing of it. The code
  would end and, once restarted, meet the same payload again.
* A client that changes events in the middle of a `SchedulerTiming` behaviour: its
  table is fixed and publishing and marking are one step there. `Scheduler` has both.
* The interleaving inside PostgreSQL: a statement with its constraints is one step of
  `EventStorage`, so `BookingsConsistent` shows what the constraints and the
  conditions of the code give together, not how the database enforces them.
* `hw02`, `hw03` and `hw10`: pure functions on strings, whose cases are lines of the
  tables in their tests.

Properties of the design that the models make visible, without a document that
says otherwise: a reminder shorter than the interval of the ticker can be missed;
an event that Kafka refuses holds up the events listed after it until it begins;
with a second scheduler or a late write an older notification can be the last.

One document says otherwise: `src/hw11_telnet_client/README.md:18` has Ctrl+D close the
socket and end the program. The code does so (`SessionEnds`) unless the peer has
stopped reading: then `Send` (`telnet.go:40`) stays in a Write without a deadline,
never meets the end of the input, and neither the message nor the grace period is
reached until an interrupt or a close by the peer. `SessionEnds` therefore excepts
`SendBlocked`; without that exception TLC finds the session that does not end.

## Status

Model and runs are complete as far as the sections above say, and every invariant,
action property and refinement that a run checks is proved. Liveness stays with TLC.
A change of the code is followed by a change of the definition that
`PROJECT.json` maps to its lines; the runs then show whether a property is lost, and
the failing proof step which fact the argument used.
