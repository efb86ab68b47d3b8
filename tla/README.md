# bus-exporter in TLA+

`bus-exporter` polls devices on Modbus, I2C, SPI and I3C buses and exports what it
reads over OTLP, Prometheus and MQTT. This directory holds TLA+ models of it, the TLC
configurations that check them and the TLAPS proofs about them. Paths like
`collector.rs:275` are below `src/src/`, documents below `src/spec/`.

To check everything: `tlc -config <run>.cfg <module>` for the runs listed below, and
`tlapm` on each of the `*Proofs.tla` modules.

## 1. The system

```
  operator signal
        |
   run_command ---- watch channel (stop) ----> collector task 1..n ---- bus, device
        |                                           |
        | CancellationToken                         | publish(snapshot)
        v                                           v
   exporter tasks <---- all_metrics_flat ---- MetricStore
   Prometheus / OTLP / MQTT                   (DashMap, one snapshot per collector)
        |
   scraper / OTLP receiver / broker
```

| Component | State | Operations | Hard behaviour |
|---|---|---|---|
| Collector task, `collector.rs` `run_collector`, `reconnect_with_init_writes` | connection of its reader, backoff, consecutive `pre_poll` failures, local and previous cache, error counts, its counters | connect, init_writes, pre_poll, read, merge, publish, sleep, reconnect, return | failures at every await, shutdown at every await, partial failures of one read, retry and backoff |
| Collector engine, `collector.rs` `CollectorEngine` | task handles, watch channel | spawn, shutdown with a 5 s timeout | a task that never returns |
| Metric store, `metrics.rs` | collector -> snapshot | publish, all_metrics_flat | scans that are not atomic over collectors |
| Prometheus exporter, `exporter/prometheus` | scrape counter, requests in progress | serve, metrics_handler | concurrent requests and publications, graceful shutdown |
| OTLP exporter, `exporter/otlp` | registered instruments, shared values, the SDK's reader thread | tick, register, share, final flush | three activities interleave: loop, callbacks, publications |
| MQTT exporter, `exporter/mqtt` | backoff, request channel, event-loop task, retained status at the broker | connect, announce, publish, farewell, reconnect | two tasks and a broker; a bounded channel; last wills of dead sessions |
| Daemon, `commands/run.rs`, `main.rs` | tasks, token, channel, the tokio runtime | start, signal, stop, return, drop of the runtime | order of stopping, hanging buses, blocking jobs that outlive their tasks |
| Modbus batch reader, `reader/modbus/batch.rs` | a list of metrics, ranges, results | coalesce, read, split, fall back | u16 arithmetic, overlapping ranges, one bad register in a range |
| Modbus clients, `reader/modbus/{tcp,rtu}.rs` | an optional transport | connect, read with a timeout, disconnect | a late answer after a timeout |
| I3C readers and writers, `reader/i3c` | per-bus lock, an address cache each for reader and writer | resolve, transfer, back off, invalidate | bus resets: stale addresses; a class instance that is counted over all buses; sleeping with the lock held |
| I2C readers and writers, `reader/i2c` | device, one lock for each bus path of the process | read, execute_writes | a read is two system calls; collectors share buses and devices |
| SPI readers and writers, `reader/spi` | device, one lock for each device path | read, execute_writes | padding and slicing of responses; the lock is shared |
| Decoder, `reader/decoder.rs` | none | decode, decode_bytes | four byte orders, three widths |
| Configuration, `config.rs` | none | merge metrics files, load, load_for_pull, validate | layers that overlap; what readers take for validated; u16 sums |
| `pull` and `watch`, `commands/mod.rs`, `pull.rs`, `watch.rs` | collector and iteration they are at, totals, Ctrl-C | filter, create, connect, read, report, rest | failures at each stage, Ctrl-C at each await, unvalidated metrics |
| `show-config`, `install`, logging | short-lived | straight-line | |

Interactions: collectors call reader and writer objects they own alone; they call
`MetricStore::publish`; exporters call `all_metrics_flat`; the daemon stops collectors
through a `watch` channel and exporters through a `CancellationToken`; each collector has
a token of its own that it hands to `read`. Nothing is persisted: there is no crash
recovery to speak of, a restart begins with an empty store.

What makes each component correct:

* collector: never polls an uninitialised device; publishes exactly the latest good value
  of each metric and the number of failures; counts each cycle once; leaves a lost link;
  backs off and recovers; always returns on shutdown;
* store: a snapshot is replaced as a whole; scans are made of whole snapshots and never
  go back;
* exporters: what a consumer sees never goes back and is never torn; the last values are
  flushed; a cancelled exporter returns; MQTT's status topic tells the truth;
* daemon: `main()` returns after a signal, whatever hangs, and not before the flush; after that
  only a blocking job can keep the process;
* batch reader: each value comes from the bytes of its own registers, in its byte order;
  failures do not spread;
* Modbus session: an answer is taken for the request it belongs to; every read ends;
* I3C: one job works on a bus at a time, its retries included; a retry goes out with the address
  sysfs has now; collectors of one bus are answered by devices of their own (they are not,
  finding 4);
* I2C and SPI: a value is that of the metric's own register however many collectors share
  the bus; a read happens only after every write got through;
* configuration: what is accepted makes no reader panic; of a name defined twice the right
  metric survives;
* `pull` and `watch`: every metric is counted once, the exit code is true, Ctrl-C ends it.

## 2. Modules

| Module | Models | Extends |
|---|---|---|
| `Collector` | one collector task with its reader, writer and slot of the store | |
| `MetricFeed` | the abstract promise of one slot: snapshots only ever advance | |
| `MetricStore` | the store: publish, and what a scan finds in a shard | |
| `PrometheusExporter` | requests, pages and graceful shutdown | `MetricStore` |
| `OtlpExporter` | push loop, instruments, callbacks, SDK thread, final flush | `MetricStore` |
| `MqttExporter` | exporter task, event-loop task, request channel, broker | |
| `Daemon` | main task, collectors in outline, exporters; OTLP in full | `OtlpExporter` |
| `Decoder` | which bytes of what was read make up a value, and in which order | |
| `Config` | merging of metrics files, `load`, `load_for_pull`, `validate` | `Decoder` |
| `DeviceBus` | I2C and SPI readers and writers under their locks; Modbus and I3C calls in outline | `Config` |
| `Commands` | the process of `run`, `pull`, `watch` and `show-config`, from its configuration file to its exit code | `DeviceBus` |
| `ModbusBatch` | batch_read_coalesced as a sequence of bus reads | `Decoder` |
| `ModbusSession` | the transport of a Modbus reader, TCP or RTU, and its read timeout | |
| `I3cBus` | I3C readers and writers on one bus, with its lock and its resets | |
| `MC*` | constants for TLC | the module named |
| `CollectorProofs` | theorems about `Collector` and its refinement of `MetricFeed` | `Collector` |
| `StoreProofs` | lemmas about publications and scans | `MetricStore` |
| `PrometheusProofs` | theorems about `PrometheusExporter` | `PrometheusExporter`, `StoreProofs` |
| `DaemonProofs` | theorems about `OtlpExporter`, and that `Daemon` implements it | `Daemon`, `StoreProofs` |
| `ModbusProofs` | theorems about `ModbusBatch` and `ModbusSession` | both |
| `MqttProofs`, `I3cProofs`, `CommandsProofs` | theorems about `MqttExporter`, `I3cBus`, and `Commands` with `DeviceBus` | the module named |

**Steps.** The program runs on a multi-threaded tokio runtime. A step of a model is the
code between two awaits, cut again where another task could look in between: the
collector's counters are updated before its snapshot is published (`ReadCompletes`,
`Publish`), a scan reads the store shard by shard (`ReadShard`, `ScanShard`), instruments
are registered before the values are shared (`Register`, `Share`).

**Collector.** `pc` names the await the task is in; the table in the module's header maps
it to the code. `session` abstracts the reader's transport: "live", "dead" when the peer
is gone and the reader cannot know yet, "none" when disconnected. A value is the number of
the poll cycle that read it, which is all that "latest" and "stale" need. Constants turn
writer steps on and off; `DetectsLoss` has what a read that finds the session dead may do to
`is_connected()`: make it false (TRUE) or not (FALSE). All readers in the repository answer
from a flag or an `Option` that a failed read leaves alone, so {FALSE} describes them; {TRUE}
is the reader that the loop in `collector.rs:275` is written for. The passing run and the
proofs cover both, the violation run the readers there are. `initialised` and `lastGood` are
history variables.

**Store and exporters.** DashMap's iterator holds one shard's lock at a time; `ShardOf`
is arbitrary. An exporter reads shards in order. The Prometheus page carries the scrape
counter, bumped before the scan. In `OtlpExporter` the SDK is external: it may collect at
any time, runs callbacks in any order, may fail to send, and collects once more on
shutdown; `provider.shutdown()` may also give up first.

**MQTT.** rumqttc and the broker are external: a bounded channel whose receiver dies with
the event loop, in-order delivery on a connection, a last will when a session ends without
DISCONNECT, possibly only when the same client id connects again.

**Daemon.** Collectors are cut down to what a shutdown can tell apart: listening for the
stop or not. A collector may be busy for ever. Prometheus and MQTT are tasks that return
when cancelled, which their own modules show. `main = "Returned"` is after `run_command`, while
`#[tokio::main]` (`main.rs:11`) drops the runtime: tasks are dropped at the await they have
come to, but a `spawn_blocking` job under way runs on and the drop waits for it, with no
timeout. `Blocking` is the set of collectors whose bus operations are such jobs: those on I2C, SPI
and I3C, and a Modbus TCP collector in its host lookup. The SDK's thread needs no runtime and
runs until the process exits.

**ModbusBatch** and **Decoder.** The content of a register is its identity and each has a
high and a low byte, so a decoded metric is the sequence of bytes it was put together from:
reading from wrong registers and a wrong byte order are both visible. `U16Max`, the gap and
the range limit are constants, small in the runs. `Checked` says whether the list went
through `Config::validate` (the daemon) or not (`pull`, `watch`).

**ModbusSession.** `context` is the reader's `Option<Context>`, with a third value for a
transport that has died in it. tokio_modbus and the device are external: requests are
answered in order, late or never. TCP numbers its transactions, RTU does not, and that is
all the difference `Matches` makes. `givenUp` is a history variable: since the line was
last quiet a read ended without its answer. Who may call `connect` and when is left open;
the collector task is one such caller.

**I3cBus.** A call of `read` or `execute_writes` is a number of jobs, one per metric or
step, each under the bus lock. `cache` has an entry for the reader and one for the writer,
since `create` and `create_writer` build an `I3cMetricReader` each. A bus reset moves
devices at any time, on and off their buses. Devices are numbered in the order of their sysfs
paths, on all buses: a class instance is the nth of those present, which need not be on this
bus. `LinuxI3cDevice::write_read` does not use the address it is given, so the device that
answers is `reached`, the one the driver has for the bus file, whatever was resolved. `calm` and
`answered` are history variables: that there was no reset since the last attempt of the job
failed, and who answered each collector since the last reset. Every transfer may also fail,
with an error `classify_error` knows or not.

**Config.** Records have the fields of the structs in `config.rs`; an `Option` is a sequence
of at most one element. `Layers` and `Insert` are the `IndexMap` that
`resolve_metrics_files` fills; `Validate` is the whole of `validate` but for parsing. The sum
in the check of an SPI response is taken modulo 2^16, as a release build does.

**DeviceBus.** `call` says where the current call of each collector's reader or writer is
(waiting for the lock, holding it, between the two system calls of an I2C read, ended,
failed, panicked), `held` which locks are taken, `register` which register each I2C device
reads next. A byte of a device is its identity, so a value that comes from another register
is seen. Readers and writers share locks by the path they were given, as `BUS_LOCKS` and
`DEVICE_LOCKS` do. Reads over Modbus and I3C are one step here and may succeed for any part
of their metrics: `ModbusBatch`, `ModbusSession` and `I3cBus` have them in full.

**Commands.** `phase` is where the process is. Under `run` all collectors poll at the same
time, in outline (down, or up once `init_writes` got through); under `pull` and `watch`
`collect_once` goes through them one by one. Ctrl-C may come at any moment of `watch`; the
readers look at the token before each metric. `obtained` is a history variable: values that
devices delivered.

Definitions named after a mistake and introduced by a comment "Mutant of ..." are used by
no action. Each is a plausible bug in the definition that follows it, kept so that every
property can be seen to fail when the code is broken in that way.

## 3. Runs

| Run (module) | Expect | Shows |
|---|---|---|
| `Collector.cfg` (MCCollector) | pass | a device is never polled uninitialised, cycles and errors are counted, the backoff is reset, snapshots are current; `MetricFeed` is implemented; the task returns after shutdown |
| `CollectorLostLink.cfg` | violation | `LostLinkAborts`, finding 1 |
| `Prometheus.cfg` (MCPrometheus) | pass | pages are untorn, fresh and advance; the server returns |
| `Mqtt.cfg` (MqttExporter) | pass | online before metrics; returns and ends offline; no wait on a full channel for ever |
| `Daemon.cfg` (MCDaemon) | pass | everything shared is exported, exports advance, the flush is complete; `main()` returns although a bus hangs, and not before the final update; the process exits unless what hangs is a blocking job |
| `DaemonLastValues.cfg` | violation | `LastValuesExported`, finding 2 |
| `ModbusBatch.cfg` (MCModbusBatch) | pass | own bytes in the right order, legal ranges, isolated failures |
| `ModbusBatchTop.cfg` | violation | `FailuresIsolated`, finding 3 |
| `ModbusSession.cfg` (ModbusSession) | pass | answers belong to their requests, one request at a time, reads end |
| `I3cBus.cfg` (MCI3cBus) | pass | one job at a time, retries with the address of the moment, cancelled calls end |
| `I3cBusAnswers.cfg` | violation | `AnswersApart`, finding 4 |
| `Commands.cfg` (MCCommands) | pass | values come from their own registers, validation keeps readers from panicking, reads follow all writes, summaries and exit codes are true, layers are merged by priority, Ctrl-C ends `watch` |

### Bounds

* `Collector`: two metrics (one can fail while the other is read), four poll cycles (three
  consecutive `pre_poll` failures and one cycle after the reconnect), `MaxBackoff` 3 so
  that the cap cuts a doubling off. `IoCounts` has one value: the count is only summed up.
* `Prometheus`: two collectors in different shards, two names (a page can be torn), two
  cycles of the first collector (one can fall between the two shards of a scan), two
  connections, two requests.
* `Mqtt`: three metrics and a channel of two: a snapshot does not fit. Reconnects are not bounded; the backoff is the real 1 s to 60 s.
* `Daemon`: two collectors in different shards; one of them publishes twice, so that the
  final scan can be ahead of the batch before, the other once. Each may be skipped at start.
  One of the two has blocking bus operations, so that the exit can be kept or not.
  Ticks and collections are not bounded. 470,000 states.
* `ModbusBatch`: every list of three out of 23 metrics: seven start addresses, one, two
  or four registers, plus an input register, a coil and a metric without address. 16
  addresses, ranges of at most five registers and gaps of at most two make merging, the
  limit and the gap all bite; `ModbusBatchTop` is about the last five addresses, with
  validated metrics only. Every width meets every byte order.
* `ModbusSession`: two reads, so that an answer can be somebody else's; three requests and
  answers on the way, so that two reads can have been given up when a third begins.
  Reconnects, timeouts and lost answers are not bounded.
* `I3cBus`: a collector by class and one with a static address; two devices of the class, the
  first of which is on another bus, so that the instance moves when it drops off; two
  addresses, so that a device can move; two retries of the real three (one that is not the
  last and one that is), one metric, one write step. Resets and calls are not bounded. 134,000
  states. `I3cBusAnswers` has three devices, two of them on the bus, and two collectors by pid.
* `Commands`: 37 configuration files and four filters under each of the commands. Two
  collectors share an I2C device and both read and write it; SPI responses with the offset
  right, at the end, past it and at 65535; metrics without address, out of range, in a byte
  order of Modbus; steps with half of their fields; two metrics files that overlap each other
  and the inline metrics; files that are not there, empty, or without a needed default. Two
  poll cycles, so that a cycle can begin while the other collector is in its second half;
  two iterations of `watch`, so that totals add up. 180,000 states.

`MaxPolls`, `MaxCycles`, `MaxScrapes`, `MaxOutstanding` and `MaxIterations` are the only
guards the code does not have.

### Fairness

* `Collector!FairSpec`: weak fairness of the task. Sleeps end and bus calls return, which
  holds for Modbus reads (5 s timeout) and for transfers through a driver; a Modbus TCP
  connect has only the kernel's timeout. The environment (signal, lost link) gets none.
* `PrometheusExporter`: handlers and the server are scheduled. The handler has no await
  inside; a slow client is a slow `Respond`.
* `MqttExporter`: both tasks, the cancelled branches of their `select!`s, and a broker
  that notices a closed socket.
* `Daemon`: the main task after the signal; the OTLP loop, with strong fairness of its
  cancelled branch, because `select!` chooses at random among ready branches and the branch
  stays ready; and the return of the other exporters once they are cancelled, which is what
  their own runs establish. The SDK's thread gets none: the exporter returns without it.
  Collectors and their blocking jobs get none, so the run covers a bus operation that never ends.
* `ModbusSession`: the timeout fires. The device owes nobody an answer.
* `I3cBus`: blocking jobs run and the kernel ends every transfer, well or not. Nothing
  makes a collector start a call, and nothing makes the bus calm.
* `Commands`: once started (`Work`), `pull` and `watch` are one thread of steps, and each step
  ends: transfers and opening in the kernel, Modbus reads by their timeout, a Modbus connect
  when the operating system gives up. Neither loading, nor the collectors of `run`, nor Ctrl-C
  get any.

## 4. Findings

1. **A lost link is not noticed** (`collector.rs:275`, `tcp.rs:69`). The loop asks
   `is_connected()`, and no reader clears its transport when a read fails. A collector
   whose device has gone away polls the dead session for ever, publishing old values.
   `collector.md:119` promises an aborted cycle and a reconnect.
2. **Exporters stop first** (`run.rs:125`): what a collector publishes in its last cycle
   is not flushed, against `collector.md:127` and `export-otlp.md:35`.
3. **Top address** (`batch.rs:54`): the saturating sum drops register 65535 from a merged
   range, and the metric fails without an individual read.
4. **I3C addresses are not used** (`i3c/mod.rs:84`): `LinuxI3cDevice::write_read` ignores the
   address, and the ioctl has the bus file and the buffers only. Whichever device the driver
   has for that file answers all collectors of the bus, though each has resolved an address of
   its own; `i3c.md:91` says that access is routed by it.

Noted and not run:

* The collector's backoff is reset by every connect (`collector.rs:55`, `:109`), not after a
  successful cycle as `collector.md:99` says: a device that accepts connections and fails
  its `init_writes` is retried at the initial backoff for ever.
* A configured metric called like the error counter of another one is overwritten by it
  (`collector.rs:353`); the theorems that need it assume `NoCollision`.
* MQTT's backoff is reset once the online message is queued, before any broker is reached
  (`exporter/mqtt/mod.rs:184`), against `export-mqtt.md:46`. While a new client is connecting
  up to 64 requests are buffered although `export-mqtt.md:52` says they are dropped.
* Over RTU a late answer is taken for the answer to the next read; `AnswersOwn` says that a
  timeout is the only way there. After a timeout there is more than one request on the line,
  against `modbus.md:18`.
* A blocking bus operation that hangs keeps the process alive after `main()` has returned, since
  the drop of the runtime waits for it (`main.rs:11`). `ShutdownCompletes` names this as the one
  way the process can be kept. `spi.md:147` takes `polling_interval` for an upper bound of such
  an operation; the code puts none on it.
* An I3C writer never invalidates its cached address nor retries (`i3c/mod.rs:311`), against
  `i3c.md:249` and `:251`; on Linux the address has no effect. `i3c.md:238`
  has collectors of a bus share a file descriptor; the code opens the file for each reader and
  writer.
* An I3C device class and instance is looked up over all buses and among the devices present
  (`i3c/mod.rs:249`): when one drops off, the same configuration finds another device.
* `load_for_pull` skips all validation, not just that of exporters as its comment says. `pull`
  and `watch` therefore hand metrics to the I2C and SPI readers that make them panic, where
  `i2c/mod.rs:174` and `spi/mod.rs:151` count on the validation.
* The check of `response_offset` (`config.rs:1237`) adds two u16: an offset of 65535 wraps in a
  release build and is accepted, and the reader panics when it slices the response.
  `ValidatedNeverPanics` names this one exception.
* `watch` handles Ctrl-C only, though `cli.md:126` names SIGTERM as well. A Ctrl-C in the middle
  of an iteration counts the metrics that were not read any more as failures. A Modbus
  connect that hangs is not interrupted by it.
* `pull` and `watch` run neither `init_writes` nor `pre_poll`.
* The I2C and SPI locks are of one process and of one spelling of a path. `pull` next to a
  running daemon, or `/dev/i2c-1` next to a link to it, share the device without a lock.
* A device that cannot be opened at start is never tried again (`collector.rs:422`).
* `polls_total` also counts the cycle a shutdown cuts off; `modbus.md:11` describes a
  `batch_read` switch, off by default, that the code does not have; `decoder.md` gives a
  swapped order for 16-bit little-endian values that its own note and the code ignore; the
  token handed to `read` is never cancelled while the daemon is in a read (`CancelOnlyAtExit`),
  so the fast shutdown of `reader.md:33` does not happen.

## 5. Proofs

Each theorem holds for every value of the constants that meets the assumptions of its
module; each module's proofs are checked by TLAPS to the last step.

### The collector (`CollectorProofs`)

| Theorem | States |
|---|---|
| `TypeCorrect` | `Spec => []TypeOK` |
| `InitBeforePollHolds`, `PollAccountingHolds`, `PrePollThresholdHolds`, `CancelOnlyAtExitHolds`, `BackoffFreshHolds` | `Spec => []...` of the property named |
| `ReadingsAreLatestHolds`, `ErrorCountersPublishedHolds` | the same, when `NoCollision` |
| `FeedRefinement` | `Spec => Feed!Spec`, when `NoCollision` |

The argument has two inductive invariants. The *control* invariant strengthens the
properties of control: which sessions are possible at which `pc`, that the device is
initialised from the end of `init_writes` to the next disconnect, that the failure count
reaches three only on the way into a reconnect, and how many cycles are open at each `pc`.
None of the properties is inductive alone: `InitBeforePoll`, for instance, needs that no
step leads to `Poll` with `HasInitWrites` except through `InitWritesOk`.

The *data* invariant ties the four places a value lives in: outside `Publish` the store is
the previous cache; the previous cache holds `lastGood` for each metric read so far and an
error count under each error name present; during `Publish` the local cache holds just
this cycle's readings, and `lastGood` and `errorCounts` are already those of the cycle, so
the merge restores the tie. `NoCollision` (no metric is named like an error counter) is
needed exactly where such a name would be overwritten. The assumption on constants that
`ErrName` is injective is what `format!("{}_errors", name)` gives.

The refinement follows from the data invariant: a publish replaces readings by readings of
the same or a later cycle and counts by counts at least as large.

### The store and its readers (`StoreProofs`, `PrometheusProofs`, `DaemonProofs`)

| Theorem | States |
|---|---|
| `PageTypeCorrect`, `PagesUntornHolds` | `Spec => []...` of `PrometheusExporter` |
| `PagesFreshHolds`, `PagesAdvanceHolds` | `Spec => ...`, action properties |
| `OtlpTypeCorrect`, `SharedHaveInstrumentsHolds`, `FinalFlushCompleteHolds` | `Spec => []...` of `OtlpExporter` |
| `ExportsAdvanceHolds` | `Spec => ExportsAdvance` |
| `DaemonImplementsOtlp` | `DaemonSpec => Spec`: a daemon behaves like an exporter |
| `DaemonExports` | hence the three above hold of the daemon |
| `DaemonTypeCorrect`, `ExitAfterFinalUpdateHolds` | `DaemonSpec => []...` |

`NotOlder`, the order in which everything advances, is a pre-order (`StoreProofs`), and a
publication never leads back in it. The invariant of the OTLP exporter follows a value on
its way along it: the store is never behind the running scan, the scan, for the shards it has
been to, never behind what is shared, and what is shared never behind the last batch, save
for the names whose callbacks are still to come. `FinalFlushComplete` is the same chain
begun at the snapshot the history variable took when the exporter was cancelled.
`SharedHaveInstruments` holds while registering because new names are registered from the
scan before it is shared.

For Prometheus one invariant says of each request that the store at its start is in what it
has seen or in shards still to be seen, which yields `PagesFresh` and, since a connection's
last page is not newer than the store, `PagesAdvance`. `PagesUntorn` needs a second one: of
each collector the store, the scans and the pages all show the latest values as of one number
of poll cycles. A snapshot as of k cycles is a CHOOSE, so a lemma first shows which value it is.

### MQTT (`MqttProofs`)

`TypeCorrect` and `OnlineBeforeMetricsHolds`. Between the queueing of "online" and the
status at the broker lie a bounded channel, a second task and the last will of an older
session. The invariant `AnnounceInv` says where the announcement is: it is the first request
in the channel of a live loop, or it has been delivered on this session and nothing has
undone it, as long as the exporter is not cancelled. That the channel is empty when "online"
is queued, since each connection has a channel of its own, makes the first part inductive.

### Modbus (`ModbusProofs`)

| Theorem | States |
|---|---|
| `DecodedFromOwnRegistersHolds` | `Spec => []DecodedFromOwnRegisters`, of `ModbusBatch` |
| `RangesLegalBelowTop` | no merged range is longer than one read, and only one that begins at the top address is empty |
| `RangesLegalHolds` | `RangesLegal`, when no metric is listed at the top address |
| `FailuresIsolatedBelowTop` | a metric that ends below the top address fails on its own account only |
| `FailuresIsolatedHolds` | `FailuresIsolated`, when every metric of the list ends below the top address |
| `BatchTypeCorrect` | `Spec => []TypeOK`: a list costs two reads for each of its metrics at most |
| `OneOutstandingHolds`, `AnswersOwnHolds` | `SessionSpec => ...`, of `ModbusSession` |

*The batch*, for all metrics, list lengths, gaps, limits and address spaces. The lemmas before
the invariant say what coalescing makes of a list: the sort finds an order (`InOrder` is a
CHOOSE, so an order has to exist), and every range made from it, by induction along the list,
holds metrics of one type, begins no later and ends no earlier than each of them (`RangesOf`).
`BatchInv` adds where a metric without a result is queued, and that a result is a failure or
decoded from the metric's own bytes. Cutting a metric's part out of the buffer of a range that
holds all of it gives what reading it alone gives (`CutFromRange`), which is the step that
matters. `CostInv` bounds the reads: no metric waits twice, in one range or in two, and the reads
made so far, two for each metric in a range and one for each waiting for a read of its own are
together no more than two for each metric of the list. The two theorems on ranges assume
`Roomy`: the widest metric, four registers, fits into a read, as it does with a limit of 125. Finding 3 is why two theorems exclude the top address;
their `...BelowTop` halves show that there is no other exception.

*The session*, for any set of reads and any `MaxOutstanding`. The
invariant says that whatever is awaited on the line, requests and answers alike, belongs
to the read under way, and that until a read is given up everything on the line is awaited
and there is at most one such message. `OneOutstanding` alone is not inductive: it does not
say that the one answer on the way is the answer to the read that takes it. The lemmas before
it say what the four things that happen to a line (a message more, one less, a prefix dropped,
nobody waiting any more) do to these facts.

### I3C (`I3cProofs`)

`TypeCorrect`, `BusIsExclusiveHolds` and `RetriesResolveAnewHolds`, for any collectors, devices,
classes, addresses, metrics, steps and at least one retry. The invariant `IInv` ties the job
to the lock and the caches: whoever is resolving, sending or asleep between two attempts has the
lock, and a writer never retries (`JobInv`); a static address never leaves a cache, and a reader
about to resolve for a retry has an empty one (`AddressInv`); a retry then sends to what it found
in sysfs, which nothing but a reset changes (`RetryInv`). `RetriesResolveAnew` alone is not
inductive: it says nothing of the cache a retry will resolve from. Nothing is proved about which
device answers, which no step of the code determines.

### Commands and shared devices (`CommandsProofs`)

| Theorem | States |
|---|---|
| `ListsTypedHolds` | merging and filtering leave well-typed lists, with one metric of a name in each collector |
| `MergedByPriorityHolds` | `Spec => []MergedByPriority`: of several definitions exactly the last is there |
| `LocksExclusiveHolds` | one transfer at a time on a bus or device |
| `ReadsOwnRegisterHolds`, `ValidatedNeverPanicsHolds`, `ReadsFollowAllWritesHolds`, `SummaryTruthfulHolds`, `TypeOKHolds` | `Spec => []...` of the property named |

for any configuration files, filters and bounds. `CommandsAssumption` says of the files what the
types of the structs guarantee once serde has read them (`ConfigTyped`): fields are there,
lists are lists, and a data type is one of the enum. Nothing is assumed of the lists that
merging and filtering make of them. The invariants build on each other:

* `LoadInv`: the collectors at work are what filtering retains of the merged files. `Layers`,
  `Insert`, `Retained` and the folds are recursive; the library's induction theorems cannot be
  used here, since they take a predicate, so the module first proves induction for *sets* of
  numbers from the least-element principle, and from it that a recursive function and a fold
  satisfy their equations.
* `BusInv` ties `call`, `held` and `register`: a call holds its lock exactly while it is in a
  transfer, and between the two system calls of an I2C read the device is at the register
  the call has selected. Any other call that could move it holds the same lock, since the same
  device has the same bus. `ProcessInv` adds that `pull` and `watch` have one call under way at
  most.
* `RunInv`: under `run` the configuration is validated, from which each unwrap and slice of the
  readers follows: an address is there, and a response is as long as offset and value,
  unless the sum of the two has wrapped.
* `WritesInv`: what a call has sent is what the steps before the next one had to send, a step
  with half of its fields counting as nothing. That `Meant` and the writers agree on which steps
  these are is what `StepsValid` of a validated configuration gives: this is why the property
  is about `run` only.
* `ReadInv`: a read has results only of metrics before the next one. Since names are unique in a
  collector, it never has more results than the collector has metrics.
* `TallyInv`: successes and failures add up to the metrics of all finished iterations and of the
  collectors before the current one, and the successes are the values that devices delivered.
* `PollInv`: the types of what `run` alone uses.

### Only model-checked

Liveness (`ShutdownTerminates`, `CancelReturns`, `PublishUnblocks`, `ShutdownEndsOffline`,
`ShutdownCompletes`, `ReadsEnd`, `CancelledCallsEnd`, `WatchStops`), which is out of the
prover's reach. Every invariant and every action property of the passing runs is proved, under
the assumptions named above. Three properties are proved and in no run, since the runs have
more telling ones: `CancelOnlyAtExit`, and `TypeOK` of `PrometheusExporter` and of `ModbusBatch`.

What the properties leave open: `CancelledCallsEnd` says that a wait for an I3C bus ends, not
that it is over in 2.6 s; `ReadingsAreLatest` is checked and proved for names that do not
collide; `ValidatedNeverPanics` is about `run`, and excepts the offset with which the validation
wraps; `PrePollThreshold` does not forbid a reconnect that comes too early.

## 6. Not modelled

* Data the properties do not tell apart: label merging, units, descriptions, timestamps, poll
  durations, text formats; scale, offset and floating point; YAML and environment parsing.
* `install` and logging: straight-line I/O, once. `metrics_for`, `remove_collector`,
  `collector_count` and the `MetricExporter` trait: only tests use them.
* The kinds of OTLP instruments (the first type of a name wins) and the second meter for
  internal metrics, which has the same loop and callbacks as the first.
* The rendering of internal metrics and uptime; the counters are counted in `Collector` and
  `PrometheusExporter`.
* When exactly MQTT's backoff should be reset: the model resets it where the code does, and the
  note in section 4 says what the document expects.
* A second process on the same bus, over which the locks have no power.
* In `I3cBus` the delays between write steps, and `connect` and `disconnect`, which set a flag
  that only `is_connected` reads.

## 7. How the modules build on each other

```
Collector -> CollectorProofs          Decoder -> Config -> DeviceBus -> Commands -> CommandsProofs
   | implements                          \-> ModbusBatch ---> ModbusProofs
MetricFeed                            ModbusSession ----------/
                                      I3cBus -> I3cProofs
MetricStore -> OtlpExporter -> Daemon -> DaemonProofs     MqttExporter -> MqttProofs
     \-> PrometheusExporter -> PrometheusProofs
     \-> StoreProofs -> (DaemonProofs, PrometheusProofs)
```

What a next step could be: the second meter and the instrument kinds in `OtlpExporter`.
