# A verification development for handystats

handystats is a C++ library that collects statistics inside a user's
application. Threads of the application call *measuring points* (counters,
gauges, timers, attributes); these create *event messages* and push them into a
lock-free queue. One *processor thread* of the library pops them, updates
*metrics* made of *incremental statistics*, and from time to time publishes a
*dump* that the application reads.

This directory holds TLA+ models of that system, the TLC configurations that
check them on small instances, and TLAPS proofs about them. Paths such as
`message_queue.cpp:51` are relative to `src/src/` of the repository.

## 1. Inventory

### 1.1 Components

| Component | State it keeps | Operations | Talks to |
|---|---|---|---|
| Message queue (`message_queue.cpp`) | `m_head_node` (atomic), `m_tail_node` (consumer only), the `next` pointers, the counter `mq_size`, the global pointer `event_message_queue` | `push`, `pop`, `empty`, `size`, `initialize`, `finalize` | called by measuring points (push), the processor thread (pop), `finalize` (drain) |
| Core life cycle (`core.cpp`) | `operation_mutex`, `enabled_flag`, `processor_thread`, `core_opts.enable` | `initialize`, `finalize`, the loop `run_processor`/`process_message_queue`, `is_enabled` | every other component |
| Measuring points (`measuring_points/*.cpp`, `.hpp`, `.h`) | none (proxies and scoped helpers keep a name and an id) | one function per event | `is_enabled`, events, queue |
| Events (`events/*.cpp`) | a heap message each | creation, deletion, dispatch to a metric | queue, metrics |
| Timer metric (`metrics/timer.cpp`) | active instances with their heartbeats, idle timeout, time of the last idle check, statistics | start, stop, heartbeat, discard, set, init, update_statistics | incremental statistics |
| Counter, gauge, attribute (`metrics/*.cpp`) | value, timestamp, statistics | init, increment/decrement, set | incremental statistics |
| Registry (`internal.cpp`) | the map from names to metrics | `process_event_message`, `update_metrics`, `initialize`, `finalize` | metrics, configuration, events |
| Incremental statistics (`statistics.cpp`) | min, max, count, sum, average; moving count, sum, average; frequency; histogram; tags; `m_timestamp` | `update`, `update_time`, `reset`, quantiles | math_utils |
| Metrics dump (`metrics_dump.cpp`) | the published dump under a lock; time of the last dump | `update`, `initialize`, `finalize`, getters | registry, time |
| Configuration (`config.cpp`, `config/*`) | options of every component, list of patterns | `config_json`, `config_file`, `initialize`, `finalize`, `select_pattern` | core (mutex), registry |
| Time (`chrono.cpp`, `chrono/*`) | frequency of the TSC, the offset to the system clock and its lock | `now`, `to_system_time`, unit conversions | all |
| JSON output (`json*`) | none | writes a dump | metrics dump |
| CPU probe (`cpuid_impl.hpp`), C bindings and macros, benchmark | none | | |

### 1.2 What is hard, and what makes each component correct

* **Message queue.** A producer exchanges the head first and links its
  predecessor later; the list is broken in between, and `pop()` must neither
  free the predecessor, nor lose what lies behind the gap, nor return the stub.
  The counter is updated after the list, by other instructions. Correct means:
  every message has one owner, no freed node is touched, the consumer sees a
  FIFO, no message is lost, and the counter never wraps.
* **Core.** `initialize`, `finalize` and `config_json` may be called from
  several threads, in any order and number; `finalize` joins a thread and drains
  the queue while it holds the mutex; the start of the thread can fail after
  the flag was set. Correct means: nothing is used after it is destroyed,
  sessions do not leak into each other, an enabled library has a consumer, and
  the operations return.
* **Timer.** Events carry the time of the call and are processed in the order
  of the exchange, so timestamps go backwards; expired instances are looked for
  lazily. Correct means: an expired instance never yields a measurement, and
  instances do not stay for ever.
* **Incremental statistics.** A moving interval approximated by decay; values
  from the past; divisions by a covered interval; histogram bins that are
  merged and dropped. Correct means: no division by zero, conservation of
  counts, shifting in several steps agrees with shifting once, ordered bins.
* **Registry.** The event is dispatched by the type of the metric that exists
  under its name; an INIT event replaces a metric and its options. Correct means:
  the values a counter passes through are those of its events, in their order.
* **Metrics dump.** The queue is empty before its last event is processed, and
  a dump is dated in milliseconds. Correct means: a reader that waits for an
  empty queue and then for a later dump finds its events in it.
* **Configuration.** Patterns accumulate over calls of `config_json`, and the
  first that matches counts; a pattern that cannot be expanded and a misspelt tag
  leave part of the work done. Correct means: a metric has the options of the
  first accepted pattern that means its name, over those of its kind.
* **Time.** Threads race for the lock of the offset, whose two parts are written
  one after the other; a thread may be delayed between two readings of the clocks;
  conversions are done in unsigned arithmetic. Correct means: an offset that is
  used as recent was measured recently, its update is never blocked for good,
  and durations are wrong by truncation and rounding at most.

`PROJECT.json` lists these as `hazards`, each at its line with the properties
that cover it, or the reason why none does.

## 2. Modules

    EventQueue  <--implements--  MessageQueue --> MessageQueue_proofs
    (abstract FIFO)              |
                           MCMessageQueue

    Core --> MCCore
      +----> Core_proofs

    Conversions --> Durations --> MCDurations
        |               +-------> Durations_proofs
        |                              | (instantiated by)
        +---------> Timer --------> Timer_proofs
                      +-----------> MCTimer

    Rationals --> Interval --> Histogram --> Statistics --> MCStatistics
        |                                         +-------> Statistics_proofs
        +--> Rationals_proofs --> Statistics_proofs, SystemTime_proofs, Library_proofs
        +-------> TscClock --> SystemTime --> MCSystemTime
                                   +--------> SystemTime_proofs

    Patterns --> Configuration --+
                      Events ----+--> Registry --> JsonDump --> Library --> MCLibrary
                                                                   +------> Library_proofs

An arrow reads "is extended by". The stacks meet at these interfaces:

* `MessageQueue` shows that the lock-free list is a FIFO; `Core` and `Library`
  use a sequence in its place.
* `Core` is about starting and stopping, from many threads; `Library` is one
  session between them, with the contents that `Core` leaves out (options, values
  of metrics, dates of dumps).
* `Timer` is about instances and their expiry, `Statistics` about what a metric
  shows of the data it was fed; in `Registry` the statistics of a metric *are* the
  data it was fed.
* `Conversions` is what `convert_to()` makes of one duration; `Durations` chains
  conversions and arithmetic, and `Timer` converts what `stop()` reports.
* `SystemTime` is about two clocks; the other modules use one clock.

### 2.1 `MessageQueue`, `EventQueue`

`MessageQueue` is `mpsc_queue::push`/`pop` with every access to a shared atomic
as an action of its own, and the users of the queue: a producer allocates a
message, pushes it and increments `mq_size`; the consumer tests `empty()`, pops,
decrements `mq_size` and deletes the message.

| Code (`message_queue.cpp`) | Actions |
|---|---|
| `new event_message` in a measuring point | `CreateEvent` |
| `push(n)` lines 49, 50, 51 | `StoreNext`, `Exchange`, `Link` |
| `++mq_size` | `Count` |
| `if (!empty())` | `CheckEmpty` |
| `pop()` first load, and the skip of the stub | `LoadFirst`, `LoadSecond` |
| `pop()` comparison with the head | `LoadHead` |
| `push(&m_stub_node)` inside `pop()` | `StoreStub`, `ExchangeStub`, `LinkStub` |
| `pop()` last load | `LoadLast` |
| `--mq_size` | `Decrement` |
| `delete_event_message` | `DeleteMessage` |

*Addresses, not messages.* `Messages` is a set of heap addresses. An address
that was freed may be returned by the next allocation, while another producer
still remembers it. Hence the model contains every ABA scenario, and neither
the number of pushes nor the run time is bounded. A fresh node has an arbitrary
`next`, since the code does not initialize it.

*Memory order.* Interleavings are sequentially consistent. The code publishes a
node with a release store to `prev->next` which `pop()` acquires, exchanges the
head with acquire-release, and uses the default (sequentially consistent)
order for `mq_size`; `m_tail_node` is private to the consumer. Reorderings
that this argument does not exclude are outside the model.

*The auxiliary variable* `chain` lists the nodes from tail to head in the order
of the exchanges: the order in which `pop()` must return them, whatever the
`next` pointers look like at the moment. No guard reads it.

`EventQueue` is what the users rely on: a FIFO with `Push`, `Pop` and
`Release`, where each pushed message is eventually popped. The refinement maps
`q` to the chain without the stub and `taken` to the popped message that is not
yet deleted.

### 2.2 `Core`

Composes the life cycle with the queue at the grain of its linearization point
(`q`; justified by the refinement above), the registry (`metrics_map`: the names
that have a metric), the dump (`dump`: the names it shows) and the enable switch.

* *Controllers* are client threads that call `initialize()` (`LockInitialize`,
  `InitComponents`, `SetEnabled`, `StartThread`, `Unlock`), `finalize()`
  (`LockFinalize`, then one action per call it makes in `FinalizeStep`), and
  `config_json()` with `enable` true or false (`ConfigJson`).
* *The processor thread* (`ProcessorStep`) tests the flag, tests the counter,
  pops, processes and deletes a message, updates the dump.
* *Producers* read `core_opts.enable` and then `enabled_flag` (the two reads of
  `is_enabled()` are separate actions), create the event and push it in the
  steps that matter to others: exchange, link, count.
* `std::thread`'s constructor may throw (`ThreadStartMayFail`); `finalize()`
  then meets a thread that is not joinable.

*Client obligation.* No measuring point is under way when `finalize()` takes
effect (guards `Quiet`/`Finalizing`). `finalize()` deletes the queue without
any means to wait for producers; a producer that has passed `is_enabled()`
would use a deleted queue. The repository's tests join their threads before
`HANDY_FINALIZE`, and the model assumes what they do. `NoUseAfterDelete`
therefore says: *under this obligation* the order of the steps in
`finalize()` is enough, for every order of the other calls.

### 2.3 `Timer`

One timer metric as the processor thread drives it. `m_instances` is a function
from instance ids to their start, heartbeat and (auxiliary) longest silence.
Each event is one action, since the processor thread handles one event
at a time: `Start`, `Stop`, `Heartbeat`, `Discard`, `SetValue`, `InitEvent`;
`UpdateStatistics` is what `update_metrics()` does before a dump. An event may
lag behind the newest one by up to `Skew`. `m_values` is reduced to its
timestamp and the last value fed to it (`reported`): a measurement has the reported
`duration`, a count of microseconds, and (auxiliary) the `span` between the two
timestamps that it comes from. Timestamps are counts of `ClockUnit`, cycles or, with a
clock of the operating system, nanoseconds; `Measured` is the conversion between them.

### 2.4 `Rationals`, `Interval`, `Histogram`, `Statistics`

Statistics objects that are fed the same values and differ in their configured
tags. The doubles are exact fractions in lowest terms (`Rationals`); rounding, and
the epsilon of `math_utils::cmp`, are abstracted away.

| Code (`statistics.cpp`) | Definitions |
|---|---|
| `shift_interval_data`, `update_interval_data` | `Interval`, under the same names |
| bins: insertion, removal, merging, decay; quantiles with `find_z`; `entropy` | `Histogram`, under the names of the code where it has them |
| `computed` and the table of tags | `Dependants`, `computed` |
| `update`, `update_time`, `reset`, getters | `update`, `update_time`, `reset`, `get_impl`, `get`, `get_safe` |
| `json/statistics_json_writer.hpp` | `write_to_json_value` |

The actions are `AnyUpdate` (`Update(value, timestamp)` for any value and time) and
`UpdateTime(timestamp)`, the refresh before a dump. Timestamps come in any order, as
those of racing threads do. `seen` keeps the values with their times; no definition of
the code reads it. All objects start from `reset`; before anything else `WarmUp` feeds
them one of several sequences, so that the runs reach full histograms soon.
`needed` is the recursion of `computed`: a tag is computed when it or one that depends
on it is enabled.

### 2.5 `Conversions`, `Durations`

`Conversions` is the representation of a duration and `convert_to()`. Counts lie
between `-Limit` and `Limit - 1` (`Limit` is 2^63 in the code). Between units of time a
count is multiplied and divided as an *unsigned* integer and wraps as in the code
(`Unsigned`, `Signed`). To cycles and from them it goes through a long double or a
double, and how those round is left open: `Floating` is the set of all results within
three roundings of one part in `Mantissa` (2^53 for a double) or `ExtendedMantissa`
(2^64 for a long double) each, truncated towards zero. `convert_to` is therefore a set
of results, as is every operator that converts. `cycles_per_nanosec` is the fraction
`Cycles / Nanosecs`.

What the conversion *should* give is said apart from that: `Length`, in parts of a
nanosecond that all units are multiples of; `Loss`, one unit of the result for the
truncation, and the roundings; and `Surplus`. A negative count that is converted to
microseconds or anything coarser loses its sign (`~KeepsSign`): its product is divided
as the unsigned number that is 2 * `Limit` larger, and the result is longer by exactly
that many nanoseconds.

`Durations` is a calculator that applies the operators of `chrono::duration` one after
another to one duration: compound assignments, addition and subtraction in the finer
unit, negation, division, conversion. `exact` is what the result should be, `error` by
how much truncations and roundings may have changed it, and `surplus` whether the last
operation made a negative count huge. The calculator shows such a result and does not
go on with it. `Fits` leaves out results that the counts cannot hold.

### 2.6 `TscClock`, `SystemTime`

`TscClock` is what happens before `main()`: the clock source is chosen from the
environment and the processor (`get_available_clock_source`), and the cycles per
nanosecond are measured (`Test`, `ChooseMedian`), with an arbitrary delay from
`Delays` between any two readings of clocks. `SystemTime` is `to_system_time()` as
threads execute it, one action per access to a shared variable or a clock:

| Code (`chrono.cpp`) | Actions |
|---|---|
| entry, the argument is a reading of the clock | `Enter` |
| load of `offset_timestamp`, is it too old? | `LoadTimestamp` |
| `lock.test_and_set()` | `TestAndSet` |
| the three readings of a try, retry or not | `ReadStart`, `ReadSystem`, `ReadEnd` |
| stores of the offset and of its timestamp | `StoreOffset`, `StoreTimestamp` |
| `lock.clear()` | `Unlock` |
| load of the offset, addition, return | `Apply` |

`Tick` lets time pass and adjusts the system clock; `ahead` is its whole history.

### 2.7 `Patterns`, `Configuration`, `Events`, `Registry`, `JsonDump`, `Library`

One session from its configuration to its dumps.

| Code | Definitions |
|---|---|
| `expand_pattern`, `select_pattern` (`config.cpp`) | `expand`, `expand_list` and `expand_pattern` in `Patterns`; `select_pattern` |
| `config_json`, `config_file`, sections of both formats | `config_json`, action `Configure` |
| `initialize` | `Initialize` |
| measuring points, event creation | `CounterCall`, `GaugeCall`, `TimerCall`, `AttributeCall`, with `Events` |
| `scoped_counter_helper` | `OpenScope`, `CloseScope` |
| the loop of the processor thread | `Pop`, `Process`, `Update`, `Publish` |
| `internal::process_event_message`, `events/*`, `metrics/*` | `Registry` |
| `json_dump.cpp`, `json/*` | `JsonDump` |
| the reader of the tests (`wait_until_empty`, `wait_until`) | `StartWait`, `SeeEmpty`, `Awaited` |

What is abstracted:

* *Documents.* A document is a record of its sections, each with the settings to
  which it gives a valid value; the code ignores the others. A list of tags may
  begin with a misspelt one: `configure()` then throws when it has emptied the
  tags.
* *Patterns.* A pattern is the sequence of its characters. `Results` is a function
  from the places where the code calls `expand_pattern()`, or begins a list, to what
  it yields there: the recursion of the code as a recursive function. What a text
  *means* is said apart from that, by the number of lists around each position
  (`Depth`, `IsPattern`) and the ways through it (`Words`); the properties are
  about the meaning.
* *Events.* Their timestamps are left out (`Statistics` and `Timer` are about
  them), except whether a counter's was set. A push is one step.
* *Type confusion.* An event is dispatched by the type of the existing metric.
  The bits of one type read as another are the value `Misread`; an attribute that
  follows a number as a pointer gets it, or the process ends (`terminated`). The process
  ends as well when `configure()` throws in the processor thread (`Throws`).
* *Dumps.* `Publish` dates the dump and publishes it in one step: nobody can see it
  between. `shown` is auxiliary: how many events the copies contain. When the
  queue is empty the reader reads the clock, which is so fine (cycles) that no
  other reading has the same value. There is one clock; by how much
  the conversion to system time may be wrong is the subject of `SystemTime`.

## 3. Runs

| Run | Instance | Question |
|---|---|---|
| `queue_safety` | 3 producers, 4 addresses, symmetry | Is the lock-free list memory-safe, and its counter exact, in every interleaving? |
| `queue_refinement` | 2 producers, 3 addresses | Is it a FIFO queue, and does every message arrive? |
| `core_safety` | 2 controllers, 3 producers, 3 messages, 2 names, symmetry | Is every sequence of life-cycle calls clean? |
| `core_liveness` | 2 controllers, 2 producers, 2 messages, 1 name | Do the operations return, and are all events consumed? |
| `timer_safety` | 2 instances, timeouts 2 and 1, skew 2, 7 instants, a clock of nanoseconds, symmetry | Does lazy expiry bound the age of instances and never report an expired one, and what is reported of a negative time span? |
| `timer_dead` | 1 instance | *Violation expected.* Are dead instances removed, as the documentation says? |
| `statistics` | every tag alone and all together, interval 3, 4 bins, values -3, 1, 2, 3, instants 4, 5, 6, 8 | Are the statistics right whatever the order of the timestamps? |
| `statistics_max` | non-positive values | *Violation expected.* Is the maximum that of the complete data? |
| `durations` | `Limit` 512, adjacent units 3 apart, 5/2 cycles per nanosecond, mantissas 64 and 1024, 3 operations | Is arithmetic across units wrong by truncation and rounding only, but for the known surplus? |
| `system_time` | 2 threads, 2 system offsets, 4 instants | Do threads use a recent, consistent offset, and is its update never blocked? |
| `system_time_first` | 2 threads | *Violation expected.* Is every converted time right, also the first ones? |
| `library` | 5 documents, 4 calls, 1 scope, 2 producers, 3 documents and events together, 4 instants, symmetry | From configuration to dumps: are options, values and dumps those the inputs ask for? |

**Bounds.** *Queue:* a gap in the list concerns two producers (the one before
and the one behind it) and the consumer; three producers give two gaps at once
and one thread that pushes across them. Four addresses let one be popped, freed
and allocated again while the others are in flight. *Core:* two controllers
give every interleaving at the mutex (a third one only waits);
two names let the dump and the registry differ; three producers can be at
three different points of `push`. *Timer:* the timeouts are one above and one
below the disorder, the two cases `StaleBound` distinguishes; seven instants
are three of the longer timeouts. *Statistics:* after a warm-up (`Warmups`: nothing,
one value early or late, three bins) come two more values (`MaxUpdates`) and any
number of refreshes; the instants lie within one interval, at its end and beyond it
of each other, so each pair is in each order of age. Four bins are reached
and exceeded. *Durations:* the proportions are scaled down with the limit; the
factor of adjacent units stays larger than the ratio of cycles to nanoseconds, and
neither of these two divides the other. `Limit` exceeds the mantissa of the double by a
factor of 8, so that rounding is seen to cost more than truncation, as in the code
(2^63 and 2^53); three operations (`MaxSteps`) use up the range. In `timer_safety` the
clock has the unit in which a negative span loses its sign; `timer_dead` has the other.
*System time:* an offset is too old after one instant, so four instants see it
measured, replaced, and replaced again while a thread applies it; `CLOSE_DISTANCE` 3
and two tries give close pairs, and calls in which no try finds one. The delays
between readings are none, small and larger than the tolerance.
*Library:* the documents have both formats, brace lists, wildcards, a pattern
with an unclosed brace, misspelt tags in a section and in a pattern, and a switched-off
core; three inputs (`MaxInputs`) are two documents and an event, one document and two
events, or three events. Four instants (`MaxTime`), two to the millisecond, separate a
dump that is early from one that is late. `MaxTime` in all modules bounds the
clock and nothing else. The sizes of the reached state spaces are 24 thousand (`queue_safety`),
29 thousand (`queue_refinement`), 27 thousand (`core_safety`), 4 thousand
(`core_liveness`), 222 thousand (`timer_safety`), 8 thousand (`statistics`; each
state holds 15 objects), 69 thousand (`durations`), 609 thousand
(`system_time`), 1.6 million (`library`). Runs of models that stop when their
bounded inputs are used up do not check deadlock; those of the queue, the core and
the timer do.

**Fairness.** Weak fairness of each thread *inside* an operation: a producer
inside `push()`, a controller inside `initialize()`/`finalize()`, the processor
thread, a thread inside `to_system_time()`. That is the scheduler's promise to a
runnable thread; the code has no priorities, and the operations take no lock except
`operation_mutex`, which is a guard of the first step and gets no fairness (the lock
of the offset is only tried). Nothing obliges a client to call an operation. In
`Timer` time passes and dumps go on.

**What the properties say**

* `Ownership`, `NoDanglingAccess`: memory safety of the queue. Each live
  message is with exactly one of a producer, the queue, the consumer.
* `SizeExact`: what the counter and the list differ by at each moment. From it
  follows that `mq_size` never wraps and that `finalize()`, which trusts the
  counter, leaves no message behind.
* `NullOnlyIfPushConcurrent`: after `empty()` said no, `pop()` returns `nullptr` only
  while a producer is between lines 50 and 51 or, from line 77, when a producer has
  linked the node behind the tail since `pop()` read a null pointer there (line 57 or
  66). At the time of that second return nothing is pending, and the next call finds
  the node.
* `ImplementsEventQueue`, `Delivered`: FIFO, and delivery.
* `NoUseAfterDelete`, `NoLeak`, `EnabledHasProcessor`, `CleanSession`,
  `DumpWithinSession`, `OperationsReturn`, `EventsConsumed`: the life cycle, see the
  comments in `Core`.
* `StaleBound`, `NoRevival`: the timer's instances. `DurationBound`: a time span is
  negative by the disorder at most, and its conversion reports it up to the loss,
  except that a negative one of a clock of nanoseconds is reported as about
  2 * `Limit` nanoseconds.
* `TagsIndependent`: what is shown of a tag does not depend on the other tags
  that are configured. `AvgWithinRange`, `RateIsMovingCount`: the moving quantities
  take, drop and decay the same values. `ShiftPathIndependent`: how often dumps are
  made does not change what they show. `Expires`: what is no longer fed is forgotten.
* `HistogramShape`, `HistogramConservesStep`: order and number of the bins; dropping
  and merging them keeps the amount of data and its mean. `QuantileSound`:
  `find_z()` always has its root, and quantiles are monotonic.
* `Accurate`: chains of operations across units are as wrong as their truncations and
  roundings allow, with the surplus where a sign is lost, no more and no less.
  `CompareSound`: comparisons across units, with what the conversion to the finer unit
  loses; a negative duration that loses its sign is not less than anything.
* `RateAccurate`: the measured rate is right whatever delays the readings.
  `PairTied`, `ResultFreshStep`: the offset and its timestamp belong together, and a
  thread that found the timestamp recent applies a recent offset. `LockReleased`:
  also when no close pair is found.
* `OptionsInEffect`: each metric has the options of the first accepted pattern that
  means its name, over those of its kind, after any sequence of accepted, broken and
  misspelt documents. `CounterPath`: the values a counter and each dump of it show.
  `ScopesBalance`: scoped counters, and when they are off for good.
  `DumpComplete`: what a reader finds that waited as the tests do.

**Findings**

* `timer_dead`: `docs/metrics.rst:88-91` says that an instance without
  events for the idle timeout is considered dead and removed. The code looks for
  dead instances only when an event of the *same timer* arrives
  (`timer.cpp:89-108`); `update_statistics()` (`timer.cpp:110`) does not. A timer
  that receives no more events keeps its dead instances until the metric is
  destroyed.
* `statistics_max`: `docs/incremental-statistics.rst:28` says that *max* acts on the
  complete data. `statistics.cpp:310` starts it at
  `numeric_limits<value_type>::min()`, the smallest *positive* double, and shows that
  constant when no value is positive.
* `system_time_first`: `docs/time-measurement.rst:229-230` says that conversions may be
  concurrent without limit. While the first caller measures the offset, the
  others find the lock taken and add the initial offset, zero
  (`chrono.cpp:67-85`).

A comment that no run is about: `timer.hpp:69-73` in
`include/handystats/measuring_points/` says that the scoped timer sends START and
STOP; it sends one SET at its end.

**Mutants.** Next to a definition stand defective variants (`LoadHead_nostub`,
`Join_skipped`, `Covered_whole`, `First_last`, ...): plausible mistakes in that code.
For every property of every passing run, `PROJECT.json` names one that violates it.

## 4. Proofs

The `*_proofs` modules are checked by TLAPS for every value of the constants that the
named assumptions admit. In each of them `Invariance` shows that `IInv`, defined in the
component's module, is inductive (initial states, then one lemma per action), and the
other theorems follow from it. The `IInv` were checked by TLC on the runs' instances
before they were proved.

**Queue.** Assumptions: `NodesAssumption` (the stub and null are no messages),
`SizeAssumption` (`size_t` can count the addresses). `Ownership` alone is not
inductive, because nothing in it says what the `next` pointers are. The parts of
`IInv`:

* `ChainInv`: `chain` starts at `m_tail_node`, ends at `m_head_node`, has no
  duplicates, and the `next` of each element is its successor, or null while
  *some thread is about to link exactly those two*. This is the heart of the
  argument: a gap always has an owner, so the consumer stops in front of it, and
  hence never frees the node that the owner is going to write to.
* `LinkInv`: the converse; a thread about to link holds two neighbours of the
  chain that are not linked.
* `ProducerInv`, `ConsumerInv`: what each program counter knows (a producer
  owns the message it has not exchanged yet; the stub is not in the chain when
  `pop()` pushes it).
* `HeapInv`: `live` is the union of the owners.

`TypeCorrect`, `OwnershipHolds` and `NoDanglingAccessHolds` follow.

*Its counter and its refinement.* `SizeExact`
compares `mq_size` with the length of a chain, less the messages of the producers
that have not counted theirs (`Uncounted`) and the one that the consumer has not taken
off. It has a cardinality of program counters in it, so every step needs what it does
to that set; the cases are `CounterInv`. `SizeExactHolds` includes that `mq_size` never
wraps. `NullOnlyIfPushConcurrentHolds` is about the steps that return `nullptr`: where
the pointer behind the tail is still null, the gap has an owner (`ChainInv`).
`ImplementsFifo` is `Spec => Abstract!Spec`: the chain without its stub (`Stubless`)
grows at the end by an exchange of a message, is the same after an exchange of the stub,
and loses its first element when `pop()` moves the tail over it.

**Core.** Assumption: `CoreAssumption` (the names of threads are no program counters
and the like; the producers are finitely many). Every property of `Core` is a statement
about what some place in `initialize()` or `finalize()` may rely on. `IInv` is therefore a
table over `holder_pc`, the place of the controller that has `operation_mutex` (idle
when nobody has): there the flag, the processor thread, the queue, its counter, the
metrics and the dump are what that place of the code leaves behind. The controllers
other than the holder are idle (`LockInv`), so each of their steps starts a row of the
table or moves to the next. From it follow `TypeCorrect` (the counter is never below
zero), `NoUseAfterDeleteHolds`, `NoLeakHolds`, `EnabledHasProcessorHolds`,
`CleanSessionHolds`, `DumpWithinSessionHolds`: all safety properties of the module. The
client obligation of 2.2 is part of the specification that the theorems are about.

**Timer.** Assumptions: `TimerAssumption` (the constants are naturals, and a count can
hold the clock), `ConversionsAssumption`.
`StaleBound` is not inductive: the age of an instance at the newest event is
bounded through the last check. `CheckInv` splits it: no instance was older
than the larger of timeout and disorder *at the last check*, and the newest
event is at most one timeout past that check. The second half fails after an
INIT event with an old timestamp moved the check back, and then all instances
are within the disorder. `InstanceInv` carries the longest silence for
`NoRevival`. `TypeCorrect`, `StaleBoundHolds`, `NoRevivalHolds`,
`DurationBoundHolds`. The last takes what a conversion does from the lemmas of
`Durations_proofs`, of which `Timer_proofs` has an instance (`D`) with nothing for the
calculator; `SameConversions` says that both mean the same operators.

**System time.** Assumptions: `SystemTimeAssumption`, `TscClockAssumption`. `LockInv`: at
most one thread is in `Critical`, between `TestAndSet` and `Unlock`, and the lock is taken
then. `MeasureInv`: its readings are in order, and the middle of the readings of the
cycles is within half of `CLOSE_DISTANCE` of the moment the system clock was read. It
stores the offset first and the timestamp second, hence between the two stores the
stored offset is the *newer* one; `FreshInv` is what a thread that found the timestamp
recent may rely on until it applies whatever offset is stored then. The rate of the
clock plays no part. `TimeTypeCorrect`, `PairTiedHolds`, `ResultFreshHolds` (a statement
about steps).

*The rate.* `ClockInv`: the tests are measurements, and the rate is one of them, because
there is a median and it is one of the tests (`MedianFacts`). For one measurement the
delays around the readings cancel but for the two halves and two roundings
(`MeasurementError`), and it takes at least as many nanoseconds as the sleep, so that the
error per nanosecond is no larger (`QuotientAccurate`). `RateAccurateHolds`, and with
it `TypeCorrect`.

**Durations.** Assumptions: `ConversionsAssumption` (the constants are positive, units
at least 3 apart, mantissas at least 3), `OperandsAssumption` (the operands are
representable and not negative; negative durations are what the calculator computes).
`FloatingBounds` bounds what three roundings and a truncation do to a quotient. Between
units of time, `UnsignedQuotient` follows the product through the remainder modulo twice
`Limit`, the division without a sign and the result read with one; a lost sign
adds twice `Limit` before the division, which leaves a count that is not negative
because the divisor is at least 3. Together they give `Conversion`: a count whose product
fits its width is converted up to `Loss` and `Surplus`. `BinaryStep` needs besides that a
sum with an operand that lost its sign does not wrap (`SignLostFits`). `IInv` adds the
losses up along any chain, which is `AccurateHolds`; `CompareSoundHolds` uses them on
both sides of a comparison.

**Statistics.** Assumptions: those of `Interval`, `Histogram` and `Statistics`. `SameInv`
says that an object and the one with all tags agree on each member that the first
computes; it is inductive because `computed` is closed under what the members are computed
from. That `needed` is what its recursion says needs a witness: its closed form, two
levels of `Dependants` deep. `TagsIndependentHolds` follows through every getter, the
JSON form included. `ExpiresHolds`: a shift beyond the data's interval leaves zero, and no
value older than the interval is added afterwards. `RateIsMovingCountHolds` is by
`CountInv`: the rate's increment is then one, and both quantities are shifted alike.

*The fractions* (`Rationals_proofs`, lemmas only). That `gcd` is what its recursion says
needs a witness that solves the recursion: the largest common divisor, which exists
because the divisors are bounded. From it follow Euclid's lemma, that a fraction has one form in
lowest terms (`LowestTerms`), and the laws of the operators and of their order.
*The histogram* (the first lemmas of `Statistics_proofs`). Every operation keeps the bins
ordered and their centres between values that were fed (`HistogramOver`), and decay
by two steps is decay by one (`ShiftComposes`, `ShiftHistogramComposes`). The sum over
the bins is a fold, which the model computes bin by bin; `TotalIsSum` turns it
into a sum over the first so many bins (`SumTo`), by a witness that solves the
fold's recursion on sets. On it: what is dropped weighs nothing and what is merged
weighs the same (`UpdateConserves`), and sums keep an order that the bins have
(`UpdateSum`).

`DataInv` says, of the object with all tags, that its quantities are fractions, and that
the moving sum is the moving count times some number between two values that were fed
(`Between`). Sums, decay and resets keep that, and the quotient need not be mentioned.
`TypeCorrect`, `AvgWithinRangeHolds` and `ShiftPathIndependentHolds` follow, and with the
lemmas on sums `HistogramConservesHolds`. `HistogramShapeHolds` needs `ShapeInv` besides:
no bin is newer than the data of the moving count, so that each bin decays at least as
fast as the count does, and their sum stays below it. `QuantileSoundHolds` assumes that
probabilities are at least 0 and below 1, as those of the JSON form are
(`StatisticsAssumption`). All gaps together hold what the bins hold (`VolumesSum`), which
is more than any such probability requires: the search ends at a gap that holds more than
is left to find (`LocateFacts`), and the signs of the equation at 0 and 1 differ there
(`RootFound`).

**Library.** Assumptions: `LibraryAssumption` (the producers are finitely many, and
a millisecond is at least one tick), `DocumentsAssumption` (what section 2.7 says of
documents; a pattern may be any text), `CallsAssumption` (calls have a type that their
kind knows; counters count). The properties speak of the documents and events so
far, and the code has neither: it has options, expanded patterns, and metrics. `IInv`
says what these are, of all that came:

* `QueueInv`: the events are those processed, the one in the thread's hands, and
  the queue, in this order.
* `ConfigInv`: for every name, the pattern that `select_pattern()` finds among the
  accumulated groups is the first one that means the name. `OptionsInEffect` is not
  inductive without it, nor without `EnabledInv`, by which there are no events
  before configuration is over.
* `MetricsInv`: there is a metric for each name with a processed event, of the kind of
  its first one; the value of a counter is the last that it was fed.
* `BalanceInv`: what the events of a name add up to is what the open scopes have
  changed, and each *prefix* of the events adds up to no less than zero. The value of
  the counter is the sum over one prefix.
* `ReaderInv`: what the reader awaits was taken out of the queue when it saw the queue
  empty. A dump that is dated later has what is processed now, and the message that is
  not processed yet keeps the thread from making that dump. `IsDump` says what a dump
  shows of the events up to `shown`, of the dump that is being made as well.

`Invariance`, and from it `TypeCorrect`, `OptionsInEffectHolds`, `CounterPathHolds`
(its paths count the events of a name, so every step needs what it does to the ranks
of the changes), `ScopesBalanceHolds`, `DumpCompleteHolds`: all properties of the run.

*The expansion* (`ExpansionMeaning`). `ConfigInv` needs that the expansion of a pattern
is its meaning, for any text. Every call is made at a later position than its caller,
or there for an element of the caller's list; so the calls can be put in an order, and
`Results` is what its recursion says. A call stops at the depth at which it began, at
the `,`, `}` or end that its caller looks for, and fails exactly if the end comes
inside a list; this gives `IsPattern`. The words come from there backwards: those of a
position are the words of the call at that position, each followed by the words of
what comes behind the place where the call stopped.

*Induction.* The induction theorems of the library have an operator as a parameter
and cannot be used here. Where a proof needs induction over numbers it goes through a
set of numbers, a subset of the naturals without a least element being empty
(`LeastNatural`), and where it needs a recursive function it gives a function that
solves the recursion.

**Model-checked only**

* Liveness (`Delivered`, `OperationsReturn`, `EventsConsumed`, `LockReleased`) and the
  fairness part of `ImplementsEventQueue`: the prover has no liveness under fairness.
  The theorem `ImplementsFifo` is about its safety part.
* All other properties of the passing runs are theorems.

## 5. Not modelled, and why

* *Metrics of the library itself* (`namespace stats` in `message_queue.cpp`,
  `internal.cpp`, `metrics_dump.cpp`): written and read by the processor thread;
  nothing depends on them except the date of the dump, which is modelled. A metric of
  the program that is called `handystats.dump_timestamp` would hide that date
  (`metrics_dump.cpp:141`); the names of the model are others.
* *Proxies, the scoped timer, macros*: they keep a name and make the same calls.
* *The text of JSON*, its parsing and its writing; the *CPUID instruction*, whose
  answers are inputs of `TscClock`; the *benchmark*.
* *Numbers*: in the statistics, rounding and the epsilon of comparisons; the logarithm
  of the entropy (minus infinity when bins of width zero meet, `statistics.cpp:737`) and the root
  in the quantile. The quantile of probability 1 reads behind the last bin
  (`statistics.cpp:156`): the runs ask for those of the JSON form.
* *Time*: calculations that go on with a duration that has lost its sign (the
  operations that lose it are modelled); a jump of the
  system clock when it is also the library's clock, which `PairTied` excludes;
  dates that do not fit in 63 bits when cycles are faster than about 5.2 per nanosecond
  (`chrono.cpp:55`).
* *Weak memory* beyond the argument in 2.1.
* *Measuring points during `finalize()`*: excluded by the client obligation.
* *Allocation failure*, except for the start of the thread.

## 6. Plan

Done: the models of all components above, their runs, and the proofs of section 4.
What could be added:

1. Measuring points that overlap with `finalize()`, once the code has a means to wait
   for them; `Core` assumes today that callers do.
2. The metrics of the library itself, if something comes to depend on more of them
   than the date of the dump.
3. Bounds on the error of rounding, in place of exact fractions in `Statistics`.
