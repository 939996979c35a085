# A TLA+ development for scable

scable is meant to be "a wirespeed point to point encryption software" on top of
DPDK.  The repository holds three programs and a library they log with:

* **TestEnDecryption** (`src/TestEnDecryption.cc`, with
  `src/unused/blocking_queue.h` and `src/unused/count_down_latch.h`), a
  multithreaded encryption benchmark that runs today.  Its core is a transfer
  between encrypting and decrypting threads through two blocking queues.
* **scable** (`src/scable.cc`, `src/rte_controller.cc` and the headers beside
  it), the data plane, in an early state: its start-up code dies before it
  launches anything.
* **the layer two forwarder** (`src/unused/intel.c`) that the data plane grew out
  of.  It is complete, and not compiled any more.
* **easylogging++** (`src/easylogging++.h`), the logging library, whose one header
  is two thirds of the repository.  All threads of the programs meet in it.

This directory holds TLA+ models of the four, their TLC runs, and TLAPS proofs.
`PROJECT.json` lists components, runs, mutants, hazards, findings, theorems, and
for every definition the source lines it stands for.

## 1. Inventory

| Component | State | Operations | Hard because |
|---|---|---|---|
| `BlockingQueue<T>` (`unused/blocking_queue.h`) | `queue_`, `mutex_`, `cond_` | `push`, `pop`, `pop(T&)`, `pop_wait_for` | `notify_one` after the unlock, spurious wakeups, timeouts that race notifications |
| `CountDownLatch` (`unused/count_down_latch.h`) | `count`, `count_mutex`, `wait_all` | constructor, `countDown`, `wait` | a mutex that one thread locks and another unlocks; zero |
| `Result` (`TestEnDecryption.cc:74`) | a latch, the list of results and its mutex, `toProducer`, `toConsumer` | `countDown`, `wait` | the list is read without its mutex |
| producers and consumers (`:429`, `:503`, `endecrypt` `:645`) | 128 `QueueItem`s in circulation, `request_stop`, two latches | `run` of both, `stop`, `endecrypt` | four kinds of threads, stop while working, latches that die before threads are joined |
| test phases and `main` (`:108`-`:426`, `:560`-`:715`) | `data`, `size`, `workers`, password and iv inside `data` | `setup`, `encrypt`, `decrypt`, `back2back` | all threads share one array, written in one phase and read in the others |
| OpenSSL wrapper, `Patterer` (`:156`-`:263`) | cipher, password, iv | `encrypt`, `decrypt`, `create_pattern` | pure, but for its pointers into `data` |
| `RteController`, `Sockets`, `Socket`, `Ports`, `Port` | vector of sockets with their lcores, map of ports | `start`, `create`, `findFree`, `addPort`, `Port::start` | failures of every DPDK call |
| `Lcore`, `LcoreAction` | actions of a core | `addAction`, `launch`, `main_loop` | one loop per core, never reached |
| `DistributionController`, `CipherController`, workers, `RXAction`, `TXAction` | rings, distributor, packets | one `lcoreAction` each, the wiring `operator>>` | stubs, never reached |
| layer two forwarder (`unused/intel.c`) | options, pairs of ports, the ports of each lcore, buffers, statistics, the mbuf pool | option parsing, pairing, dealing out, link check, `l2fwd_main_loop` | lcores share ports, buffers and statistics without a lock |
| logging, configurations (`easylogging++.h:2440`-`3190`) | lists of settings, `TypedConfigurations`, shared file streams | `set` and its like, the parser, `configure`, `Loggers` | lists whose order matters, values left out because a default has them, streams shared by name |
| logging, writing (`:3340`-`5130`, `:5580`) | mutexes of loggers, registry and `Storage`, streams, unflushed counts, files | `Writer`, `LogDispatcher`, `DefaultLogDispatchCallback`, `Logger::log`, `CrashHandler` | locks held across functions and taken in the middle of one another, failing files, signals |
| logging, filters (`:3210`, `:1220`, `:5960`) | hit counters, verbose level and modules | `validateEveryN` and its like, `setModules`, `allowed`, arguments | counters that start again, wildcards, defaults of defaults |
| the rest of `easylogging++.h`; the rest of `unused/`; Makefile | | | formats, time, wrappers of the system; not compiled; build |

**Interaction.**  `main` calls the phases one after the other.  Each phase makes
a `Result`, starts its threads, waits on the `Result`'s latch, reads the list of
results, joins the threads and destroys the `Result`.  In `endecrypt` a producer
takes an empty item from `toProducer`, fills it and pushes it to `toConsumer`; a
consumer polls `toConsumer` with a timeout of 500 ms, decrypts, compares with the
reference in the item, and pushes the item back.  `main` waits on the latch of
the producers, sets `request_stop` of every consumer, waits on their latch, and
then on the `Result`.  `RteController::start` calls `Sockets::create`,
`Ports::create` and `Sockets::findFree`; behind the line it dies at, it hands
actions to lcores, wires them to ports and workers, and runs the lcores' loops.  In
the forwarder `main` does all of that before the lcores run, and from then on they
do not talk to one another.  Every thread logs: a statement is filtered, looks up
its logger in the registry, holds that logger while the message is put together,
and dispatches it under the lock of `Storage` to the file that the logger's
configuration names.

**What makes each part correct.**  Queue: no decision on stale knowledge, no lost
wakeup, and to its callers an atomic first-in first-out queue.  Latch: no call lost,
opens once, at the right call, and lets everybody pass.  Transfer: an item has one
owner and none is lost, a consumer compares like with like, every packet is accounted
for, nobody is stopped early, results are complete when read, nothing is used after
its destruction, and the whole ends.  Phases: the shared array is settled when it is
read, and the memory argument cannot make a divisor zero.  Start-up: lcores are
grouped by socket, a socket is found, ports are up when they are said to be (the
latter two do not hold).  Data plane: every lcore has the actions meant for it, ports,
workers and actions know each other, no action starves, and packets are passed on (they
are not).  Forwarder: a port has one sender and one receiver, packets and mbufs are
accounted for, no buffer is written beyond its end, buffers drain, the links are printed
before the lcores run.  Logging: a logger does what its configuration says, a file has
one stream and outgrows its limit by no more than a line, lines stay whole and are
flushed in time, nobody waits for ever, a statement comes through when it should.

The full list of hazards, each at its line, is in `PROJECT.json`.

## 2. Modules

| Module | Models |
|---|---|
| `AtomicQueue` | what a `BlockingQueue` promises: calls that take effect in one step |
| `BlockingQueue` | the queue at the grain of its mutex and condition variable |
| `AtomicLatch` | what a `CountDownLatch` promises |
| `CountDownLatch` | the latch at the grain of its two mutexes |
| `EnDecrypt` | `endecrypt`: producers, consumers, items, queues, latches, results, `main` |
| `TestEnDecryption` | `main`'s arguments and the phases before `endecrypt` |
| `RteController` | `RteController::start`, `Sockets::create`, `Ports::create`, `Port::start`, `findFree` |
| `DataPlane` | `start` behind line 70, given a socket: `Socket::findFree`, the wiring, `Socket::launch`, `Lcore::main_loop` and the actions |
| `L2Fwd` | the layer two forwarder, all of it |
| `LogConfiguration` | `Configurations`, its parser, `TypedConfigurations`, the calls of `Loggers` |
| `LogWriter` | a log statement from its `Writer` to the file, and the crash handler |
| `LogFilters` | hit counters, verbose levels and modules, the command line |
| `SynchronizationProofs` (queue and latch), `EnDecryptProofs`, `TestEnDecryptionProofs`, `RteControllerProofs`, `DataPlaneProofs`, `L2FwdProofs`, `LogWriterProofs`, `LoggingProofs` (configurations and filters) | theorems |
| `MCSynchronization` (queue and latch), `MCTestEnDecryption`, `MCRteController`, `MCLogWriter`, `MCLogging` (configurations and filters) | instances for TLC; the others need no definitions |

Every component module has *faulty variants* of some of its definitions: the same
definition with one plausible slip.  They are not part of the specification.
`PROJECT.json` pairs each property with a variant that breaks it, to show that the
property can tell.

**BlockingQueue.**  One action per step between two points at which another
thread can run: `Lock`, `Enqueue` (append and unlock), `Notify` (after the
unlock, as in line 50), `Test`, `Wait` (release and block in one step, as C++
promises), `Relock`, `Front`, `Remove`.  `SpuriousWakeup` may happen to any
blocked thread at any time.  `Timeout` may happen to a blocked thread in
`pop_wait_for`; in `Relock` a thread that was notified may still report a timeout,
because its deadline may pass while it waits for the mutex.  `pop()` and `pop(T&)`
differ only in how they return the item.

**CountDownLatch.**  `wait_all` is locked by the constructor in one thread and
unlocked by `countDown` in another.  C++ leaves that undefined; the mutex of the
platform the Makefile names (linuxapp, gcc: a futex without an owner check) is a
binary semaphore, and so is the model's.  (`LatchNext` and its like have names of their
own because one module of proofs extends the latch and the queue.)  `--count` is a read and a write
(`Load`, `Store`), so that the mutex around it has something to protect.  Each
thread makes one call, as all callers do.

**EnDecrypt.**  The queues are taken at the grain of `AtomicQueue`, which
`BlockingQueue` implements (`Linearizable`), and the latches at two steps: the
one that decrements, and the return, because `main` may run between them and goes
on to destroy the latch.  `ConsumerMiss` and `ConsumerTimeout` are the two halves
of a `pop_wait_for` that gives up: between them an item may arrive, which the
consumer may take or miss.  `request_stop` is a plain `bool` read and written
without synchronisation; the reads are separated by calls that lock a mutex, so
that the compiler cannot keep an old value for ever, and the order of `CheckStop`
and `Stop` covers both outcomes of the race.  An encrypted packet is the pair
of its producer and number; `data` and `ref` of an item are set by two
actions, as in the code.  `main`'s last three actions are the destructors of
`endecrypt`'s locals, in the reverse order of their declaration.

**TestEnDecryption.**  A byte of `data` is the thread that wrote it last.
`StartPrepare` chooses the uninitialised `size` of line 598 from `Garbage`;
`Prepare` writes one digest, and when it writes beyond `data` the process either
dies or goes on.  An encrypted packet is the pair of password and plain text, so
that a change of either between encryption and decryption is a mismatch.  The
latch of a `Result` is the variables `left` and `open`: it opens when a
`countDown` reaches zero, and so never for zero workers.

**RteController.**  What DPDK finds (lcores, where they are, number of ports) is
chosen in `Init`, the return code of each call in its action.  `unsigned ret` is
a remainder modulo `UIntSize`.  `FallsOffTheEnd` is the outcome that a newer
compiler makes of the missing `return` in `Socket::addLcore` and `Port::start`.
`"noSocket"` is the null pointer that line 70 dereferences.

**DataPlane.**  `start` never gets behind that line, and this module does not say
it does: it takes a socket as `Sockets::create` makes them, with any lcores and no
actions, and says what the code behind the line does with it.  An action is its
name.  `GiveToPacketLcore` is the five `addAction` calls for the packet lcore,
`FromPort`, `Through` and `ToPort` are the operators `>>`.  In the loop, `at[l]` is
the iterator, and each call of an action is a step of its lcore.  Reception takes
mbufs from the one pool.  The distributor's pointer is never set: `Die` and `Hang` are
the outcomes of using it, beside the harmless one of `CallOther`.

**L2Fwd.**  A port mask is a set of bit numbers, an option any value of its range or an
error, a link up or down whenever it is asked for.  The main loop is one step per
packet forwarded; `SendBurst` and `BurstReturns` are the two ends of `rte_eth_tx_burst`,
between which another lcore may send, and the driver takes any number of the packets.
Time is the choice of when the drain is due.  A buffer is its length, the packets in
it the numbers that `stats`, `pool` and `wire` keep.

**LogConfiguration.**  A list of settings is a sequence of records, as in the code, and a
map of `TypedConfigurations` a function on the levels it has entries for; the order
of the list and what is left out of the map are what the module is about.  Types that
are treated alike are one (`ToFile`).  The loops over lists (`SetLevels`, `SetFromBase`,
`Values`, `Files`) are functions of the number of rounds.  A text being read is a sequence of lines, each
an action.  A loop over all loggers (`loop`) is one step per logger.  The third loop of
`build`, which truncates files that have reached their limit, changes no map and is left
out; `Dispatch` of `LogWriter` has what it does to a file.

**LogWriter.**  The stack of a thread is the `Writer`s it is inside of: a missing logger
is complained about by a statement within the statement, and a signal comes wherever
its thread is.  A message is two pieces, so that another may come between.  The file is
all lines ever written, with how many were rolled out of it and how many are flushed, and
its size in bytes: a piece is one byte, and the format of a level adds `FormatSize` of
them.  The strict check compares that size with the limit before a line is written.
Which settings are in force is chosen in `Init`.  A second unlock frees a mutex whoever
holds it, as a futex without an owner check does; `spoilt` remembers that it happened.

**LogFilters.**  One statement with its counter, and the registry of verbose levels.
Here texts are sequences of characters, because the names of modules are patterns and
the parser drops and joins characters.  `WildCardMatch` is the recursion of
`wildCardMatch` with its early returns, over the places of its two pointers; `Matching`
is the definition of a wildcard.  `Read` is one round of the loop of `setModules`.

## 3. Runs

| Run | Instance | Shows |
|---|---|---|
| `synchronization` | queue: 2 pushers, 3 poppers, 2 items, length up to 2; latch: 3 calls on a latch for 2, 2 waiters | fresh knowledge, no lost wakeup, an item and a sleeper do not stay together for ever; exact count, unlocked once, everybody passes, implements `AtomicLatch` |
| `queue_timed` | pusher, popper, timed popper, and a thread that both pushes and polls | the queue implements `AtomicQueue`; polling takes every item, in spite of timeouts that swallow notifications |
| `endecrypt` | 2 + 2 threads, 2 items, 2 packets each | the eight invariants of the transfer, and that `endecrypt` returns |
| `phases` | 0 or 2 workers from arguments -2, 1, 3; memory arguments -1, 0, 2 | packets come back, phases complete, with workers `main` gets to `endecrypt` and without it never leaves `setup` |
| `phases_inside` | *violation* | setup's threads leave the array |
| `start` | 3 lcores on 2 sockets in any way, 0 to 3 ports, any failures | sockets grouped; two ports that went through all calls, or none |
| `start_free` | *violation*, as `start` | no socket is found though all are free |
| `start_ports` | *violation*, as `start` | a port is announced for which a call has failed |
| `dataplane` | any socket of up to 3 lcores, with or without master and ports; 3 mbufs, bursts of 2 | actions handed out and wired, no action starves but by the distributor, no other reason to die |
| `l2fwd` | 3 ports, 2 lcores, all masks and options; bursts of 2, 3 mbufs, 3 packets | one sender and receiver per port, packets and mbufs accounted for, no packet behind a buffer, buffers drain, links printed before the launch |
| `logwriter` | 2 threads, 2 loggers and an unknown one; seven settings | lines stay whole, a file outgrows its limit in bytes by its last line at most, unflushed lines stay within their threshold, every statement ends, a crash ends the program |
| `logging` | configurations: 2 levels beside Global, 3 ids, a good and a bad file; 4 calls or lines.  Filters: counter limit 3, `n` from 0 to 5, 7 hits; 3 calls with four module texts and six command lines | a logger finds by level the files and `ToFile` of its list; a file has one stream; statements come through when they should; files match modules as wildcards are defined |

`synchronization` and `logging` each take two modules that share no state: an instance
makes the calls of one or those of the other, as `counting` or `configures` says.  With
no variable in common, and each fair to its own steps only, what holds of either holds of
both together.

**Bounds.**  A lost wakeup takes one more sleeper than the first notification
wakes and one more item than it is for: two pushers, three poppers and a queue of
two have both (`MaxLen` bounds when `push` is called, as no caller has more than
128 items).  The latch has one call more than it waits for, and a second waiter,
who can pass only through the first.  In `endecrypt` two items for two producers
and two consumers let an item be recycled, a consumer be left without, and
items be abandoned by one or both consumers; `LogParts` scales the 10 of
`pattern/10`.  In `phases` a digest is a byte, a megabyte two, and `size` is rounded
up to 3 or 6: the second of two threads starts inside `data`, and the values of
`Garbage` are one below, one inside and one above every length.  In `start` three
lcores are the fewest that can come back to an earlier socket; `UIntSize` is 2^16
instead of 2^32, because TLC's integers have 32 bits, and any value above the error
codes shows the same.  In `dataplane` three lcores are a packet lcore, a cipher lcore
and another that is or is not the master; a pool of three mbufs with bursts of two
runs dry within a burst.

In `l2fwd` three ports are a pair and an odd one, or any pair of three; a burst of two
is the smallest that has a state between empty and full, `Traffic` (3) is a full burst
and one packet more, and three mbufs are all in use then.  In `logging` two calls
build any two settings in either order, a third gives them to a logger and a fourth
takes it up again; a file of settings has as many lines.  `Short` is an id of one
character, the bad file one that cannot be opened.  In `logwriter` each thread makes
one or two `Writer`s (`MaxWriters` counts the nested and the crash handler's too, as
the last it begins), and each setting is tried where it bites: with a strict limit of four
bytes, two threads write two lines of three bytes each, so that a file below its limit
takes a whole line more, and is rolled under the other's counts.  The counter of
`logging` is reset at 3 instead of 100000, with `n` below, at, one above and further above
it for `LOG_EVERY_N`, which alone resets it, and every hit up to two resets; the wildcards
are compared with their definition for all strings and patterns of up to four characters,
and for the texts that `setModules` is given.

**Symmetry** is not used.

**Deadlock** is checked in `queue_timed`: some thread can always call.  The other
programs end (a latch, when all have passed), hang (`main` without workers), or stop at
their bounds, and their runs switch it off; that they end where they should is the
business of the liveness properties.

**Fairness** is weak fairness of each thread's own steps: the operating system
runs every thread that can run, and a mutex that is free is got at some time by a
thread that waits for it, unless others take it again and again -- in
`BlockingQueue` weak fairness does not promise more.  Timers fire.  No call from
outside is fair, except in `PollingSpec`, where the callers of `pop_wait_for` call
again, as `ActionDecryptConsumer::run` does.  In `DataPlane` every lcore is a processor
of its own, and in `L2Fwd` too, where moreover `getopt` comes to the end of its
options and the drain is strongly fair: the loop comes back to its top, where the
clock has moved on, and not always between two readings of it.  In `LogWriter` every
thread runs on inside a statement; no thread must begin one.

**Findings.**  Three runs show that the code does not do what it says of itself:

* `phases_inside`: `TestEnDecryption.cc:598` computes a thread's share with a clamp to the
  length of `data`, but reads the variable it initialises instead of that length, and
  uses an end as a length.
* `start_free`: `sockets.h:41` skips the sockets that are free, says "no free Socket
  found!", and `start` dereferences the null pointer (`NeverWires` proves that it always
  comes to that).
* `start_ports`: `port.cc:15` keeps return codes in an `unsigned`, so that a failed call
  stops nothing, and `addPort` announces a started port whatever `start` returned.
  `BothPortsOrNone` is about the calls, not their success.

**Observed while modelling**, and part of the models:

* With fewer than ten patterns `endecrypt` divides by zero at its first message
  (`TestEnDecryption.cc:477`, `:542`); `EnDecrypt` assumes `Pattern >= LogParts`.
* `intel.c:435`: a mask that cannot be parsed is -1, and enables all ports.  The comment
  of line 580 speaks of a queue of each lcore's own, and line 660 makes one per port.
* Configurations: `setRemainingToDefault` overwrites levels that were set while Global
  was not (`:2805`), contrary to `:2622`; `ToFile` stays on for a level with a null stream
  when Global has it off (`:2998`), contrary to `:3030`, which is why `Faithful` demands
  the opposite only where Global has it on; the last setting of any level decides
  `MillisecondsWidth` and `PerformanceTracking` (`:3037`, `:3041`), of which `:2543` says
  that all but Global's are ignored, and no property is about them.
* `rx_action.h:59` counts the mbufs it receives and keeps them, where the comment of `start`
  draws them going on to the distributor: when the pool is empty, reception has ended.
* A section of a file of settings headed by an id of one character is added to the
  logger before.
* The strict check looks at a file before a line is written (`:3161`): a file one byte
  below its limit takes a line of any length.
* `Logger::log` (`:5114`-`:5131`) holds the logger by a `ScopedLock` and unlocks it in
  the `Writer` as well, and its "Too many arguments" leaves pieces in the stream; it
  asks the verbose registry about `easylogging++.h` instead of the caller's file.
* In a statement for two loggers the second gets an empty line when the first is
  disabled or unknown (`:5010`-`:5028`).
* The crash handler logs and then aborts, as the comment of line 5590 says, unless its
  own thread holds the lock that it needs: then it waits for itself.  Lines that are
  buffered for `LogFlushThreshold` are lost at an abort.
* After a failed write the stream stays failed, unless the file is rolled; a flush that
  fails sets the count back all the same (`:4180`); `configure` clears the counts without
  the lock they are used under (`:3419`).
* `setModules` takes the last digit of a level only, joins a name without level to the
  next, and lets each suffix replace the one before; modules are tried in the
  order of their names, so that "`*`" comes before all others; `-v` on the command line
  hides `-vmodule`.  `LOG_EVERY_N` with `n` above 100001 never logs, and with 100001 at
  every hit once that is reached.

## 4. Proofs

TLAPS proves the following for every value of the constants that satisfies the
modules' named assumptions (finite sets of threads, distinct markers, bounds that are
natural numbers, and for `EnDecrypt` half of `Workers` producers and half consumers,
at least one item).

**SynchronizationProofs, the queue.**  `IInv` is `TypeOK`, `MutexDiscipline`, `FreshKnowledge`
and `OpMatchesPlace` (which operation a thread at a place can be in).
`FreshKnowledge` needs `MutexDiscipline`: the queue does not change under a thread
that has tested it because nobody else is in the critical section.  From `IInv`
follow `TypeCorrect`, `Exclusive`, `Fresh`, and the step simulation of
`Linearizable`, where `Enqueue`, `Remove` and the `Test` that finds nothing are
the steps of the atomic queue and all others stutter.  `EveryItemWakes` adds
`NoLostWakeup` to the invariant, by counting the threads that will notify or look
again, for instances without `pop_wait_for`; with it the property is false, as a
timeout can swallow a notification.  `NobodyStuck` is its consequence.

**SynchronizationProofs, the latch.**  `LatchIInv` is `LatchTypeOK`, mutual exclusion of
`count_mutex`, `CountExact` with what a thread has loaded, and who owns `wait_all` as a
function of the count.  It gives `LatchTypeCorrect`, `NoCallLost`, `OpensOnce`,
`ZeroNeverOpens`, and `ImplementsLatch`.  That no thread unlocks `wait_all` a second time
(`OpensOnce`) is that the count passes zero once.

**EnDecryptProofs.**  Four layers.  `Counts` says of each latch that its count is
the number of threads that have still to call it, by cardinalities of sets of
places; with `Stages`, what `main` may infer at each of its places, it gives
`StopsAfterProducers`, `AllResults` and `NothingUsedAfterItsEnd`.  `Owned` says
that the queues and the threads' hands partition the items, and gives
`ExclusiveItems` and `AllItemsKept`.  `Filled` says what an item holds at each
place, and gives `ComparesTheRightPacket`.  `Tracked` adds that two items in flight
hold different packets, which is why a packet that is verified has left the flight
for good: `PacketsAccounted`.

**TestEnDecryptionProofs.**  `Places` ties where a thread is to the phase: no thread is
in `Prepare` after `setup`, so that `data` is at rest (`Settled`) and a thread between
encryption and decryption has the ciphertext of what is still there (`InHand`, for
`ComesBack`).  `Worked` and `Reports` say what a thread has done when it reports, and
that list and latch agree with the threads' places, by cardinalities: `ReadsAll`.

**RteControllerProofs.**  `LcoresGrouped`: a new socket is for an id that none has, and
an lcore is added to the one that has it.  `PortsSoFar` says how many ports have gone
through how many calls; that no call's failure is noticed is `NeverNegative`, a fact
about unsigned remainders.  `TwoPortsOrNone` follows, and from "no lcore has an action
yet" `NeverWires`.

**DataPlaneProofs.**  `HandedOut` and `WiredSoFar` say what each place of `start` has
done so far, `Loops` where an lcore is and that nothing is handed out or wired once one
runs.  `FindFreeWorks` needs that a set of lcores has a lowest.  They give `TypeCorrect`,
`WiredAsDrawn` and `NoOtherDeath` (an `RXAction` is prepared only when it has a port).

**L2FwdProofs.**  `AlwaysFits`: only the buffer that is being sent is full (`LoopTypes`),
so that no packet is written behind one.  `PrintsFirst`: when the rounds of the link check
are over, one has printed, as the flag is set in the last but one at the latest.  For `NoSharing`, `dst` pairs
the enabled ports -- while `main` pairs them, all but the one that waits for its partner
--, the ports are dealt out to one lcore each, and what an lcore holds goes to the
partners of its own ports (`Separate`).  `NothingIsLost` is about sums over ports and
lcores: `Total` is a fold, and `TotalGrows` says that the sum grows by what one term
grows by (by a smallest set on which it did not, as the library's induction cannot be
used).  The invariant adds that a burst is the whole buffer it was made of, that an lcore
holds a batch only while it forwards it, that nothing moves before the launch, and that
the ports brought up are the enabled ones (`Conserved`); that no packet is counted for
the wrong port is again that `dst` is injective on these.

**LogWriterProofs.**  `Inv` has `Types`; `Frames`, what is true of a `Writer` at the place
where it is, and that the `Writer`s on a stack are numbered upwards; `StorageKept`, that
only the owner of `Storage` is at a place between its lock and its unlock; `Whole`, which
holds as long as nothing is spoilt: the same for the loggers (`LoggersKept`), what the
stream of a logger holds at each place of the `Writer` that has it, and what a `Writer`
has saved of its message (`Streams`), and that a line in the file was written by a
`Writer` that is past it (`Lines`); and `Counted`, that what is not flushed has been
counted.  Only the top of one stack changes in a step, and a new `Writer` may come above
it (a complaint, a nested statement, the crash handler's), so that most conjuncts are
shown once for any such change and then used for each action.  `LinesAreWhole` needs all
of `Whole`: that no line is written twice rests on the numbers of the `Writer`s, and that
it is not empty on the stream being the logger's holder's alone.  `FlushIsInTime` follows
from `Counted`, and `FileIsBounded` from the fact that a file is below its limit while a
`Writer` is between the check and the write, which takes that nobody else writes then.

**LoggingProofs, the filters.**  `Occasional` is about the hits, the counter and what came through;
`Counting` says what the counter holds for each kind of statement: the hits up to `n`, all
hits, or a number that is the hits modulo `n`, and stays so when it starts again at the
limit (`EveryCounts`).  `ComesThrough` is the theorem.  `WildCardIsMatching` says of every
string and pattern what the run compares up to four characters: that the recursion has a
solution is `WildCardExists`, by the distance to the two ends; then, by the length of the
pattern, the string matches if and only if a place that the first `k` characters can lead
to is one from which the others lead to the end.  `FindsItsModules` adds to this that the
names in the map are finitely many texts and the levels numbers, whatever the parser reads
(`NextTyped`), and that `operator<` orders texts linearly (`BeforeTransitive`,
`BeforeTotal`), so that there is a first of those that match.  The prover cannot use the
library's induction; `Induct` states it for membership in a set, from "some numbers have a
lowest", and `Recursion` that functions defined by recursion over `0..n` exist.

**LoggingProofs, the configurations.**  `GettersAreFaithful` and `StreamsAreShared` rest on
one fact about lists, `Complete`: every level and type has exactly one setting, and of
each type that of Global comes first.  A list that the program puts together need not be
so; but `SetToDefault` makes it so (`DefaultsComplete`), a copy of a complete list is
complete (`CopyComplete`), and settings from any list keep it so (`ChangeComplete`), which
is why `ConfInv` has it of the defaults and of every logger.  What `build` makes of a
complete list is an invariant of its two loops.  `Reached`: after `k` settings the map
has Global's value and those that differ from it.  `Named`: the levels seen so far
have their files, and the streams of these.  `Turned`: what null streams have turned off;
it needs that no level but Global is on in the map when Global is, or turning Global off
would not turn off the others.  Streams are never replaced (`Right`), so that a logger's
streams stay those of its files when another is configured.

**Only model-checked:** all liveness (`Progress`, `Polled`, `EverybodyPasses`, `Returns`,
`PhasesEnd`, `InTurn`, `Drained`, `StatementsEnd`, `CrashEnds`), which is out of the
prover's reach.

## 5. Not modelled

* The arithmetic of ciphers, digests and random patterns; formats of messages and
  times; performance tracking.  The modules keep what the outcome of a comparison
  depends on.
* An unknown cipher name, which `setCipherSuite` only logs; `delete` of arrays that
  were made with `new[]`; both concern the library, not the order of events.
* The packet in `CipherController::buf`, which all worker lcores share, and the
  workers' `pktAction`: the packets would come from a distributor that is never
  created and go to a list of workers that nobody fills.
* `getCount`, `Port::assignLcore2Queue`, `Port::checkLinkStatus`: never called.
* Of easylogging++: `LogFormat`, `LogBuilder`, `DateTime`, the wrappers of the operating
  system, standard output and syslog; the asynchronous dispatch, which
  `ELPP_EXPERIMENTAL_ASYNC` would compile and nothing defines; custom callbacks and
  `HierarchicalLogging`, which the program does not install or set (the latter would read
  `m_loggingLevel`, which is not initialised, `:4105`).
* MAC addresses and printed statistics of the forwarder.
* The rest of `unused/`: not compiled, and for the most part commented out within.

## 6. What is left

A module that composes `EnDecrypt` with the queue and the latch as instances instead of
their effects, on a small instance.
