# Verification of the OnLogic power control service

TLA+ models of `openbmc-onlogic-power-control`: TLC checks them on small
instances, TLAPS proves the theorems listed below for every value of the
constants. Line numbers refer to the files under `src/`.

## The system

One process on the BMC turns D-Bus requests into power events on SMBus and
reports the host's power state back.

| Part | State | Operations | Talks to |
|---|---|---|---|
| `SMBUSManager` (`smbus_manager.cpp`) | the descriptor `fd_` | open, write a byte, read a byte, read a block, write a block (never called) | the i2c-dev driver |
| `SequenceMCUHandler`, commands (`sequence_mcu_handler.cpp:21-172`) | none that survives a call | `IssueAwakeCmd`, `IssueSoftReset`, `IssueHardReset`, `IssueSoftShutdown`, `IssueHardShutdown`: synchronous, with retries and sleeps | `SMBUSManager` |
| `SequenceMCUHandler`, reading (`:237-352`) | `current_state` (state, cause, capability), the poll timer | the 500 ms poll, the cached getters, `GetCapability`, `GetStateAndTransitionCause` | `SMBUSManager`, the event loop |
| `Host`, `Chassis` (`host.cpp`, `chassis.cpp`) | the properties sdbusplus stores | setters that issue commands, setters that only store, getters that map the cache, `determineInitialState` | the handler, D-Bus clients |
| `Power`, `main` | `pgood` | startup, the event loop | all |
| `ObjectServer` | the bus names it asked for | construction | the D-Bus daemon |
| listeners, coroutine polling, `utils.hpp` self-test | - | dead or debugging code | - |

The sequence MCU, the D-Bus daemon, sdbusplus and boost::asio are outside the
repository. Everything runs on one thread: a command blocks the loop, with its
sleeps, until it returns; polls and property writes wait.

What is hard: a write may reach the MCU and still be reported as failed; a soft
reset is two commands with a wait between them, either of which may fail or be
cut off by a crash; reads are answered from a cache that is fed by a timer that
re-arms itself; startup reads the MCU twice without filling that cache; a board
may isolate the MCU exactly when its state matters; the code sleeps where it would
have to know when the host is down; statuses are dropped; a second process may
be started. The list, with the line each bites at, is `hazards` in `PROJECT.json`.

## Modules

| Module | Models |
|---|---|
| `PowerTypes` | the enumerations and the lookup tables (states and causes stay raw bytes, as the casts keep them) |
| `SMBusManager` | each bus operation as the set of results a call may have: the return code, and what happened on the wire |
| `SequenceMcuCommands` | the five commands, one step per write and per sleep |
| `CommandPromise` | what any command promises its caller: the abstract specification |
| `SequenceMcuState` | the MCU's registers, the poll timer and the cache |
| `CachedRegister` | what readers of a register behind a cache may rely on: the abstract specification of the polling |
| `PowerControlService` | startup, the objects, the event loop, crash and restart; composes `SequenceMcuState` with the abstract command |
| `PropertyStore` | what clients of the two objects may rely on: one store behind one queue, the abstract specification of the service |
| `HostPower` | the commands together with an MCU that takes the events and a host that needs time to shut down, on a board that may cut the bus off below S0 |
| `PowerControlSystem` | the whole: the service with the detailed commands and the host of `HostPower` in the place of the abstract command and the free MCU |
| `BusNames` | several processes of the service, the bus names they ask for one after the other, and which of them drives the MCU |
| `MC...` | constants for TLC |
| `..._proofs` | theorems and their proofs |

How they correspond to the code:

* **Commands.** `stage` is the point of the call the thread is at: about to
  write, in the 1000 ms backoff, in the 500 ms pause, in the 5000 ms wait, about
  to return. The four single commands have the same loop and share its actions
  (`WriteSucceeds`, `WriteFails`, `Backoff`); `IssueSoftReset` runs the loop of
  its inner calls, which use the default argument, and counts its own rounds in
  `round`. `acked`, `delivered`, `last` and `slept` are history: no guard reads
  them. Counters are `uint8_t` (`Inc8`).
* **Polling.** A poll reads and stores without giving up the thread, so it is one
  step: `PollSucceeds`, `PollFails` (cache kept, timer re-armed) or
  `PollTimerError` (polling over). `reported` records every pair the MCU has
  held, `snapshot` which of them the cache holds.
* **Service.** `boot` walks through `main`; each constructor is a step, because
  the MCU can change and clients can write in between. `inbox` is the D-Bus
  queue, `serving` the write whose command has the thread. A setter that only
  stores is one step; a commanding setter accepts, progresses (`CommandStep`) and
  stores when the command is done, whatever its status. A crash may come
  anywhere: memory, descriptor and queue are gone, the MCU lives on. `startup` is
  history: which of the reported pairs each object was initialised from. The
  objects store six properties, but the getters of the two states answer from the
  cache and never from what is stored, so the abstract store (`Objects`) has only
  the four that are read back.
* **Host.** The code knows nothing of the host but its own sleeps, so the model
  counts in their unit, 500 ms. A shutdown takes a time of `ShutdownTimes`; `Sleep`
  lets that much of it go by. What an event does is what `docs/dbus-interfaces.md`
  says of the transitions (lines 13 to 22 and 47 to 50): Awake wakes a host that
  is off, SoftOff starts a shutdown, HardOff cuts the power, HardReset goes to S5
  and back. Two things no document says are left open: an Awake that meets a host on
  its way down may be remembered or lost, and an off that comes while one is
  remembered may cancel it or not (`WakeMayBeForgotten`). `owed` notes whether a
  call found a wake-up remembered when it was issued; the properties of outcomes
  speak of the calls that found none.
  What the host is about to do (`Due`) it does before the service's next step.
  `isolated` boards lose the bus while the host is off.
* **System.** Each action conjoins the action of `PowerControlService` it is, read
  through the mapping `Service` (`registers` is what the MCU reports of `power`,
  `job` and `result` are read off `op`, `stage` and `status`), with what it does to
  the call and the host. Only `CommandWorks` and `HostChanges` are written anew:
  they are the steps the service abstracts from.
* **Names.** `BusNames` takes the steps of `main` from `object_server.hpp`: opening
  the device, the names in the order they are asked for, the reads and the event
  loop. A refused name is an exception nobody catches: the process ends.
  Processes start and end at any time.

`PowerControlService` uses `CommandPromise` instead of the retry loops. For
safety this is sound because the detailed system is shown to implement it, for
all constants (`SystemImplementsService`); what has to do with progress is
checked on the detailed system itself.

The abstract specifications are layered: the calls implement `CommandPromise`; the
service, built on that promise, implements `PropertyStore` for its clients and
`CachedRegister` for its readers; the whole implements the service, and through it
both.

## Runs

| Run | Bounds | Shows |
|---|---|---|
| `commands_small` | retries 0..3, default 3 | order of a soft reset, meaning of Success and ProtocolError, bounds on deliveries and sleep, refinement of `CommandPromise` |
| `commands_limits` | retries 0 and 255, default 1 | every call returns at the ends of `uint8_t`, and a count of the steps it has left falls with each of them |
| `state_polling` | 6 pairs, at most 4 in a row | the cache is one snapshot and catches up; refinement of `CachedRegister` |
| `service_requests` | all transitions and the debugging write, 2 writes, 3 pairs, at most 2 in a row, 1 crash | service in order, stored values, what startup read and that it stays; refinement of `PropertyStore` and of `CachedRegister` |
| `host_power` | retries 1 and 2, default 2, shutdown times 0 to 7 s, both boards | a successful soft reset leaves the host running within its window; a successful Off is final |
| `system` | one write per command and one that only stores, 2 writes, 1 crash, a board that never isolates its MCU, 1 attempt and 1 round | refinement of `PowerControlService`; every event on the wire is one of the write being served (`WireServesRequest`); after a successful command an up-to-date cache shows what it asked for (`OutcomeIsRead`); writes are settled; getters catch up; what a successful command asked for is what readers are told in the end |
| `bus_names` | 3 processes | one at most drives the MCU, the names stay together, refusals come first, whoever holds the names ends up serving |

Five more runs end in a violation; see below.

Bounds. Retries 0 to 3 cover the refused argument, the loop that is entered once
(no second round), the default and one below it; 255 is the largest value and the
only one at which an off-by-one test never ends. In that run the inner calls get
one attempt, which keeps the product of the two loops small: their own counter
reaches 255 in the single commands. Two writes are the fewest
that can overtake each other and include a command and a store on either object;
a third waits behind them in the same queue. A pair that changes once
before and once after a read (two or three in a row) distinguishes every order of
changes and reads. One crash covers a crash in every state; the state after a
restart differs from the first only in the MCU's, the host's and the history
variables. The shutdown times of `host_power` lie on both sides of the windows
of one and of two rounds, 5.5 s and 6.5 s, and include a host that is down at
once. In `system` calls have one attempt and one round and a shutdown takes a
second: what the repetitions add inside a call is the subject of
`commands_small` and `host_power`, what they look like from outside is
`PromiseKept`. One
write for each of the five commands stands for the transitions that issue the same
one, and the board is of the one kind on which an outcome can be read; the theorems
cover every transition, number of retries and kind of board. Three processes are the fewest
of which two can be refused by a third. `reported`, `sent` and `crashes` are
bounded by `MaxReports`, `MaxRequests` and `MaxCrashes`; they bound the
environment, never the program; in `system` `MaxReports` lies above what two writes, a
crash and the host's first state can cause.

Deadlock. The polling, the service and the system runs do not check it: with the
environment's bounds used up, a service whose timer has ended has nothing left to
do. The others do.

Fairness. `FairCmdSpec`: weak fairness of the step in progress, as a sleep ends and
an ioctl returns; none for callers. `FairStateSpec`: `main` runs on (weak); a poll
that can succeed again and again does succeed (strong): bus errors are transient.
`FairSysSpec`: weak fairness of `Progress`, which is what the one thread, the host
and the clock do: startup goes on, what is queued is dispatched, a sleep ends, a
host that is going down arrives; and strong fairness of a successful poll, as
commands keep taking the thread away from it. `NamesSpec`: a process that was
started goes on (`Advance`). Nothing is assumed of the MCU's own changes, of
clients, of crashes, of processes being started or ended, or of a timer error;
`EventuallyFresh`, `ReadersCatchUp` and `OutcomeIsReported` take a live timer,
and the first two an open device, as premises.

### What the code does and the repository says otherwise

Five runs end in a violation, each of one sentence of a document or comment; the
`findings` of `PROJECT.json` quote them.

* `state_short_read`: a short block read is cached as if complete (needs an
  adapter that returns fewer bytes than asked for).
* `state_isolated`: on a board that isolates the MCU below S0, a chassis that went
  off is reported on until it comes back.
* `service_first_read`: a running host is reported Off until the first poll.
* `service_failed_startup_read`: one failed read leaves `RequestedHostTransition`
  Off for a running host.
* `host_isolated_reboot`: on such a board the wake-up half of a reboot, the one
  transition `host.cpp:62` says can be supported, writes to an MCU that is cut
  off as soon as the host is down.

Others can be read off a line and have no run. Three are disagreements with
`docs/dbus-interfaces.md`, and the properties named here follow the code: Chassis On
sends the event of Host On (`chassis.cpp:107`) where line 24 says it does not trigger
a transition to Host On; `GracefulWarmReboot` (line 47) is meant not to pull power and
is the soft reset of a `Reboot`, off and on again (`WireServesRequest` takes the
events from the setters' log lines, not from these two sentences); a
`CurrentHostState` written for debugging (line 58) is stored and never shown, as the
getter answers from the cache (`ImplementsStore` leaves out the two properties this
is true of). `pgood` is a constant 1 where line 68 has it tell that the rails are
stable. A soft reset repeats its writes `retries` times although they are
acknowledged.

## Proofs

`SequenceMcuCommands_proofs`, from `RetryAssumption` (arguments are bytes, the
default is not zero):

* `CmdTypeOK` is inductive by itself (`TypeStep`): `Inc8` wraps within a byte.
* None of the safety properties is. `CallInv` strengthens them: a call writes its
  own events (`CallShape`); inside a loop the counters are below their bounds, so
  nothing wraps (`CountersInRange`); the round counter equals the acknowledged
  writes of the current event (`RoundsAreAcks`); the shutdown half has not touched
  Awake and the wake-up half has the whole shutdown and the wait behind it
  (`Halves`). One lemma per action shows that it is preserved, and
  `AwakeOnlyAfterSettle`, `ErrorMeansExhausted` and `SuccessMeansAcked` follow.
* `BoundedDelivery` and `BoundedBlocking` add an account of the current round to
  it (`DeliveriesAreAttempts`, `SleepIsBudgeted`); the products of the two loop
  bounds are handled once, in `Products`.
* `CallsKeepPromise`: with `WireFollowsPlan` (what the last event on the wire is at
  each stage) every step of a call is a step of `CommandPromise` or none.
* `CallsAlwaysWindDown` is the safety half of `CallsReturn`, for every number of
  retries a `uint8_t` holds: `StepsLeft`, made of the attempts, the rounds and the
  halves still to come, is a natural number and falls with every step of a call
  (`AttemptsWindDown` within a round, `RoundsWindDown` between them). What is left
  to fairness is that a step is taken. `CountsAroundStep` states the arithmetic for
  the states on both sides of a step.

`SequenceMcuState_proofs`, from `StateAssumption`: `StateTypeOK`, short reads
included, and `CacheIsSnapshot` for an adapter that reads in full
(`BlockCounts = {STATE_AND_TCAUSE_SIZE}`, without which `state_short_read` refutes
it); under the same premise `StateImplementsRegister`: the pair in the cache is only
ever replaced by the pair the MCU holds at that moment, so a reader never goes back
in time.

`PowerControlService_proofs`, from `ServiceAssumption`, for every set of reports, any
number of writes and crashes:

* `HostChassisAgree`, for every value the cache could hold, listed in the tables
  or not; the run sees only three of them.
* `QueueInv` is the invariant of the queue: its entries are requests
  (`QueueTypes`), a call is in the air exactly while a commanding write is served
  (`CommandIsServed`), the pending ones are numbered in order (`Numbered`), nothing
  is queued before an object is on the bus (`NothingBeforeBus`), and the last
  pending write of a property is the latest, or else it is stored (`LatestKept`).
  `ServedInOrder` and `QuietMeansLatest` follow.
* `ServiceTypeOK` adds the types of the stored properties (`ServiceTypes`), which
  need the tables' ranges.
* `StartupReadingsStay`, for an adapter that reads in full: whatever polls, commands
  and writes to other properties do, a property nobody wrote to is what the pair
  noted in `startup` makes it. `StartupInv` has this from Host's construction on
  (`StartedFrom`), and that what is written to is marked so (`WrittenFirst`), that
  the registers are the last pair reported (`RegistersAreLatest`) and that nothing
  is polled before the event loop runs.
* `ServiceImplementsRegister` and `ServiceCachesSnapshots` carry what is proved of the
  polling into the service, where commands hold the polls up and crashes empty the
  cache.
* `ServiceImplementsStore`: under the mapping `Objects` (the queue is what is served
  and what waits, the store is the four properties that are read back) each step is a step
  of `PropertyStore` or none. A command's write takes effect when its call returns
  (`SettledWasFirst`: it is the first of the queue then), a storing one when it is
  served; nothing else touches an open store. `QueueInv` and `WrittenFirst` are all
  it needs.

`HostPower_proofs`, from `RetryAssumption` and `HostAssumption`, for every shutdown
time, number of rounds and board:

* `HostRefinesCommands`: with a host the calls do nothing they would not do
  without, so all of the above holds of them.
* `ResetLeavesHostUp`: the repeated wake-ups stretch the 5000 ms of the code to
  `2 * retries + 9` half seconds, 7500 ms with the default argument, and a host
  that is down by then ends up running, if no wake-up was remembered when the call
  was issued. `HostInv` keeps that the host is going
  down during the shutdown half (`GoingDown`), that what it still needs and what
  the call has slept add up to at most the shutdown's time (`Countdown`), and that
  after the last wake-up it is up or about to be (`ComesUp`). `NothingOwed` has that
  while a call switches off, nothing it did itself will start the host again.
* `OffIsFinal`, which is inductive together with them.

`PowerControlSystem_proofs`, from these and `SystemAssumption` (the default is one of
the arguments, clients send writes the objects know, the bounds are numbers), for
boards of either kind:

* `SysInv` (`HostInv`, `WireFollowsPlan`, the board's wiring) survives crashes and the
  re-opening of the device, so `ResetLeavesHostUp` and `OffIsFinal` hold in the whole,
  and so does what is proved of the calls (`SystemCallsAreHonest`,
  `SystemCallsAreBounded`, `SystemCallsWindDown`).
* `SystemImplementsService`: every step of the whole is a step of
  `PowerControlService`, or none, under the mapping `Service`. The bound on the history
  is a guard of `HostChanges`, so it is no premise. Where all boards isolate the MCU,
  so does the abstract one; where some do, the abstract MCU is always reachable, and
  the whole does less.
* With it the theorems about the service are theorems about the whole
  (`SystemServesInOrder`, `SystemQuietMeansLatest`, `SystemKeepsStartupReadings`,
  `SystemTypeCorrect`), and the refinements compose
  (`SystemImplementsStore`, `SystemImplementsRegister`). They come in through a second
  instance, `ServiceFacts`, of the service with its proofs; `ServiceAssumed` discharges
  its assumption, and `SameService` shows that its formulas are those of `Service` by
  writing both out, which is why it names every definition.
* `SystemWireIsServed`, for every delivery, the repeats of later attempts and rounds
  included: only a write of the call delivers (`OnlyWritesDeliver`), and a call that
  is under way is the command of the write being served and at an event of its
  transition (`CallServesWrite`, from `QueueInv`).
* `OutcomesAreRead`, the safety half of `OutcomeIsReported`: what a hard or a soft reset
  leaves behind stands until the next command (`StartStands`, next to `OffIsFinal` for
  the shutdowns), so a host that is done moving is where the command sent it
  (`OutcomeStands`); an up-to-date cache holds the pair the MCU reported last
  (`ServiceCachesSnapshots`), which is that host's. What is left to fairness is that
  the host gets there and a poll succeeds.

`BusNames_proofs`, from `NamesAssumption`, for any set of processes: `NamesHeld` (a
process owns exactly the names of the steps behind it) gives `OneDriver`,
`NamesGoTogether` and `RefusedAtOnce`.

Only model-checked: everything under fairness, which the prover does not do
(`CallsReturn`, `EventuallyFresh`, `RequestsServed`, `ReadersCatchUp`,
`OutcomeIsReported`, `HolderServes`), and the five violations.

## Not modelled

`lastStateChangeTime`, a wall-clock value, and log messages;
`allowedHostTransitions`, which nothing
reads; `SmbusWriteByteMulti`, the listener registry, the coroutine variant of
`StartPolling`, `run_i2c_tests` and two lookup tables, which nothing calls; the
command line; the destructor's cancellation of the timer, as the handler lives
as long as `main`; the transitioning and the quiesced values clients may write into the
stored states, which behave as the modelled ones. A block read may come back
short (`BlockCounts`), but not longer than asked for, where the `memcpy` of
`smbus_manager.cpp` would leave its two-byte buffer: i2c adapters return at most the
length in the request. What the MCU does with an event
it may refuse, and buttons pressed in the middle of a command, are left out of
`HostPower`; `PowerControlService` has an MCU that may report anything at any time.

## Plan

Done: the commands, the polling and the cache, the composed service, each with its
abstract specification; the host, on boards of either kind; the whole; the bus
names; proofs of every safety property and every refinement the runs check, of the
service's theorems in the whole, and of the safety halves of `CallsReturn` and
`OutcomeIsReported`. Left, in order:

1. The safety half of `RequestsServed` in the whole: a count of what is still to be
   done for the writes sent, in the manner of `StepsLeft`, that every step of
   `Progress` lowers.
2. An abstract specification of the ownership of the names, one holder at a time, and
   `BusNames` shown to implement it.
