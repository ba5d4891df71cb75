------------------------- MODULE PowerControlService -------------------------
(***************************************************************************)
(* The service: main's startup, the Power, Host and Chassis D-Bus objects, *)
(* the one-threaded event loop that serves property writes in arrival      *)
(* order and polls the MCU in between, and its crash and restart.          *)
(*                                                                         *)
(* A power command is the abstract one of CommandPromise, which the calls  *)
(* of SequenceMcuCommands are shown to keep; the cache and the MCU are     *)
(* those of SequenceMcuState.                                              *)
(***************************************************************************)
EXTENDS PowerTypes, SMBusManager, Sequences

CONSTANTS
  Reports, Capabilities, BlockCounts, StackBytes, IsolatedBelowS0, MaxReports,
  ClientRequests, \* the property writes clients may send
  MaxRequests,    \* bound on the writes sent
  MaxCrashes      \* bound on the crashes

VARIABLES
  fd, registers, current_state, poll_timer, reported, snapshot,
  job, last, result,
  boot,       \* how far main is: the step it is about to take, or "run"
  pgood,      \* Power's property
  host,       \* Host's properties, as sdbusplus stores them
  chassis,    \* Chassis' properties, as sdbusplus stores them
  inbox,      \* writes received and not yet dispatched, oldest first
  serving,    \* the write whose command is being executed, or NoRequest
  (* history, read by no guard but the bounds *)
  sent,       \* writes sent so far
  settled,    \* writes answered, or lost in a crash, so far
  latest,     \* the value last written to each property of this process
  startup,    \* which reported pair each object was initialised from, 0 if none
  crashes     \* crashes so far

objectVars == <<pgood, host, chassis, startup>>
commandVars == <<job, last, result>>
queueVars == <<inbox, serving, sent, settled, latest>>
readVars == <<fd, registers, current_state, poll_timer, reported, snapshot>>
vars == <<fd, registers, current_state, poll_timer, reported, snapshot,
          job, last, result, boot, pgood, host, chassis,
          inbox, serving, sent, settled, latest, startup, crashes>>

Mcu == INSTANCE SequenceMcuState
Command == INSTANCE CommandPromise

NoRequest == [id |-> 0, property |-> "none", value |-> "none"]

\* What sdbusplus initialises the properties to.
HostDefaults ==
  [requestedHostTransition |-> "Off", currentHostState |-> "Off",
   restartCause |-> "Unknown"]
ChassisDefaults ==
  [requestedPowerTransition |-> "Off", currentPowerState |-> "Off",
   currentPowerStatus |-> "Undefined"]

\* Mutant: a graceful Off cuts the power.
HardOffCommand ==
  [On |-> "Awake", Off |-> "HardShutdown", Reboot |-> "SoftReset",
   GracefulWarmReboot |-> "SoftReset", ForceWarmReboot |-> "HardReset"]

\* The handler call behind each requested transition.
HostCommand ==
  [On |-> "Awake", Off |-> "SoftShutdown", Reboot |-> "SoftReset",
   GracefulWarmReboot |-> "SoftReset", ForceWarmReboot |-> "HardReset"]
ChassisCommand ==
  [On |-> "Awake", Off |-> "HardShutdown", PowerCycle |-> "HardReset"]

HostProperties == DOMAIN HostDefaults
ChassisProperties == DOMAIN ChassisDefaults
NotRead == [host |-> 0, chassis |-> 0]
NothingWritten == [p \in HostProperties \cup ChassisProperties |-> "none"]
IsCommand(r) == r.property \in {"requestedHostTransition", "requestedPowerTransition"}
CommandOf(r) == IF r.property = "requestedHostTransition"
                THEN HostCommand[r.value] ELSE ChassisCommand[r.value]

\* The writes of object properties D-Bus clients can make.
Requests ==
  [property : {"requestedHostTransition"}, value : DOMAIN HostCommand]
    \cup [property : {"requestedPowerTransition"}, value : DOMAIN ChassisCommand]
    \cup [property : {"currentHostState"}, value : HostState]
    \cup [property : {"restartCause"}, value : RestartCause]
    \cup [property : {"currentPowerState"}, value : ChassisPowerState]
    \cup [property : {"currentPowerStatus"}, value : {"Good", "Undefined"}]

\* The first four are the assumption of SequenceMcuState.
ASSUME ServiceAssumption ==
  /\ Reports \subseteq Bytes \X Bytes /\ Reports # {} /\ Capabilities \subseteq Bytes
  /\ BlockCounts \subseteq 0..2 /\ StackBytes \subseteq Bytes
  /\ IsolatedBelowS0 \in BOOLEAN
  /\ MaxReports \in Nat \ {0}
  /\ ClientRequests \subseteq Requests
  /\ MaxRequests \in Nat /\ MaxCrashes \in Nat

\* What a client reading the two state properties is answered: the getters
\* map the cached power state, whatever the stored property says.
CurrentHostState == toHostState(current_state.power_state)
CurrentPowerState == toChassisState(current_state.power_state)

-----------------------------------------------------------------------------
Init ==
  /\ Mcu!StateInit
  /\ fd = ClosedFd
  /\ Command!Init
  /\ boot = "open"
  /\ pgood = 0 /\ host = HostDefaults /\ chassis = ChassisDefaults
  /\ inbox = <<>> /\ serving = NoRequest
  /\ sent = 0 /\ settled = 0 /\ latest = NothingWritten /\ startup = NotRead
  /\ crashes = 0

\* main: InitSMBUSManager, whose result is not looked at.
OpenDevice ==
  /\ boot = "open" /\ boot' = "power"
  /\ fd' \in InitSMBUSManager(fd)
  /\ UNCHANGED <<registers, current_state, poll_timer, reported, snapshot,
                 commandVars, objectVars, queueVars, crashes>>

ConstructPower ==
  /\ boot = "power" /\ boot' = "host"
  /\ pgood' = 1
  /\ UNCHANGED <<readVars, commandVars, host, chassis, startup, queueVars, crashes>>

\* Mutant: a state of the MCU, not of the D-Bus interface, is stored.
RawInitialHost(state, cause) ==
  [requestedHostTransition |-> "On", currentHostState |-> "kSLP_S0",
   restartCause |-> toRestartCause(cause)]

\* What determineInitialState stores on a successful read of the pair.
InitialHost(state, cause) ==
  [requestedHostTransition |-> IF toHostState(state) = "Running" THEN "On" ELSE "Off",
   currentHostState |-> toHostState(state),
   restartCause |-> toRestartCause(cause)]
InitialChassis(state, cause) ==
  [requestedPowerTransition |-> IF toChassisState(state) = "On" THEN "On" ELSE "Off",
   currentPowerState |-> toChassisState(state),
   currentPowerStatus |-> toPowerStatus(cause)]

\* Host reads the MCU once; the cache is not filled.
ConstructHost ==
  /\ boot = "host" /\ boot' = "chassis"
  /\ \E r \in Mcu!GetStateAndTransitionCause :
       \/ r.rc < 0 /\ UNCHANGED <<host, startup>>
       \/ /\ r.rc >= 0
          /\ host' = InitialHost(r.resultant[1], r.resultant[2])
          /\ startup' = [startup EXCEPT !.host = Len(reported)]
  /\ UNCHANGED <<readVars, commandVars, pgood, chassis, queueVars, crashes>>

\* Chassis reads it again.
ConstructChassis ==
  /\ boot = "chassis" /\ boot' = "poll"
  /\ \E r \in Mcu!GetStateAndTransitionCause :
       \/ r.rc < 0 /\ UNCHANGED <<chassis, startup>>
       \/ /\ r.rc >= 0
          /\ chassis' = InitialChassis(r.resultant[1], r.resultant[2])
          /\ startup' = [startup EXCEPT !.chassis = Len(reported)]
  /\ UNCHANGED <<readVars, commandVars, pgood, host, queueVars, crashes>>

\* Mutant: the polling is not started.
RunWithoutPolling ==
  /\ boot = "poll" /\ boot' = "run"
  /\ UNCHANGED <<readVars, commandVars, objectVars, queueVars, crashes>>

\* main starts the polling and enters the event loop.
Run ==
  /\ boot = "poll" /\ boot' = "run"
  /\ Mcu!StartPolling
  /\ UNCHANGED <<commandVars, objectVars, queueVars, crashes>>

Startup == OpenDevice \/ ConstructPower \/ ConstructHost \/ ConstructChassis \/ Run

-----------------------------------------------------------------------------
\* An object's well-known name is on the bus from its construction on.
OnBus(r) == \/ boot = "run"
            \/ boot = "poll"
            \/ boot = "chassis" /\ r.property \in HostProperties

\* External: a client writes a property.
ClientWrites ==
  /\ sent < MaxRequests
  /\ \E r \in ClientRequests :
       /\ OnBus(r)
       /\ inbox' = Append(inbox, [id |-> sent + 1, property |-> r.property,
                                  value |-> r.value])
       /\ latest' = [latest EXCEPT ![r.property] = r.value]
  /\ sent' = sent + 1
  /\ UNCHANGED <<readVars, commandVars, boot, objectVars, serving, settled, crashes>>

\* Mutant: handlers run while a command sleeps.
ReentrantLoop == boot = "run"

\* The thread is in the event loop, between two handlers.
LoopIdle == boot = "run" /\ serving = NoRequest

\* Mutant: Chassis' setters do not store.
StoreHostOnly(r) ==
  /\ host' = IF r.property \in HostProperties
             THEN [host EXCEPT ![r.property] = r.value] ELSE host
  /\ UNCHANGED chassis

\* The setter stores the value; only one object has the property.
Store(r) ==
  /\ host' = IF r.property \in HostProperties
             THEN [host EXCEPT ![r.property] = r.value] ELSE host
  /\ chassis' = IF r.property \in ChassisProperties
                THEN [chassis EXCEPT ![r.property] = r.value] ELSE chassis

\* A write whose setter only stores.
ServeStore ==
  /\ LoopIdle /\ inbox # <<>> /\ ~IsCommand(Head(inbox))
  /\ Store(Head(inbox))
  /\ inbox' = Tail(inbox)
  /\ settled' = settled + 1
  /\ UNCHANGED <<readVars, commandVars, boot, pgood, startup, serving, sent, latest, crashes>>

\* A write whose setter starts with a command, which blocks the loop.
ServeCommand ==
  /\ LoopIdle /\ inbox # <<>> /\ IsCommand(Head(inbox))
  /\ Command!Accept(CommandOf(Head(inbox)))
  /\ result' = Command!None
  /\ serving' = Head(inbox)
  /\ inbox' = Tail(inbox)
  /\ UNCHANGED <<readVars, boot, objectVars, sent, settled, latest, crashes>>

\* The command's own progress: an event gets through, or the call is done.
\* Events get through only on an open descriptor to a reachable MCU.
CommandStep ==
  /\ job # Command!None
  /\ \/ /\ fd >= 0 /\ Mcu!Reachable
        /\ \E e \in Command!MayFollow(job, last) : Command!Deliver(e)
     \/ \E r \in {"Success", "ProtocolError"} : Command!Conclude(r)
  /\ UNCHANGED <<readVars, boot, objectVars, queueVars, crashes>>

\* Mutant: a failed command is waited on for ever.
FinishOnSuccess ==
  /\ result = "Success"
  /\ Command!HandOver
  /\ Store(serving)
  /\ serving' = NoRequest
  /\ settled' = settled + 1
  /\ UNCHANGED <<readVars, boot, pgood, startup, inbox, sent, latest, crashes>>

\* The setter records the request, whatever the status: it is not looked at.
FinishCommand ==
  /\ Command!HandOver
  /\ Store(serving)
  /\ serving' = NoRequest
  /\ settled' = settled + 1
  /\ UNCHANGED <<readVars, boot, pgood, startup, inbox, sent, latest, crashes>>

\* Mutant: the host's stored properties follow the polls.
PollRefreshesHost ==
  /\ LoopIdle
  /\ Mcu!PollSucceeds
  /\ host' = InitialHost(registers[1], registers[2])
  /\ UNCHANGED <<commandVars, boot, pgood, chassis, startup, queueVars, crashes>>

\* The poll timer's handler, when no other handler occupies the thread.
PollSucceeds ==
  /\ LoopIdle
  /\ Mcu!PollSucceeds
  /\ UNCHANGED <<commandVars, boot, objectVars, queueVars, crashes>>

PollGetsNothing ==
  /\ LoopIdle
  /\ Mcu!PollFails \/ Mcu!PollTimerError
  /\ UNCHANGED <<commandVars, boot, objectVars, queueVars, crashes>>

McuChanges ==
  /\ Mcu!McuChanges
  /\ UNCHANGED <<commandVars, boot, objectVars, queueVars, crashes>>

\* The process dies at any point and is started again: its memory, its
\* descriptor and the writes on their way to it are gone, the MCU lives on.
Crash ==
  /\ boot # "open" /\ crashes < MaxCrashes
  /\ crashes' = crashes + 1
  /\ boot' = "open" /\ fd' = ClosedFd
  /\ current_state' = Mcu!InitSequenceMcuContext
  /\ poll_timer' = "idle" /\ snapshot' = 0
  /\ job' = Command!None /\ last' = Command!None /\ result' = Command!None
  /\ pgood' = 0 /\ host' = HostDefaults /\ chassis' = ChassisDefaults
  /\ inbox' = <<>> /\ serving' = NoRequest
  /\ settled' = sent /\ latest' = NothingWritten /\ startup' = NotRead
  /\ UNCHANGED <<registers, reported, sent>>

Next ==
  \/ Startup \/ ClientWrites
  \/ ServeStore \/ ServeCommand \/ CommandStep \/ FinishCommand
  \/ PollSucceeds \/ PollGetsNothing \/ McuChanges \/ Crash

Spec == Init /\ [][Next]_vars

-----------------------------------------------------------------------------
ServiceTypeOK ==
  /\ Mcu!StateTypeOK
  /\ job \in Command!Operations \cup {"none"}
  /\ last \in PowerEvents \cup {"none"}
  /\ result \in OperationStatus \cup {"none"}
  /\ boot \in {"open", "power", "host", "chassis", "poll", "run"}
  /\ pgood \in {0, 1}
  /\ host \in [requestedHostTransition : DOMAIN HostCommand,
               currentHostState : HostState, restartCause : RestartCause]
  /\ chassis \in [requestedPowerTransition : DOMAIN ChassisCommand,
                  currentPowerState : ChassisPowerState,
                  currentPowerStatus : {"Good", "Undefined"}]
  /\ \A i \in DOMAIN inbox :
       /\ inbox[i].id \in Nat
       /\ inbox[i].property \in HostProperties \cup ChassisProperties
  /\ serving.id \in Nat
  /\ startup \in [host : 0..Len(reported), chassis : 0..Len(reported)]
  /\ sent \in 0..MaxRequests /\ settled \in 0..sent /\ crashes \in 0..MaxCrashes

\* What is being served and what waits, oldest first.
Pending == (IF serving = NoRequest THEN <<>> ELSE <<serving>>) \o inbox

\* Every write is served exactly once, in arrival order across the Host and
\* the Chassis object: what is being served and what waits are exactly the
\* writes sent and not settled, oldest first.  (The single event loop, blocked
\* by the command it executes.)
ServedInOrder ==
  /\ settled + Len(Pending) = sent
  /\ \A i \in DOMAIN Pending : Pending[i].id = settled + i

\* When nothing is pending, every property stores what was last written to it,
\* whichever writes failed on the bus and in whatever order the two objects'
\* writes came.  (Both setters store the value after the command, whatever its
\* status.)
QuietMeansLatest ==
  (boot = "run" /\ serving = NoRequest /\ inbox = <<>>) =>
     \A p \in DOMAIN latest : latest[p] # "none" =>
        latest[p] = (IF p \in HostProperties THEN host[p] ELSE chassis[p])

\* What startup makes of the pair it read, or of no reading.
HostReading(n) ==
  IF n = 0 THEN HostDefaults ELSE InitialHost(reported[n][1], reported[n][2])
ChassisReading(n) ==
  IF n = 0 THEN ChassisDefaults ELSE InitialChassis(reported[n][1], reported[n][2])
Unwritten(object, reading) ==
  \A p \in DOMAIN object : latest[p] = "none" => object[p] = reading[p]

\* From its startup to its end, a process has its objects' properties say what
\* its one startup reading said, property by property until a client writes it:
\* no poll, command or write to another property touches them.  Chassis'
\* reading may be younger than Host's, never older, and a poll never shows a
\* moment before either.  (determineInitialState runs once per object, with two
\* separate reads; nothing else calls the setters.)
StartupReadingsStay ==
  boot \in {"poll", "run"} =>
    /\ Unwritten(host, HostReading(startup.host))
    /\ Unwritten(chassis, ChassisReading(startup.chassis))
    /\ startup.chassis > 0 => startup.host <= startup.chassis
    /\ snapshot > 0 => startup.host <= snapshot /\ startup.chassis <= snapshot

\* The properties whose getters return what is stored: the two states' getters
\* answer from the cache.
StoredProperties ==
  {"requestedHostTransition", "restartCause",
   "requestedPowerTransition", "currentPowerStatus"}
StoredIn(hostObject, chassisObject) ==
  [p \in StoredProperties |->
     IF p \in HostProperties THEN hostObject[p] ELSE chassisObject[p]]

\* The abstract store both objects are.
Objects ==
  INSTANCE PropertyStore WITH
    Writes <- {[id |-> n, property |-> r.property, value |-> r.value] :
                 n \in 1..MaxRequests, r \in ClientRequests},
    Defaults <- StoredIn(HostDefaults, ChassisDefaults),
    open <- boot = "run",
    queue <- Pending,
    store <- StoredIn(host, chassis)

\* Clients of both objects see one store that serves one queue: a write that
\* waits for its command, fails on the bus or is overtaken by polls shows once,
\* at one moment, in its turn, or is lost in a restart with everything else.
\* (The four properties whose getters return what is stored.  A write to one of
\* the other two takes its turn and shows nowhere: docs/dbus-interfaces.md:58 has
\* one write currentHostState for debugging and see it, which is not so.)
ImplementsStore == Objects!StoreSpec

\* Readers of the two states see moments of the MCU in their order, or the
\* unknown state of a process that has not polled yet.
ImplementsRegister == Mcu!ImplementsRegister

\* Host and Chassis never contradict each other: the host is reported off
\* exactly when the chassis is, for every byte the cache may hold.  (Two
\* tables with a fallback each, in host.cpp and chassis.cpp.)
HostChassisAgree == (CurrentHostState = "Off") <=> (CurrentPowerState = "Off")

\* Every write is answered or lost in a crash: no command, failing bus or
\* missing device holds the loop for ever.
RequestsServed ==
  \A n \in 1..MaxRequests : (sent >= n) ~> (settled >= n)

\* With the device open and the timer alive, both getters settle on what the
\* MCU holds: neither commands nor a restart starve the polling.
ReadersCatchUp ==
  (<>[](fd >= 0) /\ [](poll_timer # "ended")) =>
     <>[](/\ CurrentHostState = toHostState(registers[1])
          /\ CurrentPowerState = toChassisState(registers[1]))

-----------------------------------------------------------------------------
(* What the repository says and the code does not do.                      *)

\* "currentHostState should be determined by querying the sequence MCU for the
\* actual host state": before the first poll, the state the startup query
\* found is the one a reader gets.
StartupStateIsShown ==
  (boot = "run" /\ sent = 0 /\ snapshot = 0) =>
     CurrentHostState = host.currentHostState

\* "requestedPowerTransition should match the currentPowerState on BMC
\* startup": with no write and an MCU that never changed, a poll later.
RequestedMatchesCurrent ==
  (boot = "run" /\ sent = 0 /\ snapshot > 0 /\ Len(reported) = 1) =>
     ((host.requestedHostTransition = "On") <=> (CurrentHostState = "Running"))
=============================================================================
