------------------------- MODULE PowerControlSystem -------------------------
(***************************************************************************)
(* The whole: clients, the service with its event loop, the power commands *)
(* write by write and sleep by sleep, the sequence MCU and the host.       *)
(*                                                                         *)
(* The service's own steps are those of PowerControlService; its one-step  *)
(* command is replaced by the calls of SequenceMcuCommands and its free    *)
(* MCU by the host of HostPower.  That this is still a behaviour of        *)
(* PowerControlService is checked, and what only the whole can show: that  *)
(* what a client asked for is what readers see in the end.                 *)
(***************************************************************************)
EXTENDS HostPower, Sequences

CONSTANTS
  ClientRequests, MaxRequests, MaxCrashes,
  MaxReports   \* bound on the pairs the MCU holds in a row

VARIABLES
  current_state, poll_timer, reported, snapshot,
  boot, pgood, host, chassis, startup, inbox, serving, sent, settled, latest, crashes

serviceVars == <<current_state, poll_timer, reported, snapshot, boot, pgood,
                 host, chassis, startup, inbox, serving, sent, settled, latest,
                 crashes>>
sysVars == <<plantVars, serviceVars>>

\* What the MCU reports of a host.
Report(p) == IF p = "off" THEN <<kSLP_S5, kCause_ChassisControl>>
                          ELSE <<kSLP_S0, kCause_PowerUpPushbutton>>

\* The abstract service this is.  Where every board cuts the bus off below S0,
\* so does its; where some do, its MCU is always reachable and BusUp is a
\* further guard.
Service ==
  INSTANCE PowerControlService WITH
    registers <- Report(power),
    job <- IF stage = "ready" THEN "none" ELSE op,
    result <- IF stage = "return" THEN status ELSE "none",
    Reports <- {Report(p) : p \in PowerStates},
    Capabilities <- {}, BlockCounts <- {2}, StackBytes <- {},
    IsolatedBelowS0 <- (Boards = {TRUE})

\* The setters leave the argument out.
ASSUME SystemAssumption ==
  /\ DefaultRetries \in RetryArgs
  /\ ClientRequests \subseteq Service!Requests
  /\ MaxRequests \in Nat /\ MaxCrashes \in Nat /\ MaxReports \in Nat \ {0}

-----------------------------------------------------------------------------
SysInit ==
  /\ HostInit
  /\ reported = <<Report(power)>>
  /\ current_state = Service!Mcu!InitSequenceMcuContext
  /\ boot = "open" /\ pgood = 0
  /\ host = Service!HostDefaults /\ chassis = Service!ChassisDefaults
  /\ startup = Service!NotRead
  /\ inbox = <<>> /\ serving = Service!NoRequest
  /\ sent = 0 /\ settled = 0 /\ latest = Service!NothingWritten /\ crashes = 0
  /\ poll_timer = "idle" /\ snapshot = 0
  /\ fd = ClosedFd

\* main's steps; the device is opened here, and read only over a bus that is up.
Boots ==
  /\ ~Due
  /\ \/ /\ UNCHANGED <<callVars, historyVars, hostVars>>
        /\ Service!OpenDevice
     \/ /\ UNCHANGED plantVars
        /\ Service!ConstructPower \/ Service!Run
     \/ /\ UNCHANGED plantVars
        /\ Service!ConstructHost \/ Service!ConstructChassis
        /\ BusUp \/ UNCHANGED <<host, chassis, startup>>

ClientWrites == ~Due /\ UNCHANGED plantVars /\ Service!ClientWrites

ServeStore == ~Due /\ UNCHANGED plantVars /\ Service!ServeStore

\* A setter calls the Issue... function of its transition, without an argument.
ServeCommand ==
  /\ ~Due
  /\ inbox # <<>> /\ Service!IsCommand(Head(inbox))
  /\ Issue(DefaultRetries)
  /\ op' = Service!CommandOf(Head(inbox))
  /\ Issued
  /\ Service!ServeCommand

\* The call writes or sleeps; the event loop stands still.
CommandWorks == (Write \/ Sleep) /\ UNCHANGED serviceVars

\* The call returns to the setter.
FinishCommand ==
  /\ ~Due
  /\ Return
  /\ UNCHANGED hostVars
  /\ Service!FinishCommand

PollSucceeds == ~Due /\ BusUp /\ UNCHANGED plantVars /\ Service!PollSucceeds

PollGetsNothing == ~Due /\ UNCHANGED plantVars /\ Service!PollGetsNothing

\* The host goes down or comes up, and the MCU reports it.
HostChanges ==
  /\ HostMoves
  /\ Len(reported) < MaxReports
  /\ reported' = Append(reported, Report(power'))
  /\ UNCHANGED <<current_state, poll_timer, snapshot, boot, pgood,
                 host, chassis, startup, inbox, serving, sent, settled, latest,
                 crashes>>

TimePasses == Idle /\ UNCHANGED serviceVars

\* The process dies, in the middle of a call perhaps; the host lives on.
Crash ==
  /\ ~Due
  /\ op' = "Awake" /\ retries' = 0 /\ event' = "Awake" /\ round' = 0 /\ attempt' = 0
  /\ stage' = "ready" /\ status' = "Undefined"
  /\ acked' = NoEvents /\ delivered' = NoEvents /\ last' = "none" /\ slept' = 0
  /\ UNCHANGED hostVars
  /\ Service!Crash

\* What the thread, the host and the clock do; there is only so much of it
\* before the next write or crash.
Progress ==
  \/ Boots \/ ServeStore \/ ServeCommand \/ CommandWorks \/ FinishCommand
  \/ HostChanges \/ TimePasses

SysNext == Progress \/ ClientWrites \/ PollSucceeds \/ PollGetsNothing \/ Crash

SysSpec == SysInit /\ [][SysNext]_sysVars

\* As in PowerControlService, the thread goes on, and a poll that keeps being
\* possible succeeds in the end; the host does what it is about to do, in time
\* that passes.  Clients, crashes and timer errors are left free.
FairSysSpec == SysSpec /\ WF_sysVars(Progress) /\ SF_sysVars(PollSucceeds)

-----------------------------------------------------------------------------
\* The detailed system does nothing the service of PowerControlService would
\* not do: a call, with its retries, sleeps and failures, is its abstract
\* command, whatever the host does meanwhile and wherever the process dies.
ImplementsService == Service!Spec

\* The events of a written transition, named for the signal the setters' log
\* lines say was written: Awake, Soft Shutdown, Hard Off, Soft Reset (a shutdown
\* and a wake-up), Hard Reset.  This is not what docs/dbus-interfaces.md says of
\* two of them: Chassis On is to leave the host off (line 24), and a
\* GracefulWarmReboot is to restart it without pulling power (line 47).
EventsFor(r) ==
  CASE r.value = "On" -> {"Awake"}
    [] r.value = "Off" ->
         IF r.property = "requestedHostTransition" THEN {"SoftOff"} ELSE {"HardOff"}
    [] r.value \in {"Reboot", "GracefulWarmReboot"} -> {"SoftOff", "Awake"}
    [] r.value \in {"ForceWarmReboot", "PowerCycle"} -> {"HardReset"}

\* Whenever an event reaches the MCU, be it for the first time or again in a
\* later attempt or round, a write is being served and the event is one of its
\* transition: nothing wakes, resets or cuts off a host before the client asked,
\* after it was answered, or after a restart.  (The two setters' switches and
\* the loops behind them; startup and polling do not write.)
WireServesRequest ==
  [][\A e \in PowerEvents : delivered'[e] > delivered[e] =>
       /\ serving # Service!NoRequest /\ serving' = serving
       /\ Service!IsCommand(serving) /\ e \in EventsFor(serving)]_sysVars

\* Every write is answered or lost in a crash.
RequestsServed == Service!RequestsServed

\* The getters settle on what the MCU reports of a host that answers.
ReadersCatchUp == ~isolated => Service!ReadersCatchUp

Outcome ==
  [SoftShutdown |-> "Off", HardShutdown |-> "Off",
   HardReset |-> "Running", SoftReset |-> "Running"]

\* From the answer to a successful command to the next command or restart, a
\* cache that is up to date on a host that is done going down or coming up shows
\* what the command asked for: no repeated attempt or round undoes it, and the
\* sleeps of a soft reset were long enough for its host.  (Unless the command
\* found an earlier one's wake-up remembered.)
OutcomeIsRead ==
  \A o \in DOMAIN Outcome :
    (/\ stage \in {"return", "ready"} /\ op = o /\ status = "Success" /\ ~owed
     /\ (o = "SoftReset" => took <= Window)
     /\ power # "stopping" /\ ~Due /\ snapshot = Len(reported))
      => Service!CurrentHostState = Outcome[o]

\* When the last command a client's write caused was successful, what it asked
\* for is what every reader is told in the end: through its retries, the
\* host's own time, restarts and the polling.  (An On is left out: it may meet a
\* host on its way down; and so is what follows an On that was remembered.)
OutcomeIsReported ==
  (/\ [](~isolated /\ poll_timer # "ended")
   /\ <>[](boot = "run" /\ stage = "ready" /\ status = "Success" /\ ~owed
           /\ op \in DOMAIN Outcome /\ (op = "SoftReset" => took <= Window)))
    => <>[](op \in DOMAIN Outcome /\ Service!CurrentHostState = Outcome[op])
=============================================================================
