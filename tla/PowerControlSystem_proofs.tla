---------------------- MODULE PowerControlSystem_proofs ----------------------
(***************************************************************************)
(* Proofs about PowerControlSystem: the whole implements the service of    *)
(* PowerControlService, and what is proved of a host that is only sent     *)
(* commands holds in the whole too.                                        *)
(***************************************************************************)
EXTENDS PowerControlSystem, HostPower_proofs

\* The inductive invariant: the host's and the calls', the wire, the board.
SysInv == HostInv /\ WireFollowsPlan /\ isolated \in Boards

-----------------------------------------------------------------------------
\* What a step does to the calls and the host: a step of HostPower, main's
\* opening of the device, or a crash.
LEMMA PlantStep ==
  ASSUME [SysNext]_sysVars
  PROVE  \/ [HostNext]_plantVars
         \/ fd' \in InitSMBUSManager(fd) /\ UNCHANGED <<callVars, historyVars, hostVars>>
         \/ Crash
<1>1. CASE Boots
  <2>1. CASE UNCHANGED plantVars
    BY <2>1
  <2>2. CASE UNCHANGED <<callVars, historyVars, hostVars>> /\ Service!OpenDevice
    BY <2>2 DEF Service!OpenDevice, Service!InitSMBUSManager, InitSMBUSManager,
                Service!Fd, Fd, Service!ClosedFd, ClosedFd, Service!OpenFd, OpenFd
  <2> QED
    BY <1>1, <2>1, <2>2 DEF Boots
<1>2. CASE ServeStore \/ ClientWrites \/ PollSucceeds \/ PollGetsNothing
  BY <1>2 DEF ServeStore, ClientWrites, PollSucceeds, PollGetsNothing
<1>3. CASE ServeCommand
  BY <1>3, SystemAssumption DEF ServeCommand, HostNext, CallsAndReturns
<1>4. CASE CommandWorks
  BY <1>4 DEF CommandWorks, HostNext
<1>5. CASE FinishCommand
  BY <1>5 DEF FinishCommand, HostNext, CallsAndReturns
<1>6. CASE HostChanges
  BY <1>6 DEF HostChanges, HostNext
<1>7. CASE TimePasses
  BY <1>7 DEF TimePasses, HostNext
<1>8. CASE UNCHANGED sysVars
  BY <1>8 DEF sysVars
<1> QED
  BY <1>1, <1>2, <1>3, <1>4, <1>5, <1>6, <1>7, <1>8 DEF SysNext, Progress

LEMMA SysInvInit ==
  ASSUME SysInit
  PROVE  SysInv
<1>1. HostInv
  BY HostInvInit DEF SysInit
<1>2. stage = "ready" /\ isolated \in Boards
  BY DEF SysInit, HostInit, CmdInit
<1> QED
  BY <1>1, <1>2 DEF SysInv, WireFollowsPlan

\* Opening the device disturbs no call and no host.
LEMMA SysInvOpens ==
  ASSUME SysInv, fd' \in InitSMBUSManager(fd), UNCHANGED <<callVars, historyVars, hostVars>>
  PROVE  SysInv'
<1>1. /\ UNCHANGED <<op, retries, event, round, attempt, stage, status>>
      /\ UNCHANGED <<acked, delivered, last, slept>>
      /\ UNCHANGED <<isolated, power, downIn, wake, took, owed>>
  BY DEF callVars, historyVars, hostVars
<1>2. fd' \in Fd
  BY DEF InitSMBUSManager, SysInv, HostInv, CallInv, CmdTypeOK
<1>3. CmdTypeOK'
  BY <1>1, <1>2 DEF SysInv, HostInv, CallInv, CmdTypeOK
<1>4. CallInv'
  BY <1>1, <1>3 DEF SysInv, HostInv, CallInv, CallShape, CountersInRange, RoundsAreAcks,
                    Halves, Attempts, Rounds
<1>5. HostTypeOK' /\ OffIsFinal'
  BY <1>1, <1>3 DEF SysInv, HostInv, HostTypeOK, OffIsFinal
<1>6. NothingOwed' /\ GoingDown' /\ Countdown' /\ ComesUp'
  BY <1>1 DEF SysInv, HostInv, NothingOwed, GoingDown, Countdown, ComesUp,
              ResetUnderway, LastAwakeTaken, Elapsed, Window
<1>7. WireFollowsPlan' /\ isolated' \in Boards
  BY <1>1 DEF SysInv, WireFollowsPlan
<1> QED
  BY <1>4, <1>5, <1>6, <1>7 DEF SysInv, HostInv

\* After a crash no call is in the air, wherever the old process was.
LEMMA SysInvCrash ==
  ASSUME SysInv, Crash
  PROVE  SysInv'
<1>1. /\ op' = "Awake" /\ retries' = 0 /\ event' = "Awake" /\ round' = 0 /\ attempt' = 0
      /\ stage' = "ready" /\ status' = "Undefined"
      /\ acked' = NoEvents /\ delivered' = NoEvents /\ last' = "none" /\ slept' = 0
      /\ UNCHANGED <<isolated, power, downIn, wake, took, owed>>
  BY DEF Crash, hostVars
<1>2. fd' \in Fd
  BY DEF Crash, Service!Crash, Service!ClosedFd, Fd, ClosedFd
<1>3. CmdTypeOK'
  BY <1>1, <1>2 DEF CmdTypeOK, Operations, Bytes, PowerEvents, Stages, OperationStatus, NoEvents
<1>4. CallInv'
  BY <1>1, <1>3 DEF CallInv, CallShape, CountersInRange, RoundsAreAcks, Halves,
                    SingleEvent, NoEvents, PowerEvents
<1>5. HostTypeOK' /\ OffIsFinal'
  BY <1>1, <1>3 DEF SysInv, HostInv, HostTypeOK, OffIsFinal
<1>6. NothingOwed' /\ GoingDown' /\ Countdown' /\ ComesUp'
  BY <1>1 DEF NothingOwed, GoingDown, Countdown, ComesUp, ResetUnderway, LastAwakeTaken
<1>7. WireFollowsPlan' /\ isolated' \in Boards
  BY <1>1 DEF SysInv, WireFollowsPlan
<1> QED
  BY <1>4, <1>5, <1>6, <1>7 DEF SysInv, HostInv

LEMMA SysInvStep ==
  ASSUME SysInv, [SysNext]_sysVars
  PROVE  SysInv'
<1>1. CASE [HostNext]_plantVars
  <2>1. HostInv /\ HostInv'
    BY <1>1, HostInvStep DEF SysInv
  <2>2. [CmdNext]_cmdVars
    BY <1>1, HostStepIsCmdStep
  <2>3. WireFollowsPlan'
    BY <2>1, <2>2, WireStep DEF SysInv, HostInv, CallInv
  <2>4. UNCHANGED isolated
    BY <1>1 DEF HostNext, HostMoves, Write, Sleep, CallsAndReturns, Issued, Idle,
                 hostVars, plantVars
  <2> QED
    BY <2>1, <2>3, <2>4 DEF SysInv
<1> QED
  BY <1>1, PlantStep, SysInvOpens, SysInvCrash

LEMMA SysInvHolds == SysSpec => []SysInv
<1>1. SysInit => SysInv
  BY SysInvInit
<1>2. SysInv /\ [SysNext]_sysVars => SysInv'
  BY SysInvStep
<1> QED
  BY <1>1, <1>2, PTL DEF SysSpec

\* Wherever the process dies and whatever clients write: a successful soft
\* reset leaves the host running, within the window, unless it found a wake-up
\* remembered.
THEOREM SystemResetsLeaveHostUp == SysSpec => []ResetLeavesHostUp
<1>1. HostInv => ResetLeavesHostUp
  <2>1. SUFFICES ASSUME HostInv, stage = "return", op = "SoftReset", status = "Success",
                        took <= Window, ~Due, ~owed
                 PROVE  power = "on"
    BY DEF ResetLeavesHostUp
  <2>2. LastAwakeTaken
    BY <2>1 DEF HostInv, CallInv, CallShape, LastAwakeTaken
  <2> QED
    BY <2>1, <2>2 DEF HostInv, ComesUp, Due
<1>2. SysInv => HostInv
  BY DEF SysInv
<1> QED
  BY <1>1, <1>2, SysInvHolds, PTL

\* And a host that was shut down stays down until the next command, unless the
\* shutdown found a wake-up remembered.
THEOREM SystemOffsAreFinal == SysSpec => []OffIsFinal
<1>1. SysInv => OffIsFinal
  BY DEF SysInv, HostInv
<1> QED
  BY <1>1, SysInvHolds, PTL

-----------------------------------------------------------------------------
\* The counts behind a call's bounds survive the opening of the device, and a
\* crash, which leaves no call.
LEMMA CallCountsStep ==
  ASSUME SysInv, SysInv', DeliveriesAreAttempts, SleepIsBudgeted, [SysNext]_sysVars
  PROVE  DeliveriesAreAttempts' /\ SleepIsBudgeted'
<1>1. CASE [HostNext]_plantVars
  BY <1>1, HostStepIsCmdStep, DeliveriesStep, SleepStep DEF SysInv, HostInv
<1>2. CASE fd' \in InitSMBUSManager(fd) /\ UNCHANGED <<callVars, historyVars, hostVars>>
  <2>1. /\ UNCHANGED <<op, retries, event, round, attempt, stage, status>>
        /\ UNCHANGED <<acked, delivered, last, slept>>
    BY <1>2 DEF callVars, historyVars
  <2>2. DeliveriesAreAttempts'
    BY <2>1 DEF DeliveriesAreAttempts, Attempts, Rounds
  <2>3. SleepIsBudgeted'
    BY <2>1 DEF SleepIsBudgeted, SleptBefore, BlockingBound, PerRound
  <2> QED
    BY <2>2, <2>3
<1>3. CASE Crash
  <2>1. /\ op' = "Awake" /\ retries' = 0 /\ event' = "Awake" /\ stage' = "ready"
        /\ delivered' = NoEvents /\ slept' = 0
    BY <1>3 DEF Crash
  <2>2. DeliveriesAreAttempts'
    BY <2>1 DEF DeliveriesAreAttempts, Attempts, Rounds, NoEvents, PowerEvents
  <2>3. SleepIsBudgeted'
    BY <2>1 DEF SleepIsBudgeted, BlockingBound
  <2> QED
    BY <2>2, <2>3
<1> QED
  BY <1>1, <1>2, <1>3, PlantStep

\* In the whole, whatever clients write and wherever the process dies: a soft
\* reset wakes only what was told to shut down, and waits first; an error means
\* that every attempt failed; a success, that every round was acknowledged.
THEOREM SystemCallsAreHonest ==
  SysSpec => [](AwakeOnlyAfterSettle /\ ErrorMeansExhausted /\ SuccessMeansAcked)
<1>1. SysInv => CallInv
  BY DEF SysInv, HostInv
<1> QED
  BY <1>1, CallsAreHonest, SysInvHolds, PTL

\* In the whole, the MCU is hit, and the event loop blocked, within the bounds
\* of a call.
THEOREM SystemCallsAreBounded == SysSpec => [](BoundedDelivery /\ BoundedBlocking)
<1>1. SysInit => DeliveriesAreAttempts /\ SleepIsBudgeted
  BY DEF SysInit, HostInit, CmdInit, DeliveriesAreAttempts, SleepIsBudgeted, NoEvents,
         PowerEvents, Rounds, Attempts, BlockingBound
<1>2. SysInv /\ SysInv' /\ DeliveriesAreAttempts /\ SleepIsBudgeted /\ [SysNext]_sysVars
        => DeliveriesAreAttempts' /\ SleepIsBudgeted'
  BY CallCountsStep
<1>3. SysInv => CallInv
  BY DEF SysInv, HostInv
<1> QED
  BY <1>1, <1>2, <1>3, AttemptsBoundDeliveries, BudgetBoundsBlocking, SysInvHolds, PTL
     DEF SysSpec

\* In the whole, every step of a call brings its return closer.
THEOREM SystemCallsWindDown == SysSpec => CallsWindDown
<1>1. CallInv /\ CallInv' =>
        [/\ StepsLeft' \in Nat
         /\ CommandStep \/ Return => StepsLeft' < StepsLeft]_cmdVars
  BY StepsWindDown
<1>2. SysInv => CallInv
  BY DEF SysInv, HostInv
<1> QED
  BY <1>1, <1>2, SysInvHolds, PTL DEF CallsWindDown

-----------------------------------------------------------------------------
\* A write never switches the host off or on at once.
LEMMA WriteKeepsReport ==
  ASSUME SysInv, Write
  PROVE  Report(power') = Report(power)
<1>1. power \in PowerStates
  BY DEF SysInv, HostInv, HostTypeOK
<1>2. power' = power \/ Takes(event)
  BY DEF Write
<1>3. Takes(event) => (power' = "off" <=> power = "off")
  BY <1>1 DEF Takes, TakesAwake, TakesSoftOff, PowerCut, PowerStates
<1> QED
  BY <1>2, <1>3 DEF Report

\* What reaches the MCU came over a bus that is up.
LEMMA ReachedOverBus ==
  ASSUME CmdTypeOK, Write, NEW w \in WriteResult, Transfer(w), w.reached
  PROVE  BusUp
<1>1. event \in PowerEvents /\ delivered \in [PowerEvents -> Nat]
  BY DEF CmdTypeOK
<1>2. delivered' = [delivered EXCEPT ![event] = @ + 1]
  BY DEF Transfer
<1>3. delivered'[event] # delivered[event]
  BY <1>1, <1>2
<1> QED
  BY <1>3 DEF Write

\* The call's work is the abstract command's, or invisible to it.
LEMMA WorkIsCommandStep ==
  ASSUME SysInv, CommandWorks
  PROVE  Service!CommandStep \/ UNCHANGED Service!vars
<1> DEFINE job == IF stage = "ready" THEN "none" ELSE op
           result == IF stage = "return" THEN status ELSE "none"
<1>1. /\ op \in Operations /\ op # "none" /\ status # "none" /\ CallInv /\ WireFollowsPlan
  BY DEF SysInv, HostInv, CallInv, CmdTypeOK, Operations, OperationStatus
<1>2. UNCHANGED <<fd, op, Report(power)>>
  <2>1. UNCHANGED <<fd, op>>
    BY DEF CommandWorks, Write, Sleep, WriteSucceeds, WriteFails, Transfer, Backoff, Pause, Settle
  <2>2. CASE Write
    BY <2>1, <2>2, WriteKeepsReport
  <2>3. CASE Sleep
    BY <2>1, <2>3 DEF Sleep
  <2> QED
    BY <2>2, <2>3 DEF CommandWorks
<1>3. UNCHANGED <<Service!readVars, boot, Service!objectVars, Service!queueVars, crashes>>
  BY <1>2 DEF CommandWorks, serviceVars, Service!readVars, Service!objectVars, Service!queueVars
<1>4. BusUp => Service!Mcu!Reachable
  <2>1. power # "off" => Report(power)[1] = Service!Mcu!kSLP_S0
    BY DEF Report, kSLP_S0, Service!Mcu!kSLP_S0
  <2>2. ~isolated => Boards # {TRUE}
    <3>1. isolated \in Boards
      BY DEF SysInv
    <3>2. Boards = {TRUE} => isolated = TRUE
      BY <3>1
    <3> QED
      BY <3>2
  <2> QED
    BY <2>1, <2>2 DEF BusUp, Service!Mcu!Reachable
<1>5. CASE last' = event /\ stage = "write" /\ fd >= 0 /\ BusUp
           /\ \/ stage' \in {"pause", "backoff"}
              \/ op # "SoftReset" /\ stage' = "return" /\ status' = "Success"
  <2>1. event \in Promise!MayFollow(op, last)
    BY <1>1, <1>5, WriteMayFollow
  <2>2. op # "SoftReset" => event = Promise!FinalEvent(op)
    <3>1. op # "SoftReset" => event = SingleEvent[op]
      BY <1>1 DEF CallInv, CallShape
    <3> QED
      BY <1>1, <3>1, SingleMayFollow
  <2>3. /\ event \in Service!Command!MayFollow(op, last)
        /\ op # "SoftReset" => event = Service!Command!FinalEvent(op)
    BY <2>1, <2>2 DEF Promise!MayFollow, Service!Command!MayFollow, Promise!FinalEvent,
       Service!Command!FinalEvent, Promise!Plan, Service!Command!Plan, Promise!None,
       Service!Command!None
  <2>4. Service!Command!Deliver(event)
    BY <1>1, <1>2, <1>5, <2>3 DEF Service!Command!Deliver, Service!Command!None
  <2> QED
    BY <1>1, <1>3, <1>4, <1>5, <2>3, <2>4 DEF Service!CommandStep, Service!Command!None
<1>6. CASE stage # "ready" /\ stage' \notin {"ready", "return"} /\ stage # "return" /\ last' = last
  BY <1>2, <1>3, <1>6 DEF Service!vars, Service!readVars, Service!objectVars, Service!queueVars
<1>7. CASE /\ stage \notin {"ready", "return"} /\ stage' = "return" /\ last' = last
           /\ \/ status' = "ProtocolError"
              \/ status' = "Success" /\ last = Promise!FinalEvent(op)
  <2>1. last = Promise!FinalEvent(op) => last = Service!Command!FinalEvent(op)
    BY DEF Promise!FinalEvent, Service!Command!FinalEvent, Promise!Plan, Service!Command!Plan
  <2>2. \E r \in {"Success", "ProtocolError"} : Service!Command!Conclude(r)
    BY <1>1, <1>2, <1>7, <2>1 DEF Service!Command!Conclude, Service!Command!None
  <2> QED
    BY <1>1, <1>3, <1>7, <2>2 DEF Service!CommandStep, Service!Command!None
<1>8. CASE WriteSucceeds \/ WriteFails
  <2>0. Write
    BY <1>8 DEF CommandWorks, Write, Sleep, WriteSucceeds, WriteFails, Transfer, Backoff,
       Pause, Settle
  <2>1. PICK w \in WriteResult : Transfer(w)
    BY <1>8 DEF WriteSucceeds, WriteFails
  <2>2. /\ stage = "write"
        /\ \/ last' = event /\ fd >= 0 /\ BusUp
           \/ last' = last
    <3>1. w.reached => fd >= 0 /\ BusUp
      BY <1>1, <2>0, <2>1, ReachedOverBus DEF Transfer, SmbusWriteByte, CallInv, CmdTypeOK, Fd,
         ClosedFd, OpenFd
    <3> QED
      BY <2>1, <3>1 DEF Transfer
  <2>3. WriteSucceeds => last' = event /\ fd >= 0 /\ BusUp
    <3>1. ASSUME NEW v \in WriteResult, v.rc >= 0, Transfer(v)
          PROVE  last' = event /\ fd >= 0 /\ BusUp
      <4>1. v.rc = 0 /\ v.reached
        BY <3>1 DEF Transfer, SmbusWriteByte, WriteResult
      <4>2. fd >= 0 /\ BusUp
        BY <1>1, <2>0, <3>1, <4>1, ReachedOverBus DEF Transfer, SmbusWriteByte, CallInv, CmdTypeOK, Fd, ClosedFd, OpenFd
      <4> QED
        BY <3>1, <4>1, <4>2 DEF Transfer
    <3> QED
      BY <3>1 DEF WriteSucceeds
  <2>4. CASE WriteSucceeds
    BY <1>5, <2>2, <2>3, <2>4 DEF WriteSucceeds
  <2>5. CASE WriteFails
    <3>1. stage' = "backoff"
      BY <2>5 DEF WriteFails
    <3> QED
      BY <1>5, <1>6, <2>2, <3>1
  <2> QED
    BY <1>8, <2>4, <2>5
<1>9. CASE Backoff
  BY <1>6, <1>7, <1>9 DEF Backoff
<1>10. CASE Pause
  <2>1. /\ stage = "pause" /\ last' = last
        /\ \/ stage' \in {"write", "settle"}
           \/ event = "Awake" /\ stage' = "return" /\ status' = "Success"
    BY <1>10 DEF Pause
  <2>2. event = "Awake" => last = Promise!FinalEvent(op)
    BY <1>1, <2>1, SoftResetMayFollow DEF WireFollowsPlan, CallInv, CallShape
  <2> QED
    BY <1>6, <1>7, <2>1, <2>2
<1>11. CASE Settle
  BY <1>6, <1>11 DEF Settle
<1> QED
  BY <1>8, <1>9, <1>10, <1>11 DEF CommandWorks, Write, Sleep

\* The host's changes are changes of a free MCU.
LEMMA HostChangeIsMcuChange ==
  ASSUME SysInv, HostChanges
  PROVE  Service!McuChanges
<1>1. \/ power = "stopping" /\ power' = "off"
      \/ power = "off" /\ power' = "on"
  BY DEF HostChanges, HostMoves
<1>2. Report(power') # Report(power)
  BY <1>1 DEF Report, kSLP_S0, kSLP_S5, kCause_ChassisControl, kCause_PowerUpPushbutton
<1>3. Report(power') \in {Report(p) : p \in PowerStates}
  BY <1>1 DEF PowerStates
<1>4. /\ Len(reported) < MaxReports /\ reported' = Append(reported, Report(power'))
      /\ UNCHANGED <<fd, current_state, poll_timer, snapshot, op, stage, status, last>>
      /\ UNCHANGED <<boot, pgood, host, chassis, startup, inbox, serving, sent, settled,
                      latest, crashes>>
  BY <1>2 DEF HostChanges, HostMoves, cmdVars
<1>5. Service!Mcu!McuChanges
  BY <1>2, <1>3, <1>4 DEF Service!Mcu!McuChanges
<1> QED
  BY <1>4, <1>5 DEF Service!McuChanges, Service!commandVars, Service!objectVars,
                    Service!queueVars

LEMMA ServiceStep ==
  ASSUME SysInv, [SysNext]_sysVars
  PROVE  [Service!Next]_(Service!vars)
<1>1. CASE Boots
  BY <1>1 DEF Boots, Service!Next, Service!Startup
<1>2. CASE ServeStore \/ ClientWrites \/ PollSucceeds \/ PollGetsNothing
  BY <1>2 DEF ServeStore, ClientWrites, PollSucceeds, PollGetsNothing, Service!Next
<1>3. CASE ServeCommand \/ FinishCommand \/ Crash
  BY <1>3 DEF ServeCommand, FinishCommand, Crash, Service!Next
<1>4. CASE CommandWorks
  BY <1>4, WorkIsCommandStep DEF Service!Next
<1>5. CASE HostChanges
  BY <1>5, HostChangeIsMcuChange DEF Service!Next
<1>6. CASE TimePasses
  BY <1>6 DEF TimePasses, Idle, cmdVars, serviceVars, Service!vars
<1>7. CASE UNCHANGED sysVars
  BY <1>7 DEF sysVars, plantVars, hostVars, serviceVars, Service!vars
<1> QED
  BY <1>1, <1>2, <1>3, <1>4, <1>5, <1>6, <1>7 DEF SysNext, Progress

LEMMA ServiceInit ==
  ASSUME SysInit
  PROVE  Service!Init
<1>1. Report(power) \in {Report(p) : p \in PowerStates}
  BY DEF SysInit, HostInit
<1>2. Service!Mcu!StateInit
  BY <1>1 DEF SysInit, Service!Mcu!StateInit, Service!Mcu!InitSMBUSManager, Service!Mcu!Fd,
     Service!Mcu!ClosedFd, ClosedFd
<1>3. Service!Command!Init
  BY DEF SysInit, HostInit, CmdInit, Service!Command!Init, Service!Command!None
<1> QED
  BY <1>2, <1>3 DEF SysInit, Service!Init, Service!ClosedFd, ClosedFd

\* Clients, event loop, calls with their retries and sleeps, MCU, host and
\* crashes together do nothing the service of PowerControlService would not
\* do, on boards of either kind.
THEOREM SystemImplementsService == SysSpec => ImplementsService
<1>1. SysInit => Service!Init
  BY ServiceInit
<1>2. SysInv /\ [SysNext]_sysVars => [Service!Next]_(Service!vars)
  BY ServiceStep
<1> QED
  BY <1>1, <1>2, SysInvHolds, PTL DEF SysSpec, ImplementsService, Service!Spec

-----------------------------------------------------------------------------
(* What is proved of the service, in the whole.                            *)

\* The service again, with its theorems.
ServiceFacts ==
  INSTANCE PowerControlService_proofs WITH
    registers <- Report(power),
    job <- IF stage = "ready" THEN "none" ELSE op,
    result <- IF stage = "return" THEN status ELSE "none",
    Reports <- {Report(p) : p \in PowerStates},
    Capabilities <- {}, BlockCounts <- {2}, StackBytes <- {},
    IsolatedBelowS0 <- (Boards = {TRUE})

\* The constants of the whole are what the service assumes of its own.
LEMMA ServiceAssumed == ServiceFacts!ServiceAssumption
<1>1. \A p : Report(p) \in Bytes \X Bytes
  BY DEF Report, Bytes, kSLP_S5, kCause_ChassisControl, kSLP_S0, kCause_PowerUpPushbutton
<1>2. Service!Requests = ServiceFacts!Requests
  BY DEF Service!Requests, ServiceFacts!Requests,
         Service!HostCommand, ServiceFacts!HostCommand,
         Service!ChassisCommand, ServiceFacts!ChassisCommand,
         Service!HostState, ServiceFacts!HostState,
         Service!RestartCause, ServiceFacts!RestartCause,
         Service!ChassisPowerState, ServiceFacts!ChassisPowerState
<1> QED
  BY <1>1, <1>2, SystemAssumption
     DEF SystemAssumption, PowerStates, Bytes, ServiceFacts!Bytes, ServiceFacts!ServiceAssumption

\* Both instances are PowerControlService under one substitution: written out,
\* their formulas are the same.  The definitions to write out, by subject,
\* the tables first:
LEMMA SameService ==
  /\ Service!Spec => ServiceFacts!Spec
  /\ []ServiceFacts!ServedInOrder => []Service!ServedInOrder
  /\ []ServiceFacts!QuietMeansLatest => []Service!QuietMeansLatest
  /\ []ServiceFacts!StartupReadingsStay => []Service!StartupReadingsStay
  /\ []ServiceFacts!ServiceTypeOK => []Service!ServiceTypeOK
  /\ ServiceFacts!ImplementsStore => Service!ImplementsStore
  /\ ServiceFacts!ImplementsRegister => Service!ImplementsRegister
<1> USE DEF Service!ChassisPowerState, Service!GoodCauses, Service!HostState,
      Service!kCause_AcRestoreAlways, Service!kCause_AcRestorePrevious,
      Service!kCause_BMCVirtualPowerButtonPress, Service!kCause_BMCVirtualResetPress,
      Service!kCause_ChassisControl, Service!kCause_IgnitionHardOffTimer,
      Service!kCause_IgnitionSoftOffTimer, Service!kCause_IgnitionStartupTimer,
      Service!kCause_PowerUpPushbutton, Service!kCause_PowerUpRtc,
      Service!kCause_ResetPushbutton, Service!kCause_SoftReset,
      Service!kCause_WatchdogExpiration, Service!kSLP_LP, Service!kSLP_S0,
      Service!kSLP_S3, Service!kSLP_S4, Service!kSLP_S5, Service!kSLP_Unknown,
      Service!Mcu!Bytes, Service!Mcu!kCause_Unknown, Service!Mcu!kSLP_S0,
      Service!Mcu!kSLP_Unknown, Service!McuPowerState, Service!nativeToChassisState,
      Service!nativeToHostState, Service!OperationStatus, Service!PowerEvents,
      Service!RestartCause, Service!toChassisState, Service!toHostState,
      Service!toPowerStatus, Service!toRestartCause, ServiceFacts!ChassisPowerState,
      ServiceFacts!GoodCauses, ServiceFacts!HostState,
      ServiceFacts!kCause_AcRestoreAlways, ServiceFacts!kCause_AcRestorePrevious,
      ServiceFacts!kCause_BMCVirtualPowerButtonPress,
      ServiceFacts!kCause_BMCVirtualResetPress, ServiceFacts!kCause_ChassisControl,
      ServiceFacts!kCause_IgnitionHardOffTimer,
      ServiceFacts!kCause_IgnitionSoftOffTimer,
      ServiceFacts!kCause_IgnitionStartupTimer, ServiceFacts!kCause_PowerUpPushbutton,
      ServiceFacts!kCause_PowerUpRtc, ServiceFacts!kCause_ResetPushbutton,
      ServiceFacts!kCause_SoftReset, ServiceFacts!kCause_WatchdogExpiration,
      ServiceFacts!kSLP_LP, ServiceFacts!kSLP_S0, ServiceFacts!kSLP_S3,
      ServiceFacts!kSLP_S4, ServiceFacts!kSLP_S5, ServiceFacts!kSLP_Unknown,
      ServiceFacts!Mcu!Bytes, ServiceFacts!Mcu!kCause_Unknown, ServiceFacts!Mcu!kSLP_S0,
      ServiceFacts!Mcu!kSLP_Unknown, ServiceFacts!McuPowerState,
      ServiceFacts!nativeToChassisState, ServiceFacts!nativeToHostState,
      ServiceFacts!OperationStatus, ServiceFacts!PowerEvents, ServiceFacts!RestartCause,
      ServiceFacts!toChassisState, ServiceFacts!toHostState, ServiceFacts!toPowerStatus,
      ServiceFacts!toRestartCause
\* ... the i2c-dev endpoint
<1> USE DEF Service!ClosedFd, Service!Fd, Service!InitSMBUSManager,
      Service!Mcu!ClosedFd, Service!Mcu!Fd, Service!Mcu!I2C_SMBUS_BLOCK_MAX,
      Service!Mcu!InitSMBUSManager, Service!Mcu!OpenFd,
      Service!Mcu!SmbusSubaddressReadByteBlock, Service!OpenFd, ServiceFacts!ClosedFd,
      ServiceFacts!Fd, ServiceFacts!InitSMBUSManager, ServiceFacts!Mcu!ClosedFd,
      ServiceFacts!Mcu!Fd, ServiceFacts!Mcu!I2C_SMBUS_BLOCK_MAX,
      ServiceFacts!Mcu!InitSMBUSManager, ServiceFacts!Mcu!OpenFd,
      ServiceFacts!Mcu!SmbusSubaddressReadByteBlock, ServiceFacts!OpenFd
\* ... the MCU, its cache and the poll
<1> USE DEF Service!Mcu!CacheSystemState, Service!Mcu!GetStateAndTransitionCause,
      Service!Mcu!InitSequenceMcuContext, Service!Mcu!kCapability_Unknown,
      Service!Mcu!McuChanges, Service!Mcu!PollFails, Service!Mcu!PollSucceeds,
      Service!Mcu!PollTimerError, Service!Mcu!Reachable, Service!Mcu!StartPolling,
      Service!Mcu!STATE_AND_TCAUSE_SIZE, Service!Mcu!StateInit, Service!Mcu!StateTypeOK,
      ServiceFacts!Mcu!CacheSystemState, ServiceFacts!Mcu!GetStateAndTransitionCause,
      ServiceFacts!Mcu!InitSequenceMcuContext, ServiceFacts!Mcu!kCapability_Unknown,
      ServiceFacts!Mcu!McuChanges, ServiceFacts!Mcu!PollFails,
      ServiceFacts!Mcu!PollSucceeds, ServiceFacts!Mcu!PollTimerError,
      ServiceFacts!Mcu!Reachable, ServiceFacts!Mcu!StartPolling,
      ServiceFacts!Mcu!STATE_AND_TCAUSE_SIZE, ServiceFacts!Mcu!StateInit,
      ServiceFacts!Mcu!StateTypeOK
\* ... the command
<1> USE DEF Service!Command!Accept, Service!Command!Conclude, Service!Command!Deliver,
      Service!Command!FinalEvent, Service!Command!HandOver, Service!Command!Init,
      Service!Command!MayFollow, Service!Command!None, Service!Command!Operations,
      Service!Command!Plan, ServiceFacts!Command!Accept, ServiceFacts!Command!Conclude,
      ServiceFacts!Command!Deliver, ServiceFacts!Command!FinalEvent,
      ServiceFacts!Command!HandOver, ServiceFacts!Command!Init,
      ServiceFacts!Command!MayFollow, ServiceFacts!Command!None,
      ServiceFacts!Command!Operations, ServiceFacts!Command!Plan
\* ... the objects and their requests
<1> USE DEF Service!ChassisCommand, Service!ChassisDefaults, Service!ChassisProperties,
      Service!CommandOf, Service!HostCommand, Service!HostDefaults,
      Service!HostProperties, Service!InitialChassis, Service!InitialHost,
      Service!IsCommand, Service!NoRequest, Service!NothingWritten, Service!NotRead, Service!Store,
      ServiceFacts!ChassisCommand, ServiceFacts!ChassisDefaults,
      ServiceFacts!ChassisProperties, ServiceFacts!CommandOf, ServiceFacts!HostCommand,
      ServiceFacts!HostDefaults, ServiceFacts!HostProperties,
      ServiceFacts!InitialChassis, ServiceFacts!InitialHost, ServiceFacts!IsCommand,
      ServiceFacts!NoRequest, ServiceFacts!NothingWritten,
      ServiceFacts!NotRead, ServiceFacts!Store
\* ... main's steps and the event loop's
<1> USE DEF Service!ClientWrites, Service!CommandStep, Service!commandVars,
      Service!ConstructChassis, Service!ConstructHost, Service!ConstructPower,
      Service!Crash, Service!FinishCommand, Service!Init, Service!LoopIdle,
      Service!McuChanges, Service!Next, Service!objectVars, Service!OnBus,
      Service!OpenDevice, Service!PollGetsNothing, Service!PollSucceeds,
      Service!queueVars, Service!readVars, Service!Run, Service!ServeCommand,
      Service!ServeStore, Service!Spec, Service!Startup, Service!vars,
      ServiceFacts!ClientWrites, ServiceFacts!CommandStep, ServiceFacts!commandVars,
      ServiceFacts!ConstructChassis, ServiceFacts!ConstructHost,
      ServiceFacts!ConstructPower, ServiceFacts!Crash, ServiceFacts!FinishCommand,
      ServiceFacts!Init, ServiceFacts!LoopIdle, ServiceFacts!McuChanges,
      ServiceFacts!Next, ServiceFacts!objectVars, ServiceFacts!OnBus,
      ServiceFacts!OpenDevice, ServiceFacts!PollGetsNothing, ServiceFacts!PollSucceeds,
      ServiceFacts!queueVars, ServiceFacts!readVars, ServiceFacts!Run,
      ServiceFacts!ServeCommand, ServiceFacts!ServeStore, ServiceFacts!Spec,
      ServiceFacts!Startup, ServiceFacts!vars
\* ... what is promised of them
<1> USE DEF Service!ImplementsRegister, Service!ImplementsStore,
      Service!Mcu!ImplementsRegister, Service!Mcu!Register!Change,
      Service!Mcu!Register!Forget, Service!Mcu!Register!Refresh,
      Service!Mcu!Register!RegisterInit, Service!Mcu!Register!RegisterNext,
      Service!Mcu!Register!RegisterSpec, Service!Mcu!Register!registerVars,
      Service!Objects!Fill, Service!Objects!Open, Service!Objects!Restart,
      Service!Objects!Send, Service!Objects!StoreInit, Service!Objects!StoreNext,
      Service!Objects!StoreSpec, Service!Objects!storeVars, Service!Objects!TakeEffect,
      Service!Pending, Service!QuietMeansLatest, Service!ServedInOrder,
      Service!ServiceTypeOK, Service!StartupReadingsStay, Service!Unwritten,
      Service!ChassisReading, Service!HostReading, Service!StoredIn,
      Service!StoredProperties, ServiceFacts!ChassisReading, ServiceFacts!HostReading,
      ServiceFacts!StoredIn, ServiceFacts!StoredProperties,
      ServiceFacts!ImplementsRegister, ServiceFacts!ImplementsStore,
      ServiceFacts!Mcu!ImplementsRegister, ServiceFacts!Mcu!Register!Change,
      ServiceFacts!Mcu!Register!Forget, ServiceFacts!Mcu!Register!Refresh,
      ServiceFacts!Mcu!Register!RegisterInit, ServiceFacts!Mcu!Register!RegisterNext,
      ServiceFacts!Mcu!Register!RegisterSpec, ServiceFacts!Mcu!Register!registerVars,
      ServiceFacts!Objects!Fill, ServiceFacts!Objects!Open,
      ServiceFacts!Objects!Restart, ServiceFacts!Objects!Send,
      ServiceFacts!Objects!StoreInit, ServiceFacts!Objects!StoreNext,
      ServiceFacts!Objects!StoreSpec, ServiceFacts!Objects!storeVars,
      ServiceFacts!Objects!TakeEffect, ServiceFacts!Pending,
      ServiceFacts!QuietMeansLatest, ServiceFacts!ServedInOrder,
      ServiceFacts!ServiceTypeOK, ServiceFacts!StartupReadingsStay,
      ServiceFacts!Unwritten
<1> QED
  OBVIOUS

\* However many writes there are and wherever the process dies, a call with its
\* retries and sleeps lets every write be served exactly once, in its turn.
THEOREM SystemServesInOrder == SysSpec => []Service!ServedInOrder
<1>1. ServiceFacts!Spec => []ServiceFacts!ServedInOrder
  BY ServiceAssumed, ServiceFacts!WritesAreServedInOrder
<1> QED
  BY <1>1, SystemImplementsService, SameService, PTL DEF ImplementsService

\* Once every write is answered, each property stores the last one it got,
\* whatever became of the calls in between.
THEOREM SystemQuietMeansLatest == SysSpec => []Service!QuietMeansLatest
<1>1. ServiceFacts!Spec => []ServiceFacts!QuietMeansLatest
  BY ServiceAssumed, ServiceFacts!QuietPropertiesAreLatest
<1> QED
  BY <1>1, SystemImplementsService, SameService, PTL DEF ImplementsService

\* A property nobody wrote stays what its object's one reading of this host said
\* at startup, through the calls, the polls and the changes of the host.
THEOREM SystemKeepsStartupReadings == SysSpec => []Service!StartupReadingsStay
<1>1. {2} = {2}
  OBVIOUS
<1>2. ServiceFacts!Spec => []ServiceFacts!StartupReadingsStay
  BY <1>1, ServiceAssumed, ServiceFacts!StartupReadingsAreKept
<1> QED
  BY <1>2, SystemImplementsService, SameService, PTL DEF ImplementsService

\* To clients of the four properties that are read back from where they are
\* stored, the whole is one store behind one queue.
THEOREM SystemImplementsStore == SysSpec => Service!ImplementsStore
<1>1. ServiceFacts!Spec => ServiceFacts!ImplementsStore
  BY ServiceAssumed, ServiceFacts!ServiceImplementsStore
<1> QED
  BY <1>1, SystemImplementsService, SameService, PTL DEF ImplementsService

\* To readers of the two states it is a register behind the host: they see
\* moments of the host's history, in their order, through calls that hold the
\* loop up and restarts.
THEOREM SystemImplementsRegister == SysSpec => Service!ImplementsRegister
<1>1. {2} = {2}
  OBVIOUS
<1>2. ServiceFacts!Spec => ServiceFacts!ImplementsRegister
  BY <1>1, ServiceAssumed, ServiceFacts!ServiceImplementsRegister
<1> QED
  BY <1>2, SystemImplementsService, SameService, PTL DEF ImplementsService

\* And the objects hold only values D-Bus has a name for.
THEOREM SystemTypeCorrect == SysSpec => []Service!ServiceTypeOK
<1>1. ServiceFacts!Spec => []ServiceFacts!ServiceTypeOK
  BY ServiceAssumed, ServiceFacts!ServiceTypeCorrect
<1> QED
  BY <1>1, SystemImplementsService, SameService, PTL DEF ImplementsService

-----------------------------------------------------------------------------
(* What reaches the MCU belongs to the write being served.                 *)

\* A call that is under way is the command of the write being served, and is at
\* an event of that write's transition.
LEMMA CallServesWrite ==
  ASSUME SysInv, ServiceFacts!QueueInv, stage # "ready"
  PROVE  /\ serving # Service!NoRequest /\ Service!IsCommand(serving)
         /\ event \in EventsFor(serving)
<1>1. /\ op \in Operations /\ op # "none"
      /\ op = "SoftReset" => event \in {"SoftOff", "Awake"}
      /\ op # "SoftReset" => event = SingleEvent[op]
  BY DEF SysInv, HostInv, CallInv, CallShape, CmdTypeOK, Operations
<1>2. /\ serving # ServiceFacts!NoRequest /\ ServiceFacts!IsCommand(serving)
      /\ op = ServiceFacts!CommandOf(serving) /\ serving \in ServiceFacts!Writes
  BY <1>1 DEF ServiceFacts!QueueInv, ServiceFacts!CommandIsServed, ServiceFacts!QueueTypes
<1>3. serving # Service!NoRequest /\ Service!IsCommand(serving)
  BY <1>2 DEF Service!NoRequest, ServiceFacts!NoRequest, Service!IsCommand,
              ServiceFacts!IsCommand
<1>4. SUFFICES event \in EventsFor(serving)
  BY <1>3
<1>5. /\ serving.property = "requestedHostTransition" =>
              serving.value \in DOMAIN ServiceFacts!HostCommand
      /\ serving.property = "requestedPowerTransition" =>
              serving.value \in DOMAIN ServiceFacts!ChassisCommand
  BY <1>2, ServiceAssumed, ServiceFacts!WriteShape
<1>6. CASE serving.property = "requestedHostTransition"
  <2>1. serving.value \in {"On", "Off", "Reboot", "GracefulWarmReboot", "ForceWarmReboot"}
    BY <1>5, <1>6 DEF ServiceFacts!HostCommand
  <2>2. op = ServiceFacts!HostCommand[serving.value]
    BY <1>2, <1>6 DEF ServiceFacts!CommandOf
  <2>3. CASE serving.value = "On"
    BY <1>1, <2>2, <2>3 DEF ServiceFacts!HostCommand, SingleEvent, EventsFor
  <2>4. CASE serving.value = "Off"
    BY <1>1, <1>6, <2>2, <2>4 DEF ServiceFacts!HostCommand, SingleEvent, EventsFor
  <2>5. CASE serving.value \in {"Reboot", "GracefulWarmReboot"}
    <3>1. op = "SoftReset"
      BY <2>2, <2>5 DEF ServiceFacts!HostCommand
    <3>2. EventsFor(serving) = {"SoftOff", "Awake"}
      BY <2>5 DEF EventsFor
    <3> QED
      BY <1>1, <3>1, <3>2
  <2>6. CASE serving.value = "ForceWarmReboot"
    BY <1>1, <2>2, <2>6 DEF ServiceFacts!HostCommand, SingleEvent, EventsFor
  <2> QED
    BY <2>1, <2>3, <2>4, <2>5, <2>6
<1>7. CASE serving.property = "requestedPowerTransition"
  <2>1. serving.value \in {"On", "Off", "PowerCycle"}
    BY <1>5, <1>7 DEF ServiceFacts!ChassisCommand
  <2>2. op = ServiceFacts!ChassisCommand[serving.value]
    BY <1>2, <1>7 DEF ServiceFacts!CommandOf
  <2>3. CASE serving.value = "On"
    BY <1>1, <2>2, <2>3 DEF ServiceFacts!ChassisCommand, SingleEvent, EventsFor
  <2>4. CASE serving.value = "Off"
    BY <1>1, <1>7, <2>2, <2>4 DEF ServiceFacts!ChassisCommand, SingleEvent, EventsFor
  <2>5. CASE serving.value = "PowerCycle"
    BY <1>1, <2>2, <2>5 DEF ServiceFacts!ChassisCommand, SingleEvent, EventsFor
  <2> QED
    BY <2>1, <2>3, <2>4, <2>5
<1> QED
  BY <1>2, <1>6, <1>7 DEF ServiceFacts!IsCommand

\* Only a call's write makes the count of an event grow, that of its own event.
LEMMA OnlyWritesDeliver ==
  ASSUME SysInv, [SysNext]_sysVars, NEW e \in PowerEvents, delivered'[e] > delivered[e]
  PROVE  stage = "write" /\ e = event /\ serving' = serving
<1>1. delivered \in [PowerEvents -> Nat]
  BY DEF SysInv, HostInv, CallInv, CmdTypeOK
<1>2. delivered' # delivered /\ delivered' # NoEvents
  BY <1>1 DEF NoEvents
<1>3. CASE CommandWorks
  <2>1. ~Sleep
    BY <1>2 DEF Sleep, Backoff, Pause, Settle
  <2>2. PICK w \in WriteResult : Transfer(w)
    BY <1>3, <2>1 DEF CommandWorks, Write, WriteSucceeds, WriteFails
  <2>3. stage = "write" /\ delivered' = [delivered EXCEPT ![event] = @ + 1]
    BY <1>2, <2>2 DEF Transfer
  <2>4. e = event
    BY <1>1, <2>3
  <2>5. serving' = serving
    BY <1>3 DEF CommandWorks, serviceVars
  <2> QED
    BY <2>3, <2>4, <2>5
<1>4. ~(\/ Boots \/ ServeStore \/ ClientWrites \/ PollSucceeds \/ PollGetsNothing
        \/ FinishCommand \/ HostChanges \/ TimePasses \/ UNCHANGED sysVars)
  BY <1>2 DEF Boots, ServeStore, ClientWrites, PollSucceeds, PollGetsNothing,
       FinishCommand, Return, HostChanges, HostMoves, TimePasses, Idle, cmdVars,
       callVars, historyVars, plantVars, sysVars
<1>5. ~(ServeCommand \/ Crash)
  BY <1>2 DEF ServeCommand, Crash, Issue, Call, IssueAwakeCmd, IssueHardReset,
       IssueSoftShutdown, IssueHardShutdown, IssueSoftReset
<1> QED
  BY <1>3, <1>4, <1>5 DEF SysNext, Progress

\* Whenever the MCU sees an event, for the first time or once more, the event is
\* of the transition of the write being served: through every attempt and round,
\* failing bus and crash, for every set of requests.
THEOREM SystemWireIsServed == SysSpec => WireServesRequest
<1>1. ASSUME SysInv, ServiceFacts!QueueInv, [SysNext]_sysVars,
             NEW e \in PowerEvents, delivered'[e] > delivered[e]
      PROVE  /\ serving # Service!NoRequest /\ serving' = serving
             /\ Service!IsCommand(serving) /\ e \in EventsFor(serving)
  <2>1. stage = "write" /\ e = event /\ serving' = serving
    BY <1>1, OnlyWritesDeliver
  <2> QED
    BY <1>1, <2>1, CallServesWrite
<1>2. SysInv /\ ServiceFacts!QueueInv /\ [SysNext]_sysVars =>
        [\A e \in PowerEvents : delivered'[e] > delivered[e] =>
           /\ serving # Service!NoRequest /\ serving' = serving
           /\ Service!IsCommand(serving) /\ e \in EventsFor(serving)]_sysVars
  BY <1>1
<1>3. ServiceFacts!Spec => []ServiceFacts!QueueInv
  BY ServiceAssumed, ServiceFacts!QueueInvHolds
<1> QED
  BY <1>2, <1>3, SysInvHolds, SystemImplementsService, SameService, PTL
     DEF SysSpec, ImplementsService, WireServesRequest

-----------------------------------------------------------------------------
(* What a successful command asked for is what an up-to-date cache shows.  *)

\* What the answer to a command that starts the host leaves behind, until the
\* next one.  (The shutdowns have OffIsFinal.)
StartStands ==
  /\ (stage \in {"return", "ready"} /\ op = "HardReset" /\ status = "Success")
        => power = "on" \/ wake
  /\ (stage \in {"return", "ready"} /\ op = "SoftReset" /\ status = "Success"
       /\ took <= Window /\ ~owed)
        => power = "on" \/ (power = "off" /\ wake)

LEMMA StartStandsStep ==
  ASSUME SysInv, SysInv', StartStands, [SysNext]_sysVars
  PROVE  StartStands'
<1>1. HostInv /\ CallInv /\ CallInv' /\ ComesUp' /\ power \in PowerStates
  BY DEF SysInv, HostInv, HostTypeOK
<1>2. CASE stage' = "return" /\ stage # "return"
  <2>1. (op' = "SoftReset" /\ status' = "Success") => LastAwakeTaken'
    BY <1>1, <1>2 DEF LastAwakeTaken, CallInv, CallShape
  <2>2. (op' = "HardReset" /\ status' = "Success") => wake'
    <3>1. SUFFICES ASSUME op' = "HardReset", status' = "Success"
                   PROVE  wake'
      OBVIOUS
    <3>2. [HostNext]_plantVars
      BY <1>2, PlantStep DEF Crash, callVars
    <3>3. ~Pause
      <4>1. Pause => op = "SoftReset" /\ op' = op
        BY <1>1 DEF Pause, CallInv, CallShape
      <4> QED
        BY <3>1, <4>1
    <3>4. ~HostMoves /\ ~Idle /\ ~CallsAndReturns /\ ~UNCHANGED plantVars
      BY <1>2, <3>1 DEF HostMoves, cmdVars, CallsAndReturns, Issue, Call, IssueAwakeCmd,
         IssueHardReset, IssueSoftShutdown, IssueHardShutdown, IssueSoftReset, Return,
         Idle, plantVars
    <3>5. ~Sleep /\ ~WriteFails
      BY <1>2, <3>1, <3>3 DEF Sleep, Backoff, Settle, WriteFails
    <3>6. Write /\ WriteSucceeds
      BY <3>2, <3>4, <3>5 DEF HostNext, Write
    <3>7. event = "HardReset"
      <4>1. op = "HardReset"
        BY <3>1, <3>6 DEF WriteSucceeds, Transfer
      <4> QED
        BY <1>1, <4>1 DEF CallInv, CallShape, SingleEvent
    <3> QED
      BY <1>1, <3>6, <3>7, AckedIsTaken DEF Takes, PowerCut
  <2> QED
    BY <1>1, <1>2, <2>1, <2>2 DEF StartStands, ComesUp
<1>3. CASE /\ UNCHANGED <<op, status, retries, owed>>
           /\ stage \in {"return", "ready"}
           /\ \/ UNCHANGED <<power, wake, took>>
              \/ HostMoves
  <2>1. \/ UNCHANGED <<power, wake, took>>
        \/ took' = took /\ power = "stopping" /\ power' = "off" /\ wake' = wake
        \/ took' = took /\ power = "off" /\ power' = "on"
    BY <1>3 DEF HostMoves
  <2>2. Window' = Window
    BY <1>3 DEF Window
  <2> QED
    BY <1>3, <2>1, <2>2 DEF StartStands
<1>4. CASE \/ stage' \notin {"return", "ready"}
           \/ status' # "Success"
  BY <1>4 DEF StartStands
<1>5. \/ stage' = "return" /\ stage # "return"
      \/ /\ UNCHANGED <<op, status, retries, owed>>
         /\ stage \in {"return", "ready"}
         /\ UNCHANGED <<power, wake, took>> \/ HostMoves
      \/ stage' \notin {"return", "ready"}
      \/ status' # "Success"
  <2>1. CASE [HostNext]_plantVars
    BY <2>1 DEF HostNext, HostMoves, cmdVars, Write, WriteSucceeds, WriteFails, Transfer,
        Sleep, Backoff, Pause, Settle, CallsAndReturns, hostVars, Issue, Call,
        IssueAwakeCmd, IssueHardReset, IssueSoftShutdown, IssueHardShutdown,
        IssueSoftReset, Return, Idle, plantVars
  <2>2. CASE UNCHANGED <<callVars, historyVars, hostVars>>
    BY <1>1, <2>2 DEF callVars, hostVars, CallInv, CmdTypeOK, Stages
  <2>3. CASE Crash
    BY <2>3 DEF Crash
  <2> QED
    BY <2>1, <2>2, <2>3, PlantStep
<1> QED
  BY <1>2, <1>3, <1>4, <1>5

\* A host that is done going down or coming up is where the command sent it.
LEMMA OutcomeStands ==
  ASSUME SysInv, StartStands, NEW o \in DOMAIN Outcome,
         stage \in {"return", "ready"}, op = o, status = "Success", ~owed,
         o = "SoftReset" => took <= Window, power # "stopping", ~Due
  PROVE  power = IF Outcome[o] = "Off" THEN "off" ELSE "on"
<1>1. power \in {"on", "off"} /\ OffIsFinal
  BY DEF SysInv, HostInv, HostTypeOK, PowerStates
<1>2. o \in {"SoftShutdown", "HardShutdown", "HardReset", "SoftReset"}
  BY DEF Outcome
<1>3. CASE o \in {"SoftShutdown", "HardShutdown"}
  BY <1>1, <1>3 DEF OffIsFinal, Outcome
<1>4. CASE o \in {"HardReset", "SoftReset"}
  BY <1>1, <1>4 DEF StartStands, Due, Outcome
<1> QED
  BY <1>2, <1>3, <1>4

\* The pair the MCU reported last is read as the state of the host.
LEMMA LatestPairIsRead ==
  ASSUME ServiceFacts!Mcu!CacheIsSnapshot, ServiceFacts!RegistersAreLatest,
         snapshot = Len(reported)
  PROVE  Service!CurrentHostState = IF power = "off" THEN "Off" ELSE "Running"
<1>1. snapshot # 0 /\ reported[snapshot] = Report(power)
  BY DEF ServiceFacts!RegistersAreLatest
<1>2. current_state.power_state = Report(power)[1]
  BY <1>1 DEF ServiceFacts!Mcu!CacheIsSnapshot
<1>3. current_state.power_state = IF power = "off" THEN kSLP_S5 ELSE kSLP_S0
  BY <1>2 DEF Report
<1>4. Service!toHostState(kSLP_S5) = "Off" /\ Service!toHostState(kSLP_S0) = "Running"
  BY DEF Service!toHostState, Service!nativeToHostState,
         Service!McuPowerState, Service!kSLP_S0, Service!kSLP_S3, Service!kSLP_S4,
         Service!kSLP_S5, Service!kSLP_LP, Service!kSLP_Unknown, kSLP_S0, kSLP_S5
<1> QED
  BY <1>3, <1>4 DEF Service!CurrentHostState

\* From the answer to a successful command to the next command or restart, an
\* up-to-date cache shows what the command asked for once the host is there,
\* unless the command found a wake-up remembered: for all shutdown times up to
\* the window, boards, retries, writes and crashes.
THEOREM OutcomesAreRead == SysSpec => []OutcomeIsRead
<1>1. SysInit => StartStands
  BY DEF SysInit, HostInit, CmdInit, StartStands
<1>2. SysInv /\ SysInv' /\ StartStands /\ [SysNext]_sysVars => StartStands'
  BY StartStandsStep
<1>3. SysSpec => [](ServiceFacts!Mcu!CacheIsSnapshot /\ ServiceFacts!RegistersAreLatest)
  <2>1. {2} = {2}
    OBVIOUS
  <2>2. ServiceFacts!Spec =>
          [](ServiceFacts!Mcu!CacheIsSnapshot /\ ServiceFacts!RegistersAreLatest)
    BY <2>1, ServiceAssumed, ServiceFacts!ServiceCachesSnapshots
  <2> QED
    BY <2>2, SystemImplementsService, SameService, PTL DEF ImplementsService
<1>4. ASSUME SysInv, StartStands, ServiceFacts!Mcu!CacheIsSnapshot,
             ServiceFacts!RegistersAreLatest
      PROVE  OutcomeIsRead
  <2>1. SUFFICES ASSUME NEW o \in DOMAIN Outcome,
                        stage \in {"return", "ready"}, op = o, status = "Success", ~owed,
                        o = "SoftReset" => took <= Window, power # "stopping", ~Due,
                        snapshot = Len(reported)
                 PROVE  Service!CurrentHostState = Outcome[o]
    BY DEF OutcomeIsRead
  <2>2. power = IF Outcome[o] = "Off" THEN "off" ELSE "on"
    BY <1>4, <2>1, OutcomeStands
  <2>3. Service!CurrentHostState = IF power = "off" THEN "Off" ELSE "Running"
    BY <1>4, <2>1, LatestPairIsRead
  <2>4. Outcome[o] \in {"Off", "Running"}
    BY DEF Outcome
  <2> QED
    BY <2>2, <2>3, <2>4
<1>5. SysInv /\ StartStands /\ ServiceFacts!Mcu!CacheIsSnapshot
        /\ ServiceFacts!RegistersAreLatest => OutcomeIsRead
  BY <1>4
<1> QED
  BY <1>1, <1>2, <1>3, <1>5, SysInvHolds, PTL DEF SysSpec
=============================================================================
