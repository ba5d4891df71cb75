------------------------------ MODULE HostPower ------------------------------
(***************************************************************************)
(* The power commands together with what they are for: the host behind the *)
(* sequence MCU.  The host needs some time to shut down, of which the code *)
(* knows nothing but its own sleeps, and a board may cut the bus to the    *)
(* MCU off while the host is off.                                          *)
(*                                                                         *)
(* MCU and host are external.  How they take an event is what the docs say *)
(* of the transitions: Awake wakes a host that is off, SoftOff starts a    *)
(* graceful shutdown, HardOff cuts the power, HardReset goes to S5 and     *)
(* back to S0.  Two things they do not say are left open: whether an Awake  *)
(* that meets a host on its way down is remembered, and whether an off     *)
(* that comes after it makes the MCU forget it again.                      *)
(***************************************************************************)
EXTENDS SequenceMcuCommands

CONSTANTS
  ShutdownTimes,   \* times a graceful shutdown may take, in units of 500ms
  Boards           \* is the bus cut off below S0?  (TRUE, FALSE or either)

ASSUME HostAssumption ==
  /\ ShutdownTimes \subseteq Nat /\ ShutdownTimes # {}
  /\ Boards \subseteq BOOLEAN /\ Boards # {}

VARIABLES
  isolated,  \* the board's wiring
  power,     \* the host: on, stopping or off
  downIn,    \* the time a stopping host still needs
  wake,      \* will an off host be started?
  (* history, read by no guard *)
  took,      \* the time the latest shutdown takes
  owed       \* was a wake-up still remembered when the latest call was issued?

hostVars == <<isolated, power, downIn, wake, took, owed>>
plantVars == <<fd, op, retries, event, round, attempt, stage, status,
               acked, delivered, last, slept, hostVars>>

PowerStates == {"on", "stopping", "off"}

\* Can a transfer reach the MCU?
BusUp == ~isolated \/ power # "off"

\* The host has a step to take, which is not waited for: it comes before
\* whatever the service does next.
Due == \/ power = "stopping" /\ downIn = 0
       \/ power = "off" /\ wake

-----------------------------------------------------------------------------
HostInit ==
  /\ CmdInit
  /\ isolated \in Boards
  /\ power \in PowerStates
  /\ took \in ShutdownTimes
  /\ downIn = (IF power = "stopping" THEN took ELSE 0)
  /\ wake = FALSE /\ owed = FALSE

\* The host goes down, or comes up.
HostMoves ==
  /\ Due
  /\ \/ power = "stopping" /\ power' = "off" /\ UNCHANGED wake
     \/ power = "off" /\ power' = "on" /\ wake' = FALSE
  /\ UNCHANGED <<cmdVars, isolated, downIn, took, owed>>

\* What an event that arrives does to the host.
TakesAwake ==
  /\ \/ power = "on" /\ UNCHANGED wake
     \/ power = "stopping" /\ wake' \in {wake, TRUE}
     \/ power = "off" /\ wake' = TRUE
  /\ UNCHANGED <<power, downIn, took>>

\* The MCU keeps a remembered wake-up, or forgets it.
WakeMayBeForgotten == UNCHANGED wake \/ wake' = FALSE

TakesSoftOff ==
  /\ WakeMayBeForgotten
  /\ \/ /\ power = "on" /\ power' = "stopping"
        /\ took' \in ShutdownTimes /\ downIn' = took'
     \/ power # "on" /\ UNCHANGED <<power, downIn, took>>

PowerCut ==
  /\ power' = (IF power = "off" THEN "off" ELSE "stopping")
  /\ downIn' = 0
  /\ UNCHANGED took

Takes(e) ==
  \/ e = "Awake" /\ TakesAwake
  \/ e = "SoftOff" /\ TakesSoftOff
  \/ e = "HardOff" /\ PowerCut /\ WakeMayBeForgotten
  \/ e = "HardReset" /\ PowerCut /\ wake' = TRUE

\* A write, and what the host makes of it if it arrives.
Write ==
  /\ ~Due
  /\ WriteSucceeds \/ WriteFails
  /\ \/ delivered' # delivered /\ BusUp /\ Takes(event)
     \/ delivered' = delivered /\ UNCHANGED <<power, downIn, wake, took>>
  /\ UNCHANGED <<isolated, owed>>

\* Mutant: the shutdown's clock runs on past its end.
SleepPastEnd ==
  /\ ~Due
  /\ Backoff \/ Pause \/ Settle
  /\ downIn' = downIn - (slept' - slept)
  /\ UNCHANGED <<isolated, power, wake, took, owed>>

\* The host goes on shutting down while the call sleeps.
Sleep ==
  /\ ~Due
  /\ Backoff \/ Pause \/ Settle
  /\ downIn' = (IF downIn <= slept' - slept THEN 0 ELSE downIn - (slept' - slept))
  /\ UNCHANGED <<isolated, power, wake, took, owed>>

\* A call is issued to the host as it is.
Issued == owed' = wake /\ UNCHANGED <<isolated, power, downIn, wake, took>>

CallsAndReturns ==
  /\ ~Due
  /\ \/ (\E r \in RetryArgs : Issue(r)) /\ Issued
     \/ Return /\ UNCHANGED hostVars

\* Time passes between two calls.
Idle ==
  /\ ~Due /\ stage = "ready" /\ downIn > 0
  /\ downIn' = downIn - 1
  /\ UNCHANGED <<cmdVars, isolated, power, wake, took, owed>>

HostNext == HostMoves \/ Write \/ Sleep \/ CallsAndReturns \/ Idle

HostSpec == HostInit /\ [][HostNext]_plantVars

-----------------------------------------------------------------------------
HostTypeOK ==
  /\ CmdTypeOK
  /\ isolated \in BOOLEAN
  /\ power \in PowerStates
  /\ took \in ShutdownTimes
  /\ downIn \in 0..took
  /\ wake \in BOOLEAN /\ owed \in BOOLEAN
  /\ power # "stopping" => downIn = 0

\* The time between a soft reset's first SoftOff and its last Awake, at least:
\* the pauses of both loops but the last one, and the wait.
Window == 2 * retries + 9

\* A soft reset that reports success leaves the host running whenever its
\* shutdown takes no longer than the window, on every board and whatever the
\* bus did in between: although the wait is 5000ms, the repeated wake-ups
\* stretch the tolerance (to 7500ms with the default argument).  A slower host
\* may be told to wake before it is down, and stay off.  (So may a host that
\* an earlier command's wake-up starts between two rounds of the shutdown.)
ResetLeavesHostUp ==
  (/\ stage = "return" /\ op = "SoftReset" /\ status = "Success" /\ ~owed
   /\ took <= Window /\ ~Due) => power = "on"

\* A host that was shut down stays down until the next command, whatever the
\* bus did to the attempts, unless the command found an earlier wake-up
\* remembered: nothing in the code says what the MCU does with that one.
OffIsFinal ==
  (/\ stage \in {"return", "ready"} /\ status = "Success" /\ ~owed
   /\ op \in {"SoftShutdown", "HardShutdown"}) => power # "on" /\ ~wake

\* "SMBus communication to the sequence MCU is isolated below S0 so we can only
\* support Transition::Reboot": the wake-up half of a reboot finds an MCU it
\* can reach.  (Not so: it comes when the host is off, that is below S0.)
RebootIsSupported ==
  (stage = "write" /\ op = "SoftReset" /\ event = "Awake" /\ ~Due) => BusUp
=============================================================================
