-------------------------- MODULE SequenceMcuState --------------------------
(***************************************************************************)
(* The reading half of SequenceMCUHandler: the poll timer, the cache       *)
(* current_state that every D-Bus read is answered from, and GetCapability.*)
(*                                                                         *)
(* The sequence MCU (external) holds a power state and a transition cause  *)
(* that change at any time: buttons, timers, AC, the host's own doing.  A  *)
(* poll reads both in one bus transaction and stores both before anything  *)
(* else runs, so a poll is one step.                                       *)
(***************************************************************************)
EXTENDS PowerTypes, SMBusManager, Sequences

CONSTANTS
  Reports,        \* the pairs <<power state, cause>> the MCU may report
  Capabilities,   \* the capability bytes it may report
  BlockCounts,    \* byte counts a successful block read may come back with
  StackBytes,     \* bytes an unwritten buffer element may show
  IsolatedBelowS0, \* does the board cut the bus to the MCU below S0?
  MaxReports      \* bound on the history: pairs the MCU may hold in a row

STATE_AND_TCAUSE_SIZE == 2

ASSUME StateAssumption ==
  /\ Reports \subseteq Bytes \X Bytes /\ Reports # {}
  /\ Capabilities \subseteq Bytes
  /\ BlockCounts \subseteq 0..STATE_AND_TCAUSE_SIZE
  /\ StackBytes \subseteq Bytes
  /\ IsolatedBelowS0 \in BOOLEAN
  /\ MaxReports \in Nat \ {0}

VARIABLES
  fd,             \* SMBUSManager::fd_
  registers,      \* what the MCU holds now (external)
  current_state,  \* the cache
  poll_timer,     \* idle: no wait started; armed; ended: the wait gave up
  (* history, read by no guard *)
  reported,       \* every pair registers has held, in order
  snapshot        \* how many of them there were at the last good poll, or 0

cacheVars == <<current_state, poll_timer, snapshot>>
mcuVars == <<registers, reported>>
stateVars == <<fd, registers, current_state, poll_timer, reported, snapshot>>

kCapability_Unknown == 255

InitSequenceMcuContext ==
  [capabilities |-> kCapability_Unknown,
   power_state |-> kSLP_Unknown,
   transition_cause |-> kCause_Unknown]

\* Can a transfer get through to the MCU?
Reachable == ~IsolatedBelowS0 \/ registers[1] = kSLP_S0

-----------------------------------------------------------------------------
StateInit ==
  /\ fd \in InitSMBUSManager(ClosedFd)
  /\ registers \in Reports
  /\ current_state = InitSequenceMcuContext
  /\ poll_timer = "idle"
  /\ reported = <<registers>>
  /\ snapshot = 0

\* External: the MCU's pair changes.
McuChanges ==
  /\ Len(reported) < MaxReports
  /\ registers' \in Reports \ {registers}
  /\ reported' = Append(reported, registers')
  /\ UNCHANGED <<fd, current_state, poll_timer, snapshot>>

\* The results of GetStateAndTransitionCause: the block read's, looked at for
\* its return code only.
GetStateAndTransitionCause ==
  {r \in SmbusSubaddressReadByteBlock(fd, STATE_AND_TCAUSE_SIZE, registers,
                                      BlockCounts, StackBytes) :
     r.rc = 0 => Reachable}

\* Mutants: the block as one word; the cause looked at only when the state is
\* the same.
CacheWholeWord(state, cause) ==
  current_state' = [current_state EXCEPT !.power_state = state + 256 * cause]
CacheOneChange(state, cause) ==
  current_state' = IF state = current_state.power_state
                   THEN [current_state EXCEPT !.transition_cause = cause]
                   ELSE [current_state EXCEPT !.power_state = state]

\* The cache takes over the state and the cause, each if it differs.
CacheSystemState(state, cause) ==
  current_state' = [current_state EXCEPT !.power_state = state,
                                         !.transition_cause = cause]

StartPolling ==
  /\ poll_timer = "idle"
  /\ poll_timer' = "armed"
  /\ UNCHANGED <<fd, current_state, snapshot, registers, reported>>

\* The timer fires: CacheSystemState, then the wait is started again.
PollSucceeds ==
  /\ poll_timer = "armed"
  /\ \E r \in GetStateAndTransitionCause :
       /\ r.rc >= 0
       /\ CacheSystemState(r.resultant[1], r.resultant[2])
  /\ snapshot' = Len(reported)
  /\ UNCHANGED <<fd, poll_timer, registers, reported>>

\* Mutant: a failed read ends the polling.
PollFailsForGood ==
  /\ poll_timer = "armed"
  /\ \E r \in GetStateAndTransitionCause : r.rc < 0
  /\ poll_timer' = "lapsed"
  /\ UNCHANGED <<fd, current_state, snapshot, registers, reported>>

\* A failed read is logged and the cache is kept; the wait is started again.
PollFails ==
  /\ poll_timer = "armed"
  /\ \E r \in GetStateAndTransitionCause : r.rc < 0
  /\ UNCHANGED <<fd, current_state, snapshot, poll_timer, registers, reported>>

\* The wait completes with an error of its own: it is not started again.
PollTimerError ==
  /\ poll_timer = "armed"
  /\ poll_timer' = "ended"
  /\ UNCHANGED <<fd, current_state, snapshot, registers, reported>>

\* GetCapability caches the byte it reads; a failed read changes nothing.
GetCapability ==
  /\ Reachable
  /\ \E c \in Capabilities : \E r \in SmbusSubaddressReadByte(fd, c) :
       /\ r.rc >= 0
       /\ current_state' = [current_state EXCEPT !.capabilities = r.resultant[1]]
  /\ UNCHANGED <<fd, snapshot, poll_timer, registers, reported>>

StateNext ==
  \/ McuChanges
  \/ StartPolling
  \/ PollSucceeds
  \/ PollFails
  \/ PollTimerError
  \/ GetCapability

StateSpec == StateInit /\ [][StateNext]_stateVars

\* main starts the polling, and a read does not fail for ever when it keeps
\* being able to succeed: bus errors are transient.  Nothing is assumed of the
\* MCU, of the timer or of GetCapability's callers.
FairStateSpec ==
  /\ StateSpec
  /\ WF_stateVars(StartPolling)
  /\ SF_stateVars(PollSucceeds)

-----------------------------------------------------------------------------
StateTypeOK ==
  /\ fd \in Fd
  /\ registers \in Reports
  /\ current_state \in [capabilities : Bytes, power_state : Bytes,
                        transition_cause : Bytes]
  /\ poll_timer \in {"idle", "armed", "ended"}
  /\ reported \in Seq(Reports)
  /\ snapshot \in 0..Len(reported)

\* The cached power state and cause always belong together: they are the pair
\* the MCU held at one instant, the last good poll, or the initial unknowns.
\* (CacheSystemState updates the two fields one after the other.)
CacheIsSnapshot ==
  LET cached == <<current_state.power_state, current_state.transition_cause>>
  IN  IF snapshot = 0
      THEN cached = <<kSLP_Unknown, kCause_Unknown>>
      ELSE cached = reported[snapshot]

\* The abstract register and cache these are.
Register ==
  INSTANCE CachedRegister WITH
    Values <- Reports, Unknown <- <<kSLP_Unknown, kCause_Unknown>>,
    value <- registers,
    cached <- <<current_state.power_state, current_state.transition_cause>>

\* Readers of state and cause see moments of the MCU, each as a whole and none
\* before an earlier one: the pair is only ever replaced by the pair the MCU
\* holds at that instant.
ImplementsRegister == Register!RegisterSpec

\* Once the MCU stops changing, the cache agrees with it for good, unless the
\* device was never opened or the timer broke.
EventuallyFresh ==
  ([](fd >= 0) /\ [](poll_timer # "ended")) =>
     <>[](current_state.power_state = registers[1]
          /\ current_state.transition_cause = registers[2])

\* "Gets the current power state of the chassis": with the MCU at rest, the
\* state a reader of the chassis is given becomes the true one.  (Not so on a
\* board that isolates the MCU below S0: no poll can see the host go down.)
CurrentStateIsReported ==
  ([](fd >= 0) /\ [](poll_timer # "ended")) =>
     <>[](toChassisState(current_state.power_state) = toChassisState(registers[1]))

\* "Read both the MCU power state and transition cause in a single SMBus
\* transaction."  (Not so when the adapter returns fewer bytes than asked
\* for: the byte count it hands back is not looked at.)
BothReadInOneTransaction == CacheIsSnapshot
=============================================================================
