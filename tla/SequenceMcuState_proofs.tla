----------------------- MODULE SequenceMcuState_proofs -----------------------
(***************************************************************************)
(* Proofs about SequenceMcuState, for every set of pairs the MCU may       *)
(* report and whatever the bus does.                                       *)
(***************************************************************************)
EXTENDS SequenceMcuState, TLAPS

\* Every pair the MCU reports is two bytes.
LEMMA ReportBytes ==
  ASSUME NEW r \in Reports
  PROVE  r[1] \in Bytes /\ r[2] \in Bytes
BY StateAssumption

\* A read that succeeds fills both bytes, from the registers or from the stack.
LEMMA ReadResults ==
  ASSUME StateTypeOK, NEW r \in GetStateAndTransitionCause, r.rc >= 0
  PROVE  /\ r.resultant[1] \in Bytes /\ r.resultant[2] \in Bytes
         /\ BlockCounts = {STATE_AND_TCAUSE_SIZE} =>
              r.resultant[1] = registers[1] /\ r.resultant[2] = registers[2]
<1>1. r \in SmbusSubaddressReadByteBlock(fd, 2, registers, BlockCounts, StackBytes)
  BY DEF GetStateAndTransitionCause, STATE_AND_TCAUSE_SIZE
<1>2. PICK n \in BlockCounts,
           b \in [1..2 -> StackBytes \cup {registers[i] : i \in 1..2}] :
        /\ \A i \in 1..2 : IF i <= n THEN b[i] = registers[i] ELSE b[i] \in StackBytes
        /\ r.resultant = b
  BY <1>1 DEF SmbusSubaddressReadByteBlock
<1>3. registers[1] \in Bytes /\ registers[2] \in Bytes
  BY ReportBytes DEF StateTypeOK
<1>4. r.resultant[1] \in Bytes /\ r.resultant[2] \in Bytes
  BY <1>2, <1>3, StateAssumption
<1>5. ASSUME BlockCounts = {STATE_AND_TCAUSE_SIZE}
      PROVE  r.resultant[1] = registers[1] /\ r.resultant[2] = registers[2]
  BY <1>2, <1>5 DEF STATE_AND_TCAUSE_SIZE
<1> QED
  BY <1>4, <1>5

LEMMA StateTypeInit ==
  ASSUME StateInit
  PROVE  StateTypeOK
BY DEF StateInit, StateTypeOK, InitSMBUSManager, Fd, ClosedFd, OpenFd,
       InitSequenceMcuContext, kCapability_Unknown, kSLP_Unknown,
       kCause_Unknown, Bytes

LEMMA StateTypeStep ==
  ASSUME StateTypeOK, [StateNext]_stateVars
  PROVE  StateTypeOK'
<1> USE DEF StateTypeOK
<1>1. CASE McuChanges
  BY <1>1 DEF McuChanges
<1>2. CASE StartPolling
  BY <1>2 DEF StartPolling
<1>3. CASE PollSucceeds
  <2>1. PICK r \in GetStateAndTransitionCause :
          r.rc >= 0 /\ CacheSystemState(r.resultant[1], r.resultant[2])
    BY <1>3 DEF PollSucceeds
  <2>2. r.resultant[1] \in Bytes /\ r.resultant[2] \in Bytes
    BY <2>1, ReadResults
  <2>3. current_state' \in [capabilities : Bytes, power_state : Bytes,
                            transition_cause : Bytes]
    BY <2>1, <2>2 DEF CacheSystemState
  <2> QED
    BY <1>3, <2>3 DEF PollSucceeds
<1>4. CASE PollFails
  BY <1>4 DEF PollFails
<1>5. CASE PollTimerError
  BY <1>5 DEF PollTimerError
<1>6. CASE GetCapability
  <2>1. PICK c \in Capabilities : \E r \in SmbusSubaddressReadByte(fd, c) :
          /\ r.rc >= 0
          /\ current_state' = [current_state EXCEPT !.capabilities = r.resultant[1]]
    BY <1>6 DEF GetCapability
  <2>2. current_state' = [current_state EXCEPT !.capabilities = c]
    BY <2>1 DEF SmbusSubaddressReadByte
  <2>3. c \in Bytes
    BY StateAssumption
  <2> QED
    BY <1>6, <2>2, <2>3 DEF GetCapability
<1>7. CASE UNCHANGED stateVars
  BY <1>7 DEF stateVars
<1> QED
  BY <1>1, <1>2, <1>3, <1>4, <1>5, <1>6, <1>7 DEF StateNext

\* Type correctness: what is cached is bytes, short reads included.
THEOREM StateTypeCorrect == StateSpec => []StateTypeOK
<1>1. StateInit => StateTypeOK
  BY StateTypeInit
<1>2. StateTypeOK /\ [StateNext]_stateVars => StateTypeOK'
  BY StateTypeStep
<1> QED
  BY <1>1, <1>2, PTL DEF StateSpec

\* The pair in the registers is the last one reported: the link between what
\* a poll reads and the history the snapshot is looked up in.
RegistersAreLatest == Len(reported) > 0 /\ registers = reported[Len(reported)]

LEMMA SnapshotStep ==
  ASSUME StateTypeOK, RegistersAreLatest, CacheIsSnapshot, [StateNext]_stateVars,
         BlockCounts = {STATE_AND_TCAUSE_SIZE}
  PROVE  RegistersAreLatest' /\ CacheIsSnapshot'
<1>1. CASE McuChanges
  <2>1. registers' \in Reports /\ reported' = Append(reported, registers')
        /\ UNCHANGED <<current_state, snapshot>>
    BY <1>1 DEF McuChanges
  <2>2. /\ Len(reported') = Len(reported) + 1
        /\ reported'[Len(reported) + 1] = registers'
        /\ \A i \in 1..Len(reported) : reported'[i] = reported[i]
    BY <2>1 DEF StateTypeOK
  <2>3. RegistersAreLatest'
    BY <2>2 DEF RegistersAreLatest, StateTypeOK
  <2>4. CacheIsSnapshot'
    BY <2>1, <2>2 DEF CacheIsSnapshot, StateTypeOK
  <2> QED
    BY <2>3, <2>4
<1>2. CASE PollSucceeds
  <2>1. PICK r \in GetStateAndTransitionCause :
          r.rc >= 0 /\ CacheSystemState(r.resultant[1], r.resultant[2])
    BY <1>2 DEF PollSucceeds
  <2>2. r.resultant[1] = registers[1] /\ r.resultant[2] = registers[2]
    BY <2>1, ReadResults
  <2>3. current_state'.power_state = registers[1]
        /\ current_state'.transition_cause = registers[2]
    BY <2>1, <2>2 DEF CacheSystemState, StateTypeOK
  <2>4. snapshot' = Len(reported) /\ UNCHANGED <<registers, reported>>
    BY <1>2 DEF PollSucceeds
  <2>5. registers = <<registers[1], registers[2]>>
    BY StateAssumption DEF StateTypeOK
  <2> QED
    BY <2>3, <2>4, <2>5 DEF RegistersAreLatest, CacheIsSnapshot
<1>3. CASE GetCapability
  <2>1. UNCHANGED <<snapshot, registers, reported>>
    BY <1>3 DEF GetCapability
  <2>2. PICK x : current_state' = [current_state EXCEPT !.capabilities = x]
    BY <1>3 DEF GetCapability
  <2>3. current_state'.power_state = current_state.power_state
        /\ current_state'.transition_cause = current_state.transition_cause
    BY <2>2 DEF StateTypeOK
  <2> QED
    BY <2>1, <2>3 DEF RegistersAreLatest, CacheIsSnapshot
<1>4. CASE StartPolling \/ PollFails \/ PollTimerError \/ UNCHANGED stateVars
  <2>1. UNCHANGED <<registers, reported, snapshot, current_state>>
    BY <1>4 DEF StartPolling, PollFails, PollTimerError, stateVars
  <2> QED
    BY <2>1 DEF RegistersAreLatest, CacheIsSnapshot
<1> QED
  BY <1>1, <1>2, <1>3, <1>4 DEF StateNext

\* With an adapter that reads in full, the cached state and cause always
\* belong together.
THEOREM CacheIsAlwaysSnapshot ==
  ASSUME BlockCounts = {STATE_AND_TCAUSE_SIZE}
  PROVE  StateSpec => []CacheIsSnapshot
<1>1. StateInit => RegistersAreLatest /\ CacheIsSnapshot
  BY DEF StateInit, RegistersAreLatest, CacheIsSnapshot, InitSequenceMcuContext
<1>2. StateTypeOK /\ RegistersAreLatest /\ CacheIsSnapshot /\ [StateNext]_stateVars
        => RegistersAreLatest' /\ CacheIsSnapshot'
  BY SnapshotStep
<1> QED
  BY <1>1, <1>2, StateTypeCorrect, PTL DEF StateSpec

-----------------------------------------------------------------------------
\* What a step does to the register and its cache.
LEMMA RegisterStep ==
  ASSUME StateTypeOK, [StateNext]_stateVars, BlockCounts = {STATE_AND_TCAUSE_SIZE}
  PROVE  [Register!RegisterNext]_(Register!registerVars)
<1> DEFINE cached == <<current_state.power_state, current_state.transition_cause>>
<1>1. CASE McuChanges
  BY <1>1 DEF McuChanges, Register!RegisterNext, Register!Change
<1>2. CASE PollSucceeds
  <2>1. PICK r \in GetStateAndTransitionCause :
          r.rc >= 0 /\ CacheSystemState(r.resultant[1], r.resultant[2])
    BY <1>2 DEF PollSucceeds
  <2>2. r.resultant[1] = registers[1] /\ r.resultant[2] = registers[2]
    BY <2>1, ReadResults
  <2>3. cached' = <<registers[1], registers[2]>>
    BY <2>1, <2>2 DEF CacheSystemState, StateTypeOK
  <2>4. registers = <<registers[1], registers[2]>>
    BY StateAssumption DEF StateTypeOK
  <2>5. UNCHANGED registers
    BY <1>2 DEF PollSucceeds
  <2> QED
    BY <2>3, <2>4, <2>5 DEF Register!RegisterNext, Register!Refresh
<1>3. CASE GetCapability
  <2>1. UNCHANGED registers
    BY <1>3 DEF GetCapability
  <2>2. PICK x : current_state' = [current_state EXCEPT !.capabilities = x]
    BY <1>3 DEF GetCapability
  <2>3. UNCHANGED cached
    BY <2>2 DEF StateTypeOK
  <2> QED
    BY <2>1, <2>3 DEF Register!registerVars
<1>4. CASE StartPolling \/ PollFails \/ PollTimerError \/ UNCHANGED stateVars
  BY <1>4 DEF StartPolling, PollFails, PollTimerError, stateVars, Register!registerVars
<1> QED
  BY <1>1, <1>2, <1>3, <1>4 DEF StateNext

\* With an adapter that reads in full, the poll and its cache are a cached
\* register: whatever fails and however the MCU changes, its readers see
\* moments of it, each as a whole and in their order.
THEOREM StateImplementsRegister ==
  ASSUME BlockCounts = {STATE_AND_TCAUSE_SIZE}
  PROVE  StateSpec => ImplementsRegister
<1>1. StateInit => Register!RegisterInit
  BY DEF StateInit, InitSequenceMcuContext, Register!RegisterInit
<1>2. StateTypeOK /\ [StateNext]_stateVars => [Register!RegisterNext]_(Register!registerVars)
  BY RegisterStep
<1> QED
  BY <1>1, <1>2, StateTypeCorrect, PTL DEF StateSpec, ImplementsRegister, Register!RegisterSpec
=============================================================================
