--------------------- MODULE SequenceMcuCommands_proofs ---------------------
(***************************************************************************)
(* Proofs about SequenceMcuCommands, for every set of retry arguments and  *)
(* every default argument that a uint8_t can hold.                         *)
(***************************************************************************)
EXTENDS SequenceMcuCommands, Sequences, TLAPS

\* The one event of a command other than a soft reset.
SingleEvent ==
  [Awake        |-> "Awake",
   HardReset    |-> "HardReset",
   SoftShutdown |-> "SoftOff",
   HardShutdown |-> "HardOff"]

\* A call writes the events of its own function, and only IssueSoftReset has
\* rounds after which it pauses and settles.
CallShape ==
  /\ op = "SoftReset" => event \in {"SoftOff", "Awake"}
  /\ op # "SoftReset" => event = SingleEvent[op] /\ round = 0
  /\ stage \in {"pause", "settle"} => op = "SoftReset"
  /\ stage = "settle" => event = "SoftOff"
  /\ (stage = "return" /\ status = "Success" /\ op = "SoftReset") => event = "Awake"

\* Inside a loop its counter is below its bound, so ++ never wraps.
CountersInRange ==
  /\ stage \in {"write", "backoff", "pause"} => attempt < Attempts /\ round < Rounds
  /\ stage = "settle" => round = retries /\ 0 < retries

\* The round counter counts the acknowledged writes of the loop's event.
RoundsAreAcks ==
  /\ stage \in {"write", "backoff"} => acked[event] = round
  /\ stage = "pause" => acked[event] = round + 1
  /\ stage = "settle" => acked[event] = retries
  /\ (stage = "return" /\ status = "ProtocolError") =>
        acked[event] = round /\ attempt = Attempts
  /\ (stage = "return" /\ status = "Success") => acked[event] = Rounds

\* The shutdown half of a soft reset has not touched Awake; the wake-up half
\* comes after all rounds of the shutdown, their pauses and the wait.
Halves ==
  /\ (op = "SoftReset" /\ event = "SoftOff") =>
        /\ acked["Awake"] = 0 /\ delivered["Awake"] = 0
        /\ stage \in {"write", "backoff", "pause", "settle"} => slept >= round
  /\ (op = "SoftReset" /\ event = "Awake") =>
        acked["SoftOff"] = retries /\ slept >= retries + 10

\* The inductive invariant behind the safety theorems.
CallInv == CmdTypeOK /\ CallShape /\ CountersInRange /\ RoundsAreAcks /\ Halves

-----------------------------------------------------------------------------
\* What the results of a write and the constants look like to the provers.
LEMMA Ranges ==
  /\ RetryArgs \subseteq 0..255
  /\ DefaultRetries \in 1..255
BY RetryAssumption DEF Bytes

\* A uint8_t below another one can be incremented without wrapping.
LEMMA NoWrap ==
  ASSUME NEW n \in 0..255, NEW m \in 0..255, n < m
  PROVE  Inc8(n) = n + 1 /\ Inc8(n) \in 0..255 /\ Inc8(n) <= m
BY DEF Inc8

\* A state that satisfies the type invariant has small loop bounds.
LEMMA Bounds ==
  ASSUME CmdTypeOK
  PROVE  Attempts \in 0..255 /\ Rounds \in 0..255
BY Ranges DEF CmdTypeOK, Attempts, Rounds, Bytes

\* The type invariant is inductive on its own.
LEMMA TypeStep ==
  ASSUME CmdTypeOK, [CmdNext]_cmdVars
  PROVE  CmdTypeOK'
<1> USE Ranges DEF CmdTypeOK, Bytes
<1>1. ASSUME NEW r \in RetryArgs, Issue(r)
      PROVE  CmdTypeOK'
  <2>1. ASSUME NEW o \in Operations, NEW e \in PowerEvents, Call(o, e, r)
        PROVE  CmdTypeOK'
    BY <2>1 DEF Call, Stages, OperationStatus, NoEvents
  <2> QED
    BY <1>1, <2>1 DEF Issue, IssueAwakeCmd, IssueHardReset, IssueSoftShutdown,
       IssueHardShutdown, IssueSoftReset, Operations, PowerEvents
<1>2. ASSUME NEW w \in WriteResult, Transfer(w)
      PROVE  /\ fd' \in Fd /\ op' \in Operations /\ retries' \in Bytes
             /\ event' \in PowerEvents /\ round' \in Bytes /\ attempt' \in Bytes
             /\ delivered' \in [PowerEvents -> Nat]
             /\ last' \in PowerEvents \cup {"none"} /\ slept' \in Nat
  BY <1>2 DEF Transfer
<1>3. CASE WriteSucceeds
  BY <1>2, <1>3 DEF WriteSucceeds, Stages, OperationStatus
<1>4. CASE WriteFails
  BY <1>2, <1>4 DEF WriteFails, Stages
<1>5. CASE Backoff
  BY <1>5 DEF Backoff, Inc8, Stages, OperationStatus
<1>6. CASE Pause
  BY <1>6 DEF Pause, Inc8, Stages, OperationStatus
<1>7. CASE Settle
  BY <1>7 DEF Settle, Stages, PowerEvents
<1>8. CASE Return
  BY <1>8 DEF Return, Stages
<1>9. CASE UNCHANGED cmdVars
  BY <1>9 DEF cmdVars
<1> QED
  BY <1>1, <1>3, <1>4, <1>5, <1>6, <1>7, <1>8, <1>9 DEF CmdNext, CommandStep

LEMMA TypeInit ==
  ASSUME CmdInit
  PROVE  CmdTypeOK
BY DEF CmdInit, CmdTypeOK, InitSMBUSManager, ClosedFd, OpenFd, Fd, Operations,
       Bytes, PowerEvents, Stages, OperationStatus, NoEvents

\* Type correctness: the loop counters stay in uint8_t.
THEOREM CmdTypeCorrect == CmdSpec => []CmdTypeOK
<1>1. CmdInit => CmdTypeOK
  BY TypeInit
<1>2. CmdTypeOK /\ [CmdNext]_cmdVars => CmdTypeOK'
  BY TypeStep
<1> QED
  BY <1>1, <1>2, PTL DEF CmdSpec

-----------------------------------------------------------------------------
LEMMA CallInvInit ==
  ASSUME CmdInit
  PROVE  CallInv
<1>1. CmdTypeOK
  BY TypeInit
<1> QED
  BY <1>1 DEF CmdInit, CallInv, CallShape, CountersInRange, RoundsAreAcks,
              Halves, SingleEvent, NoEvents

\* A new call starts from cleared counters, whatever the last one left.
LEMMA CallInvCall ==
  ASSUME CallInv, CmdTypeOK', NEW r \in RetryArgs, Issue(r)
  PROVE  CallInv'
<1>1. ASSUME NEW o \in Operations, NEW e \in PowerEvents, Call(o, e, r),
             o = "SoftReset" => e = "SoftOff",
             o # "SoftReset" => e = SingleEvent[o]
      PROVE  CallInv'
  <2>1. CallShape'
    BY <1>1 DEF Call, CallShape
  <2>2. CountersInRange'
    BY <1>1, Ranges DEF Call, CountersInRange, Attempts, Rounds
  <2>3. RoundsAreAcks' /\ Halves'
    BY <1>1 DEF Call, RoundsAreAcks, Halves, NoEvents, PowerEvents
  <2> QED
    BY <2>1, <2>2, <2>3 DEF CallInv
<1> QED
  BY <1>1 DEF Issue, IssueAwakeCmd, IssueHardReset, IssueSoftShutdown,
              IssueHardShutdown, IssueSoftReset, Operations, PowerEvents,
              SingleEvent

\* What every write leaves alone, and the one count it can change.
LEMMA TransferEffect ==
  ASSUME CallInv, NEW w \in WriteResult, Transfer(w)
  PROVE  /\ stage = "write"
         /\ UNCHANGED <<op, retries, event, round, attempt, slept>>
         /\ \A e \in PowerEvents \ {event} : delivered'[e] = delivered[e]
         /\ Attempts' = Attempts /\ Rounds' = Rounds
BY DEF Transfer, CallInv, CmdTypeOK, Attempts, Rounds

LEMMA CallInvWriteSucceeds ==
  ASSUME CallInv, CmdTypeOK', WriteSucceeds
  PROVE  CallInv'
<1>1. PICK w \in WriteResult : w.rc >= 0 /\ Transfer(w)
  BY DEF WriteSucceeds
<1>2. /\ stage = "write"
      /\ UNCHANGED <<op, retries, event, round, attempt, slept>>
      /\ \A e \in PowerEvents \ {event} : delivered'[e] = delivered[e]
      /\ Attempts' = Attempts /\ Rounds' = Rounds
  BY <1>1, TransferEffect
<1>3. /\ acked' = [acked EXCEPT ![event] = @ + 1]
      /\ \/ op # "SoftReset" /\ stage' = "return" /\ status' = "Success"
         \/ op = "SoftReset" /\ stage' = "pause" /\ UNCHANGED status
  BY DEF WriteSucceeds
<1>4. CallShape'
  BY <1>2, <1>3 DEF CallInv, CallShape
<1>5. CountersInRange'
  BY <1>2, <1>3 DEF CallInv, CountersInRange
<1>6. RoundsAreAcks'
  BY <1>2, <1>3 DEF CallInv, CallShape, RoundsAreAcks, CmdTypeOK, Rounds
<1>7. Halves'
  BY <1>2, <1>3 DEF CallInv, Halves, CmdTypeOK, PowerEvents
<1> QED
  BY <1>4, <1>5, <1>6, <1>7 DEF CallInv

LEMMA CallInvWriteFails ==
  ASSUME CallInv, CmdTypeOK', WriteFails
  PROVE  CallInv'
<1>1. PICK w \in WriteResult : w.rc < 0 /\ Transfer(w)
  BY DEF WriteFails
<1>2. /\ stage = "write"
      /\ UNCHANGED <<op, retries, event, round, attempt, slept>>
      /\ \A e \in PowerEvents \ {event} : delivered'[e] = delivered[e]
      /\ Attempts' = Attempts /\ Rounds' = Rounds
  BY <1>1, TransferEffect
<1>3. stage' = "backoff" /\ UNCHANGED <<acked, status>>
  BY DEF WriteFails
<1>4. CallShape' /\ CountersInRange' /\ RoundsAreAcks'
  BY <1>2, <1>3 DEF CallInv, CallShape, CountersInRange, RoundsAreAcks
<1>5. Halves'
  BY <1>2, <1>3 DEF CallInv, Halves, CmdTypeOK, PowerEvents
<1> QED
  BY <1>4, <1>5 DEF CallInv

LEMMA CallInvBackoff ==
  ASSUME CallInv, CmdTypeOK', Backoff
  PROVE  CallInv'
<1>1. attempt' = attempt + 1 /\ attempt + 1 <= Attempts
  BY NoWrap, Bounds DEF CallInv, CountersInRange, Backoff, CmdTypeOK, Bytes
<1>2. Attempts' = Attempts /\ Rounds' = Rounds
  BY DEF Backoff, Attempts, Rounds
<1>3. CallShape'
  BY DEF Backoff, CallInv, CallShape
<1>4. CountersInRange'
  BY <1>1, <1>2 DEF Backoff, CallInv, CountersInRange, MoreAttempts, Attempts
<1>5. RoundsAreAcks'
  <2>1. CASE stage' = "write"
    BY <1>2, <2>1 DEF Backoff, CallInv, RoundsAreAcks
  <2>2. CASE stage' = "return"
    <3>1. ~MoreAttempts(attempt') /\ status' = "ProtocolError"
      BY <2>2 DEF Backoff
    <3>2. attempt' = Attempts
      BY <1>1, <3>1, Bounds DEF MoreAttempts, CallInv, CmdTypeOK, Bytes
    <3> QED
      BY <1>2, <2>2, <3>1, <3>2 DEF Backoff, CallInv, RoundsAreAcks
  <2> QED
    BY <2>1, <2>2 DEF Backoff
<1>6. Halves'
  BY DEF Backoff, CallInv, Halves, CmdTypeOK, Bytes
<1> QED
  BY <1>3, <1>4, <1>5, <1>6 DEF CallInv

LEMMA CallInvPause ==
  ASSUME CallInv, CmdTypeOK', Pause
  PROVE  CallInv'
<1>1. op = "SoftReset" /\ Rounds = retries /\ event \in {"SoftOff", "Awake"}
  BY DEF CallInv, CallShape, Pause, Rounds
<1>2. round' = round + 1 /\ round + 1 <= retries
  BY <1>1, NoWrap DEF CallInv, CountersInRange, Pause, CmdTypeOK, Bytes
<1>3. Attempts' = Attempts /\ Rounds' = Rounds
  BY DEF Pause, Attempts, Rounds
<1>4. 0 < Attempts
  BY <1>1, Ranges DEF Attempts
<1>5. ~MoreRounds(round') => round' = retries /\ 0 < retries
  BY <1>2 DEF MoreRounds, CallInv, CmdTypeOK, Bytes
<1>6. CallShape'
  BY <1>1 DEF Pause, CallInv, CallShape
<1>7. CountersInRange'
  BY <1>1, <1>2, <1>3, <1>4, <1>5 DEF Pause, CountersInRange, MoreRounds, Rounds
<1>8. RoundsAreAcks'
  BY <1>1, <1>2, <1>3, <1>5 DEF Pause, CallInv, RoundsAreAcks
<1>9. Halves'
  BY <1>1, <1>2 DEF Pause, CallInv, Halves, CmdTypeOK, Bytes
<1> QED
  BY <1>6, <1>7, <1>8, <1>9 DEF CallInv

LEMMA CallInvSettle ==
  ASSUME CallInv, CmdTypeOK', Settle
  PROVE  CallInv'
<1>1. op = "SoftReset" /\ event = "SoftOff" /\ round = retries
  BY DEF Settle, CallInv, CallShape, CountersInRange
<1>2. 0 < Attempts' /\ Rounds' = retries
  BY <1>1, Ranges DEF Settle, Attempts, Rounds
<1>3. 0 < retries
  BY DEF Settle, CallInv, CountersInRange
<1>4. CallShape'
  BY <1>1 DEF Settle, CallInv, CallShape
<1>5. CountersInRange'
  BY <1>2, <1>3 DEF Settle, CountersInRange
<1>6. RoundsAreAcks'
  BY <1>1 DEF Settle, CallInv, RoundsAreAcks, Halves
<1>7. Halves'
  BY <1>1 DEF Settle, CallInv, RoundsAreAcks, Halves, CmdTypeOK, Bytes
<1> QED
  BY <1>4, <1>5, <1>6, <1>7 DEF CallInv

LEMMA CallInvStep ==
  ASSUME CallInv, [CmdNext]_cmdVars
  PROVE  CallInv'
<1>1. CmdTypeOK'
  BY TypeStep DEF CallInv
<1>2. CASE \E r \in RetryArgs : Issue(r)
  BY <1>1, <1>2, CallInvCall
<1>3. CASE WriteSucceeds
  BY <1>1, <1>3, CallInvWriteSucceeds
<1>4. CASE WriteFails
  BY <1>1, <1>4, CallInvWriteFails
<1>5. CASE Backoff
  BY <1>1, <1>5, CallInvBackoff
<1>6. CASE Pause
  BY <1>1, <1>6, CallInvPause
<1>7. CASE Settle
  BY <1>1, <1>7, CallInvSettle
<1>8. CASE Return
  <2>1. Attempts' = Attempts /\ Rounds' = Rounds
    BY <1>8 DEF Return, Attempts, Rounds
  <2> QED
    BY <1>1, <1>8, <2>1 DEF Return, CallInv, CallShape, CountersInRange,
                            RoundsAreAcks, Halves
<1>9. CASE UNCHANGED cmdVars
  <2>1. Attempts' = Attempts /\ Rounds' = Rounds
    BY <1>9 DEF cmdVars, Attempts, Rounds
  <2> QED
    BY <1>1, <1>9, <2>1 DEF cmdVars, CallInv, CallShape, CountersInRange,
                            RoundsAreAcks, Halves
<1> QED
  BY <1>2, <1>3, <1>4, <1>5, <1>6, <1>7, <1>8, <1>9 DEF CmdNext, CommandStep

LEMMA CallInvHolds == CmdSpec => []CallInv
<1>1. CmdInit => CallInv
  BY CallInvInit
<1>2. CallInv /\ [CmdNext]_cmdVars => CallInv'
  BY CallInvStep
<1> QED
  BY <1>1, <1>2, PTL DEF CmdSpec

\* The plans of CommandPromise, spelled out.
LEMMA PlanEvents ==
  ASSUME NEW o \in Operations \ {"SoftReset"}
  PROVE  Promise!Plan[o] = <<SingleEvent[o]>>
BY DEF Operations, Promise!Plan, SingleEvent

LEMMA SoftResetPlan == Promise!Plan["SoftReset"] = <<"SoftOff", "Awake">>
BY DEF Promise!Plan

\* What CallInv says of the events and the status of a call.
LEMMA CallsAreHonest ==
  CallInv => AwakeOnlyAfterSettle /\ ErrorMeansExhausted /\ SuccessMeansAcked
<1>1. CallInv => AwakeOnlyAfterSettle
  BY DEF CallInv, CallShape, Halves, AwakeOnlyAfterSettle
<1>2. CallInv => ErrorMeansExhausted
  BY DEF CallInv, RoundsAreAcks, ErrorMeansExhausted
<1>3. ASSUME CallInv, stage = "return", status = "Success",
             NEW i \in DOMAIN Promise!Plan[op]
      PROVE  acked[Promise!Plan[op][i]] = Rounds
  <2>1. acked[event] = Rounds
    BY <1>3 DEF CallInv, RoundsAreAcks
  <2>2. CASE op = "SoftReset"
    <3>1. event = "Awake" /\ acked["SoftOff"] = retries /\ Rounds = retries
      BY <1>3, <2>2 DEF CallInv, CallShape, Halves, Rounds
    <3>2. Promise!Plan[op][i] \in {"SoftOff", "Awake"}
      BY <1>3, <2>2, SoftResetPlan
    <3> QED
      BY <2>1, <3>1, <3>2
  <2>3. CASE op # "SoftReset"
    <3>1. op \in Operations \ {"SoftReset"} /\ event = SingleEvent[op]
      BY <1>3, <2>3 DEF CallInv, CmdTypeOK, CallShape
    <3>2. Promise!Plan[op] = <<event>>
      BY <3>1, PlanEvents
    <3>3. Promise!Plan[op][i] = event
      BY <1>3, <3>2
    <3> QED
      BY <2>1, <3>3
  <2> QED
    BY <2>2, <2>3
<1>4. CallInv => SuccessMeansAcked
  BY <1>3 DEF SuccessMeansAcked
<1> QED
  BY <1>1, <1>2, <1>4

\* A soft reset never writes Awake before all its rounds of SoftOff were
\* acknowledged and the wait is over, whatever its retries.
THEOREM AwakeComesAfterSettle == CmdSpec => []AwakeOnlyAfterSettle
BY CallsAreHonest, CallInvHolds, PTL

\* An error is returned only by an exhausted write loop.
THEOREM ErrorsAreExhausted == CmdSpec => []ErrorMeansExhausted
BY CallsAreHonest, CallInvHolds, PTL

\* Success is returned only when every planned event was acknowledged, in a
\* soft reset once per round.
THEOREM SuccessesAreAcked == CmdSpec => []SuccessMeansAcked
BY CallsAreHonest, CallInvHolds, PTL

-----------------------------------------------------------------------------
\* An event hits the MCU at most once per attempt made: the finished rounds'
\* attempts, this round's failed ones, and the write just made.
DeliveriesAreAttempts ==
  /\ stage = "write" => delivered[event] <= round * Attempts + attempt
  /\ stage \in {"backoff", "pause"} =>
        delivered[event] <= round * Attempts + attempt + 1
  /\ stage \notin {"write", "backoff", "pause"} => delivered[event] <= Rounds * Attempts
  /\ \A e \in PowerEvents \ {event} : delivered[e] <= Rounds * Attempts

\* One more round of k is no more than all R of them.
LEMMA Products ==
  ASSUME NEW r \in Nat, NEW R \in Nat, NEW k \in Nat
  PROVE  /\ r * k \in Nat /\ 0 * k = 0
         /\ (r + 1) * k = r * k + k
         /\ r < R => r * k + k <= R * k
<1>1. r * k \in Nat /\ 0 * k = 0 /\ (r + 1) * k = r * k + k
  OBVIOUS
<1>2. ASSUME r < R
      PROVE  r * k + k <= R * k
  <2>1. PICK d \in Nat : R = (r + 1) + d
    <3>1. R - (r + 1) \in Nat
      BY <1>2
    <3> QED
      BY <3>1
  <2>2. R * k = (r + 1) * k + d * k
    BY <2>1
  <2>3. d * k \in Nat
    OBVIOUS
  <2> QED
    BY <1>1, <2>2, <2>3
<1> QED
  BY <1>1, <1>2

LEMMA DeliveriesStep ==
  ASSUME CallInv, CallInv', DeliveriesAreAttempts, [CmdNext]_cmdVars
  PROVE  DeliveriesAreAttempts'
<1> DEFINE A == Attempts  R == Rounds
<1>1. /\ round \in Nat /\ attempt \in Nat /\ A \in Nat /\ R \in Nat
      /\ delivered \in [PowerEvents -> Nat] /\ event \in PowerEvents
      /\ A' \in Nat /\ R' \in Nat /\ R * A \in Nat /\ round * A \in Nat
  <2>1. /\ round \in Nat /\ attempt \in Nat /\ A \in Nat /\ R \in Nat
        /\ delivered \in [PowerEvents -> Nat] /\ event \in PowerEvents
    BY Bounds DEF CallInv, CmdTypeOK, Bytes
  <2>2. A' \in Nat /\ R' \in Nat
    BY Ranges DEF CallInv, CmdTypeOK, Attempts, Rounds, Bytes
  <2> QED
    BY <2>1, <2>2, Products
<1>2. stage \in {"write", "backoff", "pause"} =>
        attempt < A /\ round * A + A <= R * A
  BY <1>1, Products DEF CallInv, CountersInRange
<1>3. ASSUME NEW r \in RetryArgs, Issue(r)
      PROVE  DeliveriesAreAttempts'
  <2>1. /\ delivered' = NoEvents /\ round' = 0 /\ attempt' = 0
        /\ event' \in PowerEvents
    BY <1>3 DEF Issue, Call, IssueAwakeCmd, IssueHardReset, IssueSoftShutdown,
                IssueHardShutdown, IssueSoftReset, PowerEvents
  <2>2. 0 * A' = 0 /\ R' * A' \in Nat
    BY <1>1, Products
  <2>3. stage' \notin {"backoff", "pause"}
    BY <1>3 DEF Issue, Call, IssueAwakeCmd, IssueHardReset, IssueSoftShutdown,
                IssueHardShutdown, IssueSoftReset
  <2> QED
    BY <2>1, <2>2, <2>3 DEF DeliveriesAreAttempts, NoEvents
<1>4. ASSUME NEW w \in WriteResult, Transfer(w)
      PROVE  /\ stage = "write" /\ event' = event /\ round' = round
             /\ attempt' = attempt /\ A' = A /\ R' = R
             /\ delivered'[event] <= delivered[event] + 1
             /\ \A e \in PowerEvents \ {event} : delivered'[e] = delivered[e]
             /\ delivered'[event] \in Nat
  BY <1>1, <1>4, TransferEffect DEF Transfer
<1>5. CASE WriteSucceeds \/ WriteFails
  <2>1. PICK w \in WriteResult : Transfer(w)
    BY <1>5 DEF WriteSucceeds, WriteFails
  <2>2. stage' \in {"backoff", "pause", "return"}
    BY <1>5 DEF WriteSucceeds, WriteFails
  <2>3. delivered'[event] <= round * A + attempt + 1
    BY <1>1, <1>4, <2>1 DEF DeliveriesAreAttempts
  <2>4. delivered'[event] <= R * A
    BY <1>1, <1>2, <1>4, <2>1, <2>3
  <2> QED
    BY <1>4, <2>1, <2>2, <2>3, <2>4 DEF DeliveriesAreAttempts
<1>6. CASE Backoff
  <2>1. /\ attempt' = attempt + 1 /\ A' = A /\ R' = R
        /\ event' = event /\ round' = round /\ delivered' = delivered
        /\ stage = "backoff" /\ stage' \in {"write", "return"}
    BY <1>6, NoWrap, Bounds
       DEF Backoff, CallInv, CountersInRange, CmdTypeOK, Bytes, Attempts, Rounds
  <2>2. delivered[event] <= round * A + attempt + 1
    BY <2>1 DEF DeliveriesAreAttempts
  <2>3. delivered[event] <= R * A
    BY <1>1, <1>2, <2>1, <2>2
  <2> QED
    BY <1>1, <2>1, <2>2, <2>3 DEF DeliveriesAreAttempts
<1>7. CASE Pause
  <2>1. /\ attempt' = 0 /\ A' = A /\ R' = R /\ R = retries
        /\ event' = event /\ delivered' = delivered
        /\ stage = "pause" /\ stage' \in {"write", "settle", "return"}
    BY <1>7 DEF Pause, CallInv, CallShape, Attempts, Rounds
  <2>2. round' = round + 1
    BY <1>7, <2>1, NoWrap
       DEF Pause, CallInv, CountersInRange, CmdTypeOK, Bytes
  <2>3. round' * A = round * A + A
    BY <1>1, <2>2, Products
  <2>4. delivered[event] <= round * A + attempt + 1
    BY <2>1 DEF DeliveriesAreAttempts
  <2>5. delivered[event] <= round' * A + 0 /\ delivered[event] <= R * A
    BY <1>1, <1>2, <2>1, <2>3, <2>4
  <2> QED
    BY <1>1, <2>1, <2>5 DEF DeliveriesAreAttempts
<1>8. CASE Settle
  <2>1. /\ event = "SoftOff" /\ event' = "Awake" /\ stage' = "write"
        /\ round' = 0 /\ attempt' = 0 /\ A' = A /\ R' = R
        /\ delivered' = delivered /\ delivered["Awake"] = 0 /\ stage = "settle"
    BY <1>8 DEF Settle, CallInv, CallShape, Halves, Attempts, Rounds
  <2>2. 0 * A = 0
    BY <1>1, Products
  <2> QED
    BY <1>1, <2>1, <2>2 DEF DeliveriesAreAttempts
<1>9. CASE Return
  <2>1. /\ A' = A /\ R' = R /\ event' = event /\ delivered' = delivered
        /\ stage = "return" /\ stage' = "ready"
    BY <1>9 DEF Return, Attempts, Rounds
  <2> QED
    BY <2>1 DEF DeliveriesAreAttempts
<1>10. CASE UNCHANGED cmdVars
  BY <1>10 DEF cmdVars, DeliveriesAreAttempts, Attempts, Rounds
<1> QED
  BY <1>3, <1>5, <1>6, <1>7, <1>8, <1>9, <1>10 DEF CmdNext, CommandStep

\* Whoever keeps that count keeps within the bound.
LEMMA AttemptsBoundDeliveries == CallInv /\ DeliveriesAreAttempts => BoundedDelivery
<1> SUFFICES ASSUME CallInv, DeliveriesAreAttempts
             PROVE  delivered[event] <= Rounds * Attempts
  BY DEF BoundedDelivery, DeliveriesAreAttempts
<1>1. /\ round \in Nat /\ attempt \in Nat /\ Attempts \in Nat /\ Rounds \in Nat
      /\ delivered[event] \in Nat
      /\ Rounds * Attempts \in Nat /\ round * Attempts \in Nat
  BY Bounds DEF CallInv, CmdTypeOK, Bytes
<1>2. CASE stage \in {"write", "backoff", "pause"}
  <2>1. attempt < Attempts /\ round * Attempts + Attempts <= Rounds * Attempts
    BY <1>1, <1>2, Products DEF CallInv, CountersInRange
  <2>2. delivered[event] <= round * Attempts + attempt + 1
    BY <1>1, <1>2 DEF DeliveriesAreAttempts
  <2> QED
    BY <1>1, <2>1, <2>2
<1> QED
  BY <1>2 DEF DeliveriesAreAttempts

\* Whatever fails or is taken without acknowledgement, an event hits the MCU
\* at most once per attempt the loops allow.
THEOREM DeliveriesAreBounded == CmdSpec => []BoundedDelivery
<1>1. CmdInit => DeliveriesAreAttempts
  BY Ranges DEF CmdInit, DeliveriesAreAttempts, NoEvents, PowerEvents, Rounds, Attempts
<1>2. CallInv /\ CallInv' /\ DeliveriesAreAttempts /\ [CmdNext]_cmdVars
        => DeliveriesAreAttempts'
  BY DeliveriesStep
<1> QED
  BY <1>1, <1>2, AttemptsBoundDeliveries, CallInvHolds, PTL DEF CmdSpec

-----------------------------------------------------------------------------
\* What the shutdown half may have slept before the wake-up half starts.
SleptBefore == IF event = "Awake" THEN retries * PerRound + 10 ELSE 0

\* The time slept is accounted for by the rounds and attempts behind the call.
SleepIsBudgeted ==
  /\ (op = "SoftReset" /\ stage \in {"write", "backoff", "pause"}) =>
        slept <= SleptBefore + round * PerRound + 2 * attempt
  /\ (op # "SoftReset" /\ stage \in {"write", "backoff"}) => slept <= 2 * attempt
  /\ stage = "settle" => slept <= retries * PerRound
  /\ stage \in {"return", "ready"} => slept <= BlockingBound

\* A soft reset's bound from its rounds: what is left of the budget covers the
\* rest of the current round, failed or not.
LEMMA RoundFits ==
  ASSUME CallInv, SleepIsBudgeted, op = "SoftReset",
         stage \in {"write", "backoff", "pause"}
  PROVE  /\ slept + 2 <= BlockingBound
         /\ stage = "pause" => slept + 1 <= SleptBefore + (round + 1) * PerRound
         /\ (round + 1) * PerRound <= retries * PerRound
         /\ retries * PerRound \in Nat
<1>1. /\ round \in Nat /\ attempt \in Nat /\ retries \in Nat /\ slept \in Nat
      /\ PerRound \in Nat /\ DefaultRetries \in Nat
      /\ attempt < DefaultRetries /\ round < retries
      /\ event \in {"SoftOff", "Awake"}
  BY Ranges DEF CallInv, CmdTypeOK, CallShape, CountersInRange, Attempts, Rounds,
                Bytes, PerRound
<1>2. /\ round * PerRound \in Nat /\ retries * PerRound \in Nat
      /\ (round + 1) * PerRound = round * PerRound + PerRound
      /\ round * PerRound + PerRound <= retries * PerRound
  BY <1>1, Products
<1>3. 2 * attempt + 2 <= PerRound + 1
  BY <1>1 DEF PerRound
<1>4. slept <= SleptBefore + round * PerRound + 2 * attempt
  BY DEF SleepIsBudgeted
<1>5. BlockingBound = 2 * (retries * PerRound) + 11
  BY DEF BlockingBound
<1>6. SleptBefore \in Nat /\ SleptBefore <= retries * PerRound + 10
  BY <1>1, <1>2 DEF SleptBefore
<1> QED
  BY <1>1, <1>2, <1>3, <1>4, <1>5, <1>6

LEMMA SleepStep ==
  ASSUME CallInv, CallInv', SleepIsBudgeted, [CmdNext]_cmdVars
  PROVE  SleepIsBudgeted'
<1>1. /\ round \in Nat /\ attempt \in Nat /\ retries \in Nat /\ slept \in Nat
      /\ PerRound \in Nat /\ DefaultRetries \in Nat /\ PerRound' = PerRound
  BY Ranges DEF CallInv, CmdTypeOK, Bytes, PerRound
<1>2. /\ retries * PerRound \in Nat /\ round * PerRound \in Nat /\ 0 * PerRound = 0
      /\ retries' \in Nat /\ retries' * PerRound \in Nat
  <2>1. retries' \in Nat
    BY DEF CallInv, CmdTypeOK, Bytes
  <2> QED
    BY <1>1, <2>1, Products
<1>3. ASSUME NEW r \in RetryArgs, Issue(r)
      PROVE  SleepIsBudgeted'
  <2>1. /\ slept' = 0 /\ round' = 0 /\ attempt' = 0
        /\ stage' \in {"return", "write"}
    BY <1>3 DEF Issue, Call, IssueAwakeCmd, IssueHardReset, IssueSoftShutdown,
                IssueHardShutdown, IssueSoftReset
  <2>2. SleptBefore' \in Nat
    <3>1. SleptBefore' = IF event' = "Awake" THEN retries' * PerRound + 10 ELSE 0
      BY <1>1 DEF SleptBefore
    <3> QED
      BY <1>2, <3>1
  <2>3. BlockingBound' \in Nat
    <3>1. /\ op' = "SoftReset" => BlockingBound' = 2 * (retries' * PerRound') + 11
          /\ op' # "SoftReset" => BlockingBound' = 2 * retries'
      BY DEF BlockingBound
    <3>2. 2 * (retries' * PerRound') + 11 \in Nat /\ 2 * retries' \in Nat
      <4>1. retries' * PerRound' \in Nat
        BY <1>1, <1>2
      <4>2. \A x \in Nat : 2 * x + 11 \in Nat /\ 2 * x \in Nat
        OBVIOUS
      <4> QED
        BY <1>2, <4>1, <4>2, Zenon
    <3>3. CASE op' = "SoftReset"
      BY <3>1, <3>2, <3>3, Zenon
    <3>4. CASE op' # "SoftReset"
      BY <3>1, <3>2, <3>4, Zenon
    <3> QED
      BY <3>3, <3>4, Zenon
  <2>4. round' * PerRound' = 0
    BY <1>1, <1>2, <2>1
  <2> QED
    BY <2>1, <2>2, <2>3, <2>4 DEF SleepIsBudgeted
<1>4. CASE WriteSucceeds \/ WriteFails
  <2>1. PICK w \in WriteResult : Transfer(w)
    BY <1>4 DEF WriteSucceeds, WriteFails
  <2>2. /\ stage = "write" /\ UNCHANGED <<op, retries, event, round, attempt, slept>>
    BY <2>1, TransferEffect
  <2>3. stage' \in {"backoff", "pause"} \/ (op # "SoftReset" /\ stage' = "return")
    BY <1>4 DEF WriteSucceeds, WriteFails
  <2>4. SleptBefore' = SleptBefore /\ BlockingBound' = BlockingBound
    BY <2>2 DEF SleptBefore, BlockingBound
  <2>5. op # "SoftReset" => slept <= BlockingBound
    <3>1. op # "SoftReset" => attempt < retries
      BY <2>2 DEF CallInv, CountersInRange, Attempts
    <3> QED
      BY <1>1, <2>2, <3>1 DEF SleepIsBudgeted, BlockingBound
  <2>6. op # "SoftReset" => stage' # "pause"
    BY <2>2 DEF CallInv, CallShape
  <2> QED
    BY <1>1, <2>2, <2>3, <2>4, <2>5, <2>6 DEF SleepIsBudgeted
<1>5. CASE Backoff
  <2>1. /\ slept' = slept + 2 /\ stage = "backoff" /\ stage' \in {"write", "return"}
        /\ UNCHANGED <<op, retries, event, round>>
    BY <1>5 DEF Backoff
  <2>2. attempt' = attempt + 1 /\ attempt < Attempts
    BY <1>5, NoWrap, Bounds DEF Backoff, CallInv, CountersInRange, CmdTypeOK, Bytes
  <2>3. SleptBefore' = SleptBefore /\ BlockingBound' = BlockingBound
    BY <2>1 DEF SleptBefore, BlockingBound
  <2>4. CASE op = "SoftReset"
    <3>1. slept + 2 <= BlockingBound
      BY <2>1, <2>4, RoundFits
    <3>2. slept <= SleptBefore + round * PerRound + 2 * attempt
      BY <2>1, <2>4 DEF SleepIsBudgeted
    <3>3. SleptBefore \in Nat
      BY <1>1, <1>2 DEF SleptBefore
    <3>4. slept' <= SleptBefore + round * PerRound + 2 * attempt'
      BY <1>1, <1>2, <2>1, <2>2, <3>2, <3>3
    <3> QED
      BY <1>1, <2>1, <2>3, <2>4, <3>1, <3>4 DEF SleepIsBudgeted
  <2>5. CASE op # "SoftReset"
    <3>1. slept' <= 2 * attempt' /\ attempt' <= retries
      BY <1>1, <2>1, <2>2, <2>5 DEF SleepIsBudgeted, Attempts
    <3>2. slept' <= BlockingBound'
      BY <1>1, <2>1, <2>2, <2>3, <2>5, <3>1 DEF BlockingBound
    <3> QED
      BY <2>1, <2>5, <3>1, <3>2 DEF SleepIsBudgeted
  <2> QED
    BY <2>4, <2>5
<1>6. CASE Pause
  <2>1. /\ op = "SoftReset" /\ stage = "pause" /\ slept' = slept + 1 /\ attempt' = 0
        /\ stage' \in {"write", "settle", "return"}
        /\ stage' = "settle" => event = "SoftOff"
        /\ UNCHANGED <<op, retries, event>>
    BY <1>6 DEF Pause, CallInv, CallShape
  <2>2. round' = round + 1
    BY <1>6, <2>1, NoWrap
       DEF Pause, CallInv, CountersInRange, CmdTypeOK, Bytes, Rounds
  <2>3. /\ slept' <= SleptBefore + round' * PerRound
        /\ round' * PerRound <= retries * PerRound
        /\ slept' <= BlockingBound
    BY <1>1, <2>1, <2>2, RoundFits DEF BlockingBound
  <2>4. SleptBefore' = SleptBefore /\ BlockingBound' = BlockingBound
    BY <2>1 DEF SleptBefore, BlockingBound
  <2>5. CASE stage' = "write"
    <3>1. slept' <= SleptBefore' + round' * PerRound' + 2 * attempt'
      <4>1. SleptBefore \in Nat /\ round' * PerRound \in Nat
        BY <1>1, <1>2, <2>2, Products DEF SleptBefore
      <4> QED
        BY <1>1, <2>1, <2>3, <2>4, <4>1
    <3> QED
      BY <2>1, <2>5, <3>1 DEF SleepIsBudgeted
  <2>6. CASE stage' = "settle"
    <3>1. SleptBefore = 0
      BY <2>1, <2>6 DEF SleptBefore
    <3>2. round' * PerRound \in Nat
      BY <1>1, <2>2, Products
    <3> QED
      BY <1>1, <1>2, <2>1, <2>3, <2>6, <3>1, <3>2 DEF SleepIsBudgeted
  <2>7. CASE stage' = "return"
    BY <2>1, <2>3, <2>4, <2>7 DEF SleepIsBudgeted
  <2> QED
    BY <2>1, <2>5, <2>6, <2>7
<1>7. CASE Settle
  <2>1. /\ op = "SoftReset" /\ op' = op /\ stage' = "write" /\ slept' = slept + 10
        /\ slept <= retries * PerRound
        /\ event' = "Awake" /\ round' = 0 /\ attempt' = 0 /\ retries' = retries
    BY <1>7 DEF Settle, SleepIsBudgeted, CallInv, CallShape
  <2>2. SleptBefore' = retries * PerRound + 10
    BY <1>1, <2>1 DEF SleptBefore
  <2> QED
    BY <1>1, <1>2, <2>1, <2>2 DEF SleepIsBudgeted
<1>8. CASE Return
  BY <1>8 DEF Return, SleepIsBudgeted, BlockingBound
<1>9. CASE UNCHANGED cmdVars
  BY <1>9 DEF cmdVars, SleepIsBudgeted, BlockingBound, SleptBefore, PerRound
<1> QED
  BY <1>3, <1>4, <1>5, <1>6, <1>7, <1>8, <1>9 DEF CmdNext, CommandStep

\* Whoever keeps that budget keeps within the bound.
LEMMA BudgetBoundsBlocking == CallInv /\ SleepIsBudgeted => BoundedBlocking
<1> SUFFICES ASSUME CallInv, SleepIsBudgeted
             PROVE  slept <= BlockingBound
  BY DEF BoundedBlocking
<1>1. /\ slept \in Nat /\ retries \in Nat /\ attempt \in Nat /\ PerRound \in Nat
      /\ stage \in Stages
  BY Ranges DEF CallInv, CmdTypeOK, Bytes, PerRound
<1>2. retries * PerRound \in Nat
  BY <1>1, Products
<1>3. op = "SoftReset" => BlockingBound = 2 * (retries * PerRound) + 11
  BY DEF BlockingBound
<1>4. CASE stage \in {"write", "backoff", "pause"} /\ op = "SoftReset"
  <2>1. slept + 2 <= BlockingBound
    BY <1>4, RoundFits
  <2> QED
    BY <1>1, <1>2, <1>3, <1>4, <2>1
<1>5. CASE stage \in {"write", "backoff", "pause"} /\ op # "SoftReset"
  <2>1. stage # "pause" /\ attempt < retries
    BY <1>5 DEF CallInv, CallShape, CountersInRange, Attempts
  <2> QED
    BY <1>1, <1>5, <2>1 DEF SleepIsBudgeted, BlockingBound
<1>6. CASE stage = "settle"
  <2>1. op = "SoftReset" /\ slept <= retries * PerRound
    BY <1>6 DEF CallInv, CallShape, SleepIsBudgeted
  <2> QED
    BY <1>1, <1>2, <1>3, <2>1
<1>7. CASE stage \in {"return", "ready"}
  BY <1>7 DEF SleepIsBudgeted
<1> QED
  BY <1>1, <1>4, <1>5, <1>6, <1>7 DEF Stages

\* The loop is blocked for a bounded time, whatever the bus does.
THEOREM BlockingIsBounded == CmdSpec => []BoundedBlocking
<1>1. CmdInit => SleepIsBudgeted
  BY DEF CmdInit, SleepIsBudgeted, BlockingBound
<1>2. CallInv /\ CallInv' /\ SleepIsBudgeted /\ [CmdNext]_cmdVars => SleepIsBudgeted'
  BY SleepStep
<1> QED
  BY <1>1, <1>2, BudgetBoundsBlocking, CallInvHolds, PTL DEF CmdSpec

-----------------------------------------------------------------------------
\* The last event on the wire is where the call's loops say it is.
WireFollowsPlan ==
  /\ stage \in {"write", "backoff"} =>
        \/ last = event
        \/ last = "none" /\ ~(op = "SoftReset" /\ event = "Awake")
        \/ last = "SoftOff" /\ op = "SoftReset" /\ event = "Awake"
  /\ stage \in {"pause", "settle"} => last = event

LEMMA WireStep ==
  ASSUME CallInv, CmdTypeOK', WireFollowsPlan, [CmdNext]_cmdVars
  PROVE  WireFollowsPlan'
<1>1. ASSUME NEW r \in RetryArgs, Issue(r)
      PROVE  WireFollowsPlan'
  BY <1>1 DEF WireFollowsPlan, Issue, Call, IssueAwakeCmd, IssueHardReset,
              IssueSoftShutdown, IssueHardShutdown, IssueSoftReset
<1>2. CASE WriteSucceeds \/ WriteFails
  <2>1. PICK w \in WriteResult : Transfer(w)
    BY <1>2 DEF WriteSucceeds, WriteFails
  <2>2. WriteSucceeds => last' = event
    <3>1. ASSUME NEW v \in WriteResult, v.rc >= 0, Transfer(v)
          PROVE  last' = event
      <4>1. v.rc = 0 /\ v.reached
        BY <3>1 DEF Transfer, SmbusWriteByte, WriteResult
      <4> QED
        BY <3>1, <4>1 DEF Transfer
    <3> QED
      BY <3>1 DEF WriteSucceeds
  <2>3. last' \in {last, event} /\ stage = "write" /\ op' = op /\ event' = event
    BY <2>1 DEF Transfer
  <2> QED
    BY <1>2, <2>2, <2>3 DEF WireFollowsPlan, WriteSucceeds, WriteFails
<1>3. CASE Backoff
  BY <1>3 DEF Backoff, WireFollowsPlan
<1>4. CASE Pause
  BY <1>4 DEF Pause, WireFollowsPlan
<1>5. CASE Settle
  BY <1>5 DEF Settle, WireFollowsPlan, CallInv, CallShape
<1>6. CASE Return
  BY <1>6 DEF Return, WireFollowsPlan, CallInv, CmdTypeOK
<1>7. CASE UNCHANGED cmdVars
  BY <1>7 DEF cmdVars, WireFollowsPlan
<1> QED
  BY <1>1, <1>2, <1>3, <1>4, <1>5, <1>6, <1>7 DEF CmdNext, CommandStep

\* Which events CommandPromise lets follow which.
LEMMA SingleMayFollow ==
  ASSUME NEW o \in Operations \ {"SoftReset"}, NEW prev \in {"none", SingleEvent[o]}
  PROVE  SingleEvent[o] \in Promise!MayFollow(o, prev)
         /\ Promise!FinalEvent(o) = SingleEvent[o]
<1>1. Promise!Plan[o] = <<SingleEvent[o]>>
  BY PlanEvents
<1>2. Len(Promise!Plan[o]) = 1 /\ Promise!Plan[o][1] = SingleEvent[o]
  BY <1>1
<1> QED
  BY <1>2 DEF Promise!MayFollow, Promise!FinalEvent, Promise!None

LEMMA SoftResetMayFollow ==
  /\ "SoftOff" \in Promise!MayFollow("SoftReset", "none")
  /\ "SoftOff" \in Promise!MayFollow("SoftReset", "SoftOff")
  /\ "Awake" \in Promise!MayFollow("SoftReset", "SoftOff")
  /\ "Awake" \in Promise!MayFollow("SoftReset", "Awake")
  /\ Promise!FinalEvent("SoftReset") = "Awake"
<1>1. /\ Len(Promise!Plan["SoftReset"]) = 2
      /\ Promise!Plan["SoftReset"][1] = "SoftOff"
      /\ Promise!Plan["SoftReset"][2] = "Awake"
  BY SoftResetPlan
<1> QED
  BY <1>1 DEF Promise!MayFollow, Promise!FinalEvent, Promise!None

\* A write that reaches the MCU delivers an event the promise allows next.
LEMMA WriteMayFollow ==
  ASSUME CallInv, WireFollowsPlan, stage = "write"
  PROVE  event \in Promise!MayFollow(op, last)
<1>1. CASE op = "SoftReset"
  BY <1>1, SoftResetMayFollow DEF CallInv, CallShape, WireFollowsPlan
<1>2. CASE op # "SoftReset"
  <2>1. op \in Operations \ {"SoftReset"} /\ event = SingleEvent[op]
    BY <1>2 DEF CallInv, CmdTypeOK, CallShape
  <2>2. last \in {"none", event}
    BY <1>2 DEF WireFollowsPlan
  <2> QED
    BY <2>1, <2>2, SingleMayFollow
<1> QED
  BY <1>1, <1>2

\* Every step of a call is a step of the promise, or none.
LEMMA PromiseStep ==
  ASSUME CallInv, CallInv', WireFollowsPlan, [CmdNext]_cmdVars
  PROVE  [Promise!Next]_(Promise!promiseVars)
<1> DEFINE job == IF stage = "ready" THEN "none" ELSE op
           result == IF stage = "return" THEN status ELSE "none"
<1>1. /\ op \in Operations /\ op' \in Operations /\ op # "none" /\ op' # "none"
      /\ status # "none" /\ status' # "none"
  BY DEF CallInv, CmdTypeOK, Operations, OperationStatus
<1>2. ASSUME NEW r \in RetryArgs, Issue(r)
      PROVE  Promise!Next
  <2>1. /\ stage = "ready" /\ last' = "none"
        /\ \/ stage' = "return" /\ status' = "InvalidRetries"
           \/ stage' = "write"
    BY <1>2 DEF Issue, Call, IssueAwakeCmd, IssueHardReset, IssueSoftShutdown,
                IssueHardShutdown, IssueSoftReset
  <2>2. Promise!Accept(op')
    BY <2>1 DEF Promise!Accept, Promise!None
  <2>3. op' \in Promise!Operations
    BY <1>1 DEF Operations, Promise!Operations, Promise!Plan
  <2> QED
    BY <2>2, <2>3 DEF Promise!Next
<1>3. CASE WriteSucceeds
  <2>1. PICK w \in WriteResult : w.rc >= 0 /\ Transfer(w)
    BY <1>3 DEF WriteSucceeds
  <2>2. stage = "write" /\ last' = event /\ op' = op
    <3>1. w.rc = 0 /\ w.reached
      BY <2>1 DEF Transfer, SmbusWriteByte, WriteResult
    <3> QED
      BY <2>1, <3>1 DEF Transfer
  <2>3. event \in Promise!MayFollow(op, last)
    BY <2>2, WriteMayFollow
  <2>4. \/ stage' = "pause"
        \/ op # "SoftReset" /\ stage' = "return" /\ status' = "Success"
    BY <1>3 DEF WriteSucceeds
  <2>5. op # "SoftReset" => event = Promise!FinalEvent(op)
    <3>1. op # "SoftReset" => event = SingleEvent[op]
      BY DEF CallInv, CallShape
    <3> QED
      BY <1>1, <3>1, SingleMayFollow
  <2>6. Promise!Deliver(event)
    BY <1>1, <2>2, <2>3, <2>4, <2>5 DEF Promise!Deliver, Promise!None
  <2> QED
    BY <1>1, <2>2, <2>3, <2>6 DEF Promise!Next, Promise!None
<1>4. CASE WriteFails
  <2>1. PICK w \in WriteResult : Transfer(w)
    BY <1>4 DEF WriteFails
  <2>2. stage = "write" /\ last' \in {last, event} /\ op' = op /\ stage' = "backoff"
    BY <1>4, <2>1 DEF Transfer, WriteFails
  <2>3. event \in Promise!MayFollow(op, last)
    BY <2>2, WriteMayFollow
  <2>4. CASE last' = event
    <3>1. Promise!Deliver(event)
      BY <1>1, <2>2, <2>3, <2>4 DEF Promise!Deliver, Promise!None
    <3> QED
      BY <1>1, <2>2, <2>3, <3>1 DEF Promise!Next, Promise!None
  <2>5. CASE last' = last
    BY <2>2, <2>5 DEF Promise!promiseVars
  <2> QED
    BY <2>2, <2>4, <2>5
<1>5. CASE Backoff
  <2>1. /\ stage = "backoff" /\ op' = op /\ last' = last
        /\ \/ stage' = "write"
           \/ stage' = "return" /\ status' = "ProtocolError"
    BY <1>5 DEF Backoff
  <2>2. CASE stage' = "write"
    BY <2>1, <2>2 DEF Promise!promiseVars
  <2>3. CASE stage' = "return"
    <3>1. Promise!Conclude("ProtocolError")
      BY <1>1, <2>1, <2>3 DEF Promise!Conclude, Promise!None
    <3> QED
      BY <3>1 DEF Promise!Next
  <2> QED
    BY <2>1, <2>2, <2>3
<1>6. CASE Pause
  <2>1. /\ stage = "pause" /\ op' = op /\ last' = last
        /\ \/ stage' \in {"write", "settle"}
           \/ event = "Awake" /\ stage' = "return" /\ status' = "Success"
    BY <1>6 DEF Pause
  <2>2. CASE stage' \in {"write", "settle"}
    BY <2>1, <2>2 DEF Promise!promiseVars
  <2>3. CASE stage' = "return"
    <3>1. last = Promise!FinalEvent(op)
      BY <2>1, <2>3, SoftResetMayFollow DEF WireFollowsPlan, CallInv, CallShape
    <3>2. Promise!Conclude("Success")
      BY <1>1, <2>1, <2>3, <3>1 DEF Promise!Conclude, Promise!None
    <3> QED
      BY <3>2 DEF Promise!Next
  <2> QED
    BY <2>1, <2>2, <2>3
<1>7. CASE Settle
  BY <1>7 DEF Settle, Promise!promiseVars
<1>8. CASE Return
  <2>1. stage = "return" /\ stage' = "ready" /\ UNCHANGED <<op, last, status>>
    BY <1>8 DEF Return
  <2>2. Promise!HandOver
    BY <1>1, <2>1 DEF Promise!HandOver, Promise!None
  <2> QED
    BY <2>2 DEF Promise!Next
<1>9. CASE UNCHANGED cmdVars
  BY <1>9 DEF cmdVars, Promise!promiseVars
<1> QED
  BY <1>2, <1>3, <1>4, <1>5, <1>6, <1>7, <1>8, <1>9 DEF CmdNext, CommandStep

\* The calls implement CommandPromise: only planned events, in the plan's
\* order, and Success only when the last of them was delivered.
THEOREM CallsKeepPromise == CmdSpec => PromiseKept
<1>1. CmdInit => WireFollowsPlan /\ Promise!Init
  BY DEF CmdInit, WireFollowsPlan, Promise!Init, Promise!None
<1>2. CallInv /\ CallInv' /\ WireFollowsPlan /\ [CmdNext]_cmdVars => WireFollowsPlan'
  BY WireStep DEF CallInv
<1>3. CallInv /\ CallInv' /\ WireFollowsPlan /\ [CmdNext]_cmdVars
        => [Promise!Next]_(Promise!promiseVars)
  BY PromiseStep
<1> QED
  BY <1>1, <1>2, <1>3, CallInvHolds, PTL DEF CmdSpec, PromiseKept, Promise!Spec

-----------------------------------------------------------------------------
(* The calls wind down.                                                    *)

\* What follows the round a call is in.
Later == RoundsAfter * RoundSteps + (IF ShuttingDown THEN 2 ELSE 1)

\* The steps left, stage by stage.
StageSteps ==
  /\ stage = "ready" => StepsLeft = 0
  /\ stage = "return" => StepsLeft = 1
  /\ stage = "write" => StepsLeft = Later + 2 * (Attempts - attempt) + 2
  /\ stage = "backoff" => StepsLeft = Later + 2 * (Attempts - attempt) + 1
  /\ stage = "pause" => StepsLeft = Later + 1
  /\ stage = "settle" => StepsLeft = Rounds * RoundSteps + 2

\* The numbers the count of steps is made of.
StepNumbersOK ==
  /\ Attempts \in Nat /\ Rounds \in Nat /\ attempt \in Nat /\ round \in Nat
  /\ RoundSteps \in Nat /\ Rounds * RoundSteps \in Nat
  /\ stage \in {"write", "backoff", "pause"} =>
       /\ attempt < Attempts /\ RoundsAfter \in Nat
       /\ RoundsAfter * RoundSteps \in Nat
       /\ Later \in Nat \ {0}

StepsLeftOK ==
  /\ StepsLeft \in Nat
  /\ stage # "ready" => StepsLeft > 0
  /\ stage \in {"write", "backoff"} => StepsLeft > 3
  /\ stage = "pause" => StepsLeft > 1

LEMMA StepsPerStage == StageSteps
BY DEF StageSteps, StepsLeft, Later

LEMMA StepNumbers == CallInv => StepNumbersOK
<1> SUFFICES ASSUME CallInv
             PROVE  StepNumbersOK
  OBVIOUS
<1>1. /\ Attempts \in Nat /\ Rounds \in Nat /\ attempt \in Nat /\ round \in Nat
  BY Ranges DEF CallInv, CmdTypeOK, Bytes, Attempts, Rounds
<1>2. RoundSteps \in Nat
  BY <1>1 DEF RoundSteps
<1>3. Rounds * RoundSteps \in Nat
  BY <1>1, <1>2, Products
<1>4. ASSUME stage \in {"write", "backoff", "pause"}
      PROVE  /\ attempt < Attempts /\ RoundsAfter \in Nat
             /\ RoundsAfter * RoundSteps \in Nat
             /\ Later \in Nat \ {0}
  <2>1. attempt < Attempts /\ round < Rounds
    BY <1>4 DEF CallInv, CountersInRange
  <2>2. RoundsAfter \in Nat
    BY <1>1, <2>1 DEF RoundsAfter
  <2>3. RoundsAfter * RoundSteps \in Nat
    BY <1>2, <2>2, Products
  <2> QED
    BY <2>1, <2>2, <2>3 DEF Later
<1> QED
  BY <1>1, <1>2, <1>3, <1>4 DEF StepNumbersOK

LEMMA StepsLeftType == CallInv => StepsLeftOK
<1> SUFFICES ASSUME CallInv
             PROVE  StepsLeftOK
  OBVIOUS
<1>1. StepNumbersOK /\ StageSteps
  BY StepNumbers, StepsPerStage
<1>2. CASE stage \in {"write", "backoff", "pause"}
  BY <1>1, <1>2 DEF StepNumbersOK, StageSteps, StepsLeftOK
<1>3. CASE stage \in {"ready", "return", "settle"}
  BY <1>1, <1>3 DEF StepNumbersOK, StageSteps, StepsLeftOK
<1>4. stage \in Stages
  BY DEF CallInv, CmdTypeOK
<1> QED
  BY <1>2, <1>3, <1>4 DEF Stages

\* These hold before a step, and after it.
LEMMA CountsAroundStep ==
  ASSUME CallInv, CallInv'
  PROVE  /\ StageSteps /\ StepNumbersOK /\ StepsLeftOK
         /\ StageSteps' /\ StepNumbersOK' /\ StepsLeftOK'
<1>1. StageSteps /\ StepNumbersOK /\ StepsLeftOK
  BY StepsPerStage, StepNumbers, StepsLeftType
<1>2. StageSteps'
  BY StepsPerStage, PTL
<1>3. CallInv' => StepNumbersOK'
  BY StepNumbers, PTL
<1>4. CallInv' => StepsLeftOK'
  BY StepsLeftType, PTL
<1> QED
  BY <1>1, <1>2, <1>3, <1>4

\* Within a round: an attempt takes its write and its backoff.
LEMMA AttemptsWindDown ==
  ASSUME CallInv, CallInv', WriteSucceeds \/ WriteFails \/ Backoff
  PROVE  StepsLeft' < StepsLeft
<1>0. /\ StageSteps /\ StepNumbersOK /\ StepsLeftOK
      /\ StageSteps' /\ StepNumbersOK' /\ StepsLeftOK'
  BY CountsAroundStep
<1>1. /\ UNCHANGED <<op, retries, event, round>>
      /\ stage \in {"write", "backoff"}
  BY DEF WriteSucceeds, WriteFails, Backoff, Transfer
<1>2. Later' = Later /\ Attempts' = Attempts
  BY <1>1 DEF Later, RoundsAfter, RoundSteps, Rounds, Attempts, ShuttingDown
<1>3. Later \in Nat \ {0} /\ StepsLeft > 3 /\ Attempts \in Nat /\ attempt \in Nat
      /\ attempt < Attempts
  BY <1>0, <1>1 DEF StepsLeftOK, StepNumbersOK
<1>4. CASE stage' = "return"
  BY <1>0, <1>3, <1>4 DEF StepsLeftOK, StageSteps
<1>5. CASE WriteSucceeds \/ WriteFails
  <2>1. stage = "write" /\ stage' \in {"backoff", "pause", "return"} /\ attempt' = attempt
    BY <1>5 DEF WriteSucceeds, WriteFails, Transfer
  <2>2. StepsLeft = Later + 2 * (Attempts - attempt) + 2
    BY <1>0, <2>1 DEF StageSteps
  <2>3. CASE stage' = "backoff"
    <3>1. StepsLeft' = Later + 2 * (Attempts - attempt) + 1
      BY <1>0, <1>2, <2>1, <2>3 DEF StageSteps
    <3> QED
      BY <1>3, <2>2, <3>1
  <2>4. CASE stage' = "pause"
    <3>1. StepsLeft' = Later + 1
      BY <1>0, <1>2, <2>4 DEF StageSteps
    <3> QED
      BY <1>3, <2>2, <3>1
  <2> QED
    BY <1>4, <2>1, <2>3, <2>4
<1>6. CASE Backoff
  <2>1. stage = "backoff" /\ stage' \in {"write", "return"}
    BY <1>6 DEF Backoff
  <2>2. attempt' = attempt + 1
    BY <1>3, <1>6, NoWrap, Bounds DEF Backoff, CallInv, CmdTypeOK, Bytes
  <2>3. StepsLeft = Later + 2 * (Attempts - attempt) + 1
    BY <1>0, <2>1 DEF StageSteps
  <2>4. CASE stage' = "write"
    <3>1. StepsLeft' = Later + 2 * (Attempts - attempt') + 2
      BY <1>0, <1>2, <2>4 DEF StageSteps
    <3> QED
      BY <1>3, <2>2, <2>3, <3>1
  <2> QED
    BY <1>4, <2>1, <2>4
<1> QED
  BY <1>5, <1>6

\* Between rounds: a round that went well leaves one less, and the wake-up
\* half what the shutdown half left to it.
LEMMA RoundsWindDown ==
  ASSUME CallInv, CallInv', Pause \/ Settle
  PROVE  StepsLeft' < StepsLeft
<1>0. /\ StageSteps /\ StepNumbersOK /\ StepsLeftOK
      /\ StageSteps' /\ StepNumbersOK' /\ StepsLeftOK'
  BY CountsAroundStep
<1>1. op = "SoftReset" /\ op' = op /\ retries' = retries
  BY DEF Pause, Settle, CallInv, CallShape
<1>2. /\ Attempts' = Attempts /\ Rounds' = Rounds /\ RoundSteps' = RoundSteps
      /\ RoundSteps = 2 * Attempts + 2
  BY <1>1 DEF Attempts, Rounds, RoundSteps
<1>3. /\ Attempts \in Nat /\ Rounds \in Nat /\ RoundSteps \in Nat
      /\ Rounds * RoundSteps \in Nat /\ attempt' = 0
  BY <1>0 DEF Pause, Settle, StepNumbersOK
<1>4. CASE Pause
  <2>1. /\ stage = "pause" /\ event' = event /\ event \in {"SoftOff", "Awake"}
        /\ stage' = "settle" => event = "SoftOff"
        /\ stage' \in {"write", "settle", "return"}
    BY <1>1, <1>4 DEF Pause, CallInv, CallShape
  <2>2. round' = round + 1 /\ round \in Nat /\ round < Rounds
    BY <1>0, <1>1, <1>4, NoWrap
       DEF Pause, CallInv, CountersInRange, CmdTypeOK, Bytes, Rounds, StepNumbersOK
  <2>3. StepsLeft = Later + 1 /\ Later \in Nat \ {0} /\ StepsLeft > 1
        /\ RoundsAfter \in Nat /\ RoundsAfter * RoundSteps \in Nat
    BY <1>0, <2>1 DEF StageSteps, StepsLeftOK, StepNumbersOK
  <2>4. CASE stage' = "write"
    <3>1. RoundsAfter' = RoundsAfter - 1 /\ RoundsAfter' \in Nat
          /\ ShuttingDown' = ShuttingDown
      <4>1. ShuttingDown' <=> ShuttingDown
        BY <1>1, <2>1 DEF ShuttingDown
      <4>2. ShuttingDown' = ShuttingDown
        BY <1>1, <2>1 DEF ShuttingDown
      <4>3. RoundsAfter' \in Nat
        BY <1>0, <2>4 DEF StepNumbersOK
      <4>4. RoundsAfter' = RoundsAfter - 1
        BY <1>2, <1>3, <2>2, <4>2 DEF RoundsAfter
      <4> QED
        BY <4>2, <4>3, <4>4
    <3>2. RoundsAfter * RoundSteps = RoundsAfter' * RoundSteps + RoundSteps
          /\ RoundsAfter' * RoundSteps \in Nat
      <4>1. (RoundsAfter' + 1) * RoundSteps = RoundsAfter' * RoundSteps + RoundSteps
            /\ RoundsAfter' * RoundSteps \in Nat
        BY <1>3, <3>1, Products
      <4>2. RoundsAfter' + 1 = RoundsAfter
        BY <2>3, <3>1
      <4> QED
        BY <4>1, <4>2
    <3>3. Later = Later' + RoundSteps /\ Later' \in Nat
      BY <1>2, <1>3, <3>1, <3>2 DEF Later
    <3>4. StepsLeft' = Later' + 2 * (Attempts - 0) + 2
      BY <1>0, <1>2, <1>3, <2>4 DEF StageSteps
    <3>5. StepsLeft = Later' + (2 * Attempts + 2) + 1 /\ Attempts \in Nat
      BY <1>2, <1>3, <2>3, <3>3
    <3>6. \A n, m \in Nat : n + 2 * (m - 0) + 2 < n + (2 * m + 2) + 1
      OBVIOUS
    <3> QED
      BY <3>3, <3>4, <3>5, <3>6, Zenon
  <2>5. CASE stage' = "settle"
    <3>1. ShuttingDown
      BY <1>1, <2>1, <2>5 DEF ShuttingDown
    <3>2. StepsLeft' = Rounds * RoundSteps + 2
      BY <1>0, <1>2, <2>5 DEF StageSteps
    <3>3. RoundsAfter = (Rounds - 1 - round) + Rounds
      BY <3>1 DEF RoundsAfter
    <3>4. RoundsAfter * RoundSteps >= Rounds * RoundSteps
      <4>1. CASE RoundsAfter = Rounds
        BY <1>3, <4>1
      <4>2. CASE Rounds < RoundsAfter
        BY <1>3, <2>3, <4>2, Products
      <4> QED
        BY <1>3, <2>2, <3>3, <4>1, <4>2
    <3>5. Later = RoundsAfter * RoundSteps + 2
      BY <3>1 DEF Later
    <3> QED
      BY <1>3, <2>3, <3>2, <3>4, <3>5
  <2>6. CASE stage' = "return"
    BY <1>0, <2>3, <2>6 DEF StageSteps
  <2> QED
    BY <2>1, <2>4, <2>5, <2>6
<1>5. CASE Settle
  <2>1. stage = "settle" /\ stage' = "write" /\ event' = "Awake" /\ round' = 0
    BY <1>5 DEF Settle
  <2>2. StepsLeft = Rounds * RoundSteps + 2
    BY <1>0, <2>1 DEF StageSteps
  <2>3. ~ShuttingDown'
    BY <2>1 DEF ShuttingDown
  <2>4. RoundsAfter' = Rounds - 1 /\ RoundsAfter' \in Nat
    BY <1>0, <1>2, <1>3, <2>1, <2>3 DEF RoundsAfter, StepNumbersOK
  <2>5. Rounds * RoundSteps = RoundsAfter' * RoundSteps + RoundSteps
        /\ RoundsAfter' * RoundSteps \in Nat
    <3>1. (RoundsAfter' + 1) * RoundSteps = RoundsAfter' * RoundSteps + RoundSteps
          /\ RoundsAfter' * RoundSteps \in Nat
      BY <1>3, <2>4, Products
    <3>2. RoundsAfter' + 1 = Rounds
      BY <1>3, <2>4
    <3> QED
      BY <3>1, <3>2
  <2>6. Later' = RoundsAfter' * RoundSteps + 1
    BY <1>2, <2>3 DEF Later
  <2>7. StepsLeft' = Later' + 2 * (Attempts - 0) + 2
    BY <1>0, <1>2, <1>3, <2>1 DEF StageSteps
  <2> QED
    BY <1>2, <1>3, <2>2, <2>5, <2>6, <2>7
<1> QED
  BY <1>4, <1>5

LEMMA StepsWindDown ==
  ASSUME CallInv, CallInv'
  PROVE  /\ StepsLeft' \in Nat
         /\ CommandStep \/ Return => StepsLeft' < StepsLeft
<1>1. StageSteps /\ StageSteps' /\ StepsLeftOK'
  BY CountsAroundStep
<1>2. StepsLeft' \in Nat
  BY <1>1 DEF StepsLeftOK
<1>3. CASE Return
  <2>1. stage = "return" /\ stage' = "ready"
    BY <1>3 DEF Return
  <2> QED
    BY <1>1, <1>2, <2>1 DEF StageSteps
<1>4. CASE CommandStep
  BY <1>2, <1>4, AttemptsWindDown, RoundsWindDown DEF CommandStep
<1> QED
  BY <1>2, <1>3, <1>4

\* Every step of a call brings its return closer, for every number of retries
\* a uint8_t holds and whatever the bus does: no call goes on for ever.
THEOREM CallsAlwaysWindDown == CmdSpec => CallsWindDown
<1>1. CallInv /\ CallInv' =>
        [/\ StepsLeft' \in Nat
         /\ CommandStep \/ Return => StepsLeft' < StepsLeft]_cmdVars
  BY StepsWindDown
<1> QED
  BY <1>1, CallInvHolds, PTL DEF CallsWindDown

=============================================================================
