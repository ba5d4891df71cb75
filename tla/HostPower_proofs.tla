-------------------------- MODULE HostPower_proofs --------------------------
(***************************************************************************)
(* Proofs about HostPower, for all shutdown times, boards, retry arguments *)
(* and defaults.  The calls' own invariant, CallInv, is taken over from    *)
(* SequenceMcuCommands_proofs.                                             *)
(***************************************************************************)
EXTENDS HostPower, SequenceMcuCommands_proofs

\* The time since the first SoftOff of a soft reset was acknowledged, at least.
Elapsed == IF event = "SoftOff" THEN round ELSE retries + 10 + round

\* A soft reset whose shutdown was acknowledged and that goes on.
ResetUnderway ==
  /\ op = "SoftReset" /\ acked["SoftOff"] > 0
  /\ stage \in {"write", "backoff", "pause", "settle"}

\* Its last wake-up was acknowledged.
LastAwakeTaken ==
  /\ op = "SoftReset" /\ event = "Awake"
  /\ \/ stage = "pause" /\ round + 1 = retries
     \/ stage = "return" /\ status = "Success"

\* A call that found no wake-up remembered has asked for none while it switches
\* off.
NothingOwed == (event \in {"SoftOff", "HardOff"} /\ ~owed) => ~wake

\* The host is going or has gone down all through the shutdown half.
GoingDown == (ResetUnderway /\ event = "SoftOff" /\ ~owed) => power # "on"

\* What a stopping host still needs is what the call has not yet slept of the
\* time its shutdown takes.
Countdown ==
  (ResetUnderway /\ power = "stopping" /\ ~owed) => \/ downIn = 0
                                                    \/ downIn + Elapsed <= took

ComesUp ==
  (LastAwakeTaken /\ took <= Window /\ ~owed) => \/ power = "on"
                                                 \/ power = "off" /\ wake

\* The inductive invariant.
HostInv ==
  /\ CallInv
  /\ HostTypeOK
  /\ NothingOwed /\ GoingDown /\ Countdown /\ ComesUp
  /\ OffIsFinal

-----------------------------------------------------------------------------
\* What the constants are, as the provers take it best.
LEMMA Times == \A t \in ShutdownTimes : t \in Nat /\ t <= t /\ 0 <= t
BY HostAssumption

LEMMA HostInvInit ==
  ASSUME HostInit
  PROVE  HostInv
<1>1. CallInv
  BY CallInvInit DEF HostInit
<1>2. HostTypeOK
  <2>1. isolated \in BOOLEAN /\ wake \in BOOLEAN /\ owed \in BOOLEAN
    BY HostAssumption DEF HostInit
  <2> QED
    BY <1>1, <2>1, Times DEF HostInit, HostTypeOK, CallInv, PowerStates
<1>3. stage = "ready" /\ status = "Undefined"
  BY DEF HostInit, CmdInit
<1>4. NothingOwed /\ GoingDown /\ Countdown /\ ComesUp
  BY <1>3 DEF HostInit, NothingOwed, GoingDown, Countdown, ComesUp, ResetUnderway, LastAwakeTaken
<1>5. OffIsFinal
  BY <1>3 DEF OffIsFinal
<1> QED
  BY <1>1, <1>2, <1>4, <1>5 DEF HostInv

\* The plant's steps are steps of the call, or leave it alone.
LEMMA HostStepIsCmdStep ==
  ASSUME [HostNext]_plantVars
  PROVE  [CmdNext]_cmdVars
BY DEF HostNext, HostMoves, Write, Sleep, CallsAndReturns, Idle, CmdNext,
       CommandStep, plantVars, cmdVars

\* The host's own step does not lead away from where it was going.
LEMMA HostInvMoves ==
  ASSUME HostInv, CallInv', HostMoves
  PROVE  HostInv'
<1>1. UNCHANGED <<op, event, round, retries, stage, status, acked, took, downIn, isolated, owed>>
  BY DEF HostMoves, cmdVars
<1>2. \/ power = "stopping" /\ downIn = 0 /\ power' = "off" /\ UNCHANGED wake
      \/ power = "off" /\ wake /\ power' = "on" /\ wake' = FALSE
  BY DEF HostMoves, Due
<1>3. ResetUnderway' = ResetUnderway /\ LastAwakeTaken' = LastAwakeTaken /\ Window' = Window
  BY <1>1 DEF ResetUnderway, LastAwakeTaken, Window
<1>4. HostTypeOK'
  BY <1>1, <1>2 DEF HostInv, HostTypeOK, CallInv, PowerStates
<1>5. NothingOwed' /\ GoingDown' /\ Countdown' /\ ComesUp'
  BY <1>1, <1>2, <1>3 DEF HostInv, NothingOwed, GoingDown, Countdown, ComesUp
<1>6. OffIsFinal'
  BY <1>1, <1>2 DEF HostInv, OffIsFinal
<1> QED
  BY <1>4, <1>5, <1>6 DEF HostInv

LEMMA WakeForgetting ==
  ASSUME HostTypeOK, WakeMayBeForgotten
  PROVE  wake' \in BOOLEAN /\ (wake' => wake)
<1>1. wake \in BOOLEAN
  BY DEF HostTypeOK
<1>2. CASE wake' = wake
  BY <1>1, <1>2
<1>3. CASE wake' = FALSE
  BY <1>3
<1> QED
  BY <1>2, <1>3 DEF WakeMayBeForgotten

\* What an event does to the host, in one formula.
LEMMA TakesEffect ==
  ASSUME HostTypeOK, event \in PowerEvents, Takes(event)
  PROVE  /\ event = "Awake" => /\ power' = power /\ downIn' = downIn /\ took' = took
                               /\ power = "off" => wake'
         /\ event \in {"SoftOff", "HardOff"} => power' # "on" /\ (wake' => wake)
         /\ event = "SoftOff" =>
              (power # "on" => power' = power /\ downIn' = downIn /\ took' = took)
         /\ power' \in PowerStates /\ wake' \in BOOLEAN
         /\ took' \in ShutdownTimes /\ downIn' \in 0..took'
         /\ power' # "stopping" => downIn' = 0
<1> USE Times DEF HostTypeOK, PowerStates
<1>1. CASE event = "Awake"
  BY <1>1 DEF Takes, TakesAwake
<1>2. CASE event = "SoftOff"
  <2>1. TakesSoftOff
    BY <1>2 DEF Takes
  <2>2. wake' \in BOOLEAN /\ (wake' => wake)
    BY <2>1, WakeForgetting DEF TakesSoftOff
  <2>3. /\ power' # "on" /\ power' \in PowerStates
        /\ power # "on" => power' = power /\ downIn' = downIn /\ took' = took
        /\ took' \in ShutdownTimes /\ downIn' \in 0..took'
        /\ power' # "stopping" => downIn' = 0
    BY <2>1 DEF TakesSoftOff
  <2> QED
    BY <1>2, <2>2, <2>3
<1>3. CASE event = "HardOff"
  <2>1. PowerCut /\ WakeMayBeForgotten
    BY <1>3 DEF Takes
  <2>2. wake' \in BOOLEAN /\ (wake' => wake)
    BY <2>1, WakeForgetting
  <2>3. /\ power' # "on" /\ power' \in PowerStates
        /\ took' \in ShutdownTimes /\ downIn' \in 0..took'
        /\ power' # "stopping" => downIn' = 0
    BY <2>1 DEF PowerCut
  <2> QED
    BY <1>3, <2>2, <2>3
<1>4. CASE event = "HardReset"
  BY <1>4 DEF Takes, PowerCut
<1> QED
  BY <1>1, <1>2, <1>3, <1>4 DEF PowerEvents

\* A write that is acknowledged has reached the host.
LEMMA AckedIsTaken ==
  ASSUME CallInv, Write, WriteSucceeds
  PROVE  Takes(event)
<1>1. PICK w \in WriteResult : w.rc >= 0 /\ Transfer(w)
  BY DEF WriteSucceeds
<1>2. w.reached
  BY <1>1 DEF Transfer, SmbusWriteByte, WriteResult
<1>3. delivered' = [delivered EXCEPT ![event] = @ + 1]
  BY <1>1, <1>2 DEF Transfer
<1>4. delivered'[event] = delivered[event] + 1 /\ delivered[event] \in Nat
  BY <1>3 DEF CallInv, CmdTypeOK
<1>5. delivered' # delivered
  BY <1>4
<1> QED
  BY <1>5 DEF Write

LEMMA HostInvWrite ==
  ASSUME HostInv, CallInv', Write
  PROVE  HostInv'
<1>1. /\ stage = "write" /\ UNCHANGED <<op, retries, event, round, isolated, owed>>
      /\ Window' = Window /\ Elapsed' = Elapsed /\ ~Due
  BY DEF Write, WriteSucceeds, WriteFails, Transfer, Window, Elapsed
<1>2. event \in PowerEvents /\ CallInv /\ HostTypeOK
  BY DEF HostInv, CallInv, CmdTypeOK
<1>3. \/ Takes(event)
      \/ UNCHANGED <<power, downIn, wake, took>>
  BY DEF Write
<1>4. HostTypeOK'
  BY <1>1, <1>2, <1>3, TakesEffect DEF HostTypeOK, CallInv
<1>0. NothingOwed'
  BY <1>1, <1>2, <1>3, TakesEffect DEF HostInv, NothingOwed
<1>5. CASE WriteSucceeds
  <2>1. Takes(event)
    BY <1>2, <1>5, AckedIsTaken
  <2>2. /\ acked' = [acked EXCEPT ![event] = @ + 1]
        /\ \/ op # "SoftReset" /\ stage' = "return" /\ status' = "Success"
           \/ op = "SoftReset" /\ stage' = "pause" /\ UNCHANGED status
    BY <1>5 DEF WriteSucceeds
  <2>3. GoingDown'
    BY <1>1, <1>2, <2>1, TakesEffect DEF GoingDown, ResetUnderway
  <2>4. Countdown'
    <3>1. SUFFICES ASSUME ResetUnderway', power' = "stopping", ~owed
                   PROVE  downIn' = 0 \/ downIn' + Elapsed' <= took'
      BY <1>1 DEF Countdown
    <3>2. op = "SoftReset" /\ event \in {"SoftOff", "Awake"}
      BY <1>1, <1>2, <3>1 DEF ResetUnderway, CallInv, CallShape
    <3>3. CASE event = "SoftOff" /\ acked["SoftOff"] = 0
      <4>1. round = 0
        BY <1>1, <1>2, <3>3 DEF CallInv, RoundsAreAcks
      <4>2. downIn' <= took' /\ downIn' \in Nat /\ took' \in Nat
        BY <1>4, Times DEF HostTypeOK
      <4>3. Elapsed' = 0
        BY <1>1, <3>3, <4>1 DEF Elapsed
      <4>4. \A x \in Nat : x + 0 = x
        OBVIOUS
      <4>5. downIn' + Elapsed' = downIn'
        BY <4>2, <4>3, <4>4, Zenon
      <4> QED
        BY <4>2, <4>5
    <3>4. CASE event = "SoftOff" /\ acked["SoftOff"] # 0
      <4>1. ResetUnderway
        BY <1>1, <1>2, <3>2, <3>4 DEF ResetUnderway, CallInv, CmdTypeOK
      <4>2. power # "on"
        BY <3>1, <3>4, <4>1 DEF HostInv, GoingDown
      <4>3. power' = power /\ downIn' = downIn /\ took' = took
        BY <1>2, <2>1, <3>4, <4>2, TakesEffect
      <4> QED
        BY <1>1, <3>1, <4>1, <4>3 DEF HostInv, Countdown
    <3>5. CASE event = "Awake"
      <4>1. ResetUnderway
        BY <1>1, <1>2, <3>1, <3>2, <3>5, <2>2 DEF ResetUnderway, CallInv, CmdTypeOK, PowerEvents
      <4>2. power' = power /\ downIn' = downIn /\ took' = took
        BY <1>2, <2>1, <3>5, TakesEffect
      <4> QED
        BY <1>1, <3>1, <4>1, <4>2 DEF HostInv, Countdown
    <3> QED
      BY <3>2, <3>3, <3>4, <3>5
  <2>5. ComesUp'
    <3>1. SUFFICES ASSUME LastAwakeTaken', took' <= Window', ~owed
                   PROVE  power' = "on" \/ (power' = "off" /\ wake')
      BY <1>1 DEF ComesUp
    <3>2. op = "SoftReset" /\ event = "Awake" /\ stage' = "pause" /\ round + 1 = retries
      BY <1>1, <2>2, <3>1 DEF LastAwakeTaken
    <3>3. /\ power' = power /\ downIn' = downIn /\ took' = took
          /\ power = "off" => wake'
      BY <1>2, <2>1, <3>2, TakesEffect
    <3>4. acked["SoftOff"] > 0 /\ retries \in Nat /\ round \in Nat
      BY <1>1, <1>2, <3>2 DEF CallInv, Halves, CmdTypeOK, Bytes
    <3>5. Elapsed = Window
      BY <3>2, <3>4 DEF Elapsed, Window
    <3>6. power # "stopping"
      <4>1. SUFFICES ASSUME power = "stopping" PROVE FALSE
        OBVIOUS
      <4>2. downIn = 0 \/ downIn + Elapsed <= took
        BY <1>1, <3>1, <3>2, <3>4, <4>1 DEF HostInv, Countdown, ResetUnderway
      <4>3. downIn # 0 /\ downIn \in Nat /\ took \in Nat
        BY <1>1, <1>2, <4>1, Times DEF Due, HostTypeOK
      <4>4. Window \in Nat /\ took <= Window
        BY <1>1, <3>1, <3>3, <3>4 DEF Window
      <4> QED
        BY <3>5, <4>2, <4>3, <4>4
    <3> QED
      BY <1>2, <3>3, <3>6 DEF HostTypeOK, PowerStates
  <2>6. OffIsFinal'
    <3>1. op \in {"SoftShutdown", "HardShutdown"} => event \in {"SoftOff", "HardOff"}
      BY <1>2 DEF CallInv, CallShape, SingleEvent
    <3> QED
      BY <1>0, <1>1, <1>2, <2>1, <3>1, TakesEffect DEF OffIsFinal, NothingOwed
  <2> QED
    BY <1>0, <1>4, <2>3, <2>4, <2>5, <2>6 DEF HostInv
<1>6. CASE WriteFails
  <2>1. stage' = "backoff" /\ UNCHANGED <<acked, status>>
    BY <1>6 DEF WriteFails
  <2>2. ComesUp' /\ OffIsFinal'
    BY <2>1 DEF ComesUp, LastAwakeTaken, OffIsFinal
  <2>3. ResetUnderway' => ResetUnderway
    BY <1>1, <2>1 DEF ResetUnderway
  <2>4. GoingDown'
    BY <1>1, <1>2, <1>3, <2>3, TakesEffect DEF HostInv, GoingDown
  <2>5. Countdown'
    <3>1. SUFFICES ASSUME ResetUnderway', power' = "stopping", ~owed
                   PROVE  downIn' = 0 \/ downIn' + Elapsed' <= took'
      BY <1>1 DEF Countdown
    <3>2. op = "SoftReset" /\ event \in {"SoftOff", "Awake"}
      BY <1>1, <1>2, <3>1 DEF ResetUnderway, CallInv, CallShape
    <3>3. event = "SoftOff" => power # "on"
      BY <2>3, <3>1 DEF HostInv, GoingDown
    <3>4. power' = power /\ downIn' = downIn /\ took' = took
      BY <1>2, <1>3, <3>2, <3>3, TakesEffect
    <3> QED
      BY <1>1, <2>3, <3>1, <3>4 DEF HostInv, Countdown
  <2> QED
    BY <1>0, <1>4, <2>2, <2>4, <2>5 DEF HostInv
<1> QED
  BY <1>5, <1>6 DEF Write

\* A pause counts a round.
LEMMA PauseCounts ==
  ASSUME CallInv, Pause
  PROVE  round' = round + 1 /\ round + 1 <= retries
<1>1. op = "SoftReset" /\ Rounds = retries
  BY DEF CallInv, CallShape, Pause, Rounds
<1>2. round \in 0..255 /\ retries \in 0..255 /\ round < retries /\ round' = Inc8(round)
  BY <1>1 DEF CallInv, CmdTypeOK, Bytes, CountersInRange, Pause
<1> QED
  BY <1>2, NoWrap

\* A sleep takes its length off the countdown.
LEMMA HostInvSleep ==
  ASSUME HostInv, CallInv', Sleep
  PROVE  HostInv'
<1>1. /\ UNCHANGED <<op, retries, acked, isolated, power, wake, took, owed>>
      /\ downIn' = (IF downIn <= slept' - slept THEN 0 ELSE downIn - (slept' - slept))
  BY DEF Sleep, Backoff, Pause, Settle
<1>2. /\ CallInv /\ HostTypeOK /\ downIn \in Nat /\ took \in Nat /\ downIn <= took
      /\ slept \in Nat /\ retries \in Nat /\ round \in 0..255 /\ attempt \in 0..255
  BY Times DEF HostInv, HostTypeOK, CallInv, CmdTypeOK, Bytes
<1>3. slept' - slept \in {1, 2, 10}
  <2>1. CASE Backoff
    BY <1>2, <2>1 DEF Backoff
  <2>2. CASE Pause
    BY <1>2, <2>2 DEF Pause
  <2>3. CASE Settle
    BY <1>2, <2>3 DEF Settle
  <2> QED
    BY <2>1, <2>2, <2>3 DEF Sleep
<1>4. downIn' \in Nat /\ downIn' <= downIn /\ (downIn = 0 => downIn' = 0)
  BY <1>1, <1>2, <1>3
<1>5. HostTypeOK'
  <2>1. downIn' \in 0..took'
    BY <1>1, <1>2, <1>4
  <2>2. power' # "stopping" => downIn' = 0
    BY <1>1, <1>2, <1>4 DEF HostTypeOK
  <2> QED
    BY <1>1, <1>2, <2>1, <2>2 DEF HostTypeOK, CallInv
<1>6. ResetUnderway' => ResetUnderway
  BY <1>1 DEF ResetUnderway, Sleep, Backoff, Pause, Settle
<1>7. event' \in {"SoftOff", "HardOff"} => event' = event
  BY DEF Sleep, Backoff, Pause, Settle
<1>8. NothingOwed' /\ GoingDown'
  BY <1>1, <1>6, <1>7 DEF HostInv, NothingOwed, GoingDown
<1>9. Countdown'
  <2>1. SUFFICES ASSUME ResetUnderway', power' = "stopping", ~owed, downIn' # 0
                 PROVE  downIn' + Elapsed' <= took'
    BY <1>1 DEF Countdown
  <2>2. downIn + Elapsed <= took
    BY <1>1, <1>4, <1>6, <2>1 DEF HostInv, Countdown
  <2>3. downIn' = downIn - (slept' - slept)
    BY <1>1, <2>1
  <2>4. op = "SoftReset" /\ event \in {"SoftOff", "Awake"}
    BY <1>2, <1>6, <2>1 DEF ResetUnderway, CallInv, CallShape
  <2>5. CASE Backoff
    <3>1. downIn' = downIn - 2 /\ event' = event /\ round' = round
      BY <1>2, <2>3, <2>5 DEF Backoff
    <3> QED
      BY <1>1, <1>2, <2>2, <3>1 DEF Elapsed
  <2>6. CASE Pause
    <3>1. downIn' = downIn - 1 /\ event' = event
      BY <1>2, <2>3, <2>6 DEF Pause
    <3>2. round' = round + 1
      BY <1>2, <2>6, PauseCounts
    <3> QED
      BY <1>1, <1>2, <2>2, <3>1, <3>2 DEF Elapsed
  <2>7. CASE Settle
    <3>1. downIn' = downIn - 10 /\ event' = "Awake" /\ round' = 0
      BY <1>2, <2>3, <2>7 DEF Settle
    <3>2. event = "SoftOff" /\ round = retries
      BY <1>2, <2>7 DEF Settle, CallInv, CallShape, CountersInRange
    <3> QED
      BY <1>1, <1>2, <2>2, <3>1, <3>2 DEF Elapsed
  <2> QED
    BY <2>5, <2>6, <2>7 DEF Sleep
<1>10. ComesUp'
  <2>1. Window' = Window
    BY <1>1 DEF Window
  <2>2. LastAwakeTaken' => LastAwakeTaken
    <3>1. SUFFICES ASSUME LastAwakeTaken' PROVE LastAwakeTaken
      OBVIOUS
    <3>2. op = "SoftReset" /\ event' = "Awake" /\ stage' \in {"pause", "return"}
          /\ (stage' = "return" => status' = "Success")
      BY <1>1, <3>1 DEF LastAwakeTaken
    <3>3. Pause /\ stage' = "return"
      BY <3>2 DEF Sleep, Backoff, Pause, Settle
    <3>4. ~MoreRounds(round') /\ event = "Awake" /\ stage = "pause"
      BY <3>2, <3>3 DEF Pause
    <3>5. round' = round + 1 /\ round + 1 <= retries
      BY <1>2, <3>3, PauseCounts
    <3>6. round + 1 = retries
      BY <1>2, <3>4, <3>5 DEF MoreRounds
    <3> QED
      BY <3>2, <3>4, <3>6 DEF LastAwakeTaken
  <2> QED
    BY <1>1, <2>1, <2>2 DEF HostInv, ComesUp
<1>11. OffIsFinal'
  <2>1. stage' \in {"return", "ready"} /\ status' = "Success" => op = "SoftReset"
    BY <1>2 DEF Sleep, Backoff, Pause, Settle, CallInv, CallShape
  <2> QED
    BY <1>1, <2>1 DEF OffIsFinal
<1> QED
  BY <1>5, <1>8, <1>9, <1>10, <1>11 DEF HostInv

LEMMA HostInvCallsAndReturns ==
  ASSUME HostInv, CallInv', CallsAndReturns
  PROVE  HostInv'
<1>1. UNCHANGED <<isolated, power, downIn, wake, took>>
  BY DEF CallsAndReturns, Issued, hostVars
<1>2. HostTypeOK'
  <2>1. wake \in BOOLEAN /\ owed \in BOOLEAN
    BY DEF HostInv, HostTypeOK
  <2>2. owed' \in BOOLEAN
    BY <2>1 DEF CallsAndReturns, Issued, hostVars
  <2> QED
    BY <1>1, <2>2 DEF HostInv, HostTypeOK, CallInv
<1>3. CASE (\E r \in RetryArgs : Issue(r)) /\ Issued
  <2>1. acked' = NoEvents /\ stage' \in {"return", "write"} /\ status' # "Success"
    BY <1>3 DEF Issue, IssueAwakeCmd, IssueHardReset, IssueSoftShutdown,
       IssueHardShutdown, IssueSoftReset, Call
  <2>2. ~ResetUnderway'
    BY <2>1 DEF ResetUnderway, NoEvents, PowerEvents
  <2>3. ~LastAwakeTaken'
    BY <2>1 DEF LastAwakeTaken
  <2> QED
    BY <1>2, <1>3, <2>1, <2>2, <2>3
       DEF HostInv, Issued, NothingOwed, GoingDown, Countdown, ComesUp, OffIsFinal
<1>4. CASE Return /\ UNCHANGED hostVars
  <2>1. /\ stage = "return" /\ stage' = "ready" /\ op' = op /\ status' = status
        /\ event' = event /\ owed' = owed
    BY <1>4 DEF Return, hostVars
  <2>2. ~ResetUnderway' /\ ~LastAwakeTaken'
    BY <2>1 DEF ResetUnderway, LastAwakeTaken
  <2>3. OffIsFinal'
    BY <1>1, <2>1 DEF HostInv, OffIsFinal
  <2> QED
    BY <1>1, <1>2, <2>1, <2>2, <2>3
       DEF HostInv, NothingOwed, GoingDown, Countdown, ComesUp
<1> QED
  BY <1>3, <1>4 DEF CallsAndReturns

LEMMA HostInvStep ==
  ASSUME HostInv, [HostNext]_plantVars
  PROVE  HostInv'
<1>1. CallInv'
  BY HostStepIsCmdStep, CallInvStep DEF HostInv
<1>2. CASE HostMoves
  BY <1>1, <1>2, HostInvMoves
<1>3. CASE Write
  BY <1>1, <1>3, HostInvWrite
<1>4. CASE Sleep
  BY <1>1, <1>4, HostInvSleep
<1>5. CASE CallsAndReturns
  BY <1>1, <1>5, HostInvCallsAndReturns
<1>6. CASE Idle
  <2>1. /\ stage = "ready" /\ downIn > 0 /\ downIn' = downIn - 1
        /\ UNCHANGED <<op, event, stage, status, isolated, power, wake, took, owed>>
    BY <1>6 DEF Idle, cmdVars
  <2>2. ~ResetUnderway' /\ ~LastAwakeTaken'
    BY <2>1 DEF ResetUnderway, LastAwakeTaken
  <2>3. downIn \in Nat /\ took \in Nat /\ downIn <= took
    BY Times DEF HostInv, HostTypeOK
  <2>4. HostTypeOK'
    <3>1. downIn' \in 0..took'
      BY <2>1, <2>3
    <3>2. power' # "stopping" => downIn' = 0
      BY <2>1, <2>3 DEF HostInv, HostTypeOK
    <3> QED
      BY <1>1, <2>1, <3>1, <3>2 DEF HostInv, HostTypeOK, CallInv
  <2>5. OffIsFinal'
    BY <2>1 DEF HostInv, OffIsFinal
  <2> QED
    BY <1>1, <2>1, <2>2, <2>4, <2>5
       DEF HostInv, NothingOwed, GoingDown, Countdown, ComesUp
<1>7. CASE UNCHANGED plantVars
  BY <1>1, <1>7 DEF plantVars, hostVars, HostInv, HostTypeOK, NothingOwed, GoingDown,
     Countdown, ComesUp,
     OffIsFinal, ResetUnderway, LastAwakeTaken, Elapsed, Window, CallInv
<1> QED
  BY <1>2, <1>3, <1>4, <1>5, <1>6, <1>7 DEF HostNext

LEMMA HostInvHolds == HostSpec => []HostInv
<1>1. HostInit => HostInv
  BY HostInvInit
<1>2. HostInv /\ [HostNext]_plantVars => HostInv'
  BY HostInvStep
<1> QED
  BY <1>1, <1>2, PTL DEF HostSpec

\* With the host, the calls do nothing they would not do without: all that is
\* proved of CmdSpec holds here.
THEOREM HostRefinesCommands == HostSpec => CmdSpec
<1>1. HostInit => CmdInit
  BY DEF HostInit
<1>2. [HostNext]_plantVars => [CmdNext]_cmdVars
  BY HostStepIsCmdStep
<1> QED
  BY <1>1, <1>2, PTL DEF HostSpec, CmdSpec

\* A stopping host always needs less than the time of its latest shutdown.
THEOREM HostTypeCorrect == HostSpec => []HostTypeOK
<1>1. HostInv => HostTypeOK
  BY DEF HostInv
<1> QED
  BY <1>1, HostInvHolds, PTL

\* A successful soft reset leaves the host running, for every number of rounds
\* and every shutdown time up to 2 * retries + 9 half seconds.
THEOREM ResetsLeaveHostUp == HostSpec => []ResetLeavesHostUp
<1>1. HostInv => ResetLeavesHostUp
  <2>1. SUFFICES ASSUME HostInv, stage = "return", op = "SoftReset", status = "Success",
                        ~owed, took <= Window, ~Due
                 PROVE  power = "on"
    BY DEF ResetLeavesHostUp
  <2>2. LastAwakeTaken
    BY <2>1 DEF HostInv, CallInv, CallShape, LastAwakeTaken
  <2> QED
    BY <2>1, <2>2 DEF HostInv, ComesUp, Due
<1> QED
  BY <1>1, HostInvHolds, PTL

\* A host that was shut down stays down until the next command, if none of the
\* earlier ones left a wake-up behind.
THEOREM OffsAreFinal == HostSpec => []OffIsFinal
<1>1. HostInv => OffIsFinal
  BY DEF HostInv
<1> QED
  BY <1>1, HostInvHolds, PTL
=============================================================================
