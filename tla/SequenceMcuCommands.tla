------------------------ MODULE SequenceMcuCommands ------------------------
(***************************************************************************)
(* The command half of SequenceMCUHandler: IssueAwakeCmd, IssueHardReset,  *)
(* IssueSoftShutdown, IssueHardShutdown and IssueSoftReset.                *)
(*                                                                         *)
(* Each call runs to its end on the one thread of the service, so at most  *)
(* one is in progress.  It is cut into the steps between which the rest of *)
(* the world moves: every bus write and every sleep is a step.             *)
(***************************************************************************)
EXTENDS PowerTypes, SMBusManager

CONSTANTS
  RetryArgs,       \* the values callers pass as retries (uint8_t)
  DefaultRetries   \* the default argument, also used by the inner calls

ASSUME RetryAssumption ==
  /\ RetryArgs \subseteq Bytes
  /\ DefaultRetries \in Bytes \ {0}

VARIABLES
  fd,          \* SMBUSManager::fd_
  op,          \* the Issue... function being executed, or the last one
  retries,     \* its argument
  event,       \* the PowerEvent its current inner loop writes
  round,       \* IssueSoftReset's loop counter
  attempt,     \* the write loop's counter
  stage,       \* where the thread is, see Stages
  status,      \* the status being returned
  (* history, read by no guard *)
  acked,       \* writes of this call that reported success, per event
  delivered,   \* writes of this call that reached the MCU, per event
  last,        \* the last event that reached the MCU in this call
  slept        \* time this call has slept, in units of 500ms

callVars == <<op, retries, event, round, attempt, stage, status>>
historyVars == <<acked, delivered, last, slept>>
cmdVars == <<fd, op, retries, event, round, attempt, stage, status,
             acked, delivered, last, slept>>

\* write: about to call SmbusWriteByte; backoff: in the 1000ms sleep after a
\* failed write; pause: in the 500ms sleep between rounds of a soft reset;
\* settle: in its 5000ms wait; return: about to return status.
Stages == {"ready", "write", "backoff", "pause", "settle", "return"}

Operations == {"Awake", "HardReset", "SoftShutdown", "HardShutdown", "SoftReset"}

\* ++attempt on a uint8_t.
Inc8(n) == IF n = 255 THEN 0 ELSE n + 1

\* IssueSoftReset calls IssueSoftShutdown and IssueAwakeCmd without an
\* argument: their write loops use the default, its own argument counts rounds.
Attempts == IF op = "SoftReset" THEN DefaultRetries ELSE retries

\* Mutants: one attempt too many; one round too few.
OneAttemptMore(n) == n <= Attempts
OneRoundLess(n) == n < retries - 1

\* The tests of the write loop and of a soft reset's two loops, on the
\* incremented counter.
MoreAttempts(n) == n < Attempts
MoreRounds(n) == n < retries

NoEvents == [e \in PowerEvents |-> 0]

-----------------------------------------------------------------------------
CmdInit ==
  /\ fd \in InitSMBUSManager(ClosedFd)
  /\ op = "Awake" /\ retries = 0 /\ event = "Awake"
  /\ round = 0 /\ attempt = 0
  /\ stage = "ready" /\ status = "Undefined"
  /\ acked = NoEvents /\ delivered = NoEvents /\ last = "none" /\ slept = 0

\* A call of the function o whose first write is e; without retries it returns
\* at once.
Call(o, e, r) ==
  /\ stage = "ready"
  /\ op' = o /\ retries' = r /\ event' = e
  /\ round' = 0 /\ attempt' = 0
  /\ \/ r = 0 /\ stage' = "return" /\ status' = "InvalidRetries"
     \/ r # 0 /\ stage' = "write" /\ status' = "Undefined"
  /\ acked' = NoEvents /\ delivered' = NoEvents /\ last' = "none" /\ slept' = 0
  /\ UNCHANGED fd

IssueAwakeCmd(r) == Call("Awake", "Awake", r)
IssueHardReset(r) == Call("HardReset", "HardReset", r)
IssueSoftShutdown(r) == Call("SoftShutdown", "SoftOff", r)
IssueHardShutdown(r) == Call("HardShutdown", "HardOff", r)
\* Mutants: a soft reset that wakes first; one that writes an unknown event.
WakeFirst(r) == Call("SoftReset", "Awake", r)
WriteUnknown(r) == Call("SoftReset", "Unknown", r)
IssueSoftReset(r) == Call("SoftReset", "SoftOff", r)

Issue(r) ==
  \/ IssueAwakeCmd(r)
  \/ IssueHardReset(r)
  \/ IssueSoftShutdown(r)
  \/ IssueHardShutdown(r)
  \/ IssueSoftReset(r)

\* A write of event with the result w, as the MCU and the history see it.
Transfer(w) ==
  /\ stage = "write"
  /\ w \in SmbusWriteByte(fd)
  /\ delivered' = IF w.reached THEN [delivered EXCEPT ![event] = @ + 1] ELSE delivered
  /\ last' = IF w.reached THEN event ELSE last
  /\ UNCHANGED <<fd, op, retries, event, round, attempt, slept>>

\* The write loop returns Success: to the caller of a single command, to the
\* round of a soft reset.
WriteSucceeds ==
  \E w \in WriteResult :
    /\ w.rc >= 0
    /\ Transfer(w)
    /\ acked' = [acked EXCEPT ![event] = @ + 1]
    /\ \/ op # "SoftReset" /\ stage' = "return" /\ status' = "Success"
       \/ op = "SoftReset" /\ stage' = "pause" /\ UNCHANGED status

WriteFails ==
  \E w \in WriteResult :
    /\ w.rc < 0
    /\ Transfer(w)
    /\ stage' = "backoff"
    /\ UNCHANGED <<acked, status>>

\* Mutant: a failed write is repeated until it succeeds.
RetryForever ==
  /\ stage = "backoff"
  /\ stage' = "write"
  /\ UNCHANGED <<fd, op, retries, event, round, attempt, status,
                 acked, delivered, last, slept>>

\* The sleep and the loop test after a failed write.  ProtocolError ends a
\* single command and, through its early returns, a soft reset in any round.
Backoff ==
  /\ stage = "backoff"
  /\ slept' = slept + 2
  /\ attempt' = Inc8(attempt)
  /\ \/ MoreAttempts(attempt') /\ stage' = "write" /\ UNCHANGED status
     \/ ~MoreAttempts(attempt') /\ stage' = "return" /\ status' = "ProtocolError"
  /\ UNCHANGED <<fd, op, retries, event, round, acked, delivered, last>>

\* The sleep and the loop test after a successful round of a soft reset.
Pause ==
  /\ stage = "pause"
  /\ slept' = slept + 1
  /\ round' = Inc8(round)
  /\ attempt' = 0
  /\ \/ MoreRounds(round') /\ stage' = "write" /\ UNCHANGED status
     \/ ~MoreRounds(round') /\ event = "SoftOff" /\ stage' = "settle" /\ UNCHANGED status
     \/ ~MoreRounds(round') /\ event = "Awake" /\ stage' = "return" /\ status' = "Success"
  /\ UNCHANGED <<fd, op, retries, event, acked, delivered, last>>

\* Mutant: the wake-up loop starts without the wait.
SettleAtOnce ==
  /\ stage = "settle"
  /\ event' = "Awake" /\ round' = 0 /\ attempt' = 0
  /\ stage' = "write"
  /\ UNCHANGED <<fd, op, retries, status, acked, delivered, last, slept>>

\* The wait for the device to go down, before the wake-up loop.
Settle ==
  /\ stage = "settle"
  /\ slept' = slept + 10
  /\ event' = "Awake" /\ round' = 0 /\ attempt' = 0
  /\ stage' = "write"
  /\ UNCHANGED <<fd, op, retries, status, acked, delivered, last>>

Return ==
  /\ stage = "return"
  /\ stage' = "ready"
  /\ UNCHANGED <<fd, op, retries, event, round, attempt, status,
                 acked, delivered, last, slept>>

\* The steps of the call in progress, up to its return.
CommandStep == WriteSucceeds \/ WriteFails \/ Backoff \/ Pause \/ Settle

CmdNext == (\E r \in RetryArgs : Issue(r)) \/ CommandStep \/ Return

CmdSpec == CmdInit /\ [][CmdNext]_cmdVars

\* A sleep ends and an ioctl returns: a call once started keeps going.
\* Nothing obliges a caller to make one.
FairCmdSpec == CmdSpec /\ WF_cmdVars(CommandStep \/ Return)

-----------------------------------------------------------------------------
\* The abstract command this call is, while the thread is in it.
Promise ==
  INSTANCE CommandPromise WITH
    job <- IF stage = "ready" THEN "none" ELSE op,
    last <- last,
    result <- IF stage = "return" THEN status ELSE "none"

\* The loop counters are uint8_t, and no call is in the air while the thread
\* is idle.
CmdTypeOK ==
  /\ fd \in Fd
  /\ op \in Operations
  /\ retries \in Bytes
  /\ event \in PowerEvents
  /\ round \in Bytes
  /\ attempt \in Bytes
  /\ stage \in Stages
  /\ status \in OperationStatus
  /\ acked \in [PowerEvents -> Nat]
  /\ delivered \in [PowerEvents -> Nat]
  /\ last \in PowerEvents \cup {"none"}
  /\ slept \in Nat

\* A soft reset never writes Awake before every one of its rounds of SoftOff
\* was acknowledged and the 5000ms wait is over: the MCU cannot be told to
\* wake a host it was not told to shut down.  (IssueSoftReset's early return
\* and the order of its two loops.)
AwakeOnlyAfterSettle ==
  (op = "SoftReset" /\ delivered["Awake"] > 0) =>
     /\ acked["SoftOff"] = retries
     /\ slept >= retries + 10

\* An error is returned only when the write loop is exhausted, every attempt
\* of its last round having failed: no acknowledged write is ever reported as
\* an error, and no failure is given up on early.
ErrorMeansExhausted ==
  (stage = "return" /\ status = "ProtocolError") =>
     /\ attempt = Attempts
     /\ acked[event] = round

\* Success is reported only for a command all of whose rounds were
\* acknowledged, each exactly once.
Rounds == IF op = "SoftReset" THEN retries ELSE 1
SuccessMeansAcked ==
  (stage = "return" /\ status = "Success") =>
     \A i \in DOMAIN Promise!Plan[op] : acked[Promise!Plan[op][i]] = Rounds

\* However many writes fail or are taken by the MCU without acknowledgement,
\* an event hits the MCU at most once per attempt the loops allow.
BoundedDelivery == \A e \in PowerEvents : delivered[e] <= Rounds * Attempts

\* The event loop is blocked for a bounded time: with the default arguments,
\* a soft reset sleeps at most 41 * 500ms.  A round of a soft reset that goes
\* well sleeps in a backoff after every attempt but the last, and in a pause.
PerRound == 2 * DefaultRetries - 1
BlockingBound == IF op = "SoftReset" THEN 2 * (retries * PerRound) + 11
                                     ELSE 2 * retries
BoundedBlocking == slept <= BlockingBound

\* The steps a call may take before it has returned, at most: a write and a
\* backoff per attempt, a pause per round, the rounds of both loops of a soft
\* reset and the wait between them.
RoundSteps == 2 * Attempts + 2
ShuttingDown == op = "SoftReset" /\ event = "SoftOff"
RoundsAfter == Rounds - 1 - round + (IF ShuttingDown THEN Rounds ELSE 0)
StepsLeft ==
  LET later == RoundsAfter * RoundSteps + (IF ShuttingDown THEN 2 ELSE 1)
  IN  [ready   |-> 0,
       return  |-> 1,
       write   |-> later + 2 * (Attempts - attempt) + 2,
       backoff |-> later + 2 * (Attempts - attempt) + 1,
       pause   |-> later + 1,
       settle  |-> Rounds * RoundSteps + 2][stage]

\* Every step of a call brings its return closer, none of its loops turns
\* without having counted: with what a write or a sleep takes known, so is the
\* longest time the event loop stands still.  (Both uint8_t counters against
\* a bound of up to 255.)
CallsWindDown ==
  [][/\ StepsLeft' \in Nat
     /\ CommandStep \/ Return => StepsLeft' < StepsLeft]_cmdVars

\* Every call returns: its loops end for every retries a uint8_t can hold.
CallsReturn == (stage # "ready") ~> (stage = "ready")

\* The calls keep the promise of CommandPromise: only planned events, in the
\* plan's order, and Success only when the last of them was delivered.
PromiseKept == Promise!Spec
=============================================================================
