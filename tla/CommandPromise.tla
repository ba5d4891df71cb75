--------------------------- MODULE CommandPromise ---------------------------
(***************************************************************************)
(* What a power command promises its caller, whatever the bus does: the    *)
(* sequence MCU sees only the events of the command's plan, in the plan's  *)
(* order, each possibly more than once; Success is reported only when the  *)
(* plan's last event was delivered; a command refused for its arguments    *)
(* delivered nothing.  An error promises nothing about how far the plan    *)
(* got.                                                                    *)
(***************************************************************************)
EXTENDS Integers, Sequences

None == "none"

Plan ==
  [SoftReset    |-> <<"SoftOff", "Awake">>,
   Awake        |-> <<"Awake">>,
   HardReset    |-> <<"HardReset">>,
   SoftShutdown |-> <<"SoftOff">>,
   HardShutdown |-> <<"HardOff">>]

Operations == DOMAIN Plan

FinalEvent(o) == Plan[o][Len(Plan[o])]

\* The events the MCU may see next when prev was the last one: the plan's
\* first event, the same event again, or the one that comes after it.
MayFollow(o, prev) ==
  {Plan[o][i] : i \in {j \in 1..Len(Plan[o]) :
                          \/ j = 1 /\ prev = None
                          \/ Plan[o][j] = prev
                          \/ j > 1 /\ Plan[o][j - 1] = prev}}

VARIABLES
  job,     \* the command being executed, or None
  last,    \* the last event delivered to the MCU for it, or None
  result   \* the status about to be handed to the caller, or None

promiseVars == <<job, last, result>>

Init == job = None /\ last = None /\ result = None

Accept(o) ==
  /\ job = None
  /\ job' = o
  /\ last' = None
  /\ result' \in {None, "InvalidRetries"}

Deliver(e) ==
  /\ job # None /\ result = None
  /\ e \in MayFollow(job, last)
  /\ last' = e
  /\ result' \in {None} \cup (IF e = FinalEvent(job) THEN {"Success"} ELSE {})
  /\ UNCHANGED job

Conclude(r) ==
  /\ job # None /\ result = None
  /\ r = "Success" => last = FinalEvent(job)
  /\ result' = r
  /\ UNCHANGED <<job, last>>

HandOver ==
  /\ job # None /\ result # None
  /\ job' = None
  /\ result' = None
  /\ UNCHANGED last

Next ==
  \/ \E o \in Operations : Accept(o)
  \/ job # None /\ \E e \in MayFollow(job, last) : Deliver(e)
  \/ \E r \in {"Success", "ProtocolError"} : Conclude(r)
  \/ HandOver

Spec == Init /\ [][Next]_promiseVars
=============================================================================
