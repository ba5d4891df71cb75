---------------------------- MODULE PropertyStore ----------------------------
(***************************************************************************)
(* What the clients of the D-Bus objects may rely on: the properties they  *)
(* read back are one store, and all writes of both objects pass through    *)
(* one queue.  Each takes effect at one moment after it was sent, in the   *)
(* order they were sent, on its own property alone, and the store changes  *)
(* in no other way once it is open.  A write to a property that is not in  *)
(* the store takes its turn and is never read back.  A restart loses what  *)
(* was stored and what was queued, nothing less and nothing more.          *)
(***************************************************************************)
EXTENDS Sequences

CONSTANTS
  Writes,    \* the writes that may be sent: records with property and value
  Defaults   \* what each property of the store holds at first

VARIABLES
  open,    \* are writes served?
  queue,   \* writes sent and not yet effective, oldest first
  store    \* the value of each property

storeVars == <<open, queue, store>>

StoreInit == open = FALSE /\ queue = <<>> /\ store = Defaults

Send == \E w \in Writes : queue' = Append(queue, w) /\ UNCHANGED <<open, store>>

\* Before it opens, the store is filled from elsewhere.
Fill == ~open /\ DOMAIN store' = DOMAIN store /\ UNCHANGED <<open, queue>>

Open == ~open /\ open' = TRUE /\ UNCHANGED <<queue, store>>

TakeEffect ==
  /\ open /\ queue # <<>>
  /\ store' = [p \in DOMAIN store |->
                 IF p = Head(queue).property THEN Head(queue).value ELSE store[p]]
  /\ queue' = Tail(queue)
  /\ UNCHANGED open

Restart == open' = FALSE /\ queue' = <<>> /\ store' = Defaults

StoreNext == Send \/ Fill \/ Open \/ TakeEffect \/ Restart

StoreSpec == StoreInit /\ [][StoreNext]_storeVars
=============================================================================
