------------------------------ MODULE BusNames ------------------------------
(***************************************************************************)
(* Several processes of the service on one D-Bus daemon: the one systemd   *)
(* starts, the same one restarted after a crash, and a copy started by     *)
(* hand for debugging.  Each walks through main; every ObjectServer it     *)
(* constructs asks for two well-known names, and only after that does the  *)
(* object touch the sequence MCU.                                          *)
(***************************************************************************)
EXTENDS Naturals, Sequences

CONSTANT Instances   \* the processes

VARIABLES
  at,      \* how many of main's steps an instance is into, 0 when not running
  owner    \* the instance that owns each name, or Nobody

nameVars == <<at, owner>>

Nobody == "nobody"

ASSUME NamesAssumption == Nobody \notin Instances

\* ObjectServer's constructor, with node "0": the name with the node's number,
\* then the plain one.
NamesOf == [Power   |-> <<"control.Power0", "control.Power">>,
            Host    |-> <<"State.Host0", "State.Host">>,
            Chassis |-> <<"State.Chassis0", "State.Chassis">>]

\* Mutant: the MCU is read before the names are asked for.
ReadFirst == <<"open", "read">> \o NamesOf.Power \o NamesOf.Host \o NamesOf.Chassis
               \o <<"poll", "run">>

\* main, from opening the device to the event loop.
Steps == <<"open">> \o NamesOf.Power
           \o NamesOf.Host \o <<"read">>
           \o NamesOf.Chassis \o <<"read">>
           \o <<"poll", "run">>

Names == {NamesOf[o][k] : o \in DOMAIN NamesOf, k \in {1, 2}}

Up(i) == at[i] > 0
AtStep(i) == Steps[at[i]]
Running(i) == Up(i) /\ AtStep(i) = "run"

-----------------------------------------------------------------------------
NamesInit ==
  /\ at = [i \in Instances |-> 0]
  /\ owner = [n \in Names |-> Nobody]

\* External: systemd or an operator starts the service.
Start(i) ==
  /\ ~Up(i)
  /\ at' = [at EXCEPT ![i] = 1]
  /\ UNCHANGED owner

\* External: the process ends, and with its connection the daemon takes back
\* every name it owned.
Die(i) ==
  /\ Up(i)
  /\ at' = [at EXCEPT ![i] = 0]
  /\ owner' = [n \in Names |-> IF owner[n] = i THEN Nobody ELSE owner[n]]

\* Mutants: a refusal is ignored; the name is taken over.
RefusalIgnored(i) ==
  /\ Up(i) /\ AtStep(i) \in Names
  /\ owner[AtStep(i)] # Nobody
  /\ at' = [at EXCEPT ![i] = @ + 1]
  /\ UNCHANGED owner
NameTakenOver(i) ==
  /\ Up(i) /\ AtStep(i) \in Names
  /\ owner' = [owner EXCEPT ![AtStep(i)] = i]
  /\ at' = [at EXCEPT ![i] = @ + 1]

\* request_name without flags succeeds on a name nobody owns.
NameGranted(i) ==
  /\ Up(i) /\ AtStep(i) \in Names
  /\ owner[AtStep(i)] = Nobody
  /\ owner' = [owner EXCEPT ![AtStep(i)] = i]
  /\ at' = [at EXCEPT ![i] = @ + 1]

\* On an owned one it throws; nothing in main catches it.
NameRefused(i) ==
  /\ Up(i) /\ AtStep(i) \in Names
  /\ owner[AtStep(i)] # Nobody
  /\ Die(i)

\* Mutants: main goes on behind the event loop; a read of the MCU never ends.
RunReturns(i) ==
  /\ Up(i) /\ AtStep(i) \notin Names
  /\ at' = [at EXCEPT ![i] = @ + 1]
  /\ UNCHANGED owner
ReadHangs(i) ==
  /\ Up(i) /\ AtStep(i) \notin Names /\ ~Running(i) /\ AtStep(i) # "read"
  /\ at' = [at EXCEPT ![i] = @ + 1]
  /\ UNCHANGED owner

\* Opening the device, reading the MCU and starting the polling.
Proceed(i) ==
  /\ Up(i) /\ AtStep(i) \notin Names /\ ~Running(i)
  /\ at' = [at EXCEPT ![i] = @ + 1]
  /\ UNCHANGED owner

Advance(i) == NameGranted(i) \/ NameRefused(i) \/ Proceed(i)

NamesNext == \E i \in Instances : Start(i) \/ Advance(i) \/ Die(i)

\* main runs on; nobody has to start or to stop an instance.
NamesSpec ==
  /\ NamesInit /\ [][NamesNext]_nameVars
  /\ \A i \in Instances : WF_nameVars(Advance(i))

-----------------------------------------------------------------------------
NamesTypeOK ==
  /\ at \in [Instances -> 0..Len(Steps)]
  /\ owner \in [Names -> Instances \cup {Nobody}]

\* Does the instance read or write the MCU at or before its current step?
TouchesMcu(i) == \E k \in 1..at[i] : Steps[k] = "read"

\* At most one process ever talks to the sequence MCU: two of them could not
\* interleave a soft reset with another command.  (Each object reads the MCU
\* after its names were granted, Power's come first.)
OneDriver ==
  \A i, j \in Instances : TouchesMcu(i) /\ TouchesMcu(j) => i = j

\* All names that are owned belong to one process: a client that writes the
\* host and then the chassis, by either name, reaches the same queue.
NamesGoTogether ==
  \A m, n \in Names : owner[m] # Nobody /\ owner[n] # Nobody => owner[m] = owner[n]

\* A process is refused, if at all, the first name it asks for: none dies
\* with half of its objects on the bus, and two that start at the same time
\* never refuse each other.
RefusedAtOnce ==
  [][\A i \in Instances : NameRefused(i) => AtStep(i) = NamesOf.Power[1]]_nameVars

\* The process that got the first name serves, unless it is stopped.
HolderServes ==
  \A i \in Instances :
    (owner[NamesOf.Power[1]] = i) ~> (Running(i) \/ ~Up(i))
=============================================================================
