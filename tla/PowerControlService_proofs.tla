--------------------- MODULE PowerControlService_proofs ---------------------
(***************************************************************************)
(* Proofs about PowerControlService, for every set of reports and client   *)
(* requests, any number of writes and crashes.                             *)
(***************************************************************************)
EXTENDS PowerControlService, SequenceTheorems, TLAPS

\* The two tables and their fallbacks put the same values on the off side,
\* listed or not.
LEMMA TablesAgree ==
  \A raw : toHostState(raw) = "Off" <=> toChassisState(raw) = "Off"
BY DEF toHostState, toChassisState, nativeToHostState, nativeToChassisState,
       McuPowerState, kSLP_S0, kSLP_S3, kSLP_S4, kSLP_S5, kSLP_LP, kSLP_Unknown

\* Host and Chassis never contradict each other, for every byte the MCU may
\* report and whatever a short read leaves in the cache.
THEOREM HostAndChassisAgree == Spec => []HostChassisAgree
<1>1. HostChassisAgree
  BY TablesAgree DEF HostChassisAgree, CurrentHostState, CurrentPowerState
<1> QED
  BY <1>1, PTL

-----------------------------------------------------------------------------
(* The queue, the command behind the write being served, and what the      *)
(* properties hold once nothing is on its way to them.                     *)

Properties == HostProperties \cup ChassisProperties

\* A write on its way.
Writes ==
  {[id |-> n, property |-> r.property, value |-> r.value] :
      n \in Nat \ {0}, r \in Requests}

Stored(p) == IF p \in HostProperties THEN host[p] ELSE chassis[p]

QueueTypes ==
  /\ inbox \in Seq(Writes)
  /\ serving \in Writes \cup {NoRequest}
  /\ sent \in Nat /\ settled \in Nat
  /\ DOMAIN latest = Properties
  /\ DOMAIN host = HostProperties /\ DOMAIN chassis = ChassisProperties

\* The thread serves a write exactly when a command is executed, and the
\* command is the write's.
CommandIsServed ==
  /\ serving = NoRequest => job = "none"
  /\ serving # NoRequest => /\ IsCommand(serving)
                            /\ job = CommandOf(serving)

\* The writes are numbered in the order they are served.
Busy == IF serving = NoRequest THEN 0 ELSE 1
Numbered ==
  /\ settled + Busy + Len(inbox) = sent
  /\ serving # NoRequest => serving.id = settled + 1
  /\ \A i \in 1..Len(inbox) : inbox[i].id = settled + Busy + i

\* No object is written to before it is on the bus.
NothingBeforeBus ==
  /\ boot \notin {"chassis", "poll", "run"} =>
       \A p \in HostProperties : latest[p] = "none"
  /\ boot \notin {"poll", "run"} =>
       \A p \in ChassisProperties : latest[p] = "none"

\* The value written last to p waits, is being served, or is stored; nothing
\* else on its way to p comes after it.
LastWaiting(p) ==
  \E i \in 1..Len(inbox) :
    /\ inbox[i].property = p /\ inbox[i].value = latest[p]
    /\ \A j \in 1..Len(inbox) : j > i => inbox[j].property # p
NoneWaiting(p) == \A i \in 1..Len(inbox) : inbox[i].property # p
LatestOnItsWay(p) ==
  \/ LastWaiting(p)
  \/ NoneWaiting(p) /\ serving.property = p /\ serving.value = latest[p]
  \/ NoneWaiting(p) /\ serving.property # p /\ Stored(p) = latest[p]
LatestKept == \A p \in Properties : latest[p] # "none" => LatestOnItsWay(p)

QueueInv ==
  QueueTypes /\ CommandIsServed /\ Numbered /\ NothingBeforeBus /\ LatestKept

-----------------------------------------------------------------------------
\* Requests are writes of the properties there are, and the transitions have a
\* command each.
LEMMA RequestShape ==
  ASSUME NEW r \in Requests
  PROVE  /\ r.property \in Properties
         /\ r.property # "none" /\ r.value # "none"
         /\ r.property = "requestedHostTransition" => r.value \in DOMAIN HostCommand
         /\ r.property = "requestedPowerTransition" => r.value \in DOMAIN ChassisCommand
         /\ r.property = "currentHostState" => r.value \in HostState
         /\ r.property = "restartCause" => r.value \in RestartCause
         /\ r.property = "currentPowerState" => r.value \in ChassisPowerState
         /\ r.property = "currentPowerStatus" => r.value \in {"Good", "Undefined"}
<1>1. CASE r \in [property : {"requestedHostTransition"}, value : DOMAIN HostCommand]
  BY <1>1 DEF Properties, HostProperties, HostDefaults, HostCommand
<1>2. CASE r \in [property : {"requestedPowerTransition"}, value : DOMAIN ChassisCommand]
  BY <1>2 DEF Properties, ChassisProperties, ChassisDefaults, ChassisCommand
<1>3. CASE r \in [property : {"currentHostState"}, value : HostState]
  BY <1>3 DEF Properties, HostProperties, HostDefaults, HostState
<1>4. CASE r \in [property : {"restartCause"}, value : RestartCause]
  BY <1>4 DEF Properties, HostProperties, HostDefaults, RestartCause
<1>5. CASE r \in [property : {"currentPowerState"}, value : ChassisPowerState]
  BY <1>5 DEF Properties, ChassisProperties, ChassisDefaults, ChassisPowerState
<1>6. CASE r \in [property : {"currentPowerStatus"}, value : {"Good", "Undefined"}]
  BY <1>6 DEF Properties, ChassisProperties, ChassisDefaults
<1> QED
  BY <1>1, <1>2, <1>3, <1>4, <1>5, <1>6 DEF Requests

LEMMA WriteShape ==
  ASSUME NEW w \in Writes
  PROVE  /\ w.property \in Properties
         /\ w.property # "none" /\ w.value # "none"
         /\ w.id \in Nat \ {0}
         /\ w.property = "requestedHostTransition" => w.value \in DOMAIN HostCommand
         /\ w.property = "requestedPowerTransition" => w.value \in DOMAIN ChassisCommand
         /\ w.property = "currentHostState" => w.value \in HostState
         /\ w.property = "restartCause" => w.value \in RestartCause
         /\ w.property = "currentPowerState" => w.value \in ChassisPowerState
         /\ w.property = "currentPowerStatus" => w.value \in {"Good", "Undefined"}
         /\ w # NoRequest
<1>1. PICK n \in Nat \ {0}, r \in Requests :
        w = [id |-> n, property |-> r.property, value |-> r.value]
  BY DEF Writes
<1> QED
  BY <1>1, RequestShape DEF NoRequest

\* The command of a transition is one CommandPromise has a plan for.
LEMMA CommandExists ==
  ASSUME NEW w \in Writes, IsCommand(w)
  PROVE  CommandOf(w) # "none"
<1>1. CASE w.property = "requestedHostTransition"
  BY <1>1, WriteShape DEF CommandOf, HostCommand
<1>2. CASE w.property = "requestedPowerTransition"
  BY <1>2, WriteShape DEF CommandOf, ChassisCommand
<1> QED
  BY <1>1, <1>2 DEF IsCommand

-----------------------------------------------------------------------------
LEMMA AppendFacts ==
  ASSUME NEW S, NEW s \in Seq(S), NEW x \in S
  PROVE  /\ Append(s, x) \in Seq(S) /\ Len(s) \in Nat
         /\ Len(Append(s, x)) = Len(s) + 1
         /\ \A i \in 1..Len(s) : Append(s, x)[i] = s[i]
         /\ Append(s, x)[Len(s) + 1] = x
BY AppendProperties

LEMMA TailFacts ==
  ASSUME NEW S, NEW s \in Seq(S), s # <<>>
  PROVE  /\ Tail(s) \in Seq(S) /\ Len(s) \in Nat \ {0}
         /\ Len(Tail(s)) = Len(s) - 1
         /\ \A i \in 1..(Len(s) - 1) : Tail(s)[i] = s[i + 1]
         /\ Head(s) = s[1] /\ Head(s) \in S
<1>1. Len(s) \in Nat \ {0}
  BY EmptySeq
<1>2. /\ Tail(s) \in Seq(S) /\ Len(Tail(s)) = Len(s) - 1
      /\ \A i \in 1..Len(Tail(s)) : Tail(s)[i] = s[i + 1]
      /\ Head(s) \in S
  BY HeadTailProperties
<1>3. Head(s) = s[1]
  OBVIOUS
<1> QED
  BY <1>1, <1>2, <1>3

-----------------------------------------------------------------------------
LEMMA QueueInvInit == ASSUME Init PROVE QueueInv
<1> USE DEF Init
<1>1. DOMAIN latest = Properties /\ \A p \in Properties : latest[p] = "none"
  BY DEF NothingWritten, Properties
<1>2. QueueTypes
  BY <1>1 DEF QueueTypes, HostProperties, ChassisProperties
<1>3. CommandIsServed
  BY DEF CommandIsServed, Command!Init, Command!None
<1>4. Numbered
  BY DEF Numbered, Busy
<1>5. NothingBeforeBus
  BY <1>1 DEF NothingBeforeBus, Properties
<1>6. LatestKept
  BY <1>1 DEF LatestKept
<1> QED
  BY <1>2, <1>3, <1>4, <1>5, <1>6 DEF QueueInv

\* A step that leaves the queue, the objects and the command alone.
LEMMA QueueUntouched ==
  ASSUME QueueInv, UNCHANGED <<queueVars, job, last, host, chassis>>,
         NothingBeforeBus'
  PROVE  QueueInv'
<1> USE DEF QueueInv, queueVars
<1>1. QueueTypes'
  BY DEF QueueTypes
<1>2. CommandIsServed'
  BY DEF CommandIsServed
<1>3. Numbered'
  BY DEF Numbered, Busy
<1>4. LatestKept'
  BY DEF LatestKept, LatestOnItsWay, LastWaiting, NoneWaiting, Stored
<1> QED
  BY <1>1, <1>2, <1>3, <1>4

\* The objects are constructed before anyone can write to them.
LEMMA StartupKeepsQueueInv ==
  ASSUME QueueInv, Startup
  PROVE  QueueInv'
<1> USE DEF QueueInv
<1>1. CASE OpenDevice \/ ConstructPower \/ Run
  <2>1. UNCHANGED <<queueVars, job, last, host, chassis>>
    BY <1>1 DEF OpenDevice, ConstructPower, Run, commandVars, objectVars
  <2>2. NothingBeforeBus'
    BY <1>1, <2>1 DEF NothingBeforeBus, OpenDevice, ConstructPower, Run, queueVars
  <2> QED
    BY <2>1, <2>2, QueueUntouched
<1>2. CASE ConstructHost
  <2> USE <1>2 DEF ConstructHost, queueVars, commandVars
  <2>1. NothingBeforeBus'
    BY DEF NothingBeforeBus
  <2>2. QueueTypes'
    <3>1. DOMAIN host' = HostProperties
      BY DEF QueueTypes, InitialHost, HostProperties, HostDefaults
    <3> QED
      BY <3>1 DEF QueueTypes
  <2>3. CommandIsServed' /\ Numbered'
    BY DEF CommandIsServed, Numbered, Busy
  <2>4. LatestKept'
    <3>1. \A p \in HostProperties : latest'[p] = "none"
      BY DEF NothingBeforeBus
    <3>2. \A p \in ChassisProperties : p \notin HostProperties
      BY DEF HostProperties, ChassisProperties, HostDefaults, ChassisDefaults
    <3>3. ASSUME NEW p \in Properties, latest'[p] # "none"
          PROVE  LatestOnItsWay(p)'
      <4>1. p \notin HostProperties
        BY <3>1, <3>3
      <4>2. LatestOnItsWay(p)
        BY <3>3 DEF LatestKept
      <4> QED
        BY <4>1, <4>2 DEF LatestOnItsWay, LastWaiting, NoneWaiting, Stored
    <3> QED
      BY <3>3 DEF LatestKept
  <2> QED
    BY <2>1, <2>2, <2>3, <2>4
<1>3. CASE ConstructChassis
  <2> USE <1>3 DEF ConstructChassis, queueVars, commandVars
  <2>1. NothingBeforeBus'
    BY DEF NothingBeforeBus
  <2>2. QueueTypes'
    <3>1. DOMAIN chassis' = ChassisProperties
      BY DEF QueueTypes, InitialChassis, ChassisProperties, ChassisDefaults
    <3> QED
      BY <3>1 DEF QueueTypes
  <2>3. CommandIsServed' /\ Numbered'
    BY DEF CommandIsServed, Numbered, Busy
  <2>4. LatestKept'
    <3>1. \A p \in ChassisProperties : latest'[p] = "none"
      BY DEF NothingBeforeBus
    <3>3. ASSUME NEW p \in Properties, latest'[p] # "none"
          PROVE  LatestOnItsWay(p)'
      <4>1. p \in HostProperties
        BY <3>1, <3>3 DEF Properties
      <4>2. LatestOnItsWay(p)
        BY <3>3 DEF LatestKept
      <4> QED
        BY <4>1, <4>2 DEF LatestOnItsWay, LastWaiting, NoneWaiting, Stored
    <3> QED
      BY <3>3 DEF LatestKept
  <2> QED
    BY <2>1, <2>2, <2>3, <2>4
<1> QED
  BY <1>1, <1>2, <1>3 DEF Startup

-----------------------------------------------------------------------------
LEMMA ClientWritesKeepsQueueInv ==
  ASSUME QueueInv, ClientWrites
  PROVE  QueueInv'
<1> USE DEF QueueInv
<1>1. PICK r \in ClientRequests :
        /\ OnBus(r)
        /\ inbox' = Append(inbox, [id |-> sent + 1, property |-> r.property,
                                   value |-> r.value])
        /\ latest' = [latest EXCEPT ![r.property] = r.value]
  BY DEF ClientWrites
<1>2. r \in Requests
  BY ServiceAssumption DEF ServiceAssumption
<1> DEFINE w == [id |-> sent + 1, property |-> r.property, value |-> r.value]
<1>3. w \in Writes
  <2>1. sent + 1 \in Nat \ {0}
    BY DEF QueueTypes
  <2> QED
    BY <1>2, <2>1 DEF Writes
<1>4. w.id = sent + 1 /\ w.property = r.property /\ w.value = r.value
  OBVIOUS
<1>5. inbox' = Append(inbox, w)
  BY <1>1
<1> HIDE DEF w
<1>6. /\ inbox' \in Seq(Writes) /\ Len(inbox') = Len(inbox) + 1 /\ Len(inbox) \in Nat
      /\ \A i \in 1..Len(inbox) : inbox'[i] = inbox[i]
      /\ inbox'[Len(inbox) + 1] = w
  <2>1. inbox \in Seq(Writes)
    BY DEF QueueTypes
  <2>2. /\ Append(inbox, w) \in Seq(Writes) /\ Len(inbox) \in Nat
        /\ Len(Append(inbox, w)) = Len(inbox) + 1
        /\ \A i \in 1..Len(inbox) : Append(inbox, w)[i] = inbox[i]
        /\ Append(inbox, w)[Len(inbox) + 1] = w
    BY <1>3, <2>1, AppendFacts
  <2> QED
    BY <1>5, <2>2
<1>7. /\ sent' = sent + 1
      /\ UNCHANGED <<job, last, result, boot, host, chassis, serving, settled>>
  BY DEF ClientWrites, commandVars, objectVars
<1>8. r.property \in Properties
  BY <1>2, RequestShape
<1>9. QueueTypes'
  BY <1>1, <1>6, <1>7 DEF QueueTypes
<1>10. CommandIsServed'
  BY <1>7 DEF CommandIsServed
<1>11. Numbered'
  <2>1. settled \in Nat /\ Busy \in Nat /\ settled + Busy + Len(inbox) = sent
    BY DEF Numbered, Busy, QueueTypes
  <2>2. Busy' = Busy
    BY <1>7 DEF Busy
  <2>3. settled' + Busy' + Len(inbox') = sent'
    BY <1>6, <1>7, <2>1, <2>2
  <2>4. ASSUME NEW i \in 1..Len(inbox')
        PROVE  inbox'[i].id = settled' + Busy' + i
    <3>1. CASE i \in 1..Len(inbox)
      BY <1>6, <1>7, <2>2, <3>1 DEF Numbered
    <3>2. CASE i = Len(inbox) + 1
      BY <1>4, <1>6, <1>7, <2>1, <2>2, <3>2
    <3> QED
      BY <1>6, <3>1, <3>2
  <2>5. serving' # NoRequest => serving'.id = settled' + 1
    BY <1>7 DEF Numbered
  <2> QED
    BY <2>3, <2>4, <2>5 DEF Numbered
<1>12. NothingBeforeBus'
  <2>1. boot \notin {"chassis", "poll", "run"} => FALSE
    BY <1>1 DEF OnBus
  <2>2. boot = "chassis" => r.property \in HostProperties
    BY <1>1 DEF OnBus
  <2>3. \A p \in ChassisProperties : p \notin HostProperties
    BY DEF HostProperties, ChassisProperties, HostDefaults, ChassisDefaults
  <2>4. ASSUME boot \notin {"poll", "run"}, NEW p \in ChassisProperties
        PROVE  latest'[p] = "none"
    <3>1. p # r.property
      BY <2>1, <2>2, <2>3, <2>4
    <3>2. latest[p] = "none" /\ p \in DOMAIN latest
      BY <2>4 DEF NothingBeforeBus, QueueTypes, Properties
    <3> QED
      BY <1>1, <3>1, <3>2
  <2> QED
    BY <1>7, <2>1, <2>4 DEF NothingBeforeBus
<1>13. LatestKept'
  <2>1. SUFFICES ASSUME NEW p \in Properties, latest'[p] # "none"
                 PROVE  LatestOnItsWay(p)'
    BY DEF LatestKept
  <2>2. CASE p = r.property
    <3>1. latest'[p] = r.value
      BY <1>1, <2>2 DEF QueueTypes
    <3>2. LastWaiting(p)'
      BY <1>4, <1>6, <2>2, <3>1 DEF LastWaiting
    <3> QED
      BY <3>2 DEF LatestOnItsWay
  <2>3. CASE p # r.property
    <3>1. latest'[p] = latest[p]
      BY <1>1, <2>3 DEF QueueTypes
    <3>2. LatestOnItsWay(p)
      BY <2>1, <3>1 DEF LatestKept
    <3>3. LastWaiting(p) => LastWaiting(p)'
      BY <1>4, <1>6, <2>3, <3>1 DEF LastWaiting
    <3>4. NoneWaiting(p) => NoneWaiting(p)'
      BY <1>4, <1>6, <2>3 DEF NoneWaiting
    <3> QED
      BY <1>7, <3>1, <3>2, <3>3, <3>4 DEF LatestOnItsWay, Stored
  <2> QED
    BY <2>2, <2>3
<1> QED
  BY <1>9, <1>10, <1>11, <1>12, <1>13

-----------------------------------------------------------------------------
\* The oldest write leaves the queue: what is known of the others.
LEMMA HeadLeaves ==
  ASSUME QueueInv, inbox # <<>>, inbox' = Tail(inbox)
  PROVE  /\ inbox' \in Seq(Writes) /\ Len(inbox) \in Nat \ {0}
         /\ Len(inbox') = Len(inbox) - 1
         /\ \A i \in 1..(Len(inbox) - 1) : inbox'[i] = inbox[i + 1]
         /\ Head(inbox) = inbox[1] /\ Head(inbox) \in Writes
<1>1. inbox \in Seq(Writes)
  BY DEF QueueInv, QueueTypes
<1>2. /\ Tail(inbox) \in Seq(Writes) /\ Len(inbox) \in Nat \ {0}
      /\ Len(Tail(inbox)) = Len(inbox) - 1
      /\ \A i \in 1..(Len(inbox) - 1) : Tail(inbox)[i] = inbox[i + 1]
      /\ Head(inbox) = inbox[1] /\ Head(inbox) \in Writes
  BY <1>1, TailFacts
<1> QED
  BY <1>2

\* Of the writes to p, the one that leaves is the last, or the last is left.
LEMMA WaitingAfterHead ==
  ASSUME QueueInv, inbox # <<>>, inbox' = Tail(inbox), latest' = latest, NEW p
  PROVE  /\ LastWaiting(p) =>
              \/ LastWaiting(p)'
              \/ /\ NoneWaiting(p)'
                 /\ Head(inbox).property = p /\ Head(inbox).value = latest[p]
         /\ NoneWaiting(p) => NoneWaiting(p)' /\ Head(inbox).property # p
<1> USE HeadLeaves
<1>1. ASSUME LastWaiting(p)
      PROVE  \/ LastWaiting(p)'
             \/ /\ NoneWaiting(p)'
                /\ Head(inbox).property = p /\ Head(inbox).value = latest[p]
  <2>1. PICK i \in 1..Len(inbox) :
          /\ inbox[i].property = p /\ inbox[i].value = latest[p]
          /\ \A j \in 1..Len(inbox) : j > i => inbox[j].property # p
    BY <1>1 DEF LastWaiting
  <2>2. CASE i = 1
    <3>1. \A j \in 1..Len(inbox') : j + 1 \in 1..Len(inbox) /\ j + 1 > i
      BY <2>2
    <3>2. NoneWaiting(p)'
      BY <2>1, <3>1 DEF NoneWaiting
    <3> QED
      BY <2>1, <2>2, <3>2
  <2>3. CASE i # 1
    <3>1. i - 1 \in 1..Len(inbox') /\ (i - 1) + 1 = i
      BY <2>3
    <3>2. inbox'[i - 1] = inbox[i]
      BY <3>1
    <3>3. \A j \in 1..Len(inbox') : j > i - 1 =>
             /\ inbox'[j] = inbox[j + 1]
             /\ j + 1 \in 1..Len(inbox) /\ j + 1 > i
      BY <2>3
    <3>4. LastWaiting(p)'
      BY <2>1, <3>1, <3>2, <3>3 DEF LastWaiting
    <3> QED
      BY <3>4
  <2> QED
    BY <2>2, <2>3
<1>2. ASSUME NoneWaiting(p)
      PROVE  NoneWaiting(p)' /\ Head(inbox).property # p
  <2>1. Head(inbox).property # p
    BY <1>2 DEF NoneWaiting
  <2>2. \A j \in 1..Len(inbox') : inbox'[j] = inbox[j + 1] /\ j + 1 \in 1..Len(inbox)
    OBVIOUS
  <2> QED
    BY <1>2, <2>1, <2>2 DEF NoneWaiting
<1> QED
  BY <1>1, <1>2

\* What a setter's store leaves in the objects.
LEMMA StoreFacts ==
  ASSUME QueueTypes, NEW w \in Writes, Store(w)
  PROVE  /\ DOMAIN host' = HostProperties /\ DOMAIN chassis' = ChassisProperties
         /\ \A p \in Properties :
              Stored(p)' = IF p = w.property THEN w.value ELSE Stored(p)
<1>1. w.property \in Properties
  BY WriteShape
<1>2. \A p \in ChassisProperties : p \notin HostProperties
  BY DEF HostProperties, ChassisProperties, HostDefaults, ChassisDefaults
<1>3. DOMAIN host = HostProperties /\ DOMAIN chassis = ChassisProperties
  BY DEF QueueTypes
<1>4. CASE w.property \in HostProperties
  <2>1. host' = [host EXCEPT ![w.property] = w.value] /\ chassis' = chassis
    BY <1>2, <1>4 DEF Store
  <2> QED
    BY <1>3, <1>4, <2>1 DEF Stored
<1>5. CASE w.property \in ChassisProperties
  <2>1. w.property \notin HostProperties
    BY <1>2, <1>5
  <2>2. chassis' = [chassis EXCEPT ![w.property] = w.value] /\ host' = host
    BY <1>5, <2>1 DEF Store
  <2>3. \A p \in Properties : p \notin HostProperties => p \in ChassisProperties
    BY DEF Properties
  <2> QED
    BY <1>3, <2>1, <2>2, <2>3 DEF Stored
<1> QED
  BY <1>1, <1>4, <1>5 DEF Properties

LEMMA ServeStoreKeepsQueueInv ==
  ASSUME QueueInv, ServeStore
  PROVE  QueueInv'
<1> USE DEF QueueInv
<1>1. /\ inbox # <<>> /\ inbox' = Tail(inbox) /\ settled' = settled + 1
      /\ serving = NoRequest /\ Store(Head(inbox))
      /\ UNCHANGED <<job, last, boot, serving, sent, latest>>
  BY DEF ServeStore, LoopIdle, commandVars
<1>2. /\ inbox' \in Seq(Writes) /\ Len(inbox) \in Nat \ {0}
      /\ Len(inbox') = Len(inbox) - 1
      /\ \A i \in 1..(Len(inbox) - 1) : inbox'[i] = inbox[i + 1]
      /\ Head(inbox) = inbox[1] /\ Head(inbox) \in Writes
  BY <1>1, HeadLeaves
<1>3. /\ DOMAIN host' = HostProperties /\ DOMAIN chassis' = ChassisProperties
      /\ \A p \in Properties :
           Stored(p)' = IF p = Head(inbox).property THEN Head(inbox).value ELSE Stored(p)
  BY <1>1, <1>2, StoreFacts
<1>4. QueueTypes'
  BY <1>1, <1>2, <1>3 DEF QueueTypes
<1>5. CommandIsServed'
  BY <1>1 DEF CommandIsServed
<1>6. Numbered'
  <2>1. Busy = 0 /\ Busy' = 0
    BY <1>1 DEF Busy
  <2>2. settled + Len(inbox) = sent /\ settled \in Nat
    BY <2>1 DEF Numbered, QueueTypes
  <2>3. settled' + Busy' + Len(inbox') = sent'
    BY <1>1, <1>2, <2>1, <2>2
  <2>4. ASSUME NEW i \in 1..Len(inbox')
        PROVE  inbox'[i].id = settled' + Busy' + i
    <3>1. i \in 1..(Len(inbox) - 1) /\ i + 1 \in 1..Len(inbox)
      BY <1>2
    <3>2. inbox[i + 1].id = settled + Busy + (i + 1)
      BY <3>1 DEF Numbered
    <3> QED
      BY <1>1, <1>2, <2>1, <2>2, <3>1, <3>2
  <2> QED
    BY <1>1, <2>3, <2>4 DEF Numbered
<1>7. NothingBeforeBus'
  BY <1>1 DEF NothingBeforeBus
<1>8. LatestKept'
  <2>1. SUFFICES ASSUME NEW p \in Properties, latest[p] # "none"
                 PROVE  LatestOnItsWay(p)'
    BY <1>1 DEF LatestKept
  <2>2. serving.property # p /\ serving'.property # p
    <3>1. p # "none"
      BY DEF Properties, HostProperties, ChassisProperties, HostDefaults, ChassisDefaults
    <3> QED
      BY <1>1, <3>1 DEF NoRequest
  <2>3. CASE LastWaiting(p)'
    BY <2>3 DEF LatestOnItsWay
  <2>4. CASE /\ NoneWaiting(p)'
             /\ Head(inbox).property = p /\ Head(inbox).value = latest[p]
    BY <1>1, <1>3, <2>2, <2>4 DEF LatestOnItsWay
  <2>5. CASE NoneWaiting(p) /\ Stored(p) = latest[p]
    <3>1. NoneWaiting(p)' /\ Head(inbox).property # p
      BY <1>1, <2>5, WaitingAfterHead
    <3> QED
      BY <1>1, <1>3, <2>2, <2>5, <3>1 DEF LatestOnItsWay
  <2>6. \/ LastWaiting(p)
        \/ NoneWaiting(p) /\ Stored(p) = latest[p]
    BY <2>1, <2>2 DEF LatestKept, LatestOnItsWay
  <2>7. LastWaiting(p) => \/ LastWaiting(p)'
                           \/ /\ NoneWaiting(p)'
                              /\ Head(inbox).property = p /\ Head(inbox).value = latest[p]
    BY <1>1, WaitingAfterHead
  <2> QED
    BY <2>3, <2>4, <2>5, <2>6, <2>7
<1> QED
  BY <1>4, <1>5, <1>6, <1>7, <1>8

LEMMA ServeCommandKeepsQueueInv ==
  ASSUME QueueInv, ServeCommand
  PROVE  QueueInv'
<1> USE DEF QueueInv
<1>1. /\ inbox # <<>> /\ inbox' = Tail(inbox) /\ IsCommand(Head(inbox))
      /\ serving = NoRequest /\ serving' = Head(inbox)
      /\ job' = CommandOf(Head(inbox)) /\ last' = "none"
      /\ UNCHANGED <<boot, host, chassis, sent, settled, latest>>
  BY DEF ServeCommand, LoopIdle, objectVars, Command!Accept, Command!None
<1>2. /\ inbox' \in Seq(Writes) /\ Len(inbox) \in Nat \ {0}
      /\ Len(inbox') = Len(inbox) - 1
      /\ \A i \in 1..(Len(inbox) - 1) : inbox'[i] = inbox[i + 1]
      /\ Head(inbox) = inbox[1] /\ Head(inbox) \in Writes
  BY <1>1, HeadLeaves
<1>3. serving' # NoRequest
  BY <1>1, <1>2, WriteShape
<1>4. QueueTypes'
  BY <1>1, <1>2 DEF QueueTypes
<1>5. CommandIsServed'
  BY <1>1, <1>3 DEF CommandIsServed
<1>6. Numbered'
  <2>1. Busy = 0 /\ Busy' = 1
    BY <1>1, <1>3 DEF Busy
  <2>2. settled + Len(inbox) = sent /\ settled \in Nat
    BY <2>1 DEF Numbered, QueueTypes
  <2>3. settled' + Busy' + Len(inbox') = sent'
    BY <1>1, <1>2, <2>1, <2>2
  <2>4. ASSUME NEW i \in 1..Len(inbox')
        PROVE  inbox'[i].id = settled' + Busy' + i
    <3>1. i \in 1..(Len(inbox) - 1) /\ i + 1 \in 1..Len(inbox)
      BY <1>2
    <3>2. inbox[i + 1].id = settled + Busy + (i + 1)
      BY <3>1 DEF Numbered
    <3> QED
      BY <1>1, <1>2, <2>1, <2>2, <3>1, <3>2
  <2>5. serving'.id = settled' + 1
    <3>1. inbox[1].id = settled + Busy + 1
      BY <1>2 DEF Numbered
    <3> QED
      BY <1>1, <1>2, <2>1, <2>2, <3>1
  <2> QED
    BY <2>3, <2>4, <2>5 DEF Numbered
<1>7. NothingBeforeBus'
  BY <1>1 DEF NothingBeforeBus
<1>8. LatestKept'
  <2>1. SUFFICES ASSUME NEW p \in Properties, latest[p] # "none"
                 PROVE  LatestOnItsWay(p)'
    BY <1>1 DEF LatestKept
  <2>2. serving.property # p
    <3>1. p # "none"
      BY DEF Properties, HostProperties, ChassisProperties, HostDefaults, ChassisDefaults
    <3> QED
      BY <1>1, <3>1 DEF NoRequest
  <2>3. CASE LastWaiting(p)'
    BY <2>3 DEF LatestOnItsWay
  <2>4. CASE /\ NoneWaiting(p)'
             /\ Head(inbox).property = p /\ Head(inbox).value = latest[p]
    BY <1>1, <2>4 DEF LatestOnItsWay
  <2>5. CASE NoneWaiting(p) /\ Stored(p) = latest[p]
    <3>1. NoneWaiting(p)' /\ Head(inbox).property # p
      BY <1>1, <2>5, WaitingAfterHead
    <3> QED
      BY <1>1, <2>5, <3>1 DEF LatestOnItsWay, Stored
  <2>6. \/ LastWaiting(p)
        \/ NoneWaiting(p) /\ Stored(p) = latest[p]
    BY <2>1, <2>2 DEF LatestKept, LatestOnItsWay
  <2>7. LastWaiting(p) => \/ LastWaiting(p)'
                           \/ /\ NoneWaiting(p)'
                              /\ Head(inbox).property = p /\ Head(inbox).value = latest[p]
    BY <1>1, WaitingAfterHead
  <2> QED
    BY <2>3, <2>4, <2>5, <2>6, <2>7
<1> QED
  BY <1>4, <1>5, <1>6, <1>7, <1>8

\* A command makes progress for the write being served, and touches no other.
LEMMA CommandStepServes ==
  ASSUME QueueInv, CommandStep
  PROVE  /\ serving # NoRequest /\ serving \in Writes /\ IsCommand(serving)
         /\ UNCHANGED <<queueVars, boot, host, chassis, job>>
<1>1. /\ job # "none"
      /\ UNCHANGED <<queueVars, boot, host, chassis>>
  BY DEF CommandStep, objectVars, Command!None
<1>2. serving # NoRequest /\ serving \in Writes /\ IsCommand(serving)
  BY <1>1 DEF QueueInv, CommandIsServed, QueueTypes
<1>3. job' = job
  BY DEF CommandStep, Command!Deliver, Command!Conclude
<1> QED
  BY <1>1, <1>2, <1>3

LEMMA CommandStepKeepsQueueInv ==
  ASSUME QueueInv, CommandStep
  PROVE  QueueInv'
<1> USE DEF QueueInv
<1>1. UNCHANGED <<inbox, serving, sent, settled, latest, boot, host, chassis, job>>
  BY CommandStepServes DEF queueVars
<1>2. QueueTypes'
  BY <1>1 DEF QueueTypes
<1>3. CommandIsServed'
  BY <1>1 DEF CommandIsServed
<1>4. Numbered' /\ NothingBeforeBus'
  BY <1>1 DEF Numbered, Busy, NothingBeforeBus
<1>5. LatestKept'
  BY <1>1 DEF LatestKept, LatestOnItsWay, LastWaiting, NoneWaiting, Stored
<1> QED
  BY <1>2, <1>3, <1>4, <1>5

LEMMA FinishCommandKeepsQueueInv ==
  ASSUME QueueInv, FinishCommand
  PROVE  QueueInv'
<1> USE DEF QueueInv
<1>1. /\ job # "none" /\ job' = "none"
      /\ Store(serving) /\ serving' = NoRequest /\ settled' = settled + 1
      /\ UNCHANGED <<boot, inbox, sent, latest>>
  BY DEF FinishCommand, Command!HandOver, Command!None
<1>2. serving # NoRequest /\ serving \in Writes
  BY <1>1 DEF CommandIsServed, QueueTypes
<1>3. /\ DOMAIN host' = HostProperties /\ DOMAIN chassis' = ChassisProperties
      /\ \A p \in Properties :
           Stored(p)' = IF p = serving.property THEN serving.value ELSE Stored(p)
  BY <1>1, <1>2, StoreFacts
<1>4. QueueTypes'
  BY <1>1, <1>3 DEF QueueTypes
<1>5. CommandIsServed'
  BY <1>1 DEF CommandIsServed
<1>6. Numbered'
  <2>1. Busy = 1 /\ Busy' = 0
    BY <1>1, <1>2 DEF Busy
  <2>2. settled + 1 + Len(inbox) = sent /\ settled \in Nat /\ Len(inbox) \in Nat
    BY <2>1 DEF Numbered, QueueTypes
  <2>3. settled' + Busy' + Len(inbox') = sent'
    BY <1>1, <2>1, <2>2
  <2>4. ASSUME NEW i \in 1..Len(inbox')
        PROVE  inbox'[i].id = settled' + Busy' + i
    <3>1. inbox[i].id = settled + Busy + i /\ i \in Nat
      BY <1>1, <2>2 DEF Numbered
    <3> QED
      BY <1>1, <2>1, <2>2, <3>1
  <2> QED
    BY <1>1, <2>3, <2>4 DEF Numbered
<1>7. NothingBeforeBus'
  BY <1>1, <1>2 DEF NothingBeforeBus
<1>8. LatestKept'
  <2>1. SUFFICES ASSUME NEW p \in Properties, latest[p] # "none"
                 PROVE  LatestOnItsWay(p)'
    BY <1>1 DEF LatestKept
  <2>2. serving'.property # p
    <3>1. p # "none"
      BY DEF Properties, HostProperties, ChassisProperties, HostDefaults, ChassisDefaults
    <3> QED
      BY <1>1, <3>1 DEF NoRequest
  <2>3. LatestOnItsWay(p)
    BY <2>1 DEF LatestKept
  <2>4. LastWaiting(p) => LastWaiting(p)'
    BY <1>1 DEF LastWaiting
  <2>5. NoneWaiting(p) => NoneWaiting(p)'
    BY <1>1 DEF NoneWaiting
  <2>6. latest'[p] = latest[p]
    BY <1>1
  <2> QED
    BY <1>3, <2>2, <2>3, <2>4, <2>5, <2>6 DEF LatestOnItsWay
<1> QED
  BY <1>4, <1>5, <1>6, <1>7, <1>8

LEMMA CrashKeepsQueueInv ==
  ASSUME QueueInv, Crash
  PROVE  QueueInv'
<1> USE DEF QueueInv
<1>1. /\ boot' = "open" /\ job' = "none" /\ last' = "none"
      /\ host' = HostDefaults /\ chassis' = ChassisDefaults
      /\ inbox' = <<>> /\ serving' = NoRequest
      /\ sent' = sent /\ settled' = sent /\ latest' = NothingWritten
  BY DEF Crash, Command!None
<1>2. DOMAIN latest' = Properties /\ \A p \in Properties : latest'[p] = "none"
  BY <1>1 DEF NothingWritten, Properties
<1>3. QueueTypes'
  BY <1>1, <1>2 DEF QueueTypes, HostProperties, ChassisProperties
<1>4. CommandIsServed'
  BY <1>1 DEF CommandIsServed
<1>5. Numbered'
  BY <1>1 DEF Numbered, Busy, QueueTypes
<1>6. NothingBeforeBus'
  BY <1>2 DEF NothingBeforeBus, Properties
<1>7. LatestKept'
  BY <1>2 DEF LatestKept
<1> QED
  BY <1>3, <1>4, <1>5, <1>6, <1>7

-----------------------------------------------------------------------------
LEMMA QueueInvStep == ASSUME QueueInv, [Next]_vars PROVE QueueInv'
<1>1. CASE Startup
  BY <1>1, StartupKeepsQueueInv
<1>2. CASE ClientWrites
  BY <1>2, ClientWritesKeepsQueueInv
<1>3. CASE ServeStore
  BY <1>3, ServeStoreKeepsQueueInv
<1>4. CASE ServeCommand
  BY <1>4, ServeCommandKeepsQueueInv
<1>5. CASE CommandStep
  BY <1>5, CommandStepKeepsQueueInv
<1>6. CASE FinishCommand
  BY <1>6, FinishCommandKeepsQueueInv
<1>7. CASE Crash
  BY <1>7, CrashKeepsQueueInv
<1>8. CASE PollSucceeds \/ PollGetsNothing \/ McuChanges \/ UNCHANGED vars
  <2>1. UNCHANGED <<queueVars, boot, job, last, host, chassis>>
    BY <1>8 DEF PollSucceeds, PollGetsNothing, McuChanges, vars, commandVars,
                objectVars, queueVars
  <2>2. NothingBeforeBus'
    BY <2>1 DEF QueueInv, NothingBeforeBus, queueVars
  <2> QED
    BY <2>1, <2>2, QueueUntouched
<1> QED
  BY <1>1, <1>2, <1>3, <1>4, <1>5, <1>6, <1>7, <1>8 DEF Next

LEMMA QueueInvHolds == Spec => []QueueInv
<1> QED
  BY QueueInvInit, QueueInvStep, PTL DEF Spec

-----------------------------------------------------------------------------
\* What is pending: the write being served, if there is one, then the queue.
LEMMA PendingFacts ==
  ASSUME QueueInv
  PROVE  /\ Pending \in Seq(Writes)
         /\ serving = NoRequest => Pending = inbox
         /\ serving # NoRequest => /\ Len(Pending) = 1 + Len(inbox)
                                   /\ Pending = <<serving>> \o inbox
                                   /\ Pending[1] = serving
                                   /\ \A i \in 2..(1 + Len(inbox)) : Pending[i] = inbox[i - 1]
<1>1. inbox \in Seq(Writes) /\ Len(inbox) \in Nat
  BY DEF QueueInv, QueueTypes
<1>2. CASE serving = NoRequest
  BY <1>1, <1>2, EmptySeq, ConcatEmptySeq DEF Pending
<1>3. CASE serving # NoRequest
  <2>1. <<serving>> \in Seq(Writes) /\ Len(<<serving>>) = 1 /\ <<serving>>[1] = serving
    BY <1>3 DEF QueueInv, QueueTypes
  <2>2. Pending = <<serving>> \o inbox
    BY <1>3 DEF Pending
  <2>3. /\ Pending \in Seq(Writes) /\ Len(Pending) = 1 + Len(inbox)
        /\ \A i \in 1..(1 + Len(inbox)) :
              Pending[i] = IF i <= 1 THEN <<serving>>[i] ELSE inbox[i - 1]
    BY <1>1, <2>1, <2>2, ConcatProperties
  <2> QED
    BY <1>1, <1>3, <2>1, <2>2, <2>3
<1> QED
  BY <1>2, <1>3

\* Every write is served exactly once, in the order of arrival, however many
\* there are and wherever a crash cuts the queue.
THEOREM WritesAreServedInOrder == Spec => []ServedInOrder
<1>1. QueueInv => ServedInOrder
  <2> SUFFICES ASSUME QueueInv PROVE ServedInOrder
    OBVIOUS
  <2>1. inbox \in Seq(Writes) /\ Len(inbox) \in Nat /\ settled \in Nat
    BY DEF QueueInv, QueueTypes
  <2>2. /\ settled + Busy + Len(inbox) = sent
        /\ serving # NoRequest => serving.id = settled + 1
        /\ \A i \in 1..Len(inbox) : inbox[i].id = settled + Busy + i
    BY DEF QueueInv, Numbered
  <2>3. CASE serving = NoRequest
    <3>1. Pending = inbox /\ Busy = 0
      BY <2>3, PendingFacts DEF Busy
    <3> QED
      BY <2>1, <2>2, <3>1 DEF ServedInOrder
  <2>4. CASE serving # NoRequest
    <3>1. /\ Pending \in Seq(Writes) /\ Len(Pending) = 1 + Len(inbox)
          /\ Pending[1] = serving /\ Busy = 1
          /\ \A i \in 2..(1 + Len(inbox)) : Pending[i] = inbox[i - 1]
      BY <2>4, PendingFacts DEF Busy
    <3>2. ASSUME NEW i \in 1..Len(Pending)
          PROVE  Pending[i].id = settled + i
      <4>1. CASE i = 1
        BY <2>1, <2>2, <2>4, <3>1, <4>1
      <4>2. CASE i # 1
        <5>1. i - 1 \in 1..Len(inbox) /\ Pending[i] = inbox[i - 1]
          BY <2>1, <3>1, <4>2
        <5>2. inbox[i - 1].id = settled + Busy + (i - 1)
          BY <2>2, <5>1
        <5> QED
          BY <2>1, <3>1, <5>1, <5>2
      <4> QED
        BY <4>1, <4>2
    <3>3. settled + Len(Pending) = sent /\ DOMAIN Pending = 1..Len(Pending)
      BY <2>1, <2>2, <3>1
    <3> QED
      BY <3>2, <3>3 DEF ServedInOrder
  <2> QED
    BY <2>3, <2>4
<1> QED
  BY <1>1, QueueInvHolds, PTL

\* Once nothing is on its way, every property stores what was written to it
\* last, whichever commands failed.
THEOREM QuietPropertiesAreLatest == Spec => []QuietMeansLatest
<1>1. QueueInv => QuietMeansLatest
  <2> SUFFICES ASSUME QueueInv, serving = NoRequest, inbox = <<>>,
                      NEW p \in DOMAIN latest, latest[p] # "none"
               PROVE  latest[p] = Stored(p)
    BY DEF QuietMeansLatest, Stored
  <2>1. p \in Properties
    BY DEF QueueInv, QueueTypes
  <2>2. LatestOnItsWay(p)
    BY <2>1 DEF QueueInv, LatestKept
  <2>3. serving.property # p
    BY <2>1 DEF NoRequest, Properties, HostProperties, ChassisProperties,
                HostDefaults, ChassisDefaults
  <2>4. ~LastWaiting(p)
    BY DEF LastWaiting
  <2> QED
    BY <2>2, <2>3, <2>4 DEF LatestOnItsWay
<1> QED
  BY <1>1, QueueInvHolds, PTL

-----------------------------------------------------------------------------
(* Type correctness: what the objects, the cache and the command hold.     *)

HostTypes == [requestedHostTransition : DOMAIN HostCommand,
              currentHostState : HostState, restartCause : RestartCause]
ChassisTypes == [requestedPowerTransition : DOMAIN ChassisCommand,
                 currentPowerState : ChassisPowerState,
                 currentPowerStatus : {"Good", "Undefined"}]

CommandTypes ==
  /\ job \in Command!Operations \cup {"none"}
  /\ last \in PowerEvents \cup {"none"}
  /\ result \in OperationStatus \cup {"none"}
ObjectTypes == pgood \in {0, 1} /\ host \in HostTypes /\ chassis \in ChassisTypes
BoundTypes ==
  /\ boot \in {"open", "power", "host", "chassis", "poll", "run"}
  /\ sent \in 0..MaxRequests /\ crashes \in 0..MaxCrashes
StartupTypes == startup \in [host : 0..Len(reported), chassis : 0..Len(reported)]

ServiceTypes ==
  Mcu!StateTypeOK /\ CommandTypes /\ ObjectTypes /\ BoundTypes /\ StartupTypes

\* What startup stores has the properties' types, for every pair of bytes.
LEMMA InitialTypes ==
  \A state, cause : /\ InitialHost(state, cause) \in HostTypes
                    /\ InitialChassis(state, cause) \in ChassisTypes
<1> TAKE state, cause
<1>1. toHostState(state) \in HostState /\ toChassisState(state) \in ChassisPowerState
  BY DEF toHostState, toChassisState, nativeToHostState, nativeToChassisState,
         HostState, ChassisPowerState, McuPowerState,
         kSLP_S0, kSLP_S3, kSLP_S4, kSLP_S5, kSLP_LP, kSLP_Unknown
<1>2. toRestartCause(cause) \in RestartCause
  BY DEF toRestartCause, RestartCause
<1>3. toPowerStatus(cause) \in {"Good", "Undefined"}
  BY DEF toPowerStatus
<1> QED
  BY <1>1, <1>2, <1>3 DEF InitialHost, InitialChassis, HostTypes, ChassisTypes,
                          HostCommand, ChassisCommand

\* A setter stores a value of its property's type.
LEMMA StoreTypes ==
  ASSUME ObjectTypes, NEW w \in Writes, Store(w)
  PROVE  host' \in HostTypes /\ chassis' \in ChassisTypes
<1> USE DEF ObjectTypes, HostTypes, ChassisTypes
<1>1. CASE w.property \in HostProperties
  <2>1. host' = [host EXCEPT ![w.property] = w.value] /\ chassis' = chassis
    BY <1>1 DEF Store, HostProperties, ChassisProperties, HostDefaults, ChassisDefaults
  <2>2. w.property \in {"requestedHostTransition", "currentHostState", "restartCause"}
    BY <1>1 DEF HostProperties, HostDefaults
  <2> QED
    BY <2>1, <2>2, WriteShape
<1>2. CASE w.property \in ChassisProperties
  <2>1. chassis' = [chassis EXCEPT ![w.property] = w.value] /\ host' = host
    BY <1>2 DEF Store, HostProperties, ChassisProperties, HostDefaults, ChassisDefaults
  <2>2. w.property \in {"requestedPowerTransition", "currentPowerState", "currentPowerStatus"}
    BY <1>2 DEF ChassisProperties, ChassisDefaults
  <2> QED
    BY <2>1, <2>2, WriteShape
<1> QED
  BY <1>1, <1>2, WriteShape DEF Properties

LEMMA PlanTypes ==
  /\ \A w \in Writes : IsCommand(w) => CommandOf(w) \in Command!Operations
  /\ \A o \in Command!Operations : \A prev :
       Command!MayFollow(o, prev) \subseteq PowerEvents
<1>1. ASSUME NEW w \in Writes, IsCommand(w)
      PROVE  CommandOf(w) \in Command!Operations
  <2>1. CASE w.property = "requestedHostTransition"
    BY <2>1, WriteShape DEF CommandOf, HostCommand, Command!Operations, Command!Plan
  <2>2. CASE w.property = "requestedPowerTransition"
    BY <2>2, WriteShape DEF CommandOf, ChassisCommand, Command!Operations, Command!Plan
  <2> QED
    BY <1>1, <2>1, <2>2 DEF IsCommand
<1>2. ASSUME NEW o \in Command!Operations, NEW prev
      PROVE  Command!MayFollow(o, prev) \subseteq PowerEvents
  <2>1. \A i \in 1..Len(Command!Plan[o]) : Command!Plan[o][i] \in PowerEvents
    BY DEF Command!Operations, Command!Plan, PowerEvents
  <2> QED
    BY <2>1 DEF Command!MayFollow
<1> QED
  BY <1>1, <1>2

\* A read that succeeds fills both bytes, from the registers or from the stack.
LEMMA PollReadsBytes ==
  ASSUME Mcu!StateTypeOK, NEW r \in Mcu!GetStateAndTransitionCause, r.rc >= 0
  PROVE  r.resultant[1] \in Bytes /\ r.resultant[2] \in Bytes
<1>1. r \in SmbusSubaddressReadByteBlock(fd, 2, registers, BlockCounts, StackBytes)
  BY DEF Mcu!GetStateAndTransitionCause, Mcu!STATE_AND_TCAUSE_SIZE,
         Mcu!SmbusSubaddressReadByteBlock, SmbusSubaddressReadByteBlock,
         Mcu!I2C_SMBUS_BLOCK_MAX, I2C_SMBUS_BLOCK_MAX
<1>2. PICK b \in [1..2 -> StackBytes \cup {registers[i] : i \in 1..2}] : r.resultant = b
  BY <1>1 DEF SmbusSubaddressReadByteBlock
<1>3. registers[1] \in Bytes /\ registers[2] \in Bytes
  BY ServiceAssumption DEF Mcu!StateTypeOK, ServiceAssumption
<1> QED
  BY <1>2, <1>3, ServiceAssumption DEF ServiceAssumption

LEMMA ServiceTypesInit == ASSUME Init PROVE ServiceTypes
<1> USE DEF Init
<1>1. Mcu!StateTypeOK
  BY DEF Mcu!StateInit, Mcu!StateTypeOK, Mcu!Fd, Mcu!ClosedFd, Mcu!OpenFd,
         ClosedFd, Mcu!InitSequenceMcuContext, Mcu!kCapability_Unknown,
         Mcu!kSLP_Unknown, Mcu!kCause_Unknown, Mcu!Bytes
<1>2. CommandTypes
  BY DEF CommandTypes, Command!Init, Command!None
<1>3. ObjectTypes
  BY DEF ObjectTypes, HostTypes, ChassisTypes, HostDefaults, ChassisDefaults,
         HostCommand, ChassisCommand, HostState, ChassisPowerState, RestartCause
<1>4. BoundTypes
  BY ServiceAssumption DEF BoundTypes, ServiceAssumption
<1>5. StartupTypes
  <2>1. Len(reported) = 1
    BY DEF Mcu!StateInit
  <2> QED
    BY <2>1 DEF StartupTypes, NotRead
<1> QED
  BY <1>1, <1>2, <1>3, <1>4, <1>5 DEF ServiceTypes

-----------------------------------------------------------------------------
LEMMA StateTypesStep ==
  ASSUME Mcu!StateTypeOK, Next
  PROVE  Mcu!StateTypeOK'
<1> USE DEF Mcu!StateTypeOK
<1>1. CASE UNCHANGED readVars
  BY <1>1 DEF readVars
<1>2. CASE OpenDevice
  BY <1>2 DEF OpenDevice, InitSMBUSManager, Fd, ClosedFd, OpenFd, Mcu!Fd,
              Mcu!ClosedFd, Mcu!OpenFd
<1>3. CASE Run
  BY <1>3 DEF Run, Mcu!StartPolling
<1>4. CASE PollSucceeds
  <2>1. PICK r \in Mcu!GetStateAndTransitionCause :
          r.rc >= 0 /\ Mcu!CacheSystemState(r.resultant[1], r.resultant[2])
    BY <1>4 DEF PollSucceeds, Mcu!PollSucceeds
  <2>2. r.resultant[1] \in Mcu!Bytes /\ r.resultant[2] \in Mcu!Bytes
    BY <2>1, PollReadsBytes DEF Bytes, Mcu!Bytes
  <2>3. current_state' \in [capabilities : Mcu!Bytes, power_state : Mcu!Bytes,
                            transition_cause : Mcu!Bytes]
    BY <2>1, <2>2 DEF Mcu!CacheSystemState
  <2> QED
    BY <1>4, <2>3 DEF PollSucceeds, Mcu!PollSucceeds
<1>5. CASE PollGetsNothing
  BY <1>5 DEF PollGetsNothing, Mcu!PollFails, Mcu!PollTimerError
<1>6. CASE McuChanges
  BY <1>6 DEF McuChanges, Mcu!McuChanges
<1>7. CASE Crash
  BY <1>7 DEF Crash, Mcu!Fd, Mcu!ClosedFd, ClosedFd, Mcu!InitSequenceMcuContext,
              Mcu!kCapability_Unknown, Mcu!kSLP_Unknown, Mcu!kCause_Unknown, Mcu!Bytes
<1>8. CASE ConstructPower \/ ConstructHost \/ ConstructChassis \/ ClientWrites
           \/ ServeStore \/ ServeCommand \/ CommandStep \/ FinishCommand
  BY <1>1, <1>8 DEF ConstructPower, ConstructHost, ConstructChassis, ClientWrites,
                    ServeStore, ServeCommand, CommandStep, FinishCommand
<1> QED
  BY <1>2, <1>3, <1>4, <1>5, <1>6, <1>7, <1>8 DEF Next, Startup

LEMMA CommandTypesStep ==
  ASSUME QueueInv, CommandTypes, Next
  PROVE  CommandTypes'
<1> USE DEF CommandTypes
<1>1. CASE UNCHANGED commandVars
  BY <1>1 DEF commandVars
<1>2. CASE ServeCommand
  <2>1. inbox # <<>> /\ inbox' = Tail(inbox) /\ IsCommand(Head(inbox))
    BY <1>2 DEF ServeCommand
  <2>2. CommandOf(Head(inbox)) \in Command!Operations
    BY <2>1, HeadLeaves, PlanTypes
  <2> QED
    BY <1>2, <2>2 DEF ServeCommand, Command!Accept, Command!None
<1>3. CASE CommandStep
  <2>1. job \in Command!Operations
    BY <1>3 DEF CommandStep, Command!None
  <2>2. CASE \E e \in Command!MayFollow(job, last) : Command!Deliver(e)
    <3>1. PICK e \in Command!MayFollow(job, last) : Command!Deliver(e)
      BY <2>2
    <3>2. e \in PowerEvents
      BY <2>1, PlanTypes
    <3> QED
      BY <3>1, <3>2 DEF Command!Deliver, Command!None, OperationStatus
  <2>3. CASE \E r \in {"Success", "ProtocolError"} : Command!Conclude(r)
    BY <2>3 DEF Command!Conclude, OperationStatus
  <2> QED
    BY <1>3, <2>2, <2>3 DEF CommandStep
<1>4. CASE FinishCommand
  BY <1>4 DEF FinishCommand, Command!HandOver, Command!None
<1>5. CASE Crash
  BY <1>5 DEF Crash, Command!None
<1>6. CASE Startup \/ ClientWrites \/ ServeStore \/ PollSucceeds
           \/ PollGetsNothing \/ McuChanges
  BY <1>1, <1>6 DEF Startup, OpenDevice, ConstructPower, ConstructHost,
       ConstructChassis, Run, ClientWrites, ServeStore, PollSucceeds,
       PollGetsNothing, McuChanges
<1> QED
  BY <1>2, <1>3, <1>4, <1>5, <1>6 DEF Next

LEMMA ObjectTypesStep ==
  ASSUME QueueInv, ObjectTypes, Next
  PROVE  ObjectTypes'
<1> USE DEF ObjectTypes
<1>1. CASE UNCHANGED objectVars
  BY <1>1 DEF objectVars
<1>2. CASE ConstructPower
  BY <1>2 DEF ConstructPower
<1>3. CASE ConstructHost
  BY <1>3, InitialTypes DEF ConstructHost
<1>4. CASE ConstructChassis
  BY <1>4, InitialTypes DEF ConstructChassis
<1>5. CASE ServeStore
  <2>1. inbox # <<>> /\ inbox' = Tail(inbox) /\ Store(Head(inbox)) /\ pgood' = pgood
    BY <1>5 DEF ServeStore
  <2>2. Head(inbox) \in Writes
    BY <2>1, HeadLeaves
  <2> QED
    BY <2>1, <2>2, StoreTypes
<1>6. CASE FinishCommand
  <2>1. job # "none" /\ Store(serving) /\ pgood' = pgood
    BY <1>6 DEF FinishCommand, Command!HandOver, Command!None
  <2>2. serving \in Writes
    BY <2>1 DEF QueueInv, QueueTypes, CommandIsServed
  <2> QED
    BY <2>1, <2>2, StoreTypes
<1>7. CASE Crash
  BY <1>7 DEF Crash, HostTypes, ChassisTypes, HostDefaults, ChassisDefaults,
         HostCommand, ChassisCommand, HostState, ChassisPowerState, RestartCause
<1>8. CASE OpenDevice \/ Run \/ ClientWrites \/ ServeCommand \/ CommandStep
           \/ PollSucceeds \/ PollGetsNothing \/ McuChanges
  BY <1>1, <1>8 DEF OpenDevice, Run, ClientWrites, ServeCommand, CommandStep,
                    PollSucceeds, PollGetsNothing, McuChanges
<1> QED
  BY <1>2, <1>3, <1>4, <1>5, <1>6, <1>7, <1>8 DEF Next, Startup

LEMMA BoundTypesStep ==
  ASSUME BoundTypes, Next
  PROVE  BoundTypes'
<1> USE DEF BoundTypes
<1>1. CASE ClientWrites
  BY <1>1, ServiceAssumption DEF ClientWrites, ServiceAssumption
<1>2. CASE Crash
  BY <1>2, ServiceAssumption DEF Crash, ServiceAssumption
<1>3. CASE Startup
  BY <1>3 DEF Startup, OpenDevice, ConstructPower, ConstructHost, ConstructChassis,
              Run, queueVars
<1>4. CASE ServeStore \/ ServeCommand \/ CommandStep \/ FinishCommand
           \/ PollSucceeds \/ PollGetsNothing \/ McuChanges
  BY <1>4 DEF ServeStore, ServeCommand, CommandStep, FinishCommand, PollSucceeds,
              PollGetsNothing, McuChanges, queueVars
<1> QED
  BY <1>1, <1>2, <1>3, <1>4 DEF Next

\* A reading is of a pair reported by then.
LEMMA StartupTypesStep ==
  ASSUME Mcu!StateTypeOK, StartupTypes, Next
  PROVE  StartupTypes'
<1> USE DEF StartupTypes
<1>1. reported \in Seq(Reports) /\ Len(reported) \in Nat
  BY DEF Mcu!StateTypeOK
<1>2. CASE McuChanges
  <2>1. reported' = Append(reported, registers') /\ registers' \in Reports /\ startup' = startup
    BY <1>2 DEF McuChanges, Mcu!McuChanges, objectVars
  <2>2. Len(reported') = Len(reported) + 1
    BY <1>1, <2>1, AppendFacts
  <2> QED
    BY <1>1, <2>1, <2>2
<1>3. CASE ConstructHost
  <2>1. /\ UNCHANGED reported
        /\ startup' \in {startup, [startup EXCEPT !.host = Len(reported)]}
    BY <1>3 DEF ConstructHost, readVars
  <2> QED
    BY <1>1, <2>1
<1>4. CASE ConstructChassis
  <2>1. /\ UNCHANGED reported
        /\ startup' \in {startup, [startup EXCEPT !.chassis = Len(reported)]}
    BY <1>4 DEF ConstructChassis, readVars
  <2> QED
    BY <1>1, <2>1
<1>5. CASE Crash
  BY <1>1, <1>5 DEF Crash, NotRead
<1>6. CASE \/ OpenDevice \/ ConstructPower \/ Run \/ ClientWrites \/ ServeStore
           \/ ServeCommand \/ CommandStep \/ FinishCommand \/ PollSucceeds
           \/ PollGetsNothing
  BY <1>6 DEF OpenDevice, ConstructPower, Run, Mcu!StartPolling, ClientWrites,
       ServeStore, ServeCommand, CommandStep, FinishCommand, PollSucceeds,
       Mcu!PollSucceeds, PollGetsNothing, Mcu!PollFails, Mcu!PollTimerError,
       objectVars, readVars
<1> QED
  BY <1>2, <1>3, <1>4, <1>5, <1>6 DEF Next, Startup

LEMMA ServiceTypesStep ==
  ASSUME QueueInv, ServiceTypes, [Next]_vars PROVE ServiceTypes'
<1>1. CASE Next
  BY <1>1, StateTypesStep, CommandTypesStep, ObjectTypesStep, BoundTypesStep,
     StartupTypesStep DEF ServiceTypes
<1>2. CASE UNCHANGED vars
  BY <1>2 DEF vars, ServiceTypes, Mcu!StateTypeOK, CommandTypes, ObjectTypes,
              BoundTypes, StartupTypes
<1> QED
  BY <1>1, <1>2

\* The objects never hold a value D-Bus has no name for, whatever bytes the MCU
\* and the stack supply and whatever clients write.
THEOREM ServiceTypeCorrect == Spec => []ServiceTypeOK
<1>1. QueueInv /\ ServiceTypes /\ [Next]_vars => ServiceTypes'
  BY ServiceTypesStep
<1>2. QueueInv /\ ServiceTypes => ServiceTypeOK
  <2> SUFFICES ASSUME QueueInv, ServiceTypes PROVE ServiceTypeOK
    OBVIOUS
  <2>1. \A i \in DOMAIN inbox :
          inbox[i].id \in Nat /\ inbox[i].property \in HostProperties \cup ChassisProperties
    <3>1. \A i \in DOMAIN inbox : inbox[i] \in Writes
      BY DEF QueueInv, QueueTypes
    <3> QED
      BY <3>1, WriteShape DEF Properties
  <2>2. serving.id \in Nat
    BY WriteShape DEF QueueInv, QueueTypes, NoRequest
  <2>3. settled \in 0..sent
    <3>1. /\ settled \in Nat /\ sent \in Nat /\ Len(inbox) \in Nat /\ Busy \in Nat
          /\ settled + Busy + Len(inbox) = sent
      BY DEF QueueInv, QueueTypes, Numbered, Busy
    <3> QED
      BY <3>1
  <2> QED
    BY <2>1, <2>2, <2>3 DEF ServiceTypeOK, ServiceTypes, CommandTypes, ObjectTypes,
                            BoundTypes, StartupTypes, HostTypes, ChassisTypes
<1> QED
  BY <1>1, <1>2, ServiceTypesInit, QueueInvHolds, PTL DEF Spec

-----------------------------------------------------------------------------
(* What startup read, and what the writes since then have not touched.     *)

\* A write on its way has marked its property as written, and commands are
\* executed in the event loop only.
WrittenFirst ==
  /\ \A i \in 1..Len(inbox) : latest[inbox[i].property] # "none"
  /\ serving # NoRequest => latest[serving.property] # "none" /\ boot = "run"

RegistersAreLatest == Len(reported) > 0 /\ registers = reported[Len(reported)]

\* From Host's construction on, what nobody wrote is what was read.
StartedFrom ==
  /\ boot = "chassis" => startup.chassis = 0
  /\ startup.chassis > 0 => startup.host <= startup.chassis
  /\ snapshot > 0 => startup.host <= snapshot /\ startup.chassis <= snapshot
  /\ Unwritten(host, HostReading(startup.host))
  /\ Unwritten(chassis, ChassisReading(startup.chassis))

StartupInv ==
  /\ WrittenFirst /\ RegistersAreLatest
  /\ boot # "run" => snapshot = 0
  /\ boot \in {"open", "power", "host"} => host = HostDefaults /\ startup = NotRead
  /\ boot \in {"open", "power", "host", "chassis"} => chassis = ChassisDefaults
  /\ boot \in {"chassis", "poll", "run"} => StartedFrom

\* The history of reports only grows.
LEMMA ReportsGrow ==
  ASSUME QueueInv, ServiceTypes, RegistersAreLatest, [Next]_vars
  PROVE  /\ RegistersAreLatest'
         /\ Len(reported) \in Nat /\ Len(reported') \in Nat
         /\ Len(reported) <= Len(reported')
         /\ \A i \in 1..Len(reported) : reported'[i] = reported[i]
<1>1. reported \in Seq(Reports) /\ Len(reported) \in Nat
  BY DEF ServiceTypes, Mcu!StateTypeOK
<1>2. CASE McuChanges
  <2>1. registers' \in Reports /\ reported' = Append(reported, registers')
    BY <1>2 DEF McuChanges, Mcu!McuChanges
  <2>2. /\ Len(Append(reported, registers')) = Len(reported) + 1
        /\ \A i \in 1..Len(reported) : Append(reported, registers')[i] = reported[i]
        /\ Append(reported, registers')[Len(reported) + 1] = registers'
    BY <1>1, <2>1, AppendFacts
  <2> QED
    BY <1>1, <2>1, <2>2 DEF RegistersAreLatest
<1>3. CASE UNCHANGED <<registers, reported>>
  BY <1>1, <1>3 DEF RegistersAreLatest
<1>4. McuChanges \/ UNCHANGED <<registers, reported>>
  BY DEF Next, vars, Startup, OpenDevice, ConstructPower, ConstructHost,
     ConstructChassis, Run, Mcu!StartPolling, ClientWrites, ServeStore, ServeCommand,
     CommandStep, FinishCommand, PollSucceeds, Mcu!PollSucceeds, PollGetsNothing,
     Mcu!PollFails, Mcu!PollTimerError, Crash, readVars
<1> QED
  BY <1>2, <1>3, <1>4

\* A write marks its property before anything of it is stored.
LEMMA WrittenFirstStep ==
  ASSUME QueueInv, WrittenFirst, [Next]_vars
  PROVE  WrittenFirst'
<1> USE DEF WrittenFirst
<1>1. CASE ClientWrites
  <2>1. PICK r \in ClientRequests :
          /\ inbox' = Append(inbox, [id |-> sent + 1, property |-> r.property,
                                     value |-> r.value])
          /\ latest' = [latest EXCEPT ![r.property] = r.value]
    BY <1>1 DEF ClientWrites
  <2>2. r \in Requests
    BY ServiceAssumption DEF ServiceAssumption
  <2>3. r.value # "none" /\ r.property \in DOMAIN latest
    BY <2>2, RequestShape DEF QueueInv, QueueTypes
  <2>4. \A p \in Properties : latest[p] # "none" => latest'[p] # "none"
    BY <2>1, <2>3 DEF QueueInv, QueueTypes
  <2>5. latest'[r.property] # "none"
    BY <2>1, <2>3
  <2>6. inbox \in Seq(Writes) /\ sent + 1 \in Nat \ {0} /\ Len(inbox) \in Nat
    BY DEF QueueInv, QueueTypes
  <2> DEFINE w == [id |-> sent + 1, property |-> r.property, value |-> r.value]
  <2>7. w \in Writes /\ w.property = r.property
    BY <2>2, <2>6 DEF Writes
  <2>8. inbox' = Append(inbox, w)
    BY <2>1
  <2> HIDE DEF w
  <2>9. /\ Len(Append(inbox, w)) = Len(inbox) + 1
        /\ \A i \in 1..Len(inbox) : Append(inbox, w)[i] = inbox[i]
        /\ Append(inbox, w)[Len(inbox) + 1] = w
    BY <2>6, <2>7, AppendFacts
  <2>10. ASSUME NEW i \in 1..Len(inbox')
         PROVE  latest'[inbox'[i].property] # "none"
    <3>1. CASE i \in 1..Len(inbox)
      <4>1. inbox[i] \in Writes /\ inbox'[i] = inbox[i]
        BY <2>6, <2>8, <2>9, <3>1
      <4> QED
        BY <2>4, <3>1, <4>1, WriteShape
    <3>2. CASE i = Len(inbox) + 1
      BY <2>5, <2>7, <2>8, <2>9, <3>2
    <3> QED
      BY <2>6, <2>8, <2>9, <3>1, <3>2
  <2>11. serving' # NoRequest => latest'[serving'.property] # "none" /\ boot' = "run"
    <3>1. serving' = serving /\ boot' = boot
      BY <1>1 DEF ClientWrites
    <3>2. serving # NoRequest => serving.property \in Properties
      BY WriteShape DEF QueueInv, QueueTypes
    <3> QED
      BY <2>4, <3>1, <3>2
  <2> QED
    BY <2>10, <2>11
<1>2. CASE ServeStore \/ ServeCommand
  <2>1. /\ inbox # <<>> /\ inbox' = Tail(inbox) /\ boot = "run" /\ boot' = boot
        /\ latest' = latest /\ serving = NoRequest
        /\ serving' \in {NoRequest, Head(inbox)}
    BY <1>2 DEF ServeStore, ServeCommand, LoopIdle
  <2>2. /\ Len(inbox) \in Nat \ {0} /\ Len(inbox') = Len(inbox) - 1
        /\ \A i \in 1..(Len(inbox) - 1) : inbox'[i] = inbox[i + 1]
        /\ Head(inbox) = inbox[1]
    BY <2>1, HeadLeaves
  <2>3. \A i \in 1..Len(inbox') : i + 1 \in 1..Len(inbox) /\ inbox'[i] = inbox[i + 1]
    BY <2>2
  <2>4. latest[Head(inbox).property] # "none"
    BY <2>2
  <2> QED
    BY <2>1, <2>3, <2>4
<1>3. CASE FinishCommand
  BY <1>3 DEF FinishCommand
<1>4. CASE Crash
  BY <1>4 DEF Crash
<1>5. CASE Run
  BY <1>5 DEF Run, queueVars
<1>6. CASE \/ OpenDevice \/ ConstructPower \/ ConstructHost \/ ConstructChassis
  <2>1. boot # "run" /\ UNCHANGED queueVars
    BY <1>6 DEF OpenDevice, ConstructPower, ConstructHost, ConstructChassis
  <2> QED
    BY <2>1 DEF queueVars
<1>7. CASE \/ CommandStep \/ PollSucceeds \/ PollGetsNothing \/ McuChanges
           \/ UNCHANGED vars
  <2>1. UNCHANGED <<inbox, serving, latest, boot>>
    BY <1>7 DEF CommandStep, PollSucceeds, PollGetsNothing, McuChanges, vars, queueVars
  <2> QED
    BY <2>1
<1> QED
  BY <1>1, <1>2, <1>3, <1>4, <1>5, <1>6, <1>7 DEF Next, Startup

\* A step that stores nothing in a property nobody wrote leaves the startup
\* readings in place, whatever it polls.
LEMMA ReadingsKept ==
  ASSUME QueueInv, QueueInv', StartedFrom, StartupTypes,
         Len(reported) \in Nat, startup' = startup,
         snapshot' \in {snapshot, Len(reported)},
         \A i \in 1..Len(reported) : reported'[i] = reported[i],
         boot' = "chassis" => boot = "chassis",
         \A p \in HostProperties :
            latest'[p] = "none" => latest[p] = "none" /\ host'[p] = host[p],
         \A p \in ChassisProperties :
            latest'[p] = "none" => latest[p] = "none" /\ chassis'[p] = chassis[p]
  PROVE  StartedFrom'
<1>1. startup.host \in 0..Len(reported) /\ startup.chassis \in 0..Len(reported)
  BY DEF StartupTypes
<1>2. DOMAIN host = HostProperties /\ DOMAIN host' = HostProperties
      /\ DOMAIN chassis = ChassisProperties /\ DOMAIN chassis' = ChassisProperties
  BY DEF QueueInv, QueueTypes
<1>3. /\ HostReading(startup.host)' = HostReading(startup.host)
      /\ ChassisReading(startup.chassis)' = ChassisReading(startup.chassis)
  BY <1>1 DEF HostReading, ChassisReading
<1>4. \A p \in DOMAIN host' :
         latest'[p] = "none" => host'[p] = HostReading(startup.host)'[p]
  BY <1>2, <1>3 DEF StartedFrom, Unwritten
<1>5. \A p \in DOMAIN chassis' :
         latest'[p] = "none" => chassis'[p] = ChassisReading(startup.chassis)'[p]
  BY <1>2, <1>3 DEF StartedFrom, Unwritten
<1>6. snapshot' > 0 => startup'.host <= snapshot' /\ startup'.chassis <= snapshot'
  BY <1>1 DEF StartedFrom
<1> QED
  BY <1>4, <1>5, <1>6 DEF StartedFrom, Unwritten

\* A full read is what the MCU holds, the pair it reported last.
LEMMA FullRead ==
  ASSUME BlockCounts = {2}, NEW r \in Mcu!GetStateAndTransitionCause, r.rc >= 0
  PROVE  r.resultant[1] = registers[1] /\ r.resultant[2] = registers[2]
<1>1. r \in SmbusSubaddressReadByteBlock(fd, 2, registers, BlockCounts, StackBytes)
  BY DEF Mcu!GetStateAndTransitionCause, Mcu!STATE_AND_TCAUSE_SIZE,
         Mcu!SmbusSubaddressReadByteBlock, SmbusSubaddressReadByteBlock,
         Mcu!I2C_SMBUS_BLOCK_MAX, I2C_SMBUS_BLOCK_MAX
<1>2. PICK n \in BlockCounts,
           b \in [1..2 -> StackBytes \cup {registers[i] : i \in 1..2}] :
        /\ \A i \in 1..2 : IF i <= n THEN b[i] = registers[i] ELSE b[i] \in StackBytes
        /\ r.resultant = b
  BY <1>1 DEF SmbusSubaddressReadByteBlock
<1> QED
  BY <1>2

LEMMA FullReads ==
  ASSUME BlockCounts = {2}, RegistersAreLatest,
         NEW r \in Mcu!GetStateAndTransitionCause, r.rc >= 0
  PROVE  /\ r.resultant[1] = reported[Len(reported)][1]
         /\ r.resultant[2] = reported[Len(reported)][2]
BY FullRead DEF RegistersAreLatest

LEMMA StartupInvInit == ASSUME Init PROVE StartupInv
BY DEF Init, Mcu!StateInit, StartupInv, WrittenFirst, RegistersAreLatest

\* The steps of main up to Chassis, each of which may add a reading.
LEMMA ConstructionKeepsReadings ==
  ASSUME QueueInv, QueueInv', ServiceTypes, StartupInv, BlockCounts = {2},
         ConstructHost \/ ConstructChassis
  PROVE  StartedFrom'
<1>1. RegistersAreLatest /\ Len(reported) \in Nat /\ Len(reported) > 0
      /\ reported' = reported
  BY DEF StartupInv, RegistersAreLatest, ServiceTypes, Mcu!StateTypeOK,
         ConstructHost, ConstructChassis, readVars
<1>2. DOMAIN host = HostProperties /\ DOMAIN host' = HostProperties
      /\ DOMAIN chassis = ChassisProperties /\ DOMAIN chassis' = ChassisProperties
  BY DEF QueueInv, QueueTypes
<1>3. snapshot' = 0
  BY DEF StartupInv, ConstructHost, ConstructChassis, readVars
<1>4. CASE ConstructHost
  <2>1. boot = "host" /\ boot' = "chassis" /\ chassis' = chassis
    BY <1>4 DEF ConstructHost
  <2>2. host = HostDefaults /\ chassis = ChassisDefaults /\ startup = NotRead
    BY <2>1 DEF StartupInv
  <2>3. PICK r \in Mcu!GetStateAndTransitionCause :
          \/ r.rc < 0 /\ UNCHANGED <<host, startup>>
          \/ /\ r.rc >= 0
             /\ host' = InitialHost(r.resultant[1], r.resultant[2])
             /\ startup' = [startup EXCEPT !.host = Len(reported)]
    BY <1>4 DEF ConstructHost
  <2>4. startup'.chassis = 0
    BY <2>2, <2>3 DEF NotRead
  <2>5. host' = HostReading(startup.host)'
    <3>1. CASE UNCHANGED <<host, startup>>
      BY <2>2, <3>1 DEF HostReading, NotRead
    <3>2. CASE /\ r.rc >= 0
               /\ host' = InitialHost(r.resultant[1], r.resultant[2])
               /\ startup' = [startup EXCEPT !.host = Len(reported)]
      <4>1. startup'.host = Len(reported)
        BY <2>2, <3>2 DEF NotRead
      <4>2. host' = InitialHost(reported[Len(reported)][1], reported[Len(reported)][2])
        BY <1>1, <3>2, FullReads
      <4> QED
        BY <1>1, <4>1, <4>2 DEF HostReading
    <3> QED
      BY <2>3, <3>1, <3>2
  <2>6. chassis' = ChassisReading(startup.chassis)'
    BY <2>1, <2>2, <2>4 DEF ChassisReading
  <2> QED
    BY <1>3, <2>4, <2>5, <2>6 DEF StartedFrom, Unwritten
<1>5. CASE ConstructChassis
  <2>1. boot = "chassis" /\ boot' = "poll" /\ host' = host /\ latest' = latest
    BY <1>5 DEF ConstructChassis, queueVars
  <2>2. chassis = ChassisDefaults /\ StartedFrom /\ startup.chassis = 0
    BY <2>1 DEF StartupInv, StartedFrom
  <2>3. startup \in [host : 0..Len(reported), chassis : 0..Len(reported)]
    BY DEF ServiceTypes, StartupTypes
  <2>4. PICK r \in Mcu!GetStateAndTransitionCause :
          \/ r.rc < 0 /\ UNCHANGED <<chassis, startup>>
          \/ /\ r.rc >= 0
             /\ chassis' = InitialChassis(r.resultant[1], r.resultant[2])
             /\ startup' = [startup EXCEPT !.chassis = Len(reported)]
    BY <1>5 DEF ConstructChassis
  <2>5. startup'.host = startup.host /\ startup'.chassis \in {0, Len(reported)}
    BY <2>2, <2>3, <2>4
  <2>6. chassis' = ChassisReading(startup.chassis)'
    <3>1. CASE UNCHANGED <<chassis, startup>>
      BY <2>2, <3>1 DEF ChassisReading
    <3>2. CASE /\ r.rc >= 0
               /\ chassis' = InitialChassis(r.resultant[1], r.resultant[2])
               /\ startup' = [startup EXCEPT !.chassis = Len(reported)]
      <4>1. startup'.chassis = Len(reported)
        BY <2>3, <3>2
      <4>2. chassis' = InitialChassis(reported[Len(reported)][1],
                                      reported[Len(reported)][2])
        BY <1>1, <3>2, FullReads
      <4> QED
        BY <1>1, <4>1, <4>2 DEF ChassisReading
    <3> QED
      BY <2>4, <3>1, <3>2
  <2>7. HostReading(startup.host)' = HostReading(startup.host)
    BY <1>1, <2>5 DEF HostReading
  <2>8. \A p \in DOMAIN host' :
          latest'[p] = "none" => host'[p] = HostReading(startup.host)'[p]
    BY <2>1, <2>2, <2>7 DEF StartedFrom, Unwritten
  <2>9. startup'.chassis > 0 => startup'.host <= startup'.chassis
    BY <1>1, <2>3, <2>5
  <2> QED
    BY <1>3, <2>1, <2>6, <2>8, <2>9 DEF StartedFrom, Unwritten
<1> QED
  BY <1>4, <1>5

LEMMA StartupInvStep ==
  ASSUME QueueInv, QueueInv', ServiceTypes, StartupInv, BlockCounts = {2}, [Next]_vars
  PROVE  StartupInv'
<1>1. /\ RegistersAreLatest'
      /\ Len(reported) \in Nat /\ Len(reported') \in Nat
      /\ Len(reported) <= Len(reported')
      /\ \A i \in 1..Len(reported) : reported'[i] = reported[i]
  BY ReportsGrow DEF StartupInv
<1>2. WrittenFirst'
  BY WrittenFirstStep DEF StartupInv
<1>3. CASE Crash
  BY <1>1, <1>2, <1>3 DEF Crash, StartupInv
<1>4. CASE OpenDevice \/ ConstructPower
  <2>1. /\ boot \in {"open", "power"} /\ boot' \in {"power", "host"}
        /\ UNCHANGED <<host, chassis, startup, snapshot>>
    BY <1>4 DEF OpenDevice, ConstructPower, objectVars, readVars
  <2> QED
    BY <1>1, <1>2, <2>1 DEF StartupInv
<1>5. CASE ConstructHost \/ ConstructChassis
  <2>1. StartedFrom'
    BY <1>5, ConstructionKeepsReadings
  <2>2. \/ boot = "host" /\ boot' = "chassis" /\ chassis' = chassis
        \/ boot' = "poll"
    BY <1>5 DEF ConstructHost, ConstructChassis
  <2>3. snapshot' = 0
    BY <1>5 DEF StartupInv, ConstructHost, ConstructChassis, readVars
  <2> QED
    BY <1>1, <1>2, <2>1, <2>2, <2>3 DEF StartupInv
<1>6. CASE Run \/ ClientWrites \/ CommandStep \/ ServeCommand \/ PollSucceeds
           \/ PollGetsNothing \/ McuChanges \/ UNCHANGED vars
  <2>1. /\ UNCHANGED <<host, chassis, startup>>
        /\ boot' = boot \/ (boot = "poll" /\ boot' = "run")
        /\ snapshot' = snapshot \/ (boot = "run" /\ snapshot' = Len(reported))
    BY <1>6 DEF Run, Mcu!StartPolling, ClientWrites, CommandStep, ServeCommand,
                PollSucceeds, Mcu!PollSucceeds, LoopIdle, PollGetsNothing,
                Mcu!PollFails, Mcu!PollTimerError, McuChanges, Mcu!McuChanges,
                vars, objectVars, readVars
  <2>2. \A p \in Properties : latest'[p] = "none" => latest[p] = "none"
    <3>1. CASE ClientWrites
      <4>1. PICK r \in ClientRequests : latest' = [latest EXCEPT ![r.property] = r.value]
        BY <3>1 DEF ClientWrites
      <4>2. r.value # "none"
        BY ServiceAssumption, RequestShape DEF ServiceAssumption
      <4> QED
        BY <4>1, <4>2 DEF QueueInv, QueueTypes
    <3>2. CASE UNCHANGED latest
      BY <3>2
    <3> QED
      BY <1>6, <3>1, <3>2 DEF Run, CommandStep, ServeCommand, PollSucceeds,
           PollGetsNothing, McuChanges, vars, queueVars
  <2>3. StartedFrom => StartedFrom'
    BY <1>1, <2>1, <2>2, ReadingsKept DEF Properties, ServiceTypes
  <2> QED
    BY <1>1, <1>2, <2>1, <2>3 DEF StartupInv
<1>7. CASE ServeStore \/ FinishCommand
  <2> DEFINE w == IF ServeStore THEN Head(inbox) ELSE serving
  <2>1. boot = "run" /\ boot' = boot /\ latest' = latest
    <3>1. CASE ServeStore
      BY <3>1 DEF ServeStore, LoopIdle
    <3>2. CASE FinishCommand
      <4>1. serving # NoRequest
        BY <3>2 DEF FinishCommand, Command!HandOver, Command!None, QueueInv, CommandIsServed
      <4> QED
        BY <3>2, <4>1 DEF FinishCommand, StartupInv, WrittenFirst
    <3> QED
      BY <1>7, <3>1, <3>2
  <2>2. w \in Writes /\ Store(w) /\ latest[w.property] # "none"
    <3>1. CASE ServeStore
      <4>1. inbox # <<>> /\ inbox' = Tail(inbox) /\ Store(Head(inbox))
        BY <3>1 DEF ServeStore
      <4>2. Head(inbox) \in Writes /\ Head(inbox) = inbox[1] /\ 1 \in 1..Len(inbox)
        BY <4>1, HeadLeaves
      <4> QED
        BY <3>1, <4>1, <4>2 DEF StartupInv, WrittenFirst
    <3>2. CASE FinishCommand /\ ~ServeStore
      <4>1. serving # NoRequest /\ Store(serving)
        BY <3>2 DEF FinishCommand, Command!HandOver, Command!None, QueueInv, CommandIsServed
      <4> QED
        BY <3>2, <4>1 DEF StartupInv, WrittenFirst, QueueInv, QueueTypes
    <3> QED
      BY <1>7, <3>1, <3>2
  <2> HIDE DEF w
  <2>3. \A p \in Properties : p # w.property => Stored(p)' = Stored(p)
    BY <2>2, StoreFacts DEF QueueInv
  <2>4. \A p \in Properties : latest[p] = "none" => Stored(p)' = Stored(p)
    BY <2>2, <2>3
  <2>5. /\ \A p \in HostProperties : latest[p] = "none" => host'[p] = host[p]
        /\ \A p \in ChassisProperties : latest[p] = "none" => chassis'[p] = chassis[p]
    <3>1. \A p \in ChassisProperties : p \notin HostProperties
      BY DEF HostProperties, ChassisProperties, HostDefaults, ChassisDefaults
    <3> QED
      BY <2>4, <3>1 DEF Stored, Properties
  <2>6. StartedFrom
    BY <2>1 DEF StartupInv
  <2>7. UNCHANGED <<startup, snapshot>>
    BY <1>7 DEF ServeStore, FinishCommand, readVars
  <2>8. StartedFrom'
    BY <1>1, <2>1, <2>5, <2>6, <2>7, ReadingsKept DEF ServiceTypes
  <2> QED
    BY <1>1, <1>2, <2>1, <2>7, <2>8 DEF StartupInv
<1> QED
  BY <1>3, <1>4, <1>5, <1>6, <1>7 DEF Next, Startup

\* With an adapter that reads in full, a property nobody wrote stays what its
\* object's one reading at this startup said, through every poll, command,
\* write to another property and change of the MCU; Chassis' reading is no
\* older than Host's, and what readers are shown is no older than both.  For
\* any number of changes, writes and restarts.
THEOREM StartupReadingsAreKept ==
  ASSUME BlockCounts = {2}
  PROVE  Spec => []StartupReadingsStay
<1>1. QueueInv /\ QueueInv' /\ ServiceTypes /\ StartupInv /\ [Next]_vars => StartupInv'
  BY StartupInvStep
<1>2. QueueInv /\ ServiceTypes /\ [Next]_vars => ServiceTypes'
  BY ServiceTypesStep
<1>3. StartupInv => StartupReadingsStay
  BY DEF StartupInv, StartedFrom, StartupReadingsStay
<1> QED
  BY <1>1, <1>2, <1>3, StartupInvInit, ServiceTypesInit, QueueInvHolds, PTL DEF Spec

-----------------------------------------------------------------------------
(* The two objects are one store behind one queue.                         *)

Contents == StoredIn(host, chassis)

\* A write's store is the store of one property, whichever object has it, or
\* of none that is read back.
LEMMA StoredOnce ==
  ASSUME QueueInv, NEW w \in Writes, Store(w)
  PROVE  Contents' = [p \in DOMAIN Contents |->
                        IF p = w.property THEN w.value ELSE Contents[p]]
<1>1. \A p \in Properties : Stored(p)' = IF p = w.property THEN w.value ELSE Stored(p)
  BY StoreFacts DEF QueueInv
<1>2. StoredProperties \subseteq Properties
  BY DEF StoredProperties, Properties, HostProperties, ChassisProperties,
         HostDefaults, ChassisDefaults
<1>3. DOMAIN Contents = StoredProperties
      /\ \A p \in StoredProperties : Contents[p] = Stored(p)
  BY DEF Contents, StoredIn, Stored
<1>4. Contents' = [p \in StoredProperties |-> Stored(p)']
  BY DEF Contents, StoredIn, Stored
<1> QED
  BY <1>1, <1>2, <1>3, <1>4

\* A new write is pending last.
LEMMA NewWritePending ==
  ASSUME QueueInv, NEW w \in Writes, inbox' = Append(inbox, w), serving' = serving
  PROVE  Pending' = Append(Pending, w)
<1>1. inbox \in Seq(Writes) /\ Len(inbox) \in Nat
  BY DEF QueueInv, QueueTypes
<1>2. /\ inbox' \in Seq(Writes) /\ Len(inbox') = Len(inbox) + 1
      /\ \A i \in 1..Len(inbox) : inbox'[i] = inbox[i]
      /\ inbox'[Len(inbox) + 1] = w
  BY <1>1, AppendFacts
<1>3. CASE serving = NoRequest
  <2>1. Pending = inbox
    BY <1>3, PendingFacts
  <2>2. Pending' = inbox'
    BY <1>2, <1>3, EmptySeq, ConcatEmptySeq DEF Pending
  <2> QED
    BY <2>1, <2>2
<1>4. CASE serving # NoRequest
  <2>1. Pending = <<serving>> \o inbox /\ Pending' = <<serving>> \o inbox'
    BY <1>4 DEF Pending
  <2>2. <<serving>> \in Seq(Writes) /\ <<w>> \in Seq(Writes)
    BY <1>4 DEF QueueInv, QueueTypes
  <2>3. inbox' = inbox \o <<w>>
    BY <1>1, AppendIsConcat
  <2>4. Pending' = (<<serving>> \o inbox) \o <<w>>
    BY <1>1, <2>1, <2>2, <2>3, ConcatAssociative
  <2>5. Append(Pending, w) = Pending \o <<w>>
    BY PendingFacts, AppendIsConcat
  <2> QED
    BY <2>1, <2>4, <2>5
<1> QED
  BY <1>3, <1>4

\* A command that starts leaves what is pending alone.
LEMMA StartedStaysPending ==
  ASSUME QueueInv, serving = NoRequest, inbox # <<>>,
         serving' = Head(inbox), inbox' = Tail(inbox)
  PROVE  Pending' = Pending
<1>1. inbox \in Seq(Writes)
  BY DEF QueueInv, QueueTypes
<1>2. Head(inbox) \in Writes /\ Tail(inbox) \in Seq(Writes)
  BY HeadLeaves
<1>3. Head(inbox) # NoRequest
  BY <1>2, WriteShape
<1>4. Pending' = <<Head(inbox)>> \o Tail(inbox)
  BY <1>3 DEF Pending
<1>5. <<Head(inbox)>> \o Tail(inbox) = inbox
  BY <1>1, HeadTailProperties
<1>6. Pending = inbox
  BY PendingFacts
<1> QED
  BY <1>4, <1>5, <1>6

\* What is settled was pending first.
LEMMA SettledWasFirst ==
  ASSUME QueueInv
  PROVE  /\ serving = NoRequest /\ inbox # <<>> =>
              Pending # <<>> /\ Head(Pending) = Head(inbox) /\ Tail(Pending) = Tail(inbox)
         /\ serving # NoRequest =>
              Pending # <<>> /\ Head(Pending) = serving /\ Tail(Pending) = inbox
<1>1. CASE serving = NoRequest
  BY <1>1, PendingFacts
<1>2. CASE serving # NoRequest
  <2>1. inbox \in Seq(Writes) /\ serving \in Writes
    BY <1>2 DEF QueueInv, QueueTypes
  <2>2. Pending = <<serving>> \o inbox /\ Pending[1] = serving /\ Len(Pending) = 1 + Len(inbox)
    BY <1>2, PendingFacts
  <2>3. Pending # <<>> /\ Head(Pending) = serving /\ Pending \in Seq(Writes)
    BY <2>1, <2>2, PendingFacts
  <2>4. Tail(Pending) = inbox
    BY <1>2, <2>1, <2>2, <2>3, PendingFacts, HeadTailProperties, SeqEqual
  <2> QED
    BY <1>2, <2>3, <2>4
<1> QED
  BY <1>1, <1>2


\* What a step does to the store and its queue.
LEMMA StoreStep ==
  ASSUME QueueInv, WrittenFirst, [Next]_vars
  PROVE  [Objects!StoreNext]_(Objects!storeVars)
<1> USE DEF Objects!StoreNext
<1>1. CASE ClientWrites
  <2>1. PICK r \in ClientRequests :
          inbox' = Append(inbox, [id |-> sent + 1, property |-> r.property,
                                  value |-> r.value])
    BY <1>1 DEF ClientWrites
  <2> DEFINE w == [id |-> sent + 1, property |-> r.property, value |-> r.value]
  <2>2. sent < MaxRequests /\ sent \in Nat /\ MaxRequests \in Nat
    BY <1>1, ServiceAssumption DEF ClientWrites, ServiceAssumption, QueueInv, QueueTypes
  <2>3. sent + 1 \in 1..MaxRequests /\ sent + 1 \in Nat \ {0}
    BY <2>2, SMT
  <2>4. r \in ClientRequests /\ r \in Requests
    BY <2>1, ServiceAssumption DEF ServiceAssumption
  <2> DEFINE n == sent + 1
  <2>5. n \in 1..MaxRequests /\ n \in Nat \ {0}
        /\ w = [id |-> n, property |-> r.property, value |-> r.value]
    BY <2>3
  <2> HIDE DEF n, w
  <2>6. w \in {[id |-> m, property |-> q.property, value |-> q.value] :
                 m \in 1..MaxRequests, q \in ClientRequests}
    BY <2>4, <2>5, SMTT(30)
  <2>7. w \in Writes
    BY <2>4, <2>5, SMTT(30) DEF Writes
  <2> USE DEF w
  <2>8. inbox' = Append(inbox, w)
    BY <2>1
  <2> HIDE DEF w
  <2>9. Pending' = Append(Pending, w)
    BY <1>1, <2>7, <2>8, NewWritePending DEF ClientWrites
  <2>10. boot' = boot /\ Contents' = Contents
    BY <1>1 DEF ClientWrites, objectVars, Contents, StoredIn
  <2> QED
    BY <2>6, <2>9, <2>10 DEF Objects!Send, Contents
<1>2. CASE ServeCommand
  <2>1. Pending' = Pending
    BY <1>2, StartedStaysPending DEF ServeCommand, LoopIdle
  <2>2. boot' = boot /\ Contents' = Contents
    BY <1>2 DEF ServeCommand, objectVars, Contents, StoredIn
  <2> QED
    BY <2>1, <2>2 DEF Objects!storeVars, Contents
<1>3. CASE ServeStore
  <2>1. /\ boot = "run" /\ boot' = boot /\ serving = NoRequest /\ serving' = serving
        /\ inbox # <<>> /\ inbox' = Tail(inbox) /\ Store(Head(inbox))
    BY <1>3 DEF ServeStore, LoopIdle
  <2>2. /\ Pending # <<>> /\ Head(Pending) = Head(inbox) /\ Tail(Pending) = Tail(inbox)
    BY <2>1, SettledWasFirst
  <2>3. Head(inbox) \in Writes /\ inbox' \in Seq(Writes)
    BY <2>1, HeadLeaves
  <2>4. Pending' = inbox'
    BY <2>1, <2>3, EmptySeq, ConcatEmptySeq DEF Pending
  <2>5. Contents' = [p \in DOMAIN Contents |->
                       IF p = Head(Pending).property THEN Head(Pending).value
                       ELSE Contents[p]]
    BY <2>1, <2>2, <2>3, StoredOnce
  <2> QED
    BY <2>1, <2>2, <2>4, <2>5 DEF Objects!TakeEffect, Contents
<1>4. CASE FinishCommand
  <2>1. /\ job # "none" /\ Store(serving) /\ serving' = NoRequest
        /\ inbox' = inbox /\ boot' = boot
    BY <1>4 DEF FinishCommand, Command!HandOver, Command!None
  <2>2. serving # NoRequest /\ serving \in Writes /\ boot = "run"
    BY <2>1 DEF QueueInv, CommandIsServed, QueueTypes, WrittenFirst
  <2>3. Pending # <<>> /\ Head(Pending) = serving /\ Tail(Pending) = inbox
    BY <2>2, SettledWasFirst
  <2>4. inbox \in Seq(Writes)
    BY DEF QueueInv, QueueTypes
  <2>5. Pending' = inbox
    BY <2>1, <2>4, EmptySeq, ConcatEmptySeq DEF Pending
  <2>6. Contents' = [p \in DOMAIN Contents |->
                       IF p = Head(Pending).property THEN Head(Pending).value
                       ELSE Contents[p]]
    BY <2>1, <2>2, <2>3, StoredOnce
  <2> QED
    BY <2>1, <2>2, <2>3, <2>5, <2>6 DEF Objects!TakeEffect, Contents
<1>5. CASE Crash
  <2>1. /\ boot' = "open" /\ inbox' = <<>> /\ serving' = NoRequest
        /\ host' = HostDefaults /\ chassis' = ChassisDefaults
    BY <1>5 DEF Crash
  <2>2. Pending' = <<>>
    BY <2>1, EmptySeq, ConcatEmptySeq DEF Pending
  <2> QED
    BY <2>1, <2>2 DEF Objects!Restart, StoredIn
<1>6. CASE ConstructHost \/ ConstructChassis
  <2>1. boot # "run" /\ boot' # "run" /\ UNCHANGED queueVars
    BY <1>6 DEF ConstructHost, ConstructChassis
  <2>2. Pending' = Pending
    BY <2>1 DEF Pending, queueVars
  <2>3. DOMAIN Contents' = DOMAIN Contents
    BY DEF Contents, StoredIn
  <2> QED
    BY <2>1, <2>2, <2>3 DEF Objects!Fill, Contents
<1>7. CASE Run
  <2>1. /\ boot = "poll" /\ boot' = "run" /\ UNCHANGED queueVars
        /\ UNCHANGED <<host, chassis>>
    BY <1>7 DEF Run, objectVars
  <2>2. Pending' = Pending
    BY <2>1 DEF Pending, queueVars
  <2> QED
    BY <2>1, <2>2 DEF Objects!Open, StoredIn
<1>8. CASE \/ OpenDevice \/ ConstructPower \/ CommandStep \/ PollSucceeds
           \/ PollGetsNothing \/ McuChanges \/ UNCHANGED vars
  <2>1. /\ UNCHANGED queueVars /\ UNCHANGED <<host, chassis>>
        /\ (boot = "run") <=> (boot' = "run")
    BY <1>8 DEF OpenDevice, ConstructPower, CommandStep, PollSucceeds,
                PollGetsNothing, McuChanges, vars, queueVars, objectVars
  <2>2. Pending' = Pending
    BY <2>1 DEF Pending, queueVars
  <2> QED
    BY <2>1, <2>2 DEF Objects!storeVars, StoredIn
<1> QED
  BY <1>1, <1>2, <1>3, <1>4, <1>5, <1>6, <1>7, <1>8 DEF Next, Startup

\* The four properties whose getters return what is stored are one store behind
\* one queue, for any number of writes and crashes: every write takes effect
\* once, in its turn and on its own property, whatever becomes of its command,
\* and the store changes in no other way while it is open.
THEOREM ServiceImplementsStore == Spec => ImplementsStore
<1>1. Init => Objects!StoreInit
  <2> SUFFICES ASSUME Init PROVE Objects!StoreInit
    OBVIOUS
  <2>1. Pending = <<>>
    BY EmptySeq, ConcatEmptySeq DEF Init, Pending
  <2> QED
    BY <2>1 DEF Init, Objects!StoreInit
<1>2. Init => WrittenFirst
  BY DEF Init, WrittenFirst
<1>3. QueueInv /\ WrittenFirst /\ [Next]_vars => WrittenFirst'
  BY WrittenFirstStep
<1>4. QueueInv /\ WrittenFirst /\ [Next]_vars =>
        [Objects!StoreNext]_(Objects!storeVars)
  BY StoreStep
<1> QED
  BY <1>1, <1>2, <1>3, <1>4, QueueInvHolds, PTL
     DEF Spec, ImplementsStore, Objects!StoreSpec

-----------------------------------------------------------------------------
(* The two states are read from one cached register.                       *)

LEMMA ServiceRegisterStep ==
  ASSUME ServiceTypes, BlockCounts = {2}, [Next]_vars
  PROVE  [Mcu!Register!RegisterNext]_(Mcu!Register!registerVars)
<1> DEFINE cached == <<current_state.power_state, current_state.transition_cause>>
<1>1. CASE McuChanges
  BY <1>1 DEF McuChanges, Mcu!McuChanges, Mcu!Register!RegisterNext,
              Mcu!Register!Change
<1>2. CASE PollSucceeds
  <2>1. PICK r \in Mcu!GetStateAndTransitionCause :
          r.rc >= 0 /\ Mcu!CacheSystemState(r.resultant[1], r.resultant[2])
    BY <1>2 DEF PollSucceeds, Mcu!PollSucceeds
  <2>2. r.resultant[1] = registers[1] /\ r.resultant[2] = registers[2]
    BY <2>1, FullRead
  <2>3. cached' = <<registers[1], registers[2]>>
    BY <2>1, <2>2 DEF Mcu!CacheSystemState, ServiceTypes, Mcu!StateTypeOK
  <2>4. registers = <<registers[1], registers[2]>>
    BY ServiceAssumption DEF ServiceAssumption, ServiceTypes, Mcu!StateTypeOK
  <2>5. UNCHANGED registers
    BY <1>2 DEF PollSucceeds, Mcu!PollSucceeds
  <2> QED
    BY <2>3, <2>4, <2>5 DEF Mcu!Register!RegisterNext, Mcu!Register!Refresh
<1>3. CASE Crash
  BY <1>3 DEF Crash, Mcu!InitSequenceMcuContext, Mcu!Register!RegisterNext,
              Mcu!Register!Forget
<1>4. CASE \/ Startup \/ ClientWrites \/ ServeStore \/ ServeCommand \/ CommandStep
           \/ FinishCommand \/ PollGetsNothing \/ UNCHANGED vars
  <2>1. UNCHANGED <<registers, current_state>>
    BY <1>4 DEF Startup, OpenDevice, ConstructPower, ConstructHost, ConstructChassis,
         Run, Mcu!StartPolling, ClientWrites, ServeStore, ServeCommand, CommandStep,
         FinishCommand, PollGetsNothing, Mcu!PollFails, Mcu!PollTimerError, vars,
         readVars
  <2> QED
    BY <2>1 DEF Mcu!Register!registerVars
<1> QED
  BY <1>1, <1>2, <1>3, <1>4 DEF Next

\* With an adapter that reads in full, readers of the two states see moments of
\* the MCU in their order, through commands that hold up the polls, failed
\* reads and restarts.
THEOREM ServiceImplementsRegister ==
  ASSUME BlockCounts = {2}
  PROVE  Spec => ImplementsRegister
<1>1. Init => Mcu!Register!RegisterInit
  BY DEF Init, Mcu!StateInit, Mcu!InitSequenceMcuContext, Mcu!Register!RegisterInit
<1>2. QueueInv /\ ServiceTypes /\ [Next]_vars => ServiceTypes'
  BY ServiceTypesStep
<1>3. ServiceTypes /\ [Next]_vars =>
        [Mcu!Register!RegisterNext]_(Mcu!Register!registerVars)
  BY ServiceRegisterStep
<1> QED
  BY <1>1, <1>2, <1>3, ServiceTypesInit, QueueInvHolds, PTL
     DEF Spec, ImplementsRegister, Mcu!ImplementsRegister, Mcu!Register!RegisterSpec

\* The cache is the pair reported at the moment it was filled.
LEMMA SnapshotStep ==
  ASSUME ServiceTypes, QueueInv, RegistersAreLatest, Mcu!CacheIsSnapshot,
         BlockCounts = {2}, [Next]_vars
  PROVE  Mcu!CacheIsSnapshot'
<1> DEFINE cached == <<current_state.power_state, current_state.transition_cause>>
<1>1. /\ Len(reported) \in Nat /\ snapshot \in 0..Len(reported)
      /\ \A i \in 1..Len(reported) : reported'[i] = reported[i]
  BY ReportsGrow DEF ServiceTypes, Mcu!StateTypeOK
<1>2. CASE PollSucceeds
  <2>1. PICK r \in Mcu!GetStateAndTransitionCause :
          r.rc >= 0 /\ Mcu!CacheSystemState(r.resultant[1], r.resultant[2])
    BY <1>2 DEF PollSucceeds, Mcu!PollSucceeds
  <2>2. r.resultant[1] = registers[1] /\ r.resultant[2] = registers[2]
    BY <2>1, FullRead
  <2>3. cached' = <<registers[1], registers[2]>>
    BY <2>1, <2>2 DEF Mcu!CacheSystemState, ServiceTypes, Mcu!StateTypeOK
  <2>4. registers = <<registers[1], registers[2]>>
    BY ServiceAssumption DEF ServiceAssumption, ServiceTypes, Mcu!StateTypeOK
  <2>5. snapshot' = Len(reported) /\ UNCHANGED reported /\ Len(reported) > 0
        /\ registers = reported[Len(reported)]
    BY <1>2 DEF PollSucceeds, Mcu!PollSucceeds, RegistersAreLatest
  <2>6. snapshot' # 0 /\ reported'[snapshot'] = registers
    BY <1>1, <2>5
  <2> QED
    BY <2>3, <2>4, <2>6 DEF Mcu!CacheIsSnapshot
<1>3. CASE Crash
  BY <1>3 DEF Crash, Mcu!InitSequenceMcuContext, Mcu!CacheIsSnapshot
<1>4. CASE \/ Startup \/ ClientWrites \/ ServeStore \/ ServeCommand \/ CommandStep
           \/ FinishCommand \/ PollGetsNothing \/ McuChanges \/ UNCHANGED vars
  <2>1. UNCHANGED <<snapshot, current_state>>
    BY <1>4 DEF Startup, OpenDevice, ConstructPower, ConstructHost, ConstructChassis,
         Run, Mcu!StartPolling, ClientWrites, ServeStore, ServeCommand, CommandStep,
         FinishCommand, PollGetsNothing, Mcu!PollFails, Mcu!PollTimerError, McuChanges,
         Mcu!McuChanges, vars, readVars
  <2>2. snapshot # 0 => reported'[snapshot] = reported[snapshot]
    BY <1>1
  <2> QED
    BY <2>1, <2>2 DEF Mcu!CacheIsSnapshot
<1> QED
  BY <1>2, <1>3, <1>4 DEF Next

\* With an adapter that reads in full, the cache of the service holds a pair the
\* MCU reported at one moment, or knows nothing, whatever is executed between
\* the polls and however often the service is restarted; and what was reported
\* last is what the MCU holds.
THEOREM ServiceCachesSnapshots ==
  ASSUME BlockCounts = {2}
  PROVE  Spec => [](Mcu!CacheIsSnapshot /\ RegistersAreLatest)
<1>1. Init => Mcu!CacheIsSnapshot /\ RegistersAreLatest
  BY DEF Init, Mcu!StateInit, Mcu!InitSequenceMcuContext, Mcu!CacheIsSnapshot,
         RegistersAreLatest
<1>2. QueueInv /\ ServiceTypes /\ [Next]_vars => ServiceTypes'
  BY ServiceTypesStep
<1>3. QueueInv /\ ServiceTypes /\ RegistersAreLatest /\ [Next]_vars => RegistersAreLatest'
  BY ReportsGrow
<1>4. QueueInv /\ ServiceTypes /\ RegistersAreLatest /\ Mcu!CacheIsSnapshot /\ [Next]_vars
        => Mcu!CacheIsSnapshot'
  BY SnapshotStep
<1> QED
  BY <1>1, <1>2, <1>3, <1>4, ServiceTypesInit, QueueInvHolds, PTL DEF Spec

=============================================================================
