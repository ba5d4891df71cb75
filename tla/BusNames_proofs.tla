--------------------------- MODULE BusNames_proofs ---------------------------
(***************************************************************************)
(* Proofs about BusNames, for any number of processes.                     *)
(***************************************************************************)
EXTENDS BusNames, TLAPS

\* The steps of main that ask for a name, and which one.
NameSteps == {2, 3, 4, 5, 7, 8}
NameAt == [k \in NameSteps |->
             CASE k = 2 -> "control.Power0" [] k = 3 -> "control.Power"
               [] k = 4 -> "State.Host0"    [] k = 5 -> "State.Host"
               [] k = 7 -> "State.Chassis0" [] k = 8 -> "State.Chassis"]

\* An instance owns exactly the names of the steps that are behind it.
NamesHeld ==
  \A i \in Instances, k \in NameSteps : (owner[NameAt[k]] = i) <=> (at[i] > k)

NamesInv == NamesTypeOK /\ NamesHeld

-----------------------------------------------------------------------------
LEMMA StepsInOrder ==
  /\ Len(Steps) = 11
  /\ Steps[1] = "open" /\ Steps[6] = "read" /\ Steps[9] = "read"
  /\ Steps[10] = "poll" /\ Steps[11] = "run"
  /\ Steps[2] = "control.Power0" /\ Steps[3] = "control.Power"
  /\ Steps[4] = "State.Host0" /\ Steps[5] = "State.Host"
  /\ Steps[7] = "State.Chassis0" /\ Steps[8] = "State.Chassis"
BY DEF Steps, NamesOf

LEMMA NamesAreNames ==
  Names = {"control.Power0", "control.Power", "State.Host0", "State.Host",
           "State.Chassis0", "State.Chassis"}
BY DEF Names, NamesOf

\* A step asks for a name exactly when it is a name step, no two of them for
\* the same.
LEMMA StepNames ==
  /\ \A k \in 1..11 : Steps[k] \in Names <=> k \in NameSteps
  /\ \A k \in NameSteps : NameAt[k] = Steps[k] /\ NameAt[k] \in Names
  /\ \A k, l \in NameSteps : NameAt[k] = NameAt[l] => k = l
  /\ \A n \in Names : \E k \in NameSteps : NameAt[k] = n
<1>1. \A k \in 1..11 : Steps[k] \in Names <=> k \in NameSteps
  BY StepsInOrder, NamesAreNames DEF NameSteps
<1>2. \A k \in NameSteps : NameAt[k] = Steps[k] /\ NameAt[k] \in Names
  BY StepsInOrder, NamesAreNames DEF NameSteps, NameAt
<1>3. \A k, l \in NameSteps : NameAt[k] = NameAt[l] => k = l
  BY DEF NameSteps, NameAt
<1>4. \A n \in Names : \E k \in NameSteps : NameAt[k] = n
  BY NamesAreNames DEF NameSteps, NameAt
<1> QED
  BY <1>1, <1>2, <1>3, <1>4

LEMMA NamesInvInit == ASSUME NamesInit PROVE NamesInv
<1>1. NamesTypeOK
  BY StepsInOrder DEF NamesInit, NamesTypeOK
<1>2. NamesHeld
  BY StepNames, NamesAssumption DEF NamesInit, NamesHeld, NameSteps
<1> QED
  BY <1>1, <1>2 DEF NamesInv

\* Whoever dies, of an exception or otherwise, loses all its names.
LEMMA DieKeepsNames ==
  ASSUME NamesInv, NEW i \in Instances, Die(i) PROVE NamesInv'
<1> USE DEF NamesInv
<1>1. NamesTypeOK'
  BY StepsInOrder DEF Die, NamesTypeOK
<1>2. ASSUME NEW j \in Instances, NEW k \in NameSteps
      PROVE  (owner'[NameAt[k]] = j) <=> (at'[j] > k)
  <2>1. NameAt[k] \in Names
    BY StepNames
  <2>2. owner'[NameAt[k]] = IF owner[NameAt[k]] = i THEN Nobody ELSE owner[NameAt[k]]
    BY <2>1 DEF Die
  <2>3. CASE j = i
    <3>1. at'[j] = 0 /\ ~(0 > k)
      BY <2>3 DEF Die, NamesTypeOK, NameSteps
    <3> QED
      BY <2>2, <2>3, <3>1, NamesAssumption
  <2>4. CASE j # i
    <3>1. at'[j] = at[j]
      BY <2>4 DEF Die, NamesTypeOK
    <3> QED
      BY <2>2, <2>4, <3>1, NamesAssumption DEF NamesHeld
  <2> QED
    BY <2>3, <2>4
<1> QED
  BY <1>1, <1>2 DEF NamesHeld

LEMMA NamesInvStep == ASSUME NamesInv, [NamesNext]_nameVars PROVE NamesInv'
<1> USE DEF NamesInv
<1>1. ASSUME NEW i \in Instances, Start(i) PROVE NamesInv'
  <2>1. at[i] = 0 /\ at' = [at EXCEPT ![i] = 1] /\ owner' = owner
    BY <1>1 DEF Start, Up, NamesTypeOK
  <2>2. NamesTypeOK'
    BY <2>1, StepsInOrder DEF NamesTypeOK
  <2>3. NamesHeld'
    BY <2>1 DEF NamesHeld, NamesTypeOK, NameSteps
  <2> QED
    BY <2>2, <2>3
<1>2. ASSUME NEW i \in Instances, NameGranted(i) PROVE NamesInv'
  <2>1. /\ at[i] \in NameSteps /\ NameAt[at[i]] = Steps[at[i]]
        /\ owner[NameAt[at[i]]] = Nobody
        /\ owner' = [owner EXCEPT ![NameAt[at[i]]] = i]
        /\ at' = [at EXCEPT ![i] = @ + 1]
    <3>1. at[i] \in 1..11 /\ Steps[at[i]] \in Names
      BY <1>2, StepsInOrder DEF NameGranted, Up, AtStep, NamesTypeOK
    <3>2. at[i] \in NameSteps /\ NameAt[at[i]] = Steps[at[i]]
      BY <3>1, StepNames
    <3> QED
      BY <1>2, <3>2 DEF NameGranted, AtStep
  <2>2. NamesTypeOK'
    <3>1. at[i] + 1 \in 0..11
      BY <2>1 DEF NameSteps
    <3> QED
      BY <2>1, <3>1, StepsInOrder DEF NamesTypeOK
  <2>3. ASSUME NEW j \in Instances, NEW k \in NameSteps
        PROVE  (owner'[NameAt[k]] = j) <=> (at'[j] > k)
    <3>1. NameAt[k] \in Names /\ (k # at[i] => NameAt[k] # NameAt[at[i]])
      BY <2>1, StepNames
    <3>2. k \in Nat /\ at[i] \in Nat /\ at[j] \in Nat
      BY <2>1 DEF NameSteps, NamesTypeOK
    <3>3. at'[j] = IF j = i THEN at[i] + 1 ELSE at[j]
      BY <2>1 DEF NamesTypeOK
    <3>4. CASE k = at[i]
      <4>1. owner'[NameAt[k]] = i
        BY <2>1, <3>1, <3>4 DEF NamesTypeOK
      <4>2. ~(at[j] > k)
        BY <2>1, <3>4, NamesAssumption DEF NamesHeld
      <4> QED
        BY <3>2, <3>3, <3>4, <4>1, <4>2
    <3>5. CASE k # at[i]
      <4>1. owner'[NameAt[k]] = owner[NameAt[k]]
        BY <2>1, <3>1, <3>5 DEF NamesTypeOK
      <4>2. at'[j] > k <=> at[j] > k
        BY <3>2, <3>3, <3>5
      <4> QED
        BY <4>1, <4>2 DEF NamesHeld
    <3> QED
      BY <3>4, <3>5
  <2> QED
    BY <2>2, <2>3 DEF NamesHeld
<1>3. ASSUME NEW i \in Instances, NameRefused(i) PROVE NamesInv'
  BY <1>3, DieKeepsNames DEF NameRefused
<1>4. ASSUME NEW i \in Instances, Proceed(i) PROVE NamesInv'
  <2>1. /\ at[i] \in 1..10 /\ at[i] \notin NameSteps
        /\ owner' = owner /\ at' = [at EXCEPT ![i] = @ + 1]
    <3>1. at[i] \in 1..11 /\ Steps[at[i]] \notin Names /\ at[i] # 11
      BY <1>4, StepsInOrder DEF Proceed, Running, Up, AtStep, NamesTypeOK
    <3> QED
      BY <1>4, <3>1, StepNames DEF Proceed
  <2>2. NamesTypeOK'
    <3>1. at[i] + 1 \in 0..11
      BY <2>1
    <3> QED
      BY <2>1, <3>1, StepsInOrder DEF NamesTypeOK
  <2>3. ASSUME NEW j \in Instances, NEW k \in NameSteps
        PROVE  (owner'[NameAt[k]] = j) <=> (at'[j] > k)
    <3>1. k \in Nat /\ k # at[i] /\ at[j] \in Nat
      BY <2>1 DEF NameSteps, NamesTypeOK
    <3>2. at'[j] = IF j = i THEN at[i] + 1 ELSE at[j]
      BY <2>1 DEF NamesTypeOK
    <3>3. at'[j] > k <=> at[j] > k
      BY <2>1, <3>1, <3>2
    <3> QED
      BY <2>1, <3>3 DEF NamesHeld
  <2> QED
    BY <2>2, <2>3 DEF NamesHeld
<1>5. ASSUME NEW i \in Instances, Die(i) PROVE NamesInv'
  BY <1>5, DieKeepsNames
<1>6. CASE UNCHANGED nameVars
  BY <1>6 DEF nameVars, NamesTypeOK, NamesHeld
<1> QED
  BY <1>1, <1>2, <1>3, <1>4, <1>5, <1>6 DEF NamesNext, Advance

LEMMA NamesInvHolds == NamesSpec => []NamesInv
BY NamesInvInit, NamesInvStep, PTL DEF NamesSpec

\* The owner of any name owns the first one Power asks for.
LEMMA FirstNameDecides ==
  ASSUME NamesInv, NEW i \in Instances, NEW k \in NameSteps, at[i] > k
  PROVE  owner[NameAt[2]] = i
<1>1. 2 \in NameSteps /\ at[i] > 2
  BY DEF NamesInv, NamesTypeOK, NameSteps
<1> QED
  BY <1>1 DEF NamesInv, NamesHeld

-----------------------------------------------------------------------------
\* Names are owned by instances, and no instance walks past the event loop.
THEOREM NamesTypeCorrect == NamesSpec => []NamesTypeOK
BY NamesInvHolds, PTL DEF NamesInv

\* Of any number of processes, at most one ever talks to the sequence MCU.
THEOREM OneDriverOnly == NamesSpec => []OneDriver
<1>1. ASSUME NamesInv, NEW i \in Instances, TouchesMcu(i)
      PROVE  owner[NameAt[2]] = i
  <2>1. at[i] \in 0..11
    BY <1>1, StepsInOrder DEF NamesInv, NamesTypeOK
  <2>2. PICK k \in 1..at[i] : Steps[k] = "read"
    BY <1>1 DEF TouchesMcu
  <2>3. k \in 1..11 /\ k # 1 /\ k # 2 /\ k # 3
    BY <2>1, <2>2, StepsInOrder
  <2>4. at[i] > 3 /\ 3 \in NameSteps
    BY <2>1, <2>3 DEF NameSteps
  <2> QED
    BY <1>1, <2>4, FirstNameDecides
<1>2. NamesInv => OneDriver
  BY <1>1 DEF OneDriver
<1> QED
  BY <1>2, NamesInvHolds, PTL

\* All names on the bus belong to one process.
THEOREM NamesAreTogether == NamesSpec => []NamesGoTogether
<1>1. ASSUME NamesInv, NEW n \in Names, owner[n] # Nobody
      PROVE  owner[n] = owner[NameAt[2]]
  <2>1. PICK k \in NameSteps : NameAt[k] = n
    BY StepNames
  <2>2. owner[n] \in Instances
    BY <1>1 DEF NamesInv, NamesTypeOK
  <2>3. at[owner[n]] > k
    BY <1>1, <2>1, <2>2 DEF NamesInv, NamesHeld
  <2> QED
    BY <1>1, <2>2, <2>3, FirstNameDecides
<1>2. NamesInv => NamesGoTogether
  BY <1>1 DEF NamesGoTogether
<1> QED
  BY <1>2, NamesInvHolds, PTL

\* A process that is refused is refused its first name, and dies with none of
\* its objects on the bus.
THEOREM RefusalsComeFirst == NamesSpec => RefusedAtOnce
<1>1. ASSUME NamesInv, NEW i \in Instances, NameRefused(i)
      PROVE  AtStep(i) = NamesOf.Power[1]
  <2>1. at[i] \in 1..11 /\ Steps[at[i]] \in Names /\ owner[Steps[at[i]]] # Nobody
    BY <1>1, StepsInOrder DEF NameRefused, Up, AtStep, NamesInv, NamesTypeOK
  <2>2. at[i] \in NameSteps /\ NameAt[at[i]] = Steps[at[i]]
    BY <2>1, StepNames
  <2> DEFINE j == owner[Steps[at[i]]]
  <2>3. j \in Instances /\ at[j] > at[i]
    <3>1. j \in Instances
      BY <1>1, <2>1 DEF NamesInv, NamesTypeOK
    <3> QED
      BY <1>1, <2>2, <3>1 DEF NamesInv, NamesHeld
  <2>4. owner[NameAt[2]] = j
    BY <1>1, <2>2, <2>3, FirstNameDecides
  <2> HIDE DEF j
  <2>5. at[i] = 2
    <3>1. SUFFICES ASSUME at[i] # 2 PROVE FALSE
      OBVIOUS
    <3>2. at[i] > 2 /\ 2 \in NameSteps
      BY <2>2, <3>1 DEF NameSteps
    <3>3. owner[NameAt[2]] = i
      BY <1>1, <3>2 DEF NamesInv, NamesHeld
    <3>4. at[i] > at[i]
      BY <2>3, <2>4, <3>3
    <3> QED
      BY <2>2, <3>4 DEF NameSteps
  <2> QED
    BY <2>5, StepsInOrder DEF AtStep, NamesOf
<1>2. NamesInv /\ [NamesNext]_nameVars =>
        [\A i \in Instances : NameRefused(i) => AtStep(i) = NamesOf.Power[1]]_nameVars
  BY <1>1
<1> QED
  BY <1>2, NamesInvHolds, PTL DEF NamesSpec, RefusedAtOnce
=============================================================================
