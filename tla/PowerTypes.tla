----------------------------- MODULE PowerTypes -----------------------------
(***************************************************************************)
(* The enumerations shared by the power-control service and the lookup     *)
(* tables that turn the sequence MCU's raw bytes into D-Bus values.        *)
(* Raw power states and transition causes stay bytes: the code casts any   *)
(* byte it reads to the enumeration (static_cast), listed or not.          *)
(***************************************************************************)
EXTENDS Integers

Bytes == 0..255

\* The values an event write carries in SetPowerState (0x04).
PowerEvents == {"Awake", "HardReset", "SoftOff", "HardOff"}

\* SMBUSOperationStatus.  InvalidCommand shares InvalidRetries' code (0x02)
\* and is never returned.
OperationStatus == {"Success", "ProtocolError", "InvalidRetries", "Undefined"}

\* McuPowerState
kSLP_S0 == 0
kSLP_S3 == 3
kSLP_S4 == 4
kSLP_S5 == 5
kSLP_LP == 6
kSLP_Unknown == 255
McuPowerState == {kSLP_S0, kSLP_S3, kSLP_S4, kSLP_S5, kSLP_LP, kSLP_Unknown}

\* TransitionCause numbers its twenty members from 0 (Unknown) on; the ones
\* the tables below single out.
kCause_Unknown == 0
kCause_ChassisControl == 1
kCause_ResetPushbutton == 2
kCause_PowerUpPushbutton == 3
kCause_WatchdogExpiration == 4
kCause_Oem == 5
kCause_AcRestoreAlways == 6
kCause_AcRestorePrevious == 7
kCause_ResetPef == 8
kCause_PowerCyclePef == 9
kCause_SoftReset == 10
kCause_PowerUpRtc == 11
kCause_IgnitionStartupTimer == 12
kCause_IgnitionSoftOffTimer == 13
kCause_IgnitionHardOffTimer == 14
kCause_IgnitionLowVoltageTimer == 15
kCause_BMCVirtualPowerButtonPress == 16
kCause_BMCVirtualResetPress == 17
kCause_BMCSetValidationError == 18
kCause_BMCSetEventError == 19

-----------------------------------------------------------------------------
HostState == {"Off", "Running", "Standby"}
ChassisPowerState == {"On", "Off"}

nativeToHostState ==
  [raw \in McuPowerState |->
     CASE raw = kSLP_S0 -> "Running"
       [] raw \in {kSLP_S3, kSLP_S4} -> "Standby"
       [] raw \in {kSLP_S5, kSLP_LP, kSLP_Unknown} -> "Off"]

\* Mutant: a host in S4 has its chassis off.
ChassisOffInS4 ==
  [raw \in McuPowerState |-> IF raw \in {kSLP_S0, kSLP_S3} THEN "On" ELSE "Off"]

nativeToChassisState ==
  [raw \in McuPowerState |->
     CASE raw \in {kSLP_S0, kSLP_S3, kSLP_S4} -> "On"
       [] raw \in {kSLP_S5, kSLP_LP, kSLP_Unknown} -> "Off"]

\* A byte outside the table falls back to Off on both objects.
toHostState(raw) ==
  IF raw \in DOMAIN nativeToHostState THEN nativeToHostState[raw] ELSE "Off"

toChassisState(raw) ==
  IF raw \in DOMAIN nativeToChassisState
  THEN nativeToChassisState[raw] ELSE "Off"

\* mapTransitionCauseToChassisPowerStatus: the causes reported as Good; every
\* other listed cause is Undefined, and so is an unlisted byte.
GoodCauses ==
  {kCause_ChassisControl, kCause_SoftReset, kCause_BMCVirtualPowerButtonPress,
   kCause_BMCVirtualResetPress, kCause_ResetPushbutton,
   kCause_PowerUpPushbutton, kCause_AcRestoreAlways, kCause_AcRestorePrevious,
   kCause_WatchdogExpiration, kCause_PowerUpRtc, kCause_IgnitionStartupTimer,
   kCause_IgnitionSoftOffTimer, kCause_IgnitionHardOffTimer}

toPowerStatus(raw) == IF raw \in GoodCauses THEN "Good" ELSE "Undefined"

\* mapTransitionCauseToRestartCause, and the fallback of toRestartCause.
toRestartCause(raw) ==
  CASE raw = kCause_ChassisControl -> "RemoteCommand"
    [] raw \in {kCause_ResetPushbutton, kCause_BMCVirtualResetPress}
         -> "ResetButton"
    [] raw \in {kCause_PowerUpPushbutton, kCause_BMCVirtualPowerButtonPress}
         -> "PowerButton"
    [] raw = kCause_WatchdogExpiration -> "WatchdogTimer"
    [] raw = kCause_SoftReset -> "SoftReset"
    [] raw \in {kCause_PowerUpRtc, kCause_IgnitionStartupTimer}
         -> "ScheduledPowerOn"
    [] raw = kCause_AcRestoreAlways -> "PowerPolicyAlwaysOn"
    [] raw = kCause_AcRestorePrevious -> "PowerPolicyPreviousState"
    [] OTHER -> "Unknown"

RestartCause ==
  {"RemoteCommand", "ResetButton", "PowerButton", "WatchdogTimer",
   "SoftReset", "ScheduledPowerOn", "PowerPolicyAlwaysOn",
   "PowerPolicyPreviousState", "Unknown"}
=============================================================================
