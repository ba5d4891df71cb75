----------------------- MODULE MCPowerControlService -----------------------
(***************************************************************************)
(* PowerControlService for TLC.  The MCU reports a running, a sleeping and *)
(* a switched-off host; clients of both objects switch on and off, reboot  *)
(* and reset, and use the debugging write of the docs.                     *)
(***************************************************************************)
EXTENDS PowerControlService

MCReports ==
  {<<kSLP_S0, kCause_PowerUpPushbutton>>, <<kSLP_S4, kCause_Unknown>>,
   <<kSLP_S5, kCause_ChassisControl>>}

TwoReports ==
  {<<kSLP_S0, kCause_PowerUpPushbutton>>, <<kSLP_S5, kCause_ChassisControl>>}

HostWrites(values) ==
  {[property |-> "requestedHostTransition", value |-> v] : v \in values}
ChassisWrites(values) ==
  {[property |-> "requestedPowerTransition", value |-> v] : v \in values}
DebugWrite == [property |-> "currentHostState", value |-> "Off"]

\* Every transition, and the debugging write.
AllWrites ==
  HostWrites(DOMAIN HostCommand) \cup ChassisWrites(DOMAIN ChassisCommand)
    \cup {DebugWrite}

NoWrites == {}
=============================================================================
