---------------------- MODULE MCPowerControlSystem ----------------------
(***************************************************************************)
(* PowerControlSystem for TLC.                                             *)
(***************************************************************************)
EXTENDS PowerControlSystem

HostWrites(values) ==
  {[property |-> "requestedHostTransition", value |-> v] : v \in values}
ChassisWrites(values) ==
  {[property |-> "requestedPowerTransition", value |-> v] : v \in values}

\* One write per command of the handler, and one that only stores.
EachHandler ==
  HostWrites({"On", "Off", "Reboot"}) \cup ChassisWrites({"Off", "PowerCycle"})
    \cup {[property |-> "currentHostState", value |-> "Off"]}
=============================================================================
