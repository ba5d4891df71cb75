\* The managed service and two more copies of it.
CONSTANTS
  Instances = {managed, restarted, debugged}
SPECIFICATION NamesSpec
INVARIANTS
  NamesTypeOK
  OneDriver
  NamesGoTogether
PROPERTIES
  RefusedAtOnce
  HolderServes
