SPECIFICATION AttendedSpec
CONSTANTS
  Payloads = {0, 8, 24}
  HostStops = TRUE
INVARIANTS BusExclusive InStep HostBelievesTruly
PROPERTIES Recovers
