\* One tool in two places, one module, two pids, two changes meanwhile.
SPECIFICATION Spec
CONSTANTS
  Binaries <- TheBinaries
  Modules <- TheModules
  Daemon = "overlaybd-tcmu"
  NPlaces = 2
  NPids = 2
  Changes = 2
INVARIANTS PreflightTypeOK SuccessIsTrue NotMissed
CHECK_DEADLOCK FALSE
