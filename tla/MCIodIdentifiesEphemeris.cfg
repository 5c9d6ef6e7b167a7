\* The instance of MCDgps.cfg.
CONSTANTS
  Week = 24
  Prns = {1, 2, 3}
  Ephemerides <- MCEphemerides
  Stations = {10}
  Observations <- MCObservations
  EpochSteps = {0, 2}
  max_iod_age_s = 4
  max_residual_m = 10
  RateScale = 12
  RawCorrection <- MCRawCorrection
  MaxTime = 2
  None = None
SPECIFICATION DgpsSpec
INVARIANT IodIdentifiesEphemeris
CHECK_DEADLOCK FALSE
