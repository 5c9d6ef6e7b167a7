\* Two epochs either side of the week rollover, ticks 23 and 25.
CONSTANTS
  Week = 24
  Prns = {1, 2, 3}
  Ephemerides <- MCEphemerides
  Stations = {10}
  Observations <- MCObservations
  EpochSteps = {2, 23}
  max_iod_age_s = 4
  max_residual_m = 10
  RateScale = 12
  RawCorrection <- MCRawCorrection
  MaxTime = 25
  None = None
SPECIFICATION DgpsSpec
INVARIANT RateOverWeekCorrectedInterval
CHECK_DEADLOCK FALSE
