\* Week of 24 ticks; epochs at ticks 0 and 2, ephemerides usable for 4 ticks.
CONSTANTS
  Week = 24
  Prns = {1, 2, 3}
  Ephemerides <- MCEphemerides
  Stations = {10}
  Observations <- MCObservations
  EpochSteps = {0, 2}
  max_iod_age_s = 4
  max_residual_m = 10
  RateScale = 12
  RawCorrection <- MCRawCorrection
  MaxTime = 2
  None = None
SPECIFICATION DgpsSpec
INVARIANTS
  DgpsTypeOK
  IodMismatchOnlyByRace
  FreshModuloWeek
  CorrectionsAreSelected
  OneOutlierHarmsNoOther
CHECK_DEADLOCK FALSE
