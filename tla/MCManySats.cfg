\* Nineteen satellites, the real N field: 18 fit (30 words), 19 need 32.
CONSTANTS
  Week = 600
  Prns = {1, 2, 3, 4, 5, 6, 7, 8, 9, 10, 11, 12, 13, 14, 15, 16, 17, 18, 19}
  Ephemerides <- MCEphemerides
  Stations = {"A"}
  Observations <- MCObservations
  EpochSteps = {1}
  max_iod_age_s = 7
  max_residual_m = 100
  RateScale = 60
  RawCorrection <- MCRawCorrection
  MaxTime = 4
  None = None
  Chunks <- MCChunks
  Type3Interval = 60
  MaxDataWords = 31
  Seeds = {0, 1, 2, 3}
  ParityAfter <- MCParityAfter
  Seed0 = 0
  MaxChunks = 4
SPECIFICATION LoadedSpec
INVARIANT EveryEpochConverted
CHECK_DEADLOCK FALSE
