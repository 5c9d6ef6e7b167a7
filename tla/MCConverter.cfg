\* Week of 6 ticks, Type 3 every 3 ticks, at most 6 recvs.
CONSTANTS
  Week = 6
  Prns = {1, 2}
  Ephemerides <- MCEphemerides
  Stations = {"A", "B"}
  Observations <- MCObservations
  EpochSteps = {0, 1, 2}
  max_iod_age_s = 3
  max_residual_m = 10
  RateScale = 60
  RawCorrection <- MCRawCorrection
  MaxTime = 8
  None = None
  Chunks <- MCChunks
  Type3Interval = 3
  MaxDataWords = 2
  Seeds = {0, 1, 2, 3}
  ParityAfter <- MCParityAfter
  Seed0 = 0
  MaxChunks = 6
SPECIFICATION ConvSpec
INVARIANTS
  ConvTypeOK
  ParityChain
  SeqSkipsOnlyFailures
  Type3PrecedesType1
  Type3NotTooOften
  AdvertisedBaseIsCurrent
CHECK_DEADLOCK FALSE
