CONSTANTS
  PRNs = {3, 17, 32}
  Signals <- MCSignals
  Millis <- MCMillis
  Rests = {995}
  Fines <- MCFines
  RestUnits = 1024
  Epochs = {483948000}
  None = None
  NoCell = NoCell
SPECIFICATION InSpec
INVARIANT ObservationsRecovered
CHECK_DEADLOCK FALSE
