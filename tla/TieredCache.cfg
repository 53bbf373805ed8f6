SPECIFICATION FairSpec
CONSTANTS
  k1 = k1
  k2 = k2
  Keys <- MCKeys
  Values = {1, 2, 3}
  Recoded <- MCRecoded
  CodecFails = TRUE
  Inputs <- MCInputs
  Callers = {c1, c2}
  Absent = Absent
  Expired = Expired
  NoCall = NoCall
  Ops = {"get", "warmup", "set", "delete", "clear", "direct"}
  DefaultLife = "timed"
  L1Life = "timed"
  Namespaced = TRUE
  L2Fails = TRUE
INVARIANTS L1FromL2 QuietCoherent
PROPERTY StaleNotForEver
CHECK_DEADLOCK FALSE
