SPECIFICATION MCSpec
CONSTANTS
  SECONDS = 11
  MINUTES = 2
  CALLS = 4
  WAIT = 2
  HalfRange = 8
  TICK_SEC = 2
  Secs = {0, 1, 2, 3}
  MaxLate = 8
  Ids = {0, 1, 2, 3}
  MAX_CPUS = 4
  IoApicId = 1
  Firmware <- MCFirmware
INVARIANTS OwnStack GatesInPlace DateIsATime MeasuresSeconds
PROPERTIES   ClockLoopsEnd NeverEarly NeverMissed
CHECK_DEADLOCK FALSE
