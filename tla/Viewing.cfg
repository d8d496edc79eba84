\* One tab, two faults, one visit elsewhere; one download.
SPECIFICATION PartsSpec
CONSTANTS
  w1 = w1
  w2 = w2
  s1 = s1
  s2 = s2
  r1 = r1
  r2 = r2
  Workers = {w1, w2}
  Runner = w1
  Streams = {s1, s2}
  None = None
  MaxStreams = 1
  MaxRecoveries = 1
  MaxEvents = 2
  MaxUpsets = 2
CHECK_DEADLOCK FALSE
INVARIANT StreamsAreSound
PROPERTY ViewersSettle
