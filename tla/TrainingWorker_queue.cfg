SPECIFICATION MCLiveSpec
CONSTANTS
  Workers = {w1, w2}
  NoWorker = noworker
  Cancelled = r2
  Runs = {r1, r2}
  Digests = {d1, d2}
  NoDigest = nodigest
  Missed = missed
  NoPoll = nopoll
  PollLimit = 1
  MaxFaults = 1
INVARIANTS CompletedHasDeliverable SubmittedWasMeasured
PROPERTIES EveryRunEnds CompletedGetsSubmitted
CHECK_DEADLOCK FALSE
