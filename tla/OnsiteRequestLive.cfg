SPECIFICATION FairSpec
CONSTANTS
  LastKey = 1
  Bodies = {b1, b2}
  Workers = {w1, w2}
  NoBody = NoBody
  NoWorker = NoWorker
PROPERTY EveryIntentIsDecided
