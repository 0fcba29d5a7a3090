CONSTANTS
  Threads = {t1, t2}
  NoThread = NoThread
  Units = {w1}
SPECIFICATION FairSpec
PROPERTY ZeroUnblocks
