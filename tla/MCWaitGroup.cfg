CONSTANTS
  Threads = {t1, t2, t3}
  NoThread = NoThread
  Units = {w1, w2}
SPECIFICATION FairSpec
INVARIANTS TypeOK NoUseAfterDestroy
PROPERTIES WaitOutlastsWork WaitersReturn
