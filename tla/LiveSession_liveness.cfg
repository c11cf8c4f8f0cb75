\* One tailer and three chunks: it can lag while replaying, while draining and
\* while its client is stalled.
CONSTANTS
  Tailers = {t1}
  ChanCap = 1
  MaxChunks = 3
SPECIFICATION FairSpec
PROPERTIES
  RecorderNeverBlocked
  HandlersFinish
  LiveDelivery
