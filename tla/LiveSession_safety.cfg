\* Two tailers, three chunks, a channel of one: every tailer can lag, replay
\* and go live with the recorder two chunks ahead.
CONSTANTS
  Tailers = {t1, t2}
  ChanCap = 1
  MaxChunks = 3
SYMMETRY TailerSymmetry
SPECIFICATION Spec
INVARIANTS
  ChannelClosedExactlyOnce
  EndedSessionHoldsNoClient
PROPERTIES
  ImplementsTailStream
  DroppedForOwnFault
