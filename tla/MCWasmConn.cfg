CONSTANTS
  limitConnectionQueuedMessages = 4
  limitConnectionQueuedBytes = 3
  ErrorCapacity = 1
  MaxFrame = 2
  MaxSent = 5
  Nil = Nil
  InitialCapacity = 2
SPECIFICATION ConnSpec
INVARIANTS QueueWithinLimits NoSendOnClosed NoLostWakeup ClosedReleasesPayload SliceIsTheQueue
PROPERTIES ImplementsByteStream ReadReturns SocketClosed
