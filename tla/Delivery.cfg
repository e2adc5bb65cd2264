SPECIFICATION Spec
CONSTANTS
    Streams = {ticker, order}
    Capacity = 2
    MaxBatch = 2
    MaxTake = 2
    GapSizes = {0, 3}
    MaxSequence = 4
INVARIANTS ExactGap MergedOrder BarrierCoversPublished SignalOvertakesNothing
