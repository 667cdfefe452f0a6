\* No value is positive.
CONSTANTS
    MovingInterval = 2
    HistogramBins = 2
    Values <- Negative
    Clock <- Within
    Warmups <- Start
    MaxUpdates = 2
    Configs <- AllTags
    Probabilities <- JsonProbabilities
    RateFactor <- Minute
SPECIFICATION Spec
INVARIANTS MaxIsLargest
\* The numbers of values and of clock readings are bounded.
CHECK_DEADLOCK FALSE
