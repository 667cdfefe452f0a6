\* Values from the past, within the interval and beyond it; every tag alone
\* against all tags together.
CONSTANTS
    MovingInterval = 3
    HistogramBins = 4
    Values <- MixedValues
    Clock <- Within
    Warmups <- SomeWarmups
    MaxUpdates = 2
    Configs <- SingleTags
    Probabilities <- JsonProbabilities
    RateFactor <- Minute
SPECIFICATION Spec
INVARIANTS HistogramShape QuantileSound TypeOK TagsIndependent AvgWithinRange ShiftPathIndependent Expires RateIsMovingCount
PROPERTIES HistogramConservesStep
\* The numbers of values and of clock readings are bounded.
CHECK_DEADLOCK FALSE
