SPECIFICATION FairSpec
CONSTANTS
    NumJobs = 2
    NumTanks = 2
    Workers = 1
    MaxAttempts = 2
    MaxTicks = 2
    MLPSizes <- MCMLPSizes
    Weights <- MCWeights
    MaxRestarts = 1
CHECK_DEADLOCK FALSE
INVARIANT TypeOK
INVARIANT GaugeExact
INVARIANT AnswerWhole
INVARIANT WeightsReadOnce
PROPERTY FirstDeathKept
PROPERTY EveryRequestEnds
PROPERTY TrainerEnds
