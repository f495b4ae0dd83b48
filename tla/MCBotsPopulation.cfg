SPECIFICATION Spec
CONSTANTS
    Bot = {1, 2, 3, 4}
    None = None
    Target = 2
    WaveSize = 2
    WaveInterval = 2
    BossDelay = 2
    PracticeDelay = 2
    MaxStrays = 1
CHECK_DEADLOCK FALSE
INVARIANT PopulationBound
