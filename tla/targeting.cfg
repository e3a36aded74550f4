SPECIFICATION Scenarios
CONSTANTS
    Floor = 1
    MaxLen = 4
    Tracks = {1, 2}
    Pos = {0, 1, 2, 3}
    NoSpray = {3}
    Delays = {1, 2}
    Spray <- TwoBursts
    DetectStability = 3
    AimTimeout = 2
    VerifyDuration = 3
    LostGrace = 2
    ResultWindow = 4
    MaxRetries = 1
    Cooldown = 4
    ContinuousTracking = TRUE
    Deadband = 2
    AimTolerance = 0
INVARIANTS ShotsCounted CommandCoversAim Paced
PROPERTY NoStateIsForever
