SPECIFICATION Spec
CONSTANTS
    Floor = 1
    MaxLen = 3
    Configs <- UsualConfigs
    Requests = {9}
    Operators = {o1, o2}
    MaxLost = 1
INVARIANTS OvershootBounded IntervalHolds Accounted
SYMMETRY Alike
