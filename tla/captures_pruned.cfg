SPECIFICATION PartsSpec
CONSTANTS
    Requests = {r1, r2, r3}
    Values = {0, 1}
    Bad = bad
    Patchable = {{"cameras", "spray"}, {"detector"}, {"controller"}}
PROPERTY SelectionsKept
