SPECIFICATION PartsSpec
CONSTANTS
    Tasks = {"ws"}
    Durations = {2, 4}
    MaxOpens = {2, 3}
    MaxStall = 1
PROPERTIES BurstsAreTimed  RunsEnd  MotionEnds CallsReturn
