SPECIFICATION Scenarios
CONSTANTS
    Cams = {"a", "b"}
    Models = {1, 2, 3}
    Disabled = {3}
    Stall = 0
    MaxSeq = 2
    MaxGen = 4
    MaxChanges = 1
  
PROPERTIES WorkingDetectorKept PipelineSettles
