SPECIFICATION Spec
CONSTANTS
    r1 = r1
    r2 = r2
INVARIANTS CropsSound PolygonsSound AimsFollowTables
PROPERTIES  ObjectsRationed
