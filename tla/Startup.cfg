\* Two instances; images of one and of three files, the second at times flawed.
SPECIFICATION FairSpec
CONSTANTS
    Instances = {i1, i2}
    Tops = {1, 3}
    Flawed = {2}
    MaxDeploys = 2
    MaxFailures = 2
INVARIANTS
    TypeOK
    AppliedOnceAndRecorded
    InFilenameOrder
    ServesOnItsSchema
PROPERTIES
    ComesUp
