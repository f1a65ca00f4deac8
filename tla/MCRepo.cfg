SPECIFICATION Spec
CONSTANTS
    MaxNum = 4
    Packages <- OnePackage
    MaxSettings = 2
    MaxRestarts = 2
INVARIANTS
    TypeOK
    RefusedOnlyWhenFull
    MarksFollowInstances
PROPERTIES
    RestartRestores
