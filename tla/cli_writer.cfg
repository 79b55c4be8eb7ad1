SPECIFICATION Spec
CONSTANTS
    r1 = r1
    r2 = r2
    n1 = n1
    n2 = n2
    i1 = i1
    i2 = i2
    Runs <- MCRuns
    Names <- MCNames
    Infos <- MCInfos
    Unreadable = Unreadable
    NoFile = NoFile
    Partial = Partial
    Mixed = Mixed
SYMMETRY Symmetry
INVARIANTS TypeOK
PROPERTIES FinishedCrateIsWhole
