SPECIFICATION Spec
CONSTANTS
    c1 = c1
    c2 = c2
    c3 = c3
    m1 = m1
    m2 = m2
    Contents <- MCContents
    NoFile = NoFile
    Partial = Partial
    Makes <- MCMakes
    Faults <- FaultKinds
SYMMETRY Symmetry
INVARIANTS TypeOK BindingsTrackJson CleanRestoresTrust
PROPERTIES TestsRunOnTheSource
