\* Two invoices seeded by 0001 and one inserted by V2; two connections.
CONSTANTS
    Sessions = {s1, s2}
    Seed <- MCSeed
    InsertId = 3
    V1Targets <- MCV1Targets
    V2Targets <- MCV2Targets
    V1Delta = 1
    V2Delta = 2
    BatchSize = 1
    MaxAmount = 4
    Null = Null
SPECIFICATION Spec
SYMMETRY Symmetry
INVARIANTS
    TypeOK
    ShapeMatchesPhase
    CheckpointSound
    DownStaysOpen
    TargetTrusted
    AdmittedWritesSucceed
PROPERTIES
    PhaseMovesAlone
    ImplementsInvoiceLedger
