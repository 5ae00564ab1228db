SPECIFICATION Spec
INVARIANT TypeOK
INVARIANT ReportAccepted
INVARIANT LeftoverTold
INVARIANT ScansFrozen
INVARIANT TestsFrozen
PROPERTY Ends
