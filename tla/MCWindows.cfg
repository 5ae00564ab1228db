\* Both drivers, with the two clients and the one writer the code has.
SPECIFICATION FairSpec
INVARIANT WindowHolds
PROPERTY AllEnd
