SPECIFICATION RenumberedSpec
INVARIANT
    NewIdIsFree
CHECK_DEADLOCK FALSE
