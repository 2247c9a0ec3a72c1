SPECIFICATION Spec
INVARIANTS NodeSound StorageSound 
PROPERTIES CallsReturn CatchesUp
CHECK_DEADLOCK FALSE
