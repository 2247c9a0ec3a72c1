SPECIFICATION Spec
INVARIANTS  FinalCondition
PROPERTIES PartOnlyAfterSwitch  
