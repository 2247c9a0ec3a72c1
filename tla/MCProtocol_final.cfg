SPECIFICATION LateSpec
INVARIANT FinalCondition
