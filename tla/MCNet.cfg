SPECIFICATION Spec
INVARIANTS  PeersSound
CHECK_DEADLOCK FALSE
