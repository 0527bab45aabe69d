SPECIFICATION Spec
INVARIANTS NotRefused Answered
CHECK_DEADLOCK FALSE
