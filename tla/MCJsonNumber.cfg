SPECIFICATION Spec
INVARIANT LastNumberIsRead
CHECK_DEADLOCK FALSE
