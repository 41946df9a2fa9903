CONSTANT Threads = {t1, t2}
SPECIFICATION Spec
INVARIANT CancelledDelayThrows
CHECK_DEADLOCK FALSE
