CONSTANT Threads = {t1, t2}
SPECIFICATION Spec
PROPERTY CancelledDelayIsResumed
CHECK_DEADLOCK FALSE
