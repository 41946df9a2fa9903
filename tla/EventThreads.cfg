CONSTANT Threads = {t1, t2}
SPECIFICATION Spec
INVARIANT EventThreadsMultiplex
CHECK_DEADLOCK FALSE
