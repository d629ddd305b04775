\* One execution, one mutation, one rejection.
CONSTANTS
    Execution = {e1}
    Mutation = {m1}
    MaxInitialTicks = 1
    MaxFaults = 1
SPECIFICATION Spec
INVARIANTS
    NoCallHangs
PROPERTIES
    
    FlushIsBarrier
CHECK_DEADLOCK FALSE
