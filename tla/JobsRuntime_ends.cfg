\* One execution, no rejection, under fairness; shutdown may be called again.
CONSTANTS
    Execution = {e1}
    Mutation = {}
    MaxInitialTicks = 2
    MaxFaults = 0
SPECIFICATION SettlingSpec
PROPERTIES
    DrainingEnds
CHECK_DEADLOCK FALSE
