\* A termination signal at any time after startup.
CONSTANT Conns = {c1}
SPECIFICATION FairSpec
PROPERTY SignalEndsProcess
