CONSTANTS
    Agents = {a1, a2}
    LocalMax = 2
    Flush = 1
    MaxSent = 3
    MaxRestarts = 1
    MaxAgentRestarts = 1
    MaxRemovals = 1
    MaxReloads = 1
    Crashes = TRUE
    NoMsg = NoMsg
    None = None
SPECIFICATION Spec
SYMMETRY AgentSymmetry
CHECK_DEADLOCK FALSE
INVARIANTS AcceptedOnce SenderAhead
PROPERTY StoredNeverReplayed
