SPECIFICATION Spec
CONSTANTS
  a1 = a1
  a2 = a2
  Agents = {a1, a2}
  KeyFile0 <- TwoKeys
  Parts = 1
  MaxVersion = 1
  MaxFaults = 1
  NoAgent = NoAgent
  NoMsg = NoMsg
INVARIANT SentToResolved
