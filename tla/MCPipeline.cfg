CONSTANTS
    e1 = e1
    e2 = e2
    e3 = e3
    e4 = e4
    e5 = e5
    e6 = e6
    Msgs <- AllMsgs
    Types = {"event", "syscheck"}
    EventType = "event"
    TypeOf <- MCTypeOf
    Shards = {"s1"}
    ShardOf <- MCShardOf
    Demuxers = {"x1"}
    Decoders = {"d1", "d2"}
    DecoderType <- MCDecoderType
    Matching = {e1, e2, e3}
    Firewall = {e4, e5, e6}
    Hourly = {e3}
    Capacity = 1
    ListMax = 1
    Logfw = TRUE
    Logall = TRUE
    NoMsg = NoMsg
SPECIFICATION FairSpec
CONSTRAINT Traffic
INVARIANTS OneOwner EventLiveWhileUsed MessagesAccounted AlertsAccounted ClosedAfterFeeders NoGridlock
PROPERTY MovesOn
PROPERTY ShutdownEnds
PROPERTY MessagesLeave
