CONSTANTS
    Packets <- MCPackets
    Following <- MCFollowing
SPECIFICATION FairSpec
INVARIANTS
    TypeOK
    InSync
    WithinPacket
PROPERTY
    PacketTold
CHECK_DEADLOCK FALSE
