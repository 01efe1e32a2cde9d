CONSTANTS
    Packets <- MCPackets
    Following <- MCFollowing
SPECIFICATION FairSpec
INVARIANT
    RoomForPort
CHECK_DEADLOCK FALSE
