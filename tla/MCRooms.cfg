SPECIFICATION FairSpec
CONSTANTS
    r1 = r1
    v1 = v1
    Room <- OneRoom
    Viewer <- OneViewer
    home <- HomeOfOne
    Cap = 1
    MaxRemovals = 1
    NoRoom = NoRoom
INVARIANTS
    ManagedRoomIsReapable
PROPERTIES
    
    WatchedRoomIsRevived
    LiveRoomIsAdopted
    ExpiredRoomEnds
    EmptyRoomGoes
