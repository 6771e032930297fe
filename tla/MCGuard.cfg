SPECIFICATION FairSpec
CONSTANTS
    Room = {r1, r2}
    Handler = {h1, h2}
    Reaper = reaper
    Nobody = nobody
    Down = down
    Cap = 1
    Backends <- BothBackends
INVARIANTS
    CapHolds
PROPERTIES
    ReviveSparesLivePods
    ReapSparesYoungRooms
    KeepsPromise
    ExpiredRoomsGo
    RequestsEnd
