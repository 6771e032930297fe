SPECIFICATION Spec
CONSTANTS
    ann = ann
    bob = bob
    am = am
    ac = ac
    bc = bc
    User <- MCUser
    Media <- MCMedia
    Ctl <- MCCtl
    UserOf <- MCUserOf
    Page = bc
    Palette = 2
    PerUser = 2
    Total = 3
    Buffer = 1
    MaxPicks = 1
INVARIANTS
    CursorsAreInOrder
    PresenceSettles
    
