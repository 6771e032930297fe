SPECIFICATION InkFairSpec
CONSTANTS
    Author = {u1, u2}
    Watched = {u1}
    Fade = fade
    MaxId = 2
    MaxInkPoints = 2
    MaxStrokes = 2
    MaxStrokesPerUser = 1
    MaxStrokePoints = 2
    CtlBuffer = 1
INVARIANTS
    InkIsAccountedFor
    QuietBoardsAgree
PROPERTIES
    ScreensCatchUp
