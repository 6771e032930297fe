SPECIFICATION FairSpec
CONSTANTS
    Viewer = {v1}
    Conn = {c1, c2}
    NoConn = NoConn
    MediaBuffer = 3
INVARIANTS
    InputFindsAgent
PROPERTIES
    DeltaFollowsItsFrame
    WaitingViewerResumes
