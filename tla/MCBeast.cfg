\* Two frames with every content over four byte values, cut into every
\* sequence of chunks, over any number of connections.  Once closed, the
\* reader does nothing more.
CONSTANTS
    Esc = "esc"
    PayloadLen <- MCPayloadLen
    Others = {"other"}
    HeaderLen = 1
    ModeAC = "short"
    Df <- MCDf
    UnknownLen = 2
    MaxBuffer = 9
    MaxFrames = 2
SPECIFICATION FairSpec
INVARIANTS TypeOK InOrder AllCounted ReportedOnce NeverDiscards
PROPERTY StopEnds
CHECK_DEADLOCK FALSE
