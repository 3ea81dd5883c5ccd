SPECIFICATION FairSpec
CONSTANTS
    Streams <- MCStreams
    MaxPayload = 6
    MaxFrames = 3
CHECK_DEADLOCK FALSE
INVARIANTS TypeOK InSync UnmaskInBounds
PROPERTIES ImplementsFrameStream FrameHandled
