SPECIFICATION FramesSpec
CONSTANTS
    Stream <- MCStreams
    MSG_READ_BUFFER_LENGTH = 64
INVARIANTS HandsOnWhatCame
PROPERTIES HandedOnUnlessHeadIsCut
