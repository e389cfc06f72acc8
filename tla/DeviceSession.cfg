SPECIFICATION FairSpec
CONSTANTS
    MaxQueue = 1
    MaxEpochs = 2
    MaxInterrupts = 2
    MaxWire = 2
INVARIANTS TypeOK EpochsFit SilencedStaysSilent
PROPERTIES MicrophoneIsOurs SessionEnds
CHECK_DEADLOCK FALSE
