SPECIFICATION WireSpec
CONSTANTS
    Base = 2
    Half = 4
    Wide = 3
    Xor <- Xor2
    Mask <- Mask4
    ClientFrames <- Frames
    MaxFrames = 3
    Method <- Methods
    Written <- Answers
    Secrets <- SecretData
    Ids <- ShortIds
    Digits = 3
    UINT64_MAX = 31
CHECK_DEADLOCK FALSE
INVARIANTS FramesArrive HelpersAgree CallsTruthful
PROPERTIES PromptsEnd
