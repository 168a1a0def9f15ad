SPECIFICATION Spec
CONSTANTS
    OSC_PAYLOAD_CAP = 8
    Bytes <- MCBytes
    HexValue <- MCHexValue
    Latin1 <- MCLatin1
    Wide <- MCWide
    Directories <- MCDirectories
    Params <- MCParams
    Noise <- MCNoise
    LoneEscapes <- TwoByteEscapes
    MaxUnits = 3
INVARIANTS
    TypeOK
    Recognised
PROPERTIES
    MarkersSpec
CHECK_DEADLOCK FALSE
