\* Every stream of six bytes, in every way to cut it into chunks of up to four.
CONSTANTS
    Byte = {"a", "b", "CR", "LF"}
    CR = "CR"
    LF = "LF"
    ChunkSize = 4
    MaxBytes = 6
SPECIFICATION FairSpec
INVARIANTS
    BufferIsRest
    OutputIntact
PROPERTY
    ImplementsLineReader
