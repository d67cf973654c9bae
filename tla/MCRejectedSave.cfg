SPECIFICATION Spec
CONSTANTS
    Procs = {p1}
    Files = {f1}
    MessageTypes = {"M", "unknown"}
    KnownTypes = {"M"}
    KObj <- MCKObj
    CharArrays = {}
    Modes <- MCModes
    MaxLen = 2
    IntRange = 6
    StreamBuf = 1
    Hole = Hole
    NoFile = NoFile
    Failed = Failed
    None = None
    KToMessage <- MCKToMessage
    MessageToK <- MCMessageToK
    Serialize <- MCSerialize
    Parse <- MCParse
INVARIANT RejectedSaveKeepsFile
