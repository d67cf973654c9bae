SPECIFICATION ProcessSpec
CONSTANTS
    Dirs = {"d1"}
    Names = {a}
    MessageTypes = {"T", "C"}
    Protos <- MCProtos
    Compiled <- MCCompiled
    NoFile = NoFile
    Unparsable = Unparsable
    None = None
    MaxPaths = 1
    MaxImports = 2
    Self = self
    Files = {f1}
    KObj <- MCKObj
    CharArrays <- MCCharArrays
    MaxLen = 1
    IntRange = 4
    StreamBuf = 1
    Hole = Hole
    Failed = Failed
    Unknown = Unknown
    KToMessage <- MCKToMessage
    MessageToK <- MCMessageToK
    Serialize <- MCSerialize
    Parse <- MCParse
VIEW WithoutResults
INVARIANTS
    SameDefinition
    ProcessInv
PROPERTIES
    LoadsWhatWasSaved
    ImplementsParser
