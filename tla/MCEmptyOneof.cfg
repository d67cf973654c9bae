SPECIFICATION MCSpec
CONSTANTS
    Procs = {p1}
    Files = {}
    MessageTypes <- MCTypes
    KnownTypes <- MCTypes
    KObj <- MCKObj
    CharArrays <- MCCharArrays
    Modes = {TRUE, FALSE}
    MaxLen = 20
    IntRange = 42
    StreamBuf = 1
    Hole = Hole
    NoFile = NoFile
    Failed = Failed
    None = None
    KToMessage <- MCKToMessage
    MessageToK <- MCMessageToK
    Serialize <- MCSerialize
    Parse <- MCParse
    StringKdbType = 10
    BytesKdbType = 4
    StringMapKeyKdbType <- MapKeySymbol
    Unset = Unset
    CStrOf <- MCCStrOf
    GuidOf <- MCGuidOf
    HexOf <- MCHexOf
    RecursionLimit = 3
    NotUtf8 <- MCNotUtf8
    IntModulus = 4
    Schema <- MCSchema
    GetSub <- MCGetSub
    SetSub <- MCSetSub
    Messages <- MCMessages
    Nested <- MCNested
    Groups <- MCGroups
    TablesOf <- MCTablesOf
    SliceSub <- MCSliceSub
    Height <- MCHeight
    RecordsSub <- MCRecordsSub
    MergeSub <- MCMergeSub
    ParsesSub <- MCParsesSub
INVARIANT EmptyListIsNotActive
