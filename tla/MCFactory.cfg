SPECIFICATION FairSpec
CONSTANTS
    Dirs = {"d1"}
    Names = {"a", "b"}
    MessageTypes = {"T", "U", "V", "C"}
    Protos <- MCProtos
    Compiled <- MCCompiled
    NoFile = NoFile
    Unparsable = Unparsable
    None = None
    MaxPaths = 1
    MaxImports = 2
INVARIANTS
    PoolsAgree
PROPERTIES
    ImplementsRegistry
    EveryImportReturns
