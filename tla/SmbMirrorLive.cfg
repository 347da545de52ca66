CONSTANTS
    Folder = {f1}
    Name = {a, b}
    UserName = {}
    Oversize = {}
    MaxVer = 3
    FilesPerWindow = 1
    ListMax = 2
    ManifestMax = 2
    CapFiles = 2
    ByteCapBites = FALSE
    Nothing = Nothing
    User = User
SPECIFICATION OneFolderSpec
INVARIANTS NoOrphanAtRest RecordsNotAhead
PROPERTY Converges
