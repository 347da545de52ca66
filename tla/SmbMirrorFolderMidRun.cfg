CONSTANTS
    Folder = {f1, f2}
    Name = {a, b}
    UserName = {u}
    Oversize = {}
    MaxVer = 1
    FilesPerWindow = 1
    ListMax = 2
    ManifestMax = 4
    CapFiles = 2
    ByteCapBites = TRUE
    Nothing = Nothing
    User = User
SPECIFICATION MirrorSpec
SYMMETRY Photographs
PROPERTIES DeletesOnlyWhatWasGone
