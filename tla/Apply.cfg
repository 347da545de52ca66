CONSTANTS
    Photo = {p}
    Screen = {}
    Value = {0, 1}
    Caller = {http, app}
    None = None
    Button = app
    Folder = {f1, f2}
    Name = {a, b}
    UserName = {u}
    Oversize = {}
    MaxVer = 1
    FilesPerWindow = 1
    ListMax = 1
    ManifestMax = 4
    CapFiles = 2
    ByteCapBites = TRUE
    Nothing = Nothing
    User = User
SPECIFICATION EitherSpec
SYMMETRY Photographs
INVARIANTS ShownIsStored GlassUpToDate
PROPERTY KeepsWhatIsListed
