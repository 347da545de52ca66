SPECIFICATION FairSpec
CONSTANTS
    MaxWindows = 1
    MaxEvents = 2
INVARIANTS OneSession ReloadAlone
PROPERTIES WindowSeesOneConfig RequestsServed
