CONSTANTS
    Photo = {p, q}
    Screen = {s}
    Value = {0, 1}
    Caller = {http}
    None = None
    Attempts = 2
    Holds = 1
    PowerCuts = 1
    Samples = 3
    LongPolls = 5
    PinTurns = 6
SPECIFICATION PanelSpec
INVARIANTS LastRequestShown CodeWorksOnce PressAnsweredOnce
PROPERTIES Served CardGoes
