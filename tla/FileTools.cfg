SPECIFICATION Spec
CONSTANTS
    Base = 4
    MinCompress = 3
    HardMax = 6
    Windows <- MCWindows
    Packings <- MCPackings
    Apps <- MCApps
    NewApp <- MCNewApp
    Known = {"lzma", "zlib"}
    MaxWindows = 2
INVARIANTS
    Intact
    FilesTruthful
    ReadableAccepted
    
    ShownTrue
CHECK_DEADLOCK FALSE
