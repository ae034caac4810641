SPECIFICATION AnnFairSpec
CONSTANTS
    Txts = {{x}}
    LongEntries = {}
    NoTxt = NoTxt
PROPERTY RefreshHappens
\* A terminated process stops.
CHECK_DEADLOCK FALSE
