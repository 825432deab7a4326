\* Every table of up to six keys, with blocks of one to six pairs.
CONSTANTS
    TableKeys <- MCTableKeys
    BlockSizes = {14, 24}
    Intervals = {1, 2}
    KeysPerLine = 2
    Ring = 2
    Probes = 2
    Width = 5
    TypeWidth = 1
    CollectedWidth = 2
SPECIFICATION MCSpec
INVARIANTS
    TablesAreReadBack
    OrderFollowsCounter
    MarksNameTheirRun
