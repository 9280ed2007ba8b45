CONSTANTS
    Packets <- MCPackets
    MaxPackets = 4
SPECIFICATION Spec
INVARIANTS
    NothingLeft
    TranscriptWhole
PROPERTIES
    BuildReturns
