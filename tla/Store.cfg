\* Two documents with two versions each; everything may go wrong, once.
CONSTANTS
    manual = manual
    notes = notes
    Docs = {manual, notes}
    MaxVersion = 2
    MaxPieces = 2
    Pieces <- PiecesOf
    Troubles = {"crash", "exception", "loss", "return"}
    MaxTroubles = 1
SPECIFICATION FairSpec
INVARIANTS
    TypeOK
    RecordedText
    NothingForgotten
    SyncedAreWhole
PROPERTIES
    SyncSettles
