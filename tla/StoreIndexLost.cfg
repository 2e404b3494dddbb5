\* The index is lost, or is one of an earlier release.
CONSTANTS
    manual = manual
    notes = notes
    Docs = {manual, notes}
    MaxVersion = 2
    MaxPieces = 2
    Pieces <- PiecesOf
    Troubles = {"loss"}
    MaxTroubles = 1
SPECIFICATION Spec
INVARIANTS
    UpToDateIsWhole
