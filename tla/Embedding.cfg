\* Two downloads, an import and a search; two files; anything goes wrong, twice.
CONSTANTS
    click = click
    again = again
    import = import
    search = search
    onnx = onnx
    tokenizer = tokenizer
    Nobody = Nobody
    Downloads = {click, again}
    Embeds = {import, search}
    Files = {onnx, tokenizer}
    Troubles = {"crash", "exception", "vanish"}
    MaxTroubles = 2
SPECIFICATION FairSpec
INVARIANTS
    ReadyIsWhole
    ModelIsCurrent
PROPERTIES
    SuccessIsReady
    DownloadEnds
CHECK_DEADLOCK FALSE
