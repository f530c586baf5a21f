SPECIFICATION Spec
CONSTANTS
    Channels = {c1}
    EndpointTypes = {"auto", "embeddings"}
    auto = "auto"
    MaxModels = 3
    concurrencyLimit = 2
    MaxBatches = 2
    MaxClicks = 1
    c1 = c1
PROPERTIES
    NoHiddenBatch
