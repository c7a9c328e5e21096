CONSTANTS
    Types <- MCTypes
    Objects <- MCObjects
    Versions = {1, 2}
    OldBytes <- MCOldBytes
    BufferSize = 4
    BlockWidth = 2
    MarkerIds = {m1, m2, a1}
    Anchors = {a1}
    Slots = {s1, s2, s3, s4}
    Proxies = {p1, p2}
SPECIFICATION MCSpec
INVARIANTS LoadsWhatWasSaved OkMeansWhole ProxyFollowsMarker
CHECK_DEADLOCK FALSE
