SPECIFICATION FairSpec
CONSTANTS
    leaf = leaf
    kit = kit
    pdp = pdp
    plp = plp
    q1 = q1
    q2 = q2
    Products = {leaf, kit}
    Parents <- MCParents
    Events = {1, 2}
    Workers = {w1}
    MaxRuns = 4
    MaxRetries = 2
    FullScanPercent = 60
    Everything = Everything
    Keys = {pdp, plp}
    Tags <- MCTags
    TagsOf <- MCTagsOf
    Listing = Listing
    Requests = {q1, q2}
    Hanging = {q1}
    Purgers <- MCPurgers
    NoPage = NoPage
    NoRequest = NoRequest
    CatEdits = {c1, c2}
    Instances = {i1, i2}
    Readers = {r1}
    Absent = Absent
    Subject <- MCSubject
    PurgeListings = FALSE
    Setups <- MCSetups
INVARIANTS StalePageIsExplained CategoryIndexSettles TreeIsNotStale
PROPERTIES IndexConverges EveryRunGetsVerdict EveryRequestIsServed
CHECK_DEADLOCK FALSE
