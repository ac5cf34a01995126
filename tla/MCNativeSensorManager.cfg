SPECIFICATION Spec
CONSTANTS
    light = light
    pocket = pocket
    Hardware = {light}
    StartsOn = {}
    Virtual = {pocket}
    Deps <- deps
    OnChange = {light}
    Fifo = {light}
    pollOrder <- order
    minDelay <- mins
    Delays = {5}
    Batches <- batches
    IntRange = 16
    MaxEvents = 1
    MaxCount = 1
    MaxMetadata = 1
    MaxWakes = 1
INVARIANT FastestUserRules
PROPERTIES PowerFollowsNeed FlushReported
