\* The only main upstream falls silent, the fallback goes on.
CONSTANTS
    m1 = m1
    m2 = m2
    f1 = f1
    c1 = c1
    HM = HM
    Mains = {m1}
    Fallbacks = {f1}
    MainOrder <- MCOneMain
    Polled = {}
    PollEvents = {}
    Clients = {c1}
    Number <- MCTwoBlocks
    Key <- MCTwoBlocks
    DedupSize = 2
    ChanCap = 1
    Threshold = 1
SPECIFICATION FairSpec
PROPERTIES
    FallbackPasses
