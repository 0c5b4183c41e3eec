\* Books of up to four lines of one or three words: the limits of 420, 200, 900
\* and 150 words and the overlap of 63 are scaled to 4, 2, 9, 2 and 1.
\* Citations of a passage of up to five words beside one of three.  The numbers of
\* books of two and of six pages.  At most two hits of each search, where a run of
\* two tokens instead of six counts as shared.
SPECIFICATION TextSpec
CONSTANTS
    TARGET_MAX = 4
    MIN_TARGET = 2
    HARD_CEILING = 9
    CROSS_PAGE_MERGE_THRESHOLD = 2
    OVERLAP_BUDGET = 1
    WORD_LENGTH = 2
    LineSizes = {1, 3}
    MaxLines = 4
    ta = ta
    tb = tb
    tc = tc
    k1 = k1
    k2 = k2
    PageWord = PageWord
    Tokens <- MCTokens
    Alike <- MCAlike
    CiteBooks = {k1, k2}
    Shift = 1
    WrittenPages = {12}
    NoPage = NoPage
    Claims <- MCClaims
    Shown <- MCShown
    None = None
    TrueShift = 2
    NGRAM = 2
    TOP_K = 2
    MaxHits = 2
    Passages <- MCPassages
    Overlaps = {166666, 1000000}
    Boosts = {0}
    NoBookId = NoBookId
    Unranked = Unranked
    Leaves <- MCLeaves
CHECK_DEADLOCK FALSE
INVARIANTS
    NothingLost
    SentencesWhole
    CeilingKept
    PagesKnown
    PrintedKept
    PageIsShown
    LongestMatch
    WholeClaimFound
    ImputedRight
    WellReadAccepted
    DroppedForBetter
PROPERTIES
    Progress
