SPECIFICATION FairSpec
CONSTANTS
    accessibility = accessibility
    own = own
    wild = wild
    unset = unset
    de = de
    feed = feed
    banner = banner
    launch = launch
    Packs = {accessibility}
    DefaultOn = {accessibility}
    Own = own
    Wild = wild
    Unset = unset
    Dimensions <- MCDimensions
    DimensionWeight <- MCWeights
    PassThreshold = 8500
    ConditionalThreshold = 7000
    Ceiling = 5
    Prices = {2}
    K = 1
    EscalateK = 3
    Says = {"pass", "fail", "insufficient_evidence"}
    Named = {"minor"}
    Rows <- MCRows
    MaxRows = 3
    Assets <- MCAssets
INVARIANTS NarrowestAxisDecides TurnedAwayForWildcards OvershootIsOneCall SevereFirst GapsAreNeutral
PROPERTY EveryRuleIsAnswered
