SPECIFICATION FairSpec
CONSTANTS
    None = None
    Base <- MCBase
    Keys = {ttl, quota}
    Values = {1, 2}
    Days = {0, 30}
    PreviewKeys = {k1, k2, k3}
    MaxPreviews = 2
INVARIANTS RoutesMatchPolicy FileMatchesLive
PROPERTIES ResetCompletes EditsAreNotLost NoConfirmationReplayed
