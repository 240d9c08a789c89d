\* One input a state, over all small inputs of every kind.
SPECIFICATION Spec
CONSTANTS
    SweepEvery = 3
    Words = {w, one}
    Numbers = {one}
    Space = Space
    LineBreak = LineBreak
    MaxLen = 8
    Numerals = {1}
    Members = {0, 3}
    CommandNames = {"c"}
    Models = {"m"}
    Texts = {"t"}
    Payloads = {p1, p2}
    Stale = Stale
    Sorted <- MCSorted
    DefaultScope = "default"
    Unknown = "unknown"
    Subclasses <- MCSubclasses
    MaxDepth = 20
    AnyState = "*"
INVARIANTS
    PagerShowsEverything
    WindowIsExact
    AcceptedIffUsageFits
    ButtonsComeBack
    BuildRefusesTheDead
    EveryPressIsTaken
    GateThenNavigation
    MiddlewaresFollowTheTree
    HelpAgreesWithMenus
    ResolutionIsSound
    BuildAgreesWithInjection
    StepsAreTriedAsDeclared
