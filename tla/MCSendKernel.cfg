SPECIFICATION Spec
CONSTANTS
    Sigs = {s1, s2}
    Texts = {ask, reword, deploy}
    Reserved = {deploy}
    Keyed = {ask, reword}
    MinGap = 1
    Hour = 3
    HourlyCap = 2
    DedupeWindow = 2
    BreakerN = 2
    RingSize = 2
    ReceiptTimeout = 1
    BudgetCap = 2
    BudgetWindow = 4
    Uses = 1
    TTL = 2
    MaxTime = 6
    MaxMints = 1
    MaxUpheavals = 1
SYMMETRY Alike
INVARIANTS TypeOK HourlyBound BudgetBound FrozenPaneLeftAlone AuthorityIsSpent
