\* Two calls for two keys, two providers of different prices, two attempts, two chunks.
SPECIFICATION FairSpec
CONSTANTS
    MaxInt = 1000
    PriceUnit = 2
    Key = {"k1", "k2"}
    MaxAttempts = 2
    MonthlyBudget = 6
    None = None
    Handler = {"first", "second"}
    Streamed = {"stream"}
    Provider = {"primary", "secondary"}
    InputPrice <- MCInputPrice
    OutputPrice <- MCOutputPrice
    Estimate <- MCEstimate
    Usages <- MCUsages
    MaximumStreamBytes = 2
    Policies <- MCPolicies
    Sends <- MCSends
    Impatient = {"first"}
    Cancellable = {"k1"}
INVARIANTS
    DoneIsTrue
    ErrorsAreFinal
    BudgetHolds
PROPERTIES
    RefinesLifecycle
    EveryCallAnswered
CHECK_DEADLOCK FALSE
