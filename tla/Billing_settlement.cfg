SPECIFICATION Spec
CONSTANTS
    Price = 2
    Scenarios = {"refunds", "partial", "disputes", "orders", "early"}
INVARIANTS
    GrantedOnce
    RefundRemembered
    LastDecisionWins
PROPERTY
    SettlesPayment
CHECK_DEADLOCK FALSE
