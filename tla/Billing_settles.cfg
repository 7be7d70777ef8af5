SPECIFICATION LiveSpec
CONSTANTS
    Price = 2
    Scenarios = {"silent", "parked"}
PROPERTIES
    PaidIsGranted
    RefundReachesPack
    RowsFinish
CHECK_DEADLOCK FALSE
