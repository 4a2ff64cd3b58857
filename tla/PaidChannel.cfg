SPECIFICATION Spec
CONSTANTS
    Terms <- MCTerms
    Quotes <- MCQuotes
    Limits <- MCLimits
    Sat = 2
    Window = 2
    Budget = 4
    Advance = 0
    Worlds <- MCWorlds
    Buyer = "B"
INVARIANTS CreditIsBounded RecordsResolve PaymentsAreCovered
PROPERTIES ImplementsExposure PaymentCatchesUp
CHECK_DEADLOCK FALSE
