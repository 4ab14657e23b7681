CONSTANTS
    WINDOW = 4
    REJECT_AFTER_MESSAGES = 9
    Arrivals <- AllArrivals
SPECIFICATION Spec
INVARIANT Inv
PROPERTY ExactlyOnce
