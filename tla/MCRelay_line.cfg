SPECIFICATION Spec
CONSTANTS
    Z1_CONFIRM_MS = 2
    Z2_DELAY_MS = 5
    Z3_DELAY_MS = 7
    DIFF_CONFIRM_MS = 3
    SWING_TRANSIT_MS = 4
    UNBLOCK_CONFIRM_MS = 3
    None = None
CHECK_DEADLOCK FALSE
INVARIANTS FreshSwingNeverTrips EvidenceTrips TripsSustained
