SPECIFICATION ScheduledCallSpec
CONSTANTS
    Call <- MCOneCall
    BadTimeout <- MCNone
PROPERTIES
    HardTimeout
CHECK_DEADLOCK FALSE
