SPECIFICATION Spec
CONSTANTS
    Card <- MCCard
    AckTries = 3
    ConnectSlices = 2
    StatusSlices = {0, 1, 2}
    MaxQueue = 4
PROPERTY OneCardPerConnection
PROPERTY ConnectHasItsATR
PROPERTY CancelEndsWait
CHECK_DEADLOCK FALSE
