SPECIFICATION Spec
CONSTANTS
    Orders <- ReceiverOrders
    MaxAge = 2
INVARIANTS OneFixPerCycle EveryFixReported NoAltitudeIn2D LocationAge
