SPECIFICATION Spec
CONSTANTS
    Day = 4
    Y2000 <- Date2000
    Century <- HundredYears
    kRolloverPeriodSec <- Weeks1024
    kPlausibleFloorSec <- Date2025
    Behind <- UpToTwoBehind
    Thresholds <- SomeThresholds
    MaxDelay = 1
    Starts <- Windows
    Times <- SomeTimes
    ClockErrors <- SomeClockErrors
INVARIANTS NmeaClockTypeOK  CarriedDateLags ClockHealed SteeringSettles
