CONSTANTS
    HoursPerDay = 4
    DeviceOffset <- MCOffset
    MaxTime = 18
SPECIFICATION Spec
INVARIANTS
    StatusIsTrue
    BarIsTrue
PROPERTY NeverBackwards
