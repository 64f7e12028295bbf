SPECIFICATION ReadingsSpec
CONSTANTS
    Months = {1, 2}
    Values = {0, 1, 2}
    Capacity = 1
    Editors = {v}
    NoValue = NoValue
PROPERTY ErrorsAreNoBase
CHECK_DEADLOCK FALSE
