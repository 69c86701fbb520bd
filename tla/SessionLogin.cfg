CONSTANTS
    MaxLogins = 1
    MaxLogouts = 1
SPECIFICATION Spec
PROPERTY LoginLeadsHome
