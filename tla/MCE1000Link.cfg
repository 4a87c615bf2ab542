CONSTANTS
    MaxFlaps = 16
SPECIFICATION Spec
INVARIANT LinkConsistent
PROPERTY CarrierConverges
 
CHECK_DEADLOCK FALSE
