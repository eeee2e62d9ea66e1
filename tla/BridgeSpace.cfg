SPECIFICATION LiveSpec
CONSTANTS
    Bridges = {a, b, c}
    Redeployed = {a}
    InitCount = 1
    MaxKey = 2
    MaxFaults = 2
    MaxCleans = 1
INVARIANTS IInv HeldIsOpen StaleRefused AttachedIsComplete
PROPERTY RedeployServes
