SPECIFICATION Spec
CONSTANT Setups <- AllSetups
INVARIANTS
    NeverBoth
    StartOnce
    PathReady
    StacksProven
    PowerOffArmed
PROPERTY CallReturns
