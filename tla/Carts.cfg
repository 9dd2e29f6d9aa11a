SPECIFICATION Spec
CONSTANTS
    gc = gc
    hc = hc
    kc = kc
    va = va
    vb = vb
    Guests = {gc, hc}
    Own = {kc}
    Variants = {va, vb}
    Callers = {w1, w2}
    NoCart = NoCart
    MaxFaults = 2
    Setups <- MCSetups
INVARIANTS UnitsConserved ValuesFollowLine OneRecoveryMail
SYMMETRY CallerSymmetry
CHECK_DEADLOCK FALSE
