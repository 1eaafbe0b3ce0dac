CONSTANTS
    k1 = k1
    k2 = k2
    k3 = k3
    WindowKeys <- MCWindowKeys
    MaxWindows = 2
    MaxTime = 3
    Closes <- MCCloses
    DeadlineChoices = {1}
    InitDeadline = 1
    MaxSamples = 4
    NoValue = NoValue
SYMMETRY MCSymmetry
SPECIFICATION Spec
INVARIANT MissedFlagMeansLateProof
