SPECIFICATION Spec
CONSTANTS
    Threads = {t1, t2}
    Slots = {1, 2, 3, 4, 5, 6}
    Checkpoints = {c1, c2}
    MaxGeneration = 2
    MaxWrites = 2
    GaugeModulus = 16
    None = None
    Corrupt = Corrupt
SYMMETRY Symmetry
VIEW View
INVARIANTS
    TypeOK
    ReadsCurrent
    VouchedIsStored
    ReplicaOfEnvelope
    GaugeSettles
