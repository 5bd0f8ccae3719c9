CONSTANTS
    BYTE_BITS = 2
    FPU_DEPTH = 8
    MAX_STEPS = 900
SPECIFICATION FloatTruthSpec
INVARIANT CompiledMeansC
