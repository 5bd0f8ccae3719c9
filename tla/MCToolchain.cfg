CONSTANTS
    BYTE_BITS = 2
    FPU_DEPTH = 8
    MAX_STEPS = 900
    HEADER = 4
    FILE_BUF_MAX = 200
    GUARD_OFF = 240
    MAX_TEXT = 90
    MAX_DATA = 60
    MAX_SYM = 8
    MAX_OBJ = 5
    MAX_SECTION = 200
    FS_NAME_MAX = 3
    PP_MAX_DEPTH = 4
    MAX_MACRO = 4
    MAX_MACRO_PARAMS = 2
    EXPAND_DEPTH = 6
    PP_OUT_MAX = 36
    MAX_LM_LINES = 10
    MAX_LM_FILES = 3
    IMAGE_END = 1
    STACK_GUARD = 38
    UNSIGNED = 100
    Requests = {0, 3, 5}
    Contents = {0, 1}
SPECIFICATION ToolSpec
INVARIANTS CompilerMeansC CompilerKeepsFrame CompilerRefuses AssemblerMeansSource AssemblerRefuses LinkerReachesDefinitions LinkerRefuses PreprocessorMeansC PreprocessorMapsLines BlocksApart ContentsKept
