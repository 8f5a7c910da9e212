CONSTANTS
    FEE_PAGE_SIZE = 8
    FEE_PAGE_COUNT = 2
    FEE_DENSITY_BYTES = 4
    FEE_WRITE_LOG_BYTES = 10
    FEE_BYTE_RANGE = 2
    ByteVals = {0, 165}
    WordVals = {1, 42405}
    FLASH_MAY_FAIL = FALSE
SPECIFICATION Spec
PROPERTY
    BadAddressHasNoEffect
