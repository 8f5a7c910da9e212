\* Four 4-byte pages: snapshot on page 0, magic alone on page 1 (as in the
\* default layout, where the log starts half-way through the region), log
\* slots 4-5 on page 2.
CONSTANTS
    FEE_PAGE_SIZE = 4
    FEE_PAGE_COUNT = 4
    FEE_DENSITY_BYTES = 4
    FEE_WRITE_LOG_BYTES = 8
    FEE_BYTE_RANGE = 2
    ByteVals = {0, 165}
    WordVals = {1, 42405}
    FLASH_MAY_FAIL = FALSE
SPECIFICATION Spec
INVARIANT
    RecoverableUnderContract
CONSTRAINT
    UnderContract
