\* Two 8-byte pages: the magic (half-words 2-3) shares page 0 with the
\* snapshot (half-words 0-1), so an interrupted eeprom_clear always erases
\* it; log slots 4-6.
CONSTANTS
    FEE_PAGE_SIZE = 8
    FEE_PAGE_COUNT = 2
    FEE_DENSITY_BYTES = 4
    FEE_WRITE_LOG_BYTES = 10
    FEE_BYTE_RANGE = 2
    ByteVals = {0, 165}
    WordVals = {1, 42405}
    FLASH_MAY_FAIL = FALSE
SPECIFICATION Spec
PROPERTY
    StoreRefinement
CONSTRAINT
    UnderContract
