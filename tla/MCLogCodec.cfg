CONSTANTS
    FEE_DENSITY_BYTES = 16384
    FEE_BYTE_RANGE = 128
    WordSample = {0, 1, 2, 255, 256, 32768, 65534, 65535}
SPECIFICATION Spec
INVARIANT
    EncodeDecode
