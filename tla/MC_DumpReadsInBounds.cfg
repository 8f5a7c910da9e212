CONSTANT FEE_DENSITY_BYTES = 72
SPECIFICATION Spec
INVARIANT DumpReadsInBounds
