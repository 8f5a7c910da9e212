CONSTANT FEE_DENSITY_BYTES = 112
SPECIFICATION Spec
INVARIANT DumpMatchesReference
