CONSTANTS
    WordSize = 64
    IntSize = 32
SPECIFICATION Spec
INVARIANTS TypeOK Bezout NoIntOverflow StoresInverse AccIsExact
PROPERTIES Terminates
CHECK_DEADLOCK FALSE
