SPECIFICATION Spec
CONSTANTS
    ByteBits = 2
    Files <- MCFiles
    Payloads <- MCPayloads
INVARIANT
    DecodesTheDbc
