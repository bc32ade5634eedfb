\* All prefixes of the packets, and packets with one byte of the header replaced.
CONSTANTS
    Addresses <- MCAddresses
    Payloads <- MCPayloads
    Damage = {0, 1, 2, 3, 4, 5, 255}
    NotUtf8 = {200}
    U8 = 256
SPECIFICATION Spec
CHECK_DEADLOCK FALSE
INVARIANTS PrefixesUnderstood AcceptedIsRebuilt
