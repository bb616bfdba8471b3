\* CONF: two slots, queues of one message, lines of up to two words; a
\* scenario has two transmissions around the counter's wrap or four words.
\* Framed DATA: streams of up to 8 bytes of base 3.
CONSTANTS
    MaxClients = 2
    LineLen = 3
    Capacity = 1
    GenMod = 6
    Keys <- RuntimeKeys
    Scenarios <- Script
    Base = 3
    MaxStream = 8
SPECIFICATION Spec
INVARIANTS
    RepliesMatchLines
    TxStatusExact
    LedFollows
    ParserMatchesFrames
