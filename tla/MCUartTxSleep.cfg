SPECIFICATION Spec
CONSTANTS
    NTHR = 3
    NULL = NULL
    UART_RBUFSZ = 2
    UINT_MOD = 4
    MaxSend = 4
    MaxRecv = 3
    RecvSizes = {0, 1}
    SendSizes = {0, 4}
INVARIANTS
    NoLostWakeupTx
