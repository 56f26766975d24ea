CONSTANTS
    open = open
    close = close
    nul = nul
    Octet <- MCOctet
    Nul = nul
    Payloads <- MCPayloads
    Documents <- MCDocuments
    Bodies <- MCBodies
    Accepted <- MCAccepted
    Refused <- MCRefused
    Errors <- MCErrors
    MaxCount = 2
SPECIFICATION FairSpec
INVARIANTS
    TypeOK
    OctetsInOrder
    SuccessIsDelivered
PROPERTIES
    ExchangeSpec
    Returns
CHECK_DEADLOCK FALSE
