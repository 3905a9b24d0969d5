SPECIFICATION StartupSpec
CONSTANTS
    Malformed <- MCMalformed
    Reserves <- MCReserves
    IsInput <- AnyInput
INVARIANTS
    ConfigLayered
    JobsAsWritten
    ValidateAgreesWithRun
CHECK_DEADLOCK FALSE
