\* Guesses, refreshes and a suspension of one account interleave.
CONSTANTS
    Phones = {anna}
    Devices = {handset}
    Calls = {c1, c2}
    MaxAttempts = 2
    MaxCodes = 2
    MaxTokens = 3
SYMMETRY AnyCall
SPECIFICATION SignInSpec
INVARIANTS
    OneSessionPerCode
    EndedOrReplaced
PROPERTIES
    LockedCodeStaysLocked
\* Every code may be spent and every token used.
CHECK_DEADLOCK FALSE
