SPECIFICATION Spec
CONSTANTS
    c1 = c1
    c2 = c2
    Callers = {c1, c2}
    rpm = 2
    tpm = 3
    Minute = 2
    MaxTokens = 2
    MaxRequests = 4
INVARIANTS TypeOK RequestQuotaPlusOne TokenQuotaPlusOne
PROPERTY WaitReturns
