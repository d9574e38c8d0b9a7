SPECIFICATION Spec
CONSTANTS
    Scenarios <- MCScenarios
    SynCookie <- MCSynCookie
    XorOf <- MCXor
    RstIndex <- MCRstIndex
    BucketCount = 4
    Forever = 1000000
INVARIANTS AnswersCounted DatagramsCounted  FilesFramed FilterExact SentVerify
CHECK_DEADLOCK FALSE
