CONSTANTS
    Texts <- MCTexts
    MaxBytes = 3
    SendBufSz = 2
SPECIFICATION Spec
PROPERTY FeedReturns
