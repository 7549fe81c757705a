CONSTANTS
    Texts <- MCTexts
    MaxBytes = 3
    SendBufSz = 65536
    HeaderBufSz = 64
SPECIFICATION HSpec
INVARIANT TypeOK
INVARIANT DownloadAccounted
INVARIANT HeaderFitsBuffer
PROPERTY PrintfReturns
