\* Two links, two messages on each besides the answer to the token, a channel of two
\* lines; lines of up to five bytes, chunks of two.
SPECIFICATION Spec
CONSTANTS
    a = a
    b = b
    NL = NL
    Letters <- TwoLetters
    ChunkSize = 2
    Retries = 3
    RecvCap = 2
    MaxLen = 5
    Tokens <- ThreeTokens
    Secret <- RightToken
    Endings <- FiveEndings
    MaxLinks = 2
    MaxMessages = 2
INVARIANTS
    LinesKeepOrder
    SendSpoilsOne
    TokenWrittenOnce
    AuthByAcceptance
CHECK_DEADLOCK FALSE
