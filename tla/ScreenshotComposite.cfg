\* Two goroutines, an honest device, frames of one size.
SPECIFICATION Spec
CONSTANTS
    c1 = c1
    c2 = c2
    Callers <- TwoCallers
    MaxBytes = 3
    Sizes <- OneSize
    MaxChunk = 2
    MaxFrames = 2
    Honest = TRUE
INVARIANTS
    SingleImage
CHECK_DEADLOCK FALSE
