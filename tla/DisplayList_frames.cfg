SPECIFICATION Spec
CONSTANTS
    BufferSize = 16384
    MaxChunk = 16
    Names = {0, 255}
    Chars = {33}
    Counts = {0, 1, 4096}
    PageSize = 16
INVARIANTS
    FrameIntact
    
