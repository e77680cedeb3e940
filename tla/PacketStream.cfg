SPECIFICATION Spec
CONSTANTS
    MaxInputBuffer = 1
    HeaderLen = 1
    Sizes = {1, 2, 3}
    MaxMessage = 2
    ReadChunk = 2
    MaxBytes = 4
    MaxWrites = 1
INVARIANTS
    StreamOK
    

    
    
    
CHECK_DEADLOCK FALSE
