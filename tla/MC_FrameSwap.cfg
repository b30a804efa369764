SPECIFICATION FairSpec
CONSTANTS
    Buffers = {fb0, fb1}
    RenderFirst = fb0
    HubFirst = fb1
    NoBuffer = NoBuffer
    FrameCount = 7
INVARIANTS
    TypeOK
    
    
PROPERTY ImplementsPipe
