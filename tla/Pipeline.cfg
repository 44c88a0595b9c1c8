SPECIFICATION Spec
CONSTANTS
    N = 3
    Capacity = 1
    Items = 2
    Status = {0, 1}
INVARIANTS TypeOK WaitsEmptyHanded NoEarlyEof NoSpuriousSigpipe ReturnsStatusOfRight
PROPERTIES PipelineReturns ChildrenEnd
