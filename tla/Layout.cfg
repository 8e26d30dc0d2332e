SPECIFICATION LayoutSpec
CONSTANTS
    WordSize = 64
    Page = 2
    Shapes <- AllShapes
    Machines <- SomeMachines
INVARIANTS GroupsTiled JobFindsSections
