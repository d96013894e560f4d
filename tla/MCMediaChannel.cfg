\* Three frames of up to three slices.
SPECIFICATION MediaSpec
CONSTANTS
    Window = 3
    SeqHalf = 4
    MaxSent = 10
    MaxFrames = 4
    Shapes <- MCShapes
    Missing = Missing
INVARIANTS
    FramesAreWhole
PROPERTIES
    ImplementsFreshChannel
    DeliveredInOrder
