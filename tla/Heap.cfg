CONSTANTS
  BLOCK_SIZE = 4096
  ATOM_SIZE = 16
  BLOCK_HEADER_SIZE = 56
  Sizes = {16, 32, 48, 64, 80, 96, 112, 128, 160, 192, 224, 256,
           320, 384, 448, 512, 640, 768, 896, 1024, 1280, 1536, 1792, 2048}
  MaxBlocks = 3
  MaxFreeing = 4
  Addresses = {p, q, r}
  PAGE_SIZE = 4096
  LARGE_HEADER = 24
  WORD = 8
  InitialCapacity = 8
  MaxElements = 2048
  MaxAttrs = 32
SPECIFICATION Spec
INVARIANTS EveryBlockInOneChain InteriorPointersFindObjects ListHoldsLargeObjs ReallocKeepsContents
SYMMETRY AddressSymmetry
CHECK_DEADLOCK FALSE
