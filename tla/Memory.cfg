\* Three regions of one or three blocks in a heap of two, four or six
\* blocks, under both policies.
CONSTANTS
  p1 = p1  p2 = p2  p3 = p3
  Slot = {p1, p2, p3}
  Size = {0, 16, 49, 2100}
  Count = {1}
  ds_heap_start = 96
  MaxHeapSize = 288
  CHUNKSIZE = 128
  SHRINKTHLD = 64
  SIZE_MOD = 4096
  Policies = {"fp_Implicit", "fp_Explicit"}
SPECIFICATION Spec
SYMMETRY Symmetry
VIEW View
INVARIANTS
  TypeOK
  HeapIsTiled
  FreeListIsFreeBlocks
  AllocatedIsHeld
  FreedIsRecognized
PROPERTIES
  ImplementsAllocator
