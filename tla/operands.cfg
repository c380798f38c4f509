SPECIFICATION Spec
CONSTANTS
  NumRegs = 2
  Volatile <- MCVolatile
  IntArgs = 2
  FloatArgs = 1
  Params <- MCParams
  Variables <- MCVariables
  MaxParams = 3
  MaxLocals = 1
  MaxDepth = 3
  MaxArgs = 2
  Forms = {}
INVARIANTS ValuesKept MemoryKept RegistersFreed FrameSound ArgumentsArrive
