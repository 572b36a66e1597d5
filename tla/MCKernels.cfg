CONSTANTS
  Starts <- ModelStarts
  MessageWords <- ModelMessage
  Backends = {"scalar", "neon", "ssse3", "avx2", "wasm128"}
  Plains <- ModelPlains
  Texts <- ModelTexts
SPECIFICATION KernelsSpec
INVARIANTS
  StoresReference
  CompressesAsScalar
  WordsAsScalar
  EncodesAsReference
  DecodesAsReference
  StaysInBounds
CHECK_DEADLOCK FALSE
