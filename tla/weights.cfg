SPECIFICATION Spec
CONSTANTS
  onnx = onnx
  demucs = demucs
  mdx = mdx
  denoiser = denoiser
  None = None
  Keys <- AllKeys
  Ort <- OrtKeys
  Helpers <- HelperKeys
  Early <- EarlyKeys
  Again <- AgainKeys
  MaxEntries = 3
  MaxRuns = 2
  MaxPasses = 2
  MaxDepth = 2
INVARIANTS
  ResidentIsCached
  OneModuleWarm
  FailureFreesDevice
  HitSurvives
CHECK_DEADLOCK FALSE
