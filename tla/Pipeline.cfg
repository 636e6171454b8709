SPECIFICATION Spec
CONSTANTS
  W = 4
  NGpr = 3
  NFpr = 3
  FrameSize = 1024
  StartPc = 40
  Shapes <- MCShapes
  IrBlocks <- MCIrBlocks
  HostShapes <- MCHostShapes
  Envs <- MCEnvs
  Junk = {0, 171}
INVARIANTS TypeOK FrontendCorrect OptimizerCorrect DeadNeverRead
  RegistersAgree HostCorrect PatchedCorrect AbiKept EncodingFaithful NoPanic FreshContext
