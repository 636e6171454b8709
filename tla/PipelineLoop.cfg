SPECIFICATION Spec
CONSTANTS
  W = 4
  NGpr = 3
  NFpr = 3
  FrameSize = 1024
  StartPc = 40
  Shapes <- LoopShapes
  IrBlocks <- NoBlocks
  HostShapes = {"loop"}
  Envs <- MCEnvs
  Junk = {0, 171}
INVARIANTS HostCorrect
