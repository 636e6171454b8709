SPECIFICATION Spec
CONSTANTS
  W = 4
  NGpr = 3
  NFpr = 3
  FrameSize = 1024
  StartPc = 40
  Shapes <- ScShapes
  IrBlocks <- NoBlocks
  HostShapes = {"sc"}
  Envs <- MCEnvs
  Junk = {0, 171}
INVARIANTS FrontendCorrect
