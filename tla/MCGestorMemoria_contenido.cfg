SPECIFICATION Spec
CONSTANTS
  p1 = p1
  p2 = p2
  Pids = {p1, p2}
  IdsDe <- IdsContenido
  MaxMemoria = 4
  TamSticks = {4}
  SegmentMaxSize = 2
  BestFit = TRUE
  SwapBlockSize = 1
  SwapCantBloques = 2
  MaxValor = 1
  Modulo = 8
  TamsIO = {1, 2, 3, 6}
  IdsRepetidos = FALSE
PROPERTY ImplementaPromesa
