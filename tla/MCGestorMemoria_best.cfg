SPECIFICATION Spec
CONSTANTS
  p1 = p1
  p2 = p2
  Pids = {p1, p2}
  IdsDe <- IdsBest
  MaxMemoria = 5
  TamSticks = {2, 3}
  SegmentMaxSize = 3
  BestFit = TRUE
  SwapBlockSize = 2
  SwapCantBloques = 3
  MaxValor = 0
  Modulo = 8
  TamsIO = {1, 2, 3, 6, 7}
  IdsRepetidos = FALSE
INVARIANTS
  TypeOK
  SinSolape
  EnMovimiento
  TablaEspeja
  BloquesConDueno
  TodoONada
  CompactacionAlcanza
  HuecoDelBucle
SYMMETRY Simetria
