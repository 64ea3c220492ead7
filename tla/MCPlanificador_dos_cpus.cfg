SPECIFICATION Spec
CONSTANTS
  Cpus = {c1, c2}
  MaxProcesos = 3
  MaxHilosIO = 1
  Scripts <- ScriptsDosCpus
  ScriptInicial = 0
  EsCMN = TRUE
  CantColas = 2
  AlgPorCola <- ColasFIFORR
  QueuePreemption = TRUE
  MemoriaInicial = 0
  SticksNuevos = 0
INVARIANTS
  TypeOK
  UnSoloLugar
  UnaSolaRafaga
  ContextoFiel
  InterrupcionDeSuRafaga
  ManejadorEncuentraSuProceso
  SemaforosExactos
PROPERTY ImplementaCiclo
SYMMETRY Simetria
CHECK_DEADLOCK FALSE
