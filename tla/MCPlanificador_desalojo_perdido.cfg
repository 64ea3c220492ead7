SPECIFICATION Spec
CONSTANTS
  Cpus = {c1}
  MaxProcesos = 3
  MaxHilosIO = 1
  Scripts <- ScriptsDosCpus
  ScriptInicial = 0
  EsCMN = TRUE
  CantColas = 2
  AlgPorCola <- ColasRRFIFO
  QueuePreemption = TRUE
  MemoriaInicial = 0
  SticksNuevos = 0
INVARIANT DesalojoPorPrioridad
CHECK_DEADLOCK FALSE
