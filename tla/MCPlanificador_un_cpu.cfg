SPECIFICATION FairSpec
CONSTANTS
  Cpus = {c1}
  MaxProcesos = 2
  MaxHilosIO = 1
  Scripts <- ScriptsUnCpu
  ScriptInicial = 0
  EsCMN = TRUE
  CantColas = 2
  AlgPorCola <- ColasFIFORR
  QueuePreemption = TRUE
  MemoriaInicial = 3
  SticksNuevos = 1
PROPERTIES
  EsperaAtendida
  TodosTerminan
  CompactacionTermina
CHECK_DEADLOCK FALSE
