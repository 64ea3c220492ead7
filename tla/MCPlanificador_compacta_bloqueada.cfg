SPECIFICATION FairSpec
CONSTANTS
  Cpus = {c1, c2}
  MaxProcesos = 2
  MaxHilosIO = 1
  Scripts <- ScriptsBloqueada
  ScriptInicial = 0
  EsCMN = FALSE
  CantColas = 1
  AlgPorCola <- ColaFIFO
  QueuePreemption = FALSE
  MemoriaInicial = 3
  SticksNuevos = 0
PROPERTY CompactacionTermina
CHECK_DEADLOCK FALSE
