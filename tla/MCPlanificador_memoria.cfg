SPECIFICATION Spec
CONSTANTS
  Cpus = {c1, c2}
  MaxProcesos = 2
  MaxHilosIO = 1
  Scripts <- ScriptsMemoria
  ScriptInicial = 0
  EsCMN = TRUE
  CantColas = 2
  AlgPorCola <- ColasRRFIFO
  QueuePreemption = TRUE
  MemoriaInicial = 2
  SticksNuevos = 1
INVARIANTS
  CompactaSinCpus
  MotivoConocido
SYMMETRY Simetria
CHECK_DEADLOCK FALSE
