SPECIFICATION FairSpec
CONSTANTS
  Pids = {1, 2, 3}
  Cpus = {1, 2}
  CantColas = 2
  MaxBloqueos = 3
  Mutexes = {1}
  Dispositivos = {1, 2}
  TiposIO = {"SLEEP"}
  TipoDe <- TodasSleep
  Configuraciones <- DosCpusUnMutex
INVARIANT
  DespiertaAlSiguiente
CHECK_DEADLOCK FALSE
