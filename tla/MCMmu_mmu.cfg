SPECIFICATION Spec
CONSTANTS
  Cpus = {1, 2}
  Pids = {1, 2}
  Ancho = 3
  Segmentos = {0}
  TamMaxSegmento = 3
  RegGrande = 2
  Tamanios <- DosSticks
  AlInicio = 1
  Valores = {0, 1}
  Accesos <- AccesosDeDos
INVARIANTS
  TypeOK
  CompletaSoloPermitidos
  FallaJusta
  LecturaFiel
  EscrituraFiel
PROPERTY EscribeEnLoSuyo
