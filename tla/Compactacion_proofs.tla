------------------------ MODULE Compactacion_proofs ------------------------
(***************************************************************************)
(* No CPU executes while Kernel Memory compacts, for every number of CPUs  *)
(* and processes and all scripts.                                          *)
(*                                                                         *)
(* The scheduler only looks at en_rafaga, so the invariant has to say that *)
(* a CPU whose en_rafaga is false has nothing to execute and nothing on    *)
(* its way in either socket.  That holds because a CPU is dispatched to by *)
(* one thread at a time: by the corto plazo while it is free, by its own   *)
(* thread while it holds a process.                                        *)
(***************************************************************************)
EXTENDS Planificador_proofs

-----------------------------------------------------------------------------
(* The inductive invariant *)

\* compactacion_en_curso and mutex_socket are the compacting thread's, and once
\* it has counted no CPU in a burst none enters one.
InvZona(t) ==
  /\ pc[t] \in {"pausa", "interrumpe", "compacta", "reanuda"} => mutex_socket = t
  /\ pc[t] \in {"interrumpe", "compacta", "reanuda"} => compactacion_en_curso
  /\ pc[t] \in {"compacta", "reanuda"} => \A c \in Cpus : ~ cpu[c].en_rafaga

EsEnvio(m) == m.tipo = "ENVIAR_PID"

SinEnvio(c) == \A i \in 1 .. Len(red_cpu[c]) : ~ EsEnvio(red_cpu[c][i])

\* One burst at a time: the PID on its way to the CPU, the CPU executing and its
\* answer on its way back exclude each other.
InvRafaga(c) ==
  /\ cpu[c].en_rafaga => c \in ToSet(cpus_conectadas) /\ ~ cpu[c].libre
  /\ ~ cpu[c].en_rafaga => ~ nucleo[c].ejecutando /\ red_ks[c] = <<>> /\ SinEnvio(c)
  /\ nucleo[c].ejecutando => red_ks[c] = <<>> /\ SinEnvio(c)
  /\ red_ks[c] # <<>> => Len(red_ks[c]) = 1 /\ SinEnvio(c)
  /\ \A i, j \in 1 .. Len(red_cpu[c]) :
       EsEnvio(red_cpu[c][i]) /\ EsEnvio(red_cpu[c][j]) => i = j

\* The thread of a CPU has a process in its hands, out of any burst.
Parada(c) == ~ cpu[c].en_rafaga /\ ~ cpu[c].libre

Atendiendo == {"vuelve_ready", "sale", "finaliza_km", "bloquea_io", "bloquea_memoria",
               "anota_espera", "crea_proceso", "crea_segmento", "elimina_segmento",
               "libera_cpu", "contexto", "envia", "encola", "postea_ready",
               "busca_victima", "desaloja", "pausa", "interrumpe", "compacta", "reanuda"}

InvAtencion(c) ==
  LET t == HiloCpu(c) IN
  /\ pc[t] = "conecta" <=> c \notin ToSet(cpus_conectadas)
  /\ pc[t] \in Atendiendo /\ ~ EnEvento(t) => Parada(c)
  /\ loc[t].tras = "libera_cpu" => Parada(c) /\ (pc[t] = "evento" \/ EnEvento(t))

InvDestino ==
  pc[HiloCP] \in {"contexto", "envia"} =>
    /\ loc[HiloCP].cpu \in ToSet(cpus_conectadas)
    /\ cpu[loc[HiloCP].cpu].libre

\* The inductive invariant of CompactacionSegura: one burst at a time on each CPU,
\* one thread that may begin it, and no burst at all once the compacting thread
\* has counted none.
InvCompactacion ==
  /\ \A t \in Hilos : InvZona(t)
  /\ \A c \in Cpus : InvRafaga(c) /\ InvAtencion(c)
  /\ InvDestino

-----------------------------------------------------------------------------
(* What one step may touch *)

\* A step of thread u
Paso(u) ==
  \/ EncolarEnReady(u)
  \/ u = HiloLP /\ AdmitirNew
  \/ u = HiloCP /\ CortoPlazo
  \/ u \in {HiloCP} \cup HilosCpu /\ Despachar(u)
  \/ \E c \in Cpus : u = HiloCpu(c) /\ AtenderCpu(c)
  \/ u \in HilosIO /\ TerminarIO(u)
  \/ /\ u \in HilosIO /\ pc[u] = "inactivo" /\ pc'[u] = "io" /\ UNCHANGED loc
     /\ \E c \in Cpus : ExecABlock(c)
  \/ u \in HilosMemoria /\ (CrearSegmento(u) \/ Compactacion(u) \/ EventoMemoria(u))
  \/ u = HiloNT /\ NuevoStick

\* A thread that moves takes a step of its own, except that of an IO, which is
\* started by the thread of a CPU.
LEMMA QuienMueve ==
  ASSUME InvTipos, [Next]_vars, NEW u \in Hilos, ~ (pc'[u] = pc[u] /\ loc'[u] = loc[u])
  PROVE  Paso(u)
<1>p. pc \in [Hilos -> Lugares] /\ loc \in [Hilos -> Locales]
  BY DEF InvTipos, TypeOK, TypeHilos
<1>1. ASSUME NEW t \in Hilos, EncolarEnReady(t) PROVE Paso(u)
  <2>1. SoloMueve(t)
    BY <1>p, <1>1 DEF EncolarEnReady, Encolar, PostearReady, BuscarVictima, Desalojar, Ir,
       SoloMueve
  <2>. QED  BY <1>1, <2>1 DEF SoloMueve, Paso
<1>2. CASE AdmitirNew
  <2>1. SoloMueve(HiloLP)
    BY <1>p, <1>2 DEF AdmitirNew, Ir, SoloMueve
  <2>. QED  BY <1>2, <2>1 DEF SoloMueve, Paso
<1>3. CASE CortoPlazo
  <2>1. SoloMueve(HiloCP)
    BY <1>p, <1>3 DEF CortoPlazo, EsperarReady, EsperarCpu, Desencolar, PasarAExec,
       Ir, SoloMueve
  <2>. QED  BY <1>3, <2>1 DEF SoloMueve, Paso
<1>4. ASSUME NEW t \in {HiloCP} \cup HilosCpu, Despachar(t) PROVE Paso(u)
  <2>1. SoloMueve(t)
    BY <1>p, <1>4 DEF Despachar, ActualizarContexto, Enviar, Ir, SoloMueve
  <2>. QED  BY <1>4, <2>1 DEF SoloMueve, Paso
<1>5. CASE \E x \in timers : VencerQuantum(x)
  BY <1>5 DEF VencerQuantum
<1>6. ASSUME NEW c \in Cpus, AtenderCpu(c) PROVE Paso(u)
  <2>1. CASE ExecABlock(c)
    <3>1. loc[HiloCpu(c)].pid \in Pids
      BY <1>p, HilosDistintos DEF Locales
    <3>2. CASE u = HiloCpu(c)
      BY <1>6, <3>2 DEF Paso
    <3>3. CASE u # HiloCpu(c)
      <4>1. pc'[u] = pc[u] \/ \E k \in 1 .. MaxHilosIO : /\ u = HiloIO(loc[HiloCpu(c)].pid, k)
                                                        /\ pc[u] = "inactivo" /\ pc'[u] = "io"
        BY <1>p, <2>1, <3>3 DEF ExecABlock, Ir
      <4>2. UNCHANGED loc
        BY <2>1 DEF ExecABlock
      <4>. QED  BY <2>1, <3>1, <4>1, <4>2, HilosDistintos DEF Paso
    <3>. QED  BY <3>2, <3>3
  <2>2. CASE ~ ExecABlock(c)
    <3>1. SoloMueve(HiloCpu(c))
      BY <1>p, <1>6, <2>2 DEF AtenderCpu, RegistrarCpu, PostearCpu, Recibir, LiberarCpu,
         ExecAReady, ExecAExit, FinalizarProcesoKM, AnotarEspera, CrearProceso,
         EliminarSegmento, Ir, SoloMueve
    <3>. QED  BY <1>6, <3>1, SMTT(40) DEF SoloMueve, Paso
  <2>. QED  BY <2>1, <2>2
<1>7. ASSUME NEW t \in HilosIO, TerminarIO(t) PROVE Paso(u)
  <2>1. SoloMueve(t)
    BY <1>p, <1>7 DEF TerminarIO, Ir, SoloMueve
  <2>. QED  BY <1>7, <2>1 DEF SoloMueve, Paso
<1>8. ASSUME NEW t \in HilosMemoria, CrearSegmento(t) \/ Compactacion(t) PROVE Paso(u)
  <2>1. SoloMueve(t)
    <3>1. CASE CrearSegmento(t)
      BY <1>p, <3>1 DEF CrearSegmento, CrearOK, CrearError, CrearCompacta, Ir, SoloMueve
    <3>2. CASE Compactacion(t)
      BY <1>p, <3>2 DEF Compactacion, PausarPlanificacion, InterrumpirParaCompactar,
         Compactar, ReanudarPlanificacion, Ir, SoloMueve
    <3>. QED  BY <1>8, <3>1, <3>2
  <2>. QED  BY <1>8, <2>1 DEF SoloMueve, Paso
<1>9. ASSUME NEW t \in HilosMemoria, EventoMemoria(t) PROVE Paso(u)
  <2>1. SoloMueve(t)
    BY <1>p, <1>9 DEF EventoMemoria, TomarEvento, Satisfacer, SoltarEvento, Ir, SoloMueve
  <2>. QED  BY <1>9, <2>1 DEF SoloMueve, Paso
<1>10. CASE NuevoStick
  <2>1. SoloMueve(HiloNT)
    BY <1>p, <1>10 DEF NuevoStick, Ir, SoloMueve
  <2>. QED  BY <1>10, <2>1 DEF SoloMueve, Paso
<1>11. ASSUME NEW c \in Cpus, ProgramaCpu(c) PROVE Paso(u)
  BY <1>11 DEF ProgramaCpu, CpuRecibe, FallarFetch, EjecutarComun, EjecutarSyscall
<1>12. CASE UNCHANGED vars
  BY <1>12 DEF vars
<1>. QED  BY <1>1, <1>2, <1>3, <1>4, <1>5, <1>6, <1>7, <1>8, <1>9, <1>10, <1>11, <1>12 DEF Next

\* CPU c keeps its burst: at most it is given a reason and sent an INTERRUPCION
\* for that burst.
MismoCpu(c) ==
  /\ cpu'[c].libre = cpu[c].libre /\ cpu'[c].en_rafaga = cpu[c].en_rafaga
  /\ cpu'[c].pid = cpu[c].pid /\ cpu'[c].rafaga = cpu[c].rafaga
  /\ red_ks'[c] = red_ks[c] /\ nucleo'[c] = nucleo[c]
  /\ \/ red_cpu'[c] = red_cpu[c] /\ cpu'[c].motivo = cpu[c].motivo
     \/ /\ red_cpu'[c] = Append(red_cpu[c], MsjInterrupcion(cpu[c].rafaga))
        /\ cpu[c].en_rafaga /\ cpu'[c].motivo # "NINGUNA"

CpusQuietas == UNCHANGED cpus_conectadas /\ \A c \in Cpus : MismoCpu(c)

LEMMA InterrumpirQuieto ==
  ASSUME TypeCpus, NEW C, NEW m, NEW s, Interrumpir(C, m, s), m # "NINGUNA",
         \A c \in C : cpu[c].en_rafaga /\ s[c] = cpu[c].rafaga,
         UNCHANGED <<cpus_conectadas, red_ks, nucleo>>
  PROVE  CpusQuietas
<1>1. ASSUME NEW c \in Cpus PROVE MismoCpu(c)
  <2>1. CASE c \in C
    BY <2>1 DEF Interrumpir, TypeCpus, MismoCpu
  <2>2. CASE c \notin C
    BY <2>2 DEF Interrumpir, TypeCpus, MismoCpu
  <2>. QED  BY <2>1, <2>2
<1>. QED  BY <1>1 DEF CpusQuietas

LEMMA CompactarQuieto ==
  ASSUME TypeCpus, NEW t, InterrumpirParaCompactar(t)
  PROVE  CpusQuietas
<1>. DEFINE C == {c \in PorDevolver : cpu[c].motivo # "COMPACTACION"}
<1>1. C \subseteq Cpus
  BY DEF PorDevolver, EnRafaga, ToSet, TypeCpus
<1>2. \A c \in C : cpu[c].en_rafaga /\ RafagasActuales[c] = cpu[c].rafaga
  BY <1>1 DEF PorDevolver, EnRafaga, RafagasActuales
<1>3. Interrumpir(C, "COMPACTACION", RafagasActuales)
  BY DEF InterrumpirParaCompactar
<1>. HIDE DEF C
<1>. QED  BY <1>2, <1>3, InterrumpirQuieto DEF InterrumpirParaCompactar

LEMMA DesalojarQuieto ==
  ASSUME TypeCpus, NEW t, Desalojar(t)
  PROVE  CpusQuietas
<1>. DEFINE C == {c \in ToSet(cpus_conectadas) : Interrumpible(c, loc[t].victima)}
<1>1. C \subseteq Cpus
  BY DEF ToSet, TypeCpus
<1>2. \A c \in C : cpu[c].en_rafaga /\ RafagasActuales[c] = cpu[c].rafaga
  BY <1>1 DEF Interrumpible, RafagasActuales
<1>3. Interrumpir(C, "PREEMPCION", RafagasActuales)
  BY DEF Desalojar
<1>. HIDE DEF C
<1>. QED  BY <1>2, <1>3, InterrumpirQuieto DEF Desalojar

LEMMA SinCambioQuieto ==
  ASSUME UNCHANGED <<cpus_conectadas, cpu, red_cpu, red_ks, nucleo>>
  PROVE  CpusQuietas
BY DEF CpusQuietas, MismoCpu

\* The steps that begin or end a burst, or connect or free a CPU
LEMMA PasosDeCpu ==
  ASSUME InvTipos, [Next]_vars
  PROVE  \/ CpusQuietas
         \/ \E t \in {HiloCP} \cup HilosCpu : Enviar(t)
         \/ \E c \in Cpus : RegistrarCpu(c) \/ Recibir(c) \/ LiberarCpu(c) \/ ProgramaCpu(c)
<1>. USE SinCambioQuieto, InterrumpirQuieto DEF InvTipos, TypeOK
<1>1. ASSUME NEW t \in Hilos, EncolarEnReady(t) PROVE CpusQuietas
  <2>1. CASE Desalojar(t)
    BY <2>1, DesalojarQuieto
  <2>2. CASE ~ Desalojar(t)
    BY <1>1, <2>2 DEF EncolarEnReady, Encolar, PostearReady, BuscarVictima, cpusKS, redes
  <2>. QED  BY <2>1, <2>2
<1>2. CASE AdmitirNew
  BY <1>2 DEF AdmitirNew, cpusKS, redes
<1>3. CASE CortoPlazo
  BY <1>3 DEF CortoPlazo, EsperarReady, EsperarCpu, Desencolar, PasarAExec,
     cpusKS, redes
<1>4. ASSUME NEW t \in {HiloCP} \cup HilosCpu, ActualizarContexto(t) PROVE CpusQuietas
  BY <1>4 DEF ActualizarContexto, cpusKS, redes
<1>5. ASSUME NEW x \in timers, VencerQuantum(x) PROVE CpusQuietas
  <2>. DEFINE C == {c \in {x.cpu} : MismaRafaga(x)}
              r == [c \in Cpus |-> x.rafaga]
  <2>1. x.cpu \in Cpus
    BY DEF TypeCpus
  <2>2. \A c \in C : cpu[c].en_rafaga /\ r[c] = cpu[c].rafaga
    BY <2>1 DEF MismaRafaga, Interrumpible
  <2>3. Interrumpir(C, "QUANTUM", r)
    BY <1>5, SMTT(40) DEF VencerQuantum
  <2>. HIDE DEF C, r
  <2>. QED  BY <1>5, <2>2, <2>3 DEF VencerQuantum
<1>6. ASSUME NEW c \in Cpus, AtenderCpu(c), ~ RegistrarCpu(c), ~ Recibir(c), ~ LiberarCpu(c)
      PROVE CpusQuietas
  BY <1>6 DEF AtenderCpu, PostearCpu, ExecAReady, ExecAExit, FinalizarProcesoKM, ExecABlock,
     AnotarEspera, CrearProceso, EliminarSegmento, cpusKS, redes
<1>7. ASSUME NEW t \in HilosIO, TerminarIO(t) PROVE CpusQuietas
  BY <1>7 DEF TerminarIO, cpusKS, redes
<1>8. ASSUME NEW t \in HilosMemoria, CrearSegmento(t) \/ Compactacion(t) PROVE CpusQuietas
  <2>1. CASE InterrumpirParaCompactar(t)
    BY <2>1, CompactarQuieto
  <2>2. CASE ~ InterrumpirParaCompactar(t)
    BY <1>8, <2>2 DEF CrearSegmento, CrearOK, CrearError, CrearCompacta, Compactacion,
       PausarPlanificacion, Compactar, ReanudarPlanificacion, cpusKS, redes
  <2>. QED  BY <2>1, <2>2
<1>9. ASSUME NEW t \in HilosMemoria, EventoMemoria(t) PROVE CpusQuietas
  BY <1>9 DEF EventoMemoria, TomarEvento, Satisfacer, SoltarEvento, cpusKS, redes
<1>10. CASE NuevoStick
  BY <1>10 DEF NuevoStick, cpusKS, redes
<1>12. CASE UNCHANGED vars
  BY <1>12 DEF vars, cpusKS, redes
<1>. QED  BY <1>1, <1>2, <1>3, <1>4, <1>5, <1>6, <1>7, <1>8, <1>9, <1>10, <1>12
          DEF Next, Despachar

-----------------------------------------------------------------------------
(* The invariant is preserved: the burst of a CPU *)

\* An INTERRUPCION at the end of a socket adds no PID to it.
LEMMA TrasInterrupcion ==
  ASSUME NEW s \in Seq(MensajesCpu), NEW r
  PROVE  LET z == Append(s, MsjInterrupcion(r)) IN
         \A i \in 1 .. Len(z) : EsEnvio(z[i]) => i \in 1 .. Len(s) /\ z[i] = s[i]
<1>1. ~ EsEnvio(MsjInterrupcion(r))
  BY DEF EsEnvio, MsjInterrupcion
<1>2. /\ Len(Append(s, MsjInterrupcion(r))) = Len(s) + 1
      /\ \A i \in 1 .. Len(s) : Append(s, MsjInterrupcion(r))[i] = s[i]
      /\ Append(s, MsjInterrupcion(r))[Len(s) + 1] = MsjInterrupcion(r)
  OBVIOUS
<1>. QED  BY <1>1, <1>2

\* Where a thread dispatches, it is the only one that may: the CPU is connected,
\* idle and out of any burst.
LEMMA DestinoLibre ==
  ASSUME InvTipos, InvCompactacion, NEW t \in {HiloCP} \cup HilosCpu,
         pc[t] \in {"contexto", "envia"}
  PROVE  /\ CpuDe(t) \in Cpus /\ CpuDe(t) \in ToSet(cpus_conectadas)
         /\ ~ cpu[CpuDe(t)].en_rafaga
         /\ t # HiloCP => ~ cpu[CpuDe(t)].libre
         /\ t = HiloCP => cpu[CpuDe(t)].libre
<1>1. CASE t = HiloCP
  <2>1. loc[t].cpu \in Cpus
    BY <1>1 DEF InvTipos, InvDespacho
  <2>. QED  BY <1>1, <2>1 DEF CpuDe, InvCompactacion, InvDestino, InvRafaga
<1>2. CASE t # HiloCP
  <2>1. PICK c \in Cpus : t = HiloCpu(c)
    BY <1>2 DEF HilosCpu
  <2>2. CpuDe(t) = c /\ t \in Hilos
    BY <1>2, <2>1, HilosDistintos DEF CpuDe
  <2>3. ~ EnEvento(t)
    BY <2>2 DEF InvTipos, InvEvento, ConEvento
  <2>4. pc[t] \in Atendiendo /\ pc[t] # "conecta"
    BY DEF Atendiendo
  <2>5. InvAtencion(c)
    BY DEF InvCompactacion
  <2>. QED  BY <1>2, <2>1, <2>2, <2>3, <2>4, <2>5 DEF InvAtencion, Parada
<1>. QED  BY <1>1, <1>2

LEMMA PasoRafaga ==
  ASSUME InvTipos, InvCompactacion, [Next]_vars, NEW c \in Cpus
  PROVE  InvRafaga(c)'
<1>i. InvRafaga(c) /\ InvAtencion(c)
  BY DEF InvCompactacion
<1>t. /\ cpus_conectadas \in Seq(Cpus) /\ DOMAIN cpu = Cpus /\ cpu[c].libre \in BOOLEAN
      /\ red_cpu \in [Cpus -> Seq(MensajesCpu)] /\ red_ks \in [Cpus -> Seq(MensajesKS)]
      /\ DOMAIN nucleo = Cpus
  BY DEF InvTipos, TypeOK, TypeCpus
<1>1. CASE CpusQuietas
  <2>1. MismoCpu(c) /\ UNCHANGED cpus_conectadas
    BY <1>1 DEF CpusQuietas
  <2>2. \A i \in 1 .. Len(red_cpu'[c]) : EsEnvio(red_cpu'[c][i]) =>
           i \in 1 .. Len(red_cpu[c]) /\ EsEnvio(red_cpu[c][i])
    <3>1. CASE red_cpu'[c] = red_cpu[c]
      BY <3>1
    <3>2. ASSUME NEW r, red_cpu'[c] = Append(red_cpu[c], MsjInterrupcion(r))
          PROVE  \A i \in 1 .. Len(red_cpu'[c]) : EsEnvio(red_cpu'[c][i]) =>
                    i \in 1 .. Len(red_cpu[c]) /\ EsEnvio(red_cpu[c][i])
      BY <1>t, <3>2, TrasInterrupcion
    <3>. QED  BY <2>1, <3>1, <3>2 DEF MismoCpu
  <2>. QED  BY <1>i, <2>1, <2>2 DEF InvRafaga, SinEnvio, MismoCpu
<1>2. ASSUME NEW t \in {HiloCP} \cup HilosCpu, Enviar(t) PROVE InvRafaga(c)'
  <2>1. CASE CpuDe(t) # c
    <3>1. /\ cpu'[c] = cpu[c] /\ red_cpu'[c] = red_cpu[c]
          /\ UNCHANGED <<cpus_conectadas, red_ks, nucleo>>
      BY <1>2, <1>t, <2>1 DEF Enviar
    <3>. QED  BY <1>i, <3>1 DEF InvRafaga, SinEnvio
  <2>2. CASE CpuDe(t) = c
    <3>. DEFINE m == MsjEnviarPid(loc[t].pid, cpu[c].rafaga + 1)
    <3>1. /\ cpu'[c].en_rafaga /\ ~ cpu'[c].libre /\ red_cpu'[c] = Append(red_cpu[c], m)
          /\ UNCHANGED <<cpus_conectadas, red_ks, nucleo>>
      BY <1>2, <1>t, <2>2 DEF Enviar
    <3>2. c \in ToSet(cpus_conectadas) /\ ~ cpu[c].en_rafaga
      BY <1>2, <2>2, DestinoLibre DEF Enviar
    <3>3. red_ks[c] = <<>> /\ ~ nucleo[c].ejecutando /\ SinEnvio(c)
      BY <1>i, <3>2 DEF InvRafaga
    <3>. HIDE DEF m
    <3>4. \A i \in 1 .. Len(red_cpu'[c]) : EsEnvio(red_cpu'[c][i]) => i = Len(red_cpu[c]) + 1
      BY <1>t, <3>1, <3>3 DEF SinEnvio
    <3>. QED  BY <3>1, <3>2, <3>3, <3>4 DEF InvRafaga
  <2>. QED  BY <2>1, <2>2
<1>3. ASSUME NEW d \in Cpus, RegistrarCpu(d) PROVE InvRafaga(c)'
  <2>1. /\ UNCHANGED redes /\ ToSet(cpus_conectadas)' = ToSet(cpus_conectadas) \cup {d}
        /\ cpu' = [cpu EXCEPT ![d] = CpuInicial]
    BY <1>3, <1>t, ToSetAppend DEF RegistrarCpu
  <2>2. CASE d # c
    BY <1>i, <1>t, <2>1, <2>2 DEF InvRafaga, SinEnvio, redes
  <2>3. CASE d = c
    <3>1. ~ cpu[c].en_rafaga
      BY <1>3, <1>i, <2>3 DEF RegistrarCpu, InvAtencion, InvRafaga
    <3>2. ~ cpu'[c].en_rafaga
      BY <1>t, <2>1, <2>3 DEF CpuInicial
    <3>. QED  BY <1>i, <2>1, <3>1, <3>2 DEF InvRafaga, SinEnvio, redes
  <2>. QED  BY <2>2, <2>3
<1>4. ASSUME NEW d \in Cpus, Recibir(d) PROVE InvRafaga(c)'
  <2>1. CASE d # c
    <3>1. /\ cpu'[c] = cpu[c] /\ red_ks'[c] = red_ks[c]
          /\ UNCHANGED <<cpus_conectadas, red_cpu, nucleo>>
      BY <1>4, <1>t, <2>1 DEF Recibir
    <3>. QED  BY <1>i, <3>1 DEF InvRafaga, SinEnvio
  <2>2. CASE d = c
    <3>1. /\ red_ks[c] # <<>> /\ red_ks'[c] = Tail(red_ks[c])
          /\ cpu'[c] = FinDeRafaga(cpu[c])
          /\ UNCHANGED <<cpus_conectadas, red_cpu, nucleo>>
      BY <1>4, <1>t, <2>2 DEF Recibir
    <3>2. Len(red_ks[c]) = 1 /\ SinEnvio(c) /\ ~ nucleo[c].ejecutando
      BY <1>i, <3>1 DEF InvRafaga
    <3>3. red_ks'[c] = <<>>
      <4>1. Tail(red_ks[c]) \in Seq(MensajesKS) /\ Len(Tail(red_ks[c])) = 0
        BY <1>t, <3>1, <3>2, HeadTailProperties
      <4>. QED  BY <3>1, <4>1, EmptySeq
    <3>4. ~ cpu'[c].en_rafaga
      BY <3>1 DEF FinDeRafaga
    <3>. QED  BY <1>i, <3>1, <3>2, <3>3, <3>4 DEF InvRafaga, SinEnvio
  <2>. QED  BY <2>1, <2>2
<1>5. ASSUME NEW d \in Cpus, LiberarCpu(d) PROVE InvRafaga(c)'
  <2>1. CASE d # c
    BY <1>5, <1>i, <1>t, <2>1 DEF LiberarCpu, InvRafaga, SinEnvio, redes
  <2>2. CASE d = c
    <3>1. HiloCpu(c) \in Hilos /\ pc[HiloCpu(c)] = "libera_cpu"
      BY <1>5, <2>2, HilosDistintos DEF LiberarCpu
    <3>2. ~ EnEvento(HiloCpu(c))
      BY <3>1 DEF InvTipos, InvEvento, ConEvento
    <3>3. ~ cpu[c].en_rafaga
      BY <1>i, <3>1, <3>2 DEF InvAtencion, Atendiendo, Parada
    <3>4. ~ cpu'[c].en_rafaga /\ UNCHANGED <<cpus_conectadas, redes>>
      BY <1>5, <1>t, <2>2 DEF LiberarCpu
    <3>. QED  BY <1>i, <3>3, <3>4 DEF InvRafaga, SinEnvio, redes
  <2>. QED  BY <2>1, <2>2
<1>6. ASSUME NEW d \in Cpus, ProgramaCpu(d) PROVE InvRafaga(c)'
  <2>1. UNCHANGED cpusKS
    BY <1>6 DEF ProgramaCpu, CpuRecibe, FallarFetch, EjecutarComun, EjecutarSyscall
  <2>2. CASE d # c
    <3>1. /\ red_cpu'[c] = red_cpu[c] /\ red_ks'[c] = red_ks[c] /\ nucleo'[c] = nucleo[c]
      <4>1. CASE CpuRecibe(d)
        BY <1>t, <2>2, <4>1 DEF CpuRecibe
      <4>2. CASE FallarFetch(d)
        BY <1>t, <2>2, <4>2 DEF FallarFetch
      <4>3. CASE EjecutarComun(d)
        BY <1>t, <2>2, <4>3 DEF EjecutarComun, Devolver
      <4>4. CASE EjecutarSyscall(d)
        BY <1>t, <2>2, <4>4 DEF EjecutarSyscall, Devolver
      <4>. QED  BY <1>6, <4>1, <4>2, <4>3, <4>4 DEF ProgramaCpu
    <3>. QED  BY <1>i, <2>1, <3>1 DEF InvRafaga, SinEnvio, cpusKS
  <2>3. CASE d = c /\ CpuRecibe(c)
    <3>. DEFINE s == red_cpu[c]
    <3>1. /\ ~ nucleo[c].ejecutando /\ s # <<>> /\ red_cpu'[c] = Tail(s)
          /\ UNCHANGED red_ks
          /\ Head(s).tipo = "INTERRUPCION" => UNCHANGED nucleo
      BY <1>t, <2>3 DEF CpuRecibe
    <3>2. Head(s) \in MensajesCpu
      BY <1>t, <3>1, HeadTailProperties
    <3>3. /\ Len(Tail(s)) = Len(s) - 1 /\ Head(s) = s[1] /\ 1 \in 1 .. Len(s)
          /\ \A i \in 1 .. Len(Tail(s)) : Tail(s)[i] = s[i + 1] /\ i + 1 \in 1 .. Len(s)
      BY <1>t, <3>1, HeadTailProperties
    <3>4. CASE Head(s).tipo = "INTERRUPCION"
      BY <1>i, <2>1, <3>1, <3>3, <3>4 DEF InvRafaga, SinEnvio, cpusKS
    <3>5. CASE Head(s).tipo # "INTERRUPCION"
      <4>1. EsEnvio(s[1])
        BY <3>2, <3>3, <3>5 DEF EsEnvio, MensajesCpu
      <4>2. ~ SinEnvio(c)
        BY <3>3, <4>1 DEF SinEnvio
      <4>3. cpu[c].en_rafaga /\ red_ks[c] = <<>>
        BY <1>i, <4>2 DEF InvRafaga
      <4>4. \A i \in 1 .. Len(Tail(s)) : ~ EsEnvio(Tail(s)[i])
        <5>1. TAKE i \in 1 .. Len(Tail(s))
        <5>2. Tail(s)[i] = s[i + 1] /\ i + 1 \in 1 .. Len(s) /\ i + 1 # 1
          BY <3>3
        <5>. QED  BY <1>i, <3>3, <4>1, <5>2 DEF InvRafaga
      <4>. QED  BY <1>i, <2>1, <3>1, <4>3, <4>4 DEF InvRafaga, SinEnvio, cpusKS
    <3>. QED  BY <3>4, <3>5
  <2>4. CASE d = c /\ FallarFetch(c)
    <3>1. nucleo[c].ejecutando /\ ~ nucleo'[c].ejecutando /\ UNCHANGED <<red_cpu, red_ks>>
      BY <1>t, <2>4 DEF FallarFetch, NucleoLibre
    <3>. QED  BY <1>i, <2>1, <3>1 DEF InvRafaga, SinEnvio, cpusKS
  <2>5. ASSUME NEW m, Devolver(c, m), nucleo[c].ejecutando, SinEnvio(c) => SinEnvio(c)'
        PROVE  InvRafaga(c)'
    <3>1. cpu[c].en_rafaga /\ red_ks[c] = <<>> /\ SinEnvio(c)
      BY <1>i, <2>5 DEF InvRafaga
    <3>2. red_ks'[c] = Append(<<>>, m) /\ ~ nucleo'[c].ejecutando
      BY <1>t, <2>5, <3>1 DEF Devolver, NucleoLibre
    <3>3. Len(red_ks'[c]) = 1
      BY <3>2
    <3>4. SinEnvio(c)'
      BY <2>5, <3>1
    <3>. QED  BY <1>i, <2>1, <3>1, <3>2, <3>3, <3>4 DEF InvRafaga, SinEnvio, cpusKS
  <2>6. CASE d = c /\ EjecutarComun(c)
    <3>1. CASE red_cpu[c] # <<>> /\ Head(red_cpu[c]).tipo = "INTERRUPCION"
      <4>1. /\ Devolver(c, MsjDesalojado(PCSiguiente(c))) /\ nucleo[c].ejecutando
            /\ red_cpu'[c] = Tail(red_cpu[c])
        BY <1>t, <2>6, <3>1 DEF EjecutarComun, HayInstruccion
      <4>2. ASSUME SinEnvio(c) PROVE SinEnvio(c)'
        <5>1. /\ Len(Tail(red_cpu[c])) = Len(red_cpu[c]) - 1
              /\ \A i \in 1 .. Len(Tail(red_cpu[c])) : Tail(red_cpu[c])[i] = red_cpu[c][i + 1]
          BY <1>t, <3>1, HeadTailProperties
        <5>2. Len(red_cpu[c]) \in Nat
          BY <1>t, LenProperties
        <5>. QED  BY <4>1, <4>2, <5>1, <5>2 DEF SinEnvio
      <4>. QED  BY <2>5, <4>1, <4>2
    <3>2. CASE ~ (red_cpu[c] # <<>> /\ Head(red_cpu[c]).tipo = "INTERRUPCION")
      <4>1. /\ nucleo' = [nucleo EXCEPT ![c].pc = PCSiguiente(c)] /\ nucleo[c].ejecutando
            /\ UNCHANGED <<red_cpu, red_ks>>
        BY <2>6, <3>2 DEF EjecutarComun, HayInstruccion
      <4>2. nucleo'[c].ejecutando
        BY <1>t, <4>1 DEF InvTipos, TypeOK, TypeCpus
      <4>. QED  BY <1>i, <2>1, <4>1, <4>2 DEF InvRafaga, SinEnvio, cpusKS
    <3>. QED  BY <3>1, <3>2
  <2>7. CASE d = c /\ EjecutarSyscall(c)
    <3>. DEFINE m == MsjSyscall(InstActual(c), PCSiguiente(c))
    <3>1. Devolver(c, m) /\ nucleo[c].ejecutando /\ UNCHANGED red_cpu
      BY <2>7 DEF EjecutarSyscall, HayInstruccion
    <3>2. SinEnvio(c) => SinEnvio(c)'
      BY <3>1 DEF SinEnvio
    <3>. HIDE DEF m
    <3>. QED  BY <2>5, <3>1, <3>2
  <2>. QED  BY <1>6, <2>2, <2>3, <2>4, <2>6, <2>7 DEF ProgramaCpu
<1>. QED  BY <1>1, <1>2, <1>3, <1>4, <1>5, <1>6, PasosDeCpu

-----------------------------------------------------------------------------
(* The invariant is preserved: the compacting thread *)

Zona == {"pausa", "interrumpe", "compacta", "reanuda"}

\* A thread gets into the compaction, and through it, by its own steps only.
LEMMA EntraEnZona ==
  ASSUME InvTipos, [Next]_vars, NEW u \in Hilos, pc'[u] \in Zona, pc'[u] # pc[u]
  PROVE  CrearCompacta(u) \/ PausarPlanificacion(u) \/ InterrumpirParaCompactar(u)
         \/ Compactar(u)
<1>p. pc \in [Hilos -> Lugares] /\ loc \in [Hilos -> Locales]
  BY DEF InvTipos, TypeOK, TypeHilos
<1>0. Paso(u)
  BY QuienMueve
<1>e. TrasEncolar(u) \notin Zona
  <2>1. TrasEncolar(u) \in {"reintenta", "espera_new", "espera_ready", "inactivo", "libera_cpu"}
    BY DEF TrasEncolar
  <2>. QED  BY <2>1 DEF Zona
<1>1. CASE EncolarEnReady(u)
  <2>1. CASE Encolar(u)
    BY <1>p, <2>1 DEF Encolar, Ir, Zona
  <2>2. CASE PostearReady(u)
    BY <1>p, <1>e, <2>2 DEF PostearReady, Ir, Zona
  <2>3. CASE BuscarVictima(u)
    BY <1>p, <1>e, <2>3 DEF BuscarVictima, Ir, Zona
  <2>4. CASE Desalojar(u)
    BY <1>p, <1>e, <2>4 DEF Desalojar, Ir
  <2>. QED  BY <1>1, <2>1, <2>2, <2>3, <2>4 DEF EncolarEnReady
<1>2. CASE u = HiloLP /\ AdmitirNew
  BY <1>p, <1>2 DEF AdmitirNew, Ir, Zona
<1>3. CASE u = HiloCP /\ CortoPlazo
  <2>1. CASE Desencolar
    BY <1>p, <1>3, <2>1 DEF Desencolar, Ir, Zona
  <2>2. CASE PasarAExec
    BY <1>p, <1>3, <2>2 DEF PasarAExec, Ir, Zona
  <2>3. CASE EsperarReady \/ EsperarCpu
    BY <1>p, <1>3, <2>3 DEF EsperarReady, EsperarCpu, Ir, Zona
  <2>. QED  BY <1>3, <2>1, <2>2, <2>3 DEF CortoPlazo
<1>4. CASE Despachar(u)
  BY <1>p, <1>4 DEF Despachar, ActualizarContexto, Enviar, TrasDespachar, Ir, Zona
<1>5. ASSUME NEW c \in Cpus, u = HiloCpu(c), AtenderCpu(c) PROVE FALSE
  <2>1. CASE Recibir(c)
    <3>1. pc'[u] = TrasRecibir(Head(red_ks[c]))
      BY <1>p, <1>5, <2>1 DEF Recibir, Ir
    <3>. QED  BY <3>1 DEF TrasRecibir, Zona
  <2>2. CASE ExecABlock(c)
    BY <1>p, <1>5, <2>2 DEF ExecABlock, Ir, Zona
  <2>3. CASE ~ Recibir(c) /\ ~ ExecABlock(c)
    BY <1>p, <1>5, <2>3 DEF AtenderCpu, RegistrarCpu, PostearCpu, LiberarCpu, ExecAReady,
       ExecAExit, FinalizarProcesoKM, AnotarEspera, CrearProceso, EliminarSegmento, Ir, Zona
  <2>. QED  BY <2>1, <2>2, <2>3
<1>6. ASSUME u \in HilosIO, TerminarIO(u) \/ pc'[u] = "io" PROVE FALSE
  BY <1>p, <1>6 DEF TerminarIO, Ir, Zona
<1>7. CASE CrearSegmento(u)
  <2>1. CASE CrearOK(u)
    BY <1>p, <2>1 DEF CrearOK, TrasCrear, Ir, Zona
  <2>2. CASE CrearError(u)
    BY <1>p, <2>2 DEF CrearError, Ir, Zona
  <2>. QED  BY <1>7, <2>1, <2>2 DEF CrearSegmento
<1>8. CASE Compactacion(u)
  <2>1. CASE ReanudarPlanificacion(u)
    BY <1>p, <2>1 DEF ReanudarPlanificacion, TrasCrear, Ir, Zona
  <2>. QED  BY <1>8, <2>1 DEF Compactacion
<1>9. CASE EventoMemoria(u)
  <2>1. CASE SoltarEvento(u)
    <3>1. loc[u].tras \in {"recv", "libera_cpu"}
      BY <1>p DEF Locales
    <3>. QED  BY <1>p, <2>1, <3>1 DEF SoltarEvento, Ir, Zona
  <2>2. CASE TomarEvento(u) \/ Satisfacer(u)
    BY <1>p, <2>2 DEF TomarEvento, Satisfacer, Ir, Zona
  <2>. QED  BY <1>9, <2>1, <2>2 DEF EventoMemoria
<1>10. CASE u = HiloNT /\ NuevoStick
  BY <1>p, <1>10 DEF NuevoStick, Ir, Zona
<1>. QED  BY <1>0, <1>1, <1>2, <1>3, <1>4, <1>5, <1>6, <1>7, <1>8, <1>9, <1>10 DEF Paso

\* The steps that change mutex_socket across steps, or compactacion_en_curso
LEMMA QuienSincroniza ==
  ASSUME [Next]_vars
  PROVE  \/ UNCHANGED <<mutex_socket, compactacion_en_curso>>
         \/ \E t \in HilosMemoria :
              CrearCompacta(t) \/ PausarPlanificacion(t) \/ ReanudarPlanificacion(t)
<1>. DEFINE Igual == UNCHANGED <<mutex_socket, compactacion_en_curso>>
<1>1. ASSUME NEW t \in Hilos, EncolarEnReady(t) PROVE Igual
  BY <1>1 DEF EncolarEnReady, Encolar, PostearReady, BuscarVictima, Desalojar, sinc
<1>2. CASE AdmitirNew
  BY <1>2 DEF AdmitirNew, sinc
<1>3. CASE CortoPlazo
  BY <1>3 DEF CortoPlazo, EsperarReady, EsperarCpu, Desencolar, PasarAExec, sinc
<1>4. ASSUME NEW t \in {HiloCP} \cup HilosCpu, Despachar(t) PROVE Igual
  BY <1>4 DEF Despachar, ActualizarContexto, Enviar, sinc
<1>5. ASSUME NEW x \in timers, VencerQuantum(x) PROVE Igual
  BY <1>5, SMTT(40) DEF VencerQuantum, sinc
<1>6. ASSUME NEW c \in Cpus, AtenderCpu(c) PROVE Igual
  BY <1>6 DEF AtenderCpu, RegistrarCpu, PostearCpu, Recibir, LiberarCpu, ExecAReady,
     ExecAExit, FinalizarProcesoKM, ExecABlock, AnotarEspera, CrearProceso,
     EliminarSegmento, sinc
<1>7. ASSUME NEW t \in HilosIO, TerminarIO(t) PROVE Igual
  BY <1>7 DEF TerminarIO, sinc
<1>8. ASSUME NEW t \in HilosMemoria, CrearOK(t) \/ CrearError(t) \/ Compactar(t)
                                     \/ InterrumpirParaCompactar(t) \/ EventoMemoria(t)
      PROVE  Igual
  BY <1>8 DEF CrearOK, CrearError, Compactar, InterrumpirParaCompactar, EventoMemoria,
     TomarEvento, Satisfacer, SoltarEvento, sinc
<1>9. CASE NuevoStick
  BY <1>9 DEF NuevoStick, sinc
<1>10. ASSUME NEW c \in Cpus, ProgramaCpu(c) PROVE Igual
  BY <1>10 DEF ProgramaCpu, CpuRecibe, FallarFetch, EjecutarComun, EjecutarSyscall, sinc
<1>11. CASE UNCHANGED vars
  BY <1>11 DEF vars, sinc
<1>. QED  BY <1>1, <1>2, <1>3, <1>4, <1>5, <1>6, <1>7, <1>8, <1>9, <1>10, <1>11
          DEF Next, CrearSegmento, Compactacion

\* Only a dispatch puts a CPU in a burst.
LEMMA SoloEnviarInicia ==
  ASSUME InvTipos, [Next]_vars, NEW c \in Cpus, cpu'[c].en_rafaga, ~ cpu[c].en_rafaga
  PROVE  \E t \in {HiloCP} \cup HilosCpu : Enviar(t)
<1>t. DOMAIN cpu = Cpus
  BY DEF InvTipos, TypeOK, TypeCpus
<1>1. ~ CpusQuietas
  BY DEF CpusQuietas, MismoCpu
<1>2. ASSUME NEW d \in Cpus, RegistrarCpu(d) \/ Recibir(d) \/ LiberarCpu(d) \/ ProgramaCpu(d)
      PROVE  FALSE
  <2>1. CASE RegistrarCpu(d)
    BY <1>t, <2>1 DEF RegistrarCpu, CpuInicial
  <2>2. CASE Recibir(d)
    BY <1>t, <2>2 DEF Recibir, FinDeRafaga
  <2>3. CASE LiberarCpu(d)
    BY <1>t, <2>3 DEF LiberarCpu
  <2>4. CASE ProgramaCpu(d)
    BY <2>4 DEF ProgramaCpu, CpuRecibe, FallarFetch, EjecutarComun, EjecutarSyscall, cpusKS
  <2>. QED  BY <1>2, <2>1, <2>2, <2>3, <2>4
<1>. QED  BY <1>1, <1>2, PasosDeCpu

LEMMA PasoZona ==
  ASSUME InvTipos, InvCompactacion, [Next]_vars, NEW u \in Hilos
  PROVE  InvZona(u)'
<1>p. pc \in [Hilos -> Lugares] /\ loc \in [Hilos -> Locales] /\ TypeCpus
  BY DEF InvTipos, TypeOK, TypeHilos
<1>i. \A t \in Hilos : InvZona(t)
  BY DEF InvCompactacion
<1>n. u # NADIE /\ HilosMemoria \subseteq Hilos
  BY HilosDistintos
<1>1. ASSUME pc'[u] \in Zona PROVE mutex_socket' = u
  <2>1. CASE pc[u] \in Zona
    <3>1. mutex_socket = u
      BY <1>i, <2>1 DEF InvZona, Zona
    <3>2. ASSUME NEW t \in HilosMemoria, ReanudarPlanificacion(t) PROVE FALSE
      <4>1. t = u
        BY <1>i, <1>n, <3>1, <3>2 DEF ReanudarPlanificacion, InvZona
      <4>2. pc'[u] \notin Zona
        BY <1>p, <3>2, <4>1 DEF ReanudarPlanificacion, TrasCrear, Ir, Zona
      <4>. QED  BY <1>1, <4>2
    <3>3. ASSUME NEW t \in HilosMemoria, CrearCompacta(t) PROVE FALSE
      BY <1>n, <3>1, <3>3 DEF CrearCompacta, PideSegmento
    <3>4. ASSUME NEW t \in HilosMemoria, PausarPlanificacion(t) PROVE mutex_socket' = u
      BY <3>1, <3>4 DEF PausarPlanificacion
    <3>. QED  BY <3>1, <3>2, <3>3, <3>4, QuienSincroniza
  <2>2. CASE pc[u] \notin Zona
    <3>1. CrearCompacta(u)
      BY <1>1, <2>2, EntraEnZona DEF PausarPlanificacion, InterrumpirParaCompactar,
         Compactar, Zona
    <3>. QED  BY <3>1 DEF CrearCompacta
  <2>. QED  BY <2>1, <2>2
<1>2. ASSUME pc'[u] \in {"interrumpe", "compacta", "reanuda"} PROVE compactacion_en_curso'
  <2>1. mutex_socket' = u
    BY <1>1, <1>2 DEF Zona
  <2>2. CASE pc[u] \in {"interrumpe", "compacta", "reanuda"}
    <3>1. compactacion_en_curso
      BY <1>i, <2>2 DEF InvZona
    <3>2. ASSUME NEW t \in HilosMemoria, ReanudarPlanificacion(t) PROVE FALSE
      BY <1>n, <2>1, <3>2 DEF ReanudarPlanificacion
    <3>. QED  BY <3>1, <3>2, QuienSincroniza DEF CrearCompacta, PausarPlanificacion
  <2>3. CASE pc[u] \notin {"interrumpe", "compacta", "reanuda"}
    <3>1. ~ CrearCompacta(u)
      <4>1. CASE CrearCompacta(u)
        <5>1. pc'[u] = "pausa"
          BY <1>p, <4>1 DEF CrearCompacta, Ir
        <5>. QED  BY <1>2, <5>1
      <4>. QED  BY <4>1
    <3>2. PausarPlanificacion(u)
      BY <1>2, <2>3, <3>1, EntraEnZona DEF InterrumpirParaCompactar, Compactar, Zona
    <3>. QED  BY <3>2 DEF PausarPlanificacion
  <2>. QED  BY <2>2, <2>3
<1>3. ASSUME pc'[u] \in {"compacta", "reanuda"}, NEW c \in Cpus PROVE ~ cpu'[c].en_rafaga
  <2>1. CASE pc[u] \in {"compacta", "reanuda"}
    <3>1. compactacion_en_curso /\ ~ cpu[c].en_rafaga
      BY <1>i, <2>1 DEF InvZona
    <3>2. ASSUME NEW t \in {HiloCP} \cup HilosCpu, Enviar(t) PROVE FALSE
      BY <3>1, <3>2 DEF Enviar, PuedeDespachar
    <3>. QED  BY <3>1, <3>2, SoloEnviarInicia
  <2>2. CASE pc[u] \notin {"compacta", "reanuda"}
    <3>1. ~ CrearCompacta(u) /\ ~ PausarPlanificacion(u)
      <4>1. CASE CrearCompacta(u)
        <5>1. pc'[u] = "pausa"
          BY <1>p, <4>1 DEF CrearCompacta, Ir
        <5>. QED  BY <1>3, <5>1
      <4>2. CASE PausarPlanificacion(u)
        <5>1. pc'[u] = "interrumpe"
          BY <1>p, <4>2 DEF PausarPlanificacion, Ir
        <5>. QED  BY <1>3, <5>1
      <4>. QED  BY <4>1, <4>2
    <3>2. InterrumpirParaCompactar(u)
      BY <1>3, <2>2, <3>1, EntraEnZona DEF Compactar, Zona
    <3>3. EnRafaga = {}
      <4>1. CASE PorDevolver # {}
        <5>1. pc'[u] = "interrumpe"
          BY <1>p, <3>2, <4>1 DEF InterrumpirParaCompactar, Ir
        <5>. QED  BY <1>3, <5>1
      <4>. QED  BY <4>1 DEF PorDevolver
    <3>4. ~ cpu[c].en_rafaga
      <4>1. InvRafaga(c)
        BY DEF InvCompactacion
      <4>. QED  BY <3>3, <4>1 DEF InvRafaga, EnRafaga
    <3>5. CpusQuietas
      BY <3>2, CompactarQuieto DEF InvTipos, TypeOK
    <3>. QED  BY <3>4, <3>5 DEF CpusQuietas, MismoCpu
  <2>. QED  BY <2>1, <2>2
<1>. QED  BY <1>1, <1>2, <1>3 DEF InvZona, Zona

-----------------------------------------------------------------------------
(* The invariant is preserved: the thread of a CPU *)

LEMMA HiloDeUnaCpu ==
  ASSUME NEW c \in Cpus, NEW d \in Cpus, HiloCpu(c) = HiloCpu(d)
  PROVE  c = d
BY HilosDistintos

\* A thread enters and leaves the memory event by its own steps.
LEMMA EventoPropio ==
  ASSUME InvTipos, [Next]_vars, NEW u \in Hilos, ~ TomarEvento(u), ~ SoltarEvento(u)
  PROVE  EnEvento(u)' <=> EnEvento(u)
<1>1. ASSUME NEW t \in HilosMemoria, TomarEvento(t) PROVE EnEvento(u)' <=> EnEvento(u)
  BY <1>1, HilosDistintos DEF TomarEvento, EnEvento
<1>2. ASSUME NEW t \in HilosMemoria, SoltarEvento(t) PROVE EnEvento(u)' <=> EnEvento(u)
  <2>1. EnEvento(t)
    BY <1>2, HilosDistintos DEF SoltarEvento, InvTipos, InvEvento
  <2>. QED  BY <1>2, <2>1, HilosDistintos DEF SoltarEvento, EnEvento
<1>3. CASE \A t \in HilosMemoria : ~ TomarEvento(t) /\ ~ SoltarEvento(t)
  <2>1. ASSUME NEW t \in Hilos, EncolarEnReady(t) PROVE UNCHANGED mutex_evento
    BY <2>1 DEF EncolarEnReady, Encolar, PostearReady, BuscarVictima, Desalojar, sinc
  <2>2. CASE AdmitirNew
    BY <2>2 DEF AdmitirNew, EnEvento, sinc
  <2>3. CASE CortoPlazo
    BY <2>3 DEF CortoPlazo, EsperarReady, EsperarCpu, Desencolar, PasarAExec,
       EnEvento, sinc
  <2>4. ASSUME NEW t \in {HiloCP} \cup HilosCpu, Despachar(t) PROVE UNCHANGED mutex_evento
    BY <2>4 DEF Despachar, ActualizarContexto, Enviar, sinc
  <2>5. ASSUME NEW x \in timers, VencerQuantum(x) PROVE UNCHANGED mutex_evento
    BY <2>5, SMTT(40) DEF VencerQuantum, sinc
  <2>6. ASSUME NEW c \in Cpus, AtenderCpu(c) PROVE UNCHANGED mutex_evento
    BY <2>6 DEF AtenderCpu, RegistrarCpu, PostearCpu, Recibir, LiberarCpu, ExecAReady,
       ExecAExit, FinalizarProcesoKM, ExecABlock, AnotarEspera, CrearProceso,
       EliminarSegmento, sinc
  <2>7. ASSUME NEW t \in HilosIO, TerminarIO(t) PROVE UNCHANGED mutex_evento
    BY <2>7 DEF TerminarIO, sinc
  <2>8. ASSUME NEW t \in HilosMemoria, CrearSegmento(t) \/ Compactacion(t) \/ Satisfacer(t)
        PROVE  UNCHANGED mutex_evento
    BY <2>8 DEF CrearSegmento, CrearOK, CrearError, CrearCompacta, Compactacion,
       PausarPlanificacion, InterrumpirParaCompactar, Compactar, ReanudarPlanificacion,
       Satisfacer, sinc
  <2>9. CASE NuevoStick
    BY <2>9 DEF NuevoStick, EnEvento, sinc
  <2>10. ASSUME NEW c \in Cpus, ProgramaCpu(c) PROVE UNCHANGED mutex_evento
    BY <2>10 DEF ProgramaCpu, CpuRecibe, FallarFetch, EjecutarComun, EjecutarSyscall, sinc
  <2>11. CASE UNCHANGED vars
    BY <2>11 DEF vars, EnEvento, sinc
  <2>. QED  BY <1>3, <2>1, <2>2, <2>3, <2>4, <2>5, <2>6, <2>7, <2>8, <2>9, <2>10, <2>11
            DEF Next, EventoMemoria, EnEvento
<1>. QED  BY <1>1, <1>2, <1>3

\* The thread of c does not move, and no other disturbs its CPU.
LEMMA AtencionAjena ==
  ASSUME InvTipos, InvCompactacion, [Next]_vars, NEW c \in Cpus,
         pc'[HiloCpu(c)] = pc[HiloCpu(c)], loc'[HiloCpu(c)] = loc[HiloCpu(c)]
  PROVE  InvAtencion(c)'
<1>. DEFINE t == HiloCpu(c)
<1>p. pc \in [Hilos -> Lugares] /\ loc \in [Hilos -> Locales] /\ t \in Hilos
      /\ cpus_conectadas \in Seq(Cpus) /\ DOMAIN cpu = Cpus
      /\ \A d \in Cpus : HiloCpu(d) \in Hilos
  BY HilosDistintos DEF InvTipos, TypeOK, TypeHilos, TypeCpus
<1>i. InvAtencion(c)
  BY DEF InvCompactacion
<1>1. EnEvento(t)' <=> EnEvento(t)
  <2>1. ~ TomarEvento(t)
    BY <1>p DEF TomarEvento, Ir
  <2>2. ~ SoltarEvento(t)
    <3>1. CASE SoltarEvento(t)
      <4>1. pc'[t] \in {"inactivo", "recv", "libera_cpu"} /\ pc[t] = "reintenta"
        BY <1>p, <3>1 DEF SoltarEvento, Ir, Locales
      <4>. QED  BY <4>1
    <3>. QED  BY <3>1
  <2>. QED  BY <1>p, <2>1, <2>2, EventoPropio
<1>2. /\ c \in ToSet(cpus_conectadas)' <=> c \in ToSet(cpus_conectadas)
      /\ Parada(c) => Parada(c)'
  <2>1. CASE CpusQuietas
    BY <2>1 DEF CpusQuietas, MismoCpu, Parada
  <2>2. ASSUME NEW s \in {HiloCP} \cup HilosCpu, Enviar(s)
        PROVE  UNCHANGED cpus_conectadas /\ (Parada(c) => Parada(c)')
    <3>1. s # t
      <4>1. CASE s = t
        <5>1. pc[t] = "envia" /\ pc'[t] = TrasDespachar(t)
          BY <1>p, <2>2, <4>1 DEF Enviar, Ir
        <5>. QED  BY <5>1 DEF TrasDespachar
      <4>. QED  BY <4>1
    <3>2. CASE CpuDe(s) = c
      <4>1. s = HiloCP
        <5>1. ASSUME NEW d \in Cpus, s = HiloCpu(d) PROVE FALSE
          BY <3>1, <3>2, <5>1, HilosDistintos DEF CpuDe
        <5>. QED  BY <5>1 DEF HilosCpu
      <4>2. cpu[c].libre
        BY <2>2, <3>2, <4>1, DestinoLibre DEF Enviar
      <4>. QED  BY <2>2, <4>2 DEF Enviar, Parada
    <3>3. CASE CpuDe(s) # c
      BY <1>p, <2>2, <3>3 DEF Enviar, Parada
    <3>. QED  BY <3>2, <3>3
  <2>3. ASSUME NEW d \in Cpus, RegistrarCpu(d) \/ Recibir(d) \/ LiberarCpu(d)
        PROVE  d # c
    <3>1. CASE RegistrarCpu(d)
      BY <1>p, <3>1 DEF RegistrarCpu, Ir
    <3>2. CASE Recibir(d)
      <4>1. pc[HiloCpu(d)] = "recv" /\ pc'[HiloCpu(d)] = TrasRecibir(Head(red_ks[d]))
        BY <1>p, <3>2 DEF Recibir, Ir
      <4>. QED  BY <4>1 DEF TrasRecibir
    <3>3. CASE LiberarCpu(d)
      BY <1>p, <3>3 DEF LiberarCpu, Ir
    <3>. QED  BY <2>3, <3>1, <3>2, <3>3
  <2>4. ASSUME NEW d \in Cpus, RegistrarCpu(d)
        PROVE  /\ c \in ToSet(cpus_conectadas)' <=> c \in ToSet(cpus_conectadas)
               /\ Parada(c) => Parada(c)'
    <3>1. d # c
      BY <2>3, <2>4
    <3>2. ToSet(cpus_conectadas)' = ToSet(cpus_conectadas) \cup {d} /\ cpu'[c] = cpu[c]
      BY <1>p, <2>4, <3>1, ToSetAppend, SMTT(40) DEF RegistrarCpu
    <3>. QED  BY <3>1, <3>2 DEF Parada
  <2>5. ASSUME NEW d \in Cpus, Recibir(d) \/ LiberarCpu(d)
        PROVE  UNCHANGED cpus_conectadas /\ (Parada(c) => Parada(c)')
    BY <1>p, <2>3, <2>5 DEF Recibir, LiberarCpu, Parada
  <2>6. ASSUME NEW d \in Cpus, ProgramaCpu(d)
        PROVE  UNCHANGED cpus_conectadas /\ (Parada(c) => Parada(c)')
    BY <2>6 DEF ProgramaCpu, CpuRecibe, FallarFetch, EjecutarComun, EjecutarSyscall, cpusKS,
       Parada
  <2>. QED  BY <2>1, <2>2, <2>4, <2>5, <2>6, PasosDeCpu
<1>. QED  BY <1>i, <1>1, <1>2 DEF InvAtencion

LEMMA PasoAtencion ==
  ASSUME InvTipos, InvCompactacion, [Next]_vars, NEW c \in Cpus
  PROVE  InvAtencion(c)'
<1>. DEFINE t == HiloCpu(c)
<1>p. pc \in [Hilos -> Lugares] /\ loc \in [Hilos -> Locales] /\ t \in Hilos
      /\ cpus_conectadas \in Seq(Cpus) /\ DOMAIN cpu = Cpus /\ TypeCpus /\ TypeKM
      /\ loc[t].tras \in {"recv", "libera_cpu"}
  BY HilosDistintos DEF InvTipos, TypeOK, TypeHilos, TypeCpus, Locales
<1>i. InvAtencion(c) /\ InvRafaga(c)
  BY DEF InvCompactacion
<1>e. EnEvento(t) => pc[t] \in ConEvento
  BY <1>p DEF InvTipos, InvEvento
<1>0. CASE pc'[t] = pc[t] /\ loc'[t] = loc[t]
  BY <1>0, AtencionAjena
<1>m. ASSUME UNCHANGED cpus_conectadas, Parada(c) => Parada(c)',
             pc[t] # "conecta", pc'[t] # "conecta",
             loc'[t].tras = loc[t].tras, EnEvento(t)' <=> EnEvento(t), pc[t] # "evento",
             pc[t] \in Atendiendo \/ (pc'[t] \notin Atendiendo)
      PROVE  InvAtencion(c)'
  BY <1>i, <1>m DEF InvAtencion
<1>1. CASE EncolarEnReady(t)
  <2>1. CpusQuietas
    <3>1. CASE Desalojar(t)
      BY <3>1, DesalojarQuieto DEF InvTipos, TypeOK
    <3>2. CASE ~ Desalojar(t)
      BY <1>1, <3>2, SinCambioQuieto DEF EncolarEnReady, Encolar, PostearReady,
         BuscarVictima, cpusKS, redes
    <3>. QED  BY <3>1, <3>2
  <2>2. /\ pc[t] \in {"encola", "postea_ready", "busca_victima", "desaloja"}
        /\ loc'[t].tras = loc[t].tras /\ UNCHANGED mutex_evento
        /\ pc'[t] \in {"postea_ready", "busca_victima", "desaloja", TrasEncolar(t)}
    <3>1. CASE Encolar(t)
      BY <1>p, <3>1 DEF Encolar, Ir, sinc
    <3>2. CASE PostearReady(t)
      BY <1>p, <3>2 DEF PostearReady, Ir, sinc
    <3>3. CASE BuscarVictima(t)
      BY <1>p, <3>3 DEF BuscarVictima, Ir, sinc, Locales
    <3>4. CASE Desalojar(t)
      BY <1>p, <3>4 DEF Desalojar, Ir, sinc, Locales
    <3>. QED  BY <1>1, <3>1, <3>2, <3>3, <3>4 DEF EncolarEnReady
  <2>3. TrasEncolar(t) # "conecta"
    <3>1. TrasEncolar(t) \in {"reintenta", "espera_new", "espera_ready", "inactivo", "libera_cpu"}
      BY DEF TrasEncolar
    <3>. QED  BY <3>1
  <2>. QED  BY <1>m, <2>1, <2>2, <2>3
            DEF CpusQuietas, MismoCpu, Parada, EnEvento, Atendiendo
<1>2. CASE Despachar(t)
  <2>1. CASE ActualizarContexto(t)
    <3>1. /\ pc[t] = "contexto" /\ pc'[t] = "envia" /\ UNCHANGED <<loc, cpusKS, sinc>>
      BY <1>p, <2>1 DEF ActualizarContexto, Ir
    <3>. QED  BY <1>m, <3>1 DEF Parada, EnEvento, Atendiendo, cpusKS, sinc
  <2>2. CASE Enviar(t)
    <3>1. /\ pc[t] = "envia" /\ pc'[t] = TrasDespachar(t)
          /\ loc'[t] \in {loc[t], LocInicial} /\ UNCHANGED <<cpus_conectadas, sinc>>
      BY <1>p, <2>2 DEF Enviar, Ir
    <3>2. ~ EnEvento(t)
      BY <1>e, <3>1 DEF ConEvento
    <3>3. loc[t].tras # "libera_cpu"
      BY <1>i, <3>1, <3>2 DEF InvAtencion
    <3>4. loc'[t].tras # "libera_cpu"
      BY <3>1, <3>3 DEF LocInicial
    <3>5. pc'[t] \in {"espera_ready", "evento", "recv"}
      BY <3>1 DEF TrasDespachar
    <3>. QED  BY <1>i, <3>1, <3>4, <3>5 DEF InvAtencion, Atendiendo
  <2>. QED  BY <1>2, <2>1, <2>2 DEF Despachar
<1>3. CASE AtenderCpu(c)
  <2>e. ~ EnEvento(t) /\ ~ EnEvento(t)'
    <3>1. pc[t] \notin ConEvento /\ UNCHANGED mutex_evento
      BY <1>3 DEF AtenderCpu, RegistrarCpu, PostearCpu, Recibir, LiberarCpu, ExecAReady,
         ExecAExit, FinalizarProcesoKM, ExecABlock, Bloqueo, AnotarEspera, CrearProceso,
         EliminarSegmento, ConEvento, sinc
    <3>. QED  BY <1>e, <3>1, SMTT(40) DEF EnEvento
  <2>1. CASE RegistrarCpu(c)
    <3>1. /\ pc[t] = "conecta" /\ pc'[t] = "postea_cpu" /\ UNCHANGED loc
          /\ ToSet(cpus_conectadas)' = ToSet(cpus_conectadas) \cup {c}
      BY <1>p, <2>1, ToSetAppend DEF RegistrarCpu, Ir
    <3>. QED  BY <1>i, <2>e, <3>1 DEF InvAtencion, Atendiendo
  <2>2. CASE PostearCpu(c)
    <3>1. /\ pc[t] = "postea_cpu" /\ pc'[t] = "recv" /\ UNCHANGED <<loc, cpusKS>>
      BY <1>p, <2>2 DEF PostearCpu, Ir
    <3>. QED  BY <1>m, <2>e, <3>1 DEF Parada, Atendiendo, cpusKS
  <2>3. CASE Recibir(c)
    <3>1. /\ pc[t] = "recv" /\ red_ks[c] # <<>> /\ cpu'[c] = FinDeRafaga(cpu[c])
          /\ pc'[t] = TrasRecibir(Head(red_ks[c])) /\ UNCHANGED cpus_conectadas
      BY <1>p, <2>3 DEF Recibir, Ir
    <3>2. loc'[t].tras = "recv"
      BY <1>p, <2>3 DEF Recibir, LocInicial
    <3>3. Parada(c)'
      BY <1>i, <3>1 DEF InvRafaga, Parada, FinDeRafaga
    <3>4. pc'[t] # "conecta"
      BY <3>1 DEF TrasRecibir
    <3>. QED  BY <1>i, <3>1, <3>2, <3>3, <3>4 DEF InvAtencion
  <2>4. CASE LiberarCpu(c)
    <3>1. /\ pc[t] = "libera_cpu" /\ pc'[t] = "postea_cpu" /\ loc'[t] = LocInicial
          /\ UNCHANGED cpus_conectadas
      BY <1>p, <2>4 DEF LiberarCpu, Ir
    <3>. QED  BY <1>i, <3>1 DEF InvAtencion, LocInicial, Atendiendo
  <2>5. CASE FinalizarProcesoKM(c)
    <3>1. /\ pc[t] = "finaliza_km" /\ pc'[t] = "evento" /\ UNCHANGED cpusKS
      BY <1>p, <2>5 DEF FinalizarProcesoKM, Ir
    <3>2. Parada(c)
      BY <1>i, <2>e, <3>1 DEF InvAtencion, Atendiendo
    <3>. QED  BY <1>i, <3>1, <3>2 DEF InvAtencion, Parada, Atendiendo, cpusKS
  <2>6. CASE ExecABlock(c)
    <3>1. /\ pc[t] \in Bloqueo /\ UNCHANGED <<loc, cpusKS>>
      BY <2>6 DEF ExecABlock
    <3>2. pc'[t] \in {"libera_cpu", "io", "anota_espera"}
      BY <1>p, <2>6 DEF ExecABlock, Ir
    <3>. QED  BY <1>m, <2>e, <3>1, <3>2 DEF Parada, Bloqueo, Atendiendo, cpusKS
  <2>7. CASE EliminarSegmento(c)
    <3>1. /\ pc[t] = "elimina_segmento" /\ pc'[t] = "contexto" /\ UNCHANGED cpusKS
      BY <1>p, <2>7 DEF EliminarSegmento, Ir
    <3>2. loc'[t].tras = loc[t].tras
      <4>. DEFINE b == {i \in DOMAIN segmentos[loc[t].pid] :
                          segmentos[loc[t].pid][i].seg = loc[t].inst.a} # {}
      <4>1. loc' = [loc EXCEPT ![t].evento = b]
        BY <2>7 DEF EliminarSegmento
      <4>. HIDE DEF b
      <4>. QED  BY <1>p, <4>1 DEF Locales
    <3>. QED  BY <1>m, <2>e, <3>1, <3>2 DEF Parada, Atendiendo, cpusKS
  <2>8. CASE ExecAReady(c) \/ ExecAExit(c) \/ AnotarEspera(c) \/ CrearProceso(c)
    <3>1. /\ pc[t] \in {"vuelve_ready", "sale", "anota_espera", "crea_proceso"}
          /\ UNCHANGED <<loc, cpusKS>>
          /\ pc'[t] \in {"encola", "finaliza_km", "libera_cpu", "vuelve_ready"}
      BY <1>p, <2>8 DEF ExecAReady, ExecAExit, AnotarEspera, CrearProceso, Ir
    <3>. QED  BY <1>m, <2>e, <3>1 DEF Parada, Atendiendo, cpusKS
  <2>. QED  BY <1>3, <2>1, <2>2, <2>3, <2>4, <2>5, <2>6, <2>7, <2>8 DEF AtenderCpu
<1>4. CASE CrearSegmento(t)
  <2>1. UNCHANGED <<cpusKS, mutex_evento>>
    BY <1>4 DEF CrearSegmento, CrearOK, CrearError, CrearCompacta, sinc
  <2>2. pc[t] \in {"crea_segmento", "reintenta"} /\ (pc[t] = "reintenta" => EnEvento(t))
    BY <1>4, <1>p DEF CrearSegmento, CrearOK, CrearError, CrearCompacta, PideSegmento,
       InvTipos, InvEvento
  <2>3. /\ pc'[t] \in {"satisface", "contexto", "reintenta", "bloquea_memoria", "pausa"}
        /\ loc'[t].tras = loc[t].tras
    <3>1. CASE CrearOK(t)
      BY <1>p, <3>1 DEF CrearOK, TrasCrear, Ir
    <3>2. CASE CrearError(t)
      <4>1. CASE EnEvento(t)
        <5>1. pc'[t] = "reintenta" /\ loc' = [loc EXCEPT ![t].resto = Tail(@)]
          BY <1>p, <3>2, <4>1 DEF CrearError, Ir
        <5>. QED  BY <1>p, <5>1 DEF Locales
      <4>2. CASE ~ EnEvento(t)
        BY <1>p, <3>2, <4>2 DEF CrearError, Ir
      <4>. QED  BY <4>1, <4>2
    <3>3. CASE CrearCompacta(t)
      BY <1>p, <3>3 DEF CrearCompacta, Ir
    <3>. QED  BY <1>4, <3>1, <3>2, <3>3 DEF CrearSegmento
  <2>4. CASE pc[t] = "crea_segmento"
    BY <1>m, <2>1, <2>3, <2>4 DEF Parada, EnEvento, Atendiendo, cpusKS
  <2>5. CASE pc[t] = "reintenta"
    <3>1. EnEvento(t) /\ EnEvento(t)'
      BY <2>1, <2>2, <2>5 DEF EnEvento
    <3>. QED  BY <1>i, <2>1, <2>3, <2>5, <3>1 DEF InvAtencion, Parada, cpusKS
  <2>. QED  BY <2>2, <2>4, <2>5
<1>5. CASE Compactacion(t)
  <2>1. CpusQuietas /\ UNCHANGED mutex_evento
    <3>1. CASE InterrumpirParaCompactar(t)
      BY <3>1, CompactarQuieto DEF InterrumpirParaCompactar, sinc, InvTipos, TypeOK
    <3>2. CASE ~ InterrumpirParaCompactar(t)
      BY <1>5, <3>2, SinCambioQuieto DEF Compactacion, PausarPlanificacion, Compactar,
         ReanudarPlanificacion, cpusKS, redes, sinc
    <3>. QED  BY <3>1, <3>2
  <2>2. /\ pc[t] \in Zona /\ loc'[t].tras = loc[t].tras /\ pc'[t] # "conecta"
    <3>1. CASE PausarPlanificacion(t) \/ Compactar(t)
      BY <1>p, <3>1 DEF PausarPlanificacion, Compactar, Ir, Zona
    <3>2. CASE InterrumpirParaCompactar(t)
      BY <1>p, <3>2 DEF InterrumpirParaCompactar, Ir, Zona
    <3>3. CASE ReanudarPlanificacion(t)
      <4>. DEFINE b == ~ EnEvento(t)
      <4>1. loc' = [loc EXCEPT ![t].evento = b] /\ pc[t] = "reanuda" /\ pc'[t] = TrasCrear(t)
        BY <1>p, <3>3 DEF ReanudarPlanificacion, Ir
      <4>. HIDE DEF b
      <4>2. loc'[t].tras = loc[t].tras
        BY <1>p, <4>1 DEF Locales
      <4>. QED  BY <4>1, <4>2 DEF TrasCrear, Zona
    <3>. QED  BY <1>5, <3>1, <3>2, <3>3 DEF Compactacion
  <2>. QED  BY <1>m, <2>1, <2>2
            DEF CpusQuietas, MismoCpu, Parada, EnEvento, Atendiendo, Zona
<1>6. CASE EventoMemoria(t)
  <2>1. UNCHANGED cpusKS
    BY <1>6 DEF EventoMemoria, TomarEvento, Satisfacer, SoltarEvento
  <2>2. CASE TomarEvento(t)
    <3>1. /\ pc[t] = "evento" /\ pc'[t] = "reintenta" /\ EnEvento(t)'
          /\ loc'[t].tras = loc[t].tras
      BY <1>p, <2>2 DEF TomarEvento, Ir, EnEvento, Locales
    <3>. QED  BY <1>i, <2>1, <3>1 DEF InvAtencion, Parada, cpusKS
  <2>3. CASE Satisfacer(t)
    <3>1. /\ pc[t] = "satisface" /\ pc'[t] = "encola" /\ UNCHANGED mutex_evento
          /\ loc'[t].tras = loc[t].tras
      BY <1>p, <2>3 DEF Satisfacer, Ir, sinc, Locales
    <3>2. EnEvento(t) /\ EnEvento(t)'
      BY <1>p, <3>1 DEF InvTipos, InvEvento, EnEvento
    <3>. QED  BY <1>i, <2>1, <3>1, <3>2 DEF InvAtencion, Parada, cpusKS
  <2>4. CASE SoltarEvento(t)
    <3>1. /\ pc[t] = "reintenta" /\ loc'[t] = LocInicial /\ t # HiloNT
          /\ pc'[t] = loc[t].tras
      BY <1>p, <2>4, HilosDistintos DEF SoltarEvento, Ir
    <3>. QED  BY <1>i, <1>p, <2>1, <3>1 DEF InvAtencion, Parada, LocInicial, Atendiendo, cpusKS
  <2>. QED  BY <1>6, <2>2, <2>3, <2>4 DEF EventoMemoria
<1>7. CASE ~ (pc'[t] = pc[t] /\ loc'[t] = loc[t])
  <2>1. Paso(t)
    BY <1>p, <1>7, QuienMueve
  <2>2. t \notin {HiloLP, HiloCP, HiloNT} /\ t \notin HilosIO
    BY HilosDistintos
  <2>3. ASSUME NEW d \in Cpus, t = HiloCpu(d), AtenderCpu(d) PROVE AtenderCpu(c)
    BY <2>3, HiloDeUnaCpu
  <2>. HIDE DEF t
  <2>. QED  BY <1>1, <1>2, <1>3, <1>4, <1>5, <1>6, <2>1, <2>2, <2>3 DEF Paso
<1>. QED  BY <1>0, <1>7

-----------------------------------------------------------------------------
(* The invariant is preserved: the corto plazo *)

LEMMA PasoDestino ==
  ASSUME InvTipos, InvCompactacion, [Next]_vars
  PROVE  InvDestino'
<1>p. pc \in [Hilos -> Lugares] /\ loc \in [Hilos -> Locales] /\ HiloCP \in Hilos
      /\ cpus_conectadas \in Seq(Cpus) /\ DOMAIN cpu = Cpus
  BY HilosDistintos DEF InvTipos, TypeOK, TypeHilos, TypeCpus
<1>. DEFINE d == loc[HiloCP].cpu
<1>1. SUFFICES ASSUME pc'[HiloCP] \in {"contexto", "envia"}
               PROVE  loc'[HiloCP].cpu \in ToSet(cpus_conectadas)' /\ cpu'[loc'[HiloCP].cpu].libre
  BY DEF InvDestino
<1>2. CASE pc'[HiloCP] = pc[HiloCP] /\ loc'[HiloCP] = loc[HiloCP]
  <2>1. d \in Cpus /\ d \in ToSet(cpus_conectadas) /\ cpu[d].libre
    BY <1>1, <1>2 DEF InvTipos, InvDespacho, InvCompactacion, InvDestino
  <2>. HIDE DEF d
  <2>2. ASSUME CpusQuietas PROVE d \in ToSet(cpus_conectadas)' /\ cpu'[d].libre
    BY <2>1, <2>2 DEF CpusQuietas, MismoCpu
  <2>3. ASSUME NEW s \in {HiloCP} \cup HilosCpu, Enviar(s)
        PROVE  d \in ToSet(cpus_conectadas)' /\ cpu'[d].libre
    <3>1. s # HiloCP
      <4>1. CASE s = HiloCP
        <5>1. pc[HiloCP] = "envia" /\ pc'[HiloCP] = "espera_ready"
          BY <1>p, <2>3, <4>1 DEF Enviar, Ir, TrasDespachar
        <5>. QED  BY <1>2, <5>1
      <4>. QED  BY <4>1
    <3>2. ~ cpu[CpuDe(s)].libre
      BY <2>3, <3>1, DestinoLibre DEF Enviar
    <3>3. CpuDe(s) # d
      BY <2>1, <3>2
    <3>. QED  BY <1>p, <2>1, <2>3, <3>3 DEF Enviar
  <2>4. ASSUME NEW e \in Cpus, RegistrarCpu(e)
        PROVE  d \in ToSet(cpus_conectadas)' /\ cpu'[d].libre
    <3>1. /\ ToSet(cpus_conectadas)' = ToSet(cpus_conectadas) \cup {e}
          /\ cpu' = [cpu EXCEPT ![e] = CpuInicial]
      BY <1>p, <2>4, ToSetAppend DEF RegistrarCpu
    <3>. QED  BY <1>p, <2>1, <3>1 DEF CpuInicial
  <2>5. ASSUME NEW e \in Cpus, Recibir(e) \/ LiberarCpu(e) \/ ProgramaCpu(e)
        PROVE  d \in ToSet(cpus_conectadas)' /\ cpu'[d].libre
    <3>1. CASE Recibir(e)
      BY <1>p, <2>1, <3>1 DEF Recibir, FinDeRafaga
    <3>2. CASE LiberarCpu(e)
      BY <1>p, <2>1, <3>2 DEF LiberarCpu
    <3>3. CASE ProgramaCpu(e)
      BY <2>1, <3>3 DEF ProgramaCpu, CpuRecibe, FallarFetch, EjecutarComun, EjecutarSyscall,
         cpusKS
    <3>. QED  BY <2>5, <3>1, <3>2, <3>3
  <2>6. d \in ToSet(cpus_conectadas)' /\ cpu'[d].libre
    BY <2>2, <2>3, <2>4, <2>5, PasosDeCpu
  <2>. QED  BY <1>2, <2>6 DEF d
<1>3. CASE ~ (pc'[HiloCP] = pc[HiloCP] /\ loc'[HiloCP] = loc[HiloCP])
  <2>1. Paso(HiloCP)
    BY <1>p, <1>3, QuienMueve
  <2>2. CASE EncolarEnReady(HiloCP)
    <3>1. pc'[HiloCP] \in {"postea_ready", "busca_victima", "desaloja", TrasEncolar(HiloCP)}
      <4>1. CASE Encolar(HiloCP)
        BY <1>p, <4>1 DEF Encolar, Ir
      <4>2. CASE PostearReady(HiloCP)
        BY <1>p, <4>2 DEF PostearReady, Ir
      <4>3. CASE BuscarVictima(HiloCP)
        BY <1>p, <4>3 DEF BuscarVictima, Ir
      <4>4. CASE Desalojar(HiloCP)
        BY <1>p, <4>4 DEF Desalojar, Ir
      <4>. QED  BY <2>2, <4>1, <4>2, <4>3, <4>4 DEF EncolarEnReady
    <3>2. TrasEncolar(HiloCP) \in {"reintenta", "espera_new", "espera_ready", "inactivo",
                                   "libera_cpu"}
      BY DEF TrasEncolar
    <3>. QED  BY <1>1, <3>1, <3>2
  <2>3. CASE CortoPlazo
    <3>1. CASE PasarAExec
      <4>. DEFINE libres == {i \in DOMAIN cpus_conectadas : cpu[cpus_conectadas[i]].libre}
      <4>1. libres # {}
        <5>1. CASE libres = {}
          <6>1. pc'[HiloCP] = "encola"
            BY <1>p, <3>1, <5>1 DEF PasarAExec, Ir
          <6>. QED  BY <1>1, <6>1
        <5>. QED  BY <5>1
      <4>2. libres \subseteq Nat
        BY <1>p, LenProperties
      <4>3. Min(libres) \in libres
        <5>. HIDE DEF libres
        <5>. QED  BY <4>1, <4>2, MinEsElemento
      <4>4. /\ loc' = [loc EXCEPT ![HiloCP].cpu = cpus_conectadas[Min(libres)]]
            /\ UNCHANGED <<cpus_conectadas, cpu>>
        BY <3>1, <4>1 DEF PasarAExec, cpusKS
      <4>5. /\ cpus_conectadas[Min(libres)] \in ToSet(cpus_conectadas)
            /\ cpu[cpus_conectadas[Min(libres)]].libre
        BY <4>3 DEF ToSet
      <4>. HIDE DEF libres
      <4>6. loc'[HiloCP].cpu = cpus_conectadas[Min(libres)]
        BY <1>p, <4>4 DEF Locales
      <4>. QED  BY <4>4, <4>5, <4>6
    <3>2. CASE Desencolar
      <4>1. pc'[HiloCP] \in {"espera_ready", "a_exec"}
        BY <1>p, <3>2 DEF Desencolar, Ir
      <4>. QED  BY <1>1, <4>1
    <3>3. CASE EsperarReady \/ EsperarCpu
      <4>1. pc'[HiloCP] \in {"espera_cpu", "desencola", "espera_ready"}
        BY <1>p, <3>3 DEF EsperarReady, EsperarCpu, Ir
      <4>. QED  BY <1>1, <4>1
    <3>. QED  BY <2>3, <3>1, <3>2, <3>3 DEF CortoPlazo
  <2>4. CASE Despachar(HiloCP)
    <3>1. CASE ActualizarContexto(HiloCP)
      BY <1>p, <3>1 DEF ActualizarContexto, cpusKS, InvCompactacion, InvDestino
    <3>2. CASE Enviar(HiloCP)
      <4>1. pc'[HiloCP] = "espera_ready"
        BY <1>p, <3>2 DEF Enviar, Ir, TrasDespachar
      <4>. QED  BY <1>1, <4>1
    <3>. QED  BY <2>4, <3>1, <3>2 DEF Despachar
  <2>. QED  BY <2>1, <2>2, <2>3, <2>4, HilosDistintos, \A c \in Cpus : HiloCpu(c) # HiloCP
            DEF Paso
<1>. QED  BY <1>2, <1>3

-----------------------------------------------------------------------------
(* The theorem *)

LEMMA InitCompactacion == Init => InvCompactacion
<1>. SUFFICES ASSUME Init PROVE InvCompactacion
  OBVIOUS
<1>1. \A t \in Hilos : pc[t] \in {"espera_new", "espera_ready", "conecta", "inactivo"}
  BY DEF Init
<1>2. \A c \in Cpus : pc[HiloCpu(c)] = "conecta" /\ loc[HiloCpu(c)] = LocInicial
  BY HilosDistintos DEF Init
<1>3. ASSUME NEW t \in Hilos PROVE InvZona(t)
  BY <1>1 DEF InvZona
<1>4. ASSUME NEW c \in Cpus PROVE InvRafaga(c) /\ InvAtencion(c)
  <2>1. /\ ~ cpu[c].en_rafaga /\ ~ nucleo[c].ejecutando /\ red_ks[c] = <<>> /\ red_cpu[c] = <<>>
    BY DEF Init, CpuInicial, NucleoLibre
  <2>2. InvRafaga(c)
    BY <2>1 DEF InvRafaga, SinEnvio
  <2>3. c \notin ToSet(cpus_conectadas)
    BY DEF Init, ToSet
  <2>. QED  BY <1>2, <2>2, <2>3 DEF InvAtencion, Atendiendo, LocInicial
<1>5. InvDestino
  BY HilosDistintos DEF Init, InvDestino
<1>. QED  BY <1>3, <1>4, <1>5 DEF InvCompactacion

\* For every number of CPUs and processes, every queue configuration and all
\* scripts: while Kernel Memory moves segments no CPU executes, and none has been
\* sent a process it could begin to execute.
THEOREM CompactacionSegura == Spec => []CompactaSinCpus
<1>1. Init => InvTipos /\ InvCompactacion
  BY InitTipos, InitCompactacion
<1>2. InvTipos /\ InvCompactacion /\ [Next]_vars => (InvTipos /\ InvCompactacion)'
  <2>1. InvTipos /\ [Next]_vars => InvTipos'
    BY PasoPcbs, PasoColas, PasoCpus, PasoKM, PasoHilos, PasoEvento, PasoDespacho
       DEF InvTipos, TypeOK
  <2>. QED  BY <2>1, PasoZona, PasoRafaga, PasoAtencion, PasoDestino DEF InvCompactacion
<1>3. InvTipos /\ InvCompactacion => CompactaSinCpus
  <2>1. SUFFICES ASSUME InvTipos, InvCompactacion, NEW t \in HilosMemoria,
                        pc[t] = "compacta", NEW c \in Cpus
                 PROVE  /\ ~ nucleo[c].ejecutando
                        /\ \A i \in DOMAIN red_cpu[c] : red_cpu[c][i].tipo # "ENVIAR_PID"
    BY DEF CompactaSinCpus
  <2>2. ~ cpu[c].en_rafaga
    BY <2>1, HilosDistintos DEF InvCompactacion, InvZona
  <2>3. DOMAIN red_cpu[c] = 1 .. Len(red_cpu[c])
    BY <2>1, LenProperties DEF InvTipos, TypeOK, TypeCpus
  <2>. QED  BY <2>1, <2>2, <2>3 DEF InvCompactacion, InvRafaga, SinEnvio, EsEnvio
<1>. QED  BY <1>1, <1>2, <1>3, PTL DEF Spec

=============================================================================
