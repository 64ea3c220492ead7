------------------------ MODULE Planificador_proofs ------------------------
(***************************************************************************)
(* Proofs about Planificador for every number of CPUs, processes, queues   *)
(* and scripts.                                                            *)
(***************************************************************************)
EXTENDS Planificador, Minimos, SequenceTheorems, FiniteSetTheorems, WellFoundedInduction, TLAPS

-----------------------------------------------------------------------------
(* Lemmas about the operators the scheduler is built from *)

\* A function with integer values has a maximum on a finite set.
LEMMA MaximoEnFinito ==
  ASSUME NEW T, IsFiniteSet(T), T # {}, NEW f, \A x \in T : f[x] \in Int
  PROVE  \E x \in T : \A y \in T : f[y] <= f[x]
<1>. DEFINE mayores(x) == {y \in T : f[y] > f[x]}
            cuenta(x) == Cardinality(mayores(x))
            cuentas == {cuenta(x) : x \in T}
<1>1. \A x \in T : mayores(x) \in SUBSET T /\ IsFiniteSet(mayores(x))
  BY FS_Subset
<1>2. \A x \in T : cuenta(x) \in Nat
  BY <1>1, FS_CardinalityType
<1>3. PICK x \in T : \A y \in T : cuenta(x) <= cuenta(y)
  <2>1. cuentas \subseteq Nat /\ cuentas # {}
    BY <1>2
  <2>. HIDE DEF cuentas
  <2>2. Min(cuentas) \in cuentas /\ \A n \in cuentas : Min(cuentas) <= n
    BY <2>1, MinEsElemento
  <2>. HIDE DEF cuenta
  <2>. QED  BY <2>2 DEF cuentas
<1>4. ASSUME NEW y \in T, f[y] > f[x] PROVE FALSE
  <2>1. mayores(y) \in SUBSET mayores(x) /\ mayores(y) # mayores(x)
    BY <1>4
  <2>. HIDE DEF mayores
  <2>2. cuenta(y) <= cuenta(x) /\ cuenta(y) # cuenta(x)
    BY <1>1, <2>1, FS_Subset
  <2>. HIDE DEF cuenta
  <2>. QED  BY <1>2, <1>3, <2>2
<1>. QED  BY <1>4

\* The victim is a process in EXEC of strictly worse priority than the one that
\* arrives, and no process in EXEC is worse.
LEMMA VictimaEsPeor ==
  ASSUME lista_exec \in Seq(Pids), prioridad \in [Pids -> Int],
         NEW p \in Pids, Victima(p) # SinVictima
  PROVE  \E i \in DOMAIN lista_exec :
           /\ Victima(p) = lista_exec[i]
           /\ prioridad[lista_exec[i]] > prioridad[p]
           /\ \A j \in DOMAIN lista_exec :
                prioridad[lista_exec[j]] <= prioridad[lista_exec[i]]
<1>. DEFINE f == [i \in DOMAIN lista_exec |-> prioridad[lista_exec[i]]]
            peores == {i \in DOMAIN lista_exec : prioridad[lista_exec[i]] > prioridad[p]}
            elegibles == {i \in peores : \A j \in peores :
                            prioridad[lista_exec[j]] <= prioridad[lista_exec[i]]}
<1>1. /\ DOMAIN lista_exec = 1 .. Len(lista_exec) /\ Len(lista_exec) \in Nat
      /\ \A i \in DOMAIN lista_exec :
           lista_exec[i] \in Pids /\ prioridad[lista_exec[i]] \in Int
  BY LenProperties, ElementOfSeq
<1>2. peores # {} /\ Victima(p) = lista_exec[Min(elegibles)]
  BY DEF Victima
<1>3. IsFiniteSet(peores)
  <2>1. IsFiniteSet(DOMAIN lista_exec)
    BY <1>1, FS_Interval
  <2>. QED  BY <2>1, FS_Subset
<1>4. elegibles # {}
  <2>1. \A i \in peores : f[i] \in Int
    BY <1>1
  <2>2. PICK i \in peores : \A j \in peores : f[j] <= f[i]
    <3>. HIDE DEF f, peores
    <3>. QED  BY <1>2, <1>3, <2>1, MaximoEnFinito
  <2>. QED  BY <2>2
<1>5. elegibles \subseteq Nat
  BY <1>1
<1>6. Min(elegibles) \in elegibles
  <2>. HIDE DEF elegibles
  <2>. QED  BY <1>4, <1>5, MinEsElemento
<1>. HIDE DEF f
<1>7. /\ Min(elegibles) \in peores
      /\ \A j \in peores : prioridad[lista_exec[j]] <= prioridad[lista_exec[Min(elegibles)]]
  BY <1>6
<1>8. \A j \in DOMAIN lista_exec :
        prioridad[lista_exec[j]] <= prioridad[lista_exec[Min(elegibles)]]
  <2>. HIDE DEF elegibles
  <2>. QED  BY <1>1, <1>7
<1>. HIDE DEF elegibles
<1>. QED  BY <1>2, <1>7, <1>8

-----------------------------------------------------------------------------
(* The type invariant.  It is not inductive alone: a thread takes the head of *)
(* its list of pending requests, dispatches to the CPU it chose and creates a *)
(* process from a script, and these exist only because of where it is.        *)

ConEvento == {"reintenta", "satisface", "encola", "postea_ready", "busca_victima",
              "desaloja", "pausa", "interrumpe", "compacta", "reanuda"}

ConPedido == {"satisface", "pausa", "interrumpe", "compacta", "reanuda"}

\* The thread that holds mutex_evento_memoria is inside the event, and while it
\* works on a request there is one.
InvEvento ==
  \A t \in Hilos :
    /\ EnEvento(t) => pc[t] \in ConEvento
    /\ pc[t] \in {"reintenta", "satisface"} => EnEvento(t)
    /\ EnEvento(t) /\ pc[t] \in ConPedido => loc[t].resto # <<>>

InvDespacho ==
  /\ pc[HiloCP] \in {"contexto", "envia"} => loc[HiloCP].cpu \in Cpus
  /\ \A c \in Cpus : pc[HiloCpu(c)] = "crea_proceso" =>
       loc[HiloCpu(c)].inst.op = "INIT_PROC"

InvTipos == TypeOK /\ InvEvento /\ InvDespacho

LEMMA PidsConCero == 0 \in Pids /\ Pids \subseteq Nat
BY ConstantesOK DEF Pids

LEMMA InitTipos == Init => InvTipos
<1>. SUFFICES ASSUME Init PROVE InvTipos
  OBVIOUS
<1>. USE ConstantesOK, PidsConCero DEF Init
<1>1. TypePcbs
  BY DEF TypePcbs
<1>2. TypeColas
  BY DEF TypeColas
<1>3. TypeCpus
  BY DEF TypeCpus, CpuInicial, NucleoLibre
<1>4. TypeKM
  <2>1. compactacion_en_curso \in BOOLEAN
    OBVIOUS
  <2>2. \A p \in Pids : segmentos[p] \in Seq(Pedidos)
    BY EmptySeq
  <2>. QED  BY <2>1, <2>2 DEF TypeKM
<1>5. TypeHilos
  BY DEF TypeHilos, Lugares, Locales, LocInicial, InstNula, SinVictima, Instruccion,
         Operaciones
<1>6. InvEvento
  BY DEF InvEvento, EnEvento, NADIE, Hilos, HilosCpu, HiloLP, HiloCP, HiloNT, HiloCpu, HiloIO, HilosIO
<1>7. InvDespacho
  BY DEF InvDespacho, HilosCpu, HiloLP, HiloCP, HiloNT, HiloCpu, Hilos
<1>. QED  BY <1>1, <1>2, <1>3, <1>4, <1>5, <1>6, <1>7 DEF InvTipos, TypeOK

\* Where the threads are told apart.
LEMMA HilosDistintos ==
  /\ HiloLP \in Hilos /\ HiloCP \in Hilos /\ HiloNT \in Hilos
  /\ HilosMemoria \subseteq Hilos /\ HilosCpu \subseteq Hilos
  /\ \A c \in Cpus : /\ HiloCpu(c) \in HilosCpu /\ HiloCpu(c)[2] = c
                     /\ HiloCpu(c) \notin {HiloLP, HiloCP, HiloNT, NADIE}
                     /\ HiloCpu(c)[1] # "IO"
  /\ HilosIO \subseteq Hilos
  /\ \A t \in HilosIO : /\ t[2] \in Pids /\ t[1] = "IO"
                        /\ t \notin HilosMemoria /\ t \notin HilosCpu
                        /\ t \notin {HiloLP, HiloCP, HiloNT, NADIE}
  /\ \A p \in Pids, k \in 1 .. MaxHilosIO : HiloIO(p, k) \in HilosIO /\ HiloIO(p, k)[2] = p
  /\ HiloLP # HiloCP /\ HiloLP # HiloNT /\ HiloCP # HiloNT /\ HiloCP \notin HilosMemoria
  /\ HiloLP \notin HilosMemoria /\ NADIE \notin Hilos
BY DEF HiloLP, HiloCP, HiloNT, HiloCpu, HiloIO, NADIE, HilosCpu, HilosIO, Hilos, HilosMemoria

LEMMA PasoPcbs ==
  ASSUME InvTipos, [Next]_vars
  PROVE  TypePcbs'
<1>. USE DEF InvTipos, TypeOK, TypePcbs
<1>1. CASE \E t \in Hilos : EncolarEnReady(t)
  BY <1>1 DEF EncolarEnReady, Encolar, PostearReady, BuscarVictima, Desalojar, pcbs
<1>2. CASE AdmitirNew
  BY <1>2, HeadTailProperties DEF AdmitirNew, TypeColas
<1>3. CASE CortoPlazo
  BY <1>3 DEF CortoPlazo, EsperarReady, EsperarCpu, Desencolar, PasarAExec, pcbs
<1>4. CASE \E t \in {HiloCP} \cup HilosCpu : Despachar(t)
  BY <1>4 DEF Despachar, ActualizarContexto, Enviar, pcbs
<1>5. CASE \E x \in timers : VencerQuantum(x)
  BY <1>5 DEF VencerQuantum, pcbs
<1>6. ASSUME NEW c \in Cpus, AtenderCpu(c) PROVE TypePcbs'
  <2>1. CASE RegistrarCpu(c) \/ PostearCpu(c) \/ LiberarCpu(c) \/ FinalizarProcesoKM(c)
             \/ AnotarEspera(c) \/ EliminarSegmento(c)
    BY <2>1 DEF RegistrarCpu, PostearCpu, LiberarCpu, FinalizarProcesoKM, AnotarEspera,
                EliminarSegmento, pcbs
  <2>2. CASE Recibir(c)
    <3>1. Head(red_ks[c]) \in MensajesKS
      BY <2>2, HeadTailProperties DEF Recibir, TypeCpus
    <3>2. Head(red_ks[c]).pc \in Nat
      BY <3>1 DEF MensajesKS
    <3>. QED  BY <2>2, <3>2 DEF Recibir
  <2>3. CASE ExecAReady(c) \/ ExecAExit(c) \/ ExecABlock(c)
    BY <2>3 DEF ExecAReady, ExecAExit, ExecABlock
  <2>4. CASE CrearProceso(c)
    <3>1. loc[HiloCpu(c)].inst \in Instruccion /\ loc[HiloCpu(c)].inst.op = "INIT_PROC"
      BY <2>4, HilosDistintos DEF CrearProceso, TypeHilos, Locales, InvDespacho
    <3>2. loc[HiloCpu(c)].inst.a \in DOMAIN Scripts /\ loc[HiloCpu(c)].inst.b \in Int
      BY <3>1 DEF Instruccion
    <3>3. CASE PrioridadValida(loc[HiloCpu(c)].inst.b)
      <4>1. proximo_pid + 1 \in 1 .. MaxProcesos
        BY <2>4, <3>3, ConstantesOK DEF CrearProceso
      <4>. QED  BY <2>4, <3>2, <3>3, <4>1 DEF CrearProceso
    <3>4. CASE ~ PrioridadValida(loc[HiloCpu(c)].inst.b)
      BY <2>4, <3>4 DEF CrearProceso
    <3>. QED  BY <3>3, <3>4
  <2>. QED  BY <1>6, <2>1, <2>2, <2>3, <2>4, SMTT(40) DEF AtenderCpu
<1>7. CASE \E t \in HilosIO : TerminarIO(t)
  BY <1>7 DEF TerminarIO, BlockAReady
<1>8. ASSUME NEW t \in HilosMemoria, CrearSegmento(t) \/ Compactacion(t) PROVE TypePcbs'
  BY <1>8 DEF CrearSegmento, CrearOK, CrearError, CrearCompacta, Compactacion,
     PausarPlanificacion, InterrumpirParaCompactar, Compactar, ReanudarPlanificacion, pcbs
<1>9. ASSUME NEW t \in HilosMemoria, EventoMemoria(t) PROVE TypePcbs'
  BY <1>9 DEF EventoMemoria, TomarEvento, Satisfacer, SoltarEvento, BlockAReady, pcbs
<1>10. CASE NuevoStick
  BY <1>10 DEF NuevoStick, pcbs
<1>11. ASSUME NEW c \in Cpus, ProgramaCpu(c) PROVE TypePcbs'
  BY <1>11 DEF ProgramaCpu, CpuRecibe, FallarFetch, EjecutarComun, EjecutarSyscall, pcbs
<1>12. CASE UNCHANGED vars
  BY <1>12 DEF vars, pcbs
<1>. QED  BY <1>1, <1>2, <1>3, <1>4, <1>5, <1>6, <1>7, <1>8, <1>9, <1>10, <1>11, <1>12 DEF Next

LEMMA ColaDeEnRango ==
  ASSUME prioridad \in [Pids -> Int], NEW p \in Pids
  PROVE  ColaDe(p) \in 0 .. CantColas - 1
BY ConstantesOK DEF ColaDe

\* The request a thread works on is a request.
LEMMA PedidoTipo ==
  ASSUME InvTipos, NEW t \in Hilos,
         EnEvento(t) => loc[t].resto # <<>>
  PROVE  Pedido(t) \in Pedidos
<1>1. loc[t] \in Locales
  BY DEF InvTipos, TypeOK, TypeHilos
<1>2. CASE EnEvento(t)
  BY <1>1, <1>2, HeadTailProperties DEF Pedido, Locales
<1>3. CASE ~ EnEvento(t)
  BY <1>1, <1>3 DEF Pedido, Pedidos, Locales, Instruccion
<1>. QED  BY <1>2, <1>3

LEMMA PasoColas ==
  ASSUME InvTipos, [Next]_vars
  PROVE  TypeColas'
<1>. USE DEF InvTipos, TypeOK, TypeColas
<1>1. ASSUME NEW t \in Hilos, EncolarEnReady(t) PROVE TypeColas'
  <2>1. CASE Encolar(t)
    <3>. DEFINE p == loc[t].pid
                q == ColaDe(p)
    <3>1. p \in Pids
      BY DEF TypeHilos, Locales
    <3>2. q \in 0 .. CantColas - 1
      BY <3>1, ColaDeEnRango DEF TypePcbs
    <3>3. <<p>> \o colas_ready[q] \in Seq(Pids) /\ Append(colas_ready[q], p) \in Seq(Pids)
      BY <3>1, <3>2, ConcatProperties, AppendProperties, <<p>> \in Seq(Pids)
    <3>. QED  BY <2>1, <3>2, <3>3 DEF Encolar, sems
  <2>2. CASE PostearReady(t) \/ BuscarVictima(t) \/ Desalojar(t)
    BY <2>2 DEF PostearReady, BuscarVictima, Desalojar, colas, sems
  <2>. QED  BY <1>1, <2>1, <2>2 DEF EncolarEnReady
<1>2. CASE AdmitirNew
  BY <1>2, HeadTailProperties DEF AdmitirNew, sems
<1>3. CASE CortoPlazo
  <2>1. CASE EsperarReady \/ EsperarCpu
    BY <2>1 DEF EsperarReady, EsperarCpu, colas
  <2>2. CASE Desencolar
    <3>1. CASE ColasConProcesos = {}
      BY <2>2, <3>1 DEF Desencolar, sems
    <3>2. CASE ColasConProcesos # {}
      <4>. DEFINE q == Min(ColasConProcesos)
      <4>1. ColasConProcesos \subseteq Nat
        BY DEF ColasConProcesos
      <4>2. q \in ColasConProcesos
        BY <3>2, <4>1, MinEsElemento
      <4>3. q \in 0 .. CantColas - 1 /\ Tail(colas_ready[q]) \in Seq(Pids)
        BY <4>2, HeadTailProperties DEF ColasConProcesos
      <4>. QED  BY <2>2, <3>2, <4>3 DEF Desencolar, sems
    <3>. QED  BY <3>1, <3>2
  <2>3. CASE PasarAExec
    <3>1. Append(lista_exec, loc[HiloCP].pid) \in Seq(Pids)
      BY AppendProperties, HilosDistintos DEF TypeHilos, Locales
    <3>. QED  BY <2>3, <3>1 DEF PasarAExec, sems
  <2>. QED  BY <1>3, <2>1, <2>2, <2>3 DEF CortoPlazo
<1>4. CASE \E t \in {HiloCP} \cup HilosCpu : Despachar(t)
  BY <1>4 DEF Despachar, ActualizarContexto, Enviar, colas, sems
<1>5. CASE \E x \in timers : VencerQuantum(x)
  BY <1>5 DEF VencerQuantum, colas, sems
<1>6. ASSUME NEW c \in Cpus, AtenderCpu(c) PROVE TypeColas'
  <2>1. CASE RegistrarCpu(c) \/ PostearCpu(c) \/ LiberarCpu(c) \/ FinalizarProcesoKM(c)
             \/ Recibir(c) \/ EliminarSegmento(c)
    BY <2>1 DEF RegistrarCpu, PostearCpu, LiberarCpu, FinalizarProcesoKM, Recibir,
                EliminarSegmento, colas, sems
  <2>2. CASE ExecAReady(c) \/ ExecAExit(c) \/ ExecABlock(c)
    <3>1. loc[HiloCpu(c)].pid \in Pids
      BY HilosDistintos DEF TypeHilos, Locales
    <3>2. RemoveFirst(lista_exec, loc[HiloCpu(c)].pid) \in Seq(Pids)
      BY RemoveFirstEsSeq
    <3>. QED  BY <2>2, <3>1, <3>2 DEF ExecAReady, ExecAExit, ExecABlock, sems
  <2>3. CASE AnotarEspera(c)
    <3>1. HiloCpu(c) \in Hilos /\ ~ EnEvento(HiloCpu(c))
      BY <2>3, HilosDistintos DEF AnotarEspera, InvEvento, ConEvento
    <3>2. Append(lista_espera, Pedido(HiloCpu(c))) \in Seq(Pedidos)
      BY <3>1, PedidoTipo, AppendProperties
    <3>. QED  BY <2>3, <3>2 DEF AnotarEspera, sems
  <2>4. CASE CrearProceso(c)
    <3>1. CASE PrioridadValida(loc[HiloCpu(c)].inst.b)
      <4>1. proximo_pid \in Pids
        BY <2>4, <3>1, ConstantesOK, SMTT(40) DEF CrearProceso, TypePcbs, Pids
      <4>. QED  BY <2>4, <3>1, <4>1, AppendProperties, SMTT(40) DEF CrearProceso, sems
    <3>2. CASE ~ PrioridadValida(loc[HiloCpu(c)].inst.b)
      BY <2>4, <3>2 DEF CrearProceso, sems
    <3>. QED  BY <3>1, <3>2
  <2>. QED  BY <1>6, <2>1, <2>2, <2>3, <2>4, SMTT(40) DEF AtenderCpu
<1>7. CASE \E t \in HilosIO : TerminarIO(t)
  BY <1>7 DEF TerminarIO, BlockAReady, sems
<1>8. ASSUME NEW t \in HilosMemoria, CrearSegmento(t) \/ Compactacion(t) PROVE TypeColas'
  BY <1>8 DEF CrearSegmento, CrearOK, CrearError, CrearCompacta, Compactacion,
     PausarPlanificacion, InterrumpirParaCompactar, Compactar, ReanudarPlanificacion,
     colas, sems
<1>9. ASSUME NEW t \in HilosMemoria, EventoMemoria(t) PROVE TypeColas'
  <2>1. CASE TomarEvento(t) \/ SoltarEvento(t)
    BY <2>1 DEF TomarEvento, SoltarEvento, colas, sems
  <2>2. CASE Satisfacer(t)
    <3>1. RemoveFirst(lista_espera, Head(loc[t].resto)) \in Seq(Pedidos)
      BY RemoveFirstEsSeq
    <3>. QED  BY <2>2, <3>1 DEF Satisfacer, BlockAReady, sems
  <2>. QED  BY <1>9, <2>1, <2>2 DEF EventoMemoria
<1>10. CASE NuevoStick
  BY <1>10 DEF NuevoStick, colas, sems
<1>11. ASSUME NEW c \in Cpus, ProgramaCpu(c) PROVE TypeColas'
  BY <1>11 DEF ProgramaCpu, CpuRecibe, FallarFetch, EjecutarComun, EjecutarSyscall,
     colas, sems
<1>12. CASE UNCHANGED vars
  BY <1>12 DEF vars, colas, sems
<1>. QED  BY <1>1, <1>2, <1>3, <1>4, <1>5, <1>6, <1>7, <1>8, <1>9, <1>10, <1>11, <1>12 DEF Next

Motivos == {"NINGUNA", "QUANTUM", "PREEMPCION", "COMPACTACION"}

LEMMA RafagasTipo == TypeCpus => RafagasActuales \in [Cpus -> Nat]
BY DEF RafagasActuales, TypeCpus

\* Interrupting keeps the types of the CPU records and of the sockets.
LEMMA InterrumpirTipo ==
  ASSUME TypeCpus, NEW C, NEW m \in Motivos, NEW r \in [Cpus -> Nat], Interrumpir(C, m, r),
         UNCHANGED <<cpus_conectadas, red_ks, nucleo>>, timers' \subseteq timers
  PROVE  TypeCpus'
<1>1. \A c \in Cpus : Append(red_cpu[c], MsjInterrupcion(r[c])) \in Seq(MensajesCpu)
  <2>1. TAKE c \in Cpus
  <2>2. MsjInterrupcion(r[c]) \in MensajesCpu
    BY PidsConCero DEF MsjInterrupcion, MensajesCpu
  <2>. QED  BY <2>2, AppendProperties DEF TypeCpus
<1>2. red_cpu' \in [Cpus -> Seq(MensajesCpu)]
  BY <1>1 DEF Interrumpir, TypeCpus
<1>3. cpu' \in [Cpus -> [libre : BOOLEAN, pid : Pids, en_rafaga : BOOLEAN, rafaga : Nat,
                         motivo : Motivos]]
  BY ZenonT(60) DEF Interrumpir, TypeCpus, Motivos
<1>. QED  BY <1>2, <1>3 DEF TypeCpus, Motivos

LEMMA PasoCpus ==
  ASSUME InvTipos, [Next]_vars
  PROVE  TypeCpus'
<1>. USE DEF InvTipos, TypeOK
<1>1. ASSUME NEW t \in Hilos, EncolarEnReady(t) PROVE TypeCpus'
  <2>1. CASE Encolar(t) \/ PostearReady(t) \/ BuscarVictima(t)
    BY <2>1 DEF Encolar, PostearReady, BuscarVictima, TypeCpus, cpusKS, redes
  <2>2. CASE Desalojar(t)
    BY <2>2, RafagasTipo, InterrumpirTipo DEF Desalojar, Motivos
  <2>. QED  BY <1>1, <2>1, <2>2 DEF EncolarEnReady
<1>2. CASE AdmitirNew
  BY <1>2 DEF AdmitirNew, TypeCpus, cpusKS, redes
<1>3. CASE CortoPlazo
  BY <1>3 DEF CortoPlazo, EsperarReady, EsperarCpu, Desencolar, PasarAExec,
     TypeCpus, cpusKS, redes
<1>4. ASSUME NEW t \in {HiloCP} \cup HilosCpu, Despachar(t) PROVE TypeCpus'
  <2>1. CASE ActualizarContexto(t)
    BY <2>1 DEF ActualizarContexto, TypeCpus, cpusKS, redes
  <2>2. CASE Enviar(t)
    <3>. DEFINE p == loc[t].pid
                c == CpuDe(t)
                r == cpu[c].rafaga + 1
    <3>1. t \in Hilos /\ p \in Pids
      BY HilosDistintos DEF TypeHilos, Locales
    <3>2. c \in Cpus
      BY <2>2, HilosDistintos DEF CpuDe, Enviar, InvDespacho, HilosCpu
    <3>3. r \in Nat
      BY <3>2 DEF TypeCpus
    <3>4. MsjEnviarPid(p, r) \in MensajesCpu
      BY <3>1, <3>3 DEF MsjEnviarPid, MensajesCpu
    <3>5. Append(red_cpu[c], MsjEnviarPid(p, r)) \in Seq(MensajesCpu)
      BY <3>2, <3>4, AppendProperties DEF TypeCpus
    <3>. HIDE DEF p, c, r
    <3>6. red_cpu' \in [Cpus -> Seq(MensajesCpu)]
      BY <2>2, <3>5 DEF Enviar, TypeCpus, p, c, r
    <3>7. timers' \subseteq [cpu : Cpus, pid : Pids, rafaga : Nat]
      BY <2>2, <3>1, <3>2, <3>3 DEF Enviar, TypeCpus, p, c, r
    <3>8. cpu' \in [Cpus -> [libre : BOOLEAN, pid : Pids, en_rafaga : BOOLEAN, rafaga : Nat,
                       motivo : {"NINGUNA", "QUANTUM", "PREEMPCION", "COMPACTACION"}]]
      BY <2>2, <3>1, <3>3 DEF Enviar, TypeCpus, p, c, r
    <3>. QED  BY <2>2, <3>6, <3>7, <3>8 DEF Enviar, TypeCpus
  <2>. QED  BY <1>4, <2>1, <2>2 DEF Despachar
<1>5. CASE \E x \in timers : VencerQuantum(x)
  <2>1. PICK x \in timers : VencerQuantum(x)
    BY <1>5
  <2>2. x.rafaga \in Nat /\ [c \in Cpus |-> x.rafaga] \in [Cpus -> Nat]
    BY DEF TypeCpus
  <2>. QED  BY <2>1, <2>2, InterrumpirTipo DEF VencerQuantum, Motivos
<1>6. ASSUME NEW c \in Cpus, AtenderCpu(c) PROVE TypeCpus'
  <2>1. CASE RegistrarCpu(c)
    <3>1. Append(cpus_conectadas, c) \in Seq(Cpus)
      BY AppendProperties DEF TypeCpus
    <3>. QED  BY <2>1, <3>1, PidsConCero DEF RegistrarCpu, CpuInicial, TypeCpus, redes
  <2>2. CASE Recibir(c)
    <3>1. Tail(red_ks[c]) \in Seq(MensajesKS)
      BY <2>2, HeadTailProperties DEF Recibir, TypeCpus
    <3>2. red_ks' \in [Cpus -> Seq(MensajesKS)]
      BY <2>2, <3>1 DEF Recibir, TypeCpus
    <3>3. cpu' \in [Cpus -> [libre : BOOLEAN, pid : Pids, en_rafaga : BOOLEAN, rafaga : Nat,
                       motivo : {"NINGUNA", "QUANTUM", "PREEMPCION", "COMPACTACION"}]]
      BY <2>2, ZenonT(60) DEF Recibir, FinDeRafaga, TypeCpus
    <3>4. UNCHANGED <<cpus_conectadas, timers, red_cpu, nucleo>>
      BY <2>2 DEF Recibir
    <3>. QED  BY <3>2, <3>3, <3>4 DEF TypeCpus
  <2>3. CASE LiberarCpu(c)
    BY <2>3, PidsConCero, ZenonT(60) DEF LiberarCpu, TypeCpus, redes
  <2>4. CASE PostearCpu(c) \/ ExecAReady(c) \/ ExecAExit(c) \/ FinalizarProcesoKM(c)
             \/ ExecABlock(c) \/ AnotarEspera(c) \/ CrearProceso(c) \/ EliminarSegmento(c)
    BY <2>4 DEF PostearCpu, ExecAReady, ExecAExit, FinalizarProcesoKM, ExecABlock,
       AnotarEspera, CrearProceso, EliminarSegmento, TypeCpus, cpusKS, redes
  <2>. QED  BY <1>6, <2>1, <2>2, <2>3, <2>4 DEF AtenderCpu
<1>7. CASE \E t \in HilosIO : TerminarIO(t)
  BY <1>7 DEF TerminarIO, TypeCpus, cpusKS, redes
<1>8. ASSUME NEW t \in HilosMemoria, CrearSegmento(t) \/ Compactacion(t) PROVE TypeCpus'
  <2>1. CASE InterrumpirParaCompactar(t)
    BY <2>1, RafagasTipo, InterrumpirTipo DEF InterrumpirParaCompactar, Motivos
  <2>2. CASE CrearSegmento(t) \/ PausarPlanificacion(t) \/ Compactar(t)
             \/ ReanudarPlanificacion(t)
    BY <2>2 DEF CrearSegmento, CrearOK, CrearError, CrearCompacta, PausarPlanificacion,
       Compactar, ReanudarPlanificacion, TypeCpus, cpusKS, redes
  <2>. QED  BY <1>8, <2>1, <2>2 DEF Compactacion
<1>9. ASSUME NEW t \in HilosMemoria, EventoMemoria(t) PROVE TypeCpus'
  BY <1>9 DEF EventoMemoria, TomarEvento, Satisfacer, SoltarEvento, TypeCpus, cpusKS, redes
<1>10. CASE NuevoStick
  BY <1>10 DEF NuevoStick, TypeCpus, cpusKS, redes
<1>11. ASSUME NEW c \in Cpus, ProgramaCpu(c) PROVE TypeCpus'
  <2>1. CASE CpuRecibe(c)
    <3>1. Head(red_cpu[c]) \in MensajesCpu /\ Tail(red_cpu[c]) \in Seq(MensajesCpu)
      BY <2>1, HeadTailProperties DEF CpuRecibe, TypeCpus
    <3>2. Head(red_cpu[c]).pid \in Pids
      BY <3>1 DEF MensajesCpu
    <3>3. contexto_km[Head(red_cpu[c]).pid] \in Nat
      BY <3>2 DEF TypeKM
    <3>. QED  BY <2>1, <3>1, <3>2, <3>3 DEF CpuRecibe, TypeCpus, cpusKS
  <2>2. CASE FallarFetch(c)
    BY <2>2, PidsConCero DEF FallarFetch, NucleoLibre, TypeCpus, cpusKS
  <2>3. PCSiguiente(c) \in Nat
    BY DEF PCSiguiente, TypeCpus
  <2>4. ASSUME NEW m \in MensajesKS, Devolver(c, m) PROVE
           /\ red_ks' \in [Cpus -> Seq(MensajesKS)]
           /\ nucleo' \in [Cpus -> [ejecutando : BOOLEAN, pid : Pids, pc : Nat]]
    <3>1. Append(red_ks[c], m) \in Seq(MensajesKS)
      BY AppendProperties DEF TypeCpus
    <3>. QED  BY <2>4, <3>1, PidsConCero DEF Devolver, NucleoLibre, TypeCpus
  <2>5. CASE EjecutarComun(c)
    <3>. DEFINE avisado == red_cpu[c] # <<>> /\ Head(red_cpu[c]).tipo = "INTERRUPCION"
    <3>1. CASE avisado
      <4>1. Tail(red_cpu[c]) \in Seq(MensajesCpu)
        BY <3>1, HeadTailProperties DEF TypeCpus
      <4>2. MsjDesalojado(PCSiguiente(c)) \in MensajesKS
        BY <2>3, PidsConCero DEF MsjDesalojado, MensajesKS, InstNula, Instruccion, Operaciones
      <4>3. Devolver(c, MsjDesalojado(PCSiguiente(c)))
            /\ red_cpu' = [red_cpu EXCEPT ![c] = Tail(@)] /\ UNCHANGED cpusKS
        BY <2>5, <3>1 DEF EjecutarComun
      <4>4. red_cpu' \in [Cpus -> Seq(MensajesCpu)]
        BY <4>1, <4>3 DEF TypeCpus
      <4>. QED  BY <2>4, <4>2, <4>3, <4>4 DEF TypeCpus, cpusKS
    <3>2. CASE ~ avisado
      <4>1. nucleo' = [nucleo EXCEPT ![c].pc = PCSiguiente(c)]
            /\ UNCHANGED <<red_cpu, red_ks, cpusKS>>
        BY <2>5, <3>2 DEF EjecutarComun
      <4>2. nucleo' \in [Cpus -> [ejecutando : BOOLEAN, pid : Pids, pc : Nat]]
        BY <2>3, <4>1 DEF TypeCpus
      <4>. QED  BY <4>1, <4>2 DEF TypeCpus, cpusKS
    <3>. QED  BY <3>1, <3>2
  <2>6. CASE EjecutarSyscall(c)
    <3>1. script[nucleo[c].pid] \in DOMAIN Scripts
      BY DEF TypeCpus, TypePcbs
    <3>2. Scripts[script[nucleo[c].pid]] \in Seq(Instruccion)
      BY <3>1, ConstantesOK
    <3>3. InstActual(c) \in Instruccion
      BY <2>3, <2>6, <3>2, ElementOfSeq, LenProperties
         DEF EjecutarSyscall, HayInstruccion, InstActual, PCSiguiente, TypeCpus
    <3>4. MsjSyscall(InstActual(c), PCSiguiente(c)) \in MensajesKS
      BY <2>3, <3>3 DEF MsjSyscall, MensajesKS
    <3>. QED  BY <2>4, <2>6, <3>4 DEF EjecutarSyscall, TypeCpus, cpusKS
  <2>. QED  BY <1>11, <2>1, <2>2, <2>5, <2>6 DEF ProgramaCpu
<1>12. CASE UNCHANGED vars
  BY <1>12 DEF vars, TypeCpus, cpusKS, redes
<1>. QED  BY <1>1, <1>2, <1>3, <1>4, <1>5, <1>6, <1>7, <1>8, <1>9, <1>10, <1>11, <1>12 DEF Next

\* Granting a request leaves every process with a list of segments.
LEMMA ConSegmentoTipo ==
  ASSUME segmentos \in [Pids -> Seq(Pedidos)], NEW q \in Pedidos
  PROVE  ConSegmento(q) \in [Pids -> Seq(Pedidos)]
<1>1. q.pid \in Pids
  BY DEF Pedidos
<1>2. Append(segmentos[q.pid], q) \in Seq(Pedidos)
  BY <1>1, AppendProperties
<1>. QED  BY <1>1, <1>2 DEF ConSegmento

LEMMA PasoKM ==
  ASSUME InvTipos, [Next]_vars
  PROVE  TypeKM'
<1>. USE DEF InvTipos, TypeOK, TypeKM
<1>1. CASE \E t \in Hilos : EncolarEnReady(t)
  BY <1>1 DEF EncolarEnReady, Encolar, PostearReady, BuscarVictima, Desalojar, km, sinc
<1>2. CASE AdmitirNew
  BY <1>2, PidsConCero DEF AdmitirNew, sinc
<1>3. CASE CortoPlazo
  BY <1>3 DEF CortoPlazo, EsperarReady, EsperarCpu, Desencolar, PasarAExec, km, sinc
<1>4. ASSUME NEW t \in {HiloCP} \cup HilosCpu, Despachar(t) PROVE TypeKM'
  <2>1. CASE ActualizarContexto(t)
    <3>1. loc[t].pid \in Pids
      BY HilosDistintos DEF TypeHilos, Locales
    <3>2. registros[loc[t].pid] \in Nat
      BY <3>1 DEF TypePcbs
    <3>. QED  BY <2>1, <3>2 DEF ActualizarContexto, sinc
  <2>2. CASE Enviar(t)
    BY <2>2 DEF Enviar, km, sinc
  <2>. QED  BY <1>4, <2>1, <2>2 DEF Despachar
<1>5. CASE \E x \in timers : VencerQuantum(x)
  BY <1>5 DEF VencerQuantum, km, sinc
<1>6. ASSUME NEW c \in Cpus, AtenderCpu(c) PROVE TypeKM'
  <2>1. CASE RegistrarCpu(c) \/ PostearCpu(c) \/ LiberarCpu(c) \/ Recibir(c)
             \/ AnotarEspera(c) \/ ExecAReady(c) \/ ExecAExit(c) \/ ExecABlock(c)
             \/ CrearProceso(c)
    BY <2>1 DEF RegistrarCpu, PostearCpu, LiberarCpu, Recibir, AnotarEspera, ExecAReady,
                ExecAExit, ExecABlock, CrearProceso, km, sinc
  <2>2. CASE FinalizarProcesoKM(c)
    <3>1. <<>> \in Seq(Pedidos)
      BY EmptySeq
    <3>. QED  BY <2>2, <3>1 DEF FinalizarProcesoKM, sinc
  <2>3. CASE EliminarSegmento(c)
    <3>. DEFINE p == loc[HiloCpu(c)].pid
                suyos == {i \in DOMAIN segmentos[p] :
                            segmentos[p][i].seg = loc[HiloCpu(c)].inst.a}
    <3>1. CASE suyos = {}
      BY <2>3, <3>1 DEF EliminarSegmento, sinc
    <3>2. CASE suyos # {}
      <4>1. p \in Pids
        BY HilosDistintos DEF TypeHilos, Locales
      <4>2. segmentos[p] \in Seq(Pedidos)
        BY <4>1
      <4>3. suyos \subseteq 1 .. Len(segmentos[p]) /\ suyos \subseteq Nat
        BY <4>2, LenProperties
      <4>4. Min(suyos) \in suyos
        <5>. HIDE DEF suyos
        <5>. QED  BY <3>2, <4>3, MinEsElemento
      <4>5. RemoveAt(segmentos[p], Min(suyos)) \in Seq(Pedidos)
        <5>. HIDE DEF suyos, p
        <5>. QED  BY <4>2, <4>3, <4>4, RemoveAtEsSeq
      <4>6. segmentos' = [segmentos EXCEPT ![p] = RemoveAt(@, Min(suyos))]
            /\ UNCHANGED <<contexto_km, sticks, sinc>>
        BY <2>3, <3>2 DEF EliminarSegmento
      <4>. HIDE DEF suyos, p
      <4>. QED  BY <4>5, <4>6 DEF sinc
    <3>. QED  BY <3>1, <3>2
  <2>. QED  BY <1>6, <2>1, <2>2, <2>3 DEF AtenderCpu
<1>7. CASE \E t \in HilosIO : TerminarIO(t)
  BY <1>7 DEF TerminarIO, km, sinc
<1>8. ASSUME NEW t \in HilosMemoria, CrearSegmento(t) \/ Compactacion(t) PROVE TypeKM'
  <2>1. CASE CrearOK(t) \/ Compactar(t)
    <3>1. t \in Hilos /\ (EnEvento(t) => loc[t].resto # <<>>)
      BY <2>1, HilosDistintos DEF CrearOK, PideSegmento, Compactar, InvEvento, ConEvento,
         ConPedido
    <3>2. ConSegmento(Pedido(t)) \in [Pids -> Seq(Pedidos)]
      BY <3>1, PedidoTipo, ConSegmentoTipo
    <3>. QED  BY <2>1, <3>2 DEF CrearOK, Compactar, sinc
  <2>2. CASE CrearError(t) \/ CrearCompacta(t) \/ PausarPlanificacion(t)
             \/ InterrumpirParaCompactar(t) \/ ReanudarPlanificacion(t)
    BY <2>2 DEF CrearError, CrearCompacta, PausarPlanificacion, InterrumpirParaCompactar,
       ReanudarPlanificacion, km, sinc
  <2>. QED  BY <1>8, <2>1, <2>2 DEF CrearSegmento, Compactacion
<1>9. ASSUME NEW t \in HilosMemoria, EventoMemoria(t) PROVE TypeKM'
  BY <1>9 DEF EventoMemoria, TomarEvento, Satisfacer, SoltarEvento, km, sinc
<1>10. CASE NuevoStick
  BY <1>10 DEF NuevoStick, sinc
<1>11. ASSUME NEW c \in Cpus, ProgramaCpu(c) PROVE TypeKM'
  BY <1>11 DEF ProgramaCpu, CpuRecibe, FallarFetch, EjecutarComun, EjecutarSyscall, km, sinc
<1>12. CASE UNCHANGED vars
  BY <1>12 DEF vars, km, sinc
<1>. QED  BY <1>1, <1>2, <1>3, <1>4, <1>5, <1>6, <1>7, <1>8, <1>9, <1>10, <1>11, <1>12 DEF Next

LEMMA IrTipo ==
  ASSUME pc \in [Hilos -> Lugares], NEW t, NEW e \in Lugares, Ir(t, e)
  PROVE  pc' \in [Hilos -> Lugares]
BY DEF Ir

\* Where a thread goes next is always a place.
LEMMA TrasTipo ==
  ASSUME NEW t
  PROVE  /\ TrasEncolar(t) \in Lugares /\ TrasDespachar(t) \in Lugares
         /\ TrasCrear(t) \in Lugares /\ \A m : TrasRecibir(m) \in Lugares
<1>1. TrasEncolar(t) \in Lugares
  <2>1. TrasEncolar(t) \in {"reintenta", "espera_new", "espera_ready", "inactivo", "libera_cpu"}
    BY DEF TrasEncolar
  <2>. QED  BY <2>1 DEF Lugares
<1>2. \A m : TrasRecibir(m) \in {"vuelve_ready", "sale", "bloquea_io", "crea_proceso",
                                 "crea_segmento", "elimina_segmento"}
  BY DEF TrasRecibir
<1>. QED  BY <1>1, <1>2 DEF TrasDespachar, TrasCrear, Lugares

LEMMA LocInicialTipo ==
  /\ LocInicial \in Locales
  /\ \A p \in Pids : [LocInicial EXCEPT !.pid = p] \in Locales
<1>1. InstNula \in Instruccion /\ <<>> \in Seq(Pedidos)
  BY EmptySeq DEF InstNula, Instruccion, Operaciones
<1>. QED  BY <1>1, PidsConCero DEF LocInicial, Locales

\* Assigning to a thread one of its variables, within its type.
LEMMA CampoTipo ==
  ASSUME loc \in [Hilos -> Locales], NEW t
  PROVE  /\ \A v \in Cpus : [loc EXCEPT ![t].cpu = v] \in [Hilos -> Locales]
         /\ \A v \in Pids \cup {SinVictima} : [loc EXCEPT ![t].victima = v] \in [Hilos -> Locales]
         /\ \A v \in BOOLEAN : [loc EXCEPT ![t].frente = v] \in [Hilos -> Locales]
         /\ \A v \in BOOLEAN : [loc EXCEPT ![t].evento = v] \in [Hilos -> Locales]
         /\ \A v \in {"recv", "libera_cpu"} : [loc EXCEPT ![t].tras = v] \in [Hilos -> Locales]
         /\ \A v \in Seq(Pedidos) : [loc EXCEPT ![t].resto = v] \in [Hilos -> Locales]
<1>1. ASSUME NEW v \in Cpus PROVE [loc EXCEPT ![t].cpu = v] \in [Hilos -> Locales]
  <2>1. ASSUME t \in Hilos PROVE [loc[t] EXCEPT !.cpu = v] \in Locales
    BY <1>1, <2>1 DEF Locales
  <2>. QED  BY <2>1
<1>2. ASSUME NEW v \in Pids \cup {SinVictima} PROVE [loc EXCEPT ![t].victima = v] \in [Hilos -> Locales]
  <2>1. ASSUME t \in Hilos PROVE [loc[t] EXCEPT !.victima = v] \in Locales
    BY <1>2, <2>1 DEF Locales
  <2>. QED  BY <2>1
<1>3. ASSUME NEW v \in BOOLEAN PROVE [loc EXCEPT ![t].frente = v] \in [Hilos -> Locales]
  <2>1. ASSUME t \in Hilos PROVE [loc[t] EXCEPT !.frente = v] \in Locales
    BY <1>3, <2>1 DEF Locales
  <2>. QED  BY <2>1
<1>4. ASSUME NEW v \in BOOLEAN PROVE [loc EXCEPT ![t].evento = v] \in [Hilos -> Locales]
  <2>1. ASSUME t \in Hilos PROVE [loc[t] EXCEPT !.evento = v] \in Locales
    BY <1>4, <2>1 DEF Locales
  <2>. QED  BY <2>1
<1>5. ASSUME NEW v \in {"recv", "libera_cpu"} PROVE [loc EXCEPT ![t].tras = v] \in [Hilos -> Locales]
  <2>1. ASSUME t \in Hilos PROVE [loc[t] EXCEPT !.tras = v] \in Locales
    BY <1>5, <2>1 DEF Locales
  <2>. QED  BY <2>1
<1>6. ASSUME NEW v \in Seq(Pedidos) PROVE [loc EXCEPT ![t].resto = v] \in [Hilos -> Locales]
  <2>1. ASSUME t \in Hilos PROVE [loc[t] EXCEPT !.resto = v] \in Locales
    BY <1>6, <2>1 DEF Locales
  <2>. QED  BY <2>1
<1>. QED  BY <1>1, <1>2, <1>3, <1>4, <1>5, <1>6

LEMMA PasoHilos ==
  ASSUME InvTipos, [Next]_vars
  PROVE  TypeHilos'
<1>. USE DEF InvTipos, TypeOK
<1>. HIDE DEF InvEvento, InvDespacho
<1>p. pc \in [Hilos -> Lugares] /\ loc \in [Hilos -> Locales]
      /\ \A t \in Hilos : loc[t].pid \in Pids
  BY DEF TypeHilos, Locales
<1>1. ASSUME NEW t \in Hilos, EncolarEnReady(t) PROVE TypeHilos'
  <2>1. CASE Encolar(t)
    <3>1. pc' \in [Hilos -> Lugares]
      BY <1>p, <2>1, "postea_ready" \in Lugares, IrTipo DEF Encolar, Lugares
    <3>. QED  BY <1>p, <2>1, <3>1 DEF Encolar, TypeHilos
  <2>2. CASE PostearReady(t)
    <3>. DEFINE e == IF EsCMN /\ QueuePreemption /\ ~loc[t].frente
                     THEN "busca_victima" ELSE TrasEncolar(t)
    <3>1. e \in Lugares
      BY TrasTipo DEF Lugares
    <3>2. Ir(t, e) /\ UNCHANGED loc
      BY <2>2 DEF PostearReady
    <3>. HIDE DEF e
    <3>. QED  BY <1>p, <3>1, <3>2, IrTipo DEF TypeHilos
  <2>3. CASE BuscarVictima(t)
    <3>. DEFINE v == Victima(loc[t].pid)
                e == IF v = SinVictima THEN TrasEncolar(t) ELSE "desaloja"
    <3>1. v \in Pids \cup {SinVictima}
      <4>1. CASE v = SinVictima
        BY <4>1
      <4>2. CASE v # SinVictima
        <5>1. PICK k \in DOMAIN lista_exec : v = lista_exec[k]
          BY <1>p, <4>2, VictimaEsPeor DEF TypeColas, TypePcbs
        <5>. QED  BY <5>1, ElementOfSeq, LenProperties DEF TypeColas
      <4>. QED  BY <4>1, <4>2
    <3>2. e \in Lugares
      BY TrasTipo DEF Lugares
    <3>3. Ir(t, e) /\ loc' = [loc EXCEPT ![t].victima = v]
      BY <2>3 DEF BuscarVictima
    <3>. HIDE DEF e, v
    <3>4. pc' \in [Hilos -> Lugares]
      BY <1>p, <3>2, <3>3, IrTipo
    <3>5. loc' \in [Hilos -> Locales]
      BY <1>p, <3>1, <3>3, CampoTipo
    <3>. QED  BY <3>4, <3>5 DEF TypeHilos
  <2>4. CASE Desalojar(t)
    <3>1. pc' \in [Hilos -> Lugares]
      BY <1>p, <2>4, TrasTipo, IrTipo DEF Desalojar
    <3>2. loc' \in [Hilos -> Locales]
      BY <1>p, <2>4, ZenonT(60) DEF Desalojar, Locales
    <3>. QED  BY <3>1, <3>2 DEF TypeHilos
  <2>. QED  BY <1>1, <2>1, <2>2, <2>3, <2>4 DEF EncolarEnReady
<1>2. CASE AdmitirNew
  <2>1. Head(cola_new) \in Pids
    BY <1>2, HeadTailProperties DEF AdmitirNew, TypeColas
  <2>2. loc' \in [Hilos -> Locales]
    BY <1>p, <1>2, <2>1, LocInicialTipo DEF AdmitirNew
  <2>3. pc' \in [Hilos -> Lugares]
    BY <1>p, <1>2, "encola" \in Lugares, IrTipo DEF AdmitirNew, Lugares
  <2>. QED  BY <2>2, <2>3 DEF TypeHilos
<1>3. CASE CortoPlazo
  <2>1. CASE EsperarReady \/ EsperarCpu
    BY <1>p, <2>1 DEF EsperarReady, EsperarCpu, Ir, Lugares, TypeHilos
  <2>2. CASE Desencolar
    <3>. DEFINE q == Min(ColasConProcesos)
    <3>1. CASE ColasConProcesos = {}
      BY <1>p, <2>2, <3>1 DEF Desencolar, Ir, Lugares, TypeHilos
    <3>2. CASE ColasConProcesos # {}
      <4>1. ColasConProcesos \subseteq Nat
        BY DEF ColasConProcesos
      <4>2. q \in ColasConProcesos
        BY <3>2, <4>1, MinEsElemento
      <4>3. Head(colas_ready[q]) \in Pids
        BY <4>2, HeadTailProperties DEF ColasConProcesos, TypeColas
      <4>4. /\ loc' = [loc EXCEPT ![HiloCP] = [LocInicial EXCEPT !.pid = Head(colas_ready[q])]]
            /\ Ir(HiloCP, "a_exec")
        BY <2>2, <3>2 DEF Desencolar
      <4>. HIDE DEF q
      <4>5. loc' \in [Hilos -> Locales]
        BY <1>p, <4>3, <4>4, LocInicialTipo
      <4>. QED  BY <1>p, <4>4, <4>5 DEF Ir, Lugares, TypeHilos
    <3>. QED  BY <3>1, <3>2
  <2>3. CASE PasarAExec
    <3>. DEFINE libres == {i \in DOMAIN cpus_conectadas : cpu[cpus_conectadas[i]].libre}
    <3>1. CASE libres = {}
      <4>1. loc' \in [Hilos -> Locales]
        <5>1. loc' = [loc EXCEPT ![HiloCP].frente = TRUE]
          BY <2>3, <3>1 DEF PasarAExec
        <5>. QED  BY <1>p, <5>1, CampoTipo
      <4>2. Ir(HiloCP, "encola")
        BY <2>3, <3>1 DEF PasarAExec
      <4>. QED  BY <1>p, <4>1, <4>2 DEF Ir, Lugares, TypeHilos
    <3>2. CASE libres # {}
      <4>1. libres \subseteq 1 .. Len(cpus_conectadas) /\ libres \subseteq Nat
        <5>1. cpus_conectadas \in Seq(Cpus)
          BY DEF TypeCpus
        <5>2. DOMAIN cpus_conectadas = 1 .. Len(cpus_conectadas)
          BY ONLY <5>1, LenProperties
        <5>. QED  BY ONLY <5>2
      <4>2. Min(libres) \in libres
        <5>. HIDE DEF libres
        <5>. QED  BY <3>2, <4>1, MinEsElemento
      <4>3. /\ loc' = [loc EXCEPT ![HiloCP].cpu = cpus_conectadas[Min(libres)]]
            /\ Ir(HiloCP, "contexto")
        BY <2>3, <3>2 DEF PasarAExec
      <4>. HIDE DEF libres
      <4>4. cpus_conectadas[Min(libres)] \in Cpus
        BY <4>1, <4>2, ElementOfSeq DEF TypeCpus
      <4>5. loc' \in [Hilos -> Locales]
        BY <1>p, <4>3, <4>4, CampoTipo
      <4>. QED  BY <1>p, <4>3, <4>5 DEF Ir, Lugares, TypeHilos
    <3>. QED  BY <3>1, <3>2
  <2>. QED  BY <1>3, <2>1, <2>2, <2>3 DEF CortoPlazo
<1>4. ASSUME NEW t \in {HiloCP} \cup HilosCpu, Despachar(t) PROVE TypeHilos'
  <2>1. CASE ActualizarContexto(t)
    BY <1>p, <2>1 DEF ActualizarContexto, Ir, Lugares, TypeHilos
  <2>2. CASE Enviar(t)
    <3>1. pc' \in [Hilos -> Lugares]
      BY <1>p, <2>2, TrasTipo, IrTipo DEF Enviar
    <3>2. loc' \in [Hilos -> Locales]
      BY <1>p, <2>2, LocInicialTipo DEF Enviar
    <3>. QED  BY <3>1, <3>2 DEF TypeHilos
  <2>. QED  BY <1>4, <2>1, <2>2 DEF Despachar
<1>5. CASE \E x \in timers : VencerQuantum(x)
  BY <1>p, <1>5 DEF VencerQuantum, TypeHilos
<1>6. ASSUME NEW c \in Cpus, AtenderCpu(c) PROVE TypeHilos'
  <2>. DEFINE t == HiloCpu(c)
  <2>t. t \in Hilos
    BY HilosDistintos
  <2>. HIDE DEF t
  <2>1. CASE RegistrarCpu(c) \/ PostearCpu(c) \/ ExecAReady(c) \/ ExecAExit(c)
             \/ AnotarEspera(c) \/ CrearProceso(c)
    BY <1>p, <2>1, <2>t DEF RegistrarCpu, PostearCpu, ExecAReady, ExecAExit, AnotarEspera,
       CrearProceso, Ir, Lugares, TypeHilos
  <2>2. CASE Recibir(c)
    <3>. DEFINE m == Head(red_ks[c])
    <3>1. m \in MensajesKS
      BY <2>2, HeadTailProperties DEF Recibir, TypeCpus
    <3>2. m.inst \in Instruccion /\ cpu[c].pid \in Pids
      BY <3>1 DEF MensajesKS, TypeCpus
    <3>3. pc' \in [Hilos -> Lugares]
      BY <1>p, <2>2, TrasTipo, IrTipo DEF Recibir
    <3>. DEFINE f == m.tipo = "INTERRUPCION" /\ cpu[c].motivo = "COMPACTACION"
                l == [LocInicial EXCEPT !.pid = cpu[c].pid, !.inst = m.inst, !.frente = f]
    <3>4. l \in Locales
      <4>1. f \in BOOLEAN
        OBVIOUS
      <4>. HIDE DEF f, m
      <4>. QED  BY <3>2, <4>1, LocInicialTipo DEF Locales
    <3>5. loc' = [loc EXCEPT ![t] = l]
      BY <2>2 DEF Recibir, t
    <3>. HIDE DEF l
    <3>. QED  BY <1>p, <3>3, <3>4, <3>5 DEF TypeHilos
  <2>3. CASE LiberarCpu(c)
    <3>1. loc' \in [Hilos -> Locales]
      BY <1>p, <2>3, LocInicialTipo DEF LiberarCpu
    <3>. QED  BY <1>p, <2>3, <3>1 DEF LiberarCpu, Ir, Lugares, TypeHilos
  <2>4. CASE FinalizarProcesoKM(c)
    <3>1. loc' \in [Hilos -> Locales]
      BY <1>p, <2>4, CampoTipo DEF FinalizarProcesoKM
    <3>. QED  BY <1>p, <2>4, <3>1 DEF FinalizarProcesoKM, Ir, Lugares, TypeHilos
  <2>5. CASE ExecABlock(c)
    <3>1. pc' \in [Hilos -> Lugares]
      BY <1>p, <2>5 DEF ExecABlock, Ir, Lugares
    <3>. QED  BY <1>p, <2>5, <3>1 DEF ExecABlock, TypeHilos
  <2>6. CASE EliminarSegmento(c)
    <3>. DEFINE suyos == {i \in DOMAIN segmentos[loc[t].pid] :
                            segmentos[loc[t].pid][i].seg = loc[t].inst.a}
                b == suyos # {}
    <3>1. loc' = [loc EXCEPT ![t].evento = b] /\ Ir(t, "contexto")
      BY <2>6 DEF EliminarSegmento, t
    <3>2. b \in BOOLEAN
      OBVIOUS
    <3>. HIDE DEF b
    <3>3. loc' \in [Hilos -> Locales]
      BY <1>p, <3>1, <3>2, CampoTipo
    <3>. QED  BY <1>p, <3>1, <3>3 DEF Ir, Lugares, TypeHilos
  <2>. QED  BY <1>6, <2>1, <2>2, <2>3, <2>4, <2>5, <2>6 DEF AtenderCpu
<1>7. ASSUME NEW t \in HilosIO, TerminarIO(t) PROVE TypeHilos'
  <2>1. t[2] \in Pids /\ loc' = [loc EXCEPT ![t].pid = t[2]]
    BY <1>7, HilosDistintos DEF TerminarIO
  <2>2. loc' \in [Hilos -> Locales]
    BY <1>p, <2>1, ZenonT(60) DEF Locales
  <2>. QED  BY <1>p, <1>7, <2>2 DEF TerminarIO, Ir, Lugares, TypeHilos
<1>8. ASSUME NEW t \in HilosMemoria, CrearSegmento(t) \/ Compactacion(t) PROVE TypeHilos'
  <2>t. t \in Hilos
    BY HilosDistintos
  <2>1. CASE CrearOK(t) \/ Compactar(t)
    <3>1. pc' \in [Hilos -> Lugares]
      BY <1>p, <2>1, TrasTipo, IrTipo, "reanuda" \in Lugares DEF CrearOK, Compactar, Lugares
    <3>. QED  BY <1>p, <2>1, <3>1 DEF CrearOK, Compactar, TypeHilos
  <2>2. CASE CrearError(t)
    <3>1. CASE EnEvento(t)
      <4>1. loc[t].resto # <<>>
        BY <2>2, <2>t, <3>1 DEF CrearError, PideSegmento, InvEvento, ConEvento
      <4>2. Tail(loc[t].resto) \in Seq(Pedidos)
        BY <1>p, <2>t, <4>1, HeadTailProperties DEF Locales
      <4>3. loc' \in [Hilos -> Locales]
        <5>1. loc' = [loc EXCEPT ![t].resto = Tail(loc[t].resto)]
          BY <2>2, <3>1 DEF CrearError
        <5>. QED  BY <1>p, <4>2, <5>1, CampoTipo
      <4>. QED  BY <1>p, <2>2, <3>1, <4>3 DEF CrearError, Ir, Lugares, TypeHilos
    <3>2. CASE ~ EnEvento(t)
      BY <1>p, <2>2, <3>2 DEF CrearError, Ir, Lugares, TypeHilos
    <3>. QED  BY <3>1, <3>2
  <2>3. CASE CrearCompacta(t) \/ PausarPlanificacion(t)
    BY <1>p, <2>3 DEF CrearCompacta, PausarPlanificacion, Ir, Lugares, TypeHilos
  <2>4. CASE InterrumpirParaCompactar(t)
    BY <1>p, <2>4 DEF InterrumpirParaCompactar, Ir, Lugares, TypeHilos
  <2>5. CASE ReanudarPlanificacion(t)
    <3>1. pc' \in [Hilos -> Lugares]
      BY <1>p, <2>5, TrasTipo, IrTipo DEF ReanudarPlanificacion
    <3>2. loc' \in [Hilos -> Locales]
      <4>. DEFINE b == ~ EnEvento(t)
      <4>1. loc' = [loc EXCEPT ![t].evento = b] /\ b \in BOOLEAN
        BY <2>5 DEF ReanudarPlanificacion
      <4>. HIDE DEF b
      <4>. QED  BY <1>p, <4>1, CampoTipo
    <3>. QED  BY <3>1, <3>2 DEF TypeHilos
  <2>. QED  BY <1>8, <2>1, <2>2, <2>3, <2>4, <2>5 DEF CrearSegmento, Compactacion
<1>9. ASSUME NEW t \in HilosMemoria, EventoMemoria(t) PROVE TypeHilos'
  <2>t. t \in Hilos
    BY HilosDistintos
  <2>1. CASE TomarEvento(t)
    <3>1. loc' \in [Hilos -> Locales]
      BY <1>p, <2>1, CampoTipo DEF TomarEvento, TypeColas
    <3>. QED  BY <1>p, <2>1, <3>1 DEF TomarEvento, Ir, Lugares, TypeHilos
  <2>2. CASE Satisfacer(t)
    <3>1. loc[t].resto # <<>>
      BY <2>2, <2>t DEF Satisfacer, InvEvento, ConPedido
    <3>2. Head(loc[t].resto) \in Pedidos /\ Tail(loc[t].resto) \in Seq(Pedidos)
      BY <1>p, <2>t, <3>1, HeadTailProperties DEF Locales
    <3>3. Head(loc[t].resto).pid \in Pids
      BY <3>2 DEF Pedidos
    <3>. DEFINE l == [loc[t] EXCEPT !.pid = Head(loc[t].resto).pid, !.resto = Tail(@)]
    <3>4. l \in Locales
      BY <1>p, <2>t, <3>2, <3>3 DEF Locales
    <3>5. loc' = [loc EXCEPT ![t] = l]
      BY <2>2 DEF Satisfacer
    <3>. HIDE DEF l
    <3>6. loc' \in [Hilos -> Locales]
      BY <1>p, <3>4, <3>5
    <3>. QED  BY <1>p, <2>2, <3>6 DEF Satisfacer, Ir, Lugares, TypeHilos
  <2>3. CASE SoltarEvento(t)
    <3>. DEFINE e == IF t = HiloNT THEN "inactivo" ELSE loc[t].tras
    <3>1. e \in Lugares
      BY <1>p, <2>t DEF Locales, Lugares
    <3>2. Ir(t, e)
      BY <2>3 DEF SoltarEvento
    <3>. HIDE DEF e
    <3>3. pc' \in [Hilos -> Lugares]
      BY <1>p, <3>1, <3>2, IrTipo
    <3>4. loc' \in [Hilos -> Locales]
      BY <1>p, <2>3, LocInicialTipo DEF SoltarEvento
    <3>. QED  BY <3>3, <3>4 DEF TypeHilos
  <2>. QED  BY <1>9, <2>1, <2>2, <2>3 DEF EventoMemoria
<1>10. CASE NuevoStick
  BY <1>p, <1>10 DEF NuevoStick, Ir, Lugares, TypeHilos
<1>11. ASSUME NEW c \in Cpus, ProgramaCpu(c) PROVE TypeHilos'
  BY <1>p, <1>11 DEF ProgramaCpu, CpuRecibe, FallarFetch, EjecutarComun, EjecutarSyscall,
     TypeHilos
<1>12. CASE UNCHANGED vars
  BY <1>p, <1>12 DEF vars, TypeHilos
<1>. QED  BY <1>1, <1>2, <1>3, <1>4, <1>5, <1>6, <1>7, <1>8, <1>9, <1>10, <1>11, <1>12 DEF Next

\* A step of thread t leaves the other threads where they are.
SoloMueve(t) == \A u \in Hilos \ {t} : pc'[u] = pc[u] /\ loc'[u] = loc[u]

\* InvEvento for one thread
InvEventoDe(u) ==
  /\ EnEvento(u) => pc[u] \in ConEvento
  /\ pc[u] \in {"reintenta", "satisface"} => EnEvento(u)
  /\ EnEvento(u) /\ pc[u] \in ConPedido => loc[u].resto # <<>>

LEMMA EventoAjeno ==
  ASSUME InvEvento, NEW t, UNCHANGED mutex_evento, SoloMueve(t),
         t \in Hilos => InvEventoDe(t)'
  PROVE  InvEvento'
BY DEF InvEvento, InvEventoDe, SoloMueve, EnEvento

\* A thread outside the event that does not enter it disturbs nothing.
LEMMA EventoFuera ==
  ASSUME InvEvento, NEW t, UNCHANGED mutex_evento, SoloMueve(t),
         ~ EnEvento(t), t \in Hilos => pc'[t] \notin {"reintenta", "satisface"}
  PROVE  InvEvento'
BY EventoAjeno DEF InvEventoDe, EnEvento

LEMMA TrasEncolarEvento ==
  ASSUME NEW t
  PROVE  /\ EnEvento(t) => TrasEncolar(t) = "reintenta"
         /\ ~ EnEvento(t) => TrasEncolar(t) \notin {"reintenta", "satisface"}
<1>1. CASE EnEvento(t)
  BY <1>1 DEF TrasEncolar
<1>2. CASE ~ EnEvento(t)
  <2>1. TrasEncolar(t) \in {"espera_new", "espera_ready", "inactivo", "libera_cpu"}
    BY <1>2 DEF TrasEncolar
  <2>. QED  BY <1>2, <2>1
<1>. QED  BY <1>1, <1>2

LEMMA PasoEvento ==
  ASSUME InvTipos, [Next]_vars
  PROVE  InvEvento'
<1>. USE DEF InvTipos, TypeOK
<1>. HIDE DEF InvEvento, InvDespacho
<1>p. pc \in [Hilos -> Lugares] /\ loc \in [Hilos -> Locales]
      /\ mutex_evento \in HilosMemoria \cup {NADIE}
  BY DEF TypeHilos, TypeKM
<1>1. ASSUME NEW t \in Hilos, EncolarEnReady(t) PROVE InvEvento'
  <2>1. SoloMueve(t) /\ UNCHANGED mutex_evento
    BY <1>p, <1>1 DEF EncolarEnReady, Encolar, PostearReady, BuscarVictima, Desalojar, Ir,
       SoloMueve, sinc
  <2>2. pc'[t] \in {"postea_ready", "busca_victima", "desaloja", TrasEncolar(t)}
    <3>1. CASE Encolar(t)
      BY <1>p, <3>1 DEF Encolar, Ir
    <3>2. CASE PostearReady(t)
      BY <1>p, <3>2 DEF PostearReady, Ir
    <3>3. CASE BuscarVictima(t)
      BY <1>p, <3>3 DEF BuscarVictima, Ir
    <3>4. CASE Desalojar(t)
      BY <1>p, <3>4 DEF Desalojar, Ir
    <3>. QED  BY <1>1, <3>1, <3>2, <3>3, <3>4 DEF EncolarEnReady
  <2>3. InvEventoDe(t)'
    BY <2>1, <2>2, TrasEncolarEvento DEF InvEventoDe, EnEvento, ConEvento, ConPedido
  <2>. QED  BY <2>1, <2>3, EventoAjeno
<1>2. CASE AdmitirNew
  BY <1>p, <1>2, EventoFuera, HilosDistintos DEF AdmitirNew, Ir, SoloMueve, EnEvento, sinc
<1>3. CASE CortoPlazo
  <2>1. ~ EnEvento(HiloCP)
    BY <1>p, HilosDistintos DEF EnEvento
  <2>2. SoloMueve(HiloCP) /\ UNCHANGED mutex_evento
    BY <1>p, <1>3 DEF CortoPlazo, EsperarReady, EsperarCpu, Desencolar, PasarAExec,
       Ir, SoloMueve, sinc
  <2>3. pc'[HiloCP] \notin {"reintenta", "satisface"}
    <3>1. CASE EsperarReady \/ EsperarCpu
      BY <1>p, <3>1, HilosDistintos DEF EsperarReady, EsperarCpu, Ir
    <3>2. CASE Desencolar
      BY <1>p, <3>2, HilosDistintos DEF Desencolar, Ir
    <3>3. CASE PasarAExec
      BY <1>p, <3>3, HilosDistintos DEF PasarAExec, Ir
    <3>. QED  BY <1>3, <3>1, <3>2, <3>3 DEF CortoPlazo
  <2>. QED  BY <2>1, <2>2, <2>3, EventoFuera
<1>4. ASSUME NEW t \in {HiloCP} \cup HilosCpu, Despachar(t) PROVE InvEvento'
  <2>t. t \in Hilos
    BY HilosDistintos
  <2>1. ~ EnEvento(t)
    BY <1>4, <2>t DEF Despachar, ActualizarContexto, Enviar, InvEvento, ConEvento
  <2>2. SoloMueve(t) /\ UNCHANGED mutex_evento
    BY <1>p, <1>4 DEF Despachar, ActualizarContexto, Enviar, Ir, SoloMueve, sinc
  <2>3. pc'[t] \in {"envia", TrasDespachar(t)}
    BY <1>p, <1>4, <2>t DEF Despachar, ActualizarContexto, Enviar, Ir
  <2>4. pc'[t] \notin {"reintenta", "satisface"}
    BY <2>3 DEF TrasDespachar
  <2>. QED  BY <2>1, <2>2, <2>4, EventoFuera
<1>5. CASE \E x \in timers : VencerQuantum(x)
  BY <1>5 DEF VencerQuantum, InvEvento, EnEvento, sinc
<1>6. ASSUME NEW c \in Cpus, AtenderCpu(c) PROVE InvEvento'
  <2>. DEFINE t == HiloCpu(c)
  <2>t. t \in Hilos /\ t \notin HilosIO
    BY HilosDistintos, SMTT(40)
  <2>. HIDE DEF t
  <2>1. ~ EnEvento(t)
    BY <1>6, <2>t, SMTT(40) DEF AtenderCpu, RegistrarCpu, PostearCpu, Recibir, LiberarCpu, ExecAReady,
       ExecAExit, FinalizarProcesoKM, ExecABlock, Bloqueo, AnotarEspera, CrearProceso,
       EliminarSegmento, InvEvento, ConEvento, t
  <2>2. UNCHANGED mutex_evento
    BY <1>6 DEF AtenderCpu, RegistrarCpu, PostearCpu, Recibir, LiberarCpu, ExecAReady,
       ExecAExit, FinalizarProcesoKM, ExecABlock, AnotarEspera, CrearProceso,
       EliminarSegmento, sinc
  <2>3. CASE ExecABlock(c)
    <3>1. loc[t].pid \in Pids
      BY <1>p, <2>t DEF Locales
    <3>2. \A u \in Hilos : loc'[u] = loc[u] /\ pc'[u] \in {"libera_cpu", "io", "anota_espera", pc[u]}
      BY <1>p, <2>3 DEF ExecABlock, Ir
    <3>3. \A u \in Hilos : EnEvento(u) => pc'[u] = pc[u]
      BY <1>p, <2>1, <2>3, <3>1, HilosDistintos DEF ExecABlock, Ir, EnEvento, t
    <3>. QED  BY <2>2, <3>2, <3>3 DEF InvEvento, EnEvento
  <2>4. CASE Recibir(c)
    <3>1. SoloMueve(t) /\ pc'[t] \in {TrasRecibir(m) : m \in MensajesKS}
      <4>1. Head(red_ks[c]) \in MensajesKS
        BY <2>4, HeadTailProperties DEF Recibir, TypeCpus
      <4>. QED  BY <1>p, <2>4, <2>t, <4>1 DEF Recibir, Ir, SoloMueve, t
    <3>2. pc'[t] \notin {"reintenta", "satisface"}
      BY <3>1 DEF TrasRecibir
    <3>. QED  BY <2>1, <2>2, <3>1, <3>2, EventoFuera
  <2>5. CASE ~ ExecABlock(c) /\ ~ Recibir(c)
    <3>1. SoloMueve(t)
      BY <1>p, <1>6, <2>5 DEF AtenderCpu, RegistrarCpu, PostearCpu, LiberarCpu, ExecAReady,
         ExecAExit, FinalizarProcesoKM, AnotarEspera, CrearProceso, EliminarSegmento, Ir,
         SoloMueve, t
    <3>2. pc'[t] \notin {"reintenta", "satisface"}
      BY <1>p, <1>6, <2>5, <2>t DEF AtenderCpu, RegistrarCpu, PostearCpu, LiberarCpu,
         ExecAReady, ExecAExit, FinalizarProcesoKM, AnotarEspera, CrearProceso,
         EliminarSegmento, Ir, t
    <3>. QED  BY <2>1, <2>2, <3>1, <3>2, EventoFuera, SMTT(40)
  <2>. QED  BY <2>3, <2>4, <2>5
<1>7. ASSUME NEW t \in HilosIO, TerminarIO(t) PROVE InvEvento'
  <2>1. ~ EnEvento(t)
    BY <1>p, HilosDistintos DEF EnEvento
  <2>. QED  BY <1>p, <1>7, <2>1, EventoFuera DEF TerminarIO, Ir, SoloMueve, sinc
<1>8. ASSUME NEW t \in HilosMemoria, CrearSegmento(t) \/ Compactacion(t) PROVE InvEvento'
  <2>t. t \in Hilos
    BY HilosDistintos
  <2>1. SoloMueve(t) /\ UNCHANGED mutex_evento
    <3>1. CASE CrearSegmento(t)
      BY <1>p, <3>1 DEF CrearSegmento, CrearOK, CrearError, CrearCompacta, Ir, SoloMueve, sinc
    <3>2. CASE Compactacion(t)
      BY <1>p, <3>2 DEF Compactacion, PausarPlanificacion, InterrumpirParaCompactar,
         Compactar, ReanudarPlanificacion, Ir, SoloMueve, sinc
    <3>. QED  BY <1>8, <3>1, <3>2
  <2>2. InvEventoDe(t)
    BY <2>t DEF InvEvento, InvEventoDe
  <2>3. CASE CrearOK(t) \/ ReanudarPlanificacion(t)
    <3>1. pc'[t] = TrasCrear(t) /\ (EnEvento(t) => loc'[t].resto = loc[t].resto)
      <4>1. CASE CrearOK(t)
        BY <1>p, <2>t, <4>1 DEF CrearOK, Ir
      <4>2. CASE ReanudarPlanificacion(t)
        BY <1>p, <2>t, <4>2 DEF ReanudarPlanificacion, Ir, Locales
      <4>. QED  BY <2>3, <4>1, <4>2
    <3>2. EnEvento(t) => loc[t].resto # <<>>
      BY <2>2, <2>3 DEF CrearOK, PideSegmento, ReanudarPlanificacion, InvEventoDe, ConEvento,
         ConPedido
    <3>3. InvEventoDe(t)'
      BY <2>1, <3>1, <3>2 DEF InvEventoDe, EnEvento, TrasCrear, ConEvento, ConPedido
    <3>. QED  BY <2>1, <3>3, EventoAjeno
  <2>4. CASE CrearError(t)
    <3>1. CASE EnEvento(t)
      <4>1. pc'[t] = "reintenta"
        BY <1>p, <2>t, <2>4, <3>1 DEF CrearError, Ir
      <4>2. InvEventoDe(t)'
        BY <2>1, <3>1, <4>1 DEF InvEventoDe, EnEvento, ConEvento, ConPedido
      <4>. QED  BY <2>1, <4>2, EventoAjeno
    <3>2. CASE ~ EnEvento(t)
      <4>1. pc'[t] = "bloquea_memoria"
        BY <1>p, <2>t, <2>4, <3>2 DEF CrearError, Ir
      <4>. QED  BY <2>1, <3>2, <4>1, EventoFuera
    <3>. QED  BY <3>1, <3>2
  <2>5. CASE CrearCompacta(t) \/ PausarPlanificacion(t) \/ InterrumpirParaCompactar(t)
             \/ Compactar(t)
    <3>1. pc'[t] \in {"pausa", "interrumpe", "compacta", "reanuda"} /\ UNCHANGED loc
      <4>1. CASE CrearCompacta(t) \/ PausarPlanificacion(t) \/ Compactar(t)
        BY <1>p, <2>t, <4>1 DEF CrearCompacta, PausarPlanificacion, Compactar, Ir
      <4>2. CASE InterrumpirParaCompactar(t)
        BY <1>p, <2>t, <4>2 DEF InterrumpirParaCompactar, Ir
      <4>. QED  BY <2>5, <4>1, <4>2
    <3>2. EnEvento(t) => loc[t].resto # <<>>
      BY <2>2, <2>5 DEF CrearCompacta, PideSegmento, PausarPlanificacion,
         InterrumpirParaCompactar, Compactar, InvEventoDe, ConEvento, ConPedido
    <3>3. InvEventoDe(t)'
      BY <2>1, <3>1, <3>2 DEF InvEventoDe, EnEvento, ConEvento, ConPedido
    <3>. QED  BY <2>1, <3>3, EventoAjeno
  <2>. QED  BY <1>8, <2>3, <2>4, <2>5 DEF CrearSegmento, Compactacion
<1>9. ASSUME NEW t \in HilosMemoria, EventoMemoria(t) PROVE InvEvento'
  <2>t. t \in Hilos
    BY HilosDistintos
  <2>1. CASE TomarEvento(t)
    <3>1. pc'[t] = "reintenta" /\ mutex_evento = NADIE /\ mutex_evento' = t
          /\ SoloMueve(t)
      BY <1>p, <2>t, <2>1 DEF TomarEvento, Ir, SoloMueve
    <3>2. ASSUME NEW u \in Hilos PROVE InvEventoDe(u)'
      <4>1. CASE u = t
        BY <3>1, <4>1 DEF InvEventoDe, EnEvento, ConEvento, ConPedido
      <4>2. CASE u # t
        BY <3>1, <3>2, <4>2, HilosDistintos DEF InvEvento, InvEventoDe, EnEvento, SoloMueve
      <4>. QED  BY <4>1, <4>2
    <3>. QED  BY <3>2 DEF InvEvento, InvEventoDe
  <2>2. CASE Satisfacer(t)
    <3>1. SoloMueve(t) /\ UNCHANGED mutex_evento /\ pc'[t] = "encola"
      BY <1>p, <2>t, <2>2 DEF Satisfacer, Ir, SoloMueve, sinc
    <3>2. EnEvento(t)
      BY <2>t, <2>2 DEF Satisfacer, InvEvento
    <3>3. InvEventoDe(t)'
      BY <3>1, <3>2 DEF InvEventoDe, EnEvento, ConEvento, ConPedido
    <3>. QED  BY <3>1, <3>3, EventoAjeno
  <2>3. CASE SoltarEvento(t)
    <3>1. SoloMueve(t) /\ mutex_evento' = NADIE
      BY <1>p, <2>t, <2>3 DEF SoltarEvento, Ir, SoloMueve
    <3>2. EnEvento(t)
      BY <2>t, <2>3 DEF SoltarEvento, InvEvento
    <3>3. pc'[t] \in {"inactivo", "recv", "libera_cpu"}
      BY <1>p, <2>t, <2>3 DEF SoltarEvento, Ir, Locales
    <3>4. \A u \in Hilos : u # t => ~ EnEvento(u)
      BY <3>2 DEF EnEvento
    <3>. QED  BY <3>1, <3>3, <3>4, HilosDistintos DEF InvEvento, EnEvento, SoloMueve
  <2>. QED  BY <1>9, <2>1, <2>2, <2>3 DEF EventoMemoria
<1>10. CASE NuevoStick
  <2>1. SoloMueve(HiloNT) /\ UNCHANGED mutex_evento /\ pc'[HiloNT] = "evento"
    BY <1>p, <1>10, HilosDistintos DEF NuevoStick, Ir, SoloMueve, sinc
  <2>2. ~ EnEvento(HiloNT)
    BY <1>10, HilosDistintos DEF NuevoStick, InvEvento, ConEvento
  <2>. QED  BY <2>1, <2>2, EventoFuera
<1>11. ASSUME NEW c \in Cpus, ProgramaCpu(c) PROVE InvEvento'
  BY <1>11 DEF ProgramaCpu, CpuRecibe, FallarFetch, EjecutarComun, EjecutarSyscall,
     InvEvento, EnEvento, sinc
<1>12. CASE UNCHANGED vars
  BY <1>12 DEF vars, InvEvento, EnEvento, sinc
<1>. QED  BY <1>1, <1>2, <1>3, <1>4, <1>5, <1>6, <1>7, <1>8, <1>9, <1>10, <1>11, <1>12 DEF Next

LEMMA PasoDespacho ==
  ASSUME InvTipos, [Next]_vars
  PROVE  InvDespacho'
<1>. USE DEF InvTipos, TypeOK
<1>. HIDE DEF InvEvento, InvDespacho
<1>p. pc \in [Hilos -> Lugares] /\ loc \in [Hilos -> Locales]
  BY DEF TypeHilos
<1>m. ASSUME NEW t, SoloMueve(t), t \notin {HiloCP} \cup HilosCpu
      PROVE InvDespacho'
  BY <1>m, HilosDistintos DEF InvDespacho, SoloMueve
<1>n. ASSUME NEW t \in {HiloCP} \cup HilosCpu, SoloMueve(t),
             pc'[t] \notin {"contexto", "envia", "crea_proceso"}
      PROVE InvDespacho'
  BY <1>n, HilosDistintos DEF InvDespacho, SoloMueve
<1>o. ASSUME NEW t \in HilosCpu, SoloMueve(t), pc'[t] # "crea_proceso"
      PROVE InvDespacho'
  <2>1. HiloCP \in Hilos \ {t}
    BY HilosDistintos DEF HilosMemoria
  <2>. QED  BY <1>o, <2>1, HilosDistintos DEF InvDespacho, SoloMueve
<1>1. ASSUME NEW t \in Hilos, EncolarEnReady(t) PROVE InvDespacho'
  <2>1. SoloMueve(t)
    BY <1>p, <1>1 DEF EncolarEnReady, Encolar, PostearReady, BuscarVictima, Desalojar, Ir,
       SoloMueve
  <2>2. pc'[t] \in {"postea_ready", "busca_victima", "desaloja", TrasEncolar(t)}
    <3>1. CASE Encolar(t)
      BY <1>p, <3>1 DEF Encolar, Ir
    <3>2. CASE PostearReady(t)
      BY <1>p, <3>2 DEF PostearReady, Ir
    <3>3. CASE BuscarVictima(t)
      BY <1>p, <3>3 DEF BuscarVictima, Ir
    <3>4. CASE Desalojar(t)
      BY <1>p, <3>4 DEF Desalojar, Ir
    <3>. QED  BY <1>1, <3>1, <3>2, <3>3, <3>4 DEF EncolarEnReady
  <2>3. TrasEncolar(t) \notin {"contexto", "envia", "crea_proceso"}
    <3>1. TrasEncolar(t) \in {"reintenta", "espera_new", "espera_ready", "inactivo", "libera_cpu"}
      BY DEF TrasEncolar
    <3>. QED  BY <3>1
  <2>4. pc'[t] \notin {"contexto", "envia", "crea_proceso"}
    BY <2>2, <2>3
  <2>. QED  BY <1>m, <1>n, <2>1, <2>4
<1>2. CASE AdmitirNew
  <2>1. SoloMueve(HiloLP)
    BY <1>p, <1>2 DEF AdmitirNew, Ir, SoloMueve
  <2>. QED  BY <1>m, <2>1, HilosDistintos DEF HilosMemoria
<1>3. CASE CortoPlazo
  <2>1. CASE EsperarReady \/ EsperarCpu \/ Desencolar
    <3>1. SoloMueve(HiloCP)
      BY <1>p, <2>1 DEF EsperarReady, EsperarCpu, Desencolar, Ir, SoloMueve
    <3>2. pc'[HiloCP] \notin {"contexto", "envia", "crea_proceso"}
      <4>1. CASE Desencolar
        BY <1>p, <4>1, HilosDistintos DEF Desencolar, Ir
      <4>2. CASE EsperarReady \/ EsperarCpu
        BY <1>p, <4>2, HilosDistintos DEF EsperarReady, EsperarCpu, Ir
      <4>. QED  BY <2>1, <4>1, <4>2
    <3>. QED  BY <1>n, <3>1, <3>2
  <2>2. CASE PasarAExec
    <3>. DEFINE libres == {i \in DOMAIN cpus_conectadas : cpu[cpus_conectadas[i]].libre}
    <3>1. SoloMueve(HiloCP)
      BY <1>p, <2>2 DEF PasarAExec, Ir, SoloMueve
    <3>2. CASE libres = {}
      <4>1. pc'[HiloCP] = "encola"
        BY <1>p, <2>2, <3>2, HilosDistintos DEF PasarAExec, Ir
      <4>. QED  BY <1>n, <3>1, <4>1
    <3>3. CASE libres # {}
      <4>1. libres \subseteq 1 .. Len(cpus_conectadas) /\ libres \subseteq Nat
        <5>1. cpus_conectadas \in Seq(Cpus)
          BY DEF TypeCpus
        <5>2. DOMAIN cpus_conectadas = 1 .. Len(cpus_conectadas)
          BY ONLY <5>1, LenProperties
        <5>. QED  BY ONLY <5>2
      <4>2. Min(libres) \in libres
        <5>. HIDE DEF libres
        <5>. QED  BY <3>3, <4>1, MinEsElemento
      <4>3. loc' = [loc EXCEPT ![HiloCP].cpu = cpus_conectadas[Min(libres)]]
        BY <2>2, <3>3 DEF PasarAExec
      <4>. HIDE DEF libres
      <4>4. cpus_conectadas[Min(libres)] \in Cpus
        BY <4>1, <4>2, ElementOfSeq DEF TypeCpus
      <4>5. loc'[HiloCP].cpu \in Cpus
        BY <1>p, <4>3, <4>4, HilosDistintos DEF Locales
      <4>. QED  BY <3>1, <4>5, HilosDistintos DEF InvDespacho, SoloMueve
    <3>. QED  BY <3>2, <3>3
  <2>. QED  BY <1>3, <2>1, <2>2 DEF CortoPlazo
<1>4. ASSUME NEW t \in {HiloCP} \cup HilosCpu, Despachar(t) PROVE InvDespacho'
  <2>t. t \in Hilos
    BY HilosDistintos
  <2>1. SoloMueve(t)
    BY <1>p, <1>4 DEF Despachar, ActualizarContexto, Enviar, Ir, SoloMueve
  <2>2. CASE ActualizarContexto(t)
    <3>1. pc'[t] = "envia" /\ UNCHANGED loc /\ pc[t] = "contexto"
      BY <1>p, <2>t, <2>2 DEF ActualizarContexto, Ir
    <3>. QED  BY <2>1, <3>1, HilosDistintos DEF InvDespacho, SoloMueve
  <2>3. CASE Enviar(t)
    <3>1. pc'[t] = TrasDespachar(t)
      BY <1>p, <2>t, <2>3 DEF Enviar, Ir
    <3>2. pc'[t] \notin {"contexto", "envia", "crea_proceso"}
      BY <3>1 DEF TrasDespachar
    <3>. QED  BY <1>n, <2>1, <3>2
  <2>. QED  BY <1>4, <2>2, <2>3 DEF Despachar
<1>5. CASE \E x \in timers : VencerQuantum(x)
  BY <1>5 DEF VencerQuantum, InvDespacho
<1>6. ASSUME NEW c \in Cpus, AtenderCpu(c) PROVE InvDespacho'
  <2>. DEFINE t == HiloCpu(c)
  <2>t. t \in Hilos /\ t \in HilosCpu /\ t \notin HilosIO
    BY HilosDistintos
  <2>. HIDE DEF t
  <2>1. CASE ExecABlock(c)
    <3>1. \A u \in Hilos : pc'[u] \in {"libera_cpu", "io", "anota_espera", pc[u]} /\ loc'[u] = loc[u]
      BY <1>p, <2>1 DEF ExecABlock, Ir
    <3>. QED  BY <3>1, HilosDistintos DEF InvDespacho
  <2>2. CASE Recibir(c)
    <3>. DEFINE m == Head(red_ks[c])
                f == m.tipo = "INTERRUPCION" /\ cpu[c].motivo = "COMPACTACION"
                l == [LocInicial EXCEPT !.pid = cpu[c].pid, !.inst = m.inst, !.frente = f]
    <3>1. SoloMueve(t) /\ pc'[t] = TrasRecibir(m) /\ loc'[t] = l
      BY <1>p, <2>t, <2>2 DEF Recibir, Ir, SoloMueve, t
    <3>2. l.inst = m.inst
      BY DEF LocInicial
    <3>3. TrasRecibir(m) = "crea_proceso" => m.inst.op = "INIT_PROC"
      BY DEF TrasRecibir
    <3>4. \A d \in Cpus : HiloCpu(d) \in Hilos /\ HiloCP \in Hilos \ {t}
      BY <2>t, HilosDistintos DEF HilosMemoria
    <3>. HIDE DEF l, m
    <3>. QED  BY <3>1, <3>2, <3>3, <3>4 DEF InvDespacho, SoloMueve
  <2>3. CASE ~ ExecABlock(c) /\ ~ Recibir(c)
    <3>1. SoloMueve(t)
      BY <1>p, <1>6, <2>3, SMTT(40) DEF AtenderCpu, RegistrarCpu, PostearCpu, LiberarCpu, ExecAReady,
         ExecAExit, FinalizarProcesoKM, AnotarEspera, CrearProceso, EliminarSegmento, Ir,
         SoloMueve, t
    <3>2. pc'[t] # "crea_proceso"
      BY <1>p, <1>6, <2>3, <2>t DEF AtenderCpu, RegistrarCpu, PostearCpu, LiberarCpu,
         ExecAReady, ExecAExit, FinalizarProcesoKM, AnotarEspera, CrearProceso,
         EliminarSegmento, Ir, t
    <3>. QED  BY <1>o, <2>t, <3>1, <3>2, SMTT(40)
  <2>. QED  BY <2>1, <2>2, <2>3
<1>7. ASSUME NEW t \in HilosIO, TerminarIO(t) PROVE InvDespacho'
  <2>1. SoloMueve(t)
    BY <1>p, <1>7 DEF TerminarIO, Ir, SoloMueve
  <2>. QED  BY <1>m, <2>1, HilosDistintos DEF HilosMemoria
<1>8. ASSUME NEW t \in HilosMemoria, CrearSegmento(t) \/ Compactacion(t) PROVE InvDespacho'
  <2>t. t \in Hilos
    BY HilosDistintos
  <2>1. SoloMueve(t)
    <3>1. CASE CrearSegmento(t)
      BY <1>p, <3>1 DEF CrearSegmento, CrearOK, CrearError, CrearCompacta, Ir, SoloMueve, sinc
    <3>2. CASE Compactacion(t)
      BY <1>p, <3>2 DEF Compactacion, PausarPlanificacion, InterrumpirParaCompactar,
         Compactar, ReanudarPlanificacion, Ir, SoloMueve, sinc
    <3>. QED  BY <1>8, <3>1, <3>2
  <2>2. pc'[t] # "crea_proceso"
    <3>1. CASE CrearOK(t) \/ ReanudarPlanificacion(t)
      BY <1>p, <2>t, <3>1 DEF CrearOK, ReanudarPlanificacion, TrasCrear, Ir
    <3>2. CASE CrearError(t)
      BY <1>p, <2>t, <3>2 DEF CrearError, Ir
    <3>3. CASE CrearCompacta(t) \/ PausarPlanificacion(t) \/ Compactar(t)
      BY <1>p, <2>t, <3>3 DEF CrearCompacta, PausarPlanificacion, Compactar, Ir
    <3>4. CASE InterrumpirParaCompactar(t)
      BY <1>p, <2>t, <3>4 DEF InterrumpirParaCompactar, Ir
    <3>. QED  BY <1>8, <3>1, <3>2, <3>3, <3>4 DEF CrearSegmento, Compactacion
  <2>. QED  BY <1>m, <1>o, <2>1, <2>2, HilosDistintos DEF HilosMemoria
<1>9. ASSUME NEW t \in HilosMemoria, EventoMemoria(t) PROVE InvDespacho'
  <2>t. t \in Hilos
    BY HilosDistintos
  <2>1. SoloMueve(t)
    BY <1>p, <1>9 DEF EventoMemoria, TomarEvento, Satisfacer, SoltarEvento, Ir, SoloMueve
  <2>2. pc'[t] # "crea_proceso"
    <3>1. CASE TomarEvento(t) \/ Satisfacer(t)
      BY <1>p, <2>t, <3>1 DEF TomarEvento, Satisfacer, Ir
    <3>2. CASE SoltarEvento(t)
      <4>1. loc[t].tras \in {"recv", "libera_cpu"}
        BY <1>p, <2>t DEF Locales
      <4>. QED  BY <1>p, <2>t, <3>2, <4>1 DEF SoltarEvento, Ir
    <3>. QED  BY <1>9, <3>1, <3>2 DEF EventoMemoria
  <2>. QED  BY <1>m, <1>o, <2>1, <2>2, HilosDistintos DEF HilosMemoria
<1>10. CASE NuevoStick
  <2>1. SoloMueve(HiloNT)
    BY <1>p, <1>10 DEF NuevoStick, Ir, SoloMueve
  <2>. QED  BY <1>m, <2>1, HilosDistintos DEF HilosCpu
<1>11. ASSUME NEW c \in Cpus, ProgramaCpu(c) PROVE InvDespacho'
  BY <1>11 DEF ProgramaCpu, CpuRecibe, FallarFetch, EjecutarComun, EjecutarSyscall, InvDespacho
<1>12. CASE UNCHANGED vars
  BY <1>12 DEF vars, InvDespacho
<1>. QED  BY <1>1, <1>2, <1>3, <1>4, <1>5, <1>6, <1>7, <1>8, <1>9, <1>10, <1>11, <1>12 DEF Next

\* For every number of CPUs, processes and queues and for all scripts, every
\* list, CPU record, message and thread of the scheduler stays in its type.
THEOREM TipoCorrecto == Spec => []TypeOK
<1>1. Init => InvTipos
  BY InitTipos
<1>2. InvTipos /\ [Next]_vars => InvTipos'
  BY PasoPcbs, PasoColas, PasoCpus, PasoKM, PasoHilos, PasoEvento, PasoDespacho
     DEF InvTipos, TypeOK
<1>3. InvTipos => TypeOK
  BY DEF InvTipos
<1>. QED  BY <1>1, <1>2, <1>3, PTL DEF Spec

=============================================================================
