-------------------------- MODULE Procesos_proofs --------------------------
(***************************************************************************)
(* Where each process is, and what the semaphores count, for every number  *)
(* of CPUs, processes and queues and all scripts.                          *)
(*                                                                         *)
(* A transition takes a process out of one list in one critical section    *)
(* and puts it in another in a later one, so the invariant follows it      *)
(* through the hands of the threads in between: the queues and the threads *)
(* that hold a READY process, the CPU or the corto plazo that answers for  *)
(* one in EXEC, and the list or the thread that will wake one in BLOCK.    *)
(* Each of the three is a division of the processes of that estado among   *)
(* places (Reparto, of Minimos), and a step moves at most one process in   *)
(* each.  From it follows the count of the semaphores: what is in the      *)
(* lists is what was posted, what is about to be, and what the corto plazo *)
(* has taken and not used.                                                 *)
(***************************************************************************)
EXTENDS Compactacion_proofs

-----------------------------------------------------------------------------
(* The inductive invariant *)

ConEstado(e) == {p \in Pids : estado[p] = e}

\* A list has, once each, the processes of one estado.
ListaDe(s, e) == IsInjective(s) /\ ToSet(s) = ConEstado(e)

InvCreados ==
  /\ \A p \in Pids : estado[p] = "NO_CREADO" <=> p >= proximo_pid
  /\ ListaDe(cola_new, "NEW")

Cola(q) == <<"COLA", q>>
Colas == {Cola(q) : q \in 0 .. CantColas - 1}

\* Who has each READY process: a queue, or the thread that moves it.
EnReady == [x \in Colas \cup Hilos |->
              IF x \in Colas THEN ToSet(colas_ready[x[2]]) ELSE EnMano(x)]

InvReady ==
  /\ \A q \in 0 .. CantColas - 1 : IsInjective(colas_ready[q])
  /\ Reparto(EnReady, ConEstado("READY"))

\* The points of a CPU's thread at which its process is still in EXEC
ConProceso == {"vuelve_ready", "sale", "bloquea_io", "bloquea_memoria", "crea_proceso",
               "crea_segmento", "elimina_segmento", "contexto", "envia",
               "pausa", "interrumpe", "compacta", "reanuda"}

EnManejador(c) == pc[HiloCpu(c)] \in ConProceso /\ ~ EnEvento(HiloCpu(c))

\* CPU c answers for a process in EXEC: in a burst, or with its thread at work.
Tiene(c) == ~ cpu[c].libre /\ (cpu[c].en_rafaga \/ EnManejador(c))

Carga(c) == IF Tiene(c) THEN {cpu[c].pid} ELSE {}

CargaCP == IF pc[HiloCP] \in {"contexto", "envia"} THEN {loc[HiloCP].pid} ELSE {}

\* Who answers for each process in EXEC
EnExec == [t \in {HiloCP} \cup HilosCpu |-> IF t = HiloCP THEN CargaCP ELSE Carga(t[2])]

InvExec == ListaDe(lista_exec, "EXEC") /\ Reparto(EnExec, ConEstado("EXEC"))

LISTA == <<"LISTA", 0>>

PidsEnEspera == {r.pid : r \in ToSet(lista_espera)}

Despierta(t) ==
  IF t \in HilosIO /\ pc[t] = "io" THEN {t[2]}
  ELSE IF t \in HilosCpu /\ pc[t] = "anota_espera" THEN {loc[t].pid} ELSE {}

\* What will wake each process in BLOCK: its pending request, its IO, or the
\* request that the thread of its CPU is about to list.
EnBlock == [x \in {LISTA} \cup Hilos |-> IF x = LISTA THEN PidsEnEspera ELSE Despierta(x)]

InvBlock ==
  /\ cola_block = ConEstado("BLOCK")
  /\ IsInjective(lista_espera)
  /\ \A r, s \in ToSet(lista_espera) : r.pid = s.pid => r = s
  /\ Reparto(EnBlock, ConEstado("BLOCK"))

\* What an event has still to retry is still pending.
InvResto ==
  \A t \in Hilos : EnEvento(t) =>
    IsInjective(loc[t].resto) /\ ToSet(loc[t].resto) \subseteq ToSet(lista_espera)

\* The thread of a CPU knows the process it serves.
InvAtiende ==
  \A c \in Cpus :
    LET t == HiloCpu(c) IN
    pc[t] \in Atendiendo \ {"libera_cpu"} /\ ~ EnEvento(t) => loc[t].pid = cpu[c].pid

InvProcesos == InvCreados /\ InvReady /\ InvExec /\ InvBlock /\ InvResto /\ InvAtiende

-----------------------------------------------------------------------------
(* The steps that change an estado, each that of one process *)

\* Process p goes from estado a to estado b.
Cambia(p, a, b) ==
  /\ p \in Pids /\ estado[p] = a
  /\ estado' = [estado EXCEPT ![p] = b]

LEMMA ConjuntosCambia ==
  ASSUME TypePcbs, NEW p, NEW a, NEW b, a # b, Cambia(p, a, b)
  PROVE  /\ p \in ConEstado(a) /\ p \notin ConEstado(b)
         /\ ConEstado(a)' = ConEstado(a) \ {p}
         /\ ConEstado(b)' = ConEstado(b) \cup {p}
         /\ \A e : e # a /\ e # b => ConEstado(e)' = ConEstado(e)
BY DEF Cambia, ConEstado, TypePcbs

LEMMA ConjuntosIguales ==
  ASSUME UNCHANGED estado, NEW e
  PROVE  ConEstado(e)' = ConEstado(e)
BY DEF ConEstado

\* The process in the hands of thread t is READY; the one of a CPU's thread, in
\* EXEC; the ones that something will wake, in BLOCK.
LEMMA DeManoReady ==
  ASSUME InvReady, NEW t \in Hilos, pc[t] \in {"encola", "a_exec"}
  PROVE  loc[t].pid \in ConEstado("READY") /\ t \in DOMAIN EnReady /\ t \notin Colas
         /\ EnReady[t] = {loc[t].pid}
<1>1. t \notin Colas
  BY DEF Colas, Cola, Hilos, HiloLP, HiloCP, HiloNT, HilosCpu, HiloCpu, HilosIO, HiloIO
<1>. QED  BY <1>1 DEF InvReady, Reparto, EnReady, EnMano

LEMMA DeCargaExec ==
  ASSUME InvExec, NEW c \in Cpus, Tiene(c)
  PROVE  /\ cpu[c].pid \in ConEstado("EXEC") /\ EnExec[HiloCpu(c)] = {cpu[c].pid}
         /\ HiloCpu(c) \in DOMAIN EnExec /\ HiloCpu(c) # HiloCP
<1>1. HiloCpu(c) \in DOMAIN EnExec /\ HiloCpu(c) # HiloCP /\ HiloCpu(c)[2] = c
  BY HilosDistintos DEF EnExec
<1>2. EnExec[HiloCpu(c)] = {cpu[c].pid}
  BY <1>1 DEF EnExec, Carga
<1>. QED  BY <1>1, <1>2 DEF InvExec, Reparto

LEMMA DeDespiertaBlock ==
  ASSUME InvBlock, NEW t \in Hilos
  PROVE  /\ Despierta(t) \subseteq ConEstado("BLOCK") /\ EnBlock[t] = Despierta(t)
         /\ t \in DOMAIN EnBlock /\ t # LISTA
         /\ EnBlock[LISTA] = PidsEnEspera /\ LISTA \in DOMAIN EnBlock
<1>1. t # LISTA
  BY DEF LISTA, Hilos, HiloLP, HiloCP, HiloNT, HilosCpu, HiloCpu, HilosIO, HiloIO
<1>2. EnBlock[t] = Despierta(t) /\ t \in DOMAIN EnBlock
  BY <1>1 DEF EnBlock
<1>. QED  BY <1>1, <1>2 DEF InvBlock, Reparto, EnBlock

LEMMA DeListaBlock ==
  ASSUME InvBlock, NEW r \in ToSet(lista_espera)
  PROVE  r.pid \in ConEstado("BLOCK") /\ r.pid \in PidsEnEspera
<1>1. PidsEnEspera \subseteq ConEstado("BLOCK")
  BY HilosDistintos, DeDespiertaBlock DEF InvBlock, Reparto
<1>. QED  BY <1>1 DEF PidsEnEspera

\* What the thread of a CPU serves, out of the event, is the process of its CPU.
LEMMA EnManejadorTiene ==
  ASSUME InvTipos, InvCompactacion, InvProcesos, NEW c \in Cpus, EnManejador(c)
  PROVE  Tiene(c) /\ Parada(c) /\ loc[HiloCpu(c)].pid = cpu[c].pid
<1>1. pc[HiloCpu(c)] \in Atendiendo \ {"libera_cpu"} /\ ~ EnEvento(HiloCpu(c))
  BY DEF EnManejador, ConProceso, Atendiendo
<1>2. InvAtencion(c)
  BY DEF InvCompactacion
<1>. QED  BY <1>1, <1>2 DEF Tiene, Parada, InvAtencion, InvProcesos, InvAtiende

\* Of the threads that serve a syscall none is inside the memory event.
LEMMA ManejaSinEvento ==
  ASSUME InvTipos, NEW t \in Hilos,
         pc[t] \in {"vuelve_ready", "sale", "bloquea_io", "bloquea_memoria", "crea_proceso",
                    "crea_segmento", "elimina_segmento", "contexto", "envia", "finaliza_km",
                    "libera_cpu", "anota_espera", "recv", "conecta", "postea_cpu", "evento",
                    "io", "inactivo", "espera_new", "espera_ready", "espera_cpu", "desencola",
                    "a_exec"}
  PROVE  ~ EnEvento(t)
BY DEF InvTipos, InvEvento, ConEvento

LEMMA CambiaAdmitir ==
  ASSUME InvTipos, InvProcesos, AdmitirNew
  PROVE  /\ Cambia(Head(cola_new), "NEW", "READY")
         /\ cola_new \in Seq(Pids) /\ cola_new # <<>>
<1>1. cola_new \in Seq(Pids) /\ cola_new # <<>>
  BY DEF InvTipos, TypeOK, TypeColas, AdmitirNew
<1>2. Head(cola_new) \in ConEstado("NEW")
  BY <1>1, CabezaYCola DEF InvProcesos, InvCreados, ListaDe
<1>. QED  BY <1>1, <1>2 DEF Cambia, ConEstado, AdmitirNew

LEMMA CambiaAExec ==
  ASSUME InvTipos, InvProcesos, PasarAExec, pc'[HiloCP] # "encola"
  PROVE  Cambia(loc[HiloCP].pid, "READY", "EXEC")
<1>1. pc[HiloCP] = "a_exec" /\ HiloCP \in Hilos /\ pc \in [Hilos -> Lugares]
  BY HilosDistintos DEF PasarAExec, InvTipos, TypeOK, TypeHilos
<1>2. loc[HiloCP].pid \in ConEstado("READY")
  BY <1>1, DeManoReady DEF InvProcesos
<1>3. estado' = [estado EXCEPT ![loc[HiloCP].pid] = "EXEC"]
  BY <1>1 DEF PasarAExec, Ir
<1>. QED  BY <1>2, <1>3 DEF Cambia, ConEstado

LEMMA CambiaDeExec ==
  ASSUME InvTipos, InvCompactacion, InvProcesos, NEW c \in Cpus,
         ExecAReady(c) \/ ExecAExit(c) \/ ExecABlock(c)
  PROVE  /\ loc[HiloCpu(c)].pid = cpu[c].pid /\ EnManejador(c) /\ Tiene(c)
         /\ ExecAReady(c) => Cambia(cpu[c].pid, "EXEC", "READY")
         /\ ExecAExit(c) => Cambia(cpu[c].pid, "EXEC", "EXIT")
         /\ ExecABlock(c) => Cambia(cpu[c].pid, "EXEC", "BLOCK")
<1>1. pc[HiloCpu(c)] \in {"vuelve_ready", "sale", "bloquea_io", "bloquea_memoria"}
  BY DEF ExecAReady, ExecAExit, ExecABlock, Bloqueo
<1>2. EnManejador(c)
  BY <1>1, ManejaSinEvento, HilosDistintos DEF EnManejador, ConProceso
<1>3. loc[HiloCpu(c)].pid = cpu[c].pid /\ Tiene(c)
  BY <1>2, EnManejadorTiene
<1>4. cpu[c].pid \in ConEstado("EXEC")
  BY <1>3, DeCargaExec DEF InvProcesos
<1>. QED  BY <1>2, <1>3, <1>4 DEF Cambia, ConEstado, ExecAReady, ExecAExit, ExecABlock

LEMMA CambiaIO ==
  ASSUME InvTipos, InvProcesos, NEW t \in HilosIO, TerminarIO(t)
  PROVE  Cambia(t[2], "BLOCK", "READY") /\ Despierta(t) = {t[2]} /\ t \in Hilos
<1>1. t \in Hilos /\ Despierta(t) = {t[2]}
  BY HilosDistintos DEF TerminarIO, Despierta
<1>2. t[2] \in ConEstado("BLOCK")
  BY <1>1, DeDespiertaBlock DEF InvProcesos
<1>. QED  BY <1>1, <1>2 DEF Cambia, ConEstado, TerminarIO, BlockAReady

LEMMA CambiaSatisfacer ==
  ASSUME InvTipos, InvProcesos, NEW t \in HilosMemoria, Satisfacer(t)
  PROVE  LET q == Head(loc[t].resto) IN
         /\ Cambia(q.pid, "BLOCK", "READY")
         /\ EnEvento(t) /\ t \in Hilos /\ loc[t].resto \in Seq(Pedidos) /\ loc[t].resto # <<>>
         /\ q \in ToSet(lista_espera) /\ q \in ToSet(loc[t].resto)
<1>1. t \in Hilos /\ pc[t] = "satisface"
  BY HilosDistintos DEF Satisfacer
<1>2. EnEvento(t) /\ loc[t].resto # <<>>
  BY <1>1 DEF InvTipos, InvEvento, ConPedido
<1>3. loc[t].resto \in Seq(Pedidos)
  BY <1>1 DEF InvTipos, TypeOK, TypeHilos, Locales
<1>4. Head(loc[t].resto) \in ToSet(loc[t].resto)
  BY <1>2, <1>3, CabezaYCola
<1>5. Head(loc[t].resto) \in ToSet(lista_espera)
  BY <1>1, <1>2, <1>4 DEF InvProcesos, InvResto
<1>6. Head(loc[t].resto).pid \in ConEstado("BLOCK")
  BY <1>5, DeListaBlock DEF InvProcesos
<1>. QED  BY <1>1, <1>2, <1>3, <1>4, <1>5, <1>6
          DEF Cambia, ConEstado, Satisfacer, BlockAReady

LEMMA CambiaCrear ==
  ASSUME InvTipos, InvProcesos, NEW c \in Cpus, CrearProceso(c)
  PROVE  \/ /\ Cambia(proximo_pid, "NO_CREADO", "NEW")
            /\ cola_new' = Append(cola_new, proximo_pid) /\ proximo_pid' = proximo_pid + 1
         \/ UNCHANGED <<estado, cola_new, proximo_pid>>
<1>1. CASE PrioridadValida(loc[HiloCpu(c)].inst.b)
  <2>1. proximo_pid \in Pids
    BY <1>1, ConstantesOK DEF CrearProceso, InvTipos, TypeOK, TypePcbs, Pids
  <2>2. estado[proximo_pid] = "NO_CREADO"
    BY <2>1, PidsConCero DEF InvProcesos, InvCreados
  <2>. QED  BY <1>1, <2>1, <2>2 DEF CrearProceso, Cambia
<1>2. CASE ~ PrioridadValida(loc[HiloCpu(c)].inst.b)
  BY <1>2 DEF CrearProceso
<1>. QED  BY <1>1, <1>2

LEMMA PasosDeEstado ==
  ASSUME [Next]_vars
  PROVE  \/ UNCHANGED <<estado, proximo_pid, cola_new, lista_exec, cola_block>>
         \/ AdmitirNew \/ PasarAExec
         \/ \E c \in Cpus : ExecAReady(c) \/ ExecAExit(c) \/ ExecABlock(c) \/ CrearProceso(c)
         \/ \E t \in HilosIO : TerminarIO(t)
         \/ \E t \in HilosMemoria : Satisfacer(t)
<1>1. ASSUME NEW t \in Hilos, EncolarEnReady(t)
      PROVE  UNCHANGED <<estado, proximo_pid, cola_new, lista_exec, cola_block>>
  BY <1>1 DEF EncolarEnReady, Encolar, PostearReady, BuscarVictima, Desalojar, pcbs, colas
<1>2. CASE CortoPlazo
  BY <1>2 DEF CortoPlazo, EsperarReady, EsperarCpu, Desencolar, pcbs, colas
<1>3. ASSUME NEW t \in {HiloCP} \cup HilosCpu, Despachar(t)
      PROVE  UNCHANGED <<estado, proximo_pid, cola_new, lista_exec, cola_block>>
  BY <1>3 DEF Despachar, ActualizarContexto, Enviar, pcbs, colas
<1>4. ASSUME NEW x \in timers, VencerQuantum(x)
      PROVE  UNCHANGED <<estado, proximo_pid, cola_new, lista_exec, cola_block>>
  BY <1>4, SMTT(40) DEF VencerQuantum, pcbs, colas
<1>5. ASSUME NEW c \in Cpus, AtenderCpu(c), ~ ExecAReady(c), ~ ExecAExit(c), ~ ExecABlock(c),
             ~ CrearProceso(c)
      PROVE  UNCHANGED <<estado, proximo_pid, cola_new, lista_exec, cola_block>>
  BY <1>5 DEF AtenderCpu, RegistrarCpu, PostearCpu, Recibir, LiberarCpu, FinalizarProcesoKM,
     AnotarEspera, EliminarSegmento, pcbs, colas
<1>6. ASSUME NEW t \in HilosMemoria, CrearSegmento(t) \/ Compactacion(t)
      PROVE  UNCHANGED <<estado, proximo_pid, cola_new, lista_exec, cola_block>>
  BY <1>6 DEF CrearSegmento, CrearOK, CrearError, CrearCompacta, Compactacion,
     PausarPlanificacion, InterrumpirParaCompactar, Compactar, ReanudarPlanificacion, pcbs, colas
<1>7. ASSUME NEW t \in HilosMemoria, TomarEvento(t) \/ SoltarEvento(t)
      PROVE  UNCHANGED <<estado, proximo_pid, cola_new, lista_exec, cola_block>>
  BY <1>7 DEF TomarEvento, SoltarEvento, pcbs, colas
<1>8. NuevoStick => UNCHANGED <<estado, proximo_pid, cola_new, lista_exec, cola_block>>
  BY DEF NuevoStick, pcbs, colas
<1>9. ASSUME NEW c \in Cpus, ProgramaCpu(c)
      PROVE  UNCHANGED <<estado, proximo_pid, cola_new, lista_exec, cola_block>>
  BY <1>9 DEF ProgramaCpu, CpuRecibe, FallarFetch, EjecutarComun, EjecutarSyscall, pcbs, colas
<1>10. UNCHANGED vars => UNCHANGED <<estado, proximo_pid, cola_new, lista_exec, cola_block>>
  BY DEF vars, pcbs, colas
<1>. QED  BY <1>1, <1>2, <1>3, <1>4, <1>5, <1>6, <1>7, <1>8, <1>9, <1>10
          DEF Next, EventoMemoria

LEMMA PasosDeColas ==
  ASSUME [Next]_vars
  PROVE  UNCHANGED colas_ready \/ (\E t \in Hilos : Encolar(t)) \/ Desencolar
<1>1. ASSUME NEW t \in Hilos, EncolarEnReady(t), ~ Encolar(t) PROVE UNCHANGED colas_ready
  BY <1>1 DEF EncolarEnReady, PostearReady, BuscarVictima, Desalojar, colas
<1>2. CortoPlazo => Desencolar \/ UNCHANGED colas_ready
  BY DEF CortoPlazo, EsperarReady, EsperarCpu, PasarAExec, colas
<1>3. ASSUME NEW t \in {HiloCP} \cup HilosCpu, Despachar(t) PROVE UNCHANGED colas_ready
  BY <1>3 DEF Despachar, ActualizarContexto, Enviar, colas
<1>4. ASSUME NEW x \in timers, VencerQuantum(x) PROVE UNCHANGED colas_ready
  BY <1>4, SMTT(40) DEF VencerQuantum, colas
<1>5. ASSUME NEW c \in Cpus, AtenderCpu(c) PROVE UNCHANGED colas_ready
  BY <1>5 DEF AtenderCpu, RegistrarCpu, PostearCpu, Recibir, LiberarCpu, FinalizarProcesoKM,
     AnotarEspera, EliminarSegmento, ExecAReady, ExecAExit, ExecABlock, CrearProceso, colas
<1>6. ASSUME NEW t \in HilosMemoria, CrearSegmento(t) \/ Compactacion(t) \/ EventoMemoria(t)
      PROVE  UNCHANGED colas_ready
  BY <1>6 DEF CrearSegmento, CrearOK, CrearError, CrearCompacta, Compactacion,
     PausarPlanificacion, InterrumpirParaCompactar, Compactar, ReanudarPlanificacion,
     EventoMemoria, TomarEvento, Satisfacer, SoltarEvento, colas
<1>7. ASSUME NEW t \in HilosIO, TerminarIO(t) PROVE UNCHANGED colas_ready
  BY <1>7 DEF TerminarIO
<1>8. NuevoStick \/ AdmitirNew => UNCHANGED colas_ready
  BY DEF NuevoStick, AdmitirNew, colas
<1>9. ASSUME NEW c \in Cpus, ProgramaCpu(c) PROVE UNCHANGED colas_ready
  BY <1>9 DEF ProgramaCpu, CpuRecibe, FallarFetch, EjecutarComun, EjecutarSyscall, colas
<1>10. UNCHANGED vars => UNCHANGED colas_ready
  BY DEF vars, colas
<1>. QED  BY <1>1, <1>2, <1>3, <1>4, <1>5, <1>6, <1>7, <1>8, <1>9, <1>10 DEF Next

\* The steps that move a single thread and matter to where processes are.
LEMMA MueveUno ==
  ASSUME InvTipos
  PROVE  /\ \A t \in Hilos : Encolar(t) => SoloMueve(t)
         /\ AdmitirNew => SoloMueve(HiloLP)
         /\ Desencolar \/ PasarAExec => SoloMueve(HiloCP)
         /\ \A t \in {HiloCP} \cup HilosCpu : Enviar(t) => SoloMueve(t)
         /\ \A c \in Cpus : ExecAReady(c) \/ ExecAExit(c) \/ CrearProceso(c) \/ AnotarEspera(c)
              => SoloMueve(HiloCpu(c))
         /\ \A t \in HilosIO : TerminarIO(t) => SoloMueve(t)
         /\ \A t \in HilosMemoria : Satisfacer(t) => SoloMueve(t)
<1>. USE DEF SoloMueve, Ir
<1>p. pc \in [Hilos -> Lugares] /\ loc \in [Hilos -> Locales]
  BY DEF InvTipos, TypeOK, TypeHilos
<1>1. \A t \in Hilos : Encolar(t) => SoloMueve(t)
  BY <1>p DEF Encolar
<1>2. AdmitirNew => SoloMueve(HiloLP)
  BY <1>p DEF AdmitirNew
<1>3. Desencolar \/ PasarAExec => SoloMueve(HiloCP)
  BY <1>p DEF Desencolar, PasarAExec
<1>4. \A t \in {HiloCP} \cup HilosCpu : Enviar(t) => SoloMueve(t)
  BY <1>p DEF Enviar
<1>5. \A c \in Cpus : ExecAReady(c) \/ ExecAExit(c) \/ CrearProceso(c) \/ AnotarEspera(c)
        => SoloMueve(HiloCpu(c))
  BY <1>p DEF ExecAReady, ExecAExit, CrearProceso, AnotarEspera
<1>6. \A t \in HilosIO : TerminarIO(t) => SoloMueve(t)
  BY <1>p DEF TerminarIO
<1>7. \A t \in HilosMemoria : Satisfacer(t) => SoloMueve(t)
  BY <1>p DEF Satisfacer
<1>. HIDE DEF SoloMueve
<1>. QED  BY <1>1, <1>2, <1>3, <1>4, <1>5, <1>6, <1>7

\* ExecABlock moves two threads: that of the CPU and, for an IO, a new one.
LEMMA MueveBloqueo ==
  ASSUME InvTipos, NEW c \in Cpus, ExecABlock(c)
  PROVE  LET t == HiloCpu(c) IN
         /\ UNCHANGED loc /\ t \in Hilos /\ pc[t] \in Bloqueo
         /\ \/ /\ pc'[t] = "anota_espera"
               /\ \A u \in Hilos \ {t} : pc'[u] = pc[u]
            \/ /\ pc'[t] = "libera_cpu"
               /\ \E x \in HilosIO :
                    /\ x[2] = loc[t].pid /\ x # t
                    /\ pc[x] = "inactivo" /\ pc'[x] = "io"
                    /\ \A u \in Hilos \ {t, x} : pc'[u] = pc[u]
<1>. DEFINE t == HiloCpu(c)
<1>p. pc \in [Hilos -> Lugares] /\ loc \in [Hilos -> Locales] /\ t \in Hilos /\ t \in HilosCpu
      /\ loc[t].pid \in Pids
  BY HilosDistintos DEF InvTipos, TypeOK, TypeHilos, Locales
<1>1. UNCHANGED loc /\ pc[t] \in Bloqueo
  BY DEF ExecABlock
<1>2. CASE pc[t] = "bloquea_memoria"
  BY <1>p, <1>1, <1>2 DEF ExecABlock, Ir
<1>3. CASE pc[t] = "bloquea_io"
  <2>1. PICK k \in 1 .. MaxHilosIO :
          /\ pc[HiloIO(loc[t].pid, k)] = "inactivo"
          /\ pc' = [pc EXCEPT ![t] = "libera_cpu", ![HiloIO(loc[t].pid, k)] = "io"]
    BY <1>3 DEF ExecABlock
  <2>. DEFINE x == HiloIO(loc[t].pid, k)
  <2>2. x \in HilosIO /\ x[2] = loc[t].pid /\ x # t /\ x \in Hilos
    BY <1>p, HilosDistintos
  <2>. HIDE DEF x, t
  <2>. QED  BY <1>p, <1>1, <2>1, <2>2 DEF x, t
<1>. QED  BY <1>1, <1>2, <1>3 DEF Bloqueo

\* The other steps of a thread leave its hands as they were.
LEMMA Movimiento ==
  ASSUME InvTipos, [Next]_vars, NEW u \in Hilos, ~ (pc'[u] = pc[u] /\ loc'[u] = loc[u])
  PROVE  \/ Encolar(u)
         \/ u = HiloLP /\ AdmitirNew
         \/ u = HiloCP /\ (Desencolar \/ PasarAExec)
         \/ \E c \in Cpus : u = HiloCpu(c) /\ (ExecAReady(c) \/ ExecABlock(c) \/ AnotarEspera(c))
         \/ u \in HilosIO /\ TerminarIO(u)
         \/ /\ u \in HilosIO /\ pc[u] = "inactivo" /\ pc'[u] = "io" /\ UNCHANGED loc
            /\ \E c \in Cpus : ExecABlock(c)
         \/ u \in HilosMemoria /\ Satisfacer(u)
         \/ {pc[u], pc'[u]} \cap {"encola", "a_exec", "io", "anota_espera"} = {}
<1>. DEFINE Ajeno == {pc[u], pc'[u]} \cap {"encola", "a_exec", "io", "anota_espera"} = {}
<1>p. pc \in [Hilos -> Lugares] /\ loc \in [Hilos -> Locales]
  BY DEF InvTipos, TypeOK, TypeHilos
<1>1. ASSUME EncolarEnReady(u), ~ Encolar(u) PROVE Ajeno
  <2>1. pc[u] \in {"postea_ready", "busca_victima", "desaloja"}
    BY <1>1 DEF EncolarEnReady, PostearReady, BuscarVictima, Desalojar
  <2>2. pc'[u] \in {"busca_victima", "desaloja", TrasEncolar(u)}
    BY <1>p, <1>1 DEF EncolarEnReady, PostearReady, BuscarVictima, Desalojar, Ir
  <2>3. TrasEncolar(u) \in {"reintenta", "espera_new", "espera_ready", "inactivo", "libera_cpu"}
    BY DEF TrasEncolar
  <2>. QED  BY <2>1, <2>2, <2>3
<1>2. ASSUME EsperarReady \/ EsperarCpu, u = HiloCP PROVE Ajeno
  BY <1>p, <1>2 DEF EsperarReady, EsperarCpu, Ir
<1>3. ASSUME Despachar(u) PROVE Ajeno
  <2>1. TrasDespachar(u) \in {"espera_ready", "evento", "recv"}
    BY DEF TrasDespachar
  <2>. QED  BY <1>p, <1>3, <2>1 DEF Despachar, ActualizarContexto, Enviar, Ir
<1>4. ASSUME NEW c \in Cpus, u = HiloCpu(c), AtenderCpu(c), ~ ExecAReady(c), ~ ExecABlock(c),
             ~ AnotarEspera(c)
      PROVE  Ajeno
  <2>1. CASE Recibir(c)
    <3>1. TrasRecibir(Head(red_ks[c])) \in {"vuelve_ready", "sale", "bloquea_io", "crea_proceso",
                                            "crea_segmento", "elimina_segmento"}
      BY DEF TrasRecibir
    <3>2. pc[u] = "recv" /\ pc'[u] = TrasRecibir(Head(red_ks[c]))
      BY <1>p, <1>4, <2>1 DEF Recibir, Ir
    <3>. HIDE DEF Ajeno
    <3>3. pc'[u] \in {"vuelve_ready", "sale", "bloquea_io", "crea_proceso",
                      "crea_segmento", "elimina_segmento"}
      BY <3>1, <3>2
    <3>. QED  BY <3>2, <3>3 DEF Ajeno
  <2>2. CASE ~ Recibir(c)
    BY <1>p, <1>4, <2>2 DEF AtenderCpu, RegistrarCpu, PostearCpu, LiberarCpu, ExecAExit,
       FinalizarProcesoKM, CrearProceso, EliminarSegmento, Ir
  <2>. QED  BY <2>1, <2>2
<1>5. ASSUME CrearSegmento(u) PROVE Ajeno
  BY <1>p, <1>5 DEF CrearSegmento, CrearOK, CrearError, CrearCompacta, PideSegmento, TrasCrear, Ir
<1>6. ASSUME Compactacion(u) PROVE Ajeno
  BY <1>p, <1>6 DEF Compactacion, PausarPlanificacion, InterrumpirParaCompactar, Compactar,
     ReanudarPlanificacion, TrasCrear, Ir
<1>7. ASSUME TomarEvento(u) \/ SoltarEvento(u) PROVE Ajeno
  BY <1>p, <1>7 DEF TomarEvento, SoltarEvento, Locales, Ir
<1>8. ASSUME NuevoStick, u = HiloNT PROVE Ajeno
  BY <1>p, <1>8 DEF NuevoStick, Ir
<1>9. Paso(u)
  BY QuienMueve
<1>. HIDE DEF Ajeno
<1>10. ASSUME CortoPlazo, u = HiloCP PROVE Ajeno \/ Desencolar \/ PasarAExec
  BY <1>2, <1>10 DEF CortoPlazo
<1>11. ASSUME EventoMemoria(u) PROVE Ajeno \/ Satisfacer(u)
  BY <1>7, <1>11 DEF EventoMemoria
<1>. QED  BY <1>1, <1>3, <1>4, <1>5, <1>6, <1>8, <1>9, <1>10, <1>11 DEF Paso, Ajeno

-----------------------------------------------------------------------------
(* The invariant is preserved: processes that are created *)

LEMMA PasoCreados ==
  ASSUME InvTipos, InvCompactacion, InvProcesos, [Next]_vars
  PROVE  InvCreados'
<1>i. /\ \A p \in Pids : estado[p] = "NO_CREADO" <=> p >= proximo_pid
      /\ IsInjective(cola_new) /\ ToSet(cola_new) = ConEstado("NEW")
  BY DEF InvProcesos, InvCreados, ListaDe
<1>t. TypePcbs /\ cola_new \in Seq(Pids) /\ proximo_pid \in Nat /\ Pids \subseteq Nat
  BY PidsConCero DEF InvTipos, TypeOK, TypePcbs, TypeColas
<1>m. ASSUME NEW p, NEW a, NEW b, a # b, Cambia(p, a, b), {a, b} \cap {"NO_CREADO", "NEW"} = {},
             UNCHANGED <<cola_new, proximo_pid>>
      PROVE  InvCreados'
  <2>1. ConEstado("NEW")' = ConEstado("NEW")
    BY <1>t, <1>m, ConjuntosCambia
  <2>2. \A x \in Pids : estado'[x] = "NO_CREADO" <=> estado[x] = "NO_CREADO"
    BY <1>t, <1>m DEF Cambia, TypePcbs
  <2>. QED  BY <1>i, <1>m, <2>1, <2>2 DEF InvCreados, ListaDe
<1>1. CASE UNCHANGED <<estado, proximo_pid, cola_new, lista_exec, cola_block>>
  BY <1>i, <1>1 DEF InvCreados, ListaDe, ConEstado
<1>2. CASE AdmitirNew
  <2>1. Cambia(Head(cola_new), "NEW", "READY") /\ cola_new # <<>>
    BY <1>2, CambiaAdmitir
  <2>2. /\ ConEstado("NEW")' = ConEstado("NEW") \ {Head(cola_new)}
        /\ cola_new' = Tail(cola_new) /\ UNCHANGED proximo_pid
    BY <1>2, <1>t, <2>1, ConjuntosCambia DEF AdmitirNew
  <2>3. IsInjective(Tail(cola_new)) /\ ToSet(Tail(cola_new)) = ToSet(cola_new) \ {Head(cola_new)}
    BY <1>i, <1>t, <2>1, CabezaYCola
  <2>4. \A x \in Pids : estado'[x] = "NO_CREADO" <=> estado[x] = "NO_CREADO"
    BY <1>t, <2>1 DEF Cambia, TypePcbs
  <2>. QED  BY <1>i, <2>2, <2>3, <2>4 DEF InvCreados, ListaDe
<1>3. CASE PasarAExec
  <2>1. CASE pc'[HiloCP] = "encola"
    <3>1. UNCHANGED <<estado, proximo_pid, cola_new>>
      BY <1>3, <2>1, HilosDistintos DEF PasarAExec, Ir, InvTipos, TypeOK, TypeHilos
    <3>. QED  BY <1>i, <3>1 DEF InvCreados, ListaDe, ConEstado
  <2>2. CASE pc'[HiloCP] # "encola"
    <3>1. Cambia(loc[HiloCP].pid, "READY", "EXEC")
      BY <1>3, <2>2, CambiaAExec
    <3>. QED  BY <1>m, <1>3, <3>1 DEF PasarAExec
  <2>. QED  BY <2>1, <2>2
<1>4. ASSUME NEW c \in Cpus, ExecAReady(c) \/ ExecAExit(c) \/ ExecABlock(c) PROVE InvCreados'
  <2>1. UNCHANGED <<cola_new, proximo_pid>>
    BY <1>4 DEF ExecAReady, ExecAExit, ExecABlock
  <2>. QED  BY <1>m, <1>4, <2>1, CambiaDeExec
<1>5. ASSUME NEW c \in Cpus, CrearProceso(c) PROVE InvCreados'
  <2>1. CASE UNCHANGED <<estado, cola_new, proximo_pid>>
    BY <1>i, <2>1 DEF InvCreados, ListaDe, ConEstado
  <2>2. CASE /\ Cambia(proximo_pid, "NO_CREADO", "NEW")
             /\ cola_new' = Append(cola_new, proximo_pid) /\ proximo_pid' = proximo_pid + 1
    <3>1. /\ ConEstado("NEW")' = ConEstado("NEW") \cup {proximo_pid}
          /\ proximo_pid \notin ConEstado("NEW")
      BY <1>t, <2>2, ConjuntosCambia
    <3>2. proximo_pid \in Pids
      BY <2>2 DEF Cambia
    <3>3. /\ IsInjective(Append(cola_new, proximo_pid))
          /\ ToSet(Append(cola_new, proximo_pid)) = ToSet(cola_new) \cup {proximo_pid}
      BY <1>i, <1>t, <3>1, <3>2, AppendSinRepetir, ToSetAppend
    <3>4. ASSUME NEW x \in Pids PROVE estado'[x] = "NO_CREADO" <=> x >= proximo_pid'
      <4>1. CASE x = proximo_pid
        BY <1>t, <2>2, <4>1 DEF Cambia, TypePcbs
      <4>2. CASE x # proximo_pid
        <5>1. estado'[x] = estado[x] /\ x \in Nat
          BY <1>t, <2>2, <4>2 DEF Cambia, TypePcbs
        <5>. QED  BY <1>i, <1>t, <2>2, <4>2, <5>1
      <4>. QED  BY <4>1, <4>2
    <3>. QED  BY <1>i, <2>2, <3>1, <3>3, <3>4 DEF InvCreados, ListaDe
  <2>. QED  BY <1>5, <2>1, <2>2, CambiaCrear
<1>6. ASSUME NEW t \in HilosIO, TerminarIO(t) PROVE InvCreados'
  <2>1. UNCHANGED <<cola_new, proximo_pid>>
    BY <1>6 DEF TerminarIO
  <2>. QED  BY <1>m, <1>6, <2>1, CambiaIO
<1>7. ASSUME NEW t \in HilosMemoria, Satisfacer(t) PROVE InvCreados'
  <2>1. UNCHANGED <<cola_new, proximo_pid>>
    BY <1>7 DEF Satisfacer
  <2>. QED  BY <1>m, <1>7, <2>1, CambiaSatisfacer
<1>. QED  BY <1>1, <1>2, <1>3, <1>4, <1>5, <1>6, <1>7, PasosDeEstado

-----------------------------------------------------------------------------
(* The invariant is preserved: processes in READY *)

\* A step of thread t that leaves the queues alone changes only its own hands.
LEMMA ReadySolo ==
  ASSUME NEW t \in Hilos, SoloMueve(t), UNCHANGED colas_ready
  PROVE  /\ DOMAIN EnReady' = DOMAIN EnReady /\ t \in DOMAIN EnReady
         /\ \A y \in DOMAIN EnReady \ {t} : EnReady'[y] = EnReady[y]
         /\ EnReady[t] = EnMano(t) /\ EnReady'[t] = EnMano(t)'
<1>1. t \notin Colas
  BY DEF Colas, Cola, Hilos, HiloLP, HiloCP, HiloNT, HilosCpu, HiloCpu, HilosIO, HiloIO
<1>. QED  BY <1>1 DEF EnReady, EnMano, SoloMueve

LEMMA ReadyEntra ==
  ASSUME InvTipos, InvReady, NEW t \in Hilos, SoloMueve(t), UNCHANGED colas_ready,
         NEW p, NEW a, a # "READY", Cambia(p, a, "READY"),
         EnMano(t) = {}, EnMano(t)' = {p}
  PROVE  InvReady'
<1>1. ConEstado("READY")' = ConEstado("READY") \cup {p} /\ p \notin ConEstado("READY")
  BY ConjuntosCambia DEF InvTipos, TypeOK
<1>2. /\ DOMAIN EnReady' = DOMAIN EnReady /\ t \in DOMAIN EnReady
      /\ \A y \in DOMAIN EnReady \ {t} : EnReady'[y] = EnReady[y]
      /\ EnReady'[t] = EnReady[t] \cup {p}
  BY ReadySolo
<1>3. Reparto(EnReady, ConEstado("READY"))
  BY DEF InvReady
<1>4. Reparto(EnReady', ConEstado("READY") \cup {p})
  BY <1>1, <1>2, <1>3, RepartoEntra
<1>5. Reparto(EnReady, ConEstado("READY"))'
  BY <1>1, <1>4 DEF Reparto
<1>. QED  BY <1>5 DEF InvReady

LEMMA ReadyIgual ==
  ASSUME InvReady, UNCHANGED colas_ready, \A u \in Hilos : EnMano(u)' = EnMano(u),
         ConEstado("READY")' = ConEstado("READY")
  PROVE  InvReady'
<1>1. EnReady' = EnReady
  BY DEF EnReady
<1>2. Reparto(EnReady, ConEstado("READY"))'
  BY <1>1 DEF InvReady, Reparto
<1>. QED  BY <1>2 DEF InvReady

LEMMA PasoEncolar ==
  ASSUME InvTipos, InvReady, NEW t \in Hilos, Encolar(t)
  PROVE  InvReady'
<1>. DEFINE p == loc[t].pid
            q == ColaDe(p)
            x == Cola(q)
<1>p. pc \in [Hilos -> Lugares] /\ loc \in [Hilos -> Locales] /\ p \in Pids
      /\ colas_ready \in [0 .. CantColas - 1 -> Seq(Pids)] /\ q \in 0 .. CantColas - 1
  BY ColaDeEnRango DEF InvTipos, TypeOK, TypeHilos, TypeColas, TypePcbs, Locales
<1>1. /\ pc[t] = "encola" /\ pc'[t] = "postea_ready" /\ SoloMueve(t)
      /\ UNCHANGED estado
      /\ colas_ready' = [colas_ready EXCEPT ![q] =
                           IF loc[t].frente THEN <<p>> \o @ ELSE Append(@, p)]
  BY <1>p, MueveUno DEF Encolar, Ir, pcbs
<1>2. /\ p \in ConEstado("READY") /\ t \in DOMAIN EnReady /\ t \notin Colas
      /\ EnReady[t] = {p}
  BY <1>1, DeManoReady
<1>3. x \in Colas /\ x \in DOMAIN EnReady /\ x # t /\ x[2] = q
      /\ EnReady[x] = ToSet(colas_ready[q])
  BY <1>p, <1>2 DEF Colas, EnReady, Cola
<1>. HIDE DEF x
<1>4. p \notin ToSet(colas_ready[q])
  BY <1>2, <1>3 DEF InvReady, Reparto
<1>. HIDE DEF p, q
<1>5. /\ ToSet(colas_ready'[q]) = ToSet(colas_ready[q]) \cup {p} /\ IsInjective(colas_ready'[q])
      /\ \A r \in 0 .. CantColas - 1 : r # q => colas_ready'[r] = colas_ready[r]
  <2>1. IsInjective(colas_ready[q]) /\ colas_ready[q] \in Seq(Pids)
    BY <1>p DEF InvReady
  <2>. QED  BY <1>p, <1>1, <1>4, <2>1, AppendSinRepetir, ToSetAppend, AnteponerElementos
<1>6. DOMAIN EnReady' = DOMAIN EnReady
  BY DEF EnReady
<1>7. EnReady'[t] = EnReady[t] \ {p}
  BY <1>1, <1>2 DEF EnReady, EnMano
<1>8. EnReady'[x] = EnReady[x] \cup {p}
  BY <1>3, <1>5 DEF EnReady
<1>9. ASSUME NEW y \in DOMAIN EnReady \ {t, x} PROVE EnReady'[y] = EnReady[y]
  <2>1. CASE y \in Colas
    <3>1. PICK r \in 0 .. CantColas - 1 : y = Cola(r)
      BY <2>1 DEF Colas
    <3>2. r # q /\ y[2] = r
      BY <1>9, <3>1 DEF Cola, x
    <3>. QED  BY <1>5, <2>1, <3>2 DEF EnReady
  <2>2. CASE y \notin Colas
    BY <1>1, <1>9, <2>2 DEF EnReady, EnMano, SoloMueve
  <2>. QED  BY <2>1, <2>2
<1>10. Reparto(EnReady', ConEstado("READY"))
  <2>1. Reparto(EnReady, ConEstado("READY"))
    BY DEF InvReady
  <2>. QED  BY <1>2, <1>3, <1>6, <1>7, <1>8, <1>9, <2>1, RepartoPasa
<1>11. Reparto(EnReady, ConEstado("READY"))'
  BY <1>1, <1>10, ConjuntosIguales DEF Reparto
<1>12. \A r \in 0 .. CantColas - 1 : IsInjective(colas_ready'[r])
  BY <1>5 DEF InvReady
<1>. QED  BY <1>11, <1>12 DEF InvReady

LEMMA PasoDesencolar ==
  ASSUME InvTipos, InvReady, Desencolar
  PROVE  InvReady'
<1>. DEFINE t == HiloCP
            q == Min(ColasConProcesos)
            x == Cola(q)
            p == Head(colas_ready[q])
<1>p. pc \in [Hilos -> Lugares] /\ loc \in [Hilos -> Locales] /\ t \in Hilos
      /\ colas_ready \in [0 .. CantColas - 1 -> Seq(Pids)]
  BY HilosDistintos DEF InvTipos, TypeOK, TypeHilos, TypeColas
<1>1. SoloMueve(t) /\ UNCHANGED estado /\ pc[t] = "desencola"
  BY MueveUno DEF Desencolar, pcbs
<1>2. CASE ColasConProcesos = {}
  <2>1. UNCHANGED colas_ready /\ pc'[t] = "espera_ready"
    BY <1>p, <1>2 DEF Desencolar, Ir
  <2>2. \A u \in Hilos : EnMano(u)' = EnMano(u)
    BY <1>1, <2>1 DEF EnMano, SoloMueve
  <2>. QED  BY <1>1, <2>1, <2>2, ReadyIgual, ConjuntosIguales
<1>3. CASE ColasConProcesos # {}
  <2>1. q \in ColasConProcesos
    <3>1. ColasConProcesos \subseteq Nat
      BY DEF ColasConProcesos
    <3>. QED  BY <1>3, <3>1, MinEsElemento
  <2>2. q \in 0 .. CantColas - 1 /\ colas_ready[q] # <<>> /\ colas_ready[q] \in Seq(Pids)
    BY <1>p, <2>1 DEF ColasConProcesos
  <2>. HIDE DEF q
  <2>3. /\ colas_ready' = [colas_ready EXCEPT ![q] = Tail(@)]
        /\ loc' = [loc EXCEPT ![t] = [LocInicial EXCEPT !.pid = p]] /\ pc'[t] = "a_exec"
    BY <1>p, <1>3 DEF Desencolar, Ir, q
  <2>. HIDE DEF p
  <2>4. loc'[t].pid = p
    BY <1>p, <2>3 DEF LocInicial
  <2>5. /\ IsInjective(colas_ready'[q]) /\ ToSet(colas_ready'[q]) = ToSet(colas_ready[q]) \ {p}
        /\ p \in ToSet(colas_ready[q])
        /\ \A r \in 0 .. CantColas - 1 : r # q => colas_ready'[r] = colas_ready[r]
    <3>1. IsInjective(colas_ready[q])
      BY <2>2 DEF InvReady
    <3>. QED  BY <1>p, <2>2, <2>3, <3>1, CabezaYCola DEF p
  <2>6. x \in Colas /\ x \in DOMAIN EnReady /\ x[2] = q /\ EnReady[x] = ToSet(colas_ready[q])
        /\ EnReady'[x] = ToSet(colas_ready'[q])
    BY <2>2 DEF Colas, EnReady, Cola
  <2>7. t \notin Colas
    BY DEF Colas, Cola, HiloCP
  <2>8. t \in DOMAIN EnReady /\ x # t /\ EnReady[t] = {} /\ EnReady'[t] = {p}
    BY <1>p, <1>1, <2>3, <2>4, <2>6, <2>7 DEF EnReady, EnMano
  <2>. HIDE DEF x, t
  <2>9. ASSUME NEW y \in DOMAIN EnReady \ {t, x} PROVE EnReady'[y] = EnReady[y]
    <3>1. CASE y \in Colas
      <4>1. PICK r \in 0 .. CantColas - 1 : y = Cola(r)
        BY <3>1 DEF Colas
      <4>2. r # q /\ y[2] = r
        BY <2>9, <4>1 DEF Cola, x
      <4>. QED  BY <2>5, <3>1, <4>2 DEF EnReady
    <3>2. CASE y \notin Colas
      BY <1>1, <2>9, <3>2 DEF EnReady, EnMano, SoloMueve
    <3>. QED  BY <3>1, <3>2
  <2>10. Reparto(EnReady', ConEstado("READY"))
    <3>1. Reparto(EnReady, ConEstado("READY"))
      BY DEF InvReady
    <3>2. /\ DOMAIN EnReady' = DOMAIN EnReady /\ t \in DOMAIN EnReady \ {x} /\ p \in EnReady[x]
          /\ EnReady'[x] = EnReady[x] \ {p} /\ EnReady'[t] = EnReady[t] \cup {p}
          /\ \A y \in DOMAIN EnReady \ {x, t} : EnReady'[y] = EnReady[y]
      <4>1. DOMAIN EnReady' = DOMAIN EnReady
        BY DEF EnReady
      <4>. QED  BY <2>5, <2>6, <2>8, <2>9, <4>1
    <3>. QED  BY <2>6, <3>1, <3>2, RepartoPasa
  <2>11. Reparto(EnReady, ConEstado("READY"))'
    BY <1>1, <2>10, ConjuntosIguales DEF Reparto
  <2>12. \A r \in 0 .. CantColas - 1 : IsInjective(colas_ready'[r])
    BY <2>5 DEF InvReady
  <2>. QED  BY <2>11, <2>12 DEF InvReady
<1>. QED  BY <1>2, <1>3

LEMMA PasoReady ==
  ASSUME InvTipos, InvCompactacion, InvProcesos, [Next]_vars
  PROVE  InvReady'
<1>p. pc \in [Hilos -> Lugares] /\ loc \in [Hilos -> Locales] /\ TypePcbs /\ InvReady
  BY DEF InvTipos, TypeOK, TypeHilos, InvProcesos
<1>1. ASSUME NEW t \in Hilos, Encolar(t) PROVE InvReady'
  BY <1>p, <1>1, PasoEncolar
<1>2. CASE Desencolar
  BY <1>p, <1>2, PasoDesencolar
<1>3. CASE AdmitirNew
  <2>1. Cambia(Head(cola_new), "NEW", "READY") /\ SoloMueve(HiloLP) /\ HiloLP \in Hilos
    BY <1>3, CambiaAdmitir, MueveUno, HilosDistintos
  <2>2. /\ pc[HiloLP] = "espera_new" /\ pc'[HiloLP] = "encola" /\ UNCHANGED colas_ready
        /\ loc'[HiloLP].pid = Head(cola_new)
    BY <1>p, <1>3, <2>1 DEF AdmitirNew, Ir, LocInicial
  <2>3. EnMano(HiloLP) = {} /\ EnMano(HiloLP)' = {Head(cola_new)}
    BY <2>2 DEF EnMano
  <2>. QED  BY <1>p, <2>1, <2>2, <2>3, ReadyEntra
<1>4. CASE PasarAExec
  <2>. DEFINE t == HiloCP
  <2>1. SoloMueve(t) /\ t \in Hilos /\ pc[t] = "a_exec" /\ UNCHANGED colas_ready
    BY <1>4, MueveUno, HilosDistintos DEF PasarAExec
  <2>2. CASE pc'[t] = "encola"
    <3>1. UNCHANGED estado /\ loc'[t].pid = loc[t].pid
      BY <1>p, <1>4, <2>1, <2>2 DEF PasarAExec, Ir, Locales
    <3>2. \A u \in Hilos : EnMano(u)' = EnMano(u)
      BY <2>1, <2>2, <3>1 DEF EnMano, SoloMueve
    <3>. QED  BY <1>p, <2>1, <3>1, <3>2, ReadyIgual, ConjuntosIguales
  <2>3. CASE pc'[t] # "encola"
    <3>1. Cambia(loc[t].pid, "READY", "EXEC") /\ pc'[t] = "contexto"
      BY <1>p, <1>4, <2>1, <2>3, CambiaAExec DEF PasarAExec, Ir
    <3>2. ConEstado("READY")' = ConEstado("READY") \ {loc[t].pid}
      BY <1>p, <3>1, ConjuntosCambia
    <3>3. /\ DOMAIN EnReady' = DOMAIN EnReady /\ t \in DOMAIN EnReady
          /\ \A y \in DOMAIN EnReady \ {t} : EnReady'[y] = EnReady[y]
          /\ EnReady[t] = {loc[t].pid} /\ EnReady'[t] = {}
      BY <2>1, <3>1, ReadySolo DEF EnMano
    <3>4. Reparto(EnReady, ConEstado("READY"))
      BY <1>p DEF InvReady
    <3>. HIDE DEF t
    <3>5. Reparto(EnReady', ConEstado("READY") \ {loc[t].pid})
      BY <3>3, <3>4, RepartoSale
    <3>6. Reparto(EnReady, ConEstado("READY"))'
      BY <3>2, <3>5 DEF Reparto
    <3>. QED  BY <1>p, <2>1, <3>6 DEF InvReady
  <2>. QED  BY <2>2, <2>3
<1>5. ASSUME NEW c \in Cpus, ExecAReady(c) PROVE InvReady'
  <2>. DEFINE t == HiloCpu(c)
  <2>1. /\ Cambia(cpu[c].pid, "EXEC", "READY") /\ loc[t].pid = cpu[c].pid
        /\ SoloMueve(t) /\ t \in Hilos
    BY <1>5, CambiaDeExec, MueveUno, HilosDistintos
  <2>2. /\ pc[t] = "vuelve_ready" /\ pc'[t] = "encola" /\ UNCHANGED <<colas_ready, loc>>
    BY <1>p, <1>5, <2>1 DEF ExecAReady, Ir
  <2>3. EnMano(t) = {} /\ EnMano(t)' = {cpu[c].pid}
    BY <2>1, <2>2 DEF EnMano
  <2>. QED  BY <1>p, <2>1, <2>2, <2>3, ReadyEntra
<1>6. ASSUME NEW t \in HilosIO, TerminarIO(t) PROVE InvReady'
  <2>1. /\ Cambia(t[2], "BLOCK", "READY") /\ SoloMueve(t) /\ t \in Hilos
    BY <1>6, CambiaIO, MueveUno
  <2>2. /\ pc[t] = "io" /\ pc'[t] = "encola" /\ UNCHANGED colas_ready /\ loc'[t].pid = t[2]
    BY <1>p, <1>6, <2>1 DEF TerminarIO, Ir, Locales
  <2>3. EnMano(t) = {} /\ EnMano(t)' = {t[2]}
    BY <2>2 DEF EnMano
  <2>. QED  BY <1>p, <2>1, <2>2, <2>3, ReadyEntra
<1>7. ASSUME NEW t \in HilosMemoria, Satisfacer(t) PROVE InvReady'
  <2>. DEFINE p == Head(loc[t].resto).pid
  <2>1. /\ Cambia(p, "BLOCK", "READY") /\ SoloMueve(t) /\ t \in Hilos
    BY <1>7, CambiaSatisfacer, MueveUno
  <2>2. /\ pc[t] = "satisface" /\ pc'[t] = "encola" /\ UNCHANGED colas_ready /\ loc'[t].pid = p
    BY <1>p, <1>7, <2>1 DEF Satisfacer, Ir, Locales
  <2>3. EnMano(t) = {} /\ EnMano(t)' = {p}
    BY <2>2 DEF EnMano
  <2>. QED  BY <1>p, <2>1, <2>2, <2>3, ReadyEntra
<1>8. ASSUME NEW c \in Cpus, ExecAExit(c) PROVE InvReady'
  <2>1. /\ Cambia(cpu[c].pid, "EXEC", "EXIT") /\ SoloMueve(HiloCpu(c)) /\ HiloCpu(c) \in Hilos
        /\ pc[HiloCpu(c)] = "sale" /\ pc'[HiloCpu(c)] = "finaliza_km" /\ UNCHANGED colas_ready
    BY <1>p, <1>8, CambiaDeExec, MueveUno, HilosDistintos DEF ExecAExit, Ir
  <2>2. \A u \in Hilos : EnMano(u)' = EnMano(u)
    BY <2>1 DEF EnMano, SoloMueve
  <2>. QED  BY <1>p, <2>1, <2>2, ReadyIgual, ConjuntosCambia
<1>9. ASSUME NEW c \in Cpus, ExecABlock(c) PROVE InvReady'
  <2>1. Cambia(cpu[c].pid, "EXEC", "BLOCK") /\ UNCHANGED colas_ready
    BY <1>9, CambiaDeExec DEF ExecABlock
  <2>2. \A u \in Hilos : EnMano(u)' = EnMano(u)
    BY <1>9, MueveBloqueo DEF EnMano, Bloqueo
  <2>. QED  BY <1>p, <2>1, <2>2, ReadyIgual, ConjuntosCambia
<1>10. ASSUME NEW c \in Cpus, CrearProceso(c) PROVE InvReady'
  <2>1. /\ SoloMueve(HiloCpu(c)) /\ HiloCpu(c) \in Hilos
        /\ pc[HiloCpu(c)] = "crea_proceso" /\ pc'[HiloCpu(c)] = "vuelve_ready"
        /\ UNCHANGED colas_ready
    BY <1>p, <1>10, MueveUno, HilosDistintos DEF CrearProceso, Ir
  <2>2. \A u \in Hilos : EnMano(u)' = EnMano(u)
    BY <2>1 DEF EnMano, SoloMueve
  <2>3. ConEstado("READY")' = ConEstado("READY")
    BY <1>p, <1>10, CambiaCrear, ConjuntosCambia, ConjuntosIguales
  <2>. QED  BY <1>p, <2>1, <2>2, <2>3, ReadyIgual
<1>11. ASSUME UNCHANGED <<estado, proximo_pid, cola_new, lista_exec, cola_block>>,
              UNCHANGED colas_ready, NEW u \in Hilos, EnMano(u)' # EnMano(u)
       PROVE  AdmitirNew \/ PasarAExec \/ Desencolar \/ (\E t \in Hilos : Encolar(t))
              \/ (\E c \in Cpus : ExecAReady(c)) \/ (\E t \in HilosIO : TerminarIO(t))
              \/ (\E t \in HilosMemoria : Satisfacer(t))
  <2>1. ~ (pc'[u] = pc[u] /\ loc'[u] = loc[u])
    BY <1>11 DEF EnMano
  <2>2. ~ ({pc[u], pc'[u]} \cap {"encola", "a_exec", "io", "anota_espera"} = {})
    BY <1>11 DEF EnMano
  <2>3. ASSUME NEW c \in Cpus, u = HiloCpu(c), ExecABlock(c) PROVE FALSE
    BY <1>11, <2>3, MueveBloqueo DEF EnMano, Bloqueo
  <2>4. ASSUME NEW c \in Cpus, u = HiloCpu(c), AnotarEspera(c) PROVE FALSE
    BY <1>p, <1>11, <2>4 DEF EnMano, AnotarEspera, Ir
  <2>5. ~ (pc[u] = "inactivo" /\ pc'[u] = "io")
    BY <1>11 DEF EnMano
  <2>. QED  BY <2>1, <2>2, <2>3, <2>4, <2>5, Movimiento
<1>. QED  BY <1>1, <1>2, <1>3, <1>4, <1>5, <1>6, <1>7, <1>8, <1>9, <1>10, <1>11,
          ReadyIgual, ConjuntosIguales, PasosDeEstado, PasosDeColas, <1>p

-----------------------------------------------------------------------------
(* The invariant is preserved: processes in BLOCK *)

LEMMA PasosDeLista ==
  ASSUME [Next]_vars
  PROVE  UNCHANGED lista_espera \/ (\E c \in Cpus : AnotarEspera(c))
         \/ (\E t \in HilosMemoria : Satisfacer(t))
<1>1. ASSUME NEW t \in Hilos, EncolarEnReady(t) PROVE UNCHANGED lista_espera
  BY <1>1 DEF EncolarEnReady, Encolar, PostearReady, BuscarVictima, Desalojar, colas
<1>2. CortoPlazo => UNCHANGED lista_espera
  BY DEF CortoPlazo, EsperarReady, EsperarCpu, Desencolar, PasarAExec, colas
<1>3. ASSUME NEW t \in {HiloCP} \cup HilosCpu, Despachar(t) PROVE UNCHANGED lista_espera
  BY <1>3 DEF Despachar, ActualizarContexto, Enviar, colas
<1>4. ASSUME NEW x \in timers, VencerQuantum(x) PROVE UNCHANGED lista_espera
  BY <1>4, SMTT(40) DEF VencerQuantum, colas
<1>5. ASSUME NEW c \in Cpus, AtenderCpu(c), ~ AnotarEspera(c) PROVE UNCHANGED lista_espera
  BY <1>5 DEF AtenderCpu, RegistrarCpu, PostearCpu, Recibir, LiberarCpu, FinalizarProcesoKM,
     EliminarSegmento, ExecAReady, ExecAExit, ExecABlock, CrearProceso, colas
<1>6. ASSUME NEW t \in HilosMemoria, CrearSegmento(t) \/ Compactacion(t) \/ EventoMemoria(t),
             ~ Satisfacer(t)
      PROVE  UNCHANGED lista_espera
  BY <1>6 DEF CrearSegmento, CrearOK, CrearError, CrearCompacta, Compactacion,
     PausarPlanificacion, InterrumpirParaCompactar, Compactar, ReanudarPlanificacion,
     EventoMemoria, TomarEvento, SoltarEvento, colas
<1>7. ASSUME NEW t \in HilosIO, TerminarIO(t) PROVE UNCHANGED lista_espera
  BY <1>7 DEF TerminarIO
<1>8. NuevoStick \/ AdmitirNew => UNCHANGED lista_espera
  BY DEF NuevoStick, AdmitirNew, colas
<1>9. ASSUME NEW c \in Cpus, ProgramaCpu(c) PROVE UNCHANGED lista_espera
  BY <1>9 DEF ProgramaCpu, CpuRecibe, FallarFetch, EjecutarComun, EjecutarSyscall, colas
<1>10. UNCHANGED vars => UNCHANGED lista_espera
  BY DEF vars, colas
<1>. QED  BY <1>1, <1>2, <1>3, <1>4, <1>5, <1>6, <1>7, <1>8, <1>9, <1>10 DEF Next

\* Only thread x changes what it will wake.
SoloDespierta(x) == \A u \in Hilos \ {x} : Despierta(u)' = Despierta(u)

LEMMA BlockSolo ==
  ASSUME InvBlock, NEW x \in Hilos, SoloDespierta(x)
  PROVE  /\ DOMAIN EnBlock' = DOMAIN EnBlock /\ x \in DOMAIN EnBlock /\ LISTA \in DOMAIN EnBlock
         /\ x # LISTA
         /\ \A y \in DOMAIN EnBlock \ {x, LISTA} : EnBlock'[y] = EnBlock[y]
         /\ EnBlock[x] = Despierta(x) /\ EnBlock'[x] = Despierta(x)'
         /\ EnBlock[LISTA] = PidsEnEspera /\ EnBlock'[LISTA] = PidsEnEspera'
<1>1. x # LISTA /\ x \in DOMAIN EnBlock
  BY DeDespiertaBlock
<1>. QED  BY <1>1 DEF EnBlock, SoloDespierta

LEMMA BlockIgual ==
  ASSUME InvBlock, UNCHANGED <<lista_espera, cola_block>>,
         \A u \in Hilos : Despierta(u)' = Despierta(u), ConEstado("BLOCK")' = ConEstado("BLOCK")
  PROVE  InvBlock'
<1>1. EnBlock' = EnBlock
  BY DEF EnBlock, PidsEnEspera
<1>2. Reparto(EnBlock, ConEstado("BLOCK"))'
  BY <1>1 DEF InvBlock, Reparto
<1>. QED  BY <1>2 DEF InvBlock

LEMMA BlockEntra ==
  ASSUME InvTipos, InvBlock, NEW x \in Hilos, SoloDespierta(x), UNCHANGED lista_espera,
         NEW p, NEW a, a # "BLOCK", Cambia(p, a, "BLOCK"), cola_block' = cola_block \cup {p},
         Despierta(x) = {}, Despierta(x)' = {p}
  PROVE  InvBlock'
<1>1. ConEstado("BLOCK")' = ConEstado("BLOCK") \cup {p} /\ p \notin ConEstado("BLOCK")
  BY ConjuntosCambia DEF InvTipos, TypeOK
<1>2. /\ DOMAIN EnBlock' = DOMAIN EnBlock /\ x \in DOMAIN EnBlock
      /\ \A y \in DOMAIN EnBlock \ {x} : EnBlock'[y] = EnBlock[y]
      /\ EnBlock'[x] = EnBlock[x] \cup {p}
  <2>1. PidsEnEspera' = PidsEnEspera
    BY DEF PidsEnEspera
  <2>. QED  BY <2>1, BlockSolo
<1>3. Reparto(EnBlock, ConEstado("BLOCK"))
  BY DEF InvBlock
<1>4. Reparto(EnBlock', ConEstado("BLOCK") \cup {p})
  BY <1>1, <1>2, <1>3, RepartoEntra
<1>5. Reparto(EnBlock, ConEstado("BLOCK"))'
  BY <1>1, <1>4 DEF Reparto
<1>. QED  BY <1>1, <1>5 DEF InvBlock

LEMMA BlockSaleIO ==
  ASSUME InvTipos, InvBlock, NEW t \in HilosIO, TerminarIO(t), InvProcesos
  PROVE  InvBlock'
<1>. DEFINE p == t[2]
<1>p. pc \in [Hilos -> Lugares] /\ TypePcbs
  BY DEF InvTipos, TypeOK, TypeHilos
<1>1. /\ Cambia(p, "BLOCK", "READY") /\ Despierta(t) = {p} /\ t \in Hilos /\ SoloMueve(t)
      /\ UNCHANGED lista_espera /\ cola_block' = cola_block \ {p}
  BY CambiaIO, MueveUno DEF TerminarIO, BlockAReady
<1>2. Despierta(t)' = {}
  BY <1>p, <1>1 DEF TerminarIO, Ir, Despierta
<1>3. SoloDespierta(t)
  BY <1>1 DEF SoloDespierta, SoloMueve, Despierta
<1>4. ConEstado("BLOCK")' = ConEstado("BLOCK") \ {p}
  BY <1>p, <1>1, ConjuntosCambia
<1>5. /\ DOMAIN EnBlock' = DOMAIN EnBlock /\ t \in DOMAIN EnBlock /\ p \in EnBlock[t]
      /\ \A y \in DOMAIN EnBlock \ {t} : EnBlock'[y] = EnBlock[y]
      /\ EnBlock'[t] = EnBlock[t] \ {p}
  BY <1>1, <1>2, <1>3, BlockSolo DEF PidsEnEspera
<1>6. Reparto(EnBlock, ConEstado("BLOCK"))
  BY DEF InvBlock
<1>. HIDE DEF p
<1>7. Reparto(EnBlock', ConEstado("BLOCK") \ {p})
  BY <1>5, <1>6, RepartoSale
<1>8. Reparto(EnBlock, ConEstado("BLOCK"))'
  BY <1>4, <1>7 DEF Reparto
<1>. QED  BY <1>1, <1>4, <1>8 DEF InvBlock

LEMMA BlockAnota ==
  ASSUME InvTipos, InvBlock, NEW c \in Cpus, AnotarEspera(c)
  PROVE  InvBlock'
<1>. DEFINE t == HiloCpu(c)
            p == loc[t].pid
            q == Pedido(t)
<1>p. pc \in [Hilos -> Lugares] /\ t \in Hilos /\ t \in HilosCpu /\ t \notin HilosIO
      /\ lista_espera \in Seq(Pedidos)
  BY HilosDistintos DEF InvTipos, TypeOK, TypeHilos, TypeColas
<1>1. /\ pc[t] = "anota_espera" /\ pc'[t] = "libera_cpu" /\ SoloMueve(t)
      /\ UNCHANGED <<loc, estado, cola_block>> /\ lista_espera' = Append(lista_espera, q)
  BY <1>p, MueveUno DEF AnotarEspera, Ir, pcbs
<1>2. ~ EnEvento(t)
  BY <1>p, <1>1, ManejaSinEvento
<1>3. q \in Pedidos /\ q.pid = p
  BY <1>p, <1>2, PedidoTipo DEF Pedido
<1>. HIDE DEF q
<1>4. Despierta(t) = {p} /\ Despierta(t)' = {} /\ SoloDespierta(t)
  BY <1>p, <1>1 DEF Despierta, SoloDespierta, SoloMueve
<1>. HIDE DEF p, t
<1>5. p \notin PidsEnEspera
  BY <1>p, <1>4, DeDespiertaBlock DEF InvBlock, Reparto
<1>6. /\ ToSet(lista_espera') = ToSet(lista_espera) \cup {q}
      /\ PidsEnEspera' = PidsEnEspera \cup {p}
  BY <1>p, <1>1, <1>3, ToSetAppend DEF PidsEnEspera
<1>7. q \notin ToSet(lista_espera) /\ \A r \in ToSet(lista_espera) : r.pid # q.pid
  BY <1>3, <1>5 DEF PidsEnEspera
<1>8. IsInjective(lista_espera')
  BY <1>p, <1>1, <1>3, <1>7, AppendSinRepetir DEF InvBlock
<1>9. \A r, s \in ToSet(lista_espera') : r.pid = s.pid => r = s
  BY <1>6, <1>7 DEF InvBlock
<1>10. /\ DOMAIN EnBlock' = DOMAIN EnBlock /\ t \in DOMAIN EnBlock
       /\ LISTA \in DOMAIN EnBlock \ {t} /\ p \in EnBlock[t]
       /\ \A y \in DOMAIN EnBlock \ {t, LISTA} : EnBlock'[y] = EnBlock[y]
       /\ EnBlock'[t] = EnBlock[t] \ {p} /\ EnBlock'[LISTA] = EnBlock[LISTA] \cup {p}
  BY <1>p, <1>4, <1>6, BlockSolo
<1>11. Reparto(EnBlock, ConEstado("BLOCK"))
  BY DEF InvBlock
<1>12. Reparto(EnBlock', ConEstado("BLOCK"))
  BY <1>10, <1>11, RepartoPasa
<1>13. ConEstado("BLOCK")' = ConEstado("BLOCK")
  BY <1>1, ConjuntosIguales
<1>14. Reparto(EnBlock, ConEstado("BLOCK"))'
  BY <1>12, <1>13 DEF Reparto
<1>. QED  BY <1>1, <1>8, <1>9, <1>13, <1>14 DEF InvBlock

LEMMA BlockSatisface ==
  ASSUME InvTipos, InvProcesos, NEW t \in HilosMemoria, Satisfacer(t)
  PROVE  InvBlock'
<1>. DEFINE q == Head(loc[t].resto)
            p == q.pid
<1>p. pc \in [Hilos -> Lugares] /\ TypePcbs /\ lista_espera \in Seq(Pedidos) /\ InvBlock
      /\ t \notin HilosIO
  BY HilosDistintos, SMTT(40) DEF InvTipos, TypeOK, TypeHilos, TypeColas, InvProcesos
<1>1. /\ Cambia(p, "BLOCK", "READY") /\ t \in Hilos /\ q \in ToSet(lista_espera)
      /\ SoloMueve(t) /\ lista_espera' = RemoveFirst(lista_espera, q)
      /\ cola_block' = cola_block \ {p} /\ pc[t] = "satisface"
  BY CambiaSatisfacer, MueveUno DEF Satisfacer, BlockAReady
<1>2. pc'[t] = "encola"
  BY <1>p, <1>1 DEF Satisfacer, Ir
<1>3. Despierta(t) = {} /\ Despierta(t)' = {} /\ SoloDespierta(t)
  BY <1>p, <1>1, <1>2 DEF Despierta, SoloDespierta, SoloMueve
<1>. HIDE DEF q
<1>4. IsInjective(lista_espera') /\ ToSet(lista_espera') = ToSet(lista_espera) \ {q}
  BY <1>p, <1>1, RemoveFirstElementos DEF InvBlock
<1>5. \A r, s \in ToSet(lista_espera) : r.pid = s.pid => r = s
  BY <1>p DEF InvBlock
<1>6. PidsEnEspera' = PidsEnEspera \ {p} /\ p \in PidsEnEspera
  BY <1>1, <1>4, <1>5 DEF PidsEnEspera
<1>. HIDE DEF p
<1>7. /\ DOMAIN EnBlock' = DOMAIN EnBlock /\ LISTA \in DOMAIN EnBlock /\ p \in EnBlock[LISTA]
      /\ \A y \in DOMAIN EnBlock \ {LISTA} : EnBlock'[y] = EnBlock[y]
      /\ EnBlock'[LISTA] = EnBlock[LISTA] \ {p}
  BY <1>p, <1>1, <1>3, <1>6, BlockSolo
<1>8. Reparto(EnBlock, ConEstado("BLOCK"))
  BY <1>p DEF InvBlock
<1>9. Reparto(EnBlock', ConEstado("BLOCK") \ {p})
  BY <1>7, <1>8, RepartoSale
<1>10. ConEstado("BLOCK")' = ConEstado("BLOCK") \ {p}
  BY <1>p, <1>1, ConjuntosCambia
<1>11. Reparto(EnBlock, ConEstado("BLOCK"))'
  BY <1>9, <1>10 DEF Reparto
<1>. QED  BY <1>p, <1>1, <1>4, <1>5, <1>10, <1>11 DEF InvBlock

LEMMA PasoBlock ==
  ASSUME InvTipos, InvCompactacion, InvProcesos, [Next]_vars
  PROVE  InvBlock'
<1>p. pc \in [Hilos -> Lugares] /\ loc \in [Hilos -> Locales] /\ TypePcbs /\ InvBlock
  BY DEF InvTipos, TypeOK, TypeHilos, InvProcesos
<1>1. ASSUME NEW c \in Cpus, AnotarEspera(c) PROVE InvBlock'
  BY <1>p, <1>1, BlockAnota
<1>2. ASSUME NEW t \in HilosMemoria, Satisfacer(t) PROVE InvBlock'
  BY <1>2, BlockSatisface
<1>3. ASSUME NEW t \in HilosIO, TerminarIO(t) PROVE InvBlock'
  BY <1>p, <1>3, BlockSaleIO
<1>4. ASSUME NEW c \in Cpus, ExecABlock(c) PROVE InvBlock'
  <2>. DEFINE t == HiloCpu(c)
              p == cpu[c].pid
  <2>1. /\ Cambia(p, "EXEC", "BLOCK") /\ loc[t].pid = p /\ UNCHANGED <<loc, lista_espera>>
        /\ cola_block' = cola_block \cup {p} /\ t \in HilosCpu /\ t \notin HilosIO
    BY <1>4, CambiaDeExec, HilosDistintos DEF ExecABlock
  <2>2. pc[t] \in Bloqueo /\ t \in Hilos
    BY <1>4, MueveBloqueo
  <2>3. CASE pc'[t] = "anota_espera" /\ \A u \in Hilos \ {t} : pc'[u] = pc[u]
    <3>1. Despierta(t) = {} /\ Despierta(t)' = {p} /\ SoloDespierta(t)
      BY <2>1, <2>2, <2>3 DEF Despierta, SoloDespierta, Bloqueo
    <3>. QED  BY <1>p, <2>1, <2>2, <3>1, BlockEntra
  <2>4. ASSUME pc'[t] = "libera_cpu", NEW x \in HilosIO, x[2] = p, x # t, pc[x] = "inactivo",
               pc'[x] = "io", \A u \in Hilos \ {t, x} : pc'[u] = pc[u]
        PROVE  InvBlock'
    <3>1. x \in Hilos /\ x \notin HilosCpu
      BY HilosDistintos
    <3>2. Despierta(x) = {} /\ Despierta(x)' = {p} /\ SoloDespierta(x)
      BY <2>1, <2>2, <2>4, <3>1 DEF Despierta, SoloDespierta, Bloqueo
    <3>. QED  BY <1>p, <2>1, <3>1, <3>2, BlockEntra
  <2>. QED  BY <1>4, <2>1, <2>3, <2>4, MueveBloqueo
<1>5. ASSUME UNCHANGED lista_espera, NEW u \in Hilos, Despierta(u)' # Despierta(u)
      PROVE  (\E c \in Cpus : ExecABlock(c)) \/ (\E t \in HilosIO : TerminarIO(t))
             \/ (\E c \in Cpus : AnotarEspera(c)) \/ (\E t \in HilosMemoria : Satisfacer(t))
  <2>1. ~ (pc'[u] = pc[u] /\ loc'[u] = loc[u])
    BY <1>5 DEF Despierta
  <2>2. ~ ({pc[u], pc'[u]} \cap {"encola", "a_exec", "io", "anota_espera"} = {})
    BY <1>5 DEF Despierta
  <2>3. ~ Encolar(u)
    <3>1. ASSUME Encolar(u) PROVE pc[u] = "encola" /\ pc'[u] = "postea_ready"
      BY <1>p, <3>1 DEF Encolar, Ir
    <3>. QED  BY <1>5, <3>1 DEF Despierta
  <2>4. ~ (u = HiloLP /\ AdmitirNew) /\ ~ (u = HiloCP /\ (Desencolar \/ PasarAExec))
    BY <1>5, HilosDistintos DEF Despierta, HilosCpu
  <2>5. ASSUME NEW c \in Cpus, u = HiloCpu(c), ExecAReady(c) PROVE FALSE
    <3>1. pc[u] = "vuelve_ready" /\ pc'[u] = "encola"
      BY <1>p, <2>5 DEF ExecAReady, Ir
    <3>. QED  BY <1>5, <3>1 DEF Despierta
  <2>. QED  BY <2>1, <2>2, <2>3, <2>4, <2>5, Movimiento
<1>6. ASSUME UNCHANGED <<lista_espera, cola_block>>, ConEstado("BLOCK")' = ConEstado("BLOCK")
      PROVE  InvBlock'
  BY <1>p, <1>1, <1>2, <1>3, <1>4, <1>5, <1>6, BlockIgual
<1>7. CASE AdmitirNew
  <2>1. Cambia(Head(cola_new), "NEW", "READY") /\ UNCHANGED <<lista_espera, cola_block>>
    BY <1>7, CambiaAdmitir DEF AdmitirNew
  <2>. QED  BY <1>p, <1>6, <2>1, ConjuntosCambia
<1>8. CASE PasarAExec
  <2>1. UNCHANGED <<lista_espera, cola_block>>
    BY <1>8 DEF PasarAExec
  <2>2. CASE pc'[HiloCP] = "encola"
    <3>1. UNCHANGED estado
      BY <1>p, <1>8, <2>2, HilosDistintos DEF PasarAExec, Ir
    <3>. QED  BY <1>6, <2>1, <3>1, ConjuntosIguales
  <2>3. CASE pc'[HiloCP] # "encola"
    BY <1>p, <1>6, <1>8, <2>1, <2>3, CambiaAExec, ConjuntosCambia
  <2>. QED  BY <2>2, <2>3
<1>9. ASSUME NEW c \in Cpus, ExecAReady(c) \/ ExecAExit(c) PROVE InvBlock'
  <2>1. UNCHANGED <<lista_espera, cola_block>>
    BY <1>9 DEF ExecAReady, ExecAExit
  <2>. QED  BY <1>p, <1>6, <1>9, <2>1, CambiaDeExec, ConjuntosCambia
<1>10. ASSUME NEW c \in Cpus, CrearProceso(c) PROVE InvBlock'
  <2>1. UNCHANGED <<lista_espera, cola_block>>
    BY <1>10 DEF CrearProceso
  <2>. QED  BY <1>p, <1>6, <1>10, <2>1, CambiaCrear, ConjuntosCambia, ConjuntosIguales
<1>. QED  BY <1>1, <1>2, <1>3, <1>4, <1>6, <1>7, <1>8, <1>9, <1>10, ConjuntosIguales,
          PasosDeEstado, PasosDeLista

-----------------------------------------------------------------------------
(* The invariant is preserved: processes in EXEC *)

DejaExec(c) == ExecAReady(c) \/ ExecAExit(c) \/ ExecABlock(c)

\* The process leaves EXEC by a step of the thread of its CPU, which no other
\* thread of a CPU takes part in.
LEMMA DejaExecMueve ==
  ASSUME InvTipos, NEW c \in Cpus, DejaExec(c)
  PROVE  /\ pc'[HiloCpu(c)] \in {"encola", "finaliza_km", "anota_espera", "libera_cpu"}
         /\ pc[HiloCpu(c)] \in {"vuelve_ready", "sale", "bloquea_io", "bloquea_memoria"}
         /\ \A d \in Cpus \ {c} : pc'[HiloCpu(d)] = pc[HiloCpu(d)]
         /\ pc'[HiloCP] = pc[HiloCP] /\ UNCHANGED <<loc, cpu, mutex_evento>>
<1>p. pc \in [Hilos -> Lugares] /\ \A d \in Cpus : HiloCpu(d) \in Hilos /\ HiloCpu(d) # HiloCP
      /\ HiloCP \in Hilos
  BY HilosDistintos DEF InvTipos, TypeOK, TypeHilos
<1>1. \A d \in Cpus \ {c} : HiloCpu(d) # HiloCpu(c)
  BY HiloDeUnaCpu
<1>2. CASE ExecAReady(c)
  BY <1>p, <1>1, <1>2 DEF ExecAReady, Ir, cpusKS, sinc
<1>3. CASE ExecAExit(c)
  BY <1>p, <1>1, <1>3 DEF ExecAExit, Ir, cpusKS, sinc
<1>4. CASE ExecABlock(c)
  <2>1. \A x \in HilosIO : x # HiloCP /\ \A d \in Cpus : x # HiloCpu(d)
    BY HilosDistintos
  <2>2. UNCHANGED <<loc, cpu, mutex_evento>>
    BY <1>4 DEF ExecABlock, cpusKS, sinc
  <2>. QED  BY <1>p, <1>1, <1>4, <2>1, <2>2, MueveBloqueo DEF Bloqueo
<1>. QED  BY <1>2, <1>3, <1>4 DEF DejaExec

\* Only these begin or end the work of a CPU's thread on its process.
LEMMA ManejadorQuieto ==
  ASSUME InvTipos, [Next]_vars, NEW c \in Cpus, ~ Recibir(c), ~ Enviar(HiloCpu(c)), ~ DejaExec(c)
  PROVE  EnManejador(c)' <=> EnManejador(c)
<1>. DEFINE u == HiloCpu(c)
<1>p. pc \in [Hilos -> Lugares] /\ loc \in [Hilos -> Locales] /\ u \in Hilos /\ u # HiloCP
      /\ u # HiloLP /\ u # HiloNT /\ u \notin HilosIO /\ u[1] # "IO"
  BY HilosDistintos DEF InvTipos, TypeOK, TypeHilos
<1>1. CASE pc'[u] = pc[u] /\ loc'[u] = loc[u]
  <2>1. ~ TomarEvento(u) /\ ~ (SoltarEvento(u) /\ pc[u] \in ConProceso)
    BY <1>p, <1>1 DEF TomarEvento, SoltarEvento, Ir, ConProceso
  <2>2. SoltarEvento(u) => pc[u] \notin ConProceso
    BY <2>1
  <2>. QED  BY <1>p, <1>1, <2>1, <2>2, EventoPropio DEF EnManejador
<1>2. CASE ~ (pc'[u] = pc[u] /\ loc'[u] = loc[u])
  <2>0. Paso(u)
    BY <1>p, <1>2, QuienMueve
  <2>1. CASE EncolarEnReady(u)
    <3>1. pc[u] \in {"encola", "postea_ready", "busca_victima", "desaloja"}
      BY <2>1 DEF EncolarEnReady, Encolar, PostearReady, BuscarVictima, Desalojar
    <3>2. pc'[u] \in {"postea_ready", "busca_victima", "desaloja", TrasEncolar(u)}
      BY <1>p, <2>1 DEF EncolarEnReady, Encolar, PostearReady, BuscarVictima, Desalojar, Ir
    <3>3. TrasEncolar(u) \in {"reintenta", "libera_cpu"}
      BY <1>p DEF TrasEncolar
    <3>. QED  BY <3>1, <3>2, <3>3 DEF EnManejador, ConProceso
  <2>2. CASE ActualizarContexto(u)
    <3>1. pc[u] = "contexto" /\ pc'[u] = "envia" /\ UNCHANGED mutex_evento
      BY <1>p, <2>2 DEF ActualizarContexto, Ir, sinc
    <3>. QED  BY <3>1 DEF EnManejador, ConProceso, EnEvento
  <2>3. CASE AtenderCpu(c)
    <3>1. UNCHANGED mutex_evento
      BY <2>3 DEF AtenderCpu, RegistrarCpu, PostearCpu, Recibir, LiberarCpu,
       ExecAReady, ExecAExit, FinalizarProcesoKM, ExecABlock, AnotarEspera, CrearProceso,
       EliminarSegmento, sinc
    <3>2. pc[u] \in ConProceso <=> pc'[u] \in ConProceso
      BY <1>p, <2>3 DEF AtenderCpu, RegistrarCpu, PostearCpu, LiberarCpu, DejaExec,
       FinalizarProcesoKM, AnotarEspera, CrearProceso, EliminarSegmento, Ir, ConProceso
    <3>. QED  BY <3>1, <3>2, SMTT(40) DEF EnManejador, EnEvento
  <2>4. CASE CrearSegmento(u) \/ Compactacion(u)
    <3>1. UNCHANGED mutex_evento
      BY <2>4 DEF CrearSegmento, CrearOK, CrearError, CrearCompacta, Compactacion,
       PausarPlanificacion, InterrumpirParaCompactar, Compactar, ReanudarPlanificacion, sinc
    <3>2. ASSUME ~ EnEvento(u) PROVE pc[u] \in ConProceso
      <4>1. pc[u] # "reintenta"
        BY <1>p, <3>2 DEF InvTipos, InvEvento
      <4>. QED  BY <2>4, <4>1 DEF CrearSegmento, CrearOK, CrearError, CrearCompacta, PideSegmento,
             Compactacion, PausarPlanificacion, InterrumpirParaCompactar, Compactar,
             ReanudarPlanificacion, ConProceso
    <3>3. ASSUME ~ EnEvento(u) PROVE pc'[u] \in ConProceso
      BY <1>p, <2>4, <3>3 DEF CrearSegmento, CrearOK, CrearError, CrearCompacta,
         Compactacion, PausarPlanificacion, InterrumpirParaCompactar, Compactar,
         ReanudarPlanificacion, ConProceso, TrasCrear, Ir
    <3>. QED  BY <3>1, <3>2, <3>3 DEF EnManejador, EnEvento
  <2>5. CASE EventoMemoria(u)
    <3>1. pc[u] \notin ConProceso
      BY <2>5 DEF EventoMemoria, TomarEvento, Satisfacer, SoltarEvento, ConProceso
    <3>2. pc'[u] \in {"reintenta", "encola", "recv", "libera_cpu"}
      BY <1>p, <2>5 DEF EventoMemoria, TomarEvento, Satisfacer, SoltarEvento, Ir, Locales
    <3>. QED  BY <3>1, <3>2 DEF EnManejador, ConProceso
  <2>6. \A d \in Cpus : u = HiloCpu(d) => d = c
    BY HiloDeUnaCpu
  <2>. QED  BY <1>p, <2>0, <2>1, <2>2, <2>3, <2>4, <2>5, <2>6 DEF Paso, Despachar
<1>. QED  BY <1>1, <1>2

\* Only its own thread and the corto plazo touch the record of a CPU, but to
\* interrupt it.
LEMMA CpuAjena ==
  ASSUME InvTipos, [Next]_vars, NEW c \in Cpus, ~ Recibir(c), ~ Enviar(HiloCpu(c)),
         ~ RegistrarCpu(c), ~ LiberarCpu(c), ~ (Enviar(HiloCP) /\ loc[HiloCP].cpu = c)
  PROVE  /\ cpu'[c].libre = cpu[c].libre /\ cpu'[c].pid = cpu[c].pid
         /\ cpu'[c].en_rafaga = cpu[c].en_rafaga
<1>p. DOMAIN cpu = Cpus
  BY DEF InvTipos, TypeOK, TypeCpus
<1>1. CASE CpusQuietas
  BY <1>1 DEF CpusQuietas, MismoCpu
<1>2. ASSUME NEW t \in {HiloCP} \cup HilosCpu, Enviar(t) PROVE cpu'[c] = cpu[c]
  <2>1. CpuDe(t) # c
    <3>1. CASE t = HiloCP
      BY <1>2, <3>1 DEF CpuDe
    <3>2. CASE t # HiloCP
      BY <1>2, <3>2, HilosDistintos DEF CpuDe, HilosCpu
    <3>. QED  BY <3>1, <3>2
  <2>. QED  BY <1>p, <1>2, <2>1 DEF Enviar
<1>3. ASSUME NEW d \in Cpus, RegistrarCpu(d) \/ Recibir(d) \/ LiberarCpu(d) PROVE cpu'[c] = cpu[c]
  BY <1>p, <1>3 DEF RegistrarCpu, Recibir, LiberarCpu
<1>4. ASSUME NEW d \in Cpus, ProgramaCpu(d) PROVE UNCHANGED cpu
  BY <1>4 DEF ProgramaCpu, CpuRecibe, FallarFetch, EjecutarComun, EjecutarSyscall, cpusKS
<1>. QED  BY <1>1, <1>2, <1>3, <1>4, PasosDeCpu

\* CPU c answers for the same process, or for none, after every other step.
LEMMA CargaQuieta ==
  ASSUME InvTipos, InvCompactacion, InvProcesos, [Next]_vars, NEW c \in Cpus, ~ DejaExec(c),
         ~ (Enviar(HiloCP) /\ loc[HiloCP].cpu = c)
  PROVE  Carga(c)' = Carga(c)
<1>. DEFINE u == HiloCpu(c)
<1>p. pc \in [Hilos -> Lugares] /\ u \in Hilos /\ DOMAIN cpu = Cpus /\ u # HiloCP
      /\ cpu[c] \in [libre : BOOLEAN, pid : Pids, en_rafaga : BOOLEAN, rafaga : Nat,
                      motivo : {"NINGUNA", "QUANTUM", "PREEMPCION", "COMPACTACION"}]
  BY HilosDistintos DEF InvTipos, TypeOK, TypeHilos, TypeCpus
<1>i. InvRafaga(c) /\ InvAtencion(c)
  BY DEF InvCompactacion
<1>1. CASE Recibir(c)
  <2>1. pc[u] = "recv" /\ red_ks[c] # <<>> /\ pc'[u] = TrasRecibir(Head(red_ks[c]))
    BY <1>p, <1>1 DEF Recibir, Ir
  <2>2. Tiene(c)
    BY <1>i, <2>1 DEF InvRafaga, Tiene
  <2>3. cpu'[c].libre = cpu[c].libre /\ cpu'[c].pid = cpu[c].pid
    BY <1>p, <1>1 DEF Recibir, FinDeRafaga
  <2>4. TrasRecibir(Head(red_ks[c])) \in ConProceso
    BY DEF TrasRecibir, ConProceso
  <2>5. ~ EnEvento(u) /\ UNCHANGED mutex_evento
    BY <1>1, <1>p, <2>1, ManejaSinEvento DEF Recibir, sinc
  <2>6. EnManejador(c)'
    BY <2>1, <2>4, <2>5 DEF EnManejador, EnEvento
  <2>. QED  BY <2>2, <2>3, <2>6 DEF Carga, Tiene
<1>2. CASE Enviar(u)
  <2>1. pc[u] = "envia" /\ CpuDe(u) = c
    BY <1>2, <1>p, HilosDistintos DEF Enviar, CpuDe
  <2>2. EnManejador(c)
    BY <1>p, <2>1, ManejaSinEvento DEF EnManejador, ConProceso
  <2>3. Tiene(c) /\ loc[u].pid = cpu[c].pid
    BY <2>2, EnManejadorTiene
  <2>4. ~ cpu'[c].libre /\ cpu'[c].en_rafaga /\ cpu'[c].pid = loc[u].pid
    BY <1>2, <1>p, <2>1 DEF Enviar
  <2>. QED  BY <2>3, <2>4, SMTT(40) DEF Carga, Tiene
<1>3. CASE RegistrarCpu(c) \/ LiberarCpu(c)
  <2>1. cpu'[c].libre
    <3>1. RegistrarCpu(c) => cpu'[c] = CpuInicial
      BY <1>p DEF RegistrarCpu
    <3>2. LiberarCpu(c) => cpu'[c] = [cpu[c] EXCEPT !.libre = TRUE, !.pid = 0, !.en_rafaga = FALSE]
      BY <1>p DEF LiberarCpu
    <3>3. CpuInicial.libre
      BY DEF CpuInicial
    <3>4. [cpu[c] EXCEPT !.libre = TRUE, !.pid = 0, !.en_rafaga = FALSE].libre
      BY <1>p
    <3>. QED  BY <1>3, <3>1, <3>2, <3>3, <3>4
  <2>2. pc[u] \in {"conecta", "libera_cpu"}
    BY <1>3 DEF RegistrarCpu, LiberarCpu
  <2>3. ~ EnManejador(c)
    BY <2>2 DEF EnManejador, ConProceso
  <2>4. pc[u] = "conecta" => ~ cpu[c].en_rafaga
    BY <1>i DEF InvRafaga, InvAtencion
  <2>5. pc[u] = "libera_cpu" => ~ cpu[c].en_rafaga
    BY <1>i, <1>p, ManejaSinEvento DEF InvAtencion, Atendiendo, Parada
  <2>. QED  BY <2>1, <2>2, <2>3, <2>4, <2>5 DEF Carga, Tiene
<1>4. CASE ~ Recibir(c) /\ ~ Enviar(u) /\ ~ RegistrarCpu(c) /\ ~ LiberarCpu(c)
  <2>1. /\ cpu'[c].libre = cpu[c].libre /\ cpu'[c].pid = cpu[c].pid
        /\ cpu'[c].en_rafaga = cpu[c].en_rafaga
    BY <1>4, CpuAjena
  <2>. QED  BY <1>4, <2>1, ManejadorQuieto DEF Carga, Tiene
<1>. QED  BY <1>1, <1>2, <1>3, <1>4

LEMMA CargaCPQuieta ==
  ASSUME InvTipos, [Next]_vars, ~ Enviar(HiloCP), ~ PasarAExec
  PROVE  CargaCP' = CargaCP
<1>. DEFINE u == HiloCP
<1>p. pc \in [Hilos -> Lugares] /\ loc \in [Hilos -> Locales] /\ u \in Hilos
  BY HilosDistintos DEF InvTipos, TypeOK, TypeHilos
<1>1. CASE pc'[u] = pc[u] /\ loc'[u] = loc[u]
  BY <1>1 DEF CargaCP
<1>2. CASE ~ (pc'[u] = pc[u] /\ loc'[u] = loc[u])
  <2>0. Paso(u)
    BY <1>p, <1>2, QuienMueve
  <2>1. CASE EncolarEnReady(u)
    <3>1. pc[u] \in {"encola", "postea_ready", "busca_victima", "desaloja"}
      BY <2>1 DEF EncolarEnReady, Encolar, PostearReady, BuscarVictima, Desalojar
    <3>2. pc'[u] \in {"postea_ready", "busca_victima", "desaloja", TrasEncolar(u)}
      BY <1>p, <2>1 DEF EncolarEnReady, Encolar, PostearReady, BuscarVictima, Desalojar, Ir
    <3>3. TrasEncolar(u) \in {"reintenta", "espera_ready"}
      BY DEF TrasEncolar, HiloCP, HiloLP
    <3>. QED  BY <3>1, <3>2, <3>3 DEF CargaCP
  <2>2. CASE CortoPlazo
    BY <1>p, <2>2 DEF CortoPlazo, EsperarReady, EsperarCpu, Desencolar, Ir, CargaCP
  <2>3. CASE ActualizarContexto(u)
    BY <1>p, <2>3 DEF ActualizarContexto, Ir, CargaCP
  <2>4. u # HiloLP /\ u # HiloNT /\ u \notin HilosMemoria /\ u \notin HilosIO
        /\ \A c \in Cpus : u # HiloCpu(c)
    BY HilosDistintos
  <2>. QED  BY <2>0, <2>1, <2>2, <2>3, <2>4 DEF Paso, Despachar
<1>. QED  BY <1>1, <1>2

\* Where the processes in EXEC are, when only these two may have changed.
LEMMA ExecSolo ==
  ASSUME NEW D \in SUBSET Cpus, \A c \in Cpus \ D : Carga(c)' = Carga(c)
  PROVE  /\ DOMAIN EnExec' = DOMAIN EnExec /\ HiloCP \in DOMAIN EnExec
         /\ EnExec[HiloCP] = CargaCP /\ EnExec'[HiloCP] = CargaCP'
         /\ \A c \in Cpus : /\ HiloCpu(c) \in DOMAIN EnExec \ {HiloCP}
                            /\ EnExec[HiloCpu(c)] = Carga(c) /\ EnExec'[HiloCpu(c)] = Carga(c)'
         /\ \A y \in DOMAIN EnExec \ ({HiloCP} \cup {HiloCpu(c) : c \in D}) :
              EnExec'[y] = EnExec[y]
<1>1. \A c \in Cpus : HiloCpu(c) \in DOMAIN EnExec \ {HiloCP} /\ HiloCpu(c)[2] = c
  BY HilosDistintos DEF EnExec
<1>2. \A y \in DOMAIN EnExec \ {HiloCP} : \E c \in Cpus : y = HiloCpu(c)
  BY DEF EnExec, HilosCpu
<1>3. \A c \in Cpus : EnExec[HiloCpu(c)] = Carga(c) /\ EnExec'[HiloCpu(c)] = Carga(c)'
  BY <1>1 DEF EnExec
<1>4. /\ DOMAIN EnExec' = DOMAIN EnExec /\ HiloCP \in DOMAIN EnExec
      /\ EnExec[HiloCP] = CargaCP /\ EnExec'[HiloCP] = CargaCP'
  BY DEF EnExec
<1>5. ASSUME NEW y \in DOMAIN EnExec \ ({HiloCP} \cup {HiloCpu(c) : c \in D})
      PROVE  EnExec'[y] = EnExec[y]
  <2>1. PICK c \in Cpus : y = HiloCpu(c)
    BY <1>2
  <2>2. c \notin D
    BY <1>5, <2>1
  <2>. QED  BY <1>3, <2>1, <2>2
<1>. QED  BY <1>1, <1>3, <1>4, <1>5

LEMMA ExecEnvia ==
  ASSUME InvTipos, InvCompactacion, InvProcesos, [Next]_vars, Enviar(HiloCP)
  PROVE  InvExec'
<1>p. pc \in [Hilos -> Lugares] /\ HiloCP \in Hilos /\ DOMAIN cpu = Cpus
  BY HilosDistintos DEF InvTipos, TypeOK, TypeHilos, TypeCpus
<1>0. pc[HiloCP] = "envia" /\ UNCHANGED <<estado, lista_exec>>
  BY DEF Enviar, pcbs, colas
<1>c. PICK c \in Cpus : c = loc[HiloCP].cpu /\ CpuDe(HiloCP) = c /\ cpu[c].libre
  BY <1>0, DestinoLibre DEF CpuDe
<1>. DEFINE p == loc[HiloCP].pid
            t == HiloCpu(c)
<1>1. pc[HiloCP] = "envia" /\ CpuDe(HiloCP) = c /\ UNCHANGED <<estado, lista_exec>>
  BY <1>0, <1>c
<1>2. c \in Cpus /\ cpu[c].libre
  BY <1>c
<1>3. CargaCP = {p} /\ CargaCP' = {}
  <2>1. pc'[HiloCP] = "espera_ready"
    BY <1>p DEF Enviar, Ir, TrasDespachar
  <2>. QED  BY <1>1, <2>1 DEF CargaCP
<1>4. Carga(c) = {} /\ Carga(c)' = {p}
  <2>1. cpu'[c] = [libre |-> FALSE, pid |-> p, en_rafaga |-> TRUE, rafaga |-> cpu[c].rafaga + 1,
                   motivo |-> "NINGUNA"]
    BY <1>p, <1>1, <1>2 DEF Enviar
  <2>. QED  BY <1>2, <2>1 DEF Carga, Tiene
<1>5. \A d \in Cpus : pc'[HiloCpu(d)] = pc[HiloCpu(d)]
  BY MueveUno, HilosDistintos DEF SoloMueve
<1>6. \A d \in Cpus : ~ DejaExec(d)
  BY <1>5, DejaExecMueve
<1>7. \A d \in Cpus \ {c} : Carga(d)' = Carga(d)
  BY <1>6, <1>c, CargaQuieta
<1>. HIDE DEF p
<1>8. /\ DOMAIN EnExec' = DOMAIN EnExec /\ HiloCP \in DOMAIN EnExec
      /\ t \in DOMAIN EnExec \ {HiloCP} /\ p \in EnExec[HiloCP]
      /\ EnExec'[HiloCP] = EnExec[HiloCP] \ {p} /\ EnExec'[t] = EnExec[t] \cup {p}
      /\ \A y \in DOMAIN EnExec \ {HiloCP, t} : EnExec'[y] = EnExec[y]
  <2>1. {c} \in SUBSET Cpus
    BY <1>2
  <2>2. {HiloCpu(d) : d \in {c}} = {t}
    OBVIOUS
  <2>. QED  BY <1>2, <1>3, <1>4, <1>7, <2>1, <2>2, ExecSolo
<1>. HIDE DEF t
<1>9. Reparto(EnExec, ConEstado("EXEC"))
  BY DEF InvProcesos, InvExec
<1>10. Reparto(EnExec', ConEstado("EXEC"))
  BY <1>8, <1>9, RepartoPasa
<1>11. ConEstado("EXEC")' = ConEstado("EXEC")
  BY <1>1, ConjuntosIguales
<1>12. Reparto(EnExec, ConEstado("EXEC"))'
  BY <1>10, <1>11 DEF Reparto
<1>. QED  BY <1>1, <1>11, <1>12 DEF InvProcesos, InvExec, ListaDe

LEMMA ExecEntra ==
  ASSUME InvTipos, InvCompactacion, InvProcesos, [Next]_vars, PasarAExec, pc'[HiloCP] # "encola"
  PROVE  InvExec'
<1>. DEFINE p == loc[HiloCP].pid
<1>p. pc \in [Hilos -> Lugares] /\ loc \in [Hilos -> Locales] /\ HiloCP \in Hilos /\ TypePcbs
      /\ lista_exec \in Seq(Pids) /\ InvExec
  BY HilosDistintos DEF InvTipos, TypeOK, TypeHilos, TypeColas, InvProcesos
<1>1. /\ Cambia(p, "READY", "EXEC") /\ lista_exec' = Append(lista_exec, p)
      /\ pc'[HiloCP] = "contexto" /\ pc[HiloCP] = "a_exec" /\ loc'[HiloCP].pid = p
  BY <1>p, CambiaAExec DEF PasarAExec, Ir, Locales
<1>2. CargaCP = {} /\ CargaCP' = {p}
  BY <1>1 DEF CargaCP
<1>3. \A d \in Cpus : pc'[HiloCpu(d)] = pc[HiloCpu(d)]
  BY MueveUno, HilosDistintos DEF SoloMueve
<1>4. \A d \in Cpus : ~ DejaExec(d)
  BY <1>3, DejaExecMueve
<1>5. ~ Enviar(HiloCP)
  BY <1>1 DEF Enviar
<1>6. \A d \in Cpus : Carga(d)' = Carga(d)
  BY <1>4, <1>5, CargaQuieta
<1>. HIDE DEF p
<1>7. /\ DOMAIN EnExec' = DOMAIN EnExec /\ HiloCP \in DOMAIN EnExec
      /\ EnExec'[HiloCP] = EnExec[HiloCP] \cup {p}
      /\ \A y \in DOMAIN EnExec \ {HiloCP} : EnExec'[y] = EnExec[y]
  <2>1. {HiloCpu(d) : d \in {}} = {} /\ {} \in SUBSET Cpus
    OBVIOUS
  <2>. QED  BY <1>2, <1>6, <2>1, ExecSolo
<1>8. ConEstado("EXEC")' = ConEstado("EXEC") \cup {p} /\ p \notin ConEstado("EXEC") /\ p \in Pids
  BY <1>p, <1>1, ConjuntosCambia, ZenonT(60) DEF Cambia
<1>9. Reparto(EnExec', ConEstado("EXEC") \cup {p})
  BY <1>p, <1>7, <1>8, RepartoEntra DEF InvExec
<1>10. Reparto(EnExec, ConEstado("EXEC"))'
  BY <1>8, <1>9 DEF Reparto
<1>11. IsInjective(lista_exec') /\ ToSet(lista_exec') = ToSet(lista_exec) \cup {p}
  BY <1>p, <1>1, <1>8, AppendSinRepetir, ToSetAppend DEF InvExec, ListaDe
<1>. QED  BY <1>p, <1>8, <1>10, <1>11 DEF InvExec, ListaDe

LEMMA ExecSale ==
  ASSUME InvTipos, InvCompactacion, InvProcesos, [Next]_vars, NEW c \in Cpus, DejaExec(c)
  PROVE  InvExec'
<1>. DEFINE t == HiloCpu(c)
            p == cpu[c].pid
<1>p. TypePcbs /\ lista_exec \in Seq(Pids) /\ InvExec
  BY DEF InvTipos, TypeOK, TypeColas, InvProcesos
<1>1. loc[t].pid = p /\ EnManejador(c) /\ Tiene(c) /\ Parada(c)
  BY CambiaDeExec, EnManejadorTiene DEF DejaExec
<1>2. lista_exec' = RemoveFirst(lista_exec, p)
  BY <1>1 DEF DejaExec, ExecAReady, ExecAExit, ExecABlock
<1>3. ConEstado("EXEC")' = ConEstado("EXEC") \ {p}
  BY <1>p, CambiaDeExec, ConjuntosCambia DEF DejaExec
<1>4. /\ pc'[t] \in {"encola", "finaliza_km", "anota_espera", "libera_cpu"}
      /\ \A d \in Cpus \ {c} : pc'[HiloCpu(d)] = pc[HiloCpu(d)]
      /\ pc'[HiloCP] = pc[HiloCP] /\ UNCHANGED <<loc, cpu, mutex_evento>>
  BY DejaExecMueve
<1>5. Carga(c) = {p} /\ Carga(c)' = {}
  BY <1>1, <1>4 DEF Carga, Tiene, EnManejador, ConProceso, Parada
<1>6. CargaCP' = CargaCP
  BY <1>4 DEF CargaCP
<1>7. \A d \in Cpus \ {c} : Carga(d)' = Carga(d)
  BY <1>4 DEF Carga, Tiene, EnManejador, EnEvento
<1>. HIDE DEF p
<1>8. /\ DOMAIN EnExec' = DOMAIN EnExec /\ t \in DOMAIN EnExec /\ p \in EnExec[t]
      /\ EnExec'[t] = EnExec[t] \ {p}
      /\ \A y \in DOMAIN EnExec \ {t} : EnExec'[y] = EnExec[y]
  <2>1. {HiloCpu(d) : d \in {c}} = {t} /\ {c} \in SUBSET Cpus
    OBVIOUS
  <2>. QED  BY <1>5, <1>6, <1>7, <2>1, ExecSolo
<1>. HIDE DEF t
<1>9. Reparto(EnExec', ConEstado("EXEC") \ {p})
  BY <1>p, <1>8, RepartoSale DEF InvExec
<1>10. Reparto(EnExec, ConEstado("EXEC"))'
  BY <1>3, <1>9 DEF Reparto
<1>11. IsInjective(lista_exec') /\ ToSet(lista_exec') = ToSet(lista_exec) \ {p}
  BY <1>p, <1>2, RemoveFirstElementos DEF InvExec, ListaDe
<1>. QED  BY <1>p, <1>3, <1>10, <1>11 DEF InvExec, ListaDe

LEMMA PasoExec ==
  ASSUME InvTipos, InvCompactacion, InvProcesos, [Next]_vars
  PROVE  InvExec'
<1>p. pc \in [Hilos -> Lugares] /\ TypePcbs /\ InvExec
  BY DEF InvTipos, TypeOK, TypeHilos, InvProcesos
<1>1. CASE Enviar(HiloCP)
  BY <1>1, ExecEnvia
<1>2. ASSUME NEW c \in Cpus, DejaExec(c) PROVE InvExec'
  BY <1>2, ExecSale
<1>3. CASE PasarAExec /\ pc'[HiloCP] # "encola"
  BY <1>3, ExecEntra
<1>4. CASE PasarAExec /\ pc'[HiloCP] = "encola"
  <2>1. /\ UNCHANGED <<estado, lista_exec>>
        /\ pc[HiloCP] = "a_exec"
    BY <1>p, <1>4, HilosDistintos DEF PasarAExec, Ir
  <2>2. CargaCP = {} /\ CargaCP' = {}
    BY <1>4, <2>1 DEF CargaCP
  <2>3. \A d \in Cpus : pc'[HiloCpu(d)] = pc[HiloCpu(d)]
    BY <1>4, MueveUno, HilosDistintos DEF SoloMueve
  <2>4. \A d \in Cpus : Carga(d)' = Carga(d)
    BY <2>1, <2>3, DejaExecMueve, CargaQuieta DEF Enviar
  <2>5. EnExec' = EnExec
    BY <2>2, <2>4, HilosDistintos DEF EnExec, HilosCpu
  <2>. QED  BY <1>p, <2>1, <2>5, ConjuntosIguales DEF InvExec, ListaDe, Reparto
<1>5. ASSUME ~ Enviar(HiloCP), \A c \in Cpus : ~ DejaExec(c), ~ PasarAExec
      PROVE  InvExec'
  <2>1. EnExec' = EnExec
    BY <1>5, CargaQuieta, CargaCPQuieta, HilosDistintos DEF EnExec, HilosCpu
  <2>2. UNCHANGED lista_exec /\ ConEstado("EXEC")' = ConEstado("EXEC")
    <3>1. CASE UNCHANGED <<estado, proximo_pid, cola_new, lista_exec, cola_block>>
      BY <3>1, ConjuntosIguales
    <3>2. CASE AdmitirNew
      <4>1. UNCHANGED lista_exec
        BY <3>2 DEF AdmitirNew
      <4>. QED  BY <1>p, <3>2, <4>1, CambiaAdmitir, ConjuntosCambia
    <3>3. ASSUME NEW c \in Cpus, CrearProceso(c)
          PROVE  UNCHANGED lista_exec /\ ConEstado("EXEC")' = ConEstado("EXEC")
      <4>1. UNCHANGED lista_exec
        BY <3>3 DEF CrearProceso
      <4>. QED  BY <1>p, <3>3, <4>1, CambiaCrear, ConjuntosCambia, ConjuntosIguales
    <3>4. ASSUME NEW t \in HilosIO, TerminarIO(t)
          PROVE  UNCHANGED lista_exec /\ ConEstado("EXEC")' = ConEstado("EXEC")
      <4>1. UNCHANGED lista_exec
        BY <3>4 DEF TerminarIO
      <4>. QED  BY <1>p, <3>4, <4>1, CambiaIO, ConjuntosCambia
    <3>5. ASSUME NEW t \in HilosMemoria, Satisfacer(t)
          PROVE  UNCHANGED lista_exec /\ ConEstado("EXEC")' = ConEstado("EXEC")
      <4>1. UNCHANGED lista_exec
        BY <3>5 DEF Satisfacer
      <4>. QED  BY <1>p, <3>5, <4>1, CambiaSatisfacer, ConjuntosCambia
    <3>. QED  BY <1>5, <3>1, <3>2, <3>3, <3>4, <3>5, PasosDeEstado DEF DejaExec
  <2>. QED  BY <1>p, <2>1, <2>2 DEF InvExec, ListaDe, Reparto
<1>. QED  BY <1>1, <1>2, <1>3, <1>4, <1>5

-----------------------------------------------------------------------------
(* The invariant is preserved: the memory event and the threads of the CPUs *)

\* Within the event a thread changes what it has still to retry in two ways.
LEMMA RestoPropio ==
  ASSUME InvTipos, [Next]_vars, NEW u \in Hilos, EnEvento(u), ~ Satisfacer(u)
  PROVE  \/ loc'[u].resto = loc[u].resto
         \/ loc'[u].resto = Tail(loc[u].resto) /\ CrearError(u)
<1>p. pc \in [Hilos -> Lugares] /\ loc \in [Hilos -> Locales] /\ pc[u] \in ConEvento
      /\ u \in HilosMemoria
  BY HilosDistintos DEF InvTipos, TypeOK, TypeHilos, TypeKM, InvEvento, EnEvento
<1>1. CASE pc'[u] = pc[u] /\ loc'[u] = loc[u]
  BY <1>1
<1>2. CASE ~ (pc'[u] = pc[u] /\ loc'[u] = loc[u])
  <2>0. Paso(u)
    BY <1>2, QuienMueve
  <2>1. CASE EncolarEnReady(u)
    BY <1>p, <2>1, SMTT(40) DEF EncolarEnReady, Encolar, PostearReady, BuscarVictima, Desalojar, Locales
  <2>2. ASSUME NEW c \in Cpus, u = HiloCpu(c), AtenderCpu(c) PROVE FALSE
    BY <1>p, <2>2 DEF AtenderCpu, RegistrarCpu, PostearCpu, Recibir, LiberarCpu,
       ExecAReady, ExecAExit, FinalizarProcesoKM, ExecABlock, AnotarEspera, CrearProceso,
       EliminarSegmento, ConEvento, Bloqueo
  <2>3. ~ Despachar(u)
    BY <1>p DEF Despachar, ActualizarContexto, Enviar, ConEvento
  <2>4. CASE CrearSegmento(u)
    BY <1>p, <2>4 DEF CrearSegmento, CrearOK, CrearError, CrearCompacta, Locales
  <2>5. CASE Compactacion(u)
    BY <1>p, <2>5 DEF Compactacion, PausarPlanificacion, InterrumpirParaCompactar, Compactar,
       ReanudarPlanificacion, Locales
  <2>6. CASE EventoMemoria(u)
    <3>1. ~ TomarEvento(u)
      BY <1>p DEF TomarEvento, ConEvento
    <3>2. CASE SoltarEvento(u)
      <4>1. loc[u].resto = <<>> /\ loc'[u] = LocInicial
        BY <1>p, <3>2 DEF SoltarEvento
      <4>. QED  BY <4>1 DEF LocInicial
    <3>. QED  BY <2>6, <3>1, <3>2 DEF EventoMemoria
  <2>7. ~ (u = HiloNT /\ NuevoStick)
    BY <1>p DEF NuevoStick, ConEvento
  <2>. QED  BY <1>p, <2>0, <2>1, <2>2, <2>3, <2>4, <2>5, <2>6, <2>7, HilosDistintos DEF Paso
<1>. QED  BY <1>1, <1>2

LEMMA PasoResto ==
  ASSUME InvTipos, InvCompactacion, InvProcesos, [Next]_vars
  PROVE  InvResto'
<1>p. loc \in [Hilos -> Locales] /\ lista_espera \in Seq(Pedidos)
      /\ pc \in [Hilos -> Lugares]
  BY DEF InvTipos, TypeOK, TypeHilos, TypeColas
<1>i. InvResto /\ IsInjective(lista_espera)
  BY DEF InvProcesos, InvBlock
<1>. SUFFICES ASSUME NEW u \in Hilos, EnEvento(u)'
              PROVE  IsInjective(loc'[u].resto) /\ ToSet(loc'[u].resto) \subseteq ToSet(lista_espera')
  BY DEF InvResto, EnEvento
<1>1. CASE TomarEvento(u)
  <2>1. loc'[u].resto = lista_espera /\ UNCHANGED lista_espera
    BY <1>p, <1>1 DEF TomarEvento, colas, Locales
  <2>. QED  BY <1>i, <2>1
<1>2. CASE ~ TomarEvento(u)
  <2>1. ~ SoltarEvento(u)
    BY HilosDistintos DEF SoltarEvento, EnEvento
  <2>2. EnEvento(u)
    BY <1>2, <2>1, EventoPropio
  <2>3. /\ loc[u].resto \in Seq(Pedidos) /\ IsInjective(loc[u].resto)
        /\ ToSet(loc[u].resto) \subseteq ToSet(lista_espera)
    BY <1>p, <1>i, <2>2 DEF InvResto, Locales
  <2>4. \A t \in Hilos : EnEvento(t) => t = u
    BY <2>2 DEF EnEvento
  <2>5. ASSUME NEW t \in HilosMemoria, Satisfacer(t)
        PROVE  IsInjective(loc'[u].resto) /\ ToSet(loc'[u].resto) \subseteq ToSet(lista_espera')
    <3>1. t = u /\ loc[u].resto # <<>>
      BY <2>4, <2>5, CambiaSatisfacer
    <3>. DEFINE q == Head(loc[u].resto)
    <3>2. loc'[u].resto = Tail(loc[u].resto) /\ lista_espera' = RemoveFirst(lista_espera, q)
      BY <1>p, <2>5, <3>1 DEF Satisfacer, Locales
    <3>3. IsInjective(Tail(loc[u].resto)) /\ ToSet(Tail(loc[u].resto)) = ToSet(loc[u].resto) \ {q}
      BY <2>3, <3>1, CabezaYCola
    <3>4. ToSet(lista_espera') = ToSet(lista_espera) \ {q}
      BY <1>p, <1>i, <3>2, RemoveFirstElementos
    <3>. QED  BY <2>3, <3>2, <3>3, <3>4
  <2>6. CASE \A t \in HilosMemoria : ~ Satisfacer(t)
    <3>1. ToSet(lista_espera) \subseteq ToSet(lista_espera')
      <4>1. ASSUME NEW c \in Cpus, AnotarEspera(c)
            PROVE  ToSet(lista_espera) \subseteq ToSet(lista_espera')
        <5>1. HiloCpu(c) \in Hilos /\ pc[HiloCpu(c)] = "anota_espera"
          BY <4>1, HilosDistintos DEF AnotarEspera
        <5>2. Pedido(HiloCpu(c)) \in Pedidos
          BY <5>1, PedidoTipo, ManejaSinEvento
        <5>. QED  BY <1>p, <4>1, <5>2, ToSetAppend DEF AnotarEspera
      <4>. QED  BY <2>6, <4>1, PasosDeLista
    <3>2. u \in HilosMemoria
      BY <2>2, HilosDistintos DEF EnEvento, InvTipos, TypeOK, TypeKM
    <3>3. \/ loc'[u].resto = loc[u].resto
          \/ loc'[u].resto = Tail(loc[u].resto) /\ CrearError(u)
      BY <2>2, <2>6, <3>2, RestoPropio
    <3>4. ASSUME CrearError(u) PROVE loc[u].resto # <<>>
      <4>1. \/ pc[u] = "reintenta" /\ loc[u].resto # <<>>
            \/ pc[u] = "crea_segmento"
        BY <3>4 DEF CrearError, PideSegmento
      <4>. QED  BY <2>2, <4>1, ManejaSinEvento
    <3>. QED  BY <2>3, <3>1, <3>3, <3>4, CabezaYCola
  <2>. QED  BY <2>5, <2>6
<1>. QED  BY <1>1, <1>2

LEMMA PasoAtiende ==
  ASSUME InvTipos, InvCompactacion, InvProcesos, [Next]_vars
  PROVE  InvAtiende'
<1>. SUFFICES ASSUME NEW c \in Cpus, pc'[HiloCpu(c)] \in Atendiendo \ {"libera_cpu"},
                     ~ EnEvento(HiloCpu(c))'
              PROVE  loc'[HiloCpu(c)].pid = cpu'[c].pid
  BY DEF InvAtiende, EnEvento
<1>. DEFINE u == HiloCpu(c)
<1>p. pc \in [Hilos -> Lugares] /\ loc \in [Hilos -> Locales] /\ u \in Hilos /\ u # HiloCP
      /\ u # HiloLP /\ u # HiloNT /\ u \notin HilosIO /\ u[1] # "IO" /\ TypeCpus
      /\ \A d \in Cpus : u = HiloCpu(d) => d = c
  BY HilosDistintos, HiloDeUnaCpu DEF InvTipos, TypeOK, TypeHilos
<1>i. InvAtiende /\ InvAtencion(c)
  BY DEF InvProcesos, InvCompactacion
<1>1. CASE Recibir(c)
  <2>1. loc'[u] = [LocInicial EXCEPT !.pid = cpu[c].pid, !.inst = Head(red_ks[c]).inst,
                     !.frente = Head(red_ks[c]).tipo = "INTERRUPCION"
                                /\ cpu[c].motivo = "COMPACTACION"]
    BY <1>p, <1>1 DEF Recibir
  <2>2. cpu'[c] = [cpu[c] EXCEPT !.en_rafaga = FALSE, !.motivo = "NINGUNA"]
    BY <1>p, <1>1 DEF Recibir, FinDeRafaga, TypeCpus
  <2>3. cpu'[c].pid = cpu[c].pid
    BY <1>p, <2>2 DEF TypeCpus
  <2>. QED  BY <2>1, <2>3 DEF LocInicial
<1>2. CASE ~ Recibir(c)
  <2>1. ~ Enviar(u) /\ ~ LiberarCpu(c) /\ ~ RegistrarCpu(c)
    <3>1. TrasDespachar(u) \in {"evento", "recv"}
      BY <1>p DEF TrasDespachar
    <3>2. Enviar(u) => pc'[u] = TrasDespachar(u)
      BY <1>p DEF Enviar, Ir
    <3>3. LiberarCpu(c) \/ RegistrarCpu(c) => pc'[u] = "postea_cpu"
      BY <1>p DEF LiberarCpu, RegistrarCpu, Ir
    <3>. QED  BY <3>1, <3>2, <3>3 DEF Atendiendo
  <2>2. /\ pc[u] \in Atendiendo \ {"libera_cpu"} /\ ~ EnEvento(u)
        /\ loc'[u].pid = loc[u].pid
    <3>1. CASE pc'[u] = pc[u] /\ loc'[u] = loc[u]
      <4>1. ~ TomarEvento(u) /\ ~ SoltarEvento(u)
        BY <1>p, <3>1 DEF TomarEvento, SoltarEvento, Ir, Atendiendo
      <4>. QED  BY <1>p, <3>1, <4>1, EventoPropio
    <3>2. CASE ~ (pc'[u] = pc[u] /\ loc'[u] = loc[u])
      <4>0. Paso(u)
        BY <1>p, <3>2, QuienMueve
      <4>1. CASE EncolarEnReady(u)
        BY <1>p, <4>1 DEF EncolarEnReady, Encolar, PostearReady, BuscarVictima, Desalojar, Ir,
           sinc, EnEvento, Atendiendo, Locales
      <4>2. CASE ActualizarContexto(u)
        BY <1>p, <4>2, SMTT(40) DEF ActualizarContexto, Ir, sinc, EnEvento, Atendiendo
      <4>3. CASE AtenderCpu(c) /\ ~ ExecABlock(c)
        BY <1>p, <1>2, <2>1, <4>3 DEF AtenderCpu, PostearCpu, ExecAReady, ExecAExit,
           FinalizarProcesoKM, AnotarEspera, CrearProceso, EliminarSegmento, Ir, sinc,
           EnEvento, Atendiendo, Locales
      <4>4. CASE ExecABlock(c)
        BY <1>p, <4>4 DEF ExecABlock, sinc, EnEvento, Atendiendo, Bloqueo
      <4>5. CASE CrearSegmento(u) \/ Compactacion(u)
        <5>1. UNCHANGED mutex_evento
          BY <4>5 DEF CrearSegmento, CrearOK, CrearError, CrearCompacta, Compactacion,
           PausarPlanificacion, InterrumpirParaCompactar, Compactar, ReanudarPlanificacion, sinc
        <5>2. ~ EnEvento(u)
          BY <5>1 DEF EnEvento
        <5>3. pc[u] # "reintenta"
          BY <1>p, <5>2 DEF InvTipos, InvEvento
        <5>4. pc[u] \in Atendiendo \ {"libera_cpu"}
          BY <4>5, <5>3 DEF CrearSegmento, CrearOK, CrearError, CrearCompacta, PideSegmento,
             Compactacion, PausarPlanificacion, InterrumpirParaCompactar, Compactar,
             ReanudarPlanificacion, Atendiendo
        <5>5. loc'[u].pid = loc[u].pid
          BY <1>p, <4>5, <5>2 DEF CrearSegmento, CrearOK, CrearError, CrearCompacta,
             Compactacion, PausarPlanificacion, InterrumpirParaCompactar, Compactar,
             ReanudarPlanificacion, Locales
        <5>. QED  BY <5>2, <5>4, <5>5
      <4>6. CASE EventoMemoria(u)
        <5>1. CASE TomarEvento(u) \/ SoltarEvento(u)
          <6>1. pc'[u] \in {"reintenta", "recv", "libera_cpu"}
            BY <1>p, <5>1 DEF TomarEvento, SoltarEvento, Ir, Locales
          <6>. QED  BY <6>1 DEF Atendiendo
        <5>2. CASE Satisfacer(u)
          BY <1>p, <5>2 DEF Satisfacer, InvTipos, InvEvento, EnEvento, sinc
        <5>. QED  BY <4>6, <5>1, <5>2 DEF EventoMemoria
      <4>. QED  BY <1>p, <2>1, <4>0, <4>1, <4>2, <4>3, <4>4, <4>5, <4>6 DEF Paso, Despachar
    <3>. QED  BY <3>1, <3>2
  <2>3. loc[u].pid = cpu[c].pid /\ ~ cpu[c].libre
    BY <1>i, <2>2 DEF InvAtiende, InvAtencion, Parada
  <2>4. ~ (Enviar(HiloCP) /\ loc[HiloCP].cpu = c)
    BY <2>3, DestinoLibre DEF Enviar, CpuDe
  <2>5. cpu'[c].pid = cpu[c].pid
    BY <1>2, <2>1, <2>4, CpuAjena
  <2>. QED  BY <2>2, <2>3, <2>5
<1>. QED  BY <1>1, <1>2

-----------------------------------------------------------------------------

\* It is inductive together with the invariants of the types and of the bursts.
LEMMA PasoProcesos ==
  InvTipos /\ InvCompactacion /\ InvProcesos /\ [Next]_vars
    => (InvTipos /\ InvCompactacion /\ InvProcesos)'
<1>1. InvTipos /\ [Next]_vars => InvTipos'
  BY PasoPcbs, PasoColas, PasoCpus, PasoKM, PasoHilos, PasoEvento, PasoDespacho
     DEF InvTipos, TypeOK
<1>2. InvTipos /\ InvCompactacion /\ [Next]_vars => InvCompactacion'
  BY PasoZona, PasoRafaga, PasoAtencion, PasoDestino DEF InvCompactacion
<1>. QED  BY <1>1, <1>2, PasoCreados, PasoReady, PasoExec, PasoBlock, PasoResto, PasoAtiende
          DEF InvProcesos

LEMMA InitProcesos == Init => InvProcesos
<1>. SUFFICES ASSUME Init PROVE InvProcesos
  OBVIOUS
<1>0. 0 \in Pids /\ Pids \subseteq Nat
  BY PidsConCero
<1>1. \A t \in Hilos : pc[t] \in {"espera_new", "espera_ready", "conecta", "inactivo"}
  BY DEF Init
<1>2. /\ ConEstado("NEW") = {0} /\ ConEstado("READY") = {} /\ ConEstado("EXEC") = {}
      /\ ConEstado("BLOCK") = {}
  BY <1>0 DEF Init, ConEstado
<1>3. ASSUME NEW f, \A x \in DOMAIN f : f[x] = {} PROVE Reparto(f, {})
  BY <1>3 DEF Reparto
<1>4. IsInjective(<<>>) /\ ToSet(<<>>) = {} /\ ToSet(<<0>>) = {0} /\ IsInjective(<<0>>)
  <2>1. DOMAIN <<>> = {} /\ DOMAIN <<0>> = {1} /\ <<0>>[1] = 0
    OBVIOUS
  <2>. QED  BY <2>1 DEF ToSet, IsInjective
<1>5. InvCreados
  <2>1. \A p \in Pids : estado[p] = "NO_CREADO" <=> p >= proximo_pid
    BY <1>0 DEF Init
  <2>2. cola_new = <<0>>
    BY DEF Init
  <2>. QED  BY <1>2, <1>4, <2>1, <2>2 DEF InvCreados, ListaDe
<1>6. InvReady
  <2>1. \A q \in 0 .. CantColas - 1 : colas_ready[q] = <<>>
    BY DEF Init
  <2>2. \A x \in DOMAIN EnReady : EnReady[x] = {}
    BY <1>1, <1>4, <2>1 DEF EnReady, EnMano, Colas, Cola
  <2>. QED  BY <1>2, <1>3, <1>4, <2>1, <2>2 DEF InvReady
<1>7. InvExec
  <2>1. \A c \in Cpus : cpu[c].libre
    BY DEF Init, CpuInicial
  <2>2. \A x \in DOMAIN EnExec : EnExec[x] = {}
    BY <1>1, <2>1, HilosDistintos DEF EnExec, HilosCpu, CargaCP, Carga, Tiene
  <2>3. lista_exec = <<>>
    BY DEF Init
  <2>. QED  BY <1>2, <1>3, <1>4, <2>2, <2>3 DEF InvExec, ListaDe
<1>8. InvBlock
  <2>1. lista_espera = <<>> /\ cola_block = {}
    BY DEF Init
  <2>2. ToSet(lista_espera) = {} /\ PidsEnEspera = {}
    BY <1>4, <2>1 DEF PidsEnEspera
  <2>3. \A x \in DOMAIN EnBlock : EnBlock[x] = {}
    BY <1>1, <2>2 DEF EnBlock, Despierta
  <2>. QED  BY <1>2, <1>3, <1>4, <2>1, <2>2, <2>3 DEF InvBlock
<1>9. InvResto
  BY HilosDistintos DEF Init, InvResto, EnEvento
<1>10. InvAtiende
  <2>1. \A c \in Cpus : pc[HiloCpu(c)] = "conecta"
    BY HilosDistintos DEF Init
  <2>. QED  BY <2>1 DEF InvAtiende, Atendiendo
<1>. QED  BY <1>5, <1>6, <1>7, <1>8, <1>9, <1>10 DEF InvProcesos

-----------------------------------------------------------------------------
(* What follows from it *)

\* In a list without repetitions an element has one position, or none.
LEMMA PosicionesDe ==
  ASSUME NEW T, NEW s \in Seq(T), IsInjective(s), NEW p
  PROVE  Cardinality(Posiciones(s, p)) = IF p \in ToSet(s) THEN 1 ELSE 0
<1>1. CASE p \in ToSet(s)
  <2>1. PICK i \in DOMAIN s : s[i] = p
    BY <1>1 DEF ToSet
  <2>2. Posiciones(s, p) = {i}
    BY <2>1 DEF Posiciones, IsInjective
  <2>. QED  BY <1>1, <2>2, FS_Singleton
<1>2. CASE p \notin ToSet(s)
  <2>1. Posiciones(s, p) = {}
    BY <1>2 DEF Posiciones, ToSet
  <2>. QED  BY <1>2, <2>1, FS_EmptySet
<1>. QED  BY <1>1, <1>2

LEMMA LugaresReadyDe ==
  ASSUME InvTipos, InvReady, NEW p \in Pids
  PROVE  Cardinality(LugaresReady(p)) = IF estado[p] = "READY" THEN 1 ELSE 0
<1>. DEFINE enCola(q) == {<<"cola", q, i>> : i \in Posiciones(colas_ready[q], p)}
            enColas == UNION {enCola(q) : q \in 0 .. CantColas - 1}
            enMano == {<<"mano", t>> : t \in {u \in Hilos : p \in EnMano(u)}}
<1>1. LugaresReady(p) = enColas \cup enMano
  BY DEF LugaresReady
<1>2. ASSUME NEW q \in 0 .. CantColas - 1
      PROVE  /\ Cola(q) \in DOMAIN EnReady /\ EnReady[Cola(q)] = ToSet(colas_ready[q])
             /\ p \notin ToSet(colas_ready[q]) => enCola(q) = {}
  <2>1. Cola(q) \in Colas /\ Cola(q)[2] = q
    BY DEF Colas, Cola
  <2>. QED  BY <2>1 DEF EnReady, Posiciones, ToSet
<1>3. ASSUME NEW t \in Hilos PROVE t \in DOMAIN EnReady /\ EnReady[t] = EnMano(t) /\ t \notin Colas
  <2>1. t \notin Colas
    BY DEF Colas, Cola, Hilos, HiloLP, HiloCP, HiloNT, HilosCpu, HiloCpu, HilosIO, HiloIO
  <2>. QED  BY <2>1 DEF EnReady
<1>4. \A q, r \in 0 .. CantColas - 1 : Cola(q) = Cola(r) => q = r
  BY DEF Cola
<1>5. CASE estado[p] # "READY"
  <2>1. \A x \in DOMAIN EnReady : p \notin EnReady[x]
    BY <1>5 DEF InvReady, Reparto, ConEstado
  <2>2. \A q \in 0 .. CantColas - 1 : enCola(q) = {}
    BY <1>2, <2>1
  <2>3. enMano = {}
    BY <1>3, <2>1
  <2>4. LugaresReady(p) = {}
    BY <1>1, <2>2, <2>3
  <2>. QED  BY <1>5, <2>4, FS_EmptySet
<1>6. CASE estado[p] = "READY"
  <2>1. PICK x \in DOMAIN EnReady : p \in EnReady[x]
    BY <1>6 DEF InvReady, Reparto, ConEstado
  <2>2. \A y \in DOMAIN EnReady : p \in EnReady[y] => y = x
    BY <2>1 DEF InvReady, Reparto
  <2>3. CASE x \in Colas
    <3>1. PICK q \in 0 .. CantColas - 1 : x = Cola(q)
      BY <2>3 DEF Colas
    <3>2. \A r \in 0 .. CantColas - 1 : r # q => enCola(r) = {}
      BY <1>2, <1>4, <2>2, <3>1
    <3>3. enMano = {}
      BY <1>3, <2>2, <2>3
    <3>4. PICK i \in DOMAIN colas_ready[q] : colas_ready[q][i] = p
      BY <1>2, <2>1, <3>1 DEF ToSet
    <3>5. Posiciones(colas_ready[q], p) = {i}
      BY <3>4 DEF Posiciones, InvReady, IsInjective
    <3>6. enCola(q) = {<<"cola", q, i>>}
      BY <3>5
    <3>. HIDE DEF enCola, enMano
    <3>7. enColas = {<<"cola", q, i>>}
      BY <3>2, <3>6
    <3>. HIDE DEF enColas
    <3>8. LugaresReady(p) = {<<"cola", q, i>>}
      BY <1>1, <3>3, <3>7
    <3>. QED  BY <1>6, <3>8, FS_Singleton
  <2>4. CASE x \notin Colas
    <3>1. x \in Hilos
      BY <2>4 DEF EnReady
    <3>2. \A q \in 0 .. CantColas - 1 : enCola(q) = {}
      <4>1. ASSUME NEW q \in 0 .. CantColas - 1 PROVE p \notin ToSet(colas_ready[q])
        <5>1. Cola(q) # x
          BY <2>4 DEF Colas
        <5>. QED  BY <1>2, <2>2, <5>1
      <4>. QED  BY <1>2, <4>1
    <3>3. {u \in Hilos : p \in EnMano(u)} = {x}
      BY <1>3, <2>1, <2>2, <3>1
    <3>4. enMano = {<<"mano", x>>}
      BY <3>3
    <3>5. enColas = {}
      BY <3>2
    <3>. HIDE DEF enColas, enMano
    <3>6. LugaresReady(p) = {<<"mano", x>>}
      BY <1>1, <3>4, <3>5
    <3>. QED  BY <1>6, <3>6, FS_Singleton
  <2>. QED  BY <2>3, <2>4
<1>. QED  BY <1>5, <1>6

LEMMA EnUnSoloLugar ==
  ASSUME InvTipos, InvProcesos
  PROVE  UnSoloLugar
<1>. SUFFICES ASSUME NEW p \in Pids
              PROVE  /\ Cardinality(Posiciones(cola_new, p)) = (IF estado[p] = "NEW" THEN 1 ELSE 0)
                     /\ Cardinality(LugaresReady(p)) = (IF estado[p] = "READY" THEN 1 ELSE 0)
                     /\ Cardinality(Posiciones(lista_exec, p)) = (IF estado[p] = "EXEC" THEN 1 ELSE 0)
                     /\ p \in cola_block <=> estado[p] = "BLOCK"
                     /\ \A i \in DOMAIN lista_espera :
                          lista_espera[i].pid = p => estado[p] = "BLOCK"
  BY DEF UnSoloLugar
<1>1. Cardinality(Posiciones(cola_new, p)) = (IF estado[p] = "NEW" THEN 1 ELSE 0)
  <2>1. cola_new \in Seq(Pids) /\ IsInjective(cola_new)
        /\ (p \in ToSet(cola_new) <=> estado[p] = "NEW")
    BY DEF InvTipos, TypeOK, TypeColas, InvProcesos, InvCreados, ListaDe, ConEstado
  <2>. QED  BY <2>1, PosicionesDe
<1>2. Cardinality(Posiciones(lista_exec, p)) = (IF estado[p] = "EXEC" THEN 1 ELSE 0)
  <2>1. lista_exec \in Seq(Pids) /\ IsInjective(lista_exec)
        /\ (p \in ToSet(lista_exec) <=> estado[p] = "EXEC")
    BY DEF InvTipos, TypeOK, TypeColas, InvProcesos, InvExec, ListaDe, ConEstado
  <2>. QED  BY <2>1, PosicionesDe
<1>3. p \in cola_block <=> estado[p] = "BLOCK"
  BY DEF InvProcesos, InvBlock, ConEstado
<1>4. ASSUME NEW i \in DOMAIN lista_espera, lista_espera[i].pid = p PROVE estado[p] = "BLOCK"
  <2>1. lista_espera[i] \in ToSet(lista_espera)
    BY DEF ToSet
  <2>. QED  BY <1>4, <2>1, DeListaBlock DEF InvProcesos, ConEstado
<1>. QED  BY <1>1, <1>2, <1>3, <1>4, LugaresReadyDe DEF InvProcesos

LEMMA HaySuProceso ==
  ASSUME InvTipos, InvCompactacion, InvProcesos
  PROVE  ManejadorEncuentraSuProceso
<1>1. ASSUME NEW c \in Cpus, red_ks[c] # <<>>
      PROVE  ~ cpu[c].libre /\ cpu[c].pid \in ToSet(lista_exec)
  <2>1. Tiene(c)
    BY <1>1 DEF InvCompactacion, InvRafaga, Tiene
  <2>2. cpu[c].pid \in ConEstado("EXEC")
    BY <2>1, DeCargaExec DEF InvProcesos
  <2>. QED  BY <2>1, <2>2 DEF Tiene, InvProcesos, InvExec, ListaDe
<1>. QED  BY <1>1 DEF ManejadorEncuentraSuProceso

\* The invariant the theorems about processes rest on.
LEMMA ProcesosInductivo == Spec => [](InvTipos /\ InvCompactacion /\ InvProcesos)
<1>1. Init => InvTipos /\ InvCompactacion /\ InvProcesos
  BY InitTipos, InitCompactacion, InitProcesos
<1>. QED  BY <1>1, PasoProcesos, PTL DEF Spec

\* A process is always in exactly one place, the one its estado says: a list, or
\* the hands of the one thread that moves it.
THEOREM SiempreEnUnLugar == Spec => []UnSoloLugar
BY ProcesosInductivo, EnUnSoloLugar, PTL

\* The handler of a CPU that sends a message finds its process in lista_exec.
THEOREM ElManejadorEncuentra == Spec => []ManejadorEncuentraSuProceso
BY ProcesosInductivo, HaySuProceso, PTL

-----------------------------------------------------------------------------
(* The semaphores count what they stand for *)

\* The processes in the READY queues, and the threads that have put one there and
\* not yet posted it; the free CPUs, and the threads about to post theirs.
EnColas == UNION {ToSet(colas_ready[q]) : q \in 0 .. CantColas - 1}
Posteando == {t \in Hilos : pc[t] = "postea_ready"}
CpusLibres == {c \in ToSet(cpus_conectadas) : cpu[c].libre}
PosteandoCpu == {c \in Cpus : pc[HiloCpu(c)] = "postea_cpu"}

\* What the corto plazo has taken from a semaphore and not yet used
Tomada(puntos) == IF pc[HiloCP] \in puntos THEN 1 ELSE 0

\* The corto plazo never gives a process back, for it finds a free CPU.
CaminoCP == {"espera_ready", "espera_cpu", "desencola", "a_exec", "contexto", "envia"}

InvSemaforos ==
  /\ pc[HiloCP] \in CaminoCP /\ IsFiniteSet(Posteando)
  /\ Cardinality(EnColas) =
       sem_ready + Cardinality(Posteando) + Tomada({"espera_cpu", "desencola"})
  /\ Cardinality(CpusLibres) =
       sem_cpus + Cardinality(PosteandoCpu) + Tomada({"desencola", "a_exec", "contexto", "envia"})

\* One more, and one less
LEMMA UnoMas ==
  ASSUME NEW S, IsFiniteSet(S), NEW x, x \notin S
  PROVE  /\ IsFiniteSet(S \cup {x}) /\ Cardinality(S \cup {x}) = Cardinality(S) + 1
         /\ Cardinality(S) \in Nat
BY FS_AddElement, FS_CardinalityType

LEMMA UnoMenos ==
  ASSUME NEW S, IsFiniteSet(S), NEW x \in S
  PROVE  /\ IsFiniteSet(S \ {x}) /\ Cardinality(S \ {x}) = Cardinality(S) - 1
         /\ Cardinality(S) \in Nat
BY FS_RemoveElement, FS_CardinalityType

LEMMA ContablesFinitos ==
  ASSUME InvTipos
  PROVE  IsFiniteSet(EnColas) /\ IsFiniteSet(CpusLibres) /\ IsFiniteSet(PosteandoCpu)
<1>1. IsFiniteSet(Pids)
  <2>1. MaxProcesos - 1 \in Int
    BY ConstantesOK
  <2>. QED  BY <2>1, FS_Interval DEF Pids
<1>2. EnColas \subseteq Pids
  BY DEF EnColas, ToSet, InvTipos, TypeOK, TypeColas
<1>3. CpusLibres \subseteq Cpus /\ PosteandoCpu \subseteq Cpus
  BY DEF CpusLibres, PosteandoCpu, ToSet, InvTipos, TypeOK, TypeCpus
<1>. QED  BY <1>1, <1>2, <1>3, FS_Subset, ConstantesOK

\* The process that a thread enqueues was in no queue, and the one the corto plazo
\* takes is in no other.
LEMMA ColasTrasEncolar ==
  ASSUME InvTipos, InvReady, NEW t \in Hilos, Encolar(t)
  PROVE  EnColas' = EnColas \cup {loc[t].pid} /\ loc[t].pid \notin EnColas
<1>. DEFINE p == loc[t].pid
            q == ColaDe(p)
<1>p. /\ p \in Pids /\ colas_ready \in [0 .. CantColas - 1 -> Seq(Pids)] /\ q \in 0 .. CantColas - 1
  BY ColaDeEnRango DEF InvTipos, TypeOK, TypeHilos, TypeColas, TypePcbs, Locales
<1>1. /\ pc[t] = "encola"
      /\ colas_ready' = [colas_ready EXCEPT ![q] =
                           IF loc[t].frente THEN <<p>> \o @ ELSE Append(@, p)]
  BY DEF Encolar
<1>2. t \in DOMAIN EnReady /\ t \notin Colas /\ EnReady[t] = {p}
  BY <1>1, DeManoReady
<1>3. ASSUME NEW r \in 0 .. CantColas - 1 PROVE p \notin ToSet(colas_ready[r])
  <2>1. Cola(r) \in Colas /\ Cola(r) \in DOMAIN EnReady /\ EnReady[Cola(r)] = ToSet(colas_ready[r])
    BY DEF Colas, EnReady, Cola
  <2>. QED  BY <1>2, <2>1 DEF InvReady, Reparto
<1>. HIDE DEF p, q
<1>4. ToSet(colas_ready'[q]) = ToSet(colas_ready[q]) \cup {p}
  <2>1. IsInjective(colas_ready[q]) /\ colas_ready[q] \in Seq(Pids)
    BY <1>p DEF InvReady
  <2>. QED  BY <1>p, <1>1, <1>3, <2>1, ToSetAppend, AnteponerElementos
<1>5. \A r \in 0 .. CantColas - 1 : r # q => colas_ready'[r] = colas_ready[r]
  BY <1>p, <1>1
<1>6. p \notin EnColas
  BY <1>3 DEF EnColas
<1>7. \A r \in 0 .. CantColas - 1 :
        ToSet(colas_ready'[r]) = IF r = q THEN ToSet(colas_ready[r]) \cup {p} ELSE ToSet(colas_ready[r])
  BY <1>4, <1>5
<1>8. EnColas' = EnColas \cup {p}
  BY <1>p, <1>7 DEF EnColas
<1>. QED  BY <1>6, <1>8 DEF p

LEMMA ColasTrasDesencolar ==
  ASSUME InvTipos, InvReady, Desencolar, ColasConProcesos # {}
  PROVE  \E p \in EnColas : EnColas' = EnColas \ {p}
<1>. DEFINE q == Min(ColasConProcesos)
            p == Head(colas_ready[q])
<1>p. colas_ready \in [0 .. CantColas - 1 -> Seq(Pids)]
  BY DEF InvTipos, TypeOK, TypeColas
<1>1. q \in ColasConProcesos
  <2>1. ColasConProcesos \subseteq Nat
    BY DEF ColasConProcesos
  <2>. QED  BY <2>1, MinEsElemento
<1>2. q \in 0 .. CantColas - 1 /\ colas_ready[q] # <<>> /\ colas_ready[q] \in Seq(Pids)
  BY <1>p, <1>1 DEF ColasConProcesos
<1>3. colas_ready' = [colas_ready EXCEPT ![q] = Tail(@)]
  BY DEF Desencolar
<1>. HIDE DEF q
<1>4. /\ ToSet(colas_ready'[q]) = ToSet(colas_ready[q]) \ {p} /\ p \in ToSet(colas_ready[q])
      /\ \A r \in 0 .. CantColas - 1 : r # q => colas_ready'[r] = colas_ready[r]
  <2>1. IsInjective(colas_ready[q])
    BY <1>2 DEF InvReady
  <2>. QED  BY <1>p, <1>2, <1>3, <2>1, CabezaYCola
<1>. HIDE DEF p
<1>5. ASSUME NEW r \in 0 .. CantColas - 1, r # q PROVE p \notin ToSet(colas_ready[r])
  <2>1. \A k \in 0 .. CantColas - 1 : /\ Cola(k) \in DOMAIN EnReady /\ Cola(k)[2] = k
                                      /\ EnReady[Cola(k)] = ToSet(colas_ready[k])
    BY DEF Colas, EnReady, Cola
  <2>2. Cola(r) # Cola(q)
    BY <1>2, <1>5, <2>1
  <2>. QED  BY <1>2, <1>4, <2>1, <2>2 DEF InvReady, Reparto
<1>6. p \in EnColas
  BY <1>2, <1>4 DEF EnColas
<1>7. \A r \in 0 .. CantColas - 1 : ToSet(colas_ready'[r]) = ToSet(colas_ready[r]) \ {p}
  BY <1>4, <1>5
<1>8. EnColas' = EnColas \ {p}
  BY <1>7 DEF EnColas
<1>. QED  BY <1>6, <1>8

\* While some process is in a queue, there is a queue with processes.
LEMMA HayCola ==
  ASSUME InvTipos, Cardinality(EnColas) > 0
  PROVE  ColasConProcesos # {}
<1>1. EnColas # {}
  BY ContablesFinitos, FS_EmptySet
<1>2. PICK q \in 0 .. CantColas - 1 : ToSet(colas_ready[q]) # {}
  BY <1>1 DEF EnColas
<1>3. colas_ready[q] # <<>>
  BY <1>2 DEF ToSet
<1>. QED  BY <1>3 DEF ColasConProcesos

\* Who moves a semaphore
LEMMA QuienCuenta ==
  ASSUME [Next]_vars
  PROVE  /\ \/ UNCHANGED sem_ready \/ EsperarReady
            \/ \E t \in Hilos : PostearReady(t)
         /\ \/ UNCHANGED sem_cpus \/ EsperarCpu \/ Desencolar
            \/ \E t \in Hilos : PostearReady(t)
            \/ \E c \in Cpus : PostearCpu(c)
<1>1. ASSUME NEW t \in Hilos, EncolarEnReady(t) PROVE UNCHANGED sems \/ PostearReady(t)
  BY <1>1 DEF EncolarEnReady, Encolar, BuscarVictima, Desalojar
<1>2. CortoPlazo => /\ UNCHANGED sem_ready \/ EsperarReady
                    /\ UNCHANGED sem_cpus \/ EsperarCpu \/ Desencolar
  BY DEF CortoPlazo, EsperarReady, EsperarCpu, Desencolar, PasarAExec, sems
<1>3. ASSUME NEW t \in {HiloCP} \cup HilosCpu, Despachar(t) PROVE UNCHANGED sems
  BY <1>3 DEF Despachar, ActualizarContexto, Enviar
<1>4. ASSUME NEW x \in timers, VencerQuantum(x) PROVE UNCHANGED sems
  BY <1>4, SMTT(40) DEF VencerQuantum
<1>5. ASSUME NEW c \in Cpus, AtenderCpu(c)
      PROVE  UNCHANGED sem_ready /\ (UNCHANGED sem_cpus \/ PostearCpu(c))
  BY <1>5 DEF AtenderCpu, RegistrarCpu, PostearCpu, Recibir, LiberarCpu, FinalizarProcesoKM,
     AnotarEspera, EliminarSegmento, ExecAReady, ExecAExit, ExecABlock, CrearProceso, sems
<1>6. ASSUME NEW t \in HilosMemoria, CrearSegmento(t) \/ Compactacion(t) PROVE UNCHANGED sems
  BY <1>6 DEF CrearSegmento, CrearOK, CrearError, CrearCompacta, Compactacion,
     PausarPlanificacion, InterrumpirParaCompactar, Compactar, ReanudarPlanificacion
<1>7. ASSUME NEW t \in HilosMemoria, EventoMemoria(t) PROVE UNCHANGED sems
  BY <1>7 DEF EventoMemoria, TomarEvento, Satisfacer, SoltarEvento
<1>8. ASSUME NEW t \in HilosIO, TerminarIO(t) PROVE UNCHANGED sems
  BY <1>8 DEF TerminarIO
<1>9. AdmitirNew \/ NuevoStick => UNCHANGED sems
  BY DEF AdmitirNew, NuevoStick
<1>10. ASSUME NEW c \in Cpus, ProgramaCpu(c) PROVE UNCHANGED sems
  BY <1>10 DEF ProgramaCpu, CpuRecibe, FallarFetch, EjecutarComun, EjecutarSyscall
<1>11. UNCHANGED vars => UNCHANGED sems
  BY DEF vars
<1>12. UNCHANGED sems => UNCHANGED sem_ready /\ UNCHANGED sem_cpus
  BY DEF sems
<1>. QED  BY <1>1, <1>2, <1>3, <1>4, <1>5, <1>6, <1>7, <1>8, <1>9, <1>10, <1>11, <1>12 DEF Next

\* Where a step leaves a thread that posts to a semaphore in this step or the next
LEMMA PosteaQuieto ==
  ASSUME InvTipos, [Next]_vars, NEW u \in Hilos, ~ Encolar(u), ~ PostearReady(u)
  PROVE  pc'[u] = "postea_ready" <=> pc[u] = "postea_ready"
<1>p. pc \in [Hilos -> Lugares] /\ loc \in [Hilos -> Locales]
  BY DEF InvTipos, TypeOK, TypeHilos
<1>1. CASE pc'[u] = pc[u] /\ loc'[u] = loc[u]
  BY <1>1
<1>2. CASE ~ (pc'[u] = pc[u] /\ loc'[u] = loc[u])
  <2>. DEFINE Otro == pc[u] # "postea_ready" /\ pc'[u] # "postea_ready"
  <2>1. Paso(u)
    BY <1>2, QuienMueve
  <2>2. ASSUME EncolarEnReady(u) PROVE Otro
    <3>1. pc[u] # "postea_ready" /\ pc'[u] \in {"desaloja", TrasEncolar(u)}
      BY <1>p, <2>2 DEF EncolarEnReady, BuscarVictima, Desalojar, Ir
    <3>2. TrasEncolar(u) # "postea_ready"
      BY DEF TrasEncolar
    <3>. QED  BY <3>1, <3>2
  <2>3. ASSUME u = HiloLP, AdmitirNew PROVE Otro
    BY <1>p, <2>3 DEF AdmitirNew, Ir
  <2>4. ASSUME u = HiloCP, CortoPlazo PROVE Otro
    BY <1>p, <2>4 DEF CortoPlazo, EsperarReady, EsperarCpu, Desencolar, PasarAExec, Ir
  <2>5. ASSUME Despachar(u) PROVE Otro
    <3>1. pc[u] # "postea_ready" /\ pc'[u] \in {"envia", TrasDespachar(u)}
      BY <1>p, <2>5 DEF Despachar, ActualizarContexto, Enviar, Ir
    <3>2. TrasDespachar(u) # "postea_ready"
      BY DEF TrasDespachar
    <3>. QED  BY <3>1, <3>2
  <2>6. ASSUME NEW c \in Cpus, u = HiloCpu(c), AtenderCpu(c) PROVE Otro
    <3>1. CASE ExecABlock(c)
      <4>1. pc[u] \in Bloqueo /\ pc'[u] \in {"anota_espera", "libera_cpu"}
        BY <2>6, <3>1, MueveBloqueo
      <4>. QED  BY <4>1 DEF Bloqueo
    <3>2. Recibir(c) => pc[u] = "recv" /\ pc'[u] = TrasRecibir(Head(red_ks[c]))
      BY <1>p, <2>6 DEF Recibir, Ir
    <3>3. TrasRecibir(Head(red_ks[c])) # "postea_ready"
      BY DEF TrasRecibir
    <3>. QED  BY <1>p, <2>6, <3>1, <3>2, <3>3 DEF AtenderCpu, RegistrarCpu, PostearCpu, LiberarCpu,
       ExecAReady, ExecAExit, FinalizarProcesoKM, AnotarEspera, CrearProceso, EliminarSegmento, Ir
  <2>7. ASSUME TerminarIO(u) PROVE Otro
    BY <1>p, <2>7 DEF TerminarIO, Ir
  <2>8. ASSUME CrearSegmento(u) \/ Compactacion(u) PROVE Otro
    BY <1>p, <2>8 DEF CrearSegmento, CrearOK, CrearError, CrearCompacta, PideSegmento, TrasCrear,
       Compactacion, PausarPlanificacion, InterrumpirParaCompactar, Compactar,
       ReanudarPlanificacion, Ir
  <2>9. ASSUME EventoMemoria(u) PROVE Otro
    BY <1>p, <2>9 DEF EventoMemoria, TomarEvento, Satisfacer, SoltarEvento, Ir, Locales
  <2>10. ASSUME u = HiloNT, NuevoStick PROVE Otro
    BY <1>p, <2>10 DEF NuevoStick, Ir
  <2>. QED  BY <2>1, <2>2, <2>3, <2>4, <2>5, <2>6, <2>7, <2>8, <2>9, <2>10 DEF Paso
<1>. QED  BY <1>1, <1>2

LEMMA PosteaCpuQuieto ==
  ASSUME InvTipos, [Next]_vars, NEW c \in Cpus,
         ~ RegistrarCpu(c), ~ LiberarCpu(c), ~ PostearCpu(c)
  PROVE  pc'[HiloCpu(c)] = "postea_cpu" <=> pc[HiloCpu(c)] = "postea_cpu"
<1>. DEFINE u == HiloCpu(c)
<1>p. /\ pc \in [Hilos -> Lugares] /\ loc \in [Hilos -> Locales] /\ u \in Hilos
      /\ u # HiloCP /\ u # HiloLP /\ u # HiloNT /\ u \notin HilosIO
      /\ \A d \in Cpus : u = HiloCpu(d) => d = c
  BY HilosDistintos, HiloDeUnaCpu DEF InvTipos, TypeOK, TypeHilos
<1>1. CASE pc'[u] = pc[u] /\ loc'[u] = loc[u]
  BY <1>1
<1>2. CASE ~ (pc'[u] = pc[u] /\ loc'[u] = loc[u])
  <2>. DEFINE Otro == pc[u] # "postea_cpu" /\ pc'[u] # "postea_cpu"
  <2>1. Paso(u)
    BY <1>p, <1>2, QuienMueve
  <2>2. ASSUME EncolarEnReady(u) PROVE Otro
    <3>1. pc[u] # "postea_cpu" /\ pc'[u] \in {"postea_ready", "busca_victima", "desaloja", TrasEncolar(u)}
      BY <1>p, <2>2 DEF EncolarEnReady, Encolar, PostearReady, BuscarVictima, Desalojar, Ir
    <3>2. TrasEncolar(u) # "postea_cpu"
      BY DEF TrasEncolar
    <3>. QED  BY <3>1, <3>2
  <2>3. ASSUME Despachar(u) PROVE Otro
    <3>1. pc[u] # "postea_cpu" /\ pc'[u] \in {"envia", TrasDespachar(u)}
      BY <1>p, <2>3 DEF Despachar, ActualizarContexto, Enviar, Ir
    <3>2. TrasDespachar(u) # "postea_cpu"
      BY SMTT(40) DEF TrasDespachar
    <3>. QED  BY <3>1, <3>2
  <2>4. ASSUME AtenderCpu(c) PROVE Otro
    <3>1. CASE ExecABlock(c)
      <4>1. pc[u] \in Bloqueo /\ pc'[u] \in {"anota_espera", "libera_cpu"}
        BY <3>1, MueveBloqueo
      <4>. QED  BY <4>1 DEF Bloqueo
    <3>2. Recibir(c) => pc[u] = "recv" /\ pc'[u] = TrasRecibir(Head(red_ks[c]))
      BY <1>p DEF Recibir, Ir
    <3>3. TrasRecibir(Head(red_ks[c])) # "postea_cpu"
      BY DEF TrasRecibir
    <3>. QED  BY <1>p, <2>4, <3>1, <3>2, <3>3 DEF AtenderCpu,
       ExecAReady, ExecAExit, FinalizarProcesoKM, AnotarEspera, CrearProceso, EliminarSegmento, Ir
  <2>5. ASSUME CrearSegmento(u) \/ Compactacion(u) PROVE Otro
    BY <1>p, <2>5 DEF CrearSegmento, CrearOK, CrearError, CrearCompacta, PideSegmento, TrasCrear,
       Compactacion, PausarPlanificacion, InterrumpirParaCompactar, Compactar,
       ReanudarPlanificacion, Ir
  <2>6. ASSUME EventoMemoria(u) PROVE Otro
    BY <1>p, <2>6 DEF EventoMemoria, TomarEvento, Satisfacer, SoltarEvento, Ir, Locales
  <2>. QED  BY <1>p, <2>1, <2>2, <2>3, <2>4, <2>5, <2>6 DEF Paso
<1>. QED  BY <1>1, <1>2

\* Out of encolar_en_ready, the corto plazo moves by these steps only.
LEMMA CPQuieto ==
  ASSUME InvTipos, [Next]_vars, pc[HiloCP] \in CaminoCP, ~ CortoPlazo, ~ Despachar(HiloCP)
  PROVE  pc'[HiloCP] = pc[HiloCP]
<1>1. /\ HiloCP \in Hilos /\ HiloCP # HiloLP /\ HiloCP # HiloNT /\ HiloCP \notin HilosIO
      /\ HiloCP \notin HilosMemoria /\ \A c \in Cpus : HiloCP # HiloCpu(c)
  BY HilosDistintos
<1>2. ~ EncolarEnReady(HiloCP)
  BY DEF EncolarEnReady, Encolar, PostearReady, BuscarVictima, Desalojar, CaminoCP
<1>. QED  BY <1>1, <1>2, QuienMueve DEF Paso

\* The corto plazo's part of a step
LEMMA PasosDelCP ==
  ASSUME InvTipos, [Next]_vars, pc[HiloCP] \in CaminoCP
  PROVE  \/ EsperarReady /\ pc[HiloCP] = "espera_ready" /\ pc'[HiloCP] = "espera_cpu"
         \/ EsperarCpu /\ pc[HiloCP] = "espera_cpu" /\ pc'[HiloCP] = "desencola"
         \/ Desencolar /\ pc[HiloCP] = "desencola"
         \/ PasarAExec /\ pc[HiloCP] = "a_exec" /\ pc'[HiloCP] \in {"encola", "contexto"}
         \/ ActualizarContexto(HiloCP) /\ pc[HiloCP] = "contexto" /\ pc'[HiloCP] = "envia"
         \/ Enviar(HiloCP) /\ pc[HiloCP] = "envia" /\ pc'[HiloCP] = "espera_ready"
         \/ /\ pc'[HiloCP] = pc[HiloCP] /\ ~ EsperarReady /\ ~ EsperarCpu /\ ~ Desencolar
            /\ ~ Enviar(HiloCP)
<1>p. pc \in [Hilos -> Lugares] /\ HiloCP \in Hilos
  BY HilosDistintos DEF InvTipos, TypeOK, TypeHilos
<1>1. CASE CortoPlazo
  BY <1>1, <1>p DEF CortoPlazo, EsperarReady, EsperarCpu, Desencolar, PasarAExec, Ir
<1>2. CASE Despachar(HiloCP)
  BY <1>2, <1>p DEF Despachar, ActualizarContexto, Enviar, TrasDespachar, Ir
<1>3. CASE ~ CortoPlazo /\ ~ Despachar(HiloCP)
  BY <1>3, CPQuieto DEF CortoPlazo, Despachar
<1>. QED  BY <1>1, <1>2, <1>3

LEMMA EncolaOPostea ==
  ASSUME InvTipos, NEW t \in Hilos, pc[HiloCP] \in CaminoCP
  PROVE  /\ Encolar(t) => /\ t # HiloCP /\ pc'[HiloCP] = pc[HiloCP] /\ UNCHANGED sems
                          /\ t \notin Posteando /\ Posteando' = Posteando \cup {t}
                          /\ UNCHANGED cpusKS
         /\ PostearReady(t) => /\ t # HiloCP /\ pc'[HiloCP] = pc[HiloCP]
                               /\ sem_ready' = sem_ready + 1 /\ UNCHANGED <<sem_cpus, colas_ready>>
                               /\ t \in Posteando /\ Posteando' = Posteando \ {t}
                               /\ UNCHANGED cpusKS
<1>p. pc \in [Hilos -> Lugares] /\ HiloCP \in Hilos
  BY HilosDistintos DEF InvTipos, TypeOK, TypeHilos
<1>1. ASSUME Encolar(t)
      PROVE  /\ t # HiloCP /\ pc'[HiloCP] = pc[HiloCP] /\ UNCHANGED sems /\ UNCHANGED cpusKS
             /\ t \notin Posteando /\ Posteando' = Posteando \cup {t}
  <2>1. pc[t] = "encola" /\ pc' = [pc EXCEPT ![t] = "postea_ready"] /\ UNCHANGED sems
        /\ UNCHANGED cpusKS
    BY <1>1 DEF Encolar, Ir
  <2>2. t # HiloCP
    BY <2>1 DEF CaminoCP
  <2>3. Posteando' = Posteando \cup {t}
    BY <1>p, <2>1 DEF Posteando
  <2>. QED  BY <1>p, <2>1, <2>2, <2>3 DEF Posteando
<1>2. ASSUME PostearReady(t)
      PROVE  /\ t # HiloCP /\ pc'[HiloCP] = pc[HiloCP] /\ UNCHANGED cpusKS
             /\ sem_ready' = sem_ready + 1 /\ UNCHANGED <<sem_cpus, colas_ready>>
             /\ t \in Posteando /\ Posteando' = Posteando \ {t}
  <2>1. t # HiloCP /\ pc[t] = "postea_ready"
    BY <1>2 DEF PostearReady, CaminoCP
  <2>2. PICK e \in {"busca_victima", TrasEncolar(t)} : pc' = [pc EXCEPT ![t] = e]
    BY <1>2 DEF PostearReady, Ir
  <2>3. e # "postea_ready"
    BY DEF TrasEncolar
  <2>4. sem_ready' = sem_ready + 1 /\ UNCHANGED <<sem_cpus, colas_ready>> /\ UNCHANGED cpusKS
    BY <1>2, <2>1 DEF PostearReady, colas
  <2>5. Posteando' = Posteando \ {t}
    BY <1>p, <2>1, <2>2, <2>3 DEF Posteando
  <2>. QED  BY <1>p, <2>1, <2>2, <2>4, <2>5 DEF Posteando
<1>. QED  BY <1>1, <1>2

LEMMA PasoSemReady ==
  ASSUME InvTipos, InvReady, InvSemaforos, [Next]_vars
  PROVE  /\ IsFiniteSet(Posteando)'
         /\ Cardinality(EnColas') =
              sem_ready' + Cardinality(Posteando') + Tomada({"espera_cpu", "desencola"})'
<1>. DEFINE T == Tomada({"espera_cpu", "desencola"})
<1>p. /\ pc \in [Hilos -> Lugares] /\ HiloCP \in Hilos /\ sem_ready \in Nat
      /\ IsFiniteSet(EnColas) /\ IsFiniteSet(Posteando) /\ T \in {0, 1}
      /\ Cardinality(EnColas) \in Nat /\ Cardinality(Posteando) \in Nat
      /\ pc[HiloCP] \in CaminoCP
  BY HilosDistintos, ContablesFinitos, FS_CardinalityType
     DEF InvTipos, TypeOK, TypeHilos, TypeColas, InvSemaforos, Tomada
<1>i. Cardinality(EnColas) = sem_ready + Cardinality(Posteando) + T
  BY DEF InvSemaforos
<1>1. ASSUME NEW t \in Hilos, Encolar(t)
      PROVE  /\ IsFiniteSet(Posteando') /\ T' = T
             /\ Cardinality(EnColas') = sem_ready' + Cardinality(Posteando') + T
  <2>1. /\ pc'[HiloCP] = pc[HiloCP] /\ sem_ready' = sem_ready
        /\ t \notin Posteando /\ Posteando' = Posteando \cup {t}
    BY <1>1, <1>p, EncolaOPostea DEF sems
  <2>2. /\ IsFiniteSet(Posteando') /\ Cardinality(Posteando') = Cardinality(Posteando) + 1
    BY <1>p, <2>1, UnoMas
  <2>3. Cardinality(EnColas') = Cardinality(EnColas) + 1
    BY <1>1, <1>p, ColasTrasEncolar, UnoMas
  <2>4. T' = T
    BY <2>1 DEF Tomada
  <2>. HIDE DEF T
  <2>. QED  BY <1>i, <1>p, <2>1, <2>2, <2>3, <2>4
<1>2. ASSUME NEW t \in Hilos, PostearReady(t)
      PROVE  /\ IsFiniteSet(Posteando') /\ T' = T
             /\ Cardinality(EnColas') = sem_ready' + Cardinality(Posteando') + T
  <2>1. /\ pc'[HiloCP] = pc[HiloCP] /\ sem_ready' = sem_ready + 1 /\ UNCHANGED colas_ready
        /\ t \in Posteando /\ Posteando' = Posteando \ {t}
    BY <1>2, <1>p, EncolaOPostea
  <2>2. /\ IsFiniteSet(Posteando') /\ Cardinality(Posteando') = Cardinality(Posteando) - 1
    BY <1>p, <2>1, UnoMenos
  <2>3. EnColas' = EnColas
    BY <2>1 DEF EnColas
  <2>4. T' = T
    BY <2>1 DEF Tomada
  <2>. HIDE DEF T
  <2>. QED  BY <1>i, <1>p, <2>1, <2>2, <2>3, <2>4
<1>3. CASE \A t \in Hilos : ~ Encolar(t) /\ ~ PostearReady(t)
  <2>1. Posteando' = Posteando
    BY <1>3, PosteaQuieto DEF Posteando
  <2>2. CASE EsperarReady /\ pc[HiloCP] = "espera_ready" /\ pc'[HiloCP] = "espera_cpu"
    <3>1. sem_ready' = sem_ready - 1 /\ UNCHANGED colas_ready
      BY <2>2 DEF EsperarReady, colas
    <3>2. EnColas' = EnColas /\ T = 0 /\ T' = 1
      BY <2>2, <3>1 DEF EnColas, Tomada
    <3>. HIDE DEF T
    <3>. QED  BY <1>i, <1>p, <2>1, <3>1, <3>2 DEF T
  <2>3. CASE Desencolar /\ pc[HiloCP] = "desencola"
    <3>1. T = 1
      BY <2>3 DEF Tomada
    <3>2. ColasConProcesos # {}
      <4>. HIDE DEF T
      <4>. QED  BY <1>i, <1>p, <3>1, HayCola
    <3>3. Cardinality(EnColas') = Cardinality(EnColas) - 1
      BY <1>p, <2>3, <3>2, ColasTrasDesencolar, UnoMenos
    <3>4. sem_ready' = sem_ready /\ pc'[HiloCP] = "a_exec"
      BY <1>p, <2>3, <3>2 DEF Desencolar, Ir
    <3>5. T' = 0
      BY <3>4 DEF Tomada
    <3>. HIDE DEF T
    <3>. QED  BY <1>i, <1>p, <2>1, <3>1, <3>3, <3>4, <3>5 DEF T
  <2>4. CASE ~ EsperarReady /\ ~ Desencolar /\ T' = T
    <3>1. sem_ready' = sem_ready /\ UNCHANGED colas_ready
      BY <1>3, <2>4, QuienCuenta, PasosDeColas
    <3>2. EnColas' = EnColas
      BY <3>1 DEF EnColas
    <3>. HIDE DEF T
    <3>. QED  BY <1>i, <1>p, <2>1, <2>4, <3>1, <3>2 DEF T
  <2>5. ASSUME ~ (EsperarReady /\ pc[HiloCP] = "espera_ready" /\ pc'[HiloCP] = "espera_cpu"),
               ~ (Desencolar /\ pc[HiloCP] = "desencola")
        PROVE  ~ EsperarReady /\ ~ Desencolar /\ T' = T
    <3>1. EsperarReady => pc[HiloCP] = "espera_ready" /\ pc'[HiloCP] = "espera_cpu"
      BY <1>p DEF EsperarReady, Ir
    <3>2. Desencolar => pc[HiloCP] = "desencola"
      BY DEF Desencolar
    <3>3. T' = T
      BY <1>p, <2>5, PasosDelCP DEF Tomada
    <3>. QED  BY <2>5, <3>1, <3>2, <3>3
  <2>. QED  BY <2>2, <2>3, <2>4, <2>5
<1>. QED  BY <1>1, <1>2, <1>3

\* The corto plazo finds a free CPU.
LEMMA HayCpuLibre ==
  ASSUME InvTipos, InvSemaforos
  PROVE  /\ pc[HiloCP] = "a_exec" => CpusLibres # {}
         /\ PasarAExec => pc'[HiloCP] = "contexto"
<1>1. ASSUME pc[HiloCP] = "a_exec" PROVE CpusLibres # {}
  <2>1. Tomada({"desencola", "a_exec", "contexto", "envia"}) = 1
    BY <1>1 DEF Tomada
  <2>2. /\ Cardinality(CpusLibres) = sem_cpus + Cardinality(PosteandoCpu) + 1
        /\ sem_cpus \in Nat /\ Cardinality(PosteandoCpu) \in Nat
    BY <2>1, ContablesFinitos, FS_CardinalityType DEF InvSemaforos, InvTipos, TypeOK, TypeColas
  <2>3. Cardinality(CpusLibres) # 0
    BY <2>2
  <2>. QED  BY <2>3, FS_EmptySet
<1>2. ASSUME PasarAExec PROVE pc'[HiloCP] = "contexto"
  <2>1. pc[HiloCP] = "a_exec"
    BY <1>2 DEF PasarAExec
  <2>2. PICK c \in ToSet(cpus_conectadas) : cpu[c].libre
    BY <1>1, <2>1 DEF CpusLibres
  <2>3. PICK j \in DOMAIN cpus_conectadas : cpu[cpus_conectadas[j]].libre
    BY <2>2 DEF ToSet
  <2>4. {i \in DOMAIN cpus_conectadas : cpu[cpus_conectadas[i]].libre} # {}
    BY <2>3
  <2>. QED  BY <1>2, <2>4, HilosDistintos DEF PasarAExec, Ir, InvTipos, TypeOK, TypeHilos
<1>. QED  BY <1>1, <1>2

\* Which steps offer a CPU, or take one
LEMMA LibresQuietas ==
  ASSUME InvTipos, InvCompactacion, [Next]_vars, ~ Enviar(HiloCP),
         \A c \in Cpus : ~ RegistrarCpu(c) /\ ~ LiberarCpu(c)
  PROVE  CpusLibres' = CpusLibres
<1>t. cpus_conectadas \in Seq(Cpus) /\ DOMAIN cpu = Cpus /\ ToSet(cpus_conectadas) \subseteq Cpus
  BY DEF InvTipos, TypeOK, TypeCpus, ToSet
<1>0. ASSUME UNCHANGED cpus_conectadas, \A d \in Cpus : cpu'[d].libre = cpu[d].libre
      PROVE  CpusLibres' = CpusLibres
  BY <1>0, <1>t DEF CpusLibres
<1>1. CASE CpusQuietas
  BY <1>0, <1>1 DEF CpusQuietas, MismoCpu
<1>2. ASSUME NEW t \in {HiloCP} \cup HilosCpu, Enviar(t) PROVE CpusLibres' = CpusLibres
  <2>1. t # HiloCP
    BY <1>2
  <2>2. CpuDe(t) \in Cpus /\ ~ cpu[CpuDe(t)].libre
    BY <1>2, <2>1, DestinoLibre DEF Enviar
  <2>3. /\ UNCHANGED cpus_conectadas /\ ~ cpu'[CpuDe(t)].libre
        /\ \A d \in Cpus : d # CpuDe(t) => cpu'[d] = cpu[d]
    BY <1>2, <1>t, <2>2 DEF Enviar
  <2>4. \A d \in ToSet(cpus_conectadas) : cpu'[d].libre <=> cpu[d].libre
    BY <1>t, <2>2, <2>3
  <2>. QED  BY <2>3, <2>4 DEF CpusLibres
<1>3. ASSUME NEW d \in Cpus, Recibir(d) PROVE CpusLibres' = CpusLibres
  <2>1. UNCHANGED cpus_conectadas /\ cpu' = [cpu EXCEPT ![d] = FinDeRafaga(@)]
    BY <1>3 DEF Recibir
  <2>2. FinDeRafaga(cpu[d]).libre = cpu[d].libre
    BY DEF FinDeRafaga, InvTipos, TypeOK, TypeCpus
  <2>. QED  BY <1>0, <1>t, <2>1, <2>2
<1>4. ASSUME NEW d \in Cpus, ProgramaCpu(d) PROVE CpusLibres' = CpusLibres
  <2>1. UNCHANGED <<cpus_conectadas, cpu>>
    BY <1>4 DEF ProgramaCpu, CpuRecibe, FallarFetch, EjecutarComun, EjecutarSyscall, cpusKS
  <2>. QED  BY <1>0, <2>1
<1>. QED  BY <1>1, <1>2, <1>3, <1>4, PasosDeCpu

\* A CPU that connects, or is freed, was not free before.
LEMMA LibresOfrecida ==
  ASSUME InvTipos, InvCompactacion, NEW c \in Cpus, RegistrarCpu(c) \/ LiberarCpu(c)
  PROVE  /\ c \notin CpusLibres /\ CpusLibres' = CpusLibres \cup {c}
         /\ c \notin PosteandoCpu /\ PosteandoCpu' = PosteandoCpu \cup {c}
         /\ pc'[HiloCP] = pc[HiloCP] /\ UNCHANGED sem_cpus
<1>. DEFINE t == HiloCpu(c)
<1>t. /\ cpus_conectadas \in Seq(Cpus) /\ DOMAIN cpu = Cpus /\ ToSet(cpus_conectadas) \subseteq Cpus
      /\ cpu[c] \in [libre : BOOLEAN, pid : Pids, en_rafaga : BOOLEAN, rafaga : Nat,
                      motivo : {"NINGUNA", "QUANTUM", "PREEMPCION", "COMPACTACION"}]
      /\ pc \in [Hilos -> Lugares] /\ t \in Hilos /\ t # HiloCP /\ HiloCP \in Hilos
      /\ \A d \in Cpus : HiloCpu(d) \in Hilos /\ (HiloCpu(d) = t => d = c)
  BY HilosDistintos, HiloDeUnaCpu DEF InvTipos, TypeOK, TypeCpus, TypeHilos, ToSet
<1>i. InvAtencion(c)
  BY DEF InvCompactacion
<1>1. pc[t] \in {"conecta", "libera_cpu"} /\ pc' = [pc EXCEPT ![t] = "postea_cpu"] /\ UNCHANGED sem_cpus
  BY DEF RegistrarCpu, LiberarCpu, Ir, sems
<1>2. CASE RegistrarCpu(c)
  <2>1. c \notin ToSet(cpus_conectadas)
    BY <1>2, <1>i DEF RegistrarCpu, InvAtencion
  <2>2. /\ ToSet(cpus_conectadas)' = ToSet(cpus_conectadas) \cup {c}
        /\ cpu' = [cpu EXCEPT ![c] = CpuInicial]
    BY <1>2, <1>t, ToSetAppend DEF RegistrarCpu
  <2>3. CpuInicial.libre
    BY DEF CpuInicial
  <2>4. CpusLibres' = CpusLibres \cup {c}
    BY <1>t, <2>1, <2>2, <2>3 DEF CpusLibres
  <2>. QED  BY <1>1, <1>t, <2>1, <2>4 DEF CpusLibres, PosteandoCpu
<1>3. CASE LiberarCpu(c)
  <2>1. pc[t] = "libera_cpu" /\ UNCHANGED cpus_conectadas
        /\ cpu' = [cpu EXCEPT ![c] = [@ EXCEPT !.libre = TRUE, !.pid = 0, !.en_rafaga = FALSE]]
    BY <1>3 DEF LiberarCpu
  <2>2. ~ EnEvento(t)
    BY <1>t, <2>1, ManejaSinEvento
  <2>3. c \in ToSet(cpus_conectadas) /\ ~ cpu[c].libre
    BY <1>i, <2>1, <2>2 DEF InvAtencion, Atendiendo, Parada
  <2>4. cpu'[c].libre /\ \A d \in Cpus : d # c => cpu'[d] = cpu[d]
    BY <1>t, <2>1
  <2>5. CpusLibres' = CpusLibres \cup {c}
    BY <1>t, <2>1, <2>3, <2>4 DEF CpusLibres
  <2>. QED  BY <1>1, <1>t, <2>3, <2>5 DEF CpusLibres, PosteandoCpu
<1>. QED  BY <1>2, <1>3

LEMMA PasoSemCpus ==
  ASSUME InvTipos, InvCompactacion, InvReady, InvSemaforos, [Next]_vars
  PROVE  Cardinality(CpusLibres') = sem_cpus' + Cardinality(PosteandoCpu')
           + Tomada({"desencola", "a_exec", "contexto", "envia"})'
<1>. DEFINE T == Tomada({"desencola", "a_exec", "contexto", "envia"})
<1>p. /\ pc \in [Hilos -> Lugares] /\ HiloCP \in Hilos /\ sem_cpus \in Nat
      /\ IsFiniteSet(CpusLibres) /\ IsFiniteSet(PosteandoCpu) /\ T \in {0, 1}
      /\ Cardinality(CpusLibres) \in Nat /\ Cardinality(PosteandoCpu) \in Nat
      /\ pc[HiloCP] \in CaminoCP /\ DOMAIN cpu = Cpus
  BY HilosDistintos, ContablesFinitos, FS_CardinalityType
     DEF InvTipos, TypeOK, TypeHilos, TypeColas, TypeCpus, InvSemaforos, Tomada
<1>i. Cardinality(CpusLibres) = sem_cpus + Cardinality(PosteandoCpu) + T
  BY DEF InvSemaforos
<1>1. ASSUME NEW c \in Cpus, RegistrarCpu(c) \/ LiberarCpu(c)
      PROVE  Cardinality(CpusLibres') = sem_cpus' + Cardinality(PosteandoCpu') + T'
  <2>1. /\ c \notin CpusLibres /\ CpusLibres' = CpusLibres \cup {c}
        /\ c \notin PosteandoCpu /\ PosteandoCpu' = PosteandoCpu \cup {c}
        /\ pc'[HiloCP] = pc[HiloCP] /\ UNCHANGED sem_cpus
    BY <1>1, LibresOfrecida
  <2>2. /\ Cardinality(CpusLibres') = Cardinality(CpusLibres) + 1
        /\ Cardinality(PosteandoCpu') = Cardinality(PosteandoCpu) + 1
    BY <1>p, <2>1, UnoMas
  <2>3. T' = T
    BY <2>1 DEF Tomada
  <2>. HIDE DEF T
  <2>. QED  BY <1>i, <1>p, <2>1, <2>2, <2>3
<1>2. ASSUME NEW c \in Cpus, PostearCpu(c)
      PROVE  Cardinality(CpusLibres') = sem_cpus' + Cardinality(PosteandoCpu') + T'
  <2>. DEFINE t == HiloCpu(c)
  <2>1. /\ t \in Hilos /\ t # HiloCP
        /\ \A d \in Cpus : HiloCpu(d) \in Hilos /\ (HiloCpu(d) = t => d = c)
    BY HilosDistintos, HiloDeUnaCpu
  <2>2. /\ pc[t] = "postea_cpu" /\ pc' = [pc EXCEPT ![t] = "recv"] /\ sem_cpus' = sem_cpus + 1
        /\ UNCHANGED <<cpus_conectadas, cpu>>
    BY <1>2 DEF PostearCpu, Ir, cpusKS
  <2>3. c \in PosteandoCpu /\ PosteandoCpu' = PosteandoCpu \ {c}
    BY <1>p, <2>1, <2>2 DEF PosteandoCpu
  <2>4. Cardinality(PosteandoCpu') = Cardinality(PosteandoCpu) - 1
    BY <1>p, <2>3, UnoMenos
  <2>5. CpusLibres' = CpusLibres
    BY <2>2 DEF CpusLibres
  <2>6. T' = T
    BY <1>p, <2>1, <2>2 DEF Tomada
  <2>. HIDE DEF T
  <2>. QED  BY <1>i, <1>p, <2>2, <2>4, <2>5, <2>6
<1>3. CASE \A c \in Cpus : ~ RegistrarCpu(c) /\ ~ LiberarCpu(c) /\ ~ PostearCpu(c)
  <2>1. PosteandoCpu' = PosteandoCpu
    BY <1>3, PosteaCpuQuieto DEF PosteandoCpu
  <2>2. CASE Enviar(HiloCP)
    <3>. DEFINE c == loc[HiloCP].cpu
    <3>1. pc[HiloCP] = "envia" /\ pc'[HiloCP] = "espera_ready"
      BY <1>p, <2>2 DEF Enviar, TrasDespachar, Ir
    <3>2. c \in Cpus /\ c \in CpusLibres
      BY <3>1, DestinoLibre DEF CpuDe, CpusLibres
    <3>3. /\ UNCHANGED <<cpus_conectadas, sem_cpus>> /\ ~ cpu'[c].libre
          /\ \A d \in Cpus : d # c => cpu'[d] = cpu[d]
      BY <1>p, <2>2, <3>2 DEF Enviar, CpuDe, sems
    <3>. HIDE DEF c
    <3>4. ToSet(cpus_conectadas) \subseteq Cpus
      BY DEF InvTipos, TypeOK, TypeCpus, ToSet
    <3>5. CpusLibres' = CpusLibres \ {c}
      BY <3>2, <3>3, <3>4 DEF CpusLibres
    <3>6. Cardinality(CpusLibres') = Cardinality(CpusLibres) - 1
      BY <1>p, <3>2, <3>5, UnoMenos
    <3>7. T = 1 /\ T' = 0
      BY <3>1 DEF Tomada
    <3>. HIDE DEF T
    <3>. QED  BY <1>i, <1>p, <2>1, <3>3, <3>6, <3>7 DEF T
  <2>3. CASE EsperarCpu /\ pc[HiloCP] = "espera_cpu" /\ pc'[HiloCP] = "desencola"
    <3>1. sem_cpus' = sem_cpus - 1 /\ UNCHANGED <<cpus_conectadas, cpu>>
      BY <2>3 DEF EsperarCpu, cpusKS
    <3>2. CpusLibres' = CpusLibres /\ T = 0 /\ T' = 1
      BY <2>3, <3>1 DEF CpusLibres, Tomada
    <3>. HIDE DEF T
    <3>. QED  BY <1>i, <1>p, <2>1, <3>1, <3>2 DEF T
  <2>4. CASE ~ Enviar(HiloCP) /\ sem_cpus' = sem_cpus /\ T' = T
    <3>1. CpusLibres' = CpusLibres
      BY <1>3, <2>4, LibresQuietas
    <3>. HIDE DEF T
    <3>. QED  BY <1>i, <1>p, <2>1, <2>4, <3>1 DEF T
  <2>5. ASSUME ~ Enviar(HiloCP), ~ (EsperarCpu /\ pc[HiloCP] = "espera_cpu" /\ pc'[HiloCP] = "desencola")
        PROVE  sem_cpus' = sem_cpus /\ T' = T
    <3>1. EsperarCpu => pc[HiloCP] = "espera_cpu" /\ pc'[HiloCP] = "desencola"
      BY <1>p DEF EsperarCpu, Ir
    <3>2. CASE Desencolar
      <4>1. pc[HiloCP] = "desencola"
        BY <3>2 DEF Desencolar
      <4>2. Tomada({"espera_cpu", "desencola"}) = 1
        BY <4>1 DEF Tomada
      <4>3. Cardinality(EnColas) > 0
        <5>1. /\ Cardinality(EnColas) = sem_ready + Cardinality(Posteando) + 1
              /\ sem_ready \in Nat /\ Cardinality(Posteando) \in Nat
          BY <4>2, FS_CardinalityType DEF InvSemaforos, InvTipos, TypeOK, TypeColas
        <5>. QED  BY <5>1
      <4>4. ColasConProcesos # {}
        BY <4>3, HayCola
      <4>5. sem_cpus' = sem_cpus /\ pc'[HiloCP] = "a_exec"
        BY <1>p, <3>2, <4>4 DEF Desencolar, Ir
      <4>. QED  BY <4>1, <4>5 DEF Tomada
    <3>3. CASE ~ Desencolar
      <4>1. \A t \in Hilos : PostearReady(t) => sem_cpus' = sem_cpus
        BY <1>p, EncolaOPostea
      <4>2. sem_cpus' = sem_cpus
        BY <1>3, <2>5, <3>1, <3>3, <4>1, QuienCuenta
      <4>3. T' = T
        <5>1. \/ PasarAExec /\ pc[HiloCP] = "a_exec" /\ pc'[HiloCP] = "contexto"
              \/ PasarAExec /\ pc[HiloCP] = "a_exec" /\ pc'[HiloCP] = "encola"
              \/ pc[HiloCP] = "espera_ready" /\ pc'[HiloCP] = "espera_cpu"
              \/ pc[HiloCP] = "contexto" /\ pc'[HiloCP] = "envia"
              \/ pc'[HiloCP] = pc[HiloCP]
          BY <1>p, <2>5, <3>3, PasosDelCP
        <5>2. PasarAExec => pc'[HiloCP] # "encola"
          BY <1>p, HayCpuLibre DEF InvSemaforos
        <5>. QED  BY <5>1, <5>2 DEF Tomada
      <4>. QED  BY <4>2, <4>3
    <3>. QED  BY <3>2, <3>3
  <2>. QED  BY <2>2, <2>3, <2>4, <2>5
<1>. QED  BY <1>1, <1>2, <1>3

\* The corto plazo never takes the branch that gives a process back.
LEMMA PasoCaminoCP ==
  ASSUME InvTipos, InvSemaforos, [Next]_vars
  PROVE  pc'[HiloCP] \in CaminoCP
<1>p. pc \in [Hilos -> Lugares] /\ HiloCP \in Hilos /\ pc[HiloCP] \in CaminoCP
  BY HilosDistintos DEF InvTipos, TypeOK, TypeHilos, InvSemaforos
<1>1. Desencolar => pc'[HiloCP] \in {"espera_ready", "a_exec"}
  BY <1>p DEF Desencolar, Ir
<1>2. PasarAExec => pc'[HiloCP] = "contexto"
  BY HayCpuLibre
<1>. QED  BY <1>p, <1>1, <1>2, PasosDelCP DEF CaminoCP

LEMMA InitSemaforos == Init => InvSemaforos
<1>. SUFFICES ASSUME Init PROVE InvSemaforos
  OBVIOUS
<1>1. pc[HiloCP] = "espera_ready" /\ \A t \in Hilos : pc[t] \notin {"postea_ready", "postea_cpu"}
  <2>1. HiloCP \in Hilos /\ HiloCP # HiloLP
    BY HilosDistintos
  <2>2. pc = [t \in Hilos |-> CASE t = HiloLP -> "espera_new"
                              [] t = HiloCP -> "espera_ready"
                              [] t \in HilosCpu -> "conecta"
                              [] OTHER -> "inactivo"]
    BY DEF Init
  <2>3. pc[HiloCP] = "espera_ready"
    <3>1. pc[HiloCP] = CASE HiloCP = HiloLP -> "espera_new"
                         [] HiloCP = HiloCP -> "espera_ready"
                         [] HiloCP \in HilosCpu -> "conecta"
                         [] OTHER -> "inactivo"
      BY <2>1, <2>2
    <3>2. HiloCP \notin HilosCpu
      BY HilosDistintos DEF HilosCpu
    <3>. QED  BY <2>1, <3>1, <3>2
  <2>4. \A t \in Hilos : pc[t] \in {"espera_new", "espera_ready", "conecta", "inactivo"}
    BY <2>2
  <2>. QED  BY <2>3, <2>4
<1>2. ToSet(<<>>) = {}
  BY DEF ToSet
<1>3. EnColas = {} /\ CpusLibres = {}
  <2>1. \A q \in 0 .. CantColas - 1 : colas_ready[q] = <<>>
    BY DEF Init
  <2>2. cpus_conectadas = <<>>
    BY DEF Init
  <2>. QED  BY <1>2, <2>1, <2>2 DEF EnColas, CpusLibres
<1>4. Posteando = {} /\ PosteandoCpu = {}
  BY <1>1, HilosDistintos DEF Posteando, PosteandoCpu
<1>5. sem_ready = 0 /\ sem_cpus = 0
  BY DEF Init
<1>6. IsFiniteSet({}) /\ Cardinality({}) = 0
  BY FS_EmptySet
<1>. QED  BY <1>1, <1>3, <1>4, <1>5, <1>6 DEF InvSemaforos, CaminoCP, Tomada

LEMMA PasoSemaforos ==
  InvTipos /\ InvCompactacion /\ InvProcesos /\ InvSemaforos /\ [Next]_vars => InvSemaforos'
BY PasoCaminoCP, PasoSemReady, PasoSemCpus DEF InvSemaforos, InvProcesos

LEMMA SemaforosInductivo == Spec => [](InvTipos /\ InvCompactacion /\ InvProcesos /\ InvSemaforos)
<1>1. Init => InvTipos /\ InvCompactacion /\ InvProcesos /\ InvSemaforos
  BY InitTipos, InitCompactacion, InitProcesos, InitSemaforos
<1>. QED  BY <1>1, PasoProcesos, PasoSemaforos, PTL DEF Spec

\* What the corto plazo has waited for is there.
LEMMA HayLoEsperado ==
  ASSUME InvTipos, InvSemaforos
  PROVE  SemaforosExactos
<1>1. ASSUME pc[HiloCP] = "desencola" PROVE ColasConProcesos # {}
  <2>1. Tomada({"espera_cpu", "desencola"}) = 1
    BY <1>1 DEF Tomada
  <2>2. /\ Cardinality(EnColas) = sem_ready + Cardinality(Posteando) + 1
        /\ sem_ready \in Nat /\ Cardinality(Posteando) \in Nat
    BY <2>1, FS_CardinalityType DEF InvSemaforos, InvTipos, TypeOK, TypeColas
  <2>3. Cardinality(EnColas) > 0
    BY <2>2
  <2>. QED  BY <2>3, HayCola
<1>2. ASSUME pc[HiloCP] = "a_exec" PROVE \E c \in ToSet(cpus_conectadas) : cpu[c].libre
  BY <1>2, HayCpuLibre DEF CpusLibres
<1>. QED  BY <1>1, <1>2 DEF SemaforosExactos

\* The corto plazo, past both semaphores, finds a process and a free CPU: each
\* token of sem_ready is a process in a queue and each token of sem_cpus a free CPU.
THEOREM SemaforosCuentan == Spec => []SemaforosExactos
BY SemaforosInductivo, HayLoEsperado, PTL
=============================================================================
