---------------------------- MODULE MedianoPlazo ----------------------------
(***************************************************************************)
(* The mediano plazo of the Kernel Scheduler (planificador.c 513-806): the *)
(* suspension timers, desbloquear, and the memory event that brings the    *)
(* suspended processes back and retries the pending allocations.           *)
(*                                                                         *)
(* A thread is a member of Hilos; hilo[t] holds the point it is at (en)    *)
(* and its local variables.  A step is one critical section of the code,   *)
(* or one exchange with Kernel Memory, which here is the place where the   *)
(* memory of each process is.  Which threads call these steps, and when,   *)
(* is in Bloqueos.                                                         *)
(***************************************************************************)
EXTENDS Integers, Sequences, FiniteSets, SequencesExt

CONSTANTS
  Pids,            \* PIDs, naturals other than 0
  Cpus,            \* id_cpu of the CPUs that may be connected
  CantColas,       \* READY queues with Colas Multinivel
  MaxBloqueos      \* a bound on bloqueo_id, which the scripts never reach

NADA == 0          \* no PID, no CPU, no device

ASSUME ProcesosOK ==
  /\ Pids \subseteq Nat \ {NADA} /\ IsFiniteSet(Pids)
  /\ Cpus \subseteq Nat \ {NADA} /\ IsFiniteSet(Cpus)
  /\ CantColas \in Nat \ {0} /\ MaxBloqueos \in Nat

VARIABLES
  config,             \* the scenario, fixed by the initial state
  estado, prioridad_actual, bloqueo_id,          \* fields of the PCBs
  colas_ready, sem_ready,
  lista_exec, cola_block, susp_block, susp_ready, \* as sets: only looked up by PID
  antiguedad,         \* the suspended processes, by ts_suspension
  lista_espera,       \* lista_espera_memoria
  memoria,            \* in Kernel Memory: without segments, in RAM or in SWAP
  evento,             \* mutex_evento_memoria and the locals of its owner
  hilo

varsMP == <<config, estado, prioridad_actual, bloqueo_id, colas_ready, sem_ready,
            lista_exec, cola_block, susp_block, susp_ready, antiguedad,
            lista_espera, memoria, evento, hilo>>

pcbs   == <<config, prioridad_actual>>
ready  == <<colas_ready, sem_ready>>
suspendidos == <<susp_block, susp_ready, antiguedad>>

-----------------------------------------------------------------------------
(* Threads *)

HiloCP          == <<"CP", 0, 0>>    \* hilo_planificador_corto_plazo
HiloCpu(c)      == <<"H", c, 0>>     \* atender_peticiones_cpu of CPU c
HiloIO(p, k)    == <<"IO", p, k>>    \* hilo_ejecutar_io, for block k of p
HiloTimer(p, k) == <<"T", p, k>>     \* hilo_timer_suspension, for block k of p
SinHilo         == <<"NADIE", 0, 0>>

HilosCpu   == {HiloCpu(c) : c \in Cpus}
HilosIO    == {HiloIO(p, k) : p \in Pids, k \in 1 .. MaxBloqueos}
HilosTimer == {HiloTimer(p, k) : p \in Pids, k \in 1 .. MaxBloqueos}
Hilos == {HiloCP} \cup HilosCpu \cup HilosIO \cup HilosTimer

\* pid: the process in the thread's hands.  fue: what desbloquear found.
\* tras: the point after desbloquear; luego: the point after the memory event.
EnReposo == [en |-> "reposo", pid |-> NADA, disp |-> NADA, mtx |-> NADA,
             fue |-> "nada", tras |-> "reposo", luego |-> "reposo"]

Ir(t, e) == hilo' = [hilo EXCEPT ![t].en = e]
Seguir(t, e) == hilo' = [hilo EXCEPT ![t] = [EnReposo EXCEPT !.en = e]]
Terminar(t) == Seguir(t, "reposo")

\* Calls, with the point to go on from.
LlamarEncolar(t, p, e) ==
  hilo' = [hilo EXCEPT ![t].en = "encola", ![t].pid = p, ![t].tras = e]
LlamarDesbloquear(t, p, e) ==
  hilo' = [hilo EXCEPT ![t].en = "desbloquea", ![t].pid = p, ![t].tras = e, ![t].fue = "nada"]
LlamarEvento(t, e) ==
  hilo' = [hilo EXCEPT ![t].en = "evento", ![t].pid = NADA, ![t].luego = e]

-----------------------------------------------------------------------------
(* READY queues *)

ColaDeNivel(n) == IF ~config.cmn \/ n < 0 THEN 0
                  ELSE IF n >= CantColas THEN CantColas - 1 ELSE n

\* encolar_en_ready at the end of the queue of its level, for the process in hand.
Encolar(t) ==
  /\ hilo[t].en = "encola"
  /\ LET p == hilo[t].pid IN
       colas_ready' = [colas_ready EXCEPT ![ColaDeNivel(prioridad_actual[p])] = Append(@, p)]
  /\ sem_ready' = sem_ready + 1
  /\ Ir(t, hilo[t].tras)
  /\ UNCHANGED <<pcbs, estado, bloqueo_id, lista_exec, cola_block, suspendidos,
                 lista_espera, memoria, evento>>

-----------------------------------------------------------------------------
(* Kernel Memory, as far as suspension can tell *)

Residentes == {p \in Pids : memoria[p] = "ram"}
EnSwap     == {p \in Pids : memoria[p] = "swap"}
HayLugar       == Cardinality(Residentes) < config.ram
HayLugarEnSwap == Cardinality(EnSwap) < config.swap

-----------------------------------------------------------------------------
(* planificador_desbloquear *)

\* Mutant: a process that is not in BLOCK is taken for awake.
DesbloquearSoloBlock(t) ==
  /\ hilo[t].en = "desbloquea"
  /\ LET p == hilo[t].pid IN
       IF p \in cola_block
       THEN /\ cola_block' = cola_block \ {p}
            /\ estado' = [estado EXCEPT ![p] = "READY"]
            /\ bloqueo_id' = [bloqueo_id EXCEPT ![p] = @ + 1]
            /\ hilo' = [hilo EXCEPT ![t].en = "encola", ![t].fue = "ready"]
       ELSE Ir(t, hilo[t].tras) /\ UNCHANGED <<cola_block, estado, bloqueo_id>>
  /\ UNCHANGED <<pcbs, ready, lista_exec, suspendidos, lista_espera, memoria, evento>>

\* block_a_ready: BLOCK -> READY, and the process stays in the thread's hands.
DesbloquearBlock(t) ==
  /\ hilo[t].en = "desbloquea"
  /\ LET p == hilo[t].pid IN
       IF p \in cola_block
       THEN /\ cola_block' = cola_block \ {p}
            /\ estado' = [estado EXCEPT ![p] = "READY"]
            /\ bloqueo_id' = [bloqueo_id EXCEPT ![p] = @ + 1]
            /\ hilo' = [hilo EXCEPT ![t].en = "encola", ![t].fue = "ready"]
       ELSE /\ Ir(t, "desbloquea_susp")
            /\ UNCHANGED <<cola_block, estado, bloqueo_id>>
  /\ UNCHANGED <<pcbs, ready, lista_exec, suspendidos, lista_espera, memoria, evento>>

\* Otherwise SUSP_BLOCK -> SUSP_READY, if it is there.
DesbloquearSusp(t) ==
  /\ hilo[t].en = "desbloquea_susp"
  /\ LET p == hilo[t].pid IN
       IF p \in susp_block
       THEN /\ susp_block' = susp_block \ {p}
            /\ susp_ready' = susp_ready \cup {p}
            /\ estado' = [estado EXCEPT ![p] = "SUSP_READY"]
            /\ hilo' = [hilo EXCEPT ![t].en = hilo[t].tras, ![t].fue = "susp"]
       ELSE /\ Ir(t, hilo[t].tras)
            /\ UNCHANGED <<susp_block, susp_ready, estado>>
  /\ UNCHANGED <<pcbs, bloqueo_id, ready, lista_exec, cola_block, antiguedad,
                 lista_espera, memoria, evento>>

-----------------------------------------------------------------------------
(* hilo_timer_suspension *)

\* SUSPENSION_TIMEOUT may pass at any moment, unless the scenario says that it is
\* longer than any block.  Both queues are held, so that nobody finds the process
\* in neither.
VencerTimer(t) ==
  /\ t \in HilosTimer /\ hilo[t].en = "duerme" /\ config.vence
  /\ LET p == t[2] IN
       IF p \in cola_block /\ bloqueo_id[p] = t[3]
       THEN /\ cola_block' = cola_block \ {p}
            /\ susp_block' = susp_block \cup {p}
            /\ antiguedad' = Append(antiguedad, p)
            /\ estado' = [estado EXCEPT ![p] = "SUSP_BLOCK"]
            /\ Ir(t, "suspende")
       ELSE /\ Terminar(t)
            /\ UNCHANGED <<cola_block, susp_block, antiguedad, estado>>
  /\ UNCHANGED <<pcbs, bloqueo_id, ready, lista_exec, susp_ready, lista_espera, memoria, evento>>

\* SUSPENDER_PROCESO.  A process without segments has nothing to move, and one
\* for which SWAP has no room stays where it is: the answer is only logged.
Suspender(t) ==
  /\ t \in HilosTimer /\ hilo[t].en = "suspende"
  /\ memoria' = IF memoria[t[2]] = "ram" /\ HayLugarEnSwap
                THEN [memoria EXCEPT ![t[2]] = "swap"] ELSE memoria
  /\ LlamarEvento(t, "reposo")
  /\ UNCHANGED <<pcbs, estado, bloqueo_id, ready, lista_exec, cola_block, suspendidos,
                 lista_espera, evento>>

-----------------------------------------------------------------------------
(* planificador_evento_memoria_liberada *)

SinEvento == [dueno |-> SinHilo, candidatos |-> {}, esperas |-> <<>>]

\* What the snapshot keeps of each process in SUSP_READY; turno stands for
\* ts_suspension.
Candidatos == {[pid |-> antiguedad[i], prioridad |-> prioridad_actual[antiguedad[i]], turno |-> i] :
                 i \in {j \in DOMAIN antiguedad : antiguedad[j] \in susp_ready}}

\* comparar_candidatos: by priority, then the one that has been suspended longest.
VaAntes(a, b) == \/ a.prioridad < b.prioridad
                 \/ a.prioridad = b.prioridad /\ a.turno < b.turno

TomarEvento(t) ==
  /\ hilo[t].en = "evento" /\ evento.dueno = SinHilo
  /\ evento' = [dueno |-> t, candidatos |-> Candidatos, esperas |-> <<>>]
  /\ Ir(t, "candidatos")
  /\ UNCHANGED <<pcbs, estado, bloqueo_id, ready, lista_exec, cola_block, suspendidos,
                 lista_espera, memoria>>

\* Mutant: the answer of Kernel Memory is not looked at.
DessuspenderSinRespuesta(t) ==
  /\ hilo[t].en = "candidatos"
  /\ \E c \in evento.candidatos :
       /\ \A d \in evento.candidatos : ~VaAntes(d, c)
       /\ evento' = [evento EXCEPT !.candidatos = @ \ {c}]
       /\ memoria' = IF memoria[c.pid] = "swap" /\ HayLugar
                     THEN [memoria EXCEPT ![c.pid] = "ram"] ELSE memoria
       /\ hilo' = [hilo EXCEPT ![t].en = "vuelve", ![t].pid = c.pid]
  /\ UNCHANGED <<pcbs, estado, bloqueo_id, ready, lista_exec, cola_block, suspendidos, lista_espera>>

\* DESSUSPENDER_PROCESO for the next one: Kernel Memory restores it if it is in
\* SWAP and there is room; the loop goes on to the next one if not.
Dessuspender(t) ==
  /\ hilo[t].en = "candidatos"
  /\ \E c \in evento.candidatos :
       /\ \A d \in evento.candidatos : ~VaAntes(d, c)
       /\ evento' = [evento EXCEPT !.candidatos = @ \ {c}]
       /\ IF memoria[c.pid] = "swap" /\ HayLugar
          THEN /\ memoria' = [memoria EXCEPT ![c.pid] = "ram"]
               /\ hilo' = [hilo EXCEPT ![t].en = "vuelve", ![t].pid = c.pid]
          ELSE UNCHANGED <<memoria, hilo>>
  /\ UNCHANGED <<pcbs, estado, bloqueo_id, ready, lista_exec, cola_block, suspendidos, lista_espera>>

\* Mutant: the process stays in SUSP_READY too.
VolverSinQuitar(t) ==
  /\ hilo[t].en = "vuelve"
  /\ estado' = [estado EXCEPT ![hilo[t].pid] = "READY"]
  /\ LlamarEncolar(t, hilo[t].pid, "candidatos")
  /\ UNCHANGED <<pcbs, bloqueo_id, ready, lista_exec, cola_block, suspendidos,
                 lista_espera, memoria, evento>>

\* SUSP_READY -> READY, with the process in the thread's hands.
Volver(t) ==
  /\ hilo[t].en = "vuelve"
  /\ LET p == hilo[t].pid IN
       IF p \in susp_ready
       THEN /\ susp_ready' = susp_ready \ {p}
            /\ antiguedad' = RemoveFirst(antiguedad, p)
            /\ estado' = [estado EXCEPT ![p] = "READY"]
            /\ LlamarEncolar(t, p, "candidatos")
       ELSE /\ Ir(t, "candidatos")
            /\ UNCHANGED <<susp_ready, antiguedad, estado>>
  /\ UNCHANGED <<pcbs, bloqueo_id, ready, lista_exec, cola_block, susp_block,
                 lista_espera, memoria, evento>>

FinDeCandidatos(t) ==
  /\ hilo[t].en = "candidatos" /\ evento.candidatos = {}
  /\ evento' = [evento EXCEPT !.esperas = lista_espera]
  /\ Ir(t, "esperas")
  /\ UNCHANGED <<pcbs, estado, bloqueo_id, ready, lista_exec, cola_block, suspendidos,
                 lista_espera, memoria>>

\* A pending MEM_ALLOC is created and its process unblocked, or goes on waiting.
ReintentarEspera(t) ==
  /\ hilo[t].en = "esperas" /\ evento.esperas # <<>>
  /\ evento' = [evento EXCEPT !.esperas = Tail(@)]
  /\ LET p == Head(evento.esperas) IN
       IF HayLugar
       THEN /\ memoria' = [memoria EXCEPT ![p] = "ram"]
            /\ lista_espera' = RemoveFirst(lista_espera, p)
            /\ LlamarDesbloquear(t, p, "esperas")
       ELSE UNCHANGED <<memoria, lista_espera, hilo>>
  /\ UNCHANGED <<pcbs, estado, bloqueo_id, ready, lista_exec, cola_block, suspendidos>>

SoltarEvento(t) ==
  /\ hilo[t].en = "esperas" /\ evento.esperas = <<>>
  /\ evento' = SinEvento
  /\ Seguir(t, hilo[t].luego)
  /\ UNCHANGED <<pcbs, estado, bloqueo_id, ready, lista_exec, cola_block, suspendidos,
                 lista_espera, memoria>>

\* The steps that any thread may take.
PasoMedianoPlazo(t) ==
  \/ Encolar(t) \/ DesbloquearBlock(t) \/ DesbloquearSusp(t)
  \/ VencerTimer(t) \/ Suspender(t)
  \/ TomarEvento(t) \/ Dessuspender(t) \/ Volver(t) \/ FinDeCandidatos(t)
  \/ ReintentarEspera(t) \/ SoltarEvento(t)

=============================================================================
