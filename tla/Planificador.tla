---------------------------- MODULE Planificador ----------------------------
(***************************************************************************)
(* The Kernel Scheduler's process life cycle, the CPUs it drives and the   *)
(* desalojo (preemption) it asks them for.                                 *)
(*                                                                         *)
(* Each thread of the Kernel Scheduler is a member of Hilos with a program *)
(* counter; a step of a thread is one critical section of the code, so     *)
(* every order in which the operating system may run the critical sections *)
(* is a behaviour.  CPUs are separate programs at the other end of a pair  *)
(* of FIFO sockets.  Kernel Memory answers the scheduler one request at a  *)
(* time: it appears here through its answers, a choice wherever they depend *)
(* on where the holes are.                                                 *)
(*                                                                         *)
(* Suspension (mediano plazo), mutexes and the IO device pool are not part *)
(* of this module: processes block for less than SUSPENSION_TIMEOUT.       *)
(***************************************************************************)
EXTENDS Integers, Sequences, FiniteSets, SequencesExt

CONSTANTS
  Cpus,             \* identifiers of the CPUs that may connect
  MaxProcesos,      \* how many processes a run creates (bounds proximo_pid)
  MaxHilosIO,       \* a bound on the IO threads that one process may have at once
  Scripts,          \* instruction scripts (.prc): a function to Seq(Instruccion)
  ScriptInicial,    \* the script of PID 0 (argv[2] of the Kernel Scheduler)
  EsCMN,            \* PLANIFICATION_ALGORITHM = CMN
  CantColas,        \* number of READY queues
  AlgPorCola,       \* QUEUES_ALGORITHMS: "FIFO" or "RR" for each queue
  QueuePreemption,  \* QUEUE_PREEMPTION = TRUE
  MemoriaInicial,   \* units of memory of the sticks connected at start
  SticksNuevos      \* how many one-unit Memory Sticks may connect later

Pids == 0 .. MaxProcesos - 1

Operaciones == {"NOOP", "EXIT", "SLEEP", "INIT_PROC", "MEM_ALLOC", "MEM_FREE"}

\* a is the segment (MEM_*) or the script (INIT_PROC); b the size or priority.
Instruccion == {i \in [op : Operaciones, a : Nat, b : Int] :
                  i.op = "INIT_PROC" => i.a \in DOMAIN Scripts}

ASSUME ConstantesOK ==
  /\ IsFiniteSet(Cpus)
  /\ MaxProcesos \in Nat \ {0} /\ MaxHilosIO \in Nat
  /\ DOMAIN Scripts \subseteq Nat
  /\ Scripts \in [DOMAIN Scripts -> Seq(Instruccion)]
  /\ ScriptInicial \in DOMAIN Scripts
  /\ EsCMN \in BOOLEAN /\ QueuePreemption \in BOOLEAN
  /\ CantColas \in Nat \ {0} /\ (~EsCMN => CantColas = 1)
  /\ AlgPorCola \in [0 .. CantColas - 1 -> {"FIFO", "RR"}]
  /\ MemoriaInicial \in Nat /\ SticksNuevos \in Nat

VARIABLES
  \* --- PCBs (pcb.h); the script is fixed at creation
  proximo_pid, estado, prioridad, script,
  registros,        \* registros[p]: the PC saved in p's PCB
  \* --- lists of t_planificador
  cola_new, colas_ready, lista_exec, cola_block, lista_espera,
  sem_ready, sem_cpus,
  \* --- CPUs as the scheduler sees them, and quantum timers in flight
  cpus_conectadas, cpu, timers,
  \* --- sockets and the CPU programs
  red_cpu,          \* red_cpu[c]: messages from the scheduler to CPU c
  red_ks,           \* red_ks[c]: messages from CPU c to the scheduler
  nucleo,           \* nucleo[c]: what CPU c is doing
  \* --- Kernel Memory, as far as the scheduler can tell
  contexto_km,
  segmentos,        \* segmentos[p]: the segments of p, oldest first
  sticks,           \* one-unit Memory Sticks that connected after the start
  \* --- synchronisation that spans several critical sections
  compactacion_en_curso, mutex_socket, mutex_evento,
  \* --- threads
  pc, loc,
  \* --- history: instructions of p that a CPU has completed
  ejecutadas

pcbs   == <<proximo_pid, estado, prioridad, script, registros>>
colas  == <<cola_new, colas_ready, lista_exec, cola_block, lista_espera>>
sems   == <<sem_ready, sem_cpus>>
cpusKS == <<cpus_conectadas, cpu, timers>>
redes  == <<red_cpu, red_ks, nucleo>>
km     == <<contexto_km, segmentos, sticks>>
sinc   == <<compactacion_en_curso, mutex_socket, mutex_evento>>
vars   == <<pcbs, colas, sems, cpusKS, redes, km, sinc, pc, loc, ejecutadas>>

-----------------------------------------------------------------------------
(* Threads *)

HiloLP    == <<"LP", 0>>     \* hilo_planificador_largo_plazo
HiloCP    == <<"CP", 0>>     \* hilo_planificador_corto_plazo
HiloNT    == <<"NT", 0>>     \* hilo_notificaciones_km
HiloCpu(c) == <<"H", c>>     \* the thread that serves CPU c
HiloIO(p, k) == <<"IO", p, k>>   \* hilo_ejecutar_io, started by process p
NADIE     == <<"NADIE", 0>>

HilosCpu == {HiloCpu(c) : c \in Cpus}
HilosIO == {HiloIO(p, k) : p \in Pids, k \in 1 .. MaxHilosIO}
Hilos == {HiloLP, HiloCP, HiloNT} \cup HilosCpu \cup HilosIO

SinVictima == -1
InstNula == [op |-> "NOOP", a |-> 0, b |-> 0]

LocInicial == [pid |-> 0, cpu |-> 0, victima |-> SinVictima, frente |-> FALSE,
               evento |-> FALSE, tras |-> "recv", inst |-> InstNula, resto |-> <<>>]

EnEvento(t) == mutex_evento = t

\* The CPU a dispatching thread sends to: chosen by the corto plazo, its own
\* for the thread of a CPU.
CpuDe(t) == IF t = HiloCP THEN loc[t].cpu ELSE t[2]

\* Where encolar_en_ready returns to.
TrasEncolar(t) ==
  IF EnEvento(t) THEN "reintenta"
  ELSE CASE t = HiloLP  -> "espera_new"
         [] t = HiloCP  -> "espera_ready"
         [] t[1] = "IO" -> "inactivo"
         [] OTHER       -> "libera_cpu"

Ir(t, e) == pc' = [pc EXCEPT ![t] = e]

-----------------------------------------------------------------------------
(* READY queues and the EXEC list *)

ColaDe(p) ==
  IF ~EsCMN \/ prioridad[p] < 0 THEN 0
  ELSE IF prioridad[p] >= CantColas THEN CantColas - 1 ELSE prioridad[p]

UsaRR(p) == AlgPorCola[ColaDe(p)] = "RR"

ColasConProcesos == {q \in 0 .. CantColas - 1 : colas_ready[q] # <<>>}

\* The EXEC process with the worst priority, if some is strictly worse than
\* that of p; the first of the list among equals.
Victima(p) ==
  LET peores == {i \in DOMAIN lista_exec : prioridad[lista_exec[i]] > prioridad[p]}
      elegibles == {i \in peores :
                      \A j \in peores : prioridad[lista_exec[j]] <= prioridad[lista_exec[i]]}
  IN IF peores = {} THEN SinVictima ELSE lista_exec[Min(elegibles)]

-----------------------------------------------------------------------------
(* Messages.  rafaga is history: the burst the message was sent for. *)

MsjEnviarPid(p, r)   == [tipo |-> "ENVIAR_PID", pid |-> p, rafaga |-> r]
MsjInterrupcion(r)   == [tipo |-> "INTERRUPCION", pid |-> 0, rafaga |-> r]
MsjSyscall(i, k)     == [tipo |-> "SYSCALL", inst |-> i, pc |-> k]
MsjDesalojado(k)     == [tipo |-> "INTERRUPCION",
                         inst |-> InstNula, pc |-> k]

NucleoLibre == [ejecutando |-> FALSE, pid |-> 0, pc |-> 0]

CpuInicial == [libre |-> TRUE, pid |-> 0, en_rafaga |-> FALSE, rafaga |-> 0,
               motivo |-> "NINGUNA"]

EnRafaga == {c \in ToSet(cpus_conectadas) : ~cpu[c].libre /\ cpu[c].en_rafaga}

\* Kernel Memory: units that belong to no segment (espacio_libre).
Libre ==
  LET ocupado(p) == MapThenSumSet(LAMBDA i : segmentos[p][i].tam, DOMAIN segmentos[p]) IN
  MemoriaInicial + sticks - MapThenSumSet(ocupado, Pids)

CantSegmentos == MapThenSumSet(LAMBDA p : Len(segmentos[p]), Pids)

Init ==
  /\ proximo_pid = 1
  /\ estado = [p \in Pids |-> IF p = 0 THEN "NEW" ELSE "NO_CREADO"]
  /\ prioridad = [p \in Pids |-> 0]
  /\ script = [p \in Pids |-> ScriptInicial]
  /\ registros = [p \in Pids |-> 0]
  /\ cola_new = <<0>>
  /\ colas_ready = [q \in 0 .. CantColas - 1 |-> <<>>]
  /\ lista_exec = <<>> /\ cola_block = {} /\ lista_espera = <<>>
  /\ sem_ready = 0 /\ sem_cpus = 0
  /\ cpus_conectadas = <<>>
  /\ cpu = [c \in Cpus |-> CpuInicial]
  /\ timers = {}
  /\ red_cpu = [c \in Cpus |-> <<>>] /\ red_ks = [c \in Cpus |-> <<>>]
  /\ nucleo = [c \in Cpus |-> NucleoLibre]
  /\ contexto_km = [p \in Pids |-> 0]
  /\ segmentos = [p \in Pids |-> <<>>] /\ sticks = 0
  /\ compactacion_en_curso = FALSE
  /\ mutex_socket = NADIE /\ mutex_evento = NADIE
  /\ pc = [t \in Hilos |-> CASE t = HiloLP -> "espera_new"
                             [] t = HiloCP -> "espera_ready"
                             [] t \in HilosCpu -> "conecta"
                             [] OTHER -> "inactivo"]
  /\ loc = [t \in Hilos |-> LocInicial]
  /\ ejecutadas = [p \in Pids |-> 0]

-----------------------------------------------------------------------------
(* encolar_en_ready and chequear_desalojo_por_prioridad, run by any thread *)

\* Insert under mutex_cola_ready ...
Encolar(t) ==
  LET p == loc[t].pid IN
  /\ pc[t] = "encola"
  /\ colas_ready' = [colas_ready EXCEPT ![ColaDe(p)] =
                       IF loc[t].frente THEN <<p>> \o @ ELSE Append(@, p)]
  /\ Ir(t, "postea_ready")
  /\ UNCHANGED <<pcbs, cola_new, lista_exec, cola_block, lista_espera, sems, cpusKS,
                 redes, km, sinc, loc, ejecutadas>>

\* ... and only then count it: a token without its process would let the
\* corto plazo find every queue empty.  The corto plazo, which is here because
\* it found no CPU, gives back that token too.
PostearReady(t) ==
  /\ pc[t] = "postea_ready"
  /\ sem_ready' = sem_ready + 1
  /\ sem_cpus' = IF t = HiloCP THEN sem_cpus + 1 ELSE sem_cpus
  /\ Ir(t, IF EsCMN /\ QueuePreemption /\ ~loc[t].frente
           THEN "busca_victima" ELSE TrasEncolar(t))
  /\ UNCHANGED <<pcbs, colas, cpusKS, redes, km, sinc, loc, ejecutadas>>

\* Under mutex_lista_exec ...
BuscarVictima(t) ==
  /\ pc[t] = "busca_victima"
  /\ loc' = [loc EXCEPT ![t].victima = Victima(loc[t].pid)]
  /\ Ir(t, IF Victima(loc[t].pid) = SinVictima THEN TrasEncolar(t) ELSE "desaloja")
  /\ UNCHANGED <<pcbs, colas, sems, cpusKS, redes, km, sinc, ejecutadas>>

\* A CPU that may be told to give back process p.
Interrumpible(c, p) ==
  ~cpu[c].libre /\ cpu[c].en_rafaga /\ cpu[c].pid = p /\ cpu[c].motivo = "NINGUNA"

\* Mark the CPUs of C with the reason and send each an INTERRUPCION, meant for
\* its burst r[c].
Interrumpir(C, motivo, r) ==
  /\ cpu' = [c \in Cpus |-> IF c \in C THEN [cpu[c] EXCEPT !.motivo = motivo] ELSE cpu[c]]
  /\ red_cpu' = [c \in Cpus |-> IF c \in C THEN Append(red_cpu[c], MsjInterrupcion(r[c]))
                                ELSE red_cpu[c]]

RafagasActuales == [c \in Cpus |-> cpu[c].rafaga]

\* ... then, under mutex_cpus, interrupt the CPU that runs the victim if it is
\* still in a burst with it: the two sections see different moments.
Desalojar(t) ==
  /\ pc[t] = "desaloja"
  /\ Interrumpir({c \in ToSet(cpus_conectadas) : Interrumpible(c, loc[t].victima)},
                 "PREEMPCION", RafagasActuales)
  /\ loc' = [loc EXCEPT ![t].victima = SinVictima]
  /\ Ir(t, TrasEncolar(t))
  /\ UNCHANGED <<pcbs, colas, sems, cpus_conectadas, timers, red_ks, nucleo, km, sinc,
                 ejecutadas>>

-----------------------------------------------------------------------------
(* Largo plazo: NEW -> READY *)

AdmitirNew ==
  LET p == Head(cola_new) IN
  /\ pc[HiloLP] = "espera_new" /\ cola_new # <<>>
  /\ mutex_socket = NADIE                     \* registers p in Kernel Memory
  /\ cola_new' = Tail(cola_new)
  /\ contexto_km' = [contexto_km EXCEPT ![p] = 0]
  /\ estado' = [estado EXCEPT ![p] = "READY"]
  /\ loc' = [loc EXCEPT ![HiloLP] = [LocInicial EXCEPT !.pid = p]]
  /\ Ir(HiloLP, "encola")
  /\ UNCHANGED <<proximo_pid, prioridad, script, registros, colas_ready, lista_exec,
                 cola_block, lista_espera, sems, cpusKS, redes, segmentos, sticks, sinc,
                 ejecutadas>>

-----------------------------------------------------------------------------
(* Corto plazo: READY -> EXEC *)

\* Mutant: take a process without waiting for one.
EsperarReadySinGuarda ==
  /\ pc[HiloCP] = "espera_ready"
  /\ sem_ready' = sem_ready - 1
  /\ Ir(HiloCP, "espera_cpu")
  /\ UNCHANGED <<pcbs, colas, sem_cpus, cpusKS, redes, km, sinc, loc, ejecutadas>>

EsperarReady ==
  /\ pc[HiloCP] = "espera_ready" /\ sem_ready > 0
  /\ sem_ready' = sem_ready - 1
  /\ Ir(HiloCP, "espera_cpu")
  /\ UNCHANGED <<pcbs, colas, sem_cpus, cpusKS, redes, km, sinc, loc, ejecutadas>>

EsperarCpu ==
  /\ pc[HiloCP] = "espera_cpu" /\ sem_cpus > 0
  /\ sem_cpus' = sem_cpus - 1
  /\ Ir(HiloCP, "desencola")
  /\ UNCHANGED <<pcbs, colas, sem_ready, cpusKS, redes, km, sinc, loc, ejecutadas>>

\* The head of the most important queue that is not empty; with none, the CPU
\* token is given back.
Desencolar ==
  LET q == Min(ColasConProcesos) IN
  /\ pc[HiloCP] = "desencola"
  /\ IF ColasConProcesos = {}
     THEN /\ sem_cpus' = sem_cpus + 1
          /\ Ir(HiloCP, "espera_ready")
          /\ UNCHANGED <<colas_ready, loc>>
     ELSE /\ colas_ready' = [colas_ready EXCEPT ![q] = Tail(@)]
          /\ loc' = [loc EXCEPT ![HiloCP] = [LocInicial EXCEPT !.pid = Head(colas_ready[q])]]
          /\ Ir(HiloCP, "a_exec")
          /\ UNCHANGED sem_cpus
  /\ UNCHANGED <<pcbs, cola_new, lista_exec, cola_block, lista_espera, sem_ready, cpusKS,
                 redes, km, sinc, ejecutadas>>

\* Mutant: the process enters the list and keeps its old estado.
PasarAExecSinEstado ==
  LET p == loc[HiloCP].pid
      libres == {i \in DOMAIN cpus_conectadas : cpu[cpus_conectadas[i]].libre} IN
  /\ pc[HiloCP] = "a_exec" /\ libres # {}
  /\ lista_exec' = Append(lista_exec, p)
  /\ loc' = [loc EXCEPT ![HiloCP].cpu = cpus_conectadas[Min(libres)]]
  /\ Ir(HiloCP, "contexto")
  /\ UNCHANGED <<pcbs, cola_new, colas_ready, cola_block, lista_espera, sems, cpusKS,
                 redes, km, sinc, ejecutadas>>

\* First free CPU in order of connection; without one the process goes back to
\* the front of its queue.
PasarAExec ==
  LET p == loc[HiloCP].pid
      libres == {i \in DOMAIN cpus_conectadas : cpu[cpus_conectadas[i]].libre} IN
  /\ pc[HiloCP] = "a_exec"
  /\ IF libres = {}
     THEN /\ loc' = [loc EXCEPT ![HiloCP].frente = TRUE]
          /\ Ir(HiloCP, "encola")
          /\ UNCHANGED <<estado, lista_exec>>
     ELSE /\ estado' = [estado EXCEPT ![p] = "EXEC"]
          /\ lista_exec' = Append(lista_exec, p)
          /\ loc' = [loc EXCEPT ![HiloCP].cpu = cpus_conectadas[Min(libres)]]
          /\ Ir(HiloCP, "contexto")
  /\ UNCHANGED <<proximo_pid, prioridad, script, registros, cola_new, colas_ready,
                 cola_block, lista_espera, sems, cpusKS, redes, km, sinc, ejecutadas>>

-----------------------------------------------------------------------------
(* despachar, run by the corto plazo or by the thread of a CPU *)

\* Mutant: Kernel Memory keeps the context of an earlier dispatch.
ActualizarContextoViejo(t) ==
  /\ pc[t] = "contexto" /\ mutex_socket = NADIE
  /\ Ir(t, "envia")
  /\ UNCHANGED <<pcbs, colas, sems, cpusKS, redes, km, sinc, loc, ejecutadas>>

\* 1) planificador_actualizar_contexto_en_km, one exchange under mutex_socket
ActualizarContexto(t) ==
  LET p == loc[t].pid IN
  /\ pc[t] = "contexto" /\ mutex_socket = NADIE
  /\ contexto_km' = [contexto_km EXCEPT ![p] = registros[p]]
  /\ Ir(t, "envia")
  /\ UNCHANGED <<pcbs, colas, sems, cpusKS, redes, segmentos, sticks, sinc, loc, ejecutadas>>

\* Mutant: dispatch without the wait.
SinEsperarCompactacion == TRUE

\* 2) wait on cond_compactacion
PuedeDespachar == ~compactacion_en_curso

TrasDespachar(t) ==
  IF t = HiloCP THEN "espera_ready" ELSE IF loc[t].evento THEN "evento" ELSE "recv"

\* 3) with mutex_compactacion still held, mark the CPU and send the PID under
\* mutex_cpus; a process of an RR queue gets a timer for this burst.
Enviar(t) ==
  LET p == loc[t].pid
      c == CpuDe(t)
      r == cpu[c].rafaga + 1 IN
  /\ pc[t] = "envia" /\ PuedeDespachar
  /\ cpu' = [cpu EXCEPT ![c] = [libre |-> FALSE, pid |-> p, en_rafaga |-> TRUE,
                                rafaga |-> r, motivo |-> "NINGUNA"]]
  /\ red_cpu' = [red_cpu EXCEPT ![c] = Append(@, MsjEnviarPid(p, r))]
  /\ timers' = timers \cup {x \in {[cpu |-> c, pid |-> p, rafaga |-> r]} : UsaRR(p)}
  /\ Ir(t, TrasDespachar(t))
  /\ loc' = [loc EXCEPT ![t] = IF loc[t].evento THEN @ ELSE LocInicial]
  /\ UNCHANGED <<pcbs, colas, sems, cpus_conectadas, red_ks, nucleo, km, sinc, ejecutadas>>

\* Mutant: any later burst of the same process on the same CPU will do.
MismoProceso(x) == Interrumpible(x.cpu, x.pid)

\* What a quantum timer checks before it interrupts: the CPU is still in the
\* burst the timer was armed for.
MismaRafaga(x) == Interrumpible(x.cpu, x.pid) /\ cpu[x.cpu].rafaga = x.rafaga

VencerQuantum(x) ==
  /\ x \in timers
  /\ timers' = timers \ {x}
  /\ Interrumpir({c \in {x.cpu} : MismaRafaga(x)}, "QUANTUM", [c \in Cpus |-> x.rafaga])
  /\ UNCHANGED <<pcbs, colas, sems, cpus_conectadas, red_ks, nucleo, km, sinc, pc, loc,
                 ejecutadas>>

-----------------------------------------------------------------------------
(* The thread of a CPU: registration, then one message of the CPU at a time *)

RegistrarCpu(c) ==
  LET t == HiloCpu(c) IN
  /\ pc[t] = "conecta"
  /\ cpus_conectadas' = Append(cpus_conectadas, c)
  /\ cpu' = [cpu EXCEPT ![c] = CpuInicial]
  /\ Ir(t, "postea_cpu")
  /\ UNCHANGED <<pcbs, colas, sems, timers, redes, km, sinc, loc, ejecutadas>>

PostearCpu(c) ==
  LET t == HiloCpu(c) IN
  /\ pc[t] = "postea_cpu"
  /\ sem_cpus' = sem_cpus + 1
  /\ Ir(t, "recv")
  /\ UNCHANGED <<pcbs, colas, sem_ready, cpusKS, redes, km, sinc, loc, ejecutadas>>

TrasRecibir(m) ==
  IF m.tipo = "INTERRUPCION" THEN "vuelve_ready"
  ELSE CASE m.inst.op = "EXIT"      -> "sale"
         [] m.inst.op = "SLEEP"     -> "bloquea_io"
         [] m.inst.op = "INIT_PROC" -> "crea_proceso"
         [] m.inst.op = "MEM_ALLOC" -> "crea_segmento"
         [] OTHER                   -> "elimina_segmento"

\* Mutant: the CPU is offered again before its process has been attended.
FinDeRafagaYLibera(x) == [x EXCEPT !.en_rafaga = FALSE, !.motivo = "NINGUNA", !.libre = TRUE]

\* What the handler clears, under mutex_cpus, when the CPU gives its process
\* back: the burst is over, and so is the reason it was interrupted for.
FinDeRafaga(x) == [x EXCEPT !.en_rafaga = FALSE, !.motivo = "NINGUNA"]

\* The PCB that is attended is the one the CPU was given; an interrupted one
\* goes to the front of its queue when the reason captured here is COMPACTACION.
Recibir(c) ==
  LET t == HiloCpu(c)
      m == Head(red_ks[c])
      p == cpu[c].pid IN
  /\ pc[t] = "recv" /\ red_ks[c] # <<>>
  /\ red_ks' = [red_ks EXCEPT ![c] = Tail(@)]
  /\ cpu' = [cpu EXCEPT ![c] = FinDeRafaga(@)]
  /\ registros' = IF m.inst.op = "EXIT" THEN registros ELSE [registros EXCEPT ![p] = m.pc]
  /\ loc' = [loc EXCEPT ![t] =
               [LocInicial EXCEPT !.pid = p, !.inst = m.inst,
                  !.frente = m.tipo = "INTERRUPCION" /\ cpu[c].motivo = "COMPACTACION"]]
  /\ Ir(t, TrasRecibir(m))
  /\ UNCHANGED <<proximo_pid, estado, prioridad, script, colas, sems, cpus_conectadas,
                 timers, red_cpu, nucleo, km, sinc, ejecutadas>>

\* Mutant: the CPU is counted as available and is not marked free.
LiberarCpuSinLibre(c) ==
  LET t == HiloCpu(c) IN
  /\ pc[t] = "libera_cpu"
  /\ cpu' = [cpu EXCEPT ![c] = [@ EXCEPT !.pid = 0, !.en_rafaga = FALSE]]
  /\ loc' = [loc EXCEPT ![t] = LocInicial]
  /\ Ir(t, "postea_cpu")
  /\ UNCHANGED <<pcbs, colas, sems, cpus_conectadas, timers, redes, km, sinc, ejecutadas>>

LiberarCpu(c) ==
  LET t == HiloCpu(c) IN
  /\ pc[t] = "libera_cpu"
  /\ cpu' = [cpu EXCEPT ![c] = [@ EXCEPT !.libre = TRUE, !.pid = 0, !.en_rafaga = FALSE]]
  /\ loc' = [loc EXCEPT ![t] = LocInicial]
  /\ Ir(t, "postea_cpu")
  /\ UNCHANGED <<pcbs, colas, sems, cpus_conectadas, timers, redes, km, sinc, ejecutadas>>

-----------------------------------------------------------------------------
(* Transitions out of EXEC, each by the thread of the CPU that held the process *)

\* Mutant: back to READY and still in lista_exec.
ExecAReadySinQuitar(c) ==
  LET t == HiloCpu(c) IN
  /\ pc[t] = "vuelve_ready"
  /\ estado' = [estado EXCEPT ![loc[t].pid] = "READY"]
  /\ Ir(t, "encola")
  /\ UNCHANGED <<proximo_pid, prioridad, script, registros, colas, sems, cpusKS, redes, km,
                 sinc, loc, ejecutadas>>

\* exec_a_ready: out of the list, then encolar_en_ready
ExecAReady(c) ==
  LET t == HiloCpu(c) IN
  /\ pc[t] = "vuelve_ready"
  /\ lista_exec' = RemoveFirst(lista_exec, loc[t].pid)
  /\ estado' = [estado EXCEPT ![loc[t].pid] = "READY"]
  /\ Ir(t, "encola")
  /\ UNCHANGED <<proximo_pid, prioridad, script, registros, cola_new, colas_ready,
                 cola_block, lista_espera, sems, cpusKS, redes, km, sinc, loc, ejecutadas>>

ExecAExit(c) ==
  LET t == HiloCpu(c) IN
  /\ pc[t] = "sale"
  /\ lista_exec' = RemoveFirst(lista_exec, loc[t].pid)
  /\ estado' = [estado EXCEPT ![loc[t].pid] = "EXIT"]
  /\ Ir(t, "finaliza_km")
  /\ UNCHANGED <<proximo_pid, prioridad, script, registros, cola_new, colas_ready,
                 cola_block, lista_espera, sems, cpusKS, redes, km, sinc, loc, ejecutadas>>

\* Mutant: nobody hears of the memory a process leaves.
FinalizarProcesoSinEvento(c) ==
  LET t == HiloCpu(c) IN
  /\ pc[t] = "finaliza_km" /\ mutex_socket = NADIE
  /\ segmentos' = [segmentos EXCEPT ![loc[t].pid] = <<>>]
  /\ Ir(t, "libera_cpu")
  /\ UNCHANGED <<pcbs, colas, sems, cpusKS, redes, contexto_km, sticks, sinc, loc, ejecutadas>>

\* Kernel Memory drops every segment of the process; the memory event follows.
FinalizarProcesoKM(c) ==
  LET t == HiloCpu(c)
      p == loc[t].pid IN
  /\ pc[t] = "finaliza_km" /\ mutex_socket = NADIE
  /\ segmentos' = [segmentos EXCEPT ![p] = <<>>]
  /\ loc' = [loc EXCEPT ![t].tras = "libera_cpu"]
  /\ Ir(t, "evento")
  /\ UNCHANGED <<pcbs, colas, sems, cpusKS, redes, contexto_km, sticks, sinc, ejecutadas>>

Bloqueo == {"bloquea_io", "bloquea_memoria"}

\* exec_a_block; a SLEEP starts the thread that waits for its device.  The thread
\* of the process's previous SLEEP may still be posting the one it woke.
ExecABlock(c) ==
  LET t == HiloCpu(c)
      p == loc[t].pid IN
  /\ pc[t] \in Bloqueo
  /\ lista_exec' = RemoveFirst(lista_exec, p)
  /\ estado' = [estado EXCEPT ![p] = "BLOCK"]
  /\ cola_block' = cola_block \cup {p}
  /\ \/ /\ pc[t] = "bloquea_io"
        /\ \E k \in 1 .. MaxHilosIO :
             /\ pc[HiloIO(p, k)] = "inactivo"
             /\ pc' = [pc EXCEPT ![t] = "libera_cpu", ![HiloIO(p, k)] = "io"]
     \/ pc[t] = "bloquea_memoria" /\ Ir(t, "anota_espera")
  /\ UNCHANGED <<proximo_pid, prioridad, script, registros, cola_new, colas_ready,
                 lista_espera, sems, cpusKS, redes, km, sinc, loc, ejecutadas>>

Pedido(t) == IF EnEvento(t) THEN Head(loc[t].resto)
             ELSE [pid |-> loc[t].pid, seg |-> loc[t].inst.a, tam |-> loc[t].inst.b]

\* Mutant: the process blocks and its request is not listed.
AnotarEsperaNada(c) ==
  LET t == HiloCpu(c) IN
  /\ pc[t] = "anota_espera"
  /\ Ir(t, "libera_cpu")
  /\ UNCHANGED <<pcbs, colas, sems, cpusKS, redes, km, sinc, loc, ejecutadas>>

\* bloquear_por_memoria: the request is listed after the answer that refused it
AnotarEspera(c) ==
  LET t == HiloCpu(c) IN
  /\ pc[t] = "anota_espera"
  /\ lista_espera' = Append(lista_espera, Pedido(t))
  /\ Ir(t, "libera_cpu")
  /\ UNCHANGED <<pcbs, cola_new, colas_ready, lista_exec, cola_block, sems, cpusKS, redes,
                 km, sinc, loc, ejecutadas>>

\* Sacar p de cola_block y ponerlo en READY; encolar_en_ready follows.
BlockAReady(t, p) ==
  /\ cola_block' = cola_block \ {p}
  /\ estado' = [estado EXCEPT ![p] = "READY"]

TerminarIO(t) ==
  LET p == t[2] IN
  /\ pc[t] = "io"
  /\ BlockAReady(t, p)
  /\ loc' = [loc EXCEPT ![t].pid = p]
  /\ Ir(t, "encola")
  /\ UNCHANGED <<proximo_pid, prioridad, script, registros, cola_new, colas_ready,
                 lista_exec, lista_espera, sems, cpusKS, redes, km, sinc, ejecutadas>>

PrioridadValida(n) == EsCMN => n \in 0 .. CantColas - 1

\* INIT_PROC; the caller goes back to READY either way.  proximo_pid is bounded
\* by MaxProcesos.
CrearProceso(c) ==
  LET t == HiloCpu(c)
      n == loc[t].inst.b IN
  /\ pc[t] = "crea_proceso"
  /\ IF PrioridadValida(n)
     THEN /\ proximo_pid < MaxProcesos
          /\ proximo_pid' = proximo_pid + 1
          /\ estado' = [estado EXCEPT ![proximo_pid] = "NEW"]
          /\ prioridad' = [prioridad EXCEPT ![proximo_pid] = n]
          /\ script' = [script EXCEPT ![proximo_pid] = loc[t].inst.a]
          /\ cola_new' = Append(cola_new, proximo_pid)
     ELSE UNCHANGED <<proximo_pid, estado, prioridad, script, cola_new>>
  /\ Ir(t, "vuelve_ready")
  /\ UNCHANGED <<registros, colas_ready, lista_exec, cola_block, lista_espera, sems, cpusKS,
                 redes, km, sinc, loc, ejecutadas>>

-----------------------------------------------------------------------------
(* planificador_crear_segmento_km: for the MEM_ALLOC of the CPU's process, or *)
(* to retry a pending one during a memory event.  mutex_socket is held from   *)
(* the request to the answer, so across the whole compaction.                 *)

PideSegmento(t) ==
  /\ \/ pc[t] = "crea_segmento"
     \/ pc[t] = "reintenta" /\ loc[t].resto # <<>>
  /\ mutex_socket = NADIE

ConSegmento(q) == [segmentos EXCEPT ![q.pid] = Append(@, q)]

TrasCrear(t) == IF EnEvento(t) THEN "satisface" ELSE "contexto"

\* MENSAJE_OK: a hole was found
CrearOK(t) ==
  /\ PideSegmento(t)
  /\ 0 < Pedido(t).tam /\ Pedido(t).tam <= Libre
  /\ segmentos' = ConSegmento(Pedido(t))
  /\ Ir(t, TrasCrear(t))
  /\ UNCHANGED <<pcbs, colas, sems, cpusKS, redes, contexto_km, sticks, sinc, loc,
                 ejecutadas>>

\* MENSAJE_ERROR: a size of zero, or more than all the free memory.  A retry
\* moves to the next pending request; a syscall blocks.
CrearError(t) ==
  /\ PideSegmento(t)
  /\ Pedido(t).tam <= 0 \/ Pedido(t).tam > Libre
  /\ IF EnEvento(t)
     THEN /\ loc' = [loc EXCEPT ![t].resto = Tail(@)]
          /\ Ir(t, "reintenta")
     ELSE /\ Ir(t, "bloquea_memoria")
          /\ UNCHANGED loc
  /\ UNCHANGED <<pcbs, colas, sems, cpusKS, redes, km, sinc, ejecutadas>>

\* No hole is as large as the request: k segments leave at most k + 1 holes.
CabeFragmentada(q) == Libre <= (q.tam - 1) * (CantSegmentos + 1)

\* MENSAJE_COMPACTACION: room enough, but possibly not in one hole
CrearCompacta(t) ==
  /\ PideSegmento(t)
  /\ 0 < Pedido(t).tam /\ Pedido(t).tam <= Libre /\ CabeFragmentada(Pedido(t))
  /\ mutex_socket' = t
  /\ Ir(t, "pausa")
  /\ UNCHANGED <<pcbs, colas, sems, cpusKS, redes, km, compactacion_en_curso, mutex_evento,
                 loc, ejecutadas>>

PausarPlanificacion(t) ==
  /\ pc[t] = "pausa"
  /\ compactacion_en_curso' = TRUE
  /\ Ir(t, "interrumpe")
  /\ UNCHANGED <<pcbs, colas, sems, cpusKS, redes, km, mutex_socket, mutex_evento, loc,
                 ejecutadas>>

\* Mutant: every CPU with a process.
NoLibres == {c \in ToSet(cpus_conectadas) : ~cpu[c].libre}

\* The CPUs whose process must come back before Kernel Memory may compact.
PorDevolver == EnRafaga

\* interrumpir_cpus_para_compactar, called again until it counts none
InterrumpirParaCompactar(t) ==
  /\ pc[t] = "interrumpe"
  /\ Interrumpir({c \in PorDevolver : cpu[c].motivo # "COMPACTACION"}, "COMPACTACION",
                 RafagasActuales)
  /\ Ir(t, IF PorDevolver = {} THEN "compacta" ELSE "interrumpe")
  /\ UNCHANGED <<pcbs, colas, sems, cpus_conectadas, timers, red_ks, nucleo, km, sinc, loc,
                 ejecutadas>>

\* Kernel Memory compacts and creates the segment: there is one hole now, at
\* least as large as the request.
Compactar(t) ==
  /\ pc[t] = "compacta"
  /\ segmentos' = ConSegmento(Pedido(t))
  /\ Ir(t, "reanuda")
  /\ UNCHANGED <<pcbs, colas, sems, cpusKS, redes, contexto_km, sticks, sinc, loc,
                 ejecutadas>>

\* hubo_compactacion is reported to a syscall, not to a retry (NULL)
ReanudarPlanificacion(t) ==
  /\ pc[t] = "reanuda"
  /\ compactacion_en_curso' = FALSE
  /\ mutex_socket' = NADIE
  /\ loc' = [loc EXCEPT ![t].evento = ~EnEvento(t)]
  /\ Ir(t, TrasCrear(t))
  /\ UNCHANGED <<pcbs, colas, sems, cpusKS, redes, km, mutex_evento, ejecutadas>>

\* MEM_FREE: the first segment of the process with that id.  Without it the
\* process is dispatched again with no memory event.
EliminarSegmento(c) ==
  LET t == HiloCpu(c)
      p == loc[t].pid
      suyos == {i \in DOMAIN segmentos[p] : segmentos[p][i].seg = loc[t].inst.a} IN
  /\ pc[t] = "elimina_segmento" /\ mutex_socket = NADIE
  /\ segmentos' = IF suyos = {} THEN segmentos
                  ELSE [segmentos EXCEPT ![p] = RemoveAt(@, Min(suyos))]
  /\ loc' = [loc EXCEPT ![t].evento = suyos # {}]
  /\ Ir(t, "contexto")
  /\ UNCHANGED <<pcbs, colas, sems, cpusKS, redes, contexto_km, sticks, sinc, ejecutadas>>

-----------------------------------------------------------------------------
(* planificador_evento_memoria_liberada: one thread at a time retries, in order *)
(* of arrival, the requests that were pending when it began.                    *)

TomarEvento(t) ==
  /\ pc[t] = "evento" /\ mutex_evento = NADIE
  /\ mutex_evento' = t
  /\ loc' = [loc EXCEPT ![t].resto = lista_espera]
  /\ Ir(t, "reintenta")
  /\ UNCHANGED <<pcbs, colas, sems, cpusKS, redes, km, compactacion_en_curso, mutex_socket,
                 ejecutadas>>

\* The request leaves the list and its process goes to READY.
Satisfacer(t) ==
  LET q == Head(loc[t].resto) IN
  /\ pc[t] = "satisface"
  /\ lista_espera' = RemoveFirst(lista_espera, q)
  /\ BlockAReady(t, q.pid)
  /\ loc' = [loc EXCEPT ![t].pid = q.pid, ![t].resto = Tail(@)]
  /\ Ir(t, "encola")
  /\ UNCHANGED <<proximo_pid, prioridad, script, registros, cola_new, colas_ready,
                 lista_exec, sems, cpusKS, redes, km, sinc, ejecutadas>>

SoltarEvento(t) ==
  /\ pc[t] = "reintenta" /\ loc[t].resto = <<>>
  /\ mutex_evento' = NADIE
  /\ loc' = [loc EXCEPT ![t] = LocInicial]
  /\ Ir(t, IF t = HiloNT THEN "inactivo" ELSE loc[t].tras)
  /\ UNCHANGED <<pcbs, colas, sems, cpusKS, redes, km, compactacion_en_curso, mutex_socket,
                 ejecutadas>>

\* A Memory Stick connects to Kernel Memory, which notifies MAS_MEMORIA.  The
\* next one connects when this has been attended; bounded by SticksNuevos.
NuevoStick ==
  /\ pc[HiloNT] = "inactivo" /\ sticks < SticksNuevos
  /\ sticks' = sticks + 1
  /\ Ir(HiloNT, "evento")
  /\ UNCHANGED <<pcbs, colas, sems, cpusKS, redes, contexto_km, segmentos, sinc, loc,
                 ejecutadas>>

-----------------------------------------------------------------------------
(* The CPU program *)

\* Mutant: an idle CPU leaves the INTERRUPCION for its next check.
CpuRecibeSoloPid(c) ==
  LET envios == {i \in DOMAIN red_cpu[c] : red_cpu[c][i].tipo = "ENVIAR_PID"}
      m == red_cpu[c][Min(envios)] IN
  /\ ~nucleo[c].ejecutando /\ envios # {}
  /\ red_cpu' = [red_cpu EXCEPT ![c] = RemoveAt(@, Min(envios))]
  /\ nucleo' = [nucleo EXCEPT ![c] = [ejecutando |-> TRUE, pid |-> m.pid,
                                       pc |-> contexto_km[m.pid]]]
  /\ UNCHANGED <<pcbs, colas, sems, cpusKS, red_ks, km, sinc, pc, loc, ejecutadas>>

\* Waiting for the scheduler: a PID starts a burst with the context Kernel
\* Memory has for it; an INTERRUPCION that comes too late is dropped.
CpuRecibe(c) ==
  LET m == Head(red_cpu[c]) IN
  /\ ~nucleo[c].ejecutando /\ red_cpu[c] # <<>>
  /\ red_cpu' = [red_cpu EXCEPT ![c] = Tail(@)]
  /\ nucleo' = IF m.tipo = "INTERRUPCION" THEN nucleo
               ELSE [nucleo EXCEPT ![c] = [ejecutando |-> TRUE, pid |-> m.pid,
                                           pc |-> contexto_km[m.pid]]]
  /\ UNCHANGED <<pcbs, colas, sems, cpusKS, red_ks, km, sinc, pc, loc, ejecutadas>>

\* The PC moves past every instruction, before the registers are sent (there are
\* no jumps here: JNZ and SET PC belong to the CPU's own arithmetic).
PCSiguiente(c) == nucleo[c].pc + 1

\* Mutant: the CPU answers and goes on.
DevolverYSeguir(c, m) ==
  /\ red_ks' = [red_ks EXCEPT ![c] = Append(@, m)]
  /\ nucleo' = [nucleo EXCEPT ![c].pc = PCSiguiente(c)]

\* The burst of CPU c ends with message m.
Devolver(c, m) ==
  /\ red_ks' = [red_ks EXCEPT ![c] = Append(@, m)]
  /\ nucleo' = [nucleo EXCEPT ![c] = NucleoLibre]

\* FETCH of an instruction there is not: the CPU goes idle and tells nobody.
FallarFetch(c) ==
  /\ nucleo[c].ejecutando
  /\ nucleo[c].pc >= Len(Scripts[script[nucleo[c].pid]])
  /\ nucleo' = [nucleo EXCEPT ![c] = NucleoLibre]
  /\ UNCHANGED <<pcbs, colas, sems, cpusKS, red_cpu, red_ks, km, sinc, pc, loc, ejecutadas>>

HayInstruccion(c) ==
  /\ nucleo[c].ejecutando
  /\ nucleo[c].pc < Len(Scripts[script[nucleo[c].pid]])

InstActual(c) == Scripts[script[nucleo[c].pid]][nucleo[c].pc + 1]

\* An instruction that is not a syscall, then cpu_check_interrupt.
EjecutarComun(c) ==
  LET avisado == red_cpu[c] # <<>> /\ Head(red_cpu[c]).tipo = "INTERRUPCION" IN
  /\ HayInstruccion(c) /\ InstActual(c).op = "NOOP"
  /\ ejecutadas' = [ejecutadas EXCEPT ![nucleo[c].pid] = @ + 1]
  /\ IF avisado
     THEN /\ red_cpu' = [red_cpu EXCEPT ![c] = Tail(@)]
          /\ Devolver(c, MsjDesalojado(PCSiguiente(c)))
     ELSE /\ nucleo' = [nucleo EXCEPT ![c].pc = PCSiguiente(c)]
          /\ UNCHANGED <<red_cpu, red_ks>>
  /\ UNCHANGED <<pcbs, colas, sems, cpusKS, km, sinc, pc, loc>>

\* A syscall ends the burst without a look at the socket.
EjecutarSyscall(c) ==
  /\ HayInstruccion(c) /\ InstActual(c).op # "NOOP"
  /\ ejecutadas' = [ejecutadas EXCEPT ![nucleo[c].pid] = @ + 1]
  /\ Devolver(c, MsjSyscall(InstActual(c), PCSiguiente(c)))
  /\ UNCHANGED <<pcbs, colas, sems, cpusKS, red_cpu, km, sinc, pc, loc>>

-----------------------------------------------------------------------------
(* encolar_en_ready is reached from every thread; memory from those of the    *)
(* CPUs and from the one that hears Kernel Memory.                            *)

HilosMemoria == HilosCpu \cup {HiloNT}

EncolarEnReady(t) == Encolar(t) \/ PostearReady(t) \/ BuscarVictima(t) \/ Desalojar(t)

CortoPlazo == EsperarReady \/ EsperarCpu \/ Desencolar \/ PasarAExec

Despachar(t) == ActualizarContexto(t) \/ Enviar(t)

CrearSegmento(t) == CrearOK(t) \/ CrearError(t) \/ CrearCompacta(t)

Compactacion(t) ==
  \/ PausarPlanificacion(t) \/ InterrumpirParaCompactar(t)
  \/ Compactar(t) \/ ReanudarPlanificacion(t)

EventoMemoria(t) == TomarEvento(t) \/ Satisfacer(t) \/ SoltarEvento(t)

AtenderCpu(c) ==
  \/ RegistrarCpu(c) \/ PostearCpu(c) \/ Recibir(c) \/ LiberarCpu(c)
  \/ ExecAReady(c) \/ ExecAExit(c) \/ FinalizarProcesoKM(c) \/ ExecABlock(c)
  \/ AnotarEspera(c) \/ CrearProceso(c) \/ EliminarSegmento(c)

ProgramaCpu(c) ==
  CpuRecibe(c) \/ FallarFetch(c) \/ EjecutarComun(c) \/ EjecutarSyscall(c)

Next ==
  \/ \E t \in Hilos : EncolarEnReady(t)
  \/ AdmitirNew
  \/ CortoPlazo
  \/ \E t \in {HiloCP} \cup HilosCpu : Despachar(t)
  \/ \E x \in timers : VencerQuantum(x)
  \/ \E c \in Cpus : AtenderCpu(c)
  \/ \E t \in HilosIO : TerminarIO(t)
  \/ \E t \in HilosMemoria : CrearSegmento(t) \/ Compactacion(t) \/ EventoMemoria(t)
  \/ NuevoStick
  \/ \E c \in Cpus : ProgramaCpu(c)

Spec == Init /\ [][Next]_vars

\* Every thread and every CPU program that can take a step takes one: they are
\* scheduled by the operating system and no mutex is contended for ever.  Timers
\* run out.  Nothing makes a Memory Stick connect.
Fairness ==
  /\ WF_vars(AdmitirNew) /\ WF_vars(CortoPlazo)
  /\ \A t \in Hilos : WF_vars(EncolarEnReady(t))
  /\ \A t \in {HiloCP} \cup HilosCpu : WF_vars(Despachar(t))
  /\ \A t \in HilosMemoria : /\ WF_vars(CrearSegmento(t)) /\ WF_vars(Compactacion(t))
                             /\ WF_vars(EventoMemoria(t))
  /\ \A c \in Cpus : WF_vars(AtenderCpu(c)) /\ WF_vars(ProgramaCpu(c))
  /\ \A t \in HilosIO : WF_vars(TerminarIO(t))
  /\ WF_vars(\E x \in timers : VencerQuantum(x))

FairSpec == Spec /\ Fairness

-----------------------------------------------------------------------------
(* Properties *)

MensajesCpu == [tipo : {"ENVIAR_PID", "INTERRUPCION"}, pid : Pids, rafaga : Nat]
MensajesKS  == [tipo : {"SYSCALL", "INTERRUPCION"}, inst : Instruccion, pc : Nat]
Pedidos     == [pid : Pids, seg : Nat, tam : Int]

\* Where a thread may be
Lugares == {"conecta", "postea_cpu", "recv", "vuelve_ready", "sale", "finaliza_km",
            "bloquea_io", "bloquea_memoria", "anota_espera", "crea_proceso",
            "crea_segmento", "elimina_segmento", "libera_cpu", "contexto", "envia",
            "encola", "postea_ready", "busca_victima", "desaloja", "espera_new",
            "espera_ready", "espera_cpu", "desencola", "a_exec",
            "io", "inactivo", "evento", "reintenta", "satisface", "pausa",
            "interrumpe", "compacta", "reanuda"}

Locales == [pid : Pids, cpu : Cpus \cup {0}, victima : Pids \cup {SinVictima},
            frente : BOOLEAN, evento : BOOLEAN, tras : {"recv", "libera_cpu"},
            inst : Instruccion, resto : Seq(Pedidos)]

TypePcbs ==
  /\ proximo_pid \in 1 .. MaxProcesos
  /\ estado \in [Pids -> {"NO_CREADO", "NEW", "READY", "EXEC", "BLOCK", "EXIT"}]
  /\ prioridad \in [Pids -> Int]
  /\ script \in [Pids -> DOMAIN Scripts]
  /\ registros \in [Pids -> Nat]
  /\ ejecutadas \in [Pids -> Nat]

TypeColas ==
  /\ cola_new \in Seq(Pids)
  /\ colas_ready \in [0 .. CantColas - 1 -> Seq(Pids)]
  /\ lista_exec \in Seq(Pids) /\ cola_block \in SUBSET Pids
  /\ lista_espera \in Seq(Pedidos)
  /\ sem_ready \in Nat /\ sem_cpus \in Nat

TypeCpus ==
  /\ cpus_conectadas \in Seq(Cpus)
  /\ cpu \in [Cpus -> [libre : BOOLEAN, pid : Pids, en_rafaga : BOOLEAN, rafaga : Nat,
                       motivo : {"NINGUNA", "QUANTUM", "PREEMPCION", "COMPACTACION"}]]
  /\ timers \subseteq [cpu : Cpus, pid : Pids, rafaga : Nat]
  /\ red_cpu \in [Cpus -> Seq(MensajesCpu)]
  /\ red_ks \in [Cpus -> Seq(MensajesKS)]
  /\ nucleo \in [Cpus -> [ejecutando : BOOLEAN, pid : Pids, pc : Nat]]

TypeKM ==
  /\ contexto_km \in [Pids -> Nat]
  /\ segmentos \in [Pids -> Seq(Pedidos)] /\ sticks \in Nat
  /\ compactacion_en_curso \in BOOLEAN
  /\ mutex_socket \in HilosMemoria \cup {NADIE}
  /\ mutex_evento \in HilosMemoria \cup {NADIE}

TypeHilos == pc \in [Hilos -> Lugares] /\ loc \in [Hilos -> Locales]

\* Every PCB field, list, CPU record, message and thread stays in its type; in
\* particular the handlers never act on a PID that no process can have.
TypeOK == TypePcbs /\ TypeColas /\ TypeCpus /\ TypeKM /\ TypeHilos

\* The PID a thread has taken out of one list and not yet put in another
EnMano(t) == IF pc[t] \in {"encola", "a_exec"} THEN {loc[t].pid} ELSE {}

Posiciones(s, p) == {i \in DOMAIN s : s[i] = p}

\* Where a process in READY may be: a position of a queue, or a thread's hands.
LugaresReady(p) ==
  (UNION {{<<"cola", q, i>> : i \in Posiciones(colas_ready[q], p)} : q \in 0 .. CantColas - 1})
  \cup {<<"mano", t>> : t \in {u \in Hilos : p \in EnMano(u)}}

\* A process is in exactly one place: no interleaving of the transitions, which
\* take it out of one list and later put it in another, loses or duplicates it,
\* and its estado says where it is.  Only a blocked one has a MEM_ALLOC pending.
UnSoloLugar ==
  \A p \in Pids :
    /\ Cardinality(Posiciones(cola_new, p)) = (IF estado[p] = "NEW" THEN 1 ELSE 0)
    /\ Cardinality(LugaresReady(p)) = (IF estado[p] = "READY" THEN 1 ELSE 0)
    /\ Cardinality(Posiciones(lista_exec, p)) = (IF estado[p] = "EXEC" THEN 1 ELSE 0)
    /\ p \in cola_block <=> estado[p] = "BLOCK"
    /\ \A i \in DOMAIN lista_espera : lista_espera[i].pid = p => estado[p] = "BLOCK"

\* CPU c is, or is about to be, running process p for the scheduler
RafagaEn(c) ==
  (IF nucleo[c].ejecutando THEN {nucleo[c].pid} ELSE {})
  \cup {red_cpu[c][i].pid : i \in {j \in DOMAIN red_cpu[c] : red_cpu[c][j].tipo = "ENVIAR_PID"}}

\* Two CPUs never run the same process, and a process that some CPU runs or has
\* been sent is still in lista_exec.
UnaSolaRafaga ==
  /\ \A c, d \in Cpus : c # d => RafagaEn(c) \cap RafagaEn(d) = {}
  /\ \A c \in Cpus : RafagaEn(c) \subseteq ToSet(lista_exec)

\* A CPU runs a process at the instruction after the last one completed: through
\* preemptions, syscalls and dispatches on other CPUs none is skipped or repeated.
ContextoFiel ==
  \A c \in Cpus : nucleo[c].ejecutando => nucleo[c].pc = ejecutadas[nucleo[c].pid]

\* An INTERRUPCION that finds a CPU executing was sent for that very burst: one
\* sent for an earlier process has been dropped before.
InterrupcionDeSuRafaga ==
  \A c \in Cpus : nucleo[c].ejecutando =>
    \A i \in DOMAIN red_cpu[c] :
      /\ red_cpu[c][i].tipo = "INTERRUPCION"
      /\ red_cpu[c][i].rafaga = cpu[c].rafaga

\* When a CPU gives back an interrupted process, the reason is still recorded:
\* the handler never takes its default branch and logs a quantum that did not end.
MotivoConocido ==
  \A c \in Cpus : \A i \in DOMAIN red_ks[c] :
    red_ks[c][i].tipo = "INTERRUPCION" => cpu[c].motivo # "NINGUNA"

\* The handler of a CPU always finds in lista_exec the process that CPU was
\* given (with none it would read the registers that follow as a message code).
ManejadorEncuentraSuProceso ==
  \A c \in Cpus : red_ks[c] # <<>> =>
    ~cpu[c].libre /\ cpu[c].pid \in ToSet(lista_exec)

\* While Kernel Memory moves segments no CPU executes, and none has been sent a
\* process it could begin to execute.
CompactaSinCpus ==
  (\E t \in HilosMemoria : pc[t] = "compacta") =>
    \A c \in Cpus : /\ ~nucleo[c].ejecutando
                    /\ \A i \in DOMAIN red_cpu[c] : red_cpu[c][i].tipo # "ENVIAR_PID"

\* The corto plazo, past both semaphores, finds a process and a free CPU: the
\* branches "por seguridad" of its loop are never taken.
SemaforosExactos ==
  /\ pc[HiloCP] = "desencola" => ColasConProcesos # {}
  /\ pc[HiloCP] = "a_exec" => \E c \in ToSet(cpus_conectadas) : cpu[c].libre

\* An instance of the abstract life cycle (see CicloDeVida): the estados move
\* along its arrows, there are at most as many processes in EXEC as CPUs, and
\* instructions are completed one at a time and in EXEC only.
Ciclo == INSTANCE CicloDeVida WITH Procesos <- Pids, NumCpus <- Cardinality(Cpus),
                                   avance <- ejecutadas
ImplementaCiclo == Ciclo!Spec

\* Every process that is created ends.
TodosTerminan == \A p \in Pids : estado[p] = "NEW" ~> estado[p] = "EXIT"

\* A compaction that begins ends: every CPU it interrupts gives its process back.
CompactacionTermina == compactacion_en_curso ~> ~compactacion_en_curso

\* A process that waits for memory gets it when the memory it needs has been
\* freed and stays free.
EsperaAtendida ==
  \A p \in Pids : ~ <>[](\E i \in DOMAIN lista_espera :
                           lista_espera[i].pid = p /\ lista_espera[i].tam <= Libre)

\* No thread of the scheduler is in the middle of anything.
Quieto ==
  /\ \A t \in Hilos : pc[t] \in {"espera_new", "espera_ready", "espera_cpu", "recv", "inactivo"}
  /\ cola_new = <<>> /\ \A c \in Cpus : red_ks[c] = <<>>

\* With preemption between queues, no process waits in READY while every CPU
\* runs, with no interruption on its way, one that is less important.
DesalojoPorPrioridad ==
  LET enReady == UNION {ToSet(colas_ready[q]) : q \in 0 .. CantColas - 1} IN
  Quieto /\ EnRafaga = ToSet(cpus_conectadas) /\ EnRafaga # {} =>
    \A p \in enReady : \E c \in EnRafaga :
      cpu[c].motivo # "NINGUNA" \/ prioridad[cpu[c].pid] <= prioridad[p]

=============================================================================
