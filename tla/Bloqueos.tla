------------------------------ MODULE Bloqueos ------------------------------
(***************************************************************************)
(* How processes block and come back: the threads of the Kernel Scheduler  *)
(* that serve the syscalls, the corto plazo, the threads of the IOs and of *)
(* the suspension timers, over the device pool (DispositivosIO), the table *)
(* of mutexes (MutexKernel) and the mediano plazo (MedianoPlazo).          *)
(*                                                                         *)
(* A CPU appears through what it returns: the next syscall of the script   *)
(* of its process, or an INTERRUPCION, which the script says too.  Which   *)
(* interruptions the scheduler asks for, and when, is in Planificador.     *)
(***************************************************************************)
EXTENDS MedianoPlazo, MutexKernel, DispositivosIO

CONSTANT Configuraciones   \* the scenarios, one for each initial state

Operaciones == {"EXIT", "IO", "MUTEX_LOCK", "MUTEX_UNLOCK", "MEM_ALLOC", "MEM_FREE", "INTERRUPCION"}

\* arg: the mutex or, of an IO, the position of its type in the scenario's tipos.
Instruccion == [op : Operaciones, arg : Nat]

\* No process is twice in the queues.
SinRepetir(colas) ==
  \A q, r \in DOMAIN colas : \A i \in DOMAIN colas[q], j \in DOMAIN colas[r] :
    colas[q][i] = colas[r][j] => q = r /\ i = j

\* colas: the READY queues, where the processes that were created are; guion:
\* what each asks for; vence: SUSPENSION_TIMEOUT may pass; carga: the memory each
\* has; ram and swap: how many processes fit in each; ios: the devices connected
\* at the start; conectan and caen: those that may connect later, and die.
ASSUME ConfiguracionesOK ==
  \A c \in Configuraciones :
    /\ c.cmn \in BOOLEAN /\ c.vence \in BOOLEAN
    /\ c.cpus \in Seq(Cpus) /\ c.cpus # <<>>
    /\ c.colas \in [0 .. CantColas - 1 -> Seq(Pids)]
    /\ SinRepetir(c.colas)
    /\ c.prioridad \in [Pids -> Int]
    /\ c.tipos \in Seq(TiposIO)
    /\ c.guion \in [Pids -> Seq(Instruccion)]
    /\ \A p \in Pids : \A i \in DOMAIN c.guion[p] :
         LET a == c.guion[p][i] IN
           /\ a.op = "IO" => a.arg \in DOMAIN c.tipos
           /\ a.op \in {"MUTEX_LOCK", "MUTEX_UNLOCK"} => a.arg \in Mutexes
    /\ c.carga \in [Pids -> {"sin", "ram"}]
    /\ c.ram \in Nat /\ c.swap \in Nat
    /\ c.ios \in Seq(Dispositivos)
    /\ \A i, j \in DOMAIN c.ios : c.ios[i] = c.ios[j] => i = j
    /\ c.conectan \subseteq Dispositivos
    /\ c.caen \subseteq Dispositivos

VARIABLES
  cpu,     \* cpu[c]: pid_ejecutando, 0 when the CPU is free
  paso     \* paso[p]: how many operations of its script p has asked for

vars == <<varsMP, varsM, varsIO, cpu, paso>>

-----------------------------------------------------------------------------
(* The thread of a CPU and its process *)

Pid(t) == cpu[t[2]]
Orden(p) == config.guion[p][paso[p]]       \* what p asked for last
Proxima(p) == config.guion[p][paso[p] + 1]

Prioridad(p) == prioridad_actual[p]
Original(p)  == config.prioridad[p]

\* remover_de_exec
QuitarDeExec(p) == lista_exec' = lista_exec \ {p}

\* The CPU of t returned its process with operation o, found in lista_exec.
Recibir(t, o) ==
  /\ t \in HilosCpu /\ hilo[t].en = "reposo"
  /\ Pid(t) # NADA /\ Pid(t) \in lista_exec
  /\ paso[Pid(t)] < Len(config.guion[Pid(t)]) /\ Proxima(Pid(t)).op = o
  /\ paso' = [paso EXCEPT ![Pid(t)] = @ + 1]
  /\ UNCHANGED cpu

-----------------------------------------------------------------------------
(* cambiar_prioridad: with Colas Multinivel a process in READY moves to the *)
(* end of the queue of its new level.                                       *)

CambiarPrioridad(p, n) ==
  /\ prioridad_actual' = [prioridad_actual EXCEPT ![p] = n]
  /\ IF n # Prioridad(p) /\ estado[p] = "READY" /\ config.cmn
     THEN LET donde == {q \in DOMAIN colas_ready : Contains(colas_ready[q], p)}
              sin == IF donde = {} THEN colas_ready
                     ELSE [colas_ready EXCEPT ![Min(donde)] = RemoveFirst(@, p)]
          IN colas_ready' = [sin EXCEPT ![ColaDeNivel(n)] = Append(@, p)]
     ELSE UNCHANGED colas_ready

-----------------------------------------------------------------------------
(* hilo_planificador_corto_plazo *)

CpusLibres == {i \in DOMAIN config.cpus : cpu[config.cpus[i]] = NADA}

\* Past both semaphores the first process of the first queue is taken out.
TomarReady ==
  /\ hilo[HiloCP].en = "reposo" /\ sem_ready > 0 /\ CpusLibres # {}
  /\ sem_ready' = sem_ready - 1
  /\ LET con == {q \in DOMAIN colas_ready : colas_ready[q] # <<>>} IN
       IF con = {} THEN UNCHANGED <<colas_ready, hilo>>
       ELSE /\ colas_ready' = [colas_ready EXCEPT ![Min(con)] = Tail(@)]
            /\ hilo' = [hilo EXCEPT ![HiloCP].en = "despacha",
                                    ![HiloCP].pid = Head(colas_ready[Min(con)])]
  /\ UNCHANGED <<pcbs, estado, bloqueo_id, lista_exec, cola_block, suspendidos, lista_espera,
                 memoria, evento, varsM, varsIO, cpu, paso>>

\* READY -> EXEC on the first free CPU.
PasarAExec ==
  /\ hilo[HiloCP].en = "despacha" /\ CpusLibres # {}
  /\ LET p == hilo[HiloCP].pid IN
       /\ estado' = [estado EXCEPT ![p] = "EXEC"]
       /\ lista_exec' = lista_exec \cup {p}
       /\ cpu' = [cpu EXCEPT ![config.cpus[Min(CpusLibres)]] = p]
  /\ Terminar(HiloCP)
  /\ UNCHANGED <<pcbs, bloqueo_id, ready, cola_block, suspendidos, lista_espera,
                 memoria, evento, varsM, varsIO, paso>>

-----------------------------------------------------------------------------
(* EXEC -> BLOCK and the end of a syscall *)

\* exec_a_block: the process leaves lista_exec ...
SalirDeExec(t) ==
  /\ hilo[t].en = "a_block"
  /\ QuitarDeExec(Pid(t))
  /\ estado' = [estado EXCEPT ![Pid(t)] = "BLOCK"]
  /\ bloqueo_id' = [bloqueo_id EXCEPT ![Pid(t)] = @ + 1]
  /\ Ir(t, "entra_block")
  /\ UNCHANGED <<pcbs, ready, cola_block, suspendidos, lista_espera, memoria, evento,
                 varsM, varsIO, cpu, paso>>

\* ... and enters cola_block, with a suspension timer unless it waits for
\* memory; the thread of an IO is created after it.
EntrarABlock(t) ==
  /\ hilo[t].en = "entra_block"
  /\ LET p == Pid(t)
         o == Orden(p).op
         timer == IF o # "MEM_ALLOC" THEN {HiloTimer(p, bloqueo_id[p])} ELSE {}
         io == IF o = "IO" THEN {HiloIO(p, bloqueo_id[p])} ELSE {}
     IN /\ cola_block' = cola_block \cup {p}
        /\ hilo' = [u \in Hilos |->
             IF u = t THEN [hilo[t] EXCEPT !.en = IF o = "MEM_ALLOC" THEN "anota" ELSE "libera_cpu"]
             ELSE IF u \in timer THEN [hilo[u] EXCEPT !.en = "duerme"]
             ELSE IF u \in io THEN [hilo[u] EXCEPT !.en = "espera_io"]
             ELSE hilo[u]]
  /\ UNCHANGED <<pcbs, estado, bloqueo_id, ready, lista_exec, suspendidos, lista_espera,
                 memoria, evento, varsM, varsIO, cpu, paso>>

\* bloquear_por_memoria
AnotarEspera(t) ==
  /\ hilo[t].en = "anota"
  /\ lista_espera' = Append(lista_espera, Pid(t))
  /\ Ir(t, "libera_cpu")
  /\ UNCHANGED <<pcbs, estado, bloqueo_id, ready, lista_exec, cola_block, suspendidos,
                 memoria, evento, varsM, varsIO, cpu, paso>>

LiberarCpu(t) ==
  /\ hilo[t].en = "libera_cpu"
  /\ cpu' = [cpu EXCEPT ![t[2]] = NADA]
  /\ Terminar(t)
  /\ UNCHANGED <<pcbs, estado, bloqueo_id, ready, lista_exec, cola_block, suspendidos,
                 lista_espera, memoria, evento, varsM, varsIO, paso>>

-----------------------------------------------------------------------------
(* Syscalls that do not use mutexes *)

PedirBloqueoIO(t) ==
  /\ Recibir(t, "IO")
  /\ Ir(t, "a_block")
  /\ UNCHANGED <<pcbs, estado, bloqueo_id, ready, lista_exec, cola_block, suspendidos,
                 lista_espera, memoria, evento, varsM, varsIO>>

\* An INTERRUPCION takes the process back to READY.
FinDeRafaga(t) ==
  /\ Recibir(t, "INTERRUPCION")
  /\ QuitarDeExec(Pid(t))
  /\ estado' = [estado EXCEPT ![Pid(t)] = "READY"]
  /\ LlamarEncolar(t, Pid(t), "libera_cpu")
  /\ UNCHANGED <<pcbs, bloqueo_id, ready, cola_block, suspendidos,
                 lista_espera, memoria, evento, varsM, varsIO>>

\* MEM_ALLOC: the process goes on in its CPU, or blocks.
PedirMemoria(t) ==
  /\ Recibir(t, "MEM_ALLOC")
  /\ IF HayLugar
     THEN memoria' = [memoria EXCEPT ![Pid(t)] = "ram"] /\ UNCHANGED hilo
     ELSE Ir(t, "a_block") /\ UNCHANGED memoria
  /\ UNCHANGED <<pcbs, estado, bloqueo_id, ready, lista_exec, cola_block, suspendidos,
                 lista_espera, evento, varsM, varsIO>>

\* MEM_FREE: the process goes on in its CPU while the thread runs the event.
DevolverMemoria(t) ==
  /\ Recibir(t, "MEM_FREE")
  /\ memoria' = [memoria EXCEPT ![Pid(t)] = "sin"]
  /\ LlamarEvento(t, "reposo")
  /\ UNCHANGED <<pcbs, estado, bloqueo_id, ready, lista_exec, cola_block, suspendidos,
                 lista_espera, evento, varsM, varsIO>>

-----------------------------------------------------------------------------
(* MUTEX_LOCK *)

\* The process takes the mutex and goes on in its CPU, or waits for the owner
\* that the table has at that moment.
PedirMutex(t) ==
  /\ Recibir(t, "MUTEX_LOCK")
  /\ LET m == Proxima(Pid(t)).arg IN
       \/ TomarMutex(m, Pid(t)) /\ UNCHANGED hilo
       \/ /\ EsperarMutex(m, Pid(t))
          /\ hilo' = [hilo EXCEPT ![t].en = "busca_exec", ![t].pid = dueno[m]]
  /\ UNCHANGED <<pcbs, estado, bloqueo_id, ready, lista_exec, cola_block, suspendidos,
                 lista_espera, memoria, evento, varsIO>>

EnReady(p) == \E q \in DOMAIN colas_ready : Contains(colas_ready[q], p)

\* buscar_pcb_por_pid: three lists, each under its own mutex.
Buscar(t, aca, estoy, sigo) ==
  /\ hilo[t].en = estoy
  /\ Ir(t, IF aca THEN "hereda" ELSE sigo)
  /\ UNCHANGED <<pcbs, estado, bloqueo_id, ready, lista_exec, cola_block, suspendidos,
                 lista_espera, memoria, evento, varsM, varsIO, cpu, paso>>

\* Mutant: the owner is only looked for in EXEC and BLOCK.
BuscarDuenoSinReady(t) ==
  \/ Buscar(t, hilo[t].pid \in lista_exec, "busca_exec", "busca_block")
  \/ Buscar(t, hilo[t].pid \in cola_block, "busca_block", "a_block")

BuscarDueno(t) ==
  \/ Buscar(t, hilo[t].pid \in lista_exec, "busca_exec", "busca_ready")
  \/ Buscar(t, EnReady(hilo[t].pid), "busca_ready", "busca_block")
  \/ Buscar(t, hilo[t].pid \in cola_block, "busca_block", "a_block")

\* The owner inherits the priority of who waits, if it is better than its own.
Heredar(t) ==
  /\ hilo[t].en = "hereda"
  /\ IF Prioridad(Pid(t)) < Prioridad(hilo[t].pid)
     THEN CambiarPrioridad(hilo[t].pid, Prioridad(Pid(t)))
     ELSE UNCHANGED <<prioridad_actual, colas_ready>>
  /\ Ir(t, "a_block")
  /\ UNCHANGED <<config, estado, bloqueo_id, sem_ready, lista_exec, cola_block, suspendidos,
                 lista_espera, memoria, evento, varsM, varsIO, cpu, paso>>

-----------------------------------------------------------------------------
(* unlock_mutex, by MUTEX_UNLOCK or by the end of a process *)

\* Mutant: the inherited priority is kept.
EmpezarUnlockSinPrioridad(t, m, e) ==
  /\ QuitarDeTomados(m, Pid(t)) /\ UNCHANGED <<prioridad_actual, colas_ready>>
  /\ hilo' = [hilo EXCEPT ![t].en = "cede", ![t].mtx = m, ![t].luego = e]

\* The mutex leaves the process's list and the process its inherited priority.
EmpezarUnlock(t, m, e) ==
  /\ QuitarDeTomados(m, Pid(t))
  /\ CambiarPrioridad(Pid(t), Original(Pid(t)))
  /\ hilo' = [hilo EXCEPT ![t].en = "cede", ![t].mtx = m, ![t].luego = e]

DevolverMutex(t) ==
  /\ Recibir(t, "MUTEX_UNLOCK")
  /\ EmpezarUnlock(t, Proxima(Pid(t)).arg, "reposo")
  /\ UNCHANGED <<config, estado, bloqueo_id, sem_ready, lista_exec, cola_block, suspendidos,
                 lista_espera, memoria, evento, varsIO>>

\* The table, under mutex_lista_mutex; the next owner has to be unblocked.
Ceder(t) ==
  /\ hilo[t].en = "cede"
  /\ LET m == hilo[t].mtx IN
       /\ CederMutex(m)
       /\ IF bloqueados[m] # <<>> THEN LlamarDesbloquear(t, Head(bloqueados[m]), "toma")
          ELSE Seguir(t, hilo[t].luego)
  /\ UNCHANGED <<pcbs, estado, bloqueo_id, ready, lista_exec, cola_block, suspendidos,
                 lista_espera, memoria, evento, varsIO, cpu, paso>>

\* Mutant: only one that was in BLOCK lists the mutex.
AnotarSoloDeBlock(t) ==
  /\ hilo[t].en = "toma"
  /\ IF hilo[t].fue = "ready" THEN AnotarTomado(hilo[t].mtx, hilo[t].pid) ELSE UNCHANGED varsM
  /\ IF hilo[t].fue = "susp" THEN LlamarEvento(t, hilo[t].luego) ELSE Seguir(t, hilo[t].luego)
  /\ UNCHANGED <<pcbs, estado, bloqueo_id, ready, lista_exec, cola_block, suspendidos,
                 lista_espera, memoria, evento, varsIO, cpu, paso>>

\* The new owner, if desbloquear found it.
AnotarDespertado(t) ==
  /\ hilo[t].en = "toma"
  /\ IF hilo[t].fue = "nada" THEN UNCHANGED varsM
     ELSE AnotarTomado(hilo[t].mtx, hilo[t].pid)
  /\ IF hilo[t].fue = "susp" THEN LlamarEvento(t, hilo[t].luego) ELSE Seguir(t, hilo[t].luego)
  /\ UNCHANGED <<pcbs, estado, bloqueo_id, ready, lista_exec, cola_block, suspendidos,
                 lista_espera, memoria, evento, varsIO, cpu, paso>>

-----------------------------------------------------------------------------
(* EXIT: finalizar_proceso *)

\* exec_a_exit
Finalizar(t) ==
  /\ Recibir(t, "EXIT")
  /\ QuitarDeExec(Pid(t))
  /\ estado' = [estado EXCEPT ![Pid(t)] = "EXIT"]
  /\ Ir(t, "libera_mutex")
  /\ UNCHANGED <<pcbs, bloqueo_id, ready, cola_block, suspendidos,
                 lista_espera, memoria, evento, varsM, varsIO>>

\* While it has a mutex, the first of its list is unlocked.
LiberarMutex(t) ==
  /\ hilo[t].en = "libera_mutex" /\ tomados[Pid(t)] # <<>>
  /\ EmpezarUnlock(t, Head(tomados[Pid(t)]), "libera_mutex")
  /\ UNCHANGED <<config, estado, bloqueo_id, sem_ready, lista_exec, cola_block, suspendidos,
                 lista_espera, memoria, evento, varsIO, cpu, paso>>

FinalizarKM(t) ==
  /\ hilo[t].en = "libera_mutex" /\ tomados[Pid(t)] = <<>>
  /\ memoria' = [memoria EXCEPT ![Pid(t)] = "sin"]
  /\ LlamarEvento(t, "libera_cpu")
  /\ UNCHANGED <<pcbs, estado, bloqueo_id, ready, lista_exec, cola_block, suspendidos,
                 lista_espera, evento, varsM, varsIO, cpu, paso>>

-----------------------------------------------------------------------------
(* hilo_ejecutar_io *)

TipoPedido(p) == config.tipos[Orden(p).arg]

EsperarDispositivo(t) ==
  /\ hilo[t].en = "espera_io" /\ EsperarIO(TipoPedido(t[2])) /\ Ir(t, "busca_io")

\* A thread past the semaphore that finds no device would use a NULL one.
TomarDispositivo(t) ==
  /\ hilo[t].en = "busca_io" /\ Elegibles(TipoPedido(t[2])) # {}
  /\ LET d == ElegidoIO(TipoPedido(t[2])) IN
       /\ TomarIO(d)
       /\ hilo' = [hilo EXCEPT ![t].en = "pide_io", ![t].disp = d]

PedirDispositivo(t) ==
  /\ hilo[t].en = "pide_io" /\ PedirIO(t[2], hilo[t].disp) /\ Ir(t, "espera_ok")

LeerOK(t) ==
  /\ hilo[t].en = "espera_ok" /\ LeerRespuesta(hilo[t].disp) /\ Ir(t, "libera_io")

\* The exchange failed: the device is taken for disconnected.
FallarIO(t) ==
  /\ hilo[t].en = "espera_ok" /\ ConexionCerrada(hilo[t].disp)
  /\ RemoverIO(hilo[t].disp) /\ LlamarDesbloquear(t, t[2], "fin_io")

LiberarDispositivo(t) ==
  /\ hilo[t].en = "libera_io" /\ LiberarIO(hilo[t].disp) /\ Ir(t, "postea_io")

\* With or without a device the process goes on.
PostearDispositivo(t) ==
  /\ hilo[t].en = "postea_io" /\ PostearIO(hilo[t].disp) /\ LlamarDesbloquear(t, t[2], "fin_io")

\* Mutant: nobody tries to bring it back.
TerminarIOSinEvento(t) ==
  /\ hilo[t].en = "fin_io" /\ Terminar(t) /\ UNCHANGED varsIO

\* One that had been suspended may come back if there is room.
TerminarIO(t) ==
  /\ hilo[t].en = "fin_io"
  /\ IF hilo[t].fue = "susp" THEN LlamarEvento(t, "reposo") ELSE Terminar(t)
  /\ UNCHANGED varsIO

PasoIO(t) ==
  /\ \/ EsperarDispositivo(t) \/ TomarDispositivo(t) \/ PedirDispositivo(t) \/ LeerOK(t)
     \/ FallarIO(t) \/ LiberarDispositivo(t) \/ PostearDispositivo(t) \/ TerminarIO(t)
  /\ UNCHANGED <<pcbs, estado, bloqueo_id, ready, lista_exec, cola_block, suspendidos,
                 lista_espera, memoria, evento, varsM, cpu, paso>>

-----------------------------------------------------------------------------
(* The system *)

PasoCpu(t) ==
  \/ PedirBloqueoIO(t) \/ FinDeRafaga(t) \/ PedirMemoria(t) \/ DevolverMemoria(t)
  \/ PedirMutex(t) \/ BuscarDueno(t) \/ Heredar(t)
  \/ DevolverMutex(t) \/ Ceder(t) \/ AnotarDespertado(t)
  \/ Finalizar(t) \/ LiberarMutex(t) \/ FinalizarKM(t)
  \/ SalirDeExec(t) \/ EntrarABlock(t) \/ AnotarEspera(t) \/ LiberarCpu(t)

PasoCP == TomarReady \/ PasarAExec

PasoComun(t) == PasoMedianoPlazo(t) /\ UNCHANGED <<varsM, varsIO, cpu, paso>>

Paso(t) ==
  \/ PasoComun(t)
  \/ t \in HilosIO /\ PasoIO(t)
  \/ t \in HilosCpu /\ PasoCpu(t)
  \/ t = HiloCP /\ PasoCP

Entorno(A) == A /\ UNCHANGED <<varsMP, varsM, cpu, paso>>

Creados == {p \in Pids : \E q \in DOMAIN config.colas : Contains(config.colas[q], p)}

Init ==
  /\ config \in Configuraciones
  /\ estado = [p \in Pids |-> IF p \in Creados THEN "READY" ELSE "EXIT"]
  /\ prioridad_actual = config.prioridad
  /\ bloqueo_id = [p \in Pids |-> 0]
  /\ colas_ready = config.colas /\ sem_ready = Cardinality(Creados)
  /\ lista_exec = {} /\ cola_block = {} /\ susp_block = {} /\ susp_ready = {}
  /\ antiguedad = <<>> /\ lista_espera = <<>>
  /\ memoria = config.carga
  /\ evento = SinEvento
  /\ hilo = [t \in Hilos |-> EnReposo]
  /\ cpu = [c \in Cpus |-> NADA]
  /\ paso = [p \in Pids |-> 0]
  /\ InitMutex(Pids)
  /\ InitIO(config.ios)

Next ==
  \/ \E t \in Hilos : Paso(t)
  \/ \E d \in Dispositivos :
       \/ d \in config.conectan /\ Entorno(RegistrarIO(d))
       \/ d \in config.caen /\ Entorno(CaerIO(d))
       \/ Entorno(PostearConexion(d)) \/ Entorno(Atender(d))

Spec == Init /\ [][Next]_vars

\* Some thread of the scheduler runs while one can, and so do the IO programs;
\* nobody has to connect or die.  It is less than fairness for each thread, and
\* enough: no thread repeats a step for ever.
Fairness ==
  /\ WF_vars(\E t \in Hilos : Paso(t))
  /\ WF_vars(\E d \in Dispositivos : Entorno(PostearConexion(d)) \/ Entorno(Atender(d)))

FairSpec == Spec /\ Fairness

-----------------------------------------------------------------------------
(* Properties *)

Estados == {"READY", "EXEC", "BLOCK", "SUSP_BLOCK", "SUSP_READY", "EXIT"}

Puntos == {"reposo", "encola", "desbloquea", "desbloquea_susp", "duerme", "suspende",
           "evento", "candidatos", "vuelve", "esperas", "despacha",
           "a_block", "entra_block", "anota", "libera_cpu",
           "busca_exec", "busca_ready", "busca_block", "hereda",
           "cede", "toma", "libera_mutex",
           "espera_io", "busca_io", "pide_io", "espera_ok", "libera_io", "postea_io", "fin_io"}

\* The types; the tokens of the semaphores are never less than none.
TypeOK ==
  /\ config \in Configuraciones
  /\ estado \in [Pids -> Estados] /\ prioridad_actual \in [Pids -> Int]
  /\ bloqueo_id \in [Pids -> Nat]
  /\ colas_ready \in [0 .. CantColas - 1 -> Seq(Pids)] /\ sem_ready \in Nat
  /\ lista_exec \subseteq Pids /\ cola_block \subseteq Pids
  /\ susp_block \subseteq Pids /\ susp_ready \subseteq Pids
  /\ antiguedad \in Seq(Pids) /\ lista_espera \in Seq(Pids)
  /\ memoria \in [Pids -> {"sin", "ram", "swap"}]
  /\ evento \in [dueno : Hilos \cup {SinHilo},
                  candidatos : SUBSET [pid : Pids, prioridad : Int, turno : Nat],
                  esperas : Seq(Pids)]
  /\ hilo \in [Hilos -> [en : Puntos, pid : Pids \cup {NADA}, disp : Dispositivos \cup {NADA},
                         mtx : Mutexes \cup {NADA}, fue : {"nada", "ready", "susp"},
                         tras : Puntos, luego : Puntos]]
  /\ cpu \in [Cpus -> Pids \cup {NADA}] /\ paso \in [Pids -> Nat]
  /\ TypeOKMutex(Pids) /\ TypeOKIO(Pids)

\* Where a process in READY may be: a position of a queue, or a thread's hands.
LugaresReady(p) ==
  (UNION {{<<"cola", q, i>> : i \in {j \in DOMAIN colas_ready[q] : colas_ready[q][j] = p}} :
            q \in DOMAIN colas_ready})
  \cup {<<"mano", t>> : t \in {u \in Hilos : hilo[u].en \in {"encola", "despacha"} /\ hilo[u].pid = p}}

\* The CPUs whose thread has p between lista_exec and cola_block.
EntrandoABlock(p) == {c \in Cpus : hilo[HiloCpu(c)].en = "entra_block" /\ cpu[c] = p}

\* Through blocks, timers that race the end of an IO or an unlock, suspensions
\* and returns, a process is in one place, once, and its estado says which.
UnLugar ==
  \A p \in Pids :
    /\ Cardinality(LugaresReady(p)) = IF estado[p] = "READY" THEN 1 ELSE 0
    /\ p \in lista_exec <=> estado[p] = "EXEC"
    /\ p \in cola_block \/ EntrandoABlock(p) # {} <=> estado[p] = "BLOCK"
    /\ p \in susp_block <=> estado[p] = "SUSP_BLOCK"
    /\ p \in susp_ready <=> estado[p] = "SUSP_READY"

\* A process that is READY, in EXEC or in BLOCK has its memory in RAM: nobody
\* runs, or blocks again, with segments in SWAP.
MemoriaPresente ==
  \A p \in Pids : estado[p] \in {"READY", "EXEC", "BLOCK"} => memoria[p] # "swap"

-----------------------------------------------------------------------------
(* Properties of the device pool *)

UsaDispositivo == {"pide_io", "espera_ok", "libera_io"}
Usuarios(d) == {t \in HilosIO : hilo[t].en \in UsaDispositivo /\ hilo[t].disp = d}

\* No two IOs use a device at once, and a device in use is not free.
UsoExclusivo ==
  \A d \in Dispositivos :
    /\ \A t, u \in Usuarios(d) : t = u
    /\ Usuarios(d) # {} => ~libre[d]

\* The answer that a thread is about to read is that of its own process, also
\* with devices that die while they are asked.
RespuestaPropia ==
  \A d \in Dispositivos : \A t \in Usuarios(d) :
    linea[d].msj = "respuesta" => hilo[t].en = "espera_ok" /\ linea[d].pid = t[2]

\* The semaphore of a type plus the tokens in threads' hands count its free
\* devices: a thread past the semaphore finds one.
FichaConDispositivo ==
  \A k \in TiposIO :
    Cardinality(Elegibles(k))
      = sem_io[k]
        + Cardinality({t \in HilosIO : hilo[t].en = "busca_io" /\ TipoPedido(t[2]) = k})
        + Cardinality({t \in HilosIO : hilo[t].en = "postea_io" /\ TipoPedido(t[2]) = k})
        + Cardinality({d \in Dispositivos : programa[d] = "conecta" /\ TipoDe[d] = k})

-----------------------------------------------------------------------------
(* Properties of the mutexes *)

\* Threads that are waking p as the new owner of m.
Despertadores(p, m) ==
  {t \in HilosCpu : /\ hilo[t].mtx = m /\ hilo[t].pid = p
                    /\ hilo[t].en \in {"desbloquea", "desbloquea_susp", "encola", "toma"}}

\* p is unlocking m and the table still says it is its own.
Cediendo(p, m) == \E t \in HilosCpu : Pid(t) = p /\ hilo[t].en = "cede" /\ hilo[t].mtx = m

\* The position of the last operation of p, done or in progress, on mutex m.
UltimaSobre(p, m) ==
  Max({0} \cup {i \in 1 .. paso[p] : /\ config.guion[p][i].op \in {"MUTEX_LOCK", "MUTEX_UNLOCK"}
                                     /\ config.guion[p][i].arg = m})

PidioMutex(p, m) == LET i == UltimaSobre(p, m) IN i # 0 /\ config.guion[p][i].op = "MUTEX_LOCK"

\* The thread of its CPU has not finished with what p asked for.
EnSyscall(p) == \E c \in Cpus : cpu[c] = p /\ hilo[HiloCpu(c)].en # "reposo"

\* p is past a MUTEX_LOCK of m: it went on from it, or is on its way to.
Dentro(p, m) ==
  /\ PidioMutex(p, m)
  /\ \/ paso[p] > UltimaSobre(p, m) /\ estado[p] # "EXIT"
     \/ estado[p] \in {"READY", "SUSP_READY"}
     \/ estado[p] = "EXEC" /\ ~EnSyscall(p)

\* Between a MUTEX_LOCK and its MUTEX_UNLOCK a process is alone.
ExclusionMutua ==
  \A m \in Mutexes : \A p, q \in Pids : Dentro(p, m) /\ Dentro(q, m) => p = q

\* The table and the processes' own lists say the same, but for a thread that
\* is between one and the other: no mutex is left taken by a process that will
\* not release it.
TomadosEspejan ==
  \A m \in Mutexes, p \in Pids :
    /\ Contains(tomados[p], m) => dueno[m] = p
    /\ dueno[m] = p => \/ Contains(tomados[p], m)
                       \/ Cediendo(p, m)
                       \/ Despertadores(p, m) # {}

\* finalizar_proceso (conexiones.c 142-143): "Un proceso que finaliza no puede
\* dejar mutex tomados para siempre: se liberan en orden y se despierta al
\* siguiente de cada cola".  A process that was given a mutex does not stay
\* blocked for it, unless a thread is on its way to wake it.
DespiertaAlSiguiente ==
  \A m \in Mutexes, p \in Pids :
    dueno[m] = p /\ paso[p] > 0 /\ Orden(p) = [op |-> "MUTEX_LOCK", arg |-> m]
      /\ estado[p] \in {"BLOCK", "SUSP_BLOCK"} => Despertadores(p, m) # {}

\* The inheritance is undone: without mutexes a process has its own priority.
PrioridadRestaurada ==
  \A p \in Pids :
    (\A m \in Mutexes : dueno[m] # p) => prioridad_actual[p] = config.prioridad[p]

\* While a process waits for a mutex its owner is at least as important, but
\* for the thread of the one that waits, which may still be looking for it, and
\* that of the owner, which may be releasing it.  It is claimed of scenarios in which
\* priorities differ only between owners that are not suspended, have one mutex at
\* a time, and those that wait for it, who are as important as each other: the
\* code does not look for an owner in the lists of the suspended, gives a new
\* owner nothing from those that still wait, and takes the inheritance away with
\* the first mutex released.
HerenciaEfectiva ==
  \A m \in Mutexes : \A i \in DOMAIN bloqueados[m] :
    LET p == bloqueados[m][i] IN
      /\ dueno[m] # NADA
      /\ \/ prioridad_actual[dueno[m]] <= prioridad_actual[p]
         \/ EnSyscall(p) \/ Cediendo(dueno[m], m)

-----------------------------------------------------------------------------
(* Liveness *)

\* The request of a type always has, or will have, who answers it.
HayDispositivos == \A k \in TiposIO : \E d \in Dispositivos : TipoDe[d] = k /\ programa[d] = "atiende"

\* planificador.c 1276: "Quedo elegible para des-suspenderse si ya hay lugar en
\* memoria".  A process in SUSP_READY does not stay there for ever while there is
\* room for it.
RegresoGarantizado ==
  \A p \in Pids : ~<>[](estado[p] = "SUSP_READY" /\ HayLugar)

\* Every process ends.
TodosTerminan == ([]<>HayDispositivos) => <>(\A p \in Pids : estado[p] = "EXIT")

=============================================================================
