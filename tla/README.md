# Plug & Pray: a TLA+ verification project

Plug & Pray is a distributed operating-system simulator: six programs that talk
over TCP. This directory holds TLA+ modules that model it from its source, TLC
configurations that check them on small instances, and theorems checked by
TLAPS. Names of states, fields and functions are the source's. PL stands for
`kernel_scheduler/src/planificador/planificador.c`, CX for
`kernel_scheduler/src/conexiones/conexiones.c`, GM for
`kernel_memory/src/gestor_memoria/gestor_memoria.c`, CCX for
`cpu/src/conexiones/conexiones.c`.

    tlc -workers 2 -config MCPlanificador_dos_cpus.cfg MCPlanificador
    tlc -workers 2 -config MCGestorMemoria_best.cfg MCGestorMemoria
    tlc -workers 2 -config MCBloqueos_bloqueos.cfg MCBloqueos
    tlc -workers 2 -config MCMmu_mmu.cfg MCMmu
    tlapm Planificador_proofs.tla
    tlapm Compactacion_proofs.tla
    tlapm Procesos_proofs.tla
    tlapm Contexto_proofs.tla
    tlapm GestorMemoria_proofs.tla
    tlapm Bloqueos_proofs.tla
    tlapm Mmu_proofs.tla

## 1. Inventory

### The programs

| Program | Threads | State it keeps | Talks to |
|---|---|---|---|
| kernel_scheduler (KS) | largo plazo, corto plazo, notifications of KM, one per CPU, one per IO in progress, one per quantum timer, one per suspension timer | PCBs; NEW, READY (one per priority), EXEC, BLOCK, SUSP. lists; CPUs, IO devices, mutexes, pending MEM_ALLOCs | KM (client, one request at a time), CPUs and IOs (server) |
| kernel_memory (KM) | one per client | segments, sticks, swap blocks, process contexts and tables | sticks and SWAP (server, then client of their data channel), KS (answers and notifications), CPUs |
| cpu | one | registers, segment table, topology of the sticks | KS, KM, sticks |
| memory_stick | one per client | a byte array | KM, CPUs |
| swap | one | a block file | KM |
| io | one | nothing between requests | KS |

### Components, operations, and what makes them correct

| Component (code) | Operations | Hard behaviour | Correct when |
|---|---|---|---|
| Life cycle and READY queues (PL 9-107, 249-500, 574-638) | encolar_new, new_a_ready, exec_a_ready/exit/block, block_a_ready, desencolar | a transition is two or three critical sections under different mutexes | a process is in one place and its estado says which; the semaphores count what the lists hold |
| Dispatch (PL 332-428) | despachar by the corto plazo or by a CPU's thread | two dispatchers, context written before the PID is sent | one CPU per process and one process per CPU; the CPU starts from the last context |
| Preemption and quantum (PL 30-73, 291-330) | chequear_desalojo, hilo_timer_quantum | check, then act under another mutex; timers that outlive their burst; messages that cross | an INTERRUPCION stops the burst it was meant for; the most important process runs |
| Per-CPU handlers (CX 128-444) | one per syscall, INTERRUPCION | state captured, unlocked, used | the handler finds the process; the reason of an interruption is known |
| Compaction protocol (PL 951-1034, KM's CREAR_SEGMENTO) | pausar, interrumpir, DESALOJO_OK, reanudar | stop-the-world across programs, by a thread that is itself a handler | no CPU executes while memory moves; the compaction ends |
| Waiting for memory (PL 682-700, 733-806) | bloquear_por_memoria, evento_memoria_liberada | refusal and listing are separate; a snapshot is retried | a waiter is woken when its memory is free |
| Mediano plazo (PL 505-572, 640-676, 709-779) | hilo_timer_suspension, desbloquear, dessuspender | timer against end of IO; KM's answer between two lists | a suspended process comes back once, with its memory |
| Mutexes (PL 1301-1474) | crear, lock, unlock, cambiar_prioridad | queue before block; list membership while a process is in a thread's hands | mutual exclusion, no lost wakeup, inherited priority is undone |
| IO pool (PL 1120-1295) | registrar, remover, tomar, liberar | semaphore and list apart; disconnection while in use | a taken device exists and is used by one process |
| CPU disconnection, BSOD (PL 832-854, 1072-1114) | remover_cpu, bsod | locks taken twice; processes between lists | the process of a lost CPU is recovered; the BSOD ends every process |
| CPU cycle (cpu.c 50-147) | burst, FETCH/DECODE/EXECUTE, check_interrupt | interrupt read after each instruction, dropped when idle | no instruction is skipped or repeated |
| MMU and physical access (instrucciones.c 23-54, cpu/conexiones.c 190-311) | mmu_traducir, operar_fisico | 32-bit wrap; an access that spans sticks | an access is inside its segment, each byte in its stick |
| KM memory (GM 93-596) | registrar_stick, crear, eliminar, finalizar, compactar | KS and CPU threads at once; copying through sticks | segments do not overlap, tables mirror the list, contents survive a compaction |
| KM swap (GM 602-845) | suspender, dessuspender | partial failure, block reuse | a block has one owner; all segments come back or none |
| sticks, swap, io, utils | byte store, block store, wait and answer | - | what is written is read |
| configuration, loggers, scripts | - | - | not modelled |

There are no unit tests; the repository's `.prc` scripts and its documents are
the only statement of what is intended. The hazards of `PROJECT.json` are the
places where interleaving, loss, partial failure or limits can break the right
column, each at its line, with the properties that cover it or the reason why
none does.

## 2. Plan

Each step is a module, its MC instance, its proofs where they are worth it.

1. **Planificador** (done): threads, queues, CPUs, messages; abstract
   specification `CicloDeVida`. Every safety invariant and the refinement are
   proved.
2. **Compaction protocol** (done, inside Planificador, which is where its
   threads are): `CompactacionSegura`.
3. **GestorMemoria** (done): segments, BEST/WORST fit, compaction, finalizar,
   swap blocks, sticks; abstract specification `MemoriaDeProcesos`. The
   refinement and every invariant are proved, but `HuecoDelBucle`, which compares two
   algorithms.
4. **Blocks and returns** (done): `MutexKernel`, `DispositivosIO` and
   `MedianoPlazo`, each the steps of one component, and `Bloqueos`, the threads
   that run them. Proved: types, devices and their semaphores, the place and the
   memory of each process, and the mutexes under the conditions in which they are
   right (section 5); `HerenciaEfectiva` is left to TLC.
5. **Mmu** (done): translation with sums that wrap, accesses split over sticks,
   the CPU's copies of table and topology. Its six properties are proved.
6. remover_cpu and bsod: left out, for the reasons in section 7.

## 3. Modules

| Module | Models | 
|---|---|
| `Planificador` | PL and CX without mutexes, devices and suspension; the CPU's cycle; KM's answers |
| `CicloDeVida` | abstract: the five-state life cycle, the limit on EXEC, progress only in EXEC |
| `MCPlanificador` | scripts and constants for TLC |
| `Planificador_proofs` | `TipoCorrecto` |
| `Compactacion_proofs` | `CompactacionSegura` |
| `Procesos_proofs` | `SiempreEnUnLugar`, `ElManejadorEncuentra`, `SemaforosCuentan` |
| `Contexto_proofs` | `UnaRafagaPorProceso`, `ContextoSinPerdidas`, `InterrumpeSuRafaga`, `ElMotivoSeConoce`, `RefinaCiclo` |
| `GestorMemoria` | GM, the requests of `atender_scheduler` it serves, and what a CPU does with the table it was given |
| `MemoriaDeProcesos` | abstract: each process has segments of its own, whose bytes change only when it writes them |
| `MCGestorMemoria` | constants for TLC, and `buscar_hueco` as the loop it is in the code |
| `GestorMemoria_proofs` | `TiposMemoria`, `MemoriaSinSolape`, `PedidoEnMovimiento`, `SwapConDueno`, `MudanzaEntera`, `SiempreAlcanza`, `TablasAlDia`, `CumplePromesa` |
| `MutexKernel` | the table of mutexes and each process's list of those it has |
| `DispositivosIO` | the device pool, its semaphores, the sockets and programs of the devices |
| `MedianoPlazo` | suspension timers, desbloquear, the memory event |
| `Bloqueos` | the threads that run the three: handlers of CPUs, corto plazo, IOs, timers |
| `MCBloqueos` | scenarios for TLC |
| `Bloqueos_proofs` | `TipoCorrecto`, `DispositivosExclusivos`, `CadaUnoLaSuya`, `CadaUnoEnSuLugar`, `NadieCorreEnSwap`, `FichasExactas`, `MutexExcluyen`, `TablaComoListas`, `HerederoDespierta`, `HerenciaDeshecha` |
| `Mmu` | mmu_traducir, operar_fisico, the CPU's table and topology, the sticks |
| `MCMmu` | constants for TLC |
| `Mmu_proofs` | `TiposMmu`, `SoloPermitidos`, `SegFaultJusto`, `LeeLoSuyo`, `EscribeLoLeido`, `NadieEscribeEnLoAjeno` |
| `Minimos` | lemmas about `Min`, `Max`, sequences without repetitions, and divisions of a set among places (`Reparto`), which the proofs share |

### State and actions of Planificador

A step is one critical section of a thread: what the code does under one mutex,
or one exchange with KM under `mutex_socket_memoria`. `pc[t]` says where thread
`t` is between two sections and `loc[t]` holds its local variables.

| Thread | In the code | Actions |
|---|---|---|
| LP | hilo_planificador_largo_plazo | `AdmitirNew`, then `EncolarEnReady` |
| CP | hilo_planificador_corto_plazo | `EsperarReady`, `EsperarCpu`, `Desencolar`, `PasarAExec`, `ActualizarContexto`, `Enviar` |
| H(c) | manejar_cliente, atender_peticiones_cpu | `RegistrarCpu`, `PostearCpu`, `Recibir`, one or more actions per syscall, `LiberarCpu` |
| NT | hilo_notificaciones_km | `NuevoStick`, then `EventoMemoria` |
| IO(p, k) | hilo_ejecutar_io, the k-th of process p at work | `TerminarIO`, then `EncolarEnReady` |
| timer | hilo_timer_quantum | `VencerQuantum` (a set of timers; each fires once) |
| any | encolar_en_ready | `Encolar`, `PostearReady`, `BuscarVictima`, `Desalojar` |
| H(c), NT | crear_segmento_km | `CrearOK`, `CrearError`, `CrearCompacta`, `PausarPlanificacion`, `InterrumpirParaCompactar`, `Compactar`, `ReanudarPlanificacion` |
| H(c), NT | evento_memoria_liberada | `TomarEvento`, `Satisfacer`, `SoltarEvento` |
| CPU program | cpu.c | `CpuRecibe`, `EjecutarComun`, `EjecutarSyscall`, `FallarFetch` |

Sections that no other thread can tell apart are one step: the two sections of
`desbloquear` that concern a BLOCK process, or the receipt of a message and the
lookup of its process. Sockets are FIFO channels (`red_cpu`, `red_ks`): TCP
neither loses nor reorders. A syscall carries its instruction and the PC.

KM decides by its hole list whether an allocation fits. Here the answer is a
choice among the ones it can give: OK when the free memory is enough,
COMPACTACION when it is enough and the segments could leave no hole that large
(`CabeFragmentada`: k segments leave at most k + 1 holes), ERROR when it is not
enough or the size is invalid. After a compaction there is one hole and the
segment is created.

### State and actions of GestorMemoria

One thread of KM serves every request of the scheduler, in order; what runs
beside it are the CPUs, which go to the sticks directly, and the threads that
register sticks. So a request that works at once is one action, and one that
goes segment by segment is one action per segment, with `pedido` (step, process,
segments left, next free address, segments reserved) in between.

| Request | In the code | Actions |
|---|---|---|
| ENVIAR_PID, FINALIZAR_PROCESO | gestor_agregar_proceso, finalizar_proceso | `AgregarProceso`, `FinalizarProceso` |
| CREAR_SEGMENTO | crear_segmento, compactar, crear_segmento | `CrearSegmento`; or `PedirCompactacion`, `RecibirDesalojo`, `MoverSegmento` (each), `FinDeCompactacion`, `ReintentarCrear` |
| ELIMINAR_SEGMENTO | eliminar_segmento | `EliminarSegmento` |
| SUSPENDER_PROCESO | suspender_proceso | `SuspenderProceso`, `SuspenderSegmento` (each) |
| DESSUSPENDER_PROCESO | dessuspender_proceso | `DessuspenderProceso`, `ReservarSegmento` (each), `RestaurarSegmento` (each) |
| ESCRIBIR_MEMORIA | io_rw, traducir, operar_fisico, swap_io_rw | `EscribirIO` |
| ESCRIBIR_MEMORIA or LEER_MEMORIA, of a size that wraps, in SWAP | swap_io_rw past the last block: the program ends | `CaerEnSwap`, then `SeguirCaido` |
| CONTEXTO, of a CPU | atender_cpu | `PedirContexto`, `Devolver` |
| write of a CPU | mmu_traducir | `EscribirCpu` |
| a stick that connects | registrar_stick | `RegistrarStick` |

`segmentos` is the list of the code as a set: its order matters only between
segments of one process with one number, and `nro` keeps that order. `tabla[p]`
is the table in the context of p, `cache[p]` the copy its CPU took when the burst
began. `ram` is the address space of the sticks, one after the other, and `disco`
the blocks of SWAP. A hole is defined by where it starts; `BuscarHueco` is the
hole that no other beats, and `HuecoDelBucle` compares it with the loop. A
segment is copied in one step, which is what the buffer of `mover_segmento` and
`gm->mutex` make of it.

The size of an IO is any of `TamsIO`, below `Modulo` (2^32 in the code): the MMU of
the CPU (instrucciones.c:47), `gestor_memoria_traducir` (GM 477) and `swap_io_rw` (GM
857) compare a sum of two uint32_t with the size of the segment, and nothing else
looks at it on its way from the program to the sticks. `Entra` is that check, with the
sum modulo `Modulo`. A write in memory that passes goes on to its last byte or to the
end of memory (`EscribirFisico`); one in SWAP goes on past the last block of the
segment, where `list_get` gives NULL and Kernel Memory ends. Its state then says
`caido`: no request, stick nor context is attended, and the CPUs end their bursts.
The stores of a CPU (`EscribirCpu`) keep the mathematical sum: the same check is
made there, but what they write is a register or what they have just read, and in
Mmu, where those sums wrap too, an access whose sum wraps writes nothing of others
(`EscribeEnLoSuyo`, proved as `NadieEscribeEnLoAjeno` where memory and the largest
segment fit in 2^32 together).

What the scheduler guarantees is a guard, and Planificador is where it is shown:
a process that asks for memory or is suspended is on no CPU (`EnKernel`, from
`UnSoloLugar` and the handlers), and no CPU executes from DESALOJO_OK to the
answer (`CompactacionSegura`).

### State and actions of Bloqueos and its parts

`MedianoPlazo`, `MutexKernel` and `DispositivosIO` each declare their state and
the steps of their functions; `Bloqueos` extends the three and says which thread
takes which step. `hilo[t]` is a record: the point the thread is at (`en`), its
locals, and where it goes on after desbloquear or encolar (`tras`) and after the
memory event (`luego`). Block k of process p has a timer `HiloTimer(p, k)` and,
if it is an IO, a thread `HiloIO(p, k)`.

| Thread | In the code | Actions |
|---|---|---|
| H(c) | lock_mutex, buscar_pcb_por_pid, cambiar_prioridad | `PedirMutex`, `BuscarDueno` (a list at a time), `Heredar` |
| H(c) | unlock_mutex | `DevolverMutex`, `Ceder`, desbloquear, `AnotarDespertado` |
| H(c) | finalizar_proceso | `Finalizar`, `LiberarMutex` (each), `FinalizarKM`, then the memory event |
| H(c) | exec_a_block, bloquear_por_memoria | `SalirDeExec`, `EntrarABlock`, `AnotarEspera`, `LiberarCpu` |
| H(c) | the other syscalls, INTERRUPCION | `PedirBloqueoIO`, `PedirMemoria`, `DevolverMemoria`, `FinDeRafaga` |
| CP | hilo_planificador_corto_plazo | `TomarReady`, `PasarAExec` |
| IO(p, k) | hilo_ejecutar_io | `EsperarDispositivo`, `TomarDispositivo`, `PedirDispositivo`, `LeerOK` or `FallarIO`, `LiberarDispositivo`, `PostearDispositivo`, desbloquear, `TerminarIO` |
| T(p, k) | hilo_timer_suspension | `VencerTimer`, `Suspender`, then the memory event |
| any | desbloquear | `DesbloquearBlock`, `DesbloquearSusp`, `Encolar` |
| any | evento_memoria_liberada | `TomarEvento`, `Dessuspender` and `Volver` (each candidate), `FinDeCandidatos`, `ReintentarEspera` (each), `SoltarEvento` |
| device | io/src/main.c, manejar_cliente | `RegistrarIO`, `PostearConexion`, `Atender`, `CaerIO` |

A CPU is what it gives back: the next operation of its process's script. An
INTERRUPCION is an operation too; which ones the scheduler asks for, and when, is
Planificador. Waiting for a free CPU and taking it are one step, and so are an
insertion in READY and its semaphore: Planificador has them apart
(`SemaforosExactos`). `lista_exec`, `cola_block` and the lists of the suspended
are sets, since they are looked up by PID only; `antiguedad` keeps the order of
`ts_suspension`. `estado` is written with the list it goes with. Kernel Memory is
where the memory of each process is, and how many processes fit; how it does it
is GestorMemoria. MUTEX_CREATE is the initial state, where all mutexes exist. The
transfer of an STDIN or STDOUT to memory is not in the request of a device. The
scenarios suspend and swap whole processes, so the scripts never reach
`MaxBloqueos`.

A scenario (`config`) fixes the scripts, the CPUs, the devices, what may die or
connect, the memory, Colas Multinivel or not, and whether SUSPENSION_TIMEOUT is
shorter than a block (`vence`). If it is, each timer may fire at any moment.

### State and actions of Mmu

| In the code | Actions |
|---|---|
| actualizar_topologia_sticks, MENSAJE_ENVIAR_PID | `Despachar` |
| solicitar_contexto | `SolicitarContexto` |
| cpu_execute of MOV_IN, MOV_OUT, COPY_MEM, IO_STDIN, IO_STDOUT | `Ejecutar`, with `MmuTraducir` |
| a turn of operar_fisico, atender_cliente of a stick | `OperarFisico` |
| operar_fisico without a stick for the address | `Reintentar` |
| its end | `Completar` |
| end of a burst, SEG_FAULT | `DejarCpu`, `SegFault` |
| Kernel Memory, as a CPU sees it | `ConectarStick`, `CrearSegmento`, `EliminarSegmento`, `MoverSegmento` |

Addresses have `Ancho` bits and sums are modulo 2^Ancho; sticks are one after the
other in `bytes` (`Base` counts the bytes of those before one, which is the sum of
their sizes in a form that can be reasoned about without induction). That the sticks together hold fewer than 2^Ancho bytes is
assumed (`MmuOK`): UINT32_MAX is what `mmu_traducir` returns for a fault. The sum
in line 47 of instrucciones.c wraps for a size near 2^32 and lets the access
pass; `CompletaSoloPermitidos` holds all the same because `operar_fisico` runs
out of memory first. For that the memory and the largest segment must fit in the
addresses together (section 5): the code does not check it, and any configuration
of less than 4 GiB has it. The requests that change memory are guarded as
Planificador shows they are: no segment moves while a CPU executes
(`CompactaSinCpus`), and a process's own requests come after its burst.

## 4. Runs

| Run | Result | Instance | Shows |
|---|---|---|---|
| dos_cpus | pass, 505 047 states | 3 processes, priorities 0, 1, 0; 2 CPUs; FIFO and RR queue; preemption | seven invariants and `ImplementaCiclo` |
| memoria | pass, 913 804 | 2 processes, 2 CPUs, 2 units of memory and a stick that connects | `CompactaSinCpus`, `MotivoConocido` |
| un_cpu | pass, 23 670, with fairness | 2 processes, one CPU, SLEEP, a rejected INIT_PROC, memory for one, a compaction | `EsperaAtendida`, `TodosTerminan`, `CompactacionTermina` |
| segmentos | pass, 109 944 | 2 processes with 2 segments of up to 3 bytes, sticks of 2 and 3 bytes, 3 blocks of 2 bytes, 3-bit sizes of IO, some that wrap | the eight invariants of GestorMemoria |
| contenido | pass, 240 432 | a stick of 4 bytes, segments of up to 2, 2 blocks of 1 byte, bytes 0 and 1; 2 segments and 1; no size of IO that wraps | `ImplementaPromesa` |
| bloqueos | pass, 152 722, with fairness | four scenarios of 2 or 3 processes, 1 or 2 CPUs, one mutex, 2 devices | eleven invariants of Bloqueos and `TodosTerminan` |
| mmu | pass, about a million | 2 CPUs, 2 processes, 3-bit addresses, two sticks of 2 bytes, segments of up to 3 | the six properties of Mmu |
| compacta_bloqueada | violation | a compaction with a process waiting for memory | it waits for its own thread |
| espera_perdida | violation | 2 CPUs; one process frees while the other is refused | the wakeup is lost |
| desalojo_perdido | violation | 1 CPU, preemption | the preemption is lost |
| mutex_perdido | violation | 2 CPUs, 2 processes, one mutex | the new owner is not woken |
| regreso_perdido | violation | a process without segments | it is never brought back |

**The properties.** Of Planificador. `UnSoloLugar`: every process is in one list,
or in one thread's hands, and its estado agrees. `UnaSolaRafaga`: no two CPUs have
the same process. `ContextoFiel`: the PC of a running process is the number of its
instructions completed, over all its bursts. `InterrupcionDeSuRafaga`: an
INTERRUPCION that finds a CPU executing was sent for that burst.
`MotivoConocido` and `ManejadorEncuentraSuProceso`: the handler's default and
NULL branches are never taken. `SemaforosExactos`: past both semaphores there is
a process and a free CPU. `CompactaSinCpus`: stop the world stops it.
`ImplementaCiclo`: refinement to `CicloDeVida`, with `estado` and the completed
instructions as its state. `EsperaAtendida`, `CompactacionTermina`,
`TodosTerminan`: liveness.

Of the memory. `SinSolape`: no two segments share a byte, in every intermediate
state. `EnMovimiento`: in a compaction what has moved is below what has not.
`TablaEspeja`: list and tables agree. `BloquesConDueno`: no block of SWAP is lost
or shared. `TodoONada`: a suspension or a return moves all the segments or none.
`CompactacionAlcanza`: the creation after a compaction finds its hole, which is
what Planificador takes for granted. `ImplementaPromesa`: refinement to
`MemoriaDeProcesos`, where bytes change only by their process's own writes; it holds
as long as no IO has a size that wraps (`SinVueltas`; the end of this section).

Of Bloqueos. `UnLugar`: a process is in one list or in one thread's hands, once,
and its estado says which, through timers that race the end of an IO or an unlock.
`MemoriaPresente`: nobody runs with its segments in SWAP. `UsoExclusivo` and
`RespuestaPropia`: a device is used by one IO, which reads its own answer, also
when devices die while they are asked. `FichaConDispositivo`: the semaphore of a
type and the tokens in hand are its free devices, so `planificador_tomar_io_libre`
never returns NULL. `ExclusionMutua`: between a LOCK and its UNLOCK a process is
alone. `TomadosEspejan`: the table of mutexes and the processes' lists agree but
for a thread between one and the other. `DespiertaAlSiguiente`: who was given a
mutex is on its way to READY. `PrioridadRestaurada` and `HerenciaEfectiva`: the
inheritance is made, and undone. `TodosTerminan`: no wakeup is lost, through
suspensions, returns and losses of devices, as long as there is a device.

`HerenciaEfectiva` has limits that the code has: the owner is looked for in EXEC,
READY and BLOCK only, so one that is suspended inherits nothing; a new owner
inherits nothing from those that still wait; the first mutex released takes back
what was inherited through another. The scenarios keep to the other side of those
limits: where an owner is suspended (`Guardado`), all have one priority.

Of Mmu. `CompletaSoloPermitidos`: what completes was inside a segment of the
process. `FallaJusta`: what was inside faults only if a stick refused the
connection. `LecturaFiel`, `EscrituraFiel`: each byte read or written is that of
the segment, over both sticks and with overlap. `EscribeEnLoSuyo`: no access
touches another process, not even one that faults half way.

**Bounds.** `MaxProcesos` bounds the pids that INIT_PROC gives, the scripts bound
everything else: a script ends, so bursts, messages and timers do. Two CPUs are
enough for the interleavings that matter: one that dispatches or compacts and
one that runs. Three processes let one run, one be preempted and one arrive. Three
units of memory let two one-unit segments leave two holes that only a compaction
joins. `MaxHilosIO` bounds the IO threads of one process that are there at once: a
thread still lives after it has unblocked its process, which may block again. It is
1 in the runs, where the second IO of a script waits for the first thread to end; the
proofs hold for any. CPUs are interchangeable (they differ by their order of connection), so
the safety runs use symmetry; the liveness runs do not. Deadlock is not checked:
when every process has ended the scheduler waits for ever.

The scenarios of Bloqueos are four initial states of one run, so that the
properties hold of each and what one cannot reach another does: an owner that is
suspended with its mutex and does not release it before it ends; two levels, where
a more important process waits for a preempted owner; memory for one process, that
two take from each other through BLOCK and SWAP; two CPUs, with a device that dies,
perhaps in use, and another that connects. The cases they need are two waiters for
a mutex, two candidates for a return, two IOs for a device; a third adds nothing
new. Some branches are not reached by any scenario, and are in the module because
they are in the code: desbloquear and the return of a candidate that find nobody,
a free device removed, a disconnected one released, a dispatch that finds the
queues empty.

For Mmu, 3 bits make 2 + 7 wrap to 1 and 1 + 7 to 0; two sticks of two bytes make a
segment of three straddle them; the second connects when it will, before or after
the CPU took its topology. A stick that answers outside its range
(`RangoValido`) is never reached: operar_fisico does not ask for it.

For the memory, sizes are as small as lets every case happen: a segment that
moves over part of itself and one that does not move, a stick that joins two
holes or makes a refused request possible, a segment of two blocks with the last
one partly used, a SWAP that cannot take every process, a return that reserves
one segment and finds no room for the other. `SEGMENT_MAX_SIZE` also bounds the
sizes of segments tried. With sums modulo 8 and segments of up to 3 bytes, the sizes 6
and 7 of an IO wrap at offsets 2 and 1: run segmentos reaches such writes in memory and
the end of Kernel Memory in SWAP (with one value for all bytes, since no invariant
there is about them). In run contenido, with segments of up to 2, the sizes 3 and 6 do
not wrap and are refused. The processes of run segmentos are interchangeable.

**Fairness.** Weak fairness of each thread's steps and each CPU program: they are
operating-system threads and processes, `pthread` mutexes and semaphores are
not starved for ever in practice, and `usleep` ends, so a timer fires. A Memory
Stick is never obliged to connect. `InterrumpirParaCompactar` polls every 5 ms
and may poll for ever: what makes a compaction end is the fairness of the others.

Bloqueos needs less: that some thread of the scheduler runs while one can, and
some device program answers while one can. No thread repeats a step for ever, so
this is enough for every process to end. Nothing has to connect or die;
`TodosTerminan` of Bloqueos is claimed when a device of each type is there again
and again, since an IO waits for one.

### What the five violations are

- **A compaction that waits for itself.** After MEM_FREE (CX 352-355), or a
  MEM_ALLOC that compacted (CX 326-332), the thread of a CPU dispatches its CPU
  again and then retries the pending allocations. If one needs a compaction, the
  thread waits until no CPU is in a burst, its own included, and it is the only
  reader of that CPU's socket. `compactacion_en_curso` and
  `mutex_socket_memoria` stay held.
- **A lost wakeup.** The refusal of MEM_ALLOC (CX 324) and the listing of the
  request (CX 338) are separate; memory freed in between runs its event over a
  list that does not have the request.
- **A lost preemption.** A process on its way from READY to EXEC is in no list
  where `chequear_desalojo_por_prioridad` looks, and the check is made once.
- **A lost mutex.** `lock_mutex` queues the PID for the mutex (PL 1404) before
  `exec_a_block` puts its process in BLOCK (CX 288). An unlock on another CPU, in
  between, makes it the owner, and `desbloquear` finds it neither in BLOCK nor in
  SUSP_BLOCK: the process goes to BLOCK with the mutex it waits for.
- **A return that never comes.** `gestor_memoria_dessuspender_proceso` answers
  false for a process with nothing in SWAP, and that is how a process without
  segments, or one for which SWAP had no room, was suspended: it stays in
  SUSP_READY with all the memory free.

There are three other disagreements, without a run:

- `cambiar_prioridad` "lo mueve a la cola del nuevo nivel" if the process is in READY
  (PL 1346-1364), but decides that by the estado, and appends the process to the new
  queue even if it was in none. The corto plazo takes a process out of its queue
  well before it changes its estado (PL 390, 416): with Colas Multinivel and two
  CPUs, the owner of a mutex that inherits a priority in between is both
  dispatched and listed in READY. TLC shows it for `UnLugar` with the scripts LOCK,
  INTERRUPCION, EXIT at priority 1 and INTERRUPCION, LOCK, EXIT at priority 0. The
  same happens to an owner that leaves BLOCK, READY before it is in a queue. The
  scenario of run bloqueos with Colas Multinivel has one CPU and an owner that does
  not block, which keeps out of both, and `UnLugar` is proved without them.
- `crear_segmento` accepts a number the process already has. After a compaction,
  `actualizar_base_de_segmento_en_proceso` writes the base of the second segment in
  the entry of the first. The passing runs of the memory take the scripts not to
  repeat a number (`IdsRepetidos = FALSE`).
- `gestor_memoria_traducir` "devuelve false si el segmento no existe o el acceso se
  sale del mismo" (gestor_memoria.h:118), but `desplazamiento + tamanio` (GM 477) is a
  uint32_t sum. An IO_STDIN of a size near 2^32 passes it, as it passes the same sum in
  the CPU (instrucciones.c:47, 278), and `operar_fisico` (GM 419-447) writes over the
  segments that follow, whoever they are of, until memory ends and it answers false. With
  `TamsIO = {1, 2, 7}` in the configuration of run contenido TLC shows it for
  `ImplementaPromesa`: segments 0 and 1 of two bytes each, and a write of 7 bytes at
  offset 1 of the first, whose sum is 0 modulo 8, changes the second. If the segment is
  in SWAP, the sum in GM 857 wraps as well and Kernel Memory ends (`CaerEnSwap`), for an
  IO_STDOUT too. The buffers of such an IO take almost 4 GiB in the scheduler and in
  Kernel Memory; the model takes them to be allocated.

## 5. Proofs

Every theorem holds for all values of the constants that satisfy the module's
named assumption (`ConstantesOK`, `ParametrosOK`, `ConfiguracionesOK`, `MutexesOK`
and the like, which TLC evaluates in the runs). An invariant of the runs is seldom
inductive; below is what had to be added, and why.

### Planificador

`TipoCorrecto == Spec => []TypeOK` (`Planificador_proofs`). A thread that
satisfies a request takes `Head(loc[t].resto)`, and one that dispatches uses
`loc[t].cpu`. `InvTipos` adds that a thread in the memory event's steps holds
`mutex_evento` with a nonempty rest of the snapshot, and that a dispatching corto
plazo has chosen a CPU. One lemma per action shows that it keeps InvTipos.

`CompactacionSegura == Spec => []CompactaSinCpus` (`Compactacion_proofs`).
The scheduler only sees `en_rafaga`, so the invariant says what that flag means
at the other end of the sockets:

- `InvRafaga`: a PID on its way, a CPU executing and an answer on its way back
  exclude each other, and each needs `en_rafaga`;
- `InvAtencion`: while the thread of a CPU has a process in its hands the CPU is
  neither free nor in a burst;
- `InvDestino`: the CPU that the corto plazo has chosen stays free until it sends;
- `InvZona`: the compacting thread owns `mutex_socket`, the flag is up, and once
  it has counted no CPU in a burst there is none.

`InvZona` needs the others: a burst may only begin in `Enviar`, which waits for
the flag, and the flag is lowered by the one owner of `mutex_socket`.

`SiempreEnUnLugar == Spec => []UnSoloLugar` and `ElManejadorEncuentra`
(`Procesos_proofs`). `UnSoloLugar` does not say in whose hands a process is when it
is in no list, so a step of that thread might break it. `InvProcesos` says it
of the three estados that are left in more than one critical section, each as a
division of the processes of that estado among places (`Reparto`: nobody is in two
places, and everybody is in one): READY among the queues and the threads that move a
process (`EnReady`); EXEC among the CPUs that answer for a process, in a burst or
with their thread at work, and the corto plazo (`EnExec`); BLOCK among the pending
requests, the IO threads and the threads about to list a request (`EnBlock`). Each
transition is then one lemma of `Minimos` about `Reparto`: a place gives an element
to another, gains one or loses one. `InvResto` adds that what an event has still
to retry is still pending. `SemaforosCuentan` (same module) counts: `InvSemaforos`
says that what is in the queues is what the semaphore holds, what was inserted
and not yet posted, and what the corto plazo has taken and not used, and the same
of the free CPUs.

`UnaRafagaPorProceso`, `ContextoSinPerdidas`, `InterrumpeSuRafaga` and
`ElMotivoSeConoce` (`Contexto_proofs`) share `InvContexto`. The count of completed
instructions is always in one known place: the PCB out of EXEC (`InvPCB`), Kernel
Memory when the PID is on its way, the PC of the CPU, or its answer (`InvPC`), and
the PCB again in the hands of a handler (`InvManejador`) or a dispatcher (`InvCP`,
`InvEnvio`). Nobody else writes there because of the division of EXEC above. For
the interruptions, `InvInterrupcion` says that whatever is behind a PID in a CPU's
socket, or waits there for a CPU that executes, is of the present burst and has
its reason recorded: FIFO sockets and the check of `rafaga` are what it rests on.

`RefinaCiclo == Spec => ImplementaCiclo` (same module) is the refinement:
`Spec => CicloDeVida!Spec` under the mapping of Planificador, each action shown to be
one transition of the abstract specification or a stutter. That there is room in
EXEC when the corto plazo dispatches is `LugarEnExec`: the CPUs that answer for a
process map onto those in EXEC, and one CPU is free. That only a process in EXEC
advances comes from `InvPid`.

### GestorMemoria

`MemoriaSinSolape == Spec => []SinSolape` (`GestorMemoria_proofs`). It is not
inductive alone: a compaction keeps segments apart because of where `prox` is, and
`prox` stays below what is left to move because segments are apart. `InvMemoria` joins
it to `EnMovimiento`, to the types, to the data of the request (`PedidoConDatos`)
and to a bound on the segments' numbers (`NrosAcotados`: without it `Max` would
choose from a set that might have no maximum). `HuecoLibre` says that a hole of at
least t bytes has t free bytes, and gives creations and returns (`AltaSinSolape`);
`PasoMover` is the argument for one move: the segment with the lowest base among
those left ends before any other of them starts, so it can go down to `prox` and
the next `prox` is still below the rest.

The rest shares `IndMemoria`: InvMemoria, that segments are finitely many, and

- `InvLugar`: where the segments of each process are, in memory, in SWAP, or
  partly in each while the request in progress moves them;
- `InvCompacta`: what a compaction was asked for still fits, and what it has moved
  ends where the bytes moved say. Sums of sizes are cardinalities of sets of bytes
  (`Piezas`), since a fold cannot be reasoned about by induction here. `HuecoFinal`
  concludes: when all has been moved, the free bytes are one hole (`SiempreAlcanza`);
- `InvBloques`: the blocks counted before a suspension are enough to its end
  (`SwapConDueno`);
- `InvDatos`: the types of what sticks, disk, tables and caches hold.

`PedidoEnMovimiento`, `MudanzaEntera` and `TiposMemoria` follow too. They hold with
repeated numbers included, and with IOs whose sizes wrap: those change bytes, or end
the program, but neither lists nor tables (`EfectoEscribir`, `EfectoCaer`). `TablasAlDia` does not: it is stated for
`~IdsRepetidos`, the condition on the scripts without which list and tables do
disagree (the end of section 4), with `InvTabla`: numbers are unique within a process
over memory and SWAP (`IdsUnicos`), and each table has the entries of the
segments whose bytes are in memory.

`CumplePromesa == Spec => ImplementaPromesa`, for `~IdsRepetidos` and `SinVueltas`, is the
refinement:
`Spec => Promesa!Spec`, where what a process has (`Contenido`) is, of each of its
segments, the bytes in memory or in its SWAP blocks. `Contenido` chooses a segment by
its number, so the proof first turns it into the set of pairs of a number and
its bytes (`Trozos`, `ContenidoEs`), which a step may leave as it is, add one to, take
one from or change one of (`NadieNota`, `PromesaCrear`, `PromesaEliminar` and the like). A
return, a move and a suspension leave it as it is, which is the point; that they do
rests on `IndMemoria`, for where each segment is half way through a request.
`InvPromesa` joins to it `IdsUnicos`, so that a number names one segment; `TablaBien`,
what the table of a process says of its segments; and `InvCache`, that a CPU that
executes has that table, so that a store goes to bytes of its own process. With repeated
numbers `Contenido` names one of two segments. `SinVueltas`, that `SegmentMaxSize` plus
the size of any IO does not go past 2^32, is a condition on the programs that the code
does not check, and without it the promise is broken (the end of section 4). With it
`Entra` is what it means to be (`EntraEs`): the bytes of a write are in their segment, hence
in memory (`SinSolape`), and nobody ends the program (`NadieCae`).

### Bloqueos

`TipoCorrecto == Spec => []TypeOK` (`Bloqueos_proofs`). A thread uses the
process, the mutex or the device in its hands because of the point it is at, and a
point it returns to may need what an earlier one left: `Inv` adds to the types
`LocalesOK`, which says of each thread which of its locals its point, and the point
after desbloquear (`tras`), need; and that the thread of a CPU that is not at rest
has a process (`TipoCpu`). That no semaphore goes below zero is part of it.

`DispositivosExclusivos == Spec => []UsoExclusivo`. `InvUso` adds
that the device of an IO in progress was started once and that every listed device
was (`Vivos`): otherwise a program that connects would set `libre` of a device in
use. A new user takes a device found free, hence of no other user; only the one
user of a device makes it free again, and leaves it in that step; a device that
dies is marked, and stays with its user.

`CadaUnoLaSuya == Spec => []RespuestaPropia`. `InvLinea` adds to InvUso that the
socket of a free device, or of a program that is off, has nothing in it: so the
first thing an IO finds there after its request is its own answer.

`CadaUnoEnSuLugar == Spec => [](~ config.cmn => UnLugar)`. It is stated without
Colas Multinivel because with them it is false (the end of section 4). `InvLugar` is

- `InvListas`: each list has the processes of its estado, but for one in BLOCK that
  the thread of its CPU has not listed yet;
- `InvRafagas`: a CPU answers for one process in EXEC, or has it between two lists,
  and no other does;
- `InvReady`: the division of READY among the queues and the threads that move a
  process, with `Reparto` again;
- `InvFrescos`: timers and IO threads are of blocks that have begun. Without it
  the timer of an earlier block could be the one a block is about to start.

It needs `InvPuntos`, which says of every thread where desbloquear and encolar may
return to. A timer, desbloquear and the end of a burst race for the same process: each
finds it in a list, under that list's mutex, so `InvListas` gives its estado and the
one that comes second finds nobody.

`NadieCorreEnSwap == Spec => [](~ config.cmn => MemoriaPresente)`. `InvMemoria` adds
that the memory event has one thread inside (`InvEvento`); that a process in SWAP is
suspended, and one that a timer is about to suspend is not in SWAP and has one such
timer (`InvSwap`); that a process that comes back, between the answer of
DESSUSPENDER_PROCESO and its insertion in READY, is in RAM, in SUSP_READY, and
no timer nor the rest of the loop will touch it (`InvRegreso`); and that the order of
suspension has the suspended once each (`InvAntiguedad`).

`FichasExactas == Spec => [](~ config.cmn => FichaConDispositivo)` counts the tokens of
the pool. The count changes by one in a few steps of an IO or of a device program
(`BalanceIO`, `BalanceProgramas`, each with the change of the set of free devices), but
it is of no use if a process that blocks again could meet an IO of its earlier block.
`InvEspera` excludes that: who is blocked waits for what its script asked for last,
an IO (`InvEsperaIO`: one IO thread at work for it, and only one), a mutex
(`InvEsperaMutex`: it is in that queue, once, or its waker has just taken it out) or
memory (`InvEsperaMemoria`, the same of `lista_espera`), and desbloquear is only
called by who brings it that (`InvDespierta`). `InvPool` adds that a device in use is
listed once and nobody has marked it.

The mutexes: `MutexExcluyen`, `TablaComoListas`, `HerederoDespierta` and
`HerenciaDeshecha` state `ExclusionMutua`, `TomadosEspejan`, `DespiertaAlSiguiente`
and `PrioridadRestaurada`, for `~ config.cmn /\ Ordenados`. `Ordenados` is one
connected CPU (`UnaCpu`) and scripts that lock only what the process has not
and unlock only what it has (`GuionOK`); they may end without releasing. They are
conditions on the scenario because without them the code is wrong, not the proof:

- with two CPUs `DespiertaAlSiguiente` is false (run mutex_perdido), and so is
  `ExclusionMutua`: TLC finds it with the scripts LOCK, UNLOCK, LOCK, INTERRUPCION,
  EXIT; LOCK, UNLOCK, EXIT; and IO, LOCK, INTERRUPCION, EXIT. The new owner is READY
  before `unlock_mutex` adds the mutex to its list (PL 1465), unlocks on the other CPU,
  and the entry arrives later: its EXIT frees a mutex that is somebody else's;
- `unlock_mutex` does not look at who the owner is: an UNLOCK without its LOCK frees
  the mutex of another;
- with Colas Multinivel `UnLugar` is false (section 4), and everything here
  rests on `InvLugar`.

`InvMutex` is

- `InvCpu`, `InvSale`: only that CPU has a process, so one thread attends at a time;
  the mutexes freed by an end are of a process in EXIT;
- `InvTabla`: table and lists agree, but for a mutex whose owner is releasing it
  (`Cediendo`) or whose new owner is being woken (`Despierto`);
- `InvGuion`: a process whose script has a LOCK without its UNLOCK owns that mutex or
  is in its queue, and the other way round. It ties the table to the scripts, and with
  them to what mutual exclusion is about;
- `InvToma`: the thread that wakes the new owner will find it, in BLOCK or in
  SUSP_BLOCK, though its suspension timer runs; so the mutex is added to its list;
- `InvParado`: who is blocked in a LOCK is in the queue or is being woken;
- `InvPrioridad`: who is raised is an owner when it is raised, and who releases has its
  own priority back before the mutex passes on.

### Mmu

`TiposMmu == Spec => []TypeOK` (`Mmu_proofs`). That operar_fisico never reads or
writes outside the memory or its buffer needs that the buffer has as much as was
read (`InvBuffer`), and that each stick ends where the next one begins
(`BaseSiguiente`). `Inv` has also that Kernel Memory keeps segments apart, inside the
sticks that have connected and with numbers of their own (`InvSegmentos`), and that a
process is on one CPU, whose table is the one of Kernel Memory (`InvRafagas`).

The other five share `InvHechos`, what is true of the access of each CPU:

- `EnLectura`: `dir` is the address of the segment plus what has been read, with no
  wrap, and once something has been read it is not past the end of memory;
- `EnEscritura`: the whole access fits in its segment, from the first byte written;
- `EnFallo`: who is in fallo may not make its access, or was refused a connection;
- `EnReintento`: after a second topology without a refusal the CPU knows a stick
  for every byte of the process's segments (`HayStick`).

mmu_traducir only gives `Pasa`: offset and size, summed modulo 2^Ancho, do not go
past the segment. A read that ends has advanced its whole size without leaving the
memory, so its size is at most Total and the sum did not wrap (`HechosCompletar`);
that is what a COPY_MEM writes with, and the size of MOV_OUT is that of a register.
The steps of others do not touch these facts: they write in segments of their own
process, which are apart (`HechosAjenos`).

`SoloPermitidos`, `SegFaultJusto`, `LeeLoSuyo`, `EscribeLoLeido` and
`NadieEscribeEnLoAjeno` assume `MemoriaChica == Total + TamMaxSegmento <= Modulo`,
which the run has with 4 + 3 <= 8. It cannot be left out: with one stick of 7 bytes,
segments of up to 5 and 3 bits, a segment of 1 byte in 5 and a COPY_MEM of 4 bytes at
offset 4, both sums wrap, (4 + 4) to 0 and (5 + 4) to 1, and the copy completes in the
memory of nobody. In the code that takes more than 4 GiB of sticks and segment.

### Only model-checked

- `HerenciaEfectiva`: it holds only of scenarios as those of its comment, and its
  scenario has Colas Multinivel, where `InvLugar` is false. The code looks for the
  owner in three lists, one lock each, and an owner that moves between two looks is
  missed.
- The mutex properties with two CPUs, and all of what assumes `~ config.cmn` with Colas
  Multinivel: TLC checks them in the scenario with Colas Multinivel; none uses mutexes
  on two CPUs in a passing run, for the reasons above.
- `HuecoDelBucle` compares `BuscarHueco` with a recursive definition, and induction
  over data is out of the prover's reach.
- All liveness: nothing is proved under fairness here.

## 6. Mutants

Each property of a passing run has a mutant: an operator marked `Mutant:` just
before the one it replaces, the plausible bug that property would catch. Some
examples: a dispatch that does not wait for the compaction (`CompactaSinCpus`);
a quantum timer that does not compare `rafaga` (`InterrupcionDeSuRafaga`); an
idle CPU that keeps a late INTERRUPCION (`MotivoConocido`); a CPU freed before
its process is attended (`ManejadorEncuentraSuProceso`); segments moved from the
end of memory (`EnMovimiento`); reserved segments that are
not undone (`TodoONada`); a suspended process that is woken without being looked for
(`DespiertaAlSiguiente`); a candidate taken back without Kernel Memory's answer
(`MemoriaPresente`); a removal that takes a token of a device in use
(`FichaConDispositivo`); an access split without its address advancing
(`LecturaFiel`).

## 7. Not modelled

- **remover_cpu** (PL 832-854). The loss of a CPU in a burst calls `exec_a_ready`
  with `mutex_cpus` held, and from it `chequear_desalojo_por_prioridad` may lock
  `mutex_cpus` again, which is not recursive: a model of it shows the lock and
  little else. It is a hazard in `PROJECT.json`.
- **bsod** (PL 1072-1114). It logs every process it finds in a list and ends the
  program with `exit(1)`: there is no state after it. It does not see a process
  that is in a thread's hands, which is a hazard too.
- **Of the devices:** what STDIN and STDOUT exchange with Kernel Memory. Two
  consequences are hazards: an error of Kernel Memory in an STDOUT removes a device
  that works, and a process whose IO failed goes on as if it had been made.
- **Of the memory:** reads, which change nothing; the loss of a stick, which ends
  in the BSOD; a SWAP or a stick that fails in the middle of a request (GM does not
  look at the result of those copies).
- **Of suspender:** the answer that is read without having been written when the
  exchange fails (PL 560): the connection with Kernel Memory does not fail in the
  model, since the scheduler cannot go on without it.
- **Compositions:** Planificador, Bloqueos, GestorMemoria and Mmu are checked
  apart, each with the guarantees of the others as guards, named in section 3. The
  product of two of them has far too many states for TLC.
- Left out for good: configuration, loggers, launch scripts, the contents of
  messages nobody checks, timestamps (`ts_*` only order candidates of a
  suspension), `cpu_asignada` and the preemptor's data (only logged), socket errors
  of a connected CPU, and registers other than the PC.
