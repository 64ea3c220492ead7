---------------------------- MODULE GestorMemoria ----------------------------
(***************************************************************************)
(* kernel_memory/src/gestor_memoria: the segments of the processes in the  *)
(* memory the sticks add up to, the table of segments of each process, and *)
(* the blocks of SWAP where suspended processes wait.                      *)
(*                                                                         *)
(* One thread (atender_scheduler) serves the scheduler's requests in order.*)
(* A request that only touches what that thread reads is one action; one   *)
(* that works segment by segment is a step per segment, and pedido says    *)
(* how far it got.  CPUs read and write the sticks meanwhile, through the  *)
(* table they were given when their burst started, and sticks connect.     *)
(*                                                                         *)
(* The scheduler's side is what Planificador shows: a process that asks    *)
(* for something is on no CPU, and no CPU executes between DESALOJO_OK and *)
(* the answer (Compactacion_proofs).                                       *)
(***************************************************************************)
EXTENDS Integers, FiniteSets, FiniteSetsExt

CONSTANTS
  Pids,                 \* processes
  IdsDe,                \* IdsDe[p]: the segment numbers the program of p uses
  MaxMemoria,           \* bound: what the sticks add up to, at most
  TamSticks,            \* sizes a Memory Stick may have
  SegmentMaxSize,       \* SEGMENT_MAX_SIZE
  BestFit,              \* ALLOCATION_STRATEGY # WORST
  SwapBlockSize,        \* BLOCK_SIZE of SWAP
  SwapCantBloques,      \* blocks of SWAP; 0 when there is none
  MaxValor,             \* bytes go from 0 to MaxValor
  Modulo,               \* uint32_t: addresses and sizes are below it, sums wrap at it
  TamsIO,               \* sizes the programs give to IO_STDIN and IO_STDOUT
  IdsRepetidos          \* programs may MEM_ALLOC a segment number they hold

ASSUME ParametrosOK ==
  /\ IsFiniteSet(Pids) /\ DOMAIN IdsDe = Pids
  /\ \A p \in Pids : IsFiniteSet(IdsDe[p])
  /\ MaxMemoria \in Nat /\ TamSticks \subseteq Nat \ {0}
  /\ SegmentMaxSize \in Nat \ {0} /\ SwapBlockSize \in Nat \ {0}
  /\ SwapCantBloques \in Nat /\ MaxValor \in Nat
  /\ Modulo \in Nat /\ TamsIO \subseteq 1 .. Modulo - 1
  /\ MaxMemoria + SegmentMaxSize <= Modulo /\ SwapBlockSize + SegmentMaxSize <= Modulo
  /\ BestFit \in BOOLEAN /\ IdsRepetidos \in BOOLEAN

VARIABLES
  memoria_total,
  procesos,          \* processes of gestor_procesos
  segmentos,         \* t_segmento_fisico
  tabla,             \* tabla[p]: the table of segments of p's context
  ram,               \* the sticks, one after the other
  segmentos_swap,    \* t_segmento_swap
  bloques_usados,    \* swap_bloques_usados
  disco,             \* the blocks of SWAP
  pedido,            \* the request in progress
  suspendidos,       \* processes the scheduler has told to suspend
  en_cpu,            \* processes that are in a burst ...
  cache              \* ... and the table each has on its CPU

mem   == <<memoria_total, procesos, segmentos, tabla, ram>>
swap  == <<segmentos_swap, bloques_usados, disco>>
cpus  == <<en_cpu, cache>>
vars  == <<mem, swap, pedido, suspendidos, cpus>>

Ids     == UNION {IdsDe[p] : p \in Pids}
Valores == 0 .. MaxValor
Dirs    == 0 .. MaxMemoria - 1
Bloques == 0 .. SwapCantBloques - 1
Tams    == 1 .. SegmentMaxSize

\* list order is kept only where the code depends on it: nro numbers the
\* segments of one process with one number, in order of creation.
Entrada(s) == [id |-> s.id, nro |-> s.nro, base |-> s.base, tam |-> s.tam]

SinPedido == [paso |-> "libre", pid |-> 0, id |-> 0, tam |-> 0, resto |-> {},
              prox |-> 0, hechos |-> {}]

\* The scheduler asks for a process that is on no CPU and not suspended.
EnKernel(p) == p \in procesos \ (suspendidos \cup en_cpu)

\* gm->mutex is held across steps while segments move or are reserved.
MutexTomado == pedido.paso \in {"mueve", "reserva"}

-----------------------------------------------------------------------------
(* Lists: coincide_segmento and the loops that stop at the first match *)

\* The first of the segments or entries of S with number i.
Primero(S, i) == {s \in S : s.id = i /\ \A r \in S : r.id = i => s.nro <= r.nro}

De(S, p) == {s \in S : s.pid = p}

Fin(s) == s.base + s.tam

-----------------------------------------------------------------------------
(* Holes *)

\* A hole starts at 0 or where a segment ends, and goes on to the next segment
\* or to the end of memory.
FinHueco(h) == Min({s.base : s \in {r \in segmentos : r.base >= h}} \cup {memoria_total})

\* Mutant: a hole one byte too small is accepted.
HuecosJustos(t) == {h \in {0} \cup {Fin(s) : s \in segmentos} :
                      FinHueco(h) > h /\ FinHueco(h) - h >= t - 1}

Huecos(t) == {h \in {0} \cup {Fin(s) : s \in segmentos} :
                FinHueco(h) > h /\ FinHueco(h) - h >= t}

\* Mutant: the last of the equals.
MejorUltimo(best, g, h) ==
  LET tg == FinHueco(g) - g
      th == FinHueco(h) - h
  IN IF tg = th THEN g > h ELSE IF best THEN tg < th ELSE tg > th

\* hueco_es_mejor_que_el_actual, and the first of the equals.
Mejor(best, g, h) ==
  LET tg == FinHueco(g) - g
      th == FinHueco(h) - h
  IN IF tg = th THEN g < h ELSE IF best THEN tg < th ELSE tg > th

\* The base chosen for a segment of t bytes, as a set: empty when none fits.
BuscarHueco(best, t) == {h \in Huecos(t) : \A g \in Huecos(t) : ~Mejor(best, g, h)}

\* Mutant: what is in use is not discounted.
EspacioTotal == memoria_total

\* The bytes of the segments of S: as many as the sum of their sizes.
Piezas(S) == UNION {{s} \X (1 .. s.tam) : s \in S}

EspacioLibre == memoria_total - Cardinality(Piezas(segmentos))

\* list_add, at base h, of a segment of p that is the n-th with number i.
Nuevo(p, i, n, h, t) == [pid |-> p, id |-> i, nro |-> n, base |-> h, tam |-> t]

ProximoNro(p, i) == 1 + Max({0} \cup {s.nro : s \in {r \in De(segmentos, p) : r.id = i}})

\* The new segment, in the list and in the table of the process.
Alta(p, i, t) ==
  \E h \in BuscarHueco(BestFit, t) :
    LET s == Nuevo(p, i, ProximoNro(p, i), h, t) IN
    /\ segmentos' = segmentos \cup {s}
    /\ tabla' = [tabla EXCEPT ![p] = @ \cup {Entrada(s)}]

-----------------------------------------------------------------------------
(* Sticks and processes *)

Init ==
  /\ memoria_total = 0 /\ procesos = {} /\ segmentos = {}
  /\ tabla = [p \in Pids |-> {}]
  /\ ram = [d \in Dirs |-> 0]
  /\ segmentos_swap = {} /\ bloques_usados = {}
  /\ disco = [b \in Bloques |-> [o \in 0 .. SwapBlockSize - 1 |-> 0]]
  /\ pedido = SinPedido
  /\ suspendidos = {}
  /\ en_cpu = {} /\ cache = [p \in Pids |-> {}]

RegistrarStick(t) ==
  /\ ~MutexTomado /\ pedido.paso # "caido"
  /\ memoria_total + t <= MaxMemoria
  /\ memoria_total' = memoria_total + t
  /\ UNCHANGED <<procesos, segmentos, tabla, ram, swap, pedido, suspendidos, cpus>>

AgregarProceso(p) ==
  /\ pedido.paso = "libre" /\ p \notin procesos
  /\ procesos' = procesos \cup {p}
  /\ UNCHANGED <<memoria_total, segmentos, tabla, ram, swap, pedido, suspendidos, cpus>>

\* Mutant: without waiting for the process to leave its CPU.
FinalizarEnCpu(p) ==
  LET suyos == De(segmentos_swap, p) IN
  /\ pedido.paso = "libre" /\ p \in procesos
  /\ segmentos' = segmentos \ De(segmentos, p)
  /\ bloques_usados' = bloques_usados \ UNION {sw.bloques : sw \in suyos}
  /\ segmentos_swap' = segmentos_swap \ suyos
  /\ procesos' = procesos \ {p}
  /\ tabla' = [tabla EXCEPT ![p] = {}]
  /\ suspendidos' = suspendidos \ {p}
  /\ UNCHANGED <<memoria_total, ram, disco, pedido, cpus>>

\* A finished process leaves nothing in memory or in SWAP.
FinalizarProceso(p) ==
  LET suyos == De(segmentos_swap, p) IN
  /\ pedido.paso = "libre" /\ p \in procesos /\ p \notin en_cpu
  /\ segmentos' = segmentos \ De(segmentos, p)
  /\ bloques_usados' = bloques_usados \ UNION {sw.bloques : sw \in suyos}
  /\ segmentos_swap' = segmentos_swap \ suyos
  /\ procesos' = procesos \ {p}
  /\ tabla' = [tabla EXCEPT ![p] = {}]
  /\ suspendidos' = suspendidos \ {p}
  /\ UNCHANGED <<memoria_total, ram, disco, pedido, cpus>>

-----------------------------------------------------------------------------
(* Creating and removing a segment.  A refusal changes nothing. *)

CrearSegmento(p, i, t) ==
  /\ pedido.paso = "libre" /\ EnKernel(p)
  /\ IdsRepetidos \/ Primero(De(segmentos, p), i) = {}
  /\ t \in Tams
  /\ Alta(p, i, t)
  /\ UNCHANGED <<memoria_total, procesos, ram, swap, pedido, suspendidos, cpus>>

\* There is room, but in pieces: the scheduler is asked to stop the CPUs.
PedirCompactacion(p, i, t) ==
  /\ pedido.paso = "libre" /\ EnKernel(p)
  /\ IdsRepetidos \/ Primero(De(segmentos, p), i) = {}
  /\ t \in Tams
  /\ Huecos(t) = {} /\ EspacioLibre >= t
  /\ pedido' = [SinPedido EXCEPT !.paso = "desalojo", !.pid = p, !.id = i, !.tam = t]
  /\ UNCHANGED <<mem, swap, suspendidos, cpus>>

EliminarSegmento(p, i) ==
  /\ pedido.paso = "libre" /\ EnKernel(p)
  /\ \E s \in Primero(De(segmentos, p), i) : segmentos' = segmentos \ {s}
  /\ tabla' = [tabla EXCEPT ![p] = @ \ Primero(@, i)]
  /\ UNCHANGED <<memoria_total, procesos, ram, swap, pedido, suspendidos, cpus>>

-----------------------------------------------------------------------------
(* Compaction *)

Bytes(s) == [k \in 0 .. s.tam - 1 |-> ram[s.base + k]]

\* memory with the bytes c written from d on
Escritos(d, c) == [e \in Dirs |-> IF e - d \in DOMAIN c THEN c[e - d] ELSE ram[e]]

\* Mutant: the segments move without waiting for the CPUs.
RecibirDesalojoSinEsperar ==
  /\ pedido.paso = "desalojo"
  /\ pedido' = [pedido EXCEPT !.paso = "mueve", !.resto = segmentos]
  /\ UNCHANGED <<mem, swap, suspendidos, cpus>>

\* DESALOJO_OK comes when no CPU executes.
RecibirDesalojo ==
  /\ pedido.paso = "desalojo" /\ en_cpu = {}
  /\ pedido' = [pedido EXCEPT !.paso = "mueve", !.resto = segmentos]
  /\ UNCHANGED <<mem, swap, suspendidos, cpus>>

\* Mutant: every entry of the process.
ConBaseTodas(T, i, b) == {[e EXCEPT !.base = b] : e \in T}

\* actualizar_base_de_segmento_en_proceso: the first entry with the number i.
ConBase(T, i, b) == {IF e \in Primero(T, i) THEN [e EXCEPT !.base = b] ELSE e : e \in T}

\* Mutant: the segments are taken from the end of memory.
MoverDesdeElFinal ==
  /\ pedido.paso = "mueve"
  /\ \E s \in pedido.resto :
       /\ \A r \in pedido.resto : s.base >= r.base
       /\ pedido' = [pedido EXCEPT !.resto = @ \ {s}, !.prox = @ + s.tam]
       /\ segmentos' = (segmentos \ {s}) \cup {[s EXCEPT !.base = pedido.prox]}
       /\ tabla' = [tabla EXCEPT ![s.pid] = ConBase(@, s.id, pedido.prox)]
       /\ ram' = Escritos(pedido.prox, Bytes(s))
  /\ UNCHANGED <<memoria_total, procesos, swap, suspendidos, cpus>>

\* The next segment in order of base goes to the lowest address that is free.
MoverSegmento ==
  /\ pedido.paso = "mueve"
  /\ \E s \in pedido.resto :
       /\ \A r \in pedido.resto : s.base <= r.base
       /\ pedido' = [pedido EXCEPT !.resto = @ \ {s}, !.prox = @ + s.tam]
       /\ IF s.base = pedido.prox
          THEN UNCHANGED <<segmentos, tabla, ram>>
          ELSE /\ segmentos' = (segmentos \ {s}) \cup {[s EXCEPT !.base = pedido.prox]}
               /\ tabla' = [tabla EXCEPT ![s.pid] = ConBase(@, s.id, pedido.prox)]
               /\ ram' = Escritos(pedido.prox, Bytes(s))
  /\ UNCHANGED <<memoria_total, procesos, swap, suspendidos, cpus>>

FinDeCompactacion ==
  /\ pedido.paso = "mueve" /\ pedido.resto = {}
  /\ pedido' = [pedido EXCEPT !.paso = "reintenta", !.prox = 0]
  /\ UNCHANGED <<mem, swap, suspendidos, cpus>>

\* The creation again; a second refusal is answered as an error.
ReintentarCrear ==
  /\ pedido.paso = "reintenta"
  /\ IF Huecos(pedido.tam) # {} THEN Alta(pedido.pid, pedido.id, pedido.tam)
     ELSE UNCHANGED <<segmentos, tabla>>
  /\ pedido' = SinPedido
  /\ UNCHANGED <<memoria_total, procesos, ram, swap, suspendidos, cpus>>

-----------------------------------------------------------------------------
(* SWAP *)

CantBloques(t) == (t + SwapBlockSize - 1) \div SwapBlockSize

\* The blocks that the segments of S need: as many as the sum of what each needs.
PiezasSwap(S) == UNION {{s} \X (1 .. CantBloques(s.tam)) : s \in S}

BloquesLibres == Bloques \ bloques_usados

Orden(b, S) == Cardinality({c \in S : c < b})

\* The first n free blocks.
Reservables(n) == {b \in BloquesLibres : Orden(b, BloquesLibres) < n}

\* The disk with the bytes c in the blocks B, in order; the rest of the last
\* block is cleared.
Copiados(B, c) ==
  [b \in Bloques |->
     IF b \notin B THEN disco[b]
     ELSE [o \in 0 .. SwapBlockSize - 1 |->
             LET k == Orden(b, B) * SwapBlockSize + o
             IN IF k \in DOMAIN c THEN c[k] ELSE 0]]

\* Block and offset of byte k of a segment in SWAP.
BloqueDe(sw, k) == CHOOSE b \in sw.bloques : Orden(b, sw.bloques) = k \div SwapBlockSize

BytesSwap(sw) == [k \in 0 .. sw.tam - 1 |-> disco[BloqueDe(sw, k)][k % SwapBlockSize]]

EnSwap(s) == \E sw \in segmentos_swap : sw.pid = s.pid /\ sw.id = s.id /\ sw.nro = s.nro

\* What is left of the request when the segments of resto are still to do.
Sigue(resto) == IF resto = {} THEN SinPedido ELSE [pedido EXCEPT !.resto = resto]

\* Blocks are counted for every segment before the first one moves.  Without
\* enough of them the request fails, and the process stays suspended all the
\* same.
SuspenderProceso(p) ==
  LET suyos == De(segmentos, p) IN
  /\ pedido.paso = "libre" /\ EnKernel(p)
  /\ suspendidos' = suspendidos \cup {p}
  /\ IF suyos # {} /\ Cardinality(PiezasSwap(suyos)) <= Cardinality(BloquesLibres)
     THEN pedido' = [SinPedido EXCEPT !.paso = "suspende", !.pid = p, !.resto = suyos]
     ELSE UNCHANGED pedido
  /\ UNCHANGED <<mem, swap, cpus>>

\* Mutant: the blocks are not marked.
SuspenderSegmentoSinMarcar ==
  LET p == pedido.pid IN
  /\ pedido.paso = "suspende"
  /\ \E s \in pedido.resto :
       LET B == Reservables(CantBloques(s.tam)) IN
       /\ s \in Primero(pedido.resto, s.id)
       /\ disco' = Copiados(B, Bytes(s))
       /\ segmentos_swap' = segmentos_swap \cup
            {[pid |-> p, id |-> s.id, nro |-> s.nro, tam |-> s.tam, bloques |-> B]}
       /\ segmentos' = segmentos \ {s}
       /\ tabla' = [tabla EXCEPT ![p] = @ \ Primero(@, s.id)]
       /\ pedido' = Sigue(pedido.resto \ {s})
  /\ UNCHANGED <<memoria_total, procesos, ram, bloques_usados, suspendidos, cpus>>

\* Copy one segment, and only then free its memory and its entry.
SuspenderSegmento ==
  LET p == pedido.pid IN
  /\ pedido.paso = "suspende"
  /\ \E s \in pedido.resto :
       LET B == Reservables(CantBloques(s.tam)) IN
       /\ s \in Primero(pedido.resto, s.id)
       /\ disco' = Copiados(B, Bytes(s))
       /\ bloques_usados' = bloques_usados \cup B
       /\ segmentos_swap' = segmentos_swap \cup
            {[pid |-> p, id |-> s.id, nro |-> s.nro, tam |-> s.tam, bloques |-> B]}
       /\ segmentos' = segmentos \ {s}
       /\ tabla' = [tabla EXCEPT ![p] = @ \ Primero(@, s.id)]
       /\ pedido' = Sigue(pedido.resto \ {s})
  /\ UNCHANGED <<memoria_total, procesos, ram, suspendidos, cpus>>

\* Nothing in SWAP is answered as a failure.
DessuspenderProceso(p) ==
  LET suyos == De(segmentos_swap, p) IN
  /\ pedido.paso = "libre" /\ p \in suspendidos /\ suyos # {}
  /\ pedido' = [SinPedido EXCEPT !.paso = "reserva", !.pid = p, !.resto = suyos]
  /\ UNCHANGED <<mem, swap, suspendidos, cpus>>

\* Mutant: what was reserved before the one that does not fit stays reserved.
ReservarSinRevertir ==
  LET p == pedido.pid IN
  /\ pedido.paso = "reserva"
  /\ \E sw \in pedido.resto :
       /\ sw \in Primero(pedido.resto, sw.id)
       /\ IF Huecos(sw.tam) = {}
          THEN /\ pedido' = SinPedido
               /\ UNCHANGED segmentos
          ELSE \E h \in BuscarHueco(BestFit, sw.tam) :
                 LET s == Nuevo(p, sw.id, sw.nro, h, sw.tam)
                     hechos == pedido.hechos \cup {s}
                 IN /\ segmentos' = segmentos \cup {s}
                    /\ pedido' = IF pedido.resto = {sw}
                                 THEN [pedido EXCEPT !.paso = "restaura", !.hechos = hechos,
                                                     !.resto = De(segmentos_swap, p)]
                                 ELSE [pedido EXCEPT !.resto = @ \ {sw}, !.hechos = hechos]
  /\ UNCHANGED <<memoria_total, procesos, tabla, ram, swap, suspendidos, cpus>>

\* A hole for one more segment; if there is none, what was reserved is undone
\* and the request fails.
ReservarSegmento ==
  LET p == pedido.pid IN
  /\ pedido.paso = "reserva"
  /\ \E sw \in pedido.resto :
       /\ sw \in Primero(pedido.resto, sw.id)
       /\ IF Huecos(sw.tam) = {}
          THEN /\ segmentos' = segmentos \ pedido.hechos
               /\ pedido' = SinPedido
          ELSE \E h \in BuscarHueco(BestFit, sw.tam) :
                 LET s == Nuevo(p, sw.id, sw.nro, h, sw.tam)
                     hechos == pedido.hechos \cup {s}
                 IN /\ segmentos' = segmentos \cup {s}
                    /\ pedido' = IF pedido.resto = {sw}
                                 THEN [pedido EXCEPT !.paso = "restaura", !.hechos = hechos,
                                                     !.resto = De(segmentos_swap, p)]
                                 ELSE [pedido EXCEPT !.resto = @ \ {sw}, !.hechos = hechos]
  /\ UNCHANGED <<memoria_total, procesos, tabla, ram, swap, suspendidos, cpus>>

\* One segment comes back: its blocks are freed, its bytes written, its entry added.
RestaurarSegmento ==
  LET p == pedido.pid IN
  /\ pedido.paso = "restaura"
  /\ \E sw \in pedido.resto, s \in pedido.hechos :
       /\ sw \in Primero(pedido.resto, sw.id)
       /\ s.id = sw.id /\ s.nro = sw.nro
       /\ bloques_usados' = bloques_usados \ sw.bloques
       /\ segmentos_swap' = segmentos_swap \ {sw}
       /\ ram' = Escritos(s.base, BytesSwap(sw))
       /\ tabla' = [tabla EXCEPT ![p] = @ \cup {Entrada(s)}]
       /\ pedido' = Sigue(pedido.resto \ {sw})
       /\ suspendidos' = IF pedido.resto = {sw} THEN suspendidos \ {p} ELSE suspendidos
  /\ UNCHANGED <<memoria_total, procesos, segmentos, disco, cpus>>

-----------------------------------------------------------------------------
(* Reads and writes.  Those that read change nothing and are left out; n bytes *)
(* are written with one value. *)

Repite(n, v) == [k \in 0 .. n - 1 |-> v]

\* The check of traducir and swap_io_rw: a sum of two uint32_t.
Entra(d, n, t) == (d + n) % Modulo <= t

\* The disk with v in the bytes K of a segment in SWAP.
EnBloques(sw, K, v) ==
  [b \in Bloques |-> [o \in 0 .. SwapBlockSize - 1 |->
     IF \E k \in K : BloqueDe(sw, k) = b /\ k % SwapBlockSize = o THEN v ELSE disco[b][o]]]

\* The sticks get n bytes from address b on, or as many as there are up to the
\* end of memory, where operar_fisico fails.
EscribirFisico(b, n, v) ==
  ram' = Escritos(b, Repite(IF b + n <= memoria_total THEN n ELSE memoria_total - b, v))

PideIO(p) == pedido.paso = "libre" /\ p \in procesos /\ p \notin en_cpu

\* gestor_memoria_io_rw: the segment may be in memory or in SWAP.  The request
\* has the size the program gave, whatever the MMU of the CPU made of its sum.
EscribirIO(p, i, d, n, v) ==
  /\ PideIO(p)
  /\ \/ \E s \in Primero(De(segmentos, p), i) :
          Entra(d, n, s.tam) /\ EscribirFisico(s.base + d, n, v) /\ UNCHANGED disco
     \/ \E sw \in Primero(De(segmentos_swap, p), i) :
          /\ \A s \in Primero(De(segmentos, p), i) : ~Entra(d, n, s.tam)
          /\ Entra(d, n, sw.tam) /\ d + n < Modulo
          /\ disco' = EnBloques(sw, d .. d + n - 1, v)
          /\ UNCHANGED ram
  /\ UNCHANGED <<memoria_total, procesos, segmentos, tabla, segmentos_swap, bloques_usados,
                 pedido, suspendidos, cpus>>

\* In SWAP, with a sum that wraps, the loop goes on past the last block of the
\* segment and the program ends, its blocks written (STDIN) or read (STDOUT).
CaerEnSwap(p, i, d, n, v) ==
  /\ PideIO(p)
  /\ \A s \in Primero(De(segmentos, p), i) : ~Entra(d, n, s.tam)
  /\ \E sw \in Primero(De(segmentos_swap, p), i) :
       /\ Entra(d, n, sw.tam) /\ d + n >= Modulo
       /\ \/ disco' = EnBloques(sw, d .. CantBloques(sw.tam) * SwapBlockSize - 1, v)
          \/ UNCHANGED disco
  /\ pedido' = [SinPedido EXCEPT !.paso = "caido"]
  /\ UNCHANGED <<mem, segmentos_swap, bloques_usados, suspendidos, cpus>>

\* A program that has ended does nothing more.
SeguirCaido == pedido.paso = "caido" /\ UNCHANGED vars

\* MENSAJE_CONTEXTO: a CPU that starts a burst is given the table of its process.
PedirContexto(p) ==
  /\ EnKernel(p)
  /\ pedido.paso \notin {"mueve", "reintenta", "caido"}
  /\ pedido.paso # "libre" => pedido.pid # p
  /\ en_cpu' = en_cpu \cup {p}
  /\ cache' = [cache EXCEPT ![p] = tabla[p]]
  /\ UNCHANGED <<mem, swap, pedido, suspendidos>>

\* The burst ends.
Devolver(p) ==
  /\ p \in en_cpu
  /\ en_cpu' = en_cpu \ {p}
  /\ cache' = [cache EXCEPT ![p] = {}]
  /\ UNCHANGED <<mem, swap, pedido, suspendidos>>

\* mmu_traducir with the table of the burst, then the sticks directly.  Its sum
\* wraps too, but a CPU writes the bytes of a register or what it has read before,
\* and an access whose sum wraps writes nothing (Mmu, EscribeEnLoSuyo).
EscribirCpu(p, i, d, n, v) ==
  /\ p \in en_cpu
  /\ \E e \in Primero(cache[p], i) :
       /\ d + n <= e.tam
       /\ ram' = Escritos(e.base + d, Repite(n, v))
  /\ UNCHANGED <<memoria_total, procesos, segmentos, tabla, swap, pedido, suspendidos, cpus>>

-----------------------------------------------------------------------------
Escribir(p) ==
  \E i \in Ids, d \in 0 .. SegmentMaxSize - 1, v \in Valores :
    \/ \E n \in TamsIO : EscribirIO(p, i, d, n, v)
    \/ \E n \in Tams : EscribirCpu(p, i, d, n, v)

Caer(p) ==
  \E i \in Ids, d \in 0 .. SegmentMaxSize - 1, n \in TamsIO, v \in Valores :
    CaerEnSwap(p, i, d, n, v)

Compactar == RecibirDesalojo \/ MoverSegmento \/ FinDeCompactacion \/ ReintentarCrear

Next ==
  \/ \E t \in TamSticks : RegistrarStick(t)
  \/ \E p \in Pids :
       \/ AgregarProceso(p) \/ FinalizarProceso(p)
       \/ \E i \in Ids : EliminarSegmento(p, i)
       \/ \E i \in IdsDe[p], t \in Tams : CrearSegmento(p, i, t) \/ PedirCompactacion(p, i, t)
       \/ SuspenderProceso(p) \/ DessuspenderProceso(p)
       \/ PedirContexto(p) \/ Devolver(p) \/ Escribir(p) \/ Caer(p)
  \/ Compactar
  \/ SuspenderSegmento \/ ReservarSegmento \/ RestaurarSegmento
  \/ SeguirCaido

Spec == Init /\ [][Next]_vars

-----------------------------------------------------------------------------
(* Properties *)

Numeros == Nat \ {0}
SegmentosT == [pid : Pids, id : Ids, nro : Numeros, base : Nat, tam : Tams]
EntradasT  == [id : Ids, nro : Numeros, base : Nat, tam : Tams]
SwapT      == [pid : Pids, id : Ids, nro : Numeros, tam : Tams, bloques : SUBSET Bloques]
Pasos      == {"libre", "desalojo", "mueve", "reintenta", "suspende", "reserva", "restaura",
               "caido"}
PedidosT   == [paso : Pasos, pid : Pids \cup {0}, id : Ids \cup {0}, tam : Tams \cup {0},
               resto : SUBSET (SegmentosT \cup SwapT), prox : Nat, hechos : SUBSET SegmentosT]

\* Every variable has its type.
TypeOK ==
  /\ memoria_total \in 0 .. MaxMemoria
  /\ procesos \subseteq Pids /\ suspendidos \subseteq procesos
  /\ en_cpu \subseteq procesos \ suspendidos
  /\ segmentos \subseteq SegmentosT
  /\ tabla \in [Pids -> SUBSET EntradasT] /\ cache \in [Pids -> SUBSET EntradasT]
  /\ ram \in [Dirs -> Valores]
  /\ segmentos_swap \subseteq SwapT
  /\ bloques_usados \subseteq Bloques
  /\ disco \in [Bloques -> [0 .. SwapBlockSize - 1 -> Valores]]
  /\ pedido \in PedidosT

Disjuntos(s, r) == Fin(s) <= r.base \/ Fin(r) <= s.base

\* No two segments share a byte and none goes past the sticks that are connected:
\* through creations, compactions half done, suspensions and returns.
SinSolape ==
  /\ \A s \in segmentos : Fin(s) <= memoria_total
  /\ \A s, r \in segmentos : s # r => Disjuntos(s, r)

\* What the request in progress still has to do is there to be done; and in a
\* compaction what has moved is below prox and what has not is above, so that no
\* segment is written over one that has not been copied.
EnMovimiento ==
  /\ pedido.paso = "desalojo" => pedido.prox = 0
  /\ pedido.paso = "mueve" =>
       /\ pedido.resto \subseteq segmentos
       /\ \A s \in segmentos \ pedido.resto : Fin(s) <= pedido.prox
       /\ \A s \in pedido.resto : pedido.prox <= s.base
  /\ pedido.paso = "suspende" => pedido.resto \subseteq De(segmentos, pedido.pid)
  /\ pedido.paso \in {"reserva", "restaura"} =>
       /\ pedido.resto \subseteq De(segmentos_swap, pedido.pid)
       /\ pedido.hechos \subseteq De(segmentos, pedido.pid)

\* "Espeja la entrada correspondiente en la tabla de segmentos del proceso": the
\* list and the table of each process say the same of every segment that is not
\* on its way back from SWAP.
TablaEspeja ==
  \A p \in procesos : tabla[p] = {Entrada(s) : s \in {r \in De(segmentos, p) : ~EnSwap(r)}}

\* A block in use belongs to one segment in SWAP, a free one to none, and a
\* segment has as many as its bytes need: none is lost or shared by suspensions,
\* returns and processes that finish.
BloquesConDueno ==
  /\ bloques_usados = UNION {sw.bloques : sw \in segmentos_swap}
  /\ \A a, b \in segmentos_swap : a # b => a.bloques \cap b.bloques = {}
  /\ \A sw \in segmentos_swap : Cardinality(sw.bloques) = CantBloques(sw.tam)

\* A suspension or a return that is over moved every segment of the process or
\* none; and nothing of a finished process is left anywhere.
TodoONada ==
  /\ pedido.paso = "libre" =>
       \A p \in Pids : De(segmentos, p) = {} \/ De(segmentos_swap, p) = {}
  /\ \A s \in segmentos \cup segmentos_swap : s.pid \in procesos

\* The creation that follows a compaction always finds its hole: Planificador
\* counts on it, and a process refused then would never be asked again.
CompactacionAlcanza ==
  pedido.paso = "reintenta" => Huecos(pedido.tam) # {}

\* The bytes of segment i of p, wherever they are.
Contenido(p) ==
  [i \in {s.id : s \in De(segmentos, p) \cup De(segmentos_swap, p)} |->
     IF Primero(De(segmentos_swap, p), i) # {}
     THEN BytesSwap(CHOOSE sw \in Primero(De(segmentos_swap, p), i) : TRUE)
     ELSE Bytes(CHOOSE s \in Primero(De(segmentos, p), i) : TRUE)]

Promesa == INSTANCE MemoriaDeProcesos WITH
             TamMax <- SegmentMaxSize, memoria <- [p \in Pids |-> Contenido(p)]

\* No size that IO_STDIN or IO_STDOUT is given is near enough to 2^32 to wrap.
SinVueltas == \A n \in TamsIO : SegmentMaxSize + n <= Modulo

\* Compaction, suspension and return, and what other processes do, cannot be told
\* from the contents of a process's segments: as long as SinVueltas.
ImplementaPromesa == Promesa!Spec
=============================================================================
