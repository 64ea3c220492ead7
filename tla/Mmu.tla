-------------------------------- MODULE Mmu --------------------------------
(***************************************************************************)
(* How a CPU reads and writes memory: mmu_traducir                         *)
(* (cpu/src/instrucciones/instrucciones.c) with its 32-bit sums,           *)
(* operar_fisico (cpu/src/conexiones/conexiones.c) that splits an access   *)
(* over Memory Sticks, the CPU's own copies of the segment table and of    *)
(* the topology, and the sticks (memory_stick/src/memoria/memoria.c).      *)
(*                                                                         *)
(* A step is one exchange with a stick.  Kernel Memory is what a CPU sees  *)
(* of it: sticks that connect, segments that appear, go away and, with no  *)
(* CPU executing, move.                                                    *)
(***************************************************************************)
EXTENDS Integers, Sequences, FiniteSets, SequencesExt, FiniteSetsExt

CONSTANTS
  Cpus,
  Pids,
  Ancho,          \* addresses and sizes have this many bits: 32 in the code
  Segmentos,      \* segment numbers a program uses
  TamMaxSegmento, \* segment_max_size
  RegGrande,      \* bytes of a large register: 4 in the code
  Tamanios,       \* of the sticks, in the order in which they connect
  AlInicio,       \* how many are connected at the beginning
  Valores,        \* what a byte may hold
  Accesos         \* [Cpus -> the set of accesses its programs make]

\* The bytes of the sticks of T, and where each stick begins: after those that
\* connected before it.
BytesDe(T)  == UNION {{s} \X (1..Tamanios[s]) : s \in T}
Base        == [s \in 1..(Len(Tamanios) + 1) |-> Cardinality(BytesDe(1..(s - 1)))]
Total       == Base[Len(Tamanios) + 1]
Direcciones == 0..(Total - 1)
Modulo      == 2 ^ Ancho
Palabra     == 0..(Modulo - 1)
Sticks      == DOMAIN Tamanios

\* An access: an instruction with the values of its registers.  MOV_IN reads
\* at ori, MOV_OUT writes at dst; IO is IO_STDIN or IO_STDOUT, at ori.
Operaciones == [op : {"MOV_IN", "MOV_OUT", "COPY_MEM", "IO"},
                ori : Palabra, dst : Palabra, tam : Palabra]

\* Every physical address is less than UINT32_MAX, which mmu_traducir returns
\* for a fault, and a register fits after any offset in a segment.  Pid 0 is none.
\* A power of two is a natural number, which the provers do not know.
ASSUME MmuOK ==
  /\ Ancho \in Nat \ {0} /\ Modulo \in Nat /\ 0 \notin Pids
  /\ Tamanios \in Seq(Nat \ {0})
  /\ AlInicio \in 0..Len(Tamanios)
  /\ TamMaxSegmento \in Nat \ {0}
  /\ Total < Modulo
  /\ TamMaxSegmento + RegGrande < Modulo
  /\ \A c \in Cpus : Accesos[c] \subseteq Operaciones
  /\ \A c \in Cpus : \A a \in Accesos[c] :
       a.op \in {"MOV_IN", "MOV_OUT"} => a.tam \in {1, RegGrande}

VARIABLES
  conectados, \* gm->sticks: the first so many of Tamanios
  tabla,      \* [Pids -> the segments of each process in KM]
  bytes,      \* [Direcciones -> Valores], through all the sticks
  cpu         \* [Cpus -> what the CPU program knows and is doing]

vars == <<conectados, tabla, bytes, cpu>>

FALLO == Modulo - 1  \* UINT32_MAX

Segmento == [id : Segmentos, base : Direcciones, tam : 1..TamMaxSegmento]
\* Which instructions read through ori, and write through dst.
Lee(a)     == a.op # "MOV_OUT"
Escribe(a) == a.op \in {"MOV_OUT", "COPY_MEM"}

SinAcceso == [op |-> "MOV_IN", ori |-> 0, dst |-> 0, tam |-> 0]

\* en: libre, topologia (PID received), fetch, leer and escribir (inside
\* operar_fisico), hecho, fallo (SEG_FAULT to send).  sticks: cpu->sticks;
\* segs: cpu->tabla_segmentos.  dir, restante, reintentado: the variables of
\* operar_fisico.  negado: a stick did not accept the connection in this access.
CpuLibre == [en |-> "libre", pid |-> 0, sticks |-> {}, segs |-> <<>>, acceso |-> SinAcceso,
             destino |-> 0, buffer |-> <<>>, dir |-> 0, restante |-> 0,
             reintentado |-> FALSE, negado |-> FALSE]
-----------------------------------------------------------------------------
(* Kernel Memory, as CPUs see it *)

\* The addresses of a segment.
Rango(seg) == seg.base..(seg.base + seg.tam - 1)

DeProceso(p) == UNION {Rango(tabla[p][i]) : i \in DOMAIN tabla[p]}
Usadas       == UNION {DeProceso(p) : p \in Pids}

EnRafaga(p) == \E c \in Cpus : cpu[c].pid = p

ConectarStick ==
  /\ conectados < Len(Tamanios)
  /\ conectados' = conectados + 1
  /\ UNCHANGED <<tabla, bytes, cpu>>

\* The MEM_ALLOC and MEM_FREE of a process are served after its burst; those of
\* the others, at any time.
CrearSegmento(p) ==
  /\ ~EnRafaga(p)
  /\ \E seg \in Segmento :
       /\ \A i \in DOMAIN tabla[p] : tabla[p][i].id # seg.id
       /\ Rango(seg) \subseteq 0..(Base[conectados + 1] - 1)
       /\ Rango(seg) \cap Usadas = {}
       /\ tabla' = [tabla EXCEPT ![p] = Append(@, seg)]
  /\ UNCHANGED <<conectados, bytes, cpu>>

EliminarSegmento(p) ==
  /\ ~EnRafaga(p)
  /\ \E i \in DOMAIN tabla[p] : tabla' = [tabla EXCEPT ![p] = RemoveAt(@, i)]
  /\ UNCHANGED <<conectados, bytes, cpu>>

\* A compaction moves a segment down to the free address nearest to the
\* previous one, with its bytes.
MoverSegmento(p) ==
  /\ \A c \in Cpus : cpu[c].pid = 0
  /\ \E i \in DOMAIN tabla[p] :
       LET seg == tabla[p][i]
           abajo == {d \in Usadas : d < seg.base}
           nueva == IF abajo = {} THEN 0 ELSE Max(abajo) + 1
       IN  /\ nueva < seg.base
           /\ tabla' = [tabla EXCEPT ![p][i].base = nueva]
           /\ bytes' = [d \in Direcciones |->
                          IF d \in nueva..(nueva + seg.tam - 1)
                          THEN bytes[d + seg.base - nueva] ELSE bytes[d]]
  /\ UNCHANGED <<conectados, cpu>>
-----------------------------------------------------------------------------
(* The CPU *)

\* Mutant: KM also names the sticks that have not connected yet.
ConTopologiaEntera(r, S) == [r EXCEPT !.sticks = @ \cup (Sticks \ S), !.negado = S # {}]

\* actualizar_topologia_sticks: those of KM that accept the connection are
\* added; an entry is never changed nor removed.  S: those that refuse it.
ConTopologia(r, S) == [r EXCEPT !.sticks = @ \cup ((1..conectados) \ S),
                                !.negado = S # {}]
Rechazos(r) == SUBSET ((1..conectados) \ r.sticks)

\* MENSAJE_ENVIAR_PID: the topology first,
Despachar(c, p) ==
  /\ cpu[c].en = "libre" /\ ~EnRafaga(p)
  /\ \E S \in Rechazos(cpu[c]) :
       cpu' = [cpu EXCEPT ![c] = [ConTopologia(@, S) EXCEPT !.en = "topologia", !.pid = p]]
  /\ UNCHANGED <<conectados, tabla, bytes>>

\* then the context, with the segment table of this moment.
SolicitarContexto(c) ==
  /\ cpu[c].en = "topologia"
  /\ cpu' = [cpu EXCEPT ![c] = [@ EXCEPT !.en = "fetch", !.negado = FALSE, !.segs = tabla[cpu[c].pid]]]
  /\ UNCHANGED <<conectados, tabla, bytes>>

\* Sums of uint32_t.
Suma(a, b) == (a + b) % Modulo

\* Mutant: the offset is not counted.
MmuTraducirSinDesplazamiento(segs, dir, tam) ==
  LET despl == dir % TamMaxSegmento
      i     == SelectInSeq(segs, LAMBDA s : s.id = dir \div TamMaxSegmento)
  IN  IF i = 0 \/ tam > segs[i].tam THEN FALLO
      ELSE Suma(segs[i].base, despl)

\* mmu_traducir.  The first entry with that number is the segment.
MmuTraducir(segs, dir, tam) ==
  LET despl == dir % TamMaxSegmento
      i     == SelectInSeq(segs, LAMBDA s : s.id = dir \div TamMaxSegmento)
  IN  IF i = 0 \/ Suma(despl, tam) > segs[i].tam THEN FALLO
      ELSE Suma(segs[i].base, despl)

\* The instruction ends, and its local variables with it.
Terminada(r, en) == [r EXCEPT !.en = en, !.dir = 0, !.destino = 0, !.reintentado = FALSE]

\* operar_fisico begins.
Operar(r, en, dir, tam) ==
  [r EXCEPT !.en = en, !.dir = dir, !.restante = tam, !.reintentado = FALSE]

\* cpu_execute of an access.  A fault of any translation ends it before memory
\* is touched; the check of IO_STDIN and IO_STDOUT is all that the CPU does.
Ejecutar(c) ==
  /\ cpu[c].en \in {"fetch", "hecho"}
  /\ \E a \in Accesos[c] :
       LET ori   == MmuTraducir(cpu[c].segs, a.ori, a.tam)
           dst   == MmuTraducir(cpu[c].segs, a.dst, a.tam)
           falla == (Lee(a) /\ ori = FALLO) \/ (Escribe(a) /\ dst = FALLO)
           r     == [cpu[c] EXCEPT !.acceso = a, !.destino = dst, !.buffer = <<>>,
                                   !.restante = 0, !.negado = FALSE]
       IN  \/ /\ falla
              /\ cpu' = [cpu EXCEPT ![c] = Terminada(r, "fallo")]
           \/ /\ ~falla /\ a.op = "IO"
              /\ cpu' = [cpu EXCEPT ![c] = Terminada(r, "hecho")]
           \/ /\ ~falla /\ a.op \in {"MOV_IN", "COPY_MEM"}
              /\ cpu' = [cpu EXCEPT ![c] = Operar(r, "leer", ori, a.tam)]
           \/ /\ ~falla /\ a.op = "MOV_OUT"
              /\ \E v \in [1..a.tam -> Valores] :
                   cpu' = [cpu EXCEPT ![c] = [Operar(r, "escribir", dst, a.tam) EXCEPT !.buffer = v]]
  /\ UNCHANGED <<conectados, tabla, bytes>>

\* stick_para_direccion.
ParaDireccion(conocidos, dir) == {s \in conocidos : dir \in Base[s]..(Base[s] + Tamanios[s] - 1)}

\* rango_valido of the stick: two comparisons that cannot wrap.
RangoValido(s, dir_local, tam) == dir_local <= Tamanios[s] /\ tam <= Tamanios[s] - dir_local

\* Mutant: the whole of what is left is asked of that stick.
TramoEntero(r, s) == r.restante

\* The part of the access in the stick of its first byte.
Tramo(r, s) == Min({r.restante, Base[s] + Tamanios[s] - r.dir})

\* Mutant: it does not advance.
CursorFijo(r) == 0

\* How far the cursor in the buffer is.
Cursor(r) == r.acceso.tam - r.restante

\* Mutant: the address stays where it was.
AvanzarSinDireccion(r, tramo) == [r EXCEPT !.restante = @ - tramo]

\* The cursors at the end of a turn.
Avanzar(r, tramo) == [r EXCEPT !.dir = Suma(@, tramo), !.restante = @ - tramo]

\* One turn of the loop, in a stick: its exchange, with the delay on its side.
PasoEnStick(c, s) ==
  LET r     == cpu[c]
      tramo == Tramo(r, s)
      zona  == r.dir..(r.dir + tramo - 1)
      sigue == Avanzar(r, tramo)
  IN  IF ~RangoValido(s, r.dir - Base[s], tramo)
      THEN cpu' = [cpu EXCEPT ![c] = Terminada(@, "fallo")] /\ UNCHANGED bytes
      ELSE \/ /\ r.en = "leer"
              /\ cpu' = [cpu EXCEPT ![c] = [sigue EXCEPT
                           !.buffer = @ \o [i \in 1..tramo |-> bytes[r.dir + i - 1]]]]
              /\ UNCHANGED bytes
           \/ /\ r.en = "escribir"
              /\ cpu' = [cpu EXCEPT ![c] = sigue]
              /\ bytes' = [d \in Direcciones |->
                             IF d \in zona THEN r.buffer[Cursor(r) + d - r.dir + 1] ELSE bytes[d]]

OperarFisico(c) ==
  /\ cpu[c].en \in {"leer", "escribir"} /\ cpu[c].restante > 0
  /\ \E s \in ParaDireccion(cpu[c].sticks, cpu[c].dir) : PasoEnStick(c, s)
  /\ UNCHANGED <<conectados, tabla>>

\* Mutant: an address no stick has ends the access as if it were complete.
ReintentarYTerminar(c) ==
  /\ cpu[c].en \in {"leer", "escribir"} /\ cpu[c].restante > 0
  /\ ParaDireccion(cpu[c].sticks, cpu[c].dir) = {}
  /\ IF cpu[c].reintentado
     THEN cpu' = [cpu EXCEPT ![c] = Terminada([@ EXCEPT !.restante = 0], "hecho")]
     ELSE \E S \in Rechazos(cpu[c]) :
            cpu' = [cpu EXCEPT ![c] = [ConTopologia(@, S) EXCEPT !.reintentado = TRUE]]
  /\ UNCHANGED <<conectados, tabla, bytes>>

\* No stick it knows has the address: the topology is asked for again, once.
Reintentar(c) ==
  /\ cpu[c].en \in {"leer", "escribir"} /\ cpu[c].restante > 0
  /\ ParaDireccion(cpu[c].sticks, cpu[c].dir) = {}
  /\ IF cpu[c].reintentado
     THEN cpu' = [cpu EXCEPT ![c] = Terminada(@, "fallo")]
     ELSE \E S \in Rechazos(cpu[c]) :
            cpu' = [cpu EXCEPT ![c] = [ConTopologia(@, S) EXCEPT !.reintentado = TRUE]]
  /\ UNCHANGED <<conectados, tabla, bytes>>

\* operar_fisico ends: COPY_MEM goes on to write what it read.
Completar(c) ==
  /\ cpu[c].en \in {"leer", "escribir"} /\ cpu[c].restante = 0
  /\ cpu' = [cpu EXCEPT ![c] =
               IF @.en = "leer" /\ @.acceso.op = "COPY_MEM"
               THEN Operar(@, "escribir", @.destino, @.acceso.tam)
               ELSE Terminada([@ EXCEPT !.negado = FALSE], "hecho")]
  /\ UNCHANGED <<conectados, tabla, bytes>>

\* The burst ends with a syscall or an interruption.  The topology stays in the
\* CPU; the table does too, but the next burst replaces it before it is used.
DejarCpu(c) ==
  /\ cpu[c].en \in {"fetch", "hecho"}
  /\ cpu' = [cpu EXCEPT ![c] = [CpuLibre EXCEPT !.sticks = cpu[c].sticks]]
  /\ UNCHANGED <<conectados, tabla, bytes>>

\* SEG_FAULT: the scheduler ends the process and KM frees its segments.
SegFault(c) ==
  /\ cpu[c].en = "fallo"
  /\ tabla' = [tabla EXCEPT ![cpu[c].pid] = <<>>]
  /\ cpu' = [cpu EXCEPT ![c] = [CpuLibre EXCEPT !.sticks = cpu[c].sticks]]
  /\ UNCHANGED <<conectados, bytes>>
-----------------------------------------------------------------------------
Init ==
  /\ conectados = AlInicio
  /\ tabla = [p \in Pids |-> <<>>]
  /\ bytes \in [Direcciones -> Valores]
  /\ cpu = [c \in Cpus |-> CpuLibre]

PasoCpu(c) ==
  \/ \E p \in Pids : Despachar(c, p)
  \/ SolicitarContexto(c) \/ Ejecutar(c) \/ OperarFisico(c) \/ Reintentar(c)
  \/ Completar(c) \/ DejarCpu(c) \/ SegFault(c)

Next ==
  \/ \E c \in Cpus : PasoCpu(c)
  \/ ConectarStick
  \/ \E p \in Pids : CrearSegmento(p) \/ EliminarSegmento(p) \/ MoverSegmento(p)

Spec == Init /\ [][Next]_vars
-----------------------------------------------------------------------------
(* Properties *)

\* Types; a CPU never knows a stick that has not connected
\* (gestor_memoria.c:975).
TypeOK ==
  /\ conectados \in AlInicio..Len(Tamanios)
  /\ \A p \in Pids : tabla[p] \in Seq(Segmento)
  /\ bytes \in [Direcciones -> Valores]
  /\ \A c \in Cpus :
       /\ cpu[c].en \in {"libre", "topologia", "fetch", "leer", "escribir", "hecho", "fallo"}
       /\ cpu[c].pid \in Pids \cup {0}
       /\ cpu[c].en = "libre" <=> cpu[c].pid = 0
       /\ cpu[c].sticks \subseteq 1..conectados
       /\ cpu[c].segs \in Seq(Segmento)
       /\ cpu[c].acceso \in Operaciones
       /\ cpu[c].buffer \in Seq(Valores)
       /\ {cpu[c].destino, cpu[c].dir, cpu[c].restante} \subseteq Palabra
       /\ cpu[c].reintentado \in BOOLEAN /\ cpu[c].negado \in BOOLEAN

\* What the memory protection of the system promises: tam bytes from the logical
\* address dir are inside one segment of p.  No sum wraps here, and the table is
\* the one of Kernel Memory, not the CPU's copy.
SegmentoDe(p, dir) ==
  CHOOSE seg \in Range(tabla[p]) : seg.id = dir \div TamMaxSegmento

Dentro(p, dir, tam) ==
  \E seg \in Range(tabla[p]) : seg.id = dir \div TamMaxSegmento
                            /\ (dir % TamMaxSegmento) + tam <= seg.tam

Fisica(p, dir) == SegmentoDe(p, dir).base + (dir % TamMaxSegmento)

Permitido(c) ==
  LET a == cpu[c].acceso
  IN  /\ Lee(a) => Dentro(cpu[c].pid, a.ori, a.tam)
      /\ Escribe(a) => Dentro(cpu[c].pid, a.dst, a.tam)

\* An access that completes was inside the process's segments, also when the sum
\* of mmu_traducir wrapped and let it pass: operar_fisico then runs out of
\* memory first (instrucciones.c:47, cpu/conexiones.c:292).  IO_STDIN and
\* IO_STDOUT are only translated here, so nothing is said of them.
CompletaSoloPermitidos ==
  \A c \in Cpus : cpu[c].en = "hecho" /\ cpu[c].acceso.op # "IO" => Permitido(c)

\* A process that makes an access it may make gets a SEG_FAULT only if a stick
\* refused the connection of its CPU, however the access falls on the sticks and
\* however old the topology of the CPU is (cpu/conexiones.c:283-289).
FallaJusta ==
  \A c \in Cpus : cpu[c].en = "fallo" => ~Permitido(c) \/ cpu[c].negado

\* What is being read is what the segment has, over as many sticks as it takes
\* and wherever a compaction put it (cpu/conexiones.c:277-310).
LecturaFiel ==
  \A c \in Cpus : cpu[c].en = "leer" /\ Permitido(c) =>
    \A i \in DOMAIN cpu[c].buffer :
      cpu[c].buffer[i] = bytes[Fisica(cpu[c].pid, cpu[c].acceso.ori) + i - 1]

\* What was written is in the segment, byte by byte, also when the origin and
\* the destination of a COPY_MEM overlap (instrucciones.c:225-260).
EscrituraFiel ==
  \A c \in Cpus : cpu[c].en \in {"escribir", "hecho"} /\ Escribe(cpu[c].acceso) =>
    \A i \in 1..(cpu[c].acceso.tam - cpu[c].restante) :
      bytes[Fisica(cpu[c].pid, cpu[c].acceso.dst) + i - 1] = cpu[c].buffer[i]

\* Outside a compaction a byte changes only under a CPU that executes the process
\* whose segment has it: no access reaches the memory of another process, not
\* even before it faults (cpu/conexiones.c:296-305).
EscribeEnLoSuyo ==
  [][\A d \in Direcciones : bytes'[d] # bytes[d] =>
       \/ \E c \in Cpus : cpu[c].en = "escribir" /\ d \in DeProceso(cpu[c].pid)
       \/ \A c \in Cpus : cpu[c].pid = 0]_vars
=============================================================================
