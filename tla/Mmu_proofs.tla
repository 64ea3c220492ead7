----------------------------- MODULE Mmu_proofs -----------------------------
(***************************************************************************)
(* Proofs about Mmu for every number of CPUs, processes, segments and      *)
(* sticks, all their sizes, and every width of the addresses.              *)
(*                                                                         *)
(* The sums of mmu_traducir may wrap, so a translation says little of what *)
(* is in a segment; the rest is said by how far operar_fisico came in the  *)
(* memory there is (EnLectura).  That needs the memory and the largest     *)
(* segment to fit in the addresses together (MemoriaChica): without it an  *)
(* address wraps too, and an access may complete outside its segment.      *)
(***************************************************************************)
EXTENDS Mmu, Minimos, FiniteSetTheorems, TLAPS

-----------------------------------------------------------------------------
(* Sticks, one after the other *)

LEMMA TamanioTipo ==
  /\ Len(Tamanios) \in Nat /\ Sticks = 1..Len(Tamanios)
  /\ \A s \in Sticks : Tamanios[s] \in Nat \ {0}
BY MmuOK DEF Sticks

LEMMA StickFinito ==
  ASSUME NEW s, NEW k \in Nat
  PROVE  IsFiniteSet({s} \X (1..k)) /\ Cardinality({s} \X (1..k)) = k
<1>1. IsFiniteSet({s}) /\ Cardinality({s}) = 1
  BY FS_Singleton
<1>2. IsFiniteSet(1..k) /\ Cardinality(1..k) = k
  BY FS_Interval
<1>3. /\ IsFiniteSet({s} \X (1..k))
      /\ Cardinality({s} \X (1..k)) = Cardinality({s}) * Cardinality(1..k)
  BY <1>1, <1>2, FS_Product, Zenon
<1>. QED  BY <1>1, <1>2, <1>3

LEMMA BytesFinitos ==
  ASSUME NEW T, IsFiniteSet(T), T \subseteq Sticks
  PROVE  IsFiniteSet(BytesDe(T))
<1>. DEFINE f == [s \in T |-> {s} \X (1..Tamanios[s])]
            U == {f[s] : s \in T}
<1>1. ASSUME NEW s \in T PROVE IsFiniteSet(f[s])
  BY TamanioTipo, StickFinito
<1>2. f \in Surjection(T, U)
  BY DEF Surjection
<1>3. IsFiniteSet(U)
  BY <1>2, FS_Surjection
<1>4. \A x \in U : IsFiniteSet(x)
  BY <1>1
<1>5. IsFiniteSet(UNION U)
  BY <1>3, <1>4, FS_UNION
<1>6. UNION U = BytesDe(T)
  BY DEF BytesDe
<1>. QED  BY <1>5, <1>6

\* Where a stick begins, and the next one.
LEMMA BaseTipo ==
  ASSUME NEW s \in 1..(Len(Tamanios) + 1)
  PROVE  Base[s] \in Nat /\ IsFiniteSet(BytesDe(1..(s - 1))) /\ Base[s] = Cardinality(BytesDe(1..(s - 1)))
<1>1. 1..(s - 1) \subseteq Sticks /\ IsFiniteSet(1..(s - 1))
  <2>1. s - 1 \in Int /\ 1..(s - 1) \subseteq Sticks
    BY TamanioTipo
  <2>. QED  BY <2>1, FS_Interval
<1>. QED  BY <1>1, BytesFinitos, FS_CardinalityType DEF Base

LEMMA BasePrimera == Base[1] = 0
<1>1. 1 \in 1..(Len(Tamanios) + 1) /\ BytesDe(1..(1 - 1)) = {}
  BY TamanioTipo DEF BytesDe
<1>. QED  BY <1>1, BaseTipo, FS_EmptySet

LEMMA BaseSiguiente ==
  ASSUME NEW s \in Sticks
  PROVE  Base[s + 1] = Base[s] + Tamanios[s]
<1>. DEFINE A == BytesDe(1..(s - 1))
            B == {s} \X (1..Tamanios[s])
<1>1. s \in 1..(Len(Tamanios) + 1) /\ s + 1 \in 1..(Len(Tamanios) + 1) /\ Tamanios[s] \in Nat
  BY TamanioTipo
<1>2. IsFiniteSet(A) /\ Base[s] = Cardinality(A)
  BY <1>1, BaseTipo
<1>3. IsFiniteSet(B) /\ Cardinality(B) = Tamanios[s]
  BY <1>1, StickFinito
<1>4. BytesDe(1..((s + 1) - 1)) = A \cup B
  <2>1. 1..((s + 1) - 1) = (1..(s - 1)) \cup {s}
    BY TamanioTipo
  <2>. QED  BY <2>1 DEF BytesDe
<1>5. A \cap B = {}
  <2>1. \A b \in A : b[1] < s
    BY TamanioTipo DEF BytesDe
  <2>2. \A b \in B : b[1] = s
    OBVIOUS
  <2>. HIDE DEF A, B
  <2>. QED  BY <2>1, <2>2, TamanioTipo
<1>6. Cardinality(A \cup B) = Cardinality(A) + Cardinality(B)
  <2>. HIDE DEF A, B
  <2>1. Cardinality(A \cap B) = 0
    BY <1>5, FS_EmptySet
  <2>2. Cardinality(A) \in Nat /\ Cardinality(B) \in Nat
    BY <1>2, <1>3, FS_CardinalityType
  <2>3. Cardinality(A \cup B) = Cardinality(A) + Cardinality(B) - Cardinality(A \cap B)
    BY <1>2, <1>3, FS_Union, Zenon
  <2>. QED  BY <2>1, <2>2, <2>3
<1>7. Base[s + 1] = Cardinality(BytesDe(1..((s + 1) - 1)))
  BY <1>1, BaseTipo
<1>. QED  BY <1>2, <1>3, <1>4, <1>6, <1>7

LEMMA BaseMonotona ==
  ASSUME NEW s \in 1..(Len(Tamanios) + 1), NEW t \in s..(Len(Tamanios) + 1)
  PROVE  Base[s] <= Base[t]
<1>1. t \in 1..(Len(Tamanios) + 1)
  BY TamanioTipo
<1>2. BytesDe(1..(s - 1)) \subseteq BytesDe(1..(t - 1))
  BY TamanioTipo DEF BytesDe
<1>. QED  BY <1>1, <1>2, BaseTipo, FS_Subset

\* A stick is below the end of memory, and every address has its stick.
LEMMA FinDelStick ==
  ASSUME NEW s \in Sticks
  PROVE  /\ Base[s] \in Nat /\ Tamanios[s] \in Nat \ {0} /\ Total \in Nat
         /\ Base[s] + Tamanios[s] <= Total
<1>1. s \in 1..(Len(Tamanios) + 1) /\ s + 1 \in 1..(Len(Tamanios) + 1)
      /\ Len(Tamanios) + 1 \in (s + 1)..(Len(Tamanios) + 1)
  BY TamanioTipo
<1>2. Base[s + 1] <= Base[Len(Tamanios) + 1]
  BY <1>1, BaseMonotona
<1>3. Len(Tamanios) + 1 \in 1..(Len(Tamanios) + 1)
  BY TamanioTipo
<1>. QED  BY <1>1, <1>2, <1>3, BaseTipo, BaseSiguiente, TamanioTipo DEF Total

LEMMA TotalTipo == Total \in Nat /\ Total < Modulo /\ Modulo \in Nat
<1>1. Len(Tamanios) + 1 \in 1..(Len(Tamanios) + 1)
  BY TamanioTipo
<1>. QED  BY <1>1, BaseTipo, MmuOK DEF Total

LEMMA HayStick ==
  ASSUME NEW n \in 0..Len(Tamanios), NEW d \in Nat, d < Base[n + 1]
  PROVE  \E s \in 1..n : d \in Base[s]..(Base[s] + Tamanios[s] - 1)
<1>. DEFINE S == {s \in 1..(n + 1) : d < Base[s]}
            m == Min(S)
<1>0. n \in Nat /\ n + 1 \in S /\ S \subseteq Nat /\ S # {}
  BY TamanioTipo
<1>1. m \in S /\ \A s \in S : m <= s
  <2>. HIDE DEF S
  <2>. QED  BY <1>0, MinEsElemento
<1>. HIDE DEF m
<1>2. m # 1
  BY <1>1, BasePrimera
<1>3. m - 1 \in 1..n /\ m - 1 \in Sticks /\ m - 1 \notin S
  BY <1>0, <1>1, <1>2, TamanioTipo
<1>4. Base[(m - 1) + 1] = Base[m - 1] + Tamanios[m - 1] /\ (m - 1) + 1 = m
  BY <1>0, <1>1, <1>3, BaseSiguiente
<1>5. Base[m - 1] \in Nat /\ Tamanios[m - 1] \in Nat /\ ~ (d < Base[m - 1])
  BY <1>0, <1>3, FinDelStick
<1>6. d \in Base[m - 1]..(Base[m - 1] + Tamanios[m - 1] - 1)
  BY <1>1, <1>4, <1>5
<1>. QED  BY <1>3, <1>6

-----------------------------------------------------------------------------
(* The part of the invariant that does not depend on how large memory is *)

PuntosCpu == {"libre", "topologia", "fetch", "leer", "escribir", "hecho", "fallo"}

CpuT == [en : PuntosCpu, pid : Pids \cup {0}, sticks : SUBSET Sticks, segs : Seq(Segmento),
         acceso : Operaciones, destino : Palabra, buffer : Seq(Valores), dir : Palabra,
         restante : Palabra, reintentado : BOOLEAN, negado : BOOLEAN]

InvTipos ==
  /\ conectados \in AlInicio..Len(Tamanios)
  /\ tabla \in [Pids -> Seq(Segmento)]
  /\ bytes \in [Direcciones -> Valores]
  /\ cpu \in [Cpus -> CpuT]
  /\ \A c \in Cpus : (cpu[c].en = "libre" <=> cpu[c].pid = 0) /\ cpu[c].sticks \subseteq 1..conectados

\* The segments that Kernel Memory has: their numbers, and where they are.
InvSegmentos ==
  /\ \A p \in Pids : IsInjective(tabla[p])
  /\ \A p \in Pids : \A s, t \in Range(tabla[p]) : s.id = t.id => s = t
  /\ \A p \in Pids : \A s \in Range(tabla[p]) : s.base + s.tam <= Base[conectados + 1]
  /\ \A p, q \in Pids : \A s \in Range(tabla[p]), t \in Range(tabla[q]) :
       p # q \/ s # t => Rango(s) \cap Rango(t) = {}

\* How much of the access is in the buffer.
InvBuffer ==
  \A c \in Cpus :
    /\ cpu[c].en \in {"leer", "escribir"} => cpu[c].restante <= cpu[c].acceso.tam
    /\ cpu[c].en = "leer" => Len(cpu[c].buffer) = cpu[c].acceso.tam - cpu[c].restante
    /\ cpu[c].en = "escribir" => Len(cpu[c].buffer) = cpu[c].acceso.tam

\* A process is on one CPU, which has its table as it is.
InvRafagas ==
  /\ \A c, d \in Cpus : cpu[c].pid = cpu[d].pid /\ c # d => cpu[c].pid = 0
  /\ \A c \in Cpus : cpu[c].en \notin {"libre", "topologia"} => cpu[c].segs = tabla[cpu[c].pid]

Inv == InvTipos /\ InvSegmentos /\ InvBuffer /\ InvRafagas

LEMMA SumaTipo ==
  ASSUME NEW a \in Nat, NEW b \in Nat
  PROVE  /\ Suma(a, b) \in Palabra
         /\ a + b < Modulo => Suma(a, b) = a + b
<1>1. Modulo \in Nat \ {0}
  BY TotalTipo
<1>2. a + b \in Nat
  OBVIOUS
<1>. QED  BY <1>1, <1>2 DEF Suma, Palabra

\* Where a logical address is in its segment.
LEMMA DesplazamientoTipo ==
  ASSUME NEW x \in Palabra
  PROVE  x % TamMaxSegmento \in 0..(TamMaxSegmento - 1) /\ TamMaxSegmento \in Nat \ {0}
BY MmuOK, TotalTipo DEF Palabra

LEMMA SegmentoTipo ==
  ASSUME NEW s \in Segmento
  PROVE  s.base \in 0..(Total - 1) /\ s.tam \in 1..TamMaxSegmento
BY DEF Segmento, Direcciones

\* mmu_traducir fails, or finds the segment with that number.
LEMMA TraducirEs ==
  ASSUME NEW segs \in Seq(Segmento), NEW x \in Palabra, NEW n \in Palabra
  PROVE  /\ MmuTraducir(segs, x, n) \in Palabra
         /\ MmuTraducir(segs, x, n) # FALLO =>
              \E i \in DOMAIN segs : /\ segs[i].id = x \div TamMaxSegmento
                                     /\ Suma(x % TamMaxSegmento, n) <= segs[i].tam
                                     /\ MmuTraducir(segs, x, n) = Suma(segs[i].base, x % TamMaxSegmento)
         /\ MmuTraducir(segs, x, n) = FALLO =>
              \A i \in DOMAIN segs : segs[i].id = x \div TamMaxSegmento =>
                \E j \in DOMAIN segs : /\ segs[j].id = x \div TamMaxSegmento
                                       /\ \/ Suma(x % TamMaxSegmento, n) > segs[j].tam
                                          \/ Suma(segs[j].base, x % TamMaxSegmento) = FALLO
<1>. DEFINE I == {i \in 1..Len(segs) : segs[i].id = x \div TamMaxSegmento}
<1>1. I \subseteq Nat /\ DOMAIN segs = 1..Len(segs) /\ FALLO \in Palabra
  BY TotalTipo DEF FALLO, Palabra
<1>2. CASE I = {}
  <2>1. MmuTraducir(segs, x, n) = FALLO
    BY <1>2 DEF MmuTraducir, SelectInSeq
  <2>. QED  BY <1>1, <1>2, <2>1
<1>3. CASE I # {}
  <2>1. PICK m \in I : m = Min(I)
    <3>. HIDE DEF I
    <3>. QED  BY <1>1, <1>3, MinEsElemento
  <2>2. m \in DOMAIN segs /\ m # 0 /\ segs[m].id = x \div TamMaxSegmento /\ segs[m] \in Segmento
    BY <1>1, <2>1
  <2>3. MmuTraducir(segs, x, n) = IF Suma(x % TamMaxSegmento, n) > segs[m].tam THEN FALLO
                                  ELSE Suma(segs[m].base, x % TamMaxSegmento)
    BY <1>3, <2>1, <2>2 DEF MmuTraducir, SelectInSeq
  <2>4. segs[m].base \in Nat /\ x % TamMaxSegmento \in Nat
    BY <2>2, SegmentoTipo, DesplazamientoTipo, TotalTipo
  <2>5. Suma(segs[m].base, x % TamMaxSegmento) \in Palabra
    BY <2>4, SumaTipo
  <2>6. Suma(x % TamMaxSegmento, n) \in Palabra /\ segs[m].tam \in Nat
    <3>1. n \in Nat
      BY TotalTipo DEF Palabra
    <3>2. segs[m].tam \in Nat
      BY <2>2, SegmentoTipo, MmuOK, SMTT(40)
    <3>. QED  BY <2>4, <3>1, <3>2, SumaTipo
  <2>. QED  BY <1>1, <2>2, <2>3, <2>5, <2>6 DEF Palabra
<1>. QED  BY <1>2, <1>3

\* A step of a CPU changes only its own.
LEMMA SoloLaSuya ==
  ASSUME InvTipos, NEW c \in Cpus, PasoCpu(c)
  PROVE  /\ \A d \in Cpus : d # c => cpu'[d] = cpu[d]
         /\ cpu' = [cpu EXCEPT ![c] = cpu'[c]]
         /\ conectados' = conectados
<1>1. \E r : cpu' = [cpu EXCEPT ![c] = r]
  BY ZenonT(60) DEF PasoCpu, Despachar, SolicitarContexto, Ejecutar, OperarFisico, PasoEnStick, Reintentar, Completar,
         DejarCpu, SegFault
<1>2. cpu = [d \in Cpus |-> cpu[d]]
  BY DEF InvTipos
<1>3. conectados' = conectados
  BY DEF PasoCpu, Despachar, SolicitarContexto, Ejecutar, OperarFisico, Reintentar, Completar, DejarCpu, SegFault
<1>. QED  BY <1>1, <1>2, <1>3

\* With a new record of the right type the types hold.
LEMMA TiposCpu ==
  ASSUME InvTipos, NEW c \in Cpus, PasoCpu(c), cpu'[c] \in CpuT,
         cpu'[c].en = "libre" <=> cpu'[c].pid = 0, cpu'[c].sticks \subseteq 1..conectados,
         tabla' \in [Pids -> Seq(Segmento)], bytes' \in [Direcciones -> Valores]
  PROVE  InvTipos'
BY SoloLaSuya DEF InvTipos

LEMMA ConTopologiaTipo ==
  ASSUME InvTipos, NEW c \in Cpus, NEW S \in Rechazos(cpu[c])
  PROVE  LET r == ConTopologia(cpu[c], S) IN
         /\ r \in CpuT /\ r.sticks \subseteq 1..conectados
         /\ r.en = cpu[c].en /\ r.pid = cpu[c].pid /\ r.segs = cpu[c].segs /\ r.acceso = cpu[c].acceso
         /\ r.destino = cpu[c].destino /\ r.buffer = cpu[c].buffer /\ r.dir = cpu[c].dir
         /\ r.restante = cpu[c].restante /\ r.reintentado = cpu[c].reintentado
         /\ r.sticks = cpu[c].sticks \cup ((1..conectados) \ S) /\ (r.negado <=> S # {})
<1>1. 1..conectados \subseteq Sticks
  BY TamanioTipo, MmuOK DEF InvTipos
<1>2. cpu[c] \in CpuT /\ cpu[c].sticks \subseteq 1..conectados
  BY DEF InvTipos
<1>. QED  BY <1>1, <1>2 DEF ConTopologia, Rechazos, CpuT

LEMMA LibreTipo ==
  ASSUME InvTipos, NEW c \in Cpus
  PROVE  [CpuLibre EXCEPT !.sticks = cpu[c].sticks] \in CpuT
<1>1. SinAcceso \in Operaciones /\ 0 \in Palabra
  BY TotalTipo DEF SinAcceso, Operaciones, Palabra
<1>2. cpu[c].sticks \in SUBSET Sticks
  BY DEF InvTipos, CpuT
<1>3. CpuLibre.en \in PuntosCpu
  BY DEF CpuLibre, PuntosCpu
<1>4. <<>> \in Seq(Segmento) /\ <<>> \in Seq(Valores)
  OBVIOUS
<1>. QED  BY <1>1, <1>2, <1>3, <1>4 DEF CpuLibre, CpuT

LEMMA DespacharEs ==
  ASSUME Inv, NEW c \in Cpus, NEW p \in Pids, Despachar(c, p)
  PROVE  /\ InvTipos' /\ cpu'[c].en = "topologia" /\ cpu'[c].pid = p
         /\ ~ EnRafaga(p) /\ tabla' = tabla /\ bytes' = bytes
<1>t. InvTipos
  BY DEF Inv
<1>1. PICK S \in Rechazos(cpu[c]) :
        cpu' = [cpu EXCEPT ![c] = [ConTopologia(cpu[c], S) EXCEPT !.en = "topologia", !.pid = p]]
  BY DEF Despachar
<1>2. cpu'[c] = [ConTopologia(cpu[c], S) EXCEPT !.en = "topologia", !.pid = p]
  BY <1>t, <1>1 DEF InvTipos
<1>. DEFINE r == ConTopologia(cpu[c], S)
<1>3. r \in CpuT /\ r.sticks \subseteq 1..conectados
  BY <1>t, ConTopologiaTipo
<1>4. cpu'[c] = [r EXCEPT !.en = "topologia", !.pid = p] /\ "topologia" \in PuntosCpu
  BY <1>2 DEF PuntosCpu
<1>. HIDE DEF r
<1>5. cpu'[c] \in CpuT /\ cpu'[c].en = "topologia" /\ cpu'[c].pid = p /\ cpu'[c].sticks = r.sticks
  BY <1>3, <1>4 DEF CpuT
<1>6. InvTipos'
  BY <1>t, <1>3, <1>5, TiposCpu, MmuOK DEF Despachar, PasoCpu, InvTipos
<1>. QED  BY <1>5, <1>6 DEF Despachar

LEMMA TiposContexto ==
  ASSUME Inv, NEW c \in Cpus, SolicitarContexto(c)
  PROVE  InvTipos'
<1>t. InvTipos /\ cpu[c] \in CpuT
  BY DEF Inv, InvTipos
<1>1. cpu'[c] = [cpu[c] EXCEPT !.en = "fetch", !.negado = FALSE, !.segs = tabla[cpu[c].pid]]
  BY <1>t DEF InvTipos, SolicitarContexto
<1>2. tabla[cpu[c].pid] \in Seq(Segmento) /\ cpu[c].pid # 0
  BY <1>t DEF InvTipos, SolicitarContexto, CpuT
<1>3. /\ cpu'[c] \in CpuT /\ cpu'[c].en = "fetch" /\ cpu'[c].pid = cpu[c].pid
      /\ cpu'[c].sticks = cpu[c].sticks
  BY <1>t, <1>1, <1>2 DEF CpuT, PuntosCpu
<1>. QED  BY <1>t, <1>2, <1>3, TiposCpu DEF SolicitarContexto, PasoCpu, InvTipos

\* What the start of an access leaves in the CPU.
Empieza(c, a, ori, dst) ==
  LET r == cpu[c]
      s == cpu'[c]
      falla == (Lee(a) /\ ori = FALLO) \/ (Escribe(a) /\ dst = FALLO)
  IN  /\ s.pid = r.pid /\ s.sticks = r.sticks /\ s.segs = r.segs /\ s.acceso = a
      /\ s.reintentado = FALSE /\ s.negado = FALSE
      /\ \/ falla /\ s.en = "fallo"
         \/ ~ falla /\ a.op = "IO" /\ s.en = "hecho"
         \/ /\ ~ falla /\ a.op \in {"MOV_IN", "COPY_MEM"} /\ s.en = "leer"
            /\ s.dir = ori /\ s.restante = a.tam /\ s.destino = dst /\ s.buffer = <<>>
         \/ /\ ~ falla /\ a.op = "MOV_OUT" /\ s.en = "escribir"
            /\ s.dir = dst /\ s.restante = a.tam /\ Len(s.buffer) = a.tam

LEMMA EjecutarEs ==
  ASSUME Inv, NEW c \in Cpus, Ejecutar(c)
  PROVE  /\ cpu'[c] \in CpuT
         /\ \E a \in Accesos[c] : a \in Operaciones
              /\ Empieza(c, a, MmuTraducir(cpu[c].segs, a.ori, a.tam), MmuTraducir(cpu[c].segs, a.dst, a.tam))
<1>t. InvTipos /\ cpu[c] \in CpuT /\ cpu = [d \in Cpus |-> cpu[d]]
  BY DEF Inv, InvTipos
<1>. DEFINE Ori(a) == MmuTraducir(cpu[c].segs, a.ori, a.tam)
            Dst(a) == MmuTraducir(cpu[c].segs, a.dst, a.tam)
            Falla(a) == (Lee(a) /\ Ori(a) = FALLO) \/ (Escribe(a) /\ Dst(a) = FALLO)
            R(a) == [cpu[c] EXCEPT !.acceso = a, !.destino = Dst(a), !.buffer = <<>>,
                                   !.restante = 0, !.negado = FALSE]
<1>1. PICK a \in Accesos[c] :
        \/ Falla(a) /\ cpu' = [cpu EXCEPT ![c] = Terminada(R(a), "fallo")]
        \/ ~ Falla(a) /\ a.op = "IO" /\ cpu' = [cpu EXCEPT ![c] = Terminada(R(a), "hecho")]
        \/ ~ Falla(a) /\ a.op \in {"MOV_IN", "COPY_MEM"} /\ cpu' = [cpu EXCEPT ![c] = Operar(R(a), "leer", Ori(a), a.tam)]
        \/ /\ ~ Falla(a) /\ a.op = "MOV_OUT"
           /\ \E v \in [1..a.tam -> Valores] :
                cpu' = [cpu EXCEPT ![c] = [Operar(R(a), "escribir", Dst(a), a.tam) EXCEPT !.buffer = v]]
  BY DEF Ejecutar
<1>2. a \in Operaciones
  BY MmuOK
<1>. DEFINE ori == Ori(a)
            dst == Dst(a)
            falla == Falla(a)
            r == R(a)
<1>3. ori \in Palabra /\ dst \in Palabra /\ a.tam \in Palabra
  <2>1. cpu[c].segs \in Seq(Segmento) /\ a.ori \in Palabra /\ a.dst \in Palabra /\ a.tam \in Palabra
    BY <1>t, <1>2 DEF CpuT, Operaciones
  <2>. QED  BY <2>1, TraducirEs
<1>4. 0 \in Palabra /\ <<>> \in Seq(Valores) /\ a.tam \in Nat
  BY <1>3, TotalTipo DEF Palabra
<1>. HIDE DEF Ori, Dst
<1>5. /\ r \in CpuT /\ r.pid = cpu[c].pid /\ r.sticks = cpu[c].sticks /\ r.segs = cpu[c].segs
      /\ r.acceso = a /\ r.negado = FALSE /\ r.destino = dst /\ r.buffer = <<>>
  BY <1>t, <1>2, <1>3, <1>4 DEF CpuT
<1>. HIDE DEF R
<1>p. /\ "fallo" \in PuntosCpu /\ "hecho" \in PuntosCpu /\ "leer" \in PuntosCpu /\ "escribir" \in PuntosCpu
  BY DEF PuntosCpu
<1>6. CASE falla /\ cpu' = [cpu EXCEPT ![c] = Terminada(r, "fallo")]
  <2>1. cpu'[c] = Terminada(r, "fallo")
    BY <1>t, <1>6
  <2>2. /\ cpu'[c] \in CpuT /\ cpu'[c].en = "fallo" /\ cpu'[c].pid = r.pid /\ cpu'[c].sticks = r.sticks
        /\ cpu'[c].segs = r.segs /\ cpu'[c].acceso = r.acceso /\ cpu'[c].reintentado = FALSE
        /\ cpu'[c].negado = r.negado
    BY <1>4, <1>5, <1>p, <2>1 DEF CpuT, Terminada
  <2>3. Empieza(c, a, ori, dst)
    BY <1>5, <1>6, <2>2 DEF Empieza
  <2>. QED  BY <1>2, <2>2, <2>3 DEF Ori, Dst
<1>7. CASE ~ falla /\ a.op = "IO" /\ cpu' = [cpu EXCEPT ![c] = Terminada(r, "hecho")]
  <2>1. cpu'[c] = Terminada(r, "hecho")
    BY <1>t, <1>7
  <2>2. /\ cpu'[c] \in CpuT /\ cpu'[c].en = "hecho" /\ cpu'[c].pid = r.pid /\ cpu'[c].sticks = r.sticks
        /\ cpu'[c].segs = r.segs /\ cpu'[c].acceso = r.acceso /\ cpu'[c].reintentado = FALSE
        /\ cpu'[c].negado = r.negado
    BY <1>4, <1>5, <1>p, <2>1 DEF CpuT, Terminada
  <2>3. Empieza(c, a, ori, dst)
    BY <1>5, <1>7, <2>2 DEF Empieza
  <2>. QED  BY <1>2, <2>2, <2>3 DEF Ori, Dst
<1>8. CASE ~ falla /\ a.op \in {"MOV_IN", "COPY_MEM"} /\ cpu' = [cpu EXCEPT ![c] = Operar(r, "leer", ori, a.tam)]
  <2>1. cpu'[c] = Operar(r, "leer", ori, a.tam)
    BY <1>t, <1>8
  <2>2. /\ cpu'[c] \in CpuT /\ cpu'[c].en = "leer" /\ cpu'[c].pid = r.pid /\ cpu'[c].sticks = r.sticks
        /\ cpu'[c].segs = r.segs /\ cpu'[c].acceso = r.acceso /\ cpu'[c].reintentado = FALSE
        /\ cpu'[c].negado = r.negado /\ cpu'[c].dir = ori /\ cpu'[c].restante = a.tam
        /\ cpu'[c].destino = r.destino /\ cpu'[c].buffer = r.buffer
    BY <1>3, <1>5, <1>p, <2>1 DEF CpuT, Operar
  <2>3. Empieza(c, a, ori, dst)
    BY <1>5, <1>8, <2>2 DEF Empieza
  <2>. QED  BY <1>2, <2>2, <2>3 DEF Ori, Dst
<1>9. CASE /\ ~ falla /\ a.op = "MOV_OUT"
           /\ \E v \in [1..a.tam -> Valores] :
                cpu' = [cpu EXCEPT ![c] = [Operar(r, "escribir", dst, a.tam) EXCEPT !.buffer = v]]
  <2>1. PICK v \in [1..a.tam -> Valores] : cpu' = [cpu EXCEPT ![c] = [Operar(r, "escribir", dst, a.tam) EXCEPT !.buffer = v]]
    BY <1>9
  <2>2. cpu'[c] = [Operar(r, "escribir", dst, a.tam) EXCEPT !.buffer = v]
    BY <1>t, <2>1
  <2>3. v \in Seq(Valores) /\ Len(v) = a.tam
    BY <1>4
  <2>. DEFINE s == Operar(r, "escribir", dst, a.tam)
  <2>4. /\ s \in CpuT /\ s.en = "escribir" /\ s.pid = r.pid /\ s.sticks = r.sticks /\ s.segs = r.segs
        /\ s.acceso = r.acceso /\ s.dir = dst /\ s.restante = a.tam
        /\ s.reintentado = FALSE /\ s.negado = r.negado
    BY <1>3, <1>5, <1>p DEF CpuT, Operar
  <2>. HIDE DEF s
  <2>5. cpu'[c] = [s EXCEPT !.buffer = v]
    BY <2>2 DEF s
  <2>6. /\ cpu'[c] \in CpuT /\ cpu'[c].en = "escribir" /\ cpu'[c].pid = r.pid /\ cpu'[c].sticks = r.sticks
        /\ cpu'[c].segs = r.segs /\ cpu'[c].acceso = r.acceso /\ cpu'[c].reintentado = FALSE
        /\ cpu'[c].negado = r.negado /\ cpu'[c].dir = dst /\ cpu'[c].restante = a.tam /\ cpu'[c].buffer = v
    BY <2>3, <2>4, <2>5 DEF CpuT
  <2>7. Empieza(c, a, ori, dst)
    BY <1>5, <1>9, <2>3, <2>6 DEF Empieza
  <2>. QED  BY <1>2, <2>6, <2>7 DEF Ori, Dst
<1>. QED  BY <1>1, <1>6, <1>7, <1>8, <1>9

\* The tramo of a turn: it is in its stick, and something of the access.
LEMMA TramoEs ==
  ASSUME NEW r \in CpuT, r.restante > 0, NEW s \in ParaDireccion(r.sticks, r.dir)
  PROVE  /\ s \in Sticks /\ r.dir \in Nat /\ r.restante \in Nat /\ Base[s] \in Nat
         /\ Tramo(r, s) \in 1..r.restante
         /\ r.dir + Tramo(r, s) <= Total
         /\ RangoValido(s, r.dir - Base[s], Tramo(r, s))
         /\ Suma(r.dir, Tramo(r, s)) = r.dir + Tramo(r, s)
<1>1. s \in Sticks /\ r.dir \in Base[s]..(Base[s] + Tamanios[s] - 1)
  BY DEF ParaDireccion, CpuT
<1>2. /\ Base[s] \in Nat /\ Tamanios[s] \in Nat \ {0} /\ Total \in Nat
      /\ Base[s] + Tamanios[s] <= Total /\ Total < Modulo /\ Modulo \in Nat
  BY <1>1, FinDelStick, TotalTipo
<1>3. r.dir \in Nat /\ r.restante \in Nat
  BY <1>2 DEF CpuT, Palabra
<1>. DEFINE P == {r.restante, Base[s] + Tamanios[s] - r.dir}
<1>4. Base[s] + Tamanios[s] - r.dir \in Nat \ {0}
  BY <1>1, <1>2, <1>3
<1>5. P \subseteq Nat /\ P # {}
  BY <1>3, <1>4
<1>6. Tramo(r, s) \in P /\ \A y \in P : Tramo(r, s) <= y
  <2>. HIDE DEF P
  <2>1. Min(P) \in P /\ \A y \in P : Min(P) <= y
    BY <1>5, MinEsElemento
  <2>2. Tramo(r, s) = Min(P)
    BY DEF Tramo, P
  <2>. QED  BY <2>1, <2>2
<1>7. Tramo(r, s) \in 1..r.restante /\ Tramo(r, s) <= Base[s] + Tamanios[s] - r.dir
  BY <1>3, <1>4, <1>6
<1>8. r.dir + Tramo(r, s) <= Total
  BY <1>2, <1>3, <1>7
<1>9. RangoValido(s, r.dir - Base[s], Tramo(r, s))
  BY <1>1, <1>2, <1>3, <1>7 DEF RangoValido
<1>10. Suma(r.dir, Tramo(r, s)) = r.dir + Tramo(r, s)
  <2>1. Tramo(r, s) \in Nat
    BY <1>3, <1>7
  <2>. QED  BY <1>2, <1>3, <1>8, <2>1, SumaTipo
<1>. QED  BY <1>1, <1>2, <1>3, <1>7, <1>8, <1>9, <1>10

\* What a turn of operar_fisico does, with n bytes.
Turno(c, n) ==
  LET r == cpu[c]
      s == cpu'[c]
  IN  /\ n \in 1..r.restante /\ r.dir + n <= Total
      /\ s.en = r.en /\ s.pid = r.pid /\ s.sticks = r.sticks /\ s.segs = r.segs /\ s.acceso = r.acceso
      /\ s.destino = r.destino /\ s.reintentado = r.reintentado /\ s.negado = r.negado
      /\ s.dir = r.dir + n /\ s.restante = r.restante - n
      /\ \/ /\ r.en = "leer" /\ bytes' = bytes
            /\ s.buffer = r.buffer \o [i \in 1..n |-> bytes[r.dir + i - 1]]
         \/ /\ r.en = "escribir" /\ s.buffer = r.buffer
            /\ bytes' = [d \in Direcciones |->
                           IF d \in r.dir..(r.dir + n - 1) THEN r.buffer[Cursor(r) + d - r.dir + 1] ELSE bytes[d]]

LEMMA OperarFisicoEs ==
  ASSUME Inv, NEW c \in Cpus, OperarFisico(c)
  PROVE  /\ cpu'[c] \in CpuT /\ bytes' \in [Direcciones -> Valores]
         /\ cpu[c].en \in {"leer", "escribir"} /\ cpu[c].restante > 0
         /\ \E n \in 1..cpu[c].restante : Turno(c, n)
<1>t. InvTipos /\ cpu[c] \in CpuT /\ cpu = [d \in Cpus |-> cpu[d]]
  BY DEF Inv, InvTipos
<1>1. cpu[c].en \in {"leer", "escribir"} /\ cpu[c].restante > 0
  BY DEF OperarFisico
<1>2. PICK s \in ParaDireccion(cpu[c].sticks, cpu[c].dir) : PasoEnStick(c, s)
  BY DEF OperarFisico
<1>. DEFINE r == cpu[c]
            n == Tramo(r, s)
            sigue == Avanzar(r, n)
            leidos == [i \in 1..n |-> bytes[r.dir + i - 1]]
<1>3. /\ r.dir \in Nat /\ r.restante \in Nat /\ n \in 1..r.restante /\ r.dir + n <= Total
      /\ RangoValido(s, r.dir - Base[s], n) /\ Suma(r.dir, n) = r.dir + n
  BY <1>t, <1>1, <1>2, TramoEs
<1>4. \/ /\ r.en = "leer" /\ bytes' = bytes
         /\ cpu' = [cpu EXCEPT ![c] = [sigue EXCEPT !.buffer = @ \o leidos]]
      \/ /\ r.en = "escribir" /\ cpu' = [cpu EXCEPT ![c] = sigue]
         /\ bytes' = [d \in Direcciones |->
                        IF d \in r.dir..(r.dir + n - 1) THEN r.buffer[Cursor(r) + d - r.dir + 1] ELSE bytes[d]]
  BY <1>2, <1>3 DEF PasoEnStick
<1>. HIDE DEF n
<1>5. n \in Nat /\ r.dir + n \in Palabra /\ r.restante - n \in Palabra /\ r.restante \in Palabra
  BY <1>t, <1>3, TotalTipo DEF Palabra, CpuT
<1>6. sigue = [r EXCEPT !.dir = r.dir + n, !.restante = r.restante - n]
  BY <1>t, <1>3 DEF Avanzar, CpuT
<1>7. /\ sigue \in CpuT /\ sigue.en = r.en /\ sigue.pid = r.pid /\ sigue.sticks = r.sticks
      /\ sigue.segs = r.segs /\ sigue.acceso = r.acceso /\ sigue.destino = r.destino
      /\ sigue.buffer = r.buffer /\ sigue.dir = r.dir + n /\ sigue.restante = r.restante - n
      /\ sigue.reintentado = r.reintentado /\ sigue.negado = r.negado
  BY <1>t, <1>5, <1>6 DEF CpuT
<1>8. r.buffer \in Seq(Valores) /\ bytes \in [Direcciones -> Valores]
  BY <1>t DEF CpuT, InvTipos
<1>. HIDE DEF sigue
<1>9. CASE /\ r.en = "leer" /\ bytes' = bytes
           /\ cpu' = [cpu EXCEPT ![c] = [sigue EXCEPT !.buffer = @ \o leidos]]
  <2>1. leidos \in Seq(Valores)
    <3>1. \A i \in 1..n : r.dir + i - 1 \in Direcciones
      BY <1>3, <1>5, TotalTipo DEF Direcciones
    <3>. QED  BY <1>5, <1>8, <3>1
  <2>. HIDE DEF leidos
  <2>2. r.buffer \o leidos \in Seq(Valores)
    BY <1>8, <2>1
  <2>3. cpu'[c] = [sigue EXCEPT !.buffer = r.buffer \o leidos]
    BY <1>t, <1>7, <1>9
  <2>4. /\ cpu'[c] \in CpuT /\ cpu'[c].en = r.en /\ cpu'[c].pid = r.pid /\ cpu'[c].sticks = r.sticks
        /\ cpu'[c].segs = r.segs /\ cpu'[c].acceso = r.acceso /\ cpu'[c].destino = r.destino
        /\ cpu'[c].dir = r.dir + n /\ cpu'[c].restante = r.restante - n
        /\ cpu'[c].reintentado = r.reintentado /\ cpu'[c].negado = r.negado
        /\ cpu'[c].buffer = r.buffer \o leidos
    BY <1>7, <2>2, <2>3 DEF CpuT
  <2>5. Turno(c, n)
    BY <1>3, <1>9, <2>4 DEF Turno, leidos
  <2>. QED  BY <1>1, <1>3, <1>8, <1>9, <2>4, <2>5
<1>10. CASE /\ r.en = "escribir" /\ cpu' = [cpu EXCEPT ![c] = sigue]
            /\ bytes' = [d \in Direcciones |->
                           IF d \in r.dir..(r.dir + n - 1) THEN r.buffer[Cursor(r) + d - r.dir + 1] ELSE bytes[d]]
  <2>1. cpu'[c] = sigue
    BY <1>t, <1>10
  <2>2. Turno(c, n)
    BY <1>3, <1>7, <1>10, <2>1 DEF Turno
  <2>3. \A d \in r.dir..(r.dir + n - 1) : r.buffer[Cursor(r) + d - r.dir + 1] \in Valores
    <3>1. Len(r.buffer) = r.acceso.tam /\ r.restante <= r.acceso.tam
      BY <1>10 DEF Inv, InvBuffer
    <3>2. r.acceso.tam \in Nat
      BY <1>t, TotalTipo DEF CpuT, Operaciones, Palabra
    <3>3. \A d \in r.dir..(r.dir + n - 1) : Cursor(r) + d - r.dir + 1 \in 1..Len(r.buffer)
      <4>1. TAKE d \in r.dir..(r.dir + n - 1)
      <4>2. PICK t, k, D \in Nat : t = r.acceso.tam /\ k = r.restante /\ D = r.dir
        BY <1>3, <3>2
      <4>3. k <= t /\ n <= k /\ d \in D..(D + n - 1)
        BY <1>3, <3>1, <4>2
      <4>4. t - k + d - D + 1 \in 1..t
        BY <1>5, <4>3
      <4>. QED  BY <3>1, <4>2, <4>4 DEF Cursor
    <3>. QED  BY <1>8, <3>3
  <2>4. bytes' \in [Direcciones -> Valores]
    BY <1>8, <1>10, <2>3
  <2>. QED  BY <1>1, <1>3, <1>7, <2>1, <2>2, <2>4
<1>. QED  BY <1>4, <1>9, <1>10

LEMMA TiposOperarFisico ==
  ASSUME Inv, NEW c \in Cpus, OperarFisico(c)
  PROVE  InvTipos'
<1>t. InvTipos /\ cpu[c] \in CpuT
  BY DEF Inv, InvTipos
<1>1. PICK n \in 1..cpu[c].restante : Turno(c, n)
  BY OperarFisicoEs
<1>2. cpu'[c].en = cpu[c].en /\ cpu'[c].pid = cpu[c].pid /\ cpu'[c].sticks = cpu[c].sticks
  BY <1>1 DEF Turno
<1>3. tabla' \in [Pids -> Seq(Segmento)]
  BY <1>t DEF OperarFisico, InvTipos
<1>. QED  BY <1>t, <1>2, <1>3, OperarFisicoEs, TiposCpu DEF PasoCpu, InvTipos

LEMMA BufferOperarFisico ==
  ASSUME Inv, NEW c \in Cpus, OperarFisico(c)
  PROVE  /\ cpu'[c].restante <= cpu'[c].acceso.tam
         /\ cpu'[c].en = "leer" => Len(cpu'[c].buffer) = cpu'[c].acceso.tam - cpu'[c].restante
         /\ cpu'[c].en = "escribir" => Len(cpu'[c].buffer) = cpu'[c].acceso.tam
<1>t. cpu[c] \in CpuT
  BY DEF Inv, InvTipos
<1>1. PICK n \in 1..cpu[c].restante : Turno(c, n)
  BY OperarFisicoEs
<1>. DEFINE r == cpu[c]
            leidos == [i \in 1..n |-> bytes[r.dir + i - 1]]
<1>2. r.restante \in Nat /\ r.acceso.tam \in Nat /\ r.buffer \in Seq(Valores)
  BY <1>t, TotalTipo DEF CpuT, Palabra, Operaciones
<1>3. n \in Nat /\ n <= r.restante
  BY <1>2
<1>4. /\ r.restante <= r.acceso.tam
      /\ r.en = "leer" => Len(r.buffer) = r.acceso.tam - r.restante
      /\ r.en = "escribir" => Len(r.buffer) = r.acceso.tam
  BY OperarFisicoEs DEF Inv, InvBuffer
<1>5. cpu'[c].restante = r.restante - n /\ cpu'[c].acceso = r.acceso /\ cpu'[c].en = r.en
  BY <1>1 DEF Turno
<1>6. r.en = "leer" => Len(cpu'[c].buffer) = Len(r.buffer) + n
  <2>1. r.en = "leer" => cpu'[c].buffer = r.buffer \o leidos
    BY <1>1 DEF Turno
  <2>2. Len(r.buffer \o leidos) = Len(r.buffer) + n
    BY <1>2, <1>3
  <2>. QED  BY <2>1, <2>2
<1>7. r.en = "escribir" => cpu'[c].buffer = r.buffer
  BY <1>1 DEF Turno
<1>8. PICK t, k \in Nat : t = r.acceso.tam /\ k = r.restante
  BY <1>2
<1>9. k <= t /\ n <= k
  BY <1>3, <1>4, <1>8
<1>10. k - n <= t /\ t - (k - n) = (t - k) + n
  BY <1>3, <1>9
<1>11. cpu'[c].restante = k - n /\ cpu'[c].acceso.tam = t
  BY <1>5, <1>8
<1>12. /\ r.en = "leer" => Len(cpu'[c].buffer) = (t - k) + n
       /\ r.en = "escribir" => Len(cpu'[c].buffer) = t
  BY <1>4, <1>6, <1>7, <1>8
<1>. QED  BY <1>5, <1>10, <1>11, <1>12

LEMMA TiposEjecutar ==
  ASSUME Inv, NEW c \in Cpus, Ejecutar(c)
  PROVE  InvTipos'
<1>t. InvTipos /\ cpu[c] \in CpuT
  BY DEF Inv, InvTipos
<1>1. PICK a \in Accesos[c] :
        Empieza(c, a, MmuTraducir(cpu[c].segs, a.ori, a.tam), MmuTraducir(cpu[c].segs, a.dst, a.tam))
  BY EjecutarEs
<1>2. cpu'[c].en # "libre" /\ cpu'[c].pid = cpu[c].pid /\ cpu'[c].sticks = cpu[c].sticks
  BY <1>1 DEF Empieza
<1>3. cpu[c].en # "libre" /\ tabla' \in [Pids -> Seq(Segmento)] /\ bytes' \in [Direcciones -> Valores]
  BY <1>t DEF Ejecutar, InvTipos
<1>. QED  BY <1>t, <1>2, <1>3, EjecutarEs, TiposCpu DEF PasoCpu, InvTipos

LEMMA BufferEjecutar ==
  ASSUME Inv, NEW c \in Cpus, Ejecutar(c)
  PROVE  /\ cpu'[c].en \in {"leer", "escribir"} => cpu'[c].restante <= cpu'[c].acceso.tam
         /\ cpu'[c].en = "leer" => Len(cpu'[c].buffer) = cpu'[c].acceso.tam - cpu'[c].restante
         /\ cpu'[c].en = "escribir" => Len(cpu'[c].buffer) = cpu'[c].acceso.tam
<1>1. PICK a \in Accesos[c] : a \in Operaciones
        /\ Empieza(c, a, MmuTraducir(cpu[c].segs, a.ori, a.tam), MmuTraducir(cpu[c].segs, a.dst, a.tam))
  BY EjecutarEs
<1>2. a.tam \in Nat
  BY <1>1, TotalTipo DEF Operaciones, Palabra
<1>3. cpu'[c].acceso = a
  BY <1>1 DEF Empieza
<1>4. cpu'[c].en = "leer" => cpu'[c].restante = a.tam /\ cpu'[c].buffer = <<>>
  BY <1>1 DEF Empieza
<1>5. cpu'[c].en = "escribir" => cpu'[c].restante = a.tam /\ Len(cpu'[c].buffer) = a.tam
  BY <1>1 DEF Empieza
<1>6. Len(<<>>) = 0
  OBVIOUS
<1>. QED  BY <1>2, <1>3, <1>4, <1>5, <1>6

\* What a retry does.
LEMMA ReintentarEs ==
  ASSUME Inv, NEW c \in Cpus, Reintentar(c)
  PROVE  /\ cpu'[c] \in CpuT /\ cpu'[c].sticks \subseteq 1..conectados
         /\ cpu[c].en \in {"leer", "escribir"} /\ ParaDireccion(cpu[c].sticks, cpu[c].dir) = {}
         /\ cpu'[c].pid = cpu[c].pid /\ cpu'[c].segs = cpu[c].segs
         /\ cpu'[c].acceso = cpu[c].acceso /\ cpu'[c].buffer = cpu[c].buffer
         /\ cpu'[c].restante = cpu[c].restante
         /\ \/ /\ cpu[c].reintentado /\ cpu'[c].en = "fallo" /\ cpu'[c].negado = cpu[c].negado
            \/ /\ cpu'[c].en = cpu[c].en /\ cpu'[c].dir = cpu[c].dir
               /\ cpu'[c].destino = cpu[c].destino /\ cpu'[c].reintentado = TRUE
               /\ cpu'[c].negado \/ 1..conectados \subseteq cpu'[c].sticks
<1>t. InvTipos /\ cpu[c] \in CpuT /\ cpu = [d \in Cpus |-> cpu[d]] /\ cpu[c].sticks \subseteq 1..conectados
  BY DEF Inv, InvTipos
<1>1. cpu[c].en \in {"leer", "escribir"} /\ ParaDireccion(cpu[c].sticks, cpu[c].dir) = {}
  BY DEF Reintentar
<1>2. CASE cpu[c].reintentado
  <2>1. cpu'[c] = Terminada(cpu[c], "fallo")
    BY <1>t, <1>2 DEF Reintentar
  <2>2. "fallo" \in PuntosCpu /\ 0 \in Palabra
    BY TotalTipo DEF PuntosCpu, Palabra
  <2>3. /\ cpu'[c] \in CpuT /\ cpu'[c].sticks = cpu[c].sticks /\ cpu'[c].pid = cpu[c].pid
        /\ cpu'[c].segs = cpu[c].segs /\ cpu'[c].acceso = cpu[c].acceso /\ cpu'[c].buffer = cpu[c].buffer
        /\ cpu'[c].restante = cpu[c].restante /\ cpu'[c].en = "fallo" /\ cpu'[c].negado = cpu[c].negado
    BY <1>t, <2>1, <2>2 DEF Terminada, CpuT
  <2>. QED  BY <1>t, <1>1, <1>2, <2>3
<1>3. CASE ~ cpu[c].reintentado
  <2>1. PICK S \in Rechazos(cpu[c]) : cpu' = [cpu EXCEPT ![c] = [ConTopologia(cpu[c], S) EXCEPT !.reintentado = TRUE]]
    BY <1>3 DEF Reintentar
  <2>2. cpu'[c] = [ConTopologia(cpu[c], S) EXCEPT !.reintentado = TRUE]
    BY <1>t, <2>1
  <2>. DEFINE r == ConTopologia(cpu[c], S)
  <2>3. /\ r \in CpuT /\ r.sticks \subseteq 1..conectados
        /\ r.en = cpu[c].en /\ r.pid = cpu[c].pid /\ r.segs = cpu[c].segs /\ r.acceso = cpu[c].acceso
        /\ r.destino = cpu[c].destino /\ r.buffer = cpu[c].buffer /\ r.dir = cpu[c].dir
        /\ r.restante = cpu[c].restante
        /\ r.sticks = cpu[c].sticks \cup ((1..conectados) \ S) /\ (r.negado <=> S # {})
    BY <1>t, ConTopologiaTipo
  <2>. HIDE DEF r
  <2>4. cpu'[c] = [r EXCEPT !.reintentado = TRUE]
    BY <2>2 DEF r
  <2>5. /\ cpu'[c] \in CpuT /\ cpu'[c].sticks = r.sticks /\ cpu'[c].en = r.en /\ cpu'[c].pid = r.pid
        /\ cpu'[c].segs = r.segs /\ cpu'[c].acceso = r.acceso /\ cpu'[c].destino = r.destino
        /\ cpu'[c].buffer = r.buffer /\ cpu'[c].dir = r.dir /\ cpu'[c].restante = r.restante
        /\ cpu'[c].negado = r.negado /\ cpu'[c].reintentado = TRUE
    BY <2>3, <2>4 DEF CpuT
  <2>6. cpu'[c].negado \/ 1..conectados \subseteq cpu'[c].sticks
    BY <2>3, <2>5
  <2>. QED  BY <1>1, <2>3, <2>5, <2>6
<1>. QED  BY <1>2, <1>3

\* What the end of operar_fisico does.
LEMMA CompletarEs ==
  ASSUME Inv, NEW c \in Cpus, Completar(c)
  PROVE  /\ cpu'[c] \in CpuT /\ cpu'[c].sticks = cpu[c].sticks
         /\ cpu[c].en \in {"leer", "escribir"} /\ cpu[c].restante = 0
         /\ cpu'[c].pid = cpu[c].pid /\ cpu'[c].segs = cpu[c].segs
         /\ cpu'[c].acceso = cpu[c].acceso /\ cpu'[c].buffer = cpu[c].buffer
         /\ cpu'[c].reintentado = FALSE
         /\ \/ /\ cpu[c].en = "leer" /\ cpu[c].acceso.op = "COPY_MEM" /\ cpu'[c].en = "escribir"
               /\ cpu'[c].dir = cpu[c].destino /\ cpu'[c].restante = cpu[c].acceso.tam
               /\ cpu'[c].destino = cpu[c].destino
            \/ /\ ~ (cpu[c].en = "leer" /\ cpu[c].acceso.op = "COPY_MEM")
               /\ cpu'[c].en = "hecho" /\ cpu'[c].restante = 0
<1>t. InvTipos /\ cpu[c] \in CpuT /\ cpu = [d \in Cpus |-> cpu[d]]
  BY DEF Inv, InvTipos
<1>1. cpu[c].en \in {"leer", "escribir"} /\ cpu[c].restante = 0
  BY DEF Completar
<1>2. "escribir" \in PuntosCpu /\ "hecho" \in PuntosCpu /\ 0 \in Palabra
  BY TotalTipo DEF PuntosCpu, Palabra
<1>3. cpu[c].acceso.tam \in Palabra /\ cpu[c].destino \in Palabra
  BY <1>t DEF CpuT, Operaciones
<1>4. CASE cpu[c].en = "leer" /\ cpu[c].acceso.op = "COPY_MEM"
  <2>1. cpu'[c] = Operar(cpu[c], "escribir", cpu[c].destino, cpu[c].acceso.tam)
    BY <1>t, <1>4 DEF Completar
  <2>2. /\ cpu'[c] \in CpuT /\ cpu'[c].sticks = cpu[c].sticks /\ cpu'[c].pid = cpu[c].pid
        /\ cpu'[c].segs = cpu[c].segs /\ cpu'[c].acceso = cpu[c].acceso /\ cpu'[c].buffer = cpu[c].buffer
        /\ cpu'[c].reintentado = FALSE /\ cpu'[c].en = "escribir" /\ cpu'[c].dir = cpu[c].destino
        /\ cpu'[c].restante = cpu[c].acceso.tam /\ cpu'[c].destino = cpu[c].destino
    BY <1>t, <1>2, <1>3, <2>1, ZenonT(60) DEF Operar, CpuT
  <2>. QED  BY <1>1, <1>4, <2>2
<1>5. CASE ~ (cpu[c].en = "leer" /\ cpu[c].acceso.op = "COPY_MEM")
  <2>1. cpu'[c] = Terminada([cpu[c] EXCEPT !.negado = FALSE], "hecho")
    BY <1>t, <1>5 DEF Completar
  <2>2. /\ cpu'[c] \in CpuT /\ cpu'[c].sticks = cpu[c].sticks /\ cpu'[c].pid = cpu[c].pid
        /\ cpu'[c].segs = cpu[c].segs /\ cpu'[c].acceso = cpu[c].acceso /\ cpu'[c].buffer = cpu[c].buffer
        /\ cpu'[c].reintentado = FALSE /\ cpu'[c].en = "hecho" /\ cpu'[c].restante = cpu[c].restante
    BY <1>t, <1>2, <2>1, ZenonT(60) DEF Terminada, CpuT
  <2>. QED  BY <1>1, <1>5, <2>2
<1>. QED  BY <1>4, <1>5

LEMMA TiposReintentar ==
  ASSUME Inv, NEW c \in Cpus, Reintentar(c)
  PROVE  InvTipos'
<1>t. InvTipos /\ cpu[c] \in CpuT
  BY DEF Inv, InvTipos
<1>1. cpu'[c].en # "libre" /\ cpu[c].en # "libre"
  BY ReintentarEs
<1>2. tabla' \in [Pids -> Seq(Segmento)] /\ bytes' \in [Direcciones -> Valores]
  BY <1>t DEF Reintentar, InvTipos
<1>3. cpu'[c] \in CpuT /\ cpu'[c].sticks \subseteq 1..conectados /\ cpu'[c].pid = cpu[c].pid
  BY ReintentarEs
<1>4. cpu'[c].en = "libre" <=> cpu'[c].pid = 0
  BY <1>t, <1>1, <1>3 DEF InvTipos
<1>5. PasoCpu(c)
  BY DEF PasoCpu
<1>. QED  BY <1>t, <1>2, <1>3, <1>4, <1>5, TiposCpu

LEMMA TiposCompletar ==
  ASSUME Inv, NEW c \in Cpus, Completar(c)
  PROVE  InvTipos'
<1>t. InvTipos /\ cpu[c] \in CpuT
  BY DEF Inv, InvTipos
<1>1. cpu'[c].en # "libre" /\ cpu[c].en # "libre"
  BY CompletarEs
<1>2. tabla' \in [Pids -> Seq(Segmento)] /\ bytes' \in [Direcciones -> Valores]
  BY <1>t DEF Completar, InvTipos
<1>. QED  BY <1>t, <1>1, <1>2, CompletarEs, TiposCpu DEF PasoCpu, InvTipos

\* A CPU that leaves its burst keeps only the topology.
LEMMA LiberarEs ==
  ASSUME Inv, NEW c \in Cpus, DejarCpu(c) \/ SegFault(c)
  PROVE  /\ cpu'[c] \in CpuT /\ cpu'[c].sticks = cpu[c].sticks
         /\ cpu'[c].en = "libre" /\ cpu'[c].pid = 0
<1>t. InvTipos /\ cpu = [d \in Cpus |-> cpu[d]]
  BY DEF Inv, InvTipos
<1>1. cpu'[c] = [CpuLibre EXCEPT !.sticks = cpu[c].sticks]
  BY <1>t DEF DejarCpu, SegFault
<1>. QED  BY <1>t, <1>1, LibreTipo DEF CpuLibre

LEMMA TiposLiberar ==
  ASSUME Inv, NEW c \in Cpus, DejarCpu(c) \/ SegFault(c)
  PROVE  InvTipos'
<1>t. InvTipos
  BY DEF Inv, InvTipos
<1>1. <<>> \in Seq(Segmento)
  OBVIOUS
<1>2. tabla' \in [Pids -> Seq(Segmento)] /\ bytes' \in [Direcciones -> Valores]
  BY <1>t, <1>1 DEF DejarCpu, SegFault, InvTipos
<1>. QED  BY <1>t, <1>2, LiberarEs, TiposCpu DEF PasoCpu, InvTipos

-----------------------------------------------------------------------------
(* Kernel Memory keeps the segments apart *)

\* The segments of a process are segments, and their addresses are used.
LEMMA TablaTipo ==
  ASSUME InvTipos, NEW p \in Pids
  PROVE  /\ tabla[p] \in Seq(Segmento) /\ Range(tabla[p]) \subseteq Segmento
         /\ DOMAIN tabla[p] = 1..Len(tabla[p])
         /\ \A i \in DOMAIN tabla[p] : tabla[p][i] \in Range(tabla[p])
         /\ \A s \in Range(tabla[p]) : Rango(s) \subseteq DeProceso(p)
         /\ DeProceso(p) \subseteq Usadas
<1>1. tabla[p] \in Seq(Segmento)
  BY DEF InvTipos
<1>. QED  BY <1>1 DEF Range, DeProceso, Usadas

LEMMA UsadasSon ==
  ASSUME InvTipos
  PROVE  /\ \A d \in Usadas : \E p \in Pids : \E s \in Range(tabla[p]) : d \in Rango(s)
         /\ \A p \in Pids : \A d \in DeProceso(p) : \E s \in Range(tabla[p]) : d \in Rango(s)
BY TablaTipo DEF Range, DeProceso, Usadas

LEMMA SegmentosConectar ==
  ASSUME Inv, ConectarStick
  PROVE  InvTipos' /\ InvSegmentos'
<1>t. InvTipos /\ InvSegmentos
  BY DEF Inv
<1>1. /\ conectados \in Nat /\ AlInicio \in Nat /\ conectados + 1 \in 1..(Len(Tamanios) + 1)
      /\ conectados' = conectados + 1 /\ conectados' + 1 \in (conectados + 1)..(Len(Tamanios) + 1)
      /\ conectados' \in AlInicio..Len(Tamanios)
  BY <1>t, TamanioTipo, MmuOK DEF ConectarStick, InvTipos
<1>2. Base[conectados + 1] <= Base[conectados' + 1] /\ Base[conectados + 1] \in Nat
      /\ Base[conectados' + 1] \in Nat
  <2>1. conectados' + 1 \in 1..(Len(Tamanios) + 1)
    BY <1>1, TamanioTipo
  <2>. QED  BY <1>1, <2>1, BaseMonotona, BaseTipo
<1>3. tabla' = tabla /\ bytes' = bytes /\ cpu' = cpu
  BY DEF ConectarStick
<1>4. InvTipos'
  <2>1. \A c \in Cpus : cpu[c].sticks \subseteq 1..conectados'
    <3>1. 1..conectados \subseteq 1..conectados'
      BY <1>1
    <3>. QED  BY <1>t, <3>1 DEF InvTipos
  <2>. QED  BY <1>t, <1>1, <1>3, <2>1 DEF InvTipos
<1>5. \A p \in Pids : \A s \in Range(tabla[p]) : s.base + s.tam <= Base[conectados' + 1]
  <2>1. TAKE p \in Pids
  <2>2. TAKE s \in Range(tabla[p])
  <2>3. s.base \in Nat /\ s.tam \in Nat
    <3>1. s \in Segmento
      BY <1>t, TablaTipo
    <3>. QED  BY <3>1, SegmentoTipo, TotalTipo, MmuOK
  <2>4. s.base + s.tam <= Base[conectados + 1]
    BY <1>t DEF InvSegmentos
  <2>. QED  BY <1>2, <2>3, <2>4
<1>6. InvSegmentos'
  BY <1>t, <1>3, <1>5 DEF InvSegmentos
<1>. QED  BY <1>4, <1>6

LEMMA SegmentosCrear ==
  ASSUME Inv, NEW p \in Pids, CrearSegmento(p)
  PROVE  InvTipos' /\ InvSegmentos'
<1>t. InvTipos /\ InvSegmentos
  BY DEF Inv
<1>1. PICK seg \in Segmento :
        /\ \A i \in DOMAIN tabla[p] : tabla[p][i].id # seg.id
        /\ Rango(seg) \subseteq 0..(Base[conectados + 1] - 1)
        /\ Rango(seg) \cap Usadas = {}
        /\ tabla' = [tabla EXCEPT ![p] = Append(tabla[p], seg)]
  BY DEF CrearSegmento
<1>2. UNCHANGED <<conectados, bytes, cpu>>
  BY DEF CrearSegmento
<1>3. tabla[p] \in Seq(Segmento) /\ tabla \in [Pids -> Seq(Segmento)]
  BY <1>t DEF InvTipos
<1>4. /\ Append(tabla[p], seg) \in Seq(Segmento)
      /\ Range(Append(tabla[p], seg)) = Range(tabla[p]) \cup {seg}
  <2>1. ToSet(Append(tabla[p], seg)) = ToSet(tabla[p]) \cup {seg}
    BY <1>3, ToSetAppend
  <2>2. Append(tabla[p], seg) \in Seq(Segmento)
    BY <1>3
  <2>. QED  BY <2>1, <2>2 DEF ToSet, Range
<1>5. /\ tabla' \in [Pids -> Seq(Segmento)] /\ tabla'[p] = Append(tabla[p], seg)
      /\ \A q \in Pids : q # p => tabla'[q] = tabla[q]
  BY <1>1, <1>3, <1>4
<1>6. \A s \in Range(tabla[p]) : s.id # seg.id
  BY <1>1, <1>3 DEF Range
<1>7. seg.base + seg.tam <= Base[conectados + 1]
  <2>1. seg.base \in Nat /\ seg.tam \in Nat \ {0}
    BY SegmentoTipo, TotalTipo, MmuOK
  <2>2. conectados + 1 \in 1..(Len(Tamanios) + 1)
    BY <1>t, TamanioTipo, MmuOK DEF InvTipos
  <2>3. Base[conectados + 1] \in Nat
    BY <2>2, BaseTipo
  <2>4. seg.base + seg.tam - 1 \in Rango(seg)
    BY <2>1 DEF Rango
  <2>. QED  BY <1>1, <2>1, <2>3, <2>4
<1>8. InvTipos'
  BY <1>t, <1>2, <1>5 DEF InvTipos
<1>9. \A q \in Pids : IsInjective(tabla'[q])
  <2>1. seg \notin ToSet(tabla[p])
    BY <1>6 DEF ToSet, Range
  <2>2. IsInjective(Append(tabla[p], seg))
    BY <1>t, <1>3, <2>1, AppendSinRepetir DEF InvSegmentos
  <2>. QED  BY <1>t, <1>5, <2>2 DEF InvSegmentos
<1>10. \A q \in Pids : \A s, t \in Range(tabla'[q]) : s.id = t.id => s = t
  <2>1. TAKE q \in Pids
  <2>2. TAKE s, t \in Range(tabla'[q])
  <2>3. CASE q # p
    BY <1>t, <1>5, <2>3 DEF InvSegmentos
  <2>4. CASE q = p
    <3>1. s \in Range(tabla[p]) \cup {seg} /\ t \in Range(tabla[p]) \cup {seg}
      BY <1>4, <1>5, <2>4
    <3>. QED  BY <1>t, <1>6, <3>1 DEF InvSegmentos
  <2>. QED  BY <2>3, <2>4
<1>11. \A q \in Pids : \A s \in Range(tabla'[q]) : s.base + s.tam <= Base[conectados + 1]
  BY <1>t, <1>4, <1>5, <1>7 DEF InvSegmentos
<1>12. \A q \in Pids : \A s \in Range(tabla[q]) : Rango(seg) \cap Rango(s) = {}
  <2>1. \A q \in Pids : \A s \in Range(tabla[q]) : Rango(s) \subseteq Usadas
    BY <1>t, TablaTipo
  <2>. QED  BY <1>1, <2>1
<1>13. \A q, o \in Pids : \A s \in Range(tabla'[q]), t \in Range(tabla'[o]) :
         q # o \/ s # t => Rango(s) \cap Rango(t) = {}
  <2>1. \A q \in Pids : \A s \in Range(tabla'[q]) : s \in Range(tabla[q]) \/ (q = p /\ s = seg)
    BY <1>4, <1>5
  <2>2. TAKE q, o \in Pids
  <2>3. TAKE s \in Range(tabla'[q]), t \in Range(tabla'[o])
  <2>4. CASE s \in Range(tabla[q]) /\ t \in Range(tabla[o])
    BY <1>t, <2>4 DEF InvSegmentos
  <2>5. CASE q = p /\ s = seg
    BY <1>12, <2>1, <2>5
  <2>6. CASE o = p /\ t = seg
    BY <1>12, <2>1, <2>6
  <2>. QED  BY <2>1, <2>4, <2>5, <2>6
<1>14. InvSegmentos'
  BY <1>2, <1>9, <1>10, <1>11, <1>13 DEF InvSegmentos
<1>. QED  BY <1>8, <1>14

\* A table with fewer segments.
LEMMA SegmentosMenos ==
  ASSUME InvTipos, InvSegmentos, NEW p \in Pids, NEW T \in Seq(Segmento), IsInjective(T),
         Range(T) \subseteq Range(tabla[p]), tabla' = [tabla EXCEPT ![p] = T], conectados' = conectados
  PROVE  InvSegmentos' /\ tabla' \in [Pids -> Seq(Segmento)]
<1>1. /\ tabla' \in [Pids -> Seq(Segmento)]
      /\ \A q \in Pids : IsInjective(tabla'[q]) /\ Range(tabla'[q]) \subseteq Range(tabla[q])
  BY DEF InvTipos, InvSegmentos
<1>. QED  BY <1>1 DEF InvSegmentos

LEMMA SegmentosEliminar ==
  ASSUME Inv, NEW p \in Pids, EliminarSegmento(p)
  PROVE  InvTipos' /\ InvSegmentos'
<1>t. InvTipos /\ InvSegmentos
  BY DEF Inv
<1>1. PICK i \in DOMAIN tabla[p] : tabla' = [tabla EXCEPT ![p] = RemoveAt(tabla[p], i)]
  BY DEF EliminarSegmento
<1>2. tabla[p] \in Seq(Segmento) /\ i \in 1..Len(tabla[p]) /\ IsInjective(tabla[p])
  BY <1>t DEF InvTipos, InvSegmentos
<1>3. /\ RemoveAt(tabla[p], i) \in Seq(Segmento) /\ IsInjective(RemoveAt(tabla[p], i))
      /\ ToSet(RemoveAt(tabla[p], i)) = ToSet(tabla[p]) \ {tabla[p][i]}
  BY <1>2, RemoveAtEsSeq, RemoveAtElementos
<1>4. Range(RemoveAt(tabla[p], i)) \subseteq Range(tabla[p])
  BY <1>3 DEF Range, ToSet
<1>5. UNCHANGED <<conectados, bytes, cpu>>
  BY DEF EliminarSegmento
<1>6. InvSegmentos' /\ tabla' \in [Pids -> Seq(Segmento)]
  BY <1>t, <1>1, <1>3, <1>4, <1>5, SegmentosMenos
<1>. QED  BY <1>t, <1>5, <1>6 DEF InvTipos

\* Where the move of a segment leaves it: below, with no other in between.
LEMMA SegmentosMover ==
  ASSUME Inv, NEW p \in Pids, MoverSegmento(p)
  PROVE  InvTipos' /\ InvSegmentos'
<1>t. InvTipos /\ InvSegmentos
  BY DEF Inv
<1>1. PICK i \in DOMAIN tabla[p] :
        LET seg == tabla[p][i]
            abajo == {d \in Usadas : d < seg.base}
            nueva == IF abajo = {} THEN 0 ELSE Max(abajo) + 1
        IN  /\ nueva < seg.base
            /\ tabla' = [tabla EXCEPT ![p][i].base = nueva]
            /\ bytes' = [d \in Direcciones |->
                           IF d \in nueva..(nueva + seg.tam - 1)
                           THEN bytes[d + seg.base - nueva] ELSE bytes[d]]
  BY DEF MoverSegmento
<1>. DEFINE seg == tabla[p][i]
            abajo == {d \in Usadas : d < seg.base}
            nueva == IF abajo = {} THEN 0 ELSE Max(abajo) + 1
            otro == [seg EXCEPT !.base = nueva]
<1>2. UNCHANGED <<conectados, cpu>>
  BY DEF MoverSegmento
<1>3. /\ tabla[p] \in Seq(Segmento) /\ tabla \in [Pids -> Seq(Segmento)]
      /\ i \in 1..Len(tabla[p]) /\ seg \in Segmento /\ seg \in Range(tabla[p])
  BY <1>t DEF InvTipos, Range
<1>4. seg.base \in 0..(Total - 1) /\ seg.tam \in Nat \ {0} /\ seg.tam \in 1..TamMaxSegmento /\ Total \in Nat
  <2>1. seg.base \in 0..(Total - 1) /\ seg.tam \in 1..TamMaxSegmento
    BY <1>3, SegmentoTipo
  <2>. QED  BY <2>1, TotalTipo, MmuOK
<1>5. nueva \in Nat /\ nueva < seg.base /\ \A d \in Usadas : d < nueva \/ d >= seg.base
  <2>1. nueva < seg.base
    BY <1>1
  <2>2. Usadas \subseteq Nat
    <3>1. \A q \in Pids : \A s \in Range(tabla[q]) : Rango(s) \subseteq Nat
      <4>1. TAKE q \in Pids
      <4>2. TAKE s \in Range(tabla[q])
      <4>3. s.base \in Nat /\ s.tam \in Nat
        <5>1. s \in Segmento
          BY <1>t, TablaTipo
        <5>. QED  BY <5>1, SegmentoTipo, TotalTipo, MmuOK
      <4>. QED  BY <4>3 DEF Rango
    <3>. QED  BY <1>t, <3>1, UsadasSon
  <2>3. CASE abajo = {}
    BY <1>4, <2>1, <2>2, <2>3
  <2>4. CASE abajo # {}
    <3>1. abajo \subseteq Nat /\ \A d \in abajo : d <= seg.base
      <4>1. PICK b \in Nat : b = seg.base
        BY <1>4
      <4>2. abajo = {d \in Usadas : d < b}
        BY <4>1
      <4>. HIDE DEF abajo, seg
      <4>3. \A d \in Usadas : d \in Nat /\ (d < b => d <= b)
        BY <2>2
      <4>4. \A d \in abajo : d \in Usadas /\ d < b
        BY <4>2
      <4>. QED  BY <4>1, <4>3, <4>4
    <3>2. seg.base \in Nat
      <4>. HIDE DEF seg
      <4>. QED  BY <1>4
    <3>3. Max(abajo) \in abajo /\ \A d \in abajo : Max(abajo) >= d
      <4>. HIDE DEF abajo, seg
      <4>. QED  BY <2>4, <3>1, <3>2, MaxEsElemento
    <3>4. nueva = Max(abajo) + 1 /\ Max(abajo) \in Nat
      BY <2>4, <3>1, <3>3
    <3>5. \A d \in Usadas : d < Max(abajo) + 1 \/ d >= seg.base
      <4>1. \A d \in Usadas : d < seg.base => d <= Max(abajo)
        BY <2>2, <3>2, <3>3, <3>4
      <4>. HIDE DEF abajo, seg
      <4>. QED  BY <2>2, <3>2, <3>4, <4>1
    <3>. QED  BY <2>1, <3>4, <3>5
  <2>. QED  BY <2>3, <2>4
<1>6. /\ bytes' = [d \in Direcciones |-> IF d \in nueva..(nueva + seg.tam - 1)
                                         THEN bytes[d + seg.base - nueva] ELSE bytes[d]]
      /\ tabla' = [tabla EXCEPT ![p][i].base = nueva]
  BY <1>1
<1>. HIDE DEF nueva
<1>7. tabla' = [tabla EXCEPT ![p] = [tabla[p] EXCEPT ![i] = otro]]
  BY <1>3, <1>6
<1>8. otro \in Segmento /\ otro.id = seg.id /\ otro.tam = seg.tam /\ otro.base = nueva
  <2>1. nueva \in Direcciones
    BY <1>4, <1>5 DEF Direcciones
  <2>. QED  BY <1>3, <2>1 DEF Segmento
<1>9. seg.base + seg.tam <= Base[conectados + 1] /\ Base[conectados + 1] \in Nat /\ Base[conectados + 1] <= Total
  <2>1. conectados + 1 \in 1..(Len(Tamanios) + 1) /\ Len(Tamanios) + 1 \in (conectados + 1)..(Len(Tamanios) + 1)
    BY <1>t, TamanioTipo, MmuOK DEF InvTipos
  <2>2. Base[conectados + 1] \in Nat /\ Base[conectados + 1] <= Total
    BY <2>1, BaseTipo, BaseMonotona DEF Total
  <2>3. seg.base + seg.tam <= Base[conectados + 1]
    BY <1>t, <1>3 DEF InvSegmentos
  <2>. QED  BY <2>2, <2>3
<1>10. bytes' \in [Direcciones -> Valores]
  <2>1. ASSUME NEW d \in Direcciones, d \in nueva..(nueva + seg.tam - 1)
        PROVE  d + seg.base - nueva \in Direcciones
    BY <1>4, <1>5, <1>9, <2>1 DEF Direcciones
  <2>2. bytes \in [Direcciones -> Valores]
    BY <1>t DEF InvTipos
  <2>. QED  BY <1>6, <2>1, <2>2
<1>. HIDE DEF otro
<1>11. /\ tabla' \in [Pids -> Seq(Segmento)]
       /\ \A q \in Pids : q # p => tabla'[q] = tabla[q]
       /\ tabla'[p] = [tabla[p] EXCEPT ![i] = otro]
       /\ DOMAIN tabla'[p] = DOMAIN tabla[p]
       /\ \A j \in DOMAIN tabla[p] : tabla'[p][j] = IF j = i THEN otro ELSE tabla[p][j]
  <2>1. [tabla[p] EXCEPT ![i] = otro] \in Seq(Segmento)
    BY <1>3, <1>8
  <2>. QED  BY <1>3, <1>7, <2>1
<1>12. InvTipos'
  BY <1>t, <1>2, <1>10, <1>11 DEF InvTipos
<1>13. \A j \in DOMAIN tabla[p] : j # i => tabla[p][j].id # seg.id
  BY <1>t, <1>3 DEF InvSegmentos, IsInjective, Range
<1>14. IsInjective(tabla'[p])
  <2>1. \A j, k \in DOMAIN tabla[p] : tabla[p][j] = tabla[p][k] => j = k
    BY <1>t DEF InvSegmentos, IsInjective
  <2>2. \A j, k \in DOMAIN tabla'[p] : tabla'[p][j] = tabla'[p][k] => j = k
    BY <1>8, <1>11, <1>13, <2>1
  <2>. QED  BY <2>2 DEF IsInjective
<1>15. \A q \in Pids : \A s \in Range(tabla'[q]) :
         (s = otro /\ q = p) \/ (s \in Range(tabla[q]) /\ (q # p \/ (s # seg /\ s.id # seg.id)))
  <2>1. \A j \in DOMAIN tabla[p] : j # i => tabla[p][j] # seg
    BY <1>3, <1>13
  <2>. HIDE DEF seg
  <2>. QED  BY <1>11, <1>13, <2>1 DEF Range
<1>16. \A q \in Pids : IsInjective(tabla'[q])
  BY <1>t, <1>11, <1>14 DEF InvSegmentos
<1>17. \A q \in Pids : \A s, t \in Range(tabla'[q]) : s.id = t.id => s = t
  <2>1. TAKE q \in Pids
  <2>2. TAKE s, t \in Range(tabla'[q])
  <2>. QED  BY <1>t, <1>8, <1>11, <1>15 DEF InvSegmentos
<1>18. \A q \in Pids : \A s \in Range(tabla'[q]) : s.base + s.tam <= Base[conectados + 1]
  <2>1. otro.base + otro.tam <= Base[conectados + 1]
    <3>1. nueva + seg.tam <= Base[conectados + 1]
      BY <1>4, <1>5, <1>9
    <3>. QED  BY <1>8, <3>1
  <2>. QED  BY <1>t, <1>15, <2>1 DEF InvSegmentos
<1>19. \A q \in Pids : \A s \in Range(tabla[q]) : q # p \/ s # seg => Rango(otro) \cap Rango(s) = {}
  <2>1. TAKE q \in Pids
  <2>2. TAKE s \in Range(tabla[q])
  <2>3. HAVE q # p \/ s # seg
  <2>4. Rango(s) \subseteq Usadas /\ Rango(s) \cap Rango(seg) = {}
    BY <1>t, <1>3, <2>3, TablaTipo DEF InvSegmentos
  <2>5. ASSUME NEW d \in Rango(s), d \in Rango(otro)
        PROVE  FALSE
    <3>1. d \in nueva..(nueva + seg.tam - 1)
      BY <1>8, <2>5 DEF Rango
    <3>2. d < nueva \/ d >= seg.base
      BY <1>5, <2>4, <2>5
    <3>3. d \in seg.base..(seg.base + seg.tam - 1)
      BY <1>4, <1>5, <3>1, <3>2
    <3>. QED  BY <2>4, <2>5, <3>3 DEF Rango
  <2>. QED  BY <2>5
<1>20. \A q, o \in Pids : \A s \in Range(tabla'[q]), t \in Range(tabla'[o]) :
         q # o \/ s # t => Rango(s) \cap Rango(t) = {}
  <2>1. TAKE q, o \in Pids
  <2>2. TAKE s \in Range(tabla'[q]), t \in Range(tabla'[o])
  <2>3. HAVE q # o \/ s # t
  <2>4. CASE s = otro /\ q = p
    BY <1>15, <1>19, <2>3, <2>4
  <2>5. CASE t = otro /\ o = p
    BY <1>15, <1>19, <2>3, <2>5
  <2>6. CASE s \in Range(tabla[q]) /\ t \in Range(tabla[o])
    BY <1>t, <2>3, <2>6 DEF InvSegmentos
  <2>. QED  BY <1>15, <2>4, <2>5, <2>6
<1>21. InvSegmentos'
  BY <1>2, <1>16, <1>17, <1>18, <1>20 DEF InvSegmentos
<1>. QED  BY <1>12, <1>21

-----------------------------------------------------------------------------
(* The first part of the invariant is one *)

LEMMA TiposPasoCpu ==
  ASSUME Inv, NEW c \in Cpus, PasoCpu(c)
  PROVE  InvTipos'
BY DespacharEs, TiposContexto, TiposEjecutar, TiposOperarFisico, TiposReintentar, TiposCompletar,
   TiposLiberar DEF PasoCpu

\* A step of a CPU leaves the table as it was, but for the end of its process.
LEMMA TablaPasoCpu ==
  ASSUME Inv, NEW c \in Cpus, PasoCpu(c)
  PROVE  /\ InvSegmentos'
         /\ tabla' = tabla \/ (cpu'[c].pid = 0 /\ \A q \in Pids : q # cpu[c].pid => tabla'[q] = tabla[q])
<1>t. InvTipos /\ InvSegmentos
  BY DEF Inv
<1>1. conectados' = conectados
  BY <1>t, SoloLaSuya
<1>2. CASE SegFault(c)
  <2>1. cpu[c].pid \in Pids
    BY <1>t, <1>2 DEF SegFault, InvTipos, CpuT
  <2>2. /\ <<>> \in Seq(Segmento) /\ IsInjective(<<>>) /\ Range(<<>>) \subseteq Range(tabla[cpu[c].pid])
    BY DEF IsInjective, Range
  <2>3. tabla' = [tabla EXCEPT ![cpu[c].pid] = <<>>]
    BY <1>2 DEF SegFault
  <2>4. InvSegmentos'
    BY <1>t, <1>1, <2>1, <2>2, <2>3, SegmentosMenos
  <2>5. \A q \in Pids : q # cpu[c].pid => tabla'[q] = tabla[q]
    BY <1>t, <2>3 DEF InvTipos
  <2>. QED  BY <1>2, <2>4, <2>5, LiberarEs
<1>3. CASE ~ SegFault(c)
  <2>1. tabla' = tabla
    BY <1>3 DEF PasoCpu, Despachar, SolicitarContexto, Ejecutar, OperarFisico, Reintentar, Completar, DejarCpu
  <2>. QED  BY <1>t, <1>1, <2>1 DEF InvSegmentos
<1>. QED  BY <1>2, <1>3

LEMMA BufferPasoCpu ==
  ASSUME Inv, NEW c \in Cpus, PasoCpu(c)
  PROVE  InvBuffer'
<1>t. InvTipos /\ InvBuffer /\ cpu[c] \in CpuT /\ cpu = [d \in Cpus |-> cpu[d]]
  BY DEF Inv, InvTipos
<1>. DEFINE Bien(s) == /\ s.en \in {"leer", "escribir"} => s.restante <= s.acceso.tam
                       /\ s.en = "leer" => Len(s.buffer) = s.acceso.tam - s.restante
                       /\ s.en = "escribir" => Len(s.buffer) = s.acceso.tam
<1>1. ASSUME (\E p \in Pids : Despachar(c, p)) \/ SolicitarContexto(c) PROVE Bien(cpu'[c])
  <2>1. CASE \E p \in Pids : Despachar(c, p)
    <3>1. cpu'[c].en = "topologia"
      BY <2>1, DespacharEs
    <3>. QED  BY <3>1
  <2>2. CASE SolicitarContexto(c)
    <3>1. cpu'[c].en = "fetch"
      BY <1>t, <2>2 DEF SolicitarContexto, CpuT
    <3>. QED  BY <3>1
  <2>. QED  BY <1>1, <2>1, <2>2
<1>2. ASSUME Ejecutar(c) PROVE Bien(cpu'[c])
  BY <1>2, BufferEjecutar
<1>3. ASSUME OperarFisico(c) PROVE Bien(cpu'[c])
  BY <1>3, BufferOperarFisico
<1>4. ASSUME Reintentar(c) PROVE Bien(cpu'[c])
  <2>1. Bien(cpu[c])
    BY <1>t DEF InvBuffer
  <2>. QED  BY <1>4, <2>1, ReintentarEs
<1>5. ASSUME Completar(c) PROVE Bien(cpu'[c])
  <2>1. Bien(cpu[c]) /\ cpu[c].restante = 0
    BY <1>t, <1>5, CompletarEs DEF InvBuffer
  <2>2. cpu[c].acceso.tam \in Nat
    BY <1>t, TotalTipo DEF CpuT, Palabra, Operaciones
  <2>3. CASE cpu'[c].en = "hecho"
    BY <2>3
  <2>4. CASE /\ cpu[c].en = "leer" /\ cpu'[c].en = "escribir" /\ cpu'[c].restante = cpu[c].acceso.tam
             /\ cpu'[c].acceso = cpu[c].acceso /\ cpu'[c].buffer = cpu[c].buffer
    BY <2>1, <2>2, <2>4
  <2>. QED  BY <1>5, <2>3, <2>4, CompletarEs
<1>6. ASSUME DejarCpu(c) \/ SegFault(c) PROVE Bien(cpu'[c])
  BY <1>6, LiberarEs
<1>7. Bien(cpu'[c])
  BY <1>1, <1>2, <1>3, <1>4, <1>5, <1>6 DEF PasoCpu
<1>. QED  BY <1>t, <1>7, SoloLaSuya DEF InvBuffer

\* A CPU goes on with the process it had, or takes one that was on none.
LEMMA PidPasoCpu ==
  ASSUME Inv, NEW c \in Cpus, PasoCpu(c)
  PROVE  /\ \/ cpu'[c].pid = cpu[c].pid \/ cpu'[c].pid = 0
            \/ cpu'[c].en = "topologia" /\ ~ EnRafaga(cpu'[c].pid)
         /\ cpu'[c].en \notin {"libre", "topologia"} =>
              /\ tabla' = tabla /\ cpu'[c].pid = cpu[c].pid
              /\ \/ cpu[c].en \notin {"libre", "topologia"} /\ cpu'[c].segs = cpu[c].segs
                 \/ cpu'[c].segs = tabla[cpu[c].pid]
<1>t. InvTipos /\ cpu[c] \in CpuT /\ cpu = [d \in Cpus |-> cpu[d]]
  BY DEF Inv, InvTipos
<1>1. CASE \E p \in Pids : Despachar(c, p)
  <2>1. PICK p \in Pids : Despachar(c, p)
    BY <1>1
  <2>2. cpu'[c].en = "topologia" /\ cpu'[c].pid = p /\ ~ EnRafaga(p)
    BY <2>1, DespacharEs
  <2>. QED  BY <2>2
<1>2. CASE SolicitarContexto(c)
  <2>1. cpu'[c] = [cpu[c] EXCEPT !.en = "fetch", !.negado = FALSE, !.segs = tabla[cpu[c].pid]]
    BY <1>t, <1>2 DEF SolicitarContexto
  <2>2. cpu'[c].pid = cpu[c].pid /\ cpu'[c].segs = tabla[cpu[c].pid] /\ tabla' = tabla
    BY <1>t, <1>2, <2>1 DEF SolicitarContexto, CpuT
  <2>. QED  BY <2>2
<1>3. CASE Ejecutar(c)
  <2>1. PICK a \in Accesos[c] :
          Empieza(c, a, MmuTraducir(cpu[c].segs, a.ori, a.tam), MmuTraducir(cpu[c].segs, a.dst, a.tam))
    BY <1>3, EjecutarEs
  <2>2. cpu'[c].pid = cpu[c].pid /\ cpu'[c].segs = cpu[c].segs
    BY <2>1 DEF Empieza
  <2>3. cpu[c].en \notin {"libre", "topologia"} /\ tabla' = tabla
    BY <1>3 DEF Ejecutar
  <2>. QED  BY <2>2, <2>3
<1>4. CASE OperarFisico(c)
  <2>1. PICK n \in 1..cpu[c].restante : Turno(c, n)
    BY <1>4, OperarFisicoEs
  <2>2. cpu'[c].pid = cpu[c].pid /\ cpu'[c].segs = cpu[c].segs
    BY <2>1 DEF Turno
  <2>3. cpu[c].en \notin {"libre", "topologia"} /\ tabla' = tabla
    BY <1>4 DEF OperarFisico
  <2>. QED  BY <2>2, <2>3
<1>5. CASE Reintentar(c)
  <2>1. cpu'[c].pid = cpu[c].pid /\ cpu'[c].segs = cpu[c].segs /\ cpu[c].en \notin {"libre", "topologia"}
    BY <1>5, ReintentarEs
  <2>2. tabla' = tabla
    BY <1>5 DEF Reintentar
  <2>. QED  BY <2>1, <2>2
<1>6. CASE Completar(c)
  <2>1. cpu'[c].pid = cpu[c].pid /\ cpu'[c].segs = cpu[c].segs /\ cpu[c].en \notin {"libre", "topologia"}
    BY <1>6, CompletarEs
  <2>2. tabla' = tabla
    BY <1>6 DEF Completar
  <2>. QED  BY <2>1, <2>2
<1>7. CASE DejarCpu(c) \/ SegFault(c)
  BY <1>7, LiberarEs
<1>. QED  BY <1>1, <1>2, <1>3, <1>4, <1>5, <1>6, <1>7 DEF PasoCpu

LEMMA RafagasPasoCpu ==
  ASSUME Inv, NEW c \in Cpus, PasoCpu(c)
  PROVE  InvRafagas'
<1>t. InvTipos /\ InvRafagas /\ InvTipos'
  BY TiposPasoCpu DEF Inv
<1>1. \A d \in Cpus : d # c => cpu'[d] = cpu[d]
  BY <1>t, SoloLaSuya
<1>2. \A d \in Cpus : d # c /\ cpu'[c].pid = cpu[d].pid => cpu'[c].pid = 0
  BY <1>t, PidPasoCpu DEF InvRafagas, EnRafaga
<1>3. \A d, e \in Cpus : cpu'[d].pid = cpu'[e].pid /\ d # e => cpu'[d].pid = 0
  BY <1>t, <1>1, <1>2 DEF InvRafagas
<1>4. cpu'[c].en \notin {"libre", "topologia"} => cpu'[c].segs = tabla'[cpu'[c].pid]
  BY <1>t, PidPasoCpu DEF InvRafagas
<1>5. ASSUME NEW d \in Cpus, d # c, cpu[d].en \notin {"libre", "topologia"}
      PROVE  cpu[d].segs = tabla'[cpu[d].pid]
  <2>1. cpu[d].pid \in Pids
    BY <1>t, <1>5 DEF InvTipos, CpuT
  <2>2. cpu[d].pid # cpu[c].pid
    BY <1>t, <1>5, <2>1, MmuOK DEF InvRafagas
  <2>3. tabla'[cpu[d].pid] = tabla[cpu[d].pid]
    BY <2>1, <2>2, TablaPasoCpu
  <2>. QED  BY <1>t, <1>5, <2>3 DEF InvRafagas
<1>. QED  BY <1>1, <1>3, <1>4, <1>5 DEF InvRafagas

\* Kernel Memory does not touch the segments of a process that is on a CPU.
LEMMA PasoKernel ==
  ASSUME InvTipos, NEW p \in Pids, CrearSegmento(p) \/ EliminarSegmento(p) \/ MoverSegmento(p), NEW c \in Cpus,
         cpu[c].en # "libre"
  PROVE  cpu' = cpu /\ tabla'[cpu[c].pid] = tabla[cpu[c].pid] /\ bytes' = bytes
<1>1. cpu[c].pid # 0 /\ cpu[c].pid \in Pids
  BY DEF InvTipos, CpuT
<1>2. ~ MoverSegmento(p)
  BY <1>1 DEF MoverSegmento
<1>3. cpu[c].pid # p
  BY <1>2 DEF CrearSegmento, EliminarSegmento, EnRafaga
<1>. QED  BY <1>1, <1>2, <1>3, SMTT(40) DEF CrearSegmento, EliminarSegmento, InvTipos

LEMMA InicialInv == Init => Inv
<1>. SUFFICES ASSUME Init PROVE Inv
  OBVIOUS
<1>1. CpuLibre \in CpuT
  <2>1. SinAcceso \in Operaciones /\ 0 \in Palabra
    BY TotalTipo DEF SinAcceso, Operaciones, Palabra
  <2>2. CpuLibre.en \in PuntosCpu
    BY DEF CpuLibre, PuntosCpu
  <2>3. <<>> \in Seq(Segmento) /\ <<>> \in Seq(Valores)
    OBVIOUS
  <2>. QED  BY <2>1, <2>2, <2>3 DEF CpuLibre, CpuT
<1>2. /\ CpuLibre.en = "libre" /\ CpuLibre.pid = 0 /\ CpuLibre.sticks = {}
  BY DEF CpuLibre
<1>3. AlInicio \in AlInicio..Len(Tamanios) /\ <<>> \in Seq(Segmento)
  BY TamanioTipo, MmuOK
<1>4. \A c \in Cpus : cpu[c] = CpuLibre
  BY DEF Init
<1>5. InvTipos
  BY <1>1, <1>2, <1>3, <1>4 DEF Init, InvTipos
<1>6. InvSegmentos
  <2>1. \A p \in Pids : tabla[p] = <<>>
    BY DEF Init
  <2>2. IsInjective(<<>>) /\ Range(<<>>) = {}
    BY DEF IsInjective, Range
  <2>. QED  BY <2>1, <2>2 DEF InvSegmentos
<1>7. InvBuffer /\ InvRafagas
  BY <1>2, <1>4 DEF InvBuffer, InvRafagas
<1>. QED  BY <1>5, <1>6, <1>7 DEF Inv

LEMMA PasoInv == Inv /\ [Next]_vars => Inv'
<1>. SUFFICES ASSUME Inv, [Next]_vars PROVE Inv'
  OBVIOUS
<1>t. InvTipos /\ InvBuffer /\ InvRafagas
  BY DEF Inv
<1>1. CASE UNCHANGED vars
  <2>1. UNCHANGED <<conectados, tabla, bytes, cpu>>
    BY <1>1 DEF vars
  <2>. QED  BY <2>1 DEF Inv, InvTipos, InvSegmentos, InvBuffer, InvRafagas
<1>2. ASSUME NEW c \in Cpus, PasoCpu(c) PROVE Inv'
  BY <1>2, TiposPasoCpu, TablaPasoCpu, BufferPasoCpu, RafagasPasoCpu DEF Inv
<1>3. CASE ConectarStick
  <2>1. UNCHANGED <<tabla, bytes, cpu>>
    BY <1>3 DEF ConectarStick
  <2>. QED  BY <1>t, <1>3, <2>1, SegmentosConectar DEF Inv, InvBuffer, InvRafagas
<1>4. ASSUME NEW p \in Pids, CrearSegmento(p) \/ EliminarSegmento(p) \/ MoverSegmento(p)
      PROVE  Inv'
  <2>1. cpu' = cpu
    BY <1>4 DEF CrearSegmento, EliminarSegmento, MoverSegmento
  <2>2. InvTipos' /\ InvSegmentos'
    BY <1>4, SegmentosCrear, SegmentosEliminar, SegmentosMover
  <2>3. InvBuffer'
    BY <1>t, <2>1 DEF InvBuffer
  <2>4. \A c \in Cpus : cpu[c].en # "libre" => tabla'[cpu[c].pid] = tabla[cpu[c].pid]
    BY <1>t, <1>4, PasoKernel
  <2>5. InvRafagas'
    BY <1>t, <2>1, <2>4 DEF InvRafagas
  <2>. QED  BY <2>2, <2>3, <2>5 DEF Inv
<1>. QED  BY <1>1, <1>2, <1>3, <1>4 DEF Next

LEMMA InvDaTypeOK == Inv => TypeOK
<1>. SUFFICES ASSUME Inv PROVE TypeOK
  OBVIOUS
<1>1. InvTipos
  BY DEF Inv
<1>. QED  BY <1>1 DEF InvTipos, CpuT, PuntosCpu, TypeOK

\* Every variable of Mmu has its type: in particular no CPU knows a stick that
\* has not connected, every offset is inside its buffer and every address that
\* operar_fisico reads or writes is one of the memory (cpu/conexiones.c:277-310).
THEOREM TiposMmu == Spec => []TypeOK
<1>. QED  BY InicialInv, PasoInv, InvDaTypeOK, PTL DEF Spec

-----------------------------------------------------------------------------
(* What a CPU knows of its access.  MemoriaChica: the memory and the largest *)
(* segment fit in the addresses together, so the sum of a base and an offset *)
(* does not wrap; that of an offset and a size still may.                    *)

MemoriaChica == Total + TamMaxSegmento <= Modulo

\* Where the logical address x is in the segment s; n bytes from there fit in
\* it; mmu_traducir lets them pass, with its sum that may wrap.
Lugar(s, x)   == s.base + (x % TamMaxSegmento)
Cabe(s, x, n) == s.id = x \div TamMaxSegmento /\ (x % TamMaxSegmento) + n <= s.tam
Pasa(s, x, n) == s.id = x \div TamMaxSegmento /\ Suma(x % TamMaxSegmento, n) <= s.tam

\* The facts about a CPU with the record r, whose process has the segments G in
\* the memory B.  While it reads: how far it came, and what it has.
EnLectura(r, G, B) ==
  r.en = "leer" =>
    /\ r.acceso.op \in {"MOV_IN", "COPY_MEM"}
    /\ \E s \in G :
         /\ Pasa(s, r.acceso.ori, r.acceso.tam)
         /\ r.dir = Lugar(s, r.acceso.ori) + (r.acceso.tam - r.restante)
         /\ r.restante < r.acceso.tam => r.dir <= Total
         /\ Cabe(s, r.acceso.ori, r.acceso.tam) =>
              \A i \in 1..(r.acceso.tam - r.restante) : r.buffer[i] = B[Lugar(s, r.acceso.ori) + i - 1]
    /\ r.acceso.op = "COPY_MEM" =>
         \E s \in G : Pasa(s, r.acceso.dst, r.acceso.tam) /\ r.destino = Lugar(s, r.acceso.dst)

\* While it writes, and when it has ended: the whole access fits.
EnEscritura(r, G, B) ==
  /\ r.en = "escribir" => Escribe(r.acceso)
  /\ r.en \in {"escribir", "hecho"} /\ r.acceso.op # "IO" =>
       /\ r.restante <= r.acceso.tam
       /\ Lee(r.acceso) => \E s \in G : Cabe(s, r.acceso.ori, r.acceso.tam)
       /\ Escribe(r.acceso) =>
            \E s \in G :
              /\ Cabe(s, r.acceso.dst, r.acceso.tam)
              /\ r.en = "escribir" => r.dir = Lugar(s, r.acceso.dst) + (r.acceso.tam - r.restante)
              /\ \A i \in 1..(r.acceso.tam - r.restante) : B[Lugar(s, r.acceso.dst) + i - 1] = r.buffer[i]

PermitidoEn(a, G) ==
  /\ Lee(a) => \E s \in G : Cabe(s, a.ori, a.tam)
  /\ Escribe(a) => \E s \in G : Cabe(s, a.dst, a.tam)

EnFallo(r, G) == r.en = "fallo" => ~ PermitidoEn(r.acceso, G) \/ r.negado

\* After the second topology it knows the sticks of all that its process has.
EnReintento(r, G) ==
  r.en \in {"leer", "escribir"} /\ r.reintentado /\ ~ r.negado =>
    \A s \in G : \A d \in Rango(s) : ParaDireccion(r.sticks, d) # {}

Hechos(r, G, B) == EnLectura(r, G, B) /\ EnEscritura(r, G, B) /\ EnFallo(r, G) /\ EnReintento(r, G)

InvHechos == \A c \in Cpus : cpu[c].en # "libre" => Hechos(cpu[c], Range(tabla[cpu[c].pid]), bytes)

\* Segments that Kernel Memory can have given.
EnMemoria(G) ==
  /\ \A s \in G : s \in Segmento /\ s.base + s.tam <= Total
  /\ \A s, t \in G : s.id = t.id => s = t

LEMMA EstaEnMemoria ==
  ASSUME Inv, NEW p \in Pids
  PROVE  EnMemoria(Range(tabla[p]))
<1>t. InvTipos /\ InvSegmentos
  BY DEF Inv
<1>1. /\ conectados + 1 \in 1..(Len(Tamanios) + 1) /\ Len(Tamanios) + 1 \in (conectados + 1)..(Len(Tamanios) + 1)
  BY <1>t, TamanioTipo, MmuOK DEF InvTipos
<1>2. Base[conectados + 1] \in Nat /\ Base[conectados + 1] <= Total
  BY <1>1, BaseTipo, BaseMonotona DEF Total
<1>3. ASSUME NEW s \in Range(tabla[p]) PROVE s \in Segmento /\ s.base + s.tam <= Total
  <2>1. s \in Segmento
    BY <1>t, TablaTipo
  <2>2. s.base \in Nat /\ s.tam \in Nat
    BY <2>1, SegmentoTipo, TotalTipo, MmuOK
  <2>3. s.base + s.tam <= Base[conectados + 1]
    BY <1>t DEF InvSegmentos
  <2>. QED  BY <1>2, <2>1, <2>2, <2>3, TotalTipo
<1>. QED  BY <1>t, <1>3 DEF EnMemoria, InvSegmentos

LEMMA LugarEs ==
  ASSUME MemoriaChica, NEW G, EnMemoria(G), NEW s \in G, NEW x \in Palabra, NEW n \in Palabra
  PROVE  /\ s.base \in Nat /\ s.tam \in Nat \ {0} /\ x % TamMaxSegmento \in Nat /\ n \in Nat
         /\ Lugar(s, x) \in Nat /\ Lugar(s, x) < FALLO
         /\ Lugar(s, x) = s.base + (x % TamMaxSegmento)
         /\ Suma(s.base, x % TamMaxSegmento) = Lugar(s, x)
         /\ Cabe(s, x, n) => Pasa(s, x, n)
         /\ Pasa(s, x, n) /\ (x % TamMaxSegmento) + n < Modulo => Cabe(s, x, n)
         /\ Pasa(s, x, n) /\ n <= Total => Cabe(s, x, n)
         /\ Cabe(s, x, n) => \A i \in 1..n : Lugar(s, x) + i - 1 \in Rango(s)
<1>1. /\ s.base \in 0..(Total - 1) /\ s.tam \in 1..TamMaxSegmento /\ s.base + s.tam <= Total
  BY SegmentoTipo DEF EnMemoria
<1>2. Total \in Nat /\ Modulo \in Nat /\ TamMaxSegmento \in Nat \ {0} /\ TamMaxSegmento <= Modulo - Total
  BY TotalTipo, MmuOK DEF MemoriaChica
<1>3. n \in Nat /\ x % TamMaxSegmento \in 0..(TamMaxSegmento - 1)
  BY <1>2, DesplazamientoTipo DEF Palabra
<1>4. PICK b, t, k \in Nat : b = s.base /\ t = s.tam /\ k = x % TamMaxSegmento
  BY <1>1, <1>2, <1>3
<1>5. /\ b < Total /\ t >= 1 /\ t <= TamMaxSegmento /\ k < TamMaxSegmento /\ b + t <= Total
  BY <1>1, <1>2, <1>3, <1>4
<1>6. b + k \in Nat /\ b + k < Modulo - 1 /\ TamMaxSegmento < Modulo
  BY <1>2, <1>5
<1>7. Suma(b, k) = b + k
  BY <1>2, <1>6, SumaTipo
<1>8. (k + n <= t => Suma(k, n) = k + n) /\ (k + n < Modulo => Suma(k, n) = k + n)
  <2>1. k + n <= t => k + n < Modulo
    BY <1>2, <1>3, <1>5, <1>6
  <2>. QED  BY <1>3, <2>1, SumaTipo
<1>9. n <= Total => k + n < Modulo
  BY <1>2, <1>3, <1>5
<1>10. k + n <= t => \A i \in 1..n : b + k + i - 1 \in b..(b + t - 1)
  BY <1>3
<1>11. Lugar(s, x) = b + k
  BY <1>4 DEF Lugar
<1>12. Cabe(s, x, n) => \A i \in 1..n : Lugar(s, x) + i - 1 \in Rango(s)
  BY <1>4, <1>10, <1>11 DEF Cabe, Rango
<1>13. Cabe(s, x, n) <=> (s.id = x \div TamMaxSegmento /\ k + n <= t)
  BY <1>4 DEF Cabe
<1>14. Pasa(s, x, n) <=> (s.id = x \div TamMaxSegmento /\ Suma(k, n) <= t)
  BY <1>4 DEF Pasa
<1>15. /\ Cabe(s, x, n) => Pasa(s, x, n)
       /\ Pasa(s, x, n) /\ k + n < Modulo => Cabe(s, x, n)
       /\ Pasa(s, x, n) /\ n <= Total => Cabe(s, x, n)
  BY <1>8, <1>9, <1>13, <1>14
<1>16. s.base \in Nat /\ s.tam \in Nat \ {0} /\ Lugar(s, x) \in Nat /\ Lugar(s, x) < FALLO
       /\ Suma(s.base, x % TamMaxSegmento) = Lugar(s, x) /\ x % TamMaxSegmento \in Nat
  BY <1>4, <1>5, <1>6, <1>7, <1>11 DEF FALLO
<1>. QED  BY <1>3, <1>4, <1>12, <1>15, <1>16 DEF Lugar

\* mmu_traducir with the segments that Kernel Memory gave.
LEMMA TraducirPasa ==
  ASSUME MemoriaChica, NEW T \in Seq(Segmento), EnMemoria(Range(T)), NEW x \in Palabra, NEW n \in Palabra
  PROVE  /\ MmuTraducir(T, x, n) # FALLO =>
              \E s \in Range(T) : Pasa(s, x, n) /\ MmuTraducir(T, x, n) = Lugar(s, x)
         /\ MmuTraducir(T, x, n) = FALLO => ~ \E s \in Range(T) : Cabe(s, x, n)
<1>. DEFINE y == MmuTraducir(T, x, n)
<1>1. \A i \in DOMAIN T : T[i] \in Range(T)
  BY DEF Range
<1>2. CASE y # FALLO
  <2>1. PICK i \in DOMAIN T : /\ T[i].id = x \div TamMaxSegmento
                              /\ Suma(x % TamMaxSegmento, n) <= T[i].tam
                              /\ y = Suma(T[i].base, x % TamMaxSegmento)
    BY <1>2, TraducirEs
  <2>2. Pasa(T[i], x, n)
    BY <2>1 DEF Pasa
  <2>3. Suma(T[i].base, x % TamMaxSegmento) = Lugar(T[i], x)
    BY <1>1, LugarEs
  <2>. QED  BY <1>1, <1>2, <2>1, <2>2, <2>3
<1>3. CASE y = FALLO
  <2>1. SUFFICES ASSUME NEW s \in Range(T), Cabe(s, x, n) PROVE FALSE
    BY <1>3
  <2>2. PICK i \in DOMAIN T : s = T[i]
    BY DEF Range
  <2>3. T[i].id = x \div TamMaxSegmento
    BY <2>1, <2>2 DEF Cabe
  <2>4. PICK j \in DOMAIN T : /\ T[j].id = x \div TamMaxSegmento
                              /\ \/ Suma(x % TamMaxSegmento, n) > T[j].tam
                                 \/ Suma(T[j].base, x % TamMaxSegmento) = FALLO
    BY <1>3, <2>3, TraducirEs
  <2>5. T[j] = s
    BY <1>1, <2>2, <2>3, <2>4 DEF EnMemoria
  <2>6. Pasa(s, x, n) /\ Suma(s.base, x % TamMaxSegmento) = Lugar(s, x) /\ Lugar(s, x) < FALLO
        /\ Lugar(s, x) \in Nat /\ s.tam \in Nat
    BY <2>1, LugarEs
  <2>7. Suma(x % TamMaxSegmento, n) <= s.tam /\ Suma(x % TamMaxSegmento, n) \in Palabra
    <3>1. x % TamMaxSegmento \in Nat /\ n \in Nat
      BY LugarEs
    <3>. QED  BY <2>6, <3>1, SumaTipo DEF Pasa
  <2>8. Suma(s.base, x % TamMaxSegmento) # FALLO
    BY <2>6, TotalTipo DEF FALLO
  <2>9. ~ (Suma(x % TamMaxSegmento, n) > s.tam)
    BY <2>6, <2>7, TotalTipo DEF Palabra
  <2>. QED  BY <2>4, <2>5, <2>8, <2>9
<1>. QED  BY <1>2, <1>3

-----------------------------------------------------------------------------
(* The facts about a CPU are kept *)

\* The values of an access.
LEMMA AccesoTipo ==
  ASSUME NEW r \in CpuT
  PROVE  /\ r.acceso \in Operaciones
         /\ r.acceso.ori \in Palabra /\ r.acceso.dst \in Palabra /\ r.acceso.tam \in Palabra
         /\ r.acceso.tam \in Nat /\ r.restante \in Nat /\ r.dir \in Nat /\ r.destino \in Nat
         /\ r.acceso.op \in {"MOV_IN", "MOV_OUT", "COPY_MEM", "IO"}
         /\ r.buffer \in Seq(Valores)
BY TotalTipo DEF CpuT, Operaciones, Palabra

\* What others do to the memory of others.
LEMMA HechosAjenos ==
  ASSUME MemoriaChica, NEW G, EnMemoria(G), NEW r \in CpuT, NEW B, NEW C, Hechos(r, G, B),
         r.en = "leer" => r.restante <= r.acceso.tam,
         \A s \in G : \A d \in Rango(s) : C[d] = B[d]
  PROVE  Hechos(r, G, C)
<1>a. /\ r.acceso.ori \in Palabra /\ r.acceso.dst \in Palabra /\ r.acceso.tam \in Palabra
      /\ r.acceso.tam \in Nat /\ r.restante \in Nat
  BY AccesoTipo
<1>b. r.restante <= r.acceso.tam =>
        \A i \in 1..(r.acceso.tam - r.restante) : i \in 1..r.acceso.tam
  <2>1. PICK t, k \in Nat : t = r.acceso.tam /\ k = r.restante
    BY <1>a
  <2>2. \A i \in 1..(t - k) : i \in 1..t
    BY <2>1
  <2>. QED  BY <2>1, <2>2
<1>c. \A s \in G : \A x \in Palabra : Cabe(s, x, r.acceso.tam) =>
        \A i \in 1..r.acceso.tam : Lugar(s, x) + i - 1 \in Rango(s)
  BY <1>a, LugarEs
<1>1. EnLectura(r, G, C)
  <2>1. SUFFICES ASSUME r.en = "leer"
        PROVE  /\ r.acceso.op \in {"MOV_IN", "COPY_MEM"}
               /\ \E s \in G :
                    /\ Pasa(s, r.acceso.ori, r.acceso.tam)
                    /\ r.dir = Lugar(s, r.acceso.ori) + (r.acceso.tam - r.restante)
                    /\ r.restante < r.acceso.tam => r.dir <= Total
                    /\ Cabe(s, r.acceso.ori, r.acceso.tam) =>
                         \A i \in 1..(r.acceso.tam - r.restante) : r.buffer[i] = C[Lugar(s, r.acceso.ori) + i - 1]
               /\ r.acceso.op = "COPY_MEM" =>
                    \E s \in G : Pasa(s, r.acceso.dst, r.acceso.tam) /\ r.destino = Lugar(s, r.acceso.dst)
    BY DEF EnLectura
  <2>2. PICK s \in G :
          /\ Pasa(s, r.acceso.ori, r.acceso.tam)
          /\ r.dir = Lugar(s, r.acceso.ori) + (r.acceso.tam - r.restante)
          /\ r.restante < r.acceso.tam => r.dir <= Total
          /\ Cabe(s, r.acceso.ori, r.acceso.tam) =>
               \A i \in 1..(r.acceso.tam - r.restante) : r.buffer[i] = B[Lugar(s, r.acceso.ori) + i - 1]
    BY <2>1 DEF Hechos, EnLectura
  <2>3. Cabe(s, r.acceso.ori, r.acceso.tam) =>
          \A i \in 1..(r.acceso.tam - r.restante) : r.buffer[i] = C[Lugar(s, r.acceso.ori) + i - 1]
    BY <1>a, <1>b, <1>c, <2>1, <2>2
  <2>. QED  BY <2>1, <2>2, <2>3 DEF Hechos, EnLectura
<1>2. EnEscritura(r, G, C)
  <2>1. SUFFICES ASSUME r.en \in {"escribir", "hecho"}, r.acceso.op # "IO", Escribe(r.acceso)
        PROVE  \E s \in G :
                 /\ Cabe(s, r.acceso.dst, r.acceso.tam)
                 /\ r.en = "escribir" => r.dir = Lugar(s, r.acceso.dst) + (r.acceso.tam - r.restante)
                 /\ \A i \in 1..(r.acceso.tam - r.restante) : C[Lugar(s, r.acceso.dst) + i - 1] = r.buffer[i]
    BY DEF Hechos, EnEscritura
  <2>2. PICK s \in G :
          /\ Cabe(s, r.acceso.dst, r.acceso.tam)
          /\ r.en = "escribir" => r.dir = Lugar(s, r.acceso.dst) + (r.acceso.tam - r.restante)
          /\ \A i \in 1..(r.acceso.tam - r.restante) : B[Lugar(s, r.acceso.dst) + i - 1] = r.buffer[i]
    BY <2>1 DEF Hechos, EnEscritura
  <2>3. \A i \in 1..(r.acceso.tam - r.restante) : C[Lugar(s, r.acceso.dst) + i - 1] = r.buffer[i]
    <3>1. r.restante <= r.acceso.tam
      BY <2>1 DEF Hechos, EnEscritura
    <3>. QED  BY <1>a, <1>b, <1>c, <2>2, <3>1
  <2>. QED  BY <2>2, <2>3
<1>. QED  BY <1>1, <1>2 DEF Hechos

\* At the beginning of an access nothing is read nor written.
LEMMA HechosEjecutar ==
  ASSUME MemoriaChica, Inv, NEW c \in Cpus, Ejecutar(c)
  PROVE  Hechos(cpu'[c], Range(tabla[cpu[c].pid]), bytes')
<1>t. InvTipos /\ cpu[c] \in CpuT /\ InvRafagas
  BY DEF Inv, InvTipos
<1>1. cpu[c].pid \in Pids /\ cpu[c].segs = tabla[cpu[c].pid]
  BY <1>t DEF Ejecutar, InvRafagas, InvTipos, CpuT
<1>. DEFINE T == tabla[cpu[c].pid]
            G == Range(T)
            s == cpu'[c]
<1>2. T \in Seq(Segmento) /\ EnMemoria(G)
  BY <1>t, <1>1, EstaEnMemoria DEF InvTipos
<1>3. PICK a \in Accesos[c] : a \in Operaciones
        /\ Empieza(c, a, MmuTraducir(cpu[c].segs, a.ori, a.tam), MmuTraducir(cpu[c].segs, a.dst, a.tam))
  BY EjecutarEs
<1>. DEFINE ori == MmuTraducir(T, a.ori, a.tam)
            dst == MmuTraducir(T, a.dst, a.tam)
            falla == (Lee(a) /\ ori = FALLO) \/ (Escribe(a) /\ dst = FALLO)
<1>4. a.ori \in Palabra /\ a.dst \in Palabra /\ a.tam \in Palabra /\ a.tam \in Nat
  BY <1>3, TotalTipo DEF Operaciones, Palabra
<1>5. /\ ori # FALLO => \E g \in G : Pasa(g, a.ori, a.tam) /\ ori = Lugar(g, a.ori)
      /\ ori = FALLO => ~ \E g \in G : Cabe(g, a.ori, a.tam)
  BY <1>2, <1>4, TraducirPasa
<1>6. /\ dst # FALLO => \E g \in G : Pasa(g, a.dst, a.tam) /\ dst = Lugar(g, a.dst)
      /\ dst = FALLO => ~ \E g \in G : Cabe(g, a.dst, a.tam)
  BY <1>2, <1>4, TraducirPasa
<1>7. /\ s.acceso = a /\ s.reintentado = FALSE /\ s.negado = FALSE
      /\ \/ falla /\ s.en = "fallo"
         \/ ~ falla /\ a.op = "IO" /\ s.en = "hecho"
         \/ /\ ~ falla /\ a.op \in {"MOV_IN", "COPY_MEM"} /\ s.en = "leer"
            /\ s.dir = ori /\ s.restante = a.tam /\ s.destino = dst
         \/ /\ ~ falla /\ a.op = "MOV_OUT" /\ s.en = "escribir"
            /\ s.dir = dst /\ s.restante = a.tam
  BY <1>1, <1>3 DEF Empieza
<1>. HIDE DEF ori, dst, s, G
<1>8. \A i \in 1..(a.tam - a.tam) : FALSE
  BY <1>4
<1>9. \A g \in G : \A x \in Palabra : Lugar(g, x) \in Nat /\ Lugar(g, x) = Lugar(g, x) + (a.tam - a.tam)
  BY <1>2, <1>4, LugarEs
<1>10. EnLectura(s, G, bytes')
  <2>1. SUFFICES ASSUME s.en = "leer"
        PROVE  EnLectura(s, G, bytes')
    BY DEF EnLectura
  <2>2. /\ ~ falla /\ a.op \in {"MOV_IN", "COPY_MEM"}
        /\ s.dir = ori /\ s.restante = a.tam /\ s.destino = dst
    BY <1>7, <2>1
  <2>3. PICK g \in G : Pasa(g, a.ori, a.tam) /\ ori = Lugar(g, a.ori)
    BY <1>5, <2>2 DEF Lee
  <2>4. a.op = "COPY_MEM" => \E h \in G : Pasa(h, a.dst, a.tam) /\ dst = Lugar(h, a.dst)
    BY <1>6, <2>2 DEF Escribe
  <2>5. /\ s.dir = Lugar(g, s.acceso.ori) + (s.acceso.tam - s.restante)
        /\ ~ (s.restante < s.acceso.tam)
        /\ \A i \in 1..(s.acceso.tam - s.restante) : FALSE
    BY <1>4, <1>7, <1>8, <1>9, <2>2, <2>3
  <2>. QED  BY <1>7, <2>2, <2>3, <2>4, <2>5 DEF EnLectura
<1>11. EnEscritura(s, G, bytes')
  <2>1. SUFFICES ASSUME s.en = "escribir"
        PROVE  EnEscritura(s, G, bytes')
    BY <1>7 DEF EnEscritura
  <2>2. ~ falla /\ a.op = "MOV_OUT" /\ s.dir = dst /\ s.restante = a.tam
    BY <1>7, <2>1
  <2>3. PICK g \in G : Pasa(g, a.dst, a.tam) /\ dst = Lugar(g, a.dst)
    BY <1>6, <2>2 DEF Escribe
  <2>4. a.tam = 1 \/ TamMaxSegmento + a.tam < Modulo
    BY <2>2, MmuOK
  <2>5. (a.dst % TamMaxSegmento) + a.tam < Modulo
    <3>1. /\ a.dst % TamMaxSegmento \in 0..(TamMaxSegmento - 1) /\ TamMaxSegmento \in Nat \ {0}
          /\ Total \in Nat /\ Modulo \in Nat /\ TamMaxSegmento <= Modulo - Total
      BY <1>4, DesplazamientoTipo, TotalTipo DEF MemoriaChica
    <3>2. Total >= 1
      <4>1. g.base \in 0..(Total - 1)
        BY <1>2, SegmentoTipo DEF EnMemoria
      <4>. QED  BY <3>1, <4>1
    <3>. QED  BY <1>4, <2>4, <3>1, <3>2
  <2>6. Cabe(g, a.dst, a.tam)
    BY <1>2, <1>4, <2>3, <2>5, LugarEs
  <2>7. /\ s.dir = Lugar(g, s.acceso.dst) + (s.acceso.tam - s.restante)
        /\ \A i \in 1..(s.acceso.tam - s.restante) : FALSE
        /\ s.restante <= s.acceso.tam
    BY <1>4, <1>7, <1>8, <1>9, <2>2, <2>3
  <2>. QED  BY <1>7, <2>2, <2>6, <2>7 DEF EnEscritura, Lee, Escribe
<1>12. EnFallo(s, G)
  <2>1. SUFFICES ASSUME s.en = "fallo" PROVE ~ PermitidoEn(a, G)
    BY <1>7 DEF EnFallo
  <2>2. falla
    BY <1>7, <2>1
  <2>. QED  BY <1>5, <1>6, <2>2 DEF PermitidoEn
<1>13. EnReintento(s, G)
  BY <1>7 DEF EnReintento
<1>14. Hechos(s, G, bytes')
  BY <1>10, <1>11, <1>12, <1>13 DEF Hechos
<1>. QED  BY <1>14 DEF s, G

\* A turn of operar_fisico that reads.
LEMMA HechosLeer ==
  ASSUME MemoriaChica, Inv, InvHechos, NEW c \in Cpus, OperarFisico(c), cpu[c].en = "leer"
  PROVE  Hechos(cpu'[c], Range(tabla[cpu[c].pid]), bytes')
<1>t. InvTipos /\ InvBuffer /\ cpu[c] \in CpuT
  BY DEF Inv, InvTipos
<1>. DEFINE G == Range(tabla[cpu[c].pid])
            r == cpu[c]
            s == cpu'[c]
            a == cpu[c].acceso
<1>1. PICK n \in 1..r.restante : Turno(c, n)
  BY OperarFisicoEs
<1>2. EnMemoria(G)
  <2>1. r.pid \in Pids
    BY <1>t DEF InvTipos, CpuT
  <2>. QED  BY <2>1, EstaEnMemoria
<1>3. Hechos(r, G, bytes)
  BY DEF InvHechos
<1>. DEFINE leidos == [i \in 1..n |-> bytes[r.dir + i - 1]]
<1>4. /\ s.en = "leer" /\ s.acceso = a /\ s.sticks = r.sticks /\ s.destino = r.destino
      /\ s.reintentado = r.reintentado /\ s.negado = r.negado /\ s.dir = r.dir + n
      /\ s.restante = r.restante - n /\ bytes' = bytes /\ r.dir + n <= Total
      /\ s.buffer = r.buffer \o leidos
  BY <1>1 DEF Turno
<1>5. /\ a.ori \in Palabra /\ a.dst \in Palabra /\ a.tam \in Palabra
      /\ a.tam \in Nat /\ r.restante \in Nat /\ r.dir \in Nat /\ r.buffer \in Seq(Valores)
  BY <1>t, AccesoTipo
<1>6. r.restante <= a.tam /\ Len(r.buffer) = a.tam - r.restante
  BY <1>t DEF InvBuffer
<1>7. PICK g \in G :
        /\ Pasa(g, a.ori, a.tam)
        /\ r.dir = Lugar(g, a.ori) + (a.tam - r.restante)
        /\ Cabe(g, a.ori, a.tam) =>
             \A i \in 1..(a.tam - r.restante) : r.buffer[i] = bytes[Lugar(g, a.ori) + i - 1]
  BY <1>3 DEF Hechos, EnLectura
<1>8. PICK t, k, D, L \in Nat : t = a.tam /\ k = r.restante /\ D = r.dir /\ L = Lugar(g, a.ori)
  BY <1>2, <1>5, LugarEs
<1>9. n \in Nat /\ n >= 1 /\ n <= k /\ k <= t /\ D = L + (t - k)
  BY <1>6, <1>7, <1>8
<1>10. /\ t - (k - n) = (t - k) + n /\ t - k \in Nat
       /\ D + n = L + (t - (k - n))
  BY <1>9
<1>11. s.dir = Lugar(g, a.ori) + (a.tam - s.restante) /\ s.dir <= Total
  BY <1>4, <1>8, <1>10
<1>l. leidos = [i \in 1..n |-> bytes[D + i - 1]]
  BY <1>8
<1>. HIDE DEF leidos
<1>12. leidos \in Seq(Valores) /\ Len(leidos) = n
  <2>1. \A i \in 1..n : D + i - 1 \in Direcciones
    <3>1. D + n <= Total /\ Total \in Nat
      BY <1>4, <1>8, TotalTipo
    <3>. QED  BY <1>9, <3>1 DEF Direcciones
  <2>2. bytes \in [Direcciones -> Valores]
    BY <1>t DEF InvTipos
  <2>3. [i \in 1..n |-> bytes[D + i - 1]] \in [1..n -> Valores]
    BY <2>1, <2>2
  <2>4. leidos \in [1..n -> Valores]
    BY <1>l, <2>3
  <2>. QED  BY <1>9, <2>4
<1>13. ASSUME Cabe(g, a.ori, a.tam), NEW i \in 1..((t - k) + n)
       PROVE  s.buffer[i] = bytes[L + i - 1]
  <2>1. Len(r.buffer) = t - k
    BY <1>6, <1>8
  <2>2. CASE i \in 1..(t - k)
    <3>1. r.buffer[i] = bytes[L + i - 1]
      BY <1>7, <1>8, <1>13, <2>2
    <3>2. (r.buffer \o leidos)[i] = r.buffer[i]
      BY <1>5, <1>12, <2>1, <2>2
    <3>. QED  BY <1>4, <3>1, <3>2
  <2>3. CASE i \notin 1..(t - k)
    <3>1. i - (t - k) \in 1..n /\ D + (i - (t - k)) - 1 = L + i - 1
      BY <1>9, <1>10, <1>13, <2>3
    <3>2. (r.buffer \o leidos)[i] = leidos[i - (t - k)]
      <4>1. i \in 1..(Len(r.buffer) + Len(leidos)) /\ ~ (i <= Len(r.buffer))
        BY <1>9, <1>10, <1>12, <1>13, <2>1, <2>3
      <4>2. (r.buffer \o leidos)[i] = leidos[i - Len(r.buffer)]
        BY <1>5, <1>12, <4>1, ConcatProperties, SMTT(40)
      <4>. QED  BY <2>1, <4>2
    <3>3. leidos[i - (t - k)] = bytes[D + (i - (t - k)) - 1]
      BY <1>l, <3>1
    <3>. QED  BY <1>4, <3>1, <3>2, <3>3
  <2>. QED  BY <2>2, <2>3
<1>14. EnLectura(s, G, bytes')
  <2>1. a.tam - s.restante = (t - k) + n
    BY <1>4, <1>8, <1>10
  <2>2. Cabe(g, a.ori, a.tam) => \A i \in 1..(a.tam - s.restante) : s.buffer[i] = bytes[Lugar(g, a.ori) + i - 1]
    BY <1>8, <1>13, <2>1
  <2>. HIDE DEF s, G
  <2>. QED  BY <1>3, <1>4, <1>7, <1>11, <2>2, ZenonT(60) DEF EnLectura, Hechos
<1>15. EnEscritura(s, G, bytes') /\ EnFallo(s, G)
  BY <1>4 DEF EnEscritura, EnFallo
<1>16. EnReintento(s, G)
  BY <1>3, <1>4 DEF EnReintento, Hechos
<1>. QED  BY <1>14, <1>15, <1>16 DEF Hechos

\* A turn that writes: only in the segment.
LEMMA HechosEscribir ==
  ASSUME MemoriaChica, Inv, InvHechos, NEW c \in Cpus, OperarFisico(c), cpu[c].en = "escribir"
  PROVE  /\ Hechos(cpu'[c], Range(tabla[cpu[c].pid]), bytes')
         /\ \A d \in Direcciones : bytes'[d] # bytes[d] =>
              \E g \in Range(tabla[cpu[c].pid]) : d \in Rango(g)
<1>t. InvTipos /\ InvBuffer /\ cpu[c] \in CpuT
  BY DEF Inv, InvTipos
<1>. DEFINE G == Range(tabla[cpu[c].pid])
            r == cpu[c]
            s == cpu'[c]
            a == cpu[c].acceso
<1>1. PICK n \in 1..r.restante : Turno(c, n)
  BY OperarFisicoEs
<1>2. EnMemoria(G)
  <2>1. r.pid \in Pids
    BY <1>t DEF InvTipos, CpuT
  <2>. QED  BY <2>1, EstaEnMemoria
<1>3. Hechos(r, G, bytes)
  BY DEF InvHechos
<1>4. /\ s.en = "escribir" /\ s.acceso = a /\ s.sticks = r.sticks
      /\ s.reintentado = r.reintentado /\ s.negado = r.negado /\ s.dir = r.dir + n
      /\ s.restante = r.restante - n /\ r.dir + n <= Total /\ s.buffer = r.buffer
      /\ bytes' = [d \in Direcciones |->
                     IF d \in r.dir..(r.dir + n - 1) THEN r.buffer[Cursor(r) + d - r.dir + 1] ELSE bytes[d]]
  BY <1>1 DEF Turno
<1>5. /\ a.ori \in Palabra /\ a.dst \in Palabra /\ a.tam \in Palabra
      /\ a.tam \in Nat /\ r.restante \in Nat /\ r.dir \in Nat
      /\ a.op \in {"MOV_IN", "MOV_OUT", "COPY_MEM", "IO"}
  BY <1>t, AccesoTipo
<1>6. r.restante <= a.tam
  BY <1>t DEF InvBuffer
<1>e. Escribe(a) /\ a.op # "IO"
  BY <1>3 DEF Hechos, EnEscritura, Escribe
<1>7. PICK g \in G :
        /\ Cabe(g, a.dst, a.tam)
        /\ r.dir = Lugar(g, a.dst) + (a.tam - r.restante)
        /\ \A i \in 1..(a.tam - r.restante) : bytes[Lugar(g, a.dst) + i - 1] = r.buffer[i]
  BY <1>3, <1>e DEF Hechos, EnEscritura
<1>8. PICK t, k, D, L \in Nat : t = a.tam /\ k = r.restante /\ D = r.dir /\ L = Lugar(g, a.dst)
  BY <1>2, <1>5, LugarEs
<1>9. n \in Nat /\ n >= 1 /\ n <= k /\ k <= t /\ D = L + (t - k)
  BY <1>6, <1>7, <1>8
<1>10. /\ t - (k - n) = (t - k) + n /\ t - k \in Nat
       /\ D + n = L + (t - (k - n))
  BY <1>9
<1>11. s.dir = Lugar(g, a.dst) + (a.tam - s.restante)
  BY <1>4, <1>8, <1>10
<1>12. \A d \in Direcciones : bytes'[d] = IF d \in D..(D + n - 1) THEN r.buffer[(t - k) + d - D + 1] ELSE bytes[d]
  BY <1>4, <1>8 DEF Cursor
<1>13. D + n <= Total /\ Total \in Nat
  BY <1>4, <1>8, TotalTipo
<1>14. ASSUME NEW i \in 1..((t - k) + n)
       PROVE  bytes'[L + i - 1] = r.buffer[i]
  <2>1. L + i - 1 \in Direcciones
    BY <1>9, <1>10, <1>13, <1>14 DEF Direcciones
  <2>2. CASE i \in 1..(t - k)
    <3>1. L + i - 1 \notin D..(D + n - 1)
      BY <1>9, <1>10, <2>2
    <3>2. bytes[L + i - 1] = r.buffer[i]
      BY <1>7, <1>8, <2>2
    <3>. QED  BY <1>12, <2>1, <3>1, <3>2
  <2>3. CASE i \notin 1..(t - k)
    <3>1. L + i - 1 \in D..(D + n - 1) /\ (t - k) + (L + i - 1) - D + 1 = i
      BY <1>9, <1>10, <1>14, <2>3, SMTT(40)
    <3>. QED  BY <1>12, <2>1, <3>1
  <2>. QED  BY <2>2, <2>3
<1>15. EnEscritura(s, G, bytes')
  <2>1. a.tam - s.restante = (t - k) + n /\ s.restante <= a.tam
    BY <1>4, <1>8, <1>9, <1>10
  <2>2. \A i \in 1..(a.tam - s.restante) : bytes'[Lugar(g, a.dst) + i - 1] = s.buffer[i]
    BY <1>4, <1>8, <1>14, <2>1
  <2>3. Lee(a) => \E h \in G : Cabe(h, a.ori, a.tam)
    BY <1>3, <1>e DEF Hechos, EnEscritura
  <2>. HIDE DEF s, G
  <2>. QED  BY <1>e, <1>4, <1>7, <1>11, <2>1, <2>2, <2>3, ZenonT(60) DEF EnEscritura
<1>16. EnLectura(s, G, bytes') /\ EnFallo(s, G)
  BY <1>4 DEF EnLectura, EnFallo
<1>17. EnReintento(s, G)
  BY <1>3, <1>4 DEF EnReintento, Hechos
<1>18. ASSUME NEW d \in Direcciones, bytes'[d] # bytes[d]
       PROVE  \E h \in G : d \in Rango(h)
  <2>1. d \in D..(D + n - 1)
    BY <1>12, <1>18
  <2>2. d - L + 1 \in 1..t /\ L + (d - L + 1) - 1 = d
    BY <1>9, <1>10, <2>1
  <2>3. \A i \in 1..t : L + i - 1 \in Rango(g)
    BY <1>2, <1>5, <1>7, <1>8, LugarEs
  <2>. QED  BY <2>2, <2>3
<1>. QED  BY <1>15, <1>16, <1>17, <1>18 DEF Hechos

\* A second topology without a refusal has the sticks of every segment.
LEMMA HechosReintentar ==
  ASSUME MemoriaChica, Inv, InvHechos, NEW c \in Cpus, Reintentar(c)
  PROVE  Hechos(cpu'[c], Range(tabla[cpu[c].pid]), bytes')
<1>t. InvTipos /\ InvSegmentos /\ InvBuffer /\ cpu[c] \in CpuT
  BY DEF Inv, InvTipos
<1>. DEFINE G == Range(tabla[cpu[c].pid])
            r == cpu[c]
            s == cpu'[c]
            a == cpu[c].acceso
<1>1. r.pid \in Pids /\ EnMemoria(G) /\ Hechos(r, G, bytes)
  <2>1. r.en # "libre"
    BY ReintentarEs
  <2>2. r.pid \in Pids
    BY <1>t, <2>1 DEF InvTipos, CpuT
  <2>. QED  BY <2>1, <2>2, EstaEnMemoria DEF InvHechos
<1>2. bytes' = bytes /\ r.restante > 0
  BY DEF Reintentar
<1>3. /\ r.en \in {"leer", "escribir"} /\ ParaDireccion(r.sticks, r.dir) = {}
      /\ s.acceso = a /\ s.buffer = r.buffer /\ s.restante = r.restante
  BY ReintentarEs
<1>4. /\ a.ori \in Palabra /\ a.dst \in Palabra /\ a.tam \in Palabra
      /\ a.tam \in Nat /\ r.restante \in Nat
  BY <1>t, AccesoTipo
<1>5. r.restante <= a.tam
  BY <1>3, <1>t DEF InvBuffer
<1>6. ASSUME NEW g \in G, NEW x \in Palabra, Cabe(g, x, a.tam), r.dir = Lugar(g, x) + (a.tam - r.restante)
      PROVE  r.dir \in Rango(g)
  <2>1. PICK t, k, L \in Nat : t = a.tam /\ k = r.restante /\ L = Lugar(g, x)
    BY <1>1, <1>4, LugarEs
  <2>2. (t - k) + 1 \in 1..t /\ L + ((t - k) + 1) - 1 = L + (t - k)
    BY <1>2, <1>5, <2>1
  <2>3. \A i \in 1..t : L + i - 1 \in Rango(g)
    BY <1>1, <1>4, <1>6, <2>1, LugarEs
  <2>4. r.dir = L + (t - k)
    BY <1>6, <2>1
  <2>. QED  BY <2>2, <2>3, <2>4
<1>7. CASE r.reintentado /\ s.en = "fallo" /\ s.negado = r.negado
  <2>1. EnFallo(s, G)
    <3>1. SUFFICES ASSUME PermitidoEn(a, G), ~ r.negado PROVE FALSE
      BY <1>3, <1>7 DEF EnFallo
    <3>2. \A g \in G : \A d \in Rango(g) : ParaDireccion(r.sticks, d) # {}
      BY <1>1, <1>3, <1>7, <3>1 DEF Hechos, EnReintento
    <3>3. CASE r.en = "leer"
      <4>1. PICK g \in G : /\ Pasa(g, a.ori, a.tam)
                           /\ r.dir = Lugar(g, a.ori) + (a.tam - r.restante)
        BY <1>1, <3>3 DEF Hechos, EnLectura
      <4>2. Lee(a)
        BY <1>1, <3>3 DEF Hechos, EnLectura, Lee
      <4>3. PICK h \in G : Cabe(h, a.ori, a.tam)
        BY <3>1, <4>2 DEF PermitidoEn
      <4>4. h = g
        BY <1>1, <4>1, <4>3 DEF EnMemoria, Cabe, Pasa
      <4>5. r.dir \in Rango(g)
        BY <1>4, <1>6, <4>1, <4>3, <4>4
      <4>. QED  BY <1>3, <3>2, <4>5
    <3>4. CASE r.en = "escribir"
      <4>1. Escribe(a) /\ a.op # "IO"
        BY <1>1, <3>4 DEF Hechos, EnEscritura, Escribe
      <4>2. PICK g \in G : /\ Cabe(g, a.dst, a.tam)
                           /\ r.dir = Lugar(g, a.dst) + (a.tam - r.restante)
        BY <1>1, <3>4, <4>1 DEF Hechos, EnEscritura
      <4>3. r.dir \in Rango(g)
        BY <1>4, <1>6, <4>2
      <4>. QED  BY <1>3, <3>2, <4>3
    <3>. QED  BY <1>3, <3>3, <3>4
  <2>2. EnLectura(s, G, bytes') /\ EnEscritura(s, G, bytes') /\ EnReintento(s, G)
    BY <1>7 DEF EnLectura, EnEscritura, EnReintento
  <2>. QED  BY <2>1, <2>2 DEF Hechos
<1>8. CASE /\ s.en = r.en /\ s.dir = r.dir /\ s.destino = r.destino /\ s.reintentado = TRUE
           /\ s.negado \/ 1..conectados \subseteq s.sticks
  <2>1. EnLectura(s, G, bytes') /\ EnEscritura(s, G, bytes') /\ EnFallo(s, G)
    <3>. HIDE DEF s, G
    <3>1. EnLectura(s, G, bytes)
      BY <1>1, <1>3, <1>8 DEF Hechos, EnLectura
    <3>2. EnEscritura(s, G, bytes)
      BY <1>1, <1>3, <1>8 DEF Hechos, EnEscritura
    <3>3. EnFallo(s, G)
      BY <1>3, <1>8 DEF EnFallo
    <3>. QED  BY <1>2, <3>1, <3>2, <3>3
  <2>2. EnReintento(s, G)
    <3>1. SUFFICES ASSUME 1..conectados \subseteq s.sticks, NEW g \in G, NEW d \in Rango(g)
          PROVE  ParaDireccion(s.sticks, d) # {}
      BY <1>8 DEF EnReintento
    <3>2. conectados \in 0..Len(Tamanios) /\ conectados + 1 \in 1..(Len(Tamanios) + 1)
      BY <1>t, TamanioTipo, MmuOK DEF InvTipos
    <3>3. Base[conectados + 1] \in Nat
      BY <3>2, BaseTipo
    <3>4. g.base + g.tam <= Base[conectados + 1]
      BY <1>t, <1>1 DEF InvSegmentos
    <3>5. g.base \in Nat /\ g.tam \in Nat
      <4>1. g \in Segmento
        BY <1>1 DEF EnMemoria
      <4>. QED  BY <4>1, SegmentoTipo, TotalTipo, MmuOK
    <3>6. d \in Nat /\ d < Base[conectados + 1]
      BY <3>1, <3>3, <3>4, <3>5 DEF Rango
    <3>7. PICK k \in 1..conectados : d \in Base[k]..(Base[k] + Tamanios[k] - 1)
      BY <3>2, <3>6, HayStick
    <3>. QED  BY <3>1, <3>7 DEF ParaDireccion
  <2>. QED  BY <2>1, <2>2 DEF Hechos
<1>. QED  BY <1>7, <1>8, ReintentarEs

\* A read that ends has not gone out of the memory: the sum of mmu_traducir did
\* not wrap.
LEMMA HechosCompletar ==
  ASSUME MemoriaChica, Inv, InvHechos, NEW c \in Cpus, Completar(c)
  PROVE  Hechos(cpu'[c], Range(tabla[cpu[c].pid]), bytes')
<1>t. InvTipos /\ cpu[c] \in CpuT
  BY DEF Inv, InvTipos
<1>. DEFINE G == Range(tabla[cpu[c].pid])
            r == cpu[c]
            s == cpu'[c]
            a == cpu[c].acceso
<1>0. /\ r.en \in {"leer", "escribir"} /\ r.restante = 0 /\ s.acceso = a /\ s.buffer = r.buffer
      /\ s.reintentado = FALSE
      /\ \/ /\ r.en = "leer" /\ a.op = "COPY_MEM" /\ s.en = "escribir"
            /\ s.dir = r.destino /\ s.restante = a.tam /\ s.destino = r.destino
         \/ /\ ~ (r.en = "leer" /\ a.op = "COPY_MEM") /\ s.en = "hecho" /\ s.restante = 0
  BY CompletarEs
<1>1. r.pid \in Pids /\ EnMemoria(G) /\ Hechos(r, G, bytes)
  <2>1. r.en # "libre"
    BY <1>0
  <2>2. r.pid \in Pids
    BY <1>t, <2>1 DEF InvTipos, CpuT
  <2>. QED  BY <2>1, <2>2, EstaEnMemoria DEF InvHechos
<1>2. bytes' = bytes
  BY DEF Completar
<1>4. /\ a.ori \in Palabra /\ a.dst \in Palabra /\ a.tam \in Palabra
      /\ a.tam \in Nat /\ r.dir \in Nat /\ r.destino \in Nat
      /\ a.op \in {"MOV_IN", "MOV_OUT", "COPY_MEM", "IO"}
  BY <1>t, AccesoTipo
<1>5. r.en = "leer" => /\ a.op \in {"MOV_IN", "COPY_MEM"} /\ a.tam <= Total
                       /\ \E g \in G : Cabe(g, a.ori, a.tam)
  <2>1. SUFFICES ASSUME r.en = "leer"
        PROVE  /\ a.op \in {"MOV_IN", "COPY_MEM"} /\ a.tam <= Total
               /\ \E g \in G : Cabe(g, a.ori, a.tam)
    OBVIOUS
  <2>2. PICK g \in G : /\ Pasa(g, a.ori, a.tam)
                       /\ r.dir = Lugar(g, a.ori) + (a.tam - r.restante)
                       /\ r.restante < a.tam => r.dir <= Total
    BY <1>1, <2>1 DEF Hechos, EnLectura
  <2>3. a.tam <= Total
    <3>1. PICK t, L, D \in Nat : t = a.tam /\ L = Lugar(g, a.ori) /\ D = r.dir
      BY <1>1, <1>4, LugarEs
    <3>2. D = L + (t - 0) /\ (0 < t => D <= Total) /\ Total \in Nat
      BY <1>0, <2>2, <3>1, TotalTipo
    <3>. QED  BY <3>1, <3>2
  <2>4. Cabe(g, a.ori, a.tam)
    BY <1>1, <1>4, <2>2, <2>3, LugarEs
  <2>. QED  BY <1>1, <2>1, <2>3, <2>4 DEF Hechos, EnLectura
<1>6. EnLectura(s, G, bytes') /\ EnFallo(s, G) /\ EnReintento(s, G)
  BY <1>0 DEF EnLectura, EnFallo, EnReintento
<1>7. CASE /\ r.en = "leer" /\ a.op = "COPY_MEM" /\ s.en = "escribir"
           /\ s.dir = r.destino /\ s.restante = a.tam
  <2>1. PICK g \in G : Pasa(g, a.dst, a.tam) /\ r.destino = Lugar(g, a.dst)
    BY <1>1, <1>7 DEF Hechos, EnLectura
  <2>2. Cabe(g, a.dst, a.tam)
    BY <1>1, <1>4, <1>5, <1>7, <2>1, LugarEs
  <2>3. /\ a.tam - s.restante = 0 /\ s.restante <= a.tam
        /\ \A i \in 1..(a.tam - s.restante) : FALSE
        /\ s.dir = Lugar(g, a.dst) + (a.tam - s.restante)
    BY <1>4, <1>7, <2>1
  <2>. HIDE DEF s, G
  <2>4. EnEscritura(s, G, bytes')
    BY <1>0, <1>5, <1>7, <2>2, <2>3 DEF EnEscritura, Escribe
  <2>. QED  BY <1>6, <2>4 DEF Hechos, s, G
<1>8. CASE /\ ~ (r.en = "leer" /\ a.op = "COPY_MEM") /\ s.en = "hecho" /\ s.restante = 0
  <2>1. CASE r.en = "leer"
    <3>1. a.op = "MOV_IN" /\ 0 <= a.tam
      BY <1>4, <1>5, <1>8, <2>1
    <3>. HIDE DEF s, G
    <3>2. EnEscritura(s, G, bytes')
      BY <1>0, <1>5, <1>8, <2>1, <3>1 DEF EnEscritura, Escribe
    <3>. QED  BY <1>6, <3>2 DEF Hechos, s, G
  <2>2. CASE r.en = "escribir"
    <3>1. EnEscritura(r, G, bytes)
      BY <1>1 DEF Hechos
    <3>. HIDE DEF s, G
    <3>2. EnEscritura(s, G, bytes')
      BY <1>0, <1>2, <1>8, <2>2, <3>1 DEF EnEscritura
    <3>. QED  BY <1>6, <3>2 DEF Hechos, s, G
  <2>. QED  BY <1>0, <2>1, <2>2
<1>. QED  BY <1>0, <1>7, <1>8

\* A CPU writes only in the segments of its process, and no other step of a CPU
\* changes a byte.
LEMMA BytesPasoCpu ==
  ASSUME MemoriaChica, Inv, InvHechos, NEW c \in Cpus, PasoCpu(c),
         NEW d \in Direcciones, bytes'[d] # bytes[d]
  PROVE  /\ cpu[c].en = "escribir" /\ cpu[c].pid \in Pids
         /\ \E g \in Range(tabla[cpu[c].pid]) : d \in Rango(g)
<1>t. InvTipos /\ cpu[c] \in CpuT
  BY SMTT(40) DEF Inv, InvTipos
<1>1. OperarFisico(c)
  BY DEF PasoCpu, Despachar, SolicitarContexto, Ejecutar, Reintentar, Completar, DejarCpu, SegFault
<1>2. PICK n \in 1..cpu[c].restante : Turno(c, n)
  BY <1>1, OperarFisicoEs
<1>3. cpu[c].en = "escribir"
  BY <1>2 DEF Turno
<1>4. cpu[c].pid \in Pids
  BY <1>t, <1>3 DEF InvTipos, CpuT
<1>. QED  BY <1>1, <1>3, <1>4, HechosEscribir

LEMMA HechosSuyos ==
  ASSUME MemoriaChica, Inv, InvHechos, NEW c \in Cpus, PasoCpu(c), cpu'[c].en # "libre"
  PROVE  Hechos(cpu'[c], Range(tabla'[cpu'[c].pid]), bytes')
<1>t. InvTipos /\ cpu[c] \in CpuT /\ cpu = [d \in Cpus |-> cpu[d]]
  BY DEF Inv, InvTipos
<1>1. CASE cpu'[c].en \in {"topologia", "fetch"}
  BY <1>1 DEF Hechos, EnLectura, EnEscritura, EnFallo, EnReintento
<1>2. CASE cpu'[c].en \notin {"libre", "topologia", "fetch"}
  <2>1. cpu'[c].pid = cpu[c].pid /\ tabla' = tabla
    BY <1>2, PidPasoCpu
  <2>2. ~ \E p \in Pids : Despachar(c, p)
    BY <1>2, DespacharEs
  <2>3. ~ SolicitarContexto(c)
    <3>1. SolicitarContexto(c) => cpu'[c].en = "fetch"
      BY <1>t DEF SolicitarContexto, CpuT
    <3>. QED  BY <1>2, <3>1
  <2>4. ~ DejarCpu(c) /\ ~ SegFault(c)
    BY <1>2, LiberarEs
  <2>5. CASE OperarFisico(c)
    <3>1. cpu[c].en \in {"leer", "escribir"}
      BY <2>5, OperarFisicoEs
    <3>. QED  BY <2>1, <2>5, <3>1, HechosLeer, HechosEscribir
  <2>6. CASE Ejecutar(c) \/ Reintentar(c) \/ Completar(c)
    BY <2>1, <2>6, HechosEjecutar, HechosReintentar, HechosCompletar
  <2>. QED  BY <2>2, <2>3, <2>4, <2>5, <2>6 DEF PasoCpu
<1>. QED  BY <1>1, <1>2

LEMMA HechosPasoCpu ==
  ASSUME MemoriaChica, Inv, InvHechos, NEW c \in Cpus, PasoCpu(c)
  PROVE  InvHechos'
<1>t. InvTipos /\ InvSegmentos /\ InvBuffer /\ InvRafagas
  BY DEF Inv
<1>1. ASSUME NEW d \in Cpus, d # c, cpu[d].en # "libre"
      PROVE  Hechos(cpu[d], Range(tabla'[cpu[d].pid]), bytes')
  <2>1. cpu[d] \in CpuT /\ cpu[d].pid \in Pids
    BY <1>t, <1>1 DEF InvTipos, CpuT
  <2>2. cpu[d].pid # cpu[c].pid
    BY <1>t, <1>1, <2>1, MmuOK DEF InvRafagas
  <2>3. tabla'[cpu[d].pid] = tabla[cpu[d].pid]
    BY <2>1, <2>2, TablaPasoCpu
  <2>. DEFINE G == Range(tabla[cpu[d].pid])
  <2>4. EnMemoria(G) /\ Hechos(cpu[d], G, bytes)
    BY <1>1, <2>1, EstaEnMemoria DEF InvHechos
  <2>5. ASSUME NEW s \in G, NEW x \in Rango(s)
        PROVE  bytes'[x] = bytes[x]
    <3>1. x \in Direcciones
      <4>1. s \in Segmento /\ s.base + s.tam <= Total
        BY <2>4 DEF EnMemoria
      <4>2. s.base \in Nat /\ s.tam \in Nat /\ Total \in Nat
        BY <4>1, SegmentoTipo, TotalTipo, MmuOK
      <4>. QED  BY <2>5, <4>1, <4>2 DEF Rango, Direcciones
    <3>2. SUFFICES ASSUME bytes'[x] # bytes[x] PROVE FALSE
      OBVIOUS
    <3>3. PICK g \in Range(tabla[cpu[c].pid]) : x \in Rango(g)
      BY <3>1, <3>2, BytesPasoCpu
    <3>4. cpu[c].pid \in Pids
      BY <3>1, <3>2, BytesPasoCpu
    <3>5. Rango(s) \cap Rango(g) = {}
      BY <1>t, <2>1, <2>2, <3>4 DEF InvSegmentos
    <3>. QED  BY <2>5, <3>3, <3>5
  <2>6. cpu[d].en = "leer" => cpu[d].restante <= cpu[d].acceso.tam
    BY <1>t DEF InvBuffer
  <2>7. Hechos(cpu[d], G, bytes')
    <3>. HIDE DEF G
    <3>. QED  BY <2>1, <2>4, <2>5, <2>6, HechosAjenos
  <2>. QED  BY <2>3, <2>7
<1>2. \A d \in Cpus : d # c => cpu'[d] = cpu[d]
  BY <1>t, SoloLaSuya
<1>. QED  BY <1>1, <1>2, HechosSuyos DEF InvHechos

InvTodo == Inv /\ InvHechos

LEMMA InicialInvTodo == Init => InvTodo
<1>1. Init => \A c \in Cpus : cpu[c].en = "libre"
  BY DEF Init, CpuLibre
<1>. QED  BY <1>1, InicialInv DEF InvTodo, InvHechos

LEMMA PasoInvTodo ==
  ASSUME MemoriaChica
  PROVE  InvTodo /\ [Next]_vars => InvTodo'
<1>. SUFFICES ASSUME Inv, InvHechos, [Next]_vars PROVE InvHechos'
  BY PasoInv DEF InvTodo
<1>t. InvTipos
  BY DEF Inv
<1>1. CASE UNCHANGED vars
  <2>1. UNCHANGED <<tabla, bytes, cpu>>
    BY <1>1 DEF vars
  <2>. QED  BY <2>1 DEF InvHechos
<1>2. ASSUME NEW c \in Cpus, PasoCpu(c) PROVE InvHechos'
  BY <1>2, HechosPasoCpu
<1>3. CASE ConectarStick
  <2>1. UNCHANGED <<tabla, bytes, cpu>>
    BY <1>3 DEF ConectarStick
  <2>. QED  BY <2>1 DEF InvHechos
<1>4. ASSUME NEW p \in Pids, CrearSegmento(p) \/ EliminarSegmento(p) \/ MoverSegmento(p)
      PROVE  InvHechos'
  <2>1. cpu' = cpu
    BY <1>4 DEF CrearSegmento, EliminarSegmento, MoverSegmento
  <2>2. \A c \in Cpus : cpu[c].en # "libre" => tabla'[cpu[c].pid] = tabla[cpu[c].pid] /\ bytes' = bytes
    BY <1>t, <1>4, PasoKernel
  <2>. QED  BY <2>1, <2>2 DEF InvHechos
<1>. QED  BY <1>1, <1>2, <1>3, <1>4 DEF Next

-----------------------------------------------------------------------------
(* The properties *)

LEMMA PermitidoEs ==
  ASSUME NEW c \in Cpus
  PROVE  Permitido(c) <=> PermitidoEn(cpu[c].acceso, Range(tabla[cpu[c].pid]))
BY DEF Permitido, PermitidoEn, Dentro, Cabe

\* The CHOOSE of SegmentoDe is the segment with that number.
LEMMA FisicaEs ==
  ASSUME Inv, NEW p \in Pids, NEW x, NEW s \in Range(tabla[p]), s.id = x \div TamMaxSegmento
  PROVE  Fisica(p, x) = Lugar(s, x)
<1>1. SegmentoDe(p, x) \in Range(tabla[p]) /\ SegmentoDe(p, x).id = x \div TamMaxSegmento
  BY DEF SegmentoDe
<1>2. SegmentoDe(p, x) = s
  BY <1>1 DEF Inv, InvSegmentos
<1>. QED  BY <1>2 DEF Fisica, Lugar

LEMMA InvDaCompleta == InvTodo => CompletaSoloPermitidos
<1>. SUFFICES ASSUME InvTodo, NEW c \in Cpus, cpu[c].en = "hecho", cpu[c].acceso.op # "IO"
              PROVE  Permitido(c)
  BY DEF CompletaSoloPermitidos
<1>1. EnEscritura(cpu[c], Range(tabla[cpu[c].pid]), bytes)
  BY DEF InvTodo, InvHechos, Hechos
<1>. QED  BY <1>1, PermitidoEs DEF EnEscritura, PermitidoEn

LEMMA InvDaFallaJusta == InvTodo => FallaJusta
<1>. SUFFICES ASSUME InvTodo, NEW c \in Cpus, cpu[c].en = "fallo"
              PROVE  ~ Permitido(c) \/ cpu[c].negado
  BY DEF FallaJusta
<1>1. EnFallo(cpu[c], Range(tabla[cpu[c].pid]))
  BY DEF InvTodo, InvHechos, Hechos
<1>. QED  BY <1>1, PermitidoEs DEF EnFallo

LEMMA InvDaLectura == InvTodo => LecturaFiel
<1>. SUFFICES ASSUME InvTodo, NEW c \in Cpus, cpu[c].en = "leer", Permitido(c),
                     NEW i \in DOMAIN cpu[c].buffer
              PROVE  cpu[c].buffer[i] = bytes[Fisica(cpu[c].pid, cpu[c].acceso.ori) + i - 1]
  BY DEF LecturaFiel
<1>. DEFINE r == cpu[c]
            a == cpu[c].acceso
            G == Range(tabla[cpu[c].pid])
<1>1. Inv /\ r \in CpuT /\ r.pid \in Pids
  BY DEF InvTodo, Inv, InvTipos, CpuT
<1>2. EnLectura(r, G, bytes) /\ EnMemoria(G)
  BY <1>1, EstaEnMemoria DEF InvTodo, InvHechos, Hechos
<1>3. i \in 1..(a.tam - r.restante)
  <2>1. Len(r.buffer) = a.tam - r.restante /\ r.buffer \in Seq(Valores)
    BY <1>1, AccesoTipo DEF Inv, InvBuffer
  <2>. QED  BY <2>1
<1>4. PICK s \in G :
        /\ Pasa(s, a.ori, a.tam)
        /\ Cabe(s, a.ori, a.tam) =>
             \A k \in 1..(a.tam - r.restante) : r.buffer[k] = bytes[Lugar(s, a.ori) + k - 1]
  BY <1>2 DEF EnLectura
<1>5. Lee(a)
  BY <1>2 DEF EnLectura, Lee
<1>6. PICK h \in G : Cabe(h, a.ori, a.tam)
  BY <1>5, PermitidoEs DEF PermitidoEn
<1>7. h = s
  BY <1>2, <1>4, <1>6 DEF EnMemoria, Cabe, Pasa
<1>8. Fisica(r.pid, a.ori) = Lugar(s, a.ori)
  BY <1>1, <1>4, FisicaEs DEF Pasa
<1>. QED  BY <1>3, <1>4, <1>6, <1>7, <1>8

LEMMA InvDaEscritura == InvTodo => EscrituraFiel
<1>. SUFFICES ASSUME InvTodo, NEW c \in Cpus, cpu[c].en \in {"escribir", "hecho"}, Escribe(cpu[c].acceso),
                     NEW i \in 1..(cpu[c].acceso.tam - cpu[c].restante)
              PROVE  bytes[Fisica(cpu[c].pid, cpu[c].acceso.dst) + i - 1] = cpu[c].buffer[i]
  BY DEF EscrituraFiel
<1>. DEFINE r == cpu[c]
            a == cpu[c].acceso
            G == Range(tabla[cpu[c].pid])
<1>1. Inv /\ r.pid \in Pids
  BY DEF InvTodo, Inv, InvTipos, CpuT
<1>2. EnEscritura(r, G, bytes)
  BY DEF InvTodo, InvHechos, Hechos
<1>3. a.op # "IO"
  BY DEF Escribe
<1>4. PICK s \in G :
        /\ Cabe(s, a.dst, a.tam)
        /\ \A k \in 1..(a.tam - r.restante) : bytes[Lugar(s, a.dst) + k - 1] = r.buffer[k]
  BY <1>2, <1>3 DEF EnEscritura
<1>5. Fisica(r.pid, a.dst) = Lugar(s, a.dst)
  BY <1>1, <1>4, FisicaEs DEF Cabe
<1>. QED  BY <1>4, <1>5

\* Every CPU is free, or the byte is of the process of one that writes.
EnLoSuyo ==
  \A d \in Direcciones : bytes'[d] # bytes[d] =>
    \/ \E c \in Cpus : cpu[c].en = "escribir" /\ d \in DeProceso(cpu[c].pid)
    \/ \A c \in Cpus : cpu[c].pid = 0

LEMMA PasoEnLoSuyo ==
  ASSUME MemoriaChica
  PROVE  InvTodo /\ [Next]_vars => [EnLoSuyo]_vars
<1>. SUFFICES ASSUME InvTodo, Next, NEW d \in Direcciones, bytes'[d] # bytes[d]
              PROVE  \/ \E c \in Cpus : cpu[c].en = "escribir" /\ d \in DeProceso(cpu[c].pid)
                     \/ \A c \in Cpus : cpu[c].pid = 0
  BY DEF EnLoSuyo
<1>t. Inv /\ InvHechos /\ InvTipos
  BY DEF InvTodo, Inv
<1>1. ASSUME NEW c \in Cpus, PasoCpu(c) PROVE cpu[c].en = "escribir" /\ d \in DeProceso(cpu[c].pid)
  <2>1. /\ cpu[c].en = "escribir" /\ cpu[c].pid \in Pids
        /\ \E g \in Range(tabla[cpu[c].pid]) : d \in Rango(g)
    BY <1>t, <1>1, BytesPasoCpu
  <2>. QED  BY <1>t, <2>1, TablaTipo
<1>2. ~ ConectarStick
  BY DEF ConectarStick
<1>3. ASSUME NEW p \in Pids, CrearSegmento(p) \/ EliminarSegmento(p) \/ MoverSegmento(p)
      PROVE  \A c \in Cpus : cpu[c].pid = 0
  BY <1>3 DEF CrearSegmento, EliminarSegmento, MoverSegmento
<1>. QED  BY <1>1, <1>2, <1>3 DEF Next

\* An access that completes was inside the segments of its process as Kernel
\* Memory has them, whatever the sums of mmu_traducir wrapped
\* (instrucciones.c:47, cpu/conexiones.c:292).
THEOREM SoloPermitidos ==
  ASSUME MemoriaChica
  PROVE  Spec => []CompletaSoloPermitidos
<1>. QED  BY InicialInvTodo, PasoInvTodo, InvDaCompleta, PTL DEF Spec

\* A SEG_FAULT is deserved, or a stick refused the connection of the CPU
\* (cpu/conexiones.c:283-289).
THEOREM SegFaultJusto ==
  ASSUME MemoriaChica
  PROVE  Spec => []FallaJusta
<1>. QED  BY InicialInvTodo, PasoInvTodo, InvDaFallaJusta, PTL DEF Spec

\* What is read is what the segment has, over any number of sticks
\* (cpu/conexiones.c:277-310).
THEOREM LeeLoSuyo ==
  ASSUME MemoriaChica
  PROVE  Spec => []LecturaFiel
<1>. QED  BY InicialInvTodo, PasoInvTodo, InvDaLectura, PTL DEF Spec

\* What was written is in the segment (instrucciones.c:225-260).
THEOREM EscribeLoLeido ==
  ASSUME MemoriaChica
  PROVE  Spec => []EscrituraFiel
<1>. QED  BY InicialInvTodo, PasoInvTodo, InvDaEscritura, PTL DEF Spec

\* No access reaches the memory of another process, not even before it faults
\* (cpu/conexiones.c:296-305).
THEOREM NadieEscribeEnLoAjeno ==
  ASSUME MemoriaChica
  PROVE  Spec => EscribeEnLoSuyo
<1>. QED  BY InicialInvTodo, PasoInvTodo, PasoEnLoSuyo, PTL DEF Spec, EscribeEnLoSuyo, EnLoSuyo
=============================================================================
