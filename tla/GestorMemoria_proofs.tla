------------------------ MODULE GestorMemoria_proofs ------------------------
(***************************************************************************)
(* Proofs about GestorMemoria for every number of processes, segments,     *)
(* sticks and blocks, and for both allocation strategies.                  *)
(*                                                                         *)
(* Segments do not overlap because of where a compaction is (InvMemoria).  *)
(* The rest says where the segments of each process are while a request    *)
(* moves them one by one (InvLugar), that what a request counted before it *)
(* began is still enough (InvCompacta for bytes, InvBloques for blocks:    *)
(* counts are cardinalities of sets of pieces), and that the tables follow *)
(* (InvTabla), those of the CPUs too (InvCache).                           *)
(*                                                                         *)
(* The last part shows that all of it keeps the promise of                 *)
(* MemoriaDeProcesos.  The contents of a process are seen as the set of    *)
(* its pieces (Trozos: a number and its bytes): each action either leaves  *)
(* every set as it was or changes one piece of one process.                *)
(***************************************************************************)
EXTENDS GestorMemoria, Minimos, FiniteSetTheorems, TLAPS

\* The part of the type invariant that concerns the segments.
InvTipos ==
  /\ memoria_total \in Nat
  /\ segmentos \subseteq SegmentosT
  /\ segmentos_swap \subseteq SwapT
  /\ pedido \in PedidosT

\* The numbers of the segments, in memory and in SWAP, have a bound.
NrosAcotados == \E n \in Nat : \A s \in segmentos \cup segmentos_swap : s.nro <= n

\* A request that compacts knows what it will create when it is over.
PedidoConDatos ==
  pedido.paso \in {"desalojo", "mueve", "reintenta"} =>
    pedido.pid \in Pids /\ pedido.id \in Ids /\ pedido.tam \in Tams

\* The inductive invariant.
InvMemoria == InvTipos /\ NrosAcotados /\ PedidoConDatos /\ SinSolape /\ EnMovimiento

-----------------------------------------------------------------------------
(* Writes, and the end of the program *)

\* A write changes bytes of the sticks or of the disk, and nothing else.
LEMMA EfectoEscribir ==
  ASSUME NEW p, Escribir(p)
  PROVE  UNCHANGED <<memoria_total, procesos, segmentos, tabla, segmentos_swap, bloques_usados,
                     pedido, suspendidos, en_cpu, cache>>
BY DEF Escribir, EscribirIO, EscribirCpu, swap, cpus

\* Who ends the program leaves a request that nobody attends.
LEMMA EfectoCaer ==
  ASSUME NEW p, Caer(p)
  PROVE  /\ pedido.paso = "libre" /\ p \in procesos
         /\ pedido' = [SinPedido EXCEPT !.paso = "caido"] /\ pedido'.paso = "caido"
         /\ UNCHANGED <<memoria_total, procesos, segmentos, tabla, ram, segmentos_swap,
                        bloques_usados, suspendidos, en_cpu, cache>>
BY DEF Caer, CaerEnSwap, PideIO, SinPedido, mem, cpus

-----------------------------------------------------------------------------
(* Holes *)

\* A hole goes from its start to the first segment above it, or to the end.
LEMMA FinHuecoAcota ==
  ASSUME InvTipos, NEW h \in Nat
  PROVE  /\ FinHueco(h) \in Nat /\ FinHueco(h) <= memoria_total
         /\ \A s \in segmentos : s.base >= h => FinHueco(h) <= s.base
<1>. DEFINE S == {s.base : s \in {r \in segmentos : r.base >= h}} \cup {memoria_total}
<1>1. S \subseteq Nat /\ S # {}
  BY DEF InvTipos, SegmentosT
<1>2. Min(S) \in S /\ \A y \in S : Min(S) <= y
  <2>. HIDE DEF S
  <2>. QED  BY <1>1, MinEsElemento
<1>3. FinHueco(h) = Min(S)
  BY DEF FinHueco
<1>4. FinHueco(h) \in Nat /\ \A y \in S : FinHueco(h) <= y
  <2>. HIDE DEF S
  <2>. QED  BY <1>1, <1>2, <1>3
<1>5. memoria_total \in S /\ \A s \in segmentos : s.base >= h => s.base \in S
  OBVIOUS
<1>. HIDE DEF S
<1>. QED  BY <1>4, <1>5

\* Where segments do not overlap, t bytes from the start of a hole of at least t
\* are free and inside memory.
LEMMA HuecoLibre ==
  ASSUME InvTipos, SinSolape, NEW t \in Tams, NEW h \in Huecos(t)
  PROVE  /\ h \in Nat /\ h + t <= memoria_total
         /\ \A s \in segmentos : Fin(s) <= h \/ h + t <= s.base
<1>t. t \in Nat /\ t > 0
  BY ParametrosOK DEF Tams
<1>s. \A s \in segmentos : s.base \in Nat /\ s.tam \in Nat /\ s.tam > 0 /\ Fin(s) \in Nat
  BY ParametrosOK DEF InvTipos, SegmentosT, Tams, Fin
<1>1. /\ h = 0 \/ \E r \in segmentos : h = Fin(r)
      /\ FinHueco(h) - h >= t
  BY DEF Huecos
<1>2. h \in Nat
  BY <1>1, <1>s
<1>3. /\ FinHueco(h) \in Nat /\ FinHueco(h) <= memoria_total
      /\ \A s \in segmentos : s.base >= h => FinHueco(h) <= s.base
  BY <1>2, FinHuecoAcota
<1>4. h + t <= memoria_total
  BY <1>1, <1>2, <1>3, <1>t DEF InvTipos
<1>5. ASSUME NEW s \in segmentos PROVE Fin(s) <= h \/ h + t <= s.base
  <2>1. CASE s.base >= h
    BY <2>1, <1>1, <1>2, <1>3, <1>s, <1>t
  <2>2. CASE s.base < h
    <3>1. PICK r \in segmentos : h = Fin(r)
      BY <2>2, <1>1, <1>s
    <3>2. s = r \/ Fin(s) <= r.base \/ Fin(r) <= s.base
      BY DEF SinSolape, Disjuntos
    <3>. QED  BY <2>2, <3>1, <3>2, <1>s DEF Fin
  <2>. QED  BY <2>1, <2>2, <1>2, <1>s
<1>. QED  BY <1>2, <1>4, <1>5

\* A segment put in a hole overlaps no other.
LEMMA AltaSinSolape ==
  ASSUME InvTipos, SinSolape, NEW t \in Tams, NEW h \in Huecos(t), NEW s \in SegmentosT,
         s.base = h, s.tam = t, segmentos' = segmentos \cup {s},
         memoria_total' = memoria_total
  PROVE  SinSolape'
<1>1. /\ h \in Nat /\ h + t <= memoria_total
      /\ \A r \in segmentos : Fin(r) <= h \/ h + t <= r.base
  BY HuecoLibre
<1>2. Fin(s) = h + t
  BY DEF Fin
<1>. QED  BY <1>1, <1>2 DEF SinSolape, Disjuntos, Fin

-----------------------------------------------------------------------------
(* The steps *)

\* Taking segments away, or growing memory, preserves SinSolape.
LEMMA MenosSegmentos ==
  ASSUME InvTipos, SinSolape, segmentos' \subseteq segmentos,
         memoria_total' \in Nat, memoria_total <= memoria_total'
  PROVE  SinSolape'
<1>1. \A s \in segmentos : Fin(s) \in Nat
  BY ParametrosOK DEF InvTipos, SegmentosT, Tams, Fin
<1>. QED  BY <1>1 DEF SinSolape, Disjuntos, Fin, InvTipos

\* Nothing that the invariant speaks of changes, but for the size of memory.
LEMMA PasoSinSegmentos ==
  ASSUME InvMemoria, UNCHANGED <<segmentos, segmentos_swap, pedido>>,
         memoria_total' \in Nat, memoria_total <= memoria_total'
  PROVE  InvMemoria'
<1>1. SinSolape'
  BY MenosSegmentos DEF InvMemoria
<1>. QED  BY <1>1 DEF InvMemoria, InvTipos, NrosAcotados, PedidoConDatos, EnMovimiento, De, Fin

\* The number of a new segment is a number, and the bound can be raised to it.
LEMMA ProximoNroTipo ==
  ASSUME InvTipos, NrosAcotados, NEW p, NEW i
  PROVE  ProximoNro(p, i) \in Numeros
<1>. DEFINE S == {0} \cup {s.nro : s \in {r \in De(segmentos, p) : r.id = i}}
<1>1. PICK n \in Nat : \A s \in segmentos : s.nro <= n
  BY DEF NrosAcotados
<1>2. S \subseteq Nat /\ S # {} /\ \A x \in S : x <= n
  BY <1>1 DEF InvTipos, SegmentosT, Numeros, De
<1>3. Max(S) \in Nat
  <2>. HIDE DEF S
  <2>. QED  BY <1>2, MaxEsElemento
<1>. QED  BY <1>3 DEF ProximoNro, Numeros

\* One more number keeps the numbers bounded.
LEMMA AcotadosConUno ==
  ASSUME NrosAcotados, InvTipos, NEW m \in Numeros,
         \A s \in segmentos' \cup segmentos_swap' :
            s.nro = m \/ \E r \in segmentos \cup segmentos_swap : s.nro = r.nro
  PROVE  NrosAcotados'
<1>1. PICK n \in Nat : \A s \in segmentos \cup segmentos_swap : s.nro <= n
  BY DEF NrosAcotados
<1>2. \A s \in segmentos \cup segmentos_swap : s.nro \in Nat
  BY DEF InvTipos, SegmentosT, SwapT, Numeros
<1>3. m + n \in Nat /\ \A s \in segmentos' \cup segmentos_swap' : s.nro <= m + n
  BY <1>1, <1>2 DEF Numeros
<1>. QED  BY <1>3 DEF NrosAcotados

\* A new segment in a hole, when no request in progress needs the list.
LEMMA PasoAlta ==
  ASSUME InvMemoria, NEW p \in Pids, NEW i \in Ids, NEW t \in Tams, Alta(p, i, t),
         UNCHANGED <<memoria_total, segmentos_swap>>,
         pedido' \in PedidosT, pedido'.paso = "libre"
  PROVE  InvMemoria'
<1>1. PICK h \in BuscarHueco(BestFit, t) :
        segmentos' = segmentos \cup {Nuevo(p, i, ProximoNro(p, i), h, t)}
  BY DEF Alta
<1>. DEFINE n == ProximoNro(p, i)
            s == Nuevo(p, i, n, h, t)
<1>2. h \in Huecos(t) /\ h \in Nat
  BY <1>1, HuecoLibre DEF BuscarHueco, InvMemoria
<1>3. n \in Numeros
  BY ProximoNroTipo DEF InvMemoria
<1>. HIDE DEF n
<1>4. s \in SegmentosT /\ s.base = h /\ s.tam = t /\ s.nro = n
  BY <1>2, <1>3 DEF Nuevo, SegmentosT
<1>5. segmentos' = segmentos \cup {s}
  BY <1>1 DEF n
<1>. HIDE DEF s
<1>6. SinSolape'
  BY <1>2, <1>4, <1>5, AltaSinSolape DEF InvMemoria
<1>7. NrosAcotados'
  BY <1>3, <1>4, <1>5, AcotadosConUno DEF InvMemoria
<1>. QED  BY <1>4, <1>5, <1>6, <1>7 DEF InvMemoria, InvTipos, PedidoConDatos, EnMovimiento

\* Segments are only taken away, and the request that is left needs no list.
LEMMA PasoMenos ==
  ASSUME InvMemoria, segmentos' \subseteq segmentos, segmentos_swap' \subseteq segmentos_swap,
         memoria_total' = memoria_total,
         pedido' \in PedidosT, pedido'.paso = "libre"
  PROVE  InvMemoria'
<1>1. SinSolape'
  BY MenosSegmentos DEF InvMemoria, InvTipos
<1>. QED  BY <1>1 DEF InvMemoria, InvTipos, NrosAcotados, PedidoConDatos, EnMovimiento

LEMMA SinPedidoTipo == SinPedido \in PedidosT /\ SinPedido.paso = "libre"
BY DEF SinPedido, PedidosT, Pasos

\* What is left when every segment but those of R is done.
LEMMA SigueTipo ==
  ASSUME InvTipos, NEW R \in SUBSET pedido.resto
  PROVE  /\ Sigue(R) \in PedidosT
         /\ Sigue(R).paso = "libre" \/ Sigue(R) = [pedido EXCEPT !.resto = R]
BY SinPedidoTipo DEF Sigue, InvTipos, PedidosT

\* A step of a compaction: the segment that moves lands on what is free, at or
\* below the place it leaves.
LEMMA PasoMover ==
  ASSUME InvMemoria, MoverSegmento
  PROVE  InvMemoria'
<1>1. PICK s \in pedido.resto :
        /\ \A r \in pedido.resto : s.base <= r.base
        /\ pedido' = [pedido EXCEPT !.resto = @ \ {s}, !.prox = @ + s.tam]
        /\ IF s.base = pedido.prox
           THEN UNCHANGED segmentos
           ELSE segmentos' = (segmentos \ {s}) \cup {[s EXCEPT !.base = pedido.prox]}
  BY DEF MoverSegmento
<1>2. /\ pedido.paso = "mueve"
      /\ UNCHANGED <<memoria_total, segmentos_swap>>
  BY DEF MoverSegmento, swap
<1>. DEFINE n == [s EXCEPT !.base = pedido.prox]
<1>3. /\ pedido.resto \subseteq segmentos
      /\ \A r \in segmentos \ pedido.resto : Fin(r) <= pedido.prox
      /\ \A r \in pedido.resto : pedido.prox <= r.base
      /\ pedido.prox \in Nat
      /\ s \in SegmentosT
  BY <1>2 DEF InvMemoria, EnMovimiento, InvTipos, PedidosT
<1>4. \A r \in segmentos :
        r.base \in Nat /\ r.tam \in Nat /\ r.tam > 0 /\ Fin(r) = r.base + r.tam /\ Fin(r) \in Nat
  BY ParametrosOK DEF InvMemoria, InvTipos, SegmentosT, Tams, Fin
<1>5. /\ n \in SegmentosT /\ n.base = pedido.prox /\ n.tam = s.tam /\ n.nro = s.nro
      /\ Fin(n) = pedido.prox + s.tam
      /\ pedido.prox = s.base => n = s
  BY <1>3 DEF SegmentosT, Fin
<1>6. segmentos' = (segmentos \ {s}) \cup {n}
  BY <1>1, <1>3, <1>5
<1>. HIDE DEF n
<1>7. s \in segmentos /\ Fin(n) <= Fin(s) /\ Fin(n) \in Nat /\ Fin(n) >= pedido.prox
  BY <1>3, <1>4, <1>5
<1>8. ASSUME NEW r \in pedido.resto, r # s PROVE Fin(n) <= r.base
  <2>1. Fin(s) <= r.base \/ Fin(r) <= s.base
    BY <1>3, <1>8 DEF InvMemoria, SinSolape, Disjuntos
  <2>2. s.base <= r.base /\ r \in segmentos
    BY <1>1, <1>3
  <2>. QED  BY <2>1, <2>2, <1>4, <1>7
<1>9. InvTipos'
  <2>1. pedido.prox + s.tam \in Nat
    BY <1>3, <1>4, <1>7
  <2>2. pedido' \in PedidosT
    BY <1>1, <2>1 DEF InvMemoria, InvTipos, PedidosT
  <2>. QED  BY <2>2, <1>2, <1>5, <1>6 DEF InvMemoria, InvTipos
<1>10. NrosAcotados'
  BY <1>2, <1>5, <1>6, <1>7 DEF InvMemoria, NrosAcotados
<1>11. PedidoConDatos'
  BY <1>1, <1>2 DEF InvMemoria, InvTipos, PedidosT, PedidoConDatos
<1>12. SinSolape'
  <2>1. \A r \in segmentos' : Fin(r) <= memoria_total
    <3>1. Fin(s) <= memoria_total /\ \A r \in segmentos : Fin(r) <= memoria_total
      BY <1>7 DEF InvMemoria, SinSolape
    <3>2. memoria_total \in Nat
      BY DEF InvMemoria, InvTipos
    <3>. QED  BY <3>1, <3>2, <1>4, <1>6, <1>7
  <2>2. ASSUME NEW r \in segmentos, r # s PROVE Disjuntos(r, n) /\ Disjuntos(n, r)
    <3>1. CASE r \in pedido.resto
      BY <3>1, <2>2, <1>8 DEF Disjuntos
    <3>2. CASE r \notin pedido.resto
      BY <3>2, <1>3, <1>5 DEF Disjuntos
    <3>. QED  BY <3>1, <3>2
  <2>3. \A r, q \in segmentos : r # q => Disjuntos(r, q)
    BY DEF InvMemoria, SinSolape
  <2>4. \A r, q \in segmentos' : r # q => Disjuntos(r, q)
    BY <2>2, <2>3, <1>6
  <2>. QED  BY <2>1, <2>4, <1>2 DEF SinSolape, Disjuntos, Fin
<1>13. EnMovimiento'
  <2>1. /\ pedido'.paso = "mueve" /\ pedido'.resto = pedido.resto \ {s}
        /\ pedido'.prox = Fin(n)
    BY <1>1, <1>2, <1>5 DEF InvMemoria, InvTipos, PedidosT
  <2>2. pedido'.resto \subseteq segmentos'
    BY <2>1, <1>3, <1>6
  <2>3. ASSUME NEW r \in segmentos' \ pedido'.resto PROVE Fin(r) <= Fin(n)
    <3>1. r = n \/ r \in segmentos \ pedido.resto
      BY <2>1, <1>6
    <3>. QED  BY <3>1, <1>3, <1>4, <1>7
  <2>4. \A r \in pedido'.resto : pedido'.prox <= r.base
    BY <2>1, <1>8
  <2>. QED  BY <2>1, <2>2, <2>3, <2>4 DEF EnMovimiento, Fin
<1>. QED  BY <1>9, <1>10, <1>11, <1>12, <1>13 DEF InvMemoria

\* A segment goes to SWAP.
LEMMA PasoSuspender ==
  ASSUME InvMemoria, SuspenderSegmento
  PROVE  InvMemoria'
<1>. DEFINE sw(s, B) == [pid |-> pedido.pid, id |-> s.id, nro |-> s.nro, tam |-> s.tam,
                         bloques |-> B]
<1>1. PICK s \in pedido.resto, B \in SUBSET Bloques :
        /\ segmentos_swap' = segmentos_swap \cup {sw(s, B)}
        /\ segmentos' = segmentos \ {s}
        /\ pedido' = Sigue(pedido.resto \ {s})
  BY DEF SuspenderSegmento, Reservables, BloquesLibres
<1>2. /\ pedido.paso = "suspende" /\ UNCHANGED memoria_total
      /\ s \in segmentos /\ s.pid = pedido.pid
  BY DEF SuspenderSegmento, InvMemoria, EnMovimiento, De
<1>3. sw(s, B) \in SwapT /\ sw(s, B).nro = s.nro
  BY <1>2 DEF InvMemoria, InvTipos, SegmentosT, SwapT
<1>. HIDE DEF sw
<1>4. /\ pedido' \in PedidosT
      /\ pedido'.paso = "libre" \/ pedido' = [pedido EXCEPT !.resto = @ \ {s}]
  BY <1>1, SigueTipo DEF InvMemoria
<1>5. InvTipos'
  BY <1>1, <1>2, <1>3, <1>4 DEF InvMemoria, InvTipos
<1>6. NrosAcotados'
  BY <1>1, <1>2, <1>3 DEF InvMemoria, NrosAcotados
<1>7. SinSolape'
  BY <1>1, <1>2, MenosSegmentos DEF InvMemoria, InvTipos
<1>8. PedidoConDatos' /\ EnMovimiento'
  <2>1. CASE pedido'.paso = "libre"
    BY <2>1 DEF PedidoConDatos, EnMovimiento
  <2>2. CASE pedido' = [pedido EXCEPT !.resto = @ \ {s}]
    <3>1. /\ pedido'.paso = "suspende" /\ pedido'.pid = pedido.pid
          /\ pedido'.resto = pedido.resto \ {s}
      BY <2>2, <1>2 DEF InvMemoria, InvTipos, PedidosT
    <3>2. pedido.resto \subseteq De(segmentos, pedido.pid)
      BY <1>2, SMTT(40) DEF InvMemoria, EnMovimiento
    <3>. QED  BY <3>1, <3>2, <1>1 DEF PedidoConDatos, EnMovimiento, De
  <2>. QED  BY <2>1, <2>2, <1>4
<1>. QED  BY <1>5, <1>6, <1>7, <1>8 DEF InvMemoria

\* A hole for a segment that is in SWAP, or back to where the request started.
LEMMA PasoReservar ==
  ASSUME InvMemoria, ReservarSegmento
  PROVE  InvMemoria'
<1>1. PICK sw \in pedido.resto :
        \/ segmentos' = segmentos \ pedido.hechos /\ pedido' = SinPedido
        \/ \E h \in BuscarHueco(BestFit, sw.tam) :
             LET s == Nuevo(pedido.pid, sw.id, sw.nro, h, sw.tam)
                 hechos == pedido.hechos \cup {s}
             IN /\ segmentos' = segmentos \cup {s}
                /\ pedido' = IF pedido.resto = {sw}
                             THEN [pedido EXCEPT !.paso = "restaura", !.hechos = hechos,
                                                 !.resto = De(segmentos_swap, pedido.pid)]
                             ELSE [pedido EXCEPT !.resto = @ \ {sw}, !.hechos = hechos]
  BY ZenonT(60) DEF ReservarSegmento
<1>2. /\ pedido.paso = "reserva"
      /\ UNCHANGED <<memoria_total, segmentos_swap>>
      /\ pedido.resto \subseteq De(segmentos_swap, pedido.pid)
      /\ pedido.hechos \subseteq De(segmentos, pedido.pid)
  BY DEF ReservarSegmento, InvMemoria, EnMovimiento, swap
<1>3. CASE segmentos' = segmentos \ pedido.hechos /\ pedido' = SinPedido
  BY <1>2, <1>3, PasoMenos, SinPedidoTipo
<1>4. ASSUME NEW h \in BuscarHueco(BestFit, sw.tam),
             NEW s, s = Nuevo(pedido.pid, sw.id, sw.nro, h, sw.tam),
             segmentos' = segmentos \cup {s},
             pedido' = IF pedido.resto = {sw}
                       THEN [pedido EXCEPT !.paso = "restaura",
                                           !.hechos = pedido.hechos \cup {s},
                                           !.resto = De(segmentos_swap, pedido.pid)]
                       ELSE [pedido EXCEPT !.resto = @ \ {sw},
                                           !.hechos = pedido.hechos \cup {s}]
      PROVE  InvMemoria'
  <2>1. /\ sw \in segmentos_swap /\ sw.pid = pedido.pid
        /\ pedido.pid \in Pids /\ sw.id \in Ids /\ sw.nro \in Numeros /\ sw.tam \in Tams
    BY <1>2 DEF De, InvMemoria, InvTipos, SwapT
  <2>2. h \in Huecos(sw.tam) /\ h \in Nat
    BY <1>4, <2>1, HuecoLibre DEF BuscarHueco, InvMemoria
  <2>3. /\ s \in SegmentosT /\ s.base = h /\ s.tam = sw.tam /\ s.nro = sw.nro
        /\ s.pid = pedido.pid
    BY <1>4, <2>1, <2>2 DEF Nuevo, SegmentosT
  <2>4. SinSolape'
    BY <1>2, <1>4, <2>1, <2>2, <2>3, AltaSinSolape DEF InvMemoria
  <2>5. /\ pedido'.paso \in {"reserva", "restaura"} /\ pedido'.pid = pedido.pid
        /\ pedido'.resto \subseteq De(segmentos_swap, pedido.pid)
        /\ pedido'.hechos = pedido.hechos \cup {s}
    BY <1>2, <1>4 DEF InvMemoria, InvTipos, PedidosT
  <2>6. pedido' \in PedidosT
    BY <1>2, <1>4, <2>3 DEF InvMemoria, InvTipos, PedidosT, De, Pasos
  <2>7. InvTipos'
    BY <1>2, <1>4, <2>3, <2>6 DEF InvMemoria, InvTipos
  <2>8. NrosAcotados'
    BY <1>2, <1>4, <2>1, <2>3 DEF InvMemoria, NrosAcotados
  <2>9. PedidoConDatos' /\ EnMovimiento'
    BY <1>2, <1>4, <2>3, <2>5 DEF PedidoConDatos, EnMovimiento, De
  <2>. QED  BY <2>4, <2>7, <2>8, <2>9 DEF InvMemoria
<1>. QED  BY <1>1, <1>3, <1>4, ZenonT(60)

\* A segment comes back from SWAP.
LEMMA PasoRestaurar ==
  ASSUME InvMemoria, RestaurarSegmento
  PROVE  InvMemoria'
<1>1. PICK sw \in pedido.resto :
        /\ segmentos_swap' = segmentos_swap \ {sw}
        /\ pedido' = Sigue(pedido.resto \ {sw})
  BY DEF RestaurarSegmento
<1>2. /\ pedido.paso = "restaura" /\ UNCHANGED <<memoria_total, segmentos>>
      /\ pedido.resto \subseteq De(segmentos_swap, pedido.pid)
      /\ pedido.hechos \subseteq De(segmentos, pedido.pid)
  BY DEF RestaurarSegmento, InvMemoria, EnMovimiento
<1>3. /\ pedido' \in PedidosT
      /\ pedido'.paso = "libre" \/ pedido' = [pedido EXCEPT !.resto = @ \ {sw}]
  BY <1>1, SigueTipo DEF InvMemoria
<1>4. InvTipos' /\ NrosAcotados' /\ SinSolape'
  <2>1. SinSolape'
    BY <1>2, MenosSegmentos DEF InvMemoria, InvTipos
  <2>. QED  BY <2>1, <1>1, <1>2, <1>3 DEF InvMemoria, InvTipos, NrosAcotados
<1>5. PedidoConDatos' /\ EnMovimiento'
  <2>1. CASE pedido'.paso = "libre"
    BY <2>1 DEF PedidoConDatos, EnMovimiento
  <2>2. CASE pedido' = [pedido EXCEPT !.resto = @ \ {sw}]
    <3>1. /\ pedido'.paso = "restaura" /\ pedido'.pid = pedido.pid
          /\ pedido'.resto = pedido.resto \ {sw} /\ pedido'.hechos = pedido.hechos
      BY <2>2, <1>2 DEF InvMemoria, InvTipos, PedidosT
    <3>. QED  BY <3>1, <1>1, <1>2 DEF PedidoConDatos, EnMovimiento, De
  <2>. QED  BY <2>1, <2>2, <1>3
<1>. QED  BY <1>4, <1>5 DEF InvMemoria

-----------------------------------------------------------------------------
\* Every step preserves the inductive invariant.
LEMMA Paso == InvMemoria /\ [Next]_vars => InvMemoria'
<1>. SUFFICES ASSUME InvMemoria, [Next]_vars PROVE InvMemoria'
  OBVIOUS
<1>0. SinPedido \in PedidosT /\ SinPedido.paso = "libre"
  BY SinPedidoTipo
<1>m. memoria_total \in Nat
  BY DEF InvMemoria, InvTipos
<1>1. CASE UNCHANGED vars
  BY <1>1, <1>m, PasoSinSegmentos DEF vars, mem, swap
<1>2. ASSUME NEW t \in TamSticks, RegistrarStick(t) PROVE InvMemoria'
  <2>1. memoria_total' = memoria_total + t /\ t \in Nat
    BY <1>2, ParametrosOK DEF RegistrarStick
  <2>. QED  BY <1>2, <2>1, <1>m, PasoSinSegmentos DEF RegistrarStick, swap
<1>3. ASSUME NEW p \in Pids, AgregarProceso(p) PROVE InvMemoria'
  BY <1>3, <1>m, PasoSinSegmentos DEF AgregarProceso, swap
<1>4. ASSUME NEW p \in Pids, FinalizarProceso(p) PROVE InvMemoria'
  BY <1>4, PasoMenos DEF FinalizarProceso, InvMemoria, InvTipos
<1>5. ASSUME NEW p \in Pids, NEW i \in Ids, EliminarSegmento(p, i) PROVE InvMemoria'
  BY <1>5, PasoMenos DEF EliminarSegmento, swap, InvMemoria, InvTipos
<1>6. ASSUME NEW p \in Pids, NEW i \in Ids, NEW t, CrearSegmento(p, i, t) PROVE InvMemoria'
  BY <1>6, PasoAlta DEF CrearSegmento, swap, InvMemoria, InvTipos
<1>7. ASSUME NEW p \in Pids, NEW i \in Ids, NEW t, PedirCompactacion(p, i, t)
      PROVE  InvMemoria'
  <2>1. /\ pedido' \in PedidosT /\ pedido'.paso = "desalojo" /\ pedido'.prox = 0
        /\ pedido'.pid = p /\ pedido'.id = i /\ pedido'.tam = t /\ t \in Tams
    BY <1>7 DEF PedirCompactacion, SinPedido, PedidosT, Pasos
  <2>2. UNCHANGED <<memoria_total, segmentos, segmentos_swap>>
    BY <1>7 DEF PedirCompactacion, mem, swap
  <2>3. SinSolape'
    BY <2>2, <1>m, MenosSegmentos DEF InvMemoria
  <2>. QED  BY <2>1, <2>2, <2>3
            DEF InvMemoria, InvTipos, NrosAcotados, PedidoConDatos, EnMovimiento
<1>8. ASSUME NEW p \in Pids, SuspenderProceso(p) PROVE InvMemoria'
  <2>1. UNCHANGED <<memoria_total, segmentos, segmentos_swap>>
    BY <1>8 DEF SuspenderProceso, mem, swap
  <2>2. CASE UNCHANGED pedido
    BY <2>1, <2>2, <1>m, PasoSinSegmentos
  <2>3. CASE pedido' = [SinPedido EXCEPT !.paso = "suspende", !.pid = p,
                                         !.resto = De(segmentos, p)]
    <3>1. De(segmentos, p) \subseteq SegmentosT
      BY DEF De, InvMemoria, InvTipos
    <3>2. /\ pedido' \in PedidosT /\ pedido'.paso = "suspende" /\ pedido'.pid = p
          /\ pedido'.resto = De(segmentos, p)
      BY <2>3, <3>1 DEF SinPedido, PedidosT, Pasos
    <3>3. SinSolape'
      BY <2>1, <1>m, MenosSegmentos DEF InvMemoria
    <3>. QED  BY <2>1, <3>2, <3>3
              DEF InvMemoria, InvTipos, NrosAcotados, PedidoConDatos, EnMovimiento, De
  <2>. QED  BY <2>2, <2>3, <1>8 DEF SuspenderProceso
<1>9. ASSUME NEW p \in Pids, DessuspenderProceso(p) PROVE InvMemoria'
  <2>1. /\ UNCHANGED <<memoria_total, segmentos, segmentos_swap>>
        /\ pedido' = [SinPedido EXCEPT !.paso = "reserva", !.pid = p,
                                       !.resto = De(segmentos_swap, p)]
    BY <1>9 DEF DessuspenderProceso, mem, swap
  <2>2. De(segmentos_swap, p) \subseteq SwapT
    BY DEF De, InvMemoria, InvTipos
  <2>3. /\ pedido' \in PedidosT /\ pedido'.paso = "reserva" /\ pedido'.pid = p
        /\ pedido'.resto = De(segmentos_swap, p) /\ pedido'.hechos = {}
    BY <2>1, <2>2 DEF SinPedido, PedidosT, Pasos
  <2>4. SinSolape'
    BY <2>1, <1>m, MenosSegmentos DEF InvMemoria
  <2>. QED  BY <2>1, <2>3, <2>4
            DEF InvMemoria, InvTipos, NrosAcotados, PedidoConDatos, EnMovimiento, De
<1>10. ASSUME NEW p \in Pids, PedirContexto(p) \/ Devolver(p) \/ Escribir(p)
       PROVE  InvMemoria'
  <2>1. UNCHANGED <<memoria_total, segmentos, segmentos_swap, pedido>>
    BY <1>10, EfectoEscribir DEF PedirContexto, Devolver, mem, swap
  <2>. QED  BY <2>1, <1>m, PasoSinSegmentos
<1>11. CASE RecibirDesalojo
  <2>1. /\ UNCHANGED <<memoria_total, segmentos, segmentos_swap>>
        /\ pedido' = [pedido EXCEPT !.paso = "mueve", !.resto = segmentos]
        /\ pedido.paso = "desalojo" /\ pedido.prox = 0
    BY <1>11 DEF RecibirDesalojo, mem, swap, InvMemoria, EnMovimiento
  <2>2. segmentos \subseteq SegmentosT /\ \A s \in segmentos : 0 <= s.base
    BY DEF InvMemoria, InvTipos, SegmentosT
  <2>3. /\ pedido' \in PedidosT /\ pedido'.paso = "mueve" /\ pedido'.prox = 0
        /\ pedido'.resto = segmentos /\ pedido'.pid = pedido.pid
        /\ pedido'.id = pedido.id /\ pedido'.tam = pedido.tam
    BY <2>1, <2>2 DEF InvMemoria, InvTipos, PedidosT, Pasos
  <2>4. SinSolape'
    BY <2>1, <1>m, MenosSegmentos DEF InvMemoria
  <2>. QED  BY <2>1, <2>2, <2>3, <2>4
            DEF InvMemoria, InvTipos, NrosAcotados, PedidoConDatos, EnMovimiento
<1>12. CASE MoverSegmento
  BY <1>12, PasoMover
<1>13. CASE FinDeCompactacion
  <2>1. /\ UNCHANGED <<memoria_total, segmentos, segmentos_swap>>
        /\ pedido' = [pedido EXCEPT !.paso = "reintenta", !.prox = 0]
        /\ pedido.paso = "mueve"
    BY <1>13 DEF FinDeCompactacion, mem, swap
  <2>2. /\ pedido' \in PedidosT /\ pedido'.paso = "reintenta" /\ pedido'.pid = pedido.pid
        /\ pedido'.id = pedido.id /\ pedido'.tam = pedido.tam
    BY <2>1 DEF InvMemoria, InvTipos, PedidosT, Pasos
  <2>3. SinSolape'
    BY <2>1, <1>m, MenosSegmentos DEF InvMemoria
  <2>. QED  BY <2>1, <2>2, <2>3
            DEF InvMemoria, InvTipos, NrosAcotados, PedidoConDatos, EnMovimiento
<1>14. CASE ReintentarCrear
  <2>1. /\ pedido.pid \in Pids /\ pedido.id \in Ids /\ pedido.tam \in Tams
        /\ UNCHANGED <<memoria_total, segmentos_swap>> /\ pedido' = SinPedido
    BY <1>14 DEF ReintentarCrear, swap, InvMemoria, PedidoConDatos
  <2>2. CASE Alta(pedido.pid, pedido.id, pedido.tam)
    BY <2>1, <2>2, <1>0, PasoAlta
  <2>3. CASE UNCHANGED segmentos
    BY <2>1, <2>3, <1>0, PasoMenos
  <2>. QED  BY <2>2, <2>3, <1>14 DEF ReintentarCrear
<1>15. CASE SuspenderSegmento
  BY <1>15, PasoSuspender
<1>16. CASE ReservarSegmento
  BY <1>16, PasoReservar
<1>17. CASE RestaurarSegmento
  BY <1>17, PasoRestaurar
<1>18. \A p \in Pids : \A i \in IdsDe[p] : i \in Ids
  BY DEF Ids
<1>19. ASSUME NEW p \in Pids, Caer(p) PROVE InvMemoria'
  <2>1. UNCHANGED <<memoria_total, segmentos, segmentos_swap>>
    BY <1>19, EfectoCaer
  <2>2. pedido' \in PedidosT /\ pedido'.paso = "caido"
    BY <1>19, EfectoCaer DEF SinPedido, PedidosT, Pasos
  <2>3. SinSolape'
    BY <2>1, <1>m, MenosSegmentos DEF InvMemoria
  <2>. QED  BY <2>1, <2>2, <2>3
            DEF InvMemoria, InvTipos, NrosAcotados, PedidoConDatos, EnMovimiento
<1>. QED
  BY <1>1, <1>2, <1>3, <1>4, <1>5, <1>6, <1>7, <1>8, <1>9, <1>10, <1>11, <1>12, <1>13,
     <1>14, <1>15, <1>16, <1>17, <1>18, <1>19 DEF Next, Compactar, SeguirCaido

\* gestor_memoria never lets two segments share a byte of memory, nor one go past
\* the sticks, for every number of processes, segments, sticks and blocks.
THEOREM MemoriaSinSolape == Spec => []SinSolape
<1>1. Init => InvMemoria
  <2>. SUFFICES ASSUME Init PROVE InvMemoria
    OBVIOUS
  <2>1. InvTipos /\ PedidoConDatos /\ EnMovimiento
    BY SinPedidoTipo DEF Init, InvTipos, PedidoConDatos, EnMovimiento
  <2>2. NrosAcotados /\ SinSolape
    <3>1. segmentos = {} /\ segmentos_swap = {} /\ 0 \in Nat
      BY DEF Init
    <3>. QED  BY <3>1 DEF NrosAcotados, SinSolape
  <2>. QED  BY <2>1, <2>2 DEF InvMemoria
<1>2. InvMemoria => SinSolape
  BY DEF InvMemoria
<1>. QED  BY <1>1, <1>2, Paso, PTL DEF Spec

-----------------------------------------------------------------------------
(* Counting: blocks in order, and sizes as sets of pieces *)

\* The places of the elements of a finite set of numbers are 0 .. Cardinality(S) - 1,
\* each the place of one element.
LEMMA OrdenBiyeccion ==
  ASSUME NEW S, IsFiniteSet(S), S \subseteq Nat
  PROVE  /\ Cardinality(S) \in Nat
         /\ \A b \in S : Orden(b, S) \in 0 .. Cardinality(S) - 1
         /\ \A a, b \in S : Orden(a, S) = Orden(b, S) => a = b
         /\ \A k \in 0 .. Cardinality(S) - 1 : \E b \in S : Orden(b, S) = k
<1>. DEFINE menores(b) == {c \in S : c < b}
            n == Cardinality(S)
            f == [b \in S |-> Orden(b, S)]
<1>1. n \in Nat
  BY FS_CardinalityType
<1>2. ASSUME NEW b PROVE /\ IsFiniteSet(menores(b)) /\ Orden(b, S) = Cardinality(menores(b))
                         /\ Orden(b, S) \in Nat
  <2>1. IsFiniteSet(menores(b))
    BY FS_Subset
  <2>2. Orden(b, S) = Cardinality(menores(b))
    BY DEF Orden
  <2>. QED  BY <2>1, <2>2, FS_CardinalityType
<1>3. ASSUME NEW b \in S PROVE Orden(b, S) \in 0 .. n - 1
  <2>1. menores(b) \in SUBSET S /\ b \notin menores(b)
    OBVIOUS
  <2>2. Cardinality(menores(b)) <= n /\ Cardinality(menores(b)) # n
    BY <2>1, FS_Subset
  <2>. QED  BY <1>1, <1>2, <2>2
<1>4. ASSUME NEW a \in S, NEW b \in S, a < b PROVE Orden(a, S) < Orden(b, S)
  <2>0. a \in Nat /\ b \in Nat
    OBVIOUS
  <2>1. menores(a) \in SUBSET menores(b) /\ a \in menores(b) /\ a \notin menores(a)
    <3>1. \A c \in S : c < a => c < b
      <4>1. \A c \in S : c \in Nat
        OBVIOUS
      <4>. QED  BY <1>4, <2>0, <4>1
    <3>2. a < b /\ ~ (a < a)
      BY <1>4, <2>0
    <3>. QED  BY <3>1, <3>2
  <2>2. Cardinality(menores(a)) <= Cardinality(menores(b)) /\ Cardinality(menores(a)) # Cardinality(menores(b))
    <3>. HIDE DEF menores
    <3>. QED  BY <1>2, <2>1, FS_Subset
  <2>. QED  BY <1>2, <2>2
<1>5. ASSUME NEW a \in S, NEW b \in S, Orden(a, S) = Orden(b, S) PROVE a = b
  <2>1. a \in Nat /\ b \in Nat /\ Orden(a, S) \in Nat /\ Orden(b, S) \in Nat
    BY <1>2
  <2>2. ~ (Orden(a, S) < Orden(b, S)) /\ ~ (Orden(b, S) < Orden(a, S))
    BY <1>5, <2>1
  <2>3. ~ (a < b) /\ ~ (b < a)
    BY <1>4, <2>2
  <2>. QED  BY <2>1, <2>3
<1>6. f \in Injection(S, 0 .. n - 1)
  BY <1>3, <1>5 DEF Injection, IsInjective
<1>7. IsFiniteSet(0 .. n - 1) /\ Cardinality(0 .. n - 1) = n
  <2>1. n - 1 \in Int /\ (0 > n - 1 => n = 0)
    BY <1>1
  <2>. QED  BY <1>1, <2>1, FS_Interval
<1>8. f \in Surjection(S, 0 .. n - 1)
  <2>. HIDE DEF f
  <2>. QED  BY <1>6, <1>7, FS_Injection
<1>9. \A k \in 0 .. n - 1 : \E b \in S : f[b] = k
  BY <1>8 DEF Surjection
<1>. QED  BY <1>1, <1>3, <1>5, <1>9

\* The first n of a set that has at least n elements are n.
LEMMA PrimerosCuantos ==
  ASSUME NEW S, IsFiniteSet(S), S \subseteq Nat, NEW n \in Nat, n <= Cardinality(S)
  PROVE  Cardinality({b \in S : Orden(b, S) < n}) = n
<1>. DEFINE B == {b \in S : Orden(b, S) < n}
            f == [b \in B |-> Orden(b, S)]
<1>1. /\ \A b \in S : Orden(b, S) \in 0 .. Cardinality(S) - 1
      /\ \A a, b \in S : Orden(a, S) = Orden(b, S) => a = b
      /\ \A k \in 0 .. Cardinality(S) - 1 : \E b \in S : Orden(b, S) = k
      /\ Cardinality(S) \in Nat
  BY OrdenBiyeccion
<1>2. f \in [B -> 0 .. n - 1]
  <2>1. \A b \in B : Orden(b, S) \in 0 .. n - 1
    <3>1. \A b \in B : b \in S /\ Orden(b, S) \in Nat /\ Orden(b, S) < n
      BY <1>1
    <3>. HIDE DEF B, f
    <3>. QED  BY <3>1
  <2>. HIDE DEF B
  <2>. QED  BY <2>1
<1>3. \A a, b \in B : f[a] = f[b] => a = b
  BY <1>1
<1>4. ASSUME NEW k \in 0 .. n - 1 PROVE \E b \in B : f[b] = k
  <2>1. PICK b \in S : Orden(b, S) = k
    BY <1>1
  <2>2. b \in B /\ f[b] = k
    BY <2>1
  <2>. QED  BY <2>2
<1>5. f \in Injection(B, 0 .. n - 1) /\ f \in Surjection(B, 0 .. n - 1)
  <2>. HIDE DEF f, B
  <2>. QED  BY <1>2, <1>3, <1>4 DEF Injection, IsInjective, Surjection
<1>6. IsFiniteSet(0 .. n - 1) /\ Cardinality(0 .. n - 1) = n
  <2>1. n - 1 \in Int /\ (0 > n - 1 => n = 0)
    OBVIOUS
  <2>. QED  BY <2>1, FS_Interval
<1>. HIDE DEF f
<1>. QED  BY <1>5, <1>6, FS_Injection

\* One more element of size k adds k pieces.
LEMMA UnaPiezaMas ==
  ASSUME NEW Q, IsFiniteSet(Q), NEW s, NEW k \in Nat, \A x \in Q : x[1] # s
  PROVE  /\ IsFiniteSet(Q \cup ({s} \X (1 .. k)))
         /\ Cardinality(Q \cup ({s} \X (1 .. k))) = Cardinality(Q) + k
<1>1. IsFiniteSet({s}) /\ Cardinality({s}) = 1
  BY FS_Singleton
<1>2. IsFiniteSet(1 .. k) /\ Cardinality(1 .. k) = k
  BY FS_Interval
<1>3. IsFiniteSet({s} \X (1 .. k)) /\ Cardinality({s} \X (1 .. k)) = k
  <2>1. /\ IsFiniteSet({s} \X (1 .. k))
        /\ Cardinality({s} \X (1 .. k)) = Cardinality({s}) * Cardinality(1 .. k)
    BY <1>1, <1>2, FS_Product, Zenon
  <2>. QED  BY <1>1, <1>2, <2>1
<1>4. Q \cap ({s} \X (1 .. k)) = {}
  OBVIOUS
<1>5. Cardinality({}) = 0 /\ Cardinality(Q) \in Nat
  BY FS_EmptySet, FS_CardinalityType
<1>. QED  BY <1>3, <1>4, <1>5, FS_Union

LEMMA PiezasMas ==
  ASSUME NEW S, IsFiniteSet(Piezas(S)), NEW s, s \notin S, s.tam \in Nat
  PROVE  /\ IsFiniteSet(Piezas(S \cup {s})) /\ Cardinality(Piezas(S)) \in Nat
         /\ Cardinality(Piezas(S \cup {s})) = Cardinality(Piezas(S)) + s.tam
<1>1. \A x \in Piezas(S) : x[1] # s
  BY DEF Piezas
<1>2. Piezas(S \cup {s}) = Piezas(S) \cup ({s} \X (1 .. s.tam))
  BY DEF Piezas
<1>3. /\ IsFiniteSet(Piezas(S) \cup ({s} \X (1 .. s.tam)))
      /\ Cardinality(Piezas(S) \cup ({s} \X (1 .. s.tam))) = Cardinality(Piezas(S)) + s.tam
  BY <1>1, UnaPiezaMas, Zenon
<1>. QED  BY <1>2, <1>3, FS_CardinalityType

LEMMA PiezasSwapMas ==
  ASSUME NEW S, IsFiniteSet(PiezasSwap(S)), NEW s, s \notin S, CantBloques(s.tam) \in Nat
  PROVE  /\ IsFiniteSet(PiezasSwap(S \cup {s})) /\ Cardinality(PiezasSwap(S)) \in Nat
         /\ Cardinality(PiezasSwap(S \cup {s})) = Cardinality(PiezasSwap(S)) + CantBloques(s.tam)
<1>1. \A x \in PiezasSwap(S) : x[1] # s
  BY DEF PiezasSwap
<1>2. PiezasSwap(S \cup {s}) = PiezasSwap(S) \cup ({s} \X (1 .. CantBloques(s.tam)))
  BY DEF PiezasSwap
<1>3. /\ IsFiniteSet(PiezasSwap(S) \cup ({s} \X (1 .. CantBloques(s.tam))))
      /\ Cardinality(PiezasSwap(S) \cup ({s} \X (1 .. CantBloques(s.tam)))) = Cardinality(PiezasSwap(S)) + CantBloques(s.tam)
  BY <1>1, UnaPiezaMas, Zenon
<1>. QED  BY <1>2, <1>3, FS_CardinalityType

-----------------------------------------------------------------------------
(* Where the segments of each process are, and which blocks they have *)

\* Segments are finitely many.
Finitos == IsFiniteSet(segmentos)

\* A request that compacts asks for what fits, and has moved the segments together.
InvCompacta ==
  /\ pedido.paso \in {"desalojo", "mueve", "reintenta"} => pedido.tam <= EspacioLibre
  /\ pedido.paso = "mueve" => pedido.prox = Cardinality(Piezas(segmentos \ pedido.resto))
  /\ pedido.paso = "reintenta" => \A s \in segmentos : Fin(s) <= Cardinality(Piezas(segmentos))

\* Which request is moving the segments of process p between memory and SWAP.
Mudanza == {"suspende", "reserva", "restaura"}

\* Where the segments of a process are.
InvLugar ==
  /\ procesos \subseteq Pids /\ suspendidos \subseteq procesos
  /\ en_cpu \subseteq procesos \ suspendidos
  /\ \A s \in segmentos : s.pid \in procesos
  /\ \A sw \in segmentos_swap : sw.pid \in suspendidos
  /\ \A p \in Pids : \/ De(segmentos, p) = {} \/ De(segmentos_swap, p) = {}
                     \/ pedido.paso \in Mudanza /\ pedido.pid = p
  /\ pedido.paso \in {"desalojo", "mueve", "reintenta"} => pedido.pid \in procesos \ suspendidos
  /\ pedido.paso \in Mudanza => pedido.pid \in suspendidos
  /\ pedido.paso = "suspende" => pedido.resto = De(segmentos, pedido.pid)
  /\ pedido.paso = "reserva" => pedido.hechos = De(segmentos, pedido.pid)
  /\ pedido.paso = "restaura" => pedido.resto = De(segmentos_swap, pedido.pid)

\* The blocks that the suspension in progress needs are free.
InvBloques ==
  /\ BloquesConDueno
  /\ pedido.paso = "suspende" =>
       Cardinality(PiezasSwap(pedido.resto)) <= Cardinality(BloquesLibres)

\* A process has one segment with each number, in memory or in SWAP; while it comes
\* back, those that have a hole again are still in SWAP too.
IdsUnicos ==
  /\ \A s, r \in segmentos : s.pid = r.pid /\ s.id = r.id => s = r
  /\ \A s, r \in segmentos_swap : s.pid = r.pid /\ s.id = r.id => s = r
  /\ \A s \in segmentos, sw \in segmentos_swap : s.pid = sw.pid /\ s.id = sw.id =>
       pedido.paso \in {"reserva", "restaura"} /\ s.nro = sw.nro /\ s.tam = sw.tam
       /\ (pedido.paso = "reserva" => sw \notin pedido.resto)
  /\ pedido.paso = "reserva" => \A s \in pedido.hechos : EnSwap(s)
  /\ pedido.paso \in {"desalojo", "mueve", "reintenta"} =>
       \A s \in De(segmentos, pedido.pid) : s.id # pedido.id

\* The segments of p whose bytes are in memory
Presentes(p) == {r \in De(segmentos, p) : ~EnSwap(r)}

\* What the table says of every process, finished ones included
TablaBien == \A p \in Pids : tabla[p] = {Entrada(s) : s \in Presentes(p)}

InvTabla == ~IdsRepetidos => IdsUnicos /\ TablaBien

-----------------------------------------------------------------------------
(* What the steps that move segments do *)

\* What is left of the request, field by field
LEMMA SigueEs ==
  ASSUME InvTipos, NEW R
  PROVE  /\ R = {} => Sigue(R) = SinPedido
         /\ R # {} => /\ Sigue(R).paso = pedido.paso /\ Sigue(R).pid = pedido.pid
                      /\ Sigue(R).resto = R /\ Sigue(R).hechos = pedido.hechos
BY DEF Sigue, InvTipos, PedidosT

\* A segment that enters a hole is new.
LEMMA HuecoNuevo ==
  ASSUME InvTipos, SinSolape, NEW t \in Tams, NEW h \in Huecos(t), NEW s, s.base = h, s.tam = t
  PROVE  s \notin segmentos
<1>1. \A r \in segmentos : Fin(r) <= h \/ h + t <= r.base
  BY HuecoLibre
<1>2. \A r \in segmentos : r.base \in Nat /\ r.tam \in Nat /\ r.tam > 0
  BY ParametrosOK DEF InvTipos, SegmentosT, Tams
<1>. QED  BY <1>1, <1>2 DEF Fin

LEMMA EfectoAlta ==
  ASSUME InvMemoria, NEW p \in Pids, NEW i \in Ids, NEW t \in Tams, Alta(p, i, t)
  PROVE  \E s \in SegmentosT :
           /\ s.pid = p /\ s.id = i /\ s.tam = t /\ s \notin segmentos
           /\ segmentos' = segmentos \cup {s}
           /\ tabla' = [tabla EXCEPT ![p] = @ \cup {Entrada(s)}]
<1>1. PICK h \in BuscarHueco(BestFit, t) :
        /\ segmentos' = segmentos \cup {Nuevo(p, i, ProximoNro(p, i), h, t)}
        /\ tabla' = [tabla EXCEPT ![p] = @ \cup {Entrada(Nuevo(p, i, ProximoNro(p, i), h, t))}]
  BY DEF Alta
<1>. DEFINE n == ProximoNro(p, i)
            s == Nuevo(p, i, n, h, t)
<1>2. h \in Huecos(t) /\ h \in Nat
  BY <1>1, HuecoLibre DEF BuscarHueco, InvMemoria
<1>3. n \in Numeros
  BY ProximoNroTipo DEF InvMemoria
<1>. HIDE DEF n
<1>4. s \in SegmentosT /\ s.base = h /\ s.tam = t /\ s.pid = p /\ s.id = i
  BY <1>2, <1>3 DEF Nuevo, SegmentosT
<1>5. /\ segmentos' = segmentos \cup {s}
      /\ tabla' = [tabla EXCEPT ![p] = @ \cup {Entrada(s)}]
  BY <1>1 DEF n
<1>. HIDE DEF s
<1>6. s \notin segmentos
  BY <1>2, <1>4, HuecoNuevo DEF InvMemoria
<1>. QED  BY <1>4, <1>5, <1>6

LEMMA EfectoMover ==
  ASSUME InvMemoria, MoverSegmento
  PROVE  \E s \in pedido.resto, n \in SegmentosT :
           /\ s \in segmentos /\ n \notin segmentos \ {s}
           /\ n.pid = s.pid /\ n.id = s.id /\ n.nro = s.nro /\ n.tam = s.tam
           /\ n.base = pedido.prox /\ segmentos' = (segmentos \ {s}) \cup {n}
           /\ \/ n = s /\ UNCHANGED <<tabla, ram>>
              \/ /\ tabla' = [tabla EXCEPT ![s.pid] = ConBase(@, s.id, pedido.prox)]
                 /\ ram' = Escritos(pedido.prox, Bytes(s))
           /\ pedido' = [pedido EXCEPT !.resto = @ \ {s}, !.prox = @ + s.tam]
<1>1. PICK s \in pedido.resto :
        /\ \A r \in pedido.resto : s.base <= r.base
        /\ pedido' = [pedido EXCEPT !.resto = @ \ {s}, !.prox = @ + s.tam]
        /\ IF s.base = pedido.prox
           THEN UNCHANGED <<segmentos, tabla, ram>>
           ELSE /\ segmentos' = (segmentos \ {s}) \cup {[s EXCEPT !.base = pedido.prox]}
                /\ tabla' = [tabla EXCEPT ![s.pid] = ConBase(@, s.id, pedido.prox)]
                /\ ram' = Escritos(pedido.prox, Bytes(s))
  BY DEF MoverSegmento
<1>. DEFINE n == [s EXCEPT !.base = pedido.prox]
<1>2. /\ pedido.resto \subseteq segmentos
      /\ \A r \in segmentos \ pedido.resto : Fin(r) <= pedido.prox
      /\ \A r \in pedido.resto : pedido.prox <= r.base
      /\ pedido.prox \in Nat /\ s \in SegmentosT
  BY DEF MoverSegmento, InvMemoria, EnMovimiento, InvTipos, PedidosT
<1>3. \A r \in segmentos :
        r.base \in Nat /\ r.tam \in Nat /\ r.tam > 0 /\ Fin(r) = r.base + r.tam
  BY ParametrosOK DEF InvMemoria, InvTipos, SegmentosT, Tams, Fin
<1>4. /\ n \in SegmentosT /\ n.base = pedido.prox /\ n.tam = s.tam /\ n.nro = s.nro
      /\ n.pid = s.pid /\ n.id = s.id /\ (s.base = pedido.prox => n = s)
  BY <1>2 DEF SegmentosT
<1>5. /\ segmentos' = (segmentos \ {s}) \cup {n}
      /\ \/ n = s /\ UNCHANGED <<tabla, ram>>
         \/ /\ tabla' = [tabla EXCEPT ![s.pid] = ConBase(@, s.id, pedido.prox)]
            /\ ram' = Escritos(pedido.prox, Bytes(s))
  BY <1>1, <1>2, <1>4
<1>. HIDE DEF n
<1>6. ASSUME NEW r \in segmentos, r # s, r = n PROVE FALSE
  <2>1. Fin(s) <= r.base \/ Fin(r) <= s.base
    BY <1>2, <1>6 DEF InvMemoria, SinSolape, Disjuntos
  <2>2. CASE r \in pedido.resto
    BY <2>1, <2>2, <1>1, <1>2, <1>3, <1>4, <1>6
  <2>3. CASE r \notin pedido.resto
    BY <2>3, <1>2, <1>3, <1>4, <1>6
  <2>. QED  BY <2>2, <2>3
<1>. QED  BY <1>1, <1>2, <1>4, <1>5, <1>6

LEMMA EfectoSuspender ==
  ASSUME InvMemoria, SuspenderSegmento
  PROVE  \E s \in pedido.resto, w \in SwapT :
           /\ s \in segmentos /\ s.pid = pedido.pid /\ s \in SegmentosT
           /\ s \in Primero(pedido.resto, s.id)
           /\ w.pid = s.pid /\ w.id = s.id /\ w.nro = s.nro /\ w.tam = s.tam
           /\ w.bloques = Reservables(CantBloques(s.tam))
           /\ disco' = Copiados(w.bloques, Bytes(s))
           /\ bloques_usados' = bloques_usados \cup w.bloques
           /\ segmentos_swap' = segmentos_swap \cup {w} /\ segmentos' = segmentos \ {s}
           /\ tabla' = [tabla EXCEPT ![s.pid] = @ \ Primero(@, s.id)]
           /\ pedido' = Sigue(pedido.resto \ {s})
<1>1. /\ pedido.resto \subseteq De(segmentos, pedido.pid)
      /\ segmentos \subseteq SegmentosT
  BY DEF SuspenderSegmento, InvMemoria, InvTipos, EnMovimiento
<1>2. PICK s \in pedido.resto :
        LET B == Reservables(CantBloques(s.tam)) IN
        /\ s \in Primero(pedido.resto, s.id)
        /\ disco' = Copiados(B, Bytes(s))
        /\ bloques_usados' = bloques_usados \cup B
        /\ segmentos_swap' = segmentos_swap \cup
             {[pid |-> pedido.pid, id |-> s.id, nro |-> s.nro, tam |-> s.tam, bloques |-> B]}
        /\ segmentos' = segmentos \ {s}
        /\ tabla' = [tabla EXCEPT ![pedido.pid] = @ \ Primero(@, s.id)]
        /\ pedido' = Sigue(pedido.resto \ {s})
  BY DEF SuspenderSegmento
<1>. DEFINE B == Reservables(CantBloques(s.tam))
            w == [pid |-> pedido.pid, id |-> s.id, nro |-> s.nro, tam |-> s.tam, bloques |-> B]
<1>3. s \in segmentos /\ s.pid = pedido.pid /\ s \in SegmentosT
  BY <1>1 DEF De
<1>4. B \subseteq Bloques
  BY DEF Reservables, BloquesLibres
<1>. HIDE DEF B
<1>5. /\ w \in SwapT /\ w.pid = s.pid /\ w.id = s.id /\ w.nro = s.nro /\ w.tam = s.tam
      /\ w.bloques = B
  BY <1>3, <1>4 DEF SegmentosT, SwapT
<1>6. segmentos_swap' = segmentos_swap \cup {w}
  BY <1>2 DEF B
<1>. HIDE DEF w
<1>. QED  BY <1>2, <1>3, <1>5, <1>6 DEF B

LEMMA EfectoReservar ==
  ASSUME InvMemoria, ReservarSegmento
  PROVE  \/ segmentos' = segmentos \ pedido.hechos /\ pedido' = SinPedido
         \/ \E sw \in pedido.resto, s \in SegmentosT :
              /\ sw \in segmentos_swap /\ sw.pid = pedido.pid
              /\ s.pid = sw.pid /\ s.id = sw.id /\ s.nro = sw.nro /\ s.tam = sw.tam
              /\ s \notin segmentos /\ segmentos' = segmentos \cup {s}
              /\ pedido'.pid = pedido.pid /\ pedido'.hechos = pedido.hechos \cup {s}
              /\ \/ /\ pedido.resto = {sw} /\ pedido'.paso = "restaura"
                    /\ pedido'.resto = De(segmentos_swap, pedido.pid)
                 \/ pedido'.paso = "reserva" /\ pedido'.resto = pedido.resto \ {sw}
<1>1. PICK sw \in pedido.resto :
        \/ segmentos' = segmentos \ pedido.hechos /\ pedido' = SinPedido
        \/ \E h \in BuscarHueco(BestFit, sw.tam) :
             LET s == Nuevo(pedido.pid, sw.id, sw.nro, h, sw.tam)
                 hechos == pedido.hechos \cup {s}
             IN /\ segmentos' = segmentos \cup {s}
                /\ pedido' = IF pedido.resto = {sw}
                             THEN [pedido EXCEPT !.paso = "restaura", !.hechos = hechos,
                                                 !.resto = De(segmentos_swap, pedido.pid)]
                             ELSE [pedido EXCEPT !.resto = @ \ {sw}, !.hechos = hechos]
  BY DEF ReservarSegmento
<1>2. /\ pedido.paso = "reserva"
      /\ pedido.resto \subseteq De(segmentos_swap, pedido.pid)
  BY DEF ReservarSegmento, InvMemoria, EnMovimiento
<1>3. ASSUME NEW h \in BuscarHueco(BestFit, sw.tam),
             NEW s, s = Nuevo(pedido.pid, sw.id, sw.nro, h, sw.tam),
             segmentos' = segmentos \cup {s},
             pedido' = IF pedido.resto = {sw}
                       THEN [pedido EXCEPT !.paso = "restaura",
                                           !.hechos = pedido.hechos \cup {s},
                                           !.resto = De(segmentos_swap, pedido.pid)]
                       ELSE [pedido EXCEPT !.resto = @ \ {sw},
                                           !.hechos = pedido.hechos \cup {s}]
      PROVE  /\ sw \in segmentos_swap /\ sw.pid = pedido.pid /\ s \in SegmentosT
             /\ s.pid = sw.pid /\ s.id = sw.id /\ s.nro = sw.nro /\ s.tam = sw.tam
             /\ s \notin segmentos
             /\ pedido'.pid = pedido.pid /\ pedido'.hechos = pedido.hechos \cup {s}
             /\ \/ /\ pedido.resto = {sw} /\ pedido'.paso = "restaura"
                   /\ pedido'.resto = De(segmentos_swap, pedido.pid)
                \/ pedido'.paso = "reserva" /\ pedido'.resto = pedido.resto \ {sw}
  <2>1. /\ sw \in segmentos_swap /\ sw.pid = pedido.pid
        /\ pedido.pid \in Pids /\ sw.id \in Ids /\ sw.nro \in Numeros /\ sw.tam \in Tams
    BY <1>2 DEF De, InvMemoria, InvTipos, SwapT
  <2>2. h \in Huecos(sw.tam) /\ h \in Nat
    BY <1>3, <2>1, HuecoLibre DEF BuscarHueco, InvMemoria
  <2>3. /\ s \in SegmentosT /\ s.base = h /\ s.tam = sw.tam /\ s.nro = sw.nro
        /\ s.pid = pedido.pid /\ s.id = sw.id
    BY <1>3, <2>1, <2>2 DEF Nuevo, SegmentosT
  <2>4. s \notin segmentos
    BY <2>1, <2>2, <2>3, HuecoNuevo DEF InvMemoria
  <2>5. /\ pedido'.pid = pedido.pid /\ pedido'.hechos = pedido.hechos \cup {s}
        /\ \/ /\ pedido.resto = {sw} /\ pedido'.paso = "restaura"
              /\ pedido'.resto = De(segmentos_swap, pedido.pid)
           \/ pedido'.paso = "reserva" /\ pedido'.resto = pedido.resto \ {sw}
    BY <1>2, <1>3 DEF InvMemoria, InvTipos, PedidosT
  <2>. QED  BY <2>1, <2>3, <2>4, <2>5
<1>4. ASSUME NEW h \in BuscarHueco(BestFit, sw.tam),
             LET s == Nuevo(pedido.pid, sw.id, sw.nro, h, sw.tam)
                 hechos == pedido.hechos \cup {s}
             IN /\ segmentos' = segmentos \cup {s}
                /\ pedido' = IF pedido.resto = {sw}
                             THEN [pedido EXCEPT !.paso = "restaura", !.hechos = hechos,
                                                 !.resto = De(segmentos_swap, pedido.pid)]
                             ELSE [pedido EXCEPT !.resto = @ \ {sw}, !.hechos = hechos]
      PROVE  \E s \in SegmentosT :
              /\ sw \in segmentos_swap /\ sw.pid = pedido.pid
              /\ s.pid = sw.pid /\ s.id = sw.id /\ s.nro = sw.nro /\ s.tam = sw.tam
              /\ s \notin segmentos /\ segmentos' = segmentos \cup {s}
              /\ pedido'.pid = pedido.pid /\ pedido'.hechos = pedido.hechos \cup {s}
              /\ \/ /\ pedido.resto = {sw} /\ pedido'.paso = "restaura"
                    /\ pedido'.resto = De(segmentos_swap, pedido.pid)
                 \/ pedido'.paso = "reserva" /\ pedido'.resto = pedido.resto \ {sw}
  <2>1. PICK s : s = Nuevo(pedido.pid, sw.id, sw.nro, h, sw.tam)
    OBVIOUS
  <2>2. segmentos' = segmentos \cup {s}
    BY <1>4, <2>1
  <2>. QED  BY <1>3, <1>4, <2>1, <2>2
<1>. QED  BY <1>1, <1>4

LEMMA EfectoRestaurar ==
  ASSUME InvMemoria, RestaurarSegmento
  PROVE  \E sw \in pedido.resto, s \in pedido.hechos :
           /\ sw \in segmentos_swap /\ sw.pid = pedido.pid
           /\ s \in segmentos /\ s.pid = pedido.pid /\ s.id = sw.id /\ s.nro = sw.nro
           /\ bloques_usados' = bloques_usados \ sw.bloques
           /\ segmentos_swap' = segmentos_swap \ {sw}
           /\ ram' = Escritos(s.base, BytesSwap(sw))
           /\ tabla' = [tabla EXCEPT ![s.pid] = @ \cup {Entrada(s)}]
           /\ pedido' = Sigue(pedido.resto \ {sw})
           /\ suspendidos' = IF pedido.resto = {sw} THEN suspendidos \ {pedido.pid}
                             ELSE suspendidos
<1>1. /\ pedido.resto \subseteq De(segmentos_swap, pedido.pid)
      /\ pedido.hechos \subseteq De(segmentos, pedido.pid)
  BY DEF RestaurarSegmento, InvMemoria, EnMovimiento
<1>. QED  BY <1>1 DEF RestaurarSegmento, De

-----------------------------------------------------------------------------
(* Where the segments of each process are *)

\* A step that moves no segment
LEMMA LugarQuieto ==
  ASSUME InvLugar, UNCHANGED <<segmentos, segmentos_swap, pedido, suspendidos>>,
         procesos \subseteq procesos', procesos' \subseteq Pids,
         en_cpu' \subseteq procesos' \ suspendidos
  PROVE  InvLugar'
BY DEF InvLugar, De

\* A step of a compaction, which leaves every segment with its process
LEMMA LugarCompacta ==
  ASSUME InvLugar, UNCHANGED <<segmentos_swap, procesos, suspendidos>>,
         en_cpu' \subseteq procesos \ suspendidos,
         pedido.paso \notin Mudanza, pedido'.paso \notin Mudanza,
         \A s \in segmentos' : \E r \in segmentos : r.pid = s.pid,
         pedido'.paso \in {"desalojo", "mueve", "reintenta"} =>
           pedido'.pid \in procesos \ suspendidos
  PROVE  InvLugar'
<1>1. ASSUME NEW p \in Pids, De(segmentos, p) = {} PROVE De(segmentos', p) = {}
  BY <1>1 DEF De
<1>. QED  BY <1>1 DEF InvLugar, De, Mudanza

LEMMA PasoLugar == InvMemoria /\ InvLugar /\ [Next]_vars => InvLugar'
<1>. SUFFICES ASSUME InvMemoria, InvLugar, [Next]_vars PROVE InvLugar'
  OBVIOUS
<1>0. SinPedido.paso = "libre"
  BY DEF SinPedido
<1>c. /\ procesos \subseteq Pids /\ suspendidos \subseteq procesos
      /\ en_cpu \subseteq procesos \ suspendidos
  BY DEF InvLugar
<1>1. CASE UNCHANGED vars
  BY <1>1, <1>c, LugarQuieto DEF vars, mem, swap, cpus
<1>2. ASSUME NEW t \in TamSticks, RegistrarStick(t) PROVE InvLugar'
  BY <1>2, <1>c, LugarQuieto DEF RegistrarStick, swap, cpus
<1>3. ASSUME NEW p \in Pids, AgregarProceso(p) PROVE InvLugar'
  BY <1>3, <1>c, LugarQuieto DEF AgregarProceso, swap, cpus
<1>4. ASSUME NEW p \in Pids, FinalizarProceso(p) PROVE InvLugar'
  <2>1. /\ pedido.paso = "libre" /\ p \notin en_cpu /\ pedido' = pedido /\ en_cpu' = en_cpu
        /\ segmentos' = segmentos \ De(segmentos, p)
        /\ segmentos_swap' = segmentos_swap \ De(segmentos_swap, p)
        /\ procesos' = procesos \ {p} /\ suspendidos' = suspendidos \ {p}
    BY <1>4 DEF FinalizarProceso, cpus
  <2>. QED  BY <2>1 DEF InvLugar, De, Mudanza
<1>5. ASSUME NEW p \in Pids, NEW i \in Ids, EliminarSegmento(p, i) PROVE InvLugar'
  <2>1. /\ pedido.paso = "libre" /\ segmentos' \subseteq segmentos
        /\ UNCHANGED <<procesos, segmentos_swap, pedido, suspendidos, en_cpu>>
    BY <1>5 DEF EliminarSegmento, swap, cpus
  <2>. QED  BY <2>1, <1>c, LugarCompacta DEF Mudanza
<1>6. ASSUME NEW p \in Pids, NEW i \in Ids, NEW t, CrearSegmento(p, i, t) PROVE InvLugar'
  <2>1. /\ pedido.paso = "libre" /\ p \in procesos \ suspendidos
        /\ UNCHANGED <<procesos, segmentos_swap, pedido, suspendidos, en_cpu>>
    BY <1>6 DEF CrearSegmento, swap, cpus, EnKernel
  <2>2. PICK s \in SegmentosT : s.pid = p /\ segmentos' = segmentos \cup {s}
    BY <1>6, EfectoAlta DEF CrearSegmento
  <2>3. De(segmentos_swap, p) = {}
    BY <2>1 DEF InvLugar, De
  <2>. QED  BY <2>1, <2>2, <2>3 DEF InvLugar, De, Mudanza
<1>7. ASSUME NEW p \in Pids, NEW i \in Ids, NEW t, PedirCompactacion(p, i, t)
      PROVE  InvLugar'
  <2>1. /\ pedido.paso = "libre" /\ p \in procesos \ suspendidos
        /\ UNCHANGED <<segmentos, procesos, segmentos_swap, suspendidos, en_cpu>>
        /\ pedido'.paso = "desalojo" /\ pedido'.pid = p
    BY <1>7 DEF PedirCompactacion, SinPedido, mem, swap, cpus, EnKernel
  <2>. QED  BY <2>1, <1>c, LugarCompacta DEF Mudanza
<1>8. ASSUME NEW p \in Pids, SuspenderProceso(p) PROVE InvLugar'
  <2>1. /\ pedido.paso = "libre" /\ p \in procesos \ suspendidos /\ p \notin en_cpu
        /\ UNCHANGED <<segmentos, procesos, segmentos_swap, en_cpu>>
        /\ suspendidos' = suspendidos \cup {p}
    BY <1>8 DEF SuspenderProceso, mem, swap, cpus, EnKernel
  <2>2. CASE UNCHANGED pedido
    BY <2>1, <2>2 DEF InvLugar, De, Mudanza
  <2>3. CASE pedido' = [SinPedido EXCEPT !.paso = "suspende", !.pid = p,
                                         !.resto = De(segmentos, p)]
    <3>1. pedido'.paso = "suspende" /\ pedido'.pid = p /\ pedido'.resto = De(segmentos, p)
      BY <2>3 DEF SinPedido
    <3>. QED  BY <2>1, <3>1 DEF InvLugar, De, Mudanza
  <2>. QED  BY <2>2, <2>3, <1>8 DEF SuspenderProceso
<1>9. ASSUME NEW p \in Pids, DessuspenderProceso(p) PROVE InvLugar'
  <2>1. /\ pedido.paso = "libre" /\ p \in suspendidos /\ De(segmentos_swap, p) # {}
        /\ UNCHANGED <<segmentos, procesos, segmentos_swap, suspendidos, en_cpu>>
        /\ pedido'.paso = "reserva" /\ pedido'.pid = p /\ pedido'.hechos = {}
    BY <1>9 DEF DessuspenderProceso, SinPedido, mem, swap, cpus
  <2>2. De(segmentos, p) = {}
    BY <2>1 DEF InvLugar, Mudanza
  <2>. QED  BY <2>1, <2>2 DEF InvLugar, De, Mudanza
<1>10. ASSUME NEW p \in Pids, PedirContexto(p) \/ Devolver(p) \/ Escribir(p)
       PROVE  InvLugar'
  <2>1. /\ UNCHANGED <<segmentos, segmentos_swap, pedido, suspendidos, procesos>>
        /\ en_cpu' \subseteq procesos \ suspendidos
    BY <1>10, <1>c, EfectoEscribir DEF PedirContexto, Devolver, EnKernel, mem, swap, cpus
  <2>. QED  BY <2>1, <1>c, LugarQuieto
<1>11. CASE RecibirDesalojo \/ FinDeCompactacion
  <2>1. /\ pedido.paso \in {"desalojo", "mueve"} /\ pedido'.paso \in {"mueve", "reintenta"}
        /\ pedido'.pid = pedido.pid
        /\ UNCHANGED <<segmentos, procesos, segmentos_swap, suspendidos, en_cpu>>
    BY <1>11 DEF RecibirDesalojo, FinDeCompactacion, mem, swap, cpus, InvMemoria, InvTipos,
       PedidosT
  <2>2. pedido'.pid \in procesos \ suspendidos
    BY <2>1 DEF InvLugar
  <2>. QED  BY <2>1, <2>2, <1>c, LugarCompacta DEF Mudanza
<1>12. CASE MoverSegmento
  <2>1. PICK s \in pedido.resto, n \in SegmentosT :
          /\ s \in segmentos /\ n.pid = s.pid /\ segmentos' = (segmentos \ {s}) \cup {n}
          /\ pedido' = [pedido EXCEPT !.resto = @ \ {s}, !.prox = @ + s.tam]
    BY <1>12, EfectoMover
  <2>2. /\ pedido.paso = "mueve"
        /\ UNCHANGED <<procesos, segmentos_swap, suspendidos, en_cpu>>
    BY <1>12 DEF MoverSegmento, swap, cpus
  <2>3. pedido'.paso = "mueve" /\ pedido'.pid = pedido.pid
    BY <2>1, <2>2 DEF InvMemoria, InvTipos, PedidosT
  <2>4. pedido'.pid \in procesos \ suspendidos
    BY <2>2, <2>3 DEF InvLugar
  <2>5. \A x \in segmentos' : \E r \in segmentos : r.pid = x.pid
    BY <2>1
  <2>. QED  BY <2>2, <2>3, <2>4, <2>5, <1>c, LugarCompacta DEF Mudanza
<1>13. CASE ReintentarCrear
  <2>1. /\ pedido.paso = "reintenta" /\ pedido' = SinPedido
        /\ UNCHANGED <<procesos, segmentos_swap, suspendidos, en_cpu>>
        /\ pedido.pid \in Pids /\ pedido.id \in Ids /\ pedido.tam \in Tams
        /\ pedido.pid \in procesos \ suspendidos
    BY <1>13 DEF ReintentarCrear, swap, cpus, InvMemoria, PedidoConDatos, InvLugar
  <2>2. CASE Alta(pedido.pid, pedido.id, pedido.tam)
    <3>1. PICK s \in SegmentosT : s.pid = pedido.pid /\ segmentos' = segmentos \cup {s}
      BY <2>1, <2>2, EfectoAlta
    <3>2. De(segmentos_swap, pedido.pid) = {}
      BY <2>1 DEF InvLugar, De
    <3>. QED  BY <2>1, <3>1, <3>2, <1>0 DEF InvLugar, De, Mudanza
  <2>3. CASE UNCHANGED segmentos
    BY <2>1, <2>3, <1>0, <1>c, LugarCompacta DEF Mudanza
  <2>. QED  BY <2>2, <2>3, <1>13 DEF ReintentarCrear
<1>14. CASE SuspenderSegmento
  <2>1. PICK s \in pedido.resto, w \in SwapT :
          /\ s \in segmentos /\ s.pid = pedido.pid
          /\ w.pid = s.pid /\ segmentos_swap' = segmentos_swap \cup {w}
          /\ segmentos' = segmentos \ {s} /\ pedido' = Sigue(pedido.resto \ {s})
    BY <1>14, EfectoSuspender
  <2>2. /\ pedido.paso = "suspende" /\ UNCHANGED <<procesos, suspendidos, en_cpu>>
    BY <1>14 DEF SuspenderSegmento, cpus
  <2>3. pedido.resto = De(segmentos, pedido.pid) /\ pedido.pid \in suspendidos
    BY <2>2 DEF InvLugar, Mudanza
  <2>4. De(segmentos', pedido.pid) = pedido.resto \ {s}
    BY <2>1, <2>3 DEF De
  <2>5. \A p \in Pids : p # pedido.pid =>
          De(segmentos', p) = De(segmentos, p) /\ De(segmentos_swap', p) = De(segmentos_swap, p)
    BY <2>1 DEF De
  <2>6. CASE pedido.resto = {s}
    <3>1. pedido' = SinPedido
      BY <2>1, <2>6, SigueEs DEF InvMemoria
    <3>. QED  BY <2>1, <2>2, <2>3, <2>4, <2>5, <2>6, <3>1, <1>0 DEF InvLugar, Mudanza
  <2>7. CASE pedido.resto # {s}
    <3>1. /\ pedido'.paso = "suspende" /\ pedido'.pid = pedido.pid
          /\ pedido'.resto = pedido.resto \ {s}
      <4>1. pedido.resto \ {s} # {}
        BY <2>1, <2>7
      <4>. QED  BY <4>1, <2>1, <2>2, SigueEs DEF InvMemoria
    <3>. QED  BY <2>1, <2>2, <2>3, <2>4, <2>5, <3>1 DEF InvLugar, Mudanza
  <2>. QED  BY <2>6, <2>7
<1>15. CASE ReservarSegmento
  <2>1. /\ pedido.paso = "reserva"
        /\ UNCHANGED <<procesos, segmentos_swap, suspendidos, en_cpu>>
    BY <1>15 DEF ReservarSegmento, swap, cpus
  <2>2. pedido.hechos = De(segmentos, pedido.pid) /\ pedido.pid \in suspendidos
    BY <2>1 DEF InvLugar, Mudanza
  <2>3. CASE segmentos' = segmentos \ pedido.hechos /\ pedido' = SinPedido
    <3>1. De(segmentos', pedido.pid) = {}
      BY <2>2, <2>3 DEF De
    <3>2. \A p \in Pids : De(segmentos, p) = {} => De(segmentos', p) = {}
      BY <2>3 DEF De
    <3>. QED  BY <2>1, <2>2, <2>3, <3>1, <3>2, <1>0 DEF InvLugar, Mudanza
  <2>4. ASSUME NEW sw \in pedido.resto, NEW s \in SegmentosT, sw \in segmentos_swap,
               sw.pid = pedido.pid, s.pid = sw.pid, segmentos' = segmentos \cup {s},
               pedido'.pid = pedido.pid, pedido'.hechos = pedido.hechos \cup {s},
               \/ /\ pedido.resto = {sw} /\ pedido'.paso = "restaura"
                  /\ pedido'.resto = De(segmentos_swap, pedido.pid)
               \/ pedido'.paso = "reserva" /\ pedido'.resto = pedido.resto \ {sw}
        PROVE  InvLugar'
    <3>1. De(segmentos', pedido.pid) = pedido.hechos \cup {s}
      BY <2>2, <2>4 DEF De
    <3>2. \A p \in Pids : p # pedido.pid => De(segmentos', p) = De(segmentos, p)
      BY <2>4 DEF De
    <3>. QED  BY <2>1, <2>2, <2>4, <3>1, <3>2 DEF InvLugar, Mudanza
  <2>. QED  BY <1>15, <2>3, <2>4, EfectoReservar, SMTT(40)
<1>16. CASE RestaurarSegmento
  <2>1. PICK sw \in pedido.resto :
          /\ sw \in segmentos_swap /\ sw.pid = pedido.pid
          /\ segmentos_swap' = segmentos_swap \ {sw} /\ pedido' = Sigue(pedido.resto \ {sw})
          /\ suspendidos' = IF pedido.resto = {sw} THEN suspendidos \ {pedido.pid}
                            ELSE suspendidos
    BY <1>16, EfectoRestaurar
  <2>2. /\ pedido.paso = "restaura" /\ UNCHANGED <<procesos, segmentos, en_cpu>>
    BY <1>16 DEF RestaurarSegmento, cpus
  <2>3. pedido.resto = De(segmentos_swap, pedido.pid) /\ pedido.pid \in suspendidos
    BY <2>2 DEF InvLugar, Mudanza
  <2>4. De(segmentos_swap', pedido.pid) = pedido.resto \ {sw}
    BY <2>1, <2>3 DEF De
  <2>5. \A p \in Pids : De(segmentos_swap, p) = {} => De(segmentos_swap', p) = {}
    BY <2>1 DEF De
  <2>6. CASE pedido.resto = {sw}
    <3>1. pedido' = SinPedido /\ suspendidos' = suspendidos \ {pedido.pid}
      BY <2>1, <2>6, SigueEs DEF InvMemoria
    <3>2. \A x \in segmentos_swap' : x.pid # pedido.pid
      BY <2>4, <2>6 DEF De
    <3>. QED  BY <2>1, <2>2, <2>3, <2>4, <2>5, <2>6, <3>1, <3>2, <1>0 DEF InvLugar, Mudanza
  <2>7. CASE pedido.resto # {sw}
    <3>1. /\ pedido'.paso = "restaura" /\ pedido'.pid = pedido.pid
          /\ pedido'.resto = pedido.resto \ {sw}
      <4>1. pedido.resto \ {sw} # {}
        BY <2>1, <2>7
      <4>. QED  BY <4>1, <2>1, <2>2, SigueEs DEF InvMemoria
    <3>. QED  BY <2>1, <2>2, <2>3, <2>4, <2>5, <2>7, <3>1 DEF InvLugar, Mudanza
  <2>. QED  BY <2>6, <2>7
<1>17. ASSUME NEW p \in Pids, Caer(p) PROVE InvLugar'
  BY <1>17, EfectoCaer DEF InvLugar, De, Mudanza
<1>18. \A p \in Pids : \A i \in IdsDe[p] : i \in Ids
  BY DEF Ids
<1>. QED
  BY <1>1, <1>2, <1>3, <1>4, <1>5, <1>6, <1>7, <1>8, <1>9, <1>10, <1>11, <1>12, <1>13,
     <1>14, <1>15, <1>16, <1>17, <1>18 DEF Next, Compactar, SeguirCaido

-----------------------------------------------------------------------------
(* The blocks of SWAP *)

\* A segment needs at least one block, at most as many as its bytes, and enough for
\* the last of them.
LEMMA CantBloquesAcota ==
  ASSUME NEW t \in Tams
  PROVE  /\ CantBloques(t) \in Nat \ {0} /\ CantBloques(t) <= t
         /\ \A k \in 0 .. t - 1 : k \div SwapBlockSize \in 0 .. CantBloques(t) - 1
                                  /\ k % SwapBlockSize \in 0 .. SwapBlockSize - 1
<1>. DEFINE b == SwapBlockSize
            q == CantBloques(t)
<1>1. t \in Nat /\ t > 0 /\ b \in Nat /\ b > 0
  BY ParametrosOK DEF Tams
<1>2. q \in Int /\ b * q <= t + b - 1 /\ t + b - 1 < b * q + b
  BY <1>1 DEF CantBloques
<1>. HIDE DEF b, q
<1>3. b * q \in Int /\ b * q > 0
  BY <1>1, <1>2
<1>4. q > 0
  BY <1>1, <1>2, <1>3
<1>5. q <= t
  <2>1. ASSUME q > t PROVE FALSE
    <3>1. b * q >= b * (t + 1)
      BY <1>1, <1>2, <2>1
    <3>2. b * (t + 1) = b * t + b /\ b * t \in Int
      BY <1>1
    <3>3. b * t >= t
      BY <1>1
    <3>. QED  BY <1>1, <1>2, <1>3, <3>1, <3>2, <3>3
  <2>. QED  BY <1>1, <1>2, <2>1
<1>6. ASSUME NEW k \in 0 .. t - 1 PROVE k \div b \in 0 .. q - 1 /\ k % b \in 0 .. b - 1
  <2>. DEFINE c == k \div b
  <2>1. k \in Nat /\ k <= t - 1
    BY <1>1
  <2>2. c \in Int /\ b * c <= k /\ k < b * c + b /\ k % b \in 0 .. b - 1
    BY <1>1, <2>1
  <2>. HIDE DEF c
  <2>3. b * c \in Int /\ b * c < b * q
    BY <1>1, <1>2, <1>3, <2>1, <2>2
  <2>4. c < q
    <3>1. ASSUME c >= q PROVE FALSE
      <4>1. b * c >= b * q
        BY <1>1, <1>2, <2>2, <3>1
      <4>. QED  BY <2>3, <1>3, <4>1
    <3>. QED  BY <1>2, <2>2, <3>1
  <2>5. c >= 0
    <3>1. ASSUME c <= -1 PROVE FALSE
      <4>1. b * c <= b * (-1)
        BY <1>1, <2>2, <3>1
      <4>. QED  BY <1>1, <2>1, <2>2, <2>3, <4>1
    <3>. QED  BY <2>2, <3>1
  <2>. QED  BY <1>2, <2>2, <2>4, <2>5 DEF c
<1>. QED  BY <1>2, <1>4, <1>5, <1>6 DEF b, q

\* The pieces of finitely many segments are finitely many.
LEMMA PiezasFinitas ==
  ASSUME NEW S \in SUBSET SegmentosT, IsFiniteSet(S)
  PROVE  IsFiniteSet(Piezas(S)) /\ IsFiniteSet(PiezasSwap(S))
<1>1. IsFiniteSet(1 .. SegmentMaxSize)
  BY ParametrosOK, FS_Interval
<1>2. IsFiniteSet(S \X (1 .. SegmentMaxSize))
  BY <1>1, FS_Product
<1>3. \A s \in S : s.tam \in Tams
  BY DEF SegmentosT
<1>4. \A s \in S : /\ 1 .. s.tam \subseteq 1 .. SegmentMaxSize
                   /\ 1 .. CantBloques(s.tam) \subseteq 1 .. SegmentMaxSize
  <2>1. ASSUME NEW s \in S
        PROVE  /\ 1 .. s.tam \subseteq 1 .. SegmentMaxSize
               /\ 1 .. CantBloques(s.tam) \subseteq 1 .. SegmentMaxSize
    <3>1. s.tam \in Tams
      BY <1>3
    <3>2. /\ s.tam \in Nat /\ s.tam <= SegmentMaxSize /\ SegmentMaxSize \in Nat
          /\ CantBloques(s.tam) \in Nat /\ CantBloques(s.tam) <= s.tam
      BY <3>1, CantBloquesAcota, ParametrosOK DEF Tams
    <3>. QED  BY <3>2
  <2>. QED  BY <2>1
<1>5. /\ Piezas(S) \subseteq S \X (1 .. SegmentMaxSize)
      /\ PiezasSwap(S) \subseteq S \X (1 .. SegmentMaxSize)
  BY <1>4 DEF Piezas, PiezasSwap
<1>. QED  BY <1>2, <1>5, FS_Subset

LEMMA LibresFinitos ==
  /\ IsFiniteSet(BloquesLibres) /\ BloquesLibres \subseteq Nat
  /\ Cardinality(BloquesLibres) \in Nat
<1>1. IsFiniteSet(Bloques) /\ Bloques \subseteq Nat
  <2>1. SwapCantBloques - 1 \in Int
    BY ParametrosOK
  <2>. QED  BY <2>1, FS_Interval DEF Bloques
<1>2. BloquesLibres \subseteq Bloques
  BY DEF BloquesLibres
<1>. QED  BY <1>1, <1>2, FS_Subset, FS_CardinalityType

\* The first free blocks, as many as a segment needs, when there are that many
LEMMA ReservablesBien ==
  ASSUME NEW n \in Nat, n <= Cardinality(BloquesLibres)
  PROVE  /\ Cardinality(Reservables(n)) = n /\ Reservables(n) \subseteq BloquesLibres
         /\ Cardinality(BloquesLibres \ Reservables(n)) = Cardinality(BloquesLibres) - n
<1>1. Cardinality(Reservables(n)) = n
  BY LibresFinitos, PrimerosCuantos DEF Reservables
<1>2. Reservables(n) \subseteq BloquesLibres
  BY DEF Reservables
<1>3. BloquesLibres \cap Reservables(n) = Reservables(n)
  BY <1>2
<1>4. Cardinality(BloquesLibres \ Reservables(n)) =
        Cardinality(BloquesLibres) - Cardinality(BloquesLibres \cap Reservables(n))
  BY LibresFinitos, FS_Difference
<1>. QED  BY <1>1, <1>2, <1>3, <1>4

\* A step that takes nothing to SWAP nor from it, and begins no suspension
LEMMA BloquesQuietos ==
  ASSUME InvBloques, UNCHANGED <<segmentos_swap, bloques_usados>>,
         UNCHANGED pedido \/ pedido'.paso # "suspende"
  PROVE  InvBloques'
<1>1. BloquesConDueno'
  BY DEF InvBloques, BloquesConDueno
<1>. QED  BY <1>1 DEF InvBloques, BloquesLibres

\* A step that takes segments out of SWAP and frees their blocks
LEMMA BloquesMenos ==
  ASSUME InvBloques, NEW T \in SUBSET segmentos_swap, segmentos_swap' = segmentos_swap \ T,
         bloques_usados' = bloques_usados \ UNION {sw.bloques : sw \in T},
         pedido'.paso # "suspende"
  PROVE  InvBloques'
<1>1. bloques_usados' = UNION {sw.bloques : sw \in segmentos_swap'}
  <2>1. \A a \in T, b \in segmentos_swap \ T : a.bloques \cap b.bloques = {}
    BY DEF InvBloques, BloquesConDueno
  <2>2. bloques_usados = UNION {sw.bloques : sw \in segmentos_swap}
    BY DEF InvBloques, BloquesConDueno
  <2>3. \A b \in bloques_usados' : \E sw \in segmentos_swap' : b \in sw.bloques
    BY <2>2
  <2>4. \A sw \in segmentos_swap' : \A b \in sw.bloques : b \in bloques_usados'
    BY <2>1, <2>2
  <2>5. bloques_usados' \subseteq bloques_usados
    OBVIOUS
  <2>. QED  BY <2>3, <2>4, <2>5
<1>. QED  BY <1>1 DEF InvBloques, BloquesConDueno

LEMMA PasoBloques == InvMemoria /\ Finitos /\ InvLugar /\ InvBloques /\ [Next]_vars => InvBloques'
<1>. SUFFICES ASSUME InvMemoria, Finitos, InvLugar, InvBloques, [Next]_vars PROVE InvBloques'
  OBVIOUS
<1>0. SinPedido.paso = "libre"
  BY DEF SinPedido
<1>1. ASSUME NEW p \in Pids, FinalizarProceso(p) PROVE InvBloques'
  <2>1. De(segmentos_swap, p) \in SUBSET segmentos_swap
    BY DEF De
  <2>. QED  BY <1>1, <2>1, BloquesMenos DEF FinalizarProceso
<1>2. CASE RestaurarSegmento
  <2>1. PICK sw \in pedido.resto :
          /\ sw \in segmentos_swap /\ segmentos_swap' = segmentos_swap \ {sw}
          /\ bloques_usados' = bloques_usados \ sw.bloques
          /\ pedido' = Sigue(pedido.resto \ {sw})
    BY <1>2, EfectoRestaurar
  <2>2. pedido'.paso # "suspende"
    BY <1>2, <2>1, <1>0, SigueEs DEF InvMemoria, RestaurarSegmento
  <2>3. UNION {x.bloques : x \in {sw}} = sw.bloques
    OBVIOUS
  <2>. QED  BY <2>1, <2>2, <2>3, BloquesMenos, ZenonT(60)
<1>3. ASSUME NEW p \in Pids, SuspenderProceso(p) PROVE InvBloques'
  <2>1. UNCHANGED <<segmentos_swap, bloques_usados>>
    BY <1>3 DEF SuspenderProceso, swap
  <2>2. CASE UNCHANGED pedido
    BY <2>1, <2>2, BloquesQuietos
  <2>3. CASE /\ pedido' = [SinPedido EXCEPT !.paso = "suspende", !.pid = p,
                                            !.resto = De(segmentos, p)]
             /\ Cardinality(PiezasSwap(De(segmentos, p))) <= Cardinality(BloquesLibres)
    <3>1. pedido'.resto = De(segmentos, p)
      BY <2>3 DEF SinPedido
    <3>2. BloquesLibres' = BloquesLibres
      BY <2>1 DEF BloquesLibres
    <3>3. BloquesConDueno'
      BY <2>1 DEF InvBloques, BloquesConDueno
    <3>4. PiezasSwap(pedido'.resto) = PiezasSwap(De(segmentos, p))
      BY <3>1
    <3>. QED  BY <2>3, <3>2, <3>3, <3>4 DEF InvBloques, PiezasSwap
  <2>. QED  BY <1>3, <2>2, <2>3 DEF SuspenderProceso
<1>4. CASE SuspenderSegmento
  <2>1. PICK s \in pedido.resto, w \in SwapT :
          /\ s \in segmentos /\ w.tam = s.tam /\ s \in SegmentosT
          /\ w.bloques = Reservables(CantBloques(s.tam))
          /\ bloques_usados' = bloques_usados \cup w.bloques
          /\ segmentos_swap' = segmentos_swap \cup {w}
          /\ pedido' = Sigue(pedido.resto \ {s})
    BY <1>4, EfectoSuspender
  <2>. DEFINE n == CantBloques(s.tam)
              R == pedido.resto \ {s}
  <2>2. n \in Nat \ {0}
    BY <2>1, CantBloquesAcota DEF SegmentosT
  <2>3. pedido.paso = "suspende" /\ pedido.resto \subseteq segmentos
    BY <1>4 DEF SuspenderSegmento, InvLugar, De
  <2>4. R \subseteq segmentos /\ R \in SUBSET SegmentosT /\ IsFiniteSet(R)
    BY <2>3, FS_Subset DEF InvMemoria, InvTipos, Finitos
  <2>5. s \notin R /\ pedido.resto = R \cup {s}
    OBVIOUS
  <2>. HIDE DEF n, R
  <2>6. /\ Cardinality(PiezasSwap(pedido.resto)) = Cardinality(PiezasSwap(R)) + n
        /\ Cardinality(PiezasSwap(R)) \in Nat
    BY <2>2, <2>4, <2>5, PiezasFinitas, PiezasSwapMas DEF n
  <2>7. Cardinality(PiezasSwap(pedido.resto)) <= Cardinality(BloquesLibres)
    BY <2>3 DEF InvBloques
  <2>8. IsFiniteSet(BloquesLibres) /\ Cardinality(BloquesLibres) \in Nat
    BY LibresFinitos
  <2>9. n <= Cardinality(BloquesLibres)
    BY <2>2, <2>6, <2>7, <2>8
  <2>10. /\ Cardinality(w.bloques) = n /\ w.bloques \subseteq BloquesLibres
         /\ Cardinality(BloquesLibres \ w.bloques) = Cardinality(BloquesLibres) - n
    BY <2>1, <2>2, <2>9, ReservablesBien DEF n
  <2>11. BloquesLibres' = BloquesLibres \ w.bloques
    BY <2>1 DEF BloquesLibres
  <2>12. BloquesConDueno'
    <3>1. /\ bloques_usados = UNION {sw.bloques : sw \in segmentos_swap}
          /\ \A a, b \in segmentos_swap : a # b => a.bloques \cap b.bloques = {}
          /\ \A sw \in segmentos_swap : Cardinality(sw.bloques) = CantBloques(sw.tam)
      BY DEF InvBloques, BloquesConDueno
    <3>2. bloques_usados' = UNION {sw.bloques : sw \in segmentos_swap'}
      BY <2>1, <3>1
    <3>3. \A a \in segmentos_swap : a.bloques \cap w.bloques = {}
      BY <3>1, <2>10 DEF BloquesLibres
    <3>4. \A a, b \in segmentos_swap' : a # b => a.bloques \cap b.bloques = {}
      BY <2>1, <3>1, <3>3
    <3>5. Cardinality(w.bloques) = CantBloques(w.tam)
      BY <2>1, <2>10 DEF n
    <3>. QED  BY <2>1, <3>1, <3>2, <3>4, <3>5 DEF BloquesConDueno, CantBloques
  <2>13. CASE R = {}
    BY <2>1, <2>12, <2>13, <1>0, SigueEs DEF InvBloques, InvMemoria, R
  <2>14. CASE R # {}
    <3>1. pedido'.resto = R
      BY <2>1, <2>14, SigueEs DEF InvMemoria, R
    <3>2. Cardinality(PiezasSwap(R)) <= Cardinality(BloquesLibres')
      BY <2>2, <2>6, <2>7, <2>8, <2>10, <2>11
    <3>3. PiezasSwap(pedido.resto)' = PiezasSwap(R)
      BY <3>1 DEF PiezasSwap, CantBloques
    <3>. QED  BY <2>12, <3>2, <3>3 DEF InvBloques
  <2>. QED  BY <2>13, <2>14
<1>5. CASE /\ UNCHANGED <<segmentos_swap, bloques_usados>>
           /\ UNCHANGED pedido \/ pedido'.paso # "suspende"
  BY <1>5, BloquesQuietos
<1>6. ASSUME NEW p \in Pids, NEW i, NEW t, PedirCompactacion(p, i, t) PROVE InvBloques'
  BY <1>6, <1>5 DEF PedirCompactacion, SinPedido, swap
<1>7. ASSUME NEW p \in Pids, DessuspenderProceso(p) PROVE InvBloques'
  BY <1>7, <1>5 DEF DessuspenderProceso, SinPedido, swap
<1>8. CASE Compactar
  BY <1>8, <1>5, <1>0 DEF Compactar, RecibirDesalojo, MoverSegmento, FinDeCompactacion,
     ReintentarCrear, swap, InvMemoria, InvTipos, PedidosT
<1>9. CASE ReservarSegmento
  <2>1. UNCHANGED <<segmentos_swap, bloques_usados>> /\ pedido'.paso # "suspende"
    BY <1>9, <1>0, EfectoReservar DEF ReservarSegmento, swap
  <2>. QED  BY <1>5, <2>1, SMTT(40)
<1>10. ASSUME NEW p \in Pids, \/ AgregarProceso(p) \/ \E i \in Ids : EliminarSegmento(p, i)
                              \/ \E i \in IdsDe[p], t \in Tams : CrearSegmento(p, i, t)
                              \/ PedirContexto(p) \/ Devolver(p) \/ Escribir(p) \/ Caer(p)
       PROVE  InvBloques'
  BY <1>5, <1>10, EfectoEscribir, EfectoCaer
  DEF AgregarProceso, EliminarSegmento, CrearSegmento, PedirContexto, Devolver, swap
<1>11. CASE UNCHANGED vars \/ \E t \in TamSticks : RegistrarStick(t)
  BY <1>5, <1>11 DEF vars, RegistrarStick, swap
<1>. QED  BY <1>1, <1>2, <1>3, <1>4, <1>6, <1>7, <1>8, <1>9, <1>10, <1>11
          DEF Next, SeguirCaido

-----------------------------------------------------------------------------
(* Compaction leaves room for what it was asked for *)

\* A step adds at most one segment.
LEMMA UnoMasFinito ==
  ASSUME Finitos, NEW s, segmentos' \subseteq segmentos \cup {s}
  PROVE  Finitos'
<1>1. IsFiniteSet(segmentos \cup {s})
  BY FS_AddElement DEF Finitos
<1>. QED  BY <1>1, FS_Subset DEF Finitos

LEMMA PasoFinitos == InvMemoria /\ Finitos /\ [Next]_vars => Finitos'
<1>. SUFFICES ASSUME InvMemoria, Finitos, [Next]_vars PROVE Finitos'
  OBVIOUS
<1>1. ASSUME segmentos' \subseteq segmentos PROVE Finitos'
  BY <1>1, FS_Subset DEF Finitos
<1>2. ASSUME NEW p \in Pids, NEW i \in IdsDe[p], NEW t \in Tams, CrearSegmento(p, i, t)
      PROVE  Finitos'
  <2>1. i \in Ids
    BY DEF Ids
  <2>. QED  BY <1>2, <2>1, EfectoAlta, UnoMasFinito DEF CrearSegmento
<1>3. CASE ReintentarCrear
  <2>1. pedido.pid \in Pids /\ pedido.id \in Ids /\ pedido.tam \in Tams
    BY <1>3 DEF ReintentarCrear, InvMemoria, PedidoConDatos
  <2>. QED  BY <1>1, <1>3, <2>1, EfectoAlta, UnoMasFinito DEF ReintentarCrear
<1>4. CASE MoverSegmento
  <2>1. PICK s \in pedido.resto, n \in SegmentosT : segmentos' = (segmentos \ {s}) \cup {n}
    BY <1>4, EfectoMover
  <2>. QED  BY <2>1, UnoMasFinito
<1>5. CASE ReservarSegmento
  BY <1>1, <1>5, EfectoReservar, UnoMasFinito
<1>6. CASE segmentos' \subseteq segmentos
  BY <1>1, <1>6
<1>7. CASE UNCHANGED vars \/ (\E t \in TamSticks : RegistrarStick(t)) \/ SuspenderSegmento
           \/ RestaurarSegmento \/ RecibirDesalojo \/ FinDeCompactacion
  BY <1>6, <1>7 DEF vars, mem, RegistrarStick, SuspenderSegmento, RestaurarSegmento,
     RecibirDesalojo, FinDeCompactacion
<1>8. ASSUME NEW p \in Pids,
             \/ AgregarProceso(p) \/ FinalizarProceso(p)
             \/ \E i \in Ids : EliminarSegmento(p, i)
             \/ \E i \in IdsDe[p], t \in Tams : PedirCompactacion(p, i, t)
             \/ SuspenderProceso(p) \/ DessuspenderProceso(p)
             \/ PedirContexto(p) \/ Devolver(p)
      PROVE  Finitos'
  BY <1>6, <1>8, ZenonT(60) DEF AgregarProceso, FinalizarProceso, EliminarSegmento, PedirCompactacion,
     SuspenderProceso, DessuspenderProceso, PedirContexto, Devolver, mem
<1>9. ASSUME NEW p \in Pids, Escribir(p) \/ Caer(p) PROVE Finitos'
  BY <1>6, <1>9, EfectoEscribir, EfectoCaer
<1>. QED  BY <1>2, <1>3, <1>4, <1>5, <1>7, <1>8, <1>9 DEF Next, Compactar, SeguirCaido

\* A compaction ends with the segments one after the other from 0 on, so the hole
\* above them is all the space there is.
LEMMA HuecoFinal ==
  ASSUME InvTipos, Finitos, SinSolape, NEW t \in Tams, t <= EspacioLibre,
         \A s \in segmentos : Fin(s) <= Cardinality(Piezas(segmentos))
  PROVE  Huecos(t) # {}
<1>. DEFINE c == Cardinality(Piezas(segmentos))
            S == {0} \cup {Fin(s) : s \in segmentos}
<1>1. c \in Nat
  BY PiezasFinitas, FS_CardinalityType DEF InvTipos, Finitos
<1>2. t \in Nat /\ t > 0 /\ memoria_total \in Nat /\ c + t <= memoria_total
  <2>1. t \in Nat /\ t > 0 /\ memoria_total \in Nat
    BY ParametrosOK DEF Tams, InvTipos
  <2>2. t <= memoria_total - c
    BY DEF EspacioLibre
  <2>. HIDE DEF c
  <2>. QED  BY <1>1, <2>1, <2>2
<1>3. \A s \in segmentos : /\ s.base \in Nat /\ s.tam \in Nat /\ s.tam > 0
                           /\ Fin(s) = s.base + s.tam /\ Fin(s) <= c
  BY ParametrosOK DEF InvTipos, SegmentosT, Tams, Fin
<1>. HIDE DEF c
<1>4. PICK h \in S : \A x \in S : h >= x
  <2>1. S \subseteq Nat /\ S # {} /\ \A x \in S : x <= c
    BY <1>1, <1>3
  <2>. HIDE DEF S
  <2>. QED  BY <1>1, <2>1, MaxEsElemento
<1>5. h \in Nat /\ h <= c
  BY <1>1, <1>3
<1>6. \A s \in segmentos : s.base < h
  BY <1>3, <1>4, <1>5
<1>7. {s.base : s \in {r \in segmentos : r.base >= h}} = {}
  BY <1>3, <1>5, <1>6
<1>8. FinHueco(h) = memoria_total
  <2>1. FinHueco(h) = Min({memoria_total})
    BY <1>7 DEF FinHueco
  <2>2. Min({memoria_total}) \in {memoria_total}
    BY <1>2, MinEsElemento
  <2>. QED  BY <2>1, <2>2
<1>9. FinHueco(h) > h /\ FinHueco(h) - h >= t
  BY <1>1, <1>2, <1>5, <1>8
<1>. QED  BY <1>9 DEF Huecos

Compactando == {"desalojo", "mueve", "reintenta"}

\* A step that leaves the segments and the request as they are
LEMMA CompactaQuieta ==
  ASSUME InvTipos, Finitos, InvCompacta, UNCHANGED <<segmentos, pedido>>,
         memoria_total' \in Nat, memoria_total <= memoria_total'
  PROVE  InvCompacta'
<1>1. PICK c \in Nat : c = Cardinality(Piezas(segmentos))
  BY PiezasFinitas, FS_CardinalityType DEF InvTipos, Finitos
<1>2. EspacioLibre = memoria_total - c /\ EspacioLibre' = memoria_total' - c
  BY <1>1 DEF EspacioLibre, Piezas
<1>3. EspacioLibre <= EspacioLibre' /\ EspacioLibre \in Int /\ EspacioLibre' \in Int
  <2>1. memoria_total \in Nat
    BY DEF InvTipos
  <2>. QED  BY <1>1, <1>2, <2>1
<1>4. pedido.paso \in Compactando => pedido.tam <= EspacioLibre'
  <2>1. pedido.paso \in Compactando => pedido.tam <= EspacioLibre
    BY DEF InvCompacta, Compactando
  <2>2. pedido.tam \in Nat
    BY ParametrosOK DEF InvTipos, PedidosT, Tams
  <2>. QED  BY <1>3, <2>1, <2>2
<1>. QED  BY <1>4 DEF InvCompacta, Compactando, Piezas, Fin

\* A segment that moves keeps its size, and what has moved has grown by it.
LEMMA CompactaMueve ==
  ASSUME InvMemoria, Finitos, InvCompacta, MoverSegmento
  PROVE  InvCompacta'
<1>1. PICK s \in pedido.resto, n \in SegmentosT :
        /\ s \in segmentos /\ n \notin segmentos \ {s} /\ n.tam = s.tam
        /\ segmentos' = (segmentos \ {s}) \cup {n}
        /\ pedido' = [pedido EXCEPT !.resto = @ \ {s}, !.prox = @ + s.tam]
  BY EfectoMover
<1>2. /\ pedido.paso = "mueve" /\ memoria_total' = memoria_total
      /\ pedido.resto \subseteq segmentos /\ segmentos \subseteq SegmentosT
      /\ IsFiniteSet(segmentos)
  BY DEF MoverSegmento, InvMemoria, InvTipos, EnMovimiento, Finitos
<1>3. /\ pedido'.paso = "mueve" /\ pedido'.resto = pedido.resto \ {s}
      /\ pedido'.prox = pedido.prox + s.tam /\ pedido'.tam = pedido.tam
  BY <1>1, <1>2 DEF InvMemoria, InvTipos, PedidosT
<1>4. s.tam \in Nat /\ n.tam \in Nat
  BY <1>1, <1>2, ParametrosOK DEF SegmentosT, Tams
<1>5. ASSUME NEW S \in SUBSET segmentos PROVE IsFiniteSet(Piezas(S))
  <2>1. S \in SUBSET SegmentosT /\ IsFiniteSet(S)
    BY <1>2, FS_Subset
  <2>. QED  BY <2>1, PiezasFinitas
<1>6. Cardinality(Piezas(segmentos')) = Cardinality(Piezas(segmentos))
  <2>. DEFINE R == segmentos \ {s}
  <2>1. IsFiniteSet(Piezas(R)) /\ s \notin R /\ n \notin R
    BY <1>1, <1>5
  <2>2. segmentos = R \cup {s} /\ segmentos' = R \cup {n}
    BY <1>1
  <2>. HIDE DEF R
  <2>3. /\ Cardinality(Piezas(R \cup {s})) = Cardinality(Piezas(R)) + s.tam
        /\ Cardinality(Piezas(R \cup {n})) = Cardinality(Piezas(R)) + n.tam
    BY <1>4, <2>1, PiezasMas
  <2>. QED  BY <1>1, <2>2, <2>3
<1>7. pedido'.prox = Cardinality(Piezas(segmentos' \ pedido'.resto))
  <2>. DEFINE H == segmentos \ pedido.resto
  <2>1. IsFiniteSet(Piezas(H)) /\ n \notin H
    BY <1>1, <1>5
  <2>2. segmentos' \ pedido'.resto = H \cup {n}
    BY <1>1, <1>2, <1>3
  <2>3. pedido.prox = Cardinality(Piezas(H))
    BY <1>2 DEF InvCompacta
  <2>. HIDE DEF H
  <2>4. Cardinality(Piezas(H \cup {n})) = Cardinality(Piezas(H)) + n.tam
    BY <1>4, <2>1, PiezasMas
  <2>. QED  BY <1>1, <1>3, <2>2, <2>3, <2>4
<1>8. EspacioLibre' = EspacioLibre
  BY <1>2, <1>6 DEF EspacioLibre, Piezas
<1>9. Piezas(segmentos \ pedido.resto)' = Piezas(segmentos' \ pedido'.resto)
  BY DEF Piezas
<1>. QED  BY <1>2, <1>3, <1>7, <1>8, <1>9 DEF InvCompacta

LEMMA PasoCompacta == InvMemoria /\ Finitos /\ InvCompacta /\ [Next]_vars => InvCompacta'
<1>. SUFFICES ASSUME InvMemoria, Finitos, InvCompacta, [Next]_vars PROVE InvCompacta'
  OBVIOUS
<1>0. SinPedido.paso = "libre"
  BY DEF SinPedido
<1>1. CASE pedido'.paso \notin Compactando
  BY <1>1 DEF InvCompacta, Compactando
<1>2. CASE UNCHANGED <<memoria_total, segmentos, pedido>>
  BY <1>2, CompactaQuieta DEF InvMemoria, InvTipos
<1>3. ASSUME NEW t \in TamSticks, RegistrarStick(t) PROVE InvCompacta'
  <2>1. memoria_total' = memoria_total + t /\ t \in Nat /\ memoria_total \in Nat
    BY <1>3, ParametrosOK DEF RegistrarStick, InvMemoria, InvTipos
  <2>2. memoria_total' \in Nat /\ memoria_total <= memoria_total'
    BY <2>1
  <2>. QED  BY <1>3, <2>2, CompactaQuieta DEF RegistrarStick, InvMemoria
<1>4. ASSUME NEW p \in Pids, NEW i, NEW t, PedirCompactacion(p, i, t) PROVE InvCompacta'
  <2>1. /\ pedido'.paso = "desalojo" /\ pedido'.tam = t /\ EspacioLibre >= t
        /\ UNCHANGED <<memoria_total, segmentos>> /\ t \in Nat
    BY <1>4, ParametrosOK DEF PedirCompactacion, SinPedido, mem, Tams
  <2>2. EspacioLibre' = EspacioLibre /\ EspacioLibre \in Int
    <3>1. Cardinality(Piezas(segmentos)) \in Nat
      BY PiezasFinitas, FS_CardinalityType DEF InvMemoria, InvTipos, Finitos
    <3>. QED  BY <2>1, <3>1 DEF EspacioLibre, Piezas, InvMemoria, InvTipos
  <2>3. pedido'.tam <= EspacioLibre'
    BY <2>1, <2>2
  <2>. QED  BY <2>1, <2>3 DEF InvCompacta
<1>5. CASE RecibirDesalojo
  <2>1. /\ pedido.paso = "desalojo" /\ pedido.prox = 0
        /\ pedido'.paso = "mueve" /\ pedido'.tam = pedido.tam /\ pedido'.prox = 0
        /\ pedido'.resto = segmentos
        /\ UNCHANGED <<memoria_total, segmentos>>
    BY <1>5 DEF RecibirDesalojo, mem, InvMemoria, InvTipos, PedidosT, EnMovimiento
  <2>2. Piezas(segmentos \ pedido.resto)' = {}
    BY <2>1 DEF Piezas
  <2>3. Cardinality(Piezas(segmentos \ pedido.resto)') = 0
    BY <2>2, FS_EmptySet
  <2>4. EspacioLibre' = EspacioLibre
    BY <2>1 DEF EspacioLibre, Piezas
  <2>. QED  BY <2>1, <2>3, <2>4 DEF InvCompacta
<1>6. CASE FinDeCompactacion
  <2>1. /\ pedido.paso = "mueve" /\ pedido.resto = {}
        /\ pedido'.paso = "reintenta" /\ pedido'.tam = pedido.tam
        /\ UNCHANGED <<memoria_total, segmentos>>
    BY <1>6 DEF FinDeCompactacion, mem, InvMemoria, InvTipos, PedidosT
  <2>2. EspacioLibre' = EspacioLibre
    BY <2>1 DEF EspacioLibre, Piezas
  <2>3. \A s \in segmentos : Fin(s) <= Cardinality(Piezas(segmentos))
    <3>1. segmentos \ pedido.resto = segmentos
      BY <2>1
    <3>2. pedido.prox = Cardinality(Piezas(segmentos))
      BY <2>1, <3>1 DEF InvCompacta
    <3>. QED  BY <2>1, <3>2 DEF InvMemoria, EnMovimiento
  <2>4. \A s \in segmentos' : Fin(s) <= Cardinality(Piezas(segmentos)')
    BY <2>1, <2>3 DEF Piezas
  <2>. QED  BY <2>1, <2>2, <2>4 DEF InvCompacta, Fin
<1>7. CASE MoverSegmento
  BY <1>7, CompactaMueve
<1>8. CASE ReintentarCrear
  BY <1>0, <1>1, <1>8 DEF ReintentarCrear, Compactando
<1>9. CASE SuspenderSegmento \/ ReservarSegmento \/ RestaurarSegmento
  <2>0. ASSUME NEW R, pedido' = Sigue(R), pedido.paso \in Mudanza PROVE InvCompacta'
    BY <1>0, <1>1, <2>0, SigueEs DEF InvMemoria, Compactando, Mudanza
  <2>1. CASE SuspenderSegmento
    <3>1. PICK s : pedido' = Sigue(pedido.resto \ {s})
      BY <2>1, EfectoSuspender
    <3>. QED  BY <2>0, <2>1, <3>1 DEF SuspenderSegmento, Mudanza
  <2>2. CASE ReservarSegmento
    BY <1>0, <1>1, <2>2, EfectoReservar DEF Compactando
  <2>3. CASE RestaurarSegmento
    <3>1. PICK sw : pedido' = Sigue(pedido.resto \ {sw})
      BY <2>3, EfectoRestaurar
    <3>. QED  BY <2>0, <2>3, <3>1 DEF RestaurarSegmento, Mudanza
  <2>. QED  BY <1>9, <2>1, <2>2, <2>3
<1>10. ASSUME NEW p \in Pids,
              \/ AgregarProceso(p) \/ FinalizarProceso(p)
              \/ \E i \in Ids : EliminarSegmento(p, i)
              \/ \E i \in IdsDe[p], t \in Tams : CrearSegmento(p, i, t)
              \/ SuspenderProceso(p) \/ DessuspenderProceso(p)
              \/ PedirContexto(p) \/ Devolver(p) \/ Escribir(p) \/ Caer(p)
       PROVE  InvCompacta'
  <2>1. CASE FinalizarProceso(p) \/ (\E i \in Ids : EliminarSegmento(p, i))
             \/ (\E i \in IdsDe[p], t \in Tams : CrearSegmento(p, i, t))
    BY <1>1, <2>1 DEF FinalizarProceso, EliminarSegmento, CrearSegmento, Compactando
  <2>2. CASE SuspenderProceso(p) \/ DessuspenderProceso(p)
    BY <1>1, <2>2 DEF SuspenderProceso, DessuspenderProceso, SinPedido, Compactando
  <2>3. CASE AgregarProceso(p) \/ PedirContexto(p) \/ Devolver(p) \/ Escribir(p)
    BY <1>2, <2>3, EfectoEscribir DEF AgregarProceso, PedirContexto, Devolver, mem
  <2>4. CASE Caer(p)
    BY <1>1, <2>4, EfectoCaer DEF Compactando
  <2>. QED  BY <1>10, <2>1, <2>2, <2>3, <2>4
<1>11. CASE UNCHANGED vars
  BY <1>2, <1>11 DEF vars, mem
<1>. QED  BY <1>3, <1>4, <1>5, <1>6, <1>7, <1>8, <1>9, <1>10, <1>11
          DEF Next, Compactar, SeguirCaido

-----------------------------------------------------------------------------
(* What the tables, the sticks and the disk hold *)

InvDatos ==
  /\ memoria_total <= MaxMemoria
  /\ tabla \in [Pids -> SUBSET EntradasT] /\ cache \in [Pids -> SUBSET EntradasT]
  /\ ram \in [Dirs -> Valores]
  /\ disco \in [Bloques -> [0 .. SwapBlockSize - 1 -> Valores]]

\* What is written in memory is bytes.
LEMMA EscritosTipo ==
  ASSUME InvDatos, NEW d, NEW c, \A k \in DOMAIN c : c[k] \in Valores
  PROVE  Escritos(d, c) \in [Dirs -> Valores]
<1>1. \A e \in Dirs : (IF e - d \in DOMAIN c THEN c[e - d] ELSE ram[e]) \in Valores
  BY DEF InvDatos
<1>. QED  BY <1>1 DEF Escritos

\* The bytes of a segment in memory are inside the sticks.
LEMMA BytesTipo ==
  ASSUME InvTipos, SinSolape, InvDatos, NEW s \in segmentos
  PROVE  \A k \in DOMAIN Bytes(s) : Bytes(s)[k] \in Valores
<1>1. /\ s.base \in Nat /\ s.tam \in Nat /\ s.base + s.tam <= memoria_total
      /\ memoria_total \in Nat /\ MaxMemoria \in Nat /\ memoria_total <= MaxMemoria
  BY ParametrosOK DEF InvTipos, SegmentosT, Tams, SinSolape, Fin, InvDatos
<1>2. \A k \in 0 .. s.tam - 1 : s.base + k \in Dirs
  BY <1>1 DEF Dirs
<1>3. \A k \in 0 .. s.tam - 1 : ram[s.base + k] \in Valores
  BY <1>2 DEF InvDatos
<1>. QED  BY <1>3 DEF Bytes

\* Every byte of a segment in SWAP is in one of its blocks.
LEMMA BytesSwapTipo ==
  ASSUME InvTipos, InvBloques, InvDatos, NEW sw \in segmentos_swap
  PROVE  \A k \in DOMAIN BytesSwap(sw) : BytesSwap(sw)[k] \in Valores
<1>1. sw.tam \in Tams /\ sw.bloques \subseteq Bloques
  BY DEF InvTipos, SwapT
<1>2. Cardinality(sw.bloques) = CantBloques(sw.tam)
  BY DEF InvBloques, BloquesConDueno
<1>3. IsFiniteSet(sw.bloques) /\ sw.bloques \subseteq Nat
  <2>1. SwapCantBloques - 1 \in Int
    BY ParametrosOK
  <2>2. IsFiniteSet(Bloques) /\ Bloques \subseteq Nat
    BY <2>1, FS_Interval DEF Bloques
  <2>. QED  BY <1>1, <2>2, FS_Subset
<1>4. ASSUME NEW k \in 0 .. sw.tam - 1
      PROVE  disco[BloqueDe(sw, k)][k % SwapBlockSize] \in Valores
  <2>1. /\ k \div SwapBlockSize \in 0 .. CantBloques(sw.tam) - 1
        /\ k % SwapBlockSize \in 0 .. SwapBlockSize - 1
    BY <1>1, CantBloquesAcota
  <2>2. \E b \in sw.bloques : Orden(b, sw.bloques) = k \div SwapBlockSize
    BY <1>2, <1>3, <2>1, OrdenBiyeccion
  <2>3. BloqueDe(sw, k) \in sw.bloques
    BY <2>2 DEF BloqueDe
  <2>. QED  BY <1>1, <2>1, <2>3 DEF InvDatos
<1>. QED  BY <1>4 DEF BytesSwap

\* What is copied to the disk is bytes too.
LEMMA CopiadosTipo ==
  ASSUME InvDatos, NEW B, NEW c, \A k \in DOMAIN c : c[k] \in Valores
  PROVE  Copiados(B, c) \in [Bloques -> [0 .. SwapBlockSize - 1 -> Valores]]
<1>1. 0 \in Valores
  BY ParametrosOK DEF Valores
<1>2. ASSUME NEW b \in Bloques, NEW o \in 0 .. SwapBlockSize - 1
      PROVE  (LET k == Orden(b, B) * SwapBlockSize + o
              IN IF k \in DOMAIN c THEN c[k] ELSE 0) \in Valores
  BY <1>1
<1>3. \A b \in Bloques : disco[b] \in [0 .. SwapBlockSize - 1 -> Valores]
  BY DEF InvDatos
<1>. QED  BY <1>2, <1>3 DEF Copiados

LEMMA EntradaTipo ==
  ASSUME NEW s \in SegmentosT
  PROVE  Entrada(s) \in EntradasT
BY DEF Entrada, SegmentosT, EntradasT

\* Nothing is written, and memory does not grow
LEMMA DatosQuietos ==
  ASSUME InvDatos, UNCHANGED <<memoria_total, ram, disco>>,
         tabla' \in [Pids -> SUBSET EntradasT], cache' \in [Pids -> SUBSET EntradasT]
  PROVE  InvDatos'
BY DEF InvDatos, Valores, Dirs, Bloques

LEMMA PasoDatos == InvMemoria /\ InvBloques /\ InvDatos /\ [Next]_vars => InvDatos'
<1>. SUFFICES ASSUME InvMemoria, InvBloques, InvDatos, [Next]_vars PROVE InvDatos'
  OBVIOUS
<1>t. /\ tabla \in [Pids -> SUBSET EntradasT] /\ cache \in [Pids -> SUBSET EntradasT]
      /\ ram \in [Dirs -> Valores]
      /\ disco \in [Bloques -> [0 .. SwapBlockSize - 1 -> Valores]]
      /\ memoria_total <= MaxMemoria
  BY DEF InvDatos
<1>0. ASSUME UNCHANGED <<memoria_total, tabla, cache, ram, disco>> PROVE InvDatos'
  BY <1>0, <1>t, DatosQuietos
<1>1. ASSUME NEW p \in Pids, NEW i \in Ids, NEW t \in Tams, Alta(p, i, t),
             UNCHANGED <<memoria_total, cache, ram, disco>>
      PROVE  InvDatos'
  <2>1. PICK s \in SegmentosT : tabla' = [tabla EXCEPT ![p] = @ \cup {Entrada(s)}]
    BY <1>1, EfectoAlta
  <2>2. Entrada(s) \in EntradasT
    BY EntradaTipo
  <2>3. tabla' \in [Pids -> SUBSET EntradasT]
    BY <1>t, <2>1, <2>2
  <2>. QED  BY <1>1, <1>t, <2>3, DatosQuietos
<1>2. ASSUME NEW p \in Pids, NEW T \in SUBSET tabla[p], tabla' = [tabla EXCEPT ![p] = T],
             UNCHANGED <<memoria_total, cache, ram, disco>>
      PROVE  InvDatos'
  <2>1. tabla' \in [Pids -> SUBSET EntradasT]
    BY <1>t, <1>2
  <2>. QED  BY <1>2, <1>t, <2>1, DatosQuietos
<1>3. ASSUME NEW t \in TamSticks, RegistrarStick(t) PROVE InvDatos'
  BY <1>3, <1>t DEF RegistrarStick, InvDatos, swap, cpus, Valores, Dirs, Bloques
<1>4. ASSUME NEW p \in Pids, AgregarProceso(p) \/ SuspenderProceso(p) \/ DessuspenderProceso(p)
      PROVE  InvDatos'
  BY <1>0, <1>4 DEF AgregarProceso, SuspenderProceso, DessuspenderProceso, mem, swap, cpus
<1>5. ASSUME NEW p \in Pids, FinalizarProceso(p) PROVE InvDatos'
  <2>1. {} \in SUBSET tabla[p] /\ tabla' = [tabla EXCEPT ![p] = {}]
    BY <1>5 DEF FinalizarProceso
  <2>. QED  BY <1>2, <1>5, <2>1 DEF FinalizarProceso, cpus
<1>6. ASSUME NEW p \in Pids, NEW i \in Ids, EliminarSegmento(p, i) PROVE InvDatos'
  <2>1. tabla[p] \ Primero(tabla[p], i) \in SUBSET tabla[p]
    OBVIOUS
  <2>2. tabla' = [tabla EXCEPT ![p] = tabla[p] \ Primero(tabla[p], i)]
    BY <1>6 DEF EliminarSegmento
  <2>. QED  BY <1>2, <1>6, <2>1, <2>2 DEF EliminarSegmento, swap, cpus
<1>7. ASSUME NEW p \in Pids, NEW i \in IdsDe[p], NEW t \in Tams,
             CrearSegmento(p, i, t) \/ PedirCompactacion(p, i, t)
      PROVE  InvDatos'
  <2>1. i \in Ids
    BY DEF Ids
  <2>. QED  BY <1>0, <1>1, <1>7, <2>1 DEF CrearSegmento, PedirCompactacion, mem, swap, cpus
<1>8. ASSUME NEW p \in Pids, PedirContexto(p) \/ Devolver(p) PROVE InvDatos'
  <2>1. cache' \in [Pids -> SUBSET EntradasT]
    BY <1>8, <1>t DEF PedirContexto, Devolver
  <2>2. UNCHANGED <<memoria_total, tabla, ram, disco>>
    BY <1>8 DEF PedirContexto, Devolver, mem, swap
  <2>. QED  BY <2>1, <2>2, <1>t, DatosQuietos
<1>9. ASSUME NEW d, NEW c, \A k \in DOMAIN c : c[k] \in Valores, ram' = Escritos(d, c),
             UNCHANGED <<memoria_total, cache, disco>>, tabla' \in [Pids -> SUBSET EntradasT]
      PROVE  InvDatos'
  <2>1. ram' \in [Dirs -> Valores]
    BY <1>9, EscritosTipo
  <2>. QED  BY <1>9, <1>t, <2>1 DEF InvDatos, Valores, Dirs, Bloques
<1>v. ASSUME NEW d, NEW n, NEW v \in Valores, ram' = Escritos(d, Repite(n, v)), UNCHANGED disco,
             UNCHANGED <<memoria_total, cache, tabla>>
      PROVE  InvDatos'
  <2>1. \A k \in DOMAIN Repite(n, v) : Repite(n, v)[k] \in Valores
    BY DEF Repite
  <2>. QED  BY <1>9, <1>t, <1>v, <2>1
<1>w. ASSUME NEW sw, NEW K, NEW v \in Valores, disco' = EnBloques(sw, K, v),
             UNCHANGED <<memoria_total, cache, tabla, ram>>
      PROVE  InvDatos'
  <2>. DEFINE Toca(b, o) == \E k \in K : BloqueDe(sw, k) = b /\ k % SwapBlockSize = o
  <2>1. disco' = [b \in Bloques |-> [o \in 0 .. SwapBlockSize - 1 |->
                   IF Toca(b, o) THEN v ELSE disco[b][o]]]
    BY <1>w DEF EnBloques
  <2>. HIDE DEF Toca
  <2>2. disco' \in [Bloques -> [0 .. SwapBlockSize - 1 -> Valores]]
    BY <1>t, <2>1
  <2>. QED  BY <1>t, <1>w, <2>2 DEF InvDatos, Valores, Dirs, Bloques
<1>10. ASSUME NEW p \in Pids, Escribir(p) PROVE InvDatos'
  <2>1. UNCHANGED <<memoria_total, cache, tabla>>
    BY <1>10, EfectoEscribir
  <2>2. ASSUME NEW i, NEW d, NEW n, NEW v \in Valores, EscribirCpu(p, i, d, n, v) PROVE InvDatos'
    <3>1. \E e : ram' = Escritos(e, Repite(n, v))
      BY <2>2 DEF EscribirCpu
    <3>2. UNCHANGED disco
      BY <2>2 DEF EscribirCpu, swap
    <3>. QED  BY <1>v, <2>1, <3>1, <3>2
  <2>3. ASSUME NEW i, NEW d, NEW n, NEW v \in Valores, EscribirIO(p, i, d, n, v) PROVE InvDatos'
    <3>1. \/ UNCHANGED disco /\ \E b : EscribirFisico(b, n, v)
          \/ UNCHANGED ram /\ \E sw, K : disco' = EnBloques(sw, K, v)
      BY <2>3, Zenon DEF EscribirIO
    <3>2. ASSUME NEW b, EscribirFisico(b, n, v), UNCHANGED disco PROVE InvDatos'
      <4>1. \E m : ram' = Escritos(b, Repite(m, v))
        BY <3>2 DEF EscribirFisico
      <4>. QED  BY <1>v, <2>1, <3>2, <4>1
    <3>. QED  BY <1>w, <2>1, <3>1, <3>2
  <2>. QED  BY <1>10, <2>2, <2>3 DEF Escribir
<1>16. ASSUME NEW p \in Pids, Caer(p) PROVE InvDatos'
  <2>1. UNCHANGED <<memoria_total, cache, tabla, ram>>
    BY <1>16, EfectoCaer
  <2>2. UNCHANGED disco \/ \E sw, K : \E v \in Valores : disco' = EnBloques(sw, K, v)
    BY <1>16, ZenonT(60) DEF Caer, CaerEnSwap
  <2>3. CASE UNCHANGED disco
    BY <1>t, <2>1, <2>3, DatosQuietos
  <2>. QED  BY <1>w, <2>1, <2>2, <2>3
<1>11. CASE RecibirDesalojo \/ FinDeCompactacion \/ ReservarSegmento \/ UNCHANGED vars
  BY <1>0, <1>11 DEF RecibirDesalojo, FinDeCompactacion, ReservarSegmento, vars, mem, swap, cpus
<1>12. CASE MoverSegmento
  <2>1. PICK s \in pedido.resto :
          /\ s \in segmentos
          /\ \/ UNCHANGED <<tabla, ram>>
             \/ /\ tabla' = [tabla EXCEPT ![s.pid] = ConBase(@, s.id, pedido.prox)]
                /\ ram' = Escritos(pedido.prox, Bytes(s))
    BY <1>12, EfectoMover
  <2>2. UNCHANGED <<memoria_total, cache, disco>>
    BY <1>12 DEF MoverSegmento, swap, cpus
  <2>3. CASE UNCHANGED <<tabla, ram>>
    BY <1>0, <2>2, <2>3
  <2>4. CASE /\ tabla' = [tabla EXCEPT ![s.pid] = ConBase(@, s.id, pedido.prox)]
             /\ ram' = Escritos(pedido.prox, Bytes(s))
    <3>1. s.pid \in Pids /\ pedido.prox \in Nat
      BY <2>1 DEF InvMemoria, InvTipos, SegmentosT, PedidosT
    <3>2. ConBase(tabla[s.pid], s.id, pedido.prox) \subseteq EntradasT
      <4>1. \A e \in tabla[s.pid] : e \in EntradasT
        BY <1>t, <3>1
      <4>. QED  BY <3>1, <4>1 DEF ConBase, EntradasT
    <3>3. tabla' \in [Pids -> SUBSET EntradasT]
      BY <1>t, <2>4, <3>1, <3>2
    <3>4. \A k \in DOMAIN Bytes(s) : Bytes(s)[k] \in Valores
      BY <2>1, BytesTipo DEF InvMemoria
    <3>. QED  BY <1>9, <2>2, <2>4, <3>3, <3>4
  <2>. QED  BY <2>1, <2>3, <2>4
<1>13. CASE ReintentarCrear
  <2>1. /\ pedido.pid \in Pids /\ pedido.id \in Ids /\ pedido.tam \in Tams
        /\ UNCHANGED <<memoria_total, cache, ram, disco>>
    BY <1>13 DEF ReintentarCrear, InvMemoria, PedidoConDatos, swap, cpus
  <2>. QED  BY <1>0, <1>1, <1>13, <2>1 DEF ReintentarCrear
<1>14. CASE SuspenderSegmento
  <2>1. PICK s \in pedido.resto, w \in SwapT :
          /\ s \in segmentos /\ s \in SegmentosT
          /\ disco' = Copiados(w.bloques, Bytes(s))
          /\ tabla' = [tabla EXCEPT ![s.pid] = @ \ Primero(@, s.id)]
    BY <1>14, EfectoSuspender
  <2>2. UNCHANGED <<memoria_total, cache, ram>>
    BY <1>14 DEF SuspenderSegmento, cpus
  <2>3. tabla' \in [Pids -> SUBSET EntradasT]
    BY <1>t, <2>1
  <2>4. \A k \in DOMAIN Bytes(s) : Bytes(s)[k] \in Valores
    BY <2>1, BytesTipo DEF InvMemoria
  <2>5. disco' \in [Bloques -> [0 .. SwapBlockSize - 1 -> Valores]]
    BY <2>1, <2>4, CopiadosTipo
  <2>. QED  BY <1>t, <2>2, <2>3, <2>5 DEF InvDatos, Valores, Dirs, Bloques
<1>15. CASE RestaurarSegmento
  <2>1. PICK sw \in pedido.resto, s \in pedido.hechos :
          /\ sw \in segmentos_swap /\ s \in segmentos
          /\ ram' = Escritos(s.base, BytesSwap(sw))
          /\ tabla' = [tabla EXCEPT ![s.pid] = @ \cup {Entrada(s)}]
    BY <1>15, EfectoRestaurar
  <2>2. UNCHANGED <<memoria_total, cache, disco>>
    BY <1>15 DEF RestaurarSegmento, cpus
  <2>3. Entrada(s) \in EntradasT /\ s.pid \in Pids
    BY <2>1, EntradaTipo DEF InvMemoria, InvTipos, SegmentosT
  <2>4. tabla' \in [Pids -> SUBSET EntradasT]
    BY <1>t, <2>1, <2>3
  <2>5. \A k \in DOMAIN BytesSwap(sw) : BytesSwap(sw)[k] \in Valores
    BY <2>1, BytesSwapTipo DEF InvMemoria
  <2>. QED  BY <1>9, <2>1, <2>2, <2>4, <2>5
<1>. QED  BY <1>3, <1>4, <1>5, <1>6, <1>7, <1>8, <1>10, <1>11, <1>12, <1>13, <1>14, <1>15,
             <1>16 DEF Next, Compactar, SeguirCaido

-----------------------------------------------------------------------------
(* The invariant of the whole component, and what follows from it *)

IndMemoria == InvMemoria /\ Finitos /\ InvCompacta /\ InvLugar /\ InvBloques /\ InvDatos

LEMMA InicioMemoria == Init => IndMemoria
<1>. SUFFICES ASSUME Init PROVE IndMemoria
  OBVIOUS
<1>1. /\ memoria_total = 0 /\ procesos = {} /\ segmentos = {} /\ segmentos_swap = {}
      /\ bloques_usados = {} /\ suspendidos = {} /\ en_cpu = {} /\ pedido = SinPedido
      /\ pedido.paso = "libre" /\ pedido \in PedidosT
  BY SinPedidoTipo DEF Init
<1>2. InvMemoria
  BY <1>1 DEF InvMemoria, InvTipos, NrosAcotados, PedidoConDatos, SinSolape, EnMovimiento
<1>3. Finitos
  BY <1>1, FS_EmptySet DEF Finitos
<1>4. InvCompacta
  BY <1>1 DEF InvCompacta
<1>5. InvLugar
  BY <1>1 DEF InvLugar, Mudanza, De
<1>6. InvBloques
  <2>1. BloquesConDueno
    BY <1>1 DEF BloquesConDueno
  <2>. QED  BY <2>1, <1>1 DEF InvBloques
<1>7. InvDatos
  <2>1. 0 \in Valores /\ 0 <= MaxMemoria
    BY ParametrosOK DEF Valores
  <2>. QED  BY <2>1 DEF Init, InvDatos
<1>. QED  BY <1>2, <1>3, <1>4, <1>5, <1>6, <1>7 DEF IndMemoria

LEMMA IndInvariante == Spec => []IndMemoria
<1>1. IndMemoria /\ [Next]_vars => IndMemoria'
  BY Paso, PasoFinitos, PasoCompacta, PasoLugar, PasoBloques, PasoDatos DEF IndMemoria
<1>. QED  BY <1>1, InicioMemoria, PTL DEF Spec

\* Every variable of gestor_memoria has its type: the segments are of processes that
\* exist, the table each CPU was given is one of entries, and what is in the sticks and
\* in SWAP is bytes, whoever wrote them.
THEOREM TiposMemoria == Spec => []TypeOK
<1>1. IndMemoria => TypeOK
  <2>. SUFFICES ASSUME IndMemoria PROVE TypeOK
    OBVIOUS
  <2>1. memoria_total \in 0 .. MaxMemoria
    BY ParametrosOK DEF IndMemoria, InvMemoria, InvTipos, InvDatos
  <2>2. bloques_usados \subseteq Bloques
    BY DEF IndMemoria, InvBloques, BloquesConDueno, InvMemoria, InvTipos, SwapT
  <2>. QED  BY <2>1, <2>2 DEF IndMemoria, InvMemoria, InvTipos, InvLugar, InvDatos, TypeOK
<1>. QED  BY <1>1, IndInvariante, PTL

\* What the request in progress still has to do is there to be done, whatever the other
\* threads did meanwhile; and a compaction writes over no segment it has not copied.
THEOREM PedidoEnMovimiento == Spec => []EnMovimiento
<1>1. IndMemoria => EnMovimiento
  BY DEF IndMemoria, InvMemoria
<1>. QED  BY <1>1, IndInvariante, PTL

\* No block of SWAP is lost or shared: those in use are those of the segments that are
\* there, and each of these has as many as suspender_segmento asks for.
THEOREM SwapConDueno == Spec => []BloquesConDueno
<1>1. IndMemoria => BloquesConDueno
  BY DEF IndMemoria, InvBloques
<1>. QED  BY <1>1, IndInvariante, PTL

\* suspender and des_suspender, when they are over, moved all of a process or nothing,
\* and finalizar leaves nothing of it.
THEOREM MudanzaEntera == Spec => []TodoONada
<1>1. IndMemoria => TodoONada
  BY DEF IndMemoria, InvLugar, TodoONada, Mudanza
<1>. QED  BY <1>1, IndInvariante, PTL

\* The creation that compactar was for never fails for want of a hole.
THEOREM SiempreAlcanza == Spec => []CompactacionAlcanza
<1>1. IndMemoria => CompactacionAlcanza
  <2>. SUFFICES ASSUME IndMemoria, pedido.paso = "reintenta" PROVE Huecos(pedido.tam) # {}
    BY DEF CompactacionAlcanza
  <2>1. pedido.tam \in Tams
    BY DEF IndMemoria, InvMemoria, PedidoConDatos
  <2>2. pedido.tam <= EspacioLibre /\ \A s \in segmentos : Fin(s) <= Cardinality(Piezas(segmentos))
    BY DEF IndMemoria, InvCompacta
  <2>. QED  BY <2>1, <2>2, HuecoFinal DEF IndMemoria, InvMemoria
<1>. QED  BY <1>1, IndInvariante, PTL

-----------------------------------------------------------------------------
(* The table of each process *)

\* Where no number is repeated, the first with a number is the one that has it.
LEMMA PrimeroUnico ==
  ASSUME NEW S, NEW i, \A s \in S : s.nro \in Nat, \A s, r \in S : s.id = r.id => s = r
  PROVE  Primero(S, i) = {s \in S : s.id = i}
<1>1. \A s \in S : s.id = i => \A r \in S : r.id = i => s.nro <= r.nro
  <2>1. \A n \in Nat : n <= n
    OBVIOUS
  <2>. QED  BY <2>1
<1>. QED  BY <1>1 DEF Primero

\* Unless a process is coming back, nothing is in memory and in SWAP at once.
LEMMA NadaEnSwap ==
  ASSUME IdsUnicos, pedido.paso \notin {"reserva", "restaura"}
  PROVE  \A s \in segmentos : ~EnSwap(s)
BY DEF IdsUnicos, EnSwap

LEMMA TablaUnica ==
  ASSUME InvTipos, IdsUnicos, TablaBien, NEW p \in Pids
  PROVE  /\ \A i : Primero(De(segmentos, p), i) = {s \in De(segmentos, p) : s.id = i}
         /\ \A s \in Presentes(p) : Primero(tabla[p], s.id) = {Entrada(s)}
<1>1. \A s \in De(segmentos, p) : s \in SegmentosT /\ s.nro \in Nat
  BY DEF De, InvTipos, SegmentosT, Numeros
<1>2. \A s, r \in De(segmentos, p) : s.id = r.id => s = r
  BY DEF De, IdsUnicos
<1>3. tabla[p] = {Entrada(s) : s \in Presentes(p)} /\ Presentes(p) \subseteq De(segmentos, p)
  BY DEF TablaBien, Presentes
<1>4. \A s \in De(segmentos, p) : Entrada(s).id = s.id /\ Entrada(s).nro = s.nro
  BY DEF Entrada
<1>5. /\ \A e \in tabla[p] : e.nro \in Nat
      /\ \A e, f \in tabla[p] : e.id = f.id => e = f
  BY <1>1, <1>2, <1>3, <1>4
<1>6. ASSUME NEW s \in Presentes(p) PROVE Primero(tabla[p], s.id) = {Entrada(s)}
  <2>1. Primero(tabla[p], s.id) = {e \in tabla[p] : e.id = s.id}
    BY <1>5, PrimeroUnico
  <2>2. Entrada(s) \in tabla[p] /\ Entrada(s).id = s.id
    BY <1>3, <1>4
  <2>. QED  BY <1>5, <2>1, <2>2
<1>7. ASSUME NEW i PROVE Primero(De(segmentos, p), i) = {s \in De(segmentos, p) : s.id = i}
  BY <1>1, <1>2, PrimeroUnico
<1>. QED  BY <1>6, <1>7

\* The segments of a process that does not take part in a step
LEMMA PresentesIguales ==
  ASSUME NEW p, De(segmentos', p) = De(segmentos, p),
         De(segmentos_swap', p) = De(segmentos_swap, p)
  PROVE  Presentes(p)' = Presentes(p)
<1>1. \A s \in De(segmentos, p) : EnSwap(s)' <=> EnSwap(s)
  BY DEF De, EnSwap
<1>. QED  BY <1>1 DEF Presentes, De

\* A step that leaves segments and tables as they are
LEMMA TablaQuieta ==
  ASSUME TablaBien, UNCHANGED <<segmentos, segmentos_swap, tabla>>
  PROVE  TablaBien'
BY DEF TablaBien, Presentes, EnSwap, De

\* A new segment of a process with nothing in SWAP, with a number it does not have
LEMMA TablaAlta ==
  ASSUME InvMemoria, IdsUnicos, TablaBien, NEW p \in Pids, NEW i \in Ids, NEW t \in Tams,
         tabla \in [Pids -> SUBSET EntradasT], Alta(p, i, t), De(segmentos_swap, p) = {},
         \A s \in De(segmentos, p) : s.id # i, segmentos_swap' = segmentos_swap,
         pedido.paso \notin {"reserva", "restaura"}, pedido'.paso = "libre"
  PROVE  IdsUnicos' /\ TablaBien'
<1>1. PICK s \in SegmentosT :
        /\ s.pid = p /\ s.id = i /\ s \notin segmentos
        /\ segmentos' = segmentos \cup {s}
        /\ tabla' = [tabla EXCEPT ![p] = @ \cup {Entrada(s)}]
  BY EfectoAlta
<1>2. \A r \in segmentos' : ~EnSwap(r)'
  <2>1. \A r \in segmentos : ~EnSwap(r)
    BY NadaEnSwap
  <2>2. ~EnSwap(s)
    BY <1>1 DEF EnSwap, De
  <2>. QED  BY <1>1, <2>1, <2>2 DEF EnSwap
<1>3. ASSUME NEW r \in segmentos', NEW sw \in segmentos_swap', r.pid = sw.pid, r.id = sw.id
      PROVE  FALSE
  <2>1. CASE r = s
    BY <1>1, <1>3, <2>1 DEF De
  <2>2. CASE r \in segmentos
    BY <1>3, <2>2 DEF IdsUnicos
  <2>. QED  BY <1>1, <1>3, <2>1, <2>2
<1>4. IdsUnicos'
  <2>1. \A r \in segmentos : r.pid = p => r.id # i
    BY DEF De
  <2>2. \A r, q \in segmentos' : r.pid = q.pid /\ r.id = q.id => r = q
    BY <1>1, <2>1 DEF IdsUnicos
  <2>. QED  BY <1>3, <2>2 DEF IdsUnicos
<1>5. ASSUME NEW q \in Pids PROVE tabla'[q] = {Entrada(r) : r \in Presentes(q)'}
  <2>0. tabla[q] = {Entrada(r) : r \in Presentes(q)}
    BY DEF TablaBien
  <2>1. CASE q = p
    <3>1. Presentes(p)' = Presentes(p) \cup {s}
      <4>1. De(segmentos', p) = De(segmentos, p) \cup {s}
        BY <1>1 DEF De
      <4>2. Presentes(p)' = De(segmentos', p)
        BY <1>2 DEF Presentes, De
      <4>3. Presentes(p) = De(segmentos, p)
        BY NadaEnSwap DEF Presentes, De
      <4>. QED  BY <4>1, <4>2, <4>3
    <3>. QED  BY <1>1, <2>0, <2>1, <3>1
  <2>2. CASE q # p
    <3>1. Presentes(q)' = Presentes(q)
      BY <1>1, <2>2, PresentesIguales DEF De
    <3>. QED  BY <1>1, <2>0, <2>2, <3>1
  <2>. QED  BY <2>1, <2>2
<1>. QED  BY <1>4, <1>5 DEF TablaBien, Entrada

\* A step that concerns the segments of one process and leaves the others theirs
LEMMA TablaDeUno ==
  ASSUME TablaBien, tabla \in [Pids -> SUBSET EntradasT], NEW p \in Pids, NEW T,
         \A q \in Pids : q # p => /\ De(segmentos', q) = De(segmentos, q)
                                  /\ De(segmentos_swap', q) = De(segmentos_swap, q),
         tabla' = [tabla EXCEPT ![p] = T], T = {Entrada(r) : r \in Presentes(p)'}
  PROVE  TablaBien'
<1>1. ASSUME NEW q \in Pids PROVE tabla'[q] = {Entrada(r) : r \in Presentes(q)'}
  <2>1. CASE q = p
    BY <2>1
  <2>2. CASE q # p
    <3>1. Presentes(q)' = Presentes(q)
      BY <2>2, PresentesIguales
    <3>2. tabla'[q] = tabla[q]
      BY <2>2
    <3>. QED  BY <3>1, <3>2 DEF TablaBien
  <2>. QED  BY <2>1, <2>2
<1>. QED  BY <1>1 DEF TablaBien, Entrada

LEMMA TablaFinalizar ==
  ASSUME InvMemoria, InvDatos, IdsUnicos, TablaBien, NEW p \in Pids, FinalizarProceso(p)
  PROVE  IdsUnicos' /\ TablaBien'
<1>1. /\ pedido.paso = "libre" /\ pedido' = pedido
      /\ segmentos' = segmentos \ De(segmentos, p)
      /\ segmentos_swap' = segmentos_swap \ De(segmentos_swap, p)
      /\ tabla' = [tabla EXCEPT ![p] = {}]
  BY DEF FinalizarProceso
<1>2. IdsUnicos'
  BY <1>1 DEF IdsUnicos
<1>3. \A q \in Pids : q # p => /\ De(segmentos', q) = De(segmentos, q)
                               /\ De(segmentos_swap', q) = De(segmentos_swap, q)
  BY <1>1 DEF De
<1>4. {} = {Entrada(r) : r \in Presentes(p)'}
  <2>1. Presentes(p)' = {}
    BY <1>1 DEF Presentes, De
  <2>. QED  BY <2>1
<1>5. tabla \in [Pids -> SUBSET EntradasT]
  BY DEF InvDatos
<1>. QED  BY <1>1, <1>2, <1>3, <1>4, <1>5, TablaDeUno

LEMMA TablaEliminar ==
  ASSUME InvMemoria, InvDatos, IdsUnicos, TablaBien, NEW p \in Pids, NEW i \in Ids,
         EliminarSegmento(p, i)
  PROVE  IdsUnicos' /\ TablaBien'
<1>1. PICK s \in Primero(De(segmentos, p), i) : segmentos' = segmentos \ {s}
  BY DEF EliminarSegmento
<1>2. /\ pedido.paso = "libre" /\ pedido' = pedido /\ segmentos_swap' = segmentos_swap
      /\ tabla' = [tabla EXCEPT ![p] = tabla[p] \ Primero(tabla[p], i)]
  BY DEF EliminarSegmento, swap
<1>3. s \in segmentos /\ s.pid = p /\ s.id = i
  BY DEF Primero, De
<1>4. IdsUnicos'
  BY <1>1, <1>2 DEF IdsUnicos
<1>5. \A q \in Pids : q # p => /\ De(segmentos', q) = De(segmentos, q)
                               /\ De(segmentos_swap', q) = De(segmentos_swap, q)
  BY <1>1, <1>2, <1>3 DEF De
<1>6. /\ Presentes(p) = De(segmentos, p) /\ Presentes(p)' = De(segmentos, p) \ {s}
      /\ s \in Presentes(p)
  <2>1. \A r \in segmentos : ~EnSwap(r)
    BY <1>2, NadaEnSwap
  <2>2. \A r \in segmentos : EnSwap(r)' <=> EnSwap(r)
    BY <1>2 DEF EnSwap
  <2>. QED  BY <1>1, <1>3, <2>1, <2>2 DEF Presentes, De
<1>7. tabla[p] \ Primero(tabla[p], i) = {Entrada(r) : r \in Presentes(p)'}
  <2>1. Primero(tabla[p], i) = {Entrada(s)}
    BY <1>3, <1>6, TablaUnica DEF InvMemoria
  <2>2. tabla[p] = {Entrada(r) : r \in De(segmentos, p)}
    BY <1>6 DEF TablaBien
  <2>3. \A r \in De(segmentos, p) : r # s => Entrada(r) # Entrada(s)
    <3>1. \A r \in De(segmentos, p) : r # s => r.id # s.id
      BY <1>3 DEF IdsUnicos, De
    <3>. QED  BY <3>1 DEF Entrada
  <2>. QED  BY <1>6, <2>1, <2>2, <2>3
<1>8. tabla \in [Pids -> SUBSET EntradasT]
  BY DEF InvDatos
<1>. QED  BY <1>2, <1>4, <1>5, <1>7, <1>8, TablaDeUno

LEMMA TablaMover ==
  ASSUME InvMemoria, InvDatos, IdsUnicos, TablaBien, MoverSegmento
  PROVE  IdsUnicos' /\ TablaBien'
<1>1. PICK s \in pedido.resto, n \in SegmentosT :
        /\ s \in segmentos /\ n \notin segmentos \ {s}
        /\ n.pid = s.pid /\ n.id = s.id /\ n.nro = s.nro /\ n.tam = s.tam
        /\ n.base = pedido.prox /\ segmentos' = (segmentos \ {s}) \cup {n}
        /\ \/ n = s /\ UNCHANGED <<tabla, ram>>
           \/ /\ tabla' = [tabla EXCEPT ![s.pid] = ConBase(@, s.id, pedido.prox)]
              /\ ram' = Escritos(pedido.prox, Bytes(s))
        /\ pedido' = [pedido EXCEPT !.resto = @ \ {s}, !.prox = @ + s.tam]
  BY EfectoMover
<1>2. /\ pedido.paso = "mueve" /\ segmentos_swap' = segmentos_swap
      /\ tabla \in [Pids -> SUBSET EntradasT]
  BY DEF MoverSegmento, swap, InvDatos
<1>3. pedido'.paso = "mueve" /\ pedido'.pid = pedido.pid /\ pedido'.id = pedido.id
  BY <1>1, <1>2 DEF InvMemoria, InvTipos, PedidosT
<1>4. PICK p \in Pids : p = s.pid
  BY <1>1 DEF InvMemoria, InvTipos, SegmentosT
<1>5. ASSUME NEW r \in segmentos' PROVE \E q \in segmentos : q.pid = r.pid /\ q.id = r.id
  BY <1>1
<1>6. ASSUME NEW r \in segmentos', NEW sw \in segmentos_swap', r.pid = sw.pid, r.id = sw.id
      PROVE  FALSE
  BY <1>2, <1>5, <1>6 DEF IdsUnicos
<1>7. \A r, q \in segmentos' : r.pid = q.pid /\ r.id = q.id => r = q
  BY <1>1 DEF IdsUnicos
<1>8. IdsUnicos'
  <2>1. \A r \in De(segmentos', pedido'.pid) : r.id # pedido'.id
    BY <1>2, <1>3, <1>5 DEF IdsUnicos, De
  <2>2. \A r, q \in segmentos_swap' : r.pid = q.pid /\ r.id = q.id => r = q
    BY <1>2 DEF IdsUnicos
  <2>. QED  BY <1>3, <1>6, <1>7, <2>1, <2>2 DEF IdsUnicos
<1>9. CASE n = s /\ UNCHANGED <<tabla, ram>>
  <2>1. segmentos' = segmentos
    BY <1>1, <1>9
  <2>. QED  BY <1>2, <1>8, <1>9, <2>1, TablaQuieta
<1>10. CASE tabla' = [tabla EXCEPT ![s.pid] = ConBase(@, s.id, pedido.prox)]
  <2>1. \A q \in Pids : q # p => /\ De(segmentos', q) = De(segmentos, q)
                                 /\ De(segmentos_swap', q) = De(segmentos_swap, q)
    BY <1>1, <1>2, <1>4 DEF De
  <2>2. /\ Presentes(p) = De(segmentos, p) /\ s \in Presentes(p)
        /\ Presentes(p)' = (De(segmentos, p) \ {s}) \cup {n}
    <3>1. \A r \in segmentos : ~EnSwap(r)
      BY <1>2, NadaEnSwap
    <3>2. \A r \in segmentos' : ~EnSwap(r)'
      BY <1>6 DEF EnSwap
    <3>. QED  BY <1>1, <1>4, <3>1, <3>2 DEF Presentes, De
  <2>3. /\ tabla[p] = {Entrada(r) : r \in De(segmentos, p)}
        /\ Primero(tabla[p], s.id) = {Entrada(s)}
    BY <2>2, TablaUnica DEF InvMemoria, TablaBien
  <2>4. \A r \in De(segmentos, p) \ {s} : Entrada(r) # Entrada(s)
    <3>1. \A r \in De(segmentos, p) \ {s} : r.id # s.id
      BY <1>1, <1>4 DEF IdsUnicos, De
    <3>. QED  BY <3>1 DEF Entrada
  <2>5. [Entrada(s) EXCEPT !.base = pedido.prox] = Entrada(n)
    BY <1>1 DEF Entrada
  <2>6. ConBase(tabla[p], s.id, pedido.prox) = {Entrada(r) : r \in Presentes(p)'}
    <3>1. ConBase(tabla[p], s.id, pedido.prox) =
            {IF e = Entrada(s) THEN Entrada(n) ELSE e : e \in tabla[p]}
      BY <2>3, <2>5 DEF ConBase
    <3>2. s \in De(segmentos, p)
      BY <2>2
    <3>. HIDE DEF Entrada
    <3>. QED  BY <3>1, <3>2, <2>2, <2>3, <2>4
  <2>7. tabla' = [tabla EXCEPT ![p] = ConBase(tabla[p], s.id, pedido.prox)]
    BY <1>4, <1>10
  <2>8. TablaBien'
    BY <1>2, <2>1, <2>6, <2>7, TablaDeUno
  <2>. QED  BY <1>8, <2>8
<1>. QED  BY <1>1, <1>9, <1>10, SMTT(40)

LEMMA TablaSuspender ==
  ASSUME InvMemoria, InvDatos, IdsUnicos, TablaBien, SuspenderSegmento
  PROVE  IdsUnicos' /\ TablaBien'
<1>1. PICK s \in pedido.resto, w \in SwapT :
        /\ s \in segmentos /\ s.pid = pedido.pid /\ s \in SegmentosT
        /\ w.pid = s.pid /\ w.id = s.id /\ w.nro = s.nro
        /\ segmentos_swap' = segmentos_swap \cup {w} /\ segmentos' = segmentos \ {s}
        /\ tabla' = [tabla EXCEPT ![s.pid] = @ \ Primero(@, s.id)]
        /\ pedido' = Sigue(pedido.resto \ {s})
  BY EfectoSuspender
<1>2. pedido.paso = "suspende" /\ tabla \in [Pids -> SUBSET EntradasT]
  BY DEF SuspenderSegmento, InvDatos
<1>3. pedido'.paso \in {"libre", "suspende"}
  BY <1>1, <1>2, SinPedidoTipo, SigueEs DEF InvMemoria
<1>4. PICK p \in Pids : p = s.pid
  BY <1>1 DEF SegmentosT
<1>5. ASSUME NEW r \in segmentos', NEW sw \in segmentos_swap', r.pid = sw.pid, r.id = sw.id
      PROVE  FALSE
  <2>1. CASE sw = w
    BY <1>1, <1>5, <2>1 DEF IdsUnicos
  <2>2. CASE sw \in segmentos_swap
    BY <1>1, <1>2, <1>5, <2>2 DEF IdsUnicos
  <2>. QED  BY <1>1, <2>1, <2>2
<1>6. IdsUnicos'
  <2>1. \A r, q \in segmentos' : r.pid = q.pid /\ r.id = q.id => r = q
    BY <1>1 DEF IdsUnicos
  <2>2. \A r \in segmentos_swap : ~(r.pid = w.pid /\ r.id = w.id)
    BY <1>1, <1>2 DEF IdsUnicos
  <2>3. \A r, q \in segmentos_swap' : r.pid = q.pid /\ r.id = q.id => r = q
    BY <1>1, <2>2 DEF IdsUnicos
  <2>. QED  BY <1>3, <1>5, <2>1, <2>3 DEF IdsUnicos
<1>7. \A q \in Pids : q # p => /\ De(segmentos', q) = De(segmentos, q)
                               /\ De(segmentos_swap', q) = De(segmentos_swap, q)
  BY <1>1, <1>4 DEF De
<1>8. /\ Presentes(p) = De(segmentos, p) /\ Presentes(p)' = De(segmentos, p) \ {s}
      /\ s \in Presentes(p)
  <2>1. \A r \in segmentos : ~EnSwap(r)
    BY <1>2, NadaEnSwap
  <2>2. \A r \in segmentos' : ~EnSwap(r)'
    BY <1>5 DEF EnSwap
  <2>. QED  BY <1>1, <1>4, <2>1, <2>2 DEF Presentes, De
<1>9. tabla[p] \ Primero(tabla[p], s.id) = {Entrada(r) : r \in Presentes(p)'}
  <2>1. Primero(tabla[p], s.id) = {Entrada(s)}
    BY <1>8, TablaUnica DEF InvMemoria
  <2>2. tabla[p] = {Entrada(r) : r \in De(segmentos, p)}
    BY <1>8 DEF TablaBien
  <2>3. \A r \in De(segmentos, p) : r # s => Entrada(r) # Entrada(s)
    <3>1. \A r \in De(segmentos, p) : r # s => r.id # s.id
      BY <1>1, <1>4 DEF IdsUnicos, De
    <3>. QED  BY <3>1 DEF Entrada
  <2>. QED  BY <1>8, <2>1, <2>2, <2>3
<1>10. tabla' = [tabla EXCEPT ![p] = tabla[p] \ Primero(tabla[p], s.id)]
  BY <1>1, <1>4
<1>. QED  BY <1>2, <1>6, <1>7, <1>9, <1>10, TablaDeUno

LEMMA TablaReservar ==
  ASSUME InvMemoria, InvDatos, InvLugar, IdsUnicos, TablaBien, ReservarSegmento
  PROVE  IdsUnicos' /\ TablaBien'
<1>1. /\ pedido.paso = "reserva" /\ UNCHANGED <<tabla, segmentos_swap>>
      /\ tabla \in [Pids -> SUBSET EntradasT]
  BY DEF ReservarSegmento, swap, InvDatos
<1>2. pedido.pid \in procesos /\ pedido.hechos = De(segmentos, pedido.pid)
  BY <1>1 DEF InvLugar, Mudanza
<1>3. PICK p \in Pids : p = pedido.pid
  BY <1>2 DEF InvLugar
<1>4. \A s \in De(segmentos, p) : EnSwap(s)
  BY <1>1, <1>2, <1>3 DEF IdsUnicos
<1>5. tabla' = [tabla EXCEPT ![p] = {}]
  <2>1. tabla[p] = {}
    BY <1>4 DEF TablaBien, Presentes
  <2>. QED  BY <1>1, <2>1
<1>6. CASE segmentos' = segmentos \ pedido.hechos /\ pedido' = SinPedido
  <2>1. \A q \in Pids : q # p => /\ De(segmentos', q) = De(segmentos, q)
                                 /\ De(segmentos_swap', q) = De(segmentos_swap, q)
    BY <1>1, <1>2, <1>3, <1>6 DEF De
  <2>2. {} = {Entrada(r) : r \in Presentes(p)'}
    BY <1>2, <1>3, <1>6 DEF Presentes, De
  <2>3. ASSUME NEW s \in segmentos', NEW sw \in segmentos_swap', s.pid = sw.pid PROVE FALSE
    <3>1. s \in segmentos /\ s.pid # p /\ s.pid \in Pids /\ sw \in segmentos_swap
      BY <1>1, <1>2, <1>3, <1>6 DEF De, InvLugar
    <3>2. De(segmentos, s.pid) = {} \/ De(segmentos_swap, s.pid) = {}
      BY <1>3, <3>1 DEF InvLugar
    <3>. QED  BY <2>3, <3>1, <3>2 DEF De
  <2>4. IdsUnicos'
    BY <1>1, <1>6, <2>3, SinPedidoTipo DEF IdsUnicos
  <2>. QED  BY <1>1, <1>5, <2>1, <2>2, <2>4, TablaDeUno
<1>7. ASSUME NEW sw \in pedido.resto, NEW s \in SegmentosT,
             sw \in segmentos_swap, sw.pid = pedido.pid,
             s.pid = sw.pid, s.id = sw.id, s.nro = sw.nro, s.tam = sw.tam,
             segmentos' = segmentos \cup {s},
             pedido'.hechos = pedido.hechos \cup {s},
             \/ pedido'.paso = "restaura"
             \/ pedido'.paso = "reserva" /\ pedido'.resto = pedido.resto \ {sw}
      PROVE  IdsUnicos' /\ TablaBien'
  <2>1. \A q \in Pids : q # p => /\ De(segmentos', q) = De(segmentos, q)
                                 /\ De(segmentos_swap', q) = De(segmentos_swap, q)
    BY <1>1, <1>3, <1>7 DEF De
  <2>2. \A r \in De(segmentos', p) : EnSwap(r)'
    <3>1. \A r \in De(segmentos', p) : r \in De(segmentos, p) \/ r = s
      BY <1>7 DEF De
    <3>2. EnSwap(s)
      BY <1>7 DEF EnSwap
    <3>. QED  BY <1>1, <1>4, <3>1, <3>2 DEF EnSwap
  <2>3. {} = {Entrada(r) : r \in Presentes(p)'}
    BY <2>2 DEF Presentes, De
  <2>4. \A r \in segmentos : ~(r.pid = s.pid /\ r.id = s.id)
    BY <1>1, <1>7 DEF IdsUnicos
  <2>5. \A r, q \in segmentos' : r.pid = q.pid /\ r.id = q.id => r = q
    BY <1>7, <2>4 DEF IdsUnicos
  <2>6. \A x \in segmentos_swap : x.pid = s.pid /\ x.id = s.id => x = sw
    BY <1>7 DEF IdsUnicos
  <2>7. ASSUME NEW r \in segmentos', NEW x \in segmentos_swap', r.pid = x.pid, r.id = x.id
        PROVE  /\ r.nro = x.nro /\ r.tam = x.tam
               /\ pedido'.paso = "reserva" => x \notin pedido'.resto
    <3>1. CASE r = s
      BY <1>1, <1>7, <2>6, <2>7, <3>1
    <3>2. CASE r \in segmentos
      <4>1. r.nro = x.nro /\ r.tam = x.tam /\ x \notin pedido.resto
        BY <1>1, <2>7, <3>2 DEF IdsUnicos
      <4>. QED  BY <4>1, <1>7
    <3>. QED  BY <1>7, <3>1, <3>2
  <2>8. \A r \in pedido'.hechos : EnSwap(r)'
    <3>1. pedido'.hechos \subseteq De(segmentos', p)
      BY <1>2, <1>3, <1>7 DEF De
    <3>. QED  BY <2>2, <3>1
  <2>9. IdsUnicos'
    <3>1. \A x, y \in segmentos_swap' : x.pid = y.pid /\ x.id = y.id => x = y
      BY <1>1 DEF IdsUnicos
    <3>2. pedido'.paso \in {"reserva", "restaura"}
      BY <1>7
    <3>. QED  BY <2>5, <2>7, <2>8, <3>1, <3>2 DEF IdsUnicos
  <2>. QED  BY <1>1, <1>5, <2>1, <2>3, <2>9, TablaDeUno
<1>. QED  BY <1>6, <1>7, EfectoReservar, SMTT(40)

LEMMA TablaRestaurar ==
  ASSUME InvMemoria, InvDatos, InvLugar, IdsUnicos, TablaBien, RestaurarSegmento
  PROVE  IdsUnicos' /\ TablaBien'
<1>1. PICK sw \in pedido.resto, s \in pedido.hechos :
        /\ sw \in segmentos_swap /\ sw.pid = pedido.pid
        /\ s \in segmentos /\ s.pid = pedido.pid /\ s.id = sw.id /\ s.nro = sw.nro
        /\ segmentos_swap' = segmentos_swap \ {sw}
        /\ tabla' = [tabla EXCEPT ![s.pid] = @ \cup {Entrada(s)}]
        /\ pedido' = Sigue(pedido.resto \ {sw})
  BY EfectoRestaurar
<1>2. /\ pedido.paso = "restaura" /\ segmentos' = segmentos
      /\ tabla \in [Pids -> SUBSET EntradasT]
      /\ pedido.resto = De(segmentos_swap, pedido.pid)
  BY DEF RestaurarSegmento, InvDatos, InvLugar
<1>3. PICK p \in Pids : p = s.pid
  BY <1>1 DEF InvMemoria, InvTipos, SegmentosT
<1>4. pedido'.paso = "restaura" \/ (pedido.resto = {sw} /\ pedido'.paso = "libre")
  <2>1. CASE pedido.resto \ {sw} = {}
    BY <1>1, <2>1, SinPedidoTipo, SigueEs DEF InvMemoria
  <2>2. CASE pedido.resto \ {sw} # {}
    BY <1>1, <1>2, <2>2, SigueEs DEF InvMemoria
  <2>. QED  BY <2>1, <2>2
<1>5. ASSUME NEW r \in segmentos', NEW x \in segmentos_swap', r.pid = x.pid, r.id = x.id
      PROVE  pedido'.paso = "restaura" /\ r.nro = x.nro /\ r.tam = x.tam
  <2>1. r \in segmentos /\ x \in segmentos_swap /\ x # sw
    BY <1>1, <1>2
  <2>2. r.nro = x.nro /\ r.tam = x.tam
    BY <1>5, <2>1 DEF IdsUnicos
  <2>3. ASSUME pedido.resto = {sw} PROVE FALSE
    <3>1. x.pid # p
      BY <1>1, <1>2, <1>3, <2>1, <2>3 DEF De
    <3>2. r.pid \in Pids
      BY <2>1 DEF InvLugar
    <3>3. De(segmentos, r.pid) = {} \/ De(segmentos_swap, r.pid) = {}
      BY <1>1, <1>3, <1>5, <3>1, <3>2 DEF InvLugar
    <3>. QED  BY <1>5, <2>1, <3>3 DEF De
  <2>. QED  BY <1>4, <2>2, <2>3
<1>6. IdsUnicos'
  <2>1. \A x, y \in segmentos_swap' : x.pid = y.pid /\ x.id = y.id => x = y
    BY <1>1 DEF IdsUnicos
  <2>2. \A x, y \in segmentos' : x.pid = y.pid /\ x.id = y.id => x = y
    BY <1>2 DEF IdsUnicos
  <2>3. pedido'.paso \in {"restaura", "libre"}
    BY <1>4
  <2>. QED  BY <1>5, <2>1, <2>2, <2>3 DEF IdsUnicos
<1>7. \A q \in Pids : q # p => /\ De(segmentos', q) = De(segmentos, q)
                               /\ De(segmentos_swap', q) = De(segmentos_swap, q)
  BY <1>1, <1>2, <1>3 DEF De
<1>8. Presentes(p)' = Presentes(p) \cup {s}
  <2>1. ~EnSwap(s)'
    <3>1. \A x \in segmentos_swap : x.pid = s.pid /\ x.id = s.id => x = sw
      BY <1>1 DEF IdsUnicos
    <3>. QED  BY <1>1, <3>1 DEF EnSwap
  <2>2. \A r \in De(segmentos, p) \ {s} : EnSwap(r)' <=> EnSwap(r)
    <3>1. \A r \in De(segmentos, p) \ {s} : ~(r.id = sw.id)
      BY <1>1, <1>3 DEF IdsUnicos, De
    <3>. QED  BY <1>1, <3>1 DEF EnSwap
  <2>3. De(segmentos', p) = De(segmentos, p) /\ s \in De(segmentos, p)
    BY <1>1, <1>2, <1>3 DEF De
  <2>4. Presentes(p)' = {r \in De(segmentos', p) : ~EnSwap(r)'}
    BY DEF Presentes, De
  <2>. QED  BY <2>1, <2>2, <2>3, <2>4 DEF Presentes
<1>9. tabla[p] \cup {Entrada(s)} = {Entrada(r) : r \in Presentes(p)'}
  BY <1>8 DEF TablaBien
<1>10. tabla' = [tabla EXCEPT ![p] = tabla[p] \cup {Entrada(s)}]
  BY <1>1, <1>3
<1>. QED  BY <1>2, <1>6, <1>7, <1>9, <1>10, TablaDeUno

\* A request begins, or goes on, and moves nothing.
LEMMA TablaPedido ==
  ASSUME IdsUnicos, TablaBien, UNCHANGED <<segmentos, segmentos_swap, tabla>>,
         pedido.paso \notin {"reserva", "restaura"},
         pedido'.paso = "reserva" => pedido'.hechos = {},
         pedido'.paso \in Compactando =>
           \A s \in De(segmentos, pedido'.pid) : s.id # pedido'.id
  PROVE  IdsUnicos' /\ TablaBien'
<1>1. IdsUnicos'
  BY DEF IdsUnicos, Compactando, De
<1>. QED  BY <1>1, TablaQuieta

LEMMA PasoTabla ==
  InvMemoria /\ InvDatos /\ InvLugar /\ InvTabla /\ [Next]_vars => InvTabla'
<1>. SUFFICES ASSUME InvMemoria, InvDatos, InvLugar, IdsUnicos, TablaBien, [Next]_vars,
                     ~IdsRepetidos
              PROVE  IdsUnicos' /\ TablaBien'
  BY DEF InvTabla
<1>q. ASSUME UNCHANGED <<segmentos, segmentos_swap, tabla, pedido>>
      PROVE  IdsUnicos' /\ TablaBien'
  BY <1>q, TablaQuieta DEF IdsUnicos, De, EnSwap
<1>n. ASSUME NEW p \in procesos \ suspendidos, pedido.paso \notin Mudanza
      PROVE  De(segmentos_swap, p) = {}
  BY <1>n DEF InvLugar, De
<1>t. tabla \in [Pids -> SUBSET EntradasT]
  BY DEF InvDatos
<1>1. ASSUME NEW p \in Pids, NEW i \in IdsDe[p], NEW t \in Tams,
             CrearSegmento(p, i, t) \/ PedirCompactacion(p, i, t)
      PROVE  IdsUnicos' /\ TablaBien'
  <2>1. /\ pedido.paso = "libre" /\ p \in procesos \ suspendidos
        /\ Primero(De(segmentos, p), i) = {} /\ i \in Ids
    BY <1>1 DEF CrearSegmento, PedirCompactacion, EnKernel, Ids
  <2>2. \A s \in De(segmentos, p) : s.id # i
    BY <2>1, TablaUnica DEF InvMemoria
  <2>3. CASE CrearSegmento(p, i, t)
    BY <1>n, <1>t, <2>1, <2>2, <2>3, TablaAlta DEF CrearSegmento, swap, Mudanza
  <2>4. CASE PedirCompactacion(p, i, t)
    <3>1. /\ UNCHANGED <<segmentos, segmentos_swap, tabla>>
          /\ pedido'.paso = "desalojo" /\ pedido'.pid = p /\ pedido'.id = i
      BY <2>4 DEF PedirCompactacion, mem, swap, SinPedido
    <3>. QED  BY <2>1, <2>2, <3>1, TablaPedido
  <2>. QED  BY <1>1, <2>3, <2>4
<1>2. ASSUME NEW p \in Pids, FinalizarProceso(p) PROVE IdsUnicos' /\ TablaBien'
  BY <1>2, TablaFinalizar
<1>3. ASSUME NEW p \in Pids, NEW i \in Ids, EliminarSegmento(p, i)
      PROVE  IdsUnicos' /\ TablaBien'
  BY <1>3, TablaEliminar
<1>4. ASSUME NEW p \in Pids, SuspenderProceso(p) PROVE IdsUnicos' /\ TablaBien'
  <2>1. pedido.paso = "libre" /\ UNCHANGED <<segmentos, segmentos_swap, tabla>>
    BY <1>4 DEF SuspenderProceso, mem, swap
  <2>2. pedido'.paso \in {"libre", "suspende"}
    BY <1>4, <2>1 DEF SuspenderProceso, SinPedido
  <2>. QED  BY <2>1, <2>2, TablaPedido DEF Compactando
<1>5. ASSUME NEW p \in Pids, DessuspenderProceso(p) PROVE IdsUnicos' /\ TablaBien'
  <2>1. /\ pedido.paso = "libre" /\ UNCHANGED <<segmentos, segmentos_swap, tabla>>
        /\ pedido'.paso = "reserva" /\ pedido'.hechos = {}
    BY <1>5 DEF DessuspenderProceso, SinPedido, mem, swap
  <2>. QED  BY <2>1, TablaPedido DEF Compactando
<1>6. CASE RecibirDesalojo \/ FinDeCompactacion
  <2>1. /\ UNCHANGED <<segmentos, segmentos_swap, tabla>>
        /\ pedido.paso \in Compactando /\ pedido'.paso \in {"mueve", "reintenta"}
        /\ pedido'.pid = pedido.pid /\ pedido'.id = pedido.id
    BY <1>6 DEF RecibirDesalojo, FinDeCompactacion, mem, swap, Compactando, InvMemoria,
       InvTipos, PedidosT
  <2>2. \A s \in De(segmentos, pedido.pid) : s.id # pedido.id
    BY <2>1 DEF IdsUnicos, Compactando
  <2>. QED  BY <2>1, <2>2, TablaPedido DEF Compactando
<1>7. CASE MoverSegmento
  BY <1>7, TablaMover
<1>8. CASE ReintentarCrear
  <2>1. /\ pedido.paso = "reintenta" /\ pedido' = SinPedido /\ segmentos_swap' = segmentos_swap
        /\ pedido.pid \in Pids /\ pedido.id \in Ids /\ pedido.tam \in Tams
        /\ pedido.pid \in procesos \ suspendidos
    BY <1>8 DEF ReintentarCrear, swap, InvMemoria, PedidoConDatos, InvLugar
  <2>2. /\ De(segmentos_swap, pedido.pid) = {}
        /\ \A s \in De(segmentos, pedido.pid) : s.id # pedido.id
    BY <1>n, <2>1 DEF IdsUnicos, Mudanza
  <2>3. CASE Alta(pedido.pid, pedido.id, pedido.tam)
    BY <1>t, <2>1, <2>2, <2>3, SinPedidoTipo, TablaAlta
  <2>4. CASE UNCHANGED <<segmentos, tabla>>
    BY <2>1, <2>4, SinPedidoTipo, TablaPedido DEF Compactando
  <2>. QED  BY <1>8, <2>3, <2>4 DEF ReintentarCrear
<1>9. CASE SuspenderSegmento
  BY <1>9, TablaSuspender
<1>10. CASE ReservarSegmento
  BY <1>10, TablaReservar
<1>11. CASE RestaurarSegmento
  BY <1>11, TablaRestaurar
<1>12. ASSUME NEW p \in Pids,
              AgregarProceso(p) \/ PedirContexto(p) \/ Devolver(p) \/ Escribir(p)
       PROVE  IdsUnicos' /\ TablaBien'
  BY <1>q, <1>12, EfectoEscribir DEF AgregarProceso, PedirContexto, Devolver, mem, swap
<1>13. CASE UNCHANGED vars \/ \E t \in TamSticks : RegistrarStick(t)
  BY <1>q, <1>13 DEF vars, mem, swap, RegistrarStick
<1>14. ASSUME NEW p \in Pids, Caer(p) PROVE IdsUnicos' /\ TablaBien'
  <2>1. /\ UNCHANGED <<segmentos, segmentos_swap, tabla>>
        /\ pedido.paso = "libre" /\ pedido'.paso = "caido"
    BY <1>14, EfectoCaer
  <2>. QED  BY <2>1, TablaPedido DEF Compactando
<1>. QED
  BY <1>1, <1>2, <1>3, <1>4, <1>5, <1>6, <1>7, <1>8, <1>9, <1>10, <1>11, <1>12, <1>13, <1>14
  DEF Next, Compactar, SeguirCaido

\* Where no program asks for a number it holds, the list of segments and the tables that
\* the CPUs receive never disagree, in the middle of a compaction, a suspension or a
\* return included.  Without that they do: crear_segmento accepts a second segment with
\* the number, and actualizar_base_de_segmento_en_proceso finds the first entry.
THEOREM TablasAlDia ==
  ASSUME ~IdsRepetidos
  PROVE  Spec => []TablaEspeja
<1>1. Init => InvTabla
  <2>1. ASSUME Init PROVE IdsUnicos /\ TablaBien
    <3>1. /\ segmentos = {} /\ segmentos_swap = {} /\ pedido.paso = "libre"
          /\ \A p \in Pids : tabla[p] = {}
      BY <2>1, SinPedidoTipo DEF Init
    <3>. QED  BY <3>1 DEF IdsUnicos, TablaBien, Presentes, De
  <2>. QED  BY <2>1 DEF InvTabla
<1>2. IndMemoria /\ InvTabla /\ [Next]_vars => InvTabla'
  BY PasoTabla DEF IndMemoria
<1>3. IndMemoria /\ InvTabla => TablaEspeja
  BY DEF IndMemoria, InvLugar, InvTabla, TablaBien, Presentes, TablaEspeja
<1>. QED  BY <1>1, <1>2, <1>3, IndInvariante, PTL DEF Spec

-----------------------------------------------------------------------------
(* What a process can read: the number and the bytes of each of its segments *)

Trozos(p) == {<<sw.id, BytesSwap(sw)>> : sw \in De(segmentos_swap, p)}
             \cup {<<s.id, Bytes(s)>> : s \in Presentes(p)}

\* Contenido(p) is the function whose pairs are Trozos(p).
TrozosBien(p) ==
  /\ Contenido(p) = [i \in {t[1] : t \in Trozos(p)} |-> Contenido(p)[i]]
  /\ \A t \in Trozos(p) : Contenido(p)[t[1]] = t[2]

LEMMA ContenidoEs ==
  InvTipos /\ IdsUnicos => \A p \in Pids : TrozosBien(p)
<1>. SUFFICES ASSUME InvTipos, IdsUnicos, NEW p \in Pids PROVE TrozosBien(p)
  OBVIOUS
<1>. DEFINE I == {s.id : s \in De(segmentos, p) \cup De(segmentos_swap, p)}
<1>1. /\ \A s \in De(segmentos, p) : s.nro \in Nat /\ s.pid = p /\ s \in segmentos
      /\ \A s \in De(segmentos_swap, p) : s.nro \in Nat /\ s.pid = p /\ s \in segmentos_swap
  BY DEF De, InvTipos, SegmentosT, SwapT, Numeros
<1>2. ASSUME NEW i
      PROVE  /\ Primero(De(segmentos, p), i) = {s \in De(segmentos, p) : s.id = i}
             /\ Primero(De(segmentos_swap, p), i) = {s \in De(segmentos_swap, p) : s.id = i}
  <2>1. /\ \A s, r \in De(segmentos, p) : s.id = r.id => s = r
        /\ \A s, r \in De(segmentos_swap, p) : s.id = r.id => s = r
    BY <1>1 DEF IdsUnicos
  <2>. QED  BY <1>1, <2>1, PrimeroUnico
<1>3. \A s \in De(segmentos, p) :
        EnSwap(s) <=> \E sw \in De(segmentos_swap, p) : sw.id = s.id
  <2>1. \A s \in De(segmentos, p), sw \in De(segmentos_swap, p) : sw.id = s.id => sw.nro = s.nro
    BY <1>1 DEF IdsUnicos
  <2>. QED  BY <1>1, <2>1 DEF EnSwap, De
<1>4. I = {t[1] : t \in Trozos(p)}
  <2>1. \A s \in De(segmentos, p) : s \in Presentes(p) \/ EnSwap(s)
    BY DEF Presentes
  <2>2. \A t \in Trozos(p) : t[1] \in I
    BY DEF Trozos, Presentes
  <2>3. ASSUME NEW s \in De(segmentos_swap, p) PROVE \E t \in Trozos(p) : t[1] = s.id
    <3>1. <<s.id, BytesSwap(s)>> \in Trozos(p)
      BY DEF Trozos
    <3>. QED  BY <3>1
  <2>4. ASSUME NEW s \in De(segmentos, p) PROVE \E t \in Trozos(p) : t[1] = s.id
    <3>1. CASE s \in Presentes(p)
      <4>1. <<s.id, Bytes(s)>> \in Trozos(p)
        BY <3>1 DEF Trozos
      <4>. QED  BY <4>1
    <3>2. CASE EnSwap(s)
      BY <1>3, <2>3, <3>2
    <3>. QED  BY <2>1, <3>1, <3>2
  <2>. QED  BY <2>2, <2>3, <2>4
<1>5. Contenido(p) = [i \in I |-> Contenido(p)[i]]
  BY DEF Contenido
<1>6. ASSUME NEW s \in De(segmentos_swap, p) PROVE Contenido(p)[s.id] = BytesSwap(s)
  <2>1. s.id \in I
    OBVIOUS
  <2>2. Primero(De(segmentos_swap, p), s.id) = {s}
    BY <1>1, <1>2 DEF IdsUnicos
  <2>3. (CHOOSE sw \in {s} : TRUE) = s
    OBVIOUS
  <2>4. Contenido(p)[s.id] =
          IF Primero(De(segmentos_swap, p), s.id) # {}
          THEN BytesSwap(CHOOSE sw \in Primero(De(segmentos_swap, p), s.id) : TRUE)
          ELSE Bytes(CHOOSE r \in Primero(De(segmentos, p), s.id) : TRUE)
    BY <2>1 DEF Contenido
  <2>. QED  BY <2>2, <2>3, <2>4
<1>7. ASSUME NEW s \in Presentes(p) PROVE Contenido(p)[s.id] = Bytes(s)
  <2>1. s \in De(segmentos, p) /\ ~EnSwap(s)
    BY DEF Presentes
  <2>2. Primero(De(segmentos_swap, p), s.id) = {}
    BY <1>2, <1>3, <2>1
  <2>3. Primero(De(segmentos, p), s.id) = {s}
    BY <1>1, <1>2, <2>1 DEF IdsUnicos
  <2>4. (CHOOSE r \in {s} : TRUE) = s /\ s.id \in I
    BY <2>1
  <2>5. Contenido(p)[s.id] =
          IF Primero(De(segmentos_swap, p), s.id) # {}
          THEN BytesSwap(CHOOSE sw \in Primero(De(segmentos_swap, p), s.id) : TRUE)
          ELSE Bytes(CHOOSE r \in Primero(De(segmentos, p), s.id) : TRUE)
    BY <2>4 DEF Contenido
  <2>. QED  BY <2>2, <2>3, <2>4, <2>5
<1>8. \A t \in Trozos(p) : Contenido(p)[t[1]] = t[2]
  BY <1>6, <1>7 DEF Trozos
<1>. QED  BY <1>4, <1>5, <1>8 DEF TrozosBien

LEMMA ContenidoDespues ==
  (InvTipos /\ IdsUnicos)' => (\A p \in Pids : TrozosBien(p))'
BY ContenidoEs, PTL

\* Who keeps its pieces cannot tell the step.
LEMMA MismoContenido ==
  ASSUME NEW p, TrozosBien(p), TrozosBien(p)', Trozos(p)' = Trozos(p)
  PROVE  Contenido(p)' = Contenido(p)
<1>. DEFINE c == Contenido(p)
            d == Contenido(p)'
            T == Trozos(p)
            I == {t[1] : t \in T}
<1>1. /\ c = [i \in I |-> c[i]] /\ d = [i \in I |-> d[i]]
      /\ \A t \in T : c[t[1]] = t[2] /\ d[t[1]] = t[2]
  BY DEF TrozosBien
<1>. HIDE DEF c, d, T
<1>2. \A i \in I : c[i] = d[i]
  BY <1>1
<1>. QED  BY <1>1, <1>2 DEF c, d

\* A step does not concern p.
LEMMA TrozosIguales ==
  ASSUME NEW p, De(segmentos', p) = De(segmentos, p), De(segmentos_swap', p) = De(segmentos_swap, p),
         \A s \in Presentes(p) : Bytes(s)' = Bytes(s),
         \A sw \in De(segmentos_swap, p) : BytesSwap(sw)' = BytesSwap(sw)
  PROVE  Trozos(p)' = Trozos(p)
<1>1. Presentes(p)' = Presentes(p)
  BY PresentesIguales
<1>2. Trozos(p)' = {<<sw.id, BytesSwap(sw)'>> : sw \in De(segmentos_swap', p)}
                   \cup {<<s.id, Bytes(s)'>> : s \in Presentes(p)'}
  BY DEF Trozos, De
<1>. QED  BY <1>1, <1>2 DEF Trozos

-----------------------------------------------------------------------------
(* What a write changes *)

\* A place of memory outside d .. d + n - 1 keeps its bytes.
LEMMA BytesAparte ==
  ASSUME InvTipos, SinSolape, InvDatos, NEW s \in segmentos, NEW d \in Nat, NEW n \in Nat, NEW c,
         DOMAIN c = 0 .. n - 1, ram' = Escritos(d, c),
         Fin(s) <= d \/ d + n <= s.base
  PROVE  Bytes(s)' = Bytes(s)
<1>1. /\ s.base \in Nat /\ s.tam \in Nat /\ s.base + s.tam <= MaxMemoria /\ MaxMemoria \in Nat
      /\ Fin(s) = s.base + s.tam
  BY ParametrosOK DEF InvTipos, SegmentosT, Tams, SinSolape, Fin, InvDatos
<1>2. ASSUME NEW k \in 0 .. s.tam - 1 PROVE ram'[s.base + k] = ram[s.base + k]
  <2>. DEFINE e == s.base + k
  <2>1. k \in Nat /\ k < s.tam
    BY <1>1
  <2>2. e \in Dirs
    BY <1>1, <2>1 DEF Dirs
  <2>3. e - d \notin 0 .. n - 1
    BY <1>1, <2>1
  <2>. HIDE DEF e
  <2>4. ram'[e] = IF e - d \in DOMAIN c THEN c[e - d] ELSE ram[e]
    BY <2>2 DEF Escritos
  <2>5. ram'[e] = ram[e]
    BY <2>3, <2>4
  <2>. QED  BY <2>5 DEF e
<1>. QED  BY <1>2 DEF Bytes

\* A segment that is written from one end to the other has what was written.
LEMMA BytesEscritos ==
  ASSUME NEW s, s.base \in Nat, s.tam \in Nat, s.base + s.tam <= MaxMemoria, NEW c,
         c = [k \in 0 .. s.tam - 1 |-> c[k]], ram' = Escritos(s.base, c)
  PROVE  Bytes(s)' = c
<1>1. ASSUME NEW k \in 0 .. s.tam - 1 PROVE ram'[s.base + k] = c[k]
  <2>1. s.base + k \in Dirs /\ (s.base + k) - s.base = k
    BY ParametrosOK, SMTT(40) DEF Dirs
  <2>2. k \in DOMAIN c
    OBVIOUS
  <2>3. ram'[s.base + k] = IF (s.base + k) - s.base \in DOMAIN c THEN c[(s.base + k) - s.base]
                           ELSE ram[s.base + k]
    BY <2>1 DEF Escritos
  <2>. QED  BY <2>1, <2>2, <2>3
<1>. QED  BY <1>1 DEF Bytes

\* The block of each byte of a segment in SWAP, and the byte of each place of a block.
LEMMA BloqueDeBien ==
  ASSUME NEW sw, sw.tam \in Tams, sw.bloques \subseteq Bloques,
         Cardinality(sw.bloques) = CantBloques(sw.tam), NEW k \in 0 .. sw.tam - 1
  PROVE  /\ BloqueDe(sw, k) \in sw.bloques
         /\ k % SwapBlockSize \in 0 .. SwapBlockSize - 1
         /\ Orden(BloqueDe(sw, k), sw.bloques) * SwapBlockSize + (k % SwapBlockSize) = k
<1>1. IsFiniteSet(sw.bloques) /\ sw.bloques \subseteq Nat
  <2>1. SwapCantBloques - 1 \in Int
    BY ParametrosOK
  <2>2. IsFiniteSet(Bloques) /\ Bloques \subseteq Nat
    BY <2>1, FS_Interval DEF Bloques
  <2>. QED  BY <2>2, FS_Subset
<1>2. /\ k \div SwapBlockSize \in 0 .. CantBloques(sw.tam) - 1
      /\ k % SwapBlockSize \in 0 .. SwapBlockSize - 1
  BY CantBloquesAcota
<1>3. \E b \in sw.bloques : Orden(b, sw.bloques) = k \div SwapBlockSize
  BY <1>1, <1>2, OrdenBiyeccion
<1>4. BloqueDe(sw, k) \in sw.bloques /\ Orden(BloqueDe(sw, k), sw.bloques) = k \div SwapBlockSize
  BY <1>3 DEF BloqueDe
<1>5. (k \div SwapBlockSize) * SwapBlockSize + (k % SwapBlockSize) = k
  <2>1. \A x \in Nat, y \in Nat : y > 0 => (x \div y) * y + (x % y) = x
    OBVIOUS
  <2>2. k \in Nat /\ SwapBlockSize \in Nat /\ SwapBlockSize > 0
    BY ParametrosOK DEF Tams
  <2>. QED  BY <2>1, <2>2
<1>. QED  BY <1>2, <1>4, <1>5

\* A segment copied to its blocks is there.
LEMMA BytesCopiados ==
  ASSUME NEW w, w.tam \in Tams, w.bloques \subseteq Bloques,
         Cardinality(w.bloques) = CantBloques(w.tam), NEW c,
         c = [k \in 0 .. w.tam - 1 |-> c[k]], disco' = Copiados(w.bloques, c)
  PROVE  BytesSwap(w)' = c
<1>1. ASSUME NEW k \in 0 .. w.tam - 1
      PROVE  disco'[BloqueDe(w, k)][k % SwapBlockSize] = c[k]
  <2>. DEFINE b == BloqueDe(w, k)
              o == k % SwapBlockSize
  <2>1. /\ b \in w.bloques /\ b \in Bloques /\ o \in 0 .. SwapBlockSize - 1
        /\ Orden(b, w.bloques) * SwapBlockSize + o = k
    BY BloqueDeBien
  <2>. HIDE DEF b, o
  <2>2. disco'[b][o] = LET j == Orden(b, w.bloques) * SwapBlockSize + o
                       IN IF j \in DOMAIN c THEN c[j] ELSE 0
    BY <2>1 DEF Copiados
  <2>. QED  BY <2>1, <2>2 DEF b, o
<1>2. BytesSwap(w)' = [k \in 0 .. w.tam - 1 |-> disco'[BloqueDe(w, k)][k % SwapBlockSize]]
  BY DEF BytesSwap, BloqueDe, Orden
<1>. QED  BY <1>1, <1>2

\* Blocks that are not written keep what they have.
LEMMA BytesSwapAparte ==
  ASSUME NEW sw, sw.tam \in Tams, sw.bloques \subseteq Bloques,
         Cardinality(sw.bloques) = CantBloques(sw.tam),
         \A b \in sw.bloques : disco'[b] = disco[b]
  PROVE  BytesSwap(sw)' = BytesSwap(sw)
<1>1. \A k \in 0 .. sw.tam - 1 : BloqueDe(sw, k) \in sw.bloques
  BY BloqueDeBien
<1>2. BytesSwap(sw)' = [k \in 0 .. sw.tam - 1 |-> disco'[BloqueDe(sw, k)][k % SwapBlockSize]]
  BY DEF BytesSwap, BloqueDe, Orden
<1>. QED  BY <1>1, <1>2 DEF BytesSwap

-----------------------------------------------------------------------------
(* What the steps are for the promise: each changes the pieces of one process *)

\* The variable of the promise
Mem == [p \in Pids |-> Contenido(p)]

\* What TrozosBien is about, before and after a step
Legible == \A p \in Pids : TrozosBien(p)

LEMMA NadieNota ==
  ASSUME Legible, Legible', \A p \in Pids : Trozos(p)' = Trozos(p)
  PROVE  Mem' = Mem
<1>1. \A p \in Pids : Contenido(p)' = Contenido(p)
  BY MismoContenido DEF Legible
<1>. QED  BY <1>1 DEF Mem

LEMMA NotaUno ==
  ASSUME Legible, Legible', NEW p \in Pids, NEW c, Contenido(p)' = c,
         \A q \in Pids : q # p => Trozos(q)' = Trozos(q)
  PROVE  Mem' = [Mem EXCEPT ![p] = c]
<1>1. \A q \in Pids : q # p => Contenido(q)' = Contenido(q)
  BY MismoContenido DEF Legible
<1>. QED  BY <1>1 DEF Mem

\* A new piece
LEMMA PromesaCrear ==
  ASSUME Legible, Legible', NEW p \in Pids, NEW i \in Ids, NEW c \in Promesa!Segmentos,
         \A t \in Trozos(p) : t[1] # i, Trozos(p)' = Trozos(p) \cup {<<i, c>>},
         \A q \in Pids : q # p => Trozos(q)' = Trozos(q)
  PROVE  Promesa!Crear(p, i)
<1>. DEFINE f == Contenido(p)
            g == Contenido(p)'
            T == Trozos(p)
            U == T \cup {<<i, c>>}
<1>1. /\ f = [j \in {t[1] : t \in T} |-> f[j]] /\ \A t \in T : f[t[1]] = t[2]
      /\ g = [j \in {t[1] : t \in U} |-> g[j]] /\ \A t \in U : g[t[1]] = t[2]
  BY DEF Legible, TrozosBien
<1>2. \A t \in T : t[1] # i
  OBVIOUS
<1>3. g = Promesa!Con(f, i, c) /\ i \notin DOMAIN f
  <2>. HIDE DEF f, g, T
  <2>1. {t[1] : t \in U} = {t[1] : t \in T} \cup {i}
    <3>1. <<i, c>>[1] = i /\ <<i, c>> \in U
      OBVIOUS
    <3>2. \A t \in U : t \in T \/ t = <<i, c>>
      OBVIOUS
    <3>3. T \subseteq U
      OBVIOUS
    <3>. HIDE DEF U
    <3>. QED  BY <3>1, <3>2, <3>3
  <2>2. g[i] = c
    <3>1. <<i, c>> \in U
      OBVIOUS
    <3>. QED  BY <1>1, <3>1
  <2>3. DOMAIN f = {t[1] : t \in T} /\ i \notin DOMAIN f
    BY <1>1, <1>2
  <2>4. \A j \in DOMAIN f : j # i /\ g[j] = f[j]
    BY <1>1, <2>3
  <2>5. Promesa!Con(f, i, c) = [j \in DOMAIN f \cup {i} |-> IF j = i THEN c ELSE f[j]]
    BY DEF Promesa!Con
  <2>6. g = [j \in DOMAIN f \cup {i} |-> g[j]]
    BY <1>1, <2>1, <2>3
  <2>. HIDE DEF U
  <2>. QED  BY <2>2, <2>3, <2>4, <2>5, <2>6
<1>4. Mem' = [Mem EXCEPT ![p] = Promesa!Con(f, i, c)]
  BY <1>3, NotaUno
<1>5. Mem[p] = f
  BY DEF Mem
<1>. HIDE DEF f
<1>. QED  BY <1>3, <1>4, <1>5 DEF Promesa!Crear, Mem

\* One piece less
LEMMA PromesaEliminar ==
  ASSUME Legible, Legible', NEW p \in Pids, NEW i \in Ids, NEW c,
         <<i, c>> \in Trozos(p), Trozos(p)' = {t \in Trozos(p) : t[1] # i},
         \A q \in Pids : q # p => Trozos(q)' = Trozos(q)
  PROVE  Promesa!Eliminar(p, i)
<1>. DEFINE f == Contenido(p)
            g == Contenido(p)'
            T == Trozos(p)
            U == {t \in T : t[1] # i}
<1>1. /\ f = [j \in {t[1] : t \in T} |-> f[j]] /\ \A t \in T : f[t[1]] = t[2]
      /\ g = [j \in {t[1] : t \in U} |-> g[j]] /\ \A t \in U : g[t[1]] = t[2]
  BY DEF Legible, TrozosBien
<1>2. <<i, c>> \in T
  OBVIOUS
<1>3. g = Promesa!Sin(f, i) /\ i \in DOMAIN f
  <2>. HIDE DEF f, g, T
  <2>1. {t[1] : t \in U} = {t[1] : t \in T} \ {i}
    OBVIOUS
  <2>2. DOMAIN f = {t[1] : t \in T} /\ i \in DOMAIN f
    BY <1>1, <1>2
  <2>3. \A j \in DOMAIN f \ {i} : g[j] = f[j]
    BY <1>1, <2>2
  <2>4. g = [j \in DOMAIN f \ {i} |-> g[j]]
    BY <1>1, <2>1, <2>2
  <2>. HIDE DEF U
  <2>. QED  BY <2>2, <2>3, <2>4 DEF Promesa!Sin
<1>4. Mem' = [Mem EXCEPT ![p] = Promesa!Sin(f, i)]
  BY <1>3, NotaUno
<1>5. Mem[p] = f
  BY DEF Mem
<1>. HIDE DEF f
<1>. QED  BY <1>3, <1>4, <1>5 DEF Promesa!Eliminar, Mem

\* One piece is written.
LEMMA PromesaEscribir ==
  ASSUME Legible, Legible', NEW p \in Pids, NEW i \in Ids, NEW c, NEW t \in Nat,
         c = [k \in 0 .. t - 1 |-> c[k]], <<i, c>> \in Trozos(p),
         NEW d \in Nat, NEW n \in Nat, NEW v, d + n <= t, NEW w,
         w = [k \in 0 .. t - 1 |-> IF k \in d .. d + n - 1 THEN v ELSE c[k]],
         Trozos(p)' = {x \in Trozos(p) : x[1] # i} \cup {<<i, w>>},
         \A q \in Pids : q # p => Trozos(q)' = Trozos(q)
  PROVE  Promesa!Escribir(p, i, d, n, v)
<1>. DEFINE f == Contenido(p)
            g == Contenido(p)'
            T == Trozos(p)
            U == {x \in T : x[1] # i} \cup {<<i, w>>}
<1>1. /\ f = [j \in {x[1] : x \in T} |-> f[j]] /\ \A x \in T : f[x[1]] = x[2]
      /\ g = [j \in {x[1] : x \in U} |-> g[j]] /\ \A x \in U : g[x[1]] = x[2]
  BY DEF Legible, TrozosBien
<1>2. <<i, c>> \in T
  OBVIOUS
<1>3. g = [f EXCEPT ![i] = w] /\ i \in DOMAIN f /\ f[i] = c
  <2>. HIDE DEF f, g, T
  <2>1. {x[1] : x \in U} = {x[1] : x \in T}
    <3>1. <<i, w>>[1] = i /\ <<i, w>> \in U /\ <<i, c>>[1] = i
      OBVIOUS
    <3>2. \A x \in U : x \in T \/ x = <<i, w>>
      OBVIOUS
    <3>3. \A x \in T : x \in U \/ x[1] = i
      OBVIOUS
    <3>. HIDE DEF U
    <3>. QED  BY <1>2, <3>1, <3>2, <3>3
  <2>2. DOMAIN f = {x[1] : x \in T} /\ i \in DOMAIN f /\ f[i] = c
    <3>1. <<i, c>>[1] = i /\ <<i, c>>[2] = c
      OBVIOUS
    <3>2. DOMAIN f = {x[1] : x \in T}
      BY <1>1
    <3>. QED  BY <1>1, <1>2, <3>1, <3>2
  <2>3. g[i] = w
    <3>1. <<i, w>> \in U
      OBVIOUS
    <3>. QED  BY <1>1, <3>1
  <2>4. \A j \in DOMAIN f \ {i} : g[j] = f[j]
    BY <1>1, <2>2, SMTT(40)
  <2>5. g = [j \in DOMAIN f |-> g[j]]
    BY <1>1, <2>1, <2>2
  <2>. HIDE DEF U
  <2>. QED  BY <2>2, <2>3, <2>4, <2>5
<1>4. Mem' = [Mem EXCEPT ![p] = [f EXCEPT ![i] = w]]
  BY <1>3, NotaUno
<1>5. Mem[p] = f
  BY DEF Mem
<1>6. DOMAIN c = 0 .. t - 1 /\ \A k \in d .. d + n - 1 : k \in DOMAIN c
  OBVIOUS
<1>7. w = [k \in DOMAIN c |-> IF k \in d .. d + n - 1 THEN v ELSE c[k]]
  BY <1>6
<1>. HIDE DEF f
<1>8. Mem' = [Mem EXCEPT ![p][i] =
                [k \in DOMAIN @ |-> IF k \in d .. d + n - 1 THEN v ELSE @[k]]]
  BY <1>3, <1>4, <1>5, <1>7
<1>. QED  BY <1>3, <1>5, <1>6, <1>8 DEF Promesa!Escribir, Mem

\* No piece is left.
LEMMA PromesaFinalizar ==
  ASSUME Legible, Legible', NEW p \in Pids, Trozos(p)' = {},
         \A q \in Pids : q # p => Trozos(q)' = Trozos(q)
  PROVE  Promesa!Finalizar(p)
<1>1. Contenido(p)' = [j \in {} |-> 0]
  <2>1. Contenido(p)' = [j \in {} |-> Contenido(p)'[j]]
    BY DEF Legible, TrozosBien
  <2>. QED  BY <2>1
<1>2. Mem' = [Mem EXCEPT ![p] = [j \in {} |-> 0]]
  BY <1>1, NotaUno
<1>. QED  BY <1>2 DEF Promesa!Finalizar, Mem

-----------------------------------------------------------------------------
(* What each action is for the promise *)

\* A CPU has the table of its process as it is: what changes it waits for the burst
\* to end, or is a compaction, which waits for every burst.
InvCache ==
  /\ \A p \in en_cpu : cache[p] = tabla[p]
  /\ pedido.paso \in {"mueve", "reintenta"} => en_cpu = {}

\* Where numbers are not repeated
InvPromesa == IndMemoria /\ IdsUnicos /\ TablaBien /\ InvCache

LEMMA TrozosQuietos ==
  ASSUME UNCHANGED <<segmentos, segmentos_swap, ram, disco>>
  PROVE  \A p \in Pids : Trozos(p)' = Trozos(p)
BY DEF Trozos, Presentes, EnSwap, De, Bytes, BytesSwap, BloqueDe, Orden

\* The bytes do not change, and the segments of q neither.
LEMMA TrozosDeOtro ==
  ASSUME NEW q, De(segmentos', q) = De(segmentos, q), De(segmentos_swap', q) = De(segmentos_swap, q),
         UNCHANGED <<ram, disco>>
  PROVE  Trozos(q)' = Trozos(q)
<1>1. /\ \A s \in Presentes(q) : Bytes(s)' = Bytes(s)
      /\ \A sw \in De(segmentos_swap, q) : BytesSwap(sw)' = BytesSwap(sw)
  BY DEF Bytes, BytesSwap, BloqueDe, Orden
<1>. QED  BY <1>1, TrozosIguales

LEMMA TrozosFinalizar ==
  ASSUME InvPromesa, Legible, Legible', NEW p \in Pids, FinalizarProceso(p)
  PROVE  Promesa!Finalizar(p)
<1>1. /\ segmentos' = segmentos \ De(segmentos, p)
      /\ segmentos_swap' = segmentos_swap \ De(segmentos_swap, p)
      /\ UNCHANGED <<ram, disco>>
  BY DEF FinalizarProceso
<1>2. De(segmentos', p) = {} /\ De(segmentos_swap', p) = {}
  BY <1>1 DEF De
<1>3. Trozos(p)' = {}
  BY <1>2 DEF Trozos, Presentes, De
<1>4. \A q \in Pids : q # p => /\ De(segmentos', q) = De(segmentos, q)
                               /\ De(segmentos_swap', q) = De(segmentos_swap, q)
  BY <1>1 DEF De
<1>. QED  BY <1>1, <1>3, <1>4, TrozosDeOtro, PromesaFinalizar

\* The pieces of a process with everything in memory, or with everything in SWAP
LEMMA TrozosEnMemoria ==
  ASSUME IdsUnicos, pedido.paso \notin {"reserva", "restaura"}, NEW p
  PROVE  /\ Presentes(p) = De(segmentos, p)
         /\ Trozos(p) = {<<sw.id, BytesSwap(sw)>> : sw \in De(segmentos_swap, p)}
                        \cup {<<s.id, Bytes(s)>> : s \in De(segmentos, p)}
<1>1. Presentes(p) = De(segmentos, p)
  BY NadaEnSwap DEF Presentes, De
<1>. QED  BY <1>1 DEF Trozos

LEMMA TrozosAlta ==
  ASSUME InvPromesa, InvPromesa', Legible, Legible', NEW p \in Pids, NEW i \in Ids, NEW t \in Tams,
         Alta(p, i, t), De(segmentos_swap, p) = {}, \A s \in De(segmentos, p) : s.id # i,
         UNCHANGED <<segmentos_swap, ram, disco>>,
         pedido.paso \notin {"reserva", "restaura"}, pedido'.paso = "libre"
  PROVE  Promesa!Crear(p, i)
<1>1. PICK s \in SegmentosT :
        /\ s.pid = p /\ s.id = i /\ s.tam = t /\ s \notin segmentos
        /\ segmentos' = segmentos \cup {s}
  BY EfectoAlta DEF InvPromesa, IndMemoria
<1>2. \A q \in Pids : q # p => /\ De(segmentos', q) = De(segmentos, q)
                               /\ De(segmentos_swap', q) = De(segmentos_swap, q)
  BY <1>1 DEF De
<1>3. De(segmentos', p) = De(segmentos, p) \cup {s} /\ De(segmentos_swap', p) = {}
  BY <1>1 DEF De
<1>4. Presentes(p) = De(segmentos, p)
  BY TrozosEnMemoria DEF InvPromesa
<1>5. Presentes(p)' = De(segmentos', p)
  BY <1>3 DEF Presentes, De, EnSwap
<1>6. Trozos(p)' = Trozos(p) \cup {<<i, Bytes(s)>>}
  <2>1. \A r : Bytes(r)' = Bytes(r)
    BY DEF Bytes
  <2>2. Trozos(p) = {<<r.id, Bytes(r)>> : r \in De(segmentos, p)}
    BY <1>4 DEF Trozos
  <2>3. Trozos(p)' = {<<r.id, Bytes(r)'>> : r \in Presentes(p)'}
    BY <1>3 DEF Trozos, De
  <2>. HIDE DEF Bytes, Trozos, Presentes, De
  <2>. QED  BY <1>1, <1>3, <1>5, <2>1, <2>2, <2>3
<1>7. \A x \in Trozos(p) : x[1] # i
  BY <1>4 DEF Trozos
<1>8. Bytes(s) \in Promesa!Segmentos
  <2>1. s \in segmentos' /\ InvTipos' /\ SinSolape' /\ InvDatos'
    BY <1>1 DEF InvPromesa, IndMemoria, InvMemoria
  <2>2. s.base \in Nat /\ s.tam \in Nat /\ s.base + s.tam <= MaxMemoria /\ MaxMemoria \in Nat
    BY <2>1, ParametrosOK DEF InvTipos, SegmentosT, Tams, SinSolape, Fin, InvDatos
  <2>3. \A k \in 0 .. s.tam - 1 : s.base + k \in Dirs
    BY <2>2 DEF Dirs
  <2>4. \A k \in 0 .. s.tam - 1 : ram[s.base + k] \in Valores
    BY <2>3 DEF InvPromesa, IndMemoria, InvDatos
  <2>5. Bytes(s) \in [0 .. t - 1 -> Valores]
    BY <1>1, <2>4 DEF Bytes
  <2>6. t \in 1 .. SegmentMaxSize
    BY DEF Tams
  <2>. HIDE DEF Bytes
  <2>. QED  BY <2>5, <2>6 DEF Promesa!Segmentos
<1>9. \A q \in Pids : q # p => Trozos(q)' = Trozos(q)
  BY <1>2, TrozosDeOtro
<1>. QED  BY <1>6, <1>7, <1>8, <1>9, PromesaCrear

LEMMA TrozosEliminar ==
  ASSUME InvPromesa, InvPromesa', Legible, Legible', NEW p \in Pids, NEW i \in Ids,
         EliminarSegmento(p, i)
  PROVE  Promesa!Eliminar(p, i)
<1>1. PICK s \in Primero(De(segmentos, p), i) : segmentos' = segmentos \ {s}
  BY DEF EliminarSegmento
<1>2. /\ pedido.paso = "libre" /\ pedido' = pedido /\ UNCHANGED <<segmentos_swap, ram, disco>>
  BY DEF EliminarSegmento, swap
<1>3. s \in segmentos /\ s.pid = p /\ s.id = i /\ s \in De(segmentos, p)
  BY DEF Primero, De
<1>4. \A q \in Pids : q # p => /\ De(segmentos', q) = De(segmentos, q)
                               /\ De(segmentos_swap', q) = De(segmentos_swap, q)
  BY <1>1, <1>2, <1>3 DEF De
<1>5. Trozos(p) = {<<sw.id, BytesSwap(sw)>> : sw \in De(segmentos_swap, p)}
                  \cup {<<r.id, Bytes(r)>> : r \in De(segmentos, p)}
  BY <1>2, TrozosEnMemoria DEF InvPromesa
<1>6. Trozos(p)' = {<<sw.id, BytesSwap(sw)>> : sw \in De(segmentos_swap, p)}
                   \cup {<<r.id, Bytes(r)>> : r \in De(segmentos, p) \ {s}}
  <2>1. De(segmentos', p) = De(segmentos, p) \ {s} /\ De(segmentos_swap', p) = De(segmentos_swap, p)
    BY <1>1, <1>2 DEF De
  <2>2. Presentes(p)' = De(segmentos', p)
    <3>1. \A r \in segmentos : ~EnSwap(r)
      BY <1>2, NadaEnSwap DEF InvPromesa
    <3>2. \A r \in segmentos : EnSwap(r)' <=> EnSwap(r)
      BY <1>2 DEF EnSwap
    <3>. QED  BY <1>1, <3>1, <3>2 DEF Presentes, De
  <2>3. (\A r : Bytes(r)' = Bytes(r)) /\ (\A r : BytesSwap(r)' = BytesSwap(r))
    BY <1>2 DEF Bytes, BytesSwap, BloqueDe, Orden
  <2>4. Trozos(p)' = {<<sw.id, BytesSwap(sw)'>> : sw \in De(segmentos_swap', p)}
                     \cup {<<r.id, Bytes(r)'>> : r \in Presentes(p)'}
    BY DEF Trozos, De
  <2>. QED  BY <2>1, <2>2, <2>3, <2>4
<1>7. /\ \A r \in De(segmentos, p) \ {s} : r.id # i
      /\ \A sw \in De(segmentos_swap, p) : sw.id # i
  BY <1>2, <1>3 DEF InvPromesa, IdsUnicos, De
<1>8. Trozos(p)' = {t \in Trozos(p) : t[1] # i} /\ <<i, Bytes(s)>> \in Trozos(p)
  <2>. HIDE DEF Bytes, BytesSwap, Trozos, De
  <2>1. <<i, Bytes(s)>>[1] = i
    OBVIOUS
  <2>. QED  BY <1>3, <1>5, <1>6, <1>7, <2>1
<1>9. \A q \in Pids : q # p => Trozos(q)' = Trozos(q)
  BY <1>2, <1>4, TrozosDeOtro
<1>. QED  BY <1>8, <1>9, PromesaEliminar

\* Segments that move, go to SWAP or come back take their bytes along: nobody can tell.
LEMMA TrozosMover ==
  ASSUME InvPromesa, InvPromesa', MoverSegmento
  PROVE  \A q \in Pids : Trozos(q)' = Trozos(q)
<1>1. PICK s \in pedido.resto, n \in SegmentosT :
        /\ s \in segmentos /\ n \notin segmentos \ {s}
        /\ n.pid = s.pid /\ n.id = s.id /\ n.nro = s.nro /\ n.tam = s.tam
        /\ n.base = pedido.prox /\ segmentos' = (segmentos \ {s}) \cup {n}
        /\ \/ n = s /\ UNCHANGED <<tabla, ram>>
           \/ /\ tabla' = [tabla EXCEPT ![s.pid] = ConBase(@, s.id, pedido.prox)]
              /\ ram' = Escritos(pedido.prox, Bytes(s))
        /\ pedido' = [pedido EXCEPT !.resto = @ \ {s}, !.prox = @ + s.tam]
  BY EfectoMover DEF InvPromesa, IndMemoria
<1>2. /\ pedido.paso = "mueve" /\ UNCHANGED <<segmentos_swap, disco, memoria_total>>
  BY DEF MoverSegmento, swap
<1>3. CASE n = s /\ UNCHANGED <<tabla, ram>>
  <2>1. segmentos' = segmentos
    BY <1>1, <1>3
  <2>. QED  BY <1>2, <1>3, <2>1, TrozosQuietos
<1>4. CASE ram' = Escritos(pedido.prox, Bytes(s))
  <2>1. /\ InvTipos /\ SinSolape /\ InvDatos /\ InvTipos' /\ SinSolape' /\ InvDatos'
    BY DEF InvPromesa, IndMemoria, InvMemoria
  <2>2. /\ n.base \in Nat /\ n.tam \in Nat /\ n.tam > 0 /\ s.tam = n.tam
        /\ n.base + n.tam <= MaxMemoria /\ n.base = pedido.prox
    <3>1. Fin(n) <= memoria_total /\ memoria_total <= MaxMemoria /\ memoria_total \in Nat
      BY <1>1, <1>2, <2>1 DEF SinSolape, InvDatos, InvTipos
    <3>. QED  BY <1>1, <3>1, ParametrosOK DEF SegmentosT, Tams, Fin
  <2>3. Bytes(n)' = Bytes(s)
    <3>1. Bytes(s) = [k \in 0 .. n.tam - 1 |-> Bytes(s)[k]]
      BY <2>2 DEF Bytes
    <3>2. PICK c : c = Bytes(s)
      OBVIOUS
    <3>3. ram' = Escritos(n.base, c) /\ c = [k \in 0 .. n.tam - 1 |-> c[k]]
      BY <1>4, <2>2, <3>1, <3>2
    <3>. QED  BY <2>2, <3>2, <3>3, BytesEscritos
  <2>4. ASSUME NEW r \in segmentos \ {s} PROVE Bytes(r)' = Bytes(r)
    <3>1. Fin(r) <= n.base \/ Fin(n) <= r.base
      BY <1>1, <2>1 DEF SinSolape, Disjuntos
    <3>2. Fin(r) <= pedido.prox \/ pedido.prox + n.tam <= r.base
      BY <2>2, <3>1 DEF Fin
    <3>3. PICK c : c = Bytes(s)
      OBVIOUS
    <3>4. ram' = Escritos(pedido.prox, c) /\ DOMAIN c = 0 .. n.tam - 1 /\ pedido.prox \in Nat
      BY <1>4, <2>2, <3>3 DEF Bytes
    <3>. QED  BY <2>1, <2>2, <3>2, <3>4, BytesAparte
  <2>5. ASSUME NEW q \in Pids PROVE Trozos(q)' = Trozos(q)
    <3>1. Presentes(q) = De(segmentos, q)
      BY <1>2, TrozosEnMemoria DEF InvPromesa
    <3>2. Presentes(q)' = De(segmentos', q)
      <4>1. pedido'.paso = "mueve"
        BY <1>1, <1>2, <2>1 DEF InvTipos, PedidosT
      <4>2. \A r \in segmentos' : ~EnSwap(r)'
        BY <4>1 DEF InvPromesa, IdsUnicos, EnSwap
      <4>. QED  BY <4>2 DEF Presentes, De
    <3>3. \A sw : BytesSwap(sw)' = BytesSwap(sw)
      BY <1>2 DEF BytesSwap, BloqueDe, Orden
    <3>4. De(segmentos_swap', q) = De(segmentos_swap, q)
      BY <1>2 DEF De
    <3>5. {<<r.id, Bytes(r)'>> : r \in De(segmentos', q)} = {<<r.id, Bytes(r)>> : r \in De(segmentos, q)}
      <4>1. CASE q # s.pid
        <5>1. De(segmentos', q) = De(segmentos, q) /\ De(segmentos, q) \subseteq segmentos \ {s}
          BY <1>1, <4>1 DEF De
        <5>. HIDE DEF Bytes
        <5>. QED  BY <2>4, <5>1
      <4>2. CASE q = s.pid
        <5>1. /\ De(segmentos', q) = (De(segmentos, q) \ {s}) \cup {n} /\ s \in De(segmentos, q)
              /\ De(segmentos, q) \ {s} \subseteq segmentos \ {s}
          BY <1>1, <4>2 DEF De
        <5>2. <<n.id, Bytes(n)'>> = <<s.id, Bytes(s)>>
          BY <1>1, <2>3
        <5>. DEFINE M == De(segmentos, q) \ {s}
        <5>3. \A r \in M : <<r.id, Bytes(r)'>> = <<r.id, Bytes(r)>>
          BY <2>4, <5>1
        <5>4. De(segmentos', q) = M \cup {n} /\ De(segmentos, q) = M \cup {s}
          BY <5>1
        <5>. HIDE DEF Bytes, M
        <5>. QED  BY <5>2, <5>3, <5>4
      <4>. QED  BY <4>1, <4>2
    <3>6. Trozos(q)' = {<<sw.id, BytesSwap(sw)'>> : sw \in De(segmentos_swap', q)}
                       \cup {<<r.id, Bytes(r)'>> : r \in Presentes(q)'}
      BY DEF Trozos, De
    <3>. HIDE DEF Bytes, BytesSwap, De, Presentes
    <3>. QED  BY <3>1, <3>2, <3>3, <3>4, <3>5, <3>6 DEF Trozos
  <2>. QED  BY <2>5
<1>. QED  BY <1>1, <1>3, <1>4, SMTT(40)

LEMMA TrozosSuspender ==
  ASSUME InvPromesa, InvPromesa', SuspenderSegmento
  PROVE  \A q \in Pids : Trozos(q)' = Trozos(q)
<1>1. PICK s \in pedido.resto, w \in SwapT :
        /\ s \in segmentos /\ s.pid = pedido.pid /\ s \in SegmentosT
        /\ w.pid = s.pid /\ w.id = s.id /\ w.nro = s.nro /\ w.tam = s.tam
        /\ w.bloques = Reservables(CantBloques(s.tam))
        /\ disco' = Copiados(w.bloques, Bytes(s))
        /\ segmentos_swap' = segmentos_swap \cup {w} /\ segmentos' = segmentos \ {s}
  BY EfectoSuspender DEF InvPromesa, IndMemoria
<1>2. pedido.paso = "suspende" /\ ram' = ram
  BY DEF SuspenderSegmento
<1>3. \A r \in segmentos : ~EnSwap(r)
  BY <1>2, NadaEnSwap DEF InvPromesa
<1>4. w \notin segmentos_swap
  BY <1>1, <1>3 DEF EnSwap
<1>5. /\ \A x \in segmentos_swap' : /\ x.tam \in Tams /\ x.bloques \subseteq Bloques
                                    /\ Cardinality(x.bloques) = CantBloques(x.tam)
      /\ \A x \in segmentos_swap : x.bloques \cap w.bloques = {}
  <2>1. BloquesConDueno' /\ InvTipos'
    BY DEF InvPromesa, IndMemoria, InvBloques, InvMemoria
  <2>. QED  BY <1>1, <1>4, <2>1 DEF BloquesConDueno, CantBloques, InvTipos, SwapT
<1>6. BytesSwap(w)' = Bytes(s)
  <2>1. PICK c : c = Bytes(s)
    OBVIOUS
  <2>2. c = [k \in 0 .. w.tam - 1 |-> c[k]] /\ disco' = Copiados(w.bloques, c)
    BY <1>1, <2>1 DEF Bytes
  <2>3. /\ w.tam \in Tams /\ w.bloques \subseteq Bloques
        /\ Cardinality(w.bloques) = CantBloques(w.tam)
    BY <1>1, <1>5
  <2>. QED  BY <2>1, <2>2, <2>3, BytesCopiados
<1>7. ASSUME NEW x \in segmentos_swap PROVE BytesSwap(x)' = BytesSwap(x)
  <2>1. \A b \in x.bloques : disco'[b] = disco[b]
    BY <1>1, <1>5 DEF Copiados
  <2>2. /\ x.tam \in Tams /\ x.bloques \subseteq Bloques
        /\ Cardinality(x.bloques) = CantBloques(x.tam)
    BY <1>1, <1>5
  <2>. QED  BY <2>1, <2>2, BytesSwapAparte
<1>8. \A r : Bytes(r)' = Bytes(r)
  BY <1>2 DEF Bytes
<1>9. ASSUME NEW q \in Pids PROVE Trozos(q)' = Trozos(q)
  <2>1. CASE q # s.pid
    <3>1. /\ De(segmentos', q) = De(segmentos, q)
          /\ De(segmentos_swap', q) = De(segmentos_swap, q)
          /\ De(segmentos_swap, q) \subseteq segmentos_swap
      BY <1>1, <2>1 DEF De
    <3>. QED  BY <1>7, <1>8, <3>1, TrozosIguales
  <2>2. CASE q = s.pid
    <3>1. /\ De(segmentos', q) = De(segmentos, q) \ {s} /\ s \in De(segmentos, q)
          /\ De(segmentos_swap', q) = De(segmentos_swap, q) \cup {w}
          /\ De(segmentos_swap, q) \subseteq segmentos_swap
      BY <1>1, <2>2 DEF De
    <3>2. Presentes(q)' = De(segmentos', q)
      <4>1. \A r \in De(segmentos', q) : ~EnSwap(r)'
        <5>1. \A r \in De(segmentos', q) : r \in segmentos /\ r # s /\ r.pid = s.pid
          BY <1>1, <2>2 DEF De
        <5>2. \A r \in De(segmentos', q) : ~EnSwap(r) /\ r.id # w.id
          BY <1>1, <1>3, <5>1 DEF InvPromesa, IdsUnicos
        <5>. QED  BY <1>1, <5>2 DEF EnSwap
      <4>. QED  BY <4>1 DEF Presentes, De
    <3>3. Trozos(q) = {<<sw.id, BytesSwap(sw)>> : sw \in De(segmentos_swap, q)}
                      \cup {<<r.id, Bytes(r)>> : r \in De(segmentos, q)}
      BY <1>2, TrozosEnMemoria DEF InvPromesa
    <3>4. Trozos(q)' = {<<sw.id, BytesSwap(sw)'>> : sw \in De(segmentos_swap', q)}
                       \cup {<<r.id, Bytes(r)'>> : r \in Presentes(q)'}
      BY DEF Trozos, De
    <3>. HIDE DEF Bytes, BytesSwap, De, Presentes, Trozos
    <3>5. \A x \in De(segmentos_swap, q) : BytesSwap(x)' = BytesSwap(x)
      BY <1>7, <3>1
    <3>. QED  BY <1>1, <1>6, <3>5, <1>8, <3>1, <3>2, <3>3, <3>4
  <2>. QED  BY <2>1, <2>2
<1>. QED  BY <1>9

LEMMA TrozosReservar ==
  ASSUME InvPromesa, InvPromesa', ReservarSegmento
  PROVE  \A q \in Pids : Trozos(q)' = Trozos(q)
<1>1. /\ pedido.paso = "reserva" /\ UNCHANGED <<segmentos_swap, ram, disco>>
  BY DEF ReservarSegmento, swap
<1>2. pedido.pid \in procesos /\ pedido.hechos = De(segmentos, pedido.pid)
  BY <1>1 DEF InvPromesa, IndMemoria, InvLugar, Mudanza
<1>3. PICK p \in Pids : p = pedido.pid
  BY <1>2 DEF InvPromesa, IndMemoria, InvLugar
<1>4. /\ \A q \in Pids : q # p => De(segmentos', q) = De(segmentos, q)
      /\ \A s \in De(segmentos', p) : EnSwap(s)'
  <2>0. \A s \in De(segmentos, p) : EnSwap(s)
    BY <1>1, <1>2, <1>3 DEF InvPromesa, IdsUnicos
  <2>1. CASE segmentos' = segmentos \ pedido.hechos
    BY <1>2, <1>3, <2>1 DEF De
  <2>2. ASSUME NEW sw \in pedido.resto, NEW s \in SegmentosT,
               sw \in segmentos_swap, sw.pid = pedido.pid,
               s.pid = sw.pid, s.id = sw.id, s.nro = sw.nro, segmentos' = segmentos \cup {s}
        PROVE  /\ \A q \in Pids : q # p => De(segmentos', q) = De(segmentos, q)
               /\ \A r \in De(segmentos', p) : EnSwap(r)'
    <3>1. EnSwap(s)
      BY <2>2 DEF EnSwap
    <3>. QED  BY <1>1, <1>3, <2>0, <2>2, <3>1 DEF De, EnSwap
  <2>. QED  BY <2>1, <2>2, EfectoReservar DEF InvPromesa, IndMemoria
<1>5. Presentes(p) = {} /\ Presentes(p)' = {}
  <2>1. \A s \in De(segmentos, p) : EnSwap(s)
    BY <1>1, <1>2, <1>3 DEF InvPromesa, IdsUnicos
  <2>. QED  BY <1>4, <2>1 DEF Presentes, De
<1>6. ASSUME NEW q \in Pids PROVE Trozos(q)' = Trozos(q)
  <2>1. Presentes(q)' = Presentes(q)
    <3>1. CASE q = p
      BY <1>5, <3>1
    <3>2. CASE q # p
      BY <1>1, <1>4, <3>2, PresentesIguales DEF De
    <3>. QED  BY <3>1, <3>2
  <2>2. (\A r : Bytes(r)' = Bytes(r)) /\ (\A r : BytesSwap(r)' = BytesSwap(r))
    BY <1>1 DEF Bytes, BytesSwap, BloqueDe, Orden
  <2>3. Trozos(q)' = {<<sw.id, BytesSwap(sw)'>> : sw \in De(segmentos_swap', q)}
                     \cup {<<r.id, Bytes(r)'>> : r \in Presentes(q)'}
    BY DEF Trozos, De
  <2>. HIDE DEF Bytes, BytesSwap, Presentes
  <2>. QED  BY <1>1, <2>1, <2>2, <2>3 DEF Trozos
<1>. QED  BY <1>6, SMTT(40)

LEMMA TrozosRestaurar ==
  ASSUME InvPromesa, InvPromesa', RestaurarSegmento
  PROVE  \A q \in Pids : Trozos(q)' = Trozos(q)
<1>1. PICK sw \in pedido.resto, s \in pedido.hechos :
        /\ sw \in segmentos_swap /\ sw.pid = pedido.pid
        /\ s \in segmentos /\ s.pid = pedido.pid /\ s.id = sw.id /\ s.nro = sw.nro
        /\ segmentos_swap' = segmentos_swap \ {sw}
        /\ ram' = Escritos(s.base, BytesSwap(sw))
  BY EfectoRestaurar DEF InvPromesa, IndMemoria
<1>2. /\ pedido.paso = "restaura" /\ segmentos' = segmentos /\ disco' = disco
  BY DEF RestaurarSegmento
<1>3. /\ InvTipos /\ SinSolape /\ InvDatos /\ IdsUnicos
  BY DEF InvPromesa, IndMemoria, InvMemoria
<1>4. /\ s.base \in Nat /\ s.tam \in Nat /\ s.tam > 0 /\ s.tam = sw.tam
      /\ s.base + s.tam <= MaxMemoria
  <2>1. Fin(s) <= memoria_total /\ memoria_total <= MaxMemoria /\ memoria_total \in Nat
    BY <1>1, <1>3 DEF SinSolape, InvDatos, InvTipos
  <2>2. s.tam = sw.tam
    BY <1>1, <1>3 DEF IdsUnicos
  <2>. QED  BY <1>1, <1>3, <2>1, <2>2, ParametrosOK DEF InvTipos, SegmentosT, Tams, Fin
<1>5. PICK c : c = BytesSwap(sw)
  OBVIOUS
<1>6. /\ c = [k \in 0 .. s.tam - 1 |-> c[k]] /\ DOMAIN c = 0 .. s.tam - 1
      /\ ram' = Escritos(s.base, c)
  BY <1>1, <1>4, <1>5 DEF BytesSwap
<1>7. Bytes(s)' = BytesSwap(sw)
  BY <1>4, <1>5, <1>6, BytesEscritos
<1>8. ASSUME NEW r \in segmentos \ {s} PROVE Bytes(r)' = Bytes(r)
  <2>1. Fin(r) <= s.base \/ s.base + s.tam <= r.base
    BY <1>1, <1>3 DEF SinSolape, Disjuntos, Fin
  <2>. QED  BY <1>3, <1>4, <1>6, <2>1, BytesAparte
<1>9. \A x : BytesSwap(x)' = BytesSwap(x)
  BY <1>2 DEF BytesSwap, BloqueDe, Orden
<1>10. ASSUME NEW q \in Pids, q # s.pid PROVE Trozos(q)' = Trozos(q)
  <2>1. /\ De(segmentos', q) = De(segmentos, q)
        /\ De(segmentos_swap', q) = De(segmentos_swap, q)
        /\ Presentes(q) \subseteq segmentos \ {s}
    BY <1>1, <1>2, <1>10 DEF De, Presentes
  <2>. QED  BY <1>8, <1>9, <2>1, TrozosIguales
<1>11. ASSUME NEW q \in Pids, q = s.pid PROVE Trozos(q)' = Trozos(q)
  <2>1. Presentes(q)' = Presentes(q) \cup {s} /\ s \notin Presentes(q)
    <3>1. EnSwap(s) /\ ~EnSwap(s)'
      <4>1. \A x \in segmentos_swap : x.pid = s.pid /\ x.id = s.id => x = sw
        BY <1>1, <1>3 DEF IdsUnicos
      <4>. QED  BY <1>1, <4>1 DEF EnSwap
    <3>2. \A r \in De(segmentos, q) \ {s} : EnSwap(r)' <=> EnSwap(r)
      <4>1. \A r \in De(segmentos, q) \ {s} : r.id # sw.id
        BY <1>1, <1>3, <1>11 DEF IdsUnicos, De
      <4>. QED  BY <1>1, <4>1 DEF EnSwap
    <3>3. De(segmentos', q) = De(segmentos, q) /\ s \in De(segmentos, q)
      BY <1>1, <1>2, <1>11 DEF De
    <3>4. Presentes(q)' = {r \in De(segmentos', q) : ~EnSwap(r)'}
      BY DEF Presentes, De
    <3>. QED  BY <3>1, <3>2, <3>3, <3>4 DEF Presentes
  <2>2. /\ De(segmentos_swap', q) = De(segmentos_swap, q) \ {sw} /\ sw \in De(segmentos_swap, q)
        /\ Presentes(q) \subseteq segmentos
    BY <1>1, <1>11 DEF De, Presentes
  <2>3. Trozos(q)' = {<<x.id, BytesSwap(x)'>> : x \in De(segmentos_swap', q)}
                     \cup {<<r.id, Bytes(r)'>> : r \in Presentes(q)'}
    BY DEF Trozos, De
  <2>4. \A r \in Presentes(q) : Bytes(r)' = Bytes(r)
    BY <1>8, <2>1, <2>2
  <2>. HIDE DEF Bytes, BytesSwap, De, Presentes
  <2>. QED  BY <1>1, <1>7, <1>9, <2>1, <2>2, <2>3, <2>4 DEF Trozos
<1>. QED  BY <1>10, <1>11

\* A segment in memory is written at d .. d + n - 1 with v.
LEMMA TrozosRam ==
  ASSUME InvPromesa, Legible, Legible', NEW p \in Pids, NEW s \in Presentes(p),
         NEW d \in 0 .. SegmentMaxSize - 1, NEW n \in Tams, NEW v \in Valores, d + n <= s.tam,
         ram' = Escritos(s.base + d, Repite(n, v)),
         UNCHANGED <<segmentos, segmentos_swap, disco>>
  PROVE  Promesa!Escribir(p, s.id, d, n, v)
<1>1. /\ InvTipos /\ SinSolape /\ InvDatos /\ IdsUnicos
      /\ s \in segmentos /\ s.pid = p /\ s.id \in Ids
  BY DEF InvPromesa, IndMemoria, InvMemoria, Presentes, De, InvTipos, SegmentosT
<1>2. /\ s.base \in Nat /\ s.tam \in Nat /\ s.tam > 0 /\ s.base + s.tam <= MaxMemoria
      /\ d \in Nat /\ n \in Nat /\ n > 0 /\ MaxMemoria \in Nat
      /\ Fin(s) = s.base + s.tam
  <2>1. Fin(s) <= memoria_total /\ memoria_total <= MaxMemoria /\ memoria_total \in Nat
    BY <1>1 DEF SinSolape, InvDatos, InvTipos
  <2>. QED  BY <1>1, <2>1, ParametrosOK DEF InvTipos, SegmentosT, Tams, Fin
<1>3. PICK c : c = Repite(n, v)
  OBVIOUS
<1>4. /\ DOMAIN c = 0 .. n - 1 /\ \A k \in 0 .. n - 1 : c[k] = v
      /\ ram' = Escritos(s.base + d, c) /\ s.base + d \in Nat
  BY <1>2, <1>3 DEF Repite
<1>5. ASSUME NEW r \in segmentos, r # s PROVE Bytes(r)' = Bytes(r)
  <2>1. Fin(r) <= s.base \/ s.base + s.tam <= r.base
    BY <1>1, <1>2, <1>5 DEF SinSolape, Disjuntos
  <2>2. Fin(r) \in Int /\ r.base \in Int
    BY <1>1 DEF InvTipos, SegmentosT, Tams, Fin
  <2>3. Fin(r) <= s.base + d \/ (s.base + d) + n <= r.base
    BY <1>2, <2>1, <2>2
  <2>. QED  BY <1>1, <1>2, <1>4, <2>3, BytesAparte
<1>6. PICK b : b = Bytes(s)
  OBVIOUS
<1>7. PICK w : w = [k \in 0 .. s.tam - 1 |-> IF k \in d .. d + n - 1 THEN v ELSE b[k]]
  OBVIOUS
<1>8. Bytes(s)' = w
  <2>1. ASSUME NEW k \in 0 .. s.tam - 1
        PROVE  ram'[s.base + k] = IF k \in d .. d + n - 1 THEN v ELSE b[k]
    <3>1. s.base + k \in Dirs /\ k \in Nat /\ k < s.tam
      BY <1>2 DEF Dirs
    <3>2. ram'[s.base + k] = IF (s.base + k) - (s.base + d) \in DOMAIN c
                             THEN c[(s.base + k) - (s.base + d)] ELSE ram[s.base + k]
      BY <1>4, <3>1 DEF Escritos
    <3>3. (s.base + k) - (s.base + d) = k - d
      BY <1>2, <3>1
    <3>4. k - d \in DOMAIN c <=> k \in d .. d + n - 1
      BY <1>2, <1>4, <3>1
    <3>5. b[k] = ram[s.base + k]
      BY <1>6 DEF Bytes
    <3>. QED  BY <1>4, <3>2, <3>3, <3>4, <3>5
  <2>2. Bytes(s)' = [k \in 0 .. s.tam - 1 |-> ram'[s.base + k]]
    BY DEF Bytes
  <2>. QED  BY <1>7, <2>1, <2>2
<1>9. \A x : BytesSwap(x)' = BytesSwap(x)
  BY DEF BytesSwap, BloqueDe, Orden
<1>10. \A q : /\ De(segmentos', q) = De(segmentos, q)
              /\ De(segmentos_swap', q) = De(segmentos_swap, q)
  BY DEF De
<1>11. \A q \in Pids : q # p => Trozos(q)' = Trozos(q)
  <2>1. ASSUME NEW q \in Pids, q # p PROVE Trozos(q)' = Trozos(q)
    <3>1. \A r \in Presentes(q) : r \in segmentos /\ r # s
      BY <1>1, <2>1 DEF Presentes, De
    <3>2. \A r \in Presentes(q) : Bytes(r)' = Bytes(r)
      BY <1>5, <3>1
    <3>. QED  BY <1>9, <1>10, <3>2, TrozosIguales
  <2>. QED  BY <2>1
<1>12. /\ \A r \in Presentes(p) : r # s => r.id # s.id /\ Bytes(r)' = Bytes(r)
       /\ \A x \in De(segmentos_swap, p) : x.id # s.id
  <2>1. \A r \in Presentes(p) : r \in segmentos /\ r.pid = p
    BY DEF Presentes, De
  <2>2. ASSUME NEW x \in De(segmentos_swap, p), x.id = s.id PROVE FALSE
    <3>1. x \in segmentos_swap /\ x.pid = p
      BY DEF De
    <3>2. x.nro = s.nro
      BY <1>1, <2>2, <3>1 DEF IdsUnicos
    <3>. QED  BY <1>1, <2>2, <3>1, <3>2 DEF Presentes, EnSwap
  <2>. QED  BY <1>1, <1>5, <2>1, <2>2 DEF IdsUnicos
<1>13. /\ <<s.id, b>> \in Trozos(p)
       /\ Trozos(p)' = {x \in Trozos(p) : x[1] # s.id} \cup {<<s.id, w>>}
  <2>1. Presentes(p)' = Presentes(p)
    BY <1>10, PresentesIguales
  <2>2. Trozos(p)' = {<<x.id, BytesSwap(x)'>> : x \in De(segmentos_swap', p)}
                     \cup {<<r.id, Bytes(r)'>> : r \in Presentes(p)'}
    BY DEF Trozos, De
  <2>3. Trozos(p)' = {<<x.id, BytesSwap(x)>> : x \in De(segmentos_swap, p)}
                     \cup {<<r.id, Bytes(r)'>> : r \in Presentes(p)}
    <3>. HIDE DEF Bytes, BytesSwap, De, Presentes
    <3>. QED  BY <1>9, <1>10, <2>1, <2>2
  <2>4. /\ \A x : <<x.id, BytesSwap(x)>>[1] = x.id
        /\ \A r : <<r.id, Bytes(r)>>[1] = r.id
    OBVIOUS
  <2>. HIDE DEF Bytes, BytesSwap, De, Presentes
  <2>. DEFINE W == {<<x.id, BytesSwap(x)>> : x \in De(segmentos_swap, p)}
              M == {<<r.id, Bytes(r)>> : r \in Presentes(p) \ {s}}
  <2>5. {<<r.id, Bytes(r)'>> : r \in Presentes(p)} = M \cup {<<s.id, w>>}
    <3>1. \A r \in Presentes(p) \ {s} : <<r.id, Bytes(r)'>> = <<r.id, Bytes(r)>>
      BY <1>12
    <3>2. <<s.id, Bytes(s)'>> = <<s.id, w>>
      BY <1>8
    <3>3. Presentes(p) = (Presentes(p) \ {s}) \cup {s}
      OBVIOUS
    <3>. QED  BY <3>1, <3>2, <3>3
  <2>6. Trozos(p) = W \cup M \cup {<<s.id, b>>}
    <3>1. Presentes(p) = (Presentes(p) \ {s}) \cup {s}
      OBVIOUS
    <3>2. {<<r.id, Bytes(r)>> : r \in Presentes(p)} = M \cup {<<s.id, b>>}
      BY <1>6, <3>1
    <3>. QED  BY <3>2 DEF Trozos
  <2>7. (\A x \in W : x[1] # s.id) /\ (\A x \in M : x[1] # s.id) /\ <<s.id, b>>[1] = s.id
    BY <1>12, <2>4
  <2>8. Trozos(p)' = W \cup M \cup {<<s.id, w>>}
    BY <2>3, <2>5
  <2>. HIDE DEF W, M
  <2>9. {x \in Trozos(p) : x[1] # s.id} = W \cup M
    BY <2>6, <2>7
  <2>. QED  BY <2>6, <2>8, <2>9
<1>14. b = [k \in 0 .. s.tam - 1 |-> b[k]]
  BY <1>6 DEF Bytes
<1>15. PICK i \in Ids, t \in Nat : i = s.id /\ t = s.tam
  BY <1>1, <1>2
<1>16. /\ b = [k \in 0 .. t - 1 |-> b[k]] /\ d + n <= t /\ <<i, b>> \in Trozos(p)
       /\ w = [k \in 0 .. t - 1 |-> IF k \in d .. d + n - 1 THEN v ELSE b[k]]
       /\ Trozos(p)' = {x \in Trozos(p) : x[1] # i} \cup {<<i, w>>}
       /\ d \in Nat /\ n \in Nat
  BY <1>2, <1>7, <1>13, <1>14, <1>15
<1>17. Promesa!Escribir(p, i, d, n, v)
  BY <1>11, <1>16, PromesaEscribir
<1>. QED  BY <1>15, <1>17

\* A segment in SWAP is written.
LEMMA TrozosDisco ==
  ASSUME InvPromesa, Legible, Legible', NEW p \in Pids, NEW sw \in De(segmentos_swap, p),
         NEW d \in 0 .. SegmentMaxSize - 1, NEW n \in Tams, NEW v \in Valores, d + n <= sw.tam,
         disco' = [b \in Bloques |-> [o \in 0 .. SwapBlockSize - 1 |->
               IF \E k \in d .. d + n - 1 : BloqueDe(sw, k) = b /\ k % SwapBlockSize = o
               THEN v ELSE disco[b][o]]],
         UNCHANGED <<segmentos, segmentos_swap, ram>>
  PROVE  Promesa!Escribir(p, sw.id, d, n, v)
<1>1. /\ InvTipos /\ InvDatos /\ IdsUnicos /\ BloquesConDueno
      /\ sw \in segmentos_swap /\ sw.pid = p /\ sw.id \in Ids
  BY DEF InvPromesa, IndMemoria, InvMemoria, InvBloques, De, InvTipos, SwapT
<1>2. \A x \in segmentos_swap : /\ x.tam \in Tams /\ x.bloques \subseteq Bloques
                                /\ Cardinality(x.bloques) = CantBloques(x.tam)
  BY <1>1 DEF InvTipos, SwapT, BloquesConDueno
<1>3. /\ sw.tam \in Nat /\ d \in Nat /\ n \in Nat /\ n > 0
  BY <1>1, <1>2, ParametrosOK DEF Tams
<1>4. \A k \in 0 .. sw.tam - 1 : /\ BloqueDe(sw, k) \in sw.bloques
        /\ k % SwapBlockSize \in 0 .. SwapBlockSize - 1
        /\ Orden(BloqueDe(sw, k), sw.bloques) * SwapBlockSize + (k % SwapBlockSize) = k
  BY <1>1, <1>2, BloqueDeBien
<1>5. ASSUME NEW r \in segmentos_swap, r # sw PROVE BytesSwap(r)' = BytesSwap(r)
  <2>1. \A k \in d .. d + n - 1 : BloqueDe(sw, k) \in sw.bloques
    BY <1>3, <1>4
  <2>2. r.bloques \cap sw.bloques = {} /\ r.bloques \subseteq Bloques
    BY <1>1, <1>2, <1>5 DEF BloquesConDueno
  <2>3. ASSUME NEW b \in r.bloques PROVE disco'[b] = disco[b]
    <3>1. b \in Bloques /\ \A k \in d .. d + n - 1 : BloqueDe(sw, k) # b
      BY <2>1, <2>2
    <3>2. disco'[b] = [o \in 0 .. SwapBlockSize - 1 |-> disco[b][o]]
      BY <3>1
    <3>3. disco[b] \in [0 .. SwapBlockSize - 1 -> Valores]
      BY <1>1, <3>1 DEF InvDatos
    <3>. QED  BY <3>2, <3>3
  <2>. QED  BY <1>2, <2>3, BytesSwapAparte
<1>6. PICK b : b = BytesSwap(sw)
  OBVIOUS
<1>7. PICK w : w = [k \in 0 .. sw.tam - 1 |-> IF k \in d .. d + n - 1 THEN v ELSE b[k]]
  OBVIOUS
<1>8. BytesSwap(sw)' = w
  <2>1. ASSUME NEW k \in 0 .. sw.tam - 1
        PROVE  disco'[BloqueDe(sw, k)][k % SwapBlockSize] =
                 IF k \in d .. d + n - 1 THEN v ELSE b[k]
    <3>. DEFINE a == BloqueDe(sw, k)
                o == k % SwapBlockSize
    <3>1. a \in Bloques /\ o \in 0 .. SwapBlockSize - 1
      BY <1>1, <1>2, <1>4
    <3>2. (\E j \in d .. d + n - 1 : BloqueDe(sw, j) = a /\ j % SwapBlockSize = o)
            <=> k \in d .. d + n - 1
      <4>1. ASSUME NEW j \in d .. d + n - 1, BloqueDe(sw, j) = a, j % SwapBlockSize = o
            PROVE  j = k
        <5>1. j \in 0 .. sw.tam - 1
          BY <1>3
        <5>2. /\ Orden(BloqueDe(sw, j), sw.bloques) * SwapBlockSize + (j % SwapBlockSize) = j
              /\ Orden(a, sw.bloques) * SwapBlockSize + o = k
          BY <1>4, <5>1
        <5>. HIDE DEF a, o
        <5>. QED  BY <4>1, <5>2
      <4>. QED  BY <4>1
    <3>3. disco'[a][o] = IF \E j \in d .. d + n - 1 : BloqueDe(sw, j) = a /\ j % SwapBlockSize = o
                         THEN v ELSE disco[a][o]
      <4>. HIDE DEF a, o
      <4>. QED  BY <3>1
    <3>4. b[k] = disco[a][o]
      BY <1>6 DEF BytesSwap
    <3>5. disco'[a][o] = IF k \in d .. d + n - 1 THEN v ELSE b[k]
      <4>. HIDE DEF a, o
      <4>. QED  BY <3>2, <3>3, <3>4
    <3>. QED  BY <3>5
  <2>2. BytesSwap(sw)' = [k \in 0 .. sw.tam - 1 |-> disco'[BloqueDe(sw, k)][k % SwapBlockSize]]
    BY DEF BytesSwap, BloqueDe, Orden
  <2>. HIDE DEF BloqueDe
  <2>. QED  BY <1>7, <2>1, <2>2
<1>9. \A x : Bytes(x)' = Bytes(x)
  BY DEF Bytes
<1>10. \A q : /\ De(segmentos', q) = De(segmentos, q)
              /\ De(segmentos_swap', q) = De(segmentos_swap, q)
  BY DEF De
<1>11. \A q \in Pids : q # p => Trozos(q)' = Trozos(q)
  <2>1. ASSUME NEW q \in Pids, q # p PROVE Trozos(q)' = Trozos(q)
    <3>1. \A r \in De(segmentos_swap, q) : r \in segmentos_swap /\ r # sw
      BY <1>1, <2>1 DEF De
    <3>2. \A r \in De(segmentos_swap, q) : BytesSwap(r)' = BytesSwap(r)
      BY <1>5, <3>1
    <3>. QED  BY <1>9, <1>10, <3>2, TrozosIguales
  <2>. QED  BY <2>1
<1>12. /\ \A r \in De(segmentos_swap, p) : r # sw => r.id # sw.id /\ BytesSwap(r)' = BytesSwap(r)
       /\ \A x \in Presentes(p) : x.id # sw.id
  <2>1. \A r \in De(segmentos_swap, p) : r \in segmentos_swap /\ r.pid = p
    BY DEF De
  <2>2. ASSUME NEW x \in Presentes(p), x.id = sw.id PROVE FALSE
    <3>1. x \in segmentos /\ x.pid = p /\ ~EnSwap(x)
      BY DEF Presentes, De
    <3>2. x.nro = sw.nro
      BY <1>1, <2>2, <3>1 DEF IdsUnicos
    <3>. QED  BY <1>1, <2>2, <3>1, <3>2 DEF EnSwap
  <2>. QED  BY <1>1, <1>5, <2>1, <2>2 DEF IdsUnicos
<1>13. /\ <<sw.id, b>> \in Trozos(p)
       /\ Trozos(p)' = {x \in Trozos(p) : x[1] # sw.id} \cup {<<sw.id, w>>}
  <2>1. Presentes(p)' = Presentes(p)
    BY <1>10, PresentesIguales
  <2>2. Trozos(p)' = {<<x.id, BytesSwap(x)'>> : x \in De(segmentos_swap', p)}
                     \cup {<<r.id, Bytes(r)'>> : r \in Presentes(p)'}
    BY DEF Trozos, De
  <2>3. Trozos(p)' = {<<x.id, BytesSwap(x)'>> : x \in De(segmentos_swap, p)}
                     \cup {<<r.id, Bytes(r)>> : r \in Presentes(p)}
    <3>. HIDE DEF Bytes, BytesSwap, De, Presentes
    <3>. QED  BY <1>9, <1>10, <2>1, <2>2
  <2>4. /\ \A x : <<x.id, BytesSwap(x)>>[1] = x.id
        /\ \A r : <<r.id, Bytes(r)>>[1] = r.id
    OBVIOUS
  <2>. HIDE DEF Bytes, BytesSwap, De, Presentes
  <2>. DEFINE W == {<<x.id, BytesSwap(x)>> : x \in De(segmentos_swap, p) \ {sw}}
              M == {<<r.id, Bytes(r)>> : r \in Presentes(p)}
              D == De(segmentos_swap, p)
  <2>5. {<<r.id, BytesSwap(r)'>> : r \in De(segmentos_swap, p)} = W \cup {<<sw.id, w>>}
    <3>1. \A r \in D \ {sw} : <<r.id, BytesSwap(r)'>> = <<r.id, BytesSwap(r)>>
      BY <1>12
    <3>2. <<sw.id, BytesSwap(sw)'>> = <<sw.id, w>>
      BY <1>8
    <3>3. D = (D \ {sw}) \cup {sw}
      OBVIOUS
    <3>. QED  BY <3>1, <3>2, <3>3
  <2>6. Trozos(p) = W \cup M \cup {<<sw.id, b>>}
    <3>1. D = (D \ {sw}) \cup {sw}
      OBVIOUS
    <3>2. {<<r.id, BytesSwap(r)>> : r \in D} = W \cup {<<sw.id, b>>}
      BY <1>6, <3>1
    <3>. QED  BY <3>2 DEF Trozos
  <2>7. (\A x \in W : x[1] # sw.id) /\ (\A x \in M : x[1] # sw.id) /\ <<sw.id, b>>[1] = sw.id
    BY <1>12, <2>4
  <2>8. Trozos(p)' = W \cup M \cup {<<sw.id, w>>}
    BY <2>3, <2>5
  <2>. HIDE DEF W, M
  <2>9. {x \in Trozos(p) : x[1] # sw.id} = W \cup M
    BY <2>6, <2>7
  <2>. QED  BY <2>6, <2>8, <2>9
<1>14. b = [k \in 0 .. sw.tam - 1 |-> b[k]]
  BY <1>6 DEF BytesSwap
<1>15. PICK i \in Ids, t \in Nat : i = sw.id /\ t = sw.tam
  BY <1>1, <1>3
<1>16. /\ b = [k \in 0 .. t - 1 |-> b[k]] /\ d + n <= t /\ <<i, b>> \in Trozos(p)
       /\ w = [k \in 0 .. t - 1 |-> IF k \in d .. d + n - 1 THEN v ELSE b[k]]
       /\ Trozos(p)' = {x \in Trozos(p) : x[1] # i} \cup {<<i, w>>}
       /\ d \in Nat /\ n \in Nat
  BY <1>3, <1>7, <1>13, <1>14, <1>15
<1>17. Promesa!Escribir(p, i, d, n, v)
  BY <1>11, <1>16, PromesaEscribir
<1>. QED  BY <1>15, <1>17

-----------------------------------------------------------------------------
(* The promise is kept *)

\* The tables of the processes in a burst do not change, and no burst begins.
LEMMA CacheQuieta ==
  ASSUME InvCache, cache' = cache, en_cpu' = en_cpu,
         \A p \in en_cpu : tabla'[p] = tabla[p],
         pedido'.paso \in {"mueve", "reintenta"} =>
           pedido.paso \in {"mueve", "reintenta"} \/ en_cpu = {}
  PROVE  InvCache'
BY DEF InvCache

LEMMA PasoCache == InvMemoria /\ InvDatos /\ InvLugar /\ InvCache /\ [Next]_vars => InvCache'
<1>. SUFFICES ASSUME InvMemoria, InvDatos, InvLugar, InvCache, [Next]_vars PROVE InvCache'
  OBVIOUS
<1>t. tabla \in [Pids -> SUBSET EntradasT] /\ cache \in [Pids -> SUBSET EntradasT]
  BY DEF InvDatos
<1>e. en_cpu \subseteq procesos \ suspendidos /\ en_cpu \subseteq Pids
  BY DEF InvLugar
<1>q. ASSUME UNCHANGED <<tabla, cache, en_cpu, pedido>> PROVE InvCache'
  BY <1>q DEF InvCache
<1>1. ASSUME NEW p \in Pids, NEW i, NEW t, CrearSegmento(p, i, t) PROVE InvCache'
  <2>1. p \notin en_cpu /\ pedido' = pedido /\ UNCHANGED <<cache, en_cpu>>
    BY <1>1 DEF CrearSegmento, EnKernel, cpus
  <2>2. \A q \in en_cpu : tabla'[q] = tabla[q]
    BY <1>1, <1>t, <1>e, <2>1 DEF CrearSegmento, Alta
  <2>. QED  BY <2>1, <2>2, CacheQuieta
<1>2. ASSUME NEW p \in Pids, NEW i, NEW t, PedirCompactacion(p, i, t) PROVE InvCache'
  <2>1. pedido'.paso = "desalojo" /\ UNCHANGED <<tabla, cache, en_cpu>>
    BY <1>2 DEF PedirCompactacion, SinPedido, mem, cpus
  <2>. QED  BY <2>1, CacheQuieta
<1>3. ASSUME NEW p \in Pids, FinalizarProceso(p) PROVE InvCache'
  <2>1. p \notin en_cpu /\ pedido' = pedido /\ UNCHANGED <<cache, en_cpu>>
    BY <1>3 DEF FinalizarProceso, cpus
  <2>2. \A q \in en_cpu : tabla'[q] = tabla[q]
    BY <1>3, <1>t, <1>e, <2>1 DEF FinalizarProceso
  <2>. QED  BY <2>1, <2>2, CacheQuieta
<1>4. ASSUME NEW p \in Pids, NEW i \in Ids, EliminarSegmento(p, i) PROVE InvCache'
  <2>1. p \notin en_cpu /\ pedido' = pedido /\ UNCHANGED <<cache, en_cpu>>
    BY <1>4 DEF EliminarSegmento, EnKernel, cpus
  <2>2. \A q \in en_cpu : tabla'[q] = tabla[q]
    BY <1>4, <1>t, <1>e, <2>1 DEF EliminarSegmento
  <2>. QED  BY <2>1, <2>2, CacheQuieta
<1>5. ASSUME NEW p \in Pids, SuspenderProceso(p) \/ DessuspenderProceso(p) PROVE InvCache'
  <2>1. /\ UNCHANGED <<tabla, cache, en_cpu>>
        /\ pedido' = pedido \/ pedido'.paso \in {"suspende", "reserva"}
    BY <1>5 DEF SuspenderProceso, DessuspenderProceso, SinPedido, mem, cpus
  <2>. QED  BY <2>1, CacheQuieta
<1>6. CASE RecibirDesalojo \/ FinDeCompactacion
  <2>1. UNCHANGED <<tabla, cache, en_cpu>> /\ (en_cpu = {} \/ pedido.paso = "mueve")
    BY <1>6 DEF RecibirDesalojo, FinDeCompactacion, mem, cpus
  <2>. QED  BY <2>1, CacheQuieta
<1>7. CASE MoverSegmento \/ ReintentarCrear
  <2>1. en_cpu = {} /\ UNCHANGED <<cache, en_cpu>> /\ pedido.paso \in {"mueve", "reintenta"}
    BY <1>7 DEF MoverSegmento, ReintentarCrear, InvCache, cpus
  <2>. QED  BY <2>1, CacheQuieta, SMTT(40)
<1>8. CASE SuspenderSegmento
  <2>1. /\ pedido.paso = "suspende" /\ UNCHANGED <<cache, en_cpu>>
        /\ \E T : tabla' = [tabla EXCEPT ![pedido.pid] = T]
    BY <1>8 DEF SuspenderSegmento, cpus
  <2>2. pedido'.paso \in {"libre", "suspende"}
    BY <1>8, <2>1, SinPedidoTipo, SigueEs DEF SuspenderSegmento, InvMemoria
  <2>3. pedido.pid \notin en_cpu
    BY <1>e, <2>1 DEF InvLugar, Mudanza
  <2>4. \A q \in en_cpu : tabla'[q] = tabla[q]
    BY <1>t, <1>e, <2>1, <2>3
  <2>. QED  BY <2>1, <2>2, <2>4, CacheQuieta
<1>9. CASE ReservarSegmento
  <2>1. pedido.paso = "reserva" /\ UNCHANGED <<tabla, cache, en_cpu>>
    BY <1>9 DEF ReservarSegmento, cpus
  <2>2. pedido'.paso \in {"libre", "reserva", "restaura"}
    BY <1>9, SinPedidoTipo, EfectoReservar
  <2>. QED  BY <2>1, <2>2, CacheQuieta, SMTT(40)
<1>10. CASE RestaurarSegmento
  <2>1. /\ pedido.paso = "restaura" /\ UNCHANGED <<cache, en_cpu>>
        /\ \E T : tabla' = [tabla EXCEPT ![pedido.pid] = T]
    BY <1>10 DEF RestaurarSegmento, cpus
  <2>2. pedido'.paso \in {"libre", "restaura"}
    BY <1>10, <2>1, SinPedidoTipo, SigueEs DEF RestaurarSegmento, InvMemoria
  <2>3. pedido.pid \notin en_cpu
    BY <1>e, <2>1 DEF InvLugar, Mudanza
  <2>4. \A q \in en_cpu : tabla'[q] = tabla[q]
    BY <1>t, <1>e, <2>1, <2>3
  <2>. QED  BY <2>1, <2>2, <2>4, CacheQuieta
<1>11. ASSUME NEW p \in Pids, PedirContexto(p) \/ Devolver(p) PROVE InvCache'
  <2>1. UNCHANGED <<tabla, pedido>>
    BY <1>11 DEF PedirContexto, Devolver, mem
  <2>2. CASE PedirContexto(p)
    BY <1>t, <1>e, <2>1, <2>2 DEF PedirContexto, InvCache
  <2>3. CASE Devolver(p)
    BY <1>t, <1>e, <2>1, <2>3 DEF Devolver, InvCache
  <2>. QED  BY <1>11, <2>2, <2>3
<1>12. ASSUME NEW p \in Pids, AgregarProceso(p) \/ Escribir(p) PROVE InvCache'
  BY <1>q, <1>12, EfectoEscribir DEF AgregarProceso, cpus
<1>13. CASE UNCHANGED vars \/ \E t \in TamSticks : RegistrarStick(t)
  BY <1>q, <1>13 DEF vars, mem, cpus, RegistrarStick
<1>14. ASSUME NEW p \in Pids, Caer(p) PROVE InvCache'
  BY <1>14, EfectoCaer DEF InvCache
<1>. QED
  BY <1>1, <1>2, <1>3, <1>4, <1>5, <1>6, <1>7, <1>8, <1>9, <1>10, <1>11, <1>12, <1>13, <1>14
  DEF Next, Compactar, SeguirCaido

\* Where no size wraps, the check of an IO is that its bytes are in the segment.
LEMMA EntraEs ==
  ASSUME SinVueltas, NEW d \in 0 .. SegmentMaxSize - 1, NEW n \in TamsIO
  PROVE  /\ d + n < Modulo
         /\ \A t : Entra(d, n, t) <=> d + n <= t
         /\ \A t \in Tams : Entra(d, n, t) => n \in Tams
<1>1. n \in Nat /\ n > 0 /\ d \in Nat /\ Modulo \in Nat /\ SegmentMaxSize \in Nat
  BY ParametrosOK
<1>2. SegmentMaxSize + n <= Modulo
  BY DEF SinVueltas
<1>3. d + n \in 0 .. Modulo - 1
  BY <1>1, <1>2
<1>4. (d + n) % Modulo = d + n
  BY <1>1, <1>3
<1>5. \A t : Entra(d, n, t) <=> d + n <= t
  BY <1>4 DEF Entra
<1>6. \A t \in Tams : d + n <= t => n \in Tams
  BY <1>1 DEF Tams
<1>7. d + n < Modulo
  BY <1>1, <1>3
<1>. QED  BY <1>5, <1>6, <1>7, Zenon

\* Nobody ends the program then.
LEMMA NadieCae ==
  ASSUME SinVueltas, NEW p, Caer(p)
  PROVE  FALSE
<1>1. PICK d \in 0 .. SegmentMaxSize - 1, n \in TamsIO : d + n >= Modulo
  BY Zenon DEF Caer, CaerEnSwap
<1>2. d + n < Modulo
  BY EntraEs
<1>. QED  BY <1>1, <1>2, ParametrosOK

\* A write, by an IO in memory or in SWAP, or by a CPU with the table of its burst
LEMMA PromesaEscrita ==
  ASSUME SinVueltas, InvPromesa, Legible, Legible', NEW p \in Pids, NEW i \in Ids,
         NEW d \in 0 .. SegmentMaxSize - 1, NEW n, NEW v \in Valores,
         \/ n \in TamsIO /\ EscribirIO(p, i, d, n, v)
         \/ n \in Tams /\ EscribirCpu(p, i, d, n, v)
  PROVE  n \in Tams /\ Promesa!Escribir(p, i, d, n, v)
<1>1. CASE n \in TamsIO /\ EscribirIO(p, i, d, n, v)
  <2>1. pedido.paso = "libre" /\ UNCHANGED <<segmentos, segmentos_swap, memoria_total>>
    BY <1>1 DEF EscribirIO, PideIO
  <2>2. ASSUME NEW s \in Primero(De(segmentos, p), i), Entra(d, n, s.tam), UNCHANGED disco,
               EscribirFisico(s.base + d, n, v)
        PROVE  n \in Tams /\ Promesa!Escribir(p, i, d, n, v)
    <3>1. s \in Presentes(p) /\ s.id = i
      BY <2>1, TrozosEnMemoria DEF Primero, InvPromesa
    <3>2. s \in segmentos /\ s.tam \in Tams
      BY DEF Primero, De, InvPromesa, IndMemoria, InvMemoria, InvTipos, SegmentosT
    <3>3. d + n <= s.tam /\ n \in Tams
      BY <1>1, <2>2, <3>2, EntraEs
    <3>4. s.base + d + n <= memoria_total
      <4>1. s.base + s.tam <= memoria_total /\ s.base \in Nat /\ memoria_total \in Nat
        BY <3>2 DEF InvPromesa, IndMemoria, InvMemoria, InvTipos, SegmentosT, SinSolape, Fin
      <4>. QED  BY <3>2, <3>3, <4>1, ParametrosOK DEF Tams
    <3>5. ram' = Escritos(s.base + d, Repite(n, v))
      BY <2>2, <3>4 DEF EscribirFisico
    <3>6. Promesa!Escribir(p, s.id, d, n, v)
      BY <2>1, <2>2, <3>1, <3>3, <3>5, TrozosRam
    <3>. QED  BY <3>1, <3>3, <3>6
  <2>3. ASSUME NEW sw \in Primero(De(segmentos_swap, p), i), Entra(d, n, sw.tam), UNCHANGED ram,
               disco' = EnBloques(sw, d .. d + n - 1, v)
        PROVE  n \in Tams /\ Promesa!Escribir(p, i, d, n, v)
    <3>1. sw \in De(segmentos_swap, p) /\ sw.id = i
      BY DEF Primero
    <3>2. sw.tam \in Tams
      BY <3>1 DEF De, InvPromesa, IndMemoria, InvMemoria, InvTipos, SwapT
    <3>3. d + n <= sw.tam /\ n \in Tams
      BY <1>1, <2>3, <3>2, EntraEs
    <3>4. disco' = [b \in Bloques |-> [o \in 0 .. SwapBlockSize - 1 |->
               IF \E k \in d .. d + n - 1 : BloqueDe(sw, k) = b /\ k % SwapBlockSize = o
               THEN v ELSE disco[b][o]]]
      BY <2>3 DEF EnBloques
    <3>5. Promesa!Escribir(p, sw.id, d, n, v)
      BY <2>1, <2>3, <3>1, <3>3, <3>4, TrozosDisco
    <3>. QED  BY <3>1, <3>3, <3>5
  <2>. QED  BY <1>1, <2>2, <2>3, Zenon DEF EscribirIO
<1>2. CASE n \in Tams /\ EscribirCpu(p, i, d, n, v)
  <2>1. p \in en_cpu /\ UNCHANGED <<segmentos, segmentos_swap, disco>>
    BY <1>2 DEF EscribirCpu, swap
  <2>2. PICK e \in Primero(cache[p], i) :
          d + n <= e.tam /\ ram' = Escritos(e.base + d, Repite(n, v))
    BY <1>2 DEF EscribirCpu
  <2>3. cache[p] = {Entrada(s) : s \in Presentes(p)}
    BY <2>1 DEF InvPromesa, InvCache, TablaBien
  <2>4. PICK s \in Presentes(p) : e = Entrada(s) /\ e.id = i
    BY <2>2, <2>3 DEF Primero
  <2>5. s.id = i /\ e.base = s.base /\ e.tam = s.tam
    BY <2>4 DEF Entrada
  <2>6. Promesa!Escribir(p, s.id, d, n, v)
    BY <1>2, <2>1, <2>2, <2>5, TrozosRam
  <2>. QED  BY <1>2, <2>5, <2>6
<1>. QED  BY <1>1, <1>2

\* Every step is one of the promise, or cannot be told.
LEMMA PasoPromesa ==
  ASSUME ~IdsRepetidos, SinVueltas, InvPromesa, InvPromesa', Legible, Legible', [Next]_vars
  PROVE  [Promesa!Next]_Mem
<1>. DEFINE Hecho == \E p \in Pids :
                \/ Promesa!Finalizar(p)
                \/ \E i \in Ids :
                     \/ Promesa!Crear(p, i) \/ Promesa!Eliminar(p, i)
                     \/ \E d \in 0 .. SegmentMaxSize - 1, n \in 1 .. SegmentMaxSize, v \in Valores :
                          Promesa!Escribir(p, i, d, n, v)
<1>0. SUFFICES Hecho \/ Mem' = Mem
  <2>1. Hecho /\ Mem' # Mem => Promesa!Next
    BY DEF Promesa!Next, Mem
  <2>. QED  BY <2>1
<1>s. ASSUME \A q \in Pids : Trozos(q)' = Trozos(q) PROVE Mem' = Mem
  BY <1>s, NadieNota
<1>q. ASSUME UNCHANGED <<segmentos, segmentos_swap, ram, disco>> PROVE Mem' = Mem
  BY <1>q, <1>s, TrozosQuietos
<1>n. ASSUME NEW p \in procesos \ suspendidos, pedido.paso \notin Mudanza
      PROVE  De(segmentos_swap, p) = {}
  BY <1>n DEF InvPromesa, IndMemoria, InvLugar, De
<1>1. ASSUME NEW p \in Pids, NEW i \in IdsDe[p], NEW t \in Tams, CrearSegmento(p, i, t)
      PROVE  Hecho
  <2>1. /\ pedido.paso = "libre" /\ p \in procesos \ suspendidos
        /\ Primero(De(segmentos, p), i) = {} /\ i \in Ids
        /\ pedido' = pedido /\ UNCHANGED <<segmentos_swap, ram, disco>>
    BY <1>1 DEF CrearSegmento, EnKernel, Ids, swap
  <2>2. \A s \in De(segmentos, p) : s.id # i
    BY <2>1, TablaUnica DEF InvPromesa, IndMemoria, InvMemoria
  <2>3. De(segmentos_swap, p) = {}
    BY <1>n, <2>1 DEF Mudanza
  <2>4. Promesa!Crear(p, i)
    BY <1>1, <2>1, <2>2, <2>3, TrozosAlta DEF CrearSegmento
  <2>. QED  BY <2>1, <2>4
<1>2. ASSUME NEW p \in Pids, FinalizarProceso(p) PROVE Hecho
  BY <1>2, TrozosFinalizar
<1>3. ASSUME NEW p \in Pids, NEW i \in Ids, EliminarSegmento(p, i) PROVE Hecho
  BY <1>3, TrozosEliminar
<1>4. ASSUME NEW p \in Pids, Escribir(p) PROVE Hecho
  <2>1. PICK i \in Ids, d \in 0 .. SegmentMaxSize - 1, v \in Valores :
          \E n : \/ n \in TamsIO /\ EscribirIO(p, i, d, n, v)
                 \/ n \in Tams /\ EscribirCpu(p, i, d, n, v)
    BY <1>4, Zenon DEF Escribir
  <2>2. PICK n \in Tams : Promesa!Escribir(p, i, d, n, v)
    BY <2>1, PromesaEscrita
  <2>. QED  BY <2>2 DEF Tams
<1>5. CASE ReintentarCrear
  <2>1. /\ pedido.paso = "reintenta" /\ pedido' = SinPedido
        /\ UNCHANGED <<segmentos_swap, ram, disco>>
        /\ pedido.pid \in Pids /\ pedido.id \in Ids /\ pedido.tam \in Tams
        /\ pedido.pid \in procesos \ suspendidos
    BY <1>5 DEF ReintentarCrear, swap, InvPromesa, IndMemoria, InvMemoria, PedidoConDatos,
       InvLugar
  <2>2. /\ De(segmentos_swap, pedido.pid) = {}
        /\ \A s \in De(segmentos, pedido.pid) : s.id # pedido.id
    BY <1>n, <2>1 DEF InvPromesa, IdsUnicos, Mudanza
  <2>3. CASE Alta(pedido.pid, pedido.id, pedido.tam)
    <3>1. Promesa!Crear(pedido.pid, pedido.id)
      BY <2>1, <2>2, <2>3, SinPedidoTipo, TrozosAlta
    <3>. QED  BY <2>1, <3>1
  <2>4. CASE UNCHANGED <<segmentos, tabla>>
    BY <1>q, <2>1, <2>4
  <2>. QED  BY <1>5, <2>3, <2>4 DEF ReintentarCrear
<1>6. CASE MoverSegmento
  BY <1>s, <1>6, TrozosMover
<1>7. CASE SuspenderSegmento
  BY <1>s, <1>7, TrozosSuspender
<1>8. CASE ReservarSegmento
  BY <1>s, <1>8, TrozosReservar
<1>9. CASE RestaurarSegmento
  BY <1>s, <1>9, TrozosRestaurar
<1>10. ASSUME NEW p \in Pids,
              \/ AgregarProceso(p) \/ SuspenderProceso(p) \/ DessuspenderProceso(p)
              \/ PedirContexto(p) \/ Devolver(p)
              \/ \E i \in IdsDe[p], t \in Tams : PedirCompactacion(p, i, t)
       PROVE  Mem' = Mem
  BY <1>q, <1>10 DEF AgregarProceso, SuspenderProceso, DessuspenderProceso, PedirContexto,
     Devolver, PedirCompactacion, mem, swap
<1>11. CASE RecibirDesalojo \/ FinDeCompactacion \/ UNCHANGED vars
            \/ \E t \in TamSticks : RegistrarStick(t)
  BY <1>q, <1>11 DEF RecibirDesalojo, FinDeCompactacion, RegistrarStick, vars, mem, swap
<1>12. ASSUME NEW p \in Pids, Caer(p) PROVE FALSE
  BY <1>12, NadieCae
<1>. HIDE DEF Hecho
<1>. QED  BY <1>1, <1>2, <1>3, <1>4, <1>5, <1>6, <1>7, <1>8, <1>9, <1>10, <1>11, <1>12
          DEF Next, Compactar, SeguirCaido

LEMMA PasoInvPromesa ==
  ASSUME ~IdsRepetidos
  PROVE  /\ Init => InvPromesa
         /\ InvPromesa /\ [Next]_vars => InvPromesa'
<1>1. ASSUME Init PROVE InvPromesa
  <2>1. IndMemoria
    BY <1>1, InicioMemoria
  <2>2. /\ segmentos = {} /\ segmentos_swap = {} /\ pedido.paso = "libre" /\ en_cpu = {}
        /\ \A p \in Pids : tabla[p] = {}
    BY <1>1, SinPedidoTipo DEF Init
  <2>. QED  BY <2>1, <2>2 DEF InvPromesa, IdsUnicos, TablaBien, Presentes, De, InvCache
<1>2. ASSUME InvPromesa, [Next]_vars PROVE InvPromesa'
  <2>1. IndMemoria'
    BY <1>2, Paso, PasoFinitos, PasoCompacta, PasoLugar, PasoBloques, PasoDatos
    DEF InvPromesa, IndMemoria
  <2>2. IdsUnicos' /\ TablaBien'
    BY <1>2, PasoTabla DEF InvTabla, InvPromesa, IndMemoria
  <2>3. InvCache'
    BY <1>2, PasoCache DEF InvPromesa, IndMemoria
  <2>. QED  BY <2>1, <2>2, <2>3 DEF InvPromesa
<1>. QED  BY <1>1, <1>2

\* What gestor_memoria does keeps what it promises each process: wherever the segments
\* are, in memory, half way through a compaction, in the blocks of SWAP or on their way
\* back, its bytes are those it wrote, or an IO or a CPU on its behalf, and nothing else
\* changes them.  As long as no program gives IO_STDIN or IO_STDOUT a size that, added to
\* its offset, reaches 2^32: with one, traducir and swap_io_rw let it through, and it
\* writes over the segments that follow (EscribirFisico) or ends the program (Caer).
THEOREM CumplePromesa ==
  ASSUME ~IdsRepetidos, SinVueltas
  PROVE  Spec => ImplementaPromesa
<1>1. Init => Promesa!Init
  <2>. SUFFICES ASSUME Init PROVE Promesa!Init
    OBVIOUS
  <2>1. segmentos = {} /\ segmentos_swap = {}
    BY DEF Init
  <2>2. ASSUME NEW p \in Pids PROVE Contenido(p) = [i \in {} |-> 0]
    <3>1. De(segmentos, p) = {} /\ De(segmentos_swap, p) = {}
      BY <2>1 DEF De
    <3>. QED  BY <3>1 DEF Contenido
  <2>. QED  BY <2>2 DEF Promesa!Init
<1>2. InvPromesa => Legible
  BY ContenidoEs DEF InvPromesa, IndMemoria, InvMemoria, Legible
<1>3. InvPromesa' => Legible'
  BY <1>2, PTL
<1>4. InvPromesa /\ InvPromesa' /\ [Next]_vars => [Promesa!Next]_([p \in Pids |-> Contenido(p)])
  BY <1>2, <1>3, PasoPromesa DEF Mem
<1>. QED  BY <1>1, <1>4, PasoInvPromesa, PTL DEF Spec, ImplementaPromesa, Promesa!Spec
=============================================================================
