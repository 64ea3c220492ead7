--------------------------- MODULE Bloqueos_proofs ---------------------------
(***************************************************************************)
(* Proofs about Bloqueos for every number of CPUs, processes, mutexes and  *)
(* devices, and every scenario.                                            *)
(*                                                                         *)
(* First the types, with what each point of a thread needs of its locals   *)
(* (Inv); then the devices and their sockets (InvUso, InvLinea); then,     *)
(* where Colas Multinivel is off, the place of each process (InvLugar) and *)
(* of its memory (InvMemoria), what each blocked process waits for         *)
(* (InvEspera) and the tokens of the device pool (InvPool, FichasExactas); *)
(* and, where there is also one CPU and the scripts are well formed        *)
(* (Ordenados), the mutexes (InvMutex).                                    *)
(***************************************************************************)
EXTENDS Bloqueos, Minimos, FiniteSetTheorems, TLAPS

-----------------------------------------------------------------------------
(* The type invariant.  It is not inductive alone: a thread uses the process, *)
(* the mutex or the device in its hands only because of the point it is at.   *)

ConPid == {"encola", "despacha", "desbloquea", "desbloquea_susp", "vuelve",
           "busca_exec", "busca_ready", "busca_block", "hereda", "toma"}
ConMutex == {"cede", "toma"}
ConDispositivo == UsaDispositivo \cup {"postea_io"}

\* Where desbloquear and encolar_en_ready return to, and where the memory event does.
Regresos == {"reposo", "candidatos", "esperas", "libera_cpu", "fin_io", "toma"}
Continuaciones == {"reposo", "libera_cpu", "libera_mutex"}

Locales == [en : Puntos, pid : Pids \cup {NADA}, disp : Dispositivos \cup {NADA},
            mtx : Mutexes \cup {NADA}, fue : {"nada", "ready", "susp"},
            tras : Regresos, luego : Continuaciones]

\* The locals r of a thread agree with the point it is at.
LocalesOK(r) ==
  /\ r \in Locales
  /\ r.en \in ConPid => r.pid \in Pids
  /\ r.en \in ConMutex \/ r.tras = "toma" => r.mtx \in Mutexes
  /\ r.en \in ConDispositivo => r.disp \in Dispositivos

TipoHilos ==
  /\ DOMAIN hilo = Hilos /\ hilo = [t \in Hilos |-> hilo[t]]
  /\ \A t \in Hilos : LocalesOK(hilo[t])

TipoPcbs ==
  /\ config \in Configuraciones
  /\ estado \in [Pids -> Estados] /\ prioridad_actual \in [Pids -> Int]
  /\ bloqueo_id \in [Pids -> Nat] /\ paso \in [Pids -> Nat]

TipoColas ==
  /\ colas_ready \in [0 .. CantColas - 1 -> Seq(Pids)] /\ sem_ready \in Nat
  /\ lista_exec \subseteq Pids /\ cola_block \subseteq Pids
  /\ susp_block \subseteq Pids /\ susp_ready \subseteq Pids
  /\ antiguedad \in Seq(Pids) /\ lista_espera \in Seq(Pids)

TipoMemoria ==
  /\ memoria \in [Pids -> {"sin", "ram", "swap"}]
  /\ evento \in [dueno : Hilos \cup {SinHilo},
                 candidatos : SUBSET [pid : Pids, prioridad : Int, turno : Nat],
                 esperas : Seq(Pids)]

TipoCpu ==
  /\ cpu \in [Cpus -> Pids \cup {NADA}]
  /\ \A c \in Cpus : hilo[HiloCpu(c)].en # "reposo" => cpu[c] \in Pids

Inv == TipoPcbs /\ TipoColas /\ TipoMemoria /\ TipoHilos /\ TipoCpu
       /\ TypeOKMutex(Pids) /\ TypeOKIO(Pids)

\* What the scenario fixes.
LEMMA ConfigTipos ==
  ASSUME config \in Configuraciones
  PROVE  /\ config.cmn \in BOOLEAN
         /\ config.cpus \in Seq(Cpus)
         /\ config.colas \in [0 .. CantColas - 1 -> Seq(Pids)]
         /\ config.prioridad \in [Pids -> Int]
         /\ config.carga \in [Pids -> {"sin", "ram"}]
         /\ config.ios \in Seq(Dispositivos)
         /\ config.guion \in [Pids -> Seq(Instruccion)]
BY ConfiguracionesOK

\* An instruction on a mutex names one.
LEMMA ProximaMutex ==
  ASSUME Inv, NEW p \in Pids, paso[p] < Len(config.guion[p]),
         Proxima(p).op \in {"MUTEX_LOCK", "MUTEX_UNLOCK"}
  PROVE  Proxima(p).arg \in Mutexes
<1>1. config.guion[p] \in Seq(Instruccion) /\ paso[p] \in Nat
  BY ConfigTipos DEF Inv, TipoPcbs
<1>2. paso[p] + 1 \in DOMAIN config.guion[p]
  BY <1>1, LenProperties
<1>3. \A i \in DOMAIN config.guion[p] :
        LET a == config.guion[p][i] IN a.op \in {"MUTEX_LOCK", "MUTEX_UNLOCK"} => a.arg \in Mutexes
  BY ConfiguracionesOK DEF Inv, TipoPcbs
<1>. QED  BY <1>2, <1>3 DEF Proxima

\* The kinds of threads are told apart by their names.
LEMMA HilosDistintos ==
  /\ HiloCP \in Hilos /\ HilosCpu \subseteq Hilos /\ HilosIO \subseteq Hilos
  /\ HilosTimer \subseteq Hilos /\ SinHilo \notin Hilos
  /\ \A c \in Cpus : HiloCpu(c) \in HilosCpu /\ HiloCpu(c)[2] = c
  /\ \A t \in HilosCpu : t[2] \in Cpus /\ t = HiloCpu(t[2])
                         /\ t # HiloCP /\ t \notin HilosIO /\ t \notin HilosTimer
  /\ \A t \in HilosIO : /\ t[2] \in Pids /\ t[3] \in 1 .. MaxBloqueos
                        /\ t = HiloIO(t[2], t[3]) /\ t # HiloCP /\ t \notin HilosTimer
  /\ \A t \in HilosTimer : /\ t[2] \in Pids /\ t[3] \in 1 .. MaxBloqueos
                           /\ t = HiloTimer(t[2], t[3]) /\ t # HiloCP
BY DEF HiloCP, HiloCpu, HiloIO, HiloTimer, SinHilo, HilosCpu, HilosIO, HilosTimer, Hilos

\* A step that changes the locals of one thread, for locals that agree.
LEMMA CambiaUno ==
  ASSUME TipoHilos, NEW t \in Hilos, NEW r, LocalesOK(r), hilo' = [hilo EXCEPT ![t] = r]
  PROVE  TipoHilos'
BY DEF TipoHilos, LocalesOK, Locales

LEMMA ColaEnRango ==
  ASSUME NEW n \in Int PROVE ColaDeNivel(n) \in 0 .. CantColas - 1
BY ProcesosOK DEF ColaDeNivel

\* What the calls of a thread leave in its locals.
LEMMA IrTipo ==
  ASSUME TipoHilos, NEW t \in Hilos, NEW e \in Puntos, Ir(t, e),
         e \in ConPid => hilo[t].pid \in Pids,
         e \in ConMutex => hilo[t].mtx \in Mutexes,
         e \in ConDispositivo => hilo[t].disp \in Dispositivos
  PROVE  TipoHilos'
<1>1. LocalesOK([hilo[t] EXCEPT !.en = e])
  BY DEF TipoHilos, LocalesOK, Locales
<1>. QED  BY <1>1, CambiaUno DEF Ir

LEMMA SeguirTipo ==
  ASSUME TipoHilos, NEW t \in Hilos, NEW e \in {"reposo", "libera_cpu", "libera_mutex"}, Seguir(t, e)
  PROVE  TipoHilos'
<1>1. LocalesOK([EnReposo EXCEPT !.en = e])
  BY DEF LocalesOK, Locales, EnReposo, Puntos, Regresos, Continuaciones, ConPid, ConMutex,
         ConDispositivo, UsaDispositivo
<1>. QED  BY <1>1, CambiaUno DEF Seguir

LEMMA EncolarTipo ==
  ASSUME TipoHilos, NEW t \in Hilos, NEW p \in Pids, NEW e \in {"candidatos", "libera_cpu"},
         LlamarEncolar(t, p, e)
  PROVE  TipoHilos'
<1>1. LocalesOK([hilo[t] EXCEPT !.en = "encola", !.pid = p, !.tras = e])
  <2>. DEFINE r == [hilo[t] EXCEPT !.en = "encola", !.pid = p, !.tras = e]
  <2>1. LocalesOK(hilo[t])
    BY DEF TipoHilos
  <2>2. /\ "encola" \in Puntos /\ "encola" \notin ConMutex /\ "encola" \notin ConDispositivo
        /\ e \in Regresos /\ e # "toma"
    BY DEF Puntos, ConMutex, ConDispositivo, UsaDispositivo, Regresos
  <2>3. r \in Locales
    BY <2>1, <2>2 DEF LocalesOK, Locales
  <2>. QED  BY <2>1, <2>2, <2>3 DEF LocalesOK, Locales
<1>. QED  BY <1>1, CambiaUno DEF LlamarEncolar

LEMMA DesbloquearTipo ==
  ASSUME TipoHilos, NEW t \in Hilos, NEW p \in Pids, NEW e \in Regresos,
         LlamarDesbloquear(t, p, e), e = "toma" => hilo[t].mtx \in Mutexes
  PROVE  TipoHilos'
<1>1. LocalesOK([hilo[t] EXCEPT !.en = "desbloquea", !.pid = p, !.tras = e, !.fue = "nada"])
  <2>. DEFINE r == [hilo[t] EXCEPT !.en = "desbloquea", !.pid = p, !.tras = e, !.fue = "nada"]
  <2>1. LocalesOK(hilo[t])
    BY DEF TipoHilos
  <2>2. /\ "desbloquea" \in Puntos /\ "desbloquea" \notin ConMutex /\ "desbloquea" \notin ConDispositivo
        /\ e \in Regresos
    BY DEF Puntos, ConMutex, ConDispositivo, UsaDispositivo, Regresos
  <2>3. r \in Locales
    BY <2>1, <2>2 DEF LocalesOK, Locales
  <2>. QED  BY <2>1, <2>2, <2>3 DEF LocalesOK, Locales
<1>. QED  BY <1>1, CambiaUno DEF LlamarDesbloquear

LEMMA EventoTipo ==
  ASSUME TipoHilos, NEW t \in Hilos, NEW e \in Continuaciones, LlamarEvento(t, e)
  PROVE  TipoHilos'
<1>1. LocalesOK([hilo[t] EXCEPT !.en = "evento", !.pid = NADA, !.luego = e])
  <2>. DEFINE r == [hilo[t] EXCEPT !.en = "evento", !.pid = NADA, !.luego = e]
  <2>1. LocalesOK(hilo[t])
    BY DEF TipoHilos
  <2>2. /\ "evento" \in Puntos /\ "evento" \notin ConMutex /\ "evento" \notin ConDispositivo
        /\ e \in Continuaciones
    BY DEF Puntos, ConMutex, ConDispositivo, UsaDispositivo, Regresos
  <2>3. r \in Locales
    BY <2>1, <2>2 DEF LocalesOK, Locales
  <2>. QED  BY <2>1, <2>2, <2>3 DEF LocalesOK, Locales, ConPid
<1>. QED  BY <1>1, CambiaUno DEF LlamarEvento

\* The locals of a thread at a point agree with it.
LEMMA EnPunto ==
  ASSUME TipoHilos, NEW t \in Hilos
  PROVE  /\ LocalesOK(hilo[t])
         /\ hilo[t].tras \in Regresos /\ Regresos \subseteq Puntos
         /\ hilo[t].luego \in Continuaciones /\ Continuaciones \subseteq Puntos
         /\ hilo[t].en \in ConPid => hilo[t].pid \in Pids
         /\ hilo[t].en \in ConMutex => hilo[t].mtx \in Mutexes
         /\ hilo[t].tras \in ConMutex => hilo[t].mtx \in Mutexes
         /\ hilo[t].en \in ConDispositivo => hilo[t].disp \in Dispositivos
         /\ hilo[t].tras \notin ConDispositivo
BY DEF TipoHilos, LocalesOK, Locales, Regresos, Continuaciones, Puntos, ConMutex, ConDispositivo,
       UsaDispositivo

LEMMA PasoHilosMedianoPlazo ==
  ASSUME Inv, NEW t \in Hilos, PasoMedianoPlazo(t)
  PROVE  TipoHilos'
<1>. USE EnPunto DEF Inv
<1>1. CASE Encolar(t)
  BY <1>1, IrTipo DEF Encolar, ConPid
<1>2. CASE DesbloquearBlock(t)
  <2>1. hilo[t].pid \in Pids
    BY <1>2 DEF DesbloquearBlock, ConPid
  <2>2. CASE hilo[t].pid \in cola_block
    <3>1. LocalesOK([hilo[t] EXCEPT !.en = "encola", !.fue = "ready"])
      <4>. DEFINE r == [hilo[t] EXCEPT !.en = "encola", !.fue = "ready"]
      <4>1. "encola" \in Puntos /\ "encola" \notin ConMutex /\ "encola" \notin ConDispositivo
        BY DEF Puntos, ConMutex, ConDispositivo, UsaDispositivo
      <4>2. r \in Locales
        BY <4>1 DEF LocalesOK, Locales
      <4>. QED  BY <2>1, <4>1, <4>2 DEF LocalesOK, Locales
    <3>2. hilo' = [hilo EXCEPT ![t].en = "encola", ![t].fue = "ready"]
      BY <1>2, <2>2 DEF DesbloquearBlock
    <3>. QED  BY <3>1, <3>2, CambiaUno
  <2>3. CASE hilo[t].pid \notin cola_block
    <3>1. "desbloquea_susp" \in Puntos /\ "desbloquea_susp" \notin ConMutex \cup ConDispositivo
      BY DEF Puntos, ConMutex, ConDispositivo, UsaDispositivo
    <3>. QED  BY <1>2, <2>1, <2>3, <3>1, IrTipo DEF DesbloquearBlock
  <2>. QED  BY <2>2, <2>3
<1>3. CASE DesbloquearSusp(t)
  <2>1. hilo[t].pid \in Pids
    BY <1>3 DEF DesbloquearSusp, ConPid
  <2>2. CASE hilo[t].pid \in susp_block
    <3>1. LocalesOK([hilo[t] EXCEPT !.en = hilo[t].tras, !.fue = "susp"])
      <4>. DEFINE r == [hilo[t] EXCEPT !.en = hilo[t].tras, !.fue = "susp"]
      <4>1. r \in Locales
        BY DEF LocalesOK, Locales
      <4>. QED  BY <2>1, <4>1 DEF LocalesOK, Locales
    <3>2. hilo' = [hilo EXCEPT ![t].en = hilo[t].tras, ![t].fue = "susp"]
      BY <1>3, <2>2 DEF DesbloquearSusp
    <3>. QED  BY <3>1, <3>2, CambiaUno
  <2>3. CASE hilo[t].pid \notin susp_block
    BY <1>3, <2>1, <2>3, IrTipo DEF DesbloquearSusp
  <2>. QED  BY <2>2, <2>3
<1>4. CASE VencerTimer(t)
  <2>1. "suspende" \in Puntos /\ "suspende" \notin ConPid \cup ConMutex \cup ConDispositivo
    BY DEF Puntos, ConPid, ConMutex, ConDispositivo, UsaDispositivo
  <2>. QED  BY <1>4, <2>1, IrTipo, SeguirTipo DEF VencerTimer, Terminar
<1>5. CASE Suspender(t)
  BY <1>5, EventoTipo DEF Suspender, Continuaciones
<1>6. CASE TomarEvento(t)
  <2>1. "candidatos" \in Puntos /\ "candidatos" \notin ConPid \cup ConMutex \cup ConDispositivo
    BY DEF Puntos, ConPid, ConMutex, ConDispositivo, UsaDispositivo
  <2>. QED  BY <1>6, <2>1, IrTipo DEF TomarEvento
<1>7. CASE Dessuspender(t)
  <2>1. PICK c \in evento.candidatos :
          \/ hilo' = [hilo EXCEPT ![t].en = "vuelve", ![t].pid = c.pid]
          \/ UNCHANGED hilo
    BY <1>7 DEF Dessuspender
  <2>2. c.pid \in Pids
    BY DEF TipoMemoria
  <2>3. LocalesOK([hilo[t] EXCEPT !.en = "vuelve", !.pid = c.pid])
    <3>1. "vuelve" \in Puntos /\ "vuelve" \notin ConMutex /\ "vuelve" \notin ConDispositivo
      BY DEF Puntos, ConMutex, ConDispositivo, UsaDispositivo
    <3>. QED  BY <2>2, <3>1 DEF LocalesOK, Locales
  <2>. QED  BY <2>1, <2>3, CambiaUno DEF TipoHilos
<1>8. CASE Volver(t)
  <2>1. hilo[t].pid \in Pids
    BY <1>8 DEF Volver, ConPid
  <2>2. "candidatos" \in Puntos /\ "candidatos" \notin ConPid \cup ConMutex \cup ConDispositivo
    BY DEF Puntos, ConPid, ConMutex, ConDispositivo, UsaDispositivo
  <2>. QED  BY <1>8, <2>1, <2>2, IrTipo, EncolarTipo DEF Volver
<1>9. CASE FinDeCandidatos(t)
  <2>1. "esperas" \in Puntos /\ "esperas" \notin ConPid \cup ConMutex \cup ConDispositivo
    BY DEF Puntos, ConPid, ConMutex, ConDispositivo, UsaDispositivo
  <2>. QED  BY <1>9, <2>1, IrTipo DEF FinDeCandidatos
<1>10. CASE ReintentarEspera(t)
  <2>1. Head(evento.esperas) \in Pids
    BY <1>10, HeadTailProperties DEF ReintentarEspera, TipoMemoria
  <2>2. "esperas" \in Regresos
    BY DEF Regresos
  <2>. QED  BY <1>10, <2>1, <2>2, DesbloquearTipo DEF ReintentarEspera, TipoHilos
<1>11. CASE SoltarEvento(t)
  BY <1>11, SeguirTipo DEF SoltarEvento, Continuaciones
<1>. QED  BY <1>1, <1>2, <1>3, <1>4, <1>5, <1>6, <1>7, <1>8, <1>9, <1>10, <1>11 DEF PasoMedianoPlazo

LEMMA PasoHilosIO ==
  ASSUME Inv, NEW t \in HilosIO, PasoIO(t)
  PROVE  TipoHilos'
<1>. USE EnPunto, HilosDistintos DEF Inv
<1>1. CASE EsperarDispositivo(t) \/ PedirDispositivo(t) \/ LeerOK(t) \/ LiberarDispositivo(t)
  <2>1. /\ {"busca_io", "espera_ok", "libera_io", "postea_io"} \subseteq Puntos
        /\ {"busca_io", "espera_ok", "libera_io", "postea_io"} \cap (ConPid \cup ConMutex) = {}
        /\ "busca_io" \notin ConDispositivo
        /\ {"pide_io", "espera_ok", "libera_io"} \subseteq ConDispositivo
    BY DEF Puntos, ConPid, ConMutex, ConDispositivo, UsaDispositivo
  <2>. QED  BY <1>1, <2>1, IrTipo DEF EsperarDispositivo, PedirDispositivo, LeerOK, LiberarDispositivo
<1>2. CASE TomarDispositivo(t)
  <2>. DEFINE E == Elegibles(TipoPedido(t[2]))
              d == ios_conectados[Min(E)]
  <2>1. E \subseteq DOMAIN ios_conectados /\ E # {}
    BY <1>2 DEF TomarDispositivo, Elegibles
  <2>2. E \subseteq Nat
    <3>1. ios_conectados \in Seq(Dispositivos)
      BY DEF TypeOKIO
    <3>. QED  BY <2>1, <3>1, LenProperties
  <2>3. Min(E) \in E
    <3>. HIDE DEF E
    <3>. QED  BY <2>1, <2>2, MinEsElemento
  <2>4. d \in Dispositivos
    BY <2>1, <2>3, ElementOfSeq, LenProperties DEF TypeOKIO
  <2>5. LocalesOK([hilo[t] EXCEPT !.en = "pide_io", !.disp = d])
    <3>1. "pide_io" \in Puntos /\ "pide_io" \notin ConMutex /\ "pide_io" \notin ConPid
      BY DEF Puntos, ConMutex, ConPid
    <3>2. LocalesOK(hilo[t])
      OBVIOUS
    <3>. HIDE DEF d
    <3>. QED  BY <2>4, <3>1, <3>2 DEF LocalesOK, Locales
  <2>6. hilo' = [hilo EXCEPT ![t].en = "pide_io", ![t].disp = d]
    BY <1>2 DEF TomarDispositivo, ElegidoIO
  <2>7. t \in Hilos
    BY HilosDistintos
  <2>. HIDE DEF d, Inv
  <2>8. TipoHilos
    BY DEF Inv
  <2>9. hilo' = [hilo EXCEPT ![t] = [hilo[t] EXCEPT !.en = "pide_io", !.disp = d]]
    BY <2>6, <2>7, <2>8 DEF TipoHilos
  <2>. QED  BY <2>5, <2>7, <2>8, <2>9, CambiaUno
<1>3. CASE FallarIO(t) \/ PostearDispositivo(t)
  BY <1>3, DesbloquearTipo DEF FallarIO, PostearDispositivo, Regresos
<1>4. CASE TerminarIO(t)
  BY <1>4, EventoTipo, SeguirTipo DEF TerminarIO, Terminar, Continuaciones
<1>. QED  BY <1>1, <1>2, <1>3, <1>4 DEF PasoIO

\* The process that a CPU returns is one.
LEMMA PidRecibido ==
  ASSUME Inv, NEW t \in HilosCpu, NEW o, Recibir(t, o)
  PROVE  /\ Pid(t) \in Pids /\ hilo[t].en = "reposo"
         /\ o \in {"MUTEX_LOCK", "MUTEX_UNLOCK"} => Proxima(Pid(t)).arg \in Mutexes
<1>1. Pid(t) \in Pids /\ hilo[t].en = "reposo"
  BY HilosDistintos DEF Recibir, Pid, Inv, TipoCpu
<1>2. paso[Pid(t)] < Len(config.guion[Pid(t)]) /\ Proxima(Pid(t)).op = o
  BY DEF Recibir
<1>. QED  BY <1>1, <1>2, ProximaMutex

\* The thread of a CPU that is not at rest has a process.
LEMMA PidAtendido ==
  ASSUME Inv, NEW t \in HilosCpu, hilo[t].en # "reposo"
  PROVE  Pid(t) \in Pids
BY HilosDistintos DEF Pid, Inv, TipoCpu

LEMMA UnlockTipo ==
  ASSUME Inv, NEW t \in HilosCpu, NEW m \in Mutexes, NEW e \in {"reposo", "libera_mutex"},
         EmpezarUnlock(t, m, e)
  PROVE  TipoHilos'
<1>. DEFINE r == [hilo[t] EXCEPT !.en = "cede", !.mtx = m, !.luego = e]
<1>1. t \in Hilos /\ TipoHilos /\ LocalesOK(hilo[t])
  BY HilosDistintos, EnPunto DEF Inv
<1>2. /\ "cede" \in Puntos /\ "cede" \notin ConPid /\ "cede" \notin ConDispositivo
      /\ e \in Continuaciones
  BY DEF Puntos, ConPid, ConDispositivo, UsaDispositivo, Continuaciones
<1>3. r \in Locales
  BY <1>1, <1>2 DEF LocalesOK, Locales
<1>4. LocalesOK(r)
  BY <1>1, <1>2, <1>3 DEF LocalesOK, Locales
<1>5. hilo' = [hilo EXCEPT ![t] = r]
  BY <1>1 DEF EmpezarUnlock, TipoHilos
<1>. HIDE DEF r
<1>. QED  BY <1>1, <1>4, <1>5, CambiaUno

\* A new timer or thread of an IO begins to sleep, or to wait for a device.
LEMMA PasoHilosEntrar ==
  ASSUME Inv, NEW t \in HilosCpu, EntrarABlock(t)
  PROVE  TipoHilos'
<1>1. TipoHilos
  BY DEF Inv
<1>2. ASSUME NEW e \in {"anota", "libera_cpu", "duerme", "espera_io"}, NEW u \in Hilos
      PROVE  LocalesOK([hilo[u] EXCEPT !.en = e])
  <2>1. e \in Puntos /\ e \notin ConPid /\ e \notin ConMutex /\ e \notin ConDispositivo
    BY DEF Puntos, ConPid, ConMutex, ConDispositivo, UsaDispositivo
  <2>2. LocalesOK(hilo[u])
    BY <1>1, EnPunto
  <2>. QED  BY <2>1, <2>2 DEF LocalesOK, Locales
<1>3. \A u \in Hilos : \/ hilo'[u] = hilo[u]
                       \/ \E e \in {"anota", "libera_cpu", "duerme", "espera_io"} :
                            hilo'[u] = [hilo[u] EXCEPT !.en = e]
  BY DEF EntrarABlock
<1>4. DOMAIN hilo' = Hilos /\ hilo' = [u \in Hilos |-> hilo'[u]]
  BY DEF EntrarABlock
<1>5. \A u \in Hilos : LocalesOK(hilo'[u])
  <2>1. TAKE u \in Hilos
  <2>2. CASE hilo'[u] = hilo[u]
    BY <1>1, <2>2, EnPunto
  <2>3. ASSUME NEW e \in {"anota", "libera_cpu", "duerme", "espera_io"},
               hilo'[u] = [hilo[u] EXCEPT !.en = e]
        PROVE  LocalesOK(hilo'[u])
    BY <1>2, <2>3
  <2>. QED  BY <1>3, <2>2, <2>3
<1>. QED  BY <1>4, <1>5 DEF TipoHilos, LocalesOK, Locales

LEMMA PasoHilosCpu ==
  ASSUME Inv, NEW t \in HilosCpu, PasoCpu(t)
  PROVE  TipoHilos'
<1>. USE PidRecibido
<1>1. t \in Hilos /\ TipoHilos /\ LocalesOK(hilo[t])
  BY HilosDistintos, EnPunto DEF Inv
<1>. DEFINE Libres == {"a_block", "entra_block", "libera_cpu", "libera_mutex"}
<1>2. /\ Libres \subseteq Puntos /\ Libres \cap ConPid = {}
      /\ Libres \cap ConMutex = {} /\ Libres \cap ConDispositivo = {}
  BY DEF Puntos, ConPid, ConMutex, ConDispositivo, UsaDispositivo
<1>3. CASE PedirBloqueoIO(t) \/ SalirDeExec(t) \/ AnotarEspera(t) \/ Finalizar(t) \/ Heredar(t)
           \/ PedirMemoria(t)
  BY <1>1, <1>2, <1>3, IrTipo DEF PedirBloqueoIO, SalirDeExec, AnotarEspera, Finalizar, Heredar,
     PedirMemoria, TipoHilos
<1>4. CASE FinDeRafaga(t)
  BY <1>1, <1>4, EncolarTipo DEF FinDeRafaga
<1>5. CASE DevolverMemoria(t) \/ FinalizarKM(t)
  BY <1>1, <1>5, EventoTipo DEF DevolverMemoria, FinalizarKM, Continuaciones
<1>6. CASE PedirMutex(t)
  <2>. DEFINE m == Proxima(Pid(t)).arg
              r == [hilo[t] EXCEPT !.en = "busca_exec", !.pid = dueno[m]]
  <2>1. m \in Mutexes
    BY <1>6 DEF PedirMutex
  <2>2. CASE UNCHANGED hilo
    BY <1>1, <2>2 DEF TipoHilos
  <2>3. CASE EsperarMutex(m, Pid(t)) /\ hilo' = [hilo EXCEPT ![t].en = "busca_exec", ![t].pid = dueno[m]]
    <3>1. dueno[m] \in Pids
      BY <2>1, <2>3 DEF EsperarMutex, Inv, TypeOKMutex
    <3>2. "busca_exec" \in Puntos /\ "busca_exec" \notin ConMutex /\ "busca_exec" \notin ConDispositivo
      BY DEF Puntos, ConMutex, ConDispositivo, UsaDispositivo
    <3>3. r \in Locales
      BY <1>1, <3>1, <3>2 DEF LocalesOK, Locales
    <3>4. LocalesOK(r)
      BY <1>1, <3>1, <3>2, <3>3 DEF LocalesOK, Locales
    <3>5. hilo' = [hilo EXCEPT ![t] = r]
      BY <1>1, <2>3 DEF TipoHilos
    <3>. HIDE DEF r
    <3>. QED  BY <1>1, <3>4, <3>5, CambiaUno
  <2>. QED  BY <1>6, <2>2, <2>3 DEF PedirMutex
<1>7. CASE BuscarDueno(t)
  <2>. DEFINE P == {"busca_ready", "busca_block", "a_block", "hereda"}
  <2>1. P \subseteq Puntos /\ P \cap ConMutex = {} /\ P \cap ConDispositivo = {}
    BY DEF Puntos, ConMutex, ConDispositivo, UsaDispositivo
  <2>2. hilo[t].pid \in Pids
    BY <1>1, <1>7 DEF BuscarDueno, Buscar, LocalesOK, ConPid
  <2>3. PICK e \in P : Ir(t, e)
    BY <1>7 DEF BuscarDueno, Buscar
  <2>. QED  BY <1>1, <2>1, <2>2, <2>3, IrTipo
<1>8. CASE DevolverMutex(t)
  BY <1>8, UnlockTipo DEF DevolverMutex
<1>9. CASE Ceder(t)
  <2>1. hilo[t].mtx \in Mutexes
    BY <1>1, <1>9 DEF Ceder, LocalesOK, ConMutex
  <2>2. CASE bloqueados[hilo[t].mtx] # <<>>
    <3>1. Head(bloqueados[hilo[t].mtx]) \in Pids
      BY <2>1, <2>2, HeadTailProperties DEF Inv, TypeOKMutex
    <3>. QED  BY <1>1, <1>9, <2>1, <2>2, <3>1, DesbloquearTipo DEF Ceder, Regresos
  <2>3. CASE bloqueados[hilo[t].mtx] = <<>>
    BY <1>1, <1>9, <2>3, SeguirTipo, EnPunto DEF Ceder, Continuaciones
  <2>. QED  BY <2>2, <2>3
<1>10. CASE AnotarDespertado(t)
  BY <1>1, <1>10, SeguirTipo, EventoTipo, EnPunto DEF AnotarDespertado, Continuaciones
<1>11. CASE LiberarMutex(t)
  <2>1. Pid(t) \in Pids
    BY <1>11, PidAtendido DEF LiberarMutex
  <2>2. Head(tomados[Pid(t)]) \in Mutexes
    BY <1>11, <2>1, HeadTailProperties DEF LiberarMutex, Inv, TypeOKMutex
  <2>. QED  BY <1>11, <2>2, UnlockTipo DEF LiberarMutex
<1>12. CASE EntrarABlock(t)
  BY <1>12, PasoHilosEntrar
<1>13. CASE LiberarCpu(t)
  BY <1>1, <1>13, SeguirTipo DEF LiberarCpu, Terminar
<1>. QED  BY <1>3, <1>4, <1>5, <1>6, <1>7, <1>8, <1>9, <1>10, <1>11, <1>12, <1>13, PasoCpu(t) DEF PasoCpu

LEMMA PasoHilosCP ==
  ASSUME Inv, PasoCP
  PROVE  TipoHilos'
<1>1. HiloCP \in Hilos /\ TipoHilos /\ LocalesOK(hilo[HiloCP])
  BY HilosDistintos, EnPunto DEF Inv
<1>2. CASE TomarReady
  <2>. DEFINE con == {q \in DOMAIN colas_ready : colas_ready[q] # <<>>}
              p == Head(colas_ready[Min(con)])
              r == [hilo[HiloCP] EXCEPT !.en = "despacha", !.pid = p]
  <2>1. CASE con = {}
    BY <1>1, <1>2, <2>1 DEF TomarReady, TipoHilos
  <2>2. CASE con # {}
    <3>1. con \subseteq Nat
      BY DEF Inv, TipoColas
    <3>2. Min(con) \in con
      <4>. HIDE DEF con
      <4>. QED  BY <2>2, <3>1, MinEsElemento
    <3>3. p \in Pids
      BY <3>2, HeadTailProperties DEF Inv, TipoColas
    <3>4. hilo' = [hilo EXCEPT ![HiloCP].en = "despacha", ![HiloCP].pid = p]
      BY <1>2, <2>2 DEF TomarReady
    <3>5. "despacha" \in Puntos /\ "despacha" \notin ConMutex /\ "despacha" \notin ConDispositivo
      BY DEF Puntos, ConMutex, ConDispositivo, UsaDispositivo
    <3>. HIDE DEF p
    <3>6. r \in Locales
      BY <1>1, <3>3, <3>5 DEF LocalesOK, Locales
    <3>7. LocalesOK(r)
      BY <1>1, <3>3, <3>5, <3>6 DEF LocalesOK, Locales
    <3>8. hilo' = [hilo EXCEPT ![HiloCP] = r]
      BY <1>1, <3>4 DEF TipoHilos
    <3>. HIDE DEF r
    <3>. QED  BY <1>1, <3>7, <3>8, CambiaUno
  <2>. QED  BY <2>1, <2>2
<1>3. CASE PasarAExec
  BY <1>1, <1>3, SeguirTipo DEF PasarAExec, Terminar
<1>. QED  BY <1>2, <1>3 DEF PasoCP

LEMMA PasoHilos ==
  ASSUME Inv, [Next]_vars
  PROVE  TipoHilos'
<1>1. ASSUME NEW t \in Hilos, Paso(t) PROVE TipoHilos'
  BY <1>1, PasoHilosMedianoPlazo, PasoHilosIO, PasoHilosCpu, PasoHilosCP DEF Paso, PasoComun
<1>2. CASE UNCHANGED hilo
  BY <1>2 DEF Inv, TipoHilos
<1>. QED  BY <1>1, <1>2 DEF Next, Entorno, varsMP, vars

\* Inheritance and its end move a process between queues that exist.
LEMMA CambiarTipo ==
  ASSUME Inv, NEW p \in Pids, NEW n \in Int, CambiarPrioridad(p, n)
  PROVE  prioridad_actual' \in [Pids -> Int] /\ colas_ready' \in [0 .. CantColas - 1 -> Seq(Pids)]
<1>1. prioridad_actual' \in [Pids -> Int]
  BY DEF CambiarPrioridad, Inv, TipoPcbs
<1>2. CASE UNCHANGED colas_ready
  BY <1>1, <1>2 DEF Inv, TipoColas
<1>3. CASE ~ UNCHANGED colas_ready
  <2>. DEFINE donde == {q \in DOMAIN colas_ready : Contains(colas_ready[q], p)}
              sin == IF donde = {} THEN colas_ready
                     ELSE [colas_ready EXCEPT ![Min(donde)] = RemoveFirst(@, p)]
              q == ColaDeNivel(n)
  <2>1. colas_ready' = [sin EXCEPT ![q] = Append(@, p)]
    BY <1>3 DEF CambiarPrioridad
  <2>2. colas_ready \in [0 .. CantColas - 1 -> Seq(Pids)]
    BY DEF Inv, TipoColas
  <2>3. \A i \in 0 .. CantColas - 1 : RemoveFirst(colas_ready[i], p) \in Seq(Pids)
    BY <2>2, RemoveFirstEsSeq
  <2>4. sin \in [0 .. CantColas - 1 -> Seq(Pids)]
    BY <2>2, <2>3
  <2>5. q \in 0 .. CantColas - 1
    BY ColaEnRango
  <2>. HIDE DEF sin, q
  <2>6. Append(sin[q], p) \in Seq(Pids)
    BY <2>4, <2>5, AppendProperties
  <2>. QED  BY <1>1, <2>1, <2>4, <2>6
<1>. QED  BY <1>2, <1>3

LEMMA UnlockCambia ==
  ASSUME Inv, NEW t \in HilosCpu, Pid(t) \in Pids, NEW m \in Mutexes, NEW e, EmpezarUnlock(t, m, e)
  PROVE  /\ prioridad_actual' \in [Pids -> Int] /\ colas_ready' \in [0 .. CantColas - 1 -> Seq(Pids)]
         /\ TypeOKMutex(Pids)'
<1>1. Original(Pid(t)) \in Int
  BY ConfigTipos DEF Original, Inv, TipoPcbs
<1>2. CambiarPrioridad(Pid(t), Original(Pid(t)))
  BY DEF EmpezarUnlock
<1>3. TypeOKMutex(Pids)'
  <2>1. RemoveFirst(tomados[Pid(t)], m) \in Seq(Mutexes)
    BY RemoveFirstEsSeq DEF Inv, TypeOKMutex
  <2>. QED  BY <2>1 DEF EmpezarUnlock, QuitarDeTomados, Inv, TypeOKMutex
<1>. QED  BY <1>1, <1>2, <1>3, CambiarTipo

\* The thread that looks for an owner has found it.
LEMMA HeredarTipo ==
  ASSUME Inv, NEW t \in HilosCpu, Heredar(t)
  PROVE  prioridad_actual' \in [Pids -> Int] /\ colas_ready' \in [0 .. CantColas - 1 -> Seq(Pids)]
<1>1. Pid(t) \in Pids /\ hilo[t].pid \in Pids
  BY PidAtendido, HilosDistintos, EnPunto DEF Heredar, Inv, ConPid
<1>2. Prioridad(Pid(t)) \in Int
  BY <1>1 DEF Prioridad, Inv, TipoPcbs
<1>3. \/ CambiarPrioridad(hilo[t].pid, Prioridad(Pid(t)))
      \/ UNCHANGED <<prioridad_actual, colas_ready>>
  BY DEF Heredar
<1>. QED  BY <1>1, <1>2, <1>3, CambiarTipo DEF Inv, TipoPcbs, TipoColas

LEMMA LiberaSuyo ==
  ASSUME Inv, NEW t \in HilosCpu, LiberarMutex(t)
  PROVE  Pid(t) \in Pids /\ Head(tomados[Pid(t)]) \in Mutexes
<1>1. Pid(t) \in Pids
  BY PidAtendido DEF LiberarMutex
<1>. QED  BY <1>1, HeadTailProperties DEF LiberarMutex, Inv, TypeOKMutex

\* The PCBs.
LEMMA PasoPcbs ==
  ASSUME Inv, [Next]_vars
  PROVE  TipoPcbs'
<1>. USE DEF TipoPcbs
<1>t. TipoPcbs
  BY DEF Inv
<1>e. {"READY", "EXEC", "BLOCK", "SUSP_BLOCK", "SUSP_READY", "EXIT"} = Estados
  BY DEF Estados
<1>1. ASSUME NEW t \in Hilos, PasoComun(t) PROVE TipoPcbs'
  <2>1. CASE Encolar(t) \/ Suspender(t) \/ TomarEvento(t) \/ Dessuspender(t) \/ FinDeCandidatos(t)
             \/ ReintentarEspera(t) \/ SoltarEvento(t)
    BY <1>t, <1>1, <2>1 DEF PasoComun, Encolar, Suspender, TomarEvento, Dessuspender, FinDeCandidatos,
       ReintentarEspera, SoltarEvento, pcbs
  <2>2. CASE DesbloquearBlock(t)
    <3>1. hilo[t].pid \in Pids
      BY <2>2, EnPunto DEF DesbloquearBlock, Inv, ConPid
    <3>2. bloqueo_id[hilo[t].pid] + 1 \in Nat
      BY <1>t, <3>1
    <3>. QED  BY <1>t, <1>1, <1>e, <2>2, <3>1, <3>2 DEF PasoComun, DesbloquearBlock, pcbs
  <2>3. CASE DesbloquearSusp(t) \/ VencerTimer(t) \/ Volver(t)
    <3>1. UNCHANGED <<config, prioridad_actual, bloqueo_id, paso>>
      BY <1>1, <2>3 DEF PasoComun, DesbloquearSusp, VencerTimer, Volver, pcbs
    <3>2. estado' \in [Pids -> Estados]
      BY <1>t, <1>e, <2>3 DEF DesbloquearSusp, VencerTimer, Volver
    <3>. QED  BY <1>t, <3>1, <3>2
  <2>. QED  BY <1>t, <1>1, <2>1, <2>2, <2>3, SMTT(40) DEF PasoComun, PasoMedianoPlazo
<1>2. ASSUME NEW t \in HilosIO, PasoIO(t) PROVE TipoPcbs'
  BY <1>t, <1>2 DEF PasoIO, pcbs
<1>3. ASSUME NEW t \in HilosCpu, PasoCpu(t) PROVE TipoPcbs'
  <2>1. CASE PedirBloqueoIO(t) \/ PedirMemoria(t) \/ DevolverMemoria(t) \/ PedirMutex(t)
    BY <1>t, <2>1, SMTT(40) DEF PedirBloqueoIO, PedirMemoria, DevolverMemoria, PedirMutex, Recibir, pcbs
  <2>2. CASE FinDeRafaga(t) \/ Finalizar(t)
    <3>1. /\ \E s \in Estados : estado' = [estado EXCEPT ![Pid(t)] = s]
          /\ paso' = [paso EXCEPT ![Pid(t)] = @ + 1]
          /\ UNCHANGED <<config, prioridad_actual, bloqueo_id>>
      BY <1>e, <2>2 DEF FinDeRafaga, Finalizar, Recibir, pcbs
    <3>2. Pid(t) \in Pids /\ paso[Pid(t)] + 1 \in Nat
      BY <1>t, <2>2, PidRecibido DEF FinDeRafaga, Finalizar
    <3>. QED  BY <1>t, <3>1, <3>2
  <2>3. CASE BuscarDueno(t) \/ Ceder(t) \/ AnotarDespertado(t) \/ FinalizarKM(t)
             \/ EntrarABlock(t) \/ AnotarEspera(t) \/ LiberarCpu(t)
    BY <1>t, <2>3 DEF BuscarDueno, Buscar, Ceder, AnotarDespertado, FinalizarKM, EntrarABlock, AnotarEspera,
       LiberarCpu, pcbs
  <2>4. CASE SalirDeExec(t)
    <3>1. /\ \E s \in Estados : estado' = [estado EXCEPT ![Pid(t)] = s]
          /\ bloqueo_id' = [bloqueo_id EXCEPT ![Pid(t)] = @ + 1]
          /\ UNCHANGED <<config, prioridad_actual, paso>>
      BY <1>e, <2>4 DEF SalirDeExec, pcbs
    <3>2. Pid(t) \in Pids /\ bloqueo_id[Pid(t)] + 1 \in Nat
      BY <1>t, <2>4, PidAtendido DEF SalirDeExec
    <3>. QED  BY <1>t, <3>1, <3>2
  <2>5. CASE Heredar(t)
    BY <1>t, <2>5, HeredarTipo DEF Heredar
  <2>6. CASE DevolverMutex(t)
    <3>1. prioridad_actual' \in [Pids -> Int]
      BY <1>t, <2>6, UnlockCambia, PidRecibido DEF DevolverMutex
    <3>2. paso' = [paso EXCEPT ![Pid(t)] = @ + 1] /\ UNCHANGED <<config, estado, bloqueo_id>>
      BY <2>6 DEF DevolverMutex, Recibir
    <3>3. Pid(t) \in Pids /\ paso[Pid(t)] + 1 \in Nat
      BY <1>t, <2>6, PidRecibido DEF DevolverMutex
    <3>. QED  BY <1>t, <3>1, <3>2, <3>3
  <2>7. CASE LiberarMutex(t)
    BY <1>t, <2>7, UnlockCambia, LiberaSuyo DEF LiberarMutex
  <2>. QED  BY <1>t, <1>3, <2>1, <2>2, <2>3, <2>4, <2>5, <2>6, <2>7 DEF PasoCpu
<1>4. CASE PasoCP
  BY <1>t, <1>4 DEF PasoCP, TomarReady, PasarAExec, pcbs, Estados
<1>5. CASE UNCHANGED <<config, estado, prioridad_actual, bloqueo_id, paso>>
  BY <1>t, <1>5
<1>. QED  BY <1>t, <1>1, <1>2, <1>3, <1>4, <1>5 DEF Next, Paso, Entorno, varsMP, vars

\* The queues and lists.
LEMMA PasoColas ==
  ASSUME Inv, [Next]_vars
  PROVE  TipoColas'
<1>. USE DEF TipoColas
<1>t. TipoColas /\ TipoHilos /\ TipoPcbs
  BY DEF Inv
<1>1. ASSUME NEW t \in Hilos, PasoComun(t) PROVE TipoColas'
  <2>1. CASE Encolar(t)
    <3>. DEFINE p == hilo[t].pid
                q == ColaDeNivel(prioridad_actual[p])
    <3>1. p \in Pids /\ prioridad_actual[p] \in Int
      BY <1>t, <2>1, EnPunto DEF Encolar, ConPid, TipoPcbs
    <3>2. q \in 0 .. CantColas - 1
      BY <1>t, <3>1, ColaEnRango
    <3>3. colas_ready' = [colas_ready EXCEPT ![q] = Append(@, p)]
      BY <1>t, <2>1 DEF Encolar
    <3>. HIDE DEF q
    <3>4. Append(colas_ready[q], p) \in Seq(Pids)
      BY <1>t, <3>1, <3>2, AppendProperties
    <3>5. colas_ready' \in [0 .. CantColas - 1 -> Seq(Pids)]
      BY <1>t, <3>2, <3>3, <3>4
    <3>6. sem_ready' = sem_ready + 1 /\ UNCHANGED <<lista_exec, cola_block, suspendidos, lista_espera>>
      BY <2>1 DEF Encolar
    <3>. QED  BY <1>t, <3>5, <3>6 DEF suspendidos
  <2>2. CASE DesbloquearBlock(t) \/ DesbloquearSusp(t)
    BY <1>t, <2>2 DEF DesbloquearBlock, DesbloquearSusp, ready, suspendidos
  <2>3. CASE VencerTimer(t)
    <3>1. t[2] \in Pids
      BY <1>t, <2>3, HilosDistintos DEF VencerTimer
    <3>2. Append(antiguedad, t[2]) \in Seq(Pids)
      BY <1>t, <3>1, AppendProperties
    <3>. QED  BY <1>t, <2>3, <3>1, <3>2 DEF VencerTimer, ready
  <2>4. CASE Suspender(t) \/ TomarEvento(t) \/ Dessuspender(t) \/ FinDeCandidatos(t) \/ SoltarEvento(t)
    BY <1>t, <2>4 DEF Suspender, TomarEvento, Dessuspender, FinDeCandidatos, SoltarEvento, ready, suspendidos
  <2>5. CASE Volver(t)
    <3>1. RemoveFirst(antiguedad, hilo[t].pid) \in Seq(Pids)
      BY <1>t, RemoveFirstEsSeq
    <3>. QED  BY <1>t, <2>5, <3>1 DEF Volver, ready, suspendidos
  <2>6. CASE ReintentarEspera(t)
    <3>1. RemoveFirst(lista_espera, Head(evento.esperas)) \in Seq(Pids)
      BY <1>t, RemoveFirstEsSeq
    <3>. QED  BY <1>t, <2>6, <3>1 DEF ReintentarEspera, ready, suspendidos
  <2>. QED  BY <1>t, <1>1, <2>1, <2>2, <2>3, <2>4, <2>5, <2>6 DEF PasoComun, PasoMedianoPlazo
<1>2. ASSUME NEW t \in HilosIO, PasoIO(t) PROVE TipoColas'
  BY <1>t, <1>2 DEF PasoIO, ready, suspendidos
<1>3. ASSUME NEW t \in HilosCpu, PasoCpu(t) PROVE TipoColas'
  <2>1. CASE PedirBloqueoIO(t) \/ PedirMemoria(t) \/ DevolverMemoria(t) \/ PedirMutex(t)
    BY <1>t, <2>1 DEF PedirBloqueoIO, PedirMemoria, DevolverMemoria, PedirMutex, ready, suspendidos
  <2>2. CASE FinDeRafaga(t) \/ Finalizar(t) \/ SalirDeExec(t)
    BY <1>t, <2>2 DEF FinDeRafaga, Finalizar, SalirDeExec, QuitarDeExec, ready, suspendidos
  <2>3. CASE BuscarDueno(t) \/ Ceder(t) \/ AnotarDespertado(t) \/ FinalizarKM(t) \/ LiberarCpu(t)
    BY <1>t, <2>3 DEF BuscarDueno, Buscar, Ceder, AnotarDespertado, FinalizarKM, LiberarCpu, ready, suspendidos
  <2>4. CASE EntrarABlock(t)
    BY <1>t, <2>4, PidAtendido DEF EntrarABlock, ready, suspendidos
  <2>5. CASE AnotarEspera(t)
    <3>1. Append(lista_espera, Pid(t)) \in Seq(Pids)
      BY <1>t, <2>5, PidAtendido, AppendProperties DEF AnotarEspera
    <3>. QED  BY <1>t, <2>5, <3>1 DEF AnotarEspera, ready, suspendidos
  <2>6. CASE Heredar(t)
    BY <1>t, <2>6, HeredarTipo DEF Heredar, suspendidos
  <2>7. CASE DevolverMutex(t)
    BY <1>t, <2>7, UnlockCambia, PidRecibido DEF DevolverMutex, suspendidos
  <2>8. CASE LiberarMutex(t)
    BY <1>t, <2>8, UnlockCambia, LiberaSuyo DEF LiberarMutex, suspendidos
  <2>. QED  BY <1>t, <1>3, <2>1, <2>2, <2>3, <2>4, <2>5, <2>6, <2>7, <2>8 DEF PasoCpu
<1>4. CASE PasoCP
  <2>1. CASE TomarReady
    <3>. DEFINE con == {q \in DOMAIN colas_ready : colas_ready[q] # <<>>}
    <3>1. CASE con = {}
      BY <1>t, <2>1, <3>1 DEF TomarReady, suspendidos
    <3>2. CASE con # {}
      <4>1. \A q \in con : Tail(colas_ready[q]) \in Seq(Pids)
        BY <1>t, HeadTailProperties
      <4>2. con \subseteq Nat
        BY <1>t
      <4>3. Min(con) \in con
        <5>. HIDE DEF con
        <5>. QED  BY <1>t, <3>2, <4>2, MinEsElemento
      <4>. DEFINE q == Min(con)
      <4>4. /\ colas_ready' = [colas_ready EXCEPT ![q] = Tail(@)] /\ sem_ready' = sem_ready - 1
            /\ sem_ready > 0
            /\ UNCHANGED <<lista_exec, cola_block, suspendidos, lista_espera>>
        BY <1>t, <2>1, <3>2 DEF TomarReady
      <4>5. q \in 0 .. CantColas - 1 /\ Tail(colas_ready[q]) \in Seq(Pids)
        BY <1>t, <4>1, <4>3
      <4>. HIDE DEF q, con
      <4>. QED  BY <1>t, <4>4, <4>5 DEF suspendidos
    <3>. QED  BY <1>t, <3>1, <3>2
  <2>2. CASE PasarAExec
    BY <1>t, <2>2, EnPunto, HilosDistintos DEF PasarAExec, ready, suspendidos, ConPid
  <2>. QED  BY <1>t, <1>4, <2>1, <2>2 DEF PasoCP
<1>5. CASE UNCHANGED <<colas_ready, sem_ready, lista_exec, cola_block, susp_block, susp_ready,
                       antiguedad, lista_espera>>
  BY <1>t, <1>5
<1>. QED  BY <1>t, <1>1, <1>2, <1>3, <1>4, <1>5 DEF Next, Paso, Entorno, varsMP, vars

\* Kernel Memory and the memory event.
LEMMA PasoMemoria ==
  ASSUME Inv, [Next]_vars
  PROVE  TipoMemoria'
<1>. USE DEF TipoMemoria
<1>t. TipoMemoria /\ TipoPcbs /\ TipoColas /\ TipoHilos
  BY DEF Inv
<1>1. ASSUME NEW t \in Hilos, PasoComun(t) PROVE TipoMemoria'
  <2>1. CASE Encolar(t) \/ DesbloquearBlock(t) \/ DesbloquearSusp(t) \/ VencerTimer(t) \/ Volver(t)
    BY <1>t, <2>1 DEF Encolar, DesbloquearBlock, DesbloquearSusp, VencerTimer, Volver
  <2>2. CASE Suspender(t)
    BY <1>t, <2>2 DEF Suspender
  <2>3. CASE TomarEvento(t)
    <3>1. Candidatos \subseteq [pid : Pids, prioridad : Int, turno : Nat]
      <4>1. \A i \in DOMAIN antiguedad : i \in Nat /\ antiguedad[i] \in Pids
        BY <1>t, ElementOfSeq, LenProperties DEF TipoColas
      <4>2. \A p \in Pids : prioridad_actual[p] \in Int
        BY <1>t DEF TipoPcbs
      <4>. QED  BY <4>1, <4>2 DEF Candidatos
    <3>2. <<>> \in Seq(Pids)
      OBVIOUS
    <3>3. evento' = [dueno |-> t, candidatos |-> Candidatos, esperas |-> <<>>] /\ UNCHANGED memoria
      BY <2>3 DEF TomarEvento
    <3>. HIDE DEF Candidatos
    <3>. QED  BY <1>t, <3>1, <3>2, <3>3
  <2>4. CASE Dessuspender(t)
    BY <1>t, <2>4 DEF Dessuspender
  <2>5. CASE FinDeCandidatos(t)
    BY <1>t, <2>5 DEF FinDeCandidatos, TipoColas
  <2>6. CASE ReintentarEspera(t)
    BY <1>t, <2>6, HeadTailProperties DEF ReintentarEspera
  <2>7. CASE SoltarEvento(t)
    BY <1>t, <2>7 DEF SoltarEvento, SinEvento
  <2>. QED  BY <1>1, <2>1, <2>2, <2>3, <2>4, <2>5, <2>6, <2>7 DEF PasoComun, PasoMedianoPlazo
<1>2. ASSUME NEW t \in HilosCpu, PasoCpu(t) PROVE TipoMemoria'
  <2>1. CASE PedirBloqueoIO(t) \/ FinDeRafaga(t) \/ PedirMutex(t) \/ BuscarDueno(t) \/ Heredar(t)
             \/ DevolverMutex(t) \/ Ceder(t) \/ AnotarDespertado(t) \/ Finalizar(t) \/ LiberarMutex(t)
             \/ SalirDeExec(t) \/ EntrarABlock(t) \/ AnotarEspera(t) \/ LiberarCpu(t)
    BY <1>t, <2>1 DEF PedirBloqueoIO, FinDeRafaga, PedirMutex, BuscarDueno, Buscar, Heredar, DevolverMutex,
       Ceder, AnotarDespertado, Finalizar, LiberarMutex, SalirDeExec, EntrarABlock, AnotarEspera, LiberarCpu
  <2>2. CASE PedirMemoria(t) \/ DevolverMemoria(t) \/ FinalizarKM(t)
    BY <1>t, <2>2 DEF PedirMemoria, DevolverMemoria, FinalizarKM
  <2>. QED  BY <1>2, <2>1, <2>2 DEF PasoCpu
<1>3. CASE UNCHANGED <<memoria, evento>>
  BY <1>t, <1>3
<1>. QED  BY <1>1, <1>2, <1>3 DEF Next, Paso, PasoIO, PasoCP, TomarReady, PasarAExec, Entorno, varsMP, vars

\* A step changes the locals of its own thread, but for the one that blocks a
\* process, which starts a timer and the thread of an IO.
LEMMA SoloElSuyo ==
  ASSUME TipoHilos, NEW t \in Hilos, NEW u \in Hilos, u # t, Paso(t)
  PROVE  \/ hilo'[u] = hilo[u]
         \/ /\ t \in HilosCpu /\ EntrarABlock(t)
            /\ \/ /\ u = HiloTimer(Pid(t), bloqueo_id[Pid(t)])
                  /\ hilo'[u] = [hilo[u] EXCEPT !.en = "duerme"]
               \/ /\ u = HiloIO(Pid(t), bloqueo_id[Pid(t)])
                  /\ hilo'[u] = [hilo[u] EXCEPT !.en = "espera_io"]
<1>. USE DEF TipoHilos, Ir, Seguir, Terminar, LlamarEncolar, LlamarDesbloquear, LlamarEvento
<1>1. CASE PasoComun(t)
  BY <1>1 DEF PasoComun, PasoMedianoPlazo, Encolar, DesbloquearBlock, DesbloquearSusp, VencerTimer,
     Suspender, TomarEvento, Dessuspender, Volver, FinDeCandidatos, ReintentarEspera, SoltarEvento
<1>2. CASE PasoIO(t)
  BY <1>2 DEF PasoIO, EsperarDispositivo, TomarDispositivo, PedirDispositivo, LeerOK, FallarIO,
     LiberarDispositivo, PostearDispositivo, TerminarIO
<1>3. CASE t \in HilosCpu /\ PasoCpu(t)
  <2>1. CASE EntrarABlock(t)
    BY <1>3, <2>1 DEF EntrarABlock
  <2>2. CASE ~ EntrarABlock(t)
    BY <1>3, <2>2 DEF PasoCpu, PedirBloqueoIO, FinDeRafaga, PedirMemoria, DevolverMemoria, PedirMutex,
       BuscarDueno, Buscar, Heredar, DevolverMutex, EmpezarUnlock, Ceder, AnotarDespertado, Finalizar,
       LiberarMutex, FinalizarKM, SalirDeExec, AnotarEspera, LiberarCpu
  <2>. QED  BY <2>1, <2>2
<1>4. CASE t = HiloCP /\ PasoCP
  BY <1>4 DEF PasoCP, TomarReady, PasarAExec
<1>. QED  BY <1>1, <1>2, <1>3, <1>4, SMTT(40) DEF Paso

\* A thread of a CPU that is at rest is set going by what its process asks for.
LEMMA DesdeReposo ==
  ASSUME Inv, NEW t \in HilosCpu, Paso(t), hilo[t].en = "reposo"
  PROVE  Pid(t) \in Pids /\ Pid(t) \in lista_exec /\ UNCHANGED cpu
<1>1. t \notin HilosIO /\ t \notin HilosTimer /\ t # HiloCP
  BY HilosDistintos
<1>2. ~ PasoComun(t)
  BY <1>1 DEF PasoComun, PasoMedianoPlazo, Encolar, DesbloquearBlock, DesbloquearSusp, VencerTimer,
     Suspender, TomarEvento, Dessuspender, Volver, FinDeCandidatos, ReintentarEspera, SoltarEvento
<1>3. PasoCpu(t)
  BY <1>1, <1>2 DEF Paso
<1>4. \E o : Recibir(t, o)
  BY <1>3 DEF PasoCpu, PedirBloqueoIO, FinDeRafaga, PedirMemoria, DevolverMemoria, PedirMutex,
     BuscarDueno, Buscar, Heredar, DevolverMutex, Ceder, AnotarDespertado, Finalizar,
     LiberarMutex, FinalizarKM, SalirDeExec, EntrarABlock, AnotarEspera, LiberarCpu
<1>. QED  BY <1>4, PidRecibido DEF Recibir

LEMMA PasoTipoCpu ==
  ASSUME Inv, [Next]_vars
  PROVE  TipoCpu'
<1>t. TipoCpu /\ TipoHilos
  BY DEF Inv
<1>1. ASSUME NEW t \in Hilos, Paso(t) PROVE TipoCpu'
  <2>1. CASE t \in HilosCpu /\ LiberarCpu(t)
    <3>1. cpu' = [cpu EXCEPT ![t[2]] = NADA] /\ hilo' = [hilo EXCEPT ![t] = [EnReposo EXCEPT !.en = "reposo"]]
      BY <2>1 DEF LiberarCpu, Terminar, Seguir
    <3>2. \A c \in Cpus : HiloCpu(c) \in Hilos /\ (HiloCpu(c) = t => c = t[2])
      BY HilosDistintos
    <3>3. hilo'[t].en = "reposo"
      BY <1>t, <3>1 DEF TipoHilos, EnReposo
    <3>4. t[2] \in Cpus /\ t = HiloCpu(t[2])
      BY <2>1, HilosDistintos
    <3>. QED  BY <1>t, <3>1, <3>2, <3>3, <3>4 DEF TipoCpu, TipoHilos
  <2>2. CASE t = HiloCP /\ PasarAExec
    <3>1. hilo[HiloCP].pid \in Pids
      BY <1>t, <2>2, EnPunto, HilosDistintos DEF PasarAExec, ConPid
    <3>2. \E c \in Cpus \cup {0} : cpu' = [cpu EXCEPT ![c] = hilo[HiloCP].pid]
      <4>1. CpusLibres \subseteq DOMAIN config.cpus /\ CpusLibres # {}
        BY <2>2 DEF PasarAExec, CpusLibres
      <4>2. config.cpus \in Seq(Cpus)
        BY ConfigTipos DEF Inv, TipoPcbs
      <4>3. DOMAIN config.cpus \subseteq Nat /\ \A i \in DOMAIN config.cpus : config.cpus[i] \in Cpus
        BY <4>2, ElementOfSeq, LenProperties
      <4>4. Min(CpusLibres) \in CpusLibres
        BY <4>1, <4>3, MinEsElemento
      <4>. QED  BY <2>2, <4>1, <4>3, <4>4 DEF PasarAExec
    <3>3. \A c \in Cpus : HiloCpu(c) \in Hilos /\ HiloCpu(c) # HiloCP
      BY HilosDistintos
    <3>4. \A c \in Cpus : hilo'[HiloCpu(c)] = hilo[HiloCpu(c)]
      BY <1>t, <2>2, <3>3 DEF PasarAExec, Terminar, Seguir, TipoHilos
    <3>. QED  BY <1>t, <3>1, <3>2, <3>4 DEF TipoCpu
  <2>3. CASE ~ (t \in HilosCpu /\ LiberarCpu(t)) /\ ~ (t = HiloCP /\ PasarAExec)
    <3>1. UNCHANGED cpu
      BY <1>1, <2>3 DEF Paso, PasoComun, PasoIO, PasoCP, TomarReady, PasoCpu, PedirBloqueoIO, FinDeRafaga,
         PedirMemoria, DevolverMemoria, PedirMutex, BuscarDueno, Buscar, Heredar, DevolverMutex, Ceder,
         AnotarDespertado, Finalizar, LiberarMutex, FinalizarKM, SalirDeExec, EntrarABlock, AnotarEspera,
         Recibir
    <3>2. ASSUME NEW c \in Cpus, hilo'[HiloCpu(c)].en # "reposo" PROVE cpu[c] \in Pids
      <4>1. HiloCpu(c) \in HilosCpu /\ HiloCpu(c) \in Hilos /\ HiloCpu(c)[2] = c
            /\ HiloCpu(c) \notin HilosIO /\ HiloCpu(c) \notin HilosTimer
        BY HilosDistintos
      <4>2. CASE hilo[HiloCpu(c)].en # "reposo"
        BY <1>t, <4>2 DEF TipoCpu
      <4>3. CASE hilo[HiloCpu(c)].en = "reposo" /\ HiloCpu(c) = t
        BY <1>1, <4>1, <4>3, DesdeReposo DEF Pid
      <4>4. CASE hilo[HiloCpu(c)].en = "reposo" /\ HiloCpu(c) # t
        <5>1. /\ HiloCpu(c) # HiloTimer(Pid(t), bloqueo_id[Pid(t)])
              /\ HiloCpu(c) # HiloIO(Pid(t), bloqueo_id[Pid(t)])
          BY DEF HiloCpu, HiloTimer, HiloIO
        <5>. QED  BY <1>t, <1>1, <3>2, <4>1, <4>4, <5>1, SoloElSuyo
      <4>. QED  BY <4>2, <4>3, <4>4
    <3>. QED  BY <1>t, <3>1, <3>2 DEF TipoCpu
  <2>. QED  BY <2>1, <2>2, <2>3
<1>2. CASE UNCHANGED <<cpu, hilo>>
  BY <1>t, <1>2 DEF TipoCpu
<1>. QED  BY <1>1, <1>2 DEF Next, Entorno, varsMP, vars

\* The mutexes.
LEMMA PasoMutex ==
  ASSUME Inv, [Next]_vars
  PROVE  TypeOKMutex(Pids)'
<1>t. TypeOKMutex(Pids) /\ TipoHilos
  BY DEF Inv
<1>0. ASSUME UNCHANGED varsM PROVE TypeOKMutex(Pids)'
  BY <1>t, <1>0 DEF TypeOKMutex, varsM
<1>1. ASSUME NEW t \in HilosCpu, PasoCpu(t) PROVE TypeOKMutex(Pids)'
  <2>h. t \in Hilos
    BY HilosDistintos
  <2>1. CASE PedirBloqueoIO(t) \/ FinDeRafaga(t) \/ PedirMemoria(t) \/ DevolverMemoria(t)
             \/ BuscarDueno(t) \/ Heredar(t) \/ Finalizar(t) \/ FinalizarKM(t)
             \/ SalirDeExec(t) \/ EntrarABlock(t) \/ AnotarEspera(t) \/ LiberarCpu(t)
    BY <1>0, <2>1 DEF PedirBloqueoIO, FinDeRafaga, PedirMemoria, DevolverMemoria, BuscarDueno, Buscar,
       Heredar, Finalizar, FinalizarKM, SalirDeExec, EntrarABlock, AnotarEspera, LiberarCpu
  <2>2. CASE PedirMutex(t)
    <3>1. Pid(t) \in Pids /\ Proxima(Pid(t)).arg \in Mutexes
      BY <2>2, PidRecibido DEF PedirMutex
    <3>2. CASE TomarMutex(Proxima(Pid(t)).arg, Pid(t))
      <4>1. Append(tomados[Pid(t)], Proxima(Pid(t)).arg) \in Seq(Mutexes)
        BY <1>t, <3>1, AppendProperties DEF TypeOKMutex
      <4>. QED  BY <1>t, <3>1, <3>2, <4>1 DEF TypeOKMutex, TomarMutex
    <3>3. CASE EsperarMutex(Proxima(Pid(t)).arg, Pid(t))
      <4>1. Append(bloqueados[Proxima(Pid(t)).arg], Pid(t)) \in Seq(Pids)
        BY <1>t, <3>1, AppendProperties DEF TypeOKMutex
      <4>. QED  BY <1>t, <3>1, <3>3, <4>1 DEF TypeOKMutex, EsperarMutex
    <3>. QED  BY <2>2, <3>2, <3>3 DEF PedirMutex
  <2>3. CASE DevolverMutex(t)
    BY <2>3, UnlockCambia, PidRecibido DEF DevolverMutex
  <2>4. CASE LiberarMutex(t)
    BY <2>4, UnlockCambia, LiberaSuyo DEF LiberarMutex
  <2>5. CASE Ceder(t)
    <3>. DEFINE m == hilo[t].mtx
    <3>1. m \in Mutexes
      BY <1>t, <2>h, <2>5, EnPunto DEF Ceder, ConMutex
    <3>2. bloqueados[m] # <<>> => Head(bloqueados[m]) \in Pids /\ Tail(bloqueados[m]) \in Seq(Pids)
      BY <1>t, <3>1, HeadTailProperties DEF TypeOKMutex
    <3>3. CederMutex(m)
      BY <2>5 DEF Ceder
    <3>. HIDE DEF m
    <3>. QED  BY <1>t, <3>1, <3>2, <3>3 DEF TypeOKMutex, CederMutex
  <2>6. CASE AnotarDespertado(t)
    <3>1. hilo[t].mtx \in Mutexes /\ hilo[t].pid \in Pids
      BY <1>t, <2>h, <2>6, EnPunto DEF AnotarDespertado, ConMutex, ConPid
    <3>2. Append(tomados[hilo[t].pid], hilo[t].mtx) \in Seq(Mutexes)
      BY <1>t, <3>1, AppendProperties DEF TypeOKMutex
    <3>3. UNCHANGED varsM \/ AnotarTomado(hilo[t].mtx, hilo[t].pid)
      BY <2>6 DEF AnotarDespertado
    <3>. QED  BY <1>t, <1>0, <3>1, <3>2, <3>3 DEF TypeOKMutex, AnotarTomado
  <2>. QED  BY <1>1, <2>1, <2>2, <2>3, <2>4, <2>5, <2>6 DEF PasoCpu
<1>. QED  BY <1>0, <1>1 DEF Next, Paso, PasoComun, PasoIO, PasoCP, TomarReady, PasarAExec, Entorno, vars

\* The steps of the threads other than those of the IOs do not touch the pool.
LEMMA SinPool ==
  /\ PasoCP => UNCHANGED varsIO
  /\ \A t : PasoComun(t) => UNCHANGED varsIO
  /\ \A t : PasoCpu(t) => UNCHANGED varsIO
BY DEF PasoComun, PasoCP, TomarReady, PasarAExec, PasoCpu, PedirBloqueoIO, FinDeRafaga, PedirMemoria,
   DevolverMemoria, PedirMutex, BuscarDueno, Buscar, Heredar, DevolverMutex, Ceder, AnotarDespertado,
   Finalizar, LiberarMutex, FinalizarKM, SalirDeExec, EntrarABlock, AnotarEspera, LiberarCpu

\* A semaphore that changes keeps its tokens natural.
LEMMA FichasTipo ==
  ASSUME NEW S, NEW f \in [S -> Nat], NEW k, NEW v, k \in S => v \in Nat
  PROVE  [f EXCEPT ![k] = v] \in [S -> Nat]
OBVIOUS

\* The device pool and the programs.
LEMMA PasoPool ==
  ASSUME Inv, [Next]_vars
  PROVE  TypeOKIO(Pids)'
<1>t. TypeOKIO(Pids) /\ TipoHilos
  BY DEF Inv
<1>. USE DEF TypeOKIO, pool
<1>0. ASSUME UNCHANGED varsIO PROVE TypeOKIO(Pids)'
  BY <1>t, <1>0 DEF varsIO
<1>1. ASSUME NEW t \in HilosIO, PasoIO(t) PROVE TypeOKIO(Pids)'
  <2>h. t \in Hilos /\ t[2] \in Pids
    BY HilosDistintos
  <2>. DEFINE d == hilo[t].disp
  <2>d. ConDispositivo = {"pide_io", "espera_ok", "libera_io", "postea_io"}
    BY DEF ConDispositivo, UsaDispositivo
  <2>1. CASE EsperarDispositivo(t)
    <3>. DEFINE k == TipoPedido(t[2])
    <3>1. sem_io[k] > 0 /\ sem_io' = [sem_io EXCEPT ![k] = sem_io[k] - 1]
          /\ UNCHANGED <<ios_conectados, libre, desconectado, programa, linea>>
      BY <2>1 DEF EsperarDispositivo, EsperarIO
    <3>. HIDE DEF k
    <3>2. k \in TiposIO => sem_io[k] - 1 \in Nat
      BY <1>t, <3>1
    <3>3. sem_io' \in [TiposIO -> Nat]
      BY <1>t, <3>1, <3>2, FichasTipo
    <3>. QED  BY <1>t, <3>1, <3>3
  <2>2. CASE TomarDispositivo(t)
    BY <1>t, <2>2 DEF TomarDispositivo, TomarIO
  <2>3. CASE PedirDispositivo(t)
    BY <1>t, <2>h, <2>3 DEF PedirDispositivo, PedirIO, Pedido
  <2>4. CASE LeerOK(t)
    BY <1>t, <2>4 DEF LeerOK, LeerRespuesta, LineaVacia
  <2>5. CASE FallarIO(t)
    <3>1. d \in Dispositivos
      BY <1>t, <2>d, <2>h, <2>5, EnPunto DEF FallarIO
    <3>2. RemoveFirst(ios_conectados, d) \in Seq(Dispositivos)
      BY <1>t, RemoveFirstEsSeq
    <3>3. TipoDe[d] \in TiposIO /\ sem_io[TipoDe[d]] \in Nat
      BY <1>t, <3>1, DispositivosOK
    <3>4. RemoverIO(d)
      BY <2>5 DEF FallarIO
    <3>. DEFINE v == IF sem_io[TipoDe[d]] > 0 THEN sem_io[TipoDe[d]] - 1 ELSE sem_io[TipoDe[d]]
    <3>. HIDE DEF d
    <3>5. v \in Nat
      BY <3>3
    <3>6. UNCHANGED sem_io \/ sem_io' = [sem_io EXCEPT ![TipoDe[d]] = v]
      BY <3>4 DEF RemoverIO
    <3>. HIDE DEF v
    <3>7. sem_io' \in [TiposIO -> Nat]
      BY <1>t, <3>5, <3>6, FichasTipo
    <3>8. ios_conectados' \in Seq(Dispositivos)
      BY <1>t, <3>2, <3>4 DEF RemoverIO
    <3>9. desconectado' \in [Dispositivos -> BOOLEAN] /\ UNCHANGED <<libre, programa, linea>>
      BY <1>t, <3>4 DEF RemoverIO
    <3>. QED  BY <1>t, <3>7, <3>8, <3>9
  <2>6. CASE LiberarDispositivo(t)
    <3>1. RemoveFirst(ios_conectados, d) \in Seq(Dispositivos)
      BY <1>t, RemoveFirstEsSeq
    <3>2. d \in Dispositivos
      BY <1>t, <2>d, <2>h, <2>6, EnPunto DEF LiberarDispositivo
    <3>3. LiberarIO(d)
      BY <2>6 DEF LiberarDispositivo
    <3>. HIDE DEF d
    <3>. QED  BY <1>t, <3>1, <3>2, <3>3 DEF LiberarIO
  <2>7. CASE PostearDispositivo(t)
    <3>1. d \in Dispositivos /\ PostearIO(d)
      BY <1>t, <2>d, <2>h, <2>7, EnPunto DEF PostearDispositivo
    <3>2. TipoDe[d] \in TiposIO /\ sem_io[TipoDe[d]] \in Nat
      BY <1>t, <3>1, DispositivosOK
    <3>. HIDE DEF d
    <3>. QED  BY <1>t, <3>1, <3>2 DEF PostearIO
  <2>8. CASE TerminarIO(t)
    BY <1>0, <2>8 DEF TerminarIO
  <2>. QED  BY <1>1, <2>1, <2>2, <2>3, <2>4, <2>5, <2>6, <2>7, <2>8 DEF PasoIO
<1>2. ASSUME NEW d \in Dispositivos, RegistrarIO(d) \/ CaerIO(d) \/ PostearConexion(d) \/ Atender(d)
      PROVE  TypeOKIO(Pids)'
  <2>1. CASE RegistrarIO(d)
    <3>1. Append(ios_conectados, d) \in Seq(Dispositivos)
      BY <1>t, AppendProperties
    <3>. QED  BY <1>t, <2>1, <3>1 DEF RegistrarIO
  <2>2. CASE CaerIO(d)
    BY <1>t, <2>2 DEF CaerIO, LineaVacia
  <2>3. CASE PostearConexion(d)
    <3>1. TipoDe[d] \in TiposIO /\ sem_io[TipoDe[d]] \in Nat
      BY <1>t, DispositivosOK
    <3>. QED  BY <1>t, <2>3, <3>1 DEF PostearConexion
  <2>4. CASE Atender(d)
    BY <1>t, <2>4 DEF Atender, Respuesta
  <2>. QED  BY <1>2, <2>1, <2>2, <2>3, <2>4
<1>. HIDE DEF TypeOKIO, pool
<1>3. CASE \E t \in Hilos : Paso(t)
  <2>1. PICK t \in Hilos : Paso(t)
    BY <1>3
  <2>2. CASE t \in HilosIO /\ PasoIO(t)
    BY <1>1, <2>2
  <2>3. CASE PasoComun(t)
    BY <1>0, <2>3, SinPool, Zenon
  <2>4. CASE PasoCP
    BY <1>0, <2>4, SinPool, Zenon
  <2>5. CASE t \in HilosCpu /\ PasoCpu(t)
    BY <1>0, <2>5, SinPool, Zenon
  <2>. QED  BY <2>1, <2>2, <2>3, <2>4, <2>5, Zenon DEF Paso
<1>4. CASE UNCHANGED vars
  BY <1>0, <1>4 DEF vars
<1>5. ASSUME NEW d \in Dispositivos,
             \/ d \in config.conectan /\ Entorno(RegistrarIO(d))
             \/ d \in config.caen /\ Entorno(CaerIO(d))
             \/ Entorno(PostearConexion(d)) \/ Entorno(Atender(d))
      PROVE  TypeOKIO(Pids)'
  <2>1. RegistrarIO(d) \/ CaerIO(d) \/ PostearConexion(d) \/ Atender(d)
    BY <1>5, Zenon DEF Entorno
  <2>. QED  BY <1>2, <2>1
<1>6. CASE Next
  BY <1>3, <1>5, <1>6, Zenon DEF Next
<1>. QED  BY <1>4, <1>6

LEMMA InitInv == Init => Inv
<1>. SUFFICES ASSUME Init PROVE Inv
  OBVIOUS
<1>c. config \in Configuraciones
  BY DEF Init
<1>. USE <1>c, ConfigTipos
<1>1. TipoPcbs
  BY DEF Init, TipoPcbs, Estados
<1>2. TipoColas
  <2>1. Creados \subseteq Pids /\ IsFiniteSet(Creados)
    BY ProcesosOK, FS_Subset DEF Creados
  <2>. HIDE DEF Creados
  <2>2. Cardinality(Creados) \in Nat
    BY <2>1, FS_CardinalityType
  <2>. QED  BY <2>2 DEF Init, TipoColas
<1>3. TipoMemoria
  BY DEF Init, TipoMemoria, SinEvento
<1>4. TipoHilos
  <2>1. LocalesOK(EnReposo)
    BY DEF LocalesOK, Locales, EnReposo, Puntos, Regresos, Continuaciones, ConPid, ConMutex,
           ConDispositivo, UsaDispositivo
  <2>. QED  BY <2>1 DEF Init, TipoHilos
<1>5. TipoCpu
  BY HilosDistintos DEF Init, TipoCpu, EnReposo
<1>6. TypeOKMutex(Pids)
  BY DEF Init, InitMutex, TypeOKMutex
<1>7. TypeOKIO(Pids)
  <2>1. \A k \in TiposIO :
          Cardinality({d \in Dispositivos : Contains(config.ios, d) /\ TipoDe[d] = k}) \in Nat
    <3>1. TAKE k \in TiposIO
    <3>. DEFINE S == {d \in Dispositivos : Contains(config.ios, d) /\ TipoDe[d] = k}
    <3>2. IsFiniteSet(S)
      BY DispositivosOK, FS_Subset
    <3>. QED  BY <3>2, FS_CardinalityType
  <2>2. \A d \in Dispositivos : Contains(config.ios, d) \in BOOLEAN
    BY DEF Contains
  <2>. QED  BY <2>1, <2>2 DEF Init, InitIO, TypeOKIO, LineaVacia
<1>. QED  BY <1>1, <1>2, <1>3, <1>4, <1>5, <1>6, <1>7 DEF Inv

LEMMA PasoInv == Inv /\ [Next]_vars => Inv'
BY PasoPcbs, PasoColas, PasoMemoria, PasoHilos, PasoTipoCpu, PasoMutex, PasoPool DEF Inv

LEMMA InvEsTipo == Inv => TypeOK
<1>. SUFFICES ASSUME Inv PROVE TypeOK
  OBVIOUS
<1>1. Regresos \subseteq Puntos /\ Continuaciones \subseteq Puntos
  BY DEF Regresos, Continuaciones, Puntos
<1>2. hilo \in [Hilos -> [en : Puntos, pid : Pids \cup {NADA}, disp : Dispositivos \cup {NADA},
                         mtx : Mutexes \cup {NADA}, fue : {"nada", "ready", "susp"},
                         tras : Puntos, luego : Puntos]]
  BY <1>1 DEF Inv, TipoHilos, LocalesOK, Locales
<1>. QED  BY <1>2 DEF Inv, TypeOK, TipoPcbs, TipoColas, TipoMemoria, TipoCpu

\* Every variable keeps its type, through every block, suspension, return, unlock
\* and loss of a device: the threads of the scheduler never act on a process, a
\* mutex or a device that is not one, and no semaphore goes below zero.
THEOREM TipoCorrecto == Spec => []TypeOK
<1>1. Init => Inv
  BY InitInv
<1>2. Inv /\ [Next]_vars => Inv'
  BY PasoInv
<1>3. Inv => TypeOK
  BY InvEsTipo
<1>. QED  BY <1>1, <1>2, <1>3, PTL DEF Spec

-----------------------------------------------------------------------------
(* The devices.  That nobody else uses the device a thread found free needs   *)
(* more than the pool: a device in use is not free, and one that connects     *)
(* again under a name in use would be.                                        *)

Ocupa(t) == hilo[t].en \in UsaDispositivo
Vivos == {d \in Dispositivos : programa[d] # "apagado"}

InvUso ==
  /\ ios_conectados \in Seq(Vivos)
  /\ \A t \in HilosIO : Ocupa(t) => ~libre[hilo[t].disp] /\ hilo[t].disp \in Vivos
  /\ \A t, u \in HilosIO : Ocupa(t) /\ Ocupa(u) /\ hilo[t].disp = hilo[u].disp => t = u

\* A device that has been started is not one that never was.
LEMMA VivosCrecen ==
  ASSUME Inv, [Next]_vars
  PROVE  Vivos \subseteq Vivos' /\ \A d \in Dispositivos : RegistrarIO(d) => d \in Vivos' \ Vivos
<1>t. programa \in [Dispositivos -> {"apagado", "conecta", "atiende", "caido"}]
  BY DEF Inv, TypeOKIO
<1>1. \A d \in Dispositivos : RegistrarIO(d) => d \in Vivos' \ Vivos /\ Vivos \subseteq Vivos'
  BY <1>t DEF RegistrarIO, Vivos
<1>2. \A d \in Dispositivos : CaerIO(d) \/ PostearConexion(d) \/ Atender(d) => Vivos \subseteq Vivos'
  BY <1>t DEF CaerIO, PostearConexion, Atender, Vivos
<1>3. \A t : PasoIO(t) => UNCHANGED programa
  BY DEF PasoIO, EsperarDispositivo, TomarDispositivo, PedirDispositivo, LeerOK, FallarIO, LiberarDispositivo,
     PostearDispositivo, TerminarIO, EsperarIO, TomarIO, PedirIO, LeerRespuesta, RemoverIO, LiberarIO,
     PostearIO, varsIO
<1>4. \A t \in Hilos : Paso(t) => UNCHANGED programa
  BY <1>3, SinPool, Zenon DEF Paso, varsIO
<1>5. UNCHANGED programa => Vivos \subseteq Vivos'
  BY DEF Vivos
<1>6. UNCHANGED vars => UNCHANGED programa
  BY DEF vars, varsIO
<1>7. Next => Vivos \subseteq Vivos'
  <2>1. CASE \E t \in Hilos : Paso(t)
    BY <1>4, <1>5, <2>1, Zenon
  <2>2. ASSUME NEW d \in Dispositivos,
               \/ Entorno(RegistrarIO(d)) \/ Entorno(CaerIO(d))
               \/ Entorno(PostearConexion(d)) \/ Entorno(Atender(d))
        PROVE  Vivos \subseteq Vivos'
    BY <1>1, <1>2, <2>2, Zenon DEF Entorno
  <2>. QED  BY <2>1, <2>2, Zenon DEF Next
<1>. QED  BY <1>1, <1>5, <1>6, <1>7

\* Only hilo_ejecutar_io takes a device.
LEMMA SinUsoNuevo ==
  ASSUME Inv, NEW t \in Hilos, Paso(t), NEW u \in HilosIO, Ocupa(u)', ~ (u = t /\ PasoIO(t))
  PROVE  Ocupa(u) /\ hilo'[u] = hilo[u]
<1>t. TipoHilos /\ u \in Hilos
  BY HilosDistintos DEF Inv
<1>1. CASE u # t
  <2>1. hilo'[u].en \in UsaDispositivo
    BY DEF Ocupa
  <2>2. hilo'[u] = hilo[u] \/ hilo'[u] = [hilo[u] EXCEPT !.en = "duerme"]
        \/ hilo'[u] = [hilo[u] EXCEPT !.en = "espera_io"]
    BY <1>t, <1>1, SoloElSuyo
  <2>3. "en" \in DOMAIN hilo[u]
    BY <1>t DEF TipoHilos, LocalesOK, Locales
  <2>4. hilo'[u] = hilo[u]
    BY <2>1, <2>2, <2>3 DEF UsaDispositivo
  <2>. QED  BY <2>1, <2>4 DEF Ocupa
<1>2. CASE u = t
  <2>1. PasoMedianoPlazo(t)
    BY <1>2, HilosDistintos DEF Paso, PasoComun
  <2>2. hilo[t].tras \notin UsaDispositivo /\ t \notin HilosTimer /\ hilo[t].luego \notin UsaDispositivo
    BY <1>t, <1>2, EnPunto, HilosDistintos DEF ConDispositivo, Continuaciones, UsaDispositivo
  <2>3. hilo'[t].en \notin UsaDispositivo \/ hilo' = hilo
    <3>. USE DEF UsaDispositivo
    <3>0. hilo = [v \in Hilos |-> hilo[v]] /\ hilo[t] \in Locales
      BY <1>t, <1>2 DEF TipoHilos, LocalesOK
    <3>1. CASE Encolar(t)
      BY <1>t, <1>2, <2>2, <3>0, <3>1 DEF Encolar, Ir, Locales
    <3>2. CASE DesbloquearBlock(t)
      BY <1>t, <1>2, <2>2, <3>0, <3>2 DEF DesbloquearBlock, Ir, Locales
    <3>3. CASE DesbloquearSusp(t)
      BY <1>t, <1>2, <2>2, <3>0, <3>3 DEF DesbloquearSusp, Ir, Locales
    <3>4. CASE VencerTimer(t) \/ Suspender(t)
      BY <2>2, <3>4 DEF VencerTimer, Suspender
    <3>5. CASE TomarEvento(t) \/ FinDeCandidatos(t)
      BY <1>t, <1>2, <3>0, <3>5 DEF TomarEvento, FinDeCandidatos, Ir, Locales
    <3>6. CASE Dessuspender(t)
      <4>1. PICK p : hilo' = [hilo EXCEPT ![t].en = "vuelve", ![t].pid = p] \/ hilo' = hilo
        BY <3>6 DEF Dessuspender
      <4>. QED  BY <1>t, <1>2, <3>0, <4>1 DEF Locales
    <3>7. CASE Volver(t)
      BY <1>t, <1>2, <3>0, <3>7 DEF Volver, Ir, LlamarEncolar, Locales
    <3>8. CASE ReintentarEspera(t)
      BY <1>t, <1>2, <3>0, <3>8 DEF ReintentarEspera, LlamarDesbloquear, Locales
    <3>9. CASE SoltarEvento(t)
      BY <1>t, <1>2, <2>2, <3>0, <3>9 DEF SoltarEvento, Seguir, EnReposo
    <3>. QED  BY <2>1, <3>1, <3>2, <3>3, <3>4, <3>5, <3>6, <3>7, <3>8, <3>9 DEF PasoMedianoPlazo
  <2>. QED  BY <1>2, <2>3 DEF Ocupa
<1>. QED  BY <1>1, <1>2

\* What a step of the thread of an IO leaves to the others.
LEMMA PasoUsoIO ==
  ASSUME Inv, InvUso, NEW t \in HilosIO, PasoIO(t)
  PROVE  InvUso'
<1>t. TipoHilos /\ TypeOKIO(Pids) /\ t \in Hilos
  BY HilosDistintos DEF Inv
<1>. DEFINE d == hilo[t].disp
<1>1. \A u \in HilosIO : u # t => hilo'[u] = hilo[u]
  BY <1>t, HilosDistintos, SoloElSuyo DEF Paso
<1>2. UNCHANGED Vivos
  BY DEF PasoIO, EsperarDispositivo, TomarDispositivo, PedirDispositivo, LeerOK, FallarIO, LiberarDispositivo,
     PostearDispositivo, TerminarIO, EsperarIO, TomarIO, PedirIO, LeerRespuesta, RemoverIO, LiberarIO,
     PostearIO, varsIO, Vivos
<1>3. ios_conectados' \in Seq(Vivos)
  <2>1. ios_conectados' \in {ios_conectados, RemoveFirst(ios_conectados, d)}
    BY DEF PasoIO, EsperarDispositivo, TomarDispositivo, PedirDispositivo, LeerOK, FallarIO, LiberarDispositivo,
       PostearDispositivo, TerminarIO, EsperarIO, TomarIO, PedirIO, LeerRespuesta, RemoverIO, LiberarIO,
       PostearIO, varsIO, pool
  <2>2. ios_conectados \in Seq(Vivos)
    BY DEF InvUso
  <2>. HIDE DEF d
  <2>. QED  BY <2>1, <2>2, RemoveFirstEsSeq
<1>4. CASE TomarDispositivo(t)
  <2>. DEFINE E == Elegibles(TipoPedido(t[2]))
              e == ios_conectados[Min(E)]
  <2>1. E \subseteq DOMAIN ios_conectados /\ E # {}
    BY <1>4 DEF TomarDispositivo, Elegibles
  <2>2. DOMAIN ios_conectados \subseteq Nat
    BY <1>t, LenProperties DEF TypeOKIO
  <2>3. Min(E) \in E
    <3>. HIDE DEF E
    <3>. QED  BY <2>1, <2>2, MinEsElemento
  <2>4. e \in Vivos /\ e \in Dispositivos /\ libre[e]
    <3>1. e \in Vivos
      BY <2>1, <2>3, ElementOfSeq, LenProperties DEF InvUso
    <3>2. libre[e]
      BY <2>3 DEF Elegibles
    <3>. QED  BY <3>1, <3>2 DEF Vivos
  <2>5. libre' = [libre EXCEPT ![e] = FALSE] /\ hilo'[t].en = "pide_io" /\ hilo'[t].disp = e
    BY <1>t, <1>4 DEF TomarDispositivo, TomarIO, ElegidoIO, TipoHilos, LocalesOK, Locales
  <2>. HIDE DEF e, E
  <2>6. libre \in [Dispositivos -> BOOLEAN]
    BY <1>t DEF TypeOKIO
  <2>7. \A u \in HilosIO : Ocupa(u)' /\ u # t =>
          Ocupa(u) /\ hilo'[u] = hilo[u] /\ hilo[u].disp # e /\ hilo[u].disp \in Vivos /\ ~libre[hilo[u].disp]
    BY <1>1, <2>4 DEF InvUso, Ocupa
  <2>8. \A u \in HilosIO : Ocupa(u)' => ~libre'[hilo'[u].disp] /\ hilo'[u].disp \in Vivos
    BY <2>4, <2>5, <2>6, <2>7 DEF Vivos
  <2>9. \A u, w \in HilosIO : Ocupa(u)' /\ Ocupa(w)' /\ hilo'[u].disp = hilo'[w].disp => u = w
    BY <2>5, <2>7 DEF InvUso
  <2>. QED  BY <1>2, <1>3, <2>8, <2>9 DEF InvUso
<1>5. CASE ~ TomarDispositivo(t)
  <2>1. Ocupa(t)' => Ocupa(t) /\ hilo'[t].disp = d /\ UNCHANGED libre
    <3>1. CASE PedirDispositivo(t) \/ LeerOK(t)
      BY <1>t, <3>1 DEF PedirDispositivo, LeerOK, Ir, PedirIO, LeerRespuesta, pool, Ocupa, UsaDispositivo,
         TipoHilos, LocalesOK, Locales
    <3>2. CASE ~ PedirDispositivo(t) /\ ~ LeerOK(t)
      BY <1>t, <1>5, <3>2 DEF PasoIO, EsperarDispositivo, FallarIO, LiberarDispositivo, PostearDispositivo,
         TerminarIO, Ir, Terminar, Seguir, LlamarDesbloquear, LlamarEvento, EnReposo, Ocupa,
         UsaDispositivo, TipoHilos, LocalesOK, Locales
    <3>. QED  BY <3>1, <3>2
  <2>2. UNCHANGED libre \/ (Ocupa(t) /\ ~Ocupa(t)' /\ \E v : libre' = [libre EXCEPT ![d] = v])
    <3>1. CASE LiberarDispositivo(t)
      BY <1>t, <3>1 DEF LiberarDispositivo, LiberarIO, Ir, Ocupa, UsaDispositivo, TipoHilos, LocalesOK, Locales
    <3>2. CASE ~ LiberarDispositivo(t)
      BY <1>5, <3>2 DEF PasoIO, EsperarDispositivo, PedirDispositivo, LeerOK, FallarIO,
         PostearDispositivo, TerminarIO, EsperarIO, PedirIO, LeerRespuesta, RemoverIO, PostearIO, varsIO, pool
    <3>. QED  BY <3>1, <3>2
  <2>3. \A u \in HilosIO : Ocupa(u)' => Ocupa(u) /\ hilo'[u].disp = hilo[u].disp
    BY <1>1, <2>1 DEF Ocupa
  <2>4. \A u \in HilosIO : Ocupa(u)' => libre'[hilo[u].disp] = libre[hilo[u].disp]
    <3>1. SUFFICES ASSUME NEW u \in HilosIO, Ocupa(u)', Ocupa(t), ~Ocupa(t)',
                          NEW v, libre' = [libre EXCEPT ![d] = v]
                   PROVE  libre'[hilo[u].disp] = libre[hilo[u].disp]
      BY <2>2
    <3>2. hilo[u].disp # d
      BY <2>3, <3>1 DEF InvUso
    <3>3. hilo[u].disp \in DOMAIN libre
      BY <1>t, <2>3, <3>1 DEF InvUso, Vivos, TypeOKIO
    <3>. HIDE DEF d
    <3>. QED  BY <3>1, <3>2, <3>3
  <2>. QED  BY <1>2, <1>3, <2>3, <2>4 DEF InvUso
<1>. QED  BY <1>4, <1>5

LEMMA PasoUso ==
  ASSUME Inv, InvUso, [Next]_vars
  PROVE  InvUso'
<1>t. TypeOKIO(Pids) /\ TypeOKIO(Pids)' /\ TipoHilos
  BY PasoPool DEF Inv
<1>1. Vivos \subseteq Vivos'
  BY VivosCrecen
<1>2. \A s \in Seq(Vivos) : s \in Seq(Vivos')
  BY <1>1
<1>3. ASSUME NEW t \in Hilos, Paso(t) PROVE InvUso'
  <2>1. CASE t \in HilosIO /\ PasoIO(t)
    BY <2>1, PasoUsoIO
  <2>2. CASE ~ (t \in HilosIO /\ PasoIO(t))
    <3>1. UNCHANGED <<ios_conectados, libre>>
      BY <1>3, <2>2, SinPool, Zenon DEF Paso, varsIO, pool
    <3>2. \A u \in HilosIO : Ocupa(u)' => Ocupa(u) /\ hilo'[u] = hilo[u]
      BY <1>3, <2>2, SinUsoNuevo
    <3>. QED  BY <1>1, <1>2, <3>1, <3>2 DEF InvUso
  <2>. QED  BY <2>1, <2>2
<1>4. ASSUME UNCHANGED hilo, UNCHANGED <<ios_conectados, libre>> PROVE InvUso'
  BY <1>1, <1>2, <1>4 DEF InvUso, Ocupa
<1>5. ASSUME NEW d \in Dispositivos, UNCHANGED hilo, RegistrarIO(d) PROVE InvUso'
  <2>1. d \in Vivos' \ Vivos
    BY <1>5, VivosCrecen
  <2>2. ios_conectados' = Append(ios_conectados, d) /\ libre' = [libre EXCEPT ![d] = TRUE]
    BY <1>5 DEF RegistrarIO
  <2>3. ios_conectados' \in Seq(Vivos')
    BY <1>2, <2>1, <2>2, AppendProperties DEF InvUso
  <2>4. \A t \in HilosIO : Ocupa(t)' => Ocupa(t) /\ hilo[t].disp # d /\ hilo[t].disp \in Dispositivos
    BY <1>5, <2>1 DEF InvUso, Ocupa, Vivos
  <2>. QED  BY <1>1, <1>5, <1>t, <2>2, <2>3, <2>4 DEF InvUso, Ocupa, TypeOKIO
<1>6. ASSUME NEW d \in Dispositivos, CaerIO(d) \/ PostearConexion(d) \/ Atender(d)
      PROVE  UNCHANGED <<ios_conectados, libre>>
  BY <1>6 DEF CaerIO, PostearConexion, Atender, pool
<1>7. ASSUME NEW d \in Dispositivos,
             \/ d \in config.conectan /\ Entorno(RegistrarIO(d))
             \/ d \in config.caen /\ Entorno(CaerIO(d))
             \/ Entorno(PostearConexion(d)) \/ Entorno(Atender(d))
      PROVE  InvUso'
  <2>1. UNCHANGED hilo /\ (RegistrarIO(d) \/ CaerIO(d) \/ PostearConexion(d) \/ Atender(d))
    BY <1>7, Zenon DEF Entorno, varsMP
  <2>. QED  BY <1>4, <1>5, <1>6, <2>1
<1>8. CASE Next
  BY <1>3, <1>7, <1>8, Zenon DEF Next
<1>9. CASE UNCHANGED vars
  BY <1>4, <1>9 DEF vars, varsMP, varsIO, pool
<1>. QED  BY <1>8, <1>9

LEMMA InitUso == Init => InvUso
<1>. SUFFICES ASSUME Init PROVE InvUso
  OBVIOUS
<1>1. config.ios \in Seq(Dispositivos)
  BY ConfigTipos DEF Init
<1>2. \A i \in 1 .. Len(config.ios) : config.ios[i] \in Vivos
  BY <1>1, ElementOfSeq, LenProperties DEF Init, InitIO, Vivos, Contains
<1>3. ios_conectados \in Seq(Vivos)
  BY <1>1, <1>2, LenProperties, IsASeq DEF Init, InitIO
<1>4. \A t \in HilosIO : ~Ocupa(t)
  BY HilosDistintos DEF Init, Ocupa, UsaDispositivo, EnReposo
<1>. QED  BY <1>3, <1>4 DEF InvUso

\* No two IOs use a device at once and a device in use is never found free, with
\* devices that connect, die and are removed while they are asked, and processes
\* that are suspended meanwhile.
THEOREM DispositivosExclusivos == Spec => []UsoExclusivo
<1>1. Init => Inv /\ InvUso
  BY InitInv, InitUso
<1>2. (Inv /\ InvUso) /\ [Next]_vars => (Inv /\ InvUso)'
  BY PasoInv, PasoUso
<1>3. InvUso => UsoExclusivo
  BY DEF InvUso, UsoExclusivo, Usuarios, Ocupa
<1>. QED  BY <1>1, <1>2, <1>3, PTL DEF Spec
-----------------------------------------------------------------------------
(* The answers.  A free device has nothing in its socket, and what is in the  *)
(* socket of one in use is for the only thread that uses it.                  *)

InvLinea ==
  /\ \A d \in Dispositivos : libre[d] \/ programa[d] = "apagado" => linea[d].msj = "nada"
  /\ \A t \in HilosIO : Ocupa(t) /\ linea[hilo[t].disp].msj # "nada" =>
       hilo[t].en = "espera_ok" /\ linea[hilo[t].disp].pid = t[2]

\* The step of a thread of an IO on the socket of its device.
LEMMA PasoLineaIO ==
  ASSUME Inv, InvUso, InvLinea, NEW t \in HilosIO, PasoIO(t)
  PROVE  InvLinea'
<1>t. TipoHilos /\ TypeOKIO(Pids) /\ t \in Hilos
  BY HilosDistintos DEF Inv
<1>. DEFINE d == hilo[t].disp
<1>1. \A u \in HilosIO : u # t => hilo'[u] = hilo[u]
  BY <1>t, HilosDistintos, SoloElSuyo DEF Paso
<1>2. UNCHANGED programa
  BY DEF PasoIO, EsperarDispositivo, TomarDispositivo, PedirDispositivo, LeerOK, FallarIO, LiberarDispositivo,
     PostearDispositivo, TerminarIO, EsperarIO, TomarIO, PedirIO, LeerRespuesta, RemoverIO, LiberarIO,
     PostearIO, varsIO
<1>3. \A u \in HilosIO : Ocupa(u) => hilo[u].disp \in Dispositivos
  BY DEF InvUso, Vivos
<1>4. CASE EsperarDispositivo(t) \/ FallarIO(t) \/ PostearDispositivo(t) \/ TerminarIO(t)
  <2>1. UNCHANGED <<libre, linea>>
    BY <1>4 DEF EsperarDispositivo, FallarIO, PostearDispositivo, TerminarIO, EsperarIO, RemoverIO, PostearIO,
       varsIO, pool
  <2>2. ~Ocupa(t)'
    BY <1>t, <1>4 DEF EsperarDispositivo, FallarIO, PostearDispositivo, TerminarIO, Ir, Terminar, Seguir,
       LlamarDesbloquear, LlamarEvento, EnReposo, Ocupa, UsaDispositivo, TipoHilos, LocalesOK, Locales
  <2>. QED  BY <1>1, <1>2, <2>1, <2>2 DEF InvLinea, Ocupa
<1>5. CASE TomarDispositivo(t)
  <2>. DEFINE E == Elegibles(TipoPedido(t[2]))
              e == ios_conectados[Min(E)]
  <2>1. E \subseteq DOMAIN ios_conectados /\ E # {} /\ DOMAIN ios_conectados \subseteq Nat
    BY <1>t, <1>5, LenProperties DEF TomarDispositivo, Elegibles, TypeOKIO
  <2>2. Min(E) \in E
    <3>. HIDE DEF E
    <3>. QED  BY <2>1, MinEsElemento
  <2>3. e \in Dispositivos /\ libre[e]
    BY <1>t, <2>1, <2>2, ElementOfSeq, LenProperties DEF Elegibles, TypeOKIO
  <2>4. libre' = [libre EXCEPT ![e] = FALSE] /\ hilo'[t].disp = e /\ UNCHANGED linea
    BY <1>t, <1>5 DEF TomarDispositivo, TomarIO, ElegidoIO, TipoHilos, LocalesOK, Locales
  <2>. HIDE DEF e, E
  <2>5. linea[e].msj = "nada"
    BY <2>3 DEF InvLinea
  <2>6. \A x \in Dispositivos : libre'[x] => libre[x]
    BY <1>t, <2>4 DEF TypeOKIO
  <2>. QED  BY <1>1, <1>2, <2>4, <2>5, <2>6 DEF InvLinea, Ocupa
<1>6. CASE PedirDispositivo(t) \/ LeerOK(t)
  <2>1. Ocupa(t) /\ hilo'[t].disp = d /\ UNCHANGED libre
    BY <1>t, <1>6 DEF PedirDispositivo, LeerOK, Ir, PedirIO, LeerRespuesta, pool, Ocupa, UsaDispositivo,
       TipoHilos, LocalesOK, Locales
  <2>2. d \in Dispositivos /\ ~libre[d] /\ programa[d] # "apagado"
    BY <2>1 DEF InvUso, Vivos
  <2>3. \A u \in HilosIO : Ocupa(u) /\ u # t => hilo[u].disp # d
    BY <2>1 DEF InvUso
  <2>4. \A x \in Dispositivos : x # d => linea'[x] = linea[x]
    BY <1>t, <1>6 DEF PedirDispositivo, LeerOK, PedirIO, LeerRespuesta, TypeOKIO
  <2>5. Ocupa(t)' /\ linea'[d].msj # "nada" => hilo'[t].en = "espera_ok" /\ linea'[d].pid = t[2]
    <3>1. CASE PedirDispositivo(t)
      <4>1. hilo[t].en = "pide_io" /\ hilo'[t].en = "espera_ok"
            /\ linea' = IF programa[d] = "atiende" THEN [linea EXCEPT ![d] = Pedido(t[2])] ELSE linea
        BY <1>t, <3>1 DEF PedirDispositivo, PedirIO, Ir, TipoHilos, LocalesOK, Locales
      <4>2. linea[d].msj = "nada"
        BY <2>1, <4>1 DEF InvLinea
      <4>. QED  BY <1>t, <2>2, <4>1, <4>2 DEF TypeOKIO, Pedido
    <3>2. CASE LeerOK(t)
      <4>1. linea' = [linea EXCEPT ![d] = LineaVacia]
        BY <3>2 DEF LeerOK, LeerRespuesta
      <4>. QED  BY <1>t, <2>2, <4>1 DEF TypeOKIO, LineaVacia
    <3>. QED  BY <1>6, <3>1, <3>2
  <2>. HIDE DEF d
  <2>6. \A x \in Dispositivos : libre'[x] \/ programa'[x] = "apagado" => linea'[x].msj = "nada"
    BY <1>2, <2>1, <2>2, <2>4 DEF InvLinea
  <2>7. \A u \in HilosIO : u # t /\ Ocupa(u)' =>
          Ocupa(u) /\ hilo'[u] = hilo[u] /\ linea'[hilo[u].disp] = linea[hilo[u].disp]
    BY <1>1, <1>3, <2>3, <2>4 DEF Ocupa
  <2>8. \A u \in HilosIO : Ocupa(u)' /\ linea'[hilo'[u].disp].msj # "nada" =>
          hilo'[u].en = "espera_ok" /\ linea'[hilo'[u].disp].pid = u[2]
    BY <2>1, <2>5, <2>7 DEF InvLinea
  <2>. QED  BY <2>6, <2>8 DEF InvLinea, Ocupa
<1>7. CASE LiberarDispositivo(t)
  <2>1. Ocupa(t) /\ ~Ocupa(t)' /\ hilo[t].en = "libera_io"
        /\ libre' = [libre EXCEPT ![d] = ~desconectado[d]] /\ UNCHANGED linea
    BY <1>t, <1>7 DEF LiberarDispositivo, LiberarIO, Ir, Ocupa, UsaDispositivo, TipoHilos, LocalesOK, Locales
  <2>2. linea[d].msj = "nada"
    BY <2>1 DEF InvLinea
  <2>3. \A x \in Dispositivos : libre'[x] => libre[x] \/ x = d
    BY <1>t, <2>1 DEF TypeOKIO
  <2>. QED  BY <1>1, <1>2, <2>1, <2>2, <2>3 DEF InvLinea, Ocupa
<1>. QED  BY <1>4, <1>5, <1>6, <1>7 DEF PasoIO

LEMMA PasoLinea ==
  ASSUME Inv, InvUso, InvLinea, [Next]_vars
  PROVE  InvLinea'
<1>t. TypeOKIO(Pids) /\ TipoHilos
  BY DEF Inv
<1>1. ASSUME NEW t \in Hilos, Paso(t) PROVE InvLinea'
  <2>1. CASE t \in HilosIO /\ PasoIO(t)
    BY <2>1, PasoLineaIO
  <2>2. CASE ~ (t \in HilosIO /\ PasoIO(t))
    <3>1. UNCHANGED <<libre, linea, programa>>
      BY <1>1, <2>2, SinPool, Zenon DEF Paso, varsIO, pool
    <3>2. \A u \in HilosIO : Ocupa(u)' => Ocupa(u) /\ hilo'[u] = hilo[u]
      BY <1>1, <2>2, SinUsoNuevo
    <3>. QED  BY <3>1, <3>2 DEF InvLinea
  <2>. QED  BY <2>1, <2>2
<1>2. ASSUME NEW d \in Dispositivos, UNCHANGED hilo,
             RegistrarIO(d) \/ CaerIO(d) \/ PostearConexion(d) \/ Atender(d)
      PROVE  InvLinea'
  <2>1. \A x \in Dispositivos : linea'[x].msj # "nada" =>
          linea[x].msj # "nada" /\ linea'[x].pid = linea[x].pid
    BY <1>t, <1>2 DEF RegistrarIO, CaerIO, PostearConexion, Atender, pool, LineaVacia, Respuesta, TypeOKIO
  <2>2. \A x \in Dispositivos : libre'[x] \/ programa'[x] = "apagado" =>
          libre[x] \/ programa[x] = "apagado"
    BY <1>t, <1>2 DEF RegistrarIO, CaerIO, PostearConexion, Atender, pool, TypeOKIO
  <2>3. \A t \in HilosIO : Ocupa(t) => hilo[t].disp \in Dispositivos
    BY DEF InvUso, Vivos
  <2>. QED  BY <1>2, <2>1, <2>2, <2>3 DEF InvLinea, Ocupa
<1>3. ASSUME NEW d \in Dispositivos,
             \/ d \in config.conectan /\ Entorno(RegistrarIO(d))
             \/ d \in config.caen /\ Entorno(CaerIO(d))
             \/ Entorno(PostearConexion(d)) \/ Entorno(Atender(d))
      PROVE  InvLinea'
  <2>1. UNCHANGED hilo /\ (RegistrarIO(d) \/ CaerIO(d) \/ PostearConexion(d) \/ Atender(d))
    BY <1>3, Zenon DEF Entorno, varsMP
  <2>. QED  BY <1>2, <2>1
<1>4. CASE Next
  BY <1>1, <1>3, <1>4, Zenon DEF Next
<1>5. CASE UNCHANGED vars
  BY <1>5 DEF InvLinea, Ocupa, vars, varsMP, varsIO, pool
<1>. QED  BY <1>4, <1>5

\* The answer that the thread of an IO is about to read is that of its own
\* process, whatever devices die, connect or are released meanwhile.
THEOREM CadaUnoLaSuya == Spec => []RespuestaPropia
<1>1. Init => Inv /\ InvUso /\ InvLinea
  <2>1. Init => InvLinea
    BY HilosDistintos DEF Init, InitIO, InvLinea, LineaVacia, Ocupa, UsaDispositivo, EnReposo
  <2>. QED  BY <2>1, InitInv, InitUso
<1>2. (Inv /\ InvUso /\ InvLinea) /\ [Next]_vars => (Inv /\ InvUso /\ InvLinea)'
  BY PasoInv, PasoUso, PasoLinea
<1>3. InvLinea => RespuestaPropia
  BY DEF InvLinea, RespuestaPropia, Usuarios, Ocupa
<1>. QED  BY <1>1, <1>2, <1>3, PTL DEF Spec
-----------------------------------------------------------------------------
(* Where each process is.  With Colas Multinivel off: with it on,             *)
(* cambiar_prioridad queues a process whose estado is READY although it is in *)
(* the hands of a thread that will queue it too, or dispatch it.              *)

\* The scenario, and with it Colas Multinivel, is fixed.
LEMMA ConfigFija ==
  ASSUME [Next]_vars
  PROVE  UNCHANGED config
<1>1. ASSUME NEW t, PasoComun(t) PROVE UNCHANGED config
  BY <1>1 DEF PasoComun, PasoMedianoPlazo, Encolar, DesbloquearBlock, DesbloquearSusp, VencerTimer,
     Suspender, TomarEvento, Dessuspender, Volver, FinDeCandidatos, ReintentarEspera, SoltarEvento, pcbs
<1>2. ASSUME NEW t, PasoCpu(t) PROVE UNCHANGED config
  BY <1>2 DEF PasoCpu, PedirBloqueoIO, FinDeRafaga, PedirMemoria, DevolverMemoria, PedirMutex, BuscarDueno,
     Buscar, Heredar, DevolverMutex, Ceder, AnotarDespertado, Finalizar, LiberarMutex, FinalizarKM,
     SalirDeExec, EntrarABlock, AnotarEspera, LiberarCpu, pcbs
<1>3. ASSUME NEW t, PasoIO(t) \/ PasoCP PROVE UNCHANGED config
  BY <1>3 DEF PasoIO, PasoCP, TomarReady, PasarAExec, pcbs
<1>4. CASE \E t \in Hilos : Paso(t)
  BY <1>1, <1>2, <1>3, <1>4, Zenon DEF Paso
<1>5. ASSUME NEW d, Entorno(RegistrarIO(d)) \/ Entorno(CaerIO(d)) \/ Entorno(PostearConexion(d)) \/ Entorno(Atender(d))
      PROVE  UNCHANGED config
  BY <1>5, Zenon DEF Entorno, varsMP
<1>6. CASE UNCHANGED vars
  BY <1>6 DEF vars, varsMP
<1>. QED  BY <1>4, <1>5, <1>6, ZenonT(60) DEF Next

\* At rest, and from the start of a syscall to exec_a_block, a thread is in the
\* middle of no unlock and of no memory event.
SinLlamada == {"reposo", "a_block", "busca_exec", "busca_ready", "busca_block", "hereda"}

\* desbloquear and encolar_en_ready are called from somewhere, and a thread at
\* those points has nothing left to go on with.
InvPuntos ==
  \A t \in Hilos :
    /\ hilo[t].en \in {"encola", "desbloquea", "desbloquea_susp"} => hilo[t].tras # "reposo"
    /\ hilo[t].en \in SinLlamada => hilo[t].luego = "reposo"

\* What the calls of a thread leave in its locals.
LEMMA LlamadaEncolar ==
  ASSUME TipoHilos, NEW t \in Hilos, NEW p, NEW e, LlamarEncolar(t, p, e)
  PROVE  /\ hilo'[t].en = "encola" /\ hilo'[t].pid = p
         /\ hilo'[t].tras = e /\ hilo'[t].luego = hilo[t].luego
<1>1. hilo = [u \in Hilos |-> hilo[u]] /\ hilo[t] \in Locales
  BY DEF TipoHilos, LocalesOK
<1>. QED  BY <1>1 DEF LlamarEncolar, Locales

LEMMA LlamadaDesbloquear ==
  ASSUME TipoHilos, NEW t \in Hilos, NEW p, NEW e, LlamarDesbloquear(t, p, e)
  PROVE  /\ hilo'[t].en = "desbloquea" /\ hilo'[t].pid = p
         /\ hilo'[t].tras = e /\ hilo'[t].luego = hilo[t].luego
<1>1. hilo = [u \in Hilos |-> hilo[u]] /\ hilo[t] \in Locales
  BY DEF TipoHilos, LocalesOK
<1>. QED  BY <1>1 DEF LlamarDesbloquear, Locales

LEMMA LlamadaEvento ==
  ASSUME TipoHilos, NEW t \in Hilos, NEW e, LlamarEvento(t, e)
  PROVE  hilo'[t].en = "evento" /\ hilo'[t].tras = hilo[t].tras /\ hilo'[t].luego = e
<1>1. hilo = [u \in Hilos |-> hilo[u]] /\ hilo[t] \in Locales
  BY DEF TipoHilos, LocalesOK
<1>. QED  BY <1>1 DEF LlamarEvento, Locales

LEMMA LlamadaIr ==
  ASSUME TipoHilos, NEW t \in Hilos, NEW e, Ir(t, e)
  PROVE  /\ hilo'[t].en = e /\ hilo'[t].pid = hilo[t].pid
         /\ hilo'[t].tras = hilo[t].tras /\ hilo'[t].luego = hilo[t].luego
<1>1. hilo = [u \in Hilos |-> hilo[u]] /\ hilo[t] \in Locales
  BY DEF TipoHilos, LocalesOK
<1>. QED  BY <1>1 DEF Ir, Locales

LEMMA PasoPuntos ==
  ASSUME Inv, InvPuntos, [Next]_vars
  PROVE  InvPuntos'
<1>t. TipoHilos
  BY DEF Inv
<1>. DEFINE Bien(r) == /\ r.en \in {"encola", "desbloquea", "desbloquea_susp"} => r.tras # "reposo"
                       /\ r.en \in SinLlamada => r.luego = "reposo"
<1>1. ASSUME NEW t \in Hilos, Paso(t) PROVE InvPuntos'
  <2>. USE LlamadaEvento DEF Ir, Seguir, Terminar, EnReposo, SinLlamada
  <2>0. /\ TipoHilos /\ hilo[t] \in Locales /\ hilo = [u \in Hilos |-> hilo[u]] /\ Bien(hilo[t])
        /\ hilo[t].luego \in Continuaciones /\ hilo[t].tras \in Regresos
    BY <1>t, EnPunto DEF TipoHilos, LocalesOK, InvPuntos, Locales
  <2>1. ASSUME PasoComun(t) PROVE Bien(hilo'[t])
    <3>1. CASE Encolar(t)
      BY <2>0, <3>1 DEF Encolar, Regresos, Locales
    <3>2. CASE DesbloquearSusp(t)
      BY <2>0, <3>2 DEF DesbloquearSusp, Regresos, Locales
    <3>3. CASE DesbloquearBlock(t)
      BY <2>0, <3>3 DEF DesbloquearBlock, Locales
    <3>4. CASE VencerTimer(t) \/ Suspender(t)
      BY <2>0, <3>4 DEF VencerTimer, Suspender, Locales
    <3>5. CASE TomarEvento(t) \/ FinDeCandidatos(t)
      BY <2>0, <3>5 DEF TomarEvento, FinDeCandidatos, Locales
    <3>6. CASE Dessuspender(t)
      BY <2>0, <3>6 DEF Dessuspender, Locales
    <3>7. CASE Volver(t)
      <4>1. hilo[t].en = "vuelve" /\ (LlamarEncolar(t, hilo[t].pid, "candidatos") \/ Ir(t, "candidatos"))
        BY <3>7, Zenon DEF Volver
      <4>. QED  BY <2>0, <4>1, LlamadaEncolar, LlamadaIr
    <3>8. CASE ReintentarEspera(t)
      <4>1. (\E p : LlamarDesbloquear(t, p, "esperas")) \/ hilo' = hilo
        BY <3>8, Zenon DEF ReintentarEspera
      <4>. QED  BY <2>0, <4>1, LlamadaDesbloquear
    <3>9. CASE SoltarEvento(t)
      BY <2>0, <3>9 DEF SoltarEvento, Continuaciones, Locales
    <3>. QED  BY <2>1, <3>1, <3>2, <3>3, <3>4, <3>5, <3>6, <3>7, <3>8, <3>9 DEF PasoComun, PasoMedianoPlazo
  <2>2. ASSUME PasoIO(t) PROVE Bien(hilo'[t])
    <3>1. CASE EsperarDispositivo(t) \/ TomarDispositivo(t) \/ PedirDispositivo(t) \/ LeerOK(t) \/ LiberarDispositivo(t)
      BY <2>0, <3>1 DEF EsperarDispositivo, TomarDispositivo, PedirDispositivo, LeerOK, LiberarDispositivo, Locales
    <3>2. CASE FallarIO(t) \/ PostearDispositivo(t)
      <4>1. LlamarDesbloquear(t, t[2], "fin_io")
        BY <3>2, Zenon DEF FallarIO, PostearDispositivo
      <4>. QED  BY <2>0, <4>1, LlamadaDesbloquear
    <3>3. CASE TerminarIO(t)
      BY <2>0, <3>3 DEF TerminarIO, Locales
    <3>. QED  BY <2>2, <3>1, <3>2, <3>3 DEF PasoIO
  <2>3. ASSUME t \in HilosCpu, PasoCpu(t) PROVE Bien(hilo'[t])
    <3>1. CASE PedirBloqueoIO(t) \/ FinDeRafaga(t) \/ Finalizar(t)
      <4>1. /\ hilo[t].en = "reposo"
            /\ \/ Ir(t, "a_block") \/ Ir(t, "libera_mutex") \/ LlamarEncolar(t, Pid(t), "libera_cpu")
        BY <3>1, Zenon DEF PedirBloqueoIO, FinDeRafaga, Finalizar, Recibir
      <4>. QED  BY <2>0, <4>1, LlamadaEncolar, LlamadaIr
    <3>2. CASE PedirMemoria(t) \/ DevolverMemoria(t)
      <4>1. /\ hilo[t].en = "reposo"
            /\ hilo' = hilo \/ Ir(t, "a_block") \/ LlamarEvento(t, "reposo")
        BY <3>2, Zenon DEF PedirMemoria, DevolverMemoria, Recibir
      <4>. QED  BY <2>0, <4>1, LlamadaEvento, LlamadaIr
    <3>3. CASE PedirMutex(t)
      <4>1. PICK p : /\ hilo[t].en = "reposo"
                     /\ hilo' = hilo \/ hilo' = [hilo EXCEPT ![t].en = "busca_exec", ![t].pid = p]
        BY <3>3, Zenon DEF PedirMutex, Recibir
      <4>. QED  BY <2>0, <4>1 DEF Locales
    <3>4. CASE BuscarDueno(t)
      BY <2>0, <3>4 DEF BuscarDueno, Buscar, Locales
    <3>5. CASE Heredar(t)
      BY <2>0, <3>5 DEF Heredar, Locales
    <3>6. CASE DevolverMutex(t)
      BY <2>0, <3>6 DEF DevolverMutex, EmpezarUnlock, Locales
    <3>7. CASE LiberarMutex(t)
      BY <2>0, <3>7 DEF LiberarMutex, EmpezarUnlock, Locales
    <3>8. CASE Ceder(t)
      <4>1. (\E p : LlamarDesbloquear(t, p, "toma")) \/ Seguir(t, hilo[t].luego)
        BY <3>8, Zenon DEF Ceder
      <4>2. CASE \E p : LlamarDesbloquear(t, p, "toma")
        BY <2>0, <4>2, LlamadaDesbloquear
      <4>3. CASE Seguir(t, hilo[t].luego)
        BY <2>0, <4>3 DEF Continuaciones, Locales
      <4>. QED  BY <4>1, <4>2, <4>3
    <3>9. CASE AnotarDespertado(t)
      BY <2>0, <3>9 DEF AnotarDespertado, Continuaciones, Locales
    <3>10. CASE FinalizarKM(t) \/ SalirDeExec(t)
      BY <2>0, <3>10 DEF FinalizarKM, SalirDeExec, Locales
    <3>11. CASE EntrarABlock(t)
      BY <2>0, <3>11 DEF EntrarABlock, Locales
    <3>12. CASE AnotarEspera(t) \/ LiberarCpu(t)
      BY <2>0, <3>12 DEF AnotarEspera, LiberarCpu, Locales
    <3>. QED  BY <2>3, <3>1, <3>2, <3>3, <3>4, <3>5, <3>6, <3>7, <3>8, <3>9, <3>10, <3>11, <3>12 DEF PasoCpu
  <2>4. ASSUME t = HiloCP, PasoCP PROVE Bien(hilo'[t])
    BY <2>0, <2>4 DEF PasoCP, TomarReady, PasarAExec, Locales
  <2>5. Bien(hilo'[t])
    BY <1>1, <2>1, <2>2, <2>3, <2>4 DEF Paso
  <2>6. ASSUME NEW u \in Hilos, u # t PROVE Bien(hilo'[u])
    <3>1. \/ hilo'[u] = hilo[u] \/ hilo'[u] = [hilo[u] EXCEPT !.en = "duerme"]
          \/ hilo'[u] = [hilo[u] EXCEPT !.en = "espera_io"]
      BY <1>1, <1>t, <2>6, SoloElSuyo
    <3>2. hilo[u] \in Locales /\ Bien(hilo[u])
      BY <1>t DEF TipoHilos, LocalesOK, InvPuntos
    <3>. QED  BY <3>1, <3>2 DEF Locales
  <2>. QED  BY <2>5, <2>6 DEF InvPuntos
<1>2. CASE UNCHANGED hilo
  BY <1>2 DEF InvPuntos
<1>3. CASE Next
  <2>1. (\E t \in Hilos : Paso(t)) \/ UNCHANGED hilo
    BY <1>3, Zenon DEF Next, Entorno, varsMP
  <2>. QED  BY <1>1, <1>2, <2>1
<1>. QED  BY <1>2, <1>3 DEF vars, varsMP

-----------------------------------------------------------------------------
(* The inductive invariant.  A READY process is in a queue or in the hands of *)
(* the thread that moves it, a process in EXEC is in lista_exec, and one in   *)
(* BLOCK in cola_block or between both lists, in the thread of its CPU.       *)

Cola(q) == <<"COLA", q, 0>>
Colas == {Cola(q) : q \in 0 .. CantColas - 1}

\* The points at which a thread has a READY process that is in no queue
Manos == {"encola", "despacha"}
EnMano(t) == IF hilo[t].en \in Manos THEN {hilo[t].pid} ELSE {}

ConEstado(e) == {p \in Pids : estado[p] = e}

\* Who has each READY process.
DondeReady == [x \in Colas \cup Hilos |->
                 IF x \in Colas THEN ToSet(colas_ready[x[2]]) ELSE EnMano(x)]

InvReady ==
  /\ \A q \in 0 .. CantColas - 1 : IsInjective(colas_ready[q])
  /\ Reparto(DondeReady, ConEstado("READY"))

\* The thread of a CPU, with locals r, is past the end of the burst of its process.
Solto(r) ==
  \/ r.en \in {"entra_block", "anota", "libera_cpu", "libera_mutex"}
  \/ r.en = "encola" /\ r.tras = "libera_cpu"
  \/ r.luego \in {"libera_cpu", "libera_mutex"}

\* CPU c answers for a process in EXEC; its thread is between two lists.
Atiende(c) == cpu[c] # NADA /\ ~ Solto(hilo[HiloCpu(c)])
Entra(c) == hilo[HiloCpu(c)].en = "entra_block"

InvRafagas ==
  /\ \A c \in Cpus : Atiende(c) => cpu[c] \in lista_exec
  /\ \A c \in Cpus : Entra(c) => estado[cpu[c]] = "BLOCK" /\ cpu[c] \notin cola_block
  /\ \A c, d \in Cpus : Atiende(c) /\ Atiende(d) /\ cpu[c] = cpu[d] => c = d
  /\ \A c, d \in Cpus : Entra(c) /\ Entra(d) /\ cpu[c] = cpu[d] => c = d

InvListas ==
  \A p \in Pids :
    /\ p \in lista_exec <=> estado[p] = "EXEC"
    /\ p \in susp_block <=> estado[p] = "SUSP_BLOCK"
    /\ p \in susp_ready <=> estado[p] = "SUSP_READY"
    /\ p \in cola_block => estado[p] = "BLOCK"
    /\ estado[p] = "BLOCK" => p \in cola_block \/ \E c \in Cpus : Entra(c) /\ cpu[c] = p

\* The timer and the thread of an IO that block k of a process started are there
\* only after it: those of the block that is beginning are at rest.
InvFrescos ==
  \A t \in HilosIO \cup HilosTimer : hilo[t].en # "reposo" =>
    /\ t[3] <= bloqueo_id[t[2]]
    /\ \A c \in Cpus : Entra(c) /\ cpu[c] = t[2] => t[3] < bloqueo_id[t[2]]

InvLugar == InvListas /\ InvRafagas /\ InvReady /\ InvFrescos

-----------------------------------------------------------------------------
(* What a step of one thread leaves alone *)

\* The timer and the thread of an IO that a block starts were at rest; no other
\* thread changes its point.
LEMMA Quietos ==
  ASSUME Inv, InvFrescos, NEW t \in Hilos, NEW u \in Hilos, u # t, Paso(t)
  PROVE  /\ EnMano(u)' = EnMano(u)
         /\ u \in HilosCpu => hilo'[u] = hilo[u]
         /\ \/ hilo'[u] = hilo[u]
            \/ /\ t \in HilosCpu /\ EntrarABlock(t) /\ u \in HilosIO \cup HilosTimer
               /\ hilo[u].en = "reposo" /\ hilo'[u].en \in {"duerme", "espera_io"}
               /\ u[2] = Pid(t) /\ u[3] = bloqueo_id[Pid(t)]
<1>t. TipoHilos /\ LocalesOK(hilo[u])
  BY EnPunto DEF Inv
<1>1. CASE hilo'[u] = hilo[u]
  BY <1>1 DEF EnMano
<1>2. CASE hilo'[u] # hilo[u]
  <2>1. /\ t \in HilosCpu /\ EntrarABlock(t)
        /\ u = HiloTimer(Pid(t), bloqueo_id[Pid(t)]) \/ u = HiloIO(Pid(t), bloqueo_id[Pid(t)])
        /\ \E e \in {"duerme", "espera_io"} : hilo'[u] = [hilo[u] EXCEPT !.en = e]
    BY <1>t, <1>2, SoloElSuyo
  <2>2. u \in HilosIO \cup HilosTimer /\ u \notin HilosCpu /\ u[2] = Pid(t) /\ u[3] = bloqueo_id[Pid(t)]
    BY <2>1 DEF Hilos, HiloCP, HilosCpu, HiloCpu, HilosIO, HiloIO, HilosTimer, HiloTimer
  <2>3. t[2] \in Cpus /\ Entra(t[2]) /\ cpu[t[2]] = u[2]
    BY <2>1, <2>2, HilosDistintos DEF EntrarABlock, Entra, Pid
  <2>4. hilo[u].en = "reposo"
    <3>1. bloqueo_id[Pid(t)] \in Nat
      <4>1. Pid(t) \in Pids
        BY <2>1, PidAtendido DEF EntrarABlock
      <4>. QED  BY <4>1 DEF Inv, TipoPcbs
    <3>. QED  BY <2>2, <2>3, <3>1 DEF InvFrescos
  <2>5. hilo'[u].en \in {"duerme", "espera_io"}
    BY <1>t, <2>1 DEF LocalesOK, Locales
  <2>. QED  BY <2>1, <2>2, <2>4, <2>5 DEF EnMano, Manos
<1>. QED  BY <1>1, <1>2

\* The thread of a CPU that has ended the burst of its process does nothing more
\* for it until the CPU is free; it is between two lists for one step.
LEMMA Sueltos ==
  ASSUME Inv, InvPuntos, NEW t \in HilosCpu, Paso(t)
  PROVE  /\ hilo'[t].en = "entra_block" => SalirDeExec(t)
         /\ hilo[t].en = "entra_block" => EntrarABlock(t)
         /\ Solto(hilo[t]) => Solto(hilo'[t]) \/ LiberarCpu(t)
<1>t. /\ hilo[t] \in Locales /\ hilo = [u \in Hilos |-> hilo[u]] /\ t \in Hilos
      /\ hilo[t].luego \in Continuaciones /\ hilo[t].tras \in Regresos
      /\ hilo[t].en \in SinLlamada => hilo[t].luego = "reposo"
      /\ t \notin HilosIO /\ t \notin HilosTimer /\ t # HiloCP
  BY HilosDistintos, EnPunto DEF Inv, TipoHilos, LocalesOK, InvPuntos
<1>. USE DEF Ir, Seguir, Terminar, LlamarEncolar, LlamarDesbloquear, LlamarEvento, EnReposo
<1>1. CASE PasoComun(t)
  <2>1. CASE Encolar(t)
    BY <1>t, <2>1 DEF Encolar, Solto, Locales, Regresos
  <2>2. CASE DesbloquearSusp(t)
    BY <1>t, <2>2 DEF DesbloquearSusp, Solto, Locales, Regresos
  <2>3. CASE DesbloquearBlock(t)
    BY <1>t, <2>3 DEF DesbloquearBlock, Solto, Locales
  <2>4. CASE VencerTimer(t) \/ Suspender(t)
    BY <1>t, <2>4 DEF VencerTimer, Suspender, Solto, Locales
  <2>5. CASE TomarEvento(t) \/ FinDeCandidatos(t)
    BY <1>t, <2>5 DEF TomarEvento, FinDeCandidatos, Solto, Locales
  <2>6. CASE Dessuspender(t)
    BY <1>t, <2>6 DEF Dessuspender, Solto, Locales
  <2>7. CASE Volver(t)
    BY <1>t, <2>7 DEF Volver, Solto, Locales
  <2>8. CASE ReintentarEspera(t)
    BY <1>t, <2>8 DEF ReintentarEspera, Solto, Locales
  <2>9. CASE SoltarEvento(t)
    BY <1>t, <2>9 DEF SoltarEvento, Solto, Locales, Continuaciones
  <2>. QED  BY <1>1, <2>1, <2>2, <2>3, <2>4, <2>5, <2>6, <2>7, <2>8, <2>9 DEF PasoComun, PasoMedianoPlazo
<1>2. CASE PasoCpu(t)
  <2>1. CASE PedirBloqueoIO(t) \/ FinDeRafaga(t) \/ PedirMemoria(t) \/ DevolverMemoria(t) \/ Finalizar(t)
    BY <1>t, <2>1 DEF PedirBloqueoIO, FinDeRafaga, PedirMemoria, DevolverMemoria, Finalizar, Solto, Locales, Recibir, SinLlamada
  <2>2. CASE PedirMutex(t) \/ BuscarDueno(t) \/ Heredar(t) \/ DevolverMutex(t)
    BY <1>t, <2>2 DEF PedirMutex, BuscarDueno, Heredar, DevolverMutex, Solto, Locales, EmpezarUnlock, Recibir, SinLlamada, Buscar
  <2>3. CASE Ceder(t)
    BY <1>t, <2>3 DEF Ceder, Solto, Locales, Continuaciones
  <2>4. CASE AnotarDespertado(t)
    BY <1>t, <2>4 DEF AnotarDespertado, Solto, Locales, Continuaciones
  <2>5. CASE LiberarMutex(t)
    BY <1>t, <2>5 DEF LiberarMutex, Solto, Locales, EmpezarUnlock
  <2>6. CASE FinalizarKM(t)
    BY <1>t, <2>6 DEF FinalizarKM, Solto, Locales
  <2>7. CASE EntrarABlock(t)
    BY <1>t, <2>7 DEF EntrarABlock, Solto, Locales
  <2>8. CASE AnotarEspera(t) \/ LiberarCpu(t)
    BY <1>t, <2>8 DEF AnotarEspera, LiberarCpu, Solto, Locales
  <2>9. CASE SalirDeExec(t)
    BY <1>t, <2>9 DEF SalirDeExec, Solto, Locales, SinLlamada
  <2>. QED  BY <1>2, <2>1, <2>2, <2>3, <2>4, <2>5, <2>6, <2>7, <2>8, <2>9 DEF PasoCpu
<1>. QED  BY <1>t, <1>1, <1>2 DEF Paso

LEMMA CpuIgual ==
  ASSUME NEW t \in Hilos, Paso(t),
         ~ (t \in HilosCpu /\ LiberarCpu(t)), ~ (t = HiloCP /\ PasarAExec)
  PROVE  UNCHANGED cpu
BY DEF Paso, PasoComun, PasoIO, PasoCP, TomarReady, PasoCpu, PedirBloqueoIO, FinDeRafaga,
   PedirMemoria, DevolverMemoria, PedirMutex, BuscarDueno, Buscar, Heredar, DevolverMutex, Ceder,
   AnotarDespertado, Finalizar, LiberarMutex, FinalizarKM, SalirDeExec, EntrarABlock, AnotarEspera,
   Recibir

\* The CPU that takes a process is free, and its thread at rest.
LEMMA CpuElegida ==
  ASSUME Inv, InvPuntos, PasarAExec
  PROVE  \E c \in Cpus : /\ cpu[c] = NADA /\ cpu' = [cpu EXCEPT ![c] = hilo[HiloCP].pid]
                         /\ hilo[HiloCpu(c)].en = "reposo"
<1>1. CpusLibres \subseteq DOMAIN config.cpus /\ CpusLibres # {}
  BY DEF PasarAExec, CpusLibres
<1>2. config.cpus \in Seq(Cpus)
  BY ConfigTipos DEF Inv, TipoPcbs
<1>3. DOMAIN config.cpus \subseteq Nat /\ \A i \in DOMAIN config.cpus : config.cpus[i] \in Cpus
  BY <1>2, ElementOfSeq, LenProperties
<1>4. Min(CpusLibres) \in CpusLibres
  BY <1>1, <1>3, MinEsElemento
<1>5. PICK c \in Cpus : cpu[c] = NADA /\ cpu' = [cpu EXCEPT ![c] = hilo[HiloCP].pid]
  BY <1>1, <1>3, <1>4 DEF PasarAExec, CpusLibres
<1>6. hilo[HiloCpu(c)].en = "reposo"
  BY <1>5, ProcesosOK DEF Inv, TipoCpu
<1>. QED  BY <1>5, <1>6

\* A CPU answers for a process from its dispatch to the end of its burst.
LEMMA RafagaDe ==
  ASSUME Inv, InvPuntos, InvFrescos, NEW t \in Hilos, Paso(t), NEW c \in Cpus
  PROVE  /\ Atiende(c)' => \/ Atiende(c) /\ cpu'[c] = cpu[c]
                           \/ t = HiloCP /\ PasarAExec /\ cpu[c] = NADA
         /\ Entra(c)' => /\ cpu'[c] = cpu[c]
                         /\ \/ Entra(c) /\ t # HiloCpu(c)
                            \/ t = HiloCpu(c) /\ SalirDeExec(t)
         /\ Entra(c) => \/ Entra(c)' /\ cpu'[c] = cpu[c]
                        \/ t = HiloCpu(c) /\ EntrarABlock(t)
<1>t. TipoHilos /\ TipoCpu
  BY DEF Inv
<1>1. /\ HiloCpu(c) \in HilosCpu /\ HiloCpu(c) \in Hilos /\ HiloCpu(c)[2] = c
      /\ HiloCpu(c) # HiloCP
  BY HilosDistintos
<1>2. CASE t = HiloCpu(c)
  <2>1. CASE LiberarCpu(t)
    <3>1. cpu'[c] = NADA /\ hilo[t].en = "libera_cpu" /\ hilo'[t].en = "reposo"
      BY <1>t, <1>1, <1>2, <2>1 DEF LiberarCpu, Terminar, Seguir, TipoHilos, EnReposo, TipoCpu
    <3>. QED  BY <1>2, <3>1 DEF Atiende, Entra
  <2>2. CASE ~ LiberarCpu(t)
    <3>1. UNCHANGED cpu
      BY <1>1, <1>2, <2>2, CpuIgual
    <3>. QED  BY <1>1, <1>2, <2>2, <3>1, Sueltos DEF Atiende, Entra
  <2>. QED  BY <2>1, <2>2
<1>3. CASE t # HiloCpu(c)
  <2>1. hilo'[HiloCpu(c)] = hilo[HiloCpu(c)]
    BY <1>1, <1>3, Quietos
  <2>2. CASE t = HiloCP /\ PasarAExec
    <3>1. PICK d \in Cpus : cpu[d] = NADA /\ cpu' = [cpu EXCEPT ![d] = hilo[HiloCP].pid]
      BY <2>2, CpuElegida
    <3>2. Entra(c) => c # d
      BY <1>t, <3>1, ProcesosOK DEF Entra, TipoCpu
    <3>3. c # d => cpu'[c] = cpu[c]
      BY <1>t, <3>1 DEF TipoCpu
    <3>4. Entra(c)' <=> Entra(c)
      BY <2>1 DEF Entra
    <3>. QED  BY <1>3, <2>1, <2>2, <3>1, <3>2, <3>3, <3>4 DEF Atiende
  <2>3. CASE ~ (t = HiloCP /\ PasarAExec)
    <3>1. cpu'[c] = cpu[c]
      <4>1. CASE t \in HilosCpu /\ LiberarCpu(t)
        <5>1. t[2] # c
          BY <1>3, <4>1, HilosDistintos
        <5>. QED  BY <1>t, <4>1, <5>1 DEF LiberarCpu, TipoCpu
      <4>2. CASE ~ (t \in HilosCpu /\ LiberarCpu(t))
        BY <2>3, <4>2, CpuIgual
      <4>. QED  BY <4>1, <4>2
    <3>. QED  BY <1>3, <2>1, <3>1 DEF Atiende, Entra
  <2>. QED  BY <2>2, <2>3
<1>. QED  BY <1>2, <1>3

-----------------------------------------------------------------------------
(* Each part is preserved *)

LEMMA BloqueosCrecen ==
  ASSUME Inv, NEW t \in Hilos, Paso(t), NEW p \in Pids
  PROVE  /\ bloqueo_id[p] \in Nat /\ bloqueo_id'[p] \in Nat /\ bloqueo_id'[p] >= bloqueo_id[p]
         /\ t \in HilosCpu /\ SalirDeExec(t) /\ p = Pid(t) => bloqueo_id'[p] = bloqueo_id[p] + 1
         /\ t \in HilosCpu /\ EntrarABlock(t) => bloqueo_id'[p] = bloqueo_id[p]
<1>t. bloqueo_id \in [Pids -> Nat]
  BY DEF Inv, TipoPcbs
<1>1. CASE t \in HilosCpu /\ SalirDeExec(t)
  BY <1>t, <1>1 DEF SalirDeExec, EntrarABlock
<1>2. CASE DesbloquearBlock(t)
  BY <1>t, <1>2 DEF DesbloquearBlock, EntrarABlock, SalirDeExec
<1>3. CASE ~ DesbloquearBlock(t) /\ ~ (t \in HilosCpu /\ SalirDeExec(t))
  <2>1. UNCHANGED bloqueo_id
    BY <1>3, ZenonT(60) DEF Paso, PasoComun, PasoMedianoPlazo, Encolar, DesbloquearSusp, VencerTimer,
       Suspender, TomarEvento, Dessuspender, Volver, FinDeCandidatos, ReintentarEspera, SoltarEvento,
       PasoIO, PasoCP, TomarReady, PasarAExec, PasoCpu, PedirBloqueoIO, FinDeRafaga,
       PedirMemoria, DevolverMemoria, PedirMutex, BuscarDueno, Buscar, Heredar, DevolverMutex, Ceder,
       AnotarDespertado, Finalizar, LiberarMutex, FinalizarKM, EntrarABlock, AnotarEspera, LiberarCpu
  <2>. QED  BY <1>t, <1>3, <2>1, SMTT(40)
<1>. QED  BY <1>1, <1>2, <1>3

\* A thread of an IO or of a timer at rest is only started by EntrarABlock.
LEMMA ReposoQuieto ==
  ASSUME Inv, NEW t \in HilosIO \cup HilosTimer, Paso(t)
  PROVE  hilo[t].en # "reposo"
<1>1. t \in Hilos /\ t \notin HilosCpu /\ t # HiloCP
  BY HilosDistintos
<1>2. PasoComun(t) \/ PasoIO(t)
  BY <1>1 DEF Paso
<1>. QED  BY <1>2 DEF PasoComun, PasoMedianoPlazo, Encolar, DesbloquearBlock, DesbloquearSusp, VencerTimer,
     Suspender, TomarEvento, Dessuspender, Volver, FinDeCandidatos, ReintentarEspera, SoltarEvento,
     PasoIO, EsperarDispositivo, TomarDispositivo, PedirDispositivo, LeerOK, FallarIO,
     LiberarDispositivo, PostearDispositivo, TerminarIO

LEMMA PasoFrescos ==
  ASSUME Inv, InvPuntos, InvRafagas, InvFrescos, NEW t \in Hilos, Paso(t)
  PROVE  InvFrescos'
<1>. SUFFICES ASSUME NEW u \in HilosIO \cup HilosTimer, hilo'[u].en # "reposo"
              PROVE  /\ u[3] <= bloqueo_id'[u[2]]
                     /\ \A c \in Cpus : Entra(c)' /\ cpu'[c] = u[2] => u[3] < bloqueo_id'[u[2]]
  BY DEF InvFrescos
<1>1. u \in Hilos /\ u[2] \in Pids /\ u[3] \in Nat
  BY HilosDistintos
<1>2. /\ bloqueo_id[u[2]] \in Nat /\ bloqueo_id'[u[2]] \in Nat
      /\ bloqueo_id'[u[2]] >= bloqueo_id[u[2]]
      /\ t \in HilosCpu /\ SalirDeExec(t) /\ u[2] = Pid(t) => bloqueo_id'[u[2]] = bloqueo_id[u[2]] + 1
      /\ t \in HilosCpu /\ EntrarABlock(t) => bloqueo_id'[u[2]] = bloqueo_id[u[2]]
  BY <1>1, BloqueosCrecen
<1>3. CASE hilo[u].en # "reposo"
  <2>1. u[3] <= bloqueo_id[u[2]]
    BY <1>3 DEF InvFrescos
  <2>2. ASSUME NEW c \in Cpus, Entra(c)', cpu'[c] = u[2] PROVE u[3] < bloqueo_id'[u[2]]
    <3>1. CASE Entra(c) /\ cpu'[c] = cpu[c]
      <4>1. u[3] < bloqueo_id[u[2]]
        BY <1>3, <2>2, <3>1 DEF InvFrescos
      <4>. QED  BY <1>1, <1>2, <4>1
    <3>2. CASE ~ (Entra(c) /\ cpu'[c] = cpu[c])
      <4>1. t = HiloCpu(c) /\ SalirDeExec(t) /\ cpu'[c] = cpu[c]
        BY <2>2, <3>2, RafagaDe
      <4>2. t \in HilosCpu /\ Pid(t) = u[2]
        BY <2>2, <4>1, HilosDistintos DEF Pid
      <4>. QED  BY <1>1, <1>2, <2>1, <4>1, <4>2
    <3>. QED  BY <3>1, <3>2
  <2>. QED  BY <1>1, <1>2, <2>1, <2>2
<1>4. CASE hilo[u].en = "reposo"
  <2>1. u # t
    BY <1>4, ReposoQuieto
  <2>2. t \in HilosCpu /\ EntrarABlock(t) /\ u[2] = Pid(t) /\ u[3] = bloqueo_id[Pid(t)]
    BY <1>1, <1>4, <2>1, Quietos
  <2>3. ASSUME NEW c \in Cpus, Entra(c)', cpu'[c] = u[2] PROVE FALSE
    <3>1. Entra(t[2]) /\ cpu[t[2]] = u[2] /\ t[2] \in Cpus /\ t = HiloCpu(t[2])
      BY <2>2, HilosDistintos DEF EntrarABlock, Entra, Pid
    <3>2. cpu'[c] = cpu[c] /\ ((Entra(c) /\ t # HiloCpu(c)) \/ (t = HiloCpu(c) /\ SalirDeExec(t)))
      BY <2>3, RafagaDe
    <3>3. ~ SalirDeExec(t)
      BY <2>2 DEF EntrarABlock, SalirDeExec
    <3>. QED  BY <2>3, <3>1, <3>2, <3>3, SMTT(40) DEF InvRafagas
  <2>. QED  BY <1>1, <1>2, <2>2, <2>3
<1>. QED  BY <1>3, <1>4

LEMMA RafagasQuedan ==
  ASSUME Inv, InvPuntos, InvRafagas, InvFrescos, NEW t \in Hilos, Paso(t),
         ~ (t = HiloCP /\ PasarAExec), ~ (t \in HilosCpu /\ SalirDeExec(t)),
         \A c \in Cpus : Atiende(c) /\ Atiende(c)' => cpu[c] \in lista_exec',
         \A c \in Cpus : Entra(c) /\ Entra(c)' => estado'[cpu[c]] = "BLOCK" /\ cpu[c] \notin cola_block'
  PROVE  InvRafagas'
<1>1. \A c \in Cpus : Atiende(c)' => Atiende(c) /\ cpu'[c] = cpu[c]
  BY RafagaDe
<1>2. \A c \in Cpus : Entra(c)' => Entra(c) /\ cpu'[c] = cpu[c]
  BY RafagaDe, HilosDistintos
<1>3. \A c \in Cpus : Atiende(c)' => cpu'[c] \in lista_exec'
  BY <1>1
<1>4. \A c \in Cpus : Entra(c)' => estado'[cpu'[c]] = "BLOCK" /\ cpu'[c] \notin cola_block'
  BY <1>2
<1>5. \A c, d \in Cpus : Atiende(c)' /\ Atiende(d)' /\ cpu'[c] = cpu'[d] => c = d
  BY <1>1 DEF InvRafagas
<1>6. \A c, d \in Cpus : Entra(c)' /\ Entra(d)' /\ cpu'[c] = cpu'[d] => c = d
  BY <1>2 DEF InvRafagas
<1>. QED  BY <1>3, <1>4, <1>5, <1>6 DEF InvRafagas

\* Process p goes from estado a to estado b.
Cambia(p, a, b) ==
  /\ p \in Pids /\ estado[p] = a
  /\ estado' = [estado EXCEPT ![p] = b]

LEMMA ConjuntosCambia ==
  ASSUME TipoPcbs, NEW p, NEW a, NEW b, a # b, Cambia(p, a, b)
  PROVE  /\ p \in ConEstado(a) /\ p \notin ConEstado(b)
         /\ ConEstado(a)' = ConEstado(a) \ {p}
         /\ ConEstado(b)' = ConEstado(b) \cup {p}
         /\ \A e : e # a /\ e # b => ConEstado(e)' = ConEstado(e)
BY DEF Cambia, ConEstado, TipoPcbs

LEMMA ConjuntosIguales ==
  ASSUME UNCHANGED estado, NEW e
  PROVE  ConEstado(e)' = ConEstado(e)
BY DEF ConEstado

\* A step of thread t that leaves the queues alone changes only its own hands.
LEMMA ReadySolo ==
  ASSUME NEW t \in Hilos, \A u \in Hilos \ {t} : EnMano(u)' = EnMano(u), UNCHANGED colas_ready
  PROVE  /\ DOMAIN DondeReady' = DOMAIN DondeReady /\ t \in DOMAIN DondeReady
         /\ \A y \in DOMAIN DondeReady \ {t} : DondeReady'[y] = DondeReady[y]
         /\ DondeReady[t] = EnMano(t) /\ DondeReady'[t] = EnMano(t)'
<1>1. \A u \in Hilos : u \notin Colas
  BY DEF Colas, Cola, Hilos, HiloCP, HilosCpu, HiloCpu, HilosIO, HiloIO, HilosTimer, HiloTimer
<1>. QED  BY <1>1 DEF DondeReady

LEMMA ReadyIgual ==
  ASSUME InvReady, UNCHANGED colas_ready, \A u \in Hilos : EnMano(u)' = EnMano(u),
         ConEstado("READY")' = ConEstado("READY")
  PROVE  InvReady'
<1>1. DondeReady' = DondeReady
  BY DEF DondeReady
<1>2. Reparto(DondeReady, ConEstado("READY"))'
  BY <1>1 DEF InvReady, Reparto
<1>. QED  BY <1>2 DEF InvReady

LEMMA ReadyEntra ==
  ASSUME TipoPcbs, InvReady, NEW t \in Hilos, \A u \in Hilos \ {t} : EnMano(u)' = EnMano(u),
         UNCHANGED colas_ready, NEW p, NEW a, a # "READY", Cambia(p, a, "READY"),
         EnMano(t) = {}, EnMano(t)' = {p}
  PROVE  InvReady'
<1>1. ConEstado("READY")' = ConEstado("READY") \cup {p} /\ p \notin ConEstado("READY")
  BY ConjuntosCambia
<1>2. /\ DOMAIN DondeReady' = DOMAIN DondeReady /\ t \in DOMAIN DondeReady
      /\ \A y \in DOMAIN DondeReady \ {t} : DondeReady'[y] = DondeReady[y]
      /\ DondeReady'[t] = DondeReady[t] \cup {p}
  BY ReadySolo
<1>3. Reparto(DondeReady', ConEstado("READY") \cup {p})
  BY <1>1, <1>2, RepartoEntra DEF InvReady
<1>4. Reparto(DondeReady, ConEstado("READY"))'
  BY <1>1, <1>3 DEF Reparto
<1>. QED  BY <1>4 DEF InvReady

LEMMA ReadySale ==
  ASSUME TipoPcbs, InvReady, NEW t \in Hilos, \A u \in Hilos \ {t} : EnMano(u)' = EnMano(u),
         UNCHANGED colas_ready, NEW p, NEW b, b # "READY", Cambia(p, "READY", b),
         EnMano(t) = {p}, EnMano(t)' = {}
  PROVE  InvReady'
<1>1. ConEstado("READY")' = ConEstado("READY") \ {p}
  BY ConjuntosCambia
<1>2. /\ DOMAIN DondeReady' = DOMAIN DondeReady /\ t \in DOMAIN DondeReady
      /\ \A y \in DOMAIN DondeReady \ {t} : DondeReady'[y] = DondeReady[y]
      /\ DondeReady'[t] = DondeReady[t] \ {p} /\ p \in DondeReady[t]
  BY ReadySolo
<1>3. Reparto(DondeReady', ConEstado("READY") \ {p})
  BY <1>2, RepartoSale DEF InvReady
<1>4. Reparto(DondeReady, ConEstado("READY"))'
  BY <1>1, <1>3 DEF Reparto
<1>. QED  BY <1>4 DEF InvReady

\* What a thread has in its hands is READY.
LEMMA DeMano ==
  ASSUME InvReady, NEW t \in Hilos, hilo[t].en \in Manos
  PROVE  /\ hilo[t].pid \in ConEstado("READY") /\ t \in DOMAIN DondeReady /\ t \notin Colas
         /\ DondeReady[t] = {hilo[t].pid}
<1>1. t \notin Colas
  BY DEF Colas, Cola, Hilos, HiloCP, HilosCpu, HiloCpu, HilosIO, HiloIO, HilosTimer, HiloTimer
<1>. QED  BY <1>1 DEF InvReady, Reparto, DondeReady, EnMano

LEMMA PasoEncolar ==
  ASSUME Inv, InvReady, NEW t \in Hilos, Encolar(t), \A u \in Hilos \ {t} : EnMano(u)' = EnMano(u)
  PROVE  InvReady'
<1>. PICK p : p = hilo[t].pid
  OBVIOUS
<1>. PICK q : q = ColaDeNivel(prioridad_actual[p])
  OBVIOUS
<1>. PICK x : x = Cola(q)
  OBVIOUS
<1>1. /\ hilo[t].en = "encola" /\ UNCHANGED estado
      /\ colas_ready' = [colas_ready EXCEPT ![q] = Append(@, p)]
      /\ hilo' = [hilo EXCEPT ![t].en = hilo[t].tras]
  BY DEF Encolar, Ir
<1>p. /\ p \in Pids /\ hilo[t].tras \in Regresos /\ TipoHilos /\ LocalesOK(hilo[t])
      /\ colas_ready \in [0 .. CantColas - 1 -> Seq(Pids)] /\ q \in 0 .. CantColas - 1
  BY <1>1, EnPunto, ColaEnRango DEF Inv, TipoPcbs, TipoColas, ConPid
<1>2. p \in ConEstado("READY") /\ t \in DOMAIN DondeReady /\ t \notin Colas /\ DondeReady[t] = {p}
  BY <1>1, DeMano DEF Manos
<1>3. x \in Colas /\ x \in DOMAIN DondeReady /\ x # t /\ x[2] = q
      /\ DondeReady[x] = ToSet(colas_ready[q])
  BY <1>p, <1>2 DEF Colas, DondeReady, Cola
<1>4. p \notin ToSet(colas_ready[q])
  BY <1>2, <1>3, SMTT(40) DEF InvReady, Reparto
<1>5. /\ ToSet(colas_ready'[q]) = ToSet(colas_ready[q]) \cup {p} /\ IsInjective(colas_ready'[q])
      /\ \A r \in 0 .. CantColas - 1 : r # q => colas_ready'[r] = colas_ready[r]
  <2>1. IsInjective(colas_ready[q]) /\ colas_ready[q] \in Seq(Pids)
    BY <1>p DEF InvReady
  <2>. QED  BY <1>p, <1>1, <1>4, <2>1, AppendSinRepetir, ToSetAppend
<1>6. DOMAIN DondeReady' = DOMAIN DondeReady
  BY DEF DondeReady
<1>7. DondeReady'[t] = DondeReady[t] \ {p}
  <2>1. hilo'[t].en \notin Manos
    BY <1>1, <1>p, SMTT(40) DEF Regresos, Manos, LocalesOK, Locales, TipoHilos
  <2>. QED  BY <1>2, <2>1 DEF DondeReady, EnMano
<1>8. DondeReady'[x] = DondeReady[x] \cup {p}
  BY <1>3, <1>5 DEF DondeReady
<1>9. ASSUME NEW y \in DOMAIN DondeReady \ {t, x} PROVE DondeReady'[y] = DondeReady[y]
  <2>1. CASE y \in Colas
    <3>1. PICK r \in 0 .. CantColas - 1 : y = Cola(r)
      BY <2>1 DEF Colas
    <3>2. r # q /\ y[2] = r
      BY <1>9, <3>1 DEF Cola
    <3>. QED  BY <1>5, <2>1, <3>2 DEF DondeReady
  <2>2. CASE y \notin Colas
    BY <1>9, <2>2 DEF DondeReady
  <2>. QED  BY <2>1, <2>2
<1>10. Reparto(DondeReady', ConEstado("READY"))
  BY <1>2, <1>3, <1>6, <1>7, <1>8, <1>9, RepartoPasa DEF InvReady
<1>11. Reparto(DondeReady, ConEstado("READY"))'
  BY <1>1, <1>10, ConjuntosIguales DEF Reparto
<1>12. \A r \in 0 .. CantColas - 1 : IsInjective(colas_ready'[r])
  BY <1>5 DEF InvReady
<1>. QED  BY <1>11, <1>12 DEF InvReady

LEMMA PasoTomar ==
  ASSUME Inv, InvReady, TomarReady, \A u \in Hilos \ {HiloCP} : EnMano(u)' = EnMano(u)
  PROVE  InvReady'
<1>. PICK con : con = {q \in DOMAIN colas_ready : colas_ready[q] # <<>>}
  OBVIOUS
<1>. PICK t : t = HiloCP
  OBVIOUS
<1>p. /\ t \in Hilos /\ TipoHilos /\ LocalesOK(hilo[t]) /\ hilo[t].en = "reposo" /\ UNCHANGED estado
      /\ colas_ready \in [0 .. CantColas - 1 -> Seq(Pids)]
  BY HilosDistintos, EnPunto DEF Inv, TipoColas, TomarReady
<1>2. CASE con = {}
  <2>1. UNCHANGED <<colas_ready, hilo>>
    BY <1>2 DEF TomarReady
  <2>. QED  BY <1>p, <2>1, ReadyIgual, ConjuntosIguales DEF EnMano
<1>3. CASE con # {}
  <2>. PICK q : q = Min(con)
    OBVIOUS
  <2>. PICK p : p = Head(colas_ready[q])
    OBVIOUS
  <2>. PICK x : x = Cola(q)
    OBVIOUS
  <2>1. q \in con
    <3>1. con \subseteq Nat
      BY <1>p
    <3>. QED  BY <1>3, <3>1, MinEsElemento
  <2>2. q \in 0 .. CantColas - 1 /\ colas_ready[q] # <<>> /\ colas_ready[q] \in Seq(Pids)
    BY <1>p, <2>1
  <2>3. /\ colas_ready' = [colas_ready EXCEPT ![q] = Tail(@)]
        /\ hilo' = [hilo EXCEPT ![t].en = "despacha", ![t].pid = p]
    BY <1>3 DEF TomarReady
  <2>4. /\ p \in ToSet(colas_ready[q]) /\ ToSet(colas_ready'[q]) = ToSet(colas_ready[q]) \ {p}
        /\ IsInjective(colas_ready'[q])
        /\ \A r \in 0 .. CantColas - 1 : r # q => colas_ready'[r] = colas_ready[r]
    <3>1. IsInjective(colas_ready[q])
      BY <2>2 DEF InvReady
    <3>. QED  BY <1>p, <2>2, <2>3, <3>1, CabezaYCola
  <2>5. t \notin Colas /\ t \in DOMAIN DondeReady /\ DondeReady[t] = {} /\ DondeReady'[t] = {p}
    <3>1. t \notin Colas
      BY DEF Colas, Cola, HiloCP
    <3>2. hilo'[t].en = "despacha" /\ hilo'[t].pid = p
      BY <1>p, <2>3 DEF TipoHilos, LocalesOK, Locales
    <3>. QED  BY <1>p, <3>1, <3>2 DEF DondeReady, EnMano, Manos
  <2>6. x \in Colas /\ x \in DOMAIN DondeReady /\ x # t /\ x[2] = q
        /\ DondeReady[x] = ToSet(colas_ready[q]) /\ DondeReady'[x] = DondeReady[x] \ {p}
    BY <2>2, <2>4, <2>5 DEF Colas, DondeReady, Cola
  <2>7. DOMAIN DondeReady' = DOMAIN DondeReady
    BY DEF DondeReady
  <2>8. ASSUME NEW y \in DOMAIN DondeReady \ {x, t} PROVE DondeReady'[y] = DondeReady[y]
    <3>1. CASE y \in Colas
      <4>1. PICK r \in 0 .. CantColas - 1 : y = Cola(r)
        BY <3>1 DEF Colas
      <4>2. r # q /\ y[2] = r
        BY <2>8, <4>1 DEF Cola
      <4>. QED  BY <2>4, <3>1, <4>2 DEF DondeReady
    <3>2. CASE y \notin Colas
      BY <2>8, <3>2 DEF DondeReady
    <3>. QED  BY <3>1, <3>2
  <2>9. Reparto(DondeReady', ConEstado("READY"))
    BY <2>4, <2>5, <2>6, <2>7, <2>8, RepartoPasa DEF InvReady
  <2>10. Reparto(DondeReady, ConEstado("READY"))'
    BY <1>p, <2>9, ConjuntosIguales DEF Reparto
  <2>11. \A r \in 0 .. CantColas - 1 : IsInjective(colas_ready'[r])
    BY <2>4 DEF InvReady
  <2>. QED  BY <2>10, <2>11 DEF InvReady
<1>. QED  BY <1>2, <1>3

\* The steps that change the estado of no process.
LEMMA PasoQuieto ==
  ASSUME Inv, InvPuntos, InvLugar, NEW t \in Hilos, Paso(t), InvReady',
         UNCHANGED <<estado, lista_exec, cola_block, susp_block, susp_ready>>,
         ~ (t = HiloCP /\ PasarAExec), ~ (t \in HilosCpu /\ (SalirDeExec(t) \/ EntrarABlock(t)))
  PROVE  InvLugar'
<1>l. InvListas /\ InvRafagas /\ InvReady /\ InvFrescos
  BY DEF InvLugar
<1>1. InvRafagas'
  <2>1. \A c \in Cpus : Atiende(c) => cpu[c] \in lista_exec'
    BY <1>l DEF InvRafagas
  <2>2. \A c \in Cpus : Entra(c) => estado'[cpu[c]] = "BLOCK" /\ cpu[c] \notin cola_block'
    BY <1>l DEF InvRafagas
  <2>. QED  BY <1>l, <2>1, <2>2, RafagasQuedan
<1>2. InvListas'
  <2>1. \A c \in Cpus : Entra(c) => Entra(c)' /\ cpu'[c] = cpu[c]
    BY <1>l, RafagaDe, HilosDistintos
  <2>. QED  BY <1>l, <2>1 DEF InvListas
<1>. QED  BY <1>l, <1>1, <1>2, PasoFrescos DEF InvLugar

\* The steps that move no process.
LEMMA PasoNeutro ==
  ASSUME Inv, InvPuntos, InvLugar, NEW t \in Hilos, Paso(t), EnMano(t)' = EnMano(t),
         UNCHANGED <<estado, lista_exec, cola_block, susp_block, susp_ready, colas_ready>>,
         ~ (t = HiloCP /\ PasarAExec), ~ (t \in HilosCpu /\ (SalirDeExec(t) \/ EntrarABlock(t)))
  PROVE  InvLugar'
<1>1. \A u \in Hilos : EnMano(u)' = EnMano(u)
  BY Quietos DEF InvLugar
<1>2. InvReady'
  BY <1>1, ReadyIgual, ConjuntosIguales DEF InvLugar
<1>. QED  BY <1>2, PasoQuieto

LEMMA NeutrosComunes ==
  ASSUME Inv, NEW t \in Hilos,
         \/ Suspender(t) \/ TomarEvento(t) \/ Dessuspender(t) \/ FinDeCandidatos(t)
         \/ ReintentarEspera(t) \/ SoltarEvento(t)
  PROVE  /\ UNCHANGED <<estado, lista_exec, cola_block, susp_block, susp_ready, colas_ready>>
         /\ EnMano(t)' = EnMano(t)
<1>t. TipoHilos /\ hilo = [u \in Hilos |-> hilo[u]] /\ hilo[t] \in Locales /\ hilo[t].luego \in Continuaciones
  BY EnPunto DEF Inv, TipoHilos, LocalesOK
<1>1. UNCHANGED <<estado, lista_exec, cola_block, susp_block, susp_ready, colas_ready>>
  BY DEF Suspender, TomarEvento, Dessuspender, FinDeCandidatos, ReintentarEspera, SoltarEvento, ready, suspendidos
<1>2. CASE Suspender(t) \/ TomarEvento(t) \/ FinDeCandidatos(t)
  <2>1. /\ hilo[t].en \in {"suspende", "evento", "candidatos"}
        /\ Ir(t, "candidatos") \/ Ir(t, "esperas") \/ LlamarEvento(t, "reposo")
    BY <1>2, Zenon DEF Suspender, TomarEvento, FinDeCandidatos
  <2>2. hilo[t].en \notin Manos /\ hilo'[t].en \notin Manos
    BY <1>t, <2>1, LlamadaEvento, LlamadaIr DEF Manos
  <2>. QED  BY <1>1, <2>2 DEF EnMano
<1>3. CASE Dessuspender(t)
  <2>1. PICK p : /\ hilo[t].en = "candidatos"
                 /\ hilo' = hilo \/ hilo' = [hilo EXCEPT ![t].en = "vuelve", ![t].pid = p]
    BY <1>3, Zenon DEF Dessuspender
  <2>2. hilo[t].en \notin Manos /\ hilo'[t].en \notin Manos
    BY <1>t, <2>1 DEF Manos, Locales
  <2>. QED  BY <1>1, <2>2 DEF EnMano
<1>4. CASE ReintentarEspera(t)
  <2>1. /\ hilo[t].en = "esperas"
        /\ hilo' = hilo \/ \E p : LlamarDesbloquear(t, p, "esperas")
    BY <1>4, Zenon DEF ReintentarEspera
  <2>2. hilo[t].en \notin Manos /\ hilo'[t].en \notin Manos
    BY <1>t, <2>1, LlamadaDesbloquear DEF Manos
  <2>. QED  BY <1>1, <2>2 DEF EnMano
<1>5. CASE SoltarEvento(t)
  BY <1>t, <1>1, <1>5 DEF SoltarEvento, EnMano, Manos, Seguir, EnReposo, Continuaciones
<1>. QED  BY <1>1, <1>2, <1>3, <1>4, <1>5

LEMMA NeutrosIO ==
  ASSUME Inv, NEW t \in HilosIO, PasoIO(t)
  PROVE  /\ UNCHANGED <<estado, lista_exec, cola_block, susp_block, susp_ready, colas_ready>>
         /\ EnMano(t)' = EnMano(t)
<1>t. t \in Hilos /\ hilo = [u \in Hilos |-> hilo[u]] /\ hilo[t] \in Locales
  BY HilosDistintos, EnPunto DEF Inv, TipoHilos, LocalesOK
<1>1. UNCHANGED <<estado, lista_exec, cola_block, susp_block, susp_ready, colas_ready>>
  BY DEF PasoIO, ready, suspendidos
<1>2. hilo[t].en \notin Manos
  BY DEF PasoIO, EsperarDispositivo, TomarDispositivo, PedirDispositivo, LeerOK, FallarIO,
     LiberarDispositivo, PostearDispositivo, TerminarIO, Manos
<1>3. hilo'[t].en \notin Manos
  BY <1>t DEF PasoIO, EsperarDispositivo, TomarDispositivo, PedirDispositivo, LeerOK, FallarIO,
     LiberarDispositivo, PostearDispositivo, TerminarIO, Manos, Ir, Terminar, Seguir, EnReposo,
     LlamarEvento, LlamarDesbloquear, Locales
<1>. QED  BY <1>1, <1>2, <1>3 DEF EnMano

\* With Colas Multinivel off, a change of priority moves nobody.
LEMMA SinMover ==
  ASSUME ~ config.cmn, NEW p, NEW n, CambiarPrioridad(p, n)
  PROVE  UNCHANGED colas_ready
BY DEF CambiarPrioridad

LEMMA NeutrosCpu ==
  ASSUME Inv, ~ config.cmn, NEW t \in HilosCpu,
         \/ PedirBloqueoIO(t) \/ PedirMemoria(t) \/ DevolverMemoria(t) \/ PedirMutex(t)
         \/ BuscarDueno(t) \/ Heredar(t) \/ DevolverMutex(t) \/ Ceder(t) \/ AnotarDespertado(t)
         \/ LiberarMutex(t) \/ FinalizarKM(t) \/ AnotarEspera(t) \/ LiberarCpu(t)
  PROVE  /\ UNCHANGED <<estado, lista_exec, cola_block, susp_block, susp_ready, colas_ready>>
         /\ EnMano(t)' = EnMano(t)
         /\ ~ SalirDeExec(t) /\ ~ EntrarABlock(t)
<1>t. /\ t \in Hilos /\ hilo = [u \in Hilos |-> hilo[u]] /\ hilo[t] \in Locales
      /\ hilo[t].luego \in Continuaciones
  BY HilosDistintos, EnPunto DEF Inv, TipoHilos, LocalesOK
<1>. USE DEF Manos, EnMano, SalirDeExec, EntrarABlock, ready, suspendidos, Ir, Seguir, Terminar,
             LlamarDesbloquear, LlamarEvento, EnReposo
<1>1. CASE PedirBloqueoIO(t) \/ PedirMemoria(t) \/ DevolverMemoria(t) \/ PedirMutex(t)
  BY <1>t, <1>1 DEF PedirBloqueoIO, PedirMemoria, DevolverMemoria, PedirMutex, Recibir, Locales
<1>2. CASE BuscarDueno(t) \/ Ceder(t) \/ AnotarDespertado(t)
  BY <1>t, <1>2 DEF BuscarDueno, Buscar, Ceder, AnotarDespertado, Locales, Continuaciones
<1>3. CASE Heredar(t)
  <2>1. UNCHANGED colas_ready
    BY <1>3, SinMover DEF Heredar
  <2>. QED  BY <1>t, <1>3, <2>1 DEF Heredar, Locales
<1>4. CASE DevolverMutex(t) \/ LiberarMutex(t)
  <2>1. UNCHANGED colas_ready
    BY <1>4, SinMover DEF DevolverMutex, LiberarMutex, EmpezarUnlock
  <2>. QED  BY <1>t, <1>4, <2>1 DEF DevolverMutex, LiberarMutex, EmpezarUnlock, Recibir, Locales
<1>5. CASE FinalizarKM(t) \/ AnotarEspera(t) \/ LiberarCpu(t)
  BY <1>t, <1>5 DEF FinalizarKM, AnotarEspera, LiberarCpu, Locales
<1>. QED  BY <1>1, <1>2, <1>3, <1>4, <1>5

\* The steps that take a process out of cola_block, or from one list of the
\* suspended to the other: p is in no CPU, and in nobody's hands before.
LEMMA PasoDormido ==
  ASSUME Inv, InvPuntos, InvLugar, NEW t \in Hilos, Paso(t), NEW p, NEW a, NEW b, a # b,
         Cambia(p, a, b), a \notin {"EXEC", "READY"}, b \notin {"EXEC", "BLOCK"},
         UNCHANGED <<lista_exec, colas_ready>>,
         a = "BLOCK" => p \in cola_block,
         cola_block' = cola_block \ (IF a = "BLOCK" THEN {p} ELSE {}),
         susp_block' = (susp_block \ (IF a = "SUSP_BLOCK" THEN {p} ELSE {}))
                         \cup (IF b = "SUSP_BLOCK" THEN {p} ELSE {}),
         susp_ready' = (susp_ready \ (IF a = "SUSP_READY" THEN {p} ELSE {}))
                         \cup (IF b = "SUSP_READY" THEN {p} ELSE {}),
         EnMano(t) = {}, EnMano(t)' = IF b = "READY" THEN {p} ELSE {},
         ~ (t = HiloCP /\ PasarAExec), ~ (t \in HilosCpu /\ (SalirDeExec(t) \/ EntrarABlock(t)))
  PROVE  InvLugar'
<1>l. InvListas /\ InvRafagas /\ InvReady /\ InvFrescos /\ TipoPcbs
  BY DEF InvLugar, Inv
<1>q. \A u \in Hilos \ {t} : EnMano(u)' = EnMano(u)
  BY <1>l, Quietos
<1>1. InvReady'
  <2>1. CASE b = "READY"
    BY <1>l, <1>q, <2>1, ReadyEntra
  <2>2. CASE b # "READY"
    <3>1. ConEstado("READY")' = ConEstado("READY")
      BY <1>l, <2>2, ConjuntosCambia
    <3>. QED  BY <1>l, <1>q, <2>2, <3>1, ReadyIgual
  <2>. QED  BY <2>1, <2>2
<1>e. \A x \in Pids : estado'[x] = IF x = p THEN b ELSE estado[x]
  BY <1>l DEF Cambia, TipoPcbs
<1>2. InvRafagas'
  <2>1. \A c \in Cpus : Atiende(c) => cpu[c] \in lista_exec'
    BY <1>l DEF InvRafagas
  <2>2. ASSUME NEW c \in Cpus, Entra(c)
        PROVE  estado'[cpu[c]] = "BLOCK" /\ cpu[c] \notin cola_block'
    <3>1. estado[cpu[c]] = "BLOCK" /\ cpu[c] \notin cola_block
      BY <1>l, <2>2 DEF InvRafagas
    <3>2. cpu[c] # p
      BY <3>1 DEF Cambia
    <3>. QED  BY <1>l, <3>1, <3>2 DEF Cambia, TipoPcbs
  <2>. QED  BY <1>l, <2>1, <2>2, RafagasQuedan
<1>3. InvListas'
  <2>1. \A c \in Cpus : Entra(c) => Entra(c)' /\ cpu'[c] = cpu[c]
    BY <1>l, RafagaDe, HilosDistintos
  <2>2. ASSUME NEW x \in Pids
        PROVE  /\ x \in lista_exec' <=> estado'[x] = "EXEC"
               /\ x \in susp_block' <=> estado'[x] = "SUSP_BLOCK"
               /\ x \in susp_ready' <=> estado'[x] = "SUSP_READY"
               /\ x \in cola_block' => estado'[x] = "BLOCK"
    BY <1>l, <1>e DEF InvListas, Cambia
  <2>3. ASSUME NEW x \in Pids, estado'[x] = "BLOCK"
        PROVE  x \in cola_block' \/ \E c \in Cpus : Entra(c)' /\ cpu'[c] = x
    <3>1. x # p /\ estado[x] = "BLOCK"
      BY <1>e, <2>3
    <3>. QED  BY <1>l, <2>1, <3>1 DEF InvListas
  <2>. QED  BY <2>2, <2>3 DEF InvListas
<1>. QED  BY <1>l, <1>1, <1>2, <1>3, PasoFrescos DEF InvLugar

LEMMA LugarComun ==
  ASSUME Inv, InvPuntos, InvLugar, NEW t \in Hilos, Paso(t), PasoComun(t)
  PROVE  InvLugar'
<1>t. /\ hilo = [u \in Hilos |-> hilo[u]] /\ hilo[t] \in Locales /\ hilo[t].tras \in Regresos
      /\ hilo[t].en \in ConPid => hilo[t].pid \in Pids
  BY EnPunto DEF Inv, TipoHilos, LocalesOK
<1>l. InvListas /\ InvReady /\ InvFrescos
  BY SMTT(40) DEF InvLugar
<1>s. ~ (t = HiloCP /\ PasarAExec) /\ ~ (t \in HilosCpu /\ (SalirDeExec(t) \/ EntrarABlock(t)))
  BY DEF PasoComun, PasoMedianoPlazo, Encolar, DesbloquearBlock, DesbloquearSusp, VencerTimer,
     Suspender, TomarEvento, Dessuspender, Volver, FinDeCandidatos, ReintentarEspera, SoltarEvento,
     PasarAExec, SalirDeExec, EntrarABlock
<1>1. CASE \/ Suspender(t) \/ TomarEvento(t) \/ Dessuspender(t) \/ FinDeCandidatos(t)
           \/ ReintentarEspera(t) \/ SoltarEvento(t)
  BY <1>s, <1>1, NeutrosComunes, PasoNeutro
<1>2. CASE Encolar(t)
  <2>1. \A u \in Hilos \ {t} : EnMano(u)' = EnMano(u)
    BY <1>l, Quietos
  <2>2. InvReady'
    BY <1>l, <1>2, <2>1, PasoEncolar
  <2>3. UNCHANGED <<estado, lista_exec, cola_block, susp_block, susp_ready>>
    BY <1>2 DEF Encolar, suspendidos
  <2>. QED  BY <1>s, <2>2, <2>3, PasoQuieto
<1>3. CASE DesbloquearBlock(t)
  <2>. PICK p : p = hilo[t].pid
    OBVIOUS
  <2>1. p \in Pids /\ EnMano(t) = {}
    BY <1>t, <1>3 DEF DesbloquearBlock, EnMano, Manos, ConPid
  <2>2. CASE p \in cola_block
    <3>1. Cambia(p, "BLOCK", "READY")
      BY <1>3, <1>l, <2>1, <2>2 DEF DesbloquearBlock, InvListas, Cambia
    <3>2. /\ UNCHANGED <<lista_exec, susp_block, susp_ready, colas_ready>>
          /\ cola_block' = cola_block \ {p}
          /\ hilo' = [hilo EXCEPT ![t].en = "encola", ![t].fue = "ready"]
      BY <1>3, <2>2 DEF DesbloquearBlock, suspendidos, ready
    <3>3. EnMano(t)' = {p}
      BY <1>t, <3>2 DEF EnMano, Manos, Locales
    <3>. QED  BY <1>s, <2>1, <2>2, <3>1, <3>2, <3>3, PasoDormido
  <2>3. CASE p \notin cola_block
    <3>1. /\ UNCHANGED <<estado, lista_exec, cola_block, susp_block, susp_ready, colas_ready>>
          /\ hilo' = [hilo EXCEPT ![t].en = "desbloquea_susp"]
      BY <1>3, <2>3 DEF DesbloquearBlock, suspendidos, ready, Ir
    <3>2. EnMano(t)' = {}
      BY <1>t, <3>1 DEF EnMano, Manos, Locales
    <3>. QED  BY <1>s, <2>1, <3>1, <3>2, PasoNeutro
  <2>. QED  BY <2>2, <2>3
<1>4. CASE DesbloquearSusp(t)
  <2>. PICK p : p = hilo[t].pid
    OBVIOUS
  <2>1. /\ p \in Pids /\ EnMano(t) = {} /\ EnMano(t)' = {}
        /\ UNCHANGED <<lista_exec, cola_block, colas_ready>>
    BY <1>t, <1>4 DEF DesbloquearSusp, EnMano, Manos, ConPid, Regresos, Locales, Ir, ready
  <2>2. CASE p \in susp_block
    <3>1. Cambia(p, "SUSP_BLOCK", "SUSP_READY")
      BY <1>4, <1>l, <2>1, <2>2 DEF DesbloquearSusp, InvListas, Cambia
    <3>2. susp_block' = susp_block \ {p} /\ susp_ready' = susp_ready \cup {p}
      BY <1>4, <2>2 DEF DesbloquearSusp
    <3>. QED  BY <1>s, <2>1, <3>1, <3>2, PasoDormido
  <2>3. CASE p \notin susp_block
    <3>1. UNCHANGED <<estado, susp_block, susp_ready>>
      BY <1>4, <2>3 DEF DesbloquearSusp
    <3>. QED  BY <1>s, <2>1, <3>1, PasoNeutro
  <2>. QED  BY <2>2, <2>3
<1>5. CASE VencerTimer(t)
  <2>. PICK p : p = t[2]
    OBVIOUS
  <2>1. /\ p \in Pids /\ EnMano(t) = {} /\ EnMano(t)' = {}
        /\ UNCHANGED <<lista_exec, susp_ready, colas_ready>>
    BY <1>t, <1>5, HilosDistintos DEF VencerTimer, EnMano, Manos, Locales, Ir, Terminar, Seguir, EnReposo, ready
  <2>2. CASE p \in cola_block /\ bloqueo_id[p] = t[3]
    <3>1. Cambia(p, "BLOCK", "SUSP_BLOCK")
      BY <1>5, <1>l, <2>1, <2>2 DEF VencerTimer, InvListas, Cambia
    <3>2. susp_block' = susp_block \cup {p} /\ cola_block' = cola_block \ {p}
      BY <1>5, <2>2 DEF VencerTimer
    <3>. QED  BY <1>s, <2>1, <2>2, <3>1, <3>2, PasoDormido
  <2>3. CASE ~ (p \in cola_block /\ bloqueo_id[p] = t[3])
    <3>1. UNCHANGED <<estado, cola_block, susp_block>>
      BY <1>5, <2>3 DEF VencerTimer
    <3>. QED  BY <1>s, <2>1, <3>1, PasoNeutro
  <2>. QED  BY <2>2, <2>3
<1>6. CASE Volver(t)
  <2>. PICK p : p = hilo[t].pid
    OBVIOUS
  <2>1. /\ p \in Pids /\ EnMano(t) = {}
        /\ UNCHANGED <<lista_exec, susp_block, cola_block, colas_ready>>
    BY <1>t, <1>6 DEF Volver, EnMano, Manos, ConPid, ready
  <2>2. CASE p \in susp_ready
    <3>1. Cambia(p, "SUSP_READY", "READY")
      BY <1>6, <1>l, <2>1, <2>2 DEF Volver, InvListas, Cambia
    <3>2. susp_ready' = susp_ready \ {p} /\ LlamarEncolar(t, p, "candidatos")
      BY <1>6, <2>2 DEF Volver
    <3>3. EnMano(t)' = {p}
      BY <1>t, <3>2 DEF EnMano, Manos, Locales, LlamarEncolar
    <3>. QED  BY <1>s, <2>1, <3>1, <3>2, <3>3, PasoDormido
  <2>3. CASE p \notin susp_ready
    <3>1. UNCHANGED <<estado, susp_ready>> /\ hilo' = [hilo EXCEPT ![t].en = "candidatos"]
      BY <1>6, <2>3 DEF Volver, Ir
    <3>2. EnMano(t)' = {}
      BY <1>t, <3>1 DEF EnMano, Manos, Locales
    <3>. QED  BY <1>s, <2>1, <3>1, <3>2, PasoNeutro
  <2>. QED  BY <2>2, <2>3
<1>. QED  BY <1>1, <1>2, <1>3, <1>4, <1>5, <1>6 DEF PasoComun, PasoMedianoPlazo

\* The corto plazo takes a process out of a queue, and gives it to a CPU.
LEMMA LugarCP ==
  ASSUME Inv, InvPuntos, InvLugar, Paso(HiloCP), PasoCP
  PROVE  InvLugar'
<1>l. InvListas /\ InvRafagas /\ InvReady /\ InvFrescos /\ TipoPcbs /\ TipoCpu
  BY DEF InvLugar, Inv
<1>t. HiloCP \in Hilos /\ HiloCP \notin HilosCpu /\ LocalesOK(hilo[HiloCP]) /\ TipoHilos
  BY HilosDistintos, EnPunto DEF Inv
<1>q. \A u \in Hilos \ {HiloCP} : EnMano(u)' = EnMano(u)
  BY <1>l, <1>t, Quietos
<1>1. CASE TomarReady
  <2>1. InvReady'
    BY <1>l, <1>q, <1>1, PasoTomar
  <2>2. UNCHANGED <<estado, lista_exec, cola_block, susp_block, susp_ready>> /\ ~ PasarAExec
    BY <1>1 DEF TomarReady, PasarAExec, suspendidos
  <2>. QED  BY <1>t, <2>1, <2>2, PasoQuieto
<1>2. CASE PasarAExec
  <2>. PICK p : p = hilo[HiloCP].pid
    OBVIOUS
  <2>1. /\ p \in ConEstado("READY") /\ EnMano(HiloCP) = {p} /\ EnMano(HiloCP)' = {}
    <3>1. hilo[HiloCP].en = "despacha" /\ hilo'[HiloCP].en = "reposo"
      BY <1>t, <1>2 DEF PasarAExec, Terminar, Seguir, EnReposo, TipoHilos
    <3>. QED  BY <1>l, <1>t, <3>1, DeMano DEF EnMano, Manos
  <2>2. /\ estado' = [estado EXCEPT ![p] = "EXEC"] /\ lista_exec' = lista_exec \cup {p}
        /\ UNCHANGED <<cola_block, susp_block, susp_ready, colas_ready>>
    BY <1>2 DEF PasarAExec, suspendidos, ready
  <2>3. Cambia(p, "READY", "EXEC")
    BY <2>1, <2>2 DEF Cambia, ConEstado
  <2>e. \A x \in Pids : estado'[x] = IF x = p THEN "EXEC" ELSE estado[x]
    BY <1>l, <2>2 DEF TipoPcbs
  <2>4. InvReady'
    BY <1>l, <1>t, <1>q, <2>1, <2>2, <2>3, ReadySale
  <2>5. PICK k \in Cpus : cpu[k] = NADA /\ cpu' = [cpu EXCEPT ![k] = p]
    BY <1>2, CpuElegida
  <2>6. \A c \in Cpus : hilo'[HiloCpu(c)] = hilo[HiloCpu(c)]
    BY <1>t, <1>l, Quietos, HilosDistintos
  <2>7. \A c \in Cpus : c # k => cpu'[c] = cpu[c]
    BY <1>l, <2>5 DEF TipoCpu
  <2>8. \A c \in Cpus : Atiende(c)' => (cpu'[c] = p /\ c = k) \/ (Atiende(c) /\ cpu'[c] = cpu[c])
    BY <1>l, <2>5, <2>6, <2>7 DEF Atiende, TipoCpu
  <2>9. \A c \in Cpus : Atiende(c) => cpu[c] # p
    BY <1>l, <2>3 DEF InvRafagas, InvListas, Cambia
  <2>10. \A c \in Cpus : Entra(c)' <=> Entra(c)
    BY <2>6 DEF Entra
  <2>11. \A c \in Cpus : Entra(c) => cpu'[c] = cpu[c] /\ cpu[c] # p
    <3>1. ASSUME NEW c \in Cpus, Entra(c) PROVE cpu'[c] = cpu[c] /\ cpu[c] # p
      <4>1. cpu[c] \in Pids /\ estado[cpu[c]] = "BLOCK"
        BY <1>l, <3>1 DEF Entra, TipoCpu, InvRafagas
      <4>2. c # k
        BY <2>5, <4>1, ProcesosOK
      <4>. QED  BY <2>3, <2>7, <4>1, <4>2 DEF Cambia
    <3>. QED  BY <3>1
  <2>12. InvRafagas'
    <3>1. \A c \in Cpus : Atiende(c)' => cpu'[c] \in lista_exec'
      BY <1>l, <2>2, <2>8 DEF InvRafagas
    <3>2. \A c \in Cpus : Entra(c)' => estado'[cpu'[c]] = "BLOCK" /\ cpu'[c] \notin cola_block'
      <4>1. ASSUME NEW c \in Cpus, Entra(c)
            PROVE  estado'[cpu'[c]] = "BLOCK" /\ cpu'[c] \notin cola_block'
        <5>1. cpu[c] \in Pids
          BY <1>l, <4>1 DEF Entra, TipoCpu
        <5>. QED  BY <1>l, <2>2, <2>e, <2>11, <4>1, <5>1 DEF InvRafagas
      <4>. QED  BY <2>10, <4>1
    <3>3. \A c, d \in Cpus : Atiende(c)' /\ Atiende(d)' /\ cpu'[c] = cpu'[d] => c = d
      BY <1>l, <2>8, <2>9 DEF InvRafagas
    <3>4. \A c, d \in Cpus : Entra(c)' /\ Entra(d)' /\ cpu'[c] = cpu'[d] => c = d
      BY <1>l, <2>10, <2>11 DEF InvRafagas
    <3>. QED  BY <3>1, <3>2, <3>3, <3>4 DEF InvRafagas
  <2>13. InvListas'
    <3>1. ASSUME NEW x \in Pids
          PROVE  /\ x \in lista_exec' <=> estado'[x] = "EXEC"
                 /\ x \in susp_block' <=> estado'[x] = "SUSP_BLOCK"
                 /\ x \in susp_ready' <=> estado'[x] = "SUSP_READY"
                 /\ x \in cola_block' => estado'[x] = "BLOCK"
      BY <1>l, <2>2, <2>3, <2>e DEF InvListas, Cambia
    <3>2. ASSUME NEW x \in Pids, estado'[x] = "BLOCK"
          PROVE  x \in cola_block' \/ \E c \in Cpus : Entra(c)' /\ cpu'[c] = x
      BY <1>l, <2>2, <2>e, <2>10, <2>11, <3>2 DEF InvListas
    <3>. QED  BY <3>1, <3>2 DEF InvListas
  <2>. QED  BY <1>l, <1>t, <2>4, <2>12, <2>13, PasoFrescos DEF InvLugar
<1>. QED  BY <1>1, <1>2 DEF PasoCP

\* The thread of a CPU that its process returned to answers for it.
LEMMA Recibido ==
  ASSUME Inv, InvPuntos, InvLugar, NEW t \in HilosCpu, NEW o, Recibir(t, o)
  PROVE  /\ Pid(t) \in Pids /\ t[2] \in Cpus /\ t = HiloCpu(t[2]) /\ t \in Hilos
         /\ Atiende(t[2]) /\ cpu[t[2]] = Pid(t)
         /\ Pid(t) \in lista_exec /\ estado[Pid(t)] = "EXEC" /\ EnMano(t) = {}
<1>1. t[2] \in Cpus /\ t = HiloCpu(t[2]) /\ t \in Hilos
  BY HilosDistintos
<1>2. Pid(t) \in Pids /\ hilo[t].en = "reposo" /\ Pid(t) # NADA /\ Pid(t) \in lista_exec
  BY PidRecibido DEF Recibir
<1>3. hilo[t].luego = "reposo"
  BY <1>1, <1>2 DEF InvPuntos, SinLlamada
<1>4. Atiende(t[2])
  BY <1>1, <1>2, <1>3 DEF Atiende, Solto, Pid
<1>. QED  BY <1>1, <1>2, <1>4 DEF Pid, EnMano, Manos, InvLugar, InvListas

\* The end of a burst: the process leaves lista_exec for the hands of the thread,
\* or for good.
LEMMA LugarFin ==
  ASSUME Inv, InvPuntos, InvLugar, NEW t \in HilosCpu, Paso(t), FinDeRafaga(t) \/ Finalizar(t)
  PROVE  InvLugar'
<1>l. InvListas /\ InvRafagas /\ InvReady /\ InvFrescos /\ TipoPcbs /\ TipoCpu
  BY DEF InvLugar, Inv
<1>. PICK p : p = Pid(t)
  OBVIOUS
<1>. PICK b : b = IF FinDeRafaga(t) THEN "READY" ELSE "EXIT"
  OBVIOUS
<1>. PICK k : k = t[2]
  OBVIOUS
<1>1. /\ p \in Pids /\ k \in Cpus /\ t = HiloCpu(k) /\ t \in Hilos
      /\ Atiende(k) /\ cpu[k] = p /\ estado[p] = "EXEC" /\ EnMano(t) = {}
  BY Recibido DEF FinDeRafaga, Finalizar
<1>2. /\ estado' = [estado EXCEPT ![p] = b] /\ lista_exec' = lista_exec \ {p}
      /\ UNCHANGED <<cola_block, susp_block, susp_ready, colas_ready, cpu>>
  BY DEF FinDeRafaga, Finalizar, QuitarDeExec, Recibir, suspendidos, ready
<1>3. Cambia(p, "EXEC", b) /\ b \in {"READY", "EXIT"}
  BY <1>1, <1>2 DEF Cambia
<1>e. \A x \in Pids : estado'[x] = IF x = p THEN b ELSE estado[x]
  BY <1>l, <1>2 DEF TipoPcbs
<1>4. /\ hilo[t] \in Locales /\ hilo = [u \in Hilos |-> hilo[u]]
      /\ hilo[t].en = "reposo"
  BY <1>1, EnPunto DEF Inv, TipoHilos, LocalesOK, FinDeRafaga, Finalizar, Recibir
<1>5. EnMano(t)' = IF b = "READY" THEN {p} ELSE {}
  <2>1. CASE FinDeRafaga(t)
    BY <1>1, <1>4, <2>1 DEF FinDeRafaga, LlamarEncolar, EnMano, Manos, Locales
  <2>2. CASE ~ FinDeRafaga(t)
    BY <1>1, <1>4, <2>2 DEF Finalizar, Ir, EnMano, Manos, Locales
  <2>. QED  BY <2>1, <2>2
<1>6. Solto(hilo'[t])
  <2>1. CASE FinDeRafaga(t)
    BY <1>1, <1>4, <2>1 DEF FinDeRafaga, LlamarEncolar, Solto, Locales
  <2>2. CASE Finalizar(t)
    BY <1>1, <1>4, <2>2 DEF Finalizar, Ir, Solto, Locales
  <2>. QED  BY <2>1, <2>2
<1>7. ~ SalirDeExec(t) /\ ~ EntrarABlock(t) /\ t # HiloCP
  BY <1>4, HilosDistintos DEF SalirDeExec, EntrarABlock
<1>q. \A u \in Hilos \ {t} : EnMano(u)' = EnMano(u)
  BY <1>l, <1>1, Quietos
<1>8. InvReady'
  <2>1. CASE b = "READY"
    BY <1>l, <1>q, <1>1, <1>2, <1>3, <1>5, <2>1, ReadyEntra
  <2>2. CASE b # "READY"
    <3>1. ConEstado("READY")' = ConEstado("READY")
      BY <1>l, <1>3, <2>2, ConjuntosCambia
    <3>. QED  BY <1>l, <1>q, <1>1, <1>2, <1>5, <2>2, <3>1, ReadyIgual
  <2>. QED  BY <2>1, <2>2
<1>9. InvRafagas'
  <2>1. ASSUME NEW c \in Cpus, Atiende(c), Atiende(c)' PROVE cpu[c] \in lista_exec'
    <3>1. c # k
      BY <1>1, <1>6, <2>1 DEF Atiende
    <3>2. cpu[c] # p
      BY <1>l, <1>1, <2>1, <3>1 DEF InvRafagas
    <3>. QED  BY <1>l, <1>2, <2>1, <3>2 DEF InvRafagas
  <2>2. ASSUME NEW c \in Cpus, Entra(c)
        PROVE  estado'[cpu[c]] = "BLOCK" /\ cpu[c] \notin cola_block'
    <3>1. estado[cpu[c]] = "BLOCK" /\ cpu[c] \notin cola_block /\ cpu[c] \in Pids
      BY <1>l, <2>2 DEF InvRafagas, Entra, TipoCpu
    <3>. QED  BY <1>1, <1>2, <1>e, <3>1
  <2>. QED  BY <1>l, <1>1, <1>7, <2>1, <2>2, RafagasQuedan
<1>10. InvListas'
  <2>1. \A c \in Cpus : Entra(c) => Entra(c)' /\ cpu'[c] = cpu[c]
    BY <1>l, <1>1, <1>7, RafagaDe, HilosDistintos
  <2>2. ASSUME NEW x \in Pids
        PROVE  /\ x \in lista_exec' <=> estado'[x] = "EXEC"
               /\ x \in susp_block' <=> estado'[x] = "SUSP_BLOCK"
               /\ x \in susp_ready' <=> estado'[x] = "SUSP_READY"
               /\ x \in cola_block' => estado'[x] = "BLOCK"
    BY <1>l, <1>1, <1>2, <1>3, <1>e DEF InvListas
  <2>3. ASSUME NEW x \in Pids, estado'[x] = "BLOCK"
        PROVE  x \in cola_block' \/ \E c \in Cpus : Entra(c)' /\ cpu'[c] = x
    BY <1>l, <1>2, <1>3, <1>e, <2>1, <2>3 DEF InvListas
  <2>. QED  BY <2>2, <2>3 DEF InvListas
<1>. QED  BY <1>l, <1>1, <1>8, <1>9, <1>10, PasoFrescos DEF InvLugar

\* exec_a_block, first part: the process is in no list.
LEMMA LugarSalir ==
  ASSUME Inv, InvPuntos, InvLugar, NEW t \in HilosCpu, Paso(t), SalirDeExec(t)
  PROVE  InvLugar'
<1>l. InvListas /\ InvRafagas /\ InvReady /\ InvFrescos /\ TipoPcbs /\ TipoCpu
  BY DEF InvLugar, Inv
<1>. PICK p : p = Pid(t)
  OBVIOUS
<1>. PICK k : k = t[2]
  OBVIOUS
<1>t. /\ k \in Cpus /\ t = HiloCpu(k) /\ t \in Hilos /\ t # HiloCP
      /\ hilo[t] \in Locales /\ hilo = [u \in Hilos |-> hilo[u]]
      /\ hilo[t].en = "a_block" /\ hilo' = [hilo EXCEPT ![t].en = "entra_block"]
  BY HilosDistintos, EnPunto DEF Inv, TipoHilos, LocalesOK, SalirDeExec, Ir
<1>1. p \in Pids /\ cpu[k] = p /\ Atiende(k) /\ estado[p] = "EXEC" /\ p \in lista_exec
  <2>1. p \in Pids /\ cpu[k] = p
    BY <1>t, PidAtendido DEF Pid
  <2>2. hilo[t].luego = "reposo"
    BY <1>t DEF InvPuntos, SinLlamada
  <2>3. Atiende(k)
    BY <1>t, <2>1, <2>2, ProcesosOK DEF Atiende, Solto
  <2>. QED  BY <1>l, <1>t, <2>1, <2>3 DEF InvRafagas, InvListas
<1>2. /\ estado' = [estado EXCEPT ![p] = "BLOCK"] /\ lista_exec' = lista_exec \ {p}
      /\ UNCHANGED <<cola_block, susp_block, susp_ready, colas_ready, cpu>>
  BY DEF SalirDeExec, QuitarDeExec, suspendidos, ready
<1>3. Cambia(p, "EXEC", "BLOCK")
  BY <1>1, <1>2 DEF Cambia
<1>e. \A x \in Pids : estado'[x] = IF x = p THEN "BLOCK" ELSE estado[x]
  BY <1>l, <1>2 DEF TipoPcbs
<1>4. hilo'[t].en = "entra_block" /\ Solto(hilo'[t]) /\ EnMano(t) = {} /\ EnMano(t)' = {}
  BY <1>t DEF Solto, EnMano, Manos, Locales
<1>5. \A c \in Cpus : c # k => hilo'[HiloCpu(c)] = hilo[HiloCpu(c)]
  BY <1>t, HilosDistintos
<1>6. Entra(k)' /\ \A c \in Cpus : c # k => (Entra(c)' <=> Entra(c))
  BY <1>t, <1>4, <1>5 DEF Entra
<1>7. \A c \in Cpus : Atiende(c)' => Atiende(c) /\ c # k /\ cpu[c] # p
  <2>1. \A c \in Cpus : Atiende(c)' => Atiende(c) /\ c # k
    BY <1>t, <1>2, <1>4, <1>5 DEF Atiende
  <2>. QED  BY <1>l, <1>t, <1>1, <2>1 DEF InvRafagas
<1>8. \A c \in Cpus : Entra(c) => cpu[c] \in Pids /\ cpu[c] # p
  BY <1>l, <1>1 DEF InvRafagas, Entra, TipoCpu
<1>9. p \notin cola_block
  BY <1>l, <1>1 DEF InvListas
<1>10. InvReady'
  <2>1. \A u \in Hilos : EnMano(u)' = EnMano(u)
    BY <1>l, <1>t, <1>4, Quietos
  <2>2. ConEstado("READY")' = ConEstado("READY")
    BY <1>l, <1>3, ConjuntosCambia
  <2>. QED  BY <1>l, <1>2, <2>1, <2>2, ReadyIgual
<1>11. InvRafagas'
  <2>1. \A c \in Cpus : Atiende(c)' => cpu'[c] \in lista_exec'
    BY <1>l, <1>2, <1>7 DEF InvRafagas
  <2>2. \A c \in Cpus : Entra(c)' => estado'[cpu'[c]] = "BLOCK" /\ cpu'[c] \notin cola_block'
    BY <1>l, <1>1, <1>2, <1>e, <1>6, <1>8, <1>9 DEF InvRafagas
  <2>3. \A c, d \in Cpus : Atiende(c)' /\ Atiende(d)' /\ cpu'[c] = cpu'[d] => c = d
    BY <1>l, <1>2, <1>7 DEF InvRafagas
  <2>4. \A c, d \in Cpus : Entra(c)' /\ Entra(d)' /\ cpu'[c] = cpu'[d] => c = d
    BY <1>l, <1>1, <1>2, <1>6, <1>8 DEF InvRafagas
  <2>. QED  BY <2>1, <2>2, <2>3, <2>4 DEF InvRafagas
<1>12. InvListas'
  <2>1. ASSUME NEW x \in Pids
        PROVE  /\ x \in lista_exec' <=> estado'[x] = "EXEC"
               /\ x \in susp_block' <=> estado'[x] = "SUSP_BLOCK"
               /\ x \in susp_ready' <=> estado'[x] = "SUSP_READY"
               /\ x \in cola_block' => estado'[x] = "BLOCK"
    BY <1>l, <1>1, <1>2, <1>e DEF InvListas
  <2>2. ASSUME NEW x \in Pids, estado'[x] = "BLOCK"
        PROVE  x \in cola_block' \/ \E c \in Cpus : Entra(c)' /\ cpu'[c] = x
    <3>1. CASE x = p
      BY <1>t, <1>1, <1>2, <1>6, <3>1
    <3>2. CASE x # p
      <4>1. x \in cola_block \/ \E c \in Cpus : Entra(c) /\ cpu[c] = x
        BY <1>l, <1>e, <2>2, <3>2 DEF InvListas
      <4>. QED  BY <1>1, <1>2, <1>6, <3>2, <4>1
    <3>. QED  BY <3>1, <3>2
  <2>. QED  BY <2>1, <2>2 DEF InvListas
<1>. QED  BY <1>l, <1>t, <1>10, <1>11, <1>12, PasoFrescos DEF InvLugar

\* exec_a_block, second part: the process enters cola_block.
LEMMA LugarEntrar ==
  ASSUME Inv, InvPuntos, InvLugar, NEW t \in HilosCpu, Paso(t), EntrarABlock(t)
  PROVE  InvLugar'
<1>l. InvListas /\ InvRafagas /\ InvReady /\ InvFrescos /\ TipoPcbs /\ TipoCpu
  BY DEF InvLugar, Inv
<1>. PICK p : p = Pid(t)
  OBVIOUS
<1>. PICK k : k = t[2]
  OBVIOUS
<1>t. /\ k \in Cpus /\ t = HiloCpu(k) /\ t \in Hilos /\ t # HiloCP
      /\ hilo[t] \in Locales /\ hilo[t].en = "entra_block" /\ hilo'[t].en \in {"anota", "libera_cpu"}
  BY HilosDistintos, EnPunto DEF Inv, TipoHilos, LocalesOK, EntrarABlock, Locales
<1>1. p \in Pids /\ cpu[k] = p /\ Entra(k) /\ estado[p] = "BLOCK"
  BY <1>l, <1>t, PidAtendido DEF Pid, Entra, InvRafagas
<1>2. /\ cola_block' = cola_block \cup {p}
      /\ UNCHANGED <<estado, lista_exec, susp_block, susp_ready, colas_ready, cpu>>
  BY DEF EntrarABlock, suspendidos, ready
<1>3. ~ SalirDeExec(t) /\ EnMano(t) = {} /\ EnMano(t)' = {}
  BY <1>t DEF SalirDeExec, EnMano, Manos
<1>4. InvReady'
  <2>1. \A u \in Hilos : EnMano(u)' = EnMano(u)
    BY <1>l, <1>t, <1>3, Quietos
  <2>. QED  BY <1>l, <1>2, <2>1, ReadyIgual, ConjuntosIguales
<1>5. InvRafagas'
  <2>1. \A c \in Cpus : Atiende(c) => cpu[c] \in lista_exec'
    BY <1>l, <1>2 DEF InvRafagas
  <2>2. ASSUME NEW c \in Cpus, Entra(c), Entra(c)'
        PROVE  estado'[cpu[c]] = "BLOCK" /\ cpu[c] \notin cola_block'
    <3>1. c # k
      BY <1>t, <2>2 DEF Entra
    <3>2. cpu[c] # p
      BY <1>l, <1>t, <1>1, <2>2, <3>1 DEF InvRafagas
    <3>. QED  BY <1>l, <1>2, <2>2, <3>2 DEF InvRafagas
  <2>. QED  BY <1>l, <1>t, <1>3, <2>1, <2>2, RafagasQuedan
<1>6. InvListas'
  <2>1. \A c \in Cpus : Entra(c) /\ c # k => Entra(c)'
    BY <1>l, <1>t, RafagaDe, HilosDistintos
  <2>2. ASSUME NEW x \in Pids
        PROVE  /\ x \in lista_exec' <=> estado'[x] = "EXEC"
               /\ x \in susp_block' <=> estado'[x] = "SUSP_BLOCK"
               /\ x \in susp_ready' <=> estado'[x] = "SUSP_READY"
               /\ x \in cola_block' => estado'[x] = "BLOCK"
    BY <1>l, <1>1, <1>2 DEF InvListas
  <2>3. ASSUME NEW x \in Pids, estado'[x] = "BLOCK"
        PROVE  x \in cola_block' \/ \E c \in Cpus : Entra(c)' /\ cpu'[c] = x
    BY <1>l, <1>1, <1>2, <2>1, <2>3 DEF InvListas
  <2>. QED  BY <2>2, <2>3 DEF InvListas
<1>. QED  BY <1>l, <1>t, <1>4, <1>5, <1>6, PasoFrescos DEF InvLugar

LEMMA LugarCpu ==
  ASSUME Inv, InvPuntos, InvLugar, ~ config.cmn, NEW t \in HilosCpu, Paso(t), PasoCpu(t)
  PROVE  InvLugar'
<1>1. t \in Hilos /\ t # HiloCP
  BY HilosDistintos
<1>2. CASE FinDeRafaga(t) \/ Finalizar(t)
  BY <1>2, LugarFin
<1>3. CASE SalirDeExec(t)
  BY <1>3, LugarSalir
<1>4. CASE EntrarABlock(t)
  BY <1>4, LugarEntrar
<1>5. CASE \/ PedirBloqueoIO(t) \/ PedirMemoria(t) \/ DevolverMemoria(t) \/ PedirMutex(t)
           \/ BuscarDueno(t) \/ Heredar(t) \/ DevolverMutex(t) \/ Ceder(t) \/ AnotarDespertado(t)
           \/ LiberarMutex(t) \/ FinalizarKM(t) \/ AnotarEspera(t) \/ LiberarCpu(t)
  BY <1>1, <1>5, NeutrosCpu, PasoNeutro
<1>. QED  BY <1>2, <1>3, <1>4, <1>5 DEF PasoCpu

LEMMA PasoLugar ==
  ASSUME Inv, InvPuntos, InvLugar, ~ config.cmn, [Next]_vars
  PROVE  InvLugar'
<1>1. ASSUME NEW t \in Hilos, Paso(t) PROVE InvLugar'
  <2>1. CASE PasoComun(t)
    BY <1>1, <2>1, LugarComun
  <2>2. CASE t \in HilosIO /\ PasoIO(t)
    <3>1. t # HiloCP /\ t \notin HilosCpu
      BY <2>2, HilosDistintos
    <3>. QED  BY <1>1, <2>2, <3>1, NeutrosIO, PasoNeutro
  <2>3. CASE t \in HilosCpu /\ PasoCpu(t)
    BY <1>1, <2>3, LugarCpu
  <2>4. CASE t = HiloCP /\ PasoCP
    BY <1>1, <2>4, LugarCP
  <2>. QED  BY <1>1, <2>1, <2>2, <2>3, <2>4 DEF Paso
<1>2. CASE UNCHANGED <<varsMP, cpu>>
  <2>1. /\ UNCHANGED <<hilo, cpu, estado, bloqueo_id, colas_ready>>
        /\ UNCHANGED <<lista_exec, cola_block, susp_block, susp_ready>>
    BY <1>2 DEF varsMP
  <2>2. InvReady'
    BY <2>1, ReadyIgual, ConjuntosIguales DEF EnMano, InvLugar
  <2>. QED  BY <2>1, <2>2 DEF InvLugar, InvListas, InvRafagas, InvFrescos, Entra, Atiende
<1>3. CASE Next
  <2>1. (\E t \in Hilos : Paso(t)) \/ UNCHANGED <<varsMP, cpu>>
    BY <1>3, Zenon DEF Next, Entorno
  <2>. QED  BY <1>1, <1>2, <2>1
<1>. QED  BY <1>2, <1>3 DEF vars

LEMMA InitPuntos == Init => InvPuntos
BY DEF Init, InvPuntos, EnReposo, SinLlamada

\* At the start the processes that were created are in the queues, once.
LEMMA InitLugar == Init => InvLugar
<1>. SUFFICES ASSUME Init PROVE InvLugar
  OBVIOUS
<1>c. /\ config \in Configuraciones /\ SinRepetir(config.colas)
      /\ config.colas \in [0 .. CantColas - 1 -> Seq(Pids)] /\ colas_ready = config.colas
  BY ConfiguracionesOK DEF Init
<1>h. \A t \in Hilos : hilo[t] = EnReposo
  BY DEF Init
<1>1. InvListas
  BY DEF Init, InvListas
<1>2. \A c \in Cpus : ~ Atiende(c) /\ ~ Entra(c)
  BY <1>h, HilosDistintos DEF Init, Atiende, Entra, EnReposo
<1>3. InvRafagas
  BY <1>2 DEF InvRafagas
<1>4. InvFrescos
  BY <1>h, HilosDistintos DEF InvFrescos, EnReposo
<1>5. \A q \in 0 .. CantColas - 1 : IsInjective(colas_ready[q])
  BY <1>c DEF SinRepetir, IsInjective
<1>6. \A q, r \in 0 .. CantColas - 1 : ToSet(colas_ready[q]) \cap ToSet(colas_ready[r]) # {} => q = r
  <2>1. DOMAIN config.colas = 0 .. CantColas - 1
    BY <1>c
  <2>2. ASSUME NEW q \in 0 .. CantColas - 1, NEW r \in 0 .. CantColas - 1, NEW p,
               p \in ToSet(colas_ready[q]), p \in ToSet(colas_ready[r])
        PROVE  q = r
    BY <1>c, <2>1, <2>2 DEF SinRepetir, ToSet
  <2>. QED  BY <2>2
<1>7. \A p \in Pids : p \in ConEstado("READY") <=> \E q \in 0 .. CantColas - 1 : p \in ToSet(colas_ready[q])
  <2>1. ConEstado("READY") = Creados
    BY DEF Init, ConEstado, Creados
  <2>2. DOMAIN config.colas = 0 .. CantColas - 1
    BY <1>c
  <2>3. ASSUME NEW q \in 0 .. CantColas - 1, NEW p
        PROVE  Contains(config.colas[q], p) <=> p \in ToSet(colas_ready[q])
    BY <1>c DEF Contains, ToSet
  <2>. QED  BY <2>1, <2>2, <2>3 DEF Creados
<1>8. \A t \in Hilos : EnMano(t) = {} /\ t \notin Colas
  <2>1. \A t \in Hilos : EnMano(t) = {}
    BY <1>h DEF EnMano, Manos, EnReposo
  <2>2. \A t \in Hilos : t \notin Colas
    BY DEF Colas, Cola, Hilos, HiloCP, HilosCpu, HiloCpu, HilosIO, HiloIO, HilosTimer, HiloTimer
  <2>. QED  BY <2>1, <2>2
<1>9. ASSUME NEW q \in 0 .. CantColas - 1 PROVE ToSet(colas_ready[q]) \subseteq Pids
  <2>1. colas_ready[q] \in Seq(Pids)
    BY <1>c
  <2>. QED  BY <2>1 DEF ToSet
<1>10. \A x \in DOMAIN DondeReady :
         \/ \E q \in 0 .. CantColas - 1 : x = Cola(q) /\ DondeReady[x] = ToSet(colas_ready[q])
         \/ DondeReady[x] = {}
  <2>1. ASSUME NEW x \in Colas
        PROVE  \E q \in 0 .. CantColas - 1 : x = Cola(q) /\ DondeReady[x] = ToSet(colas_ready[q])
    <3>1. PICK q \in 0 .. CantColas - 1 : x = Cola(q)
      BY DEF Colas
    <3>. QED  BY <3>1 DEF DondeReady, Cola
  <2>2. ASSUME NEW x \in Hilos PROVE DondeReady[x] = {}
    BY <1>8 DEF DondeReady
  <2>3. DOMAIN DondeReady = Colas \cup Hilos
    BY DEF DondeReady
  <2>. QED  BY <2>1, <2>2, <2>3
<1>11. \A q \in 0 .. CantColas - 1 : Cola(q) \in DOMAIN DondeReady /\ DondeReady[Cola(q)] = ToSet(colas_ready[q])
  BY DEF DondeReady, Colas, Cola
<1>12. \A x, y \in DOMAIN DondeReady : DondeReady[x] \cap DondeReady[y] # {} => x = y
  <2>. SUFFICES ASSUME NEW x \in DOMAIN DondeReady, NEW y \in DOMAIN DondeReady,
                       NEW p, p \in DondeReady[x], p \in DondeReady[y]
                PROVE  x = y
    OBVIOUS
  <2>1. PICK q \in 0 .. CantColas - 1 : x = Cola(q) /\ p \in ToSet(colas_ready[q])
    BY <1>10
  <2>2. PICK r \in 0 .. CantColas - 1 : y = Cola(r) /\ p \in ToSet(colas_ready[r])
    BY <1>10
  <2>. QED  BY <1>6, <2>1, <2>2
<1>13. UNION {DondeReady[x] : x \in DOMAIN DondeReady} = ConEstado("READY")
  <2>1. ASSUME NEW x \in DOMAIN DondeReady, NEW p \in DondeReady[x] PROVE p \in ConEstado("READY")
    BY <1>7, <1>9, <1>10
  <2>2. ASSUME NEW p \in ConEstado("READY") PROVE \E x \in DOMAIN DondeReady : p \in DondeReady[x]
    <3>1. p \in Pids
      BY DEF ConEstado
    <3>. QED  BY <1>7, <1>11, <3>1
  <2>. QED  BY <2>1, <2>2
<1>14. InvReady
  BY <1>5, <1>12, <1>13 DEF InvReady, Reparto
<1>. QED  BY <1>1, <1>3, <1>4, <1>14 DEF InvLugar

\* A READY process is in one position of one queue, or in the hands of one thread.
LEMMA UnSoloReady ==
  ASSUME Inv, InvReady, NEW p \in Pids
  PROVE  Cardinality(LugaresReady(p)) = IF estado[p] = "READY" THEN 1 ELSE 0
<1>. DEFINE enCola(q) == {<<"cola", q, i>> : i \in {j \in DOMAIN colas_ready[q] : colas_ready[q][j] = p}}
            enColas == UNION {enCola(q) : q \in DOMAIN colas_ready}
            enMano == {<<"mano", t>> : t \in {u \in Hilos : hilo[u].en \in {"encola", "despacha"} /\ hilo[u].pid = p}}
<1>t. colas_ready \in [0 .. CantColas - 1 -> Seq(Pids)]
  BY DEF Inv, TipoColas
<1>1. LugaresReady(p) = enColas \cup enMano
  BY DEF LugaresReady
<1>2. ASSUME NEW q \in DOMAIN colas_ready
      PROVE  /\ Cola(q) \in DOMAIN DondeReady /\ DondeReady[Cola(q)] = ToSet(colas_ready[q]) /\ Cola(q) \in Colas
             /\ p \notin ToSet(colas_ready[q]) => enCola(q) = {}
  <2>1. Cola(q) \in Colas /\ Cola(q)[2] = q
    BY <1>t DEF Colas, Cola
  <2>. QED  BY <2>1 DEF DondeReady, ToSet
<1>3. ASSUME NEW t \in Hilos
      PROVE  /\ t \in DOMAIN DondeReady /\ DondeReady[t] = EnMano(t) /\ t \notin Colas
             /\ p \in EnMano(t) <=> hilo[t].en \in {"encola", "despacha"} /\ hilo[t].pid = p
  <2>1. t \notin Colas
    BY DEF Colas, Cola, Hilos, HiloCP, HilosCpu, HiloCpu, HilosIO, HiloIO, HilosTimer, HiloTimer
  <2>. QED  BY <2>1 DEF DondeReady, EnMano, Manos
<1>4. \A q, r : Cola(q) = Cola(r) => q = r
  BY DEF Cola
<1>5. CASE estado[p] # "READY"
  <2>1. \A x \in DOMAIN DondeReady : p \notin DondeReady[x]
    BY <1>5 DEF InvReady, Reparto, ConEstado
  <2>2. \A q \in DOMAIN colas_ready : enCola(q) = {}
    BY <1>2, <2>1
  <2>3. enMano = {}
    BY <1>3, <2>1
  <2>4. LugaresReady(p) = {}
    BY <1>1, <2>2, <2>3
  <2>. QED  BY <1>5, <2>4, FS_EmptySet
<1>6. CASE estado[p] = "READY"
  <2>1. PICK x \in DOMAIN DondeReady : p \in DondeReady[x]
    BY <1>6 DEF InvReady, Reparto, ConEstado
  <2>2. \A y \in DOMAIN DondeReady : p \in DondeReady[y] => y = x
    BY <2>1 DEF InvReady, Reparto
  <2>3. CASE x \in Colas
    <3>1. PICK q \in DOMAIN colas_ready : x = Cola(q)
      BY <1>t, <2>3 DEF Colas
    <3>2. \A r \in DOMAIN colas_ready : r # q => enCola(r) = {}
      BY <1>2, <1>4, <2>2, <3>1
    <3>3. enMano = {}
      BY <1>3, <2>2, <2>3
    <3>4. PICK i \in DOMAIN colas_ready[q] : colas_ready[q][i] = p
      BY <1>2, <2>1, <3>1 DEF ToSet
    <3>5. {j \in DOMAIN colas_ready[q] : colas_ready[q][j] = p} = {i}
      BY <1>t, <3>1, <3>4 DEF InvReady, IsInjective
    <3>6. enCola(q) = {<<"cola", q, i>>}
      BY <3>5
    <3>. HIDE DEF enCola, enMano
    <3>7. enColas = {<<"cola", q, i>>}
      BY <3>2, <3>6
    <3>. HIDE DEF enColas
    <3>8. LugaresReady(p) = {<<"cola", q, i>>}
      BY <1>1, <3>3, <3>7
    <3>. QED  BY <1>6, <3>8, FS_Singleton
  <2>4. CASE x \notin Colas
    <3>1. x \in Hilos
      BY <2>4 DEF DondeReady
    <3>2. \A q \in DOMAIN colas_ready : enCola(q) = {}
      <4>1. ASSUME NEW q \in DOMAIN colas_ready PROVE p \notin ToSet(colas_ready[q])
        BY <1>2, <2>2, <2>4
      <4>. QED  BY <1>2, <4>1
    <3>3. {u \in Hilos : hilo[u].en \in {"encola", "despacha"} /\ hilo[u].pid = p} = {x}
      BY <1>3, <2>1, <2>2, <3>1
    <3>4. enMano = {<<"mano", x>>}
      BY <3>3
    <3>5. enColas = {}
      BY <3>2
    <3>. HIDE DEF enColas, enMano
    <3>6. LugaresReady(p) = {<<"mano", x>>}
      BY <1>1, <3>4, <3>5
    <3>. QED  BY <1>6, <3>6, FS_Singleton
  <2>. QED  BY <2>3, <2>4
<1>. QED  BY <1>5, <1>6

LEMMA LugarUno ==
  ASSUME Inv, InvLugar
  PROVE  UnLugar
<1>. SUFFICES ASSUME NEW p \in Pids
              PROVE  /\ Cardinality(LugaresReady(p)) = (IF estado[p] = "READY" THEN 1 ELSE 0)
                     /\ p \in lista_exec <=> estado[p] = "EXEC"
                     /\ p \in cola_block \/ EntrandoABlock(p) # {} <=> estado[p] = "BLOCK"
                     /\ p \in susp_block <=> estado[p] = "SUSP_BLOCK"
                     /\ p \in susp_ready <=> estado[p] = "SUSP_READY"
  BY DEF UnLugar
<1>1. EntrandoABlock(p) # {} <=> \E c \in Cpus : Entra(c) /\ cpu[c] = p
  BY DEF EntrandoABlock, Entra
<1>2. p \in cola_block \/ EntrandoABlock(p) # {} <=> estado[p] = "BLOCK"
  BY <1>1 DEF InvLugar, InvListas, InvRafagas
<1>. QED  BY <1>2, UnSoloReady DEF InvLugar, InvListas

\* The invariant of the theorems for one queue of READY processes: the scenario
\* never changes, so its hypothesis holds throughout or not at all.
LEMMA LugarInductivo == Spec => [](Inv /\ InvPuntos /\ (~ config.cmn => InvLugar))
<1>1. Init => Inv /\ InvPuntos /\ (~ config.cmn => InvLugar)
  BY InitInv, InitPuntos, InitLugar
<1>2. Inv /\ InvPuntos /\ (~ config.cmn => InvLugar) /\ [Next]_vars
        => (Inv /\ InvPuntos /\ (~ config.cmn => InvLugar))'
  BY PasoInv, PasoPuntos, PasoLugar, ConfigFija
<1>. QED  BY <1>1, <1>2, PTL DEF Spec

\* Without Colas Multinivel a process is in one place, once, and its estado says
\* which, through blocks, suspensions, returns, inheritances and exits.
THEOREM CadaUnoEnSuLugar == Spec => [](~ config.cmn => UnLugar)
<1>1. Inv /\ InvPuntos /\ (~ config.cmn => InvLugar) => (~ config.cmn => UnLugar)
  BY LugarUno
<1>. QED  BY <1>1, LugarInductivo, PTL

-----------------------------------------------------------------------------
(* The memory of each process.  A process in SWAP is suspended; between the   *)
(* answer of DESSUSPENDER_PROCESO and its return to READY no timer of its is  *)
(* about to suspend it.                                                       *)

\* With locals r a thread is inside planificador_evento_memoria_liberada.
EnEvento(r) ==
  \/ r.en \in {"candidatos", "vuelve", "esperas"}
  \/ r.en \in {"encola", "desbloquea", "desbloquea_susp"} /\ r.tras \in {"candidatos", "esperas"}

\* mutex_evento_memoria: only its owner is inside.
InvEvento == \A t \in Hilos : EnEvento(hilo[t]) => evento.dueno = t

Suspendidos == susp_block \cup susp_ready
Suspende(t) == hilo[t].en = "suspende"

InvSwap ==
  /\ \A p \in Pids : memoria[p] = "swap" => p \in Suspendidos
  /\ \A t \in HilosTimer : Suspende(t) => t[2] \in Suspendidos /\ memoria[t[2]] # "swap"
  /\ \A t, u \in HilosTimer : Suspende(t) /\ Suspende(u) /\ t[2] = u[2] => t = u

\* The process that comes back is in RAM, and neither a timer nor the rest of the
\* loop will touch it.
InvRegreso ==
  /\ \A t \in Hilos : hilo[t].en = "vuelve" =>
       /\ hilo[t].pid \in susp_ready /\ memoria[hilo[t].pid] # "swap"
       /\ \A u \in HilosTimer : Suspende(u) => u[2] # hilo[t].pid
       /\ \A c \in evento.candidatos : c.pid # hilo[t].pid
  /\ \A c \in evento.candidatos : c.pid \in susp_ready
  /\ \A c, d \in evento.candidatos : c.pid = d.pid => c = d

InvAntiguedad == IsInjective(antiguedad) /\ ToSet(antiguedad) = Suspendidos

InvMemoria == InvEvento /\ InvSwap /\ InvRegreso /\ InvAntiguedad

\* The rest of the threads go on where they were, but for those a block starts.
LEMMA OtrosQuedan ==
  ASSUME TipoHilos, NEW t \in Hilos, NEW u \in Hilos, u # t, Paso(t), hilo'[u].en \notin {"duerme", "espera_io"}
  PROVE  hilo'[u] = hilo[u]
<1>1. hilo[u] \in Locales
  BY DEF TipoHilos, LocalesOK
<1>2. hilo'[u] = hilo[u] \/ \E e \in {"duerme", "espera_io"} : hilo'[u] = [hilo[u] EXCEPT !.en = e]
  BY SoloElSuyo
<1>. QED  BY <1>1, <1>2 DEF Locales

\* Neither about to suspend a process nor inside the event.
Ajeno(r) == r.en # "suspende" /\ ~ EnEvento(r)

LEMMA AjenoIO ==
  ASSUME Inv, NEW t \in HilosIO, PasoIO(t)
  PROVE  Ajeno(hilo'[t])
<1>. USE DEF Ajeno, EnEvento
<1>t. TipoHilos /\ t \in Hilos /\ hilo[t] \in Locales /\ hilo = [u \in Hilos |-> hilo[u]]
  BY HilosDistintos DEF Inv, TipoHilos, LocalesOK
<1>1. \/ \E e \in {"busca_io", "espera_ok", "libera_io", "postea_io"} : Ir(t, e)
      \/ \E d : hilo' = [hilo EXCEPT ![t].en = "pide_io", ![t].disp = d]
      \/ LlamarDesbloquear(t, t[2], "fin_io") \/ LlamarEvento(t, "reposo") \/ Terminar(t)
  BY DEF PasoIO, EsperarDispositivo, TomarDispositivo, PedirDispositivo, LeerOK, FallarIO,
     LiberarDispositivo, PostearDispositivo, TerminarIO
<1>2. CASE \E e \in {"busca_io", "espera_ok", "libera_io", "postea_io"} : Ir(t, e)
  BY <1>t, <1>2, LlamadaIr
<1>3. CASE \E d : hilo' = [hilo EXCEPT ![t].en = "pide_io", ![t].disp = d]
  <2>1. PICK d : hilo' = [hilo EXCEPT ![t].en = "pide_io", ![t].disp = d]
    BY <1>3
  <2>. QED  BY <1>t, <2>1 DEF Locales
<1>4. CASE LlamarDesbloquear(t, t[2], "fin_io") \/ LlamarEvento(t, "reposo") \/ Terminar(t)
  BY <1>t, <1>4, LlamadaDesbloquear, LlamadaEvento DEF Terminar, Seguir, EnReposo
<1>. QED  BY <1>1, <1>2, <1>3, <1>4

LEMMA AjenoCpu ==
  ASSUME Inv, NEW t \in HilosCpu, PasoCpu(t)
  PROVE  Ajeno(hilo'[t])
<1>. USE DEF Ajeno, EnEvento
<1>t. TipoHilos /\ t \in Hilos /\ hilo[t] \in Locales /\ hilo = [u \in Hilos |-> hilo[u]]
      /\ hilo[t].luego \in Continuaciones
  BY HilosDistintos, EnPunto DEF Inv, TipoHilos, LocalesOK
<1>. DEFINE P == {"a_block", "entra_block", "libera_cpu", "hereda", "busca_ready", "busca_block", "libera_mutex"}
<1>1. CASE PedirBloqueoIO(t) \/ Finalizar(t) \/ BuscarDueno(t) \/ Heredar(t) \/ SalirDeExec(t) \/ AnotarEspera(t)
  <2>1. \E e \in P : Ir(t, e)
    BY <1>1 DEF PedirBloqueoIO, Finalizar, BuscarDueno, Buscar, Heredar, SalirDeExec, AnotarEspera
  <2>. QED  BY <1>t, <2>1, LlamadaIr
<1>2. CASE FinDeRafaga(t)
  <2>1. LlamarEncolar(t, Pid(t), "libera_cpu")
    BY <1>2 DEF FinDeRafaga
  <2>. QED  BY <1>t, <2>1, LlamadaEncolar
<1>3. CASE PedirMemoria(t) \/ DevolverMemoria(t)
  <2>1. /\ hilo[t].en = "reposo"
        /\ hilo' = hilo \/ Ir(t, "a_block") \/ LlamarEvento(t, "reposo")
    BY <1>3, Zenon DEF PedirMemoria, DevolverMemoria, Recibir
  <2>. QED  BY <1>t, <2>1, LlamadaEvento, LlamadaIr
<1>4. CASE PedirMutex(t)
  <2>1. PICK p : /\ hilo[t].en = "reposo"
                 /\ hilo' = hilo \/ hilo' = [hilo EXCEPT ![t].en = "busca_exec", ![t].pid = p]
    BY <1>4, Zenon DEF PedirMutex, Recibir
  <2>. QED  BY <1>t, <2>1 DEF Locales
<1>5. CASE DevolverMutex(t) \/ LiberarMutex(t)
  <2>1. PICK m, e : hilo' = [hilo EXCEPT ![t].en = "cede", ![t].mtx = m, ![t].luego = e]
    BY <1>5, Zenon DEF DevolverMutex, LiberarMutex, EmpezarUnlock
  <2>. QED  BY <1>t, <2>1 DEF Locales
<1>6. CASE Ceder(t)
  <2>1. (\E p : LlamarDesbloquear(t, p, "toma")) \/ Seguir(t, hilo[t].luego)
    BY <1>6, Zenon DEF Ceder
  <2>2. CASE \E p : LlamarDesbloquear(t, p, "toma")
    BY <1>t, <2>2, LlamadaDesbloquear
  <2>3. CASE Seguir(t, hilo[t].luego)
    BY <1>t, <2>3 DEF Seguir, EnReposo, Continuaciones
  <2>. QED  BY <2>1, <2>2, <2>3
<1>7. CASE AnotarDespertado(t) \/ FinalizarKM(t)
  <2>1. LlamarEvento(t, hilo[t].luego) \/ Seguir(t, hilo[t].luego) \/ LlamarEvento(t, "libera_cpu")
    BY <1>7, Zenon DEF AnotarDespertado, FinalizarKM
  <2>2. CASE Seguir(t, hilo[t].luego)
    BY <1>t, <2>2 DEF Seguir, EnReposo, Continuaciones
  <2>. QED  BY <1>t, <2>1, <2>2, LlamadaEvento
<1>8. CASE EntrarABlock(t)
  BY <1>t, <1>8 DEF EntrarABlock, Locales
<1>9. CASE LiberarCpu(t)
  BY <1>t, <1>9 DEF LiberarCpu, Terminar, Seguir, EnReposo
<1>. QED  BY <1>1, <1>2, <1>3, <1>4, <1>5, <1>6, <1>7, <1>8, <1>9 DEF PasoCpu

\* What a step that is not the mediano plazo's leaves: nothing of it, and nobody in it.
LEMMA FueraDelMedianoPlazo ==
  ASSUME Inv, NEW t \in Hilos, Paso(t), ~ PasoComun(t)
  PROVE  /\ Ajeno(hilo'[t])
         /\ UNCHANGED <<evento, susp_block, susp_ready, antiguedad>>
         /\ \A p \in Pids : memoria'[p] = "swap" => memoria[p] = "swap"
<1>1. CASE t \in HilosIO /\ PasoIO(t)
  <2>1. UNCHANGED <<evento, susp_block, susp_ready, antiguedad, memoria>>
    BY <1>1 DEF PasoIO, suspendidos
  <2>. QED  BY <1>1, <2>1, AjenoIO
<1>2. CASE t \in HilosCpu /\ PasoCpu(t)
  <2>1. UNCHANGED <<evento, susp_block, susp_ready, antiguedad>>
    BY <1>2 DEF PasoCpu, PedirBloqueoIO, FinDeRafaga, PedirMemoria, DevolverMemoria, PedirMutex, BuscarDueno,
       Buscar, Heredar, DevolverMutex, Ceder, AnotarDespertado, Finalizar, LiberarMutex, FinalizarKM,
       SalirDeExec, EntrarABlock, AnotarEspera, LiberarCpu, suspendidos
  <2>2. memoria' = memoria \/ \E e \in {"sin", "ram"} : memoria' = [memoria EXCEPT ![Pid(t)] = e]
    BY <1>2 DEF PasoCpu, PedirBloqueoIO, FinDeRafaga, PedirMemoria, DevolverMemoria, PedirMutex, BuscarDueno,
       Buscar, Heredar, DevolverMutex, Ceder, AnotarDespertado, Finalizar, LiberarMutex, FinalizarKM,
       SalirDeExec, EntrarABlock, AnotarEspera, LiberarCpu
  <2>3. \A p \in Pids : memoria'[p] = "swap" => memoria[p] = "swap"
    BY <2>2 DEF Inv, TipoMemoria
  <2>. QED  BY <1>2, <2>1, <2>3, AjenoCpu
<1>3. CASE t = HiloCP /\ PasoCP
  <2>1. UNCHANGED <<evento, susp_block, susp_ready, antiguedad, memoria>>
    BY <1>3 DEF PasoCP, TomarReady, PasarAExec, suspendidos
  <2>2. hilo[t] \in Locales /\ hilo = [u \in Hilos |-> hilo[u]]
    BY DEF Inv, TipoHilos, LocalesOK
  <2>3. CASE TomarReady
    <3>1. PICK p : /\ hilo[t].en = "reposo"
                   /\ hilo' = hilo \/ hilo' = [hilo EXCEPT ![t].en = "despacha", ![t].pid = p]
      BY <1>3, <2>3 DEF TomarReady
    <3>2. Ajeno(hilo'[t])
      BY <2>2, <3>1 DEF Ajeno, EnEvento, Locales
    <3>. QED  BY <2>1, <3>2
  <2>4. CASE PasarAExec
    <3>1. hilo' = [hilo EXCEPT ![t] = [EnReposo EXCEPT !.en = "reposo"]]
      BY <1>3, <2>4 DEF PasarAExec, Terminar, Seguir
    <3>2. Ajeno(hilo'[t])
      BY <2>2, <3>1 DEF EnReposo, Ajeno, EnEvento
    <3>. QED  BY <2>1, <3>2
  <2>. QED  BY <1>3, <2>3, <2>4 DEF PasoCP
<1>. QED  BY <1>1, <1>2, <1>3 DEF Paso

\* The steps of the mediano plazo that suspend nobody and bring nobody back
LEMMA ComunQueda ==
  ASSUME Inv, NEW t \in Hilos,
         Encolar(t) \/ DesbloquearBlock(t) \/ DesbloquearSusp(t) \/ FinDeCandidatos(t) \/ ReintentarEspera(t)
  PROVE  /\ hilo'[t].en \notin {"suspende", "vuelve"}
         /\ EnEvento(hilo'[t]) => EnEvento(hilo[t])
         /\ evento'.dueno = evento.dueno /\ evento'.candidatos = evento.candidatos
         /\ UNCHANGED <<Suspendidos, antiguedad>> /\ susp_ready \subseteq susp_ready'
         /\ \A p \in Pids : memoria'[p] = "swap" => memoria[p] = "swap"
<1>t. TipoHilos /\ hilo[t] \in Locales /\ hilo = [u \in Hilos |-> hilo[u]] /\ hilo[t].tras \in Regresos
  BY EnPunto DEF Inv, TipoHilos, LocalesOK
<1>e. evento \in [dueno : Hilos \cup {SinHilo},
                 candidatos : SUBSET [pid : Pids, prioridad : Int, turno : Nat], esperas : Seq(Pids)]
      /\ memoria \in [Pids -> {"sin", "ram", "swap"}]
  BY DEF Inv, TipoMemoria
<1>1. CASE Encolar(t)
  <2>1. hilo[t].en = "encola" /\ Ir(t, hilo[t].tras) /\ UNCHANGED <<evento, susp_block, susp_ready, antiguedad, memoria>>
    BY <1>1 DEF Encolar, suspendidos
  <2>2. hilo'[t].en = hilo[t].tras /\ hilo'[t].tras = hilo[t].tras
    BY <1>t, <2>1, LlamadaIr
  <2>. QED  BY <1>t, <2>1, <2>2 DEF EnEvento, Regresos, Suspendidos
<1>2. CASE DesbloquearBlock(t)
  <2>1. /\ hilo[t].en = "desbloquea" /\ UNCHANGED <<evento, susp_block, susp_ready, antiguedad, memoria>>
        /\ Ir(t, "desbloquea_susp") \/ hilo' = [hilo EXCEPT ![t].en = "encola", ![t].fue = "ready"]
    BY <1>2 DEF DesbloquearBlock, suspendidos
  <2>2. hilo'[t].en \in {"desbloquea_susp", "encola"} /\ hilo'[t].tras = hilo[t].tras
    BY <1>t, <2>1, LlamadaIr DEF Locales
  <2>. QED  BY <2>1, <2>2 DEF EnEvento, Suspendidos
<1>3. CASE DesbloquearSusp(t)
  <2>1. /\ hilo[t].en = "desbloquea_susp" /\ UNCHANGED <<evento, antiguedad, memoria>>
        /\ Ir(t, hilo[t].tras) \/ hilo' = [hilo EXCEPT ![t].en = hilo[t].tras, ![t].fue = "susp"]
    BY <1>3 DEF DesbloquearSusp
  <2>2. hilo'[t].en = hilo[t].tras /\ hilo'[t].tras = hilo[t].tras
    BY <1>t, <2>1, LlamadaIr DEF Locales
  <2>3. \/ UNCHANGED <<susp_block, susp_ready>>
        \/ \E p \in susp_block : susp_block' = susp_block \ {p} /\ susp_ready' = susp_ready \cup {p}
    BY <1>3 DEF DesbloquearSusp
  <2>4. Suspendidos' = Suspendidos /\ susp_ready \subseteq susp_ready'
    BY <2>3 DEF Suspendidos
  <2>. QED  BY <1>t, <2>1, <2>2, <2>4 DEF EnEvento, Regresos
<1>4. CASE FinDeCandidatos(t)
  <2>1. /\ hilo[t].en = "candidatos" /\ Ir(t, "esperas") /\ evento' = [evento EXCEPT !.esperas = lista_espera]
        /\ UNCHANGED <<susp_block, susp_ready, antiguedad, memoria>>
    BY <1>4 DEF FinDeCandidatos, suspendidos
  <2>2. hilo'[t].en = "esperas"
    BY <1>t, <2>1, LlamadaIr
  <2>. QED  BY <1>e, <2>1, <2>2 DEF EnEvento, Suspendidos
<1>5. CASE ReintentarEspera(t)
  <2>1. /\ hilo[t].en = "esperas" /\ evento' = [evento EXCEPT !.esperas = Tail(@)]
        /\ UNCHANGED <<susp_block, susp_ready, antiguedad>>
        /\ \/ hilo' = hilo /\ memoria' = memoria
           \/ \E p : LlamarDesbloquear(t, p, "esperas") /\ memoria' = [memoria EXCEPT ![p] = "ram"]
    BY <1>5 DEF ReintentarEspera, suspendidos
  <2>2. hilo'[t].en \in {"esperas", "desbloquea"}
    BY <1>t, <2>1, LlamadaDesbloquear
  <2>3. \A p \in Pids : memoria'[p] = "swap" => memoria[p] = "swap"
    BY <1>e, <2>1
  <2>. QED  BY <1>e, <2>1, <2>2, <2>3 DEF EnEvento, Suspendidos
<1>. QED  BY <1>1, <1>2, <1>3, <1>4, <1>5

\* A step that moves no process to SWAP, brings none back and puts no thread on the
\* way to either.
LEMMA MemoriaQuieta ==
  ASSUME Inv, InvMemoria, NEW t \in Hilos, Paso(t),
         hilo'[t].en \notin {"suspende", "vuelve"},
         EnEvento(hilo'[t]) => EnEvento(hilo[t]),
         evento'.dueno = evento.dueno, evento'.candidatos \subseteq evento.candidatos,
         UNCHANGED <<Suspendidos, antiguedad>>, susp_ready \subseteq susp_ready',
         \A p \in Pids : memoria'[p] = "swap" => memoria[p] = "swap"
  PROVE  InvMemoria'
<1>t. TipoHilos /\ \A u \in Hilos : hilo[u].en = "vuelve" => hilo[u].pid \in Pids
  BY EnPunto DEF Inv, ConPid
<1>1. ASSUME NEW u \in Hilos, EnEvento(hilo'[u]) PROVE EnEvento(hilo[u])
  <2>1. CASE u # t
    BY <1>t, <1>1, <2>1, OtrosQuedan DEF EnEvento
  <2>. QED  BY <1>1, <2>1
<1>2. ASSUME NEW u \in Hilos, hilo'[u].en \in {"suspende", "vuelve"} PROVE hilo'[u] = hilo[u]
  BY <1>t, <1>2, OtrosQuedan
<1>3. InvEvento'
  BY <1>1 DEF InvMemoria, InvEvento
<1>4. InvSwap'
  BY <1>2, HilosDistintos DEF InvMemoria, InvSwap, Suspende
<1>5. InvRegreso'
  <2>1. ASSUME NEW u \in Hilos, hilo'[u].en = "vuelve"
        PROVE  /\ hilo'[u].pid \in susp_ready' /\ memoria'[hilo'[u].pid] # "swap"
               /\ \A v \in HilosTimer : hilo'[v].en = "suspende" => v[2] # hilo'[u].pid
               /\ \A c \in evento'.candidatos : c.pid # hilo'[u].pid
    <3>1. hilo'[u] = hilo[u] /\ hilo[u].pid \in Pids
      BY <1>t, <1>2, <2>1
    <3>2. \A v \in HilosTimer : hilo'[v].en = "suspende" => hilo[v].en = "suspende"
      BY <1>2, HilosDistintos
    <3>. QED  BY <2>1, <3>1, <3>2 DEF InvMemoria, InvRegreso, Suspende
  <2>. QED  BY <2>1 DEF InvMemoria, InvRegreso, Suspende
<1>6. InvAntiguedad'
  BY DEF InvMemoria, InvAntiguedad
<1>. QED  BY <1>3, <1>4, <1>5, <1>6 DEF InvMemoria

\* Who else is on the way to suspend a process or to bring one back, after a step of t
LEMMA SoloUnoCambia ==
  ASSUME Inv, NEW t \in Hilos, Paso(t)
  PROVE  /\ \A u \in HilosTimer : u # t /\ Suspende(u)' => Suspende(u)
         /\ \A u \in Hilos : u # t /\ (hilo'[u].en = "vuelve" \/ EnEvento(hilo'[u])) => hilo'[u] = hilo[u]
<1>t. TipoHilos
  BY DEF Inv
<1>1. \A u \in Hilos : u # t /\ hilo'[u].en \notin {"duerme", "espera_io"} => hilo'[u] = hilo[u]
  BY <1>t, OtrosQuedan
<1>. QED  BY <1>1, HilosDistintos DEF Suspende, EnEvento

\* The timer: the process was in BLOCK, in RAM, and no other timer is about to
\* suspend it.
LEMMA MemoriaVencer ==
  ASSUME Inv, InvListas, InvMemoria, NEW t \in Hilos, Paso(t), VencerTimer(t)
  PROVE  InvMemoria'
<1>. PICK p : p = t[2]
  OBVIOUS
<1>t. /\ TipoHilos /\ hilo[t] \in Locales /\ hilo = [u \in Hilos |-> hilo[u]] /\ t \in HilosTimer /\ p \in Pids
      /\ hilo[t].en = "duerme"
  BY HilosDistintos DEF Inv, TipoHilos, LocalesOK, VencerTimer
<1>u. UNCHANGED <<evento, memoria, susp_ready>>
  BY DEF VencerTimer
<1>1. CASE p \in cola_block /\ bloqueo_id[p] = t[3]
  <2>1. /\ hilo' = [hilo EXCEPT ![t].en = "suspende"] /\ susp_block' = susp_block \cup {p}
        /\ antiguedad' = Append(antiguedad, p)
    BY <1>1 DEF VencerTimer, Ir
  <2>2. p \notin Suspendidos
    BY <1>1, <1>t DEF InvListas, Suspendidos
  <2>3. hilo'[t].en = "suspende" /\ ~ EnEvento(hilo'[t])
    BY <1>t, <2>1 DEF Locales, EnEvento
  <2>4. Suspendidos' = Suspendidos \cup {p}
    BY <1>u, <2>1 DEF Suspendidos
  <2>5. InvEvento'
    BY <1>u, <2>3, SoloUnoCambia DEF InvMemoria, InvEvento
  <2>6. InvSwap'
    <3>1. memoria[p] # "swap" /\ \A u \in HilosTimer : Suspende(u) => u[2] # p
      BY <1>t, <2>2 DEF InvMemoria, InvSwap
    <3>2. \A u \in HilosTimer : Suspende(u)' => Suspende(u) \/ u = t
      BY SoloUnoCambia
    <3>3. \A q \in Pids : memoria'[q] = "swap" => q \in Suspendidos'
      BY <1>u, <2>4 DEF InvMemoria, InvSwap
    <3>4. \A u \in HilosTimer : Suspende(u)' => u[2] \in Suspendidos' /\ memoria'[u[2]] # "swap"
      BY <1>u, <2>4, <3>1, <3>2 DEF InvMemoria, InvSwap
    <3>5. \A u, v \in HilosTimer : Suspende(u)' /\ Suspende(v)' /\ u[2] = v[2] => u = v
      BY <3>1, <3>2 DEF InvMemoria, InvSwap
    <3>. QED  BY <3>3, <3>4, <3>5 DEF InvSwap
  <2>7. InvRegreso'
    <3>1. ASSUME NEW u \in Hilos, hilo'[u].en = "vuelve"
          PROVE  /\ hilo'[u].pid \in susp_ready' /\ memoria'[hilo'[u].pid] # "swap"
                 /\ \A v \in HilosTimer : Suspende(v)' => v[2] # hilo'[u].pid
                 /\ \A c \in evento'.candidatos : c.pid # hilo'[u].pid
      <4>1. hilo'[u] = hilo[u]
        BY <2>3, <3>1, SoloUnoCambia
      <4>2. hilo[u].pid # p
        BY <2>2, <3>1, <4>1 DEF InvMemoria, InvRegreso, Suspendidos
      <4>. QED  BY <1>u, <3>1, <4>1, <4>2, SoloUnoCambia DEF InvMemoria, InvRegreso
    <3>. QED  BY <1>u, <3>1 DEF InvMemoria, InvRegreso
  <2>8. InvAntiguedad'
    <3>1. antiguedad \in Seq(Pids) /\ p \notin ToSet(antiguedad) /\ IsInjective(antiguedad)
      BY <2>2 DEF Inv, TipoColas, InvMemoria, InvAntiguedad
    <3>. QED  BY <1>t, <2>1, <2>4, <3>1, ToSetAppend, AppendSinRepetir DEF InvMemoria, InvAntiguedad
  <2>. QED  BY <2>5, <2>6, <2>7, <2>8 DEF InvMemoria
<1>2. CASE ~ (p \in cola_block /\ bloqueo_id[p] = t[3])
  <2>1. hilo' = [hilo EXCEPT ![t] = [EnReposo EXCEPT !.en = "reposo"]] /\ UNCHANGED <<susp_block, antiguedad>>
    BY <1>2 DEF VencerTimer, Terminar, Seguir
  <2>2. hilo'[t].en = "reposo"
    BY <1>t, <2>1 DEF EnReposo
  <2>. QED  BY <1>u, <2>1, <2>2, MemoriaQuieta DEF EnEvento, Suspendidos
<1>. QED  BY <1>1, <1>2

\* SUSPENDER_PROCESO for a process that is suspended, and not on its way back.
LEMMA MemoriaSuspender ==
  ASSUME Inv, InvMemoria, NEW t \in Hilos, Paso(t), Suspender(t)
  PROVE  InvMemoria'
<1>. PICK p : p = t[2]
  OBVIOUS
<1>t. /\ TipoHilos /\ t \in HilosTimer /\ p \in Pids /\ Suspende(t)
      /\ memoria \in [Pids -> {"sin", "ram", "swap"}]
      /\ \A u \in Hilos : hilo[u].en = "vuelve" => hilo[u].pid \in Pids
  BY HilosDistintos, EnPunto DEF Inv, Suspender, Suspende, TipoMemoria, ConPid
<1>u. UNCHANGED <<evento, susp_block, susp_ready, antiguedad>> /\ LlamarEvento(t, "reposo")
  BY DEF Suspender, suspendidos
<1>m. \A q \in Pids : memoria'[q] = "swap" => memoria[q] = "swap" \/ q = p
  BY <1>t DEF Suspender
<1>1. hilo'[t].en = "evento"
  BY <1>t, <1>u, LlamadaEvento
<1>2. \A u \in HilosTimer : Suspende(u)' => Suspende(u) /\ u # t /\ u[2] # p
  <2>1. \A u \in HilosTimer : Suspende(u)' => Suspende(u) /\ u # t
    BY <1>1, SoloUnoCambia DEF Suspende
  <2>. QED  BY <1>t, <2>1 DEF InvMemoria, InvSwap
<1>3. InvEvento'
  BY <1>u, <1>1, SoloUnoCambia DEF InvMemoria, InvEvento, EnEvento
<1>4. InvSwap'
  <2>1. \A q \in Pids : memoria'[q] = "swap" => q \in Suspendidos'
    BY <1>t, <1>u, <1>m DEF InvMemoria, InvSwap, Suspendidos
  <2>2. \A u \in HilosTimer : Suspende(u)' => u[2] \in Suspendidos' /\ memoria'[u[2]] # "swap"
    BY <1>u, <1>m, <1>2, HilosDistintos DEF InvMemoria, InvSwap, Suspendidos
  <2>3. \A u, v \in HilosTimer : Suspende(u)' /\ Suspende(v)' /\ u[2] = v[2] => u = v
    BY <1>2 DEF InvMemoria, InvSwap
  <2>. QED  BY <2>1, <2>2, <2>3 DEF InvSwap
<1>5. InvRegreso'
  <2>1. ASSUME NEW u \in Hilos, hilo'[u].en = "vuelve"
        PROVE  /\ hilo'[u].pid \in susp_ready' /\ memoria'[hilo'[u].pid] # "swap"
               /\ \A v \in HilosTimer : Suspende(v)' => v[2] # hilo'[u].pid
               /\ \A c \in evento'.candidatos : c.pid # hilo'[u].pid
    <3>1. hilo'[u] = hilo[u]
      BY <1>1, <2>1, SoloUnoCambia
    <3>2. hilo[u].pid \in Pids /\ hilo[u].pid # p
      BY <1>t, <2>1, <3>1 DEF InvMemoria, InvRegreso
    <3>. QED  BY <1>u, <1>m, <1>2, <2>1, <3>1, <3>2 DEF InvMemoria, InvRegreso
  <2>. QED  BY <1>u, <2>1 DEF InvMemoria, InvRegreso
<1>6. InvAntiguedad'
  BY <1>u DEF InvMemoria, InvAntiguedad, Suspendidos
<1>. QED  BY <1>3, <1>4, <1>5, <1>6 DEF InvMemoria

\* The event takes its mutex: the snapshot has each process in SUSP_READY once.
LEMMA MemoriaTomar ==
  ASSUME Inv, InvMemoria, NEW t \in Hilos, Paso(t), TomarEvento(t)
  PROVE  InvMemoria'
<1>t. TipoHilos /\ antiguedad \in Seq(Pids)
  BY DEF Inv, TipoColas
<1>u. /\ UNCHANGED <<memoria, susp_block, susp_ready, antiguedad>> /\ Ir(t, "candidatos")
      /\ evento.dueno = SinHilo /\ evento'.dueno = t /\ evento'.candidatos = Candidatos
  BY DEF TomarEvento, suspendidos
<1>1. hilo'[t].en = "candidatos"
  BY <1>t, <1>u, LlamadaIr
<1>2. \A u \in Hilos : EnEvento(hilo'[u]) => u = t
  BY <1>u, SoloUnoCambia, HilosDistintos DEF InvMemoria, InvEvento
<1>3. InvEvento'
  BY <1>u, <1>2 DEF InvEvento
<1>4. InvSwap'
  <2>1. \A u \in HilosTimer : Suspende(u)' => Suspende(u)
    BY <1>1, SoloUnoCambia DEF Suspende
  <2>. QED  BY <1>u, <2>1 DEF InvMemoria, InvSwap, Suspendidos
<1>5. InvRegreso'
  <2>1. \A u \in Hilos : hilo'[u].en # "vuelve"
    BY <1>1, <1>2 DEF EnEvento
  <2>2. \A c \in Candidatos : c.pid \in susp_ready
    BY DEF Candidatos
  <2>3. \A c, d \in Candidatos : c.pid = d.pid => c = d
    <3>1. ASSUME NEW c \in Candidatos, NEW d \in Candidatos, c.pid = d.pid PROVE c = d
      <4>1. PICK i \in DOMAIN antiguedad :
              c = [pid |-> antiguedad[i], prioridad |-> prioridad_actual[antiguedad[i]], turno |-> i]
        BY DEF Candidatos
      <4>2. PICK j \in DOMAIN antiguedad :
              d = [pid |-> antiguedad[j], prioridad |-> prioridad_actual[antiguedad[j]], turno |-> j]
        BY DEF Candidatos
      <4>3. antiguedad[i] = antiguedad[j]
        BY <3>1, <4>1, <4>2
      <4>4. i = j
        BY <4>3 DEF InvMemoria, InvAntiguedad, IsInjective
      <4>. QED  BY <4>1, <4>2, <4>4
    <3>. QED  BY <3>1
  <2>. QED  BY <1>u, <2>1, <2>2, <2>3 DEF InvRegreso
<1>6. InvAntiguedad'
  BY <1>u DEF InvMemoria, InvAntiguedad, Suspendidos
<1>. QED  BY <1>3, <1>4, <1>5, <1>6 DEF InvMemoria

\* Only the owner of the event is inside it.
LEMMA UnoEnEvento ==
  ASSUME InvEvento, NEW t \in Hilos, NEW u \in Hilos, EnEvento(hilo[t]), EnEvento(hilo[u])
  PROVE  u = t
BY DEF InvEvento

\* DESSUSPENDER_PROCESO for a candidate: if it was in SWAP, no timer of its is about
\* to suspend it.
LEMMA MemoriaDessuspender ==
  ASSUME Inv, InvMemoria, NEW t \in Hilos, Paso(t), Dessuspender(t)
  PROVE  InvMemoria'
<1>t. /\ TipoHilos /\ hilo[t] \in Locales /\ hilo = [u \in Hilos |-> hilo[u]]
      /\ memoria \in [Pids -> {"sin", "ram", "swap"}]
      /\ evento \in [dueno : Hilos \cup {SinHilo},
                     candidatos : SUBSET [pid : Pids, prioridad : Int, turno : Nat], esperas : Seq(Pids)]
  BY DEF Inv, TipoHilos, LocalesOK, TipoMemoria
<1>u. UNCHANGED <<susp_block, susp_ready, antiguedad>> /\ EnEvento(hilo[t])
  BY DEF Dessuspender, suspendidos, EnEvento
<1>c. PICK c \in evento.candidatos :
        /\ evento' = [evento EXCEPT !.candidatos = @ \ {c}]
        /\ IF memoria[c.pid] = "swap" /\ HayLugar
           THEN /\ memoria' = [memoria EXCEPT ![c.pid] = "ram"]
                /\ hilo' = [hilo EXCEPT ![t].en = "vuelve", ![t].pid = c.pid]
           ELSE UNCHANGED <<memoria, hilo>>
  BY DEF Dessuspender
<1>e. evento'.dueno = evento.dueno /\ evento'.candidatos = evento.candidatos \ {c} /\ c.pid \in Pids
  BY <1>t, <1>c
<1>1. CASE memoria[c.pid] = "swap" /\ HayLugar
  <2>1. /\ memoria' = [memoria EXCEPT ![c.pid] = "ram"]
        /\ hilo' = [hilo EXCEPT ![t].en = "vuelve", ![t].pid = c.pid]
    BY <1>c, <1>1
  <2>2. hilo'[t].en = "vuelve" /\ hilo'[t].pid = c.pid
    BY <1>t, <2>1 DEF Locales
  <2>3. \A q \in Pids : memoria'[q] = "swap" => memoria[q] = "swap"
    BY <1>t, <2>1
  <2>4. memoria'[c.pid] # "swap"
    BY <1>t, <1>e, <2>1
  <2>5. \A u \in HilosTimer : Suspende(u)' => Suspende(u)
    BY <2>2, SoloUnoCambia DEF Suspende
  <2>6. InvEvento'
    BY <1>u, <1>e, SoloUnoCambia DEF InvMemoria, InvEvento
  <2>7. InvSwap'
    BY <1>u, <2>3, <2>5, HilosDistintos DEF InvMemoria, InvSwap, Suspendidos
  <2>8. InvRegreso'
    <3>1. ASSUME NEW u \in Hilos, hilo'[u].en = "vuelve" PROVE u = t
      <4>1. u # t => EnEvento(hilo[u])
        BY <3>1, SoloUnoCambia DEF EnEvento
      <4>. QED  BY <1>u, <4>1, UnoEnEvento DEF InvMemoria
    <3>2. c.pid \in susp_ready
      BY DEF InvMemoria, InvRegreso
    <3>3. \A v \in HilosTimer : Suspende(v)' => v[2] # c.pid
      BY <1>1, <2>5 DEF InvMemoria, InvSwap
    <3>4. \A d \in evento'.candidatos : d.pid # c.pid
      BY <1>e DEF InvMemoria, InvRegreso
    <3>5. \A d \in evento'.candidatos : d.pid \in susp_ready'
      BY <1>u, <1>e DEF InvMemoria, InvRegreso
    <3>6. \A d, f \in evento'.candidatos : d.pid = f.pid => d = f
      BY <1>e DEF InvMemoria, InvRegreso
    <3>. QED  BY <1>u, <2>2, <2>4, <3>1, <3>2, <3>3, <3>4, <3>5, <3>6 DEF InvRegreso
  <2>9. InvAntiguedad'
    BY <1>u DEF InvMemoria, InvAntiguedad, Suspendidos
  <2>. QED  BY <2>6, <2>7, <2>8, <2>9 DEF InvMemoria
<1>2. CASE ~ (memoria[c.pid] = "swap" /\ HayLugar)
  <2>1. UNCHANGED <<memoria, hilo>> /\ hilo[t].en = "candidatos"
    BY <1>c, <1>2 DEF Dessuspender
  <2>. QED  BY <1>u, <1>e, <2>1, MemoriaQuieta DEF Suspendidos
<1>. QED  BY <1>1, <1>2

\* SUSP_READY -> READY, with its memory in RAM.
LEMMA MemoriaVolver ==
  ASSUME Inv, InvListas, InvMemoria, NEW t \in Hilos, Paso(t), Volver(t)
  PROVE  InvMemoria'
<1>. PICK p : p = hilo[t].pid
  OBVIOUS
<1>t. TipoHilos /\ antiguedad \in Seq(Pids) /\ hilo[t].en = "vuelve" /\ p \in Pids
  BY EnPunto DEF Inv, TipoColas, Volver, ConPid
<1>v. /\ p \in susp_ready /\ memoria[p] # "swap" /\ EnEvento(hilo[t])
      /\ \A u \in HilosTimer : Suspende(u) => u[2] # p
      /\ \A c \in evento.candidatos : c.pid # p
  BY <1>t DEF InvMemoria, InvRegreso, EnEvento
<1>u. /\ UNCHANGED <<memoria, evento, susp_block>> /\ LlamarEncolar(t, p, "candidatos")
      /\ susp_ready' = susp_ready \ {p} /\ antiguedad' = RemoveFirst(antiguedad, p)
  BY <1>v DEF Volver
<1>1. hilo'[t].en = "encola"
  BY <1>t, <1>u, LlamadaEncolar
<1>2. p \notin susp_block /\ Suspendidos' = Suspendidos \ {p}
  BY <1>t, <1>v, <1>u DEF InvListas, Suspendidos
<1>3. InvEvento'
  BY <1>v, <1>u, SoloUnoCambia DEF InvMemoria, InvEvento
<1>4. InvSwap'
  <2>1. \A u \in HilosTimer : Suspende(u)' => Suspende(u)
    BY <1>1, SoloUnoCambia DEF Suspende
  <2>. QED  BY <1>u, <1>v, <1>2, <2>1 DEF InvMemoria, InvSwap
<1>5. InvRegreso'
  <2>1. ASSUME NEW u \in Hilos, hilo'[u].en = "vuelve" PROVE FALSE
    <3>1. u # t
      BY <1>1, <2>1
    <3>2. EnEvento(hilo[u])
      BY <2>1, <3>1, SoloUnoCambia DEF EnEvento
    <3>. QED  BY <1>v, <3>1, <3>2, UnoEnEvento DEF InvMemoria
  <2>. QED  BY <1>u, <1>v, <2>1 DEF InvMemoria, InvRegreso
<1>6. InvAntiguedad'
  BY <1>t, <1>u, <1>2, RemoveFirstElementos DEF InvMemoria, InvAntiguedad
<1>. QED  BY <1>3, <1>4, <1>5, <1>6 DEF InvMemoria

\* The end of the event
LEMMA MemoriaSoltar ==
  ASSUME Inv, InvMemoria, NEW t \in Hilos, Paso(t), SoltarEvento(t)
  PROVE  InvMemoria'
<1>t. TipoHilos /\ hilo = [u \in Hilos |-> hilo[u]] /\ hilo[t].luego \in Continuaciones
  BY EnPunto DEF Inv, TipoHilos
<1>u. /\ UNCHANGED <<memoria, susp_block, susp_ready, antiguedad>> /\ EnEvento(hilo[t])
      /\ evento'.candidatos = {} /\ hilo' = [hilo EXCEPT ![t] = [EnReposo EXCEPT !.en = hilo[t].luego]]
  BY DEF SoltarEvento, suspendidos, EnEvento, Seguir, SinEvento
<1>1. hilo'[t].en \in Continuaciones
  BY <1>t, <1>u DEF EnReposo
<1>2. \A u \in Hilos : ~ EnEvento(hilo'[u])
  <2>1. ~ EnEvento(hilo'[t])
    BY <1>1 DEF EnEvento, Continuaciones
  <2>2. ASSUME NEW u \in Hilos, u # t, EnEvento(hilo'[u]) PROVE FALSE
    <3>1. EnEvento(hilo[u])
      BY <2>2, SoloUnoCambia
    <3>. QED  BY <1>u, <2>2, <3>1, UnoEnEvento DEF InvMemoria
  <2>. QED  BY <2>1, <2>2
<1>3. InvEvento'
  BY <1>2 DEF InvEvento
<1>4. InvSwap'
  <2>1. \A u \in HilosTimer : Suspende(u)' => Suspende(u)
    BY <1>1, SoloUnoCambia DEF Suspende, Continuaciones
  <2>. QED  BY <1>u, <2>1 DEF InvMemoria, InvSwap, Suspendidos
<1>5. InvRegreso'
  BY <1>u, <1>2 DEF InvRegreso, EnEvento
<1>6. InvAntiguedad'
  BY <1>u DEF InvMemoria, InvAntiguedad, Suspendidos
<1>. QED  BY <1>3, <1>4, <1>5, <1>6 DEF InvMemoria

LEMMA PasoInvMemoria ==
  ASSUME Inv, InvListas, InvMemoria, [Next]_vars
  PROVE  InvMemoria'
<1>1. ASSUME NEW t \in Hilos, Paso(t) PROVE InvMemoria'
  <2>1. CASE PasoComun(t)
    <3>1. CASE Encolar(t) \/ DesbloquearBlock(t) \/ DesbloquearSusp(t) \/ FinDeCandidatos(t) \/ ReintentarEspera(t)
      BY <1>1, <3>1, ComunQueda, MemoriaQuieta
    <3>. QED  BY <1>1, <2>1, <3>1, MemoriaVencer, MemoriaSuspender, MemoriaTomar, MemoriaDessuspender,
                 MemoriaVolver, MemoriaSoltar DEF PasoComun, PasoMedianoPlazo
  <2>2. CASE ~ PasoComun(t)
    <3>1. /\ Ajeno(hilo'[t]) /\ UNCHANGED <<evento, susp_block, susp_ready, antiguedad>>
          /\ \A p \in Pids : memoria'[p] = "swap" => memoria[p] = "swap"
      BY <1>1, <2>2, FueraDelMedianoPlazo
    <3>. QED  BY <1>1, <3>1, MemoriaQuieta DEF Ajeno, EnEvento, Suspendidos
  <2>. QED  BY <2>1, <2>2
<1>2. CASE UNCHANGED varsMP
  BY <1>2 DEF varsMP, InvMemoria, InvEvento, InvSwap, InvRegreso, InvAntiguedad, Suspende, Suspendidos
<1>3. CASE Next
  <2>1. (\E t \in Hilos : Paso(t)) \/ UNCHANGED varsMP
    BY <1>3, Zenon DEF Next, Entorno
  <2>. QED  BY <1>1, <1>2, <2>1
<1>. QED  BY <1>2, <1>3 DEF vars

LEMMA InitMemoria == Init => InvMemoria
<1>. SUFFICES ASSUME Init PROVE InvMemoria
  OBVIOUS
<1>1. \A t \in Hilos : hilo[t].en = "reposo"
  BY DEF Init, EnReposo
<1>2. \A p \in Pids : memoria[p] # "swap"
  BY ConfigTipos DEF Init
<1>3. antiguedad = <<>> /\ Suspendidos = {} /\ evento.candidatos = {}
  BY DEF Init, Suspendidos, SinEvento
<1>4. IsInjective(<<>>) /\ ToSet(<<>>) = {}
  BY DEF IsInjective, ToSet
<1>. QED  BY <1>1, <1>2, <1>3, <1>4, HilosDistintos
          DEF InvMemoria, InvEvento, InvSwap, InvRegreso, InvAntiguedad, EnEvento, Suspende

LEMMA MemoriaInductiva ==
  Spec => [](Inv /\ InvPuntos /\ (~ config.cmn => InvLugar /\ InvMemoria))
<1>1. Init => Inv /\ InvPuntos /\ (~ config.cmn => InvLugar /\ InvMemoria)
  BY InitInv, InitPuntos, InitLugar, InitMemoria
<1>2. Inv /\ InvPuntos /\ (~ config.cmn => InvLugar /\ InvMemoria) /\ [Next]_vars
        => (Inv /\ InvPuntos /\ (~ config.cmn => InvLugar /\ InvMemoria))'
  <2>. SUFFICES ASSUME Inv, InvPuntos, ~ config.cmn => InvLugar /\ InvMemoria, [Next]_vars
                PROVE  Inv' /\ InvPuntos' /\ (~ config.cmn => InvLugar /\ InvMemoria)'
    OBVIOUS
  <2>1. config' = config
    BY ConfigFija
  <2>2. Inv' /\ InvPuntos'
    BY PasoInv, PasoPuntos
  <2>3. CASE config.cmn
    BY <2>1, <2>2, <2>3
  <2>4. CASE ~ config.cmn
    <3>1. InvLugar'
      BY <2>4, PasoLugar
    <3>2. InvMemoria'
      BY <2>4, PasoInvMemoria DEF InvLugar
    <3>. QED  BY <2>2, <3>1, <3>2
  <2>. QED  BY <2>3, <2>4
<1>. QED  BY <1>1, <1>2, PTL DEF Spec

\* Without Colas Multinivel nobody runs, waits in READY or blocks with its segments
\* in SWAP, whichever timers, returns and allocations cross.
THEOREM NadieCorreEnSwap == Spec => [](~ config.cmn => MemoriaPresente)
<1>1. Inv /\ InvPuntos /\ (~ config.cmn => InvLugar /\ InvMemoria) => (~ config.cmn => MemoriaPresente)
  BY DEF InvLugar, InvListas, InvMemoria, InvSwap, Suspendidos, MemoriaPresente
<1>. QED  BY <1>1, MemoriaInductiva, PTL
-----------------------------------------------------------------------------
(* What each blocked process waits for.  One that asked for an IO, for a      *)
(* mutex or for memory is where it waits for that, and only who brings it     *)
(* that wakes it: until then it asks for nothing else.                        *)

\* With locals r a thread is in desbloquear, to go on at e.
Despierta(r, e) == r.en \in {"desbloquea", "desbloquea_susp"} /\ r.tras = e

\* The thread of an IO that has not finished with the block of its process
PuntosIO == UsaDispositivo \cup {"espera_io", "busca_io", "postea_io"}
SirveIO(r) == r.en \in PuntosIO \/ Despierta(r, "fin_io")

Dormidos == cola_block \cup susp_block

\* Before exec_a_block: the thread of a CPU looks for the owner of the mutex.
Buscando == {"busca_exec", "busca_ready", "busca_block", "hereda", "a_block"}
Busca(c) == Atiende(c) /\ hilo[HiloCpu(c)].en \in Buscando
Parado(p) == estado[p] \in {"BLOCK", "SUSP_BLOCK"} \/ \E c \in Cpus : Busca(c) /\ cpu[c] = p

PidioLock(p, m) == Orden(p) = [op |-> "MUTEX_LOCK", arg |-> m]
Anota(c) == hilo[HiloCpu(c)].en = "anota"

InvEsperaIO ==
  /\ \A t \in Hilos : Despierta(hilo[t], "fin_io") => t \in HilosIO /\ hilo[t].pid = t[2]
  /\ \A t \in HilosIO : SirveIO(hilo[t]) => t[2] \in Dormidos /\ Orden(t[2]).op = "IO"
  /\ \A t, u \in HilosIO : SirveIO(hilo[t]) /\ SirveIO(hilo[u]) /\ t[2] = u[2] => t = u

InvEsperaMutex ==
  /\ \A m \in Mutexes : IsInjective(bloqueados[m])
  /\ \A m \in Mutexes : \A p \in ToSet(bloqueados[m]) : PidioLock(p, m) /\ Parado(p)
  /\ \A t \in Hilos : Despierta(hilo[t], "toma") =>
       /\ PidioLock(hilo[t].pid, hilo[t].mtx) /\ Parado(hilo[t].pid)
       /\ hilo[t].pid \notin ToSet(bloqueados[hilo[t].mtx])
  /\ \A t, u \in Hilos : Despierta(hilo[t], "toma") /\ Despierta(hilo[u], "toma")
                           /\ hilo[t].pid = hilo[u].pid => t = u

InvEsperaMemoria ==
  /\ IsInjective(lista_espera) /\ IsInjective(evento.esperas)
  /\ ToSet(evento.esperas) \subseteq ToSet(lista_espera)
  /\ \A p \in ToSet(lista_espera) : p \in Dormidos /\ Orden(p).op = "MEM_ALLOC"
  /\ \A t \in Hilos : Despierta(hilo[t], "esperas") =>
       /\ hilo[t].pid \in Dormidos /\ Orden(hilo[t].pid).op = "MEM_ALLOC"
       /\ hilo[t].pid \notin ToSet(lista_espera)
  /\ \A c \in Cpus : Anota(c) =>
       /\ cpu[c] \in Dormidos /\ Orden(cpu[c]).op = "MEM_ALLOC"
       /\ cpu[c] \notin ToSet(lista_espera)
       /\ \A t \in Hilos : Despierta(hilo[t], "esperas") => hilo[t].pid # cpu[c]
  /\ \A c, d \in Cpus : Anota(c) /\ Anota(d) /\ cpu[c] = cpu[d] => c = d

\* desbloquear is called by who ends an IO, hands over a mutex or retries.
InvDespierta ==
  \A t \in Hilos : hilo[t].en \in {"desbloquea", "desbloquea_susp"} => hilo[t].tras \in {"fin_io", "toma", "esperas"}

InvEspera == InvDespierta /\ InvEsperaIO /\ InvEsperaMutex /\ InvEsperaMemoria

\* The pool: a device in use is listed, and nobody has marked it.
InvPool ==
  /\ IsInjective(ios_conectados)
  /\ \A d \in Dispositivos : desconectado[d] => d \in Vivos
  /\ \A t \in HilosIO : Ocupa(t) => /\ hilo[t].disp \in ToSet(ios_conectados)
                                    /\ ~ desconectado[hilo[t].disp]
  /\ \A t \in HilosIO : Ocupa(t) \/ hilo[t].en = "postea_io" => TipoDe[hilo[t].disp] = TipoPedido(t[2])

\* A process that waits asks for nothing: the thread of its CPU is busy, or it has none.
LEMMA NoPide ==
  ASSUME Inv, InvPuntos, InvLugar, NEW t \in HilosCpu, NEW o, Recibir(t, o)
  PROVE  ~ Parado(Pid(t))
<1>. DEFINE p == Pid(t)
<1>1. p \in Pids /\ hilo[t].en = "reposo" /\ p \in lista_exec /\ cpu[t[2]] = p /\ p # NADA
  BY PidRecibido, ProcesosOK DEF Recibir, Pid
<1>2. t \in Hilos /\ t[2] \in Cpus /\ t = HiloCpu(t[2])
  BY HilosDistintos
<1>3. Atiende(t[2])
  BY <1>1, <1>2 DEF Atiende, Solto, InvPuntos, SinLlamada
<1>4. estado[p] = "EXEC"
  BY <1>1 DEF InvLugar, InvListas
<1>5. ASSUME NEW c \in Cpus, Busca(c), cpu[c] = p PROVE FALSE
  <2>1. c = t[2]
    BY <1>1, <1>2, <1>3, <1>5 DEF InvLugar, InvRafagas, Busca
  <2>. QED  BY <1>1, <1>2, <1>5, <2>1 DEF Busca, Buscando
<1>. QED  BY <1>4, <1>5 DEF Parado

\* Only a syscall moves the script of a process.
LEMMA PasoDelGuion ==
  ASSUME Inv, NEW t \in Hilos, Paso(t), NEW p \in Pids, paso'[p] # paso[p]
  PROVE  t \in HilosCpu /\ p = Pid(t) /\ \E o : Recibir(t, o)
<1>t. paso \in [Pids -> Nat]
  BY DEF Inv, TipoPcbs
<1>1. \/ UNCHANGED paso
      \/ t \in HilosCpu /\ \E o : Recibir(t, o)
  BY DEF Paso, PasoComun, PasoIO, PasoCP, TomarReady, PasarAExec, PasoCpu, PedirBloqueoIO, FinDeRafaga,
     PedirMemoria, DevolverMemoria, PedirMutex, BuscarDueno, Buscar, Heredar, DevolverMutex, Ceder,
     AnotarDespertado, Finalizar, LiberarMutex, FinalizarKM, SalirDeExec, EntrarABlock, AnotarEspera, LiberarCpu
<1>2. t \in HilosCpu /\ \E o : Recibir(t, o)
  BY <1>1
<1>3. paso' = [paso EXCEPT ![Pid(t)] = @ + 1]
  BY <1>2 DEF Recibir
<1>. QED  BY <1>t, <1>2, <1>3

LEMMA OrdenQueda ==
  ASSUME Inv, InvPuntos, InvLugar, [Next]_vars, NEW t \in Hilos, Paso(t), NEW p \in Pids, Parado(p)
  PROVE  Orden(p)' = Orden(p) /\ paso'[p] = paso[p]
<1>1. paso'[p] = paso[p]
  BY PasoDelGuion, NoPide
<1>. QED  BY <1>1, ConfigFija DEF Orden

\* The thread t wakes p.
Levanta(t, p) ==
  /\ hilo[t].en \in {"desbloquea", "desbloquea_susp"} /\ hilo[t].pid = p
  /\ hilo'[t].en \notin {"desbloquea", "desbloquea_susp"} \cup PuntosIO
  /\ p \notin Dormidos'

\* A process leaves BLOCK, or the lists of who sleeps, in the hands of who wakes it.
LEMMA EstadoQueda ==
  ASSUME Inv, InvPuntos, InvLugar, NEW t \in Hilos, Paso(t), NEW p \in Pids,
         estado[p] \in {"BLOCK", "SUSP_BLOCK"}
  PROVE  \/ estado'[p] \in {"BLOCK", "SUSP_BLOCK"} /\ (p \in Dormidos => p \in Dormidos')
         \/ Levanta(t, p)
<1>t. /\ TipoHilos /\ hilo = [u \in Hilos |-> hilo[u]] /\ hilo[t] \in Locales /\ hilo[t].tras \in Regresos
      /\ estado \in [Pids -> Estados]
      /\ estado[p] # "EXEC" /\ p \notin lista_exec /\ p \notin susp_ready /\ estado[p] # "READY"
  BY EnPunto DEF Inv, TipoHilos, LocalesOK, TipoPcbs, InvLugar, InvListas
<1>0. UNCHANGED <<estado, cola_block, susp_block>> => estado'[p] \in {"BLOCK", "SUSP_BLOCK"} /\ (p \in Dormidos => p \in Dormidos')
  BY DEF Dormidos
<1>1. CASE PasoComun(t)
  <2>1. CASE DesbloquearBlock(t)
    <3>1. CASE hilo[t].pid \in cola_block
      <4>1. /\ cola_block' = cola_block \ {hilo[t].pid} /\ UNCHANGED susp_block
            /\ estado' = [estado EXCEPT ![hilo[t].pid] = "READY"]
            /\ hilo'[t].en = "encola" /\ hilo[t].en = "desbloquea"
        BY <1>t, <2>1, <3>1 DEF DesbloquearBlock, suspendidos, Locales
      <4>2. CASE hilo[t].pid = p
        <5>1. p \notin susp_block
          BY <3>1, <4>2 DEF InvLugar, InvListas
        <5>. QED  BY <4>1, <4>2, <5>1 DEF Levanta, Dormidos, PuntosIO, UsaDispositivo
      <4>3. CASE hilo[t].pid # p
        BY <1>t, <4>1, <4>3 DEF Dormidos
      <4>. QED  BY <4>2, <4>3
    <3>2. CASE hilo[t].pid \notin cola_block
      BY <1>0, <2>1, <3>2 DEF DesbloquearBlock, suspendidos
    <3>. QED  BY <3>1, <3>2
  <2>2. CASE DesbloquearSusp(t)
    <3>1. CASE hilo[t].pid \in susp_block
      <4>1. /\ susp_block' = susp_block \ {hilo[t].pid} /\ UNCHANGED cola_block
            /\ estado' = [estado EXCEPT ![hilo[t].pid] = "SUSP_READY"]
            /\ hilo'[t].en = hilo[t].tras /\ hilo[t].en = "desbloquea_susp"
        BY <1>t, <2>2, <3>1 DEF DesbloquearSusp, Locales
      <4>2. CASE hilo[t].pid = p
        <5>1. p \notin cola_block
          BY <3>1, <4>2 DEF InvLugar, InvListas
        <5>. QED  BY <1>t, <4>1, <4>2, <5>1 DEF Levanta, Dormidos, PuntosIO, UsaDispositivo, Regresos
      <4>3. CASE hilo[t].pid # p
        BY <1>t, <4>1, <4>3 DEF Dormidos
      <4>. QED  BY <4>2, <4>3
    <3>2. CASE hilo[t].pid \notin susp_block
      BY <1>0, <2>2, <3>2 DEF DesbloquearSusp
    <3>. QED  BY <3>1, <3>2
  <2>3. CASE VencerTimer(t)
    <3>1. CASE UNCHANGED <<estado, cola_block, susp_block>>
      BY <1>0, <3>1
    <3>2. CASE ~ UNCHANGED <<estado, cola_block, susp_block>>
      <4>1. /\ cola_block' = cola_block \ {t[2]} /\ susp_block' = susp_block \cup {t[2]}
            /\ estado' = [estado EXCEPT ![t[2]] = "SUSP_BLOCK"]
        BY <2>3, <3>2 DEF VencerTimer
      <4>. QED  BY <1>t, <4>1 DEF Dormidos
    <3>. QED  BY <3>1, <3>2
  <2>4. CASE Volver(t)
    <3>1. CASE hilo[t].pid \in susp_ready
      <4>1. hilo[t].pid # p /\ estado' = [estado EXCEPT ![hilo[t].pid] = "READY"] /\ UNCHANGED <<cola_block, susp_block>>
        BY <1>t, <2>4, <3>1 DEF Volver
      <4>. QED  BY <1>t, <4>1 DEF Dormidos
    <3>2. CASE hilo[t].pid \notin susp_ready
      BY <1>0, <2>4, <3>2, SMTT(40) DEF Volver
    <3>. QED  BY <3>1, <3>2
  <2>5. CASE Encolar(t) \/ Suspender(t) \/ TomarEvento(t) \/ Dessuspender(t) \/ FinDeCandidatos(t)
             \/ ReintentarEspera(t) \/ SoltarEvento(t)
    BY <1>0, <2>5 DEF Encolar, Suspender, TomarEvento, Dessuspender, FinDeCandidatos, ReintentarEspera,
       SoltarEvento, suspendidos
  <2>. QED  BY <1>1, <2>1, <2>2, <2>3, <2>4, <2>5 DEF PasoComun, PasoMedianoPlazo
<1>2. CASE t \in HilosIO /\ PasoIO(t)
  BY <1>0, <1>2 DEF PasoIO, suspendidos
<1>3. CASE t \in HilosCpu /\ PasoCpu(t)
  <2>1. CASE SalirDeExec(t)
    <3>1. UNCHANGED <<cola_block, susp_block>> /\ estado' = [estado EXCEPT ![Pid(t)] = "BLOCK"]
      BY <2>1 DEF SalirDeExec, suspendidos
    <3>. QED  BY <1>t, <3>1 DEF Dormidos
  <2>2. CASE EntrarABlock(t)
    BY <2>2 DEF EntrarABlock, suspendidos, Dormidos
  <2>3. CASE FinDeRafaga(t) \/ Finalizar(t)
    <3>1. /\ UNCHANGED <<cola_block, susp_block>>
          /\ \E e : estado' = [estado EXCEPT ![Pid(t)] = e]
          /\ Pid(t) \in lista_exec
      BY <2>3 DEF FinDeRafaga, Finalizar, Recibir, suspendidos
    <3>. QED  BY <1>t, <3>1 DEF Dormidos
  <2>4. CASE ~ (SalirDeExec(t) \/ EntrarABlock(t) \/ FinDeRafaga(t) \/ Finalizar(t))
    <3>1. UNCHANGED <<estado, cola_block, susp_block>>
      BY <1>3, <2>4 DEF PasoCpu, PedirBloqueoIO, PedirMemoria, DevolverMemoria, PedirMutex, BuscarDueno,
         Buscar, Heredar, DevolverMutex, Ceder, AnotarDespertado, LiberarMutex, FinalizarKM, AnotarEspera,
         LiberarCpu, suspendidos
    <3>. QED  BY <1>0, <3>1
  <2>. QED  BY <2>1, <2>2, <2>3, <2>4
<1>4. CASE t = HiloCP /\ PasoCP
  <2>1. CASE TomarReady
    BY <1>0, <2>1 DEF TomarReady, suspendidos
  <2>2. CASE PasarAExec
    <3>1. /\ estado' = [estado EXCEPT ![hilo[HiloCP].pid] = "EXEC"] /\ hilo[HiloCP].en = "despacha"
          /\ UNCHANGED <<cola_block, susp_block>>
      BY <2>2 DEF PasarAExec, suspendidos
    <3>2. estado[hilo[HiloCP].pid] = "READY"
      BY <3>1, HilosDistintos, DeMano DEF Manos, InvLugar, ConEstado
    <3>. QED  BY <1>t, <3>1, <3>2 DEF Dormidos
  <2>. QED  BY <1>4, <2>1, <2>2 DEF PasoCP
<1>. QED  BY <1>1, <1>2, <1>3, <1>4 DEF Paso

\* Whoever sleeps or waits for a mutex goes on so, or is woken.
LEMMA ParadoQueda ==
  ASSUME Inv, InvPuntos, InvPuntos', InvLugar, NEW t \in Hilos, Paso(t), NEW p \in Pids, Parado(p)
  PROVE  Parado(p)' \/ Levanta(t, p)
<1>1. CASE estado[p] \in {"BLOCK", "SUSP_BLOCK"}
  BY <1>1, EstadoQueda DEF Parado
<1>2. ASSUME NEW c \in Cpus, Busca(c), cpu[c] = p PROVE Parado(p)'
  <2>t. /\ HiloCpu(c) \in HilosCpu /\ HiloCpu(c) \in Hilos /\ HiloCpu(c)[2] = c /\ HiloCpu(c) # HiloCP
        /\ HiloCpu(c) \notin HilosIO /\ HiloCpu(c) \notin HilosTimer
        /\ TipoHilos /\ hilo = [u \in Hilos |-> hilo[u]] /\ hilo[HiloCpu(c)] \in Locales
        /\ p # NADA /\ cpu \in [Cpus -> Pids \cup {NADA}] /\ estado \in [Pids -> Estados]
    BY HilosDistintos, ProcesosOK DEF Inv, TipoHilos, LocalesOK, TipoCpu, TipoPcbs
  <2>1. CASE t = HiloCpu(c)
    <3>1. hilo[t].en \in Buscando
      BY <1>2, <2>1, SMTT(40) DEF Busca
    <3>2. ~ PasoComun(t)
      BY <2>t, <2>1, <3>1 DEF PasoComun, PasoMedianoPlazo, Encolar, DesbloquearBlock, DesbloquearSusp, VencerTimer,
         Suspender, TomarEvento, Dessuspender, Volver, FinDeCandidatos, ReintentarEspera, SoltarEvento, Buscando
    <3>3. PasoCpu(t)
      BY <2>t, <2>1, <3>2 DEF Paso
    <3>4. BuscarDueno(t) \/ Heredar(t) \/ SalirDeExec(t)
      BY <3>1, <3>3 DEF PasoCpu, PedirBloqueoIO, FinDeRafaga, PedirMemoria, DevolverMemoria, PedirMutex,
         DevolverMutex, Ceder, AnotarDespertado, Finalizar, LiberarMutex, FinalizarKM, EntrarABlock,
         AnotarEspera, LiberarCpu, Recibir, Buscando
    <3>5. CASE SalirDeExec(t)
      <4>1. estado' = [estado EXCEPT ![p] = "BLOCK"]
        BY <1>2, <2>t, <2>1, <3>5 DEF SalirDeExec, Pid
      <4>. QED  BY <2>t, <4>1 DEF Parado
    <3>6. CASE BuscarDueno(t) \/ Heredar(t)
      <4>1. UNCHANGED cpu /\ \E e \in Buscando : Ir(t, e)
        BY <3>6 DEF BuscarDueno, Buscar, Heredar, Buscando
      <4>2. hilo'[t].en \in Buscando
        BY <2>t, <2>1, <4>1, LlamadaIr
      <4>3. hilo'[t].luego = "reposo"
        BY <2>t, <2>1, <4>2 DEF InvPuntos, SinLlamada, Buscando
      <4>4. Busca(c)'
        BY <1>2, <2>t, <2>1, <4>1, <4>2, <4>3 DEF Busca, Atiende, Solto, Buscando
      <4>. QED  BY <1>2, <4>1, <4>4 DEF Parado
    <3>. QED  BY <3>4, <3>5, <3>6
  <2>2. CASE t # HiloCpu(c)
    <3>1. hilo'[HiloCpu(c)] = hilo[HiloCpu(c)]
      BY <2>t, <2>2, Quietos DEF InvLugar
    <3>2. cpu'[c] = cpu[c]
      <4>1. CASE t \in HilosCpu /\ LiberarCpu(t)
        <5>1. t[2] # c
          BY <2>2, <4>1, HilosDistintos
        <5>. QED  BY <2>t, <4>1, <5>1 DEF LiberarCpu
      <4>2. CASE t = HiloCP /\ PasarAExec
        BY <1>2, <2>t, <4>2, CpuElegida
      <4>3. CASE ~ (t \in HilosCpu /\ LiberarCpu(t)) /\ ~ (t = HiloCP /\ PasarAExec)
        BY <4>3, CpuIgual
      <4>. QED  BY <4>1, <4>2, <4>3
    <3>3. Busca(c)'
      BY <1>2, <3>1, <3>2 DEF Busca, Atiende
    <3>. QED  BY <1>2, <3>2, <3>3 DEF Parado
  <2>. QED  BY <2>1, <2>2
<1>. QED  BY <1>1, <1>2 DEF Parado

LEMMA DormidoQueda ==
  ASSUME Inv, InvPuntos, InvLugar, NEW t \in Hilos, Paso(t), NEW p \in Pids, p \in Dormidos
  PROVE  (p \in Dormidos' \/ Levanta(t, p)) /\ Parado(p)
<1>1. estado[p] \in {"BLOCK", "SUSP_BLOCK"}
  BY DEF Dormidos, InvLugar, InvListas
<1>. QED  BY <1>1, EstadoQueda DEF Parado

\* Who is in desbloquear after a step: who was, and who ends an IO, hands over a
\* mutex or retries an allocation.
LEMMA NuevoDespierta ==
  ASSUME Inv, NEW t \in Hilos, Paso(t), NEW u \in Hilos, hilo'[u].en \in {"desbloquea", "desbloquea_susp"}
  PROVE  \/ /\ hilo[u].en \in {"desbloquea", "desbloquea_susp"}
            /\ hilo'[u].tras = hilo[u].tras /\ hilo'[u].pid = hilo[u].pid /\ hilo'[u].mtx = hilo[u].mtx
         \/ u = t /\ t \in HilosIO /\ SirveIO(hilo[t]) /\ hilo'[u].tras = "fin_io" /\ hilo'[u].pid = t[2]
         \/ /\ u = t /\ t \in HilosCpu /\ Ceder(t) /\ bloqueados[hilo[t].mtx] # <<>>
            /\ hilo'[u].tras = "toma" /\ hilo'[u].pid = Head(bloqueados[hilo[t].mtx]) /\ hilo'[u].mtx = hilo[t].mtx
         \/ /\ u = t /\ ReintentarEspera(t) /\ HayLugar
            /\ hilo'[u].tras = "esperas" /\ hilo'[u].pid = Head(evento.esperas)
<1>t. /\ TipoHilos /\ hilo = [v \in Hilos |-> hilo[v]] /\ hilo[u] \in Locales
      /\ hilo[u].tras \in Regresos /\ hilo[u].luego \in Continuaciones
  BY EnPunto DEF Inv, TipoHilos, LocalesOK
<1>1. CASE u # t
  <2>1. hilo'[u] = hilo[u]
    BY <1>t, <1>1, OtrosQuedan
  <2>. QED  BY <2>1
<1>. SUFFICES ASSUME u = t PROVE
         \/ /\ hilo[t].en \in {"desbloquea", "desbloquea_susp"}
            /\ hilo'[t].tras = hilo[t].tras /\ hilo'[t].pid = hilo[t].pid /\ hilo'[t].mtx = hilo[t].mtx
         \/ t \in HilosIO /\ SirveIO(hilo[t]) /\ hilo'[t].tras = "fin_io" /\ hilo'[t].pid = t[2]
         \/ /\ t \in HilosCpu /\ Ceder(t) /\ bloqueados[hilo[t].mtx] # <<>>
            /\ hilo'[t].tras = "toma" /\ hilo'[t].pid = Head(bloqueados[hilo[t].mtx]) /\ hilo'[t].mtx = hilo[t].mtx
         \/ /\ ReintentarEspera(t) /\ HayLugar
            /\ hilo'[t].tras = "esperas" /\ hilo'[t].pid = Head(evento.esperas)
  BY <1>1
<1>2. CASE PasoComun(t)
  <2>1. CASE DesbloquearBlock(t)
    BY <1>t, <2>1 DEF DesbloquearBlock, Ir, Locales
  <2>2. CASE ReintentarEspera(t)
    <3>1. hilo[t].en = "esperas" /\ (hilo' = hilo \/ (HayLugar /\ LlamarDesbloquear(t, Head(evento.esperas), "esperas")))
      BY <2>2 DEF ReintentarEspera
    <3>. QED  BY <1>t, <2>2, <3>1, LlamadaDesbloquear
  <2>3. CASE Dessuspender(t)
    <3>1. PICK q : /\ hilo[t].en = "candidatos"
                   /\ hilo' = hilo \/ hilo' = [hilo EXCEPT ![t].en = "vuelve", ![t].pid = q]
      BY <2>3, Zenon DEF Dessuspender
    <3>. QED  BY <1>t, <3>1 DEF Locales
  <2>4. CASE Encolar(t) \/ DesbloquearSusp(t)
    BY <1>t, <2>4 DEF Encolar, DesbloquearSusp, Ir, Locales, Regresos
  <2>5. CASE VencerTimer(t) \/ Suspender(t) \/ TomarEvento(t) \/ FinDeCandidatos(t)
    <3>1. (\E e \in {"suspende", "candidatos", "esperas"} : Ir(t, e)) \/ Terminar(t) \/ LlamarEvento(t, "reposo")
      BY <2>5 DEF VencerTimer, Suspender, TomarEvento, FinDeCandidatos
    <3>. QED  BY <1>t, <3>1, LlamadaIr, LlamadaEvento DEF Terminar, Seguir, EnReposo
  <2>6. CASE Volver(t)
    <3>1. Ir(t, "candidatos") \/ LlamarEncolar(t, hilo[t].pid, "candidatos")
      BY <2>6 DEF Volver
    <3>. QED  BY <1>t, <3>1, LlamadaIr, LlamadaEncolar
  <2>7. CASE SoltarEvento(t)
    BY <1>t, <2>7 DEF SoltarEvento, Seguir, EnReposo, Continuaciones
  <2>. QED  BY <1>2, <2>1, <2>2, <2>3, <2>4, <2>5, <2>6, <2>7 DEF PasoComun, PasoMedianoPlazo
<1>3. CASE t \in HilosIO /\ PasoIO(t)
  <2>1. CASE FallarIO(t) \/ PostearDispositivo(t)
    <3>1. hilo[t].en \in PuntosIO /\ LlamarDesbloquear(t, t[2], "fin_io")
      BY <2>1, SMTT(40) DEF FallarIO, PostearDispositivo, PuntosIO, UsaDispositivo
    <3>. QED  BY <1>t, <1>3, <3>1, LlamadaDesbloquear DEF SirveIO
  <2>2. CASE ~ (FallarIO(t) \/ PostearDispositivo(t))
    <3>1. \/ \E e \in {"busca_io", "espera_ok", "libera_io", "postea_io"} : Ir(t, e)
          \/ \E d : hilo' = [hilo EXCEPT ![t].en = "pide_io", ![t].disp = d]
          \/ LlamarEvento(t, "reposo") \/ Terminar(t)
      BY <1>3, <2>2 DEF PasoIO, EsperarDispositivo, TomarDispositivo, PedirDispositivo, LeerOK,
         LiberarDispositivo, TerminarIO
    <3>2. CASE \E d : hilo' = [hilo EXCEPT ![t].en = "pide_io", ![t].disp = d]
      <4>1. PICK d : hilo' = [hilo EXCEPT ![t].en = "pide_io", ![t].disp = d]
        BY <3>2
      <4>. QED  BY <1>t, <4>1 DEF Locales
    <3>. QED  BY <1>t, <3>1, <3>2, LlamadaIr, LlamadaEvento, ZenonT(60) DEF Terminar, Seguir, EnReposo
  <2>. QED  BY <2>1, <2>2
<1>4. CASE t \in HilosCpu /\ PasoCpu(t)
  <2>1. CASE Ceder(t)
    <3>1. \/ bloqueados[hilo[t].mtx] # <<>> /\ LlamarDesbloquear(t, Head(bloqueados[hilo[t].mtx]), "toma")
          \/ Seguir(t, hilo[t].luego)
      BY <2>1 DEF Ceder
    <3>2. CASE Seguir(t, hilo[t].luego)
      BY <1>t, <3>2 DEF Seguir, EnReposo, Continuaciones
    <3>3. CASE bloqueados[hilo[t].mtx] # <<>> /\ LlamarDesbloquear(t, Head(bloqueados[hilo[t].mtx]), "toma")
      <4>1. hilo'[t].mtx = hilo[t].mtx
        BY <1>t, <3>3 DEF LlamarDesbloquear, Locales
      <4>. QED  BY <1>t, <1>4, <2>1, <3>3, <4>1, LlamadaDesbloquear
    <3>. QED  BY <3>1, <3>2, <3>3
  <2>2. CASE PedirMutex(t)
    <3>1. PICK q : /\ hilo[t].en = "reposo"
                   /\ hilo' = hilo \/ hilo' = [hilo EXCEPT ![t].en = "busca_exec", ![t].pid = q]
      BY <2>2, Zenon DEF PedirMutex, Recibir
    <3>. QED  BY <1>t, <3>1 DEF Locales
  <2>3. CASE DevolverMutex(t) \/ LiberarMutex(t)
    <3>1. CASE DevolverMutex(t)
      BY <1>t, <3>1 DEF DevolverMutex, EmpezarUnlock, Locales
    <3>2. CASE LiberarMutex(t)
      BY <1>t, <3>2 DEF LiberarMutex, EmpezarUnlock, Locales
    <3>. QED  BY <2>3, <3>1, <3>2
  <2>4. CASE PedirBloqueoIO(t) \/ Finalizar(t) \/ BuscarDueno(t) \/ Heredar(t) \/ SalirDeExec(t) \/ AnotarEspera(t)
    <3>1. \E e \in {"a_block", "entra_block", "libera_cpu", "hereda", "busca_ready", "busca_block", "libera_mutex"} : Ir(t, e)
      BY <2>4 DEF PedirBloqueoIO, Finalizar, BuscarDueno, Buscar, Heredar, SalirDeExec, AnotarEspera
    <3>. QED  BY <1>t, <3>1, LlamadaIr
  <2>5. CASE FinDeRafaga(t)
    <3>1. LlamarEncolar(t, Pid(t), "libera_cpu")
      BY <2>5 DEF FinDeRafaga
    <3>. QED  BY <1>t, <3>1, LlamadaEncolar
  <2>6. CASE PedirMemoria(t) \/ DevolverMemoria(t)
    <3>1. /\ hilo[t].en = "reposo"
          /\ hilo' = hilo \/ Ir(t, "a_block") \/ LlamarEvento(t, "reposo")
      BY <2>6, Zenon DEF PedirMemoria, DevolverMemoria, Recibir
    <3>. QED  BY <1>t, <3>1, LlamadaIr, LlamadaEvento
  <2>7. CASE AnotarDespertado(t) \/ FinalizarKM(t)
    <3>1. LlamarEvento(t, hilo[t].luego) \/ Seguir(t, hilo[t].luego) \/ LlamarEvento(t, "libera_cpu")
      BY <2>7, Zenon DEF AnotarDespertado, FinalizarKM
    <3>2. CASE Seguir(t, hilo[t].luego)
      BY <1>t, <3>2 DEF Seguir, EnReposo, Continuaciones
    <3>. QED  BY <1>t, <3>1, <3>2, LlamadaEvento
  <2>8. CASE EntrarABlock(t)
    BY <1>t, <2>8 DEF EntrarABlock, Locales
  <2>9. CASE LiberarCpu(t)
    BY <1>t, <2>9 DEF LiberarCpu, Terminar, Seguir, EnReposo
  <2>. QED  BY <1>4, <2>1, <2>2, <2>3, <2>4, <2>5, <2>6, <2>7, <2>8, <2>9 DEF PasoCpu
<1>5. CASE t = HiloCP /\ PasoCP
  <2>1. hilo[t].en \in {"reposo", "despacha"}
        /\ (hilo' = hilo \/ Terminar(t) \/ \E q : hilo' = [hilo EXCEPT ![t].en = "despacha", ![t].pid = q])
    BY <1>5, Zenon DEF PasoCP, TomarReady, PasarAExec
  <2>2. CASE \E q : hilo' = [hilo EXCEPT ![t].en = "despacha", ![t].pid = q]
    <3>1. PICK q : hilo' = [hilo EXCEPT ![t].en = "despacha", ![t].pid = q]
      BY <2>2
    <3>. QED  BY <1>t, <3>1 DEF Locales
  <2>. QED  BY <1>t, <2>1, <2>2 DEF Terminar, Seguir, EnReposo
<1>. QED  BY <1>2, <1>3, <1>4, <1>5 DEF Paso

\* Who serves an IO after a step: who did, or the thread that the block starts.
LEMMA NuevoSirve ==
  ASSUME Inv, InvLugar, NEW t \in Hilos, Paso(t), NEW u \in HilosIO, SirveIO(hilo'[u])
  PROVE  \/ SirveIO(hilo[u])
         \/ /\ t \in HilosCpu /\ EntrarABlock(t) /\ Orden(Pid(t)).op = "IO"
            /\ u = HiloIO(Pid(t), bloqueo_id[Pid(t)]) /\ u[2] = Pid(t) /\ u # t
<1>t. /\ TipoHilos /\ hilo = [v \in Hilos |-> hilo[v]] /\ u \in Hilos /\ hilo[u] \in Locales
      /\ hilo[u].tras \in Regresos /\ hilo[u].luego \in Continuaciones
  BY EnPunto, HilosDistintos DEF Inv, TipoHilos, LocalesOK
<1>1. CASE Despierta(hilo'[u], "fin_io")
  <2>1. \/ hilo[u].en \in {"desbloquea", "desbloquea_susp"} /\ hilo[u].tras = "fin_io"
        \/ SirveIO(hilo[u])
    BY <1>t, <1>1, NuevoDespierta DEF Despierta
  <2>. QED  BY <2>1 DEF SirveIO, Despierta
<1>2. CASE hilo'[u].en \in PuntosIO /\ u # t
  <2>1. CASE hilo'[u] = hilo[u]
    BY <1>2, <2>1 DEF SirveIO
  <2>2. CASE hilo'[u] # hilo[u]
    <3>1. t \in HilosCpu /\ EntrarABlock(t) /\ u[2] = Pid(t)
      BY <1>t, <1>2, <2>2, Quietos DEF InvLugar
    <3>2. u \notin {HiloTimer(Pid(t), bloqueo_id[Pid(t)])}
      BY DEF HilosIO, HiloIO, HiloTimer
    <3>3. u \in (IF Orden(Pid(t)).op = "IO" THEN {HiloIO(Pid(t), bloqueo_id[Pid(t)])} ELSE {})
      BY <1>t, <1>2, <2>2, <3>1, <3>2 DEF EntrarABlock
    <3>. QED  BY <1>2, <3>1, <3>3
  <2>. QED  BY <2>1, <2>2
<1>3. CASE hilo'[u].en \in PuntosIO /\ u = t
  <2>1. CASE PasoIO(t)
    <3>1. hilo[t].en \in PuntosIO \/ TerminarIO(t)
      BY <2>1 DEF PasoIO, EsperarDispositivo, TomarDispositivo, PedirDispositivo, LeerOK, FallarIO,
         LiberarDispositivo, PostearDispositivo, PuntosIO, UsaDispositivo
    <3>2. ~ TerminarIO(t)
      BY <1>t, <1>3, LlamadaEvento DEF TerminarIO, Terminar, Seguir, EnReposo, PuntosIO, UsaDispositivo
    <3>. QED  BY <1>3, <3>1, <3>2 DEF SirveIO
  <2>2. CASE ~ PasoIO(t)
    <3>1. PasoComun(t) /\ t \notin HilosTimer
      BY <1>3, <2>2, HilosDistintos DEF Paso
    <3>. USE DEF PuntosIO, UsaDispositivo
    <3>2. CASE Dessuspender(t)
      <4>1. PICK q : /\ hilo[t].en = "candidatos"
                     /\ hilo' = hilo \/ hilo' = [hilo EXCEPT ![t].en = "vuelve", ![t].pid = q]
        BY <3>2, Zenon DEF Dessuspender
      <4>. QED  BY <1>t, <1>3, <4>1 DEF Locales
    <3>3. CASE DesbloquearBlock(t) \/ DesbloquearSusp(t) \/ Encolar(t)
      BY <1>t, <1>3, <3>3 DEF DesbloquearBlock, DesbloquearSusp, Encolar, Ir, Locales, Regresos
    <3>4. CASE TomarEvento(t) \/ FinDeCandidatos(t)
      BY <1>t, <1>3, <3>4, LlamadaIr DEF TomarEvento, FinDeCandidatos
    <3>5. CASE Volver(t)
      BY <1>t, <1>3, <3>5, LlamadaIr, LlamadaEncolar DEF Volver
    <3>6. CASE ReintentarEspera(t)
      <4>1. hilo[t].en = "esperas" /\ (hilo' = hilo \/ LlamarDesbloquear(t, Head(evento.esperas), "esperas"))
        BY <3>6 DEF ReintentarEspera
      <4>. QED  BY <1>t, <1>3, <4>1, LlamadaDesbloquear
    <3>7. CASE SoltarEvento(t)
      BY <1>t, <1>3, <3>7 DEF SoltarEvento, Seguir, EnReposo, Continuaciones
    <3>. QED  BY <3>1, <3>2, <3>3, <3>4, <3>5, <3>6, <3>7 DEF PasoComun, PasoMedianoPlazo, VencerTimer, Suspender
  <2>. QED  BY <2>1, <2>2
<1>. QED  BY <1>1, <1>2, <1>3 DEF SirveIO

\* What a process that is woken was waiting for says who wakes it.
LEMMA QuienLevanta ==
  ASSUME Inv, InvEspera, NEW t \in Hilos, NEW p \in Pids, Levanta(t, p)
  PROVE  /\ Orden(p).op = "IO" => t \in HilosIO /\ t[2] = p /\ Despierta(hilo[t], "fin_io")
         /\ Orden(p).op = "MUTEX_LOCK" => Despierta(hilo[t], "toma")
         /\ Orden(p).op = "MEM_ALLOC" => Despierta(hilo[t], "esperas")
<1>1. CASE Despierta(hilo[t], "fin_io")
  <2>1. t \in HilosIO /\ p = t[2] /\ SirveIO(hilo[t])
    BY <1>1 DEF InvEspera, InvEsperaIO, Levanta, SirveIO
  <2>. QED  BY <1>1, <2>1 DEF InvEspera, InvEsperaIO
<1>2. CASE Despierta(hilo[t], "toma")
  <2>1. PidioLock(p, hilo[t].mtx)
    BY <1>2 DEF InvEspera, InvEsperaMutex, Levanta
  <2>. QED  BY <1>2, <2>1 DEF PidioLock
<1>3. CASE Despierta(hilo[t], "esperas")
  <2>1. Orden(p).op = "MEM_ALLOC"
    BY <1>3 DEF InvEspera, InvEsperaMemoria, Levanta
  <2>. QED  BY <1>3, <2>1
<1>. QED  BY <1>1, <1>2, <1>3 DEF InvEspera, InvDespierta, Levanta, Despierta

LEMMA PasoDespierta ==
  ASSUME Inv, InvEspera, NEW t \in Hilos, Paso(t)
  PROVE  InvDespierta'
<1>1. ASSUME NEW u \in Hilos, hilo'[u].en \in {"desbloquea", "desbloquea_susp"}
      PROVE  hilo'[u].tras \in {"fin_io", "toma", "esperas"}
  BY <1>1, NuevoDespierta DEF InvEspera, InvDespierta
<1>. QED  BY <1>1 DEF InvDespierta

LEMMA PasoEsperaIO ==
  ASSUME Inv, InvPuntos, InvPuntos', InvLugar, InvEspera, [Next]_vars, NEW t \in Hilos, Paso(t)
  PROVE  InvEsperaIO'
<1>e. InvEsperaIO
  BY DEF InvEspera
<1>1. ASSUME NEW u \in Hilos, Despierta(hilo'[u], "fin_io")
      PROVE  u \in HilosIO /\ hilo'[u].pid = u[2]
  <2>1. \/ Despierta(hilo[u], "fin_io") /\ hilo'[u].pid = hilo[u].pid
        \/ u \in HilosIO /\ hilo'[u].pid = u[2]
    BY <1>1, NuevoDespierta DEF Despierta
  <2>. QED  BY <1>e, <2>1 DEF InvEsperaIO
<1>2. ASSUME NEW u \in HilosIO, SirveIO(hilo'[u])
      PROVE  u[2] \in Dormidos' /\ Orden(u[2])'.op = "IO"
  <2>t. u[2] \in Pids /\ u \in Hilos
    BY HilosDistintos
  <2>1. CASE SirveIO(hilo[u])
    <3>1. u[2] \in Dormidos /\ Orden(u[2]).op = "IO"
      BY <1>e, <2>1 DEF InvEsperaIO
    <3>2. Parado(u[2]) /\ (u[2] \in Dormidos' \/ Levanta(t, u[2]))
      BY <2>t, <3>1, DormidoQueda
    <3>3. Orden(u[2])' = Orden(u[2])
      BY <2>t, <3>2, OrdenQueda
    <3>4. CASE Levanta(t, u[2])
      <4>1. t \in HilosIO /\ t[2] = u[2] /\ SirveIO(hilo[t])
        BY <2>t, <3>1, <3>4, QuienLevanta DEF SirveIO
      <4>2. t = u
        BY <1>e, <2>1, <4>1 DEF InvEsperaIO
      <4>. QED  BY <1>2, <3>4, <4>2 DEF Levanta, SirveIO, Despierta
    <3>. QED  BY <3>1, <3>2, <3>3, <3>4
  <2>2. CASE t \in HilosCpu /\ EntrarABlock(t) /\ Orden(Pid(t)).op = "IO" /\ u[2] = Pid(t)
    <3>1. u[2] \in Dormidos' /\ paso' = paso /\ config' = config
      BY <2>2, ConfigFija DEF EntrarABlock, Dormidos
    <3>. QED  BY <2>2, <3>1 DEF Orden
  <2>. QED  BY <1>2, <2>1, <2>2, NuevoSirve
<1>3. ASSUME NEW u \in HilosIO, NEW v \in HilosIO, SirveIO(hilo'[u]), SirveIO(hilo'[v]), u[2] = v[2]
      PROVE  u = v
  <2>1. ASSUME NEW x \in HilosIO, NEW y \in HilosIO, SirveIO(hilo[x]), x[2] = y[2],
               t \in HilosCpu, EntrarABlock(t), y[2] = Pid(t)
        PROVE  FALSE
    <3>1. x[2] \in Dormidos /\ x[2] \in Pids
      BY <1>e, <2>1, HilosDistintos DEF InvEsperaIO
    <3>2. t[2] \in Cpus /\ Entra(t[2]) /\ cpu[t[2]] = x[2]
      BY <2>1, HilosDistintos DEF EntrarABlock, Entra, Pid
    <3>. QED  BY <3>1, <3>2 DEF InvLugar, InvRafagas, InvListas, Dormidos
  <2>2. CASE SirveIO(hilo[u]) /\ SirveIO(hilo[v])
    BY <1>e, <1>3, <2>2 DEF InvEsperaIO
  <2>3. CASE ~ SirveIO(hilo[u]) /\ ~ SirveIO(hilo[v])
    BY <1>3, <2>3, NuevoSirve
  <2>4. CASE SirveIO(hilo[u]) /\ ~ SirveIO(hilo[v])
    BY <1>3, <2>1, <2>4, NuevoSirve
  <2>5. CASE ~ SirveIO(hilo[u]) /\ SirveIO(hilo[v])
    BY <1>3, <2>1, <2>5, NuevoSirve
  <2>. QED  BY <2>2, <2>3, <2>4, <2>5
<1>4. ASSUME NEW u \in HilosIO, SirveIO(hilo'[u])
      PROVE  (u[2] \in Dormidos /\ Orden(u[2]).op = "IO")'
  BY <1>2, <1>4
<1>. QED  BY <1>1, <1>3, <1>4 DEF InvEsperaIO

\* Who waits for a mutex after a step: who did, but for who was handed it, and who
\* has just found it taken.
LEMMA CambiaBloqueados ==
  ASSUME Inv, InvPuntos, InvPuntos', NEW t \in Hilos, Paso(t), ~ UNCHANGED bloqueados
  PROVE  /\ t \in HilosCpu
         /\ \/ /\ PedirMutex(t)
               /\ \E m \in Mutexes :
                    /\ bloqueados' = [bloqueados EXCEPT ![m] = Append(@, Pid(t))]
                    /\ PidioLock(Pid(t), m)' /\ Parado(Pid(t))'
                    /\ dueno[m] # 0
            \/ /\ Ceder(t) /\ hilo[t].mtx \in Mutexes /\ bloqueados[hilo[t].mtx] # <<>>
               /\ bloqueados' = [bloqueados EXCEPT ![hilo[t].mtx] = Tail(@)]
<1>1. t \in HilosCpu /\ PasoCpu(t)
  BY SMTT(40) DEF Paso, PasoComun, PasoIO, PasoCP, TomarReady, PasarAExec, varsM
<1>2. PedirMutex(t) \/ Ceder(t)
  BY <1>1 DEF PasoCpu, PedirBloqueoIO, FinDeRafaga, PedirMemoria, DevolverMemoria, BuscarDueno, Buscar, Heredar,
     DevolverMutex, AnotarDespertado, Finalizar, LiberarMutex, FinalizarKM, SalirDeExec, EntrarABlock, AnotarEspera,
     LiberarCpu, EmpezarUnlock, QuitarDeTomados, AnotarTomado, varsM
<1>t. /\ bloqueados \in [Mutexes -> Seq(Pids)] /\ t[2] \in Cpus /\ HiloCpu(t[2]) = t
      /\ TipoHilos /\ hilo = [v \in Hilos |-> hilo[v]] /\ hilo[t] \in Locales
  BY <1>1, HilosDistintos DEF Inv, TypeOKMutex, TipoHilos, LocalesOK
<1>3. CASE PedirMutex(t)
  <2>1. Recibir(t, "MUTEX_LOCK") /\ EsperarMutex(Proxima(Pid(t)).arg, Pid(t))
        /\ hilo' = [hilo EXCEPT ![t].en = "busca_exec", ![t].pid = dueno[Proxima(Pid(t)).arg]]
    BY <1>3 DEF PedirMutex, TomarMutex
  <2>2. PICK p \in Pids, m \in Mutexes : p = Pid(t) /\ m = Proxima(p).arg /\ hilo[t].en = "reposo"
    BY <1>1, <2>1, PidRecibido
  <2>3. bloqueados' = [bloqueados EXCEPT ![m] = Append(@, p)] /\ dueno[m] # 0
    BY <2>1, <2>2 DEF EsperarMutex
  <2>4. cpu' = cpu /\ config' = config
    BY <1>3, <2>1 DEF Recibir, PedirMutex, pcbs
  <2>5. PidioLock(p, m)'
    <3>1. paso'[p] = paso[p] + 1
      BY <2>1, <2>2 DEF Recibir, Inv, TipoPcbs
    <3>2. config'.guion[p][paso'[p]] = config.guion[p][paso[p] + 1]
      BY <2>4, <3>1
    <3>3. Proxima(p).op = "MUTEX_LOCK"
      BY <2>1, <2>2 DEF Recibir
    <3>4. Proxima(p) \in Instruccion
      <4>1. config.guion[p] \in Seq(Instruccion) /\ paso[p] \in Nat /\ paso[p] < Len(config.guion[p])
        BY <2>1, <2>2, ConfigTipos DEF Recibir, Inv, TipoPcbs
      <4>. QED  BY <4>1, ElementOfSeq, LenProperties DEF Proxima
    <3>5. Proxima(p) = [op |-> "MUTEX_LOCK", arg |-> Proxima(p).arg]
      BY <3>3, <3>4 DEF Instruccion
    <3>6. config.guion[p][paso[p] + 1] = [op |-> "MUTEX_LOCK", arg |-> m]
      BY <2>2, <3>5 DEF Proxima
    <3>. QED  BY <3>2, <3>6 DEF PidioLock, Orden
  <2>6. hilo'[t].en = "busca_exec" /\ hilo'[t].luego = "reposo"
    <3>1. hilo'[t].en = "busca_exec"
      BY <1>t, <2>1 DEF Locales
    <3>. QED  BY <1>t, <3>1, HilosDistintos DEF InvPuntos, SinLlamada
  <2>7. Busca(t[2])' /\ cpu'[t[2]] = p
    BY <1>t, <2>2, <2>4, <2>6, ProcesosOK DEF Busca, Atiende, Solto, Buscando, Pid
  <2>8. Parado(p)'
    BY <1>t, <2>7 DEF Parado
  <2>9. /\ bloqueados' = [bloqueados EXCEPT ![m] = Append(@, Pid(t))]
        /\ PidioLock(Pid(t), m)' /\ Parado(Pid(t))' /\ dueno[m] # 0
    <3>1. Pid(t)' = p
      BY <2>7 DEF Pid
    <3>. QED  BY <2>2, <2>3, <2>5, <2>8, <3>1 DEF PidioLock, Parado, Orden
  <2>. QED  BY <1>1, <1>3, <2>9
<1>4. CASE Ceder(t)
  <2>1. hilo[t].mtx \in Mutexes
    BY <1>4, <1>t, EnPunto DEF Ceder, ConMutex
  <2>2. bloqueados' = [bloqueados EXCEPT ![hilo[t].mtx] = IF @ = <<>> THEN @ ELSE Tail(@)]
    BY <1>4 DEF Ceder, CederMutex
  <2>3. bloqueados[hilo[t].mtx] # <<>>
    BY <1>t, <2>1, <2>2
  <2>. QED  BY <1>1, <1>4, <2>1, <2>2, <2>3
<1>. QED  BY <1>2, <1>3, <1>4

LEMMA PasoEsperaMutex ==
  ASSUME Inv, InvPuntos, InvPuntos', InvLugar, InvEspera, [Next]_vars, NEW t \in Hilos, Paso(t)
  PROVE  InvEsperaMutex'
<1>e. InvEsperaMutex /\ InvDespierta
  BY DEF InvEspera
<1>b. bloqueados \in [Mutexes -> Seq(Pids)] /\ TipoHilos
  BY DEF Inv, TypeOKMutex
<1>q. ASSUME NEW m \in Mutexes, NEW p \in ToSet(bloqueados[m]) PROVE p \in Pids
  BY <1>b, <1>q, ElementOfSeq, LenProperties DEF ToSet
\* The queues, whatever the step does to them
<1>1. ASSUME NEW m \in Mutexes
      PROVE  /\ IsInjective(bloqueados'[m])
             /\ \A p \in ToSet(bloqueados'[m]) :
                  \/ p \in ToSet(bloqueados[m])
                  \/ PidioLock(p, m)' /\ Parado(p)' /\ ~ Parado(p) /\ p \in Pids
  <2>0. bloqueados[m] \in Seq(Pids) /\ IsInjective(bloqueados[m])
    BY <1>b, <1>e DEF InvEsperaMutex
  <2>1. CASE bloqueados'[m] = bloqueados[m]
    BY <2>0, <2>1
  <2>2. CASE PedirMutex(t) /\ t \in HilosCpu /\ bloqueados'[m] # bloqueados[m]
    <3>1. PICK n \in Mutexes : /\ bloqueados' = [bloqueados EXCEPT ![n] = Append(@, Pid(t))]
                               /\ PidioLock(Pid(t), n)' /\ Parado(Pid(t))'
      BY <2>2, CambiaBloqueados DEF PedirMutex, Ceder, Recibir
    <3>2. m = n /\ bloqueados'[m] = Append(bloqueados[m], Pid(t))
      BY <1>b, <2>2, <3>1
    <3>3. Recibir(t, "MUTEX_LOCK") /\ UNCHANGED cpu
      BY <2>2 DEF PedirMutex, Recibir
    <3>4. PICK p \in Pids : p = Pid(t) /\ ~ Parado(Pid(t)) /\ Pid(t)' = p
      BY <2>2, <3>3, PidRecibido, NoPide DEF Pid
    <3>5. ~ Parado(p) /\ PidioLock(p, m)' /\ Parado(p)'
      BY <3>1, <3>2, <3>4 DEF PidioLock, Parado, Orden
    <3>6. p \notin ToSet(bloqueados[m])
      BY <1>e, <3>5 DEF InvEsperaMutex
    <3>. QED  BY <2>0, <3>2, <3>4, <3>5, <3>6, ToSetAppend, AppendSinRepetir
  <2>3. CASE bloqueados[hilo[t].mtx] # <<>> /\ bloqueados' = [bloqueados EXCEPT ![hilo[t].mtx] = Tail(@)]
             /\ bloqueados'[m] # bloqueados[m]
    <3>1. m = hilo[t].mtx /\ bloqueados'[m] = Tail(bloqueados[m]) /\ bloqueados[m] # <<>>
      BY <1>b, <2>3
    <3>. QED  BY <2>0, <3>1, CabezaYCola
  <2>. QED  BY <2>1, <2>2, <2>3, CambiaBloqueados
\* A process handed over by one thread is woken by no other.
<1>2. ASSUME NEW m \in Mutexes, NEW p \in ToSet(bloqueados[m])
      PROVE  PidioLock(p, m)' /\ Parado(p)'
  <2>1. p \in Pids /\ PidioLock(p, m) /\ Parado(p)
    BY <1>e, <1>q, <1>2 DEF InvEsperaMutex
  <2>2. PidioLock(p, m)'
    BY <2>1, OrdenQueda DEF PidioLock
  <2>3. ~ Levanta(t, p)
    <3>1. SUFFICES ASSUME Levanta(t, p) PROVE FALSE
      OBVIOUS
    <3>2. Despierta(hilo[t], "toma") /\ hilo[t].pid = p
      BY <2>1, <3>1, QuienLevanta DEF PidioLock, Levanta
    <3>3. PidioLock(p, hilo[t].mtx) /\ p \notin ToSet(bloqueados[hilo[t].mtx])
      BY <1>e, <3>2 DEF InvEsperaMutex
    <3>4. hilo[t].mtx = m
      BY <2>1, <3>3 DEF PidioLock
    <3>. QED  BY <1>2, <3>3, <3>4
  <2>. QED  BY <2>1, <2>2, <2>3, ParadoQueda
<1>3. ASSUME NEW u \in Hilos, Despierta(hilo'[u], "toma")
      PROVE  \/ Despierta(hilo[u], "toma") /\ hilo'[u].pid = hilo[u].pid /\ hilo'[u].mtx = hilo[u].mtx
             \/ /\ u = t /\ t \in HilosCpu /\ Ceder(t) /\ hilo'[u].mtx = hilo[t].mtx /\ hilo[t].mtx \in Mutexes
                /\ bloqueados[hilo[t].mtx] # <<>> /\ hilo'[u].pid = Head(bloqueados[hilo[t].mtx])
  <2>1. Ceder(t) => hilo[t].mtx \in Mutexes
    BY <1>b, EnPunto DEF Ceder, ConMutex
  <2>. QED  BY <1>3, <2>1, NuevoDespierta DEF Despierta
<1>4. ASSUME t \in HilosCpu, Ceder(t), NEW m \in Mutexes, m = hilo[t].mtx, bloqueados[m] # <<>>
      PROVE  /\ Head(bloqueados[m]) \in ToSet(bloqueados[m])
             /\ Head(bloqueados[m]) \notin ToSet(bloqueados'[m])
  <2>1. bloqueados'[m] = Tail(bloqueados[m])
    BY <1>b, <1>4 DEF Ceder, CederMutex
  <2>2. bloqueados[m] \in Seq(Pids) /\ IsInjective(bloqueados[m])
    BY <1>b, <1>e DEF InvEsperaMutex
  <2>. QED  BY <1>4, <2>1, <2>2, CabezaYCola
<1>5. ASSUME NEW u \in Hilos, Despierta(hilo'[u], "toma")
      PROVE  /\ (PidioLock(hilo[u].pid, hilo[u].mtx) /\ Parado(hilo[u].pid))'
             /\ hilo'[u].pid \notin ToSet(bloqueados'[hilo'[u].mtx])
  <2>1. CASE Despierta(hilo[u], "toma") /\ hilo'[u].pid = hilo[u].pid /\ hilo'[u].mtx = hilo[u].mtx
    <3>1. PICK p \in Pids, m \in Mutexes : p = hilo[u].pid /\ m = hilo[u].mtx
      BY <2>1 DEF Inv, TipoHilos, LocalesOK, Despierta, ConPid
    <3>2. PidioLock(p, m) /\ Parado(p) /\ p \notin ToSet(bloqueados[m])
      BY <1>e, <2>1, <3>1 DEF InvEsperaMutex
    <3>3. PidioLock(p, m)'
      BY <3>2, OrdenQueda DEF PidioLock
    <3>4. ~ Levanta(t, p)
      <4>1. SUFFICES ASSUME Levanta(t, p) PROVE FALSE
        OBVIOUS
      <4>2. Despierta(hilo[t], "toma") /\ hilo[t].pid = p
        BY <3>2, <4>1, QuienLevanta DEF PidioLock, Levanta
      <4>3. t = u
        BY <1>e, <2>1, <3>1, <4>2 DEF InvEsperaMutex
      <4>. QED  BY <1>5, <4>1, <4>3 DEF Levanta, Despierta
    <3>5. Parado(p)'
      BY <3>2, <3>4, ParadoQueda
    <3>6. p \notin ToSet(bloqueados'[m])
      BY <1>1, <3>2, SMTT(40)
    <3>. QED  BY <2>1, <3>1, <3>3, <3>5, <3>6 DEF PidioLock, Orden, Parado
  <2>2. CASE /\ u = t /\ t \in HilosCpu /\ Ceder(t) /\ hilo'[u].mtx = hilo[t].mtx /\ hilo[t].mtx \in Mutexes
             /\ bloqueados[hilo[t].mtx] # <<>> /\ hilo'[u].pid = Head(bloqueados[hilo[t].mtx])
    <3>1. PICK m \in Mutexes : m = hilo[t].mtx
      BY <2>2
    <3>2. PICK p : p = Head(bloqueados[m])
      OBVIOUS
    <3>3. p \in ToSet(bloqueados[m]) /\ p \notin ToSet(bloqueados'[m])
      BY <1>4, <2>2, <3>1, <3>2
    <3>4. PidioLock(p, m)' /\ Parado(p)'
      BY <1>2, <3>3
    <3>. QED  BY <2>2, <3>1, <3>2, <3>3, <3>4 DEF PidioLock, Orden, Parado
  <2>. QED  BY <1>3, <1>5, <2>1, <2>2
<1>6. ASSUME NEW u \in Hilos, NEW v \in Hilos, Despierta(hilo'[u], "toma"), Despierta(hilo'[v], "toma"),
             hilo'[u].pid = hilo'[v].pid
      PROVE  u = v
  <2>1. ASSUME NEW x \in Hilos, Despierta(hilo[x], "toma"), t \in HilosCpu, Ceder(t), hilo[t].mtx \in Mutexes,
               bloqueados[hilo[t].mtx] # <<>>, hilo[x].pid = Head(bloqueados[hilo[t].mtx])
        PROVE  FALSE
    <3>1. PICK m \in Mutexes : m = hilo[t].mtx
      BY <2>1
    <3>2. hilo[x].pid \in ToSet(bloqueados[m])
      BY <1>4, <2>1, <3>1
    <3>3. PidioLock(hilo[x].pid, m) /\ PidioLock(hilo[x].pid, hilo[x].mtx)
          /\ hilo[x].pid \notin ToSet(bloqueados[hilo[x].mtx])
      BY <1>e, <2>1, <3>2 DEF InvEsperaMutex
    <3>4. m = hilo[x].mtx
      BY <3>3 DEF PidioLock
    <3>. QED  BY <3>2, <3>3, <3>4
  <2>2. CASE Despierta(hilo[u], "toma") /\ Despierta(hilo[v], "toma") /\ hilo[u].pid = hilo[v].pid
    BY <1>e, <2>2 DEF InvEsperaMutex
  <2>. QED  BY <1>3, <1>6, <2>1, <2>2
<1>7. \A m \in Mutexes : \A p \in ToSet(bloqueados'[m]) : PidioLock(p, m)' /\ Parado(p)'
  BY <1>1, <1>2
<1>. QED  BY <1>1, <1>5, <1>6, <1>7 DEF InvEsperaMutex

\* Where a step of the mediano plazo, or of desbloquear, leaves its thread.
PuntosMP == {"encola", "desbloquea", "desbloquea_susp", "suspende", "evento", "vuelve"} \cup Regresos \cup Continuaciones

LEMMA PuntosComunes ==
  ASSUME Inv, NEW t \in Hilos, PasoComun(t)
  PROVE  hilo'[t] = hilo[t] \/ hilo'[t].en \in PuntosMP
<1>t. /\ TipoHilos /\ hilo = [v \in Hilos |-> hilo[v]] /\ hilo[t] \in Locales
      /\ hilo[t].tras \in Regresos /\ hilo[t].luego \in Continuaciones
  BY EnPunto DEF Inv, TipoHilos, LocalesOK
<1>. USE DEF PuntosMP
<1>1. CASE DesbloquearBlock(t) \/ DesbloquearSusp(t) \/ Encolar(t)
  BY <1>t, <1>1 DEF DesbloquearBlock, DesbloquearSusp, Encolar, Ir, Locales
<1>2. CASE Dessuspender(t)
  <2>1. PICK q : hilo' = hilo \/ hilo' = [hilo EXCEPT ![t].en = "vuelve", ![t].pid = q]
    BY <1>2, Zenon DEF Dessuspender
  <2>. QED  BY <1>t, <2>1 DEF Locales
<1>3. CASE TomarEvento(t) \/ FinDeCandidatos(t) \/ Volver(t)
  BY <1>t, <1>3, LlamadaIr, LlamadaEncolar DEF TomarEvento, FinDeCandidatos, Volver, Regresos
<1>4. CASE ReintentarEspera(t)
  <2>1. hilo' = hilo \/ LlamarDesbloquear(t, Head(evento.esperas), "esperas")
    BY <1>4 DEF ReintentarEspera
  <2>. QED  BY <1>t, <2>1, LlamadaDesbloquear
<1>5. CASE SoltarEvento(t)
  BY <1>t, <1>5 DEF SoltarEvento, Seguir, EnReposo
<1>6. CASE VencerTimer(t) \/ Suspender(t)
  <2>1. Ir(t, "suspende") \/ Terminar(t) \/ LlamarEvento(t, "reposo")
    BY <1>6 DEF VencerTimer, Suspender
  <2>. QED  BY <1>t, <2>1, LlamadaIr, LlamadaEvento DEF Terminar, Seguir, EnReposo, Regresos
<1>. QED  BY <1>1, <1>2, <1>3, <1>4, <1>5, <1>6 DEF PasoComun, PasoMedianoPlazo

\* A CPU keeps its process while its thread is busy with it.
LEMMA CpuQueda ==
  ASSUME Inv, InvPuntos, NEW t \in Hilos, Paso(t), NEW c \in Cpus, hilo[HiloCpu(c)].en # "reposo", t # HiloCpu(c)
  PROVE  cpu'[c] = cpu[c] /\ cpu[c] \in Pids
<1>t. cpu \in [Cpus -> Pids \cup {NADA}] /\ cpu[c] \in Pids /\ cpu[c] # NADA
  BY ProcesosOK DEF Inv, TipoCpu
<1>1. CASE t \in HilosCpu /\ LiberarCpu(t)
  <2>1. t[2] # c
    BY <1>1, HilosDistintos
  <2>. QED  BY <1>t, <1>1, <2>1 DEF LiberarCpu
<1>2. CASE t = HiloCP /\ PasarAExec
  BY <1>t, <1>2, CpuElegida
<1>3. CASE ~ (t \in HilosCpu /\ LiberarCpu(t)) /\ ~ (t = HiloCP /\ PasarAExec)
  BY <1>t, <1>3, CpuIgual
<1>. QED  BY <1>1, <1>2, <1>3

\* Who is about to note a pending allocation after a step: who was, and the thread of
\* a process that has just entered BLOCK for one.
LEMMA NuevoAnota ==
  ASSUME Inv, InvPuntos, InvLugar, NEW t \in Hilos, Paso(t), NEW c \in Cpus, Anota(c)'
  PROVE  \/ Anota(c) /\ cpu'[c] = cpu[c] /\ cpu[c] \in Pids /\ t # HiloCpu(c)
         \/ /\ t = HiloCpu(c) /\ t \in HilosCpu /\ EntrarABlock(t) /\ cpu' = cpu /\ cpu[c] = Pid(t)
            /\ Pid(t) \in Pids /\ Orden(Pid(t)).op = "MEM_ALLOC"
<1>t. /\ HiloCpu(c) \in HilosCpu /\ HiloCpu(c) \in Hilos /\ HiloCpu(c)[2] = c /\ HiloCpu(c) # HiloCP
      /\ HiloCpu(c) \notin HilosIO
      /\ TipoHilos /\ hilo = [v \in Hilos |-> hilo[v]] /\ hilo[t] \in Locales /\ hilo[t].luego \in Continuaciones
  BY HilosDistintos, EnPunto DEF Inv, TipoHilos, LocalesOK
<1>1. CASE t # HiloCpu(c)
  <2>1. hilo'[HiloCpu(c)] = hilo[HiloCpu(c)]
    BY <1>t, <1>1, Quietos DEF InvLugar
  <2>2. hilo[HiloCpu(c)].en = "anota"
    BY <2>1 DEF Anota
  <2>. QED  BY <1>1, <2>2, CpuQueda DEF Anota
<1>2. CASE t = HiloCpu(c)
  <2>0. hilo'[t].en = "anota"
    BY <1>2 DEF Anota
  <2>1. CASE PasoComun(t)
    <3>1. hilo[t].en = "anota"
      BY <1>t, <2>0, <2>1, PuntosComunes DEF PuntosMP, Regresos, Continuaciones
    <3>. QED  BY <2>1, <3>1, HilosDistintos DEF PasoComun, PasoMedianoPlazo, Encolar, DesbloquearBlock, DesbloquearSusp,
              VencerTimer, Suspender, TomarEvento, Dessuspender, Volver, FinDeCandidatos, ReintentarEspera, SoltarEvento
  <2>2. CASE EntrarABlock(t)
    <3>1. Orden(Pid(t)).op = "MEM_ALLOC"
      BY <1>t, <1>2, <2>0, <2>2 DEF EntrarABlock, Locales
    <3>2. Pid(t) \in Pids /\ cpu[c] = Pid(t) /\ cpu' = cpu
      BY <1>t, <1>2, <2>2, PidAtendido DEF EntrarABlock, Pid
    <3>. QED  BY <1>t, <1>2, <2>2, <3>1, <3>2
  <2>3. CASE PasoCpu(t) /\ ~ EntrarABlock(t)
    <3>1. CASE PedirBloqueoIO(t) \/ Finalizar(t) \/ BuscarDueno(t) \/ Heredar(t) \/ SalirDeExec(t) \/ AnotarEspera(t)
      <4>1. \E e \in {"a_block", "entra_block", "libera_cpu", "hereda", "busca_ready", "busca_block", "libera_mutex"} : Ir(t, e)
        BY <3>1 DEF PedirBloqueoIO, Finalizar, BuscarDueno, Buscar, Heredar, SalirDeExec, AnotarEspera
      <4>. QED  BY <1>t, <2>0, <4>1, LlamadaIr
    <3>2. CASE FinDeRafaga(t)
      <4>1. LlamarEncolar(t, Pid(t), "libera_cpu")
        BY <3>2 DEF FinDeRafaga
      <4>. QED  BY <1>t, <2>0, <4>1, LlamadaEncolar
    <3>3. CASE PedirMemoria(t) \/ DevolverMemoria(t)
      <4>1. /\ hilo[t].en = "reposo"
            /\ hilo' = hilo \/ Ir(t, "a_block") \/ LlamarEvento(t, "reposo")
        BY <3>3, Zenon DEF PedirMemoria, DevolverMemoria, Recibir
      <4>. QED  BY <1>t, <2>0, <4>1, LlamadaIr, LlamadaEvento
    <3>4. CASE PedirMutex(t)
      <4>1. PICK q : /\ hilo[t].en = "reposo"
                     /\ hilo' = hilo \/ hilo' = [hilo EXCEPT ![t].en = "busca_exec", ![t].pid = q]
        BY <3>4, Zenon DEF PedirMutex, Recibir
      <4>. QED  BY <1>t, <2>0, <4>1 DEF Locales
    <3>5. CASE DevolverMutex(t) \/ LiberarMutex(t)
      <4>1. CASE DevolverMutex(t)
        BY <1>t, <2>0, <4>1 DEF DevolverMutex, EmpezarUnlock, Locales
      <4>2. CASE LiberarMutex(t)
        BY <1>t, <2>0, <4>2 DEF LiberarMutex, EmpezarUnlock, Locales
      <4>. QED  BY <3>5, <4>1, <4>2
    <3>6. CASE Ceder(t)
      <4>1. (\E q : LlamarDesbloquear(t, q, "toma")) \/ Seguir(t, hilo[t].luego)
        BY <3>6, Zenon DEF Ceder
      <4>. QED  BY <1>t, <2>0, <4>1, LlamadaDesbloquear DEF Seguir, EnReposo, Continuaciones
    <3>7. CASE AnotarDespertado(t) \/ FinalizarKM(t)
      <4>1. LlamarEvento(t, hilo[t].luego) \/ Seguir(t, hilo[t].luego) \/ LlamarEvento(t, "libera_cpu")
        BY <3>7, Zenon DEF AnotarDespertado, FinalizarKM
      <4>2. CASE Seguir(t, hilo[t].luego)
        BY <1>t, <2>0, <4>2 DEF Seguir, EnReposo, Continuaciones
      <4>. QED  BY <1>t, <2>0, <4>1, <4>2, LlamadaEvento
    <3>8. CASE LiberarCpu(t)
      BY <1>t, <2>0, <3>8 DEF LiberarCpu, Terminar, Seguir, EnReposo
    <3>. QED  BY <2>3, <3>1, <3>2, <3>3, <3>4, <3>5, <3>6, <3>7, <3>8 DEF PasoCpu
  <2>. QED  BY <1>t, <1>2, <2>1, <2>2, <2>3 DEF Paso
<1>. QED  BY <1>1, <1>2

\* The pending allocations after a step: those there were, but for the one that is
\* retried, and the one that is noted; the memory event copies them.
LEMMA CambiaEsperas ==
  ASSUME Inv, NEW t \in Hilos, Paso(t)
  PROVE  /\ \/ UNCHANGED lista_espera
            \/ t \in HilosCpu /\ hilo[t].en = "anota" /\ lista_espera' = Append(lista_espera, Pid(t))
               /\ evento'.esperas = evento.esperas
            \/ ReintentarEspera(t) /\ HayLugar /\ lista_espera' = RemoveFirst(lista_espera, Head(evento.esperas))
         /\ \/ evento'.esperas = evento.esperas
            \/ evento'.esperas = <<>>
            \/ evento'.esperas = lista_espera /\ UNCHANGED lista_espera
            \/ ReintentarEspera(t) /\ evento.esperas # <<>> /\ evento'.esperas = Tail(evento.esperas)
         /\ ReintentarEspera(t) => evento.esperas # <<>> /\ evento'.esperas = Tail(evento.esperas)
                                   /\ (HayLugar => lista_espera' = RemoveFirst(lista_espera, Head(evento.esperas)))
<1>t. evento \in [dueno : Hilos \cup {SinHilo}, candidatos : SUBSET [pid : Pids, prioridad : Int, turno : Nat],
                  esperas : Seq(Pids)]
  BY DEF Inv, TipoMemoria
<1>1. CASE PasoComun(t)
  <2>1. CASE ReintentarEspera(t)
    <3>1. /\ evento.esperas # <<>> /\ evento' = [evento EXCEPT !.esperas = Tail(@)]
          /\ \/ HayLugar /\ lista_espera' = RemoveFirst(lista_espera, Head(evento.esperas))
             \/ ~ HayLugar /\ UNCHANGED lista_espera
      BY <2>1 DEF ReintentarEspera
    <3>2. evento'.esperas = Tail(evento.esperas)
      BY <1>t, <3>1
    <3>. QED  BY <2>1, <3>1, <3>2
  <2>2. CASE FinDeCandidatos(t)
    <3>1. evento' = [evento EXCEPT !.esperas = lista_espera] /\ UNCHANGED lista_espera /\ hilo[t].en = "candidatos"
      BY <2>2 DEF FinDeCandidatos
    <3>2. ~ ReintentarEspera(t)
      BY <3>1 DEF ReintentarEspera
    <3>. QED  BY <1>t, <3>1, <3>2
  <2>3. CASE TomarEvento(t) \/ SoltarEvento(t)
    <3>1. evento'.esperas = <<>> /\ UNCHANGED lista_espera
      BY <2>3 DEF TomarEvento, SoltarEvento, SinEvento
    <3>2. ~ ReintentarEspera(t)
      BY <2>3 DEF ReintentarEspera, TomarEvento, SoltarEvento
    <3>. QED  BY <3>1, <3>2
  <2>4. CASE Dessuspender(t)
    <3>1. PICK S : evento' = [evento EXCEPT !.candidatos = S] /\ UNCHANGED lista_espera /\ hilo[t].en = "candidatos"
      BY <2>4 DEF Dessuspender
    <3>2. evento'.esperas = evento.esperas
      BY <1>t, <3>1
    <3>3. ~ ReintentarEspera(t)
      BY <3>1 DEF ReintentarEspera
    <3>. QED  BY <3>1, <3>2, <3>3
  <2>5. CASE Encolar(t) \/ DesbloquearBlock(t) \/ DesbloquearSusp(t) \/ VencerTimer(t) \/ Suspender(t) \/ Volver(t)
    <3>1. UNCHANGED <<lista_espera, evento>> /\ hilo[t].en # "esperas"
      BY <2>5 DEF Encolar, DesbloquearBlock, DesbloquearSusp, VencerTimer, Suspender, Volver
    <3>. QED  BY <3>1, SMTT(40) DEF ReintentarEspera
  <2>. QED  BY <1>1, <2>1, <2>2, <2>3, <2>4, <2>5 DEF PasoComun, PasoMedianoPlazo
<1>2. CASE t \in HilosIO /\ PasoIO(t)
  <2>1. UNCHANGED <<lista_espera, evento>> /\ hilo[t].en # "esperas"
    BY <1>2 DEF PasoIO, EsperarDispositivo, TomarDispositivo, PedirDispositivo, LeerOK, FallarIO,
       LiberarDispositivo, PostearDispositivo, TerminarIO
  <2>. QED  BY <2>1 DEF ReintentarEspera
<1>3. CASE t \in HilosCpu /\ PasoCpu(t)
  <2>1. hilo[t].en # "esperas" /\ UNCHANGED evento
    BY <1>3 DEF PasoCpu, PedirBloqueoIO, FinDeRafaga, PedirMemoria, DevolverMemoria, PedirMutex, BuscarDueno,
       Buscar, Heredar, DevolverMutex, Ceder, AnotarDespertado, Finalizar, LiberarMutex, FinalizarKM,
       SalirDeExec, EntrarABlock, AnotarEspera, LiberarCpu, Recibir
  <2>2. CASE AnotarEspera(t)
    BY <1>3, <2>1, <2>2 DEF AnotarEspera, ReintentarEspera
  <2>3. CASE ~ AnotarEspera(t)
    <3>1. UNCHANGED lista_espera
      BY <1>3, <2>3 DEF PasoCpu, PedirBloqueoIO, FinDeRafaga, PedirMemoria, DevolverMemoria, PedirMutex, BuscarDueno,
         Buscar, Heredar, DevolverMutex, Ceder, AnotarDespertado, Finalizar, LiberarMutex, FinalizarKM,
         SalirDeExec, EntrarABlock, LiberarCpu
    <3>. QED  BY <2>1, <3>1 DEF ReintentarEspera
  <2>. QED  BY <2>2, <2>3
<1>4. CASE t = HiloCP /\ PasoCP
  <2>1. UNCHANGED <<lista_espera, evento>> /\ hilo[t].en # "esperas"
    BY <1>4 DEF PasoCP, TomarReady, PasarAExec
  <2>. QED  BY <2>1 DEF ReintentarEspera
<1>. QED  BY <1>1, <1>2, <1>3, <1>4 DEF Paso

LEMMA PasoEsperaMemoria ==
  ASSUME Inv, InvPuntos, InvPuntos', InvLugar, InvEvento, InvEspera, [Next]_vars, NEW t \in Hilos, Paso(t)
  PROVE  InvEsperaMemoria'
<1>. DEFINE L == lista_espera
            E == evento.esperas
<1>e. InvEsperaMemoria /\ TipoHilos
  BY DEF InvEspera, Inv
<1>l. L \in Seq(Pids) /\ E \in Seq(Pids) /\ IsInjective(L) /\ IsInjective(E) /\ ToSet(E) \subseteq ToSet(L)
      /\ \A p \in ToSet(L) : p \in Pids
  <2>1. L \in Seq(Pids) /\ E \in Seq(Pids)
    BY DEF Inv, TipoColas, TipoMemoria
  <2>2. \A p \in ToSet(L) : p \in Pids
    BY <2>1, ElementOfSeq, LenProperties DEF ToSet
  <2>. QED  BY <1>e, <2>1, <2>2 DEF InvEsperaMemoria
\* Who is in desbloquear for a pending allocation owns the memory event.
<1>u. ASSUME NEW u \in Hilos, NEW v \in Hilos, Despierta(hilo[u], "esperas"),
             Despierta(hilo[v], "esperas") \/ hilo[v].en = "esperas"
      PROVE  u = v
  BY <1>u DEF InvEvento, EnEvento, Despierta
\* A process that waits for memory goes on so, but for the one in the hands of t.
<1>q. ASSUME NEW p \in Pids, p \in Dormidos, Orden(p).op = "MEM_ALLOC",
             ~ (Despierta(hilo[t], "esperas") /\ ~ Despierta(hilo'[t], "esperas") /\ hilo[t].pid = p)
      PROVE  p \in Dormidos' /\ Orden(p)'.op = "MEM_ALLOC"
  <2>1. (p \in Dormidos' \/ Levanta(t, p)) /\ Parado(p)
    BY <1>q, DormidoQueda
  <2>2. ~ Levanta(t, p)
    BY <1>q, QuienLevanta DEF Levanta, Despierta
  <2>3. Orden(p)' = Orden(p)
    BY <1>q, <2>1, OrdenQueda
  <2>. QED  BY <1>q, <2>1, <2>2, <2>3
\* The lists
<1>1. ASSUME ReintentarEspera(t)
      PROVE  /\ Head(E) \in ToSet(E) /\ ToSet(Tail(E)) = ToSet(E) \ {Head(E)} /\ IsInjective(Tail(E))
             /\ HayLugar => IsInjective(L') /\ ToSet(L') = ToSet(L) \ {Head(E)}
             /\ hilo[t].en = "esperas"
  <2>1. E # <<>> /\ (HayLugar => L' = RemoveFirst(L, Head(E))) /\ hilo[t].en = "esperas"
    BY <1>1, CambiaEsperas DEF ReintentarEspera
  <2>2. Head(E) \in ToSet(E) /\ ToSet(Tail(E)) = ToSet(E) \ {Head(E)} /\ IsInjective(Tail(E))
    <3>. HIDE DEF E
    <3>. QED  BY <1>l, <2>1, CabezaYCola
  <2>3. ASSUME HayLugar PROVE IsInjective(L') /\ ToSet(L') = ToSet(L) \ {Head(E)}
    <3>1. L' = RemoveFirst(L, Head(E))
      BY <2>1, <2>3
    <3>2. IsInjective(RemoveFirst(L, Head(E))) /\ ToSet(RemoveFirst(L, Head(E))) = ToSet(L) \ {Head(E)}
      <4>. HIDE DEF L, E
      <4>. QED  BY <1>l, RemoveFirstElementos
    <3>. QED  BY <3>1, <3>2
  <2>. QED  BY <2>1, <2>2, <2>3
<1>a. ASSUME t \in HilosCpu, hilo[t].en = "anota", L' = Append(L, Pid(t))
      PROVE  /\ Pid(t) \in Pids /\ Anota(t[2]) /\ t[2] \in Cpus /\ cpu[t[2]] = Pid(t)
             /\ Pid(t) \notin ToSet(L) /\ IsInjective(L') /\ ToSet(L') = ToSet(L) \cup {Pid(t)}
  <2>1. Pid(t) \in Pids /\ Anota(t[2]) /\ t[2] \in Cpus /\ cpu[t[2]] = Pid(t)
    BY <1>a, PidAtendido, HilosDistintos DEF Anota, Pid
  <2>2. Pid(t) \notin ToSet(L)
    BY <1>e, <2>1 DEF InvEsperaMemoria
  <2>3. IsInjective(Append(L, Pid(t))) /\ ToSet(Append(L, Pid(t))) = ToSet(L) \cup {Pid(t)}
    <3>. HIDE DEF L
    <3>. QED  BY <1>l, <2>1, <2>2, ToSetAppend, AppendSinRepetir
  <2>. QED  BY <1>a, <2>1, <2>2, <2>3
<1>2. /\ IsInjective(L')
      /\ \A p \in ToSet(L') : \/ p \in ToSet(L)
                              \/ t \in HilosCpu /\ hilo[t].en = "anota" /\ p = Pid(t)
  <2>1. CASE UNCHANGED L
    BY <1>l, <2>1
  <2>2. CASE t \in HilosCpu /\ hilo[t].en = "anota" /\ L' = Append(L, Pid(t))
    BY <1>a, <2>2
  <2>3. CASE ReintentarEspera(t) /\ HayLugar
    BY <1>1, <2>3
  <2>. QED  BY <2>1, <2>2, <2>3, CambiaEsperas
<1>3. IsInjective(E') /\ ToSet(E') \subseteq ToSet(L')
  <2>0. IsInjective(<<>>) /\ ToSet(<<>>) = {}
    BY DEF IsInjective, ToSet
  <2>1. CASE ReintentarEspera(t)
    <3>1. E' = Tail(E) /\ (HayLugar \/ UNCHANGED L)
      <4>1. HayLugar \/ UNCHANGED L
        BY <2>1 DEF ReintentarEspera
      <4>. QED  BY <2>1, <4>1, CambiaEsperas
    <3>. QED  BY <1>l, <1>1, <2>1, <3>1
  <2>2. CASE ~ ReintentarEspera(t)
    <3>1. ToSet(L) \subseteq ToSet(L')
      BY <1>a, <2>2, CambiaEsperas
    <3>2. CASE E' = E
      BY <1>l, <3>1, <3>2
    <3>3. CASE E' = <<>>
      BY <2>0, <3>3
    <3>4. CASE E' = L /\ UNCHANGED L
      BY <1>l, <3>4
    <3>. QED  BY <2>2, <3>2, <3>3, <3>4, CambiaEsperas
  <2>. QED  BY <2>1, <2>2
<1>4. ASSUME NEW p \in ToSet(L') PROVE p \in Dormidos' /\ Orden(p)'.op = "MEM_ALLOC"
  <2>1. CASE p \in ToSet(L)
    <3>1. p \in Pids /\ p \in Dormidos /\ Orden(p).op = "MEM_ALLOC"
      BY <1>e, <1>l, <2>1 DEF InvEsperaMemoria
    <3>2. ~ (Despierta(hilo[t], "esperas") /\ hilo[t].pid = p)
      BY <1>e, <2>1 DEF InvEsperaMemoria
    <3>. QED  BY <1>q, <3>1, <3>2
  <2>2. CASE t \in HilosCpu /\ hilo[t].en = "anota" /\ p = Pid(t)
    <3>1. p \in Pids /\ Anota(t[2]) /\ t[2] \in Cpus /\ cpu[t[2]] = p
      BY <2>2, PidAtendido, HilosDistintos DEF Anota, Pid
    <3>2. p \in Dormidos /\ Orden(p).op = "MEM_ALLOC"
      BY <1>e, <3>1 DEF InvEsperaMemoria
    <3>. QED  BY <1>q, <2>2, <3>1, <3>2 DEF Despierta
  <2>. QED  BY <1>2, <2>1, <2>2
<1>5. ASSUME NEW u \in Hilos, Despierta(hilo'[u], "esperas")
      PROVE  /\ (hilo[u].pid \in Dormidos /\ Orden(hilo[u].pid).op = "MEM_ALLOC"
                 /\ hilo[u].pid \notin ToSet(lista_espera))'
             /\ \/ Despierta(hilo[u], "esperas") /\ hilo'[u].pid = hilo[u].pid
                \/ u = t /\ hilo[t].en = "esperas" /\ hilo'[u].pid \in ToSet(L)
  <2>1. CASE Despierta(hilo[u], "esperas") /\ hilo'[u].pid = hilo[u].pid
    <3>1. PICK p \in Pids : p = hilo[u].pid
      BY <1>e, <2>1 DEF TipoHilos, LocalesOK, Despierta, ConPid
    <3>2. p \in Dormidos /\ Orden(p).op = "MEM_ALLOC" /\ p \notin ToSet(L)
      BY <1>e, <2>1, <3>1 DEF InvEsperaMemoria
    <3>3. ~ (Despierta(hilo[t], "esperas") /\ ~ Despierta(hilo'[t], "esperas") /\ hilo[t].pid = p)
      BY <1>5, <1>u, <2>1
    <3>4. p \in Dormidos' /\ Orden(p)'.op = "MEM_ALLOC"
      BY <1>q, <3>2, <3>3
    <3>5. p \notin ToSet(L')
      <4>1. SUFFICES ASSUME p \in ToSet(L') PROVE FALSE
        OBVIOUS
      <4>2. t \in HilosCpu /\ hilo[t].en = "anota" /\ p = Pid(t)
        BY <1>2, <3>2, <4>1
      <4>3. t[2] \in Cpus /\ Anota(t[2]) /\ cpu[t[2]] = p
        BY <4>2, HilosDistintos DEF Anota, Pid
      <4>. QED  BY <1>e, <2>1, <3>1, <4>3 DEF InvEsperaMemoria
    <3>. QED  BY <2>1, <3>1, <3>4, <3>5 DEF Orden
  <2>2. CASE u = t /\ ReintentarEspera(t) /\ HayLugar /\ hilo'[u].pid = Head(E)
    <3>1. PICK p : p = Head(E)
      OBVIOUS
    <3>2. p \in ToSet(E) /\ p \in ToSet(L) /\ p \in Pids /\ p \notin ToSet(L') /\ hilo[t].en = "esperas"
      BY <1>1, <1>l, <2>2, <3>1
    <3>3. p \in Dormidos /\ Orden(p).op = "MEM_ALLOC"
      BY <1>e, <3>2 DEF InvEsperaMemoria
    <3>4. p \in Dormidos' /\ Orden(p)'.op = "MEM_ALLOC"
      BY <1>q, <3>2, <3>3 DEF Despierta
    <3>. QED  BY <2>2, <3>1, <3>2, <3>4 DEF Orden
  <2>. QED  BY <1>5, <2>1, <2>2, NuevoDespierta DEF Despierta
<1>6. ASSUME NEW c \in Cpus, Anota(c)'
      PROVE  /\ (cpu[c] \in Dormidos /\ Orden(cpu[c]).op = "MEM_ALLOC" /\ cpu[c] \notin ToSet(lista_espera))'
             /\ \A u \in Hilos : Despierta(hilo'[u], "esperas") => hilo'[u].pid # cpu'[c]
             /\ cpu'[c] = cpu[c]
             /\ Anota(c) \/ (t = HiloCpu(c) /\ cpu[c] \notin Dormidos)
  <2>1. CASE Anota(c) /\ cpu'[c] = cpu[c] /\ cpu[c] \in Pids /\ t # HiloCpu(c)
    <3>1. PICK p \in Pids : p = cpu[c]
      BY <2>1
    <3>2. /\ p \in Dormidos /\ Orden(p).op = "MEM_ALLOC" /\ p \notin ToSet(L)
          /\ \A u \in Hilos : Despierta(hilo[u], "esperas") => hilo[u].pid # p
          /\ \A d \in Cpus : Anota(d) /\ cpu[d] = p => d = c
      BY <1>e, <2>1, <3>1 DEF InvEsperaMemoria
    <3>3. p \in Dormidos' /\ Orden(p)'.op = "MEM_ALLOC"
      BY <1>q, <3>2
    <3>4. p \notin ToSet(L')
      <4>1. SUFFICES ASSUME p \in ToSet(L') PROVE FALSE
        OBVIOUS
      <4>2. t \in HilosCpu /\ hilo[t].en = "anota" /\ p = Pid(t)
        BY <1>2, <3>2, <4>1
      <4>3. t[2] \in Cpus /\ Anota(t[2]) /\ cpu[t[2]] = p /\ t = HiloCpu(t[2])
        BY <4>2, HilosDistintos DEF Anota, Pid
      <4>. QED  BY <2>1, <3>2, <4>3
    <3>5. \A u \in Hilos : Despierta(hilo'[u], "esperas") => hilo'[u].pid # p
      <4>1. SUFFICES ASSUME NEW u \in Hilos, Despierta(hilo'[u], "esperas"), hilo'[u].pid = p PROVE FALSE
        OBVIOUS
      <4>. QED  BY <1>5, <3>2, <4>1
    <3>6. (cpu[c] \in Dormidos /\ Orden(cpu[c]).op = "MEM_ALLOC" /\ cpu[c] \notin ToSet(lista_espera))'
      BY <2>1, <3>1, <3>3, <3>4 DEF Orden
    <3>7. \A u \in Hilos : Despierta(hilo'[u], "esperas") => hilo'[u].pid # cpu'[c]
      BY <2>1, <3>1, <3>5
    <3>. QED  BY <2>1, <3>6, <3>7
  <2>2. CASE t = HiloCpu(c) /\ t \in HilosCpu /\ EntrarABlock(t) /\ cpu' = cpu /\ cpu[c] = Pid(t)
             /\ Pid(t) \in Pids /\ Orden(Pid(t)).op = "MEM_ALLOC"
    <3>1. PICK p \in Pids : p = cpu[c] /\ p = Pid(t) /\ Orden(p).op = "MEM_ALLOC"
      BY <2>2
    <3>2. Entra(c) /\ cola_block' = cola_block \cup {p} /\ paso' = paso /\ config' = config /\ hilo[t].en = "entra_block"
      BY <2>2, <3>1, ConfigFija DEF EntrarABlock, Entra
    <3>3. p \notin Dormidos
      <4>1. estado[p] = "BLOCK" /\ p \notin cola_block
        BY <3>1, <3>2 DEF InvLugar, InvRafagas
      <4>. QED  BY <3>1, <4>1 DEF InvLugar, InvListas, Dormidos
    <3>4. p \notin ToSet(L) /\ \A u \in Hilos : Despierta(hilo[u], "esperas") => hilo[u].pid # p
      BY <1>e, <3>3 DEF InvEsperaMemoria
    <3>5. p \notin ToSet(L')
      BY <1>2, <3>2, <3>4
    <3>6. \A u \in Hilos : Despierta(hilo'[u], "esperas") => hilo'[u].pid # p
      <4>1. SUFFICES ASSUME NEW u \in Hilos, Despierta(hilo'[u], "esperas"), hilo'[u].pid = p PROVE FALSE
        OBVIOUS
      <4>. QED  BY <1>5, <3>2, <3>4, <4>1
    <3>7. p \in Dormidos' /\ Orden(p)'.op = "MEM_ALLOC"
      BY <3>1, <3>2 DEF Dormidos, Orden
    <3>. QED  BY <2>2, <3>1, <3>3, <3>5, <3>6, <3>7 DEF Orden
  <2>. QED  BY <1>6, <2>1, <2>2, NuevoAnota
<1>7. ASSUME NEW c \in Cpus, NEW d \in Cpus, Anota(c)', Anota(d)', cpu'[c] = cpu'[d]
      PROVE  c = d
  <2>1. cpu[c] = cpu[d] /\ (Anota(c) \/ (t = HiloCpu(c) /\ cpu[c] \notin Dormidos))
        /\ (Anota(d) \/ (t = HiloCpu(d) /\ cpu[d] \notin Dormidos))
    BY <1>6, <1>7
  <2>2. Anota(c) => cpu[c] \in Dormidos
    BY <1>e DEF InvEsperaMemoria
  <2>3. Anota(d) => cpu[d] \in Dormidos
    BY <1>e DEF InvEsperaMemoria
  <2>4. CASE Anota(c) /\ Anota(d)
    BY <1>e, <2>1, <2>4 DEF InvEsperaMemoria
  <2>5. CASE t = HiloCpu(c) /\ t = HiloCpu(d)
    BY <2>5 DEF HiloCpu
  <2>. QED  BY <2>1, <2>2, <2>3, <2>4, <2>5
<1>8. \A p \in ToSet(lista_espera') : (p \in Dormidos)' /\ Orden(p)'.op = "MEM_ALLOC"
  BY <1>4
<1>9. IsInjective(lista_espera') /\ IsInjective(evento'.esperas) /\ ToSet(evento'.esperas) \subseteq ToSet(lista_espera')
  BY <1>2, <1>3
<1>. HIDE DEF L, E
<1>. QED  BY <1>5, <1>6, <1>7, <1>8, <1>9 DEF InvEsperaMemoria

LEMMA InitEspera == Init => InvEspera
<1>. SUFFICES ASSUME Init PROVE InvEspera
  OBVIOUS
<1>1. \A t \in Hilos : hilo[t].en = "reposo"
  BY DEF Init, EnReposo
<1>2. \A t \in Hilos : ~ SirveIO(hilo[t]) /\ hilo[t].en \notin {"desbloquea", "desbloquea_susp"}
  BY <1>1 DEF SirveIO, PuntosIO, UsaDispositivo, Despierta
<1>3. \A e : \A t \in Hilos : ~ Despierta(hilo[t], e)
  BY <1>1 DEF Despierta
<1>4. IsInjective(<<>>) /\ ToSet(<<>>) = {}
  BY DEF IsInjective, ToSet
<1>5. \A m \in Mutexes : bloqueados[m] = <<>>
  BY DEF Init, InitMutex
<1>6. lista_espera = <<>> /\ evento.esperas = <<>>
  BY DEF Init, SinEvento
<1>7. \A c \in Cpus : ~ Anota(c)
  BY <1>1, HilosDistintos DEF Anota
<1>8. InvDespierta
  BY <1>2 DEF InvDespierta
<1>9. InvEsperaIO
  BY <1>2, <1>3, HilosDistintos DEF InvEsperaIO
<1>10. InvEsperaMutex
  BY <1>3, <1>4, <1>5 DEF InvEsperaMutex
<1>11. InvEsperaMemoria
  BY <1>3, <1>4, <1>6, <1>7 DEF InvEsperaMemoria
<1>. QED  BY <1>8, <1>9, <1>10, <1>11 DEF InvEspera

\* A step of a program leaves the scheduler as it was.
LEMMA SoloPool ==
  ASSUME [Next]_vars
  PROVE  (\E t \in Hilos : Paso(t)) \/ UNCHANGED <<varsMP, varsM, cpu, paso>>
<1>1. CASE Next
  BY <1>1, Zenon DEF Next, Entorno
<1>2. CASE UNCHANGED vars
  BY <1>2 DEF vars
<1>. QED  BY <1>1, <1>2

LEMMA PasoEspera ==
  ASSUME Inv, InvPuntos, InvPuntos', InvLugar, InvEvento, InvEspera, [Next]_vars
  PROVE  InvEspera'
<1>1. ASSUME NEW t \in Hilos, Paso(t) PROVE InvEspera'
  <2>1. InvDespierta'
    BY <1>1, PasoDespierta
  <2>2. InvEsperaIO'
    BY <1>1, PasoEsperaIO
  <2>3. InvEsperaMutex'
    BY <1>1, PasoEsperaMutex
  <2>4. InvEsperaMemoria'
    BY <1>1, PasoEsperaMemoria
  <2>. QED  BY <2>1, <2>2, <2>3, <2>4 DEF InvEspera
<1>2. CASE UNCHANGED <<varsMP, varsM, cpu, paso>>
  <2>1. UNCHANGED <<hilo, cola_block, susp_block, config, estado, lista_espera, evento, bloqueados, cpu, paso>>
    BY <1>2 DEF varsMP, varsM
  <2>2. \A p : Orden(p)' = Orden(p)
    BY <2>1 DEF Orden
  <2>3. \A p : Parado(p)' <=> Parado(p)
    BY <2>1 DEF Parado, Busca, Atiende
  <2>4. InvDespierta'
    BY <2>1 DEF InvEspera, InvDespierta
  <2>5. InvEsperaIO'
    BY <2>1, <2>2 DEF InvEspera, InvEsperaIO, Dormidos
  <2>6. InvEsperaMutex'
    <3>1. \A p, m : PidioLock(p, m)' <=> PidioLock(p, m)
      BY <2>2 DEF PidioLock
    <3>2. InvEsperaMutex
      BY DEF InvEspera
    <3>3. \A m \in Mutexes : IsInjective(bloqueados'[m])
      BY <2>1, <3>2 DEF InvEsperaMutex
    <3>4. \A m \in Mutexes : \A p \in ToSet(bloqueados'[m]) : PidioLock(p, m)' /\ Parado(p)'
      BY <2>1, <2>3, <3>1, <3>2 DEF InvEsperaMutex
    <3>5. ASSUME NEW t \in Hilos, Despierta(hilo'[t], "toma")
          PROVE  /\ (PidioLock(hilo[t].pid, hilo[t].mtx))' /\ Parado(hilo[t].pid)'
                 /\ hilo'[t].pid \notin ToSet(bloqueados'[hilo'[t].mtx])
      <4>1. PICK p, m : p = hilo[t].pid /\ m = hilo[t].mtx
        OBVIOUS
      <4>2. PidioLock(p, m) /\ Parado(p) /\ p \notin ToSet(bloqueados[m])
        BY <2>1, <3>2, <3>5, <4>1 DEF InvEsperaMutex
      <4>3. PidioLock(p, m)' /\ Parado(p)'
        BY <2>3, <3>1, <4>2
      <4>4. hilo'[t].pid = p /\ hilo'[t].mtx = m
        BY <2>1, <4>1
      <4>. QED  BY <2>1, <4>2, <4>3, <4>4 DEF PidioLock, Orden, Parado
    <3>6. \A t, u \in Hilos : Despierta(hilo'[t], "toma") /\ Despierta(hilo'[u], "toma")
                           /\ hilo'[t].pid = hilo'[u].pid => t = u
      BY <2>1, <3>2 DEF InvEsperaMutex
    <3>. QED  BY <3>3, <3>4, <3>5, <3>6 DEF InvEsperaMutex
  <2>7. InvEsperaMemoria'
    <3>1. Dormidos' = Dormidos
      BY <2>1 DEF Dormidos
    <3>2. \A c \in Cpus : Anota(c)' <=> Anota(c)
      BY <2>1 DEF Anota
    <3>. QED  BY <2>1, <2>2, <3>1, <3>2, Zenon DEF InvEspera, InvEsperaMemoria
  <2>. QED  BY <2>4, <2>5, <2>6, <2>7 DEF InvEspera
<1>. QED  BY <1>1, <1>2, SoloPool

-----------------------------------------------------------------------------
(* The tokens of the device pool: FichaConDispositivo.  One that a thread has *)
(* taken, or has to give back, is for the type that its process asked for,    *)
(* which the process does not change while it waits.                          *)

EnFicha == UsaDispositivo \cup {"busca_io", "postea_io"}

LEMMA FichaQuieta ==
  ASSUME Inv, InvLugar, NEW t \in Hilos, Paso(t), NEW u \in HilosIO, ~ (u = t /\ PasoIO(t)),
         hilo[u].en \in EnFicha \/ hilo'[u].en \in EnFicha
  PROVE  hilo'[u] = hilo[u]
<1>t. TipoHilos /\ u \in Hilos
  BY HilosDistintos DEF Inv
<1>. USE DEF EnFicha, UsaDispositivo
<1>1. CASE u # t
  BY <1>t, <1>1, Quietos DEF InvLugar
<1>2. CASE u = t
  <2>1. PasoComun(t) /\ t \notin HilosTimer
    BY <1>2, HilosDistintos, SMTT(40) DEF Paso
  <2>2. hilo[t].en \notin EnFicha
    BY <2>1 DEF PasoComun, PasoMedianoPlazo, Encolar, DesbloquearBlock, DesbloquearSusp, VencerTimer,
       Suspender, TomarEvento, Dessuspender, Volver, FinDeCandidatos, ReintentarEspera, SoltarEvento
  <2>3. hilo'[t] = hilo[t] \/ hilo'[t].en \in PuntosMP
    BY <2>1, PuntosComunes
  <2>. QED  BY <1>2, <2>2, <2>3 DEF PuntosMP, Regresos, Continuaciones
<1>. QED  BY <1>1, <1>2

LEMMA PedidoQueda ==
  ASSUME Inv, InvPuntos, InvLugar, InvEspera, [Next]_vars, NEW t \in Hilos, Paso(t),
         NEW u \in HilosIO, SirveIO(hilo[u])
  PROVE  TipoPedido(u[2])' = TipoPedido(u[2])
<1>1. PICK p \in Pids : p = u[2] /\ p \in Dormidos
  BY HilosDistintos DEF InvEspera, InvEsperaIO
<1>2. Orden(p)' = Orden(p)
  BY <1>1, DormidoQueda, OrdenQueda, SMTT(40)
<1>. QED  BY <1>1, <1>2, ConfigFija DEF TipoPedido

\* What the threads of the IOs do to the pool, step by step
LEMMA CambiosIO ==
  ASSUME Inv, InvUso, InvPool, NEW t \in HilosIO, PasoIO(t), NEW k, k = TipoPedido(t[2]),
         NEW d, d = hilo[t].disp
  PROVE  LET desde == hilo[t].en
             hasta == hilo'[t].en
         IN /\ UNCHANGED <<ios_conectados, programa, config, paso>>
            /\ \A u \in HilosIO : u # t => hilo'[u] = hilo[u]
            /\ \/ /\ desde = "espera_io" /\ hasta = "busca_io" /\ UNCHANGED <<libre, desconectado>>
                  /\ sem_io' = [sem_io EXCEPT ![k] = @ - 1]
               \/ /\ desde = "busca_io" /\ hasta = "pide_io" /\ UNCHANGED <<sem_io, desconectado>>
                  /\ \E i \in Elegibles(k) : /\ hilo'[t].disp = ios_conectados[i]
                                             /\ libre' = [libre EXCEPT ![ios_conectados[i]] = FALSE]
               \/ /\ desde \in UsaDispositivo /\ hasta \in UsaDispositivo
                  /\ hilo'[t].disp = d /\ UNCHANGED <<sem_io, libre, desconectado>>
               \/ /\ desde \in UsaDispositivo /\ hasta \notin EnFicha /\ UNCHANGED <<sem_io, libre>>
                  /\ desconectado' = [desconectado EXCEPT ![d] = TRUE]
               \/ /\ desde = "libera_io" /\ hasta = "postea_io" /\ hilo'[t].disp = d
                  /\ libre' = [libre EXCEPT ![d] = TRUE] /\ UNCHANGED <<sem_io, desconectado>>
               \/ /\ desde = "postea_io" /\ hasta \notin EnFicha /\ UNCHANGED <<libre, desconectado>>
                  /\ sem_io' = [sem_io EXCEPT ![TipoDe[d]] = @ + 1]
               \/ /\ desde = "fin_io" /\ hasta \notin EnFicha /\ UNCHANGED <<sem_io, libre, desconectado>>
<1>t. /\ TipoHilos /\ t \in Hilos /\ hilo = [v \in Hilos |-> hilo[v]] /\ hilo[t] \in Locales
      /\ UNCHANGED <<config, paso>> /\ Paso(t)
  BY HilosDistintos DEF Inv, TipoHilos, LocalesOK, PasoIO, pcbs, Paso
<1>o. \A u \in HilosIO : u # t => hilo'[u] = hilo[u]
  BY <1>t, HilosDistintos, SoloElSuyo
<1>1. CASE EsperarDispositivo(t)
  <2>1. hilo'[t].en = "busca_io"
    BY <1>t, <1>1, LlamadaIr DEF EsperarDispositivo
  <2>. QED  BY <1>t, <1>o, <1>1, <2>1 DEF EsperarDispositivo, EsperarIO
<1>2. CASE TomarDispositivo(t)
  <2>1. PICK e : e = ElegidoIO(k)
    OBVIOUS
  <2>2. /\ hilo[t].en = "busca_io" /\ libre' = [libre EXCEPT ![e] = FALSE] /\ Elegibles(k) # {}
        /\ hilo' = [hilo EXCEPT ![t].en = "pide_io", ![t].disp = e]
        /\ UNCHANGED <<ios_conectados, programa, sem_io, desconectado>>
    BY <1>2, <2>1 DEF TomarDispositivo, TomarIO
  <2>3. hilo'[t].en = "pide_io" /\ hilo'[t].disp = e
    BY <1>t, <2>2 DEF Locales
  <2>4. \E i \in Elegibles(k) : e = ios_conectados[i]
    <3>1. Elegibles(k) \subseteq Nat
      BY LenProperties DEF Elegibles, Inv, TypeOKIO
    <3>2. Min(Elegibles(k)) \in Elegibles(k)
      BY <2>2, <3>1, MinEsElemento
    <3>. QED  BY <2>1, <3>2 DEF ElegidoIO
  <2>. QED  BY <1>t, <1>o, <2>2, <2>3, <2>4
<1>3. CASE PedirDispositivo(t) \/ LeerOK(t)
  <2>1. hilo[t].en \in UsaDispositivo /\ (\E e \in {"espera_ok", "libera_io"} : Ir(t, e))
        /\ UNCHANGED <<pool, programa>>
    BY <1>3 DEF PedirDispositivo, LeerOK, PedirIO, LeerRespuesta, UsaDispositivo
  <2>2. PICK e \in {"espera_ok", "libera_io"} : hilo' = [hilo EXCEPT ![t].en = e]
    BY <2>1 DEF Ir
  <2>3. hilo'[t].en \in UsaDispositivo /\ hilo'[t].disp = d
    BY <1>t, <2>2 DEF Locales, UsaDispositivo
  <2>. QED  BY <1>t, <1>o, <2>1, <2>3 DEF pool
<1>4. CASE FallarIO(t)
  <2>1. ~ libre[d] /\ hilo[t].en \in UsaDispositivo
    BY <1>4 DEF FallarIO, InvUso, Ocupa, UsaDispositivo
  <2>2. hilo'[t].en = "desbloquea"
    BY <1>t, <1>4, LlamadaDesbloquear DEF FallarIO
  <2>3. UNCHANGED <<ios_conectados, programa, sem_io, libre>> /\ desconectado' = [desconectado EXCEPT ![d] = TRUE]
    BY <1>4, <2>1 DEF FallarIO, RemoverIO
  <2>. QED  BY <1>t, <1>o, <2>1, <2>2, <2>3 DEF EnFicha, UsaDispositivo
<1>5. CASE LiberarDispositivo(t)
  <2>1. ~ desconectado[d]
    BY <1>5 DEF LiberarDispositivo, InvPool, Ocupa, UsaDispositivo
  <2>2. hilo' = [hilo EXCEPT ![t].en = "postea_io"]
    BY <1>5 DEF LiberarDispositivo, Ir
  <2>3. hilo'[t].en = "postea_io" /\ hilo'[t].disp = d
    BY <1>t, <2>2 DEF Locales
  <2>4. UNCHANGED <<ios_conectados, programa, sem_io, desconectado>> /\ libre' = [libre EXCEPT ![d] = TRUE]
    BY <1>5, <2>1 DEF LiberarDispositivo, LiberarIO
  <2>. QED  BY <1>t, <1>o, <1>5, <2>3, <2>4 DEF LiberarDispositivo
<1>6. CASE PostearDispositivo(t)
  <2>1. hilo'[t].en = "desbloquea"
    BY <1>t, <1>6, LlamadaDesbloquear DEF PostearDispositivo
  <2>. QED  BY <1>t, <1>o, <1>6, <2>1 DEF PostearDispositivo, PostearIO, EnFicha, UsaDispositivo
<1>7. CASE TerminarIO(t)
  <2>1. LlamarEvento(t, "reposo") \/ Terminar(t)
    BY <1>7 DEF TerminarIO
  <2>2. hilo'[t].en \in {"evento", "reposo"}
    BY <1>t, <2>1, LlamadaEvento DEF Terminar, Seguir, EnReposo
  <2>. QED  BY <1>t, <1>o, <1>7, <2>2 DEF TerminarIO, EnFicha, UsaDispositivo, varsIO, pool
<1>. QED  BY <1>1, <1>2, <1>3, <1>4, <1>5, <1>6, <1>7 DEF PasoIO

\* Who holds a device after a step, and for whom
LEMMA PasoPedidos ==
  ASSUME Inv, InvPuntos, InvLugar, InvUso, InvEspera, InvPool, [Next]_vars, NEW t \in Hilos, Paso(t),
         NEW u \in HilosIO, hilo'[u].en \in UsaDispositivo \cup {"postea_io"}
  PROVE  TipoDe[hilo'[u].disp] = TipoPedido(u[2])'
<1>. USE DEF EnFicha, UsaDispositivo
<1>1. ASSUME hilo'[u] = hilo[u] PROVE TipoDe[hilo'[u].disp] = TipoPedido(u[2])'
  <2>1. TipoDe[hilo[u].disp] = TipoPedido(u[2])
    BY <1>1 DEF InvPool, Ocupa
  <2>2. TipoPedido(u[2])' = TipoPedido(u[2])
    BY <1>1, PedidoQueda DEF SirveIO, PuntosIO
  <2>. QED  BY <1>1, <2>1, <2>2
<1>2. CASE ~ (t \in HilosIO /\ PasoIO(t)) \/ u # t
  <2>1. CASE t \in HilosIO /\ PasoIO(t) /\ u # t
    BY <2>1, CambiosIO, <1>1
  <2>2. CASE ~ (t \in HilosIO /\ PasoIO(t))
    BY <2>2, FichaQuieta, <1>1
  <2>. QED  BY <1>2, <2>1, <2>2
<1>3. CASE u = t /\ PasoIO(t)
  <2>1. PICK k, d : k = TipoPedido(t[2]) /\ d = hilo[t].disp
    BY SMTT(40)
  <2>2. TipoPedido(u[2])' = k
    BY <1>3, <2>1, CambiosIO DEF TipoPedido, Orden
  <2>3. CASE hilo'[t].disp = d /\ hilo[t].en \in UsaDispositivo
    <3>1. TipoDe[d] = k
      BY <1>3, <2>1, <2>3 DEF InvPool, Ocupa
    <3>. QED  BY <1>3, <2>2, <2>3, <3>1
  <2>4. CASE \E i \in Elegibles(k) : hilo'[t].disp = ios_conectados[i]
    BY <1>3, <2>2, <2>4 DEF Elegibles
  <2>. QED  BY <1>3, <2>1, <2>3, <2>4, CambiosIO
<1>. QED  BY <1>2, <1>3

LEMMA PasoInvPool ==
  ASSUME Inv, InvPuntos, InvLugar, InvUso, InvEspera, InvPool, [Next]_vars
  PROVE  InvPool'
<1>t. /\ ios_conectados \in Seq(Vivos) /\ Vivos \subseteq Dispositivos /\ Vivos \subseteq Vivos'
      /\ libre \in [Dispositivos -> BOOLEAN] /\ desconectado \in [Dispositivos -> BOOLEAN]
      /\ ios_conectados \in Seq(Dispositivos)
  BY VivosCrecen DEF InvUso, Vivos, Inv, TypeOKIO
<1>v. \A i \in DOMAIN ios_conectados : ios_conectados[i] \in Vivos
  BY <1>t, ElementOfSeq, LenProperties
<1>1. ASSUME NEW t \in Hilos, Paso(t) PROVE InvPool'
  <2>1. CASE t \in HilosIO /\ PasoIO(t)
    <3>1. PICK k, d : k = TipoPedido(t[2]) /\ d = hilo[t].disp
      OBVIOUS
    <3>2. /\ UNCHANGED <<ios_conectados, programa>>
          /\ \A u \in HilosIO : u # t => hilo'[u] = hilo[u]
      BY <2>1, <3>1, CambiosIO
    <3>3. /\ \A e \in Dispositivos : desconectado'[e] => desconectado[e] \/ (e = d /\ Ocupa(t) /\ ~ Ocupa(t)')
          /\ Ocupa(t)' => \/ Ocupa(t) /\ hilo'[t].disp = d /\ UNCHANGED desconectado
                          \/ \E i \in Elegibles(k) : hilo'[t].disp = ios_conectados[i] /\ UNCHANGED desconectado
      BY <1>t, <2>1, <3>1, CambiosIO DEF Ocupa, UsaDispositivo, EnFicha
    <3>4. \A e \in Dispositivos : desconectado'[e] => e \in Vivos'
      BY <1>t, <2>1, <3>1, <3>3 DEF InvPool, InvUso
    <3>5. ASSUME NEW u \in HilosIO, Ocupa(u)'
          PROVE  hilo'[u].disp \in ToSet(ios_conectados') /\ ~ desconectado'[hilo'[u].disp]
      <4>1. CASE u # t
        <5>1. Ocupa(u) /\ hilo'[u].disp = hilo[u].disp /\ hilo[u].disp \in Vivos
          BY <3>2, <3>5, <4>1 DEF Ocupa, InvUso
        <5>2. hilo[u].disp \in ToSet(ios_conectados) /\ ~ desconectado[hilo[u].disp]
          BY <5>1 DEF InvPool
        <5>3. Ocupa(t) => hilo[u].disp # d
          BY <2>1, <3>1, <4>1, <5>1 DEF InvUso
        <5>. QED  BY <1>t, <3>2, <3>3, <5>1, <5>2, <5>3
      <4>2. CASE u = t /\ Ocupa(t) /\ hilo'[t].disp = d /\ UNCHANGED desconectado
        BY <3>1, <3>2, <4>2 DEF InvPool
      <4>3. CASE u = t /\ \E i \in Elegibles(k) : hilo'[t].disp = ios_conectados[i] /\ UNCHANGED desconectado
        BY <3>2, <4>3 DEF Elegibles, ToSet
      <4>. QED  BY <3>3, <3>5, <4>1, <4>2, <4>3
    <3>6. \A u \in HilosIO : (Ocupa(u) \/ hilo[u].en = "postea_io")' => (TipoDe[hilo[u].disp] = TipoPedido(u[2]))'
      BY <1>1, PasoPedidos DEF Ocupa
    <3>. QED  BY <3>2, <3>4, <3>5, <3>6 DEF InvPool
  <2>2. CASE ~ (t \in HilosIO /\ PasoIO(t))
    <3>1. UNCHANGED <<ios_conectados, desconectado, programa>>
      BY <1>1, <2>2, SinPool, Zenon DEF Paso, varsIO, pool
    <3>2. \A u \in HilosIO : Ocupa(u)' => Ocupa(u) /\ hilo'[u] = hilo[u]
      BY <1>1, <2>2, SinUsoNuevo
    <3>3. \A u \in HilosIO : (Ocupa(u) \/ hilo[u].en = "postea_io")' => (TipoDe[hilo[u].disp] = TipoPedido(u[2]))'
      BY <1>1, PasoPedidos DEF Ocupa
    <3>. QED  BY <1>t, <3>1, <3>2, <3>3 DEF InvPool
  <2>. QED  BY <2>1, <2>2
<1>2. CASE UNCHANGED <<varsMP, varsM, cpu, paso>>
  <2>1. UNCHANGED <<hilo, config, paso>>
    BY <1>2 DEF varsMP
  <2>2. \A u \in HilosIO : (Ocupa(u)' <=> Ocupa(u)) /\ TipoPedido(u[2])' = TipoPedido(u[2])
    BY <2>1 DEF Ocupa, TipoPedido, Orden
  <2>3. UNCHANGED desconectado /\ (UNCHANGED ios_conectados \/ \E d \in Dispositivos : RegistrarIO(d))
    <3>1. ASSUME NEW t \in Hilos, Paso(t) PROVE UNCHANGED <<desconectado, ios_conectados>>
      <4>1. CASE t \in HilosIO /\ PasoIO(t)
        <5>1. hilo'[t] = hilo[t] /\ hilo[t] \in Locales
          BY <2>1, HilosDistintos DEF Inv, TipoHilos, LocalesOK
        <5>. QED  BY <4>1, <5>1, CambiosIO DEF EnFicha, UsaDispositivo
      <4>2. CASE ~ (t \in HilosIO /\ PasoIO(t))
        BY <3>1, <4>2, SinPool, Zenon DEF Paso, varsIO, pool
      <4>. QED  BY <4>1, <4>2
    <3>2. ASSUME NEW d \in Dispositivos, RegistrarIO(d) \/ CaerIO(d) \/ PostearConexion(d) \/ Atender(d)
          PROVE  UNCHANGED desconectado /\ (UNCHANGED ios_conectados \/ RegistrarIO(d))
      BY <3>2 DEF RegistrarIO, CaerIO, PostearConexion, Atender, pool
    <3>3. CASE UNCHANGED vars
      BY <3>3 DEF vars, varsIO, pool
    <3>4. CASE Next
      <4>1. (\E t \in Hilos : Paso(t))
            \/ \E d \in Dispositivos : RegistrarIO(d) \/ CaerIO(d) \/ PostearConexion(d) \/ Atender(d)
        BY <3>4, Zenon DEF Next, Entorno
      <4>. QED  BY <3>1, <3>2, <4>1
    <3>. QED  BY <3>3, <3>4
  <2>4. IsInjective(ios_conectados') /\ ToSet(ios_conectados) \subseteq ToSet(ios_conectados')
    <3>1. CASE UNCHANGED ios_conectados
      BY <3>1 DEF InvPool
    <3>2. ASSUME NEW d \in Dispositivos, RegistrarIO(d)
          PROVE  IsInjective(ios_conectados') /\ ToSet(ios_conectados) \subseteq ToSet(ios_conectados')
      <4>1. d \notin ToSet(ios_conectados) /\ ios_conectados' = Append(ios_conectados, d)
        BY <1>v, <3>2 DEF RegistrarIO, Vivos, ToSet
      <4>. QED  BY <1>t, <4>1, ToSetAppend, AppendSinRepetir DEF InvPool
    <3>. QED  BY <2>3, <3>1, <3>2
  <2>. QED  BY <1>t, <2>1, <2>2, <2>3, <2>4 DEF InvPool
<1>. QED  BY <1>1, <1>2, SoloPool

LEMMA InitPool == Init => InvPool
<1>. SUFFICES ASSUME Init PROVE InvPool
  OBVIOUS
<1>1. \A t \in HilosIO : hilo[t].en = "reposo"
  BY HilosDistintos DEF Init, EnReposo
<1>2. IsInjective(config.ios)
  BY ConfiguracionesOK DEF Init, IsInjective
<1>3. \A d \in Dispositivos : ~ desconectado[d]
  BY DEF Init, InitIO
<1>. QED  BY <1>1, <1>2, <1>3 DEF Init, InitIO, InvPool, Ocupa, UsaDispositivo

\* From S to T one element enters, leaves, or none does.
Varia(S, T, n) ==
  \/ n = 0 /\ T = S
  \/ n = 1 /\ \E x : x \notin S /\ T = S \cup {x}
  \/ n = -1 /\ \E x \in S : T = S \ {x}

LEMMA VariaCuenta ==
  ASSUME NEW S, NEW T, NEW n, IsFiniteSet(S), Varia(S, T, n)
  PROVE  n \in Int /\ Cardinality(S) \in Nat /\ Cardinality(T) = Cardinality(S) + n
<1>c. Cardinality(S) \in Nat
  BY FS_CardinalityType
<1>1. CASE n = 0 /\ T = S
  BY <1>c, <1>1
<1>2. CASE n = 1 /\ \E x : x \notin S /\ T = S \cup {x}
  <2>1. PICK x : x \notin S /\ T = S \cup {x}
    BY <1>2
  <2>2. Cardinality(S \cup {x}) = Cardinality(S) + 1
    BY <2>1, FS_AddElement
  <2>3. Cardinality(T) = Cardinality(S) + 1
    BY <2>1, <2>2, Zenon
  <2>. QED  BY <1>c, <1>2, <2>3
<1>3. CASE n = -1 /\ \E x \in S : T = S \ {x}
  <2>1. PICK x \in S : T = S \ {x}
    BY <1>3
  <2>2. Cardinality(S \ {x}) = Cardinality(S) - 1
    BY <2>1, FS_RemoveElement
  <2>3. Cardinality(T) = Cardinality(S) - 1
    BY <2>1, <2>2, Zenon
  <2>. QED  BY <1>c, <1>3, <2>3
<1>. QED  BY <1>1, <1>2, <1>3 DEF Varia

\* The tokens of type k in the hands of the threads, and of those that connect
Buscan(k)  == {t \in HilosIO : hilo[t].en = "busca_io" /\ TipoPedido(t[2]) = k}
Postean(k) == {t \in HilosIO : hilo[t].en = "postea_io" /\ TipoPedido(t[2]) = k}
Conectan(k) == {d \in Dispositivos : programa[d] = "conecta" /\ TipoDe[d] = k}

LEMMA FichasFinitas ==
  ASSUME Inv, NEW k
  PROVE  /\ IsFiniteSet(Elegibles(k)) /\ IsFiniteSet(Buscan(k)) /\ IsFiniteSet(Postean(k))
         /\ IsFiniteSet(Conectan(k))
<1>1. IsFiniteSet(HilosIO)
  <2>. DEFINE B == 1 .. MaxBloqueos
              f == [x \in Pids \X B |-> HiloIO(x[1], x[2])]
  <2>1. IsFiniteSet(Pids) /\ IsFiniteSet(B)
    BY ProcesosOK, FS_Interval
  <2>2. IsFiniteSet(Pids \X B)
    <3>. HIDE DEF B
    <3>. QED  BY <2>1, FS_Product
  <2>3. f \in Surjection(Pids \X B, HilosIO)
    <3>1. f \in [Pids \X B -> HilosIO]
      BY DEF HilosIO
    <3>2. ASSUME NEW t \in HilosIO PROVE \E x \in Pids \X B : f[x] = t
      <4>1. PICK p \in Pids, n \in B : t = HiloIO(p, n)
        BY DEF HilosIO
      <4>2. <<p, n>> \in Pids \X B /\ f[<<p, n>>] = t
        BY <4>1
      <4>. QED  BY <4>2
    <3>. QED  BY <3>1, <3>2 DEF Surjection
  <2>. HIDE DEF f, B
  <2>. QED  BY <2>2, <2>3, FS_Surjection
<1>2. IsFiniteSet(DOMAIN ios_conectados)
  <2>1. DOMAIN ios_conectados = 1 .. Len(ios_conectados) /\ Len(ios_conectados) \in Int
    BY LenProperties DEF Inv, TypeOKIO
  <2>. QED  BY <2>1, FS_Interval
<1>3. IsFiniteSet(Dispositivos)
  BY DispositivosOK
<1>4. /\ Elegibles(k) \in SUBSET DOMAIN ios_conectados /\ Buscan(k) \in SUBSET HilosIO
      /\ Postean(k) \in SUBSET HilosIO /\ Conectan(k) \in SUBSET Dispositivos
  BY DEF Elegibles, Buscan, Postean, Conectan
<1>. QED  BY <1>1, <1>2, <1>3, <1>4, FS_Subset

\* What enters on one side of the count enters on the other.
LEMMA BalanceQueda ==
  ASSUME Inv, FichaConDispositivo, NEW k \in TiposIO, NEW e, NEW s \in Int, NEW b, NEW p, NEW c,
         Varia(Elegibles(k), Elegibles(k)', e), sem_io'[k] = sem_io[k] + s,
         Varia(Buscan(k), Buscan(k)', b), Varia(Postean(k), Postean(k)', p),
         Varia(Conectan(k), Conectan(k)', c), e = s + b + p + c
  PROVE  Cardinality(Elegibles(k)') = sem_io'[k] + Cardinality(Buscan(k)') + Cardinality(Postean(k)')
                                      + Cardinality(Conectan(k)')
<1>1. Cardinality(Elegibles(k)) = sem_io[k] + Cardinality(Buscan(k)) + Cardinality(Postean(k))
                                  + Cardinality(Conectan(k))
  BY DEF FichaConDispositivo, Buscan, Postean, Conectan
<1>2. sem_io[k] \in Nat
  BY DEF Inv, TypeOKIO
<1>3. e \in Int /\ Cardinality(Elegibles(k)) \in Nat /\ Cardinality(Elegibles(k)') = Cardinality(Elegibles(k)) + e
  BY FichasFinitas, VariaCuenta
<1>4. b \in Int /\ Cardinality(Buscan(k)) \in Nat /\ Cardinality(Buscan(k)') = Cardinality(Buscan(k)) + b
  BY FichasFinitas, VariaCuenta
<1>5. p \in Int /\ Cardinality(Postean(k)) \in Nat /\ Cardinality(Postean(k)') = Cardinality(Postean(k)) + p
  BY FichasFinitas, VariaCuenta
<1>6. c \in Int /\ Cardinality(Conectan(k)) \in Nat /\ Cardinality(Conectan(k)') = Cardinality(Conectan(k)) + c
  BY FichasFinitas, VariaCuenta
<1>. QED  BY <1>1, <1>2, <1>3, <1>4, <1>5, <1>6

\* The steps of a thread of IO: the pool and the tokens change together.
LEMMA BalanceIO ==
  ASSUME Inv, InvUso, InvPool, NEW t \in HilosIO, PasoIO(t), NEW k \in TiposIO
  PROVE  \E e, s, b, p \in -1 .. 1 :
           /\ Varia(Elegibles(k), Elegibles(k)', e) /\ sem_io'[k] = sem_io[k] + s
           /\ Varia(Buscan(k), Buscan(k)', b) /\ Varia(Postean(k), Postean(k)', p)
           /\ e = s + b + p
<1>. PICK q, d : q = TipoPedido(t[2]) /\ d = hilo[t].disp
  OBVIOUS
<1>. DEFINE mio == q = k
            E == Elegibles(k)
<1>t. /\ sem_io \in [TiposIO -> Nat] /\ libre \in [Dispositivos -> BOOLEAN]
      /\ desconectado \in [Dispositivos -> BOOLEAN]
      /\ \A i \in DOMAIN ios_conectados : ios_conectados[i] \in Dispositivos
      /\ \A i, j \in DOMAIN ios_conectados : ios_conectados[i] = ios_conectados[j] => i = j
  BY ElementOfSeq, LenProperties DEF Inv, TypeOKIO, InvPool, IsInjective
<1>c. /\ UNCHANGED <<ios_conectados, programa, config, paso>>
      /\ \A u \in HilosIO : u # t => hilo'[u] = hilo[u]
  BY CambiosIO
<1>p. \A x : TipoPedido(x)' = TipoPedido(x)
  BY <1>c DEF TipoPedido, Orden
<1>b. /\ Buscan(k)' = (Buscan(k) \ {t}) \cup (IF hilo'[t].en = "busca_io" /\ mio THEN {t} ELSE {})
      /\ t \in Buscan(k) <=> hilo[t].en = "busca_io" /\ mio
  BY <1>c, <1>p DEF Buscan
<1>r. /\ Postean(k)' = (Postean(k) \ {t}) \cup (IF hilo'[t].en = "postea_io" /\ mio THEN {t} ELSE {})
      /\ t \in Postean(k) <=> hilo[t].en = "postea_io" /\ mio
  BY <1>c, <1>p DEF Postean
<1>e. UNCHANGED <<libre, desconectado>> => Elegibles(k)' = E
  BY <1>c DEF Elegibles
<1>n. \A n \in -1 .. 1 : n \in Int
  OBVIOUS
<1>z. \A S : Varia(S, S, 0)
  BY DEF Varia
<1>. HIDE DEF E
<1>1. CASE hilo[t].en = "espera_io" /\ hilo'[t].en = "busca_io" /\ UNCHANGED <<libre, desconectado>>
           /\ sem_io' = [sem_io EXCEPT ![q] = @ - 1]
  <2>1. Varia(Elegibles(k), Elegibles(k)', 0)
    BY <1>1, <1>e, <1>z DEF E
  <2>2. Varia(Postean(k), Postean(k)', 0)
    BY <1>1, <1>r, <1>z
  <2>3. CASE mio
    <3>1. Varia(Buscan(k), Buscan(k)', 1)
      BY <1>1, <1>b, <2>3 DEF Varia
    <3>2. sem_io'[k] = sem_io[k] + (-1)
      BY <1>t, <1>1, <2>3
    <3>. QED  BY <2>1, <2>2, <3>1, <3>2, 0 = (-1) + 1 + 0
  <2>4. CASE ~ mio
    <3>1. Varia(Buscan(k), Buscan(k)', 0)
      BY <1>1, <1>b, <1>z, <2>4
    <3>2. sem_io'[k] = sem_io[k] + 0
      BY <1>t, <1>1, <2>4
    <3>. QED  BY <2>1, <2>2, <3>1, <3>2, 0 = 0 + 0 + 0
  <2>. QED  BY <2>3, <2>4
<1>2. CASE /\ hilo[t].en = "busca_io" /\ hilo'[t].en = "pide_io" /\ UNCHANGED <<sem_io, desconectado>>
           /\ \E i \in Elegibles(q) : libre' = [libre EXCEPT ![ios_conectados[i]] = FALSE]
  <2>1. PICK i \in Elegibles(q) : libre' = [libre EXCEPT ![ios_conectados[i]] = FALSE]
    BY <1>2
  <2>2. Varia(Postean(k), Postean(k)', 0)
    BY <1>2, <1>r, <1>z
  <2>3. sem_io'[k] = sem_io[k] + 0
    BY <1>t, <1>2
  <2>i. i \in DOMAIN ios_conectados /\ TipoDe[ios_conectados[i]] = q
    BY <2>1 DEF Elegibles
  <2>l. \A j \in DOMAIN ios_conectados : j # i => libre'[ios_conectados[j]] = libre[ios_conectados[j]]
    BY <1>t, <2>1, <2>i
  <2>f. libre'[ios_conectados[i]] = FALSE
    BY <1>t, <2>1, <2>i
  <2>4. CASE mio
    <3>1. Elegibles(k)' = Elegibles(k) \ {i}
      BY <1>c, <1>2, <2>l, <2>f DEF Elegibles
    <3>2. Varia(Elegibles(k), Elegibles(k)', -1)
      BY <2>1, <2>4, <3>1 DEF Varia
    <3>3. Varia(Buscan(k), Buscan(k)', -1)
      BY <1>2, <1>b, <2>4 DEF Varia
    <3>. QED  BY <2>2, <2>3, <3>2, <3>3, -1 = 0 + (-1) + 0
  <2>5. CASE ~ mio
    <3>1. Elegibles(k)' = Elegibles(k)
      BY <1>c, <1>2, <2>i, <2>l, <2>f, <2>5 DEF Elegibles
    <3>2. Varia(Buscan(k), Buscan(k)', 0)
      <4>1. hilo'[t].en # "busca_io"
        BY <1>2
      <4>2. Buscan(k)' = Buscan(k)
        BY <1>b, <2>5, <4>1
      <4>. QED  BY <1>z, <4>2
    <3>. QED  BY <1>z, <2>2, <2>3, <3>1, <3>2, 0 = 0 + 0 + 0
  <2>. QED  BY <2>4, <2>5
<1>3. CASE hilo[t].en \notin {"busca_io", "postea_io"} /\ hilo'[t].en \notin {"busca_io", "postea_io"}
           /\ UNCHANGED <<sem_io, libre, desconectado>>
  <2>1. Varia(Buscan(k), Buscan(k)', 0) /\ Varia(Postean(k), Postean(k)', 0)
    BY <1>3, <1>b, <1>r, <1>z
  <2>2. Varia(Elegibles(k), Elegibles(k)', 0) /\ sem_io'[k] = sem_io[k] + 0
    BY <1>t, <1>3, <1>e, <1>z DEF E
  <2>. QED  BY <2>1, <2>2, 0 = 0 + 0 + 0
<1>4. CASE hilo[t].en \in UsaDispositivo /\ hilo'[t].en \notin EnFicha /\ UNCHANGED <<sem_io, libre>>
           /\ desconectado' = [desconectado EXCEPT ![d] = TRUE]
  <2>1. Varia(Buscan(k), Buscan(k)', 0) /\ Varia(Postean(k), Postean(k)', 0)
    BY <1>4, <1>b, <1>r, <1>z, ZenonT(60) DEF EnFicha, UsaDispositivo
  <2>2. ~ libre[d]
    BY <1>4 DEF InvUso, Ocupa
  <2>3. \A x \in Dispositivos : libre[x] => desconectado'[x] = desconectado[x]
    BY <1>t, <1>4, <2>2
  <2>4. Elegibles(k)' = Elegibles(k)
    BY <1>t, <1>c, <1>4, <2>3 DEF Elegibles
  <2>5. sem_io'[k] = sem_io[k] + 0
    BY <1>t, <1>4
  <2>. QED  BY <1>z, <2>1, <2>4, <2>5, 0 = 0 + 0 + 0
<1>5. CASE hilo[t].en = "libera_io" /\ hilo'[t].en = "postea_io"
           /\ libre' = [libre EXCEPT ![d] = TRUE] /\ UNCHANGED <<sem_io, desconectado>>
  <2>1. d \in ToSet(ios_conectados) /\ ~ desconectado[d] /\ ~ libre[d] /\ TipoDe[d] = q
    BY <1>5 DEF InvPool, InvUso, Ocupa, UsaDispositivo
  <2>2. PICK i \in DOMAIN ios_conectados : ios_conectados[i] = d
    BY <2>1 DEF ToSet
  <2>l. \A j \in DOMAIN ios_conectados : j # i => libre'[ios_conectados[j]] = libre[ios_conectados[j]]
    BY <1>t, <1>5, <2>2
  <2>f. libre'[d] = TRUE
    BY <1>t, <1>5, <2>2
  <2>3. Varia(Buscan(k), Buscan(k)', 0)
    BY <1>5, <1>b, <1>z
  <2>4. sem_io'[k] = sem_io[k] + 0
    BY <1>t, <1>5
  <2>5. CASE mio
    <3>1. Elegibles(k)' = Elegibles(k) \cup {i} /\ i \notin Elegibles(k)
      BY <1>c, <1>5, <2>1, <2>2, <2>l, <2>f, <2>5, ZenonT(60) DEF Elegibles
    <3>2. Varia(Elegibles(k), Elegibles(k)', 1)
      BY <3>1 DEF Varia
    <3>3. Varia(Postean(k), Postean(k)', 1)
      BY <1>5, <1>r, <2>5 DEF Varia
    <3>. QED  BY <2>3, <2>4, <3>2, <3>3, 1 = 0 + 0 + 1
  <2>6. CASE ~ mio
    <3>1. Elegibles(k)' = Elegibles(k)
      BY <1>c, <1>5, <2>1, <2>2, <2>l, <2>f, <2>6 DEF Elegibles
    <3>2. Varia(Postean(k), Postean(k)', 0)
      BY <1>5, <1>r, <1>z, <2>6
    <3>. QED  BY <1>z, <2>3, <2>4, <3>1, <3>2, 0 = 0 + 0 + 0
  <2>. QED  BY <2>5, <2>6
<1>6. CASE hilo[t].en = "postea_io" /\ hilo'[t].en \notin EnFicha /\ UNCHANGED <<libre, desconectado>>
           /\ sem_io' = [sem_io EXCEPT ![TipoDe[d]] = @ + 1]
  <2>1. TipoDe[d] = q
    BY <1>6 DEF InvPool
  <2>2. Varia(Elegibles(k), Elegibles(k)', 0)
    BY <1>6, <1>e, <1>z DEF E
  <2>3. Varia(Buscan(k), Buscan(k)', 0)
    BY <1>6, <1>b, <1>z DEF EnFicha
  <2>4. CASE mio
    <3>1. Varia(Postean(k), Postean(k)', -1)
      BY <1>6, <1>r, <2>4 DEF Varia, EnFicha
    <3>2. sem_io'[k] = sem_io[k] + 1
      BY <1>t, <1>6, <2>1, <2>4
    <3>. QED  BY <2>2, <2>3, <3>1, <3>2, 0 = 1 + 0 + (-1)
  <2>5. CASE ~ mio
    <3>1. Varia(Postean(k), Postean(k)', 0)
      BY <1>6, <1>r, <1>z, <2>5 DEF EnFicha
    <3>2. sem_io'[k] = sem_io[k] + 0
      BY <1>t, <1>6, <2>1, <2>5
    <3>. QED  BY <2>2, <2>3, <3>1, <3>2, 0 = 0 + 0 + 0
  <2>. QED  BY <2>4, <2>5
<1>. HIDE DEF mio
<1>. QED  BY <1>1, <1>2, <1>3, <1>4, <1>5, <1>6, CambiosIO DEF EnFicha, UsaDispositivo

\* Nobody else touches a token.
LEMMA FichasAjenas ==
  ASSUME Inv, InvPuntos, InvLugar, InvEspera, [Next]_vars, NEW t \in Hilos, Paso(t),
         ~ (t \in HilosIO /\ PasoIO(t)), NEW k
  PROVE  /\ UNCHANGED varsIO
         /\ Buscan(k)' = Buscan(k) /\ Postean(k)' = Postean(k)
<1>1. UNCHANGED varsIO
  BY SinPool, Zenon DEF Paso
<1>2. ASSUME NEW u \in HilosIO, hilo[u].en \in {"busca_io", "postea_io"} \/ hilo'[u].en \in {"busca_io", "postea_io"}
      PROVE  hilo'[u] = hilo[u] /\ TipoPedido(u[2])' = TipoPedido(u[2])
  <2>1. hilo'[u] = hilo[u]
    BY <1>2, FichaQuieta DEF EnFicha
  <2>. QED  BY <1>2, <2>1, PedidoQueda DEF SirveIO, PuntosIO
<1>3. Buscan(k)' = Buscan(k)
  <2>1. \A u \in HilosIO : (hilo[u].en = "busca_io" /\ TipoPedido(u[2]) = k)' <=> (hilo[u].en = "busca_io" /\ TipoPedido(u[2]) = k)
    BY <1>2
  <2>. QED  BY <2>1 DEF Buscan
<1>4. Postean(k)' = Postean(k)
  <2>1. \A u \in HilosIO : (hilo[u].en = "postea_io" /\ TipoPedido(u[2]) = k)' <=> (hilo[u].en = "postea_io" /\ TipoPedido(u[2]) = k)
    BY <1>2
  <2>. QED  BY <2>1 DEF Postean
<1>. QED  BY <1>1, <1>3, <1>4

\* A program that connects brings a free device, and then its token.
LEMMA BalanceProgramas ==
  ASSUME Inv, InvUso, InvPool, NEW d \in Dispositivos, NEW k \in TiposIO,
         RegistrarIO(d) \/ CaerIO(d) \/ PostearConexion(d) \/ Atender(d)
  PROVE  \E e, s, c \in -1 .. 1 :
           /\ Varia(Elegibles(k), Elegibles(k)', e) /\ sem_io'[k] = sem_io[k] + s
           /\ Varia(Conectan(k), Conectan(k)', c) /\ e = s + c
<1>t. /\ sem_io \in [TiposIO -> Nat] /\ libre \in [Dispositivos -> BOOLEAN]
      /\ programa \in [Dispositivos -> {"apagado", "conecta", "atiende", "caido"}]
      /\ ios_conectados \in Seq(Dispositivos)
      /\ \A i \in DOMAIN ios_conectados : ios_conectados[i] \in Vivos /\ ios_conectados[i] \in Dispositivos
  BY ElementOfSeq, LenProperties DEF Inv, TypeOKIO, InvUso, Vivos
<1>z. \A S : Varia(S, S, 0)
  BY DEF Varia
<1>1. CASE RegistrarIO(d)
  <2>. PICK n : n = Len(ios_conectados) + 1
    OBVIOUS
  <2>1. /\ DOMAIN ios_conectados = 1 .. Len(ios_conectados) /\ Len(ios_conectados) \in Nat
        /\ DOMAIN ios_conectados' = DOMAIN ios_conectados \cup {n} /\ n \notin DOMAIN ios_conectados
        /\ \A i \in DOMAIN ios_conectados : ios_conectados'[i] = ios_conectados[i]
        /\ ios_conectados'[n] = d
    <3>1. ios_conectados' = Append(ios_conectados, d)
      BY <1>1 DEF RegistrarIO
    <3>2. DOMAIN ios_conectados = 1 .. Len(ios_conectados) /\ Len(ios_conectados) \in Nat
      BY <1>t, LenProperties
    <3>3. /\ DOMAIN Append(ios_conectados, d) = 1 .. Len(ios_conectados) + 1
          /\ \A i \in 1 .. Len(ios_conectados) : Append(ios_conectados, d)[i] = ios_conectados[i]
          /\ Append(ios_conectados, d)[Len(ios_conectados) + 1] = d
      BY <1>t, AppendProperties, LenProperties
    <3>. QED  BY <3>1, <3>2, <3>3
  <2>2. /\ programa[d] = "apagado" /\ d \notin Vivos /\ ~ desconectado[d]
        /\ libre' = [libre EXCEPT ![d] = TRUE] /\ programa' = [programa EXCEPT ![d] = "conecta"]
        /\ UNCHANGED <<desconectado, sem_io>>
    BY <1>1 DEF RegistrarIO, Vivos, InvPool
  <2>3. \A x \in Dispositivos : x # d => libre'[x] = libre[x] /\ programa'[x] = programa[x]
    BY <1>t, <2>2
  <2>4. libre'[d] = TRUE /\ programa'[d] = "conecta"
    BY <1>t, <2>2
  <2>5. ASSUME NEW i \in DOMAIN ios_conectados
        PROVE  ios_conectados[i] # d /\ libre'[ios_conectados[i]] = libre[ios_conectados[i]]
    <3>1. PICK x \in Dispositivos : x = ios_conectados[i] /\ x \in Vivos
      BY <1>t
    <3>2. x # d
      BY <2>2, <3>1
    <3>. QED  BY <2>3, <3>1, <3>2
  <2>6. sem_io'[k] = sem_io[k] + 0
    BY <1>t, <2>2
  <2>7. CASE TipoDe[d] = k
    <3>1. Elegibles(k)' = Elegibles(k) \cup {n} /\ n \notin Elegibles(k)
      <4>1. \A i \in DOMAIN ios_conectados : i \in Elegibles(k)' <=> i \in Elegibles(k)
        BY <2>1, <2>2, <2>5 DEF Elegibles
      <4>2. n \in Elegibles(k)' /\ n \notin Elegibles(k)
        BY <2>1, <2>2, <2>4, <2>7 DEF Elegibles
      <4>3. Elegibles(k)' \subseteq DOMAIN ios_conectados' /\ Elegibles(k) \subseteq DOMAIN ios_conectados
        BY DEF Elegibles
      <4>. QED  BY <2>1, <4>1, <4>2, <4>3
    <3>2. Conectan(k)' = Conectan(k) \cup {d} /\ d \notin Conectan(k)
      BY <2>2, <2>3, <2>4, <2>7 DEF Conectan
    <3>3. Varia(Elegibles(k), Elegibles(k)', 1) /\ Varia(Conectan(k), Conectan(k)', 1)
      BY <3>1, <3>2 DEF Varia
    <3>. QED  BY <2>6, <3>3, 1 = 0 + 1
  <2>8. CASE TipoDe[d] # k
    <3>1. Elegibles(k)' = Elegibles(k)
      <4>1. \A i \in DOMAIN ios_conectados : i \in Elegibles(k)' <=> i \in Elegibles(k)
        BY <2>1, <2>2, <2>5 DEF Elegibles
      <4>2. n \notin Elegibles(k)'
        BY <2>1, <2>8 DEF Elegibles
      <4>3. Elegibles(k)' \subseteq DOMAIN ios_conectados' /\ Elegibles(k) \subseteq DOMAIN ios_conectados
        BY DEF Elegibles
      <4>. QED  BY <2>1, <4>1, <4>2, <4>3
    <3>2. Conectan(k)' = Conectan(k)
      BY <2>2, <2>3, <2>4, <2>8 DEF Conectan
    <3>. QED  BY <1>z, <2>6, <3>1, <3>2, 0 = 0 + 0
  <2>. QED  BY <2>7, <2>8
<1>2. CASE PostearConexion(d)
  <2>1. /\ programa[d] = "conecta" /\ programa' = [programa EXCEPT ![d] = "atiende"]
        /\ sem_io' = [sem_io EXCEPT ![TipoDe[d]] = @ + 1]
        /\ UNCHANGED <<ios_conectados, libre, desconectado>>
    BY <1>2 DEF PostearConexion
  <2>2. Elegibles(k)' = Elegibles(k)
    BY <2>1 DEF Elegibles
  <2>3. \A x \in Dispositivos : x # d => programa'[x] = programa[x]
    BY <1>t, <2>1
  <2>4. programa'[d] = "atiende"
    BY <1>t, <2>1
  <2>5. CASE TipoDe[d] = k
    <3>1. Conectan(k)' = Conectan(k) \ {d} /\ d \in Conectan(k)
      BY <2>1, <2>3, <2>4, <2>5 DEF Conectan
    <3>2. Varia(Conectan(k), Conectan(k)', -1)
      BY <3>1 DEF Varia
    <3>3. sem_io'[k] = sem_io[k] + 1
      BY <1>t, <2>1, <2>5
    <3>. QED  BY <1>z, <2>2, <3>2, <3>3, 0 = 1 + (-1)
  <2>6. CASE TipoDe[d] # k
    <3>1. Conectan(k)' = Conectan(k)
      BY <2>1, <2>3, <2>4, <2>6 DEF Conectan
    <3>2. sem_io'[k] = sem_io[k] + 0
      BY <1>t, <2>1, <2>6
    <3>. QED  BY <1>z, <2>2, <3>1, <3>2, 0 = 0 + 0
  <2>. QED  BY <2>5, <2>6
<1>3. CASE CaerIO(d) \/ Atender(d)
  <2>1. UNCHANGED pool /\ (UNCHANGED programa \/ (programa[d] = "atiende" /\ programa' = [programa EXCEPT ![d] = "caido"]))
    BY <1>3 DEF CaerIO, Atender
  <2>2. Elegibles(k)' = Elegibles(k) /\ sem_io'[k] = sem_io[k] + 0
    BY <1>t, <2>1 DEF Elegibles, pool
  <2>3. \A x \in Dispositivos : programa'[x] = "conecta" <=> programa[x] = "conecta"
    BY <1>t, <2>1
  <2>4. Conectan(k)' = Conectan(k)
    BY <2>3 DEF Conectan
  <2>. QED  BY <1>z, <2>2, <2>4, 0 = 0 + 0
<1>. QED  BY <1>1, <1>2, <1>3

LEMMA PasoFichas ==
  ASSUME Inv, InvPuntos, InvLugar, InvUso, InvEspera, InvPool, FichaConDispositivo, [Next]_vars
  PROVE  FichaConDispositivo'
<1>. DEFINE Exacta(k) == Cardinality(Elegibles(k)) = sem_io[k] + Cardinality(Buscan(k)) + Cardinality(Postean(k))
                                                     + Cardinality(Conectan(k))
<1>z. \A S : Varia(S, S, 0)
  BY DEF Varia
<1>s. \A k \in TiposIO : sem_io[k] \in Nat
  BY DEF Inv, TypeOKIO
<1>1. ASSUME NEW t \in Hilos, Paso(t), NEW k \in TiposIO PROVE Exacta(k)'
  <2>1. CASE t \in HilosIO /\ PasoIO(t)
    <3>1. PICK e, s, b, p \in -1 .. 1 :
           /\ Varia(Elegibles(k), Elegibles(k)', e) /\ sem_io'[k] = sem_io[k] + s
           /\ Varia(Buscan(k), Buscan(k)', b) /\ Varia(Postean(k), Postean(k)', p)
           /\ e = s + b + p
      BY <2>1, BalanceIO
    <3>2. Conectan(k)' = Conectan(k)
      <4>1. UNCHANGED programa
        BY <2>1, CambiosIO
      <4>. QED  BY <4>1 DEF Conectan
    <3>3. Varia(Conectan(k), Conectan(k)', 0) /\ s \in Int /\ e = s + b + p + 0
      BY <1>z, <3>1, <3>2
    <3>. QED  BY <3>1, <3>3, BalanceQueda
  <2>2. CASE ~ (t \in HilosIO /\ PasoIO(t))
    <3>1. UNCHANGED varsIO /\ Buscan(k)' = Buscan(k) /\ Postean(k)' = Postean(k)
      BY <1>1, <2>2, FichasAjenas
    <3>2. Elegibles(k)' = Elegibles(k) /\ Conectan(k)' = Conectan(k) /\ sem_io'[k] = sem_io[k]
      BY <3>1 DEF Elegibles, Conectan, varsIO, pool
    <3>. QED  BY <3>1, <3>2 DEF FichaConDispositivo, Buscan, Postean, Conectan
  <2>. QED  BY <2>1, <2>2
<1>2. ASSUME UNCHANGED <<hilo, config, paso>>, NEW k
      PROVE  Buscan(k)' = Buscan(k) /\ Postean(k)' = Postean(k)
  BY <1>2 DEF Buscan, Postean, TipoPedido, Orden
<1>3. ASSUME NEW d \in Dispositivos, UNCHANGED <<hilo, config, paso>>, NEW k \in TiposIO,
             RegistrarIO(d) \/ CaerIO(d) \/ PostearConexion(d) \/ Atender(d)
      PROVE  Exacta(k)'
  <2>1. PICK e, s, c \in -1 .. 1 :
           /\ Varia(Elegibles(k), Elegibles(k)', e) /\ sem_io'[k] = sem_io[k] + s
           /\ Varia(Conectan(k), Conectan(k)', c) /\ e = s + c
    BY <1>3, BalanceProgramas
  <2>2. Varia(Buscan(k), Buscan(k)', 0) /\ Varia(Postean(k), Postean(k)', 0) /\ s \in Int /\ e = s + 0 + 0 + c
    BY <1>2, <1>3, <1>z, <2>1
  <2>. QED  BY <2>1, <2>2, BalanceQueda
<1>4. CASE Next
  <2>1. \/ \E t \in Hilos : Paso(t)
        \/ \E d \in Dispositivos : /\ RegistrarIO(d) \/ CaerIO(d) \/ PostearConexion(d) \/ Atender(d)
                                   /\ UNCHANGED <<hilo, config, paso>>
    BY <1>4, Zenon DEF Next, Entorno, varsMP
  <2>2. \A k \in TiposIO : Exacta(k)'
    <3>. HIDE DEF Exacta
    <3>. QED  BY <1>1, <1>3, <2>1
  <2>. QED  BY <2>2 DEF FichaConDispositivo, Buscan, Postean, Conectan
<1>5. CASE UNCHANGED vars
  <2>1. UNCHANGED <<hilo, config, paso, ios_conectados, libre, desconectado, sem_io, programa>>
    BY <1>5 DEF vars, varsMP, varsIO, pool
  <2>2. \A k \in TiposIO : /\ Elegibles(k)' = Elegibles(k) /\ Conectan(k)' = Conectan(k) /\ sem_io'[k] = sem_io[k]
                           /\ Buscan(k)' = Buscan(k) /\ Postean(k)' = Postean(k)
    BY <1>2, <2>1 DEF Elegibles, Conectan
  <2>. QED  BY <2>2 DEF FichaConDispositivo, Buscan, Postean, Conectan
<1>. QED  BY <1>4, <1>5

LEMMA InitFichas == Init => FichaConDispositivo
<1>. SUFFICES ASSUME Init, NEW k \in TiposIO
              PROVE  Cardinality(Elegibles(k)) = sem_io[k] + Cardinality(Buscan(k)) + Cardinality(Postean(k))
                                                 + Cardinality(Conectan(k))
  BY DEF FichaConDispositivo, Buscan, Postean, Conectan
<1>. DEFINE D == {d \in Dispositivos : Contains(config.ios, d) /\ TipoDe[d] = k}
            f == [i \in Elegibles(k) |-> config.ios[i]]
<1>t. /\ config.ios \in Seq(Dispositivos) /\ ios_conectados = config.ios
      /\ \A i, j \in DOMAIN config.ios : config.ios[i] = config.ios[j] => i = j
  BY ConfiguracionesOK DEF Init, InitIO
<1>d. DOMAIN config.ios = 1 .. Len(config.ios) /\ \A i \in DOMAIN config.ios : config.ios[i] \in Dispositivos
  BY <1>t, ElementOfSeq, LenProperties
<1>i. Inv
  BY InitInv
<1>1. Buscan(k) = {} /\ Postean(k) = {} /\ Conectan(k) = {}
  <2>1. \A t \in HilosIO : hilo[t].en = "reposo"
    BY HilosDistintos DEF Init, EnReposo
  <2>2. \A d \in Dispositivos : programa[d] # "conecta"
    BY DEF Init, InitIO
  <2>. QED  BY <2>1, <2>2 DEF Buscan, Postean, Conectan
<1>2. sem_io[k] = Cardinality(D) /\ sem_io[k] \in Nat
  BY <1>i DEF Init, InitIO, Inv, TypeOKIO
<1>3. Elegibles(k) = {i \in DOMAIN config.ios : TipoDe[config.ios[i]] = k}
  <2>1. \A i \in DOMAIN config.ios : libre[config.ios[i]] /\ ~ desconectado[config.ios[i]]
    BY <1>d DEF Init, InitIO, Contains
  <2>. QED  BY <1>t, <2>1 DEF Elegibles
<1>4. f \in Bijection(Elegibles(k), D)
  <2>1. \A i \in Elegibles(k) : config.ios[i] \in D
    BY <1>d, <1>3 DEF Contains
  <2>2. \A d \in D : \E i \in Elegibles(k) : config.ios[i] = d
    BY <1>d, <1>3 DEF Contains
  <2>3. \A i, j \in Elegibles(k) : config.ios[i] = config.ios[j] => i = j
    BY <1>t, <1>3
  <2>. HIDE DEF D
  <2>4. f \in [Elegibles(k) -> D]
    BY <2>1
  <2>5. f \in Injection(Elegibles(k), D)
    BY <2>3, <2>4 DEF Injection, IsInjective
  <2>6. f \in Surjection(Elegibles(k), D)
    BY <2>2, <2>4 DEF Surjection
  <2>. QED  BY <2>5, <2>6 DEF Bijection
<1>5. Cardinality(D) = Cardinality(Elegibles(k))
  <2>1. IsFiniteSet(Elegibles(k)) /\ ExistsBijection(Elegibles(k), D)
    BY <1>4, <1>i, FichasFinitas DEF ExistsBijection
  <2>. HIDE DEF D
  <2>. QED  BY <2>1, FS_Bijection
<1>. HIDE DEF D
<1>. QED  BY <1>1, <1>2, <1>5, FS_EmptySet

\* Each blocked process waits for what it asked for, and the tokens are exact.
InvFichas == InvEspera /\ InvPool /\ FichaConDispositivo

LEMMA FichasInductiva ==
  Spec => [](Inv /\ InvPuntos /\ InvUso /\ (~ config.cmn => InvLugar /\ InvMemoria /\ InvFichas))
<1>. DEFINE Todo == Inv /\ InvPuntos /\ InvUso /\ (~ config.cmn => InvLugar /\ InvMemoria /\ InvFichas)
<1>1. Init => Todo
  BY InitInv, InitPuntos, InitUso, InitLugar, InitMemoria, InitEspera, InitPool, InitFichas DEF InvFichas
<1>2. Todo /\ [Next]_vars => Todo'
  <2>. SUFFICES ASSUME Todo, [Next]_vars PROVE Todo'
    OBVIOUS
  <2>1. config' = config
    BY ConfigFija
  <2>2. Inv' /\ InvPuntos' /\ InvUso'
    BY PasoInv, PasoPuntos, PasoUso
  <2>3. CASE config.cmn
    BY <2>1, <2>2, <2>3
  <2>4. CASE ~ config.cmn
    <3>1. InvLugar /\ InvMemoria /\ InvEspera /\ InvPool /\ FichaConDispositivo
      BY <2>4 DEF InvFichas
    <3>2. InvLugar'
      BY <2>4, <3>1, PasoLugar
    <3>3. InvMemoria'
      BY <3>1, PasoInvMemoria DEF InvLugar
    <3>4. InvEspera'
      BY <2>2, <3>1, PasoEspera DEF InvMemoria
    <3>5. InvPool'
      BY <3>1, PasoInvPool
    <3>6. FichaConDispositivo'
      BY <3>1, PasoFichas
    <3>. QED  BY <2>2, <3>2, <3>3, <3>4, <3>5, <3>6 DEF InvFichas
  <2>. QED  BY <2>3, <2>4
<1>. HIDE DEF Todo
<1>3. Spec => []Todo
  BY <1>1, <1>2, PTL DEF Spec
<1>. QED  BY <1>3 DEF Todo

\* Without Colas Multinivel the semaphore of a type and the tokens in threads' hands
\* count its free devices, with devices that connect, fail and are returned while
\* processes are suspended: who is past the semaphore finds a device.
THEOREM FichasExactas == Spec => [](~ config.cmn => FichaConDispositivo)
<1>1. Inv /\ InvPuntos /\ InvUso /\ (~ config.cmn => InvLugar /\ InvMemoria /\ InvFichas)
        => (~ config.cmn => FichaConDispositivo)
  BY DEF InvFichas
<1>. QED  BY <1>1, FichasInductiva, PTL

-----------------------------------------------------------------------------
(* The mutexes: who is between a lock and its unlock, the table, the lists of *)
(* the processes and the priorities, where there is one CPU and every process *)
(* locks what it has not and unlocks what it has.  With two CPUs the process   *)
(* that is woken may unlock, on the other one, before the thread that woke it  *)
(* has listed the mutex among its own, and what follows is false.              *)

\* The instructions of script g before the i-th that name its mutex
SobreMutex(g, i) == {j \in 1 .. i - 1 : g[j].op \in {"MUTEX_LOCK", "MUTEX_UNLOCK"} /\ g[j].arg = g[i].arg}

\* A process asks for no mutex that it has, and gives back only one that it has.
GuionOK(g) ==
  \A i \in DOMAIN g :
    LET antes == SobreMutex(g, i) IN
      /\ g[i].op = "MUTEX_LOCK" => antes = {} \/ g[Max(antes)].op = "MUTEX_UNLOCK"
      /\ g[i].op = "MUTEX_UNLOCK" => antes # {} /\ g[Max(antes)].op = "MUTEX_LOCK"

UnaCpu == Len(config.cpus) = 1
Ordenados == UnaCpu /\ \A p \in Pids : GuionOK(config.guion[p])

\* With locals r a thread is waking the new owner of a mutex.
Despertando(r) ==
  r.en = "toma" \/ (r.en \in {"desbloquea", "desbloquea_susp", "encola"} /\ r.tras = "toma")
Despierto(p, m) == \E t \in HilosCpu : Despertando(hilo[t]) /\ hilo[t].pid = p /\ hilo[t].mtx = m

InvCpu == \A c \in Cpus : cpu[c] # NADA => c = config.cpus[1]

\* The table and the lists of the processes
InvTabla ==
  /\ \A m \in Mutexes : dueno[m] = NADA => bloqueados[m] = <<>>
  /\ \A m \in Mutexes : dueno[m] \notin ToSet(bloqueados[m])
  /\ \A p \in Pids : IsInjective(tomados[p])
  /\ \A p \in Pids, m \in Mutexes :
       /\ m \in ToSet(tomados[p]) => dueno[m] = p
       /\ dueno[m] = p => m \in ToSet(tomados[p]) \/ Cediendo(p, m) \/ Despierto(p, m)
       /\ Cediendo(p, m) \/ Despierto(p, m) => dueno[m] = p /\ m \notin ToSet(tomados[p])

\* The table and the scripts
InvGuion ==
  \A p \in Pids, m \in Mutexes : estado[p] # "EXIT" =>
    /\ PidioMutex(p, m) => dueno[m] = p \/ p \in ToSet(bloqueados[m])
    /\ p \in ToSet(bloqueados[m]) => PidioMutex(p, m)
    /\ dueno[m] = p => PidioMutex(p, m) \/ Cediendo(p, m)
    /\ Cediendo(p, m) => ~ PidioMutex(p, m)

\* What the thread that wakes the new owner finds
InvToma ==
  \A t \in HilosCpu : Despertando(hilo[t]) =>
    /\ hilo[t].en = "desbloquea" => hilo[t].pid \in Dormidos
    /\ hilo[t].en = "desbloquea_susp" => hilo[t].pid \in susp_block
    /\ hilo[t].en \in {"encola", "toma"} => hilo[t].fue # "nada"

InvParado ==
  \A p \in Pids, m \in Mutexes :
    paso[p] > 0 /\ PidioLock(p, m) /\ Parado(p) =>
      \/ p \in ToSet(bloqueados[m])
      \/ \E t \in HilosCpu : Despierta(hilo[t], "toma") /\ hilo[t].pid = p /\ hilo[t].mtx = m

InvPrioridad ==
  /\ PrioridadRestaurada
  /\ \A p \in Pids, m \in Mutexes : Cediendo(p, m) => Prioridad(p) = Original(p)
  /\ \A t \in HilosCpu : hilo[t].en \in Buscando \ {"a_block"} =>
        \E m \in Mutexes : dueno[m] = hilo[t].pid

\* Only a process that ended has its mutexes freed by the end.
InvSale ==
  \A t \in HilosCpu :
    hilo[t].en = "libera_mutex" \/ hilo[t].luego = "libera_mutex" => estado[Pid(t)] = "EXIT"

InvMutex == InvCpu /\ InvSale /\ InvTabla /\ InvGuion /\ InvToma /\ InvParado /\ InvPrioridad

\* The only CPU is that of the thread that takes a step.
LEMMA UnicaCpu ==
  ASSUME Inv, InvCpu, InvFrescos, NEW t \in HilosCpu, Paso(t), NEW v \in HilosCpu, v # t
  PROVE  hilo[v].en = "reposo" /\ hilo'[v] = hilo[v]
<1>t. /\ t \in Hilos /\ v \in Hilos /\ t[2] \in Cpus /\ v[2] \in Cpus
      /\ t = HiloCpu(t[2]) /\ v = HiloCpu(v[2])
  BY HilosDistintos
<1>1. cpu[t[2]] # NADA
  <2>1. Pid(t) \in Pids
    BY DesdeReposo, PidAtendido
  <2>. QED  BY <2>1, ProcesosOK DEF Pid
<1>2. cpu[v[2]] = NADA
  BY <1>t, <1>1 DEF InvCpu
<1>3. hilo[v].en = "reposo"
  BY <1>t, <1>2, ProcesosOK DEF Inv, TipoCpu
<1>. QED  BY <1>t, <1>3, Quietos

LEMMA PasoInvCpu ==
  ASSUME Inv, InvCpu, UnaCpu, [Next]_vars
  PROVE  InvCpu'
<1>c. config' = config
  BY ConfigFija
<1>1. ASSUME NEW t \in Hilos, Paso(t), t \in HilosCpu /\ LiberarCpu(t) PROVE InvCpu'
  <2>1. cpu' = [cpu EXCEPT ![t[2]] = NADA] /\ cpu \in [Cpus -> Pids \cup {NADA}]
    BY <1>1 DEF LiberarCpu, Inv, TipoCpu
  <2>. QED  BY <1>c, <2>1 DEF InvCpu
<1>2. ASSUME NEW t \in Hilos, Paso(t), t = HiloCP /\ PasarAExec PROVE InvCpu'
  <2>1. config.cpus \in Seq(Cpus) /\ DOMAIN config.cpus = {1}
    <3>1. config.cpus \in Seq(Cpus) /\ Len(config.cpus) = 1
      BY ConfigTipos DEF Inv, TipoPcbs, UnaCpu
    <3>. QED  BY <3>1, LenProperties
  <2>2. CpusLibres \subseteq {1} /\ CpusLibres # {}
    BY <1>2, <2>1 DEF PasarAExec, CpusLibres
  <2>3. Min(CpusLibres) = 1
    <3>1. CpusLibres \subseteq Nat
      BY <2>2
    <3>2. Min(CpusLibres) \in CpusLibres
      BY <2>2, <3>1, MinEsElemento
    <3>. QED  BY <2>2, <3>2
  <2>4. cpu' = [cpu EXCEPT ![config.cpus[1]] = hilo[HiloCP].pid] /\ cpu \in [Cpus -> Pids \cup {NADA}]
    BY <1>2, <2>3 DEF PasarAExec, Inv, TipoCpu
  <2>. QED  BY <1>c, <2>4 DEF InvCpu
<1>3. ASSUME NEW t \in Hilos, Paso(t), ~ (t \in HilosCpu /\ LiberarCpu(t)), ~ (t = HiloCP /\ PasarAExec)
      PROVE  InvCpu'
  BY <1>3, <1>c, CpuIgual DEF InvCpu
<1>4. CASE UNCHANGED cpu
  BY <1>4, <1>c DEF InvCpu
<1>. QED  BY <1>1, <1>2, <1>3, <1>4 DEF Next, Entorno, vars

\* Only the thread of a CPU changes the mutexes and the priorities.
LEMMA FueraDeCpu ==
  ASSUME Inv, InvPuntos, InvFrescos, NEW t \in Hilos, Paso(t), t \notin HilosCpu
  PROVE  /\ UNCHANGED <<dueno, bloqueados, tomados, prioridad_actual, paso>>
         /\ \A v \in HilosCpu : hilo'[v] = hilo[v]
         /\ \A c \in Cpus : cpu[c] # NADA => cpu'[c] = cpu[c]
<1>1. UNCHANGED <<dueno, bloqueados, tomados, prioridad_actual, paso>>
  <2>1. CASE PasoComun(t)
    BY <2>1 DEF PasoComun, PasoMedianoPlazo, Encolar, DesbloquearBlock, DesbloquearSusp, VencerTimer,
       Suspender, TomarEvento, Dessuspender, Volver, FinDeCandidatos, ReintentarEspera, SoltarEvento, pcbs, varsM
  <2>2. CASE PasoIO(t) \/ PasoCP
    BY <2>2 DEF PasoIO, PasoCP, TomarReady, PasarAExec, pcbs, varsM
  <2>. QED  BY <2>1, <2>2, SMTT(40) DEF Paso
<1>2. ASSUME NEW v \in HilosCpu PROVE hilo'[v] = hilo[v]
  BY HilosDistintos, Quietos
<1>3. ASSUME NEW c \in Cpus, cpu[c] # NADA PROVE cpu'[c] = cpu[c]
  <2>1. CASE t = HiloCP /\ PasarAExec
    <3>1. PICK d \in Cpus : cpu[d] = NADA /\ cpu' = [cpu EXCEPT ![d] = hilo[HiloCP].pid]
      BY <2>1, CpuElegida
    <3>. QED  BY <1>3, <3>1 DEF Inv, TipoCpu
  <2>2. CASE ~ (t = HiloCP /\ PasarAExec)
    BY <2>2, CpuIgual
  <2>. QED  BY <2>1, <2>2
<1>. QED  BY <1>1, <1>2, <1>3

\* With locals r a thread is in no unlock.
Fuera(r) == r.en # "cede" /\ ~ Despertando(r)

\* What a step of the thread of a CPU does to the mutexes.
LEMMA Clases ==
  ASSUME Inv, InvPuntos, NEW t \in HilosCpu, Paso(t)
  PROVE  \/ UNCHANGED varsM /\ Fuera(hilo[t]) /\ Fuera(hilo'[t])
         \/ /\ UNCHANGED <<dueno, bloqueados, tomados, cpu, paso, prioridad_actual>>
            /\ Despertando(hilo[t]) /\ Despertando(hilo'[t])
            /\ hilo'[t].pid = hilo[t].pid /\ hilo'[t].mtx = hilo[t].mtx
         \/ PedirMutex(t) \/ DevolverMutex(t) \/ LiberarMutex(t) \/ Ceder(t) \/ AnotarDespertado(t)
<1>t. /\ hilo[t] \in Locales /\ hilo = [u \in Hilos |-> hilo[u]] /\ t \in Hilos /\ TipoHilos
      /\ hilo[t].luego \in Continuaciones /\ hilo[t].tras \in Regresos
      /\ t \notin HilosIO /\ t \notin HilosTimer /\ t # HiloCP
  BY HilosDistintos, EnPunto DEF Inv, TipoHilos, LocalesOK
<1>1. CASE PasoComun(t)
  <2>m. UNCHANGED <<dueno, bloqueados, tomados, cpu, paso, prioridad_actual>> /\ UNCHANGED varsM
    BY <1>1 DEF PasoComun, PasoMedianoPlazo, Encolar, DesbloquearBlock, DesbloquearSusp, VencerTimer,
       Suspender, TomarEvento, Dessuspender, Volver, FinDeCandidatos, ReintentarEspera, SoltarEvento, pcbs, varsM
  <2>1. CASE Encolar(t) \/ DesbloquearSusp(t) \/ DesbloquearBlock(t)
    <3>1. /\ hilo[t].en \in {"encola", "desbloquea", "desbloquea_susp"}
          /\ hilo'[t].pid = hilo[t].pid /\ hilo'[t].mtx = hilo[t].mtx /\ hilo'[t].tras = hilo[t].tras
          /\ hilo'[t].en \in {"encola", "desbloquea_susp", hilo[t].tras}
      BY <1>t, <2>1 DEF Encolar, DesbloquearSusp, DesbloquearBlock, Ir, Locales
    <3>. QED  BY <1>t, <2>m, <3>1 DEF Fuera, Despertando, Regresos
  <2>2. CASE VencerTimer(t) \/ Suspender(t)
    BY <1>t, <2>2 DEF VencerTimer, Suspender
  <2>3. CASE TomarEvento(t) \/ FinDeCandidatos(t)
    <3>1. hilo[t].en \in {"evento", "candidatos"} /\ hilo'[t].en \in {"candidatos", "esperas"}
      BY <1>t, <2>3, LlamadaIr DEF TomarEvento, FinDeCandidatos
    <3>. QED  BY <2>m, <3>1 DEF Fuera, Despertando
  <2>4. CASE Dessuspender(t)
    <3>1. hilo[t].en = "candidatos" /\ hilo'[t].en \in {"candidatos", "vuelve"}
      BY <1>t, <2>4 DEF Dessuspender, Locales
    <3>. QED  BY <2>m, <3>1 DEF Fuera, Despertando
  <2>5. CASE Volver(t)
    <3>1. hilo[t].en = "vuelve" /\ (LlamarEncolar(t, hilo[t].pid, "candidatos") \/ Ir(t, "candidatos"))
      BY <2>5, Zenon DEF Volver
    <3>. QED  BY <1>t, <2>m, <3>1, LlamadaEncolar, LlamadaIr DEF Fuera, Despertando
  <2>6. CASE ReintentarEspera(t)
    <3>1. hilo[t].en = "esperas" /\ ((\E p : LlamarDesbloquear(t, p, "esperas")) \/ hilo' = hilo)
      BY <2>6, Zenon DEF ReintentarEspera
    <3>. QED  BY <1>t, <2>m, <3>1, LlamadaDesbloquear DEF Fuera, Despertando
  <2>7. CASE SoltarEvento(t)
    <3>1. hilo[t].en = "esperas" /\ hilo'[t].en = hilo[t].luego
      BY <1>t, <2>7 DEF SoltarEvento, Seguir, EnReposo
    <3>. QED  BY <1>t, <2>m, <3>1 DEF Fuera, Despertando, Continuaciones
  <2>. QED  BY <1>1, <2>1, <2>2, <2>3, <2>4, <2>5, <2>6, <2>7, SMTT(40) DEF PasoComun, PasoMedianoPlazo
<1>2. CASE PasoCpu(t)
  <2>1. CASE PedirBloqueoIO(t) \/ FinDeRafaga(t) \/ Finalizar(t)
    <3>1. /\ hilo[t].en = "reposo" /\ UNCHANGED varsM
          /\ \/ Ir(t, "a_block") \/ Ir(t, "libera_mutex") \/ LlamarEncolar(t, Pid(t), "libera_cpu")
      BY <2>1, Zenon DEF PedirBloqueoIO, FinDeRafaga, Finalizar, Recibir
    <3>. QED  BY <1>t, <3>1, LlamadaEncolar, LlamadaIr DEF Fuera, Despertando
  <2>2. CASE PedirMemoria(t) \/ DevolverMemoria(t)
    <3>1. /\ hilo[t].en = "reposo" /\ UNCHANGED varsM
          /\ hilo' = hilo \/ Ir(t, "a_block") \/ LlamarEvento(t, "reposo")
      BY <2>2, Zenon DEF PedirMemoria, DevolverMemoria, Recibir
    <3>. QED  BY <1>t, <3>1, LlamadaEvento, LlamadaIr DEF Fuera, Despertando
  <2>3. CASE BuscarDueno(t) \/ Heredar(t) \/ SalirDeExec(t) \/ AnotarEspera(t)
    <3>1. /\ hilo[t].en \in Buscando \cup {"anota"} /\ UNCHANGED varsM
          /\ \E e \in Buscando \cup {"entra_block", "libera_cpu"} : Ir(t, e)
      BY <2>3 DEF BuscarDueno, Buscar, Heredar, SalirDeExec, AnotarEspera, Buscando
    <3>2. hilo'[t].en \in Buscando \cup {"entra_block", "libera_cpu"}
      BY <1>t, <3>1, LlamadaIr
    <3>. QED  BY <3>1, <3>2 DEF Fuera, Despertando, Buscando
  <2>4. CASE FinalizarKM(t)
    <3>1. hilo[t].en = "libera_mutex" /\ UNCHANGED varsM /\ LlamarEvento(t, "libera_cpu")
      BY <2>4 DEF FinalizarKM
    <3>. QED  BY <1>t, <3>1, LlamadaEvento DEF Fuera, Despertando
  <2>5. CASE LiberarCpu(t)
    <3>1. hilo[t].en = "libera_cpu" /\ UNCHANGED varsM /\ hilo'[t].en = "reposo"
      BY <1>t, <2>5 DEF LiberarCpu, Terminar, Seguir, EnReposo
    <3>. QED  BY <3>1 DEF Fuera, Despertando
  <2>6. CASE EntrarABlock(t)
    <3>1. hilo[t].en = "entra_block" /\ UNCHANGED varsM /\ hilo'[t].en \in {"anota", "libera_cpu"}
      BY <1>t, <2>6 DEF EntrarABlock, Locales
    <3>. QED  BY <3>1 DEF Fuera, Despertando
  <2>. QED  BY <1>2, <2>1, <2>2, <2>3, <2>4, <2>5, <2>6 DEF PasoCpu
<1>. QED  BY <1>t, <1>1, <1>2 DEF Paso

-----------------------------------------------------------------------------
\* Who unlocks or wakes, while the only CPU takes a step and while it does not
LEMMA VistaCpu ==
  ASSUME Inv, InvCpu, InvFrescos, NEW t \in HilosCpu, Paso(t), NEW p, NEW m
  PROVE  /\ Cediendo(p, m) <=> (Pid(t) = p /\ hilo[t].en = "cede" /\ hilo[t].mtx = m)
         /\ Despierto(p, m) <=> (Despertando(hilo[t]) /\ hilo[t].pid = p /\ hilo[t].mtx = m)
         /\ Cediendo(p, m)' <=> (cpu'[t[2]] = p /\ hilo'[t].en = "cede" /\ hilo'[t].mtx = m)
         /\ Despierto(p, m)' <=> (Despertando(hilo'[t]) /\ hilo'[t].pid = p /\ hilo'[t].mtx = m)
<1>1. \A v \in HilosCpu : v # t => hilo[v].en = "reposo" /\ hilo'[v].en = "reposo"
  BY UnicaCpu
<1>. QED  BY <1>1 DEF Cediendo, Despierto, Despertando, Pid

LEMMA VistaAjena ==
  ASSUME Inv, InvPuntos, InvFrescos, NEW t \in Hilos, Paso(t), t \notin HilosCpu, NEW p, NEW m
  PROVE  (Cediendo(p, m)' <=> Cediendo(p, m)) /\ (Despierto(p, m)' <=> Despierto(p, m))
<1>1. \A v \in HilosCpu : hilo'[v] = hilo[v]
  BY FueraDeCpu
<1>2. ASSUME NEW v \in HilosCpu, hilo[v].en = "cede" PROVE cpu'[v[2]] = cpu[v[2]]
  <2>1. Pid(v) \in Pids /\ v[2] \in Cpus
    BY <1>2, PidAtendido, HilosDistintos
  <2>. QED  BY <2>1, ProcesosOK, FueraDeCpu DEF Pid
<1>. QED  BY <1>1, <1>2 DEF Cediendo, Despierto, Despertando, Pid

\* The script: the last operation on a mutex
LEMMA UltimaDe ==
  ASSUME Inv, NEW p \in Pids, NEW m, NEW S,
         S = {i \in 1 .. paso[p] : /\ config.guion[p][i].op \in {"MUTEX_LOCK", "MUTEX_UNLOCK"}
                                  /\ config.guion[p][i].arg = m}
  PROVE  /\ S = {} => UltimaSobre(p, m) = 0
         /\ S # {} => UltimaSobre(p, m) \in S /\ \A i \in S : i <= UltimaSobre(p, m)
<1>1. paso[p] \in Nat
  BY DEF Inv, TipoPcbs
<1>2. UltimaSobre(p, m) = Max({0} \cup S)
  BY DEF UltimaSobre
<1>3. {0} \cup S \subseteq Nat /\ {0} \cup S # {} /\ (\A i \in {0} \cup S : i <= paso[p]) /\ S \subseteq 1 .. paso[p]
  BY <1>1, SMTT(40)
<1>4. Max({0} \cup S) \in {0} \cup S /\ \A i \in {0} \cup S : Max({0} \cup S) >= i
  BY <1>1, <1>3, MaxEsElemento
<1>5. PICK u : u = UltimaSobre(p, m)
  OBVIOUS
<1>6. u \in {0} \cup S /\ \A i \in {0} \cup S : u >= i
  BY <1>2, <1>4, <1>5
<1>7. /\ S = {} => u = 0
      /\ S # {} => u \in S /\ \A i \in S : i <= u
  BY <1>1, <1>3, <1>6
<1>. QED  BY <1>5, <1>7

LEMMA GuionPide ==
  ASSUME Inv, NEW p \in Pids, GuionOK(config.guion[p]), paso[p] < Len(config.guion[p]),
         NEW m, Proxima(p).arg = m
  PROVE  /\ Proxima(p).op = "MUTEX_LOCK" => ~ PidioMutex(p, m)
         /\ Proxima(p).op = "MUTEX_UNLOCK" => PidioMutex(p, m)
<1>. DEFINE g == config.guion[p]
            n == paso[p]
            S == {i \in 1 .. n : g[i].op \in {"MUTEX_LOCK", "MUTEX_UNLOCK"} /\ g[i].arg = m}
<1>1. g \in Seq(Instruccion) /\ n \in Nat /\ n < Len(g)
  BY ConfigTipos DEF Inv, TipoPcbs
<1>2. n + 1 \in DOMAIN g /\ (n + 1) - 1 = n
  BY <1>1, LenProperties
<1>3. SobreMutex(g, n + 1) = S
  BY <1>2, SMTT(40) DEF SobreMutex, Proxima
<1>4. /\ g[n + 1].op = "MUTEX_LOCK" => S = {} \/ g[Max(S)].op = "MUTEX_UNLOCK"
      /\ g[n + 1].op = "MUTEX_UNLOCK" => S # {} /\ g[Max(S)].op = "MUTEX_LOCK"
  BY <1>2, <1>3 DEF GuionOK
<1>5. S \subseteq 1 .. n
  OBVIOUS
<1>6. /\ S = {} => UltimaSobre(p, m) = 0
      /\ S # {} => UltimaSobre(p, m) \in S /\ \A i \in S : i <= UltimaSobre(p, m)
  BY UltimaDe
<1>. HIDE DEF S
<1>7. S # {} => Max(S) = UltimaSobre(p, m)
  <2>1. SUFFICES ASSUME S # {} PROVE Max(S) = UltimaSobre(p, m)
    OBVIOUS
  <2>2. S \subseteq Nat /\ \A i \in S : i <= n
    BY <1>1, <1>5
  <2>3. Max(S) \in S /\ \A i \in S : Max(S) >= i
    BY <1>1, <2>1, <2>2, MaxEsElemento
  <2>. QED  BY <1>6, <2>1, <2>2, <2>3
<1>8. S # {} => UltimaSobre(p, m) # 0
  BY <1>1, <1>5, <1>6
<1>. QED  BY <1>4, <1>6, <1>7, <1>8 DEF PidioMutex, Proxima

LEMMA PidioQueda ==
  ASSUME NEW p \in Pids, NEW m, paso'[p] = paso[p], config' = config
  PROVE  PidioMutex(p, m)' <=> PidioMutex(p, m)
BY DEF PidioMutex, UltimaSobre

LEMMA PidioCambia ==
  ASSUME Inv, Inv', NEW p \in Pids, NEW m, paso'[p] = paso[p] + 1, config' = config
  PROVE  PidioMutex(p, m)' <=>
           IF Proxima(p).op \in {"MUTEX_LOCK", "MUTEX_UNLOCK"} /\ Proxima(p).arg = m
           THEN Proxima(p).op = "MUTEX_LOCK" ELSE PidioMutex(p, m)
<1>. DEFINE g == config.guion[p]
            n == paso[p]
            Sobre(i) == g[i].op \in {"MUTEX_LOCK", "MUTEX_UNLOCK"} /\ g[i].arg = m
            S == {i \in 1 .. n : Sobre(i)}
            T == {i \in 1 .. n + 1 : Sobre(i)}
<1>1. n \in Nat
  BY DEF Inv, TipoPcbs
<1>2. /\ S = {} => UltimaSobre(p, m) = 0
      /\ S # {} => UltimaSobre(p, m) \in S /\ \A i \in S : i <= UltimaSobre(p, m)
  BY UltimaDe
<1>3. UltimaSobre(p, m)' = Max({0} \cup T)
  BY DEF UltimaSobre
<1>u. PICK u : u = Max({0} \cup T)
  OBVIOUS
<1>4. u \in {0} \cup T /\ \A i \in T : i <= u
  <2>1. {0} \cup T \subseteq Nat /\ {0} \cup T # {} /\ n + 1 \in Nat /\ \A i \in {0} \cup T : i <= n + 1
    BY <1>1, SMTT(40)
  <2>2. u \in {0} \cup T /\ \A i \in {0} \cup T : u >= i
    BY <1>u, <2>1, MaxEsElemento
  <2>. QED  BY <2>1, <2>2
<1>5. PidioMutex(p, m)' <=> (u # 0 /\ g[u].op = "MUTEX_LOCK")
  BY <1>3, <1>u DEF PidioMutex
<1>6. CASE Sobre(n + 1)
  <2>1. n + 1 \in T /\ T \subseteq 1 .. n + 1
    BY <1>1, <1>6
  <2>. HIDE DEF T
  <2>2. u \in Nat /\ u <= n + 1 /\ n + 1 <= u
    BY <1>1, <1>4, <2>1
  <2>3. u = n + 1 /\ u # 0
    BY <1>1, <2>2
  <2>. QED  BY <1>5, <1>6, <2>3 DEF Proxima
<1>7. CASE ~ Sobre(n + 1)
  <2>1. T = S
    <3>1. \A i \in 1 .. n + 1 : i \in 1 .. n \/ i = n + 1
      BY <1>1
    <3>2. \A i \in 1 .. n : i \in 1 .. n + 1
      BY <1>1
    <3>. QED  BY <1>7, <3>1, <3>2
  <2>2. S \subseteq 1 .. n
    OBVIOUS
  <2>. HIDE DEF T, S
  <2>3. u = UltimaSobre(p, m)
    <3>1. PICK w : w = UltimaSobre(p, m)
      OBVIOUS
    <3>2. /\ S = {} => w = 0
          /\ S # {} => w \in S /\ \A i \in S : i <= w
      BY <1>2, <3>1
    <3>3. u \in {0} \cup S /\ \A i \in S : i <= u
      BY <1>4, <2>1
    <3>4. CASE S = {}
      BY <3>1, <3>2, <3>3, <3>4
    <3>5. CASE S # {}
      <4>1. w \in S /\ \A i \in S : i <= w
        BY <3>2, <3>5
      <4>2. \A i \in S : i \in Nat /\ i # 0
        <5>1. \A i \in 1 .. n : i \in Nat /\ i # 0
          BY <1>1
        <5>. QED  BY <2>2, <5>1
      <4>3. u \in S
        <5>1. u # 0
          <6>1. SUFFICES ASSUME u = 0 PROVE FALSE
            OBVIOUS
          <6>2. w \in Nat /\ w # 0 /\ w <= 0
            BY <3>3, <4>1, <4>2, <6>1
          <6>. QED  BY <6>2
        <5>. QED  BY <3>3, <5>1
      <4>4. w <= u /\ u <= w /\ u \in Nat /\ w \in Nat
        BY <3>3, <4>1, <4>2, <4>3
      <4>5. u = w
        BY <4>4
      <4>. QED  BY <3>1, <4>5
    <3>. QED  BY <3>4, <3>5
  <2>. QED  BY <1>5, <1>7, <2>3 DEF PidioMutex, Proxima
<1>. QED  BY <1>6, <1>7

-----------------------------------------------------------------------------
\* What each of the steps of a syscall on a mutex does.
LEMMA EfectoPedir ==
  ASSUME Inv, NEW t \in HilosCpu, PedirMutex(t)
  PROVE  \E q \in Pids, m \in Mutexes :
           /\ q = Pid(t) /\ hilo[t].en = "reposo" /\ Recibir(t, "MUTEX_LOCK")
           /\ paso[q] < Len(config.guion[q]) /\ Proxima(q).op = "MUTEX_LOCK" /\ Proxima(q).arg = m
           /\ paso'[q] = paso[q] + 1 /\ q \in lista_exec
           /\ UNCHANGED <<cpu, estado, prioridad_actual>>
           /\ \/ /\ dueno[m] = NADA /\ dueno' = [dueno EXCEPT ![m] = q]
                 /\ tomados' = [tomados EXCEPT ![q] = Append(@, m)] /\ UNCHANGED <<bloqueados, hilo>>
              \/ /\ dueno[m] # NADA /\ bloqueados' = [bloqueados EXCEPT ![m] = Append(@, q)]
                 /\ UNCHANGED <<dueno, tomados>> /\ hilo'[t].en = "busca_exec" /\ hilo'[t].pid = dueno[m]
<1>1. Recibir(t, "MUTEX_LOCK") /\ UNCHANGED <<estado, prioridad_actual>>
  BY DEF PedirMutex, pcbs
<1>2. PICK q \in Pids, m \in Mutexes : q = Pid(t) /\ m = Proxima(q).arg /\ hilo[t].en = "reposo"
  BY <1>1, PidRecibido
<1>3. /\ paso[q] < Len(config.guion[q]) /\ Proxima(q).op = "MUTEX_LOCK"
      /\ paso'[q] = paso[q] + 1 /\ q \in lista_exec /\ UNCHANGED cpu
  BY <1>1, <1>2 DEF Recibir, Inv, TipoPcbs
<1>4. CASE TomarMutex(m, q) /\ UNCHANGED hilo
  BY <1>1, <1>2, <1>3, <1>4 DEF TomarMutex, NADA
<1>5. CASE EsperarMutex(m, q) /\ hilo' = [hilo EXCEPT ![t].en = "busca_exec", ![t].pid = dueno[m]]
  <2>1. hilo'[t].en = "busca_exec" /\ hilo'[t].pid = dueno[m]
    <3>1. hilo = [v \in Hilos |-> hilo[v]] /\ hilo[t] \in Locales /\ t \in Hilos
      BY HilosDistintos DEF Inv, TipoHilos, LocalesOK
    <3>. QED  BY <1>5, <3>1 DEF Locales
  <2>. QED  BY <1>1, <1>2, <1>3, <1>5, <2>1 DEF EsperarMutex, NADA
<1>6. \/ TomarMutex(m, q) /\ UNCHANGED hilo
      \/ EsperarMutex(m, q) /\ hilo' = [hilo EXCEPT ![t].en = "busca_exec", ![t].pid = dueno[m]]
  BY <1>2 DEF PedirMutex
<1>. QED  BY <1>4, <1>5, <1>6

\* Who starts an unlock has the mutex.
LEMMA EfectoUnlock ==
  ASSUME Inv, InvPuntos, InvLugar, InvEspera, InvCpu, InvTabla, InvGuion, Ordenados,
         NEW t \in HilosCpu, Paso(t), DevolverMutex(t) \/ LiberarMutex(t)
  PROVE  \E q \in Pids, m \in Mutexes :
           /\ q = Pid(t) /\ m \in ToSet(tomados[q])
           /\ tomados' = [tomados EXCEPT ![q] = RemoveFirst(@, m)]
           /\ UNCHANGED <<dueno, bloqueados, cpu, estado>>
           /\ prioridad_actual' = [prioridad_actual EXCEPT ![q] = config.prioridad[q]]
           /\ hilo'[t].en = "cede" /\ hilo'[t].mtx = m
           /\ hilo[t].en \in {"reposo", "libera_mutex"}
           /\ DevolverMutex(t) => /\ hilo[t].en = "reposo" /\ hilo'[t].luego = "reposo"
                                  /\ paso'[q] = paso[q] + 1
                                  /\ Proxima(q).op = "MUTEX_UNLOCK" /\ Proxima(q).arg = m
           /\ LiberarMutex(t) => hilo[t].en = "libera_mutex" /\ UNCHANGED paso
<1>t. hilo = [v \in Hilos |-> hilo[v]] /\ hilo[t] \in Locales /\ t \in Hilos /\ t[2] \in Cpus
  BY HilosDistintos DEF Inv, TipoHilos, LocalesOK
<1>u. ASSUME NEW m \in Mutexes, NEW e, EmpezarUnlock(t, m, e)
      PROVE  /\ tomados' = [tomados EXCEPT ![Pid(t)] = RemoveFirst(@, m)]
             /\ UNCHANGED <<dueno, bloqueados>>
             /\ prioridad_actual' = [prioridad_actual EXCEPT ![Pid(t)] = config.prioridad[Pid(t)]]
             /\ hilo'[t].en = "cede" /\ hilo'[t].mtx = m /\ hilo'[t].luego = e
  <2>1. hilo'[t].en = "cede" /\ hilo'[t].mtx = m /\ hilo'[t].luego = e
    BY <1>t, <1>u DEF EmpezarUnlock, Locales
  <2>. QED  BY <1>u, <2>1 DEF EmpezarUnlock, QuitarDeTomados, CambiarPrioridad, Original
<1>1. CASE DevolverMutex(t)
  <2>1. Recibir(t, "MUTEX_UNLOCK") /\ UNCHANGED estado
    BY <1>1 DEF DevolverMutex
  <2>2. PICK q \in Pids, m \in Mutexes : q = Pid(t) /\ m = Proxima(q).arg /\ hilo[t].en = "reposo"
    BY <2>1, PidRecibido
  <2>3. /\ paso[q] < Len(config.guion[q]) /\ Proxima(q).op = "MUTEX_UNLOCK"
        /\ paso'[q] = paso[q] + 1 /\ q \in lista_exec /\ UNCHANGED cpu
    BY <2>1, <2>2 DEF Recibir, Inv, TipoPcbs
  <2>4. EmpezarUnlock(t, m, "reposo")
    BY <1>1, <2>2 DEF DevolverMutex
  <2>5. PidioMutex(q, m)
    BY <2>2, <2>3, GuionPide DEF Ordenados
  <2>6. estado[q] # "EXIT"
    BY <2>3 DEF InvLugar, InvListas
  <2>7. q \notin ToSet(bloqueados[m])
    BY <2>1, <2>2, NoPide DEF InvEspera, InvEsperaMutex
  <2>8. dueno[m] = q
    BY <2>5, <2>6, <2>7 DEF InvGuion
  <2>9. ~ Cediendo(q, m) /\ ~ Despierto(q, m)
    <3>1. InvFrescos
      BY DEF InvLugar
    <3>. QED  BY <2>2, <3>1, VistaCpu DEF Despertando
  <2>10. m \in ToSet(tomados[q])
    BY <2>8, <2>9 DEF InvTabla
  <2>11. ~ LiberarMutex(t)
    BY <2>2 DEF LiberarMutex
  <2>. QED  BY <1>u, <2>1, <2>2, <2>3, <2>4, <2>10, <2>11
<1>2. CASE LiberarMutex(t)
  <2>1. hilo[t].en = "libera_mutex" /\ UNCHANGED <<estado, cpu, paso>>
    BY <1>2 DEF LiberarMutex
  <2>2. PICK q \in Pids : q = Pid(t)
    BY <2>1, PidAtendido
  <2>3. tomados[q] \in Seq(Mutexes) /\ tomados[q] # <<>>
    BY <1>2, <2>2 DEF LiberarMutex, Inv, TypeOKMutex
  <2>4. PICK m : m = Head(tomados[q])
    OBVIOUS
  <2>5. m \in ToSet(tomados[q]) /\ m \in Mutexes
    <3>1. Head(tomados[q]) \in Mutexes
      BY <2>3, HeadTailProperties
    <3>. QED  BY <2>3, <2>4, <3>1, CabezaYCola
  <2>6. EmpezarUnlock(t, m, "libera_mutex")
    BY <1>2, <2>2, <2>4 DEF LiberarMutex
  <2>7. ~ DevolverMutex(t)
    BY <2>1 DEF DevolverMutex, Recibir
  <2>. QED  BY <1>u, <2>1, <2>2, <2>5, <2>6, <2>7
<1>. QED  BY <1>1, <1>2

LEMMA EfectoCeder ==
  ASSUME Inv, InvPuntos, NEW t \in HilosCpu, Ceder(t)
  PROVE  \E q \in Pids, m \in Mutexes :
           /\ q = Pid(t) /\ m = hilo[t].mtx /\ hilo[t].en = "cede"
           /\ UNCHANGED <<tomados, cpu, paso, prioridad_actual, estado, cola_block, susp_block>>
           /\ \/ /\ bloqueados[m] = <<>> /\ dueno' = [dueno EXCEPT ![m] = NADA] /\ bloqueados' = bloqueados
                 /\ hilo'[t].en \in Continuaciones
              \/ \E h \in Pids :
                   /\ bloqueados[m] # <<>> /\ h = Head(bloqueados[m]) /\ dueno' = [dueno EXCEPT ![m] = h]
                   /\ bloqueados' = [bloqueados EXCEPT ![m] = Tail(@)]
                   /\ hilo'[t].en = "desbloquea" /\ hilo'[t].tras = "toma"
                   /\ hilo'[t].pid = h /\ hilo'[t].mtx = m
<1>t. /\ TipoHilos /\ hilo = [v \in Hilos |-> hilo[v]] /\ hilo[t] \in Locales /\ t \in Hilos
      /\ hilo[t].luego \in Continuaciones
  BY HilosDistintos, EnPunto DEF Inv, TipoHilos, LocalesOK
<1>1. /\ hilo[t].en = "cede"
      /\ UNCHANGED <<tomados, cpu, paso, prioridad_actual, estado, cola_block, susp_block>>
  BY DEF Ceder, CederMutex, pcbs, suspendidos
<1>2. PICK q \in Pids, m \in Mutexes : q = Pid(t) /\ m = hilo[t].mtx
  BY <1>1, <1>t, PidAtendido, EnPunto DEF ConMutex
<1>3. bloqueados[m] \in Seq(Pids) /\ bloqueados \in [Mutexes -> Seq(Pids)]
  BY DEF Inv, TypeOKMutex
<1>4. CASE bloqueados[m] = <<>>
  <2>1. dueno' = [dueno EXCEPT ![m] = NADA] /\ bloqueados' = bloqueados
    BY <1>2, <1>3, <1>4 DEF Ceder, CederMutex, NADA
  <2>2. Seguir(t, hilo[t].luego)
    BY <1>2, <1>4 DEF Ceder
  <2>3. hilo'[t].en = hilo[t].luego
    BY <1>t, <2>2 DEF Seguir, EnReposo
  <2>. QED  BY <1>t, <1>1, <1>2, <1>4, <2>1, <2>3
<1>5. CASE bloqueados[m] # <<>>
  <2>1. PICK h \in Pids : h = Head(bloqueados[m])
    BY <1>3, <1>5, HeadTailProperties
  <2>2. dueno' = [dueno EXCEPT ![m] = h] /\ bloqueados' = [bloqueados EXCEPT ![m] = Tail(@)]
    BY <1>2, <1>3, <1>5, <2>1 DEF Ceder, CederMutex
  <2>3. LlamarDesbloquear(t, h, "toma")
    BY <1>2, <1>5, <2>1 DEF Ceder
  <2>4. /\ hilo'[t].en = "desbloquea" /\ hilo'[t].tras = "toma"
        /\ hilo'[t].pid = h /\ hilo'[t].mtx = hilo[t].mtx
    BY <1>t, <2>3 DEF LlamarDesbloquear, Locales
  <2>. QED  BY <1>1, <1>2, <1>5, <2>1, <2>2, <2>4
<1>. QED  BY <1>4, <1>5

LEMMA EfectoAnotar ==
  ASSUME Inv, InvPuntos, InvToma, NEW t \in HilosCpu, AnotarDespertado(t)
  PROVE  \E p \in Pids, m \in Mutexes :
           /\ p = hilo[t].pid /\ m = hilo[t].mtx /\ hilo[t].en = "toma"
           /\ tomados' = [tomados EXCEPT ![p] = Append(@, m)]
           /\ UNCHANGED <<dueno, bloqueados, cpu, paso, prioridad_actual, estado>>
           /\ hilo'[t].en \in Continuaciones \cup {"evento"}
<1>t. /\ TipoHilos /\ hilo = [v \in Hilos |-> hilo[v]] /\ hilo[t] \in Locales /\ t \in Hilos
      /\ hilo[t].luego \in Continuaciones /\ LocalesOK(hilo[t])
  BY HilosDistintos, EnPunto DEF Inv, TipoHilos, LocalesOK
<1>1. hilo[t].en = "toma" /\ UNCHANGED <<cpu, paso, prioridad_actual, estado>>
  BY DEF AnotarDespertado, pcbs
<1>2. PICK p \in Pids, m \in Mutexes : p = hilo[t].pid /\ m = hilo[t].mtx
  BY <1>t, <1>1 DEF LocalesOK, ConPid, ConMutex
<1>3. hilo[t].fue # "nada"
  BY <1>1 DEF InvToma, Despertando
<1>4. tomados' = [tomados EXCEPT ![p] = Append(@, m)] /\ UNCHANGED <<dueno, bloqueados>>
  BY <1>2, <1>3 DEF AnotarDespertado, AnotarTomado
<1>5. LlamarEvento(t, hilo[t].luego) \/ Seguir(t, hilo[t].luego)
  BY DEF AnotarDespertado
<1>6. hilo'[t].en \in Continuaciones \cup {"evento"}
  BY <1>t, <1>5, LlamadaEvento DEF Seguir, EnReposo
<1>. QED  BY <1>1, <1>2, <1>4, <1>6

-----------------------------------------------------------------------------
\* The table, one pair of process and mutex at a time
FilaDe(p, m) ==
  /\ m \in ToSet(tomados[p]) => dueno[m] = p
  /\ dueno[m] = p => m \in ToSet(tomados[p]) \/ Cediendo(p, m) \/ Despierto(p, m)
  /\ Cediendo(p, m) \/ Despierto(p, m) => dueno[m] = p /\ m \notin ToSet(tomados[p])

Colados(m) ==
  /\ dueno[m] = NADA => bloqueados[m] = <<>>
  /\ dueno[m] \notin ToSet(bloqueados[m])

LEMMA TablaPedir ==
  ASSUME Inv, InvPuntos, InvLugar, InvEspera, InvCpu, InvTabla, InvGuion, Ordenados,
         NEW t \in HilosCpu, Paso(t), PedirMutex(t)
  PROVE  InvTabla'
<1>f. InvFrescos /\ TypeOKMutex(Pids)
  BY DEF InvLugar, Inv
<1>0. PICK q \in Pids, n \in Mutexes :
        /\ q = Pid(t) /\ hilo[t].en = "reposo" /\ Recibir(t, "MUTEX_LOCK")
        /\ paso[q] < Len(config.guion[q]) /\ Proxima(q).op = "MUTEX_LOCK" /\ Proxima(q).arg = n
        /\ paso'[q] = paso[q] + 1 /\ q \in lista_exec
        /\ UNCHANGED <<cpu, estado, prioridad_actual>>
        /\ \/ /\ dueno[n] = NADA /\ dueno' = [dueno EXCEPT ![n] = q]
              /\ tomados' = [tomados EXCEPT ![q] = Append(@, n)] /\ UNCHANGED <<bloqueados, hilo>>
           \/ /\ dueno[n] # NADA /\ bloqueados' = [bloqueados EXCEPT ![n] = Append(@, q)]
              /\ UNCHANGED <<dueno, tomados>> /\ hilo'[t].en = "busca_exec" /\ hilo'[t].pid = dueno[n]
  BY EfectoPedir
<1>v. ASSUME NEW p, NEW m
      PROVE  ~ Cediendo(p, m) /\ ~ Despierto(p, m) /\ ~ Cediendo(p, m)' /\ ~ Despierto(p, m)'
  <2>1. hilo[t].en = "reposo" /\ hilo'[t].en \in {"reposo", "busca_exec"}
    BY <1>0
  <2>. QED  BY <1>f, <2>1, VistaCpu DEF Despertando
<1>1. CASE /\ dueno[n] = NADA /\ dueno' = [dueno EXCEPT ![n] = q]
           /\ tomados' = [tomados EXCEPT ![q] = Append(@, n)] /\ UNCHANGED bloqueados
  <2>1. bloqueados[n] = <<>> /\ ToSet(bloqueados[n]) = {} /\ q # NADA
    <3>1. bloqueados[n] = <<>>
      BY <1>1 DEF InvTabla
    <3>. QED  BY <3>1, ProcesosOK DEF ToSet
  <2>2. n \notin ToSet(tomados[q]) /\ tomados[q] \in Seq(Mutexes) /\ IsInjective(tomados[q])
    BY <1>1, <1>f, <2>1 DEF InvTabla, TypeOKMutex
  <2>3. ToSet(Append(tomados[q], n)) = ToSet(tomados[q]) \cup {n} /\ IsInjective(Append(tomados[q], n))
    BY <2>2, ToSetAppend, AppendSinRepetir
  <2>4. ASSUME NEW p \in Pids
        PROVE  IsInjective(tomados'[p]) /\ ToSet(tomados'[p]) = IF p = q THEN ToSet(tomados[p]) \cup {n} ELSE ToSet(tomados[p])
    BY <1>1, <1>f, <2>3, ZenonT(60) DEF InvTabla, TypeOKMutex
  <2>5. ASSUME NEW m \in Mutexes PROVE Colados(m)'
    BY <1>1, <1>f, <2>1 DEF InvTabla, TypeOKMutex, Colados
  <2>6. ASSUME NEW p \in Pids, NEW m \in Mutexes PROVE FilaDe(p, m)'
    <3>1. /\ m \in ToSet(tomados[p]) => dueno[m] = p
          /\ dueno[m] = p => m \in ToSet(tomados[p])
      BY <1>v DEF InvTabla
    <3>2. dueno'[m] = IF m = n THEN q ELSE dueno[m]
      BY <1>1, <1>f DEF TypeOKMutex
    <3>3. m \in ToSet(tomados'[p]) <=> m \in ToSet(tomados[p]) \/ (p = q /\ m = n)
      BY <2>4
    <3>4. (m \in ToSet(tomados'[p]) => dueno'[m] = p) /\ (dueno'[m] = p => m \in ToSet(tomados'[p]))
      BY <1>1, <2>1, <3>1, <3>2, <3>3, ProcesosOK
    <3>. QED  BY <1>v, <3>4 DEF FilaDe
  <2>. QED  BY <2>4, <2>5, <2>6 DEF InvTabla, FilaDe, Colados
<1>2. CASE dueno[n] # NADA /\ bloqueados' = [bloqueados EXCEPT ![n] = Append(@, q)] /\ UNCHANGED <<dueno, tomados>>
  <2>1. dueno[n] # q
    <3>1. ~ PidioMutex(q, n)
      BY <1>0, GuionPide DEF Ordenados
    <3>2. estado[q] # "EXIT"
      BY <1>0 DEF InvLugar, InvListas
    <3>. QED  BY <1>v, <3>1, <3>2 DEF InvGuion
  <2>2. bloqueados[n] \in Seq(Pids) /\ ToSet(Append(bloqueados[n], q)) = ToSet(bloqueados[n]) \cup {q}
    BY <1>f, ToSetAppend DEF TypeOKMutex
  <2>3. ASSUME NEW m \in Mutexes PROVE Colados(m)'
    <3>1. CASE m = n
      BY <1>2, <1>f, <2>1, <2>2, <3>1 DEF InvTabla, TypeOKMutex, Colados
    <3>2. CASE m # n
      BY <1>2, <1>f, <3>2 DEF InvTabla, TypeOKMutex, Colados
    <3>. QED  BY <3>1, <3>2
  <2>4. ASSUME NEW p \in Pids, NEW m \in Mutexes PROVE FilaDe(p, m)' /\ IsInjective(tomados'[p])
    BY <1>2, <1>v DEF InvTabla, FilaDe
  <2>. QED  BY <2>3, <2>4 DEF InvTabla, FilaDe, Colados
<1>. QED  BY <1>0, <1>1, <1>2

LEMMA TablaUnlock ==
  ASSUME Inv, InvPuntos, InvLugar, InvEspera, InvCpu, InvTabla, InvGuion, Ordenados,
         NEW t \in HilosCpu, Paso(t), DevolverMutex(t) \/ LiberarMutex(t)
  PROVE  InvTabla'
<1>f. InvFrescos /\ TypeOKMutex(Pids)
  BY DEF InvLugar, Inv
<1>0. PICK q \in Pids, n \in Mutexes :
           /\ q = Pid(t) /\ n \in ToSet(tomados[q])
           /\ tomados' = [tomados EXCEPT ![q] = RemoveFirst(@, n)]
           /\ UNCHANGED <<dueno, bloqueados, cpu, estado>>
           /\ hilo'[t].en = "cede" /\ hilo'[t].mtx = n
           /\ hilo[t].en \in {"reposo", "libera_mutex"}
  BY EfectoUnlock
<1>v. ASSUME NEW p, NEW m
      PROVE  /\ ~ Cediendo(p, m) /\ ~ Despierto(p, m)
             /\ Cediendo(p, m)' <=> (p = q /\ m = n)
             /\ ~ Despierto(p, m)'
  <2>1. cpu'[t[2]] = q
    BY <1>0 DEF Pid
  <2>. QED  BY <1>f, <1>0, <2>1, VistaCpu DEF Despertando
<1>1. tomados[q] \in Seq(Mutexes) /\ IsInjective(tomados[q])
  BY <1>f DEF InvTabla, TypeOKMutex
<1>2. /\ IsInjective(RemoveFirst(tomados[q], n))
      /\ ToSet(RemoveFirst(tomados[q], n)) = ToSet(tomados[q]) \ {n}
  BY <1>1, RemoveFirstElementos
<1>3. ASSUME NEW p \in Pids
      PROVE  IsInjective(tomados'[p]) /\ ToSet(tomados'[p]) = IF p = q THEN ToSet(tomados[p]) \ {n} ELSE ToSet(tomados[p])
  BY <1>0, <1>f, <1>2 DEF InvTabla, TypeOKMutex
<1>4. ASSUME NEW m \in Mutexes PROVE Colados(m)'
  BY <1>0 DEF InvTabla, Colados
<1>5. ASSUME NEW p \in Pids, NEW m \in Mutexes PROVE FilaDe(p, m)'
  <2>1. /\ m \in ToSet(tomados[p]) => dueno[m] = p
        /\ dueno[m] = p => m \in ToSet(tomados[p])
        /\ dueno[n] = q
    BY <1>0, <1>v DEF InvTabla
  <2>2. m \in ToSet(tomados'[p]) <=> m \in ToSet(tomados[p]) /\ ~ (p = q /\ m = n)
    BY <1>3
  <2>3. dueno'[m] = dueno[m]
    BY <1>0
  <2>. QED  BY <1>v, <2>1, <2>2, <2>3 DEF FilaDe
<1>. QED  BY <1>3, <1>4, <1>5 DEF InvTabla, FilaDe, Colados

LEMMA TablaCeder ==
  ASSUME Inv, InvPuntos, InvLugar, InvEspera, InvCpu, InvTabla,
         NEW t \in HilosCpu, Paso(t), Ceder(t)
  PROVE  InvTabla'
<1>f. InvFrescos /\ TypeOKMutex(Pids) /\ InvEsperaMutex
  BY DEF InvLugar, Inv, InvEspera
<1>0. PICK q \in Pids, n \in Mutexes :
           /\ q = Pid(t) /\ n = hilo[t].mtx /\ hilo[t].en = "cede"
           /\ UNCHANGED <<tomados, cpu, paso, prioridad_actual, estado, cola_block, susp_block>>
           /\ \/ /\ bloqueados[n] = <<>> /\ dueno' = [dueno EXCEPT ![n] = NADA] /\ bloqueados' = bloqueados
                 /\ hilo'[t].en \in Continuaciones
              \/ \E h \in Pids :
                   /\ bloqueados[n] # <<>> /\ h = Head(bloqueados[n]) /\ dueno' = [dueno EXCEPT ![n] = h]
                   /\ bloqueados' = [bloqueados EXCEPT ![n] = Tail(@)]
                   /\ hilo'[t].en = "desbloquea" /\ hilo'[t].tras = "toma"
                   /\ hilo'[t].pid = h /\ hilo'[t].mtx = n
  BY EfectoCeder
<1>v. ASSUME NEW p, NEW m
      PROVE  /\ Cediendo(p, m) <=> (p = q /\ m = n)
             /\ ~ Despierto(p, m) /\ ~ Cediendo(p, m)'
             /\ Despierto(p, m)' <=> (Despertando(hilo'[t]) /\ hilo'[t].pid = p /\ hilo'[t].mtx = m)
  <2>1. hilo'[t].en # "cede"
    BY <1>0 DEF Continuaciones
  <2>. QED  BY <1>f, <1>0, <2>1, VistaCpu DEF Despertando
<1>1. dueno[n] = q /\ n \notin ToSet(tomados[q]) /\ q # NADA
  BY <1>v, ProcesosOK DEF InvTabla
<1>2. ASSUME NEW p \in Pids PROVE n \notin ToSet(tomados[p])
  BY <1>1 DEF InvTabla
<1>3. CASE /\ bloqueados[n] = <<>> /\ dueno' = [dueno EXCEPT ![n] = NADA] /\ bloqueados' = bloqueados
           /\ hilo'[t].en \in Continuaciones
  <2>1. ~ Despertando(hilo'[t])
    BY <1>3 DEF Despertando, Continuaciones
  <2>2. ASSUME NEW m \in Mutexes PROVE Colados(m)'
    <3>1. ToSet(<<>>) = {}
      BY DEF ToSet
    <3>. QED  BY <1>3, <1>f, <3>1 DEF InvTabla, TypeOKMutex, Colados
  <2>3. ASSUME NEW p \in Pids, NEW m \in Mutexes PROVE FilaDe(p, m)' /\ IsInjective(tomados'[p])
    <3>1. dueno'[m] = IF m = n THEN NADA ELSE dueno[m]
      BY <1>3, <1>f DEF TypeOKMutex
    <3>2. FilaDe(p, m) /\ IsInjective(tomados[p]) /\ p # NADA
      BY ProcesosOK DEF InvTabla, FilaDe
    <3>. QED  BY <1>0, <1>2, <1>v, <2>1, <3>1, <3>2 DEF FilaDe
  <2>. QED  BY <2>2, <2>3 DEF InvTabla, FilaDe, Colados
<1>4. ASSUME NEW h \in Pids, bloqueados[n] # <<>>, h = Head(bloqueados[n]), dueno' = [dueno EXCEPT ![n] = h],
             bloqueados' = [bloqueados EXCEPT ![n] = Tail(@)], hilo'[t].en = "desbloquea", hilo'[t].tras = "toma",
             hilo'[t].pid = h, hilo'[t].mtx = n
      PROVE  InvTabla'
  <2>1. Despertando(hilo'[t])
    BY <1>4 DEF Despertando
  <2>2. bloqueados[n] \in Seq(Pids) /\ IsInjective(bloqueados[n])
    BY <1>f DEF InvEsperaMutex, TypeOKMutex
  <2>3. h \in ToSet(bloqueados[n]) /\ ToSet(Tail(bloqueados[n])) = ToSet(bloqueados[n]) \ {h}
    BY <1>4, <2>2, CabezaYCola
  <2>4. ASSUME NEW m \in Mutexes PROVE Colados(m)'
    <3>1. CASE m = n
      <4>1. dueno'[m] = h /\ bloqueados'[m] = Tail(bloqueados[n]) /\ h # NADA
        BY <1>4, <1>f, <3>1, ProcesosOK DEF TypeOKMutex
      <4>. QED  BY <2>3, <4>1 DEF Colados
    <3>2. CASE m # n
      BY <1>4, <1>f, <3>2 DEF InvTabla, TypeOKMutex, Colados
    <3>. QED  BY <3>1, <3>2
  <2>5. ASSUME NEW p \in Pids, NEW m \in Mutexes PROVE FilaDe(p, m)' /\ IsInjective(tomados'[p])
    <3>1. dueno'[m] = IF m = n THEN h ELSE dueno[m]
      BY <1>4, <1>f DEF TypeOKMutex
    <3>2. FilaDe(p, m) /\ IsInjective(tomados[p])
      BY DEF InvTabla, FilaDe
    <3>3. Despierto(p, m)' <=> (p = h /\ m = n)
      BY <1>4, <1>v, <2>1
    <3>. QED  BY <1>0, <1>2, <1>v, <3>1, <3>2, <3>3 DEF FilaDe
  <2>. QED  BY <2>4, <2>5 DEF InvTabla, FilaDe, Colados
<1>. QED  BY <1>0, <1>3, <1>4

LEMMA TablaAnotar ==
  ASSUME Inv, InvPuntos, InvLugar, InvCpu, InvTabla, InvToma,
         NEW t \in HilosCpu, Paso(t), AnotarDespertado(t)
  PROVE  InvTabla'
<1>f. InvFrescos /\ TypeOKMutex(Pids)
  BY DEF InvLugar, Inv
<1>0. PICK q \in Pids, n \in Mutexes :
           /\ q = hilo[t].pid /\ n = hilo[t].mtx /\ hilo[t].en = "toma"
           /\ tomados' = [tomados EXCEPT ![q] = Append(@, n)]
           /\ UNCHANGED <<dueno, bloqueados, cpu, paso, prioridad_actual, estado>>
           /\ hilo'[t].en \in Continuaciones \cup {"evento"}
  BY EfectoAnotar
<1>v. ASSUME NEW p, NEW m
      PROVE  /\ Despierto(p, m) <=> (p = q /\ m = n)
             /\ ~ Cediendo(p, m) /\ ~ Cediendo(p, m)' /\ ~ Despierto(p, m)'
  BY <1>f, <1>0, VistaCpu DEF Despertando, Continuaciones
<1>1. dueno[n] = q /\ n \notin ToSet(tomados[q])
  BY <1>v DEF InvTabla
<1>2. tomados[q] \in Seq(Mutexes) /\ IsInjective(tomados[q])
  BY <1>f DEF InvTabla, TypeOKMutex
<1>3. ToSet(Append(tomados[q], n)) = ToSet(tomados[q]) \cup {n} /\ IsInjective(Append(tomados[q], n))
  BY <1>1, <1>2, ToSetAppend, AppendSinRepetir
<1>4. ASSUME NEW p \in Pids
      PROVE  IsInjective(tomados'[p]) /\ ToSet(tomados'[p]) = IF p = q THEN ToSet(tomados[p]) \cup {n} ELSE ToSet(tomados[p])
  <2>1. IsInjective(tomados[p])
    BY DEF InvTabla
  <2>2. p \in DOMAIN tomados
    BY <1>f DEF TypeOKMutex
  <2>3. CASE p = q
    <3>1. tomados'[p] = Append(tomados[q], n)
      BY <1>0, <2>2, <2>3, Zenon
    <3>. QED  BY <1>3, <2>3, <3>1
  <2>4. CASE p # q
    <3>1. tomados'[p] = tomados[p]
      BY <1>0, <2>2, <2>4, Zenon
    <3>. QED  BY <2>1, <2>4, <3>1
  <2>. QED  BY <2>3, <2>4
<1>5. ASSUME NEW m \in Mutexes PROVE Colados(m)'
  BY <1>0 DEF InvTabla, Colados
<1>6. ASSUME NEW p \in Pids, NEW m \in Mutexes PROVE FilaDe(p, m)'
  <2>1. FilaDe(p, m)
    BY DEF InvTabla, FilaDe
  <2>2. m \in ToSet(tomados'[p]) <=> m \in ToSet(tomados[p]) \/ (p = q /\ m = n)
    BY <1>4
  <2>. QED  BY <1>0, <1>1, <1>v, <2>1, <2>2 DEF FilaDe
<1>. QED  BY <1>4, <1>5, <1>6 DEF InvTabla, FilaDe, Colados

LEMMA PasoTabla ==
  ASSUME Inv, InvPuntos, InvLugar, InvEspera, InvCpu, InvTabla, InvGuion, InvToma, Ordenados,
         NEW t \in Hilos, Paso(t)
  PROVE  InvTabla'
<1>f. InvFrescos
  BY DEF InvLugar
<1>1. ASSUME UNCHANGED <<dueno, bloqueados, tomados>>,
             \A p \in Pids, m \in Mutexes : (Cediendo(p, m)' <=> Cediendo(p, m)) /\ (Despierto(p, m)' <=> Despierto(p, m))
      PROVE  InvTabla'
  <2>1. ASSUME NEW p \in Pids, NEW m \in Mutexes PROVE FilaDe(p, m)'
    <3>1. FilaDe(p, m)
      BY DEF InvTabla, FilaDe
    <3>. QED  BY <1>1, <3>1 DEF FilaDe
  <2>2. (\A m \in Mutexes : Colados(m)') /\ \A p \in Pids : IsInjective(tomados'[p])
    BY <1>1 DEF InvTabla, Colados
  <2>. QED  BY <2>1, <2>2 DEF InvTabla, FilaDe, Colados
<1>2. CASE t \notin HilosCpu
  <2>1. UNCHANGED <<dueno, bloqueados, tomados>>
    BY <1>2, <1>f, FueraDeCpu
  <2>2. \A p \in Pids, m \in Mutexes : (Cediendo(p, m)' <=> Cediendo(p, m)) /\ (Despierto(p, m)' <=> Despierto(p, m))
    BY <1>2, <1>f, VistaAjena
  <2>. QED  BY <1>1, <2>1, <2>2
<1>3. ASSUME t \in HilosCpu, UNCHANGED varsM, Fuera(hilo[t]), Fuera(hilo'[t]) PROVE InvTabla'
  <2>1. \A p \in Pids, m \in Mutexes : (Cediendo(p, m)' <=> Cediendo(p, m)) /\ (Despierto(p, m)' <=> Despierto(p, m))
    BY <1>3, <1>f, VistaCpu DEF Fuera
  <2>. QED  BY <1>1, <1>3, <2>1 DEF varsM
<1>4. ASSUME t \in HilosCpu, UNCHANGED <<dueno, bloqueados, tomados>>, Despertando(hilo[t]), Despertando(hilo'[t]),
             hilo'[t].pid = hilo[t].pid, hilo'[t].mtx = hilo[t].mtx
      PROVE  InvTabla'
  <2>1. hilo[t].en # "cede" /\ hilo'[t].en # "cede"
    BY <1>4 DEF Despertando
  <2>2. \A p \in Pids, m \in Mutexes : (Cediendo(p, m)' <=> Cediendo(p, m)) /\ (Despierto(p, m)' <=> Despierto(p, m))
    BY <1>4, <1>f, <2>1, VistaCpu
  <2>. QED  BY <1>1, <1>4, <2>2
<1>. QED  BY <1>2, <1>3, <1>4, Clases, TablaPedir, TablaUnlock, TablaCeder, TablaAnotar

-----------------------------------------------------------------------------
\* A process that ended goes to no other state.
LEMMA ExitQueda ==
  ASSUME Inv, InvPuntos, InvLugar, NEW t \in Hilos, Paso(t), NEW p \in Pids, estado[p] = "EXIT"
  PROVE  estado'[p] = "EXIT"
<1>t. /\ estado \in [Pids -> Estados] /\ p \notin lista_exec /\ p \notin susp_ready
      /\ p \notin cola_block /\ p \notin susp_block
  BY DEF Inv, TipoPcbs, InvLugar, InvListas
<1>1. CASE PasoComun(t)
  <2>1. CASE DesbloquearBlock(t)
    <3>1. UNCHANGED estado \/ (hilo[t].pid \in cola_block /\ estado' = [estado EXCEPT ![hilo[t].pid] = "READY"])
      BY <2>1 DEF DesbloquearBlock
    <3>. QED  BY <1>t, <3>1
  <2>2. CASE DesbloquearSusp(t)
    <3>1. UNCHANGED estado \/ (hilo[t].pid \in susp_block /\ estado' = [estado EXCEPT ![hilo[t].pid] = "SUSP_READY"])
      BY <2>2 DEF DesbloquearSusp
    <3>. QED  BY <1>t, <3>1
  <2>3. CASE VencerTimer(t)
    <3>1. UNCHANGED estado \/ (t[2] \in cola_block /\ estado' = [estado EXCEPT ![t[2]] = "SUSP_BLOCK"])
      BY <2>3 DEF VencerTimer
    <3>. QED  BY <1>t, <3>1
  <2>4. CASE Volver(t)
    <3>1. UNCHANGED estado \/ (hilo[t].pid \in susp_ready /\ estado' = [estado EXCEPT ![hilo[t].pid] = "READY"])
      BY <2>4, SMTT(40) DEF Volver
    <3>. QED  BY <1>t, <3>1
  <2>5. CASE Encolar(t) \/ Suspender(t) \/ TomarEvento(t) \/ Dessuspender(t) \/ FinDeCandidatos(t)
             \/ ReintentarEspera(t) \/ SoltarEvento(t)
    BY <2>5 DEF Encolar, Suspender, TomarEvento, Dessuspender, FinDeCandidatos, ReintentarEspera, SoltarEvento
  <2>. QED  BY <1>1, <2>1, <2>2, <2>3, <2>4, <2>5 DEF PasoComun, PasoMedianoPlazo
<1>2. CASE t \in HilosIO /\ PasoIO(t)
  BY <1>2 DEF PasoIO
<1>3. CASE t \in HilosCpu /\ PasoCpu(t)
  <2>1. CASE SalirDeExec(t)
    <3>1. hilo[t].en = "a_block" /\ estado' = [estado EXCEPT ![Pid(t)] = "BLOCK"]
      BY <2>1 DEF SalirDeExec
    <3>2. t[2] \in Cpus /\ t = HiloCpu(t[2]) /\ t \in Hilos
      BY <1>3, HilosDistintos
    <3>3. Pid(t) \in lista_exec
      <4>1. Pid(t) \in Pids
        BY <1>3, <3>1, PidAtendido
      <4>2. Atiende(t[2])
        BY <3>1, <3>2, <4>1, ProcesosOK DEF Atiende, Solto, InvPuntos, SinLlamada, Pid
      <4>. QED  BY <3>2, <4>2 DEF InvLugar, InvRafagas, Pid
    <3>. QED  BY <1>t, <3>1, <3>3
  <2>2. CASE FinDeRafaga(t) \/ Finalizar(t)
    <3>1. Pid(t) \in lista_exec /\ \E e : estado' = [estado EXCEPT ![Pid(t)] = e]
      BY <2>2 DEF FinDeRafaga, Finalizar, Recibir
    <3>. QED  BY <1>t, <3>1
  <2>3. CASE ~ (SalirDeExec(t) \/ FinDeRafaga(t) \/ Finalizar(t))
    BY <1>3, <2>3 DEF PasoCpu, PedirBloqueoIO, PedirMemoria, DevolverMemoria, PedirMutex, BuscarDueno,
       Buscar, Heredar, DevolverMutex, Ceder, AnotarDespertado, LiberarMutex, FinalizarKM, EntrarABlock,
       AnotarEspera, LiberarCpu
  <2>. QED  BY <2>1, <2>2, <2>3
<1>4. CASE t = HiloCP /\ PasoCP
  <2>1. CASE TomarReady
    BY <2>1 DEF TomarReady
  <2>2. CASE PasarAExec
    <3>1. estado' = [estado EXCEPT ![hilo[HiloCP].pid] = "EXEC"] /\ hilo[HiloCP].en = "despacha"
      BY <2>2 DEF PasarAExec
    <3>2. estado[hilo[HiloCP].pid] = "READY"
      BY <3>1, HilosDistintos, DeMano DEF Manos, InvLugar, ConEstado
    <3>. QED  BY <1>t, <3>1, <3>2
  <2>. QED  BY <1>4, <2>1, <2>2 DEF PasoCP
<1>. QED  BY <1>1, <1>2, <1>3, <1>4 DEF Paso

\* With locals r a thread is ending a process.
Sale(r) == r.en = "libera_mutex" \/ r.luego = "libera_mutex"

LEMMA NuevoSale ==
  ASSUME Inv, InvPuntos, NEW t \in HilosCpu, Paso(t), Sale(hilo'[t])
  PROVE  Sale(hilo[t]) \/ Finalizar(t)
<1>t. /\ hilo[t] \in Locales /\ hilo = [u \in Hilos |-> hilo[u]] /\ t \in Hilos /\ TipoHilos
      /\ hilo[t].luego \in Continuaciones /\ hilo[t].tras \in Regresos
      /\ t \notin HilosIO /\ t \notin HilosTimer /\ t # HiloCP
  BY HilosDistintos, EnPunto DEF Inv, TipoHilos, LocalesOK
<1>1. CASE PasoComun(t)
  <2>1. CASE Encolar(t) \/ DesbloquearSusp(t) \/ DesbloquearBlock(t)
    <3>1. /\ hilo'[t].luego = hilo[t].luego
          /\ hilo'[t].en \in {"encola", "desbloquea_susp", hilo[t].tras}
      BY <1>t, <2>1 DEF Encolar, DesbloquearSusp, DesbloquearBlock, Ir, Locales
    <3>. QED  BY <1>t, <3>1 DEF Sale, Regresos
  <2>2. CASE VencerTimer(t) \/ Suspender(t)
    BY <1>t, <2>2 DEF VencerTimer, Suspender
  <2>3. CASE TomarEvento(t) \/ FinDeCandidatos(t)
    <3>1. hilo'[t].luego = hilo[t].luego /\ hilo'[t].en \in {"candidatos", "esperas"}
      BY <1>t, <2>3, LlamadaIr DEF TomarEvento, FinDeCandidatos
    <3>. QED  BY <3>1 DEF Sale
  <2>4. CASE Dessuspender(t)
    <3>1. hilo[t].en = "candidatos" /\ hilo'[t].en \in {"candidatos", "vuelve"} /\ hilo'[t].luego = hilo[t].luego
      BY <1>t, <2>4 DEF Dessuspender, Locales
    <3>. QED  BY <3>1 DEF Sale
  <2>5. CASE Volver(t)
    <3>1. LlamarEncolar(t, hilo[t].pid, "candidatos") \/ Ir(t, "candidatos")
      BY <2>5, Zenon DEF Volver
    <3>. QED  BY <1>t, <3>1, LlamadaEncolar, LlamadaIr DEF Sale
  <2>6. CASE ReintentarEspera(t)
    <3>1. (\E p : LlamarDesbloquear(t, p, "esperas")) \/ hilo' = hilo
      BY <2>6, Zenon DEF ReintentarEspera
    <3>. QED  BY <1>t, <3>1, LlamadaDesbloquear DEF Sale
  <2>7. CASE SoltarEvento(t)
    <3>1. hilo'[t].en = hilo[t].luego /\ hilo'[t].luego = "reposo"
      BY <1>t, <2>7 DEF SoltarEvento, Seguir, EnReposo
    <3>. QED  BY <3>1 DEF Sale
  <2>. QED  BY <1>1, <2>1, <2>2, <2>3, <2>4, <2>5, <2>6, <2>7 DEF PasoComun, PasoMedianoPlazo
<1>2. CASE PasoCpu(t)
  <2>1. CASE PedirBloqueoIO(t) \/ FinDeRafaga(t)
    <3>1. Ir(t, "a_block") \/ LlamarEncolar(t, Pid(t), "libera_cpu")
      BY <2>1, Zenon DEF PedirBloqueoIO, FinDeRafaga
    <3>. QED  BY <1>t, <3>1, LlamadaEncolar, LlamadaIr DEF Sale
  <2>2. CASE PedirMemoria(t) \/ DevolverMemoria(t) \/ FinalizarKM(t)
    <3>1. hilo' = hilo \/ Ir(t, "a_block") \/ LlamarEvento(t, "reposo") \/ LlamarEvento(t, "libera_cpu")
      BY <2>2, Zenon DEF PedirMemoria, DevolverMemoria, FinalizarKM
    <3>. QED  BY <1>t, <3>1, LlamadaEvento, LlamadaIr DEF Sale
  <2>3. CASE BuscarDueno(t) \/ Heredar(t) \/ SalirDeExec(t) \/ AnotarEspera(t)
    <3>1. \E e \in Buscando \cup {"entra_block", "libera_cpu"} : Ir(t, e)
      BY <2>3 DEF BuscarDueno, Buscar, Heredar, SalirDeExec, AnotarEspera, Buscando
    <3>2. hilo'[t].en \in Buscando \cup {"entra_block", "libera_cpu"} /\ hilo'[t].luego = hilo[t].luego
      BY <1>t, <3>1, LlamadaIr
    <3>. QED  BY <3>2 DEF Sale, Buscando
  <2>4. CASE LiberarCpu(t)
    <3>1. hilo'[t].en = "reposo" /\ hilo'[t].luego = "reposo"
      BY <1>t, <2>4 DEF LiberarCpu, Terminar, Seguir, EnReposo
    <3>. QED  BY <3>1 DEF Sale
  <2>5. CASE EntrarABlock(t)
    <3>1. hilo'[t].luego = hilo[t].luego /\ hilo'[t].en \in {"anota", "libera_cpu"}
      BY <1>t, <2>5 DEF EntrarABlock, Locales
    <3>. QED  BY <3>1 DEF Sale
  <2>6. CASE PedirMutex(t)
    <3>1. PICK p : \/ hilo' = hilo
                   \/ hilo' = [hilo EXCEPT ![t].en = "busca_exec", ![t].pid = p]
      BY <2>6, Zenon DEF PedirMutex
    <3>2. hilo' = hilo \/ (hilo'[t].en = "busca_exec" /\ hilo'[t].luego = hilo[t].luego)
      BY <1>t, <3>1 DEF Locales
    <3>. QED  BY <3>2 DEF Sale
  <2>7. CASE DevolverMutex(t)
    <3>1. \E m : hilo' = [hilo EXCEPT ![t].en = "cede", ![t].mtx = m, ![t].luego = "reposo"]
      BY <2>7, Zenon DEF DevolverMutex, EmpezarUnlock
    <3>2. hilo'[t].en = "cede" /\ hilo'[t].luego = "reposo"
      BY <1>t, <3>1 DEF Locales
    <3>. QED  BY <3>2 DEF Sale
  <2>8. CASE LiberarMutex(t)
    BY <2>8 DEF LiberarMutex, Sale
  <2>9. CASE Ceder(t) \/ AnotarDespertado(t)
    <3>1. (\E p : LlamarDesbloquear(t, p, "toma")) \/ Seguir(t, hilo[t].luego) \/ LlamarEvento(t, hilo[t].luego)
      BY <2>9, Zenon DEF Ceder, AnotarDespertado
    <3>2. CASE \E p : LlamarDesbloquear(t, p, "toma")
      BY <1>t, <3>2, LlamadaDesbloquear DEF Sale
    <3>3. CASE Seguir(t, hilo[t].luego)
      <4>1. hilo'[t].en = hilo[t].luego /\ hilo'[t].luego = "reposo"
        BY <1>t, <3>3 DEF Seguir, EnReposo
      <4>. QED  BY <4>1 DEF Sale
    <3>4. CASE LlamarEvento(t, hilo[t].luego)
      BY <1>t, <3>4, LlamadaEvento DEF Sale
    <3>. QED  BY <3>1, <3>2, <3>3, <3>4
  <2>10. CASE Finalizar(t)
    BY <2>10
  <2>. QED  BY <1>2, <2>1, <2>2, <2>3, <2>4, <2>5, <2>6, <2>7, <2>8, <2>9, <2>10 DEF PasoCpu
<1>. QED  BY <1>t, <1>1, <1>2 DEF Paso

LEMMA PasoSale ==
  ASSUME Inv, InvPuntos, InvLugar, InvCpu, InvSale, NEW t \in Hilos, Paso(t)
  PROVE  InvSale'
<1>f. InvFrescos
  BY DEF InvLugar
<1>1. ASSUME NEW v \in HilosCpu, Sale(hilo'[v]) PROVE (estado[Pid(v)] = "EXIT")'
  <2>t. v[2] \in Cpus /\ v = HiloCpu(v[2]) /\ v \in Hilos /\ cpu \in [Cpus -> Pids \cup {NADA}]
    BY HilosDistintos DEF Inv, TipoCpu
  <2>1. CASE Sale(hilo[v])
    <3>1. hilo[v].en # "reposo"
      BY <2>t, <2>1 DEF Sale, InvPuntos, SinLlamada
    <3>2. PICK p \in Pids : p = Pid(v) /\ estado[p] = "EXIT"
      BY <2>1, <3>1, PidAtendido DEF InvSale, Sale
    <3>3. estado'[p] = "EXIT"
      BY <3>2, ExitQueda
    <3>4. cpu'[v[2]] = p
      <4>1. CASE t \in HilosCpu /\ LiberarCpu(t)
        <5>1. t # v
          <6>1. hilo'[t].en = "reposo" /\ hilo'[t].luego = "reposo"
            BY <4>1, HilosDistintos DEF LiberarCpu, Terminar, Seguir, EnReposo, Inv, TipoHilos
          <6>. QED  BY <1>1, <6>1 DEF Sale
        <5>. QED  BY <1>f, <3>1, <4>1, <5>1, UnicaCpu
      <4>2. CASE t = HiloCP /\ PasarAExec
        <5>1. t \notin HilosCpu
          BY <4>2, HilosDistintos
        <5>. QED  BY <1>f, <2>t, <3>2, <5>1, FueraDeCpu, ProcesosOK DEF Pid
      <4>3. CASE ~ (t \in HilosCpu /\ LiberarCpu(t)) /\ ~ (t = HiloCP /\ PasarAExec)
        BY <3>2, <4>3, CpuIgual DEF Pid
      <4>. QED  BY <4>1, <4>2, <4>3
    <3>. QED  BY <3>3, <3>4 DEF Pid
  <2>2. CASE ~ Sale(hilo[v])
    <3>1. t = v
      <4>1. SUFFICES ASSUME t # v PROVE FALSE
        OBVIOUS
      <4>2. hilo'[v] = hilo[v]
        BY <1>f, <2>t, <4>1, Quietos
      <4>. QED  BY <1>1, <2>2, <4>2
    <3>2. Finalizar(t)
      BY <1>1, <2>2, <3>1, NuevoSale
    <3>3. estado' = [estado EXCEPT ![Pid(t)] = "EXIT"] /\ cpu' = cpu /\ Recibir(t, "EXIT")
      BY <3>2 DEF Finalizar, Recibir
    <3>4. PICK p \in Pids : p = Pid(t)
      BY <3>1, <3>3, PidRecibido
    <3>5. estado'[p] = "EXIT"
      BY <3>3, <3>4 DEF Inv, TipoPcbs
    <3>. QED  BY <3>1, <3>3, <3>4, <3>5 DEF Pid
  <2>. QED  BY <2>1, <2>2
<1>. QED  BY <1>1 DEF InvSale, Sale

-----------------------------------------------------------------------------
\* What else moves the script of a process is on no mutex.
LEMMA OtroPedido ==
  ASSUME Inv, NEW t \in Hilos, Paso(t), ~ (t \in HilosCpu /\ (PedirMutex(t) \/ DevolverMutex(t))),
         NEW p \in Pids, paso'[p] # paso[p]
  PROVE  paso'[p] = paso[p] + 1 /\ Proxima(p).op \notin {"MUTEX_LOCK", "MUTEX_UNLOCK"}
<1>1. t \in HilosCpu /\ p = Pid(t)
  BY PasoDelGuion
<1>2. ~ PasoComun(t) /\ ~ PasoIO(t) /\ ~ PasoCP
  BY DEF PasoComun, PasoIO, PasoCP, TomarReady, PasarAExec
<1>3. PasoCpu(t)
  BY <1>1, <1>2 DEF Paso
<1>4. \E o \in {"IO", "INTERRUPCION", "MEM_ALLOC", "MEM_FREE", "EXIT"} : Recibir(t, o)
  BY <1>1, <1>3 DEF PasoCpu, PedirBloqueoIO, FinDeRafaga, PedirMemoria, DevolverMemoria, BuscarDueno, Buscar,
     Heredar, Ceder, AnotarDespertado, Finalizar, LiberarMutex, FinalizarKM, SalirDeExec, EntrarABlock,
     AnotarEspera, LiberarCpu
<1>. QED  BY <1>1, <1>4 DEF Recibir, Inv, TipoPcbs

\* The scripts, one pair of process and mutex at a time
GuionDe(p, m) ==
  /\ PidioMutex(p, m) => dueno[m] = p \/ p \in ToSet(bloqueados[m])
  /\ p \in ToSet(bloqueados[m]) => PidioMutex(p, m)
  /\ dueno[m] = p => PidioMutex(p, m) \/ Cediendo(p, m)
  /\ Cediendo(p, m) => ~ PidioMutex(p, m)

\* What was asked for last, of a process whose script did not move or moved to
\* something that is on another mutex
LEMMA PidioIgual ==
  ASSUME Inv, Inv', config' = config, NEW p \in Pids, NEW m,
         \/ paso'[p] = paso[p]
         \/ /\ paso'[p] = paso[p] + 1
            /\ ~ (Proxima(p).op \in {"MUTEX_LOCK", "MUTEX_UNLOCK"} /\ Proxima(p).arg = m)
  PROVE  PidioMutex(p, m)' <=> PidioMutex(p, m)
<1>1. CASE paso'[p] = paso[p]
  BY <1>1, PidioQueda
<1>2. CASE /\ paso'[p] = paso[p] + 1
           /\ ~ (Proxima(p).op \in {"MUTEX_LOCK", "MUTEX_UNLOCK"} /\ Proxima(p).arg = m)
  BY <1>2, PidioCambia
<1>. QED  BY <1>1, <1>2

LEMMA PasoGuion ==
  ASSUME Inv, Inv', [Next]_vars, InvPuntos, InvLugar, InvEspera, InvCpu, InvSale, InvTabla, InvGuion, InvToma,
         Ordenados, NEW t \in Hilos, Paso(t)
  PROVE  InvGuion'
<1>f. InvFrescos /\ TypeOKMutex(Pids) /\ config' = config
  BY ConfigFija DEF InvLugar, Inv
<1>. SUFFICES ASSUME NEW p \in Pids, NEW m \in Mutexes, estado'[p] # "EXIT"
              PROVE  GuionDe(p, m)'
  BY DEF InvGuion, GuionDe
<1>g. estado[p] # "EXIT" /\ GuionDe(p, m)
  <2>1. estado[p] # "EXIT"
    BY ExitQueda
  <2>. QED  BY <2>1 DEF InvGuion, GuionDe
<1>p. ASSUME ~ (t \in HilosCpu /\ (PedirMutex(t) \/ DevolverMutex(t)))
      PROVE  PidioMutex(p, m)' <=> PidioMutex(p, m)
  BY <1>f, <1>p, OtroPedido, PidioIgual
<1>1. CASE t \notin HilosCpu
  <2>1. UNCHANGED <<dueno, bloqueados>>
    BY <1>1, <1>f, FueraDeCpu
  <2>2. Cediendo(p, m)' <=> Cediendo(p, m)
    BY <1>1, <1>f, VistaAjena
  <2>3. PidioMutex(p, m)' <=> PidioMutex(p, m)
    BY <1>1, <1>p
  <2>. QED  BY <1>g, <2>1, <2>2, <2>3 DEF GuionDe
<1>2. CASE t \in HilosCpu /\ PedirMutex(t)
  <2>0. PICK q \in Pids, n \in Mutexes :
        /\ q = Pid(t) /\ hilo[t].en = "reposo" /\ Recibir(t, "MUTEX_LOCK")
        /\ paso[q] < Len(config.guion[q]) /\ Proxima(q).op = "MUTEX_LOCK" /\ Proxima(q).arg = n
        /\ paso'[q] = paso[q] + 1 /\ q \in lista_exec
        /\ UNCHANGED <<cpu, estado, prioridad_actual>>
        /\ \/ /\ dueno[n] = NADA /\ dueno' = [dueno EXCEPT ![n] = q]
              /\ tomados' = [tomados EXCEPT ![q] = Append(@, n)] /\ UNCHANGED <<bloqueados, hilo>>
           \/ /\ dueno[n] # NADA /\ bloqueados' = [bloqueados EXCEPT ![n] = Append(@, q)]
              /\ UNCHANGED <<dueno, tomados>> /\ hilo'[t].en = "busca_exec" /\ hilo'[t].pid = dueno[n]
    BY <1>2, EfectoPedir
  <2>1. ~ Cediendo(p, m) /\ ~ Cediendo(p, m)'
    <3>1. hilo[t].en = "reposo" /\ hilo'[t].en \in {"reposo", "busca_exec"}
      BY <2>0
    <3>. QED  BY <1>f, <1>2, <3>1, VistaCpu
  <2>2. p # q => paso'[p] = paso[p]
    BY <2>0 DEF Recibir, Inv, TipoPcbs
  <2>3. PidioMutex(p, m)' <=> PidioMutex(p, m) \/ (p = q /\ m = n)
    <3>1. CASE p = q
      BY <1>f, <2>0, <3>1, PidioCambia
    <3>2. CASE p # q
      BY <1>f, <2>2, <3>2, PidioQueda
    <3>. QED  BY <3>1, <3>2
  <2>4. ToSet(Append(bloqueados[n], q)) = ToSet(bloqueados[n]) \cup {q}
    BY <1>f, ToSetAppend DEF TypeOKMutex
  <2>5. CASE dueno[n] = NADA /\ dueno' = [dueno EXCEPT ![n] = q] /\ UNCHANGED bloqueados
    <3>1. dueno'[m] = (IF m = n THEN q ELSE dueno[m])
      BY <1>f, <2>5 DEF TypeOKMutex
    <3>2. m = n => ToSet(bloqueados[m]) = {}
      <4>1. bloqueados[n] = <<>>
        BY <2>5 DEF InvTabla
      <4>. QED  BY <4>1 DEF ToSet
    <3>. QED  BY <1>g, <2>1, <2>3, <2>5, <3>1, <3>2, ProcesosOK DEF GuionDe
  <2>6. CASE dueno[n] # NADA /\ bloqueados' = [bloqueados EXCEPT ![n] = Append(@, q)] /\ UNCHANGED dueno
    <3>1. p \in ToSet(bloqueados'[m]) <=> p \in ToSet(bloqueados[m]) \/ (p = q /\ m = n)
      BY <1>f, <2>4, <2>6 DEF TypeOKMutex
    <3>. QED  BY <1>g, <2>1, <2>3, <2>6, <3>1 DEF GuionDe
  <2>. QED  BY <2>0, <2>5, <2>6
<1>3. CASE t \in HilosCpu /\ (DevolverMutex(t) \/ LiberarMutex(t))
  <2>0. PICK q \in Pids, n \in Mutexes :
           /\ q = Pid(t) /\ n \in ToSet(tomados[q])
           /\ UNCHANGED <<dueno, bloqueados, cpu, estado>>
           /\ hilo'[t].en = "cede" /\ hilo'[t].mtx = n
           /\ hilo[t].en \in {"reposo", "libera_mutex"}
           /\ DevolverMutex(t) => /\ hilo[t].en = "reposo" /\ hilo'[t].luego = "reposo"
                                  /\ paso'[q] = paso[q] + 1
                                  /\ Proxima(q).op = "MUTEX_UNLOCK" /\ Proxima(q).arg = n
           /\ LiberarMutex(t) => hilo[t].en = "libera_mutex" /\ UNCHANGED paso
    BY <1>3, EfectoUnlock
  <2>1. ~ Cediendo(p, m) /\ (Cediendo(p, m)' <=> (p = q /\ m = n))
    <3>1. cpu'[t[2]] = q
      BY <2>0 DEF Pid
    <3>. QED  BY <1>3, <1>f, <2>0, <3>1, VistaCpu
  <2>2. CASE DevolverMutex(t)
    <3>1. p # q => paso'[p] = paso[p]
      BY <2>0, <2>2 DEF DevolverMutex, Recibir, Inv, TipoPcbs
    <3>2. PidioMutex(p, m)' <=> PidioMutex(p, m) /\ ~ (p = q /\ m = n)
      <4>1. CASE p = q
        BY <1>f, <2>0, <2>2, <4>1, PidioCambia
      <4>2. CASE p # q
        BY <1>f, <3>1, <4>2, PidioQueda
      <4>. QED  BY <4>1, <4>2
    <3>3. dueno[n] = q /\ q \notin ToSet(bloqueados[n])
      BY <2>0 DEF InvTabla
    <3>. QED  BY <1>g, <2>0, <2>1, <3>2, <3>3 DEF GuionDe
  <2>3. CASE LiberarMutex(t)
    <3>1. estado[q] = "EXIT"
      BY <1>3, <2>0, <2>3 DEF InvSale
    <3>2. p # q
      BY <1>g, <3>1
    <3>3. PidioMutex(p, m)' <=> PidioMutex(p, m)
      BY <1>f, <2>0, <2>3, PidioQueda
    <3>. QED  BY <1>g, <2>0, <2>1, <3>2, <3>3 DEF GuionDe
  <2>. QED  BY <1>3, <2>2, <2>3
<1>4. CASE t \in HilosCpu /\ Ceder(t)
  <2>0. PICK q \in Pids, n \in Mutexes :
           /\ q = Pid(t) /\ n = hilo[t].mtx /\ hilo[t].en = "cede"
           /\ UNCHANGED <<tomados, cpu, paso, prioridad_actual, estado, cola_block, susp_block>>
           /\ \/ /\ bloqueados[n] = <<>> /\ dueno' = [dueno EXCEPT ![n] = NADA] /\ bloqueados' = bloqueados
                 /\ hilo'[t].en \in Continuaciones
              \/ \E h \in Pids :
                   /\ bloqueados[n] # <<>> /\ h = Head(bloqueados[n]) /\ dueno' = [dueno EXCEPT ![n] = h]
                   /\ bloqueados' = [bloqueados EXCEPT ![n] = Tail(@)]
                   /\ hilo'[t].en = "desbloquea" /\ hilo'[t].tras = "toma"
                   /\ hilo'[t].pid = h /\ hilo'[t].mtx = n
    BY <1>4, EfectoCeder
  <2>1. (Cediendo(p, m) <=> (p = q /\ m = n)) /\ ~ Cediendo(p, m)'
    <3>1. hilo'[t].en # "cede"
      BY <2>0 DEF Continuaciones
    <3>. QED  BY <1>4, <1>f, <2>0, <3>1, VistaCpu
  <2>2. PidioMutex(p, m)' <=> PidioMutex(p, m)
    BY <1>f, <2>0, PidioQueda
  <2>3. dueno[n] = q
    <3>1. Cediendo(q, n)
      BY <1>4, <2>0 DEF Cediendo
    <3>. QED  BY <3>1 DEF InvTabla
  <2>4. CASE bloqueados[n] = <<>> /\ dueno' = [dueno EXCEPT ![n] = NADA] /\ bloqueados' = bloqueados
    <3>1. dueno'[m] = (IF m = n THEN NADA ELSE dueno[m]) /\ p # NADA
      BY <1>f, <2>4, ProcesosOK DEF TypeOKMutex
    <3>2. m = n => ToSet(bloqueados[m]) = {}
      BY <2>4 DEF ToSet
    <3>. QED  BY <1>g, <2>1, <2>2, <2>3, <2>4, <3>1, <3>2 DEF GuionDe
  <2>5. ASSUME NEW h \in Pids, bloqueados[n] # <<>>, h = Head(bloqueados[n]), dueno' = [dueno EXCEPT ![n] = h],
               bloqueados' = [bloqueados EXCEPT ![n] = Tail(@)]
        PROVE  GuionDe(p, m)'
    <3>1. dueno'[m] = (IF m = n THEN h ELSE dueno[m])
      BY <1>f, <2>5 DEF TypeOKMutex
    <3>2. bloqueados[n] \in Seq(Pids) /\ IsInjective(bloqueados[n])
      BY <1>f DEF InvEspera, InvEsperaMutex, TypeOKMutex
    <3>3. h \in ToSet(bloqueados[n]) /\ ToSet(Tail(bloqueados[n])) = ToSet(bloqueados[n]) \ {h}
      BY <2>5, <3>2, CabezaYCola
    <3>4. p \in ToSet(bloqueados'[m]) <=> p \in ToSet(bloqueados[m]) /\ ~ (m = n /\ p = h)
      BY <1>f, <2>5, <3>3 DEF TypeOKMutex
    <3>. QED  BY <1>g, <2>1, <2>2, <2>3, <3>1, <3>3, <3>4 DEF GuionDe
  <2>. QED  BY <2>0, <2>4, <2>5
<1>5. CASE t \in HilosCpu /\ AnotarDespertado(t)
  <2>1. UNCHANGED <<dueno, bloqueados>> /\ hilo[t].en = "toma" /\ hilo'[t].en # "cede"
    BY <1>5, EfectoAnotar DEF Continuaciones
  <2>2. ~ Cediendo(p, m) /\ ~ Cediendo(p, m)'
    BY <1>5, <1>f, <2>1, VistaCpu
  <2>3. PidioMutex(p, m)' <=> PidioMutex(p, m)
    BY <1>p, <2>1 DEF PedirMutex, DevolverMutex, Recibir
  <2>. QED  BY <1>g, <2>1, <2>2, <2>3 DEF GuionDe
<1>6. CASE /\ t \in HilosCpu /\ ~ (PedirMutex(t) \/ DevolverMutex(t))
           /\ UNCHANGED <<dueno, bloqueados>> /\ hilo[t].en # "cede" /\ hilo'[t].en # "cede"
  <2>1. ~ Cediendo(p, m) /\ ~ Cediendo(p, m)'
    BY <1>6, <1>f, VistaCpu
  <2>2. PidioMutex(p, m)' <=> PidioMutex(p, m)
    BY <1>6, <1>p
  <2>. QED  BY <1>g, <1>6, <2>1, <2>2 DEF GuionDe
<1>. QED  BY <1>1, <1>2, <1>3, <1>4, <1>5, <1>6, Clases DEF Fuera, Despertando, varsM

-----------------------------------------------------------------------------
\* While the thread of the only CPU is not blocking its process, who waits sleeps.
LEMMA Duerme ==
  ASSUME Inv, InvLugar, InvCpu, NEW t \in HilosCpu, Paso(t), hilo[t].en \notin Buscando \cup {"entra_block"},
         NEW p \in Pids, Parado(p)
  PROVE  p \in Dormidos
<1>f. InvFrescos
  BY DEF InvLugar
<1>1. ASSUME NEW c \in Cpus PROVE hilo[HiloCpu(c)].en \notin Buscando \cup {"entra_block"}
  <2>1. HiloCpu(c) \in HilosCpu
    BY HilosDistintos
  <2>2. CASE HiloCpu(c) # t
    BY <1>f, <2>1, <2>2, UnicaCpu DEF Buscando
  <2>. QED  BY <2>2
<1>2. estado[p] \in {"BLOCK", "SUSP_BLOCK"}
  BY <1>1 DEF Parado, Busca
<1>3. ~ \E c \in Cpus : Entra(c) /\ cpu[c] = p
  BY <1>1 DEF Entra
<1>. QED  BY <1>2, <1>3 DEF InvLugar, InvListas, Dormidos

\* A process leaves SUSP_BLOCK in the hands of who wakes it.
LEMMA SuspQueda ==
  ASSUME Inv, InvLugar, NEW t \in Hilos, Paso(t), NEW p \in Pids, p \in susp_block
  PROVE  p \in susp_block' \/ Levanta(t, p)
<1>t. /\ TipoHilos /\ hilo = [u \in Hilos |-> hilo[u]] /\ hilo[t] \in Locales /\ hilo[t].tras \in Regresos
      /\ p \notin cola_block
  BY EnPunto DEF Inv, TipoHilos, LocalesOK, InvLugar, InvListas
<1>1. CASE DesbloquearSusp(t)
  <2>1. CASE hilo[t].pid \in susp_block
    <3>1. /\ susp_block' = susp_block \ {hilo[t].pid} /\ UNCHANGED cola_block
          /\ hilo'[t].en = hilo[t].tras /\ hilo[t].en = "desbloquea_susp"
      BY <1>t, <1>1, <2>1 DEF DesbloquearSusp, Locales
    <3>. QED  BY <1>t, <3>1 DEF Levanta, Dormidos, PuntosIO, UsaDispositivo, Regresos
  <2>2. CASE hilo[t].pid \notin susp_block
    BY <1>1, <2>2 DEF DesbloquearSusp
  <2>. QED  BY <2>1, <2>2
<1>2. CASE VencerTimer(t)
  BY <1>2 DEF VencerTimer
<1>3. CASE ~ DesbloquearSusp(t) /\ ~ VencerTimer(t)
  <2>1. UNCHANGED susp_block
    <3>1. CASE PasoComun(t)
      BY <1>3, <3>1 DEF PasoComun, PasoMedianoPlazo, Encolar, DesbloquearBlock, Suspender, TomarEvento,
         Dessuspender, Volver, FinDeCandidatos, ReintentarEspera, SoltarEvento, suspendidos
    <3>2. CASE PasoIO(t) \/ PasoCP
      BY <3>2 DEF PasoIO, PasoCP, TomarReady, PasarAExec, suspendidos
    <3>3. CASE PasoCpu(t)
      BY <3>3 DEF PasoCpu, PedirBloqueoIO, FinDeRafaga, PedirMemoria, DevolverMemoria, PedirMutex, BuscarDueno,
         Buscar, Heredar, DevolverMutex, Ceder, AnotarDespertado, Finalizar, LiberarMutex, FinalizarKM,
         SalirDeExec, EntrarABlock, AnotarEspera, LiberarCpu, suspendidos
    <3>. QED  BY <3>1, <3>2, <3>3, SMTT(40) DEF Paso
  <2>. QED  BY <2>1
<1>. QED  BY <1>1, <1>2, <1>3

\* The steps of a thread that is waking the new owner
LEMMA PasoDespertando ==
  ASSUME NEW t \in HilosCpu, Paso(t), Despertando(hilo[t])
  PROVE  DesbloquearBlock(t) \/ DesbloquearSusp(t) \/ Encolar(t) \/ AnotarDespertado(t)
<1>1. hilo[t].en \in {"desbloquea", "desbloquea_susp", "encola", "toma"}
  BY DEF Despertando
<1>2. t \notin HilosIO /\ t \notin HilosTimer /\ t # HiloCP
  BY HilosDistintos
<1>3. CASE PasoComun(t)
  BY <1>1, <1>2, <1>3 DEF PasoComun, PasoMedianoPlazo, VencerTimer, Suspender, TomarEvento, Dessuspender, Volver,
     FinDeCandidatos, ReintentarEspera, SoltarEvento
<1>4. CASE PasoCpu(t)
  BY <1>1, <1>4 DEF PasoCpu, PedirBloqueoIO, FinDeRafaga, PedirMemoria, DevolverMemoria, PedirMutex, BuscarDueno,
     Buscar, Heredar, DevolverMutex, Ceder, Finalizar, LiberarMutex, FinalizarKM, SalirDeExec,
     EntrarABlock, AnotarEspera, LiberarCpu, Recibir
<1>. QED  BY <1>2, <1>3, <1>4 DEF Paso

LEMMA PasoToma ==
  ASSUME Inv, InvPuntos, InvLugar, InvEspera, InvCpu, InvTabla, InvGuion, InvToma, Ordenados,
         NEW t \in Hilos, Paso(t)
  PROVE  InvToma'
<1>f. InvFrescos /\ InvEsperaMutex
  BY DEF InvLugar, InvEspera
<1>. DEFINE Bien(r, dor, sus) ==
              /\ r.en = "desbloquea" => r.pid \in dor
              /\ r.en = "desbloquea_susp" => r.pid \in sus
              /\ r.en \in {"encola", "toma"} => r.fue # "nada"
<1>. SUFFICES ASSUME NEW v \in HilosCpu, Despertando(hilo'[v])
              PROVE  Bien(hilo'[v], Dormidos', susp_block')
  BY DEF InvToma
<1>v. v \in Hilos
  BY HilosDistintos
<1>b. Despertando(hilo[v]) => Bien(hilo[v], Dormidos, susp_block)
  BY DEF InvToma
<1>1. CASE t \notin HilosCpu
  <2>1. hilo'[v] = hilo[v]
    BY <1>1, <1>f, FueraDeCpu
  <2>2. Despertando(hilo[v])
    BY <2>1
  <2>3. PICK p \in Pids : p = hilo[v].pid
    BY <1>v, <2>2 DEF Inv, TipoHilos, LocalesOK, ConPid, Despertando
  <2>4. ASSUME hilo[v].en \in {"desbloquea", "desbloquea_susp"}, Levanta(t, p) PROVE FALSE
    <3>1. Despierta(hilo[v], "toma")
      BY <2>2, <2>4 DEF Despertando, Despierta
    <3>l. PidioLock(p, hilo[v].mtx)
      BY <1>v, <1>f, <2>3, <3>1 DEF InvEsperaMutex
    <3>2. Orden(p).op = "MUTEX_LOCK"
      BY <3>l DEF PidioLock
    <3>3. Despierta(hilo[t], "toma") /\ hilo[t].pid = p
      BY <2>4, <3>2, QuienLevanta DEF Levanta
    <3>4. t = v
      BY <1>v, <1>f, <2>3, <3>1, <3>3 DEF InvEsperaMutex
    <3>. QED  BY <1>1, <3>4
  <2>5. hilo[v].en = "desbloquea" => p \in Dormidos'
    BY <1>b, <2>2, <2>3, <2>4, DormidoQueda
  <2>6. hilo[v].en = "desbloquea_susp" => p \in susp_block'
    BY <1>b, <2>2, <2>3, <2>4, SuspQueda
  <2>. QED  BY <1>b, <2>1, <2>2, <2>3, <2>5, <2>6
<1>2. CASE t \in HilosCpu
  <2>1. v = t
    <3>1. SUFFICES ASSUME v # t PROVE FALSE
      OBVIOUS
    <3>2. hilo'[v].en = "reposo"
      BY <1>2, <1>f, <3>1, UnicaCpu
    <3>. QED  BY <3>2 DEF Despertando
  <2>t. /\ hilo[t] \in Locales /\ hilo = [u \in Hilos |-> hilo[u]] /\ hilo[t].tras \in Regresos
    BY EnPunto DEF Inv, TipoHilos, LocalesOK
  <2>2. CASE DesbloquearBlock(t)
    <3>1. /\ hilo[t].en = "desbloquea" /\ hilo'[t].tras = hilo[t].tras /\ hilo'[t].pid = hilo[t].pid
          /\ \/ hilo'[t].en = "encola" /\ hilo'[t].fue = "ready"
             \/ /\ hilo'[t].en = "desbloquea_susp" /\ hilo[t].pid \notin cola_block
                /\ susp_block' = susp_block
      <4>1. CASE hilo[t].pid \in cola_block
        <5>1. hilo' = [hilo EXCEPT ![t].en = "encola", ![t].fue = "ready"] /\ hilo[t].en = "desbloquea"
          BY <2>2, <4>1 DEF DesbloquearBlock
        <5>. QED  BY <2>t, <5>1 DEF Locales
      <4>2. CASE hilo[t].pid \notin cola_block
        <5>1. Ir(t, "desbloquea_susp") /\ hilo[t].en = "desbloquea" /\ susp_block' = susp_block
          BY <2>2, <4>2 DEF DesbloquearBlock, suspendidos
        <5>2. TipoHilos
          BY DEF Inv
        <5>. QED  BY <4>2, <5>1, <5>2, LlamadaIr
      <4>. QED  BY <4>1, <4>2
    <3>2. Despertando(hilo[t])
      BY <2>1, <3>1 DEF Despertando
    <3>. QED  BY <1>b, <2>1, <3>1, <3>2 DEF Dormidos
  <2>3. CASE DesbloquearSusp(t)
    <3>1. hilo[t].en = "desbloquea_susp" /\ hilo'[t].en = hilo[t].tras
          /\ (hilo[t].pid \in susp_block => hilo'[t].fue = "susp")
      BY <2>t, <2>3, ZenonT(60) DEF DesbloquearSusp, Ir, Locales
    <3>2. hilo[t].tras = "toma"
      BY <2>1, <2>t, <3>1 DEF Despertando, Regresos
    <3>3. hilo[t].pid \in susp_block
      BY <1>b, <2>1, <3>1, <3>2 DEF Despertando
    <3>. QED  BY <2>1, <3>1, <3>2, <3>3
  <2>4. CASE Encolar(t)
    <3>1. hilo[t].en = "encola" /\ hilo'[t].en = hilo[t].tras /\ hilo'[t].fue = hilo[t].fue
      BY <2>t, <2>4 DEF Encolar, Ir, Locales
    <3>2. hilo[t].tras = "toma"
      BY <2>1, <2>t, <3>1 DEF Despertando, Regresos
    <3>. QED  BY <1>b, <2>1, <3>1, <3>2 DEF Despertando
  <2>5. CASE Ceder(t)
    <3>1. PICK m \in Mutexes, h \in Pids :
           /\ hilo[t].en = "cede" /\ UNCHANGED <<cola_block, susp_block>>
           /\ bloqueados[m] # <<>> /\ h = Head(bloqueados[m])
           /\ hilo'[t].en = "desbloquea" /\ hilo'[t].pid = h
      BY <1>2, <2>1, <2>5, EfectoCeder DEF Despertando, Continuaciones
    <3>2. h \in ToSet(bloqueados[m])
      <4>1. bloqueados[m] \in Seq(Pids)
        BY DEF Inv, TypeOKMutex
      <4>. QED  BY <3>1, <4>1, CabezaYCola
    <3>3. Parado(h)
      BY <1>f, <3>2 DEF InvEsperaMutex
    <3>4. h \in Dormidos
      BY <1>2, <3>1, <3>3, Duerme DEF Buscando
    <3>. QED  BY <2>1, <3>1, <3>4 DEF Dormidos
  <2>6. CASE PedirMutex(t)
    <3>1. hilo'[t].en = "reposo" \/ hilo'[t].en = "busca_exec"
      BY <1>2, <2>6, EfectoPedir
    <3>. QED  BY <2>1, <3>1 DEF Despertando
  <2>7. CASE DevolverMutex(t) \/ LiberarMutex(t)
    <3>1. hilo'[t].en = "cede"
      BY <1>2, <2>7, EfectoUnlock
    <3>. QED  BY <2>1, <3>1 DEF Despertando
  <2>8. CASE AnotarDespertado(t)
    <3>1. hilo'[t].en \in Continuaciones \cup {"evento"}
      BY <1>2, <2>8, EfectoAnotar
    <3>. QED  BY <2>1, <3>1 DEF Despertando, Continuaciones
  <2>. QED  BY <1>2, <2>1, <2>2, <2>3, <2>4, <2>5, <2>6, <2>7, <2>8, Clases, PasoDespertando DEF Fuera
<1>. QED  BY <1>1, <1>2

-----------------------------------------------------------------------------
\* How the thread of a CPU comes to look for the owner, and to exec_a_block
LEMMA NuevoBusca ==
  ASSUME Inv, InvPuntos, NEW t \in HilosCpu, Paso(t), hilo'[t].en \in Buscando
  PROVE  \/ /\ hilo[t].en \in Buscando \ {"a_block"} /\ hilo'[t].pid = hilo[t].pid
            /\ UNCHANGED <<dueno, cpu>>
         \/ PedirMutex(t)
         \/ hilo'[t].en = "a_block" /\ (Recibir(t, "IO") \/ Recibir(t, "MEM_ALLOC"))
<1>t. /\ hilo[t] \in Locales /\ hilo = [u \in Hilos |-> hilo[u]] /\ t \in Hilos /\ TipoHilos
      /\ hilo[t].luego \in Continuaciones /\ hilo[t].tras \in Regresos
      /\ t \notin HilosIO /\ t \notin HilosTimer /\ t # HiloCP
  BY HilosDistintos, EnPunto DEF Inv, TipoHilos, LocalesOK
<1>1. CASE PasoComun(t)
  <2>1. hilo[t].en \notin Buscando
    BY <1>t, <1>1 DEF PasoComun, PasoMedianoPlazo, Encolar, DesbloquearBlock, DesbloquearSusp, VencerTimer, Suspender,
       TomarEvento, Dessuspender, Volver, FinDeCandidatos, ReintentarEspera, SoltarEvento, Buscando
  <2>2. hilo'[t] = hilo[t] \/ hilo'[t].en \in PuntosMP
    BY <1>1, <1>t, PuntosComunes
  <2>. QED  BY <2>1, <2>2, SMTT(40) DEF PuntosMP, Regresos, Continuaciones, Buscando
<1>2. CASE PasoCpu(t)
  <2>1. CASE PedirBloqueoIO(t) \/ PedirMemoria(t)
    <3>1. /\ hilo[t].en = "reposo" /\ (Recibir(t, "IO") \/ Recibir(t, "MEM_ALLOC"))
          /\ hilo' = hilo \/ Ir(t, "a_block")
      BY <2>1, Zenon DEF PedirBloqueoIO, PedirMemoria, Recibir
    <3>2. hilo'[t].en = "a_block"
      BY <1>t, <3>1, LlamadaIr DEF Buscando
    <3>. QED  BY <3>1, <3>2
  <2>2. CASE FinDeRafaga(t) \/ DevolverMemoria(t) \/ FinalizarKM(t) \/ Finalizar(t)
    <3>1. \/ LlamarEncolar(t, Pid(t), "libera_cpu") \/ LlamarEvento(t, "reposo")
          \/ LlamarEvento(t, "libera_cpu") \/ Ir(t, "libera_mutex")
      BY <2>2, Zenon DEF FinDeRafaga, DevolverMemoria, FinalizarKM, Finalizar
    <3>. QED  BY <1>t, <3>1, LlamadaEncolar, LlamadaEvento, LlamadaIr DEF Buscando
  <2>3. CASE BuscarDueno(t) \/ Heredar(t)
    <3>1. /\ hilo[t].en \in Buscando \ {"a_block"} /\ UNCHANGED <<dueno, cpu>>
          /\ \E e \in Buscando : Ir(t, e)
      BY <2>3 DEF BuscarDueno, Buscar, Heredar, Buscando, varsM
    <3>. QED  BY <1>t, <3>1, LlamadaIr
  <2>4. CASE SalirDeExec(t) \/ AnotarEspera(t)
    <3>1. Ir(t, "entra_block") \/ Ir(t, "libera_cpu")
      BY <2>4, Zenon DEF SalirDeExec, AnotarEspera
    <3>. QED  BY <1>t, <3>1, LlamadaIr DEF Buscando
  <2>5. CASE LiberarCpu(t)
    <3>1. hilo'[t].en = "reposo"
      BY <1>t, <2>5 DEF LiberarCpu, Terminar, Seguir, EnReposo
    <3>. QED  BY <3>1 DEF Buscando
  <2>6. CASE EntrarABlock(t)
    <3>1. hilo'[t].en \in {"anota", "libera_cpu"}
      BY <1>t, <2>6 DEF EntrarABlock, Locales
    <3>. QED  BY <3>1 DEF Buscando
  <2>7. CASE DevolverMutex(t) \/ LiberarMutex(t)
    <3>1. \E m, e : hilo' = [hilo EXCEPT ![t].en = "cede", ![t].mtx = m, ![t].luego = e]
      BY <2>7, Zenon DEF DevolverMutex, LiberarMutex, EmpezarUnlock
    <3>2. hilo'[t].en = "cede"
      BY <1>t, <3>1 DEF Locales
    <3>. QED  BY <3>2 DEF Buscando
  <2>8. CASE Ceder(t) \/ AnotarDespertado(t)
    <3>1. (\E p : LlamarDesbloquear(t, p, "toma")) \/ Seguir(t, hilo[t].luego) \/ LlamarEvento(t, hilo[t].luego)
      BY <2>8, Zenon DEF Ceder, AnotarDespertado
    <3>2. CASE \E p : LlamarDesbloquear(t, p, "toma")
      BY <1>t, <3>2, LlamadaDesbloquear DEF Buscando
    <3>3. CASE Seguir(t, hilo[t].luego)
      <4>1. hilo'[t].en = hilo[t].luego
        BY <1>t, <3>3 DEF Seguir, EnReposo
      <4>. QED  BY <1>t, <4>1 DEF Buscando, Continuaciones
    <3>4. CASE LlamarEvento(t, hilo[t].luego)
      BY <1>t, <3>4, LlamadaEvento DEF Buscando
    <3>. QED  BY <3>1, <3>2, <3>3, <3>4
  <2>9. CASE PedirMutex(t)
    BY <2>9
  <2>. QED  BY <1>2, <2>1, <2>2, <2>3, <2>4, <2>5, <2>6, <2>7, <2>8, <2>9 DEF PasoCpu
<1>. QED  BY <1>t, <1>1, <1>2 DEF Paso

\* Who comes to wait is the process of a CPU that asks for something.
LEMMA NuevoParado ==
  ASSUME Inv, InvPuntos, InvLugar, NEW t \in Hilos, Paso(t), NEW p \in Pids, ~ Parado(p), Parado(p)'
  PROVE  /\ t \in HilosCpu /\ p = Pid(t)
         /\ PedirMutex(t) \/ Recibir(t, "IO") \/ Recibir(t, "MEM_ALLOC")
<1>t. /\ estado \in [Pids -> Estados] /\ estado[p] \notin {"BLOCK", "SUSP_BLOCK"}
      /\ \A c \in Cpus : Busca(c) => cpu[c] # p
      /\ InvFrescos /\ p # NADA
  BY ProcesosOK DEF Parado, Inv, TipoPcbs, InvLugar
<1>1. estado'[p] \notin {"BLOCK", "SUSP_BLOCK"}
  <2>1. CASE t \in HilosCpu /\ SalirDeExec(t)
    <3>1. hilo[t].en = "a_block" /\ estado' = [estado EXCEPT ![Pid(t)] = "BLOCK"]
      BY <2>1 DEF SalirDeExec
    <3>2. t \in Hilos /\ t[2] \in Cpus /\ t = HiloCpu(t[2])
      BY <2>1, HilosDistintos
    <3>3. Pid(t) \in Pids /\ hilo[t].luego = "reposo"
      BY <2>1, <3>1, <3>2, PidAtendido DEF InvPuntos, SinLlamada
    <3>4. Busca(t[2])
      BY <3>1, <3>2, <3>3, ProcesosOK DEF Busca, Atiende, Solto, Buscando, Pid
    <3>5. Pid(t) # p
      BY <1>t, <3>2, <3>4 DEF Pid
    <3>. QED  BY <1>t, <3>1, <3>5
  <2>2. CASE VencerTimer(t)
    <3>1. CASE UNCHANGED estado
      BY <1>t, <3>1
    <3>2. CASE ~ UNCHANGED estado
      <4>1. t[2] \in cola_block /\ estado' = [estado EXCEPT ![t[2]] = "SUSP_BLOCK"]
        BY <2>2, <3>2 DEF VencerTimer
      <4>2. t[2] # p
        BY <1>t, <4>1 DEF InvLugar, InvListas
      <4>. QED  BY <1>t, <4>1, <4>2
    <3>. QED  BY <3>1, <3>2
  <2>3. CASE ~ (t \in HilosCpu /\ SalirDeExec(t)) /\ ~ VencerTimer(t)
    <3>1. UNCHANGED estado \/ \E x, e : e \notin {"BLOCK", "SUSP_BLOCK"} /\ estado' = [estado EXCEPT ![x] = e]
      <4>1. CASE PasoComun(t)
        BY <2>3, <4>1, Zenon DEF PasoComun, PasoMedianoPlazo, Encolar, DesbloquearBlock, DesbloquearSusp, Suspender,
           TomarEvento, Dessuspender, Volver, FinDeCandidatos, ReintentarEspera, SoltarEvento
      <4>2. CASE PasoIO(t) \/ PasoCP
        BY <4>2, Zenon DEF PasoIO, PasoCP, TomarReady, PasarAExec
      <4>3. CASE t \in HilosCpu /\ PasoCpu(t)
        BY <2>3, <4>3, Zenon DEF PasoCpu, PedirBloqueoIO, FinDeRafaga, PedirMemoria, DevolverMemoria, PedirMutex, BuscarDueno,
           Buscar, Heredar, DevolverMutex, Ceder, AnotarDespertado, Finalizar, LiberarMutex, FinalizarKM,
           EntrarABlock, AnotarEspera, LiberarCpu
      <4>. QED  BY <4>1, <4>2, <4>3 DEF Paso
    <3>. QED  BY <1>t, <3>1
  <2>. QED  BY <2>1, <2>2, <2>3
<1>2. PICK c \in Cpus : Busca(c)' /\ cpu'[c] = p
  BY <1>1 DEF Parado
<1>c. /\ HiloCpu(c) \in HilosCpu /\ HiloCpu(c) \in Hilos /\ HiloCpu(c)[2] = c /\ HiloCpu(c) # HiloCP
      /\ hilo'[HiloCpu(c)].en \in Buscando
  BY <1>2, HilosDistintos DEF Busca
<1>3. CASE t # HiloCpu(c)
  <2>1. hilo'[HiloCpu(c)] = hilo[HiloCpu(c)]
    BY <1>t, <1>c, <1>3, Quietos
  <2>2. cpu[c] # NADA
    BY <1>c, <2>1, ProcesosOK DEF Inv, TipoCpu, Buscando
  <2>3. Atiende(c) /\ cpu'[c] = cpu[c]
    BY <1>t, <1>2, <2>2, RafagaDe DEF Busca
  <2>4. Busca(c)
    BY <1>c, <2>1, <2>3 DEF Busca
  <2>. QED  BY <1>t, <1>2, <2>3, <2>4
<1>4. CASE t = HiloCpu(c)
  <2>1. Atiende(c) /\ cpu'[c] = cpu[c]
    BY <1>t, <1>2, <1>c, <1>4, RafagaDe DEF Busca
  <2>2. hilo[t].en \notin Buscando
    BY <1>t, <1>2, <1>4, <2>1 DEF Busca
  <2>3. PedirMutex(t) \/ Recibir(t, "IO") \/ Recibir(t, "MEM_ALLOC")
    BY <1>c, <1>4, <2>2, NuevoBusca
  <2>. QED  BY <1>2, <1>c, <1>4, <2>1, <2>3 DEF Pid
<1>. QED  BY <1>3, <1>4

LEMMA PasoParado ==
  ASSUME Inv, Inv', InvPuntos, InvPuntos', InvLugar, InvLugar', InvEspera, InvToma, InvParado, [Next]_vars,
         NEW t \in Hilos, Paso(t)
  PROVE  InvParado'
<1>. DEFINE Despiertan(p, m) ==
              \E u \in HilosCpu : Despierta(hilo[u], "toma") /\ hilo[u].pid = p /\ hilo[u].mtx = m
<1>. SUFFICES ASSUME NEW p \in Pids, NEW m \in Mutexes, paso'[p] > 0, PidioLock(p, m)', Parado(p)'
              PROVE  p \in ToSet(bloqueados'[m]) \/ Despiertan(p, m)'
  BY DEF InvParado
<1>f. /\ config' = config /\ InvFrescos /\ bloqueados \in [Mutexes -> Seq(Pids)] /\ TipoHilos
      /\ hilo = [v \in Hilos |-> hilo[v]]
  BY ConfigFija DEF InvLugar, Inv, TypeOKMutex, TipoHilos
<1>1. CASE Parado(p)
  <2>1. paso[p] > 0 /\ PidioLock(p, m)
    BY <1>1, OrdenQueda DEF PidioLock
  <2>2. CASE p \in ToSet(bloqueados[m])
    <3>1. CASE UNCHANGED bloqueados
      BY <2>2, <3>1
    <3>2. ASSUME t \in HilosCpu, NEW n \in Mutexes, bloqueados' = [bloqueados EXCEPT ![n] = Append(@, Pid(t))],
                 PedirMutex(t)
          PROVE  p \in ToSet(bloqueados'[m])
      <4>1. Pid(t) \in Pids
        BY <3>2, PidRecibido DEF PedirMutex
      <4>2. ToSet(Append(bloqueados[n], Pid(t))) = ToSet(bloqueados[n]) \cup {Pid(t)}
        BY <1>f, <4>1, ToSetAppend
      <4>. QED  BY <1>f, <2>2, <3>2, <4>2
    <3>3. ASSUME t \in HilosCpu, Ceder(t) PROVE p \in ToSet(bloqueados'[m]) \/ Despiertan(p, m)'
      <4>1. PICK n \in Mutexes, h \in Pids :
               \/ bloqueados' = bloqueados
               \/ /\ bloqueados[n] # <<>> /\ h = Head(bloqueados[n])
                  /\ bloqueados' = [bloqueados EXCEPT ![n] = Tail(@)]
                  /\ hilo'[t].en = "desbloquea" /\ hilo'[t].tras = "toma"
                  /\ hilo'[t].pid = h /\ hilo'[t].mtx = n
        BY <3>3, EfectoCeder
      <4>2. CASE bloqueados' = bloqueados
        BY <2>2, <4>2
      <4>3. CASE /\ bloqueados[n] # <<>> /\ h = Head(bloqueados[n])
                 /\ bloqueados' = [bloqueados EXCEPT ![n] = Tail(@)]
                 /\ hilo'[t].en = "desbloquea" /\ hilo'[t].tras = "toma"
                 /\ hilo'[t].pid = h /\ hilo'[t].mtx = n
        <5>1. CASE n = m /\ h = p
          BY <3>3, <4>3, <5>1 DEF Despierta
        <5>2. CASE ~ (n = m /\ h = p)
          <6>1. ToSet(Tail(bloqueados[n])) = ToSet(bloqueados[n]) \ {h}
            BY <1>f, <4>3, CabezaYCola DEF InvEspera, InvEsperaMutex
          <6>2. bloqueados'[m] = (IF m = n THEN Tail(bloqueados[n]) ELSE bloqueados[m])
            BY <1>f, <4>3
          <6>. QED  BY <2>2, <5>2, <6>1, <6>2
        <5>. QED  BY <5>1, <5>2
      <4>. QED  BY <4>1, <4>2, <4>3
    <3>. QED  BY <3>1, <3>2, <3>3, CambiaBloqueados
  <2>3. ASSUME NEW u \in HilosCpu, Despierta(hilo[u], "toma"), hilo[u].pid = p, hilo[u].mtx = m
        PROVE  Despiertan(p, m)'
    <3>u. u \in Hilos /\ Despertando(hilo[u])
      BY <2>3, HilosDistintos DEF Despierta, Despertando
    <3>1. CASE u # t
      <4>1. hilo'[u] = hilo[u]
        BY <1>f, <3>1, <3>u, Quietos
      <4>. QED  BY <2>3, <4>1
    <3>2. CASE u = t
      <4>l. hilo[t] \in Locales /\ estado \in [Pids -> Estados]
        BY DEF Inv, TipoHilos, LocalesOK, TipoPcbs
      <4>n. estado'[p] \notin {"READY", "SUSP_READY"}
        <5>1. CASE estado'[p] \in {"BLOCK", "SUSP_BLOCK"}
          BY <5>1
        <5>2. ASSUME NEW c \in Cpus, Busca(c)', cpu'[c] = p PROVE estado'[p] \notin {"READY", "SUSP_READY"}
          <6>1. p \in lista_exec'
            BY <5>2 DEF Busca, InvLugar, InvRafagas
          <6>2. estado'[p] = "EXEC"
            BY <6>1 DEF InvLugar, InvListas
          <6>. QED  BY <6>2
        <5>. QED  BY <5>1, <5>2 DEF Parado
      <4>1. CASE DesbloquearBlock(t)
        <5>1. p \notin cola_block
          <6>1. SUFFICES ASSUME p \in cola_block PROVE FALSE
            OBVIOUS
          <6>2. estado' = [estado EXCEPT ![p] = "READY"]
            BY <2>3, <3>2, <4>1, <6>1 DEF DesbloquearBlock
          <6>. QED  BY <4>l, <4>n, <6>2
        <5>2. Ir(t, "desbloquea_susp")
          BY <2>3, <3>2, <4>1, <5>1 DEF DesbloquearBlock
        <5>3. /\ hilo'[t].en = "desbloquea_susp" /\ hilo'[t].tras = hilo[t].tras
              /\ hilo'[t].pid = hilo[t].pid /\ hilo'[t].mtx = hilo[t].mtx
          BY <1>f, <4>l, <5>2 DEF Ir, Locales
        <5>. QED  BY <2>3, <3>2, <5>3 DEF Despierta
      <4>2. CASE DesbloquearSusp(t)
        <5>1. p \in susp_block
          BY <2>3, <3>2, <3>u, <4>2 DEF InvToma, DesbloquearSusp
        <5>2. estado' = [estado EXCEPT ![p] = "SUSP_READY"]
          BY <2>3, <3>2, <4>2, <5>1 DEF DesbloquearSusp
        <5>. QED  BY <4>l, <4>n, <5>2
      <4>3. CASE Encolar(t) \/ AnotarDespertado(t)
        BY <2>3, <3>2, <4>3 DEF Encolar, AnotarDespertado, Despierta
      <4>. QED  BY <3>2, <3>u, <4>1, <4>2, <4>3, PasoDespertando
    <3>. QED  BY <3>1, <3>2
  <2>4. p \in ToSet(bloqueados[m]) \/ Despiertan(p, m)
    BY <1>1, <2>1 DEF InvParado
  <2>. QED  BY <2>2, <2>3, <2>4
<1>2. CASE ~ Parado(p)
  <2>1. /\ t \in HilosCpu /\ p = Pid(t)
        /\ PedirMutex(t) \/ Recibir(t, "IO") \/ Recibir(t, "MEM_ALLOC")
    BY <1>2, NuevoParado
  <2>2. CASE Recibir(t, "IO") \/ Recibir(t, "MEM_ALLOC")
    <3>1. paso'[p] = paso[p] + 1 /\ Proxima(p).op # "MUTEX_LOCK"
      BY <2>1, <2>2 DEF Recibir, Inv, TipoPcbs
    <3>2. Proxima(p) = [op |-> "MUTEX_LOCK", arg |-> m]
      BY <1>f, <3>1 DEF PidioLock, Orden, Proxima
    <3>. QED  BY <3>1, <3>2
  <2>3. CASE PedirMutex(t)
    <3>1. PICK n \in Mutexes :
             /\ Proxima(p).op = "MUTEX_LOCK" /\ Proxima(p).arg = n /\ paso'[p] = paso[p] + 1
             /\ UNCHANGED <<cpu, estado>>
             /\ UNCHANGED hilo \/ bloqueados' = [bloqueados EXCEPT ![n] = Append(@, p)]
      BY <2>1, <2>3, EfectoPedir
    <3>2. n = m
      <4>1. Proxima(p) = [op |-> "MUTEX_LOCK", arg |-> m]
        BY <1>f, <3>1 DEF PidioLock, Orden, Proxima
      <4>. QED  BY <3>1, <4>1
    <3>3. ~ UNCHANGED hilo
      <4>1. SUFFICES ASSUME UNCHANGED hilo PROVE FALSE
        OBVIOUS
      <4>. QED  BY <1>2, <3>1, <4>1 DEF Parado, Busca, Atiende
    <3>4. ToSet(Append(bloqueados[m], p)) = ToSet(bloqueados[m]) \cup {p}
      BY <1>f, ToSetAppend
    <3>. QED  BY <1>f, <3>1, <3>2, <3>3, <3>4
  <2>. QED  BY <2>1, <2>2, <2>3
<1>. QED  BY <1>1, <1>2

\* Priorities change by inheritance, to an owner, and at the start of an unlock.
LEMMA CambiaPrioridad ==
  ASSUME Inv, NEW t \in Hilos, Paso(t)
  PROVE  \/ UNCHANGED prioridad_actual
         \/ /\ t \in HilosCpu /\ Heredar(t) /\ hilo[t].en = "hereda" /\ UNCHANGED varsM
            /\ \A p \in Pids : p # hilo[t].pid => prioridad_actual'[p] = prioridad_actual[p]
         \/ t \in HilosCpu /\ (DevolverMutex(t) \/ LiberarMutex(t))
<1>1. CASE PasoComun(t)
  BY <1>1 DEF PasoComun, PasoMedianoPlazo, Encolar, DesbloquearBlock, DesbloquearSusp, VencerTimer, Suspender,
     TomarEvento, Dessuspender, Volver, FinDeCandidatos, ReintentarEspera, SoltarEvento, pcbs
<1>2. CASE PasoIO(t) \/ PasoCP
  BY <1>2 DEF PasoIO, PasoCP, TomarReady, PasarAExec, pcbs
<1>3. CASE t \in HilosCpu /\ PasoCpu(t)
  <2>1. CASE Heredar(t)
    <3>1. hilo[t].en = "hereda" /\ UNCHANGED varsM
      BY <2>1 DEF Heredar
    <3>2. \/ UNCHANGED prioridad_actual
          \/ \E n : prioridad_actual' = [prioridad_actual EXCEPT ![hilo[t].pid] = n]
      BY <2>1, Zenon DEF Heredar, CambiarPrioridad
    <3>3. prioridad_actual \in [Pids -> Int]
      BY DEF Inv, TipoPcbs
    <3>. QED  BY <1>3, <2>1, <3>1, <3>2, <3>3
  <2>2. CASE ~ Heredar(t) /\ ~ DevolverMutex(t) /\ ~ LiberarMutex(t)
    BY <1>3, <2>2 DEF PasoCpu, PedirBloqueoIO, FinDeRafaga, PedirMemoria, DevolverMemoria, PedirMutex, BuscarDueno,
       Buscar, Ceder, AnotarDespertado, Finalizar, FinalizarKM, SalirDeExec, EntrarABlock,
       AnotarEspera, LiberarCpu, pcbs
  <2>. QED  BY <1>3, <2>1, <2>2
<1>. QED  BY <1>1, <1>2, <1>3, SMTT(40) DEF Paso

LEMMA PasoPrioridad ==
  ASSUME Inv, InvPuntos, InvLugar, InvEspera, InvCpu, InvTabla, InvGuion, InvToma, InvPrioridad, Ordenados,
         [Next]_vars, NEW t \in Hilos, Paso(t)
  PROVE  InvPrioridad'
<1>f. /\ InvFrescos /\ config' = config /\ dueno \in [Mutexes -> Pids \cup {NADA}]
      /\ prioridad_actual \in [Pids -> Int]
  BY ConfigFija DEF InvLugar, Inv, TypeOKMutex, TipoPcbs, NADA
<1>i. /\ \A p \in Pids : (\A m \in Mutexes : dueno[m] # p) => prioridad_actual[p] = config.prioridad[p]
      /\ \A p \in Pids, m \in Mutexes : Cediendo(p, m) => prioridad_actual[p] = config.prioridad[p]
      /\ \A u \in HilosCpu : hilo[u].en \in Buscando \ {"a_block"} => \E m \in Mutexes : dueno[m] = hilo[u].pid
  BY DEF InvPrioridad, PrioridadRestaurada, Prioridad, Original
<1>. SUFFICES
       /\ \A p \in Pids : (\A m \in Mutexes : dueno'[m] # p) => prioridad_actual'[p] = config.prioridad[p]
       /\ \A p \in Pids, m \in Mutexes : Cediendo(p, m)' => prioridad_actual'[p] = config.prioridad[p]
       /\ \A u \in HilosCpu : hilo'[u].en \in Buscando \ {"a_block"} => \E m \in Mutexes : dueno'[m] = hilo'[u].pid
  BY <1>f DEF InvPrioridad, PrioridadRestaurada, Prioridad, Original
<1>1. CASE t \notin HilosCpu
  <2>1. UNCHANGED <<dueno, prioridad_actual>> /\ \A v \in HilosCpu : hilo'[v] = hilo[v]
    BY <1>1, <1>f, FueraDeCpu
  <2>2. \A p \in Pids, m \in Mutexes : Cediendo(p, m)' <=> Cediendo(p, m)
    BY <1>1, <1>f, VistaAjena
  <2>. QED  BY <1>i, <2>1, <2>2
<1>2. CASE t \in HilosCpu
  <2>1. ASSUME NEW u \in HilosCpu, hilo'[u].en \in Buscando \ {"a_block"}
        PROVE  \E m \in Mutexes : dueno'[m] = hilo'[u].pid
    <3>1. u = t
      <4>1. SUFFICES ASSUME u # t PROVE FALSE
        OBVIOUS
      <4>2. hilo'[u].en = "reposo"
        BY <1>2, <1>f, <4>1, UnicaCpu
      <4>. QED  BY <2>1, <4>2 DEF Buscando
    <3>2. CASE PedirMutex(t)
      <4>1. PICK n \in Mutexes :
               \/ UNCHANGED hilo /\ hilo[t].en = "reposo"
               \/ UNCHANGED dueno /\ hilo'[t].pid = dueno[n]
        BY <1>2, <3>2, EfectoPedir
      <4>. QED  BY <2>1, <3>1, <4>1 DEF Buscando
    <3>3. CASE ~ PedirMutex(t)
      <4>1. /\ hilo[t].en \in Buscando \ {"a_block"} /\ hilo'[t].pid = hilo[t].pid /\ UNCHANGED dueno
        BY <1>2, <2>1, <3>1, <3>3, NuevoBusca
      <4>. QED  BY <1>i, <1>2, <3>1, <4>1
    <3>. QED  BY <3>2, <3>3
  <2>2. CASE DevolverMutex(t) \/ LiberarMutex(t)
    <3>1. PICK q \in Pids : /\ q = Pid(t) /\ UNCHANGED <<dueno, cpu>>
                            /\ prioridad_actual' = [prioridad_actual EXCEPT ![q] = config.prioridad[q]]
      BY <1>2, <2>2, EfectoUnlock
    <3>2. \A p \in Pids, m \in Mutexes : Cediendo(p, m)' => p = q
      BY <1>f, <1>2, <3>1, VistaCpu DEF Pid
    <3>3. \A p \in Pids : prioridad_actual'[p] = (IF p = q THEN config.prioridad[q] ELSE prioridad_actual[p])
      BY <1>f, <3>1
    <3>. QED  BY <1>i, <2>1, <3>1, <3>2, <3>3
  <2>3. CASE ~ (DevolverMutex(t) \/ LiberarMutex(t))
    <3>1. hilo'[t].en # "cede"
      <4>1. CASE PedirMutex(t)
        <5>1. hilo[t].en = "reposo" /\ (UNCHANGED hilo \/ hilo'[t].en = "busca_exec")
          BY <1>2, <4>1, EfectoPedir
        <5>. QED  BY <5>1
      <4>2. CASE Ceder(t)
        BY <1>2, <4>2, EfectoCeder DEF Continuaciones
      <4>3. CASE AnotarDespertado(t)
        BY <1>2, <4>3, EfectoAnotar DEF Continuaciones
      <4>4. CASE Fuera(hilo'[t]) \/ Despertando(hilo'[t])
        BY <4>4 DEF Fuera, Despertando
      <4>. QED  BY <1>2, <2>3, <4>1, <4>2, <4>3, <4>4, Clases
    <3>2. \A p \in Pids, m \in Mutexes : ~ Cediendo(p, m)'
      BY <1>f, <1>2, <3>1, VistaCpu
    <3>3. ASSUME NEW p \in Pids, \A m \in Mutexes : dueno'[m] # p
          PROVE  prioridad_actual'[p] = config.prioridad[p]
      <4>1. CASE UNCHANGED dueno
        <5>1. \A m \in Mutexes : dueno[m] # p
          BY <3>3, <4>1
        <5>2. prioridad_actual'[p] = prioridad_actual[p]
          <6>1. CASE hilo[t].en = "hereda"
            <7>1. p # hilo[t].pid
              BY <1>i, <1>2, <5>1, <6>1 DEF Buscando
            <7>. QED  BY <2>3, <7>1, CambiaPrioridad
          <6>2. CASE hilo[t].en # "hereda"
            BY <2>3, <6>2, CambiaPrioridad
          <6>. QED  BY <6>1, <6>2
        <5>. QED  BY <1>i, <5>1, <5>2
      <4>2. CASE PedirMutex(t) /\ ~ UNCHANGED dueno
        <5>1. PICK q \in Pids, n \in Mutexes :
                 /\ dueno[n] = NADA /\ dueno' = [dueno EXCEPT ![n] = q] /\ UNCHANGED prioridad_actual
          BY <1>2, <4>2, EfectoPedir
        <5>2. \A m \in Mutexes : dueno'[m] = (IF m = n THEN q ELSE dueno[m])
          BY <1>f, <5>1
        <5>3. \A m \in Mutexes : dueno[m] # p
          BY <3>3, <5>1, <5>2, ProcesosOK
        <5>. QED  BY <1>i, <5>1, <5>3
      <4>3. CASE Ceder(t)
        <5>1. PICK q \in Pids, n \in Mutexes :
                 /\ q = Pid(t) /\ n = hilo[t].mtx /\ hilo[t].en = "cede" /\ UNCHANGED prioridad_actual
                 /\ \E x \in Pids \cup {NADA} : dueno' = [dueno EXCEPT ![n] = x]
          BY <1>2, <4>3, EfectoCeder
        <5>2. Cediendo(q, n)
          BY <1>2, <5>1 DEF Cediendo
        <5>3. dueno[n] = q
          BY <5>2 DEF InvTabla
        <5>4. \A m \in Mutexes : m # n => dueno'[m] = dueno[m]
          BY <1>f, <5>1
        <5>5. CASE p = q
          BY <1>i, <5>1, <5>2, <5>5
        <5>6. CASE p # q
          <6>1. \A m \in Mutexes : dueno[m] # p
            BY <3>3, <5>3, <5>4, <5>6
          <6>. QED  BY <1>i, <5>1, <6>1
        <5>. QED  BY <5>5, <5>6
      <4>4. CASE AnotarDespertado(t)
        <5>1. UNCHANGED dueno
          BY <1>2, <4>4, EfectoAnotar
        <5>. QED  BY <4>1, <5>1
      <4>. QED  BY <1>2, <2>3, <4>1, <4>2, <4>3, <4>4, Clases DEF varsM
    <3>. QED  BY <2>1, <3>2, <3>3
  <2>. QED  BY <2>2, <2>3
<1>. QED  BY <1>1, <1>2

\* The devices do not touch the mutexes.
LEMMA MutexQuietos ==
  ASSUME InvMutex, UNCHANGED <<varsMP, varsM, cpu, paso>>
  PROVE  InvMutex'
<1>q. /\ config' = config /\ estado' = estado /\ prioridad_actual' = prioridad_actual /\ hilo' = hilo
      /\ lista_exec' = lista_exec /\ cola_block' = cola_block /\ susp_block' = susp_block
      /\ dueno' = dueno /\ bloqueados' = bloqueados /\ tomados' = tomados /\ cpu' = cpu /\ paso' = paso
  BY DEF varsMP, varsM
<1>c. \A p, m : (Cediendo(p, m)' <=> Cediendo(p, m)) /\ (Despierto(p, m)' <=> Despierto(p, m))
  BY <1>q DEF Cediendo, Despierto, Pid
<1>p. \A p, m : PidioMutex(p, m)' <=> PidioMutex(p, m)
  BY <1>q DEF PidioMutex, UltimaSobre
<1>1. InvCpu'
  BY <1>q DEF InvMutex, InvCpu
<1>2. InvSale'
  BY <1>q DEF InvMutex, InvSale, Pid
<1>3. InvTabla'
  BY <1>q, <1>c DEF InvMutex, InvTabla
<1>4. InvGuion'
  BY <1>q, <1>c, <1>p DEF InvMutex, InvGuion
<1>5. InvToma'
  BY <1>q DEF InvMutex, InvToma, Dormidos
<1>6. InvParado'
  BY <1>q DEF InvMutex, InvParado, PidioLock, Orden, Parado, Busca, Atiende
<1>7. InvPrioridad'
  BY <1>q, <1>c DEF InvMutex, InvPrioridad, PrioridadRestaurada, Prioridad, Original
<1>. QED  BY <1>1, <1>2, <1>3, <1>4, <1>5, <1>6, <1>7 DEF InvMutex

LEMMA PasoInvMutex ==
  ASSUME Inv, Inv', InvPuntos, InvPuntos', InvLugar, InvLugar', InvEspera, InvMutex, Ordenados, [Next]_vars
  PROVE  InvMutex'
<1>m. InvCpu /\ InvSale /\ InvTabla /\ InvGuion /\ InvToma /\ InvParado /\ InvPrioridad /\ UnaCpu
  BY DEF InvMutex, Ordenados
<1>1. ASSUME NEW t \in Hilos, Paso(t) PROVE InvMutex'
  <2>1. InvCpu'
    BY <1>m, PasoInvCpu
  <2>2. InvSale'
    BY <1>1, <1>m, PasoSale
  <2>3. InvTabla'
    BY <1>1, <1>m, PasoTabla
  <2>4. InvGuion'
    BY <1>1, <1>m, PasoGuion
  <2>5. InvToma'
    BY <1>1, <1>m, PasoToma
  <2>6. InvParado'
    BY <1>1, <1>m, PasoParado
  <2>7. InvPrioridad'
    BY <1>1, <1>m, PasoPrioridad
  <2>. QED  BY <2>1, <2>2, <2>3, <2>4, <2>5, <2>6, <2>7 DEF InvMutex
<1>2. CASE UNCHANGED <<varsMP, varsM, cpu, paso>>
  BY <1>2, MutexQuietos
<1>. QED  BY <1>1, <1>2 DEF Next, Entorno, vars

LEMMA InitInvMutex == Init => InvMutex
<1>. SUFFICES ASSUME Init PROVE InvMutex
  OBVIOUS
<1>i. Inv
  BY InitInv
<1>t. /\ \A t \in Hilos : hilo[t].en = "reposo" /\ hilo[t].luego = "reposo"
      /\ \A c \in Cpus : cpu[c] = NADA
      /\ \A m \in Mutexes : dueno[m] = NADA /\ bloqueados[m] = <<>>
      /\ \A p \in Pids : tomados[p] = <<>> /\ paso[p] = 0 /\ prioridad_actual[p] = config.prioridad[p]
  BY DEF Init, InitMutex, EnReposo, NADA
<1>h. \A t \in HilosCpu : hilo[t].en = "reposo" /\ hilo[t].luego = "reposo"
  BY <1>t, HilosDistintos
<1>c. \A p, m : ~ Cediendo(p, m) /\ ~ Despierto(p, m)
  BY <1>h DEF Cediendo, Despierto, Despertando
<1>s. \A m \in Mutexes : ToSet(bloqueados[m]) = {}
  BY <1>t DEF ToSet
<1>1. InvCpu
  BY <1>t DEF InvCpu
<1>2. InvSale
  BY <1>h DEF InvSale
<1>3. InvTabla
  <2>1. \A p \in Pids : IsInjective(tomados[p]) /\ ToSet(tomados[p]) = {}
    BY <1>t DEF IsInjective, ToSet
  <2>. QED  BY <1>t, <1>c, <1>s, <2>1, ProcesosOK DEF InvTabla
<1>4. InvGuion
  <2>1. ASSUME NEW p \in Pids, NEW m \in Mutexes PROVE ~ PidioMutex(p, m)
    <3>1. PICK S : S = {i \in 1 .. paso[p] : /\ config.guion[p][i].op \in {"MUTEX_LOCK", "MUTEX_UNLOCK"}
                                            /\ config.guion[p][i].arg = m}
      OBVIOUS
    <3>2. S = {}
      BY <1>t, <3>1
    <3>3. UltimaSobre(p, m) = 0
      BY <1>i, <3>1, <3>2, UltimaDe
    <3>. QED  BY <3>3 DEF PidioMutex
  <2>. QED  BY <1>t, <1>c, <1>s, <2>1, ProcesosOK DEF InvGuion
<1>5. InvToma
  BY <1>h DEF InvToma, Despertando
<1>6. InvParado
  BY <1>t DEF InvParado
<1>7. InvPrioridad
  BY <1>t, <1>h, <1>c DEF InvPrioridad, PrioridadRestaurada, Buscando
<1>. QED  BY <1>1, <1>2, <1>3, <1>4, <1>5, <1>6, <1>7 DEF InvMutex

\* Where the scenario has one CPU and well-formed scripts.
LEMMA MutexInductiva ==
  Spec => [](/\ Inv /\ InvPuntos /\ InvUso /\ (~ config.cmn => InvLugar /\ InvMemoria /\ InvFichas)
             /\ (~ config.cmn /\ Ordenados => InvMutex))
<1>. DEFINE Todo == Inv /\ InvPuntos /\ InvUso /\ (~ config.cmn => InvLugar /\ InvMemoria /\ InvFichas)
            Suyo == ~ config.cmn /\ Ordenados => InvMutex
<1>1. Init => Suyo
  BY InitInvMutex
<1>2. Todo /\ Todo' /\ Suyo /\ [Next]_vars => Suyo'
  <2>. SUFFICES ASSUME Todo, Todo', Suyo, [Next]_vars, ~ config'.cmn, Ordenados' PROVE InvMutex'
    OBVIOUS
  <2>1. config' = config
    BY ConfigFija
  <2>2. Ordenados /\ ~ config.cmn
    BY <2>1 DEF Ordenados, UnaCpu
  <2>3. InvMutex /\ InvLugar /\ InvLugar' /\ InvEspera
    BY <2>1, <2>2 DEF InvFichas
  <2>. QED  BY <2>2, <2>3, PasoInvMutex
<1>3. Spec => []Todo
  BY FichasInductiva
<1>. HIDE DEF Todo, Suyo
<1>4. Spec => [](Todo /\ Suyo)
  BY <1>1, <1>2, <1>3, PTL DEF Spec
<1>5. Todo /\ Suyo => /\ Inv /\ InvPuntos /\ InvUso /\ (~ config.cmn => InvLugar /\ InvMemoria /\ InvFichas)
                     /\ (~ config.cmn /\ Ordenados => InvMutex)
  BY DEF Todo, Suyo
<1>. QED  BY <1>4, <1>5, PTL

-----------------------------------------------------------------------------
\* Who is past a lock has the mutex.
LEMMA DentroEsDueno ==
  Inv /\ InvLugar /\ InvEspera /\ InvMutex
    => \A p \in Pids, m \in Mutexes : Dentro(p, m) => dueno[m] = p
<1>. SUFFICES ASSUME Inv, InvLugar, InvEspera, InvMutex, NEW p \in Pids, NEW m \in Mutexes, Dentro(p, m),
                     p \in ToSet(bloqueados[m])
              PROVE  FALSE
  <2>1. ASSUME NEW p \in Pids, NEW m \in Mutexes, Inv, InvMutex, Dentro(p, m)
        PROVE  dueno[m] = p \/ p \in ToSet(bloqueados[m])
    BY <2>1 DEF Dentro, InvMutex, InvGuion
  <2>. QED  BY <2>1
<1>1. PidioLock(p, m) /\ Parado(p)
  BY DEF InvEspera, InvEsperaMutex
<1>2. ASSUME NEW c \in Cpus, Busca(c), cpu[c] = p PROVE estado[p] = "EXEC" /\ EnSyscall(p)
  <2>1. p \in lista_exec
    BY <1>2 DEF Busca, InvLugar, InvRafagas
  <2>2. hilo[HiloCpu(c)].en # "reposo"
    BY <1>2 DEF Busca, Buscando
  <2>. QED  BY <1>2, <2>1, <2>2 DEF InvLugar, InvListas, EnSyscall
<1>3. paso[p] \in Nat
  BY DEF Inv, TipoPcbs
<1>4. ~ (paso[p] > UltimaSobre(p, m))
  <2>1. PICK S : S = {i \in 1 .. paso[p] : /\ config.guion[p][i].op \in {"MUTEX_LOCK", "MUTEX_UNLOCK"}
                                          /\ config.guion[p][i].arg = m}
    OBVIOUS
  <2>2. PICK u : u = UltimaSobre(p, m)
    OBVIOUS
  <2>3. /\ S = {} => u = 0
        /\ S # {} => u \in S /\ \A i \in S : i <= u
    BY <2>1, <2>2, UltimaDe
  <2>4. paso[p] > 0 => paso[p] \in S
    <3>1. config.guion[p][paso[p]] = [op |-> "MUTEX_LOCK", arg |-> m]
      BY <1>1 DEF PidioLock, Orden
    <3>2. config.guion[p][paso[p]].op = "MUTEX_LOCK" /\ config.guion[p][paso[p]].arg = m
      BY <3>1
    <3>. QED  BY <1>3, <2>1, <3>2
  <2>5. S \subseteq Nat
    BY <1>3, <2>1
  <2>6. ~ (paso[p] > u)
    <3>1. PICK n \in Nat : n = paso[p]
      BY <1>3
    <3>2. n > 0 => n <= u /\ u \in Nat
      BY <2>3, <2>4, <2>5, <3>1
    <3>3. u \in Nat
      <4>1. CASE S = {}
        BY <2>3, <4>1
      <4>2. CASE S # {}
        BY <2>3, <2>5, <4>2
      <4>. QED  BY <4>1, <4>2
    <3>. QED  BY <3>1, <3>2, <3>3
  <2>. QED  BY <2>2, <2>6
<1>. QED  BY <1>1, <1>2, <1>4 DEF Parado, Dentro

LEMMA MutexDan ==
  ASSUME Inv, InvLugar, InvEspera, InvMutex
  PROVE  ExclusionMutua /\ TomadosEspejan /\ DespiertaAlSiguiente /\ PrioridadRestaurada
<1>1. ExclusionMutua
  BY DentroEsDueno DEF ExclusionMutua
<1>2. \A p \in Pids, m \in Mutexes : Despierto(p, m) => Despertadores(p, m) # {}
  BY DEF Despierto, Despertando, Despertadores
<1>3. TomadosEspejan
  <2>1. ASSUME NEW p \in Pids, NEW m \in Mutexes PROVE Contains(tomados[p], m) <=> m \in ToSet(tomados[p])
    <3>1. tomados[p] \in Seq(Mutexes)
      BY DEF Inv, TypeOKMutex
    <3>2. DOMAIN tomados[p] = 1 .. Len(tomados[p])
      BY <3>1, LenProperties
    <3>. QED  BY <3>2 DEF Contains, ToSet
  <2>. QED  BY <1>2, <2>1 DEF TomadosEspejan, InvMutex, InvTabla
<1>4. DespiertaAlSiguiente
  <2>. SUFFICES ASSUME NEW m \in Mutexes, NEW p \in Pids, dueno[m] = p, paso[p] > 0, PidioLock(p, m),
                       estado[p] \in {"BLOCK", "SUSP_BLOCK"}
                PROVE  Despertadores(p, m) # {}
    BY DEF DespiertaAlSiguiente, PidioLock
  <2>1. Parado(p) /\ p \notin ToSet(bloqueados[m])
    BY DEF Parado, InvMutex, InvTabla
  <2>2. PICK t \in HilosCpu : Despierta(hilo[t], "toma") /\ hilo[t].pid = p /\ hilo[t].mtx = m
    BY <2>1 DEF InvMutex, InvParado
  <2>. QED  BY <2>2 DEF Despierta, Despertadores
<1>5. PrioridadRestaurada
  BY DEF InvMutex, InvPrioridad
<1>. QED  BY <1>1, <1>3, <1>4, <1>5

LEMMA MutexSeguros ==
  Spec => [](~ config.cmn /\ Ordenados
               => ExclusionMutua /\ TomadosEspejan /\ DespiertaAlSiguiente /\ PrioridadRestaurada)
<1>1. /\ Inv /\ InvPuntos /\ InvUso /\ (~ config.cmn => InvLugar /\ InvMemoria /\ InvFichas)
      /\ (~ config.cmn /\ Ordenados => InvMutex)
      => (~ config.cmn /\ Ordenados
            => ExclusionMutua /\ TomadosEspejan /\ DespiertaAlSiguiente /\ PrioridadRestaurada)
  BY MutexDan DEF InvFichas
<1>. QED  BY <1>1, MutexInductiva, PTL

\* Without Colas Multinivel, with one CPU and well-formed scripts, no two processes
\* are between a MUTEX_LOCK and its MUTEX_UNLOCK: neither the suspension of who
\* waits nor the end of an owner gives a mutex to two.
THEOREM MutexExcluyen == Spec => [](~ config.cmn /\ Ordenados => ExclusionMutua)
BY MutexSeguros, PTL

\* In the same scenarios the table and the lists of the processes agree, but for the
\* thread between one and the other: no mutex stays with who will not release it.
THEOREM TablaComoListas == Spec => [](~ config.cmn /\ Ordenados => TomadosEspejan)
BY MutexSeguros, PTL

\* In the same scenarios a process that was given a mutex does not stay blocked for
\* it, whether it waits in BLOCK or was suspended: a thread is on its way to wake it.
THEOREM HerederoDespierta == Spec => [](~ config.cmn /\ Ordenados => DespiertaAlSiguiente)
BY MutexSeguros, PTL

\* In the same scenarios a process without mutexes has its own priority: what it
\* inherited is undone before the table says that the mutex is another's.
THEOREM HerenciaDeshecha == Spec => [](~ config.cmn /\ Ordenados => PrioridadRestaurada)
BY MutexSeguros, PTL
=============================================================================
