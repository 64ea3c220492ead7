-------------------------- MODULE Contexto_proofs --------------------------
(***************************************************************************)
(* What a CPU runs, and from where: the context of a process is neither    *)
(* lost nor repeated on its way through CPUs, PCBs and Kernel Memory, an   *)
(* interruption reaches only the burst it was meant for, and the scheduler *)
(* implements the life cycle of CicloDeVida, for every number of CPUs,     *)
(* processes and queues and all scripts.                                   *)
(*                                                                         *)
(* The count of instructions that a process has completed is always in one *)
(* known place: its PCB, Kernel Memory, the PC of the CPU that runs it, or *)
(* the answer of that CPU.  That nobody else writes there is the division  *)
(* of the processes in EXEC among CPUs (EnExec in Procesos_proofs).        *)
(***************************************************************************)
EXTENDS Procesos_proofs

-----------------------------------------------------------------------------
(* The inductive invariant *)

\* What CPU c has been sent, or runs, is its process.
InvPid(c) ==
  /\ \A i \in 1 .. Len(red_cpu[c]) : EsEnvio(red_cpu[c][i]) => red_cpu[c][i].pid = cpu[c].pid
  /\ nucleo[c].ejecutando => nucleo[c].pid = cpu[c].pid

\* An INTERRUPCION of this burst, whose reason is recorded
DeEstaRafaga(c, m) ==
  ~ EsEnvio(m) /\ m.rafaga = cpu[c].rafaga /\ cpu[c].motivo # "NINGUNA"

InvInterrupcion(c) ==
  /\ \A i, j \in 1 .. Len(red_cpu[c]) :
       i < j /\ EsEnvio(red_cpu[c][i]) => DeEstaRafaga(c, red_cpu[c][j])
  /\ nucleo[c].ejecutando => \A i \in 1 .. Len(red_cpu[c]) : DeEstaRafaga(c, red_cpu[c][i])
  /\ \A i \in 1 .. Len(red_ks[c]) : red_ks[c][i].tipo = "INTERRUPCION" =>
       cpu[c].motivo # "NINGUNA" /\ red_ks[c][i].inst = InstNula

AlDia(p) == registros[p] = ejecutadas[p]

\* In a burst the count of instructions is in the context the CPU will ask for,
\* in its PC, or in its answer.
InvPC(c) ==
  /\ \A i \in 1 .. Len(red_cpu[c]) : EsEnvio(red_cpu[c][i]) =>
       contexto_km[cpu[c].pid] = ejecutadas[cpu[c].pid]
  /\ nucleo[c].ejecutando => nucleo[c].pc = ejecutadas[cpu[c].pid]
  /\ \A i \in 1 .. Len(red_ks[c]) :
       red_ks[c][i].pc > 0 /\ red_ks[c][i].pc = ejecutadas[cpu[c].pid]

\* Out of a burst it is in the PCB, and from there in Kernel Memory.
InvPCB == \A p \in Pids : estado[p] \notin {"EXEC", "EXIT"} => AlDia(p)

EnPausa(c) == Tiene(c) /\ ~ cpu[c].en_rafaga

InvManejador(c) ==
  EnPausa(c) => IF pc[HiloCpu(c)] = "sale" THEN ejecutadas[cpu[c].pid] > 0 ELSE AlDia(cpu[c].pid)

InvCP == \A p \in CargaCP : AlDia(p)

InvEnvio(t) == pc[t] = "envia" => contexto_km[loc[t].pid] = ejecutadas[loc[t].pid]

InvContexto ==
  /\ \A c \in Cpus : InvPid(c) /\ InvInterrupcion(c) /\ InvPC(c) /\ InvManejador(c)
  /\ InvPCB /\ InvCP
  /\ \A t \in {HiloCP} \cup HilosCpu : InvEnvio(t)

Inv == InvTipos /\ InvCompactacion /\ InvProcesos /\ InvContexto

-----------------------------------------------------------------------------
(* Who writes what *)

\* The registers of a PCB are written by the handler that receives them, the
\* context of Kernel Memory when the process is admitted and by the thread that
\* dispatches it, and the count of completed instructions grows where a CPU
\* executes.
LEMMA QuienEscribe ==
  ASSUME [Next]_vars
  PROVE  /\ UNCHANGED registros \/ (\E c \in Cpus : Recibir(c))
         /\ \/ UNCHANGED contexto_km \/ AdmitirNew
            \/ \E t \in {HiloCP} \cup HilosCpu : ActualizarContexto(t)
         /\ UNCHANGED ejecutadas \/ (\E c \in Cpus : EjecutarComun(c) \/ EjecutarSyscall(c))
<1>. DEFINE Igual == UNCHANGED <<registros, contexto_km, ejecutadas>>
<1>1. ASSUME NEW t \in Hilos, EncolarEnReady(t) PROVE Igual
  BY <1>1 DEF EncolarEnReady, Encolar, PostearReady, BuscarVictima, Desalojar, pcbs, km
<1>2. CortoPlazo => Igual
  BY DEF CortoPlazo, EsperarReady, EsperarCpu, Desencolar, PasarAExec, pcbs, km
<1>3. ASSUME NEW t \in {HiloCP} \cup HilosCpu, Despachar(t)
      PROVE  UNCHANGED <<registros, ejecutadas>> /\ (UNCHANGED contexto_km \/ ActualizarContexto(t))
  BY <1>3 DEF Despachar, ActualizarContexto, Enviar, pcbs, km
<1>4. ASSUME NEW x \in timers, VencerQuantum(x) PROVE Igual
  BY <1>4, SMTT(40) DEF VencerQuantum, pcbs, km
<1>5. ASSUME NEW c \in Cpus, AtenderCpu(c)
      PROVE  UNCHANGED <<contexto_km, ejecutadas>> /\ (UNCHANGED registros \/ Recibir(c))
  BY <1>5 DEF AtenderCpu, RegistrarCpu, PostearCpu, Recibir, LiberarCpu, FinalizarProcesoKM,
     AnotarEspera, EliminarSegmento, ExecAReady, ExecAExit, ExecABlock, CrearProceso, pcbs, km
<1>6. ASSUME NEW t \in HilosMemoria, CrearSegmento(t) \/ Compactacion(t) PROVE Igual
  BY <1>6 DEF CrearSegmento, CrearOK, CrearError, CrearCompacta, Compactacion,
     PausarPlanificacion, InterrumpirParaCompactar, Compactar, ReanudarPlanificacion, pcbs, km
<1>7. ASSUME NEW t \in HilosMemoria, EventoMemoria(t) PROVE Igual
  BY <1>7 DEF EventoMemoria, TomarEvento, Satisfacer, SoltarEvento, pcbs, km
<1>8. ASSUME NEW t \in HilosIO, TerminarIO(t) PROVE Igual
  BY <1>8 DEF TerminarIO, km
<1>9. AdmitirNew => UNCHANGED <<registros, ejecutadas>>
  BY DEF AdmitirNew
<1>10. NuevoStick => Igual
  BY DEF NuevoStick, pcbs, km
<1>11. ASSUME NEW c \in Cpus, ProgramaCpu(c)
       PROVE  UNCHANGED <<registros, contexto_km>>
              /\ (UNCHANGED ejecutadas \/ EjecutarComun(c) \/ EjecutarSyscall(c))
  BY <1>11 DEF ProgramaCpu, CpuRecibe, FallarFetch, EjecutarComun, EjecutarSyscall, pcbs, km
<1>12. UNCHANGED vars => Igual
  BY DEF vars, pcbs, km
<1>. QED  BY <1>1, <1>2, <1>3, <1>4, <1>5, <1>6, <1>7, <1>8, <1>9, <1>10, <1>11, <1>12 DEF Next

\* CPU c has the process p, or the corto plazo has it.
LEMMA UnSoloDuenio ==
  ASSUME InvExec, NEW c \in Cpus, NEW p \in Carga(c)
  PROVE  p \in ConEstado("EXEC") /\ p \notin CargaCP /\ \A d \in Cpus : p \in Carga(d) => d = c
<1>1. /\ HiloCP \in DOMAIN EnExec /\ EnExec[HiloCP] = CargaCP
      /\ \A d \in Cpus : /\ HiloCpu(d) \in DOMAIN EnExec /\ HiloCpu(d) # HiloCP
                         /\ EnExec[HiloCpu(d)] = Carga(d)
  BY HilosDistintos DEF EnExec
<1>2. /\ \A x, y \in DOMAIN EnExec : EnExec[x] \cap EnExec[y] # {} => x = y
      /\ UNION {EnExec[x] : x \in DOMAIN EnExec} = ConEstado("EXEC")
  BY DEF InvExec, Reparto
<1>. QED  BY <1>1, <1>2, HiloDeUnaCpu

LEMMA EnExecCP ==
  ASSUME InvExec
  PROVE  CargaCP \subseteq ConEstado("EXEC")
<1>1. HiloCP \in DOMAIN EnExec /\ EnExec[HiloCP] = CargaCP
  BY DEF EnExec
<1>. QED  BY <1>1 DEF InvExec, Reparto

\* In a burst, a CPU has its process.
LEMMA CargaEnRafaga ==
  ASSUME InvCompactacion, NEW c \in Cpus, cpu[c].en_rafaga
  PROVE  Tiene(c) /\ Carga(c) = {cpu[c].pid}
BY DEF InvCompactacion, InvRafaga, Tiene, Carga

\* A process gets ahead only on its own CPU, in a burst ...
LEMMA QuienAvanza ==
  ASSUME Inv, [Next]_vars, NEW p \in Pids, ejecutadas'[p] # ejecutadas[p]
  PROVE  \E d \in Cpus : /\ EjecutarComun(d) \/ EjecutarSyscall(d)
                         /\ cpu[d].en_rafaga /\ cpu[d].pid = p /\ p \in Carga(d)
<1>1. PICK d \in Cpus : EjecutarComun(d) \/ EjecutarSyscall(d)
  BY QuienEscribe
<1>2. nucleo[d].ejecutando /\ ejecutadas' = [ejecutadas EXCEPT ![nucleo[d].pid] = @ + 1]
  BY <1>1 DEF EjecutarComun, EjecutarSyscall, HayInstruccion
<1>3. nucleo[d].pid = p
  BY <1>2 DEF Inv, InvTipos, TypeOK, TypePcbs
<1>4. cpu[d].en_rafaga /\ cpu[d].pid = p
  BY <1>2, <1>3 DEF Inv, InvCompactacion, InvRafaga, InvContexto, InvPid
<1>. QED  BY <1>1, <1>4, CargaEnRafaga DEF Inv

\* ... its PCB is written by the handler of that CPU when it ends ...
LEMMA QuienGuarda ==
  ASSUME Inv, [Next]_vars, NEW p \in Pids, registros'[p] # registros[p]
  PROVE  \E d \in Cpus : Recibir(d) /\ cpu[d].en_rafaga /\ cpu[d].pid = p /\ p \in Carga(d)
<1>1. PICK d \in Cpus : Recibir(d)
  BY QuienEscribe
<1>2. cpu[d].pid = p /\ red_ks[d] # <<>>
  BY <1>1 DEF Recibir, Inv, InvTipos, TypeOK, TypePcbs
<1>3. cpu[d].en_rafaga
  BY <1>2 DEF Inv, InvCompactacion, InvRafaga
<1>. QED  BY <1>1, <1>2, <1>3, CargaEnRafaga DEF Inv

LEMMA DespachaLaSuya ==
  ASSUME Inv, NEW t \in {HiloCP} \cup HilosCpu, pc[t] \in {"contexto", "envia"}
  PROVE  \/ t = HiloCP /\ CargaCP = {loc[t].pid}
         \/ \E d \in Cpus : /\ t = HiloCpu(d) /\ EnPausa(d) /\ loc[t].pid = cpu[d].pid
                            /\ Carga(d) = {loc[t].pid}
<1>1. CASE t = HiloCP
  BY <1>1 DEF CargaCP
<1>2. CASE t # HiloCP
  <2>1. PICK d \in Cpus : t = HiloCpu(d)
    BY <1>2 DEF HilosCpu
  <2>2. EnManejador(d)
    BY <2>1, ManejaSinEvento, HilosDistintos DEF EnManejador, ConProceso, Inv
  <2>. QED  BY <2>1, <2>2, EnManejadorTiene DEF Inv, EnPausa, Carga, Parada
<1>. QED  BY <1>1, <1>2

\* ... and its context in Kernel Memory, once admitted, by the thread that is
\* about to send it.
LEMMA QuienActualiza ==
  ASSUME Inv, [Next]_vars, NEW p \in Pids, contexto_km'[p] # contexto_km[p]
  PROVE  \/ AdmitirNew /\ p \in ConEstado("NEW")
         \/ ActualizarContexto(HiloCP) /\ p \in CargaCP
         \/ \E d \in Cpus : ActualizarContexto(HiloCpu(d)) /\ EnPausa(d) /\ p \in Carga(d)
<1>1. CASE AdmitirNew
  <2>1. p = Head(cola_new)
    BY <1>1 DEF AdmitirNew, Inv, InvTipos, TypeOK, TypeKM
  <2>2. Cambia(Head(cola_new), "NEW", "READY")
    BY <1>1, CambiaAdmitir DEF Inv
  <2>. QED  BY <1>1, <2>1, <2>2 DEF Cambia, ConEstado
<1>2. ASSUME NEW t \in {HiloCP} \cup HilosCpu, ActualizarContexto(t)
      PROVE  \/ ActualizarContexto(HiloCP) /\ p \in CargaCP
             \/ \E d \in Cpus : ActualizarContexto(HiloCpu(d)) /\ EnPausa(d) /\ p \in Carga(d)
  <2>1. pc[t] = "contexto" /\ loc[t].pid = p
    BY <1>2 DEF ActualizarContexto, Inv, InvTipos, TypeOK, TypeKM
  <2>. QED  BY <1>2, <2>1, DespachaLaSuya
<1>. QED  BY <1>1, <1>2, QuienEscribe

-----------------------------------------------------------------------------
(* The invariant is preserved: what a CPU has been sent, runs and answers *)

\* Thread t sends CPU c, out of any burst, its process.
Despacha(t, c) ==
  /\ Enviar(t) /\ CpuDe(t) = c
  /\ ~ cpu[c].en_rafaga /\ red_ks[c] = <<>> /\ ~ nucleo[c].ejecutando /\ SinEnvio(c)
  /\ cpu'[c].pid = loc[t].pid /\ cpu'[c].rafaga = cpu[c].rafaga + 1
  /\ red_cpu'[c] = Append(red_cpu[c], MsjEnviarPid(loc[t].pid, cpu[c].rafaga + 1))
  /\ UNCHANGED <<red_ks, nucleo, contexto_km, ejecutadas>>

\* A CPU in a burst after a step was in it before, or has just been dispatched to.
LEMMA PasosEnRafaga ==
  ASSUME InvTipos, InvCompactacion, [Next]_vars, NEW c \in Cpus, cpu'[c].en_rafaga
  PROVE  \/ MismoCpu(c) /\ cpu[c].en_rafaga /\ ~ ProgramaCpu(c)
         \/ \E t \in {HiloCP} \cup HilosCpu : Despacha(t, c)
         \/ ProgramaCpu(c) /\ cpu[c].en_rafaga /\ UNCHANGED cpu
<1>t. DOMAIN cpu = Cpus /\ DOMAIN red_cpu = Cpus /\ DOMAIN red_ks = Cpus /\ DOMAIN nucleo = Cpus
      /\ TypeCpus /\ InvRafaga(c)
  BY DEF InvTipos, TypeOK, TypeCpus, InvCompactacion
<1>0. ASSUME NEW d \in Cpus, ProgramaCpu(d) PROVE UNCHANGED cpu
  BY <1>0 DEF ProgramaCpu, CpuRecibe, FallarFetch, EjecutarComun, EjecutarSyscall, cpusKS
<1>1. CASE CpusQuietas
  BY <1>0, <1>1 DEF CpusQuietas, MismoCpu
<1>2. ASSUME NEW t \in {HiloCP} \cup HilosCpu, Enviar(t)
      PROVE  MismoCpu(c) \/ Despacha(t, c)
  <2>1. CASE CpuDe(t) # c
    BY <1>t, <1>2, <2>1 DEF Enviar, MismoCpu
  <2>2. CASE CpuDe(t) = c
    <3>1. ~ cpu[c].en_rafaga
      BY <1>2, <2>2, DestinoLibre DEF Enviar
    <3>2. red_ks[c] = <<>> /\ ~ nucleo[c].ejecutando /\ SinEnvio(c)
      BY <1>t, <3>1 DEF InvRafaga
    <3>3. UNCHANGED <<red_ks, nucleo, contexto_km, ejecutadas>>
      BY <1>2 DEF Enviar, km
    <3>4. /\ cpu'[c].pid = loc[t].pid /\ cpu'[c].rafaga = cpu[c].rafaga + 1
          /\ red_cpu'[c] = Append(red_cpu[c], MsjEnviarPid(loc[t].pid, cpu[c].rafaga + 1))
      BY <1>t, <1>2, <2>2 DEF Enviar
    <3>. QED  BY <1>2, <2>2, <3>1, <3>2, <3>3, <3>4 DEF Despacha
  <2>. QED  BY <2>1, <2>2
<1>3. ASSUME NEW d \in Cpus, RegistrarCpu(d) \/ Recibir(d) \/ LiberarCpu(d) PROVE MismoCpu(c)
  <2>1. d # c
    <3>1. ~ CpuInicial.en_rafaga /\ ~ FinDeRafaga(cpu[c]).en_rafaga
          /\ ~ [cpu[c] EXCEPT !.libre = TRUE, !.pid = 0, !.en_rafaga = FALSE].en_rafaga
      BY <1>t DEF CpuInicial, FinDeRafaga, TypeCpus
    <3>. QED  BY <1>t, <1>3, <3>1 DEF RegistrarCpu, Recibir, LiberarCpu
  <2>. QED  BY <1>t, <1>3, <2>1 DEF RegistrarCpu, Recibir, LiberarCpu, MismoCpu, redes
<1>4. ASSUME NEW d \in Cpus, d # c, ProgramaCpu(d) PROVE MismoCpu(c)
  <2>1. CASE CpuRecibe(d)
    BY <1>t, <1>0, <1>4, <2>1 DEF CpuRecibe, MismoCpu
  <2>2. CASE FallarFetch(d)
    BY <1>t, <1>0, <1>4, <2>2 DEF FallarFetch, MismoCpu
  <2>3. CASE EjecutarComun(d)
    BY <1>t, <1>0, <1>4, <2>3 DEF EjecutarComun, Devolver, MismoCpu
  <2>4. CASE EjecutarSyscall(d)
    BY <1>t, <1>0, <1>4, <2>4 DEF EjecutarSyscall, Devolver, MismoCpu
  <2>. QED  BY <1>4, <2>1, <2>2, <2>3, <2>4 DEF ProgramaCpu
<1>5. CASE ProgramaCpu(c)
  BY <1>0, <1>5
<1>6. CASE ~ ProgramaCpu(c)
  <2>1. MismoCpu(c) \/ \E t \in {HiloCP} \cup HilosCpu : Despacha(t, c)
    BY <1>1, <1>2, <1>3, <1>4, <1>6, PasosDeCpu DEF CpusQuietas
  <2>. QED  BY <1>6, <2>1 DEF MismoCpu
<1>. QED  BY <1>5, <1>6

\* Out of a burst there is nothing to say of what a CPU runs.
LEMMA FueraDeRafaga ==
  ASSUME NEW c \in Cpus, InvRafaga(c)', ~ cpu'[c].en_rafaga
  PROVE  InvPid(c)' /\ InvInterrupcion(c)' /\ InvPC(c)'
<1>1. ~ nucleo'[c].ejecutando /\ red_ks'[c] = <<>> /\ SinEnvio(c)'
  BY DEF InvRafaga
<1>. QED  BY <1>1 DEF InvPid, InvInterrupcion, InvPC, SinEnvio

\* The messages after the first of a socket
LEMMA RestoDe ==
  ASSUME NEW M, NEW s \in Seq(M), s # <<>>
  PROVE  /\ Head(s) = s[1] /\ 1 \in 1 .. Len(s) /\ Len(Tail(s)) = Len(s) - 1
         /\ \A i \in 1 .. Len(Tail(s)) : Tail(s)[i] = s[i + 1] /\ i + 1 \in 1 .. Len(s)
BY HeadTailProperties

\* The CPU program in a burst: only its own messages move, and the count of
\* instructions goes from the context to the PC and from there to the answer.
LEMMA PasoPrograma ==
  ASSUME Inv, NEW c \in Cpus, ProgramaCpu(c), cpu[c].en_rafaga, UNCHANGED cpu
  PROVE  InvPid(c)' /\ InvInterrupcion(c)' /\ InvPC(c)'
<1>. DEFINE s == red_cpu[c]
            p == cpu[c].pid
<1>t. /\ DOMAIN red_ks = Cpus /\ DOMAIN nucleo = Cpus /\ DOMAIN red_cpu = Cpus
      /\ s \in Seq(MensajesCpu) /\ red_ks[c] \in Seq(MensajesKS) /\ Len(s) \in Nat
      /\ nucleo[c] \in [ejecutando : BOOLEAN, pid : Pids, pc : Nat] /\ p \in Pids
      /\ ejecutadas \in [Pids -> Nat]
  BY DEF Inv, InvTipos, TypeOK, TypeCpus, TypePcbs
<1>i. InvRafaga(c) /\ InvPid(c) /\ InvInterrupcion(c) /\ InvPC(c)
  BY DEF Inv, InvCompactacion, InvContexto
<1>k. UNCHANGED contexto_km
  BY DEF ProgramaCpu, CpuRecibe, FallarFetch, EjecutarComun, EjecutarSyscall, km
<1>r. ASSUME s # <<>>
      PROVE  /\ Head(s) = s[1] /\ 1 \in 1 .. Len(s) /\ Len(Tail(s)) = Len(s) - 1
             /\ \A i \in 1 .. Len(Tail(s)) : Tail(s)[i] = s[i + 1] /\ i + 1 \in 1 .. Len(s)
             /\ \A i, j \in 1 .. Len(Tail(s)) : i < j => i + 1 < j + 1
  BY <1>t, <1>r, RestoDe
<1>1. CASE CpuRecibe(c)
  <2>1. /\ ~ nucleo[c].ejecutando /\ s # <<>> /\ red_cpu'[c] = Tail(s)
        /\ UNCHANGED <<red_ks, ejecutadas>>
    BY <1>t, <1>1 DEF CpuRecibe
  <2>2. CASE Head(s).tipo = "INTERRUPCION"
    <3>1. UNCHANGED nucleo
      BY <1>1, <2>2 DEF CpuRecibe
    <3>2. InvPid(c)'
      BY <1>i, <1>r, <2>1, <3>1 DEF InvPid
    <3>3. InvInterrupcion(c)'
      BY <1>i, <1>r, <2>1, <3>1 DEF InvInterrupcion, DeEstaRafaga
    <3>4. InvPC(c)'
      BY <1>i, <1>k, <1>r, <2>1, <3>1 DEF InvPC
    <3>. QED  BY <3>2, <3>3, <3>4
  <2>3. CASE Head(s).tipo # "INTERRUPCION"
    <3>1. EsEnvio(s[1])
      <4>1. s[1] \in MensajesCpu
        BY <1>r, <1>t, <2>1, ElementOfSeq
      <4>. QED  BY <1>r, <2>1, <2>3, <4>1 DEF EsEnvio, MensajesCpu
    <3>2. s[1].pid = p /\ contexto_km[p] = ejecutadas[p]
      BY <1>i, <1>r, <2>1, <3>1 DEF InvPid, InvPC
    <3>3. nucleo'[c] = [ejecutando |-> TRUE, pid |-> p, pc |-> contexto_km[p]]
      BY <1>1, <1>r, <1>t, <2>1, <2>3, <3>2 DEF CpuRecibe
    <3>4. red_ks'[c] = <<>>
      BY <1>i, <1>r, <2>1, <3>1 DEF InvRafaga, SinEnvio
    <3>5. \A i \in 1 .. Len(Tail(s)) : DeEstaRafaga(c, Tail(s)[i])
      <4>1. TAKE i \in 1 .. Len(Tail(s))
      <4>2. Tail(s)[i] = s[i + 1] /\ i + 1 \in 1 .. Len(s) /\ 1 < i + 1
        BY <1>r, <2>1
      <4>. QED  BY <1>i, <1>r, <2>1, <3>1, <4>2 DEF InvInterrupcion
    <3>6. InvPid(c)'
      BY <2>1, <3>3, <3>5 DEF InvPid, DeEstaRafaga
    <3>7. InvInterrupcion(c)'
      BY <2>1, <3>3, <3>4, <3>5 DEF InvInterrupcion, DeEstaRafaga
    <3>8. InvPC(c)'
      BY <1>k, <2>1, <3>2, <3>3, <3>4, <3>5 DEF InvPC, DeEstaRafaga
    <3>. QED  BY <3>6, <3>7, <3>8
  <2>. QED  BY <2>2, <2>3
<1>2. CASE FallarFetch(c)
  <2>1. /\ nucleo[c].ejecutando /\ ~ nucleo'[c].ejecutando
        /\ UNCHANGED <<red_cpu, red_ks, ejecutadas>>
    BY <1>t, <1>2 DEF FallarFetch, NucleoLibre
  <2>. QED  BY <1>i, <1>k, <2>1 DEF InvPid, InvInterrupcion, InvPC, DeEstaRafaga
<1>3. ASSUME nucleo[c].ejecutando,
             ejecutadas' = [ejecutadas EXCEPT ![nucleo[c].pid] = @ + 1],
             NEW m, Devolver(c, m), m.pc = PCSiguiente(c),
             m.tipo = "INTERRUPCION" => s # <<>> /\ m.inst = InstNula,
             red_cpu'[c] = s \/ (s # <<>> /\ red_cpu'[c] = Tail(s))
      PROVE  InvPid(c)' /\ InvInterrupcion(c)' /\ InvPC(c)'
  <2>1. /\ red_ks[c] = <<>> /\ nucleo[c].pid = p /\ nucleo[c].pc = ejecutadas[p]
        /\ \A i \in 1 .. Len(s) : DeEstaRafaga(c, s[i])
    BY <1>3, <1>i DEF InvRafaga, InvPid, InvInterrupcion, InvPC
  <2>2. ~ nucleo'[c].ejecutando /\ red_ks'[c] = Append(<<>>, m)
    BY <1>3, <1>t, <2>1 DEF Devolver, NucleoLibre
  <2>3. Len(red_ks'[c]) = 1 /\ red_ks'[c][1] = m
    BY <2>2
  <2>4. m.pc > 0 /\ m.pc = ejecutadas'[p]
    BY <1>3, <1>t, <2>1 DEF PCSiguiente
  <2>5. m.tipo = "INTERRUPCION" => cpu[c].motivo # "NINGUNA" /\ m.inst = InstNula
    BY <1>3, <1>r, <2>1 DEF DeEstaRafaga
  <2>6. \A i \in 1 .. Len(red_cpu'[c]) : DeEstaRafaga(c, red_cpu'[c][i])
    BY <1>3, <1>r, <2>1
  <2>7. InvPid(c)'
    BY <2>2, <2>6 DEF InvPid, DeEstaRafaga
  <2>8. InvInterrupcion(c)'
    BY <2>2, <2>3, <2>5, <2>6 DEF InvInterrupcion, DeEstaRafaga
  <2>9. InvPC(c)'
    BY <2>2, <2>3, <2>4, <2>6 DEF InvPC, DeEstaRafaga
  <2>. QED  BY <2>7, <2>8, <2>9
<1>4. CASE EjecutarComun(c)
  <2>1. nucleo[c].ejecutando /\ ejecutadas' = [ejecutadas EXCEPT ![nucleo[c].pid] = @ + 1]
    BY <1>4 DEF EjecutarComun, HayInstruccion
  <2>2. CASE s # <<>> /\ Head(s).tipo = "INTERRUPCION"
    <3>1. Devolver(c, MsjDesalojado(PCSiguiente(c))) /\ red_cpu'[c] = Tail(s)
      BY <1>4, <1>t, <2>2 DEF EjecutarComun
    <3>2. /\ MsjDesalojado(PCSiguiente(c)).pc = PCSiguiente(c)
          /\ MsjDesalojado(PCSiguiente(c)).inst = InstNula
      BY DEF MsjDesalojado
    <3>. QED  BY <1>3, <2>1, <2>2, <3>1, <3>2
  <2>3. CASE ~ (s # <<>> /\ Head(s).tipo = "INTERRUPCION")
    <3>1. nucleo' = [nucleo EXCEPT ![c].pc = PCSiguiente(c)] /\ UNCHANGED <<red_cpu, red_ks>>
      BY <1>4, <2>3 DEF EjecutarComun
    <3>2. /\ nucleo'[c].ejecutando /\ nucleo'[c].pid = nucleo[c].pid
          /\ nucleo'[c].pc = nucleo[c].pc + 1
      BY <1>t, <2>1, <3>1 DEF PCSiguiente
    <3>3. /\ red_ks[c] = <<>> /\ nucleo[c].pid = p /\ nucleo[c].pc = ejecutadas[p]
          /\ \A i \in 1 .. Len(s) : DeEstaRafaga(c, s[i])
      BY <1>i, <2>1 DEF InvRafaga, InvPid, InvInterrupcion, InvPC
    <3>4. nucleo'[c].pc = ejecutadas'[p]
      BY <1>t, <2>1, <3>2, <3>3
    <3>5. InvPid(c)'
      BY <3>1, <3>2, <3>3 DEF InvPid, DeEstaRafaga
    <3>6. InvInterrupcion(c)'
      BY <3>1, <3>2, <3>3 DEF InvInterrupcion, DeEstaRafaga
    <3>7. InvPC(c)'
      BY <3>1, <3>2, <3>3, <3>4 DEF InvPC, DeEstaRafaga
    <3>. QED  BY <3>5, <3>6, <3>7
  <2>. QED  BY <2>2, <2>3
<1>5. CASE EjecutarSyscall(c)
  <2>. DEFINE m == MsjSyscall(InstActual(c), PCSiguiente(c))
  <2>1. /\ nucleo[c].ejecutando /\ ejecutadas' = [ejecutadas EXCEPT ![nucleo[c].pid] = @ + 1]
        /\ Devolver(c, m) /\ UNCHANGED red_cpu
    BY <1>5 DEF EjecutarSyscall, HayInstruccion
  <2>2. m.pc = PCSiguiente(c) /\ m.tipo # "INTERRUPCION"
    BY DEF MsjSyscall
  <2>. HIDE DEF m
  <2>. QED  BY <1>3, <2>1, <2>2
<1>. QED  BY <1>1, <1>2, <1>4, <1>5 DEF ProgramaCpu

\* The count of the process of a CPU in a burst moves only there, and nobody
\* writes its context in Kernel Memory meanwhile.
LEMMA EnRafagaQuieto ==
  ASSUME Inv, [Next]_vars, NEW c \in Cpus, cpu[c].en_rafaga, ~ ProgramaCpu(c)
  PROVE  /\ contexto_km'[cpu[c].pid] = contexto_km[cpu[c].pid]
         /\ ejecutadas'[cpu[c].pid] = ejecutadas[cpu[c].pid]
<1>. DEFINE p == cpu[c].pid
<1>1. p \in Pids
  BY DEF Inv, InvTipos, TypeOK, TypeCpus
<1>2. p \in Carga(c)
  BY CargaEnRafaga DEF Inv
<1>3. /\ p \in ConEstado("EXEC") /\ p \notin CargaCP
      /\ \A d \in Cpus : p \in Carga(d) => d = c
  BY <1>2, UnSoloDuenio DEF Inv, InvProcesos
<1>4. p \notin ConEstado("NEW")
  BY <1>3 DEF ConEstado
<1>5. contexto_km'[p] = contexto_km[p]
  BY <1>1, <1>3, <1>4, QuienActualiza DEF EnPausa
<1>6. ejecutadas'[p] = ejecutadas[p]
  BY <1>1, <1>3, QuienAvanza DEF ProgramaCpu
<1>. QED  BY <1>5, <1>6

LEMMA PasoDeCpu ==
  ASSUME Inv, [Next]_vars, NEW c \in Cpus
  PROVE  InvPid(c)' /\ InvInterrupcion(c)' /\ InvPC(c)'
<1>t. /\ red_cpu[c] \in Seq(MensajesCpu) /\ Len(red_cpu[c]) \in Nat
  BY DEF Inv, InvTipos, TypeOK, TypeCpus
<1>i. InvRafaga(c) /\ InvPid(c) /\ InvInterrupcion(c) /\ InvPC(c)
  BY DEF Inv, InvCompactacion, InvContexto
<1>1. CASE ~ cpu'[c].en_rafaga
  BY <1>1, FueraDeRafaga, PasoRafaga DEF Inv
<1>2. CASE MismoCpu(c) /\ cpu[c].en_rafaga /\ ~ ProgramaCpu(c)
  <2>0. /\ cpu'[c].pid = cpu[c].pid /\ cpu'[c].rafaga = cpu[c].rafaga
        /\ red_ks'[c] = red_ks[c] /\ nucleo'[c] = nucleo[c]
    BY <1>2 DEF MismoCpu
  <2>1. /\ contexto_km'[cpu[c].pid] = contexto_km[cpu[c].pid]
        /\ ejecutadas'[cpu[c].pid] = ejecutadas[cpu[c].pid]
    BY <1>2, EnRafagaQuieto
  <2>2. CASE red_cpu'[c] = red_cpu[c] /\ cpu'[c].motivo = cpu[c].motivo
    <3>1. InvPid(c)'
      BY <1>i, <2>0, <2>2 DEF InvPid
    <3>2. InvInterrupcion(c)'
      BY <1>i, <2>0, <2>2 DEF InvInterrupcion, DeEstaRafaga
    <3>3. InvPC(c)'
      BY <1>i, <2>0, <2>1, <2>2 DEF InvPC
    <3>. QED  BY <3>1, <3>2, <3>3
  <2>3. CASE /\ red_cpu'[c] = Append(red_cpu[c], MsjInterrupcion(cpu[c].rafaga))
             /\ cpu'[c].motivo # "NINGUNA"
    <3>. DEFINE m == MsjInterrupcion(cpu[c].rafaga)
                n == Len(red_cpu[c])
    <3>1. /\ ~ EsEnvio(m) /\ m.rafaga = cpu'[c].rafaga
      BY <2>0 DEF MsjInterrupcion, EsEnvio
    <3>. HIDE DEF m
    <3>2. /\ Len(red_cpu'[c]) = n + 1 /\ red_cpu'[c][n + 1] = m
          /\ \A i \in 1 .. n : red_cpu'[c][i] = red_cpu[c][i]
      BY <1>t, <2>3 DEF m
    <3>3. \A i \in 1 .. n + 1 : i \in 1 .. n \/ i = n + 1
      BY <1>t
    <3>4. \A i \in 1 .. n + 1 : EsEnvio(red_cpu'[c][i]) =>
             i \in 1 .. n /\ EsEnvio(red_cpu[c][i]) /\ red_cpu'[c][i] = red_cpu[c][i]
      BY <3>1, <3>2, <3>3
    <3>5. \A i \in 1 .. n + 1 : (i \in 1 .. n => DeEstaRafaga(c, red_cpu[c][i]))
             => DeEstaRafaga(c, red_cpu[c][i])'
      BY <2>0, <2>3, <3>1, <3>2, <3>3 DEF DeEstaRafaga
    <3>6. InvPid(c)'
      BY <1>i, <2>0, <3>2, <3>4 DEF InvPid
    <3>7. InvInterrupcion(c)'
      <4>1. ASSUME NEW i \in 1 .. n + 1, NEW j \in 1 .. n + 1, i < j, EsEnvio(red_cpu'[c][i])
            PROVE  DeEstaRafaga(c, red_cpu[c][j])'
        BY <1>i, <3>4, <3>5, <4>1 DEF InvInterrupcion
      <4>2. ASSUME nucleo'[c].ejecutando, NEW i \in 1 .. n + 1
            PROVE  DeEstaRafaga(c, red_cpu[c][i])'
        BY <1>i, <2>0, <3>5, <4>2 DEF InvInterrupcion
      <4>. QED  BY <1>i, <2>0, <2>3, <3>2, <4>1, <4>2 DEF InvInterrupcion
    <3>8. InvPC(c)'
      BY <1>i, <2>0, <2>1, <3>2, <3>4 DEF InvPC
    <3>. QED  BY <3>6, <3>7, <3>8
  <2>. QED  BY <1>2, <2>2, <2>3 DEF MismoCpu
<1>3. ASSUME NEW t \in {HiloCP} \cup HilosCpu, Despacha(t, c)
      PROVE  InvPid(c)' /\ InvInterrupcion(c)' /\ InvPC(c)'
  <2>. DEFINE m == MsjEnviarPid(loc[t].pid, cpu[c].rafaga + 1)
              n == Len(red_cpu[c])
  <2>1. m.pid = loc[t].pid
    BY DEF MsjEnviarPid
  <2>. HIDE DEF m
  <2>2. /\ Len(red_cpu'[c]) = n + 1 /\ red_cpu'[c][n + 1] = m
        /\ \A i \in 1 .. n : red_cpu'[c][i] = red_cpu[c][i]
    BY <1>3, <1>t DEF Despacha, m
  <2>3. \A i \in 1 .. n + 1 : EsEnvio(red_cpu'[c][i]) => i = n + 1
    BY <1>3, <1>t, <2>2 DEF Despacha, SinEnvio
  <2>4. /\ red_ks'[c] = <<>> /\ ~ nucleo'[c].ejecutando /\ cpu'[c].pid = loc[t].pid
    BY <1>3 DEF Despacha
  <2>5. contexto_km'[loc[t].pid] = ejecutadas'[loc[t].pid]
    <3>1. pc[t] = "envia"
      BY <1>3 DEF Despacha, Enviar
    <3>. QED  BY <1>3, <3>1 DEF Despacha, Inv, InvContexto, InvEnvio
  <2>6. InvPid(c)'
    BY <2>1, <2>2, <2>3, <2>4 DEF InvPid
  <2>7. InvInterrupcion(c)'
    BY <1>t, <2>2, <2>3, <2>4 DEF InvInterrupcion
  <2>8. InvPC(c)'
    BY <2>1, <2>2, <2>3, <2>4, <2>5 DEF InvPC
  <2>. QED  BY <2>6, <2>7, <2>8
<1>4. CASE ProgramaCpu(c) /\ cpu[c].en_rafaga /\ UNCHANGED cpu
  BY <1>4, PasoPrograma
<1>. QED  BY <1>1, <1>2, <1>3, <1>4, PasosEnRafaga DEF Inv

-----------------------------------------------------------------------------
(* The invariant is preserved: the count on its way from one burst to another *)

\* A thread is about to send a process after it has updated its context.
LEMMA LlegaAEnvia ==
  ASSUME InvTipos, [Next]_vars, NEW t \in {HiloCP} \cup HilosCpu, pc'[t] = "envia"
  PROVE  ActualizarContexto(t) \/ (pc[t] = "envia" /\ loc'[t] = loc[t])
<1>p. /\ pc \in [Hilos -> Lugares] /\ loc \in [Hilos -> Locales] /\ t \in Hilos
      /\ t # HiloLP /\ t # HiloNT /\ t \notin HilosIO
  <2>1. pc \in [Hilos -> Lugares] /\ loc \in [Hilos -> Locales]
    BY DEF InvTipos, TypeOK, TypeHilos
  <2>2. CASE t = HiloCP
    BY <2>1, <2>2, HilosDistintos
  <2>3. ASSUME NEW c \in Cpus, t = HiloCpu(c)
        PROVE  t \in Hilos /\ t # HiloLP /\ t # HiloNT /\ t \notin HilosIO
    BY <2>3, HilosDistintos
  <2>. QED  BY <2>1, <2>2, <2>3 DEF HilosCpu
<1>1. CASE pc'[t] = pc[t] /\ loc'[t] = loc[t]
  BY <1>1
<1>2. CASE ~ (pc'[t] = pc[t] /\ loc'[t] = loc[t])
  <2>1. Paso(t)
    BY <1>p, <1>2, QuienMueve
  <2>2. ~ EncolarEnReady(t)
    <3>1. EncolarEnReady(t) => pc'[t] \in {"postea_ready", "busca_victima", "desaloja", TrasEncolar(t)}
      BY <1>p DEF EncolarEnReady, Encolar, PostearReady, BuscarVictima, Desalojar, Ir
    <3>2. TrasEncolar(t) # "envia"
      BY <1>p DEF TrasEncolar
    <3>. QED  BY <3>1, <3>2
  <2>3. ~ (t = HiloCP /\ CortoPlazo)
    BY <1>p DEF CortoPlazo, EsperarReady, EsperarCpu, Desencolar, PasarAExec, Ir
  <2>4. ~ Enviar(t)
    <3>1. Enviar(t) => pc'[t] = TrasDespachar(t)
      BY <1>p DEF Enviar, Ir
    <3>2. TrasDespachar(t) # "envia"
      BY DEF TrasDespachar
    <3>. QED  BY <3>1, <3>2
  <2>5. ASSUME NEW c \in Cpus, t = HiloCpu(c) PROVE ~ AtenderCpu(c)
    <3>1. ~ ExecABlock(c)
      <4>1. ExecABlock(c) => pc'[t] \in {"libera_cpu", "anota_espera"}
        BY <2>5, MueveBloqueo
      <4>. QED  BY <4>1
    <3>2. Recibir(c) => pc'[t] = TrasRecibir(Head(red_ks[c]))
      BY <1>p, <2>5 DEF Recibir, Ir
    <3>3. TrasRecibir(Head(red_ks[c])) # "envia"
      BY DEF TrasRecibir
    <3>. QED  BY <1>p, <2>5, <3>1, <3>2, <3>3 DEF AtenderCpu, RegistrarCpu, PostearCpu, LiberarCpu,
       ExecAReady, ExecAExit, FinalizarProcesoKM, AnotarEspera, CrearProceso, EliminarSegmento, Ir
  <2>6. ~ (CrearSegmento(t) \/ Compactacion(t))
    BY <1>p DEF CrearSegmento, CrearOK, CrearError, CrearCompacta, Compactacion, TrasCrear,
       PausarPlanificacion, InterrumpirParaCompactar, Compactar, ReanudarPlanificacion, Ir
  <2>7. ~ EventoMemoria(t)
    BY <1>p DEF EventoMemoria, TomarEvento, Satisfacer, SoltarEvento, Ir, Locales
  <2>. QED  BY <1>p, <2>1, <2>2, <2>3, <2>4, <2>5, <2>6, <2>7 DEF Paso, Despachar
<1>. QED  BY <1>1, <1>2

\* The thread of a CPU comes to the end of a process, and leaves it, by its own
\* steps.
LEMMA SaleQuieto ==
  ASSUME InvTipos, [Next]_vars, NEW c \in Cpus, ~ Recibir(c), ~ DejaExec(c)
  PROVE  pc'[HiloCpu(c)] = "sale" <=> pc[HiloCpu(c)] = "sale"
<1>. DEFINE t == HiloCpu(c)
<1>p. /\ pc \in [Hilos -> Lugares] /\ loc \in [Hilos -> Locales] /\ t \in Hilos
      /\ t # HiloCP /\ t # HiloLP /\ t # HiloNT /\ t \notin HilosIO
      /\ \A d \in Cpus : t = HiloCpu(d) => d = c
  BY HilosDistintos, HiloDeUnaCpu DEF InvTipos, TypeOK, TypeHilos
<1>1. CASE pc'[t] = pc[t] /\ loc'[t] = loc[t]
  BY <1>1
<1>2. CASE ~ (pc'[t] = pc[t] /\ loc'[t] = loc[t])
  <2>1. Paso(t)
    BY <1>p, <1>2, QuienMueve
  <2>2. ASSUME EncolarEnReady(t) PROVE pc[t] # "sale" /\ pc'[t] # "sale"
    <3>1. pc'[t] \in {"postea_ready", "busca_victima", "desaloja", TrasEncolar(t)}
      BY <1>p, <2>2 DEF EncolarEnReady, Encolar, PostearReady, BuscarVictima, Desalojar, Ir
    <3>2. TrasEncolar(t) # "sale"
      BY <1>p DEF TrasEncolar
    <3>3. pc[t] # "sale"
      BY <2>2 DEF EncolarEnReady, Encolar, PostearReady, BuscarVictima, Desalojar
    <3>. QED  BY <3>1, <3>2, <3>3
  <2>3. ASSUME Despachar(t) PROVE pc[t] # "sale" /\ pc'[t] # "sale"
    <3>1. pc'[t] \in {"envia", TrasDespachar(t)} /\ pc[t] # "sale"
      BY <1>p, <2>3 DEF Despachar, ActualizarContexto, Enviar, Ir
    <3>2. TrasDespachar(t) # "sale"
      BY DEF TrasDespachar
    <3>. QED  BY <3>1, <3>2
  <2>4. ASSUME AtenderCpu(c) PROVE pc[t] # "sale" /\ pc'[t] # "sale"
    BY <1>p, <2>4 DEF AtenderCpu, DejaExec, RegistrarCpu, PostearCpu, LiberarCpu,
       FinalizarProcesoKM, AnotarEspera, CrearProceso, EliminarSegmento, Ir
  <2>5. ASSUME CrearSegmento(t) \/ Compactacion(t) PROVE pc[t] # "sale" /\ pc'[t] # "sale"
    BY <1>p, <2>5 DEF CrearSegmento, CrearOK, CrearError, CrearCompacta, PideSegmento, TrasCrear,
       Compactacion, PausarPlanificacion, InterrumpirParaCompactar, Compactar,
       ReanudarPlanificacion, Ir
  <2>6. ASSUME EventoMemoria(t) PROVE pc[t] # "sale" /\ pc'[t] # "sale"
    BY <1>p, <2>6 DEF EventoMemoria, TomarEvento, Satisfacer, SoltarEvento, Ir, Locales
  <2>. QED  BY <1>p, <2>1, <2>2, <2>3, <2>4, <2>5, <2>6 DEF Paso
<1>. QED  BY <1>1, <1>2

\* The count of a process that no CPU is running stays as it is.
LEMMA CuentaQuieta ==
  ASSUME Inv, [Next]_vars, NEW p \in Pids,
         \A d \in Cpus : cpu[d].en_rafaga => p \notin Carga(d)
  PROVE  ejecutadas'[p] = ejecutadas[p] /\ registros'[p] = registros[p]
BY QuienAvanza, QuienGuarda

\* In particular that of one that is not in EXEC.
LEMMA CuentaFueraDeExec ==
  ASSUME Inv, [Next]_vars, NEW p \in Pids, estado[p] # "EXEC"
  PROVE  ejecutadas'[p] = ejecutadas[p] /\ registros'[p] = registros[p]
<1>1. \A d \in Cpus : p \notin Carga(d)
  BY UnSoloDuenio DEF Inv, InvProcesos, ConEstado
<1>. QED  BY <1>1, CuentaQuieta

LEMMA PasoPCB ==
  ASSUME Inv, [Next]_vars
  PROVE  InvPCB'
<1>t. estado \in [Pids -> {"NO_CREADO", "NEW", "READY", "EXEC", "BLOCK", "EXIT"}]
  BY DEF Inv, InvTipos, TypeOK, TypePcbs
<1>1. SUFFICES ASSUME NEW p \in Pids, estado'[p] \notin {"EXEC", "EXIT"} PROVE AlDia(p)'
  BY DEF InvPCB
<1>2. CASE estado[p] \notin {"EXEC", "EXIT"}
  BY <1>2, CuentaFueraDeExec DEF Inv, InvContexto, InvPCB, AlDia
<1>3. ASSUME NEW a, NEW b, NEW q, Cambia(q, a, b), a \notin {"EXEC", "EXIT"},
             estado[p] \in {"EXEC", "EXIT"}
      PROVE  FALSE
  BY <1>1, <1>3, <1>t DEF Cambia
<1>4. ASSUME NEW c \in Cpus, DejaExec(c), estado[p] \in {"EXEC", "EXIT"} PROVE AlDia(p)'
  <2>1. /\ loc[HiloCpu(c)].pid = cpu[c].pid /\ EnManejador(c) /\ Tiene(c)
        /\ ExecAReady(c) => Cambia(cpu[c].pid, "EXEC", "READY")
        /\ ExecAExit(c) => Cambia(cpu[c].pid, "EXEC", "EXIT")
        /\ ExecABlock(c) => Cambia(cpu[c].pid, "EXEC", "BLOCK")
    BY <1>4, CambiaDeExec DEF DejaExec, Inv
  <2>2. p = cpu[c].pid /\ ~ ExecAExit(c)
    BY <1>1, <1>4, <1>t, <2>1 DEF Cambia, DejaExec
  <2>3. EnPausa(c)
    BY <2>1, EnManejadorTiene DEF EnPausa, Parada, Inv
  <2>4. pc[HiloCpu(c)] # "sale"
    BY <1>4, <2>2 DEF DejaExec, ExecAReady, ExecABlock, Bloqueo
  <2>5. AlDia(p)
    BY <2>2, <2>3, <2>4 DEF Inv, InvContexto, InvManejador
  <2>6. UNCHANGED <<registros, ejecutadas>>
    BY <1>4, <2>2 DEF DejaExec, ExecAReady, ExecABlock
  <2>. QED  BY <2>5, <2>6 DEF AlDia
<1>5. ASSUME estado[p] \in {"EXEC", "EXIT"}, ~ \E c \in Cpus : DejaExec(c) PROVE FALSE
  <2>1. CASE UNCHANGED estado
    BY <1>1, <1>5, <2>1
  <2>2. CASE AdmitirNew
    BY <1>3, <1>5, <2>2, CambiaAdmitir DEF Inv
  <2>3. CASE PasarAExec
    <3>1. CASE UNCHANGED estado
      BY <1>1, <1>5, <3>1
    <3>2. CASE pc'[HiloCP] # "encola"
      BY <1>3, <1>5, <2>3, <3>2, CambiaAExec DEF Inv
    <3>3. pc'[HiloCP] = "encola" => UNCHANGED estado
      BY <2>3, HilosDistintos DEF PasarAExec, Ir, Inv, InvTipos, TypeOK, TypeHilos
    <3>. QED  BY <3>1, <3>2, <3>3
  <2>4. ASSUME NEW c \in Cpus, CrearProceso(c) PROVE FALSE
    <3>1. Cambia(proximo_pid, "NO_CREADO", "NEW") \/ UNCHANGED estado
      BY <2>4, CambiaCrear DEF Inv
    <3>. QED  BY <1>3, <1>5, <2>1, <3>1
  <2>5. ASSUME NEW t \in HilosIO, TerminarIO(t) PROVE FALSE
    BY <1>3, <1>5, <2>5, CambiaIO DEF Inv
  <2>6. ASSUME NEW t \in HilosMemoria, Satisfacer(t) PROVE FALSE
    BY <1>3, <1>5, <2>6, CambiaSatisfacer DEF Inv
  <2>. QED  BY <1>5, <2>1, <2>2, <2>3, <2>4, <2>5, <2>6, PasosDeEstado DEF DejaExec
<1>. QED  BY <1>2, <1>4, <1>5

LEMMA PasoManejador ==
  ASSUME Inv, [Next]_vars, NEW c \in Cpus
  PROVE  InvManejador(c)'
<1>. DEFINE t == HiloCpu(c)
<1>p. /\ pc \in [Hilos -> Lugares] /\ t \in Hilos /\ t # HiloCP /\ DOMAIN cpu = Cpus
      /\ cpu[c] \in [libre : BOOLEAN, pid : Pids, en_rafaga : BOOLEAN, rafaga : Nat,
                      motivo : {"NINGUNA", "QUANTUM", "PREEMPCION", "COMPACTACION"}]
      /\ red_ks[c] \in Seq(MensajesKS) /\ registros \in [Pids -> Nat]
  BY HilosDistintos DEF Inv, InvTipos, TypeOK, TypeHilos, TypeCpus, TypePcbs
<1>q. InvTipos /\ InvCompactacion /\ InvProcesos
  BY DEF Inv
<1>1. SUFFICES ASSUME ~ cpu'[c].libre, ~ cpu'[c].en_rafaga, EnManejador(c)'
               PROVE  IF pc'[t] = "sale" THEN ejecutadas'[cpu'[c].pid] > 0
                                         ELSE AlDia(cpu[c].pid)'
  BY DEF InvManejador, EnPausa, Tiene
<1>2. CASE Recibir(c)
  <2>. DEFINE m == Head(red_ks[c])
              p == cpu[c].pid
  <2>1. /\ red_ks[c] # <<>> /\ cpu'[c].pid = p /\ pc'[t] = TrasRecibir(m)
        /\ registros' = IF m.inst.op = "EXIT" THEN registros ELSE [registros EXCEPT ![p] = m.pc]
        /\ UNCHANGED ejecutadas
    BY <1>2, <1>p DEF Recibir, FinDeRafaga, Ir
  <2>2. m = red_ks[c][1] /\ 1 \in 1 .. Len(red_ks[c]) /\ m \in MensajesKS
    BY <1>p, <2>1, RestoDe, ElementOfSeq
  <2>3. m.pc > 0 /\ m.pc = ejecutadas[p]
    BY <2>2 DEF Inv, InvContexto, InvPC
  <2>4. m.tipo = "INTERRUPCION" => m.inst.op # "EXIT"
    BY <2>2 DEF Inv, InvContexto, InvInterrupcion, InstNula
  <2>5. pc'[t] # "sale" => m.inst.op # "EXIT"
    BY <2>1, <2>4 DEF TrasRecibir
  <2>6. p \in Pids
    BY <1>p
  <2>. HIDE DEF m
  <2>7. pc'[t] # "sale" => registros'[p] = m.pc
    BY <1>p, <2>1, <2>5, <2>6
  <2>. QED  BY <2>1, <2>3, <2>7 DEF AlDia
<1>3. ~ Enviar(t) /\ ~ (Enviar(HiloCP) /\ loc[HiloCP].cpu = c)
  <2>1. Enviar(t) => CpuDe(t) = c
    BY <1>p, HilosDistintos DEF CpuDe
  <2>2. ASSUME NEW u, Enviar(u), CpuDe(u) = c PROVE cpu'[c].en_rafaga
    BY <1>p, <2>2 DEF Enviar
  <2>. QED  BY <1>1, <2>1, <2>2 DEF CpuDe
<1>4. ~ RegistrarCpu(c) /\ ~ LiberarCpu(c)
  <2>1. RegistrarCpu(c) => cpu'[c].libre
    BY <1>p DEF RegistrarCpu, CpuInicial
  <2>2. LiberarCpu(c) => cpu'[c].libre
    BY <1>p DEF LiberarCpu
  <2>. QED  BY <1>1, <2>1, <2>2
<1>5. ~ DejaExec(c)
  <2>1. DejaExec(c) => pc'[t] \in {"encola", "finaliza_km", "anota_espera", "libera_cpu"}
    BY <1>q, DejaExecMueve
  <2>. QED  BY <1>1, <2>1 DEF EnManejador, ConProceso
<1>6. CASE ~ Recibir(c)
  <2>1. /\ cpu'[c].libre = cpu[c].libre /\ cpu'[c].pid = cpu[c].pid
        /\ cpu'[c].en_rafaga = cpu[c].en_rafaga
    BY <1>3, <1>4, <1>6, <1>q, CpuAjena
  <2>2. EnManejador(c)
    BY <1>1, <1>3, <1>5, <1>6, <1>q, ManejadorQuieto
  <2>3. EnPausa(c) /\ cpu[c].pid \in Carga(c) /\ cpu[c].pid \in Pids
    BY <1>1, <1>p, <2>1, <2>2 DEF EnPausa, Tiene, Carga
  <2>4. \A d \in Cpus : cpu[d].en_rafaga => cpu[c].pid \notin Carga(d)
    BY <2>3, UnSoloDuenio DEF Inv, InvProcesos, EnPausa
  <2>5. ejecutadas'[cpu[c].pid] = ejecutadas[cpu[c].pid] /\ registros'[cpu[c].pid] = registros[cpu[c].pid]
    BY <2>3, <2>4, CuentaQuieta
  <2>6. pc'[t] = "sale" <=> pc[t] = "sale"
    BY <1>5, <1>6, <1>q, SaleQuieto
  <2>7. InvManejador(c)
    BY DEF Inv, InvContexto
  <2>. QED  BY <2>1, <2>3, <2>5, <2>6, <2>7 DEF InvManejador, AlDia
<1>. QED  BY <1>2, <1>6

LEMMA PasoCP ==
  ASSUME Inv, [Next]_vars
  PROVE  InvCP'
<1>p. pc \in [Hilos -> Lugares] /\ HiloCP \in Hilos /\ InvTipos /\ loc \in [Hilos -> Locales]
  BY HilosDistintos DEF Inv, InvTipos, TypeOK, TypeHilos
<1>1. CASE Enviar(HiloCP)
  <2>1. pc'[HiloCP] = "espera_ready"
    BY <1>1, <1>p DEF Enviar, TrasDespachar, Ir
  <2>. QED  BY <2>1 DEF InvCP, CargaCP
<1>2. CASE PasarAExec
  <2>1. pc[HiloCP] = "a_exec" /\ pc'[HiloCP] \in {"encola", "contexto"}
    BY <1>2, <1>p DEF PasarAExec, Ir
  <2>2. CASE pc'[HiloCP] = "encola"
    BY <2>2 DEF InvCP, CargaCP
  <2>3. CASE pc'[HiloCP] = "contexto"
    <3>1. loc'[HiloCP].pid = loc[HiloCP].pid /\ UNCHANGED <<registros, ejecutadas>>
      BY <1>2, <1>p DEF PasarAExec, Locales
    <3>2. loc[HiloCP].pid \in ConEstado("READY")
      BY <1>p, <2>1, DeManoReady DEF Inv, InvProcesos
    <3>3. AlDia(loc[HiloCP].pid)
      BY <3>2 DEF Inv, InvContexto, InvPCB, ConEstado
    <3>. QED  BY <2>3, <3>1, <3>3 DEF InvCP, CargaCP, AlDia
  <2>. QED  BY <2>1, <2>2, <2>3
<1>3. CASE ~ Enviar(HiloCP) /\ ~ PasarAExec
  <2>1. CargaCP' = CargaCP
    BY <1>3, <1>p, CargaCPQuieta
  <2>2. ASSUME NEW p \in CargaCP PROVE AlDia(p)'
    <3>1. p \in Pids
      BY <1>p DEF CargaCP, Locales
    <3>2. \A d \in Cpus : p \notin Carga(d)
      BY UnSoloDuenio DEF Inv, InvProcesos
    <3>. QED  BY <3>1, <3>2, CuentaQuieta DEF Inv, InvContexto, InvCP, AlDia
  <2>. QED  BY <2>1, <2>2 DEF InvCP
<1>. QED  BY <1>1, <1>2, <1>3

LEMMA PasoEnvio ==
  ASSUME Inv, [Next]_vars, NEW t \in {HiloCP} \cup HilosCpu
  PROVE  InvEnvio(t)'
<1>. DEFINE p == loc[t].pid
<1>1. SUFFICES ASSUME pc'[t] = "envia"
               PROVE  contexto_km'[loc'[t].pid] = ejecutadas'[loc'[t].pid]
  BY DEF InvEnvio
<1>2. ActualizarContexto(t) \/ (pc[t] = "envia" /\ loc'[t] = loc[t])
  BY <1>1, LlegaAEnvia DEF Inv
<1>3. p \in Pids
  <2>1. t \in Hilos
    BY HilosDistintos
  <2>. QED  BY <2>1 DEF Inv, InvTipos, TypeOK, TypeHilos, Locales
<1>4. loc'[t] = loc[t] /\ pc[t] \in {"contexto", "envia"}
  BY <1>2 DEF ActualizarContexto
<1>5. CASE ActualizarContexto(t)
  <2>1. contexto_km' = [contexto_km EXCEPT ![p] = registros[p]] /\ UNCHANGED ejecutadas
        /\ pc[t] # "sale"
    BY <1>5 DEF ActualizarContexto
  <2>2. contexto_km'[p] = registros[p]
    BY <1>3, <2>1 DEF Inv, InvTipos, TypeOK, TypeKM
  <2>3. AlDia(p)
    <3>1. CASE t = HiloCP /\ CargaCP = {p}
      BY <3>1 DEF Inv, InvContexto, InvCP
    <3>2. ASSUME NEW d \in Cpus, t = HiloCpu(d), EnPausa(d), p = cpu[d].pid
          PROVE  AlDia(p)
      <4>1. InvManejador(d)
        BY DEF Inv, InvContexto
      <4>. QED  BY <2>1, <3>2, <4>1 DEF InvManejador
    <3>. QED  BY <1>4, <3>1, <3>2, DespachaLaSuya
  <2>. QED  BY <1>4, <2>1, <2>2, <2>3 DEF AlDia
<1>6. CASE pc[t] = "envia"
  <2>1. contexto_km[p] = ejecutadas[p]
    BY <1>6 DEF Inv, InvContexto, InvEnvio
  <2>2. /\ p \in ConEstado("EXEC")
        /\ p \in CargaCP => t = HiloCP /\ \A d \in Cpus : p \notin Carga(d)
        /\ \A d \in Cpus : p \in Carga(d) => t = HiloCpu(d) /\ ~ cpu[d].en_rafaga
    <3>1. CASE t = HiloCP /\ CargaCP = {p}
      <4>1. \A d \in Cpus : p \notin Carga(d)
        BY <3>1, UnSoloDuenio DEF Inv, InvProcesos
      <4>2. p \in ConEstado("EXEC")
        BY <3>1, EnExecCP DEF Inv, InvProcesos
      <4>. QED  BY <3>1, <4>1, <4>2
    <3>2. ASSUME NEW d \in Cpus, t = HiloCpu(d), EnPausa(d), Carga(d) = {p}
          PROVE  /\ p \in ConEstado("EXEC") /\ p \notin CargaCP
                 /\ \A e \in Cpus : p \in Carga(e) => t = HiloCpu(e) /\ ~ cpu[e].en_rafaga
      BY <3>2, UnSoloDuenio DEF Inv, InvProcesos, EnPausa
    <3>. QED  BY <1>4, <3>1, <3>2, DespachaLaSuya
  <2>3. contexto_km'[p] = contexto_km[p]
    <3>1. p \notin ConEstado("NEW")
      BY <2>2 DEF ConEstado
    <3>2. ~ ActualizarContexto(t)
      BY <1>6 DEF ActualizarContexto
    <3>. QED  BY <1>3, <2>2, <3>1, <3>2, QuienActualiza
  <2>4. ejecutadas'[p] = ejecutadas[p]
    BY <1>3, <2>2, CuentaQuieta
  <2>. QED  BY <1>4, <2>1, <2>3, <2>4
<1>. QED  BY <1>2, <1>5, <1>6

LEMMA InitContexto == Init => InvContexto
<1>. SUFFICES ASSUME Init PROVE InvContexto
  OBVIOUS
<1>1. \A c \in Cpus : /\ red_cpu[c] = <<>> /\ red_ks[c] = <<>> /\ ~ nucleo[c].ejecutando
                      /\ cpu[c].libre
  BY DEF Init, NucleoLibre, CpuInicial
<1>2. \A t \in Hilos : pc[t] \notin {"contexto", "envia"}
  BY DEF Init
<1>3. \A p \in Pids : AlDia(p)
  BY DEF Init, AlDia
<1>4. ASSUME NEW c \in Cpus PROVE InvPid(c) /\ InvInterrupcion(c) /\ InvPC(c) /\ InvManejador(c)
  BY <1>1 DEF InvPid, InvInterrupcion, InvPC, InvManejador, EnPausa, Tiene
<1>5. InvPCB /\ InvCP
  BY <1>2, <1>3, HilosDistintos DEF InvPCB, InvCP, CargaCP
<1>6. \A t \in {HiloCP} \cup HilosCpu : InvEnvio(t)
  BY <1>2, HilosDistintos DEF InvEnvio
<1>. QED  BY <1>4, <1>5, <1>6 DEF InvContexto

\* The inductive invariant of the theorems of this module.
LEMMA ContextoInductivo == Spec => []Inv
<1>1. Init => Inv
  BY InitTipos, InitCompactacion, InitProcesos, InitContexto DEF Inv
<1>2. Inv /\ [Next]_vars => Inv'
  <2>. SUFFICES ASSUME Inv, [Next]_vars PROVE Inv'
    OBVIOUS
  <2>1. (InvTipos /\ InvCompactacion /\ InvProcesos)'
    BY PasoProcesos DEF Inv
  <2>2. \A c \in Cpus : (InvPid(c) /\ InvInterrupcion(c) /\ InvPC(c) /\ InvManejador(c))'
    BY PasoDeCpu, PasoManejador
  <2>3. InvPCB' /\ InvCP'
    BY PasoPCB, PasoCP
  <2>4. \A t \in {HiloCP} \cup HilosCpu : InvEnvio(t)'
    BY PasoEnvio
  <2>. QED  BY <2>1, <2>2, <2>3, <2>4 DEF Inv, InvContexto
<1>. QED  BY <1>1, <1>2, PTL DEF Spec

-----------------------------------------------------------------------------
(* What follows from it *)

\* What a CPU runs, or is about to, is the process it answers for, in a burst.
LEMMA RafagaConCarga ==
  ASSUME Inv, NEW c \in Cpus
  PROVE  RafagaEn(c) \subseteq Carga(c)
<1>t. DOMAIN red_cpu[c] = 1 .. Len(red_cpu[c])
  BY DEF Inv, InvTipos, TypeOK, TypeCpus
<1>i. InvRafaga(c) /\ InvPid(c)
  BY DEF Inv, InvCompactacion, InvContexto
<1>1. nucleo[c].ejecutando => cpu[c].en_rafaga /\ nucleo[c].pid = cpu[c].pid
  BY <1>i DEF InvRafaga, InvPid
<1>2. ASSUME NEW i \in DOMAIN red_cpu[c], red_cpu[c][i].tipo = "ENVIAR_PID"
      PROVE  cpu[c].en_rafaga /\ red_cpu[c][i].pid = cpu[c].pid
  BY <1>2, <1>i, <1>t DEF InvRafaga, InvPid, SinEnvio, EsEnvio
<1>3. cpu[c].en_rafaga => Carga(c) = {cpu[c].pid}
  BY CargaEnRafaga DEF Inv
<1>. QED  BY <1>1, <1>2, <1>3 DEF RafagaEn

LEMMA RafagasDistintas ==
  ASSUME Inv
  PROVE  UnaSolaRafaga
<1>1. ASSUME NEW c \in Cpus, NEW d \in Cpus, c # d PROVE RafagaEn(c) \cap RafagaEn(d) = {}
  <2>1. Carga(c) \cap Carga(d) = {}
    BY <1>1, UnSoloDuenio DEF Inv, InvProcesos
  <2>. QED  BY <2>1, RafagaConCarga
<1>2. ASSUME NEW c \in Cpus PROVE RafagaEn(c) \subseteq ToSet(lista_exec)
  <2>1. Carga(c) \subseteq ConEstado("EXEC")
    BY UnSoloDuenio DEF Inv, InvProcesos
  <2>. QED  BY <2>1, RafagaConCarga DEF Inv, InvProcesos, InvExec, ListaDe
<1>. QED  BY <1>1, <1>2 DEF UnaSolaRafaga

\* Two CPUs never run the same process, nor one that has left lista_exec: not
\* even with a PID still on its way in a socket.
THEOREM UnaRafagaPorProceso == Spec => []UnaSolaRafaga
BY ContextoInductivo, RafagasDistintas, PTL

\* A CPU always runs a process from the instruction after the last one that was
\* completed, whatever CPUs, PCBs and contexts the count has gone through.
THEOREM ContextoSinPerdidas == Spec => []ContextoFiel
<1>1. Inv => ContextoFiel
  <2>. SUFFICES ASSUME Inv, NEW c \in Cpus, nucleo[c].ejecutando
                PROVE  nucleo[c].pc = ejecutadas[nucleo[c].pid]
    BY DEF ContextoFiel
  <2>. QED  BY DEF Inv, InvContexto, InvPid, InvPC
<1>. QED  BY <1>1, ContextoInductivo, PTL

\* An INTERRUPCION that finds a CPU executing was sent for the burst it is in.
THEOREM InterrumpeSuRafaga == Spec => []InterrupcionDeSuRafaga
<1>1. Inv => InterrupcionDeSuRafaga
  <2>. SUFFICES ASSUME Inv, NEW c \in Cpus, nucleo[c].ejecutando, NEW i \in DOMAIN red_cpu[c]
                PROVE  /\ red_cpu[c][i].tipo = "INTERRUPCION"
                       /\ red_cpu[c][i].rafaga = cpu[c].rafaga
    BY DEF InterrupcionDeSuRafaga
  <2>1. red_cpu[c] \in Seq(MensajesCpu)
    BY DEF Inv, InvTipos, TypeOK, TypeCpus
  <2>2. i \in 1 .. Len(red_cpu[c]) /\ red_cpu[c][i] \in MensajesCpu
    BY <2>1, ElementOfSeq
  <2>3. DeEstaRafaga(c, red_cpu[c][i])
    BY <2>2 DEF Inv, InvContexto, InvInterrupcion
  <2>. QED  BY <2>2, <2>3 DEF DeEstaRafaga, EsEnvio, MensajesCpu
<1>. QED  BY <1>1, ContextoInductivo, PTL

\* When an interrupted CPU answers, the scheduler still has the reason.
THEOREM ElMotivoSeConoce == Spec => []MotivoConocido
<1>1. Inv => MotivoConocido
  <2>. SUFFICES ASSUME Inv, NEW c \in Cpus, NEW i \in DOMAIN red_ks[c],
                       red_ks[c][i].tipo = "INTERRUPCION"
                PROVE  cpu[c].motivo # "NINGUNA"
    BY DEF MotivoConocido
  <2>1. i \in 1 .. Len(red_ks[c])
    BY DEF Inv, InvTipos, TypeOK, TypeCpus
  <2>. QED  BY <2>1 DEF Inv, InvContexto, InvInterrupcion
<1>. QED  BY <1>1, ContextoInductivo, PTL

-----------------------------------------------------------------------------
(* The scheduler implements the life cycle of CicloDeVida *)

\* While the corto plazo has a process in its hands and sees a free CPU, there
\* are fewer processes in EXEC than CPUs.
LEMMA LugarEnExec ==
  ASSUME Inv, pc[HiloCP] = "a_exec", NEW e \in Cpus, cpu[e].libre
  PROVE  Cardinality(ConEstado("EXEC")) < Cardinality(Cpus)
<1>. DEFINE D == {c \in Cpus : Tiene(c)}
            f == [c \in D |-> cpu[c].pid]
<1>1. IsFiniteSet(Cpus) /\ D \in SUBSET Cpus /\ D # Cpus
  BY ConstantesOK DEF Tiene
<1>2. /\ IsFiniteSet(D) /\ Cardinality(D) <= Cardinality(Cpus)
      /\ Cardinality(D) # Cardinality(Cpus)
  BY <1>1, FS_Subset
<1>3. Cardinality(D) \in Nat /\ Cardinality(Cpus) \in Nat
  BY <1>1, <1>2, FS_CardinalityType
<1>4. f \in Surjection(D, ConEstado("EXEC"))
  <2>1. ASSUME NEW c \in D PROVE f[c] \in ConEstado("EXEC")
    BY UnSoloDuenio DEF Inv, InvProcesos, Carga
  <2>2. ASSUME NEW p \in ConEstado("EXEC") PROVE \E c \in D : f[c] = p
    <3>1. PICK x \in DOMAIN EnExec : p \in EnExec[x]
      BY DEF Inv, InvProcesos, InvExec, Reparto
    <3>2. x # HiloCP
      BY <3>1 DEF EnExec, CargaCP
    <3>3. PICK c \in Cpus : x = HiloCpu(c)
      BY <3>1, <3>2 DEF EnExec, HilosCpu
    <3>4. p \in Carga(c)
      BY <3>1, <3>2, <3>3, HilosDistintos DEF EnExec
    <3>. QED  BY <3>4 DEF Carga
  <2>3. f \in [D -> ConEstado("EXEC")]
    BY <2>1
  <2>. QED  BY <2>2, <2>3 DEF Surjection
<1>5. IsFiniteSet(ConEstado("EXEC")) /\ Cardinality(ConEstado("EXEC")) <= Cardinality(D)
  BY <1>2, <1>4, FS_Surjection
<1>6. Cardinality(ConEstado("EXEC")) \in Nat
  BY <1>5, FS_CardinalityType
<1>. HIDE DEF D
<1>. QED  BY <1>2, <1>3, <1>5, <1>6

LEMMA EnEstadoEs ==
  ASSUME NEW e
  PROVE  Ciclo!EnEstado(e) = ConEstado(e)
BY DEF Ciclo!EnEstado, ConEstado

LEMMA CardinalidadEs ==
  ASSUME NEW S
  PROVE  Ciclo!Cardinality(S) = Cardinality(S)
BY DEF Ciclo!Cardinality, Cardinality

\* Every step of the scheduler is one of the life cycle, or none.
LEMMA PasoCiclo ==
  ASSUME Inv, [Next]_vars
  PROVE  [Ciclo!Next]_(Ciclo!ciclo)
<1>q. InvTipos /\ InvCompactacion /\ InvProcesos /\ InvContexto
  BY DEF Inv
<1>0. ASSUME NEW p, NEW a, NEW b, Cambia(p, a, b), UNCHANGED ejecutadas
      PROVE  p \in Pids /\ Ciclo!Pasar(p, a, b)
  BY <1>0 DEF Cambia, Ciclo!Pasar
<1>1. ASSUME NEW d \in Cpus, EjecutarComun(d) \/ EjecutarSyscall(d) PROVE Ciclo!Next
  <2>. DEFINE p == nucleo[d].pid
  <2>1. /\ nucleo[d].ejecutando /\ ejecutadas' = [ejecutadas EXCEPT ![p] = @ + 1]
        /\ UNCHANGED estado
    BY <1>1 DEF EjecutarComun, EjecutarSyscall, HayInstruccion, pcbs
  <2>2. cpu[d].en_rafaga /\ p = cpu[d].pid
    BY <1>q, <2>1 DEF InvCompactacion, InvRafaga, InvContexto, InvPid
  <2>3. p \in ConEstado("EXEC")
    BY <1>q, <2>2, CargaEnRafaga, UnSoloDuenio DEF InvProcesos
  <2>4. p \in Pids /\ Ciclo!Ejecutar(p)
    BY <2>1, <2>3 DEF Ciclo!Ejecutar, ConEstado
  <2>. QED  BY <2>4 DEF Ciclo!Next
<1>2. CASE UNCHANGED <<estado, ejecutadas>>
  BY <1>2 DEF Ciclo!ciclo
<1>3. CASE AdmitirNew
  <2>1. Cambia(Head(cola_new), "NEW", "READY") /\ UNCHANGED ejecutadas
    BY <1>3, <1>q, CambiaAdmitir DEF AdmitirNew
  <2>. QED  BY <1>0, <2>1 DEF Ciclo!Next, Ciclo!Admitir
<1>4. CASE PasarAExec
  <2>. DEFINE libres == {i \in DOMAIN cpus_conectadas : cpu[cpus_conectadas[i]].libre}
  <2>1. pc[HiloCP] = "a_exec" /\ UNCHANGED ejecutadas
    BY <1>4 DEF PasarAExec
  <2>2. CASE libres = {}
    BY <1>2, <1>4, <2>1, <2>2 DEF PasarAExec
  <2>3. CASE libres # {}
    <3>1. PICK i \in DOMAIN cpus_conectadas : cpu[cpus_conectadas[i]].libre
      BY <2>3
    <3>2. cpus_conectadas[i] \in Cpus
      BY <1>q, <3>1 DEF InvTipos, TypeOK, TypeCpus
    <3>3. Cardinality(Ciclo!EnEstado("EXEC")) < Cardinality(Cpus)
      BY <2>1, <3>1, <3>2, LugarEnExec, EnEstadoEs
    <3>4. pc'[HiloCP] # "encola"
      BY <1>4, <1>q, <2>3, HilosDistintos DEF PasarAExec, Ir, InvTipos, TypeOK, TypeHilos
    <3>5. Cambia(loc[HiloCP].pid, "READY", "EXEC")
      BY <1>4, <1>q, <3>4, CambiaAExec
    <3>6. Ciclo!Despachar(loc[HiloCP].pid)
      BY <1>0, <2>1, <3>3, <3>5, CardinalidadEs DEF Ciclo!Despachar
    <3>. QED  BY <1>0, <2>1, <3>5, <3>6 DEF Ciclo!Next
  <2>. QED  BY <2>2, <2>3
<1>5. ASSUME NEW c \in Cpus, DejaExec(c) PROVE Ciclo!Next
  <2>1. /\ EnManejador(c) /\ Tiene(c)
        /\ ExecAReady(c) => Cambia(cpu[c].pid, "EXEC", "READY")
        /\ ExecAExit(c) => Cambia(cpu[c].pid, "EXEC", "EXIT")
        /\ ExecABlock(c) => Cambia(cpu[c].pid, "EXEC", "BLOCK")
    BY <1>5, <1>q, CambiaDeExec DEF DejaExec
  <2>2. UNCHANGED ejecutadas
    BY <1>5 DEF DejaExec, ExecAReady, ExecAExit, ExecABlock
  <2>3. CASE ExecAReady(c)
    BY <1>0, <2>1, <2>2, <2>3 DEF Ciclo!Next, Ciclo!Desalojar
  <2>4. CASE ExecABlock(c)
    BY <1>0, <2>1, <2>2, <2>4 DEF Ciclo!Next, Ciclo!Bloquear
  <2>5. CASE ExecAExit(c)
    <3>1. pc[HiloCpu(c)] = "sale" /\ EnPausa(c)
      BY <1>q, <2>1, <2>5, EnManejadorTiene DEF ExecAExit, EnPausa, Parada
    <3>2. ejecutadas[cpu[c].pid] > 0
      BY <1>q, <3>1 DEF InvContexto, InvManejador
    <3>. QED  BY <1>0, <2>1, <2>2, <2>5, <3>2 DEF Ciclo!Next, Ciclo!Finalizar
  <2>. QED  BY <1>5, <2>3, <2>4, <2>5 DEF DejaExec
<1>6. ASSUME NEW c \in Cpus, CrearProceso(c) PROVE [Ciclo!Next]_(Ciclo!ciclo)
  <2>1. UNCHANGED ejecutadas /\ pc[HiloCpu(c)] = "crea_proceso"
    BY <1>6 DEF CrearProceso
  <2>2. CASE UNCHANGED estado
    BY <1>2, <2>1, <2>2
  <2>3. CASE Cambia(proximo_pid, "NO_CREADO", "NEW")
    <3>1. EnManejador(c)
      BY <1>q, <2>1, ManejaSinEvento, HilosDistintos DEF EnManejador, ConProceso
    <3>2. cpu[c].pid \in ConEstado("EXEC")
      BY <1>q, <3>1, EnManejadorTiene, DeCargaExec DEF InvProcesos
    <3>3. Ciclo!EnEstado("EXEC") # {}
      BY <3>2, EnEstadoEs
    <3>4. \A q \in Pids : q < proximo_pid => estado[q] # "NO_CREADO"
      <4>1. proximo_pid \in Nat /\ Pids \subseteq Nat
        BY <1>q, PidsConCero, ConstantesOK, SMTT(40) DEF InvTipos, TypeOK, TypePcbs
      <4>. QED  BY <1>q, <4>1 DEF InvProcesos, InvCreados
    <3>. QED  BY <1>0, <2>1, <2>3, <3>3, <3>4 DEF Ciclo!Next, Ciclo!Crear
  <2>. QED  BY <1>6, <1>q, <2>2, <2>3, CambiaCrear
<1>7. ASSUME NEW t \in HilosIO, TerminarIO(t) PROVE Ciclo!Next
  <2>1. Cambia(t[2], "BLOCK", "READY") /\ UNCHANGED ejecutadas
    BY <1>7, <1>q, CambiaIO DEF TerminarIO
  <2>. QED  BY <1>0, <2>1 DEF Ciclo!Next, Ciclo!Desbloquear
<1>8. ASSUME NEW t \in HilosMemoria, Satisfacer(t) PROVE Ciclo!Next
  <2>1. Cambia(Head(loc[t].resto).pid, "BLOCK", "READY") /\ UNCHANGED ejecutadas
    BY <1>8, <1>q, CambiaSatisfacer DEF Satisfacer
  <2>. QED  BY <1>0, <2>1 DEF Ciclo!Next, Ciclo!Desbloquear
<1>. QED  BY <1>1, <1>2, <1>3, <1>4, <1>5, <1>6, <1>7, <1>8, PasosDeEstado, QuienEscribe
          DEF DejaExec

\* The scheduler, with its threads, sockets and CPUs, implements the life cycle:
\* the estados move along its arrows, PIDs are given in order by a process that
\* runs, there are never more processes in EXEC than CPUs, and instructions are
\* completed one at a time by a process in EXEC.
THEOREM RefinaCiclo == Spec => ImplementaCiclo
<1>1. Init => Ciclo!Init
  BY DEF Init, Ciclo!Init
<1>2. Inv /\ [Next]_vars => [Ciclo!Next]_(Ciclo!ciclo)
  BY PasoCiclo
<1>. QED  BY <1>1, <1>2, ContextoInductivo, PTL DEF Spec, ImplementaCiclo, Ciclo!Spec
=============================================================================
