----------------------------- MODULE CicloDeVida -----------------------------
(***************************************************************************)
(* What the Kernel Scheduler promises of a process, whatever the threads   *)
(* that move it, the CPU that runs it and the messages in between: the     *)
(* five-state life cycle, a limit on how many run at once, and instructions *)
(* that are completed one at a time by a process that is in EXEC.          *)
(***************************************************************************)
EXTENDS Naturals, FiniteSets

CONSTANTS Procesos, NumCpus

VARIABLES
  estado,   \* estado[p]: the state of process p (NO_CREADO before it exists)
  avance    \* avance[p]: how many instructions of p have been completed

ciclo == <<estado, avance>>

EnEstado(e) == {p \in Procesos : estado[p] = e}

Init ==
  /\ estado = [p \in Procesos |-> IF p = 0 THEN "NEW" ELSE "NO_CREADO"]
  /\ avance = [p \in Procesos |-> 0]

Pasar(p, desde, hasta) ==
  /\ estado[p] = desde
  /\ estado' = [estado EXCEPT ![p] = hasta]
  /\ UNCHANGED avance

\* A process is created by one that is running, and PIDs are given in order.
Crear(p) ==
  /\ EnEstado("EXEC") # {}
  /\ \A q \in Procesos : q < p => estado[q] # "NO_CREADO"
  /\ Pasar(p, "NO_CREADO", "NEW")

Admitir(p)    == Pasar(p, "NEW", "READY")
Despachar(p)  == Cardinality(EnEstado("EXEC")) < NumCpus /\ Pasar(p, "READY", "EXEC")
Desalojar(p)  == Pasar(p, "EXEC", "READY")
Bloquear(p)   == Pasar(p, "EXEC", "BLOCK")
Desbloquear(p) == Pasar(p, "BLOCK", "READY")

\* It has completed at least the EXIT.
Finalizar(p)  == avance[p] > 0 /\ Pasar(p, "EXEC", "EXIT")

Ejecutar(p) ==
  /\ estado[p] = "EXEC"
  /\ avance' = [avance EXCEPT ![p] = @ + 1]
  /\ UNCHANGED estado

Next ==
  \E p \in Procesos :
    \/ Crear(p) \/ Admitir(p) \/ Despachar(p) \/ Desalojar(p)
    \/ Bloquear(p) \/ Desbloquear(p) \/ Finalizar(p) \/ Ejecutar(p)

Spec == Init /\ [][Next]_ciclo

=============================================================================
