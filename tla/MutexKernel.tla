---------------------------- MODULE MutexKernel ----------------------------
(***************************************************************************)
(* The table of mutexes of the Kernel Scheduler (mutex_kernel.c and the    *)
(* sections of lock_mutex and unlock_mutex under mutex_lista_mutex) and    *)
(* the list of mutexes that each PCB keeps for itself.  The two are        *)
(* written at different moments.                                           *)
(***************************************************************************)
EXTENDS Integers, Sequences, SequencesExt

CONSTANT Mutexes    \* their names, naturals other than 0

ASSUME MutexesOK == Mutexes \subseteq Nat \ {0}

VARIABLES
  dueno,        \* dueno[m]: pid_duenio, 0 when the mutex is not taken
  bloqueados,   \* bloqueados[m]: cola_bloqueados
  tomados       \* tomados[p]: lista_mutex_tomados

varsM == <<dueno, bloqueados, tomados>>

InitMutex(P) ==
  /\ dueno = [m \in Mutexes |-> 0]
  /\ bloqueados = [m \in Mutexes |-> <<>>]
  /\ tomados = [p \in P |-> <<>>]

TypeOKMutex(P) ==
  /\ dueno \in [Mutexes -> P \cup {0}]
  /\ bloqueados \in [Mutexes -> Seq(P)]
  /\ tomados \in [P -> Seq(Mutexes)]

\* lock_mutex of a free mutex, which the thread of the CPU then lists.
TomarMutex(m, p) ==
  /\ dueno[m] = 0
  /\ dueno' = [dueno EXCEPT ![m] = p]
  /\ tomados' = [tomados EXCEPT ![p] = Append(@, m)]
  /\ UNCHANGED bloqueados

\* lock_mutex of one that is taken.
EsperarMutex(m, p) ==
  /\ dueno[m] # 0
  /\ bloqueados' = [bloqueados EXCEPT ![m] = Append(@, p)]
  /\ UNCHANGED <<dueno, tomados>>

\* unlock_mutex: first, without the mutex of the table, the liberator's list ...
QuitarDeTomados(m, p) ==
  /\ tomados' = [tomados EXCEPT ![p] = RemoveFirst(@, m)]
  /\ UNCHANGED <<dueno, bloqueados>>

\* Mutant: the first of the queue is woken, and the mutex is left free.
CederSinHeredero(m) ==
  /\ dueno' = [dueno EXCEPT ![m] = 0]
  /\ bloqueados' = [bloqueados EXCEPT ![m] = IF @ = <<>> THEN @ ELSE Tail(@)]
  /\ UNCHANGED tomados

\* ... then the table: the first of the queue owns it, or nobody does.
CederMutex(m) ==
  /\ dueno' = [dueno EXCEPT ![m] = IF bloqueados[m] = <<>> THEN 0 ELSE Head(bloqueados[m])]
  /\ bloqueados' = [bloqueados EXCEPT ![m] = IF @ = <<>> THEN @ ELSE Tail(@)]
  /\ UNCHANGED tomados

\* ... and at the end the list of the one that was woken.
AnotarTomado(m, p) ==
  /\ tomados' = [tomados EXCEPT ![p] = Append(@, m)]
  /\ UNCHANGED <<dueno, bloqueados>>

=============================================================================
