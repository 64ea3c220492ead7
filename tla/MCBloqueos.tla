----------------------------- MODULE MCBloqueos -----------------------------
(***************************************************************************)
(* Instances of Bloqueos for TLC: each scenario is an initial state.       *)
(***************************************************************************)
EXTENDS Bloqueos

LOCK   == [op |-> "MUTEX_LOCK",   arg |-> 1]
UNLOCK == [op |-> "MUTEX_UNLOCK", arg |-> 1]
IO     == [op |-> "IO",           arg |-> 1]
ALLOC  == [op |-> "MEM_ALLOC",    arg |-> 0]
FREE   == [op |-> "MEM_FREE",     arg |-> 0]
VUELVE == [op |-> "INTERRUPCION", arg |-> 0]
EXIT   == [op |-> "EXIT",         arg |-> 0]

TodasSleep == [d \in Dispositivos |-> "SLEEP"]

\* The processes in their order of creation, each at the end of its queue.
Colas(orden, nivel) == [q \in 0 .. CantColas - 1 |-> SelectSeq(orden, LAMBDA p : nivel[p] = q)]

Iguales == [p \in Pids |-> 0]

Base == [cmn |-> FALSE, vence |-> TRUE, cpus |-> <<1>>, colas |-> Colas(<<1, 2>>, Iguales), tipos |-> <<"SLEEP">>,
         prioridad |-> Iguales, carga |-> [p \in Pids |-> "ram"],
         ram |-> 2, swap |-> 2, ios |-> <<1>>, conectan |-> {}, caen |-> {},
         guion |-> [p \in Pids |-> <<>>]]

\* The scripts of the first processes, one each.
Guiones(s) == [p \in Pids |-> IF p \in DOMAIN s THEN s[p] ELSE <<>>]

\* The owner of the mutex blocks and is suspended while it has it, and
\* does not release it before it ends.
Guardado == [Base EXCEPT !.colas = Colas(<<1, 2, 3>>, Iguales), !.ram = 3, !.swap = 3,
                         !.guion = Guiones(<< <<LOCK, IO, EXIT>>, <<LOCK, UNLOCK, EXIT>>, <<VUELVE, LOCK, EXIT>> >>)]

PeorElUno == [p \in Pids |-> IF p = 1 THEN 1 ELSE 0]

\* Two levels.  A more important process waits for the mutex of
\* one that was preempted while it had it.
Herencia == [Base EXCEPT !.cmn = TRUE, !.colas = Colas(<<1, 2, 3>>, PeorElUno), !.ram = 3, !.swap = 3,
                         !.prioridad = PeorElUno,
                         !.guion = Guiones(<< <<LOCK, VUELVE, UNLOCK, EXIT>>, <<IO, LOCK, UNLOCK, EXIT>>, <<VUELVE, LOCK, EXIT>> >>)]

\* Memory for one process: the others wait for it, in BLOCK or in SWAP, and take
\* it from each other.
Apretado == [Base EXCEPT !.ram = 1,
                         !.carga = [p \in Pids |-> IF p = 1 THEN "ram" ELSE "sin"],
                         !.guion = Guiones(<< <<IO, EXIT>>, <<ALLOC, IO, FREE, EXIT>> >>)]

\* Two CPUs and short blocks; a device dies, perhaps in use, and another connects.
Caida == [Base EXCEPT !.cpus = <<1, 2>>, !.vence = FALSE, !.conectan = {2}, !.caen = {1},
                      !.guion = Guiones(<< <<IO, EXIT>>, <<IO, EXIT>> >>)]

Escenarios == {Guardado, Herencia, Apretado, Caida}

\* Two CPUs: one process asks for the mutex that the other frees when it ends.
DosCpusUnMutex == {[Base EXCEPT !.cpus = <<1, 2>>, !.vence = FALSE,
                                !.guion = Guiones(<< <<LOCK, EXIT>>, <<LOCK, EXIT>> >>)]}

\* A process that never asked for memory blocks for longer than the timeout.
SinMemoria == {[Base EXCEPT !.colas = Colas(<<1>>, Iguales), !.carga = [p \in Pids |-> "sin"],
                            !.guion = Guiones(<< <<IO, EXIT>> >>)]}

=============================================================================
