------------------------- MODULE MemoriaDeProcesos -------------------------
(* What Kernel Memory promises a process: segments of its own, named by their
   number, whose bytes change only when the process (or an IO on its behalf)
   writes them.  Where the bytes are, whether they moved and whether the process
   is suspended cannot be told. *)
EXTENDS Integers

CONSTANTS Pids, Ids, TamMax, Valores

VARIABLE memoria    \* memoria[p][i]: the bytes of segment i of process p

Segmentos == UNION {[0 .. t - 1 -> Valores] : t \in 1 .. TamMax}

Sin(f, i) == [j \in DOMAIN f \ {i} |-> f[j]]

Con(f, i, c) == [j \in DOMAIN f \cup {i} |-> IF j = i THEN c ELSE f[j]]

Init == memoria = [p \in Pids |-> [i \in {} |-> 0]]

\* The bytes of a new segment are whatever its memory held.
Crear(p, i) ==
  /\ i \notin DOMAIN memoria[p]
  /\ \E c \in Segmentos : memoria' = [memoria EXCEPT ![p] = Con(@, i, c)]

Eliminar(p, i) ==
  /\ i \in DOMAIN memoria[p]
  /\ memoria' = [memoria EXCEPT ![p] = Sin(@, i)]

Finalizar(p) == memoria' = [memoria EXCEPT ![p] = [i \in {} |-> 0]]

\* n bytes equal to v from offset d on, inside the segment.
Escribir(p, i, d, n, v) ==
  /\ i \in DOMAIN memoria[p]
  /\ \A k \in d .. d + n - 1 : k \in DOMAIN memoria[p][i]
  /\ memoria' = [memoria EXCEPT ![p][i] =
                   [k \in DOMAIN @ |-> IF k \in d .. d + n - 1 THEN v ELSE @[k]]]

\* Stated of steps that change something: the others are allowed by [Next]_memoria.
Next ==
  /\ memoria' # memoria
  /\ \E p \in Pids :
       \/ Finalizar(p)
       \/ \E i \in Ids :
            \/ Crear(p, i) \/ Eliminar(p, i)
            \/ \E d \in 0 .. TamMax - 1, n \in 1 .. TamMax, v \in Valores :
                 Escribir(p, i, d, n, v)

Spec == Init /\ [][Next]_memoria
=============================================================================
