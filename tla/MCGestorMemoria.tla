-------------------------- MODULE MCGestorMemoria --------------------------
(***************************************************************************)
(* Instances of GestorMemoria for TLC, and buscar_hueco as the loop it is  *)
(* in the code, to check the definition by sets against it.                *)
(***************************************************************************)
EXTENDS GestorMemoria, Sequences, SequencesExt, TLC

CONSTANTS p1, p2

Simetria == Permutations(Pids)

\* The segment numbers of the programs of each run.
IdsBest      == p1 :> {0, 1} @@ p2 :> {0, 1}
IdsContenido == p1 :> {0, 1} @@ p2 :> {0}

\* One turn of the loop over the segments in order of base: a is the pair of the
\* next start and the best candidate so far ([hay, base, tam]).
Vuelta(best, t, a, s) ==
  LET hueco == s.base - a.inicio
      entra == s.base > a.inicio /\ hueco >= t
      mejor == ~a.hay \/ (IF best THEN hueco < a.tam ELSE hueco > a.tam)
      b == IF entra /\ mejor
           THEN [a EXCEPT !.hay = TRUE, !.base = a.inicio, !.tam = hueco] ELSE a
  IN IF Fin(s) > b.inicio THEN [b EXCEPT !.inicio = Fin(s)] ELSE b

Bucle(best, t) ==
  LET orden == SetToSortSeq(segmentos, LAMBDA a, b : a.base < b.base)
      fin   == [base |-> memoria_total, tam |-> 0]
  IN FoldLeft(LAMBDA a, s : Vuelta(best, t, a, s),
              [hay |-> FALSE, base |-> 0, tam |-> 0, inicio |-> 0], Append(orden, fin))

\* BEST and WORST choose the base the loop of buscar_hueco chooses, or none when
\* it finds none, in every arrangement of segments that is reached.
HuecoDelBucle ==
  \A best \in BOOLEAN, t \in Tams :
    LET r == Bucle(best, t)
    IN BuscarHueco(best, t) = IF r.hay THEN {r.base} ELSE {}
=============================================================================
