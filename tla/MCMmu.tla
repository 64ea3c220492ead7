------------------------------- MODULE MCMmu --------------------------------
(***************************************************************************)
(* An instance of Mmu for TLC: three-bit addresses, two sticks of two      *)
(* bytes, segments of up to three.                                         *)
(***************************************************************************)
EXTENDS Mmu

DosSticks == <<2, 2>>

MOV_IN(d, n)      == [op |-> "MOV_IN",   ori |-> d, dst |-> 0, tam |-> n]
MOV_OUT(d, n)     == [op |-> "MOV_OUT",  ori |-> 0, dst |-> d, tam |-> n]
COPY_MEM(d, e, n) == [op |-> "COPY_MEM", ori |-> d, dst |-> e, tam |-> n]
IO(d, n)          == [op |-> "IO",       ori |-> d, dst |-> 0, tam |-> n]

\* The first CPU copies within a segment, over both of its ends, with overlap,
\* and with sizes that wrap (2 + 7 is 1 and 1 + 7 is 0); the second one writes.
AccesosDeDos ==
  1 :> {MOV_IN(1, 2), COPY_MEM(0, 1, 2), COPY_MEM(2, 1, 7), IO(2, 6)}
  @@ 2 :> {MOV_OUT(1, 2)}

=============================================================================
