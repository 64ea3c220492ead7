--------------------------- MODULE MCPlanificador ---------------------------
(***************************************************************************)
(* Instances of Planificador for TLC: the scripts of each run, in the      *)
(* shape of the .prc files of plug-n-pray-pruebas-main.                    *)
(***************************************************************************)
EXTENDS Planificador

NOOP         == [op |-> "NOOP",      a |-> 0, b |-> 0]
EXIT         == [op |-> "EXIT",      a |-> 0, b |-> 0]
SLEEP        == [op |-> "SLEEP",     a |-> 0, b |-> 0]
INIT(s, n)   == [op |-> "INIT_PROC", a |-> s, b |-> n]
ALLOC(s, n)  == [op |-> "MEM_ALLOC", a |-> s, b |-> n]
FREE(s)      == [op |-> "MEM_FREE",  a |-> s, b |-> 0]

\* Three processes on two CPUs, so that a CPU is preempted while another goes on.
ScriptsDosCpus == 0 :> <<INIT(1, 1), INIT(2, 0), EXIT>>
               @@ 1 :> <<NOOP, EXIT>>
               @@ 2 :> <<NOOP, EXIT>>

\* CPUs are interchangeable: they are told apart by their order of connection.
Simetria == Permutations(Cpus)

ColasFIFORR == 0 :> "FIFO" @@ 1 :> "RR"
ColasRRFIFO == 0 :> "RR" @@ 1 :> "FIFO"
ColaRR      == 0 :> "RR"
ColaFIFO    == 0 :> "FIFO"

\* Process 1 leaves two units free on both sides of its second segment and asks
\* for both, while 0 runs under a quantum on the other CPU.  It has no EXIT.
ScriptsMemoria == 0 :> <<INIT(1, 1), NOOP, EXIT>>
               @@ 1 :> <<ALLOC(0, 1), ALLOC(1, 1), FREE(0), ALLOC(2, 2)>>

\* When 1 frees its first segment, 0 may be waiting for two units.
ScriptsBloqueada == 0 :> <<INIT(1, 0), ALLOC(0, 2), NOOP, EXIT>>
                 @@ 1 :> <<ALLOC(0, 1), ALLOC(1, 1), FREE(0), NOOP, EXIT>>

\* 1 asks for three units while 0 still has one: the end of 0 lets it in, or a
\* Memory Stick and a compaction that stops 0.  The second INIT_PROC has a
\* priority with no queue and is rejected.
ScriptsUnCpu == 0 :> <<INIT(1, 1), INIT(1, 2), ALLOC(0, 1), SLEEP, EXIT>>
             @@ 1 :> <<ALLOC(0, 3), EXIT>>

\* The same two on two CPUs.
ScriptsEspera == 0 :> <<INIT(1, 0), ALLOC(0, 1), EXIT>>
              @@ 1 :> <<ALLOC(0, 3), EXIT>>

=============================================================================
