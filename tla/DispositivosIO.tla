--------------------------- MODULE DispositivosIO ---------------------------
(***************************************************************************)
(* The pool of IO devices of the Kernel Scheduler (planificador.c          *)
(* 1120-1224) and the programs at the other end of its sockets             *)
(* (io/src/main.c).                                                        *)
(*                                                                         *)
(* The pool is a list under mutex_ios and one semaphore per type of device *)
(* that counts, apart from the list, its free devices.  The operators here *)
(* are the steps of whoever uses the pool: the module that composes them   *)
(* says which threads do, and when.                                        *)
(***************************************************************************)
EXTENDS Integers, Sequences, FiniteSets, SequencesExt

CONSTANTS
  Dispositivos,   \* the IO programs that may be started, naturals other than 0
  TiposIO,        \* STDIN, STDOUT, SLEEP
  TipoDe          \* the type each program announces in its handshake

ASSUME DispositivosOK ==
  /\ Dispositivos \subseteq Nat \ {0} /\ IsFiniteSet(Dispositivos)
  /\ TipoDe \in [Dispositivos -> TiposIO]

VARIABLES
  ios_conectados,   \* the list, in order of connection
  libre,            \* libre[d] and desconectado[d]: the fields of t_io_conectada
  desconectado,
  sem_io,           \* sem_io[t]: the semaphore of the devices of type t
  programa,         \* programa[d]: the IO program
  linea             \* linea[d]: the message in the socket of d, if any

pool  == <<ios_conectados, libre, desconectado, sem_io>>
varsIO == <<pool, programa, linea>>

\* A request carries the PID of its process; the answer does not, pid is history.
LineaVacia == [msj |-> "nada", pid |-> 0]
Pedido(p) == [msj |-> "pedido", pid |-> p]
Respuesta(p) == [msj |-> "respuesta", pid |-> p]

\* The devices of the sequence C have connected and nothing has been asked of them.
InitIO(C) ==
  /\ ios_conectados = C
  /\ libre = [d \in Dispositivos |-> Contains(C, d)]
  /\ desconectado = [d \in Dispositivos |-> FALSE]
  /\ sem_io = [t \in TiposIO |-> Cardinality({d \in Dispositivos : Contains(C, d) /\ TipoDe[d] = t})]
  /\ programa = [d \in Dispositivos |-> IF Contains(C, d) THEN "atiende" ELSE "apagado"]
  /\ linea = [d \in Dispositivos |-> LineaVacia]

-----------------------------------------------------------------------------
(* The pool, as its users call it *)

\* A program that connects is listed under mutex_ios ...
RegistrarIO(d) ==
  /\ programa[d] = "apagado"
  /\ ios_conectados' = Append(ios_conectados, d)
  /\ libre' = [libre EXCEPT ![d] = TRUE]
  /\ programa' = [programa EXCEPT ![d] = "conecta"]
  /\ UNCHANGED <<desconectado, sem_io, linea>>

\* ... and counted afterwards.
PostearConexion(d) ==
  /\ programa[d] = "conecta"
  /\ sem_io' = [sem_io EXCEPT ![TipoDe[d]] = @ + 1]
  /\ programa' = [programa EXCEPT ![d] = "atiende"]
  /\ UNCHANGED <<ios_conectados, libre, desconectado, linea>>

\* Mutant: go on without a token.
EsperarIOSinFicha(tipo) ==
  /\ sem_io' = [sem_io EXCEPT ![tipo] = @ - 1]
  /\ UNCHANGED <<ios_conectados, libre, desconectado, programa, linea>>

\* planificador_tomar_io_libre: sem_wait ...
EsperarIO(tipo) ==
  /\ sem_io[tipo] > 0
  /\ sem_io' = [sem_io EXCEPT ![tipo] = @ - 1]
  /\ UNCHANGED <<ios_conectados, libre, desconectado, programa, linea>>

\* ... then the first free device of that type in the list; with none the code
\* goes on with a NULL pointer.
Elegibles(tipo) == {i \in DOMAIN ios_conectados :
                      LET d == ios_conectados[i] IN
                        TipoDe[d] = tipo /\ libre[d] /\ ~desconectado[d]}

ElegidoIO(tipo) == ios_conectados[Min(Elegibles(tipo))]

\* Mutant: the device that was found is not marked.
TomarIOSinMarcar(d) == UNCHANGED <<libre, ios_conectados, desconectado, sem_io, programa, linea>>

TomarIO(d) ==
  /\ libre' = [libre EXCEPT ![d] = FALSE]
  /\ UNCHANGED <<ios_conectados, desconectado, sem_io, programa, linea>>

\* planificador_liberar_io: under mutex_ios, a device marked as disconnected
\* leaves the list and is not counted again.
LiberarIO(d) ==
  /\ ios_conectados' = IF desconectado[d] THEN RemoveFirst(ios_conectados, d) ELSE ios_conectados
  /\ libre' = [libre EXCEPT ![d] = ~desconectado[d]]
  /\ UNCHANGED <<desconectado, sem_io, programa, linea>>

PostearIO(d) ==
  /\ sem_io' = [sem_io EXCEPT ![TipoDe[d]] = @ + 1]
  /\ UNCHANGED <<ios_conectados, libre, desconectado, programa, linea>>

\* Mutant: the semaphore loses a token whatever the device is doing.
RemoverIOConFicha(d) ==
  /\ desconectado' = [desconectado EXCEPT ![d] = TRUE]
  /\ sem_io' = [sem_io EXCEPT ![TipoDe[d]] = IF @ > 0 THEN @ - 1 ELSE @]
  /\ UNCHANGED <<ios_conectados, libre, programa, linea>>

\* planificador_remover_io: a free device leaves the list and one token its
\* semaphore (sem_trywait); a device in use is only marked.
RemoverIO(d) ==
  /\ IF libre[d]
     THEN /\ ios_conectados' = RemoveFirst(ios_conectados, d)
          /\ sem_io' = [sem_io EXCEPT ![TipoDe[d]] = IF @ > 0 THEN @ - 1 ELSE @]
          /\ UNCHANGED desconectado
     ELSE /\ desconectado' = [desconectado EXCEPT ![d] = TRUE]
          /\ UNCHANGED <<ios_conectados, sem_io>>
  /\ UNCHANGED <<libre, programa, linea>>

-----------------------------------------------------------------------------
(* The socket of a device.  A send to a program that died is lost; an answer *)
(* sent before it died can still be read.                                    *)

PedirIO(p, d) ==
  /\ linea' = IF programa[d] = "atiende" THEN [linea EXCEPT ![d] = Pedido(p)] ELSE linea
  /\ UNCHANGED <<pool, programa>>

\* Mutant: the answer is left in the socket.
LeerRespuestaSinConsumir(d) ==
  /\ linea[d].msj = "respuesta"
  /\ UNCHANGED <<linea, pool, programa>>

\* recv: the answer, whoever it is for ...
LeerRespuesta(d) ==
  /\ linea[d].msj = "respuesta"
  /\ linea' = [linea EXCEPT ![d] = LineaVacia]
  /\ UNCHANGED <<pool, programa>>

\* ... or the end of the connection.
ConexionCerrada(d) == programa[d] = "caido" /\ linea[d].msj # "respuesta"

\* The loop of the program: one request, one answer.
Atender(d) ==
  /\ programa[d] = "atiende" /\ linea[d].msj = "pedido"
  /\ linea' = [linea EXCEPT ![d] = Respuesta(@.pid)]
  /\ UNCHANGED <<pool, programa>>

\* The program dies, with or without a request to answer.
CaerIO(d) ==
  /\ programa[d] = "atiende"
  /\ programa' = [programa EXCEPT ![d] = "caido"]
  /\ linea' = IF linea[d].msj = "pedido" THEN [linea EXCEPT ![d] = LineaVacia] ELSE linea
  /\ UNCHANGED pool

TypeOKIO(P) ==
  /\ ios_conectados \in Seq(Dispositivos)
  /\ libre \in [Dispositivos -> BOOLEAN] /\ desconectado \in [Dispositivos -> BOOLEAN]
  /\ sem_io \in [TiposIO -> Nat]
  /\ programa \in [Dispositivos -> {"apagado", "conecta", "atiende", "caido"}]
  /\ linea \in [Dispositivos -> [msj : {"nada", "pedido", "respuesta"}, pid : P \cup {0}]]

=============================================================================
