------------------------------ MODULE Shutdown ------------------------------
(***************************************************************************)
(* How metamix stops (main.cpp:75-97): main joins the primary threads     *)
(* (extractors and injector), calls ApplicationContext::exit(), whose     *)
(* on_exit signal is the controller's only way out of its io_context, and *)
(* then joins the secondary thread, supervised(controller).               *)
(*                                                                         *)
(* The controller (proc/controller.cpp:311-363) binds its acceptor,       *)
(* connects a slot to on_exit that calls acceptor.cancel(), arms          *)
(* async_accept and runs the io_context on its own thread.  Its accept    *)
(* handler serves a whole HTTP session synchronously (process_session)    *)
(* and re-arms the accept unless the handler saw operation_aborted.       *)
(* cancel() aborts only an accept that is pending at that moment.         *)
(*                                                                         *)
(* The REST requests themselves (their effect on the selection, restart   *)
(* flags and tsAdjustment) are modelled in Metamix; here a session is one *)
(* opaque step of the controller thread.                                  *)
(***************************************************************************)
EXTENDS Naturals

CONSTANTS
  Primaries,  \* the primary threads: one per user input, and the injector
  Restart     \* !options.norestart, the argument of every supervised()

VARIABLES
  running,  \* ApplicationContext::m_running
  slot,     \* whether the controller's on_exit_conn is connected
  accept,   \* the acceptor's accept operation: "none", "armed", "aborted"
  ctl,      \* pc of the controller thread
  prim,     \* [Primaries -> {"run", "done"}]
  main      \* pc of the main thread

vars == <<running, slot, accept, ctl, prim, main>>

-----------------------------------------------------------------------------
(* supervised() (supervisor.h:14-40) around the controller: when          *)
(* controller() returns or throws, its scoped_connection is gone and the  *)
(* loop calls it again, or returns when restarts are disabled.            *)
CtlReturn ==
  /\ slot' = FALSE
  /\ accept' = "none"
  /\ ctl' = IF Restart THEN "bind" ELSE "done"

(* Lines 314-322: resolve the address and bind the acceptor, which throws *)
(* when the port is taken.                                                *)
CtlBind ==
  /\ ctl = "bind"
  /\ \/ ctl' = "connect" /\ UNCHANGED <<slot, accept>>
     \/ CtlReturn
  /\ UNCHANGED <<running, prim, main>>

(* Lines 324-332: the slot is connected to on_exit.  A signal emitted     *)
(* before this point has already run without it.                          *)
CtlConnect ==
  /\ ctl = "connect"
  /\ slot' = TRUE
  /\ ctl' = "arm"
  /\ UNCHANGED <<running, accept, prim, main>>

(* Lines 334-360: listen, do_accept() arms async_accept, ioc.run().       *)
CtlArm ==
  /\ ctl = "arm"
  /\ accept' = "armed"
  /\ ctl' = "accept"
  /\ UNCHANGED <<running, slot, prim, main>>

(* A client connects while the accept is pending: the handler runs with  *)
(* success and calls process_session (lines 340-349).                     *)
CtlSession ==
  /\ ctl = "accept"
  /\ accept = "armed"
  /\ accept' = "none"
  /\ ctl' = "session"
  /\ UNCHANGED <<running, slot, prim, main>>

(* process_session returns once the client closes, the stream ends or a  *)
(* read or write fails (lines 269-309); the handler then calls do_accept()*)
(* again, its ec not being operation_aborted (lines 352-354).            *)
CtlSessionEnd ==
  /\ ctl = "session"
  /\ accept' = "armed"
  /\ ctl' = "accept"
  /\ UNCHANGED <<running, slot, prim, main>>

(* The aborted accept's handler runs with operation_aborted and does not *)
(* re-arm; no work is left, so ioc.run() and controller() return.         *)
CtlAborted ==
  /\ ctl = "accept"
  /\ accept = "aborted"
  /\ CtlReturn
  /\ UNCHANGED <<running, prim, main>>

-----------------------------------------------------------------------------
(* A primary thread's supervised() loop returns only when restarts are   *)
(* disabled; with them it calls its body again forever.                   *)
PrimaryReturn(p) ==
  /\ ~Restart
  /\ prim[p] = "run"
  /\ prim' = [prim EXCEPT ![p] = "done"]
  /\ UNCHANGED <<running, slot, accept, ctl, main>>

(* main.cpp:81-89 and ApplicationContext::exit(): once every primary     *)
(* thread is joined, m_running is exchanged to false and on_exit runs    *)
(* the connected slot, acceptor.cancel(), on the main thread.            *)
MainExit ==
  /\ main = "join"
  /\ \A p \in Primaries : prim[p] = "done"
  /\ running' = FALSE
  /\ accept' = IF slot /\ accept = "armed" THEN "aborted" ELSE accept
  /\ main' = "joinsec"
  /\ UNCHANGED <<slot, ctl, prim>>

(* main.cpp:91-97: the secondary thread is joined and main returns.      *)
MainJoinSecondary ==
  /\ main = "joinsec"
  /\ ctl = "done"
  /\ main' = "exited"
  /\ UNCHANGED <<running, slot, accept, ctl, prim>>

(* The process has exited.                                                *)
Exited == main = "exited" /\ UNCHANGED vars

-----------------------------------------------------------------------------
(* main.cpp:71-76: the controller's thread is started first, then the    *)
(* primaries; no thread has run yet.                                      *)
Init ==
  /\ running = TRUE
  /\ slot = FALSE
  /\ accept = "none"
  /\ ctl = "bind"
  /\ prim = [p \in Primaries |-> "run"]
  /\ main = "join"

Next ==
  \/ CtlBind \/ CtlConnect \/ CtlArm \/ CtlSession \/ CtlSessionEnd \/ CtlAborted
  \/ \E p \in Primaries : PrimaryReturn(p)
  \/ MainExit \/ MainJoinSecondary \/ Exited

(***************************************************************************)
(* Fairness.  The controller and main are OS threads that run whenever    *)
(* they are not blocked, so their own steps are weakly fair.  A client    *)
(* connecting is the environment's choice and gets none; an open session *)
(* is taken to end eventually (clients close their connections), which   *)
(* only strengthens what the property below asks of the code.             *)
(***************************************************************************)
Fairness ==
  /\ WF_vars(CtlBind) /\ WF_vars(CtlConnect) /\ WF_vars(CtlArm)
  /\ WF_vars(CtlSessionEnd) /\ WF_vars(CtlAborted)
  /\ WF_vars(MainExit) /\ WF_vars(MainJoinSecondary)

Spec == Init /\ [][Next]_vars /\ Fairness

-----------------------------------------------------------------------------
TypeOK ==
  /\ running \in BOOLEAN /\ slot \in BOOLEAN
  /\ accept \in {"none", "armed", "aborted"}
  /\ ctl \in {"bind", "connect", "arm", "accept", "session", "done"}
  /\ prim \in [Primaries -> {"run", "done"}]
  /\ main \in {"join", "joinsec", "exited"}

(***************************************************************************)
(* Once main has called ctx->exit() the process exits: the controller     *)
(* leaves its io_context and main's join of the secondary thread returns. *)
(* main.cpp's comment: "Primary threads finished, let signal secondary    *)
(* threads that out time has end."  The only signal is the on_exit slot's *)
(* acceptor.cancel(), which reaches the controller only if the slot is    *)
(* already connected and an accept is pending at that moment.            *)
(***************************************************************************)
ExitCompletes == ~running ~> main = "exited"

=============================================================================
