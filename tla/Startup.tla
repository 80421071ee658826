------------------------------ MODULE Startup ------------------------------
(***************************************************************************)
(* main() of src/src/main.c: the options, the initialisation of the        *)
(* modules, the handler for SIGHUP, the listening socket and the accept    *)
(* loop.  It composes the loading of the maze (MazeTemplate), the walk of  *)
(* open_listenfd over the addresses (Sockets) and the wrappers that the    *)
(* server relies on (Wrappers): any of their calls may fail, and SIGHUP    *)
(* may come at any point.                                                  *)
(*                                                                         *)
(* terminate(), which the handler runs, is the subject of module Shutdown, *)
(* and what the loop and the threads do to the registry of ClientRegistry: *)
(* here the loop only goes round.                                          *)
(***************************************************************************)
EXTENDS MazeTemplate, Sockets

CONSTANT MaxOptions   \* bound: the length of the command line

ASSUME StartupAssumption == MaxOptions \in Nat

VARIABLES
  options,        \* the options not yet processed
  operand,        \* an argument that is not an option follows them
  port,           \* -p was given
  template_file,  \* -t was given
  main_pc,        \* what main() does next
  initialized,    \* the modules that are
  handled         \* the handler for SIGHUP is installed

mainVars == <<options, operand, port, template_file, main_pc, initialized, handled>>
startupVars == <<process, templateVars, socketVars, mainVars>>

Option == {"-p", "-t", "?"}
Module == {"registry", "maze", "player"}

\* Mutant: the handler is installed before the modules are initialized.
HandlerFirst ==
  [getopt |-> "sigaction", sigaction |-> "creg_malloc", creg_malloc |-> "mutex",
   mutex |-> "mutex_e", mutex_e |-> "maze", maze |-> "mutex_maze",
   mutex_maze |-> "player_init", player_init |-> "signal",
   signal |-> "Open_listenfd", Open_listenfd |-> "Malloc"]

\* The calls of main() up to the accept loop, each with the one after it; the
\* loop's test of term, which nothing sets, is left out.
After ==
  [getopt |-> "creg_malloc", creg_malloc |-> "mutex", mutex |-> "mutex_e",
   mutex_e |-> "maze", maze |-> "mutex_maze", mutex_maze |-> "player_init",
   player_init |-> "sigaction", sigaction |-> "signal",
   signal |-> "Open_listenfd", Open_listenfd |-> "Malloc"]

AcceptPC == {"Malloc", "Accept", "Pthread_create"}

StartupTypeOK ==
  /\ TemplateTypeOK /\ SocketsTypeOK
  /\ status \in {RUNNING, 0, 1, KILLED}
  /\ options \in Seq(Option) /\ operand \in BOOLEAN
  /\ port \in BOOLEAN /\ template_file \in BOOLEAN
  /\ main_pc \in DOMAIN After \cup AcceptPC \cup {"terminate"}
  /\ initialized \subseteq Module /\ handled \in BOOLEAN

Init ==
  /\ ProcessInit /\ TemplateInit /\ SocketsInit
  /\ options \in BoundedSeq(Option, MaxOptions) /\ operand \in BOOLEAN
  /\ port = FALSE /\ template_file = FALSE
  /\ main_pc = "getopt" /\ initialized = {} /\ handled = FALSE

Runs(call) == status = RUNNING /\ fault = "none" /\ main_pc = call

\* The next call, unless this one has ended the program.
Continues(to) == main_pc' = IF status' = RUNNING THEN to ELSE main_pc

SameOptions == UNCHANGED <<options, operand, port, template_file>>
SameModules == UNCHANGED <<initialized, handled>>

-----------------------------------------------------------------------------
\* One turn of the getopt() loop: an option that is not known, or one without
\* its argument, ends the program.
GetOption ==
  /\ Runs("getopt") /\ options # <<>>
  /\ options' = Tail(options)
  /\ port' = (port \/ Head(options) = "-p")
  /\ template_file' = (template_file \/ Head(options) = "-t")
  /\ \/ Head(options) = "?" /\ Exits(1, APP) /\ cause' = APP
     \/ Head(options) # "?" /\ UNCHANGED <<status, message, cause>>
  /\ UNCHANGED <<errno, operand, main_pc, initialized, handled, templateVars, socketVars>>

OptionsDone ==
  /\ Runs("getopt") /\ options = <<>>
  /\ \/ operand /\ Exits(1, APP) /\ cause' = APP
     \/ ~operand /\ UNCHANGED <<status, message, cause>>
  /\ Continues(After["getopt"])
  /\ SameOptions /\ SameModules
  /\ UNCHANGED <<errno, templateVars, socketVars>>

\* Malloc and the two Sem_init of creg_init, and the Sem_init of maze_init:
\* a module is initialized by the last call of its initialisation.
InitCall(call, module) ==
  /\ Runs(call)
  /\ IF call = "creg_malloc" THEN Malloc ELSE Sem_init
  /\ Continues(After[call])
  /\ initialized' = IF status' = RUNNING THEN initialized \cup module ELSE initialized
  /\ SameOptions
  /\ UNCHANGED <<handled, templateVars, socketVars>>

CregInit == \/ InitCall("creg_malloc", {})
            \/ InitCall("mutex", {}) \/ InitCall("mutex_e", {"registry"})

LoadMaze ==
  /\ Runs("maze")
  /\ \/ template_file /\ OpenTemplate
     \/ ~template_file /\ UseDefault
     \/ pc \in {"count", "read", "init"} /\ TemplateStep
  /\ main_pc' = IF pc' = "free" THEN After["maze"] ELSE "maze"
  /\ SameOptions /\ SameModules
  /\ UNCHANGED <<process, socketVars>>

\* The Sem_init at the end of maze_init, and after its return the rows are
\* freed, unless they are those of the default maze.
MazeInitDone == InitCall("mutex_maze", {"maze"})

PlayerInit ==
  /\ Runs("player_init")
  /\ \/ pc = "free" /\ template_file /\ TemplateStep /\ UNCHANGED <<main_pc, initialized>>
     \/ /\ pc = "ready" \/ ~template_file
        /\ main_pc' = After["player_init"] /\ initialized' = initialized \cup {"player"}
        /\ UNCHANGED templateVars
  /\ SameOptions
  /\ UNCHANGED <<process, handled, socketVars>>

\* sigaction(SIGHUP, ...), and signal(SIGPIPE, SIG_IGN), which cannot fail.
InstallHandler ==
  /\ Runs("sigaction")
  /\ \/ errno' \in ERRNO /\ cause' = errno' /\ Exits(1, errno') /\ handled' = handled
     \/ UNCHANGED <<errno, status, message, cause>> /\ handled' = TRUE
  /\ Continues(After["sigaction"])
  /\ SameOptions
  /\ UNCHANGED <<initialized, templateVars, socketVars>>

IgnoreSigpipe ==
  /\ Runs("signal") /\ main_pc' = After["signal"]
  /\ SameOptions /\ SameModules
  /\ UNCHANGED <<process, templateVars, socketVars>>

\* Open_listenfd: open_listenfd step by step, which returns a socket, or the
\* wrapper exits.  Without -p the pointer that is passed is not initialized.
OpenListenfd ==
  /\ Runs("Open_listenfd")
  /\ SameOptions /\ SameModules
  /\ \/ /\ port /\ (OpenCall("listen") \/ OpenStep)
        /\ open_pc' = "none" /\ held' = {} => status' # RUNNING
        /\ main_pc' = IF held' # {} THEN After["Open_listenfd"] ELSE main_pc
        /\ UNCHANGED templateVars
     \/ ~port /\ Faults("no_port") /\ UNCHANGED <<process, main_pc, socketVars>>

\* One turn of the accept loop: an error of any of the three calls ends the
\* whole server.
AcceptLoop ==
  /\ \/ Runs("Malloc") /\ Malloc /\ Continues("Accept")
     \/ Runs("Accept") /\ Accept /\ Continues("Pthread_create")
     \/ Runs("Pthread_create") /\ Pthread_create /\ Continues("Malloc")
  /\ SameOptions /\ SameModules
  /\ UNCHANGED <<templateVars, socketVars>>

-----------------------------------------------------------------------------
\* SIGHUP ends the program, or the handler runs terminate() in place of main().
SigHup ==
  /\ status = RUNNING /\ fault = "none" /\ main_pc # "terminate"
  /\ \/ ~handled /\ Exits(KILLED, APP) /\ cause' = APP /\ UNCHANGED main_pc
     \/ handled /\ main_pc' = "terminate" /\ UNCHANGED <<status, message, cause>>
  /\ SameOptions /\ SameModules
  /\ UNCHANGED <<errno, templateVars, socketVars>>

Main == \/ GetOption \/ OptionsDone \/ CregInit \/ LoadMaze \/ MazeInitDone
        \/ PlayerInit \/ InstallHandler \/ IgnoreSigpipe \/ OpenListenfd
        \/ AcceptLoop

Next == Main \/ SigHup

Spec == Init /\ [][Next]_startupVars

-----------------------------------------------------------------------------
(* Properties                                                              *)

\* What becomes of a template file whose lines fit the buffers: the two passes of
\* main() and the copying of maze_init stay within the rows and the buffers of the
\* rows, and the maze is, object by object, the first POINTER rows cut to the
\* width of the first one; and without a file it is the default maze.  The slot
\* behind the array of rows is left out (see MazeTemplate), and so are the further
\* rows, which the code drops.
FirstRowsLoaded ==
  /\ template_file /\ Fits => fault \notin {"overflow", "no_row", "short_row"}
  /\ "maze" \in initialized =>
       /\ ~template_file => the_maze = DefaultRows
       /\ template_file /\ Fits => the_maze = FirstRows

\* maze.h:110-113: "A maze template is a NULL-terminated array of strings, all of
\* which are the same length.  This defines a rectangular array of characters":
\* so that the maze is all of a template of this form.  The code keeps this only
\* for templates of as many rows as a pointer has bytes (EightRowsAreTheMaze).
MazeIsTemplate ==
  "maze" \in initialized /\ template_file /\ Rectangular => the_maze = file

\* Neither terminate() nor a client, which can connect as soon as a socket
\* listens, ever finds a module that is not initialized; and once a client can
\* connect, SIGHUP runs terminate().
NothingBeforeInit ==
  /\ main_pc = "terminate" \/ open_pc = "listen" \/ held # {} => initialized = Module
  /\ held # {} => handled
=============================================================================
