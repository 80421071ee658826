------------------------------- MODULE Csapp -------------------------------
(***************************************************************************)
(* The library of src/src/csapp.c as a program uses it: any calls of its   *)
(* wrappers and of the Rio, socket and Sio functions, one after another.   *)
(* They meet in errno and in the exit of the process.                      *)
(*                                                                         *)
(* As a bound, wrappers are called only before the stream is used, sockets *)
(* are opened and numbers printed only by a program whose stream is empty, *)
(* and a number only where none was printed before.                        *)
(***************************************************************************)
EXTENDS Rio, Sockets, Sio

vars == <<process, rioVars, socketVars, sioVars>>

TypeOK == RioTypeOK /\ SocketsTypeOK /\ SioTypeOK

Init == ProcessInit /\ RioInit /\ SocketsInit /\ SioInit

NoStream == Idle /\ Fresh /\ input = <<>>

Wrapped == /\ Idle /\ Fresh /\ open_pc = "none"
           /\ WrappedCall
           /\ v' = 0 /\ text' = <<>> /\ UNCHANGED <<rioVars, socketVars>>

Streams == /\ open_pc = "none" /\ opened = {}
           /\ RioNext
           /\ v' = 0 /\ text' = <<>> /\ UNCHANGED socketVars

Connects == /\ NoStream
            /\ SocketsNext
            /\ v' = 0 /\ text' = <<>> /\ UNCHANGED rioVars

Prints == /\ NoStream /\ text = <<>> /\ open_pc = "none" /\ opened = {}
          /\ SioNext
          /\ UNCHANGED <<rioVars, socketVars>>

Next == Wrapped \/ Streams \/ Connects \/ Prints

Spec == Init /\ [][Next]_vars

\* A call that is running goes on: threads are scheduled.
FairSpec == Spec /\ WF_vars(RioStep /\ UNCHANGED <<socketVars, sioVars>>)

-----------------------------------------------------------------------------
\* What rio_* returns tells what has happened to the stream, and the text that
\* sio_ltoa makes of a number reads as that number.
ResultsExact == ResultExact /\ LtoaExact
=============================================================================
