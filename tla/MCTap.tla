------------------------------- MODULE MCTap --------------------------------
(***************************************************************************)
(* The Windows TAP device for TLC, under names of its own, so that it can  *)
(* stand beside the client session that calls it (ServiceSession).         *)
(***************************************************************************)
CONSTANT MaxBuffered
VARIABLES tapPump, mutex, io, handle, event, tapConn, buffered, closer
Tap == INSTANCE TapWindows WITH pump <- tapPump, conn <- tapConn

ASSUME TapAssumption == Tap!MaxBufferedAssumption

TapSpec  == Tap!Spec
BusyHost == Tap!BusyHostSpec

(* Close closes neither handle nor event under a request that a pump has    *)
(* started or is about to start.                                            *)
NoUseAfterClose == Tap!NoUseAfterClose

(* On a host that transmits, both pumps end after the session and the       *)
(* device is closed.                                                        *)
TapPumpsEnd == Tap!PumpsEnd
=============================================================================
