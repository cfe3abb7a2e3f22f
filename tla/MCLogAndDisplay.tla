--------------------------- MODULE MCLogAndDisplay ---------------------------
(***************************************************************************)
(* A run of two stages with a blend between them, logged every second      *)
(* step; and a display.  The specifications share no variable: the run is  *)
(* logged while the display is at rest, and a display is entered before    *)
(* the run has begun.                                                      *)
(***************************************************************************)
EXTENDS RunLogger, TLC

CONSTANTS web, code

MCSources == {web, code}
Weights == [s \in MCSources |-> 1]
MCStages ==
    <<[tokens |-> 30, transition |-> 10, weights |-> Weights, lr |-> 2],
      [tokens |-> 10, transition |-> 0, weights |-> Weights, lr |-> 1]>>

\* the sources weigh the same in every stage
SourceSymmetry == Permutations(MCSources)

-----------------------------------------------------------------------------
(* The display *)

CONSTANTS main, worker, Lives, Boards, Notes, Breaks, Loses, Hups
VARIABLES todo, lock, at, display, rich, capture, signal, tty, written, unlogged
displayVars == <<todo, lock, at, display, rich, capture, signal, tty, written, unlogged>>

Display == INSTANCE TerminalDisplay

\* But for the line its SIGHUP handler logs, the threads of a display never wait
\* in a circle (ui/display.py).
CirclesOnlyThroughSighup == Display!CirclesOnlyThroughSighup

\* However it ends, nothing of the display is left on the terminal.
ClosedCleanly == Display!ClosedCleanly

\* A kept record reaches the terminal at most once, and is not lost.
KeptOnce == Display!KeptOnce

-----------------------------------------------------------------------------
(* One of the two *)

NotBegun == phase = "open"
AtRest == ~display.board /\ at = "outside" /\ tty.open /\ tty.renders

MCInit == Init /\ Display!Init

MCNext ==
    \/ AtRest /\ Next /\ UNCHANGED displayVars
    \/ NotBegun /\ Display!Next /\ UNCHANGED vars

MCSpec == MCInit /\ [][MCNext]_<<vars, displayVars>>
=============================================================================
