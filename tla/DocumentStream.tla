--------------------------- MODULE DocumentStream ---------------------------
(***************************************************************************)
(* What the data of a run is meant to be, without loaders, workers,        *)
(* buffers or offsets: every source is read for ever from its first row to *)
(* its last, skipping the rows without a usable document; documents enter  *)
(* the pool from the source with the largest deficit; packs are taken from *)
(* the pool.  A state can be saved between two steps (or after the packs   *)
(* of a failed one), the run may disappear at any moment, and it begins    *)
(* with the initial state or exactly with a saved one.                     *)
(***************************************************************************)
EXTENDS Packing

VARIABLES
    live,   \* the state in memory, or None
    saved   \* the states a run may begin with

streamVars == <<live, saved>>

None == [step |-> TotalSteps + 1]

Initial == [step |-> 0, packs |-> 0, pool |-> <<>>,
            drawn |-> [s \in Source |-> 0],
            loaded |-> [s \in Source |-> 0],
            target |-> [s \in Source |-> 0]]

\* The rows with a usable document, in their order.
Usable(s) ==
    LET rows == {i \in DOMAIN Rows[s] : Rows[s][i] > 0}
    IN [k \in 1..Cardinality(rows) |->
            CHOOSE i \in rows : Cardinality({j \in rows : j <= i}) = k]

\* The n-th document of the endless source.
Nth(s, n) == DocumentOf(s, Usable(s)[((n - 1) % Len(Usable(s))) + 1])

StreamInit == live = None /\ saved = {Initial}

Begin ==
    /\ live = None
    /\ live' \in saved
    /\ UNCHANGED saved

Draw ==
    /\ live # None /\ live.step < TotalSteps /\ NeedsRefill(live.pool)
    /\ LET s == PickSource(live.step, live.loaded, live.target)
           d == Nth(s, live.drawn[s] + 1)
       IN /\ Usable(s) # <<>>
          /\ live' = [live EXCEPT !.drawn[s] = @ + 1,
                                  !.pool = Append(@, d),
                                  !.loaded = Loaded(@, s, Slots(d)),
                                  !.target = Earned(@, live.step, Slots(d))]
    /\ UNCHANGED saved

Take ==
    /\ live # None /\ live.packs < PacksPerStep /\ ~NeedsRefill(live.pool)
    /\ live' = [live EXCEPT !.pool = Fill(@).kept, !.packs = @ + 1]
    /\ UNCHANGED saved

Train ==
    /\ live # None /\ live.packs = PacksPerStep
    /\ live' = [live EXCEPT !.step = @ + 1, !.packs = 0]
    /\ UNCHANGED saved

Keep ==
    /\ live # None /\ live.packs = 0
    /\ saved' = saved \union {live}
    /\ UNCHANGED live

KeepFailed ==
    /\ live # None /\ live.packs = PacksPerStep
    /\ saved' = saved \union {[live EXCEPT !.packs = 0]}
    /\ live' = None

Stop == live' = None /\ UNCHANGED saved

StreamNext == Begin \/ Draw \/ Take \/ Train \/ Keep \/ KeepFailed \/ Stop

StreamSpec == StreamInit /\ [][StreamNext]_streamVars
=============================================================================
