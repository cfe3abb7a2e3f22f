---------------------------- MODULE MCInference -----------------------------
(* The inference of a run and a session of the model it leaves.  The two    *)
(* specifications share no variable: once every rank has left the scheduled *)
(* inference of a run that nothing disturbed, sessions may begin.           *)
EXTENDS DistributedEvaluation, Generation

\* Two calls: in the first the requests of d1 are apart and more than the target,
\* and there is a job more than a round of three ranks has room for; the second
\* has a single request.
MCCalls == << <<"d1", "d2", "d1", "d3", "d3", "d4", "d1">>, <<"d1">> >>

\* A model with one layer in front of two recurrent blocks of one layer and one
\* behind them, called with up to four tokens in all.  What it computes is the
\* term of its computation, so two results are equal exactly when they were
\* computed in the same way.
MCEmbed(token, position) == <<"embed", token, position>>
MCDraw(c, n) == <<"draw", c, n>>
MCLearned(c) == <<"learned", c>>
MCEnter(c, column, latent) == <<"enter", c, column, latent>>
MCLayer(s, column, view) == <<s, column, view>>
MCCoreLayers == <<1, 1>>

Ids == {<<1>>, <<2>>, <<1, 2>>, <<1, 1, 2>>, <<1, 2, 1, 1>>}
Padded == {Some(m) : m \in {<<FALSE, TRUE>>, <<FALSE, TRUE, TRUE>>, <<FALSE, TRUE, TRUE, TRUE>>}}
Schedules == {<<1, 2>>, <<2, 1>>}
Call(masks, positions) ==
    [ids : Ids, mask : masks, positions : positions, steps : Schedules, model : {1},
     inference : {TRUE}, cached : BOOLEAN, batch : {1}]

\* also a model that changed, a call in training mode and one with other rows
Odd == [ids : {<<1>>}, mask : {None}, positions : {None}, steps : {<<1, 2>>}, model : {1, 2},
        inference : BOOLEAN, cached : {TRUE}, batch : {1, 2}]

\* A RoPE table of four rows bounds the sequences: only a call with a mask
\* names its positions.
MCRequests == Call({None} \union Padded, {None}) \union Call(Padded, {Some(<<1>>)}) \union Odd

-----------------------------------------------------------------------------
(* One after the other *)

Undisturbed ==
    /\ \A r \in Rank : local[r].at = "done" /\ ~sig[r]
    /\ faults = 0

MCInit == Init /\ SessionInit

MCNext ==
    \/ Next /\ UNCHANGED sessionVars
    \/ Undisturbed /\ SessionNext /\ UNCHANGED vars

MCSpec == MCInit /\ [][MCNext]_<<vars, sessionVars>> /\ Fairness
=============================================================================
