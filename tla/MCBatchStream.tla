--------------------------- MODULE MCBatchStream ---------------------------
(* Small instances of BatchStream for TLC. *)
EXTENDS BatchStream

\* source 3 has no usable row and gets a share in the last step only
MCSource == {1, 2, 3}
MCRows == <<<<2, 0, 3, 1, 2>>, <<0, 2, 2>>, <<0, 0, 0>>>>

\* three steps of the first stage, the last of them blending, and one of the next
MCTokens == PacksPerStep * PackLength
MCStages ==
    <<[tokens |-> 3 * MCTokens, transition |-> MCTokens, weights |-> <<3, 1, 0>>, lr |-> 1],
      [tokens |-> MCTokens, transition |-> 0, weights |-> <<1, 2, 1>>, lr |-> 1]>>
Plan == INSTANCE StageSchedule
            WITH Stages <- MCStages, TokensPerStep <- MCTokens,
                 WarmupSteps <- 0, CooldownSteps <- 0, MinLR <- 0
MCWeight == [n \in 0..(TotalSteps - 1) |-> Plan!DataWeights(Plan!Boundaries, n)]
ASSUME TotalSteps = Plan!TotalStepsOf(Plan!Boundaries) \/ Source # MCSource

\* one source, to lose batches of
MCOneSource == {1}
MCOneRows == <<<<3, 2, 3, 2>>>>
MCOneWeight == [n \in 0..(TotalSteps - 1) |-> <<1>>]
=============================================================================
