-------------------------- MODULE RecurrentForward --------------------------
(***************************************************************************)
(* One training pack through the model, next to the same documents in      *)
(* padded rows of their own: a pool of documents is packed first fit       *)
(* (training/data/packing.py) and run through the forward pass             *)
(* (model/model.py, model/blocks/recurrence.py, the masks of               *)
(* model/layers/attention.py) in step with the rows validation             *)
(* (training/data/collate.py, padded on the right) and batched inference   *)
(* (padded on the left) make of the same documents, one layer a time.      *)
(*                                                                         *)
(* What a layer computes is uninterpreted: it sees the column's position   *)
(* and state and those of the columns its mask lets it attend to.          *)
(*                                                                         *)
(* Abstractions. A document is its labels after formatting, tokens and     *)
(* labels of the same length. take_pack and pack_samples walk the pool in  *)
(* the same order and are one walk here. A row draws the noise the pack    *)
(* drew for the same column of the document and runs at the same depths.   *)
(* Kernels, dtypes and activation checkpointing change no value here.      *)
(***************************************************************************)
EXTENDS Integers, Sequences

CONSTANTS
    Count,           \* documents are 0..Count-1, in the order of the pool
    Tokens, Labels,  \* document -> its tokens, and its labels before the shift
    PackLength,      \* tokens_per_micro_batch
    MaxLength,       \* training_max_sequence_length
    PaddingMultiple, \* 1 stands for none
    Longest,         \* document -> the longest document of its padded batch
    LeftPadded,      \* the documents whose row is padded on the left
    Table,           \* model_max_sequence_length, the rows of freqs_cis
    EosId, IgnoreIndex, TokenizerVocab, ModelVocab,
    Prelude, Coda,   \* layers before and after the core blocks
    CoreLayers,      \* sequence: the layers of each core block
    Learned,         \* use_trainable_initial_state
    Training,        \* model.training
    Asked,           \* block -> the <<n, k>> of num_steps, or Sample
    Sample,
    MeanRecurrence, MeanBackprop, \* block -> a depth
    Draws,           \* what the Poisson draw can give
    Embed(_),        \* embedding of a token
    Layer(_, _, _, _), \* which layer, position, own state, attended states
    Normed(_, _),    \* ln_fs of a block
    Initial(_),      \* the learned state of a block
    Noise(_, _, _),  \* block, document and column in it
    Adapted(_, _, _), \* block, latent, base
    Add(_, _),
    Loss(_, _),      \* final norm, head and cross-entropy against a label
    Zero             \* the loss of an ignored position

VARIABLES
    where,  \* where the forward is: part, block, iteration, layer
    next,   \* documents of the pool walked over
    pooled, \* the slots of those that were in the pool
    taken,  \* documents in the pack
    offset, \* its columns in use
    start,  \* number of a document in the pack -> its first column
    data,   \* number of a document in the pack -> the document
    pack,   \* column -> input, label, position and document number
    hidden, base, latent, \* view -> column -> state
    depth,  \* block -> its iterations without and with gradient
    ran     \* block -> those run so far

packing == <<next, pooled, taken, offset, start, data, pack>>
forwardVars == <<where, packing, hidden, base, latent, depth, ran>>

Lesser(a, b) == IF a < b THEN a ELSE b
Larger(a, b) == IF a < b THEN b ELSE a

Documents == 0..(Count - 1)
Blocks == DOMAIN CoreLayers
Columns == 0..(PackLength - 1)

-----------------------------------------------------------------------------
(* Documents and labels                                                    *)

\* Tokens of a document once it is cut, and its columns after the shift.
Cut(d) == Lesser(Len(Tokens[d]), MaxLength + 1)
Slots(d) == Cut(d) - 1
SlotsOf(d) == 0..(Slots(d) - 1)

Valid(label, vocabulary) == 0 <= label /\ label < vocabulary
Masked(label) == IF Valid(label, TokenizerVocab) THEN label ELSE IgnoreIndex
Effective(label) == IF Valid(label, ModelVocab) THEN label ELSE IgnoreIndex

\* What column j is fed, and what it is asked for.
Input(d, j) == Tokens[d][j + 1]
Target(d, j) == Masked(Labels[d][j + 2])

\* Documents without a target are dropped, by training and validation.
HasSupervisedLabel(d) == \E j \in SlotsOf(d) : Valid(Labels[d][j + 2], TokenizerVocab)

-----------------------------------------------------------------------------
(* Views: the pack and the padded row of each document                     *)

Pack == -1
Rows == {d \in Documents : HasSupervisedLabel(d)}
Views == {Pack} \union Rows

FindMultiple(value, multiple) ==
    IF value % multiple = 0 THEN value ELSE value + multiple - (value % multiple)

\* Columns of a padded row after the shift, and where its document starts.
Width(d) == Lesser(FindMultiple(Larger(Cut(d), Longest[d]), PaddingMultiple), MaxLength + 1) - 1
First(d) == IF d \in LeftPadded THEN Width(d) - Slots(d) ELSE 0
Real(d, c) == First(d) <= c /\ c < First(d) + Slots(d)

ColumnsOf(v) == IF v = Pack THEN Columns ELSE 0..(Width(v) - 1)

InputAt(v, c) ==
    IF v = Pack THEN pack[c].input
    ELSE IF Real(v, c) THEN Input(v, c - First(v)) ELSE EosId

LabelAt(v, c) ==
    IF v = Pack THEN pack[c].label
    ELSE IF Real(v, c) THEN Target(v, c - First(v)) ELSE IgnoreIndex

\* The row of the RoPE table: a padded row counts its own tokens.
Position(v, c) == IF v = Pack THEN pack[c].position ELSE Larger(c - First(v), 0)

\* Causal within a document; a padded row hides its padding on the left,
\* and every column sees itself.
Attends(v, c) ==
    IF v = Pack
    THEN {k \in Columns : k <= c /\ pack[k].document = pack[c].document}
    ELSE {k \in ColumnsOf(v) : (First(v) <= k /\ k <= c) \/ k = c}

NoiseAt(v, block, c) ==
    IF v # Pack THEN Noise(block, v, c - First(v))
    ELSE Noise(block, IF pack[c].document < taken THEN data[pack[c].document] ELSE Count,
               pack[c].position)

\* Every position has its row of the table.
Positioned(v) == \A c \in ColumnsOf(v) : Position(v, c) < Table

-----------------------------------------------------------------------------
(* The pack is filled and assembled                                        *)

At(part, block, iteration, layer) ==
    [part |-> part, block |-> block, iteration |-> iteration, layer |-> layer]

Nothing == [v \in Views |-> [c \in ColumnsOf(v) |-> Zero]]

ForwardInit ==
    /\ where = At("pack", 0, 0, 0)
    /\ next = 0 /\ pooled = 0 /\ taken = 0 /\ offset = 0
    /\ start = [n \in Documents |-> 0] /\ data = [n \in Documents |-> 0]
    /\ pack = [c \in Columns |->
                  [input |-> EosId, label |-> IgnoreIndex, position |-> 0, document |-> 0]]
    /\ hidden = Nothing /\ base = Nothing /\ latent = Nothing
    /\ depth = [b \in Blocks |-> <<0, 0>>]
    /\ ran = [b \in Blocks |-> <<0, 0>>]

Unmoved == UNCHANGED <<hidden, base, latent, depth, ran>>

\* collate_samples keeps no row without a target: it never enters the pool.
Drop ==
    /\ where.part = "pack" /\ next < Count /\ next \notin Rows
    /\ next' = next + 1
    /\ UNCHANGED <<where, pooled, taken, offset, start, data, pack>> /\ Unmoved

\* Column c once the document d stands at the offset.
WithDocument(d, c) ==
    IF offset <= c /\ c < offset + Slots(d)
    THEN [input |-> Input(d, c - offset), label |-> Target(d, c - offset),
          position |-> c - offset, document |-> taken]
    ELSE pack[c]

\* A document that fits is shifted and appended.
Take ==
    /\ where.part = "pack" /\ next < Count /\ next \in Rows
    /\ offset + Slots(next) <= PackLength
    /\ pack' = [c \in Columns |-> WithDocument(next, c)]
    /\ start' = [start EXCEPT ![taken] = offset]
    /\ data' = [data EXCEPT ![taken] = next]
    /\ taken' = taken + 1
    /\ offset' = offset + Slots(next)
    /\ pooled' = pooled + Slots(next)
    /\ next' = next + 1
    /\ UNCHANGED where /\ Unmoved

\* One that does not stays in the pool, and the walk goes on behind it.
Keep ==
    /\ where.part = "pack" /\ next < Count /\ next \in Rows
    /\ offset + Slots(next) > PackLength
    /\ pooled' = pooled + Slots(next)
    /\ next' = next + 1
    /\ UNCHANGED <<where, taken, offset, start, data, pack>> /\ Unmoved

\* The tail is a document of its own, with positions of its own.
Sealed(c) ==
    IF c < offset THEN pack[c]
    ELSE [pack[c] EXCEPT !.position = c - offset, !.document = taken]

Seal ==
    /\ where.part = "pack" /\ next = Count /\ taken > 0
    /\ pack' = [c \in Columns |-> Sealed(c)]
    /\ where' = At("embed", 0, 0, 0)
    /\ UNCHANGED <<next, pooled, taken, offset, start, data>> /\ Unmoved

RefuseEmpty ==
    /\ where.part = "pack" /\ next = Count /\ taken = 0
    /\ where' = At("refused", 0, 0, 0)
    /\ UNCHANGED packing /\ Unmoved

-----------------------------------------------------------------------------
(* The forward pass                                                        *)

\* What a layer makes of a register: one state per view and column.
Seen(states, v, c) == {<<Position(v, k), states[v][k]>> : k \in Attends(v, c)}

LayerOver(which, states) ==
    [v \in Views |-> [c \in ColumnsOf(v) |->
        Layer(which, Position(v, c), states[v][c], Seen(states, v, c))]]

\* canon_steps: a block runs at least once.
RunsOnce(steps) == steps[1] >= 0 /\ steps[2] >= 0 /\ steps[1] + steps[2] >= 1
StepsHold == \A b \in Blocks : Asked[b] = Sample \/ RunsOnce(Asked[b])

\* sample_recurrence_steps: the last iterations get the gradient.
Sampled(b, draw) ==
    LET total == draw + 1
    IN <<Larger(total - MeanBackprop[b], 0), Lesser(MeanBackprop[b], total)>>

Depths(b) ==
    IF Asked[b] # Sample THEN {Asked[b]}
    ELSE IF ~Training THEN {<<MeanRecurrence[b], 0>>}
    ELSE {Sampled(b, draw) : draw \in Draws}

EmbedTokens ==
    /\ where.part = "embed" /\ \A v \in Views : Positioned(v)
    /\ hidden' = [v \in Views |-> [c \in ColumnsOf(v) |-> Embed(InputAt(v, c))]]
    /\ where' = At("prelude", 0, 0, 0)
    /\ UNCHANGED <<packing, base, latent, depth, ran>>

\* A row longer than the table, or a position outside it.
RefusePositions ==
    /\ where.part = "embed" /\ \E v \in Views : ~Positioned(v)
    /\ where' = At("refused", 0, 0, 0)
    /\ UNCHANGED packing /\ Unmoved

PreludeLayer ==
    /\ where.part = "prelude" /\ where.layer < Prelude
    /\ hidden' = LayerOver(<<"prelude", where.layer>>, hidden)
    /\ where' = At("prelude", 0, 0, where.layer + 1)
    /\ UNCHANGED <<packing, base, latent, depth, ran>>

LeavePrelude ==
    /\ where.part = "prelude" /\ where.layer = Prelude
    /\ where' = IF StepsHold THEN At("enter", 1, 0, 0) ELSE At("refused", 0, 0, 0)
    /\ UNCHANGED packing /\ Unmoved

EnterBlock ==
    LET b == where.block
    IN /\ where.part = "enter" /\ b \in Blocks
       /\ base' = [v \in Views |-> [c \in ColumnsOf(v) |-> Normed(b, hidden[v][c])]]
       /\ latent' = [v \in Views |-> [c \in ColumnsOf(v) |->
                        IF Learned THEN Initial(b) ELSE NoiseAt(v, b, c)]]
       /\ \E steps \in Depths(b) : depth' = [depth EXCEPT ![b] = steps]
       /\ where' = At("core", b, 0, 0)
       /\ UNCHANGED <<packing, hidden, ran>>

Iterations(b) == depth[b][1] + depth[b][2]

\* An iteration injects the block's input and then runs the layers.
Inject ==
    LET b == where.block
    IN /\ where.part = "core" /\ where.layer = 0 /\ where.iteration < Iterations(b)
       /\ latent' = [v \in Views |-> [c \in ColumnsOf(v) |->
                        Adapted(b, latent[v][c], base[v][c])]]
       /\ ran' = [ran EXCEPT ![b] = IF where.iteration < depth[b][1] THEN <<@[1] + 1, @[2]>>
                                    ELSE <<@[1], @[2] + 1>>]
       /\ where' = At("core", b, where.iteration, 1)
       /\ UNCHANGED <<packing, hidden, base, depth>>

CoreLayer ==
    LET b == where.block
    IN /\ where.part = "core" /\ 0 < where.layer /\ where.layer <= CoreLayers[b]
       /\ latent' = LayerOver(<<"core", b, where.layer>>, latent)
       /\ where' = At("core", b, where.iteration, where.layer + 1)
       /\ UNCHANGED <<packing, hidden, base, depth, ran>>

EndIteration ==
    /\ where.part = "core" /\ where.layer = CoreLayers[where.block] + 1
    /\ where' = At("core", where.block, where.iteration + 1, 0)
    /\ UNCHANGED packing /\ Unmoved

LeaveBlock ==
    /\ where.part = "core" /\ where.layer = 0 /\ where.iteration = Iterations(where.block)
    /\ hidden' = [v \in Views |-> [c \in ColumnsOf(v) |-> Add(latent[v][c], hidden[v][c])]]
    /\ where' = At("enter", where.block + 1, 0, 0)
    /\ UNCHANGED <<packing, base, latent, depth, ran>>

EnterCoda ==
    /\ where.part = "enter" /\ where.block \notin Blocks
    /\ where' = At("coda", 0, 0, 0)
    /\ UNCHANGED packing /\ Unmoved

CodaLayer ==
    /\ where.part = "coda" /\ where.layer < Coda
    /\ hidden' = LayerOver(<<"coda", where.layer>>, hidden)
    /\ where' = At("coda", 0, 0, where.layer + 1)
    /\ UNCHANGED <<packing, base, latent, depth, ran>>

Finish ==
    /\ where.part = "coda" /\ where.layer = Coda
    /\ where' = At("done", 0, 0, 0)
    /\ UNCHANGED packing /\ Unmoved

ForwardNext ==
    \/ Drop \/ Take \/ Keep \/ Seal \/ RefuseEmpty
    \/ EmbedTokens \/ RefusePositions \/ PreludeLayer \/ LeavePrelude
    \/ EnterBlock \/ Inject \/ CoreLayer \/ EndIteration \/ LeaveBlock
    \/ EnterCoda \/ CodaLayer \/ Finish

ForwardSpec == ForwardInit /\ [][ForwardNext]_forwardVars

-----------------------------------------------------------------------------
(* The loss                                                                *)

Counts(v, c) == Effective(LabelAt(v, c)) # IgnoreIndex

\* One term of the loss of a view.
TokenLoss(v, c) == IF Counts(v, c) THEN Loss(hidden[v][c], LabelAt(v, c)) ELSE Zero

LossChunks == 8

\* chunked_loss: where a piece of a row of this width starts and ends.
ChunkStart(width, i) == i * (width \div LossChunks)
ChunkEnd(width, i) ==
    IF i < LossChunks - 1 THEN ChunkStart(width, i) + (width \div LossChunks) ELSE width
Chunk(width, i) == ChunkStart(width, i)..(ChunkEnd(width, i) - 1)

-----------------------------------------------------------------------------
(* What holds                                                              *)

Numbers == 0..(taken - 1)
Done == where.part = "done"

\* The states of a document in the pack are those of its padded row, and
\* so are its losses: packing changes nothing about what is learned.
PackedAsAlone ==
    Done => \A n \in Numbers : \A j \in SlotsOf(data[n]) :
        /\ hidden[Pack][start[n] + j] = hidden[data[n]][First(data[n]) + j]
        /\ TokenLoss(Pack, start[n] + j) = TokenLoss(data[n], First(data[n]) + j)

\* The losses that count are those of the documents' columns, in pack and
\* rows: neither the tail nor padding is trained or validated on.
OnlyTargetsCount ==
    Done =>
        /\ \A c \in Columns : Counts(Pack, c) =>
              \E n \in Numbers : c - start[n] \in SlotsOf(data[n])
        /\ \A d \in Rows : \A c \in ColumnsOf(d) : Counts(d, c) => c - First(d) \in SlotsOf(d)

\* A column that counts is fed a document's token and asked for the label
\* of that document's next one, never for the neighbour's.
TargetsAreTheNextToken ==
    Done => \A n \in Numbers : \A j \in SlotsOf(data[n]) :
        Counts(Pack, start[n] + j) =>
            /\ pack[start[n] + j].input = Tokens[data[n]][j + 1]
            /\ pack[start[n] + j].label = Labels[data[n]][j + 2]

\* The mean over the targets of a pack has something to divide by.
PackIsSupervised == Done => \E c \in Columns : Counts(Pack, c)

\* Every block ran as deep as it was asked to, at least once; a sampled
\* depth is the draw and the guaranteed pass, and gives gradient to at least
\* one and at most MeanBackprop iterations.
DepthsAsAsked ==
    Done => \A b \in Blocks :
        /\ ran[b] = depth[b] /\ depth[b] \in Depths(b)
        /\ ran[b][1] + ran[b][2] >= 1
        /\ Asked[b] = Sample /\ Training =>
              /\ ran[b][1] + ran[b][2] - 1 \in Draws
              /\ ran[b][2] \in 1..MeanBackprop[b]

\* Iterations with gradient run after all of those without.
GradientComesLast ==
    [][\A b \in Blocks : ran[b]'[1] # ran[b][1] => ran[b][2] = 0]_forwardVars

\* A pack filled from a pool that held more than it does leaves no tail
\* longer than a document, so its positions stay within the RoPE table.
TailStaysInTable ==
    where.part = "embed" /\ pooled > PackLength => Positioned(Pack)

\* The pieces of the chunked loss: every column is in exactly one.
ChunksPartition(width) ==
    \A c \in 0..(width - 1) :
        /\ \E i \in 0..(LossChunks - 1) : c \in Chunk(width, i)
        /\ \A i, k \in 0..(LossChunks - 1) :
              c \in Chunk(width, i) /\ c \in Chunk(width, k) => i = k

=============================================================================
