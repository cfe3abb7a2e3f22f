----------------------------- MODULE Generation -----------------------------
(* One inference session of the model (model/generation.py, used by         *)
(* RecurrentGPT._forward_generation in model/model.py and by the wrapper in *)
(* model/hf/modeling.py): the tokens, masks, positions, initial latents and *)
(* cached keys and values that the forwards of one generation share.        *)
(*                                                                          *)
(* A forward appends columns to the batch. With use_cache it computes only  *)
(* them and reads the columns before them from the slots, one slot per      *)
(* occurrence of an attention layer: a layer of a recurrent block occurs    *)
(* once per iteration. Without, it computes the whole prefix again, the     *)
(* reference the cache has to agree with; "full" computes it beside every   *)
(* forward. A forward that is refused or raises leaves nothing to use.      *)
(*                                                                          *)
(* Abstractions. One row stands for the batch, whose rows share columns and *)
(* do not meet. What the tensors compute is uninterpreted, and the keys and *)
(* values of a column stand for the state they are projected from. A model, *)
(* with its revision, device and precision, is one value.                   *)
EXTENDS Integers, Sequences

CONSTANTS
    Prelude, Coda,      \* layers before and behind the recurrent blocks
    CoreLayers,         \* the layers of each recurrent block
    MaxPositions,       \* rows of the RoPE table
    LearnedStart,       \* use_trainable_initial_state
    Requests,           \* the calls a caller may make
    Embed(_, _),        \* of a token and a position
    Draw(_, _),         \* the n-th column the generator of a block draws
    Learned(_),         \* the learned initial state of a block
    EnterCore(_, _, _), \* a block, the stream of a column, its initial latent
    Layer(_, _, _)      \* an occurrence, a column's state, what it attends to

VARIABLES
    session,    \* what the forwards share: the GenerationState
    forward     \* the forward under way, if one is

sessionVars == <<session, forward>>

Cores == 1..Len(CoreLayers)
None == {}
Some(x) == {x}

-----------------------------------------------------------------------------
(* The occurrences of the attention layers, in the order a forward runs     *)
(* them: <<part, index, iteration, layer>>, part 1 the prelude, 2 the       *)
(* recurrent blocks, 3 the coda.                                            *)

PreludeSlot(i) == <<1, i, 0, 0>>
CoreSlot(c, n, l) == <<2, c, n, l>>
CodaSlot(i) == <<3, i, 0, 0>>
End == <<4, 0, 0, 0>>

Slots(steps) ==
    {PreludeSlot(i) : i \in 1..Prelude} \union {CodaSlot(i) : i \in 1..Coda}
    \union UNION {{CoreSlot(c, n, l) : n \in 1..steps[c], l \in 1..CoreLayers[c]} : c \in Cores}

First == IF Prelude > 0 THEN PreludeSlot(1) ELSE CoreSlot(1, 1, 1)
CodaStart == IF Coda > 0 THEN CodaSlot(1) ELSE End

AfterCore(s, steps) ==
    IF s[4] < CoreLayers[s[2]] THEN CoreSlot(s[2], s[3], s[4] + 1)
    ELSE IF s[3] < steps[s[2]] THEN CoreSlot(s[2], s[3] + 1, 1)
    ELSE IF s[2] < Len(CoreLayers) THEN CoreSlot(s[2] + 1, 1, 1)
    ELSE CodaStart

After(s, steps) ==
    CASE s[1] = 1 -> IF s[2] < Prelude THEN PreludeSlot(s[2] + 1) ELSE CoreSlot(1, 1, 1)
      [] s[1] = 2 -> AfterCore(s, steps)
      [] OTHER -> IF s[2] < Coda THEN CodaSlot(s[2] + 1) ELSE End

StartsCore(s) == s[1] = 2 /\ s[3] = 1 /\ s[4] = 1

-----------------------------------------------------------------------------
(* What a forward works on                                                  *)

\* build_generation_mask: a column attends to itself and to what is kept before it.
Visible(mask, j) == {k \in 1..j : k = j \/ mask[k]}
View(mask, column, j) == {<<k, column[k]>> : k \in Visible(mask, j)}

\* Positions count what is kept, per row; a padding column in front is at 0.
KeptUpTo[mask \in Seq(BOOLEAN), j \in Nat] ==
    IF j = 0 THEN 0 ELSE KeptUpTo[mask, j - 1] + (IF mask[j] THEN 1 ELSE 0)
DefaultPosition(mask, j) == IF KeptUpTo[mask, j] = 0 THEN 0 ELSE KeptUpTo[mask, j] - 1

Length(s) == Len(s.ids)
StartOf(s, r) == IF r.cached THEN Length(s) ELSE 0
Total(s, r) == StartOf(s, r) + Len(r.ids)

\* prepare_generation_inputs
MaskOf(s, r) == IF r.mask = None THEN [k \in 1..Total(s, r) |-> TRUE]
                ELSE CHOOSE m \in r.mask : TRUE
PositionsOf(s, r) ==
    IF r.positions = None
    THEN [k \in 1..Len(r.ids) |-> DefaultPosition(MaskOf(s, r), StartOf(s, r) + k)]
    ELSE CHOOSE p \in r.positions : TRUE

Extends(longer, shorter) ==
    /\ Len(longer) >= Len(shorter)
    /\ \A k \in 1..Len(shorter) : longer[k] = shorter[k]

-----------------------------------------------------------------------------
(* What begin refuses                                                       *)

ModeHolds(s, r) ==
    /\ ~s.failed /\ s.pending = None
    /\ r.inference
    /\ s.cached = None \/ s.cached = Some(r.cached)

SignatureHolds(s, r) ==
    /\ s.model = None \/ s.model = Some(r.model)
    /\ s.steps = None \/ s.steps = Some(r.steps)

InputsHold(s, r) ==
    /\ Len(r.ids) >= 1
    /\ Len(MaskOf(s, r)) = Total(s, r)
    /\ Len(PositionsOf(s, r)) = Len(r.ids)
    /\ Length(s) > 0 => s.batch = Some(r.batch) /\ Total(s, r) > Length(s)
    /\ \A k \in 1..Len(r.ids) : PositionsOf(s, r)[k] \in 0..(MaxPositions - 1)
    /\ Extends(MaskOf(s, r), s.mask)

\* A cached forward is given the new columns, the reference the whole prefix.
PrefixHolds(s, r) ==
    ~r.cached => Extends(r.ids, s.ids) /\ Extends(PositionsOf(s, r), s.positions)

Accepts(s, r) ==
    ModeHolds(s, r) /\ SignatureHolds(s, r) /\ InputsHold(s, r) /\ PrefixHolds(s, r)

\* The whole prefix as the forward leaves it if it succeeds.
Pending(s, r) ==
    [ids |-> IF r.cached THEN s.ids \o r.ids ELSE r.ids,
     mask |-> MaskOf(s, r),
     positions |-> IF r.cached THEN s.positions \o PositionsOf(s, r) ELSE PositionsOf(s, r)]

-----------------------------------------------------------------------------
(* The session                                                              *)

Fresh ==
    [ids |-> <<>>, mask |-> <<>>, positions |-> <<>>, batch |-> None, steps |-> None,
     model |-> None, cached |-> None, pending |-> None, failed |-> FALSE,
     latents |-> [c \in Cores |-> <<>>], slots |-> [s \in {} |-> <<>>]]

Invalidated(s) ==
    [Fresh EXCEPT !.steps = s.steps, !.cached = s.cached, !.failed = TRUE]

NoForward == [on |-> FALSE]

SessionInit == session = Fresh /\ forward = NoForward

\* A call that begins: its columns are embedded, nothing of it is published.
Begin(r) ==
    /\ ~forward.on /\ Accepts(session, r)
    /\ LET p == Pending(session, r)
           start == StartOf(session, r)
           embedded == [k \in 1..Len(p.ids) |-> Embed(p.ids[k], p.positions[k])]
       IN /\ session' = [session EXCEPT
                !.steps = Some(r.steps), !.model = Some(r.model), !.batch = Some(r.batch),
                !.cached = Some(r.cached), !.pending = Some(p)]
          /\ forward' = [on |-> TRUE, cached |-> r.cached, start |-> start, prefix |-> p,
                         steps |-> r.steps, at |-> First, stream |-> embedded, full |-> embedded]

\* A call that is refused: its exception leaves no session.
Refuse(r) ==
    /\ ~forward.on /\ ~Accepts(session, r)
    /\ session' = Invalidated(session)
    /\ UNCHANGED forward

\* The wrapper is given the whole sequence, derives its positions from the
\* mask, checks the prefix and cuts it off.
WholePositions(r) ==
    IF r.positions # None \/ r.mask = None THEN r.positions
    ELSE {[k \in 1..Len(m) |-> DefaultPosition(m, k)] : m \in r.mask}

KeepsPrefix(s, r) ==
    /\ ~s.failed
    /\ Length(s) > 0 =>
         /\ s.batch = Some(r.batch) /\ Len(r.ids) > Length(s) /\ Extends(r.ids, s.ids)
         /\ \A p \in WholePositions(r) : Extends(p, s.positions)

Sliced(s, r) ==
    [r EXCEPT !.ids = SubSeq(@, Length(s) + 1, Len(@)),
              !.positions = {SubSeq(p, Length(s) + 1, Len(p)) : p \in WholePositions(r)}]

Generate(r) ==
    /\ ~forward.on /\ r.cached
    /\ IF KeepsPrefix(session, r)
       THEN Begin(Sliced(session, r)) \/ Refuse(Sliced(session, r))
       ELSE session' = Invalidated(session) /\ UNCHANGED forward

-----------------------------------------------------------------------------
(* The forward                                                              *)

Of(slots, s) == IF s \in DOMAIN slots THEN slots[s] ELSE <<>>

\* Mutant: every call seeds the generator anew.
DrawnAfresh(total, c, old) ==
    [j \in 1..total |-> IF j <= Len(old) THEN old[j] ELSE Draw(c, j - Len(old))]

\* A block's generator draws a column at a time, as many as are missing.
DrawnUpTo(total, c, old) ==
    [j \in 1..total |-> IF j <= Len(old) THEN old[j] ELSE Draw(c, j)]

LatentOf(latents, c, j) == IF LearnedStart THEN Learned(c) ELSE latents[c][j]

\* The state a column enters an occurrence with.
Input(latents, s, column, j) ==
    IF StartsCore(s) THEN EnterCore(s[2], column, LatentOf(latents, s[2], j)) ELSE column

\* One occurrence of a layer: the new columns are appended to its slot, and
\* attend to what the slot holds; the reference computes every column anew.
RunLayer ==
    /\ forward.on /\ forward.at # End
    /\ LET s == forward.at
           total == Len(forward.prefix.ids)
           mask == forward.prefix.mask
           latents == IF StartsCore(s) /\ ~LearnedStart
                      THEN [session.latents EXCEPT ![s[2]] = DrawnUpTo(total, s[2], @)]
                      ELSE session.latents
           old == Of(session.slots, s)
           entered == [j \in 1..total |-> Input(latents, s, forward.stream[j], j)]
           keys == IF forward.cached
                   THEN old \o SubSeq(entered, forward.start + 1, total)
                   ELSE entered
           whole == [j \in 1..total |->
                        Input([c \in Cores |-> [k \in 1..total |-> Draw(c, k)]],
                              s, forward.full[j], j)]
       IN /\ session' = [session EXCEPT !.latents = latents,
                !.slots = IF forward.cached
                          THEN [t \in (DOMAIN @) \union {s} |-> IF t = s THEN keys ELSE @[t]]
                          ELSE @]
          /\ forward' = [forward EXCEPT
                !.at = After(s, forward.steps),
                !.stream = [j \in 1..total |->
                    IF j > forward.start THEN Layer(s, entered[j], View(mask, keys, j))
                    ELSE forward.stream[j]],
                !.full = [j \in 1..total |-> Layer(s, whole[j], View(mask, whole, j))]]

\* The logits are computed, and the prefix is published.
Finish ==
    /\ forward.on /\ forward.at = End
    /\ session' = [session EXCEPT !.ids = forward.prefix.ids, !.mask = forward.prefix.mask,
                                  !.positions = forward.prefix.positions, !.pending = None]
    /\ forward' = NoForward

\* An exception anywhere in the forward.
Fail ==
    /\ forward.on
    /\ session' = Invalidated(session)
    /\ forward' = NoForward

\* An interrupt is no Exception: nobody invalidates the session.
Interrupt ==
    /\ forward.on
    /\ forward' = NoForward
    /\ UNCHANGED session

SessionNext ==
    \/ \E r \in Requests : Begin(r) \/ Refuse(r) \/ Generate(r)
    \/ RunLayer \/ Finish \/ Fail \/ Interrupt

SessionSpec == SessionInit /\ [][SessionNext]_sessionVars

-----------------------------------------------------------------------------
(* Properties                                                               *)

(* The cache changes no result: whatever calls came before, when a forward  *)
(* has run its last layer, every column it computed is what the whole       *)
(* prefix gives when it is computed again without a cache.                  *)
CacheIsTransparent ==
    forward.on /\ forward.at = End =>
        \A j \in (forward.start + 1)..Len(forward.prefix.ids) :
            forward.stream[j] = forward.full[j]

(* A session that may be used again holds the same columns everywhere: its  *)
(* tokens, mask and positions, and in a cached one the slot of every        *)
(* occurrence, none of which a forward that broke off has left longer.      *)
SlotsHoldThePrefix ==
    ~forward.on /\ ~session.failed /\ session.pending = None =>
        /\ Len(session.mask) = Length(session) /\ Len(session.positions) = Length(session)
        /\ \A s \in DOMAIN session.slots : Len(session.slots[s]) = Length(session)

(* A token keeps its noise: the initial latent of a column is the draw of   *)
(* its block's generator for this column, however the prefix was cut into   *)
(* calls.                                                                   *)
LatentsAreDraws ==
    \A c \in Cores : \A j \in 1..Len(session.latents[c]) : session.latents[c][j] = Draw(c, j)

(* A forward that was refused, raised or was interrupted is the last of its *)
(* session: no later call publishes anything.                               *)
Spoiled == session.failed \/ (session.pending # None /\ ~forward.on)
NothingAfterAFailure ==
    [][Spoiled => ~forward'.on /\ (Length(session)' # Length(session) => Length(session)' = 0)]_sessionVars

(* What was published stays: the prefix of a session only grows.            *)
PrefixOnlyGrows ==
    [][~session'.failed => /\ Extends(session'.ids, session.ids)
                           /\ Extends(session'.mask, session.mask)
                           /\ Extends(session'.positions, session.positions)]_sessionVars
=============================================================================
