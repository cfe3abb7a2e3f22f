---------------------------- MODULE Conversation ----------------------------
(* How a conversation becomes tokens, and which of its exchanges a row      *)
(* keeps: when it is downloaded, when its source is built, when the planner *)
(* counts what it is worth, when it is trained on and when an answer to it  *)
(* is generated (data_preparation/lib/conversation_format.py,               *)
(* tokenization/chat.py, training/data/formats.py).                         *)
(*                                                                          *)
(* Messages alternate, the first is a user's; a pair of them is an          *)
(* exchange.  A message is its content.  A token comes with whether it is   *)
(* supervised.  A limit is a set of bounds, {} where there is none.         *)
EXTENDS Integers, Sequences, FiniteSets

CONSTANTS
    Content,        \* nonempty contents of messages
    Token,          \* token ids
    Encode(_),      \* encode_literal, of a content
    Literal,        \* the tokenizer has the literal chat profile
    BodyToken,      \* ids its content may have, none of them structural
    Bos, Eos,
    User, Assistant,            \* the headers of the literal profile
    FirstUser, NextUser, Answer \* the encoded headers of the legacy format

-----------------------------------------------------------------------------
(* Tokens *)

Asks(i) == i % 2 = 1

Header(i) ==
    IF Literal THEN <<IF Asks(i) THEN User ELSE Assistant>>
    ELSE IF ~Asks(i) THEN Answer
    ELSE IF i = 1 THEN FirstUser ELSE NextUser

\* With the profile every message is closed, without it an answer may be.
Closing(i, o) == IF Literal \/ (~Asks(i) /\ o.eos) THEN <<Eos>> ELSE <<>>

Marked(ids, learn) == [k \in 1..Len(ids) |-> [id |-> ids[k], supervised |-> learn]]

Turn(m, i, o) ==
    Marked(Header(i), FALSE) \o Marked(Encode(m[i]) \o Closing(i, o), ~Asks(i))

Opening(o) == IF o.bos THEN Marked(<<Bos>>, FALSE) ELSE <<>>

\* The tokens of the first n messages.
Written(m, o) ==
    LET written[n \in 0..Len(m)] ==
            IF n = 0 THEN Opening(o) ELSE written[n - 1] \o Turn(m, n, o)
    IN written

\* What the encoders accept: everything else is an error.
Options == IF Literal THEN [bos : {TRUE}, eos : {TRUE}] ELSE [bos : BOOLEAN, eos : BOOLEAN]
Full == [bos |-> TRUE, eos |-> TRUE]
Plain(c) == \A k \in 1..Len(Encode(c)) : Encode(c)[k] \in BodyToken
Conversations ==
    {m \in Seq(Content) : m # <<>> /\ (Literal => \A i \in 1..Len(m) : Plain(m[i]))}

-----------------------------------------------------------------------------
(* The exchanges that fit *)

Complete(m) == Len(m) \div 2

\* exchange_ends: the tokens up to the end of the k-th exchange.
ExchangeEnd(m, o, k) == Len(Written(m, o)[2 * k])

Fits(m, o, limit, k) == \A bound \in limit : ExchangeEnd(m, o, k) <= bound

\* Exchange after exchange, until one does not fit.
KeptInOrder(m, o, limit) ==
    CHOOSE k \in 0..Complete(m) :
        /\ \A j \in 1..k : Fits(m, o, limit, j)
        /\ k < Complete(m) => ~Fits(m, o, limit, k + 1)

\* With the profile everything is encoded, and the ends within the limit count.
KeptOfAll(m, o, limit) ==
    Cardinality({j \in 1..Complete(m) : Fits(m, o, limit, j)})

Kept(m, o, limit) == IF Literal THEN KeptOfAll(m, o, limit) ELSE KeptInOrder(m, o, limit)

Fit(m, o, limit) ==
    LET k == Kept(m, o, limit)
    IN [tokens |-> IF k = 0 THEN <<>> ELSE Written(m, o)[2 * k],
        ends |-> [j \in 1..k |-> ExchangeEnd(m, o, j)],
        messages |-> SubSeq(m, 1, 2 * k)]

-----------------------------------------------------------------------------
(* A row from its download to its training step *)

\* A row without an exchange that fits is not stored.
Stored(row) == row.messages # <<>>

Downloaded(m, limit) == Fit(m, Full, {limit})

\* A row that fits is taken over if its counts are those of this tokenizer.
Built(raw, sameTokenizer, limit) ==
    IF sameTokenizer /\ Len(raw.tokens) <= limit THEN raw
    ELSE Fit(raw.messages, Full, {limit})

\* The collate fits the row once more; the shift costs one position.
Trained(row, length) == Fit(row.messages, Full, {length + 1}).tokens
Positions(tokens) == IF tokens = <<>> THEN 0 ELSE Len(tokens) - 1

\* count_fitted_positions, from the ends alone
Countable(ends) ==
    /\ ends # <<>>
    /\ \A j \in 1..Len(ends) : ends[j] >= 2
    /\ \A j \in 1..(Len(ends) - 1) : ends[j] < ends[j + 1]

Usable(ends, target) == {ends[j] - 1 : j \in {i \in 1..Len(ends) : ends[i] <= target + 1}}

Counted(ends, target) ==
    CHOOSE p \in Usable(ends, target) \union {0} :
        \A q \in Usable(ends, target) \union {0} : q <= p

\* measured_tokens_per_row: the planner reads the ends of the raw rows.
Planned(raw, target, limit) ==
    Counted(raw.ends, IF target <= limit - 1 THEN target ELSE limit - 1)

-----------------------------------------------------------------------------
(* encode_chat_prompt, of a conversation that ends with a question: of the  *)
(* legacy format only its callers' tests and comparisons ask for one.      *)

LiteralPrompt(m) == Written(m, Full)[Len(m)] \o Marked(Header(Len(m) + 1), FALSE)

LegacyPrompt(m) ==
    LET history == SubSeq(m, 1, Len(m) - 1)
        before == IF history = <<>> THEN Opening(Full) ELSE Fit(history, Full, {}).tokens
    IN before \o Marked(Header(Len(m)), FALSE) \o Marked(Encode(m[Len(m)]), FALSE)
              \o Marked(Header(Len(m) + 1), FALSE)

Prompt(m) == IF Literal THEN LiteralPrompt(m) ELSE LegacyPrompt(m)
=============================================================================
