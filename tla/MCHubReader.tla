----------------------------- MODULE MCHubReader ----------------------------
(* Small repositories for HubReader. *)
EXTENDS HubReader

MCKey == {"a", "b", "x"}
Of(kind, groups) == [kind |-> kind, groups |-> groups]

\* groups skipped between groups that are read; two groups in the last file only; a cached file and a
\* stream between remote files
MCRepo == {
    <<Of("remote", <<<<"a", "b", "x">>, <<"b">>, <<"a", "x">>>>)>>,
    <<Of("cached", <<<<"x", "a", "b">>>>), Of("remote", <<<<"b", "a">>, <<"x", "a">>>>)>>,
    <<Of("remote", <<<<"b", "a">>>>), Of("stream", <<<<"b", "a">>>>), Of("remote", <<<<"a", "x">>>>)>>}

\* a request is satisfied in the first of two groups of a file, another one begins in the next file
MCTwoGroups == {<<Of("remote", <<<<"a", "b">>, <<"a">>>>), Of("remote", <<<<"a", "b">>>>)>>}

\* the group between two that are read holds rows of a key that is first met in the second
MCBetween == {<<Of("remote", <<<<"a", "b">>, <<"b", "x">>, <<"a", "x">>>>)>>}

MCPassive == MCTwoGroups \union MCBetween
MCEvery == MCRepo \union MCPassive
=============================================================================
