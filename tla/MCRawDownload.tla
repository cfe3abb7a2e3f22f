--------------------------- MODULE MCRawDownload ---------------------------
(* Small upstreams for RawDownload. *)
EXTENDS RawDownload

MCGroup == {{"i"}, {"p", "q"}}
Of(name, kinds) == [j \in DOMAIN kinds |-> [name |-> name, kind |-> kinds[j]]]
OkRows(names) == [j \in DOMAIN names |-> [name |-> names[j], kind |-> "ok"]]

\* an instruct source with a long and two malformed rows before a shard is full and a rejected one at the end;
\* two pretrain sources whose rows alternate
MCUpstream ==
    [g \in MCGroup |-> IF g = {"i"} THEN Of("i", <<"ok", "long", "ok", "bad", "orphan", "ok", "ok", "filtered", "ok", "ok", "ok", "ok", "bad">>)
                                    ELSE OkRows(<<"p", "q", "p", "p", "q", "p">>)]
=============================================================================
