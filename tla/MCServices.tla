------------------------------- MODULE MCServices -------------------------------
(* An instance of Services for TLC.                                          *)
EXTENDS Services

MCEmitters == {"e1", "e2"}
MCSubscribers == {[id |-> "a", obj |-> 1, panics |-> FALSE], [id |-> "a", obj |-> 2, panics |-> TRUE],
                [id |-> "b", obj |-> 1, panics |-> FALSE]}

MCProviders ==
  {[vendor |-> "openai", model |-> <<"gpt">>, gen |-> 1], [vendor |-> "openai", model |-> <<"gpt">>, gen |-> 2],
   [vendor |-> "siliconflow", model |-> <<"org", "m">>, gen |-> 1], [vendor |-> "anthropic", model |-> <<"c">>, gen |-> 1]}
MCRequirements == {{}, {"embedding"}, {"streaming", "vision"}}

\* The server "a.b" with a tool "c" and the server "a" with a tool "b.c" have one ID.
MCCapabilities ==
  {[kind |-> "mcp", source |-> <<"a", ".", "b">>, name |-> <<"c">>, descriptor |-> <<>>],
   [kind |-> "mcp", source |-> <<"a">>, name |-> <<"b", ".", "c">>, descriptor |-> <<>>],
   [kind |-> "native", source |-> <<"builtin">>, name |-> <<"x">>, descriptor |-> <<>>],
   [kind |-> "skill", source |-> <<"x">>, name |-> <<"x">>, descriptor |-> <<"y">>],
   [kind |-> "skill", source |-> <<"s">>, name |-> <<"s">>, descriptor |-> <<>>]}

MCStatuses == {200, 401, 503}
MCReplies == UNION {[1..n -> [index: -1..2, vector: 1..2]] : n \in 0..3}

MCNames == {"calls"}
\* Labels that only differ in a forbidden key, and two that String does not tell apart.
MCLabelSets ==
  {[x \in {} |-> x],
   [provider |-> <<"p">>, status |-> <<"ok">>],
   [provider |-> <<"p", ",", "status", "=", "ok">>],
   [provider |-> <<"p">>, request_id |-> <<"1">>], [provider |-> <<"p">>, request_id |-> <<"2">>]}
MCAmounts == {1, 2}

MCDocIDs == {"d", "e"}
Word(w, n, stop) == [lower |-> w, len |-> n, stop |-> stop, newline |-> FALSE]
Line(w, n) == [lower |-> w, len |-> n, stop |-> FALSE, newline |-> TRUE]
MCContents ==
  {<<Word("cat", 3, FALSE), Word("dog", 4, TRUE), Word("dog", 3, FALSE)>>,
   <<Word("a", 1, FALSE), Word("cat", 3, FALSE), Line("dog", 3), Word("cat", 3, FALSE)>>}
MCQueries == {<<Word("a", 1, FALSE)>>, <<Word("cat", 3, FALSE), Word("dog", 3, FALSE)>>}
MCTopKs == {1, 3}
MCLengths == {0, 8}

MCChars == {"-", ".", "0", "1", "9", "x"}
=============================================================================
