----------------------------- MODULE MC_Routes ------------------------------
EXTENDS Routes

\* Every sequence over S of length lo to hi.
SeqsOf(S, lo, hi) == UNION {[1..k -> S] : k \in lo..hi}

\* A parameter's name runs to the next slash, so no byte can follow it.
Written(p) == \A i \in 1..(Len(p) - 1) : Marker(p[i]) => p[i + 1] = Slash

\* Over one static byte, a parameter and a wildcard every pattern of up to four
\* tokens that parses; some that split, name differently or do not parse.
TreePatterns ==
  {p \in {<<Slash>> \o t : t \in
      SeqsOf({Slash, Byte("a"), Param("x"), Wild("x")}, 0, 3)}
   : Written(p) /\ Parses(p)}
  \cup {<<Slash, Byte("a"), Byte("b")>>, <<Slash, Byte("a"), Byte("b"), Byte("a")>>,
        <<Slash, Param("y")>>, <<Slash, Byte("a"), Wild("y")>>,
        <<Slash, Param("x"), Slash, Param("y")>>,
        <<Slash, Param("x"), Slash, Param("x")>>, <<Slash, Slash>>}
Normalised(path) == \A i \in 1..(Len(path) - 1) : path[i] # "/" \/ path[i + 1] # "/"
TreePaths ==
  {<<"/">> \o t : t \in {u \in SeqsOf({"/", "a", "b"}, 0, 4) : Normalised(<<"/">> \o u)}}

\* Three routes of one tree in any order; and groups, uses and routes mixed.
MCPrograms ==
  {[methods |-> {"GET"}, patterns |-> TreePatterns, prefixes |-> {},
    paths |-> TreePaths, maxGroups |-> 0, maxUses |-> 0, maxRoutes |-> 3],
   [methods |-> {"GET", "PURGE"}, patterns |-> {<<>>, <<Slash, Byte("a")>>},
    prefixes |-> {<<>>, <<Slash, Byte("b")>>}, paths |-> {<<"/">>, <<"/", "a">>},
    maxGroups |-> 2, maxUses |-> 3, maxRoutes |-> 2]}
=============================================================================
