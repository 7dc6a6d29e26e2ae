------------------------------- MODULE Router -------------------------------
(***************************************************************************)
(* internal/router: patterns, the radix tree and its lookup.               *)
(*                                                                         *)
(* A pattern is a sequence of tokens: a byte of static text, a parameter   *)
(* or a wildcard.  A path is a sequence of bytes.  A node's param and      *)
(* wildcard children are sequences of at most one node.                    *)
(***************************************************************************)
EXTENDS Naturals, Sequences, FiniteSets, FiniteSetsExt, SequencesExt

Byte(b)   == [kind |-> "static", text |-> b]
Param(x)  == [kind |-> "param", text |-> x]
Wild(x)   == [kind |-> "wildcard", text |-> x]
Slash     == Byte("/")
Marker(t) == t.kind # "static"

\* checkNormalised: an empty segment, a dot segment or a percent escape.
checkNormalised(p) ==
  LET Ends(i) == i > Len(p) \/ p[i] = Slash IN
  /\ \A i \in 1..(Len(p) - 1) : ~(p[i] = Slash /\ p[i + 1] = Slash)
  /\ \A i, j \in 1..Len(p) :
       ~(/\ i < j /\ j <= i + 2 /\ p[i] = Slash /\ Ends(j + 1)
         /\ \A k \in (i + 1)..j : p[k] = Byte("."))
  /\ \A i \in 1..Len(p) : p[i] # Byte("%2F")

\* parsePattern: whether p is accepted.  A name runs to the next slash, so only
\* a slash may follow a parameter and nothing a wildcard.
Parses(p) ==
  /\ p # <<>> /\ p[1] = Slash /\ checkNormalised(p)
  /\ \A i \in 1..Len(p) :
       /\ p[i].kind = "param" => i = Len(p) \/ p[i + 1] = Slash
       /\ p[i].kind = "wildcard" => i = Len(p)
  /\ \A i, j \in 1..Len(p) :
       i # j /\ Marker(p[i]) /\ Marker(p[j]) => p[i].text # p[j].text

\* parsePattern: the segments of p, static runs joined.
parsePattern(p) ==
  LET Join(segs, t) ==
        IF Marker(t) THEN Append(segs, [kind |-> t.kind, text |-> <<t.text>>])
        ELSE IF segs # <<>> /\ Last(segs).kind = "static"
        THEN [segs EXCEPT ![Len(segs)].text = Append(@, t.text)]
        ELSE Append(segs, [kind |-> "static", text |-> <<t.text>>])
  IN FoldLeft(Join, <<>>, p)

\* Tree.Insert: what pattern p captures.
CountParams(p) == Cardinality({i \in 1..Len(p) : Marker(p[i])})
-----------------------------------------------------------------------------
\* node: handler <<>> is none, else <<entry>>.
Node(prefix, name) ==
  [prefix |-> prefix, name |-> name, handler |-> <<>>,
   static |-> <<>>, param |-> <<>>, wildcard |-> <<>>]

EmptyTree == Node(<<>>, <<>>)

staticChild(n, b) == {i \in 1..Len(n.static) : n.static[i].prefix[1] = b}

commonPrefixLen(a, b) ==
  Max({k \in 0..Min({Len(a), Len(b)}) : SubSeq(a, 1, k) = SubSeq(b, 1, k)})

\* Mutant of Split: the handler stays on the head.
SplitKeepsHandler(child, cp) ==
  LET tail == [child EXCEPT !.prefix = SubSeq(@, cp + 1, Len(@))] IN
  IF cp = Len(child.prefix) THEN child
  ELSE [child EXCEPT !.prefix = SubSeq(@, 1, cp), !.static = <<tail>>,
                     !.param = <<>>, !.wildcard = <<>>]

\* Mutant of Split: the tail loses the parameter child.
SplitDropsParam(child, cp) ==
  LET tail == [child EXCEPT !.prefix = SubSeq(@, cp + 1, Len(@)), !.param = <<>>] IN
  IF cp = Len(child.prefix) THEN child
  ELSE [Node(SubSeq(child.prefix, 1, cp), <<>>) EXCEPT !.static = <<tail>>]

\* insertStatic: a child that shares only cp bytes with the text is split; the
\* new tail takes its remaining prefix, its handler and its children.
Split(child, cp) ==
  LET tail == [child EXCEPT !.prefix = SubSeq(@, cp + 1, Len(@))] IN
  IF cp = Len(child.prefix) THEN child
  ELSE [Node(SubSeq(child.prefix, 1, cp), <<>>) EXCEPT !.static = <<tail>>]

RECURSIVE insert(_, _, _), insertStatic(_, _, _, _)

\* tree.insert below n: the node afterwards and the error, "" for none.  What
\* was split or created before an error stays.
insert(n, segs, h) ==
  IF segs = <<>> THEN
    IF n.handler # <<>> THEN [node |-> n, err |-> "duplicate"]
    ELSE [node |-> [n EXCEPT !.handler = <<h>>], err |-> ""]
  ELSE IF Head(segs).kind = "static" THEN
    insertStatic(n, Head(segs).text, Tail(segs), h)
  ELSE
    LET kind == Head(segs).kind
        old == IF n[kind] = <<>> THEN Node(<<>>, Head(segs).text) ELSE n[kind][1]
        sub == insert(old, Tail(segs), h)
    IN IF old.name # Head(segs).text THEN [node |-> n, err |-> "conflict"]
       ELSE [node |-> [n EXCEPT ![kind] = <<sub.node>>], err |-> sub.err]

insertStatic(n, text, rest, h) ==
  IF text = <<>> THEN insert(n, rest, h)
  ELSE IF staticChild(n, text[1]) = {} THEN
    LET sub == insert(Node(text, <<>>), rest, h)
    IN [node |-> [n EXCEPT !.static = Append(@, sub.node)], err |-> sub.err]
  ELSE
    LET i == CHOOSE j \in staticChild(n, text[1]) : TRUE
        cp == commonPrefixLen(n.static[i].prefix, text)
        sub == insertStatic(Split(n.static[i], cp),
                            SubSeq(text, cp + 1, Len(text)), rest, h)
    IN [node |-> [n EXCEPT !.static[i] = sub.node], err |-> sub.err]

\* Tree.Insert
Insert(tree, p, h) ==
  IF Parses(p) THEN insert(tree, parsePattern(p), h)
  ELSE [node |-> tree, err |-> "malformed"]
-----------------------------------------------------------------------------
\* Mutant of truncate: what an abandoned branch captured stays.
truncateKeeps(params, n) == params

\* Params.truncate
truncate(params, n) == SubSeq(params, 1, n)

Segment(path) ==
  Max({k \in 0..Len(path) : \A i \in 1..k : path[i] # "/"})

\* A lookup under way: the handler found, <<>> for none, the one Params that all
\* its branches fill, and the most captures it held at any time.
Search == [h |-> <<>>, params |-> <<>>, peak |-> 0]

\* Params.add
add(s, key, value) ==
  [s EXCEPT !.params = Append(@, [key |-> key, value |-> value]),
            !.peak = Max({@, Len(s.params) + 1})]

\* node.lookup below n, going on from s: static, then param, then wildcard.  A
\* branch that captured and failed is truncated to what was there before it.
RECURSIVE lookup(_, _, _)
lookup(n, path, s) ==
  LET Descend(child, used, t) ==
        IF used = Len(path) THEN [t EXCEPT !.h = child.handler]
        ELSE lookup(child, SubSeq(path, used + 1, Len(path)), t)
      Capture(child, used, t) ==
        LET u == Descend(child, used, add(t, child.name, SubSeq(path, 1, used)))
        IN IF u.h # <<>> THEN u
           ELSE [u EXCEPT !.params = truncate(@, Len(t.params))]
      kids == staticChild(n, path[1])
      kid == n.static[CHOOSE i \in kids : TRUE]
      k == Segment(path)
      static == IF kids # {} /\ IsPrefix(kid.prefix, path)
                THEN Descend(kid, Len(kid.prefix), s) ELSE s
      param == IF static.h = <<>> /\ n.param # <<>> /\ k > 0
               THEN Capture(n.param[1], k, static) ELSE static
  IN IF path = <<>> THEN s
     ELSE IF param.h = <<>> /\ n.wildcard # <<>>
     THEN Capture(n.wildcard[1], Len(path), param) ELSE param
-----------------------------------------------------------------------------
(* What the tree must compute, from the list of patterns alone. *)

\* The params with which p captures the path, as the set of the one way or {}.
RECURSIVE Captures(_, _)
Captures(p, path) ==
  IF p = <<>> THEN IF path = <<>> THEN {<<>>} ELSE {}
  ELSE IF path = <<>> THEN {}
  ELSE LET used == CASE p[1].kind = "static" -> IF path[1] = p[1].text THEN 1 ELSE 0
                     [] p[1].kind = "param" -> Segment(path)
                     [] OTHER -> Len(path)
           own == IF Marker(p[1])
                    THEN <<[key |-> <<p[1].text>>, value |-> SubSeq(path, 1, used)]>>
                    ELSE <<>>
       IN IF used = 0 THEN {}
          ELSE {own \o c : c \in Captures(Tail(p), SubSeq(path, used + 1, Len(path)))}

Rank(t) == CASE t.kind = "static" -> 0 [] t.kind = "param" -> 1 [] OTHER -> 2

\* ADR-0004: where two patterns first differ, static beats a parameter beats a
\* wildcard.
Beats(p, q) ==
  \E i \in 1..Min({Len(p), Len(q)}) :
    /\ SubSeq(p, 1, i - 1) = SubSeq(q, 1, i - 1)
    /\ Rank(p[i]) < Rank(q[i])

\* Two patterns cannot both stand: they name the same place differently.
Ambiguous(p, q) ==
  \E i \in 1..Min({Len(p), Len(q)}) :
    /\ SubSeq(p, 1, i - 1) = SubSeq(q, 1, i - 1)
    /\ p[i].kind = q[i].kind /\ Marker(p[i]) /\ p[i] # q[i]
=============================================================================
