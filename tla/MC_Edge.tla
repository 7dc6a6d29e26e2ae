------------------------------ MODULE MC_Edge -------------------------------
EXTENDS Edge

Recommended == <<"logger", "realip", "requestid", "cors", "ratelimit">>

\* Up to two of the recommended chain, in its order, logged requests behind
\* RealIP with a third, and two other orders.
MCAppChains ==
  {SelectSeq(Recommended, LAMBDA k : k \in s) :
     s \in {t \in SUBSET Range(Recommended) :
              Cardinality(t) <= IF {"logger", "realip"} \subseteq t THEN 3 ELSE 2}}
  \cup {<<"ratelimit", "cors", "logger">>, <<"cors", "basicauth">>}
MCRouteChains == {<<>>, <<"realip">>, <<"basicauth">>, <<"keyauth">>, <<"bearer">>}

SeqsOf(S, lo, hi) == UNION {[1..k -> S] : k \in lo..hi}

Text == {"digits", "hex", "quad", "junk"}
Readable(e) == \A i \in 1..(Len(e) - 1) : ~(e[i].kind \in Text /\ e[i + 1].kind \in Text)

\* A digit, a number that is no port and a port in six characters.
Numbers == {Digits(1, 1), Digits(70000, 5), Digits(80, 6)}
One == Digits(1, 1)

\* Every entry of up to four tokens, and the longer shapes with brackets and
\* an IPv4 address written as IPv6.
Entries ==
  {e \in SeqsOf({Open, Shut, Colon, Blank, Junk, Quad(1)} \cup Numbers, 0, 4) : Readable(e)}
  \cup {<<Open>> \o host \o <<Shut>> \o port :
          host \in {<<Colon, Colon, One>>, <<Colon, Colon, Ffff, Colon, Quad(1)>>,
                    <<Quad(1)>>, <<One, Colon, Colon>>, <<Junk>>},
          port \in {<<>>, <<Colon>>, <<Colon, Digits(0, 1)>>, <<One>>}
                    \cup {<<Colon, d>> : d \in Numbers \cup {Digits(80, 5)}}}
  \cup {<<Colon, Colon, Ffff, Colon, Quad(1)>>, <<Colon, Colon, Ffff, Colon, Quad(2)>>,
        <<One, Colon, Colon, One, Colon, Digits(2, 1)>>,
        [i \in 1..15 |-> IF i % 2 = 0 THEN Colon ELSE Digits((i + 1) \div 2, 1)]}

Few == {<<>>, <<Quad(1)>>, <<Quad(2)>>, <<Junk>>}
Lines == SeqsOf(Few, 1, 2)

\* Every entry alone, and every way to spread up to four over two lines.
MCForwarded == {<<<<e>>>> : e \in Entries} \cup SeqsOf(Lines, 0, 2)

MCPeer == V4(9)
=============================================================================
