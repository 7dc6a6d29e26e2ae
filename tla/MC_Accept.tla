----------------------------- MODULE MC_Accept ------------------------------
EXTENDS Accept

Elem(t, s, qs) == [type |-> t, sub |-> s, qs |-> qs]
Half == <<0, Dot, 5>>
Qs == {<<>>, <<<<0>>>>, <<Half>>, <<<<1>>, Half>>, <<<<Other>>, <<1>>>>}
Ranges == {<<"a", "x">>, <<"a", "y">>, <<"a", Star>>, <<Star, Star>>,
           <<Star, "x">>, <<"a", Missing>>}
Elems == {Elem(r[1], r[2], qs) : r \in Ranges, qs \in Qs}
Core == {Elem(r[1], r[2], qs) : r \in {<<"a", "x">>, <<"a", Star>>, <<Star, Star>>},
                                  qs \in {<<>>, <<<<0>>>>, <<Half>>}}

\* Every text of up to six characters as the q of one range; one or two ranges
\* of every kind, on one line or on two; three of the kinds that compete.
ShortTexts == UNION {[1..n -> {0, 1, 5, Dot, Other}] : n \in 0..6}
MCHeaders ==
  {<<>>, <<<<>>>>} \cup {<< <<Elem("a", "x", <<t>>)>> >> : t \in ShortTexts}
  \cup {<< <<e>> >> : e \in Elems} \cup {<< <<e, f>> >> : e, f \in Elems}
  \cup {<< <<>>, <<e>>, <<f>> >> : e, f \in Core}
  \cup {<< <<e, f, g>> >> : e, f, g \in Core}

Offer(t, s) == [type |-> t, sub |-> s]
MCOffers ==
  {<<>>, <<Offer("a", "x")>>, <<Offer("a", "y"), Offer("a", "x")>>,
   <<Offer("a", "x"), Offer("a", "y")>>, <<Offer("b", "x"), Offer("a", "x")>>,
   <<Offer("a", "x"), Offer(Star, "x")>>, <<Offer(Missing, Missing)>>}
=============================================================================
