------------------------------- MODULE Accept -------------------------------
(***************************************************************************)
(* Content negotiation: Ctx.Accepts chooses among the offers by the Accept *)
(* lines of the request and adds Vary: Accept to the response.             *)
(*                                                                         *)
(* An Accept line is the sequence of its elements, a blank line being      *)
(* empty; an element is a media range and the texts of its q parameters.   *)
(* A text is a sequence of characters: 0 to 9, Dot or Other.               *)
(***************************************************************************)
EXTENDS Naturals, Sequences, SequencesExt

CONSTANTS
  Headers,     \* the Accept lines a request may have
  OfferLists,  \* the offers a handler may pass
  OtherVary,   \* what middleware and handlers add to Vary themselves
  MaxVary      \* how many Vary tokens are followed

Dot == 10
Other == 11
Chars == 0..Other
Texts == Seq(Chars)
Star == "*"
Missing == "missing"   \* no type, or no subtype

MediaType == [type : STRING, sub : STRING]
MediaRange == [type : STRING, sub : STRING, qs : Seq(Texts)]

ASSUME AcceptAssumption ==
  /\ Headers \subseteq Seq(Seq(MediaRange)) /\ OfferLists \subseteq Seq(MediaType)
  /\ "Accept" \notin OtherVary /\ MaxVary \in Nat

VARIABLES
  accepts,  \* the request's Accept lines
  vary,     \* the tokens of the response's Vary lines
  asked,    \* the offers of the last call
  answer    \* what it returned

vars == <<accepts, vary, asked, answer>>

None == [kind |-> "none"]
Panic == [kind |-> "panic"]
Chose(o) == [kind |-> "offer", offer |-> o]

Init ==
  /\ accepts \in Headers
  /\ vary = <<>> /\ asked = <<>> /\ answer = None
-----------------------------------------------------------------------------
Invalid == [ok |-> FALSE, q |-> 0]
Thousandths(n) == [ok |-> TRUE, q |-> n]

\* parseFraction: at most three digits reach it.
parseFraction(d) ==
  IF \E i \in DOMAIN d : d[i] > 9 THEN Invalid
  ELSE Thousandths(FoldLeft(LAMBDA acc, c : [q |-> acc.q + c * acc.mul, mul |-> acc.mul \div 10],
                            [q |-> 0, mul |-> 100], d).q)

\* parseQ
parseQ(b) ==
  IF Len(b) = 0 \/ Len(b) > 5 THEN Invalid
  ELSE IF b[1] = Dot
    THEN IF Len(b) = 1 \/ Len(b) > 4 THEN Invalid ELSE parseFraction(Tail(b))
  ELSE IF Len(b) > 1 /\ b[2] # Dot THEN Invalid
  ELSE IF b[1] = 0 THEN parseFraction(SubSeq(b, 3, Len(b)))
  ELSE IF b[1] = 1 /\ \A i \in 3..Len(b) : b[i] = 0 THEN Thousandths(1000)
  ELSE Invalid

\* The q parameters of an element: an invalid one spoils it, the last counts.
Quality(qs) ==
  FoldLeft(LAMBDA acc, t : IF acc.ok THEN parseQ(t) ELSE acc, Thousandths(1000), qs)

\* How specific a range is for an offer, 0 when it does not match.
Specificity(e, o) ==
  IF Missing \in {e.type, e.sub} THEN 0
  ELSE IF e.type = Star THEN (IF e.sub = Star THEN 1 ELSE 0)
  ELSE IF e.type # o.type THEN 0
  ELSE IF e.sub = Star THEN 2
  ELSE IF e.sub = o.sub THEN 3
  ELSE 0

\* matchRange
matchRange(e, o) ==
  LET q == Quality(e.qs) IN
  IF q.ok THEN [spec |-> Specificity(e, o), q |-> q.q] ELSE [spec |-> 0, q |-> 0]

\* Mutant of offerQuality: the last of the most specific ranges counts.
offerQualityLast(lines, o) ==
  FoldLeft(LAMBDA acc, e : LET m == matchRange(e, o) IN
             IF m.spec > 0 /\ m.spec >= acc.spec THEN m ELSE acc,
           [spec |-> 0, q |-> 0], FlattenSeq(lines)).q

\* offerQuality: the first of the most specific ranges, over every line.
offerQuality(lines, o) ==
  FoldLeft(LAMBDA acc, e : LET m == matchRange(e, o) IN
             IF m.spec > acc.spec THEN m ELSE acc,
           [spec |-> 0, q |-> 0], FlattenSeq(lines)).q

\* splitOffer does not panic.
splitOffer(o) == {o.type, o.sub} \cap {Missing, Star} = {}

\* negotiate: every offer is validated; without an Accept line the first is the
\* answer, else the first of the highest quality above 0.
negotiate(lines, offers) ==
  LET present == \E i \in DOMAIN lines : lines[i] # <<>>
      Look(acc, o) ==
        IF acc.best = Panic THEN acc
        ELSE IF ~splitOffer(o) THEN [acc EXCEPT !.best = Panic]
        ELSE IF ~present
          THEN IF acc.best = None THEN [acc EXCEPT !.best = Chose(o)] ELSE acc
        ELSE IF acc.q = 1000 THEN acc
        ELSE LET q == offerQuality(lines, o) IN
             IF q > acc.q THEN [best |-> Chose(o), q |-> q] ELSE acc
  IN FoldLeft(Look, [best |-> None, q |-> 0], offers).best

\* Mutant of addVaryAccept: without a look at what is there.
addVaryAcceptAlways(tokens) == Append(tokens, "Accept")

\* addVaryAccept
addVaryAccept(tokens) ==
  IF \E i \in DOMAIN tokens : tokens[i] \in {Star, "Accept"}
    THEN tokens ELSE Append(tokens, "Accept")
-----------------------------------------------------------------------------
\* Ctx.Accepts; a panic leaves before Vary is written.
Accepts(offers) ==
  /\ asked' = offers
  /\ answer' = negotiate(accepts, offers)
  /\ vary' = IF answer' = Panic THEN vary ELSE addVaryAccept(vary)
  /\ UNCHANGED accepts

\* CORS or a handler adds a Vary line of its own.
AddVary(token) ==
  /\ Len(vary) < MaxVary
  /\ vary' = Append(vary, token)
  /\ UNCHANGED <<accepts, asked, answer>>

Next ==
  \/ \E offers \in OfferLists : Accepts(offers)
  \/ \E token \in OtherVary : AddVary(token)

Spec == Init /\ [][Next]_vars
-----------------------------------------------------------------------------
\* The qvalues of RFC 9110, and those without a leading zero: an integer part,
\* at most three decimals, at most 1.
Decimals == UNION {[1..n -> 0..9] : n \in 0..3}
Value(n, f) ==
  LET Place(i, unit) == IF i \in DOMAIN f THEN f[i] * unit ELSE 0 IN
  n * 1000 + Place(1, 100) + Place(2, 10) + Place(3, 1)
Spells(t, n, f) ==
  \/ f = <<>> /\ t = <<n>>
  \/ t = <<n, Dot>> \o f
  \/ n = 0 /\ f # <<>> /\ t = <<Dot>> \o f

\* The values t spells, none when it is not a qvalue; its decimals end it.
RefQ(t) ==
  LET ends == {SubSeq(t, k, Len(t)) : k \in 1..(Len(t) + 1)}
      spelled == {p \in {0, 1} \X (ends \cap Decimals) : Spells(t, p[1], p[2])}
  IN {Value(p[1], p[2]) : p \in spelled} \cap 0..1000

Elements == FlattenSeq(accepts)
\* The ranges that count for an offer: well formed, all their q valid.
Counting(o) ==
  {i \in DOMAIN Elements :
     /\ Specificity(Elements[i], o) > 0
     /\ \A j \in DOMAIN Elements[i].qs : RefQ(Elements[i].qs[j]) # {}}
\* The first of the most specific of them.
Governs(o, i) ==
  /\ i \in Counting(o)
  /\ \A j \in Counting(o) :
       LET si == Specificity(Elements[i], o)
           sj == Specificity(Elements[j], o)
       IN si > sj \/ (si = sj /\ i <= j)
Weight(o) ==
  IF Counting(o) = {} THEN 0
  ELSE LET qs == Elements[CHOOSE i \in Counting(o) : Governs(o, i)].qs IN
       IF qs = <<>> THEN 1000 ELSE CHOOSE v \in RefQ(Last(qs)) : TRUE

\* Accepts returns the first offer of the greatest weight RFC 9110 gives it,
\* provided that is above 0; without an Accept line the first offer.  Whether it
\* panics instead depends on the offers alone, so a bad one cannot hide behind a
\* header (negotiate, offerQuality, matchRange, parseQ, splitOffer).
ChoiceIsPreferred ==
  /\ answer = Panic <=> \E i \in DOMAIN asked : ~splitOffer(asked[i])
  /\ answer # Panic /\ asked # <<>> =>
    IF Elements = <<>> THEN answer = Chose(asked[1])
    ELSE \/ /\ answer = None
            /\ \A i \in DOMAIN asked : Weight(asked[i]) = 0
         \/ \E i \in DOMAIN asked :
              /\ answer = Chose(asked[i]) /\ Weight(asked[i]) > 0
              /\ \A j \in DOMAIN asked :
                   Weight(asked[j]) < Weight(asked[i])
                     \/ (j >= i /\ Weight(asked[j]) = Weight(asked[i]))

\* Vary names Accept, or *, once a call returned, and Accepts never writes it
\* twice, in whatever order the handler and CORS add to Vary and Accepts is
\* called; a SetHeader that replaces Vary afterwards is left out (addVaryAccept).
VaryTold ==
  /\ asked # <<>> /\ answer # Panic => Range(vary) \cap {Star, "Accept"} # {}
  /\ \A i, j \in DOMAIN vary : vary[i] = "Accept" /\ vary[j] = "Accept" => i = j
=============================================================================
