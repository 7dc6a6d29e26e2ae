--------------------------- MODULE ClientAddress ----------------------------
(***************************************************************************)
(* How RealIP reads X-Forwarded-For, and the key the rate limiter makes of *)
(* an address.                                                             *)
(*                                                                         *)
(* A header line is the sequence of its comma-separated entries, an entry  *)
(* a sequence of tokens.  An address is its eight 16-bit groups, the form  *)
(* net.IP has after ParseIP; a dotted quad is the last two of them.        *)
(***************************************************************************)
EXTENDS Naturals, FiniteSets, SequencesExt, FiniteSetsExt

Tok(kind, value) == [kind |-> kind, value |-> value, width |-> 0]
Open == Tok("[", 0)
Shut == Tok("]", 0)
Colon == Tok(":", 0)
Blank == Tok("blank", 0)       \* a space or a tab
Junk == Tok("junk", 0)         \* text that is no address, group or port
Digits(n, w) == [kind |-> "digits", value |-> n, width |-> w]  \* n in w digits
Ffff == Tok("hex", 65535)      \* the group ffff
Quad(n) == Tok("quad", n)      \* a dotted IPv4 address
Token == [kind : STRING, value : Nat, width : Nat]

Address == [1..8 -> Nat]
NoIP == <<>>
V4(n) == <<0, 0, 0, 0, 0, 65535, n, n>>
-----------------------------------------------------------------------------
\* net.ParseIP (external): a quad, eight groups, or fewer with one ellipsis
\* that stands for at least one group; a quad may end an IPv6 address.
IsGroup(x) == x.kind = "hex" \/ (x.kind = "digits" /\ x.width \in 1..4)

IsFields(t) ==
  t = <<>> \/ /\ Len(t) % 2 = 1
              /\ \A i \in DOMAIN t :
                   IF i % 2 = 0 THEN t[i] = Colon
                   ELSE IsGroup(t[i]) \/ (i = Len(t) /\ t[i].kind = "quad")

Groups(t) ==
  FoldLeft(LAMBDA acc, x : acc \o CASE x = Colon -> <<>>
                                    [] x.kind = "quad" -> <<x.value, x.value>>
                                    [] OTHER -> <<x.value>>, <<>>, t)

ParseIP(t) ==
  LET Before(i) == SubSeq(t, 1, i - 1)
      After(i) == SubSeq(t, i + 2, Len(t))
      Zeros(i) == 8 - Len(Groups(Before(i))) - Len(Groups(After(i)))
      ellipsis == {i \in 1..(Len(t) - 1) :
        /\ t[i] = Colon /\ t[i + 1] = Colon
        /\ IsFields(Before(i)) /\ IsFields(After(i))
        /\ \A j \in DOMAIN Before(i) : t[j].kind # "quad"
        /\ Zeros(i) >= 1}
  IN CASE Len(t) = 1 /\ Head(t).kind = "quad" -> V4(Head(t).value)
       [] ellipsis # {} ->
            LET i == CHOOSE j \in ellipsis : TRUE IN
            Groups(Before(i)) \o [z \in 1..Zeros(i) |-> 0] \o Groups(After(i))
       [] ellipsis = {} /\ IsFields(t) /\ Len(Groups(t)) = 8 -> Groups(t)
       [] OTHER -> NoIP
-----------------------------------------------------------------------------
\* bytes.Trim with spaces and tabs
Trimmed(entry) ==
  LET text == {i \in DOMAIN entry : entry[i] # Blank} IN
  IF text = {} THEN <<>> ELSE SubSeq(entry, Min(text), Max(text))

Places(entry, tok) == {i \in DOMAIN entry : entry[i] = tok}

\* validPort: digits only, at most five, leading zeros or not
Ports == 1..65535
validPort(p) ==
  /\ Len(p) = 1 /\ Head(p).kind = "digits"
  /\ Head(p).width \in 1..5 /\ Head(p).value \in Ports

\* validPortSuffix
validPortSuffix(rest) == rest = <<>> \/ (Head(rest) = Colon /\ validPort(Tail(rest)))

\* The branch of parseEntry for an entry that begins with a bracket.
Bracketed(e) ==
  LET end == Min(Places(e, Shut))
      host == SubSeq(e, 2, end - 1)
  IN IF /\ Places(e, Shut) # {}
        /\ validPortSuffix(SubSeq(e, end + 1, Len(e)))
        /\ Places(host, Colon) # {}
     THEN ParseIP(host) ELSE NoIP

\* The branch for one colon: an IPv4 address and a port.
WithPort(e) ==
  LET i == Min(Places(e, Colon)) IN
  IF validPort(SubSeq(e, i + 1, Len(e))) THEN ParseIP(SubSeq(e, 1, i - 1)) ELSE NoIP

\* parseEntry
parseEntry(entry) ==
  LET e == Trimmed(entry) IN
  CASE e # <<>> /\ Head(e) = Open -> Bracketed(e)
    [] Cardinality(Places(e, Colon)) = 1 /\ Head(e) # Open -> WithPort(e)
    [] OTHER -> ParseIP(e)

\* resolve walks the entries from the right.  Cutting a line at its last comma
\* stops at the empty text, so a line's first entry is not met when it is empty.
resolve(lines, trustedHops) ==
  LET Visit(entry, s) ==
        CASE s.seen = trustedHops -> s
          [] s.seen + 1 < trustedHops -> [s EXCEPT !.seen = @ + 1]
          [] OTHER -> [seen |-> trustedHops, ip |-> parseEntry(entry)]
      Walk(line, s) ==
        FoldRight(Visit, IF Head(line) = <<>> THEN Tail(line) ELSE line, s)
  IN FoldRight(Walk, lines, [seen |-> 0, ip |-> NoIP]).ip
-----------------------------------------------------------------------------
\* net.IP.To4 is not nil (external)
IsV4(ip) == Len(ip) = 8 /\ SubSeq(ip, 1, 6) = <<0, 0, 0, 0, 0, 65535>>

\* clientKey; what is no IP address at all has the key of zeros.
clientKey(ip) ==
  CASE IsV4(ip) -> ip
    [] ~IsV4(ip) /\ Len(ip) = 8 -> SubSeq(ip, 1, 4) \o <<0, 0, 0, 0>>
    [] OTHER -> [i \in 1..8 |-> 0]
-----------------------------------------------------------------------------
\* What the documentation of RealIP promises, as a grammar: an entry is an
\* address, an IPv4 address with a port, or an IPv6 address in brackets with
\* or without one.
Written(entry) ==
  LET e == Trimmed(entry)
      Port(p) == /\ p = <<Digits(p[1].value, p[1].width)>>
                 /\ p[1].width \in 1..5 /\ p[1].value \in Ports
      V6(t) == ParseIP(t) # NoIP /\ Colon \in Range(t)
      Part(i, j) == SubSeq(e, i, j)
      n == Len(e)
  IN {ParseIP(e)} \cup
     {V4(q.value) : q \in {r \in Range(e) : r.kind = "quad" /\ n = 3
                            /\ Part(1, 2) = <<r, Colon>> /\ Port(Part(3, 3))}} \cup
     {ParseIP(Part(2, j - 1)) : j \in {k \in 3..n :
         /\ e[1] = Open /\ e[k] = Shut /\ V6(Part(2, k - 1))
         /\ k = n \/ (k = n - 2 /\ e[n - 1] = Colon /\ Port(Part(n, n)))}}

\* The address hops entries from the right, where an empty entry counts as a
\* position, or none: with fewer entries than that, or an entry outside the
\* grammar.
TrustedClient(lines, hops) ==
  LET entries == FlattenSeq(lines)
      at == Len(entries) + 1 - hops
  IN IF at < 1 THEN NoIP
     ELSE LET read == Written(entries[at]) \ {NoIP} IN
          IF read = {} THEN NoIP ELSE CHOOSE ip \in read : TRUE

\* The headers where resolve and its comment count differently: a line after
\* the first begins with an empty entry, which resolve does not meet.  In the
\* first line it makes no difference, for nothing is left of it.
SkipsEntry(lines) == \E i \in 2..Len(lines) : Head(lines[i]) = <<>>

\* Two addresses of one client of the rate limiter: an IPv4 address is a
\* client, in whatever form it is written; so is an IPv6 /64.
SameClient(a, b) ==
  /\ IsV4(a) <=> IsV4(b)
  /\ \A i \in 1..(IF IsV4(a) THEN 8 ELSE 4) : a[i] = b[i]
=============================================================================
