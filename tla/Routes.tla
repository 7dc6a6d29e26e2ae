------------------------------- MODULE Routes -------------------------------
(***************************************************************************)
(* Registration and Build: App.Use, App.Group, Group.Group, Group.Use,     *)
(* register and build, over the trees of module Router.  A registration    *)
(* that the code rejects panics; the caller may recover and go on.         *)
(*                                                                         *)
(* A middleware is the number of the call that installed it.  Group 0 is   *)
(* the App itself.                                                         *)
(***************************************************************************)
EXTENDS Router

CONSTANT Programs    \* what a program may do, see ProgramsAssumption

\* A program's verbs, each with a tree of its own, the paths it may register,
\* the prefixes it may create groups with, the request paths looked up, and
\* the bounds on its groups, on its Use calls and on its routes.
ASSUME ProgramsAssumption ==
  \A p \in Programs :
    DOMAIN p = {"methods", "patterns", "prefixes", "paths",
                "maxGroups", "maxUses", "maxRoutes"}

VARIABLES
  program,    \* the member of Programs that runs
  mws,        \* App.mws
  groups,     \* the groups: parent, joined prefix, middleware
  routes,     \* App.routes
  trees,      \* App.trees and App.rare
  maxParams,
  built, miss,
  calls,      \* the scope of every Use so far, in call order
  broken      \* Build's insertion failed

vars == <<program, mws, groups, routes, trees, maxParams, built, miss, calls, broken>>

Init ==
  /\ program \in Programs
  /\ mws = <<>> /\ groups = <<>> /\ routes = <<>>
  /\ trees = [m \in program.methods |-> EmptyTree]
  /\ maxParams = 0 /\ built = FALSE /\ miss = <<>>
  /\ calls = <<>> /\ broken = FALSE

Scopes == 0..Len(groups)
PrefixOf(g) == IF g = 0 THEN <<>> ELSE groups[g].prefix

\* A call that installs one middleware in scope g; its number is the next.
Install(g) == calls' = Append(calls, [kind |-> "group", at |-> g])
Fresh == Len(calls) + 1
-----------------------------------------------------------------------------
\* App.Use
Use ==
  /\ ~built /\ Len(calls) < program.maxUses
  /\ Install(0)
  /\ mws' = Append(mws, Fresh)
  /\ UNCHANGED <<program, groups, routes, trees, maxParams, built, miss, broken>>

\* checkGroupPrefix
checkGroupPrefix(prefix) ==
  prefix # <<>> => prefix[1] = Slash /\ Last(prefix) # Slash

\* App.Group and Group.Group
Group(g, prefix) ==
  /\ ~built /\ checkGroupPrefix(prefix) /\ Len(groups) < program.maxGroups
  /\ groups' = Append(groups,
       [parent |-> g, prefix |-> PrefixOf(g) \o prefix, mws |-> <<>>])
  /\ UNCHANGED <<program, mws, routes, trees, maxParams, built, miss, calls, broken>>

\* Group.Use
GroupUse(g) ==
  /\ ~built /\ Len(calls) < program.maxUses
  /\ Install(g)
  /\ groups' = [groups EXCEPT ![g].mws = Append(@, Fresh)]
  /\ UNCHANGED <<program, mws, routes, trees, maxParams, built, miss, broken>>

\* checkGroupPath; on the App itself there is none and parsePattern decides.
checkGroupPath(g, path) ==
  g > 0 => IF path = <<>> THEN PrefixOf(g) # <<>> ELSE path[1] = Slash

\* register: a rejected pattern panics and adds no route.  A route may bring a
\* middleware of its own.
register(g, m, path, own) ==
  LET p == PrefixOf(g) \o path
      t == Insert(trees[m], p, [pattern |-> p, chain |-> <<>>])
      ok == t.err = "" IN
  /\ ~built /\ checkGroupPath(g, path) /\ Len(routes) < program.maxRoutes
  /\ own => ok /\ Len(calls) < program.maxUses
  /\ trees' = [trees EXCEPT ![m] = t.node]
  /\ maxParams' = IF ok THEN Max({maxParams, CountParams(p)}) ELSE maxParams
  /\ routes' = IF ok
       THEN Append(routes, [method |-> m, path |-> p, group |-> g,
                            mws |-> IF own THEN <<Fresh>> ELSE <<>>])
       ELSE routes
  /\ calls' = IF own THEN Append(calls, [kind |-> "route", at |-> Len(routes) + 1])
              ELSE calls
  /\ UNCHANGED <<program, mws, groups, built, miss, broken>>
-----------------------------------------------------------------------------
\* Mutant of groupChain: not reversed.
groupChainInnermostFirst(g) ==
  LET up[i \in 0..Len(groups)] ==
        IF i = 0 THEN <<>> ELSE <<i>> \o up[groups[i].parent]
  IN up[g]

\* groupChain: from the root group down to g.
groupChain(g) ==
  LET up[i \in 0..Len(groups)] ==
        IF i = 0 THEN <<>> ELSE <<i>> \o up[groups[i].parent]
  IN Reverse(up[g])

\* middlewareFor
middlewareFor(r) ==
  mws \o FoldLeft(LAMBDA acc, g : acc \o groups[g].mws, <<>>, groupChain(r.group))
      \o r.mws

\* build: new trees, each route inserted again with its compiled chain.
build ==
  /\ ~built
  /\ built' = TRUE
  /\ miss' = mws
  /\ LET Add(acc, r) ==
           LET t == Insert(acc.trees[r.method], r.path,
                      [pattern |-> r.path, chain |-> middlewareFor(r)])
           IN [trees |-> [acc.trees EXCEPT ![r.method] = t.node],
               ok |-> acc.ok /\ t.err = ""]
         done == FoldLeft(Add, [trees |-> [m \in program.methods |-> EmptyTree],
                                ok |-> TRUE], routes)
     IN /\ trees' = done.trees
        /\ broken' = ~done.ok
  /\ UNCHANGED <<program, mws, groups, routes, maxParams, calls>>

Serving == built /\ UNCHANGED vars

Next ==
  \/ Use \/ build \/ Serving
  \/ \E g \in Scopes, prefix \in program.prefixes : Group(g, prefix)
  \/ \E g \in 1..Len(groups) : GroupUse(g)
  \/ \E g \in Scopes, m \in program.methods, path \in program.patterns, own \in BOOLEAN :
       register(g, m, path, own)

Spec == Init /\ [][Next]_vars
-----------------------------------------------------------------------------
Labels == 1..Len(calls)

Registered(m) == {routes[i].path : i \in {j \in DOMAIN routes : routes[j].method = m}}
Found(m, path) == lookup(trees[m], path, Search)

\* Lookup finds the registered pattern that captures the path and beats every
\* other that does, with exactly that pattern's captures and none of a branch it
\* abandoned, and a miss leaves params empty, whatever the order of registration
\* and the splits it caused; at no time, inside an abandoned branch either, does
\* it hold more params than the maxParams a pooled Ctx is sized for (tree.insert,
\* insertStatic, node.lookup, Params, newCtx).
LookupIsBest ==
  built => \A m \in program.methods, path \in program.paths :
    LET f == Found(m, path)
        fits == {p \in Registered(m) : Captures(p, path) # {}} IN
    /\ f.peak <= maxParams
    /\ IF fits = {} THEN f.h = <<>> /\ f.params = <<>>
       ELSE LET p == f.h[1].pattern IN
            /\ f.h # <<>> /\ p \in fits
            /\ f.params \in Captures(p, path)
            /\ \A q \in fits \ {p} : Beats(p, q)

\* A registration is accepted exactly when its pattern parses, is new and names
\* no place another route names differently; a rejected one leaves nothing that
\* changes a later answer or makes Build's second insertion of the routes
\* panic, which its comment calls unreachable (Tree.Insert, register, build).
AcceptsUnambiguous ==
  /\ ~broken
  /\ ~built => \A m \in program.methods, p \in program.patterns :
       (Insert(trees[m], p, [pattern |-> p, chain |-> <<>>]).err = "")
         <=> /\ Parses(p) /\ p \notin Registered(m)
             /\ \A q \in Registered(m) : ~Ambiguous(p, q)

Depth(g) == Len(groupChain(g))
Within(i) == {0, routes[i].group} \cup
  {g \in DOMAIN groups : \E k \in DOMAIN groupChain(routes[i].group) :
     groupChain(routes[i].group)[k] = g}

RouteChainIsScoped(i) ==
  LET Scope(l) == IF calls[l].kind = "route" THEN Len(groups) + 1
                  ELSE Depth(calls[l].at)
      own == {l \in Labels : IF calls[l].kind = "route" THEN calls[l].at = i
                             ELSE calls[l].at \in Within(i)}
      entry == Found(routes[i].method, [k \in DOMAIN routes[i].path |->
                       routes[i].path[k].text])
  IN (\A k \in DOMAIN routes[i].path : ~Marker(routes[i].path[k])) =>
       entry.h[1].chain = SetToSortSeq(own, LAMBDA x, y :
         Scope(x) < Scope(y) \/ (Scope(x) = Scope(y) /\ x < y))

\* The chain of a route is every middleware installed before Build on the App,
\* on its group, on the groups around it and on itself, outermost scope first
\* and in call order within a scope, however the calls were interleaved with
\* the registration; a miss runs the App's and no other (Use, Group.Use,
\* middlewareFor, groupChain, build).
ChainIsScoped ==
  built =>
    /\ miss = SelectSeq([l \in Labels |-> l],
                        LAMBDA l : calls[l] = [kind |-> "group", at |-> 0])
    /\ \A i \in DOMAIN routes : RouteChainIsScoped(i)
=============================================================================
