-------------------------------- MODULE Edge --------------------------------
(***************************************************************************)
(* One keep-alive connection through the middleware at the edge of an App: *)
(* RealIP, RequestID, CORS, RateLimit, BasicAuth, KeyAuth and Logger, with *)
(* a handler or a Static route inside, request after request, beside Build *)
(* and Shutdown.                                                           *)
(*                                                                         *)
(* fasthttp serves the requests of a connection from one context, whose    *)
(* rewritten remote address outlives the request.  A header of the request *)
(* is chosen when it is first read, and is the same when it is read again. *)
(* What Recover, Timeout and otelrice do to the result is in Dispatch.     *)
(***************************************************************************)
EXTENDS ClientAddress, StaticFiles

CONSTANTS
  AppChains,      \* what the program may have given app.Use, outermost first
  RouteChains,    \* what it may have given a group or a route
  Hops,           \* values of RealIP's trustedHops
  Forwarded,      \* the X-Forwarded-For lines a request may have
  Peer,           \* the connection's own address
  MaxRequests     \* bound: requests on the connection

ASSUME EdgeAssumption ==
  /\ Hops \subseteq Nat \ {0} /\ MaxRequests \in Nat /\ NStatics >= 1
  /\ Peer \in Address /\ Forwarded \subseteq Seq(Seq(Seq(Token)))
  /\ \A h \in Forwarded : \A i \in DOMAIN h : h[i] # <<>>

VARIABLES
  app, hops,      \* the program's choices
  remote,         \* the address SetRemoteAddr left on the connection, or none
  rewritten,      \* history: RealIP ran on the connection
  n,              \* requests so far
  phase, at,      \* "down" the chain, "up" again or "done"; the frame that is next
  req,            \* the request: its chain, its target and what was read of it
  resp, err,      \* the response and the result, 0 for nil
  id, user,       \* RequestID's and the auth middleware's slots of the store
  seen,           \* what Logger recorded
  charged         \* history: clients and the keys they were counted under

connVars == <<remote, rewritten, n>>
vars == <<app, hops, connVars, phase, at, req, resp, err, id, user, seen, charged, staticVars>>

Targets == {"ok", "fail", "bare"} \cup FilePaths
FreshResponse == [status |-> 200, headers |-> {}, location |-> "none", body |-> "none"]
NoRequest == [chain |-> <<>>, target |-> "miss", client |-> NoIP, excepted |-> FALSE,
              origin |-> "none", preflight |-> FALSE, ran |-> {}]
Nothing == [ip |-> NoIP, id |-> "none", status |-> 0]

Init ==
  /\ app \in AppChains /\ hops \in Hops
  /\ remote = NoIP /\ rewritten = FALSE /\ n = 0
  /\ phase = "done" /\ at = 0 /\ req = NoRequest
  /\ resp = FreshResponse /\ err = 0 /\ id = "none" /\ user = "none" /\ seen = Nothing
  /\ charged = {} /\ StaticInit

\* ClientIP, through fasthttp's RemoteIP
ClientIP == IF remote = NoIP THEN Peer ELSE remote
-----------------------------------------------------------------------------
\* handle: the Ctx is reset, the chain is the route's or, on a miss, the
\* application's.  Only a built App has a chain.
handle(miss, route) ==
  /\ build = "done" /\ phase = "done" /\ n < MaxRequests
  /\ n' = n + 1 /\ phase' = "down" /\ at' = 1
  /\ req' = [NoRequest EXCEPT !.target = IF miss THEN "miss" ELSE "route",
               !.chain = IF miss THEN app ELSE app \o route,
               !.excepted = rewritten, !.client = Peer]
  /\ resp' = FreshResponse /\ err' = 0 /\ id' = "none" /\ user' = "none" /\ seen' = Nothing
  /\ UNCHANGED <<app, hops, remote, rewritten, charged, staticVars>>

InFrame(kind) == phase = "down" /\ at \in DOMAIN req.chain /\ req.chain[at] = kind

next == at' = at + 1 /\ UNCHANGED <<phase, err>>
return(e) == phase' = "up" /\ err' = e /\ UNCHANGED at
Ran(kind) == [req EXCEPT !.ran = @ \cup {kind}]
AddHeaders(h) == [resp EXCEPT !.headers = @ \cup h]

\* What RealIP makes of every header, beside what its documentation asks for.
Readings ==
  {[hops |-> h, ip |-> resolve(lines, h), client |-> TrustedClient(lines, h),
    skips |-> SkipsEntry(lines)] : h \in Hops, lines \in Forwarded}

\* Mutant of RealIP: the address is set only when one was resolved.
RealIPWhenResolved(reading) ==
  /\ InFrame("realip") /\ reading.hops = hops
  /\ remote' = IF reading.ip = NoIP THEN remote ELSE reading.ip
  /\ rewritten' = TRUE
  /\ req' = [Ran("realip") EXCEPT !.excepted = reading.skips, !.client =
               IF reading.client = NoIP THEN Peer ELSE reading.client]
  /\ next
  /\ UNCHANGED <<app, hops, n, resp, id, user, seen, charged, staticVars>>

\* RealIP: SetRemoteAddr on every request; nil restores the peer's address.
RealIP(reading) ==
  /\ InFrame("realip") /\ reading.hops = hops
  /\ remote' = reading.ip
  /\ rewritten' = TRUE
  /\ req' = [Ran("realip") EXCEPT !.excepted = reading.skips, !.client =
               IF reading.client = NoIP THEN Peer ELSE reading.client]
  /\ "realip" \in req.ran => req' = req /\ remote' = remote
  /\ next
  /\ UNCHANGED <<app, hops, n, resp, id, user, seen, charged, staticVars>>

\* RequestID: a valid incoming id is kept, any other replaced.
RequestID(valid) ==
  /\ InFrame("requestid")
  /\ id' = IF valid THEN "incoming" ELSE "new"
  /\ resp' = AddHeaders({"X-Request-Id"})
  /\ req' = Ran("requestid") /\ next
  /\ UNCHANGED <<app, hops, connVars, user, seen, charged, staticVars>>

\* compileCORS: the fixed headers of a real response and of a preflight, with
\* every optional field of the configuration given.
RealHeaders == {"Access-Control-Allow-Credentials", "Access-Control-Expose-Headers"}
PreflightHeaders ==
  {"Access-Control-Allow-Methods", "Access-Control-Allow-Headers",
   "Access-Control-Max-Age", "Access-Control-Allow-Credentials"}
AllowOrigin == "Access-Control-Allow-Origin"

\* CORS with matchOrigin and isPreflight; a preflight ends here.
CORS(origin, preflight) ==
  LET allowed == origin = "allowed"
      policy == IF preflight THEN PreflightHeaders ELSE RealHeaders
      told == {"Vary"} \cup IF allowed THEN {AllowOrigin} \cup policy ELSE {} IN
  /\ InFrame("cors")
  /\ preflight => origin # "none"
  /\ "cors" \in req.ran => origin = req.origin /\ preflight = req.preflight
  /\ resp' = [AddHeaders(told) EXCEPT !.status = IF preflight THEN 204 ELSE @]
  /\ req' = [Ran("cors") EXCEPT !.origin = origin, !.preflight = preflight]
  /\ IF preflight THEN return(0) ELSE next
  /\ UNCHANGED <<app, hops, connVars, id, user, seen, charged, staticVars>>

\* RateLimit with the default KeyFunc; the Store is any: it admits, makes the
\* client wait or fails.
RateLimit(take) ==
  /\ InFrame("ratelimit")
  /\ charged' = IF req.excepted THEN charged
                ELSE charged \cup {[client |-> req.client, key |-> clientKey(ClientIP)]}
  /\ resp' = IF take = "wait" THEN AddHeaders({"Retry-After"}) ELSE resp
  /\ req' = Ran("ratelimit")
  /\ CASE take = "ok" -> next [] take = "wait" -> return(429) [] OTHER -> return(500)
  /\ UNCHANGED <<app, hops, connVars, id, user, seen, staticVars>>

\* unauthorized: the challenge, when there is one, and the 401.
unauthorized(challenge) ==
  /\ resp' = IF challenge THEN AddHeaders({"WWW-Authenticate"}) ELSE resp
  /\ return(401)
  /\ UNCHANGED user

\* What Validate makes of credentials that could be read.
Validated(creds, challenge) ==
  CASE creds = "rejected" -> unauthorized(challenge)
    [] creds = "unknown" -> return(500) /\ UNCHANGED <<resp, user>>
    [] OTHER -> next /\ user' = "known" /\ UNCHANGED resp

\* BasicAuth: no credentials, another scheme, no base64 and no colon look alike.
BasicAuth(creds) ==
  /\ InFrame("basicauth")
  /\ req' = Ran("basicauth")
  /\ IF creds = "unreadable" THEN unauthorized(TRUE) ELSE Validated(creds, TRUE)
  /\ UNCHANGED <<app, hops, connVars, id, seen, charged, staticVars>>

\* KeyAuth, with Authorization: Bearer or a header of its own.
KeyAuth(creds, bearer) ==
  LET kind == IF bearer THEN "bearer" ELSE "keyauth" IN
  /\ InFrame(kind)
  /\ req' = Ran(kind)
  /\ IF creds = "unreadable" THEN unauthorized(bearer) ELSE Validated(creds, bearer)
  /\ UNCHANGED <<app, hops, connVars, id, seen, charged, staticVars>>

\* Logger on the way down: it reads the clock.
Logger ==
  /\ InFrame("logger")
  /\ req' = Ran("logger") /\ next
  /\ UNCHANGED <<app, hops, connVars, resp, id, user, seen, charged, staticVars>>

Innermost == phase = "down" /\ at = Len(req.chain) + 1

\* notFound, inside the application's middleware on a miss
notFound ==
  /\ Innermost /\ req.target = "miss"
  /\ return(404)
  /\ UNCHANGED <<app, hops, connVars, req, resp, id, user, seen, charged, staticVars>>

\* The innermost handler of a route: redirectToDir at a bare prefix, a Static
\* route, or the application's own, which answers or fails.
Handler(target, e) ==
  LET out == CASE target = "bare" -> Answer(writeDirRedirect(resp), 0)
               [] target = "ok" -> Answer([resp EXCEPT !.body = "handler"], 0)
               [] target = "fail" -> Answer([resp EXCEPT !.body = "handler"], 500)
               [] OTHER -> serve(e, target, resp)
  IN /\ Innermost /\ req.target = "route"
     /\ target \in FilePaths \/ e = 1
     /\ resp' = out.resp /\ return(out.err)
     /\ req' = [Ran("handler") EXCEPT !.target = target]
     /\ UNCHANGED <<app, hops, connVars, id, user, seen, charged, staticVars>>

\* The way up: the funnel's respond, in Logger or in handle, keeps the headers;
\* Logger then reads the status, the address and the id.
Respond ==
  LET sent == IF err = 0 THEN resp
              ELSE [resp EXCEPT !.status = err, !.body = "funnel"] IN
  /\ phase = "up" /\ phase' = "done"
  /\ resp' = sent
  /\ seen' = IF "logger" \in req.ran
             THEN [ip |-> ClientIP, id |-> id, status |-> sent.status] ELSE seen
  /\ UNCHANGED <<app, hops, connVars, at, req, err, id, user, charged, staticVars>>

Finished == n = MaxRequests /\ phase = "done" /\ UNCHANGED vars

Next ==
  \/ \E miss \in BOOLEAN, route \in RouteChains : handle(miss, route)
  \/ \E reading \in Readings : RealIP(reading)
  \/ \E valid \in BOOLEAN : RequestID(valid)
  \/ \E origin \in {"none", "allowed", "other"}, preflight \in BOOLEAN : CORS(origin, preflight)
  \/ \E take \in {"ok", "wait", "error"} : RateLimit(take)
  \/ \E creds \in {"unreadable", "rejected", "unknown", "good"} :
       BasicAuth(creds) \/ \E bearer \in BOOLEAN : KeyAuth(creds, bearer)
  \/ \E target \in Targets, e \in Statics : Handler(target, e)
  \/ notFound
  \/ Logger \/ Respond \/ Finished
  \/ StaticNext /\ UNCHANGED <<app, hops, connVars, phase, at, req, resp,
                              err, id, user, seen, charged>>

Spec == Init /\ [][Next]_vars
-----------------------------------------------------------------------------
Answered == phase = "done" /\ n > 0

\* A request that RealIP ran on, or on a connection where it never did, is
\* logged under its own address, the entry a trusted proxy wrote in one of the
\* documented shapes, or else the connection's, and under its own id; never what
\* an earlier request of the connection left.  A header with a line after the
\* first that begins with an empty entry is excepted (SkipsEntry), for there the
\* code departs from its comment.  Two requests share a rate limit
\* exactly when they come from one client: an IPv4 address in whatever form, or
\* one IPv6 /64.  A handler behind an auth middleware has the user validated in
\* this request (RealIP, resolve, parseEntry, Logger, RateLimit, clientKey,
\* Validated).
AttributedToClient ==
  /\ Answered /\ "logger" \in req.ran =>
       /\ ~req.excepted => seen.ip = req.client
       /\ "requestid" \in req.ran <=> seen.id # "none"
  /\ \A x, y \in charged : x.key = y.key <=> SameClient(x.client, y.client)
  /\ "handler" \in req.ran /\ req.ran \cap {"basicauth", "keyauth", "bearer"} # {} =>
       user = "known"

\* Every header that a middleware promises is on the response, whatever was
\* inside it: an error the funnel answered, a 304 or an error for which
\* fasthttp reset the response, a redirect, a preflight (CORS, RequestID,
\* RateLimit, unauthorized, serve, respond).
HeadersReachClient ==
  Answered =>
    /\ "cors" \in req.ran =>
         /\ "Vary" \in resp.headers
         /\ AllowOrigin \in resp.headers <=> req.origin = "allowed"
         /\ req.preflight => resp.status = 204 /\ "handler" \notin req.ran
    /\ "requestid" \in req.ran => "X-Request-Id" \in resp.headers
    /\ resp.status = 429 => "Retry-After" \in resp.headers
    /\ resp.status = 401 /\ "keyauth" \notin req.ran => "WWW-Authenticate" \in resp.headers

Wanted(target) ==
  CASE target \in {"noindex", "missing", "nul", "dotdot"} -> 404
    [] target = "noslash" -> 301
    [] OTHER -> FileStatus[target]

\* A Static route's answer is fasthttp's where that stands and the funnel's
\* elsewhere: a directory without an index is answered as if it were not there,
\* no text of fasthttp's reaches the client with an error, and a redirect names
\* the request's own path (serve, staticResult, writeDirRedirect).
FilesAnswered ==
  Answered /\ "handler" \in req.ran /\ req.target \in FilePaths =>
    /\ resp.status = IF \E e \in Statics : cache[e] = "none" THEN 500
                     ELSE Wanted(req.target)
    /\ resp.status >= 400 <=> resp.body = "funnel"
    /\ resp.location = IF resp.status = 301 THEN "own" ELSE "none"
=============================================================================
