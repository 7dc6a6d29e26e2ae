---------------------------- MODULE StaticFiles -----------------------------
(***************************************************************************)
(* Static: the file handlers Build makes, the cache goroutine each starts, *)
(* stopStatic, and what a Static route answers around fasthttp's handler.  *)
(*                                                                         *)
(* A response is its status, the names of the headers on it, the Location  *)
(* if there is one, and who wrote the body.                                *)
(***************************************************************************)
EXTENDS Naturals, FiniteSets

CONSTANT NStatics      \* how many Static calls the program made
ASSUME StaticsAssumption == NStatics \in Nat

VARIABLES
  build,           \* App.Build: "no", "busy" inside it, "done"
  skip,            \* what build read of staticStopped
  staticStopped,
  shutdownOnce,    \* the sync.Once of runShutdown is used up, or being used
  stopping,        \* the entry stopStatic is at: 0 before it, NStatics + 1 after
  cache,           \* each entry's goroutine: none, running, stopped, crashed
  overlapped       \* a Shutdown stopped caches during Build, which app.go
                   \* excludes

staticVars == <<build, skip, staticStopped, shutdownOnce, stopping, cache, overlapped>>

Statics == 1..NStatics
Stopping == stopping \in Statics

StaticTypeOK ==
  /\ build \in {"no", "busy", "done"} /\ stopping \in 0..(NStatics + 1)
  /\ skip \in BOOLEAN /\ staticStopped \in BOOLEAN
  /\ shutdownOnce \in BOOLEAN /\ overlapped \in BOOLEAN
  /\ cache \in [Statics -> {"none", "running", "stopped", "crashed"}]

StaticInit ==
  /\ build = "no" /\ skip = FALSE /\ staticStopped = FALSE /\ shutdownOnce = FALSE
  /\ stopping = 0
  /\ cache = [e \in Statics |-> "none"] /\ overlapped = FALSE
-----------------------------------------------------------------------------
\* Mutant of BuildBegin: Build does not look at staticStopped.
BuildBeginAnyway ==
  /\ build = "no" /\ build' = "busy"
  /\ skip' = FALSE
  /\ overlapped' = (overlapped \/ Stopping)
  /\ UNCHANGED <<staticStopped, shutdownOnce, stopping, cache>>

\* build, which buildOnce runs once: it reads staticStopped and then makes the
\* entries one by one.
BuildBegin ==
  /\ build = "no" /\ build' = "busy"
  /\ skip' = staticStopped
  /\ overlapped' = (overlapped \/ Stopping)
  /\ UNCHANGED <<staticStopped, shutdownOnce, stopping, cache>>

\* staticEntry.build: the handler and its cache goroutine.
BuildEntry(e) ==
  /\ build = "busy" /\ ~skip /\ cache[e] = "none"
  /\ \A f \in 1..(e - 1) : cache[f] # "none"
  /\ cache' = [cache EXCEPT ![e] = "running"]
  /\ UNCHANGED <<build, skip, staticStopped, shutdownOnce, stopping, overlapped>>

BuildEnd ==
  /\ build = "busy" /\ build' = "done"
  /\ skip \/ \A e \in Statics : cache[e] # "none"
  /\ UNCHANGED <<skip, staticStopped, shutdownOnce, stopping, cache, overlapped>>

\* stopStatic begins.
StopBegin ==
  /\ shutdownOnce' = TRUE /\ stopping' = 1
  /\ staticStopped' = TRUE
  /\ overlapped' = (overlapped \/ build = "busy")
  /\ UNCHANGED <<build, skip, cache>>

\* Mutant of runShutdown: every Shutdown calls stopStatic.
runShutdownAlways == ~Stopping /\ StopBegin

\* runShutdown, of any Shutdown call: shutdownOnce.Do waits while another call
\* is inside, and does nothing once one has been.
runShutdown ==
  /\ ~Stopping
  /\ IF shutdownOnce THEN UNCHANGED staticVars ELSE StopBegin

\* close(e.stop), if build made it; closing a closed channel panics.
StopEntry ==
  /\ Stopping /\ stopping' = stopping + 1
  /\ cache' = [cache EXCEPT ![stopping] =
       CASE @ = "none" -> "none" [] @ = "running" -> "stopped"
         [] OTHER -> "crashed"]
  /\ UNCHANGED <<build, skip, staticStopped, shutdownOnce, overlapped>>

StaticNext ==
  \/ BuildBegin \/ BuildEnd \/ runShutdown \/ StopEntry
  \/ \E e \in Statics : BuildEntry(e)
-----------------------------------------------------------------------------
\* fasthttp's file handler (external), by what the path names: a file, part of
\* it, one unchanged since If-Modified-Since, a directory without its slash or
\* without an index, nothing, a range outside the file, a file it cannot read.
\* A 304 and an error reset the response; a redirect has lost the prefix.
FileStatus ==
  [file |-> 200, part |-> 206, unchanged |-> 304, noslash |-> 302,
   noindex |-> 403, missing |-> 404, badrange |-> 416, unreadable |-> 500]

FileHandler(r, path) ==
  LET code == FileStatus[path] IN
  [status |-> code, body |-> "fasthttp",
   location |-> IF code = 302 THEN "rewritten" ELSE "none",
   headers |-> IF code = 304 \/ code >= 400 THEN {} ELSE r.headers]

\* writeDirRedirect
writeDirRedirect(r) ==
  [r EXCEPT !.status = 301, !.location = "own", !.body = "none"]

Answer(r, err) == [resp |-> r, err |-> err]

\* staticResult; an error is the status it carries, 0 is nil.
staticResult(r) ==
  CASE r.status = 302 -> Answer(writeDirRedirect(r), 0)
    [] r.status \in {404, 403} -> Answer(r, 404)
    [] r.status >= 400 /\ r.status \notin {404, 403} -> Answer(r, r.status)
    [] OTHER -> Answer(r, 0)

\* serve's saved headers put back, with the status fasthttp wrote.
Restored(saved, r) == [saved EXCEPT !.status = r.status, !.body = r.body]

\* What serve refuses before fasthttp sees it: a path with a NUL byte, or with a
\* segment that is "..".  What hasDotDotSegment finds is taken as found.
Refused(path) == path \in {"nul", "dotdot"}

\* Mutant of serve: only the headers of an error response are put back.
serveErrorsOnly(e, path, r) ==
  LET served == FileHandler(r, path)
      restore == r.headers # {} /\ served.status >= 400
  IN IF cache[e] = "none" THEN Answer(r, 500)
     ELSE IF Refused(path) THEN Answer(r, 404)
     ELSE staticResult(IF restore THEN Restored(r, served) ELSE served)

\* Mutant of serve: the saved status is put back too.
serveSavedStatus(e, path, r) ==
  LET served == FileHandler(r, path)
      restore == r.headers # {} /\ served.status \notin 200..299
  IN IF cache[e] = "none" THEN Answer(r, 500)
     ELSE IF Refused(path) THEN Answer(r, 404)
     ELSE staticResult(IF restore THEN [r EXCEPT !.body = "fasthttp"] ELSE served)

\* staticEntry.serve
serve(e, path, r) ==
  LET served == FileHandler(r, path)
      restore == r.headers # {} /\ served.status \notin 200..299
  IN IF cache[e] = "none" THEN Answer(r, 500)
     ELSE IF Refused(path) THEN Answer(r, 404)
     ELSE staticResult(IF restore THEN Restored(r, served) ELSE served)

FilePaths == DOMAIN FileStatus \cup {"nul", "dotdot"}
-----------------------------------------------------------------------------
\* Shutdown leaves no cache goroutine behind and closes each channel once,
\* whether Build came before it, after it or never, and however often it is
\* called, unless it overlapped Build (build, stopStatic, runShutdown).
CachesStopped ==
  ~overlapped =>
    /\ \A e \in Statics : cache[e] # "crashed"
    /\ shutdownOnce /\ ~Stopping => \A e \in Statics : cache[e] # "running"
=============================================================================
