------------------------------ MODULE Requests ------------------------------
(***************************************************************************)
(* A request on its way through the layers of the application              *)
(* (api/middleware.py: CORS, request id, access log, upload limit, routes) *)
(* and back: who may answer it, how much of an upload is read, which id    *)
(* the answer, the error envelope and the log entry carry.  The skills it  *)
(* may ask for are those that Skills has loaded; what the extraction does  *)
(* is how it ends.  The context variables of a request are its task's own, *)
(* so that one request at a time is enough.                                *)
(***************************************************************************)
EXTENDS Skills

CONSTANTS
  Arrivals,      \* bound: the requests that may come
  Limit,         \* Settings.max_pdf_bytes
  Allowance,     \* _MULTIPART_OVERHEAD_ALLOWANCE_BYTES
  ChunkSize,     \* _CHUNK_SIZE
  MaxRequests    \* bound: how many come

ASSUME RequestsAssumption ==
  Limit \in Nat \ {0} /\ Allowance \in Nat /\ ChunkSize \in Nat \ {0} /\ MaxRequests \in Nat

\* What a client may send: a POST of an extraction (or with a trailing slash), GET
\* /ready, another request or a preflight; X-Request-ID with or without its form;
\* one Content-Length, chunks, or two lengths; a form that validates or does not.
ASSUME ArrivalsAssumption ==
  Arrivals \subseteq
    [kind : {"extract", "extract/", "ready", "other", "preflight"}, client : {"hex", "other", "none"},
     framing : {"length", "chunked", "ambiguous"}, pdf : Nat, overhead : Nat, valid : BOOLEAN,
     skill : STRING, version : STRING]

VARIABLES
  served,     \* how many requests have come
  req,        \* the request: kind, client id, framing, pdf and overhead bytes, form, skill, version
  depth,      \* the layer it is at; 0 is the server
  way,        \* "in", "read" (the upload), "service" or "out"
  buffer,     \* the bytes of the upload that were read
  bound,      \* the request id in the context variables
  stateId,    \* request.state.request_id
  result,     \* the response or the exception on its way out
  accessLog,  \* the entries of the access log for this request
  warned      \* SkillManifest._empty_warning_logged
requestVars == <<served, req, depth, way, buffer, bound, stateId, result, accessLog, warned>>
vars == <<skillVars, requestVars>>

NoId == <<0, "none">>
Unknown == -1   \* _UNKNOWN_CONTENT_LENGTH

\* Mutant of Stack: two add_middleware calls have changed places.
StackLogFirst == <<"cors", "access_log", "request_id", "upload_limit", "routes">>

\* configure_middleware adds them in the reverse order, each around those before.
Stack == <<"cors", "request_id", "access_log", "upload_limit", "routes">>
At(layer) == depth > 0 /\ Stack[depth] = layer

Response(code, id, actual) ==
  [kind |-> "response", code |-> code, header |-> NoId, envelope |-> id, actual |-> actual]
Raised(exception) ==
  [kind |-> exception, code |-> "none", header |-> NoId, envelope |-> NoId, actual |-> 0]
Pending == Raised("pending")

\* A layer turns the request back with an answer.
Return(answer) == way' = "out" /\ result' = answer
Descend == depth' = depth + 1 /\ UNCHANGED <<way, result>>
Ascend == depth' = depth - 1

Is(kind) == req.kind = kind
Upload == req.kind \in {"extract", "extract/"}

----------------------------------------------------------------------------
RequestInit ==
  /\ served = 0 /\ req = [kind |-> "none"] /\ depth = 0 /\ way = "out" /\ buffer = 0
  /\ bound = NoId /\ stateId = NoId /\ result = Pending /\ accessLog = <<>> /\ warned = FALSE

Arrive ==
  /\ boot = "up" /\ depth = 0 /\ way = "out" /\ served < MaxRequests /\ result.kind # "exception"
  /\ req' \in Arrivals
  /\ served' = served + 1 /\ depth' = 1 /\ way' = "in" /\ buffer' = 0
  /\ bound' = NoId /\ stateId' = NoId /\ result' = Pending /\ accessLog' = <<>>
  /\ UNCHANGED warned

\* A preflight is answered by CORS itself.
EnterCors ==
  /\ At("cors") /\ way = "in"
  /\ IF Is("preflight") THEN Return(Response("OK", NoId, 0)) /\ UNCHANGED depth ELSE Descend
  /\ UNCHANGED <<served, req, buffer, bound, stateId, accessLog, warned>>

\* A client's id counts if it has the form of one; otherwise a fresh one does.
IdOf(r) == IF r.client = "hex" THEN <<served, "client">> ELSE <<served, "fresh">>

EnterRequestId ==
  /\ At("request_id") /\ way = "in"
  /\ stateId' = IdOf(req) /\ bound' = IdOf(req) /\ Descend
  /\ UNCHANGED <<served, req, buffer, accessLog, warned>>

EnterAccessLog ==
  /\ At("access_log") /\ way = "in" /\ Descend
  /\ UNCHANGED <<served, req, buffer, bound, stateId, accessLog, warned>>

TooLarge(id, actual) == Response("PDF_TOO_LARGE", id, actual)

\* What Content-Length says, if exactly one does.
ContentLength == IF req.framing = "length" THEN req.pdf + req.overhead ELSE Unknown

Refused == req.framing # "length" \/ ContentLength > Limit + Allowance

EnterUploadLimit ==
  /\ At("upload_limit") /\ way = "in"
  /\ IF Upload /\ Refused THEN Return(TooLarge(stateId, ContentLength)) /\ UNCHANGED depth ELSE Descend
  /\ UNCHANGED <<served, req, buffer, bound, stateId, accessLog, warned>>

----------------------------------------------------------------------------
\* The routes.  DomainErrors become responses here (api/errors.py).

Routed(answer) ==
  At("routes") /\ way = "in" /\ Return(answer)
  /\ UNCHANGED <<served, req, depth, buffer, bound, stateId, accessLog, warned>>

\* The manifest is looked at before Ollama.
Ready ==
  /\ Is("ready")
  /\ IF DOMAIN loaded = {} THEN Routed(Response("no_skills_loaded", NoId, 0))
     ELSE \E code \in {"OK", "ollama_unreachable"} : Routed(Response(code, NoId, 0))

NotRouted ==
  \/ Is("extract/") /\ Routed(Response("redirect", NoId, 0))
  \/ Is("other") /\ Routed(Response("not_found", NoId, 0))

Invalid == Is("extract") /\ ~req.valid /\ Routed(Response("VALIDATION_FAILED", stateId, 0))

Extract ==
  /\ At("routes") /\ way = "in" /\ Is("extract") /\ req.valid /\ way' = "read"
  /\ UNCHANGED <<served, req, depth, buffer, bound, stateId, result, accessLog, warned>>

\* Mutant of Exceeds: an upload of exactly the limit is one too many.
ExceedsOrMeets(bytes) == bytes >= Limit

\* read_with_byte_limit: the chunk that passes the limit is the last one read.
Exceeds(bytes) == bytes > Limit

ReadChunk ==
  /\ way = "read" /\ buffer < req.pdf
  /\ LET total == IF req.pdf < buffer + ChunkSize THEN req.pdf ELSE buffer + ChunkSize
     IN /\ buffer' = total
        /\ IF Exceeds(total) THEN Return(TooLarge(stateId, total)) ELSE UNCHANGED <<way, result>>
  /\ UNCHANGED <<served, req, depth, bound, stateId, accessLog, warned>>

ReadEnds ==
  /\ way = "read" /\ buffer = req.pdf /\ way' = "service"
  /\ UNCHANGED <<served, req, depth, buffer, bound, stateId, result, accessLog, warned>>

\* The warning of an empty manifest comes once.
SkillNotFound ==
  /\ way = "service" /\ Lookup(req.skill, req.version) = 0
  /\ Return(Response("SKILL_NOT_FOUND", stateId, 0))
  /\ warned' = (warned \/ DOMAIN loaded = {})
  /\ UNCHANGED <<served, req, depth, buffer, bound, stateId, accessLog>>

\* The extraction succeeds or fails in one of its ways; the cap refuses any request.
Extracted ==
  /\ way = "service" /\ Lookup(req.skill, req.version) # 0
  /\ \E code \in {"OK", "DOMAIN_ERROR"} : Return(Response(code, IF code = "OK" THEN NoId ELSE stateId, 0))
  /\ UNCHANGED <<served, req, depth, buffer, bound, stateId, accessLog, warned>>

ExtractFails ==
  /\ way = "service"
  /\ \/ Return(Response("EXTRACTION_OVERLOADED", stateId, 0))
     \/ Return(Raised("exception")) \/ Return(Raised("cancelled"))
  /\ UNCHANGED <<served, req, depth, buffer, bound, stateId, accessLog, warned>>

----------------------------------------------------------------------------
\* The way out.

Leave ==
  /\ way = "out" /\ depth > 0 /\ Stack[depth] \in {"cors", "upload_limit", "routes"} /\ Ascend
  /\ UNCHANGED <<served, req, way, buffer, bound, stateId, result, accessLog, warned>>

LoggedStatus == IF result.kind = "response" THEN result.code ELSE "INTERNAL_ERROR"

LeaveAccessLog ==
  /\ At("access_log") /\ way = "out" /\ Ascend
  /\ accessLog' = Append(accessLog, [code |-> LoggedStatus, id |-> bound])
  /\ UNCHANGED <<served, req, way, buffer, bound, stateId, result, warned>>

LeaveRequestId ==
  /\ At("request_id") /\ way = "out" /\ Ascend
  /\ result' = IF result.kind = "response" THEN [result EXCEPT !.header = stateId] ELSE result
  /\ bound' = NoId
  /\ UNCHANGED <<served, req, way, buffer, stateId, accessLog, warned>>

\* handle_unhandled runs outside all layers, in Starlette's ServerErrorMiddleware.
HandleUnhandled ==
  /\ depth = 0 /\ result.kind = "exception"
  /\ result' = [Response("INTERNAL_ERROR", stateId, 0) EXCEPT !.header = stateId]
  /\ UNCHANGED <<served, req, depth, way, buffer, bound, stateId, accessLog, warned>>

Handle ==
  \/ EnterCors \/ EnterRequestId \/ EnterAccessLog \/ EnterUploadLimit
  \/ Ready \/ NotRouted \/ Invalid \/ Extract \/ ReadChunk \/ ReadEnds
  \/ SkillNotFound \/ Extracted \/ ExtractFails
  \/ Leave \/ LeaveAccessLog \/ LeaveRequestId \/ HandleUnhandled

Init == LoadInit /\ RequestInit
Next == (Load /\ UNCHANGED requestVars) \/ ((Arrive \/ Handle) /\ UNCHANGED skillVars)
Spec == Init /\ [][Next]_vars

----------------------------------------------------------------------------
Answered == served > 0 /\ depth = 0 /\ way = "out" /\ result.kind # "exception"

ErrorCodes == {"PDF_TOO_LARGE", "VALIDATION_FAILED", "SKILL_NOT_FOUND", "DOMAIN_ERROR",
               "EXTRACTION_OVERLOADED", "INTERNAL_ERROR"}

\* The two layers together enforce one limit, that of the PDF's bytes: no larger
\* upload reaches the extraction or stays in memory, none within it is refused
\* unless its size is unknown or its envelope beyond the allowance, and every
\* refusal states a size over the limit or that it is unknown (issue #112).
OneUploadLimit ==
  /\ buffer <= Limit + ChunkSize
  /\ way = "service" => req.pdf <= Limit /\ req.framing = "length"
  /\ result.code = "PDF_TOO_LARGE" =>
       IF req.framing = "length" THEN result.actual > Limit ELSE result.actual = Unknown
  /\ (Answered /\ Is("extract") /\ req.framing = "length" /\ req.overhead <= Allowance /\ req.valid) =>
       (result.code = "PDF_TOO_LARGE") = (req.pdf > Limit)

\* Every request but a preflight has one entry in the access log, with the status
\* and the id of its answer; all that carries an id carries the request's, and
\* none is left bound after it, also if it crashed, was cancelled or was turned
\* back by the upload limit (issues #147, #377).
CorrelatedOnce ==
  Answered =>
    /\ bound = NoId
    /\ IF Is("preflight") THEN accessLog = <<>>
       ELSE /\ accessLog = <<[code |-> LoggedStatus, id |-> IdOf(req)]>>
            /\ result.kind = "response" => result.header = IdOf(req)
            /\ result.code \in ErrorCodes => result.envelope = IdOf(req)

Misplaced(f) == f.place = "stray" \/ f.dir # f.name
Collides(k) == \E j \in 1 .. k - 1 : dir[j].place = "layout" /\ KeyOf(dir[j]) = KeyOf(dir[k])

\* The application serves a directory whole or not at all.  If it is up, each of
\* its files is a skill under a key of its own, with fields to extract, and
\* "latest" is the highest version; if the loader came to its end with a problem,
\* it has noted every file that is in a wrong place or defines what another does
\* (issues #114, #208, #388).
DirectoryServedWhole ==
  /\ boot = "up" =>
       /\ {loaded[key] : key \in DOMAIN loaded} = DOMAIN dir
       /\ \A k \in DOMAIN dir :
            /\ ~Misplaced(dir[k]) /\ ~Collides(k)
            /\ dir[k].properties # {}
            /\ LET latest == Lookup(dir[k].name, "latest")
               IN latest # 0 /\ dir[latest].name = dir[k].name /\ dir[latest].version >= dir[k].version
  /\ (boot = "failed" /\ next > Len(dir)) =>
       /\ problems # {}
       /\ \A k \in DOMAIN dir \ problems : ~Misplaced(dir[k]) /\ k \in {loaded[key] : key \in DOMAIN loaded}

=============================================================================
