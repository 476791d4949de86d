---------------------------- MODULE RequestsProofs ----------------------------
(***************************************************************************)
(* Theorems about Requests, for every limit, allowance and chunk size,     *)
(* every set of requests and every directory of skills; and about Spans,   *)
(* what a request computes: for every document, every list of declared     *)
(* names and whatever LangExtract reports.                                 *)
(***************************************************************************)
EXTENDS Requests, Spans, FiniteSetTheorems, WellFoundedInduction, TLAPS

Ids == {NoId} \cup (Nat \X {"client", "fresh"})

Codes == ErrorCodes \cup {"none", "OK", "redirect", "not_found", "no_skills_loaded", "ollama_unreachable"}

Results == [kind : {"response", "pending", "exception", "cancelled"}, code : Codes,
            header : Ids, envelope : Ids, actual : Int]

\* The types of the variables the two properties are about.
RequestTypes ==
  /\ served \in Nat /\ depth \in 0..5 /\ way \in {"in", "read", "service", "out"}
  /\ served > 0 => req \in Arrivals
  /\ served = 0 => way = "out" /\ depth = 0 /\ result = Pending
  /\ buffer \in Nat
  /\ result \in Results /\ stateId \in Ids

\* A request on its way in has no answer, and has read nothing of its upload.
Inward ==
  way = "in" =>
    /\ result = Pending /\ buffer = 0 /\ depth > 0 /\ served > 0
    /\ depth > 1 => ~Is("preflight")
    /\ (depth = 5 /\ Upload) => req.framing = "length" /\ req.pdf + req.overhead <= Limit + Allowance

\* One that reads its upload or extracts was let through by the layer of the limit.
Inside ==
  way \in {"read", "service"} =>
    /\ served > 0 /\ depth = 5 /\ Is("extract") /\ req.framing = "length" /\ req.valid
    /\ result = Pending /\ buffer <= Limit /\ buffer <= req.pdf
    /\ way = "service" => buffer = req.pdf

\* What an answer says of the size.
SizeJudged ==
  (way = "out" /\ served > 0) =>
    /\ result.kind # "pending"
    /\ result.kind # "response" => result.code = "none"
    /\ (result.code = "PDF_TOO_LARGE") =>
         IF req.framing = "length" THEN result.actual > Limit ELSE result.actual = Unknown
    /\ (Is("extract") /\ req.framing = "length" /\ req.overhead <= Allowance /\ req.valid) =>
         (result.code = "PDF_TOO_LARGE") = (req.pdf > Limit)

\* The inductive invariant of the upload limit.
UploadInv == RequestTypes /\ buffer <= Limit + ChunkSize /\ Inward /\ Inside /\ SizeJudged

\* Inside the layer of the request id, it is bound.
Bound ==
  /\ (way # "out" /\ depth <= 2) => bound = NoId /\ stateId = NoId
  /\ (way # "out" /\ depth > 2) => bound = IdOf(req) /\ stateId = IdOf(req)
  /\ way # "out" => accessLog = <<>>
  /\ (way = "out" /\ served > 0 /\ (depth > 1 \/ ~Is("preflight"))) => stateId = IdOf(req)
  /\ (way = "out" /\ depth > 1) => bound = IdOf(req) /\ ~Is("preflight")
  /\ (way = "out" /\ depth <= 1) => bound = NoId

\* On the way out, the access log gets its entry and the answer its header.
Correlated ==
  (way = "out" /\ served > 0) =>
    /\ Is("preflight") => accessLog = <<>> /\ result.kind = "response"
    /\ ~Is("preflight") =>
         /\ depth > 2 => accessLog = <<>>
         /\ depth <= 2 => accessLog = <<[code |-> LoggedStatus, id |-> IdOf(req)]>>
         /\ (depth <= 1 /\ result.kind = "response") => result.header = IdOf(req)
         /\ (result.kind = "response" /\ result.code \in ErrorCodes) => result.envelope = IdOf(req)

\* The inductive invariant of the request id and the access log.
IInv == UploadInv /\ Bound /\ Correlated

(***************************************************************************)
(* The layers by their number.                                             *)
(***************************************************************************)
LEMMA Layers ==
  ASSUME depth \in 0..5
  PROVE  /\ At("cors") <=> depth = 1
         /\ At("request_id") <=> depth = 2
         /\ At("access_log") <=> depth = 3
         /\ At("upload_limit") <=> depth = 4
         /\ At("routes") <=> depth = 5
         /\ (depth > 0 /\ Stack[depth] \in {"cors", "upload_limit", "routes"}) <=> depth \in {1, 4, 5}
BY DEF At, Stack

(***************************************************************************)
(* The fields of a request that has come.                                  *)
(***************************************************************************)
LEMMA Fields ==
  ASSUME NEW r \in Arrivals
  PROVE  /\ r.kind \in {"extract", "extract/", "ready", "other", "preflight"}
         /\ r.framing \in {"length", "chunked", "ambiguous"}
         /\ r.pdf \in Nat /\ r.overhead \in Nat /\ r.valid \in BOOLEAN
         /\ r.client \in {"hex", "other", "none"}
BY ArrivalsAssumption

(***************************************************************************)
(* Answers and exceptions are results.                                     *)
(***************************************************************************)
LEMMA Answers ==
  ASSUME NEW code \in Codes, NEW id \in Ids, NEW actual \in Int
  PROVE  /\ Response(code, id, actual) \in Results
         /\ Response(code, id, actual).kind = "response" /\ Response(code, id, actual).code = code
         /\ Response(code, id, actual).header = NoId
         /\ Response(code, id, actual).envelope = id /\ Response(code, id, actual).actual = actual
<1>1. NoId \in Ids
  BY DEF Ids
<1>2. Response(code, id, actual) \in Results
  BY <1>1 DEF Response, Results
<1>3. QED BY <1>2 DEF Response

(***************************************************************************)
(* And so are exceptions and what a handler has still to answer.           *)
(***************************************************************************)
LEMMA Exceptions ==
  ASSUME NEW exception \in {"pending", "exception", "cancelled"}
  PROVE  /\ Raised(exception) \in Results
         /\ Raised(exception).kind = exception /\ Raised(exception).code = "none"
<1>1. NoId \in Ids /\ "none" \in Codes
  BY DEF Ids, Codes
<1>2. Raised(exception) \in Results
  BY <1>1 DEF Raised, Results
<1>3. QED BY <1>2 DEF Raised

(***************************************************************************)
(* Nothing has come before the first request.                              *)
(***************************************************************************)
THEOREM RequestsInit == Init => IInv
<1> SUFFICES ASSUME Init PROVE IInv
  OBVIOUS
<1>1. RequestTypes /\ buffer <= Limit + ChunkSize
  <2>1. Pending \in Results
    BY Exceptions DEF Pending
  <2>2. NoId \in Ids
    BY DEF Ids
  <2>3. QED BY <2>1, <2>2, RequestsAssumption DEF Init, RequestInit, RequestTypes
<1>2. Inward /\ Inside /\ SizeJudged
  BY DEF Init, RequestInit, Inward, Inside, SizeJudged
<1>3. Bound /\ Correlated
  BY DEF Init, RequestInit, Bound, Correlated
<1>4. QED BY <1>1, <1>2, <1>3 DEF IInv, UploadInv

(***************************************************************************)
(* Every step keeps the invariant of the upload limit.                     *)
(***************************************************************************)
LEMMA UploadStep == UploadInv /\ [Next]_vars => UploadInv'
<1> SUFFICES ASSUME UploadInv, [Next]_vars
             PROVE  (RequestTypes /\ buffer <= Limit + ChunkSize /\ Inward /\ Inside /\ SizeJudged)'
  BY DEF UploadInv
<1> USE RequestsAssumption
<1>U. RequestTypes /\ buffer <= Limit + ChunkSize /\ Inward /\ Inside /\ SizeJudged
  BY DEF UploadInv
<1> DEFINE Answer(code, id, actual) ==
             /\ Response(code, id, actual) \in Results
             /\ Response(code, id, actual).kind = "response"
             /\ Response(code, id, actual).code = code
             /\ Response(code, id, actual).actual = actual
<1>L. depth \in 0..5
  BY <1>U DEF RequestTypes
<1>C. /\ "OK" \in Codes /\ "redirect" \in Codes /\ "not_found" \in Codes
      /\ "no_skills_loaded" \in Codes /\ "ollama_unreachable" \in Codes
      /\ "PDF_TOO_LARGE" \in Codes /\ "VALIDATION_FAILED" \in Codes /\ "SKILL_NOT_FOUND" \in Codes
      /\ "DOMAIN_ERROR" \in Codes /\ "EXTRACTION_OVERLOADED" \in Codes /\ "INTERNAL_ERROR" \in Codes
  BY DEF Codes, ErrorCodes
<1>S. stateId \in Ids
  BY <1>U DEF RequestTypes
<1>N. NoId \in Ids /\ (req \in Arrivals => IdOf(req) \in Ids)
  BY <1>U DEF Ids, IdOf, RequestTypes
<1>P. Pending \in Results /\ Pending.kind = "pending"
  BY Exceptions DEF Pending
<1>1. CASE UNCHANGED requestVars
  BY <1>1, <1>U DEF requestVars, RequestTypes, Inward, Inside, SizeJudged, Is, Upload
<1>2. CASE Arrive
  BY <1>2, <1>U, <1>N, <1>P DEF Arrive, RequestTypes, Inward, Inside, SizeJudged, Is, Upload
<1>3. CASE EnterCors
  <2>1. Answer("OK", NoId, 0)
    BY <1>C, <1>N, Answers
  <2>2. QED
    BY <1>3, <2>1, <1>U, <1>L, <1>N, Layers
    DEF EnterCors, RequestTypes, Inward, Inside, SizeJudged, Is, Upload, Return, Descend
<1>4. CASE EnterRequestId
  BY <1>4, <1>U, <1>L, <1>N, Layers
  DEF EnterRequestId, RequestTypes, Inward, Inside, SizeJudged, Is, Upload, Descend
<1>5. CASE EnterAccessLog
  BY <1>5, <1>U, <1>L, Layers
  DEF EnterAccessLog, RequestTypes, Inward, Inside, SizeJudged, Is, Upload, Descend
<1>6. CASE EnterUploadLimit
  <2>1. served > 0 /\ req \in Arrivals /\ depth = 4 /\ way = "in"
    BY <1>6, <1>U, <1>L, Layers DEF EnterUploadLimit, RequestTypes, Inward
  <2>2. /\ ContentLength \in Int
        /\ req.framing = "length" => ContentLength = req.pdf + req.overhead
        /\ req.framing # "length" => ContentLength = Unknown
    BY <2>1, Fields DEF ContentLength, Unknown
  <2>3. Answer("PDF_TOO_LARGE", stateId, ContentLength)
    BY <1>C, <1>S, <2>2, Answers
  <2>4. CASE Upload /\ Refused
    <3>1. /\ way' = "out" /\ result' = Response("PDF_TOO_LARGE", stateId, ContentLength)
          /\ UNCHANGED <<served, req, depth, buffer, stateId>>
      BY <1>6, <2>4 DEF EnterUploadLimit, Return, TooLarge
    <3>2. IF req.framing = "length" THEN ContentLength > Limit ELSE ContentLength = Unknown
      BY <2>1, <2>2, <2>4, Fields DEF Refused
    <3>3. (req.framing = "length" /\ req.overhead <= Allowance) => req.pdf > Limit
      BY <2>1, <2>2, <2>4, Fields DEF Refused
    <3>4. QED
      BY <1>U, <2>1, <2>3, <3>1, <3>2, <3>3 DEF RequestTypes, Inward, Inside, SizeJudged, Is, Upload
  <2>5. CASE ~(Upload /\ Refused)
    <3>1. depth' = 5 /\ UNCHANGED <<served, req, way, result, buffer, stateId>>
      BY <1>6, <2>1, <2>5 DEF EnterUploadLimit, Descend
    <3>2. Upload => req.framing = "length" /\ req.pdf + req.overhead <= Limit + Allowance
      BY <2>1, <2>2, <2>5, Fields DEF Refused
    <3>3. QED
      BY <1>U, <2>1, <3>1, <3>2 DEF RequestTypes, Inward, Inside, SizeJudged, Is, Upload
  <2>6. QED BY <2>4, <2>5
<1>7. CASE Ready
  <2>1. Answer("OK", NoId, 0)
    BY <1>C, <1>N, <1>S, Answers
  <2>2. Answer("no_skills_loaded", NoId, 0)
    BY <1>C, <1>N, <1>S, Answers
  <2>3. Answer("ollama_unreachable", NoId, 0)
    BY <1>C, <1>N, <1>S, Answers
  <2>4. served > 0 /\ req \in Arrivals /\ depth = 5 /\ way = "in"
    BY <1>7, <1>U, <1>L, Layers DEF Ready, Routed, RequestTypes, Inward
  <2>5. QED
    BY <1>7, <1>U, <2>1, <2>2, <2>3, <2>4
    DEF Ready, Routed, Return, RequestTypes, Inward, Inside, SizeJudged, Is, Upload
<1>8. CASE NotRouted
  <2>1. Answer("redirect", NoId, 0)
    BY <1>C, <1>N, <1>S, Answers
  <2>2. Answer("not_found", NoId, 0)
    BY <1>C, <1>N, <1>S, Answers
  <2>3. served > 0 /\ req \in Arrivals /\ depth = 5 /\ way = "in"
    BY <1>8, <1>U, <1>L, Layers DEF NotRouted, Routed, RequestTypes, Inward
  <2>4. QED
    BY <1>8, <1>U, <2>1, <2>2, <2>3
    DEF NotRouted, Routed, Return, RequestTypes, Inward, Inside, SizeJudged, Is, Upload
<1>9. CASE Invalid
  <2>1. Answer("VALIDATION_FAILED", stateId, 0)
    BY <1>C, <1>N, <1>S, Answers
  <2>2. served > 0 /\ req \in Arrivals /\ depth = 5 /\ way = "in"
    BY <1>9, <1>U, <1>L, Layers DEF Invalid, Routed, RequestTypes, Inward
  <2>3. QED
    BY <1>9, <1>U, <2>1, <2>2
    DEF Invalid, Routed, Return, RequestTypes, Inward, Inside, SizeJudged, Is, Upload
<1>10. CASE Extract
  <2>1. served > 0 /\ req \in Arrivals /\ depth = 5 /\ way = "in" /\ Upload
    BY <1>10, <1>U, <1>L, Layers DEF Extract, RequestTypes, Inward, Is, Upload
  <2>2. QED
    BY <1>10, <1>U, <2>1, Fields DEF Extract, RequestTypes, Inward, Inside, SizeJudged, Is, Upload
<1>11. CASE ReadChunk
  <2> DEFINE total == IF req.pdf < buffer + ChunkSize THEN req.pdf ELSE buffer + ChunkSize
  <2>1. served > 0 /\ req \in Arrivals /\ req.pdf \in Nat
    BY <1>11, <1>U, Fields DEF ReadChunk, Inside, RequestTypes
  <2>2. /\ total \in Nat /\ total <= Limit + ChunkSize /\ total <= req.pdf
    BY <1>11, <1>U, <2>1 DEF ReadChunk, Inside, RequestTypes
  <2>3. buffer' = total /\ UNCHANGED <<served, req, depth, stateId>>
    BY <1>11 DEF ReadChunk
  <2>4. Answer("PDF_TOO_LARGE", stateId, total)
    BY <1>C, <1>S, <2>2, Answers
  <2>5. CASE total > Limit
    <3>1. way' = "out" /\ result' = Response("PDF_TOO_LARGE", stateId, total)
      BY <1>11, <2>5 DEF ReadChunk, Exceeds, Return, TooLarge
    <3>2. req.pdf > Limit /\ req.framing = "length" /\ total > Limit
      BY <1>11, <1>U, <2>1, <2>2, <2>5 DEF ReadChunk, Inside
    <3> HIDE DEF total
    <3>3. QED
      BY <1>U, <2>1, <2>2, <2>3, <2>4, <3>1, <3>2 DEF RequestTypes, Inward, Inside, SizeJudged, Is, Upload
  <2>6. CASE ~(total > Limit)
    <3>1. UNCHANGED <<way, result>>
      BY <1>11, <2>6 DEF ReadChunk, Exceeds
    <3>2. way = "read" /\ total <= Limit
      BY <1>11, <2>2, <2>6 DEF ReadChunk
    <3> HIDE DEF total
    <3>3. QED
      BY <1>U, <2>1, <2>2, <2>3, <3>1, <3>2 DEF RequestTypes, Inward, Inside, SizeJudged, Is, Upload
  <2>7. QED BY <2>5, <2>6
<1>12. CASE ReadEnds
  BY <1>12, <1>U DEF ReadEnds, RequestTypes, Inward, Inside, SizeJudged, Is, Upload
<1>13. CASE SkillNotFound
  <2>1. Answer("SKILL_NOT_FOUND", stateId, 0)
    BY <1>C, <1>S, Answers
  <2>2. served > 0 /\ req \in Arrivals /\ req.pdf \in Nat
    BY <1>13, <1>U, Fields DEF SkillNotFound, Inside, RequestTypes
  <2>3. /\ way = "service" /\ way' = "out" /\ result' = Response("SKILL_NOT_FOUND", stateId, 0)
        /\ UNCHANGED <<served, req, depth, buffer, stateId>>
    BY <1>13 DEF SkillNotFound, Return
  <2>4. QED
    BY <1>U, <2>1, <2>2, <2>3 DEF RequestTypes, Inward, Inside, SizeJudged, Is, Upload
<1>14. CASE Extracted
  <2>1. Answer("OK", NoId, 0) /\ Answer("DOMAIN_ERROR", stateId, 0)
    BY <1>C, <1>N, <1>S, Answers
  <2>2. served > 0 /\ req \in Arrivals /\ req.pdf \in Nat
    BY <1>14, <1>U, Fields DEF Extracted, Inside, RequestTypes
  <2>3. /\ way = "service" /\ way' = "out" /\ UNCHANGED <<served, req, depth, buffer, stateId>>
        /\ result' \in {Response("OK", NoId, 0), Response("DOMAIN_ERROR", stateId, 0)}
    BY <1>14 DEF Extracted, Return
  <2>4. QED
    BY <1>U, <2>1, <2>2, <2>3 DEF RequestTypes, Inward, Inside, SizeJudged, Is, Upload
<1>15. CASE ExtractFails
  <2>1. /\ Answer("EXTRACTION_OVERLOADED", stateId, 0)
        /\ Raised("exception") \in Results /\ Raised("exception").kind = "exception" /\ Raised("exception").code = "none"
        /\ Raised("cancelled") \in Results /\ Raised("cancelled").kind = "cancelled" /\ Raised("cancelled").code = "none"
    BY <1>C, <1>S, Answers, Exceptions
  <2>2. served > 0 /\ req \in Arrivals /\ req.pdf \in Nat
    BY <1>15, <1>U, Fields DEF ExtractFails, Inside, RequestTypes
  <2>3. /\ way = "service" /\ way' = "out" /\ UNCHANGED <<served, req, depth, buffer, stateId>>
        /\ result' \in {Response("EXTRACTION_OVERLOADED", stateId, 0), Raised("exception"), Raised("cancelled")}
    BY <1>15 DEF ExtractFails, Return
  <2>4. QED
    BY <1>U, <2>1, <2>2, <2>3 DEF RequestTypes, Inward, Inside, SizeJudged, Is, Upload
<1>16. CASE Leave
  BY <1>16, <1>U, <1>L, Layers DEF Leave, Ascend, RequestTypes, Inward, Inside, SizeJudged, Is, Upload
<1>17. CASE LeaveAccessLog
  BY <1>17, <1>U, <1>L, Layers DEF LeaveAccessLog, Ascend, RequestTypes, Inward, Inside, SizeJudged, Is, Upload
<1>18. CASE LeaveRequestId
  <2>1. /\ result' \in Results /\ result'.kind = result.kind /\ result'.code = result.code
        /\ result'.actual = result.actual
    BY <1>18, <1>U, <1>S DEF LeaveRequestId, RequestTypes, Results
  <2>2. depth = 2 /\ depth' = 1 /\ way = "out" /\ UNCHANGED <<served, req, way, buffer, stateId>>
    BY <1>18, <1>U, <1>L, Layers DEF LeaveRequestId, Ascend
  <2>3. QED
    BY <1>U, <2>1, <2>2 DEF RequestTypes, Inward, Inside, SizeJudged, Is, Upload
<1>19. CASE HandleUnhandled
  <2>1. /\ result' \in Results /\ result'.kind = "response" /\ result'.code = "INTERNAL_ERROR"
    BY <1>C, <1>19, <1>U, <1>S, <1>N DEF HandleUnhandled, RequestTypes, Results, Response
  <2>2. result.kind = "exception" /\ depth = 0 /\ UNCHANGED <<served, req, depth, way, buffer, stateId>>
    BY <1>19 DEF HandleUnhandled
  <2>3. result.kind # "response" /\ served > 0 /\ way = "out"
    BY <1>U, <1>P, <2>2 DEF RequestTypes, Inward, Inside
  <2>4. QED
    BY <1>U, <2>1, <2>2, <2>3 DEF RequestTypes, Inward, Inside, SizeJudged, Is, Upload
<1>20. QED
  BY <1>1, <1>2, <1>3, <1>4, <1>5, <1>6, <1>7, <1>8, <1>9, <1>10, <1>11, <1>12, <1>13, <1>14, <1>15,
     <1>16, <1>17, <1>18, <1>19
  DEF Next, vars, Handle

(***************************************************************************)
(* Every step keeps the request id bound and the access log in step.       *)
(***************************************************************************)
LEMMA CorrelationStep == IInv /\ [Next]_vars => (Bound /\ Correlated)'
<1> SUFFICES ASSUME IInv, [Next]_vars PROVE (Bound /\ Correlated)'
  OBVIOUS
<1>U. RequestTypes /\ Inward /\ Inside /\ SizeJudged /\ Bound /\ Correlated
  BY DEF IInv, UploadInv
<1>L. depth \in 0..5 /\ served \in Nat
  BY <1>U DEF RequestTypes
<1>C. /\ "OK" \in Codes /\ "redirect" \in Codes /\ "not_found" \in Codes
      /\ "no_skills_loaded" \in Codes /\ "ollama_unreachable" \in Codes
      /\ "PDF_TOO_LARGE" \in Codes /\ "VALIDATION_FAILED" \in Codes /\ "SKILL_NOT_FOUND" \in Codes
      /\ "DOMAIN_ERROR" \in Codes /\ "EXTRACTION_OVERLOADED" \in Codes /\ "INTERNAL_ERROR" \in Codes
  BY DEF Codes, ErrorCodes
<1>P. Pending.kind = "pending"
  BY Exceptions DEF Pending
<1>1. CASE UNCHANGED requestVars
  BY <1>1, <1>U DEF requestVars, Bound, Correlated, RequestTypes, Is, IdOf, LoggedStatus
<1>2. CASE Arrive
  BY <1>2, <1>U DEF Arrive, Bound, Correlated, RequestTypes, Is, IdOf, LoggedStatus
<1>3. CASE EnterCors
  <2>1. depth = 1 /\ way = "in" /\ served > 0
    BY <1>3, <1>U, <1>L, Layers DEF EnterCors, Inward
  <2>2. CASE Is("preflight")
    <3>1. way' = "out" /\ result' = Response("OK", NoId, 0)
          /\ UNCHANGED <<served, req, depth, bound, stateId, accessLog>>
      BY <1>3, <2>2 DEF EnterCors, Return
    <3>2. QED
      BY <1>U, <1>L, <2>1, <2>2, <3>1 DEF Response, Bound, Correlated, RequestTypes, Is, IdOf, LoggedStatus
  <2>3. CASE ~Is("preflight")
    BY <1>3, <1>U, <1>L, <2>1, <2>3 DEF EnterCors, Descend, Bound, Correlated, RequestTypes, Is, IdOf, LoggedStatus
  <2>4. QED BY <2>2, <2>3
<1>4. CASE EnterRequestId
  BY <1>4, <1>U, <1>L, Layers DEF EnterRequestId, Descend, Inward, Bound, Correlated, RequestTypes, Is, IdOf, LoggedStatus
<1>5. CASE EnterAccessLog
  BY <1>5, <1>U, <1>L, Layers DEF EnterAccessLog, Descend, Inward, Bound, Correlated, RequestTypes, Is, IdOf, LoggedStatus
<1>6. CASE EnterUploadLimit
  <2>1. depth = 4 /\ way = "in" /\ served > 0 /\ ~Is("preflight")
    BY <1>6, <1>U, <1>L, Layers DEF EnterUploadLimit, Inward
  <2>2. UNCHANGED <<served, req, bound, stateId, accessLog>>
    BY <1>6 DEF EnterUploadLimit
  <2>3. CASE Upload /\ Refused
    <3>1. way' = "out" /\ result' = Response("PDF_TOO_LARGE", stateId, ContentLength) /\ depth' = 4
      BY <1>6, <2>1, <2>3 DEF EnterUploadLimit, Return, TooLarge
    <3>2. QED
      BY <1>U, <1>L, <2>1, <2>2, <3>1 DEF Response, Bound, Correlated, RequestTypes, Is, IdOf, LoggedStatus
  <2>4. CASE ~(Upload /\ Refused)
    <3>1. way' = "in" /\ depth' = 5
      BY <1>6, <2>1, <2>4 DEF EnterUploadLimit, Descend
    <3>2. QED
      BY <1>U, <1>L, <2>1, <2>2, <3>1 DEF Bound, Correlated, RequestTypes, Is, IdOf, LoggedStatus
  <2>5. QED BY <2>3, <2>4
<1>7. ErrorCodes \cap {"OK", "redirect", "not_found", "no_skills_loaded", "ollama_unreachable"} = {}
  BY DEF ErrorCodes
<1>8. CASE Ready
  <2>1. depth = 5 /\ way # "out" /\ served > 0 /\ ~Is("preflight")
    BY <1>8, <1>U, <1>L, Layers DEF Ready, Routed, Inward
  <2>2. QED
    BY <1>8, <1>U, <1>L, <1>7, <2>1 DEF Ready, Routed, Return, Response, Bound, Correlated, RequestTypes, Is, IdOf, LoggedStatus
<1>9. CASE NotRouted
  <2>1. depth = 5 /\ way # "out" /\ served > 0 /\ ~Is("preflight")
    BY <1>9, <1>U, <1>L, Layers DEF NotRouted, Routed, Inward
  <2>2. QED
    BY <1>9, <1>U, <1>L, <1>7, <2>1 DEF NotRouted, Routed, Return, Response, Bound, Correlated, RequestTypes, Is, IdOf, LoggedStatus
<1>10. CASE Invalid
  <2>1. depth = 5 /\ way # "out" /\ served > 0 /\ ~Is("preflight")
    BY <1>10, <1>U, <1>L, Layers DEF Invalid, Routed, Inward
  <2>2. QED
    BY <1>10, <1>U, <1>L, <1>7, <2>1 DEF Invalid, Routed, Return, Response, Bound, Correlated, RequestTypes, Is, IdOf, LoggedStatus
<1>11. CASE Extract
  <2>1. depth = 5 /\ way # "out" /\ served > 0 /\ ~Is("preflight")
    BY <1>11, <1>U, <1>L, Layers DEF Extract, Inward
  <2>2. QED
    BY <1>11, <1>U, <1>L, <2>1 DEF Extract, Bound, Correlated, RequestTypes, Is, IdOf, LoggedStatus
<1>12. CASE ReadChunk
  <2>1. depth = 5 /\ way = "read" /\ served > 0 /\ ~Is("preflight")
    BY <1>12, <1>U DEF ReadChunk, Inside, Is
  <2>2. UNCHANGED <<served, req, depth, bound, stateId, accessLog>>
    BY <1>12 DEF ReadChunk
  <2>3. \/ UNCHANGED <<way, result>>
        \/ \E total : way' = "out" /\ result' = Response("PDF_TOO_LARGE", stateId, total)
    BY <1>12 DEF ReadChunk, TooLarge, Return
  <2>4. QED
    BY <1>U, <1>L, <2>1, <2>2, <2>3 DEF Response, Bound, Correlated, RequestTypes, Is, IdOf, LoggedStatus
<1>13. CASE ReadEnds
  BY <1>13, <1>U DEF ReadEnds, Bound, Correlated, RequestTypes, Is, IdOf, LoggedStatus
<1>14. CASE SkillNotFound
  <2>1. depth = 5 /\ way # "out" /\ served > 0 /\ ~Is("preflight")
    BY <1>14, <1>U, <1>L, Layers DEF SkillNotFound, Inside, Is
  <2>2. QED
    BY <1>14, <1>U, <1>L, <1>7, <2>1 DEF SkillNotFound, Return, Response, Bound, Correlated, RequestTypes, Is, IdOf, LoggedStatus
<1>15. CASE Extracted
  <2>1. depth = 5 /\ way # "out" /\ served > 0 /\ ~Is("preflight")
    BY <1>15, <1>U, <1>L, Layers DEF Extracted, Inside, Is
  <2>2. QED
    BY <1>15, <1>U, <1>L, <1>7, <2>1 DEF Extracted, Return, Response, Bound, Correlated, RequestTypes, Is, IdOf, LoggedStatus
<1>16. CASE ExtractFails
  <2>1. depth = 5 /\ way # "out" /\ served > 0 /\ ~Is("preflight")
    BY <1>16, <1>U, <1>L, Layers DEF ExtractFails, Inside, Is
  <2>2. QED
    BY <1>16, <1>U, <1>L, <1>7, <2>1 DEF ExtractFails, Raised, Return, Response, Bound, Correlated, RequestTypes, Is, IdOf, LoggedStatus
<1>17. CASE Leave
  BY <1>17, <1>U, <1>L, Layers DEF Leave, Ascend, Bound, Correlated, RequestTypes, Is, IdOf, LoggedStatus
<1>18. CASE LeaveAccessLog
  <2>1. /\ depth = 3 /\ depth' = 2 /\ way = "out" /\ served > 0
        /\ UNCHANGED <<served, req, way, bound, stateId, result>>
    BY <1>18, <1>U, <1>L, Layers DEF LeaveAccessLog, Ascend, RequestTypes
  <2>2. accessLog = <<>> /\ bound = IdOf(req) /\ ~Is("preflight")
    BY <1>U, <1>L, <2>1 DEF Bound, Correlated
  <2>3. accessLog' = <<[code |-> LoggedStatus, id |-> IdOf(req)]>>
    BY <1>18, <2>2 DEF LeaveAccessLog
  <2>4. LoggedStatus' = LoggedStatus /\ IdOf(req)' = IdOf(req) /\ Is("preflight")' = Is("preflight")
    BY <2>1 DEF LoggedStatus, IdOf, Is
  <2>5. QED
    BY <1>U, <1>L, <2>1, <2>2, <2>3, <2>4 DEF Bound, Correlated
<1>19. CASE LeaveRequestId
  <2>1. /\ depth = 2 /\ depth' = 1 /\ way = "out" /\ bound' = NoId /\ served > 0
        /\ UNCHANGED <<served, req, way, stateId, accessLog>>
    BY <1>19, <1>U, <1>L, Layers DEF LeaveRequestId, Ascend, RequestTypes
  <2>2. /\ result'.kind = result.kind /\ result'.code = result.code /\ result'.envelope = result.envelope
        /\ result.kind = "response" => result'.header = stateId
    BY <1>19, <1>U DEF LeaveRequestId, RequestTypes, Results
  <2>3. QED
    BY <1>U, <1>L, <2>1, <2>2 DEF Bound, Correlated, RequestTypes, Is, IdOf, LoggedStatus
<1>20. CASE HandleUnhandled
  <2>1. /\ depth = 0 /\ result.kind = "exception" /\ UNCHANGED <<served, req, depth, way, bound, stateId, accessLog>>
        /\ result'.kind = "response" /\ result'.code = "INTERNAL_ERROR"
        /\ result'.header = stateId /\ result'.envelope = stateId
    BY <1>20 DEF HandleUnhandled, Response
  <2>2. served > 0 /\ way = "out"
    BY <1>U, <1>P, <2>1 DEF RequestTypes, Inward, Inside
  <2>3. QED
    BY <1>U, <1>L, <2>1, <2>2 DEF Bound, Correlated, RequestTypes, Is, IdOf, LoggedStatus
<1>21. QED
  BY <1>1, <1>2, <1>3, <1>4, <1>5, <1>6, <1>8, <1>9, <1>10, <1>11, <1>12, <1>13, <1>14, <1>15,
     <1>16, <1>17, <1>18, <1>19, <1>20
  DEF Next, vars, Handle

(***************************************************************************)
(* The invariant holds at every state.                                     *)
(***************************************************************************)
THEOREM RequestsInvariant == Spec => []IInv
<1>1. IInv /\ [Next]_vars => IInv'
  BY UploadStep, CorrelationStep DEF IInv
<1>2. QED BY RequestsInit, <1>1, PTL DEF Spec

(***************************************************************************)
(* The two layers enforce one limit, that of the PDF's bytes.              *)
(***************************************************************************)
THEOREM UploadLimit == Spec => []OneUploadLimit
<1>1. IInv => OneUploadLimit
  <2> SUFFICES ASSUME IInv PROVE OneUploadLimit
    OBVIOUS
  <2>1. RequestTypes /\ buffer <= Limit + ChunkSize /\ Inward /\ Inside /\ SizeJudged
    BY DEF IInv, UploadInv
  <2>2. Pending.code = "none"
    BY Exceptions DEF Pending
  <2>3. way = "service" => req.pdf <= Limit /\ req.framing = "length"
    BY <2>1 DEF Inside
  <2>4. result.code = "PDF_TOO_LARGE" => way = "out" /\ served > 0
    BY <2>1, <2>2 DEF RequestTypes, Inward, Inside
  <2>5. QED BY <2>1, <2>3, <2>4 DEF SizeJudged, OneUploadLimit, Answered
<1>2. QED BY RequestsInvariant, <1>1, PTL

(***************************************************************************)
(* A request that is answered has one entry in the access log, and all     *)
(* that carries an id carries the request's.                               *)
(***************************************************************************)
THEOREM Correlation == Spec => []CorrelatedOnce
<1>1. IInv => CorrelatedOnce
  <2> SUFFICES ASSUME IInv, Answered PROVE CorrelatedOnce
    BY DEF CorrelatedOnce
  <2>1. Bound /\ Correlated /\ SizeJudged
    BY DEF IInv, UploadInv
  <2>2. served > 0 /\ depth = 0 /\ way = "out"
    BY DEF Answered
  <2>3. result.kind # "response" => result.code \notin ErrorCodes
    BY <2>1, <2>2 DEF SizeJudged, ErrorCodes
  <2>4. QED BY <2>1, <2>2, <2>3 DEF Bound, Correlated, CorrelatedOnce
<1>2. QED BY RequestsInvariant, <1>1, PTL

-----------------------------------------------------------------------------
(* The skills                                                              *)

\* The loader has gone through the files before next: each of them is loaded
\* under its own key, or noted.
Gone(k) == k \in 1..(next - 1)

LoaderInv ==
  /\ dir \in Directories /\ next \in Nat \ {0}
  /\ boot \in {"loading", "failed", "up"}
  /\ \A k \in DOMAIN dir : dir[k].place = "stray" => k \in problems
  /\ \A key \in DOMAIN loaded :
       LET k == loaded[key]
       IN Gone(k) /\ k \in DOMAIN dir /\ KeyOf(dir[k]) = key /\ Validates(dir[k]) /\ dir[k].dir = dir[k].name
  /\ \A k \in DOMAIN dir : Gone(k) /\ k \notin problems =>
       KeyOf(dir[k]) \in DOMAIN loaded /\ loaded[KeyOf(dir[k])] = k
  /\ boot = "up" => next > Len(dir) /\ problems = {}
  /\ boot = "failed" /\ next > Len(dir) => problems # {}

(***************************************************************************)
(* A directory is a sequence of files, and the version of a file that      *)
(* validates is the number its name stands for.                            *)
(***************************************************************************)
LEMMA DirectoryFacts ==
  ASSUME NEW d \in Directories
  PROVE  /\ Len(d) \in Nat /\ DOMAIN d = 1..Len(d)
         /\ \A k \in DOMAIN d :
              Validates(d[k]) => d[k].version \in {1, 2} /\ d[k].properties # {}
<1> DEFINE Files == [place : {"layout", "stray"}, dir : STRING, stem : STRING,
                     defect : {"none", "unreadable", "broken"}, name : STRING, version : Int,
                     type : {"object", "none", "string"}, properties : SUBSET STRING,
                     closed : BOOLEAN, composed : BOOLEAN, examples : Seq(SUBSET STRING)]
<1>1. d \in Seq(Files)
  BY DirectoriesAssumption
<1> HIDE DEF Files
<1>2. Len(d) \in Nat /\ DOMAIN d = 1..Len(d) /\ \A k \in DOMAIN d : d[k] \in Files
  BY <1>1
<1>3. ASSUME NEW f \in Files, Validates(f)
      PROVE  f.version \in {1, 2} /\ f.properties # {}
  <2>1. f.version \in {1, 2}
    BY <1>3 DEF Validates, IsInt, IntOf
  <2>2. f.examples \in Seq(SUBSET STRING) /\ f.examples # <<>>
    BY <1>3 DEF Files, Validates
  <2>3. 1 \in DOMAIN f.examples
    BY <2>2
  <2>4. f.type # "string"
    BY <1>3, <2>3 DEF Validates, Conforms
  <2>5. f.properties # {}
    BY <1>3, <2>4 DEF Validates, IsEmptyObjectSchema
  <2>6. QED BY <2>1, <2>5
<1>4. QED BY <1>2, <1>3

(***************************************************************************)
(* Every step of the loader accounts for the file it takes.                *)
(***************************************************************************)
LEMMA LoaderStep == LoaderInv /\ [Next]_vars => LoaderInv'
<1> SUFFICES ASSUME LoaderInv, [Next]_vars PROVE LoaderInv'
  OBVIOUS
<1>1. Len(dir) \in Nat /\ DOMAIN dir = 1..Len(dir) /\ next \in Nat \ {0} /\ dir \in Directories
  BY DirectoryFacts DEF LoaderInv
<1>2. CASE UNCHANGED skillVars
  BY <1>2 DEF skillVars, LoaderInv, Gone
<1>3. CASE LoadEnds
  BY <1>1, <1>3 DEF LoadEnds, LoaderInv, Gone
<1>4. CASE LoadFile
  <2>1. boot = "loading" /\ next \in DOMAIN dir /\ dir' = dir
    BY <1>1, <1>4 DEF LoadFile
  <2>2. CASE boot' = "failed" /\ UNCHANGED <<next, loaded, problems>>
    BY <1>1, <2>1, <2>2 DEF LoaderInv, Gone
  <2>3. CASE /\ next' = next + 1 /\ boot' = boot
             /\ IF dir[next].place = "stray" THEN UNCHANGED <<loaded, problems>>
                ELSE (Validates(dir[next]) /\ Accept(next)) \/ Note(next)
    <3>1. next' \in Nat \ {0} /\ \A k \in DOMAIN dir : Gone(k)' => Gone(k) \/ k = next
      BY <1>1, <2>3 DEF Gone
    <3>2. \A k \in DOMAIN dir : Gone(k) => Gone(k)'
      BY <1>1, <2>3 DEF Gone
    <3>3. next \in 1..(next' - 1)
      BY <1>1, <2>3
    <3>4. CASE dir[next].place = "stray"
      <4>1. UNCHANGED <<dir, loaded, problems, boot>> /\ next \in problems
        BY <2>1, <2>3, <3>4 DEF LoaderInv
      <4>2. QED BY <2>1, <3>1, <3>2, <4>1 DEF LoaderInv, Gone
    <3>5. CASE Note(next)
      <4>1. UNCHANGED <<dir, loaded, boot>> /\ problems' = problems \cup {next}
        BY <2>1, <2>3, <3>5 DEF Note
      <4>2. QED BY <2>1, <3>1, <3>2, <4>1 DEF LoaderInv, Gone
    <3>6. CASE Validates(dir[next]) /\ Accept(next)
      <4>1. /\ dir[next].dir = dir[next].name /\ KeyOf(dir[next]) \notin DOMAIN loaded
            /\ DOMAIN loaded' = DOMAIN loaded \cup {KeyOf(dir[next])}
            /\ loaded'[KeyOf(dir[next])] = next
            /\ \A key \in DOMAIN loaded : loaded'[key] = loaded[key]
            /\ problems' = problems
        BY <3>6 DEF Accept
      <4>2. ASSUME NEW key \in DOMAIN loaded'
            PROVE  LET k == loaded'[key]
                   IN /\ k \in 1..(next' - 1) /\ k \in DOMAIN dir /\ KeyOf(dir[k]) = key
                      /\ Validates(dir[k]) /\ dir[k].dir = dir[k].name
        <5>1. CASE key = KeyOf(dir[next])
          BY <2>1, <3>3, <3>6, <4>1, <5>1
        <5>2. CASE key \in DOMAIN loaded
          <6>1. loaded'[key] = loaded[key]
            BY <4>1, <5>2
          <6>2. /\ loaded[key] \in 1..(next - 1) /\ loaded[key] \in DOMAIN dir
                /\ KeyOf(dir[loaded[key]]) = key /\ Validates(dir[loaded[key]])
                /\ dir[loaded[key]].dir = dir[loaded[key]].name
            BY <5>2 DEF LoaderInv, Gone
          <6>3. loaded[key] \in 1..(next' - 1)
            BY <1>1, <2>3, <6>2
          <6>4. QED BY <6>1, <6>2, <6>3
        <5>3. QED BY <4>1, <4>2, <5>1, <5>2
      <4>3. ASSUME NEW k \in DOMAIN dir, Gone(k)', k \notin problems
            PROVE  KeyOf(dir[k]) \in DOMAIN loaded' /\ loaded'[KeyOf(dir[k])] = k
        <5>1. CASE k = next
          BY <4>1, <5>1
        <5>2. CASE Gone(k)
          BY <4>1, <4>3, <5>2 DEF LoaderInv
        <5>3. QED BY <3>1, <4>3, <5>1, <5>2
      <4>4. QED BY <2>1, <2>3, <3>1, <4>1, <4>2, <4>3 DEF LoaderInv, Gone
    <3>7. QED BY <2>3, <3>4, <3>5, <3>6
  <2>4. QED BY <1>4, <2>2, <2>3 DEF LoadFile
<1>5. QED BY <1>2, <1>3, <1>4 DEF Next, Load, vars, skillVars

(***************************************************************************)
(* A directory that is served has every file in its place, each under its  *)
(* own key, and "latest" finds the highest version of a name.              *)
(***************************************************************************)
THEOREM ServedWhole == Spec => []DirectoryServedWhole
<1>1. Init => LoaderInv
  <2> SUFFICES ASSUME Init PROVE LoaderInv
    OBVIOUS
  <2>1. DOMAIN loaded = {} /\ next = 1 /\ boot = "loading" /\ dir \in Directories
    BY DEF Init, LoadInit
  <2>2. \A k : ~Gone(k)
    BY <2>1 DEF Gone
  <2>3. \A k \in DOMAIN dir : dir[k].place = "stray" => k \in problems
    BY DEF Init, LoadInit
  <2>4. QED BY <2>1, <2>2, <2>3 DEF LoaderInv
<1>2. LoaderInv => DirectoryServedWhole
  <2> SUFFICES ASSUME LoaderInv PROVE DirectoryServedWhole
    OBVIOUS
  <2>1. /\ Len(dir) \in Nat /\ DOMAIN dir = 1..Len(dir) /\ next \in Nat \ {0}
        /\ \A k \in DOMAIN dir : Validates(dir[k]) => dir[k].version \in {1, 2} /\ dir[k].properties # {}
    BY DirectoryFacts DEF LoaderInv
  <2>2. next > Len(dir) => \A k \in DOMAIN dir : Gone(k)
    BY <2>1 DEF Gone
  <2>3. ASSUME boot = "failed", next > Len(dir)
        PROVE  /\ problems # {}
               /\ \A k \in DOMAIN dir \ problems :
                    ~Misplaced(dir[k]) /\ k \in {loaded[key] : key \in DOMAIN loaded}
    BY <2>2, <2>3 DEF LoaderInv, Misplaced
  <2>4. ASSUME boot = "up"
        PROVE  \A k \in DOMAIN dir :
                 /\ KeyOf(dir[k]) \in DOMAIN loaded /\ loaded[KeyOf(dir[k])] = k
                 /\ ~Misplaced(dir[k]) /\ Validates(dir[k])
    BY <2>2, <2>4 DEF LoaderInv, Misplaced
  <2>5. ASSUME boot = "up"
        PROVE  {loaded[key] : key \in DOMAIN loaded} = DOMAIN dir
    <3>1. \A key \in DOMAIN loaded : loaded[key] \in DOMAIN dir
      BY DEF LoaderInv
    <3>2. QED BY <2>4, <2>5, <3>1
  <2>6. ASSUME boot = "up", NEW k \in DOMAIN dir
        PROVE  ~Collides(k)
    <3>1. \A j \in 1..(k - 1) : j \in DOMAIN dir /\ j # k
      BY <2>1
    <3>2. QED BY <2>4, <2>6, <3>1 DEF Collides
  <2>7. ASSUME boot = "up", NEW k \in DOMAIN dir
        PROVE  LET latest == Lookup(dir[k].name, "latest")
               IN latest # 0 /\ dir[latest].name = dir[k].name /\ dir[latest].version >= dir[k].version
    <3> DEFINE name == dir[k].name
               V == Versions(name)
               v == Latest(name)
    <3>1. dir[k].version \in V
      <4>1. KeyOf(dir[k]) \in DOMAIN loaded
        BY <2>4, <2>7
      <4>2. QED BY <4>1 DEF Versions, KeyOf
    <3>2. \A w \in V : /\ <<name, w>> \in DOMAIN loaded /\ w \in {1, 2}
                       /\ loaded[<<name, w>>] \in DOMAIN dir
                       /\ KeyOf(dir[loaded[<<name, w>>]]) = <<name, w>>
      <4> SUFFICES ASSUME NEW w \in V
                   PROVE  /\ <<name, w>> \in DOMAIN loaded /\ w \in {1, 2}
                          /\ loaded[<<name, w>>] \in DOMAIN dir
                          /\ KeyOf(dir[loaded[<<name, w>>]]) = <<name, w>>
        OBVIOUS
      <4>1. PICK key \in DOMAIN loaded : key[1] = name /\ key[2] = w
        BY DEF Versions
      <4>2. /\ loaded[key] \in DOMAIN dir /\ KeyOf(dir[loaded[key]]) = key
            /\ Validates(dir[loaded[key]])
        BY DEF LoaderInv
      <4>3. key = <<dir[loaded[key]].name, dir[loaded[key]].version>>
        BY <4>2 DEF KeyOf
      <4>4. key = <<name, w>> /\ dir[loaded[key]].version = w
        BY <4>1, <4>3
      <4>5. QED BY <2>1, <4>2, <4>4
    <3> HIDE DEF V
    <3>3. \E x \in V : \A w \in V : w <= x
      <4>1. \A w \in V : w \in {1, 2}
        BY <3>2
      <4>2. CASE 2 \in V
        BY <4>1, <4>2
      <4>3. CASE 2 \notin V
        BY <3>1, <4>1, <4>3
      <4>4. QED BY <4>2, <4>3
    <3>4. v \in V /\ \A w \in V : w <= v
      BY <3>1, <3>3 DEF Latest, V
    <3>5. Lookup(name, "latest") = loaded[<<name, v>>]
      BY <3>4 DEF Lookup, V
    <3> HIDE DEF v
    <3>6. /\ loaded[<<name, v>>] \in DOMAIN dir
          /\ dir[loaded[<<name, v>>]].name = name /\ dir[loaded[<<name, v>>]].version = v
      BY <3>2, <3>4 DEF KeyOf
    <3>7. loaded[<<name, v>>] # 0 /\ dir[k].version <= v /\ v \in {1, 2} /\ dir[k].version \in {1, 2}
      <4>1. v \in {1, 2} /\ dir[k].version \in {1, 2}
        BY <3>1, <3>2, <3>4
      <4>2. loaded[<<name, v>>] # 0
        BY <2>1, <3>6
      <4>3. QED BY <3>1, <3>4, <4>1, <4>2
    <3>8. QED BY <3>5, <3>6, <3>7
  <2>8. QED BY <2>1, <2>3, <2>4, <2>5, <2>6, <2>7 DEF DirectoryServedWhole
<1>3. QED BY <1>1, <1>2, LoaderStep, PTL DEF Spec

-----------------------------------------------------------------------------
(***************************************************************************)
(* Spans: the document's items, the spans in their joined text, the fields *)
(* and the answer.                                                         *)
(***************************************************************************)

-----------------------------------------------------------------------------
(* Sequences computed entry by entry                                       *)

(***************************************************************************)
(* Induction along an interval, with a set in the place of the predicate:  *)
(* the least number that is not in the set has no predecessor in it.       *)
(***************************************************************************)
LEMMA AlongInterval ==
  ASSUME NEW lo \in Nat, NEW hi \in Int, NEW S, lo \in S,
         \A m \in lo..(hi - 1) : m \in S => m + 1 \in S
  PROVE  \A m \in lo..hi : m \in S
<1> SUFFICES ASSUME (lo..hi) \ S # {} PROVE FALSE
  OBVIOUS
<1>1. (lo..hi) \ S \subseteq Nat
  OBVIOUS
<1>2. PICK x \in (lo..hi) \ S : \A y \in (lo..hi) \ S : ~(<<y, x>> \in OpToRel(<, Nat))
  BY <1>1, NatLessThanWellFounded, WFMin
<1>3. \A y \in (lo..hi) \ S : ~(y < x)
  BY <1>1, <1>2 DEF OpToRel
<1>4. x - 1 \in lo..(hi - 1) /\ (x - 1) + 1 = x
  <2>1. x \in lo..hi /\ x # lo
    BY <1>2
  <2>2. QED BY <2>1
<1>5. x - 1 \in S
  BY <1>3, <1>4
<1>6. QED BY <1>2, <1>4, <1>5

\* g is computed along an interval, each entry from the one before it.
Computes(g, V, lo, hi, v, step) ==
  g \in [lo..hi -> V] /\ g[lo] = v /\ \A m \in (lo + 1)..hi : g[m] = step[m][g[m - 1]]

(***************************************************************************)
(* Such a function exists.                                                 *)
(***************************************************************************)
LEMMA Recursion ==
  ASSUME NEW V, NEW lo \in Nat, NEW hi \in Nat, lo <= hi, NEW v \in V,
         NEW step \in [lo..hi -> [V -> V]]
  PROVE  \E g : Computes(g, V, lo, hi, v, step)
<1> DEFINE Reaches(g, k) == /\ g \in [lo..k -> V] /\ g[lo] = v
                       /\ \A m \in (lo + 1)..k : g[m] = step[m][g[m - 1]]
           S == {k \in lo..hi : \E g : Reaches(g, k)}
<1>1. lo \in S
  <2> DEFINE g0 == [m \in lo..lo |-> v]
  <2>1. Reaches(g0, lo)
    OBVIOUS
  <2>2. lo \in lo..hi /\ \E g : Reaches(g, lo)
    <3> HIDE DEF Reaches, g0
    <3> QED BY <2>1
  <2>3. QED BY <2>2, Zenon
<1>2. ASSUME NEW k \in lo..(hi - 1), k \in S
      PROVE  k + 1 \in S
  <2>1. PICK g : Reaches(g, k)
    BY <1>2, Zenon
  <2> DEFINE h == [m \in lo..(k + 1) |-> IF m = k + 1 THEN step[k + 1][g[k]] ELSE g[m]]
  <2>2. /\ \A m \in lo..k : m \in lo..(k + 1) /\ m # k + 1
        /\ k + 1 \in lo..(k + 1) /\ k \in lo..k /\ k + 1 \in lo..hi /\ lo \in lo..k
        /\ \A m \in (lo + 1)..k : m \in lo..k /\ m - 1 \in lo..k
        /\ \A m \in lo..(k + 1) : m # k + 1 => m \in lo..k
        /\ (k + 1) - 1 = k
    OBVIOUS
  <2>3. g \in [lo..k -> V] /\ step[k + 1] \in [V -> V]
    BY <2>1, <2>2
  <2>4. step[k + 1][g[k]] \in V /\ \A m \in lo..k : g[m] \in V
    BY <2>2, <2>3, Zenon
  <2>5. (\A m \in lo..k : h[m] = g[m]) /\ h[k + 1] = step[k + 1][g[k]]
    BY <2>2
  <2>6. h \in [lo..(k + 1) -> V]
    BY <2>2, <2>4
  <2> HIDE DEF h
  <2>7. ASSUME NEW m \in (lo + 1)..(k + 1)
        PROVE  h[m] = step[m][h[m - 1]]
    <3>1. CASE m = k + 1
      BY <2>2, <2>5, <3>1
    <3>2. CASE m # k + 1
      <4>1. m \in (lo + 1)..k
        BY <3>2
      <4>2. g[m] = step[m][g[m - 1]]
        BY <2>1, <4>1, Zenon
      <4>3. QED BY <2>2, <2>5, <4>1, <4>2, Zenon
    <3>3. QED BY <3>1, <3>2, Zenon
  <2>8. h[lo] = v
    BY <2>1, <2>2, <2>5, Zenon
  <2>9. Reaches(h, k + 1)
    BY <2>6, <2>7, <2>8, Zenon
  <2>10. k + 1 \in lo..hi /\ \E f : Reaches(f, k + 1)
    <3> HIDE DEF Reaches
    <3> QED BY <2>2, <2>9
  <2>11. QED BY <2>10, Zenon
<1>3. \A m \in lo..hi : m \in S
  <2> HIDE DEF S
  <2>1. hi \in Int /\ \A m \in lo..(hi - 1) : m \in S => m + 1 \in S
    BY <1>2
  <2> QED BY <1>1, <2>1, AlongInterval
<1>4. \E g : Reaches(g, hi)
  <2>1. hi \in S
    <3> HIDE DEF S
    <3> QED BY <1>3
  <2>2. QED BY <2>1, Zenon
<1>5. QED BY <1>4, Zenon DEF Computes

(***************************************************************************)
(* InOrder computes what its name says.                                    *)
(***************************************************************************)
LEMMA InOrderUnfolds ==
  ASSUME NEW S, NEW n \in Nat
  PROVE  \E f : /\ InOrder(S, n) = f[n] /\ f[0] = <<>>
                /\ \A k \in 1..n : f[k] = IF k \in S THEN Append(f[k - 1], k) ELSE f[k - 1]
<1> DEFINE entry(k, s) == IF k = 0 THEN <<>> ELSE IF k \in S THEN Append(s, k) ELSE s
           Unfolds(f) == f = [k \in 0..n |-> entry(k, f[k - 1])]
<1>1. \E f : Unfolds(f)
  <2> DEFINE step == [k \in 0..n |-> [s \in Seq(Nat) |-> IF k \in S THEN Append(s, k) ELSE s]]
  <2>1. <<>> \in Seq(Nat)
    OBVIOUS
  <2>2. ASSUME NEW k \in 0..n
        PROVE  step[k] \in [Seq(Nat) -> Seq(Nat)]
    <3>1. \A s \in Seq(Nat) : Append(s, k) \in Seq(Nat)
      OBVIOUS
    <3>2. step[k] = [s \in Seq(Nat) |-> IF k \in S THEN Append(s, k) ELSE s]
      BY Zenon
    <3> HIDE DEF step
    <3>3. QED BY <3>1, <3>2
  <2>3. step \in [0..n -> [Seq(Nat) -> Seq(Nat)]]
    BY <2>2, Zenon
  <2>4. \A k \in 0..n, s \in Seq(Nat) : step[k][s] = IF k \in S THEN Append(s, k) ELSE s
    BY Zenon
  <2> HIDE DEF step
  <2>5. PICK f : Computes(f, Seq(Nat), 0, n, <<>>, step)
    <3> DEFINE V == Seq(Nat)
               empty == <<>>
    <3>1. 0 \in Nat /\ n \in Nat /\ 0 <= n /\ empty \in V /\ step \in [0..n -> [V -> V]]
      BY <2>1, <2>3
    <3> HIDE DEF V, empty
    <3>2. \E f : Computes(f, V, 0, n, empty, step)
      BY <3>1, Recursion
    <3>3. QED BY <3>2 DEF V, empty
  <2>6. /\ f \in [0..n -> Seq(Nat)] /\ f[0] = <<>>
        /\ \A m \in 1..n : f[m] = step[m][f[m - 1]]
    BY <2>5 DEF Computes
  <2>7. ASSUME NEW m \in 0..n
        PROVE  f[m] = entry(m, f[m - 1])
    <3>1. CASE m = 0
      BY <2>6, <3>1, Zenon
    <3>2. CASE m # 0
      <4>1. m \in 1..n /\ m - 1 \in 0..n
        BY <3>2
      <4>2. f[m] = step[m][f[m - 1]] /\ f[m - 1] \in Seq(Nat)
        BY <2>6, <4>1, Zenon
      <4>3. QED BY <2>4, <3>2, <4>2, Zenon
    <3>3. QED BY <3>1, <3>2, Zenon
  <2>8. f = [k \in 0..n |-> f[k]]
    BY <2>6
  <2> DEFINE ff == [k \in 0..n |-> entry(k, f[k - 1])]
  <2>9. f = ff
    BY <2>7, <2>8, Zenon
  <2>10. Unfolds(f)
    BY <2>9, Zenon
  <2> HIDE DEF Unfolds
  <2>11. QED BY <2>10, Zenon
<1>2. PICK f : Unfolds(f) /\ InOrder(S, n) = f[n]
  BY <1>1 DEF InOrder
<1> DEFINE ff == [k \in 0..n |-> entry(k, f[k - 1])]
<1>3. \A k \in 0..n : ff[k] = entry(k, f[k - 1])
  OBVIOUS
<1>4. f = ff
  BY <1>2, Zenon
<1>5. \A k \in 0..n : f[k] = entry(k, f[k - 1])
  BY <1>3, <1>4, Zenon
<1>6. 0 \in 0..n /\ \A k \in 1..n : k \in 0..n /\ k # 0
  OBVIOUS
<1>7. f[0] = <<>> /\ \A k \in 1..n : f[k] = IF k \in S THEN Append(f[k - 1], k) ELSE f[k - 1]
  BY <1>5, <1>6, Zenon
<1>8. QED BY <1>2, <1>7, Zenon

(***************************************************************************)
(* The positions of a set in order: all of them, each once, increasing.    *)
(***************************************************************************)
LEMMA InOrderFacts ==
  ASSUME NEW S, NEW n \in Nat
  PROVE  /\ InOrder(S, n) \in Seq(S \cap (1..n))
         /\ \A i, j \in DOMAIN InOrder(S, n) : i < j => InOrder(S, n)[i] < InOrder(S, n)[j]
         /\ \A k \in S \cap (1..n) : \E i \in DOMAIN InOrder(S, n) : InOrder(S, n)[i] = k
<1>1. PICK f : /\ InOrder(S, n) = f[n] /\ f[0] = <<>>
               /\ \A k \in 1..n : f[k] = IF k \in S THEN Append(f[k - 1], k) ELSE f[k - 1]
  BY InOrderUnfolds
<1> DEFINE P(s, m) == /\ s \in Seq(S \cap (1..m))
                      /\ \A i, j \in DOMAIN s : i < j => s[i] < s[j]
                      /\ \A k \in S \cap (1..m) : \E i \in DOMAIN s : s[i] = k
           Good == {m \in 0..n : P(f[m], m)}
<1>2. 0 \in Good
  <2>1. P(<<>>, 0) /\ 0 \in 0..n
    OBVIOUS
  <2> HIDE DEF P
  <2>2. QED BY <1>1, <2>1
<1>3. ASSUME NEW m \in 0..(n - 1), m \in Good
      PROVE  m + 1 \in Good
  <2> DEFINE s == f[m]
  <2>1. P(s, m)
    BY <1>3, Zenon
  <2>2. f[m + 1] = IF m + 1 \in S THEN Append(s, m + 1) ELSE s
    <3>1. m + 1 \in 1..n /\ (m + 1) - 1 = m
      OBVIOUS
    <3>2. QED BY <1>1, <3>1, Zenon
  <2> HIDE DEF s
  <2>3. S \cap (1..(m + 1)) = (S \cap (1..m)) \cup (S \cap {m + 1})
    OBVIOUS
  <2>4. m + 1 \in 0..n
    OBVIOUS
  <2>5. P(f[m + 1], m + 1)
    <3>1. CASE m + 1 \notin S
      <4>1. S \cap (1..(m + 1)) = S \cap (1..m)
        BY <2>3, <3>1
      <4>2. P(s, m + 1)
        BY <2>1, <4>1, Zenon
      <4> HIDE DEF P
      <4>3. QED BY <2>2, <3>1, <4>2, Zenon
    <3>2. CASE m + 1 \in S
      <4> DEFINE t == Append(s, m + 1)
      <4>1. /\ Len(s) \in Nat /\ DOMAIN s = 1..Len(s) /\ s \in Seq(S \cap (1..(m + 1)))
            /\ \A i \in DOMAIN s : s[i] \in 1..m
        BY <2>1, <2>3
      <4>2. /\ t \in Seq(S \cap (1..(m + 1))) /\ DOMAIN t = 1..(Len(s) + 1)
            /\ t[Len(s) + 1] = m + 1 /\ \A i \in 1..Len(s) : t[i] = s[i]
        BY <3>2, <4>1
      <4> HIDE DEF t
      <4>3. ASSUME NEW i \in DOMAIN t, NEW j \in DOMAIN t, i < j
            PROVE  t[i] < t[j]
        <5>1. i \in DOMAIN s /\ t[i] = s[i] /\ s[i] \in 1..m
          BY <4>1, <4>2, <4>3
        <5>2. CASE j = Len(s) + 1
          BY <4>2, <5>1, <5>2
        <5>3. CASE j # Len(s) + 1
          <6>1. j \in DOMAIN s /\ t[j] = s[j]
            BY <4>1, <4>2, <5>3
          <6>2. QED BY <2>1, <4>3, <5>1, <6>1, Zenon
        <5>4. QED BY <5>2, <5>3
      <4>4. ASSUME NEW k \in S \cap (1..(m + 1))
            PROVE  \E i \in DOMAIN t : t[i] = k
        <5>1. CASE k = m + 1
          BY <4>1, <4>2, <5>1
        <5>2. CASE k # m + 1
          <6>1. k \in S \cap (1..m)
            BY <5>2
          <6>2. PICK i \in DOMAIN s : s[i] = k
            BY <2>1, <6>1, Zenon
          <6>3. QED BY <4>1, <4>2, <6>2
        <5>3. QED BY <5>1, <5>2
      <4>5. P(t, m + 1)
        BY <4>2, <4>3, <4>4, Zenon
      <4> HIDE DEF P
      <4>6. QED BY <2>2, <3>2, <4>5 DEF t
    <3>3. QED BY <3>1, <3>2, Zenon
  <2> HIDE DEF P
  <2>6. QED BY <2>4, <2>5
<1>4. n \in Good
  <2> HIDE DEF Good
  <2> QED BY <1>2, <1>3, AlongInterval
<1>5. QED BY <1>1, <1>4, Zenon

-----------------------------------------------------------------------------
(* The offsets of the blocks                                               *)

(***************************************************************************)
(* The least member of a set of numbers.                                   *)
(***************************************************************************)
LEMMA MinOf ==
  ASSUME NEW S, S \subseteq Nat, S # {}
  PROVE  Min(S) \in S /\ \A y \in S : Min(S) <= y
<1>1. PICK x \in S : \A y \in S : ~(<<y, x>> \in OpToRel(<, Nat))
  BY NatLessThanWellFounded, WFMin
<1>2. x \in S /\ \A y \in S : x <= y
  <2>1. \A y \in S : ~(y < x)
    BY <1>1 DEF OpToRel
  <2>2. QED BY <2>1
<1>3. QED BY <1>2 DEF Min

(***************************************************************************)
(* The greatest member of a finite interval's subset is the least one seen *)
(* from the other end.                                                     *)
(***************************************************************************)
LEMMA MaxOf ==
  ASSUME NEW n \in Nat, NEW S, S \subseteq 1..n, S # {}
  PROVE  Max(S) \in S /\ \A y \in S : Max(S) >= y
<1> DEFINE T == {n - y : y \in S}
<1>1. T \subseteq Nat /\ T # {}
  <2>1. \A y \in S : n - y \in Nat
    OBVIOUS
  <2>2. QED BY <2>1
<1>2. PICK x \in S : Min(T) = n - x
  BY <1>1, MinOf
<1>3. \A y \in S : n - y \in T
  OBVIOUS
<1>4. x \in S /\ \A y \in S : x >= y
  <2> SUFFICES ASSUME NEW y \in S PROVE x >= y
    BY <1>2
  <2>1. Min(T) <= n - y
    BY <1>1, <1>3, MinOf
  <2>2. x \in 1..n /\ y \in 1..n
    BY <1>2
  <2>3. QED BY <1>2, <2>1, <2>2
<1>5. QED BY <1>4 DEF Max

\* The texts of the blocks are texts.
HaveTexts(bs) ==
  /\ Len(bs) \in Nat /\ DOMAIN bs = 1..Len(bs)
  /\ \A k \in 1..Len(bs) : Len(bs[k].text) \in Nat /\ DOMAIN bs[k].text = 1..Len(bs[k].text)

(***************************************************************************)
(* Each block starts behind the one before it and the separator.           *)
(***************************************************************************)
LEMMA StartsUnfolds ==
  ASSUME NEW bs, HaveTexts(bs)
  PROVE  \A k \in 1..Len(bs) :
           /\ Starts(bs)[k] \in Nat
           /\ Starts(bs)[k] = IF k = 1 THEN 0 ELSE Starts(bs)[k - 1] + Len(bs[k - 1].text) + 2
<1> DEFINE n == Len(bs)
           size(k) == Len(bs[k].text)
           entry(k, v) == IF k = 1 THEN 0 ELSE v + size(k - 1) + SeparatorLength
           Unfolds(f) == f = [k \in 1..n |-> entry(k, f[k - 1])]
<1>0. n \in Nat /\ \A k \in 1..n : size(k) \in Nat
  BY DEF HaveTexts
<1> HIDE DEF n, size
<1>1. SUFFICES ASSUME 1 <= n
               PROVE  \A k \in 1..n : /\ Starts(bs)[k] \in Nat
                                      /\ Starts(bs)[k] = entry(k, Starts(bs)[k - 1])
  BY <1>0 DEF n, size, SeparatorLength
<1>2. \E f : Unfolds(f)
  <2> DEFINE step == [k \in 1..n |-> [v \in Nat |-> IF k = 1 THEN 0 ELSE v + size(k - 1) + SeparatorLength]]
  <2>1. ASSUME NEW k \in 1..n
        PROVE  [v \in Nat |-> IF k = 1 THEN 0 ELSE v + size(k - 1) + SeparatorLength] \in [Nat -> Nat]
    <3>1. k # 1 => k - 1 \in 1..n
      BY <1>0
    <3>2. \A v \in Nat : (IF k = 1 THEN 0 ELSE v + size(k - 1) + SeparatorLength) \in Nat
      BY <1>0, <3>1 DEF SeparatorLength
    <3>3. QED BY <3>2
  <2>2. step \in [1..n -> [Nat -> Nat]]
    BY <2>1, Zenon
  <2>3. \A k \in 1..n, v \in Nat : step[k][v] = entry(k, v)
    BY Zenon
  <2> HIDE DEF step
  <2>4. 1 \in Nat /\ 0 \in Nat /\ 1 \in 1..n
    BY <1>0, <1>1
  <2>5. PICK f : Computes(f, Nat, 1, n, 0, step)
    BY <1>0, <1>1, <2>2, <2>4, Recursion
  <2>6. /\ f \in [1..n -> Nat] /\ f[1] = 0
        /\ \A m \in 2..n : f[m] = step[m][f[m - 1]]
    BY <2>5 DEF Computes
  <2>7. ASSUME NEW m \in 1..n
        PROVE  f[m] = entry(m, f[m - 1])
    <3>1. CASE m = 1
      BY <2>6, <3>1, Zenon
    <3>2. CASE m # 1
      <4>1. m \in 2..n /\ m - 1 \in 1..n
        BY <1>0, <3>2
      <4>2. f[m] = step[m][f[m - 1]] /\ f[m - 1] \in Nat
        BY <2>6, <4>1, Zenon
      <4>3. QED BY <2>3, <4>2, Zenon
    <3>3. QED BY <3>1, <3>2, Zenon
  <2>8. f = [k \in 1..n |-> f[k]]
    BY <2>6
  <2> DEFINE ff == [k \in 1..n |-> entry(k, f[k - 1])]
  <2>9. f = ff
    BY <2>7, <2>8, Zenon
  <2>10. Unfolds(f)
    BY <2>9, Zenon
  <2> HIDE DEF Unfolds
  <2>11. QED BY <2>10, Zenon
<1>3. \A f : Unfolds(f) => \A k \in 1..n : f[k] = entry(k, f[k - 1])
  <2> SUFFICES ASSUME NEW f, Unfolds(f) PROVE \A k \in 1..n : f[k] = entry(k, f[k - 1])
    BY Zenon
  <2> DEFINE ff == [k \in 1..n |-> entry(k, f[k - 1])]
  <2>1. \A k \in 1..n : ff[k] = entry(k, f[k - 1])
    BY Zenon
  <2>2. f = ff
    BY Zenon
  <2>3. QED BY <2>1, <2>2, Zenon
<1>4. Unfolds(Starts(bs))
  <2>1. Starts(bs) = CHOOSE f : Unfolds(f)
    BY DEF Starts, n, size
  <2>2. \E f : Unfolds(f)
    BY <1>2, Zenon
  <2> HIDE DEF Unfolds
  <2>3. QED BY <2>1, <2>2, Zenon
<1>5. \A k \in 1..n : Starts(bs)[k] = entry(k, Starts(bs)[k - 1])
  BY <1>3, <1>4, Zenon
<1>6. ASSUME NEW k \in 1..n
      PROVE  Starts(bs)[k] \in Nat
  <2> DEFINE Good == {m \in 1..n : Starts(bs)[m] \in Nat}
  <2>1. 1 \in Good
    BY <1>1, <1>5, <1>0
  <2>2. ASSUME NEW m \in 1..(n - 1), m \in Good
        PROVE  m + 1 \in Good
    <3>1. m + 1 \in 1..n /\ m + 1 # 1 /\ (m + 1) - 1 = m /\ m \in 1..n /\ size(m) \in Nat
      BY <1>0
    <3>2. Starts(bs)[m + 1] = Starts(bs)[m] + size(m) + SeparatorLength
      BY <1>5, <3>1
    <3>3. QED BY <2>2, <3>1, <3>2 DEF SeparatorLength
  <2> HIDE DEF Good
  <2>3. k \in Good
    BY <1>0, <2>1, <2>2, AlongInterval
  <2>4. QED BY <2>3 DEF Good
<1>7. QED BY <1>5, <1>6

\* Where the text of a block ends.
EndOf(bs, k) == Starts(bs)[k] + Len(bs[k].text)

(***************************************************************************)
(* Between the end of a block and the start of any later one there is a    *)
(* separator, so that the blocks do not overlap.                           *)
(***************************************************************************)
LEMMA StartsIncrease ==
  ASSUME NEW bs, HaveTexts(bs), NEW j \in 1..Len(bs), NEW k \in 1..Len(bs), j < k
  PROVE  EndOf(bs, j) + 2 <= Starts(bs)[k]
<1> DEFINE n == Len(bs)
           s(i) == Starts(bs)[i]
           size(i) == Len(bs[i].text)
<1>1. /\ n \in Nat
      /\ \A i \in 1..n : s(i) \in Nat /\ size(i) \in Nat
      /\ \A i \in 1..n : i # 1 => s(i) = s(i - 1) + size(i - 1) + 2
  BY StartsUnfolds DEF HaveTexts
<1>2. j \in 1..n /\ k \in 1..n
  OBVIOUS
<1> HIDE DEF n, s, size
<1> DEFINE Good == {i \in (j + 1)..n : s(j) + size(j) + 2 <= s(i)}
<1>3. j + 1 \in Good
  <2>1. j + 1 \in 1..n /\ j + 1 # 1 /\ (j + 1) - 1 = j /\ j + 1 \in (j + 1)..n
    BY <1>1, <1>2
  <2>2. s(j + 1) = s(j) + size(j) + 2
    BY <1>1, <2>1
  <2>3. QED BY <1>1, <1>2, <2>1, <2>2
<1>4. ASSUME NEW i \in (j + 1)..(n - 1), i \in Good
      PROVE  i + 1 \in Good
  <2>1. i + 1 \in 1..n /\ i + 1 # 1 /\ (i + 1) - 1 = i /\ i \in 1..n /\ i + 1 \in (j + 1)..n
    BY <1>1, <1>2
  <2>2. s(i + 1) = s(i) + size(i) + 2
    BY <1>1, <2>1
  <2>3. s(j) + size(j) + 2 <= s(i)
    BY <1>4
  <2>4. s(i) \in Nat /\ size(i) \in Nat /\ s(j) \in Nat /\ size(j) \in Nat
    BY <1>1, <1>2, <2>1
  <2>5. QED BY <2>1, <2>2, <2>3, <2>4
<1> HIDE DEF Good
<1>5. j + 1 \in Nat /\ n \in Int /\ k \in (j + 1)..n
  BY <1>1, <1>2
<1>6. k \in Good
  BY <1>3, <1>4, <1>5, AlongInterval
<1>7. QED BY <1>6 DEF Good, s, size, EndOf

-----------------------------------------------------------------------------
(* Joined sequences                                                        *)

(***************************************************************************)
(* FlattenSeq appends one sequence after the other.                        *)
(***************************************************************************)
LEMMA FlattenUnfolds ==
  ASSUME NEW T, NEW seqs \in Seq(Seq(T)), Len(seqs) # 0
  PROVE  \E f : /\ FlattenSeq(seqs) = f[Len(seqs)]
                /\ \A k \in 1..Len(seqs) : f[k] \in Seq(T)
                /\ f[1] = seqs[1]
                /\ \A k \in 2..Len(seqs) : f[k] = f[k - 1] \o seqs[k]
<1> DEFINE n == Len(seqs)
           V == Seq(T)
           entry(k, v) == IF k = 1 THEN seqs[k] ELSE v \o seqs[k]
           Unfolds(f) == f = [k \in 1..n |-> entry(k, f[k - 1])]
<1>1. n \in Nat /\ 1 \in Nat /\ 1 <= n /\ 1 \in 1..n /\ \A k \in 1..n : seqs[k] \in V
  OBVIOUS
<1>2. \A v, w \in V : v \o w \in V
  OBVIOUS
<1>3. FlattenSeq(seqs) = (CHOOSE f : Unfolds(f))[n]
  BY DEF FlattenSeq
<1> HIDE DEF n, V
<1>4. \E f : Unfolds(f)
  <2> DEFINE step == [k \in 1..n |-> [v \in V |-> entry(k, v)]]
  <2>1. ASSUME NEW k \in 1..n
        PROVE  [v \in V |-> entry(k, v)] \in [V -> V]
    BY <1>1, <1>2
  <2>2. step \in [1..n -> [V -> V]]
    BY <2>1, Zenon
  <2>3. \A k \in 1..n, v \in V : step[k][v] = entry(k, v)
    BY Zenon
  <2> HIDE DEF step
  <2>4. seqs[1] \in V
    BY <1>1
  <2>5. PICK f : Computes(f, V, 1, n, seqs[1], step)
    BY <1>1, <2>2, <2>4, Recursion
  <2>6. /\ f \in [1..n -> V] /\ f[1] = seqs[1]
        /\ \A m \in 2..n : f[m] = step[m][f[m - 1]]
    BY <2>5 DEF Computes
  <2>7. ASSUME NEW m \in 1..n
        PROVE  f[m] = entry(m, f[m - 1])
    <3>1. CASE m = 1
      BY <2>6, <3>1, Zenon
    <3>2. CASE m # 1
      <4>1. m \in 2..n /\ m - 1 \in 1..n
        BY <1>1, <3>2
      <4>2. f[m] = step[m][f[m - 1]] /\ f[m - 1] \in V
        BY <2>6, <4>1, Zenon
      <4>3. QED BY <2>3, <4>2, Zenon
    <3>3. QED BY <3>1, <3>2, Zenon
  <2>8. f = [k \in 1..n |-> f[k]]
    BY <2>6
  <2> DEFINE ff == [k \in 1..n |-> entry(k, f[k - 1])]
  <2>9. f = ff
    BY <2>7, <2>8, Zenon
  <2>10. Unfolds(f)
    BY <2>9, Zenon
  <2> HIDE DEF Unfolds
  <2>11. QED BY <2>10, Zenon
<1>5. PICK f : Unfolds(f) /\ FlattenSeq(seqs) = f[n]
  <2> HIDE DEF Unfolds
  <2> QED BY <1>3, <1>4, Zenon
<1>6. \A k \in 1..n : f[k] = entry(k, f[k - 1])
  <2> DEFINE ff == [k \in 1..n |-> entry(k, f[k - 1])]
  <2>1. \A k \in 1..n : ff[k] = entry(k, f[k - 1])
    BY Zenon
  <2>2. f = ff
    BY <1>5, Zenon
  <2>3. QED BY <2>1, <2>2, Zenon
<1>7. \A k \in 2..n : k \in 1..n /\ k # 1 /\ k - 1 \in 1..n
  BY <1>1
<1>8. f[1] = seqs[1] /\ \A k \in 2..n : f[k] = f[k - 1] \o seqs[k]
  BY <1>1, <1>6, <1>7, Zenon
<1>9. \A k \in 1..n : f[k] \in V
  <2> DEFINE Good == {m \in 1..n : f[m] \in V}
  <2>1. 1 \in Good
    BY <1>1, <1>8
  <2>2. ASSUME NEW m \in 1..(n - 1), m \in Good
        PROVE  m + 1 \in Good
    <3>1. m + 1 \in 2..n /\ (m + 1) - 1 = m /\ m + 1 \in 1..n
      BY <1>1
    <3>2. f[m + 1] = f[m] \o seqs[m + 1] /\ f[m] \in V /\ seqs[m + 1] \in V
      BY <1>1, <1>8, <2>2, <3>1
    <3>3. QED BY <1>2, <3>1, <3>2
  <2> HIDE DEF Good
  <2>3. 1 \in Nat /\ n \in Int /\ \A m \in 1..(n - 1) : m \in Good => m + 1 \in Good
    BY <1>1, <2>2
  <2>4. \A k \in 1..n : k \in Good
    BY <2>1, <2>3, AlongInterval
  <2>5. QED BY <2>4 DEF Good
<1>10. QED BY <1>5, <1>8, <1>9, Zenon DEF n, V

\* The same as one statement about f, for contexts with more than one sequence.
Unfolding(f, seqs, T) ==
  /\ FlattenSeq(seqs) = f[Len(seqs)]
  /\ \A k \in 1..Len(seqs) : f[k] \in Seq(T)
  /\ f[1] = seqs[1]
  /\ \A k \in 2..Len(seqs) : f[k] = f[k - 1] \o seqs[k]

LEMMA FlattenUnfolding ==
  ASSUME NEW T, NEW seqs \in Seq(Seq(T)), Len(seqs) # 0
  PROVE  \E f : Unfolding(f, seqs, T)
BY FlattenUnfolds DEF Unfolding

(***************************************************************************)
(* Joined sequences have the members of the sequences.                     *)
(***************************************************************************)
LEMMA FlattenMembers ==
  ASSUME NEW T, NEW seqs \in Seq(Seq(T))
  PROVE  /\ FlattenSeq(seqs) \in Seq(T)
         /\ ToSet(FlattenSeq(seqs)) = UNION {ToSet(seqs[k]) : k \in 1..Len(seqs)}
<1>1. CASE Len(seqs) = 0
  <2>1. FlattenSeq(seqs) = <<>>
    BY <1>1 DEF FlattenSeq
  <2>2. QED BY <1>1, <2>1 DEF ToSet
<1>2. CASE Len(seqs) # 0
  <2>1. PICK f : /\ FlattenSeq(seqs) = f[Len(seqs)]
                 /\ \A k \in 1..Len(seqs) : f[k] \in Seq(T)
                 /\ f[1] = seqs[1]
                 /\ \A k \in 2..Len(seqs) : f[k] = f[k - 1] \o seqs[k]
    BY <1>2, FlattenUnfolds
  <2> DEFINE n == Len(seqs)
             all(m) == UNION {ToSet(seqs[k]) : k \in 1..m}
             Good == {m \in 1..n : ToSet(f[m]) = all(m)}
  <2>2. n \in Nat /\ 1 \in 1..n /\ n \in 1..n /\ \A k \in 1..n : seqs[k] \in Seq(T)
    BY <1>2
  <2>3. 1 \in Good
    BY <2>1, <2>2
  <2>4. ASSUME NEW m \in 1..(n - 1), m \in Good
        PROVE  m + 1 \in Good
    <3>1. m + 1 \in 2..n /\ (m + 1) - 1 = m /\ m + 1 \in 1..n /\ m \in 1..n
      BY <2>2
    <3>2. f[m + 1] = f[m] \o seqs[m + 1] /\ f[m] \in Seq(T) /\ seqs[m + 1] \in Seq(T)
      BY <2>1, <2>2, <3>1
    <3>3. ToSet(f[m + 1]) = ToSet(f[m]) \cup ToSet(seqs[m + 1])
      <4>1. \A v, w \in Seq(T) : ToSet(v \o w) = ToSet(v) \cup ToSet(w)
        <5> SUFFICES ASSUME NEW v \in Seq(T), NEW w \in Seq(T)
                     PROVE  ToSet(v \o w) = ToSet(v) \cup ToSet(w)
          OBVIOUS
        <5> DEFINE u == v \o w
        <5>1. /\ DOMAIN u = 1..(Len(v) + Len(w)) /\ Len(v) \in Nat /\ Len(w) \in Nat
              /\ DOMAIN v = 1..Len(v) /\ DOMAIN w = 1..Len(w)
              /\ \A i \in 1..(Len(v) + Len(w)) : u[i] = IF i <= Len(v) THEN v[i] ELSE w[i - Len(v)]
          OBVIOUS
        <5> HIDE DEF u
        <5>2. ASSUME NEW i \in DOMAIN u PROVE u[i] \in ToSet(v) \cup ToSet(w)
          <6>1. CASE i <= Len(v)
            <7>1. u[i] = v[i] /\ i \in DOMAIN v
              BY <5>1, <6>1
            <7>2. QED BY <7>1 DEF ToSet
          <6>2. CASE ~(i <= Len(v))
            <7>1. u[i] = w[i - Len(v)] /\ i - Len(v) \in DOMAIN w
              BY <5>1, <6>2
            <7>2. QED BY <7>1 DEF ToSet
          <6>3. QED BY <6>1, <6>2
        <5>3. ASSUME NEW i \in DOMAIN v PROVE v[i] \in ToSet(u)
          <6>1. i \in DOMAIN u /\ u[i] = v[i]
            BY <5>1
          <6>2. QED BY <6>1 DEF ToSet
        <5>4. ASSUME NEW i \in DOMAIN w PROVE w[i] \in ToSet(u)
          <6>1. i \in 1..Len(w) /\ i + Len(v) \in 1..(Len(v) + Len(w))
            BY <5>1
          <6>2. ~(i + Len(v) <= Len(v)) /\ (i + Len(v)) - Len(v) = i
            BY <5>1
          <6>3. i + Len(v) \in DOMAIN u /\ u[i + Len(v)] = w[i]
            BY <5>1, <6>1, <6>2
          <6>4. QED BY <6>3 DEF ToSet
        <5>5. ToSet(u) = ToSet(v) \cup ToSet(w)
          BY <5>2, <5>3, <5>4 DEF ToSet
        <5>6. QED BY <5>5 DEF u
      <4>2. QED BY <3>2, <4>1
    <3>4. all(m + 1) = all(m) \cup ToSet(seqs[m + 1])
      <4>1. 1..(m + 1) = (1..m) \cup {m + 1}
        OBVIOUS
      <4>2. QED BY <4>1
    <3> HIDE DEF all
    <3>5. QED BY <2>4, <3>1, <3>3, <3>4
  <2> HIDE DEF Good
  <2>5. 1 \in Nat /\ n \in Int /\ \A m \in 1..(n - 1) : m \in Good => m + 1 \in Good
    BY <2>2, <2>4
  <2>6. n \in Good
    BY <2>2, <2>3, <2>5, AlongInterval
  <2>7. f[n] \in Seq(T) /\ ToSet(f[n]) = all(n)
    BY <2>1, <2>2, <2>6 DEF Good
  <2>8. QED BY <2>1, <2>7
<1>3. QED BY <1>1, <1>2

-----------------------------------------------------------------------------
(* The joined text and the index                                           *)

\* Character o of the joined text, counted from 0, is one of block k.
Covers(k, o) == Starts(blocks)[k] <= o /\ o < EndOf(blocks, k)

\* What the parser and the concatenator establish.
Located ==
  /\ HaveTexts(blocks) /\ Len(blocks) # 0
  /\ index = Concatenate(blocks)
  /\ \A j, k \in 1..Len(blocks) : blocks[j].id = blocks[k].id => j = k

(***************************************************************************)
(* The reference of the properties: each character of the joined text      *)
(* belongs to the block whose offsets hold it, and the separators to none. *)
(***************************************************************************)
LEMMA OwnersFacts ==
  ASSUME Located
  PROVE  /\ Owners \in Seq(0..Len(blocks))
         /\ Len(Owners) = EndOf(blocks, Len(blocks))
         /\ \A o \in 0..(Len(Owners) - 1), k \in 1..Len(blocks) : Owners[o + 1] = k <=> Covers(k, o)
<1> DEFINE n == Len(blocks)
           s(k) == Starts(blocks)[k]
           size(k) == Len(blocks[k].text)
           gap(k) == IF k = 1 THEN 0 ELSE 2
           own(k) == [j \in DOMAIN blocks[k].text |-> k]
           part(k) == (IF k = 1 THEN <<>> ELSE <<0, 0>>) \o own(k)
           seqs == [k \in DOMAIN blocks |-> part(k)]
<1>1. /\ n \in Nat \ {0} /\ DOMAIN blocks = 1..n
      /\ \A k \in 1..n : s(k) \in Nat /\ size(k) \in Nat /\ DOMAIN blocks[k].text = 1..size(k)
      /\ \A k \in 1..n : s(k) = IF k = 1 THEN 0 ELSE s(k - 1) + size(k - 1) + 2
  BY StartsUnfolds DEF Located, HaveTexts
<1>2. \A j, k \in 1..n : j < k => s(j) + size(j) + 2 <= s(k)
  BY StartsIncrease DEF Located, EndOf
<1>3. \A k \in 1..n : EndOf(blocks, k) = s(k) + size(k)
  BY DEF EndOf
<1>4. Owners = FlattenSeq(seqs)
  BY DEF Owners
<1> HIDE DEF n, s, size
<1>5. ASSUME NEW k \in 1..n
      PROVE  /\ part(k) \in Seq(0..n) /\ Len(part(k)) = gap(k) + size(k)
             /\ \A i \in 1..(gap(k) + size(k)) : part(k)[i] = IF i <= gap(k) THEN 0 ELSE k
  <2>1. own(k) = [j \in 1..size(k) |-> k]
    BY <1>1
  <2>2. own(k) \in Seq(0..n) /\ Len(own(k)) = size(k) /\ \A j \in 1..size(k) : own(k)[j] = k
    BY <1>1, <2>1
  <2> HIDE DEF own
  <2>3. <<>> \in Seq(0..n) /\ <<0, 0>> \in Seq(0..n) /\ 0 \in 0..n
    BY <1>1
  <2>4. CASE k = 1
    <3>1. part(k) = <<>> \o own(k) /\ gap(k) = 0
      BY <2>4
    <3>2. part(k) = own(k)
      BY <2>2, <3>1
    <3>3. \A i \in 1..(gap(k) + size(k)) : ~(i <= gap(k)) /\ i \in 1..size(k)
      BY <1>1, <3>1
    <3>4. gap(k) + size(k) = size(k)
      BY <1>1, <3>1
    <3> HIDE DEF gap, part
    <3>5. QED BY <2>2, <3>2, <3>3, <3>4
  <2>5. CASE k # 1
    <3> DEFINE w == own(k)
               z == <<0, 0>>
    <3>1. part(k) = z \o w /\ gap(k) = 2
      BY <2>5
    <3>2. w \in Seq(0..n) /\ z \in Seq(0..n) /\ Len(z) = 2 /\ z[1] = 0 /\ z[2] = 0 /\ size(k) \in Nat
      BY <1>1, <2>2, <2>3
    <3> HIDE DEF w, z
    <3>3. /\ z \o w \in Seq(0..n) /\ Len(z \o w) = 2 + Len(w)
          /\ \A i \in 1..(2 + Len(w)) : (z \o w)[i] = IF i <= 2 THEN z[i] ELSE w[i - 2]
      <4>1. ASSUME NEW a \in Seq(0..n), NEW b \in Seq(0..n)
            PROVE  /\ a \o b \in Seq(0..n) /\ Len(a \o b) = Len(a) + Len(b)
                   /\ \A i \in 1..(Len(a) + Len(b)) : (a \o b)[i] = IF i <= Len(a) THEN a[i] ELSE b[i - Len(a)]
        OBVIOUS
      <4>2. /\ z \o w \in Seq(0..n) /\ Len(z \o w) = Len(z) + Len(w)
            /\ \A i \in 1..(Len(z) + Len(w)) : (z \o w)[i] = IF i <= Len(z) THEN z[i] ELSE w[i - Len(z)]
        BY <3>2, <4>1, Zenon
      <4>3. QED BY <3>2, <4>2
    <3>4. Len(w) = size(k) /\ \A j \in 1..size(k) : w[j] = k
      BY <2>2 DEF w
    <3>5. \A i \in 1..(2 + size(k)) : (z \o w)[i] = IF i <= 2 THEN 0 ELSE k
      <4> SUFFICES ASSUME NEW i \in 1..(2 + size(k)) PROVE (z \o w)[i] = IF i <= 2 THEN 0 ELSE k
        OBVIOUS
      <4>1. CASE i <= 2
        <5>1. i = 1 \/ i = 2
          BY <4>1
        <5>2. QED BY <3>2, <3>3, <3>4, <4>1, <5>1
      <4>2. CASE ~(i <= 2)
        <5>1. i - 2 \in 1..size(k)
          BY <3>2, <4>2
        <5>2. QED BY <3>3, <3>4, <4>2, <5>1
      <4>3. QED BY <4>1, <4>2
    <3> HIDE DEF gap, part
    <3>6. QED BY <3>1, <3>3, <3>4, <3>5
  <2>6. QED BY <2>4, <2>5
<1> HIDE DEF part
<1>6. seqs = [k \in 1..n |-> part(k)]
  BY <1>1
<1>7. seqs \in Seq(Seq(0..n)) /\ Len(seqs) = n /\ \A k \in 1..n : seqs[k] = part(k)
  BY <1>1, <1>5, <1>6
<1> HIDE DEF seqs
<1>8. PICK f : /\ Owners = f[n]
               /\ \A k \in 1..n : f[k] \in Seq(0..n)
               /\ f[1] = part(1)
               /\ \A k \in 2..n : f[k] = f[k - 1] \o part(k)
  <2>1. Len(seqs) # 0
    BY <1>1, <1>7
  <2>2. PICK f : /\ FlattenSeq(seqs) = f[Len(seqs)]
                 /\ \A k \in 1..Len(seqs) : f[k] \in Seq(0..n)
                 /\ f[1] = seqs[1]
                 /\ \A k \in 2..Len(seqs) : f[k] = f[k - 1] \o seqs[k]
    BY <1>7, <2>1, FlattenUnfolds
  <2>3. 1 \in 1..n /\ \A k \in 2..n : k \in 1..n
    BY <1>1
  <2>4. QED BY <1>4, <1>7, <2>2, <2>3
<1> DEFINE P(w, k) ==
             /\ Len(w) = s(k) + size(k)
             /\ \A p \in 1..(s(k) + size(k)), j \in 1..n : w[p] = j <=> s(j) < p /\ p <= s(j) + size(j)
           Good == {k \in 1..n : P(f[k], k)}
<1>9. 1 \in Good
  <2>1. 1 \in 1..n /\ s(1) = 0 /\ size(1) \in Nat /\ gap(1) = 0
    BY <1>1
  <2>2. Len(f[1]) = size(1) /\ \A i \in 1..size(1) : f[1][i] = 1
    BY <1>5, <1>8, <2>1
  <2>3. \A j \in 1..n : j # 1 => size(1) + 2 <= s(j)
    <3>1. \A j \in 1..n : j # 1 => 1 < j
      BY <1>1
    <3>2. \A j \in 1..n : 1 < j => s(1) + size(1) + 2 <= s(j)
      BY <1>2, <2>1
    <3>3. QED BY <2>1, <3>1, <3>2
  <2>4. ASSUME NEW p \in 1..size(1), NEW j \in 1..n
        PROVE  f[1][p] = j <=> s(j) < p /\ p <= s(j) + size(j)
    <3>1. f[1][p] = 1 /\ s(j) \in Nat /\ size(j) \in Nat
      BY <1>1, <2>2
    <3>2. CASE j = 1
      BY <2>1, <3>1, <3>2
    <3>3. CASE j # 1
      <4>1. size(1) + 2 <= s(j)
        BY <2>3, <3>3
      <4>2. QED BY <2>1, <3>1, <3>3, <4>1
    <3>4. QED BY <3>2, <3>3
  <2>5. s(1) + size(1) = size(1)
    BY <2>1
  <2>6. P(f[1], 1)
    BY <2>2, <2>4, <2>5
  <2> HIDE DEF P
  <2>7. QED BY <2>1, <2>6
<1>10. ASSUME NEW k \in 1..(n - 1), k \in Good
       PROVE  k + 1 \in Good
  <2> DEFINE e == s(k) + size(k)
             v == f[k]
             w == part(k + 1)
             u == f[k + 1]
  <2>1. /\ k \in 1..n /\ k + 1 \in 1..n /\ k + 1 \in 2..n /\ (k + 1) - 1 = k /\ k + 1 # 1
        /\ gap(k + 1) = 2
    BY <1>1
  <2>2. /\ s(k + 1) = e + 2 /\ e \in Nat /\ size(k + 1) \in Nat /\ s(k) \in Nat /\ size(k) \in Nat
    BY <1>1, <2>1
  <2>3. P(v, k)
    BY <1>10, Zenon
  <2>4. /\ u = v \o w /\ v \in Seq(0..n) /\ w \in Seq(0..n) /\ Len(v) = e
        /\ Len(w) = 2 + size(k + 1)
        /\ \A i \in 1..(2 + size(k + 1)) : w[i] = IF i <= 2 THEN 0 ELSE k + 1
    BY <1>5, <1>8, <2>1, <2>3
  <2> HIDE DEF e, u, v, w, P
  <2>5. /\ Len(u) = e + 2 + size(k + 1)
        /\ \A p \in 1..(e + 2 + size(k + 1)) : u[p] = IF p <= e THEN v[p] ELSE w[p - e]
    <3>1. ASSUME NEW a \in Seq(0..n), NEW b \in Seq(0..n)
          PROVE  /\ Len(a \o b) = Len(a) + Len(b)
                 /\ \A i \in 1..(Len(a) + Len(b)) : (a \o b)[i] = IF i <= Len(a) THEN a[i] ELSE b[i - Len(a)]
      OBVIOUS
    <3>2. Len(v) + Len(w) = e + 2 + size(k + 1)
      BY <2>2, <2>4
    <3>3. Len(u) = Len(v) + Len(w) /\ \A i \in 1..(Len(v) + Len(w)) : u[i] = IF i <= Len(v) THEN v[i] ELSE w[i - Len(v)]
      BY <2>4, <3>1, Zenon
    <3>4. QED BY <2>4, <3>2, <3>3
  <2>6. \A j \in 1..n : j < k + 1 => s(j) + size(j) <= e
    <3> SUFFICES ASSUME NEW j \in 1..n, j < k + 1 PROVE s(j) + size(j) <= e
      OBVIOUS
    <3>1. CASE j = k
      BY <2>2, <3>1 DEF e
    <3>2. CASE j # k
      <4>1. j < k
        BY <3>2
      <4>2. s(j) + size(j) + 2 <= s(k)
        BY <1>2, <2>1, <4>1
      <4>3. s(j) \in Nat /\ size(j) \in Nat
        BY <1>1
      <4>4. QED BY <2>2, <4>2, <4>3 DEF e
    <3>3. QED BY <3>1, <3>2
  <2>7. \A j \in 1..n : k + 1 < j => e + 2 + size(k + 1) + 2 <= s(j)
    BY <1>2, <2>1, <2>2
  <2>8. ASSUME NEW p \in 1..(e + 2 + size(k + 1)), NEW j \in 1..n
        PROVE  u[p] = j <=> s(j) < p /\ p <= s(j) + size(j)
    <3>0. s(j) \in Nat /\ size(j) \in Nat
      BY <1>1
    <3>1. CASE p <= e
      <4>1. p \in 1..e /\ u[p] = v[p]
        BY <2>2, <2>5, <3>1
      <4>2. v[p] = j <=> s(j) < p /\ p <= s(j) + size(j)
        BY <2>3, <4>1 DEF P, e
      <4>3. QED BY <4>1, <4>2
    <3>2. CASE ~(p <= e) /\ p <= e + 2
      <4>1. p - e \in 1..(2 + size(k + 1)) /\ p - e <= 2
        BY <2>2, <3>2
      <4>2. u[p] = 0
        BY <2>4, <2>5, <3>2, <4>1
      <4>3. j < k + 1 \/ j = k + 1 \/ k + 1 < j
        OBVIOUS
      <4>4. ~(s(j) < p /\ p <= s(j) + size(j))
        BY <2>2, <2>6, <2>7, <3>0, <3>2, <4>3
      <4>5. QED BY <4>2, <4>4
    <3>3. CASE ~(p <= e + 2)
      <4>1. p - e \in 1..(2 + size(k + 1)) /\ ~(p - e <= 2) /\ ~(p <= e)
        BY <2>2, <3>3
      <4>2. u[p] = k + 1
        BY <2>4, <2>5, <4>1
      <4>3. j < k + 1 \/ j = k + 1 \/ k + 1 < j
        OBVIOUS
      <4>4. j = k + 1 <=> s(j) < p /\ p <= s(j) + size(j)
        BY <2>2, <2>6, <2>7, <3>0, <3>3, <4>3
      <4>5. QED BY <4>2, <4>4
    <3>4. QED BY <3>1, <3>2, <3>3
  <2>9. s(k + 1) + size(k + 1) = e + 2 + size(k + 1)
    BY <2>2
  <2>10. P(u, k + 1)
    BY <2>5, <2>8, <2>9 DEF P
  <2>11. QED BY <2>1, <2>10 DEF u
<1>11. n \in Good
  <2>1. 1 \in Nat /\ n \in Int /\ n \in 1..n /\ \A k \in 1..(n - 1) : k \in Good => k + 1 \in Good
    BY <1>1, <1>10
  <2> HIDE DEF Good
  <2>2. QED BY <1>9, <2>1, AlongInterval
<1>12. Owners \in Seq(0..n) /\ P(Owners, n) /\ n \in 1..n
  <2>1. n \in 1..n
    BY <1>1
  <2>2. P(f[n], n)
    BY <1>11, Zenon
  <2> HIDE DEF P
  <2>3. QED BY <1>8, <2>1, <2>2
<1>13. Len(Owners) = EndOf(blocks, n)
  BY <1>3, <1>12
<1>14. ASSUME NEW o \in 0..(Len(Owners) - 1), NEW k \in 1..n
       PROVE  Owners[o + 1] = k <=> Covers(k, o)
  <2>1. s(n) \in Nat /\ size(n) \in Nat /\ s(k) \in Nat /\ size(k) \in Nat
    BY <1>1, <1>12
  <2>2. o \in Int /\ o + 1 \in 1..(s(n) + size(n))
    BY <1>12, <2>1
  <2>3. Owners[o + 1] = k <=> s(k) < o + 1 /\ o + 1 <= s(k) + size(k)
    BY <1>12, <2>2
  <2>4. Covers(k, o) <=> s(k) <= o /\ o < s(k) + size(k)
    BY <1>3 DEF Covers, s
  <2>5. QED BY <2>1, <2>2, <2>3, <2>4
<1>15. QED BY <1>12, <1>13, <1>14 DEF n

(***************************************************************************)
(* The entries of the index are the blocks with their places in the joined *)
(* text, the first at 0, each behind the separator after the one before    *)
(* it; a block is found again by its id.                                   *)
(***************************************************************************)
LEMMA Geometry ==
  ASSUME Located
  PROVE  /\ Len(blocks) \in Nat \ {0} /\ DOMAIN blocks = 1..Len(blocks)
         /\ DOMAIN index = 1..Len(blocks) /\ Len(index) = Len(blocks)
         /\ \A k \in 1..Len(blocks) :
              /\ Starts(blocks)[k] \in Nat /\ EndOf(blocks, k) \in Nat
              /\ Starts(blocks)[k] <= EndOf(blocks, k)
              /\ index[k].id = blocks[k].id
              /\ index[k].start = Starts(blocks)[k] /\ index[k].end = EndOf(blocks, k)
              /\ BlockOf(blocks[k].id) = blocks[k]
         /\ Starts(blocks)[1] = 0
         /\ \A j, k \in 1..Len(blocks) : j < k => EndOf(blocks, j) + 2 <= Starts(blocks)[k]
<1>1. Len(blocks) \in Nat \ {0} /\ DOMAIN blocks = 1..Len(blocks) /\ 1 \in 1..Len(blocks)
  BY DEF Located, HaveTexts
<1>2. index = [k \in 1..Len(blocks) |->
                 [id |-> blocks[k].id, start |-> Starts(blocks)[k], end |-> EndOf(blocks, k)]]
  BY <1>1, Zenon DEF Located, Concatenate, EndOf
<1>3. DOMAIN index = 1..Len(blocks) /\ Len(index) = Len(blocks)
  BY <1>1, <1>2
<1>4. HaveTexts(blocks)
  BY DEF Located
<1>5. \A k \in 1..Len(blocks) : Starts(blocks)[k] \in Nat /\ Len(blocks[k].text) \in Nat
  BY <1>4, StartsUnfolds DEF HaveTexts
<1>6. Starts(blocks)[1] = 0
  BY <1>1, <1>4, StartsUnfolds
<1>7. ASSUME NEW k \in 1..Len(blocks)
      PROVE  BlockOf(blocks[k].id) = blocks[k]
  <2>1. blocks[k] \in ToSet(blocks)
    BY <1>1 DEF ToSet
  <2>2. \A b \in ToSet(blocks) : b.id = blocks[k].id => b = blocks[k]
    BY <1>1 DEF ToSet, Located
  <2>3. QED BY <2>1, <2>2 DEF BlockOf
<1>8. \A j, k \in 1..Len(blocks) : j < k => EndOf(blocks, j) + 2 <= Starts(blocks)[k]
  BY <1>4, StartsIncrease
<1>9. ASSUME NEW k \in 1..Len(blocks)
      PROVE  /\ Starts(blocks)[k] \in Nat /\ EndOf(blocks, k) \in Nat
             /\ Starts(blocks)[k] <= EndOf(blocks, k)
             /\ index[k].id = blocks[k].id
             /\ index[k].start = Starts(blocks)[k] /\ index[k].end = EndOf(blocks, k)
  <2>1. Starts(blocks)[k] \in Nat /\ EndOf(blocks, k) \in Nat /\ Starts(blocks)[k] <= EndOf(blocks, k)
    BY <1>5 DEF EndOf
  <2>2. index[k] = [id |-> blocks[k].id, start |-> Starts(blocks)[k], end |-> EndOf(blocks, k)]
    BY <1>2
  <2>3. QED BY <2>1, <2>2
<1>10. QED BY <1>1, <1>3, <1>6, <1>7, <1>8, <1>9

(***************************************************************************)
(* An offset lies in one block at most.                                    *)
(***************************************************************************)
LEMMA CoversOne ==
  ASSUME Located, NEW j \in 1..Len(blocks), NEW k \in 1..Len(blocks), NEW o \in Int,
         Covers(j, o), Covers(k, o)
  PROVE  j = k
<1>1. j < k \/ k < j \/ j = k
  OBVIOUS
<1>2. /\ Starts(blocks)[j] \in Nat /\ EndOf(blocks, j) \in Nat
      /\ Starts(blocks)[k] \in Nat /\ EndOf(blocks, k) \in Nat
      /\ j < k => EndOf(blocks, j) + 2 <= Starts(blocks)[k]
      /\ k < j => EndOf(blocks, k) + 2 <= Starts(blocks)[j]
  BY Geometry
<1>3. QED BY <1>1, <1>2 DEF Covers

(***************************************************************************)
(* The index finds the block of a character, and nothing for any other     *)
(* offset: the last block that starts at or before it is the only one that *)
(* can hold it.                                                            *)
(***************************************************************************)
LEMMA LookupFacts ==
  ASSUME Located, NEW o \in Int
  PROVE  /\ \A k \in 1..Len(blocks) :
              Covers(k, o) => LookupOffset(o) = <<blocks[k].id, o - Starts(blocks)[k]>>
         /\ (\A k \in 1..Len(blocks) : ~Covers(k, o)) => LookupOffset(o) = None
<1> DEFINE n == Len(blocks)
           before == {k \in DOMAIN index : index[k].start <= o}
           m == Max(before)
<1>1. before = {k \in 1..n : Starts(blocks)[k] <= o}
  BY Geometry
<1>2. LookupOffset(o) = IF o < 0 \/ before = {} THEN None
                        ELSE IF o >= index[m].end THEN None ELSE <<index[m].id, o - index[m].start>>
  BY Zenon DEF LookupOffset
<1>3. n \in Nat /\ before \subseteq 1..n
  BY <1>1, Geometry
<1>4. before # {} => m \in before /\ \A k \in before : m >= k
  <2> HIDE DEF n, before
  <2> QED BY <1>3, MaxOf
<1> HIDE DEF before, m
<1>5. ASSUME NEW k \in 1..n, Covers(k, o)
      PROVE  LookupOffset(o) = <<blocks[k].id, o - Starts(blocks)[k]>>
  <2>1. k \in before /\ 0 <= o
    BY <1>1, <1>5, Geometry DEF Covers
  <2>2. m \in before /\ m >= k /\ m \in 1..n /\ Starts(blocks)[m] <= o
    BY <1>1, <1>4, <2>1
  <2>3. m = k
    <3>1. CASE k < m
      <4>1. EndOf(blocks, k) + 2 <= Starts(blocks)[m] /\ EndOf(blocks, k) \in Nat /\ Starts(blocks)[m] \in Nat
        BY <1>5, <2>2, <3>1, Geometry
      <4>2. QED BY <1>5, <2>2, <4>1 DEF Covers
    <3>2. QED BY <2>2, <3>1
  <2>4. /\ index[k].end = EndOf(blocks, k) /\ EndOf(blocks, k) \in Nat
        /\ index[k].id = blocks[k].id /\ index[k].start = Starts(blocks)[k]
    BY <1>5, Geometry
  <2>5. ~(o < 0 \/ before = {}) /\ ~(o >= index[m].end)
    BY <1>5, <2>1, <2>3, <2>4 DEF Covers
  <2>6. QED BY <1>2, <2>3, <2>4, <2>5
<1>6. ASSUME \A k \in 1..n : ~Covers(k, o)
      PROVE  LookupOffset(o) = None
  <2>1. CASE o < 0 \/ before = {}
    BY <1>2, <2>1
  <2>2. CASE ~(o < 0 \/ before = {})
    <3>1. m \in 1..n /\ Starts(blocks)[m] <= o
      BY <1>1, <1>4, <2>2
    <3>2. EndOf(blocks, m) \in Nat /\ index[m].end = EndOf(blocks, m)
      BY <3>1, Geometry
    <3>3. o >= index[m].end
      BY <1>6, <3>1, <3>2 DEF Covers
    <3>4. QED BY <1>2, <2>2, <3>3
  <2>3. QED BY <2>1, <2>2
<1>7. QED BY <1>5, <1>6

(***************************************************************************)
(* The owner of a character of the joined text is the block that covers    *)
(* its offset.                                                             *)
(***************************************************************************)
LEMMA OwnerAt ==
  ASSUME Located, NEW o \in Int, 0 <= o
  PROVE  /\ \A k \in 1..Len(blocks) : Covers(k, o) => o < Len(Owners) /\ Owners[o + 1] = k
         /\ o < Len(Owners) /\ Owners[o + 1] # 0 =>
              Owners[o + 1] \in 1..Len(blocks) /\ Covers(Owners[o + 1], o)
<1> DEFINE n == Len(blocks)
<1>1. n \in Nat \ {0} /\ n \in 1..n /\ \A k \in 1..n : Starts(blocks)[k] \in Nat /\ EndOf(blocks, k) \in Nat
  BY Geometry
<1>2. ASSUME NEW k \in 1..n, Covers(k, o) PROVE o < Len(Owners) /\ Owners[o + 1] = k
  <2>1. EndOf(blocks, k) <= EndOf(blocks, n)
    <3>1. CASE k = n
      BY <1>1, <3>1
    <3>2. CASE k # n
      <4>1. k < n
        BY <1>1, <3>2
      <4>2. EndOf(blocks, k) + 2 <= Starts(blocks)[n] /\ Starts(blocks)[n] <= EndOf(blocks, n)
        BY <1>1, <4>1, Geometry
      <4>3. QED BY <1>1, <4>2
    <3>3. QED BY <3>1, <3>2
  <2>2. o < EndOf(blocks, n) /\ Len(Owners) = EndOf(blocks, n)
    BY <1>1, <1>2, <2>1, OwnersFacts DEF Covers
  <2>3. o \in 0..(Len(Owners) - 1)
    BY <1>1, <2>2
  <2>4. QED BY <1>2, <2>2, <2>3, OwnersFacts
<1>3. ASSUME o < Len(Owners), Owners[o + 1] # 0
      PROVE  Owners[o + 1] \in 1..n /\ Covers(Owners[o + 1], o)
  <2>1. Len(Owners) \in Nat /\ o \in 0..(Len(Owners) - 1) /\ o + 1 \in 1..Len(Owners)
    BY <1>1, <1>3, OwnersFacts
  <2>2. Owners[o + 1] \in 0..n
    BY <1>1, <2>1, OwnersFacts
  <2>3. Owners[o + 1] \in 1..n
    BY <1>1, <1>3, <2>2
  <2>4. QED BY <2>1, <2>3, OwnersFacts
<1>4. QED BY <1>2, <1>3

(***************************************************************************)
(* A span has characters of the blocks that cover one of its offsets.      *)
(***************************************************************************)
LEMMA OwnersInFacts ==
  ASSUME Located, NEW x \in Int, NEW y \in Int, 0 <= x, y <= Len(Owners)
  PROVE  OwnersIn(<<x, y>>) = {k \in 1..Len(blocks) : \E o \in x..(y - 1) : Covers(k, o)}
<1>1. Len(Owners) \in Nat
  BY OwnersFacts, Geometry
<1>2. Min({y, Len(Owners)}) = y
  <2>1. \A z \in {y, Len(Owners)} : y <= z
    BY <1>1
  <2>2. \A z \in {y, Len(Owners)} : (\A w \in {y, Len(Owners)} : z <= w) => z = y
    BY <1>1
  <2>3. QED BY <2>1, <2>2 DEF Min
<1>3. OwnersIn(<<x, y>>) = {Owners[p] : p \in (x + 1)..y} \ {0}
  BY <1>2 DEF OwnersIn
<1>4. ASSUME NEW k \in OwnersIn(<<x, y>>)
      PROVE  k \in 1..Len(blocks) /\ \E o \in x..(y - 1) : Covers(k, o)
  <2>1. PICK p \in (x + 1)..y : k = Owners[p]
    BY <1>3, <1>4
  <2>2. p - 1 \in x..(y - 1) /\ (p - 1) + 1 = p /\ p - 1 \in Int /\ 0 <= p - 1 /\ p - 1 < Len(Owners) /\ k # 0
    BY <1>1, <1>3, <1>4, <2>1
  <2>3. Owners[(p - 1) + 1] # 0
    BY <2>1, <2>2
  <2>4. Owners[(p - 1) + 1] \in 1..Len(blocks) /\ Covers(Owners[(p - 1) + 1], p - 1)
    BY <2>2, <2>3, OwnerAt
  <2>5. QED BY <2>1, <2>2, <2>4
<1>5. ASSUME NEW k \in 1..Len(blocks), NEW o \in x..(y - 1), Covers(k, o)
      PROVE  k \in OwnersIn(<<x, y>>)
  <2>1. o \in Int /\ 0 <= o /\ o + 1 \in (x + 1)..y
    OBVIOUS
  <2>2. Owners[o + 1] = k /\ k # 0
    BY <1>5, <2>1, OwnerAt
  <2>3. QED BY <1>3, <2>1, <2>2
<1>6. QED BY <1>4, <1>5

(***************************************************************************)
(* A span that starts in one block and ends in that block or a later one   *)
(* touches the blocks with text from the one to the other.                 *)
(***************************************************************************)
LEMMA TouchedBetween ==
  ASSUME Located, NEW x \in Int, NEW y \in Int, 0 <= x, x < y,
         NEW a \in 1..Len(blocks), Covers(a, x), NEW b \in 1..Len(blocks), Covers(b, y - 1)
  PROVE  /\ a <= b /\ y <= Len(Owners)
         /\ OwnersIn(<<x, y>>) = {k \in a..b : Starts(blocks)[k] < EndOf(blocks, k)}
<1> DEFINE n == Len(blocks)
           s(k) == Starts(blocks)[k]
           e(k) == EndOf(blocks, k)
<1>1. /\ n \in Nat \ {0} /\ a \in 1..n /\ b \in 1..n
      /\ \A k \in 1..n : s(k) \in Nat /\ e(k) \in Nat
      /\ \A j, k \in 1..n : j < k => e(j) + 2 <= s(k)
  BY Geometry
<1>2. s(a) <= x /\ x < e(a) /\ s(b) <= y - 1 /\ y - 1 < e(b)
  BY DEF Covers
<1>3. y <= Len(Owners)
  <2>1. y - 1 < Len(Owners) /\ Len(Owners) \in Nat
    BY <1>1, OwnerAt, OwnersFacts
  <2>2. QED BY <2>1
<1>4. OwnersIn(<<x, y>>) = {k \in 1..n : \E o \in x..(y - 1) : Covers(k, o)}
  BY <1>3, OwnersInFacts
<1>5. \A k \in 1..n, o \in Int : Covers(k, o) <=> s(k) <= o /\ o < e(k)
  BY DEF Covers
<1> HIDE DEF n, s, e
<1>6. a <= b
  <2> SUFFICES ASSUME b < a PROVE FALSE
    BY <1>1
  <2>1. e(b) + 2 <= s(a)
    BY <1>1
  <2>2. QED BY <1>1, <1>2, <2>1
<1>7. ASSUME NEW k \in a..b, s(k) < e(k)
      PROVE  k \in 1..n /\ \E o \in x..(y - 1) : Covers(k, o)
  <2>1. k \in 1..n
    BY <1>1
  <2>2. s(k) \in Nat /\ e(k) \in Nat /\ s(a) \in Nat /\ e(a) \in Nat /\ s(b) \in Nat /\ e(b) \in Nat
    BY <1>1, <2>1
  <2>3. CASE k = a
    <3>1. x \in x..(y - 1) /\ Covers(k, x)
      BY <2>3
    <3>2. QED BY <2>1, <3>1
  <2>4. CASE k = b
    <3>1. y - 1 \in x..(y - 1) /\ Covers(k, y - 1)
      BY <2>4
    <3>2. QED BY <2>1, <3>1
  <2>5. CASE k # a /\ k # b
    <3>1. a < k /\ k < b
      BY <1>1, <2>5
    <3>2. e(a) + 2 <= s(k) /\ e(k) + 2 <= s(b)
      BY <1>1, <2>1, <3>1
    <3>3. s(k) \in x..(y - 1) /\ s(k) \in Int /\ s(k) <= s(k)
      BY <1>2, <1>7, <2>2, <3>2
    <3>4. Covers(k, s(k))
      BY <1>5, <1>7, <2>1, <3>3
    <3>5. QED BY <2>1, <3>3, <3>4
  <2>6. QED BY <2>3, <2>4, <2>5
<1>8. ASSUME NEW k \in 1..n, NEW o \in x..(y - 1), Covers(k, o)
      PROVE  k \in a..b /\ s(k) < e(k)
  <2>1. s(k) \in Nat /\ e(k) \in Nat /\ s(a) \in Nat /\ e(a) \in Nat /\ s(b) \in Nat /\ e(b) \in Nat
    BY <1>1
  <2>2. s(k) <= o /\ o < e(k) /\ o \in Int /\ x <= o /\ o <= y - 1
    BY <1>5, <1>8
  <2>3. ~(k < a)
    <3>1. k < a => e(k) + 2 <= s(a)
      BY <1>1
    <3>2. QED BY <1>2, <2>1, <2>2, <3>1
  <2>4. ~(b < k)
    <3>1. b < k => e(b) + 2 <= s(k)
      BY <1>1
    <3>2. QED BY <1>2, <2>1, <2>2, <3>1
  <2>5. k \in a..b
    BY <1>1, <2>3, <2>4
  <2>6. QED BY <2>1, <2>2, <2>5
<1>9. OwnersIn(<<x, y>>) = {k \in a..b : s(k) < e(k)}
  BY <1>4, <1>7, <1>8
<1>10. QED BY <1>3, <1>6, <1>9 DEF s, e

\* A span from x to before y that starts in block a ends in the separators between it and more text.
EndsInSeparator(a, x, y) ==
  /\ y <= Len(Owners) /\ OwnersIn(<<x, y>>) = {a}
  /\ \E p \in (y + 1)..Len(Owners) : Owners[p] # 0

(***************************************************************************)
(* AtBlockBoundary accepts the ends in the separators, and no other: the   *)
(* next block with text starts behind the span exactly if the span has     *)
(* touched no other block and more text follows.                           *)
(***************************************************************************)
LEMMA BoundaryFacts ==
  ASSUME Located, NEW x \in Int, NEW y \in Int, 0 <= x, x < y,
         NEW a \in 1..Len(blocks), Covers(a, x), \A k \in 1..Len(blocks) : ~Covers(k, y - 1)
  PROVE  AtBlockBoundary(<<x, y>>) =
           IF EndsInSeparator(a, x, y)
           THEN <<blocks[a].id, (EndOf(blocks, a) - 1) - Starts(blocks)[a]>> ELSE None
<1> DEFINE n == Len(blocks)
           s(k) == Starts(blocks)[k]
           e(k) == EndOf(blocks, k)
           later == {j \in DOMAIN index : j > a /\ index[j].start < index[j].end}
           m == Min(later)
           follows == later # {} /\ y - 1 >= e(a) /\ y - 1 < s(m)
<1>1. /\ n \in Nat \ {0} /\ a \in 1..n
      /\ \A k \in 1..n : s(k) \in Nat /\ e(k) \in Nat /\ s(k) <= e(k)
      /\ \A j, k \in 1..n : j < k => e(j) + 2 <= s(k)
      /\ \A k \in 1..n : index[k].start = s(k) /\ index[k].end = e(k)
      /\ DOMAIN index = 1..n
  BY Geometry
<1>2. s(a) <= x /\ x < e(a)
  BY DEF Covers
<1>3. \A k \in 1..n, o \in Int : Covers(k, o) <=> s(k) <= o /\ o < e(k)
  BY DEF Covers
<1>4. Len(Owners) = e(n) /\ n \in 1..n
  BY <1>1, OwnersFacts
<1>5. \A k \in 1..n : e(k) <= e(n)
  <2> SUFFICES ASSUME NEW k \in 1..n PROVE e(k) <= e(n)
    OBVIOUS
  <2> HIDE DEF n, s, e
  <2>1. k = n \/ k < n
    BY <1>1
  <2>2. k < n => e(k) + 2 <= s(n)
    BY <1>1, <1>4
  <2>3. s(n) <= e(n) /\ e(k) \in Nat /\ e(n) \in Nat /\ s(n) \in Nat
    BY <1>1, <1>4
  <2>4. QED BY <2>1, <2>2, <2>3
<1>6. later = {j \in 1..n : j > a /\ s(j) < e(j)}
  BY <1>1
<1>7. (CHOOSE k \in DOMAIN index : index[k].start <= x /\ x < index[k].end) = a
  <2> DEFINE in(k) == index[k].start <= x /\ x < index[k].end
  <2>1. a \in DOMAIN index /\ in(a)
    BY <1>1, <1>2
  <2>2. \A k \in DOMAIN index : in(k) => k = a
    <3> SUFFICES ASSUME NEW k \in 1..n, in(k) PROVE k = a
      BY <1>1
    <3>1. Covers(k, x)
      BY <1>1, <1>3
    <3>2. QED BY <3>1, CoversOne
  <2>3. QED BY <2>1, <2>2
<1>8. AtBlockBoundary(<<x, y>>) = IF follows THEN LookupOffset(e(a) - 1) ELSE None
  <2>1. index[a].end = e(a)
    BY <1>1
  <2>2. later # {} => index[m].start = s(m)
    <3>1. later # {} => m \in later
      <4>1. later \subseteq Nat
        BY <1>1, <1>6
      <4> HIDE DEF later
      <4>2. QED BY <4>1, MinOf
    <3>2. QED BY <1>1, <1>6, <3>1
  <2>3. <<x, y>>[1] = x /\ <<x, y>>[2] = y
    OBVIOUS
  <2>4. AtBlockBoundary(<<x, y>>) =
          IF later # {} /\ y - 1 >= index[a].end /\ y - 1 < index[m].start
          THEN LookupOffset(index[a].end - 1) ELSE None
    <3> DEFINE z == <<x, y>>
    <3>1. z[1] = x /\ z[2] = y
      OBVIOUS
    <3> DEFINE k0 == CHOOSE k \in DOMAIN index : index[k].start <= z[1] /\ z[1] < index[k].end
               after(k) == {j \in DOMAIN index : j > k /\ index[j].start < index[j].end}
               at(k) == IF after(k) # {} /\ z[2] - 1 >= index[k].end /\ z[2] - 1 < index[Min(after(k))].start
                        THEN LookupOffset(index[k].end - 1) ELSE None
    <3>2. AtBlockBoundary(z) = at(k0)
      BY Zenon DEF AtBlockBoundary
    <3>3. AtBlockBoundary(z) = at(a)
      <4>1. k0 = a
        BY <1>7, <3>1, Zenon
      <4> HIDE DEF k0, at, z
      <4>2. QED BY <3>2, <4>1
    <3>4. QED BY <3>1, <3>3, Zenon DEF z
  <2>5. QED BY <2>1, <2>2, <2>4, Zenon
<1>9. LookupOffset(e(a) - 1) = <<blocks[a].id, (e(a) - 1) - s(a)>>
  <2>1. e(a) - 1 \in Int /\ Covers(a, e(a) - 1)
    <3>1. s(a) \in Nat /\ e(a) \in Nat
      BY <1>1
    <3>2. e(a) - 1 \in Int /\ s(a) <= e(a) - 1 /\ e(a) - 1 < e(a)
      BY <1>2, <3>1
    <3>3. QED BY <1>3, <3>2
  <2>2. QED BY <2>1, LookupFacts
<1>10. later # {} => m \in 1..n /\ m > a /\ s(m) < e(m) /\ \A j \in 1..n : j > a /\ s(j) < e(j) => m <= j
  <2>1. later \subseteq Nat
    BY <1>1, <1>6
  <2>2. later # {} => m \in later /\ \A j \in later : m <= j
    <3> HIDE DEF later
    <3> QED BY <2>1, MinOf
  <2> HIDE DEF later, m
  <2>3. QED BY <1>6, <2>2
<1>11. y <= Len(Owners) => OwnersIn(<<x, y>>) = {k \in 1..n : \E o \in x..(y - 1) : Covers(k, o)}
  BY OwnersInFacts
<1> HIDE DEF n, s, e, m
<1>12. ASSUME follows PROVE EndsInSeparator(a, x, y)
  <2>1. /\ m \in 1..n /\ m > a /\ s(m) < e(m) /\ y - 1 >= e(a) /\ y - 1 < s(m)
        /\ \A j \in 1..n : j > a /\ s(j) < e(j) => m <= j
    BY <1>10, <1>12
  <2>2. s(m) \in Nat /\ e(m) \in Nat /\ s(a) \in Nat /\ e(a) \in Nat /\ e(m) <= e(n) /\ e(n) \in Nat
    BY <1>1, <1>4, <1>5, <2>1
  <2>3. y <= Len(Owners)
    BY <1>4, <2>1, <2>2
  <2>4. a \in OwnersIn(<<x, y>>)
    <3>1. x \in x..(y - 1)
      OBVIOUS
    <3>2. QED BY <1>1, <1>11, <2>3, <3>1
  <2>5. ASSUME NEW k \in OwnersIn(<<x, y>>) PROVE k = a
    <3>1. PICK o \in x..(y - 1) : k \in 1..n /\ Covers(k, o)
      BY <1>11, <2>3, <2>5
    <3>2. s(k) <= o /\ o < e(k) /\ s(k) \in Nat /\ e(k) \in Nat
      BY <1>1, <1>3, <3>1
    <3>3. ~(k < a)
      <4>1. k < a => e(k) + 2 <= s(a)
        BY <1>1, <3>1
      <4>2. QED BY <1>2, <2>2, <3>1, <3>2, <4>1
    <3>4. ~(k > a)
      <4>1. SUFFICES ASSUME k > a PROVE FALSE
        OBVIOUS
      <4>2. m <= k
        BY <2>1, <3>1, <3>2, <4>1
      <4>3. s(m) <= s(k)
        <5>1. m = k \/ m < k
          BY <1>1, <2>1, <3>1, <4>2
        <5>2. m < k => e(m) + 2 <= s(k)
          BY <1>1, <2>1, <3>1
        <5>3. QED BY <2>1, <2>2, <3>2, <5>1, <5>2
      <4>4. QED BY <2>1, <2>2, <3>1, <3>2, <4>3
    <3>5. QED BY <1>1, <3>1, <3>3, <3>4
  <2>6. \E p \in (y + 1)..Len(Owners) : Owners[p] # 0
    <3>1. s(m) + 1 \in (y + 1)..Len(Owners)
      BY <1>4, <2>1, <2>2
    <3>2. Covers(m, s(m)) /\ s(m) \in Int /\ 0 <= s(m)
      BY <1>3, <2>1, <2>2
    <3>3. Owners[s(m) + 1] = m
      BY <2>1, <3>2, OwnerAt DEF n
    <3>4. m # 0
      BY <1>1, <2>1
    <3>5. QED BY <3>1, <3>3, <3>4
  <2>7. QED BY <2>3, <2>4, <2>5, <2>6 DEF EndsInSeparator
<1>13. ASSUME EndsInSeparator(a, x, y) PROVE follows
  <2>1. /\ y <= Len(Owners) /\ OwnersIn(<<x, y>>) = {a}
        /\ \E p \in (y + 1)..Len(Owners) : Owners[p] # 0
    BY <1>13 DEF EndsInSeparator
  <2>2. PICK p \in (y + 1)..Len(Owners) : Owners[p] # 0
    BY <2>1
  <2>3. Len(Owners) \in Nat /\ s(a) \in Nat /\ e(a) \in Nat
    BY <1>1, <1>4
  <2>4. p - 1 \in Int /\ 0 <= p - 1 /\ p - 1 < Len(Owners) /\ (p - 1) + 1 = p
    BY <2>2, <2>3
  <2>5. PICK j \in 1..n : Covers(j, p - 1)
    <3>1. Owners[p] \in 1..n /\ Covers(Owners[p], p - 1)
      BY <2>2, <2>4, OwnerAt DEF n
    <3>2. QED BY <3>1
  <2>6. s(j) <= p - 1 /\ p - 1 < e(j) /\ s(j) \in Nat /\ e(j) \in Nat
    BY <1>1, <1>3, <2>4, <2>5
  <2>7. y - 1 >= e(a)
    <3>1. ~(s(a) <= y - 1 /\ y - 1 < e(a))
      BY <1>1, <1>3 DEF n
    <3>2. QED BY <1>2, <2>3, <3>1
  <2>8. j > a
    <3>1. j = a \/ j < a \/ j > a
      BY <1>1
    <3>2. j < a => e(j) + 2 <= s(a)
      BY <1>1
    <3>3. QED BY <1>2, <2>2, <2>3, <2>6, <2>7, <3>1, <3>2
  <2>9. j \in later
    BY <1>6, <2>6, <2>8
  <2>10. m \in 1..n /\ m > a /\ s(m) < e(m)
    BY <1>10, <2>9
  <2>11. s(m) \in Nat /\ e(m) \in Nat /\ e(a) + 2 <= s(m)
    BY <1>1, <2>10
  <2>12. y - 1 < s(m)
    <3>1. SUFFICES ASSUME s(m) <= y - 1 PROVE FALSE
      BY <2>11
    <3>2. s(m) \in x..(y - 1) /\ Covers(m, s(m))
      BY <1>2, <1>3, <2>3, <2>10, <2>11, <3>1
    <3>3. m \in OwnersIn(<<x, y>>)
      BY <1>11, <2>1, <2>10, <3>2
    <3>4. m = a
      BY <2>1, <3>3
    <3>5. QED BY <1>1, <2>10, <3>4
  <2>13. QED BY <2>7, <2>9, <2>12
<1> HIDE DEF follows, later
<1>14. AtBlockBoundary(<<x, y>>) =
         IF EndsInSeparator(a, x, y) THEN <<blocks[a].id, (e(a) - 1) - s(a)>> ELSE None
  BY <1>8, <1>9, <1>12, <1>13
<1>15. QED BY <1>14, Zenon DEF e, s

(***************************************************************************)
(* One position in order.                                                  *)
(***************************************************************************)
LEMMA InOrderOne ==
  ASSUME NEW n \in Nat, NEW a \in 1..n
  PROVE  InOrder({a}, n) = <<a>>
<1> DEFINE s == InOrder({a}, n)
           A == {a} \cap (1..n)
<1>1. /\ s \in Seq(A)
      /\ \A i, j \in DOMAIN s : i < j => s[i] < s[j]
      /\ \A k \in A : \E i \in DOMAIN s : s[i] = k
  BY InOrderFacts
<1>2. A = {a}
  OBVIOUS
<1> HIDE DEF s, A
<1>3. Len(s) \in Nat /\ DOMAIN s = 1..Len(s) /\ \A i \in 1..Len(s) : s[i] = a
  BY <1>1, <1>2
<1>4. Len(s) # 0
  BY <1>1, <1>2, <1>3
<1>5. Len(s) < 2
  <2> SUFFICES ASSUME 2 <= Len(s) PROVE FALSE
    BY <1>3
  <2>1. 1 \in DOMAIN s /\ 2 \in DOMAIN s /\ 1 < 2
    BY <1>3
  <2>2. s[1] < s[2] /\ s[1] = a /\ s[2] = a
    BY <1>1, <1>3, <2>1
  <2>3. QED BY <2>2
<1>6. Len(s) = 1 /\ s[1] = a
  BY <1>3, <1>4, <1>5
<1>7. s = <<a>>
  BY <1>1, <1>2, <1>6
<1>8. QED BY <1>7 DEF s

\* The boxes of the blocks that a span has characters of, in their order.
TouchedBoxes(interval) ==
  LET touched == Positions(blocks, LAMBDA b : b \in OwnersIn(interval))
  IN [j \in DOMAIN touched |-> blocks[touched[j]].box]

(***************************************************************************)
(* A span with characters of one block has the box of that block.          *)
(***************************************************************************)
LEMMA TouchedOne ==
  ASSUME Located, NEW interval, NEW a \in 1..Len(blocks), OwnersIn(interval) = {a}
  PROVE  TouchedBoxes(interval) = <<blocks[a].box>>
<1>1. Len(blocks) \in Nat /\ DOMAIN blocks = 1..Len(blocks)
  BY Geometry
<1>2. {b \in DOMAIN blocks : b \in OwnersIn(interval)} = {a}
  BY <1>1
<1>3. Positions(blocks, LAMBDA b : b \in OwnersIn(interval)) = <<a>>
  <2>1. Positions(blocks, LAMBDA b : b \in OwnersIn(interval)) =
          InOrder({b \in DOMAIN blocks : b \in OwnersIn(interval)}, Len(blocks))
    BY DEF Positions
  <2>2. QED BY <1>1, <1>2, <2>1, InOrderOne
<1> DEFINE touched == Positions(blocks, LAMBDA b : b \in OwnersIn(interval))
<1>4. TouchedBoxes(interval) = [j \in DOMAIN touched |-> blocks[touched[j]].box]
  BY DEF TouchedBoxes
<1>5. touched = <<a>>
  BY <1>3
<1> HIDE DEF touched
<1>6. QED BY <1>4, <1>5

(***************************************************************************)
(* MultiBlockBoxes finds the entries of the two blocks and collects the    *)
(* blocks with text from the one to the other.                             *)
(***************************************************************************)
LEMMA MultiBoxes ==
  ASSUME Located, NEW interval, NEW a \in 1..Len(blocks), NEW b \in 1..Len(blocks), a <= b,
         OwnersIn(interval) = {k \in a..b : Starts(blocks)[k] < EndOf(blocks, k)}
  PROVE  MultiBlockBoxes(blocks[a].id, blocks[b].id) = TouchedBoxes(interval)
<1> DEFINE n == Len(blocks)
           from == Min({k \in DOMAIN index : index[k].id = blocks[a].id})
           ends == {k \in DOMAIN index : k >= from /\ index[k].id = blocks[b].id}
           inside == {k \in DOMAIN index : /\ k \in from .. Min(ends) /\ index[k].start < index[k].end
                                           /\ \A j \in from .. k - 1 : index[j].id # index[k].id}
           order == InOrder(inside, Len(index))
           boxes == [j \in DOMAIN order |-> BlockOf(index[order[j]].id).box]
           set == {k \in DOMAIN blocks : k \in OwnersIn(interval)}
           touched == InOrder(set, Len(blocks))
<1>1. MultiBlockBoxes(blocks[a].id, blocks[b].id) = IF ends = {} THEN <<BlockOf(blocks[a].id).box>> ELSE boxes
  BY Zenon DEF MultiBlockBoxes, Positions
<1>2. TouchedBoxes(interval) = [j \in DOMAIN touched |-> blocks[touched[j]].box]
  BY Zenon DEF TouchedBoxes, Positions
<1>3. /\ n \in Nat \ {0} /\ DOMAIN blocks = 1..n /\ DOMAIN index = 1..n /\ Len(index) = n
      /\ \A k \in 1..n : /\ index[k].id = blocks[k].id /\ BlockOf(blocks[k].id) = blocks[k]
                         /\ index[k].start = Starts(blocks)[k] /\ index[k].end = EndOf(blocks, k)
      /\ a \in 1..n /\ b \in 1..n
  BY Geometry
<1>4. \A j, k \in 1..n : blocks[j].id = blocks[k].id <=> j = k
  BY DEF Located
<1>5. from = a
  <2>1. {k \in DOMAIN index : index[k].id = blocks[a].id} = {a}
    BY <1>3, <1>4
  <2>2. {a} \subseteq Nat /\ {a} # {}
    OBVIOUS
  <2>3. Min({a}) \in {a}
    BY <2>2, MinOf
  <2>4. QED BY <2>1, <2>3
<1> HIDE DEF from
<1>6. ends = {b}
  BY <1>3, <1>4, <1>5
<1>7. Min(ends) = b
  <2>1. {b} \subseteq Nat /\ {b} # {}
    OBVIOUS
  <2>2. Min({b}) \in {b}
    BY <2>1, MinOf
  <2>3. QED BY <1>6, <2>2
<1> HIDE DEF ends
<1>8. inside = set
  <2>1. ASSUME NEW k \in 1..n
        PROVE  k \in inside <=> k \in set
    <3>1. \A j \in a .. k - 1 : index[j].id # index[k].id
      <4> SUFFICES ASSUME NEW j \in a .. k - 1 PROVE index[j].id # index[k].id
        OBVIOUS
      <4>1. j \in 1..n /\ j # k
        BY <1>3
      <4>2. QED BY <1>3, <1>4, <4>1
    <3>2. k \in inside <=> k \in a..b /\ Starts(blocks)[k] < EndOf(blocks, k)
      BY <1>3, <1>5, <1>7, <3>1
    <3>3. QED BY <1>3, <3>2
  <2>2. inside \subseteq 1..n /\ set \subseteq 1..n
    BY <1>3
  <2> HIDE DEF inside, set
  <2>3. QED BY <2>1, <2>2
<1> HIDE DEF inside, set
<1>9. order = touched
  BY <1>3, <1>8
<1>10. \A j \in DOMAIN touched : touched[j] \in 1..n
  <2>1. touched \in Seq(set \cap (1..n))
    BY <1>3, InOrderFacts
  <2> HIDE DEF touched
  <2>2. QED BY <2>1
<1> HIDE DEF order, touched
<1>11. \A j \in DOMAIN touched : BlockOf(index[order[j]].id).box = blocks[touched[j]].box
  BY <1>3, <1>9, <1>10
<1>12. boxes = [j \in DOMAIN touched |-> blocks[touched[j]].box]
  BY <1>9, <1>11
<1>13. QED BY <1>1, <1>2, <1>6, <1>12

(***************************************************************************)
(* What the resolver decides of a span, and where it says the span stands, *)
(* is what the joined text says.                                           *)
(***************************************************************************)
LEMMA SpanFacts ==
  ASSUME Located, NEW x \in Int, NEW y \in Int, 0 <= x, x < y
  PROVE  /\ OnText(<<x, y>>) <=> LookupOffset(x) # None /\ EndLookup(<<x, y>>) # None
         /\ OnText(<<x, y>>) =>
              LET start == LookupOffset(x)
                  end == EndLookup(<<x, y>>)
              IN (IF start[1] = end[1] THEN <<BlockOf(start[1]).box>>
                  ELSE MultiBlockBoxes(start[1], end[1])) = TouchedBoxes(<<x, y>>)
<1> DEFINE n == Len(blocks)
           start == LookupOffset(x)
           end == EndLookup(<<x, y>>)
           boxes == IF start[1] = end[1] THEN <<BlockOf(start[1]).box>> ELSE MultiBlockBoxes(start[1], end[1])
<1>1. /\ n \in Nat \ {0} /\ Len(Owners) \in Nat
      /\ \A k \in 1..n : BlockOf(blocks[k].id) = blocks[k]
  BY Geometry, OwnersFacts
<1>2. y - 1 \in Int /\ 0 <= y - 1 /\ (y - 1) + 1 = y /\ <<x, y>>[1] = x /\ <<x, y>>[2] = y
  OBVIOUS
<1>3. OnText(<<x, y>>) <=>
        /\ x < Len(Owners) /\ y <= Len(Owners) /\ Owners[x + 1] # 0
        /\ \/ Owners[y] # 0
           \/ /\ OwnersIn(<<x, y>>) = {Owners[x + 1]}
              /\ \E j \in (y + 1)..Len(Owners) : Owners[j] # 0
  <2> DEFINE z == <<x, y>>
  <2>1. z[1] = x /\ z[2] = y
    OBVIOUS
  <2> HIDE DEF z
  <2>2. OnText(z) <=>
        /\ x < Len(Owners) /\ y <= Len(Owners) /\ Owners[x + 1] # 0
        /\ \/ Owners[y] # 0
           \/ /\ OwnersIn(z) = {Owners[x + 1]}
              /\ \E j \in (y + 1)..Len(Owners) : Owners[j] # 0
    BY <2>1 DEF OnText
  <2>3. QED BY <2>2, Zenon DEF z
<1>4. end = IF start # None /\ LookupOffset(y - 1) = None THEN AtBlockBoundary(<<x, y>>) ELSE LookupOffset(y - 1)
  <2> DEFINE z == <<x, y>>
  <2>1. z[1] = x /\ z[2] = y
    OBVIOUS
  <2> HIDE DEF z
  <2>2. EndLookup(z) = IF LookupOffset(x) # None /\ LookupOffset(y - 1) = None
                       THEN AtBlockBoundary(z) ELSE LookupOffset(y - 1)
    BY <2>1, Zenon DEF EndLookup
  <2>3. QED BY <2>2, Zenon DEF z
<1>5. CASE \A k \in 1..n : ~Covers(k, x)
  <2>1. start = None
    BY <1>5, LookupFacts
  <2>2. ~(x < Len(Owners) /\ Owners[x + 1] # 0)
    <3> SUFFICES ASSUME x < Len(Owners) /\ Owners[x + 1] # 0 PROVE FALSE
      OBVIOUS
    <3>1. Owners[x + 1] \in 1..n /\ Covers(Owners[x + 1], x)
      BY OwnerAt
    <3>2. QED BY <1>5, <3>1
  <2>3. ~OnText(<<x, y>>)
    BY <1>3, <2>2, Zenon
  <2>4. QED BY <2>1, <2>3, Zenon
<1>6. ASSUME NEW a \in 1..n, Covers(a, x)
      PROVE  /\ OnText(<<x, y>>) <=> start # None /\ end # None
             /\ OnText(<<x, y>>) => boxes = TouchedBoxes(<<x, y>>)
  <2>1. start = <<blocks[a].id, x - Starts(blocks)[a]>> /\ start # None /\ start[1] = blocks[a].id
    <3>1. start = <<blocks[a].id, x - Starts(blocks)[a]>>
      BY <1>6, LookupFacts
    <3>2. <<blocks[a].id, x - Starts(blocks)[a]>> # None
      BY DEF None
    <3> HIDE DEF start
    <3>3. QED BY <3>1, <3>2
  <2>2. x < Len(Owners) /\ Owners[x + 1] = a /\ a # 0
    <3>1. a # 0
      BY <1>1
    <3>2. QED BY <1>6, <3>1, OwnerAt
  <2>3. CASE \A k \in 1..n : ~Covers(k, y - 1)
    <3>1. LookupOffset(y - 1) = None
      BY <1>2, <2>3, LookupFacts
    <3>2. end = AtBlockBoundary(<<x, y>>)
      BY <1>4, <2>1, <3>1, Zenon
    <3>3. AtBlockBoundary(<<x, y>>) =
            IF EndsInSeparator(a, x, y)
            THEN <<blocks[a].id, (EndOf(blocks, a) - 1) - Starts(blocks)[a]>> ELSE None
      BY <1>6, <2>3, BoundaryFacts
    <3>4. y <= Len(Owners) => Owners[y] = 0
      <4> SUFFICES ASSUME y <= Len(Owners), Owners[y] # 0 PROVE FALSE
        OBVIOUS
      <4>1. y - 1 < Len(Owners) /\ Owners[(y - 1) + 1] # 0
        BY <1>1, <1>2
      <4>2. Owners[(y - 1) + 1] \in 1..n /\ Covers(Owners[(y - 1) + 1], y - 1)
        BY <1>2, <4>1, OwnerAt
      <4>3. QED BY <2>3, <4>2, Zenon
    <3>5. OnText(<<x, y>>) <=> EndsInSeparator(a, x, y)
      BY <1>3, <2>2, <3>4, Zenon DEF EndsInSeparator
    <3>6. CASE ~EndsInSeparator(a, x, y)
      BY <3>2, <3>3, <3>5, <3>6, Zenon
    <3>7. CASE EndsInSeparator(a, x, y)
      <4>1. end = <<blocks[a].id, (EndOf(blocks, a) - 1) - Starts(blocks)[a]>>
        BY <3>2, <3>3, <3>7, Zenon
      <4>2. end # None /\ end[1] = blocks[a].id
        <5>1. <<blocks[a].id, (EndOf(blocks, a) - 1) - Starts(blocks)[a]>> # None
          BY DEF None
        <5> HIDE DEF end
        <5>2. QED BY <4>1, <5>1
      <4>3. boxes = <<blocks[a].box>>
        <5>1. BlockOf(start[1]) = blocks[a] /\ start[1] = end[1]
          BY <1>1, <1>6, <2>1, <4>2
        <5>2. boxes = <<BlockOf(start[1]).box>>
          BY <5>1, Zenon
        <5>3. QED BY <5>1, <5>2, Zenon
      <4>4. OwnersIn(<<x, y>>) = {a}
        BY <3>7 DEF EndsInSeparator
      <4>5. TouchedBoxes(<<x, y>>) = <<blocks[a].box>>
        <5> DEFINE z == <<x, y>>
        <5>1. OwnersIn(z) = {a}
          BY <4>4
        <5> HIDE DEF z
        <5>2. TouchedBoxes(z) = <<blocks[a].box>>
          BY <1>6, <5>1, TouchedOne
        <5>3. QED BY <5>2, Zenon DEF z
      <4>6. QED BY <2>1, <3>5, <3>7, <4>2, <4>3, <4>5, Zenon
    <3>8. QED BY <3>6, <3>7, Zenon
  <2>4. ASSUME NEW b \in 1..n, Covers(b, y - 1)
        PROVE  /\ OnText(<<x, y>>) <=> start # None /\ end # None
               /\ OnText(<<x, y>>) => boxes = TouchedBoxes(<<x, y>>)
    <3>1. /\ LookupOffset(y - 1) = <<blocks[b].id, (y - 1) - Starts(blocks)[b]>>
          /\ LookupOffset(y - 1) # None /\ LookupOffset(y - 1)[1] = blocks[b].id
      <4>1. LookupOffset(y - 1) = <<blocks[b].id, (y - 1) - Starts(blocks)[b]>>
        BY <1>2, <2>4, LookupFacts
      <4>2. <<blocks[b].id, (y - 1) - Starts(blocks)[b]>> # None
        BY DEF None
      <4>3. QED BY <4>1, <4>2
    <3>2. end = LookupOffset(y - 1)
      BY <1>4, <3>1, Zenon
    <3>3. Owners[y] = b /\ b # 0
      <4>1. Owners[(y - 1) + 1] = b
        BY <1>2, <2>4, OwnerAt
      <4>2. b # 0
        BY <1>1
      <4>3. QED BY <1>2, <4>1, <4>2
    <3>4. /\ a <= b /\ y <= Len(Owners)
          /\ OwnersIn(<<x, y>>) = {k \in a..b : Starts(blocks)[k] < EndOf(blocks, k)}
      BY <1>6, <2>4, TouchedBetween
    <3>5. OnText(<<x, y>>)
      BY <1>3, <2>2, <3>3, <3>4, Zenon
    <3>6. start[1] = blocks[a].id /\ end[1] = blocks[b].id /\ end # None
      BY <2>1, <3>1, <3>2, Zenon
    <3>7. boxes = TouchedBoxes(<<x, y>>)
      <4> DEFINE z == <<x, y>>
      <4>1. CASE a = b
        <5>1. {k \in a..b : Starts(blocks)[k] < EndOf(blocks, k)} = {a}
          <6>1. Starts(blocks)[a] < EndOf(blocks, a)
            <7>1. Starts(blocks)[a] \in Nat /\ EndOf(blocks, a) \in Nat
              BY <1>6, Geometry
            <7>2. QED BY <1>6, <7>1 DEF Covers
          <6>2. a..b = {a}
            BY <1>1, <4>1
          <6>3. QED BY <6>1, <6>2
        <5>2. OwnersIn(z) = {a}
          BY <3>4, <5>1
        <5> HIDE DEF z
        <5>3. TouchedBoxes(z) = <<blocks[a].box>>
          BY <1>6, <5>2, TouchedOne
        <5>4. boxes = <<BlockOf(start[1]).box>> /\ BlockOf(start[1]) = blocks[a]
          BY <1>1, <1>6, <3>6, <4>1, Zenon
        <5>5. QED BY <5>3, <5>4, Zenon DEF z
      <4>2. CASE a # b
        <5>1. start[1] # end[1]
          <6>1. blocks[a].id # blocks[b].id
            BY <1>6, <2>4, <4>2 DEF Located
          <6>2. QED BY <3>6, <6>1, Zenon
        <5>2. boxes = MultiBlockBoxes(blocks[a].id, blocks[b].id)
          BY <3>6, <5>1, Zenon
        <5>3. OwnersIn(z) = {k \in a..b : Starts(blocks)[k] < EndOf(blocks, k)}
          BY <3>4, Zenon
        <5> HIDE DEF z
        <5>4. MultiBlockBoxes(blocks[a].id, blocks[b].id) = TouchedBoxes(z)
          BY <1>6, <2>4, <3>4, <5>3, MultiBoxes
        <5>5. QED BY <5>2, <5>4, Zenon DEF z
      <4>3. QED BY <4>1, <4>2, Zenon
    <3>8. QED BY <2>1, <3>5, <3>6, <3>7, Zenon
  <2>5. QED BY <2>3, <2>4, Zenon
<1>7. QED BY <1>5, <1>6, Zenon

\* What the engine hands to the resolver: a value without a place, or one with
\* an interval; no value has no place.
Row(raw) ==
  /\ raw.grounded \in BOOLEAN
  /\ raw.value = NoValue => ~raw.grounded
  /\ raw.grounded => /\ raw.interval \in Int \X Int
                     /\ raw.interval[1] >= 0 /\ raw.interval[1] < raw.interval[2]

(***************************************************************************)
(* A row is resolved to a field of its name and value, grounded exactly if *)
(* its span is on text, with the boxes of the blocks that the span has     *)
(* characters of.                                                          *)
(***************************************************************************)
LEMMA ResolveFacts ==
  ASSUME Located, NEW raw, Row(raw)
  PROVE  LET f == ResolveOne(raw)
             grounded == raw.grounded /\ OnText(raw.interval)
         IN /\ f.name = raw.name /\ f.value = raw.value
            /\ f.status = (IF raw.value = NoValue THEN "failed" ELSE "extracted")
            /\ f.grounded = grounded
            /\ f.boxes = IF ~grounded THEN <<>> ELSE TouchedBoxes(raw.interval)
            /\ f.status = "extracted" => (f.source = "document") = grounded
<1> DEFINE f == ResolveOne(raw)
           iv == raw.interval
           grounded == raw.grounded /\ OnText(iv)
<1>1. CASE raw.value = NoValue
  <2>1. f = Ungrounded(raw, "failed", "document")
    BY <1>1, Zenon DEF ResolveOne
  <2>2. grounded = FALSE
    BY <1>1 DEF Row
  <2>3. /\ f.name = raw.name /\ f.value = raw.value /\ f.status = "failed"
        /\ f.grounded = FALSE /\ f.boxes = <<>> /\ "failed" # "extracted"
    <3> HIDE DEF f
    <3> QED BY <2>1 DEF Ungrounded
  <2> HIDE DEF grounded, f
  <2>4. QED BY <1>1, <2>2, <2>3, Zenon DEF f, grounded
<1>2. CASE raw.value # NoValue /\ ~raw.grounded
  <2>1. f = Ungrounded(raw, "extracted", "inferred")
    BY <1>2, Zenon DEF ResolveOne
  <2>2. grounded = FALSE
    BY <1>2
  <2>3. /\ f.name = raw.name /\ f.value = raw.value /\ f.status = "extracted" /\ f.source = "inferred"
        /\ f.grounded = FALSE /\ f.boxes = <<>> /\ (f.source = "document") = FALSE
    <3> HIDE DEF f
    <3> QED BY <2>1 DEF Ungrounded
  <2> HIDE DEF grounded, f
  <2>4. QED BY <1>2, <2>2, <2>3, Zenon DEF f, grounded
<1>3. CASE raw.value # NoValue /\ raw.grounded
  <2> DEFINE x == iv[1]
             y == iv[2]
             start == LookupOffset(x)
             end == EndLookup(iv)
             boxes == IF start[1] = end[1] THEN <<BlockOf(start[1]).box>> ELSE MultiBlockBoxes(start[1], end[1])
  <2>1. x \in Int /\ y \in Int /\ 0 <= x /\ x < y /\ iv = <<x, y>>
    BY <1>3 DEF Row
  <2>2. /\ OnText(iv) <=> start # None /\ end # None
        /\ OnText(iv) => boxes = TouchedBoxes(iv)
    <3> DEFINE xx == x
               yy == y
    <3>1. xx \in Int /\ yy \in Int /\ 0 <= xx /\ xx < yy /\ iv = <<xx, yy>>
      BY <2>1
    <3> HIDE DEF xx, yy, iv
    <3>2. /\ OnText(<<xx, yy>>) <=> LookupOffset(xx) # None /\ EndLookup(<<xx, yy>>) # None
          /\ OnText(<<xx, yy>>) =>
              (IF LookupOffset(xx)[1] = EndLookup(<<xx, yy>>)[1] THEN <<BlockOf(LookupOffset(xx)[1]).box>>
               ELSE MultiBlockBoxes(LookupOffset(xx)[1], EndLookup(<<xx, yy>>)[1])) = TouchedBoxes(<<xx, yy>>)
      BY <3>1, SpanFacts
    <3>3. /\ OnText(iv) <=> LookupOffset(xx) # None /\ EndLookup(iv) # None
          /\ OnText(iv) =>
              (IF LookupOffset(xx)[1] = EndLookup(iv)[1] THEN <<BlockOf(LookupOffset(xx)[1]).box>>
               ELSE MultiBlockBoxes(LookupOffset(xx)[1], EndLookup(iv)[1])) = TouchedBoxes(iv)
      BY <3>1, <3>2, Zenon
    <3>4. QED BY <3>3, Zenon DEF xx, iv
  <2>3. CASE start = None \/ end = None
    <3>1. f = Ungrounded(raw, "extracted", "inferred")
      BY <1>3, <2>3, Zenon DEF ResolveOne
    <3>2. ~OnText(iv)
      BY <2>2, <2>3, Zenon
    <3>3. grounded = FALSE
      BY <3>2
    <3>4. /\ f.name = raw.name /\ f.value = raw.value /\ f.status = "extracted" /\ f.source = "inferred"
          /\ f.grounded = FALSE /\ f.boxes = <<>> /\ (f.source = "document") = FALSE
      <4> HIDE DEF f
      <4> QED BY <3>1 DEF Ungrounded
    <3> HIDE DEF grounded, f
    <3>5. QED BY <1>3, <3>3, <3>4, Zenon DEF f, grounded
  <2>4. CASE ~(start = None \/ end = None)
    <3>1. f = Grounded(raw, start, end)
      BY <1>3, <2>4, Zenon DEF ResolveOne
    <3>2. OnText(iv) /\ boxes = TouchedBoxes(iv)
      BY <2>2, <2>4, Zenon
    <3>3. /\ f.name = raw.name /\ f.value = raw.value /\ f.status = "extracted"
          /\ f.source = "document" /\ f.grounded = TRUE /\ f.boxes = boxes
      <4> HIDE DEF f, start, end
      <4> QED BY <3>1 DEF Grounded
    <3> HIDE DEF f, start, end, boxes
    <3>4. QED BY <1>3, <3>2, <3>3 DEF f
  <2>5. QED BY <2>3, <2>4, Zenon
<1>4. QED BY <1>1, <1>2, <1>3, Zenon DEF Row

-----------------------------------------------------------------------------
(* The inductive invariant                                                 *)

\* The blocks and the index come from the items of the document.
Parsed ==
  /\ TextItems(document.items) # <<>>
  /\ blocks = ToParsedDocument(TextItems(document.items))
  /\ index = Concatenate(blocks)

\* The rows are those of the declared names, each from what was reported,
HasRows == raws = [k \in DOMAIN Declared |-> RawOf(Declared[k], reported)]

\* and the fields what the resolver makes of them.
HasFields == fields = [k \in DOMAIN Declared |-> ResolveOne(raws[k])]

\* A request that got to its response, or found no value at all.
Assembled ==
  /\ answer = (IF \E k \in DOMAIN fields : fields[k].status = "extracted"
               THEN "response" ELSE "STRUCTURED_OUTPUT_FAILED")
  /\ highlights = IF answer = "response" /\ mode # "JSON_ONLY" THEN Annotate ELSE <<>>

\* One that failed before it had any field.
FailedEarly ==
  /\ answer \in {"PDF_INVALID", "PDF_PASSWORD_PROTECTED", "PDF_PARSER_UNAVAILABLE",
                 "PDF_TOO_MANY_PAGES", "PDF_NO_TEXT_EXTRACTABLE", "INVALID_BOX"}
  /\ fields = <<>> /\ highlights = <<>>

SpansInv ==
  /\ document \in Documents /\ mode \in {"JSON_ONLY", "BOTH"}
  /\ stage \in {"parse", "extract", "resolve", "assemble", "done"}
  /\ reported \in Seq(Reportable) /\ Len(reported) <= MaxExtractions
  /\ stage = "parse" => fields = <<>> /\ highlights = <<>>
  /\ stage = "extract" => Parsed /\ fields = <<>> /\ highlights = <<>>
  /\ stage = "resolve" => Parsed /\ HasRows /\ highlights = <<>>
  /\ stage = "assemble" => Parsed /\ HasRows /\ HasFields /\ highlights = <<>>
  /\ stage = "done" => FailedEarly \/ (Parsed /\ HasRows /\ HasFields /\ Assembled)

(***************************************************************************)
(* The row of a name has the value that was reported first for it, and     *)
(* RawExtraction accepts it, whatever the interval was.                    *)
(***************************************************************************)
LEMMA RowFacts ==
  ASSUME NEW found \in Seq(Reportable), NEW name
  PROVE  LET raw == RawOf(name, found)
             own == {k \in DOMAIN found : found[k].class = name}
         IN /\ Row(raw) /\ Constructible(raw) /\ raw.name = name
            /\ raw.value = (IF own = {} THEN NoValue ELSE found[Min(own)].value)
            /\ own # {} => Min(own) \in own /\ (\A k \in own : Min(own) <= k) /\ raw.value # NoValue
<1> DEFINE raw == RawOf(name, found)
           own == {k \in DOMAIN found : found[k].class = name}
<1>1. CASE own = {}
  <2>1. raw = [name |-> name, value |-> NoValue, interval |-> None, grounded |-> FALSE]
    BY <1>1 DEF RawOf
  <2>2. /\ raw.name = name /\ raw.value = NoValue /\ raw.interval = None /\ raw.grounded = FALSE
    <3> HIDE DEF raw
    <3> QED BY <2>1
  <2>3. Row(raw) /\ Constructible(raw)
    <3> HIDE DEF raw
    <3> QED BY <2>2 DEF Row, Constructible
  <2> HIDE DEF raw, own
  <2>4. QED BY <1>1, <2>2, <2>3 DEF raw, own
<1>2. CASE own # {}
  <2> DEFINE x == found[Min(own)]
             iv == x.interval
  <2>1. own \subseteq Nat /\ DOMAIN found = 1..Len(found)
    OBVIOUS
  <2>2. Min(own) \in own /\ \A k \in own : Min(own) <= k
    <3> HIDE DEF own
    <3> QED BY <1>2, <2>1, MinOf
  <2>3. Min(own) \in DOMAIN found
    BY <2>2
  <2>4. x \in Reportable
    <3> HIDE DEF own
    <3> QED BY <2>3
  <2>5. x.value # NoValue /\ iv \in {<<>>} \cup (Int \X Int)
    <3> HIDE DEF x
    <3> QED BY <2>4 DEF Reportable, NoValue
  <2>6. raw = [name |-> name, value |-> x.value, interval |-> Sanitized(iv), grounded |-> Sanitized(iv) # None]
    <3>1. \E k \in DOMAIN found : found[k].class = name
      BY <1>2
    <3>2. QED BY <3>1, Zenon DEF RawOf, Winner
  <2>7. /\ raw.name = name /\ raw.value = x.value /\ raw.interval = Sanitized(iv)
        /\ raw.grounded = (Sanitized(iv) # None)
    <3> HIDE DEF raw, x, iv
    <3> QED BY <2>6
  <2>8. Sanitized(iv) # None =>
          /\ Sanitized(iv) = iv /\ iv \in Int \X Int
          /\ iv[1] >= 0 /\ iv[2] >= 0 /\ iv[1] < iv[2]
    <3> HIDE DEF iv
    <3> QED BY <2>5 DEF Sanitized, None
  <2>9. Row(raw) /\ Constructible(raw)
    <3> HIDE DEF raw, iv, x
    <3>1. CASE Sanitized(iv) = None
      BY <2>5, <2>7, <3>1 DEF Row, Constructible
    <3>2. CASE Sanitized(iv) # None
      BY <2>5, <2>7, <2>8, <3>2 DEF Row, Constructible
    <3>3. QED BY <3>1, <3>2
  <2> HIDE DEF raw, own
  <2>10. QED BY <1>2, <2>2, <2>5, <2>7, <2>9 DEF raw, own
<1>3. QED BY <1>1, <1>2

(***************************************************************************)
(* The items that have a text and a place are items of the document.       *)
(***************************************************************************)
LEMMA TextItemsFacts ==
  ASSUME NEW items \in Seq(Items)
  PROVE  /\ TextItems(items) \in Seq(Items)
         /\ \A k \in DOMAIN TextItems(items) : \E j \in DOMAIN items : TextItems(items)[k] = items[j]
<1> DEFINE S == {k \in DOMAIN items : items[k].text # <<>> /\ items[k].prov}
           kept == InOrder(S, Len(items))
           n == Len(items)
<1>1. TextItems(items) = [j \in DOMAIN kept |-> items[kept[j]]]
  BY Zenon DEF TextItems, Positions
<1>2. kept \in Seq(S \cap (1..Len(items)))
  BY InOrderFacts
<1>3. n \in Nat /\ DOMAIN items = 1..n /\ \A k \in 1..n : items[k] \in Items
  OBVIOUS
<1> HIDE DEF S, n
<1>4. Len(kept) \in Nat /\ DOMAIN kept = 1..Len(kept) /\ \A j \in 1..Len(kept) : kept[j] \in 1..n
  <2> HIDE DEF kept
  <2> QED BY <1>2 DEF n
<1> HIDE DEF kept
<1>5. TextItems(items) = [j \in 1..Len(kept) |-> items[kept[j]]] /\ \A j \in 1..Len(kept) : items[kept[j]] \in Items
  BY <1>1, <1>3, <1>4
<1>6. QED BY <1>3, <1>4, <1>5

(***************************************************************************)
(* No two blocks have the same id: of two items on one page the second     *)
(* has at least one more before it.                                        *)
(***************************************************************************)
LEMMA IdsDistinct ==
  ASSUME NEW items \in Seq(Items), NEW j \in DOMAIN items, NEW k \in DOMAIN items,
         ToParsedDocument(items)[j].id = ToParsedDocument(items)[k].id
  PROVE  j = k
<1> DEFINE same(i) == {m \in 1 .. i - 1 : items[m].page = items[i].page}
<1>1. \A i \in DOMAIN items : ToParsedDocument(items)[i].id = <<items[i].page, Cardinality(same(i))>>
  <2> SUFFICES ASSUME NEW i \in DOMAIN items
               PROVE  ToParsedDocument(items)[i].id = <<items[i].page, Cardinality(same(i))>>
    OBVIOUS
  <2> DEFINE id == <<items[i].page, Cardinality(same(i))>>
             r == [text |-> items[i].text, box |-> BoxOf(items[i]), id |-> id]
  <2>1. ToParsedDocument(items)[i] = r
    BY Zenon DEF ToParsedDocument
  <2> HIDE DEF id
  <2>2. r.id = id
    OBVIOUS
  <2>3. QED BY <2>1, <2>2, Zenon DEF id
<1>2. items[j].page = items[k].page /\ Cardinality(same(j)) = Cardinality(same(k))
  <2> DEFINE cj == Cardinality(same(j))
             ck == Cardinality(same(k))
  <2>1. <<items[j].page, cj>> = <<items[k].page, ck>>
    BY <1>1, Zenon
  <2> HIDE DEF cj, ck
  <2>2. items[j].page = items[k].page /\ cj = ck
    BY <2>1
  <2>3. QED BY <2>2 DEF cj, ck
<1>3. ASSUME NEW a \in DOMAIN items, NEW b \in DOMAIN items, a < b, items[a].page = items[b].page
      PROVE  Cardinality(same(a)) # Cardinality(same(b))
  <2>1. a \in Nat /\ b \in Nat /\ a \in same(b) /\ a \notin same(a) /\ same(a) \subseteq same(b)
    BY <1>3
  <2>2. IsFiniteSet(same(b)) /\ IsFiniteSet(same(a))
    <3>1. IsFiniteSet(1 .. b - 1) /\ IsFiniteSet(1 .. a - 1)
      BY <2>1, FS_Interval
    <3>2. same(b) \in SUBSET (1 .. b - 1) /\ same(a) \in SUBSET (1 .. a - 1)
      OBVIOUS
    <3> HIDE DEF same
    <3>3. QED BY <3>1, <3>2, FS_Subset
  <2> HIDE DEF same
  <2>3. same(a) \in SUBSET same(b) /\ same(a) # same(b)
    BY <2>1
  <2>4. QED BY <2>2, <2>3, FS_Subset
<1>4. j \in Nat /\ k \in Nat
  OBVIOUS
<1>5. QED BY <1>2, <1>3, <1>4

\* What the documents of Docling are, by the assumption.
LEMMA DocumentTypes ==
  ASSUME SpansAssumption, document \in Documents
  PROVE  /\ document.heights \in Seq(Int) /\ document.items \in Seq(Items)
         /\ \A k \in DOMAIN document.items : document.items[k].page \in DOMAIN document.heights
         /\ TextItems(document.items) \in Seq(Items)
         /\ \A k \in DOMAIN TextItems(document.items) :
              TextItems(document.items)[k].page \in DOMAIN document.heights
<1>1. /\ document.heights \in Seq(Int) /\ document.items \in Seq(Items)
      /\ \A k \in DOMAIN document.items : document.items[k].page \in DOMAIN document.heights
  BY DEF SpansAssumption
<1>2. QED BY <1>1, TextItemsFacts

(***************************************************************************)
(* What the parser makes of the items, the index locates.                  *)
(***************************************************************************)
LEMMA ParsedLocated ==
  ASSUME SpansAssumption, document \in Documents, Parsed
  PROVE  Located
<1> DEFINE items == TextItems(document.items)
<1>1. items \in Seq(Items) /\ items # <<>>
  BY DocumentTypes DEF Parsed
<1>2. blocks = ToParsedDocument(items) /\ index = Concatenate(blocks)
  BY DEF Parsed
<1> HIDE DEF items
<1>3. Len(items) \in Nat /\ Len(items) # 0 /\ DOMAIN items = 1..Len(items) /\ \A k \in 1..Len(items) : items[k] \in Items
  BY <1>1
<1>4. /\ DOMAIN blocks = 1..Len(items)
      /\ \A k \in 1..Len(items) : blocks[k].text = items[k].text
  BY <1>2, <1>3 DEF ToParsedDocument
<1>5. Len(blocks) = Len(items)
  BY <1>2, <1>3 DEF ToParsedDocument
<1>6. \A k \in 1..Len(items) : Len(items[k].text) \in Nat /\ DOMAIN items[k].text = 1..Len(items[k].text)
  <2> SUFFICES ASSUME NEW k \in 1..Len(items)
               PROVE  Len(items[k].text) \in Nat /\ DOMAIN items[k].text = 1..Len(items[k].text)
    OBVIOUS
  <2>1. items[k].text \in Seq(STRING)
    BY <1>3 DEF Items
  <2>2. QED BY <2>1
<1>7. HaveTexts(blocks)
  BY <1>3, <1>4, <1>5, <1>6 DEF HaveTexts
<1>8. \A j, k \in 1..Len(blocks) : blocks[j].id = blocks[k].id => j = k
  BY <1>1, <1>2, <1>3, <1>5, IdsDistinct
<1>9. QED BY <1>2, <1>3, <1>5, <1>7, <1>8 DEF Located

(***************************************************************************)
(* The positions of a set in order, the least one first.                   *)
(***************************************************************************)
LEMMA InOrderRange ==
  ASSUME NEW n \in Nat, NEW S \in SUBSET (1..n)
  PROVE  /\ InOrder(S, n) \in Seq(1..n)
         /\ ToSet(InOrder(S, n)) = S
         /\ S = {} => InOrder(S, n) = <<>>
         /\ S # {} => InOrder(S, n) # <<>> /\ InOrder(S, n)[1] = Min(S)
<1> DEFINE s == InOrder(S, n)
<1>1. /\ s \in Seq(S)
      /\ \A i, j \in DOMAIN s : i < j => s[i] < s[j]
      /\ \A k \in S : \E i \in DOMAIN s : s[i] = k
  <2>1. S \cap (1..n) = S
    OBVIOUS
  <2>2. QED BY <2>1, InOrderFacts
<1> HIDE DEF s
<1>2. Len(s) \in Nat /\ DOMAIN s = 1..Len(s) /\ \A i \in 1..Len(s) : s[i] \in S
  BY <1>1
<1>3. s \in Seq(1..n) /\ ToSet(s) = S
  <2>1. S \subseteq 1..n
    OBVIOUS
  <2>2. s \in Seq(1..n)
    <3>1. s \in [1..Len(s) -> S]
      BY <1>1
    <3>2. s \in [1..Len(s) -> 1..n]
      BY <2>1, <3>1
    <3>3. QED BY <1>2, <3>2
  <2>3. ToSet(s) = S
    BY <1>1, <1>2 DEF ToSet
  <2>4. QED BY <2>2, <2>3
<1>4. S = {} => s = <<>>
  BY <1>1, <1>2
<1>5. ASSUME S # {} PROVE s # <<>> /\ s[1] = Min(S)
  <2>1. S \subseteq Nat
    OBVIOUS
  <2>2. Min(S) \in S /\ \A y \in S : Min(S) <= y
    BY <1>5, <2>1, MinOf
  <2>3. PICK i \in DOMAIN s : s[i] = Min(S)
    BY <1>1, <2>2
  <2>4. 1 \in DOMAIN s /\ 1 <= i /\ i \in Nat /\ s[1] \in S
    BY <1>2
  <2>5. i = 1
    <3> SUFFICES ASSUME 1 < i PROVE FALSE
      BY <2>4
    <3>1. s[1] < s[i] /\ Min(S) <= s[1]
      BY <1>1, <2>2, <2>4
    <3>2. s[1] \in Nat /\ s[i] \in Nat
      BY <2>1, <2>2, <2>3, <2>4
    <3>3. QED BY <2>3, <3>1, <3>2
  <2>6. s # <<>>
    BY <2>4
  <2>7. QED BY <2>3, <2>5, <2>6
<1>6. QED BY <1>3, <1>4, <1>5 DEF s

\* The row of a declared name and the field that the resolver makes of it.
LEMMA FieldFacts ==
  ASSUME SpansAssumption, SpansInv, Parsed, HasRows, HasFields
  PROVE  /\ DOMAIN fields = DOMAIN Declared /\ DOMAIN raws = DOMAIN Declared
         /\ \A k \in DOMAIN Declared :
              LET f == fields[k]
                  own == {j \in DOMAIN reported : reported[j].class = Declared[k]}
                  grounded == raws[k].grounded /\ OnText(raws[k].interval)
              IN /\ Row(raws[k]) /\ f.name = Declared[k]
                 /\ f.value = (IF own = {} THEN NoValue ELSE reported[Min(own)].value)
                 /\ f.status = (IF own = {} THEN "failed" ELSE "extracted")
                 /\ f.grounded = grounded
                 /\ f.boxes = IF ~grounded THEN <<>> ELSE TouchedBoxes(raws[k].interval)
                 /\ f.status = "extracted" => (f.source = "document") = grounded
<1>1. Located
  BY ParsedLocated DEF SpansInv
<1>2. DOMAIN fields = DOMAIN Declared /\ DOMAIN raws = DOMAIN Declared
  BY DEF HasRows, HasFields
<1>3. ASSUME NEW k \in DOMAIN Declared
      PROVE  LET f == fields[k]
                 own == {j \in DOMAIN reported : reported[j].class = Declared[k]}
                 grounded == raws[k].grounded /\ OnText(raws[k].interval)
             IN /\ Row(raws[k]) /\ f.name = Declared[k]
                /\ f.value = (IF own = {} THEN NoValue ELSE reported[Min(own)].value)
                /\ f.status = (IF own = {} THEN "failed" ELSE "extracted")
                /\ f.grounded = grounded
                /\ f.boxes = IF ~grounded THEN <<>> ELSE TouchedBoxes(raws[k].interval)
                /\ f.status = "extracted" => (f.source = "document") = grounded
  <2> DEFINE raw == raws[k]
             name == Declared[k]
             f == fields[k]
             own == {j \in DOMAIN reported : reported[j].class = name}
             grounded == raw.grounded /\ OnText(raw.interval)
  <2>1. raw = RawOf(name, reported) /\ f = ResolveOne(raw)
    BY DEF HasRows, HasFields
  <2>2. reported \in Seq(Reportable)
    BY DEF SpansInv
  <2>3. /\ Row(raw) /\ raw.name = name
        /\ raw.value = (IF own = {} THEN NoValue ELSE reported[Min(own)].value)
        /\ own # {} => raw.value # NoValue
    <3>1. /\ Row(RawOf(name, reported)) /\ RawOf(name, reported).name = name
          /\ RawOf(name, reported).value = (IF own = {} THEN NoValue ELSE reported[Min(own)].value)
          /\ own # {} => RawOf(name, reported).value # NoValue
      <4>1. \A nm : LET r == RawOf(nm, reported)
                        set == {j \in DOMAIN reported : reported[j].class = nm}
                    IN /\ Row(r) /\ Constructible(r) /\ r.name = nm
                       /\ r.value = (IF set = {} THEN NoValue ELSE reported[Min(set)].value)
                       /\ set # {} => Min(set) \in set /\ (\A j \in set : Min(set) <= j) /\ r.value # NoValue
        BY <2>2, RowFacts
      <4>2. QED BY <4>1, Zenon
    <3>2. QED BY <2>1, <3>1, Zenon
  <2>4. /\ f.name = raw.name /\ f.value = raw.value
        /\ f.status = (IF raw.value = NoValue THEN "failed" ELSE "extracted")
        /\ f.grounded = grounded
        /\ f.boxes = IF ~grounded THEN <<>> ELSE TouchedBoxes(raw.interval)
        /\ f.status = "extracted" => (f.source = "document") = grounded
    <3> HIDE DEF raw, f
    <3>1. LET g == ResolveOne(raw)
          IN /\ g.name = raw.name /\ g.value = raw.value
             /\ g.status = (IF raw.value = NoValue THEN "failed" ELSE "extracted")
             /\ g.grounded = grounded
             /\ g.boxes = IF ~grounded THEN <<>> ELSE TouchedBoxes(raw.interval)
             /\ g.status = "extracted" => (g.source = "document") = grounded
      BY <1>1, <2>3, ResolveFacts, Zenon
    <3>2. QED BY <2>1, <3>1, Zenon
  <2>5. f.status = IF own = {} THEN "failed" ELSE "extracted"
    <3> HIDE DEF raw, f, own
    <3> QED BY <2>3, <2>4
  <2> HIDE DEF own, grounded
  <2>6. QED BY <2>3, <2>4, <2>5, Zenon DEF own, grounded
<1>4. QED BY <1>2, <1>3

(***************************************************************************)
(* The inductive invariant implies that fields are grounded on the items   *)
(* that their spans touch.                                                 *)
(***************************************************************************)
LEMMA InvGrounded ==
  ASSUME SpansAssumption, SpansInv
  PROVE  GroundedOnTouchedItems
<1> SUFFICES ASSUME stage = "assemble", NEW k \in DOMAIN fields
             PROVE  LET f == fields[k]
                        grounded == raws[k].grounded /\ OnText(raws[k].interval)
                    IN /\ f.grounded = grounded
                       /\ f.boxes = IF ~grounded THEN <<>> ELSE TouchedBoxes(raws[k].interval)
                       /\ f.status = "extracted" => (f.source = "document") = grounded
  BY Zenon DEF GroundedOnTouchedItems, TouchedBoxes
<1>1. Parsed /\ HasRows /\ HasFields
  BY DEF SpansInv
<1>2. DOMAIN fields = DOMAIN Declared
  BY <1>1, FieldFacts
<1>3. k \in DOMAIN Declared
  BY <1>2
<1>4. QED BY <1>1, <1>3, FieldFacts, Zenon

-----------------------------------------------------------------------------
(* What is highlighted                                                     *)

\* A box of the page, measured from the top, as Annotate draws it.
Drawn(box) == [page |-> box.page, top |-> Flipped(box.page, box.y1), bottom |-> Flipped(box.page, box.y0)]

(***************************************************************************)
(* Measured from the bottom and back: a box is drawn where its item is.    *)
(***************************************************************************)
LEMMA DrawnStands ==
  ASSUME SpansAssumption, document \in Documents, NEW i \in Items, i.page \in DOMAIN document.heights
  PROVE  /\ BoxOf(i).y0 # BoxOf(i).y1 <=> i.t # i.b
         /\ Drawn(BoxOf(i)) = Standing(i)
<1> DEFINE h == document.heights[i.page]
           box == BoxOf(i)
           y0 == IF i.origin = "TOPLEFT" THEN h - i.b ELSE i.b
           y1 == IF i.origin = "TOPLEFT" THEN h - i.t ELSE i.t
<1>1. h \in Int
  <2>1. document.heights \in Seq(Int)
    BY DocumentTypes
  <2>2. QED BY <2>1
<1>2. i.t \in Int /\ i.b \in Int /\ i.origin \in {"TOPLEFT", "BOTTOMLEFT"}
  BY DEF Items
<1>3. box = [page |-> i.page, y0 |-> y0, y1 |-> y1]
  BY DEF BoxOf, Flipped
<1> HIDE DEF box, y0, y1
<1>4. box.page = i.page /\ box.y0 = y0 /\ box.y1 = y1
  BY <1>3
<1>5. Drawn(box) = [page |-> i.page, top |-> h - y1, bottom |-> h - y0]
  BY <1>4 DEF Drawn, Flipped
<1>6. Standing(i) = IF i.origin = "TOPLEFT" THEN [page |-> i.page, top |-> i.t, bottom |-> i.b]
                    ELSE [page |-> i.page, top |-> h - i.t, bottom |-> h - i.b]
  BY DEF Standing, Flipped
<1> HIDE DEF h
<1>7. CASE i.origin = "TOPLEFT"
  <2>1. y0 = h - i.b /\ y1 = h - i.t
    BY <1>7 DEF y0, y1
  <2>2. h - y1 = i.t /\ h - y0 = i.b /\ (y0 # y1 <=> i.t # i.b)
    BY <1>1, <1>2, <2>1
  <2>3. QED BY <1>4, <1>5, <1>6, <1>7, <2>2 DEF box
<1>8. CASE i.origin # "TOPLEFT"
  <2>1. y0 = i.b /\ y1 = i.t
    BY <1>8 DEF y0, y1
  <2>2. QED BY <1>2, <1>4, <1>5, <1>6, <1>8, <2>1 DEF box
<1>9. QED BY <1>7, <1>8

(***************************************************************************)
(* The touched boxes are those of the owners in the span.                  *)
(***************************************************************************)
LEMMA TouchedMembers ==
  ASSUME Located, NEW interval, OwnersIn(interval) \subseteq 1..Len(blocks)
  PROVE  /\ TouchedBoxes(interval) \in Seq({blocks[b].box : b \in 1..Len(blocks)})
         /\ ToSet(TouchedBoxes(interval)) = {blocks[b].box : b \in OwnersIn(interval)}
<1> DEFINE n == Len(blocks)
           S == OwnersIn(interval)
           set == {b \in DOMAIN blocks : b \in OwnersIn(interval)}
           touched == InOrder(set, n)
<1>1. TouchedBoxes(interval) = [j \in DOMAIN touched |-> blocks[touched[j]].box]
  BY Zenon DEF TouchedBoxes, Positions
<1>2. n \in Nat /\ DOMAIN blocks = 1..n
  BY Geometry
<1>3. set = S /\ S \in SUBSET (1..n)
  BY <1>2
<1> HIDE DEF n, S, set
<1>4. touched \in Seq(1..n) /\ ToSet(touched) = S
  BY <1>2, <1>3, InOrderRange
<1> HIDE DEF touched
<1>5. Len(touched) \in Nat /\ DOMAIN touched = 1..Len(touched) /\ \A j \in 1..Len(touched) : touched[j] \in 1..n
  <2> DEFINE V == 1..n
  <2>1. touched \in Seq(V)
    BY <1>4, Zenon
  <2> HIDE DEF V
  <2>2. Len(touched) \in Nat /\ DOMAIN touched = 1..Len(touched) /\ \A j \in 1..Len(touched) : touched[j] \in V
    BY <2>1
  <2>3. QED BY <2>2, Zenon DEF V
<1>6. TouchedBoxes(interval) \in Seq({blocks[b].box : b \in 1..n})
  BY <1>1, <1>5
<1>7. S = {touched[j] : j \in DOMAIN touched}
  BY <1>4 DEF ToSet
<1>8. ToSet(TouchedBoxes(interval)) = {blocks[touched[j]].box : j \in DOMAIN touched}
  BY <1>1, <1>5 DEF ToSet
<1>9. {blocks[touched[j]].box : j \in DOMAIN touched} = {blocks[b].box : b \in S}
  BY <1>7
<1>10. QED BY <1>6, <1>8, <1>9 DEF n, S

(***************************************************************************)
(* Annotate draws the boxes of the fields that have an area, and nothing   *)
(* else.                                                                   *)
(***************************************************************************)
LEMMA AnnotateMembers ==
  ASSUME NEW T,
         Len(fields) \in Nat, DOMAIN fields = 1..Len(fields),
         \A k \in 1..Len(fields) : fields[k].boxes \in Seq(T)
  PROVE  ToSet(Annotate) =
           {Drawn(box) : box \in {x \in UNION {ToSet(fields[k].boxes) : k \in 1..Len(fields)} : x.y0 # x.y1}}
<1> DEFINE n == Len(fields)
           seqs == [k \in DOMAIN fields |-> fields[k].boxes]
           boxes == FlattenSeq(seqs)
           S == {k \in DOMAIN boxes : boxes[k].y0 # boxes[k].y1}
           drawn == InOrder(S, Len(boxes))
           all == UNION {ToSet(fields[k].boxes) : k \in 1..n}
<1>1. seqs \in Seq(Seq(T)) /\ Len(seqs) = n /\ \A k \in 1..n : seqs[k] = fields[k].boxes
  OBVIOUS
<1>2. Annotate = [j \in DOMAIN drawn |->
                    [page |-> boxes[drawn[j]].page,
                     top |-> Flipped(boxes[drawn[j]].page, boxes[drawn[j]].y1),
                     bottom |-> Flipped(boxes[drawn[j]].page, boxes[drawn[j]].y0)]]
  BY Zenon DEF Annotate, Positions
<1>3. Annotate = [j \in DOMAIN drawn |-> Drawn(boxes[drawn[j]])]
  BY <1>2, Zenon DEF Drawn
<1> HIDE DEF seqs
<1>4. boxes \in Seq(T) /\ ToSet(boxes) = UNION {ToSet(seqs[k]) : k \in 1..Len(seqs)}
  BY <1>1, FlattenMembers
<1>5. ToSet(boxes) = all
  BY <1>1, <1>4
<1> HIDE DEF boxes, all
<1>6. Len(boxes) \in Nat /\ DOMAIN boxes = 1..Len(boxes)
  BY <1>4
<1>7. S \in SUBSET (1..Len(boxes))
  BY <1>6
<1>8. ToSet(drawn) = S /\ drawn \in Seq(1..Len(boxes))
  <2> HIDE DEF S
  <2> QED BY <1>6, <1>7, InOrderRange
<1> HIDE DEF drawn
<1>9. ToSet(Annotate) = {Drawn(boxes[drawn[j]]) : j \in DOMAIN drawn}
  BY <1>3 DEF ToSet
<1>10. S = {drawn[j] : j \in DOMAIN drawn}
  BY <1>8 DEF ToSet
<1>11. {x \in all : x.y0 # x.y1} = {boxes[k] : k \in S}
  <2>1. all = {boxes[k] : k \in DOMAIN boxes}
    BY <1>5 DEF ToSet
  <2>2. QED BY <2>1
<1>12. {Drawn(boxes[drawn[j]]) : j \in DOMAIN drawn} = {Drawn(box) : box \in {boxes[k] : k \in S}}
  <2> HIDE DEF S
  <2> QED BY <1>10
<1>13. QED BY <1>9, <1>11, <1>12 DEF all

(***************************************************************************)
(* The inductive invariant implies that the answer follows the skill: the  *)
(* highlighted boxes are those of the grounded fields, flipped back to     *)
(* where their items stand.                                                *)
(***************************************************************************)
LEMMA InvFollows ==
  ASSUME SpansAssumption, SpansInv
  PROVE  AnswerFollowsSkill
<1> SUFFICES ASSUME stage = "done" PROVE AnswerFollowsSkill
  BY DEF AnswerFollowsSkill
<1>1. CASE FailedEarly
  <2>1. answer # "ValueError" /\ answer # "response" /\ fields = <<>>
    BY <1>1 DEF FailedEarly
  <2>2. ToSet(highlights) = {}
    BY <1>1 DEF FailedEarly, ToSet
  <2>3. QED BY <2>1, <2>2, Zenon DEF AnswerFollowsSkill
<1>2. CASE Parsed /\ HasRows /\ HasFields /\ Assembled
  <2> DEFINE own(k) == {j \in DOMAIN reported : reported[j].class = Declared[k]}
             items == TextItems(document.items)
             grounded == {k \in DOMAIN fields : fields[k].grounded}
  <2>1. /\ DOMAIN fields = DOMAIN Declared
        /\ \A k \in DOMAIN Declared :
             /\ Row(raws[k]) /\ fields[k].name = Declared[k]
             /\ fields[k].value = (IF own(k) = {} THEN NoValue ELSE reported[Min(own(k))].value)
             /\ fields[k].status = (IF own(k) = {} THEN "failed" ELSE "extracted")
             /\ fields[k].grounded = (raws[k].grounded /\ OnText(raws[k].interval))
             /\ fields[k].boxes = IF ~fields[k].grounded THEN <<>> ELSE TouchedBoxes(raws[k].interval)
    BY <1>2, FieldFacts, Zenon
  <2>2. reported \in Seq(Reportable) /\ Len(reported) \in Nat /\ DOMAIN reported = 1..Len(reported)
    BY DEF SpansInv
  <2>3. answer # "ValueError"
    BY <1>2 DEF Assembled
  <2>4. answer = "response" <=> \E k \in DOMAIN Declared : own(k) # {}
    <3>1. answer = "response" <=> \E k \in DOMAIN fields : fields[k].status = "extracted"
      BY <1>2 DEF Assembled
    <3> HIDE DEF own
    <3>2. QED BY <2>1, <3>1
  <2>5. (answer = "response") = (\E x \in ToSet(reported) : x.class \in ToSet(Declared))
    <3>1. (\E k \in DOMAIN Declared : own(k) # {}) <=> (\E x \in ToSet(reported) : x.class \in ToSet(Declared))
      BY DEF ToSet
    <3>2. QED BY <2>4, <3>1
  <2>6. ASSUME NEW k \in DOMAIN Declared
        PROVE  LET seq == Positions(reported, LAMBDA j : reported[j].class = Declared[k])
               IN /\ fields[k].name = Declared[k]
                  /\ fields[k].value = IF seq = <<>> THEN NoValue ELSE reported[seq[1]].value
    <3> DEFINE seq == InOrder(own(k), Len(reported))
    <3>1. Positions(reported, LAMBDA j : reported[j].class = Declared[k]) = seq
      BY Zenon DEF Positions
    <3>2. own(k) \in SUBSET (1..Len(reported))
      BY <2>2
    <3>3. /\ own(k) = {} => seq = <<>>
          /\ own(k) # {} => seq # <<>> /\ seq[1] = Min(own(k))
      <4> DEFINE S == own(k)
      <4>1. S \in SUBSET (1..Len(reported))
        BY <3>2
      <4> HIDE DEF S
      <4>2. /\ S = {} => InOrder(S, Len(reported)) = <<>>
            /\ S # {} => InOrder(S, Len(reported)) # <<>> /\ InOrder(S, Len(reported))[1] = Min(S)
        BY <2>2, <4>1, InOrderRange
      <4>3. QED BY <4>2 DEF S
    <3> HIDE DEF own, seq
    <3>4. QED BY <2>1, <3>1, <3>3, Zenon
  <2>7. ToSet(highlights) =
          IF answer # "response" \/ mode = "JSON_ONLY" THEN {}
          ELSE LET drawn == UNION {OwnersIn(raws[k].interval) : k \in grounded}
               IN {Standing(i) : i \in {i \in {items[b] : b \in drawn} : i.t # i.b}}
    <3>1. CASE answer # "response" \/ mode = "JSON_ONLY"
      <4>1. highlights = <<>>
        BY <1>2, <3>1 DEF Assembled
      <4>2. ToSet(highlights) = {}
        BY <4>1 DEF ToSet
      <4>3. QED BY <3>1, <4>2, Zenon
    <3>2. CASE ~(answer # "response" \/ mode = "JSON_ONLY")
      <4> DEFINE n == Len(blocks)
                 T == {blocks[b].box : b \in 1..n}
                 touched(k) == OwnersIn(raws[k].interval)
                 drawn == UNION {touched(k) : k \in grounded}
                 all == UNION {ToSet(fields[k].boxes) : k \in 1..Len(fields)}
      <4>1. highlights = Annotate
        BY <1>2, <3>2 DEF Assembled
      <4>2. Located
        BY <1>2, ParsedLocated DEF SpansInv
      <4>3. Len(fields) \in Nat /\ DOMAIN fields = 1..Len(fields)
        <5>1. Declared \in Seq(STRING)
          BY DEF SpansAssumption
        <5>2. fields = [k \in 1..Len(Declared) |-> ResolveOne(raws[k])] /\ Len(Declared) \in Nat
          BY <1>2, <5>1 DEF HasFields
        <5>3. QED BY <5>2
      <4>4. ASSUME NEW k \in grounded
            PROVE  touched(k) \subseteq 1..n
        <5> DEFINE iv == raws[k].interval
                   x == iv[1]
                   y == iv[2]
        <5>1. k \in DOMAIN Declared /\ Row(raws[k]) /\ raws[k].grounded /\ OnText(iv)
          BY <2>1, Zenon
        <5>2. iv \in Int \X Int /\ iv[1] >= 0
          BY <5>1 DEF Row
        <5>3. x \in Int /\ y \in Int /\ 0 <= x /\ iv = <<x, y>> /\ y <= Len(Owners)
          BY <5>1, <5>2 DEF OnText
        <5> HIDE DEF x, y, iv
        <5>4. OwnersIn(<<x, y>>) = {b \in 1..n : \E o \in x..(y - 1) : Covers(b, o)}
          BY <4>2, <5>3, OwnersInFacts
        <5>5. OwnersIn(iv) \subseteq 1..n
          BY <5>3, <5>4
        <5>6. QED BY <5>5 DEF iv
      <4>5. ASSUME NEW k \in grounded
            PROVE  /\ fields[k].boxes \in Seq(T)
                   /\ ToSet(fields[k].boxes) = {blocks[b].box : b \in touched(k)}
        <5>1. fields[k].boxes = TouchedBoxes(raws[k].interval)
          BY <2>1, Zenon
        <5>2. OwnersIn(raws[k].interval) \subseteq 1..Len(blocks)
          BY <4>4, Zenon
        <5>3. /\ TouchedBoxes(raws[k].interval) \in Seq({blocks[b].box : b \in 1..Len(blocks)})
              /\ ToSet(TouchedBoxes(raws[k].interval)) = {blocks[b].box : b \in OwnersIn(raws[k].interval)}
          BY <4>2, <5>2, TouchedMembers
        <5>4. QED BY <5>1, <5>3, Zenon
      <4>6. ASSUME NEW k \in DOMAIN fields, k \notin grounded
            PROVE  fields[k].boxes \in Seq(T) /\ ToSet(fields[k].boxes) = {}
        <5>1. fields[k].boxes = <<>>
          BY <2>1, <4>6, Zenon
        <5> HIDE DEF T
        <5>2. <<>> \in Seq(T) /\ ToSet(<<>>) = {}
          BY DEF ToSet
        <5>3. QED BY <5>1, <5>2, Zenon
      <4>7. \A k \in 1..Len(fields) : fields[k].boxes \in Seq(T)
        <5> HIDE DEF T, grounded
        <5> QED BY <4>3, <4>5, <4>6
      <4>8. ToSet(Annotate) = {Drawn(box) : box \in {x \in all : x.y0 # x.y1}}
        <5> HIDE DEF T
        <5> QED BY <4>3, <4>7, AnnotateMembers
      <4>9. all = {blocks[b].box : b \in drawn}
        <5>1. grounded \subseteq 1..Len(fields)
          BY <4>3
        <5> HIDE DEF grounded, touched
        <5>2. ASSUME NEW box \in all PROVE box \in {blocks[b].box : b \in drawn}
          <6>1. PICK k \in 1..Len(fields) : box \in ToSet(fields[k].boxes)
            BY <5>2
          <6>2. k \in grounded
            BY <4>3, <4>6, <6>1
          <6>3. PICK b \in touched(k) : box = blocks[b].box
            BY <4>5, <6>1, <6>2
          <6>4. b \in drawn
            BY <6>2, <6>3
          <6>5. QED BY <6>3, <6>4
        <5>3. ASSUME NEW b \in drawn PROVE blocks[b].box \in all
          <6>1. PICK k \in grounded : b \in touched(k)
            BY <5>3
          <6>2. blocks[b].box \in ToSet(fields[k].boxes)
            BY <4>5, <6>1
          <6>3. QED BY <5>1, <6>1, <6>2
        <5>4. QED BY <5>2, <5>3
      <4>10. drawn \subseteq 1..n
        <5> HIDE DEF grounded, touched, n
        <5> QED BY <4>4
      <4>11. /\ n = Len(items) /\ items \in Seq(Items) /\ document \in Documents
             /\ \A b \in 1..n : blocks[b].box = BoxOf(items[b]) /\ items[b].page \in DOMAIN document.heights
        <5>1. items \in Seq(Items) /\ document \in Documents
              /\ \A k \in DOMAIN items : items[k].page \in DOMAIN document.heights
          BY DocumentTypes DEF SpansInv
        <5>2. blocks = ToParsedDocument(items)
          BY <1>2 DEF Parsed
        <5> HIDE DEF items
        <5>3. Len(items) \in Nat /\ DOMAIN items = 1..Len(items)
          BY <5>1
        <5>4. Len(blocks) = Len(items) /\ \A b \in 1..Len(items) : blocks[b].box = BoxOf(items[b])
          BY <5>2, <5>3 DEF ToParsedDocument
        <5>5. QED BY <5>1, <5>3, <5>4
      <4>12. \A b \in drawn : /\ items[b] \in Items /\ blocks[b].box = BoxOf(items[b])
                              /\ BoxOf(items[b]).y0 # BoxOf(items[b]).y1 <=> items[b].t # items[b].b
                              /\ Drawn(BoxOf(items[b])) = Standing(items[b])
        <5> SUFFICES ASSUME NEW b \in drawn
                     PROVE  /\ items[b] \in Items /\ blocks[b].box = BoxOf(items[b])
                            /\ BoxOf(items[b]).y0 # BoxOf(items[b]).y1 <=> items[b].t # items[b].b
                            /\ Drawn(BoxOf(items[b])) = Standing(items[b])
          OBVIOUS
        <5> HIDE DEF drawn, items, n
        <5>1. b \in 1..n
          BY <4>10
        <5>2. items[b] \in Items
          BY <4>11, <5>1
        <5>3. items[b].page \in DOMAIN document.heights /\ blocks[b].box = BoxOf(items[b])
          BY <4>11, <5>1
        <5>4. QED BY <4>11, <5>2, <5>3, DrawnStands
      <4>13. {Drawn(box) : box \in {x \in all : x.y0 # x.y1}} =
               {Standing(i) : i \in {i \in {items[b] : b \in drawn} : i.t # i.b}}
        <5> HIDE DEF drawn, items, all, n
        <5>1. {Drawn(box) : box \in {x \in all : x.y0 # x.y1}} =
                {Drawn(BoxOf(items[b])) : b \in {c \in drawn : items[c].t # items[c].b}}
          BY <4>9, <4>12
        <5>2. {Standing(i) : i \in {i \in {items[b] : b \in drawn} : i.t # i.b}} =
                {Standing(items[b]) : b \in {c \in drawn : items[c].t # items[c].b}}
          OBVIOUS
        <5>3. QED BY <4>12, <5>1, <5>2
      <4>14. ToSet(highlights) = {Standing(i) : i \in {i \in {items[b] : b \in drawn} : i.t # i.b}}
        BY <4>1, <4>8, <4>13, Zenon
      <4>15. QED BY <3>2, <4>14, Zenon
    <3>3. QED BY <3>1, <3>2, Zenon
  <2>8. QED BY <2>3, <2>5, <2>6, <2>7, Zenon DEF AnswerFollowsSkill
<1>3. FailedEarly \/ (Parsed /\ HasRows /\ HasFields /\ Assembled)
  BY DEF SpansInv
<1>4. QED BY <1>1, <1>2, <1>3, Zenon

-----------------------------------------------------------------------------
(* The steps                                                               *)

(***************************************************************************)
(* What the resolver makes of a row depends on the blocks and the index.   *)
(***************************************************************************)
LEMMA ResolveStable ==
  ASSUME NEW raw, UNCHANGED <<blocks, index>>
  PROVE  ResolveOne(raw)' = ResolveOne(raw)
<1>1. \A o : LookupOffset(o)' = LookupOffset(o)
  BY DEF LookupOffset
<1>2. \A id : BlockOf(id)' = BlockOf(id)
  BY DEF BlockOf
<1>3. \A interval : AtBlockBoundary(interval)' = AtBlockBoundary(interval)
  BY <1>1 DEF AtBlockBoundary
<1>4. \A interval : EndLookup(interval)' = EndLookup(interval)
  BY <1>1, <1>3, Zenon DEF EndLookup
<1>5. \A from, to : MultiBlockBoxes(from, to)' = MultiBlockBoxes(from, to)
  <2> SUFFICES ASSUME NEW startId, NEW endId
               PROVE  MultiBlockBoxes(startId, endId)' = MultiBlockBoxes(startId, endId)
    OBVIOUS
  <2> DEFINE from == Min({k \in DOMAIN index : index[k].id = startId})
             ends == {k \in DOMAIN index : k >= from /\ index[k].id = endId}
             inside == {k \in DOMAIN index : /\ k \in from .. Min(ends) /\ index[k].start < index[k].end
                                             /\ \A j \in from .. k - 1 : index[j].id # index[k].id}
             order == InOrder(inside, Len(index))
             boxes == [j \in DOMAIN order |-> BlockOf(index[order[j]].id).box]
  <2>1. MultiBlockBoxes(startId, endId) = IF ends = {} THEN <<BlockOf(startId).box>> ELSE boxes
    BY Zenon DEF MultiBlockBoxes, Positions
  <2>2. MultiBlockBoxes(startId, endId)' = IF ends' = {} THEN <<BlockOf(startId)'.box>> ELSE boxes'
    BY Zenon DEF MultiBlockBoxes, Positions
  <2>3. from' = from
    OBVIOUS
  <2> HIDE DEF from
  <2>4. ends' = ends
    BY <2>3
  <2> HIDE DEF ends
  <2>5. inside' = inside
    BY <2>3, <2>4
  <2> HIDE DEF inside
  <2>6. order' = order
    BY <2>5
  <2> HIDE DEF order
  <2>7. boxes' = boxes
    BY <1>2, <2>6
  <2> HIDE DEF boxes
  <2>8. QED BY <1>2, <2>1, <2>2, <2>4, <2>7, Zenon
<1>6. \A start, end : Grounded(raw, start, end)' = Grounded(raw, start, end)
  BY <1>2, <1>5, Zenon DEF Grounded
<1>7. QED BY <1>1, <1>4, <1>6, Zenon DEF ResolveOne, Ungrounded

(***************************************************************************)
(* A step that leaves the document, the blocks and the index alone leaves  *)
(* them parsed,                                                            *)
(***************************************************************************)
LEMMA ParsedStable ==
  ASSUME Parsed, UNCHANGED <<document, blocks, index>>
  PROVE  Parsed'
<1>1. \A i : BoxOf(i)' = BoxOf(i)
  BY DEF BoxOf, Flipped
<1>2. \A items : ToParsedDocument(items)' = ToParsedDocument(items)
  BY <1>1 DEF ToParsedDocument
<1>3. QED BY <1>2 DEF Parsed

(***************************************************************************)
(* one that leaves the reports and the rows alone leaves the rows those of *)
(* the reports,                                                            *)
(***************************************************************************)
LEMMA RowsStable ==
  ASSUME HasRows, UNCHANGED <<reported, raws>>
  PROVE  HasRows'
BY DEF HasRows

(***************************************************************************)
(* one that leaves the blocks, the index, the rows and the fields alone    *)
(* leaves the fields those of the rows,                                    *)
(***************************************************************************)
LEMMA FieldsStable ==
  ASSUME HasFields, UNCHANGED <<blocks, index, raws, fields>>
  PROVE  HasFields'
<1>1. \A raw : ResolveOne(raw)' = ResolveOne(raw)
  BY ResolveStable
<1>2. QED BY <1>1 DEF HasFields

(***************************************************************************)
(* and one that leaves the fields and the document alone leaves the        *)
(* highlights what they are.                                               *)
(***************************************************************************)
LEMMA AnnotateStable ==
  ASSUME UNCHANGED <<document, fields>>
  PROVE  Annotate' = Annotate
<1>1. \A page, y : Flipped(page, y)' = Flipped(page, y)
  BY DEF Flipped
<1>2. QED BY <1>1 DEF Annotate, Positions

(***************************************************************************)
(* A request starts with nothing parsed.                                   *)
(***************************************************************************)
LEMMA InvInit ==
  ASSUME SpansAssumption, SpansInit
  PROVE  SpansInv
<1>1. <<>> \in Seq(Reportable) /\ Len(<<>>) = 0 /\ 0 <= MaxExtractions
  BY DEF SpansAssumption
<1>2. QED BY <1>1 DEF SpansInit, SpansInv

(***************************************************************************)
(* A step that changes nothing keeps the invariant.                        *)
(***************************************************************************)
LEMMA InvStutter ==
  ASSUME SpansInv, UNCHANGED spanVars
  PROVE  SpansInv'
<1>1. UNCHANGED <<document, mode, blocks, index, reported, raws, fields, highlights, answer, stage>>
  BY DEF spanVars
<1>2. /\ Parsed => Parsed'
      /\ HasRows => HasRows'
      /\ HasFields => HasFields'
  BY <1>1, ParsedStable, RowsStable, FieldsStable
<1>3. Annotate' = Annotate
  BY <1>1, AnnotateStable
<1>4. (Assembled => Assembled') /\ (FailedEarly => FailedEarly')
  BY <1>1, <1>3 DEF Assembled, FailedEarly
<1>5. QED BY <1>1, <1>2, <1>4 DEF SpansInv

(***************************************************************************)
(* Parsing ends the request, or leaves blocks and an index of the          *)
(* document's items.                                                       *)
(***************************************************************************)
LEMMA InvParse ==
  ASSUME SpansInv, Parse
  PROVE  SpansInv'
<1>1. UNCHANGED <<document, mode, reported, raws, fields, highlights>>
  BY DEF Parse
<1>2. fields = <<>> /\ highlights = <<>>
  BY DEF Parse, SpansInv
<1>3. \/ stage' = "done" /\ FailedEarly'
      \/ stage' = "extract" /\ Parsed'
  <2>1. CASE document.pdf \in DOMAIN PreflightErrors /\ Fail(PreflightErrors[document.pdf])
    <3>1. answer' \in {"PDF_INVALID", "PDF_PASSWORD_PROTECTED"} /\ stage' = "done"
      BY <2>1 DEF Fail, PreflightErrors
    <3>2. QED BY <1>1, <1>2, <3>1 DEF FailedEarly
  <2>2. CASE Fail("PDF_TOO_MANY_PAGES")
    BY <1>1, <1>2, <2>2 DEF Fail, FailedEarly
  <2>3. CASE document.pdf \in DOMAIN DoclingErrors /\ Fail(DoclingErrors[document.pdf])
    <3>1. answer' = "PDF_PARSER_UNAVAILABLE" /\ stage' = "done"
      BY <2>3 DEF Fail, DoclingErrors
    <3>2. QED BY <1>1, <1>2, <3>1 DEF FailedEarly
  <2>4. CASE Fail("PDF_NO_TEXT_EXTRACTABLE") \/ Fail("INVALID_BOX")
    BY <1>1, <1>2, <2>4 DEF Fail, FailedEarly
  <2>5. CASE /\ TextItems(document.items) # <<>>
             /\ blocks' = ToParsedDocument(TextItems(document.items)) /\ index' = Concatenate(blocks')
             /\ stage' = "extract"
    <3>1. \A i : BoxOf(i)' = BoxOf(i)
      BY <1>1 DEF BoxOf, Flipped
    <3>2. \A items : ToParsedDocument(items)' = ToParsedDocument(items)
      BY <3>1 DEF ToParsedDocument
    <3>3. QED BY <1>1, <2>5, <3>2 DEF Parsed
  <2>6. QED BY <2>1, <2>2, <2>3, <2>4, <2>5 DEF Parse
<1>4. QED BY <1>1, <1>2, <1>3 DEF SpansInv

(***************************************************************************)
(* What is reported is of the form that the engine reads.                  *)
(***************************************************************************)
LEMMA InvReport ==
  ASSUME SpansAssumption, SpansInv, Report
  PROVE  SpansInv'
<1>1. UNCHANGED <<document, mode, blocks, index, raws, fields, highlights, answer, stage>> /\ stage = "extract"
  BY DEF Report
<1>2. Parsed' /\ fields = <<>> /\ highlights = <<>>
  BY <1>1, ParsedStable DEF SpansInv
<1>3. PICK x \in Extractions(document, Len(reported)) : reported' = Append(reported, x)
  BY DEF Report
<1>4. Len(reported) \in 0..MaxExtractions /\ Len(reported) + 1 <= MaxExtractions
  BY DEF Report, SpansInv, SpansAssumption
<1>5. x \in Reportable
  BY <1>4 DEF SpansInv, SpansAssumption
<1>6. reported' \in Seq(Reportable) /\ Len(reported') <= MaxExtractions
  BY <1>3, <1>4, <1>5 DEF SpansInv
<1>7. QED BY <1>1, <1>2, <1>6 DEF SpansInv

(***************************************************************************)
(* Every row is one that RawExtraction accepts, so that the engine does    *)
(* not raise ValueError.                                                   *)
(***************************************************************************)
LEMMA InvToRawExtractions ==
  ASSUME SpansInv, ToRawExtractions
  PROVE  SpansInv'
<1> DEFINE rows == [k \in DOMAIN Declared |-> RawOf(Declared[k], reported)]
<1>1. UNCHANGED <<document, mode, blocks, index, reported, fields, highlights>> /\ stage = "extract"
  BY DEF ToRawExtractions
<1>2. Parsed' /\ fields = <<>> /\ highlights = <<>>
  BY <1>1, ParsedStable DEF SpansInv
<1>3. \A k \in DOMAIN rows : Constructible(rows[k])
  <2> SUFFICES ASSUME NEW k \in DOMAIN Declared PROVE Constructible(RawOf(Declared[k], reported))
    OBVIOUS
  <2>1. reported \in Seq(Reportable)
    BY DEF SpansInv
  <2>2. QED BY <2>1, RowFacts
<1>4. raws' = rows /\ stage' = "resolve"
  BY <1>3, Zenon DEF ToRawExtractions
<1>5. HasRows'
  BY <1>1, <1>4 DEF HasRows
<1>6. QED BY <1>1, <1>2, <1>4, <1>5 DEF SpansInv

(***************************************************************************)
(* A name that is declared twice has the same row twice: the first one of  *)
(* a name is the row of any declaration of it.                             *)
(***************************************************************************)
LEMMA InvResolve ==
  ASSUME SpansAssumption, SpansInv, Resolve
  PROVE  SpansInv'
<1>1. UNCHANGED <<document, mode, blocks, index, reported, raws, highlights, answer>>
  BY DEF Resolve
<1>2. stage = "resolve" /\ stage' = "assemble"
  BY DEF Resolve
<1>3. Parsed' /\ HasRows' /\ HasRows /\ highlights = <<>>
  BY <1>1, <1>2, ParsedStable, RowsStable DEF SpansInv
<1> DEFINE rows(k) == {j \in DOMAIN raws : raws[j].name = Declared[k]}
           row(k) == IF rows(k) = {} THEN RawOf(Declared[k], <<>>) ELSE raws[Min(rows(k))]
<1>4. fields' = [k \in DOMAIN Declared |-> ResolveOne(row(k))]
  BY DEF Resolve
<1>5. ASSUME NEW k \in DOMAIN Declared
      PROVE  row(k) = raws[k]
  <2>1. /\ Declared \in Seq(STRING) /\ DOMAIN raws = DOMAIN Declared
        /\ \A j \in DOMAIN Declared : raws[j] = RawOf(Declared[j], reported)
    BY <1>3 DEF HasRows, SpansAssumption
  <2>2. \A j \in DOMAIN Declared : raws[j].name = Declared[j]
    <3>1. \A j \in DOMAIN Declared : RawOf(Declared[j], reported).name = Declared[j]
      BY RowFacts DEF SpansInv
    <3>2. QED BY <2>1, <3>1
  <2>3. k \in rows(k) /\ rows(k) \subseteq Nat
    BY <2>1, <2>2
  <2>4. Min(rows(k)) \in rows(k)
    <3> HIDE DEF rows
    <3> QED BY <2>3, MinOf
  <2>5. Declared[Min(rows(k))] = Declared[k] /\ Min(rows(k)) \in DOMAIN Declared
    BY <2>1, <2>2, <2>4
  <2>6. raws[Min(rows(k))] = raws[k]
    BY <2>1, <2>5, Zenon
  <2>7. rows(k) # {}
    BY <2>3
  <2>8. QED BY <2>6, <2>7, Zenon
<1>6. \A raw : ResolveOne(raw)' = ResolveOne(raw)
  BY <1>1, ResolveStable
<1>7. fields' = [k \in DOMAIN Declared |-> ResolveOne(raws[k])]
  <2> HIDE DEF row
  <2> QED BY <1>4, <1>5
<1>8. HasFields'
  BY <1>1, <1>6, <1>7 DEF HasFields
<1>9. QED BY <1>1, <1>2, <1>3, <1>8 DEF SpansInv

(***************************************************************************)
(* The answer is a response if a field has a value, and its highlights are *)
(* the boxes drawn.                                                        *)
(***************************************************************************)
LEMMA InvAssemble ==
  ASSUME SpansInv, Assemble
  PROVE  SpansInv'
<1>1. /\ UNCHANGED <<document, mode, blocks, index, reported, raws, fields>>
      /\ stage = "assemble" /\ stage' = "done"
  BY DEF Assemble
<1>2. Parsed' /\ HasRows' /\ HasFields' /\ highlights = <<>>
  BY <1>1, ParsedStable, RowsStable, FieldsStable DEF SpansInv
<1>3. Annotate' = Annotate
  BY <1>1, AnnotateStable
<1>4. Assembled'
  BY <1>1, <1>2, <1>3 DEF Assemble, Assembled
<1>5. QED BY <1>1, <1>2, <1>4 DEF SpansInv

(***************************************************************************)
(* The request keeps to the document: what has been parsed, reported and   *)
(* resolved so far is what the code makes of it.                           *)
(***************************************************************************)
THEOREM SpansInductive == SpansSpec => []SpansInv
<1>1. SpansInit => SpansInv
  BY SpansAssumption, InvInit
<1>2. SpansInv /\ [SpansNext]_spanVars => SpansInv'
  <2> SUFFICES ASSUME SpansInv, [SpansNext]_spanVars PROVE SpansInv'
    OBVIOUS
  <2>1. CASE Parse
    BY <2>1, InvParse
  <2>2. CASE Report
    BY <2>2, SpansAssumption, InvReport
  <2>3. CASE ToRawExtractions
    BY <2>3, InvToRawExtractions
  <2>4. CASE Resolve
    BY <2>4, SpansAssumption, InvResolve
  <2>5. CASE Assemble
    BY <2>5, InvAssemble
  <2>6. CASE UNCHANGED spanVars
    BY <2>6, InvStutter
  <2>7. QED BY <2>1, <2>2, <2>3, <2>4, <2>5, <2>6 DEF SpansNext
<1>3. QED BY <1>1, <1>2, PTL DEF SpansSpec

(***************************************************************************)
(* A field claims the document as its source with exactly the boxes of the *)
(* items its span has characters of, in their order and each once, for     *)
(* every document, every skill and whatever LangExtract reports.           *)
(***************************************************************************)
THEOREM SpansGrounded == SpansSpec => []GroundedOnTouchedItems
<1>1. SpansInv => GroundedOnTouchedItems
  BY SpansAssumption, InvGrounded
<1>2. QED BY <1>1, SpansInductive, PTL

(***************************************************************************)
(* A response has the declared names with the values reported first, and   *)
(* highlights the grounded text where it stands; no row breaks a request.  *)
(***************************************************************************)
THEOREM SpansAnswer == SpansSpec => []AnswerFollowsSkill
<1>1. SpansInv => AnswerFollowsSkill
  BY SpansAssumption, InvFollows
<1>2. QED BY <1>1, SpansInductive, PTL

-----------------------------------------------------------------------------
(* The matcher                                                             *)

\* The positions do not go back.
Sorted(s) == \A i, j \in DOMAIN s : i < j => s[i] <= s[j]

\* The characters that the normal forms put in the place of others.
Replacements == {" ", "f", "i", "e-acute"}

\* The characters of a normal form of a text of some length, and for each of
\* them a position in the text.
NormalForm(normal, Chars, length) ==
  /\ normal.chars \in Seq(Chars) /\ normal.origin \in Seq(Nat)
  /\ Len(normal.chars) = Len(normal.origin)
  /\ \A i \in DOMAIN normal.origin : normal.origin[i] < length
  /\ Sorted(normal.origin)

(***************************************************************************)
(* Collapsed whitespace keeps the order of the characters, each at a       *)
(* position of the text.                                                   *)
(***************************************************************************)
LEMMA CollapsedForm ==
  ASSUME NEW Chars, Replacements \subseteq Chars, NEW text \in Seq(Chars)
  PROVE  NormalForm(Collapsed(text), Chars, Len(text))
<1> DEFINE n == Len(text)
           S == {k \in DOMAIN text : k = 1 \/ ~IsSpace(text[k]) \/ ~IsSpace(text[k - 1])}
           kept == InOrder(S, n)
           chars == [j \in DOMAIN kept |-> IF IsSpace(text[kept[j]]) THEN " " ELSE text[kept[j]]]
           origin == [j \in DOMAIN kept |-> kept[j] - 1]
<1>1. Collapsed(text) = [chars |-> chars, origin |-> origin]
  BY Zenon DEF Collapsed, Positions
<1>2. n \in Nat /\ \A k \in 1..n : text[k] \in Chars
  OBVIOUS
<1> HIDE DEF S, n
<1> DEFINE V == S \cap (1..n)
<1>3. kept \in Seq(V) /\ \A i, j \in DOMAIN kept : i < j => kept[i] < kept[j]
  BY <1>2, InOrderFacts
<1>4. V \subseteq 1..n
  OBVIOUS
<1> HIDE DEF kept, V
<1>5. Len(kept) \in Nat /\ DOMAIN kept = 1..Len(kept) /\ \A j \in 1..Len(kept) : kept[j] \in 1..n
  <2>1. Len(kept) \in Nat /\ DOMAIN kept = 1..Len(kept) /\ \A j \in 1..Len(kept) : kept[j] \in V
    BY <1>3
  <2>2. QED BY <1>4, <2>1
<1>6. chars \in Seq(Chars) /\ Len(chars) = Len(kept)
  <2>1. \A j \in 1..Len(kept) : (IF IsSpace(text[kept[j]]) THEN " " ELSE text[kept[j]]) \in Chars
    BY <1>2, <1>5 DEF Replacements
  <2>2. chars \in [1..Len(kept) -> Chars]
    BY <1>5, <2>1
  <2> HIDE DEF chars
  <2>3. QED BY <1>5, <2>2
<1>7. /\ origin \in Seq(Nat) /\ Len(origin) = Len(kept) /\ DOMAIN origin = 1..Len(kept)
      /\ \A j \in 1..Len(kept) : origin[j] = kept[j] - 1 /\ origin[j] < n
  BY <1>2, <1>5
<1> HIDE DEF chars, origin
<1>8. Sorted(origin)
  <2> SUFFICES ASSUME NEW i \in 1..Len(kept), NEW j \in 1..Len(kept), i < j PROVE origin[i] <= origin[j]
    BY <1>7 DEF Sorted
  <2>1. kept[i] < kept[j] /\ kept[i] \in 1..n /\ kept[j] \in 1..n
    BY <1>3, <1>5
  <2>2. QED BY <1>2, <1>7, <2>1
<1>9. QED BY <1>1, <1>6, <1>7, <1>8 DEF NormalForm, n

(***************************************************************************)
(* The normal form NFKC is a text.                                         *)
(***************************************************************************)
LEMMA NFKCText ==
  ASSUME NEW Chars, Replacements \subseteq Chars, NEW segment \in Seq(Chars)
  PROVE  NFKC(segment) \in Seq(Chars)
<1> DEFINE seqs == [k \in DOMAIN segment |-> Compatible(segment[k])]
           parts == FlattenSeq(seqs)
<1>1. ASSUME NEW c \in Chars
      PROVE  Compatible(c) \in Seq(Chars)
  <2>1. <<"f", "i">> \in Seq(Chars) /\ <<" ">> \in Seq(Chars) /\ <<c>> \in Seq(Chars)
    <3>1. "f" \in Chars /\ "i" \in Chars /\ " " \in Chars
      BY DEF Replacements
    <3>2. \A d, e \in Chars : <<d>> \in Seq(Chars) /\ <<d, e>> \in Seq(Chars)
      OBVIOUS
    <3>3. QED BY <3>1, <3>2, Zenon
  <2>2. CASE c = "fi"
    BY <2>1, <2>2 DEF Compatible
  <2>3. CASE c = "nbsp"
    BY <2>1, <2>3 DEF Compatible
  <2>4. CASE c # "fi" /\ c # "nbsp"
    BY <2>1, <2>4 DEF Compatible
  <2>5. QED BY <2>2, <2>3, <2>4
<1>2. seqs \in Seq(Seq(Chars))
  <2> DEFINE W == Seq(Chars)
  <2>1. \A k \in 1..Len(segment) : Compatible(segment[k]) \in W
    BY <1>1
  <2>2. Len(segment) \in Nat /\ DOMAIN segment = 1..Len(segment)
    OBVIOUS
  <2> HIDE DEF W
  <2>3. seqs \in Seq(W)
    BY <2>1, <2>2
  <2>4. QED BY <2>3 DEF W
<1> HIDE DEF seqs
<1>3. parts \in Seq(Chars)
  BY <1>2, FlattenMembers
<1>4. NFKC(segment) = IF Len(parts) > 1 /\ parts[1] = "e" /\ parts[2] = "acute"
                      THEN <<"e-acute">> \o SubSeq(parts, 3, Len(parts)) ELSE parts
  BY Zenon DEF NFKC, seqs
<1> HIDE DEF parts
<1>5. SubSeq(parts, 3, Len(parts)) \in Seq(Chars) /\ <<"e-acute">> \in Seq(Chars)
  <2>1. <<"e-acute">> \in Seq(Chars)
    <3>1. "e-acute" \in Chars
      BY DEF Replacements
    <3>2. \A d \in Chars : <<d>> \in Seq(Chars)
      OBVIOUS
    <3>3. QED BY <3>1, <3>2, Zenon
  <2>2. Len(parts) \in Nat /\ \A k \in 1..Len(parts) : parts[k] \in Chars
    BY <1>3
  <2>3. \A k \in 3..Len(parts) : parts[k] \in Chars
    BY <2>2
  <2>4. SubSeq(parts, 3, Len(parts)) \in Seq(Chars)
    BY <1>3, <2>2, <2>3
  <2>5. QED BY <2>1, <2>4
<1>6. <<"e-acute">> \o SubSeq(parts, 3, Len(parts)) \in Seq(Chars)
  BY <1>5
<1>7. QED BY <1>3, <1>4, <1>6

(***************************************************************************)
(* Sorted sequences of which none goes back behind the one before it join  *)
(* to a sorted one.                                                        *)
(***************************************************************************)
LEMMA FlattenSorted ==
  ASSUME NEW seqs \in Seq(Seq(Nat)),
         \A k \in 1..Len(seqs) : Sorted(seqs[k]),
         \A j, k \in 1..Len(seqs) : j < k =>
           \A x \in ToSet(seqs[j]), y \in ToSet(seqs[k]) : x <= y
  PROVE  Sorted(FlattenSeq(seqs))
<1>1. CASE Len(seqs) = 0
  <2>1. FlattenSeq(seqs) = <<>>
    BY <1>1 DEF FlattenSeq
  <2>2. QED BY <2>1 DEF Sorted
<1>2. CASE Len(seqs) # 0
  <2> DEFINE n == Len(seqs)
  <2>1. PICK f : /\ FlattenSeq(seqs) = f[n]
                 /\ \A k \in 1..n : f[k] \in Seq(Nat)
                 /\ f[1] = seqs[1]
                 /\ \A k \in 2..n : f[k] = f[k - 1] \o seqs[k]
    BY <1>2, FlattenUnfolds
  <2> DEFINE P(s, m) == Sorted(s) /\ \A i \in DOMAIN s : \E j \in 1..m : s[i] \in ToSet(seqs[j])
             Good == {m \in 1..n : P(f[m], m)}
  <2>2. n \in Nat /\ 1 \in 1..n /\ n \in 1..n /\ \A k \in 1..n : seqs[k] \in Seq(Nat)
    BY <1>2
  <2>3. 1 \in Good
    <3>1. P(seqs[1], 1)
      BY <2>2 DEF ToSet
    <3> HIDE DEF P
    <3>2. QED BY <2>1, <2>2, <3>1
  <2>4. ASSUME NEW m \in 1..(n - 1), m \in Good
        PROVE  m + 1 \in Good
    <3> DEFINE v == f[m]
               w == seqs[m + 1]
               u == f[m + 1]
    <3>1. m + 1 \in 2..n /\ (m + 1) - 1 = m /\ m + 1 \in 1..n /\ m \in 1..n
      BY <2>2
    <3>2. u = v \o w /\ v \in Seq(Nat) /\ w \in Seq(Nat) /\ P(v, m) /\ Sorted(w)
      <4>1. P(v, m)
        BY <2>4, Zenon
      <4> HIDE DEF P
      <4>2. QED BY <2>1, <2>2, <3>1, <4>1
    <3>3. \A x \in ToSet(w), j \in 1..m : \A y \in ToSet(seqs[j]) : y <= x
      <4>1. \A j \in 1..m : j \in 1..n /\ j < m + 1
        BY <3>1
      <4>2. QED BY <3>1, <4>1
    <3> HIDE DEF u, v, w
    <3>4. /\ DOMAIN u = 1..(Len(v) + Len(w)) /\ Len(v) \in Nat /\ Len(w) \in Nat
          /\ DOMAIN v = 1..Len(v) /\ DOMAIN w = 1..Len(w)
          /\ \A i \in 1..(Len(v) + Len(w)) : u[i] = IF i <= Len(v) THEN v[i] ELSE w[i - Len(v)]
      BY <3>2
    <3>5. \A i \in DOMAIN u : i <= Len(v) => i \in DOMAIN v /\ u[i] = v[i]
      BY <3>4
    <3>6. \A i \in DOMAIN u : ~(i <= Len(v)) => i - Len(v) \in DOMAIN w /\ u[i] = w[i - Len(v)]
      BY <3>4
    <3>7. ASSUME NEW i \in DOMAIN u, NEW j \in DOMAIN u, i < j
          PROVE  u[i] <= u[j]
      <4>0. i \in Int /\ j \in Int
        BY <3>4
      <4>1. CASE j <= Len(v)
        <5>1. i <= Len(v)
          BY <3>4, <3>7, <4>0, <4>1
        <5>2. QED BY <3>2, <3>5, <3>7, <4>1, <5>1 DEF Sorted
      <4>2. CASE ~(i <= Len(v))
        <5>1. ~(j <= Len(v)) /\ i - Len(v) < j - Len(v)
          BY <3>4, <3>7, <4>0, <4>2
        <5>2. QED BY <3>2, <3>6, <4>2, <5>1 DEF Sorted
      <4>3. CASE i <= Len(v) /\ ~(j <= Len(v))
        <5>1. u[i] = v[i] /\ i \in DOMAIN v /\ u[j] = w[j - Len(v)] /\ j - Len(v) \in DOMAIN w
          BY <3>5, <3>6, <4>3
        <5>2. u[j] \in ToSet(w)
          BY <5>1 DEF ToSet
        <5>3. PICK q \in 1..m : u[i] \in ToSet(seqs[q])
          BY <3>2, <5>1
        <5>4. QED BY <3>3, <5>2, <5>3
      <4>4. QED BY <4>1, <4>2, <4>3
    <3>8. ASSUME NEW i \in DOMAIN u
          PROVE  \E j \in 1..(m + 1) : u[i] \in ToSet(seqs[j])
      <4>1. CASE i <= Len(v)
        <5>1. PICK j \in 1..m : u[i] \in ToSet(seqs[j])
          BY <3>2, <3>5, <4>1
        <5>2. j \in 1..(m + 1)
          OBVIOUS
        <5>3. QED BY <5>1, <5>2
      <4>2. CASE ~(i <= Len(v))
        <5>1. u[i] \in ToSet(w)
          BY <3>6, <4>2 DEF ToSet
        <5>2. m + 1 \in 1..(m + 1)
          OBVIOUS
        <5>3. QED BY <5>1, <5>2 DEF w
      <4>3. QED BY <4>1, <4>2
    <3>9. P(u, m + 1)
      BY <3>7, <3>8 DEF Sorted
    <3> HIDE DEF P
    <3>10. QED BY <3>1, <3>9 DEF u
  <2>5. 1 \in Nat /\ n \in Int /\ \A m \in 1..(n - 1) : m \in Good => m + 1 \in Good
    BY <2>2, <2>4
  <2>6. n \in Good
    <3> HIDE DEF Good, n
    <3> QED BY <2>2, <2>3, <2>5, AlongInterval
  <2>7. P(f[n], n)
    BY <2>6, Zenon
  <2>8. QED BY <2>1, <2>7, Zenon
<1>3. QED BY <1>1, <1>2

(***************************************************************************)
(* Sequences of the same lengths join to sequences of the same length.     *)
(***************************************************************************)
LEMMA FlattenLengths ==
  ASSUME NEW T, NEW seqs \in Seq(Seq(T)), NEW V, NEW others \in Seq(Seq(V)),
         Len(seqs) = Len(others), \A k \in 1..Len(seqs) : Len(seqs[k]) = Len(others[k])
  PROVE  Len(FlattenSeq(seqs)) = Len(FlattenSeq(others))
<1>1. CASE Len(seqs) = 0
  <2>1. FlattenSeq(seqs) = seqs /\ FlattenSeq(others) = others
    BY <1>1 DEF FlattenSeq
  <2>2. QED BY <2>1
<1>2. CASE Len(seqs) # 0
  <2> DEFINE n == Len(seqs)
  <2>1. PICK f : Unfolding(f, seqs, T)
    BY <1>2, FlattenUnfolding
  <2>2. PICK g : Unfolding(g, others, V)
    <3>1. Len(others) # 0
      BY <1>2
    <3>2. QED BY <3>1, FlattenUnfolding
  <2>3. /\ n \in Nat /\ 1 \in 1..n /\ n \in 1..n
        /\ \A k \in 1..n : seqs[k] \in Seq(T) /\ others[k] \in Seq(V)
    BY <1>2
  <2> DEFINE Good == {m \in 1..n : Len(f[m]) = Len(g[m])}
  <2>4. 1 \in Good
    BY <2>1, <2>2, <2>3 DEF Unfolding
  <2>5. ASSUME NEW m \in 1..(n - 1), m \in Good
        PROVE  m + 1 \in Good
    <3>1. m + 1 \in 2..n /\ (m + 1) - 1 = m /\ m + 1 \in 1..n /\ m \in 1..n
      BY <2>3
    <3>2. /\ f[m + 1] = f[m] \o seqs[m + 1] /\ f[m] \in Seq(T) /\ seqs[m + 1] \in Seq(T)
          /\ g[m + 1] = g[m] \o others[m + 1] /\ g[m] \in Seq(V) /\ others[m + 1] \in Seq(V)
      BY <2>1, <2>2, <2>3, <3>1 DEF Unfolding
    <3>3. Len(f[m + 1]) = Len(f[m]) + Len(seqs[m + 1]) /\ Len(g[m + 1]) = Len(g[m]) + Len(others[m + 1])
      BY <3>2
    <3>4. QED BY <2>5, <3>1, <3>3
  <2>6. 1 \in Nat /\ n \in Int /\ \A m \in 1..(n - 1) : m \in Good => m + 1 \in Good
    BY <2>3, <2>5
  <2>7. n \in Good
    <3> HIDE DEF Good, n
    <3> QED BY <2>3, <2>4, <2>6, AlongInterval
  <2>8. QED BY <2>1, <2>2, <2>7 DEF Unfolding
<1>3. QED BY <1>1, <1>2

(***************************************************************************)
(* The segments of a text, each a character and its marks, follow one      *)
(* another: the positions of their normal forms do not go back, and stay   *)
(* within the text.                                                        *)
(***************************************************************************)
LEMMA NfkcForm ==
  ASSUME NEW Chars, Replacements \subseteq Chars, NEW text \in Seq(Chars)
  PROVE  NormalForm(NfkcOf(text), Chars, Len(text))
<1> DEFINE n == Len(text)
           S == {k \in DOMAIN text : k = 1 \/ ~IsMark(text[k])}
           first == InOrder(S, n)
           last(j) == IF j = Len(first) THEN n ELSE first[j + 1] - 1
           normal(j) == NFKC(SubSeq(text, first[j], last(j)))
           inside(j, m) == IF m <= last(j) - first[j] THEN m ELSE last(j) - first[j]
           normals == [j \in DOMAIN first |-> normal(j)]
           origins == [j \in DOMAIN first |-> [m \in DOMAIN normal(j) |-> first[j] - 1 + inside(j, m - 1)]]
<1>1. NfkcOf(text) = [chars |-> FlattenSeq(normals), origin |-> FlattenSeq(origins)]
  BY Zenon DEF NfkcOf, Positions
<1>2. n \in Nat /\ \A k \in 1..n : text[k] \in Chars
  OBVIOUS
<1> HIDE DEF S, n
<1> DEFINE V == S \cap (1..n)
<1>3. first \in Seq(V) /\ \A i, j \in DOMAIN first : i < j => first[i] < first[j]
  BY <1>2, InOrderFacts
<1>4. V \subseteq 1..n
  OBVIOUS
<1> HIDE DEF first, V
<1>5. /\ Len(first) \in Nat /\ DOMAIN first = 1..Len(first)
      /\ \A j \in 1..Len(first) : first[j] \in 1..n
  <2>1. Len(first) \in Nat /\ DOMAIN first = 1..Len(first) /\ \A j \in 1..Len(first) : first[j] \in V
    BY <1>3
  <2>2. QED BY <1>4, <2>1
<1>6. ASSUME NEW j \in 1..Len(first)
      PROVE  /\ last(j) \in first[j]..n
             /\ \A k \in 1..Len(first) : j < k => last(j) < first[k]
  <2>1. CASE j = Len(first)
    BY <1>2, <1>5, <2>1
  <2>2. CASE j # Len(first)
    <3>0. Len(first) \in Nat
      BY <1>5
    <3>1. j + 1 \in 1..Len(first)
      BY <2>2, <3>0
    <3>2. first[j] < first[j + 1] /\ first[j] \in 1..n /\ first[j + 1] \in 1..n
      BY <1>3, <1>5, <3>1
    <3>3. last(j) \in first[j]..n
      BY <1>2, <2>2, <3>2
    <3>4. ASSUME NEW k \in 1..Len(first), j < k PROVE last(j) < first[k]
      <4>1. j + 1 = k \/ j + 1 < k
        BY <1>5, <3>4
      <4>2. first[j + 1] <= first[k]
        <5>1. first[k] \in 1..n
          BY <1>5
        <5>2. CASE j + 1 = k
          BY <5>1, <5>2
        <5>3. CASE j + 1 < k
          <6>1. first[j + 1] < first[k]
            BY <1>3, <1>5, <3>1, <5>3
          <6>2. QED BY <1>2, <3>2, <5>1, <6>1
        <5>4. QED BY <4>1, <5>2, <5>3
      <4>3. first[k] \in 1..n
        BY <1>5
      <4>4. QED BY <1>2, <2>2, <3>2, <4>2, <4>3
    <3>5. QED BY <3>3, <3>4
  <2>3. QED BY <2>1, <2>2
<1> HIDE DEF last
<1>7. ASSUME NEW j \in 1..Len(first)
      PROVE  normal(j) \in Seq(Chars)
  <2>1. SubSeq(text, first[j], last(j)) \in Seq(Chars)
    <3>1. first[j] \in 1..n /\ last(j) \in first[j]..n
      BY <1>5, <1>6
    <3>2. \A k \in first[j]..last(j) : text[k] \in Chars
      BY <1>2, <3>1
    <3>3. QED BY <1>2, <3>1, <3>2
  <2>2. QED BY <2>1, NFKCText
<1> HIDE DEF normal
<1>8. ASSUME NEW j \in 1..Len(first), NEW m \in Nat
      PROVE  first[j] - 1 + inside(j, m) \in Nat /\ first[j] - 1 + inside(j, m) \in (first[j] - 1)..(last(j) - 1)
  <2>1. first[j] \in 1..n /\ last(j) \in first[j]..n
    BY <1>5, <1>6
  <2>2. QED BY <1>2, <2>1
<1>9. ASSUME NEW j \in 1..Len(first)
      PROVE  /\ origins[j] \in Seq(Nat) /\ Len(origins[j]) = Len(normal(j))
             /\ \A m \in 1..Len(normal(j)) : origins[j][m] = first[j] - 1 + inside(j, m - 1)
  <2>1. Len(normal(j)) \in Nat /\ DOMAIN normal(j) = 1..Len(normal(j))
    BY <1>7
  <2>2. \A m \in 1..Len(normal(j)) : first[j] - 1 + inside(j, m - 1) \in Nat
    <3>1. \A m \in 1..Len(normal(j)) : m - 1 \in Nat
      BY <2>1
    <3> HIDE DEF inside
    <3>2. QED BY <1>8, <3>1
  <2> HIDE DEF inside
  <2>3. origins[j] = [m \in 1..Len(normal(j)) |-> first[j] - 1 + inside(j, m - 1)]
    BY <1>5, <2>1
  <2> HIDE DEF origins
  <2>4. QED BY <2>1, <2>2, <2>3
<1>10. ASSUME NEW j \in 1..Len(first), NEW x \in ToSet(origins[j])
       PROVE  x \in (first[j] - 1)..(last(j) - 1)
  <2> HIDE DEF origins, inside
  <2>1. PICK m \in 1..Len(normal(j)) : x = origins[j][m]
    BY <1>7, <1>9 DEF ToSet
  <2>2. m - 1 \in Nat
    BY <1>7
  <2>3. QED BY <1>8, <1>9, <2>1, <2>2
<1>11. ASSUME NEW j \in 1..Len(first)
       PROVE  Sorted(origins[j])
  <2> SUFFICES ASSUME NEW p \in 1..Len(normal(j)), NEW q \in 1..Len(normal(j)), p < q
               PROVE  origins[j][p] <= origins[j][q]
    <3> HIDE DEF origins, inside
    <3>1. DOMAIN origins[j] = 1..Len(normal(j))
      BY <1>9
    <3>2. QED BY <3>1 DEF Sorted
  <2>1. origins[j][p] = first[j] - 1 + inside(j, p - 1) /\ origins[j][q] = first[j] - 1 + inside(j, q - 1)
    <3> HIDE DEF origins, inside
    <3> QED BY <1>9
  <2> HIDE DEF origins
  <2>2. first[j] \in 1..n /\ last(j) \in first[j]..n /\ Len(normal(j)) \in Nat
    BY <1>5, <1>6, <1>7
  <2>3. inside(j, p - 1) <= inside(j, q - 1) /\ inside(j, p - 1) \in Int /\ inside(j, q - 1) \in Int
    BY <1>2, <2>2
  <2> HIDE DEF inside
  <2>4. QED BY <1>2, <2>1, <2>2, <2>3
<1>12. /\ Len(normals) = Len(first) /\ Len(origins) = Len(first)
       /\ \A j \in 1..Len(first) : normals[j] = normal(j)
  BY <1>5
<1>13. normals \in Seq(Seq(Chars))
  <2> DEFINE W == Seq(Chars)
  <2>1. \A j \in 1..Len(first) : normal(j) \in W
    BY <1>7
  <2> HIDE DEF W
  <2>2. normals \in Seq(W)
    BY <1>5, <2>1
  <2>3. QED BY <2>2 DEF W
<1> HIDE DEF normals
<1>14. origins \in Seq(Seq(Nat))
  <2> DEFINE W == Seq(Nat)
             origin(j) == [m \in DOMAIN normal(j) |-> first[j] - 1 + inside(j, m - 1)]
  <2>1. \A j \in 1..Len(first) : origins[j] \in W
    BY <1>9
  <2>2. origins = [j \in 1..Len(first) |-> origin(j)]
    BY <1>5
  <2> HIDE DEF W, origin, origins
  <2>3. origins \in Seq(W)
    <3>1. \A j \in 1..Len(first) : origin(j) \in W
      BY <2>1, <2>2
    <3>2. QED BY <1>5, <2>2, <3>1
  <2>4. QED BY <2>3 DEF W
<1> HIDE DEF origins, inside
<1> DEFINE chars == FlattenSeq(normals)
           origin == FlattenSeq(origins)
<1>15. chars \in Seq(Chars) /\ origin \in Seq(Nat)
  BY <1>13, <1>14, FlattenMembers
<1>16. Len(chars) = Len(origin)
  <2>1. \A k \in 1..Len(normals) : Len(normals[k]) = Len(origins[k])
    BY <1>9, <1>12
  <2>2. QED BY <1>12, <1>13, <1>14, <2>1, FlattenLengths
<1>17. Sorted(origin)
  <2>1. \A k \in 1..Len(origins) : Sorted(origins[k])
    BY <1>11, <1>12
  <2>2. ASSUME NEW j \in 1..Len(origins), NEW k \in 1..Len(origins), j < k,
               NEW x \in ToSet(origins[j]), NEW y \in ToSet(origins[k])
        PROVE  x <= y
    <3>1. x \in (first[j] - 1)..(last(j) - 1) /\ y \in (first[k] - 1)..(last(k) - 1)
      BY <1>10, <1>12
    <3>2. last(j) < first[k] /\ last(j) \in first[j]..n /\ last(k) \in first[k]..n /\ first[j] \in 1..n /\ first[k] \in 1..n
      BY <1>5, <1>6, <1>12, <2>2
    <3>3. QED BY <1>2, <3>1, <3>2
  <2>3. QED BY <1>14, <2>1, <2>2, FlattenSorted
<1>18. \A i \in DOMAIN origin : origin[i] < n
  <2> SUFFICES ASSUME NEW i \in DOMAIN origin PROVE origin[i] < n
    OBVIOUS
  <2>1. origin[i] \in ToSet(origin)
    BY DEF ToSet
  <2>2. ToSet(origin) = UNION {ToSet(origins[k]) : k \in 1..Len(origins)}
    BY <1>14, FlattenMembers
  <2>3. PICK k \in 1..Len(first) : origin[i] \in ToSet(origins[k])
    <3> HIDE DEF origin
    <3> QED BY <1>12, <2>1, <2>2
  <2>4. origin[i] \in (first[k] - 1)..(last(k) - 1) /\ last(k) \in first[k]..n /\ first[k] \in 1..n
    BY <1>5, <1>6, <1>10, <2>3
  <2>5. QED BY <1>2, <2>4
<1> HIDE DEF chars, origin
<1>19. QED BY <1>1, <1>15, <1>16, <1>17, <1>18 DEF NormalForm, n, chars, origin

(***************************************************************************)
(* The two maps of positions, composed.                                    *)
(***************************************************************************)
LEMMA NfkcCollapsedForm ==
  ASSUME NEW Chars, Replacements \subseteq Chars, NEW text \in Seq(Chars)
  PROVE  NormalForm(NfkcCollapsed(text), Chars, Len(text))
<1> DEFINE nfkc == NfkcOf(text)
           collapsed == Collapsed(nfkc.chars)
           origin == [j \in DOMAIN collapsed.origin |-> nfkc.origin[collapsed.origin[j] + 1]]
<1>1. NfkcCollapsed(text) = [chars |-> collapsed.chars, origin |-> origin]
  BY Zenon DEF NfkcCollapsed
<1>2. NormalForm(nfkc, Chars, Len(text))
  BY NfkcForm
<1>3. NormalForm(collapsed, Chars, Len(nfkc.chars))
  <2>1. nfkc.chars \in Seq(Chars)
    BY <1>2 DEF NormalForm
  <2> HIDE DEF nfkc
  <2>2. QED BY <2>1, CollapsedForm
<1> HIDE DEF nfkc, collapsed
<1> DEFINE outer == nfkc.origin
           inner == collapsed.origin
<1>4. /\ outer \in Seq(Nat) /\ inner \in Seq(Nat) /\ Len(nfkc.chars) = Len(outer)
      /\ Sorted(outer) /\ Sorted(inner) /\ \A i \in DOMAIN outer : outer[i] < Len(text)
      /\ \A i \in DOMAIN inner : inner[i] < Len(outer)
  BY <1>2, <1>3 DEF NormalForm
<1>5. origin = [j \in DOMAIN inner |-> outer[inner[j] + 1]]
  OBVIOUS
<1> HIDE DEF origin, outer, inner
<1>6. /\ Len(outer) \in Nat /\ DOMAIN outer = 1..Len(outer) /\ \A i \in 1..Len(outer) : outer[i] \in Nat
      /\ Len(inner) \in Nat /\ DOMAIN inner = 1..Len(inner) /\ \A i \in 1..Len(inner) : inner[i] \in Nat
  BY <1>4
<1>7. \A j \in 1..Len(inner) : inner[j] + 1 \in 1..Len(outer)
  <2> SUFFICES ASSUME NEW j \in 1..Len(inner) PROVE inner[j] + 1 \in 1..Len(outer)
    OBVIOUS
  <2>1. inner[j] < Len(outer) /\ inner[j] \in Nat /\ Len(outer) \in Nat
    BY <1>4, <1>6
  <2>2. QED BY <2>1
<1>8. /\ origin \in Seq(Nat) /\ Len(origin) = Len(inner) /\ DOMAIN origin = 1..Len(inner)
      /\ \A j \in 1..Len(inner) : origin[j] = outer[inner[j] + 1]
  <2>1. \A j \in 1..Len(inner) : outer[inner[j] + 1] \in Nat
    BY <1>6, <1>7
  <2>2. QED BY <1>5, <1>6, <2>1
<1>9. \A j \in DOMAIN origin : origin[j] < Len(text)
  BY <1>4, <1>6, <1>7, <1>8
<1>10. Sorted(origin)
  <2> SUFFICES ASSUME NEW p \in 1..Len(inner), NEW q \in 1..Len(inner), p < q PROVE origin[p] <= origin[q]
    BY <1>8 DEF Sorted
  <2>1. inner[p] <= inner[q] /\ inner[p] \in Nat /\ inner[q] \in Nat
    BY <1>4, <1>6 DEF Sorted
  <2>2. inner[p] + 1 \in 1..Len(outer) /\ inner[q] + 1 \in 1..Len(outer)
    BY <1>7
  <2>3. CASE inner[p] = inner[q]
    <3>1. origin[p] = origin[q] /\ origin[p] \in Nat
      BY <1>6, <1>8, <2>2, <2>3
    <3>2. QED BY <3>1
  <2>4. CASE inner[p] # inner[q]
    <3>1. inner[p] + 1 < inner[q] + 1
      BY <2>1, <2>4
    <3>2. outer[inner[p] + 1] <= outer[inner[q] + 1]
      BY <1>4, <1>6, <2>2, <3>1 DEF Sorted
    <3>3. QED BY <1>8, <3>2
  <2>5. QED BY <2>3, <2>4
<1>11. collapsed.chars \in Seq(Chars) /\ Len(collapsed.chars) = Len(inner)
  BY <1>3 DEF NormalForm, inner
<1>12. QED BY <1>1, <1>8, <1>9, <1>10, <1>11 DEF NormalForm

\* A range of the positions of a text.
InText(match, length) == match \in (0..length) \X (0..length) /\ match[1] <= match[2]

(***************************************************************************)
(* The first of some positions is one of them.                             *)
(***************************************************************************)
LEMMA FirstOfFacts ==
  ASSUME NEW S, S \subseteq Nat, S # {}
  PROVE  FirstOf(S) \in S
<1>1. Min(S) = FirstOf(S)
  BY Zenon DEF Min, FirstOf
<1>2. QED BY <1>1, MinOf

(***************************************************************************)
(* What is found in a normal form is translated back to a range of the     *)
(* text.                                                                   *)
(***************************************************************************)
LEMMA TranslatedInText ==
  ASSUME NEW Chars, NEW length \in Nat, NEW normal, NormalForm(normal, Chars, length),
         NEW wanted \in Seq(Chars), wanted # <<>>, Occurrences(normal.chars, wanted) # {}
  PROVE  LET start == FirstOf(Occurrences(normal.chars, wanted))
         IN InText(TranslateRange(start, start + Len(wanted), normal.origin, length), length)
<1> DEFINE found == Occurrences(normal.chars, wanted)
           start == FirstOf(found)
           end == start + Len(wanted)
           origin == normal.origin
<1>1. /\ origin \in Seq(Nat) /\ Len(normal.chars) = Len(origin) /\ Sorted(origin)
      /\ \A i \in DOMAIN origin : origin[i] < length
  BY DEF NormalForm
<1>2. Len(wanted) \in Nat /\ Len(wanted) > 0 /\ Len(origin) \in Nat /\ DOMAIN origin = 1..Len(origin)
  BY <1>1
<1>3. found \subseteq 0..(Len(origin) - Len(wanted)) /\ found # {}
  BY <1>1 DEF Occurrences
<1> HIDE DEF found
<1>4. found \subseteq Nat
  BY <1>2, <1>3
<1>5. start \in found
  BY <1>3, <1>4, FirstOfFacts
<1>6. start \in 0..(Len(origin) - Len(wanted))
  BY <1>3, <1>5
<1> HIDE DEF start, origin
<1>7. start \in Nat /\ start + 1 \in 1..Len(origin) /\ end \in Nat /\ end > start
  BY <1>2, <1>6
<1>8. origin[start + 1] \in 0..length
  <2>1. origin[start + 1] \in Nat /\ origin[start + 1] < length
    BY <1>1, <1>2, <1>7
  <2>2. QED BY <2>1
<1>9. CASE end >= Len(origin)
  <2>1. TranslateRange(start, end, origin, length) = <<origin[start + 1], length>>
    BY <1>9, Zenon DEF TranslateRange
  <2> HIDE DEF end
  <2>2. QED BY <1>8, <2>1 DEF InText, start, end, origin, found
<1>10. CASE ~(end >= Len(origin))
  <2>1. TranslateRange(start, end, origin, length) = <<origin[start + 1], origin[end + 1]>>
    BY <1>10, Zenon DEF TranslateRange
  <2>2. end + 1 \in 1..Len(origin) /\ start + 1 < end + 1
    BY <1>2, <1>7, <1>10
  <2>3. origin[end + 1] \in Nat /\ origin[end + 1] < length /\ origin[start + 1] <= origin[end + 1]
    <3>1. origin[end + 1] \in Nat /\ origin[end + 1] < length
      BY <1>1, <1>2, <2>2
    <3>2. start + 1 \in DOMAIN origin /\ end + 1 \in DOMAIN origin
      BY <1>2, <1>7, <2>2
    <3> HIDE DEF end
    <3>3. origin[start + 1] <= origin[end + 1]
      BY <1>1, <2>2, <3>2 DEF Sorted
    <3>4. QED BY <3>1, <3>3
  <2> HIDE DEF end
  <2>4. QED BY <1>8, <2>1, <2>3 DEF InText, start, end, origin, found
<1>11. QED BY <1>9, <1>10

(***************************************************************************)
(* What the matcher finds is a range of the text it was given, whatever    *)
(* the text, the value and the normal form in which it found it: the       *)
(* constructor of CharRange, which refuses a range that ends before it     *)
(* starts, never does.                                                     *)
(***************************************************************************)
THEOREM LocateInText ==
  ASSUME NEW Chars, Replacements \subseteq Chars, NEW text \in Seq(Chars), NEW value \in Seq(Chars)
  PROVE  Locate(text, value) # NoMatch => InText(Locate(text, value), Len(text))
<1> DEFINE direct == Occurrences(text, value)
           collapsed == LocateNormalized(text, value, Collapsed)
           nfkc == LocateNormalized(text, value, NfkcCollapsed)
           first == FirstOf(direct)
<1>1. Len(text) \in Nat /\ Len(value) \in Nat
  OBVIOUS
<1>2. CASE value = <<>>
  <2>1. Locate(text, value) = <<0, 0>>
    BY <1>2 DEF Locate
  <2>2. QED BY <1>1, <2>1 DEF InText
<1>3. CASE value # <<>> /\ text = <<>>
  <2>1. Locate(text, value) = NoMatch
    BY <1>3 DEF Locate
  <2>2. QED BY <2>1
<1>4. CASE value # <<>> /\ text # <<>>
  <2>1. Locate(text, value) = IF direct # {} THEN <<first, first + Len(value)>>
                              ELSE IF collapsed # NoMatch THEN collapsed ELSE nfkc
    BY <1>4, Zenon DEF Locate
  <2>2. ASSUME direct # {}
        PROVE  InText(<<first, first + Len(value)>>, Len(text))
    <3>1. direct \subseteq 0..(Len(text) - Len(value))
      BY DEF Occurrences
    <3> HIDE DEF direct
    <3>2. first \in direct
      <4>1. direct \subseteq Nat
        BY <3>1
      <4>2. QED BY <2>2, <4>1, FirstOfFacts
    <3> HIDE DEF first
    <3>3. first \in 0..(Len(text) - Len(value))
      BY <3>1, <3>2
    <3>4. QED BY <1>1, <3>3 DEF InText
  <2>3. ASSUME collapsed # NoMatch
        PROVE  InText(collapsed, Len(text))
    <3> DEFINE wanted == Collapsed(value).chars
               found == Occurrences(Collapsed(text).chars, wanted)
    <3>1. collapsed = IF wanted = <<>> \/ found = {} THEN NoMatch
                      ELSE TranslateRange(FirstOf(found), FirstOf(found) + Len(wanted), Collapsed(text).origin, Len(text))
      BY Zenon DEF LocateNormalized
    <3>2. wanted # <<>> /\ found # {}
      BY <2>3, <3>1, Zenon
    <3>3. NormalForm(Collapsed(text), Chars, Len(text)) /\ wanted \in Seq(Chars)
      <4>1. NormalForm(Collapsed(text), Chars, Len(text)) /\ NormalForm(Collapsed(value), Chars, Len(value))
        BY CollapsedForm
      <4>2. QED BY <4>1, Zenon DEF NormalForm
    <3>4. InText(TranslateRange(FirstOf(found), FirstOf(found) + Len(wanted), Collapsed(text).origin, Len(text)), Len(text))
      <4> DEFINE normal == Collapsed(text)
      <4> HIDE DEF normal, wanted
      <4>1. QED BY <1>1, <3>2, <3>3, TranslatedInText DEF normal
    <3>5. QED BY <3>1, <3>2, <3>4, Zenon
  <2>4. ASSUME nfkc # NoMatch
        PROVE  InText(nfkc, Len(text))
    <3> DEFINE wanted == NfkcCollapsed(value).chars
               found == Occurrences(NfkcCollapsed(text).chars, wanted)
    <3>1. nfkc = IF wanted = <<>> \/ found = {} THEN NoMatch
                 ELSE TranslateRange(FirstOf(found), FirstOf(found) + Len(wanted), NfkcCollapsed(text).origin, Len(text))
      BY Zenon DEF LocateNormalized
    <3>2. wanted # <<>> /\ found # {}
      BY <2>4, <3>1, Zenon
    <3>3. NormalForm(NfkcCollapsed(text), Chars, Len(text)) /\ wanted \in Seq(Chars)
      <4>1. /\ NormalForm(NfkcCollapsed(text), Chars, Len(text))
            /\ NormalForm(NfkcCollapsed(value), Chars, Len(value))
        BY NfkcCollapsedForm
      <4>2. QED BY <4>1, Zenon DEF NormalForm
    <3>4. InText(TranslateRange(FirstOf(found), FirstOf(found) + Len(wanted), NfkcCollapsed(text).origin, Len(text)), Len(text))
      <4> DEFINE normal == NfkcCollapsed(text)
      <4> HIDE DEF normal, wanted
      <4>1. QED BY <1>1, <3>2, <3>3, TranslatedInText DEF normal
    <3>5. QED BY <3>1, <3>2, <3>4, Zenon
  <2> HIDE DEF direct, collapsed, nfkc, first
  <2>5. QED BY <2>1, <2>2, <2>3, <2>4, Zenon
<1>5. QED BY <1>2, <1>3, <1>4

\* Where the first and the last character of a span stand in one block.
OffsetsIn(a, start, end) ==
  /\ start[1] = blocks[a].id /\ start[2] \in Nat /\ end[2] \in Nat
  /\ start[2] < end[2] + 1 /\ end[2] + 1 <= Len(blocks[a].text)

(***************************************************************************)
(* When a span starts and ends in one block, the resolver's offsets are    *)
(* those of a first and a last character in the text of that block.        *)
(***************************************************************************)
LEMMA OffsetsFacts ==
  ASSUME Located, NEW x \in Int, NEW y \in Int, 0 <= x, x < y,
         LookupOffset(x) # None, EndLookup(<<x, y>>) # None, LookupOffset(x)[1] = EndLookup(<<x, y>>)[1]
  PROVE  \E a \in 1..Len(blocks) : OffsetsIn(a, LookupOffset(x), EndLookup(<<x, y>>))
<1> DEFINE n == Len(blocks)
           s(k) == Starts(blocks)[k]
           e(k) == EndOf(blocks, k)
           start == LookupOffset(x)
           end == EndLookup(<<x, y>>)
<1>1. PICK a \in 1..n : Covers(a, x)
  BY LookupFacts
<1>2. start = <<blocks[a].id, x - s(a)>>
  BY <1>1, LookupFacts
<1>3. /\ s(a) \in Nat /\ e(a) \in Nat /\ e(a) = s(a) + Len(blocks[a].text) /\ Len(blocks[a].text) \in Nat
      /\ s(a) <= x /\ x < e(a)
  BY <1>1, Geometry DEF Covers, EndOf, Located, HaveTexts
<1>4. end = IF start # None /\ LookupOffset(y - 1) = None THEN AtBlockBoundary(<<x, y>>) ELSE LookupOffset(y - 1)
  <2> DEFINE z == <<x, y>>
  <2>1. z[1] = x /\ z[2] = y
    OBVIOUS
  <2> HIDE DEF z
  <2>2. EndLookup(z) = IF LookupOffset(x) # None /\ LookupOffset(y - 1) = None
                       THEN AtBlockBoundary(z) ELSE LookupOffset(y - 1)
    BY <2>1, Zenon DEF EndLookup
  <2>3. QED BY <2>2, Zenon DEF z
<1>5. \E o \in Int : end = <<blocks[a].id, o - s(a)>> /\ x <= o /\ o < e(a)
  <2>1. CASE \A k \in 1..n : ~Covers(k, y - 1)
    <3>1. LookupOffset(y - 1) = None
      BY <2>1, LookupFacts
    <3>2. end = AtBlockBoundary(<<x, y>>)
      BY <1>4, <3>1, Zenon
    <3>3. AtBlockBoundary(<<x, y>>) = IF EndsInSeparator(a, x, y) THEN <<blocks[a].id, (e(a) - 1) - s(a)>> ELSE None
      BY <1>1, <2>1, BoundaryFacts
    <3>4. end = <<blocks[a].id, (e(a) - 1) - s(a)>>
      BY <3>2, <3>3, Zenon
    <3> HIDE DEF end, s, e
    <3>5. e(a) - 1 \in Int /\ x <= e(a) - 1 /\ e(a) - 1 < e(a)
      BY <1>3
    <3>6. QED BY <3>4, <3>5
  <2>2. ASSUME NEW b \in 1..n, Covers(b, y - 1)
        PROVE  \E o \in Int : end = <<blocks[a].id, o - s(a)>> /\ x <= o /\ o < e(a)
    <3>1. LookupOffset(y - 1) = <<blocks[b].id, (y - 1) - s(b)>>
      BY <2>2, LookupFacts
    <3>2. LookupOffset(y - 1) # None
      <4> DEFINE looked == LookupOffset(y - 1)
      <4>1. looked = <<blocks[b].id, (y - 1) - s(b)>>
        BY <3>1
      <4> HIDE DEF looked
      <4>2. looked # None
        BY <4>1 DEF None
      <4>3. QED BY <4>2 DEF looked
    <3>3. end = <<blocks[b].id, (y - 1) - s(b)>>
      BY <1>4, <3>1, <3>2, Zenon
    <3>4. blocks[b].id = blocks[a].id
      <4>1. start[1] = end[1]
        OBVIOUS
      <4> HIDE DEF start, end
      <4>2. QED BY <1>2, <3>3, <4>1
    <3>5. b = a
      BY <1>1, <2>2, <3>4 DEF Located
    <3>6. y - 1 \in Int /\ x <= y - 1 /\ y - 1 < e(a)
      BY <2>2, <3>5 DEF Covers
    <3> HIDE DEF end, s, e
    <3>7. QED BY <3>3, <3>5, <3>6
  <2>3. QED BY <2>1, <2>2
<1>6. PICK o \in Int : end = <<blocks[a].id, o - s(a)>> /\ x <= o /\ o < e(a)
  BY <1>5
<1> HIDE DEF start, end, s, e
<1>7. start[1] = blocks[a].id /\ start[2] = x - s(a) /\ end[2] = o - s(a)
  BY <1>2, <1>6
<1>8. /\ x - s(a) \in Nat /\ o - s(a) \in Nat /\ x - s(a) < (o - s(a)) + 1
      /\ (o - s(a)) + 1 <= Len(blocks[a].text)
  <2>1. o \in Int /\ x <= o /\ o < e(a)
    BY <1>6
  <2> DEFINE ea == e(a)
             sa == s(a)
             length == Len(blocks[a].text)
  <2>2. ea \in Nat /\ sa \in Nat /\ length \in Nat /\ ea = sa + length /\ sa <= x /\ o < ea
    BY <1>3, <2>1
  <2> HIDE DEF ea, sa, length
  <2>3. x - sa \in Nat /\ o - sa \in Nat /\ x - sa < (o - sa) + 1 /\ (o - sa) + 1 <= length
    BY <2>1, <2>2
  <2>4. QED BY <2>3 DEF sa, length
<1>9. OffsetsIn(a, start, end)
  BY <1>7, <1>8 DEF OffsetsIn
<1>10. QED BY <1>1, <1>9 DEF start, end

\* What is matched in a block is a range of the text of that block.
MatchedInBlock(f) ==
  f.match # NoMatch =>
    \E b \in DOMAIN blocks : f.boxes = <<blocks[b].box>> /\ InText(f.match, Len(blocks[b].text))
MatchedInBlocks == stage = "assemble" => \A k \in DOMAIN fields : MatchedInBlock(fields[k])

(***************************************************************************)
(* A sequence over a set is one over any set around it.                    *)
(***************************************************************************)
LEMMA SeqWider ==
  ASSUME NEW S, NEW T, S \subseteq T, NEW w \in Seq(S)
  PROVE  w \in Seq(T)
<1>1. \A j \in 1..Len(w) : w[j] \in T
  OBVIOUS
<1>2. Len(w) \in Nat /\ w = [j \in 1..Len(w) |-> w[j]]
  OBVIOUS
<1>3. w \in [1..Len(w) -> T]
  BY <1>1, <1>2
<1>4. QED BY <1>2, <1>3

(***************************************************************************)
(* What the resolver matches is a range of the text of the one block that  *)
(* the field stands in.                                                    *)
(***************************************************************************)
LEMMA MatchFacts ==
  ASSUME Located, \A b \in DOMAIN blocks : blocks[b].text \in Seq(STRING),
         NEW raw, Row(raw), raw.value # NoValue => raw.value \in Seq(STRING)
  PROVE  MatchedInBlock(ResolveOne(raw))
<1> DEFINE f == ResolveOne(raw)
           iv == raw.interval
           start == LookupOffset(iv[1])
           end == EndLookup(iv)
<1>1. ASSUME NEW status, NEW source, f = Ungrounded(raw, status, source)
      PROVE  MatchedInBlock(f)
  <2> HIDE DEF f
  <2>1. f.match = NoMatch
    BY <1>1 DEF Ungrounded
  <2>2. QED BY <2>1 DEF MatchedInBlock
<1>2. CASE raw.value = NoValue
  BY <1>1, <1>2, Zenon DEF ResolveOne
<1>3. CASE raw.value # NoValue /\ ~raw.grounded
  BY <1>1, <1>3, Zenon DEF ResolveOne
<1>4. CASE raw.value # NoValue /\ raw.grounded /\ (start = None \/ end = None)
  BY <1>1, <1>4, Zenon DEF ResolveOne
<1>5. CASE raw.value # NoValue /\ raw.grounded /\ ~(start = None \/ end = None)
  <2>1. f = Grounded(raw, start, end)
    BY <1>5, Zenon DEF ResolveOne
  <2>2. CASE start[1] # end[1]
    <3> HIDE DEF f, start, end
    <3>1. f.match = NoMatch
      BY <2>1, <2>2 DEF Grounded
    <3>2. QED BY <3>1 DEF MatchedInBlock, f
  <2>3. CASE start[1] = end[1]
    <3> DEFINE x == iv[1]
               y == iv[2]
    <3>1. x \in Int /\ y \in Int /\ 0 <= x /\ x < y /\ iv = <<x, y>>
      BY <1>5 DEF Row
    <3>2. PICK a \in 1..Len(blocks) : OffsetsIn(a, start, end)
      <4> DEFINE xx == x
                 yy == y
      <4>1. xx \in Int /\ yy \in Int /\ 0 <= xx /\ xx < yy /\ iv = <<xx, yy>>
        BY <3>1
      <4>2. LookupOffset(xx) # None /\ EndLookup(iv) # None /\ LookupOffset(xx)[1] = EndLookup(iv)[1]
        BY <1>5, <2>3, Zenon
      <4> HIDE DEF xx, yy, iv
      <4>3. \E a \in 1..Len(blocks) : OffsetsIn(a, LookupOffset(xx), EndLookup(<<xx, yy>>))
        <5>1. EndLookup(<<xx, yy>>) = EndLookup(iv)
          BY <4>1, Zenon
        <5>2. EndLookup(<<xx, yy>>) # None /\ LookupOffset(xx)[1] = EndLookup(<<xx, yy>>)[1]
          BY <4>2, <5>1, Zenon
        <5>3. QED BY <4>1, <4>2, <5>2, OffsetsFacts
      <4>4. EndLookup(<<xx, yy>>) = EndLookup(iv)
        BY <4>1, Zenon
      <4>5. \E a \in 1..Len(blocks) : OffsetsIn(a, LookupOffset(xx), EndLookup(iv))
        BY <4>3, <4>4, Zenon
      <4>6. QED BY <4>5, Zenon DEF xx
    <3> DEFINE text == blocks[a].text
               match == MatchIn(text, raw.value, start[2], end[2] + 1)
    <3>3. BlockOf(start[1]) = blocks[a] /\ a \in DOMAIN blocks
      BY <3>2, Geometry DEF OffsetsIn
    <3>4. f.boxes = <<blocks[a].box>> /\ f.match = match
      <4> HIDE DEF f, start, end
      <4>1. /\ f.boxes = <<BlockOf(start[1]).box>>
            /\ f.match = MatchIn(BlockOf(start[1]).text, raw.value, start[2], end[2] + 1)
        BY <2>1, <2>3 DEF Grounded
      <4>2. QED BY <3>3, <4>1, Zenon
    <3>5. text \in Seq(STRING) /\ raw.value \in Seq(STRING)
      BY <1>5, <3>3
    <3>6. match # NoMatch => InText(match, Len(text))
      <4>1. CASE match = <<start[2], end[2] + 1>>
        <5>1. /\ Len(text) \in Nat /\ start[2] \in Nat /\ end[2] \in Nat
              /\ start[2] < end[2] + 1 /\ end[2] + 1 <= Len(text)
          BY <3>2, <3>5 DEF OffsetsIn
        <5> HIDE DEF match, start, end, text
        <5>2. QED BY <4>1, <5>1 DEF InText
      <4>2. CASE match = Locate(text, raw.value)
        <5> DEFINE Chars == STRING \cup Replacements
                   value == raw.value
        <5>1. text \in Seq(Chars) /\ value \in Seq(Chars) /\ Replacements \subseteq Chars
          <6> DEFINE v == raw.value
                     t == text
          <6>1. t \in Seq(STRING) /\ v \in Seq(STRING)
            BY <3>5
          <6> HIDE DEF t, v
          <6>2. STRING \subseteq Chars /\ Replacements \subseteq Chars
            OBVIOUS
          <6> HIDE DEF Chars
          <6>3. t \in Seq(Chars) /\ v \in Seq(Chars)
            BY <6>1, <6>2, SeqWider
          <6>4. QED BY <6>2, <6>3 DEF t, v
        <5> HIDE DEF Chars, text, value, match
        <5>2. Locate(text, value) # NoMatch => InText(Locate(text, value), Len(text))
          BY <5>1, LocateInText
        <5>3. QED BY <4>2, <5>2, Zenon DEF value
      <4>3. QED BY <4>1, <4>2, Zenon DEF MatchIn
    <3> HIDE DEF f, match, text
    <3>7. QED BY <3>3, <3>4, <3>6, Zenon DEF MatchedInBlock, f, text
  <2>4. QED BY <2>2, <2>3
<1>6. QED BY <1>2, <1>3, <1>4, <1>5

(***************************************************************************)
(* A field that was matched stands in one block, and its match is a range  *)
(* of the text of that block: the request never dies of a range outside    *)
(* of it.                                                                  *)
(***************************************************************************)
THEOREM SpansMatched == SpansSpec => []MatchedInBlocks
<1>1. SpansInv => MatchedInBlocks
  <2> SUFFICES ASSUME SpansInv, stage = "assemble", NEW k \in DOMAIN fields
               PROVE  MatchedInBlock(fields[k])
    BY DEF MatchedInBlocks
  <2>1. Parsed /\ HasRows /\ HasFields /\ document \in Documents /\ reported \in Seq(Reportable)
    BY DEF SpansInv
  <2>2. Located
    BY <2>1, SpansAssumption, ParsedLocated
  <2>3. \A b \in DOMAIN blocks : blocks[b].text \in Seq(STRING)
    <3> DEFINE items == TextItems(document.items)
    <3>1. items \in Seq(Items) /\ blocks = ToParsedDocument(items)
      BY <2>1, SpansAssumption, DocumentTypes DEF Parsed
    <3> HIDE DEF items
    <3>2. DOMAIN blocks = DOMAIN items /\ \A b \in DOMAIN items : blocks[b].text = items[b].text
      BY <3>1 DEF ToParsedDocument
    <3>3. \A b \in DOMAIN items : items[b] \in Items
      BY <3>1
    <3>4. QED BY <3>2, <3>3 DEF Items
  <2>4. k \in DOMAIN Declared /\ fields[k] = ResolveOne(raws[k]) /\ raws[k] = RawOf(Declared[k], reported)
    BY <2>1 DEF HasFields, HasRows
  <2> DEFINE raw == RawOf(Declared[k], reported)
             own == {j \in DOMAIN reported : reported[j].class = Declared[k]}
  <2>5. Row(raw) /\ raw.value = (IF own = {} THEN NoValue ELSE reported[Min(own)].value) /\ (own # {} => Min(own) \in own)
    <3>1. \A name : LET r == RawOf(name, reported)
                        set == {j \in DOMAIN reported : reported[j].class = name}
                    IN /\ Row(r) /\ Constructible(r) /\ r.name = name
                       /\ r.value = (IF set = {} THEN NoValue ELSE reported[Min(set)].value)
                       /\ set # {} => Min(set) \in set /\ (\A j \in set : Min(set) <= j) /\ r.value # NoValue
      BY <2>1, RowFacts
    <3>2. QED BY <3>1, Zenon
  <2>6. raw.value # NoValue => raw.value \in Seq(STRING)
    <3>1. own # {} => Min(own) \in DOMAIN reported
      BY <2>5
    <3> HIDE DEF raw
    <3>2. \A j \in DOMAIN reported : reported[j].value \in Seq(STRING)
      <4>1. \A j \in DOMAIN reported : reported[j] \in Reportable
        BY <2>1
      <4>2. \A x \in Reportable : x.value \in Seq(STRING)
        BY DEF Reportable
      <4>3. QED BY <4>1, <4>2
    <3> HIDE DEF own
    <3>3. QED BY <2>5, <3>1, <3>2
  <2> HIDE DEF raw, own
  <2>7. MatchedInBlock(ResolveOne(raw))
    BY <2>2, <2>3, <2>5, <2>6, MatchFacts
  <2>8. QED BY <2>4, <2>7 DEF raw
<1>2. QED BY <1>1, SpansInductive, PTL

=============================================================================
