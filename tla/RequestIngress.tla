---------------------------- MODULE RequestIngress ---------------------------
(***************************************************************************)
(* One HTTP request on its way to a route and back (api/main.py): the      *)
(* middleware that names it, the middleware that buffers its body up to a  *)
(* limit and replays it, and the answer that every failure is turned into. *)
(* What the routes do in between is the business of LocalServing and       *)
(* ScaleStore; here a route reads the body, then answers or raises.        *)
(***************************************************************************)
EXTENDS Integers, Sequences, SequencesExt, FiniteSets

CONSTANTS
  Headers,    \* values of x-request-id in the request: sequences
  ValidIds,   \* those that match REQUEST_ID_PATTERN
  FreshId,    \* uuid4: an id that nobody sent
  MaxBytes,   \* max_request_bytes
  MaxChunks   \* bound on the messages that carry a body

ASSUME IngressAssumption == FreshId \notin ValidIds /\ {MaxBytes, MaxChunks} \subseteq Nat

VARIABLE request

\* What a route may raise.
Parent ==
  [StateStoreUnavailableError |-> "DurableIdempotencyError",
   DurableIdempotencyConflictError |-> "DurableIdempotencyError",
   ReservationInProgressError |-> "DurableIdempotencyError",
   StaleReservationError |-> "DurableIdempotencyError",
   FailedReservationError |-> "DurableIdempotencyError",
   StoredResponseIntegrityError |-> "DurableIdempotencyError"]

\* The handlers of create_app.
Handlers ==
  [RequestValidationError |-> 422, ModelUnavailableError |-> 503,
   PredictionIntegrityError |-> 500, PredictionTimeoutError |-> 504,
   CapacityExceededError |-> 503, IdempotencyConflictError |-> 409,
   DurableIdempotencyConflictError |-> 409, DurableIdempotencyError |-> 503,
   BoundedResponseIntegrityError |-> 500, AuditUnavailableError |-> 503,
   ScaleProfileUnavailableError |-> 503, ScaleProfileRequiresV2Error |-> 503,
   HTTPException |-> 404]

Raised == DOMAIN Handlers \cup DOMAIN Parent \cup {"ValueError"}

\* Starlette: the handler of the class or of its nearest ancestor that has one.
HandlerOf(class) ==
  IF class \in DOMAIN Handlers THEN class
  ELSE IF class \in DOMAIN Parent THEN Parent[class] ELSE "Exception"

\* durable_state_error tells the classes of its family apart.
CodeOf(class) ==
  IF HandlerOf(class) = "DurableIdempotencyError" THEN class
  ELSE IF class = "DurableIdempotencyConflictError" THEN "IdempotencyConflictError"
  ELSE IF class = "BoundedResponseIntegrityError" THEN "PredictionIntegrityError"
  ELSE HandlerOf(class)

-----------------------------------------------------------------------------
IngressInit ==
  request = [stage |-> "sent", header |-> <<>>, id |-> FreshId, sent |-> <<>>, kept |-> <<>>,
             seen |-> <<>>, answer |-> [status |-> 0], counted |-> <<>>]

\* request_context, _request_id: the first header, or an id of its own.
NameRequest(header, posts) ==
  /\ request.stage = "sent"
  /\ request' = [request EXCEPT
                   !.stage  = IF posts THEN "buffering" ELSE "routed",
                   !.header = header,
                   !.id     = IF header # <<>> /\ Head(header) \in ValidIds THEN Head(header)
                              ELSE FreshId]

BodySize(chunks) == FoldSeq(+, 0, chunks)

\* Faulty: the limit is one of each message.
ChunkWithinLimit(chunks) == Last(chunks) <= MaxBytes

WithinLimit(chunks) == BodySize(chunks) <= MaxBytes

\* An answer that goes back through request_context: it is counted, logged and
\* given the header.
Answered(r, status, code) ==
  [r EXCEPT !.stage = "ended",
     !.answer  = [status |-> status, code |-> code, body |-> r.id, header |-> {r.id}],
     !.counted = Append(@, status)]

\* An exception that passes through request_context is counted as 500; the
\* outermost handler makes an answer that has the id in its body only.
Unhandled(r) ==
  [r EXCEPT !.stage = "ended",
     !.answer  = [status |-> 500, code |-> "Exception", body |-> r.id, header |-> {}],
     !.counted = Append(@, 500)]

\* RequestBodyLimitMiddleware: a message of the body arrives.
Buffer(bytes, more) ==
  LET chunks == Append(request.sent, bytes) IN
  /\ request.stage = "buffering"
  /\ more => Len(chunks) < MaxChunks
  /\ request' =
       IF ~WithinLimit(chunks)
       THEN Answered([request EXCEPT !.sent = chunks, !.kept = chunks], 413, "request_too_large")
       ELSE [request EXCEPT !.sent = chunks, !.kept = chunks,
               !.stage = IF more THEN "buffering" ELSE "routed"]

\* The client goes away before the end of its body: no response is created.
Disconnect ==
  /\ request.stage = "buffering"
  /\ request' = Unhandled(request)

\* replay: the route takes the next message; after the last there are empty ones.
ReadBody ==
  /\ request.stage = "routed"
  /\ request.kept # <<>>
  /\ request' = [request EXCEPT !.seen = Append(@, Head(request.kept)), !.kept = Tail(@)]

\* A route that takes a body starts when it has all of it.
RouteAnswers ==
  /\ request.stage = "routed" /\ request.kept = <<>>
  /\ request' = Answered(request, 200, "none")

RouteRaises(class) ==
  /\ request.stage = "routed" /\ request.kept = <<>>
  /\ request' = IF HandlerOf(class) = "Exception" THEN Unhandled(request)
                ELSE Answered(request, Handlers[HandlerOf(class)], CodeOf(class))

IngressNext ==
  \/ \E header \in Headers, posts \in BOOLEAN : NameRequest(header, posts)
  \/ \E bytes \in 0..(MaxBytes + 1), more \in BOOLEAN : Buffer(bytes, more)
  \/ Disconnect
  \/ ReadBody
  \/ RouteAnswers
  \/ \E class \in Raised : RouteRaises(class)

IngressSpec == IngressInit /\ [][IngressNext]_request

IngressOver == request.stage = "ended"

-----------------------------------------------------------------------------
\* However a body is cut into messages and whoever goes away: a route sees the
\* whole body, in order, or does not run; no more is held than the limit and the
\* message that broke it, and only a body over the limit is refused for its
\* size.  A request that ended was counted once, with the status of its answer,
\* under the id of its first header or one of its own; the answer bears that id,
\* in the header too unless an unexpected error made it.  A retry and a fault
\* of the service are told from a conflict.
RequestsAreAccountedFor ==
  /\ BodySize(request.kept) <= MaxBytes \/ BodySize(Front(request.kept)) <= MaxBytes
  /\ request.stage = "routed" =>
       request.seen \o request.kept = request.sent /\ BodySize(request.sent) <= MaxBytes
  /\ request.stage = "ended" =>
       LET answer == request.answer
           valid  == request.header # <<>> /\ Head(request.header) \in ValidIds
       IN  /\ request.counted = <<answer.status>>
           /\ answer.body = IF valid THEN Head(request.header) ELSE FreshId
           /\ answer.header = IF answer.code = "Exception" THEN {} ELSE {answer.body}
           /\ answer.status = 413 <=> BodySize(request.sent) > MaxBytes
           /\ answer.status = 200 => request.seen = request.sent
           /\ answer.status = 409 <=> answer.code = "IdempotencyConflictError"

=============================================================================
