---------------------------- MODULE CaptureHooks ----------------------------
(***************************************************************************)
(* What becomes of one HTTP response on its way to the journal: the two    *)
(* hooks of Capture (capture.py), between which the body arrives and the   *)
(* policy may be replaced, the worker's fit_record, and the contract that  *)
(* the readers hold every line to (validate_record, records.py).           *)
(*                                                                         *)
(* A body is its length; a text is its length in bytes, the room that it   *)
(* takes in a line of JSON, where characters are escaped, and whether it   *)
(* can be encoded at all: the backend turns bytes that are no UTF-8 into   *)
(* lone surrogates.  flow.utf8 says that of everything that is written     *)
(* unseen: the method, the URL, the content type and the user agent.  The  *)
(* policy is whether its two lists of URLs have this one.                  *)
(***************************************************************************)
EXTENDS Naturals

CONSTANTS None,
          MaxBody,       \* max_body_bytes
          MaxRecord,     \* MAX_RECORD_BYTES
          Lengths,       \* of bodies, 0 for an absent or invalid content-length too
          Escaped        \* the most room that a byte takes in a line

VARIABLES limits, flow, record

vars == <<limits, flow, record>>

(* What capture_limits demands of them: a response body and a request body *)
(* of the largest size fit a line, with the room for what else is in one.  *)
CaptureLimits == MaxBody > 0 /\ 2 * MaxBody + 1 <= MaxRecord

Policies == [binary : BOOLEAN, request : BOOLEAN]
Texts    == {[bytes |-> n, room |-> n * k, utf8 |-> u] : n \in Lengths, k \in 1..Escaped, u \in BOOLEAN}

-----------------------------------------------------------------------------
(* decide_body: what is known of the response so far.                      *)
Decision(keep, reason, force, size) == [keep |-> keep, reason |-> reason, force |-> force, size |-> size]

WantsBody == flow.type = "text"
SizeHint  == IF flow.declared > 0 THEN flow.declared ELSE IF flow.raw # None THEN flow.raw ELSE 0

DecideBody ==
    IF ~WantsBody THEN Decision(FALSE, "media_type", TRUE, SizeHint)
    ELSE IF flow.stream THEN Decision(FALSE, "streamed", FALSE, SizeHint)
    ELSE IF flow.declared > MaxBody THEN Decision(FALSE, "oversize", TRUE, flow.declared)
    ELSE IF flow.raw # None /\ flow.raw > MaxBody THEN Decision(FALSE, "oversize", FALSE, flow.raw)
    ELSE Decision(TRUE, "retained", FALSE, SizeHint)

(* responseheaders: no body is there yet.                                  *)
ResponseHeaders ==
    /\ flow.at = "headers"
    /\ LET d == DecideBody
           binary == ~d.keep /\ d.reason = "media_type" /\ d.size <= MaxBody /\ limits.binary
       IN  flow' = [flow EXCEPT !.at = "body", !.prior = d, !.binary = binary,
                      !.stream = @ \/ (~d.keep /\ (d.force \/ d.reason = "media_type") /\ ~binary)]
    /\ UNCHANGED <<limits, record>>

(* The backend passes the body on or keeps it, and may begin to pass it on *)
(* when it turns out large; a flow may also have had no header hook.       *)
Receive ==
    /\ flow.at \in {"headers", "body"}
    /\ \/ flow' = [flow EXCEPT !.at = "response", !.stream = TRUE]
       \/ ~flow.stream /\ \E n \in Lengths \cup {None} : flow' = [flow EXCEPT !.at = "response", !.raw = n]
    /\ UNCHANGED <<limits, record>>

(* check() of the policy thread.                                           *)
Swap ==
    /\ flow.at \in {"headers", "body", "response"}
    /\ limits' \in Policies \ {limits}
    /\ UNCHANGED <<flow, record>>

-----------------------------------------------------------------------------
(* response: what the header hook had decided, and what holds now.         *)
Keep(keep, reason, size, body) ==
    [keep |-> keep, reason |-> reason, size |-> size, body |-> body, base64 |-> FALSE]
Omit(reason, size) == Keep(FALSE, reason, size, None)

(* Mutant: what the header hook decided is all that counts.                *)
ReconciledEarly ==
    IF flow.prior # None THEN Keep(flow.prior.keep, flow.prior.reason, flow.prior.size, None)
    ELSE Keep(DecideBody.keep, DecideBody.reason, DecideBody.size, None)

Reconciled ==
    LET d == DecideBody
        p == flow.prior
        known == p # None
        late == IF known /\ d.size = 0 THEN p.size ELSE d.size
    IN  IF known /\ p.force /\ p.reason \in {"oversize", "media_type"} THEN Omit(p.reason, p.size)
        ELSE IF flow.stream /\ d.reason = "retained" THEN Omit("streamed", late)
        ELSE Keep(d.keep, d.reason, late, None)

(* The bytes of a listed binary body; the decoded length may be another.   *)
Binary(r) ==
    IF flow.raw = None THEN {Omit("unavailable", r.size)}
    ELSE {IF n > MaxBody THEN Omit("oversize", n)
          ELSE [Keep(TRUE, "retained", n, [bytes |-> n, room |-> (4 * n + 2) \div 3, utf8 |-> TRUE]) EXCEPT !.base64 = TRUE] :
            n \in Lengths}

Text(r) ==
    IF flow.raw = None THEN {Omit("unavailable", r.size)}
    ELSE {IF ~t.utf8 THEN Omit("undecodable", r.size)
          ELSE IF t.bytes > MaxBody THEN Omit("oversize_decoded", t.bytes)
          ELSE Keep(TRUE, "retained", IF r.size = 0 THEN t.bytes ELSE r.size, t) : t \in Texts}

Bodies ==
    LET r == Reconciled
    IN  IF flow.binary /\ ~flow.stream /\ r.reason = "media_type" THEN Binary(r)
        ELSE IF r.keep THEN Text(r) ELSE {r}

Request(keep, reason, body) == [keep |-> keep, reason |-> reason, body |-> body]

(* Mutant: whether a request's text can be encoded is not asked.           *)
RequestBodiesUnasked(r) ==
    IF (r.keep /\ ~r.base64) \/ limits.request
    THEN {Request(FALSE, why, None) : why \in {"streamed", "unavailable"}}
           \cup {IF t.bytes > MaxBody THEN Request(FALSE, "oversize_decoded", None)
                 ELSE Request(TRUE, "retained", t) : t \in Texts}
    ELSE {Request(FALSE, IF r.keep THEN "unavailable" ELSE "response_not_retained", None)}

RequestBodies(r) ==
    IF (r.keep /\ ~r.base64) \/ limits.request
    THEN {Request(FALSE, why, None) : why \in {"streamed", "unavailable"}}
           \cup {IF ~t.utf8 THEN Request(FALSE, "undecodable", None)
                 ELSE IF t.bytes > MaxBody THEN Request(FALSE, "oversize_decoded", None)
                 ELSE Request(TRUE, "retained", t) : t \in Texts}
    ELSE {Request(FALSE, IF r.keep THEN "unavailable" ELSE "response_not_retained", None)}

(* submit() refuses a record when the queue is full or the writer stops.   *)
Response ==
    /\ flow.at = "response"
    /\ \E at \in {"submitted", "refused"} : flow' = [flow EXCEPT !.at = at]
    /\ \E r \in Bodies : \E q \in RequestBodies(r) :
         record' = [size |-> r.size, kept |-> r.keep, reason |-> r.reason, body |-> r.body,
                    base64 |-> r.base64, streamed |-> flow.stream,
                    reqKept |-> q.keep, reqReason |-> q.reason, reqBody |-> q.body]
    /\ UNCHANGED limits

(* The worker makes a line of it: bodies go until it fits.  What else is   *)
(* in a line has the room that the limits leave for it, here 1.            *)
Room(body) == IF body = None THEN 0 ELSE body.room
Line(r) == 1 + Room(r.body) + Room(r.reqBody)

WithoutRequest(r) ==
    IF r.reqKept THEN [r EXCEPT !.reqKept = FALSE, !.reqReason = "oversize_decoded", !.reqBody = None] ELSE r

WithoutBodies(r) ==
    IF r.kept THEN [r EXCEPT !.kept = FALSE, !.reason = "oversize_decoded", !.body = None,
                      !.reqKept = FALSE, !.reqReason = "response_not_retained", !.reqBody = None]
    ELSE r

FitRecord(r) ==
    IF Line(r) <= MaxRecord THEN r
    ELSE IF r.reqKept /\ Line(WithoutRequest(r)) <= MaxRecord THEN WithoutRequest(r)
    ELSE WithoutBodies(WithoutRequest(r))

(* encode_record raises on a lone surrogate, wherever in the record it is, *)
(* and the worker drops the record then as it does one that is too long.   *)
Encodes(r) == flow.utf8 /\ \A body \in {r.body, r.reqBody} \ {None} : body.utf8

Write ==
    /\ flow.at = "submitted"
    /\ IF Encodes(record)
         THEN /\ record' = FitRecord(record)
              /\ flow' = [flow EXCEPT !.at = IF Line(record') > MaxRecord THEN "dropped" ELSE "written"]
         ELSE flow' = [flow EXCEPT !.at = "dropped"] /\ record' = record
    /\ UNCHANGED limits

-----------------------------------------------------------------------------
Init ==
    /\ CaptureLimits
    /\ limits \in Policies
    /\ \E type \in {"text", "other"}, declared \in Lengths, stream, utf8 \in BOOLEAN :
         flow = [at |-> "headers", type |-> type, declared |-> declared, stream |-> stream,
                 utf8 |-> utf8, raw |-> None, prior |-> None, binary |-> FALSE]
    /\ record = None

Next == ResponseHeaders \/ Receive \/ Swap \/ Response \/ Write

Spec == Init /\ [][Next]_vars

-----------------------------------------------------------------------------
(* validate_record, of what the hooks can vary.                            *)
Reasons    == {"retained", "media_type", "streamed", "unavailable", "oversize", "unbounded",
               "oversize_decoded", "undecodable"}
ReqReasons == {"retained", "response_not_retained", "streamed", "unavailable", "oversize_decoded",
               "undecodable"}

Disposed(kept, reason, body) == (kept => reason = "retained" /\ body # None)
                                  /\ (~kept => reason # "retained" /\ body = None)

ValidateRecord(r) ==
    /\ r.reason \in Reasons /\ r.reqReason \in ReqReasons
    /\ Disposed(r.kept, r.reason, r.body) /\ Disposed(r.reqKept, r.reqReason, r.reqBody)
    /\ r.reason = "streamed" => r.streamed
    /\ r.streamed => r.reason # "unavailable" /\ ~r.kept
    /\ r.kept => r.reqReason # "response_not_retained"
    /\ r.base64 => r.kept

(* Every line is one that the readers accept, whenever the backend begins  *)
(* to stream, whatever the body turns out to be and whenever the policy is *)
(* replaced: one line they refuse stops every reader of the journal there. *)
RecordsAreReadable == flow.at = "written" => ValidateRecord(record)

(* A record that was submitted is never lost for its bodies: one that is   *)
(* too long or no UTF-8 is left out, of the response as of the request,    *)
(* and the line is written without it (fit_record, and utf8_len: "rather   *)
(* than let the encode raise and lose the whole flow").  What does lose it *)
(* is a URL, a method, a content type or a user agent that is no UTF-8.    *)
NoBodyCostsTheLine == flow.at = "dropped" => ~flow.utf8
=============================================================================
