------------------------------ MODULE ResponsePath ------------------------------
(***************************************************************************)
(* The way of a response from a handler to the client through the          *)
(* middlewares of internal/server/middleware.go that hold, change or       *)
(* observe it.  From the outside in: recovery, logging, the behavioural    *)
(* detector, response encryption, the gates that may refuse the request,   *)
(* advanced egress, the handler.                                           *)
(*                                                                         *)
(* Encryption and egress each hold the response in an egressResponseWriter *)
(* until it outgrows Limit, and from then on pass it through.  A body is a *)
(* sequence of units as they are sent, each plain or holding a leak the    *)
(* egress scan would stop if it could read it: a compressed unit stands    *)
(* for Expansion units of content, with the leak in the last of them.  The *)
(* server's own bodies are the units json, alert, mark and error.  The     *)
(* net/http connection is external: it honours the first status only and   *)
(* drops a write that exceeds the Content-Length that was sent.            *)
(***************************************************************************)
EXTENDS Naturals, Sequences, SequencesExt

CONSTANTS
  Limit,     \* units a capture holds, 200 KiB in the code
  Expansion, \* units of content a unit of a gzip body decodes to
  Bodies,    \* the bodies a handler may produce
  Statuses,  \* the statuses a handler may set
  None

PathAssumption ==
  /\ Limit \in Nat \ {0}
  /\ Expansion \in Nat \ {0}
  /\ Bodies \subseteq Seq({"plain", "leak"})
  /\ Statuses \subseteq 200..599
  /\ None \notin Nat

VARIABLES
  cfg,       \* which middlewares are on
  request,   \* what the handler will answer: method, status, headers and body
  phase,     \* who runs
  produced,  \* how much of its body the handler has written
  headers,   \* the header map all layers share
  egress, encrypt,  \* the two captures
  front,     \* what the logging and the detector's writer have seen
  conn,      \* what the client has been sent
  outcome    \* what the middlewares recorded

vars == <<cfg, request, phase, produced, headers, egress, encrypt, front, conn, outcome>>

Leaks(body) == "leak" \in ToSet(body)
FirstUnits(s, n) == SubSeq(s, 1, IF n < Len(s) THEN n ELSE Len(s))

\* The response under way, as one value that the writers pass along.
Rsp == [headers |-> headers, egress |-> egress, encrypt |-> encrypt, front |-> front, conn |-> conn]
Becomes(r) ==
  /\ headers' = r.headers
  /\ egress' = r.egress
  /\ encrypt' = r.encrypt
  /\ front' = r.front
  /\ conn' = r.conn

-----------------------------------------------------------------------------
(* The writers, from the connection inwards.                               *)

BodyAllowed(status) == request.method # "HEAD" /\ status \notin {204, 304}

\* net/http: the first status counts and fixes the headers.
ConnHeader(r, code) ==
  IF r.conn.status # None THEN r
  ELSE [r EXCEPT !.conn = [status |-> code, headers |-> r.headers, sent |-> <<>>]]

\* net/http: a write sends status 200 if none was sent.
ConnWrite(r, body) ==
  LET s == ConnHeader(r, 200)
      fits == s.conn.headers.length = None
              \/ Len(s.conn.sent) + Len(body) <= s.conn.headers.length
  IN IF BodyAllowed(s.conn.status) /\ fits
     THEN [s EXCEPT !.conn.sent = @ \o body]
     ELSE s

\* Mutant: the status is not noted.
FrontHeaderUnseen(r, code) == ConnHeader([r EXCEPT !.front.wroteHeader = TRUE], code)

\* responseWriter, as the logging and the detector wrap it.
NewWriter == [status |-> 200, wroteHeader |-> FALSE]
Noted(code) == [status |-> code, wroteHeader |-> TRUE]
FrontHeader(r, code) == ConnHeader([r EXCEPT !.front = Noted(code)], code)
FrontWrite(r, body) == ConnWrite([r EXCEPT !.front = Noted(@.status)], body)

NewCapture == [status |-> None, buffer |-> <<>>, passthrough |-> FALSE]

\* Mutant: nothing of the write that crosses the limit is kept.
KeptBefore(held, body) == held

\* What a capture that lets go keeps for the scan.
Kept(held, body) == held \o FirstUnits(body, Limit - Len(held))
Opened(capture, body) ==
  [status |-> capture.status, buffer |-> Kept(capture.buffer, body), passthrough |-> TRUE]

\* WriteHeader of egressResponseWriter, where it is on: it remembers the status.
CaptureHeader(r, layer, code, NextHeader(_, _)) ==
  LET s == [r EXCEPT ![layer].status = code]
  IN  IF ~cfg[layer] THEN NextHeader(r, code)
      ELSE IF r[layer].passthrough THEN NextHeader(s, code) ELSE s

\* Its Write; it lets go when it gets too much: its status goes out, what it has held, and
\* the write itself.
CaptureWrite(r, layer, body, NextHeader(_, _), NextWrite(_, _)) ==
  LET held == r[layer].buffer
      status == r[layer].status
      opened == [r EXCEPT ![layer] = Opened(@, body)]
      begun == IF status # None THEN NextHeader(opened, status) ELSE opened
      headed == IF held # <<>> THEN NextWrite(begun, held) ELSE begun
  IN  IF ~cfg[layer] \/ r[layer].passthrough THEN NextWrite(r, body)
      ELSE IF Len(held) + Len(body) <= Limit THEN [r EXCEPT ![layer].buffer = @ \o body]
      ELSE NextWrite(headed, body)

\* Egress wraps encryption, which wraps the detector's writer.
EncryptHeader(r, code) == CaptureHeader(r, "encrypt", code, FrontHeader)
EncryptWrite(r, body) == CaptureWrite(r, "encrypt", body, FrontHeader, FrontWrite)
EgressHeader(r, code) == CaptureHeader(r, "egress", code, EncryptHeader)
EgressWrite(r, body) == CaptureWrite(r, "egress", body, EncryptHeader, EncryptWrite)

-----------------------------------------------------------------------------
\* Handlers that send a Content-Length set a status, as the proxy does; one that
\* answers nothing at all says nothing of a body either.  coding is what was done to the
\* body, label the Content-Encoding that says so, if any; gzip stands for deflate and for
\* layers of the two as well, br for every coding the scan does not know.
Codings == {"none", "gzip", "br"}
Requests ==
  {q \in [method : {"GET", "HEAD"}, status : Statuses \cup {None}, body : Bodies, length : BOOLEAN,
          coding : Codings, label : Codings, tag : {"none", "strong"}, html : BOOLEAN] :
     /\ q.method = "HEAD" \/ q.status \in {204, 304} => q.body = <<>> /\ q.status # None
     /\ q.length => q.status # None
     /\ q.label \in {"none", q.coding}
     /\ q.status = None /\ q.body = <<>> => q.label = "none" /\ q.tag = "none"}

NoHeaders == [length |-> None, label |-> "none", tag |-> "none", html |-> FALSE]

\* A Content-Length is that of the body a GET would get; a HEAD says it of a
\* body it does not send.
HeadersOf(q) ==
  [length |-> IF ~q.length THEN None ELSE IF q.method = "HEAD" THEN Limit ELSE Len(q.body),
   label |-> q.label, tag |-> q.tag, html |-> q.html]

Init ==
  /\ cfg \in [encrypt : BOOLEAN, egress : BOOLEAN, detector : BOOLEAN]
  /\ request \in Requests
  /\ phase = "gates"
  /\ produced = 0
  /\ headers = NoHeaders
  /\ egress = NewCapture /\ encrypt = NewCapture
  /\ front = NewWriter
  /\ conn = [status |-> None, headers |-> NoHeaders, sent |-> <<>>]
  /\ outcome = [refused |-> FALSE, denied |-> FALSE, alerted |-> FALSE, panicked |-> FALSE,
                marked |-> FALSE, logged |-> None]

Goto(p) == phase' = p
Same == UNCHANGED <<cfg, request>>

\* jsonResponse to encryption, and to the detector's writer.
JsonHeaders(h) == [h EXCEPT !.html = FALSE]
EncryptJson(r, code, unit) ==
  EncryptWrite(EncryptHeader([r EXCEPT !.headers = JsonHeaders(@)], code), <<unit>>)
FrontJson(r, code, unit) ==
  FrontWrite(FrontHeader([r EXCEPT !.headers = JsonHeaders(@)], code), <<unit>>)

\* A middleware between encryption and egress answers with its own JSON.
Refuse ==
  /\ phase = "gates"
  /\ Becomes(EncryptJson(Rsp, 403, "json"))
  /\ outcome' = [outcome EXCEPT !.refused = TRUE]
  /\ Goto("encrypt")
  /\ Same /\ UNCHANGED produced

\* The handler is reached; it sets its headers and, if it does so at all, its
\* status.
Begin ==
  /\ phase = "gates"
  /\ LET r == [Rsp EXCEPT !.headers = HeadersOf(request)] IN
     Becomes(IF request.status = None THEN r ELSE EgressHeader(r, request.status))
  /\ Goto("handler")
  /\ Same /\ UNCHANGED <<produced, outcome>>

\* The handler writes the next n units.
HandlerWrite(n) ==
  /\ phase = "handler"
  /\ produced + n <= Len(request.body)
  /\ Becomes(EgressWrite(Rsp, SubSeq(request.body, produced + 1, produced + n)))
  /\ produced' = produced + n
  /\ Same /\ UNCHANGED <<phase, outcome>>

HandlerReturn ==
  /\ phase = "handler"
  /\ produced = Len(request.body)
  /\ Goto("egress")
  /\ Same /\ UNCHANGED <<produced, headers, egress, encrypt, front, conn, outcome>>

\* As the proxy does when its backend breaks off, and any handler may.
HandlerPanic ==
  /\ phase = "handler"
  /\ outcome' = [outcome EXCEPT !.panicked = TRUE]
  /\ Goto("recovery")
  /\ Same /\ UNCHANGED <<produced, headers, egress, encrypt, front, conn>>

Released(r) ==
  LET begun == IF r.egress.status # None THEN EncryptHeader(r, r.egress.status) ELSE r
  IN  EncryptWrite(begun, r.egress.buffer)

\* Mutant: the headers of the withheld response stay.
DenialStale(r) == EncryptJson(r, 403, "json")

\* The headers that describe the withheld body go, its tag stays.
BareHeaders(h) == [h EXCEPT !.length = None, !.label = "none"]
Denial(r) == EncryptJson([r EXCEPT !.headers = BareHeaders(@)], 403, "json")

\* Mutant: compressed bytes are scanned as they are.
ForScanRaw(held, coding, label) == IF coding = "none" THEN held ELSE <<>>

\* What decompressForScan makes readable of the units held.  A labelled gzip body is read
\* as far as it decodes to Limit units; of one without its label, which is known by its
\* first bytes, what decodes is added to the bytes themselves within the same limit; br is
\* not decoded.
Decoded(held, room) == FirstUnits(held, room \div Expansion)
ForScan(held, coding, label) ==
  CASE coding = "none" -> held
    [] coding = "gzip" -> Decoded(held, IF label = "gzip" THEN Limit ELSE Limit - Len(held))
    [] coding = "br" -> <<>>

\* advancedEgressMiddleware after the handler: what can be read of the buffer is scanned;
\* a leak is refused unless the response has gone out already.
EgressFinish ==
  /\ phase = "egress"
  /\ Goto("encrypt")
  /\ Same /\ UNCHANGED produced
  /\ LET leak == Leaks(ForScan(egress.buffer, request.coding, headers.label)) IN
     IF ~cfg.egress THEN Becomes(Rsp) /\ UNCHANGED outcome
     ELSE /\ outcome' = [outcome EXCEPT !.denied = leak]
          /\ Becomes(IF egress.passthrough THEN Rsp
                     ELSE IF leak THEN Denial(Rsp) ELSE Released(Rsp))

CanObfuscate(r) ==
  /\ r.headers.label = "none"
  /\ request.method # "HEAD"
  /\ r.encrypt.buffer # <<>>
  /\ r.encrypt.status \in {None, 200}

MarkedHeaders(h) ==
  [h EXCEPT !.length = None, !.tag = IF h.tag = "strong" THEN "weak" ELSE h.tag]

\* responseEncryptMiddleware after the rest: an HTML or JavaScript body gets a
\* token appended, and the headers that described it change.
EncryptFinish ==
  /\ phase = "encrypt"
  /\ Goto("detector")
  /\ Same /\ UNCHANGED produced
  /\ LET marks == CanObfuscate(Rsp) /\ headers.html
         r == IF marks THEN [Rsp EXCEPT !.headers = MarkedHeaders(@)] ELSE Rsp
         s == IF encrypt.status # None THEN FrontHeader(r, encrypt.status) ELSE r
         body == IF marks THEN Append(encrypt.buffer, "mark") ELSE encrypt.buffer
     IN IF ~cfg.encrypt \/ encrypt.passthrough THEN Becomes(Rsp) /\ UNCHANGED outcome
        ELSE Becomes(FrontWrite(s, body)) /\ outcome' = [outcome EXCEPT !.marked = marks]

\* Mutant: the alert is written whether or not a response is under way.
AlertAlways(r) == FrontJson(r, 429, "alert")

Alert(r) == IF r.front.wroteHeader THEN r ELSE FrontJson(r, 429, "alert")

\* behavioralDetectorMiddleware looks at the request once it has been answered.
DetectorFinish ==
  /\ phase = "detector"
  /\ Goto("logging")
  /\ Same /\ UNCHANGED produced
  /\ \/ Becomes(Rsp) /\ UNCHANGED outcome
     \/ cfg.detector /\ Becomes(Alert(Rsp)) /\ outcome' = [outcome EXCEPT !.alerted = TRUE]

\* loggingMiddleware writes its line; then net/http sends what is left to send.
LoggingFinish ==
  /\ phase = "logging"
  /\ outcome' = [outcome EXCEPT !.logged = front.status]
  /\ conn' = ConnHeader(Rsp, 200).conn
  /\ Goto("done")
  /\ Same /\ UNCHANGED <<produced, headers, egress, encrypt, front>>

\* Mutant: the Content-Length of the handler stays.
RecoverStale ==
  /\ phase = "recovery"
  /\ Becomes(ConnWrite(ConnHeader([Rsp EXCEPT !.headers = JsonHeaders(@)], 500), <<"error">>))
  /\ Goto("done")
  /\ Same /\ UNCHANGED <<produced, outcome>>

\* recoveryMiddleware ends the panic; http.Error drops the Content-Length.  The
\* middlewares in between do not run on.
ErrorHeaders(h) == [h EXCEPT !.length = None, !.html = FALSE]
Recover ==
  /\ phase = "recovery"
  /\ Becomes(ConnWrite(ConnHeader([Rsp EXCEPT !.headers = ErrorHeaders(@)], 500), <<"error">>))
  /\ Goto("done")
  /\ Same /\ UNCHANGED <<produced, outcome>>

Next ==
  \/ Refuse
  \/ Begin
  \/ \E n \in 1..Limit + 1 : HandlerWrite(n)
  \/ HandlerReturn
  \/ HandlerPanic
  \/ EgressFinish
  \/ EncryptFinish
  \/ DetectorFinish
  \/ LoggingFinish
  \/ Recover

Spec == Init /\ [][Next]_vars

-----------------------------------------------------------------------------
(* Properties.                                                             *)

Units == {"plain", "leak", "json", "alert", "mark", "error"}
Codes == Statuses \cup {200, 403, 429, 500}
CaptureType == [status : Codes \cup {None}, buffer : BoundedSeq(Units, Limit), passthrough : BOOLEAN]
HeaderType == [length : Nat \cup {None}, label : Codings, tag : {"none", "weak", "strong"}, html : BOOLEAN]

\* Every variable has its type; in particular no capture holds more than Limit.
TypeOK ==
  /\ cfg \in [encrypt : BOOLEAN, egress : BOOLEAN, detector : BOOLEAN]
  /\ request \in Requests
  /\ phase \in {"gates", "handler", "egress", "encrypt", "detector", "logging", "recovery", "done"}
  /\ produced \in 0..Len(request.body)
  /\ headers \in HeaderType
  /\ egress \in CaptureType /\ encrypt \in CaptureType
  /\ front \in [status : Codes, wroteHeader : BOOLEAN]
  /\ conn.status \in Codes \cup {None} /\ conn.headers \in HeaderType /\ conn.sent \in Seq(Units)
  /\ outcome \in [refused : BOOLEAN, denied : BOOLEAN, alerted : BOOLEAN, panicked : BOOLEAN,
                  marked : BOOLEAN, logged : Codes \cup {None}]

Done == phase = "done"
Answered == Done /\ ~outcome.panicked

\* The client gets one whole body: the handler's, that with a mark, or one of
\* the server's own, and never a mixture or a piece.
BodyIsWhole ==
  Answered /\ BodyAllowed(conn.status) =>
    conn.sent \in {request.body, Append(request.body, "mark"), <<"json">>, <<"alert">>}

\* The headers fit the body they went out with: its length, its encoding, and
\* no strong tag on a body that was marked.
HeadersFit ==
  Answered /\ BodyAllowed(conn.status) =>
    /\ conn.headers.length \in {None, Len(conn.sent)}
    /\ conn.headers.label # "none" => conn.sent = request.body
    /\ conn.headers.tag = "strong" => ~outcome.marked

\* Whether the scan can read unit i of a body of which n units are held: all of one that is
\* not compressed; of a gzip body what decodes to no more than Limit, less the n units
\* themselves where the label is missing; nothing of a coding it does not know.
Readable(i, n) ==
  \/ request.coding = "none"
  \/ request.coding = "gzip" /\ i * Expansion + (IF request.label = "gzip" THEN 0 ELSE n) <= Limit

\* A leak that the scan can read, in a response that a capture can hold, is not sent, and
\* one in the first Limit units is recorded, also when the response was too large to
\* withhold.
LeaksAreCaught ==
  LET held == FirstUnits(request.body, Limit)
      caught == \E i \in DOMAIN held : held[i] = "leak" /\ Readable(i, Len(held))
  IN /\ cfg.egress /\ caught /\ Len(request.body) <= Limit => ~Leaks(conn.sent)
     /\ Answered /\ cfg.egress /\ ~outcome.refused /\ caught => outcome.denied

\* What the log says is what the client was sent.
LogIsTrue == Answered => outcome.logged = conn.status

\* A request whose handler panics is answered with status 500 and the error text, however
\* much the handler has written, as long as a capture still holds that.
PanicsAreErrors ==
  Done /\ outcome.panicked /\ (cfg.egress \/ cfg.encrypt) /\ Len(request.body) <= Limit =>
    /\ conn.status = 500
    /\ BodyAllowed(500) => conn.sent = <<"error">>
=============================================================================
