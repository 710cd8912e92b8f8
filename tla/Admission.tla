-------------------------------- MODULE Admission --------------------------------
(***************************************************************************)
(* One connection to a listener of ingress.py, from its accept to its end: *)
(* who speaks first, what the client's first bytes are taken for, what is  *)
(* passed to whom, and a close() of the listener at any step.  What a      *)
(* client sends is one of a few kinds and arrives a part at a time, in     *)
(* parts of any size; a head fits HEAD_LIMIT.                              *)
(***************************************************************************)
EXTENDS Integers

VARIABLES
  client,       (* what it will say, how much has arrived, still open      *)
  atFirst,      (* how much of it the first read held                      *)
  server,       (* what it says unasked, whether it has                    *)
  step,         (* where _accept and _admit are                            *)
  upstream,     (* none, open, or closed                                   *)
  tracked,      (* the upstream is among the listener's transports         *)
  toServer,     (* the client's bytes have been passed on                  *)
  toClient,     (* what the client has been sent                           *)
  listener,     (* open or closed                                          *)
  late          (* ghost: _accept had not begun when the listener closed   *)

vars == <<client, atFirst, server, step, upstream, tracked, toServer, toClient, listener, late>>
peers == <<client, atFirst, server>>
passed == <<toServer, toClient>>
shut == <<listener, late>>

(* How much of what a client says: nothing, a part that does not tell HTTP *)
(* from anything else, the method and its space (or a TLS record's first   *)
(* byte), the whole first line, the whole head or hello.                   *)
NoBytes == 0
Part == 1
Begun == 2
Line == 3
Whole == 4
Amounts == NoBytes..Whole
Anothers == {"other's http", "other's tls"}
Tls == {"own tls", "other's tls"}
Kinds == {"own http", "own tls", "neither"} \union Anothers
Steps == {"accepted", "first", "classify", "connect", "quiet", "race", "raced",
          "greeted", "late", "pump", "ended"}
TypeOK ==
  /\ client \in [kind : Kinds, sent : Amounts, open : BOOLEAN]
  /\ atFirst \in Amounts
  /\ server \in [says : {"http", "else"}, spoke : BOOLEAN]
  /\ step \in Steps /\ upstream \in {"none", "open", "closed"}
  /\ tracked \in BOOLEAN /\ toServer \in BOOLEAN /\ late \in BOOLEAN
  /\ toClient \in {"nothing", "http", "else"} /\ listener \in {"open", "closed"}

Init ==
  /\ \E kind \in Kinds : client = [kind |-> kind, sent |-> NoBytes, open |-> TRUE]
  /\ \E says \in {"http", "else"} : server = [says |-> says, spoke |-> FALSE]
  /\ atFirst = NoBytes /\ step = "accepted" /\ upstream = "none" /\ tracked = FALSE
  /\ toServer = FALSE /\ toClient = "nothing" /\ listener = "open" /\ late = FALSE

-----------------------------------------------------------------------------
ClientSends ==
  /\ client.open
  /\ \E sent \in Amounts :
       /\ sent > client.sent
       /\ client.kind \in Tls => sent \in {Begun, Whole}
       /\ client' = [client EXCEPT !.sent = sent]
  /\ UNCHANGED <<atFirst, server, step, upstream, tracked, passed, shut>>
ClientEnds ==
  /\ client.open
  /\ client' = [client EXCEPT !.open = FALSE]
  /\ UNCHANGED <<atFirst, server, step, upstream, tracked, passed, shut>>
ServerSpeaks ==
  /\ upstream = "open" /\ ~server.spoke
  /\ server' = [server EXCEPT !.spoke = TRUE]
  /\ UNCHANGED <<client, atFirst, step, upstream, tracked, passed, shut>>

-----------------------------------------------------------------------------
(* _accept begins, and waits a second for the client to begin.             *)
AcceptBegins ==
  /\ step = "accepted"
  /\ step' = "first"
  /\ UNCHANGED <<peers, upstream, tracked, passed, shut>>
FirstBytes ==
  /\ step = "first"
  /\ atFirst' = client.sent
  /\ step' = CASE client.sent # NoBytes -> "classify"
               [] client.sent = NoBytes /\ client.open -> "quiet"
               [] OTHER -> "ended"
  /\ UNCHANGED <<client, server, upstream, tracked, passed, shut>>

(* classify goes by the first read: one that does not begin as a request   *)
(* does, or as a TLS record does, is something else at once, whatever      *)
(* follows.  Otherwise it waits for the first line, and then, if that is a *)
(* request's, for its head; for a record, for all of it; or for the        *)
(* client's end.                                                           *)
TooLittle == client.kind \notin Tls /\ atFirst < Begun
Classified ==
  \/ TooLittle \/ ~client.open \/ client.sent = Whole
  \/ client.kind = "neither" /\ client.sent = Line
SomethingElse ==
  \/ TooLittle \/ client.kind = "neither"
  \/ client.kind \notin Tls /\ client.sent < Line
(* A head or a hello is its host's; of one that the client's end cut off,  *)
(* what is left may name anything or nothing.                              *)
CutOff == ~client.open /\ client.sent # Whole
(* The fault to seed: any name will do.                                    *)
AdmitsAnyName == TRUE
Admits == SomethingElse \/ client.kind \notin Anothers \/ CutOff
Refuses == ~SomethingElse /\ (client.kind \in Anothers \/ CutOff)

(* Client first: classified, admitted, and only then is anyone dialled. *)
ClientFirst ==
  /\ step = "classify" /\ Classified
  /\ \/ Admits /\ step' = "connect"
     \/ Refuses /\ step' = "ended"
  /\ UNCHANGED <<peers, upstream, tracked, passed, shut>>
(* The fault to seed: a connection is the listener's once it is admitted.  *)
TracksLater == step = "connect"
Tracks == TRUE
Connect ==
  /\ step \in {"connect", "quiet"}
  /\ upstream' = "open" /\ tracked' = Tracks
  /\ step' = IF step = "connect" THEN "pump" ELSE "race"
  /\ toServer' = (step = "connect")
  /\ UNCHANGED <<peers, toClient, shut>>
DoesNotAnswer ==
  /\ step \in {"connect", "quiet"} /\ step' = "ended"
  /\ UNCHANGED <<peers, upstream, tracked, passed, shut>>

(* A client that said nothing: whichever side speaks first decides, and    *)
(* the client if both do.  What the server said early waits.               *)
Drop == upstream' = "closed" /\ tracked' = FALSE /\ step' = "ended"
PassesEarly == FALSE
RaceToClient ==
  /\ step = "race" /\ (client.sent # NoBytes \/ ~client.open)
  /\ atFirst' = client.sent
  /\ IF client.sent = NoBytes THEN Drop /\ UNCHANGED passed
     ELSE /\ step' = "raced" /\ UNCHANGED <<upstream, tracked, toServer>>
          /\ toClient' = IF PassesEarly THEN server.says ELSE toClient
  /\ UNCHANGED <<client, server, shut>>
RaceClassified ==
  /\ step = "raced" /\ Classified
  /\ \/ /\ Admits /\ step' = "pump" /\ toServer' = TRUE
        /\ toClient' = IF server.spoke THEN server.says ELSE toClient
        /\ UNCHANGED <<upstream, tracked>>
     \/ Refuses /\ Drop /\ UNCHANGED passed
  /\ UNCHANGED <<peers, shut>>

(* The server's greeting is passed on unless it looks like a response, and *)
(* from then on what it says flows; the client may only speak what is      *)
(* taken for neither HTTP nor TLS.                                         *)
Greeting ==
  /\ step = "race" /\ server.spoke /\ client.sent = NoBytes /\ client.open
  /\ IF server.says = "http" THEN Drop /\ UNCHANGED passed
     ELSE step' = "greeted" /\ toClient' = "else" /\ UNCHANGED <<upstream, tracked, toServer>>
  /\ UNCHANGED <<peers, shut>>
Answer ==
  /\ step = "greeted" /\ (client.sent # NoBytes \/ ~client.open)
  /\ atFirst' = client.sent
  /\ IF client.sent = NoBytes THEN Drop
     ELSE step' = "late" /\ UNCHANGED <<upstream, tracked>>
  /\ UNCHANGED <<client, server, passed, shut>>
AnswerClassified ==
  /\ step = "late" /\ Classified
  /\ IF SomethingElse
     THEN step' = "pump" /\ toServer' = TRUE /\ UNCHANGED <<upstream, tracked, toClient>>
     ELSE Drop /\ UNCHANGED passed
  /\ UNCHANGED <<peers, shut>>

(* Ten seconds are over, and the head is not: _accept closes the client,   *)
(* and knows of no upstream.                                               *)
TooSlow ==
  /\ step \in {"classify", "raced", "late"} /\ ~Classified
  /\ step' = "ended"
  /\ UNCHANGED <<peers, upstream, tracked, passed, shut>>

(* Both ways, until either side has ended. *)
PumpToClient ==
  /\ step = "pump" /\ server.spoke /\ toClient = "nothing"
  /\ toClient' = server.says
  /\ UNCHANGED <<peers, step, upstream, tracked, toServer, shut>>
PumpEnds ==
  /\ step = "pump"
  /\ Drop
  /\ UNCHANGED <<peers, passed, shut>>

(* close(): every transport it knows of is aborted, every task cancelled.  *)
ListenerCloses ==
  /\ listener = "open" /\ listener' = "closed"
  /\ late' = (step = "accepted")
  /\ step' = IF step = "accepted" THEN step ELSE "ended"
  /\ upstream' = IF tracked THEN "closed" ELSE upstream
  /\ UNCHANGED <<peers, tracked, passed>>

Next ==
  \/ ClientSends \/ ClientEnds \/ ServerSpeaks
  \/ AcceptBegins \/ FirstBytes \/ ClientFirst \/ Connect \/ DoesNotAnswer
  \/ RaceToClient \/ RaceClassified \/ Greeting \/ Answer \/ AnswerClassified
  \/ TooSlow \/ PumpToClient \/ PumpEnds \/ ListenerCloses

Spec == Init /\ [][Next]_vars

-----------------------------------------------------------------------------
(* By no order of the two sides' first words does a request, or a hello,   *)
(* that names another's host reach this port's server, if its sender       *)
(* writes its method at once (ingress.py:249: a browser "writes its        *)
(* request head at once") and does not end half way.                       *)
NothingMisdirected ==
  toServer /\ client.kind \in Anothers => (client.kind \notin Tls /\ atFirst = Part) \/ CutOff

(* The same of every client, as ingress.py:49-51 has it ("before a byte    *)
(* goes either way: an HTTP/1.x request must carry one Host").  A request  *)
(* whose first read is less than a method and a space is passed on.        *)
NothingReachesAnother == toServer => client.kind \notin Anothers

(* Once its listener is closed, a connection has no upstream: at whatever  *)
(* step of its admission the close came, if it had begun.                  *)
CloseReachesAll == listener = "closed" /\ ~late => step = "ended" /\ upstream # "open"

(* A connection that has ended has no upstream.                            *)
NoUpstreamLeft == step = "ended" => upstream # "open"
=============================================================================
