------------------------------- MODULE ApiProofs -------------------------------
(***************************************************************************)
(* Proofs about Api, for every number of requests, sockets, events and     *)
(* restarts, and every set of addresses, spellings and passwords.          *)
(***************************************************************************)
EXTENDS Api, FiniteSetTheorems, TLAPS

Outcomes == {"ok", "refused", "failed", "unacked", "left"}

\* Where a call can be: only a request has a body and is answered, only a socket
\* waits for a next event, a call has neither a status nor a second event before
\* its handler has run, and a socket that is audited has a status.
PlaceOK(c) ==
    /\ c \in Requests => call[c].pc \notin {"idle", "gone"} /\ call[c].n = 0
    /\ c \in Requests /\ call[c].pc = "auth" => call[c].route = "op"
    /\ c \in Requests /\ call[c].pc = "body" =>
           call[c].route \in OpenRoutes \cup {"op"}
    /\ c \in Sockets => call[c].pc \notin {"body", "done"}
    /\ c \in Sockets /\ call[c].pc = "busy" => call[c].route = "op"
    /\ c \in Sockets /\ call[c].pc \in {"audit", "idle"} => call[c].status # "none"
    /\ call[c].pc = "busy" /\ call[c].route \in OpenRoutes =>
           call[c].email \in Emails
    /\ call[c].pc \in {"new", "body", "auth"} => call[c].n = 0
    /\ call[c].pc \in {"new", "body", "auth", "busy"} => call[c].status = "none"

PlaceInv == \A c \in Calls : PlaceOK(c)

TypeInv == TypeOK /\ PlaceInv

LEMMA NewCallType ==
    /\ NewCall \in CallRecords
    /\ NewCall.pc = "new" /\ NewCall.n = 0 /\ NewCall.status = "none"
    /\ NewCall.actor = None /\ NewCall.route = None
  BY ApiAssumption DEF NewCall, CallRecords

\* A request that the Authenticator turns away.
LEMMA RefusedType ==
    ASSUME NEW o \in BOOLEAN
    PROVE  LET y == [NewCall EXCEPT !.pc = "audit", !.status = "refused", !.over = o]
           IN  /\ y \in CallRecords /\ y.pc = "audit" /\ y.status = "refused"
               /\ y.n = 0
  <1>1. "audit" \in {"new", "body", "auth", "busy", "audit", "idle", "done", "gone", "lost"}
    OBVIOUS
  <1> QED
    BY <1>1, NewCallType DEF CallRecords

LEMMA NotBoth == \A c \in Calls : c \in Requests <=> c \notin Sockets
  BY ApiAssumption DEF Calls

LEMMA MapErrorType ==
    ASSUME NEW o \in Outcomes
    PROVE  /\ MapError(o) \in {"ok", "refused", "error"}
           /\ MapError(o) = "ok" <=> o = "ok"
           /\ MapError(o) = "refused" <=> o = "refused"
  BY DEF Outcomes, MapError

\* What is kept of a call: always its event and its player, and of one that
\* succeeded what it asked for.
LEMMA KeptType ==
    ASSUME TypeOK, NEW c \in Calls, NEW s
    PROVE  /\ Kept(c, s) \in CallRecords
           /\ Kept(c, s).n = call[c].n /\ Kept(c, s).actor = call[c].actor
           /\ Kept(c, s).status \in {call[c].status, "none"}
           /\ s = "ok" => Kept(c, s) = call[c]
  <1>1. call[c] \in CallRecords
    BY DEF TypeOK
  <1>2. PICK b \in BOOLEAN : b = call[c].over
    BY <1>1 DEF CallRecords
  <1>3. CASE s = "ok"
    BY <1>1, <1>3 DEF Kept
  <1>4. CASE s # "ok"
    <2>1. Kept(c, s) = [NewCall EXCEPT !.actor = call[c].actor, !.n = call[c].n,
                                       !.over = b]
      BY <1>2, <1>4, Zenon DEF Kept
    <2> QED
      BY <1>1, <1>4, <2>1, NewCallType DEF CallRecords
  <1> QED
    BY <1>3, <1>4

LEMMA OverType ==
    ASSUME TypeOK, NEW c \in Calls, NEW pc \in {"done", "gone", "lost"}
    PROVE  /\ Over(c, pc) \in CallRecords
           /\ Over(c, pc).pc = pc /\ Over(c, pc).status = call[c].status
           /\ Over(c, pc).n = call[c].n /\ Over(c, pc).actor = call[c].actor
           /\ call[c].status = "ok" =>
                 /\ Over(c, pc).route = call[c].route
                 /\ Over(c, pc).email = call[c].email
                 /\ Over(c, pc).pw = call[c].pw
  <1>1. call[c].status \in {"none", "ok", "refused", "error"}
    BY DEF TypeOK, CallRecords
  <1> DEFINE x == Kept(c, call[c].status)
  <1>2. /\ x \in CallRecords /\ x.n = call[c].n /\ x.actor = call[c].actor
        /\ call[c].status = "ok" => x = call[c]
    BY KeptType
  <1> DEFINE y == [x EXCEPT !.pc = pc, !.status = call[c].status, !.over = FALSE]
  <1>3. Over(c, pc) = y
    BY DEF Over
  <1> HIDE DEF x
  <1>4. /\ y \in CallRecords /\ y.pc = pc /\ y.status = call[c].status
        /\ y.n = x.n /\ y.actor = x.actor /\ y.route = x.route
        /\ y.email = x.email /\ y.pw = x.pw
    BY <1>1, <1>2 DEF CallRecords
  <1> HIDE DEF y
  <1> QED
    BY <1>2, <1>3, <1>4

\* One call gets a new record; the others keep theirs.
LEMMA OneCall ==
    ASSUME TypeOK, NEW c \in Calls, NEW x \in CallRecords, call' = [call EXCEPT ![c] = x]
    PROVE  /\ call' \in [Calls -> CallRecords]
           /\ call'[c] = x
           /\ \A d \in Calls : d # c => call'[d] = call[d]
  BY DEF TypeOK

LEMMA ReturnKeeps ==
    ASSUME TypeOK, NEW c \in Calls, NEW o \in Outcomes, Return(c, o)
    PROVE  /\ call' \in [Calls -> CallRecords]
           /\ \A d \in Calls : d # c => call'[d] = call[d]
           /\ call'[c].pc = "audit" /\ call'[c].status = MapError(o)
           /\ call'[c].n = call[c].n /\ call'[c].actor = call[c].actor
           /\ o = "ok" => /\ call'[c].route = call[c].route
                          /\ call'[c].email = call[c].email
                          /\ call'[c].pw = call[c].pw
  <1> DEFINE x == Kept(c, MapError(o))
             y == [x EXCEPT !.status = MapError(o), !.pc = "audit"]
  <1>1. /\ x \in CallRecords /\ x.n = call[c].n /\ x.actor = call[c].actor
        /\ o = "ok" => x = call[c]
    BY KeptType, MapErrorType
  <1>2. call' = [call EXCEPT ![c] = y]
    BY DEF Return
  <1>3. MapError(o) \in {"none", "ok", "refused", "error"}
    BY MapErrorType
  <1> HIDE DEF x
  <1>4. /\ y \in CallRecords /\ y.pc = "audit" /\ y.status = MapError(o)
        /\ y.n = x.n /\ y.actor = x.actor /\ y.route = x.route
        /\ y.email = x.email /\ y.pw = x.pw
    BY <1>1, <1>3 DEF CallRecords
  <1> HIDE DEF y
  <1> QED
    BY <1>1, <1>2, <1>4, OneCall

\* What follows an audit write, by what the call is.
LEMMA AuditedKeeps ==
    ASSUME TypeInv, NEW c \in Calls, call' = [call EXCEPT ![c] = Audited(c)]
    PROVE  /\ call' \in [Calls -> CallRecords]
           /\ \A d \in Calls : d # c => call'[d] = call[d]
           /\ c \in Requests => call'[c].pc = "done"
           /\ c \in Sockets => call'[c].pc \in {"gone", "idle"}
           /\ call'[c].status = call[c].status
           /\ call'[c].n = call[c].n /\ call'[c].actor = call[c].actor
           /\ call[c].status = "ok" /\ c \in Requests =>
                 /\ call'[c].route = call[c].route
                 /\ call'[c].email = call[c].email
                 /\ call'[c].pw = call[c].pw
  <1>1. TypeOK
    BY DEF TypeInv
  <1>2. CASE c \in Requests
    <2>1. Audited(c) = Over(c, "done")
      BY <1>2, NotBoth DEF Audited
    <2>2. Over(c, "done") \in CallRecords
      BY <1>1, OverType
    <2>3. /\ call' \in [Calls -> CallRecords] /\ call'[c] = Over(c, "done")
          /\ \A d \in Calls : d # c => call'[d] = call[d]
      BY <1>1, <2>1, <2>2, OneCall
    <2> QED
      BY <1>1, <1>2, <2>3, OverType, NotBoth
  <1>3. CASE c \in Sockets /\ call[c].actor = None
    <2>1. Audited(c) = Over(c, "gone")
      BY <1>3, NotBoth DEF Audited
    <2>2. Over(c, "gone") \in CallRecords
      BY <1>1, OverType
    <2>3. /\ call' \in [Calls -> CallRecords] /\ call'[c] = Over(c, "gone")
          /\ \A d \in Calls : d # c => call'[d] = call[d]
      BY <1>1, <2>1, <2>2, OneCall
    <2> QED
      BY <1>1, <1>3, <2>3, OverType, NotBoth
  <1>4. CASE c \in Sockets /\ call[c].actor # None
    <2> DEFINE y == [call[c] EXCEPT !.pc = "idle", !.route = None, !.over = FALSE]
    <2>1. Audited(c) = y
      BY <1>4, NotBoth DEF Audited
    <2>2. /\ y \in CallRecords /\ y.pc = "idle" /\ y.status = call[c].status
          /\ y.n = call[c].n /\ y.actor = call[c].actor
      BY <1>1 DEF TypeOK, CallRecords
    <2> HIDE DEF y
    <2>3. /\ call' \in [Calls -> CallRecords] /\ call'[c] = y
          /\ \A d \in Calls : d # c => call'[d] = call[d]
      BY <1>1, <2>1, <2>2, OneCall
    <2> QED
      BY <1>4, <2>2, <2>3, NotBoth
  <1> QED
    BY <1>2, <1>3, <1>4 DEF Calls

\* A request that has come in: nothing is known of its caller yet ...
LEMMA ArriveKeeps ==
    ASSUME TypeOK, NEW c \in Requests, NEW route \in {"register", "login", "op"},
           NEW b \in Players \cup {None}, Arrive(c, route, b)
    PROVE  /\ call' \in [Calls -> CallRecords]
           /\ \A d \in Calls : d # c => call'[d] = call[d]
           /\ call'[c].pc = "body" /\ call'[c].route = route
           /\ call'[c].status = "none" /\ call'[c].n = 0 /\ call'[c].actor = None
  <1> DEFINE y == [NewCall EXCEPT !.route = route, !.bearer = b, !.pc = "body"]
  <1>1. call' = [call EXCEPT ![c] = y]
    BY DEF Arrive
  <1>2. /\ y \in CallRecords /\ y.pc = "body" /\ y.route = route
        /\ y.status = "none" /\ y.n = 0 /\ y.actor = None
    BY NewCallType DEF CallRecords
  <1> HIDE DEF y
  <1> QED
    BY <1>1, <1>2, OneCall DEF Calls

\* ... and its body.
LEMMA ReadBodyKeeps ==
    ASSUME TypeInv, NEW c \in Requests, NEW e \in Emails,
           NEW pw \in Passwords \cup {None}, ReadBody(c, e, pw)
    PROVE  /\ call' \in [Calls -> CallRecords]
           /\ \A d \in Calls : d # c => call'[d] = call[d]
           /\ call'[c].pc \in {"busy", "auth"} /\ call'[c].route = call[c].route
           /\ call'[c].pc = "auth" => call[c].route = "op"
           /\ call'[c].pc = "busy" => call'[c].email = e
           /\ call'[c].status = "none" /\ call'[c].n = 0
           /\ call'[c].actor = call[c].actor
  <1>0. /\ c \in Calls /\ call[c] \in CallRecords /\ TypeOK
        /\ call[c].status = "none" /\ call[c].n = 0
        /\ call[c].route \in OpenRoutes \cup {"op"}
    BY DEF Calls, TypeInv, TypeOK, PlaceInv, PlaceOK, ReadBody
  <1>1. CASE call[c].route \in OpenRoutes
    <2> DEFINE y == [call[c] EXCEPT !.email = e, !.pw = pw, !.pc = "busy"]
    <2>1. call' = [call EXCEPT ![c] = y]
      BY <1>0, <1>1 DEF ReadBody, TypeOK
    <2>2. /\ y \in CallRecords /\ y.pc = "busy" /\ y.route = call[c].route
          /\ y.email = e /\ y.status = "none" /\ y.n = 0 /\ y.actor = call[c].actor
      BY <1>0 DEF CallRecords
    <2> HIDE DEF y
    <2> QED
      BY <1>0, <2>1, <2>2, OneCall
  <1>2. CASE call[c].route \notin OpenRoutes
    <2> DEFINE y == [call[c] EXCEPT !.pc = "auth"]
    <2>1. call' = [call EXCEPT ![c] = y]
      BY <1>0, <1>2 DEF ReadBody, TypeOK
    <2>2. /\ y \in CallRecords /\ y.pc = "auth" /\ y.route = call[c].route
          /\ y.status = "none" /\ y.n = 0 /\ y.actor = call[c].actor
      BY <1>0 DEF CallRecords
    <2>3. call[c].route = "op"
      BY <1>0, <1>2 DEF CallRecords, OpenRoutes
    <2> HIDE DEF y
    <2> QED
      BY <1>0, <2>1, <2>2, <2>3, OneCall
  <1> QED
    BY <1>1, <1>2

\* Authenticator, either way.
LEMMA AuthenticateKeeps ==
    ASSUME TypeOK, NEW c \in Requests, NEW expired \in BOOLEAN, Authenticate(c, expired)
    PROVE  /\ call' \in [Calls -> CallRecords]
           /\ \A d \in Calls : d # c => call'[d] = call[d]
           /\ \/ /\ call'[c].pc = "busy" /\ call'[c].status = call[c].status
                 /\ call'[c].route = call[c].route /\ call'[c].email = call[c].email
                 /\ call'[c].n = call[c].n
              \/ /\ call'[c].pc = "audit" /\ call'[c].status = "refused"
                 /\ call'[c].n = 0
  <1>0. c \in Calls /\ call[c] \in CallRecords
    BY DEF Calls, TypeOK
  <1>1. CASE Verify(call[c].bearer, expired)
    <2> DEFINE y == [call[c] EXCEPT !.pc = "busy", !.actor = call[c].bearer,
                                    !.bearer = None]
    <2>1. call' = [call EXCEPT ![c] = y]
      BY <1>0, <1>1 DEF Authenticate, TypeOK
    <2>2. call[c].bearer \in Players
      BY <1>1 DEF Verify, TypeOK
    <2>3. /\ y \in CallRecords /\ y.pc = "busy" /\ y.status = call[c].status
          /\ y.route = call[c].route /\ y.email = call[c].email /\ y.n = call[c].n
      BY <1>0, <2>2 DEF CallRecords
    <2> HIDE DEF y
    <2> QED
      BY <1>0, <2>1, <2>3, OneCall
  <1>2. CASE ~Verify(call[c].bearer, expired)
    <2> DEFINE y == [NewCall EXCEPT !.pc = "audit", !.status = "refused",
                                    !.over = call[c].over]
    <2>1. call' = [call EXCEPT ![c] = y]
      BY <1>0, <1>2 DEF Authenticate, TypeOK
    <2>2. call[c].over \in BOOLEAN
      BY <1>0 DEF CallRecords
    <2>3. /\ y \in CallRecords /\ y.pc = "audit" /\ y.status = "refused" /\ y.n = 0
      BY <2>2, RefusedType
    <2> HIDE DEF y
    <2> QED
      BY <1>0, <2>1, <2>3, OneCall
  <1> QED
    BY <1>1, <1>2

\* The handler panicked.
LEMMA PanicKeeps ==
    ASSUME TypeOK, NEW c \in Calls, NEW effect \in BOOLEAN, Panic(c, effect)
    PROVE  /\ call' \in [Calls -> CallRecords]
           /\ \A d \in Calls : d # c => call'[d] = call[d]
           /\ call'[c].status \in {call[c].status, "none"}
           /\ call'[c].n = call[c].n /\ call'[c].actor = call[c].actor
           /\ c \in Requests => call'[c].pc = "audit"
           /\ c \in Sockets => call'[c].pc = "gone"
  <1>1. CASE c \in Requests
    <2> DEFINE x == Kept(c, "none")
               y == [x EXCEPT !.pc = "audit"]
    <2>1. call' = [call EXCEPT ![c] = y]
      BY <1>1 DEF Panic
    <2>2. /\ x \in CallRecords /\ x.n = call[c].n /\ x.actor = call[c].actor
          /\ x.status \in {call[c].status, "none"}
      BY KeptType
    <2> HIDE DEF x
    <2>3. /\ y \in CallRecords /\ y.pc = "audit" /\ y.n = x.n /\ y.actor = x.actor
          /\ y.status = x.status
      BY <2>2 DEF CallRecords
    <2> HIDE DEF y
    <2> QED
      BY <1>1, <2>1, <2>2, <2>3, OneCall, NotBoth
  <1>2. CASE c \in Sockets
    <2>1. call' = [call EXCEPT ![c] = Over(c, "gone")]
      BY <1>2, NotBoth DEF Panic
    <2>2. Over(c, "gone") \in CallRecords
      BY OverType
    <2>3. /\ call' \in [Calls -> CallRecords] /\ call'[c] = Over(c, "gone")
          /\ \A d \in Calls : d # c => call'[d] = call[d]
      BY <2>1, <2>2, OneCall
    <2> QED
      BY <1>2, <2>3, OverType, NotBoth
  <1> QED
    BY <1>1, <1>2 DEF Calls

LEMMA ContextKeeps ==
    ASSUME TypeOK, NEW c \in Calls, ContextEnds(c)
    PROVE  /\ call' \in [Calls -> CallRecords]
           /\ \A d \in Calls :
                 /\ call'[d].pc = call[d].pc /\ call'[d].status = call[d].status
                 /\ call'[d].n = call[d].n /\ call'[d].actor = call[d].actor
                 /\ call'[d].route = call[d].route /\ call'[d].email = call[d].email
                 /\ call'[d].pw = call[d].pw
  <1> DEFINE y == [call[c] EXCEPT !.over = TRUE]
  <1>1. call' = [call EXCEPT ![c] = y]
    BY DEF ContextEnds, TypeOK
  <1>2. /\ y \in CallRecords /\ y.pc = call[c].pc /\ y.status = call[c].status
        /\ y.n = call[c].n /\ y.actor = call[c].actor
        /\ y.route = call[c].route /\ y.email = call[c].email /\ y.pw = call[c].pw
    BY DEF TypeOK, CallRecords
  <1> HIDE DEF y
  <1> QED
    BY <1>1, <1>2, OneCall

\* The two ends of a handshake: the token was accepted ...
LEMMA AcceptKeeps ==
    ASSUME TypeOK, NEW s \in Sockets, NEW p \in Players, Accept(s, p)
    PROVE  /\ call' \in [Calls -> CallRecords]
           /\ \A d \in Calls : d # s => call'[d] = call[d]
           /\ call'[s].pc = "audit" /\ call'[s].status = "ok" /\ call'[s].n = 0
  <1> DEFINE y == [NewCall EXCEPT !.pc = "audit", !.actor = p, !.status = "ok"]
  <1>1. call' = [call EXCEPT ![s] = y]
    BY DEF Accept
  <1>2. y \in CallRecords /\ y.pc = "audit" /\ y.status = "ok" /\ y.n = 0
    BY NewCallType DEF CallRecords
  <1> HIDE DEF y
  <1> QED
    BY <1>1, <1>2, OneCall DEF Calls

\* ... or it was not.
LEMMA RejectKeeps ==
    ASSUME TypeOK, NEW s \in Sockets, Reject(s)
    PROVE  /\ call' \in [Calls -> CallRecords]
           /\ \A d \in Calls : d # s => call'[d] = call[d]
           /\ call'[s].pc = "audit" /\ call'[s].status = "refused" /\ call'[s].n = 0
  <1> DEFINE y == [NewCall EXCEPT !.pc = "audit", !.status = "refused"]
  <1>1. call' = [call EXCEPT ![s] = y]
    BY DEF Reject
  <1>2. y \in CallRecords /\ y.pc = "audit" /\ y.status = "refused" /\ y.n = 0
    BY NewCallType DEF CallRecords
  <1> HIDE DEF y
  <1> QED
    BY <1>1, <1>2, OneCall DEF Calls

\* A connection that is waiting for its first message, or could not be upgraded.
LEMMA PlainKeeps ==
    ASSUME TypeOK, NEW s \in Sockets, NEW pc \in {"auth", "gone"},
           call' = [call EXCEPT ![s].pc = pc]
    PROVE  /\ call' \in [Calls -> CallRecords]
           /\ \A d \in Calls : d # s => call'[d] = call[d]
           /\ call'[s].pc = pc /\ call'[s].status = call[s].status
           /\ call'[s].n = call[s].n /\ call'[s].actor = call[s].actor
  <1> DEFINE y == [call[s] EXCEPT !.pc = pc]
  <1>0. s \in Calls
    BY DEF Calls
  <1>1. call' = [call EXCEPT ![s] = y]
    BY <1>0 DEF TypeOK
  <1>2. /\ y \in CallRecords /\ y.pc = pc /\ y.status = call[s].status
        /\ y.n = call[s].n /\ y.actor = call[s].actor
    BY <1>0 DEF TypeOK, CallRecords
  <1> HIDE DEF y
  <1> QED
    BY <1>0, <1>1, <1>2, OneCall

LEMMA EventKeeps ==
    ASSUME TypeOK, NEW s \in Sockets, Event(s)
    PROVE  /\ call' \in [Calls -> CallRecords]
           /\ \A d \in Calls : d # s => call'[d] = call[d]
           /\ call'[s].pc = "busy" /\ call'[s].status = "none"
           /\ call'[s].route = "op" /\ call'[s].n = call[s].n + 1
           /\ call'[s].actor = call[s].actor
  <1> DEFINE m == call[s].n + 1
             y == [call[s] EXCEPT !.pc = "busy", !.route = "op", !.n = m,
                                  !.status = "none"]
  <1>0. s \in Calls /\ call[s] \in CallRecords
    BY DEF Calls, TypeOK
  <1>1. call' = [call EXCEPT ![s] = y]
    BY <1>0 DEF TypeOK, Event
  <1>3. m \in 0..MaxEvents
    BY <1>0, ApiAssumption DEF CallRecords, Event
  <1> HIDE DEF m
  <1>2. /\ y \in CallRecords /\ y.pc = "busy" /\ y.status = "none"
        /\ y.route = "op" /\ y.n = m /\ y.actor = call[s].actor
    BY <1>0, <1>3 DEF CallRecords
  <1> HIDE DEF y
  <1> QED
    BY <1>0, <1>1, <1>2, OneCall DEF m

LEMMA DisconnectKeeps ==
    ASSUME TypeOK, NEW s \in Sockets, Disconnect(s)
    PROVE  /\ call' \in [Calls -> CallRecords]
           /\ \A d \in Calls : d # s => call'[d] = call[d]
           /\ call'[s].pc = "gone" /\ call'[s].status = call[s].status
           /\ call'[s].n = call[s].n /\ call'[s].actor = call[s].actor
  <1>0. s \in Calls
    BY DEF Calls
  <1>1. /\ Over(s, "gone") \in CallRecords
        /\ call' = [call EXCEPT ![s] = Over(s, "gone")]
    BY <1>0, OverType DEF Disconnect
  <1>2. /\ call' \in [Calls -> CallRecords] /\ call'[s] = Over(s, "gone")
        /\ \A d \in Calls : d # s => call'[d] = call[d]
    BY <1>0, <1>1, OneCall
  <1> QED
    BY <1>0, <1>2, OverType

\* The calls that were in progress are lost, the others stay as they ended.
LEMMA CrashKeeps ==
    ASSUME TypeOK, Crash
    PROVE  /\ call' \in [Calls -> CallRecords]
           /\ \A c \in Calls :
                 IF call[c].pc \in {"body", "auth", "busy", "audit", "idle"}
                 THEN /\ call'[c].pc = "lost" /\ call'[c].status = call[c].status
                      /\ call'[c].n = call[c].n /\ call'[c].actor = call[c].actor
                      /\ call[c].status = "ok" =>
                            /\ call'[c].route = call[c].route
                            /\ call'[c].email = call[c].email
                            /\ call'[c].pw = call[c].pw
                 ELSE call'[c] = call[c]
  <1>1. ASSUME NEW c \in Calls
        PROVE  /\ Over(c, "lost") \in CallRecords /\ call[c] \in CallRecords
               /\ call'[c] = IF call[c].pc \in {"body", "auth", "busy", "audit", "idle"}
                             THEN Over(c, "lost") ELSE call[c]
    BY OverType DEF Crash, TypeOK
  <1>2. call' \in [Calls -> CallRecords]
    BY <1>1 DEF Crash
  <1> QED
    BY <1>1, <1>2, OverType
-----------------------------------------------------------------------------
LEMMA PlaceStep ==
    ASSUME PlaceInv, NEW c \in Calls, PlaceOK(c)',
           \A d \in Calls : d # c => call'[d] = call[d]
    PROVE  PlaceInv'
  BY DEF PlaceInv, PlaceOK

\* What an operation that returns does to the type.
LEMMA ReturnType ==
    ASSUME TypeInv, NEW c \in Calls, NEW o \in Outcomes, Return(c, o),
           call[c].pc = "busy"
    PROVE  /\ call' \in [Calls -> CallRecords] /\ PlaceInv'
           /\ done' \subseteq Calls \X (0..MaxEvents)
  <1>1. call[c].n \in 0..MaxEvents
    BY DEF TypeInv, TypeOK, CallRecords
  <1>2. done' \subseteq Calls \X (0..MaxEvents)
    BY <1>1 DEF Return, TypeInv, TypeOK
  <1>3. /\ call' \in [Calls -> CallRecords]
        /\ \A d \in Calls : d # c => call'[d] = call[d]
        /\ call'[c].pc = "audit" /\ call'[c].n = call[c].n
        /\ call'[c].status # "none"
    BY ReturnKeeps, MapErrorType DEF TypeInv
  <1>4. PlaceOK(c)'
    BY <1>3 DEF TypeInv, PlaceInv, PlaceOK
  <1> QED
    BY <1>2, <1>3, <1>4, PlaceStep DEF TypeInv

\* opErr, and so the entry, by the status of the call.
LEMMA EntryType ==
    ASSUME TypeOK, NEW c \in Calls
    PROVE  /\ Entry(c) \in Entries
           /\ Entry(c).n = call[c].n /\ Entry(c).actor = call[c].actor
           /\ Entry(c).error = "nil" <=> call[c].status \in {"none", "ok"}
           /\ Entry(c).error = "refused" <=> call[c].status = "refused"
  BY DEF TypeOK, CallRecords, Entry, Entries, OpErr

LEMMA TypeInvStep ==
    ASSUME TypeInv, [Next]_vars
    PROVE  TypeInv'
  <1> USE DEF vars, dbVars, logVars
  <1>0. TypeOK /\ PlaceInv
    BY DEF TypeInv
  <1>1. CASE UNCHANGED vars
    BY <1>1 DEF TypeInv, TypeOK, PlaceInv, PlaceOK
  <1>2. ASSUME NEW c \in Requests, NEW route \in {"register", "login", "op"},
               NEW b \in Players \cup {None}, Arrive(c, route, b)
        PROVE  TypeInv'
    <2>1. /\ call' \in [Calls -> CallRecords]
          /\ \A d \in Calls : d # c => call'[d] = call[d]
          /\ call'[c].pc = "body" /\ call'[c].route = route
          /\ call'[c].status = "none" /\ call'[c].n = 0
      BY <1>0, <1>2, ArriveKeeps
    <2>2. route \in OpenRoutes \cup {"op"}
      BY DEF OpenRoutes
    <2>3. PlaceOK(c)'
      BY <1>2, <2>1, <2>2, NotBoth DEF PlaceOK, Calls
    <2> QED
      BY <1>0, <1>2, <2>1, <2>3, PlaceStep DEF Arrive, TypeInv, TypeOK, Calls
  <1>b. ASSUME NEW c \in Requests, NEW e \in Emails, NEW pw \in Passwords \cup {None},
               ReadBody(c, e, pw)
        PROVE  TypeInv'
    <2>1. /\ call' \in [Calls -> CallRecords]
          /\ \A d \in Calls : d # c => call'[d] = call[d]
          /\ call'[c].pc \in {"busy", "auth"} /\ call'[c].route = call[c].route
          /\ call'[c].pc = "auth" => call[c].route = "op"
          /\ call'[c].pc = "busy" => call'[c].email = e
          /\ call'[c].status = "none" /\ call'[c].n = 0
      BY <1>b, ReadBodyKeeps
    <2>2. PlaceOK(c)'
      BY <2>1, NotBoth DEF PlaceOK, Calls
    <2> QED
      BY <1>0, <1>b, <2>1, <2>2, PlaceStep DEF ReadBody, TypeInv, TypeOK, Calls
  <1>3. ASSUME NEW c \in Requests, NEW expired \in BOOLEAN, Authenticate(c, expired)
        PROVE  TypeInv'
    <2>1. /\ call' \in [Calls -> CallRecords]
          /\ \A d \in Calls : d # c => call'[d] = call[d]
          /\ call'[c].pc \in {"busy", "audit"} /\ call'[c].n \in {0, call[c].n}
          /\ call'[c].pc = "busy" => call'[c].status = call[c].status
          /\ call'[c].pc = "busy" => call'[c].route = call[c].route
          /\ call'[c].pc = "busy" => call'[c].email = call[c].email
      BY <1>0, <1>3, AuthenticateKeeps
    <2>2. PlaceOK(c)'
      BY <1>0, <1>3, <2>1, NotBoth DEF PlaceOK, PlaceInv, Calls, Authenticate,
         OpenRoutes
    <2> QED
      BY <1>0, <1>3, <2>1, <2>2, PlaceStep DEF Authenticate, TypeInv, TypeOK, Calls
  <1>4. ASSUME NEW s \in Sockets, NEW p \in Players, Accept(s, p),
               UNCHANGED <<accounts, issued, left, logVars, crashes>>
        PROVE  TypeInv'
    <2>1. /\ call' \in [Calls -> CallRecords]
          /\ \A d \in Calls : d # s => call'[d] = call[d]
          /\ call'[s].pc = "audit" /\ call'[s].n = 0 /\ call'[s].status = "ok"
      BY <1>0, <1>4, AcceptKeeps
    <2>2. PlaceOK(s)'
      BY <2>1 DEF PlaceOK
    <2>3. done' \subseteq Calls \X (0..MaxEvents)
      BY <1>0, <1>4, ApiAssumption DEF Accept, TypeOK, Calls
    <2> QED
      BY <1>0, <1>4, <2>1, <2>2, <2>3, PlaceStep DEF TypeInv, TypeOK, Calls
  <1>5. ASSUME NEW s \in Sockets, Reject(s),
               UNCHANGED <<accounts, issued, left, logVars, crashes>>
        PROVE  TypeInv'
    <2>1. /\ call' \in [Calls -> CallRecords]
          /\ \A d \in Calls : d # s => call'[d] = call[d]
          /\ call'[s].pc = "audit" /\ call'[s].n = 0 /\ call'[s].status = "refused"
      BY <1>0, <1>5, RejectKeeps
    <2>2. PlaceOK(s)'
      BY <2>1 DEF PlaceOK
    <2> QED
      BY <1>0, <1>5, <2>1, <2>2, PlaceStep DEF Reject, TypeInv, TypeOK, Calls
  <1>6. ASSUME NEW s \in Sockets, NEW pc \in {"auth", "gone"}, call[s].pc = "new",
               call' = [call EXCEPT ![s].pc = pc],
               UNCHANGED <<dbVars, left, logVars, crashes>>
        PROVE  TypeInv'
    <2>1. /\ call' \in [Calls -> CallRecords]
          /\ \A d \in Calls : d # s => call'[d] = call[d]
          /\ call'[s].pc = pc /\ call'[s].status = call[s].status
          /\ call'[s].n = call[s].n
      BY <1>0, <1>6, PlainKeeps
    <2>2. PlaceOK(s)'
      BY <1>0, <1>6, <2>1, NotBoth DEF PlaceOK, PlaceInv, Calls
    <2> QED
      BY <1>0, <1>6, <2>1, <2>2, PlaceStep DEF TypeInv, TypeOK, Calls
  <1>7. ASSUME NEW s \in Sockets, NEW b \in Bearers, NEW expired \in BOOLEAN,
               NEW upgrades \in BOOLEAN,
               Connect(s, b, expired, upgrades) \/ AuthMessage(s, b, expired)
        PROVE  TypeInv'
    <2>1. Verify(b, expired) => b \in Players
      BY <1>0 DEF Verify, TypeOK
    <2>2. CASE Connect(s, b, expired, upgrades)
      BY <1>4, <1>5, <1>6, <2>1, <2>2 DEF Connect
    <2>3. CASE AuthMessage(s, b, expired)
      BY <1>4, <1>5, <2>1, <2>3 DEF AuthMessage
    <2> QED
      BY <1>7, <2>2, <2>3
  <1>8. ASSUME NEW s \in Sockets, Event(s) PROVE TypeInv'
    <2>1. /\ call' \in [Calls -> CallRecords]
          /\ \A d \in Calls : d # s => call'[d] = call[d]
          /\ call'[s].pc = "busy" /\ call'[s].status = "none"
          /\ call'[s].route = "op"
      BY <1>0, <1>8, EventKeeps
    <2>2. PlaceOK(s)'
      BY <2>1, NotBoth DEF PlaceOK, Calls, OpenRoutes
    <2> QED
      BY <1>0, <1>8, <2>1, <2>2, PlaceStep DEF Event, TypeInv, TypeOK, Calls
  <1>9. ASSUME NEW s \in Sockets, Disconnect(s) PROVE TypeInv'
    <2>1. /\ call' \in [Calls -> CallRecords]
          /\ \A d \in Calls : d # s => call'[d] = call[d]
          /\ call'[s].pc = "gone"
      BY <1>0, <1>9, DisconnectKeeps
    <2>2. PlaceOK(s)'
      BY <2>1, NotBoth DEF PlaceOK, Calls
    <2> QED
      BY <1>0, <1>9, <2>1, <2>2, PlaceStep DEF Disconnect, TypeInv, TypeOK, Calls
  <1>10. ASSUME NEW c \in Calls, NEW o \in Outcomes, Register(c, o) PROVE TypeInv'
    <2>1. /\ call[c].pc = "busy" /\ call[c].route = "register" /\ Return(c, o)
          /\ UNCHANGED <<issued, left, logVars, crashes>>
      BY <1>10 DEF Register
    <2>2. c \in Requests /\ call[c].email \in Emails
      BY <1>0, <2>1 DEF PlaceInv, PlaceOK, OpenRoutes, Calls
    <2>3. accounts' \in [Names -> [id : Players, pw : Passwords] \cup {NoAccount}]
      <3>1. CASE TakesEffect(o)
        <4>1. ValidBody(c)
          BY <1>10, <3>1 DEF Register, TakesEffect
        <4>2. NewAccount(c) \in [id : Players, pw : Passwords]
          BY <1>0, <2>2, <4>1 DEF NewAccount, ValidBody, Players, TypeOK, CallRecords
        <4> QED
          BY <1>0, <1>10, <3>1, <4>2 DEF Register, TypeOK
      <3>2. CASE ~TakesEffect(o)
        BY <1>0, <1>10, <3>2 DEF Register, TypeOK
      <3> QED
        BY <3>1, <3>2
    <2> QED
      BY <1>0, <2>1, <2>3, ReturnType DEF TypeInv, TypeOK
  <1>11. ASSUME NEW c \in Calls, NEW o \in Outcomes, Login(c, o) PROVE TypeInv'
    <2>1. /\ call[c].pc = "busy" /\ call[c].route = "login" /\ Return(c, o)
          /\ UNCHANGED <<accounts, left, logVars, crashes>>
      BY <1>11 DEF Login
    <2>2. call[c].email \in Emails
      BY <1>0, <2>1 DEF PlaceInv, PlaceOK, OpenRoutes, Calls
    <2>3. issued' \subseteq Players
      <3>1. CASE o = "ok"
        <4>1. AccountOf(call[c].email) \in [id : Players, pw : Passwords]
          BY <1>0, <1>11, <2>2, <3>1
             DEF Login, Compare, TypeOK, AccountOf, NormalizeEmail, Emails
        <4> QED
          BY <1>0, <1>11, <3>1, <4>1 DEF Login, TypeOK
      <3>2. CASE o # "ok"
        BY <1>0, <1>11, <3>2 DEF Login, TypeOK
      <3> QED
        BY <3>1, <3>2
    <2> QED
      BY <1>0, <2>1, <2>3, ReturnType DEF TypeInv, TypeOK
  <1>12. ASSUME NEW c \in Calls, NEW o \in Outcomes, Operate(c, o) PROVE TypeInv'
    <2>1. /\ call[c].pc = "busy" /\ Return(c, o)
          /\ UNCHANGED <<accounts, issued, logVars, crashes>>
          /\ left' \in {left, left \cup {<<c, call[c].n>>}}
      BY <1>12 DEF Operate
    <2>2. call[c].n \in 0..MaxEvents
      BY <1>0 DEF TypeOK, CallRecords
    <2> QED
      BY <1>0, <2>1, <2>2, ReturnType DEF TypeInv, TypeOK
  <1>13. ASSUME NEW c \in Calls, ContextEnds(c) PROVE TypeInv'
    <2>1. PlaceInv'
      BY <1>0, <1>13, ContextKeeps DEF PlaceInv, PlaceOK
    <2> QED
      BY <1>0, <1>13, <2>1, ContextKeeps DEF ContextEnds, TypeInv, TypeOK
  <1>14. ASSUME NEW c \in Calls, NEW effect \in BOOLEAN, Panic(c, effect)
         PROVE  TypeInv'
    <2>1. /\ call' \in [Calls -> CallRecords]
          /\ \A d \in Calls : d # c => call'[d] = call[d]
          /\ call'[c].n = call[c].n
          /\ c \in Requests => call'[c].pc = "audit"
          /\ c \in Sockets => call'[c].pc = "gone"
      BY <1>0, <1>14, PanicKeeps
    <2>2. PlaceOK(c)'
      BY <1>0, <1>14, <2>1, NotBoth DEF PlaceOK, PlaceInv, Calls
    <2>3. done' \subseteq Calls \X (0..MaxEvents)
      BY <1>0, <1>14 DEF Panic, TypeOK, CallRecords
    <2> QED
      BY <1>0, <1>14, <2>1, <2>2, <2>3, PlaceStep DEF Panic, TypeInv, TypeOK
  <1>15. ASSUME NEW c \in Calls, AppendEntry(c) \/ AppendFails(c) PROVE TypeInv'
    <2>1. call' = [call EXCEPT ![c] = Audited(c)]
      BY <1>15 DEF AppendEntry, AppendFails
    <2>2. /\ call' \in [Calls -> CallRecords]
          /\ \A d \in Calls : d # c => call'[d] = call[d]
          /\ c \in Requests => call'[c].pc = "done"
          /\ c \in Sockets => call'[c].pc \in {"gone", "idle"}
          /\ call'[c].n = call[c].n /\ call'[c].status = call[c].status
      BY <2>1, AuditedKeeps
    <2>3. PlaceOK(c)'
      BY <1>0, <1>15, <2>2, NotBoth DEF PlaceOK, PlaceInv, Calls, AppendEntry, AppendFails
    <2>4. trail' \in [Calls -> Seq(Entries)]
      <3>1. CASE AppendEntry(c)
        <4>1. trail' = [trail EXCEPT ![c] = Append(trail[c], Entry(c))]
          BY <1>0, <3>1 DEF AppendEntry, TypeOK
        <4>2. Append(trail[c], Entry(c)) \in Seq(Entries)
          BY <1>0, EntryType DEF TypeOK
        <4> QED
          BY <1>0, <4>1, <4>2 DEF TypeOK
      <3>2. CASE AppendFails(c)
        BY <1>0, <3>2 DEF AppendFails, TypeOK
      <3> QED
        BY <1>15, <3>1, <3>2
    <2>5. unwritten' \subseteq Calls \X (0..MaxEvents)
      BY <1>0, <1>15 DEF AppendEntry, AppendFails, TypeOK, CallRecords
    <2>6. UNCHANGED <<dbVars, left, crashes>>
      BY <1>15 DEF AppendEntry, AppendFails
    <2> QED
      BY <1>0, <2>2, <2>3, <2>4, <2>5, <2>6, PlaceStep DEF TypeInv, TypeOK
  <1>16. ASSUME NEW x \in left, NEW effect \in BOOLEAN, LateCommand(x, effect)
         PROVE  TypeInv'
    BY <1>0, <1>16 DEF LateCommand, TypeInv, TypeOK, PlaceInv, PlaceOK
  <1>17. CASE Crash
    <2>1. PlaceInv'
      BY <1>0, <1>17, CrashKeeps DEF PlaceInv, PlaceOK
    <2>2. crashes' \in 0..MaxCrashes
      BY <1>0, <1>17, ApiAssumption DEF Crash, TypeOK
    <2> QED
      BY <1>0, <1>17, <2>1, <2>2, CrashKeeps DEF Crash, TypeInv, TypeOK
  <1>18. Bearers \subseteq Players \cup {None}
    BY <1>0 DEF Bearers, TypeOK
  <1>19. ASSUME NEW c \in Requests, NEW route \in OpenRoutes, Arrive(c, route, None)
         PROVE  TypeInv'
    BY <1>2, <1>19 DEF OpenRoutes
  <1>20. ASSUME NEW c \in Requests, NEW b \in Bearers, Arrive(c, "op", b)
         PROVE  TypeInv'
    BY <1>2, <1>18, <1>20
  <1>21. ASSUME NEW c \in Calls, Ends(c) PROVE TypeInv'
    BY <1>10, <1>11, <1>12, <1>21 DEF Ends, Outcomes
  <1>22. ASSUME NEW s \in Sockets, NEW upgrades \in BOOLEAN, ConnectPlain(s, upgrades)
         PROVE  TypeInv'
    BY <1>6, <1>22 DEF ConnectPlain
  <1> QED
    BY <1>1, <1>b, <1>3, <1>7, <1>8, <1>9, <1>13, <1>14, <1>15, <1>16, <1>17,
       <1>19, <1>20, <1>21, <1>22 DEF Next

LEMMA TypeInvariant == Spec => []TypeInv
  <1>1. Init => TypeInv
    <2> SUFFICES ASSUME Init PROVE TypeInv
      OBVIOUS
    <2>1. call \in [Calls -> CallRecords] /\ \A c \in Calls : call[c] = NewCall
      BY NewCallType DEF Init
    <2>2. PlaceInv
      BY <2>1, NewCallType DEF PlaceInv, PlaceOK
    <2>3. (CHOOSE w \in Passwords : TRUE) \in Passwords
      BY ApiAssumption
    <2>4. accounts \in [Names -> [id : Players, pw : Passwords] \cup {NoAccount}]
      BY <2>3, ApiAssumption DEF Init, Players
    <2> QED
      BY <2>1, <2>2, <2>4, ApiAssumption DEF Init, TypeInv, TypeOK, Players
  <1> QED
    BY <1>1, TypeInvStep, PTL DEF Spec

\* TypeOK holds in every state.  Its parts that could fail: a registration only
\* comes from a request with a valid body and a real address, and a login only
\* issues a token for a player who has an account.
THEOREM ApiTyped == Spec => []TypeOK
  BY TypeInvariant, PTL DEF TypeInv
-----------------------------------------------------------------------------
(***************************************************************************)
(* The audit trail.                                                        *)
(***************************************************************************)
\* The event the call is at has no entry yet.
Unlogged(c) == call[c].pc \in {"new", "body", "auth", "busy", "audit"}

\* The entries event k, whose handling is complete, should have.
Due(c, k) == IF Untraced(c) /\ k = call[c].n THEN 0 ELSE 1

\* TrailComplete for one call, with what keeps it: no entry and no failed write
\* is of an event that is still to come, or of the one that is being handled.
LogOK(c) ==
    /\ \A i \in DOMAIN trail[c] :
          /\ trail[c][i].actor = call[c].actor
          /\ trail[c][i].n <= call[c].n
          /\ Unlogged(c) => trail[c][i].n < call[c].n
    /\ \A k \in 0..MaxEvents : <<c, k>> \in unwritten =>
          /\ k <= call[c].n
          /\ Unlogged(c) => k < call[c].n
    /\ \A k \in Handled(c) : Copies(c, k) = Due(c, k)

LogInv == \A c \in Calls : LogOK(c)

\* A step that writes no entry of c, and has c handle no further event.
LEMMA LogKept ==
    ASSUME TypeInv, TypeInv', NEW c \in Calls, LogOK(c), trail'[c] = trail[c],
           \A k \in 0..MaxEvents : <<c, k>> \in unwritten' <=> <<c, k>> \in unwritten,
           call'[c].n = call[c].n, Unlogged(c)' => Unlogged(c),
           Handled(c)' \subseteq Handled(c), Untraced(c)' <=> Untraced(c),
           call'[c].actor = call[c].actor \/ (Unlogged(c) /\ call[c].n = 0)
    PROVE  LogOK(c)'
  <1>1. Handled(c) \subseteq 0..MaxEvents
    BY ApiAssumption DEF Handled, TypeInv, TypeOK, CallRecords
  <1>2. \A i \in DOMAIN trail[c] : trail[c][i] \in Entries
    BY DEF TypeInv, TypeOK
  <1>3. \A k \in Handled(c)' : Copies(c, k)' = Due(c, k)'
    BY <1>1 DEF LogOK, Copies, Due
  <1>4. \A i \in DOMAIN trail[c] : call'[c].actor = trail[c][i].actor
    BY <1>2 DEF LogOK, Entries
  <1> QED
    BY <1>3, <1>4 DEF LogOK

\* ... in particular a step of another call.
LEMMA LogOthers ==
    ASSUME TypeInv, TypeInv', LogInv, NEW c \in Calls, LogOK(c)',
           \A d \in Calls : d # c =>
              /\ call'[d] = call[d] /\ trail'[d] = trail[d]
              /\ \A k \in 0..MaxEvents : <<d, k>> \in unwritten' <=> <<d, k>> \in unwritten
    PROVE  LogInv'
  <1> SUFFICES ASSUME NEW d \in Calls, d # c PROVE LogOK(d)'
    BY DEF LogInv
  <1>1. /\ Handled(d)' = Handled(d) /\ Unlogged(d)' = Unlogged(d)
        /\ Untraced(d)' <=> Untraced(d)
    BY DEF Handled, Unlogged, Untraced
  <1> QED
    BY <1>1, LogKept DEF LogInv

\* A socket that ends in the middle of an event leaves nothing of it.
LEMMA LogSkipped ==
    ASSUME TypeInv, TypeInv', NEW c \in Calls, LogOK(c), trail'[c] = trail[c],
           unwritten' = unwritten, call[c].pc \in {"new", "busy"},
           call'[c].pc = "gone", call'[c].status = "none",
           call'[c].n = call[c].n, call'[c].actor = call[c].actor
    PROVE  LogOK(c)'
  <1>1. call[c].n \in 0..MaxEvents /\ trail[c] \in Seq(Entries)
    BY DEF TypeInv, TypeOK, CallRecords
  <1>n. PICK n \in 0..MaxEvents : n = call[c].n
    BY <1>1
  <1>2. Unlogged(c) /\ ~Unlogged(c)' /\ Untraced(c)' /\ ~Untraced(c)
    BY DEF Unlogged, Untraced
  <1>3. \A k \in Handled(c)' : k = n \/ (k \in Handled(c) /\ k # n)
    <2>1. Handled(c)' = 0..n
      BY <1>n DEF Handled
    <2>2. CASE call[c].pc = "new"
      BY <1>n, <2>1, <2>2 DEF TypeInv, PlaceInv, PlaceOK
    <2>3. CASE call[c].pc = "busy"
      BY <1>n, <2>1, <2>3 DEF Handled
    <2> QED
      BY <2>2, <2>3
  <1>4. {i \in DOMAIN trail[c] : trail[c][i].n = n} = {} /\ <<c, n>> \notin unwritten
    BY <1>1, <1>2, <1>n DEF LogOK, Entries
  <1>5. Copies(c, n)' = 0
    <2> DEFINE At == {i \in DOMAIN trail[c] : trail[c][i].n = n}
    <2>1. Cardinality(At') = 0
      BY <1>4, FS_EmptySet
    <2>2. <<c, n>> \notin unwritten'
      BY <1>4
    <2> QED
      BY <2>1, <2>2 DEF Copies
  <1>6. \A k \in Handled(c)' : Copies(c, k)' = Due(c, k)'
    BY <1>2, <1>3, <1>5, <1>n DEF LogOK, Copies, Due
  <1> QED
    BY <1>2, <1>6 DEF LogOK

\* The audit write of an event, or the loss of it, gives it its one entry.
LEMMA LogWritten ==
    ASSUME TypeInv, TypeInv', LogInv, NEW c \in Calls, AppendEntry(c) \/ AppendFails(c)
    PROVE  LogInv'
  <1>1. /\ call' \in [Calls -> CallRecords]
        /\ \A d \in Calls : d # c => call'[d] = call[d]
        /\ c \in Requests => call'[c].pc = "done"
        /\ c \in Sockets => call'[c].pc \in {"gone", "idle"}
        /\ call'[c].n = call[c].n /\ call'[c].actor = call[c].actor
        /\ call'[c].status = call[c].status
    BY AuditedKeeps DEF AppendEntry, AppendFails
  <1>2. call[c].pc = "audit" /\ LogOK(c)
    BY DEF LogInv, AppendEntry, AppendFails
  <1>u. ~Untraced(c) /\ ~Untraced(c)'
    BY <1>1, <1>2 DEF Untraced, Calls, TypeInv, PlaceInv, PlaceOK
  <1>d. \A k : Due(c, k) = 1 /\ Due(c, k)' = 1
    BY <1>u DEF Due
  <1>3. call[c].n \in 0..MaxEvents /\ (c \in Requests => call[c].n = 0)
    BY DEF TypeInv, TypeOK, CallRecords, PlaceInv, PlaceOK
  <1>4. trail[c] \in Seq(Entries)
    BY DEF TypeInv, TypeOK
  <1>n. PICK n \in 0..MaxEvents : n = call[c].n
    BY <1>3
  <1> DEFINE At(k) == {i \in DOMAIN trail[c] : trail[c][i].n = k}
  <1>5. \A k \in Handled(c)' : k = n \/ k \in Handled(c)
    BY <1>1, <1>2, <1>3, <1>n DEF Handled, Calls
  <1>6. \A k \in Handled(c) : k \in 0..MaxEvents /\ k # n
    BY <1>2, <1>3, <1>n, ApiAssumption DEF Handled
  <1>7. At(n) = {} /\ <<c, n>> \notin unwritten
    BY <1>2, <1>3, <1>n, <1>4 DEF LogOK, Unlogged, Entries
  <1>8. ~Unlogged(c)'
    BY <1>1 DEF Unlogged, Calls
  <1>9. CASE AppendEntry(c)
    <2>1. /\ trail'[c] = Append(trail[c], Entry(c)) /\ unwritten' = unwritten
          /\ \A d \in Calls : d # c => trail'[d] = trail[d]
      BY <1>9 DEF AppendEntry, TypeInv, TypeOK
    <2>2. Entry(c).n = n /\ Entry(c).actor = call[c].actor /\ Entry(c) \in Entries
      BY <1>n, EntryType DEF TypeInv
    <2>3. /\ DOMAIN trail'[c] = DOMAIN trail[c] \cup {Len(trail[c]) + 1}
          /\ Len(trail[c]) + 1 \notin DOMAIN trail[c]
          /\ \A i \in DOMAIN trail[c] : trail'[c][i] = trail[c][i]
          /\ trail'[c][Len(trail[c]) + 1] = Entry(c)
      BY <1>4, <2>1, <2>2
    <2>4. At(n)' = {Len(trail[c]) + 1}
      BY <1>1, <1>7, <2>2, <2>3
    <2>5. Copies(c, n)' = 1
      <3>1. Cardinality(At(n)') = 1
        BY <2>4, FS_Singleton
      <3>2. <<c, n>> \notin unwritten'
        BY <1>7, <2>1
      <3> QED
        BY <3>1, <3>2 DEF Copies
    <2>6. \A k \in Handled(c) : At(k)' = At(k)
      BY <1>6, <2>2, <2>3
    <2>7. \A k \in Handled(c) : Copies(c, k)' = 1
      BY <1>2, <1>d, <2>1, <2>6 DEF Copies, LogOK
    <2>8. LogOK(c)'
      BY <1>1, <1>2, <1>3, <1>d, <1>n, <1>5, <1>8, <2>1, <2>2, <2>3, <2>5, <2>7 DEF LogOK
    <2> QED
      BY <1>1, <2>1, <2>8, LogOthers
  <1>10. CASE AppendFails(c)
    <2>1. trail' = trail /\ unwritten' = unwritten \cup {<<c, n>>}
      BY <1>n, <1>10 DEF AppendFails
    <2>2. Copies(c, n)' = 1
      <3>1. Cardinality(At(n)') = 0
        BY <1>7, <2>1, FS_EmptySet
      <3> QED
        BY <2>1, <3>1 DEF Copies
    <2>3. \A k \in Handled(c) : Copies(c, k)' = 1
      BY <1>2, <1>6, <1>d, <2>1 DEF Copies, LogOK
    <2>4. LogOK(c)'
      BY <1>1, <1>2, <1>3, <1>d, <1>n, <1>5, <1>8, <2>1, <2>2, <2>3 DEF LogOK
    <2> QED
      BY <1>1, <2>1, <2>4, LogOthers
  <1> QED
    BY <1>9, <1>10

LEMMA LogInvStep ==
    ASSUME TypeInv, TypeInv', LogInv, [Next]_vars
    PROVE  LogInv'
  <1> USE DEF vars, dbVars, logVars
  <1>0. TypeOK /\ PlaceInv
    BY DEF TypeInv
  \* Steps that leave the trail alone, by what they do to the one call they move.
  <1>1. ASSUME NEW c \in Calls, UNCHANGED logVars,
               \A d \in Calls : d # c => call'[d] = call[d],
               call'[c].n = call[c].n, Unlogged(c)' => Unlogged(c),
               Handled(c)' \subseteq Handled(c), Untraced(c)' <=> Untraced(c),
               call'[c].actor = call[c].actor \/ (Unlogged(c) /\ call[c].n = 0)
        PROVE  LogInv'
    <2>1. LogOK(c)'
      BY <1>1, LogKept DEF LogInv
    <2> QED
      BY <1>1, <2>1, LogOthers
  <1>2. CASE UNCHANGED vars
    BY <1>2 DEF LogInv, LogOK, Unlogged, Handled, Copies, Due, Untraced
  \* ... a call that has just begun and goes on, is let in or turned away ...
  <1>3. ASSUME NEW c \in Calls, UNCHANGED logVars,
               call[c].pc \in {"new", "body", "auth"}, call'[c].n = 0,
               \A d \in Calls : d # c => call'[d] = call[d],
               call'[c].pc \in {"body", "auth", "busy", "audit"}
        PROVE  LogInv'
    <2>1. call[c].n = 0 /\ Unlogged(c)
      BY <1>0, <1>3 DEF PlaceInv, PlaceOK, Unlogged
    <2>2. Handled(c)' = {} /\ ~Untraced(c) /\ ~Untraced(c)'
      BY <1>3 DEF Handled, Untraced
    <2> QED
      BY <1>1, <1>3, <2>1, <2>2
  \* ... one whose event goes on, or that goes away after its entry ...
  <1>4. ASSUME NEW c \in Calls, UNCHANGED logVars,
               \A d \in Calls : d # c => call'[d] = call[d],
               call'[c].n = call[c].n, call'[c].actor = call[c].actor,
               \/ call[c].pc = "busy" /\ call'[c].pc = "audit"
               \/ /\ call[c].pc = "idle" /\ call'[c].pc = "gone"
                  /\ call'[c].status # "none"
        PROVE  LogInv'
    <2>1. Handled(c)' \subseteq Handled(c) /\ (Unlogged(c)' => Unlogged(c))
      BY <1>4 DEF Handled, Unlogged
    <2>2. ~Untraced(c) /\ ~Untraced(c)'
      BY <1>4 DEF Untraced
    <2> QED
      BY <1>1, <1>4, <2>1, <2>2
  \* ... and a socket that ends without one.
  <1>s. ASSUME NEW c \in Calls, UNCHANGED logVars,
               \A d \in Calls : d # c => call'[d] = call[d],
               call'[c].n = call[c].n, call'[c].actor = call[c].actor,
               call[c].pc \in {"new", "busy"},
               call'[c].pc = "gone", call'[c].status = "none"
        PROVE  LogInv'
    <2>1. LogOK(c)'
      BY <1>s, LogSkipped DEF LogInv
    <2> QED
      BY <1>s, <2>1, LogOthers
  <1>5. ASSUME NEW c \in Requests, NEW route \in {"register", "login", "op"},
               NEW b \in Players \cup {None}, Arrive(c, route, b)
        PROVE  LogInv'
    <2>1. /\ \A d \in Calls : d # c => call'[d] = call[d]
          /\ call'[c].pc = "body" /\ call'[c].n = 0
      BY <1>0, <1>5, ArriveKeeps
    <2> QED
      BY <1>3, <1>5, <2>1 DEF Arrive, Calls
  <1>b. ASSUME NEW c \in Requests, NEW e \in Emails, NEW pw \in Passwords \cup {None},
               ReadBody(c, e, pw)
        PROVE  LogInv'
    <2>1. /\ \A d \in Calls : d # c => call'[d] = call[d]
          /\ call'[c].pc \in {"busy", "auth"} /\ call'[c].n = 0
      BY <1>b, ReadBodyKeeps
    <2> QED
      BY <1>3, <1>b, <2>1 DEF ReadBody, Calls
  <1>6. ASSUME NEW c \in Requests, NEW expired \in BOOLEAN, Authenticate(c, expired)
        PROVE  LogInv'
    <2>1. call[c].n = 0
      BY <1>0, <1>6 DEF PlaceInv, PlaceOK, Calls
    <2> QED
      BY <1>0, <1>3, <1>6, <2>1, AuthenticateKeeps DEF Authenticate, Calls
  <1>7. ASSUME NEW s \in Sockets, NEW p \in Players, Accept(s, p),
               call[s].pc \in {"new", "auth"}, UNCHANGED logVars
        PROVE  LogInv'
    BY <1>0, <1>3, <1>7, AcceptKeeps DEF Calls
  <1>8. ASSUME NEW s \in Sockets, Reject(s), call[s].pc \in {"new", "auth"},
               UNCHANGED logVars
        PROVE  LogInv'
    BY <1>0, <1>3, <1>8, RejectKeeps DEF Calls
  <1>9. ASSUME NEW s \in Sockets, NEW pc \in {"auth", "gone"}, call[s].pc = "new",
               call' = [call EXCEPT ![s].pc = pc], UNCHANGED logVars
        PROVE  LogInv'
    <2>1. s \in Calls /\ call[s].n = 0 /\ call[s].status = "none"
      BY <1>0, <1>9 DEF PlaceInv, PlaceOK, Calls
    <2>2. /\ \A d \in Calls : d # s => call'[d] = call[d]
          /\ call'[s].pc = pc /\ call'[s].status = call[s].status
          /\ call'[s].n = call[s].n /\ call'[s].actor = call[s].actor
      BY <1>0, <1>9, PlainKeeps
    <2> QED
      BY <1>3, <1>s, <1>9, <2>1, <2>2
  <1>10. ASSUME NEW s \in Sockets, NEW b \in Bearers, NEW expired \in BOOLEAN,
                NEW upgrades \in BOOLEAN,
                Connect(s, b, expired, upgrades) \/ AuthMessage(s, b, expired)
         PROVE  LogInv'
    <2>1. Verify(b, expired) => b \in Players
      BY <1>0 DEF Verify, TypeOK
    <2>2. CASE Connect(s, b, expired, upgrades)
      BY <1>7, <1>8, <1>9, <2>1, <2>2 DEF Connect
    <2>3. CASE AuthMessage(s, b, expired)
      BY <1>7, <1>8, <2>1, <2>3 DEF AuthMessage
    <2> QED
      BY <1>10, <2>2, <2>3
  <1>11. ASSUME NEW s \in Sockets, NEW upgrades \in BOOLEAN, ConnectPlain(s, upgrades)
         PROVE  LogInv'
    BY <1>9, <1>11 DEF ConnectPlain
  \* The next event of a socket: the one before it has its entry.
  <1>12. ASSUME NEW s \in Sockets, Event(s) PROVE LogInv'
    <2>1. /\ \A d \in Calls : d # s => call'[d] = call[d]
          /\ call'[s].pc = "busy" /\ call'[s].n = call[s].n + 1
          /\ call'[s].actor = call[s].actor
      BY <1>0, <1>12, EventKeeps
    <2>2. s \in Calls /\ call[s].n \in Nat /\ trail[s] \in Seq(Entries) /\ LogOK(s)
      BY <1>0 DEF Calls, TypeOK, CallRecords, LogInv
    <2>3. /\ call[s].pc = "idle" /\ UNCHANGED <<trail, unwritten>>
      BY <1>12 DEF Event
    <2>4. Handled(s)' = Handled(s)
      BY <2>1, <2>2, <2>3 DEF Handled
    <2>5. \A k \in Handled(s)' : Copies(s, k)' = Due(s, k)'
      BY <2>1, <2>2, <2>3, <2>4 DEF LogOK, Copies, Due, Untraced
    <2>6. \A i \in DOMAIN trail[s] : trail[s][i].n \in Nat
      <3>1. \A i \in DOMAIN trail[s] : trail[s][i] \in Entries
        BY <2>2
      <3> QED
        BY <3>1, ApiAssumption DEF Entries
    <2>7. LogOK(s)'
      BY <2>1, <2>2, <2>3, <2>5, <2>6 DEF LogOK
    <2> QED
      BY <2>1, <2>2, <2>3, <2>7, LogOthers
  <1>13. ASSUME NEW s \in Sockets, Disconnect(s) PROVE LogInv'
    <2>1. call[s].pc = "idle" /\ call[s].status # "none" /\ s \in Calls
      BY <1>0, <1>13 DEF Disconnect, PlaceInv, PlaceOK, Calls
    <2> QED
      BY <1>0, <1>4, <1>13, <2>1, DisconnectKeeps DEF Disconnect
  <1>14. ASSUME NEW c \in Calls, Ends(c) PROVE LogInv'
    <2>1. PICK o \in Outcomes : Return(c, o) /\ call[c].pc = "busy" /\ UNCHANGED logVars
      BY <1>14 DEF Ends, Outcomes, Register, Login, Operate
    <2> QED
      BY <1>0, <1>4, <2>1, ReturnKeeps
  <1>15. ASSUME NEW c \in Calls, ContextEnds(c) PROVE LogInv'
    <2>1. \A d \in Calls : /\ call'[d].pc = call[d].pc /\ call'[d].n = call[d].n
                           /\ call'[d].actor = call[d].actor
                           /\ call'[d].status = call[d].status
      BY <1>0, <1>15, ContextKeeps
    <2> QED
      BY <1>15, <2>1 DEF ContextEnds, LogInv, LogOK, Unlogged, Handled, Copies, Due,
         Untraced
  <1>16. ASSUME NEW c \in Calls, NEW effect \in BOOLEAN, Panic(c, effect)
         PROVE  LogInv'
    <2>1. call[c].pc = "busy" /\ call[c].status = "none" /\ UNCHANGED logVars
      BY <1>0, <1>16 DEF Panic, PlaceInv, PlaceOK
    <2>2. /\ \A d \in Calls : d # c => call'[d] = call[d]
          /\ call'[c].status = "none"
          /\ call'[c].n = call[c].n /\ call'[c].actor = call[c].actor
          /\ c \in Requests => call'[c].pc = "audit"
          /\ c \in Sockets => call'[c].pc = "gone"
      BY <1>0, <1>16, <2>1, PanicKeeps
    <2> QED
      BY <1>4, <1>s, <2>1, <2>2 DEF Calls
  <1>17. ASSUME NEW x \in left, NEW effect \in BOOLEAN, LateCommand(x, effect)
         PROVE  LogInv'
    BY <1>17 DEF LateCommand, LogInv, LogOK, Unlogged, Handled, Copies, Due, Untraced
  <1>18. CASE Crash
    <2> SUFFICES ASSUME NEW c \in Calls PROVE LogOK(c)'
      BY DEF LogInv
    <2>1. /\ call'[c].n = call[c].n /\ call'[c].actor = call[c].actor
          /\ \/ /\ call'[c].pc = "lost"
                /\ call[c].pc \in {"body", "auth", "busy", "audit", "idle"}
             \/ call'[c] = call[c]
      BY <1>0, <1>18, CrashKeeps
    <2>2. call[c].n \in Nat /\ (call[c].pc \in {"body", "auth"} => call[c].n = 0)
      BY <1>0, ApiAssumption DEF TypeOK, CallRecords, PlaceInv, PlaceOK
    <2>3. /\ Handled(c)' \subseteq Handled(c) /\ (Unlogged(c)' => Unlogged(c))
          /\ Untraced(c)' <=> Untraced(c)
      BY <2>1, <2>2 DEF Handled, Unlogged, Untraced
    <2> QED
      BY <1>18, <2>1, <2>3, LogKept DEF Crash, LogInv
  <1>19. Bearers \subseteq Players \cup {None}
    BY <1>0 DEF Bearers, TypeOK
  <1>20. ASSUME NEW c \in Requests, NEW route \in OpenRoutes, Arrive(c, route, None)
         PROVE  LogInv'
    BY <1>5, <1>20 DEF OpenRoutes
  <1>21. ASSUME NEW c \in Requests, NEW b \in Bearers, Arrive(c, "op", b)
         PROVE  LogInv'
    BY <1>5, <1>19, <1>21
  <1> QED
    BY <1>2, <1>b, <1>6, <1>10, <1>11, <1>12, <1>13, <1>14, <1>15, <1>16, <1>17,
       <1>18, <1>20, <1>21, LogWritten DEF Next

LEMMA LogInvariant == Spec => []LogInv
  <1>1. Init => LogInv
    BY NewCallType DEF Init, LogInv, LogOK, Handled
  <1> QED
    BY <1>1, TypeInvariant, LogInvStep, PTL DEF Spec

\* audit.go: "Every REST call and WebSocket event produces exactly one entry".
\* However calls, deadlines, lost clients and restarts interleave, an event whose
\* handling is complete has one entry, unless the write itself failed, and every
\* entry names the player the call was authenticated as.  The events without an
\* entry are exactly the failed upgrades and those whose handler panicked.
THEOREM TrailIsComplete == Spec => []TrailComplete
  <1>1. LogInv => TrailComplete
    BY DEF LogInv, LogOK, Due, TrailComplete
  <1> QED
    BY <1>1, LogInvariant, PTL
-----------------------------------------------------------------------------
(***************************************************************************)
(* Accounts.                                                               *)
(***************************************************************************)
\* AccountIsTheRegistrants for one request, with the address that makes its
\* AccountOf a row of the table.
AccountOK(c) ==
    call[c].status = "ok" =>
        /\ call[c].route = "register" =>
              /\ call[c].email \in Emails
              /\ AccountOf(call[c].email) = NewAccount(c)
        /\ call[c].route = "login" =>
              /\ call[c].email \in Emails
              /\ Compare(AccountOf(call[c].email), call[c].pw)
              /\ AccountOf(call[c].email).id \in issued

AccountInv == \A c \in Requests : AccountOK(c)

\* What a request that was let in or registered relies on stays: no account is
\* replaced, no token recalled, and nothing of the request forgotten.
LEMMA AccountKept ==
    ASSUME TypeInv, NEW c \in Requests, AccountOK(c),
           \A n \in Names : accounts[n] # NoAccount => accounts'[n] = accounts[n],
           issued \subseteq issued',
           call'[c].status = "ok" =>
              /\ call[c].status = "ok" /\ call'[c].route = call[c].route
              /\ call'[c].email = call[c].email /\ call'[c].pw = call[c].pw
    PROVE  AccountOK(c)'
  <1>1. ASSUME call[c].email \in Emails
        PROVE  NormalizeEmail(call[c].email) \in Names
    BY <1>1 DEF Emails, NormalizeEmail
  <1>2. NewAccount(c) # NoAccount
    BY ApiAssumption DEF NewAccount, NoAccount
  <1>3. CASE call'[c].status = "ok" /\ call'[c].route = "register"
    BY <1>1, <1>2, <1>3 DEF AccountOK, AccountOf, NewAccount
  <1>4. CASE call'[c].status = "ok" /\ call'[c].route = "login"
    BY <1>1, <1>4 DEF AccountOK, AccountOf, Compare
  <1> QED
    BY <1>3, <1>4 DEF AccountOK

\* The unique index on lower(email): the INSERT of a registration is refused if
\* there is a row, so no row is ever replaced.
LEMMA AccountsStay ==
    ASSUME TypeInv, [Next]_vars
    PROVE  /\ \A n \in Names : accounts[n] # NoAccount => accounts'[n] = accounts[n]
           /\ issued \subseteq issued'
  <1> USE DEF vars, dbVars, logVars
  <1>1. ASSUME NEW c \in Calls, NEW o \in Outcomes, Register(c, o)
        PROVE  /\ \A n \in Names : accounts[n] # NoAccount => accounts'[n] = accounts[n]
               /\ issued' = issued
    BY <1>1 DEF Register, TakesEffect, TypeInv, TypeOK
  <1>2. ASSUME NEW c \in Calls, NEW o \in Outcomes, Login(c, o)
        PROVE  accounts' = accounts /\ issued \subseteq issued'
    BY <1>2 DEF Login
  <1>3. ASSUME NEW c \in Calls, NEW o \in Outcomes, Operate(c, o)
        PROVE  accounts' = accounts /\ issued' = issued
    BY <1>3 DEF Operate
  <1>4. ASSUME NEW c \in Calls, Ends(c)
        PROVE  /\ \A n \in Names : accounts[n] # NoAccount => accounts'[n] = accounts[n]
               /\ issued \subseteq issued'
    BY <1>1, <1>2, <1>3, <1>4 DEF Ends, Outcomes
  <1>5. ASSUME Next, \A c \in Calls : ~Ends(c)
        PROVE  accounts' = accounts /\ issued' = issued
    BY <1>5 DEF Next, Arrive, ReadBody, Authenticate, Connect, ConnectPlain, AuthMessage, Event,
       Disconnect, ContextEnds, Panic, AppendEntry, AppendFails, LateCommand, Crash
  <1> QED
    BY <1>4, <1>5

LEMMA AccountInvStep ==
    ASSUME TypeInv, TypeInv', AccountInv, [Next]_vars
    PROVE  AccountInv'
  <1> USE DEF vars, dbVars, logVars
  <1>0. TypeOK /\ PlaceInv
    BY DEF TypeInv
  <1> SUFFICES ASSUME NEW c \in Requests PROVE AccountOK(c)'
    BY DEF AccountInv
  <1>1. ASSUME call'[c].status = "ok" =>
                  /\ call[c].status = "ok" /\ call'[c].route = call[c].route
                  /\ call'[c].email = call[c].email /\ call'[c].pw = call[c].pw
        PROVE  AccountOK(c)'
    BY <1>1, AccountKept, AccountsStay DEF AccountInv
  <1>c. c \in Calls /\ c \notin Sockets
    BY NotBoth DEF Calls
  <1>2. CASE UNCHANGED vars
    BY <1>1, <1>2
  <1>3. ASSUME NEW d \in Calls, d # c \/ call'[d].status # "ok",
               \A x \in Calls : x # d => call'[x] = call[x]
        PROVE  AccountOK(c)'
    BY <1>1, <1>3, <1>c
  <1>4. ASSUME NEW d \in Requests, NEW route \in {"register", "login", "op"},
               NEW b \in Players \cup {None}, Arrive(d, route, b)
        PROVE  AccountOK(c)'
    <2>1. /\ \A x \in Calls : x # d => call'[x] = call[x]
          /\ call'[d].status = "none"
      BY <1>0, <1>4, ArriveKeeps
    <2> QED
      BY <1>3, <2>1 DEF Calls
  <1>b. ASSUME NEW d \in Requests, NEW e \in Emails, NEW pw \in Passwords \cup {None},
               ReadBody(d, e, pw)
        PROVE  AccountOK(c)'
    <2>1. /\ \A x \in Calls : x # d => call'[x] = call[x]
          /\ call'[d].status = "none"
      BY <1>b, ReadBodyKeeps
    <2> QED
      BY <1>3, <2>1 DEF Calls
  <1>5. ASSUME NEW d \in Requests, NEW expired \in BOOLEAN, Authenticate(d, expired)
        PROVE  AccountOK(c)'
    <2>1. call[d].status = "none"
      BY <1>0, <1>5 DEF PlaceInv, PlaceOK, Authenticate, Calls
    <2>2. /\ \A x \in Calls : x # d => call'[x] = call[x]
          /\ call'[d].status \in {"none", "refused"}
      BY <1>0, <1>5, <2>1, AuthenticateKeeps
    <2> QED
      BY <1>3, <2>2 DEF Calls
  <1>6. ASSUME NEW s \in Sockets, \A x \in Calls : x # s => call'[x] = call[x]
        PROVE  AccountOK(c)'
    BY <1>3, <1>6, <1>c DEF Calls
  <1>7. ASSUME NEW s \in Sockets, NEW b \in Bearers, NEW expired \in BOOLEAN,
               NEW upgrades \in BOOLEAN,
               \/ Connect(s, b, expired, upgrades) \/ AuthMessage(s, b, expired)
               \/ ConnectPlain(s, upgrades) \/ Event(s) \/ Disconnect(s)
        PROVE  AccountOK(c)'
    <2>1. \A x \in Calls : x # s => call'[x] = call[x]
      BY <1>0, <1>7 DEF Connect, AuthMessage, ConnectPlain, Event, Disconnect, Accept,
         Reject, TypeOK
    <2> QED
      BY <1>6, <2>1
  \* A request is told that it succeeded: by the guards of the use case.
  <1>8. ASSUME NEW d \in Calls, NEW o \in Outcomes,
               Register(d, o) \/ Login(d, o) \/ Operate(d, o)
        PROVE  AccountOK(c)'
    <2>1. Return(d, o) /\ call[d].pc = "busy"
      BY <1>8 DEF Register, Login, Operate
    <2>2. /\ \A x \in Calls : x # d => call'[x] = call[x]
          /\ call'[d].status = MapError(o)
          /\ o = "ok" => /\ call'[d].route = call[d].route
                         /\ call'[d].email = call[d].email
                         /\ call'[d].pw = call[d].pw
      BY <1>0, <2>1, ReturnKeeps
    <2>3. CASE d # c \/ o # "ok"
      BY <1>3, <2>2, <2>3, MapErrorType
    <2>4. CASE d = c /\ o = "ok" /\ Register(c, o)
      <3>1. call[c].route = "register" /\ call[c].email \in Emails
        BY <1>0, <1>c, <2>1, <2>4 DEF Register, PlaceInv, PlaceOK, OpenRoutes
      <3>2. NormalizeEmail(call[c].email) \in Names
        BY <3>1 DEF Emails, NormalizeEmail
      <3>3. accounts' = [accounts EXCEPT ![NormalizeEmail(call[c].email)] = NewAccount(c)]
        BY <2>4 DEF Register, TakesEffect
      <3>4. AccountOf(call[c].email)' = NewAccount(c)'
        BY <1>0, <2>2, <2>4, <3>2, <3>3 DEF AccountOf, NewAccount, NormalizeEmail, TypeOK
      <3> QED
        BY <2>2, <2>4, <3>1, <3>4 DEF AccountOK
    <2>5. CASE d = c /\ o = "ok" /\ Login(c, o)
      <3>1. call[c].route = "login" /\ call[c].email \in Emails
        BY <1>0, <1>c, <2>1, <2>5 DEF Login, PlaceInv, PlaceOK, OpenRoutes
      <3>2. /\ Compare(AccountOf(call[c].email), call[c].pw)
            /\ AccountOf(call[c].email).id \in issued' /\ accounts' = accounts
        BY <2>5 DEF Login
      <3>3. /\ AccountOf(call[c].email)' = AccountOf(call[c].email)
            /\ call'[c].email \in Emails /\ call'[c].pw = call[c].pw
            /\ call'[c].route = "login"
        BY <2>2, <2>5, <3>1, <3>2 DEF AccountOf, NormalizeEmail
      <3> QED
        BY <3>2, <3>3 DEF AccountOK, Compare
    <2>6. CASE d = c /\ o = "ok" /\ Operate(c, o)
      BY <2>2, <2>6 DEF Operate, AccountOK
    <2> QED
      BY <1>8, <2>3, <2>4, <2>5, <2>6
  <1>9. ASSUME NEW d \in Calls, ContextEnds(d) PROVE AccountOK(c)'
    BY <1>0, <1>1, <1>9, <1>c, ContextKeeps
  <1>10. ASSUME NEW d \in Calls, NEW effect \in BOOLEAN, Panic(d, effect)
         PROVE  AccountOK(c)'
    <2>1. call[d].status = "none"
      BY <1>0, <1>10 DEF PlaceInv, PlaceOK, Panic
    <2>2. /\ \A x \in Calls : x # d => call'[x] = call[x]
          /\ call'[d].status = "none"
      BY <1>0, <1>10, <2>1, PanicKeeps
    <2> QED
      BY <1>3, <2>2
  <1>11. ASSUME NEW d \in Calls, AppendEntry(d) \/ AppendFails(d)
         PROVE  AccountOK(c)'
    <2>1. call' = [call EXCEPT ![d] = Audited(d)]
      BY <1>11 DEF AppendEntry, AppendFails
    <2> QED
      BY <1>1, <1>c, <2>1, AuditedKeeps
  <1>12. ASSUME NEW x \in left, NEW effect \in BOOLEAN, LateCommand(x, effect)
         PROVE  AccountOK(c)'
    BY <1>1, <1>12 DEF LateCommand
  <1>13. CASE Crash
    <2>1. \/ call'[c] = call[c]
          \/ /\ call'[c].status = call[c].status
             /\ call[c].status = "ok" => /\ call'[c].route = call[c].route
                                         /\ call'[c].email = call[c].email
                                         /\ call'[c].pw = call[c].pw
      BY <1>0, <1>13, <1>c, CrashKeeps
    <2> QED
      BY <1>1, <2>1
  <1>14. Bearers \subseteq Players \cup {None}
    BY <1>0 DEF Bearers, TypeOK
  <1>15. ASSUME NEW d \in Requests, NEW route \in OpenRoutes, Arrive(d, route, None)
         PROVE  AccountOK(c)'
    BY <1>4, <1>15 DEF OpenRoutes
  <1>16. ASSUME NEW d \in Requests, NEW b \in Bearers, Arrive(d, "op", b)
         PROVE  AccountOK(c)'
    BY <1>4, <1>14, <1>16
  <1>17. ASSUME NEW d \in Calls, Ends(d) PROVE AccountOK(c)'
    BY <1>8, <1>17 DEF Ends, Outcomes
  <1>18. ASSUME NEW s \in Sockets, NEW upgrades \in BOOLEAN,
                ConnectPlain(s, upgrades) \/ Event(s) \/ Disconnect(s)
         PROVE  AccountOK(c)'
    BY <1>7, <1>18 DEF Bearers
  <1> QED
    BY <1>2, <1>b, <1>5, <1>7, <1>9, <1>10, <1>11, <1>12, <1>13, <1>15, <1>16,
       <1>17, <1>18 DEF Next

\* register.go and login.go: the account of an address is, for good, that of the
\* one registration that was told 201, with the password it gave, although
\* registrations of one address, in any spelling, race without a check; a login
\* is let in by that password only, and then is that player.
THEOREM AccountsAreTheRegistrants == Spec => []AccountIsTheRegistrants
  <1>1. Init => AccountInv
    BY NewCallType DEF Init, AccountInv, AccountOK, Calls
  <1>2. AccountInv => AccountIsTheRegistrants
    BY DEF AccountInv, AccountOK, AccountIsTheRegistrants
  <1> QED
    BY <1>1, <1>2, TypeInvariant, AccountInvStep, PTL DEF Spec
=============================================================================
