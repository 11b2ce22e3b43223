--------------------------------- MODULE Api ---------------------------------
(***************************************************************************)
(* How a call comes in and what is kept of it: the REST stack              *)
(* (Recoverer > Timeout > AuditMiddleware > Authenticator > handler), the  *)
(* WebSocket handshake and session.handle, registration and login, and the *)
(* audit trail both channels write.                                        *)
(*                                                                         *)
(* A call is a REST request or a socket, which handles one event after     *)
(* another.  What the wallet and room operations do is in other modules;   *)
(* here an operation only takes effect or not, and its caller learns of it *)
(* or not.  A player's id is the request that registered it (NewID), or    *)
(* its name if it is one of those that were there at the start.            *)
(***************************************************************************)
EXTENDS Naturals, Sequences, FiniteSets

CONSTANTS
    MaxRequests,    \* REST requests, over all time
    Sockets,        \* WebSocket connections, over all time
    Names,          \* e-mail addresses, normalized
    Settled,        \* those that have an account and a token at the start
    Spellings,      \* the ways a client may write one (case, blanks)
    Passwords,
    MaxCalls,       \* bound on the calls, of both kinds, over all time
    MaxEvents,      \* bound on the events of a socket
    MaxCrashes,     \* bound on the restarts of the process
    None

\* The requests, numbered as they come in.
Requests == 1..MaxRequests

ASSUME ApiAssumption ==
    /\ MaxRequests \in Nat /\ MaxCalls \in Nat
    /\ MaxEvents \in Nat /\ MaxCrashes \in Nat
    /\ Requests \cap Sockets = {} /\ Requests \cap Names = {}
    /\ Settled \subseteq Names /\ Passwords # {}
    /\ None \notin Requests \cup Names \cup Passwords

Calls   == Requests \cup Sockets
Players == Requests \cup Settled
Emails  == Names \X Spellings

VARIABLES
    accounts,   \* players: name -> its account
    issued,     \* the players a token was issued to
    call,       \* the calls in progress, and how they ended
    left,       \* commands whose caller went away while a room loop had them
    done,       \* <<call, event>> that took effect
    trail,      \* audit_logs: call -> its entries, in the order of insertion
    unwritten,  \* <<call, event>> whose audit write failed
    crashes

dbVars == <<accounts, issued, done>>
logVars == <<trail, unwritten>>
vars == <<dbVars, call, left, logVars, crashes>>

\* The bound on calls allows another one.
MayBegin == Cardinality({c \in Calls : call[c].pc # "new"}) < MaxCalls

NoAccount == [id |-> None, pw |-> None]

NewCall == [pc |-> "new", route |-> None, email |-> None, pw |-> None,
            bearer |-> None, actor |-> None, status |-> "none", n |-> 0,
            over |-> FALSE]

\* The routes outside Authenticator.
OpenRoutes == {"register", "login"}

\* The opErr of an entry: by the status, and none if nothing was written.
OpErr(status) == IF status \in {"refused", "error"} THEN status ELSE "nil"

\* audit.NewEntry, for the event the call is at.
Entry(c) == [n |-> call[c].n, actor |-> call[c].actor,
             error |-> OpErr(call[c].status)]

\* player.NormalizeEmail: one name for every spelling.
NormalizeEmail(e) == e[1]

\* PlayerRepository.GetByEmail
AccountOf(e) == accounts[NormalizeEmail(e)]

\* BcryptHasher.Compare
Compare(account, pw) == account # NoAccount /\ account.pw = pw

\* decodeJSON and the checks of the fields: a pw of None is a body that is
\* malformed, cut short or too long, or has invalid fields.
ValidBody(c) == call[c].pw # None

\* JWTService.Verify.  A bearer of None is a missing, malformed or forged token;
\* one that was issued may have expired at any time it is looked at.
Verify(b, expired) == b \in issued /\ ~expired

\* The tokens a client can send.
Bearers == {None} \cup issued

\* mapError: a domain error is the caller's (4xx), anything else is a 500.
MapError(o) ==
    CASE o = "ok" -> "ok"
      [] o = "refused" -> "refused"
      [] OTHER -> "error"

\* WithinTx and single statements: the outcomes after which the database has
\* changed.  A commit whose acknowledgement is lost is one, although it returns
\* an error.
TakesEffect(o) == o \in {"ok", "unacked"}

\* What the properties need of a call once it has its status: for the ones that
\* succeeded, what they asked for.
Kept(c, status) ==
    IF status = "ok" THEN call[c]
    ELSE [NewCall EXCEPT !.actor = call[c].actor, !.n = call[c].n,
                         !.over = call[c].over]

\* The handler of c has returned with o; what is left is the audit entry.
Return(c, o) ==
    /\ call' = [call EXCEPT ![c] = [Kept(c, MapError(o)) EXCEPT
                                       !.status = MapError(o), !.pc = "audit"]]
    /\ done' = IF TakesEffect(o) THEN done \cup {<<c, call[c].n>>} ELSE done

\* ... and once it is over.
Over(c, pc) ==
    [Kept(c, call[c].status) EXCEPT !.pc = pc, !.status = call[c].status,
                                    !.over = FALSE]

Init ==
    /\ accounts = [n \in Names |->
                      IF n \in Settled
                      THEN [id |-> n, pw |-> CHOOSE w \in Passwords : TRUE]
                      ELSE NoAccount]
    /\ issued = Settled
    /\ call = [c \in Calls |-> NewCall]
    /\ left = {}
    /\ done = {}
    /\ trail = [c \in Calls |-> <<>>]
    /\ unwritten = {}
    /\ crashes = 0
-----------------------------------------------------------------------------
(***************************************************************************)
(* REST.                                                                   *)
(***************************************************************************)
\* The request, its headers only, reaches AuditMiddleware.
Arrive(c, route, b) ==
    /\ call[c].pc = "new" /\ MayBegin
    /\ \A d \in 1..(c - 1) : call[d].pc # "new"
    /\ call' = [call EXCEPT ![c] = [NewCall EXCEPT !.route = route, !.bearer = b,
                                                   !.pc = "body"]]
    /\ UNCHANGED <<dbVars, left, logVars, crashes>>

\* io.ReadAll has the body, or as much of it as came: its error is dropped.  The
\* open routes have no Authenticator.
ReadBody(c, e, pw) ==
    /\ call[c].pc = "body"
    /\ call' = [call EXCEPT ![c] = IF @.route \in OpenRoutes
                                   THEN [@ EXCEPT !.email = e, !.pw = pw, !.pc = "busy"]
                                   ELSE [@ EXCEPT !.pc = "auth"]]
    /\ UNCHANGED <<dbVars, left, logVars, crashes>>

\* Authenticator: 401, or the actor is known to the recorder and the handler.
Authenticate(c, expired) ==
    /\ c \in Requests /\ call[c].pc = "auth"
    /\ call' = [call EXCEPT ![c] =
                   IF Verify(@.bearer, expired)
                   THEN [@ EXCEPT !.pc = "busy", !.actor = call[c].bearer,
                                  !.bearer = None]
                   ELSE [NewCall EXCEPT !.pc = "audit", !.status = "refused",
                                        !.over = call[c].over]]
    /\ UNCHANGED <<dbVars, left, logVars, crashes>>

\* The row a successful registration inserts.
NewAccount(c) == [id |-> c, pw |-> call[c].pw]

\* A registration that does not validate its input.
RegisterUnchecked(c, o) ==
    LET n == NormalizeEmail(call[c].email) IN
    /\ call[c].pc = "busy" /\ call[c].route = "register"
    /\ IF accounts[n] # NoAccount THEN o \in {"refused", "failed"}
                                  ELSE o \in {"ok", "failed", "unacked"}
    /\ accounts' = IF TakesEffect(o) THEN [accounts EXCEPT ![n] = NewAccount(c)]
                   ELSE accounts
    /\ Return(c, o)
    /\ UNCHANGED <<issued, left, logVars, crashes>>

\* An insert that overwrites the row of the same address.
RegisterUpserts(c, o) ==
    LET n == NormalizeEmail(call[c].email) IN
    /\ call[c].pc = "busy" /\ call[c].route = "register"
    /\ IF ValidBody(c) THEN o \in {"ok", "failed", "unacked"}
                       ELSE o \in {"refused", "failed"}
    /\ accounts' = IF TakesEffect(o) THEN [accounts EXCEPT ![n] = NewAccount(c)]
                   ELSE accounts
    /\ Return(c, o)
    /\ UNCHANGED <<issued, left, logVars, crashes>>

\* RegisterUseCase.Execute.  It does not look for the address first: the unique
\* index on lower(email) decides, in the one INSERT.
Register(c, o) ==
    LET n == NormalizeEmail(call[c].email) IN
    /\ call[c].pc = "busy" /\ call[c].route = "register"
    /\ IF ValidBody(c) /\ accounts[n] = NoAccount
       THEN o \in {"ok", "failed", "unacked"}
       ELSE o \in {"refused", "failed"}
    /\ accounts' = IF TakesEffect(o) THEN [accounts EXCEPT ![n] = NewAccount(c)]
                   ELSE accounts
    /\ Return(c, o)
    /\ UNCHANGED <<issued, left, logVars, crashes>>

\* LoginUseCase.Execute: GetByEmail, Compare, Issue.
Login(c, o) ==
    LET account == AccountOf(call[c].email) IN
    /\ call[c].pc = "busy" /\ call[c].route = "login"
    /\ IF ValidBody(c) /\ Compare(account, call[c].pw)
       THEN o \in {"ok", "failed"}
       ELSE o \in {"refused", "failed"}
    /\ issued' = IF o = "ok" THEN issued \cup {account.id} ELSE issued
    /\ Return(c, o)
    /\ UNCHANGED <<accounts, left, logVars, crashes>>

\* Any operation of a player, on either channel: refused by a check, failed
\* before its commit, committed, or committed without anyone knowing (the
\* acknowledgement was lost, or a step after the commit failed).  When the
\* context of the caller ends, a command that a room loop has taken (close,
\* start and bet) stays there.
Operate(c, o) ==
    /\ call[c].pc = "busy" /\ call[c].route = "op"
    /\ \/ o \in {"ok", "refused", "failed", "unacked"} /\ UNCHANGED left
       \/ /\ o = "left" /\ call[c].over
          /\ left' = left \cup {<<c, call[c].n>>}
    /\ Return(c, o)
    /\ UNCHANGED <<accounts, issued, logVars, crashes>>

\* The loop comes to a command that was left: it commits or refuses it, and its
\* reply goes to a channel nobody reads.
LateCommand(x, effect) ==
    /\ x \in left
    /\ left' = left \ {x}
    /\ done' = IF effect THEN done \cup {x} ELSE done
    /\ UNCHANGED <<accounts, issued, call, logVars, crashes>>

\* The handler panics.  Of a request nothing is written before the deferred
\* audit function runs (status stays 0); Recoverer, further out, answers 500.
\* The panic of a session ends its read pump, past its writeAudit.
Panic(c, effect) ==
    /\ call[c].pc = "busy"
    /\ effect => call[c].route = "op"
    /\ call' = [call EXCEPT ![c] = IF c \in Requests
                                   THEN [Kept(c, "none") EXCEPT !.pc = "audit"]
                                   ELSE Over(c, "gone")]
    /\ done' = IF effect THEN done \cup {<<c, call[c].n>>} ELSE done
    /\ UNCHANGED <<accounts, issued, left, logVars, crashes>>

\* The context of the call ends: the client went away, or 30 s (request) or
\* 15 s (event) have passed.  The read of the body does not look at it.
ContextEnds(c) ==
    /\ call[c].pc \in {"body", "busy", "audit"} /\ ~call[c].over
    /\ call' = [call EXCEPT ![c].over = TRUE]
    /\ UNCHANGED <<dbVars, left, logVars, crashes>>
-----------------------------------------------------------------------------
(***************************************************************************)
(* The audit entry.                                                        *)
(***************************************************************************)
\* What follows the audit write: the answer goes out, the session reads on, or
\* a connection that was not accepted is closed.
Audited(c) ==
    CASE c \in Requests -> Over(c, "done")
      [] c \in Sockets /\ call[c].actor = None -> Over(c, "gone")
      [] OTHER -> [call[c] EXCEPT !.pc = "idle", !.route = None, !.over = FALSE]

\* An audit write on the context of the call.
AppendOnCallContext(c) ==
    /\ call[c].pc = "audit"
    /\ trail' = IF call[c].over THEN trail
                ELSE [trail EXCEPT ![c] = Append(@, Entry(c))]
    /\ call' = [call EXCEPT ![c] = Audited(c)]
    /\ UNCHANGED <<dbVars, left, unwritten, crashes>>

\* AuditRepository.Append on a context of its own, outside any transaction.
AppendEntry(c) ==
    /\ call[c].pc = "audit"
    /\ trail' = [trail EXCEPT ![c] = Append(@, Entry(c))]
    /\ call' = [call EXCEPT ![c] = Audited(c)]
    /\ UNCHANGED <<dbVars, left, unwritten, crashes>>

\* A failed audit write that is retried until it succeeds.
AppendRetries(c) ==
    /\ call[c].pc = "audit"
    /\ UNCHANGED vars

\* It fails, at the latest after 5 s (actor_id references players: the insert
\* waits for a player row that is locked); that is logged and swallowed.
AppendFails(c) ==
    /\ call[c].pc = "audit"
    /\ unwritten' = unwritten \cup {<<c, call[c].n>>}
    /\ call' = [call EXCEPT ![c] = Audited(c)]
    /\ UNCHANGED <<dbVars, left, trail, crashes>>
-----------------------------------------------------------------------------
(***************************************************************************)
(* Sockets.                                                                *)
(***************************************************************************)
\* The token was accepted: the client is registered (Hub), then audited.
Accept(s, p) ==
    /\ call' = [call EXCEPT ![s] = [NewCall EXCEPT !.pc = "audit", !.actor = p,
                                                   !.status = "ok"]]
    /\ done' = done \cup {<<s, 0>>}

\* It was not: the refusal is audited without an actor, and the socket closed.
Reject(s) ==
    /\ call' = [call EXCEPT ![s] = [NewCall EXCEPT !.pc = "audit",
                                                   !.status = "refused"]]
    /\ UNCHANGED done

\* NewHandler with a token in the query or the header: 401, or the upgrade,
\* whose failure leaves no trace.
Connect(s, b, expired, upgrades) ==
    /\ call[s].pc = "new" /\ MayBegin
    /\ \/ ~Verify(b, expired) /\ upgrades /\ Reject(s)
       \/ Verify(b, expired) /\ upgrades /\ Accept(s, b)
       \/ /\ Verify(b, expired) /\ ~upgrades
          /\ call' = [call EXCEPT ![s].pc = "gone"]
          /\ UNCHANGED done
    /\ UNCHANGED <<accounts, issued, left, logVars, crashes>>

\* ... and without one: upgraded first, then awaitAuthMessage.
ConnectPlain(s, upgrades) ==
    /\ call[s].pc = "new" /\ MayBegin
    /\ call' = [call EXCEPT ![s].pc = IF upgrades THEN "auth" ELSE "gone"]
    /\ UNCHANGED <<dbVars, left, logVars, crashes>>

\* The first message, or none within authDeadline.
AuthMessage(s, b, expired) ==
    /\ s \in Sockets /\ call[s].pc = "auth"
    /\ IF Verify(b, expired) THEN Accept(s, b) ELSE Reject(s)
    /\ UNCHANGED <<accounts, issued, left, logVars, crashes>>

\* session.handle takes the next message; a malformed or unknown one is refused.
Event(s) ==
    /\ s \in Sockets /\ call[s].pc = "idle" /\ call[s].n < MaxEvents
    /\ call' = [call EXCEPT ![s].pc = "busy", ![s].route = "op", ![s].n = @ + 1,
                            ![s].status = "none"]
    /\ UNCHANGED <<dbVars, left, logVars, crashes>>

\* The socket closes between two messages: readPump ends.
Disconnect(s) ==
    /\ s \in Sockets /\ call[s].pc = "idle"
    /\ call' = [call EXCEPT ![s] = Over(s, "gone")]
    /\ UNCHANGED <<dbVars, left, logVars, crashes>>

\* The process ends: calls and commands are gone, the database stays, and so do
\* the tokens, which the server does not keep.
Crash ==
    /\ crashes < MaxCrashes
    /\ crashes' = crashes + 1
    /\ call' = [c \in Calls |->
                   IF call[c].pc \in {"body", "auth", "busy", "audit", "idle"}
                   THEN Over(c, "lost") ELSE call[c]]
    /\ left' = {}
    /\ UNCHANGED <<dbVars, logVars>>
-----------------------------------------------------------------------------
\* The handler of c comes to its end.
Ends(c) ==
    \E o \in {"ok", "refused", "failed", "unacked", "left"} :
        Register(c, o) \/ Login(c, o) \/ Operate(c, o)

Next ==
    \/ \E c \in Requests :
        \/ \E route \in OpenRoutes : Arrive(c, route, None)
        \/ \E b \in Bearers : Arrive(c, "op", b)
        \/ \E e \in Emails, pw \in Passwords \cup {None} : ReadBody(c, e, pw)
        \/ \E expired \in BOOLEAN : Authenticate(c, expired)
    \/ \E s \in Sockets :
        \/ \E b \in Bearers, expired, upgrades \in BOOLEAN :
              Connect(s, b, expired, upgrades)
        \/ \E upgrades \in BOOLEAN : ConnectPlain(s, upgrades)
        \/ \E b \in Bearers, expired \in BOOLEAN : AuthMessage(s, b, expired)
        \/ Event(s) \/ Disconnect(s)
    \/ \E c \in Calls :
        \/ Ends(c) \/ ContextEnds(c)
        \/ \E effect \in BOOLEAN : Panic(c, effect)
        \/ AppendEntry(c) \/ AppendFails(c)
    \/ \E x \in left, effect \in BOOLEAN : LateCommand(x, effect)
    \/ Crash

Spec == Init /\ [][Next]_vars

\* What a call does on its own once its body is read: the middleware runs,
\* deadlines pass, a handler whose context has ended returns, and an audit write
\* gives up.  Nothing is assumed of a client, which may never send the rest of a
\* body, nor of a room loop; of the database and of Redis only what their drivers
\* promise, that a call returns once its context has ended, and that a ROLLBACK,
\* whose context has no deadline (tx.go), is answered.  An answer is small enough
\* for the buffers of its connection: the server has no WriteTimeout.
GoesOn(c) ==
    \/ \E expired \in BOOLEAN : Authenticate(c, expired)
    \/ AuthMessage(c, None, TRUE)
    \/ ContextEnds(c) \/ (call[c].over /\ Ends(c))
    \/ AppendFails(c)

Fairness == \A c \in Calls : WF_vars(GoesOn(c))

FairSpec == Spec /\ Fairness
-----------------------------------------------------------------------------
CallRecords ==
    [pc : {"new", "body", "auth", "busy", "audit", "idle", "done", "gone", "lost"},
     route : {None, "register", "login", "op"},
     email : Emails \cup {None}, pw : Passwords \cup {None},
     bearer : Players \cup {None}, actor : Players \cup {None},
     status : {"none", "ok", "refused", "error"},
     n : 0..MaxEvents, over : BOOLEAN]

Entries == [n : 0..MaxEvents, actor : Players \cup {None},
            error : {"nil", "refused", "error"}]

\* Type invariant.
TypeOK ==
    /\ accounts \in [Names -> [id : Players, pw : Passwords] \cup {NoAccount}]
    /\ issued \subseteq Players
    /\ call \in [Calls -> CallRecords]
    /\ left \subseteq Calls \X (0..MaxEvents)
    /\ done \subseteq Calls \X (0..MaxEvents)
    /\ trail \in [Calls -> Seq(Entries)]
    /\ unwritten \subseteq Calls \X (0..MaxEvents)
    /\ crashes \in 0..MaxCrashes

\* The entries of event k, a failed write counted as one.
Copies(c, k) ==
    Cardinality({i \in DOMAIN trail[c] : trail[c][i].n = k})
        + (IF <<c, k>> \in unwritten THEN 1 ELSE 0)

\* The events of c whose handling is complete, also by the end of the connection.
\* Of a call lost in a crash it is not known if its last event had been written.
Handled(c) ==
    CASE call[c].pc = "done" -> {0}
      [] call[c].pc \in {"idle", "gone"} -> 0..call[c].n
      [] call[c].pc \in {"busy", "audit", "lost"} -> 0..(call[c].n - 1)
      [] OTHER -> {}

\* The last event of a socket left no entry: its upgrade failed, or its handler
\* panicked past writeAudit.  A connection that ended otherwise has the status of
\* its handshake or of its last event.
Untraced(c) == call[c].pc = "gone" /\ call[c].status = "none"

\* audit.go: "Every REST call and WebSocket event produces exactly one entry".
\* So it is whether the call was refused before its handler, failed, timed out or
\* lost its client, and if a request panicked, unless the write itself failed;
\* and the entries of a socket all name the player of its handshake.  Two kinds of
\* event have no entry at all, against that sentence (README, section 5): a
\* failed upgrade, and an event whose handler panicked.
TrailComplete ==
    \A c \in Calls :
        /\ \A k \in Handled(c) :
               Copies(c, k) = IF Untraced(c) /\ k = call[c].n THEN 0 ELSE 1
        /\ \A i \in DOMAIN trail[c] : trail[c][i].actor = call[c].actor

\* register.go and login.go: of several registrations of one address, in any
\* spelling, the one that was told 201 has the account for good, with its own
\* password; a login is let in by that password only, and then is that player.
AccountIsTheRegistrants ==
    \A c \in Requests : call[c].status = "ok" =>
        LET account == AccountOf(call[c].email) IN
        /\ call[c].route = "register" => account = NewAccount(c)
        /\ call[c].route = "login" =>
            /\ Compare(account, call[c].pw)
            /\ account.id \in issued

\* router.go and handler.go: from the end of the body on, every wait of a call has
\* a deadline of its own, so a call comes to its end although a room loop may
\* never answer.  The body itself has none: a request may wait for it for ever
\* (README, section 5).
CallEnds ==
    \A c \in Calls :
        call[c].pc \in {"auth", "busy", "audit"}
            ~> call[c].pc \in {"done", "idle", "gone", "lost"}

\* docs/ARCHITECTURE.md: "even a panic recovered by Recoverer still gets
\* audited (the panic becomes a 500 ...)".  The entry of a panic has an error.
PanicAuditedAsError ==
    \A c \in Calls : \A i \in DOMAIN trail[c] :
        trail[c][i].error = "nil" => <<c, trail[c][i].n>> \in done

\* audit.go: an Error means that "the operation did not succeed".
ErrorMeansNoEffect ==
    \A c \in Calls : \A i \in DOMAIN trail[c] :
        trail[c][i].error # "nil" => <<c, trail[c][i].n>> \notin done
==============================================================================
