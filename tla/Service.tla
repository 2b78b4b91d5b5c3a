------------------------------ MODULE Service ------------------------------
(***************************************************************************)
(* The service between the listener and the mail providers: server.New's   *)
(* mux and access log, and one contact.Handler per form with its own       *)
(* origins, limiter and mailer.  net/http runs every request on a          *)
(* goroutine of its own, so the requests interleave at every step below.   *)
(*                                                                         *)
(* An attribute of a request is chosen when the code first reads it.  A    *)
(* call of the limiter is one step (MemoryLimiter shows that it may be),   *)
(* and a mailer does what both adapters may do: the provider accepts the   *)
(* message or not, and after accepting it the call may still fail.         *)
(***************************************************************************)
EXTENDS FixedWindow, Sequences, FiniteSets

CONSTANTS
    Requests,       \* the requests of the run
    Forms,          \* the ids a form may have
    Deployments,    \* the sets of forms to try, each what one file configures
    DefaultForm,    \* config.DefaultFormID, also served on /contact
    Origins,        \* the values of the Origin header; none is one that nobody allows
    Allowed,        \* [Forms -> SUBSET Origins]: Handler.origins
    Limit,          \* [Forms -> Int]: RateLimitPerHour
    MaxNow          \* bound: the tick at which the clock stops

ASSUME FormsAssumption ==
    /\ DefaultForm \in Forms
    /\ Deployments \subseteq SUBSET Forms
    /\ Allowed \in [Forms -> SUBSET Origins]
    /\ Limit \in [Forms -> Int]
ASSUME RequestsAssumption == IsFiniteSet(Requests)
ASSUME MaxNowAssumption == MaxNow \in Nat

VARIABLES
    forms,      \* the configured forms
    now,        \* the clock of every limiter
    seen,       \* [Forms -> map of windows]: each handler's limiter
    pc,         \* where each request is
    req,        \* what is known of each request so far
    granted,    \* history: the tick a limiter said yes at, Never or Forgiven
    answer,     \* what the client was sent
    lines,      \* the log lines each request left
    accepted    \* [Forms -> [Requests -> Nat]]: messages each form's provider took

vars == <<forms, now, seen, pc, req, granted, answer, lines, accepted>>

Unread == "unread"
Never == -1        \* not granted
Forgiven == -2     \* granted before the last restart
Bare == "/contact"
UnknownForm == "/contact/other"
Health == "/healthz"
Elsewhere == "/elsewhere"
\* /contact/<id> stands as the id itself.
Paths == Forms \cup {Bare, UnknownForm, Health, Elsewhere}
Methods == {"POST", "OPTIONS", "GET"}
Bodies == {"unreadable", "honeypot", "invalid", "valid"}

\* An id has no slash in it, and an attribute that was read is not Unread.
ASSUME NamesAssumption ==
    /\ Forms \cap {Bare, UnknownForm, Health, Elsewhere} = {}
    /\ Unread \notin Origins

NoAnswer == [status |-> 0, cors |-> FALSE]
Line == [event : {"refused", "dropped", "failed", "sent", "request"},
         status : Nat, level : {"debug", "info", "warn", "error"}]

ServesForm(p) == p \in forms \/ (p = Bare /\ DefaultForm \in forms)
\* The handler the mux finds for a path: /contact is the default form's.
FormOf(p) == IF p = Bare THEN DefaultForm ELSE p

Form(r) == FormOf(req[r].path)
OnForm(r) == ServesForm(req[r].path)
OriginAllowed(r) == req[r].origin \in Allowed[Form(r)]

Init ==
    /\ forms \in Deployments
    /\ now = 0
    /\ seen = [f \in Forms |-> NobodySeen]
    /\ pc = [r \in Requests |-> "waiting"]
    /\ req = [r \in Requests |-> [path |-> Unread, method |-> Unread,
                                  origin |-> Unread, client |-> Unread, body |-> Unread]]
    /\ granted = [r \in Requests |-> Never]
    /\ answer = [r \in Requests |-> NoAnswer]
    /\ lines = [r \in Requests |-> <<>>]
    /\ accepted = [f \in Forms |-> [r \in Requests |-> 0]]

\* The forms whose provider has the message of r.
Mails(r) == {f \in Forms : accepted[f][r] > 0}

Goto(r, place) == pc' = [pc EXCEPT ![r] = place]

Log(r, event, status, level) ==
    lines' = [lines EXCEPT ![r] =
                Append(@, [event |-> event, status |-> status, level |-> level])]

\* writeJSON and every other last word to the client.
Answer(r, status, cors) ==
    /\ answer' = [answer EXCEPT ![r] = [status |-> status, cors |-> cors]]
    /\ Goto(r, "answered")

RefuseLevel(status) == IF status \in {403, 429} THEN "warn" ELSE "info"
\* Faulty variant: the answer without the line.
RefuseSilently(r, status, cors) == Answer(r, status, cors) /\ UNCHANGED lines
\* Handler.refuse: one line saying why, then the answer.
Refuse(r, status, cors) ==
    /\ Log(r, "refused", status, RefuseLevel(status))
    /\ Answer(r, status, cors)

Read(r, field, value) == req' = [req EXCEPT ![r][field] = value]

-----------------------------------------------------------------------------
(* The mux.                                                                *)

Arrive(r) ==
    /\ pc[r] = "waiting"
    /\ \E p \in Paths, m \in Methods :
        req' = [req EXCEPT ![r].path = p, ![r].method = m]
    /\ Goto(r, "routed")
    /\ UNCHANGED <<forms, now, seen, granted, answer, lines, accepted>>

ServeHealth(r) ==
    /\ pc[r] = "routed"
    /\ req[r].path = Health
    /\ Answer(r, 200, FALSE)
    /\ UNCHANGED <<forms, now, seen, req, granted, lines, accepted>>

ServeUnknownForm(r) ==
    /\ pc[r] = "routed"
    /\ req[r].path \in {UnknownForm} \cup (Forms \ forms)
    /\ Log(r, "refused", 404, "warn")
    /\ Answer(r, 404, FALSE)
    /\ UNCHANGED <<forms, now, seen, req, granted, accepted>>

\* Without a default form the mux sends /contact on to the /contact/ it has.
Redirect(r) ==
    /\ pc[r] = "routed"
    /\ req[r].path = Bare
    /\ ~ServesForm(Bare)
    /\ Answer(r, 307, FALSE)
    /\ UNCHANGED <<forms, now, seen, req, granted, lines, accepted>>

ServeElsewhere(r) ==
    /\ pc[r] = "routed"
    /\ req[r].path = Elsewhere
    /\ Answer(r, 404, FALSE)
    /\ UNCHANGED <<forms, now, seen, req, granted, lines, accepted>>

-----------------------------------------------------------------------------
(* Handler.ServeHTTP.                                                      *)

ReadOrigin(r) ==
    /\ pc[r] = "routed"
    /\ OnForm(r)
    /\ \E o \in Origins : Read(r, "origin", o)
    /\ Goto(r, "checking")
    /\ UNCHANGED <<forms, now, seen, granted, answer, lines, accepted>>

\* Faulty variant: every origin is told that it may.
PreflightForAnybody(r) == TRUE
PreflightAllows(r) == OriginAllowed(r)

Preflight(r) ==
    /\ pc[r] = "checking"
    /\ req[r].method = "OPTIONS"
    /\ Answer(r, 204, PreflightAllows(r))
    /\ UNCHANGED <<forms, now, seen, req, granted, lines, accepted>>

WrongMethod(r) ==
    /\ pc[r] = "checking"
    /\ req[r].method \notin {"OPTIONS", "POST"}
    /\ Refuse(r, 405, OriginAllowed(r))
    /\ UNCHANGED <<forms, now, seen, req, granted, accepted>>

WrongOrigin(r) ==
    /\ pc[r] = "checking"
    /\ req[r].method = "POST"
    /\ ~OriginAllowed(r)
    /\ Refuse(r, 403, FALSE)
    /\ UNCHANGED <<forms, now, seen, req, granted, accepted>>

Swept1(r) == Swept(seen[Form(r)], now)

ChecksPassed(r) ==
    /\ pc[r] = "checking"
    /\ req[r].method = "POST"
    /\ OriginAllowed(r)

\* The forms whose limiter a request asks.
\* Faulty variant: one limiter for all of them.
AsksEveryLimiter(r) == Forms
Asks(r) == {Form(r)}

\* limiter.Allow(clientIP.From(r)), granted.
Allow(r) ==
    /\ ChecksPassed(r)
    /\ \E k \in Keys :
        /\ Read(r, "client", k)
        /\ Limit[Form(r)] <= 0 \/ May(Swept1(r), k, Limit[Form(r)])
        /\ seen' = [f \in Forms |-> IF f \in Asks(r) /\ Limit[f] > 0
                                    THEN Counted(Swept(seen[f], now), k, now) ELSE seen[f]]
    /\ granted' = [granted EXCEPT ![r] = now]
    /\ Goto(r, "decoding")
    /\ UNCHANGED <<forms, now, answer, lines, accepted>>

TooMany(r) ==
    /\ ChecksPassed(r)
    /\ Limit[Form(r)] > 0
    /\ \E k \in Keys :
        /\ Read(r, "client", k)
        /\ ~May(Swept1(r), k, Limit[Form(r)])
    /\ seen' = [seen EXCEPT ![Form(r)] = Swept1(r)]
    /\ Refuse(r, 429, TRUE)
    /\ UNCHANGED <<forms, now, granted, accepted>>

\* decode: the body is read and parsed.
Decode(r) ==
    /\ pc[r] = "decoding"
    /\ \E b \in Bodies :
        /\ Read(r, "body", b)
        /\ \/ b = "unreadable" /\ Refuse(r, 400, TRUE)
           \/ b # "unreadable" /\ Goto(r, "validating") /\ UNCHANGED <<answer, lines>>
    /\ UNCHANGED <<forms, now, seen, granted, accepted>>

\* validate: a honeypot is answered exactly as a success is.
DropSpam(r) ==
    /\ pc[r] = "validating"
    /\ req[r].body = "honeypot"
    /\ Log(r, "dropped", 202, "info")
    /\ Answer(r, 202, TRUE)
    /\ UNCHANGED <<forms, now, seen, req, granted, accepted>>

Invalid(r) ==
    /\ pc[r] = "validating"
    /\ req[r].body = "invalid"
    /\ Refuse(r, 422, TRUE)
    /\ UNCHANGED <<forms, now, seen, req, granted, accepted>>

\* Faulty variant: the honeypot is forgotten.
MailableUnlessInvalid(body) == body # "invalid"
Mailable(body) == body = "valid"

Valid(r) ==
    /\ pc[r] = "validating"
    /\ Mailable(req[r].body)
    /\ Goto(r, "delivering")
    /\ UNCHANGED <<forms, now, seen, req, granted, answer, lines, accepted>>

-----------------------------------------------------------------------------
(* Handler.deliver.                                                        *)

SubjectFails(r) ==
    /\ pc[r] = "delivering"
    /\ Log(r, "failed", 500, "error")
    /\ Answer(r, 500, TRUE)
    /\ UNCHANGED <<forms, now, seen, req, granted, accepted>>

CallMailer(r) ==
    /\ pc[r] = "delivering"
    /\ Goto(r, "sending")
    /\ UNCHANGED <<forms, now, seen, req, granted, answer, lines, accepted>>

\* The provider behind this form's mailer takes the message.
ProviderAccepts(r) ==
    /\ pc[r] = "sending"
    /\ accepted' = [accepted EXCEPT ![Form(r)][r] = @ + 1]
    /\ Goto(r, "taken")
    /\ UNCHANGED <<forms, now, seen, req, granted, answer, lines>>

\* A provider may take a message late: when Send has already failed, or the
\* process that called it is gone.
ProviderAcceptsLate(r) ==
    /\ pc[r] = "orphaned" \/ answer[r].status = 502
    /\ Mails(r) = {}
    /\ accepted' = [accepted EXCEPT ![Form(r)][r] = @ + 1]
    /\ UNCHANGED <<forms, now, seen, pc, req, granted, answer, lines>>

\* Send returns an error, before the provider took the message or after.
SendFails(r) ==
    /\ pc[r] \in {"sending", "taken"}
    /\ Log(r, "failed", 502, "error")
    /\ Answer(r, 502, TRUE)
    /\ UNCHANGED <<forms, now, seen, req, granted, accepted>>

\* Faulty variant: Send reports success before the provider has answered.
HeardNothing(r) == pc[r] \in {"sending", "taken"}
HeardItTaken(r) == pc[r] = "taken"

SendSucceeds(r) ==
    /\ HeardItTaken(r)
    /\ Log(r, "sent", 202, "info")
    /\ Answer(r, 202, TRUE)
    /\ UNCHANGED <<forms, now, seen, req, granted, accepted>>

-----------------------------------------------------------------------------
(* The access log, written when the handler has returned.                  *)

\* Faulty variant: refusals drown among the successes.
LevelForFailuresOnly(path, status) ==
    CASE path = Health -> "debug"
      [] path # Health /\ status >= 500 -> "error"
      [] OTHER -> "info"
\* Faulty variant: a status nobody thought of has no level.
LevelForSome(path, status) ==
    CASE path = Health -> "debug"
      [] path # Health /\ status >= 500 -> "error"
      [] path # Health /\ status \in {403, 404, 429} -> "warn"
      [] OTHER -> ""
LevelFor(path, status) ==
    CASE path = Health -> "debug"
      [] path # Health /\ status >= 500 -> "error"
      [] path # Health /\ status \in 400 .. 499 -> "warn"
      [] OTHER -> "info"

\* Faulty variant: health checks are left out of the log altogether.
LoggedUnlessHealth(path) == path # Health
Logged(path) == TRUE

AccessLine(r) ==
    /\ pc[r] = "answered"
    /\ Logged(req[r].path)
    /\ Log(r, "request", answer[r].status, LevelFor(req[r].path, answer[r].status))
    /\ Goto(r, "done")
    /\ UNCHANGED <<forms, now, seen, req, granted, answer, accepted>>

Tick ==
    /\ now < MaxNow
    /\ now' = now + 1
    /\ UNCHANGED <<forms, seen, pc, req, granted, answer, lines, accepted>>

\* The process dies: requests under way are lost, and New starts every limiter
\* afresh. What a provider took stays taken.
Restart ==
    /\ seen' = [f \in Forms |-> NobodySeen]
    /\ pc' = [r \in Requests |->
                CASE pc[r] \in {"waiting", "done"} -> pc[r]
                  [] pc[r] \in {"sending", "orphaned"} -> "orphaned"
                  [] OTHER -> "lost"]
    /\ granted' = [r \in Requests |-> IF granted[r] = Never THEN Never ELSE Forgiven]
    /\ UNCHANGED <<forms, now, req, answer, lines, accepted>>

HandlerStep(r) ==
    \/ ServeHealth(r) \/ ServeUnknownForm(r) \/ Redirect(r) \/ ServeElsewhere(r)
    \/ ReadOrigin(r) \/ Preflight(r) \/ WrongMethod(r) \/ WrongOrigin(r)
    \/ Allow(r) \/ TooMany(r)
    \/ Decode(r) \/ DropSpam(r) \/ Invalid(r) \/ Valid(r)
    \/ SubjectFails(r) \/ CallMailer(r)
    \/ ProviderAccepts(r) \/ SendFails(r) \/ SendSucceeds(r)
    \/ AccessLine(r)

Next ==
    \/ Tick
    \/ Restart
    \/ \E r \in Requests : Arrive(r) \/ HandlerStep(r) \/ ProviderAcceptsLate(r)

(***************************************************************************)
(* A handler that has begun runs on: reading the body ends by ReadTimeout, *)
(* Send by its own deadline, and the limiter's calls return.               *)
(***************************************************************************)
Spec == Init /\ [][Next]_vars /\ \A r \in Requests : WF_vars(HandlerStep(r))

-----------------------------------------------------------------------------
Places == {"waiting", "routed", "checking", "decoding", "validating", "delivering",
           "sending", "taken", "answered", "done", "lost", "orphaned"}

TypeOK ==
    /\ forms \in Deployments
    /\ now \in 0 .. MaxNow
    /\ seen \in [Forms -> [Keys -> Window]]
    /\ pc \in [Requests -> Places]
    /\ \A r \in Requests :
        /\ req[r].path \in Paths \cup {Unread}
        /\ req[r].method \in Methods \cup {Unread}
        /\ req[r].origin \in Origins \cup {Unread}
        /\ req[r].client \in Keys \cup {Unread}
        /\ req[r].body \in Bodies \cup {Unread}
        /\ granted[r] \in 0 .. MaxNow \cup {Never, Forgiven}
        /\ answer[r] \in [status : Nat, cors : BOOLEAN]
        /\ \A i \in DOMAIN lines[r] : lines[r][i] \in Line
    /\ accepted \in [Forms -> [Requests -> Nat]]

Finished(r) == pc[r] \in {"answered", "done"}

(***************************************************************************)
(* A provider is handed a message only for a POST from an origin of the    *)
(* form that was posted to, granted by the limiter and holding a valid     *)
(* submission; only that form's provider, and once.  A message never       *)
(* reaches another form's inbox.                                           *)
(***************************************************************************)
MailIsCleared ==
    \A r \in Requests, f \in Forms : accepted[f][r] > 0 =>
        /\ accepted[f][r] = 1
        /\ req[r].path = f \/ (req[r].path = Bare /\ f = DefaultForm)
        /\ req[r].method = "POST"
        /\ req[r].origin \in Allowed[f]
        /\ req[r].body = "valid"
        /\ granted[r] # Never

(***************************************************************************)
(* What the answer tells the visitor: 202 to an honest submission means a  *)
(* provider has it, and a refusal or a 500 that nobody has it and nobody   *)
(* will.  Only 502 leaves it open.  A honeypot gets the answer a success   *)
(* gets, and no mail.                                                      *)
(***************************************************************************)
AnswerTellsOutcome ==
    \A r \in Requests : Finished(r) =>
        /\ answer[r].status = 202 /\ req[r].body = "valid" => Mails(r) # {}
        /\ answer[r].status \notin {202, 502} => Mails(r) = {}
        /\ req[r].body = "honeypot" => answer[r] = [status |-> 202, cors |-> TRUE]
                                       /\ Mails(r) = {}

(***************************************************************************)
(* A page can read an answer exactly when its origin is one of the form's, *)
(* whichever way the request ended.                                        *)
(***************************************************************************)
OnlyOwnOriginsRead ==
    \A r \in Requests : Finished(r) =>
        (answer[r].cors <=> OnForm(r) /\ req[r].origin \in Allowed[Form(r)])

(***************************************************************************)
(* Every answered request left one access line, the last, with the status  *)
(* the client was sent; before it, one line that says why, except for the  *)
(* answers that need none (preflight, health, a path nobody serves, the    *)
(* redirect of /contact where no form is called default).                  *)
(***************************************************************************)
NeedsReason(r) ==
    \/ req[r].path \in {UnknownForm} \cup (Forms \ forms)
    \/ OnForm(r) /\ req[r].method # "OPTIONS"

LogAccountsForAnswer ==
    \A r \in Requests : pc[r] = "done" =>
        LET n == IF NeedsReason(r) THEN 2 ELSE 1 IN
        /\ Len(lines[r]) = n
        /\ \A i \in 1 .. n :
            /\ lines[r][i].event = "request" <=> i = n
            /\ lines[r][i].status = answer[r].status

(***************************************************************************)
(* At level warn nothing that went missing is invisible: a submission that *)
(* did not become mail, unless it was a honeypot, leaves a line at warn or *)
(* error; a success and a health probe leave none.                         *)
(***************************************************************************)
LossesAreVisible ==
    \A r \in Requests : pc[r] = "done" =>
        LET loud == \E i \in DOMAIN lines[r] : lines[r][i].level \in {"warn", "error"} IN
        /\ OnForm(r) /\ req[r].method = "POST" /\ Mails(r) = {} /\ req[r].body # "honeypot"
             => loud
        /\ answer[r].status < 400 \/ req[r].path = Health => ~loud

(***************************************************************************)
(* A caller's open window on a form counts the requests that form granted  *)
(* it, by /contact and by /contact/<id> alike, those that came to nothing  *)
(* included, and no request of another form.                               *)
(***************************************************************************)
AllowanceIsPerForm ==
    \A f \in Forms, k \in Keys :
        LET w == seen[f][k]
            spent == {r \in Requests :
                        /\ OnForm(r) /\ Form(r) = f
                        /\ req[r].client = k
                        /\ granted[r] >= w.reset - Period /\ granted[r] >= 0}
        IN  Limit[f] > 0 /\ w # Absent =>
              /\ Cardinality(spent) = w.count
              /\ w.count <= Limit[f]

(***************************************************************************)
(* A request that is not a cleared submission costs nobody anything: apart *)
(* from a restart, a limiter changes only when a POST to its own form from *)
(* one of its origins asks it.                                             *)
(***************************************************************************)
OnlySubmissionsAreCounted ==
    [][\A f \in Forms : seen'[f] # seen[f] =>
         \/ seen' = [g \in Forms |-> NobodySeen]
         \/ \E r \in Requests :
              /\ pc[r] = "checking" /\ pc'[r] # "checking"
              /\ Form(r) = f
              /\ req[r].method = "POST"
              /\ req[r].origin \in Allowed[f]]_vars

(***************************************************************************)
(* What a request does to its form's provider, and what the handler makes  *)
(* of it, is a call of a Mailer at every step, a restart in its middle     *)
(* included: so whatever the adapters are shown to do as Mailers is all    *)
(* that this module lets them do (contact.go:16-18, handler.go:213-227).   *)
(***************************************************************************)
Call(r) == INSTANCE Mailer WITH
    deliveries <- Cardinality(Mails(r)),
    result <- CASE answer[r].status = 502 -> "error"
                [] answer[r].status = 202 /\ req[r].body # "honeypot" -> "nil"
                [] OTHER -> "pending"

SendsAreMailerCalls ==
    [][\A r \in Requests : Call(r)!Next \/ UNCHANGED Call(r)!vars]_vars

(***************************************************************************)
(* Every request is answered and logged, unless the process dies under it. *)
(***************************************************************************)
EveryRequestEnds == \A r \in Requests : pc[r] = "routed" ~> pc[r] \in {"done", "lost", "orphaned"}
=============================================================================
