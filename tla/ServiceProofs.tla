--------------------------- MODULE ServiceProofs ---------------------------
(***************************************************************************)
(* The way of a request, for every number of requests, forms, origins and  *)
(* clients and every set of limits.  One invariant says of each place what *)
(* is settled there about the request, its answer, its lines and its mail; *)
(* a second one relates the windows to the requests that were granted.     *)
(***************************************************************************)
EXTENDS Service, FiniteSetTheorems, TLAPS

-----------------------------------------------------------------------------
(* What the operators of FixedWindow return and keep.                      *)

\* Sweeping keeps the map a map of windows.
LEMMA SweptType ==
    ASSUME NEW s \in [Keys -> Window], NEW t \in Nat
    PROVE  Swept(s, t) \in [Keys -> Window]
  BY DEF Swept, Window, Absent, Expired

\* Sweeping leaves a window alone or, when it has expired, empties it.
LEMMA SweptValue ==
    ASSUME NEW s \in [Keys -> Window], NEW t \in Nat, NEW k \in Keys
    PROVE  /\ Expired(s[k], t) => Swept(s, t)[k] = Absent
           /\ ~Expired(s[k], t) => Swept(s, t)[k] = s[k]
  BY DEF Swept

\* Counting keeps the map a map of windows.
LEMMA CountedType ==
    ASSUME NEW s \in [Keys -> Window], NEW t \in Nat, NEW k \in Keys
    PROVE  Counted(s, k, t) \in [Keys -> Window]
  BY PeriodAssumption DEF Counted, Window, Absent

\* Counting touches one caller: it opens a window, or adds one to the count.
LEMMA CountedValue ==
    ASSUME NEW s \in [Keys -> Window], NEW t \in Nat, NEW k \in Keys, NEW j \in Keys
    PROVE  /\ j # k => Counted(s, k, t)[j] = s[j]
           /\ s[k] = Absent =>
                Counted(s, k, t)[k] = [count |-> 1, reset |-> t + Period]
           /\ s[k] # Absent =>
                Counted(s, k, t)[k] = [count |-> s[k].count + 1, reset |-> s[k].reset]
  BY DEF Counted, Window

-----------------------------------------------------------------------------
(* Type correctness.                                                       *)

Request == [path : Paths \cup {Unread}, method : Methods \cup {Unread},
            origin : Origins \cup {Unread}, client : Keys \cup {Unread},
            body : Bodies \cup {Unread}]

Typed ==
    /\ forms \in Deployments
    /\ now \in 0 .. MaxNow
    /\ seen \in [Forms -> [Keys -> Window]]
    /\ pc \in [Requests -> Places]
    /\ req \in [Requests -> Request]
    /\ granted \in [Requests -> 0 .. MaxNow \cup {Never, Forgiven}]
    /\ answer \in [Requests -> [status : Nat, cors : BOOLEAN]]
    /\ lines \in [Requests -> Seq(Line)]
    /\ accepted \in [Forms -> [Requests -> Nat]]

\* Writing down an attribute of a request of the right kind.
LEMMA ReadTyped ==
    ASSUME req \in [Requests -> Request], NEW r \in Requests
    PROVE  /\ \A o \in Origins : Read(r, "origin", o) => req' \in [Requests -> Request]
           /\ \A k \in Keys : Read(r, "client", k) => req' \in [Requests -> Request]
           /\ \A b \in Bodies : Read(r, "body", b) => req' \in [Requests -> Request]
  BY DEF Read, Request

\* One more message of r in the box of a form, if there is such a form.
LEMMA AcceptedTyped ==
    ASSUME accepted \in [Forms -> [Requests -> Nat]], NEW r \in Requests, NEW f,
           accepted' = [accepted EXCEPT ![f][r] = @ + 1]
    PROVE  accepted' \in [Forms -> [Requests -> Nat]]
<1>1. CASE f \in Forms
  BY <1>1
<1>2. CASE f \notin Forms
  BY <1>2
<1> QED
  BY <1>1, <1>2

LEMMA TypedInit == Init => Typed
<1> SUFFICES ASSUME Init PROVE Typed
  OBVIOUS
<1>1. NobodySeen \in [Keys -> Window]
  BY DEF NobodySeen, Absent, Window
<1>2. req \in [Requests -> Request]
  BY DEF Init, Request
<1> QED
  BY <1>1, <1>2, MaxNowAssumption DEF Init, Typed, Places, NoAnswer

LEMMA TypedStep ==
    ASSUME Typed, NEW r \in Requests, HandlerStep(r)
    PROVE  Typed'
<1> USE DEF Typed
<1>1. CASE ServeHealth(r)
  BY <1>1 DEF ServeHealth, Answer, Goto, Places
<1>2. CASE ServeUnknownForm(r)
  BY <1>2 DEF ServeUnknownForm, Answer, Log, Line, Goto, Places
<1>3. CASE Redirect(r)
  BY <1>3 DEF Redirect, Answer, Goto, Places
<1>4. CASE ServeElsewhere(r)
  BY <1>4 DEF ServeElsewhere, Answer, Goto, Places
<1>5. CASE ReadOrigin(r)
  BY <1>5, ReadTyped DEF ReadOrigin, Goto, Places
<1>6. CASE Preflight(r)
  BY <1>6 DEF Preflight, PreflightAllows, OriginAllowed, Answer, Goto, Places
<1>7. CASE WrongMethod(r)
  BY <1>7 DEF WrongMethod, OriginAllowed, Refuse, RefuseLevel, Answer, Log, Line, Goto, Places
<1>8. CASE WrongOrigin(r)
  BY <1>8 DEF WrongOrigin, Refuse, RefuseLevel, Answer, Log, Line, Goto, Places
<1>9. CASE Allow(r)
  <2>1. PICK k \in Keys :
          /\ Read(r, "client", k)
          /\ seen' = [f \in Forms |-> IF f \in Asks(r) /\ Limit[f] > 0
                                      THEN Counted(Swept(seen[f], now), k, now) ELSE seen[f]]
    BY <1>9 DEF Allow
  <2>2. now \in Nat
    BY MaxNowAssumption
  <2>3. \A f \in Forms : Counted(Swept(seen[f], now), k, now) \in [Keys -> Window]
    BY <2>2, SweptType, CountedType
  <2>4. seen' \in [Forms -> [Keys -> Window]]
    BY <2>1, <2>3
  <2>5. req' \in [Requests -> Request]
    BY <2>1, ReadTyped
  <2>6. granted' \in [Requests -> 0 .. MaxNow \cup {Never, Forgiven}]
    BY <1>9 DEF Allow
  <2> QED
    BY <1>9, <2>4, <2>5, <2>6 DEF Allow, Goto, Places
<1>10. CASE TooMany(r)
  <2>0. now \in Nat
    BY MaxNowAssumption
  <2>1. \A f \in Forms : Swept(seen[f], now) \in [Keys -> Window]
    BY <2>0, SweptType
  <2>2. seen' \in [Forms -> [Keys -> Window]]
    BY <1>10, <2>1 DEF TooMany, Swept1
  <2>3. req' \in [Requests -> Request]
    BY <1>10, ReadTyped DEF TooMany
  <2>4. Refuse(r, 429, TRUE) /\ UNCHANGED <<forms, now, granted, accepted>>
    BY <1>10 DEF TooMany
  <2> QED
    BY <2>2, <2>3, <2>4 DEF Refuse, RefuseLevel, Answer, Log, Line, Goto, Places
<1>11. CASE Decode(r)
  <2>1. PICK b \in Bodies :
          /\ Read(r, "body", b)
          /\ \/ Refuse(r, 400, TRUE)
             \/ Goto(r, "validating") /\ UNCHANGED <<answer, lines>>
    BY <1>11 DEF Decode
  <2>2. req' \in [Requests -> Request]
    BY <2>1, ReadTyped
  <2>3. UNCHANGED <<forms, now, seen, granted, accepted>>
    BY <1>11 DEF Decode
  <2>4. CASE Refuse(r, 400, TRUE)
    BY <2>2, <2>3, <2>4 DEF Refuse, RefuseLevel, Answer, Log, Line, Goto, Places
  <2>5. CASE Goto(r, "validating") /\ UNCHANGED <<answer, lines>>
    BY <2>2, <2>3, <2>5 DEF Goto, Places
  <2> QED
    BY <2>1, <2>4, <2>5
<1>12. CASE DropSpam(r)
  BY <1>12 DEF DropSpam, Answer, Log, Line, Goto, Places
<1>13. CASE Invalid(r)
  BY <1>13 DEF Invalid, Refuse, RefuseLevel, Answer, Log, Line, Goto, Places
<1>14. CASE Valid(r)
  BY <1>14 DEF Valid, Goto, Places
<1>15. CASE SubjectFails(r)
  BY <1>15 DEF SubjectFails, Answer, Log, Line, Goto, Places
<1>16. CASE CallMailer(r)
  BY <1>16 DEF CallMailer, Goto, Places
<1>17. CASE ProviderAccepts(r)
  <2>1. accepted' \in [Forms -> [Requests -> Nat]]
    BY <1>17, AcceptedTyped DEF ProviderAccepts
  <2> QED
    BY <1>17, <2>1 DEF ProviderAccepts, Goto, Places
<1>18. CASE SendFails(r)
  BY <1>18 DEF SendFails, Answer, Log, Line, Goto, Places
<1>19. CASE SendSucceeds(r)
  BY <1>19 DEF SendSucceeds, Answer, Log, Line, Goto, Places
<1>20. CASE AccessLine(r)
  <2>1. LevelFor(req[r].path, answer[r].status) \in {"debug", "info", "warn", "error"}
    BY DEF LevelFor
  <2>2. answer[r].status \in Nat
    OBVIOUS
  <2> QED
    BY <1>20, <2>1, <2>2 DEF AccessLine, Log, Line, Goto, Places
<1> QED
  BY <1>1, <1>2, <1>3, <1>4, <1>5, <1>6, <1>7, <1>8, <1>9, <1>10, <1>11, <1>12, <1>13,
     <1>14, <1>15, <1>16, <1>17, <1>18, <1>19, <1>20 DEF HandlerStep

LEMMA TypedNext == Typed /\ [Next]_vars => Typed'
<1> SUFFICES ASSUME Typed, [Next]_vars PROVE Typed'
  OBVIOUS
<1>1. CASE Tick
  BY <1>1, MaxNowAssumption DEF Typed, Tick
<1>2. CASE Restart
  <2>1. NobodySeen \in [Keys -> Window]
    BY DEF NobodySeen, Absent, Window
  <2> QED
    BY <1>2, <2>1 DEF Typed, Restart, Places
<1>3. ASSUME NEW r \in Requests, Arrive(r) PROVE Typed'
  <2>0. PICK p \in Paths, m \in Methods :
          req' = [req EXCEPT ![r].path = p, ![r].method = m]
    BY <1>3 DEF Arrive
  <2>1. req' \in [Requests -> Request]
    BY <2>0 DEF Typed, Request
  <2> QED
    BY <1>3, <2>1 DEF Arrive, Typed, Goto, Places
<1>4. ASSUME NEW r \in Requests, HandlerStep(r) PROVE Typed'
  BY <1>4, TypedStep
<1>5. ASSUME NEW r \in Requests, ProviderAcceptsLate(r) PROVE Typed'
  BY <1>5, AcceptedTyped DEF Typed, ProviderAcceptsLate
<1>6. CASE UNCHANGED vars
  BY <1>6 DEF Typed, vars
<1> QED
  BY <1>1, <1>2, <1>3, <1>4, <1>5, <1>6 DEF Next

\* Every step keeps the variables in their types.
THEOREM TypeCorrect == Spec => []TypeOK
<1>1. Typed => TypeOK
  BY DEF Typed, TypeOK, Request
<1> QED
  BY <1>1, TypedInit, TypedNext, PTL DEF Spec

-----------------------------------------------------------------------------
(* What is settled about a request, place by place.                        *)

Unanswered == {"waiting", "routed", "checking", "decoding", "validating", "delivering",
               "sending", "taken", "orphaned"}
Granted == {"decoding", "validating", "delivering", "sending", "taken", "orphaned"}
Submitted == {"delivering", "sending", "taken", "orphaned"}

\* A POST to a form, from one of its origins, that its limiter let through.
Passed(r) ==
    /\ OnForm(r)
    /\ req[r].method = "POST"
    /\ req[r].origin \in Allowed[Form(r)]
    /\ granted[r] # Never

\* What has not been read yet, and what the checks behind it have shown.
OnItsWay(r) ==
    /\ pc[r] \in Unanswered => answer[r] = NoAnswer /\ lines[r] = <<>>
    /\ pc[r] \in {"waiting", "routed"} => req[r].origin = Unread
    /\ pc[r] \in {"waiting", "routed", "checking"} => granted[r] = Never
    /\ pc[r] \in {"waiting", "routed", "checking", "decoding"} => req[r].body = Unread
    /\ pc[r] = "checking" => OnForm(r)
    /\ pc[r] \in Granted => Passed(r)
    /\ pc[r] \in Submitted => req[r].body = "valid"

\* Mail is of a cleared submission, in the box of its form, once; and where the
\* handler is before its mailer's call there is none.
Mailed(r) ==
    /\ \A f \in Forms : accepted[f][r] > 0 =>
        accepted[f][r] = 1 /\ f = Form(r) /\ Passed(r) /\ req[r].body = "valid"
    /\ pc[r] \in Unanswered \ {"taken", "orphaned"} => \A f \in Forms : accepted[f][r] = 0
    /\ pc[r] = "taken" => accepted[Form(r)][r] = 1

\* What the answer says of the mail, of the origin and of the form.
AnsweredTruly(r) ==
    /\ Finished(r) =>
        /\ answer[r].status = 202 /\ req[r].body # "honeypot"
             => \E f \in Forms : accepted[f][r] > 0
        /\ answer[r].status \notin {202, 502} => \A f \in Forms : accepted[f][r] = 0
        /\ req[r].body = "honeypot" =>
             answer[r] = [status |-> 202, cors |-> TRUE] /\ \A f \in Forms : accepted[f][r] = 0
        /\ answer[r].cors <=> OnForm(r) /\ req[r].origin \in Allowed[Form(r)]
        /\ OnForm(r) /\ req[r].method = "POST" => answer[r].status \in {202} \cup 400 .. 599
    /\ answer[r].status = 502 =>
        Passed(r) /\ req[r].body = "valid" /\ pc[r] \in {"answered", "done", "lost"}

Loud(line) == line.level \in {"warn", "error"}
Failure(r) == answer[r].status >= 400 /\ req[r].path # Health

\* The line that says why, then the access line.
Accounted(r) ==
    /\ pc[r] = "answered" =>
        /\ Len(lines[r]) = IF NeedsReason(r) THEN 1 ELSE 0
        /\ NeedsReason(r) =>
            /\ lines[r][1].event # "request"
            /\ lines[r][1].status = answer[r].status
            /\ Loud(lines[r][1]) => Failure(r)
    /\ pc[r] = "done" =>
        LET n == IF NeedsReason(r) THEN 2 ELSE 1 IN
        /\ Len(lines[r]) = n
        /\ \A i \in 1 .. n : /\ lines[r][i].event = "request" <=> i = n
                             /\ lines[r][i].status = answer[r].status
                             /\ Loud(lines[r][i]) => Failure(r)
        /\ Failure(r) => Loud(lines[r][n])

Story(r) == OnItsWay(r) /\ Mailed(r) /\ AnsweredTruly(r) /\ Accounted(r)

Stories == \A r \in Requests : Story(r)

-----------------------------------------------------------------------------
(* The windows and the requests that were granted.                         *)

\* The requests a window was spent on.
OfCaller(f, k) == {r \in Requests : OnForm(r) /\ Form(r) = f /\ req[r].client = k /\ granted[r] >= 0}
Spent(f, k) == {r \in OfCaller(f, k) : granted[r] >= seen[f][k].reset - Period}

\* A window counts the requests of its caller since it opened, and none was
\* granted after it ended; it opened at a tick that has been. A caller without one
\* was granted nothing at this tick.
Account(f, k) ==
    /\ seen[f][k] # Absent =>
        /\ \A r \in OfCaller(f, k) : granted[r] <= seen[f][k].reset
        /\ seen[f][k].reset <= now + Period
        /\ Cardinality(Spent(f, k)) = seen[f][k].count
        /\ seen[f][k].count <= Limit[f]
    /\ seen[f][k] = Absent => \A r \in OfCaller(f, k) : granted[r] < now

Accounts ==
    /\ \A r \in Requests : granted[r] <= now
    /\ \A f \in Forms, k \in Keys : Limit[f] > 0 => Account(f, k)

-----------------------------------------------------------------------------
(* The story of a request is kept by every step.                           *)

\* A request on a form has one that is configured, and a reason for its line
\* unless it is a preflight.
LEMMA FormsOfRequests ==
    ASSUME Typed, NEW r \in Requests
    PROVE  /\ OnForm(r) => /\ Form(r) \in Forms
                           /\ req[r].path # Health
                           /\ NeedsReason(r) <=> req[r].method # "OPTIONS"
           /\ req[r].path \in {Health, Elsewhere} => ~NeedsReason(r) /\ ~OnForm(r)
           /\ req[r].path = Bare /\ ~ServesForm(Bare) => ~NeedsReason(r) /\ ~OnForm(r)
           /\ req[r].path \in {UnknownForm} \cup (Forms \ forms) =>
                NeedsReason(r) /\ ~OnForm(r) /\ req[r].path # Health
  BY FormsAssumption, NamesAssumption
     DEF Typed, OnForm, ServesForm, Form, FormOf, NeedsReason,
         Bare, UnknownForm, Health, Elsewhere

\* A step of somebody else's leaves a request's story alone.
LEMMA StoryFrame ==
    ASSUME Typed, NEW q \in Requests, Story(q), forms' = forms,
           pc'[q] = pc[q], req'[q] = req[q], granted'[q] = granted[q],
           answer'[q] = answer[q], lines'[q] = lines[q],
           \A f \in Forms : accepted'[f][q] = accepted[f][q]
    PROVE  Story(q)'
<1> USE DEF Passed, OnForm, ServesForm, Form
<1>1. OnItsWay(q)'
  BY DEF Story, OnItsWay
<1>2. Mailed(q)'
  BY FormsOfRequests DEF Story, OnItsWay, Mailed, Granted
<1>3. AnsweredTruly(q)'
  BY DEF Story, AnsweredTruly, Finished
<1>4. Accounted(q)'
  BY DEF Story, Accounted, NeedsReason, Failure, Loud
<1> QED
  BY <1>1, <1>2, <1>3, <1>4 DEF Story

\* A step leaves the line that says why, where the answer needs one.
LeavesReason(r, status) ==
    /\ NeedsReason(r) =>
         \E event \in {"refused", "dropped", "failed", "sent"},
            level \in {"debug", "info", "warn", "error"} :
              /\ Log(r, event, status, level)
              /\ level \in {"warn", "error"} => status >= 400 /\ req[r].path # Health
    /\ ~NeedsReason(r) => UNCHANGED lines

\* A step answers, and at most reads the body besides.
OnlyAnswers(r, status, cors) ==
    /\ Answer(r, status, cors)
    /\ UNCHANGED <<forms, accepted>>
    /\ granted'[r] = granted[r]
    /\ req'[r].path = req[r].path
    /\ req'[r].method = req[r].method
    /\ req'[r].origin = req[r].origin
    /\ req'[r].body # req[r].body => \A f \in Forms : accepted[f][r] = 0

\* What it answers is true of the mail, and of the form and the origin.
TrueOfMail(r, status, cors) ==
    /\ status = 202 /\ req'[r].body # "honeypot" => \E f \in Forms : accepted[f][r] > 0
    /\ status \notin {202, 502} => \A f \in Forms : accepted[f][r] = 0
    /\ req'[r].body = "honeypot" =>
         /\ status = 202
         /\ cors = TRUE
         /\ \A f \in Forms : accepted[f][r] = 0
    /\ status = 502 => Passed(r) /\ req'[r].body = "valid"

TrueOfForm(r, status, cors) ==
    /\ cors <=> OnForm(r) /\ req[r].origin \in Allowed[Form(r)]
    /\ OnForm(r) /\ req[r].method = "POST" => status \in {202} \cup 400 .. 599

LEMMA StoryAnswered ==
    ASSUME Typed, Typed', NEW r \in Requests, Story(r), pc[r] \in Unanswered,
           NEW status \in Nat, NEW cors \in BOOLEAN,
           LeavesReason(r, status), OnlyAnswers(r, status, cors),
           TrueOfMail(r, status, cors), TrueOfForm(r, status, cors)
    PROVE  Story(r)'
<1> USE DEF Typed, OnlyAnswers
<1>1. /\ pc'[r] = "answered"
      /\ answer'[r] = [status |-> status, cors |-> cors]
      /\ answer'[r].status = status /\ answer'[r].cors = cors
  BY DEF Answer, Goto
<1>2. OnItsWay(r)'
  BY <1>1 DEF OnItsWay, Unanswered, Granted, Submitted
<1>3. (OnForm(r)' <=> OnForm(r)) /\ Form(r)' = Form(r) /\ (NeedsReason(r)' <=> NeedsReason(r))
  BY DEF OnForm, ServesForm, Form, NeedsReason
<1>4. Passed(r)' <=> Passed(r)
  BY <1>3 DEF Passed
<1>5. Mailed(r)'
  BY <1>1, <1>3, <1>4 DEF Story, Mailed, Unanswered
<1>6. AnsweredTruly(r)'
  <2>1. answer'[r].cors <=> OnForm(r)' /\ req'[r].origin \in Allowed[Form(r)']
    BY <1>1, <1>3 DEF TrueOfForm
  <2>2. /\ status = 202 /\ req'[r].body # "honeypot" => \E f \in Forms : accepted'[f][r] > 0
        /\ status \notin {202, 502} => \A f \in Forms : accepted'[f][r] = 0
        /\ req'[r].body = "honeypot" => \A f \in Forms : accepted'[f][r] = 0
    BY DEF TrueOfMail
  <2>3. req'[r].body = "honeypot" => answer'[r] = [status |-> 202, cors |-> TRUE]
    BY <1>1 DEF TrueOfMail
  <2>4. OnForm(r)' /\ req'[r].method = "POST" => status \in {202} \cup 400 .. 599
    BY <1>3 DEF TrueOfForm
  <2>5. status = 502 => Passed(r)' /\ req'[r].body = "valid" /\ pc'[r] = "answered"
    BY <1>1, <1>4 DEF TrueOfMail
  <2> QED
    BY <1>1, <2>1, <2>2, <2>3, <2>4, <2>5 DEF AnsweredTruly
<1>7. Accounted(r)'
  <2>1. lines[r] = <<>>
    BY DEF Story, OnItsWay
  <2>2. CASE NeedsReason(r)
    <3>1. PICK event \in {"refused", "dropped", "failed", "sent"},
               level \in {"debug", "info", "warn", "error"} :
             /\ Log(r, event, status, level)
             /\ level \in {"warn", "error"} => status >= 400 /\ req[r].path # Health
      BY <2>2 DEF LeavesReason
    <3>2. lines'[r] = <<[event |-> event, status |-> status, level |-> level]>>
      BY <2>1, <3>1 DEF Log
    <3>3. /\ Len(lines'[r]) = 1
          /\ lines'[r][1] = [event |-> event, status |-> status, level |-> level]
      BY <3>2
    <3> QED
      BY <1>1, <1>3, <2>2, <3>1, <3>3 DEF Accounted, Loud, Failure
  <2>3. CASE ~NeedsReason(r)
    <3>1. lines'[r] = <<>>
      BY <2>1, <2>3 DEF LeavesReason
    <3> QED
      BY <1>1, <1>3, <2>3, <3>1 DEF Accounted
  <2> QED
    BY <2>2, <2>3
<1> QED
  BY <1>2, <1>5, <1>6, <1>7 DEF Story

\* What the requests that a step does not concern keep.
LEMMA StoryOfOthers ==
    ASSUME Typed, NEW r \in Requests, NEW q \in Requests, q # r,
           Arrive(r) \/ HandlerStep(r) \/ ProviderAcceptsLate(r)
    PROVE  /\ forms' = forms
           /\ pc'[q] = pc[q]
           /\ req'[q] = req[q]
           /\ granted'[q] = granted[q]
           /\ answer'[q] = answer[q]
           /\ lines'[q] = lines[q]
           /\ \A f \in Forms : accepted'[f][q] = accepted[f][q]
<1> USE DEF Typed
<1>1. CASE Arrive(r)
  BY <1>1 DEF Arrive, Goto
<1>2. CASE ProviderAcceptsLate(r)
  BY <1>2 DEF ProviderAcceptsLate
<1>3. CASE ServeHealth(r) \/ Redirect(r) \/ ServeElsewhere(r) \/ Preflight(r)
  BY <1>3 DEF ServeHealth, Redirect, ServeElsewhere, Preflight, Answer, Goto
<1>4. CASE ServeUnknownForm(r) \/ DropSpam(r) \/ SubjectFails(r) \/ SendFails(r) \/ SendSucceeds(r)
  BY <1>4 DEF ServeUnknownForm, DropSpam, SubjectFails, SendFails, SendSucceeds,
              Answer, Log, Goto
<1>5. CASE WrongMethod(r) \/ WrongOrigin(r) \/ Invalid(r)
  BY <1>5 DEF WrongMethod, WrongOrigin, Invalid, Refuse, Answer, Log, Goto
<1>6. CASE ReadOrigin(r) \/ Allow(r) \/ Valid(r) \/ CallMailer(r) \/ AccessLine(r)
  BY <1>6 DEF ReadOrigin, Allow, Valid, CallMailer, AccessLine, Read, Log, Goto
<1>7. CASE TooMany(r)
  BY <1>7 DEF TooMany, Read, Refuse, Answer, Log, Goto
<1>8. CASE Decode(r)
  BY <1>8 DEF Decode, Read, Refuse, Answer, Log, Goto
<1>9. CASE ProviderAccepts(r)
  BY <1>9 DEF ProviderAccepts, Goto
<1> QED
  BY <1>1, <1>2, <1>3, <1>4, <1>5, <1>6, <1>7, <1>8, <1>9 DEF HandlerStep

\* The requests that are answered by a step are told the truth by it.
LEMMA StoryOfAnswered ==
    ASSUME Typed, Typed', NEW r \in Requests, Story(r),
           \/ ServeHealth(r) \/ ServeUnknownForm(r) \/ Redirect(r) \/ ServeElsewhere(r)
           \/ Preflight(r) \/ WrongMethod(r) \/ WrongOrigin(r) \/ TooMany(r)
           \/ DropSpam(r) \/ Invalid(r) \/ SubjectFails(r) \/ SendFails(r) \/ SendSucceeds(r)
    PROVE  Story(r)'
<1>m. pc[r] \in Unanswered \ {"taken", "orphaned"} => \A f \in Forms : accepted[f][r] = 0
  BY DEF Story, Mailed, Unanswered
<1>o. /\ pc[r] \in {"waiting", "routed"} => req[r].origin = Unread
      /\ pc[r] \in {"waiting", "routed", "checking", "decoding"} => req[r].body = Unread
      /\ pc[r] = "checking" => OnForm(r)
      /\ pc[r] \in Granted => Passed(r)
      /\ pc[r] \in Submitted => req[r].body = "valid"
  BY DEF Story, OnItsWay
<1>1. CASE ServeHealth(r)
  <2>1. pc[r] \in Unanswered /\ 200 \in Nat /\ FALSE \in BOOLEAN
    BY <1>1 DEF ServeHealth, Unanswered
  <2>2. LeavesReason(r, 200)
    BY <1>1, <1>o, FormsOfRequests
       DEF ServeHealth, LeavesReason, Typed, Unanswered, Unread
  <2>3. OnlyAnswers(r, 200, FALSE)
    BY <1>1, <1>m DEF ServeHealth, OnlyAnswers, Typed, Unanswered, Unread
  <2>4. TrueOfMail(r, 200, FALSE)
    BY <1>1, <1>m, <1>o DEF ServeHealth, TrueOfMail, Typed, Unanswered, Unread
  <2>5. TrueOfForm(r, 200, FALSE)
    BY <1>1, <1>o, FormsOfRequests, FormsAssumption, NamesAssumption
       DEF ServeHealth, TrueOfForm, Typed, Unanswered, Unread
  <2> QED
    BY <2>1, <2>2, <2>3, <2>4, <2>5, StoryAnswered
<1>2. CASE ServeUnknownForm(r)
  <2>1. pc[r] \in Unanswered /\ 404 \in Nat /\ FALSE \in BOOLEAN
    BY <1>2 DEF ServeUnknownForm, Unanswered
  <2>2. LeavesReason(r, 404)
    BY <1>2, <1>o, FormsOfRequests
       DEF ServeUnknownForm, LeavesReason, Typed, Unanswered, Unread
  <2>3. OnlyAnswers(r, 404, FALSE)
    BY <1>2, <1>m DEF ServeUnknownForm, OnlyAnswers, Typed, Unanswered, Unread
  <2>4. TrueOfMail(r, 404, FALSE)
    BY <1>2, <1>m, <1>o DEF ServeUnknownForm, TrueOfMail, Typed, Unanswered, Unread
  <2>5. TrueOfForm(r, 404, FALSE)
    BY <1>2, <1>o, FormsOfRequests, FormsAssumption, NamesAssumption
       DEF ServeUnknownForm, TrueOfForm, Typed, Unanswered, Unread
  <2> QED
    BY <2>1, <2>2, <2>3, <2>4, <2>5, StoryAnswered
<1>3. CASE Redirect(r)
  <2>1. pc[r] \in Unanswered /\ 307 \in Nat /\ FALSE \in BOOLEAN
    BY <1>3 DEF Redirect, Unanswered
  <2>2. LeavesReason(r, 307)
    BY <1>3, <1>o, FormsOfRequests
       DEF Redirect, LeavesReason, Typed, Unanswered, Unread
  <2>3. OnlyAnswers(r, 307, FALSE)
    BY <1>3, <1>m DEF Redirect, OnlyAnswers, Typed, Unanswered, Unread
  <2>4. TrueOfMail(r, 307, FALSE)
    BY <1>3, <1>m, <1>o DEF Redirect, TrueOfMail, Typed, Unanswered, Unread
  <2>5. TrueOfForm(r, 307, FALSE)
    BY <1>3, <1>o, FormsOfRequests, FormsAssumption, NamesAssumption
       DEF Redirect, TrueOfForm, Typed, Unanswered, Unread
  <2> QED
    BY <2>1, <2>2, <2>3, <2>4, <2>5, StoryAnswered
<1>4. CASE ServeElsewhere(r)
  <2>1. pc[r] \in Unanswered /\ 404 \in Nat /\ FALSE \in BOOLEAN
    BY <1>4 DEF ServeElsewhere, Unanswered
  <2>2. LeavesReason(r, 404)
    BY <1>4, <1>o, FormsOfRequests
       DEF ServeElsewhere, LeavesReason, Typed, Unanswered, Unread
  <2>3. OnlyAnswers(r, 404, FALSE)
    BY <1>4, <1>m DEF ServeElsewhere, OnlyAnswers, Typed, Unanswered, Unread
  <2>4. TrueOfMail(r, 404, FALSE)
    BY <1>4, <1>m, <1>o DEF ServeElsewhere, TrueOfMail, Typed, Unanswered, Unread
  <2>5. TrueOfForm(r, 404, FALSE)
    BY <1>4, <1>o, FormsOfRequests, FormsAssumption, NamesAssumption
       DEF ServeElsewhere, TrueOfForm, Typed, Unanswered, Unread
  <2> QED
    BY <2>1, <2>2, <2>3, <2>4, <2>5, StoryAnswered
<1>5. CASE Preflight(r)
  <2>1. pc[r] \in Unanswered /\ 204 \in Nat /\ OriginAllowed(r) \in BOOLEAN
    BY <1>5 DEF Preflight, OriginAllowed, Unanswered
  <2>2. LeavesReason(r, 204)
    BY <1>5, <1>o, FormsOfRequests
       DEF Preflight, LeavesReason, Typed, Unanswered, PreflightAllows, OriginAllowed, Unread
  <2>3. OnlyAnswers(r, 204, OriginAllowed(r))
    BY <1>5, <1>m DEF Preflight, OnlyAnswers, Typed, Unanswered, PreflightAllows, OriginAllowed, Unread
  <2>4. TrueOfMail(r, 204, OriginAllowed(r))
    BY <1>5, <1>m, <1>o DEF Preflight, TrueOfMail, Typed, Unanswered, PreflightAllows, OriginAllowed, Unread
  <2>5. TrueOfForm(r, 204, OriginAllowed(r))
    BY <1>5, <1>o, FormsOfRequests, FormsAssumption, NamesAssumption
       DEF Preflight, TrueOfForm, Typed, Unanswered, PreflightAllows, OriginAllowed, Unread
  <2> QED
    BY <2>1, <2>2, <2>3, <2>4, <2>5, StoryAnswered
<1>6. CASE WrongMethod(r)
  <2>1. pc[r] \in Unanswered /\ 405 \in Nat /\ OriginAllowed(r) \in BOOLEAN
    BY <1>6 DEF WrongMethod, OriginAllowed, Unanswered
  <2>2. LeavesReason(r, 405)
    BY <1>6, <1>o, FormsOfRequests
       DEF WrongMethod, LeavesReason, Typed, Unanswered, Refuse, RefuseLevel, OriginAllowed, Unread
  <2>3. OnlyAnswers(r, 405, OriginAllowed(r))
    BY <1>6, <1>m DEF WrongMethod, OnlyAnswers, Typed, Unanswered, Refuse, RefuseLevel, OriginAllowed, Unread
  <2>4. TrueOfMail(r, 405, OriginAllowed(r))
    BY <1>6, <1>m, <1>o DEF WrongMethod, TrueOfMail, Typed, Unanswered, Refuse, RefuseLevel, OriginAllowed, Unread
  <2>5. TrueOfForm(r, 405, OriginAllowed(r))
    BY <1>6, <1>o, FormsOfRequests, FormsAssumption, NamesAssumption
       DEF WrongMethod, TrueOfForm, Typed, Unanswered, Refuse, RefuseLevel, OriginAllowed, Unread
  <2> QED
    BY <2>1, <2>2, <2>3, <2>4, <2>5, StoryAnswered
<1>7. CASE WrongOrigin(r)
  <2>1. pc[r] \in Unanswered /\ 403 \in Nat /\ FALSE \in BOOLEAN
    BY <1>7 DEF WrongOrigin, Unanswered
  <2>2. LeavesReason(r, 403)
    BY <1>7, <1>o, FormsOfRequests
       DEF WrongOrigin, LeavesReason, Typed, Unanswered, Refuse, RefuseLevel, OriginAllowed, Unread
  <2>3. OnlyAnswers(r, 403, FALSE)
    BY <1>7, <1>m DEF WrongOrigin, OnlyAnswers, Typed, Unanswered, Refuse, RefuseLevel, OriginAllowed, Unread
  <2>4. TrueOfMail(r, 403, FALSE)
    BY <1>7, <1>m, <1>o DEF WrongOrigin, TrueOfMail, Typed, Unanswered, Refuse, RefuseLevel, OriginAllowed, Unread
  <2>5. TrueOfForm(r, 403, FALSE)
    BY <1>7, <1>o, FormsOfRequests, FormsAssumption, NamesAssumption
       DEF WrongOrigin, TrueOfForm, Typed, Unanswered, Refuse, RefuseLevel, OriginAllowed, Unread
  <2> QED
    BY <2>1, <2>2, <2>3, <2>4, <2>5, StoryAnswered
<1>8. CASE TooMany(r)
  <2>1. pc[r] \in Unanswered /\ 429 \in Nat /\ TRUE \in BOOLEAN
    BY <1>8 DEF TooMany, Unanswered, ChecksPassed
  <2>2. LeavesReason(r, 429)
    BY <1>8, <1>o, FormsOfRequests
       DEF TooMany, LeavesReason, Typed, Unanswered, ChecksPassed, OriginAllowed, Read, Refuse, RefuseLevel, Unread
  <2>3. OnlyAnswers(r, 429, TRUE)
    <3>1. PICK k \in Keys : req' = [req EXCEPT ![r]["client"] = k]
      BY <1>8 DEF TooMany, Read
    <3>2. /\ req'[r].path = req[r].path
          /\ req'[r].method = req[r].method
          /\ req'[r].origin = req[r].origin
          /\ req'[r].body = req[r].body
      BY <3>1 DEF Typed, Request
    <3> QED
      BY <1>8, <3>2 DEF TooMany, OnlyAnswers, Refuse
  <2>4. TrueOfMail(r, 429, TRUE)
    BY <1>8, <1>m, <1>o DEF TooMany, TrueOfMail, Typed, Unanswered, ChecksPassed, OriginAllowed, Read, Refuse, RefuseLevel, Unread
  <2>5. TrueOfForm(r, 429, TRUE)
    BY <1>8, <1>o, FormsOfRequests, FormsAssumption, NamesAssumption
       DEF TooMany, TrueOfForm, Typed, Unanswered, ChecksPassed, OriginAllowed, Read, Refuse, RefuseLevel, Unread
  <2> QED
    BY <2>1, <2>2, <2>3, <2>4, <2>5, StoryAnswered
<1>9. CASE DropSpam(r)
  <2>1. pc[r] \in Unanswered /\ 202 \in Nat /\ TRUE \in BOOLEAN
    BY <1>9 DEF DropSpam, Unanswered
  <2>2. LeavesReason(r, 202)
    BY <1>9, <1>o, FormsOfRequests
       DEF DropSpam, LeavesReason, Typed, Unanswered, Granted, Passed
  <2>3. OnlyAnswers(r, 202, TRUE)
    BY <1>9, <1>m DEF DropSpam, OnlyAnswers, Typed, Unanswered, Unread
  <2>4. TrueOfMail(r, 202, TRUE)
    BY <1>9, <1>m, <1>o DEF DropSpam, TrueOfMail, Typed, Unanswered, Granted, Passed
  <2>5. TrueOfForm(r, 202, TRUE)
    BY <1>9, <1>o, FormsOfRequests, FormsAssumption, NamesAssumption
       DEF DropSpam, TrueOfForm, Typed, Unanswered, Granted, Passed
  <2> QED
    BY <2>1, <2>2, <2>3, <2>4, <2>5, StoryAnswered
<1>10. CASE Invalid(r)
  <2>1. pc[r] \in Unanswered /\ 422 \in Nat /\ TRUE \in BOOLEAN
    BY <1>10 DEF Invalid, Unanswered
  <2>2. LeavesReason(r, 422)
    BY <1>10, <1>o, FormsOfRequests
       DEF Invalid, LeavesReason, Typed, Unanswered, Refuse, RefuseLevel, Granted, Passed
  <2>3. OnlyAnswers(r, 422, TRUE)
    BY <1>10, <1>m DEF Invalid, OnlyAnswers, Typed, Unanswered, Refuse, RefuseLevel, Unread
  <2>4. TrueOfMail(r, 422, TRUE)
    BY <1>10, <1>m, <1>o DEF Invalid, TrueOfMail, Typed, Unanswered, Refuse, RefuseLevel, Granted, Passed
  <2>5. TrueOfForm(r, 422, TRUE)
    BY <1>10, <1>o, FormsOfRequests, FormsAssumption, NamesAssumption
       DEF Invalid, TrueOfForm, Typed, Unanswered, Refuse, RefuseLevel, Granted, Passed
  <2> QED
    BY <2>1, <2>2, <2>3, <2>4, <2>5, StoryAnswered
<1>11. CASE SubjectFails(r)
  <2>1. pc[r] \in Unanswered /\ 500 \in Nat /\ TRUE \in BOOLEAN
    BY <1>11 DEF SubjectFails, Unanswered
  <2>2. LeavesReason(r, 500)
    BY <1>11, <1>o, FormsOfRequests
       DEF SubjectFails, LeavesReason, Typed, Unanswered, Granted, Submitted, Passed
  <2>3. OnlyAnswers(r, 500, TRUE)
    BY <1>11, <1>m DEF SubjectFails, OnlyAnswers, Typed, Unanswered, Unread
  <2>4. TrueOfMail(r, 500, TRUE)
    BY <1>11, <1>m, <1>o DEF SubjectFails, TrueOfMail, Typed, Unanswered, Granted, Submitted, Passed
  <2>5. TrueOfForm(r, 500, TRUE)
    BY <1>11, <1>o, FormsOfRequests, FormsAssumption, NamesAssumption
       DEF SubjectFails, TrueOfForm, Typed, Unanswered, Granted, Submitted, Passed
  <2> QED
    BY <2>1, <2>2, <2>3, <2>4, <2>5, StoryAnswered
<1>12. CASE SendFails(r)
  <2>1. pc[r] \in Unanswered /\ 502 \in Nat /\ TRUE \in BOOLEAN
    BY <1>12 DEF SendFails, Unanswered
  <2>2. LeavesReason(r, 502)
    BY <1>12, <1>o, FormsOfRequests
       DEF SendFails, LeavesReason, Typed, Unanswered, Granted, Submitted, Passed
  <2>3. OnlyAnswers(r, 502, TRUE)
    BY <1>12, <1>m DEF SendFails, OnlyAnswers, Typed, Unanswered, Unread
  <2>4. TrueOfMail(r, 502, TRUE)
    BY <1>12, <1>m, <1>o DEF SendFails, TrueOfMail, Typed, Unanswered, Granted, Submitted, Passed
  <2>5. TrueOfForm(r, 502, TRUE)
    BY <1>12, <1>o, FormsOfRequests, FormsAssumption, NamesAssumption
       DEF SendFails, TrueOfForm, Typed, Unanswered, Granted, Submitted, Passed
  <2> QED
    BY <2>1, <2>2, <2>3, <2>4, <2>5, StoryAnswered
<1>13. CASE SendSucceeds(r)
  <2>1. pc[r] \in Unanswered /\ 202 \in Nat /\ TRUE \in BOOLEAN
    BY <1>13 DEF SendSucceeds, Unanswered, HeardItTaken
  <2>2. LeavesReason(r, 202)
    BY <1>13, <1>o, FormsOfRequests
       DEF SendSucceeds, LeavesReason, Typed, Unanswered, HeardItTaken, Story, Mailed, Granted, Submitted, Passed
  <2>3. OnlyAnswers(r, 202, TRUE)
    BY <1>13, <1>m DEF SendSucceeds, OnlyAnswers, Typed, Unanswered, HeardItTaken, Story, Mailed, Unread
  <2>4. TrueOfMail(r, 202, TRUE)
    <3>1. pc[r] = "taken" /\ req' = req
      BY <1>13 DEF SendSucceeds, HeardItTaken
    <3>2. OnForm(r) /\ req[r].body = "valid"
      BY <1>o, <3>1 DEF Granted, Submitted, Passed
    <3>3. Form(r) \in Forms
      BY <3>2, FormsOfRequests
    <3>4. accepted[Form(r)][r] = 1
      BY <3>1 DEF Story, Mailed
    <3> QED
      BY <3>1, <3>2, <3>3, <3>4 DEF TrueOfMail
  <2>5. TrueOfForm(r, 202, TRUE)
    BY <1>13, <1>o, FormsOfRequests, FormsAssumption, NamesAssumption
       DEF SendSucceeds, TrueOfForm, Typed, Unanswered, HeardItTaken, Story, Mailed, Granted, Submitted, Passed
  <2> QED
    BY <2>1, <2>2, <2>3, <2>4, <2>5, StoryAnswered
<1> QED
  BY <1>1, <1>2, <1>3, <1>4, <1>5, <1>6, <1>7, <1>8, <1>9, <1>10, <1>11, <1>12, <1>13

\* The other steps of a handler move it on, one place at a time.
LEMMA StoryOfMoved ==
    ASSUME Typed, Typed', NEW r \in Requests, Story(r),
           \/ Arrive(r) \/ ReadOrigin(r) \/ Allow(r) \/ Decode(r) \/ Valid(r)
           \/ CallMailer(r) \/ ProviderAccepts(r) \/ ProviderAcceptsLate(r)
    PROVE  Story(r)'
<1>s. OnItsWay(r) /\ Mailed(r) /\ AnsweredTruly(r) /\ Accounted(r)
  BY DEF Story
<1> USE DEF Unanswered, Granted, Submitted, Passed, OnForm, ServesForm, Form, Goto
<1>1. CASE Arrive(r)
  <2>1. PICK p \in Paths, m \in Methods :
          req' = [req EXCEPT ![r].path = p, ![r].method = m]
    BY <1>1 DEF Arrive
  <2>2. req'[r].origin = req[r].origin /\ req'[r].body = req[r].body
    BY <2>1 DEF Typed, Request
  <2>3. pc[r] = "waiting" /\ pc'[r] = "routed"
    BY <1>1 DEF Arrive, Typed
  <2>4. OnItsWay(r)'
    BY <1>1, <1>s, <2>2, <2>3 DEF Arrive, OnItsWay
  <2>5. Mailed(r)'
    <3>1. \A f \in Forms : accepted'[f][r] = 0
      BY <1>1, <1>s, <2>3 DEF Arrive, Mailed
    <3> QED
      BY <2>3, <3>1 DEF Mailed
  <2>6. AnsweredTruly(r)'
    BY <1>1, <1>s, <2>3 DEF Arrive, AnsweredTruly, OnItsWay, NoAnswer, Finished
  <2>7. Accounted(r)'
    BY <2>3 DEF Accounted
  <2> QED
    BY <2>4, <2>5, <2>6, <2>7 DEF Story
<1>2. CASE ReadOrigin(r)
  <2>1. PICK o \in Origins : req' = [req EXCEPT ![r]["origin"] = o]
    BY <1>2 DEF ReadOrigin, Read
  <2>2. /\ req'[r].path = req[r].path
        /\ req'[r].method = req[r].method
        /\ req'[r].body = req[r].body
    BY <2>1 DEF Typed, Request
  <2>3. pc[r] = "routed" /\ pc'[r] = "checking"
    BY <1>2 DEF ReadOrigin, Typed
  <2>4. OnItsWay(r)'
    BY <1>2, <1>s, <2>2, <2>3 DEF ReadOrigin, OnItsWay
  <2>5. Mailed(r)'
    BY <1>2, <1>s, <2>3 DEF ReadOrigin, Mailed, Typed
  <2>6. AnsweredTruly(r)'
    BY <1>2, <1>s, <2>3 DEF ReadOrigin, AnsweredTruly, OnItsWay, NoAnswer, Finished
  <2>7. Accounted(r)'
    BY <2>3 DEF Accounted
  <2> QED
    BY <2>4, <2>5, <2>6, <2>7 DEF Story
<1>3. CASE Allow(r)
  <2>1. PICK k \in Keys : req' = [req EXCEPT ![r]["client"] = k]
    BY <1>3 DEF Allow, Read
  <2>2. /\ req'[r].path = req[r].path
        /\ req'[r].method = req[r].method
        /\ req'[r].origin = req[r].origin
        /\ req'[r].body = req[r].body
    BY <2>1 DEF Typed, Request
  <2>3. pc[r] = "checking" /\ pc'[r] = "decoding"
    BY <1>3 DEF Allow, ChecksPassed, Typed
  <2>4. granted'[r] = now /\ now \in Nat /\ Never = -1
    BY <1>3, MaxNowAssumption DEF Allow, Typed, Never
  <2>5. OnItsWay(r)'
    BY <1>3, <1>s, <2>2, <2>3, <2>4 DEF Allow, ChecksPassed, OriginAllowed, OnItsWay
  <2>6. Mailed(r)'
    BY <1>3, <1>s, <2>3 DEF Allow, Mailed, Typed
  <2>7. AnsweredTruly(r)'
    BY <1>3, <1>s, <2>3 DEF Allow, AnsweredTruly, OnItsWay, NoAnswer, Finished
  <2>8. Accounted(r)'
    BY <2>3 DEF Accounted
  <2> QED
    BY <2>5, <2>6, <2>7, <2>8 DEF Story
<1>4. CASE Decode(r)
  <2>1. PICK b \in Bodies :
          /\ Read(r, "body", b)
          /\ \/ b = "unreadable" /\ Refuse(r, 400, TRUE)
             \/ b # "unreadable" /\ Goto(r, "validating") /\ UNCHANGED <<answer, lines>>
    BY <1>4 DEF Decode
  <2>2. /\ req'[r].path = req[r].path
        /\ req'[r].method = req[r].method
        /\ req'[r].origin = req[r].origin
        /\ req'[r].body = b
    BY <2>1 DEF Read, Typed, Request
  <2>3. pc[r] = "decoding" /\ UNCHANGED <<forms, now, seen, granted, accepted>>
    BY <1>4 DEF Decode
  <2>4. Passed(r) /\ \A f \in Forms : accepted[f][r] = 0
    BY <1>s, <2>3 DEF OnItsWay, Mailed
  <2>5. CASE b = "unreadable" /\ Refuse(r, 400, TRUE)
    <3>1. pc[r] \in Unanswered /\ 400 \in Nat /\ TRUE \in BOOLEAN
      BY <2>3
    <3>2. LeavesReason(r, 400)
      BY <2>4, <2>5, FormsOfRequests DEF LeavesReason, Refuse, RefuseLevel
    <3>3. OnlyAnswers(r, 400, TRUE)
      BY <2>2, <2>3, <2>4, <2>5 DEF OnlyAnswers, Refuse
    <3>4. TrueOfMail(r, 400, TRUE)
      BY <2>2, <2>4, <2>5 DEF TrueOfMail
    <3>5. TrueOfForm(r, 400, TRUE)
      BY <2>4 DEF TrueOfForm
    <3> QED
      BY <3>1, <3>2, <3>3, <3>4, <3>5, StoryAnswered
  <2>6. CASE Goto(r, "validating") /\ UNCHANGED <<answer, lines>>
    <3>1. pc'[r] = "validating"
      BY <2>6 DEF Typed
    <3>2. OnItsWay(r)'
      BY <1>s, <2>2, <2>3, <2>4, <2>6, <3>1 DEF OnItsWay
    <3>3. Mailed(r)'
      BY <2>3, <2>4, <3>1 DEF Mailed
    <3>4. AnsweredTruly(r)'
      BY <1>s, <2>3, <2>6, <3>1 DEF AnsweredTruly, OnItsWay, NoAnswer, Finished
    <3>5. Accounted(r)'
      BY <3>1 DEF Accounted
    <3> QED
      BY <3>2, <3>3, <3>4, <3>5 DEF Story
  <2> QED
    BY <2>1, <2>5, <2>6
<1>5. CASE Valid(r) \/ CallMailer(r)
  <2>1. /\ pc[r] \in {"validating", "delivering"} /\ pc'[r] \in {"delivering", "sending"}
        /\ pc[r] = "validating" => req[r].body = "valid"
        /\ UNCHANGED <<forms, req, granted, answer, lines, accepted>>
    BY <1>5 DEF Valid, CallMailer, Mailable, Typed
  <2>2. OnItsWay(r)'
    BY <1>s, <2>1 DEF OnItsWay
  <2>3. Mailed(r)'
    BY <1>s, <2>1 DEF Mailed
  <2>4. AnsweredTruly(r)'
    BY <1>s, <2>1 DEF AnsweredTruly, OnItsWay, NoAnswer, Finished
  <2>5. Accounted(r)'
    BY <2>1 DEF Accounted
  <2> QED
    BY <2>2, <2>3, <2>4, <2>5 DEF Story

<1>6. CASE ProviderAccepts(r)
  <2>1. /\ pc[r] = "sending" /\ pc'[r] = "taken"
        /\ UNCHANGED <<forms, req, granted, answer, lines>>
        /\ accepted' = [accepted EXCEPT ![Form(r)][r] = @ + 1]
    BY <1>6 DEF ProviderAccepts, Typed
  <2>2. Passed(r) /\ req[r].body = "valid" /\ \A f \in Forms : accepted[f][r] = 0
    BY <1>s, <2>1 DEF OnItsWay, Mailed
  <2>3. Form(r) \in Forms
    BY <2>2, FormsOfRequests
  <2>4. accepted'[Form(r)][r] = 1 /\ \A f \in Forms : f # Form(r) => accepted'[f][r] = 0
    BY <2>1, <2>2, <2>3 DEF Typed
  <2>5. OnItsWay(r)'
    BY <1>s, <2>1 DEF OnItsWay
  <2>6. Mailed(r)'
    BY <2>1, <2>2, <2>3, <2>4 DEF Mailed
  <2>7. AnsweredTruly(r)'
    BY <1>s, <2>1 DEF AnsweredTruly, OnItsWay, NoAnswer, Finished
  <2>8. Accounted(r)'
    BY <2>1 DEF Accounted
  <2> QED
    BY <2>5, <2>6, <2>7, <2>8 DEF Story
<1>7. CASE ProviderAcceptsLate(r)
  <2>1. /\ pc[r] = "orphaned" \/ answer[r].status = 502
        /\ \A f \in Forms : accepted[f][r] = 0
        /\ accepted' = [accepted EXCEPT ![Form(r)][r] = @ + 1]
        /\ UNCHANGED <<forms, now, seen, pc, req, granted, answer, lines>>
    BY <1>7 DEF ProviderAcceptsLate, Mails, Typed
  <2>2. Passed(r) /\ req[r].body = "valid"
    BY <1>s, <2>1 DEF OnItsWay, AnsweredTruly
  <2>3. pc[r] \in {"orphaned", "answered", "done", "lost"}
    BY <1>s, <2>1 DEF AnsweredTruly
  <2>4. Form(r) \in Forms
    BY <2>2, FormsOfRequests
  <2>5. accepted'[Form(r)][r] = 1 /\ \A f \in Forms : f # Form(r) => accepted'[f][r] = 0
    BY <2>1, <2>4 DEF Typed
  <2>6. OnItsWay(r)'
    BY <1>s, <2>1 DEF OnItsWay
  <2>7. Mailed(r)'
    BY <2>1, <2>2, <2>3, <2>4, <2>5 DEF Mailed
  <2>8. AnsweredTruly(r)'
    <3>1. ~Finished(r) \/ answer[r].status = 502
      BY <2>1 DEF Finished
    <3> QED
      BY <1>s, <2>1, <2>2, <3>1 DEF AnsweredTruly, Finished
  <2>9. Accounted(r)'
    BY <1>s, <2>1 DEF Accounted, NeedsReason, Failure, Loud
  <2> QED
    BY <2>6, <2>7, <2>8, <2>9 DEF Story
<1> QED
  BY <1>1, <1>2, <1>3, <1>4, <1>5, <1>6, <1>7

\* The access line is the last, with the status and the level of the answer.
LEMMA StoryOfLogged ==
    ASSUME Typed, Typed', NEW r \in Requests, Story(r), AccessLine(r)
    PROVE  Story(r)'
<1> DEFINE n == IF NeedsReason(r) THEN 1 ELSE 0
           level == LevelFor(req[r].path, answer[r].status)
           line == [event |-> "request", status |-> answer[r].status, level |-> level]
<1>1. /\ pc[r] = "answered" /\ pc'[r] = "done"
      /\ UNCHANGED <<forms, req, granted, answer, accepted>>
      /\ lines' = [lines EXCEPT ![r] = Append(@, line)]
  BY DEF AccessLine, Log, Goto, Typed
<1>2. OnItsWay(r)'
  BY <1>1 DEF OnItsWay, Unanswered, Granted, Submitted
<1>3. Mailed(r)'
  BY <1>1 DEF Story, Mailed, Passed, OnForm, ServesForm, Form, Unanswered
<1>4. AnsweredTruly(r)'
  BY <1>1 DEF Story, AnsweredTruly, Passed, OnForm, ServesForm, Form, Finished
<1>5. NeedsReason(r)' <=> NeedsReason(r)
  BY <1>1 DEF NeedsReason, OnForm, ServesForm
<1>6. /\ lines[r] \in Seq(Line)
      /\ Len(lines[r]) = n
      /\ NeedsReason(r) =>
            /\ lines[r][1].event # "request"
            /\ lines[r][1].status = answer[r].status
            /\ Loud(lines[r][1]) => Failure(r)
  BY <1>1 DEF Story, Accounted, Typed
<1>7. /\ lines'[r] = Append(lines[r], line)
      /\ Len(lines'[r]) = n + 1
      /\ lines'[r][n + 1] = line
      /\ NeedsReason(r) => lines'[r][1] = lines[r][1]
  <2>1. lines'[r] = Append(lines[r], line)
    BY <1>1 DEF Typed
  <2>2. /\ Len(Append(lines[r], line)) = n + 1
        /\ Append(lines[r], line)[n + 1] = line
    BY <1>6
  <2>3. NeedsReason(r) => Append(lines[r], line)[1] = lines[r][1]
    BY <1>6
  <2> QED
    BY <2>1, <2>2, <2>3
<1>8. Loud(line) <=> Failure(r)
  <2>1. answer[r].status \in Nat
    BY DEF Typed
  <2>2. level \in {"warn", "error"} <=> answer[r].status >= 400 /\ req[r].path # Health
    BY <2>1 DEF LevelFor
  <2> QED
    BY <2>2 DEF Loud, Failure
<1>9. Accounted(r)'
  <2>1. (Failure(r) <=> Failure(r)') /\ answer'[r].status = answer[r].status
    BY <1>1 DEF Failure
  <2>2. line.event = "request" /\ line.status = answer[r].status
    OBVIOUS
  <2>3. CASE NeedsReason(r)
    BY <1>1, <1>5, <1>6, <1>7, <1>8, <2>1, <2>2, <2>3 DEF Accounted, Loud
  <2>4. CASE ~NeedsReason(r)
    BY <1>1, <1>5, <1>6, <1>7, <1>8, <2>1, <2>2, <2>4 DEF Accounted, Loud
  <2> QED
    BY <2>3, <2>4
<1> QED
  BY <1>2, <1>3, <1>4, <1>9 DEF Story

\* A restart loses the requests under way, or leaves them to a provider.
LEMMA StoryOfRestart ==
    ASSUME Typed, NEW r \in Requests, Story(r), Restart
    PROVE  Story(r)'
<1> USE DEF Passed, OnForm, ServesForm, Form
<1>1. /\ UNCHANGED <<forms, req, answer, lines, accepted>>
      /\ granted'[r] = IF granted[r] = Never THEN Never ELSE Forgiven
      /\ Forgiven # Never
  BY DEF Restart, Never, Forgiven
<1>2. /\ pc[r] \in {"waiting", "done"} => pc'[r] = pc[r]
      /\ pc[r] \in {"sending", "orphaned"} => pc'[r] = "orphaned"
      /\ pc[r] \notin {"waiting", "done", "sending", "orphaned"} => pc'[r] = "lost"
  BY DEF Restart
<1>3. OnItsWay(r)'
  BY <1>1, <1>2 DEF Story, OnItsWay, Unanswered, Granted, Submitted
<1>4. Mailed(r)'
  BY <1>1, <1>2 DEF Story, Mailed, Unanswered
<1>5. AnsweredTruly(r)'
  BY <1>1, <1>2 DEF Story, AnsweredTruly, Finished
<1>6. Accounted(r)'
  BY <1>1, <1>2 DEF Story, Accounted, NeedsReason, Failure, Loud
<1> QED
  BY <1>3, <1>4, <1>5, <1>6 DEF Story

LEMMA StoriesInit == Init => Stories
<1> SUFFICES ASSUME Init, NEW r \in Requests PROVE Story(r)
  BY DEF Stories
<1>1. OnItsWay(r)
  BY DEF Init, OnItsWay, Granted, Submitted
<1>2. Mailed(r)
  BY DEF Init, Mailed
<1>3. AnsweredTruly(r)
  BY DEF Init, AnsweredTruly, Finished, NoAnswer
<1>4. Accounted(r)
  BY DEF Init, Accounted
<1> QED
  BY <1>1, <1>2, <1>3, <1>4 DEF Story

LEMMA StoriesNext == Typed /\ Typed' /\ Stories /\ [Next]_vars => Stories'
<1> SUFFICES ASSUME Typed, Typed', Stories, [Next]_vars, NEW q \in Requests
             PROVE  Story(q)'
  BY DEF Stories
<1>0. Story(q)
  BY DEF Stories
<1>1. CASE Tick
  BY <1>0, <1>1, StoryFrame DEF Tick
<1>2. CASE Restart
  BY <1>0, <1>2, StoryOfRestart
<1>3. ASSUME NEW r \in Requests, Arrive(r) \/ HandlerStep(r) \/ ProviderAcceptsLate(r)
      PROVE  Story(q)'
  <2>1. CASE q # r
    BY <1>0, <1>3, <2>1, StoryOfOthers, StoryFrame
  <2>2. CASE q = r
    BY <1>0, <1>3, <2>2, StoryOfAnswered, StoryOfMoved, StoryOfLogged DEF HandlerStep
  <2> QED
    BY <2>1, <2>2
<1>4. CASE UNCHANGED vars
  BY <1>0, <1>4, StoryFrame DEF vars
<1> QED
  BY <1>1, <1>2, <1>3, <1>4 DEF Next

\* At every place, what is settled about a request is so.
THEOREM StoriesHold == Spec => []Stories
  BY TypedInit, TypedNext, StoriesInit, StoriesNext, PTL DEF Spec

-----------------------------------------------------------------------------
(* What follows from it.                                                   *)

\* Mail comes of a POST from an origin of the form, granted and valid, and goes
\* to that form's provider once.
THEOREM MailIsClearedHolds == Spec => []MailIsCleared
<1>1. Typed /\ Stories => MailIsCleared
  BY DEF Typed, Stories, Story, Mailed, Passed, OnForm, ServesForm, Form, FormOf, MailIsCleared
<1> QED
  BY <1>1, TypedInit, TypedNext, StoriesHold, PTL DEF Spec

\* 202 to an honest submission means mail, any other answer but 502 means none.
THEOREM AnswerTellsOutcomeHolds == Spec => []AnswerTellsOutcome
<1>1. Typed /\ Stories => AnswerTellsOutcome
  <2> SUFFICES ASSUME Typed, Stories, NEW r \in Requests, Finished(r)
               PROVE  /\ answer[r].status = 202 /\ req[r].body = "valid" => Mails(r) # {}
                      /\ answer[r].status \notin {202, 502} => Mails(r) = {}
                      /\ req[r].body = "honeypot" =>
                           answer[r] = [status |-> 202, cors |-> TRUE] /\ Mails(r) = {}
    BY DEF AnswerTellsOutcome
  <2>1. /\ Mails(r) = {} <=> \A f \in Forms : accepted[f][r] = 0
        /\ Mails(r) # {} <=> \E f \in Forms : accepted[f][r] > 0
    BY DEF Typed, Mails
  <2>2. AnsweredTruly(r)
    BY DEF Stories, Story
  <2> QED
    BY <2>1, <2>2 DEF AnsweredTruly
<1> QED
  BY <1>1, TypedInit, TypedNext, StoriesHold, PTL DEF Spec

\* Exactly a form's own origins can read its answers.
THEOREM OnlyOwnOriginsReadHolds == Spec => []OnlyOwnOriginsRead
<1>1. Stories => OnlyOwnOriginsRead
  BY DEF Stories, Story, AnsweredTruly, OnlyOwnOriginsRead
<1> QED
  BY <1>1, StoriesHold, PTL

\* One access line, the last, and before it the line that says why.
THEOREM LogAccountsForAnswerHolds == Spec => []LogAccountsForAnswer
<1>1. Stories => LogAccountsForAnswer
  BY DEF Stories, Story, Accounted, LogAccountsForAnswer
<1> QED
  BY <1>1, StoriesHold, PTL

\* A submission that did not become mail is to be seen at level warn, a success
\* or a probe is not.
THEOREM LossesAreVisibleHolds == Spec => []LossesAreVisible
<1>1. Typed /\ Stories => LossesAreVisible
  <2> SUFFICES ASSUME Typed, Stories, NEW r \in Requests, pc[r] = "done"
               PROVE  LET loud == \E i \in DOMAIN lines[r] : Loud(lines[r][i]) IN
                      /\ OnForm(r) /\ req[r].method = "POST" /\ Mails(r) = {}
                            /\ req[r].body # "honeypot" => loud
                      /\ answer[r].status < 400 \/ req[r].path = Health => ~loud
    BY DEF LossesAreVisible, Loud
  <2>1. AnsweredTruly(r) /\ Accounted(r) /\ Finished(r)
    BY DEF Stories, Story, Finished
  <2>2. \A i \in DOMAIN lines[r] : Loud(lines[r][i]) => Failure(r)
    BY <2>1 DEF Accounted, Typed
  <2>3. Failure(r) => \E i \in DOMAIN lines[r] : Loud(lines[r][i])
    BY <2>1 DEF Accounted, Typed
  <2>4. ASSUME OnForm(r), req[r].method = "POST", Mails(r) = {}, req[r].body # "honeypot"
        PROVE  Failure(r)
    <3>1. answer[r].status # 202
      BY <2>1, <2>4 DEF AnsweredTruly, Mails
    <3>2. answer[r].status \in 400 .. 599
      BY <2>1, <2>4, <3>1 DEF AnsweredTruly
    <3> QED
      BY <2>4, <3>2, FormsOfRequests DEF Failure
  <2>5. answer[r].status < 400 \/ req[r].path = Health => ~Failure(r)
    BY DEF Failure, Typed
  <2> QED
    BY <2>2, <2>3, <2>4, <2>5
<1> QED
  BY <1>1, TypedInit, TypedNext, StoriesHold, PTL DEF Spec

\* A provider has the message of a request once or not at all.
LEMMA MailsCounted ==
    ASSUME Typed, NEW r \in Requests, Story(r)
    PROVE  Cardinality(Mails(r)) = IF \E f \in Forms : accepted[f][r] > 0 THEN 1 ELSE 0
<1>1. CASE \E f \in Forms : accepted[f][r] > 0
  <2>1. Mails(r) = {Form(r)}
    BY <1>1 DEF Story, Mailed, Mails
  <2> QED
    BY <1>1, <2>1, FS_Singleton
<1>2. CASE ~\E f \in Forms : accepted[f][r] > 0
  <2>1. Mails(r) = {}
    BY <1>2 DEF Mails
  <2> QED
    BY <1>2, <2>1, FS_EmptySet
<1> QED
  BY <1>1, <1>2

\* What a Mailer's variables are for a request.
Result(r) == CASE answer[r].status = 502 -> "error"
               [] answer[r].status = 202 /\ req[r].body # "honeypot" -> "nil"
               [] OTHER -> "pending"
Deliveries(r) == Cardinality(Mails(r))

\* The steps of a Mailer, in terms of those.
MailerStep(r) ==
    \/ Result(r) # "nil" /\ Deliveries(r) = 0 /\ Deliveries(r)' = 1 /\ Result(r)' = Result(r)
    \/ Result(r) = "pending" /\ Deliveries(r) = 1 /\ Result(r)' = "nil"
         /\ Deliveries(r)' = Deliveries(r)
    \/ Result(r) = "pending" /\ Result(r)' = "error" /\ Deliveries(r)' = Deliveries(r)
    \/ Result(r)' = Result(r) /\ Deliveries(r)' = Deliveries(r)

LEMMA MailerStepIsCall ==
    ASSUME NEW r \in Requests, MailerStep(r)
    PROVE  Call(r)!Next \/ UNCHANGED Call(r)!vars
  BY DEF MailerStep, Result, Deliveries, Call!Next, Call!ProviderTakes, Call!ReturnNil,
         Call!ReturnError, Call!vars

LEMMA MailsKept ==
    ASSUME NEW r \in Requests, \A f \in Forms : accepted'[f][r] = accepted[f][r]
    PROVE  Deliveries(r)' = Deliveries(r)
<1>1. Mails(r)' = Mails(r)
  BY DEF Mails
<1> QED
  BY <1>1 DEF Deliveries

\* The provider of a form takes a message that nobody has.
LEMMA FirstDelivery ==
    ASSUME Typed, NEW r \in Requests, Mails(r) = {}, Form(r) \in Forms,
           accepted' = [accepted EXCEPT ![Form(r)][r] = @ + 1]
    PROVE  Deliveries(r) = 0 /\ Deliveries(r)' = 1
<1>1. \A f \in Forms : accepted[f][r] = 0
  BY DEF Typed, Mails
<1>2. \A f \in Forms : accepted'[f][r] = IF f = Form(r) THEN 1 ELSE 0
  BY <1>1 DEF Typed
<1>3. Mails(r)' = {Form(r)}
  BY <1>2 DEF Mails
<1> QED
  BY <1>3, FS_EmptySet, FS_Singleton DEF Deliveries

\* Until it is answered, a request is a call that has not returned.
LEMMA PendingUnanswered ==
    ASSUME NEW r \in Requests, Story(r), pc[r] \in Unanswered
    PROVE  Result(r) = "pending"
  BY DEF Story, OnItsWay, NoAnswer, Result

\* A step that takes no message makes of a call what its answer says.
LEMMA AnswerIsReturn ==
    ASSUME Typed, NEW r \in Requests, Story(r), pc[r] \in Unanswered,
           UNCHANGED accepted, Result(r)' \in {"pending", "error"}
    PROVE  MailerStep(r)
  BY PendingUnanswered, MailsKept DEF MailerStep

LEMMA HandlerIsMailer ==
    ASSUME Typed, Typed', NEW r \in Requests, Story(r), HandlerStep(r)
    PROVE  MailerStep(r)
<1>1. CASE ServeHealth(r) \/ ServeUnknownForm(r) \/ Redirect(r) \/ ServeElsewhere(r)
           \/ Preflight(r) \/ WrongMethod(r) \/ WrongOrigin(r) \/ TooMany(r)
           \/ Invalid(r) \/ SubjectFails(r) \/ SendFails(r)
  <2>1. pc[r] \in Unanswered /\ UNCHANGED accepted
    BY <1>1 DEF ServeHealth, ServeUnknownForm, Redirect, ServeElsewhere, Preflight,
                WrongMethod, WrongOrigin, TooMany, ChecksPassed, Invalid, SubjectFails,
                SendFails, Unanswered
  <2>2. answer'[r].status # 202
    BY <1>1 DEF ServeHealth, ServeUnknownForm, Redirect, ServeElsewhere, Preflight,
                WrongMethod, WrongOrigin, TooMany, Invalid, SubjectFails,
                SendFails, Refuse, Answer, Typed
  <2>3. Result(r)' \in {"pending", "error"}
    BY <2>2 DEF Result
  <2> QED
    BY <2>1, <2>3, AnswerIsReturn
<1>2. CASE DropSpam(r)
  <2>1. /\ pc[r] \in Unanswered /\ UNCHANGED <<accepted, req>>
        /\ req[r].body = "honeypot" /\ answer'[r].status = 202
    BY <1>2 DEF DropSpam, Answer, Typed, Unanswered
  <2>2. Result(r)' \in {"pending", "error"}
    BY <2>1 DEF Result
  <2> QED
    BY <2>1, <2>2, AnswerIsReturn
<1>3. CASE Decode(r)
  <2>1. pc[r] \in Unanswered /\ UNCHANGED accepted
    BY <1>3 DEF Decode, Unanswered
  <2>2. answer'[r] = answer[r] \/ answer'[r].status = 400
    BY <1>3 DEF Decode, Refuse, Answer, Typed
  <2>3. answer[r].status = 0
    BY <2>1 DEF Story, OnItsWay, NoAnswer
  <2>4. Result(r)' \in {"pending", "error"}
    BY <2>2, <2>3 DEF Result
  <2> QED
    BY <2>1, <2>4, AnswerIsReturn
<1>4. CASE ReadOrigin(r) \/ Allow(r) \/ Valid(r) \/ CallMailer(r)
  <2>1. pc[r] \in Unanswered /\ UNCHANGED <<accepted, answer>>
    BY <1>4 DEF ReadOrigin, Allow, ChecksPassed, Valid, CallMailer, Unanswered
  <2>2. answer[r].status = 0
    BY <2>1 DEF Story, OnItsWay, NoAnswer
  <2>3. Result(r)' \in {"pending", "error"}
    BY <2>1, <2>2 DEF Result
  <2> QED
    BY <2>1, <2>3, AnswerIsReturn
<1>5. CASE ProviderAccepts(r)
  <2>1. pc[r] = "sending" /\ pc'[r] = "taken" /\ UNCHANGED <<answer, req>>
    BY <1>5 DEF ProviderAccepts, Goto, Typed
  <2>2. Result(r) = "pending" /\ Result(r)' = Result(r)
    BY <2>1, PendingUnanswered DEF Unanswered, Result
  <2>3. Mails(r) = {}
    BY <2>1 DEF Story, Mailed, Mails, Unanswered
  <2>4. Form(r) \in Forms
    BY <2>1, FormsOfRequests DEF Story, OnItsWay, Granted, Passed
  <2>5. Deliveries(r) = 0 /\ Deliveries(r)' = 1
    BY <1>5, <2>3, <2>4, FirstDelivery DEF ProviderAccepts
  <2> QED
    BY <2>2, <2>5 DEF MailerStep
<1>6. CASE SendSucceeds(r)
  <2>1. /\ pc[r] = "taken" /\ UNCHANGED <<accepted, req>> /\ answer'[r].status = 202
    BY <1>6 DEF SendSucceeds, HeardItTaken, Answer, Typed
  <2>2. Result(r) = "pending"
    BY <2>1, PendingUnanswered DEF Unanswered
  <2>3. OnForm(r) /\ req[r].body = "valid" /\ accepted[Form(r)][r] = 1
    BY <2>1 DEF Story, OnItsWay, Mailed, Granted, Submitted, Passed
  <2>4. Result(r)' = "nil"
    BY <2>1, <2>3 DEF Result
  <2>5. Deliveries(r) = 1
    <3>1. \E f \in Forms : accepted[f][r] > 0
      BY <2>3, FormsOfRequests
    <3> QED
      BY <3>1, MailsCounted DEF Deliveries
  <2>6. Deliveries(r)' = Deliveries(r)
    BY <2>1, MailsKept
  <2> QED
    BY <2>2, <2>4, <2>5, <2>6 DEF MailerStep
<1>7. CASE AccessLine(r)
  <2>1. UNCHANGED <<accepted, answer, req>>
    BY <1>7 DEF AccessLine
  <2> QED
    BY <2>1, MailsKept DEF MailerStep, Result
<1> QED
  BY <1>1, <1>2, <1>3, <1>4, <1>5, <1>6, <1>7 DEF HandlerStep

LEMMA LateIsMailer ==
    ASSUME Typed, NEW r \in Requests, Story(r), ProviderAcceptsLate(r)
    PROVE  MailerStep(r)
<1>1. /\ pc[r] = "orphaned" \/ answer[r].status = 502
      /\ Mails(r) = {}
      /\ accepted' = [accepted EXCEPT ![Form(r)][r] = @ + 1]
      /\ UNCHANGED <<forms, answer, req>>
  BY DEF ProviderAcceptsLate
<1>2. Result(r) \in {"pending", "error"} /\ Result(r)' = Result(r)
  BY <1>1, PendingUnanswered DEF Unanswered, Result
<1>3. OnForm(r)
  BY <1>1 DEF Story, OnItsWay, AnsweredTruly, Granted, Passed
<1>4. Form(r) \in Forms
  BY <1>3, FormsOfRequests
<1>5. Deliveries(r) = 0 /\ Deliveries(r)' = 1
  BY <1>1, <1>4, FirstDelivery
<1> QED
  BY <1>2, <1>5 DEF MailerStep

\* What a request does to a provider, and makes of it, is a call of a Mailer.
THEOREM SendsAreMailerCallsHold == Spec => SendsAreMailerCalls
<1> DEFINE Calls == \A r \in Requests : Call(r)!Next \/ UNCHANGED Call(r)!vars
<1>1. Typed /\ Typed' /\ Stories /\ [Next]_vars => [Calls]_vars
  <2> SUFFICES ASSUME Typed, Typed', Stories, Next, NEW r \in Requests
               PROVE  Call(r)!Next \/ UNCHANGED Call(r)!vars
    OBVIOUS
  <2>0. Story(r)
    BY DEF Stories
  <2>1. ASSUME \A f \in Forms : accepted'[f][r] = accepted[f][r],
               answer'[r] = answer[r], req'[r].body = req[r].body
        PROVE  MailerStep(r)
    BY <2>1, MailsKept DEF MailerStep, Result
  <2>2. CASE Tick \/ Restart
    BY <2>1, <2>2, MailerStepIsCall DEF Tick, Restart
  <2>3. ASSUME NEW q \in Requests, Arrive(q) \/ HandlerStep(q) \/ ProviderAcceptsLate(q)
        PROVE  MailerStep(r)
    <3>1. CASE q # r
      BY <2>1, <2>3, <3>1, StoryOfOthers
    <3>2. CASE q = r /\ HandlerStep(r)
      BY <2>0, <3>2, HandlerIsMailer
    <3>3. CASE q = r /\ ProviderAcceptsLate(r)
      BY <2>0, <3>3, LateIsMailer
    <3>4. CASE q = r /\ Arrive(r)
      <4>1. pc[r] = "waiting" /\ UNCHANGED <<accepted, answer>>
        BY <3>4 DEF Arrive
      <4>2. answer[r].status = 0
        BY <2>0, <4>1 DEF Story, OnItsWay, Unanswered, NoAnswer
      <4>3. Result(r)' \in {"pending", "error"}
        BY <4>1, <4>2 DEF Result
      <4> QED
        BY <2>0, <4>1, <4>3, AnswerIsReturn DEF Unanswered
    <3> QED
      BY <2>3, <3>1, <3>2, <3>3, <3>4
  <2> QED
    BY <2>2, <2>3, MailerStepIsCall DEF Next
<1>2. Spec => [][Calls]_vars
  BY <1>1, TypedInit, TypedNext, StoriesHold, PTL DEF Spec
<1> QED
  BY <1>2 DEF SendsAreMailerCalls

\* A limiter changes for a submission to its own form, or is made anew.
THEOREM OnlySubmissionsAreCountedHolds == Spec => OnlySubmissionsAreCounted
<1> DEFINE Only ==
      \A f \in Forms : seen'[f] # seen[f] =>
         \/ seen' = [g \in Forms |-> NobodySeen]
         \/ \E r \in Requests :
              /\ pc[r] = "checking" /\ pc'[r] # "checking"
              /\ Form(r) = f
              /\ req[r].method = "POST"
              /\ req[r].origin \in Allowed[f]
<1>1. Typed /\ [Next]_vars => [Only]_vars
  <2> SUFFICES ASSUME Typed, Next, NEW f \in Forms, seen'[f] # seen[f]
               PROVE  \/ seen' = [g \in Forms |-> NobodySeen]
                      \/ \E r \in Requests :
                           /\ pc[r] = "checking" /\ pc'[r] # "checking"
                           /\ Form(r) = f
                           /\ req[r].method = "POST"
                           /\ req[r].origin \in Allowed[f]
    OBVIOUS
  <2>1. CASE Restart
    BY <2>1 DEF Restart
  <2>2. CASE ~Restart
    <3>1. PICK r \in Requests : Allow(r) \/ TooMany(r)
      BY <2>2 DEF Next, Tick, Arrive, ProviderAcceptsLate, HandlerStep, ServeHealth,
                  ServeUnknownForm, Redirect, ServeElsewhere, ReadOrigin, Preflight,
                  WrongMethod, WrongOrigin, Decode, DropSpam, Invalid, Valid,
                  SubjectFails, CallMailer, ProviderAccepts, SendFails, SendSucceeds,
                  AccessLine
    <3>2. Form(r) = f
      BY <3>1 DEF Allow, Asks, TooMany, Typed
    <3>3. ChecksPassed(r) /\ pc'[r] # "checking"
      BY <3>1 DEF Allow, TooMany, ChecksPassed, Goto, Refuse, Answer, Typed
    <3> QED
      BY <3>2, <3>3 DEF ChecksPassed, OriginAllowed
  <2> QED
    BY <2>1, <2>2
<1>2. Spec => [][Only]_vars
  BY <1>1, TypedInit, TypedNext, PTL DEF Spec
<1> QED
  BY <1>2 DEF OnlySubmissionsAreCounted

-----------------------------------------------------------------------------
(* The windows count what was granted.                                     *)

LEMMA Ticks ==
    ASSUME Typed
    PROVE  /\ now \in Nat
           /\ \A r \in Requests : granted[r] \in Int
           /\ \A f \in Forms, k \in Keys : seen[f][k] \in Window
<1>1. 0 .. MaxNow \cup {Never, Forgiven} \subseteq Int
  BY MaxNowAssumption DEF Never, Forgiven
<1> QED
  BY <1>1, MaxNowAssumption DEF Typed

LEMMA OfCallerType ==
    ASSUME Typed, NEW f \in Forms, NEW k \in Keys
    PROVE  /\ OfCaller(f, k) \subseteq Requests
           /\ \A r \in OfCaller(f, k) : granted[r] \in Int /\ granted[r] >= 0
  BY Ticks DEF OfCaller

\* Sweeping drops a window when nobody it counted can be in it any more.
LEMMA AccountSwept ==
    ASSUME Typed, now' \in Nat, now <= now', forms' = forms,
           NEW f \in Forms, NEW k \in Keys, Account(f, k),
           \/ seen'[f][k] = seen[f][k]
           \/ seen'[f][k] = Absent /\ Expired(seen[f][k], now),
           OfCaller(f, k)' = OfCaller(f, k),
           \A q \in OfCaller(f, k) : granted'[q] = granted[q]
    PROVE  Account(f, k)'
<1>0. /\ now \in Nat /\ seen[f][k] \in Window
      /\ \A q \in OfCaller(f, k) : granted[q] \in Int
  BY Ticks, OfCallerType
<1>1. CASE seen'[f][k] = seen[f][k] /\ seen[f][k] # Absent
  <2>1. Spent(f, k)' = Spent(f, k)
    BY <1>1 DEF Spent
  <2> QED
    BY <1>0, <1>1, <2>1, PeriodAssumption DEF Account, Window
<1>2. CASE seen'[f][k] = seen[f][k] /\ seen[f][k] = Absent
  BY <1>0, <1>2, SMTT(30) DEF Account
<1>3. CASE seen'[f][k] = Absent /\ Expired(seen[f][k], now) /\ seen[f][k] # Absent
  BY <1>0, <1>3 DEF Account, Expired, Window
<1> QED
  BY <1>1, <1>2, <1>3

\* Of a request that was granted, no step changes the form or the caller.
LEMMA CallerKept ==
    ASSUME Typed, Stories, NEW r \in Requests,
           Arrive(r) \/ HandlerStep(r) \/ ProviderAcceptsLate(r),
           NEW q \in Requests, granted[q] # Never
    PROVE  /\ req'[q].path = req[q].path
           /\ req'[q].client = req[q].client
           /\ granted'[q] = granted[q]
<1> USE DEF Typed
<1>1. CASE q # r
  BY <1>1, StoryOfOthers
<1>2. CASE q = r
  <2>1. pc[r] \notin {"waiting", "routed", "checking"}
    BY <1>2 DEF Stories, Story, OnItsWay
  <2>2. CASE Decode(r)
    <3>1. PICK b \in Bodies : req' = [req EXCEPT ![r]["body"] = b]
      BY <2>2 DEF Decode, Read
    <3> QED
      BY <1>2, <2>2, <3>1 DEF Decode, Request
  <2>3. CASE ~Decode(r)
    <3>1. UNCHANGED <<req, granted>>
      BY <2>1, <2>3
         DEF Arrive, ProviderAcceptsLate, HandlerStep, ServeHealth, ServeUnknownForm,
             Redirect, ServeElsewhere, ReadOrigin, Preflight, WrongMethod, WrongOrigin,
             Allow, TooMany, ChecksPassed, DropSpam, Invalid, Valid, SubjectFails,
             CallMailer, ProviderAccepts, SendFails, SendSucceeds, AccessLine
    <3> QED
      BY <1>2, <3>1
  <2> QED
    BY <2>2, <2>3
<1> QED
  BY <1>1, <1>2

\* The callers' requests are the same ones after a step that grants nothing.
LEMMA CallersKept ==
    ASSUME Typed, Stories, NEW r \in Requests,
           Arrive(r) \/ HandlerStep(r) \/ ProviderAcceptsLate(r),
           granted' = granted, NEW f \in Forms, NEW k \in Keys
    PROVE  OfCaller(f, k)' = OfCaller(f, k)
<1>1. forms' = forms
  BY DEF Arrive, ProviderAcceptsLate, HandlerStep, ServeHealth, ServeUnknownForm,
         Redirect, ServeElsewhere, ReadOrigin, Preflight, WrongMethod, WrongOrigin,
         Allow, TooMany, Decode, DropSpam, Invalid, Valid, SubjectFails,
         CallMailer, ProviderAccepts, SendFails, SendSucceeds, AccessLine
<1>2. \A q \in Requests : granted[q] >= 0 => granted[q] # Never
  BY DEF Typed, Never, Forgiven
<1>3. \A q \in Requests : granted[q] >= 0 =>
        req'[q].path = req[q].path /\ req'[q].client = req[q].client
  BY <1>2, CallerKept
<1> QED
  BY <1>1, <1>3 DEF OfCaller, OnForm, ServesForm, Form

\* A granted request joins those of its caller on its form, and their windows count it.
LEMMA AccountGranted ==
    ASSUME Typed, Stories, Accounts, NEW r \in Requests, Allow(r),
           NEW f \in Forms, NEW j \in Keys, Limit[f] > 0
    PROVE  Account(f, j)'
<1>1. PICK k \in Keys :
        /\ req' = [req EXCEPT ![r]["client"] = k]
        /\ Limit[Form(r)] <= 0 \/ May(Swept1(r), k, Limit[Form(r)])
        /\ seen' = [g \in Forms |-> IF g \in Asks(r) /\ Limit[g] > 0
                                    THEN Counted(Swept(seen[g], now), k, now) ELSE seen[g]]
  BY DEF Allow, Read
<1>2. /\ now' = now /\ forms' = forms /\ granted' = [granted EXCEPT ![r] = now]
      /\ now \in Nat /\ Account(f, j) /\ seen[f] \in [Keys -> Window]
      /\ Limit[f] \in Int
  BY Ticks, FormsAssumption DEF Allow, Accounts, Typed
<1> DEFINE s == Swept(seen[f], now)
<1>3. /\ r \notin OfCaller(f, j)
      /\ \A q \in OfCaller(f, j) : granted'[q] = granted[q]
      /\ f = Form(r) /\ j = k => OfCaller(f, j)' = OfCaller(f, j) \cup {r}
      /\ f # Form(r) \/ j # k => OfCaller(f, j)' = OfCaller(f, j)
  <2>1. pc[r] = "checking"
    BY DEF Allow, ChecksPassed
  <2>2. granted[r] = Never /\ OnForm(r)
    BY <2>1 DEF Stories, Story, OnItsWay
  <2>3. /\ \A q \in Requests \ {r} : req'[q] = req[q] /\ granted'[q] = granted[q]
        /\ req'[r].path = req[r].path /\ req'[r].client = k
        /\ granted'[r] = now /\ now >= 0
    BY <1>1, <1>2 DEF Typed, Request
  <2>4. r \notin OfCaller(f, j)
    BY <2>2 DEF OfCaller, Never
  <2>5. \A q \in Requests \ {r} : q \in OfCaller(f, j)' <=> q \in OfCaller(f, j)
    BY <1>2, <2>3 DEF OfCaller, OnForm, ServesForm, Form
  <2>6. r \in OfCaller(f, j)' <=> f = Form(r) /\ j = k
    BY <1>2, <2>2, <2>3 DEF OfCaller, OnForm, ServesForm, Form
  <2>7. OfCaller(f, j) \subseteq Requests /\ OfCaller(f, j)' \subseteq Requests
    BY DEF OfCaller
  <2> HIDE DEF s
  <2> QED
    BY <2>3, <2>4, <2>5, <2>6, <2>7
<1>4. \A q \in OfCaller(f, j) : granted[q] \in Int /\ granted[q] >= 0
  BY OfCallerType
<1>5. s \in [Keys -> Window] /\ (Expired(seen[f][j], now) => s[j] = Absent)
      /\ (~Expired(seen[f][j], now) => s[j] = seen[f][j])
  BY <1>2, SweptType, SweptValue
<1>6. CASE f # Form(r)
  <2>1. seen'[f][j] = seen[f][j]
    BY <1>1, <1>6 DEF Asks
  <2> QED
    BY <1>2, <1>3, <1>6, <2>1, AccountSwept
<1>7. CASE f = Form(r) /\ j # k
  <2>1. seen'[f][j] = s[j]
    BY <1>1, <1>2, <1>5, <1>7, CountedValue DEF Asks
  <2> QED
    BY <1>2, <1>3, <1>5, <1>7, <2>1, AccountSwept
<1>8. CASE f = Form(r) /\ j = k /\ s[k] = Absent
  <2>1. seen'[f][k] = [count |-> 1, reset |-> now + Period]
    BY <1>1, <1>2, <1>5, <1>8, CountedValue DEF Asks
  <2>2. seen'[f][k].count = 1 /\ seen'[f][k].reset = now + Period /\ seen'[f][k] # Absent
    BY <2>1 DEF Absent
  <2>3. \A q \in OfCaller(f, k) : granted[q] < now
    <3>1. CASE seen[f][k] = Absent
      BY <1>2, <1>8, <3>1 DEF Account
    <3>2. CASE seen[f][k] # Absent
      <4>1. Expired(seen[f][k], now)
        BY <1>5, <1>8, <3>2
      <4> QED
        BY <1>2, <1>4, <1>8, <3>2, <4>1 DEF Account, Expired, Window
    <3> QED
      BY <3>1, <3>2
  <2>4. granted'[r] = now
    BY <1>2 DEF Typed
  <2>5. Spent(f, k)' = {r}
    BY <1>2, <1>3, <1>4, <1>8, <2>2, <2>3, <2>4, PeriodAssumption DEF Spent
  <2>6. Cardinality(Spent(f, k)') = 1
    BY <2>5, FS_Singleton
  <2>7. \A q \in OfCaller(f, k)' : granted'[q] <= seen'[f][k].reset
    BY <1>2, <1>3, <1>4, <1>8, <2>2, <2>3, <2>4, PeriodAssumption
  <2> QED
    BY <1>2, <1>8, <2>2, <2>6, <2>7, PeriodAssumption DEF Account
<1>9. CASE f = Form(r) /\ j = k /\ s[k] # Absent
  <2>1. s[k] = seen[f][k] /\ now <= seen[f][k].reset /\ seen[f][k] \in Window
    BY <1>2, <1>5, <1>9 DEF Expired, Window
  <2>2. /\ seen'[f][k].count = seen[f][k].count + 1
        /\ seen'[f][k].reset = seen[f][k].reset
        /\ seen'[f][k] # Absent
    <3>1. seen'[f][k] = [count |-> s[k].count + 1, reset |-> s[k].reset]
      BY <1>1, <1>2, <1>5, <1>9, CountedValue DEF Asks
    <3> QED
      BY <2>1, <3>1 DEF Absent, Window
  <2>3. /\ \A q \in OfCaller(f, k) : granted[q] <= seen[f][k].reset
        /\ seen[f][k].reset <= now + Period
        /\ Cardinality(Spent(f, k)) = seen[f][k].count
    BY <1>2, <1>9, <2>1 DEF Account
  <2>4. granted'[r] = now
    BY <1>2 DEF Typed
  <2>5. Spent(f, k)' = Spent(f, k) \cup {r}
    BY <1>2, <1>3, <1>4, <1>9, <2>1, <2>2, <2>3, <2>4, PeriodAssumption DEF Spent, Window
  <2>6. r \notin Spent(f, k) /\ IsFiniteSet(Spent(f, k))
    <3>1. Spent(f, k) \subseteq Requests
      BY DEF Spent, OfCaller
    <3> QED
      BY <1>3, <1>9, <3>1, RequestsAssumption, FS_Subset DEF Spent
  <2>7. Cardinality(Spent(f, k)') = Cardinality(Spent(f, k)) + 1
    BY <2>5, <2>6, FS_AddElement
  <2>8. \A q \in OfCaller(f, k)' : granted'[q] <= seen'[f][k].reset
    BY <1>2, <1>3, <1>9, <2>1, <2>2, <2>3, <2>4
  <2>9. seen'[f][k].count <= Limit[f]
    <3>1. May(s, k, Limit[f])
      BY <1>1, <1>2, <1>9 DEF Swept1
    <3> QED
      BY <1>2, <1>9, <2>1, <2>2, <3>1 DEF May, Window
  <2> QED
    BY <1>2, <1>9, <2>2, <2>3, <2>7, <2>8, <2>9 DEF Account
<1> QED
  BY <1>6, <1>7, <1>8, <1>9

LEMMA AccountsInit == Init => Accounts
<1> SUFFICES ASSUME Init PROVE Accounts
  OBVIOUS
<1>1. \A r \in Requests : granted[r] = -1
  BY DEF Init, Never
<1>2. \A f \in Forms, k \in Keys : seen[f][k] = Absent /\ OfCaller(f, k) = {}
  BY <1>1 DEF Init, NobodySeen, OfCaller
<1> QED
  BY <1>1, <1>2 DEF Init, Accounts, Account

LEMMA AccountsNext == Typed /\ Typed' /\ Stories /\ Accounts /\ [Next]_vars => Accounts'
<1> SUFFICES ASSUME Typed, Typed', Stories, Accounts, [Next]_vars PROVE Accounts'
  OBVIOUS
<1>0. /\ now \in Nat /\ now' \in Nat
      /\ \A r \in Requests : granted[r] \in Int /\ granted[r] <= now
      /\ \A f \in Forms, k \in Keys : Limit[f] > 0 => Account(f, k)
  <2>1. now' \in Nat
    BY MaxNowAssumption DEF Typed
  <2> QED
    BY <2>1, Ticks DEF Accounts
<1>1. CASE Tick \/ UNCHANGED vars
  <2>1. now <= now' /\ UNCHANGED <<forms, seen, req, granted>>
    BY <1>0, <1>1 DEF Tick, vars
  <2>2. \A f \in Forms, k \in Keys : OfCaller(f, k)' = OfCaller(f, k)
    BY <2>1 DEF OfCaller, OnForm, ServesForm, Form
  <2>3. \A f \in Forms, k \in Keys : Limit[f] > 0 => Account(f, k)'
    BY <1>0, <2>1, <2>2, AccountSwept
  <2> QED
    BY <1>0, <2>1, <2>3 DEF Accounts
<1>2. CASE Restart
  <2>1. \A r \in Requests : granted'[r] \in {-1, -2}
    BY <1>2 DEF Restart, Never, Forgiven
  <2>2. \A f \in Forms, k \in Keys : seen'[f][k] = Absent /\ OfCaller(f, k)' = {}
    BY <1>2, <2>1 DEF Restart, NobodySeen, OfCaller
  <2> QED
    BY <1>0, <2>1, <2>2 DEF Accounts, Account
<1>3. ASSUME NEW r \in Requests, Allow(r) PROVE Accounts'
  <2>1. \A f \in Forms, k \in Keys : Limit[f] > 0 => Account(f, k)'
    BY <1>3, AccountGranted
  <2>2. \A q \in Requests : granted'[q] <= now'
    BY <1>0, <1>3 DEF Allow, Typed
  <2> QED
    BY <2>1, <2>2, FormsAssumption DEF Accounts
<1>4. ASSUME NEW r \in Requests, Arrive(r) \/ HandlerStep(r) \/ ProviderAcceptsLate(r),
             ~Allow(r)
      PROVE  Accounts'
  <2>1. now' = now /\ forms' = forms /\ granted' = granted
    BY <1>4
       DEF Arrive, ProviderAcceptsLate, HandlerStep, ServeHealth, ServeUnknownForm,
           Redirect, ServeElsewhere, ReadOrigin, Preflight, WrongMethod, WrongOrigin,
           TooMany, Decode, DropSpam, Invalid, Valid, SubjectFails,
           CallMailer, ProviderAccepts, SendFails, SendSucceeds, AccessLine
  <2>2. \A f \in Forms, k \in Keys : OfCaller(f, k)' = OfCaller(f, k)
    BY <1>4, <2>1, CallersKept
  <2>3. \A f \in Forms, k \in Keys :
          \/ seen'[f][k] = seen[f][k]
          \/ seen'[f][k] = Absent /\ Expired(seen[f][k], now)
    <3>1. CASE TooMany(r)
      <4>1. seen' = [seen EXCEPT ![Form(r)] = Swept(seen[Form(r)], now)]
        BY <3>1 DEF TooMany, Swept1
      <4> QED
        BY <1>0, <4>1, SweptValue DEF Typed
    <3>2. CASE ~TooMany(r)
      <4>1. seen' = seen
        BY <1>4, <3>2
           DEF Arrive, ProviderAcceptsLate, HandlerStep, ServeHealth, ServeUnknownForm,
               Redirect, ServeElsewhere, ReadOrigin, Preflight, WrongMethod, WrongOrigin,
               Decode, DropSpam, Invalid, Valid, SubjectFails,
               CallMailer, ProviderAccepts, SendFails, SendSucceeds, AccessLine
      <4> QED
        BY <4>1
    <3> QED
      BY <3>1, <3>2
  <2>4. \A f \in Forms, k \in Keys : Limit[f] > 0 => Account(f, k)'
    BY <1>0, <2>1, <2>2, <2>3, AccountSwept
  <2> QED
    BY <1>0, <2>1, <2>4 DEF Accounts
<1> QED
  BY <1>1, <1>2, <1>3, <1>4 DEF Next, HandlerStep

\* The windows of every form account for what it granted.
THEOREM AccountsHold == Spec => []Accounts
  BY TypedInit, TypedNext, StoriesHold, AccountsInit, AccountsNext, PTL DEF Spec

\* A caller's open window counts the requests that this form granted it, and
\* never more than its limit.
THEOREM AllowanceIsPerFormHolds == Spec => []AllowanceIsPerForm
<1>1. Accounts => AllowanceIsPerForm
  <2> SUFFICES ASSUME Accounts, NEW f \in Forms, NEW k \in Keys,
                      Limit[f] > 0, seen[f][k] # Absent
               PROVE  /\ Cardinality({r \in Requests :
                              /\ OnForm(r) /\ Form(r) = f
                              /\ req[r].client = k
                              /\ granted[r] >= seen[f][k].reset - Period
                              /\ granted[r] >= 0}) = seen[f][k].count
                      /\ seen[f][k].count <= Limit[f]
    BY DEF AllowanceIsPerForm
  <2>1. Spent(f, k) = {r \in Requests :
                              /\ OnForm(r) /\ Form(r) = f
                              /\ req[r].client = k
                              /\ granted[r] >= seen[f][k].reset - Period
                              /\ granted[r] >= 0}
    BY DEF Spent, OfCaller
  <2> QED
    BY <2>1 DEF Accounts, Account
<1> QED
  BY <1>1, AccountsHold, PTL
=============================================================================
