----------------------------- MODULE Validation -----------------------------
(***************************************************************************)
(* What becomes of the texts of a request: the body is read up to a limit  *)
(* in bytes, its fields are trimmed and measured, some in characters and   *)
(* one in bytes, what is left of them goes into the headers of a mail, and *)
(* some of it, with the path and the Origin header, into the log.          *)
(***************************************************************************)
EXTENDS Text

CONSTANTS
    MaxNameLen, MaxEmailLen, MaxMessageLen, MinMessageLen,
    BodyLimit,                  \* of http.MaxBytesReader
    MaxLogged,                  \* logsafe.Max
    Site,                       \* the origin the form is for
    Requests,                   \* the requests to try
    Templates                   \* the subject templates to try: the text before
                                \* and after the name, and whether Execute works

ASSUME LimitsAssumption ==
    /\ {MaxNameLen, MaxEmailLen, MaxMessageLen, MinMessageLen, BodyLimit, MaxLogged} \subseteq Nat
    /\ MinMessageLen <= MaxMessageLen

(***************************************************************************)
(* A request has a path and an origin; four fields; what net/mail makes of *)
(* the email: parse is "bare" for an address and nothing else, "named" for *)
(* one with a display name, or "broken"; whether it is readable, JSON      *)
(* without a field the decoder does not know, and what it has to complain  *)
(* of if not; whether it is escaped, written with \u everywhere or only    *)
(* where it has to be; how many bytes of the JSON are none of its fields', *)
(* their names, the punctuation and white space wherever JSON allows it;   *)
(* and how many bytes come after the JSON.                                 *)
(***************************************************************************)
ASSUME RequestsAssumption ==
    \A r \in Requests :
        /\ {r.path, r.origin, r.complaint, r.name, r.email, r.message, r.website} \subseteq Texts
        /\ {r.readable, r.escaped} \subseteq BOOLEAN
        /\ r.parse = "bare" => ~ Has(TrimSpace(r.email), {"break"})
        /\ {r.framing, r.trailing} \subseteq Nat

ASSUME TemplatesAssumption ==
    \A t \in Templates : {t.before, t.after} \subseteq Texts /\ t.renders \in BOOLEAN

VARIABLES
    posted,
    template,
    provider,   \* which adapter the form has
    stage,      \* "received", "decoded", "accepted", or how it ended:
                \* "forbidden", "unreadable", "dropped", "rejected", "failed", "sent"
    rejection,  \* the ValidationError
    headers,    \* what the provider gets for headers
    line        \* the texts from outside in the lines logged

vars == <<posted, template, provider, stage, rejection, headers, line>>

Init ==
    /\ posted \in Requests
    /\ template \in Templates
    /\ provider \in {"smtp", "mailgun"}
    /\ stage = "received"
    /\ rejection = [field |-> "", reason |-> ""]
    /\ headers = [subject |-> <<>>, replyTo |-> <<>>]
    /\ line = <<>>

\* The request ends: the handler's own line has these texts in it, and the
\* access log the path and the origin.
Ends(how, texts) ==
    /\ stage' = how
    /\ line' = [i \in DOMAIN texts |-> Loggable(texts[i], MaxLogged)]
               \o << Loggable(posted.path, MaxLogged), Loggable(posted.origin, MaxLogged) >>

-----------------------------------------------------------------------------
\* Every character with \u takes six bytes, one outside the basic plane twelve;
\* without, only breaks and control characters have to be escaped.
AsEscapes == [c \in DOMAIN UTF8 |-> IF c = "wide" THEN 12 ELSE 6]
AsIs == [UTF8 EXCEPT !.break = 2, !.control = 6]

JSONLength ==
    posted.framing + Weight(posted.name \o posted.email \o posted.message \o posted.website,
                            IF posted.escaped THEN AsEscapes ELSE AsIs)

\* Decode stops where the JSON ends.
BodyFits == JSONLength <= BodyLimit

Forbid ==
    /\ stage = "received"
    /\ posted.origin # Site
    /\ Ends("forbidden", << posted.origin >>)
    /\ UNCHANGED <<posted, template, provider, rejection, headers>>

Decode ==
    /\ stage = "received"
    /\ posted.origin = Site
    /\ IF posted.readable /\ BodyFits
       THEN stage' = "decoded" /\ line' = line
       ELSE Ends("unreadable", << posted.origin, posted.complaint >>)
    /\ UNCHANGED <<posted, template, provider, rejection, headers>>

name == TrimSpace(posted.name)
email == TrimSpace(posted.email)
body == TrimSpace(posted.message)

Rule(field, reason, broken) == [field |-> field, reason |-> reason, broken |-> broken]

\* Faulty variant: the email is measured in characters, as the others are.
EmailCharacters == Length(email)
EmailBytes == Weight(email, UTF8)

\* What Validate looks at, in its order.
Rules ==
    << Rule("name", "required", name = <<>>),
       Rule("name", "too long", Length(name) > MaxNameLen),
       Rule("email", "required", email = <<>>),
       Rule("email", "too long", EmailBytes > MaxEmailLen),
       Rule("message", "required", body = <<>>),
       Rule("message", "too short", Length(body) < MinMessageLen),
       Rule("message", "too long", Length(body) > MaxMessageLen),
       Rule("email", "not a valid address", posted.parse # "bare") >>

\* The one that is answered.  Faulty variant: the last of them.
LastOf(broken) == Max(broken)
FirstOf(broken) == Min(broken)

Broken == {i \in DOMAIN Rules : Rules[i].broken}

IsSpam == TrimSpace(posted.website) # <<>>

Spam ==
    /\ stage = "decoded"
    /\ IsSpam
    /\ Ends("dropped", << posted.origin >>)
    /\ UNCHANGED <<posted, template, provider, rejection, headers>>

Reject ==
    /\ stage = "decoded"
    /\ ~ IsSpam
    /\ Broken # {}
    /\ LET rule == Rules[FirstOf(Broken)] IN
       rejection' = [field |-> rule.field, reason |-> rule.reason]
    /\ Ends("rejected", << posted.origin >>)
    /\ UNCHANGED <<posted, template, provider, headers>>

Accept ==
    /\ stage = "decoded"
    /\ ~ IsSpam
    /\ Broken = {}
    /\ stage' = "accepted"
    /\ UNCHANGED <<posted, template, provider, rejection, headers, line>>

\* Faulty variant: only what surrounds the text is taken off.
stripBreaksAround(t) == TrimSpace(t)
stripBreaks(t) == Without(t, {"break"})

sanitiseHeader(t) == Without(t, {"break"})

NoSubject ==
    /\ stage = "accepted"
    /\ ~ template.renders
    /\ Ends("failed", <<>>)
    /\ UNCHANGED <<posted, template, provider, rejection, headers>>

\* subjectFor renders the sender's name into the template; the SMTP adapter
\* cleans the headers it writes once more, the Mailgun adapter does not.
Deliver ==
    /\ stage = "accepted"
    /\ template.renders
    /\ LET subject == stripBreaks(template.before \o name \o template.after) IN
       headers' = IF provider = "smtp"
                  THEN [subject |-> sanitiseHeader(subject), replyTo |-> sanitiseHeader(email)]
                  ELSE [subject |-> subject, replyTo |-> email]
    /\ Ends("sent", << email >>)
    /\ UNCHANGED <<posted, template, provider, rejection>>

Next == Forbid \/ Decode \/ Spam \/ Reject \/ Accept \/ NoSubject \/ Deliver

Spec == Init /\ [][Next]_vars

-----------------------------------------------------------------------------
Ended == stage \notin {"received", "decoded", "accepted"}

\* The characters of a field that count, told from its ends inward.
Counted(t, bytes) ==
    LET blank(i) == t[i].class \in {"space", "break"} \/ t[i].count = 0
        inner == {i \in DOMAIN t : \E j, k \in DOMAIN t :
                    j <= i /\ i <= k /\ ~ blank(j) /\ ~ blank(k)} IN
    Weight([i \in DOMAIN t |-> [t[i] EXCEPT !.count = IF i \in inner THEN @ ELSE 0]], bytes)

Ones == [c \in DOMAIN UTF8 |-> 1]

WithinLimits ==
    /\ Counted(posted.name, Ones) \in 1..MaxNameLen
    /\ Counted(posted.message, Ones) \in 1..MaxMessageLen
    /\ Counted(posted.message, Ones) >= MinMessageLen
    /\ Counted(posted.email, UTF8) \in 1..MaxEmailLen
    /\ posted.parse = "bare"
    /\ Counted(posted.website, Ones) = 0

\* The bytes the white space around the fields takes, escaped, and how many are left
\* for it when every field is at its limit and escaped the longest way.
Around(r) ==
    LET around(t) == Weight(t, AsEscapes) - Counted(t, AsEscapes) IN
    around(r.name) + around(r.email) + around(r.message) + around(r.website)

Room == BodyLimit - (12 * MaxNameLen + 6 * MaxEmailLen + 12 * MaxMessageLen)

(***************************************************************************)
(* A mail is sent for none but the submissions of the form's own site that *)
(* keep the documented limits, and for every one of them whose padding is  *)
(* no more than the Room for it: white space around a field buys nobody a  *)
(* message, and the limit on the body never turns down what the limits on  *)
(* the fields allow, whether its characters are escaped or not; padding is *)
(* all else, what frames the fields, the white space around them and what  *)
(* follows the JSON (contact.go:78-83, 135-179, handler.go:158-160).  The  *)
(* one thing that can still lose it is a template that fails.              *)
(***************************************************************************)
SentExactlyWithinLimits ==
    LET deserved == posted.origin = Site /\ posted.readable /\ WithinLimits
        mailed == stage \in {"sent", "failed"} IN
    Ended => /\ mailed => deserved
             /\ deserved /\ posted.framing + Around(posted) + posted.trailing <= Room => mailed

(***************************************************************************)
(* What api/openapi.yaml:177-178 says of a 400: "The body could not be     *)
(* read: malformed JSON, a field this service does not know, or more than  *)
(* 64 KiB of it."                                                          *)
(***************************************************************************)
LargeBodiesAreRefused ==
    Ended /\ posted.origin = Site /\ JSONLength + posted.trailing > BodyLimit =>
        stage = "unreadable"

\* What can be wrong with a field, told from what was posted.
TooLong(field) ==
    \/ field = "name" /\ Counted(posted.name, Ones) > MaxNameLen
    \/ field = "email" /\ Counted(posted.email, UTF8) > MaxEmailLen
    \/ field = "message" /\ Counted(posted.message, Ones) > MaxMessageLen

Fault(field, reason) ==
    LET size == Counted(posted[field], Ones) IN
    \/ reason = "required" /\ size = 0
    \/ reason = "too short" /\ field = "message" /\ size \in 1..(MinMessageLen - 1)
    \/ reason = "too long" /\ TooLong(field)
    \/ reason = "not a valid address" /\ field = "email" /\ posted.parse # "bare"

\* The fields that can have no such fault when this one is answered.
Before == [name |-> {}, email |-> {"name"}, message |-> {"name", "email"}]

Cleared(field, reason) ==
    IF reason = "not a valid address" THEN {"name", "email", "message"} ELSE Before[field]

(***************************************************************************)
(* The page is pointed at a field that is wrong and told what is wrong     *)
(* with it, in the order of the form: the email is found fault with only   *)
(* if there is a name of a length that is allowed, the message only if     *)
(* there are such a name and email, and an address is called malformed     *)
(* only if all three are there and of an allowed length, so that nothing   *)
(* else is wrong (contact.go:119-126, 144-172).                            *)
(***************************************************************************)
RejectionIsTrue ==
    stage = "rejected" =>
        /\ Fault(rejection.field, rejection.reason)
        /\ \A other \in Cleared(rejection.field, rejection.reason) :
              \A reason \in {"required", "too short", "too long"} : ~ Fault(other, reason)

(***************************************************************************)
(* Nothing a visitor types, and nothing in a template, starts a header of  *)
(* its own, whichever provider the form has; and but for its breaks the    *)
(* sender's name arrives whole (handler.go:79-89, contact.go:181-192,      *)
(* smtp.go:140-142).                                                       *)
(***************************************************************************)
NoHeaderIsBroken ==
    /\ ~ Has(headers.subject, {"break"}) /\ ~ Has(headers.replyTo, {"break"})
    /\ stage = "sent" =>
          Length(headers.subject) >= Counted(Without(posted.name, {"break"}), Ones)

(***************************************************************************)
(* Whatever somebody sends for a path, an origin, an address or a body, a  *)
(* line of the log stays one line, of bounded length, without control      *)
(* characters; and a value is cut just where there would otherwise be more *)
(* than the bound to read, and then says so (logsafe.go:24-80).            *)
(***************************************************************************)
LogLineIsClean ==
    /\ \A i \in DOMAIN line :
        ~ Has(line[i], {"break", "control", "invalid"}) /\ Length(line[i]) <= MaxLogged + 1
    /\ Ended =>
        LET logged == line[Len(line) - 1]
            legible == Length(Without(posted.path, {"break", "control", "invalid"})) IN
        IF legible > MaxLogged
        THEN Has(logged, {"mark"}) /\ Length(logged) = MaxLogged + 1
        ELSE Length(logged) = legible
=============================================================================
