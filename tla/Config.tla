------------------------------- MODULE Config -------------------------------
(***************************************************************************)
(* Startup: internal/config decides from the environment or from a forms   *)
(* file what the service is told to do, and server.New builds a route, an  *)
(* adapter and an allowance for each form of it.  What matters here is     *)
(* which login a form ends up with and what is refused before anything is  *)
(* served, so a block of settings is reduced to:                           *)
(*                                                                         *)
(*   who     the Username, or the Mailgun Domain                           *)
(*   place   the Addr, or the Region; Elsewhere is an address without a    *)
(*           port, or a region nobody has                                  *)
(*   inline  the Password or APIKey written in the file                    *)
(*   named   the PasswordEnv or APIKeyEnv: a variable that holds it        *)
(*                                                                         *)
(*   base    the BaseURL that overrides the Region, as Refused is one the  *)
(*           Mailgun client will not take                                  *)
(*                                                                         *)
(* each of them None when left out.  A value tells which block it is from. *)
(* The rest of a form is the shape of each setting: its from and to        *)
(* ("fine", "faulty", and in the environment "missing"), its origins       *)
(* ("usual" as a browser sends one; "unusual", which parses but which no   *)
(* browser sends, as with a capital or the port 443; "path"; "none";       *)
(* "missing"), its subject template ("fine", "broken", "unrenderable") and *)
(* its rate limit, a number or None.                                       *)
(***************************************************************************)
EXTENDS Naturals, Sequences

CONSTANTS
    Sources,        \* what the process may find when it starts: the set of
                    \* environments and forms files to try
    None,           \* a setting, a block or an id that is left out
    Elsewhere,
    Refused,
    WellFormedIds   \* the ids that match formID

\* formID matches "default", the one id the environment can make, and not the
\* empty string.
ASSUME IdsAssumption == "default" \in WellFormedIds /\ None \notin WellFormedIds

ASSUME NoneAssumption == None \notin {"Load", "New"}

ASSUME SourcesAssumption ==
    \A s \in Sources :
        \/ /\ s.kind = "env"
           /\ s.origins \in {"usual", "unusual", "path", "none", "missing"}
        \/ /\ s.kind = "file"
           /\ s.forms \in Seq({s.forms[i] : i \in DOMAIN s.forms})
           /\ \A i \in DOMAIN s.forms :
                /\ s.forms[i].mail \in {"fine", "faulty"}
                /\ s.forms[i].origins \in {"usual", "unusual", "path", "none"}

VARIABLES
    phase,      \* "loading", "resolving", "validating", "building",
                \* "serving", "refused", "panicked"
    by,         \* who refused: "Load", "New", or None
    source,
    forms,      \* Config.Forms, as far as they are resolved
    checked,    \* how many of them validate has been through
    seen,       \* the ids it has seen
    mounted     \* the forms that have a route, in order

vars == <<phase, by, source, forms, checked, seen, mounted>>

Init ==
    /\ phase = "loading"
    /\ by = None
    /\ source \in Sources
    /\ forms = <<>>
    /\ checked = 0
    /\ seen = {}
    /\ mounted = <<>>

Refuse(who) ==
    /\ phase' = "refused"
    /\ by' = who
    /\ UNCHANGED <<source, forms, checked, seen, mounted>>

-----------------------------------------------------------------------------
(* How a form's block is laid over the file's.                             *)

Empty == [who |-> None, place |-> None, base |-> None, inline |-> None, named |-> None]

Or(a, b) == IF a # None THEN a ELSE b

\* Which variable the merged block names.  Faulty variants: an inline secret does
\* not displace a variable named further out; a secret is not inherited.
NamedKeeping(merged, layer) == Or(layer.named, merged.named)
NamedAfresh(merged, layer) == layer.named
Named(merged, layer) == IF layer.inline # None THEN layer.named ELSE Or(layer.named, merged.named)

\* One turn of the loop over the layers.  The two ways to give a secret displace
\* each other, and within a layer the variable is looked at last.
Overlay(merged, layer) ==
    [who    |-> Or(layer.who, merged.who),
     place  |-> Or(layer.place, merged.place),
     base   |-> Or(layer.base, merged.base),
     inline |-> IF layer.named # None THEN None ELSE Or(layer.inline, merged.inline),
     named  |-> Named(merged, layer)]

OrEmpty(layer) == IF layer = None THEN Empty ELSE layer

mergeSMTPLayers(defaults, form) == Overlay(Overlay(Empty, OrEmpty(defaults)), OrEmpty(form))

mergeMailgunLayers(defaults, form) == Overlay(Overlay(Empty, OrEmpty(defaults)), OrEmpty(form))

NoSecret == [from |-> "nowhere", of |-> None]

\* The secret a merged block comes to: read from its variable when it names one
\* (source.set are the variables that hold something), else what is inline.
Secret(m) ==
    CASE m.named # None /\ m.named \in source.set    -> [from |-> "variable", of |-> m.named]
      [] m.named # None /\ m.named \notin source.set -> NoSecret
      [] m.named = None /\ m.inline # None           -> [from |-> "file", of |-> m.inline]
      [] OTHER                                       -> NoSecret

MissingSecret(m) == m.named # None /\ Secret(m) = NoSecret

SetsBoth(layer) == layer # None /\ layer.inline # None /\ layer.named # None

\* Faulty variant: only the form's own block is looked at.
validateSMTPLayersOfTheForm(defaults, form) == ~ SetsBoth(form)

validateSMTPLayers(defaults, form) == ~ SetsBoth(form) /\ ~ SetsBoth(defaults)

-----------------------------------------------------------------------------
(* resolveSMTP, resolveMailgun, resolveProvider: a set with the one way    *)
(* the form sends, or the empty set where the code returns an error.       *)

Way(provider, m) ==
    [by |-> provider, who |-> m.who, place |-> m.place, base |-> m.base, secret |-> Secret(m)]

resolveSMTP(defaults, form) ==
    LET m == mergeSMTPLayers(defaults, form) IN
    { w \in {Way("smtp", m)} :
        /\ validateSMTPLayers(defaults, form)
        /\ ~ MissingSecret(m)
        /\ w.who # None => w.secret # NoSecret }

resolveMailgun(defaults, form) ==
    LET m == mergeMailgunLayers(defaults, form) IN
    { w \in {Way("mailgun", m)} :
        /\ ~ SetsBoth(form)
        /\ ~ MissingSecret(m)
        /\ w.who # None
        /\ w.secret # NoSecret
        /\ w.place # Elsewhere }

resolveProvider(f) ==
    CASE f.smtp # None /\ f.mailgun # None -> {}
      [] f.smtp = None /\ f.mailgun # None -> resolveMailgun(source.mailgun, f.mailgun)
      [] f.smtp # None /\ f.mailgun = None -> resolveSMTP(source.smtp, f.smtp)
      [] OTHER ->
           CASE source.mailgun # None /\ source.smtp # None -> {}
             [] source.mailgun # None /\ source.smtp = None -> resolveMailgun(source.mailgun, None)
             [] source.mailgun = None                       -> resolveSMTP(source.smtp, None)

-----------------------------------------------------------------------------
(* Load.                                                                   *)

BadLevel ==
    /\ phase = "loading"
    /\ ~ source.level
    /\ Refuse("Load")

DefaultRateLimitPerHour == 5

\* The limit a form gets: what is written, where something is.  Faulty variant: a
\* limit turned off is taken for one left out.
LimitUnlessZero(written) == IF written \in {None, 0} THEN DefaultRateLimitPerHour ELSE written
Limit(written) == IF written = None THEN DefaultRateLimitPerHour ELSE written

\* formFromEnv as far as its call of validate.  Nothing asks whether there is a
\* password to go with the username.  What there is to read is the rate limit.
EnvComplete == source.mail # "missing" /\ source.origins # "missing" /\ source.readable

EnvForm ==
    [id |-> "default", mail |-> source.mail, origins |-> source.origins, subject |-> "fine",
     limit |-> Limit(source.limit), by |-> "smtp", who |-> source.user, place |-> source.addr,
     base |-> None,
     secret |-> IF source.password = None THEN NoSecret ELSE [from |-> "variable", of |-> source.password]]

LoadEnv ==
    /\ phase = "loading"
    /\ source.level
    /\ source.kind = "env"
    /\ IF EnvComplete
       THEN /\ forms' = << EnvForm >>
            /\ phase' = "validating"
            /\ UNCHANGED <<by, source, checked, seen, mounted>>
       ELSE Refuse("Load")

\* LoadForms and the decoding in ParseForms.
LoadForms ==
    /\ phase = "loading"
    /\ source.level
    /\ source.kind = "file"
    /\ IF source.readable
       THEN /\ phase' = "resolving"
            /\ UNCHANGED <<by, source, forms, checked, seen, mounted>>
       ELSE Refuse("Load")

FileForm(f, way) ==
    [id |-> f.id, mail |-> f.mail, origins |-> f.origins, subject |-> f.subject,
     limit |-> Limit(f.limit), by |-> way.by, who |-> way.who, place |-> way.place,
     base |-> way.base, secret |-> way.secret]

ResolveForm ==
    /\ phase = "resolving"
    /\ Len(forms) < Len(source.forms)
    /\ LET f == source.forms[Len(forms) + 1]
           ways == resolveProvider(f) IN
       \/ /\ ways = {}
          /\ Refuse("Load")
       \/ \E way \in ways :
            /\ forms' = Append(forms, FileForm(f, way))
            /\ UNCHANGED <<phase, by, source, checked, seen, mounted>>

AllResolved ==
    /\ phase = "resolving"
    /\ Len(forms) = Len(source.forms)
    /\ phase' = "validating"
    /\ UNCHANGED <<by, source, forms, checked, seen, mounted>>

\* Faulty variant: an id may be used again.
validateFormIDUnseen(id) == id # None /\ id \in WellFormedIds

validateFormID(id) == id # None /\ id \in WellFormedIds /\ id \notin seen

\* validOrigin and the rest of validateFormFields.
validateFormFields(f) ==
    /\ f.origins \in {"usual", "unusual"}
    /\ f.mail = "fine"
    /\ f.subject # "broken"

ValidateForm ==
    /\ phase = "validating"
    /\ checked < Len(forms)
    /\ LET f == forms[checked + 1] IN
       IF validateFormID(f.id) /\ validateFormFields(f)
       THEN /\ seen' = seen \cup {f.id}
            /\ checked' = checked + 1
            /\ UNCHANGED <<phase, by, source, forms, mounted>>
       ELSE Refuse("Load")

NoForms ==
    /\ phase = "validating"
    /\ forms = <<>>
    /\ Refuse("Load")

Loaded ==
    /\ phase = "validating"
    /\ forms # <<>>
    /\ checked = Len(forms)
    /\ phase' = "building"
    /\ UNCHANGED <<by, source, forms, checked, seen, mounted>>

-----------------------------------------------------------------------------
(* server.New.                                                             *)

BadProxies ==
    /\ phase = "building"
    /\ mounted = <<>>
    /\ ~ source.proxies
    /\ Refuse("New")

\* mailerFor, of which only mailgun.New looks at what it is given, and NewHandler.
Buildable(f) ==
    /\ f.by = "mailgun" => /\ f.who # None /\ f.secret # NoSecret /\ f.mail = "fine"
                           /\ f.base # None \/ f.place # Elsewhere
                           /\ f.base # Refused
    /\ f.subject # "broken"

\* The mux panics on a pattern it has and on one it cannot read; the pattern of
\* a form without an id is the one the catch-all takes.
Clashes(f) == f.id \notin WellFormedIds \/ \E i \in DOMAIN mounted : mounted[i].id = f.id

MountForm ==
    /\ phase = "building"
    /\ source.proxies
    /\ Len(mounted) < Len(forms)
    /\ LET f == forms[Len(mounted) + 1]
           end == CASE ~ Buildable(f)            -> "refused"
                    [] Buildable(f) /\ Clashes(f) -> "panicked"
                    [] OTHER                     -> "building" IN
       /\ phase' = end
       /\ by' = IF end = "refused" THEN "New" ELSE by
       /\ mounted' = IF end = "building" THEN Append(mounted, f) ELSE mounted
    /\ UNCHANGED <<source, forms, checked, seen>>

Serve ==
    /\ phase = "building"
    /\ source.proxies
    /\ Len(mounted) = Len(forms)
    /\ phase' = "serving"
    /\ UNCHANGED <<by, source, forms, checked, seen, mounted>>

Next ==
    \/ BadLevel
    \/ LoadEnv
    \/ LoadForms
    \/ ResolveForm
    \/ AllResolved
    \/ ValidateForm
    \/ NoForms
    \/ Loaded
    \/ BadProxies
    \/ MountForm
    \/ Serve

Spec == Init /\ [][Next]_vars

-----------------------------------------------------------------------------
(* The blocks a form sends by: the file's and its own, of one provider.    *)
UsesMailgun(f) == f.mailgun # None \/ (f.smtp = None /\ source.mailgun # None)
Outer(f) == OrEmpty(IF UsesMailgun(f) THEN source.mailgun ELSE source.smtp)
Inner(f) == OrEmpty(IF UsesMailgun(f) THEN f.mailgun ELSE f.smtp)
NamesSecret(layer) == layer.inline # None \/ layer.named # None

(***************************************************************************)
(* A form signs in with the secret of the innermost block that gives one,  *)
(* in whichever of the two ways it does: never with the file's once the    *)
(* form has its own, never with another form's (config.go:292-312 and      *)
(* 422-443, README: "A login per domain").                                 *)
(***************************************************************************)
SecretOfTheInnermost ==
    source.kind = "file" => \A i \in DOMAIN forms :
        LET f == source.forms[i]
            own == IF NamesSecret(Inner(f)) THEN Inner(f) ELSE Outer(f)
            secret == forms[i].secret IN
        IF NamesSecret(own)
        THEN /\ secret # NoSecret
             /\ secret = [from |-> "variable", of |-> own.named]
                \/ secret = [from |-> "file", of |-> own.inline]
        ELSE secret = NoSecret

(***************************************************************************)
(* In a file that is served no form has two providers to choose from, none *)
(* signs in without a secret, and of the SMTP blocks a form uses none gave *)
(* the secret in both ways, though each may have been written in either of *)
(* two places (config.go:280-284, 317-329, 448-490).  It does not say that *)
(* the file can deliver (FirstSubmissionCanSucceed), nor that the file's   *)
(* own mailgun block has only one key, which nothing checks.               *)
(***************************************************************************)
OneProviderOneSecret ==
    phase = "serving" /\ source.kind = "file" =>
        \A i \in DOMAIN forms :
            LET f == source.forms[i] IN
            /\ f.smtp = None \/ f.mailgun = None
            /\ forms[i].by = "mailgun" => f.mailgun # None \/ source.smtp = None
            /\ forms[i].who # None => forms[i].secret # NoSecret
            /\ forms[i].by = "smtp" => ~ SetsBoth(Outer(f)) /\ ~ SetsBoth(Inner(f))

(***************************************************************************)
(* Nobody's deployment is turned down for nothing: a process that refuses  *)
(* to start has something wrong in its environment or file, found in the   *)
(* blocks as they were written (config.go:254-288, 380-418, 495-558).      *)
(***************************************************************************)
SecretLost(f) ==
    LET own == IF NamesSecret(Inner(f)) THEN Inner(f) ELSE Outer(f) IN
    own.named # None /\ own.named \notin source.set

FormAtFault(f) ==
    \/ f.smtp # None /\ f.mailgun # None
    \/ f.smtp = None /\ f.mailgun = None /\ source.smtp # None /\ source.mailgun # None
    \/ SetsBoth(Inner(f)) \/ (SetsBoth(Outer(f)) /\ ~ UsesMailgun(f))
    \/ SecretLost(f)
    \/ UsesMailgun(f) /\ Inner(f).who = None /\ Outer(f).who = None
    \/ UsesMailgun(f) /\ Elsewhere \in {Inner(f).place, Outer(f).place}
    \/ /\ UsesMailgun(f) \/ Inner(f).who # None \/ Outer(f).who # None
       /\ ~ NamesSecret(Inner(f)) /\ ~ NamesSecret(Outer(f))
    \/ f.id \notin WellFormedIds
    \/ f.mail = "faulty" \/ f.origins \in {"path", "none"} \/ f.subject = "broken"
    \/ UsesMailgun(f) /\ Refused \in {Inner(f).base, Outer(f).base}

EnvAtFault ==
    \/ source.mail # "fine"
    \/ source.origins \in {"missing", "path", "none"}
    \/ ~ source.readable

FileAtFault ==
    \/ ~ source.readable
    \/ source.forms = <<>>
    \/ \E i \in DOMAIN source.forms :
        \/ FormAtFault(source.forms[i])
        \/ \E j \in DOMAIN source.forms : j # i /\ source.forms[j].id = source.forms[i].id

RefusedOnlyForAReason ==
    phase = "refused" =>
        \/ ~ source.level
        \/ ~ source.proxies
        \/ source.kind = "env" /\ EnvAtFault
        \/ source.kind = "file" /\ FileAtFault

(***************************************************************************)
(* server.New is never surprised by what Load let through: it neither      *)
(* panics over a route nor refuses a form, and turns down only what Load   *)
(* does not read, the list of proxies and an API base the Mailgun client   *)
(* will not take (server.go:42-71, mailgun.go:106-119, config.go:495-530). *)
(***************************************************************************)
LoadLeavesNothingToNew ==
    /\ phase # "panicked"
    /\ by = "New" => ~ source.proxies \/ \E i \in DOMAIN forms : forms[i].base = Refused

(***************************************************************************)
(* What is served is what was written and nothing else: the forms of the   *)
(* file in their order, each on a route of its own, with the limit it asks *)
(* for (an explicit 0 turns it off, only an omitted one is the default:    *)
(* README.md:145), with the account, server and provider of its own block  *)
(* before the file's (config.go:290-315, 352-367, server.go:49-82).        *)
(***************************************************************************)
ServedAsWritten ==
    phase = "serving" =>
        IF source.kind = "env"
        THEN \E f \in {mounted[1]} :
                /\ Len(mounted) = 1 /\ f.by = "smtp"
                /\ source.limit = None => f.limit = 5
                /\ source.limit # None => f.limit = source.limit
        ELSE /\ Len(mounted) = Len(source.forms)
             /\ \A i \in DOMAIN mounted :
                    LET f == source.forms[i] IN
                    /\ mounted[i].id = f.id
                    /\ f.limit # None => mounted[i].limit = f.limit
                    /\ f.limit = None => mounted[i].limit = 5
                    /\ mounted[i].by = "mailgun" <=> UsesMailgun(f)
                    /\ mounted[i].who = Or(Inner(f).who, Outer(f).who)
                    /\ mounted[i].place = Or(Inner(f).place, Outer(f).place)

(***************************************************************************)
(* What validate says of itself: it "says no at startup to everything that *)
(* would otherwise go wrong at the first submission, or worse, not go      *)
(* wrong at all" (config.go:492-494); and the README of the password:      *)
(* "Required if SMTP_USERNAME is set" (README.md:86).  So of what is       *)
(* served, a login has its password, a server its port, a subject renders  *)
(* and some page a browser shows may post.                                 *)
(***************************************************************************)
FirstSubmissionCanSucceed ==
    phase = "serving" => \A i \in DOMAIN mounted :
        LET f == mounted[i] IN
        /\ f.who # None => f.secret # NoSecret
        /\ f.by = "smtp" => f.place # Elsewhere
        /\ f.subject # "unrenderable"
        /\ f.origins = "usual"
=============================================================================
