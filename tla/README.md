# A verification of form-handler in TLA+

`form-handler` takes contact-form submissions over HTTP, checks them, limits how
often one address may write, and hands what is left to a mail provider. These
modules model the program in `src/`, TLC checks them on small instances, and the
TLA+ proof system proves the safety of every part of it, the refinements included,
for every value of the constants.

- [The system](#the-system): its parts, their state and what is hard about them
- [Modules](#modules): which models what, and how it corresponds to the code
- [Runs](#runs): what each one checks, with which bounds
- [Fairness](#fairness)
- [Proofs](#proofs)
- [Where the code and its documentation disagree](#where-the-code-and-its-documentation-disagree)
- [Not modelled](#not-modelled)
- [Plan](#plan)

Parse with `tlasany M.tla`, check with `tlc -config X.cfg M`, prove with
`tlapm MProofs.tla` for M any of RateLimit, MemoryLimiter, Service, Delivery,
Lifecycle, Config, ClientIP and Validation. `PROJECT.json` lists the components, the runs, for
every definition the lines it translates, the hazards and the properties that
would notice them.

## The system

| part | source | state | operations | works with |
|---|---|---|---|---|
| rate limiter | `internal/ratelimit/memory.go` | a map from address to (count, reset), a mutex; one limiter per form | `New`, `Allow` | asked by the handler |
| contact handler | `internal/contact/handler.go`, `delivery.go` | nothing between requests but its limiter | `ServeHTTP`: preflight, method, origin, limiter, decode, honeypot, validate, deliver | limiter, client address, mailer, log |
| validation | `internal/contact/contact.go` | none | `Validate`, `stripBreaks` | called by the handler |
| server | `internal/server/server.go`, `access.go` | the mux: one handler per form, `/contact` sharing the default one's | `New`, routing, access log | builds limiters, mailers and handlers from the configuration |
| SMTP adapter | `internal/mail/smtp/smtp.go` | a connection, for one call | `Send`, `deliver` | a `contact.Mailer`; the mail server |
| Mailgun adapter | `internal/mail/mailgun/mailgun.go` | a request, for one call | `New`, `Send` | a `contact.Mailer`; the Mailgun API |
| mailer contract | `internal/contact/mailertest` | the fake: what it has taken | what every mailer is tested for; `Fake.Send` | both adapters and the fake |
| client address | `internal/clientip/clientip.go` | the trusted prefixes | `NewResolver`, `From` | gives the limiter its key |
| configuration | `internal/config` | none once loaded | `Load`, `ParseForms`, `resolveProvider`, `validate` | environment, forms file; read by `server.New` |
| lifecycle | `internal/cli/cli.go` | process, listener, the `errs` channel, signal context, connections kept alive | `run`: start, serve, signal, drain, exit | `http.Server` and its timeouts |
| log sanitising | `internal/logsafe` | none | `String` | every log line with a text from outside |
| command line, probe | `cmd/form-handler`, `cli.go` | none | arguments, old and new; version, help, `-healthcheck` | decides whether there is a server at all |

A request is a goroutine of `net/http`. It goes mux → handler → limiter → body →
validation → mailer → answer → access line, and takes no lock but the limiter's.
What requests share are the limiters; what they race with is the clock, the
providers, the visitor who leaves, the signal that ends the process and a crash.
Only the providers keep anything across a restart.

What is hard, and what makes each part correct:

- **Limiter.** Look-up, sweep and increment of concurrent callers; the tick at
  which a window resets; a burst across a window's edge; callers who never come
  back. A caller gets its limit per window, at most twice that in any Period, is
  refused only for its own recent submissions, never has its window extended or
  dropped, and is forgotten when it has nothing recent.
- **Handler and server.** Nine ways out, each with a status, a log line and a
  CORS header of its own; several forms with separate origins, allowances and
  inboxes; `Send` failing after the provider took the message. Mail comes only of
  a cleared submission, goes to its own form's provider once, and the answer, the
  log and the allowance tell the truth about it.
- **Adapters.** A server that stalls, refuses or takes the message without being
  heard; a timeout racing the visitor's cancellation. nil means delivered,
  the call ends by its deadline, a visitor who was gone before it is not sent
  for, the error names what really failed.
- **Texts.** Limits in characters, in bytes and in bytes of JSON; four kinds of
  characters that must not get into a header or a log line; cleaning, trimming
  and cutting, which do not commute. Exactly what keeps the limits is sent.
- **Client address.** Headers of several lines that anyone may write; two
  spellings of one address. The answer is the last host of the real route that
  is not ours.
- **Configuration.** Two layers, two providers, two ways to give a secret, any of
  them absent; a limit that is 0 and one that is left out. The innermost secret
  wins, the ambiguous is refused, the unambiguous is not, and what is served is
  what was written.
- **Lifecycle.** Five timeouts, a signal at any moment, a listener that fails,
  connections that carry several requests. Deliveries under way finish, answers
  fit in the write deadline, the exit comes within the grace and its code is true.
- **Command line.** Arguments in an old and a new spelling, in any place. A probe
  is never a second server.

## Modules

    FixedWindow ──► RateLimit ◄┄┄ MemoryLimiter     SendContext ──► SmtpSender ──┐
         │                                                 └───────► MailgunSender ─► Delivery
         └─► Service ┄┄► Mailer ◄┄┄┄┄┄┄┄┄┄┄┄┄┄┄┄┄┄┄┄┄┄┄┄┄┄┄┄┄┄┄┄┄┄┄┄┄┄┄┄┄┄┄┄┄┄┄┄┄┄┄┄┄┄┄┄┄┘

    Text ──► Validation        Config        ClientIP        Lifecycle

    ──► used by (EXTENDS, or INSTANCE in Delivery)      ┄┄► implements

The proofs about M are in `MProofs`, which extends M; `MemoryLimiterProofs` also takes
the theorems of `RateLimitProofs`, through the refinement mapping.

Every `MC*` module gives a module its constants for TLC.

**FixedWindow** has the arithmetic of `Allow` as operators: `Expired`, `Swept`,
`May`, `Counted`. `Period` stands for the hour `server.go` passes. The Go map is a
function on all `Keys`, `Absent` where the map has no entry.

**RateLimit** is what the limiter promises: each `Allow` one atomic step
(`AllowUnlimited`, `Grant`, `Refuse`), time moving between calls, a restart at
any moment. `grants` and `opened` are history variables no action reads.

**MemoryLimiter** is the code of `Allow` as goroutines run it: the early return
before the mutex, `Lock`, the clock read under the mutex, the sweep an entry at
a time, the decision, the deferred `Unlock`; the clock moves between any two of
them and the process may die at any of them. The refinement mapping gives the
abstract clock the last reading under the mutex, and shows a swept entry as still
there until the call decides, so that the whole call is one abstract step.

**Service** is the mux, `ServeHTTP`, `decode`, `validate`, `deliver`, `refuse` and
the access log, for several requests at once, in a deployment with a default form
or without one (where the mux redirects `/contact` to the catch-all). `pc[r]` is
where a request is; attributes of a request (origin, client, body) are chosen when
the code first reads them. Each early return is an action, with its status, its
log line and whether it carries the CORS header. `Allow` and `TooMany` are one step
each, which MemoryLimiter justifies. `ProviderAccepts`, `SendFails`, `SendSucceeds`
and `ProviderAcceptsLate` are calls of a Mailer: `SendsAreMailerCalls` states that
each request's sending is a behaviour of Mailer's safety part, which is the
assumption under which Delivery's result may be used here. A body is one of
`unreadable`, `honeypot`, `invalid`, `valid`; Validation says which is which.

**Mailer** is the contract of `contact.Mailer.Send`: the provider takes the
message at most once, nil means it did, an error leaves it open (also for later),
and the call returns.

**SendContext** is what a call of `Send` is given: the caller's context with its
deadline, or gone before the call or during it; the deadline the adapter works to;
its result.

**SmtpSender** is one `Send`: `op` walks through dial, deadline, greeting, EHLO,
STARTTLS, AUTH, MAIL, RCPT, DATA, body, final dot and QUIT. Each may fail, and the
failure carries the step as the code's `DeliveryError.Op`. net/smtp is external
and modelled from its use: `Extension` greets the server and hides a failed
EHLO, which the next command reports. The server takes the message when it reads
the final dot, heard or not. The dial watches the context; a blocking call after
it returns by the deadline set on the connection, and only by that.

**MailgunSender** is one `Send`: a request under `context.WithTimeout`, the API
taking or refusing the message, the visitor leaving, the timeout.

**Delivery** is the handler's `deliver` over one of the three mailers the contract
tests are run against (SmtpSender and MailgunSender by INSTANCE on shared
variables, `mailertest.Fake` here), and the answer the visitor gets. It is shown to
implement Mailer for each, with what the visitor is told as the result; and the
cases of `mailertest.Contract` become properties of every order of events.

**Lifecycle** is `cli.Run` with two connections. The arguments are rewritten and
parsed and become a usage error, a text, a probe or `run`. They are words: the command's
flags in each spelling (`-healthcheck`, `--healthcheck=false`, `-h`, `-v`, ...), `--`, and
two that stand for every other argument, one with a dash and one without. `main` is then `run`
itself, `listener` the goroutine of `ListenAndServe`, `errs` its channel, of which
`select` may take the signal's side when both are ready; a
connection goes through header, handler, sending, answering, and is kept alive for
another request unless the server is shutting down. Timers are deadlines in ticks
of five seconds, and time does not pass a deadline that has come due.

**ClientIP** has `NewResolver` reading its list an entry at a time and `From`
walking the header from the right. Requests travel: a client writes what it likes,
in as many lines as it likes, and each proxy appends the address it heard from to
them or adds a line of its own. So the header checked is always one that a real
route produced. Prefix and address keep family, spelling (plain, mapped, zoned) and
`Unmap`, since that is what decides a match.

**Config** is `Load` and `server.New`. A block is who, place, API base, inline
secret, named secret, each given or left out; `Overlay` is the loop of
`mergeSMTPLayers` and `mergeMailgunLayers` in its order of assignments. The other
settings of a form are shapes: an address is fine, faulty or missing; an origin as a
browser sends it, in another spelling, with a path, none or missing; a template fine,
broken or not to be executed; a limit is a number or left out. `mounted` is the forms
in the order `New` gives them their routes.

**Text** has texts as runs of character kinds: how many bytes each takes, what
`TrimSpace` takes off, what is a control character. A length is a sum over the runs;
what is taken out of a text leaves an empty run behind, so that a place in the text
stays the same place. On them, `Loggable` is `logsafe.String`. **Validation** is the
way of the texts of one request: `decode`'s limit in bytes of the JSON (its fields, plain
or escaped, and `framing`, all else in it; not what is `trailing` behind), the rules in the order
`Validate` has them at the real limits (100, 254, 5000 and 10 characters or bytes,
64 KiB of body), the subject, the headers each adapter gets, and the log line of
every way out.

*Faulty variants.* A definition commented as a faulty variant is used by no
specification. It is a slip the definition after it could have had, kept to show
that the property named beside it in `PROJECT.json` would notice.

## Runs

| run | module | properties | states |
|---|---|---|---|
| `ratelimit` | MCRateLimit | TypeOK, WindowHistory, SlidingBound, RefusedOnlyWhenSpent, OpenWindowsStay, RemembersOnlyRecent | 111 thousand |
| `memory_limiter` | MCMemoryLimiter | TypeOK, ImplementsRateLimit, EveryCallReturns | 82 thousand |
| `service` | MCService | TypeOK, MailIsCleared, AnswerTellsOutcome, OnlyOwnOriginsRead, LogAccountsForAnswer, LossesAreVisible, AllowanceIsPerForm, OnlySubmissionsAreCounted, SendsAreMailerCalls, EveryRequestEnds | 516 thousand |
| `delivery` | MCDelivery | TypeOK, KeepsContract, EndsInTime, StepTellsHowFar, TLSWhereOffered, ImplementsMailer | 28 thousand |
| `lifecycle` | MCLifecycle | DeliveryUnderWayFinishes, AnswersFit, ExitCodeTellsWhy, OldArgumentsStillWork, ExitWithinGrace | 483 thousand |
| `clientip` | MCClientIP | HeldToTheRealSender | 259 thousand |
| `config` | MCConfig | SecretOfTheInnermost, OneProviderOneSecret, RefusedOnlyForAReason, LoadLeavesNothingToNew, ServedAsWritten | 138 thousand |
| `validation` | MCValidation | SentExactlyWithinLimits, RejectionIsTrue, NoHeaderIsBroken, LogLineIsClean | 65 thousand |
| `smtp_quit` | MCSmtpSender | AcknowledgedIsNoFailure, violated | |
| `bare_proxy` | MCClientIP | BareAddressIsTrusted, violated | |
| `large_body` | MCValidation | LargeBodiesAreRefused, violated | |
| `startup_promises` | MCConfig | FirstSubmissionCanSucceed, violated | |

The comment before each property says what it means and what it is about. In short:

- `ratelimit`: whatever the order of callers, time and restarts, the map of
  windows agrees with the history of grants, and the bounds above follow.
- `memory_limiter`: the mutex makes of sweep, look-up and count one step, at times
  that never go back, and no return path keeps the mutex.
- `service`: two requests meeting at every step, with restarts between: who gets
  mail, what the visitor is told, what is counted and what the log says.
- `delivery`: SMTP, Mailgun and the fake are Mailers to the handler; the call ends
  by its deadline and for a visitor who was gone sends nothing; an error names the
  step; nothing is said in the clear where TLS is to be had.
- `lifecycle`: the timeouts of `cli.go` fit each other, over every signal, listener
  failure and pair of connections; the arguments mean what they meant. Exit code 0 means
  that the signal was taken and nobody was cut off; without a signal a failed listener
  is a 1.
- `clientip`: no header makes a client somebody else.
- `config`: every combination of blocks gets the right secret or a justified
  refusal; what is served has the routes, limits and accounts that were written, and of
  each form one provider and one secret (which is not all it takes to deliver: see
  `startup_promises`).
- `validation`: exactly the submissions within the documented limits become mail, in
  every encoding, as long as the framing, the white space and what follows the JSON leave
  the room; the page is told the first fault in the order of the form; headers and log
  lines stay whole.

Bounds, and why they are enough:

- RateLimit: two keys, limits 0 to 2 (see MCRateLimit), Period 2, `MaxNow` 6: two
  whole windows of a caller fit and a third begins, so a burst straddles an edge,
  expires and starts again. Callers do not interact but through the sweep, which
  two show. The proofs have no bounds.
- MemoryLimiter: two goroutines, two keys, Period 1, `MaxNow` 3: a window opens,
  expires while another goroutine waits for the mutex, and a second one opens.
- Service: two requests, two forms (the default one limited to 1, the other
  unlimited) or the second alone, two origins, two clients. Period 0 and `MaxNow` 1: a window lasts the
  tick it opens in, so one can open, expire and open again. A third request adds
  interleavings of the same pairs; a limit of 1 is reached by two.
- Delivery: Timeout 2, the call beginning at 1; callers with no deadline, an earlier
  and a later one, gone before the call or at any tick of it; every combination of
  an address with a port, a server on this machine and a login. `MaxNow` 5 is past the
  timeout, so a call that overran it would be seen.
- Lifecycle: 5, 15, 30, 10 and 15 seconds in ticks of five. A client, a further
  request or a signal comes within the first twenty seconds, every start of one
  connection relative to the other and to the signal; what follows runs to its end.
  Two requests to a connection show the timers set anew. Command lines of up to two
  arguments, out of all the words but `--healthcheck=false`, and a few of two and three
  with it: a rewriting that looked at one place only would be seen, and so would one flag
  displacing another.
- ClientIP: two IPv4 hosts and an IPv6 one, in every spelling; up to three hosts on
  a route, one of the hosts adding a line of its own; up to two forged lines of one
  hop; lists that are empty, bare, of prefixes, mixed, with blanks and with garbage.
- Config: every block for the file and the first form, a handful of second forms,
  three sets of variables that are set, the shapes of the other settings one at a
  time, all environments. Merging involves one form and the file; ids involve two.
- Validation: lengths on either side of every limit, in characters of one to four
  bytes, plain or escaped; every kind of character at the start, in the middle and
  alone, in 1 and in 250, for each text from outside; white space that still fits into
  the body and white space that does not; bodies that end with the JSON, with 64 KiB and
  far behind. 48 bytes of framing are `{"name":"","email":"","message":"","website":""}`.
  A text of the visitor's may itself have the
  mark of a cut in it.

Deadlock is checked where the program should always have a next step
(RateLimit, MemoryLimiter, Service). A delivery, startup, a validation and a process
end, and those configurations say so.

## Fairness

- MemoryLimiter: a goroutine that can run does (weak fairness on every step inside
  `Allow`); strong fairness on `Lock`, because `sync.Mutex` hands the lock to a
  waiter that has starved for a millisecond. Nobody is obliged to call `Allow`, no
  fairness is assumed of time or restarts.
- Service: weak fairness on a request's next step once it has arrived: reading ends
  by `ReadTimeout`, `Send` by its own deadline (the run `delivery`), the limiter
  returns (MemoryLimiter's run). Arrivals, time, restarts and late acceptance owe nothing.
- Delivery: weak fairness on the handler and its adapter, failing by the deadline
  among their steps. None on the server, the API, the visitor or time, which passes
  only inside a blocking call and not past the deadline in force for it.
- Lifecycle: weak fairness on main (`Shutdown`'s looks at the connections
  included), on time and on a connection's steps. Time stops at a timer that is due
  until the timer has fired, which is what a timer is. Nobody owes a signal, a
  connection or a further request.

ClientIP, Config, Validation and RateLimit state safety only.

## Proofs

Every safety property that a passing run checks is a theorem, for every value of the
constants: any number of requests, forms, goroutines, callers, connections, proxies,
characters, any limit, any timeouts that meet the assumptions below. Each module of
proofs has the same parts: the invariant as named conjuncts, what the operators of
the model do, one lemma or step per action, and the theorems at the end. TLC finds
each of these invariants true on the instance of its run, too.

| module | theorems | of |
|---|---|---|
| `RateLimitProofs` | TypeCorrect, WindowHistoryHolds, SlidingBoundHolds, RefusalsJustified, OpenWindowsStayHolds, RemembersOnlyRecentHolds | every property of `ratelimit` |
| `MemoryLimiterProofs` | TypeCorrect, MutexHolds, Refines, PromisesKept | TypeOK, ImplementsRateLimit, and the bounds of RateLimit for the goroutines |
| `ServiceProofs` | TypeCorrect, StoriesHold, MailIsClearedHolds, AnswerTellsOutcomeHolds, OnlyOwnOriginsReadHolds, LogAccountsForAnswerHolds, LossesAreVisibleHolds, AccountsHold, AllowanceIsPerFormHolds, OnlySubmissionsAreCountedHolds, SendsAreMailerCallsHold | every property of `service` but EveryRequestEnds |
| `DeliveryProofs` | InvHolds, TypeCorrect, KeepsContractHolds, EndsInTimeHolds, StepTellsHowFarHolds, TLSWhereOfferedHolds, ImplementsMailerSafely | every property of `delivery`; of ImplementsMailer all but its fairness |
| `LifecycleProofs` | InvHolds, DeliveryUnderWayFinishesHolds, AnswersFitHolds, ExitCodeTellsWhyHolds, OldArgumentsStillWorkHolds, GraceIsKept | every invariant of `lifecycle`, and the safety in ExitWithinGrace |
| `ConfigProofs` | InvHolds, SecretOfTheInnermostHolds, OneProviderOneSecretHolds, RefusedOnlyForAReasonHolds, LoadLeavesNothingToNewHolds, ServedAsWrittenHolds | every property of `config` |
| `ClientIPProofs` | InvHolds, HeldToTheRealSenderHolds | the property of `clientip` |
| `ValidationProofs` | InvHolds, SentExactlyWithinLimitsHolds, RejectionIsTrueHolds, NoHeaderIsBrokenHolds, LogLineIsCleanHolds | every property of `validation` |

### The invariants, and why they are needed

**RateLimit.** `SlidingBound` is not inductive: it speaks of grants, and what the
next call grants depends on the map. `WindowHistory` ties the two together. For each
caller:

- `Ordered`: grants are in the order of time, none in the future;
- `WindowsApart`: grants that opened a window are more than a Period apart;
- `WindowsFull`: of any limit consecutive grants after one, one opened a window;
- `EntryIsLastWindow`: an entry stands for the last `count` grants, the first of
  them opened it, and it resets a Period later;
- `NothingRecent`: without an entry, every window opened more than a Period ago.

`HistoryFrame`, `HistorySwept` and `HistoryGranted` keep these for a caller who is
left alone, swept or granted; `ExpiredMeansNothingRecent` is where the strict
comparison with `reset` matters. Then `SlidingBound` follows: among 2·limit grants
after one at least two opened windows, and those are more than a Period apart.
`OpenWindowKept` and `SurvivorIsRecent` carry the last two theorems.

**MemoryLimiter.** The refinement mapping puts swept entries back until the call
decides. That this is RateLimit's map needs `Mutex`: whoever is past `Lock` holds the
mutex and sweeps by the last reading of the clock (`Exclusive`), and what is in
`swept` is gone from the map and had expired by that reading (`SweptIsGone`). Then
reading the clock is an abstract tick (`ReadClockIsTick`), everything up to the
decision a stutter, and the decision one abstract `Allow` (`DecideIsAllow`).
`PromisesKept` instantiates RateLimit's theorems through the mapping.

**Service.** What the properties say at the end of a request, `Story` says at each
place on its way: what has been read and what the checks passed have shown
(`OnItsWay`), whose mail is where (`Mailed`), what the answer says (`AnsweredTruly`),
which lines there are (`Accounted`). A step moves one request and leaves the stories
of the others alone (`StoryOfOthers`); what it leaves is a story again, answered
(`StoryOfAnswered`), moved (`StoryOfMoved`) or logged (`StoryOfLogged`).
`AllowanceIsPerForm` counts requests, and needs `Accounts` besides: an open window's
count is the cardinality of the set of its caller's requests granted since it opened;
here a granted request joins the set and the count goes up by one, while a new window
starts from an empty one, because nobody without a window was granted anything at
this tick. `SendsAreMailerCalls` is a second refinement: each step of a request is a
step of its own Mailer or none.

**Delivery.** `Inv` has a story per mailer. SMTP's says at which `op` what can be
true: of the message (`SmtpMessage`: before the final dot nothing is taken, at QUIT
it was), of the session (`SmtpSession`: past STARTTLS, offered means in force, a
login in the clear is to this machine), of time (`SmtpTime`: every blocking call but
the dial has the call's own deadline on the connection) and of the result. From them
`StepIsMailers` follows: each step of each mailer is a step of Mailer or a stutter.

**Lifecycle.** The properties are arithmetic that no single place of the code does.
`OnTime` bounds the timer of each place a connection can be at by the write deadline;
`CutLate` bounds what is cut off by the exit from below: its timer was due more than a
send after the drain began; `Drain` ties the grace to the drain. The theorems then say
which inequalities between the timeouts the code relies on. For the arguments,
`Arguments` keeps until the exit what the one step of parsing decided, for command lines
of any length.

**Config.** A startup goes over the forms one at a time, so the invariant says of the
first so many that they are resolved from the source (`Resolved`), validated
(`Validated`, with `seen` exactly the ids so far) and mounted in order (`Mounted`).
`LayersMerge` is about two layers: each setting is the inner one's before the outer's,
the secret that of the inner one if it gives one in any way.

**ClientIP.** `Written` relates the header to the route: behind the last proxy that
adds a line of its own, the end of the line is the end of the route backwards. `Walked`
says how far `From` has come over trusted hops. `SenderIsNext` meets them: the first
hop from the right that is no trusted proxy is the host the route says it is.

**Validation.** A text is any sequence of runs, and what a run of the handler does to
it is trimming, counting, weighing, cleaning and cutting. The lemmas say how these meet:
what `TrimSpace` leaves weighs what counts of it in any encoding (`TrimmedIsCounted`),
a text without its breaks begins and ends where it did (`CountedWithoutBreaks`), a cut
text has as many characters as it was cut to (`PrefixType`), and what goes into a log
line is clean (`LoggableIsClean`). `BodyFitsWhatIsWithinLimits` is the arithmetic behind
the body's 64 KiB: fields at their limits, escaped the longest way, weigh
12·100 + 6·254 + 12·5000 bytes; `Room` is the 2812 that are left, 48 of them for the least
framing. `Decided` then keeps through the stages what each check has shown of what was
posted; `FirstRuleIsTrue` is about the order: that a rule is the first to be broken
clears the fields before it, and the last rule clears them all.

### Induction

The provers cannot instantiate the library's induction theorems, which take an
operator as parameter. Where a proof is about data of any length (sums over a text,
`FlattenSeq` over the lines of a header), the set of the places up to which the claim
holds is shown to contain the first and with each the next, and so everything: `Climbing`,
which rests on `Least`, that a set of numbers has a least element, and this on the
well-foundedness of < in the library. So recursive functions, the sums of Text and
those of `FlattenSeq`, are reasoned about by the equation of one step. No module
declares a RECURSIVE operator.

### What is assumed of the constants

TLC evaluates each assumption in every run of the module.

- `PeriodAssumption`, `LimitsAssumption`, `MaxNowAssumption`: time is counted from 0 and
  bounded; a limit is any integer, also one below 0, which switches the limiter off.
- `GoroutinesAssumption`, `NamesAssumption`, `NeverAssumption`, `NoDeadlineAssumption`,
  `IdsAssumption`, `NoneAssumption`: a value that stands for nobody, nothing or never is no
  goroutine, form, origin, moment, id or name of a stage. In Go these are other types,
  nil or false.
- Service, `RequestsAssumption`: finitely many requests are made; `FormsAssumption`: each form
  has its origins and its limit, and the default form is one.
- SendContext, `TimeoutAssumption`: a bound on time past the timeout, so that running over it
  would show.
- Lifecycle, `TimeoutsFit`: a send is shorter than the grace, and reading and a send fit
  into the write timeout; 10 < 15 and 15 + 10 <= 30 seconds in `cli.go` and the
  adapters. `TimeoutsAssumption`: `ReadHeaderTimeout` is no longer than `ReadTimeout`.
  `ArgsAssumption`: command lines are sequences of the words in `Words`.
- Config, `SourcesAssumption`: what the environment and the file are made of, from the types
  they are parsed into.
- ClientIP, `HopsAssumption`: a header is lines of hops, each an address or not one.
- Validation, `RequestsAssumption`: a request is made of texts, and an address that
  net/mail takes as a bare one has no break in it; `TemplatesAssumption`: so is a
  template. `LimitsAssumption`: the limits are numbers, the least message no longer than the
  longest.

### What stays with TLC

Liveness, which is out of the prover's reach: EveryCallReturns, EveryRequestEnds,
that an exit comes in ExitWithinGrace, that a call returns in ImplementsMailer. And the
four disagreements below, which are counterexamples. The proofs are of the
specifications; that these follow the code is what `PROJECT.json`'s map is for.

## Where the code and its documentation disagree

Four runs show what a document says violated by what the code does; `PROJECT.json`
quotes both sides.

- `smtp_quit` (`smtp.go:109`): the server has acknowledged the message, then QUIT
  fails, and `Send` reports a failure. The visitor gets the 502 of which
  `openapi.yaml` says that retrying is reasonable, and sends the message twice.
- `bare_proxy` (`clientip.go:72`): a trusted proxy listed as a bare address in the
  mapped spelling, or with a zone, is accepted and then matches nothing, because
  addresses are unmapped before the comparison and the list is not.
- `large_body` (`handler.go:160`): `openapi.yaml:177-178` has a body refused for "more than
  64 KiB of it". `Decode` stops where the JSON value ends, so anything may follow it, and
  such a submission is sent. (SentExactlyWithinLimits leaves open what becomes of it.)
- `startup_promises` (`config.go:495`): `validate` "says no at startup to everything
  that would otherwise go wrong at the first submission", but lets through an SMTP
  address without a port, the environment's username without its password (which the
  README calls required), a template that cannot be executed and an origin in a
  spelling no browser sends. Each alone violates the property.

Others are no run of their own:

- A top-level `mailgun` block with both `api_key` and `api_key_env` starts, and the
  variable wins, although the README has the rule of the SMTP password apply
  (README.md:171-173, 195-202), by which setting both is an error: `resolveMailgun` checks
  only the form's block (`config.go:381`). Config has the code's behaviour;
  OneProviderOneSecret claims nothing of such a block.
- When the listener has failed and the signal comes before `select` looks, it may take the
  signal: the error stays unread in `errs` and the process may exit 0 (`cli.go:201-216`).
  No document says otherwise; ExitCodeTellsWhy claims a 1 of a failed listener only where
  no signal was taken.
- `From` reads the first `X-Forwarded-For` line. Behind a trusted proxy that adds a line
  instead of appending, it believes the client; HeldToTheRealSender names the
  assumption.
- `mailertest.go` has no visitor hold "a connection to a mail server open". The SMTP
  adapter watches the context only while it dials; EndsInTime says what bounds the rest.

## Not modelled

- The text of mails, JSON and log lines beyond the kinds of characters in them; the
  body `compose` writes (its wording, and CRLF for LF), about which no property speaks.
- `net/http`, `net/smtp`, `net/mail`, `net/netip`, cobra and mailgun-go beyond how
  `src/` uses them; their definitions are marked external in the map.
- Spellings of arguments that pflag and cobra take besides those in `Words`: clusters of
  shorthands (`-hv`), values of other flags (`--version=false`), cobra's hidden completion
  commands.
- `IdleTimeout`, which closes a connection nobody waits for; a second signal, which
  `signal.NotifyContext` swallows; SIGKILL, which is a crash and in MemoryLimiter and
  Service a restart.
- In the contract of `mailertest`, that an error carries the provider's name and wraps
  its cause: both hold by the one constructor, `Undeliverable`.
- Tests, the API description, build and release files.

## Plan

The order is by what the service is for: first the allowance (FixedWindow,
RateLimit, its proofs, MemoryLimiter), then the way of a request (Service,
Mailer and both adapters), then what surrounds it (Lifecycle, ClientIP, Config,
Validation), then the contract across mailers (SendContext, Delivery) and the texts
(Text). All of these modules exist. What is left:

1. Compose: Service's requests under Lifecycle's drain, so that an answer cut off by
   the exit is one of Service's outcomes. MemoryLimiter inside Service, instead of
   one step per `Allow`, is what the refinement makes unnecessary.
2. State the composition of Service with Delivery as a theorem: `SendsAreMailerCalls`
   and `ImplementsMailerSafely` are the two halves, over different variables.
