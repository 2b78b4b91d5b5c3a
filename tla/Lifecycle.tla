----------------------------- MODULE Lifecycle -----------------------------
(***************************************************************************)
(* One run of the process, cli.Run: what the arguments ask for, and where  *)
(* that is to serve, the start, a signal, the drain and the exit, against  *)
(* connections that are read, delivered for, answered and kept alive       *)
(* meanwhile.  http.Server's timeouts, the mailer's timeout and the grace  *)
(* of Shutdown are ticks of one clock; a timer that has run out fires      *)
(* before time goes on.                                                    *)
(***************************************************************************)
EXTENDS Naturals, Sequences

CONSTANTS
    Args,            \* the command lines to try
    Conns,           \* the connections of the run
    ReadHeader,      \* ReadHeaderTimeout
    ReadAll,         \* ReadTimeout
    Write,           \* WriteTimeout
    Send,            \* the mailers' timeout
    Grace,           \* what Shutdown is given
    Never,           \* a moment that has not come
    MaxNow,          \* bound: the tick after which no signal and no client comes
    MaxRequests      \* bound: the requests on one connection

ASSUME TimeoutsAssumption ==
    /\ {ReadHeader, ReadAll, Write, Send, Grace, MaxNow, MaxRequests} \subseteq Nat
    /\ ReadHeader <= ReadAll

\* What the constants of cli.go and the adapters must keep to: 10 s for a send fit
\* into the 15 s of grace, and after 15 s of reading into the 30 s for the answer.
ASSUME TimeoutsFit == Send < Grace /\ ReadAll + Send <= Write

\* What a probe can come to: ADDR has no port, nothing answers in three seconds, or
\* something does.
Heard == {"no port", "no answer", "another status", "200"}

ASSUME NeverAssumption == Never \notin Nat \cup Heard

\* The arguments a command line is made of: the flags of the command in the spellings
\* pflag takes, the end of the flags, and two that stand for all others, those with a
\* dash that are no flag or have no value pflag can read, and those without a dash.
Words ==
    {"-healthcheck", "--healthcheck", "--healthcheck=true", "--healthcheck=false",
     "-version", "--version", "-v", "--help", "-h", "--", "-nonsense", "stray"}

ASSUME ArgsAssumption == Args \subseteq Seq(Words)

VARIABLES
    now,
    args,
    main,            \* "parsing", "probing", "starting", "serving", "draining", "exited"
    code,            \* the exit code, Never before the exit
    probed,          \* what the probe came to, Never without one
    listener,        \* the goroutine of ListenAndServe
    errs,            \* the buffered channel: is an error waiting in it
    signalled,       \* is ctx.Done closed
    graceBy,         \* when shutdownCtx ends
    drainFrom,       \* history: when the drain began
    conn             \* [Conns -> the connection]: where it is, when the timer of
                     \* that place fires, its write deadline, its requests so far

process == <<args, main, code, probed, listener, errs, signalled, graceBy, drainFrom>>
vars == <<now, process, conn>>

Init ==
    /\ now = 0
    /\ args \in Args
    /\ main = "parsing"
    /\ code = Never
    /\ probed = Never
    /\ listener = "none"
    /\ errs = FALSE
    /\ signalled = FALSE
    /\ graceBy = Never
    /\ drainFrom = Never
    /\ conn = [c \in Conns |-> [at |-> "none", due |-> Never, writeBy |-> Never, requests |-> 0]]

\* What Shutdown waits for, and what it closes at once: a connection kept alive
\* counts as idle until the header of its next request has been read.
Active(c) == conn[c].at \in {"header", "handler", "sending", "answering"}
Idle(c) == conn[c].at \in {"idle", "next"}

Exit(with) == main' = "exited" /\ code' = with

\* The exit takes every connection along.
Killed ==
    [c \in Conns |->
        [conn[c] EXCEPT !.at = CASE @ = "sending"    -> "cut off"
                                 [] @ # "sending" /\ (Active(c) \/ Idle(c)) -> "killed"
                                 [] OTHER            -> @]]

-----------------------------------------------------------------------------
(* The command line.                                                       *)

legacyFlags == {"-healthcheck", "-version"}

\* Faulty variant: only the first argument is looked at.
RewrittenFirst(i) == i = 1 /\ args[i] \in legacyFlags
Rewritten(i) == args[i] \in legacyFlags

\* "-" + arg, of the two arguments it is said of.
OneMoreDash(arg) == IF arg = "-healthcheck" THEN "--healthcheck" ELSE "--version"

legacySingleDash ==
    [i \in DOMAIN args |-> IF Rewritten(i) THEN OneMoreDash(args[i]) ELSE args[i]]

\* pflag reads flags up to "--", and everything after it as an argument.
BeforeDashes(i) == \A j \in 1 .. i-1 : legacySingleDash[j] # "--"

Given(flags) == \E i \in DOMAIN args : BeforeDashes(i) /\ legacySingleDash[i] \in flags

Unknown == Given({"-nonsense"})
Told == Given({"--help", "-h", "--version", "-v"})
Positional == \E i \in DOMAIN args : legacySingleDash[i] = "stray" \/ ~ BeforeDashes(i)

\* The variable behind the flag: what is said of it last counts.
healthcheck ==
    \E i \in DOMAIN args :
        /\ BeforeDashes(i) /\ legacySingleDash[i] \in {"--healthcheck", "--healthcheck=true"}
        /\ \A j \in DOMAIN args : j > i /\ BeforeDashes(j) =>
             legacySingleDash[j] # "--healthcheck=false"

\* A flag nobody knows is an error before anything else, help and version come
\* before the count of arguments, and that before RunE.
Runs == ~ Unknown /\ ~ Told /\ ~ Positional
ToServe == Runs /\ ~ healthcheck

Usage ==
    /\ main = "parsing"
    /\ Unknown \/ (Positional /\ ~ Told)
    /\ Exit(1)
    /\ UNCHANGED <<now, args, probed, listener, errs, signalled, graceBy, drainFrom, conn>>

Tell ==
    /\ main = "parsing"
    /\ ~ Unknown /\ Told
    /\ Exit(0)
    /\ UNCHANGED <<now, args, probed, listener, errs, signalled, graceBy, drainFrom, conn>>

RunE ==
    /\ main = "parsing"
    /\ Runs
    /\ main' = IF healthcheck THEN "probing" ELSE "starting"
    /\ UNCHANGED <<now, args, code, probed, listener, errs, signalled, graceBy, drainFrom, conn>>

Probe ==
    /\ main = "probing"
    /\ \E heard \in Heard :
        /\ probed' = heard
        /\ Exit(IF heard = "200" THEN 0 ELSE 1)
    /\ UNCHANGED <<now, args, listener, errs, signalled, graceBy, drainFrom, conn>>

-----------------------------------------------------------------------------
(* cli.run.                                                                *)

\* config.Load or server.New refuses.
StartFails ==
    /\ main = "starting"
    /\ Exit(1)
    /\ UNCHANGED <<now, args, probed, listener, errs, signalled, graceBy, drainFrom, conn>>

\* Signals are caught from here on, and the goroutine is on its way.
Start ==
    /\ main = "starting"
    /\ main' = "serving"
    /\ listener' = "starting"
    /\ UNCHANGED <<now, args, code, probed, errs, signalled, graceBy, drainFrom, conn>>

Signal ==
    /\ main \in {"serving", "draining"}
    /\ ~ signalled
    /\ now <= MaxNow
    /\ signalled' = TRUE
    /\ UNCHANGED <<now, args, main, code, probed, listener, errs, graceBy, drainFrom, conn>>

\* select, with both channels ready: either.
ReceiveError ==
    /\ main = "serving"
    /\ errs
    /\ Exit(1)
    /\ errs' = FALSE
    /\ conn' = Killed
    /\ UNCHANGED <<now, args, probed, listener, signalled, graceBy, drainFrom>>

\* Faulty variants: the grace is shorter than a send; a signal that comes before
\* the listener is up is missed; what Shutdown returned is dropped.
GraceInHaste == 1
SignalHeardOnceUp == signalled /\ listener = "listening"
ShutdownErrorDropped == 0

GraceGiven == Grace
SignalHeard == signalled
ShutdownError == 1

BeginShutdown ==
    /\ main = "serving"
    /\ SignalHeard
    /\ main' = "draining"
    /\ graceBy' = now + GraceGiven
    /\ drainFrom' = now
    /\ UNCHANGED <<now, args, code, probed, listener, errs, signalled, conn>>

\* Shutdown looks at the connections again and again, and closes the idle ones.
CloseIdle(c) ==
    /\ main = "draining"
    /\ Idle(c)
    /\ conn' = [conn EXCEPT ![c].at = "closed"]
    /\ UNCHANGED <<now, process>>

\* It returns nil once there are no others.
Drained ==
    /\ main = "draining"
    /\ \A c \in Conns : ~ Active(c)
    /\ Exit(0)
    /\ conn' = [c \in Conns |-> IF Idle(c) THEN [conn[c] EXCEPT !.at = "closed"] ELSE conn[c]]
    /\ UNCHANGED <<now, args, probed, listener, errs, signalled, graceBy, drainFrom>>

\* Shutdown returns the context's error, and the process goes.
GraceEnds ==
    /\ main = "draining"
    /\ now = graceBy
    /\ \E c \in Conns : Active(c)
    /\ Exit(ShutdownError)
    /\ conn' = Killed
    /\ UNCHANGED <<now, args, probed, listener, errs, signalled, graceBy, drainFrom>>

-----------------------------------------------------------------------------
(* The goroutine of ListenAndServe.                                        *)

Listen ==
    /\ main = "serving"
    /\ listener = "starting"
    /\ listener' = "listening"
    /\ UNCHANGED <<now, args, main, code, probed, errs, signalled, graceBy, drainFrom, conn>>

\* The address is taken, or accepting fails for good.
ListenFails ==
    /\ main \in {"serving", "draining"}
    /\ listener \in {"starting", "listening"}
    /\ listener' = "failed"
    /\ errs' = TRUE
    /\ UNCHANGED <<now, args, main, code, probed, signalled, graceBy, drainFrom, conn>>

\* ErrServerClosed: not an error.
ListenerCloses ==
    /\ main = "draining"
    /\ listener \in {"starting", "listening"}
    /\ listener' = "closed"
    /\ UNCHANGED <<now, args, main, code, probed, errs, signalled, graceBy, drainFrom, conn>>

-----------------------------------------------------------------------------
(* A connection and the requests on it.                                    *)

Up == main \in {"serving", "draining"}

\* The connection goes on, to where another timer runs.
Move(c, from, place, due) ==
    /\ Up
    /\ conn[c].at \in from
    /\ conn' = [conn EXCEPT ![c].at = place, ![c].due = due]
    /\ UNCHANGED <<now, process>>

Accept(c) ==
    /\ main = "serving"
    /\ listener = "listening"
    /\ now <= MaxNow
    /\ Move(c, {"none"}, "header", now + ReadHeader)

\* The next request of a connection kept alive begins to arrive.
NextRequest(c) ==
    /\ now <= MaxNow
    /\ Move(c, {"idle"}, "next", now + ReadHeader)

Leave(c) == Move(c, {"idle"}, "closed", Never)

\* Faulty variant: the write deadline is as short as the one for reading.
WriteAllowedTight == ReadAll
WriteAllowed == Write

\* The handler starts.  The deadline for the body counts from the first byte of
\* the header, the one for the answer from its last.
ReadHeaderDone(c) ==
    /\ Up
    /\ conn[c].at \in {"header", "next"}
    /\ conn' = [conn EXCEPT ![c].at = "handler", ![c].requests = @ + 1,
                            ![c].due = @ + (ReadAll - ReadHeader),
                            ![c].writeBy = now + WriteAllowed]
    /\ UNCHANGED <<now, process>>

HeaderTimeout(c) ==
    /\ now = conn[c].due
    /\ Move(c, {"header", "next"}, "dropped", Never)

\* The body has come and is a submission to deliver.
BeginSend(c) == Move(c, {"handler"}, "sending", now + Send)

\* Anything else is answered without sending, a body that did not come by the
\* read deadline included.
AnswerWithoutSending(c) == Move(c, {"handler"}, "answering", Never)

EndSend(c) == Move(c, {"sending"}, "answering", Never)

\* The answer reaches the client only within the write deadline; a server that
\* shuts down keeps no connection alive.
WriteAnswer(c) ==
    /\ Up
    /\ conn[c].at = "answering"
    /\ \E next \in {"idle", "answered", "unanswered"} :
        /\ next = "unanswered" <=> now > conn[c].writeBy
        /\ next = "idle" => main = "serving" /\ conn[c].requests < MaxRequests
        /\ conn' = [conn EXCEPT ![c].at = next, ![c].writeBy = Never]
    /\ UNCHANGED <<now, process>>

-----------------------------------------------------------------------------
\* No timer is overdue, and nothing runs that takes no time.
MayWait(c) ==
    CASE conn[c].at \in {"header", "next", "handler", "sending"} -> now < conn[c].due
      [] conn[c].at = "answering" -> FALSE
      [] OTHER -> TRUE

Tick ==
    /\ Up
    /\ main = "draining" => now < graceBy /\ \E c \in Conns : Active(c)
    /\ main = "draining" => \A c \in Conns : ~ Idle(c)
    /\ main = "serving" => ~ signalled /\ ~ errs /\ now <= MaxNow
    /\ \A c \in Conns : MayWait(c)
    /\ now' = now + 1
    /\ UNCHANGED <<process, conn>>

Command == Usage \/ Tell \/ RunE \/ Probe
MainStep == Start \/ ReceiveError \/ BeginShutdown \/ Drained \/ GraceEnds
            \/ \E c \in Conns : CloseIdle(c)
ServeStep(c) == ReadHeaderDone(c) \/ HeaderTimeout(c) \/ BeginSend(c)
                  \/ AnswerWithoutSending(c) \/ EndSend(c) \/ WriteAnswer(c)

Next ==
    \/ Command
    \/ MainStep \/ StartFails \/ Signal
    \/ Listen \/ ListenFails \/ ListenerCloses
    \/ \E c \in Conns : Accept(c) \/ NextRequest(c) \/ Leave(c) \/ ServeStep(c)
    \/ Tick

(***************************************************************************)
(* main goes on when it can, time passes, and a connection goes on at the  *)
(* latest when the timer that stopped the clock fires.                     *)
(***************************************************************************)
Spec ==
    /\ Init /\ [][Next]_vars
    /\ WF_vars(MainStep) /\ WF_vars(Tick)
    /\ \A c \in Conns : WF_vars(ServeStep(c))

-----------------------------------------------------------------------------
(***************************************************************************)
(* cli.go: the grace is "long enough to finish a message already being     *)
(* delivered".  A send begun before the drain began is never cut off by    *)
(* the exit, unless the listener's failure ended the process.              *)
(***************************************************************************)
DeliveryUnderWayFinishes ==
    \A c \in Conns :
        conn[c].at = "cut off" /\ drainFrom # Never => conn[c].due - Send > drainFrom

(***************************************************************************)
(* Reading slowly, then sending slowly, still leaves time to answer: no    *)
(* visitor whose message was sent is cut off by the write deadline, on the *)
(* first request of a connection or on a later one.                        *)
(***************************************************************************)
AnswersFit == \A c \in Conns : conn[c].at # "unanswered"

CutSomebodyOff == \E c \in Conns : conn[c].at \in {"killed", "cut off"}

(***************************************************************************)
(* The exit code tells whoever restarts the process how it ended.  Of one  *)
(* that was to serve it is 0 exactly when main took the signal and the     *)
(* drain cut nobody off; it takes one only if there was one, and otherwise *)
(* the process never started or its listener failed.  So a failure of the  *)
(* listener is a 1 as long as there is no signal; with both channels ready *)
(* select takes either, and an error left in errs is not heard of again    *)
(* (cli.go:201-216).  Of a probe it is 0 exactly when it heard a 200.      *)
(***************************************************************************)
ExitCodeTellsWhy ==
    main = "exited" =>
        /\ ToServe =>
             /\ code = IF drainFrom # Never /\ ~ CutSomebodyOff THEN 0 ELSE 1
             /\ IF drainFrom # Never THEN signalled ELSE listener \in {"none", "failed"}
        /\ probed # Never => (code = 0 <=> probed = "200")

Healthcheck == {"-healthcheck", "--healthcheck"}
Version == {"-version", "--version"}

(***************************************************************************)
(* Arguments that used to work still do, wherever they stand: with one     *)
(* dash or two, a healthcheck is never a second server unless the flag is  *)
(* turned off outright, alone or repeated it probes, a version is told,    *)
(* and nothing else is let through to serve (cli.go:56-86).                *)
(***************************************************************************)
OldArgumentsStillWork ==
    LET given(flags) == \E i \in DOMAIN args : args[i] \in flags
        only == \A i \in DOMAIN args : args[i] \in Healthcheck \cup Version
        serves == main \in {"starting", "serving", "draining"} IN
    /\ given({"-nonsense", "stray"} \cup Version) => ~ serves
    /\ given(Healthcheck) /\ ~ given({"--healthcheck=false"}) => ~ serves
    /\ main = "exited" /\ only /\ given(Version) => code = 0 /\ probed = Never
    /\ main = "exited" /\ only /\ given(Healthcheck) /\ ~ given(Version) => probed # Never
    /\ main = "exited" /\ given({"-nonsense"}) /\ ~ given({"--"}) => code = 1

(***************************************************************************)
(* A deploy is not held up: a signal is followed by the exit, within the   *)
(* grace.                                                                  *)
(***************************************************************************)
ExitWithinGrace ==
    /\ [](graceBy # Never => now <= graceBy)
    /\ signalled ~> main = "exited"
=============================================================================
