-------------------------- MODULE LifecycleProofs --------------------------
(***************************************************************************)
(* One run of the process, for every command line, every number of         *)
(* connections and all timeouts that fit into each other.  What is behind  *)
(* the properties is arithmetic that no single place of the code does: the *)
(* timer of each place a connection can be at, against the write deadline, *)
(* the beginning of the drain and the end of the grace.                    *)
(***************************************************************************)
EXTENDS Lifecycle, TLAPS

-----------------------------------------------------------------------------
(* The invariant.                                                          *)

ConnPlaces == {"none", "header", "next", "handler", "sending", "answering", "idle",
               "answered", "unanswered", "dropped", "closed", "killed", "cut off"}
Moments == Nat \cup {Never}
Mains == {"parsing", "probing", "starting", "serving", "draining", "exited"}
Connection == [at : ConnPlaces, due : Moments, writeBy : Moments, requests : Nat]

Typed ==
    /\ now \in Nat
    /\ main \in Mains
    /\ signalled \in BOOLEAN /\ errs \in BOOLEAN
    /\ graceBy \in Moments /\ drainFrom \in Moments
    /\ conn \in [Conns -> Connection]

\* A timer that runs has not run out, and leaves time for what comes after it.
OnTime(c) ==
    /\ conn[c].at \in {"header", "next"} =>
         conn[c].due \in Nat /\ now <= conn[c].due /\ conn[c].due <= now + ReadHeader
    /\ conn[c].at \in {"handler", "sending"} =>
         conn[c].due \in Nat /\ conn[c].writeBy \in Nat /\ now <= conn[c].due
    /\ conn[c].at = "handler" => conn[c].due + Send <= conn[c].writeBy
    /\ conn[c].at = "sending" => conn[c].due <= conn[c].writeBy
    /\ conn[c].at = "answering" => conn[c].writeBy \in Nat /\ now <= conn[c].writeBy

\* Nobody is cut off before the exit; then, only whose send had just begun.
CutLate(c) ==
    /\ conn[c].at \in {"killed", "cut off"} => main = "exited"
    /\ conn[c].at = "cut off" /\ drainFrom # Never =>
         conn[c].due \in Nat /\ conn[c].due > drainFrom + Send

Connections ==
    \A c \in Conns : OnTime(c) /\ CutLate(c) /\ conn[c].at # "unanswered"

\* The drain, from the signal on, with its grace.
Drain ==
    /\ main \in {"parsing", "probing", "starting", "serving"} =>
         drainFrom = Never /\ graceBy = Never
    /\ main = "draining" =>
         /\ signalled
         /\ drainFrom \in Nat /\ graceBy = drainFrom + Grace
    /\ graceBy # Never => now <= graceBy

\* Who may still be on the way to which exit, and what an exit has said.
Exits ==
    /\ main \in {"parsing", "probing", "starting"} => listener = "none"
    /\ main # "exited" => probed = Never
    /\ main = "probing" => healthcheck
    /\ errs => listener = "failed"
    /\ ExitCodeTellsWhy

Inv == Typed /\ Connections /\ Drain /\ Exits

-----------------------------------------------------------------------------
(* What the steps have in common.                                          *)

LEMMA Timeouts ==
    /\ ReadHeader \in Nat /\ ReadAll \in Nat /\ Write \in Nat /\ Send \in Nat /\ Grace \in Nat
    /\ ReadHeader <= ReadAll /\ Send < Grace /\ ReadAll + Send <= Write
    /\ Never \notin Nat
BY TimeoutsAssumption, TimeoutsFit, NeverAssumption

LEMMA OneIsNotZero == 1 # 0
OBVIOUS

\* A timer still running when the grace ends was set, for a send, after the drain
\* began; and so it is due more than a send after that.
LEMMA DueAfterTheGrace ==
    ASSUME NEW due \in Nat, NEW began \in Nat, due >= began + Grace
    PROVE  due > began + Send
BY Timeouts

LEMMA BegunAfter ==
    ASSUME NEW due \in Nat, NEW began \in Nat, due > began + Send
    PROVE  due - Send > began
BY Timeouts

\* The arguments stay, and so does what they ask for.
LEMMA AskedForGood ==
    ASSUME UNCHANGED args
    PROVE  /\ ToServe' <=> ToServe
           /\ healthcheck' <=> healthcheck
<1>1. /\ Unknown' <=> Unknown
      /\ Told' <=> Told
  BY DEF Unknown, Told, Given, BeforeDashes, legacySingleDash, Rewritten
<1>2. /\ Positional' <=> Positional
      /\ healthcheck' <=> healthcheck
  BY DEF Positional, healthcheck, BeforeDashes, legacySingleDash, Rewritten
<1> QED
  BY <1>1, <1>2 DEF ToServe, Runs

LEMMA InvInit ==
    ASSUME Init
    PROVE  Inv
<1>1. \A c \in Conns : conn[c] = [at |-> "none", due |-> Never, writeBy |-> Never, requests |-> 0]
  BY DEF Init
<1>2. Typed
  BY <1>1 DEF Init, Typed, Mains, Moments, Connection, ConnPlaces
<1>3. Connections
  BY <1>1 DEF Init, Connections, OnTime, CutLate
<1>4. Drain
  BY DEF Init, Drain
<1>5. Exits
  BY DEF Init, Exits, ExitCodeTellsWhy
<1> QED
  BY <1>2, <1>3, <1>4, <1>5 DEF Inv

\* One connection goes on and nothing else happens: it is enough that it is on
\* time where it comes to, and that this is none of the bad ends.
LEMMA OneGoesOn ==
    ASSUME Inv, NEW c \in Conns, Up,
           conn' \in [Conns -> Connection],
           \A d \in Conns \ {c} : conn'[d] = conn[d],
           conn'[c].at \notin {"unanswered", "killed", "cut off"},
           OnTime(c)',
           UNCHANGED <<now, process>>
    PROVE  Inv'
<1>1. Typed'
  BY DEF Inv, Typed, process
<1>2. Connections'
  <2> SUFFICES ASSUME NEW d \in Conns
               PROVE  OnTime(d)' /\ CutLate(d)' /\ conn'[d].at # "unanswered"
    BY DEF Connections
  <2>1. CASE d = c
    BY <2>1 DEF CutLate
  <2>2. CASE d # c
    <3>1. conn'[d] = conn[d] /\ now' = now /\ main' = main /\ drainFrom' = drainFrom
      BY <2>2 DEF process
    <3>2. OnTime(d) /\ CutLate(d) /\ conn[d].at # "unanswered"
      BY DEF Inv, Connections
    <3> QED
      BY <3>1, <3>2 DEF OnTime, CutLate
  <2> QED
    BY <2>1, <2>2
<1>3. Drain'
  BY DEF Inv, Drain, process
<1>4. main' \notin {"probing", "exited"}
  BY DEF Up, process
<1>5. Exits'
  BY <1>4 DEF Inv, Exits, ExitCodeTellsWhy, process
<1> QED
  BY <1>1, <1>2, <1>3, <1>5 DEF Inv

\* The same for a step that names the place and the timer.
LEMMA MoveGoesOn ==
    ASSUME Inv, NEW c \in Conns, NEW from, NEW place \in ConnPlaces, NEW due \in Moments,
           Move(c, from, place, due),
           place \notin {"unanswered", "killed", "cut off"},
           place \in {"header", "next"} =>
             due \in Nat /\ now <= due /\ due <= now + ReadHeader,
           place \in {"handler", "sending"} =>
             due \in Nat /\ conn[c].writeBy \in Nat /\ now <= due,
           place = "handler" => due + Send <= conn[c].writeBy,
           place = "sending" => due <= conn[c].writeBy,
           place = "answering" => conn[c].writeBy \in Nat /\ now <= conn[c].writeBy
    PROVE  Inv'
<1>0. conn \in [Conns -> Connection] /\ now \in Nat
  BY DEF Inv, Typed
<1>1. /\ Up
      /\ conn' = [conn EXCEPT ![c].at = place, ![c].due = due]
      /\ UNCHANGED <<now, process>>
  BY DEF Move
<1>2. /\ conn'[c].at = place /\ conn'[c].due = due
      /\ conn'[c].writeBy = conn[c].writeBy
  BY <1>0, <1>1 DEF Connection
<1>3. conn' \in [Conns -> Connection]
  BY <1>0, <1>1 DEF Connection
<1>4. \A d \in Conns \ {c} : conn'[d] = conn[d]
  BY <1>0, <1>1
<1>5. OnTime(c)'
  BY <1>1, <1>2 DEF OnTime
<1> QED
  BY <1>1, <1>2, <1>3, <1>4, <1>5, OneGoesOn

-----------------------------------------------------------------------------
(* The steps of a connection.                                              *)

LEMMA InvConnection ==
    ASSUME Inv, NEW c \in Conns,
           Accept(c) \/ NextRequest(c) \/ Leave(c) \/ ServeStep(c) \/ CloseIdle(c)
    PROVE  Inv'
<1>0. conn[c] \in Connection /\ now \in Nat
  BY DEF Inv, Typed
<1>1. conn[c].at \in ConnPlaces /\ conn[c].due \in Moments /\ conn[c].writeBy \in Moments
  BY <1>0 DEF Connection
<1>2. OnTime(c)
  BY DEF Inv, Connections
<1>3. CASE Accept(c) \/ NextRequest(c)
  <2>1. Move(c, {"none"}, "header", now + ReadHeader) \/ Move(c, {"idle"}, "next", now + ReadHeader)
    BY <1>3 DEF Accept, NextRequest
  <2>2. now + ReadHeader \in Moments /\ now <= now + ReadHeader /\ now + ReadHeader \in Nat
    BY <1>0, Timeouts DEF Moments
  <2> QED
    BY <2>1, <2>2, MoveGoesOn DEF ConnPlaces
<1>4. CASE Leave(c) \/ HeaderTimeout(c)
  <2>1. Move(c, {"idle"}, "closed", Never) \/ Move(c, {"header", "next"}, "dropped", Never)
    BY <1>4 DEF Leave, HeaderTimeout
  <2> QED
    BY <2>1, MoveGoesOn DEF ConnPlaces, Moments
<1>5. CASE ReadHeaderDone(c)
  <2>1. /\ Up /\ UNCHANGED <<now, process>> /\ now' = now
        /\ conn[c].at \in {"header", "next"}
        /\ conn' = [conn EXCEPT ![c].at = "handler", ![c].requests = @ + 1,
                                ![c].due = @ + (ReadAll - ReadHeader),
                                ![c].writeBy = now + Write]
    BY <1>5 DEF ReadHeaderDone, WriteAllowed
  <2>2. conn[c].due \in Nat /\ now <= conn[c].due /\ conn[c].due <= now + ReadHeader
    BY <2>1, <1>2 DEF OnTime
  <2>3. /\ conn \in [Conns -> Connection]
        /\ conn[c].requests + 1 \in Nat
        /\ conn[c].due + (ReadAll - ReadHeader) \in Nat
        /\ now + Write \in Nat
    BY <1>0, <2>2, Timeouts DEF Inv, Typed, Connection
  <2>4. conn' \in [Conns -> Connection]
    <3> DEFINE done == [at |-> "handler", due |-> conn[c].due + (ReadAll - ReadHeader),
                        writeBy |-> now + Write, requests |-> conn[c].requests + 1]
    <3>1. done \in Connection
      BY <2>3 DEF Connection, ConnPlaces, Moments
    <3>2. conn' = [conn EXCEPT ![c] = done]
      BY <2>1, <2>3 DEF Connection
    <3> QED
      BY <2>3, <3>1, <3>2
  <2>5. /\ conn'[c].at = "handler"
        /\ conn'[c].due = conn[c].due + (ReadAll - ReadHeader)
        /\ conn'[c].writeBy = now + Write
        /\ \A d \in Conns \ {c} : conn'[d] = conn[d]
    BY <2>1, <2>3 DEF Connection
  <2>6. /\ now <= conn[c].due + (ReadAll - ReadHeader)
        /\ conn[c].due + (ReadAll - ReadHeader) + Send <= now + Write
    BY <1>0, <2>2, Timeouts
  <2>7. OnTime(c)'
    BY <2>1, <2>3, <2>5, <2>6 DEF OnTime
  <2> QED
    BY <2>1, <2>4, <2>5, <2>7, OneGoesOn
<1>6. CASE BeginSend(c)
  <2>1. Move(c, {"handler"}, "sending", now + Send)
    BY <1>6 DEF BeginSend
  <2>2. conn[c].at = "handler"
    BY <2>1 DEF Move
  <2>3. /\ conn[c].due \in Nat /\ conn[c].writeBy \in Nat
        /\ now <= conn[c].due /\ conn[c].due + Send <= conn[c].writeBy
    BY <1>2, <2>2 DEF OnTime
  <2>4. /\ now + Send \in Moments /\ now + Send \in Nat /\ now <= now + Send
        /\ now + Send <= conn[c].writeBy
    BY <1>0, <2>3, Timeouts DEF Moments
  <2> QED
    BY <2>1, <2>3, <2>4, MoveGoesOn DEF ConnPlaces
<1>7. CASE AnswerWithoutSending(c) \/ EndSend(c)
  <2>1. Move(c, {"handler"}, "answering", Never) \/ Move(c, {"sending"}, "answering", Never)
    BY <1>7 DEF AnswerWithoutSending, EndSend
  <2>2. conn[c].at = "handler" \/ conn[c].at = "sending"
    BY <2>1 DEF Move
  <2>3. /\ conn[c].due \in Nat /\ conn[c].writeBy \in Nat /\ now <= conn[c].due
        /\ conn[c].due + Send <= conn[c].writeBy \/ conn[c].due <= conn[c].writeBy
    BY <1>2, <2>2 DEF OnTime
  <2>4. now <= conn[c].writeBy
    BY <1>0, <2>3, Timeouts
  <2> QED
    BY <2>1, <2>3, <2>4, MoveGoesOn DEF ConnPlaces, Moments
<1>8. CASE WriteAnswer(c)
  <2>1. /\ Up /\ UNCHANGED <<now, process>> /\ now' = now
        /\ conn[c].at = "answering"
    BY <1>8 DEF WriteAnswer
  <2>2. PICK next \in {"idle", "answered", "unanswered"} :
          /\ next = "unanswered" <=> now > conn[c].writeBy
          /\ conn' = [conn EXCEPT ![c].at = next, ![c].writeBy = Never]
    BY <1>8 DEF WriteAnswer
  <2>3. conn[c].writeBy \in Nat /\ now <= conn[c].writeBy
    BY <1>2, <2>1 DEF OnTime
  <2>4. next \in {"idle", "answered"}
    BY <1>0, <2>2, <2>3
  <2>5. conn \in [Conns -> Connection]
    BY DEF Inv, Typed
  <2>6. conn' \in [Conns -> Connection]
    BY <2>2, <2>4, <2>5 DEF Connection, ConnPlaces, Moments
  <2>7. conn'[c].at = next /\ \A d \in Conns \ {c} : conn'[d] = conn[d]
    BY <2>2, <2>5 DEF Connection
  <2>8. OnTime(c)'
    BY <2>4, <2>7 DEF OnTime
  <2> QED
    BY <2>1, <2>4, <2>6, <2>7, <2>8, OneGoesOn
<1>9. CASE CloseIdle(c)
  <2>1. /\ Up /\ UNCHANGED <<now, process>> /\ now' = now
        /\ conn' = [conn EXCEPT ![c].at = "closed"]
    BY <1>9 DEF CloseIdle, Up
  <2>2. conn \in [Conns -> Connection]
    BY DEF Inv, Typed
  <2>3. conn' \in [Conns -> Connection]
    BY <2>1, <2>2 DEF Connection, ConnPlaces
  <2>4. conn'[c].at = "closed" /\ \A d \in Conns \ {c} : conn'[d] = conn[d]
    BY <2>1, <2>2 DEF Connection
  <2>5. OnTime(c)'
    BY <2>4 DEF OnTime
  <2> QED
    BY <2>1, <2>3, <2>4, <2>5, OneGoesOn
<1> QED
  BY <1>3, <1>4, <1>5, <1>6, <1>7, <1>8, <1>9 DEF ServeStep

-----------------------------------------------------------------------------
(* The command line, the start and the listener: no connection changes.    *)

\* With the connections and the clock as they were, and nobody cut off, what is
\* left is what main and the listener say.
LEMMA ConnectionsStay ==
    ASSUME Inv, main # "exited", UNCHANGED <<now, conn, drainFrom>>
    PROVE  /\ Connections'
           /\ ~ CutSomebodyOff'
<1>1. \A c \in Conns : /\ OnTime(c) /\ CutLate(c) /\ conn[c].at # "unanswered"
                       /\ conn[c].at \notin {"killed", "cut off"}
  BY DEF Inv, Connections, CutLate
<1>2. \A c \in Conns : OnTime(c)' /\ CutLate(c)' /\ conn'[c].at # "unanswered"
  BY <1>1 DEF OnTime, CutLate
<1> QED
  BY <1>1, <1>2 DEF Connections, CutSomebodyOff

LEMMA InvCommand ==
    ASSUME Inv, Command \/ StartFails
    PROVE  Inv'
<1>0. /\ UNCHANGED <<now, conn, drainFrom, graceBy, listener, errs, signalled, args>>
      /\ main \in {"parsing", "probing", "starting"}
      /\ main' \in {"probing", "starting", "exited"}
  BY DEF Command, Usage, Tell, RunE, Probe, StartFails, Exit
<1>1. Typed'
  BY <1>0 DEF Inv, Typed, Mains
<1>2. Connections'
  BY <1>0, ConnectionsStay
<1>3. Drain'
  BY <1>0 DEF Inv, Drain
<1>4. Exits'
  <2>0. /\ listener' = "none" /\ (errs' => listener' = "failed")
        /\ probed = Never /\ drainFrom' = Never
        /\ main = "probing" => healthcheck
        /\ ToServe' <=> ToServe
        /\ healthcheck' <=> healthcheck
    BY <1>0, AskedForGood DEF Inv, Exits, Drain
  <2>1. CASE Usage \/ Tell
    <3>1. main' = "exited" /\ probed' = probed
      BY <2>1 DEF Usage, Tell, Exit
    <3>2. ~ ToServe
      BY <2>1 DEF Usage, Tell, ToServe, Runs
    <3> QED
      BY <3>1, <3>2, <2>0 DEF Exits, ExitCodeTellsWhy
  <2>3. CASE RunE
    <3>1. /\ probed' = probed
          /\ main' \in {"probing", "starting"}
          /\ main' = "probing" => healthcheck
      BY <2>3 DEF RunE
    <3> QED
      BY <3>1, <2>0 DEF Exits, ExitCodeTellsWhy
  <2>4. CASE Probe
    <3>1. PICK heard \in Heard :
            /\ probed' = heard
            /\ main' = "exited" /\ code' = IF heard = "200" THEN 0 ELSE 1
      BY <2>4 DEF Probe, Exit
    <3>2. ~ ToServe'
      BY <2>0, <2>4 DEF Probe, ToServe
    <3>3. code' = 0 <=> probed' = "200"
      <4>1. CASE heard = "200"
        BY <3>1, <4>1
      <4>2. CASE heard # "200"
        <5>1. code' = 1
          BY <3>1, <4>2
        <5>2. probed' # "200"
          BY <3>1, <4>2
        <5> QED
          BY <5>1, <5>2, OneIsNotZero
      <4> QED
        BY <4>1, <4>2
    <3> QED
      BY <3>1, <3>2, <3>3, <2>0 DEF Exits, ExitCodeTellsWhy
  <2>5. CASE StartFails
    <3>1. main' = "exited" /\ code' = 1 /\ probed' = probed
      BY <2>5 DEF StartFails, Exit
    <3> QED
      BY <3>1, <2>0 DEF Exits, ExitCodeTellsWhy
  <2> QED
    BY <2>1, <2>3, <2>4, <2>5 DEF Command
<1> QED
  BY <1>1, <1>2, <1>3, <1>4 DEF Inv

LEMMA InvProcess ==
    ASSUME Inv,
           Start \/ Signal \/ BeginShutdown \/ Listen \/ ListenFails \/ ListenerCloses
    PROVE  Inv'
<1>0. /\ UNCHANGED <<now, conn, probed>>
      /\ main \in {"starting", "serving", "draining"}
      /\ main' \in {"serving", "draining"}
      /\ main' # main => (main' = "serving" \/ main = "serving")
  BY DEF Start, Signal, BeginShutdown, Listen, ListenFails, ListenerCloses
<1>1. now \in Nat /\ now + Grace \in Nat /\ now <= now + Grace
  BY Timeouts DEF Inv, Typed
<1>2. Typed'
  <2>1. signalled' \in BOOLEAN /\ errs' \in BOOLEAN
    BY DEF Inv, Typed, Start, Signal, BeginShutdown, Listen, ListenFails, ListenerCloses
  <2>2. graceBy' \in Moments /\ drainFrom' \in Moments
    BY <1>1 DEF Inv, Typed, Moments, Start, Signal, BeginShutdown, Listen, ListenFails,
                ListenerCloses, GraceGiven
  <2> QED
    BY <1>0, <2>1, <2>2 DEF Inv, Typed, Mains
<1>3. Drain'
  <2>1. CASE Start
    BY <2>1 DEF Inv, Drain, Start
  <2>2. CASE BeginShutdown
    <3>1. /\ main' = "draining" /\ signalled' = signalled /\ signalled
          /\ drainFrom' = now /\ graceBy' = now + Grace
      BY <2>2 DEF BeginShutdown, SignalHeard, GraceGiven
    <3> QED
      BY <1>0, <1>1, <3>1, Timeouts DEF Inv, Typed, Drain
  <2>3. CASE Signal \/ Listen \/ ListenFails \/ ListenerCloses
    <3>1. /\ UNCHANGED <<now, main, drainFrom, graceBy>>
          /\ signalled => signalled'
      BY <2>3 DEF Inv, Typed, Signal, Listen, ListenFails, ListenerCloses
    <3> QED
      BY <3>1 DEF Inv, Drain
  <2> QED
    BY <2>1, <2>2, <2>3
<1>4. Connections'
  <2>1. \A c \in Conns : /\ OnTime(c) /\ conn[c].at # "unanswered"
                         /\ conn[c].at \notin {"killed", "cut off"}
    BY <1>0 DEF Inv, Connections, CutLate
  <2>2. \A c \in Conns : OnTime(c)' /\ CutLate(c)' /\ conn'[c].at # "unanswered"
    BY <1>0, <2>1 DEF OnTime, CutLate
  <2> QED
    BY <2>2 DEF Connections
<1>5. Exits'
  <2>1. errs' => listener' = "failed"
    BY DEF Inv, Exits, Start, Signal, BeginShutdown, Listen, ListenFails, ListenerCloses
  <2> QED
    BY <1>0, <2>1 DEF Inv, Exits, ExitCodeTellsWhy
<1> QED
  BY <1>2, <1>3, <1>4, <1>5 DEF Inv

-----------------------------------------------------------------------------
(* The clock, and the exits that take the connections along.               *)

LEMMA InvTick ==
    ASSUME Inv, Tick
    PROVE  Inv'
<1>0. /\ now' = now + 1 /\ now \in Nat /\ now' \in Nat
      /\ UNCHANGED <<process, conn>>
      /\ main \in {"serving", "draining"}
      /\ main = "draining" => now < graceBy
      /\ \A c \in Conns : MayWait(c)
  BY DEF Inv, Typed, Tick, Up
<1>1. Typed'
  BY <1>0 DEF Inv, Typed, process
<1>2. Connections'
  <2> SUFFICES ASSUME NEW c \in Conns
               PROVE  OnTime(c)' /\ CutLate(c)' /\ conn'[c].at # "unanswered"
    BY DEF Connections
  <2>1. OnTime(c) /\ CutLate(c) /\ conn[c].at # "unanswered" /\ MayWait(c)
    BY <1>0 DEF Inv, Connections
  <2>2. CutLate(c)' /\ conn'[c].at # "unanswered"
    BY <1>0, <2>1 DEF CutLate, process
  <2>3. CASE conn[c].at \in {"header", "next", "handler", "sending"}
    <3>1. conn[c].due \in Nat /\ now < conn[c].due
      BY <2>1, <2>3 DEF OnTime, MayWait
    <3>2. now' <= conn[c].due
      BY <1>0, <3>1
    <3>3. conn[c].at \in {"header", "next"} => conn[c].due <= now' + ReadHeader
      BY <1>0, <2>1, <3>1, Timeouts DEF OnTime
    <3> QED
      BY <1>0, <2>1, <2>2, <2>3, <3>1, <3>2, <3>3 DEF OnTime
  <2>4. CASE conn[c].at \notin {"header", "next", "handler", "sending"}
    <3>1. conn[c].at # "answering"
      BY <2>1, <2>4 DEF MayWait
    <3> QED
      BY <1>0, <2>2, <2>4, <3>1 DEF OnTime
  <2> QED
    BY <2>3, <2>4
<1>3. Drain'
  <2>1. main = "serving" => graceBy' = Never
    BY <1>0 DEF Inv, Drain, process
  <2>2. main = "draining" => graceBy \in Nat /\ now' <= graceBy
    BY <1>0, Timeouts DEF Inv, Drain
  <2> QED
    BY <1>0, <2>1, <2>2 DEF Inv, Drain, process
<1>4. Exits'
  BY <1>0 DEF Inv, Exits, ExitCodeTellsWhy, process
<1> QED
  BY <1>1, <1>2, <1>3, <1>4 DEF Inv

\* Drained: nobody is active, and the idle connections are closed.
LEMMA InvDrained ==
    ASSUME Inv, Drained
    PROVE  Inv'
<1>0. /\ main = "draining" /\ main' = "exited" /\ code' = 0
      /\ \A c \in Conns : ~ Active(c)
      /\ UNCHANGED <<now, args, probed, listener, errs, signalled, graceBy, drainFrom>>
      /\ conn' = [c \in Conns |-> IF Idle(c) THEN [conn[c] EXCEPT !.at = "closed"] ELSE conn[c]]
  BY DEF Drained, Exit
<1>1. \A c \in Conns :
        /\ conn[c] \in Connection /\ conn'[c] \in Connection
        /\ conn'[c].at \in {"none", "answered", "dropped", "closed"}
  <2> TAKE c \in Conns
  <2>1. conn[c] \in Connection /\ CutLate(c) /\ conn[c].at # "unanswered"
    BY DEF Inv, Typed, Connections
  <2>2. conn[c].at \in {"none", "idle", "next", "answered", "dropped", "closed"}
    BY <1>0, <2>1 DEF Active, CutLate, Connection, ConnPlaces
  <2>3. CASE Idle(c)
    <3>1. conn'[c] = [conn[c] EXCEPT !.at = "closed"]
      BY <1>0, <2>3
    <3> QED
      BY <2>1, <3>1 DEF Connection, ConnPlaces
  <2>4. CASE ~ Idle(c)
    <3>1. conn'[c] = conn[c]
      BY <1>0, <2>4
    <3> QED
      BY <2>1, <2>2, <2>4, <3>1 DEF Idle
  <2> QED
    BY <2>3, <2>4
<1>2. Typed'
  <2>1. conn' \in [Conns -> Connection]
    BY <1>0, <1>1
  <2> QED
    BY <1>0, <2>1 DEF Inv, Typed, Mains
<1>3. Connections'
  BY <1>0, <1>1 DEF Connections, OnTime, CutLate
<1>4. Drain'
  BY <1>0 DEF Inv, Drain
<1>5. Exits'
  <2>1. /\ signalled' /\ probed' = Never /\ (errs' => listener' = "failed")
        /\ drainFrom' # Never
    BY <1>0, Timeouts DEF Inv, Drain, Exits
  <2>2. ~ CutSomebodyOff'
    BY <1>1 DEF CutSomebodyOff
  <2>3. ExitCodeTellsWhy'
    BY <1>0, <2>1, <2>2 DEF ExitCodeTellsWhy
  <2> QED
    BY <1>0, <2>1, <2>3 DEF Exits
<1> QED
  BY <1>2, <1>3, <1>4, <1>5 DEF Inv

\* The listener failed or the grace is over.  Whoever is under way is cut off, and
\* at the end of the grace that can only be a send which began after the drain did.
LEMMA InvKilled ==
    ASSUME Inv, ReceiveError \/ GraceEnds
    PROVE  Inv'
<1>0. /\ main \in {"serving", "draining"} /\ main' = "exited" /\ code' = 1
      /\ conn' = Killed
      /\ UNCHANGED <<now, args, probed, listener, signalled, graceBy, drainFrom>>
      /\ errs' \in {errs, FALSE}
  BY DEF ReceiveError, GraceEnds, Exit, ShutdownError
<1>1. \A c \in Conns :
        /\ conn[c].at = "sending" => conn'[c] = [conn[c] EXCEPT !.at = "cut off"]
        /\ conn[c].at \in {"header", "handler", "answering", "idle", "next"}
             => conn'[c] = [conn[c] EXCEPT !.at = "killed"]
        /\ conn[c].at \notin {"sending", "header", "handler", "answering", "idle", "next"}
             => conn'[c] = [conn[c] EXCEPT !.at = conn[c].at]
  BY <1>0 DEF Killed, Active, Idle
<1>2. \A c \in Conns :
        /\ conn'[c] \in Connection
        /\ conn'[c].due = conn[c].due
        /\ conn'[c].at \in {"none", "answered", "dropped", "closed", "killed", "cut off"}
        /\ conn'[c].at = "cut off" => conn[c].at = "sending"
        /\ conn[c].at \in {"header", "handler", "sending", "answering", "idle", "next"}
             => conn'[c].at \in {"killed", "cut off"}
  <2> TAKE c \in Conns
  <2>1. conn[c] \in Connection /\ conn[c].at # "unanswered"
        /\ conn[c].at \notin {"killed", "cut off"}
    BY <1>0 DEF Inv, Typed, Connections, CutLate
  <2> QED
    BY <1>1, <2>1 DEF Connection, ConnPlaces
<1>3. Typed'
  <2>1. conn' \in [Conns -> Connection]
    BY <1>0, <1>2 DEF Killed
  <2> QED
    BY <1>0, <2>1 DEF Inv, Typed, Mains
<1>4. Connections'
  <2> SUFFICES ASSUME NEW c \in Conns
               PROVE  OnTime(c)' /\ CutLate(c)' /\ conn'[c].at # "unanswered"
    BY DEF Connections
  <2>1. OnTime(c)' /\ conn'[c].at # "unanswered"
    BY <1>2 DEF OnTime
  <2>2. CutLate(c)'
    <3> SUFFICES ASSUME conn'[c].at = "cut off", drainFrom' # Never
                 PROVE  conn'[c].due \in Nat /\ conn'[c].due > drainFrom' + Send
      BY <1>0 DEF CutLate
    <3>1. conn[c].at = "sending" /\ conn'[c].due = conn[c].due
      BY <1>2
    <3>2. conn[c].due \in Nat /\ now <= conn[c].due
      BY <3>1 DEF Inv, Connections, OnTime
    <3>3. GraceEnds
      BY <1>0 DEF Inv, Drain, ReceiveError
    <3>4. now = drainFrom + Grace /\ drainFrom \in Nat /\ now \in Nat
      BY <3>3 DEF Inv, Typed, Drain, GraceEnds
    <3>5. conn[c].due >= drainFrom + Grace
      BY <3>2, <3>4
    <3>6. conn[c].due > drainFrom + Send
      BY <3>2, <3>4, <3>5, DueAfterTheGrace
    <3> QED
      BY <1>0, <3>1, <3>2, <3>6
  <2> QED
    BY <2>1, <2>2
<1>5. Drain'
  BY <1>0 DEF Inv, Drain
<1>6. Exits'
  <2>1. probed' = Never /\ (errs' => listener' = "failed")
    <3>1. errs' => errs
      BY <1>0
    <3> QED
      BY <1>0, <3>1 DEF Inv, Exits
  <2>2. \/ drainFrom' = Never /\ listener' = "failed"
        \/ drainFrom' # Never /\ signalled' /\ CutSomebodyOff'
    <3>1. CASE ReceiveError
      BY <1>0, <3>1 DEF Inv, Drain, Exits, ReceiveError
    <3>2. CASE GraceEnds
      <4>1. PICK c \in Conns : Active(c)
        BY <3>2 DEF GraceEnds
      <4>2. CutSomebodyOff'
        BY <4>1, <1>2 DEF Active, CutSomebodyOff
      <4>3. drainFrom' # Never /\ signalled'
        BY <1>0, <3>2, Timeouts DEF Inv, Drain, GraceEnds
      <4> QED
        BY <4>2, <4>3
    <3> QED
      BY <3>1, <3>2
  <2>3. ExitCodeTellsWhy'
    BY <1>0, <2>1, <2>2 DEF ExitCodeTellsWhy
  <2> QED
    BY <1>0, <2>1, <2>3 DEF Exits
<1> QED
  BY <1>3, <1>4, <1>5, <1>6 DEF Inv

LEMMA InvNext ==
    ASSUME Inv, [Next]_vars
    PROVE  Inv'
<1>1. CASE Next
  <2>1. CASE Command \/ StartFails
    BY <2>1, InvCommand
  <2>2. CASE Start \/ Signal \/ BeginShutdown \/ Listen \/ ListenFails \/ ListenerCloses
    BY <2>2, InvProcess
  <2>3. CASE ReceiveError \/ GraceEnds
    BY <2>3, InvKilled
  <2>4. CASE Drained
    BY <2>4, InvDrained
  <2>5. CASE \E c \in Conns : Accept(c) \/ NextRequest(c) \/ Leave(c) \/ ServeStep(c) \/ CloseIdle(c)
    BY <2>5, InvConnection
  <2>6. CASE Tick
    BY <2>6, InvTick
  <2> QED
    BY <1>1, <2>1, <2>2, <2>3, <2>4, <2>5, <2>6 DEF Next, MainStep
<1>2. CASE UNCHANGED vars
  <2>0. UNCHANGED <<now, args, main, code, probed, listener, errs, signalled, graceBy,
                    drainFrom, conn>>
    BY <1>2 DEF vars, process
  <2>1. Typed'
    BY <2>0 DEF Inv, Typed
  <2>2. Connections'
    BY <2>0 DEF Inv, Connections, OnTime, CutLate
  <2>3. Drain'
    BY <2>0 DEF Inv, Drain
  <2>4. Exits'
    <3>1. /\ ToServe' <=> ToServe
          /\ healthcheck' <=> healthcheck
          /\ CutSomebodyOff' <=> CutSomebodyOff
      BY <2>0, AskedForGood DEF CutSomebodyOff
    <3> QED
      BY <2>0, <3>1 DEF Inv, Exits, ExitCodeTellsWhy
  <2> QED
    BY <2>1, <2>2, <2>3, <2>4 DEF Inv
<1> QED
  BY <1>1, <1>2

-----------------------------------------------------------------------------
(* What the arguments asked for.  The rewriting and the parsing happen in  *)
(* one step, but what they decided shows only at the exit.                 *)

Asks(flags) == \E i \in DOMAIN args : args[i] \in flags
OnlyOldFlags == \A i \in DOMAIN args : args[i] \in Healthcheck \cup Version

\* Nothing but a healthcheck turned off can stand beside what serves.
NothingElse ==
    /\ ~ Asks({"-nonsense", "stray"} \cup Version)
    /\ Asks(Healthcheck) => Asks({"--healthcheck=false"})

Arguments ==
    /\ args \in Args
    /\ main \in {"starting", "serving", "draining"} => NothingElse
    /\ main = "probing" => ~ Asks({"-nonsense", "stray"} \cup Version)
    /\ main = "exited" /\ OnlyOldFlags /\ Asks(Version) => code = 0 /\ probed = Never
    /\ main = "exited" /\ OnlyOldFlags /\ Asks(Healthcheck) /\ ~ Asks(Version) => probed # Never
    /\ main = "exited" /\ Asks({"-nonsense"}) /\ ~ Asks({"--"}) => code = 1

\* One dash or two: the parser sees the same; and everything else it sees as it is.
LEMMA LegacySingleDash ==
    ASSUME NEW i \in DOMAIN args
    PROVE  /\ legacySingleDash[i] = "--healthcheck" <=> args[i] \in Healthcheck
           /\ legacySingleDash[i] = "--version" <=> args[i] \in Version
           /\ args[i] \notin legacyFlags => legacySingleDash[i] = args[i]
           /\ args[i] \in legacyFlags => legacySingleDash[i] \in {"--healthcheck", "--version"}
<1>1. legacySingleDash[i] = IF Rewritten(i) THEN OneMoreDash(args[i]) ELSE args[i]
  BY DEF legacySingleDash
<1>2. CASE args[i] = "-healthcheck"
  BY <1>1, <1>2 DEF Rewritten, legacyFlags, OneMoreDash, Healthcheck, Version
<1>3. CASE args[i] = "-version"
  BY <1>1, <1>3 DEF Rewritten, legacyFlags, OneMoreDash, Healthcheck, Version
<1>4. CASE args[i] \notin {"-healthcheck", "-version"}
  <2>1. legacySingleDash[i] = args[i]
    BY <1>1, <1>4 DEF Rewritten, legacyFlags
  <2> QED
    BY <2>1, <1>4 DEF Healthcheck, Version, legacyFlags
<1> QED
  BY <1>2, <1>3, <1>4

\* As long as nobody writes "--", every argument is read.
LEMMA AllAreRead ==
    ASSUME args \in Args, ~ Asks({"--"})
    PROVE  \A i \in DOMAIN args : BeforeDashes(i)
<1>1. \A j \in DOMAIN args : legacySingleDash[j] # "--"
  BY LegacySingleDash DEF Asks
<1>2. args \in Seq(Words)
  BY ArgsAssumption
<1>3. \A i \in DOMAIN args : \A j \in 1 .. i-1 : j \in DOMAIN args
  BY <1>2
<1> QED
  BY <1>1, <1>3 DEF BeforeDashes

\* What is let through to RunE is made of flags, and an old healthcheck among them
\* asks for the probe unless it is turned off.
LEMMA WhatRuns ==
    ASSUME Runs
    PROVE  /\ ~ Asks({"-nonsense", "stray"} \cup Version)
           /\ Asks(Healthcheck) /\ ~ Asks({"--healthcheck=false"}) => healthcheck
<1>1. \A i \in DOMAIN args : BeforeDashes(i) /\ legacySingleDash[i] # "stray"
  BY DEF Runs, Positional
<1>2. \A i \in DOMAIN args : legacySingleDash[i] \notin {"-nonsense", "--version"}
  BY <1>1 DEF Runs, Unknown, Told, Given
<1>3. ~ Asks({"-nonsense", "stray"} \cup Version)
  BY <1>1, <1>2, LegacySingleDash DEF Asks, legacyFlags, Version
<1>4. ASSUME Asks(Healthcheck), ~ Asks({"--healthcheck=false"})
      PROVE  healthcheck
  <2>1. PICK i \in DOMAIN args : legacySingleDash[i] = "--healthcheck"
    BY <1>4, LegacySingleDash DEF Asks
  <2>2. \A j \in DOMAIN args : legacySingleDash[j] # "--healthcheck=false"
    BY <1>4, LegacySingleDash DEF Asks
  <2> QED
    BY <1>1, <2>1, <2>2 DEF healthcheck
<1> QED
  BY <1>3, <1>4

LEMMA AsksForGood ==
    ASSUME UNCHANGED args
    PROVE  /\ OnlyOldFlags' <=> OnlyOldFlags
           /\ Asks(Version)' <=> Asks(Version)
           /\ Asks(Healthcheck)' <=> Asks(Healthcheck)
           /\ Asks({"-nonsense"})' <=> Asks({"-nonsense"})
           /\ Asks({"--"})' <=> Asks({"--"})
           /\ Asks({"-nonsense", "stray"} \cup Version)' <=> Asks({"-nonsense", "stray"} \cup Version)
           /\ NothingElse' <=> NothingElse
BY DEF Asks, OnlyOldFlags, NothingElse, Version, Healthcheck

LEMMA ArgumentsCommand ==
    ASSUME Inv, Arguments, Command
    PROVE  Arguments'
<1>0. UNCHANGED args /\ args \in Args
  BY DEF Arguments, Command, Usage, Tell, RunE, Probe
<1>1. CASE Usage
  <2>1. main' = "exited" /\ code' = 1
    BY <1>1 DEF Usage, Exit
  <2>2. ~ OnlyOldFlags
    <3> SUFFICES ASSUME OnlyOldFlags
                 PROVE  FALSE
      OBVIOUS
    <3>1. \A i \in DOMAIN args : legacySingleDash[i] \in {"--healthcheck", "--version"}
      BY LegacySingleDash DEF OnlyOldFlags
    <3>2. ~ Asks({"--"})
      BY DEF OnlyOldFlags, Asks, Healthcheck, Version
    <3>3. ~ Positional
      BY <1>0, <3>1, <3>2, AllAreRead DEF Positional
    <3>4. ~ Unknown
      BY <3>1 DEF Unknown, Given
    <3> QED
      BY <3>3, <3>4, <1>1 DEF Usage
  <2> QED
    BY <1>0, <2>1, <2>2, AsksForGood DEF Arguments
<1>2. CASE Tell
  <2>1. /\ main' = "exited" /\ code' = 0 /\ probed' = probed
        /\ ~ Unknown /\ Told
        /\ probed = Never
    BY <1>2 DEF Tell, Exit, Inv, Exits
  <2>2. Asks({"-nonsense"}) => Asks({"--"})
    <3> SUFFICES ASSUME Asks({"-nonsense"}), ~ Asks({"--"})
                 PROVE  FALSE
      OBVIOUS
    <3>1. PICK i \in DOMAIN args : args[i] = "-nonsense"
      BY DEF Asks
    <3>2. legacySingleDash[i] = "-nonsense"
      BY <3>1, LegacySingleDash DEF legacyFlags
    <3> QED
      BY <1>0, <2>1, <3>2, AllAreRead DEF Unknown, Given
  <2>3. OnlyOldFlags => Asks(Version)
    <3> SUFFICES ASSUME OnlyOldFlags, ~ Asks(Version)
                 PROVE  FALSE
      OBVIOUS
    <3>1. \A i \in DOMAIN args : legacySingleDash[i] = "--healthcheck"
      BY LegacySingleDash DEF OnlyOldFlags, Asks
    <3> QED
      BY <3>1, <2>1 DEF Told, Given
  <2> QED
    BY <1>0, <2>1, <2>2, <2>3, AsksForGood DEF Arguments
<1>3. CASE RunE
  <2>1. Runs /\ main' = IF healthcheck THEN "probing" ELSE "starting"
    BY <1>3 DEF RunE
  <2>2. /\ ~ Asks({"-nonsense", "stray"} \cup Version)
        /\ ~ healthcheck => NothingElse
    BY <2>1, WhatRuns DEF NothingElse
  <2> QED
    BY <1>0, <2>1, <2>2, AsksForGood DEF Arguments
<1>4. CASE Probe
  <2>1. PICK heard \in Heard :
          main' = "exited" /\ probed' = heard
    BY <1>4 DEF Probe, Exit
  <2>2. probed' # Never
    BY <2>1, NeverAssumption
  <2>3. ~ Asks({"-nonsense", "stray"} \cup Version)
    BY <1>4 DEF Probe, Arguments
  <2>4. ~ Asks(Version) /\ ~ Asks({"-nonsense"})
    BY <2>3 DEF Asks
  <2> QED
    BY <1>0, <2>1, <2>2, <2>4, AsksForGood DEF Arguments
<1> QED
  BY <1>1, <1>2, <1>3, <1>4 DEF Command

LEMMA ArgumentsNext ==
    ASSUME Inv, Arguments, [Next]_vars
    PROVE  Arguments'
<1>1. CASE Command
  BY <1>1, ArgumentsCommand
\* Whoever serves or is about to goes on serving, or leaves.
<1>2. CASE ~ Command /\ main \in {"starting", "serving", "draining"}
  <2>1. NothingElse
    BY <1>2 DEF Arguments
  <2>2. args' = args /\ args \in Args
    BY <1>2 DEF Arguments, Next, MainStep, ServeStep, StartFails, Start, Signal, ReceiveError,
                BeginShutdown, CloseIdle, Drained, GraceEnds, Listen, ListenFails,
                ListenerCloses, Move, Accept, NextRequest, Leave, ReadHeaderDone,
                HeaderTimeout, BeginSend, AnswerWithoutSending, EndSend, WriteAnswer,
                Tick, vars, process
  <2>3. main' # "probing"
    BY <1>2 DEF Next, MainStep, ServeStep, StartFails, Start, Signal, ReceiveError,
                BeginShutdown, CloseIdle, Drained, GraceEnds, Listen, ListenFails,
                ListenerCloses, Move, Accept, NextRequest, Leave, ReadHeaderDone,
                HeaderTimeout, BeginSend, AnswerWithoutSending, EndSend, WriteAnswer,
                Tick, vars, process, Exit
  <2>4. ~ Asks(Version) /\ ~ Asks({"-nonsense"})
    BY <2>1 DEF NothingElse, Asks
  <2>5. OnlyOldFlags => ~ Asks(Healthcheck)
    <3>1. OnlyOldFlags => ~ Asks({"--healthcheck=false"})
      BY DEF OnlyOldFlags, Asks, Healthcheck, Version
    <3> QED
      BY <2>1, <3>1 DEF NothingElse
  <2> QED
    BY <2>1, <2>2, <2>3, <2>4, <2>5, AsksForGood DEF Arguments
\* Anybody else only stutters.
<1>3. CASE ~ Command /\ main \notin {"starting", "serving", "draining"}
  <2>1. UNCHANGED <<args, main, code, probed>>
    BY <1>3 DEF Next, MainStep, ServeStep, StartFails, Start, Signal, ReceiveError,
                BeginShutdown, CloseIdle, Drained, GraceEnds, Listen, ListenFails,
                ListenerCloses, Move, Accept, NextRequest, Leave, ReadHeaderDone,
                HeaderTimeout, BeginSend, AnswerWithoutSending, EndSend, WriteAnswer,
                Tick, vars, process, Up
  <2> QED
    BY <2>1, AsksForGood DEF Arguments
<1> QED
  BY <1>1, <1>2, <1>3

-----------------------------------------------------------------------------
(* The theorems.                                                           *)

\* The invariant holds in every state of every run of the process (cli.Run).
THEOREM InvHolds == Spec => []Inv
<1>1. Spec => Init /\ [][Next]_vars
  BY PTL DEF Spec
<1> QED
  BY <1>1, InvInit, InvNext, PTL

\* Whatever the timeouts, as long as a send fits into the grace: no delivery that
\* was under way when the drain began is cut off by the exit (cli.go:182, 208-213).
THEOREM DeliveryUnderWayFinishesHolds == Spec => []DeliveryUnderWayFinishes
<1>1. Inv => DeliveryUnderWayFinishes
  <2> SUFFICES ASSUME Inv, NEW c \in Conns, conn[c].at = "cut off", drainFrom # Never
               PROVE  conn[c].due - Send > drainFrom
    BY DEF DeliveryUnderWayFinishes
  <2>1. conn[c].due \in Nat /\ conn[c].due > drainFrom + Send
    BY DEF Inv, Connections, CutLate
  <2>2. drainFrom \in Nat
    BY DEF Inv, Typed, Moments
  <2> QED
    BY <2>1, <2>2, BegunAfter
<1> QED
  BY <1>1, InvHolds, PTL

\* As long as reading a request and a send fit into the write timeout: nobody's
\* answer misses the write deadline, on a connection's first request or a later one
\* (server.go's timeouts against the mailers').
THEOREM AnswersFitHolds == Spec => []AnswersFit
<1>1. Inv => AnswersFit
  BY DEF Inv, Connections, AnswersFit
<1> QED
  BY <1>1, InvHolds, PTL

\* Of a process that was to serve, the exit code is 0 exactly when the signal was
\* taken and the drain cut nobody off; when none was taken, it did not start or its
\* listener failed.  Of a probe, 0 exactly when it heard a 200 (cli.go:130-217).
THEOREM ExitCodeTellsWhyHolds == Spec => []ExitCodeTellsWhy
<1>1. Inv => ExitCodeTellsWhy
  BY DEF Inv, Exits
<1> QED
  BY <1>1, InvHolds, PTL

\* In a command line of any length, of the arguments in Words: with one dash or two,
\* wherever it stands, a healthcheck is no second server unless it is turned off, a
\* version is told, and what is no flag never serves (cli.go:56-86).
THEOREM OldArgumentsStillWorkHolds == Spec => []OldArgumentsStillWork
<1>1. Spec => Init /\ [][Next]_vars
  BY PTL DEF Spec
<1>2. Init => Arguments
  BY DEF Init, Arguments
<1>3. Arguments => OldArgumentsStillWork
  BY DEF Arguments, NothingElse, OldArgumentsStillWork, Asks, OnlyOldFlags
<1> QED
  BY <1>1, <1>2, <1>3, ArgumentsNext, InvHolds, PTL

\* The clock never passes the end of the grace: the safety half of ExitWithinGrace
\* (cli.go:208-213).
THEOREM GraceIsKept == Spec => [](graceBy # Never => now <= graceBy)
<1>1. Inv => (graceBy # Never => now <= graceBy)
  BY DEF Inv, Drain
<1> QED
  BY <1>1, InvHolds, PTL
=============================================================================
