----------------------------- MODULE AuthBackoff ------------------------------
(***************************************************************************)
(* The authentication back-off of one HTTP camera of the capture daemon:   *)
(* the incident a failing tick belongs to (_note_failure, _end_incident),  *)
(* the ladder of refusals (_advance_auth_ladder) and the fetches it        *)
(* withholds (the quiet guard of run).  Time passes in ticks of the loop;  *)
(* the deadline auth_quiet_until is kept as its distance from the wall     *)
(* clock, because that is all the code compares, and so that a step of     *)
(* the wall clock can be told apart from the passing of time.              *)
(***************************************************************************)
EXTENDS Integers, FiniteSets

CONSTANTS
  OtherClasses,  \* the classes of failure that are no refusal
  AuthStrikes,   \* consecutive refusals before withholding fetches (2)
  AuthPause,     \* the first silence, in ticks (600 s)
  AuthRetry,     \* the silence between attempts from then on (1860 s)
  Lockout,       \* external: the camera's lockout window (30 minutes)
  StepSize,      \* how far one step sets the wall clock, back or forward
  MaxSteps       \* bound: how often it is stepped

ASSUME BackoffAssumption ==
  /\ OtherClasses \cap {"ok", "auth", "none"} = {}
  /\ AuthStrikes \in Nat \ {0}
  /\ AuthPause \in Nat \ {0} /\ AuthRetry \in Nat \ {0}
  /\ AuthPause <= AuthRetry
  /\ Lockout \in Nat /\ Lockout <= AuthRetry
  /\ StepSize \in Nat /\ MaxSteps \in Nat

NoError == "none"
Classes == {"auth"} \cup OtherClasses   \* what classify() answers

VARIABLES
  camera,       \* external: what a fetch would meet now: "ok" or a class
  up,           \* the daemon is running
  paused,       \* PAUSED
  errClass,     \* self.err_class
  errTicks,     \* self.err_ticks, counted up to AuthStrikes
  backedOff,    \* self.auth_backed_off
  confirmed,    \* self.auth_confirmed
  quiet,        \* self.auth_quiet_until - now; LongPast when it is 0.0
  steps,        \* how often the wall clock was stepped
  refusals,     \* history: ages of this incident's refusals, to AuthRetry
  silence       \* history: ticks since the last fetch that nothing but the
                \* back-off withheld, up to SilenceCap

ladder  == <<errClass, errTicks, backedOff, confirmed, quiet>>
history == <<refusals, silence>>
vars    == <<camera, up, paused, ladder, steps, history>>

\* As far in the past as any step back can reach: a deadline that is over.
LongPast == -(StepSize * MaxSteps)

\* More than any silence: the longest one, put off by every step back.
SilenceCap == AuthRetry - LongPast

Lesser(a, b)  == IF a <= b THEN a ELSE b
Greater(a, b) == IF a >= b THEN a ELSE b

-------------------------------------------------------------------------------

\* _end_incident, and the state of a thread just made.
Cleared ==
  /\ errClass' = NoError /\ errTicks' = 0
  /\ backedOff' = FALSE /\ confirmed' = FALSE /\ quiet' = LongPast

Init ==
  /\ camera \in Classes \cup {"ok"}
  /\ up = FALSE /\ paused = FALSE
  /\ errClass = NoError /\ errTicks = 0
  /\ backedOff = FALSE /\ confirmed = FALSE /\ quiet = LongPast
  /\ steps = 0 /\ refusals = {} /\ silence = 0

\* The camera starts or stops refusing, answering, being reachable.
CameraChanges ==
  /\ \E c \in (Classes \cup {"ok"}) \ {camera} : camera' = c
  /\ UNCHANGED <<up, paused, ladder, steps, history>>

TogglePause ==
  /\ paused' = ~paused
  /\ UNCHANGED <<camera, up, ladder, steps, history>>

\* A fresh process knows nothing about the camera.
StartDaemon ==
  /\ ~up /\ up' = TRUE
  /\ Cleared
  /\ refusals' = {} /\ silence' = 0
  /\ UNCHANGED <<camera, paused, steps>>

StopDaemon ==
  /\ up /\ up' = FALSE
  /\ UNCHANGED <<camera, paused, ladder, steps, history>>

\* The wall clock is stepped: a deadline kept as wall-clock time moves with it.
StepClock ==
  /\ steps < MaxSteps /\ steps' = steps + 1
  /\ \E d \in {StepSize, -StepSize} : quiet' = Greater(quiet + d, LongPast)
  /\ UNCHANGED <<camera, up, paused, errClass, errTicks, backedOff, confirmed,
                 history>>

-------------------------------------------------------------------------------
(* A tick of the loop, `left` being how far the deadline still lies ahead. *)

Left == Greater(quiet - 1, LongPast)
Aged == {a + 1 : a \in {b \in refusals : b < AuthRetry}}

\* _end_incident's effect on a tick that succeeded.
Succeed ==
  /\ camera = "ok"
  /\ Cleared
  /\ refusals' = {}

\* A slip: a confirmed refusal does not start a new silence.
ClimbUnsilenced(wasBackedOff, wasConfirmed, ticks, left) ==
  IF wasConfirmed
  THEN backedOff' = TRUE /\ confirmed' = TRUE /\ quiet' = left
  ELSE IF ticks >= AuthStrikes
  THEN backedOff' = TRUE /\ confirmed' = wasBackedOff /\ quiet' = AuthPause
  ELSE backedOff' = FALSE /\ confirmed' = FALSE /\ quiet' = left

\* _advance_auth_ladder: AuthStrikes refusals in a row start the pause, a
\* refusal after the pause confirms, and a confirmed one is silent for longer.
Climb(wasBackedOff, wasConfirmed, ticks, left) ==
  IF wasConfirmed \/ wasBackedOff
  THEN backedOff' = wasBackedOff /\ confirmed' = TRUE /\ quiet' = AuthRetry
  ELSE IF ticks >= AuthStrikes
  THEN backedOff' = TRUE /\ confirmed' = FALSE /\ quiet' = AuthPause
  ELSE backedOff' = FALSE /\ confirmed' = FALSE /\ quiet' = left

\* _note_failure within an incident: one more failed tick of its class.
FailAgain ==
  LET ticks == Lesser(errTicks + 1, AuthStrikes)
  IN  /\ camera = errClass
      /\ errTicks' = ticks
      /\ IF camera = "auth"
         THEN /\ Climb(backedOff, confirmed, ticks, Left)
              /\ refusals' = Aged \cup {0}
         ELSE /\ quiet' = Left /\ refusals' = Aged
              /\ UNCHANGED <<backedOff, confirmed>>
      /\ UNCHANGED errClass

\* _note_failure on a change of class: _end_incident, then a new incident.
FailAnew ==
  /\ camera \notin {errClass, "ok"}
  /\ errClass' = camera /\ errTicks' = 1
  /\ IF camera = "auth"
     THEN Climb(FALSE, FALSE, 1, LongPast) /\ refusals' = {0}
     ELSE /\ backedOff' = FALSE /\ confirmed' = FALSE /\ quiet' = LongPast
          /\ refusals' = {}

\* A tick that fetches: neither PAUSED nor the back-off withholds it.
Attempt ==
  /\ up /\ ~paused /\ Left <= 0
  /\ Succeed \/ FailAgain \/ FailAnew
  /\ silence' = 0
  /\ UNCHANGED <<camera, up, paused, steps>>

\* A slip: every tick the back-off withholds starts its silence again.
WithholdRenewing ==
  /\ up /\ (paused \/ Left > 0)
  /\ quiet' = IF Left > 0 THEN AuthRetry ELSE Left
  /\ refusals' = Aged
  /\ silence' = IF paused THEN 0 ELSE Lesser(silence + 1, SilenceCap)
  /\ UNCHANGED <<camera, up, paused, errClass, errTicks, backedOff, confirmed,
                 steps>>

\* A tick that does not fetch.
Withhold ==
  /\ up /\ (paused \/ Left > 0)
  /\ quiet' = Left
  /\ refusals' = Aged
  /\ silence' = IF paused THEN 0 ELSE Lesser(silence + 1, SilenceCap)
  /\ UNCHANGED <<camera, up, paused, errClass, errTicks, backedOff, confirmed,
                 steps>>

Tick == Attempt \/ Withhold

Next ==
  \/ CameraChanges \/ TogglePause \/ StartDaemon \/ StopDaemon
  \/ StepClock \/ Attempt \/ Withhold

Spec == Init /\ [][Next]_vars

\* The loop of a running thread always reaches its next tick, and systemd or
\* the service manager brings a stopped daemon back.
FairSpec == Spec /\ WF_vars(Tick) /\ WF_vars(StartDaemon)

-------------------------------------------------------------------------------
(* Properties.                                                             *)

\* The type invariant: the strikes never exceed the ladder, a refusal older than
\* the back-off is forgotten and the silence measured is bounded.
TypeOK ==
  /\ camera \in Classes \cup {"ok"}
  /\ up \in BOOLEAN /\ paused \in BOOLEAN
  /\ errClass \in Classes \cup {NoError}
  /\ errTicks \in 0..AuthStrikes
  /\ backedOff \in BOOLEAN /\ confirmed \in BOOLEAN
  /\ quiet \in Int /\ steps \in 0..MaxSteps
  /\ refusals \subseteq 0..AuthRetry
  /\ silence \in 0..SilenceCap

RecentRefusals == {a \in refusals : a < Lockout}

\* The ladder is climbed by refusals alone: a pause takes AuthStrikes failed
\* ticks in a row that are all refusals, and a fetch is only ever withheld by
\* the back-off of the incident under way (_end_incident, _note_failure).
LadderInv ==
  /\ confirmed => backedOff
  /\ backedOff => errClass = "auth" /\ errTicks >= AuthStrikes
  /\ steps = 0 /\ ~backedOff => quiet <= 0
  /\ refusals # {} => errClass = "auth"

\* While nobody steps the clock, every refusal of the incident and what is left
\* of the silence after it make up the whole silence of its rung.
PacingInv ==
  steps = 0 =>
    /\ backedOff /\ ~confirmed => \A a \in refusals : a + quiet >= AuthPause
    /\ confirmed => \A a \in refusals : a + quiet >= AuthRetry

\* The lockout a camera applies to N refusals in a window is approached by
\* AuthStrikes + 1 of them in one incident, and one more for each clock step.
NoHammering == Cardinality(RecentRefusals) <= AuthStrikes + 1 + steps

\* "A single attempt every 31 will never reach the N failures inside a
\* window": once the refusal is confirmed, each further one is alone in it.
AttemptsStandAlone ==
  [][Attempt /\ confirmed /\ confirmed' /\ steps = 0
       => RecentRefusals' \subseteq {0}]_vars

\* A refusal is confirmed only by one the whole pause after the one before,
\* "two different moments in the camera's life" (_advance_auth_ladder).
ConfirmedAcrossPause ==
  [][Attempt /\ ~confirmed /\ confirmed' /\ steps = 0
       => \A a \in refusals' : a = 0 \/ a >= AuthPause]_vars

\* The back-off withholds fetches for less than AuthRetry at a time, "one attempt
\* every 31 minutes, for ever", and for longer only by what the clock, on which
\* the deadline is kept, was set back meanwhile (run, _advance_auth_ladder).
SilenceBounded == silence < AuthRetry + steps * StepSize

\* Its inductive form: the silence so far and what is left of it.
SilenceInv == SilenceBounded /\ silence + quiet <= AuthRetry + steps * StepSize

\* A camera that answers again for good is a camera without an incident again,
\* whatever rung its last one had reached.
Recovers ==
  <>[](camera = "ok" /\ ~paused) => <>[](errClass = NoError)
===============================================================================
