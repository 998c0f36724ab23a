------------------------------- MODULE DiskGuard ------------------------------
(***************************************************************************)
(* The disk guard of the capture daemon: the thread that reads the free    *)
(* space of the frames' disk every DISK_CHECK_EVERY seconds and holds all  *)
(* capture through PAUSED below a threshold, until there is a tenth more   *)
(* than that.  Time passes in units in which capture writes at most        *)
(* MaxWritten; the disk's other users and the encoder are external.        *)
(***************************************************************************)
EXTENDS Integers

CONSTANTS
  Capacity,     \* the disk
  Tenth,        \* a tenth of min_free_gb; the guard only runs when it is positive
  CheckEvery,   \* units between two readings
  MaxWritten,   \* what the cameras write in a unit at most
  MaxFailures   \* readings in a row that raise, at most

ASSUME GuardAssumption ==
  /\ Capacity \in Nat /\ Tenth \in Nat \ {0}
  /\ CheckEvery \in Nat \ {0} /\ MaxWritten \in Nat /\ MaxFailures \in Nat

MinFree  == 10 * Tenth   \* the threshold capture is paused below
ResumeAt == 11 * Tenth   \* RESUME_FACTOR times the threshold

VARIABLES
  free,      \* free space of the frames' disk
  guardPaused, \* PAUSED
  wait,      \* what is left of STOP.wait(DISK_CHECK_EVERY)
  failures,  \* readings in a row that raised
  held,      \* history: the free space at the reading that paused capture
  healthy    \* history: some reading found MinFree or more

guardVars == <<free, guardPaused, wait, failures, held, healthy>>

GuardInit ==
  /\ free \in 0..Capacity
  /\ guardPaused = FALSE /\ wait = 0 /\ failures = 0
  /\ held = 0 /\ healthy = FALSE

\* Capture writes, unless it is held.
Capture ==
  /\ wait > 0 /\ wait' = wait - 1
  /\ \E w \in 0..MaxWritten :
       free' = IF guardPaused THEN free ELSE IF w < free THEN free - w ELSE 0
  /\ UNCHANGED <<guardPaused, failures, held, healthy>>

\* The encoder deletes a day, or somebody clears the disk.
MakeRoom ==
  /\ free < Capacity
  /\ free' \in (free + 1)..Capacity
  /\ UNCHANGED <<guardPaused, wait, failures, held, healthy>>

\* Capture resumes a tenth above the threshold it was paused at.
Resumes == free >= ResumeAt

\* What any reading does besides its verdict.
Reading ==
  /\ wait = 0 /\ wait' = CheckEvery
  /\ failures' = 0
  /\ held' = IF guardPaused' /\ ~guardPaused THEN free ELSE held
  /\ healthy' = (healthy \/ free >= MinFree)
  /\ UNCHANGED free

\* A slip: a pause at half the threshold.
CheckHalfway ==
  /\ guardPaused' = IF guardPaused THEN ~Resumes ELSE 2 * free < MinFree
  /\ Reading

\* check_once, then the wait for the next.
Check ==
  /\ guardPaused' = IF guardPaused THEN ~Resumes ELSE free < MinFree
  /\ Reading

\* disk_usage raises: capture goes on, or stays held, as it was.
CheckFails ==
  /\ wait = 0 /\ wait' = CheckEvery
  /\ failures < MaxFailures /\ failures' = failures + 1
  /\ UNCHANGED <<free, guardPaused, held, healthy>>

GuardNext == Capture \/ MakeRoom \/ Check \/ CheckFails

GuardSpec == GuardInit /\ [][GuardNext]_guardVars

\* The loop's wait ends, and a reading does not raise for ever.
GuardFairSpec == GuardSpec /\ WF_guardVars(Capture) /\ WF_guardVars(Check)

-------------------------------------------------------------------------------
(* Properties.                                                             *)

\* The type invariant; a held capture was below the threshold when paused.
GuardTypeOK ==
  /\ free \in 0..Capacity /\ held \in 0..Capacity
  /\ guardPaused \in BOOLEAN /\ healthy \in BOOLEAN
  /\ wait \in 0..CheckEvery /\ failures \in 0..MaxFailures
  /\ guardPaused => held < MinFree

\* How long the last reading that succeeded is ago.
ReadingsBefore == failures * CheckEvery + (CheckEvery - wait)

\* The disk is not filled: once a reading found the threshold, capture leaves
\* all of it but what is written between two readings, or between the more of
\* them that raised.  As far as capture's own writing goes.
ReserveKept ==
  healthy => free + MaxWritten * CheckEvery * (MaxFailures + 1) >= MinFree

\* The inductive form: what a running capture may have written by now, and
\* what a held one had been left with.
ReserveInv ==
  /\ healthy /\ ~guardPaused => free + MaxWritten * ReadingsBefore >= MinFree
  /\ healthy /\ guardPaused =>
       free + MaxWritten * CheckEvery * (MaxFailures + 1) >= MinFree

\* "Hysteresis, so it can't flap": capture resumes only after over a tenth of the
\* threshold was freed since the reading that paused it.
NoFlapping ==
  [][guardPaused /\ ~guardPaused' => free' - held > Tenth]_guardVars

\* Room made for good is used again.
CaptureResumes == <>[]Resumes => <>[](~guardPaused)
===============================================================================
