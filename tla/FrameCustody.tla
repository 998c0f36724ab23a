----------------------------- MODULE FrameCustody -----------------------------
(***************************************************************************)
(* What the encoder promises about the frames it is trusted with, without  *)
(* saying how: whatever was captured of a day stays, as a file or in a     *)
(* video, and a day that was released (its frames are gone) is complete.   *)
(* Nothing is promised of a day once it was disturbed, and that one day is *)
(* disturbed is nothing to the others.  EncodeRun is shown to implement    *)
(* it, and says what disturbs a day.                                       *)
(***************************************************************************)
CONSTANTS
  Jobs,     \* the camera-days
  Frames    \* the frames a camera-day may have

VARIABLES
  kept,      \* the frames of each camera-day that still exist, in any form
  released,  \* the camera-days whose frames exist in a video only
  disturbed  \* the camera-days of which nothing is promised any more

Init ==
  /\ kept = [j \in Jobs |-> {}]
  /\ released = {} /\ disturbed = {}

\* A frame of the day is captured, unless the day has been released.
Keep(j) ==
  /\ j \notin released /\ j \notin released'
  /\ \E f \in Frames : kept'[j] = kept[j] \cup {f}

\* The day's frames are given up: everything it had is in its video.
Release(j) ==
  /\ j \notin released /\ j \in released'
  /\ kept'[j] = kept[j]

Same(j) == kept'[j] = kept[j] /\ (j \in released' <=> j \in released)

Next ==
  /\ disturbed \subseteq disturbed'
  /\ \A j \in Jobs \ disturbed' : Keep(j) \/ Release(j) \/ Same(j)

Spec == Init /\ [][Next]_<<kept, released, disturbed>>
===============================================================================
