------------------------------- MODULE MCNightly ------------------------------
(***************************************************************************)
(* What a night leaves behind, for TLC: in one behaviour the delivery of   *)
(* two videos, encoded twice in all, and in another the history of the     *)
(* runs over two days of two cameras.  One length is enough for a part of  *)
(* a video (length 0) and for a video re-encoded to the length of the one  *)
(* it replaces.                                                            *)
(***************************************************************************)
EXTENDS Delivery, RunHistory, TLC

VARIABLE subject

\* Bound: of how many camera-days the record may be gone.
MaxLost == 2

\* No action tells the videos apart, nor the cameras.
AnyVideoOrCamera == Permutations(Videos) \cup Permutations(AllCameras)

\* The settings are varied one at a time where they do not meet: a video that is
\* kept, or a share that takes no times, with the rest as it usually is.
MCWorld ==
  /\ world.delete \/ world.stat
  /\ world.os = "linux" => world.accepts = 1..3 \/ (world.delete /\ world.stat)
  /\ probe # "none" => world.delete /\ world.stat /\ world.creds = "write"
  /\ world.os = "windows" => (world.token /\ world.creds = "write") \/ (world.delete /\ world.stat)

MCInit ==
  /\ subject \in {"delivery", "history"}
  /\ DeliveryInit /\ HistoryInit
  /\ subject = "delivery" => listed = {} /\ MCWorld
  /\ subject = "history" =>
       /\ world = [os |-> "windows", delete |-> TRUE, stat |-> TRUE, token |-> TRUE,
                   creds |-> "write", other |-> TRUE]
       /\ probe = "none"

MCNext ==
  /\ UNCHANGED subject
  /\ \/ subject = "delivery" /\ DeliveryNext /\ UNCHANGED historyVars
     \/ /\ subject = "history" /\ HistoryNext /\ UNCHANGED vars
        /\ Cardinality(lost') <= MaxLost

MCSpec == MCInit /\ [][MCNext]_<<vars, historyVars, subject>>
===============================================================================
