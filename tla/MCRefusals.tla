------------------------------ MODULE MCRefusals ------------------------------
(***************************************************************************)
(* A camera's refusals for TLC.  In one behaviour the wall clock is        *)
(* stepped and the watch does not look; in another the watch runs.         *)
(***************************************************************************)
EXTENDS CredentialWatch

VARIABLE watched

MCInit == WInit /\ watched \in BOOLEAN

MCNext ==
  /\ UNCHANGED watched
  /\ \/ watched /\ WNext /\ UNCHANGED steps
     \/ /\ ~watched /\ Next
        /\ UNCHANGED <<upsets, incident, files, known, unsaved, losses, told, proven>>

MCSpec ==
  /\ MCInit /\ [][MCNext]_<<wvars, watched>>
  /\ WF_vars(~watched /\ Tick) /\ WF_vars(~watched /\ StartDaemon)
  /\ WF_wvars(watched /\ DaemonStep /\ Tick)
  /\ WF_wvars(watched /\ DaemonStep /\ StartDaemon)
  /\ WF_wvars(watched /\ WriteState) /\ WF_wvars(watched /\ Save)
  /\ SF_wvars(watched /\ Alarm) /\ SF_wvars(watched /\ AllClear)

\* Where the watch runs, a refusal for good is reported in the end.
ToldInTheEnd == watched => EventuallyTold
===============================================================================
