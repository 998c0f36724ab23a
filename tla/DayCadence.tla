------------------------------ MODULE DayCadence ------------------------------
(***************************************************************************)
(* One day, one cadence: what a day's frames are captured at, and who      *)
(* remembers it.  Shared by the HTTP and the RTSP cameras of the capture   *)
(* daemon (DayCadenceMixin, read_cadence, write_cadence, config_cadence).  *)
(***************************************************************************)
EXTENDS Integers

CONSTANTS
  Intervals,      \* the cadences config.json may ask for
  MarkerMayFail   \* TRUE: writing .cadence.json may raise OSError

ASSUME CadenceAssumption ==
  Intervals \subseteq Nat \ {0} /\ MarkerMayFail \in BOOLEAN

VARIABLES
  cfg,      \* the camera's interval in config.json, or Unreadable
  marker    \* .cadence.json of the days that have one: day -> interval

Unreadable == 0   \* config_cadence and load_config cannot use the file

\* A slip begin_day could make: the config before the marker.
CadenceForConfigFirst(d, current) ==
  IF cfg # Unreadable THEN cfg ELSE current

\* begin_day: the marker of a day that has one, else the config as it is on
\* disk now, else what the thread already has.
CadenceFor(d, current) ==
  IF d \in DOMAIN marker THEN marker[d]
  ELSE IF cfg # Unreadable THEN cfg
  ELSE current

\* write_cadence: records the cadence once, never overwrites, never raises.
WriteCadence(d, cadence) ==
  \/ /\ d \in DOMAIN marker
     /\ UNCHANGED marker
  \/ /\ d \notin DOMAIN marker
     /\ marker' = [e \in DOMAIN marker \cup {d} |->
                     IF e = d THEN cadence ELSE marker[e]]
  \/ /\ d \notin DOMAIN marker
     /\ MarkerMayFail
     /\ UNCHANGED marker
===============================================================================
