------------------------------- MODULE MCSetup -------------------------------
(***************************************************************************)
(* What an operator does at a prompt, for TLC: the copies of the           *)
(* configuration file, the file and the daemon that runs on it, the camera *)
(* menu, the service and the graphical wizard.  Only one of the five runs  *)
(* in a behaviour: while copies are counted nothing becomes of the daemon, *)
(* and where it restarts there is one copy at most and the clock stands.   *)
(* The fairness is the service's.                                          *)
(***************************************************************************)
EXTENDS ConfigStore, CameraRoster, ServiceHost, Wizard

VARIABLE part

Parts == {"copies", "restarts", "roster", "service", "wizard"}

Someone == CHOOSE n \in Names : TRUE

MCInit ==
  /\ part \in Parts
  /\ ConfigInit /\ RosterInit /\ ServiceInit /\ WizardInit
  /\ part # "roster" => saved[Someone] = "on"
  /\ part # "wizard" => cams = [s \in Slots |-> NoCam] /\ share = "none"

Rest ==
  /\ UNCHANGED part
  /\ part \notin {"copies", "restarts"} => UNCHANGED configVars
  /\ part # "roster" => UNCHANGED rosterVars
  /\ part # "service" => UNCHANGED serviceVars
  /\ part # "wizard" => UNCHANGED wizardVars

MCNext ==
  \/ part = "copies" /\ ConfigNext /\ UNCHANGED capture /\ Rest
  \/ part = "restarts" /\ ConfigNext /\ UNCHANGED clock /\ Cardinality(backups') <= 1 /\ Rest
  \/ part = "roster" /\ RosterNext /\ Rest
  \/ part = "service" /\ ServiceNext /\ Rest
  \/ part = "wizard" /\ WizardNext /\ Rest

OfService(A) == part = "service" /\ A

MCFairness ==
  /\ WF_serviceVars(OfService(LoadConfig)) /\ WF_serviceVars(OfService(Ready))
  /\ WF_serviceVars(OfService(FailureAction))

MCSpec ==
  /\ MCInit
  /\ [][MCNext]_<<configVars, rosterVars, serviceVars, wizardVars, part>>
  /\ MCFairness
===============================================================================
