--------------------------------- MODULE MCWeb --------------------------------
(***************************************************************************)
(* The web UI for TLC.  Its parts share no state, so one behaviour has one *)
(* of them: the update checker, `timelapse update`, the login, a video     *)
(* that is played, the overview, or the table of services on it.           *)
(***************************************************************************)
EXTENDS Updates, Sessions, VideoServing, StatusPage

VARIABLE part

MCInit ==
  /\ part \in {"checker", "command", "login", "video", "overview", "services"}
  /\ UpdatesInit /\ SessionsInit /\ VideoInit /\ StatusInit
  /\ part # "login" => login = "none"
  /\ part # "video" => file.size = 1
  /\ part # "overview" => answers

\* Only the parts named take a step.
Rest(p) ==
  /\ UNCHANGED part
  /\ p \notin {"checker", "command"} => UNCHANGED updateVars
  /\ p # "login" => UNCHANGED sessionVars
  /\ p # "video" => UNCHANGED videoVars
  /\ p \notin {"overview", "services"} => UNCHANGED statusVars

MCNext ==
  \/ part = "checker" /\ UpdatesNext /\ UNCHANGED cli /\ Rest(part)
  \/ part = "command" /\ UpdatesNext /\ UNCHANGED web /\ Rest(part)
  \/ part = "login" /\ SessionsNext /\ Rest(part)
  \/ part = "video" /\ VideoNext /\ Rest(part)
  \/ part = "overview" /\ StatusNext /\ UNCHANGED <<unit, shown>> /\ Rest(part)
  \/ part = "services" /\ StatusNext /\ UNCHANGED camera /\ Rest(part)

MCSpec ==
  /\ MCInit /\ [][MCNext]_<<updateVars, sessionVars, videoVars, statusVars, part>>
  /\ UpdatesFairness
===============================================================================
