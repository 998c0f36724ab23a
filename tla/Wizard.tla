------------------------------- MODULE Wizard -------------------------------
(***************************************************************************)
(* The graphical wizard, timelapse_gui.py: five pages over one draft of    *)
(* the configuration, in one thread.  Modelled are the camera page, whose  *)
(* pane edits a copy of the selected entry while Save, Test, Next and a    *)
(* click elsewhere read or write the entry itself; the destination page;   *)
(* and the way between them.  An address with its credentials is a key; a  *)
(* picture size the Test found is part of the address.                     *)
(***************************************************************************)
EXTENDS Integers, FiniteSets

CONSTANTS Slots,     \* cameras there can be
          MaxTyping, \* bound: boxes changed
          MaxAdds    \* bound: cameras added

ASSUME WizardAssumption == MaxTyping \in Nat /\ MaxAdds \in Nat

VARIABLES page,    \* "before", "cameras", "share", "after" or "written"
          cams,    \* Slots -> the draft's entry, or NoCam
          sel,     \* state["cam"]: the slot in the pane, or "none"
          form,    \* what the pane's boxes hold
          loaded,  \* what they held when they were filled
          proven,  \* keys that need not be asked again
          share,   \* the draft's share account: "none", "good" or "bad"
          typed,   \* what the share's boxes hold
          tested,  \* what the last passing Test put to the share
          typing, adds,
          answered,\* history: keys the camera answered, or that were skipped
          refused, \* history: Slots -> refusals met by Next since last changed
          accepted,\* history: accounts the share let in
          warned   \* history: stored although nothing had tested it

wizardVars == <<page, cams, sel, form, loaded, proven, share, typed, tested,
                typing, adds, answered, refused, accepted, warned>>

\* cred: an address with no account, a wrong one, the right one
Creds == {"blank", "wrong", "right"}
NoCam == [named |-> FALSE, cred |-> "blank", stream |-> 0, enabled |-> FALSE]
Fresh == [named |-> FALSE, cred |-> "blank", stream |-> 0, enabled |-> TRUE]
Scanned == [Fresh EXCEPT !.named = TRUE]

Listed == {s \in Slots : cams[s] # NoCam}

(* proof_key: the address and the credentials.                             *)
Key(s, c) == <<s, c.cred, c.stream>>

(* form_is_dirty                                                           *)
Dirty == sel # "none" /\ form # loaded

WizardInit ==
    /\ page = "before"
    /\ cams \in [Slots -> {NoCam, [Scanned EXCEPT !.cred = "right"],
                           [Scanned EXCEPT !.cred = "wrong"]}]
    /\ sel = "none" /\ form = NoCam /\ loaded = NoCam
    /\ proven = {} /\ answered = {}
    /\ share \in {"none", "good"} /\ typed = share /\ tested = "none"
    /\ typing = 0 /\ adds = 0
    /\ refused = [s \in Slots |-> 0] /\ accepted = {} /\ warned = FALSE

----------------------------------------------------------------------------
(* show_camera, fill: the boxes are filled from the entry.                 *)
ShowCamera(list, s) ==
    /\ sel' = s
    /\ form' = IF s = "none" THEN NoCam ELSE list[s]
    /\ loaded' = form'

(* The page is built anew, or the entry shown was removed.                 *)
ShowFirst(list) ==
    LET rows == {s \in Slots : list[s] # NoCam}
    IN  ShowCamera(list, IF rows = {} THEN "none" ELSE CHOOSE s \in rows : TRUE)

(* save, build_camera: a camera without a name is refused, any other       *)
(* replaces the entry in place.                                            *)
Builds == form.named
Stored == [cams EXCEPT ![sel] = form]

(* An entry nobody ever named goes with what was typed into it.            *)
Discarded == IF cams[sel].named THEN cams ELSE [cams EXCEPT ![sel] = NoCam]

(* leave_current: what the draft may be once the pane has been left.       *)
LeaveCurrent ==
    IF ~Dirty THEN {cams} ELSE {Discarded} \cup (IF Builds THEN {Stored} ELSE {})

\* A camera whose entry the operator changed may be asked once more.
Touched(list) ==
    refused' = [s \in Slots |-> IF list[s] = cams[s] THEN refused[s] ELSE 0]

----------------------------------------------------------------------------
(* The camera page.                                                        *)
Type ==
    /\ page = "cameras" /\ sel # "none" /\ typing < MaxTyping
    /\ typing' = typing + 1
    /\ \/ ~form.named /\ form' = [form EXCEPT !.named = TRUE]
       \/ \E c \in Creds \ {form.cred} : form' = [form EXCEPT !.cred = c]
       \/ form' = [form EXCEPT !.enabled = ~@]
    /\ UNCHANGED <<page, cams, sel, loaded, proven, share, typed, tested, adds,
                   answered, refused, accepted, warned>>

Save ==
    /\ page = "cameras" /\ sel # "none" /\ Builds
    /\ cams' = Stored /\ loaded' = form
    /\ refused' = [refused EXCEPT ![sel] = 0]
    /\ UNCHANGED <<page, sel, form, proven, share, typed, tested, typing, adds,
                   answered, accepted, warned>>

(* Slip: what is proved is the camera, whatever account was put to it.     *)
ProvedCamera(s, c) == {s} \X Creds \X {0, 1}

Proved(s, c) == {Key(s, c)}

(* test: one frame with what the boxes hold, saved or not.  When it comes, *)
(* the other sizes are measured and the best goes into the boxes; refused, *)
(* unreachable and skipped leave everything as it is.                      *)
Test ==
    /\ page = "cameras" /\ sel # "none" /\ form.cred = "right"
    /\ \E s \in {form.stream, 1} : form' = [form EXCEPT !.stream = s]
    /\ answered' = answered \cup {Key(sel, form')}
    /\ proven' = proven \cup Proved(sel, form')
    /\ UNCHANGED <<page, cams, sel, loaded, share, typed, tested, typing, adds,
                   refused, accepted, warned>>

Select(s) ==
    /\ page = "cameras" /\ s \in Listed \ {sel}
    /\ cams' \in LeaveCurrent
    /\ ShowCamera(cams', s) /\ Touched(cams')
    /\ UNCHANGED <<page, proven, share, typed, tested, typing, adds, answered,
                   accepted, warned>>

(* Add appends an empty entry and selects it; a scan appends cameras with  *)
(* an address and no account, and selects the first.                       *)
AddRow(s, new) ==
    /\ page = "cameras" /\ adds < MaxAdds /\ adds' = adds + 1
    /\ s \notin Listed
    /\ \E list \in LeaveCurrent : cams' = [list EXCEPT ![s] = new]
    /\ ShowCamera(cams', s) /\ Touched(cams')
    /\ UNCHANGED <<page, proven, share, typed, tested, typing, answered,
                   accepted, warned>>

Remove ==
    /\ page = "cameras" /\ sel # "none"
    /\ cams' = [cams EXCEPT ![sel] = NoCam]
    /\ ShowFirst(cams') /\ Touched(cams')
    /\ UNCHANGED <<page, proven, share, typed, tested, typing, adds, answered,
                   accepted, warned>>

----------------------------------------------------------------------------
(* Next on the camera page.                                                *)
EnabledIn(list) == {s \in Slots : list[s].enabled}

(* camera_not_ready: no account where the make wants one.                  *)
Unready(list) == {s \in EnabledIn(list) : list[s].cred = "blank"}

Asked(list) == {s \in EnabledIn(list) \ Unready(list) : Key(s, list[s]) \notin proven}

MayGoOn(list) ==
    /\ EnabledIn(list) # {}
    /\ \A s \in Slots : list[s] # NoCam => list[s].named

(* What fails is switched off, so that the next Next does not ask it again. *)
SwitchedOff(list, failed) ==
    [s \in Slots |-> IF s \in failed THEN [list[s] EXCEPT !.enabled = FALSE]
                     ELSE list[s]]

(* The pane may show one of those that were switched off.                  *)
PaneRefilled(list) ==
    IF list[sel] = NoCam THEN UNCHANGED <<form, loaded>> /\ sel' = "none"
    ELSE ShowCamera(list, sel)

(* Each enabled camera that has not answered before is asked once.  Any    *)
(* may be unreachable, a wrong account is refused, and a fetch that could  *)
(* not be made at all counts as an answer.                                 *)
AskCameras(list) ==
    \E fine \in SUBSET Asked(list) :
       LET failed == (Asked(list) \ fine) \cup Unready(list)
           keys   == {Key(s, list[s]) : s \in fine}
       IN  /\ \/ \A s \in fine : list[s].cred = "right"
              \/ fine = Asked(list)
           /\ proven' = proven \cup keys /\ answered' = answered \cup keys
           /\ cams' = SwitchedOff(list, failed)
           /\ refused' = [s \in Slots |->
                (IF list[s] = cams[s] THEN refused[s] ELSE 0)
                + (IF s \in Asked(list) \ fine THEN 1 ELSE 0)]
           /\ IF failed # {} /\ EnabledIn(cams') = {}
              THEN UNCHANGED page /\ PaneRefilled(cams')
              ELSE page' = "share" /\ ShowCamera(cams', "none")

NextFromCameras ==
    /\ page = "cameras"
    /\ \E list \in LeaveCurrent : MayGoOn(list) /\ AskCameras(list)
    /\ typed' = share /\ tested' = "none"
    /\ UNCHANGED <<share, typing, adds, accepted, warned>>

(* An entry without a name, or nothing enabled.  The pane has been left    *)
(* all the same, and is not filled again.                                  *)
NextRefused ==
    /\ page = "cameras"
    /\ cams' \in LeaveCurrent /\ ~MayGoOn(cams') /\ Touched(cams')
    /\ sel' = (IF sel # "none" /\ cams'[sel] = NoCam THEN "none" ELSE sel)
    /\ loaded' = (IF Dirty /\ cams' = Stored THEN form ELSE loaded)
    /\ UNCHANGED <<page, form, proven, share, typed, tested, typing, adds,
                   answered, accepted, warned>>

----------------------------------------------------------------------------
(* The destination page.                                                   *)
TypeShare ==
    /\ page = "share" /\ typing < MaxTyping /\ typing' = typing + 1
    /\ typed' \in {"none", "good", "bad"} \ {typed}
    /\ UNCHANGED <<page, cams, sel, form, loaded, proven, share, tested, adds,
                   answered, refused, accepted, warned>>

(* check_share_access: the account itself is put to the share.             *)
TestShare ==
    /\ page = "share" /\ typed = "good"
    /\ tested' = typed /\ accepted' = accepted \cup {typed}
    /\ UNCHANGED <<page, cams, sel, form, loaded, proven, share, typed, typing,
                   adds, answered, refused, warned>>

(* What the last passing Test put to the share is what would be stored.    *)
TestedAsTyped == tested = typed

(* commit: an account that was not tested is warned of, never refused.     *)
NextFromShare ==
    /\ page = "share" /\ page' = "after" /\ share' = typed
    /\ warned' = (typed # "none" /\ ~TestedAsTyped)
    /\ UNCHANGED <<cams, sel, form, loaded, proven, typed, tested, typing, adds,
                   answered, refused, accepted>>

----------------------------------------------------------------------------
(* go_next, go_back: every page is built from the draft.  Back asks        *)
(* nothing, and a pane that is dirty is gone.                              *)
NextFromBasics ==
    /\ page = "before" /\ page' = "cameras" /\ ShowFirst(cams)
    /\ UNCHANGED <<cams, proven, share, typed, tested, typing, adds, answered,
                   refused, accepted, warned>>

Back ==
    /\ \/ page = "cameras" /\ page' = "before" /\ ShowCamera(cams, "none")
          /\ UNCHANGED <<typed, tested>>
       \/ page = "share" /\ page' = "cameras" /\ ShowFirst(cams)
          /\ UNCHANGED <<typed, tested>>
       \/ page = "after" /\ page' = "share" /\ typed' = share /\ tested' = "none"
          /\ UNCHANGED <<sel, form, loaded>>
    /\ UNCHANGED <<cams, proven, share, typing, adds, answered, refused, accepted,
                   warned>>

(* finish, once preflight has nothing to say.                              *)
Finish ==
    /\ page = "after" /\ EnabledIn(cams) # {} /\ page' = "written"
    /\ UNCHANGED <<cams, sel, form, loaded, proven, share, typed, tested, typing,
                   adds, answered, refused, accepted, warned>>

OnCameras == \/ Type \/ Save \/ Test \/ Remove \/ NextFromCameras \/ NextRefused
             \/ \E s \in Slots : Select(s) \/ AddRow(s, Fresh) \/ AddRow(s, Scanned)

WizardNext == \/ OnCameras \/ TypeShare \/ TestShare \/ NextFromShare
              \/ NextFromBasics \/ Back \/ Finish

WizardSpec == WizardInit /\ [][WizardNext]_wizardVars

----------------------------------------------------------------------------
(* Beyond the camera page every camera the configuration would capture     *)
(* from has answered at the address and with the account it is stored      *)
(* with, or could not be asked for want of a tool: whatever was tested     *)
(* before it was saved, saved after it was tested, discarded, switched off *)
(* or changed on a second visit.                                           *)
EnabledIsProven ==
    page \in {"share", "after", "written"} =>
      \A s \in EnabledIn(cams) : Key(s, cams[s]) \in answered

(* commit's comment: a second Next does not authenticate "against the      *)
(* whole fleet again".  Between two changes of its entry no camera meets   *)
(* more than one failed sign-in from Next.                                 *)
NextSignsInOnce == \A s \in Slots : refused[s] <= 1

(* A pane that asks nothing before it is left shows its camera as the      *)
(* draft has it, whoever changed the entry: Save cannot bring back what    *)
(* Next switched off.                                                      *)
PaneIsStored == page = "cameras" /\ sel # "none" /\ ~Dirty => form = cams[sel]

(* The account in the configuration is one the share accepted, or one the  *)
(* operator was warned of.                                                 *)
StoredShareTested ==
    page \in {"after", "written"} => share \in accepted \cup {"none"} \/ warned
=============================================================================
