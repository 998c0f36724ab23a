------------------------------ MODULE SetupProofs ------------------------------
(***************************************************************************)
(* What the graphical wizard, the camera menu, the configuration file and  *)
(* the service behind them promise, for any number of cameras, sessions,   *)
(* days, edits, jobs and faults.                                           *)
(***************************************************************************)
EXTENDS ConfigStore, CameraRoster, ServiceHost, Wizard, FiniteSetTheorems, SequenceTheorems, TLAPS

-------------------------------------------------------------------------------
(* The wizard.  Camera entries are records whichever way they are made.    *)
Entries == [named : BOOLEAN, cred : Creds, stream : {0, 1}, enabled : BOOLEAN]

WizardTypeOK ==
  /\ cams \in [Slots -> Entries] /\ form \in Entries /\ loaded \in Entries
  /\ sel \in Slots \cup {"none"}
  /\ refused \in [Slots -> {0, 1}]

\* What the pane was filled with is what the draft has.
PaneInv == page = "cameras" /\ sel # "none" => loaded = cams[sel]

\* A camera that refused Next is off until its entry changes.
RefusedIsOff == \A s \in Slots : refused[s] = 1 => ~cams[s].enabled

ProvenAnswered == proven \subseteq answered

ShareInv == tested \in accepted \cup {"none"} /\ StoredShareTested

WizardInv ==
  /\ WizardTypeOK /\ PaneInv /\ RefusedIsOff /\ ProvenAnswered
  /\ EnabledIsProven /\ ShareInv

LEMMA EntriesTyped == NoCam \in Entries /\ Fresh \in Entries /\ Scanned \in Entries
<1>1. NoCam \in Entries /\ Fresh \in Entries
  BY DEF Entries, NoCam, Fresh, Creds
<1>2. Scanned \in Entries
  BY <1>1 DEF Scanned, Entries
<1> QED
  BY <1>1, <1>2

\* However the pane is left, the draft stays a draft, and only the entry in the pane
\* changes.
LEMMA LeavingKeepsTypes ==
  ASSUME WizardTypeOK, NEW list \in LeaveCurrent
  PROVE  /\ list \in [Slots -> Entries]
         /\ list = cams \/ list = Stored \/ list = [cams EXCEPT ![sel] = NoCam]
<1>1. list = cams \/ list = Stored \/ list = [cams EXCEPT ![sel] = NoCam]
  BY DEF LeaveCurrent, Discarded
<1>2. Stored \in [Slots -> Entries] /\ [cams EXCEPT ![sel] = NoCam] \in [Slots -> Entries]
  BY EntriesTyped DEF WizardTypeOK, Stored
<1> QED
  BY <1>1, <1>2 DEF WizardTypeOK

\* A pane that is filled holds what the draft has.
LEMMA ShownAsStored ==
  ASSUME NEW list \in [Slots -> Entries], NEW s \in Slots \cup {"none"}, ShowCamera(list, s)
  PROVE  /\ sel' \in Slots \cup {"none"} /\ form' \in Entries /\ loaded' \in Entries
         /\ sel' # "none" => loaded' = list[sel']
BY EntriesTyped DEF ShowCamera

LEMMA FirstAsStored ==
  ASSUME NEW list \in [Slots -> Entries], ShowFirst(list)
  PROVE  /\ sel' \in Slots \cup {"none"} /\ form' \in Entries /\ loaded' \in Entries
         /\ sel' # "none" => loaded' = list[sel']
<1> DEFINE rows == {s \in Slots : list[s] # NoCam}
           first == IF rows = {} THEN "none" ELSE CHOOSE s \in rows : TRUE
<1>1. first \in Slots \cup {"none"}
  <2>1. CASE rows = {}
    BY <2>1
  <2>2. CASE rows # {}
    <3>1. \E s \in rows : TRUE
      BY <2>2
    <3>2. (CHOOSE s \in rows : TRUE) \in rows
      BY <3>1
    <3> QED
      BY <2>2, <3>2
  <2> QED
    BY <2>1, <2>2
<1>2. ShowCamera(list, first)
  BY DEF ShowFirst
<1> HIDE DEF first
<1> QED
  BY <1>1, <1>2, ShownAsStored

\* Touched forgets refusals, never adds any.
LEMMA TouchedKeepsOff ==
  ASSUME WizardTypeOK, RefusedIsOff, Touched(cams')
  PROVE  refused' \in [Slots -> {0, 1}] /\ RefusedIsOff'
BY DEF WizardTypeOK, RefusedIsOff, Touched

\* What a camera is asked by Next, and what becomes of the draft.
LEMMA AskingKeeps ==
  ASSUME WizardInv, page = "cameras", NEW list \in [Slots -> Entries], AskCameras(list)
  PROVE  WizardTypeOK' /\ PaneInv' /\ RefusedIsOff' /\ ProvenAnswered' /\ EnabledIsProven'
<1> USE DEF WizardInv, WizardTypeOK
<1>1. PICK fine \in SUBSET Asked(list) :
        LET failed == (Asked(list) \ fine) \cup Unready(list)
            keys   == {Key(s, list[s]) : s \in fine}
        IN  /\ proven' = proven \cup keys /\ answered' = answered \cup keys
            /\ cams' = SwitchedOff(list, failed)
            /\ refused' = [s \in Slots |->
                 (IF list[s] = cams[s] THEN refused[s] ELSE 0)
                 + (IF s \in Asked(list) \ fine THEN 1 ELSE 0)]
            /\ IF failed # {} /\ EnabledIn(cams') = {}
               THEN UNCHANGED page /\ PaneRefilled(cams')
               ELSE page' = "share" /\ ShowCamera(cams', "none")
  BY DEF AskCameras
<1> DEFINE failed == (Asked(list) \ fine) \cup Unready(list)
           keys   == {Key(s, list[s]) : s \in fine}
<1>2. /\ proven' = proven \cup keys /\ answered' = answered \cup keys
      /\ cams' = SwitchedOff(list, failed)
      /\ refused' = [s \in Slots |->
           (IF list[s] = cams[s] THEN refused[s] ELSE 0)
           + (IF s \in Asked(list) \ fine THEN 1 ELSE 0)]
      /\ \/ page' = "cameras" /\ PaneRefilled(cams')
         \/ page' = "share" /\ ShowCamera(cams', "none")
  BY <1>1
<1>3. failed \subseteq EnabledIn(list) /\ EnabledIn(list) \subseteq Slots
  BY DEF Asked, Unready, EnabledIn
<1> HIDE DEF failed, keys
<1>4. cams' \in [Slots -> Entries]
  BY <1>2 DEF SwitchedOff, Entries
<1>5. \A s \in Slots : s \in failed => ~cams'[s].enabled
  BY <1>2 DEF SwitchedOff, Entries
<1>6. \A s \in Slots : s \notin failed => cams'[s] = list[s]
  BY <1>2 DEF SwitchedOff
<1>7. refused' \in [Slots -> {0, 1}] /\ RefusedIsOff'
  <2>1. ASSUME NEW s \in Slots
        PROVE  refused'[s] \in {0, 1} /\ (refused'[s] = 1 => ~cams'[s].enabled)
    <3>1. CASE s \in Asked(list) \ fine
      <4>1. s \in failed
        BY <3>1 DEF failed
      <4>2. list[s].enabled
        BY <3>1 DEF Asked, EnabledIn
      <4>3. (IF list[s] = cams[s] THEN refused[s] ELSE 0) = 0
        BY <4>2 DEF RefusedIsOff
      <4> QED
        BY <4>1, <4>3, <1>2, <1>5, <3>1
    <3>2. CASE s \notin Asked(list) \ fine
      <4>1. refused'[s] = IF list[s] = cams[s] THEN refused[s] ELSE 0
        BY <3>2, <1>2
      <4>2. refused'[s] = 1 => list[s] = cams[s] /\ ~list[s].enabled
        BY <4>1 DEF RefusedIsOff
      <4>3. refused'[s] = 1 => s \notin failed
        BY <4>2, <1>3 DEF EnabledIn
      <4> QED
        BY <4>1, <4>2, <4>3, <1>6
    <3> QED
      BY <3>1, <3>2
  <2> QED
    BY <2>1, <1>2 DEF RefusedIsOff
<1>8. ProvenAnswered'
  BY <1>2 DEF ProvenAnswered
<1>9. EnabledIsProven'
  <2> SUFFICES ASSUME NEW s \in Slots, cams'[s].enabled PROVE Key(s, cams'[s]) \in answered'
    BY DEF EnabledIsProven, EnabledIn
  <2>1. s \notin failed /\ cams'[s] = list[s] /\ s \in EnabledIn(list)
    BY <1>5, <1>6 DEF EnabledIn
  <2>2. s \in fine \/ Key(s, list[s]) \in proven
    BY <2>1 DEF failed, Asked
  <2> QED
    BY <2>1, <2>2, <1>2, Zenon DEF keys, ProvenAnswered
<1>10. /\ sel' \in Slots \cup {"none"} /\ form' \in Entries /\ loaded' \in Entries
       /\ PaneInv'
  <2>1. CASE page' = "share" /\ ShowCamera(cams', "none")
    BY <2>1, <1>4, ShownAsStored DEF PaneInv
  <2>2. CASE PaneRefilled(cams')
    <3>1. CASE sel' = "none" /\ UNCHANGED <<form, loaded>>
      BY <3>1 DEF PaneInv
    <3>2. CASE ShowCamera(cams', sel)
      BY <3>2, <1>4, ShownAsStored DEF PaneInv
    <3> QED
      BY <2>2, <3>1, <3>2 DEF PaneRefilled
  <2> QED
    BY <1>2, <2>1, <2>2
<1> QED
  BY <1>4, <1>7, <1>8, <1>9, <1>10

LEMMA WizardInit1 == WizardInit => WizardInv
<1> SUFFICES ASSUME WizardInit PROVE WizardInv
  OBVIOUS
<1>1. [Scanned EXCEPT !.cred = "right"] \in Entries /\ [Scanned EXCEPT !.cred = "wrong"] \in Entries
  BY EntriesTyped DEF Entries, Creds
<1>2. WizardTypeOK
  BY <1>1, EntriesTyped, Zenon DEF WizardInit, WizardTypeOK
<1> QED
  BY <1>2 DEF WizardInit, WizardInv, PaneInv, RefusedIsOff, ProvenAnswered, EnabledIsProven,
             ShareInv, StoredShareTested

LEMMA WizardStep == WizardInv /\ [WizardNext]_wizardVars => WizardInv'
<1> SUFFICES ASSUME WizardInv, [WizardNext]_wizardVars PROVE WizardInv'
  OBVIOUS
<1> USE DEF WizardInv
<1> DEFINE here == page = "cameras"
<1>1. CASE Type
  <2>1. form' \in Entries
    <3>1. form \in Entries
      BY DEF WizardTypeOK
    <3>2. PICK c \in Creds : \/ form' = [form EXCEPT !.named = TRUE]
                             \/ form' = [form EXCEPT !.cred = c]
                             \/ form' = [form EXCEPT !.enabled = ~@]
      <4>1. "blank" \in Creds
        BY DEF Creds
      <4> QED
        BY <1>1, <4>1 DEF Type
    <3> QED
      BY <3>1, <3>2 DEF Entries
  <2> QED
    BY <2>1, <1>1 DEF Type, WizardTypeOK, PaneInv, RefusedIsOff, ProvenAnswered,
                      EnabledIsProven, ShareInv, StoredShareTested
<1>2. CASE Save
  <2>1. cams' = [cams EXCEPT ![sel] = form] /\ sel \in Slots /\ form \in Entries
        /\ cams \in [Slots -> Entries] /\ loaded' = form
    BY <1>2 DEF Save, Stored, WizardTypeOK
  <2>2. refused' = [refused EXCEPT ![sel] = 0] /\ refused \in [Slots -> {0, 1}]
    BY <1>2 DEF Save, WizardTypeOK
  <2>3. WizardTypeOK'
    BY <2>1, <2>2, <1>2 DEF Save, WizardTypeOK
  <2>4. PaneInv' /\ RefusedIsOff'
    BY <2>1, <2>2, <1>2 DEF Save, PaneInv, RefusedIsOff
  <2> QED
    BY <2>3, <2>4, <1>2 DEF Save, ProvenAnswered, EnabledIsProven, ShareInv, StoredShareTested
<1>3. CASE Test
  <2>1. form' \in Entries
    BY <1>3 DEF Test, WizardTypeOK, Entries
  <2>2. PaneInv' /\ WizardTypeOK' /\ RefusedIsOff'
    BY <2>1, <1>3 DEF Test, WizardTypeOK, PaneInv, RefusedIsOff
  <2>3. ProvenAnswered'
    BY <1>3 DEF Test, ProvenAnswered, Proved
  <2> QED
    BY <2>2, <2>3, <1>3 DEF Test, EnabledIsProven, ShareInv, StoredShareTested
<1>4. CASE \E s \in Slots : Select(s)
  <2>1. PICK s \in Slots : Select(s)
    BY <1>4
  <2>2. cams' \in [Slots -> Entries]
    BY <2>1, LeavingKeepsTypes DEF Select
  <2>3. /\ sel' \in Slots \cup {"none"} /\ form' \in Entries /\ loaded' \in Entries
        /\ sel' # "none" => loaded' = cams'[sel']
    BY <2>1, <2>2, ShownAsStored DEF Select
  <2>4. refused' \in [Slots -> {0, 1}] /\ RefusedIsOff'
    BY <2>1, TouchedKeepsOff DEF Select
  <2> QED
    BY <2>1, <2>2, <2>3, <2>4 DEF Select, WizardTypeOK, PaneInv, ProvenAnswered, EnabledIsProven,
                                  ShareInv, StoredShareTested
<1>5. CASE \E s \in Slots : AddRow(s, Fresh) \/ AddRow(s, Scanned)
  <2>1. PICK s \in Slots, new \in Entries : AddRow(s, new)
    BY <1>5, EntriesTyped
  <2>2. cams' \in [Slots -> Entries]
    <3>1. PICK list \in LeaveCurrent : cams' = [list EXCEPT ![s] = new]
      BY <2>1 DEF AddRow
    <3>2. list \in [Slots -> Entries]
      BY LeavingKeepsTypes
    <3> QED
      BY <3>1, <3>2
  <2>3. /\ sel' \in Slots \cup {"none"} /\ form' \in Entries /\ loaded' \in Entries
        /\ sel' # "none" => loaded' = cams'[sel']
    BY <2>1, <2>2, ShownAsStored DEF AddRow
  <2>4. refused' \in [Slots -> {0, 1}] /\ RefusedIsOff'
    BY <2>1, TouchedKeepsOff DEF AddRow
  <2> QED
    BY <2>1, <2>2, <2>3, <2>4 DEF AddRow, WizardTypeOK, PaneInv, ProvenAnswered, EnabledIsProven,
                                  ShareInv, StoredShareTested
<1>6. CASE Remove
  <2>1. cams' \in [Slots -> Entries]
    BY <1>6, EntriesTyped DEF Remove, WizardTypeOK
  <2>2. /\ sel' \in Slots \cup {"none"} /\ form' \in Entries /\ loaded' \in Entries
        /\ sel' # "none" => loaded' = cams'[sel']
    BY <1>6, <2>1, FirstAsStored DEF Remove
  <2>3. refused' \in [Slots -> {0, 1}] /\ RefusedIsOff'
    BY <1>6, TouchedKeepsOff DEF Remove
  <2> QED
    BY <1>6, <2>1, <2>2, <2>3 DEF Remove, WizardTypeOK, PaneInv, ProvenAnswered, EnabledIsProven,
                                  ShareInv, StoredShareTested
<1>7. CASE NextFromCameras
  <2>1. PICK list \in LeaveCurrent : AskCameras(list)
    BY <1>7 DEF NextFromCameras
  <2>2. page = "cameras"
    BY <1>7 DEF NextFromCameras
  <2>3. list \in [Slots -> Entries]
    BY LeavingKeepsTypes
  <2>4. WizardTypeOK' /\ PaneInv' /\ RefusedIsOff' /\ ProvenAnswered' /\ EnabledIsProven'
    BY <2>1, <2>2, <2>3, AskingKeeps
  <2>5. page' \in {"cameras", "share"}
    BY <2>1, <2>2 DEF AskCameras
  <2> QED
    BY <2>4, <2>5, <1>7 DEF NextFromCameras, ShareInv, StoredShareTested
<1>8. CASE NextRefused
  <2>1. cams' \in LeaveCurrent
    BY <1>8 DEF NextRefused
  <2>2. /\ cams' \in [Slots -> Entries]
        /\ cams' = cams \/ cams' = Stored \/ cams' = [cams EXCEPT ![sel] = NoCam]
    BY <2>1, LeavingKeepsTypes
  <2>3. refused' \in [Slots -> {0, 1}] /\ RefusedIsOff'
    BY <1>8, TouchedKeepsOff DEF NextRefused
  <2>4. WizardTypeOK'
    BY <1>8, <2>2, <2>3 DEF NextRefused, WizardTypeOK
  <2>5. PaneInv'
    <3> SUFFICES ASSUME sel' # "none" PROVE loaded' = cams'[sel']
      BY DEF PaneInv
    <3>1. sel' = sel /\ sel \in Slots /\ cams'[sel] # NoCam /\ loaded = cams[sel]
      BY <1>8 DEF NextRefused, PaneInv, WizardTypeOK
    <3>2. cams \in [Slots -> Entries]
      BY DEF WizardTypeOK
    <3>3. CASE Dirty /\ cams' = Stored
      BY <1>8, <3>1, <3>2, <3>3 DEF NextRefused, Stored
    <3>4. CASE ~(Dirty /\ cams' = Stored)
      <4>1. loaded' = loaded
        BY <1>8, <3>4 DEF NextRefused
      <4>2. cams' = cams
        <5>1. CASE ~Dirty
          BY <2>1, <5>1 DEF LeaveCurrent
        <5>2. CASE cams' # Stored
          BY <2>1, <5>2, <3>1, <3>2 DEF LeaveCurrent, Discarded
        <5> QED
          BY <5>1, <5>2, <3>4
      <4> QED
        BY <4>1, <4>2, <3>1
    <3> QED
      BY <3>3, <3>4
  <2> QED
    BY <1>8, <2>3, <2>4, <2>5 DEF NextRefused, ProvenAnswered, EnabledIsProven, ShareInv,
                                  StoredShareTested
<1>9. CASE TypeShare \/ TestShare \/ NextFromShare \/ Finish
  BY <1>9 DEF TypeShare, TestShare, NextFromShare, Finish, TestedAsTyped, WizardTypeOK, PaneInv,
              RefusedIsOff, ProvenAnswered, EnabledIsProven, ShareInv, StoredShareTested
<1>10. CASE NextFromBasics
  <2>1. /\ sel' \in Slots \cup {"none"} /\ form' \in Entries /\ loaded' \in Entries
        /\ sel' # "none" => loaded' = cams[sel']
    BY <1>10, FirstAsStored DEF NextFromBasics, WizardTypeOK
  <2> QED
    BY <2>1, <1>10 DEF NextFromBasics, WizardTypeOK, PaneInv, RefusedIsOff, ProvenAnswered,
                       EnabledIsProven, ShareInv, StoredShareTested
<1>11. CASE Back
  <2>1. /\ sel' \in Slots \cup {"none"} /\ form' \in Entries /\ loaded' \in Entries
        /\ PaneInv'
    <3>1. CASE page' = "before" /\ ShowCamera(cams, "none")
      BY <3>1, ShownAsStored DEF WizardTypeOK, PaneInv
    <3>2. CASE page' = "cameras" /\ ShowFirst(cams) /\ UNCHANGED cams
      BY <3>2, FirstAsStored DEF WizardTypeOK, PaneInv
    <3>3. CASE page' = "share" /\ UNCHANGED <<sel, form, loaded>>
      BY <3>3 DEF WizardTypeOK, PaneInv
    <3> QED
      BY <1>11, <3>1, <3>2, <3>3 DEF Back
  <2>2. /\ tested' \in accepted' \cup {"none"} /\ page' \in {"before", "cameras", "share"}
        /\ page' = "share" => page = "after"
    BY <1>11 DEF Back, ShareInv
  <2> QED
    BY <2>1, <2>2, <1>11 DEF Back, WizardTypeOK, RefusedIsOff, ProvenAnswered, EnabledIsProven,
                             ShareInv, StoredShareTested
<1>12. CASE UNCHANGED wizardVars
  BY <1>12 DEF wizardVars, WizardTypeOK, PaneInv, RefusedIsOff, ProvenAnswered, EnabledIsProven,
               ShareInv, StoredShareTested
<1> QED
  BY <1>1, <1>2, <1>3, <1>4, <1>5, <1>6, <1>7, <1>8, <1>9, <1>10, <1>11, <1>12
  DEF WizardNext, OnCameras

LEMMA WizardInvariant == WizardSpec => []WizardInv
BY WizardInit1, WizardStep, PTL DEF WizardSpec

\* Beyond the camera page every enabled camera has answered with the account it is
\* stored with.
THEOREM EnabledCamerasAnswered == WizardSpec => []EnabledIsProven
<1>1. WizardInv => EnabledIsProven
  BY DEF WizardInv
<1> QED
  BY <1>1, WizardInvariant, PTL

\* Next meets at most one refusal of a camera between two changes of its entry.
THEOREM NextAsksOnce == WizardSpec => []NextSignsInOnce
<1>1. WizardInv => NextSignsInOnce
  BY DEF WizardInv, WizardTypeOK, NextSignsInOnce
<1> QED
  BY <1>1, WizardInvariant, PTL

\* A pane that asks nothing shows its camera as the draft has it.
THEOREM PaneShowsTheDraft == WizardSpec => []PaneIsStored
<1>1. WizardInv => PaneIsStored
  BY DEF WizardInv, PaneInv, PaneIsStored, Dirty
<1> QED
  BY <1>1, WizardInvariant, PTL

\* The account that is stored was accepted by the share, or warned of.
THEOREM ShareTestedOrWarned == WizardSpec => []StoredShareTested
<1>1. WizardInv => StoredShareTested
  BY DEF WizardInv, ShareInv
<1> QED
  BY <1>1, WizardInvariant, PTL

-------------------------------------------------------------------------------
(* The camera menu.  What was raw when its name was taken off has been told *)
(* of or could not be seen, whatever the lists say.                        *)
RosterTypeOK ==
  /\ day \in Nat \ {0}
  /\ raw \subseteq Names \X Nat /\ \A p \in raw : p[2] <= day /\ p[1] \in dirs /\ p[2] >= 1
  /\ left \in [Names -> Nat] /\ \A n \in Names : left[n] <= day

ToldInv ==
  \A n \in Names, d \in Nat : <<n, d>> \in raw /\ d < left[n] => <<n, d>> \in told \cup unseen

RosterInv == RosterTypeOK /\ ToldInv

LEMMA RosterInit1 == RosterInit => RosterInv
BY DEF RosterInit, RosterInv, RosterTypeOK, ToldInv

\* Asking before a name is taken off tells of all that is complete, not encoded and seen.
LEMMA WarningTells ==
  ASSUME RosterInv, NEW n \in Names, WarnStranded(n), UNCHANGED <<day, raw, dirs>>
  PROVE  RosterInv'
<1>1. left' = [left EXCEPT ![n] = day] /\ left' \in [Names -> Nat]
  BY DEF WarnStranded, RosterInv, RosterTypeOK
<1>2. RosterTypeOK'
  BY <1>1 DEF RosterInv, RosterTypeOK
<1>3. ASSUME NEW m \in Names, NEW d \in Nat, <<m, d>> \in raw, d < left'[m]
      PROVE  <<m, d>> \in told' \cup unseen'
  <2>1. CASE m = n
    <3>1. d < day /\ d >= 1 /\ day \in Nat
      BY <1>1, <1>3, <2>1 DEF RosterInv, RosterTypeOK
    <3>2. PICK readable \in BOOLEAN :
            /\ told' = told \cup ({n} \X PendingDays(n, readable))
            /\ unseen' = unseen \cup IF readable THEN {} ELSE {p \in raw : p[1] = n}
      BY DEF WarnStranded
    <3>3. CASE readable
      BY <1>3, <2>1, <3>1, <3>2, <3>3 DEF PendingDays
    <3>4. CASE ~readable
      BY <1>3, <2>1, <3>2, <3>4
    <3> QED
      BY <3>3, <3>4
  <2>2. CASE m # n
    BY <1>1, <1>3, <2>2 DEF WarnStranded, RosterInv, RosterTypeOK, ToldInv
  <2> QED
    BY <2>1, <2>2
<1> QED
  BY <1>2, <1>3 DEF RosterInv, ToldInv

\* A directory that is moved takes what was told of its days along; one that is passed
\* over was not seen.
LEMMA RenamingTells ==
  ASSUME RosterInv, NEW old \in Names, NEW new \in Names, old # new,
         RenameFrames(old, new), UNCHANGED day
  PROVE  RosterInv'
<1> USE DEF RosterInv
<1>1. CASE /\ left' = [left EXCEPT ![old] = day]
           /\ unseen' = unseen \cup {p \in raw : p[1] = old}
           /\ UNCHANGED <<raw, dirs, told>>
  BY <1>1 DEF RosterTypeOK, ToldInv
<1>2. CASE /\ old \in dirs /\ new \notin dirs
           /\ raw' = Moved(raw, old, new) /\ told' = Moved(told, old, new)
           /\ unseen' = Moved(unseen, old, new)
           /\ left' = [left EXCEPT ![new] = left[old], ![old] = day]
           /\ dirs' = (dirs \ {old}) \cup {new}
  <2>1. \A d \in Nat : <<new, d>> \notin raw
    BY <1>2 DEF RosterTypeOK
  <2>2. ASSUME NEW q \in raw'
        PROVE  \E p \in raw : \/ p[1] = old /\ q = <<new, p[2]>>
                              \/ p[1] # old /\ p[1] # new /\ q = p
    <3>1. PICK p \in raw : q = IF p[1] = old THEN <<new, p[2]>> ELSE p
      BY <1>2 DEF Moved
    <3>2. p = <<p[1], p[2]>> /\ p[1] # new
      BY <2>1 DEF RosterTypeOK
    <3> QED
      BY <3>1, <3>2
  <2>3. RosterTypeOK'
    <3>1. left' \in [Names -> Nat] /\ \A n \in Names : left'[n] <= day
      BY <1>2 DEF RosterTypeOK
    <3>2. ASSUME NEW q \in raw'
          PROVE  q \in Names \X Nat /\ q[2] <= day /\ q[1] \in dirs' /\ q[2] >= 1
      <4>1. PICK p \in raw : \/ p[1] = old /\ q = <<new, p[2]>>
                             \/ p[1] # old /\ p[1] # new /\ q = p
        BY <2>2
      <4>2. p \in Names \X Nat /\ p[2] <= day /\ p[1] \in dirs /\ p[2] >= 1
        BY DEF RosterTypeOK
      <4> QED
        BY <4>1, <4>2, <1>2
    <3> QED
      BY <3>1, <3>2 DEF RosterTypeOK
  <2>4. ASSUME NEW n \in Names, NEW d \in Nat, <<n, d>> \in raw', d < left'[n]
        PROVE  <<n, d>> \in told' \cup unseen'
    <3>1. PICK p \in raw : \/ p[1] = old /\ <<n, d>> = <<new, p[2]>>
                           \/ p[1] # old /\ p[1] # new /\ <<n, d>> = p
      BY <2>2, <2>4
    <3>2. p \in Names \X Nat /\ p = <<p[1], p[2]>>
      BY DEF RosterTypeOK
    <3>3. CASE p[1] = old /\ <<n, d>> = <<new, p[2]>>
      <4>1. n = new /\ d = p[2] /\ left'[new] = left[old]
        BY <3>3, <1>2 DEF RosterTypeOK
      <4>2. <<old, d>> \in told \cup unseen
        BY <4>1, <2>4, <3>2, <3>3 DEF ToldInv
      <4>3. <<new, d>> = IF <<old, d>>[1] = old THEN <<new, <<old, d>>[2]>> ELSE <<old, d>>
        OBVIOUS
      <4> QED
        BY <4>1, <4>2, <4>3, <1>2 DEF Moved
    <3>4. CASE p[1] # old /\ p[1] # new /\ <<n, d>> = p
      <4>1. n # old /\ n # new /\ left'[n] = left[n]
        BY <3>4, <1>2 DEF RosterTypeOK
      <4>2. <<n, d>> \in told \cup unseen
        BY <4>1, <2>4, <3>4 DEF ToldInv
      <4>3. <<n, d>> = IF <<n, d>>[1] = old THEN <<new, <<n, d>>[2]>> ELSE <<n, d>>
        BY <4>1
      <4> QED
        BY <4>2, <4>3, <1>2 DEF Moved
    <3> QED
      BY <3>1, <3>3, <3>4
  <2> QED
    BY <2>3, <2>4 DEF ToldInv
<1>3. CASE /\ old \in dirs /\ left' = [left EXCEPT ![old] = day]
           /\ told' = told \cup {p \in raw : p[1] = old}
           /\ UNCHANGED <<raw, dirs, unseen>>
  BY <1>3 DEF RosterTypeOK, ToldInv
<1> QED
  BY <1>1, <1>2, <1>3 DEF RenameFrames

LEMMA RosterStep == RosterInv /\ [RosterNext]_rosterVars => RosterInv'
<1> SUFFICES ASSUME RosterInv, [RosterNext]_rosterVars PROVE RosterInv'
  OBVIOUS
<1>1. CASE Midnight
  BY <1>1 DEF Midnight, asked, RosterInv, RosterTypeOK, ToldInv
<1>2. CASE DaemonRestarts \/ OpenMenu \/ Quit \/ Abandon \/ UNCHANGED rosterVars
  BY <1>2 DEF DaemonRestarts, OpenMenu, Quit, Abandon, rosterVars, asked, RosterInv, RosterTypeOK, ToldInv
<1>3. CASE \E n \in Names : Add(n) \/ Enable(n)
  BY <1>3 DEF Add, Enable, asked, RosterInv, RosterTypeOK, ToldInv
<1>4. CASE \E n \in Names : RemoveCamera(n) \/ Disable(n)
  <2>1. PICK n \in Names : RemoveCamera(n) \/ Disable(n)
    BY <1>4
  <2>2. WarnStranded(n) /\ UNCHANGED <<day, raw, dirs>>
    BY <2>1 DEF RemoveCamera, Disable
  <2> QED
    BY <2>2, WarningTells
<1>5. CASE \E old, new \in Names : Rename(old, new)
  <2>1. PICK old \in Names, new \in Names : Rename(old, new)
    BY <1>5
  <2>2. old # new /\ RenameFrames(old, new) /\ UNCHANGED day
    BY <2>1 DEF Rename
  <2> QED
    BY <2>2, RenamingTells
<1>6. CASE \E n \in Names : Capture(n)
  <2>1. PICK n \in Names : Capture(n)
    BY <1>6
  <2> QED
    BY <2>1 DEF Capture, asked, RosterInv, RosterTypeOK, ToldInv
<1>7. CASE \E n \in Names, d \in 1..LastDay : Encode(n, d)
  BY <1>7 DEF Encode, asked, RosterInv, RosterTypeOK, ToldInv
<1> QED
  BY <1>1, <1>2, <1>3, <1>4, <1>5, <1>6, <1>7 DEF RosterNext, AtMenu

\* A day that was complete when its camera left the list is encoded still, or told of, or
\* nobody could see it then.
THEOREM StrandedDaysAreKnown == RosterSpec => []StrandedIsKnown
<1>1. RosterInv => StrandedIsKnown
  <2> SUFFICES ASSUME RosterInv, NEW p \in raw, p[2] < left[p[1]]
               PROVE  p \in told \cup unseen
    BY DEF StrandedIsKnown, Stranded
  <2>1. p \in Names \X Nat /\ p = <<p[1], p[2]>>
    BY DEF RosterInv, RosterTypeOK
  <2> QED
    BY <2>1 DEF RosterInv, ToldInv
<1> QED
  BY <1>1, RosterInit1, RosterStep, PTL DEF RosterSpec

-------------------------------------------------------------------------------
(* The configuration file and the daemon that runs on it.                  *)

\* What was said stays so: only the question itself says it, and only a daemon that
\* reads the file changes what it runs on.
LEMMA SaidStep == SaidIsSo /\ [ConfigNext]_configVars => SaidIsSo'
<1> SUFFICES ASSUME SaidIsSo, [ConfigNext]_configVars PROVE SaidIsSo'
  OBVIOUS
<1>1. CASE UNCHANGED <<said, premature, daemon, file>>
  BY <1>1 DEF SaidIsSo
<1>2. CASE said' \notin {"restarted", "not running"}
  BY <1>2 DEF SaidIsSo
<1>3. ASSUME NEW s \in Sessions, AtDesk(s) PROVE SaidIsSo'
  <2>1. CASE Open(s) \/ ChooseBackup(s) \/ Decline(s) \/ Backup(s) \/ SaveFails(s) \/ Closed(s)
             \/ OpenEditor(s) \/ EditorCloses(s)
    BY <1>1, <2>1 DEF Open, ChooseBackup, Decline, Backup, SaveFails, Closed, OpenEditor,
                      EditorCloses, store, capture
  <2>2. CASE PutInPlace(s) \/ EditorSaves(s)
    BY <1>2, <2>2 DEF PutInPlace, EditorSaves
  <2>3. CASE OfferRestart(s)
    <3>1. PICK active \in {"unknown", "yes", "no"} :
            /\ said' = IF active = "no" THEN "not running" ELSE said
            /\ premature' = IF active = "no" THEN daemon \notin {Down, Launched} ELSE premature
            /\ UNCHANGED <<daemon, file>>
      BY <2>3 DEF OfferRestart, ActiveSays, store
    <3>2. CASE active = "no"
      BY <3>1, <3>2, Zenon DEF SaidIsSo, Down, Launched
    <3>3. CASE active # "no"
      BY <1>1, <3>1, <3>3
    <3> QED
      BY <3>2, <3>3
  <2>4. CASE Answered(s)
    <3>1. CASE said' \in {"previous", "failed"}
      BY <1>2, <3>1
    <3>2. CASE daemon' = Launched
      BY <3>2 DEF SaidIsSo
    <3> QED
      BY <2>4, <3>1, <3>2 DEF Answered, Restarted
  <2> QED
    BY <1>3, <2>1, <2>2, <2>3, <2>4 DEF AtDesk
<1>4. CASE Broken
  BY <1>2, <1>4 DEF Broken
<1>5. CASE DaemonStarts \/ DaemonReads \/ DaemonEnds
  <2>1. daemon' \in {Launched, Down, file} /\ UNCHANGED file
    BY <1>5 DEF DaemonStarts, DaemonReads, DaemonEnds, store
  <2> QED
    BY <2>1 DEF SaidIsSo
<1>6. CASE DaemonShows \/ Second \/ UNCHANGED configVars
  BY <1>1, <1>6 DEF DaemonShows, Second, configVars, store, capture
<1> QED
  BY <1>3, <1>4, <1>5, <1>6 DEF ConfigNext

\* What an operator was last told of the daemon is so until the file changes again.
THEOREM SaidStaysSo == ConfigSpec => []SaidIsSo
<1>1. ConfigInit => SaidIsSo
  BY DEF ConfigInit, SaidIsSo
<1> QED
  BY <1>1, SaidStep, PTL DEF ConfigSpec

-------------------------------------------------------------------------------
(* The copies of the configuration.  A later one is above an earlier one,  *)
(* and the last Keep that were made are there.                             *)
CopiesInv ==
  /\ made \in Nat /\ clock \in Int
  /\ \A b \in backups : /\ b.stamp \in Int /\ b.n \in Int /\ b.made \in 1..made
                        /\ b.stamp <= clock
  /\ \A a, b \in backups : (a.made < b.made => Below(a, b)) /\ (a.made = b.made => a = b)
  /\ \A k \in 1..made : k > made - Keep => \E b \in backups : b.made = k

OrderInv == ~ClockMayStepBack => CopiesInv

\* What is copied aside now is above all there is, whatever the second.
LEMMA NewestIsLast ==
  ASSUME CopiesInv
  PROVE  /\ Counter(backups) \in Int
         /\ \A o \in backups : o.stamp = clock => o.n < Counter(backups)
<1> DEFINE used == {b.n : b \in {o \in backups : o.stamp = clock}}
<1>1. CASE used = {}
  <2>1. Counter(backups) = 0
    BY <1>1 DEF Counter
  <2> QED
    BY <1>1, <2>1
<1>2. CASE used # {}
  <2>1. PICK o \in backups : o.stamp = clock
    BY <1>2
  <2>2. made \in 1..made /\ made > made - Keep
    BY <2>1, ConfigStoreAssumption DEF CopiesInv
  <2>3. PICK top \in backups : top.made = made
    BY <2>2 DEF CopiesInv
  <2>4. ASSUME NEW b \in backups PROVE b = top \/ Below(b, top)
    <3>1. b.made \in 1..made /\ made \in Nat
      BY DEF CopiesInv
    <3>2. b.made < top.made \/ b.made = top.made
      BY <2>3, <3>1
    <3> QED
      BY <3>2 DEF CopiesInv
  <2>5. top.stamp = clock
    <3>1. top.stamp \in Int /\ top.stamp <= clock /\ clock \in Int
      BY DEF CopiesInv
    <3>2. o = top \/ Below(o, top)
      BY <2>4
    <3> QED
      BY <2>1, <3>1, <3>2 DEF Below
  <2>6. ASSUME NEW b \in backups, b.stamp = clock PROVE b.n <= top.n
    <3>1. b = top \/ Below(b, top)
      BY <2>4
    <3>2. b.n \in Int /\ top.n \in Int /\ clock \in Int
      BY DEF CopiesInv
    <3> QED
      BY <2>5, <2>6, <3>1, <3>2 DEF Below
  <2>7. \A m \in used : m \in Int /\ m <= top.n
    BY <2>6 DEF CopiesInv
  <2>8. top.n \in used
    BY <2>5
  <2>9. PICK c \in used : Counter(backups) = 1 + c /\ \A m \in used : m <= c
    <3>1. \E c \in used : \A m \in used : m <= c
      BY <2>7, <2>8
    <3>2. Counter(backups) = 1 + CHOOSE c \in used : \A m \in used : m <= c
      BY <1>2 DEF Counter
    <3> HIDE DEF used
    <3> QED
      BY <3>1, <3>2
  <2>10. c \in Int
    BY <2>7
  <2>11. ASSUME NEW b \in backups, b.stamp = clock PROVE b.n < Counter(backups)
    <3>1. b.n \in used /\ b.n \in Int
      BY <2>11 DEF CopiesInv
    <3>2. b.n <= c
      BY <2>9, <3>1
    <3> HIDE DEF used
    <3> QED
      BY <2>9, <2>10, <3>1, <3>2
  <2> QED
    BY <2>9, <2>10, <2>11
<1> QED
  BY <1>1, <1>2

\* A copy more, before anything is pruned.
LEMMA CopyOnTop ==
  ASSUME CopiesInv, NEW holds
  PROVE  LET new == Copy(holds)
             all == backups \cup {new}
         IN  /\ new.made = made + 1 /\ new.stamp = clock /\ new.n \in Int
             /\ \A b \in all : b.stamp \in Int /\ b.n \in Int /\ b.made \in 1..(made + 1)
                               /\ b.stamp <= clock
             /\ \A a, b \in all : (a.made < b.made => Below(a, b)) /\ (a.made = b.made => a = b)
             /\ \A k \in 1..(made + 1) : k > made + 1 - Keep => \E b \in all : b.made = k
<1> DEFINE new == Copy(holds)
           all == backups \cup {new}
<1>0. made \in Nat /\ clock \in Int /\ Keep \in Nat \ {0}
  BY ConfigStoreAssumption DEF CopiesInv
<1>1. new.made = made + 1 /\ new.stamp = clock /\ new.n = Counter(backups) /\ new.n \in Int
  BY NewestIsLast DEF Copy
<1> HIDE DEF new
<1>2. ASSUME NEW b \in backups
      PROVE  b.stamp \in Int /\ b.n \in Int /\ b.made \in 1..(made + 1) /\ b.stamp <= clock
             /\ b.made \in 1..made
  BY <1>0 DEF CopiesInv
<1>3. ASSUME NEW b \in backups PROVE Below(b, new) /\ b.made # new.made /\ ~(new.made < b.made)
  <2>1. b.stamp < clock \/ (b.stamp = clock /\ b.n < Counter(backups))
    BY <1>0, <1>2, NewestIsLast
  <2>2. b.made \in 1..made
    BY <1>2
  <2> QED
    BY <1>0, <1>1, <2>1, <2>2 DEF Below
<1>4. ASSUME NEW a \in all, NEW b \in all
      PROVE  (a.made < b.made => Below(a, b)) /\ (a.made = b.made => a = b)
  <2>1. CASE a \in backups /\ b \in backups
    BY <2>1 DEF CopiesInv
  <2>2. CASE a \in backups /\ b = new
    BY <1>3, <2>2
  <2>3. CASE a = new /\ b \in backups
    <3>1. ~(a.made < b.made) /\ a.made # b.made
      BY <1>3, <2>3
    <3> QED
      BY <3>1
  <2>4. CASE a = new /\ b = new
    BY <1>0, <1>1, <2>4
  <2> QED
    BY <2>1, <2>2, <2>3, <2>4
<1>5. ASSUME NEW k \in 1..(made + 1), k > made + 1 - Keep PROVE \E b \in all : b.made = k
  <2>1. CASE k = made + 1
    BY <1>1, <2>1
  <2>2. CASE k # made + 1
    <3>1. k \in 1..made /\ k > made - Keep
      BY <1>0, <1>5, <2>2
    <3> QED
      BY <3>1 DEF CopiesInv
  <2> QED
    BY <2>1, <2>2
<1>6. ASSUME NEW b \in all
      PROVE  b.stamp \in Int /\ b.n \in Int /\ b.made \in 1..(made + 1) /\ b.stamp <= clock
  BY <1>0, <1>1, <1>2
<1> QED
  BY <1>1, <1>4, <1>5, <1>6 DEF new

\* The last Keep that were made are never pruned: fewer than Keep are above them.
LEMMA LastAreKept ==
  ASSUME NEW S, NEW m \in Nat, NEW b \in S, m + 1 - b.made < Keep,
         \A o \in S : o.stamp \in Int /\ o.n \in Int /\ o.made \in 1..(m + 1),
         \A o, q \in S : (o.made < q.made => Below(o, q)) /\ (o.made = q.made => o = q)
  PROVE  b \in Pruned(S)
<1> DEFINE above == {o \in S : Below(b, o)}
           later == (b.made + 1)..(m + 1)
           f == [o \in above |-> o.made]
<1>0. b.made \in Int /\ m + 1 \in Int /\ Keep \in Nat
  BY ConfigStoreAssumption
<1>1. ASSUME NEW o \in above PROVE o.made \in later
  <2>1. ~Below(o, b)
    BY <1>1 DEF Below
  <2>2. o # b
    BY <1>1, <2>1
  <2>3. ~(o.made < b.made) /\ o.made # b.made
    BY <1>1, <2>1, <2>2
  <2>4. o.made \in 1..(m + 1) /\ b.made \in 1..(m + 1)
    BY <1>1
  <2> QED
    BY <2>3, <2>4
<1>2. f \in Injection(above, later)
  <2>1. f \in [above -> later]
    BY <1>1
  <2>2. \A o, q \in above : f[o] = f[q] => o = q
    OBVIOUS
  <2> QED
    BY <2>1, <2>2 DEF Injection, IsInjective
<1>3. IsFiniteSet(later) /\ Cardinality(later) <= m + 1 - b.made
  <2>1. /\ IsFiniteSet(later)
        /\ Cardinality(later) = IF b.made + 1 > m + 1 THEN 0 ELSE (m + 1) - (b.made + 1) + 1
    <3>1. b.made + 1 \in Int
      BY <1>0
    <3> QED
      BY <1>0, <3>1, FS_Interval
  <2>2. b.made \in 1..(m + 1)
    OBVIOUS
  <2> QED
    BY <1>0, <2>1, <2>2
<1>4. IsFiniteSet(above) /\ Cardinality(above) <= Cardinality(later)
  BY <1>2, <1>3, FS_Injection
<1>5. Cardinality(above) \in Nat /\ Cardinality(later) \in Nat
  BY <1>3, <1>4, FS_CardinalityType
<1>6. Cardinality(above) < Keep
  BY <1>0, <1>3, <1>4, <1>5
<1> QED
  BY <1>6 DEF Pruned, Place

LEMMA CopyingKeepsOrder ==
  ASSUME CopiesInv, CopyAside \/ CopyFails, UNCHANGED clock
  PROVE  CopiesInv'
<1>0. made \in Nat /\ Keep \in Nat \ {0} /\ clock \in Int
  BY ConfigStoreAssumption DEF CopiesInv
<1>1. CASE CopyFails
  <2>1. PICK holds : backups' = backups \cup {Copy(holds)}
    BY <1>1 DEF CopyFails
  <2>2. made' = made + 1
    BY <1>1 DEF CopyFails
  <2> QED
    BY <1>0, <2>1, <2>2, CopyOnTop DEF CopiesInv, Below
<1>2. CASE CopyAside
  <2> DEFINE all == backups \cup {Copy(file)}
  <2>1. backups' \subseteq all /\ Pruned(all) \subseteq backups' /\ made' = made + 1
    BY <1>2 DEF CopyAside, Pruned
  <2>2. /\ \A b \in all : b.stamp \in Int /\ b.n \in Int /\ b.made \in 1..(made + 1)
                          /\ b.stamp <= clock
        /\ \A a, b \in all : (a.made < b.made => Below(a, b)) /\ (a.made = b.made => a = b)
        /\ \A k \in 1..(made + 1) : k > made + 1 - Keep => \E b \in all : b.made = k
    BY CopyOnTop
  <2> HIDE DEF all
  <2>3. ASSUME NEW k \in 1..(made + 1), k > made + 1 - Keep
        PROVE  \E b \in backups' : b.made = k
    <3>1. PICK b \in all : b.made = k
      BY <2>2, <2>3
    <3>2. made + 1 - b.made < Keep
      BY <1>0, <2>3, <3>1
    <3>3. b \in Pruned(all)
      BY <1>0, <2>2, <3>2, LastAreKept
    <3> QED
      BY <2>1, <3>1, <3>3
  <2>4. \A b \in backups' : b.stamp \in Int /\ b.n \in Int /\ b.made \in 1..made'
                            /\ b.stamp <= clock'
    BY <2>1, <2>2
  <2>5. \A a, b \in backups' : (a.made < b.made => Below(a, b)) /\ (a.made = b.made => a = b)
    BY <2>1, <2>2
  <2>6. made' \in Nat /\ clock' \in Int
    BY <1>0, <2>1
  <2>7. ASSUME NEW k \in 1..made', k > made' - Keep
        PROVE  \E b \in backups' : b.made = k
    <3>1. k \in 1..(made + 1) /\ k > made + 1 - Keep
      BY <1>0, <2>1, <2>7
    <3> QED
      BY <2>3, <3>1
  <2> QED
    BY <2>4, <2>5, <2>6, <2>7 DEF CopiesInv, Below
<1> QED
  BY <1>1, <1>2

LEMMA OrderStep == OrderInv /\ [ConfigNext]_configVars => OrderInv'
<1> SUFFICES ASSUME CopiesInv, [ConfigNext]_configVars, ~ClockMayStepBack
             PROVE  CopiesInv'
  BY DEF OrderInv
<1>1. CASE (CopyAside \/ CopyFails) /\ UNCHANGED clock
  BY <1>1, CopyingKeepsOrder
<1>2. CASE UNCHANGED <<backups, made>> /\ clock' \in Int /\ clock <= clock'
  <2>1. clock \in Int
    BY DEF CopiesInv
  <2>2. ASSUME NEW b \in backups PROVE b.stamp <= clock'
    <3>1. b.stamp \in Int /\ b.stamp <= clock
      BY DEF CopiesInv
    <3> QED
      BY <1>2, <2>1, <3>1
  <2> QED
    BY <1>2, <2>2 DEF CopiesInv, Below
<1>3. UNCHANGED <<backups, made, clock>> => CopiesInv'
  BY <1>2 DEF CopiesInv
<1>4. ASSUME NEW s \in Sessions, AtDesk(s) PROVE CopiesInv'
  <2>1. CASE Backup(s) \/ OpenEditor(s)
    BY <1>1, <1>3, <2>1 DEF Backup, OpenEditor, NoCopy
  <2>2. CASE ~(Backup(s) \/ OpenEditor(s))
    BY <1>3, <1>4, <2>2 DEF AtDesk, Open, ChooseBackup, Decline, PutInPlace, SaveFails, store,
                           OfferRestart, Answered, Closed, EditorSaves, EditorCloses
  <2> QED
    BY <2>1, <2>2
<1>5. CASE Second
  <2>1. clock' = clock + 1 /\ clock \in Int
    BY <1>5 DEF Second, CopiesInv
  <2> QED
    BY <1>2, <1>5, <2>1 DEF Second, store
<1>6. CASE Broken \/ DaemonStarts \/ DaemonReads \/ DaemonShows \/ DaemonEnds
           \/ UNCHANGED configVars
  BY <1>3, <1>6 DEF Broken, DaemonStarts, DaemonReads, DaemonShows, DaemonEnds, store, configVars
<1> QED
  BY <1>4, <1>5, <1>6 DEF ConfigNext

\* While the clock runs forwards, the copies are listed in the order they were made, and
\* the last Keep of them are there.
THEOREM CopiesListedInOrder == ConfigSpec => []ListedInOrder
<1>1. ConfigInit => OrderInv
  BY DEF ConfigInit, OrderInv, CopiesInv
<1>2. OrderInv => ListedInOrder
  <2> SUFFICES ASSUME CopiesInv, NEW a \in backups, NEW b \in backups
               PROVE  Below(a, b) <=> a.made < b.made
    BY DEF ListedInOrder, OrderInv, CopiesInv
  <2>1. /\ a.stamp \in Int /\ a.n \in Int /\ a.made \in Int
        /\ b.stamp \in Int /\ b.n \in Int /\ b.made \in Int
    BY DEF CopiesInv
  <2>2. a.made < b.made => Below(a, b)
    BY DEF CopiesInv
  <2>3. CASE b.made < a.made
    <3>1. Below(b, a)
      BY <2>3 DEF CopiesInv
    <3> QED
      BY <2>1, <2>3, <3>1 DEF Below
  <2>4. CASE a.made = b.made
    <3>1. a = b
      BY <2>4 DEF CopiesInv
    <3> QED
      BY <2>1, <2>4, <3>1 DEF Below
  <2> QED
    BY <2>1, <2>2, <2>3, <2>4
<1> QED
  BY <1>1, <1>2, OrderStep, PTL DEF ConfigSpec

-------------------------------------------------------------------------------
(* The service.                                                            *)
Alive  == {"start_pending", "running", "stop_pending"}
Phases == {"loading", "loaded", "capturing", "joining"}
Procs  == [at : Phases, live : Alive, stop : BOOLEAN, conf : Int, answer : Alive \cup {"no"}]
Kinds  == Requests \cup {"none", "start_capture"}
Stages == {"idle", "register", "look", "stop", "await_stopped", "start", "await_running",
           "look_again", "delete", "done"}
Jobs   == [kind : Kinds, at : Stages, ok : BOOLEAN]

\* The manager holds the state the process reported last; RUNNING is reported by a
\* process that has loaded its configuration, and no stale answer brings it back.
ManagerInv ==
  /\ proc = NoProc \/ proc \in Procs
  /\ proc = NoProc => scm \in {"stopped", "absent"}
  /\ proc # NoProc => scm = proc.live
  /\ proc.live = "running" => proc.at \in {"capturing", "joining"}
  /\ proc.answer = "running" => proc.live = "running"
  /\ queued \in BOOLEAN /\ fell \in BOOLEAN /\ (queued => fell)

\* Which request is at which stage.
JobInv ==
  /\ job \in Jobs /\ conf \in Nat
  /\ job.at = "look_again" => job.kind = "finish"
  /\ job.kind = "finish" => job.at \notin {"idle", "register", "delete"}
  /\ job.kind = "start_capture" => job.at \in {"start", "await_running", "done"}

\* A stop that was confirmed leaves no process, no restart and nobody who starts one.
QuietInv ==
  quiet => /\ proc = NoProc /\ ~queued
           /\ job.kind \notin {"finish", "start", "start_capture"}
           /\ job.at \notin {"start", "await_stopped", "await_running", "look_again"}
           /\ ~(job.kind = "restart" /\ job.at = "stop")

\* A process that runs on settings older than the file's.
Behind == proc # NoProc /\ proc.at # "loading" /\ proc.conf # conf

\* Once the wizard has looked, a process that is behind is on its way out, or about to
\* be told: it will not be seen RUNNING again.
SettingsInv ==
  job.kind \in {"finish", "start_capture"} /\ ~missed =>
    /\ job.at = "stop" /\ Behind => proc.at \in {"capturing", "joining"}
    /\ job.at \in {"await_stopped", "start", "await_running", "look_again"} /\ Behind =>
         proc.at \in {"capturing", "joining"} /\ proc.live # "running"
    /\ job.at = "done" /\ job.ok => seen = conf

ServiceInv == ManagerInv /\ JobInv /\ QuietInv /\ SettingsInv

\* A process that has ended, and one that has just been started.
LEMMA NoProcIs ==
  /\ NoProc.at = "none" /\ NoProc.live = "stopped" /\ NoProc.answer = "no"
  /\ NoProc \notin Procs
BY DEF NoProc, Procs, Phases

Loading == [at |-> "loading", live |-> "start_pending", stop |-> FALSE, conf |-> -1,
            answer |-> "no"]

LEMMA LoadingIs ==
  /\ Loading \in Procs /\ Loading # NoProc
  /\ Loading.at = "loading" /\ Loading.live = "start_pending" /\ Loading.answer = "no"
<1>1. FALSE \in BOOLEAN /\ -1 \in Int
  OBVIOUS
<1>2. Loading \in Procs
  BY <1>1 DEF Loading, Procs, Phases, Alive
<1>3. Loading.at = "loading" /\ Loading.live = "start_pending" /\ Loading.answer = "no"
  BY DEF Loading
<1> QED
  BY <1>2, <1>3, NoProcIs

LEMMA LaunchedIs ==
  ASSUME NEW p, \/ p = [[NoProc EXCEPT !.at = "loading"] EXCEPT !.live = "start_pending"]
                \/ p = [NoProc EXCEPT !.at = "loading", !.live = "start_pending"]
  PROVE  p = Loading
<1>1. CASE p = [[NoProc EXCEPT !.at = "loading"] EXCEPT !.live = "start_pending"]
  BY <1>1 DEF NoProc, Loading
<1>2. CASE p = [NoProc EXCEPT !.at = "loading", !.live = "start_pending"]
  BY <1>2 DEF NoProc, Loading
<1> QED
  BY <1>1, <1>2

LEMMA LaunchStarts ==
  ASSUME Launch, ManagerInv
  PROVE  /\ ManagerInv' /\ ~Behind' /\ ~queued' /\ proc' # NoProc /\ proc = NoProc
<1>1. /\ proc' = [[NoProc EXCEPT !.at = "loading"] EXCEPT !.live = "start_pending"]
      /\ scm' = "start_pending" /\ queued' = FALSE /\ fell' = FALSE /\ proc.at = "none"
  BY DEF Launch, Report
<1>2. proc = NoProc
  BY <1>1, NoProcIs DEF ManagerInv, Procs, Phases
<1>3. proc' = Loading
  BY <1>1, LaunchedIs
<1> QED
  BY <1>1, <1>2, <1>3, LoadingIs DEF ManagerInv, Behind

LEMMA ServiceStarts == ServiceInit => ServiceInv
<1> SUFFICES ASSUME ServiceInit PROVE ServiceInv
  OBVIOUS
<1>1. job = NoJob /\ NoJob \in Jobs /\ NoJob.at = "idle" /\ NoJob.kind = "none"
  BY DEF ServiceInit, NoJob, Jobs, Kinds, Stages
<1>2. ManagerInv
  BY NoProcIs DEF ServiceInit, ManagerInv
<1>3. JobInv /\ QuietInv /\ SettingsInv
  BY <1>1 DEF ServiceInit, JobInv, QuietInv, SettingsInv
<1> QED
  BY <1>2, <1>3 DEF ServiceInv

\* The steps of the process and of the manager, none of which touches the request.
LEMMA ProcessStep ==
  ASSUME ServiceInv, LoadConfig \/ Ready \/ SeesStop \/ Interrogate \/ Answers
  PROVE  ServiceInv'
<1>1. proc \in Procs /\ proc # NoProc /\ scm = proc.live
  BY NoProcIs DEF ServiceInv, ManagerInv, LoadConfig, Ready, SeesStop, Interrogate, Answers
<1>2. UNCHANGED <<queued, conf, job, fell, quiet, missed, seen>>
  BY DEF LoadConfig, Ready, SeesStop, Interrogate, Answers, Report
<1>3. ~quiet
  BY <1>1 DEF ServiceInv, QuietInv
<1>4. /\ proc' \in Procs /\ scm' = proc'.live
      /\ proc'.live = "running" => proc'.at \in {"capturing", "joining"}
      /\ proc'.answer = "running" => proc'.live = "running"
  <2>1. CASE LoadConfig
    <3>1. conf \in Int /\ proc' = [proc EXCEPT !.at = "loaded", !.conf = conf]
      BY <2>1 DEF LoadConfig, ServiceInv, JobInv
    <3>2. proc' \in Procs
      BY <1>1, <3>1 DEF Procs, Phases
    <3>3. proc'.at = "loaded" /\ proc'.live = proc.live /\ proc'.answer = proc.answer
      BY <1>1, <3>1 DEF Procs
    <3> QED
      BY <1>1, <2>1, <3>2, <3>3 DEF LoadConfig, ServiceInv, ManagerInv
  <2>2. CASE Ready
    <3>1. /\ proc'.at = "capturing" /\ proc'.live = "running" /\ proc' \in Procs
      BY <1>1, <2>2 DEF Ready, Report, Procs, Phases, Alive
    <3> QED
      BY <2>2, <3>1 DEF Ready, Report
  <2>3. CASE SeesStop
    <3>1. /\ proc'.at = "joining" /\ proc'.live = proc.live /\ proc'.answer = proc.answer
          /\ proc' \in Procs
      BY <1>1, <2>3 DEF SeesStop, Procs, Phases
    <3> QED
      BY <1>1, <2>3, <3>1 DEF SeesStop, ServiceInv, ManagerInv
  <2>4. CASE Interrogate
    <3>1. /\ proc'.at = proc.at /\ proc'.live = proc.live /\ proc'.answer = proc.live
          /\ proc' \in Procs
      BY <1>1, <2>4 DEF Interrogate, Procs
    <3> QED
      BY <1>1, <2>4, <3>1 DEF Interrogate, ServiceInv, ManagerInv
  <2>5. CASE Answers
    <3>1. /\ proc'.at = proc.at /\ proc'.live = proc.answer /\ proc'.answer = "no"
          /\ proc' \in Procs
      BY <1>1, <2>5 DEF Answers, Report, Procs
    <3> QED
      BY <1>1, <2>5, <3>1 DEF Answers, Report, ServiceInv, ManagerInv
  <2> QED
    BY <2>1, <2>2, <2>3, <2>4, <2>5
<1>5. ManagerInv'
  BY <1>1, <1>2, <1>4, NoProcIs DEF ServiceInv, ManagerInv
<1>6. \/ ~Behind'
      \/ /\ Behind /\ proc.at \in {"loaded", "capturing", "joining"}
         /\ proc.at \in {"capturing", "joining"} => proc'.at \in {"capturing", "joining"}
         /\ proc.live # "running" /\ proc.at # "loaded" => proc'.live # "running"
  <2>1. CASE LoadConfig
    BY <1>1, <1>2, <2>1 DEF LoadConfig, Procs, Behind
  <2>2. CASE Ready
    BY <1>1, <1>2, <2>2 DEF Ready, Report, Procs, Behind
  <2>3. CASE SeesStop
    BY <1>1, <1>2, <2>3 DEF SeesStop, Procs, Behind
  <2>4. CASE Interrogate
    BY <1>1, <1>2, <2>4 DEF Interrogate, Procs, Phases, Behind
  <2>5. CASE Answers
    BY <1>1, <1>2, <2>5 DEF Answers, Report, Procs, Phases, Behind, ServiceInv, ManagerInv
  <2> QED
    BY <2>1, <2>2, <2>3, <2>4, <2>5
<1>7. SettingsInv'
  BY <1>2, <1>6 DEF ServiceInv, SettingsInv
<1> QED
  BY <1>2, <1>3, <1>5, <1>7 DEF ServiceInv, JobInv, QuietInv

\* The process ends: it stops, fails or is killed.
LEMMA EndStep ==
  ASSUME ServiceInv, BodyReturns \/ BodyRaises \/ Killed
  PROVE  ServiceInv'
<1>1. /\ proc.at # "none" /\ proc' = NoProc /\ scm' \in {"stopped", "absent"}
      /\ UNCHANGED <<conf, job, quiet, missed, seen>>
      /\ queued' \in BOOLEAN /\ fell' \in BOOLEAN /\ (queued' => fell')
  BY DEF BodyReturns, BodyRaises, Killed, Fault, Ended, ServiceInv, ManagerInv
<1>2. ManagerInv' /\ ~Behind'
  BY <1>1, NoProcIs DEF ManagerInv, Behind
<1>3. ~quiet
  BY <1>1, NoProcIs DEF ServiceInv, QuietInv
<1>4. SettingsInv'
  BY <1>1, <1>2 DEF ServiceInv, SettingsInv
<1> QED
  BY <1>1, <1>2, <1>3, <1>4 DEF ServiceInv, JobInv, QuietInv
\* What callers do leaves a process alone or starts one, but for the stop control.
LEMMA BeginStep ==
  ASSUME ServiceInv, NEW kind \in Requests, Begin(kind)
  PROVE  ServiceInv'
<1>1. job = NoJob /\ NoJob = [kind |-> "none", at |-> "idle", ok |-> TRUE]
  BY DEF Begin, NoJob
<1>2. /\ job' \in Jobs /\ job'.kind = kind
      /\ job'.at = IF kind \in {"finish", "restart"} THEN "look"
                   ELSE IF kind = "start" THEN "start"
                   ELSE IF kind \in {"stop", "remove"} THEN "stop" ELSE "register"
  BY <1>1 DEF Begin, Requests, Jobs, Kinds, Stages
<1>3. conf' \in Nat /\ (conf' = conf \/ kind = "finish")
  BY DEF Begin, ServiceInv, JobInv
<1>4. UNCHANGED <<scm, repair, queued, doomed, proc, faults, fell, crashed>>
  BY DEF Begin
<1>5. quiet' = (quiet /\ kind \notin {"start", "finish"})
  BY DEF Begin
<1>6. ManagerInv'
  BY <1>4 DEF ServiceInv, ManagerInv
<1>7. JobInv'
  BY <1>2, <1>3 DEF JobInv, Requests
<1>8. QuietInv'
  BY <1>2, <1>4, <1>5 DEF ServiceInv, QuietInv, Requests
<1>9. SettingsInv'
  BY <1>2 DEF SettingsInv, Requests
<1> QED
  BY <1>6, <1>7, <1>8, <1>9 DEF ServiceInv

\* The steps of a request that leave the service alone.
LEMMA JobStep ==
  ASSUME ServiceInv, Look \/ AwaitStopped \/ AwaitRunning \/ LookAgain \/ Dismiss
  PROVE  ServiceInv'
<1>1. UNCHANGED <<scm, queued, proc, conf, fell>>
  BY DEF Look, AwaitStopped, AwaitRunning, LookAgain, Dismiss
<1>2. ManagerInv' /\ (Behind <=> Behind')
  BY <1>1 DEF ServiceInv, ManagerInv, Behind
<1>3. job \in Jobs
  BY DEF ServiceInv, JobInv
<1>4. CASE Look
  <2>1. /\ job.at = "look" /\ job'.kind = job.kind /\ job' \in Jobs
        /\ job'.at \in {"stop", "look_again", "done"} /\ UNCHANGED <<quiet, seen>>
    BY <1>3, <1>4 DEF Look, Step, Done, Jobs, Stages
  <2>2. job'.at = "look_again" => job.kind = "finish"
    BY <1>3, <1>4 DEF Look, Step, Done, Jobs
  <2>3. job'.at = "done" => job.kind # "finish"
    BY <1>3, <1>4 DEF Look, Step, Done, Jobs
  <2>4. job'.at = "stop" => scm = "running"
    BY <1>3, <1>4 DEF Look, Step, Done, Jobs
  <2>5. job'.at # "stop" /\ ~missed' => scm \in {"stopped", "absent"}
    BY <1>3, <1>4 DEF Look, Step, Done, Jobs
  <2>6. scm = "running" => proc # NoProc /\ proc.live = "running"
    BY DEF ServiceInv, ManagerInv
  <2>7. scm \in {"stopped", "absent"} => proc = NoProc
    BY DEF ServiceInv, ManagerInv, Procs, Alive
  <2>8. JobInv'
    BY <1>1, <2>1, <2>2 DEF ServiceInv, JobInv
  <2>9. QuietInv'
    BY <1>1, <2>1, <2>2, <2>4, <2>6 DEF ServiceInv, QuietInv
  <2>10. SettingsInv'
    BY <1>1, <2>1, <2>3, <2>4, <2>5, <2>6, <2>7 DEF ServiceInv, ManagerInv, JobInv, SettingsInv,
       Behind
  <2> QED
    BY <1>2, <2>8, <2>9, <2>10 DEF ServiceInv
<1>5. CASE AwaitStopped
  <2>1. /\ job.at = "await_stopped" /\ job'.kind = job.kind /\ job' \in Jobs
        /\ UNCHANGED <<missed, seen>>
    BY <1>3, <1>5 DEF AwaitStopped, Stopped, StopFailed, Step, Done, Jobs, Stages
  <2>2. job.kind = "finish" => job'.at \in {"start", "look_again"}
    BY <1>3, <1>5 DEF AwaitStopped, Stopped, StopFailed, Step, Done, Jobs
  <2>3. job'.at = "look_again" => job.kind = "finish"
    BY <1>3, <1>5 DEF AwaitStopped, Stopped, StopFailed, Step, Done, Jobs
  <2>4. quiet' => quiet \/ (job.kind = "stop" /\ ~fell /\ scm = "stopped" /\ job'.at = "done")
    BY <1>3, <1>5 DEF AwaitStopped, Stopped, StopFailed, Step, Done, Jobs
  <2>5. scm = "stopped" => proc = NoProc
    BY DEF ServiceInv, ManagerInv, Procs, Alive
  <2>6. JobInv'
    BY <1>1, <2>1, <2>2, <2>3 DEF ServiceInv, JobInv
  <2>7. QuietInv'
    BY <1>1, <2>1, <2>4, <2>5 DEF ServiceInv, QuietInv, ManagerInv
  <2>8. SettingsInv'
    BY <1>1, <1>2, <2>1, <2>2 DEF ServiceInv, JobInv, SettingsInv
  <2> QED
    BY <1>2, <2>6, <2>7, <2>8 DEF ServiceInv
<1>6. CASE AwaitRunning
  <2>1. /\ job.at = "await_running" /\ job'.kind = job.kind /\ job' \in Jobs
        /\ UNCHANGED <<missed, quiet>>
    BY <1>3, <1>6 DEF AwaitRunning, Step, Done, Jobs, Stages
  <2>2. job'.at = IF job.kind = "finish" THEN "look_again" ELSE "done"
    BY <1>3, <1>6 DEF AwaitRunning, Step, Done, Jobs
  <2>3. job'.at = "done" /\ job'.ok => scm = "running" /\ seen' = proc.conf
    BY <1>3, <1>6, <2>2 DEF AwaitRunning, Step, Done, Jobs
  <2>4. scm = "running" => proc # NoProc /\ proc.live = "running" /\ proc.at # "loading"
    BY DEF ServiceInv, ManagerInv
  <2>5. JobInv'
    BY <1>1, <2>1, <2>2 DEF ServiceInv, JobInv
  <2>6. QuietInv'
    BY <1>1, <2>1 DEF ServiceInv, QuietInv
  <2>7. SettingsInv'
    BY <1>1, <1>2, <2>1, <2>2, <2>3, <2>4 DEF ServiceInv, JobInv, SettingsInv, Behind
  <2> QED
    BY <1>2, <2>5, <2>6, <2>7 DEF ServiceInv
<1>7. CASE LookAgain
  <2>1. /\ job.at = "look_again" /\ job' \in Jobs /\ UNCHANGED <<missed, quiet>>
        /\ \/ job'.kind = job.kind /\ job'.at = "done" /\ scm = "running" /\ seen' = proc.conf
           \/ job'.kind = "start_capture" /\ job'.at = "start"
    BY <1>3, <1>7 DEF LookAgain, Done, Jobs, Stages, Kinds
  <2>2. scm = "running" => proc # NoProc /\ proc.live = "running" /\ proc.at # "loading"
    BY DEF ServiceInv, ManagerInv
  <2>3. JobInv'
    BY <1>1, <2>1 DEF ServiceInv, JobInv
  <2>4. QuietInv'
    BY <1>1, <2>1 DEF ServiceInv, QuietInv
  <2>5. SettingsInv'
    BY <1>1, <1>2, <2>1, <2>2 DEF ServiceInv, JobInv, SettingsInv, Behind
  <2> QED
    BY <1>2, <2>3, <2>4, <2>5 DEF ServiceInv
<1>8. CASE Dismiss
  <2>1. job' \in Jobs /\ job'.kind = "none" /\ job'.at = "idle" /\ UNCHANGED quiet
    BY <1>8 DEF Dismiss, NoJob, Jobs, Kinds, Stages
  <2> QED
    BY <1>1, <1>2, <2>1 DEF ServiceInv, JobInv, QuietInv, SettingsInv
<1> QED
  BY <1>4, <1>5, <1>6, <1>7, <1>8
LEMMA StopStep == ASSUME ServiceInv, StopService PROVE ServiceInv'
<1>1. job.at = "stop" /\ job \in Jobs /\ UNCHANGED <<queued, conf, fell, missed, seen>>
  BY DEF StopService, ServiceInv, JobInv
<1>2. CASE OnStop /\ Step("await_stopped") /\ UNCHANGED quiet
  <2>1. proc \in Procs /\ proc # NoProc /\ scm = "running" /\ proc.live = "running"
    BY <1>2 DEF OnStop, ServiceInv, ManagerInv
  <2>2. /\ proc' = [[proc EXCEPT !.stop = TRUE] EXCEPT !.live = "stop_pending"]
        /\ scm' = "stop_pending" /\ proc.answer = "no"
    BY <1>2 DEF OnStop, Report
  <2>3. proc' \in Procs /\ proc'.live = "stop_pending" /\ proc'.answer = "no"
    BY <2>1, <2>2 DEF Procs, Alive
  <2>4. proc'.at = proc.at /\ proc'.conf = proc.conf
    BY <2>1, <2>2 DEF Procs
  <2>5. ~quiet
    BY <2>1 DEF ServiceInv, QuietInv
  <2>6. job' \in Jobs /\ job'.at = "await_stopped" /\ job'.kind = job.kind
    BY <1>1, <1>2 DEF Step, Jobs, Stages
  <2>7. ManagerInv'
    BY <1>1, <2>2, <2>3, NoProcIs DEF ServiceInv, ManagerInv
  <2>8. JobInv'
    BY <1>1, <2>6 DEF ServiceInv, JobInv
  <2>9. SettingsInv'
    BY <1>1, <2>1, <2>3, <2>4, <2>6 DEF ServiceInv, ManagerInv, SettingsInv, Behind
  <2> QED
    BY <1>2, <2>5, <2>7, <2>8, <2>9 DEF ServiceInv, QuietInv
<1>3. CASE scm = "stopped" /\ Stopped /\ quiet' = (job.kind = "stop" /\ ~queued)
           /\ UNCHANGED <<scm, proc>>
  <2>1. proc = NoProc
    BY <1>3 DEF ServiceInv, ManagerInv, Procs, Alive
  <2>2. /\ job' \in Jobs /\ job'.kind = job.kind /\ job'.at \in {"done", "delete", "start"}
        /\ job.kind = "stop" => job'.at = "done"
        /\ job.kind = "finish" => job'.at = "start"
    BY <1>1, <1>3 DEF Stopped, Step, Done, Jobs, Stages
  <2>3. ManagerInv' /\ ~Behind'
    BY <1>1, <1>3, <2>1 DEF ServiceInv, ManagerInv, Behind
  <2>4. JobInv'
    BY <1>1, <2>2 DEF ServiceInv, JobInv
  <2>5. QuietInv'
    BY <1>1, <1>3, <2>1, <2>2 DEF QuietInv
  <2>6. SettingsInv'
    BY <1>1, <2>2, <2>3 DEF ServiceInv, JobInv, SettingsInv
  <2> QED
    BY <2>3, <2>4, <2>5, <2>6 DEF ServiceInv
<1>4. CASE scm \notin {"running", "stopped"} /\ StopFailed /\ UNCHANGED <<scm, proc, quiet>>
  <2>1. /\ job' \in Jobs /\ job'.kind = job.kind
        /\ job'.at \in {"look_again", "delete", "done"}
        /\ job'.at = "look_again" <=> job.kind = "finish"
    BY <1>1, <1>4 DEF StopFailed, Step, Done, Jobs, Stages
  <2>2. ManagerInv' /\ (Behind' <=> Behind)
    BY <1>1, <1>4 DEF ServiceInv, ManagerInv, Behind
  <2>3. JobInv'
    BY <1>1, <2>1 DEF ServiceInv, JobInv
  <2>4. QuietInv'
    BY <1>1, <1>4, <2>1 DEF ServiceInv, QuietInv
  <2>5. SettingsInv'
    BY <1>1, <1>4, <2>1, <2>2 DEF ServiceInv, ManagerInv, JobInv, SettingsInv, Behind
  <2> QED
    BY <2>2, <2>3, <2>4, <2>5 DEF ServiceInv
<1> QED
  BY <1>2, <1>3, <1>4 DEF StopService

LEMMA StartStep == ASSUME ServiceInv, StartService PROVE ServiceInv'
<1>1. /\ job.at = "start" /\ job \in Jobs /\ ~quiet
      /\ UNCHANGED <<conf, quiet, missed, seen>>
  BY DEF StartService, ServiceInv, JobInv, QuietInv
<1>2. CASE Launch /\ Step("await_running")
  <2>1. ManagerInv' /\ ~Behind'
    BY <1>2, LaunchStarts DEF ServiceInv
  <2>2. job' \in Jobs /\ job'.kind = job.kind /\ job'.at = "await_running"
    BY <1>1, <1>2 DEF Step, Jobs, Stages
  <2> QED
    BY <1>1, <2>1, <2>2 DEF ServiceInv, JobInv, QuietInv, SettingsInv
<1>3. CASE Done(FALSE) /\ UNCHANGED <<scm, proc, queued, fell>>
  <2>1. job' \in Jobs /\ job'.kind = job.kind /\ job'.at = "done" /\ ~job'.ok
    BY <1>1, <1>3 DEF Done, Jobs, Stages
  <2> QED
    BY <1>1, <1>3, <2>1 DEF ServiceInv, ManagerInv, JobInv, QuietInv, SettingsInv
<1> QED
  BY <1>2, <1>3 DEF StartService

\* The manager starts it: after the delay, or at boot.
LEMMA ManagerStarts == ASSUME ServiceInv, FailureAction \/ Boot PROVE ServiceInv'
<1>1. CASE FailureAction
  <2>1. ManagerInv' /\ ~Behind' /\ UNCHANGED <<conf, job, quiet, missed, seen>> /\ queued
    BY <1>1, LaunchStarts DEF ServiceInv, FailureAction
  <2>2. ~quiet
    BY <2>1 DEF ServiceInv, QuietInv
  <2> QED
    BY <2>1, <2>2 DEF ServiceInv, JobInv, QuietInv, SettingsInv
<1>2. CASE Boot
  <2>1. /\ proc' = Loading /\ scm' = "start_pending" /\ queued' = FALSE /\ fell' = FALSE
        /\ quiet' = FALSE /\ UNCHANGED <<conf, job, missed, seen>>
    BY <1>2, LaunchedIs DEF Boot
  <2>2. ManagerInv' /\ ~Behind'
    BY <2>1, LoadingIs DEF ManagerInv, Behind
  <2> QED
    BY <2>1, <2>2 DEF ServiceInv, JobInv, QuietInv, SettingsInv
<1> QED
  BY <1>1, <1>2

LEMMA InstallStep == ASSUME ServiceInv, Register \/ Delete PROVE ServiceInv'
<1>1. /\ job.at \in {"register", "delete"} /\ job \in Jobs
      /\ UNCHANGED <<proc, conf, quiet, missed, seen, fell>>
      /\ job.kind \notin {"finish", "start_capture"}
  BY DEF Register, Delete, ServiceInv, JobInv
<1>2. job' \in Jobs /\ job'.kind = job.kind /\ job'.at = "done"
  BY <1>1 DEF Register, Delete, Done, Jobs, Stages
<1>3. scm' = scm \/ (scm \in {"stopped", "absent"} /\ scm' \in {"stopped", "absent"})
  BY DEF Register, Delete
<1>4. queued' \in BOOLEAN /\ (queued' => queued)
  <2>1. queued \in BOOLEAN
    BY DEF ServiceInv, ManagerInv
  <2>2. UNCHANGED queued \/ queued' = FALSE
    BY Zenon DEF Register, Delete
  <2>3. CASE UNCHANGED queued
    BY <2>1, <2>3, Zenon
  <2>4. CASE queued' = FALSE
    BY <2>4, Zenon
  <2> QED
    BY <2>2, <2>3, <2>4
<1>5. ManagerInv'
  <2>1. CASE proc = NoProc
    BY <1>1, <1>3, <1>4, <2>1 DEF ServiceInv, ManagerInv
  <2>2. CASE proc # NoProc
    <3>1. scm = proc.live /\ proc.live \in Alive
      BY <2>2 DEF ServiceInv, ManagerInv, Procs
    <3>2. scm' = scm
      BY <1>3, <3>1 DEF Alive
    <3> QED
      BY <1>1, <1>4, <2>2, <3>2 DEF ServiceInv, ManagerInv
  <2> QED
    BY <2>1, <2>2
<1> QED
  BY <1>1, <1>2, <1>4, <1>5 DEF ServiceInv, JobInv, QuietInv, SettingsInv

LEMMA ServiceStep == ServiceInv /\ [ServiceNext]_serviceVars => ServiceInv'
<1> SUFFICES ASSUME ServiceInv, [ServiceNext]_serviceVars PROVE ServiceInv'
  OBVIOUS
<1>1. CASE UNCHANGED serviceVars
  BY <1>1 DEF serviceVars, ServiceInv, ManagerInv, JobInv, QuietInv, SettingsInv, Behind
<1> QED
  BY <1>1, ProcessStep, EndStep, BeginStep, JobStep, StopStep, StartStep, ManagerStarts,
     InstallStep DEF ServiceNext, Process, Caller

\* Nothing brings a service back that was stopped, but an operator or a boot: no
\* failure action, no answer that comes late, no request under way.
THEOREM StopIsFinal == ServiceSpec => []StoppedStaysStopped
<1>1. ServiceInv => StoppedStaysStopped
  BY NoProcIs DEF ServiceInv, QuietInv, StoppedStaysStopped
<1> QED
  BY <1>1, ServiceStarts, ServiceStep, PTL DEF ServiceSpec

\* What the wizard says is running runs on the settings it has just saved.
THEOREM SavedSettingsRun == ServiceSpec => []NewSettingsRun
<1>1. ServiceInv => NewSettingsRun
  BY DEF ServiceInv, SettingsInv, NewSettingsRun
<1> QED
  BY <1>1, ServiceStarts, ServiceStep, PTL DEF ServiceSpec
===============================================================================
