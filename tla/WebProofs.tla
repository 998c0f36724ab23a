------------------------------- MODULE WebProofs -------------------------------
(***************************************************************************)
(* What the web UI promises whoever asks it: what a player assembles of a  *)
(* video that is replaced under it, for videos of any size and any number  *)
(* of encodes; that no page is served without a login and nobody is logged *)
(* out by another's, for any number of browsers and sessions; that the     *)
(* overview and the panel of updates never claim more than is so; and when *)
(* the checker asks and `timelapse update` installs.                       *)
(***************************************************************************)
EXTENDS VideoServing, Sessions, StatusPage, Updates, SequenceTheorems,
        FiniteSetTheorems, TLAPS

-------------------------------------------------------------------------------
(* A video.                                                                *)
Files == [ver : Int, size : Int]

ReplyTypeOK ==
  \/ reply = NoReply
  \/ reply.at \in {"asked", "stat"}
  \/ \E was, handle \in Files : \E from :
       reply = [at |-> "body", row |-> was, handle |-> handle, from |-> from]

VideoTyped ==
  /\ file \in Files /\ past \subseteq Files
  /\ of \in Files /\ got \in Seq(Int) /\ ReplyTypeOK
  /\ reply.at = "stat" => reply.row \in Files

HistoryTyped == stale \in BOOLEAN /\ raced \in BOOLEAN /\ scribbled \in BOOLEAN

\* Nothing of a body is owed before it is promised, or when all was sent.
NothingOwed == reply.at # "body" /\ ~closed => left = 0

\* A condition is on what the player has, and a body is of what it was told it has.
OfOneEncode ==
  /\ reply.at \in {"asked", "stat"} => reply.if \in {Gone, of}
  /\ reply.at = "body" =>
       reply.row = of /\ (reply.handle.ver = of.ver \/ stale \/ raced \/ scribbled)

VideoInv == VideoTyped /\ HistoryTyped /\ NothingOwed /\ OfOneEncode /\ NeverSpliced

LEMMA VideoStarts == VideoInit => VideoInv
<1> SUFFICES ASSUME VideoInit PROVE VideoInv
  OBVIOUS
<1>1. file \in Files /\ of \in Files /\ past \subseteq Files
  BY VideoAssumption DEF VideoInit, Files, Gone
<1>2. got = <<>> /\ got \in Seq(Int) /\ reply = NoReply /\ reply.at = "none" /\ left = 0
  BY EmptySeq DEF VideoInit, NoReply
<1>4. HistoryTyped
  BY DEF VideoInit, HistoryTyped
<1>3. NeverSpliced
  BY <1>2 DEF NeverSpliced
<1> QED
  BY <1>1, <1>2, <1>3, <1>4 DEF VideoInv, VideoTyped, ReplyTypeOK, NothingOwed, OfOneEncode

\* What the histories are, no more.
LEMMA HistoryStep == VideoInv /\ [VideoNext]_videoVars => HistoryTyped'
<1> SUFFICES ASSUME VideoInv, [VideoNext]_videoVars PROVE HistoryTyped'
  OBVIOUS
<1>1. CASE UNCHANGED <<stale, raced, scribbled>>
  BY <1>1, Zenon DEF VideoInv, HistoryTyped
<1>2. CASE OpenAndSend
  <2>1. CASE /\ stale' = (reply.row # reply.fresh \/ (stale /\ got' # <<>>))
             /\ raced' = (file # reply.fresh \/ (raced /\ got' # <<>>))
             /\ scribbled' = (scribbled /\ got' # <<>>)
    BY <2>1, Zenon DEF HistoryTyped
  <2> QED
    BY <1>1, <1>2, <2>1, Zenon DEF OpenAndSend, sent
<1>3. CASE \E size \in 1..MaxSize : Overwrite(size)
  BY <1>3, Zenon DEF Overwrite, VideoInv, HistoryTyped
<1>4. CASE ~(OpenAndSend \/ \E size \in 1..MaxSize : Overwrite(size))
  BY <1>1, <1>4, Zenon DEF VideoNext, videoVars, sent, Ask, Stat, Pump, BreakOff, Vanish, Replace
<1> QED
  BY <1>2, <1>3, <1>4

LEMMA OpeningStep ==
  ASSUME VideoInv, OpenAndSend
  PROVE  (VideoTyped /\ NothingOwed /\ OfOneEncode /\ NeverSpliced)'
<1> USE DEF VideoInv
<1>1. reply.at = "stat" /\ reply.row \in Files /\ file \in Files /\ UNCHANGED <<file, past, closed>>
  BY DEF OpenAndSend, VideoTyped
<1>2. CASE reply' = NoReply /\ left' = 0 /\ UNCHANGED sent
  <2>1. reply'.at = "none"
    BY <1>2 DEF NoReply
  <2> QED
    BY <1>1, <1>2, <2>1 DEF sent, VideoTyped, ReplyTypeOK, NothingOwed, OfOneEncode, NeverSpliced
<1>3. CASE /\ \E from : reply' = [at |-> "body", row |-> reply.row, handle |-> file,
                                          from |-> from]
           /\ of' = reply.row
           /\ got' = <<>> \/ (got' = got /\ reply.row = of)
           /\ stale' = (reply.row # reply.fresh \/ (stale /\ got' # <<>>))
           /\ raced' = (file # reply.fresh \/ (raced /\ got' # <<>>))
           /\ scribbled' = (scribbled /\ got' # <<>>)
  <2>1. PICK from : reply' = [at |-> "body", row |-> reply.row, handle |-> file,
                                      from |-> from]
    BY <1>3
  <2>2. ReplyTypeOK'
    BY <1>1, <2>1 DEF ReplyTypeOK
  <2>3. reply'.at = "body" /\ reply'.row = reply.row /\ reply'.handle = file
    BY <2>1
  <2>4. VideoTyped'
    <3>1. got' \in Seq(Int)
      BY <1>3, EmptySeq DEF VideoTyped
    <3>2. reply'.at # "stat"
      BY <2>3
    <3> QED
      BY <1>1, <1>3, <2>2, <3>1, <3>2 DEF VideoTyped
  <2>7. NothingOwed'
    BY <2>3 DEF NothingOwed
  <2>5. OfOneEncode'
    BY <1>1, <1>3, <2>3 DEF OfOneEncode
  <2>6. NeverSpliced'
    <3>1. CASE got' = <<>>
      BY <3>1 DEF NeverSpliced
    <3>2. CASE got' = got /\ got # <<>> /\ reply.row = of
      BY <3>2, <1>3 DEF NeverSpliced
    <3> QED
      BY <1>3, <3>1, <3>2
  <2> QED
    BY <2>4, <2>5, <2>6, <2>7
<1> QED
  <2> DEFINE b == RangeMeant
  <2>1. CASE ~(file = Gone \/ b.is = "416")
    <3>1. /\ reply' = [at |-> "body", row |-> reply.row, handle |-> file,
                       from |-> IF b.is = "part" THEN b.first ELSE 0]
          /\ of' = reply.row /\ got' = IF Continues(b) THEN got ELSE <<>>
          /\ stale' = (reply.row # reply.fresh \/ (stale /\ got' # <<>>))
          /\ raced' = (file # reply.fresh \/ (raced /\ got' # <<>>))
          /\ scribbled' = (scribbled /\ got' # <<>>)
      BY <2>1 DEF OpenAndSend
    <3>2. Continues(b) => reply.row = of
      <4> SUFFICES ASSUME Continues(b), reply.row # of PROVE FALSE
        OBVIOUS
      <4>1. b.is = "part" /\ reply.if # Gone
        BY DEF Continues
      <4>2. reply.if = of
        BY <1>1, <4>1 DEF OfOneEncode
      <4>3. b = [is |-> "all"]
        BY <4>1, <4>2 DEF RangeMeant
      <4> QED
        BY <4>1, <4>3
    <3> QED
      BY <1>3, <3>1, <3>2
  <2> QED
    BY <1>2, <2>1 DEF OpenAndSend

LEMMA PumpStep ==
  ASSUME VideoInv, Pump
  PROVE  (VideoTyped /\ NothingOwed /\ OfOneEncode /\ NeverSpliced)'
<1> USE DEF VideoInv
<1>1. PICK was \in Files, handle \in Files : \E from :
        reply = [at |-> "body", row |-> was, handle |-> handle, from |-> from]
  BY DEF Pump, VideoTyped, ReplyTypeOK, NoReply
<1>2. PICK from : reply = [at |-> "body", row |-> was, handle |-> handle, from |-> from]
  BY <1>1
<1>3. was = of /\ (handle.ver = of.ver \/ stale \/ raced \/ scribbled) /\ reply.handle = handle
  BY <1>2 DEF OfOneEncode
<1>4. UNCHANGED <<file, past, of, stale, raced, scribbled>>
  BY DEF Pump
<1>5. CASE reply' = NoReply /\ UNCHANGED got /\ (left' = 0 \/ closed')
  <2>1. reply'.at = "none"
    BY <1>5 DEF NoReply
  <2> QED
    BY <1>4, <1>5, <2>1 DEF VideoTyped, ReplyTypeOK, NothingOwed, OfOneEncode, NeverSpliced
<1>6. CASE reply' = [reply EXCEPT !.from = @ + 1] /\ got' = Kept(handle.ver)
  <2>1. reply' = [at |-> "body", row |-> was, handle |-> handle, from |-> from + 1]
    BY <1>2, <1>6
  <2>2. got' = got \/ got' = Append(got, handle.ver)
    BY <1>6 DEF Kept
  <2>3. got \in Seq(Int) /\ handle.ver \in Int
    BY DEF VideoTyped, Files
  <2>4. VideoTyped'
    <3>1. got' \in Seq(Int)
      BY <2>2, <2>3
    <3>2. ReplyTypeOK'
      BY <2>1 DEF ReplyTypeOK
    <3>3. reply'.at # "stat"
      BY <2>1
    <3> QED
      BY <1>4, <3>1, <3>2, <3>3 DEF VideoTyped
  <2>6. NothingOwed' /\ OfOneEncode'
    <3>1. reply'.at = "body" /\ reply'.row = was /\ reply'.handle = handle
      BY <2>1
    <3> QED
      BY <1>3, <1>4, <3>1 DEF NothingOwed, OfOneEncode
  <2>5. NeverSpliced'
    BY <1>3, <1>4, <2>2, <2>3 DEF NeverSpliced
  <2> QED
    BY <2>4, <2>5, <2>6
<1> QED
  BY <1>2, <1>3, <1>5, <1>6 DEF Pump

LEMMA OverwriteStep ==
  ASSUME VideoInv, NEW size \in 1..MaxSize, Overwrite(size)
  PROVE  (VideoTyped /\ NothingOwed /\ OfOneEncode /\ NeverSpliced)'
<1> USE DEF VideoInv
<1>1. file' = [ver |-> file.ver + 1, size |-> size] /\ file' \in Files /\ file' # file
  BY DEF Overwrite, VideoTyped, Files
<1>2. UNCHANGED <<left, got, of, closed, stale, raced>> /\ past' \subseteq Files
  BY <1>1 DEF Overwrite, VideoTyped
<1>3. CASE reply' = reply
  <2>1. scribbled' = scribbled
    BY <1>3, Zenon DEF Overwrite, HistoryTyped
  <2> QED
    BY <1>1, <1>2, <1>3, <2>1 DEF VideoTyped, ReplyTypeOK, NothingOwed, OfOneEncode, NeverSpliced
<1>4. CASE reply' # reply
  <2>1. scribbled' /\ reply.at = "body" /\ reply' = [reply EXCEPT !.handle = file']
    BY <1>4 DEF Overwrite
  <2>2. PICK was \in Files, handle \in Files : \E from :
          reply = [at |-> "body", row |-> was, handle |-> handle, from |-> from]
    BY <2>1 DEF VideoTyped, ReplyTypeOK, NoReply
  <2>3. PICK from : reply = [at |-> "body", row |-> was, handle |-> handle, from |-> from]
    BY <2>2
  <2>4. reply' = [at |-> "body", row |-> was, handle |-> file', from |-> from]
    BY <2>1, <2>3
  <2>5. was = of
    BY <2>3 DEF OfOneEncode
  <2> QED
    BY <1>1, <1>2, <2>1, <2>4, <2>5 DEF VideoTyped, ReplyTypeOK, NothingOwed, OfOneEncode, NeverSpliced
<1> QED
  BY <1>3, <1>4

LEMMA VideoStep == VideoInv /\ [VideoNext]_videoVars => VideoInv'
<1> SUFFICES ASSUME VideoInv, [VideoNext]_videoVars
             PROVE  (VideoTyped /\ NothingOwed /\ OfOneEncode /\ NeverSpliced)'
  BY HistoryStep DEF VideoInv
<1> USE DEF VideoInv
<1>1. ASSUME NEW range, NEW if \in {Gone, of}, Ask(range, if)
      PROVE  (VideoTyped /\ NothingOwed /\ OfOneEncode /\ NeverSpliced)'
  <2>1. reply' = [at |-> "asked", range |-> range, if |-> if]
    BY <1>1 DEF Ask
  <2>2. reply'.at = "asked" /\ reply'.if = if
    BY <2>1
  <2> QED
    BY <1>1, <2>2 DEF Ask, sent, VideoTyped, ReplyTypeOK, NothingOwed, OfOneEncode, NeverSpliced
<1>2. CASE Stat
  <2>1. CASE reply' = NoReply
    <3>1. reply'.at = "none"
      BY <2>1 DEF NoReply
    <3> QED
      BY <1>2, <2>1, <3>1 DEF Stat, sent, VideoTyped, ReplyTypeOK, NothingOwed, OfOneEncode, NeverSpliced
  <2>2. ASSUME NEW entry \in past,
               reply' = [at |-> "stat", range |-> reply.range, if |-> reply.if, row |-> entry,
                         fresh |-> file]
        PROVE  (VideoTyped /\ NothingOwed /\ OfOneEncode /\ NeverSpliced)'
    <3>1. reply'.at = "stat" /\ reply'.if = reply.if /\ reply'.row = entry
      BY <2>2
    <3> QED
      BY <1>2, <3>1 DEF Stat, sent, VideoTyped, ReplyTypeOK, NothingOwed, OfOneEncode, NeverSpliced
  <2> QED
    BY <1>2, <2>1, <2>2 DEF Stat
<1>3. CASE BreakOff
  <2>1. reply'.at = "none"
    BY <1>3 DEF BreakOff, NoReply
  <2> QED
    BY <1>3, <2>1 DEF BreakOff, sent, VideoTyped, ReplyTypeOK, NothingOwed, OfOneEncode, NeverSpliced
<1>4. CASE \E size \in 1..MaxSize : Replace(size)
  <2>1. file' \in Files /\ past' \subseteq Files
    BY <1>4 DEF Replace, VideoTyped, Files
  <2> QED
    BY <1>4, <2>1 DEF Replace, sent, VideoTyped, ReplyTypeOK, NothingOwed, OfOneEncode, NeverSpliced
<1>5. CASE Vanish
  <2>1. file' \in Files /\ past' \subseteq Files
    BY <1>5 DEF Vanish, Gone, Files, VideoTyped
  <2> QED
    BY <1>5, <2>1 DEF Vanish, sent, VideoTyped, ReplyTypeOK, NothingOwed, OfOneEncode, NeverSpliced
<1>6. CASE UNCHANGED videoVars
  BY <1>6 DEF videoVars, sent, VideoTyped, ReplyTypeOK, NothingOwed, OfOneEncode, NeverSpliced
<1> QED
  BY <1>1, <1>2, <1>3, <1>4, <1>5, <1>6, OpeningStep, PumpStep, OverwriteStep DEF VideoNext

\* A connection that is kept owes nothing of the last answer.
THEOREM FramingIsKept == VideoSpec => []FramingKept
<1>1. VideoInv => FramingKept
  BY DEF VideoInv, NothingOwed, FramingKept, NoReply
<1> QED
  BY <1>1, VideoStarts, VideoStep, PTL DEF VideoSpec

\* What a player assembles under one ETag is of one encode, where the row it was made
\* of was the request's own stat.
THEOREM EncodesAreNotSpliced == VideoSpec => []NeverSpliced
<1>1. VideoInv => NeverSpliced
  BY DEF VideoInv
<1> QED
  BY <1>1, VideoStarts, VideoStep, PTL DEF VideoSpec

-------------------------------------------------------------------------------
(* The login.  A live session is of a token that was made and not ended,   *)
(* and is as old as its last use.                                          *)
Requests ==
  [at : {"none", "refused", "sent to login", "opens", "pauses"}]
  \cup [at : {"served"}, route : Routes, token : Nat]

LoginInv ==
  /\ made \in Nat /\ cookie \in [Browsers -> 0..made]
  /\ request \in [Browsers -> Requests]
  /\ unused \in [1..made -> Nat] /\ ended \subseteq 1..made
  /\ Live \subseteq (1..made) \ ended /\ sessions \in [Live -> Nat]
  /\ \A t \in Live : unused[t] = sessions[t]

LEMMA AnswersTyped ==
  /\ NoRequest \in Requests
  /\ \A route \in Routes, t \in Nat : [at |-> "served", route |-> route, token |-> t] \in Requests
BY DEF NoRequest, Requests

LEMMA LoginStarts == SessionsInit => LoginInv
<1> SUFFICES ASSUME SessionsInit PROVE LoginInv
  OBVIOUS
<1>1. Live = {} /\ DOMAIN unused = {} /\ made = 0 /\ 1..0 = {}
  BY DEF SessionsInit, Live
<1>2. sessions \in [Live -> Nat] /\ unused \in [1..made -> Nat]
  BY <1>1, EmptySeq DEF SessionsInit
<1> QED
  BY <1>1, <1>2 DEF SessionsInit, LoginInv, NoToken, NoRequest, Requests

\* What is pruned, and what is touched, keeps the age of all the rest.
LEMMA PruneKeeps ==
  ASSUME LoginInv
  PROVE  /\ DOMAIN Pruned \subseteq Live /\ Pruned \in [DOMAIN Pruned -> Nat]
         /\ \A t \in DOMAIN Pruned : Pruned[t] = sessions[t] /\ sessions[t] <= Idle
BY DEF LoginInv, Pruned, Keep, Restrict, Live

LEMMA AskingStep ==
  ASSUME LoginInv, NEW b \in Browsers, NEW route \in Routes, AskPage(b, route)
  PROVE  /\ LoginInv'
         /\ request'[b].at = "served" /\ request'[b].route \notin Open /\ service # "none" =>
              /\ request'[b].token \in (1..made) \ ended /\ unused[request'[b].token] <= Idle
         /\ \A c \in Browsers \ {b} : request'[c] = request[c]
<1> DEFINE token == cookie[b]
           free  == service = "none" \/ route \in Open
           s     == IF free THEN sessions ELSE IF token = NoToken THEN sessions ELSE Touched(token)
<1>1. /\ sessions' = s
      /\ unused' = IF ~free /\ token \in DOMAIN s /\ token \in DOMAIN unused
                   THEN Set(unused, token, 0) ELSE unused
      /\ UNCHANGED <<login, service, cookie, made, ended>>
      /\ IF free \/ (token # NoToken /\ token \in DOMAIN s)
         THEN request' = [request EXCEPT ![b] = [at |-> "served", route |-> route,
                                                 token |-> IF free THEN NoToken ELSE token]]
         ELSE request' = [request EXCEPT ![b] =
                 [at |-> IF route \in Fragments THEN "refused" ELSE "sent to login"]]
  BY DEF AskPage
<1>2. token \in 0..made /\ NoToken = 0 /\ made \in Nat
  BY DEF LoginInv, NoToken
<1>3. PICK answer \in Requests :
        /\ request' = [request EXCEPT ![b] = answer]
        /\ IF free \/ (token # NoToken /\ token \in DOMAIN s)
           THEN answer = [at |-> "served", route |-> route,
                          token |-> IF free THEN NoToken ELSE token]
           ELSE answer.at # "served"
  <2>1. CASE free \/ (token # NoToken /\ token \in DOMAIN s)
    <3>1. [at |-> "served", route |-> route, token |-> IF free THEN NoToken ELSE token] \in Requests
      <4>1. NoToken \in Nat /\ token \in Nat
        BY <1>2
      <4> HIDE DEF free, token
      <4> QED
        BY <4>1, AnswersTyped
    <3> HIDE DEF free, s, token
    <3> QED
      BY <1>1, <2>1, <3>1
  <2>2. CASE ~(free \/ (token # NoToken /\ token \in DOMAIN s))
    <3> DEFINE answer == [at |-> IF route \in Fragments THEN "refused" ELSE "sent to login"]
    <3>1. answer \in Requests /\ answer.at # "served"
      BY DEF Requests
    <3> HIDE DEF free, s, token
    <3> QED
      BY <1>1, <2>2, <3>1
  <2> QED
    BY <2>1, <2>2
<1>4. /\ request' \in [Browsers -> Requests] /\ request'[b] = answer
      /\ \A c \in Browsers \ {b} : request'[c] = request[c]
  BY <1>3 DEF LoginInv
<1>5. CASE ~free /\ token # NoToken /\ token \in DOMAIN Pruned
  <2>1. s = [y \in DOMAIN Pruned |-> IF y = token THEN 0 ELSE Pruned[y]]
    <3>1. DOMAIN Pruned \cup {token} = DOMAIN Pruned
      BY <1>5
    <3>2. s = Set(Pruned, token, 0)
      BY <1>5 DEF Touched
    <3> HIDE DEF s, token
    <3> QED
      BY <3>1, <3>2 DEF Set
  <2>2. token \in Live /\ token \in (1..made) \ ended
    BY <1>5, PruneKeeps DEF LoginInv
  <2>3. unused' = [y \in 1..made |-> IF y = token THEN 0 ELSE unused[y]]
    <3>1. DOMAIN unused = 1..made /\ (1..made) \cup {token} = 1..made
      BY <2>2 DEF LoginInv
    <3>2. token \in DOMAIN s
      BY <1>5, <2>1
    <3>3. unused' = Set(unused, token, 0)
      BY <1>1, <1>5, <2>2, <3>1, <3>2
    <3> HIDE DEF s, token
    <3> QED
      BY <3>1, <3>3 DEF Set
  <2>4. LoginInv'
    <3>1. /\ DOMAIN s \subseteq Live /\ s \in [DOMAIN s -> Nat] /\ s[token] = 0
          /\ \A t \in DOMAIN s \ {token} : s[t] = sessions[t]
      BY <1>5, <2>1, PruneKeeps
    <3> HIDE DEF s, free, token
    <3>2. unused' \in [1..made -> Nat] /\ \A t \in DOMAIN s : unused'[t] = s[t]
      BY <2>2, <2>3, <3>1 DEF LoginInv
    <3> QED
      BY <1>1, <1>4, <3>1, <3>2 DEF LoginInv, Live
  <2>5. request'[b].token = token
    BY <1>3, <1>4, <1>5, <2>1
  <2>6. unused[token] <= Idle
    BY <1>5, <2>2, PruneKeeps DEF LoginInv
  <2> QED
    BY <1>4, <2>2, <2>4, <2>5, <2>6
<1>6. CASE free
  <2>1. LoginInv'
    BY <1>1, <1>4, <1>6 DEF LoginInv, Live
  <2>2. request'[b].route = route
    BY <1>3, <1>4, <1>6
  <2> QED
    BY <1>4, <1>6, <2>1, <2>2
<1>7. CASE ~free /\ ~(token # NoToken /\ token \in DOMAIN Pruned)
  <2>1. (s = sessions /\ token = NoToken) \/ (s = Pruned /\ token \notin DOMAIN s)
    BY <1>7 DEF Touched
  <2>2. token \notin DOMAIN s
    <3>1. NoToken \notin Live
      BY DEF LoginInv, NoToken
    <3> QED
      BY <2>1, <3>1 DEF Live
  <2>3. unused' = unused /\ request'[b].at # "served"
    BY <1>1, <1>3, <1>4, <1>7, <2>2
  <2>4. DOMAIN s \subseteq Live /\ s \in [DOMAIN s -> Nat] /\ \A t \in DOMAIN s : s[t] = sessions[t]
    BY <2>1, PruneKeeps DEF LoginInv, Live
  <2>5. LoginInv'
    <3> HIDE DEF s, free, token
    <3> QED
      BY <1>1, <1>4, <2>3, <2>4 DEF LoginInv, Live
  <2> QED
    BY <1>4, <2>3, <2>5
<1> QED
  BY <1>5, <1>6, <1>7

LEMMA OpeningSessionStep ==
  ASSUME LoginInv, NEW b \in Browsers, OpenSession(b)
  PROVE  LoginInv'
<1>1. PICK kept : /\ sessions' = Set(kept, made + 1, 0) /\ DOMAIN kept \subseteq DOMAIN Pruned
                  /\ \A t \in DOMAIN kept : kept[t] = Pruned[t]
  <2>1. \A S : DOMAIN Keep(Pruned, DOMAIN Pruned \ S) \subseteq DOMAIN Pruned
               /\ \A t \in DOMAIN Keep(Pruned, DOMAIN Pruned \ S) :
                    Keep(Pruned, DOMAIN Pruned \ S)[t] = Pruned[t]
    BY DEF Keep, Restrict
  <2> QED
    BY <2>1 DEF OpenSession, Opened
<1>2. /\ cookie' = [cookie EXCEPT ![b] = made + 1] /\ made' = made + 1
      /\ unused' = Set(unused, made + 1, 0) /\ UNCHANGED ended
      /\ request' = [request EXCEPT ![b] = NoRequest]
  BY DEF OpenSession
<1>3. made \in Nat /\ made + 1 \notin 1..made /\ 1..(made + 1) = (1..made) \cup {made + 1}
  BY DEF LoginInv
<1>4. DOMAIN kept \subseteq Live /\ \A t \in DOMAIN kept : kept[t] = sessions[t] /\ kept[t] \in Nat
  BY <1>1, PruneKeeps DEF LoginInv
<1>5. sessions' = [t \in DOMAIN kept \cup {made + 1} |-> IF t = made + 1 THEN 0 ELSE kept[t]]
  BY <1>1 DEF Set
<1>6. /\ unused' \in [1..(made + 1) -> Nat] /\ unused'[made + 1] = 0
      /\ \A t \in 1..made : unused'[t] = unused[t]
  <2>1. unused' = [t \in 1..(made + 1) |-> IF t = made + 1 THEN 0 ELSE unused[t]]
    BY <1>2, <1>3 DEF Set, LoginInv
  <2> QED
    BY <2>1, <1>3 DEF LoginInv
<1>7. cookie' \in [Browsers -> 0..(made + 1)] /\ request' \in [Browsers -> Requests]
  <2>1. cookie' \in [Browsers -> 0..(made + 1)]
    BY <1>2, <1>3 DEF LoginInv
  <2>2. request' \in [Browsers -> Requests]
    BY <1>2, AnswersTyped DEF LoginInv
  <2> QED
    BY <2>1, <2>2
<1>8. sessions' \in [Live' -> Nat] /\ Live' \subseteq (1..(made + 1)) \ ended
      /\ \A t \in Live' : unused'[t] = sessions'[t]
  BY <1>3, <1>4, <1>5, <1>6 DEF LoginInv, Live
<1> QED
  BY <1>2, <1>3, <1>6, <1>7, <1>8 DEF LoginInv

LEMMA LoginStep == LoginInv /\ [SessionsNext]_sessionVars => LoginInv'
<1> SUFFICES ASSUME LoginInv, [SessionsNext]_sessionVars PROVE LoginInv'
  OBVIOUS
<1>1. ASSUME NEW b \in Browsers, \E right \in BOOLEAN : PostLogin(b, right) PROVE LoginInv'
  <2>1. \A right \in BOOLEAN : [at |-> IF right THEN "opens" ELSE "pauses"] \in Requests
    BY DEF Requests
  <2> QED
    BY <1>1, <2>1 DEF PostLogin, LoginInv, Live
<1>2. ASSUME NEW b \in Browsers, Answer(b) \/ PauseEnds(b) PROVE LoginInv'
  <2>1. request' = [request EXCEPT ![b] = NoRequest]
    BY <1>2 DEF Answer, PauseEnds
  <2>2. request' \in [Browsers -> Requests]
    BY <2>1, AnswersTyped DEF LoginInv
  <2> QED
    BY <1>2, <2>2 DEF Answer, PauseEnds, LoginInv, Live
<1>3. ASSUME NEW b \in Browsers, Logout(b) PROVE LoginInv'
  <2>1. /\ DOMAIN sessions' = Live \ {cookie[b]}
        /\ \A t \in DOMAIN sessions' : sessions'[t] = sessions[t]
        /\ sessions' = [t \in DOMAIN sessions' |-> sessions'[t]]
    BY <1>3 DEF Logout, Keep, Restrict
  <2>2. ended' = ended \cup ({cookie[b]} \ {0}) /\ UNCHANGED <<made, unused, request>>
        /\ cookie' = [cookie EXCEPT ![b] = 0]
    BY <1>3 DEF Logout, NoToken
  <2>3. cookie' \in [Browsers -> 0..made] /\ ended' \subseteq 1..made
    <3>1. made \in Nat /\ cookie \in [Browsers -> 0..made] /\ ended \subseteq 1..made
      BY DEF LoginInv
    <3>2. cookie[b] \in 0..made
      BY <3>1
    <3>3. ended' \subseteq 1..made
      <4>1. cookie[b] = 0 \/ cookie[b] \in 1..made
        BY <3>1, <3>2
      <4> QED
        BY <2>2, <3>1, <4>1
    <3>4. cookie' \in [Browsers -> 0..made]
      BY <2>2, <3>1
    <3> QED
      BY <3>3, <3>4
  <2> QED
    BY <2>1, <2>2, <2>3 DEF LoginInv, Live
<1>4. ASSUME NEW b \in Browsers, \E c \in Browsers : CopyCookie(b, c) PROVE LoginInv'
  BY <1>4 DEF CopyCookie, LoginInv, Live
<1>5. CASE ChangeLogin \/ StartService
  BY <1>5 DEF ChangeLogin, StartService, LoginInv, Live
<1>6. CASE StopService
  <2>1. sessions' = <<>> /\ Live' = {} /\ sessions' \in [Live' -> Nat]
    BY <1>6, EmptySeq DEF StopService, Live
  <2> QED
    BY <1>6, <2>1 DEF StopService, LoginInv, NoRequest, Requests
<1>7. CASE TimePasses
  <2>1. \A a \in Nat : Wait1(a) \in Nat
    BY DEF Wait1
  <2> QED
    BY <1>7, <2>1 DEF TimePasses, LoginInv, Live
<1>8. CASE UNCHANGED sessionVars
  BY <1>8 DEF sessionVars, LoginInv, Live
<1> QED
  BY <1>1, <1>2, <1>3, <1>4, <1>5, <1>6, <1>7, <1>8, AskingStep, OpeningSessionStep
  DEF SessionsNext

\* No page but by a token that the right password opened, that was not logged out and
\* that was in use.
LEMMA NoPageWithoutLogin ==
  ASSUME LoginInv, [SessionsNext]_sessionVars,
         NEW b \in Browsers, request'[b] # request[b], request'[b].at = "served",
         request'[b].route \notin Open, service # "none"
  PROVE  request'[b].token \in (1..made) \ ended /\ unused[request'[b].token] <= Idle
<1>1. CASE \E c \in Browsers, route \in Routes : AskPage(c, route)
  BY <1>1, AskingStep
<1>2. ASSUME NEW c \in Browsers, NEW r, request' = [request EXCEPT ![c] = r], r.at # "served"
      PROVE  FALSE
  BY <1>2 DEF LoginInv
<1>3. ASSUME NEW c \in Browsers,
             (\E right \in BOOLEAN : PostLogin(c, right)) \/ Answer(c) \/ OpenSession(c)
             \/ PauseEnds(c)
      PROVE  FALSE
  <2>1. NoRequest.at # "served"
    BY DEF NoRequest
  <2>2. \A right \in BOOLEAN : [at |-> IF right THEN "opens" ELSE "pauses"].at # "served"
    OBVIOUS
  <2> QED
    BY <1>2, <1>3, <2>1, <2>2 DEF PostLogin, Answer, OpenSession, PauseEnds
<1>4. CASE StopService
  <2>1. request'[b] = NoRequest
    BY <1>4 DEF StopService
  <2> QED
    BY <2>1 DEF NoRequest
<1>5. CASE \/ \E c \in Browsers : Logout(c) \/ \E d \in Browsers : CopyCookie(c, d)
           \/ ChangeLogin \/ StartService \/ TimePasses \/ UNCHANGED sessionVars
  BY <1>5 DEF Logout, CopyCookie, ChangeLogin, StartService, TimePasses, sessionVars
<1> QED
  BY <1>1, <1>3, <1>4, <1>5 DEF SessionsNext

\* While a password is set, no page is served but to a token that the right password
\* opened, that was not logged out, and that was in use.
THEOREM LoginIsAsked == SessionsSpec => PagesNeedLogin
<1>1. LoginInv /\ [SessionsNext]_sessionVars =>
        [\A b \in Browsers :
           request'[b] # request[b] /\ request'[b].at = "served"
             /\ request'[b].route \notin Open /\ service # "none" =>
           /\ request'[b].token \in (1..made) \ ended
           /\ unused[request'[b].token] <= Idle]_sessionVars
  BY NoPageWithoutLogin
<1> QED
  BY <1>1, LoginStarts, LoginStep, PTL DEF SessionsSpec, PagesNeedLogin

\* The table holds no more sessions than it may.
Bounded == IsFiniteSet(Live) /\ Cardinality(Live) <= MaxSessions

\* What a page that is asked for drops from the table was not in use.
LEMMA AskingPrunes ==
  ASSUME LoginInv, NEW b \in Browsers, NEW route \in Routes, AskPage(b, route)
  PROVE  Live' \subseteq Live /\ \A t \in Live \ Live' : sessions[t] > Idle
<1>1. DOMAIN Pruned = {t \in Live : sessions[t] <= Idle}
  BY DEF Pruned, Keep, Restrict
<1>2. \A token : DOMAIN Touched(token) = DOMAIN Pruned
  BY DEF Touched, Set
<1>3. sessions' = sessions \/ \E token : sessions' = Touched(token)
  BY DEF AskPage
<1>4. Live' = Live \/ Live' = DOMAIN Pruned
  BY <1>2, <1>3 DEF Live
<1>5. Idle \in Nat /\ \A t \in Live : sessions[t] \in Nat
  BY SessionsAssumption DEF LoginInv
<1> QED
  BY <1>1, <1>4, <1>5

\* The three ways the table changes when a session is opened: nothing goes but what was
\* not in use, or what was used before all others of a full table does.
LEMMA OpeningEvicts ==
  ASSUME LoginInv, Bounded, NEW b \in Browsers, OpenSession(b)
  PROVE  /\ Bounded' /\ made' > made
         /\ \A t \in Live \ Live' :
              \/ sessions[t] > Idle
              \/ /\ Cardinality(Live) >= MaxSessions
                 /\ \A u \in Live : sessions[u] <= sessions[t]
<1> DEFINE P == DOMAIN Pruned
<1>1. /\ P = {t \in Live : sessions[t] <= Idle}
      /\ \A t \in P : Pruned[t] = sessions[t]
  BY DEF Pruned, Keep, Restrict
<1>2. /\ IsFiniteSet(P) /\ Cardinality(P) \in Nat /\ Cardinality(P) <= Cardinality(Live)
      /\ Cardinality(P) = Cardinality(Live) => P = Live
  BY <1>1, FS_Subset, FS_CardinalityType DEF Bounded
<1>3. /\ made \in Nat /\ made' = made + 1 /\ MaxSessions \in Nat \ {0} /\ Idle \in Nat
      /\ Cardinality(Live) \in Nat /\ \A t \in Live : sessions[t] \in Nat
  BY SessionsAssumption, FS_CardinalityType DEF LoginInv, OpenSession, Bounded
<1>4. made + 1 \notin Live
  BY <1>3 DEF LoginInv
<1>5. CASE Cardinality(P) >= MaxSessions
  <2>1. PICK t \in Oldest(Pruned) :
          sessions' = Opened(made + 1, Keep(Pruned, DOMAIN Pruned \ {t}))
    BY <1>5 DEF OpenSession
  <2>2. Live' = (P \ {t}) \cup {made + 1}
    BY <2>1 DEF Live, Opened, Set, Keep, Restrict
  <2>3. t \in P /\ \A u \in P : Pruned[t] >= Pruned[u]
    BY DEF Oldest
  <2>4. P = Live /\ Cardinality(Live) = MaxSessions
    BY <1>2, <1>3, <1>5 DEF Bounded
  <2>5. IsFiniteSet(P \ {t}) /\ Cardinality(P \ {t}) = Cardinality(P) - 1
    BY <1>2, <2>3, FS_RemoveElement
  <2>6. IsFiniteSet(Live') /\ Cardinality(Live') = Cardinality(P)
    <3>1. made + 1 \notin P \ {t}
      BY <1>1, <1>4
    <3>2. IsFiniteSet(Live') /\ Cardinality(Live') = Cardinality(P \ {t}) + 1
      BY <2>2, <2>5, <3>1, FS_AddElement
    <3> QED
      BY <2>5, <3>2, <1>2
  <2>7. \A u \in Live : sessions[u] <= sessions[t]
    BY <1>1, <1>3, <2>3, <2>4
  <2> QED
    BY <1>3, <2>2, <2>4, <2>6, <2>7 DEF Bounded
<1>6. CASE ~(Cardinality(P) >= MaxSessions)
  <2>1. sessions' = Opened(made + 1, Pruned)
    BY <1>6 DEF OpenSession
  <2>2. Live' = P \cup {made + 1}
    BY <2>1 DEF Live, Opened, Set
  <2>3. IsFiniteSet(Live') /\ Cardinality(Live') = Cardinality(P) + 1
    BY <1>1, <1>2, <1>4, <2>2, FS_AddElement
  <2>4. \A t \in Live \ Live' : sessions[t] > Idle
    BY <1>1, <1>3, <2>2
  <2> QED
    BY <1>2, <1>3, <1>6, <2>3, <2>4 DEF Bounded
<1> QED
  BY <1>5, <1>6

\* What else there is drops no session, or one that it ends.
LEMMA OthersEnd ==
  ASSUME LoginInv, [SessionsNext]_sessionVars,
         ~\E b \in Browsers : OpenSession(b) \/ \E route \in Routes : AskPage(b, route)
  PROVE  Live' \subseteq Live /\ Live \ Live' \subseteq ended'
<1>1. ASSUME NEW b \in Browsers, Logout(b) PROVE Live' \subseteq Live /\ Live \ Live' \subseteq ended'
  <2>1. Live' = Live \ {cookie[b]} /\ ended' = ended \cup ({cookie[b]} \ {0})
    BY <1>1 DEF Logout, Live, Keep, Restrict, NoToken
  <2>2. 0 \notin Live
    BY DEF LoginInv
  <2> QED
    BY <2>1, <2>2
<1>2. CASE StopService
  BY <1>2 DEF StopService, Live
<1>3. CASE TimePasses
  BY <1>3 DEF TimePasses, Live
<1>4. CASE \/ \E c \in Browsers : \/ \E right \in BOOLEAN : PostLogin(c, right)
                                  \/ Answer(c) \/ PauseEnds(c)
                                  \/ \E d \in Browsers : CopyCookie(c, d)
           \/ ChangeLogin \/ StartService \/ UNCHANGED sessionVars
  BY <1>4 DEF PostLogin, Answer, PauseEnds, CopyCookie, ChangeLogin, StartService, sessionVars,
     Live
<1> QED
  BY <1>1, <1>2, <1>3, <1>4 DEF SessionsNext

LEMMA TableStep == LoginInv /\ Bounded /\ [SessionsNext]_sessionVars => Bounded'
<1> SUFFICES ASSUME LoginInv, Bounded, [SessionsNext]_sessionVars PROVE Bounded'
  OBVIOUS
<1>1. CASE \E b \in Browsers : OpenSession(b)
  BY <1>1, OpeningEvicts
<1>2. ASSUME Live' \subseteq Live PROVE Bounded'
  <2>1. IsFiniteSet(Live') /\ Cardinality(Live') <= Cardinality(Live)
    BY <1>2, FS_Subset DEF Bounded
  <2>2. Cardinality(Live') \in Nat /\ Cardinality(Live) \in Nat /\ MaxSessions \in Nat
    BY <2>1, FS_CardinalityType, SessionsAssumption DEF Bounded
  <2> QED
    BY <2>1, <2>2 DEF Bounded
<1>3. CASE \E b \in Browsers, route \in Routes : AskPage(b, route)
  BY <1>2, <1>3, AskingPrunes
<1> QED
  BY <1>1, <1>2, <1>3, OthersEnd

\* Nobody is logged out by another's login but who used the table last of all, and only
\* when it is full; otherwise a session ends by its logout, with the service, or unused.
THEOREM LoginsLast == SessionsSpec => LoginLasts
<1>1. LoginInv /\ Bounded /\ [SessionsNext]_sessionVars =>
        [\A t \in Live \ DOMAIN sessions' :
           \/ t \in ended' \/ unused[t] > Idle
           \/ /\ made' > made /\ Cardinality(Live) >= MaxSessions
              /\ \A u \in Live : unused[u] <= unused[t]]_sessionVars
  <2> SUFFICES ASSUME LoginInv, Bounded, [SessionsNext]_sessionVars,
                      NEW t \in Live \ DOMAIN sessions'
               PROVE  \/ t \in ended' \/ unused[t] > Idle
                      \/ /\ made' > made /\ Cardinality(Live) >= MaxSessions
                         /\ \A u \in Live : unused[u] <= unused[t]
    OBVIOUS
  <2>1. t \in Live \ Live' /\ \A u \in Live : unused[u] = sessions[u]
    BY DEF Live, LoginInv
  <2>2. CASE \E b \in Browsers : OpenSession(b)
    BY <2>1, <2>2, OpeningEvicts
  <2>3. CASE \E b \in Browsers, route \in Routes : AskPage(b, route)
    BY <2>1, <2>3, AskingPrunes
  <2> QED
    BY <2>1, <2>2, <2>3, OthersEnd
<1>2. SessionsInit => Bounded
  <2>1. SessionsInit => Live = {}
    BY DEF SessionsInit, Live
  <2> QED
    BY <2>1, FS_EmptySet, SessionsAssumption DEF Bounded
<1> QED
  BY <1>1, <1>2, LoginStarts, LoginStep, TableStep, PTL DEF SessionsSpec, LoginLasts

\* A session that is not used is forgotten, not aged any further.
Clocked ==
  /\ login \in {"none", "set", "malformed"} /\ service \in {"none", "set", "down"}
  /\ made <= Tokens /\ \A t \in Live : sessions[t] <= Idle + 1

LEMMA ClockedStep == LoginInv /\ Clocked /\ [SessionsNext]_sessionVars => Clocked'
<1> SUFFICES ASSUME LoginInv, Clocked, [SessionsNext]_sessionVars PROVE Clocked'
  OBVIOUS
<1>1. Idle \in Nat /\ made \in Nat /\ \A t \in Live : sessions[t] \in Nat
  BY SessionsAssumption DEF LoginInv
<1>2. ASSUME NEW f, DOMAIN f \subseteq Live, \A t \in DOMAIN f : f[t] = sessions[t],
             NEW x, sessions' = f \/ sessions' = Set(f, x, 0)
      PROVE  \A t \in Live' : sessions'[t] <= Idle + 1
  BY <1>1, <1>2 DEF Live, Set, Clocked
<1>3. ASSUME NEW b \in Browsers, NEW route \in Routes, AskPage(b, route) PROVE Clocked'
  <2>1. sessions' = sessions \/ \E x : sessions' = Pruned \/ sessions' = Set(Pruned, x, 0)
    BY <1>3 DEF AskPage, Touched
  <2>2. \A t \in Live' : sessions'[t] <= Idle + 1
    <3>1. CASE sessions' = sessions
      BY <3>1 DEF Clocked, Live
    <3>2. CASE \E x : sessions' = Pruned \/ sessions' = Set(Pruned, x, 0)
      BY <1>2, <3>2, PruneKeeps
    <3> QED
      BY <2>1, <3>1, <3>2
  <2> QED
    BY <1>3, <2>2 DEF AskPage, Clocked
<1>4. ASSUME NEW b \in Browsers, OpenSession(b) PROVE Clocked'
  <2>1. PICK f : /\ DOMAIN f \subseteq Live /\ \A t \in DOMAIN f : f[t] = sessions[t]
                 /\ sessions' = Set(f, made + 1, 0)
    <3>1. \A S : LET f == Keep(Pruned, DOMAIN Pruned \ S) IN
                 /\ DOMAIN f \subseteq Live /\ \A t \in DOMAIN f : f[t] = sessions[t]
      BY PruneKeeps DEF Keep, Restrict
    <3>2. \/ sessions' = Set(Pruned, made + 1, 0)
          \/ \E S : sessions' = Set(Keep(Pruned, DOMAIN Pruned \ S), made + 1, 0)
      BY <1>4 DEF OpenSession, Opened
    <3> QED
      BY <3>1, <3>2, PruneKeeps
  <2>2. \A t \in Live' : sessions'[t] <= Idle + 1
    BY <1>2, <2>1
  <2>3. made' <= Tokens
    BY <1>4, <1>1, SessionsAssumption DEF OpenSession
  <2> QED
    BY <1>4, <2>2, <2>3 DEF OpenSession, Clocked
<1>5. ASSUME NEW b \in Browsers, Logout(b) PROVE Clocked'
  BY <1>5 DEF Logout, Keep, Restrict, Live, Clocked
<1>6. CASE TimePasses
  <2>1. \A a \in Nat : a <= Idle + 1 => Wait1(a) <= Idle + 1
    BY <1>1 DEF Wait1
  <2> QED
    BY <1>1, <1>6, <2>1 DEF TimePasses, Live, Clocked
<1>7. CASE ChangeLogin \/ StartService \/ StopService
  BY <1>7 DEF ChangeLogin, StartService, StopService, Live, Clocked
<1>8. CASE \/ \E b \in Browsers : \/ \E right \in BOOLEAN : PostLogin(b, right)
                                  \/ Answer(b) \/ PauseEnds(b)
                                  \/ \E c \in Browsers : CopyCookie(b, c)
           \/ UNCHANGED sessionVars
  BY <1>8 DEF PostLogin, Answer, PauseEnds, CopyCookie, sessionVars, Live, Clocked
<1> QED
  BY <1>3, <1>4, <1>5, <1>6, <1>7, <1>8 DEF SessionsNext

\* The table never holds more than MAX_SESSIONS, of tokens that were made, none kept
\* longer than a moment past SESSION_IDLE in age, whoever logs in.
THEOREM TableIsBounded == SessionsSpec => []SessionsTypeOK
<1>1. LoginInv /\ Bounded /\ Clocked => SessionsTypeOK
  <2> SUFFICES ASSUME LoginInv, Bounded, Clocked PROVE SessionsTypeOK
    OBVIOUS
  <2>1. /\ Idle \in Nat /\ Tokens \in Nat /\ made \in Nat /\ made <= Tokens
        /\ cookie \in [Browsers -> 0..made] /\ Live \subseteq 1..made /\ ended \subseteq 1..made
        /\ \A t \in Live : sessions[t] \in Nat /\ sessions[t] <= Idle + 1
    BY SessionsAssumption DEF LoginInv, Clocked
  <2>2. 0..made \subseteq 0..Tokens /\ 1..made \subseteq 1..Tokens
    BY <2>1
  <2>3. cookie \in [Browsers -> 0..Tokens]
    BY <2>1, <2>2
  <2> QED
    BY <2>1, <2>2, <2>3 DEF SessionsTypeOK, LoginInv, Bounded, Clocked
<1>2. SessionsInit => Clocked /\ Bounded
  <2>1. SessionsInit => Live = {}
    BY DEF SessionsInit, Live
  <2> QED
    BY <2>1, FS_EmptySet, SessionsAssumption DEF Bounded, Clocked, SessionsInit
<1> QED
  BY <1>1, <1>2, LoginStarts, LoginStep, TableStep, ClockedStep, PTL DEF SessionsSpec

-------------------------------------------------------------------------------
(* The overview.                                                           *)

\* The listing is not younger than the disk; what the daemon last got is not either, as
\* it was when the heartbeat was written; and a daemon that runs has written one in
\* the last BeatEvery.
PageInv ==
  /\ newest \in Nat /\ listed \in Nat \cup {NoList} /\ since \in Nat
  /\ success \in Nat \cup {NeverYet} /\ beat.success \in Nat \cup {NeverYet}
  /\ listed # NoList => newest <= listed
  /\ success # NeverYet /\ success <= Far => newest <= success
  /\ beat.success # NeverYet /\ beat.success <= Limit /\ since <= StaleAfter =>
       newest <= beat.success + since
  /\ daemon = "runs" => beat.running /\ since <= BeatEvery

LEMMA FarIs == Far \in Nat /\ Nowhere \in Nat /\ Limit \in Nat /\ StaleAfter \in Nat
               /\ Limit + StaleAfter <= Far /\ Nowhere > Far
BY StatusAssumption DEF Far, Nowhere

LEMMA PageInvStarts == StatusInit => PageInv
<1> SUFFICES ASSUME StatusInit PROVE PageInv
  OBVIOUS
<1>1. newest = Nowhere /\ listed = NoList /\ daemon = "dead" /\ success = NeverYet
  BY DEF StatusInit
<1>2. since = StaleAfter + 1 /\ beat.success = NeverYet
  BY DEF StatusInit
<1> QED
  BY <1>1, <1>2, FarIs DEF PageInv, NoList

\* Growing older keeps the order of two ages.
LEMMA AgingKeepsOrder ==
  ASSUME NEW limit \in Nat, NEW a \in Nat, NEW b \in Nat, a <= b
  PROVE  Aging(a, limit) \in Nat /\ Aging(a, limit) <= Aging(b, limit)
BY DEF Aging

LEMMA LaterKeepsOrder ==
  ASSUME NEW midnight \in BOOLEAN, NEW a \in Nat, NEW b \in Nat, a <= b
  PROVE  Later(a, midnight) \in Nat /\ Later(a, midnight) <= Later(b, midnight)
BY FarIs DEF Later, Aging, Nowhere

\* A heartbeat carries what the daemon knows.
LEMMA BeatStep ==
  ASSUME PageInv, NEW says, Beat(says), newest' = newest,
         success' \in {success, NeverYet}
  PROVE  /\ since' = 0 /\ beat'.success \in Nat \cup {NeverYet} /\ beat'.running = says
         /\ success' \in Nat \cup {NeverYet}
         /\ success' # NeverYet /\ success' <= Far => newest' <= success'
         /\ beat'.success # NeverYet /\ beat'.success <= Limit => newest' <= beat'.success + since'
<1>1. since' = 0 /\ beat'.success = success' /\ beat'.running = says
  BY DEF Beat
<1>2. success' = NeverYet \/ (success' = success /\ success \in Nat)
  BY DEF PageInv
<1>3. CASE success' = NeverYet
  BY <1>1, <1>3
<1>4. CASE success' = success /\ success \in Nat
  <2>1. success # NeverYet /\ success <= Far => newest <= success
    BY DEF PageInv
  <2>2. success <= Limit => success <= Far
    BY <1>4, FarIs
  <2> QED
    BY <1>1, <1>4, <2>1, <2>2
<1> QED
  BY <1>2, <1>3, <1>4

LEMMA BeatKeeps ==
  ASSUME PageInv, NEW says \in BOOLEAN, Beat(says), UNCHANGED <<newest, listed>>,
         success' \in {success, NeverYet}, daemon' = "runs" => says
  PROVE  PageInv'
<1>1. /\ since' = 0 /\ beat'.success \in Nat \cup {NeverYet} /\ beat'.running = says
      /\ success' \in Nat \cup {NeverYet}
  BY BeatStep
<1>2. success' # NeverYet /\ success' <= Far => newest' <= success'
  BY BeatStep
<1>3. beat'.success # NeverYet /\ beat'.success <= Limit => newest' <= beat'.success + since'
  BY BeatStep
<1>4. newest' \in Nat /\ listed' \in Nat \cup {NoList} /\ (listed' # NoList => newest' <= listed')
  BY DEF PageInv
<1>5. since' \in Nat /\ since' <= BeatEvery
  BY <1>1, StatusAssumption
<1>6. daemon' = "runs" => beat'.running
  BY <1>1
<1> QED
  BY <1>1, <1>2, <1>3, <1>4, <1>5, <1>6 DEF PageInv

LEMMA PageInvStep == PageInv /\ [StatusNext]_statusVars => PageInv'
<1> SUFFICES ASSUME PageInv, [StatusNext]_statusVars PROVE PageInv'
  OBVIOUS
<1>1. CASE StartDaemon
  <2>1. /\ Beat(TRUE) /\ success' = NeverYet /\ newest' = newest
        /\ UNCHANGED <<newest, listed>>
    BY <1>1 DEF StartDaemon
  <2> QED
    BY <2>1, BeatKeeps
<1>2. CASE Heartbeat
  <2>1. Beat(TRUE) /\ success' = success /\ newest' = newest /\ UNCHANGED <<newest, listed>>
    BY <1>2 DEF Heartbeat
  <2> QED
    BY <2>1, BeatKeeps
<1>3. CASE EndDaemon
  <2>1. success' = success /\ daemon' # "runs" /\ UNCHANGED <<newest, listed>>
    BY <1>3 DEF EndDaemon
  <2>2. CASE Beat(FALSE)
    BY <2>1, <2>2, BeatKeeps
  <2>3. CASE UNCHANGED <<beat, since>>
    BY <2>1, <2>3 DEF PageInv
  <2> QED
    BY <1>3, <2>2, <2>3 DEF EndDaemon
<1>4. CASE CameraChanges
  BY <1>4 DEF CameraChanges, PageInv
<1>5. CASE Frame
  <2>1. /\ newest' = 0 /\ success' = 0
        /\ UNCHANGED <<daemon, listed, beat, since>>
    BY <1>5 DEF Frame
  <2> QED
    BY <2>1 DEF PageInv, NoList, NeverYet
<1>6. CASE IntervalEnds
  <2>1. PICK midnight \in BOOLEAN :
          /\ newest' = Later(newest, midnight)
          /\ listed' = IF bucket' = 0 \/ listed = NoList THEN NoList ELSE Later(listed, midnight)
    BY <1>6 DEF IntervalEnds
  <2>2. newest' \in Nat /\ since' \in Nat
    BY <1>6, <2>1, FarIs, LaterKeepsOrder, AgingKeepsOrder DEF IntervalEnds, PageInv
  <2>3. listed' = NoList \/ (listed' \in Nat /\ newest' <= listed')
    BY <2>1, LaterKeepsOrder DEF PageInv
  <2>4. newest <= Far => newest' = newest + 1
    BY <2>1, FarIs DEF PageInv, Later, Aging
  <2>5. /\ success' \in Nat \cup {NeverYet}
        /\ success' # NeverYet /\ success' <= Far => newest' <= success'
    <3>1. CASE success = NeverYet
      BY <1>6, <3>1 DEF IntervalEnds
    <3>2. CASE success # NeverYet
      <4>1. success \in Nat /\ success' = Aging(success, Far)
        BY <1>6, <3>2 DEF IntervalEnds, PageInv
      <4>2. success' \in Nat /\ (success' <= Far => success <= Far /\ success' = success + 1)
        BY <4>1, FarIs DEF Aging
      <4>3. success <= Far => newest <= success
        BY <3>2 DEF PageInv
      <4>4. success <= Far => newest <= Far
        BY <4>1, <4>3, FarIs DEF PageInv
      <4> QED
        BY <2>2, <2>4, <4>1, <4>2, <4>3, <4>4 DEF PageInv
    <3> QED
      BY <3>1, <3>2
  <2>6. beat' = beat /\ since' = Aging(since, StaleAfter)
    BY <1>6 DEF IntervalEnds
  <2>7. beat.success # NeverYet /\ beat.success <= Limit /\ since' <= StaleAfter =>
          newest' <= beat.success + since'
    <3> SUFFICES ASSUME beat.success # NeverYet, beat.success <= Limit, since' <= StaleAfter
                 PROVE  newest' <= beat.success + since'
      OBVIOUS
    <3>1. since <= StaleAfter /\ since' = since + 1
      BY <2>6, FarIs DEF Aging, PageInv
    <3>2. beat.success \in Nat /\ newest <= beat.success + since
      BY <3>1 DEF PageInv
    <3>3. newest <= Far
      BY <3>1, <3>2, FarIs DEF PageInv
    <3> QED
      BY <2>4, <3>1, <3>2, <3>3 DEF PageInv
  <2>8. daemon = "runs" => since' <= BeatEvery
    BY <1>6, StatusAssumption DEF IntervalEnds, PageInv, Aging
  <2>9. daemon' = daemon
    BY <1>6 DEF IntervalEnds
  <2> QED
    BY <2>2, <2>3, <2>5, <2>6, <2>7, <2>8, <2>9 DEF PageInv
<1>7. CASE View
  BY <1>7 DEF View, PageInv, NoList
<1>8. CASE OtherUnit \/ UnitStarts \/ UnitGivenUp \/ (\E good \in BOOLEAN : UnitEnds(good))
           \/ ViewServices \/ UNCHANGED statusVars
  <2>1. UNCHANGED camera
    BY <1>8, Zenon DEF OtherUnit, UnitStarts, UnitGivenUp, UnitEnds, ViewServices, Becomes, statusVars
  <2> QED
    BY <2>1 DEF camera, PageInv
<1> QED
  BY <1>1, <1>2, <1>3, <1>4, <1>5, <1>6, <1>7, <1>8 DEF StatusNext

\* Where the heartbeat said that all was well, and it is not old.
LEMMA QuietSince ==
  ASSUME PageInv, beat.success # NeverYet, ~(beat.success > Limit), ~(since > StaleAfter)
  PROVE  newest <= Limit + StaleAfter
<1>1. /\ beat.success \in Nat /\ since \in Nat /\ newest \in Nat
      /\ Limit \in Nat /\ StaleAfter \in Nat
  BY StatusAssumption DEF PageInv
<1>2. beat.success <= Limit
  BY <1>1
<1>3. since <= StaleAfter
  BY <1>1
<1>4. newest <= beat.success + since
  BY <1>2, <1>3 DEF PageInv
<1> QED
  BY <1>1, <1>2, <1>3, <1>4

\* A page that is looked at says what PageInv allows; a page is looked at anew after
\* every step of what it shows.
LEMMA GreenStep == PageInv /\ NeverTooGreen /\ [StatusNext]_statusVars => NeverTooGreen'
<1> SUFFICES ASSUME PageInv, NeverTooGreen, [StatusNext]_statusVars PROVE NeverTooGreen'
  OBVIOUS
<1>1. CASE View
  <2> DEFINE age == IF listed' = NoList THEN Nowhere ELSE listed'
  <2>1. age \in Nat /\ (age # Nowhere => newest <= age)
    <3>1. listed' = NoList \/ listed' = newest \/ (listed # NoList /\ listed' = listed)
      BY <1>1 DEF View
    <3> QED
      BY <3>1, FarIs DEF PageInv
  <2>0. row' = IF beat.written THEN Verdict(age) ELSE "none"
    BY <1>1 DEF View
  <2>5. UNCHANGED <<newest, since>> /\ note' = IF beat.written THEN Note ELSE "none"
    BY <1>1 DEF View
  <2> HIDE DEF age
  <2>2. row' = "ok" => newest' <= Limit
    <3>1. Verdict(age) = "ok" => age # Nowhere /\ ~(age > Limit)
      BY DEF Verdict, Quiet
    <3> QED
      BY <2>0, <2>1, <2>5, <3>1, FarIs DEF PageInv
  <2>6. row' = "was ok" => newest' <= Limit + StaleAfter \/ note' \in {"stopped", "wedged"}
    <3> SUFFICES ASSUME row' = "was ok", note' \notin {"stopped", "wedged"}
                 PROVE  newest' <= Limit + StaleAfter
      OBVIOUS
    <3>1. beat.written /\ Verdict(age) = "was ok"
      BY <2>0
    <3>2. beat.success # NeverYet /\ ~(beat.success > Limit)
      BY <3>1 DEF Verdict, Quiet
    <3>3. ~(since > StaleAfter)
      BY <2>5, <3>1 DEF Note
    <3> QED
      BY <2>5, <3>2, <3>3, QuietSince
  <2>3. note' = "runs" => since' <= StaleAfter
    <3>1. Note = "runs" => since <= StaleAfter
      BY StatusAssumption DEF Note, PageInv
    <3> QED
      BY <1>1, <3>1 DEF View
  <2>4. note' \in {"stopped", "wedged"} => daemon' # "runs"
    <3>1. Note \in {"stopped", "wedged"} => daemon # "runs"
      BY StatusAssumption DEF Note, PageInv
    <3> QED
      BY <1>1, <3>1 DEF View
  <2> QED
    BY <2>2, <2>3, <2>4, <2>6 DEF NeverTooGreen
<1>2. CASE StartDaemon \/ EndDaemon \/ CameraChanges \/ Frame \/ IntervalEnds \/ Heartbeat
  BY <1>2 DEF StartDaemon, EndDaemon, CameraChanges, Frame, IntervalEnds, Heartbeat,
     NeverTooGreen
<1>3. CASE OtherUnit \/ UnitStarts \/ UnitGivenUp \/ (\E good \in BOOLEAN : UnitEnds(good))
           \/ ViewServices \/ UNCHANGED statusVars
  <2>1. UNCHANGED camera
    BY <1>3, Zenon DEF OtherUnit, UnitStarts, UnitGivenUp, UnitEnds, ViewServices, Becomes, statusVars
  <2> QED
    BY <2>1 DEF camera, NeverTooGreen
<1> QED
  BY <1>1, <1>2, <1>3 DEF StatusNext

\* The overview never looks better than things are, for every limit and every age of
\* the listing and of the heartbeat.
THEOREM GreenIsFresh == StatusSpec => []NeverTooGreen
<1>1. StatusInit => NeverTooGreen
  BY DEF StatusInit, NeverTooGreen
<1> QED
  BY <1>1, PageInvStarts, PageInvStep, GreenStep, PTL DEF StatusSpec

-------------------------------------------------------------------------------
(* The update checker.                                                     *)

\* A state of the checker, held, being saved or cached, that claims no answer later
\* than the last.
Claims == {"checked", "attempted", "failures", "latest"}
Sound(s) ==
  /\ DOMAIN s = Claims /\ s.checked \in heard..Never /\ s.latest \in Nat

OfferTyped ==
  cli.at # "none" => {"at", "ref"} \subseteq DOMAIN cli /\ cli.ref \in Nat

ClaimsInv ==
  /\ heard \in 0..Never /\ upstream \in Nat /\ installed \in Nat /\ running \in Nat
  /\ OfferTyped /\ DOMAIN saving = Threads
  /\ Sound(known) /\ Sound(cache)
  /\ \A t \in Threads : saving[t].at = "written" => Sound(saving[t].state)

LEMMA BlankIsSound == ASSUME heard \in 0..Never PROVE Sound(Blank)
<1>1. DOMAIN Blank = Claims /\ Blank.checked = Never /\ Blank.latest = 0
  BY DEF Blank, Claims
<1>2. Never \in heard..Never
  BY UpdatesAssumption DEF Never
<1> QED
  BY <1>1, <1>2 DEF Sound

LEMMA ClaimsStart == UpdatesInit => ClaimsInv
<1> SUFFICES ASSUME UpdatesInit PROVE ClaimsInv
  OBVIOUS
<1>1. heard = Never /\ Never \in 0..Never
  BY UpdatesAssumption DEF UpdatesInit, Never
<1>2. Sound(known) /\ Sound(cache)
  BY <1>1, BlankIsSound DEF UpdatesInit
<1>3. OfferTyped
  BY DEF UpdatesInit, OfferTyped, NoCli
<1>4. DOMAIN saving = Threads /\ \A t \in Threads : saving[t].at = "none"
  BY DEF UpdatesInit, NoSave
<1> QED
  BY <1>1, <1>2, <1>3, <1>4 DEF UpdatesInit, ClaimsInv

\* What a thread is writing does not change while others work.
LEMMA ClaimsStep == ClaimsInv /\ [UpdatesNext]_updateVars => ClaimsInv'
<1> SUFFICES ASSUME ClaimsInv, [UpdatesNext]_updateVars PROVE ClaimsInv'
  OBVIOUS
<1>1. CASE \E force \in BOOLEAN : Refresh(force)
  BY <1>1 DEF Refresh, asked, ClaimsInv, OfferTyped, Sound
<1>2. CASE Answered
  <2>1. Sound(known)'
    <3>1. DOMAIN known' = Claims /\ known'.checked = 0 /\ known'.latest = upstream
      BY <1>2 DEF Answered, Claims
    <3> QED
      BY <1>2, <3>1, UpdatesAssumption DEF Sound, Answered, Never, ClaimsInv
  <2>2. \A s : Sound(s) => Sound(s)'
    BY <1>2 DEF Answered, Sound, ClaimsInv
  <2>3. Sound(cache)' /\ OfferTyped'
    BY <1>2, UpdatesAssumption DEF Answered, Sound, ClaimsInv, OfferTyped
  <2>4. DOMAIN saving' = Threads
    BY <1>2 DEF Answered, ClaimsInv
  <2>5. ASSUME NEW t \in Threads, saving'[t].at = "written" PROVE Sound(saving[t].state)'
    <3>1. saving'[t] = saving[t]
      BY <1>2, <2>5 DEF Answered, ClaimsInv
    <3> QED
      BY <1>2, <2>5, <3>1, UpdatesAssumption DEF Answered, Sound, ClaimsInv
  <2>6. heard' \in 0..Never
    BY <1>2, UpdatesAssumption DEF Answered, Never
  <2> QED
    BY <1>2, <2>1, <2>3, <2>4, <2>5, <2>6 DEF Answered, ClaimsInv
<1>3. CASE CheckFails
  <2>1. DOMAIN known' = Claims /\ known'.checked = known.checked /\ known'.latest = known.latest
    BY <1>3 DEF CheckFails, Failed, ClaimsInv, Sound, Claims
  <2>2. DOMAIN saving' = Threads
    BY <1>3 DEF CheckFails, ClaimsInv
  <2>3. ASSUME NEW t \in Threads, saving'[t].at = "written" PROVE Sound(saving[t].state)'
    <3>1. saving'[t] = saving[t]
      BY <1>3, <2>3 DEF CheckFails, ClaimsInv
    <3> QED
      BY <1>3, <2>3, <3>1 DEF CheckFails, Sound, ClaimsInv
  <2> QED
    BY <1>3, <2>1, <2>2, <2>3 DEF CheckFails, ClaimsInv, Sound, OfferTyped
<1>4. ASSUME NEW t \in Threads, WriteTmp(t) PROVE ClaimsInv'
  <2>1. DOMAIN saving' = Threads /\ saving'[t] = [at |-> "written", state |-> known]
    BY <1>4 DEF WriteTmp, ClaimsInv
  <2>2. \A u \in Threads \ {t} : saving'[u] = saving[u]
    BY <1>4 DEF WriteTmp, ClaimsInv
  <2>3. UNCHANGED <<upstream, installed, running, known, cache, cli, heard>>
    BY <1>4 DEF WriteTmp, asked
  <2>4. \A u \in Threads : saving'[u].at = "written" => Sound(saving'[u].state)
    BY <2>1, <2>2 DEF ClaimsInv
  <2> QED
    BY <2>1, <2>3, <2>4 DEF ClaimsInv, Sound, OfferTyped
<1>5. ASSUME NEW t \in Threads, PutInPlace(t) \/ SaveFails(t) PROVE ClaimsInv'
  <2>1. DOMAIN saving' = Threads /\ saving'[t].at = "none"
    BY <1>5 DEF PutInPlace, SaveFails, ClaimsInv, NoSave
  <2>2. \A u \in Threads \ {t} : saving'[u] = saving[u]
    BY <1>5 DEF PutInPlace, SaveFails, ClaimsInv
  <2>3. UNCHANGED <<upstream, installed, running, known, cli, heard>>
    BY <1>5 DEF PutInPlace, SaveFails, asked
  <2>4. Sound(cache')
    <3>1. Sound(Torn)
      BY BlankIsSound DEF ClaimsInv, Torn
    <3>2. \A u \in Threads : saving[u].at = "written" => Sound(saving[u].state)
      BY DEF ClaimsInv
    <3> QED
      BY <1>5, <3>1, <3>2 DEF PutInPlace, SaveFails, ClaimsInv
  <2>5. \A u \in Threads : saving'[u].at = "written" => Sound(saving'[u].state)
    BY <2>1, <2>2 DEF ClaimsInv
  <2> QED
    BY <2>1, <2>3, <2>4, <2>5 DEF ClaimsInv, Sound, OfferTyped
<1>6. CASE Stop
  <2>1. Sound(Blank)
    BY BlankIsSound DEF ClaimsInv
  <2>2. DOMAIN saving' = Threads /\ \A t \in Threads : saving'[t].at = "none"
    BY <1>6 DEF Stop, NoSave
  <2> QED
    BY <1>6, <2>1, <2>2 DEF Stop, asked, ClaimsInv, Sound, OfferTyped
<1>7. CASE Start
  BY <1>7 DEF Start, ClaimsInv, Sound, OfferTyped
<1>8. CASE Hour
  <2>1. ASSUME NEW s, Sound(s)
        PROVE  /\ DOMAIN Aged(s) = Claims /\ Aged(s).checked \in heard'..Never
               /\ Aged(s).latest \in Nat
    <3>1. /\ DOMAIN Aged(s) = Claims /\ Aged(s).latest = s.latest
          /\ Aged(s).checked = Older(s.checked)
      BY <2>1 DEF Aged, Sound, Claims
    <3>2. heard' = Older(heard) /\ heard \in 0..Never
      BY <1>8 DEF Hour, ClaimsInv
    <3>3. Older(s.checked) \in Older(heard)..Never
      BY <2>1, <3>2, UpdatesAssumption DEF Sound, Older, Never
    <3> QED
      BY <2>1, <3>1, <3>2, <3>3 DEF Sound
  <2>2. heard' \in 0..Never
    BY <1>8, UpdatesAssumption DEF Hour, ClaimsInv, Older, Never
  <2>3. \A t \in Threads : saving'[t].at = "none"
    BY <1>8 DEF Hour, NoSave
  <2>4. Sound(known)' /\ Sound(cache)'
    BY <1>8, <2>1 DEF Hour, ClaimsInv, Sound
  <2> QED
    BY <1>8, <2>2, <2>3, <2>4 DEF Hour, ClaimsInv, OfferTyped
<1>9. CASE Release \/ Withdraw \/ OtherInstall
  BY <1>9 DEF Release, Withdraw, OtherInstall, web, asked, ClaimsInv, Sound, OfferTyped
<1>10. CASE UpdateStarts \/ CliEnds
           \/ (\E what \in {"installer", "something else"} : Fetch(what))
           \/ (\E done \in BOOLEAN : Install(done))
  <2>1. UNCHANGED <<upstream, running, known, saving, cache, heard>>
    BY <1>10 DEF UpdateStarts, CliEnds, Fetch, Install, web, asked
  <2>2. OfferTyped'
    <3>1. CASE UpdateStarts
      BY <3>1 DEF UpdateStarts, OfferTyped, ClaimsInv
    <3>2. CASE CliEnds \/ (\E done \in BOOLEAN : Install(done))
      BY <3>2 DEF CliEnds, Install, OfferTyped, NoCli
    <3>3. CASE \E what \in {"installer", "something else"} : Fetch(what)
      <4>1. cli.at = "offered" /\ (cli' = [cli EXCEPT !.at = "fetched"] \/ cli' = NoCli)
        BY <3>3 DEF Fetch
      <4>2. CASE cli' = [cli EXCEPT !.at = "fetched"]
        BY <4>1, <4>2 DEF OfferTyped, ClaimsInv
      <4>3. CASE cli' = NoCli
        BY <4>3 DEF OfferTyped, NoCli
      <4> QED
        BY <4>1, <4>2, <4>3
    <3> QED
      BY <1>10, <3>1, <3>2, <3>3
  <2>3. installed' \in Nat
    BY <1>10 DEF UpdateStarts, CliEnds, Fetch, Install, ClaimsInv, OfferTyped
  <2> QED
    BY <2>1, <2>2, <2>3 DEF ClaimsInv, Sound
<1>11. CASE UNCHANGED updateVars
  BY <1>11 DEF updateVars, web, asked, ClaimsInv, Sound, OfferTyped
<1> QED
  BY <1>1, <1>2, <1>3, <1>4, <1>5, <1>6, <1>7, <1>8, <1>9, <1>10, <1>11 DEF UpdatesNext

\* The panel claims no version older than its own and no check that was not made,
\* for any number of versions, restarts and checks that write at the same time.
THEOREM PanelTellsTheTruth == UpdatesSpec => []PanelHonest
<1>1. ClaimsInv => PanelHonest
  BY DEF ClaimsInv, Sound, PanelHonest, LatestShown, Known
<1> QED
  BY <1>1, ClaimsStart, ClaimsStep, PTL DEF UpdatesSpec

\* What a checker that did not lose an outcome knows is what happened.
Knowing ==
  running > 0 /\ ~forgot =>
    known.attempted = tried /\ known.checked = heard /\ known.failures = streak

LEMMA KnowingStep == ClaimsInv /\ Knowing /\ [UpdatesNext]_updateVars => Knowing'
<1> SUFFICES ASSUME ClaimsInv, Knowing, [UpdatesNext]_updateVars, running' > 0, ~forgot'
             PROVE  (known.attempted = tried /\ known.checked = heard
                     /\ known.failures = streak)'
  BY DEF Knowing
<1>1. /\ running \in Nat
      /\ DOMAIN known = {"checked", "attempted", "failures", "latest"}
  BY DEF ClaimsInv, Sound, Claims
<1>2. CASE Answered
  BY <1>2 DEF Answered
<1>3. CASE CheckFails
  <2>1. /\ known'.attempted = 0 /\ known'.checked = known.checked
        /\ known'.failures = Least(known.failures + 1, MaxStreak)
    BY <1>1, <1>3 DEF CheckFails, Failed
  <2>2. /\ tried' = 0 /\ heard' = heard /\ streak' = Least(streak + 1, MaxStreak)
        /\ running' = running /\ forgot' = forgot
    BY <1>3 DEF CheckFails
  <2> QED
    BY <2>1, <2>2 DEF Knowing
<1>4. CASE Stop
  BY <1>4 DEF Stop
<1>5. CASE Start
  BY <1>5 DEF Start
<1>6. CASE Hour
  <2>1. /\ known'.attempted = Older(known.attempted) /\ known'.checked = Older(known.checked)
        /\ known'.failures = known.failures
    BY <1>1, <1>6 DEF Hour, Aged
  <2> QED
    BY <2>1, <1>6 DEF Hour, Knowing
<1>7. CASE UNCHANGED <<known, running, tried, heard, streak, forgot>>
  BY <1>7 DEF Knowing
<1>8. CASE \/ \E force \in BOOLEAN : Refresh(force)
           \/ Release \/ Withdraw \/ OtherInstall
           \/ \E t \in Threads : WriteTmp(t) \/ PutInPlace(t) \/ SaveFails(t)
           \/ UpdateStarts \/ CliEnds
           \/ \E what \in {"installer", "something else"} : Fetch(what)
           \/ \E done \in BOOLEAN : Install(done)
           \/ UNCHANGED updateVars
  BY <1>7, <1>8 DEF Refresh, Release, Withdraw, OtherInstall, WriteTmp, PutInPlace, SaveFails,
     UpdateStarts, CliEnds, Fetch, Install, updateVars, web, asked
<1> QED
  BY <1>2, <1>3, <1>4, <1>5, <1>6, <1>8 DEF UpdatesNext

\* The next request is due by the outcomes of the last ones, whatever restarts came
\* between, if none of them lost an outcome.
THEOREM AskedWhenDue == UpdatesSpec => []AsksWhenDue
<1>1. Knowing => AsksWhenDue
  BY DEF Knowing, AsksWhenDue, Due
<1>2. UpdatesInit => Knowing
  BY DEF UpdatesInit, Knowing, Blank
<1> QED
  BY <1>1, <1>2, ClaimsStart, ClaimsStep, KnowingStep, PTL DEF UpdatesSpec

\* An offer nobody asked for is of a version newer than the one it was made to.
OfferIsNewer ==
  cli # NoCli => /\ {"at", "ref", "from", "asked"} \subseteq DOMAIN cli
                 /\ cli.ref \in Nat
                 /\ cli.asked \/ cli.ref > cli.from

LEMMA OfferStep == ClaimsInv /\ OfferIsNewer /\ [UpdatesNext]_updateVars => OfferIsNewer'
<1> SUFFICES ASSUME ClaimsInv, OfferIsNewer, [UpdatesNext]_updateVars PROVE OfferIsNewer'
  OBVIOUS
<1>1. CASE UpdateStarts
  <2>1. PICK check \in BOOLEAN, force \in BOOLEAN, root \in BOOLEAN, given \in 0..upstream :
          LET ref == IF given > 0 THEN given ELSE upstream IN
          /\ Newer(ref, given) \/ force
          /\ cli' = [at |-> "offered", ref |-> ref, from |-> installed,
                     asked |-> given > 0 \/ force]
    BY <1>1 DEF UpdateStarts
  <2>2. cli'.ref = (IF given > 0 THEN given ELSE upstream) /\ cli'.from = installed
        /\ cli'.asked = (given > 0 \/ force) /\ {"at", "ref", "from", "asked"} \subseteq DOMAIN cli'
    BY <2>1
  <2>3. given > 0 \/ force \/ upstream > installed
    BY <2>1 DEF Newer
  <2>4. given \in Nat /\ upstream \in Nat
    BY DEF ClaimsInv
  <2> QED
    BY <2>2, <2>3, <2>4 DEF OfferIsNewer
<1>2. ASSUME NEW what, Fetch(what) PROVE OfferIsNewer'
  <2>1. cli.at = "offered" /\ (cli' = [cli EXCEPT !.at = "fetched"] \/ cli' = NoCli)
    BY <1>2 DEF Fetch
  <2>2. cli # NoCli
    BY <2>1 DEF NoCli
  <2>3. ASSUME cli' = [cli EXCEPT !.at = "fetched"]
        PROVE  DOMAIN cli' = DOMAIN cli
               /\ cli'.ref = cli.ref /\ cli'.from = cli.from /\ cli'.asked = cli.asked
    BY <2>2, <2>3 DEF OfferIsNewer
  <2> QED
    BY <2>1, <2>2, <2>3 DEF OfferIsNewer
<1>3. CASE CliEnds \/ \E done \in BOOLEAN : Install(done)
  BY <1>3 DEF CliEnds, Install, OfferIsNewer
<1>4. CASE UNCHANGED cli
  BY <1>4 DEF OfferIsNewer
<1>5. CASE \/ \E force \in BOOLEAN : Refresh(force)
           \/ Answered \/ CheckFails \/ Stop \/ Start \/ Hour
           \/ Release \/ Withdraw \/ OtherInstall
           \/ \E t \in Threads : WriteTmp(t) \/ PutInPlace(t) \/ SaveFails(t)
           \/ UNCHANGED updateVars
  BY <1>4, <1>5 DEF Refresh, Answered, CheckFails, Stop, Start, Hour, Release, Withdraw,
     OtherInstall, WriteTmp, PutInPlace, SaveFails, updateVars
<1> QED
  BY <1>1, <1>2, <1>3, <1>5 DEF UpdatesNext

\* `timelapse update` installs an older version only if it was asked to, or if another
\* installer was at work while it waited for its answer.
THEOREM NoSilentDowngrade == UpdatesSpec => NoDowngrade
<1>1. ClaimsInv /\ OfferIsNewer /\ [UpdatesNext]_updateVars =>
        [cli # NoCli /\ cli' = NoCli /\ installed' < installed =>
           cli.asked \/ cli.from # installed]_updateVars
  <2> SUFFICES ASSUME ClaimsInv, OfferIsNewer, [UpdatesNext]_updateVars,
                      cli # NoCli, cli' = NoCli, installed' < installed,
                      ~cli.asked, cli.from = installed
               PROVE  FALSE
    OBVIOUS
  <2>1. cli.ref > installed
    BY DEF OfferIsNewer
  <2>2. installed \in Nat /\ cli.ref \in Nat
    BY DEF ClaimsInv, OfferIsNewer
  <2>3. ASSUME NEW done \in BOOLEAN, Install(done) PROVE FALSE
    <3>1. installed' = cli.ref \/ installed' = installed
      BY <2>3 DEF Install
    <3> QED
      BY <2>1, <2>2, <3>1
  <2>4. CASE OtherInstall
    BY <2>4 DEF OtherInstall
  <2>5. CASE UNCHANGED installed
    BY <2>2, <2>5
  <2>6. CASE \/ \E force \in BOOLEAN : Refresh(force)
             \/ Answered \/ CheckFails \/ Stop \/ Start \/ Hour \/ Release \/ Withdraw
             \/ \E t \in Threads : WriteTmp(t) \/ PutInPlace(t) \/ SaveFails(t)
             \/ UpdateStarts \/ CliEnds
             \/ \E what \in {"installer", "something else"} : Fetch(what)
             \/ UNCHANGED updateVars
    BY <2>5, <2>6 DEF Refresh, Answered, CheckFails, Stop, Start, Hour, Release, Withdraw,
       WriteTmp, PutInPlace, SaveFails, UpdateStarts, CliEnds, Fetch, updateVars
  <2> QED
    BY <2>3, <2>4, <2>6 DEF UpdatesNext
<1>2. UpdatesInit => OfferIsNewer
  BY DEF UpdatesInit, OfferIsNewer
<1> QED
  BY <1>1, <1>2, ClaimsStart, ClaimsStep, OfferStep, PTL DEF UpdatesSpec, NoDowngrade
===============================================================================
