----------------------------- MODULE VideoServing -----------------------------
(***************************************************************************)
(* A video of the library, sent to a player (scripts/timelapse_web.py,     *)
(* _locate, _serve_file, _pump, parse_range) that may seek in it, break    *)
(* off and resume, while the encoder replaces the file (replace_atomic),   *)
(* a mount goes away, or something writes over it in place.  The headers   *)
(* are of the row the index has, which may be older than the file.         *)
(***************************************************************************)
EXTENDS Integers, Sequences

CONSTANTS
  Encodes,   \* bound: the encodes of the video there will be, 1..Encodes
  MaxSize     \* bound: a video has 1..MaxSize bytes

ASSUME VideoAssumption == Encodes \in Nat \ {0} /\ MaxSize \in Nat \ {0}

Gone      == [ver |-> 0, size |-> 0]
NoRange   == [kind |-> "none"]
NoReply == [at |-> "none"]

VARIABLES
  file,     \* what the name stands for: [ver, size]
  past,     \* what it has been, at any time
  reply,    \* the request being answered
  left,     \* how many bytes of its body are to be sent
  got,      \* of the player: the bytes it has, each by the encode it is of
  of,       \* ... and the ETag and size it was told they are of
  closed,   \* the connection has been closed
  stale,    \* history: some of them were sent under a row older than the request's stat
  raced,    \* history: some of them are of a file replaced between its stat and its open
  scribbled \* history: some of them of a file written in place while it was open

sent == <<got, of, stale, raced, scribbled>>
videoVars == <<file, past, reply, left, closed, sent>>

VideoInit ==
  /\ file \in [ver : {1}, size : 1..MaxSize] /\ past = {Gone, file}
  /\ reply = NoReply /\ left = 0 /\ got = <<>> /\ of = Gone
  /\ closed = FALSE /\ stale = FALSE /\ raced = FALSE /\ scribbled = FALSE

-------------------------------------------------------------------------------
\* parse_range: the inclusive bounds, or "416", or "all" for what may be ignored.
\* A range is bytes=first-last, bytes=first- (last is NoByte) or bytes=-last.
NoByte == -1
Bounds(range, size) ==
  IF range = NoRange THEN [is |-> "all"]
  ELSE LET first == IF range.kind = "suffix" THEN IF size > range.last THEN size - range.last ELSE 0
                    ELSE range.first
           last  == IF range.kind = "suffix" \/ range.last = NoByte \/ range.last >= size
                    THEN size - 1 ELSE range.last
       IN  IF (range.kind = "suffix" /\ range.last = 0) \/ size = 0 \/ first >= size
           THEN [is |-> "416"]
           ELSE IF first > last THEN [is |-> "all"]
           ELSE [is |-> "part", first |-> first, last |-> last]

Ranges ==
  {NoRange}
  \cup [kind : {"from"}, first : 0..MaxSize, last : {NoByte} \cup 0..MaxSize]
  \cup [kind : {"suffix"}, last : 0..MaxSize]

\* The player asks: for all, for a part, or for the rest of what it has, on
\* condition that it is still the same.
Ask(range, if) ==
  /\ reply = NoReply
  /\ reply' = [at |-> "asked", range |-> range, if |-> if]
  /\ closed' = FALSE /\ left' = 0
  /\ UNCHANGED <<file, past, sent>>

Resume == [kind |-> "from", first |-> Len(got), last |-> NoByte]

\* reconcile_file: the file's stat goes into its row of the index, and the headers are
\* made of the row that get() finds there.  That is an older one when the write is
\* refused, or when a scan that read the file before writes it after; and none when
\* the index has never seen the file or cannot be read.
Stat ==
  /\ reply.at = "asked"
  /\ \/ reply' = NoReply
     \/ /\ file # Gone
        /\ \E row \in past \ {Gone} :
             reply' = [at |-> "stat", range |-> reply.range, if |-> reply.if, row |-> row,
                       fresh |-> file]
  /\ UNCHANGED <<file, past, left, closed, sent>>

\* A slip: If-Range is not looked at.
RangeOfRequest == Bounds(reply.range, reply.row.size)

\* "The client is resuming against a version we no longer have.  Its offsets mean
\* nothing now, so send the whole current file."
RangeMeant == IF reply.if \notin {Gone, reply.row} THEN [is |-> "all"]
              ELSE Bounds(reply.range, reply.row.size)

\* The player takes a part that follows what it has as more of it if it asked for
\* that under If-Range, or else if the answer has the ETag it knows.
Continues(b) ==
  b.is = "part" /\ b.first = Len(got) /\ (reply.if # Gone \/ reply.row = of)

\* The file is opened, and the headers go out: a body follows from `from`, of `left`
\* bytes; the handle stays at what it was opened on.
OpenAndSend ==
  /\ reply.at = "stat"
  /\ LET b == RangeMeant IN
     IF file = Gone \/ b.is = "416"
     THEN reply' = NoReply /\ left' = 0 /\ UNCHANGED sent
     ELSE /\ left' = IF b.is = "part" THEN b.last - b.first + 1 ELSE reply.row.size
          /\ reply' = [at |-> "body", row |-> reply.row, handle |-> file,
                       from |-> IF b.is = "part" THEN b.first ELSE 0]
          /\ of' = reply.row
          /\ got' = IF Continues(b) THEN got ELSE <<>>
          /\ stale' = (reply.row # reply.fresh \/ (stale /\ got' # <<>>))
          /\ raced' = (file # reply.fresh \/ (raced /\ got' # <<>>))
          /\ scribbled' = (scribbled /\ got' # <<>>)
  /\ UNCHANGED <<file, past, closed>>

\* Bytes that do not continue what the player has are not kept by it.
Kept(byte) == IF reply.from = Len(got) THEN Append(got, byte) ELSE got

\* A slip: sent until the file ends.
PumpToTheEnd ==
  /\ reply.at = "body"
  /\ IF reply.from < reply.handle.size
     THEN /\ got' = Kept(reply.handle.ver) /\ left' = left - 1
          /\ reply' = [reply EXCEPT !.from = @ + 1] /\ UNCHANGED closed
     ELSE reply' = NoReply /\ UNCHANGED <<left, got, closed>>
  /\ UNCHANGED <<file, past, of, stale, raced, scribbled>>

\* _pump: a byte; the end of what was promised; or the end of a file that shrank.
Pump ==
  /\ reply.at = "body"
  /\ IF left = 0 THEN reply' = NoReply /\ UNCHANGED <<left, got, closed>>
     ELSE IF reply.from < reply.handle.size
     THEN /\ got' = Kept(reply.handle.ver) /\ left' = left - 1
          /\ reply' = [reply EXCEPT !.from = @ + 1] /\ UNCHANGED closed
     ELSE reply' = NoReply /\ closed' = TRUE /\ UNCHANGED <<left, got>>
  /\ UNCHANGED <<file, past, of, stale, raced, scribbled>>

\* The player goes away, or the connection does.
BreakOff ==
  /\ reply # NoReply /\ reply' = NoReply /\ closed' = TRUE
  /\ UNCHANGED <<file, past, left, sent>>

-------------------------------------------------------------------------------
\* The encoder puts a new encode in place, or the share goes away.
Replace(size) ==
  /\ file.ver < Encodes /\ file' = [ver |-> file.ver + 1, size |-> size]
  /\ past' = past \cup {file'} /\ UNCHANGED <<reply, left, closed, sent>>

Vanish ==
  /\ file # Gone /\ file.ver = Encodes /\ file' = Gone
  /\ past' = past \cup {file'} /\ UNCHANGED <<reply, left, closed, sent>>

\* Something writes over the file where it is: the open handle sees it.
Overwrite(size) ==
  /\ 0 < file.ver /\ file.ver < Encodes /\ file' = [ver |-> file.ver + 1, size |-> size]
  /\ reply' = IF reply.at = "body" /\ reply.handle = file
              THEN [reply EXCEPT !.handle = file'] ELSE reply
  /\ scribbled' = (scribbled \/ reply' # reply)
  /\ past' = past \cup {file'} /\ UNCHANGED <<left, got, of, closed, stale, raced>>

VideoNext ==
  \/ \E range \in Ranges : Ask(range, Gone)
  \/ \E if \in {Gone, of} : Ask(Resume, if)
  \/ Stat \/ OpenAndSend \/ Pump \/ BreakOff \/ Vanish
  \/ \E size \in 1..MaxSize : Replace(size) \/ Overwrite(size)

VideoSpec == VideoInit /\ [][VideoNext]_videoVars

-------------------------------------------------------------------------------
(* Properties.                                                             *)

\* The type invariant.
VideoTypeOK ==
  /\ file.ver \in 0..Encodes /\ file.size \in 0..MaxSize
  /\ left \in 0..MaxSize /\ Len(got) <= MaxSize
  /\ closed \in BOOLEAN /\ stale \in BOOLEAN /\ raced \in BOOLEAN /\ scribbled \in BOOLEAN

\* "Send exactly size bytes ... then stop": when an answer is over and the connection
\* is kept for the next, all that its Content-Length promised was sent, and no more,
\* whatever became of the file.
FramingKept == reply = NoReply /\ ~closed => left = 0

\* What a player assembles under one ETag, over any number of broken and resumed
\* requests, is of one encode: "rather than a slice that would splice two encodes
\* together".  Not so when the file is written in place, or replaced between the
\* stat that the ETag is of and the open that the bytes are of; nor when the row that
\* the ETag is made of was not that stat's, though both are "derived from the fresh stat".
NeverSpliced ==
  \A i \in 1..Len(got) : got[i] = of.ver \/ stale \/ raced \/ scribbled
===============================================================================
