------------------------------- MODULE Sessions -------------------------------
(***************************************************************************)
(* The optional login of the web UI (scripts/timelapse_web.py): the single *)
(* user's sessions (class Auth), and the gate before every page (class     *)
(* Handler, do_GET and do_POST).  Requests are handled in threads of their *)
(* own; a session lives in memory, ends at logout, after SESSION_IDLE      *)
(* without a request, with the service, or as the least recently used of   *)
(* MAX_SESSIONS when one more is opened.                                   *)
(***************************************************************************)
EXTENDS Integers, FiniteSets, Functions

CONSTANTS
  Browsers,
  Tokens,        \* bound: the tokens ever made, numbered in order: 1..Tokens
  MaxSessions,   \* MAX_SESSIONS
  Idle           \* SESSION_IDLE

ASSUME SessionsAssumption ==
  Tokens \in Nat /\ MaxSessions \in Nat \ {0} /\ Idle \in Nat

Fragments == {"/scan"}          \* FRAGMENT_ROUTES: fetched by the pollers
Open      == {"/video/"}        \* OPEN_PREFIXES and OPEN_ROUTES
Routes    == {"/"} \cup Fragments \cup Open    \* one of each kind
NoToken   == 0
NoRequest == [at |-> "none"]

VARIABLES
  login,      \* web.auth of the config: none, set, or a hash nobody can verify
  service,    \* the login the running service has: none, set, or "down"
  sessions,   \* of each live token: how long ago it was last seen
  cookie,     \* of each browser: the token it sends
  request,    \* of each browser: the request it waits for
  made,       \* history: how many tokens were made, all by the right password
  ended,      \* history: the tokens whose session was logged out or died with a service
  unused      \* history: of each token made, how long ago its browser got a page by it

sessionVars == <<login, service, sessions, cookie, request, made, ended, unused>>
Live == DOMAIN sessions

SessionsInit ==
  /\ login \in {"none", "set", "malformed"} /\ service = "down"
  /\ sessions = <<>> /\ cookie = [b \in Browsers |-> NoToken]
  /\ request = [b \in Browsers |-> NoRequest]
  /\ made = 0 /\ ended = {} /\ unused = <<>>

-------------------------------------------------------------------------------
(* Auth.                                                                   *)

Keep(f, S) == Restrict(f, S)
Set(f, x, v) == [y \in DOMAIN f \cup {x} |-> IF y = x THEN v ELSE f[y]]

\* _prune: what was last seen longer than SESSION_IDLE ago.
Pruned == Keep(sessions, {t \in Live : sessions[t] <= Idle})

\* A slip: a token that is sent is a token that was seen.
TouchedUnasked(token) == Set(Pruned, token, 0)

\* valid: under the lock, a live session is touched.
Touched(token) == IF token \in DOMAIN Pruned THEN Set(Pruned, token, 0) ELSE Pruned

\* open_session: at the cap the least recently seen one goes.
Oldest(s) == {t \in DOMAIN s : \A u \in DOMAIN s : s[t] >= s[u]}

Opened(token, s) == Set(s, token, 0)

-------------------------------------------------------------------------------
(* Handler.                                                                *)

Idling(b) == request[b] = NoRequest

\* _authorised and _deny: open routes, no login configured, or a live session;
\* otherwise a fragment is refused and a page redirected to the login.
AskPage(b, route) ==
  LET token == cookie[b]
      free  == service = "none" \/ route \in Open
      s     == IF free THEN sessions ELSE IF token = NoToken THEN sessions ELSE Touched(token)
  IN  /\ service # "down" /\ Idling(b)
      /\ sessions' = s
      /\ IF free \/ (token # NoToken /\ token \in DOMAIN s)
         THEN request' = [request EXCEPT ![b] = [at |-> "served", route |-> route,
                                                 token |-> IF free THEN NoToken ELSE token]]
         ELSE request' = [request EXCEPT ![b] =
                 [at |-> IF route \in Fragments THEN "refused" ELSE "sent to login"]]
      /\ unused' = IF ~free /\ token \in DOMAIN s /\ token \in DOMAIN unused
                   THEN Set(unused, token, 0) ELSE unused
      /\ UNCHANGED <<login, service, cookie, made, ended>>

\* The answer has arrived.
Answer(b) ==
  /\ request[b].at \in {"served", "refused", "sent to login"}
  /\ request' = [request EXCEPT ![b] = NoRequest]
  /\ UNCHANGED <<login, service, sessions, cookie, made, ended, unused>>

\* _login: the password is checked, and a wrong one waits.
PostLogin(b, right) ==
  /\ service = "set" /\ Idling(b)
  /\ request' = [request EXCEPT ![b] = [at |-> IF right THEN "opens" ELSE "pauses"]]
  /\ UNCHANGED <<login, service, sessions, cookie, made, ended, unused>>

\* open_session, and the cookie goes to the browser.
OpenSession(b) ==
  LET token == made + 1 IN
  /\ request[b].at = "opens" /\ made < Tokens
  /\ IF Cardinality(DOMAIN Pruned) >= MaxSessions
     THEN \E t \in Oldest(Pruned) :
            sessions' = Opened(token, Keep(Pruned, DOMAIN Pruned \ {t}))
     ELSE sessions' = Opened(token, Pruned)
  /\ cookie' = [cookie EXCEPT ![b] = token] /\ made' = token
  /\ unused' = Set(unused, token, 0)
  /\ request' = [request EXCEPT ![b] = NoRequest]
  /\ UNCHANGED <<login, service, ended>>

\* pause_after_failure is over: no lockout.
PauseEnds(b) ==
  /\ request[b].at = "pauses" /\ request' = [request EXCEPT ![b] = NoRequest]
  /\ UNCHANGED <<login, service, sessions, cookie, made, ended, unused>>

\* _logout: the token goes and so does the cookie.
Logout(b) ==
  /\ service # "down" /\ Idling(b)
  /\ sessions' = Keep(sessions, Live \ {cookie[b]})
  /\ cookie' = [cookie EXCEPT ![b] = NoToken]
  /\ ended' = ended \cup ({cookie[b]} \ {NoToken})
  /\ UNCHANGED <<login, service, request, made, unused>>

-------------------------------------------------------------------------------
\* Another browser is given the same cookie.
CopyCookie(b, c) ==
  /\ cookie[b] # NoToken /\ cookie[c] # cookie[b]
  /\ cookie' = [cookie EXCEPT ![c] = cookie[b]]
  /\ UNCHANGED <<login, service, sessions, request, made, ended, unused>>

\* `timelapse password`, or an edit by hand; the service reads it when it starts.
ChangeLogin ==
  /\ \E l \in {"none", "set", "malformed"} : l # login /\ login' = l
  /\ UNCHANGED <<service, sessions, cookie, request, made, ended, unused>>

\* main and from_config: refuses to start with a hash it could not check.
StartService ==
  /\ service = "down" /\ login # "malformed" /\ service' = login
  /\ UNCHANGED <<login, sessions, cookie, request, made, ended, unused>>

StopService ==
  /\ service # "down" /\ service' = "down" /\ sessions' = <<>>
  /\ request' = [b \in Browsers |-> NoRequest]
  /\ ended' = ended \cup Live
  /\ UNCHANGED <<login, cookie, made, unused>>

\* Time by the monotonic clock.
Wait1(a) == IF a > Idle THEN a ELSE a + 1
TimePasses ==
  /\ sessions' = [t \in Live |-> Wait1(sessions[t])]
  /\ unused' = [t \in DOMAIN unused |-> Wait1(unused[t])]
  /\ UNCHANGED <<login, service, cookie, request, made, ended>>

SessionsNext ==
  \/ \E b \in Browsers :
       \/ \E route \in Routes : AskPage(b, route)
       \/ \E right \in BOOLEAN : PostLogin(b, right)
       \/ Answer(b) \/ OpenSession(b) \/ PauseEnds(b) \/ Logout(b)
       \/ \E c \in Browsers : CopyCookie(b, c)
  \/ ChangeLogin \/ StartService \/ StopService \/ TimePasses

SessionsSpec == SessionsInit /\ [][SessionsNext]_sessionVars

-------------------------------------------------------------------------------
(* Properties.                                                             *)

\* The type invariant, and the bound on the table.
SessionsTypeOK ==
  /\ login \in {"none", "set", "malformed"} /\ service \in {"none", "set", "down"}
  /\ Live \subseteq 1..Tokens /\ \A t \in Live : sessions[t] \in 0..(Idle + 1)
  /\ Cardinality(Live) <= MaxSessions
  /\ cookie \in [Browsers -> 0..Tokens] /\ made \in 0..Tokens
  /\ ended \subseteq 1..Tokens /\ DOMAIN unused = 1..made

\* With a login configured, a page is served only by a token that the right password
\* opened in this service, that nobody logged out, in whichever browser, and that was
\* used within SESSION_IDLE; one whose hash cannot be verified opens nothing.
PagesNeedLogin ==
  [][\A b \in Browsers :
       request'[b] # request[b] /\ request'[b].at = "served"
         /\ request'[b].route \notin Open /\ service # "none" =>
       /\ request'[b].token \in (1..made) \ ended
       /\ unused[request'[b].token] <= Idle]_sessionVars

\* A session ends by its logout, its idle time, the service, or as the one that nobody
\* used for longest when the table is full; never under somebody who is using it
\* while an older one is kept.
LoginLasts ==
  [][\A t \in Live \ DOMAIN sessions' :
       \/ t \in ended' \/ unused[t] > Idle
       \/ /\ made' > made /\ Cardinality(Live) >= MaxSessions
          /\ \A u \in Live : unused[u] <= unused[t]]_sessionVars
===============================================================================
