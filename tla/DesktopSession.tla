--------------------------- MODULE DesktopSession ---------------------------
(***************************************************************************)
(* The session of the desktop client: which server it talks to, as whom,   *)
(* and what of that survives a restart.                                    *)
(*                                                                         *)
(* The server is kept in a config file and in the memory of the Go side,   *)
(* the token in the keyring under the URL of its server; the page has a    *)
(* copy of both in localStorage, and React the user.  The page's copy of   *)
(* the URL is another spelling of it.  A login and a logout                *)
(* are sequences of calls that write these one after the other, and any    *)
(* number of logouts, and a login and a logout, can be under way at once;  *)
(* a request can be answered after the session it was made in.             *)
(***************************************************************************)
EXTENDS Naturals

CONSTANTS
  Servers,    \* the URLs a user may enter
  Default,    \* the one of a client without a config file
  normalizeApiUrl,  \* the URL the page calls instead, for each of Servers
  Logouts,    \* logouts that can be under way at the same time
  Requests,   \* requests that can be under way at the same time
  None,
  MaxLogins,  \* bound on logins
  MaxFaults   \* bound on ends of the process, failed calls and ended tokens

Tokens    == [server : Servers, n : 1..MaxLogins]
Addresses == {normalizeApiUrl[s] : s \in Servers}

ASSUME SessionAssumption ==
  /\ Default \in Servers /\ "torn" \notin Servers
  /\ None \notin Servers \cup Addresses \cup Tokens \cup {"torn"}
  /\ MaxLogins \in Nat /\ MaxFaults \in Nat

VARIABLES
  valid,    \* tokens their server accepts
  issued,   \* logins the servers answered
  file,     \* api_url in the config file; "torn" when it cannot be read
  keyring,
  url,      \* a.config.APIURL; None when the client does not run
  local,    \* localStorage: api_url and access_token
  user,     \* React has a user
  loading,  \* isLoading
  screen,
  login,    \* the login, or the start of the page, that is under way
  logout,   \* logouts under way
  request,  \* requests under way
  overlap,  \* a login or a logout was begun before the last logout had ended
  dropped,  \* a 401 dropped a token since one was attached
  faults

stored == <<file, keyring>>
react  == <<user, loading, screen>>
hist   == <<overlap, dropped>>
vars   == <<valid, issued, stored, url, local, react, login, logout, request, hist, faults>>

-----------------------------------------------------------------------------
NoLogin == [pc |-> "none", server |-> None, token |-> None]
NoLogout == [pc |-> "none", server |-> None, token |-> None, kept |-> FALSE]
NoRequest == [pc |-> "none", server |-> None, token |-> None]

TypeOK ==
  /\ valid \subseteq Tokens /\ issued \in 0..MaxLogins
  /\ file \in Servers \cup {None, "torn"}
  /\ keyring \in [Servers -> Tokens \cup {None}]
  /\ \A s \in Servers : keyring[s] # None => keyring[s].server = s
  /\ url \in Servers \cup {None}
  /\ local \in [api : Addresses, token : Tokens \cup {None}]
  /\ user \in BOOLEAN /\ loading \in BOOLEAN
  /\ screen \in {"home", "login"}
  /\ login \in [pc : {"none", "post", "write", "keyring", "status", "attach", "me", "answer"},
                server : Servers \cup Addresses \cup {None}, token : Tokens \cup {None}]
  /\ logout \in [Logouts ->
       [pc : {"none", "notify", "forget", "write", "finally", "status"},
        server : Servers \cup {None}, token : Tokens \cup {None}, kept : BOOLEAN]]
  /\ request \in [Requests -> [pc : {"none", "sent"}, server : Addresses \cup {None},
                               token : Tokens \cup {None}]]
  /\ overlap \in BOOLEAN /\ dropped \in BOOLEAN
  /\ faults \in 0..MaxFaults

Init ==
  /\ valid = {} /\ issued = 0
  /\ file = None /\ keyring = [s \in Servers |-> None]
  /\ url = None /\ local = [api |-> normalizeApiUrl[Default], token |-> None]
  /\ user = FALSE /\ loading = FALSE /\ screen = "home"
  /\ login = NoLogin
  /\ logout = [l \in Logouts |-> NoLogout]
  /\ request = [r \in Requests |-> NoRequest]
  /\ overlap = FALSE /\ dropped = FALSE /\ faults = 0

Out(l, pc) == logout[l].pc = pc
LoggingOut == \E l \in Logouts : ~Out(l, "none")
Fault == faults < MaxFaults /\ faults' = faults + 1

(* What a server answers to a request with a token, or with none. *)
Accepts(address, token) == token \in valid /\ normalizeApiUrl[token.server] = address

(* authToken answers a keyring that cannot be read with an empty token. *)
AuthToken(server, opened) == IF opened THEN keyring[server] ELSE None
Opens(opened) == IF opened THEN UNCHANGED faults ELSE Fault

(* os.WriteFile truncates the file and writes it.  When two writers did    *)
(* both at the same time, the end of the longer text may be left.          *)
Truncate == file' = "torn"
Write(content) == file' \in (IF file = "torn" THEN {content} ELSE {content, "torn"})

-----------------------------------------------------------------------------
(* Faulty variants, to show that the properties notice them.               *)

(* One credential for all servers. *)
SaveTokenForAll ==
  /\ login.pc = "keyring"
  /\ keyring' = [s \in Servers |-> login.token]
  /\ login' = [login EXCEPT !.pc = "status", !.server = url]
  /\ UNCHANGED <<valid, issued, file, url, local, react, logout, request, hist, faults>>

(* The page keeps the API URL it started with. *)
LoginStatusKeepsApi ==
  /\ login.pc = "status"
  /\ IF login.token = None THEN login' = NoLogin /\ loading' = FALSE
     ELSE login' = [login EXCEPT !.pc = "attach"] /\ UNCHANGED loading
  /\ UNCHANGED <<valid, issued, stored, url, local, user, screen, logout, request, hist, faults>>

(* The config is marshalled before the server is set. *)
LoginWriteEarlier ==
  /\ login.pc = "write"
  /\ \E s \in Servers : normalizeApiUrl[s] = local.api /\ Write(s)
  /\ login' = [login EXCEPT !.pc = "keyring"]
  /\ UNCHANGED <<valid, issued, keyring, url, local, react, logout, request, hist, faults>>

(* The server is cleared before its token is deleted: nothing is deleted. *)
ForgetCleared(l, deleted) ==
  /\ Out(l, "forget")
  /\ Truncate
  /\ logout' = [logout EXCEPT ![l].pc = "write", ![l].server = url]
  /\ UNCHANGED <<valid, issued, keyring, url, local, react, login, request, hist, faults>>

(* An error of LogoutDevice ends the logout. *)
LogoutWriteThrows(l) ==
  /\ Out(l, "write") /\ Fault
  /\ logout' = [logout EXCEPT ![l] = NoLogout]
  /\ UNCHANGED <<valid, issued, stored, url, local, react, login, request, hist>>

-----------------------------------------------------------------------------
(* The process and the page.                                               *)

(* startup loads the config, or exits when it cannot be read; init asks    *)
(* for the status, which looks for a token before it asks the server.      *)
Start(opened) ==
  /\ url = None /\ file # "torn" /\ Opens(opened)
  /\ url' = IF file = None THEN Default ELSE file
  /\ loading' = TRUE
  /\ login' = [pc |-> "status", server |-> url', token |-> AuthToken(url', opened)]
  /\ overlap' = FALSE /\ dropped' = FALSE
  /\ UNCHANGED <<valid, issued, stored, local, user, screen, logout, request>>

(* The process ends between any two steps. *)
Quit ==
  /\ url # None /\ Fault
  /\ url' = None
  /\ user' = FALSE /\ loading' = FALSE /\ screen' = "home"
  /\ login' = NoLogin
  /\ logout' = [l \in Logouts |-> NoLogout]
  /\ request' = [r \in Requests |-> NoRequest]
  /\ UNCHANGED <<valid, issued, stored, local, hist>>

(* ProtectedRoute and AuthRoute. *)
Route ==
  /\ url # None /\ ~loading
  /\ screen # (IF user THEN "home" ELSE "login")
  /\ screen' = IF user THEN "home" ELSE "login"
  /\ UNCHANGED <<valid, issued, stored, url, local, user, loading, login, logout, request,
                 hist, faults>>

(* A device is removed, or a JWT expires. *)
TokenEnds(t) ==
  /\ t \in valid /\ Fault
  /\ valid' = valid \ {t}
  /\ UNCHANGED <<issued, stored, url, local, react, login, logout, request, hist>>

-----------------------------------------------------------------------------
(* SetupAdmin, LoginAdmin or RedeemInvite, and what the page does then.    *)

LoginStart(s) ==
  /\ url # None /\ screen = "login" /\ ~user /\ ~loading /\ issued < MaxLogins
  /\ loading' = TRUE
  /\ login' = [pc |-> "post", server |-> s, token |-> None]
  /\ overlap' = (overlap \/ LoggingOut)
  /\ UNCHANGED <<valid, issued, stored, url, local, user, screen, logout, request,
                 dropped, faults>>

(* The answer, and the start of saveSession. *)
Posted ==
  /\ login.pc = "post"
  /\ LET t == [server |-> login.server, n |-> issued + 1]
     IN  /\ valid' = valid \cup {t}
         /\ login' = [login EXCEPT !.pc = "write", !.token = t]
  /\ issued' = issued + 1
  /\ url' = login.server
  /\ Truncate
  /\ UNCHANGED <<keyring, local, react, logout, request, hist, faults>>

(* The login is refused, the config not written or the token not kept. *)
LoginFails ==
  /\ login.pc \in {"post", "write", "keyring"}
  /\ IF login.pc = "post" THEN UNCHANGED faults ELSE Fault
  /\ login' = NoLogin /\ loading' = FALSE
  /\ UNCHANGED <<valid, issued, stored, url, local, user, screen, logout, request, hist>>

LoginWrite ==
  /\ login.pc = "write"
  /\ Write(login.server)
  /\ login' = [login EXCEPT !.pc = "keyring"]
  /\ UNCHANGED <<valid, issued, keyring, url, local, react, logout, request, hist, faults>>

(* SaveDeviceToken; the status that is asked for next names the server. *)
SaveToken ==
  /\ login.pc = "keyring"
  /\ keyring' = [keyring EXCEPT ![login.server] = login.token]
  /\ login' = [login EXCEPT !.pc = "status", !.server = url]
  /\ UNCHANGED <<valid, issued, file, url, local, react, logout, request, hist, faults>>

(* refreshBootstrap and setApiUrl; a page that starts without a token is    *)
(* done.                                                                   *)
LoginStatus ==
  /\ login.pc = "status"
  /\ local' = [local EXCEPT !.api = normalizeApiUrl[login.server]]
  /\ IF login.token = None THEN login' = NoLogin /\ loading' = FALSE
     ELSE login' = [login EXCEPT !.pc = "attach"] /\ UNCHANGED loading
  /\ UNCHANGED <<valid, issued, stored, url, user, screen, logout, request, hist, faults>>

AttachStoredToken(opened) ==
  /\ login.pc = "attach" /\ Opens(opened)
  /\ local' = [local EXCEPT !.token = AuthToken(url, opened)]
  /\ dropped' = FALSE
  /\ login' = [login EXCEPT !.pc = "me"]
  /\ UNCHANGED <<valid, issued, stored, url, react, logout, request, overlap>>

FetchUser ==
  /\ login.pc = "me"
  /\ login' = [pc |-> "answer", server |-> local.api, token |-> local.token]
  /\ UNCHANGED <<valid, issued, stored, url, local, react, logout, request, hist, faults>>

(* The user, a 401 or no answer. *)
Fetched(ok) ==
  /\ login.pc = "answer"
  /\ IF ok THEN Accepts(login.server, login.token) /\ UNCHANGED faults
     ELSE IF Accepts(login.server, login.token) THEN Fault ELSE UNCHANGED faults
  /\ user' = ok
  /\ local' = IF ok THEN local ELSE [local EXCEPT !.token = None]
  /\ screen' = IF ok THEN screen ELSE "login"
  /\ login' = NoLogin /\ loading' = FALSE
  /\ UNCHANGED <<valid, issued, stored, url, logout, request, hist>>

-----------------------------------------------------------------------------
(* logout and LogoutDevice.                                                *)

LogoutStart(l, opened) ==
  /\ url # None /\ Out(l, "none") /\ user /\ screen = "home" /\ ~loading
  /\ Opens(opened)
  /\ overlap' = (overlap \/ LoggingOut)
  /\ LET token == AuthToken(url, opened)
     IN  logout' = [logout EXCEPT ![l] =
           [pc |-> IF token = None THEN "forget" ELSE "notify",
            server |-> url, token |-> token, kept |-> FALSE]]
  /\ UNCHANGED <<valid, issued, stored, url, local, react, login, request, dropped>>

(* The server is told, if it can be reached. *)
Notify(l, reached) ==
  /\ Out(l, "notify")
  /\ valid' = IF reached THEN valid \ {logout[l].token} ELSE valid
  /\ logout' = [logout EXCEPT ![l].pc = "forget"]
  /\ UNCHANGED <<issued, stored, url, local, react, login, request, hist, faults>>

(* The token of the server of this moment is deleted, or not, which is     *)
(* ignored, and the config written.                                        *)
Forget(l, deleted) ==
  /\ Out(l, "forget")
  /\ IF deleted THEN UNCHANGED faults ELSE Fault
  /\ keyring' = IF deleted THEN [keyring EXCEPT ![url] = None] ELSE keyring
  /\ Truncate
  /\ logout' = [logout EXCEPT ![l].pc = "write", ![l].server = url, ![l].kept = ~deleted]
  /\ UNCHANGED <<valid, issued, url, local, react, login, request, hist>>

LogoutWrite(l) ==
  /\ Out(l, "write")
  /\ Write(logout[l].server)
  /\ logout' = [logout EXCEPT ![l].pc = "finally"]
  /\ UNCHANGED <<valid, issued, keyring, url, local, react, login, request, hist, faults>>

LogoutWriteFails(l) ==
  /\ Out(l, "write") /\ Fault
  /\ logout' = [logout EXCEPT ![l].pc = "finally"]
  /\ UNCHANGED <<valid, issued, stored, url, local, react, login, request, hist>>

Finally(l) ==
  /\ Out(l, "finally")
  /\ local' = [local EXCEPT !.token = None]
  /\ user' = FALSE
  /\ logout' = [logout EXCEPT ![l].pc = "status", ![l].server = url]
  /\ UNCHANGED <<valid, issued, stored, url, loading, screen, login, request, hist, faults>>

LogoutStatus(l) ==
  /\ Out(l, "status")
  /\ local' = [local EXCEPT !.api = normalizeApiUrl[logout[l].server]]
  /\ logout' = [logout EXCEPT ![l] = NoLogout]
  /\ UNCHANGED <<valid, issued, stored, url, react, login, request, hist, faults>>

-----------------------------------------------------------------------------
(* A request of a page.                                                    *)

Send(r) ==
  /\ request[r].pc = "none" /\ url # None /\ user /\ screen = "home" /\ ~loading
  /\ request' = [request EXCEPT ![r] =
       [pc |-> "sent", server |-> local.api, token |-> local.token]]
  /\ UNCHANGED <<valid, issued, stored, url, local, react, login, logout, hist, faults>>

(* The interceptor drops the token on a 401, whichever it was. *)
Answered(r) ==
  /\ request[r].pc = "sent"
  /\ request' = [request EXCEPT ![r] = NoRequest]
  /\ IF Accepts(request[r].server, request[r].token)
     THEN UNCHANGED <<local, screen, dropped>>
     ELSE /\ local' = [local EXCEPT !.token = None]
          /\ screen' = "login"
          /\ dropped' = TRUE
  /\ UNCHANGED <<valid, issued, stored, url, user, loading, login, logout, overlap, faults>>

LoginStep ==
  \/ Posted \/ LoginFails \/ LoginWrite \/ SaveToken \/ LoginStatus
  \/ FetchUser \/ \E b \in BOOLEAN : AttachStoredToken(b) \/ Fetched(b)

LogoutStep(l) ==
  \/ \E b \in BOOLEAN : Notify(l, b) \/ Forget(l, b)
  \/ LogoutWrite(l) \/ LogoutWriteFails(l) \/ Finally(l) \/ LogoutStatus(l)

Next ==
  \/ \E opened \in BOOLEAN : Start(opened)
  \/ Quit \/ Route
  \/ \E t \in valid : TokenEnds(t)
  \/ \E s \in Servers : LoginStart(s)
  \/ LoginStep
  \/ \E l \in Logouts : LogoutStep(l) \/ \E opened \in BOOLEAN : LogoutStart(l, opened)
  \/ \E r \in Requests : Send(r) \/ Answered(r)

(* The router follows the state, and LogoutDevice returns: its request has  *)
(* a timeout.  The user and the process are not fair, nor are the requests *)
(* of the page, which have none.                                           *)
Spec ==
  /\ Init /\ [][Next]_vars
  /\ WF_vars(Route)
  /\ \A l \in Logouts : WF_vars(LogoutStep(l))

-----------------------------------------------------------------------------
(* Properties.                                                             *)

(* A token is sent to the server that issued it, although the server and   *)
(* the token are replaced in several steps and kept in four places.        *)
RequestsStayHome ==
  ~overlap => \A q \in {request[r] : r \in Requests} \cup {login} :
    (q.pc \in {"sent", "answer"} /\ q.token # None) =>
      q.server = normalizeApiUrl[q.token.server]

(* While a user is shown and nothing is under way, a restart comes back to *)
(* the same server with the same token; a login or logout that failed half *)
(* way, or was cut off by the end of the process, leaves no other state.   *)
SessionDurable ==
  (user /\ ~loading /\ ~LoggingOut /\ ~overlap /\ ~dropped) =>
    /\ file = url /\ local.api = normalizeApiUrl[url]
    /\ keyring[url] # None /\ keyring[url] = local.token

(* "Sign out & forget this device" (SettingsPage.tsx:75): the token the    *)
(* server was told of is the one that is deleted, unless the keyring       *)
(* refuses.                                                                *)
ForgetsDevice ==
  \A l \in Logouts :
    (logout[l].token # None /\ logout[l].pc \in {"write", "finally", "status"}
       /\ ~logout[l].kept /\ ~overlap) =>
      \A s \in Servers : keyring[s] # logout[l].token

(* Signing out takes the user out of the page, whether or not the server   *)
(* answers, the keyring works and the config can be written.               *)
LogoutEnds ==
  \A l \in Logouts : logout[l].pc \in {"notify", "forget", "write", "finally"} ~> ~user

(* AuthRoute shows its page only while there is no user. *)
LoginShown == screen = "login" /\ ~user

(* "Drop it and let the router bounce the user back to the login screen."  *)
(* (api.ts:29): a page that has lost its token comes to the login screen,  *)
(* unless it is closed or gets another token first.                        *)
DroppedReachesLogin ==
  (user /\ local.token = None) ~> (LoginShown \/ url = None \/ local.token # None)
=============================================================================
