------------------------ MODULE DesktopSessionProofs ------------------------
(***************************************************************************)
(* Theorems about DesktopSession, for any number of servers, logouts,      *)
(* requests, logins and faults.                                            *)
(***************************************************************************)
EXTENDS DesktopSession, TLAPS

-----------------------------------------------------------------------------
(* The invariant.                                                          *)

LoginType == [pc : {"none", "post", "write", "keyring", "status", "attach", "me", "answer"},
              server : Servers \cup Addresses \cup {None}, token : Tokens \cup {None}]
LogoutType == [pc : {"none", "notify", "forget", "write", "finally", "status"},
               server : Servers \cup {None}, token : Tokens \cup {None}, kept : BOOLEAN]
RequestType == [pc : {"none", "sent"}, server : Addresses \cup {None},
                token : Tokens \cup {None}]

(* Nothing is under way in a process that does not run. *)
Stopped ==
  url = None =>
    /\ login.pc = "none" /\ ~user /\ ~loading
    /\ \A l \in Logouts : logout[l].pc = "none"
    /\ \A r \in Requests : request[r].pc = "none"

(* A login keeps the page loading, and the process on its server. *)
LoginInv ==
  /\ loading <=> login.pc # "none"
  /\ loading => ~user
  /\ login.pc = "post" => login.server \in Servers /\ issued < MaxLogins
  /\ login.pc \in {"write", "keyring"} =>
       login.server = url /\ login.token # None /\ login.token.server = url
  /\ login.pc = "status" => login.server = url

(* The config file is written before the first token is kept. *)
Unwritten ==
  /\ file = None => \A s \in Servers : keyring[s] = None
  /\ login.pc = "keyring" => file # None

LogoutInv ==
  \A l \in Logouts : logout[l].pc \in {"write", "status"} => logout[l].server \in Servers

(* What holds whatever overlaps. *)
Shape == Stopped /\ LoginInv /\ Unwritten /\ LogoutInv

(* Without an overlap a logout has the client for itself. *)
Alone ==
  \A l \in Logouts : logout[l].pc # "none" =>
    login.pc = "none" /\ \A k \in Logouts \ {l} : logout[k].pc = "none"

(* What a login has written, step by step. *)
LoginFlow ==
  /\ login.pc = "write" => file = "torn"
  /\ login.pc \in {"keyring", "attach", "me", "answer"} => file = url
  /\ login.pc = "status" =>
       IF login.token = None THEN file \in {None, url}
       ELSE file = url /\ keyring[url] # None
  /\ login.pc \in {"attach", "me", "answer"} => local.api = normalizeApiUrl[url] /\ keyring[url] # None
  /\ login.pc \in {"me", "answer"} => local.token \in {None, keyring[url]}
  /\ login.pc = "answer" /\ login.token # None =>
       /\ login.server = normalizeApiUrl[login.token.server]
       /\ ~dropped => local.token = keyring[url]

(* What a logout has still to delete, or has deleted. *)
LogoutFlow ==
  \A l \in Logouts :
    /\ logout[l].pc \in {"notify", "forget"} => logout[l].token \in {None, keyring[url]}
    /\ logout[l].pc \in {"write", "finally", "status"} /\ ~logout[l].kept
         /\ logout[l].token # None =>
         \A s \in Servers : keyring[s] # logout[l].token
    /\ logout[l].pc = "status" => ~user /\ logout[l].server = url

(* While a user is shown the four copies agree. *)
UserFlow ==
  user =>
    /\ local.api = normalizeApiUrl[url] /\ (local.token # None => local.token.server = url)
    /\ (~LoggingOut => file = url /\ keyring[url] # None)
    /\ (~LoggingOut /\ ~dropped => keyring[url] = local.token)

RequestFlow ==
  \A r \in Requests :
    request[r].pc = "sent" /\ request[r].token # None =>
      request[r].server = normalizeApiUrl[request[r].token.server]

Flow == Alone /\ LoginFlow /\ LogoutFlow /\ UserFlow /\ RequestFlow

IInv == TypeOK /\ Shape /\ (~overlap => Flow)

-----------------------------------------------------------------------------
(* What the page calls for a server. *)
LEMMA Normal == \A s \in Servers : normalizeApiUrl[s] \in Addresses
  BY DEF Addresses

(* A read of the keyring yields the token it holds, or none. *)
LEMMA TokenRead ==
  ASSUME IInv, NEW s \in Servers, NEW opened \in BOOLEAN, Opens(opened)
  PROVE  /\ AuthToken(s, opened) \in {None, keyring[s]}
         /\ AuthToken(s, opened) \in Tokens \cup {None} /\ faults' \in 0..MaxFaults
  BY SessionAssumption DEF IInv, TypeOK, Opens, AuthToken, Fault

(* A logout that moves on is a logout. *)
LEMMA LogoutTypes ==
  ASSUME NEW w \in LogoutType, NEW pc \in {"write", "status"},
         NEW s \in Servers \cup {None}, NEW k, k \in BOOLEAN
  PROVE  /\ [w EXCEPT !.pc = pc, !.server = s, !.kept = k] \in LogoutType
         /\ [w EXCEPT !.pc = pc, !.server = s] \in LogoutType
  BY DEF LogoutType

(* Every step keeps the types of what it writes. *)
LEMMA TypeKeeps ==
  ASSUME IInv, Next
  PROVE  TypeOK'
  <1>. USE SessionAssumption
  <1>1. ASSUME NEW b \in BOOLEAN, Start(b) PROVE TypeOK'
    <2>1. PICK s \in Servers : s = url'
      BY <1>1 DEF Start, IInv, TypeOK
    <2>2. PICK t \in Tokens \cup {None} : t = AuthToken(s, b)
      BY <1>1, TokenRead DEF Start
    <2>3. faults' \in 0..MaxFaults
      BY <1>1, TokenRead DEF Start
    <2>4. /\ login' = [pc |-> "status", server |-> s, token |-> t] /\ url' = s
          /\ loading' = TRUE /\ overlap' = FALSE /\ dropped' = FALSE
          /\ UNCHANGED <<valid, issued, file, keyring, local, user, screen, logout, request>>
      BY <1>1, <2>1, <2>2 DEF Start, stored
    <2>. QED BY <2>3, <2>4 DEF IInv, TypeOK
  <1>2. CASE Quit
    <2>1. user' \in BOOLEAN /\ loading' \in BOOLEAN /\ screen' \in {"home", "login"}
      BY <1>2 DEF Quit
    <2>2. logout' \in [Logouts -> LogoutType] /\ request' \in [Requests -> RequestType]
          /\ login' \in LoginType
      <3>1. NoLogout \in LogoutType /\ NoRequest \in RequestType /\ NoLogin \in LoginType
        BY DEF NoLogout, NoRequest, NoLogin, LogoutType, RequestType, LoginType
      <3>. QED BY <1>2, <3>1 DEF Quit
    <2>3. /\ faults' \in 0..MaxFaults /\ url' \in Servers \cup {None}
          /\ UNCHANGED <<valid, issued, file, keyring, local, overlap, dropped>>
      BY <1>2 DEF IInv, TypeOK, Quit, Fault, stored, hist
    <2>. QED BY <2>1, <2>2, <2>3 DEF IInv, TypeOK, LoginType, LogoutType, RequestType
  <1>3. CASE Route
    BY <1>3 DEF IInv, TypeOK, Shape, Stopped, LoginInv, LogoutInv, Tokens, Route,
       stored, hist
  <1>4. ASSUME NEW t \in valid, TokenEnds(t) PROVE TypeOK'
    BY <1>4 DEF IInv, TypeOK, Shape, Stopped, LoginInv, LogoutInv, Tokens,
       TokenEnds, stored, react, hist, Fault
  <1>5. ASSUME NEW s \in Servers, LoginStart(s) PROVE TypeOK'
    BY <1>5 DEF IInv, TypeOK, Shape, Stopped, LoginInv, LogoutInv, Tokens,
       LoginStart, stored, LoggingOut, Out
  <1>6. CASE Posted
    <2>. DEFINE t == [server |-> login.server, n |-> issued + 1]
    <2>1. t \in Tokens /\ issued' \in 0..MaxLogins /\ login.server \in Servers
      BY <1>6 DEF IInv, TypeOK, Shape, LoginInv, Posted, Tokens
    <2>2. /\ valid' = valid \cup {t} /\ login' = [login EXCEPT !.pc = "write", !.token = t]
          /\ url' = login.server /\ file' = "torn"
          /\ UNCHANGED <<keyring, local, user, loading, screen, logout, request,
                         overlap, dropped, faults>>
      BY <1>6 DEF Posted, Truncate, react, hist
    <2>. HIDE DEF t
    <2>. QED BY <2>1, <2>2 DEF IInv, TypeOK
  <1>7. CASE LoginFails
    <2>1. loading' \in BOOLEAN /\ login' \in LoginType
      BY <1>7 DEF LoginFails, NoLogin, LoginType
    <2>2. /\ faults' \in 0..MaxFaults
          /\ UNCHANGED <<valid, issued, file, keyring, url, local, user, screen, logout,
                         request, overlap, dropped>>
      BY <1>7 DEF IInv, TypeOK, LoginFails, Fault, stored, hist
    <2>. QED BY <2>1, <2>2 DEF IInv, TypeOK, LoginType
  <1>8. CASE LoginWrite
    BY <1>8 DEF IInv, TypeOK, Shape, Stopped, LoginInv, LogoutInv, Tokens,
       LoginWrite, react, hist, Write
  <1>9. CASE SaveToken
    BY <1>9 DEF IInv, TypeOK, Shape, Stopped, LoginInv, LogoutInv, Tokens,
       SaveToken, react, hist
  <1>10. CASE LoginStatus
    <2>1. login.server \in Servers
      BY <1>10 DEF IInv, TypeOK, Shape, Stopped, LoginInv, LoginStatus
    <2>2. loading' \in BOOLEAN /\ login' \in LoginType
      <3>1. \/ login' = NoLogin /\ loading' = FALSE
            \/ login' = [login EXCEPT !.pc = "attach"] /\ loading' = loading
        BY <1>10 DEF LoginStatus
      <3>2. login \in LoginType /\ loading \in BOOLEAN
        BY DEF IInv, TypeOK, LoginType
      <3>3. NoLogin \in LoginType /\ [login EXCEPT !.pc = "attach"] \in LoginType
        BY <3>2 DEF NoLogin, LoginType
      <3>. QED BY <3>1, <3>2, <3>3
    <2>3. /\ local' = [local EXCEPT !.api = normalizeApiUrl[login.server]]
          /\ UNCHANGED <<valid, issued, file, keyring, url, user, screen, logout, request,
                         overlap, dropped, faults>>
      BY <1>10 DEF LoginStatus, stored, hist
    <2>4. local' \in [api : Addresses, token : Tokens \cup {None}]
      BY <2>1, <2>3, Normal DEF IInv, TypeOK
    <2>. QED BY <2>1, <2>2, <2>3, <2>4 DEF IInv, TypeOK, LoginType
  <1>11. ASSUME NEW b \in BOOLEAN, AttachStoredToken(b) PROVE TypeOK'
    <2>1. url \in Servers
      BY <1>11 DEF IInv, TypeOK, Shape, Stopped, AttachStoredToken
    <2>2. AuthToken(url, b) \in Tokens \cup {None} /\ faults' \in 0..MaxFaults
      BY <1>11, <2>1, TokenRead DEF AttachStoredToken
    <2>3. local' \in [api : Addresses, token : Tokens \cup {None}] /\ login' \in LoginType
      BY <1>11, <2>2 DEF IInv, TypeOK, AttachStoredToken, LoginType
    <2>4. /\ dropped' = FALSE
          /\ UNCHANGED <<valid, issued, file, keyring, url, user, loading, screen, logout,
                         request, overlap>>
      BY <1>11 DEF AttachStoredToken, stored, react
    <2>. QED BY <2>2, <2>3, <2>4 DEF IInv, TypeOK, LoginType
  <1>12. CASE FetchUser
    BY <1>12 DEF IInv, TypeOK, Shape, Stopped, LoginInv, LogoutInv, Tokens,
       FetchUser, stored, react, hist
  <1>13. ASSUME NEW ok \in BOOLEAN, Fetched(ok) PROVE TypeOK'
    <2>1. loading' \in BOOLEAN /\ login' \in LoginType /\ user' \in BOOLEAN
      BY <1>13 DEF Fetched, NoLogin, LoginType
    <2>2. local' \in {local, [local EXCEPT !.token = None]} /\ screen' \in {screen, "login"}
      BY <1>13 DEF Fetched
    <2>3. /\ faults' \in 0..MaxFaults
          /\ UNCHANGED <<valid, issued, file, keyring, url, logout, request, overlap, dropped>>
      BY <1>13 DEF IInv, TypeOK, Fetched, Fault, stored, hist
    <2>. QED BY <2>1, <2>2, <2>3 DEF IInv, TypeOK, LoginType
  <1>14. ASSUME NEW l \in Logouts, NEW b \in BOOLEAN, LogoutStart(l, b) PROVE TypeOK'
    <2>1. url \in Servers
      BY <1>14 DEF IInv, TypeOK, LogoutStart
    <2>2. AuthToken(url, b) \in Tokens \cup {None} /\ faults' \in 0..MaxFaults
      BY <1>14, <2>1, TokenRead DEF LogoutStart
    <2>3. PICK t \in Tokens \cup {None} : t = AuthToken(url, b)
      BY <2>2
    <2>4. PICK pc \in {"forget", "notify"} :
            logout' = [logout EXCEPT ![l] =
              [pc |-> pc, server |-> url, token |-> t, kept |-> FALSE]]
      BY <1>14, <2>3 DEF LogoutStart
    <2>5. logout' \in [Logouts -> LogoutType]
      BY <2>1, <2>4 DEF IInv, TypeOK, LogoutType
    <2>6. overlap' \in BOOLEAN
      BY <1>14 DEF LogoutStart
    <2>7. UNCHANGED <<valid, issued, file, keyring, url, local, user, loading, screen, login,
                      request, dropped>>
      BY <1>14 DEF LogoutStart, stored, react
    <2>. QED BY <2>2, <2>5, <2>6, <2>7 DEF IInv, TypeOK, LogoutType
  <1>15. ASSUME NEW l \in Logouts, NEW b \in BOOLEAN, Notify(l, b) PROVE TypeOK'
    BY <1>15 DEF IInv, TypeOK, Shape, Stopped, LoginInv, LogoutInv, Tokens,
       Notify, stored, react, hist, Out
  <1>16. ASSUME NEW l \in Logouts, NEW b \in BOOLEAN, Forget(l, b) PROVE TypeOK'
    <2>1. url \in Servers
      BY <1>16 DEF IInv, TypeOK, Shape, Stopped, Forget, Out
    <2>2. logout' \in [Logouts -> LogoutType]
      <3>1. \A k : k \in BOOLEAN =>
              [logout[l] EXCEPT !.pc = "write", !.server = url, !.kept = k] \in LogoutType
        <4>1. logout[l] \in LogoutType /\ url \in Servers \cup {None}
          BY <2>1 DEF IInv, TypeOK, LogoutType
        <4>. QED BY <4>1, LogoutTypes
      <3>. DEFINE kept == ~b
      <3>2. kept \in BOOLEAN /\ logout' = [logout EXCEPT ![l] =
              [logout[l] EXCEPT !.pc = "write", !.server = url, !.kept = kept]]
        BY <1>16 DEF Forget
      <3>. HIDE DEF kept
      <3>3. logout \in [Logouts -> LogoutType]
        BY DEF IInv, TypeOK, LogoutType
      <3>. QED BY <3>1, <3>2, <3>3
    <2>3. /\ keyring' \in {keyring, [keyring EXCEPT ![url] = None]} /\ file' = "torn"
          /\ faults' \in 0..MaxFaults
          /\ UNCHANGED <<valid, issued, url, local, user, loading, screen, login, request,
                         overlap, dropped>>
      BY <1>16 DEF IInv, TypeOK, Forget, Fault, Truncate, react, hist
    <2>. QED BY <2>1, <2>2, <2>3 DEF IInv, TypeOK, LogoutType
  <1>17. ASSUME NEW l \in Logouts, LogoutWrite(l) PROVE TypeOK'
    BY <1>17 DEF IInv, TypeOK, Shape, Stopped, LoginInv, LogoutInv, Tokens,
       LogoutWrite, react, hist, Write, Out
  <1>18. ASSUME NEW l \in Logouts, LogoutWriteFails(l) PROVE TypeOK'
    BY <1>18 DEF IInv, TypeOK, Shape, Stopped, LoginInv, LogoutInv, Tokens,
       LogoutWriteFails, stored, react, hist, Fault, Out
  <1>19. ASSUME NEW l \in Logouts, Finally(l) PROVE TypeOK'
    <2>1. user' \in BOOLEAN
      BY <1>19 DEF Finally
    <2>2. /\ local' = [local EXCEPT !.token = None]
          /\ logout' = [logout EXCEPT ![l].pc = "status", ![l].server = url]
          /\ UNCHANGED <<valid, issued, file, keyring, url, loading, screen, login, request,
                         overlap, dropped, faults>>
      BY <1>19 DEF Finally, stored, hist
    <2>3. logout' \in [Logouts -> LogoutType] /\ url \in Servers \cup {None}
      <3>1. logout \in [Logouts -> LogoutType] /\ url \in Servers \cup {None}
        BY DEF IInv, TypeOK, LogoutType
      <3>2. [logout[l] EXCEPT !.pc = "status", !.server = url] \in LogoutType
        BY <3>1, LogoutTypes, TRUE \in BOOLEAN
      <3>3. logout' = [logout EXCEPT ![l] = [logout[l] EXCEPT !.pc = "status", !.server = url]]
        BY <2>2
      <3>. QED BY <3>1, <3>2, <3>3
    <2>4. local' \in [api : Addresses, token : Tokens \cup {None}]
      BY <2>2 DEF IInv, TypeOK
    <2>. QED BY <2>1, <2>2, <2>3, <2>4 DEF IInv, TypeOK, LogoutType
  <1>20. ASSUME NEW l \in Logouts, LogoutStatus(l) PROVE TypeOK'
    BY <1>20, Normal DEF IInv, TypeOK, Shape, Stopped, LoginInv, LogoutInv, Tokens,
       LogoutStatus, stored, react, hist, NoLogout, Out
  <1>21. ASSUME NEW r \in Requests, Send(r) PROVE TypeOK'
    BY <1>21 DEF IInv, TypeOK, Shape, Stopped, LoginInv, LogoutInv, Tokens, Send,
       stored, react, hist
  <1>22. ASSUME NEW r \in Requests, Answered(r) PROVE TypeOK'
    <2>1. dropped' \in BOOLEAN
      BY <1>22 DEF IInv, TypeOK, Answered, Accepts
    <2>2. local' \in {local, [local EXCEPT !.token = None]} /\ screen' \in {screen, "login"}
      BY <1>22 DEF Answered
    <2>3. /\ request' = [request EXCEPT ![r] = NoRequest]
          /\ UNCHANGED <<valid, issued, file, keyring, url, user, loading, login, logout,
                         overlap, faults>>
      BY <1>22 DEF Answered, stored
    <2>. QED BY <2>1, <2>2, <2>3 DEF IInv, TypeOK, NoRequest
  <1>. QED BY <1>1, <1>2, <1>3, <1>4, <1>5, <1>6, <1>7, <1>8, <1>9, <1>10, <1>11,
     <1>12, <1>13, <1>14, <1>15, <1>16, <1>17, <1>18, <1>19, <1>20, <1>21, <1>22
     DEF Next, LoginStep, LogoutStep

(* Every step keeps the process and its login in shape. *)
LEMMA ShapeKeeps ==
  ASSUME IInv, Next
  PROVE  Shape'
  <1>. USE SessionAssumption
  <1>1. ASSUME NEW b \in BOOLEAN, Start(b) PROVE Shape'
    BY <1>1 DEF IInv, TypeOK, Shape, Stopped, LoginInv, Unwritten, LogoutInv,
       Start, stored, NoLogin
  <1>2. CASE Quit
    BY <1>2 DEF IInv, TypeOK, Shape, Stopped, LoginInv, Unwritten, LogoutInv,
       Quit, stored, hist, Fault, NoLogin, NoLogout, NoRequest
  <1>3. CASE Route
    BY <1>3 DEF IInv, TypeOK, Shape, Stopped, LoginInv, Unwritten, LogoutInv,
       Route, stored, hist
  <1>4. ASSUME NEW t \in valid, TokenEnds(t) PROVE Shape'
    BY <1>4 DEF IInv, TypeOK, Shape, Stopped, LoginInv, Unwritten, LogoutInv,
       TokenEnds, stored, react, hist, Fault
  <1>5. ASSUME NEW s \in Servers, LoginStart(s) PROVE Shape'
    BY <1>5 DEF IInv, TypeOK, Shape, Stopped, LoginInv, Unwritten, LogoutInv,
       LoginStart, stored, LoggingOut, Out
  <1>6. CASE Posted
    <2>. DEFINE t == [server |-> login.server, n |-> issued + 1]
    <2>1. t \in Tokens /\ t.server = login.server /\ login.server \in Servers
      BY <1>6 DEF IInv, TypeOK, Shape, LoginInv, Posted, Tokens
    <2>2. t # None
      BY <2>1
    <2>3. /\ login.pc = "post" /\ login' = [login EXCEPT !.pc = "write", !.token = t]
          /\ url' = login.server /\ file' = "torn"
          /\ UNCHANGED <<keyring, local, user, loading, screen, logout, request>>
      BY <1>6 DEF Posted, Truncate, react
    <2>. HIDE DEF t
    <2>4. /\ login'.pc = "write" /\ login'.server = login.server /\ login'.token = t
      BY <2>3 DEF IInv, TypeOK
    <2>. QED BY <2>1, <2>2, <2>3, <2>4
             DEF IInv, Shape, Stopped, LoginInv, Unwritten, LogoutInv
  <1>7. CASE LoginFails
    BY <1>7 DEF IInv, TypeOK, Shape, Stopped, LoginInv, Unwritten, LogoutInv,
       LoginFails, stored, hist, Fault, NoLogin
  <1>8. CASE LoginWrite
    BY <1>8 DEF IInv, TypeOK, Shape, Stopped, LoginInv, Unwritten, LogoutInv,
       LoginWrite, react, hist, Write
  <1>9. CASE SaveToken
    BY <1>9 DEF IInv, TypeOK, Shape, Stopped, LoginInv, Unwritten, LogoutInv,
       SaveToken, react, hist
  <1>10. CASE LoginStatus
    <2>1. \/ login' = NoLogin /\ loading' = FALSE
          \/ login' = [login EXCEPT !.pc = "attach"] /\ loading' = loading
      BY <1>10 DEF LoginStatus
    <2>2. \/ login'.pc = "none" /\ ~loading'
          \/ login'.pc = "attach" /\ (loading' <=> loading)
      BY <2>1 DEF IInv, TypeOK, NoLogin
    <2>3. login.pc = "status" /\ UNCHANGED <<file, keyring, url, user, logout, request, issued>>
      BY <1>10 DEF LoginStatus, stored
    <2>. QED BY <2>2, <2>3 DEF IInv, Shape, Stopped, LoginInv, Unwritten, LogoutInv
  <1>11. ASSUME NEW b \in BOOLEAN, AttachStoredToken(b) PROVE Shape'
    BY <1>11 DEF IInv, TypeOK, Shape, Stopped, LoginInv, Unwritten, LogoutInv,
       AttachStoredToken, stored, react
  <1>12. CASE FetchUser
    BY <1>12 DEF IInv, TypeOK, Shape, Stopped, LoginInv, Unwritten, LogoutInv,
       FetchUser, stored, react, hist
  <1>13. ASSUME NEW ok \in BOOLEAN, Fetched(ok) PROVE Shape'
    BY <1>13 DEF IInv, TypeOK, Shape, Stopped, LoginInv, Unwritten, LogoutInv,
       Fetched, stored, hist, Fault, NoLogin, Accepts
  <1>14. ASSUME NEW l \in Logouts, NEW b \in BOOLEAN, LogoutStart(l, b) PROVE Shape'
    BY <1>14 DEF IInv, TypeOK, Shape, Stopped, LoginInv, Unwritten, LogoutInv,
       LogoutStart, stored, react, LoggingOut, NoLogout, Out
  <1>15. ASSUME NEW l \in Logouts, NEW b \in BOOLEAN, Notify(l, b) PROVE Shape'
    BY <1>15 DEF IInv, TypeOK, Shape, Stopped, LoginInv, Unwritten, LogoutInv,
       Notify, stored, react, hist, Out
  <1>16. ASSUME NEW l \in Logouts, NEW b \in BOOLEAN, Forget(l, b) PROVE Shape'
    BY <1>16 DEF IInv, TypeOK, Shape, Stopped, LoginInv, Unwritten, LogoutInv,
       Forget, react, hist, Fault, Truncate, Out
  <1>17. ASSUME NEW l \in Logouts, LogoutWrite(l) PROVE Shape'
    BY <1>17 DEF IInv, TypeOK, Shape, Stopped, LoginInv, Unwritten, LogoutInv,
       LogoutWrite, react, hist, Write, Out
  <1>18. ASSUME NEW l \in Logouts, LogoutWriteFails(l) PROVE Shape'
    BY <1>18 DEF IInv, TypeOK, Shape, Stopped, LoginInv, Unwritten, LogoutInv,
       LogoutWriteFails, stored, react, hist, Fault, Out
  <1>19. ASSUME NEW l \in Logouts, Finally(l) PROVE Shape'
    BY <1>19 DEF IInv, TypeOK, Shape, Stopped, LoginInv, Unwritten, LogoutInv,
       Finally, stored, hist, Out
  <1>20. ASSUME NEW l \in Logouts, LogoutStatus(l) PROVE Shape'
    BY <1>20 DEF IInv, TypeOK, Shape, Stopped, LoginInv, Unwritten, LogoutInv,
       LogoutStatus, stored, react, hist, NoLogout, Out
  <1>21. ASSUME NEW r \in Requests, Send(r) PROVE Shape'
    BY <1>21 DEF IInv, TypeOK, Shape, Stopped, LoginInv, Unwritten, LogoutInv,
       Send, stored, react, hist
  <1>22. ASSUME NEW r \in Requests, Answered(r) PROVE Shape'
    BY <1>22 DEF IInv, TypeOK, Shape, Stopped, LoginInv, Unwritten, LogoutInv,
       Answered, stored, NoRequest, Accepts
  <1>. QED BY <1>1, <1>2, <1>3, <1>4, <1>5, <1>6, <1>7, <1>8, <1>9, <1>10, <1>11,
     <1>12, <1>13, <1>14, <1>15, <1>16, <1>17, <1>18, <1>19, <1>20, <1>21, <1>22
     DEF Next, LoginStep, LogoutStep

(* A step that begins no overlap keeps the four copies in step. *)
LEMMA FlowKeeps ==
  ASSUME IInv, Next, ~overlap'
  PROVE  Flow'
  <1>. USE SessionAssumption
  <1>1. ASSUME NEW b \in BOOLEAN, Start(b) PROVE Flow'
    <2>1. PICK s \in Servers : s = url' /\ (s = file \/ file = None)
      BY <1>1 DEF Start, IInv, TypeOK
    <2>2. PICK t : t = AuthToken(s, b) /\ t \in {None, keyring[s]}
      BY <1>1, TokenRead DEF Start
    <2>3. /\ login' = [pc |-> "status", server |-> s, token |-> t] /\ url = None
          /\ UNCHANGED <<file, keyring, local, user, logout, request>>
      BY <1>1, <2>1, <2>2 DEF Start, stored
    <2>4. ~user /\ (\A l \in Logouts : logout[l].pc = "none")
          /\ (\A r \in Requests : request[r].pc = "none")
      BY <2>3 DEF IInv, Shape, Stopped
    <2>5. login'.pc = "status" /\ login'.token = t
      BY <2>3
    <2>6. t # None => file = s /\ keyring[s] # None
      BY <2>1, <2>2 DEF IInv, Shape, Unwritten
    <2>7. LoginFlow'
      BY <2>1, <2>3, <2>5, <2>6 DEF LoginFlow
    <2>. QED BY <2>3, <2>4, <2>7 DEF Flow, Alone, LogoutFlow, UserFlow, RequestFlow
  <1>2. CASE Quit
    BY <1>2 DEF IInv, TypeOK, Shape, Stopped, LoginInv, Unwritten, LogoutInv,
       Flow, Alone, LoginFlow, LogoutFlow, UserFlow, RequestFlow, LoggingOut, Out,
       Quit, stored, hist, Fault, NoLogin, NoLogout, NoRequest
  <1>3. CASE Route
    BY <1>3 DEF IInv, TypeOK, Shape, Stopped, LoginInv, Unwritten, LogoutInv,
       Flow, Alone, LoginFlow, LogoutFlow, UserFlow, RequestFlow, LoggingOut, Out,
       Route, stored, hist
  <1>4. ASSUME NEW t \in valid, TokenEnds(t) PROVE Flow'
    BY <1>4 DEF IInv, TypeOK, Shape, Stopped, LoginInv, Unwritten, LogoutInv,
       Flow, Alone, LoginFlow, LogoutFlow, UserFlow, RequestFlow, LoggingOut, Out,
       TokenEnds, stored, react, hist, Fault
  <1>5. ASSUME NEW s \in Servers, LoginStart(s) PROVE Flow'
    BY <1>5 DEF IInv, TypeOK, Shape, Stopped, LoginInv, Unwritten, LogoutInv,
       Flow, Alone, LoginFlow, LogoutFlow, UserFlow, RequestFlow, LoggingOut, Out,
       LoginStart, stored
  <1>6. CASE Posted
    BY <1>6 DEF IInv, TypeOK, Shape, Stopped, LoginInv, Unwritten, LogoutInv,
       Flow, Alone, LoginFlow, LogoutFlow, UserFlow, RequestFlow, LoggingOut, Out,
       Posted, react, hist, Truncate
  <1>7. CASE LoginFails
    BY <1>7 DEF IInv, TypeOK, Shape, Stopped, LoginInv, Unwritten, LogoutInv,
       Flow, Alone, LoginFlow, LogoutFlow, UserFlow, RequestFlow, LoggingOut, Out,
       LoginFails, stored, hist, Fault, NoLogin
  <1>8. CASE LoginWrite
    BY <1>8 DEF IInv, TypeOK, Shape, Stopped, LoginInv, Unwritten, LogoutInv,
       Flow, Alone, LoginFlow, LogoutFlow, UserFlow, RequestFlow, LoggingOut, Out,
       LoginWrite, react, hist, Write
  <1>9. CASE SaveToken
    BY <1>9 DEF IInv, TypeOK, Shape, Stopped, LoginInv, Unwritten, LogoutInv,
       Flow, Alone, LoginFlow, LogoutFlow, UserFlow, RequestFlow, LoggingOut, Out,
       SaveToken, react, hist
  <1>10. CASE LoginStatus
    <2>1. \/ login' = NoLogin
          \/ login' = [login EXCEPT !.pc = "attach"] /\ login.token # None
      BY <1>10 DEF LoginStatus
    <2>2. \/ login'.pc = "none"
          \/ login'.pc = "attach" /\ login.token # None
      BY <2>1 DEF IInv, TypeOK, NoLogin
    <2>3. /\ login.pc = "status" /\ local' = [local EXCEPT !.api = normalizeApiUrl[login.server]]
          /\ UNCHANGED <<file, keyring, url, user, logout, request, dropped, overlap>>
      BY <1>10 DEF LoginStatus, stored, hist
    <2>4. ~user /\ login.server = url /\ local'.api = normalizeApiUrl[url]
      BY <2>3 DEF IInv, TypeOK, Shape, LoginInv
    <2>. QED BY <2>2, <2>3, <2>4 DEF IInv, Flow, Alone, LoginFlow, LogoutFlow, UserFlow,
                RequestFlow
  <1>11. ASSUME NEW b \in BOOLEAN, AttachStoredToken(b) PROVE Flow'
    <2>1. /\ login.pc = "attach" /\ login' = [login EXCEPT !.pc = "me"]
          /\ local' = [local EXCEPT !.token = AuthToken(url, b)]
          /\ UNCHANGED <<file, keyring, url, user, logout, request, overlap>>
      BY <1>11 DEF AttachStoredToken, stored, react
    <2>2. login'.pc = "me" /\ ~user /\ url \in Servers
      BY <2>1 DEF IInv, TypeOK, Shape, Stopped, LoginInv
    <2>3. AuthToken(url, b) \in {None, keyring[url]}
      BY <1>11, <2>2, TokenRead DEF AttachStoredToken
    <2>4. local'.api = local.api /\ local'.token \in {None, keyring[url]}
      BY <2>1, <2>3 DEF IInv, TypeOK
    <2>5. LoginFlow'
      BY <2>1, <2>2, <2>4 DEF IInv, Flow, LoginFlow
    <2>. QED BY <2>1, <2>2, <2>5 DEF IInv, Flow, Alone, LogoutFlow, UserFlow, RequestFlow
  <1>12. CASE FetchUser
    BY <1>12 DEF IInv, TypeOK, Shape, Stopped, LoginInv, Unwritten, LogoutInv,
       Flow, Alone, LoginFlow, LogoutFlow, UserFlow, RequestFlow, LoggingOut, Out,
       FetchUser, stored, react, hist
  <1>13. ASSUME NEW ok \in BOOLEAN, Fetched(ok) PROVE Flow'
    BY <1>13 DEF IInv, TypeOK, Shape, Stopped, LoginInv, Unwritten, LogoutInv,
       Flow, Alone, LoginFlow, LogoutFlow, UserFlow, RequestFlow, LoggingOut, Out,
       Fetched, stored, hist, Fault, NoLogin, Accepts
  <1>14. ASSUME NEW l \in Logouts, NEW b \in BOOLEAN, LogoutStart(l, b) PROVE Flow'
    <2>1. /\ logout[l].pc = "none" /\ ~LoggingOut /\ ~overlap /\ login.pc = "none" /\ user
          /\ UNCHANGED <<file, keyring, url, local, user, login, request, dropped>>
      BY <1>14 DEF LogoutStart, Out, IInv, Shape, LoginInv, TypeOK, stored, react
    <2>2. \A k \in Logouts : logout[k].pc = "none"
      BY <2>1 DEF LoggingOut, Out
    <2>0. AuthToken(url, b) \in {None, keyring[url]}
      BY <1>14, TokenRead DEF LogoutStart, IInv, TypeOK
    <2>3. /\ logout'[l].pc \in {"forget", "notify"} /\ logout'[l].token \in {None, keyring[url]}
          /\ \A k \in Logouts \ {l} : logout'[k] = logout[k]
      BY <1>14, <2>0 DEF LogoutStart, IInv, TypeOK
    <2>4. LoggingOut'
      BY <2>3 DEF LoggingOut, Out
    <2>. QED BY <2>1, <2>2, <2>3, <2>4 DEF IInv, Flow, Alone, LoginFlow, LogoutFlow, UserFlow,
                RequestFlow
  <1>15. ASSUME NEW l \in Logouts, NEW b \in BOOLEAN, Notify(l, b) PROVE Flow'
    BY <1>15 DEF IInv, TypeOK, Shape, Stopped, LoginInv, Unwritten, LogoutInv,
       Flow, Alone, LoginFlow, LogoutFlow, UserFlow, RequestFlow, LoggingOut, Out,
       Notify, stored, react, hist
  <1>16. ASSUME NEW l \in Logouts, NEW b \in BOOLEAN, Forget(l, b) PROVE Flow'
    BY <1>16 DEF IInv, TypeOK, Shape, Stopped, LoginInv, Unwritten, LogoutInv,
       Flow, Alone, LoginFlow, LogoutFlow, UserFlow, RequestFlow, LoggingOut, Out,
       Forget, react, hist, Fault, Truncate
  <1>17. ASSUME NEW l \in Logouts, LogoutWrite(l) PROVE Flow'
    BY <1>17 DEF IInv, TypeOK, Shape, Stopped, LoginInv, Unwritten, LogoutInv,
       Flow, Alone, LoginFlow, LogoutFlow, UserFlow, RequestFlow, LoggingOut, Out,
       LogoutWrite, react, hist, Write
  <1>18. ASSUME NEW l \in Logouts, LogoutWriteFails(l) PROVE Flow'
    BY <1>18 DEF IInv, TypeOK, Shape, Stopped, LoginInv, Unwritten, LogoutInv,
       Flow, Alone, LoginFlow, LogoutFlow, UserFlow, RequestFlow, LoggingOut, Out,
       LogoutWriteFails, stored, react, hist, Fault
  <1>19. ASSUME NEW l \in Logouts, Finally(l) PROVE Flow'
    BY <1>19 DEF IInv, TypeOK, Shape, Stopped, LoginInv, Unwritten, LogoutInv,
       Flow, Alone, LoginFlow, LogoutFlow, UserFlow, RequestFlow, LoggingOut, Out,
       Finally, stored, hist
  <1>20. ASSUME NEW l \in Logouts, LogoutStatus(l) PROVE Flow'
    BY <1>20 DEF IInv, TypeOK, Shape, Stopped, LoginInv, Unwritten, LogoutInv,
       Flow, Alone, LoginFlow, LogoutFlow, UserFlow, RequestFlow, LoggingOut, Out,
       LogoutStatus, stored, react, hist, NoLogout
  <1>21. ASSUME NEW r \in Requests, Send(r) PROVE Flow'
    BY <1>21 DEF IInv, TypeOK, Shape, Stopped, LoginInv, Unwritten, LogoutInv,
       Flow, Alone, LoginFlow, LogoutFlow, UserFlow, RequestFlow, LoggingOut, Out,
       Send, stored, react, hist
  <1>22. ASSUME NEW r \in Requests, Answered(r) PROVE Flow'
    BY <1>22 DEF IInv, TypeOK, Shape, Stopped, LoginInv, Unwritten, LogoutInv,
       Flow, Alone, LoginFlow, LogoutFlow, UserFlow, RequestFlow, LoggingOut, Out,
       Answered, stored, NoRequest, Accepts
  <1>. QED BY <1>1, <1>2, <1>3, <1>4, <1>5, <1>6, <1>7, <1>8, <1>9, <1>10, <1>11,
     <1>12, <1>13, <1>14, <1>15, <1>16, <1>17, <1>18, <1>19, <1>20, <1>21, <1>22
     DEF Next, LoginStep, LogoutStep

-----------------------------------------------------------------------------
LEMMA InitKeeps == Init => IInv
  <1>. SUFFICES ASSUME Init PROVE IInv
    OBVIOUS
  <1>. USE SessionAssumption
  <1>1. TypeOK
    <2>1. user \in BOOLEAN /\ loading \in BOOLEAN /\ overlap \in BOOLEAN /\ dropped \in BOOLEAN
      BY DEF Init
    <2>2. /\ login \in LoginType /\ logout \in [Logouts -> LogoutType]
          /\ request \in [Requests -> RequestType]
      <3>1. NoLogout \in LogoutType /\ NoRequest \in RequestType /\ NoLogin \in LoginType
        BY DEF NoLogout, NoRequest, NoLogin, LogoutType, RequestType, LoginType
      <3>. QED BY <3>1 DEF Init
    <2>3. /\ valid = {} /\ issued = 0 /\ file = None /\ keyring = [s \in Servers |-> None]
          /\ url = None /\ local = [api |-> normalizeApiUrl[Default], token |-> None]
          /\ screen = "home" /\ faults = 0
      BY DEF Init
    <2>. QED BY <2>1, <2>2, <2>3, Normal DEF TypeOK, LoginType, LogoutType, RequestType
  <1>2. Shape
    BY DEF Init, Shape, Stopped, LoginInv, Unwritten, LogoutInv, NoLogin, NoLogout, NoRequest
  <1>3. Flow
    BY DEF Init, Flow, Alone, LoginFlow, LogoutFlow, UserFlow, RequestFlow, NoLogin,
           NoLogout, NoRequest
  <1>. QED BY <1>1, <1>2, <1>3 DEF IInv

LEMMA NextKeeps == IInv /\ [Next]_vars => IInv'
  <1>. SUFFICES ASSUME IInv, [Next]_vars PROVE IInv'
    OBVIOUS
  <1>1. CASE Next
    BY <1>1, TypeKeeps, ShapeKeeps, FlowKeeps DEF IInv
  <1>2. CASE UNCHANGED vars
    <2>1. TypeOK'
      BY <1>2 DEF IInv, TypeOK, vars, stored, react, hist
    <2>2. Shape'
      BY <1>2 DEF IInv, Shape, Stopped, LoginInv, Unwritten, LogoutInv, vars, stored,
                  react, hist
    <2>3. ~overlap' => Flow'
      BY <1>2 DEF IInv, Flow, Alone, LoginFlow, LogoutFlow, UserFlow, RequestFlow,
                  LoggingOut, Out, vars, stored, react, hist
    <2>. QED BY <2>1, <2>2, <2>3 DEF IInv
  <1>. QED BY <1>1, <1>2

-----------------------------------------------------------------------------
(* The theorems.                                                           *)

LEMMA Invariance == Spec => []IInv
  BY InitKeeps, NextKeeps, PTL DEF Spec

(* The client's four copies and the calls under way are what the code can  *)
(* make them.                                                              *)
THEOREM TypeCorrect == Spec => []TypeOK
  <1>1. IInv => TypeOK
    BY DEF IInv
  <1>. QED BY <1>1, Invariance, PTL

(* A token reaches no server but the one that issued it, in a client whose *)
(* logins and logouts do not overlap.                                      *)
THEOREM TokensStayHome == Spec => []RequestsStayHome
  <1>1. IInv => RequestsStayHome
    <2>1. SUFFICES ASSUME IInv, ~overlap, NEW q \in {request[r] : r \in Requests} \cup {login},
                          q.pc \in {"sent", "answer"}, q.token # None
                   PROVE  q.server = normalizeApiUrl[q.token.server]
      BY DEF RequestsStayHome
    <2>2. Flow /\ TypeOK
      BY <2>1 DEF IInv
    <2>3. CASE q = login
      BY <2>1, <2>2, <2>3 DEF Flow, LoginFlow, TypeOK
    <2>4. ASSUME NEW r \in Requests, q = request[r] PROVE q.server = normalizeApiUrl[q.token.server]
      BY <2>1, <2>2, <2>4 DEF Flow, RequestFlow, TypeOK
    <2>. QED BY <2>1, <2>3, <2>4
  <1>. QED BY <1>1, Invariance, PTL

(* A session that is shown survives a restart, whatever failed or was cut  *)
(* off before it.                                                          *)
THEOREM SessionSurvives == Spec => []SessionDurable
  <1>1. IInv => SessionDurable
    BY DEF IInv, Flow, UserFlow, SessionDurable
  <1>. QED BY <1>1, Invariance, PTL

(* The token a logout reports to the server is gone from the keyring.      *)
THEOREM DeviceForgotten == Spec => []ForgetsDevice
  <1>1. IInv => ForgetsDevice
    BY DEF IInv, Flow, LogoutFlow, ForgetsDevice
  <1>. QED BY <1>1, Invariance, PTL
=============================================================================
