---------------------------- MODULE AdminConsole ----------------------------
(***************************************************************************)
(* The session of the admin console (web-admin, src/lib/axios.ts and       *)
(* src/hooks/useAuth.ts): what the browser keeps in localStorage, the      *)
(* requests under way, and the refresh of an expired token against the     *)
(* auth service, which answers {user, tokens} where the console reads      *)
(* access_token of the body itself.                                        *)
(***************************************************************************)
EXTENDS Service

CONSTANTS
  MaxPairs,   \* bound: the token pairs issued in a behaviour
  None,       \* no entry in localStorage
  Undefined   \* the entry "undefined"

Pairs == 1..MaxPairs

ASSUME ConsoleAssumption ==
  MaxPairs \in Nat \ {0} /\ None \notin Pairs /\ Undefined \notin Pairs \cup {None}

VARIABLES
  store,   \* localStorage: the entries access_token, refresh_token and user
  issued,  \* the pairs the auth service has issued
  valid,   \* those whose access token is not expired
  live,    \* those whose refresh token is neither revoked nor expired
  page     \* the route shown: the login page or one of those AuthGuard guards

consoleVars == <<job, store, issued, valid, live, page>>

ConsoleJob ==
  [step : {"sent"}, access : Pairs \cup {None, Undefined}, retry : BOOLEAN]
    \cup [step : {"lookup", "rotate"}, refresh : Pairs]
    \cup [step : {"refreshed", "refused"}]

SignedOut == [access |-> None, refresh |-> None, user |-> FALSE]

ConsoleInit ==
  /\ AllIdle
  /\ store = SignedOut
  /\ issued = {} /\ valid = {} /\ live = {}
  /\ page = "login"

\* AuthGuard: an entry "undefined" is as good as a token.
IsAuthenticated == store.access # None /\ store.user

-----------------------------------------------------------------------------
(* Signing in and out.                                                     *)

Issue(p) ==
  /\ p \notin issued
  /\ issued' = issued \cup {p} /\ valid' = valid \cup {p}

\* loginMutation of an administrator; one with another role stores nothing.
LogIn ==
  /\ page = "login"
  /\ \E p \in Pairs :
       /\ Issue(p) /\ live' = live \cup {p}
       /\ store' = [access |-> p, refresh |-> p, user |-> TRUE]
  /\ page' = "dashboard"
  /\ UNCHANGED job

\* A route is opened or the page reloaded: its requests are lost; Login redirects
\* who is signed in, AuthGuard who is not.
Load ==
  /\ page' = IF IsAuthenticated THEN "dashboard" ELSE "login"
  /\ job' = [t \in Slots |-> Idle]
  /\ UNCHANGED <<store, issued, valid, live>>

\* logout(): requests under way go on.
LogOut ==
  /\ page = "dashboard"
  /\ store' = SignedOut
  /\ page' = "login"
  /\ UNCHANGED <<job, issued, valid, live>>

-----------------------------------------------------------------------------
(* Requests.                                                               *)

\* A page loads, polls or is worked on; the request interceptor attaches the token.
Request(s) ==
  /\ IsIdle(s)
  /\ page = "dashboard"
  /\ Goto(s, [step |-> "sent", access |-> store.access, retry |-> FALSE])
  /\ UNCHANGED <<store, issued, valid, live, page>>

\* The answer: a 401 of a request that is no retry asks for a refresh.
Answer(s) ==
  /\ At(s, "sent")
  /\ IF job[s].access \in valid \/ job[s].retry THEN Return(s)
     ELSE IF store.refresh = None THEN Goto(s, [step |-> "refused"])
     ELSE Goto(s, [step |-> "lookup", refresh |-> store.refresh])
  /\ UNCHANGED <<store, issued, valid, live, page>>

\* POST /auth/refresh: the token is found if it is not revoked ...
FindRefresh(s) ==
  /\ At(s, "lookup")
  /\ Goto(s, IF job[s].refresh \in live THEN [job[s] EXCEPT !.step = "rotate"]
             ELSE [step |-> "refused"])
  /\ UNCHANGED <<store, issued, valid, live, page>>

\* ... revoked, and a new pair is issued.
Rotate(s) ==
  /\ At(s, "rotate")
  /\ \E p \in Pairs : Issue(p) /\ live' = (live \ {job[s].refresh}) \cup {p}
  /\ Goto(s, [step |-> "refreshed"])
  /\ UNCHANGED <<store, page>>

\* The refresh is not answered or not with a pair.
RefreshFails(s) ==
  /\ job[s].step \in {"lookup", "rotate"}
  /\ Goto(s, [step |-> "refused"])
  /\ UNCHANGED <<store, issued, valid, live, page>>

\* data.access_token is undefined: that is stored and sent, once more.
Refreshed(s) ==
  /\ At(s, "refreshed")
  /\ store' = [store EXCEPT !.access = Undefined]
  /\ Goto(s, [step |-> "sent", access |-> Undefined, retry |-> TRUE])
  /\ UNCHANGED <<issued, valid, live, page>>

\* Mutant: a refresh that fails leaves the session as it is.
RefusedQuietly(s) ==
  /\ At(s, "refused")
  /\ Return(s)
  /\ UNCHANGED <<store, issued, valid, live, page>>

\* The tokens are removed, `user` is not, and the page is loaded anew.
Refused(s) ==
  /\ At(s, "refused")
  /\ store' = [store EXCEPT !.access = None, !.refresh = None]
  /\ page' = "login"
  /\ job' = [t \in Slots |-> Idle]
  /\ UNCHANGED <<issued, valid, live>>

\* Fifteen minutes, or seven days.
Expire(p) ==
  /\ \/ p \in valid /\ valid' = valid \ {p} /\ UNCHANGED live
     \/ p \in live /\ live' = live \ {p} /\ UNCHANGED valid
  /\ UNCHANGED <<job, store, issued, page>>

ConsoleStep(s) ==
  Answer(s) \/ FindRefresh(s) \/ Rotate(s) \/ RefreshFails(s) \/ Refreshed(s) \/ Refused(s)

ConsoleNext ==
  \/ LogIn \/ LogOut \/ Load
  \/ \E p \in Pairs : Expire(p)
  \/ \E s \in Slots : Request(s) \/ ConsoleStep(s)

ConsoleSpec == ConsoleInit /\ [][ConsoleNext]_consoleVars

\* Every request under way ends: the gateway answers in time, and the browser
\* reports a connection that is lost.  That requests are made is not supposed.
ConsoleFairness == \A s \in Slots : WF_consoleVars(ConsoleStep(s))

-----------------------------------------------------------------------------
(* Properties.                                                             *)

\* The browser's entries and the locals of the requests have their types.
ConsoleTypeOK ==
  /\ store \in [access : Pairs \cup {None, Undefined}, refresh : Pairs \cup {None},
                user : BOOLEAN]
  /\ valid \subseteq issued /\ live \subseteq issued /\ issued \subseteq Pairs
  /\ page \in {"login", "dashboard"}
  /\ job \in [Slots -> ConsoleJob \cup {Idle}]

\* A console that is left without a usable token does not stay on its pages while
\* it keeps sending requests, as those that poll do, and is not reloaded under them:
\* AuthGuard alone would keep it there, where every request fails.
StaleSessionEnds ==
  []<><<\E s \in Slots : Request(s)>>_consoleVars /\ <>[][~Load]_consoleVars
    => ~<>[](page = "dashboard" /\ store.access \notin valid)
=============================================================================
