----------------------------- MODULE BaySession -----------------------------
(***************************************************************************)
(* Who is signed in at the bay: b.apiURL and b.token of cmd/bayui/         *)
(* server.go, the token file beside them, and main.go that reads it.  The  *)
(* handlers of login, registration and logout run at the same time, one    *)
(* per open tab; b.mu is held for an assignment, never for the call of the *)
(* API or for the file.  BayJobs has the scans and Accounts what the API   *)
(* answers.                                                                *)
(*                                                                         *)
(* A token is known by its API and its user.  The user is a number and     *)
(* stands for the length of the token too: os.WriteFile truncates the file *)
(* and then writes from its start, so that two of them at a time can leave *)
(* the tail of the longer one.                                             *)
(***************************************************************************)
EXTENDS Naturals, FiniteSets

CONSTANTS
  Tabs, Apis, Users,
  Flag,      \* the API of -api or API_URL
  Saved,     \* what the token file may hold at first
  None, Torn, \* no token; a token with the tail of another one
  MaxLogins, MaxStarts \* bounds: logins and logouts, processes after the first

ASSUME SessionAssumption ==
  /\ Flag \in Apis
  /\ None \notin Apis
  /\ Users \subseteq Nat
  /\ MaxLogins \in Nat /\ MaxStarts \in Nat

Tokens == [api : Apis, user : Users]

ASSUME TokenAssumption ==
  /\ None \notin Tokens /\ Torn \notin Tokens /\ None # Torn
  /\ Saved \subseteq {None} \cup Tokens

VARIABLES
  up,      \* the process runs
  apiURL, token, \* of the bayServer; kept here when it has ended
  file,    \* the content of the token file, None when it is empty or not there
  tab,     \* the handlers
  clean,   \* observes: the last change of the session was saved, undisturbed
  load     \* what is left of the bounds

vars == <<up, apiURL, token, file, tab, clean, load>>

NoHandler == [pc |-> "idle", api |-> None, token |-> None]

Init ==
  /\ up = TRUE
  /\ apiURL = Flag
  /\ file \in Saved
  /\ token = file
  /\ tab = [t \in Tabs |-> NoHandler]
  /\ clean = TRUE
  /\ load = [logins |-> MaxLogins, starts |-> MaxStarts]
-----------------------------------------------------------------------------
At(t, pc) == tab[t].pc = pc

\* Between the change of the memory and that of the file.
Saving == { t \in Tabs : tab[t].pc \in {"open", "write", "unlinked", "remove"} }

Ends(t) == tab' = [tab EXCEPT ![t] = NoHandler]

Takes(t) ==
  /\ up
  /\ At(t, "idle")
  /\ load.logins > 0
  /\ load' = [load EXCEPT !.logins = @ - 1]

\* Login or registration, with the API of the form or without; the URL is set before
\* anybody has answered.
Submits(t) ==
  /\ Takes(t)
  /\ \E api \in Apis \cup {None} :
       apiURL' = IF api = None THEN apiURL ELSE api
  /\ tab' = [tab EXCEPT ![t].pc = "call"]
  /\ UNCHANGED <<up, token, file, clean>>

\* apiJSON takes the URL of now, maybe that of another tab.
Calls(t) ==
  /\ At(t, "call")
  /\ tab' = [tab EXCEPT ![t].pc = "reply", ![t].api = apiURL]
  /\ UNCHANGED <<up, apiURL, token, file, clean, load>>

\* Refused, out of time, or an answer without a token.
Refused(t) ==
  /\ At(t, "reply")
  /\ Ends(t)
  /\ UNCHANGED <<up, apiURL, token, file, clean, load>>

Granted(t) ==
  /\ At(t, "reply")
  /\ \E u \in Users :
       tab' = [tab EXCEPT ![t].pc = "set", ![t].token = [api |-> tab[t].api, user |-> u]]
  /\ UNCHANGED <<up, apiURL, token, file, clean, load>>

SetsToken(t) ==
  /\ At(t, "set")
  /\ token' = tab[t].token
  /\ tab' = [tab EXCEPT ![t].pc = "open"]
  /\ clean' = (Saving = {})
  /\ UNCHANGED <<up, apiURL, file, load>>

\* MkdirAll and the opening of the file with O_TRUNC; an error is dropped.
Opens(t) ==
  /\ At(t, "open")
  /\ \/ /\ file' = None
        /\ tab' = [tab EXCEPT ![t].pc = "write"]
        /\ UNCHANGED clean
     \/ /\ Ends(t)
        /\ clean' = FALSE
        /\ UNCHANGED file
  /\ UNCHANGED <<up, apiURL, token, load>>

\* What a write from the start leaves of a file that another tab has written since.
Over(old, new) ==
  IF old = None \/ old = new THEN new
  ELSE IF old # Torn /\ old.user <= new.user THEN new ELSE Torn

Writes(t) ==
  /\ At(t, "write")
  /\ Ends(t)
  /\ \/ file' = Over(file, tab[t].token) /\ UNCHANGED clean
     \/ clean' = FALSE /\ UNCHANGED file
  /\ UNCHANGED <<up, apiURL, token, load>>

\* The file was removed since it was opened: nobody will read what is written.
WritesNowhere(t) ==
  /\ At(t, "unlinked")
  /\ Ends(t)
  /\ UNCHANGED <<up, apiURL, token, file, clean, load>>

\* Logout: the memory first.
Leaves(t) ==
  /\ Takes(t)
  /\ token' = None
  /\ tab' = [tab EXCEPT ![t].pc = "remove"]
  /\ clean' = (Saving = {})
  /\ UNCHANGED <<up, apiURL, file>>

\* Mutant of Removes: the file stays.
KeepsFile(t) ==
  /\ At(t, "remove")
  /\ Ends(t)
  /\ UNCHANGED <<up, apiURL, token, file, clean, load>>

\* os.Remove; an error is dropped, and one over a file that is not there is none.
Removes(t) ==
  /\ At(t, "remove")
  /\ \/ /\ file' = None
        /\ tab' = [s \in Tabs |->
             IF s = t THEN NoHandler
             ELSE IF At(s, "write") THEN [tab[s] EXCEPT !.pc = "unlinked"] ELSE tab[s]]
        /\ UNCHANGED clean
     \/ /\ Ends(t)
        /\ clean' = FALSE
        /\ UNCHANGED file
  /\ UNCHANGED <<up, apiURL, token, load>>
-----------------------------------------------------------------------------
(* The process *)

\* Quit, killed or crashed.
Exits ==
  /\ up
  /\ up' = FALSE
  /\ tab' = [t \in Tabs |-> NoHandler]
  /\ clean' = (clean /\ Saving = {})
  /\ UNCHANGED <<apiURL, token, file, load>>

\* main: the API of the flag and the token of the file.
Restarts ==
  /\ ~up
  /\ load.starts > 0
  /\ load' = [load EXCEPT !.starts = @ - 1]
  /\ up' = TRUE
  /\ apiURL' = Flag
  /\ token' = file
  /\ clean' = TRUE
  /\ UNCHANGED <<file, tab>>

Next ==
  \/ \E t \in Tabs :
       \/ Submits(t) \/ Calls(t) \/ Refused(t) \/ Granted(t) \/ SetsToken(t)
       \/ Opens(t) \/ Writes(t) \/ WritesNowhere(t) \/ Leaves(t) \/ Removes(t)
  \/ Exits \/ Restarts

Spec == Init /\ [][Next]_vars
-----------------------------------------------------------------------------
(* Properties *)

Stages == {"idle", "call", "reply", "set", "open", "write", "unlinked", "remove"}
Held   == {None, Torn} \cup Tokens

TypeOK ==
  /\ up \in BOOLEAN
  /\ apiURL \in Apis
  /\ token \in Held /\ file \in Held
  /\ tab \in [Tabs -> [pc : Stages, api : Apis \cup {None}, token : Tokens \cup {None}]]
  /\ clean \in BOOLEAN
  /\ load \in [logins : Nat, starts : Nat]

\* A handler that has its answer has a token.
GrantOK(t) ==
  /\ tab[t].pc \notin {"idle", "call"} /\ ~At(t, "remove") => tab[t].api \in Apis
  /\ tab[t].pc \in {"set", "open", "write", "unlinked"} => tab[t].token \in Tokens

\* An undisturbed handler writes what the memory has.
SaveOK(t) ==
  /\ tab[t].pc \in {"open", "write"} => tab[t].token = token
  /\ At(t, "write") => file = None
  /\ At(t, "remove") => token = None
  /\ ~At(t, "unlinked")

\* FileFollows with what it needs: of undisturbed handlers there is one.
SessionInv ==
  /\ \A t \in Tabs : GrantOK(t)
  /\ ~up => \A t \in Tabs : At(t, "idle")
  /\ clean => /\ \A t \in Tabs : SaveOK(t)
              /\ \A t, u \in Saving : t = u
              /\ Saving = {} => file = token

\* The bay is signed in after a restart as whom it was before, and signed out if it was
\* signed out: the file says what the memory says, unless the change was not saved, the
\* process ended between the two or two tabs changed the session at the same time.
FileFollows == clean /\ Saving = {} => file = token
=============================================================================
