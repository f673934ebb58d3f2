------------------------------ MODULE Sessions ------------------------------
(***************************************************************************)
(* One row of users and the rows of user_sessions that belong to it, as the *)
(* calls of auth.service.ts, user-session.service.ts, users.service.ts,     *)
(* admin-users.controller.ts and the activation of a license write them.    *)
(*                                                                         *)
(* A step is one SQL statement with the code around it, hashing included.   *)
(* Two simplifications: the guard that looks a token up and the first       *)
(* statement of the handler are one step, and the row is known by its       *)
(* e-mail, so that a user deleted for good is not registered again.         *)
(*                                                                         *)
(* The row of the user is the set of the changes made to it since it was    *)
(* created: what a change says is left out, and each is made once, the joins *)
(* and the preferences apart.  Of what the preferences write only the warmup *)
(* is kept.  A token is known by the second it was signed in: a user's       *)
(* tokens signed in one second are one string.  Sessions expire with their   *)
(* access token, so a refresh token lives no longer, whatever its own term.  *)
(*                                                                         *)
(* Left out: reads (findAll, statistics, session lists), the license server *)
(* that admin-users.controller.ts tells afterwards, the password reset,      *)
(* which is not implemented, and cleanupExpiredSessions, which nothing calls.*)
(***************************************************************************)
EXTENDS Naturals

CONSTANTS
    Client,    \* browsers
    Session,   \* rows that may ever be inserted
    NoSession,
    NoClient,
    Request,   \* slots for calls that overlap
    Ops,       \* the calls each slot serves
    Settings,  \* what is stored in preferences.warmup, the joins apart
    MaxTime    \* bound: seconds

VARIABLES
    user,     \* the row of users
    session,  \* the rows of user_sessions
    req,      \* the calls being served
    held,     \* the token in each browser's store, 0 for none
    now,      \* the second
    expired   \* tokens signed in this second or before have expired

vars == <<user, session, req, held, now, expired>>

NoRow == [state |-> "none", has |-> {}]
Unborn == [token |-> 0, refresh |-> 0, revoked |-> FALSE]

NoCall == [op |-> "none", at |-> "idle", by |-> NoClient, token |-> 0, id |-> NoSession, copy |-> NoRow]

(* A row from an earlier release, or none before the first registration. *)
Init ==
    /\ user \in {NoRow, [state |-> "live", has |-> {}]}
    /\ session = [s \in Session |-> Unborn]
    /\ req = [r \in Request |-> NoCall]
    /\ held = [c \in Client |-> 0]
    /\ now = 1
    /\ expired = 0
-----------------------------------------------------------------------------
Live == user.state = "live"
Active == Live /\ "suspended" \notin user.has

Valid(s) == session[s].token > expired /\ ~session[s].revoked

(* validateAccessToken *)
Accepts(token) == \E s \in Session : Valid(s) /\ session[s].token = token

Ends(r) == req' = [req EXCEPT ![r] = NoCall]
Goes(r, at) == req' = [req EXCEPT ![r].at = at]

(* Repository.save of the row read before: every column is written, a row    *)
(* that has been deleted comes back.                                         *)
SavesUser(r, has) == user' = [state |-> "live", has |-> has]

Public == {"register", "login", "refresh", "activate"}

(* Calls of an administrator, who has sessions of his own *)
Administration == {"suspended", "remove", "erase"}

Asks(r, c, op) ==
    /\ req[r] = NoCall
    /\ op \in Ops[r] \ (user.has \ {"joins"})
    /\ op \in Public \cup Administration \/ Accepts(held[c])
    /\ req' = [req EXCEPT ![r] = [NoCall EXCEPT !.op = op, !.at = "go", !.by = c, !.token = held[c]]]
    /\ UNCHANGED <<user, session, held, now, expired>>

(* The interceptor of api.ts: 401 clears the store *)
Refused(c) ==
    /\ held[c] # 0 /\ ~Accepts(held[c])
    /\ held' = [held EXCEPT ![c] = 0]
    /\ UNCHANGED <<user, session, req, now, expired>>

Answered(r, token) ==
    /\ Ends(r)
    /\ \/ held' = [held EXCEPT ![req[r].by] = token]
       \/ UNCHANGED held   \* the answer is lost, or the page is closed
-----------------------------------------------------------------------------
(* The e-mail is looked for among the rows not deleted, twice, and the user     *)
(* name; the unique index knows of all.                                       *)
EmailTaken == Live

RegisterFinds(r) ==
    /\ req[r].op = "register" /\ req[r].at = "go"
    /\ IF EmailTaken THEN Ends(r) ELSE Goes(r, "insert")
    /\ UNCHANGED <<user, session, held, now, expired>>

RegisterInserts(r) ==
    /\ req[r].op = "register" /\ req[r].at = "insert"
    /\ IF user.state = "none"
       THEN user' = [state |-> "live", has |-> {}] /\ Goes(r, "issue")
       ELSE Ends(r) /\ UNCHANGED user
    /\ UNCHANGED <<session, held, now, expired>>

LoginChecks(r) ==
    /\ req[r].op = "login" /\ req[r].at = "go"
    /\ IF Active THEN Goes(r, "find") ELSE Ends(r)
    /\ UNCHANGED <<user, session, held, now, expired>>

(* updateLoginStats returns when there is no row, and login goes on *)
LoginCounts(r) ==
    /\ req[r].op = "login" /\ req[r].at = "find"
    /\ req' = [req EXCEPT ![r].at = IF Live THEN "save" ELSE "issue", ![r].copy = IF Live THEN user ELSE NoRow]
    /\ UNCHANGED <<user, session, held, now, expired>>

LoginSaves(r) ==
    /\ req[r].op = "login" /\ req[r].at = "save"
    /\ SavesUser(r, req[r].copy.has)
    /\ req' = [req EXCEPT ![r].at = "issue", ![r].copy = NoRow]
    /\ UNCHANGED <<session, held, now, expired>>

Created(token) == [token |-> token, refresh |-> token, revoked |-> FALSE]

(* generateTokens and createSession end register and login                    *)
Issues(r) ==
    /\ req[r].at = "issue"
    /\ \E s \in Session :
        /\ session[s] = Unborn
        /\ session' = [session EXCEPT ![s] = Created(now)]
    /\ Answered(r, now)
    /\ UNCHANGED <<user, now, expired>>
-----------------------------------------------------------------------------
RefreshValidates(r) ==
    /\ req[r].op = "refresh" /\ req[r].at = "go"
    /\ LET found == {s \in Session : Valid(s) /\ session[s].refresh = req[r].token}
       IN  IF Active /\ found # {}
           THEN \E s \in found : req' = [req EXCEPT ![r].at = "find", ![r].id = s]
           ELSE Ends(r)
    /\ UNCHANGED <<user, session, held, now, expired>>

(* The tokens are signed, then updateAccessToken reads the row again *)
RefreshFinds(r) ==
    /\ req[r].op = "refresh" /\ req[r].at = "find"
    /\ req' = [req EXCEPT ![r].at = "save", ![r].token = now, ![r].copy = session[req[r].id]]
    /\ UNCHANGED <<user, session, held, now, expired>>

RenewedForSure(row, token) == [token |-> token, refresh |-> token, revoked |-> FALSE]   \* mutation

Renewed(row, token) == [row EXCEPT !.token = token, !.refresh = token]

RefreshSaves(r) ==
    /\ req[r].op = "refresh" /\ req[r].at = "save"
    /\ session' = [session EXCEPT ![req[r].id] = Renewed(req[r].copy, req[r].token)]
    /\ Answered(r, req[r].token)
    /\ UNCHANGED <<user, now, expired>>

Found(r, found) ==
    /\ req[r].at = "go" /\ found # {}
    /\ \E s \in found : req' = [req EXCEPT ![r].at = "save", ![r].id = s, ![r].copy = session[s]]
    /\ UNCHANGED <<user, session, held, now, expired>>

(* logout looks for a session with the token; the store is cleared anyhow.     *)
LogoutFinds(r) ==
    /\ req[r].op = "logout"
    /\ LET found == {s \in Session : ~session[s].revoked /\ session[s].token = req[r].token}
       IN  \/ Found(r, found)
           \/ found = {} /\ req[r].at = "go" /\ Answered(r, 0) /\ UNCHANGED <<user, session, now, expired>>

(* revokeSessionById looks for one of the user's; 404 if there is none.        *)
RevokeFinds(r) ==
    /\ req[r].op = "revoke"
    /\ LET found == {s \in Session : session[s] # Unborn}
       IN  \/ Found(r, found)
           \/ found = {} /\ req[r].at = "go" /\ Ends(r) /\ UNCHANGED <<user, session, held, now, expired>>

RevokeSaves(r) ==
    /\ req[r].op \in {"logout", "revoke"} /\ req[r].at = "save"
    /\ session' = [session EXCEPT ![req[r].id] = [req[r].copy EXCEPT !.revoked = TRUE]]
    /\ IF req[r].op = "logout" THEN Answered(r, 0) ELSE Ends(r) /\ UNCHANGED held
    /\ UNCHANGED <<user, now, expired>>

RevokesAll ==
    session' = [s \in Session |-> IF session[s] = Unborn THEN Unborn ELSE [session[s] EXCEPT !.revoked = TRUE]]

LogoutAll(r) ==
    /\ req[r].op = "logoutAll" /\ req[r].at = "go"
    /\ RevokesAll /\ Ends(r)
    /\ UNCHANGED <<user, held, now, expired>>

(* The end of changePassword                                                  *)
PasswordRevokes(r) ==
    /\ req[r].op = "password" /\ req[r].at = "revoke"
    /\ RevokesAll /\ Ends(r)
    /\ UNCHANGED <<user, held, now, expired>>
-----------------------------------------------------------------------------
Saved == Settings \cup {"profile", "preferences", "joins", "password"}

(* The row is read, changed and saved as a whole *)
ChangeFinds(r) ==
    /\ req[r].op \in Saved /\ req[r].at = "go"
    /\ IF Live THEN req' = [req EXCEPT ![r].at = "save", ![r].copy = user] ELSE Ends(r)
    /\ UNCHANGED <<user, session, held, now, expired>>

(* updateGroupJoinSettings: an empty or a masked API key keeps the old one,  *)
(* __CLEAR__ deletes it, another replaces it.                                *)
Keys(has) == {has, has \ {"key"}, has \cup {"key"}}

MergedForgetful(has, op) == IF op = "joins" THEN (has \cap {"key", "password", "suspended"}) \cup {op}
                            ELSE has \cup {op}   \* mutation: warmup is not spread

(* preferences and preferences.warmup are spread under what is written.      *)
Merged(has, op) == has \cup {op}

Warmup == Settings \cup {"joins", "key"}

(* updatePreferences spreads the preferences only: a body that has a warmup   *)
(* puts its own in the place of all that was stored there, and what else it    *)
(* has is left out.                                                         *)
Spread(has) == {has} \cup {(has \ Warmup) \cup own : own \in SUBSET Warmup}

Written(has, op) ==
    CASE op = "joins" -> {Merged(k, op) : k \in Keys(has)}
      [] op = "preferences" -> Spread(has)
      [] OTHER -> {Merged(has, op)}

ChangeSaves(r) ==
    /\ req[r].op \in Saved /\ req[r].at = "save"
    /\ \E has \in Written(req[r].copy.has, req[r].op) : SavesUser(r, has)
    /\ IF req[r].op = "password" THEN Goes(r, "revoke") ELSE Ends(r)
    /\ UNCHANGED <<session, held, now, expired>>

(* One statement: updateLanguage, the administrator's changes *)
Writes(r) ==
    /\ req[r].op \in {"language", "suspended"} /\ req[r].at = "go"
    /\ user' = IF user.state \in {"live", "deleted"} THEN [user EXCEPT !.has = @ \cup {req[r].op}] ELSE user
    /\ Ends(r)
    /\ UNCHANGED <<session, held, now, expired>>

(* remove deletes softly, the administrator for good *)
Removes(r) ==
    /\ req[r].op \in {"remove", "erase"} /\ req[r].at = "go"
    /\ user' = IF req[r].op = "remove"
               THEN IF Live THEN [user EXCEPT !.state = "deleted"] ELSE user
               ELSE IF user.state = "none" THEN user ELSE [state |-> "gone", has |-> {}]
    /\ Ends(r)
    /\ UNCHANGED <<session, held, now, expired>>

(* autoCreateLocalUser: the password of the license server and an active     *)
(* status, whatever the row says; a row deleted softly stays deleted.        *)
ActivationFinds(r) ==
    /\ req[r].op = "activate" /\ req[r].at = "go"
    /\ CASE user.state = "none" -> Goes(r, "insert")
         [] user.state = "gone" -> Ends(r)
         [] OTHER -> Goes(r, "update")
    /\ UNCHANGED <<user, session, held, now, expired>>

Synced(has) == has \ {"password", "suspended"}

ActivationWrites(r) ==
    /\ req[r].op = "activate" /\ req[r].at \in {"insert", "update"}
    /\ user' = CASE req[r].at = "insert" /\ user.state = "none" -> [state |-> "live", has |-> {}]
                 [] req[r].at = "update" /\ user.state \in {"live", "deleted"} -> [user EXCEPT !.has = Synced(@)]
                 [] OTHER -> user
    /\ Ends(r)
    /\ UNCHANGED <<session, held, now, expired>>
-----------------------------------------------------------------------------
SecondPasses ==
    /\ now < MaxTime
    /\ now' = now + 1
    /\ UNCHANGED <<user, session, req, held, expired>>

(* jwt.expiresIn later *)
Expire ==
    /\ now < MaxTime
    /\ expired' = now
    /\ now' = now + 1
    /\ UNCHANGED <<user, session, req, held>>

Next ==
    \/ \E r \in Request, c \in Client : \E op \in Ops[r] : Asks(r, c, op)
    \/ \E c \in Client : Refused(c)
    \/ \E r \in Request :
        \/ RegisterFinds(r) \/ RegisterInserts(r)
        \/ LoginChecks(r) \/ LoginCounts(r) \/ LoginSaves(r) \/ Issues(r)
        \/ RefreshValidates(r) \/ RefreshFinds(r) \/ RefreshSaves(r)
        \/ LogoutFinds(r) \/ RevokeFinds(r) \/ RevokeSaves(r)
        \/ LogoutAll(r) \/ PasswordRevokes(r)
        \/ ChangeFinds(r) \/ ChangeSaves(r) \/ Writes(r) \/ Removes(r)
        \/ ActivationFinds(r) \/ ActivationWrites(r)
    \/ SecondPasses \/ Expire

Spec == Init /\ [][Next]_vars
-----------------------------------------------------------------------------

(* A revoked session comes back only by a refresh that has read it before     *)
(* the revocation and saves it after: updateAccessToken saves the whole row.   *)
RevokedStaysRevoked ==
    [][\A s \in Session :
        session[s].revoked /\ ~session'[s].revoked
            => \E r \in Request : req[r].at = "save" /\ req[r].id = s /\ ~req[r].copy.revoked]_vars

(* A change of the user is undone, and a deletion is, only by a save whose     *)
(* row was read before it, by an updatePreferences that writes the whole of     *)
(* warmup, by the owner of an API key, who may delete it, or by the activation  *)
(* of a license, which brings its own password and an active status.           *)
ChangesKept ==
    [][\A f \in user.has \cup {user.state} :
        LET undone  == f \notin user'.has \cup {user'.state} /\ user'.state # "gone"
            deleted == f # "live" \/ user'.state # "deleted"
        IN  undone /\ deleted /\ f # "none"
            => \E r \in Request : req'[r] # req[r] /\
                \/ req[r].at = "save" /\ req[r].id = NoSession /\ f \notin req[r].copy.has \cup {req[r].copy.state}
                \/ req[r].at = "save" /\ req[r].op = "preferences" /\ f \in Warmup
                \/ req[r].at = "save" /\ req[r].op = "joins" /\ f = "key"
                \/ req[r].at = "update" /\ f \in {"password", "suspended"}]_vars
=============================================================================
