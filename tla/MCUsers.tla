------------------------------ MODULE MCUsers ------------------------------
(***************************************************************************)
(* Who may use an installation, for TLC: its license (License), and the user *)
(* it is for with his sessions (Sessions).  The two modules share no variable: *)
(* the activation of a license writes the user's row, and Sessions has that    *)
(* call.  So a behaviour of the server projects on one of each: part says     *)
(* which of them a behaviour is about, and the other rests.  The sessions are  *)
(* looked at twice, with the calls that end, renew or revoke them and with the *)
(* calls that write the user.                                                *)
(***************************************************************************)
EXTENDS License, TLC

CONSTANTS
    Client, Session, NoSession, NoClient, Request, Settings,   \* as in Sessions
    SessionCalls,   \* the calls each slot serves when part is "sessions"
    UserCalls       \* and when it is "user"

(* Settings are named apart from the other calls. *)
ASSUME UsersAssumption ==
    /\ NoSession \notin Session
    /\ Settings \cap {"login", "refresh", "logout", "revoke", "key",
                      "joins", "preferences", "profile", "password", "suspended"} = {}

VARIABLES part, user, session, call, held, now, expired

licenseVars == <<row, req, mem, file, env, age, boots>>
sessionVars == <<user, session, call, held, now, expired>>

S == INSTANCE Sessions WITH Ops <- SessionCalls, MaxTime <- 2, req <- call

U == INSTANCE Sessions WITH Ops <- UserCalls, MaxTime <- 1, req <- call

UsersInit ==
    /\ part \in {"license", "sessions", "user"}
    /\ Init
    /\ S!Init /\ (part = "license" => user = S!NoRow)

UsersNext ==
    \/ part = "license" /\ Next /\ UNCHANGED <<part, sessionVars>>
    \/ part = "sessions" /\ S!Next /\ UNCHANGED <<part, licenseVars>>
    \/ part = "user" /\ U!Next /\ UNCHANGED <<part, licenseVars>>

(* Nothing is asked of Sessions that needs fairness. *)
UsersSpec == UsersInit /\ [][UsersNext]_<<part, licenseVars, sessionVars>> /\ Fairness

CONSTANTS r1, r2

ManySessionCalls ==
    (r1 :> {"login", "refresh", "password"})
    @@ (r2 :> {"refresh", "logout", "logoutAll", "revoke", "remove", "suspended", "activate"})

ManyUserCalls ==
    (r1 :> {"register", "login", "joins", "preferences", "erase"})
    @@ (r2 :> {"groups", "suspended", "remove", "password", "activate"})
-----------------------------------------------------------------------------
(* user-session.service.ts 74-141: a revoked session becomes valid again only   *)
(* by a refresh that has read it before the revocation and saves it after.     *)
RevokedStaysRevoked == S!RevokedStaysRevoked

(* users.service.ts 216-462: a change of the user's row, or its deletion, is    *)
(* undone only by the save of a row read before it, by an updatePreferences      *)
(* whose body has a warmup of its own (404-419), by the owner of an API key, or  *)
(* by the activation of a license.                                           *)
ChangesKept == S!ChangesKept
=============================================================================
