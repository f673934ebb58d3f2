------------------------------- MODULE License -------------------------------
(***************************************************************************)
(* License enforcement: the license server (src/license-server, a table of *)
(* keys and the machine each is bound to) and the LicenseService of every  *)
(* installation (src/backend/src/modules/license), which keeps its state   *)
(* in memory, in license-cache.json and, for the key, in .env.             *)
(*                                                                         *)
(* A request to the server is a SELECT, an await, an UPDATE and a reply    *)
(* that may be lost.  The HTTP guard asks the memory whether the license   *)
(* is valid; the task runner asks the file.                                *)
(***************************************************************************)
EXTENDS Naturals

CONSTANTS
    Machine,   \* installations
    Other,     \* installations of which only the activations are modelled
    Key,       \* license keys on the server
    NoMachine, \* "not bound"
    NoKey,     \* "not activated"
    Grace,     \* OFFLINE_GRACE_HOURS, in ticks of the clock
    MaxBoots   \* bound on the restarts of a behaviour

ASSUME LicenseAssumption ==
    /\ NoMachine \notin Machine \cup Other
    /\ NoKey \notin Key
    /\ Grace \in Nat \ {0}
    /\ MaxBoots \in Nat

VARIABLES
    row,   \* licenses: is the key good, and which machine holds it
    req,   \* the requests of each machine to the server
    mem,   \* LicenseService.state
    file,  \* license-cache.json
    env,   \* LICENSE_KEY in .env
    age,   \* time since lastVerified, Grace when it was too long ago or never
    boots  \* restarts so far

vars == <<row, req, mem, file, env, age, boots>>

(* "dead" covers deactivated, past expires_at and deleted. *)
Good(k) == row[k].state = "good"

(* The checks of handleActivate and handleHeartbeat. *)
Accepts(k, m) == Good(k) /\ row[k].machine \in {NoMachine, m}

Wire    == Machine \X {"activate", "heartbeat"}
Who(w)  == w[1]
What(w) == w[2]
NoReq   == [pc |-> "idle", key |-> NoKey]

NeverVerified == [valid |-> FALSE, key |-> NoKey]
NoFile        == [there |-> FALSE, valid |-> FALSE, key |-> NoKey]

(* handleCreateLicense: the row of a new key, which no machine holds yet        *)
NewLicense == [state |-> "good", machine |-> NoMachine]

Init ==
    /\ row = [k \in Key |-> NewLicense]
    /\ req = [w \in Wire |-> NoReq]
    /\ mem = [m \in Machine |-> NeverVerified]
    /\ file = [m \in Machine |-> NoFile]
    /\ env = [m \in Machine |-> NoKey]
    /\ age = [m \in Machine |-> Grace]
    /\ boots = 0
-----------------------------------------------------------------------------
(* Requests on their way *)

ReqGoes(w, pc) == [req EXCEPT ![w] = [pc |-> pc, key |-> req[w].key]]

Answered(w) == [req EXCEPT ![w] = NoReq]

(* The user enters a key on the activation page. *)
AskActivate(m, k) ==
    /\ req[<<m, "activate">>] = NoReq
    /\ req' = [req EXCEPT ![<<m, "activate">>] = [pc |-> "sent", key |-> k]]
    /\ UNCHANGED <<row, mem, file, env, age, boots>>

(* scheduledHeartbeat *)
AskHeartbeat(m) ==
    /\ mem[m].key # NoKey
    /\ req[<<m, "heartbeat">>] = NoReq
    /\ req' = [req EXCEPT ![<<m, "heartbeat">>] = [pc |-> "sent", key |-> mem[m].key]]
    /\ UNCHANGED <<row, mem, file, env, age, boots>>

ServerReads(w) ==
    /\ req[w].pc = "sent"
    /\ req' = ReqGoes(w, IF Accepts(req[w].key, Who(w)) THEN "write" ELSE "rejected")
    /\ UNCHANGED <<row, mem, file, env, age, boots>>

(* The UPDATE names only the row's id; a heartbeat's binds nothing. *)
ServerWrites(w) ==
    LET k == req[w].key
    IN  /\ req[w].pc = "write"
        /\ row' = IF What(w) = "activate"
                  THEN [row EXCEPT ![k] = [state |-> row[k].state, machine |-> Who(w)]]
                  ELSE row
        /\ req' = ReqGoes(w, "ok")
        /\ UNCHANGED <<mem, file, env, age, boots>>

(* No connection, the 15 s timeout, or a server error. *)
ReplyLost(w) ==
    /\ req[w].pc \in {"sent", "write", "ok", "rejected"}
    /\ req' = ReqGoes(w, "failed")
    /\ UNCHANGED <<row, mem, file, env, age, boots>>
-----------------------------------------------------------------------------
(* Replies, as the client applies them *)

(* saveCache *)
Saved(m, st) == [file EXCEPT ![m] = [there |-> TRUE, valid |-> st.valid, key |-> st.key]]

(* persistKeyToEnv *)
WithEnvKey(m, k) == [env EXCEPT ![m] = k]

Activated(m) ==
    LET w  == <<m, "activate">>
        st == [valid |-> TRUE, key |-> req[w].key]
    IN  /\ req[w].pc = "ok"
        /\ mem' = [mem EXCEPT ![m] = st]
        /\ age' = [age EXCEPT ![m] = 0]
        /\ file' = Saved(m, st)
        /\ env' = WithEnvKey(m, st.key)
        /\ req' = Answered(w)
        /\ UNCHANGED <<row, boots>>

NotActivated(m) ==
    /\ req[<<m, "activate">>].pc \in {"rejected", "failed"}
    /\ req' = Answered(<<m, "activate">>)
    /\ UNCHANGED <<row, mem, file, env, age, boots>>

HeartbeatSetsUnsaved(m, valid) ==   \* mutation: no saveCache after a rejection
    LET st == [valid |-> valid, key |-> mem[m].key]
    IN  /\ mem' = [mem EXCEPT ![m] = st]
        /\ file' = IF valid THEN Saved(m, st) ELSE file
        /\ req' = Answered(<<m, "heartbeat">>)

(* The reply is applied to whatever key the state has by now. *)
HeartbeatSets(m, valid) ==
    LET st == [valid |-> valid, key |-> mem[m].key]
    IN  /\ mem' = [mem EXCEPT ![m] = st]
        /\ file' = Saved(m, st)
        /\ req' = Answered(<<m, "heartbeat">>)

HeartbeatOk(m) ==
    /\ req[<<m, "heartbeat">>].pc = "ok"
    /\ HeartbeatSets(m, TRUE)
    /\ age' = [age EXCEPT ![m] = 0]
    /\ UNCHANGED <<row, env, boots>>

HeartbeatRejected(m) ==
    /\ req[<<m, "heartbeat">>].pc = "rejected"
    /\ HeartbeatSets(m, FALSE)
    /\ UNCHANGED <<row, env, age, boots>>

AlwaysInGrace(m) == TRUE   \* mutation: trust the cache however old it is

InGrace(m) == age[m] < Grace

HeartbeatFailed(m) ==
    /\ req[<<m, "heartbeat">>].pc = "failed"
    /\ IF InGrace(m)
       THEN /\ req' = Answered(<<m, "heartbeat">>)
            /\ UNCHANGED <<mem, file>>
       ELSE HeartbeatSets(m, FALSE)
    /\ UNCHANGED <<row, env, age, boots>>

(* isValid, asked by SubscriptionGuard and GET license/status, notes that   *)
(* the grace period is over, in memory only.                                *)
GuardExpires(m) ==
    /\ mem[m].valid
    /\ ~InGrace(m)
    /\ mem' = [mem EXCEPT ![m] = [valid |-> FALSE, key |-> mem[m].key]]
    /\ UNCHANGED <<row, req, file, env, age, boots>>
-----------------------------------------------------------------------------
(* Restarts, the clock and the administrator *)

LoadedUnchecked(m) ==   \* mutation: a cache of any age is good
    IF file[m].there THEN [valid |-> file[m].valid, key |-> file[m].key]
                     ELSE [valid |-> FALSE, key |-> env[m]]

(* The initial state takes the key from .env; loadCache puts the file over  *)
(* it and checks its age.                                                   *)
Loaded(m) ==
    IF file[m].there THEN [valid |-> file[m].valid /\ InGrace(m), key |-> file[m].key]
                     ELSE [valid |-> FALSE, key |-> env[m]]

(* The process restarts; onModuleInit sends a heartbeat when it has a key.  *)
Restart(m) ==
    /\ boots < MaxBoots
    /\ boots' = boots + 1
    /\ mem' = [mem EXCEPT ![m] = Loaded(m)]
    /\ age' = IF file[m].there THEN age ELSE [age EXCEPT ![m] = Grace]
    /\ req' = [req EXCEPT ![<<m, "activate">>] = NoReq,
                          ![<<m, "heartbeat">>] =
                              IF Loaded(m).key = NoKey THEN NoReq
                              ELSE [pc |-> "sent", key |-> Loaded(m).key]]
    /\ UNCHANGED <<row, file, env>>

(* The cache file is deleted. *)
CacheLost(m) ==
    /\ file[m].there
    /\ file' = [file EXCEPT ![m] = NoFile]
    /\ UNCHANGED <<row, req, mem, env, age, boots>>

TimePasses ==
    /\ age' = [m \in Machine |-> IF age[m] < Grace THEN age[m] + 1 ELSE Grace]
    /\ UNCHANGED <<row, req, mem, file, env, boots>>

(* Deactivation, deletion and the expiry date; renewal and reactivation;    *)
(* unbinding.                                                               *)
AdminSets(k, state, machine) ==
    /\ row' = [row EXCEPT ![k] = [state |-> state, machine |-> machine]]
    /\ UNCHANGED <<req, mem, file, env, age, boots>>

Revoke(k) == Good(k) /\ AdminSets(k, "dead", row[k].machine)
Renew(k)  == ~Good(k) /\ AdminSets(k, "good", row[k].machine)
Unbind(k) == row[k].machine # NoMachine /\ AdminSets(k, row[k].state, NoMachine)
(* Another installation's activation writes its name; it read the row       *)
(* earlier, so what the row says now need not allow it.                     *)
OtherActivates(k, x) == AdminSets(k, row[k].state, x)
-----------------------------------------------------------------------------
ServerStep(w) == ServerReads(w) \/ ServerWrites(w) \/ ReplyLost(w)

ApplyActivation(m) == Activated(m) \/ NotActivated(m)
ApplyHeartbeat(m)  == HeartbeatOk(m) \/ HeartbeatRejected(m) \/ HeartbeatFailed(m)

ClientStep(m) ==
    \/ \E k \in Key : AskActivate(m, k)
    \/ AskHeartbeat(m)
    \/ ApplyActivation(m) \/ ApplyHeartbeat(m)
    \/ GuardExpires(m) \/ Restart(m) \/ CacheLost(m)

AdminStep(k) == Revoke(k) \/ Renew(k) \/ Unbind(k)

Next ==
    \/ \E w \in Wire : ServerStep(w)
    \/ \E m \in Machine : ClientStep(m)
    \/ \E k \in Key : AdminStep(k) \/ \E x \in Other : OtherActivates(k, x)
    \/ TimePasses

Spec == Init /\ [][Next]_vars

(* The cron fires every 30 minutes, axios gives up after 15 seconds, and    *)
(* the clock goes on.                                                       *)
Fairness ==
    /\ \A w \in Wire : WF_vars(ServerStep(w))
    /\ \A m \in Machine : /\ WF_vars(AskHeartbeat(m))
                         /\ WF_vars(ApplyActivation(m))
                         /\ WF_vars(ApplyHeartbeat(m))
    /\ WF_vars(TimePasses)

FairSpec == Spec /\ Fairness
-----------------------------------------------------------------------------
(* Properties *)

(* The guard and the runner decide from two copies of one fact: they         *)
(* disagree only when the file was deleted, or between the end of the grace  *)
(* period and the next heartbeat, and then it is the guard that refuses.     *)
FileFollowsMemory ==
    \A m \in Machine : file[m].there =>
        /\ file[m].key = mem[m].key
        /\ mem[m].valid => file[m].valid
        /\ file[m].valid /\ ~mem[m].valid => ~InGrace(m)

(* "Restore cached state but check grace period" (license.service.ts:320): a *)
(* restart never makes a license valid that the running process refused, nor *)
(* one that was last verified before the grace period.                       *)
NoResurrection ==
    [][\A m \in Machine : Restart(m) /\ mem'[m].valid => mem[m].valid /\ InGrace(m)]_vars

(* A machine stops running tasks on a key that was revoked or that belongs   *)
(* to another machine: its next heartbeats say so or, offline, the grace     *)
(* period ends.  Requests in flight, lost replies and restarts only delay it.*)
Allowed(m, k) == mem[m].key = k /\ (mem[m].valid \/ file[m].valid)

RevocationTakesEffect ==
    \A m \in Machine, k \in Key :
        (Allowed(m, k) /\ ~Accepts(k, m)) ~> (~Allowed(m, k) \/ Accepts(k, m))

(* "Bind machine if not yet bound" (license.ts:39): a key never goes from    *)
(* one machine to another without being unbound in between.                  *)
BoundOnce ==
    [][\A k \in Key : row[k].machine # NoMachine
                        => row'[k].machine \in {NoMachine, row[k].machine}]_vars
=============================================================================
