------------------------------- MODULE Configs -------------------------------
(***************************************************************************)
(* The VPN configurations and the chat scripts of one user, as vpn.service.ts *)
(* and chat-scripts.service.ts write them.  A step is one SQL statement with   *)
(* the code around it.                                                       *)
(*                                                                         *)
(* Of a configuration the model keeps whether it exists and the two columns   *)
(* that a call sets beside what it was asked for: isDefault and status.  Of    *)
(* the scripts it keeps how many rows carry one number of a language: the      *)
(* table has no unique index and a pack may name a number more than once.      *)
(* Each number is looked for and written by itself, so one stands for them.     *)
(* Left out: the text of scripts (update), reads without effect, statistics.   *)
(***************************************************************************)
EXTENDS Naturals, FiniteSets

CONSTANTS
    Vpn,      \* rows of vpn_configs that may ever exist
    Lang,     \* languages with a pack of scripts; "zh" is seeded
    NoVpn,
    Caller,   \* calls that overlap
    PackSize  \* scripts in a pack, 50 at most in importPack

VARIABLES
    vpn,      \* the rows of vpn_configs
    copies,   \* rows of chat_scripts with one number, per language
    task      \* the calls being served

configVars == <<vpn, copies, task>>

NoConfig == [state |-> "none", default |-> FALSE, active |-> FALSE]
(* more: rows with the number that the call is still to insert *)
NoTask == [op |-> "none", at |-> "idle", row |-> NoVpn, copy |-> NoConfig, default |-> FALSE, lang |-> "zh", more |-> 0]

(* A user who has just registered, or one who has configured a proxy before.  *)
Init ==
    /\ vpn \in {[v \in Vpn |-> NoConfig]}
               \cup {[w \in Vpn |-> IF w = v THEN [state |-> "row", default |-> TRUE, active |-> TRUE] ELSE NoConfig]
                        : v \in Vpn}
    /\ copies = [l \in Lang |-> 0]
    /\ task = [c \in Caller |-> NoTask]

Rows == {v \in Vpn : vpn[v].state = "row"}
Defaults == {v \in Rows : vpn[v].default}

On(c, op, at) == task[c].op = op /\ task[c].at = at
Step(c, at) == task' = [task EXCEPT ![c].at = at]
Return(c) == task' = [task EXCEPT ![c] = NoTask]
-----------------------------------------------------------------------------
(* A call with a configuration: is it to become the default one?              *)
AsksVpn(c, op, v, default) ==
    /\ task[c] = NoTask
    /\ op \in {"create", "update", "setDefault", "delete", "connect", "disconnect"}
    /\ op = "create" <=> vpn[v].state = "none"
    /\ op = "setDefault" => default
    /\ default => op \in {"create", "update", "setDefault"}
    /\ \A d \in Caller \ {c} : op = "create" => ~(task[d].op = "create" /\ task[d].row = v)
    /\ task' = [task EXCEPT ![c] = [NoTask EXCEPT !.op = op, !.row = v, !.default = default,
                                                  !.at = IF op = "setDefault" \/ (op = "create" /\ default)
                                                         THEN "clear" ELSE IF op = "create" THEN "write" ELSE "find"]]
    /\ UNCHANGED <<vpn, copies>>

(* findOne: a row that is gone is answered with 404 *)
FindsVpn(c) ==
    /\ task[c].at = "find"
    /\ IF vpn[task[c].row].state = "row"
       THEN task' = [task EXCEPT ![c].copy = vpn[task[c].row],
                                 ![c].at = IF task[c].op = "update" /\ task[c].default THEN "clear" ELSE "write"]
       ELSE Return(c)
    /\ UNCHANGED <<vpn, copies>>

ClearsOwn(c) == vpn' = [vpn EXCEPT ![task[c].row].default = FALSE]   \* mutation: the other rows keep their mark

(* UPDATE ... SET isDefault = false: setDefault clears before it looks for    *)
(* its row, update after.                                                    *)
Clears(c) == vpn' = [v \in Vpn |-> [vpn[v] EXCEPT !.default = FALSE]]

ClearsDefaults(c) ==
    /\ task[c].at = "clear"
    /\ Clears(c)
    /\ Step(c, IF task[c].op = "setDefault" THEN "find" ELSE "write")
    /\ UNCHANGED copies

CreatesVpn(c) ==
    /\ On(c, "create", "write")
    /\ \E complete \in BOOLEAN :   \* with a server it is active at once
        vpn' = [vpn EXCEPT ![task[c].row] = [state |-> "row", default |-> task[c].default, active |-> complete]]
    /\ Return(c)
    /\ UNCHANGED copies

(* save writes the copy read before, and inserts a row that was deleted; an   *)
(* update without isDefault keeps the copy's mark or takes it away.           *)
SavesVpn(c) ==
    /\ task[c].op \in {"update", "setDefault"} /\ task[c].at = "write"
    /\ \E mark \in IF task[c].default THEN {TRUE} ELSE {FALSE, task[c].copy.default},
          active \in IF task[c].op = "update" THEN {TRUE, task[c].copy.active} ELSE {task[c].copy.active} :
        vpn' = [vpn EXCEPT ![task[c].row] = [state |-> "row", default |-> mark, active |-> active]]
    /\ Return(c)
    /\ UNCHANGED copies

RemovesVpn(c) ==
    /\ On(c, "delete", "write")
    /\ vpn' = [vpn EXCEPT ![task[c].row] = NoConfig]
    /\ Return(c)
    /\ UNCHANGED copies

ConnectsVpn(c) ==
    /\ task[c].op \in {"connect", "disconnect"} /\ task[c].at = "write"
    /\ vpn' = IF vpn[task[c].row].state = "row"
              THEN [vpn EXCEPT ![task[c].row].active = (task[c].op = "connect")] ELSE vpn
    /\ Return(c)
    /\ UNCHANGED copies
-----------------------------------------------------------------------------
AsksScripts(c, op, l) ==
    /\ task[c] = NoTask
    /\ op \in {"list", "import", "clear", "reset"}
    /\ op = "clear" => l # "zh"      \* deleteByLanguage refuses zh
    /\ op = "reset" => l = "zh"
    /\ task' = [task EXCEPT ![c] = [NoTask EXCEPT !.op = op, !.lang = l, !.at = "read"]]
    /\ UNCHANGED <<vpn, copies>>

SeedsAnyway(c) == task[c].lang = "zh" \/ copies[task[c].lang] = 0   \* mutation: the numbers found are not left out

(* findAllByUser seeds the numbers it did not find, for zh only; importPack   *)
(* inserts them, and skips or overwrites those it found.                      *)
Missing(c) == copies[task[c].lang] = 0 /\ (task[c].op = "list" => task[c].lang = "zh")

Inserts(c, n) == task' = [task EXCEPT ![c].at = "insert", ![c].more = n]

(* What was found is not looked for again while the items of a pack are saved, *)
(* so that one that repeats a number is to insert it as often.  Nothing is      *)
(* inserted by a pack without the number or with a bad one before it, nor for a *)
(* list that has fifty rows, copies counted.                                  *)
ReadsScripts(c) ==
    /\ task[c].op \in {"list", "import"} /\ task[c].at = "read"
    /\ \/ Missing(c) /\ \E n \in 1..(IF task[c].op = "import" THEN PackSize ELSE 1) : Inserts(c, n)
       \/ Return(c)
    /\ UNCHANGED <<vpn, copies>>

(* deleteByLanguage, and the first statement of resetToDefault *)
DeletesScripts(c) ==
    /\ task[c].op \in {"clear", "reset"} /\ task[c].at = "read"
    /\ copies' = [copies EXCEPT ![task[c].lang] = 0]
    /\ IF task[c].op = "reset" THEN Inserts(c, 1) ELSE Return(c)
    /\ UNCHANGED vpn

(* One item is saved; a bad number after it ends the import.                  *)
InsertsScripts(c) ==
    /\ task[c].at = "insert"
    /\ copies' = [copies EXCEPT ![task[c].lang] = @ + 1]
    /\ \/ task[c].more > 1 /\ task' = [task EXCEPT ![c].more = @ - 1]
       \/ Return(c)
    /\ UNCHANGED vpn

(* The process stops between two statements *)
ConfigCrash ==
    /\ \E c \in Caller : task[c] # NoTask
    /\ task' = [c \in Caller |-> NoTask]
    /\ UNCHANGED <<vpn, copies>>

VpnNext ==
    \E c \in Caller :
        \/ \E v \in Vpn, default \in BOOLEAN :
            \E op \in {"create", "update", "setDefault", "delete", "connect", "disconnect"} : AsksVpn(c, op, v, default)
        \/ FindsVpn(c) \/ ClearsDefaults(c) \/ CreatesVpn(c) \/ SavesVpn(c) \/ RemovesVpn(c) \/ ConnectsVpn(c)

ScriptNext ==
    \E c \in Caller :
        \/ \E l \in Lang, op \in {"list", "import", "clear", "reset"} : AsksScripts(c, op, l)
        \/ ReadsScripts(c) \/ DeletesScripts(c) \/ InsertsScripts(c)

Next == VpnNext \/ ScriptNext \/ ConfigCrash

Spec == Init /\ [][Next]_configVars
-----------------------------------------------------------------------------
(* Clearing the marks and setting one are two statements, and an update saves  *)
(* the mark it read: a user may have several default configurations, but never *)
(* more than calls overlap.                                                   *)
DefaultsFew == Cardinality(Defaults) <= Cardinality(Caller)

(* A number is looked for once and then inserted, in statements of their own, *)
(* and a pack may repeat it, though import-script-pack.dto.ts:7 calls it        *)
(* unique: a script may exist several times, but never more often than the      *)
(* calls that overlap have items.                                             *)
CopiesFew == \A l \in Lang : copies[l] <= Cardinality(Caller) * PackSize
=============================================================================
