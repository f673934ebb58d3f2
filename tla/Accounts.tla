------------------------------ MODULE Accounts ------------------------------
(***************************************************************************)
(* The rows of facebook_accounts of one user, as the requests of           *)
(* src/backend/src/modules/facebook-accounts/facebook-accounts.service.ts   *)
(* write them: create (the registration calls it too), update, assignGroup, *)
(* batchAssignGroup, refreshAccessToken, syncAccount and remove.            *)
(*                                                                         *)
(* A step is one SQL statement with the code around it; nothing holds a     *)
(* transaction or a lock, so the statements of requests interleave.  Keys,  *)
(* names, groups, tokens and statuses of a row are left out: a request that  *)
(* writes one of these is a "column" request.  batchAssignGroup, one UPDATE  *)
(* of the group of live rows, therefore changes nothing here.  The last step *)
(* of a factory reset is the same statement as that of a removal (see        *)
(* Warmup).                                                                 *)
(***************************************************************************)
EXTENDS Naturals, FiniteSets

CONSTANTS
    Id,            \* rows that may ever be created
    Email,
    Request,       \* slots for concurrent requests
    NoId,
    NoEmail,
    Quotas,        \* values of users.max_accounts, 0 for NULL
    DefaultQuota   \* 10 in the code

ASSUME AccountsAssumption ==
    /\ IsFiniteSet(Id) /\ NoId \notin Id
    /\ NoEmail \notin Email
    /\ IsFiniteSet(Request) /\ Request # {}
    /\ Quotas \subseteq Nat
    /\ DefaultQuota \in Nat

VARIABLES
    rows,     \* the table
    quota,    \* what the user's plan allows
    highest,  \* history: the highest quota there has been
    req,      \* local state of each request
    loose     \* history: rows whose e-mail was not checked against the others'

vars == <<rows, quota, highest, req, loose>>

Unborn == [state |-> "unborn", email |-> NoEmail, number |-> 0]

NoReq == [op |-> "none", pc |-> "none", id |-> NoId, email |-> NoEmail,
          number |-> 0, seen |-> Unborn, unsure |-> FALSE]

Live    == {i \in Id : rows[i].state = "live"}
Used    == {rows[i].number : i \in Live} \ {0}

(* user.maxAccounts || 10 *)
Allowed(q) == IF q = 0 THEN DefaultQuota ELSE q

(* Rows of before the numbers, within the quota. *)
Init ==
    /\ quota \in Quotas
    /\ highest = Allowed(quota)
    /\ \E old \in SUBSET Id, mail \in [Id -> Email] :
        /\ Cardinality(old) <= Allowed(quota)
        /\ \A i, j \in old : mail[i] = mail[j] => i = j
        /\ rows = [i \in Id |-> IF i \in old THEN [Unborn EXCEPT !.state = "live", !.email = mail[i]]
                                ELSE Unborn]
    /\ req = [r \in Request |-> NoReq]
    /\ loose = {}

(* onModuleInit numbers the rows that have no number, 1, 2, ... by age,      *)
(* before the server listens; every row created later has a number.          *)
Unnumbered == {i \in Live : rows[i].number = 0}

Backfill ==
    /\ Unnumbered # {}
    /\ \E n \in [Unnumbered -> 1..Cardinality(Unnumbered)] :
        /\ \A i, j \in Unnumbered : n[i] = n[j] => i = j
        /\ rows' = [i \in Id |-> IF i \in Unnumbered THEN [rows[i] EXCEPT !.number = n[i]] ELSE rows[i]]
    /\ UNCHANGED <<quota, highest, req, loose>>

Serving == Unnumbered = {}
-----------------------------------------------------------------------------
Ends(r) == [req EXCEPT ![r] = NoReq]

(* Creates that have looked for their e-mail, and do not see a row that is   *)
(* written now.                                                              *)
Overlapped(q) ==
    [r \in Request |-> IF q[r].pc \in {"purge", "number", "insert"} THEN [q[r] EXCEPT !.unsure = TRUE]
                       ELSE q[r]]

(* createFacebookAccountDto, or the row that the user has chosen on the page *)
Asks(r) ==
    /\ Serving
    /\ req[r] = NoReq
    /\ \E x \in [op: {"create"}, id: {NoId}, email: Email]
                \cup [op: {"email"}, id: Id, email: Email]
                \cup [op: {"column", "remove"}, id: Id, email: {NoEmail}] :
        /\ x.id # NoId => rows[x.id].state # "unborn"
        /\ req' = [req EXCEPT ![r] = [NoReq EXCEPT !.op = x.op, !.id = x.id, !.email = x.email,
                                      !.pc = IF x.op = "create" THEN "quota" ELSE "find"]]
    /\ UNCHANGED <<rows, quota, highest, loose>>

QuotaUnchecked == TRUE   \* mutation: no count

UnderQuota == Cardinality(Live) < Allowed(quota)

CreateCounts(r) ==
    /\ req[r].pc = "quota"
    /\ req' = IF UnderQuota THEN [req EXCEPT ![r].pc = "email"] ELSE Ends(r)
    /\ UNCHANGED <<rows, quota, highest, loose>>

SoftDeletedOnly(e) == {i \in Id : rows[i].state = "deleted" /\ rows[i].email = e}   \* mutation

(* findOne(..., withDeleted): one row with the e-mail, whichever it is *)
RowsOf(e) == {i \in Id : rows[i].state \in {"live", "deleted"} /\ rows[i].email = e}

CreateFindsEmail(r) ==
    /\ req[r].pc = "email"
    /\ LET found == RowsOf(req[r].email)
       IN  \/ found = {} /\ req' = [req EXCEPT ![r].pc = "number"]
           \/ \E i \in found :
                req' = IF rows[i].state = "live" THEN Ends(r)
                       ELSE [req EXCEPT ![r].pc = "purge", ![r].id = i,
                                        ![r].unsure = Cardinality(found) > 1]
    /\ UNCHANGED <<rows, quota, highest, loose>>

(* An account that was removed and is added again is deleted for good first. *)
CreatePurges(r) ==
    /\ req[r].pc = "purge"
    /\ rows' = [rows EXCEPT ![req[r].id] = [Unborn EXCEPT !.state = "gone"]]
    /\ req' = [req EXCEPT ![r].pc = "number", ![r].id = NoId]
    /\ UNCHANGED <<quota, highest, loose>>

(* allocateAccountNumber *)
SmallestFree ==
    CHOOSE n \in 1..(Cardinality(Used) + 1) : n \notin Used /\ \A k \in 1..(n - 1) : k \in Used

CreateAllocates(r) ==
    /\ req[r].pc = "number"
    /\ req' = [req EXCEPT ![r].pc = "insert", ![r].number = SmallestFree]
    /\ UNCHANGED <<rows, quota, highest, loose>>

(* The unique index on (userId, accountNumber) of the rows not deleted. *)
Clashes(i, n) == \E j \in Live \ {i} : rows[j].number = n

CreateInserts(r) ==
    LET q == req[r]
    IN  /\ q.pc = "insert"
        /\ \/ /\ Clashes(NoId, q.number)
              /\ req' = Ends(r)
              /\ UNCHANGED <<rows, loose>>
           \/ /\ ~Clashes(NoId, q.number)
              /\ \E i \in {x \in Id : rows[x].state = "unborn"} :
                   /\ rows' = [rows EXCEPT ![i] = [Unborn EXCEPT !.state = "live", !.email = q.email,
                                                                 !.number = q.number]]
                   /\ loose' = IF q.unsure THEN loose \cup {i} ELSE loose
              /\ req' = Overlapped(Ends(r))
        /\ UNCHANGED <<quota, highest>>
-----------------------------------------------------------------------------

Visible(i) == rows[i].state = "live"

(* The other requests find the row by findOne, which hides deleted rows. *)
Finds(r) ==
    /\ req[r].pc = "find"
    /\ LET i == req[r].id
       IN  req' = IF Visible(i)
                  THEN [req EXCEPT ![r].pc = "save",
                                   ![r].seen = IF req[r].op = "remove" THEN Unborn ELSE rows[i]]
                  ELSE Ends(r)
    /\ UNCHANGED <<rows, quota, highest, loose>>

Changed(q) == IF q.op = "email" THEN [q.seen EXCEPT !.email = q.email] ELSE q.seen

(* update, assignGroup, refreshAccessToken, and syncAccount, whether or not  *)
(* it finds the token expired: save() of the whole copy.  Every column that *)
(* differs from the table is written, deletedAt included, and a row that is *)
(* gone is inserted again.                                                  *)
Saves(r) ==
    LET q == req[r]
    IN  /\ q.pc = "save" /\ q.op # "remove"
        /\ \/ /\ Clashes(q.id, q.seen.number)
              /\ req' = Ends(r)
              /\ UNCHANGED <<rows, loose>>
           \/ /\ ~Clashes(q.id, q.seen.number)
              /\ rows' = [rows EXCEPT ![q.id] = Changed(q)]
              /\ IF rows[q.id].state = "live" /\ rows[q.id].email = Changed(q).email
                 THEN req' = Ends(r) /\ UNCHANGED loose
                 ELSE req' = Overlapped(Ends(r)) /\ loose' = loose \cup {q.id}
        /\ UNCHANGED <<quota, highest>>

(* remove: softDelete, an UPDATE by id *)
SoftDeletes(r) ==
    LET i == req[r].id
    IN  /\ req[r].pc = "save" /\ req[r].op = "remove"
        /\ rows' = [rows EXCEPT ![i].state = IF @ = "live" THEN "deleted" ELSE @]
        /\ req' = Ends(r)
        /\ UNCHANGED <<quota, highest, loose>>

(* A statement is rejected, or the process restarts. *)
Fails(r) ==
    /\ req[r] # NoReq
    /\ req' = Ends(r)
    /\ UNCHANGED <<rows, quota, highest, loose>>

(* An administrator, or the license heartbeat in local mode. *)
QuotaChanges ==
    /\ quota' \in Quotas
    /\ highest' = IF Allowed(quota') > highest THEN Allowed(quota') ELSE highest
    /\ UNCHANGED <<rows, req, loose>>
-----------------------------------------------------------------------------
CreateStep(r) ==
    CreateCounts(r) \/ CreateFindsEmail(r) \/ CreatePurges(r) \/ CreateAllocates(r) \/ CreateInserts(r)

Next ==
    \/ Backfill
    \/ \E r \in Request :
        Asks(r) \/ CreateStep(r) \/ Finds(r) \/ Saves(r) \/ SoftDeletes(r) \/ Fails(r)
    \/ QuotaChanges

Spec == Init /\ [][Next]_vars
-----------------------------------------------------------------------------
(* Properties *)

(* The number of accounts (lines 126-137): the count and the insertion are   *)
(* two statements, and a save made from a copy brings back an account that   *)
(* was removed in between; yet however requests interleave, a user never has *)
(* more accounts than the highest quota and one less than the requests that  *)
(* run at a time.                                                            *)
WithinQuota ==
    Serving => Cardinality(Live) <= highest + Cardinality(Request) - 1

(* Lines 139-155: a user has one account per e-mail, except those inserted   *)
(* while another request wrote a row, those brought back by a stale copy,    *)
(* those whose e-mail was edited, which nothing checks, and those created    *)
(* when several rows had the e-mail already.                                 *)
OneRowPerEmail ==
    \A i, j \in Live : rows[i].email = rows[j].email => i = j \/ i \in loose \/ j \in loose
=============================================================================
