---------------------------- MODULE AccountsProofs ----------------------------
(***************************************************************************)
(* The rows of a user's Facebook accounts, proved for any number of rows,        *)
(* e-mails and concurrent requests and any quotas: their number, their e-mails,   *)
(* and what allocateAccountNumber finds.  Then his proxies and chat scripts       *)
(* (Configs) and the alerts and recovery logs of an account (Recovery), for any   *)
(* number of calls that overlap and any limit: how many there may be.            *)
(***************************************************************************)
EXTENDS MCAccounts, FiniteSetTheorems, WellFoundedInduction, TLAPS

States == {"unborn", "live", "deleted", "gone"}
Row    == [state: States, email: Email \cup {NoEmail}, number: Nat]

RequestState ==
    [op: {"none", "create", "email", "column", "remove"},
     pc: {"none", "quota", "email", "purge", "number", "insert", "find", "save"},
     id: Id \cup {NoId}, email: Email \cup {NoEmail}, number: Nat, seen: Row, unsure: BOOLEAN]

RowsOK  == rows \in [Id -> Row]
QuotaOK == quota \in Quotas /\ highest \in Nat /\ Allowed(quota) <= highest

(* A request that saves or purges has found its row.                           *)
Proper(x) ==
    /\ x \in RequestState
    /\ x.pc \in {"find", "save", "purge"} => x.id \in Id
    /\ x.pc \in {"quota", "email", "purge", "number", "insert"} => x.op = "create"
    /\ x.op \in {"create", "email"} => x.email \in Email
    /\ x.pc = "save" /\ x.op # "remove" => x.seen.state = "live"

RequestsOK == req \in [Request -> RequestState] /\ \A r \in Request : Proper(req[r])

(* Every variable has its type, and the plan is within the highest there was.     *)
TypeOK == RowsOK /\ QuotaOK /\ RequestsOK /\ loose \subseteq Id
-----------------------------------------------------------------------------
(* Finite sets: what a function makes of one, two parts of one that have no element  *)
(* in common, and a set that loses or gains an element.                        *)
LEMMA ImageFew ==
    ASSUME NEW S, IsFiniteSet(S), NEW f
    PROVE  IsFiniteSet({f[x] : x \in S}) /\ Cardinality({f[x] : x \in S}) <= Cardinality(S)
<1> DEFINE T == {f[x] : x \in S}
           g == [x \in S |-> f[x]]
<1>1. g \in Surjection(S, T)
    BY DEF Surjection
<1> QED BY <1>1, FS_Surjection

LEMMA ApartFew ==
    ASSUME NEW S, IsFiniteSet(S), NEW U \in SUBSET S, NEW K \in SUBSET S, U \cap K = {}
    PROVE  /\ IsFiniteSet(U) /\ IsFiniteSet(K) /\ Cardinality(U) \in Nat /\ Cardinality(K) \in Nat
           /\ Cardinality(U) + Cardinality(K) <= Cardinality(S)
<1>1. IsFiniteSet(U) /\ IsFiniteSet(K) /\ Cardinality(U) \in Nat /\ Cardinality(K) \in Nat
    BY FS_Subset, FS_CardinalityType
<1>2. Cardinality(U \cup K) = Cardinality(U) + Cardinality(K)
  <2>1. Cardinality(U \cup K) = Cardinality(U) + Cardinality(K) - Cardinality(U \cap K)
    BY <1>1, FS_Union
  <2>2. Cardinality(U \cap K) = 0
    BY FS_EmptySet
  <2> QED BY <1>1, <2>1, <2>2
<1>3. U \cup K \in SUBSET S
    OBVIOUS
<1> QED BY <1>1, <1>2, <1>3, FS_Subset

(* The size of a set that may lose elements                                    *)
LEMMA SmallerFew ==
    ASSUME NEW S, IsFiniteSet(S), NEW T, T \subseteq S
    PROVE  IsFiniteSet(T) /\ Cardinality(T) \in Nat /\ Cardinality(S) \in Nat /\ Cardinality(T) <= Cardinality(S)
<1>1. IsFiniteSet(T) /\ Cardinality(T) <= Cardinality(S)
    BY FS_Subset
<1> QED BY <1>1, FS_CardinalityType

(* ... that gains at most one, or has lost one                                 *)
LEMMA OneMore ==
    ASSUME NEW S, IsFiniteSet(S), NEW x, NEW T, T \subseteq S \cup {x}
    PROVE  IsFiniteSet(T) /\ Cardinality(T) \in Nat /\ Cardinality(S) \in Nat /\ Cardinality(T) <= Cardinality(S) + 1
<1>1. IsFiniteSet(S \cup {x}) /\ Cardinality(S \cup {x}) <= Cardinality(S) + 1 /\ Cardinality(S) \in Nat
    BY FS_AddElement, FS_CardinalityType
<1>2. IsFiniteSet(T) /\ Cardinality(T) \in Nat /\ Cardinality(S \cup {x}) \in Nat /\ Cardinality(T) <= Cardinality(S \cup {x})
    BY <1>1, SmallerFew
<1> QED BY <1>1, <1>2

LEMMA OneLess ==
    ASSUME NEW S, IsFiniteSet(S), NEW x \in S, NEW T, T \subseteq S \ {x}
    PROVE  IsFiniteSet(T) /\ Cardinality(T) \in Nat /\ Cardinality(S) \in Nat /\ Cardinality(T) <= Cardinality(S) - 1
<1>1. IsFiniteSet(S \ {x}) /\ Cardinality(S \ {x}) = Cardinality(S) - 1 /\ Cardinality(S) \in Nat
    BY FS_RemoveElement, FS_CardinalityType
<1>2. IsFiniteSet(T) /\ Cardinality(T) \in Nat /\ Cardinality(T) <= Cardinality(S \ {x})
    BY <1>1, SmallerFew
<1> QED BY <1>1, <1>2
-----------------------------------------------------------------------------
(* allocateAccountNumber *)

(* A nonempty set of naturals has a least element.                            *)
LEMMA Least ==
    ASSUME NEW S \in SUBSET Nat, S # {}
    PROVE  \E n \in S : \A k \in S : n <= k
<1> DEFINE R == OpToRel(<, Nat)
<1>1. IsWellFoundedOn(R, Nat)
    BY NatLessThanWellFounded, Zenon
<1>2. \A x, y \in Nat : x < y => <<x, y>> \in R
    BY Zenon DEF OpToRel
<1> HIDE DEF R
<1>3. PICK n \in S : \A k \in S : ~(<<k, n>> \in R)
    BY <1>1, WFMin
<1>4. \A k \in S : ~(k < n)
    BY <1>2, <1>3
<1> QED BY <1>4

(* Among the first |S| + 1 numbers one is not in S.                            *)
LEMMA OneIsFree ==
    ASSUME NEW S, IsFiniteSet(S)
    PROVE  (1..(Cardinality(S) + 1)) \ S # {}
<1>1. Cardinality(S) \in Nat
    BY FS_CardinalityType
<1>2. /\ IsFiniteSet(1..(Cardinality(S) + 1))
      /\ Cardinality(1..(Cardinality(S) + 1)) = Cardinality(S) + 1
    BY <1>1, FS_Interval
<1>3. ASSUME (1..(Cardinality(S) + 1)) \subseteq S PROVE FALSE
    BY <1>1, <1>2, <1>3, FS_Subset
<1> QED BY <1>3

LEMMA LiveFinite == IsFiniteSet(Live) /\ IsFiniteSet(Used)
<1>1. IsFiniteSet(Live)
    BY AccountsAssumption, FS_Subset DEF Live
<1> DEFINE f == [i \in Live |-> rows[i].number]
           T == {rows[i].number : i \in Live}
<1>2. f \in Surjection(Live, T)
    BY DEF Surjection
<1>3. IsFiniteSet(T)
    BY <1>1, <1>2, FS_Surjection
<1> QED BY <1>1, <1>3, FS_Difference DEF Used

(* The number that a new account is given is at least 1, no live row has it, and    *)
(* every smaller one is taken: allocateAccountNumber, whatever holes removals have    *)
(* left.                                                                      *)
THEOREM SmallestFreeIsFree ==
    ASSUME RowsOK
    PROVE  SmallestFree \in Nat \ {0} /\ SmallestFree \notin Used /\ \A k \in 1..(SmallestFree - 1) : k \in Used
<1> DEFINE N == Cardinality(Used) + 1
           F == (1..N) \ Used
<1>1. N \in Nat /\ F # {}
    BY LiveFinite, OneIsFree, FS_CardinalityType
<1>2. F \in SUBSET Nat
    BY <1>1
<1>3. PICK n \in F : \A k \in F : n <= k
    BY <1>1, <1>2, Least
<1>4. n \in 1..N /\ n \notin Used /\ \A k \in 1..(n - 1) : k \in Used
    BY <1>1, <1>3
<1>5. /\ SmallestFree \in 1..N /\ SmallestFree \notin Used
      /\ \A k \in 1..(SmallestFree - 1) : k \in Used
    BY <1>4 DEF SmallestFree
<1> QED BY <1>1, <1>5
-----------------------------------------------------------------------------
(* Types *)

LEMMA NoneProper == Unborn \in Row /\ Proper(NoReq)
BY DEF Unborn, Row, States, NoReq, Proper, RequestState

(* One request moves, and what the others rely on may have become unsure.         *)
Like(t, s) ==
    /\ t.op = s.op /\ t.pc = s.pc /\ t.id = s.id /\ t.email = s.email /\ t.number = s.number /\ t.seen = s.seen
    /\ s.unsure => t.unsure

Moves(r, s) ==
    /\ RequestsOK'
    /\ req'[r] = s
    /\ \A q \in Request \ {r} : Like(req'[q], req[q])

LEMMA OneMoves ==
    ASSUME RequestsOK, NEW r \in Request, NEW s, Proper(s), req' = [req EXCEPT ![r] = s]
    PROVE  Moves(r, s)
<1>1. req' \in [Request -> RequestState] /\ \A q \in Request : req'[q] = IF q = r THEN s ELSE req[q]
    BY DEF RequestsOK, Proper
<1> QED BY <1>1 DEF RequestsOK, Moves, Like

LEMMA EndMoves ==
    ASSUME RequestsOK, NEW r \in Request
    PROVE  /\ req' = Ends(r) => Moves(r, NoReq)
           /\ req' = Overlapped(Ends(r)) =>
                /\ Moves(r, NoReq)
                /\ \A q \in Request : req'[q].pc \in {"purge", "number", "insert"} => req'[q].unsure
<1>1. req' = Ends(r) => Moves(r, NoReq)
    BY NoneProper, OneMoves DEF Ends
<1>2. ASSUME req' = Overlapped(Ends(r))
      PROVE  /\ Moves(r, NoReq)
             /\ \A q \in Request : req'[q].pc \in {"purge", "number", "insert"} => req'[q].unsure
  <2> DEFINE e == Ends(r)
  <2>1. e \in [Request -> RequestState] /\ \A q \in Request : e[q] = (IF q = r THEN NoReq ELSE req[q]) /\ Proper(e[q])
    BY NoneProper DEF Ends, RequestsOK, Proper
  <2>2. ASSUME NEW q \in Request
        PROVE  /\ Proper(req'[q]) /\ Like(req'[q], e[q])
               /\ req'[q].pc \in {"purge", "number", "insert"} => req'[q].unsure
               /\ e[q].pc \notin {"purge", "number", "insert"} => req'[q] = e[q]
    <3>1. Proper(e[q]) /\ e[q] \in RequestState
      BY <2>1
    <3>2. req'[q] = IF e[q].pc \in {"purge", "number", "insert"} THEN [e[q] EXCEPT !.unsure = TRUE] ELSE e[q]
      BY <1>2 DEF Overlapped
    <3> HIDE DEF e
    <3>3. CASE e[q].pc \in {"purge", "number", "insert"}
      <4>1. req'[q] = [e[q] EXCEPT !.unsure = TRUE]
        BY <3>2, <3>3
      <4> QED BY <3>1, <3>3, <4>1 DEF Proper, Like, RequestState
    <3>4. CASE e[q].pc \notin {"purge", "number", "insert"}
      BY <3>1, <3>2, <3>4 DEF Like
    <3> QED BY <3>3, <3>4
  <2>3. req' = [q \in Request |-> req'[q]]
    BY <1>2 DEF Overlapped
  <2>4. RequestsOK'
    BY <2>2, <2>3 DEF RequestsOK, Proper
  <2>5. req'[r] = NoReq
    <3>1. NoReq.pc = "none"
      BY DEF NoReq
    <3>2. e[r] = NoReq
      BY <2>1
    <3> HIDE DEF e
    <3> QED BY <2>2, <3>1, <3>2
  <2>6. \A q \in Request \ {r} : Like(req'[q], req[q])
    BY <2>1, <2>2
  <2> QED BY <2>2, <2>4, <2>5, <2>6 DEF Moves
<1> QED BY <1>1, <1>2

(* The steps that are one request's own: what it was and what it becomes.         *)
LEMMA RequestSteps ==
    ASSUME TypeOK, NEW r \in Request
    PROVE  /\ Asks(r) => \E s : Moves(r, s) /\ s.pc \in {"quota", "find"} /\ UNCHANGED <<rows, quota, highest, loose>>
           /\ CreateCounts(r) =>
                /\ UNCHANGED <<rows, quota, highest, loose>>
                /\ \/ Moves(r, NoReq)
                   \/ UnderQuota /\ \E s : Moves(r, s) /\ s.pc = "email"
           /\ Finds(r) =>
                /\ UNCHANGED <<rows, quota, highest, loose>>
                /\ \/ Moves(r, NoReq)
                   \/ \E s : Moves(r, s) /\ s.pc = "save" /\ s.id = req[r].id /\ req[r].id \in Live
<1>1. req[r] \in RequestState /\ Proper(req[r]) /\ RequestsOK /\ req \in [Request -> RequestState]
    BY DEF TypeOK, RequestsOK
<1>2. ASSUME Asks(r)
      PROVE  \E s : Moves(r, s) /\ s.pc \in {"quota", "find"}
  <2>1. PICK x \in [op: {"create"}, id: {NoId}, email: Email]
                   \cup [op: {"email"}, id: Id, email: Email]
                   \cup [op: {"column", "remove"}, id: Id, email: {NoEmail}] :
          req' = [req EXCEPT ![r] = [NoReq EXCEPT !.op = x.op, !.id = x.id, !.email = x.email,
                                                  !.pc = IF x.op = "create" THEN "quota" ELSE "find"]]
    BY <1>2 DEF Asks
  <2> DEFINE s == [NoReq EXCEPT !.op = x.op, !.id = x.id, !.email = x.email,
                                !.pc = IF x.op = "create" THEN "quota" ELSE "find"]
  <2>2. Proper(s) /\ s.pc \in {"quota", "find"}
    BY NoneProper DEF Proper, RequestState
  <2>3. req' = [req EXCEPT ![r] = s]
    BY <2>1
  <2> HIDE DEF s
  <2> QED BY <1>1, <2>2, <2>3, OneMoves
<1>3. ASSUME CreateCounts(r)
      PROVE  Moves(r, NoReq) \/ (UnderQuota /\ \E s : Moves(r, s) /\ s.pc = "email")
  <2>1. CASE UnderQuota
    <3> DEFINE s == [req[r] EXCEPT !.pc = "email"]
    <3>1. req' = [req EXCEPT ![r] = s]
      BY <1>1, <1>3, <2>1 DEF CreateCounts
    <3>2. req[r].op = "create"
      BY <1>1, <1>3 DEF CreateCounts, Proper
    <3>3. Proper(s) /\ s.pc = "email"
      BY <1>1, <1>3, <3>2 DEF CreateCounts, Proper, RequestState
    <3> HIDE DEF s
    <3> QED BY <1>1, <2>1, <3>1, <3>3, OneMoves
  <2>2. CASE ~UnderQuota
    BY <1>1, <1>3, <2>2, EndMoves DEF CreateCounts
  <2> QED BY <2>1, <2>2
<1>4. ASSUME Finds(r)
      PROVE  Moves(r, NoReq) \/ (\E s : Moves(r, s) /\ s.pc = "save" /\ s.id = req[r].id /\ req[r].id \in Live)
  <2>1. CASE Visible(req[r].id)
    <3> DEFINE seen == IF req[r].op = "remove" THEN Unborn ELSE rows[req[r].id]
               s == [req[r] EXCEPT !.pc = "save", !.seen = seen]
    <3>1. req[r].id \in Id /\ rows[req[r].id] \in Row
      BY <1>1, <1>4 DEF Finds, Proper, TypeOK, RowsOK
    <3>2. seen \in Row /\ (req[r].op # "remove" => seen.state = "live")
      BY <2>1, <3>1, NoneProper DEF Visible
    <3>3. req' = [req EXCEPT ![r] = s]
      BY <1>1, <1>4, <2>1 DEF Finds
    <3> HIDE DEF seen
    <3>4. Proper(s) /\ s.pc = "save" /\ s.id = req[r].id
      BY <1>1, <1>4, <3>1, <3>2 DEF Finds, Proper, RequestState
    <3> HIDE DEF s
    <3> QED BY <1>1, <2>1, <3>1, <3>3, <3>4, OneMoves DEF Visible, Live
  <2>2. CASE ~Visible(req[r].id)
    BY <1>1, <1>4, <2>2, EndMoves DEF Finds
  <2> QED BY <2>1, <2>2
<1> QED BY <1>2, <1>3, <1>4 DEF Asks, CreateCounts, Finds

(* The steps of a creation up to the insertion.  While it is not unsure, no live    *)
(* row has its e-mail.                                                        *)
Alone(e) == \A i \in Live : rows[i].email # e

Looks(r) == CreateFindsEmail(r) \/ CreatePurges(r) \/ CreateAllocates(r)

LEMMA CreationSteps ==
    ASSUME TypeOK, NEW r \in Request, Looks(r)
    PROVE  /\ UNCHANGED <<quota, highest, loose>> /\ rows' \in [Id -> Row]
           /\ \A i \in Id : rows'[i] = rows[i] \/ rows'[i].state # "live"
           /\ req[r].pc \in {"email", "purge", "number"}
           /\ \/ Moves(r, NoReq)
              \/ \E s : /\ Moves(r, s) /\ s.pc \in {"purge", "number", "insert"} /\ s.email = req[r].email
                        /\ ~s.unsure => IF req[r].pc = "email" THEN Alone(s.email) ELSE ~req[r].unsure
<1>1. req[r] \in RequestState /\ Proper(req[r]) /\ RequestsOK /\ req \in [Request -> RequestState]
    BY DEF TypeOK, RequestsOK
<1>2. rows \in [Id -> Row]
    BY DEF TypeOK, RowsOK
<1>3. CASE CreateFindsEmail(r)
  <2> DEFINE found == RowsOf(req[r].email)
  <2>1. req[r].pc = "email" /\ UNCHANGED <<rows, quota, highest, loose>>
    BY <1>3 DEF CreateFindsEmail
  <2>2. CASE found = {} /\ req' = [req EXCEPT ![r].pc = "number"]
    <3> DEFINE s == [req[r] EXCEPT !.pc = "number"]
    <3>1. req' = [req EXCEPT ![r] = s]
      BY <1>1, <2>2
    <3>2. Proper(s) /\ s.pc = "number" /\ s.email = req[r].email
      BY <1>1, <2>1 DEF Proper, RequestState
    <3>3. Alone(req[r].email)
      BY <2>2 DEF Alone, RowsOf, Live
    <3> HIDE DEF s
    <3> QED BY <1>1, <1>2, <2>1, <3>1, <3>2, <3>3, OneMoves
  <2>3. ASSUME NEW i \in found,
               req' = IF rows[i].state = "live" THEN Ends(r)
                      ELSE [req EXCEPT ![r].pc = "purge", ![r].id = i, ![r].unsure = Cardinality(found) > 1]
        PROVE  \/ Moves(r, NoReq)
               \/ \E s : /\ Moves(r, s) /\ s.pc \in {"purge", "number", "insert"} /\ s.email = req[r].email
                         /\ ~s.unsure => Alone(s.email)
    <3>1. CASE rows[i].state = "live"
      BY <1>1, <2>3, <3>1, EndMoves
    <3>2. CASE rows[i].state # "live"
      <4> DEFINE many == Cardinality(found) > 1
                 s == [req[r] EXCEPT !.pc = "purge", !.id = i, !.unsure = many]
      <4>1. req' = [req EXCEPT ![r] = s]
        BY <1>1, <2>3, <3>2
      <4>2. many \in BOOLEAN /\ i \in Id
        BY DEF RowsOf
      <4>3. ~many => Alone(req[r].email)
        <5> SUFFICES ASSUME ~many, NEW j \in Live, rows[j].email = req[r].email PROVE FALSE
          BY DEF Alone
        <5>1. {i, j} \subseteq found /\ i # j
          BY <3>2 DEF RowsOf, Live
        <5>2. IsFiniteSet(found) /\ Cardinality(found) \in Nat
          BY AccountsAssumption, FS_Subset, FS_CardinalityType DEF RowsOf
        <5>3. Cardinality({i, j}) = 2
          <6>1. IsFiniteSet({i}) /\ Cardinality({i}) = 1
            BY FS_Singleton, Zenon
          <6>4. j \notin {i}
            BY <5>1
          <6>5. Cardinality({i} \cup {j}) = IF j \in {i} THEN Cardinality({i}) ELSE Cardinality({i}) + 1
            BY <6>1, FS_AddElement, Zenon
          <6>2. Cardinality({i} \cup {j}) = 2
            BY <6>1, <6>4, <6>5
          <6>3. {i, j} = {i} \cup {j}
            OBVIOUS
          <6> QED BY <6>2, <6>3, Zenon
        <5>4. Cardinality({i, j}) <= Cardinality(found)
          BY <5>1, <5>2, FS_Subset
        <5> QED BY <5>2, <5>3, <5>4
      <4> HIDE DEF many
      <4>4. Proper(s) /\ s.pc = "purge" /\ s.email = req[r].email /\ s.unsure = many
        BY <1>1, <2>1, <4>2 DEF Proper, RequestState
      <4> HIDE DEF s
      <4> QED BY <1>1, <4>1, <4>3, <4>4, OneMoves
    <3> QED BY <3>1, <3>2
  <2>4. \/ found = {} /\ req' = [req EXCEPT ![r].pc = "number"]
        \/ \E i \in found :
             req' = IF rows[i].state = "live" THEN Ends(r)
                    ELSE [req EXCEPT ![r].pc = "purge", ![r].id = i, ![r].unsure = Cardinality(found) > 1]
    BY <1>3 DEF CreateFindsEmail
  <2>5. CASE \E i \in found :
               req' = IF rows[i].state = "live" THEN Ends(r)
                      ELSE [req EXCEPT ![r].pc = "purge", ![r].id = i, ![r].unsure = Cardinality(found) > 1]
    <3> HIDE DEF found
    <3> QED BY <1>2, <2>1, <2>3, <2>5
  <2> QED BY <2>2, <2>4, <2>5
<1>4. CASE CreatePurges(r)
  <2> DEFINE s == [req[r] EXCEPT !.pc = "number", !.id = NoId]
             u == [Unborn EXCEPT !.state = "gone"]
  <2>1. req' = [req EXCEPT ![r] = s] /\ req[r].pc = "purge" /\ req[r].id \in Id
    BY <1>1, <1>4 DEF CreatePurges, Proper
  <2>2. Proper(s) /\ s.pc = "number" /\ s.email = req[r].email /\ s.unsure = req[r].unsure
    BY <1>1, <2>1 DEF Proper, RequestState
  <2>3. u \in Row /\ u.state = "gone"
    BY NoneProper DEF Row, States
  <2>4. rows' = [rows EXCEPT ![req[r].id] = u] /\ UNCHANGED <<quota, highest, loose>>
    BY <1>4 DEF CreatePurges
  <2> HIDE DEF s, u
  <2> QED BY <1>1, <1>2, <2>1, <2>2, <2>3, <2>4, OneMoves
<1>5. CASE CreateAllocates(r)
  <2> DEFINE n == SmallestFree
             s == [req[r] EXCEPT !.pc = "insert", !.number = n]
  <2>1. req' = [req EXCEPT ![r] = s] /\ req[r].pc = "number" /\ UNCHANGED <<rows, quota, highest, loose>>
    BY <1>1, <1>5 DEF CreateAllocates
  <2>2. n \in Nat
    BY SmallestFreeIsFree DEF TypeOK
  <2> HIDE DEF n
  <2>3. Proper(s) /\ s.pc = "insert" /\ s.email = req[r].email /\ s.unsure = req[r].unsure
    BY <1>1, <2>1, <2>2 DEF Proper, RequestState
  <2> HIDE DEF s
  <2> QED BY <1>1, <1>2, <2>1, <2>3, OneMoves
<1> QED BY <1>3, <1>4, <1>5 DEF Looks

(* The steps that write the row of an account that is there.                     *)
LEMMA InsertStep ==
    ASSUME TypeOK, NEW r \in Request, CreateInserts(r)
    PROVE  /\ UNCHANGED <<quota, highest>> /\ Moves(r, NoReq) /\ req[r].pc = "insert"
           /\ \/ UNCHANGED <<rows, loose>>
              \/ /\ \E i \in Id : \E v \in Row :
                      /\ v.state = "live" /\ v.email = req[r].email /\ rows[i].state = "unborn"
                      /\ rows' = [rows EXCEPT ![i] = v]
                      /\ loose' = IF req[r].unsure THEN loose \cup {i} ELSE loose
                 /\ \A q \in Request : req'[q].pc \in {"purge", "number", "insert"} => req'[q].unsure
<1> DEFINE w == req[r]
           v == [Unborn EXCEPT !.state = "live", !.email = w.email, !.number = w.number]
<1>1. w \in RequestState /\ w.pc = "insert" /\ RequestsOK /\ w.email \in Email
    BY DEF TypeOK, RequestsOK, Proper, CreateInserts
<1>2. v \in Row /\ v.state = "live" /\ v.email = w.email
    BY <1>1, NoneProper DEF Row, States, RequestState
<1>3. UNCHANGED <<quota, highest>>
    BY DEF CreateInserts
<1>4. CASE req' = Ends(r) /\ UNCHANGED <<rows, loose>>
    BY <1>1, <1>3, <1>4, EndMoves
<1>5. CASE /\ \E i \in {x \in Id : rows[x].state = "unborn"} :
                /\ rows' = [rows EXCEPT ![i] = v]
                /\ loose' = IF w.unsure THEN loose \cup {i} ELSE loose
           /\ req' = Overlapped(Ends(r))
  <2> HIDE DEF v
  <2> QED BY <1>1, <1>2, <1>3, <1>5, EndMoves
<1> QED BY <1>4, <1>5 DEF CreateInserts

LEMMA SaveStep ==
    ASSUME TypeOK, NEW r \in Request, Saves(r)
    PROVE  /\ UNCHANGED <<quota, highest>> /\ Moves(r, NoReq) /\ req[r].pc = "save" /\ req[r].id \in Id
           /\ \/ UNCHANGED <<rows, loose>>
              \/ \E v \in Row :
                   /\ v.state = "live" /\ rows' = [rows EXCEPT ![req[r].id] = v]
                   /\ \/ rows[req[r].id].state = "live" /\ rows[req[r].id].email = v.email /\ loose' = loose
                      \/ /\ loose' = loose \cup {req[r].id}
                         /\ \A q \in Request : req'[q].pc \in {"purge", "number", "insert"} => req'[q].unsure
<1> DEFINE w == req[r]
           v == Changed(w)
<1>1. w \in RequestState /\ Proper(w) /\ RequestsOK /\ w.pc = "save" /\ w.op # "remove"
    BY DEF TypeOK, RequestsOK, Saves
<1>2. v \in Row /\ v.state = "live"
  <2>1. w.seen \in Row /\ w.seen.state = "live" /\ (w.op = "email" => w.email \in Email)
    BY <1>1 DEF Proper, RequestState
  <2> QED BY <2>1 DEF Changed, Row
<1>3. UNCHANGED <<quota, highest>> /\ w.id \in Id
    BY <1>1 DEF Saves, Proper
<1>4. CASE req' = Ends(r) /\ UNCHANGED <<rows, loose>>
    BY <1>1, <1>3, <1>4, EndMoves
<1>5. CASE /\ rows' = [rows EXCEPT ![w.id] = v]
           /\ IF rows[w.id].state = "live" /\ rows[w.id].email = v.email
              THEN req' = Ends(r) /\ UNCHANGED loose
              ELSE req' = Overlapped(Ends(r)) /\ loose' = loose \cup {w.id}
  <2> HIDE DEF v
  <2> QED BY <1>1, <1>2, <1>3, <1>5, EndMoves
<1> QED BY <1>4, <1>5 DEF Saves

LEMMA RemoveStep ==
    ASSUME TypeOK, NEW r \in Request, SoftDeletes(r)
    PROVE  /\ UNCHANGED <<quota, highest, loose>> /\ Moves(r, NoReq) /\ rows' \in [Id -> Row]
           /\ \A i \in Id : rows'[i] = rows[i] \/ rows'[i].state # "live"
<1>1. req[r].id \in Id /\ RequestsOK /\ rows \in [Id -> Row]
    BY DEF SoftDeletes, TypeOK, RequestsOK, Proper, RowsOK
<1> DEFINE i == req[r].id
           v == [rows[i] EXCEPT !.state = IF @ = "live" THEN "deleted" ELSE @]
<1>2. rows' = [rows EXCEPT ![i] = v]
    BY <1>1 DEF SoftDeletes
<1>3. v \in Row /\ v.state # "live"
    BY <1>1 DEF Row, States
<1>4. req' = Ends(r) /\ UNCHANGED <<quota, highest, loose>>
    BY DEF SoftDeletes
<1> HIDE DEF v
<1> QED BY <1>1, <1>2, <1>3, <1>4, EndMoves

(* A request fails, the plan changes, or the rows of before the numbers get one.     *)
LEMMA BackfillStep ==
    ASSUME RowsOK, Backfill
    PROVE  /\ UNCHANGED <<quota, highest, req, loose>> /\ rows' \in [Id -> Row]
           /\ \A i \in Id : rows'[i].state = rows[i].state /\ rows'[i].email = rows[i].email
<1>1. PICK n \in [Unnumbered -> 1..Cardinality(Unnumbered)] :
        rows' = [i \in Id |-> IF i \in Unnumbered THEN [rows[i] EXCEPT !.number = n[i]] ELSE rows[i]]
    BY DEF Backfill
<1>2. Cardinality(Unnumbered) \in Nat
    BY AccountsAssumption, FS_Subset, FS_CardinalityType DEF Unnumbered, Live
<1>3. ASSUME NEW i \in Id
      PROVE  rows'[i] \in Row /\ rows'[i].state = rows[i].state /\ rows'[i].email = rows[i].email
  <2>1. CASE i \in Unnumbered
    <3>1. rows'[i] = [rows[i] EXCEPT !.number = n[i]] /\ n[i] \in Nat /\ rows[i] \in Row
      BY <1>1, <1>2, <2>1 DEF RowsOK
    <3> QED BY <3>1 DEF Row
  <2>2. CASE i \notin Unnumbered
    BY <1>1, <2>2 DEF RowsOK
  <2> QED BY <2>1, <2>2
<1> QED BY <1>1, <1>3 DEF Backfill

LEMMA FailStep == ASSUME TypeOK, NEW r \in Request, Fails(r) PROVE Moves(r, NoReq) /\ UNCHANGED <<rows, quota, highest, loose>>
BY EndMoves DEF Fails, TypeOK

LEMMA QuotaStep ==
    ASSUME QuotaOK, QuotaChanges
    PROVE  QuotaOK' /\ highest <= highest' /\ UNCHANGED <<rows, req, loose>>
BY AccountsAssumption DEF QuotaOK, QuotaChanges, Allowed

LEMMA TypeStep == ASSUME TypeOK, [Next]_vars PROVE TypeOK'
<1>1. ASSUME NEW r \in Request, NEW s, Moves(r, s), rows' \in [Id -> Row], UNCHANGED <<quota, highest>>, loose' \subseteq Id
      PROVE  TypeOK'
    BY <1>1 DEF TypeOK, Moves, RowsOK, QuotaOK
<1>2. ASSUME NEW i \in Id, NEW v \in Row, rows' = [rows EXCEPT ![i] = v] PROVE rows' \in [Id -> Row]
    BY <1>2 DEF TypeOK, RowsOK
<1>3. ASSUME NEW r \in Request, Asks(r) \/ CreateStep(r) \/ Finds(r) \/ Saves(r) \/ SoftDeletes(r) \/ Fails(r)
      PROVE  TypeOK'
  <2>1. CASE Asks(r) \/ CreateCounts(r) \/ Finds(r)
    BY <1>1, <2>1, RequestSteps DEF TypeOK, RowsOK
  <2>2. CASE Looks(r)
    BY <1>1, <2>2, CreationSteps DEF TypeOK
  <2>3. CASE CreateInserts(r)
    BY <1>1, <1>2, <2>3, InsertStep DEF TypeOK, RowsOK
  <2>4. CASE Saves(r)
    BY <1>1, <1>2, <2>4, SaveStep DEF TypeOK, RowsOK
  <2>5. CASE SoftDeletes(r)
    BY <1>1, <2>5, RemoveStep DEF TypeOK
  <2>6. CASE Fails(r)
    BY <1>1, <2>6, FailStep DEF TypeOK, RowsOK
  <2> QED BY <1>3, <2>1, <2>2, <2>3, <2>4, <2>5, <2>6 DEF CreateStep, Looks
<1>4. CASE Backfill
    BY <1>4, BackfillStep DEF TypeOK, RowsOK, QuotaOK, RequestsOK
<1>5. CASE QuotaChanges
    BY <1>5, QuotaStep DEF TypeOK, RowsOK, RequestsOK
<1>6. CASE UNCHANGED vars
    BY <1>6 DEF vars, TypeOK, RowsOK, QuotaOK, RequestsOK
<1> QED BY <1>3, <1>4, <1>5, <1>6 DEF Next

(* The rows, the plan and the requests keep their types, and a copy that is saved    *)
(* is one of a live row: every operation of the service.                         *)
THEOREM AccountsTypeCorrect == Spec => []TypeOK
<1>1. Init => TypeOK
  <2> SUFFICES ASSUME Init PROVE TypeOK
    OBVIOUS
  <2>1. QuotaOK
    <3>1. quota \in Quotas /\ highest = Allowed(quota)
      BY DEF Init
    <3> QED BY <3>1, AccountsAssumption DEF QuotaOK, Allowed
  <2>2. RequestsOK /\ loose = {}
    <3>1. req = [r \in Request |-> NoReq] /\ loose = {}
      BY DEF Init
    <3>2. NoReq \in RequestState
      BY NoneProper DEF Proper
    <3> QED BY <3>1, <3>2, NoneProper DEF RequestsOK
  <2>3. RowsOK
    <3>1. PICK old \in SUBSET Id, mail \in [Id -> Email] :
            rows = [i \in Id |-> IF i \in old THEN [Unborn EXCEPT !.state = "live", !.email = mail[i]] ELSE Unborn]
      BY DEF Init
    <3>2. ASSUME NEW i \in Id PROVE [Unborn EXCEPT !.state = "live", !.email = mail[i]] \in Row
      BY DEF Unborn, Row, States
    <3> QED BY <3>1, <3>2, NoneProper DEF RowsOK
  <2> QED BY <2>1, <2>2, <2>3 DEF TypeOK
<1>2. TypeOK /\ [Next]_vars => TypeOK'
    BY TypeStep
<1> QED BY <1>1, <1>2, PTL DEF Spec
-----------------------------------------------------------------------------
(* E-mails *)

(* A creation that is not unsure relies on what it found when it looked: no live   *)
(* row has its e-mail.  Every write that could change that makes it unsure.       *)
Relies(x) == x.pc \in {"purge", "number", "insert"} /\ ~x.unsure => Alone(x.email)

EmailsOK == OneRowPerEmail /\ \A r \in Request : Relies(req[r])

LEMMA EmailsStep == ASSUME TypeOK, EmailsOK, [Next]_vars PROVE EmailsOK'
<1> USE DEF EmailsOK, OneRowPerEmail, Alone, Live
(* no row comes to life or changes its e-mail *)
<1>1. ASSUME rows' \in [Id -> Row], loose' = loose,
             \A i \in Id : rows'[i].state = "live" => rows[i].state = "live" /\ rows'[i].email = rows[i].email
      PROVE  OneRowPerEmail' /\ \A e : Alone(e) => Alone(e)'
    BY <1>1
<1>2. ASSUME NEW r \in Request, NEW s, Moves(r, s), \A e : Alone(e) => Alone(e)', Relies(s)'
      PROVE  \A q \in Request : Relies(req[q])'
    BY <1>2 DEF Moves, Like, Relies
<1>3. Relies(NoReq)'
    BY DEF Relies, NoReq
<1>4. ASSUME NEW r \in Request, Asks(r) \/ CreateCounts(r) \/ Finds(r) \/ SoftDeletes(r) \/ Fails(r)
      PROVE  EmailsOK'
  <2>1. /\ rows' \in [Id -> Row] /\ loose' = loose
        /\ \A i \in Id : rows'[i].state = "live" => rows[i].state = "live" /\ rows'[i].email = rows[i].email
    BY <1>4, RequestSteps, RemoveStep, FailStep DEF TypeOK, RowsOK
  <2>2. \E s : Moves(r, s) /\ (s = NoReq \/ s.pc \in {"quota", "find", "email", "save"})
    BY <1>4, RequestSteps, RemoveStep, FailStep
  <2>3. PICK s : Moves(r, s) /\ Relies(s)'
    BY <1>3, <2>2 DEF Relies
  <2> QED BY <1>1, <1>2, <2>1, <2>3
<1>5. ASSUME NEW r \in Request, Looks(r) PROVE EmailsOK'
  <2>1. /\ rows' \in [Id -> Row] /\ loose' = loose
        /\ \A i \in Id : rows'[i].state = "live" => rows[i].state = "live" /\ rows'[i].email = rows[i].email
    BY <1>5, CreationSteps
  <2>2. OneRowPerEmail' /\ \A e : Alone(e) => Alone(e)'
    BY <1>1, <2>1
  <2>3. CASE Moves(r, NoReq)
    BY <1>2, <1>3, <2>2, <2>3
  <2>4. ASSUME NEW s, Moves(r, s), s.email = req[r].email, s.pc \in {"purge", "number", "insert"},
               ~s.unsure => IF req[r].pc = "email" THEN Alone(s.email) ELSE ~req[r].unsure
        PROVE  EmailsOK'
    <3>1. req[r].pc \in {"email", "purge", "number"}
      BY <1>5, CreationSteps
    <3>2. ~s.unsure => Alone(s.email)
      BY <2>4, <3>1 DEF Relies
    <3>3. Relies(s)'
      BY <2>2, <3>2 DEF Relies
    <3> QED BY <1>2, <2>2, <2>4, <3>3
  <2> QED BY <1>5, <2>3, <2>4, CreationSteps
<1>6. ASSUME NEW r \in Request, CreateInserts(r) \/ Saves(r), UNCHANGED <<rows, loose>> PROVE EmailsOK'
  <2>1. Moves(r, NoReq)
    BY <1>6, InsertStep, SaveStep
  <2> QED BY <1>1, <1>2, <1>3, <1>6, <2>1 DEF TypeOK, RowsOK
<1>7. ASSUME \A q \in Request : req'[q].pc \in {"purge", "number", "insert"} => req'[q].unsure
      PROVE  \A q \in Request : Relies(req[q])'
    BY <1>7 DEF Relies
<1>8. ASSUME NEW r \in Request, CreateInserts(r), ~UNCHANGED <<rows, loose>> PROVE EmailsOK'
  <2>1. PICK i \in Id, v \in Row :
          /\ v.state = "live" /\ v.email = req[r].email
          /\ rows' = [rows EXCEPT ![i] = v]
          /\ loose' = IF req[r].unsure THEN loose \cup {i} ELSE loose
    BY <1>8, InsertStep
  <2>2. req[r].pc = "insert" /\ \A q \in Request : req'[q].pc \in {"purge", "number", "insert"} => req'[q].unsure
    BY <1>8, InsertStep
  <2>3. \A j \in Id : rows'[j] = IF j = i THEN v ELSE rows[j]
    BY <2>1 DEF TypeOK, RowsOK
  <2>4. i \in loose' \/ Alone(v.email)
    BY <2>1, <2>2 DEF Relies
  <2>5. OneRowPerEmail'
    BY <2>1, <2>3, <2>4
  <2> QED BY <1>7, <2>2, <2>5
<1>9. ASSUME NEW r \in Request, Saves(r), ~UNCHANGED <<rows, loose>> PROVE EmailsOK'
  <2> DEFINE i == req[r].id
  <2>1. PICK v \in Row :
          /\ v.state = "live" /\ rows' = [rows EXCEPT ![i] = v]
          /\ \/ rows[i].state = "live" /\ rows[i].email = v.email /\ loose' = loose
             \/ /\ loose' = loose \cup {i}
                /\ \A q \in Request : req'[q].pc \in {"purge", "number", "insert"} => req'[q].unsure
    BY <1>9, SaveStep
  <2>2. Moves(r, NoReq) /\ i \in Id
    BY <1>9, SaveStep
  <2>3. (\A j \in Id : rows'[j] = IF j = i THEN v ELSE rows[j]) /\ rows' \in [Id -> Row]
    BY <2>1, <2>2 DEF TypeOK, RowsOK
  <2> HIDE DEF i
  <2>4. CASE rows[i].state = "live" /\ rows[i].email = v.email /\ loose' = loose
    <3>1. \A j \in Id : rows'[j].state = "live" => rows[j].state = "live" /\ rows'[j].email = rows[j].email
      BY <2>3, <2>4
    <3> QED BY <1>1, <1>2, <1>3, <2>2, <2>3, <2>4, <3>1
  <2>5. CASE /\ loose' = loose \cup {i}
             /\ \A q \in Request : req'[q].pc \in {"purge", "number", "insert"} => req'[q].unsure
    <3>1. OneRowPerEmail'
      BY <2>3, <2>5
    <3> QED BY <1>7, <2>5, <3>1
  <2> QED BY <2>1, <2>4, <2>5
<1>10. CASE Backfill \/ QuotaChanges \/ UNCHANGED vars
  <2>1. /\ rows' \in [Id -> Row] /\ UNCHANGED <<req, loose>>
        /\ \A i \in Id : rows'[i].state = rows[i].state /\ rows'[i].email = rows[i].email
    BY <1>10, BackfillStep, QuotaStep DEF vars, TypeOK, RowsOK
  <2> QED BY <1>1, <2>1 DEF Relies
<1> QED BY <1>4, <1>5, <1>6, <1>8, <1>9, <1>10 DEF Next, CreateStep, Looks

(* A user has one account per e-mail, with the exceptions of OneRowPerEmail: create  *)
(* beside every other request that writes the rows, as their statements interleave.  *)
THEOREM OneAccountPerEmail == Spec => []OneRowPerEmail
<1>1. Init => EmailsOK
  <2> SUFFICES ASSUME Init PROVE EmailsOK
    OBVIOUS
  <2>1. PICK old \in SUBSET Id, mail \in [Id -> Email] :
          /\ \A i, j \in old : mail[i] = mail[j] => i = j
          /\ rows = [i \in Id |-> IF i \in old THEN [Unborn EXCEPT !.state = "live", !.email = mail[i]] ELSE Unborn]
    BY DEF Init
  <2>2. \A i \in Live : i \in old /\ rows[i].email = mail[i]
    BY <2>1 DEF Live, Unborn
  <2>3. OneRowPerEmail
    <3> SUFFICES ASSUME NEW i \in Live, NEW j \in Live, rows[i].email = rows[j].email PROVE i = j
      BY DEF OneRowPerEmail
    <3>1. i \in old /\ j \in old /\ mail[i] = mail[j]
      BY <2>2
    <3> QED BY <2>1, <3>1
  <2>4. ASSUME NEW r \in Request PROVE req[r].pc = "none"
    <3>1. req = [q \in Request |-> NoReq]
      BY DEF Init
    <3> QED BY <3>1 DEF NoReq
  <2> QED BY <2>3, <2>4 DEF EmailsOK, Relies
<1>2. TypeOK /\ EmailsOK /\ [Next]_vars => EmailsOK'
    BY EmailsStep
<1>3. EmailsOK => OneRowPerEmail
    BY DEF EmailsOK
<1> QED BY <1>1, <1>2, <1>3, AccountsTypeCorrect, PTL DEF Spec
-----------------------------------------------------------------------------
(* The quota *)

(* Creations that are past the count, and the rows whose copies requests hold.      *)
Creating == {r \in Request : req[r].pc \in {"email", "purge", "number", "insert"}}
Savers   == {r \in Request : req[r].pc = "save"}
Held     == {req[r].id : r \in Savers}

(* A creation past the count may add a row and a copy may bring one back, so each     *)
(* is counted as if it had: the bound holds of the rows that may be live, and no      *)
(* request but the one that counts adds to them.                                   *)
Bounded == Cardinality(Live \cup Held) + Cardinality(Creating) <= highest + Cardinality(Request) - 1

Counted ==
    /\ IsFiniteSet(Live \cup Held) /\ IsFiniteSet(Creating) /\ IsFiniteSet(Savers)
    /\ Cardinality(Live \cup Held) <= Cardinality(Live) + Cardinality(Savers)
    /\ Cardinality(Live \cup Held) \in Nat /\ Cardinality(Creating) \in Nat /\ Cardinality(Savers) \in Nat
    /\ Cardinality(Live) \in Nat /\ Cardinality(Live) <= Cardinality(Live \cup Held)

LEMMA QuotaSets == Counted
<1> DEFINE f == [r \in Savers |-> req[r].id]
<1>1. IsFiniteSet(Live) /\ IsFiniteSet(Creating) /\ IsFiniteSet(Savers)
    BY LiveFinite, AccountsAssumption, FS_Subset DEF Creating, Savers
<1>2. f \in Surjection(Savers, Held)
    BY DEF Surjection, Held
<1>3. IsFiniteSet(Held) /\ Cardinality(Held) <= Cardinality(Savers)
    BY <1>1, <1>2, FS_Surjection
<1>4. /\ IsFiniteSet(Live \cup Held)
      /\ Cardinality(Live \cup Held) = Cardinality(Live) + Cardinality(Held) - Cardinality(Live \cap Held)
    BY <1>1, <1>3, FS_Union
<1>5. IsFiniteSet(Live \cap Held)
    BY <1>4, FS_Subset
<1>6. /\ Cardinality(Live) \in Nat /\ Cardinality(Held) \in Nat /\ Cardinality(Live \cap Held) \in Nat
      /\ Cardinality(Live \cup Held) \in Nat /\ Cardinality(Creating) \in Nat /\ Cardinality(Savers) \in Nat
    BY <1>1, <1>3, <1>4, <1>5, FS_CardinalityType
<1>7. Cardinality(Live) <= Cardinality(Live \cup Held)
    BY <1>4, FS_Subset
<1> QED BY <1>1, <1>3, <1>4, <1>6, <1>7 DEF Counted

LEMMA QuotaSetsAfter == Counted'
BY QuotaSets, PTL

(* A step that brings no row to life and starts no creation keeps the bound.       *)
LEMMA NothingGrows ==
    ASSUME TypeOK, TypeOK', Bounded, highest <= highest',
           (Live \cup Held)' \subseteq Live \cup Held, Creating' \subseteq Creating
    PROVE  Bounded'
<1> DEFINE L == Live \cup Held
           M == Live' \cup Held'
<1>1. Cardinality(M) <= Cardinality(L) /\ Cardinality(M) \in Nat /\ Cardinality(L) \in Nat
    BY QuotaSets, FS_Subset, FS_CardinalityType DEF Counted
<1>2. Cardinality(Creating') <= Cardinality(Creating) /\ Cardinality(Creating') \in Nat /\ Cardinality(Creating) \in Nat
    BY QuotaSets, FS_Subset, FS_CardinalityType DEF Counted
<1>3. highest \in Nat /\ highest' \in Nat /\ Cardinality(Request) \in Nat
    BY AccountsAssumption, FS_CardinalityType DEF TypeOK, QuotaOK
<1>4. Cardinality(L) + Cardinality(Creating) <= highest + Cardinality(Request) - 1
    BY DEF Bounded
<1>5. Cardinality(M) + Cardinality(Creating') <= highest' + Cardinality(Request) - 1
  <2> HIDE DEF L, M
  <2> QED BY <1>1, <1>2, <1>3, <1>4
<1> QED BY <1>5 DEF Bounded

(* The others keep their places; the request that moves takes its own.             *)
LEMMA SetsMove ==
    ASSUME NEW r \in Request, NEW s, Moves(r, s)
    PROVE  /\ s.pc \notin {"email", "purge", "number", "insert"} => Creating' = Creating \ {r}
           /\ s.pc \in {"email", "purge", "number", "insert"} => Creating' = Creating \cup {r}
           /\ s.pc # "save" => Savers' = Savers \ {r} /\ Held' \subseteq Held
           /\ s.pc = "save" => Held' \subseteq Held \cup {s.id}
BY DEF Moves, Like, Creating, Savers, Held

LEMMA BoundedStep == ASSUME TypeOK, TypeOK', Bounded, [Next]_vars PROVE Bounded'
<1>1. highest \in Nat /\ Cardinality(Request) \in Nat /\ TypeOK /\ Allowed(quota) \in Nat /\ Allowed(quota) <= highest
    BY AccountsAssumption, FS_CardinalityType DEF TypeOK, QuotaOK, Allowed
<1>2. ASSUME NEW r \in Request, Asks(r) \/ Finds(r) \/ Fails(r) \/ SoftDeletes(r) \/ Looks(r)
      PROVE  Bounded'
  <2>1. Live' \subseteq Live /\ highest' = highest
    BY <1>2, RequestSteps, RemoveStep, FailStep, CreationSteps DEF Live
  <2>2. PICK s : /\ Moves(r, s)
                 /\ \/ s = NoReq
                    \/ s.pc \in {"quota", "find"}
                    \/ s.pc = "save" /\ s.id \in Live
                    \/ s.pc \in {"purge", "number", "insert"} /\ r \in Creating
    BY <1>2, RequestSteps, RemoveStep, FailStep, CreationSteps DEF Creating
  <2>3. NoReq.pc = "none"
    BY DEF NoReq
  <2>4. Creating' \subseteq Creating /\ (Live' \cup Held') \subseteq Live \cup Held
    BY <2>1, <2>2, <2>3, SetsMove
  <2> QED BY <1>1, <2>1, <2>4, NothingGrows
<1>3. ASSUME NEW r \in Request, CreateCounts(r) PROVE Bounded'
  <2>1. UNCHANGED <<rows, highest>> /\ Live' = Live
    BY <1>3, RequestSteps DEF Live
  <2>2. CASE Moves(r, NoReq)
    <3>1. Creating' \subseteq Creating /\ (Live' \cup Held') \subseteq Live \cup Held
      BY <2>1, <2>2, SetsMove DEF NoReq
    <3> QED BY <1>1, <2>1, <3>1, NothingGrows
  <2>3. ASSUME UnderQuota, NEW s, Moves(r, s), s.pc = "email" PROVE Bounded'
    <3>1. r \notin Savers /\ r \notin Creating
      BY <1>3 DEF CreateCounts, Savers, Creating
    <3>2. Creating' = Creating \cup {r} /\ Savers' = Savers
      BY <2>3, <3>1, SetsMove
    <3>3. Creating' \cap Savers' = {} /\ (Creating' \cup Savers') \in SUBSET Request
      BY <3>1, <3>2 DEF Creating, Savers
    <3>4. Cardinality(Creating') + Cardinality(Savers') <= Cardinality(Request)
      <4>1. Creating' \in SUBSET Request /\ Savers' \in SUBSET Request
        BY <3>3
      <4> QED BY <3>3, <4>1, AccountsAssumption, ApartFew
    <3>5. Cardinality(Live) + 1 <= highest
      BY <1>1, <2>3, QuotaSets DEF Counted, UnderQuota
    <3>6. Cardinality(Live' \cup Held') <= Cardinality(Live') + Cardinality(Savers')
      BY QuotaSetsAfter DEF Counted
    <3>7. /\ Cardinality(Live' \cup Held') \in Nat /\ Cardinality(Creating') \in Nat /\ Cardinality(Savers') \in Nat
          /\ Cardinality(Live) \in Nat
      BY QuotaSets, QuotaSetsAfter DEF Counted
    <3>8. Cardinality(Live' \cup Held') + Cardinality(Creating') <= highest + Cardinality(Request) - 1
      BY <1>1, <2>1, <3>4, <3>5, <3>6, <3>7
    <3> QED BY <2>1, <3>8 DEF Bounded
  <2> QED BY <1>3, <2>2, <2>3, RequestSteps
<1>4. ASSUME NEW r \in Request, CreateInserts(r) \/ Saves(r), UNCHANGED <<rows, loose>> PROVE Bounded'
  <2>1. Moves(r, NoReq) /\ highest' = highest /\ Live' = Live
    BY <1>4, InsertStep, SaveStep DEF Live
  <2>2. Creating' \subseteq Creating /\ (Live' \cup Held') \subseteq Live \cup Held
    BY <2>1, SetsMove DEF NoReq
  <2> QED BY <1>1, <2>1, <2>2, NothingGrows
<1>5. ASSUME NEW r \in Request, CreateInserts(r), ~UNCHANGED <<rows, loose>> PROVE Bounded'
  <2>1. Moves(r, NoReq) /\ highest' = highest /\ r \in Creating
    BY <1>5, InsertStep DEF Creating
  <2>2. PICK i \in Id : \E v \in Row : rows' = [rows EXCEPT ![i] = v]
    BY <1>5, InsertStep
  <2>3. Live' \subseteq Live \cup {i}
    BY <2>2 DEF Live, TypeOK, RowsOK
  <2>4. Creating' = Creating \ {r} /\ Held' \subseteq Held
    BY <2>1, SetsMove DEF NoReq
  <2> DEFINE L == Live \cup Held
             M == Live' \cup Held'
  <2>5. IsFiniteSet(L) /\ Cardinality(L) \in Nat /\ M \subseteq L \cup {i}
    BY <2>3, <2>4, QuotaSets DEF Counted
  <2>6. Cardinality(L) + Cardinality(Creating) <= highest + Cardinality(Request) - 1
    BY DEF Bounded
  <2>7. Cardinality(Creating') = Cardinality(Creating) - 1 /\ Cardinality(Creating) \in Nat
    BY <2>1, <2>4, QuotaSets, FS_RemoveElement DEF Counted
  <2>8. Cardinality(M) <= Cardinality(L) + 1 /\ Cardinality(M) \in Nat
    <3> HIDE DEF L, M
    <3> QED BY <2>5, OneMore
  <2>9. Cardinality(M) + Cardinality(Creating') <= highest' + Cardinality(Request) - 1
    <3> HIDE DEF L, M
    <3> QED BY <1>1, <2>1, <2>5, <2>6, <2>7, <2>8
  <2> QED BY <2>9 DEF Bounded
<1>6. ASSUME NEW r \in Request, Saves(r), ~UNCHANGED <<rows, loose>> PROVE Bounded'
  <2>1. Moves(r, NoReq) /\ highest' = highest /\ req[r].id \in Held
    BY <1>6, SaveStep DEF Held, Savers
  <2>2. \E v \in Row : rows' = [rows EXCEPT ![req[r].id] = v]
    BY <1>6, SaveStep
  <2>3. Live' \subseteq Live \cup {req[r].id}
    BY <2>2 DEF Live, TypeOK, RowsOK
  <2>4. Creating' \subseteq Creating /\ (Live' \cup Held') \subseteq Live \cup Held
    BY <2>1, <2>3, SetsMove DEF NoReq
  <2> QED BY <1>1, <2>1, <2>4, NothingGrows
<1>7. CASE Backfill \/ QuotaChanges \/ UNCHANGED vars
  <2>1. UNCHANGED req /\ highest <= highest' /\ \A i \in Id : rows'[i].state = rows[i].state
    BY <1>1, <1>7, BackfillStep, QuotaStep DEF vars, TypeOK
  <2>2. Live' = Live /\ Held' = Held /\ Creating' = Creating
    BY <2>1 DEF Live, Held, Savers, Creating
  <2> QED BY <1>1, <2>1, <2>2, NothingGrows
<1> QED BY <1>2, <1>3, <1>4, <1>5, <1>6, <1>7 DEF Next, CreateStep, Looks

(* However requests interleave, a user has never more accounts than the highest       *)
(* quota and one less than the requests that run at a time: the count of create and    *)
(* its insertion beside the other creations and the saves of stale copies.            *)
THEOREM AccountsWithinQuota == Spec => []WithinQuota
<1>1. Init => Bounded
  <2> SUFFICES ASSUME Init PROVE Bounded
    OBVIOUS
  <2>1. PICK old \in SUBSET Id : Cardinality(old) <= highest /\ \A i \in Id \ old : rows[i] = Unborn
    BY DEF Init
  <2>2. Live \subseteq old
    BY <2>1 DEF Live, Unborn
  <2>3. \A r \in Request : req[r].pc = "none"
    <3>1. req = [q \in Request |-> NoReq]
      BY DEF Init
    <3> QED BY <3>1 DEF NoReq
  <2>4. Held = {} /\ Creating = {}
    BY <2>3 DEF Held, Savers, Creating
  <2>5. IsFiniteSet(old) /\ Cardinality(Live) <= Cardinality(old) /\ Cardinality(Live) \in Nat /\ Cardinality(old) \in Nat
    BY <2>2, AccountsAssumption, FS_Subset, FS_CardinalityType
  <2>6. Cardinality(Request) \in Nat \ {0} /\ Cardinality(Creating) = 0
    BY <2>4, AccountsAssumption, FS_EmptySet, FS_CardinalityType
  <2>7. highest \in Nat
    <3>1. quota \in Quotas /\ highest = Allowed(quota)
      BY DEF Init
    <3> QED BY <3>1, AccountsAssumption DEF Allowed
  <2>8. Live \cup Held = Live
    BY <2>4
  <2>9. Cardinality(Live) + Cardinality(Creating) <= highest + Cardinality(Request) - 1
    BY <2>1, <2>5, <2>6, <2>7
  <2> QED BY <2>8, <2>9 DEF Bounded
<1>2. TypeOK /\ TypeOK' /\ Bounded /\ [Next]_vars => Bounded'
    BY BoundedStep
<1>3. TypeOK /\ Bounded => WithinQuota
  <2> SUFFICES ASSUME TypeOK, Bounded PROVE Cardinality(Live) <= highest + Cardinality(Request) - 1
    BY DEF WithinQuota
  <2>1. highest \in Nat /\ Cardinality(Request) \in Nat
    BY AccountsAssumption, FS_CardinalityType DEF TypeOK, QuotaOK
  <2> QED BY <2>1, QuotaSets DEF Counted, Bounded
<1> QED BY <1>1, <1>2, <1>3, AccountsTypeCorrect, PTL DEF Spec
-----------------------------------------------------------------------------
(* The proxies and chat scripts of a user (Configs).                          *)
Config == [state: {"none", "row"}, default: BOOLEAN, active: BOOLEAN]

Call ==
    [op: {"none", "create", "update", "setDefault", "delete", "connect", "disconnect",
          "list", "import", "clear", "reset"},
     at: {"idle", "clear", "find", "write", "read", "insert"},
     row: Id \cup {NoVpn}, copy: Config, default: BOOLEAN, lang: {"zh", "en"}, more: 0..PackSize]

(* Calls with a proxy and calls with scripts have their own steps.             *)
CallOK(x) ==
    /\ x \in Call
    /\ x.at \in {"clear", "find", "write"} => x.row \in Id
    /\ x.at = "insert" => x.op \in {"list", "import", "reset"} /\ x.more # 0
    /\ x.op = "create" => x.at \in {"clear", "write"}
    /\ x.at = "clear" => x.default

ConfigsOK ==
    /\ vpn \in [Id -> Config] /\ copies \in [{"zh", "en"} -> Nat]
    /\ task \in [Request -> Call] /\ \A c \in Request : CallOK(task[c])

(* The items with the number that calls are still to insert, each by its call     *)
(* and its place from the end of the pack                                      *)
Items == Request \X (1..PackSize)

Waiting(l) == {p \in Items : task[p[1]].at = "insert" /\ task[p[1]].lang = l /\ p[2] <= task[p[1]].more}

CopiesInv == \A l \in {"zh", "en"} : copies[l] + Cardinality(Waiting(l)) <= Cardinality(Items)

(* The calls that have cleared the marks and are to set one                     *)
Marks(x) ==
    \/ x.op \in {"create", "update"} /\ x.at = "write" /\ x.default
    \/ x.op = "setDefault" /\ x.at \in {"find", "write"}

Markers == {c \in Request : Marks(task[c])}

(* The calls that hold the copy of a marked row and are to save it               *)
Keeps(x) == x.op = "update" /\ x.at = "write" /\ ~x.default /\ x.copy.default

Keepers == {c \in Request : Keeps(task[c])}

(* What is marked, or is to be once the copies are saved                        *)
Marked == C!Defaults \cup {task[c].row : c \in Keepers}

(* Every call that is to set a mark has cleared them all, and those who held a    *)
(* copy then are other calls.                                                 *)
DefaultsInv == Cardinality(Marked) + Cardinality(Markers) <= Cardinality(Request)

ConfigsInv == ConfigsOK /\ CopiesInv /\ DefaultsInv
-----------------------------------------------------------------------------
(* Checks that overlap (Recovery, as H): a check that found an alert is to save   *)
(* it, one that found none is to insert one.                                   *)
AlertName == 1..2 * Cardinality(Request)

CheckState == [pc: {"idle", "measure", "find", "alert"}, status: {"active", "error"}, alert: SUBSET AlertName]

Renews(x)   == x.pc = "alert" /\ \E a : x.alert = {a}
Adds(x) == x.pc = "alert" /\ x.alert = {}

CheckOK(x) == x \in CheckState /\ (x.alert = {} \/ Renews(x))

ChecksOK ==
    /\ check \in [Request -> CheckState] /\ \A k \in Request : CheckOK(check[k])
    /\ active \subseteq AlertName /\ status \in {"active", "error"}

Finders   == {k \in Request : Renews(check[k])}
Inserting == {k \in Request : Adds(check[k])}

(* A check looks for an alert while there is none, or names one: those that look    *)
(* when there is none and those that name one are different checks.               *)
AlertsInv == Cardinality(active \cup H!Held) + Cardinality(Inserting) <= Cardinality(Request)

(* Detections that overlap (Recovery, as V): those that have a row or may still    *)
(* insert it, for each of the three rows of a recovery                           *)
Early  == {"idle", "guard", "count"}
Ahead  == {"own", "ownMark", "analyse", "insert"}
HasOwn(x)  == x.manual /\ x.pc \in {"own", "ownMark"} \cup V!Execute
HasMain(x) == x.pc \in Ahead \cup V!MainRow
HasBack(x) == x.pc \in Ahead \cup {"mark", "attempt"} \cup V!FbRow

Own  == {d \in Request : HasOwn(rec[d])}
Main == {d \in Request : HasMain(rec[d])}
Back == {d \in Request : HasBack(rec[d])}

RecState == [pc: Early \cup Ahead \cup V!MainRow, manual: BOOLEAN]

RecOK(x) ==
    /\ x \in RecState
    /\ x.pc \in Early \cup {"analyse"} => ~x.manual
    /\ x.pc \in {"own", "ownMark"} => x.manual

RecsOK ==
    /\ rec \in [Request -> RecState] /\ \A d \in Request : RecOK(rec[d])
    /\ ended \in Nat /\ stuck \in Nat /\ manuals \in Nat

(* What a detection that passed the test may still insert is counted when it       *)
(* passes, so that only the start of a manual recovery adds to the sum.            *)
RowsFew ==
    ended + stuck + Cardinality(Own) + Cardinality(Main) + Cardinality(Back)
        <= MaxAttempts - 1 + 2 * Cardinality(Request) + 3 * manuals

AttemptsInv == RecsOK /\ Cardinality(Own) <= manuals /\ RowsFew

RowsInv ==
    /\ ConfigsInv
    /\ part = "alerts" => ChecksOK /\ AlertsInv
    /\ part = "recovery" => AttemptsInv
-----------------------------------------------------------------------------
LEMMA RequestsFew == IsFiniteSet(Request) /\ Cardinality(Request) \in Nat \ {0}
<1>1. IsFiniteSet(Request) /\ Request # {}
    BY AccountsAssumption
<1> QED BY <1>1, FS_CardinalityType, FS_EmptySet
-----------------------------------------------------------------------------
(* A step of one call: what it is about to do.                                 *)
TaskIs(c, x) == CallOK(x) /\ task' = [task EXCEPT ![c] = x]

LEMMA TypesKept ==
    ASSUME ConfigsOK, NEW c \in Request, NEW x, TaskIs(c, x),
           vpn' \in [Id -> Config], copies' \in [{"zh", "en"} -> Nat]
    PROVE  ConfigsOK'
<1>1. task' \in [Request -> Call] /\ \A d \in Request : task'[d] = IF d = c THEN x ELSE task[d]
    BY DEF ConfigsOK, TaskIs, CallOK
<1>2. \A d \in Request : CallOK(task'[d])
    BY <1>1 DEF ConfigsOK, TaskIs
<1> QED BY <1>1, <1>2 DEF ConfigsOK, CallOK

LEMMA ItemsFew ==
    IsFiniteSet(Items) /\ Cardinality(Items) \in Nat /\ Cardinality(Items) = Cardinality(Request) * PackSize
<1>1. IsFiniteSet(1..PackSize) /\ Cardinality(1..PackSize) = PackSize
    BY RowsAssumption, FS_Interval
<1> QED BY <1>1, RequestsFew, FS_Product, FS_CardinalityType DEF Items

LEMMA WaitingMoves ==
    ASSUME ConfigsOK, NEW c \in Request, NEW x, TaskIs(c, x), NEW l
    PROVE  Waiting(l)' = {p \in Items : IF p[1] = c THEN x.at = "insert" /\ x.lang = l /\ p[2] <= x.more
                                        ELSE p \in Waiting(l)}
<1>1. \A d \in Request : task'[d] = IF d = c THEN x ELSE task[d]
    BY DEF TaskIs, ConfigsOK
<1>2. \A p \in Items : p[1] \in Request
    BY DEF Items
<1> QED BY <1>1, <1>2 DEF Waiting

LEMMA WaitingFew ==
    ASSUME NEW l
    PROVE  /\ IsFiniteSet(Waiting(l)) /\ Cardinality(Waiting(l)) \in Nat
           /\ Cardinality(Waiting(l)) <= Cardinality(Items)
BY ItemsFew, SmallerFew DEF Waiting

LEMMA WaitingFewAfter ==
    ASSUME NEW l
    PROVE  /\ IsFiniteSet(Waiting(l)') /\ Cardinality(Waiting(l)') \in Nat
           /\ Cardinality(Waiting(l)') <= Cardinality(Items)
<1>1. Waiting(l)' \subseteq Items
    BY DEF Waiting, Items
<1> QED BY <1>1, ItemsFew, SmallerFew

(* No copies, or none of the language in question, or one inserted of those waiting   *)
OneInserted(c, x, l) ==
    /\ task[c].at = "insert" /\ task[c].lang = l
    /\ x.at = "insert" => x.more = task[c].more - 1

LEMMA CopiesKept ==
    ASSUME ConfigsOK, CopiesInv, NEW c \in Request, NEW x, TaskIs(c, x), copies' \in [{"zh", "en"} -> Nat],
           \A l \in {"zh", "en"} :
              \/ copies'[l] = 0
              \/ copies'[l] <= copies[l] /\ ~(x.at = "insert" /\ x.lang = l)
              \/ copies'[l] = copies[l] + 1 /\ OneInserted(c, x, l)
    PROVE  CopiesInv'
<1> SUFFICES ASSUME NEW l \in {"zh", "en"}
             PROVE  copies'[l] + Cardinality(Waiting(l)') <= Cardinality(Items)
    BY DEF CopiesInv, Items
<1>1. /\ copies[l] \in Nat /\ copies'[l] \in Nat /\ Cardinality(Items) \in Nat
      /\ copies[l] + Cardinality(Waiting(l)) <= Cardinality(Items)
    BY ItemsFew DEF ConfigsOK, CopiesInv
<1>2. CASE copies'[l] = 0
    BY <1>1, <1>2, WaitingFewAfter
<1>3. CASE copies'[l] <= copies[l] /\ ~(x.at = "insert" /\ x.lang = l)
  <2>1. Waiting(l)' \subseteq Waiting(l)
    BY <1>3, WaitingMoves
  <2>2. Cardinality(Waiting(l)') \in Nat /\ Cardinality(Waiting(l)) \in Nat
        /\ Cardinality(Waiting(l)') <= Cardinality(Waiting(l))
    BY <2>1, WaitingFew, SmallerFew
  <2> QED BY <1>1, <1>3, <2>2
<1>4. CASE copies'[l] = copies[l] + 1 /\ OneInserted(c, x, l)
  <2> DEFINE last == <<c, task[c].more>>
  <2>1. PackSize \in Nat /\ task[c].more \in 1..PackSize
    BY <1>4, RowsAssumption DEF OneInserted, ConfigsOK, CallOK, Call
  <2>2. last \in Waiting(l)
    BY <1>4, <2>1 DEF OneInserted, Waiting, Items
  <2>3. ASSUME NEW p \in Waiting(l)' PROVE p \in Waiting(l) \ {last}
    <3>1. p \in Items /\ IF p[1] = c THEN x.at = "insert" /\ x.lang = l /\ p[2] <= x.more ELSE p \in Waiting(l)
      BY <2>3, WaitingMoves
    <3>2. CASE p[1] = c
      <4>1. p[2] \in 1..PackSize /\ p[2] <= task[c].more - 1
        BY <1>4, <3>1, <3>2 DEF OneInserted, Items
      <4> QED BY <1>4, <2>1, <3>1, <3>2, <4>1 DEF OneInserted, Waiting
    <3>3. CASE p[1] # c
      BY <3>1, <3>3
    <3> QED BY <3>2, <3>3
  <2> HIDE DEF last
  <2>4. Cardinality(Waiting(l)') \in Nat /\ Cardinality(Waiting(l)) \in Nat
        /\ Cardinality(Waiting(l)') <= Cardinality(Waiting(l)) - 1
    BY <2>2, <2>3, WaitingFew, OneLess
  <2> QED BY <1>1, <1>4, <2>4
<1> QED BY <1>2, <1>3, <1>4
-----------------------------------------------------------------------------
LEMMA HoldersMove ==
    ASSUME ConfigsOK, NEW c \in Request, NEW x, TaskIs(c, x)
    PROVE  /\ Markers' = IF Marks(x) THEN Markers \cup {c} ELSE Markers \ {c}
           /\ Keepers' = IF Keeps(x) THEN Keepers \cup {c} ELSE Keepers \ {c}
           /\ \A d \in Keepers' \ {c} : task'[d].row = task[d].row
           /\ task'[c] = x
BY DEF Markers, Keepers, TaskIs, ConfigsOK

LEMMA HoldersFew ==
    /\ IsFiniteSet(Markers) /\ IsFiniteSet(Marked) /\ Cardinality(Markers) \in Nat /\ Cardinality(Marked) \in Nat
    /\ IsFiniteSet(Keepers) /\ Keepers \cap Markers = {}
<1>1. IsFiniteSet(Markers) /\ IsFiniteSet(Keepers) /\ Cardinality(Markers) \in Nat
    BY RequestsFew, SmallerFew DEF Markers, Keepers
<1>2. IsFiniteSet(C!Defaults)
    BY AccountsAssumption, SmallerFew DEF C!Defaults, C!Rows
<1>3. IsFiniteSet({task[c].row : c \in Keepers})
  <2> DEFINE f == [c \in Keepers |-> task[c].row]
  <2>1. {task[c].row : c \in Keepers} = {f[c] : c \in Keepers}
    OBVIOUS
  <2> HIDE DEF f
  <2> QED BY <1>1, <2>1, ImageFew
<1>4. IsFiniteSet(Marked)
    BY <1>2, <1>3, FS_Union DEF Marked
<1>5. Keepers \cap Markers = {}
    BY DEF Keepers, Markers, Keeps, Marks
<1> QED BY <1>1, <1>4, <1>5, FS_CardinalityType

(* Nothing new is marked, and no call is added that is to mark.                   *)
LEMMA DefaultsKept ==
    ASSUME ConfigsOK, DefaultsInv, NEW c \in Request, NEW x, TaskIs(c, x),
           C!Defaults' \subseteq Marked, Marks(x) => Marks(task[c]), Keeps(x) => x.row \in C!Defaults
    PROVE  DefaultsInv'
<1>1. Markers' \subseteq Markers
    BY HoldersMove DEF Markers
<1>2. Marked' \subseteq Marked
  <2>1. \A d \in Keepers' : task'[d].row \in Marked
    BY HoldersMove DEF Marked
  <2> QED BY <2>1 DEF Marked
<1>3. /\ Cardinality(Markers') \in Nat /\ Cardinality(Markers') <= Cardinality(Markers)
      /\ Cardinality(Marked') \in Nat /\ Cardinality(Marked') <= Cardinality(Marked)
    BY <1>1, <1>2, HoldersFew, SmallerFew
<1> QED BY <1>3, HoldersFew, RequestsFew DEF DefaultsInv

(* A call marks a row.                                                       *)
LEMMA DefaultsMarked ==
    ASSUME ConfigsOK, DefaultsInv, NEW c \in Request, NEW x, TaskIs(c, x), NEW r,
           C!Defaults' \subseteq C!Defaults \cup {r}, Marks(task[c]), ~Marks(x), ~Keeps(x)
    PROVE  DefaultsInv'
<1>1. Markers' \subseteq Markers \ {c} /\ c \in Markers
    BY HoldersMove DEF Markers
<1>2. Marked' \subseteq Marked \cup {r}
  <2>1. \A d \in Keepers' : d \in Keepers /\ task'[d].row = task[d].row
    BY HoldersMove
  <2> QED BY <2>1 DEF Marked
<1>3. /\ Cardinality(Markers') \in Nat /\ Cardinality(Markers') <= Cardinality(Markers) - 1
      /\ Cardinality(Marked') \in Nat /\ Cardinality(Marked') <= Cardinality(Marked) + 1
    BY <1>1, <1>2, HoldersFew, OneMore, OneLess
<1> QED BY <1>3, HoldersFew, RequestsFew DEF DefaultsInv

(* All marks are cleared.                                                    *)
LEMMA DefaultsCleared ==
    ASSUME C!Defaults' = {}
    PROVE  DefaultsInv'
<1>1. Keepers' \in SUBSET Request /\ Markers' \in SUBSET Request /\ Keepers' \cap Markers' = {}
    BY DEF Keepers, Markers, Keeps, Marks
<1>2. /\ IsFiniteSet(Keepers') /\ Cardinality(Keepers') \in Nat /\ Cardinality(Markers') \in Nat
      /\ Cardinality(Keepers') + Cardinality(Markers') <= Cardinality(Request)
    BY <1>1, RequestsFew, ApartFew
<1>3. IsFiniteSet(Marked') /\ Cardinality(Marked') <= Cardinality(Keepers')
  <2> DEFINE f == [c \in Keepers' |-> task'[c].row]
  <2>1. Marked' = {f[c] : c \in Keepers'}
    BY DEF Marked
  <2> HIDE DEF f
  <2> QED BY <1>2, <2>1, ImageFew
<1> QED BY <1>2, <1>3, RequestsFew, FS_CardinalityType DEF DefaultsInv
-----------------------------------------------------------------------------
(* The steps, one call at a time.                                              *)
LEMMA NoTaskOK ==
    /\ CallOK(C!NoTask) /\ ~Marks(C!NoTask) /\ ~Keeps(C!NoTask)
    /\ C!NoTask \in Call /\ C!NoTask.at = "idle" /\ C!NoTask.op = "none" /\ ~C!NoTask.default
BY RowsAssumption DEF C!NoTask, C!NoConfig, CallOK, Call, Config, Marks, Keeps

(* A step that is about a proxy leaves the scripts, and the other way round.       *)
LEMMA ScriptsRest ==
    ASSUME ConfigsInv, NEW c \in Request, NEW x, TaskIs(c, x), UNCHANGED copies, x.at # "insert"
    PROVE  CopiesInv'
<1>1. copies' \in [{"zh", "en"} -> Nat] /\ \A l \in {"zh", "en"} : copies'[l] <= copies[l]
    BY DEF ConfigsInv, ConfigsOK
<1> QED BY <1>1, CopiesKept DEF ConfigsInv

LEMMA ProxiesRest ==
    ASSUME ConfigsInv, NEW c \in Request, NEW x, TaskIs(c, x), UNCHANGED vpn, ~Marks(x), ~Keeps(x)
    PROVE  DefaultsInv'
<1>1. C!Defaults' \subseteq Marked
    BY DEF Marked, C!Defaults, C!Rows
<1> QED BY <1>1, DefaultsKept DEF ConfigsInv

LEMMA Asked ==
    ASSUME ConfigsInv, NEW c \in Request,
           \/ \E v \in Id, default \in BOOLEAN :
                \E op \in {"create", "update", "setDefault", "delete", "connect", "disconnect"} :
                   C!AsksVpn(c, op, v, default)
           \/ \E l \in {"zh", "en"}, op \in {"list", "import", "clear", "reset"} : C!AsksScripts(c, op, l)
    PROVE  ConfigsInv'
<1>1. PICK x : TaskIs(c, x) /\ ~Marks(x) /\ ~Keeps(x) /\ x.at # "insert" /\ UNCHANGED <<vpn, copies>>
  <2>1. ASSUME NEW v \in Id, NEW default \in BOOLEAN,
               NEW op \in {"create", "update", "setDefault", "delete", "connect", "disconnect"},
               C!AsksVpn(c, op, v, default)
        PROVE  \E x : TaskIs(c, x) /\ ~Marks(x) /\ ~Keeps(x) /\ x.at # "insert" /\ UNCHANGED <<vpn, copies>>
    <3> DEFINE at == IF op = "setDefault" \/ (op = "create" /\ default) THEN "clear"
                     ELSE IF op = "create" THEN "write" ELSE "find"
               x == [C!NoTask EXCEPT !.op = op, !.row = v, !.default = default, !.at = at]
    <3>1. task' = [task EXCEPT ![c] = x] /\ UNCHANGED <<vpn, copies>>
      BY <2>1 DEF C!AsksVpn
    <3>2. (op = "setDefault" => default) /\ (at = "clear" => default) /\ at \in {"clear", "write", "find"}
      BY <2>1 DEF C!AsksVpn
    <3>3. op = "setDefault" => at = "clear"
      OBVIOUS
    <3>4. (at = "write" => op = "create" /\ ~default) /\ (op = "create" => at \in {"clear", "write"})
      OBVIOUS
    <3> HIDE DEF at
    <3>7. x \in Call /\ x.op = op /\ x.at = at /\ x.row = v /\ x.default = default
      BY <3>2, NoTaskOK DEF Call
    <3> HIDE DEF x
    <3>5. CallOK(x)
      BY <3>2, <3>4, <3>7 DEF CallOK
    <3>6. ~Marks(x) /\ ~Keeps(x) /\ x.at # "insert"
      BY <3>2, <3>3, <3>4, <3>7 DEF Marks, Keeps
    <3> QED BY <3>1, <3>5, <3>6 DEF TaskIs
  <2>2. ASSUME NEW l \in {"zh", "en"}, NEW op \in {"list", "import", "clear", "reset"}, C!AsksScripts(c, op, l)
        PROVE  \E x : TaskIs(c, x) /\ ~Marks(x) /\ ~Keeps(x) /\ x.at # "insert" /\ UNCHANGED <<vpn, copies>>
    <3> DEFINE x == [C!NoTask EXCEPT !.op = op, !.lang = l, !.at = "read"]
    <3>1. task' = [task EXCEPT ![c] = x] /\ UNCHANGED <<vpn, copies>>
      BY <2>2 DEF C!AsksScripts
    <3>4. x \in Call /\ x.op = op /\ x.at = "read"
      BY NoTaskOK DEF Call
    <3> HIDE DEF x
    <3>2. CallOK(x)
      BY <3>4 DEF CallOK
    <3>3. ~Marks(x) /\ ~Keeps(x) /\ x.at # "insert"
      BY <3>4 DEF Marks, Keeps
    <3> QED BY <3>1, <3>2, <3>3 DEF TaskIs
  <2> QED BY <2>1, <2>2
<1>2. ConfigsOK'
    BY <1>1, TypesKept DEF ConfigsInv, ConfigsOK
<1> QED BY <1>1, <1>2, ScriptsRest, ProxiesRest DEF ConfigsInv

LEMMA TaskFacts ==
    ASSUME ConfigsInv, NEW c \in Request
    PROVE  /\ CallOK(task[c]) /\ task[c] \in Call
           /\ vpn \in [Id -> Config] /\ copies \in [{"zh", "en"} -> Nat] /\ task[c].lang \in {"zh", "en"}
           /\ task[c].at \in {"clear", "find", "write"} => task[c].row \in Id
BY DEF ConfigsInv, ConfigsOK, CallOK, Call

(* A call moves on: nothing but its place changes.                              *)
LEMMA PlaceMoves ==
    ASSUME ConfigsInv, NEW c \in Request, NEW at \in {"find", "write"}, C!Step(c, at),
           task[c].row \in Id, at = "find" => task[c].op = "setDefault"
    PROVE  \E x : /\ TaskIs(c, x) /\ x.at = at /\ x.op = task[c].op /\ x.row = task[c].row /\ x.lang = task[c].lang
                  /\ x.default = task[c].default /\ x.copy = task[c].copy
<1> DEFINE x == [task[c] EXCEPT !.at = at]
<1>1. task' = [task EXCEPT ![c] = x]
    BY DEF C!Step
<1>2. x \in Call /\ x.at = at /\ x.op = task[c].op /\ x.row = task[c].row /\ x.lang = task[c].lang
      /\ x.default = task[c].default /\ x.copy = task[c].copy
    BY TaskFacts DEF Call
<1> HIDE DEF x
<1>3. CallOK(x)
    BY <1>2 DEF CallOK
<1> QED BY <1>1, <1>2, <1>3 DEF TaskIs

LEMMA Returns == ASSUME NEW c \in Request, C!Return(c) PROVE TaskIs(c, C!NoTask)
BY NoTaskOK DEF C!Return, TaskIs

(* A call is to insert the number so often.                                     *)
LEMMA InsertMoves ==
    ASSUME ConfigsInv, NEW c \in Request, NEW n \in 1..PackSize, C!Inserts(c, n),
           task[c].op \in {"list", "import", "reset"}
    PROVE  \E x : TaskIs(c, x) /\ x.at = "insert" /\ x.op = task[c].op /\ x.lang = task[c].lang /\ x.more = n
<1> DEFINE x == [task[c] EXCEPT !.at = "insert", !.more = n]
<1>1. task' = [task EXCEPT ![c] = x]
    BY DEF C!Inserts
<1>2. n \in 0..PackSize /\ n # 0
    BY RowsAssumption
<1>3. x \in Call /\ x.at = "insert" /\ x.op = task[c].op /\ x.lang = task[c].lang /\ x.more = n
    BY <1>2, TaskFacts DEF Call
<1> HIDE DEF x
<1>4. CallOK(x)
    BY <1>2, <1>3 DEF CallOK
<1> QED BY <1>1, <1>3, <1>4 DEF TaskIs

LEMMA Found ==
    ASSUME ConfigsInv, NEW c \in Request, C!FindsVpn(c)
    PROVE  ConfigsInv'
<1>0. task[c].at = "find" /\ UNCHANGED <<vpn, copies>> /\ task[c].row \in Id /\ vpn[task[c].row] \in Config
      /\ task[c] \in Call
    BY TaskFacts DEF C!FindsVpn
<1>1. CASE vpn[task[c].row].state # "row"
  <2>1. TaskIs(c, C!NoTask)
    BY <1>1, Returns DEF C!FindsVpn
  <2> QED BY <1>0, <2>1, NoTaskOK, TypesKept, TaskFacts, ScriptsRest, ProxiesRest DEF ConfigsInv
<1>2. CASE vpn[task[c].row].state = "row"
  <2> DEFINE at == IF task[c].op = "update" /\ task[c].default THEN "clear" ELSE "write"
             x == [task[c] EXCEPT !.copy = vpn[task[c].row], !.at = at]
  <2>1. task' = [task EXCEPT ![c] = x]
    BY <1>2 DEF C!FindsVpn
  <2>2. /\ at \in {"clear", "write"} /\ (at = "clear" => task[c].default)
        /\ (at = "write" => ~(task[c].op = "update" /\ task[c].default))
    OBVIOUS
  <2> HIDE DEF at
  <2>3. x \in Call /\ x.at = at /\ x.op = task[c].op /\ x.row = task[c].row /\ x.lang = task[c].lang
        /\ x.default = task[c].default /\ x.copy = vpn[task[c].row]
    BY <1>0, <2>2 DEF Call
  <2> HIDE DEF x
  <2>4. CallOK(x)
    BY <1>0, <2>2, <2>3 DEF CallOK
  <2>5. TaskIs(c, x)
    BY <2>1, <2>4 DEF TaskIs
  <2>6. ConfigsOK' /\ CopiesInv'
    BY <1>0, <2>2, <2>3, <2>5, TypesKept, TaskFacts, ScriptsRest DEF ConfigsInv
  <2>7. task[c].op # "create" => (Marks(x) => Marks(task[c]))
    BY <1>0, <2>2, <2>3 DEF Marks
  <2>8. Keeps(x) => x.row \in C!Defaults
    BY <1>0, <1>2, <2>3 DEF Keeps, C!Defaults, C!Rows
  <2>9. task[c].op # "create"
    BY <1>0, TaskFacts DEF CallOK
  <2>10. C!Defaults' \subseteq Marked
    BY <1>0 DEF Marked, C!Defaults, C!Rows
  <2> QED BY <2>5, <2>6, <2>7, <2>8, <2>9, <2>10, DefaultsKept DEF ConfigsInv
<1> QED BY <1>1, <1>2

LEMMA Cleared ==
    ASSUME ConfigsInv, NEW c \in Request, C!ClearsDefaults(c)
    PROVE  ConfigsInv'
<1> DEFINE at == IF task[c].op = "setDefault" THEN "find" ELSE "write"
<1>0. /\ vpn' = [v \in Id |-> [vpn[v] EXCEPT !.default = FALSE]] /\ UNCHANGED copies /\ C!Step(c, at)
      /\ task[c].row \in Id /\ vpn \in [Id -> Config] /\ at \in {"find", "write"}
      /\ (at = "find" => task[c].op = "setDefault")
    BY TaskFacts DEF C!ClearsDefaults, C!Clears
<1> HIDE DEF at
<1>1. \A v \in Id : [vpn[v] EXCEPT !.default = FALSE] \in Config /\ ~[vpn[v] EXCEPT !.default = FALSE].default
    BY <1>0 DEF Config
<1>2. vpn' \in [Id -> Config] /\ C!Defaults' = {}
    BY <1>0, <1>1 DEF C!Defaults, C!Rows
<1>3. PICK x : TaskIs(c, x) /\ x.at = at
    BY <1>0, PlaceMoves
<1> QED BY <1>0, <1>2, <1>3, TypesKept, TaskFacts, ScriptsRest, DefaultsCleared DEF ConfigsInv

LEMMA Written ==
    ASSUME ConfigsInv, NEW c \in Request,
           C!CreatesVpn(c) \/ C!SavesVpn(c) \/ C!RemovesVpn(c) \/ C!ConnectsVpn(c)
    PROVE  ConfigsInv'
<1>0. /\ task[c].at = "write" /\ UNCHANGED copies /\ TaskIs(c, C!NoTask) /\ task[c].row \in Id
      /\ vpn \in [Id -> Config] /\ task[c] \in Call /\ vpn[task[c].row] \in Config
    BY Returns, TaskFacts DEF C!CreatesVpn, C!SavesVpn, C!RemovesVpn, C!ConnectsVpn, C!On
<1>1. PICK w \in Config : /\ vpn' = [vpn EXCEPT ![task[c].row] = w]
                          /\ w.state = "row" /\ w.default =>
                               Marks(task[c]) \/ Keeps(task[c]) \/ (vpn[task[c].row].state = "row" /\ vpn[task[c].row].default)
  <2>1. CASE C!CreatesVpn(c)
    <3>1. PICK complete \in BOOLEAN :
             vpn' = [vpn EXCEPT ![task[c].row] = [state |-> "row", default |-> task[c].default, active |-> complete]]
      BY <2>1 DEF C!CreatesVpn
    <3>2. task[c].op = "create" /\ [state |-> "row", default |-> task[c].default, active |-> complete] \in Config
      BY <1>0, <2>1 DEF C!CreatesVpn, C!On, Config, Call
    <3> QED BY <1>0, <3>1, <3>2 DEF Marks
  <2>2. CASE C!SavesVpn(c)
    <3>1. PICK mark \in (IF task[c].default THEN {TRUE} ELSE {FALSE, task[c].copy.default}),
               active_ \in (IF task[c].op = "update" THEN {TRUE, task[c].copy.active} ELSE {task[c].copy.active}) :
             vpn' = [vpn EXCEPT ![task[c].row] = [state |-> "row", default |-> mark, active |-> active_]]
      BY <2>2 DEF C!SavesVpn
    <3>2. task[c].op \in {"update", "setDefault"} /\ [state |-> "row", default |-> mark, active |-> active_] \in Config
          /\ task[c].copy \in Config
      BY <1>0, <2>2 DEF C!SavesVpn, Config, Call
    <3>3. mark => Marks(task[c]) \/ Keeps(task[c])
      BY <1>0, <3>2 DEF Marks, Keeps, Call
    <3> QED BY <3>1, <3>2, <3>3
  <2>3. CASE C!RemovesVpn(c)
    <3>1. vpn' = [vpn EXCEPT ![task[c].row] = C!NoConfig]
      BY <2>3 DEF C!RemovesVpn
    <3>2. C!NoConfig \in Config /\ ~C!NoConfig.default
      BY DEF C!NoConfig, Config
    <3> QED BY <3>1, <3>2
  <2>4. CASE C!ConnectsVpn(c)
    <3>1. CASE vpn[task[c].row].state = "row"
      <4> DEFINE w == [vpn[task[c].row] EXCEPT !.active = (task[c].op = "connect")]
      <4>1. vpn' = [vpn EXCEPT ![task[c].row] = w]
        BY <1>0, <2>4, <3>1 DEF C!ConnectsVpn
      <4>2. w \in Config /\ w.default = vpn[task[c].row].default
        BY <1>0 DEF Config
      <4> QED BY <3>1, <4>1, <4>2
    <3>2. CASE vpn[task[c].row].state # "row"
      <4>1. vpn' = [vpn EXCEPT ![task[c].row] = vpn[task[c].row]]
        BY <1>0, <2>4, <3>2 DEF C!ConnectsVpn
      <4> QED BY <1>0, <4>1
    <3> QED BY <3>1, <3>2
  <2> QED BY <2>1, <2>2, <2>3, <2>4
<1>2. vpn' \in [Id -> Config]
    BY <1>0, <1>1
<1>3. ConfigsOK' /\ CopiesInv'
    BY <1>0, <1>2, TypesKept, TaskFacts, ScriptsRest, NoTaskOK DEF ConfigsInv
<1>4. C!Defaults' \subseteq C!Defaults \cup {task[c].row}
    BY <1>0, <1>1 DEF C!Defaults, C!Rows
<1>5. CASE Marks(task[c])
    BY <1>0, <1>3, <1>4, <1>5, NoTaskOK, DefaultsMarked DEF ConfigsInv
<1>6. CASE ~Marks(task[c])
  <2>1. task[c].row \in C!Defaults' => task[c].row \in Marked
    BY <1>0, <1>1, <1>6 DEF Marked, Keepers, C!Defaults, C!Rows
  <2>2. C!Defaults' \subseteq Marked
    BY <1>4, <2>1 DEF Marked
  <2> QED BY <1>0, <1>3, <2>2, NoTaskOK, DefaultsKept DEF ConfigsInv
<1> QED BY <1>5, <1>6

LEMMA ScriptSteps ==
    ASSUME ConfigsInv, NEW c \in Request, C!ReadsScripts(c) \/ C!DeletesScripts(c) \/ C!InsertsScripts(c)
    PROVE  ConfigsInv'
<1>0. /\ UNCHANGED vpn /\ task[c].lang \in {"zh", "en"} /\ copies \in [{"zh", "en"} -> Nat]
      /\ vpn \in [Id -> Config] /\ CallOK(task[c])
    BY TaskFacts DEF C!ReadsScripts, C!DeletesScripts, C!InsertsScripts
<1> DEFINE Left(x, l) ==
             \/ copies'[l] = 0
             \/ copies'[l] <= copies[l] /\ ~(x.at = "insert" /\ x.lang = l)
             \/ copies'[l] = copies[l] + 1 /\ OneInserted(c, x, l)
           Good(x) == /\ TaskIs(c, x) /\ x.at \in {"insert", "idle"} /\ copies' \in [{"zh", "en"} -> Nat]
                      /\ \A l \in {"zh", "en"} : Left(x, l)
<1>1. \E x : Good(x)
  <2>1. CASE C!Return(c)
    <3>1. TaskIs(c, C!NoTask) /\ C!NoTask.at = "idle"
      BY <2>1, Returns, NoTaskOK
    <3>2. copies' \in [{"zh", "en"} -> Nat] /\ \A l \in {"zh", "en"} : Left(C!NoTask, l)
      <4>1. CASE C!ReadsScripts(c)
        BY <1>0, <3>1, <4>1 DEF C!ReadsScripts
      <4>2. CASE C!DeletesScripts(c)
        BY <1>0, <3>1, <4>2 DEF C!DeletesScripts
      <4>3. CASE C!InsertsScripts(c)
        BY <1>0, <3>1, <4>3 DEF C!InsertsScripts, OneInserted
      <4> QED BY <4>1, <4>2, <4>3
    <3> QED BY <3>1, <3>2
  <2>2. ASSUME NEW n \in 1..(IF task[c].op = "import" THEN PackSize ELSE 1),
               C!ReadsScripts(c), C!Missing(c), C!Inserts(c, n)
        PROVE  \E x : Good(x)
    <3>1. n \in 1..PackSize
      BY RowsAssumption
    <3>2. PICK x : TaskIs(c, x) /\ x.at = "insert" /\ x.lang = task[c].lang
      BY <2>2, <3>1, InsertMoves DEF C!ReadsScripts
    <3> QED BY <1>0, <2>2, <3>2 DEF C!ReadsScripts, C!Missing
  <2>3. CASE C!DeletesScripts(c) /\ task[c].op = "reset" /\ C!Inserts(c, 1)
    <3>1. 1 \in 1..PackSize
      BY RowsAssumption
    <3>2. PICK x : TaskIs(c, x) /\ x.at = "insert" /\ x.lang = task[c].lang
      BY <2>3, <3>1, InsertMoves
    <3> QED BY <1>0, <2>3, <3>2 DEF C!DeletesScripts
  <2>4. CASE C!InsertsScripts(c) /\ task[c].more > 1 /\ task' = [task EXCEPT ![c].more = @ - 1]
    <3> DEFINE n == task[c].more - 1
               x == [task[c] EXCEPT !.more = n]
    <3>1. task[c] \in Call /\ n \in 0..PackSize /\ n # 0 /\ task[c].at = "insert"
      BY <1>0, <2>4, RowsAssumption DEF C!InsertsScripts, CallOK, Call
    <3>2. task' = [task EXCEPT ![c] = x]
      BY <2>4
    <3>3. x \in Call /\ x.at = "insert" /\ x.op = task[c].op /\ x.lang = task[c].lang /\ x.more = n
      BY <3>1 DEF Call
    <3> HIDE DEF x
    <3>4. TaskIs(c, x)
      BY <1>0, <3>1, <3>2, <3>3 DEF CallOK, TaskIs
    <3>5. \A l \in {"zh", "en"} : copies'[l] = IF l = task[c].lang THEN copies[l] + 1 ELSE copies[l]
      BY <1>0, <2>4 DEF C!InsertsScripts
    <3>6. \A l \in {"zh", "en"} : Left(x, l)
      BY <1>0, <3>1, <3>3, <3>5 DEF OneInserted
    <3> QED BY <1>0, <2>4, <3>3, <3>4, <3>6 DEF C!InsertsScripts
  <2> QED BY <2>1, <2>2, <2>3, <2>4 DEF C!ReadsScripts, C!DeletesScripts, C!InsertsScripts
<1>2. PICK x : Good(x)
    BY <1>1
<1>3. ~Marks(x) /\ ~Keeps(x)
    BY <1>2 DEF Marks, Keeps
<1> QED BY <1>0, <1>2, <1>3, TypesKept, CopiesKept, ProxiesRest DEF ConfigsInv

LEMMA CrashStep ==
    ASSUME ConfigsInv, C!ConfigCrash
    PROVE  ConfigsInv'
<1>1. task' = [c \in Request |-> C!NoTask] /\ UNCHANGED <<vpn, copies>>
    BY DEF C!ConfigCrash
<1>2. ConfigsOK'
    BY <1>1, NoTaskOK DEF ConfigsInv, ConfigsOK, CallOK
<1>3. CopiesInv'
  <2> SUFFICES ASSUME NEW l \in {"zh", "en"}
               PROVE  copies'[l] + Cardinality(Waiting(l)') <= Cardinality(Items)
    BY DEF CopiesInv
  <2>1. Waiting(l)' = {}
    BY <1>1, NoTaskOK DEF Waiting, Items
  <2>2. Cardinality(Waiting(l)') = 0
    BY <2>1, FS_EmptySet
  <2>3. copies[l] \in Nat /\ copies[l] + Cardinality(Waiting(l)) <= Cardinality(Items)
    BY DEF ConfigsInv, ConfigsOK, CopiesInv
  <2> QED BY <1>1, <2>2, <2>3, WaitingFew, ItemsFew
<1>4. DefaultsInv'
  <2>1. Markers' = {} /\ Keepers' = {}
    BY <1>1, NoTaskOK DEF Markers, Keepers
  <2>2. Cardinality(Markers') = 0
    BY <2>1, FS_EmptySet
  <2>3. Marked' \subseteq Marked
    BY <1>1, <2>1 DEF Marked, C!Defaults, C!Rows
  <2>4. Cardinality(Marked') \in Nat /\ Cardinality(Marked') <= Cardinality(Marked)
    BY <2>3, HoldersFew, SmallerFew
  <2> QED BY <2>2, <2>4, HoldersFew, RequestsFew DEF ConfigsInv, DefaultsInv
<1> QED BY <1>2, <1>3, <1>4 DEF ConfigsInv

LEMMA ConfigsStep ==
    ASSUME ConfigsInv, C!VpnNext \/ C!ScriptNext \/ C!ConfigCrash
    PROVE  ConfigsInv'
<1>1. CASE C!VpnNext
    BY <1>1, Asked, Found, Cleared, Written DEF C!VpnNext
<1>2. CASE C!ScriptNext
    BY <1>2, Asked, ScriptSteps DEF C!ScriptNext
<1> QED BY <1>1, <1>2, CrashStep

LEMMA ConfigsStart == ASSUME RowsInit PROVE ConfigsInv
<1>1. /\ task = [c \in Request |-> C!NoTask] /\ copies = [l \in {"zh", "en"} |-> 0]
      /\ \/ vpn = [v \in Id |-> C!NoConfig]
         \/ \E v \in Id : vpn = [w \in Id |-> IF w = v THEN [state |-> "row", default |-> TRUE, active |-> TRUE]
                                              ELSE C!NoConfig]
    BY DEF RowsInit, C!Init
<1>2. PICK v : vpn \in [Id -> Config] /\ C!Defaults \subseteq {v}
  <2>1. CASE vpn = [v \in Id |-> C!NoConfig]
    <3>1. vpn \in [Id -> Config] /\ C!Defaults \subseteq {NoVpn}
      BY <2>1 DEF C!NoConfig, Config, C!Defaults, C!Rows
    <3> QED BY <3>1
  <2>2. ASSUME NEW v \in Id, vpn = [w \in Id |-> IF w = v THEN [state |-> "row", default |-> TRUE, active |-> TRUE]
                                                ELSE C!NoConfig]
        PROVE  \E w : vpn \in [Id -> Config] /\ C!Defaults \subseteq {w}
    <3>1. vpn \in [Id -> Config] /\ C!Defaults \subseteq {v}
      BY <2>2 DEF C!NoConfig, Config, C!Defaults, C!Rows
    <3> QED BY <3>1
  <2> QED BY <1>1, <2>1, <2>2
<1>3. ConfigsOK
    BY <1>1, <1>2, NoTaskOK DEF ConfigsOK, CallOK
<1>4. CopiesInv
  <2> SUFFICES ASSUME NEW l \in {"zh", "en"}
               PROVE  copies[l] + Cardinality(Waiting(l)) <= Cardinality(Items)
    BY DEF CopiesInv
  <2> QED BY <1>1, WaitingFew, ItemsFew
<1>5. DefaultsInv
  <2>1. Markers = {} /\ Keepers = {}
    BY <1>1, NoTaskOK DEF Markers, Keepers
  <2>2. Cardinality(Markers) = 0
    BY <2>1, FS_EmptySet
  <2>3. Marked \subseteq {} \cup {v}
    BY <1>2, <2>1 DEF Marked
  <2>4. Cardinality(Marked) \in Nat /\ Cardinality(Marked) <= 1
    <3>1. IsFiniteSet({}) /\ Cardinality({}) = 0
      BY FS_EmptySet
    <3>2. Cardinality(Marked) \in Nat /\ Cardinality(Marked) <= Cardinality({}) + 1
      BY <2>3, <3>1, OneMore
    <3> QED BY <3>1, <3>2
  <2> QED BY <2>2, <2>4, RequestsFew DEF DefaultsInv
<1> QED BY <1>3, <1>4, <1>5 DEF ConfigsInv
-----------------------------------------------------------------------------
(* Alerts                                                                   *)
CheckIs(k, x) == CheckOK(x) /\ check' = [check EXCEPT ![k] = x]

LEMMA CheckTypes ==
    ASSUME ChecksOK, NEW k \in Request, NEW x, CheckIs(k, x), active' \subseteq AlertName, status' \in {"active", "error"}
    PROVE  ChecksOK' /\ \A j \in Request : check'[j] = IF j = k THEN x ELSE check[j]
<1>1. check' \in [Request -> CheckState] /\ \A j \in Request : check'[j] = IF j = k THEN x ELSE check[j]
    BY DEF ChecksOK, CheckIs, CheckOK
<1>2. \A j \in Request : CheckOK(check'[j])
    BY <1>1 DEF ChecksOK, CheckIs
<1> QED BY <1>1, <1>2 DEF ChecksOK, CheckOK

LEMMA AlertNames == IsFiniteSet(AlertName) /\ Cardinality(AlertName) = 2 * Cardinality(Request)
BY RequestsFew, FS_Interval DEF AlertName

LEMMA AlertsFinite ==
    ASSUME ChecksOK
    PROVE  /\ H!Held \subseteq AlertName
           /\ IsFiniteSet(active \cup H!Held) /\ Cardinality(active \cup H!Held) \in Nat
           /\ IsFiniteSet(Inserting) /\ Cardinality(Inserting) \in Nat
<1>1. H!Held \subseteq AlertName
    BY DEF ChecksOK, H!Held, CheckState
<1>2. IsFiniteSet(active \cup H!Held) /\ Cardinality(active \cup H!Held) \in Nat
    BY <1>1, AlertNames, SmallerFew DEF ChecksOK
<1> QED BY <1>1, <1>2, RequestsFew, SmallerFew DEF Inserting

(* Nothing is named that was not, and no check is added that is to insert.          *)
LEMMA AlertsKept ==
    ASSUME ChecksOK, AlertsInv, active' \subseteq active \cup H!Held, H!Held' \subseteq active \cup H!Held,
           Inserting' \subseteq Inserting
    PROVE  AlertsInv'
<1>1. Cardinality((active \cup H!Held)') <= Cardinality(active \cup H!Held)
      /\ Cardinality((active \cup H!Held)') \in Nat
  <2>1. (active \cup H!Held)' \subseteq active \cup H!Held
    OBVIOUS
  <2> QED BY <2>1, AlertsFinite, SmallerFew
<1>2. Cardinality(Inserting') <= Cardinality(Inserting) /\ Cardinality(Inserting') \in Nat
    BY AlertsFinite, SmallerFew
<1> QED BY <1>1, <1>2, AlertsFinite, RequestsFew DEF AlertsInv

(* A step of one check that inserts nothing and names nothing new                *)
LEMMA CheckMoves ==
    ASSUME ChecksOK, AlertsInv, NEW k \in Request, NEW x, CheckIs(k, x), active' \subseteq active \cup H!Held,
           status' \in {"active", "error"}, ~Adds(x), x.alert \subseteq active
    PROVE  ChecksOK' /\ AlertsInv'
<1>1. active' \subseteq AlertName
    BY AlertsFinite DEF ChecksOK
<1>2. ChecksOK' /\ \A j \in Request : check'[j] = IF j = k THEN x ELSE check[j]
    BY <1>1, CheckTypes
<1>3. H!Held' \subseteq active \cup H!Held
    BY <1>2 DEF H!Held
<1>4. Inserting' \subseteq Inserting
    BY <1>2 DEF Inserting
<1> QED BY <1>2, <1>3, <1>4, AlertsKept

LEMMA NoCheckOK == CheckOK(H!NoCheck) /\ ~Adds(H!NoCheck) /\ H!NoCheck.alert = {} /\ H!NoCheck.pc = "idle"
BY DEF H!NoCheck, CheckOK, CheckState, Adds

(* A check looks while no alert is active.                                     *)
LEMMA NoneFound ==
    ASSUME ChecksOK, AlertsInv, NEW k \in Request, NEW x, CheckIs(k, x), active = {}, UNCHANGED <<active, status>>
    PROVE  ChecksOK' /\ AlertsInv'
<1>1. ChecksOK'
    BY CheckTypes DEF ChecksOK
<1>2. Finders' \in SUBSET Request /\ Inserting' \in SUBSET Request /\ Finders' \cap Inserting' = {}
    BY DEF Finders, Inserting, Renews, Adds
<1>3. /\ IsFiniteSet(Finders') /\ Cardinality(Finders') \in Nat /\ Cardinality(Inserting') \in Nat
      /\ Cardinality(Finders') + Cardinality(Inserting') <= Cardinality(Request)
    BY <1>2, RequestsFew, ApartFew
<1> DEFINE f == [j \in Finders' |-> CHOOSE a : a \in check'[j].alert]
           T == {f[j] : j \in Finders'}
<1>4. (active \cup H!Held)' \subseteq T
  <2> SUFFICES ASSUME NEW j \in Request, NEW a \in check'[j].alert PROVE a \in T
    BY DEF H!Held
  <2>1. CheckOK(check'[j])
    BY <1>1 DEF ChecksOK, CheckOK
  <2>2. Renews(check'[j])
    BY <2>1 DEF CheckOK
  <2>3. check'[j].alert = {a}
    BY <2>2 DEF Renews
  <2>4. j \in Finders'
    BY <2>2 DEF Finders
  <2>5. f[j] = a
    BY <2>3, <2>4
  <2> QED BY <2>4, <2>5
<1> HIDE DEF f
<1>5. IsFiniteSet(T) /\ Cardinality(T) <= Cardinality(Finders')
    BY <1>3, ImageFew
<1>6. Cardinality((active \cup H!Held)') \in Nat /\ Cardinality(T) \in Nat
      /\ Cardinality((active \cup H!Held)') <= Cardinality(T)
    BY <1>4, <1>5, SmallerFew
<1> QED BY <1>1, <1>3, <1>5, <1>6, RequestsFew DEF AlertsInv

(* A check that found no alert inserts one, of a name that is free.               *)
LEMMA AlertInserted ==
    ASSUME ChecksOK, AlertsInv, NEW k \in Request, H!SavesAlert(k), check[k].alert = {}
    PROVE  ChecksOK' /\ AlertsInv'
<1>1. Adds(check[k]) /\ CheckIs(k, H!NoCheck) /\ status' = status /\ k \in Inserting
    BY NoCheckOK DEF H!SavesAlert, Adds, CheckIs, Inserting
<1>2. Cardinality(active \cup H!Held) < 2 * Cardinality(Request)
  <2>1. Inserting \ {k} \subseteq Inserting \ {k}
    OBVIOUS
  <2>2. Cardinality(Inserting) >= 1
    BY <1>1, <2>1, AlertsFinite, OneLess
  <2> QED BY <2>2, AlertsFinite, RequestsFew DEF AlertsInv
<1>3. ~(AlertName \subseteq active \cup H!Held)
  <2> SUFFICES ASSUME AlertName \subseteq active \cup H!Held PROVE FALSE
    OBVIOUS
  <2>1. Cardinality(AlertName) <= Cardinality(active \cup H!Held)
    BY AlertsFinite, SmallerFew
  <2> QED BY <1>2, <2>1, AlertNames, AlertsFinite, RequestsFew
<1>4. PICK a \in AlertName : active' = active \cup {a}
  <2>1. active' = active \cup {CHOOSE b \in AlertName : b \notin active \cup H!Held}
    BY DEF H!SavesAlert, AlertName, H!Cardinality, Cardinality
  <2> QED BY <1>3, <2>1
<1>5. ChecksOK' /\ \A j \in Request : check'[j] = IF j = k THEN H!NoCheck ELSE check[j]
    BY <1>1, <1>4, CheckTypes DEF ChecksOK
<1>6. (active \cup H!Held)' \subseteq (active \cup H!Held) \cup {a}
    BY <1>4, <1>5, NoCheckOK DEF H!Held
<1>7. Inserting' \subseteq Inserting \ {k}
    BY <1>5, NoCheckOK DEF Inserting
<1>8. /\ Cardinality((active \cup H!Held)') \in Nat
      /\ Cardinality((active \cup H!Held)') <= Cardinality(active \cup H!Held) + 1
      /\ Cardinality(Inserting') \in Nat /\ Cardinality(Inserting') <= Cardinality(Inserting) - 1
    BY <1>1, <1>6, <1>7, AlertsFinite, OneMore, OneLess
<1> QED BY <1>5, <1>8, AlertsFinite, RequestsFew DEF AlertsInv

LEMMA AlertsStep ==
    ASSUME ChecksOK, AlertsInv, H!Next
    PROVE  ChecksOK' /\ AlertsInv'
<1>0. /\ check \in [Request -> CheckState] /\ \A k \in Request : CheckOK(check[k]) /\ check[k] \in CheckState
      /\ status \in {"active", "error"} /\ active \subseteq AlertName
    BY DEF ChecksOK
<1>1. ASSUME NEW k \in Request, H!CheckStarts(k) PROVE ChecksOK' /\ AlertsInv'
  <2> DEFINE x == [check[k] EXCEPT !.pc = "measure", !.status = status]
  <2>1. x \in CheckState /\ x.pc = "measure" /\ x.alert = check[k].alert
    BY <1>0 DEF CheckState
  <2>2. check[k].alert = {}
    BY <1>0, <1>1 DEF H!CheckStarts, CheckOK, Renews
  <2>3. check' = [check EXCEPT ![k] = x] /\ UNCHANGED <<active, status>>
    BY <1>1 DEF H!CheckStarts
  <2> HIDE DEF x
  <2>4. CheckIs(k, x) /\ ~Adds(x)
    BY <2>1, <2>2, <2>3 DEF CheckIs, CheckOK, Adds
  <2> QED BY <1>0, <2>1, <2>2, <2>3, <2>4, CheckMoves
<1>2. ASSUME NEW k \in Request, H!Measures(k) PROVE ChecksOK' /\ AlertsInv'
  <2>1. PICK v \in {"healthy", "warning", "critical"} :
           /\ status' = H!Saved(check[k].status, v)
           /\ check' = [check EXCEPT ![k] = IF v = "healthy" THEN H!NoCheck ELSE [H!NoCheck EXCEPT !.pc = "find"]]
           /\ UNCHANGED active
    BY <1>2 DEF H!Measures, H!Verdicts
  <2>2. status' \in {"active", "error"}
    BY <1>0, <2>1 DEF H!Saved, CheckState
  <2> DEFINE x == IF v = "healthy" THEN H!NoCheck ELSE [H!NoCheck EXCEPT !.pc = "find"]
  <2>3. CheckOK(x) /\ ~Adds(x) /\ x.alert = {}
    BY DEF H!NoCheck, CheckOK, CheckState, Adds
  <2> HIDE DEF x
  <2> QED BY <2>1, <2>2, <2>3, CheckMoves DEF CheckIs, x
<1>3. ASSUME NEW k \in Request, H!FindsAlert(k) PROVE ChecksOK' /\ AlertsInv'
  <2>1. PICK found \in (IF H!Existing = {} THEN {{}} ELSE H!Existing) :
           /\ check' = [check EXCEPT ![k] = [check[k] EXCEPT !.pc = "alert", !.alert = found]]
           /\ UNCHANGED <<active, status>>
    BY <1>3 DEF H!FindsAlert
  <2> DEFINE x == [check[k] EXCEPT !.pc = "alert", !.alert = found]
  <2>2. CASE active = {}
    <3>1. found = {}
      BY <2>1, <2>2 DEF H!Existing
    <3>2. CheckOK(x)
      BY <1>0, <3>1 DEF CheckOK, CheckState
    <3> HIDE DEF x
    <3> QED BY <2>1, <2>2, <3>2, NoneFound DEF CheckIs, x
  <2>3. CASE active # {}
    <3>1. PICK a \in active : found = {a}
      BY <2>1, <2>3 DEF H!Existing
    <3>2. x \in CheckState /\ x.pc = "alert" /\ x.alert = {a}
      BY <1>0, <3>1 DEF CheckState
    <3>3. check' = [check EXCEPT ![k] = x]
      BY <2>1
    <3> HIDE DEF x
    <3>4. CheckIs(k, x) /\ ~Adds(x) /\ x.alert \subseteq active
      BY <3>1, <3>2, <3>3 DEF CheckIs, CheckOK, Renews, Adds
    <3> QED BY <1>0, <2>1, <3>4, CheckMoves
  <2> QED BY <2>2, <2>3
<1>4. ASSUME NEW k \in Request, H!SavesAlert(k) PROVE ChecksOK' /\ AlertsInv'
  <2>1. CASE check[k].alert # {}
    <3>1. active' = active \cup check[k].alert /\ CheckIs(k, H!NoCheck) /\ status' = status
      BY <1>4, <2>1, NoCheckOK DEF H!SavesAlert, CheckIs
    <3>2. active' \subseteq active \cup H!Held
      BY <3>1 DEF H!Held
    <3> QED BY <1>0, <3>1, <3>2, NoCheckOK, CheckMoves
  <2> QED BY <1>4, <2>1, AlertInserted
<1>5. CASE H!AlertCloses
  <2>1. active' \subseteq active /\ UNCHANGED <<check, status>>
    BY <1>5 DEF H!AlertCloses
  <2>2. H!Held' = H!Held /\ Inserting' = Inserting
    BY <2>1 DEF H!Held, Inserting
  <2>3. ChecksOK'
    BY <1>0, <2>1 DEF ChecksOK
  <2> QED BY <2>1, <2>2, <2>3, AlertsKept
<1>6. CASE H!LogAges \/ H!SampleAges
  <2>1. UNCHANGED <<active, check, status>>
    BY <1>6 DEF H!LogAges, H!SampleAges
  <2> QED BY <2>1 DEF ChecksOK, AlertsInv, H!Held, Inserting
<1>7. CASE H!Restart
  <2>1. check' = [k \in Request |-> H!NoCheck] /\ UNCHANGED <<active, status>>
    BY <1>7 DEF H!Restart
  <2>2. ChecksOK'
    BY <1>0, <2>1, NoCheckOK DEF ChecksOK, CheckOK
  <2>3. H!Held' = {} /\ Inserting' = {}
    BY <2>1, NoCheckOK DEF H!Held, Inserting
  <2> QED BY <2>1, <2>2, <2>3, AlertsKept
<1> QED BY <1>1, <1>2, <1>3, <1>4, <1>5, <1>6, <1>7 DEF H!Next, H!ScheduledCheck, H!ManualCheck, H!CheckerStep

LEMMA AlertsStart == ASSUME H!Init PROVE ChecksOK /\ AlertsInv
<1>1. check = [k \in Request |-> H!NoCheck] /\ active = {} /\ status = "active"
    BY DEF H!Init
<1>2. ChecksOK
    BY <1>1, NoCheckOK DEF ChecksOK, CheckOK
<1>3. active \cup H!Held = {} /\ Inserting = {}
    BY <1>1, NoCheckOK DEF H!Held, Inserting
<1>4. Cardinality({}) = 0
    BY FS_EmptySet
<1>5. Cardinality(active \cup H!Held) = 0 /\ Cardinality(Inserting) = 0
    BY <1>3, <1>4, Zenon
<1> QED BY <1>2, <1>5, RequestsFew DEF AlertsInv
-----------------------------------------------------------------------------
(* Recovery logs                                                             *)
RecIs(d, x) == RecOK(x) /\ rec' = [rec EXCEPT ![d] = x]

LEMMA RecTypes ==
    ASSUME RecsOK, NEW d \in Request, NEW x, RecIs(d, x), ended' \in Nat, stuck' \in Nat, manuals' \in Nat
    PROVE  RecsOK' /\ \A e \in Request : rec'[e] = IF e = d THEN x ELSE rec[e]
<1>1. rec' \in [Request -> RecState] /\ \A e \in Request : rec'[e] = IF e = d THEN x ELSE rec[e]
    BY DEF RecsOK, RecIs, RecOK
<1>2. \A e \in Request : RecOK(rec'[e])
    BY <1>1 DEF RecsOK, RecIs
<1> QED BY <1>1, <1>2 DEF RecsOK, RecOK

LEMMA RowsFinite ==
    /\ IsFiniteSet(Own) /\ Cardinality(Own) \in Nat
    /\ IsFiniteSet(Main) /\ Cardinality(Main) \in Nat /\ Cardinality(Main) <= Cardinality(Request)
    /\ IsFiniteSet(Back) /\ Cardinality(Back) \in Nat /\ Cardinality(Back) <= Cardinality(Request)
BY RequestsFew, SmallerFew DEF Own, Main, Back

LEMMA RowsFiniteAfter ==
    /\ IsFiniteSet(Own') /\ Cardinality(Own') \in Nat
    /\ IsFiniteSet(Main') /\ Cardinality(Main') \in Nat /\ Cardinality(Main') <= Cardinality(Request)
    /\ IsFiniteSet(Back') /\ Cardinality(Back') \in Nat /\ Cardinality(Back') <= Cardinality(Request)
BY RequestsFew, SmallerFew DEF Own, Main, Back

(* The rows that a log holds for good, once a detection does not have them any more *)
Gone(had, has) == IF had /\ ~has THEN 1 ELSE 0

LEMMA SumKept ==
    ASSUME NEW e \in Nat, NEW s \in Nat, NEW e1 \in Nat, NEW s1 \in Nat,
           NEW x \in Nat, NEW y \in Nat, NEW z \in Nat, NEW x1 \in Nat, NEW y1 \in Nat, NEW z1 \in Nat,
           NEW o \in Nat, NEW m \in Nat, NEW b \in Nat,
           x1 <= x - o, y1 <= y - m, z1 <= z - b, e1 + s1 <= e + s + o + m + b
    PROVE  e1 + s1 + x1 + y1 + z1 <= e + s + x + y + z
OBVIOUS

LEMMA SumLess ==
    ASSUME NEW e \in Nat, NEW s \in Nat, NEW e1 \in Nat, NEW s1 \in Nat,
           NEW x \in Nat, NEW y \in Nat, NEW z \in Nat, e1 + s1 <= e + s
    PROVE  e1 + s1 + x + y + z <= e + s + x + y + z
OBVIOUS

LEMMA SumMoved ==
    ASSUME NEW e \in Nat, NEW s \in Nat, NEW e1 \in Nat, NEW s1 \in Nat, NEW r \in Nat,
           NEW x \in Nat, NEW y \in Nat, NEW z \in Nat, e1 + s1 = e + s + r, r <= x + y + z
    PROVE  e1 + s1 + 0 + 0 + 0 <= e + s + x + y + z
OBVIOUS

LEMMA SumBelow ==
    ASSUME NEW e \in Nat, NEW s \in Nat, NEW e1 \in Nat, NEW s1 \in Nat,
           NEW x \in Nat, NEW y \in Nat, NEW z \in Nat, NEW x1 \in Nat, NEW y1 \in Nat, NEW z1 \in Nat,
           NEW l \in Int, e + s + x + y + z <= l, e1 + s1 + x1 + y1 + z1 <= e + s + x + y + z
    PROVE  e1 + s1 + x1 + y1 + z1 <= l
OBVIOUS

(* A step that starts nothing: what it adds to the log it had, or was to have.       *)
LEMMA RowsKept ==
    ASSUME AttemptsInv, NEW d \in Request, NEW x, RecIs(d, x), ended' \in Nat, stuck' \in Nat, UNCHANGED manuals,
           HasOwn(x) => HasOwn(rec[d]), HasMain(x) => HasMain(rec[d]), HasBack(x) => HasBack(rec[d]),
           ended' + stuck' <= ended + stuck + Gone(HasOwn(rec[d]), HasOwn(x))
                                + Gone(HasMain(rec[d]), HasMain(x)) + Gone(HasBack(rec[d]), HasBack(x))
    PROVE  AttemptsInv'
<1>0. RecsOK /\ ended \in Nat /\ stuck \in Nat /\ manuals \in Nat
    BY DEF AttemptsInv, RecsOK
<1>1. RecsOK' /\ \A e \in Request : rec'[e] = IF e = d THEN x ELSE rec[e]
    BY <1>0, RecTypes
<1>2. Cardinality(Own') <= Cardinality(Own) - Gone(HasOwn(rec[d]), HasOwn(x))
  <2>1. CASE HasOwn(rec[d]) /\ ~HasOwn(x)
    <3>1. Own' \subseteq Own \ {d} /\ d \in Own
      BY <1>1, <2>1 DEF Own
    <3> QED BY <2>1, <3>1, RowsFinite, OneLess DEF Gone
  <2>2. CASE ~(HasOwn(rec[d]) /\ ~HasOwn(x))
    <3>1. Own' \subseteq Own
      BY <1>1 DEF Own
    <3>2. Cardinality(Own') <= Cardinality(Own)
      BY <3>1, RowsFinite, SmallerFew
    <3> QED BY <2>2, <3>2, RowsFinite DEF Gone
  <2> QED BY <2>1, <2>2
<1>3. Cardinality(Main') <= Cardinality(Main) - Gone(HasMain(rec[d]), HasMain(x))
  <2>1. CASE HasMain(rec[d]) /\ ~HasMain(x)
    <3>1. Main' \subseteq Main \ {d} /\ d \in Main
      BY <1>1, <2>1 DEF Main
    <3> QED BY <2>1, <3>1, RowsFinite, OneLess DEF Gone
  <2>2. CASE ~(HasMain(rec[d]) /\ ~HasMain(x))
    <3>1. Main' \subseteq Main
      BY <1>1 DEF Main
    <3>2. Cardinality(Main') <= Cardinality(Main)
      BY <3>1, RowsFinite, SmallerFew
    <3> QED BY <2>2, <3>2, RowsFinite DEF Gone
  <2> QED BY <2>1, <2>2
<1>4. Cardinality(Back') <= Cardinality(Back) - Gone(HasBack(rec[d]), HasBack(x))
  <2>1. CASE HasBack(rec[d]) /\ ~HasBack(x)
    <3>1. Back' \subseteq Back \ {d} /\ d \in Back
      BY <1>1, <2>1 DEF Back
    <3> QED BY <2>1, <3>1, RowsFinite, OneLess DEF Gone
  <2>2. CASE ~(HasBack(rec[d]) /\ ~HasBack(x))
    <3>1. Back' \subseteq Back
      BY <1>1 DEF Back
    <3>2. Cardinality(Back') <= Cardinality(Back)
      BY <3>1, RowsFinite, SmallerFew
    <3> QED BY <2>2, <3>2, RowsFinite DEF Gone
  <2> QED BY <2>1, <2>2
<1> DEFINE o == Gone(HasOwn(rec[d]), HasOwn(x))
           m == Gone(HasMain(rec[d]), HasMain(x))
           b == Gone(HasBack(rec[d]), HasBack(x))
<1>5. o \in Nat /\ m \in Nat /\ b \in Nat
    BY DEF Gone
<1> HIDE DEF o, m, b
<1>6. /\ Cardinality(Own') <= Cardinality(Own) - o /\ Cardinality(Main') <= Cardinality(Main) - m
      /\ Cardinality(Back') <= Cardinality(Back) - b /\ ended' + stuck' <= ended + stuck + o + m + b
    BY <1>2, <1>3, <1>4 DEF o, m, b
<1>7. Cardinality(Own') <= manuals'
    BY <1>0, <1>5, <1>6, RowsFinite, RowsFiniteAfter DEF AttemptsInv
<1>8. ended' + stuck' + Cardinality(Own') + Cardinality(Main') + Cardinality(Back')
        <= ended + stuck + Cardinality(Own) + Cardinality(Main) + Cardinality(Back)
  <2>1. /\ Cardinality(Own) \in Nat /\ Cardinality(Main) \in Nat /\ Cardinality(Back) \in Nat
        /\ Cardinality(Own') \in Nat /\ Cardinality(Main') \in Nat /\ Cardinality(Back') \in Nat
    BY RowsFinite, RowsFiniteAfter
  <2> QED BY <1>0, <1>5, <1>6, <2>1, SumKept
<1>9. RowsFew'
    BY <1>0, <1>8, RowsFinite, RowsFiniteAfter, RequestsFew, RowsAssumption DEF AttemptsInv, RowsFew
<1> QED BY <1>1, <1>7, <1>9 DEF AttemptsInv

(* A detection that goes on, or gives up before it has inserted a row               *)
LEMMA DetectionMoves ==
    ASSUME AttemptsInv, NEW d \in Request, NEW x, RecIs(d, x), UNCHANGED <<ended, stuck, manuals>>,
           HasOwn(x) => HasOwn(rec[d]), HasMain(x) => HasMain(rec[d]), HasBack(x) => HasBack(rec[d])
    PROVE  AttemptsInv'
<1>1. /\ Gone(HasOwn(rec[d]), HasOwn(x)) \in Nat /\ Gone(HasMain(rec[d]), HasMain(x)) \in Nat
      /\ Gone(HasBack(rec[d]), HasBack(x)) \in Nat /\ ended \in Nat /\ stuck \in Nat
    BY DEF Gone, AttemptsInv, RecsOK
<1>2. ended' + stuck' <= ended + stuck + Gone(HasOwn(rec[d]), HasOwn(x))
                           + Gone(HasMain(rec[d]), HasMain(x)) + Gone(HasBack(rec[d]), HasBack(x))
    BY <1>1
<1> QED BY <1>1, <1>2, RowsKept

LEMMA NoRecOK == RecOK(V!NoRec) /\ ~HasOwn(V!NoRec) /\ ~HasMain(V!NoRec) /\ ~HasBack(V!NoRec)
BY DEF V!NoRec, RecOK, RecState, Early, Ahead, HasOwn, HasMain, HasBack, V!MainRow, V!FbRow, V!Execute

LEMMA PcMoves ==
    ASSUME RecsOK, NEW d \in Request, NEW pc \in Early \cup Ahead \cup V!MainRow, rec' = [rec EXCEPT ![d].pc = pc],
           pc \in Early \cup {"analyse"} => ~rec[d].manual, pc \in {"own", "ownMark"} => rec[d].manual
    PROVE  \E x : RecIs(d, x) /\ x.pc = pc /\ x.manual = rec[d].manual
<1> DEFINE x == [rec[d] EXCEPT !.pc = pc]
<1>1. rec' = [rec EXCEPT ![d] = x]
    OBVIOUS
<1>2. x \in RecState /\ x.pc = pc /\ x.manual = rec[d].manual
    BY DEF RecsOK, RecState
<1> HIDE DEF x
<1> QED BY <1>1, <1>2 DEF RecIs, RecOK

LEMMA RecFacts ==
    ASSUME AttemptsInv
    PROVE  /\ RecsOK /\ ended \in Nat /\ stuck \in Nat /\ manuals \in Nat
           /\ \A d \in Request : RecOK(rec[d]) /\ rec[d] \in RecState
BY DEF AttemptsInv, RecsOK

(* The statements between the start of a recovery and its end                     *)
LEMMA GoesOn ==
    ASSUME AttemptsInv, NEW d \in Request,
           \/ V!Detects(d) \/ V!LooksForRunning(d) \/ V!Analyses(d)
           \/ V!InsertsOwn(d) \/ V!MarksOwn(d) \/ V!Inserts(d) \/ V!Marks(d)
           \/ V!RecoverySucceeds(d) \/ V!RecoveryFails(d) \/ V!MarksFallback(d) \/ V!FallbackSucceeds(d)
    PROVE  AttemptsInv'
<1>0. RecOK(rec[d]) /\ RecsOK /\ UNCHANGED <<ended, stuck, manuals>>
    BY RecFacts DEF V!Detects, V!LooksForRunning, V!Analyses, V!InsertsOwn, V!MarksOwn, V!Inserts, V!Marks,
         V!RecoverySucceeds, V!RecoveryFails, V!MarksFallback, V!FallbackSucceeds, V!Goes, V!Turns, V!Recovers
<1>1. CASE rec' = [rec EXCEPT ![d] = V!NoRec]
    BY <1>0, <1>1, NoRecOK, DetectionMoves DEF RecIs
<1>2. CASE rec' # [rec EXCEPT ![d] = V!NoRec]
  <2>1. PICK pc \in Early \cup Ahead \cup V!MainRow :
           /\ rec' = [rec EXCEPT ![d].pc = pc]
           /\ <<rec[d].pc, pc>> \in
                {<<"idle", "guard">>, <<"guard", "count">>, <<"analyse", "insert">>, <<"own", "ownMark">>,
                 <<"ownMark", "insert">>, <<"insert", "mark">>, <<"mark", "attempt">>, <<"attempt", "finish">>,
                 <<"attempt", "fbMark">>, <<"fbMark", "fbAttempt">>, <<"fbAttempt", "fbFinish">>}
    BY <1>2, Zenon DEF V!Detects, V!LooksForRunning, V!Analyses, V!InsertsOwn, V!MarksOwn, V!Inserts, V!Marks,
         V!RecoverySucceeds, V!RecoveryFails, V!MarksFallback, V!FallbackSucceeds, V!Goes, V!Turns, V!Recovers,
         Early, Ahead, V!MainRow, V!FbRow
  <2>2. (pc \in Early \cup {"analyse"} => ~rec[d].manual) /\ (pc \in {"own", "ownMark"} => rec[d].manual)
    BY <1>0, <2>1 DEF RecOK, Early
  <2>3. PICK x : RecIs(d, x) /\ x.pc = pc /\ x.manual = rec[d].manual
    BY <1>0, <2>1, <2>2, PcMoves
  <2>4. HasOwn(x) => HasOwn(rec[d])
    BY <1>0, <2>1, <2>3 DEF RecOK, HasOwn, Early, V!Execute, V!MainRow, V!FbRow
  <2>5. (HasMain(x) => HasMain(rec[d])) /\ (HasBack(x) => HasBack(rec[d]))
    BY <2>1, <2>3 DEF HasMain, HasBack, Ahead, V!MainRow, V!FbRow
  <2> QED BY <1>0, <2>3, <2>4, <2>5, DetectionMoves
<1> QED BY <1>1, <1>2

LEMMA LogsRow ==
    ASSUME AttemptsInv, NEW d \in Request, V!FinishesFallback(d) \/ V!Finishes(d)
    PROVE  AttemptsInv'
<1>0. RecOK(rec[d]) /\ RecsOK /\ UNCHANGED manuals /\ ended \in Nat /\ stuck \in Nat /\ rec[d].manual \in BOOLEAN
    BY RecFacts DEF V!FinishesFallback, V!Finishes, RecState
<1>1. CASE V!FinishesFallback(d)
  <2>1. rec[d].pc \in {"fbAttempt", "fbFinish"} /\ rec' = [rec EXCEPT ![d].pc = "finish"]
        /\ ended' = ended + 1 /\ UNCHANGED stuck
    BY <1>1 DEF V!FinishesFallback
  <2>2. PICK x : RecIs(d, x) /\ x.pc = "finish" /\ x.manual = rec[d].manual
    BY <1>0, <2>1, PcMoves DEF Early, Ahead, V!MainRow
  <2>3. (HasOwn(x) <=> HasOwn(rec[d])) /\ (HasMain(x) <=> HasMain(rec[d])) /\ HasBack(rec[d]) /\ ~HasBack(x)
    BY <2>1, <2>2 DEF HasOwn, HasMain, HasBack, Ahead, V!Execute, V!MainRow, V!FbRow
  <2>4. /\ Gone(HasOwn(rec[d]), HasOwn(x)) = 0 /\ Gone(HasMain(rec[d]), HasMain(x)) = 0
        /\ Gone(HasBack(rec[d]), HasBack(x)) = 1
    BY <2>3 DEF Gone
  <2>5. ended' + stuck' <= ended + stuck + Gone(HasOwn(rec[d]), HasOwn(x))
                             + Gone(HasMain(rec[d]), HasMain(x)) + Gone(HasBack(rec[d]), HasBack(x))
    BY <1>0, <2>1, <2>4
  <2>6. ended' \in Nat /\ stuck' \in Nat
    BY <1>0, <2>1
  <2> QED BY <1>0, <2>2, <2>3, <2>5, <2>6, RowsKept
<1>2. CASE V!Finishes(d)
  <2> DEFINE x == V!NoRec
  <2>1. rec[d].pc = "finish" /\ rec' = [rec EXCEPT ![d] = V!NoRec]
        /\ ended' = ended + 1 /\ stuck' = stuck + (IF rec[d].manual THEN 1 ELSE 0)
    BY <1>2 DEF V!Finishes, V!LeftRunning
  <2>2. (HasOwn(rec[d]) <=> rec[d].manual) /\ HasMain(rec[d]) /\ ~HasBack(rec[d])
    BY <2>1 DEF HasOwn, HasMain, HasBack, Ahead, V!Execute, V!MainRow, V!FbRow
  <2>3. /\ Gone(HasOwn(rec[d]), HasOwn(x)) = IF rec[d].manual THEN 1 ELSE 0
        /\ Gone(HasMain(rec[d]), HasMain(x)) = 1 /\ Gone(HasBack(rec[d]), HasBack(x)) = 0
    BY <1>0, <2>2, NoRecOK, Zenon DEF Gone
  <2>4. ended' \in Nat /\ stuck' \in Nat
    BY <1>0, <2>1
  <2>5. ended' + stuck' <= ended + stuck + Gone(HasOwn(rec[d]), HasOwn(x))
                             + Gone(HasMain(rec[d]), HasMain(x)) + Gone(HasBack(rec[d]), HasBack(x))
    BY <1>0, <2>1, <2>3
  <2> QED BY <1>0, <2>1, <2>4, <2>5, NoRecOK, RowsKept DEF RecIs
<1> QED BY <1>1, <1>2

(* A detection passes the test: what it finds is below the limit, and no other has   *)
(* more to insert than its two rows and those of manual requests.                *)
LEMMA PassesTest ==
    ASSUME AttemptsInv, NEW d \in Request, V!CountsAttempts(d)
    PROVE  AttemptsInv'
<1>0. RecOK(rec[d]) /\ RecsOK /\ UNCHANGED <<ended, stuck, manuals>> /\ ended \in Nat /\ stuck \in Nat /\ manuals \in Nat
      /\ rec[d].pc = "count" /\ ~rec[d].manual
    BY RecFacts DEF V!CountsAttempts, V!Turns, V!Goes, RecOK, Early
<1>1. CASE V!TooMany
  <2>1. rec' = [rec EXCEPT ![d] = V!NoRec]
    BY <1>1 DEF V!CountsAttempts, V!Turns
  <2> QED BY <1>0, <2>1, NoRecOK, DetectionMoves DEF RecIs
<1>2. CASE ~V!TooMany
  <2>1. rec' = [rec EXCEPT ![d].pc = "analyse"]
    BY <1>2 DEF V!CountsAttempts, V!Turns, V!Goes
  <2>2. PICK x : RecIs(d, x) /\ x.pc = "analyse" /\ x.manual = rec[d].manual
    BY <1>0, <2>1, PcMoves DEF Ahead
  <2>3. RecsOK' /\ \A e \in Request : rec'[e] = IF e = d THEN x ELSE rec[e]
    BY <1>0, <2>2, RecTypes
  <2>4. Own' \subseteq Own
    BY <1>0, <2>2, <2>3 DEF Own, HasOwn
  <2>5. Cardinality(Own') <= manuals'
    BY <1>0, <2>4, RowsFinite, RowsFiniteAfter, SmallerFew DEF AttemptsInv
  <2>6. ended + stuck <= MaxAttempts - 1
    <3>1. V!Rows \in Nat
      <4>1. V!At(V!MainRow) \subseteq Request /\ V!At(V!FbRow) \subseteq Request
            /\ V!ManualAt(V!Execute \cup {"ownMark"}) \subseteq Request
        BY DEF V!At, V!ManualAt
      <4>2. /\ Cardinality(V!At(V!MainRow)) \in Nat /\ Cardinality(V!At(V!FbRow)) \in Nat
            /\ Cardinality(V!ManualAt(V!Execute \cup {"ownMark"})) \in Nat
        BY <4>1, RequestsFew, SmallerFew
      <4> QED BY <4>2 DEF V!Rows, V!Cardinality, Cardinality
    <3>2. ~(ended + stuck + V!Rows >= MaxAttempts)
      BY <1>2 DEF V!TooMany, V!Attempts
    <3> QED BY <1>0, <3>1, <3>2, RowsAssumption
  <2>7. RowsFew'
    BY <1>0, <2>5, <2>6, RowsFiniteAfter, RequestsFew, RowsAssumption DEF RowsFew
  <2> QED BY <2>3, <2>5, <2>7 DEF AttemptsInv
<1> QED BY <1>1, <1>2

LEMMA ManualStarts ==
    ASSUME AttemptsInv, NEW d \in Request, V!ManualRecovery(d)
    PROVE  AttemptsInv'
<1> DEFINE x == [pc |-> "own", manual |-> TRUE]
<1>1. rec' = [rec EXCEPT ![d] = x] /\ manuals' = manuals + 1 /\ UNCHANGED <<ended, stuck>>
    BY DEF V!ManualRecovery
<1>2. RecOK(x)
    BY DEF RecOK, RecState, Early, Ahead
<1> HIDE DEF x
<1>3. RecsOK' /\ \A e \in Request : rec'[e] = IF e = d THEN x ELSE rec[e]
  <2>1. RecIs(d, x) /\ RecsOK /\ ended' \in Nat /\ stuck' \in Nat /\ manuals' \in Nat
    BY <1>1, <1>2, RecFacts DEF RecIs
  <2> QED BY <2>1, RecTypes
<1>4. Own' \subseteq Own \cup {d} /\ Main' \subseteq Main \cup {d} /\ Back' \subseteq Back \cup {d}
    BY <1>3 DEF Own, Main, Back
<1>5. /\ Cardinality(Own') <= Cardinality(Own) + 1 /\ Cardinality(Main') <= Cardinality(Main) + 1
      /\ Cardinality(Back') <= Cardinality(Back) + 1
    BY <1>4, RowsFinite, OneMore
<1>6. /\ Cardinality(Own) \in Nat /\ Cardinality(Main) \in Nat /\ Cardinality(Back) \in Nat
      /\ Cardinality(Own') \in Nat /\ Cardinality(Main') \in Nat /\ Cardinality(Back') \in Nat
    BY RowsFinite, RowsFiniteAfter
<1>7. Cardinality(Own') <= manuals'
    BY <1>1, <1>5, <1>6, RecFacts DEF AttemptsInv
<1>8. RowsFew'
  <2>1. ended + stuck + Cardinality(Own) + Cardinality(Main) + Cardinality(Back)
          <= MaxAttempts - 1 + 2 * Cardinality(Request) + 3 * manuals
    BY DEF AttemptsInv, RowsFew
  <2>2. 3 * manuals' = 3 * manuals + 3 /\ ended' = ended /\ stuck' = stuck
    BY <1>1, RecFacts
  <2>3. MaxAttempts - 1 + 2 * Cardinality(Request) \in Int /\ 3 * manuals \in Int /\ ended \in Nat /\ stuck \in Nat
    BY RequestsFew, RowsAssumption, RecFacts
  <2>4. ended' + stuck' + Cardinality(Own') + Cardinality(Main') + Cardinality(Back')
          <= MaxAttempts - 1 + 2 * Cardinality(Request) + 3 * manuals'
    BY <1>5, <1>6, <2>1, <2>2, <2>3
  <2> QED BY <2>4 DEF RowsFew
<1> QED BY <1>3, <1>7, <1>8 DEF AttemptsInv

(* The rows there are, among those there are or will be                           *)
LEMMA RowsAreFew ==
    /\ V!Rows \in Nat /\ V!Running \in Nat /\ V!Running <= V!Rows
    /\ V!Rows <= Cardinality(Own) + Cardinality(Main) + Cardinality(Back)
<1> DEFINE r == V!At(V!MainRow)
           f == V!At(V!FbRow)
           m == V!ManualAt(V!Execute \cup {"ownMark"})
           rr == V!At(V!MainRow \ {"mark"})
           rf == V!At(V!FbRow \ {"fbMark"})
           rm == V!ManualAt(V!Execute)
<1>1. r \subseteq Main /\ f \subseteq Back /\ m \subseteq Own /\ rr \subseteq r /\ rf \subseteq f /\ rm \subseteq m
    BY DEF V!At, V!ManualAt, Own, Main, Back, HasOwn, HasMain, HasBack
<1>2. V!Rows = Cardinality(r) + Cardinality(f) + Cardinality(m)
    BY DEF V!Rows, V!Cardinality, Cardinality
<1>3. V!Running = Cardinality(rr) + Cardinality(rf) + Cardinality(rm)
    BY DEF V!Running, V!Cardinality, Cardinality
<1> HIDE DEF r, f, m, rr, rf, rm
<1>4. /\ IsFiniteSet(r) /\ Cardinality(r) \in Nat /\ Cardinality(r) <= Cardinality(Main)
      /\ IsFiniteSet(f) /\ Cardinality(f) \in Nat /\ Cardinality(f) <= Cardinality(Back)
      /\ IsFiniteSet(m) /\ Cardinality(m) \in Nat /\ Cardinality(m) <= Cardinality(Own)
    BY <1>1, RowsFinite, SmallerFew
<1>5. /\ Cardinality(rr) \in Nat /\ Cardinality(rr) <= Cardinality(r)
      /\ Cardinality(rf) \in Nat /\ Cardinality(rf) <= Cardinality(f)
      /\ Cardinality(rm) \in Nat /\ Cardinality(rm) <= Cardinality(m)
    BY <1>1, <1>4, SmallerFew
<1> QED BY <1>2, <1>3, <1>4, <1>5, RowsFinite

LEMMA RestartLogs == ASSUME AttemptsInv, V!Restart PROVE AttemptsInv'
<1>1. /\ stuck' = stuck + V!Running /\ ended' = ended + V!Rows - V!Running /\ UNCHANGED manuals
      /\ rec' = [d \in Request |-> V!NoRec]
    BY DEF V!Restart
<1>2. ended \in Nat /\ stuck \in Nat /\ manuals \in Nat
    BY RecFacts
<1>3. ended' \in Nat /\ stuck' \in Nat /\ ended' + stuck' = ended + stuck + V!Rows
    BY <1>1, <1>2, RowsAreFew
<1>4. RecsOK'
    BY <1>1, <1>2, <1>3, NoRecOK DEF RecsOK, RecOK
<1>5. Own' = {} /\ Main' = {} /\ Back' = {}
    BY <1>1, NoRecOK DEF Own, Main, Back
<1>6. Cardinality(Own') = 0 /\ Cardinality(Main') = 0 /\ Cardinality(Back') = 0
  <2>1. Cardinality({}) = 0
    BY FS_EmptySet
  <2> QED BY <1>5, <2>1, Zenon
<1>7. RowsFew'
  <2>1. ended + stuck + Cardinality(Own) + Cardinality(Main) + Cardinality(Back)
          <= MaxAttempts - 1 + 2 * Cardinality(Request) + 3 * manuals
    BY DEF AttemptsInv, RowsFew
  <2>2. MaxAttempts - 1 + 2 * Cardinality(Request) \in Int /\ 3 * manuals \in Int
    BY <1>2, RequestsFew, RowsAssumption
  <2>3. ended' + stuck' + 0 + 0 + 0 <= MaxAttempts - 1 + 2 * Cardinality(Request) + 3 * manuals
    <3>1. /\ Cardinality(Own) \in Nat /\ Cardinality(Main) \in Nat /\ Cardinality(Back) \in Nat
          /\ V!Rows \in Nat /\ V!Rows <= Cardinality(Own) + Cardinality(Main) + Cardinality(Back)
      BY RowsFinite, RowsAreFew
    <3>2. ended' + stuck' + 0 + 0 + 0 <= ended + stuck + Cardinality(Own) + Cardinality(Main) + Cardinality(Back)
      BY <1>2, <1>3, <3>1, SumMoved
    <3>3. MaxAttempts - 1 + 2 * Cardinality(Request) + 3 * manuals \in Int
      BY <2>2
    <3> QED BY <1>2, <1>3, <2>1, <3>1, <3>2, <3>3, SumBelow
  <2> QED BY <1>1, <1>6, <2>3 DEF RowsFew
<1> QED BY <1>1, <1>2, <1>4, <1>6, <1>7 DEF AttemptsInv

LEMMA AttemptsStep == ASSUME AttemptsInv, V!Next PROVE AttemptsInv'
<1>0. RecsOK /\ ended \in Nat /\ stuck \in Nat /\ manuals \in Nat
    BY RecFacts
<1>1. CASE UNCHANGED <<rec, ended, stuck, manuals>>
    BY <1>1 DEF AttemptsInv, RecsOK, RowsFew, Own, Main, Back
<1>2. CASE V!LogAges
  <2>1. ended' \in Nat /\ stuck' \in Nat /\ ended' + stuck' <= ended + stuck /\ UNCHANGED <<rec, manuals>>
    BY <1>0, <1>2 DEF V!LogAges
  <2>2. RecsOK' /\ Own' = Own /\ Main' = Main /\ Back' = Back
    BY <1>0, <2>1 DEF RecsOK, Own, Main, Back
  <2>3. RowsFew'
    <3>1. ended + stuck + Cardinality(Own) + Cardinality(Main) + Cardinality(Back)
            <= MaxAttempts - 1 + 2 * Cardinality(Request) + 3 * manuals
      BY DEF AttemptsInv, RowsFew
    <3>2. MaxAttempts - 1 + 2 * Cardinality(Request) \in Int /\ 3 * manuals \in Int
      BY <1>0, RequestsFew, RowsAssumption
    <3>3. ended' + stuck' + Cardinality(Own) + Cardinality(Main) + Cardinality(Back)
            <= MaxAttempts - 1 + 2 * Cardinality(Request) + 3 * manuals
      <4>1. Cardinality(Own) \in Nat /\ Cardinality(Main) \in Nat /\ Cardinality(Back) \in Nat
        BY RowsFinite
      <4>2. ended' + stuck' + Cardinality(Own) + Cardinality(Main) + Cardinality(Back)
              <= ended + stuck + Cardinality(Own) + Cardinality(Main) + Cardinality(Back)
        BY <1>0, <2>1, <4>1, SumLess
      <4>3. MaxAttempts - 1 + 2 * Cardinality(Request) + 3 * manuals \in Int
        BY <3>2
      <4> QED BY <1>0, <2>1, <3>1, <4>1, <4>2, <4>3, SumBelow
    <3> QED BY <2>1, <2>2, <3>3 DEF RowsFew
  <2> QED BY <2>1, <2>2, <2>3 DEF AttemptsInv
<1>3. ASSUME NEW k \in {"check"}, V!ScheduledCheck(k) \/ V!ManualCheck(k) \/ V!CheckerStep(k)
      PROVE  UNCHANGED <<rec, ended, stuck, manuals>>
    BY <1>3 DEF V!ScheduledCheck, V!ManualCheck, V!CheckerStep, V!CheckStarts, V!Measures, V!FindsAlert, V!SavesAlert
<1>4. CASE V!AlertCloses \/ V!SampleAges
    BY <1>1, <1>4 DEF V!AlertCloses, V!SampleAges
<1>5. ASSUME NEW d \in Request, V!Detects(d) \/ V!ManualRecovery(d) \/ V!DetectorStep(d) PROVE AttemptsInv'
    BY <1>5, GoesOn, LogsRow, PassesTest, ManualStarts DEF V!DetectorStep
<1> QED BY <1>1, <1>2, <1>3, <1>4, <1>5, RestartLogs DEF V!Next

LEMMA AttemptsStart == ASSUME V!Init PROVE AttemptsInv
<1>1. rec = [d \in Request |-> V!NoRec] /\ ended = 0 /\ stuck = 0 /\ manuals = 0
    BY DEF V!Init
<1>2. RecsOK
    BY <1>1, NoRecOK DEF RecsOK, RecOK
<1>3. Own = {} /\ Main = {} /\ Back = {}
    BY <1>1, NoRecOK DEF Own, Main, Back
<1>4. Cardinality(Own) = 0 /\ Cardinality(Main) = 0 /\ Cardinality(Back) = 0
  <2>1. Cardinality({}) = 0
    BY FS_EmptySet
  <2> QED BY <1>3, <2>1, Zenon
<1>5. RowsFew
    BY <1>1, <1>4, RequestsFew, RowsAssumption DEF RowsFew
<1> QED BY <1>1, <1>2, <1>4, <1>5 DEF AttemptsInv
-----------------------------------------------------------------------------
LEMMA RowsStep ==
    ASSUME RowsInv, [RowsNext]_<<part, vars, configVars, recoveryVars>>
    PROVE  RowsInv'
<1>0. part' = part
    BY DEF RowsNext
<1>1. ConfigsInv'
  <2>1. CASE UNCHANGED configVars
    BY <2>1 DEF RowsInv, ConfigsInv, ConfigsOK, CopiesInv, DefaultsInv, Waiting, Items, Markers, Marked, Keepers,
         C!Defaults, C!Rows, configVars
  <2> QED BY <2>1, ConfigsStep DEF RowsInv, RowsNext
<1>2. ASSUME part = "alerts" PROVE ChecksOK' /\ AlertsInv'
  <2>1. CASE UNCHANGED recoveryVars
    BY <1>2, <2>1 DEF RowsInv, ChecksOK, AlertsInv, H!Held, Inserting, recoveryVars
  <2>2. CASE H!Next
    BY <1>2, <2>2, AlertsStep DEF RowsInv
  <2> QED BY <1>2, <2>1, <2>2 DEF RowsNext
<1>3. ASSUME part = "recovery" PROVE AttemptsInv'
  <2>1. CASE UNCHANGED recoveryVars
    BY <1>3, <2>1 DEF RowsInv, AttemptsInv, RecsOK, RowsFew, Own, Main, Back, recoveryVars
  <2>2. CASE V!Next
    BY <1>3, <2>2, AttemptsStep DEF RowsInv
  <2> QED BY <1>3, <2>1, <2>2 DEF RowsNext
<1> QED BY <1>0, <1>1, <1>2, <1>3 DEF RowsInv

(* A user's proxies and scripts, and the alerts and recovery logs of an account: the  *)
(* bounds below, with the calls that are about to add to what they count.           *)
THEOREM RowsInvariant == RowsSpec => []RowsInv
<1>1. RowsInit => RowsInv
    BY ConfigsStart, AlertsStart, AttemptsStart DEF RowsInit, RowsInv
<1> QED BY <1>1, RowsStep, PTL DEF RowsSpec

(* vpn.service.ts 32-121: never more default configurations than calls overlap.      *)
THEOREM DefaultsBounded == RowsSpec => []DefaultsFew
<1>1. RowsInv => DefaultsFew
  <2> SUFFICES ASSUME ConfigsInv PROVE Cardinality(C!Defaults) <= Cardinality(Request)
    BY DEF RowsInv, DefaultsFew, C!DefaultsFew, C!Cardinality, Cardinality
  <2>1. C!Defaults \subseteq Marked
    BY DEF Marked
  <2>2. Cardinality(C!Defaults) \in Nat /\ Cardinality(C!Defaults) <= Cardinality(Marked)
    BY <2>1, HoldersFew, SmallerFew
  <2> QED BY <2>2, HoldersFew, RequestsFew DEF ConfigsInv, DefaultsInv
<1> QED BY <1>1, RowsInvariant, PTL

(* chat-scripts.service.ts 22-186: a script number never more often than the packs    *)
(* imported at once have items, for packs of any size that may repeat a number.      *)
THEOREM CopiesBounded == RowsSpec => []CopiesFew
<1>1. RowsInv => CopiesFew
  <2> SUFFICES ASSUME ConfigsInv, NEW l \in {"zh", "en"} PROVE copies[l] <= Cardinality(Request) * PackSize
    BY DEF RowsInv, CopiesFew, C!CopiesFew, C!Cardinality, Cardinality
  <2>1. copies[l] \in Nat /\ copies[l] + Cardinality(Waiting(l)) <= Cardinality(Items)
    BY DEF ConfigsInv, ConfigsOK, CopiesInv
  <2> QED BY <2>1, WaitingFew, ItemsFew
<1> QED BY <1>1, RowsInvariant, PTL

(* account-health.service.ts 489-507: never more active alerts than checks overlap.   *)
THEOREM AlertsBounded == RowsSpec => []AlertsFew
<1>1. RowsInv => AlertsFew
  <2> SUFFICES ASSUME ChecksOK, AlertsInv PROVE Cardinality(active) <= Cardinality(Request)
    BY DEF RowsInv, AlertsFew, H!AlertsFew, H!Cardinality, Cardinality
  <2>1. Cardinality(active) \in Nat /\ Cardinality(active) <= Cardinality(active \cup H!Held)
    BY AlertsFinite, SmallerFew
  <2> QED BY <2>1, AlertsFinite, RequestsFew DEF AlertsInv
<1> QED BY <1>1, RowsInvariant, PTL

(* account-recovery.service.ts 98-106: the limit of an hour, and what detections that  *)
(* pass the test together and manual requests add to it.                          *)
THEOREM RecoveriesBounded == RowsSpec => []AttemptsBounded
<1>1. RowsInv => AttemptsBounded
  <2> SUFFICES ASSUME AttemptsInv
               PROVE  ended + stuck + V!Rows <= MaxAttempts - 1 + 2 * Cardinality(Request) + 3 * manuals
    BY DEF RowsInv, AttemptsBounded, V!AttemptsBounded, V!Attempts, V!Cardinality, Cardinality
  <2>1. MaxAttempts - 1 + 2 * Cardinality(Request) \in Int /\ 3 * manuals \in Int /\ ended \in Nat /\ stuck \in Nat
    BY RequestsFew, RowsAssumption, RecFacts
  <2> QED BY <2>1, RowsFinite, RowsAreFew DEF AttemptsInv, RowsFew
<1> QED BY <1>1, RowsInvariant, PTL
=============================================================================
