--------------------------- MODULE ClientsPageProofs ---------------------------
(***************************************************************************)
(* The clients page, for any number of emails, inbounds, fan-outs, clicks  *)
(* and mishaps: what is stored and every copy of it stay well formed, the   *)
(* subscription URL in the share dialog resolves, and saving an edit form   *)
(* detaches nothing the operator did not deselect.                          *)
(***************************************************************************)
EXTENDS ClientsPage, FiniteSetTheorems, FunctionTheorems, TLAPS

States == {"on", "manual", "quota"}
Kinds  == {"toggle", "reset", "delete"}

\* A row, or a copy of one, made by the time n rows had been.
Row(n) == [id : 1..n, email : Emails, inbound : Inbounds, st : States, note : Notes, token : Nat]

ListOf(n)  == [have : BOOLEAN, data : SUBSET Row(n)]
FetchOf(n) == [st : {"idle", "asked", "read"}, data : SUBSET Row(n)]
OpOf(n)    == [st : {"idle", "last", "earlier"}, kind : Kinds, email : Emails, ids : SUBSET (1..n),
               want : BOOLEAN, todo : SUBSET (1..n), failed : Nat, before : [Keys -> ListOf(n)]]
Form       == [st : {"closed", "create", "edit"}, email : Emails, targets : SUBSET Inbounds,
               note : Notes, dropped : SUBSET Inbounds, fresh : BOOLEAN]

\* One row per id, and per inbound an email is attached to.
Unique(cs) == \A c, d \in cs : c.id = d.id \/ (c.email = d.email /\ c.inbound = d.inbound) => c = d

Stored    == lastId \in Nat /\ rows \subseteq Row(lastId) /\ Unique(rows)
Listed(n) == /\ filter \in Keys /\ shown \in Keys
             /\ cache \in [Keys -> ListOf(n)] /\ fetch \in [Keys -> FetchOf(n)]
\* What a fan-out has still to do and what failed make up no more than it began with.
Fanned(n) == /\ ops \in [Ops -> OpOf(n)]
             /\ \A o \in Ops : /\ ops[o].todo \subseteq ops[o].ids
                               /\ ops[o].failed + Cardinality(ops[o].todo) <= Cardinality(ops[o].ids)
Formed    == modal \in Form /\ save \in [st : {"idle", "sent", "served"}, form : Form]
Shared(n) == /\ DOMAIN share = {"open", "group", "current", "fresh"}
             /\ share.open \in BOOLEAN /\ share.group \subseteq Row(n) /\ share.fresh \in BOOLEAN
             /\ \A a \in asks : a.group \subseteq Row(n)
Turned(n) == /\ DOMAIN rotate = {"st", "row", "got"}
             /\ rotate.st \in {"idle", "sent", "served"} /\ rotate.got \subseteq Row(n)

TInv == Stored /\ Listed(lastId) /\ Fanned(lastId) /\ Formed /\ Shared(lastId) /\ Turned(lastId)

-----------------------------------------------------------------------------
(* Rows and copies of rows.                                                *)

\* The row of an id that exists.
LEMMA RowOfIs ==
    ASSUME NEW i, Exists(i)
    PROVE  RowOf(i) \in rows /\ RowOf(i).id = i
  BY DEF Exists, Ids, RowOf

\* A copy stays one when more rows are made.
LEMMA StillRows ==
    ASSUME NEW n \in Nat, NEW m \in Nat, n <= m
    PROVE  Row(n) \subseteq Row(m) /\ ListOf(n) \subseteq ListOf(m) /\ FetchOf(n) \subseteq FetchOf(m)
           /\ OpOf(n) \subseteq OpOf(m)
<1>1. Row(n) \subseteq Row(m)
  <2>1. 1..n \subseteq 1..m
    OBVIOUS
  <2> QED
    BY <2>1 DEF Row
<1>2. ListOf(n) \subseteq ListOf(m) /\ FetchOf(n) \subseteq FetchOf(m)
  BY <1>1 DEF ListOf, FetchOf
<1>3. OpOf(n) \subseteq OpOf(m)
  <2>1. [Keys -> ListOf(n)] \subseteq [Keys -> ListOf(m)]
    BY <1>2
  <2>2. SUBSET (1..n) \subseteq SUBSET (1..m)
    OBVIOUS
  <2> QED
    BY <2>1, <2>2 DEF OpOf
<1> QED
  BY <1>1, <1>2, <1>3

LEMMA StillTyped ==
    ASSUME NEW n \in Nat, NEW m \in Nat, n <= m
    PROVE  /\ Listed(n) => Listed(m)
           /\ Fanned(n) => Fanned(m)
           /\ Shared(n) => Shared(m)
           /\ Turned(n) => Turned(m)
<1>0. Row(n) \subseteq Row(m) /\ ListOf(n) \subseteq ListOf(m) /\ FetchOf(n) \subseteq FetchOf(m)
      /\ OpOf(n) \subseteq OpOf(m)
  BY StillRows
<1>1. Listed(n) => Listed(m)
  BY <1>0 DEF Listed
<1>2. Fanned(n) => Fanned(m)
  BY <1>0 DEF Fanned
<1>3. (Shared(n) => Shared(m)) /\ (Turned(n) => Turned(m))
  BY <1>0 DEF Shared, Turned
<1> QED
  BY <1>1, <1>2, <1>3

LEMMA OptimisticIsTyped ==
    ASSUME NEW n \in Nat, NEW kind \in Kinds, NEW ids, NEW want \in BOOLEAN, NEW cs \in SUBSET Row(n)
    PROVE  Optimistic(kind, ids, want, cs) \subseteq Row(n)
<1>1. ASSUME NEW c \in cs, NEW s \in States
      PROVE  [c EXCEPT !.st = s] \in Row(n)
  BY DEF Row
<1>2. CASE kind = "toggle"
  <2>1. ASSUME NEW c \in cs
        PROVE  (IF c.id \notin ids THEN c
                ELSE [c EXCEPT !.st = IF want THEN "on" ELSE IF @ = "on" THEN "manual" ELSE @]) \in Row(n)
    <3> DEFINE s == IF want THEN "on" ELSE IF c.st = "on" THEN "manual" ELSE c.st
    <3>1. s \in States
      BY DEF Row, States
    <3>2. [c EXCEPT !.st = IF want THEN "on" ELSE IF @ = "on" THEN "manual" ELSE @] = [c EXCEPT !.st = s]
      OBVIOUS
    <3> HIDE DEF s
    <3> QED
      BY <1>1, <3>1, <3>2
  <2> QED
    BY <1>2, <2>1 DEF Optimistic
<1>3. CASE kind \in {"delete", "reset"}
  BY <1>3 DEF Optimistic
<1> QED
  BY <1>2, <1>3 DEF Kinds
\* Counting what is in a finite set of ids.
LEMMA IdsAreFinite ==
    ASSUME NEW n \in Nat, NEW S \in SUBSET (1..n)
    PROVE  IsFiniteSet(S) /\ Cardinality(S) \in Nat
<1>1. IsFiniteSet(1..n)
  BY FS_Interval
<1> QED
  BY <1>1, FS_Subset, FS_CardinalityType

LEMMA ClosedIsTyped == Closed \in Form /\ Closed.st = "closed" /\ Closed.note \in Notes
  BY ClientsAssumption DEF Closed, Form

LEMMA InitTyped == Init => TInv
<1> SUFFICES ASSUME Init PROVE TInv
  OBVIOUS
<1>1. Stored
  <2>1. PICK stored \in SUBSET (Emails \X Inbounds) :
          LET number == CHOOSE f \in [stored -> 1..Cardinality(stored)] : IsInjective(f) IN
          /\ rows = {[id |-> number[a], email |-> a[1], inbound |-> a[2], st |-> "on",
                      note |-> CHOOSE v \in Notes : TRUE, token |-> 0] : a \in stored}
          /\ lastId = Cardinality(stored)
    BY DEF Init
  <2> DEFINE number == CHOOSE f \in [stored -> 1..Cardinality(stored)] : IsInjective(f)
             RowAt(a) == [id |-> number[a], email |-> a[1], inbound |-> a[2], st |-> "on",
                          note |-> CHOOSE v \in Notes : TRUE, token |-> 0]
  <2>2. rows = {RowAt(a) : a \in stored} /\ lastId = Cardinality(stored)
    BY <2>1
  <2>3. IsFiniteSet(stored)
    BY ClientsAssumption, FS_Product, FS_Subset
  <2>4. Cardinality(stored) \in Nat /\ ExistsBijection(1..Cardinality(stored), stored)
    BY <2>3, FS_CardinalityType
  <2>5. \E f \in [stored -> 1..Cardinality(stored)] : IsInjective(f)
    <3>1. ExistsBijection(stored, 1..Cardinality(stored))
      BY <2>4, Fun_ExistsBijSymmetric
    <3> QED
      BY <3>1, Zenon DEF ExistsBijection, Bijection, Injection
  <2>6. number \in [stored -> 1..Cardinality(stored)] /\ IsInjective(number)
    BY <2>5
  <2>7. \A a \in stored : a[1] \in Emails /\ a[2] \in Inbounds
    OBVIOUS
  <2>8. \A a, b \in stored : (a[1] = b[1] /\ a[2] = b[2]) => a = b
    OBVIOUS
  <2>9. \A a, b \in stored : number[a] = number[b] => a = b
    BY <2>6 DEF IsInjective
  <2>a. (CHOOSE v \in Notes : TRUE) \in Notes
    BY ClientsAssumption
  <2> HIDE DEF number
  <2>b. \A a \in stored : RowAt(a) \in Row(lastId)
    BY <2>2, <2>4, <2>6, <2>7, <2>a DEF Row, States
  <2>c. \A a, b \in stored :
           (RowAt(a).id = RowAt(b).id
              \/ (RowAt(a).email = RowAt(b).email /\ RowAt(a).inbound = RowAt(b).inbound))
             => RowAt(a) = RowAt(b)
    BY <2>8, <2>9
  <2> HIDE DEF RowAt
  <2> QED
    BY <2>2, <2>4, <2>b, <2>c DEF Stored, Unique
<1>2. lastId \in Nat
  BY <1>1 DEF Stored
<1>3. NoList \in ListOf(lastId) /\ NoFetch \in FetchOf(lastId) /\ Asked \in FetchOf(lastId)
  BY DEF NoList, NoFetch, Asked, ListOf, FetchOf
<1>4. Listed(lastId)
  BY <1>3 DEF Init, Listed, Keys
<1>5. Fanned(lastId)
  <2>1. IdleOp \in OpOf(lastId)
    BY <1>3, ClientsAssumption DEF IdleOp, OpOf, Kinds
  <2>2. /\ IdleOp.todo \subseteq IdleOp.ids
        /\ IdleOp.failed + Cardinality(IdleOp.todo) <= Cardinality(IdleOp.ids)
    BY FS_EmptySet DEF IdleOp
  <2> QED
    BY <2>1, <2>2 DEF Init, Fanned
<1>6. Formed /\ Shared(lastId) /\ Turned(lastId)
  BY ClosedIsTyped DEF Init, Formed, Shared, Turned, NoSave, NoShare, NoTurn
<1> QED
  BY <1>1, <1>4, <1>5, <1>6 DEF TInv
-----------------------------------------------------------------------------
(* Every step keeps the rows, their copies and the requests typed.         *)

LEMMA AskIsTyped ==
    ASSUME NEW n \in Nat, fetch \in [Keys -> FetchOf(n)], NEW ks, Ask(ks)
    PROVE  fetch' \in [Keys -> FetchOf(n)]
<1>1. Asked \in FetchOf(n)
  BY DEF Asked, FetchOf
<1> QED
  BY <1>1 DEF Ask

LEMMA ViewIsTyped ==
    ASSUME Stored, NEW k
    PROVE  View(k) \subseteq Row(lastId)
  BY DEF View, Stored

LEMMA ListStepsTyped ==
    ASSUME TInv, NEW k \in Keys,
           Poll(k) \/ GetAnswered(k) \/ GetDelivered(k) \/ GetFails(k) \/ PickFilter(k)
    PROVE  TInv'
<1>0. lastId \in Nat /\ cache \in [Keys -> ListOf(lastId)] /\ fetch \in [Keys -> FetchOf(lastId)]
      /\ filter \in Keys /\ shown \in Keys
  BY DEF TInv, Stored, Listed
<1>1. UNCHANGED <<rows, lastId, ops, forms, links>>
  BY DEF Poll, GetAnswered, GetDelivered, GetFails, PickFilter
<1>2. Stored' /\ Fanned(lastId)' /\ Formed' /\ Shared(lastId)' /\ Turned(lastId)'
  BY <1>1 DEF TInv, Stored, Unique, Fanned, Formed, Shared, Turned, forms, links
<1>3. NoFetch \in FetchOf(lastId)
  BY DEF NoFetch, FetchOf
<1>4. Listed(lastId)'
  <2>1. CASE Poll(k)
    <3>1. fetch' \in [Keys -> FetchOf(lastId)]
      BY <1>0, <2>1, AskIsTyped DEF Poll
    <3> QED
      BY <1>0, <1>1, <2>1, <3>1 DEF Poll, Listed
  <2>2. CASE GetAnswered(k)
    <3>1. [st |-> "read", data |-> View(k)] \in FetchOf(lastId)
      BY ViewIsTyped DEF FetchOf, TInv
    <3> QED
      BY <1>0, <1>1, <2>2, <3>1 DEF GetAnswered, Listed
  <2>3. CASE GetDelivered(k)
    <3>1. [have |-> TRUE, data |-> fetch[k].data] \in ListOf(lastId)
      BY <1>0 DEF FetchOf, ListOf
    <3> QED
      BY <1>0, <1>1, <1>3, <2>3, <3>1 DEF GetDelivered, Listed
  <2>4. CASE GetFails(k)
    BY <1>0, <1>1, <1>3, <2>4 DEF GetFails, Listed
  <2>5. CASE PickFilter(k)
    <3>1. fetch' \in [Keys -> FetchOf(lastId)]
      BY <1>0, <2>5, AskIsTyped DEF PickFilter
    <3> QED
      BY <1>0, <1>1, <2>5, <3>1 DEF PickFilter, Listed
  <2> QED
    BY <2>1, <2>2, <2>3, <2>4, <2>5
<1> QED
  BY <1>2, <1>4 DEF TInv

\* One row rewritten in place, or gone.
LEMMA RewrittenIsStored ==
    ASSUME Stored, NEW r \in rows, NEW S, lastId' = lastId, rows' = (rows \ {r}) \cup S,
           \A d \in S : d \in Row(lastId) /\ d.id = r.id /\ d.email = r.email /\ d.inbound = r.inbound,
           \A c, d \in S : c = d
    PROVE  Stored'
<1>1. rows' \subseteq Row(lastId)
  BY DEF Stored
<1>2. Unique(rows')
  <2> SUFFICES ASSUME NEW c \in rows', NEW d \in rows',
                      c.id = d.id \/ (c.email = d.email /\ c.inbound = d.inbound)
               PROVE  c = d
    BY DEF Unique
  <2>1. CASE c \in S /\ d \in S
    BY <2>1
  <2>2. CASE c \in S /\ d \notin S
    BY <2>2 DEF Stored, Unique
  <2>3. CASE c \notin S /\ d \in S
    BY <2>3 DEF Stored, Unique
  <2>4. CASE c \notin S /\ d \notin S
    BY <2>4 DEF Stored, Unique
  <2> QED
    BY <2>1, <2>2, <2>3, <2>4
<1> QED
  BY <1>1, <1>2 DEF Stored

\* What one request of a fan-out leaves of its row.
LEMMA AppliedIs ==
    ASSUME NEW n \in Nat, NEW op \in OpOf(n), NEW m, NEW c \in Row(m)
    PROVE  /\ \A d \in Applied(op, c) : /\ d \in Row(m) /\ d.id = c.id /\ d.email = c.email
                                        /\ d.inbound = c.inbound /\ d.token = c.token
           /\ \A d, e \in Applied(op, c) : d = e
<1>1. op.kind \in Kinds
  BY DEF OpOf
<1>2. ASSUME NEW s \in States
      PROVE  LET d == [c EXCEPT !.st = s] IN
             /\ d \in Row(m) /\ d.id = c.id /\ d.email = c.email
             /\ d.inbound = c.inbound /\ d.token = c.token
  BY DEF Row
<1>3. CASE op.kind = "toggle"
  <2> DEFINE s == IF op.want THEN "on" ELSE "manual"
  <2>1. Applied(op, c) = {[c EXCEPT !.st = s]} /\ s \in States
    BY <1>3 DEF Applied, States
  <2> HIDE DEF s
  <2> QED
    BY <1>2, <2>1
<1>4. CASE op.kind = "reset"
  <2> DEFINE s == IF c.st = "quota" THEN "on" ELSE c.st
  <2>1. Applied(op, c) = {[c EXCEPT !.st = s]} /\ s \in States
    BY <1>4 DEF Applied, States, Row
  <2> HIDE DEF s
  <2> QED
    BY <1>2, <2>1
<1>5. CASE op.kind = "delete"
  BY <1>5 DEF Applied
<1> QED
  BY <1>1, <1>3, <1>4, <1>5 DEF Kinds

LEMMA FanTyped ==
    ASSUME TInv, NEW o \in Ops, NEW kind \in Kinds, NEW e \in Emails, Fan(o, kind, e)
    PROVE  TInv'
<1>0. lastId \in Nat /\ cache \in [Keys -> ListOf(lastId)] /\ shown \in Keys /\ filter \in Keys
  BY DEF TInv, Stored, Listed
<1> DEFINE ids == Ids(Group(e))
           want == ~AllOn(Group(e))
           begun == [st |-> "last", kind |-> kind, email |-> e, ids |-> ids,
                     want |-> kind = "toggle" /\ want, todo |-> ids, failed |-> 0,
                     before |-> cache]
<1>1. /\ ops' = [p \in Ops |-> IF p = o THEN begun
                               ELSE IF ops[p].st = "last" /\ ops[p].kind = kind
                                    THEN [ops[p] EXCEPT !.st = "earlier"] ELSE ops[p]]
      /\ cache' = [k \in Keys |-> [cache[k] EXCEPT !.data = Optimistic(kind, ids, want, @)]]
      /\ UNCHANGED <<rows, lastId, filter, shown, fetch, forms, links>>
  BY DEF Fan
<1>2. Group(e) \subseteq Row(lastId) /\ ids \subseteq 1..lastId
  BY <1>0 DEF Group, Ids, ListOf, Row
<1>3. want \in BOOLEAN
  BY DEF AllOn
<1>4. begun \in OpOf(lastId)
  <2> HIDE DEF ids, want
  <2> QED
    BY <1>0, <1>2, <1>3 DEF OpOf
<1>5. begun.todo = ids /\ begun.ids = ids /\ begun.failed = 0
  OBVIOUS
<1>6. Cardinality(ids) \in Nat
  BY <1>0, <1>2, IdsAreFinite
<1>7. \A k \in Keys : Optimistic(kind, ids, want, cache[k].data) \subseteq Row(lastId)
  BY <1>0, <1>3, OptimisticIsTyped DEF ListOf
<1> HIDE DEF ids, want, begun
<1>8. Fanned(lastId)'
  <2>1. ASSUME NEW p \in Ops
        PROVE  /\ ops'[p] \in OpOf(lastId)
               /\ ops'[p].todo \subseteq ops'[p].ids
               /\ ops'[p].failed + Cardinality(ops'[p].todo) <= Cardinality(ops'[p].ids)
    <3>1. CASE p = o
      BY <1>1, <1>4, <1>5, <1>6, <3>1
    <3>2. CASE p # o /\ ops[p].st = "last" /\ ops[p].kind = kind
      <4>1. ops'[p] = [ops[p] EXCEPT !.st = "earlier"] /\ ops[p] \in OpOf(lastId)
        BY <1>1, <3>2 DEF TInv, Fanned
      <4> QED
        BY <4>1 DEF TInv, Fanned, OpOf
    <3>3. CASE p # o /\ ~(ops[p].st = "last" /\ ops[p].kind = kind)
      BY <1>1, <3>3 DEF TInv, Fanned
    <3> QED
      BY <3>1, <3>2, <3>3
  <2>2. ops' \in [Ops -> OpOf(lastId)]
    BY <1>1, <2>1
  <2> QED
    BY <1>1, <2>1, <2>2 DEF Fanned
<1>9. Listed(lastId)'
  <2>1. cache' \in [Keys -> ListOf(lastId)]
    BY <1>0, <1>1, <1>7 DEF ListOf
  <2> QED
    BY <1>1, <2>1 DEF TInv, Listed
<1>a. Stored' /\ Formed' /\ Shared(lastId)' /\ Turned(lastId)'
  BY <1>1 DEF TInv, Stored, Unique, Formed, Shared, Turned, forms, links
<1> QED
  BY <1>8, <1>9, <1>a DEF TInv
LEMMA ServeOneTyped ==
    ASSUME TInv, NEW o \in Ops, NEW i, ServeOne(o, i)
    PROVE  TInv'
<1>0. lastId \in Nat /\ ops[o] \in OpOf(lastId) /\ ops \in [Ops -> OpOf(lastId)]
      /\ i \in ops[o].todo /\ UNCHANGED <<lastId, lists, forms, links>>
  BY DEF TInv, Stored, Fanned, ServeOne
<1>1. /\ UNCHANGED rows \/ Served(ops[o], i)
      /\ \E f \in {ops[o].failed, ops[o].failed + 1} :
            ops' = [ops EXCEPT ![o].todo = @ \ {i}, ![o].failed = f]
  <2>1. PICK how \in {"answered", "lost", "refused"} :
              /\ IF how = "refused" THEN UNCHANGED rows ELSE Served(ops[o], i)
              /\ ops' = [ops EXCEPT ![o].todo = @ \ {i},
                           ![o].failed = IF how = "answered" /\ Exists(i) THEN @ ELSE @ + 1]
    BY DEF ServeOne
  <2> DEFINE f == IF how = "answered" /\ Exists(i) THEN ops[o].failed ELSE ops[o].failed + 1
  <2>2. ops' = [ops EXCEPT ![o].todo = @ \ {i}, ![o].failed = f]
    BY <1>0, <2>1
  <2>3. f \in {ops[o].failed, ops[o].failed + 1}
    OBVIOUS
  <2> HIDE DEF f
  <2> QED
    BY <2>1, <2>2, <2>3
<1>2. Stored'
  <2>1. CASE UNCHANGED rows
    BY <1>0, <2>1 DEF TInv, Stored, Unique
  <2>2. CASE Served(ops[o], i) /\ Exists(i)
    <3>1. RowOf(i) \in rows /\ rows' = (rows \ {RowOf(i)}) \cup Applied(ops[o], RowOf(i))
      BY <2>2, RowOfIs DEF Served
    <3>2. RowOf(i) \in Row(lastId)
      BY <3>1 DEF TInv, Stored
    <3> QED
      BY <1>0, <3>1, <3>2, AppliedIs, RewrittenIsStored DEF TInv
  <2>3. CASE Served(ops[o], i) /\ ~Exists(i)
    BY <1>0, <2>3 DEF Served, TInv, Stored, Unique
  <2> QED
    BY <1>1, <2>1, <2>2, <2>3
<1>3. Fanned(lastId)'
  <2>1. PICK f \in {ops[o].failed, ops[o].failed + 1} :
            ops' = [ops EXCEPT ![o].todo = @ \ {i}, ![o].failed = f]
    BY <1>1
  <2> DEFINE left == ops[o].todo \ {i}
             op   == [ops[o] EXCEPT !.todo = left, !.failed = f]
  <2>2. ops' = [ops EXCEPT ![o] = op]
    BY <1>0, <2>1
  <2>3. IsFiniteSet(ops[o].todo) /\ Cardinality(ops[o].todo) \in Nat
        /\ Cardinality(ops[o].ids) \in Nat
    BY <1>0, IdsAreFinite DEF OpOf
  <2>4. Cardinality(left) = Cardinality(ops[o].todo) - 1
    BY <1>0, <2>3, FS_RemoveElement
  <2>5. ops[o].failed + Cardinality(ops[o].todo) <= Cardinality(ops[o].ids)
        /\ ops[o].todo \subseteq ops[o].ids
    BY DEF TInv, Fanned
  <2>6. f \in Nat /\ f <= ops[o].failed + 1 /\ ops[o].failed \in Nat
    BY <1>0, <2>1 DEF OpOf
  <2>7. left \subseteq 1..lastId /\ left \subseteq ops[o].todo
    BY <1>0 DEF OpOf
  <2> HIDE DEF left
  <2>8. op \in OpOf(lastId) /\ op.todo = left /\ op.failed = f /\ op.ids = ops[o].ids
    BY <1>0, <2>6, <2>7 DEF OpOf
  <2> HIDE DEF op
  <2>9. op.todo \subseteq op.ids /\ op.failed + Cardinality(op.todo) <= Cardinality(op.ids)
    BY <2>3, <2>4, <2>5, <2>6, <2>7, <2>8
  <2> QED
    BY <1>0, <2>2, <2>8, <2>9 DEF TInv, Fanned
<1>4. Listed(lastId)' /\ Formed' /\ Shared(lastId)' /\ Turned(lastId)'
  BY <1>0 DEF TInv, Listed, Formed, Shared, Turned, lists, forms, links
<1> QED
  BY <1>2, <1>3, <1>4 DEF TInv

LEMMA SettledTyped ==
    ASSUME TInv, NEW o \in Ops, Settled(o)
    PROVE  TInv'
<1>0. /\ lastId \in Nat /\ ops \in [Ops -> OpOf(lastId)]
      /\ cache \in [Keys -> ListOf(lastId)] /\ fetch \in [Keys -> FetchOf(lastId)]
  BY DEF TInv, Stored, Fanned, Listed
<1>1. /\ ops' = [ops EXCEPT ![o] = IdleOp]
      /\ UNCHANGED cache \/ RestoreSnapshots(ops[o].before)
      /\ UNCHANGED fetch \/ Invalidate
      /\ UNCHANGED <<rows, lastId, filter, shown, forms, links>>
  BY DEF Settled
<1>2. Fanned(lastId)'
  <2>1. NoList \in ListOf(lastId)
    BY DEF NoList, ListOf
  <2>2. IdleOp \in OpOf(lastId)
    BY <2>1, ClientsAssumption DEF IdleOp, OpOf, Kinds
  <2>3. /\ IdleOp.todo \subseteq IdleOp.ids
        /\ IdleOp.failed + Cardinality(IdleOp.todo) <= Cardinality(IdleOp.ids)
    BY FS_EmptySet DEF IdleOp
  <2> QED
    BY <1>0, <1>1, <2>2, <2>3 DEF TInv, Fanned
<1>3. cache' \in [Keys -> ListOf(lastId)]
  <2>1. ops[o].before \in [Keys -> ListOf(lastId)]
    BY <1>0 DEF OpOf
  <2> QED
    BY <1>0, <1>1, <2>1 DEF RestoreSnapshots
<1>4. fetch' \in [Keys -> FetchOf(lastId)]
  BY <1>0, <1>1, AskIsTyped DEF Invalidate
<1>5. Listed(lastId)'
  BY <1>1, <1>3, <1>4 DEF TInv, Listed
<1>6. Stored' /\ Formed' /\ Shared(lastId)' /\ Turned(lastId)'
  BY <1>1 DEF TInv, Stored, Unique, Formed, Shared, Turned, forms, links
<1> QED
  BY <1>2, <1>5, <1>6 DEF TInv

\* What an edit form is seeded with are inbounds.
LEMMA SeedsAreInbounds ==
    ASSUME TInv, NEW e
    PROVE  SeedTargets(e) \subseteq Inbounds
<1>1. All \in Keys /\ cache \in [Keys -> ListOf(lastId)]
  BY DEF TInv, Listed, Keys
<1>2. cache[All].data \subseteq Row(lastId)
  BY <1>1 DEF ListOf
<1> QED
  BY <1>2 DEF SeedTargets, Attached, Row

LEMMA FormStepsTyped ==
    ASSUME TInv,
           \/ \E e \in Emails : OpenEdit(e) \/ OpenCreate(e)
           \/ \E i \in Inbounds : Choose(i)
           \/ Cancel \/ Submit \/ SaveFails
    PROVE  TInv'
<1>0. modal \in Form /\ save \in [st : {"idle", "sent", "served"}, form : Form] /\ filter \in Keys
  BY DEF TInv, Formed, Listed
<1>1. UNCHANGED <<rows, lastId, lists, ops, links>>
  BY DEF OpenEdit, OpenCreate, Choose, Cancel, Submit, SaveFails, forms
<1>2. Stored' /\ Listed(lastId)' /\ Fanned(lastId)' /\ Shared(lastId)' /\ Turned(lastId)'
  BY <1>1 DEF TInv, Stored, Unique, Listed, Fanned, Shared, Turned, lists, links
<1>3. Formed'
  <2>1. CASE \E e \in Emails : OpenEdit(e)
    <3>1. PICK e \in Emails : OpenEdit(e)
      BY <2>1
    <3>2. PICK v \in Notes :
              modal' = [st |-> "edit", email |-> e, targets |-> SeedTargets(e), note |-> v, dropped |-> {},
                        fresh |-> /\ SeedTargets(e) = Attached(rows, e) \/ cache[All].data = rows
                                  /\ save.st = "idle"]
      BY <3>1 DEF OpenEdit
    <3>3. modal' \in Form
      BY <3>2, SeedsAreInbounds DEF Form
    <3> QED
      BY <1>0, <3>1, <3>3 DEF OpenEdit, Formed
  <2>2. CASE \E e \in Emails : OpenCreate(e)
    <3>1. PICK e \in Emails : OpenCreate(e)
      BY <2>2
    <3> DEFINE t == IF filter # All THEN {filter}
                    ELSE IF Cardinality(Inbounds) = 1 THEN Inbounds ELSE {}
    <3>2. modal' = [Closed EXCEPT !.st = "create", !.email = e, !.targets = t]
      BY <3>1 DEF OpenCreate
    <3>3. t \subseteq Inbounds
      BY <1>0 DEF Keys, All
    <3> HIDE DEF t
    <3>4. modal' \in Form
      BY <3>2, <3>3, ClosedIsTyped DEF Form
    <3> QED
      BY <1>0, <3>1, <3>4 DEF OpenCreate, Formed
  <2>3. CASE \E i \in Inbounds : Choose(i)
    <3>1. PICK i \in Inbounds : Choose(i)
      BY <2>3
    <3>2. modal' \in Form
      BY <1>0, <3>1 DEF Choose, Form
    <3> QED
      BY <1>0, <3>1, <3>2 DEF Choose, Formed
  <2>4. CASE Cancel
    BY <1>0, <2>4, ClosedIsTyped DEF Cancel, Formed
  <2>5. CASE Submit
    BY <1>0, <2>5 DEF Submit, Formed
  <2>6. CASE SaveFails
    BY <1>0, <2>6, ClosedIsTyped DEF SaveFails, Formed, NoSave
  <2> QED
    BY <2>1, <2>2, <2>3, <2>4, <2>5, <2>6
<1> QED
  BY <1>2, <1>3 DEF TInv
\* The rows after a bulk-assign: those of other emails, those kept with another
\* note, and new ones under new ids, one for each inbound that had none.
LEMMA AssignedRows ==
    ASSUME TInv, NEW f \in Form, BulkAssign(f)
    PROVE  /\ lastId' \in Nat /\ lastId <= lastId'
           /\ \A c \in rows : c.email # f.email => c \in rows'
           /\ \A c \in rows : (c.email = f.email /\ c.inbound \in f.targets)
                                => [c EXCEPT !.note = f.note] \in rows'
           /\ \A d \in rows' :
                 \/ d \in rows /\ d.email # f.email
                 \/ \E c \in rows : /\ c.email = f.email /\ c.inbound \in f.targets
                                    /\ d = [c EXCEPT !.note = f.note]
                 \/ /\ d \in Row(lastId') /\ d.id > lastId /\ d.email = f.email
                    /\ d.inbound \in f.targets \ Attached(rows, f.email)
           /\ \A d, e \in rows' : (d.id > lastId /\ d.email = f.email /\ e.email = f.email
                                    /\ (d.id = e.id \/ (d.inbound = e.inbound /\ e.id > lastId)))
                                   => d = e
<1> DEFINE em    == f.email
           kept  == {c \in rows : c.email = em /\ c.inbound \in f.targets}
           fresh == f.targets \ Attached(rows, em)
<1>1. lastId' = lastId + Cardinality(fresh)
  BY DEF BulkAssign
<1>2. PICK number \in Injection(fresh, (lastId + 1)..lastId') :
         rows' = {c \in rows : c.email # em}
                    \cup {[c EXCEPT !.note = f.note] : c \in kept}
                    \cup {[id |-> number[i], email |-> em, inbound |-> i, st |-> "on",
                           note |-> f.note, token |-> 0] : i \in fresh}
  BY DEF BulkAssign
<1>3. fresh \subseteq Inbounds /\ em \in Emails /\ f.note \in Notes
  BY DEF Form
<1>4. lastId \in Nat /\ rows \subseteq Row(lastId) /\ Unique(rows)
  BY DEF TInv, Stored
<1>5. Cardinality(fresh) \in Nat
  BY <1>3, ClientsAssumption, FS_Subset, FS_CardinalityType
<1>6. number \in [fresh -> (lastId + 1)..lastId'] /\ \A i, j \in fresh : number[i] = number[j] => i = j
  BY Zenon DEF Injection, IsInjective
<1> DEFINE New(i) == [id |-> number[i], email |-> em, inbound |-> i, st |-> "on",
                      note |-> f.note, token |-> 0]
<1>7. \A i \in fresh : /\ New(i) \in Row(lastId') /\ New(i).id > lastId /\ New(i).email = em
                       /\ New(i).inbound = i /\ New(i).id = number[i]
  <2> TAKE i \in fresh
  <2>1. number[i] \in 1..lastId' /\ number[i] > lastId
    <3>1. number[i] \in (lastId + 1)..lastId'
      BY <1>6
    <3> QED
      BY <1>1, <1>4, <1>5, <3>1
  <2> QED
    BY <1>3, <2>1 DEF Row, States
<1>8. rows' = {c \in rows : c.email # em} \cup {[c EXCEPT !.note = f.note] : c \in kept}
                \cup {New(i) : i \in fresh}
  BY <1>2
<1> HIDE DEF New
<1>9. \A d \in rows' : \/ d \in rows /\ d.email # em
                       \/ \E c \in kept : d = [c EXCEPT !.note = f.note]
                       \/ \E i \in fresh : d = New(i)
  BY <1>8
<1>a. \A c \in rows : c.id <= lastId /\ c.id \in Nat /\ [c EXCEPT !.note = f.note].id = c.id
  BY <1>4 DEF Row
<1>b. ASSUME NEW d \in rows', d.id > lastId PROVE \E i \in fresh : d = New(i)
  <2>1. d \notin rows
    BY <1>4, <1>a, <1>b
  <2>2. ASSUME NEW c \in rows, d = [c EXCEPT !.note = f.note] PROVE FALSE
    BY <1>4, <1>a, <1>b, <2>2
  <2> QED
    BY <1>9, <2>1, <2>2
<1>c. ASSUME NEW d \in rows', NEW e \in rows', d.id > lastId, d.email = em, e.email = em,
             d.id = e.id \/ (d.inbound = e.inbound /\ e.id > lastId)
      PROVE  d = e
  <2>1. PICK i \in fresh : d = New(i)
    BY <1>b, <1>c
  <2>2. PICK j \in fresh : e = New(j)
    BY <1>b, <1>c
  <2> QED
    BY <1>6, <1>7, <1>c, <2>1, <2>2
<1>d. lastId' \in Nat /\ lastId <= lastId'
  BY <1>1, <1>4, <1>5
<1>e. \A c \in rows : /\ c.email # em => c \in rows'
                      /\ (c.email = em /\ c.inbound \in f.targets) => [c EXCEPT !.note = f.note] \in rows'
  BY <1>8
<1>f. \A d \in rows' : \/ d \in rows /\ d.email # em
                       \/ \E c \in rows : /\ c.email = em /\ c.inbound \in f.targets
                                          /\ d = [c EXCEPT !.note = f.note]
                       \/ /\ d \in Row(lastId') /\ d.id > lastId /\ d.email = em
                          /\ d.inbound \in fresh
  BY <1>7, <1>9
<1> QED
  BY <1>c, <1>d, <1>e, <1>f

LEMMA AssignedIsStored ==
    ASSUME TInv, NEW f \in Form, BulkAssign(f)
    PROVE  Stored'
<1>0. lastId \in Nat /\ lastId' \in Nat /\ lastId <= lastId' /\ Row(lastId) \subseteq Row(lastId')
      /\ rows \subseteq Row(lastId) /\ Unique(rows) /\ f.note \in Notes
  <2>1. lastId \in Nat /\ rows \subseteq Row(lastId) /\ Unique(rows)
    BY DEF TInv, Stored
  <2>2. lastId' \in Nat /\ lastId <= lastId'
    BY AssignedRows
  <2> QED
    BY <2>1, <2>2, StillRows DEF Form
<1> DEFINE Kept(c) == [c EXCEPT !.note = f.note]
<1>1. \A c \in rows : /\ Kept(c) \in Row(lastId)
                      /\ Kept(c).id = c.id
                      /\ Kept(c).email = c.email
                      /\ Kept(c).inbound = c.inbound
  BY <1>0 DEF Row
\* What a row of the email stands for: a row kept, or nothing yet.
<1>2. \A d \in rows' :
         \/ d \in rows /\ d.email # f.email
         \/ \E c \in rows : c.email = f.email /\ d = Kept(c)
         \/ d \in Row(lastId') /\ d.id > lastId /\ d.email = f.email
              /\ d.inbound \notin Attached(rows, f.email)
  BY AssignedRows
<1> HIDE DEF Kept
<1>3. rows' \subseteq Row(lastId')
  BY <1>0, <1>1, <1>2
<1>4. \A c \in rows : /\ c.id <= lastId /\ c.id \in Nat
                      /\ c.email = f.email => c.inbound \in Attached(rows, f.email)
  BY <1>0 DEF Row, Attached
<1>5. ASSUME NEW d \in rows', NEW e \in rows',
             d.id = e.id \/ (d.email = e.email /\ d.inbound = e.inbound)
      PROVE  d = e
  <2>1. CASE d.id > lastId /\ d.email = f.email /\ e.id > lastId /\ e.email = f.email
    BY <1>5, <2>1, AssignedRows
  <2>2. CASE ~(d.id > lastId) /\ ~(e.id > lastId)
    <3>1. PICK c \in rows : /\ c.id = d.id /\ c.email = d.email /\ c.inbound = d.inbound
                            /\ IF d.email = f.email THEN d = Kept(c) ELSE d = c
      BY <1>1, <1>2, <2>2
    <3>2. PICK b \in rows : /\ b.id = e.id /\ b.email = e.email /\ b.inbound = e.inbound
                            /\ IF e.email = f.email THEN e = Kept(b) ELSE e = b
      BY <1>1, <1>2, <2>2
    <3>3. b = c
      BY <1>0, <1>5, <3>1, <3>2 DEF Unique
    <3> QED
      BY <3>1, <3>2, <3>3
  <2>3. ASSUME NEW x \in rows', NEW y \in rows', x.id > lastId, ~(y.id > lastId),
               x.id = y.id \/ (x.email = y.email /\ x.inbound = y.inbound)
        PROVE  FALSE
    <3>0. \A c \in rows : c.id # x.id
      BY <1>0, <1>4, <2>3
    <3>1. x.email = f.email /\ x.inbound \notin Attached(rows, f.email)
      BY <1>1, <1>2, <3>0
    <3>2. y.email = x.email /\ y.inbound = x.inbound
      BY <2>3
    <3>3. PICK c \in rows : c.email = f.email /\ y = Kept(c)
      BY <1>2, <2>3, <3>1, <3>2
    <3> QED
      BY <1>1, <1>4, <3>1, <3>2, <3>3
  <2>4. ASSUME NEW x \in rows', x.id > lastId PROVE x.email = f.email
    BY <1>0, <1>1, <1>2, <1>4, <2>4
  <2> QED
    BY <1>5, <2>1, <2>2, <2>3, <2>4
<1> QED
  BY <1>0, <1>3, <1>5 DEF Stored, Unique

LEMMA SavedTyped ==
    ASSUME TInv, SaveServed \/ SaveAnswered
    PROVE  TInv'
<1>0. modal \in Form /\ save \in [st : {"idle", "sent", "served"}, form : Form] /\ lastId \in Nat
  BY DEF TInv, Formed, Stored
<1>1. CASE SaveServed
  <2>1. save.form \in Form /\ BulkAssign(save.form) /\ save' = [save EXCEPT !.st = "served"]
        /\ UNCHANGED <<lists, ops, modal, links>>
    BY <1>0, <1>1 DEF SaveServed
  <2>2. Stored' /\ lastId' \in Nat /\ lastId <= lastId'
    BY <2>1, AssignedIsStored, AssignedRows
  <2>3. Listed(lastId') /\ Fanned(lastId') /\ Shared(lastId') /\ Turned(lastId')
    BY <1>0, <2>2, StillTyped DEF TInv
  <2>4. (Listed(lastId) /\ Fanned(lastId) /\ Shared(lastId) /\ Turned(lastId))'
    BY <2>1, <2>3 DEF Listed, Fanned, Shared, Turned, lists, links
  <2>5. Formed'
    BY <1>0, <2>1 DEF Formed
  <2> QED
    BY <2>2, <2>4, <2>5 DEF TInv
<1>2. CASE SaveAnswered
  <2>1. modal' = Closed /\ save' = NoSave /\ Invalidate
        /\ UNCHANGED <<rows, lastId, filter, shown, cache, ops, links>>
    BY <1>2 DEF SaveAnswered
  <2>2. fetch' \in [Keys -> FetchOf(lastId)]
    BY <1>0, <2>1, AskIsTyped DEF Invalidate, TInv, Listed
  <2>3. Formed' /\ Listed(lastId)'
    BY <2>1, <2>2, ClosedIsTyped DEF Formed, NoSave, TInv, Listed
  <2>4. Stored' /\ Fanned(lastId)' /\ Shared(lastId)' /\ Turned(lastId)'
    BY <2>1 DEF TInv, Stored, Unique, Fanned, Shared, Turned, links
  <2> QED
    BY <2>3, <2>4 DEF TInv
<1> QED
  BY <1>1, <1>2
LEMMA ShareStepsTyped ==
    ASSUME TInv,
           \/ \E e \in Emails : OpenShare(e)
           \/ \E i \in 1..MaxIds : SwitchInbound(i)
           \/ \E a \in asks : LinkServed(a) \/ LinkAnswered(a) \/ LinkFails(a)
           \/ CloseShare \/ RotateSubToken \/ RotateFails
    PROVE  TInv'
<1>0. /\ DOMAIN share = {"open", "group", "current", "fresh"}
      /\ share.open \in BOOLEAN /\ share.group \subseteq Row(lastId) /\ share.fresh \in BOOLEAN
      /\ DOMAIN rotate = {"st", "row", "got"}
      /\ rotate.st \in {"idle", "sent", "served"} /\ rotate.got \subseteq Row(lastId)
      /\ shown \in Keys /\ cache \in [Keys -> ListOf(lastId)]
      /\ \A a \in asks : a.group \subseteq Row(lastId)
  BY DEF TInv, Shared, Turned, Listed
<1>1. UNCHANGED <<rows, lastId, lists, ops, forms>>
  BY DEF OpenShare, SwitchInbound, LinkServed, LinkAnswered, LinkFails, CloseShare, RotateSubToken, RotateFails
<1>2. Stored' /\ Listed(lastId)' /\ Fanned(lastId)' /\ Formed'
  BY <1>1 DEF TInv, Stored, Unique, Listed, Fanned, Formed, lists, forms
<1>3. Shared(lastId)' /\ Turned(lastId)'
  <2>1. CASE \E e \in Emails : OpenShare(e)
    <3>1. PICK e \in Emails : OpenShare(e)
      BY <2>1
    <3>2. Group(e) \subseteq Row(lastId)
      BY <1>0 DEF Group, ListOf
    <3> QED
      <4>1. lastId' = lastId /\ share' = share /\ rotate' = rotate
        BY <3>1 DEF OpenShare
      <4>2. ASSUME NEW b \in asks' PROVE b.group \subseteq Row(lastId)
        <5>1. PICK g \in {Group(e)} \cup {a.group : a \in asks} : b.group = g
          <6>1. \/ \E a \in asks : b = IF a.kind = "open" THEN [a EXCEPT !.last = FALSE] ELSE a
                \/ b = [kind |-> "open", st |-> "asked", email |-> e, group |-> Group(e),
                        row |-> First(Group(e)).id, last |-> TRUE]
            BY <3>1 DEF OpenShare
          <6>2. \A a : [a EXCEPT !.last = FALSE].group = a.group
            OBVIOUS
          <6> QED
            BY <6>1, <6>2
        <5> QED
          BY <1>0, <3>2, <5>1
      <4> QED
        BY <1>0, <4>1, <4>2 DEF Shared, Turned
  <2>2. CASE \E i \in 1..MaxIds : SwitchInbound(i)
    <3>1. PICK i \in 1..MaxIds : SwitchInbound(i)
      BY <2>2
    <3>2. lastId' = lastId /\ share' = share /\ rotate' = rotate
      BY <3>1 DEF SwitchInbound
    <3>3. \A b \in asks' : b \in asks \/ b.group = {}
      BY <3>1 DEF SwitchInbound
    <3>4. \A b \in asks' : b.group \subseteq Row(lastId)
      BY <1>0, <3>3
    <3> QED
      BY <1>0, <3>2, <3>4 DEF Shared, Turned
  <2>6. CASE \E a \in asks : LinkServed(a) \/ LinkAnswered(a) \/ LinkFails(a)
    <3>1. PICK a \in asks : LinkServed(a) \/ LinkAnswered(a) \/ LinkFails(a)
      BY <2>6
    <3>2. /\ lastId' = lastId /\ rotate' = rotate /\ a.group \subseteq Row(lastId)
          /\ asks' = asks \ {a} \/ asks' = (asks \ {a}) \cup {[a EXCEPT !.st = "read"]}
      BY <1>0, <3>1 DEF LinkServed, LinkAnswered, LinkFails
    <3>3. \A b \in asks' : b.group \subseteq Row(lastId)
      <4>1. [a EXCEPT !.st = "read"].group = a.group
        OBVIOUS
      <4> QED
        BY <1>0, <3>2, <4>1
    <3>4. \/ share' = share
          \/ share' = [open |-> TRUE, group |-> a.group, current |-> a.row,
                       fresh |-> Resolving(a.group)]
          \/ share' = [share EXCEPT !.current = a.row]
      BY <3>1 DEF LinkServed, LinkAnswered, LinkFails
    <3>5. Resolving(a.group) \in BOOLEAN
      BY DEF Resolving
    <3>6. Shared(lastId)'
      <4>1. CASE share' = share
        BY <1>0, <3>2, <3>3, <4>1 DEF Shared
      <4>2. CASE share' = [open |-> TRUE, group |-> a.group, current |-> a.row,
                           fresh |-> Resolving(a.group)]
        BY <3>2, <3>3, <3>5, <4>2 DEF Shared
      <4>3. CASE share' = [share EXCEPT !.current = a.row]
        BY <1>0, <3>2, <3>3, <4>3 DEF Shared
      <4> QED
        BY <3>4, <4>1, <4>2, <4>3
    <3> QED
      BY <1>0, <3>2, <3>6 DEF Turned
  <2>3. CASE CloseShare
    BY <1>0, <1>1, <2>3 DEF CloseShare, Shared, Turned, NoShare
  <2>4. CASE RotateSubToken
    BY <1>0, <1>1, <2>4 DEF RotateSubToken, Shared, Turned, NoTurn
  <2>5. CASE RotateFails
    BY <1>0, <1>1, <2>5 DEF RotateFails, Shared, Turned, NoTurn
  <2> QED
    BY <2>1, <2>2, <2>3, <2>4, <2>5, <2>6
<1> QED
  BY <1>2, <1>3 DEF TInv

\* The row whose token is rotated, as it is and as it is answered.
LEMMA RotatedRow ==
    ASSUME TInv, RotateServed
    PROVE  LET r == RowOf(rotate.row)
               u == [r EXCEPT !.token = @ + 1]
           IN /\ r \in rows /\ r.id = rotate.row /\ u \in Row(lastId)
              /\ u.id = r.id /\ u.email = r.email /\ u.inbound = r.inbound
              /\ rows' = (rows \ {r}) \cup {u} /\ lastId' = lastId
              /\ rotate' = [rotate EXCEPT !.st = "served", !.got = {u}]
<1>1. RowOf(rotate.row) \in rows /\ RowOf(rotate.row).id = rotate.row
  BY RowOfIs DEF RotateServed
<1>2. RowOf(rotate.row) \in Row(lastId)
  BY <1>1 DEF TInv, Stored
<1>3. LET u == [RowOf(rotate.row) EXCEPT !.token = @ + 1]
      IN u \in Row(lastId) /\ u.id = RowOf(rotate.row).id
           /\ u.email = RowOf(rotate.row).email /\ u.inbound = RowOf(rotate.row).inbound
  BY <1>2 DEF Row
<1> QED
  BY <1>1, <1>3 DEF RotateServed

LEMMA RotationTyped ==
    ASSUME TInv, RotateServed \/ RotateAnswered
    PROVE  TInv'
<1>0. /\ DOMAIN share = {"open", "group", "current", "fresh"}
      /\ share.open \in BOOLEAN /\ share.group \subseteq Row(lastId) /\ share.fresh \in BOOLEAN
      /\ DOMAIN rotate = {"st", "row", "got"}
      /\ rotate.st \in {"idle", "sent", "served"} /\ rotate.got \subseteq Row(lastId)
      /\ lastId \in Nat
  BY DEF TInv, Shared, Turned, Stored
<1>1. CASE RotateServed
  <2> DEFINE r == RowOf(rotate.row)
             u == [r EXCEPT !.token = @ + 1]
  <2>1. /\ r \in rows /\ u \in Row(lastId)
        /\ u.id = r.id /\ u.email = r.email /\ u.inbound = r.inbound
        /\ rows' = (rows \ {r}) \cup {u} /\ lastId' = lastId
        /\ rotate' = [rotate EXCEPT !.st = "served", !.got = {u}]
    BY <1>1, RotatedRow
  <2>2. UNCHANGED <<lists, ops, forms, asks, share>>
    BY <1>1 DEF RotateServed
  <2> HIDE DEF r, u
  <2>3. Stored'
    <3> DEFINE S == {u}
    <3>1. Stored /\ r \in rows /\ rows' = (rows \ {r}) \cup S /\ lastId' = lastId
      BY <2>1 DEF TInv
    <3>2. \A d \in S : d \in Row(lastId) /\ d.id = r.id /\ d.email = r.email /\ d.inbound = r.inbound
      BY <2>1
    <3>3. \A c, d \in S : c = d
      OBVIOUS
    <3> HIDE DEF S
    <3> QED
      BY <3>1, <3>2, <3>3, RewrittenIsStored
  <2>4. Turned(lastId)'
    BY <1>0, <2>1 DEF Turned
  <2>5. Listed(lastId)' /\ Fanned(lastId)' /\ Formed' /\ Shared(lastId)'
    BY <2>1, <2>2 DEF TInv, Listed, Fanned, Formed, Shared, lists, forms
  <2> QED
    BY <2>3, <2>4, <2>5 DEF TInv
<1>2. CASE RotateAnswered
  <2>1. PICK u \in rotate.got :
          share' = IF share.open THEN [share EXCEPT !.group = PatchGroup(u)] ELSE share
    BY <1>2 DEF RotateAnswered
  <2>2. PatchGroup(u) \subseteq Row(lastId)
    BY <1>0, <2>1 DEF PatchGroup
  <2>3. Shared(lastId)
    BY DEF TInv
  <2>4. rotate' = NoTurn /\ Invalidate
        /\ UNCHANGED <<rows, lastId, filter, shown, cache, ops, forms, asks>>
    BY <1>2 DEF RotateAnswered
  <2>5. Shared(lastId)' /\ Turned(lastId)'
    BY <1>0, <2>1, <2>2, <2>3, <2>4 DEF Shared, Turned, NoTurn
  <2>6. fetch' \in [Keys -> FetchOf(lastId)]
    BY <1>0, <2>4, AskIsTyped DEF Invalidate, TInv, Listed
  <2>7. Stored' /\ Listed(lastId)' /\ Fanned(lastId)' /\ Formed'
    BY <2>4, <2>6 DEF TInv, Stored, Unique, Listed, Fanned, Formed, forms
  <2> QED
    BY <2>5, <2>7 DEF TInv
<1> QED
  BY <1>1, <1>2

\* What a quota that trips leaves of a row.
Tripped(e, c) == IF c.email = e /\ c.st = "on" THEN [c EXCEPT !.st = "quota"] ELSE c

LEMMA TrippedIs ==
    ASSUME NEW n, NEW e, NEW c \in Row(n)
    PROVE  LET d == Tripped(e, c)
           IN d \in Row(n) /\ d.id = c.id /\ d.email = c.email /\ d.inbound = c.inbound
                /\ d.token = c.token
  BY DEF Tripped, Row, States

LEMMA ForeignTyped ==
    ASSUME TInv,
           \/ \E e \in Emails : QuotaTrips(e)
           \/ \E i \in Inbounds, e \in Emails : ForeignAttach(e, i)
    PROVE  TInv'
<1>0. lastId \in Nat /\ rows \subseteq Row(lastId) /\ Unique(rows)
  BY DEF TInv, Stored
<1>1. CASE \E e \in Emails : QuotaTrips(e)
  <2>1. PICK e \in Emails : QuotaTrips(e)
    BY <1>1
  <2>2. rows' = {Tripped(e, c) : c \in rows} /\ UNCHANGED <<lastId, lists, ops, forms, links>>
    BY <2>1 DEF QuotaTrips, Tripped
  <2>3. \A c \in rows : LET d == Tripped(e, c)
                        IN d \in Row(lastId) /\ d.id = c.id /\ d.email = c.email /\ d.inbound = c.inbound
    BY <1>0, TrippedIs
  <2>4. Stored'
    <3>1. rows' \subseteq Row(lastId')
      BY <2>2, <2>3
    <3>2. ASSUME NEW x \in rows', NEW y \in rows',
                 x.id = y.id \/ (x.email = y.email /\ x.inbound = y.inbound)
          PROVE  x = y
      <4>1. PICK c \in rows : x = Tripped(e, c)
        BY <2>2
      <4>2. PICK d \in rows : y = Tripped(e, d)
        BY <2>2
      <4>3. c = d
        BY <1>0, <2>3, <3>2, <4>1, <4>2 DEF Unique
      <4> QED
        BY <4>1, <4>2, <4>3
    <3> QED
      BY <1>0, <2>2, <3>1, <3>2 DEF Stored, Unique
  <2>5. Listed(lastId)' /\ Fanned(lastId)' /\ Formed' /\ Shared(lastId)' /\ Turned(lastId)'
    BY <2>2 DEF TInv, Listed, Fanned, Formed, Shared, Turned, lists, forms, links
  <2> QED
    BY <2>4, <2>5 DEF TInv
<1>2. CASE \E i \in Inbounds, e \in Emails : ForeignAttach(e, i)
  <2>1. PICK i \in Inbounds, e \in Emails : ForeignAttach(e, i)
    BY <1>2
  <2> DEFINE new == [id |-> lastId', email |-> e, inbound |-> i, st |-> "on",
                     note |-> Closed.note, token |-> 0]
  <2>2. /\ i \notin Attached(rows, e) /\ lastId' = lastId + 1 /\ rows' = rows \cup {new}
        /\ UNCHANGED <<lists, ops, forms, links>>
    BY <2>1 DEF ForeignAttach
  <2>3. lastId' \in Nat /\ lastId <= lastId'
    BY <1>0, <2>2
  <2>4. new \in Row(lastId') /\ new.id = lastId' /\ new.email = e /\ new.inbound = i
    BY <2>3, <2>2, <1>0, ClosedIsTyped DEF Row, States
  <2> HIDE DEF new
  <2>5. Row(lastId) \subseteq Row(lastId')
    BY <1>0, <2>3, StillRows
  <2>6. \A c \in rows : c.id # new.id /\ ~(c.email = new.email /\ c.inbound = new.inbound)
    BY <1>0, <2>2, <2>4 DEF Attached, Row
  <2>7. Stored'
    BY <1>0, <2>2, <2>3, <2>4, <2>5, <2>6 DEF Stored, Unique
  <2>8. Listed(lastId') /\ Fanned(lastId') /\ Shared(lastId') /\ Turned(lastId')
    BY <1>0, <2>3, StillTyped DEF TInv
  <2>9. Listed(lastId)' /\ Fanned(lastId)' /\ Formed' /\ Shared(lastId)' /\ Turned(lastId)'
    BY <2>2, <2>8 DEF TInv, Listed, Fanned, Formed, Shared, Turned, lists, forms, links
  <2> QED
    BY <2>7, <2>9 DEF TInv
<1> QED
  BY <1>1, <1>2

LEMMA StepTyped == TInv /\ [Next]_vars => TInv'
<1> SUFFICES ASSUME TInv, [Next]_vars PROVE TInv'
  OBVIOUS
<1>1. CASE Next
  BY <1>1, ListStepsTyped, FanTyped, ServeOneTyped, SettledTyped, FormStepsTyped, SavedTyped,
     ShareStepsTyped, RotationTyped, ForeignTyped DEF Next, Kinds
<1>2. CASE UNCHANGED vars
  BY <1>2 DEF vars, lists, forms, links, TInv, Stored, Unique, Listed, Fanned, Formed, Shared, Turned
<1> QED
  BY <1>1, <1>2

LEMMA SpecTInv == Spec => []TInv
  BY InitTyped, StepTyped, PTL DEF Spec

\* The rows stay well formed, with one id each and one row per inbound of an
\* email, and nothing the page keeps of them, asks for or counts gets out of
\* shape (pages/Clients.tsx, api/clients.rs).
THEOREM TypeCorrect == Spec => []TypeOK
<1>1. TInv => TypeOK
  <2> SUFFICES ASSUME TInv PROVE TypeOK
    OBVIOUS
  <2>1. \A c \in rows : c.id \in 1..lastId /\ c.st \in {"on", "manual", "quota"} /\ c.token \in Nat
    BY DEF TInv, Stored, Row, States
  <2>2. \A k \in Keys : cache[k].have \in BOOLEAN /\ fetch[k].st \in {"idle", "asked", "read"}
    BY DEF TInv, Listed, ListOf, FetchOf
  <2>3. ASSUME NEW o \in Ops
        PROVE  ops[o].todo \subseteq ops[o].ids /\ ops[o].failed <= Cardinality(ops[o].ids)
    <3>1. ops[o] \in OpOf(lastId) /\ lastId \in Nat
      BY DEF TInv, Fanned, Stored
    <3>2. Cardinality(ops[o].todo) \in Nat /\ Cardinality(ops[o].ids) \in Nat /\ ops[o].failed \in Nat
      BY <3>1, IdsAreFinite DEF OpOf
    <3>3. ops[o].failed + Cardinality(ops[o].todo) <= Cardinality(ops[o].ids)
          /\ ops[o].todo \subseteq ops[o].ids
      BY DEF TInv, Fanned
    <3> QED
      BY <3>2, <3>3
  <2>4. modal.targets \subseteq Inbounds /\ modal.st \in {"closed", "create", "edit"}
        /\ save.st \in {"idle", "sent", "served"} /\ rotate.st \in {"idle", "sent", "served"}
    BY DEF TInv, Formed, Form, Turned
  <2>5. \A a \in asks : \A c \in a.group : c.id \in 1..lastId
    BY DEF TInv, Shared, Row
  <2> QED
    BY <2>1, <2>2, <2>3, <2>4, <2>5 DEF TypeOK, TInv, Stored, Unique, Listed
<1> QED
  BY <1>1, SpecTInv, PTL
-----------------------------------------------------------------------------
(* What the steps do to the rows: an id keeps its email and inbound, and,   *)
(* rotations aside, its token; new rows come under new ids.                 *)

Kin(c, d) == c.id = d.id /\ c.email = d.email /\ c.inbound = d.inbound

Stays == \A d \in rows' : \E c \in rows : Kin(c, d)

TokensStay == \A d \in rows' : d.id > lastId \/ \E c \in rows : c.id = d.id /\ c.token = d.token

LEMMA UntouchedStay ==
    ASSUME UNCHANGED rows
    PROVE  Stays /\ TokensStay
  BY DEF Stays, TokensStay, Kin

LEMMA RewritesStay ==
    ASSUME TInv, \/ \E o \in Ops, i \in 1..MaxIds : ServeOne(o, i)
                 \/ \E e \in Emails : QuotaTrips(e)
    PROVE  Stays /\ TokensStay
<1>1. CASE \E o \in Ops, i \in 1..MaxIds : ServeOne(o, i)
  <2>1. PICK o \in Ops, i \in 1..MaxIds : ServeOne(o, i)
    BY <1>1
  <2>2. UNCHANGED rows \/ Served(ops[o], i)
    BY <2>1 DEF ServeOne
  <2>3. CASE UNCHANGED rows \/ ~Exists(i)
    <3>1. UNCHANGED rows
      BY <2>2, <2>3 DEF Served
    <3> QED
      BY <3>1, UntouchedStay
  <2>4. CASE Served(ops[o], i) /\ Exists(i)
    <3> DEFINE r == RowOf(i)
    <3>1. r \in rows /\ rows' = (rows \ {r}) \cup Applied(ops[o], r)
      BY <2>4, RowOfIs DEF Served
    <3>2. r \in Row(lastId) /\ ops[o] \in OpOf(lastId) /\ lastId \in Nat
      BY <3>1 DEF TInv, Stored, Fanned
    <3>3. \A d \in Applied(ops[o], r) : Kin(r, d) /\ r.token = d.token
      BY <3>2, AppliedIs DEF Kin
    <3> HIDE DEF r
    <3>4. \A d \in rows' : \E c \in rows : Kin(c, d) /\ c.token = d.token
      BY <3>1, <3>3 DEF Kin
    <3> QED
      BY <3>4 DEF Stays, TokensStay, Kin
  <2> QED
    BY <2>2, <2>3, <2>4
<1>2. CASE \E e \in Emails : QuotaTrips(e)
  <2>1. PICK e \in Emails : QuotaTrips(e)
    BY <1>2
  <2>2. rows' = {Tripped(e, c) : c \in rows}
    BY <2>1 DEF QuotaTrips, Tripped
  <2>3. \A c \in rows : Kin(c, Tripped(e, c)) /\ c.token = Tripped(e, c).token
    BY TrippedIs DEF TInv, Stored, Kin
  <2> QED
    BY <2>2, <2>3 DEF Stays, TokensStay, Kin
<1> QED
  BY <1>1, <1>2

LEMMA NewRowsStay ==
    ASSUME TInv, \/ SaveServed
                 \/ \E i \in Inbounds, e \in Emails : ForeignAttach(e, i)
    PROVE  TokensStay
<1>0. lastId \in Nat /\ rows \subseteq Row(lastId)
  BY DEF TInv, Stored
<1>1. CASE SaveServed
  <2>1. save.form \in Form /\ BulkAssign(save.form)
    BY <1>1 DEF SaveServed, TInv, Formed
  <2>2. \A d \in rows' :
           \/ d \in rows
           \/ \E c \in rows : d = [c EXCEPT !.note = save.form.note]
           \/ d.id > lastId
    BY <2>1, AssignedRows
  <2>3. \A c \in rows : /\ [c EXCEPT !.note = save.form.note].id = c.id
                        /\ [c EXCEPT !.note = save.form.note].token = c.token
    BY <1>0 DEF Row
  <2> QED
    BY <2>2, <2>3 DEF TokensStay
<1>2. CASE \E i \in Inbounds, e \in Emails : ForeignAttach(e, i)
  <2>1. PICK i \in Inbounds, e \in Emails : ForeignAttach(e, i)
    BY <1>2
  <2>2. /\ lastId' = lastId + 1
        /\ rows' = rows \cup {[id |-> lastId', email |-> e, inbound |-> i, st |-> "on",
                               note |-> Closed.note, token |-> 0]}
    BY <2>1 DEF ForeignAttach
  <2>3. lastId' > lastId
    BY <1>0, <2>2
  <2> QED
    BY <2>2, <2>3 DEF TokensStay
<1> QED
  BY <1>1, <1>2

\* What happened is never forgotten.
LEMMA SeenGrows == [Next]_vars => seen \subseteq seen'
  BY DEF Next, vars, lists, forms, links, Calmly, Suffer,
     Poll, GetAnswered, GetDelivered, GetFails, PickFilter, Fan, ServeOne, Settled, OpenEdit, OpenCreate,
     Choose, Cancel, Submit, SaveServed, SaveAnswered, SaveFails, OpenShare, SwitchInbound,
     LinkServed, LinkAnswered, LinkFails, CloseShare, RotateSubToken, RotateServed, RotateAnswered, RotateFails, QuotaTrips, ForeignAttach

-----------------------------------------------------------------------------
(* The share dialog.                                                       *)

\* A copy of a row tells the row's token.
Tells(c) == \A r \in rows : r.id = c.id => r.token = c.token

\* Between the panel's rotation and the answer, only the rotated row's copy in
\* the dialog is behind, and the answer tells what it should be.
Resolves ==
    (share.open /\ share.fresh /\ "fault" \notin seen)
      => \A c \in share.group : Tells(c) \/ (rotate.st = "served" /\ c.id = rotate.row)
Answer ==
    rotate.st = "served" =>
        rotate.got # {} /\ \A u \in rotate.got : u.id = rotate.row /\ Tells(u)

UInv == Resolves /\ Answer

LEMMA StillTells ==
    ASSUME TInv, TokensStay, NEW c \in Row(lastId), Tells(c)
    PROVE  Tells(c)'
<1>1. c.id <= lastId /\ c.id \in Nat /\ lastId \in Nat
  BY DEF TInv, Stored, Row
<1>2. ASSUME NEW r \in rows', r.id = c.id PROVE r.token = c.token
  <2>1. \E b \in rows : b.id = r.id /\ b.token = r.token
    BY <1>1, <1>2 DEF TokensStay
  <2> QED
    BY <1>2, <2>1 DEF Tells
<1> QED
  BY <1>2 DEF Tells

LEMMA DialogLeftAlone ==
    ASSUME TInv, UInv, TokensStay, UNCHANGED links, seen \subseteq seen'
    PROVE  UInv'
<1>1. share' = share /\ rotate' = rotate
  BY DEF links
<1>2. share.group \subseteq Row(lastId) /\ rotate.got \subseteq Row(lastId)
  BY DEF TInv, Shared, Turned
<1>3. Resolves'
  BY <1>1, <1>2, StillTells DEF UInv, Resolves
<1>4. Answer'
  BY <1>1, <1>2, StillTells DEF UInv, Answer
<1> QED
  BY <1>3, <1>4 DEF UInv

LEMMA ShareStepsResolve ==
    ASSUME TInv, UInv, seen \subseteq seen',
           \/ \E e \in Emails : OpenShare(e)
           \/ \E i \in 1..MaxIds : SwitchInbound(i)
           \/ \E a \in asks : LinkServed(a) \/ LinkAnswered(a) \/ LinkFails(a)
           \/ CloseShare \/ RotateSubToken \/ RotateFails
    PROVE  UInv'
<1>0. /\ DOMAIN share = {"open", "group", "current", "fresh"}
      /\ DOMAIN rotate = {"st", "row", "got"} /\ rotate.st \in {"idle", "sent", "served"}
      /\ Unique(rows) /\ Resolves /\ Answer
  BY DEF TInv, Shared, Turned, Stored, UInv
<1>1. rows' = rows
  BY DEF OpenShare, SwitchInbound, LinkServed, LinkAnswered, LinkFails, CloseShare, RotateSubToken, RotateFails
<1>2. \A c : Tells(c) => Tells(c)'
  BY <1>1 DEF Tells
<1>3. CASE \E e \in Emails : OpenShare(e)
  <2>1. rotate' = rotate /\ share' = share
    BY <1>3 DEF OpenShare
  <2> QED
    BY <1>0, <1>2, <2>1 DEF UInv, Resolves, Answer
<1>4. CASE \E i \in 1..MaxIds : SwitchInbound(i)
  <2>1. rotate' = rotate /\ share' = share
    BY <1>4 DEF SwitchInbound
  <2> QED
    BY <1>0, <1>2, <2>1 DEF UInv, Resolves, Answer
<1>8. CASE \E a \in asks : LinkServed(a) \/ LinkAnswered(a) \/ LinkFails(a)
  <2>1. PICK a \in asks : LinkServed(a) \/ LinkAnswered(a) \/ LinkFails(a)
    BY <1>8
  <2>2. /\ rotate' = rotate
        /\ \/ share' = share
           \/ share' = [open |-> TRUE, group |-> a.group, current |-> a.row,
                        fresh |-> Resolving(a.group)]
           \/ share' = [share EXCEPT !.current = a.row]
    BY <2>1 DEF LinkServed, LinkAnswered, LinkFails
  <2>3. ASSUME Resolving(a.group), NEW c \in a.group PROVE Tells(c)
    <3>1. ASSUME NEW r \in rows, r.id = c.id PROVE r.token = c.token
      <4>1. Exists(c.id)
        BY <3>1 DEF Exists, Ids
      <4>2. RowOf(c.id) = r
        BY <1>0, <3>1, <4>1, RowOfIs DEF Unique
      <4> QED
        BY <2>3, <4>1, <4>2 DEF Resolving
    <3> QED
      BY <3>1 DEF Tells
  <2>4. CASE share' = [open |-> TRUE, group |-> a.group, current |-> a.row,
                       fresh |-> Resolving(a.group)]
    <3>1. share'.group = a.group /\ (share'.fresh => Resolving(a.group))
      BY <2>4
    <3> QED
      BY <1>0, <1>2, <2>2, <2>3, <3>1 DEF UInv, Resolves, Answer
  <2>5. CASE share' = share \/ share' = [share EXCEPT !.current = a.row]
    <3>1. share'.group = share.group /\ share'.open = share.open /\ share'.fresh = share.fresh
      BY <1>0, <2>5
    <3> QED
      BY <1>0, <1>2, <2>2, <3>1 DEF UInv, Resolves, Answer
  <2> QED
    BY <2>2, <2>4, <2>5
<1>5. CASE CloseShare
  <2>1. rotate' = rotate /\ share'.open = FALSE
    BY <1>5 DEF CloseShare, NoShare
  <2> QED
    BY <1>0, <1>2, <2>1 DEF UInv, Resolves, Answer
<1>6. CASE RotateSubToken
  <2>1. rotate.st = "idle" /\ rotate'.st = "sent" /\ share' = share
    BY <1>6 DEF RotateSubToken, NoTurn
  <2> QED
    BY <1>0, <1>2, <2>1 DEF UInv, Resolves, Answer
<1>7. CASE RotateFails
  <2>1. rotate'.st = "idle" /\ share' = share
        /\ (rotate.st = "sent" \/ "fault" \in seen')
    BY <1>7 DEF RotateFails, NoTurn, Suffer
  <2> QED
    BY <1>0, <1>2, <2>1 DEF UInv, Resolves, Answer
<1> QED
  BY <1>3, <1>4, <1>5, <1>6, <1>7, <1>8

LEMMA RotationResolves ==
    ASSUME TInv, UInv, seen \subseteq seen', RotateServed \/ RotateAnswered
    PROVE  UInv'
<1>0. /\ DOMAIN share = {"open", "group", "current", "fresh"}
      /\ DOMAIN rotate = {"st", "row", "got"}
      /\ Resolves /\ Answer /\ Unique(rows)
  BY DEF TInv, Shared, Turned, Stored, UInv
<1>1. CASE RotateServed
  <2>1. PICK r, u :
        /\ r \in rows /\ r.id = rotate.row /\ u.id = r.id
        /\ rows' = (rows \ {r}) \cup {u}
        /\ rotate' = [rotate EXCEPT !.st = "served", !.got = {u}]
    BY <1>1, RotatedRow
  <2>2. share' = share /\ rotate.st = "sent" /\ seen' = seen
    BY <1>1 DEF RotateServed
  <2>3. rotate'.st = "served" /\ rotate'.got = {u} /\ rotate'.row = rotate.row
    BY <1>0, <2>1
  <2>4. Tells(u)'
    BY <1>0, <2>1 DEF Tells, Unique
  <2>5. ASSUME NEW c, Tells(c), c.id # rotate.row PROVE Tells(c)'
    BY <2>1, <2>5 DEF Tells
  <2> QED
    BY <1>0, <2>1, <2>2, <2>3, <2>4, <2>5 DEF UInv, Resolves, Answer
<1>2. CASE RotateAnswered
  <2>1. /\ rotate.st = "served" /\ rotate' = NoTurn /\ rows' = rows /\ seen' = seen
        /\ \E u \in rotate.got :
              share' = IF share.open THEN [share EXCEPT !.group = PatchGroup(u)] ELSE share
    BY <1>2 DEF RotateAnswered
  <2>2. PICK u \in rotate.got :
              share' = IF share.open THEN [share EXCEPT !.group = PatchGroup(u)] ELSE share
    BY <2>1
  <2>3. u.id = rotate.row /\ Tells(u)
    BY <1>0, <2>1 DEF Answer
  <2>4. \A c : Tells(c) => Tells(c)'
    BY <2>1 DEF Tells
  <2>5. ASSUME share'.open, share'.fresh, "fault" \notin seen', NEW c \in share'.group
        PROVE  Tells(c)'
    <3>1. share.open /\ share.fresh /\ share'.group = PatchGroup(u)
      BY <1>0, <2>2, <2>5
    <3>2. PICK b \in share.group : c = IF b.id = u.id THEN u ELSE b
      BY <2>5, <3>1 DEF PatchGroup
    <3>3. Tells(b) \/ b.id = rotate.row
      BY <1>0, <2>1, <2>5, <3>1 DEF Resolves
    <3> QED
      BY <2>3, <2>4, <3>2, <3>3
  <2> QED
    BY <2>1, <2>5 DEF UInv, Resolves, Answer, NoTurn
<1> QED
  BY <1>1, <1>2
LEMMA InitUInv == Init => UInv
  BY DEF Init, UInv, Resolves, Answer, NoShare, NoTurn

LEMMA StepUInv == TInv /\ UInv /\ [Next]_vars => UInv'
<1> SUFFICES ASSUME TInv, UInv, [Next]_vars PROVE UInv'
  OBVIOUS
<1>0. seen \subseteq seen'
  BY SeenGrows
<1>1. CASE \/ \E k \in Keys : Poll(k) \/ GetAnswered(k) \/ GetDelivered(k) \/ GetFails(k) \/ PickFilter(k)
           \/ \E o \in Ops : \/ \E kind \in Kinds, e \in Emails : Fan(o, kind, e)
                             \/ Settled(o)
           \/ \E e \in Emails : OpenEdit(e) \/ OpenCreate(e)
           \/ \E i \in Inbounds : Choose(i)
           \/ Cancel \/ Submit \/ SaveAnswered \/ SaveFails
           \/ UNCHANGED vars
  <2>1. UNCHANGED <<rows, links>>
    BY <1>1 DEF Poll, GetAnswered, GetDelivered, GetFails, PickFilter, Fan, Settled, OpenEdit, OpenCreate,
         Choose, Cancel, Submit, SaveAnswered, SaveFails, vars, links
  <2> QED
    BY <1>0, <2>1, UntouchedStay, DialogLeftAlone
<1>2. CASE \/ \E o \in Ops, i \in 1..MaxIds : ServeOne(o, i)
           \/ \E e \in Emails : QuotaTrips(e)
  <2>1. UNCHANGED links
    BY <1>2 DEF ServeOne, QuotaTrips
  <2> QED
    BY <1>0, <1>2, <2>1, RewritesStay, DialogLeftAlone
<1>3. CASE SaveServed \/ \E i \in Inbounds, e \in Emails : ForeignAttach(e, i)
  <2>1. UNCHANGED links
    BY <1>3 DEF SaveServed, ForeignAttach
  <2> QED
    BY <1>0, <1>3, <2>1, NewRowsStay, DialogLeftAlone
<1>4. CASE \/ \E e \in Emails : OpenShare(e)
           \/ \E i \in 1..MaxIds : SwitchInbound(i)
           \/ \E a \in asks : LinkServed(a) \/ LinkAnswered(a) \/ LinkFails(a)
           \/ CloseShare \/ RotateSubToken \/ RotateFails
  BY <1>0, <1>4, ShareStepsResolve
<1>5. CASE RotateServed \/ RotateAnswered
  BY <1>0, <1>5, RotationResolves
<1> QED
  BY <1>1, <1>2, <1>3, <1>4, <1>5 DEF Next, Kinds

LEMMA SpecUInv == Spec => []UInv
  BY SpecTInv, InitUInv, StepUInv, PTL DEF Spec

\* The subscription URL the dialog shows carries the stored token, whatever is
\* toggled, saved, deleted and read again around it, once the rotation asked for
\* has been answered (Clients.tsx, the rotate mutation's onSuccess).
THEOREM UrlResolves == Spec => []ShownUrlResolves
<1>1. TInv /\ UInv => ShownUrlResolves
  <2> SUFFICES ASSUME UInv, share.open, share.fresh, rotate.st = "idle", "fault" \notin seen,
                      NEW c \in share.group, Exists(c.id)
               PROVE  RowOf(c.id).token = c.token
    BY DEF ShownUrlResolves, Resolving
  <2>1. Tells(c)
    BY DEF UInv, Resolves
  <2> QED
    BY <2>1, RowOfIs DEF Tells
<1> QED
  BY <1>1, SpecTInv, SpecUInv, PTL

-----------------------------------------------------------------------------
(* The edit form.                                                          *)

\* Every attachment of the form's email is still selected, or was deselected.
Accounts(f) == \A c \in rows : c.email = f.email => c.inbound \in f.targets \cup f.dropped

EInv ==
    seen = {} =>
        /\ (modal.st = "edit" /\ modal.fresh /\ save.st = "idle") => Accounts(modal)
        /\ (save.st = "sent" /\ save.form.st = "edit" /\ save.form.fresh) => Accounts(save.form)

\* A form goes on accounting for the attachments while none is added.
LEMMA StillAccounts ==
    ASSUME Stays, NEW f, Accounts(f)
    PROVE  \A c \in rows' : c.email = f.email => c.inbound \in f.targets \cup f.dropped
  BY DEF Stays, Accounts, Kin

LEMMA FormLeftAlone ==
    ASSUME EInv, Stays, UNCHANGED forms, seen \subseteq seen'
    PROVE  EInv'
<1>1. modal' = modal /\ save' = save
  BY DEF forms
<1>2. seen' = {} => seen = {}
  OBVIOUS
<1>3. ASSUME NEW f, Accounts(f)
      PROVE  \A c \in rows' : c.email = f.email => c.inbound \in f.targets \cup f.dropped
  BY <1>3, StillAccounts
<1> QED
  BY <1>1, <1>2, <1>3 DEF EInv, Accounts

LEMMA FormStepsAccount ==
    ASSUME TInv, EInv, seen \subseteq seen',
           \/ \E e \in Emails : OpenEdit(e) \/ OpenCreate(e)
           \/ \E i \in Inbounds : Choose(i)
           \/ Cancel \/ Submit \/ SaveFails \/ SaveServed \/ SaveAnswered
    PROVE  EInv'
<1>0. /\ modal \in Form /\ save \in [st : {"idle", "sent", "served"}, form : Form]
      /\ seen' = {} => seen = {}
  BY DEF TInv, Formed
<1>1. CASE \E e \in Emails : OpenEdit(e)
  <2>1. PICK e \in Emails : OpenEdit(e)
    BY <1>1
  <2>2. /\ modal'.email = e /\ modal'.targets = SeedTargets(e) /\ modal'.dropped = {}
        /\ modal'.fresh => SeedTargets(e) = Attached(rows, e) \/ cache[All].data = rows
        /\ rows' = rows /\ save' = save /\ modal'.fresh => save.st = "idle"
    BY <2>1 DEF OpenEdit
  <2>3. modal'.fresh => \A c \in rows : c.email = e => c.inbound \in SeedTargets(e)
    BY <2>2 DEF SeedTargets, Attached
  <2> QED
    BY <1>0, <2>1, <2>2, <2>3 DEF EInv, Accounts, OpenEdit
<1>2. CASE \E e \in Emails : OpenCreate(e)
  <2>1. modal'.st = "create" /\ rows' = rows /\ save' = save
    BY <1>2 DEF OpenCreate, Closed
  <2> QED
    BY <1>0, <2>1 DEF EInv, Accounts
<1>3. CASE \E i \in Inbounds : Choose(i)
  <2>1. PICK i \in Inbounds : Choose(i)
    BY <1>3
  <2>2. /\ rows' = rows /\ save' = save
        /\ modal'.st = modal.st /\ modal'.email = modal.email /\ modal'.fresh = modal.fresh
        /\ modal.targets \cup modal.dropped \subseteq modal'.targets \cup modal'.dropped
    BY <1>0, <2>1 DEF Choose, Form
  <2> QED
    BY <1>0, <2>2 DEF EInv, Accounts
<1>4. CASE Cancel
  BY <1>0, <1>4, ClosedIsTyped DEF Cancel, EInv, Accounts
<1>5. CASE Submit
  <2>1. save'.st = "sent" /\ save'.form = modal /\ save.st = "idle" /\ modal' = modal /\ rows' = rows
    BY <1>5 DEF Submit
  <2> QED
    BY <1>0, <2>1 DEF EInv, Accounts
<1>6. CASE SaveFails
  <2>1. seen' # {}
    BY <1>6 DEF SaveFails, Suffer
  <2> QED
    BY <2>1 DEF EInv
<1>7. CASE SaveServed
  <2>1. save'.st = "served"
    BY <1>0, <1>7 DEF SaveServed
  <2> QED
    BY <2>1 DEF EInv
<1>8. CASE SaveAnswered
  <2>1. modal'.st = "closed" /\ save'.st = "idle"
    BY <1>8, ClosedIsTyped DEF SaveAnswered, NoSave
  <2> QED
    BY <2>1 DEF EInv
<1> QED
  BY <1>1, <1>2, <1>3, <1>4, <1>5, <1>6, <1>7, <1>8

LEMMA InitEInv == Init => EInv
  BY ClosedIsTyped DEF Init, EInv, NoSave

LEMMA StepEInv == TInv /\ EInv /\ [Next]_vars => EInv'
<1> SUFFICES ASSUME TInv, EInv, [Next]_vars PROVE EInv'
  OBVIOUS
<1>0. seen \subseteq seen'
  BY SeenGrows
<1>1. CASE \/ \E k \in Keys : Poll(k) \/ GetAnswered(k) \/ GetDelivered(k) \/ GetFails(k) \/ PickFilter(k)
           \/ \E o \in Ops : \/ \E kind \in Kinds, e \in Emails : Fan(o, kind, e)
                             \/ Settled(o)
           \/ \E e \in Emails : OpenShare(e)
           \/ \E i \in 1..MaxIds : SwitchInbound(i)
           \/ \E a \in asks : LinkServed(a) \/ LinkAnswered(a) \/ LinkFails(a)
           \/ CloseShare \/ RotateSubToken \/ RotateFails \/ RotateAnswered
           \/ UNCHANGED vars
  <2>1. UNCHANGED <<rows, forms>>
    BY <1>1 DEF Poll, GetAnswered, GetDelivered, GetFails, PickFilter, Fan, Settled, OpenShare, SwitchInbound,
         LinkServed, LinkAnswered, LinkFails, CloseShare, RotateSubToken, RotateFails, RotateAnswered, vars, forms
  <2> QED
    BY <1>0, <2>1, UntouchedStay, FormLeftAlone
<1>2. CASE \/ \E o \in Ops, i \in 1..MaxIds : ServeOne(o, i)
           \/ \E e \in Emails : QuotaTrips(e)
  <2>1. UNCHANGED forms
    BY <1>2 DEF ServeOne, QuotaTrips
  <2> QED
    BY <1>0, <1>2, <2>1, RewritesStay, FormLeftAlone
<1>3. CASE RotateServed
  <2>1. PICK r, u : r \in rows /\ u.id = r.id /\ u.email = r.email /\ u.inbound = r.inbound
                      /\ rows' = (rows \ {r}) \cup {u}
    BY <1>3, RotatedRow
  <2>2. Stays
    BY <2>1 DEF Stays, Kin
  <2>3. UNCHANGED forms
    BY <1>3 DEF RotateServed
  <2> QED
    BY <1>0, <2>2, <2>3, FormLeftAlone
<1>4. CASE \E i \in Inbounds, e \in Emails : ForeignAttach(e, i)
  <2>1. seen' # {}
    BY <1>4 DEF ForeignAttach, Suffer
  <2> QED
    BY <2>1 DEF EInv
<1>5. CASE \/ \E e \in Emails : OpenEdit(e) \/ OpenCreate(e)
           \/ \E i \in Inbounds : Choose(i)
           \/ Cancel \/ Submit \/ SaveFails \/ SaveServed \/ SaveAnswered
  BY <1>0, <1>5, FormStepsAccount
<1> QED
  BY <1>1, <1>2, <1>3, <1>4, <1>5 DEF Next, Kinds

LEMMA SpecEInv == Spec => []EInv
  BY SpecTInv, InitEInv, StepEInv, PTL DEF Spec

\* Only the panel's answer to a bulk-assign leaves the save served.
LEMMA ServedBySave ==
    ASSUME TInv, [Next]_vars, save.st = "sent", save'.st = "served"
    PROVE  SaveServed
<1>1. CASE UNCHANGED save
  BY <1>1
<1>2. CASE Submit \/ SaveAnswered \/ SaveFails
  BY <1>2 DEF Submit, SaveAnswered, SaveFails, NoSave
<1>3. UNCHANGED save \/ Submit \/ SaveAnswered \/ SaveFails \/ SaveServed
  BY DEF Next, vars, forms,
     Poll, GetAnswered, GetDelivered, GetFails, PickFilter, Fan, ServeOne, Settled, OpenEdit, OpenCreate,
     Choose, Cancel, OpenShare, SwitchInbound,
     LinkServed, LinkAnswered, LinkFails, CloseShare, RotateSubToken, RotateServed, RotateAnswered, RotateFails, QuotaTrips, ForeignAttach
<1> QED
  BY <1>1, <1>2, <1>3

\* A save detaches the email from no inbound the operator left selected, however
\* the table was filtered and whatever was read, toggled or deleted while the form
\* was open (Clients.tsx, the seeding of the form; api/clients.rs, bulk_assign).
THEOREM AttachmentsKept == Spec => EditKeepsAttachments
<1>1. TInv /\ EInv /\ [Next]_vars =>
         [(seen = {} /\ save.st = "sent" /\ save'.st = "served" /\ save.form.st = "edit"
             /\ save.form.fresh)
           => \A c \in rows : (c.email = save.form.email /\ c.inbound \notin save.form.dropped)
                => \E d \in rows' : d.id = c.id]_vars
  <2> SUFFICES ASSUME TInv, EInv, [Next]_vars,
                      seen = {}, save.st = "sent", save'.st = "served", save.form.st = "edit",
                      save.form.fresh,
                      NEW c \in rows, c.email = save.form.email, c.inbound \notin save.form.dropped
               PROVE  \E d \in rows' : d.id = c.id
    OBVIOUS
  <2>1. BulkAssign(save.form) /\ save.form \in Form
    BY ServedBySave DEF SaveServed, TInv, Formed
  <2>2. c.inbound \in save.form.targets
    BY DEF EInv, Accounts
  <2>3. [c EXCEPT !.note = save.form.note] \in rows'
    BY <2>1, <2>2, AssignedRows
  <2>4. [c EXCEPT !.note = save.form.note].id = c.id
    BY DEF TInv, Stored, Row
  <2> QED
    BY <2>3, <2>4
<1> QED
  BY <1>1, SpecTInv, SpecEInv, PTL DEF Spec, EditKeepsAttachments
=============================================================================
